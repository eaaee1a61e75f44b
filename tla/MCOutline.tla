----------------------------- MODULE MCOutline -----------------------------
(* The outline of a page with three blocks and one more to create. *)
EXTENDS Outline

CONSTANT p1

OnePage == [b \in Blocks |-> p1]
Old == 1..3

Parents == [Old -> Old \cup {None}]

\* No block above itself: written one after the other by one device.
Trees == {f \in Parents : \A b \in Old : f[b] = None \/ f[b] < b}

\* Keys that are equal, neighbours, far apart, at either end.
KeyRows == {<<2, 4, 6>>, <<4, 4, 5>>, <<0, 1, 9>>, <<9, 8, 3>>}

TreePlaces == {[b \in Old |-> [at |-> 2 * b + 4, parent |-> f[b], key |-> k[b]]] : f \in Trees, k \in KeyRows}

\* Two concurrent moves made a cycle of the first two blocks.
CyclePlaces ==
  {[b \in Old |-> [at |-> 2 * b + 4, parent |-> IF b = 3 THEN up ELSE 3 - b, key |-> 2]] : up \in {None, 1, 2}}

AllPlaces == TreePlaces \cup CyclePlaces
=============================================================================
