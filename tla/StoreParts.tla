----------------------------- MODULE StoreParts -----------------------------
(***************************************************************************)
(* What follows the notes from a store of its own, and what comes in from  *)
(* outside: the semantic index of a server, its graph of entities, the     *)
(* files of a user's devices on the server, on a device the directory of   *)
(* attached files that imports write to, one of those files on its disk,   *)
(* and the content of a Logseq graph on its way into an empty workspace.   *)
(* They share nothing with each other; as in DeviceParts one of them moves.*)
(***************************************************************************)
EXTENDS AiIndex, Entities, Imports, Blobs, BlobFiles, LogseqImport

VARIABLE part   \* the one that moves

Movers == {"index", "entities", "imports", "blobs", "files", "logseq"}

partVars == <<part, aiVars, entityVars, importVars, blobVars, fileVars, logseqVars>>

\* Only the import tells one graph from another, only uploads what a server
\* holds, only calls of the file store what is on disk.
PartsInit ==
    /\ part \in Movers
    /\ AiInit /\ EntityInit /\ ImportInit /\ BlobInit /\ FileInit /\ LogseqInit
    /\ part # "blobs" => installed = {} /\ quota = CHOOSE n \in Quotas : TRUE
    /\ part # "files" => made = 0
    /\ part # "logseq" => case = CHOOSE c \in Cases : TRUE

PartsNext ==
    /\ UNCHANGED part
    /\ \/ part = "index" /\ AiNext /\ UNCHANGED <<entityVars, importVars, blobVars, fileVars, logseqVars>>
       \/ part = "entities" /\ EntityNext /\ UNCHANGED <<aiVars, importVars, blobVars, fileVars, logseqVars>>
       \/ part = "imports" /\ ImportNext /\ UNCHANGED <<aiVars, entityVars, blobVars, fileVars, logseqVars>>
       \/ part = "blobs" /\ BlobNext /\ UNCHANGED <<aiVars, entityVars, importVars, fileVars, logseqVars>>
       \/ part = "files" /\ FileNext /\ UNCHANGED <<aiVars, entityVars, importVars, blobVars, logseqVars>>
       \/ part = "logseq" /\ LogseqNext /\ UNCHANGED <<aiVars, entityVars, importVars, blobVars, fileVars>>

PartsSpec == PartsInit /\ [][PartsNext]_partVars
=============================================================================
