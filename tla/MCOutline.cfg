CONSTANTS
    p1 = p1
    None = None
    Page = p1
    Pages = {p1}
    Journals = {}
    Titles = {}
    Blocks = {1, 2, 3, 4}
    PageOf <- OnePage
    Step = 2
    MaxKey = 9
    Places <- AllPlaces
    LocalLimit = 1
    RemoteLimit = 1
SPECIFICATION Spec
INVARIANTS PlacedAsAsked StillInPlace
CHECK_DEADLOCK FALSE
