SPECIFICATION Spec
CONSTANTS
    Ids <- FourIds
    Sizes <- UpToTwo
    None = None
CHECK_DEADLOCK FALSE
INVARIANTS
    PagesMatchReference
    ReadsInOrder
    ReadsAllOwed
PROPERTIES
    ReadingEnds
