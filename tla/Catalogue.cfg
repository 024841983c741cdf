CONSTANTS
    Items <- MCItems
    Danger <- MCDanger
    Pages <- MCPages
    Tried <- MCTried
    Contents <- MCContents
    MaxCount = 125
    MaxWrites = 2
SPECIFICATION CatalogueSpec
INVARIANTS ShownIsAsked PageIsTrue RangesServe
PROPERTIES OthersKept
CHECK_DEADLOCK FALSE
