\* Every history of 12 blocks, on pages of two and of three cells.
SPECIFICATION PagesSpec
CONSTANTS
    PageSizes = {2, 3}
    Values = {1, 3}
    MaxBlock = 12
INVARIANTS
    RangeSumsExact
CHECK_DEADLOCK FALSE
