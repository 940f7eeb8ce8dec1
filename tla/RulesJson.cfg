\* Create requests for the columns the catalog offers.
SPECIFICATION Spec
CONSTANTS
    Requests <- MCRequests
    MaxRows = 1
    MaxOdd = 0
INVARIANT
    EveryOfferedColumnCasts
CHECK_DEADLOCK FALSE
