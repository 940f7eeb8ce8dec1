\* The rows written under each template, with every kind of source cell.
SPECIFICATION Spec
CONSTANTS
    Requests <- MCRequests
    MaxRows = 1
    MaxOdd = 1
INVARIANT
    FilledIsKept
CHECK_DEADLOCK FALSE
