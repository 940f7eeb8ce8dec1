\* Every request, and a chunk of two rows with two odd cells under each template.
SPECIFICATION Spec
CONSTANTS
    Requests <- MCRequests
    MaxRows = 2
    MaxOdd = 2
INVARIANTS
    AcceptedRuns
    ReportedOnce
    WrittenIsWhole
CHECK_DEADLOCK FALSE
