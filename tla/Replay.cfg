SPECIFICATION Spec
\* The stream is bounded by MaxTotal, so the model stops there.
CHECK_DEADLOCK FALSE
CONSTANTS
    Capacity = 5
    Limit = 4
    MaxAppend = 7
    MaxTotal = 10
INVARIANTS
    TypeOK
    ReadExact
    ResumesRight
PROPERTY KeepsRecentOutput
