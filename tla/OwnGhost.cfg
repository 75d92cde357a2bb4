SPECIFICATION Spec
SYMMETRY Symmetry
\* What users do and what goes wrong is bounded, so the model stops.
CHECK_DEADLOCK FALSE
CONSTANTS
    Tabs = {t1}
    Conns = {c1, c2, c3}
    Ids = {1, 2}
    None = None
    Capacity = 2
    Limit = 1
    ReadMax = 1
    Locks = TRUE
    MaxOutput = 2
    MaxActs = 1
    MaxFaults = 2
PROPERTIES
    TakenByAnotherTab
