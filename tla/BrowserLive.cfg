SPECIFICATION FairSpec
\* What users do and what goes wrong is bounded, so the model stops.
CHECK_DEADLOCK FALSE
CONSTANTS
    Tabs = {t1, t2}
    Conns = {c1, c2}
    Ids = {1, 2, 3}
    None = None
    Capacity = 2
    Limit = 1
    ReadMax = 1
    Locks = TRUE
    MaxOutput = 1
    MaxActs = 2
    MaxFaults = 1
PROPERTIES
    PageSettles
