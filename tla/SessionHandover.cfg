SPECIFICATION Spec
SYMMETRY Symmetry
\* Connections, sessions and output are bounded and the server may exit, so the
\* model stops.
CHECK_DEADLOCK FALSE
CONSTANTS
    Conns = {c1, c2, c3}
    Ids = {s1, s2}
    None = None
    Capacity = 2
    Limit = 1
    ReadMax = 1
    Chunk = 1
    InitialMessages = 1
    PtyBuffer = 1
    MaxWritten = 1
    MaxClients = 0
    SessionTimeout = TRUE
    Once = FALSE
    ExitNoConn = FALSE
    Writable = TRUE
    Password = FALSE
    MallocFails = FALSE
    SpuriousReads = FALSE
INVARIANTS
    TypeOK
    LinksConsistent
    NoOrphan
PROPERTIES
    SupersededStaysOut
    KilledOnlyWhenAlone
