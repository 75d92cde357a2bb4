SPECIFICATION FairSpec
CONSTANTS
    p1 = p1
    p2 = p2
    None = None
    Procs <- MCOneProc
    Lines <- MCJoinedLines
    Edits <- MCEdits
    Cuts <- MCCuts
    PasswordMax = 4
    Generated <- MCGenerated
    Numbers <- MCNumbers
    Negatives <- MCNegatives
    SignalNames <- MCSignalNames
    Files <- MCFiles
    KeyValues <- MCKeyValues
    RootPaths <- MCRootPaths
PROPERTIES
    StartEnds
