SPECIFICATION FairSpec
CONSTANTS
    Urls <- MCUrls
    LocalFile = LocalFile
    Doc <- MCDoc
    NoFlag = NoFlag
    MaxGens = 2
    MaxParses = 2
    MaxFetchers = 2
    MaxEvents = 2
    u1 = u1
    u2 = u2
INVARIANT
    TypeOK
PROPERTIES
    IncludeIsFresh
    
    RemoteSynced
    StoppedFetcherEnds
CHECK_DEADLOCK FALSE
