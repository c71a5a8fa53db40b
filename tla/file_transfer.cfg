SPECIFICATION FairSpec
CONSTANTS
    c1 = c1
    c2 = c2
    annPng = annPng
    NoClient = NoClient
    NoFile = NoFile
    Clients = {c1, c2}
    Shelves = {annPng}
    Senders = {c1, c2}
    Stoppable = {c1}
    Unlucky = {c2}
    Takes <- FourFiles
    SizeLimit = 4
    BlockSize = 3
    MessageSize = 2
    LastIndex = 3
    Stored <- Gap
    MaxRequests = 2
    MaxCuts = 1
INVARIANTS
    TypeOK
    ToldMeansKept
    KeepsStep
PROPERTIES
    StoreOnlyGrows
    OthersAreServed
CHECK_DEADLOCK FALSE
