SPECIFICATION Spec
CONSTANTS
    c1 = c1
    c2 = c2
    c3 = c3
    ann = ann
    bob = bob
    cat = cat
    text = text
    digits = digits
    long = long
    team = team
    NoOne = NoOne
    NoName = NoName
    Clients = {c1, c2, c3}
    UserOf <- Names
    Lines <- OnlyMessages
    TooLong <- Overlong
    MaxLines = 2
    ShortTexts <- Short
    NumberOf <- Numbers
    Slots = {1, 2, 3}
    Seated <- Seats
    Doubtful = {c1}
    Listed = {ann, bob}
    Leftovers <- OldRequests
    Garbage <- OldNumbers
    Stoppable = {c2}
    Rooted = {c1, c2}
    Certified = {c1, c2, c3}
    BusyPorts = {}
    SilentPorts = {}
    FirstPorts <- FirstPort
    PortSpace = 65536
    BufCap = 1
INVARIANT ShownToAddressee
CHECK_DEADLOCK FALSE
