SPECIFICATION Spec
CONSTANTS
    MaxClients = 2
    MaxFds = 4
    Backlog = 1
    BufCap = 1
    MaxRequests = 3
    FirstPort = 1111
    p1 = p1
    p2 = p2
    p3 = p3
    ann = ann
    bob = bob
    cat = cat
    secret = secret
    typo = typo
    team = team
    other = other
    NoName = NoName
    NoPassword = NoPassword
    Watched = {}
    Free = Free
    File = File
    Procs = {p1, p2}
    Users = {ann, bob, cat}
    Passwords = {secret, typo}
    GroupNames = {team, other}
    Accounts <- AllAccounts
    Logins <- GroupLogins
    Commands <- GroupCommands
    InitialGroups <- TeamTwice
CONSTRAINT CleanLeaves
INVARIANT SenderGetsNoCopy
CHECK_DEADLOCK FALSE
