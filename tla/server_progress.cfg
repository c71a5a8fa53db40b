SPECIFICATION FairSpec
CONSTANTS
    MaxClients = 2
    MaxFds = 3
    Backlog = 1
    BufCap = 1
    MaxRequests = 1
    FirstPort = 1111
    p1 = p1
    p2 = p2
    p3 = p3
    ann = ann
    bob = bob
    cat = cat
    secret = secret
    typo = typo
    team = team
    other = other
    NoName = NoName
    NoPassword = NoPassword
    Watched = {p1}
    Free = Free
    File = File
    Procs = {p1, p2, p3}
    Users = {ann, bob}
    Passwords = {secret, typo}
    GroupNames = {team}
    Accounts <- AllAccounts
    Logins <- ProgressLogins
    Commands <- ProgressCommands
    InitialGroups <- NoGroups
PROPERTIES CallersAreTaken RequestsAreRead DeadAreDropped HandlersEnd
CHECK_DEADLOCK FALSE
