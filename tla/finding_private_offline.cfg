SPECIFICATION Spec
CONSTANTS
    MaxClients = 2
    MaxFds = 3
    Backlog = 2
    BufCap = 2
    MaxRequests = 2
    FirstPort = 1111
    p1 = p1
    p2 = p2
    p3 = p3
    ann = ann
    bob = bob
    cat = cat
    secret = secret
    typo = typo
    team = team
    other = other
    NoName = NoName
    NoPassword = NoPassword
    Watched = {}
    Free = Free
    File = File
    Procs = {p1, p2, p3}
    Users = {ann, bob}
    Passwords = {secret, typo}
    GroupNames = {team}
    Accounts <- AllAccounts
    Logins <- GroupLogins
    Commands <- OnlyPrivate
    InitialGroups <- NoGroups
CONSTRAINT CleanLeaves
INVARIANT PrivateOnlyToOnline
CHECK_DEADLOCK FALSE
