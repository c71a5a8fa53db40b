SPECIFICATION FairSpec
CONSTANTS
    c1 = c1
    c2 = c2
    ann = ann
    bob = bob
    pw = pw
    key = key
    NoName = NoName
    Nobody = Nobody
    Owner = Owner
    Missing = Missing
    Clients = {c1, c2}
    Names = {ann, bob}
    Passwords = {pw, key}
    InitialFiles <- SomeFiles
    MaxChildren = 2
    Unlucky = {c2}
INVARIANTS TypeOK ToldMeansStored GrantedOnce CertificateFits
PROPERTIES TakenNameKeepsItsKey NewcomersAreCertified
CHECK_DEADLOCK FALSE
