SPECIFICATION FairSpec
CONSTANTS
    NumClients = 2
    MAXUSER = 1
    MAXSEAT = 2
    Passwords = {1, 2}
    HangUps = TRUE
    ForeignLogouts = TRUE
INVARIANTS
    TypeOK
    NoCircularWait
    DecisionsStand
    
PROPERTIES
    ImplementsBooking
    RepliesKeepComing
