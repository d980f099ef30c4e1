SPECIFICATION Spec
CONSTANTS
    NumClients = 2
    MAXUSER = 2
    MAXSEAT = 1
    Passwords = {1}
    HangUps = FALSE
    ForeignLogouts = TRUE
INVARIANTS
    TablesInverse
