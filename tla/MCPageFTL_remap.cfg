SPECIFICATION Spec
CONSTANTS
    N_BANKS = 1
    BLKS_PER_BANK = 3
    PAGES_PER_BLK = 2
    SECTORS_PER_PAGE = 2
    OP_RATIO = 7
    Word = {a}
    Blank = Blank
    Junk = Junk
    Erased = Erased
    MaxSect = 4
INVARIANTS
    TypeOK
    MappedPagesAreCurrent
    ValidPagesAreMapped
    ProgramsSucceed
    CollectionReclaims
PROPERTIES
    ImplementsDisk
