SPECIFICATION Spec
CONSTANTS
    BLKS_PER_BANK = 5
    PAGES_PER_BLK = 3
    N_USER_BLOCKS_PB = 1
    N_USER_OP_BLOCKS_PB = 2
    N_MAP_ENTRIES_PER_PAGE = 2
    N_SLOT_PB = 1
    SECTORS_PER_PAGE = 1
    N_BUFFERS = 2
    Word = {a}
    Blank = Blank
    Junk = Junk
    Erased = Erased
    MaxSect = 3
INVARIANTS
    TypeOK
    MappedPagesAreCurrent
    DirectoryIsCurrent
    ValidPagesAreCurrent
    NoDuplicates
    RegionsApart
    ProgramsSucceed
    CollectionsReclaim
PROPERTIES
    MappingIsStable
    ImplementsDisk
