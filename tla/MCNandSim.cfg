SPECIFICATION Spec
CONSTANTS
    N_BANKS = 1
    BLKS_PER_BANK = 2
    PAGES_PER_BLK = 3
    Page = {p, q}
    Erased = Erased
INVARIANTS
    TypeOK
    WrittenPrefix
PROPERTIES
    ImplementsDevice
