SPECIFICATION Spec
CONSTANTS
    N_BANKS = 2
    BLKS_PER_BANK = 2
    PAGES_PER_BLK = 2
    Page = {p, q}
    Zero = Zero
INVARIANT
    OnePosition
PROPERTY
    ImplementsBankErasedDevice
