SPECIFICATION Spec
CONSTANTS
    NBANK = 2
    NBLK = 3
    NPAGE = 2
    DEG_ZONE = 2
    MAX_OPEN_ZONE = 1
    NSECT = 2
    Word = {a}
    Zero = Zero
    Blank = Blank
    Junk = Junk
    Erased = Erased
    CopyLists <- SomeLists
    TLMaps <- FullMaps
INVARIANTS
    OpenCountIsExact
