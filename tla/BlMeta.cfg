CONSTANTS
    None = None
    Blank = Blank
    Junk = Junk
    BL_MAX_BOOT_ATTEMPTS = 1
    SeqMod = 8
    MaxSeq = 5
SPECIFICATION Spec
INVARIANTS TypeOK MetaInv
PROPERTIES RefinesRegister CommitKeepsNeighbours
