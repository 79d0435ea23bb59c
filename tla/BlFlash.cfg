CONSTANTS
    old = old
    new = new
    New = new
    Image <- Images
    ImgCells <- ImageEnds
    Version <- Versions
    Cells = 5
    HdrCells = 1
    RegionCells = 2
    Gran = 1
    Writes <- UpdateWrites
    Erasable <- BothSlots
    Blank = Blank
    Junk = Junk
    Conflict = Conflict
    None = None
    ChunkCells = 2
    Retries = 3
    MaxRestarts = 2
    Scenarios <- AllStarts
SPECIFICATION FlashFairSpec
INVARIANTS FlashTypeOK StaysBootable SuccessMeansInstalled NoDoubleProgram
PROPERTIES BootSlotKept CommandEnds
CHECK_DEADLOCK FALSE
