CONSTANTS
    small = small
    large = large
    Image <- Images
    ImgCells <- ImageEnds
    Cells = 4
    HdrCells = 1
    RegionCells = 2
    Gran = 2
    Writes <- AnyWrites
    Erasable <- OneSlot
    Blank = Blank
    Junk = Junk
    Conflict = Conflict
    None = None
SPECIFICATION Spec
INVARIANTS NoDoubleProgram
