CONSTANTS
    small = small
    large = large
    Image <- OneImage
    ImgCells <- OneImageEnds
    Cells = 5
    HdrCells = 1
    RegionCells = 2
    Gran = 2
    Writes <- ToolWrites
    Erasable <- BothSlots
    Blank = Blank
    Junk = Junk
    Conflict = Conflict
    None = None
SPECIFICATION Spec
INVARIANTS TypeOK NoDoubleProgram SessionInv
PROPERTIES IntactUntilErased
