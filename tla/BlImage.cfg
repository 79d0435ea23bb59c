CONSTANTS
    WordMod = 64
    HDR_STRUCT_SIZE = 3
    BL_IMG_HDR_REGION = 4
    WRITE_GRANULARITY = 2
    BL_CRC_CHUNK = 3
    VectorBytes = 2
    slot_base <- SlotBases
    slot_size = 12
    FLASH_BASE = 8
    FLASH_SIZE = 32
    SRAM_BASE = 48
    SRAM_END = 56
    Inputs <- InputLengths
    Files <- SomeFiles
    Vectors <- SomeVectors
    Tables <- SomeTables
    Regions <- SomeRegions
    Blank = Blank
    None = None
SPECIFICATION Spec
INVARIANTS TypeOK ReadsInside VerdictExact ToolAgrees BuiltIsAccepted JumpsIntoImage OnlyVectorsRefused LookupExact
CHECK_DEADLOCK FALSE
