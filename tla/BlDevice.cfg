CONSTANTS
    good = good
    deaf = deaf
    Image <- Images
    Version <- Versions
    Refused <- RefusedImages
    Invalid = Invalid
    None = None
    Blank = Blank
    Junk = Junk
    BL_MAX_BOOT_ATTEMPTS = 2
    SeqMod = 16
    MaxSeq = 8
    MaxFaults = 1
    MaxUpdates = 2
SPECIFICATION DeviceSpec
PROPERTIES RefinesBoot ConfirmationLasts
