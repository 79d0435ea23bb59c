CONSTANTS
    good = good
    newer = newer
    deaf = deaf
    Image <- Images
    Version <- Versions
    Refused <- RefusedImages
    Invalid = Invalid
    None = None
    BL_MAX_BOOT_ATTEMPTS = 2
    MaxFaults = 0
    MaxUpdates = 1
SPECIFICATION Spec
INVARIANTS ConfirmsRunning
