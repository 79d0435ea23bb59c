CONSTANTS
    good = good
    newer = newer
    deaf = deaf
    Image <- Images
    Version <- Versions
    Refused <- RefusedImages
    Invalid = Invalid
    None = None
    BL_MAX_BOOT_ATTEMPTS = 3
    MaxFaults = 1
    MaxUpdates = 3
SPECIFICATION FairSpec
INVARIANTS TypeOK TrialInv AttemptBound RunsNominated
PROPERTIES SwitchesToValid TrialEnds
