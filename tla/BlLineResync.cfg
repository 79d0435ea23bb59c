CONSTANTS
    BL_SOF = 2
    BL_MAX_PAYLOAD = 16
    ByteMod = 32
    Cmds <- OneCmd
    Payloads <- NoPayload
    Noise <- LongLength
    CrcValue <- NoMarker
    MaxFrames = 3
    MaxHits = 1
SPECIFICATION Spec
INVARIANTS LosesAtMostOne
CHECK_DEADLOCK FALSE
