CONSTANTS
    BL_SOF = 2
    BL_MAX_PAYLOAD = 4
    ByteMod = 8
    Cmds <- SomeCmds
    Payloads <- SomePayloads
    Noise <- SomeNoise
    CrcValue <- CrcValues
    MaxFrames = 3
    MaxHits = 2
SPECIFICATION Spec
INVARIANTS TypeOK DeliversSent CleanLineLosesNothing ToolRecovers
CHECK_DEADLOCK FALSE
