SPECIFICATION MCFairSpec
CONSTANTS
    MaxCount0 = 6
    MaxCount12 = 6
    Burst = 2
    TimerTick = 1
    DecilineNum = 2
    MaxLineCount = 2
    VBlankLines = {1, 3}
    ResetVBlankLine = 1
    Devices = {"DSPEnd", "SoundRequest", "SystemManager", "DrawEnd", "ExtInt00"}
    Commands = {"SSHON", "SSHOFF", "CKCHG", "NMIREQ"}
    HostResets = TRUE
    OnChip <- OneOnChip
    MaxInterrupts = 15
    MaskWrites <- OpenOrShut
    StatusWrites <- IrqKept
    LevelWrites = {0, 15}
    CompareWrites = {0, 1, 501}
    PresetWrites = {1, 2}
    ModeWrites <- TimerModes
    Channels = {1}
    TransferWrites <- DmaTransfers
    DmaModeWrites <- DmaModes
    Games <- EndlessGames
INVARIANTS
    QueuesFit
    TransfersSettle
PROPERTIES
    VBlankInTaken
    DmaEnds
