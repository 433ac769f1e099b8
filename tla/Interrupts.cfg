SPECIFICATION MCSpec
CONSTANTS
    MaxCount0 = 5
    MaxCount12 = 5
    Burst = 2
    TimerTick = 1
    DecilineNum = 2
    MaxLineCount = 3
    VBlankLines = {1}
    ResetVBlankLine = 1
    Devices = {"DSPEnd", "SoundRequest", "SystemManager", "DrawEnd", "ExtInt00"}
    Commands = {"SSHON", "SSHOFF", "CKCHG", "NMIREQ"}
    HostResets = TRUE
    OnChip <- OneOnChip
    MaxInterrupts = 15
    MaskWrites <- OpenOrShut
    StatusWrites <- IrqKept
    LevelWrites = {0, 15}
    CompareWrites = {0, 1, 2, 501}
    PresetWrites = {1, 2}
    ModeWrites <- TimerModes
    Channels = {0, 1}
    TransferWrites <- DmaTransfers
    DmaModeWrites <- DmaModes
    Games <- InterruptGames
INVARIANTS
    TypeOk
    QueuesOk
    VBlankInOnlyInVBlank
    StoppedSlaveIsClean
PROPERTIES
    PendingTimersCurrent
    OnlyUnmaskedPresented
    HighestGoesFirst
    AcceptsHighest
    DmaEndReported
    HeldUntilPresented
