----------------------------- MODULE MCEmulate -----------------------------
(* Instances of Emulate for TLC.  All the parts acting at once have too    *)
(* many states, so a run plays games: in each only some of the machine is  *)
(* free to act, and every game is held to the same properties.             *)
EXTENDS Emulate

CONSTANT Games   \* the games a run plays

VARIABLE game    \* the one that is played

(* Values written to IMS: everything open, everything masked; or only the  *)
(* sources of interest open.                                               *)
OpenOrShut  == {{}, Source}
Only(S)     == {Source \ S, Source}
TimerMasks  == Only({"Timer0", "Timer1"})
DmaOpen     == {Source \ {"DMA0End", "DMA1End", "DMA2End"}}
DeviceMasks == Only({"SoundRequest", "SystemManager", "DrawEnd", "ExtInt00"})
BlankMasks  == Only({"VBlankIN", "HBlankIN"})

(* Values written to IST: everything cleared, VBlank-OUT cleared.          *)
IrqKept == {{}, Source \ {"VBlankOUT"}}

TimerModes == [enable : BOOLEAN, line : BOOLEAN]

(* A request of an on-chip module, at the level of DMA 1.                  *)
OneOnChip == {[vec |-> 100, level |-> 6]}

(* Transfers of a burst and a bit, of the whole range (count 0), from the  *)
(* CD block, and by tables: one with an entry of 0 that is passed in the   *)
(* middle of a burst, one with an entry of 0 where a burst ends, which     *)
(* stops the channel.                                                      *)
DmaTransfers == {[count |-> 5, cd |-> FALSE, list |-> <<1, 0, 5>>],
                 [count |-> 0, cd |-> TRUE,  list |-> <<3, 0, 1>>]}

TableTransfer == {[count |-> 0, cd |-> FALSE, list |-> <<1, 0, 3>>]}

(* Started by the program or by HBlank-IN, direct or by table.             *)
DirectModes == [factor : {StartByProgram, 2}, indirect : {FALSE}]
TableMode   == [factor : {StartByProgram}, indirect : {TRUE}]
DmaModes    == [factor : {StartByProgram, 2}, indirect : BOOLEAN]

-----------------------------------------------------------------------------
(* The games, each a machine in which only some parts act.                  *)

Nobody ==
    [devices |-> {}, commands |-> {}, restarts |-> FALSE, onChip |-> {},
     height |-> 2, blanks |-> {}, masks |-> {}, statuses |-> {}, levels |-> {},
     compares |-> {}, presets |-> {}, modes |-> {},
     channels |-> {}, transfers |-> {}, dmaModes |-> {}]

(* Writes to IMS and IST against the blanking.                             *)
RegisterWrites ==
    [Nobody EXCEPT !.masks = OpenOrShut, !.statuses = IrqKept,
                   !.levels = {0, 15}]

(* The slave started and stopped, the clock changed, the machine restarted *)
SlaveControl ==
    [Nobody EXCEPT !.commands = {"SSHON", "SSHOFF", "CKCHG"},
                   !.restarts = TRUE, !.masks = BlankMasks, !.levels = {0}]

(* Three devices, one of them on the A-bus; three, and the NMI.            *)
ThreeDevices ==
    [Nobody EXCEPT !.devices = {"SoundRequest", "DrawEnd", "ExtInt00"},
                   !.masks = DeviceMasks, !.blanks = {1, 3}]
DevicesAndNmi ==
    [Nobody EXCEPT !.devices = {"SystemManager", "DrawEnd", "DSPEnd"},
                   !.commands = {"NMIREQ"}, !.masks = DeviceMasks]

(* The timers against the lines of the picture.                            *)
Clocks ==
    [Nobody EXCEPT !.height = 3, !.masks = TimerMasks,
                   !.compares = {0, 1, 501}, !.presets = {1, 2},
                   !.modes = TimerModes]

(* Two channels of the SCU's DMA, moving the whole range, or by tables.    *)
TwoChannels ==
    [Nobody EXCEPT !.masks = DmaOpen, !.channels = {0, 1},
                   !.dmaModes = DirectModes]
TwoTables ==
    [Nobody EXCEPT !.masks = DmaOpen, !.channels = {0, 1},
                   !.transfers = TableTransfer, !.dmaModes = TableMode]

(* A program that masks interrupts, an on-chip module and the slave.       *)
Masked ==
    [Nobody EXCEPT !.commands = {"SSHON", "SSHOFF"}, !.onChip = OneOnChip,
                   !.masks = BlankMasks, !.levels = {0, 15}]

(* One channel of the DMA, in every mode.                                  *)
OneChannel ==
    [Nobody EXCEPT !.masks = DmaOpen, !.levels = {0}, !.channels = {1},
                   !.transfers = DmaTransfers, !.dmaModes = DmaModes]

(* A program that opens and shuts the blankings and timer 0 and moves the  *)
(* line timer 0 matches.                                                   *)
MovingLine ==
    [Nobody EXCEPT !.blanks = {1}, !.compares = {0, 1, 2},
                   !.masks = Only({"VBlankIN", "VBlankOUT", "Timer0"}),
                   !.modes = {[enable |-> TRUE, line |-> TRUE]}]

InterruptGames == {RegisterWrites, SlaveControl, ThreeDevices, DevicesAndNmi,
                   Clocks, MovingLine, TwoChannels, TwoTables}
EndlessGames   == {Masked, OneChannel}
RegisterGames  == {RegisterWrites}

Play(g) ==
    INSTANCE Emulate WITH
        Devices <- g.devices, Commands <- g.commands, HostResets <- g.restarts,
        OnChip <- g.onChip, MaxLineCount <- g.height, VBlankLines <- g.blanks, MaskWrites <- g.masks,
        StatusWrites <- g.statuses, LevelWrites <- g.levels,
        CompareWrites <- g.compares, PresetWrites <- g.presets,
        ModeWrites <- g.modes, Channels <- g.channels,
        TransferWrites <- g.transfers, DmaModeWrites <- g.dmaModes

MCInit == game \in Games /\ Init
Plays(g) == game = g /\ UNCHANGED game
MCNext ==
    \/ \E g \in Games : Plays(g) /\ Play(g)!Loop
    \/ \E g \in Games, p \in CPU : Plays(g) /\ Play(g)!Access(p)
    \/ \E g \in Games : Plays(g) /\ (Play(g)!SoundRequest \/ Play(g)!CdInterrupt)
    \/ \E g \in Games : Plays(g) /\ Play(g)!HostReset
MCSpec == MCInit /\ [][MCNext]_<<vars, game>>
MCFairSpec == MCSpec /\ WF_phase(Advance)

=============================================================================
