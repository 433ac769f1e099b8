------------------------------ MODULE Emulate ------------------------------
(***************************************************************************)
(* YabauseEmulate (yabause.c): the loop that runs the two SH-2s, the SCU,  *)
(* the video timing, the SMPC and the CD block in turns, one deciline at a *)
(* time, and the interrupts that pass between them.  Everything runs on    *)
(* one host thread; what is open is what the emulated programs do in their *)
(* slices and what the devices report.                                     *)
(***************************************************************************)
EXTENDS Scu

CONSTANTS
    DecilineNum,     \* declinenum, decilines in a line
    MaxLineCount,    \* lines in a frame
    VBlankLines,     \* what TVMD can make of VBlankLineCount
    ResetVBlankLine, \* what Vdp2Reset makes of it
    Devices,         \* the devices that raise interrupts by themselves
    Commands,        \* the SMPC commands the program gives
    HostResets,      \* whether the user may restart the machine
    OnChip,          \* requests of the SH-2's own modules
    MaxInterrupts,   \* MAX_INTERRUPTS, the length of iqr[]
    MaskWrites,      \* values the program writes to IMS,
    StatusWrites,    \* to IST (the bits left standing),
    LevelWrites,     \* to SR.I,
    CompareWrites,   \* to T0C,
    PresetWrites,    \* to T1S,
    ModeWrites,      \* to T1MD,
    Channels,        \* the DMA channels it uses,
    TransferWrites,  \* what it writes to their count and address registers
    DmaModeWrites    \* and to DnMD

(* Every vector that is ever passed to sh2_SetInterrupt; the SCU's own are *)
(* fourteen with the NMI's, and the rest are the numbers the program gives *)
(* the on-chip modules.                                                    *)
AllVectors ==
    {Vector[s] : s \in Source} \cup {NMIVector} \cup {r.vec : r \in OnChip}
        \cup {SlaveCopy[s].vec : s \in DOMAIN SlaveCopy}

ASSUME EmulateAssumption ==
    /\ DecilineNum \in Nat \ {0, 1}
    /\ MaxLineCount \in Nat \ {0}
    /\ VBlankLines \subseteq Nat \ {MaxLineCount}
    /\ ResetVBlankLine \in Nat \ {MaxLineCount}
    /\ Devices \subseteq {"DSPEnd", "SoundRequest", "SystemManager",
                          "DrawEnd", "ExtInt00"}
    /\ Commands \subseteq {"SSHON", "SSHOFF", "CKCHG", "NMIREQ"}
    /\ HostResets \in BOOLEAN
    /\ OnChip \subseteq Request
    /\ IsFiniteSet(OnChip)
    /\ MaxInterrupts \in Nat
    /\ Cardinality(AllVectors) <= MaxInterrupts
    /\ MaskWrites \subseteq SUBSET Source
    /\ StatusWrites \subseteq SUBSET Source
    /\ LevelWrites \subseteq 0 .. 15
    /\ CompareWrites \subseteq Nat
    /\ PresetWrites \subseteq Nat
    /\ ModeWrites \subseteq [enable : BOOLEAN, line : BOOLEAN]
    /\ Channels \subseteq Channel
    /\ TransferWrites \subseteq [count : Nat, cd : BOOLEAN, list : Table]
    /\ DmaModeWrites \subseteq [factor : 0 .. 7, indirect : BOOLEAN]

VARIABLES
    scu,             \* interrupt controller, DMA and timers
    sr,              \* SR.I of each SH-2
    phase,           \* how far the loop has come
    decilineCount,   \* yabsys.DecilineCount
    lineCount,       \* yabsys.LineCount
    vblankLine,      \* yabsys.VBlankLineCount
    vblank           \* TVSTAT bit 3, the vertical blanking flag

vars == <<scu, sr, phase, decilineCount, lineCount, vblankLine, vblank>>

raster == <<decilineCount, lineCount, vblankLine, vblank>>

Phase == {"msh2", "msh2 runs", "ssh2", "ssh2 runs", "sound", "scu",
          "raster", "smpc", "cd"}

irq == scu.irq

Init ==
    /\ scu = InitScu
    /\ sr = [p \in CPU |-> 15]
    /\ phase = "msh2"
    /\ decilineCount = 0
    /\ lineCount = 0
    /\ vblankLine = ResetVBlankLine
    /\ vblank = FALSE

-----------------------------------------------------------------------------
(* The slices of the SH-2s.                                                *)

Runs(p) == IF p = "msh2" THEN "msh2 runs" ELSE "ssh2 runs"
InSlice == \E p \in CPU : phase = Runs(p)

(* sh2_DrcExec calls sh2_HandleInterrupt once, when it starts a slice.     *)
StartSlice(p) ==
    /\ phase = p
    /\ phase' = Runs(p)
    /\ LET q == irq.iqr[p]
       IN  IF Acceptable(q, sr[p])
           THEN /\ scu' = [scu EXCEPT !.irq.iqr[p] = Accepted(q)]
                /\ sr' = [sr EXCEPT ![p] = MaskAfter(Top(q))]
           ELSE UNCHANGED <<scu, sr>>
    /\ UNCHANGED raster

EndSlice ==
    /\ \/ /\ phase = "msh2 runs"
          /\ phase' = IF irq.ssh2 THEN "ssh2" ELSE "sound"
       \/ /\ phase = "ssh2 runs"
          /\ phase' = "sound"
    /\ UNCHANGED <<scu, sr, raster>>

(* What the program on p does in its slice: one of its accesses.           *)
Program(p, next) ==
    /\ phase = Runs(p)
    /\ scu' = next
    /\ UNCHANGED <<sr, phase, raster>>

SetLevel(p) ==
    /\ phase = Runs(p)
    /\ \E l \in LevelWrites : sr' = [sr EXCEPT ![p] = l]
    /\ UNCHANGED <<scu, phase, raster>>

OnChipRequest(p) == \E r \in OnChip :
    Program(p, [scu EXCEPT !.irq.iqr[p] = SetInterrupt(@, r)])

ProgramIMS(p) == \E m \in MaskWrites :
    Program(p, [scu EXCEPT !.irq = WriteIMS(@, m)])

ProgramIST(p) == \E k \in StatusWrites :
    Program(p, [scu EXCEPT !.irq = WriteIST(@, k)])

ProgramAIACK(p) ==
    /\ "ExtInt00" \in Devices
    /\ \E on \in BOOLEAN : Program(p, [scu EXCEPT !.irq = WriteAIACK(@, on)])

ProgramT0C(p) == \E v \in CompareWrites : Program(p, WriteT0C(scu, v))

ProgramT1S(p) == \E v \in PresetWrites : Program(p, WriteT1S(scu, v))

ProgramT1MD(p) ==
    \E m \in ModeWrites : Program(p, WriteT1MD(scu, m.enable, m.line))

ProgramTransfer(p) == \E ch \in Channels, t \in TransferWrites :
    Program(p, WriteTransfer(scu, ch, t))

ProgramDnMD(p) == \E ch \in Channels, m \in DmaModeWrites :
    Program(p, WriteDnMD(scu, ch, m.factor, m.indirect))

ProgramDnEN(p) == \E ch \in Channels, go, enable \in BOOLEAN :
    Program(p, WriteDnEN(scu, ch, go, enable))

(* A write to PTMR draws the command list (Vdp1NoDraw), a write to HIRQ    *)
(* tests it against its mask; either may raise the part's interrupt.       *)
ProgramDraw(p) ==
    "DrawEnd" \in Devices /\ Program(p, ScuSendDrawEnd(scu))

ProgramHIRQ(p) ==
    "ExtInt00" \in Devices /\ Program(p, Raise(scu, "ExtInt00"))

ProgramTVMD(p) ==
    /\ phase = Runs(p)
    /\ \E v \in VBlankLines : vblankLine' = v
    /\ UNCHANGED <<scu, sr, phase, decilineCount, lineCount, vblank>>

-----------------------------------------------------------------------------
(* The rest of the turn.                                                   *)

(* ScspExec, which may raise the sound interrupt, any number of times.     *)
SoundRequest ==
    /\ phase = "sound"
    /\ "SoundRequest" \in Devices
    /\ scu' = ScuSendSoundRequest(scu)
    /\ UNCHANGED <<sr, phase, raster>>

(* Vdp2HBlankIN: the SCU's copy for the slave comes first, its own after.  *)
HBlankForSlave == [vec |-> 65, level |-> 2]

HBlankIN(s) ==
    LET t == ScuSendHBlankIN(s)
    IN  IF t.irq.ssh2
        THEN [t EXCEPT !.irq.iqr["ssh2"] = SetInterrupt(@, HBlankForSlave)]
        ELSE t

Deciline ==
    /\ phase = "sound"
    /\ phase' = "scu"
    /\ decilineCount' = decilineCount + 1
    /\ scu' = IF decilineCount' = DecilineNum - 1 THEN HBlankIN(scu) ELSE scu
    /\ UNCHANGED <<sr, lineCount, vblankLine, vblank>>

ScuTurn ==
    /\ phase = "scu"
    /\ phase' = "raster"
    /\ \E dspEnd \in {FALSE} \cup {"DSPEnd" \in Devices} :
          scu' = ScuExec(scu, lineCount, dspEnd)
    /\ UNCHANGED <<sr, raster>>

(* The end of a line, when the decilines are through; Vdp2VBlankOUT draws  *)
(* the frame, which may raise DrawEnd, before it reports to the SCU.       *)
SameLine ==
    /\ decilineCount # DecilineNum
    /\ UNCHANGED <<scu, raster>>

StartOfBlank(line) == line = vblankLine

PastFrame(line)  == line > MaxLineCount
EndOfFrame(line) == line # vblankLine /\ line = MaxLineCount

NextLine ==
    /\ decilineCount = DecilineNum
    /\ decilineCount' = 0
    /\ UNCHANGED vblankLine
    /\ LET line == lineCount + 1
       IN  \/ /\ StartOfBlank(line)
              /\ lineCount' = line
              /\ vblank' = TRUE
              /\ scu' = ScuSendVBlankIN(scu)
           \/ /\ EndOfFrame(line)
              /\ lineCount' = 0
              /\ vblank' = FALSE
              /\ \E drawEnd \in {FALSE} \cup {"DrawEnd" \in Devices} :
                    scu' = ScuSendVBlankOUT(IF drawEnd
                                            THEN ScuSendDrawEnd(scu) ELSE scu)
           \/ /\ ~StartOfBlank(line) /\ ~EndOfFrame(line)
              /\ lineCount' = line
              /\ UNCHANGED <<scu, vblank>>

Raster ==
    /\ phase = "raster"
    /\ phase' = "smpc"
    /\ SameLine \/ NextLine
    /\ UNCHANGED sr

-----------------------------------------------------------------------------
(* SmpcExec: at most one command is carried out.                           *)

SmpcCommand ==
    /\ phase = "smpc"
    /\ phase' = "cd"

SmpcIdle == SmpcCommand /\ UNCHANGED <<scu, sr, raster>>

SystemManager ==
    /\ SmpcCommand
    /\ "SystemManager" \in Devices
    /\ scu' = Raise(scu, "SystemManager")
    /\ UNCHANGED <<sr, raster>>

(* YabauseStartSlave: sh2_PowerOn leaves the request queue as it finds it. *)
StartSlave ==
    /\ SmpcCommand
    /\ "SSHON" \in Commands
    /\ scu' = [scu EXCEPT !.irq.ssh2 = TRUE]
    /\ sr' = [sr EXCEPT !["ssh2"] = 15]
    /\ UNCHANGED raster

(* YabauseStopSlave, with the sh2_Reset it makes.                          *)
HaltSlave(s) == [s EXCEPT !.irq.ssh2 = FALSE]

WithoutSlave(s) == [s EXCEPT !.irq.ssh2 = FALSE, !.irq.iqr["ssh2"] = << >>]

StopSlave ==
    /\ SmpcCommand
    /\ "SSHOFF" \in Commands
    /\ scu' = WithoutSlave(scu)
    /\ sr' = [sr EXCEPT !["ssh2"] = 15]
    /\ UNCHANGED raster

SendNMI(s) == [s EXCEPT !.irq.iqr["msh2"] = SetInterrupt(@, NMI)]

NMIREQ ==
    /\ SmpcCommand
    /\ "NMIREQ" \in Commands
    /\ scu' = SendNMI(scu)
    /\ UNCHANGED <<sr, raster>>

(* SmpcCKCHG: the clock change restarts the video timing at line 0.        *)
CKCHG ==
    /\ SmpcCommand
    /\ "CKCHG" \in Commands
    /\ scu' = SendNMI(WithoutSlave(ScuReset(scu)))
    /\ sr' = [sr EXCEPT !["ssh2"] = 15]
    /\ decilineCount' = 0
    /\ lineCount' = 0
    /\ vblankLine' = ResetVBlankLine
    /\ vblank' = FALSE

(* Cs2Exec, which may call Cs2SetIRQ any number of times.                  *)
CdInterrupt ==
    /\ phase = "cd"
    /\ "ExtInt00" \in Devices
    /\ scu' = Raise(scu, "ExtInt00")
    /\ UNCHANGED <<sr, phase, raster>>

CdDone ==
    /\ phase = "cd"
    /\ phase' = "msh2"
    /\ UNCHANGED <<scu, sr, raster>>

(* YabauseResetNoLoad, between two frames.                                 *)
HostReset ==
    /\ HostResets
    /\ phase = "msh2" /\ lineCount = 0 /\ decilineCount = 0
    /\ LET s == WithoutSlave(ScuReset(scu))
       IN  scu' = [s EXCEPT !.irq.iqr["msh2"] = << >>]
    /\ sr' = [p \in CPU |-> 15]
    /\ vblankLine' = ResetVBlankLine
    /\ vblank' = FALSE
    /\ UNCHANGED <<phase, decilineCount, lineCount>>

-----------------------------------------------------------------------------
Access(p) ==
    \/ SetLevel(p) \/ OnChipRequest(p)
    \/ ProgramIMS(p) \/ ProgramIST(p) \/ ProgramAIACK(p)
    \/ ProgramT0C(p) \/ ProgramT1S(p) \/ ProgramT1MD(p)
    \/ ProgramTransfer(p) \/ ProgramDnMD(p) \/ ProgramDnEN(p)
    \/ ProgramDraw(p) \/ ProgramHIRQ(p) \/ ProgramTVMD(p)

Smpc ==
    \/ SmpcIdle \/ SystemManager \/ StartSlave \/ StopSlave \/ NMIREQ \/ CKCHG

(* The steps that take the loop forward.                                   *)
Loop ==
    \/ \E p \in CPU : StartSlice(p)
    \/ EndSlice \/ Deciline \/ ScuTurn \/ Raster \/ Smpc \/ CdDone

Next ==
    \/ Loop
    \/ \E p \in CPU : Access(p)
    \/ SoundRequest \/ CdInterrupt \/ HostReset

Spec == Init /\ [][Next]_vars

(* A slice ends when its cycles are spent, and every call of the loop      *)
(* returns: the loop goes on, from one phase to another, whatever the      *)
(* program does.  Only the steps of Loop change the phase, and one of them *)
(* is always enabled.                                                      *)
Advance == \E next \in Phase \ {phase} : phase' = next

FairSpec == Spec /\ WF_phase(Advance)

-----------------------------------------------------------------------------
(* Type invariant.                                                         *)
TypeOk ==
    /\ scu \in ScuState
    /\ sr \in [CPU -> 0 .. 15]
    /\ phase \in Phase
    /\ decilineCount \in 0 .. DecilineNum
    /\ lineCount \in 0 .. MaxLineCount - 1
    /\ vblankLine \in Nat
    /\ vblank \in BOOLEAN

(* The SCU's queue (ScuQueueInterrupt, ScuRemoveInterrupt,                 *)
(* ScuTestInterruptMask, ScuRemoveInterruptByCPU) is ascending, holds no   *)
(* source twice and never the A-bus, and the request queues of the SH-2s   *)
(* (sh2_SetInterrupt) are ascending and hold no vector twice, whatever the *)
(* order of sends, withdrawals and register writes.                        *)
QueuesOk ==
    /\ ScuQueueOk(irq)
    /\ \A p \in CPU : SortedQueue(irq.iqr[p]) /\ DistinctVectors(irq.iqr[p])

(* Neither array overflows: the SCU's queue has a slot to spare before     *)
(* every append, and iqr[], to which sh2_SetInterrupt appends unchecked    *)
(* ("MAX_INTERRUPTS 64 //TODO: CHECK THIS", sh2.h), is long enough as long *)
(* as the program uses no more vectors than it has entries.                *)
QueuesFit ==
    /\ irq.number < MaxQueued
    /\ \A p \in CPU : Len(irq.iqr[p]) <= MaxInterrupts

(* A VBlank-IN held back by the mask is gone from the SCU once the blank   *)
(* is over: ScuSendVBlankOUT and every reset withdraw it, so that a        *)
(* program that unmasks late does not take it for the next frame's.        *)
VBlankInOnlyInVBlank == "VBlankIN" \in Queued(irq) => vblank

(* While the timers are on, no step leaves a timer 0 interrupt in the      *)
(* SCU's queue that is not of the line timer 0 then stands on: one that    *)
(* counts a line matches it against T0C or withdraws the interrupt         *)
(* (ScuSendHBlankIN, ScuSendVBlankOUT).  (While T1MD bit 0 is clear the    *)
(* lines are counted and the interrupt stays: it is stale when the program *)
(* unmasks it.)  That of timer 1 is never of a count that was reloaded.    *)
PendingTimersCurrent ==
    [][Timer0Current(scu, scu') /\ TimersOk(scu')]_vars

(* A stopped slave has no request pending: sh2_PowerOn, which starts it,   *)
(* does not clear the queue, so every way of stopping it must.             *)
StoppedSlaveIsClean == ~irq.ssh2 => irq.iqr["ssh2"] = << >>

Pending(s) == Vector[s] \in Vectors(irq.iqr["msh2"])

(* What the SCU hands to the master in a step is not masked in IMS after   *)
(* it: neither a send, nor an unmasking write, nor a DMA that a send       *)
(* starts or flushes lets a masked source through.  (An on-chip module to  *)
(* which the program gives the number of an SCU interrupt may raise that   *)
(* number, whatever IMS says.)                                             *)
OnlyUnmaskedPresented ==
    [][\A s \in Source : ~Pending(s) /\ Pending(s)'
          => s \notin irq'.ims \/ \E p \in CPU : OnChipRequest(p)]_vars

(* When a write of the program to IMS, IST or AIACK lets a queued          *)
(* interrupt go to the CPU (ScuTestInterruptMask), no interrupt of a       *)
(* higher level that could have gone stays behind.  (Outside the slices    *)
(* ScuSendVBlankOUT withdraws a waiting timer 0 and may raise it anew,     *)
(* past a VBlank-OUT of the last frame that an unmasking write has left.)  *)
HighestGoesFirst ==
    [][InSlice =>
       \A s \in Queueable :
          (s \in Queued(irq) \ Queued(irq') /\ ~Pending(s) /\ Pending(s)')
          => \A t \in Queued(irq') :
                Level[t] > Level[s] => t \notin irq'.ist \ irq'.ims]_vars

(* sh2_HandleInterrupt takes the highest pending request, never one the    *)
(* mask excludes, and what is left is what was there.                      *)
AcceptsHighest ==
    [][\A p \in CPU : StartSlice(p) /\ irq'.iqr[p] # irq.iqr[p] =>
          \E i \in DOMAIN irq.iqr[p] :
             LET r == irq.iqr[p][i] IN
             /\ \A j \in DOMAIN irq.iqr[p] : irq.iqr[p][j].level <= r.level
             /\ r.level > sr[p] \/ r.level >= 15
             /\ Vectors(irq'.iqr[p]) = Vectors(irq.iqr[p]) \ {r.vec}]_vars

(* A DMA channel that comes to the end of its transfer in a step reports   *)
(* it in that step: DMAnEnd waits in the SCU's queue or is pending on the  *)
(* master, also when another channel's start flushed it.  (A channel stuck *)
(* before an entry of 0 of its table has not come to its end.)             *)
DmaEndReported ==
    [][\A ch \in Channel :
          ~Ended(scu.dma[ch]) /\ Ended(scu'.dma[ch])
          => \/ EndOf(ch) \in Queued(irq')
             \/ Pending(EndOf(ch))'
             \/ CKCHG \/ HostReset]_vars

(* A direct transfer stops less than a word below zero, where the test of  *)
(* a later start for a count other than zero finds it, an indirect one at  *)
(* zero.  A channel stands still for two reasons only: it has moved its    *)
(* whole table, or an entry of 0 was loaded for which the call had no time *)
(* left, and then the rest of the table stays unread (SucDmaCheck).        *)
TransfersSettle == \A ch \in Channel : TransferOk(scu.dma[ch])

(* An interrupt that waits in the SCU's queue leaves it only when it goes  *)
(* to the CPU, when the part that raised it withdraws it (the blanking and *)
(* the timers), in a reset, or by a write of the program to IST; neither   *)
(* the sort nor the removal of another one loses it.                       *)
HeldUntilPresented ==
    [][\A s \in Queued(irq) \ Queued(irq') :
          \/ Pending(s)'
          \/ s = "VBlankIN" /\ vblank /\ ~vblank'
          \/ s \in {"Timer0", "Timer1"}
          \/ \E p \in CPU : ProgramIST(p)
          \/ CKCHG \/ HostReset]_vars

(* An interrupt whose IST bit a step clears is not left in the SCU's       *)
(* queue: it was withdrawn, presented, or removed by the program.          *)
ClearedLeavesQueue ==
    [][\A s \in Queueable : s \in irq.ist \ irq'.ist =>
          s \notin Queued(irq')]_vars

(* scu.c, in ScuSendVBlankOUT: "Pending VBlankin interrput on CPU must be  *)
(* cleared here".                                                          *)
VBlankInClearedOnCpu == ~vblank => ~Pending("VBlankIN")

(* A VBlank-IN pending on the master is taken, whatever the program does   *)
(* with SR.I: its level is accepted even when the mask equals it.          *)
VBlankInTaken == Pending("VBlankIN") ~> ~Pending("VBlankIN")

(* A DMA channel that is running comes to a stand, at the end of its       *)
(* transfer or before an entry of 0, or reports an end.                    *)
DmaEnds ==
    \A ch \in Channels : scu.dma[ch].left > 0 ~>
        \/ scu.dma[ch].left <= 0
        \/ EndOf(ch) \in Queued(irq)
        \/ Pending(EndOf(ch))

=============================================================================
