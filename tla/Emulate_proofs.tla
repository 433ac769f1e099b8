--------------------------- MODULE Emulate_proofs ---------------------------
(***************************************************************************)
(* The safety invariants of the emulation loop, for every line and frame   *)
(* length, every set of devices and commands and everything the emulated   *)
(* programs may write.                                                     *)
(***************************************************************************)
EXTENDS Emulate, Scu_proofs

(* The inductive invariant.  The loop's part says where it may stand: in   *)
(* the slave's slice only while the slave runs, past the last deciline     *)
(* only on the way to the end of the line; and the blanking line is never  *)
(* the one after the last, where the end of the frame would be missed.     *)
LoopOk ==
    /\ phase \in {"ssh2", "ssh2 runs"} => irq.ssh2
    /\ vblankLine # MaxLineCount
    /\ decilineCount = DecilineNum => phase \in {"scu", "raster"}

IInv ==
    /\ TypeOk
    /\ ScuOk(scu)
    /\ TimersOk(scu)
    /\ StoppedSlaveIsClean
    /\ VBlankInOnlyInVBlank
    /\ LoopOk

(* What a step of the SCU that raises no VBlank-IN and leaves the slave    *)
(* running or stopped does to the parts of IInv that concern the SCU.      *)
LEMMA QuietStep ==
    ASSUME IInv, NEW t, Does(scu, t, Others), Timer0Current(scu, t), scu' = t
    PROVE  /\ Timer0Current(scu, scu')
           /\ scu' \in ScuState /\ ScuOk(scu)' /\ TimersOk(scu)'
           /\ StoppedSlaveIsClean'
           /\ irq'.ssh2 = irq.ssh2
           /\ "VBlankIN" \in Queued(irq)' => "VBlankIN" \in Queued(irq)
<1>1. /\ ScuOk(t) /\ Keeps(scu.irq, t.irq, Others) /\ TimersOk(t)
    BY DEF Does, IInv
<1>2. ScuOk(scu)' /\ TimersOk(scu)'
    BY <1>1
<1>3. t \in ScuState
    BY <1>1 DEF ScuOk
<1>4. irq' = t.irq
    BY DEF irq
<1>5. "VBlankIN" \notin Others
    BY DEF Others
<1> QED
    BY <1>1, <1>2, <1>3, <1>4, <1>5
    DEF Keeps, IInv, StoppedSlaveIsClean, irq

(* What the parts do is quiet.                                             *)
LEMMA ActsQuietly ==
    ASSUME NEW t, NEW S, Acts(scu, t, S)
    PROVE  Does(scu, t, S) /\ Timer0Current(scu, t)
BY DEF Acts, Follows

(* A step that leaves the SCU alone leaves timer 0 on its line.            *)
LEMMA StandsStill ==
    ASSUME UNCHANGED scu PROVE Timer0Current(scu, scu')
BY DEF Timer0Current

(* In the slices of the SH-2s: all other variables stay.                   *)
LEMMA ProgramStep ==
    ASSUME IInv, NEW p, NEW t, Does(scu, t, Others), Timer0Current(scu, t),
           Program(p, t)
    PROVE  IInv' /\ Timer0Current(scu, scu')
<1>1. scu' = t /\ UNCHANGED <<sr, phase, raster>>
    BY DEF Program
<1> QED
    BY <1>1, QuietStep
    DEF IInv, TypeOk, LoopOk, VBlankInOnlyInVBlank, raster

(* The queue of a running SH-2 may change by a request or an acceptance.   *)
LEMMA RunningCpu ==
    ASSUME IInv, NEW p \in CPU, phase \in {p, Runs(p)}
    PROVE  p = "msh2" \/ scu.irq.ssh2
BY DEF IInv, LoopOk, CPU, Runs, irq

(* A slice starts: the SH-2 may accept one request, which shortens its     *)
(* queue and raises its mask (sh2_HandleInterrupt).                        *)
LEMMA StartSliceStep ==
    ASSUME IInv, NEW p \in CPU, StartSlice(p)
    PROVE  IInv' /\ Timer0Current(scu, scu')
<1> DEFINE q == irq.iqr[p]
<1>1. /\ phase = p /\ phase' = Runs(p)
      /\ UNCHANGED raster
    BY DEF StartSlice
<1>2. p = "msh2" \/ scu.irq.ssh2
    BY <1>1, RunningCpu
<1>3. QueueOk(q) /\ ScuOk(scu)
    BY DEF IInv, ScuOk, IrqOk, irq
<1>4. CASE Acceptable(q, sr[p])
    <2> DEFINE t == [scu EXCEPT !.irq.iqr[p] = Accepted(q)]
               m == MaskAfter(Top(q))
    <2>1. scu' = t /\ sr' = [sr EXCEPT ![p] = m]
        BY <1>4 DEF StartSlice
    <2>2. QueueOk(Accepted(q))
        BY <1>3, <1>4, AcceptedOk DEF Acceptable
    <2>3. m \in 0 .. 15
        <3>1. q \in Seq(Request) /\ q # << >>
            BY <1>3, <1>4 DEF QueueOk, Acceptable
        <3>2. q[Len(q)] \in Request
            BY <3>1
        <3> DEFINE l == q[Len(q)].level
        <3>3. l \in 1 .. 16
            BY <3>2 DEF Request, NMILevel
        <3>4. m = l % 16
            BY DEF MaskAfter, Top
        <3> HIDE DEF l, m
        <3>5. l % 16 \in 0 .. 15
            BY <3>3
        <3> QED
            BY <3>4, <3>5
    <2> HIDE DEF q, m
    <2>4. Acts(scu, t, Others)
        BY <1>2, <1>3, <2>2, RequestsActs
    <2> HIDE DEF t
    <2>5. /\ Timer0Current(scu, scu')
          /\ scu' \in ScuState /\ ScuOk(scu)' /\ TimersOk(scu)'
          /\ StoppedSlaveIsClean'
          /\ irq'.ssh2 = irq.ssh2
          /\ "VBlankIN" \in Queued(irq)' => "VBlankIN" \in Queued(irq)
        BY <2>1, <2>4, QuietStep, ActsQuietly
    <2>6. TypeOk'
        BY <1>1, <2>1, <2>3, <2>5 DEF IInv, TypeOk, raster, Phase, Runs
    <2> QED
        BY <1>1, <2>5, <2>6
        DEF IInv, LoopOk, VBlankInOnlyInVBlank, raster, Runs, CPU
<1>5. CASE ~Acceptable(q, sr[p])
    <2>1. UNCHANGED <<scu, sr>>
        BY <1>5 DEF StartSlice
    <2>2. irq' = irq
        BY <2>1 DEF irq
    <2> QED
        BY <1>1, <2>1, <2>2, StandsStill
        DEF IInv, TypeOk, LoopOk, VBlankInOnlyInVBlank, StoppedSlaveIsClean,
            raster, Phase, Runs, CPU
<1> QED
    BY <1>4, <1>5

(* One access of the program to a register of the SCU, to SR.I, TVMD, PTMR *)
(* or HIRQ.                                                                *)
LEMMA AccessStep ==
    ASSUME IInv, NEW p \in CPU, Access(p)
    PROVE  IInv' /\ Timer0Current(scu, scu')
<1>1. ScuOk(scu)
    BY DEF IInv
<1>2. DmaEnd \subseteq Others
    BY DEF DmaEnd, Others, Source
<1>3. ASSUME NEW t, Moves(scu, t, DmaEnd)
      PROVE  Does(scu, t, Others) /\ Timer0Current(scu, t)
    BY <1>2, <1>3, DmaEndIsNoTimer, MovesActs, ActsMore, ActsQuietly
<1>4. CASE SetLevel(p)
    <2>1. UNCHANGED <<scu, phase, raster>>
        BY <1>4 DEF SetLevel
    <2>2. PICK l \in LevelWrites : sr' = [sr EXCEPT ![p] = l]
        BY <1>4 DEF SetLevel
    <2>3. sr' \in [CPU -> 0 .. 15]
        BY <2>2, EmulateAssumption DEF IInv, TypeOk
    <2>4. irq' = irq
        BY <2>1 DEF irq
    <2> QED
        BY <2>1, <2>3, <2>4, StandsStill
        DEF IInv, TypeOk, LoopOk, VBlankInOnlyInVBlank, StoppedSlaveIsClean,
            raster
<1>5. CASE OnChipRequest(p)
    <2>1. PICK r \in OnChip :
             Program(p, [scu EXCEPT !.irq.iqr[p] = SetInterrupt(@, r)])
        BY <1>5 DEF OnChipRequest
    <2> DEFINE q == SetInterrupt(scu.irq.iqr[p], r)
               t == [scu EXCEPT !.irq.iqr[p] = q]
    <2>2. Program(p, t)
        BY <2>1
    <2>3. QueueOk(q)
        BY <1>1, SetInterruptOk, EmulateAssumption DEF ScuOk, IrqOk
    <2> HIDE DEF q
    <2>4. p = "msh2" \/ scu.irq.ssh2
        BY <2>2, RunningCpu DEF Program
    <2>5. Acts(scu, t, Others)
        BY <1>1, <2>3, <2>4, RequestsActs
    <2> HIDE DEF t
    <2> QED
        BY <2>2, <2>5, ProgramStep, ActsQuietly
<1>6. CASE ProgramIMS(p) \/ ProgramIST(p) \/ ProgramAIACK(p)
    <2>1. \A m \in MaskWrites : m \in SUBSET Source
        BY EmulateAssumption
    <2> QED
        BY <1>1, <1>6, <2>1, IrqWritesOk, ProgramStep, ActsQuietly
        DEF ProgramIMS, ProgramIST, ProgramAIACK
<1>7. CASE ProgramT0C(p) \/ ProgramT1S(p) \/ ProgramT1MD(p)
    <2>1. /\ \A v \in CompareWrites \cup PresetWrites : v \in Nat
          /\ \A m \in ModeWrites : m.enable \in BOOLEAN /\ m.line \in BOOLEAN
        BY EmulateAssumption
    <2> QED
        BY <1>1, <1>7, <2>1, TimerWritesOk, ProgramStep
        DEF ProgramT0C, ProgramT1S, ProgramT1MD
<1>8. CASE ProgramTransfer(p) \/ ProgramDnMD(p) \/ ProgramDnEN(p)
    <2>1. /\ \A ch \in Channels : ch \in Channel
          /\ \A w \in TransferWrites :
                w \in [count : Nat, cd : BOOLEAN, list : Table]
          /\ \A m \in DmaModeWrites :
                m.factor \in 0 .. 7 /\ m.indirect \in BOOLEAN
        BY EmulateAssumption
    <2>2. CASE ProgramTransfer(p)
        <3>1. PICK ch \in Channels, w \in TransferWrites :
                 Program(p, WriteTransfer(scu, ch, w))
            BY <2>2 DEF ProgramTransfer
        <3>2. Moves(scu, WriteTransfer(scu, ch, w), DmaEnd)
            BY <1>1, <2>1, WriteTransferOk
        <3> QED
            BY <1>3, <3>1, <3>2, ProgramStep
    <2>3. CASE ProgramDnMD(p)
        <3>1. PICK ch \in Channels, m \in DmaModeWrites :
                 Program(p, WriteDnMD(scu, ch, m.factor, m.indirect))
            BY <2>3 DEF ProgramDnMD
        <3>2. Moves(scu, WriteDnMD(scu, ch, m.factor, m.indirect), DmaEnd)
            BY <1>1, <2>1, WriteDnMDOk
        <3> QED
            BY <1>3, <3>1, <3>2, ProgramStep
    <2>4. CASE ProgramDnEN(p)
        <3>1. PICK ch \in Channels, go \in BOOLEAN, enable \in BOOLEAN :
                 Program(p, WriteDnEN(scu, ch, go, enable))
            BY <2>4 DEF ProgramDnEN
        <3>2. Moves(scu, WriteDnEN(scu, ch, go, enable), DmaEnd)
            BY <1>1, <2>1, WriteDnENOk
        <3> QED
            BY <1>3, <3>1, <3>2, ProgramStep
    <2> QED
        BY <1>8, <2>2, <2>3, <2>4
<1>9. CASE ProgramDraw(p) \/ ProgramHIRQ(p)
    <2>1. /\ DmaEnd \cup {"DrawEnd"} \subseteq Others
          /\ "ExtInt00" \in NoTimer \ {"VBlankIN"}
        BY DEF DmaEnd, Others, NoTimer, Source
    <2>2. /\ Acts(scu, ScuSendDrawEnd(scu), Others)
          /\ Acts(scu, Raise(scu, "ExtInt00"), Others)
        BY <1>1, <2>1, DeviceOk, RaiseActs, ActsMore
    <2> QED
        BY <1>9, <2>2, ProgramStep, ActsQuietly DEF ProgramDraw, ProgramHIRQ
<1>10. CASE ProgramTVMD(p)
    <2>1. /\ UNCHANGED <<scu, sr, phase, decilineCount, lineCount, vblank>>
          /\ vblankLine' \in VBlankLines
        BY <1>10 DEF ProgramTVMD
    <2>2. vblankLine' \in Nat /\ vblankLine' # MaxLineCount
        BY <2>1, EmulateAssumption
    <2>3. irq' = irq
        BY <2>1 DEF irq
    <2> QED
        BY <2>1, <2>2, <2>3, StandsStill
        DEF IInv, TypeOk, LoopOk, VBlankInOnlyInVBlank, StoppedSlaveIsClean
<1> QED
    BY <1>4, <1>5, <1>6, <1>7, <1>8, <1>9, <1>10 DEF Access

-----------------------------------------------------------------------------
(* The rest of the loop's turn.                                            *)
LEMMA HBlankINOk ==
    ASSUME NEW s, ScuOk(s)
    PROVE  Acts(s, HBlankIN(s), Others)
<1> DEFINE t == ScuSendHBlankIN(s)
           q == SetInterrupt(t.irq.iqr["ssh2"], HBlankForSlave)
           u == [t EXCEPT !.irq.iqr["ssh2"] = q]
<1>1. Acts(s, t, Others)
    BY SendHBlankINOk
<1>2. HBlankIN(s) = IF t.irq.ssh2 THEN u ELSE t
    BY DEF HBlankIN
<1> HIDE DEF t
<1>3. ScuOk(t)
    BY <1>1, ActsOk
<1>4. "ssh2" \in CPU /\ HBlankForSlave \in Request
    BY DEF CPU, HBlankForSlave, Request, NMILevel
<1>5. QueueOk(q)
    BY <1>3, <1>4, SetInterruptOk DEF ScuOk, IrqOk
<1> HIDE DEF q
<1>6. t.irq.ssh2 => Acts(t, u, Others)
    BY <1>3, <1>4, <1>5, RequestsActs
<1> HIDE DEF u
<1> QED
    BY <1>1, <1>2, <1>6, ActsTwice

(* A step of the loop that goes on to another phase, other than a slave's, *)
(* and leaves the blanking as it is.                                       *)
LEMMA TurnStep ==
    ASSUME IInv, NEW t, Acts(scu, t, Others), scu' = t,
           UNCHANGED <<sr, vblankLine, vblank>>,
           phase' \in Phase \ {"ssh2", "ssh2 runs"},
           decilineCount' \in 0 .. DecilineNum,
           decilineCount' = DecilineNum => phase' \in {"scu", "raster"},
           lineCount' \in 0 .. MaxLineCount - 1
    PROVE  IInv' /\ Timer0Current(scu, scu')
BY QuietStep, ActsQuietly DEF IInv, TypeOk, LoopOk, VBlankInOnlyInVBlank

(* A step that leaves the SCU alone.                                       *)
LEMMA SameStep ==
    ASSUME IInv PROVE Acts(scu, scu, Others)
BY ActsNothing DEF IInv

(* A slice ends; the slave's turn comes only while it runs.                *)
LEMMA EndSliceStep ==
    ASSUME IInv, EndSlice
    PROVE  IInv' /\ Timer0Current(scu, scu')
<1>1. /\ UNCHANGED <<scu, sr, raster>>
      /\ phase' \in {"ssh2", "sound"}
      /\ phase' = "ssh2" => irq.ssh2
      /\ phase \in {"msh2 runs", "ssh2 runs"}
    BY DEF EndSlice
<1>2. irq' = irq
    BY <1>1 DEF irq
<1> QED
    BY <1>1, <1>2, StandsStill
    DEF IInv, TypeOk, LoopOk, VBlankInOnlyInVBlank, StoppedSlaveIsClean,
        raster, Phase

(* A deciline passes, with HBlank-IN at the last one.                      *)
LEMMA DecilineStep ==
    ASSUME IInv, Deciline
    PROVE  IInv' /\ Timer0Current(scu, scu')
<1>1. /\ phase = "sound" /\ phase' = "scu"
      /\ decilineCount' = decilineCount + 1
      /\ scu' \in {scu, HBlankIN(scu)}
      /\ UNCHANGED <<sr, lineCount, vblankLine, vblank>>
    BY DEF Deciline
<1>2. decilineCount' \in 0 .. DecilineNum
    BY <1>1, EmulateAssumption DEF IInv, TypeOk, LoopOk
<1>3. Acts(scu, scu, Others) /\ Acts(scu, HBlankIN(scu), Others)
    BY HBlankINOk, SameStep DEF IInv
<1>4. lineCount' \in 0 .. MaxLineCount - 1
    BY <1>1 DEF IInv, TypeOk
<1> QED
    BY <1>1, <1>2, <1>3, <1>4, TurnStep DEF Phase

(* ScuExec, with or without the end of the DSP's program.                  *)
LEMMA ScuTurnStep ==
    ASSUME IInv, ScuTurn
    PROVE  IInv' /\ Timer0Current(scu, scu')
<1>1. /\ phase = "scu" /\ phase' = "raster"
      /\ UNCHANGED <<sr, raster>>
    BY DEF ScuTurn
<1>2. PICK dspEnd \in {FALSE} \cup {"DSPEnd" \in Devices} :
         scu' = ScuExec(scu, lineCount, dspEnd)
    BY DEF ScuTurn
<1>3. Acts(scu, ScuExec(scu, lineCount, dspEnd), Others)
    BY ScuExecOk DEF IInv
<1> QED
    BY <1>1, <1>2, <1>3, TurnStep DEF IInv, TypeOk, Phase, raster

(* The end of a line.  Only here does a VBlank-IN enter the queue, and the *)
(* flag is set in the same step; the step that clears it withdraws it.     *)
LEMMA RasterStep ==
    ASSUME IInv, Raster
    PROVE  IInv' /\ Timer0Current(scu, scu')
<1>1. /\ phase = "raster" /\ phase' = "smpc"
      /\ SameLine \/ NextLine
      /\ UNCHANGED sr
    BY DEF Raster
<1>2. CASE SameLine
    BY <1>1, <1>2, SameStep, TurnStep
    DEF IInv, TypeOk, Phase, SameLine, raster
<1> DEFINE line == lineCount + 1
<1>3. line # MaxLineCount => line \in 0 .. MaxLineCount - 1
    BY EmulateAssumption DEF IInv, TypeOk
<1>4. 0 \in 0 .. DecilineNum /\ 0 # DecilineNum
    BY EmulateAssumption
<1>5. ScuOk(scu)
    BY DEF IInv
<1>6. CASE NextLine /\ line = vblankLine
    <2>1. /\ lineCount' = line /\ vblank' = TRUE
          /\ scu' = ScuSendVBlankIN(scu)
          /\ decilineCount' = 0 /\ UNCHANGED vblankLine
        BY <1>6 DEF NextLine, StartOfBlank, EndOfFrame
    <2> DEFINE u == ScuSendVBlankIN(scu)
    <2>2. Acts(scu, u, DmaEnd \cup {"VBlankIN"})
        BY <1>5, SendVBlankINOk
    <2>3. scu' = u
        BY <2>1
    <2> HIDE DEF u
    <2>4. /\ u \in ScuState /\ ScuOk(u) /\ TimersOk(u)
          /\ Keeps(scu.irq, u.irq, DmaEnd \cup {"VBlankIN"})
          /\ Timer0Current(scu, u)
        BY <2>2, ActsQuietly DEF Does, ScuOk, IInv
    <2>5. ScuOk(scu)' /\ TimersOk(scu)' /\ irq' = u.irq
        BY <2>3, <2>4 DEF irq
    <2>6. StoppedSlaveIsClean'
        BY <2>4, <2>5 DEF StoppedSlaveIsClean, Keeps, IInv, irq
    <2>7. lineCount' \in 0 .. MaxLineCount - 1
        BY <1>3, <1>6, <2>1 DEF IInv, LoopOk
    <2>8. TypeOk'
        BY <1>1, <1>4, <2>1, <2>3, <2>4, <2>7 DEF IInv, TypeOk, Phase
    <2> QED
        BY <1>1, <1>4, <2>1, <2>3, <2>4, <2>5, <2>6, <2>8
        DEF IInv, LoopOk, VBlankInOnlyInVBlank
<1>7. CASE NextLine /\ EndOfFrame(line)
    <2>1. /\ lineCount' = 0 /\ vblank' = FALSE
          /\ decilineCount' = 0 /\ UNCHANGED vblankLine
          /\ \E drawEnd \in {FALSE} \cup {"DrawEnd" \in Devices} :
                 scu' = ScuSendVBlankOUT(IF drawEnd
                                         THEN ScuSendDrawEnd(scu) ELSE scu)
        BY <1>7 DEF NextLine, StartOfBlank, EndOfFrame
    <2>2. PICK a \in {scu, ScuSendDrawEnd(scu)} : scu' = ScuSendVBlankOUT(a)
        BY <2>1
    <2> DEFINE u == ScuSendVBlankOUT(a)
    <2>3. DmaEnd \cup {"DrawEnd"} \subseteq Others
        BY DEF DmaEnd, Others, Source
    <2>4. Acts(scu, a, Others)
        BY <1>5, <2>2, <2>3, DeviceOk, ActsMore, SameStep
    <2>5. ScuOk(a)
        BY <2>4, ActsOk
    <2>6. Acts(a, u, Others) /\ "VBlankIN" \notin Queued(u.irq)
        BY <2>5, SendVBlankOUTOk
    <2>7. scu' = u
        BY <2>2
    <2> HIDE DEF u
    <2>8. Acts(scu, u, Others)
        BY <2>4, <2>6, ActsTwice
    <2>9. /\ scu' \in ScuState /\ ScuOk(scu)' /\ TimersOk(scu)'
          /\ StoppedSlaveIsClean' /\ Timer0Current(scu, scu')
        BY <2>7, <2>8, QuietStep, ActsQuietly
    <2>10. irq' = u.irq
        BY <2>7 DEF irq
    <2>11. 0 \in 0 .. MaxLineCount - 1
        BY EmulateAssumption
    <2> QED
        BY <1>1, <1>4, <2>1, <2>6, <2>9, <2>10, <2>11
        DEF IInv, TypeOk, LoopOk, VBlankInOnlyInVBlank, Phase
<1>8. CASE NextLine /\ line # vblankLine /\ ~EndOfFrame(line)
    <2>1. /\ lineCount' = line /\ UNCHANGED <<scu, vblank>>
          /\ decilineCount' = 0 /\ UNCHANGED vblankLine
        BY <1>8 DEF NextLine, StartOfBlank
    <2>2. lineCount' \in 0 .. MaxLineCount - 1
        BY <1>3, <1>8, <2>1 DEF EndOfFrame
    <2> QED
        BY <1>1, <1>4, <2>1, <2>2, SameStep, TurnStep DEF Phase
<1> QED
    BY <1>1, <1>2, <1>6, <1>7, <1>8

-----------------------------------------------------------------------------
(* The SMPC.  Every way of stopping the slave empties its queue.           *)
LEMMA WithoutSlaveOk ==
    ASSUME NEW s, ScuOk(s)
    PROVE  /\ WithoutSlave(s) \in ScuState /\ ScuOk(WithoutSlave(s))
           /\ WithoutSlave(s).irq.ssh2 = FALSE
           /\ WithoutSlave(s).irq.iqr["ssh2"] = << >>
           /\ Queued(WithoutSlave(s).irq) = Queued(s.irq)
           /\ TimersOk(s) => TimersOk(WithoutSlave(s))
           /\ Timer0Current(s, WithoutSlave(s))
           /\ WithoutSlave(s).irq.iqr \in [CPU -> Seq(Request)]
<1> DEFINE o == s.irq
           c == [o EXCEPT !.ssh2 = FALSE]
           d == [c EXCEPT !.iqr["ssh2"] = << >>]
           t == [s EXCEPT !.irq = d]
<1>1. o \in Controller /\ IrqOk(o) /\ s \in ScuState
    BY DEF ScuOk, IrqOk
<1>2. /\ c \in Controller /\ c.iqr = o.iqr /\ c.ist = o.ist
      /\ c.interrupts = o.interrupts /\ c.number = o.number
      /\ c.ssh2 = FALSE
    BY <1>1 DEF Controller
<1> HIDE DEF c
<1>3. << >> \in Seq(Request) /\ "ssh2" \in CPU
    BY DEF CPU
<1>4. /\ d \in Controller /\ d.iqr = [o.iqr EXCEPT !["ssh2"] = << >>]
      /\ d.interrupts = o.interrupts /\ d.number = o.number
      /\ d.ssh2 = FALSE /\ d.ist = o.ist
      /\ o.iqr \in [CPU -> Seq(Request)] /\ d.iqr \in [CPU -> Seq(Request)]
    BY <1>1, <1>2, <1>3 DEF Controller
<1> HIDE DEF d
<1>5. Live(d) = Live(o)
    BY <1>4 DEF Live
<1>6. Queued(d) = Queued(o)
    BY <1>4, <1>5 DEF Queued
<1>7. ScuQueueOk(d)
    BY <1>1, <1>4, <1>5 DEF ScuQueueOk, IrqOk
<1>8. \A x \in CPU : QueueOk(d.iqr[x])
    BY <1>1, <1>3, <1>4, EmptyQueueOk DEF IrqOk
<1>9. IrqOk(d)
    BY <1>1, <1>4, <1>7, <1>8 DEF IrqOk
<1>10. /\ t \in ScuState /\ t.irq = d /\ t.dma = s.dma
       /\ t.timer = s.timer
    BY <1>1, <1>4 DEF ScuState
<1>11. WithoutSlave(s) = t
    BY DEF WithoutSlave, c, d
<1> HIDE DEF t
<1>12. ScuOk(t)
    BY <1>9, <1>10 DEF ScuOk
<1>13. d.iqr["ssh2"] = << >>
    BY <1>3, <1>4
<1>14. (TimersOk(s) => TimersOk(t)) /\ Timer0Current(s, t)
    BY <1>6, <1>10 DEF TimersOk, Timer0Current
<1> QED
    BY <1>4, <1>6, <1>10, <1>11, <1>12, <1>13, <1>14

(* sh2_NMI puts one request into the master's queue and leaves all else.   *)
LEMMA SendNMIOk ==
    ASSUME NEW s, ScuOk(s)
    PROVE  /\ Acts(s, SendNMI(s), Others)
           /\ SendNMI(s).irq.ssh2 = s.irq.ssh2
           /\ SendNMI(s).irq.iqr["ssh2"] = s.irq.iqr["ssh2"]
           /\ Queued(SendNMI(s).irq) = Queued(s.irq)
<1> DEFINE q == SetInterrupt(s.irq.iqr["msh2"], NMI)
           t == [s EXCEPT !.irq.iqr["msh2"] = q]
<1>1. "msh2" \in CPU /\ "ssh2" \in CPU /\ NMI \in Request
    BY DEF CPU, NMI, Request, NMILevel, NMIVector
<1>2. QueueOk(q)
    BY <1>1, SetInterruptOk DEF ScuOk, IrqOk
<1>3. SendNMI(s) = t
    BY DEF SendNMI
<1> HIDE DEF q
<1>4. Acts(s, t, Others)
    BY <1>1, <1>2, RequestsActs
<1>5. /\ t.irq.ssh2 = s.irq.ssh2
      /\ t.irq.iqr = [s.irq.iqr EXCEPT !["msh2"] = q]
      /\ t.irq.interrupts = s.irq.interrupts
      /\ t.irq.number = s.irq.number
      /\ s.irq.iqr \in [CPU -> Seq(Request)]
    BY DEF ScuOk, ScuState, Controller
<1> HIDE DEF t
<1>6. Queued(t.irq) = Queued(s.irq)
    BY <1>5 DEF Queued, Live
<1>7. t.irq.iqr["ssh2"] = s.irq.iqr["ssh2"]
    BY <1>1, <1>5
<1> QED
    BY <1>3, <1>4, <1>5, <1>6, <1>7

(* A step of the SMPC that neither starts nor stops anything.              *)
LEMMA QuietSmpc ==
    ASSUME IInv, NEW t, Acts(scu, t, Others), scu' = t, SmpcCommand,
           UNCHANGED <<sr, raster>>
    PROVE  IInv' /\ Timer0Current(scu, scu')
<1>1. phase = "smpc" /\ phase' = "cd"
    BY DEF SmpcCommand
<1> QED
    BY <1>1, TurnStep DEF IInv, TypeOk, LoopOk, Phase, raster

(* Every command the SMPC may carry out.                                   *)
LEMMA SmpcStep ==
    ASSUME IInv, Smpc
    PROVE  IInv' /\ Timer0Current(scu, scu')
<1>1. /\ SmpcCommand /\ phase = "smpc" /\ phase' = "cd"
      /\ ScuOk(scu) /\ TimersOk(scu) /\ "ssh2" \in CPU
    BY DEF Smpc, SmpcIdle, SystemManager, StartSlave, StopSlave, NMIREQ,
           CKCHG, SmpcCommand, IInv, CPU
<1>2. CASE SmpcIdle
    BY <1>1, <1>2, SameStep, QuietSmpc DEF SmpcIdle
<1>3. CASE SystemManager
    <2>1. "SystemManager" \in NoTimer \ {"VBlankIN"}
        BY DEF NoTimer, Source
    <2>2. Acts(scu, Raise(scu, "SystemManager"), Others)
        BY <1>1, <2>1, RaiseActs
    <2> QED
        BY <1>1, <1>3, <2>2, QuietSmpc DEF SystemManager
<1>4. CASE NMIREQ
    BY <1>1, <1>4, SendNMIOk, QuietSmpc DEF NMIREQ
<1>5. CASE StartSlave
    <2> DEFINE t == [scu EXCEPT !.irq.ssh2 = TRUE]
    <2>1. /\ scu' = t /\ sr' = [sr EXCEPT !["ssh2"] = 15]
          /\ UNCHANGED raster
        BY <1>5 DEF StartSlave
    <2>2. /\ t \in ScuState /\ t.irq.iqr = scu.irq.iqr
          /\ t.irq.interrupts = scu.irq.interrupts
          /\ t.irq.number = scu.irq.number /\ t.irq.ist = scu.irq.ist
          /\ t.irq \in Controller /\ t.irq.ssh2 = TRUE
          /\ t.dma = scu.dma /\ t.timer = scu.timer
        BY <1>1 DEF ScuOk, ScuState, Controller
    <2> HIDE DEF t
    <2>3. Live(t.irq) = Live(scu.irq)
        BY <2>2 DEF Live
    <2>4. Queued(t.irq) = Queued(scu.irq)
        BY <2>2, <2>3 DEF Queued
    <2>5. IrqOk(t.irq)
        BY <1>1, <2>2, <2>3 DEF ScuOk, IrqOk, ScuQueueOk
    <2>6. ScuOk(t) /\ TimersOk(t) /\ Timer0Current(scu, t)
        BY <1>1, <2>2, <2>4, <2>5 DEF ScuOk, TimersOk, Timer0Current
    <2>7. /\ irq' = t.irq /\ ScuOk(scu)' /\ TimersOk(scu)'
          /\ Timer0Current(scu, scu')
        BY <2>1, <2>6 DEF irq
    <2> QED
        BY <1>1, <2>1, <2>2, <2>4, <2>7
        DEF IInv, TypeOk, LoopOk, StoppedSlaveIsClean, VBlankInOnlyInVBlank,
            raster, Phase, irq
<1>6. CASE StopSlave
    <2> DEFINE t == WithoutSlave(scu)
    <2>1. /\ scu' = t /\ sr' = [sr EXCEPT !["ssh2"] = 15]
          /\ UNCHANGED raster
        BY <1>6 DEF StopSlave
    <2>2. /\ t \in ScuState /\ ScuOk(t) /\ TimersOk(t)
          /\ t.irq.ssh2 = FALSE /\ t.irq.iqr["ssh2"] = << >>
          /\ Queued(t.irq) = Queued(scu.irq) /\ Timer0Current(scu, t)
        BY <1>1, WithoutSlaveOk
    <2> HIDE DEF t
    <2>3. /\ irq' = t.irq /\ ScuOk(scu)' /\ TimersOk(scu)'
          /\ Timer0Current(scu, scu')
        BY <2>1, <2>2 DEF irq
    <2> QED
        BY <1>1, <2>1, <2>2, <2>3
        DEF IInv, TypeOk, LoopOk, StoppedSlaveIsClean, VBlankInOnlyInVBlank,
            raster, Phase, irq
<1>7. CASE CKCHG
    <2> DEFINE a == ScuReset(scu)
               b == WithoutSlave(a)
               t == SendNMI(b)
    <2>1. /\ scu' = t /\ sr' = [sr EXCEPT !["ssh2"] = 15]
          /\ decilineCount' = 0 /\ lineCount' = 0
          /\ vblankLine' = ResetVBlankLine /\ vblank' = FALSE
        BY <1>7 DEF CKCHG
    <2>2. ScuOk(a) /\ TimersOk(a) /\ Queued(a.irq) = {}
        BY <1>1, ScuResetOk DEF Does
    <2> HIDE DEF a
    <2>3. /\ ScuOk(b) /\ TimersOk(b) /\ Queued(b.irq) = {}
          /\ b.irq.ssh2 = FALSE /\ b.irq.iqr["ssh2"] = << >>
        BY <2>2, WithoutSlaveOk
    <2> HIDE DEF b
    <2>4. Acts(b, t, Others)
        BY <2>3, SendNMIOk
    <2>5. /\ ScuOk(t) /\ TimersOk(t) /\ Queued(t.irq) = {}
          /\ t.irq.ssh2 = FALSE /\ t.irq.iqr["ssh2"] = << >>
        BY <2>3, <2>4, SendNMIOk DEF Acts, Does
    <2> HIDE DEF t
    <2>6. /\ irq' = t.irq /\ ScuOk(scu)' /\ TimersOk(scu)'
          /\ scu' \in ScuState /\ Timer0Current(scu, scu')
        BY <2>1, <2>5 DEF irq, ScuOk, Timer0Current
    <2>7. /\ 0 \in 0 .. DecilineNum /\ 0 # DecilineNum
          /\ DecilineNum \in Nat /\ MaxLineCount \in Nat \ {0}
          /\ ResetVBlankLine \in Nat /\ ResetVBlankLine # MaxLineCount
        BY EmulateAssumption
    <2>8. TypeOk'
        <3>1. vblankLine' \in Nat
            BY <2>1, <2>7
        <3>2. sr' \in [CPU -> 0 .. 15]
            BY <1>1, <2>1 DEF IInv, TypeOk
        <3>3. decilineCount' \in 0 .. DecilineNum
            BY <2>1, <2>7
        <3>4. lineCount' \in 0 .. MaxLineCount - 1
            BY <2>1, <2>7
        <3>5. vblank' \in BOOLEAN /\ phase' \in Phase
            BY <1>1, <2>1 DEF Phase
        <3> QED
            BY <2>6, <3>1, <3>2, <3>3, <3>4, <3>5 DEF TypeOk
    <2>9. StoppedSlaveIsClean' /\ VBlankInOnlyInVBlank'
        BY <2>5, <2>6 DEF StoppedSlaveIsClean, VBlankInOnlyInVBlank
    <2>10. LoopOk'
        BY <1>1, <2>1, <2>7 DEF LoopOk
    <2> QED
        BY <2>6, <2>8, <2>9, <2>10 DEF IInv
<1> QED
    BY <1>2, <1>3, <1>4, <1>5, <1>6, <1>7 DEF Smpc

-----------------------------------------------------------------------------
(* The interrupts of the sound part and of the CD block.                   *)
LEMMA DeviceStep ==
    ASSUME IInv, SoundRequest \/ CdInterrupt
    PROVE  IInv' /\ Timer0Current(scu, scu')
<1>1. /\ DmaEnd \cup {"SoundRequest"} \subseteq Others
      /\ "ExtInt00" \in NoTimer \ {"VBlankIN"}
    BY DEF DmaEnd, Others, NoTimer, Source
<1>2. /\ Acts(scu, ScuSendSoundRequest(scu), Others)
      /\ Acts(scu, Raise(scu, "ExtInt00"), Others)
    BY <1>1, DeviceOk, RaiseActs, ActsMore DEF IInv
<1>3. PICK t \in {ScuSendSoundRequest(scu), Raise(scu, "ExtInt00")} :
         scu' = t
    BY DEF SoundRequest, CdInterrupt
<1>4. UNCHANGED <<sr, phase, raster>> /\ phase \in {"sound", "cd"}
    BY DEF SoundRequest, CdInterrupt
<1> QED
    BY <1>2, <1>3, <1>4, TurnStep DEF IInv, TypeOk, LoopOk, raster

(* The CD block's turn ends.                                               *)
LEMMA CdDoneStep ==
    ASSUME IInv, CdDone
    PROVE  IInv' /\ Timer0Current(scu, scu')
BY SameStep, TurnStep DEF CdDone, IInv, TypeOk, LoopOk, raster, Phase

(* The user restarts the machine between two frames.                       *)
LEMMA HostResetStep ==
    ASSUME IInv, HostReset
    PROVE  IInv' /\ Timer0Current(scu, scu')
<1> DEFINE a == ScuReset(scu)
           b == WithoutSlave(a)
           t == [b EXCEPT !.irq.iqr["msh2"] = << >>]
<1>1. /\ scu' = t /\ sr' = [p \in CPU |-> 15]
      /\ vblankLine' = ResetVBlankLine /\ vblank' = FALSE
      /\ UNCHANGED <<phase, decilineCount, lineCount>>
      /\ phase = "msh2"
    BY DEF HostReset
<1>2. ScuOk(a) /\ TimersOk(a) /\ Queued(a.irq) = {}
    BY ScuResetOk DEF Does, IInv
<1> HIDE DEF a
<1>3. /\ ScuOk(b) /\ TimersOk(b) /\ Queued(b.irq) = {}
      /\ b.irq.ssh2 = FALSE /\ b.irq.iqr["ssh2"] = << >>
    BY <1>2, WithoutSlaveOk
<1> HIDE DEF b
<1>4. Acts(b, t, Others)
    BY <1>3, EmptyQueueOk, RequestsActs DEF CPU
<1>5. /\ t.irq.ssh2 = FALSE /\ t.irq.iqr["ssh2"] = << >>
      /\ t.irq.interrupts = b.irq.interrupts /\ t.irq.number = b.irq.number
    BY <1>3 DEF ScuOk, ScuState, Controller, CPU
<1> HIDE DEF t
<1>6. ScuOk(t) /\ TimersOk(t)
    BY <1>3, <1>4 DEF Acts, Does
<1>7. Queued(t.irq) = {}
    BY <1>3, <1>5 DEF Queued, Live
<1>8. /\ irq' = t.irq /\ ScuOk(scu)' /\ TimersOk(scu)' /\ scu' \in ScuState
      /\ Timer0Current(scu, scu')
    BY <1>1, <1>6, <1>7 DEF irq, ScuOk, Timer0Current
<1>9. /\ ResetVBlankLine \in Nat /\ ResetVBlankLine # MaxLineCount
      /\ MaxLineCount \in Nat
    BY EmulateAssumption
<1>10. TypeOk'
    <2>1. vblankLine' \in Nat /\ vblank' \in BOOLEAN
        BY <1>1, <1>9
    <2>2. sr' \in [CPU -> 0 .. 15]
        BY <1>1
    <2> QED
        BY <1>1, <1>8, <2>1, <2>2 DEF IInv, TypeOk
<1>11. StoppedSlaveIsClean' /\ VBlankInOnlyInVBlank'
    BY <1>5, <1>7, <1>8 DEF StoppedSlaveIsClean, VBlankInOnlyInVBlank
<1>12. LoopOk'
    BY <1>1, <1>9 DEF LoopOk, IInv
<1> QED
    BY <1>8, <1>10, <1>11, <1>12 DEF IInv

(* IInv is inductive, one step per action of the loop, and no step leaves  *)
(* a timer 0 interrupt behind whose line is past.                          *)
LEMMA Inductive ==
    /\ Init => IInv
    /\ IInv /\ [Next]_vars => IInv' /\ [Timer0Current(scu, scu')]_vars
<1>1. ASSUME Init PROVE IInv
    <2>1. /\ scu = InitScu /\ irq = InitScu.irq
          /\ ScuOk(scu) /\ TimersOk(scu) /\ Queued(irq) = {}
        BY <1>1, InitScuOk DEF Init, irq
    <2>2. scu \in ScuState
        BY <2>1 DEF ScuOk
    <2>3. irq.iqr["ssh2"] = << >>
        BY <2>1 DEF InitScu, InitController, CPU
    <2>4. /\ 0 \in 0 .. DecilineNum /\ 0 # DecilineNum
          /\ DecilineNum \in Nat /\ MaxLineCount \in Nat \ {0}
          /\ ResetVBlankLine \in Nat /\ ResetVBlankLine # MaxLineCount
        BY EmulateAssumption
    <2>5. TypeOk
        <3>1. vblankLine \in Nat /\ vblank \in BOOLEAN
            BY <1>1, <2>4 DEF Init
        <3>2. sr \in [CPU -> 0 .. 15]
            BY <1>1 DEF Init
        <3>3. decilineCount \in 0 .. DecilineNum
            BY <1>1, <2>4 DEF Init
        <3>4. lineCount \in 0 .. MaxLineCount - 1
            BY <1>1, <2>4 DEF Init
        <3> QED
            BY <1>1, <2>2, <3>1, <3>2, <3>3, <3>4 DEF Init, TypeOk, Phase
    <2>6. StoppedSlaveIsClean /\ VBlankInOnlyInVBlank
        BY <2>1, <2>3 DEF StoppedSlaveIsClean, VBlankInOnlyInVBlank
    <2>7. LoopOk
        BY <1>1, <2>4 DEF Init, LoopOk
    <2> QED
        BY <2>1, <2>5, <2>6, <2>7 DEF IInv
<1>2. ASSUME IInv, Next PROVE IInv' /\ Timer0Current(scu, scu')
    BY <1>2, StartSliceStep, EndSliceStep, DecilineStep, ScuTurnStep,
       RasterStep, SmpcStep, CdDoneStep, AccessStep, DeviceStep,
       HostResetStep
    DEF Next, Loop
<1>3. ASSUME IInv, UNCHANGED vars PROVE IInv'
    BY <1>3
    DEF vars, IInv, TypeOk, LoopOk, StoppedSlaveIsClean,
        VBlankInOnlyInVBlank, irq
<1> QED
    BY <1>1, <1>2, <1>3

(* IInv holds in every reachable state, for all values of the constants.   *)
THEOREM Invariance == Spec => []IInv
<1>1. IInv /\ [Next]_vars => IInv'
    BY Inductive
<1> QED
    BY <1>1, Inductive, PTL DEF Spec

(* The state stays typed: in particular the line never leaves the frame,   *)
(* whatever the program writes to TVMD and whenever the clock is changed.  *)
THEOREM TypeCorrect == Spec => []TypeOk
<1>1. IInv => TypeOk
    BY DEF IInv
<1> QED
    BY <1>1, Invariance, PTL

(* All three queues stay ascending and free of duplicates.                 *)
THEOREM QueuesInOrder == Spec => []QueuesOk
<1>1. IInv => QueuesOk
    BY DEF IInv, QueuesOk, ScuOk, IrqOk, QueueOk, irq
<1> QED
    BY <1>1, Invariance, PTL

(* No VBlank-IN is left in the SCU outside the blank.                      *)
THEOREM NoStaleVBlankIn == Spec => []VBlankInOnlyInVBlank
<1>1. IInv => VBlankInOnlyInVBlank
    BY DEF IInv
<1> QED
    BY <1>1, Invariance, PTL

(* While the timers are on, no step leaves a timer 0 interrupt in the      *)
(* queue but that of the line timer 0 stands on, and no state has one of   *)
(* timer 1 in the queue whose count was reloaded.                          *)
THEOREM NoStaleTimer == Spec => PendingTimersCurrent
<1>1. IInv /\ IInv' /\ [Next]_vars =>
         [Timer0Current(scu, scu') /\ TimersOk(scu')]_vars
    BY Inductive DEF IInv
<1> QED
    BY <1>1, Invariance, PTL DEF Spec, PendingTimersCurrent

(* The slave never starts with requests of its former life.                *)
THEOREM CleanStart == Spec => []StoppedSlaveIsClean
<1>1. IInv => StoppedSlaveIsClean
    BY DEF IInv
<1> QED
    BY <1>1, Invariance, PTL

(* A channel stands still at the end of its transfer, or with the rest of  *)
(* its table unread before an entry of 0; none has less than a word below  *)
(* zero left, which a later start would take for an unfinished transfer.   *)
THEOREM TransfersStop == Spec => []TransfersSettle
<1>1. IInv => TransfersSettle
    BY DEF IInv, TransfersSettle, ScuOk
<1> QED
    BY <1>1, Invariance, PTL

-----------------------------------------------------------------------------
(* What a step does to the pending requests, to the SCU's queue and to the *)
(* running channels, from the state s of the SCU to t.                     *)
Passes(s, t, W) ==
    /\ \A p \in CPU :
          Vectors(t.irq.iqr[p]) \subseteq Vectors(s.irq.iqr[p]) \cup AllVectors
    /\ Queued(s.irq) \subseteq Queued(t.irq) \cup W
    /\ \A ch \in Channel :
          ~Ended(s.dma[ch]) /\ Ended(t.dma[ch]) => Reported(t, ch)

(* No masked source reaches the master.                                    *)
Unmasked(s, t) ==
    \A x \in Source : On(t.irq, x) => On(s.irq, x) \/ x \notin t.irq.ims

(* The SCU's vectors are among those that are ever passed.                 *)
LEMMA ScuVectorsAreAll == ScuVectors \subseteq AllVectors
BY DEF ScuVectors, AllVectors

(* What the interrupt controller serves passes.                            *)
LEMMA ServesPasses ==
    ASSUME NEW s, NEW t, NEW W, Serves(s.irq, t.irq, W), t.dma = s.dma
    PROVE  Passes(s, t, W) /\ Unmasked(s, t)
BY ScuVectorsAreAll DEF Serves, Passes, Unmasked

(* What the SCU hands on passes.                                           *)
LEMMA HandsPasses ==
    ASSUME NEW s, NEW t, NEW W, Hands(s, t, W)
    PROVE  Passes(s, t, W) /\ Unmasked(s, t)
BY ScuVectorsAreAll DEF Hands, Serves, Passes, Unmasked

(* A step that leaves the SCU alone passes.                                *)
LEMMA PassesNothing ==
    ASSUME NEW s, NEW W PROVE Passes(s, s, W) /\ Unmasked(s, s)
BY DEF Passes, Unmasked

(* What loses less passes also where more may be lost.                     *)
LEMMA PassesMore ==
    ASSUME NEW s, NEW t, NEW W, NEW X, Passes(s, t, W), W \subseteq X
    PROVE  Passes(s, t, X)
BY DEF Passes

(* The request queue of an SH-2 is written by someone other than the SCU.  *)
Requested(s, t, p, q) ==
    /\ t.irq.iqr = [s.irq.iqr EXCEPT ![p] = q]
    /\ t.irq.interrupts = s.irq.interrupts /\ t.irq.number = s.irq.number
    /\ t.irq.ims = s.irq.ims /\ t.dma = s.dma

(* A write to one request queue touches nothing else of the SCU's.         *)
LEMMA RequestsWritten ==
    ASSUME NEW s, ScuOk(s), NEW p \in CPU, NEW q
    PROVE  Requested(s, [s EXCEPT !.irq.iqr[p] = q], p, q)
BY DEF ScuOk, ScuState, Controller, Requested

(* A request with a known vector passes.                                   *)
LEMMA RequestsPass ==
    ASSUME NEW s, ScuOk(s), NEW p \in CPU, NEW q,
           Vectors(q) \subseteq Vectors(s.irq.iqr[p]) \cup AllVectors,
           NEW t, Requested(s, t, p, q)
    PROVE  /\ Passes(s, t, {})
           /\ t.irq.iqr = [s.irq.iqr EXCEPT ![p] = q]
           /\ s.irq.iqr \in [CPU -> Seq(Request)]
           /\ Queued(t.irq) = Queued(s.irq)
<1>1. /\ t.irq.iqr = [s.irq.iqr EXCEPT ![p] = q]
      /\ t.irq.interrupts = s.irq.interrupts /\ t.irq.number = s.irq.number
      /\ t.irq.ims = s.irq.ims /\ t.dma = s.dma
      /\ s.irq.iqr \in [CPU -> Seq(Request)]
    BY DEF ScuOk, ScuState, Controller, Requested
<1>2. Queued(t.irq) = Queued(s.irq)
    BY <1>1 DEF Queued, Live
<1>3. \A x \in CPU :
         Vectors(t.irq.iqr[x]) \subseteq Vectors(s.irq.iqr[x]) \cup AllVectors
    BY <1>1
<1> QED
    BY <1>1, <1>2, <1>3 DEF Passes

(* What a slice's start takes off the queue of an SH-2.                    *)
LEMMA StartSlicePasses ==
    ASSUME IInv, NEW p \in CPU, StartSlice(p)
    PROVE  /\ Passes(scu, scu', {}) /\ Unmasked(scu, scu')
           /\ irq'.iqr[p] # irq.iqr[p] =>
                 \E i \in DOMAIN irq.iqr[p] :
                    /\ \A j \in DOMAIN irq.iqr[p] :
                          irq.iqr[p][j].level <= irq.iqr[p][i].level
                    /\ \/ irq.iqr[p][i].level > sr[p]
                       \/ irq.iqr[p][i].level >= 15
                    /\ Vectors(irq'.iqr[p])
                          = Vectors(irq.iqr[p]) \ {irq.iqr[p][i].vec}
<1> DEFINE q == irq.iqr[p]
           a == Accepted(q)
           t == [scu EXCEPT !.irq.iqr[p] = a]
<1>1. QueueOk(q) /\ ScuOk(scu) /\ q = scu.irq.iqr[p]
    BY DEF IInv, ScuOk, IrqOk, irq
<1>2. CASE ~Acceptable(q, sr[p])
    <2>1. scu' = scu /\ irq' = irq
        BY <1>2 DEF StartSlice, irq
    <2> QED
        BY <2>1, PassesNothing
<1>3. CASE Acceptable(q, sr[p])
    <2>1. scu' = t /\ q # << >>
        BY <1>3 DEF StartSlice, Acceptable
    <2>2. /\ Vectors(a) = Vectors(q) \ {Top(q).vec}
          /\ Len(q) \in DOMAIN q
          /\ \A j \in DOMAIN q : q[j].level <= Top(q).level
        BY <1>1, <2>1, AcceptedVectors
    <2>3. Top(q).level > sr[p] \/ Top(q).level >= 15
        BY <1>3 DEF Acceptable
    <2>4. Top(q) = q[Len(q)]
        BY DEF Top
    <2> HIDE DEF q, a
    <2>5. Requested(scu, t, p, a)
        BY <1>1, RequestsWritten
    <2> HIDE DEF t
    <2>6. /\ Passes(scu, t, {})
          /\ t.irq.iqr = [scu.irq.iqr EXCEPT ![p] = a]
          /\ scu.irq.iqr \in [CPU -> Seq(Request)]
        BY <1>1, <2>2, <2>5, RequestsPass
    <2>7. \A x \in CPU :
             Vectors(t.irq.iqr[x]) \subseteq Vectors(scu.irq.iqr[x])
        BY <1>1, <2>2, <2>6
    <2>8. Unmasked(scu, t)
        BY <2>7 DEF Unmasked, On, CPU
    <2>9. irq'.iqr[p] = a
        BY <2>1, <2>6 DEF irq
    <2>10. /\ \A j \in DOMAIN q : q[j].level <= q[Len(q)].level
           /\ q[Len(q)].level > sr[p] \/ q[Len(q)].level >= 15
           /\ Vectors(irq'.iqr[p]) = Vectors(q) \ {q[Len(q)].vec}
        BY <2>2, <2>3, <2>4, <2>9
    <2>11. Passes(scu, scu', {}) /\ Unmasked(scu, scu')
        BY <2>1, <2>6, <2>8
    <2>12. q = irq.iqr[p]
        BY DEF q
    <2>13. \E i \in DOMAIN irq.iqr[p] :
             /\ \A j \in DOMAIN irq.iqr[p] :
                   irq.iqr[p][j].level <= irq.iqr[p][i].level
             /\ irq.iqr[p][i].level > sr[p] \/ irq.iqr[p][i].level >= 15
             /\ Vectors(irq'.iqr[p])
                   = Vectors(irq.iqr[p]) \ {irq.iqr[p][i].vec}
        BY <2>2, <2>10, <2>12
    <2> QED
        BY <2>11, <2>13
<1> QED
    BY <1>2, <1>3

(* An access of the program: what a write to IMS, IST or AIACK lets go     *)
(* goes to the master, but for what a write to IST removes, and nothing    *)
(* higher that could have gone stays; no other access takes anything out   *)
(* of the SCU's queue.                                                     *)
LEMMA AccessPasses ==
    ASSUME IInv, NEW p \in CPU, Access(p)
    PROVE  /\ Passes(scu, scu', Queueable)
           /\ OnChipRequest(p) \/ Unmasked(scu, scu')
           /\ \/ Queued(irq) \subseteq Queued(irq')
              \/ /\ HighestGone(irq, irq')
                 /\ ProgramIST(p) \/ Given(irq, irq')
<1>1. ScuOk(scu) /\ IrqOk(irq)
    BY DEF IInv, ScuOk, irq
<1>2. ASSUME Hands(scu, scu', {})
      PROVE  /\ Passes(scu, scu', Queueable) /\ Unmasked(scu, scu')
             /\ Queued(irq) \subseteq Queued(irq')
    <2>1. Passes(scu, scu', {}) /\ Unmasked(scu, scu')
        BY <1>2, HandsPasses
    <2>2. {} \subseteq Queueable
        OBVIOUS
    <2> QED
        BY <2>1, <2>2, PassesMore DEF Passes, irq
<1>3. CASE SetLevel(p) \/ ProgramTVMD(p)
    BY <1>2, <1>3, HandsNothing DEF SetLevel, ProgramTVMD
<1>4. CASE OnChipRequest(p)
    <2>1. PICK r \in OnChip :
             Program(p, [scu EXCEPT !.irq.iqr[p] = SetInterrupt(@, r)])
        BY <1>4 DEF OnChipRequest
    <2> DEFINE q == SetInterrupt(scu.irq.iqr[p], r)
               t == [scu EXCEPT !.irq.iqr[p] = q]
    <2>2. scu' = t
        BY <2>1 DEF Program
    <2>3. Vectors(q) = Vectors(scu.irq.iqr[p]) \cup {r.vec}
        <3>1. r \in Request /\ QueueOk(scu.irq.iqr[p])
            BY <1>1, EmulateAssumption DEF ScuOk, IrqOk
        <3> QED
            BY <3>1, SetInterruptVectors
    <2>4. r.vec \in AllVectors
        BY DEF AllVectors
    <2> HIDE DEF q
    <2>5. Vectors(q) \subseteq Vectors(scu.irq.iqr[p]) \cup AllVectors
        BY <2>3, <2>4
    <2>6. Requested(scu, t, p, q)
        BY <1>1, RequestsWritten
    <2> HIDE DEF t
    <2>7. Passes(scu, t, {}) /\ Queued(t.irq) = Queued(scu.irq)
        <3>1. ScuOk(scu)
            BY <1>1
        <3>2. Passes(scu, t, {})
            BY <3>1, <2>5, <2>6, RequestsPass
        <3>3. Queued(t.irq) = Queued(scu.irq)
            BY <2>6 DEF Requested, Queued, Live
        <3> QED
            BY <3>2, <3>3
    <2>8. Passes(scu, t, Queueable)
        BY <2>7, PassesMore
    <2> QED
        BY <1>4, <2>2, <2>7, <2>8 DEF irq
<1>5. ASSUME NEW c, NEW W, scu' = [scu EXCEPT !.irq = c]
      PROVE  irq' = c /\ scu'.irq = c /\ scu'.dma = scu.dma
    BY <1>1, <1>5 DEF irq, ScuOk, ScuState
<1>6. CASE ProgramIMS(p)
    <2>1. PICK m \in MaskWrites : scu' = [scu EXCEPT !.irq = WriteIMS(@, m)]
        BY <1>6 DEF ProgramIMS, Program
    <2> DEFINE o == scu.irq
               d == [o EXCEPT !.ims = m]
               c == WriteIMS(o, m)
    <2>2. m \in SUBSET Source /\ IrqOk(o)
        BY <1>1, EmulateAssumption DEF irq
    <2> HIDE DEF o
    <2>3. /\ Serves(d, c, Queueable) /\ Given(o, c)
          /\ d.ims = m /\ d.iqr = o.iqr /\ Queued(d) = Queued(o)
          /\ HighestGone(o, c)
        BY <2>2, WriteIMSServes
    <2>4. irq' = c /\ scu'.irq = c /\ scu'.dma = scu.dma
        BY <1>5, <2>1 DEF o
    <2> HIDE DEF c, d
    <2>5. Passes(scu, scu', Queueable) /\ Unmasked(scu, scu')
        BY <2>3, <2>4, ScuVectorsAreAll
        DEF Serves, Passes, Unmasked, On, o
    <2> QED
        BY <2>3, <2>4, <2>5 DEF o, irq
<1>7. CASE ProgramIST(p)
    <2>1. PICK k \in StatusWrites : scu' = [scu EXCEPT !.irq = WriteIST(@, k)]
        BY <1>7 DEF ProgramIST, Program
    <2> DEFINE c == WriteIST(scu.irq, k)
    <2>2. Serves(scu.irq, c, Queueable) /\ HighestGone(scu.irq, c)
        BY <1>1, WriteISTServes DEF irq
    <2>3. irq' = c /\ scu'.irq = c /\ scu'.dma = scu.dma
        BY <1>5, <2>1
    <2> HIDE DEF c
    <2> QED
        BY <1>7, <2>2, <2>3, ServesPasses DEF irq
<1>8. CASE ProgramAIACK(p)
    <2>1. PICK on \in BOOLEAN : scu' = [scu EXCEPT !.irq = WriteAIACK(@, on)]
        BY <1>8 DEF ProgramAIACK, Program
    <2> DEFINE c == WriteAIACK(scu.irq, on)
    <2>2. /\ Serves(scu.irq, c, Queueable) /\ HighestGone(scu.irq, c)
          /\ Given(scu.irq, c)
        BY <1>1, WriteAIACKServes DEF irq
    <2>3. irq' = c /\ scu'.irq = c /\ scu'.dma = scu.dma
        BY <1>5, <2>1
    <2> HIDE DEF c
    <2> QED
        BY <2>2, <2>3, ServesPasses DEF irq
<1>9. CASE ProgramT0C(p) \/ ProgramT1S(p) \/ ProgramT1MD(p)
    BY <1>1, <1>2, <1>9, TimerWritesHand
    DEF ProgramT0C, ProgramT1S, ProgramT1MD, Program
<1>10. CASE ProgramTransfer(p) \/ ProgramDnMD(p) \/ ProgramDnEN(p)
    <2>1. \A ch \in Channels : ch \in Channel
        BY EmulateAssumption
    <2> QED
        BY <1>1, <1>2, <1>10, <2>1, ChannelWritesHand
        DEF ProgramTransfer, ProgramDnMD, ProgramDnEN, Program
<1>11. CASE ProgramDraw(p) \/ ProgramHIRQ(p)
    <2>1. "DrawEnd" \in Source /\ "ExtInt00" \in Source
        BY DEF Source
    <2>2. /\ Hands(scu, ScuSendDrawEnd(scu), {})
          /\ Hands(scu, Raise(scu, "ExtInt00"), {})
        BY <1>1, <2>1, RaiseAndStartHands, RaiseHands DEF ScuSendDrawEnd
    <2> QED
        BY <1>2, <1>11, <2>2 DEF ProgramDraw, ProgramHIRQ, Program
<1> QED
    BY <1>3, <1>4, <1>6, <1>7, <1>8, <1>9, <1>10, <1>11 DEF Access

(* A step of the loop before the SMPC's.  Only the end of the blank takes  *)
(* a VBlank-IN out of the queue.                                           *)
TurnPassed ==
    /\ Passes(scu, scu', Blankings) /\ Unmasked(scu, scu')
    /\ \/ Queued(irq) \subseteq Queued(irq') \cup {"Timer0", "Timer1"}
       \/ ~vblank'

(* A step that withdraws timers, or all blankings after the blank, passes. *)
LEMMA HandsTurn ==
    ASSUME NEW W, Hands(scu, scu', W),
           \/ W \subseteq {"Timer0", "Timer1"}
           \/ W \subseteq Blankings /\ ~vblank'
    PROVE  TurnPassed
<1>1. W \subseteq Blankings
    BY BlankingsAreNoEnd
<1>2. Passes(scu, scu', W) /\ Unmasked(scu, scu')
    BY HandsPasses
<1>3. Passes(scu, scu', Blankings)
    BY <1>1, <1>2, PassesMore
<1>4. Queued(irq) \subseteq Queued(irq') \cup W
    BY <1>2 DEF Passes, irq
<1> QED
    BY <1>2, <1>3, <1>4 DEF TurnPassed

(* Vdp2HBlankIN withdraws the timers at most.                              *)
LEMMA HBlankINPasses ==
    ASSUME NEW s, ScuOk(s)
    PROVE  Hands(s, HBlankIN(s), {"Timer0", "Timer1"})
<1> DEFINE W == {"Timer0", "Timer1"}
           t == ScuSendHBlankIN(s)
           q == SetInterrupt(t.irq.iqr["ssh2"], HBlankForSlave)
           u == [t EXCEPT !.irq.iqr["ssh2"] = q]
<1>1. Hands(s, t, W) /\ ScuOk(t)
    BY SendHBlankINHands, SendHBlankINOk, ActsOk
<1>2. HBlankIN(s) = IF t.irq.ssh2 THEN u ELSE t
    BY DEF HBlankIN
<1> HIDE DEF t
<1>3. /\ "ssh2" \in CPU /\ "msh2" # "ssh2" /\ HBlankForSlave \in Request
      /\ HBlankForSlave.vec = Vector["VBlankOUT"]
      /\ "VBlankOUT" \in Source /\ W \in SUBSET NoEnd
    BY BlankingsAreNoEnd
    DEF CPU, HBlankForSlave, Request, NMILevel, Vector, Source
<1>4. QueueOk(t.irq.iqr["ssh2"])
    BY <1>1, <1>3 DEF ScuOk, IrqOk
<1>5. Vectors(q) = Vectors(t.irq.iqr["ssh2"]) \cup {HBlankForSlave.vec}
    BY <1>3, <1>4, SetInterruptVectors
<1>6. HBlankForSlave.vec \in ScuVectors
    BY <1>3 DEF ScuVectors
<1>7. Vectors(q) \subseteq Vectors(t.irq.iqr["ssh2"]) \cup AllVectors
    BY <1>5, <1>6, ScuVectorsAreAll
<1> HIDE DEF q
<1>8. Requested(t, u, "ssh2", q)
    BY <1>1, <1>3, RequestsWritten
<1> HIDE DEF u
<1>9. /\ u.irq.iqr = [t.irq.iqr EXCEPT !["ssh2"] = q]
      /\ t.irq.iqr \in [CPU -> Seq(Request)]
      /\ Queued(u.irq) = Queued(t.irq)
      /\ u.irq.ims = t.irq.ims /\ u.dma = t.dma
    BY <1>1, <1>3, <1>7, <1>8, RequestsPass DEF Requested
<1>10. /\ u.irq.iqr["msh2"] = t.irq.iqr["msh2"]
      /\ \A p \in CPU :
            Vectors(u.irq.iqr[p]) \subseteq Vectors(t.irq.iqr[p]) \cup ScuVectors
    BY <1>3, <1>5, <1>6, <1>9 DEF CPU
<1>11. Serves(t.irq, u.irq, W)
    BY <1>9, <1>10 DEF Serves, On
<1>12. Hands(t, u, W)
    BY <1>9, <1>11 DEF Hands
<1> HIDE DEF W
<1>13. Hands(s, u, W)
    BY <1>1, <1>3, <1>12, HandsTwice
<1> QED
    BY <1>1, <1>2, <1>13 DEF W

(* The end of a line.                                                      *)
LEMMA RasterPasses ==
    ASSUME IInv, Raster
    PROVE  TurnPassed
<1>1. ScuOk(scu) /\ {} \subseteq Blankings
    BY DEF IInv
<1>2. CASE scu' = scu
    <2>1. Hands(scu, scu', {})
        BY <1>2, HandsNothing
    <2> QED
        BY <2>1, HandsTurn
<1>3. CASE scu' = ScuSendVBlankIN(scu)
    <2>1. Hands(scu, scu', {"Timer0"})
        BY <1>1, <1>3, SendVBlankINHands
    <2> QED
        BY <2>1, HandsTurn
<1>4. CASE /\ vblank' = FALSE
           /\ \E drawEnd \in {FALSE} \cup {"DrawEnd" \in Devices} :
                 scu' = ScuSendVBlankOUT(IF drawEnd
                                         THEN ScuSendDrawEnd(scu) ELSE scu)
    <2>1. PICK a \in {scu, ScuSendDrawEnd(scu)} : scu' = ScuSendVBlankOUT(a)
        BY <1>4
    <2>2. "DrawEnd" \in Source /\ Blankings \in SUBSET NoEnd
        BY BlankingsAreNoEnd DEF Source
    <2>3. Hands(scu, ScuSendDrawEnd(scu), Blankings)
        BY <1>1, <2>2, RaiseAndStartHands, HandsMore DEF ScuSendDrawEnd
    <2>4. Hands(scu, a, Blankings)
        BY <2>1, <2>3, HandsNothing
    <2>5. ScuOk(a)
        BY <1>1, <2>1, DeviceOk, ActsOk
    <2>6. Hands(a, scu', Blankings)
        BY <2>1, <2>5, SendVBlankOUTHands
    <2>7. Hands(scu, scu', Blankings)
        BY <2>2, <2>4, <2>6, HandsTwice
    <2> QED
        BY <1>4, <2>7, HandsTurn
<1> QED
    BY <1>2, <1>3, <1>4 DEF Raster, SameLine, NextLine

(* The NMI is none of the SCU's sources.                                   *)
LEMMA NMIPasses ==
    ASSUME NEW s, ScuOk(s)
    PROVE  Passes(s, SendNMI(s), {}) /\ Unmasked(s, SendNMI(s))
<1> DEFINE q == SetInterrupt(s.irq.iqr["msh2"], NMI)
           t == [s EXCEPT !.irq.iqr["msh2"] = q]
<1>1. "msh2" \in CPU /\ NMI \in Request /\ NMI.vec = NMIVector
    BY DEF CPU, NMI, Request, NMILevel, NMIVector
<1>2. QueueOk(s.irq.iqr["msh2"])
    BY <1>1 DEF ScuOk, IrqOk
<1>3. Vectors(q) = Vectors(s.irq.iqr["msh2"]) \cup {NMIVector}
    BY <1>1, <1>2, SetInterruptVectors
<1>4. SendNMI(s) = t
    BY DEF SendNMI
<1>5. Vectors(q) \subseteq Vectors(s.irq.iqr["msh2"]) \cup AllVectors
    BY <1>3 DEF AllVectors
<1> HIDE DEF q
<1>6. Requested(s, t, "msh2", q)
    BY <1>1, RequestsWritten
<1> HIDE DEF t
<1>7. /\ Passes(s, t, {})
      /\ t.irq.iqr = [s.irq.iqr EXCEPT !["msh2"] = q]
      /\ s.irq.iqr \in [CPU -> Seq(Request)]
    BY <1>1, <1>5, <1>6, RequestsPass
<1>8. Vectors(t.irq.iqr["msh2"]) = Vectors(s.irq.iqr["msh2"]) \cup {NMIVector}
    BY <1>1, <1>3, <1>7
<1>9. Unmasked(s, t)
    BY <1>8, VectorsDiffer DEF Unmasked, On
<1> QED
    BY <1>4, <1>7, <1>9

(* The slave's queue is emptied.                                           *)
LEMMA WithoutSlavePasses ==
    ASSUME NEW s, ScuOk(s)
    PROVE  /\ Passes(s, WithoutSlave(s), {}) /\ Unmasked(s, WithoutSlave(s))
           /\ WithoutSlave(s).irq.ims = s.irq.ims
           /\ WithoutSlave(s).irq.iqr["msh2"] = s.irq.iqr["msh2"]
<1> DEFINE o == s.irq
           c == [o EXCEPT !.ssh2 = FALSE]
           d == [c EXCEPT !.iqr["ssh2"] = << >>]
           t == [s EXCEPT !.irq = d]
<1>1. o \in Controller /\ s \in ScuState
    BY DEF ScuOk, ScuState
<1>2. /\ c \in Controller /\ c.iqr = o.iqr /\ c.ims = o.ims
      /\ c.interrupts = o.interrupts /\ c.number = o.number
    BY <1>1 DEF Controller
<1> HIDE DEF c
<1>3. /\ d.iqr = [o.iqr EXCEPT !["ssh2"] = << >>] /\ d.ims = o.ims
      /\ d.interrupts = o.interrupts /\ d.number = o.number
      /\ o.iqr \in [CPU -> Seq(Request)]
    BY <1>1, <1>2 DEF Controller
<1> HIDE DEF d
<1>4. t.irq = d /\ t.dma = s.dma
    BY <1>1 DEF ScuState
<1>5. WithoutSlave(s) = t
    BY DEF WithoutSlave, c, d
<1> HIDE DEF t
<1>6. Queued(d) = Queued(o)
    BY <1>3 DEF Queued, Live
<1>7. Vectors(<< >>) = {}
    BY DEF Vectors
<1>8. \A p \in CPU : Vectors(d.iqr[p]) \subseteq Vectors(o.iqr[p])
    BY <1>3, <1>7
<1>9. d.iqr["msh2"] = o.iqr["msh2"]
    BY <1>3 DEF CPU
<1> HIDE DEF o
<1> QED
    BY <1>3, <1>4, <1>5, <1>6, <1>8, <1>9 DEF Passes, Unmasked, On, o

-----------------------------------------------------------------------------
(* A step that withdraws nothing is such a step.                           *)
LEMMA PassesTurn ==
    ASSUME Passes(scu, scu', {}), Unmasked(scu, scu')
    PROVE  TurnPassed
<1>1. Passes(scu, scu', Blankings)
    BY PassesMore
<1> QED
    BY <1>1 DEF TurnPassed, Passes, irq

(* The SMPC's commands other than the clock change.                        *)
LEMMA SmpcPasses ==
    ASSUME IInv, Smpc, ~CKCHG
    PROVE  TurnPassed
<1>1. ScuOk(scu)
    BY DEF IInv
<1>2. CASE SmpcIdle
    BY <1>2, PassesNothing, PassesTurn DEF SmpcIdle
<1>3. CASE SystemManager
    <2>1. Hands(scu, scu', {})
        BY <1>1, <1>3, RaiseHands DEF SystemManager, Source
    <2> QED
        BY <2>1, HandsTurn
<1>4. CASE StartSlave
    <2> DEFINE t == [scu EXCEPT !.irq.ssh2 = TRUE]
    <2>1. scu' = t
        BY <1>4 DEF StartSlave
    <2>2. /\ t.irq.iqr = scu.irq.iqr /\ t.irq.ims = scu.irq.ims
          /\ t.irq.interrupts = scu.irq.interrupts
          /\ t.irq.number = scu.irq.number /\ t.dma = scu.dma
        BY <1>1 DEF ScuOk, ScuState, Controller
    <2> HIDE DEF t
    <2>3. Passes(scu, t, {}) /\ Unmasked(scu, t)
        BY <2>2 DEF Passes, Unmasked, On, Queued, Live
    <2> QED
        BY <2>1, <2>3, PassesTurn
<1>5. CASE StopSlave
    BY <1>1, <1>5, WithoutSlavePasses, PassesTurn DEF StopSlave
<1>6. CASE NMIREQ
    BY <1>1, <1>6, NMIPasses, PassesTurn DEF NMIREQ
<1> QED
    BY <1>2, <1>3, <1>4, <1>5, <1>6 DEF Smpc

(* The turns of the loop, but for the resets.                              *)
LEMMA TurnPasses ==
    ASSUME IInv, ~CKCHG,
           \/ EndSlice \/ Deciline \/ ScuTurn \/ Raster \/ Smpc \/ CdDone
           \/ SoundRequest \/ CdInterrupt
           \/ \E p \in CPU : StartSlice(p)
    PROVE  TurnPassed
<1>1. ScuOk(scu)
    BY DEF IInv
<1>2. CASE EndSlice \/ CdDone
    BY <1>2, PassesNothing, PassesTurn DEF EndSlice, CdDone
<1>3. CASE Deciline
    <2>1. scu' = scu \/ scu' = HBlankIN(scu)
        BY <1>3 DEF Deciline
    <2>2. Hands(scu, scu', {"Timer0", "Timer1"})
        BY <1>1, <2>1, HBlankINPasses, HandsNothing
    <2> QED
        BY <2>2, HandsTurn
<1>4. CASE ScuTurn
    <2>1. PICK dspEnd \in {FALSE} \cup {"DSPEnd" \in Devices} :
             scu' = ScuExec(scu, lineCount, dspEnd)
        BY <1>4 DEF ScuTurn
    <2>2. Hands(scu, scu', {})
        BY <1>1, <2>1, ScuExecHands
    <2> QED
        BY <2>2, HandsTurn
<1>5. CASE SoundRequest \/ CdInterrupt
    <2>1. "SoundRequest" \in Source /\ "ExtInt00" \in Source
        BY DEF Source
    <2>2. /\ Hands(scu, ScuSendSoundRequest(scu), {})
          /\ Hands(scu, Raise(scu, "ExtInt00"), {})
        BY <1>1, <2>1, RaiseAndStartHands, RaiseHands
        DEF ScuSendSoundRequest
    <2>3. Hands(scu, scu', {})
        BY <1>5, <2>2 DEF SoundRequest, CdInterrupt
    <2> QED
        BY <2>3, HandsTurn
<1>6. CASE \E p \in CPU : StartSlice(p)
    BY <1>6, StartSlicePasses, PassesTurn
<1> QED
    BY <1>2, <1>3, <1>4, <1>5, <1>6, RasterPasses, SmpcPasses

(* The resets mask every source, and present none but the NMI.             *)
LEMMA ResetsPass ==
    ASSUME IInv, CKCHG \/ HostReset
    PROVE  /\ \A p \in CPU : Vectors(irq'.iqr[p])
                 \subseteq Vectors(irq.iqr[p]) \cup AllVectors
           /\ Unmasked(scu, scu')
<1> DEFINE a == ScuReset(scu)
           b == WithoutSlave(a)
<1>1. ScuOk(a) /\ a.irq.iqr = scu.irq.iqr
    BY ScuResetOk, ScuResetHands DEF Does, IInv
<1> HIDE DEF a
<1>2. /\ Passes(a, b, {}) /\ ScuOk(b)
      /\ b.irq.iqr["msh2"] = a.irq.iqr["msh2"]
    BY <1>1, WithoutSlavePasses, WithoutSlaveOk
<1> HIDE DEF b
<1>3. /\ \A p \in CPU : Vectors(b.irq.iqr[p])
            \subseteq Vectors(scu.irq.iqr[p]) \cup AllVectors
      /\ b.irq.iqr["msh2"] = scu.irq.iqr["msh2"]
    BY <1>1, <1>2 DEF Passes
<1>4. CASE CKCHG
    <2>1. scu' = SendNMI(b)
        BY <1>4 DEF CKCHG, a, b
    <2>2. Passes(b, SendNMI(b), {}) /\ Unmasked(b, SendNMI(b))
        BY <1>2, NMIPasses
    <2>3. \A p \in CPU : Vectors(scu'.irq.iqr[p])
             \subseteq Vectors(scu.irq.iqr[p]) \cup AllVectors
        BY <1>3, <2>1, <2>2 DEF Passes
    <2>4. Unmasked(scu, scu')
        BY <1>3, <2>1, <2>2 DEF Unmasked, On
    <2> QED
        BY <2>3, <2>4 DEF irq
<1>5. CASE HostReset
    <2> DEFINE t == [b EXCEPT !.irq.iqr["msh2"] = << >>]
    <2>1. scu' = t
        BY <1>5 DEF HostReset, a, b
    <2>2. Requested(b, t, "msh2", << >>)
        BY <1>2, RequestsWritten DEF CPU
    <2> HIDE DEF t
    <2>3. Vectors(<< >>) = {}
        BY DEF Vectors
    <2>4. b.irq.iqr \in [CPU -> Seq(Request)]
        BY <1>2 DEF ScuOk, ScuState, Controller
    <2>5. \A p \in CPU : Vectors(t.irq.iqr[p]) \subseteq Vectors(b.irq.iqr[p])
        BY <2>2, <2>3, <2>4 DEF Requested
    <2>6. Vectors(t.irq.iqr["msh2"]) = {}
        BY <2>2, <2>3, <2>4 DEF Requested, CPU
    <2> QED
        BY <1>3, <2>1, <2>5, <2>6 DEF irq, Unmasked, On
<1> QED
    BY <1>4, <1>5

-----------------------------------------------------------------------------
(* Every vector pending on an SH-2 is one somebody raises.                 *)
VectorsKnown == \A p \in CPU : Vectors(irq.iqr[p]) \subseteq AllVectors

(* No step adds a vector that nobody raises.                               *)
LEMMA VectorsStep ==
    ASSUME IInv, VectorsKnown, [Next]_vars PROVE VectorsKnown'
<1>1. CASE UNCHANGED vars
    BY <1>1 DEF vars, VectorsKnown, irq
<1>2. ASSUME NEW W, Passes(scu, scu', W) PROVE VectorsKnown'
    BY <1>2 DEF Passes, VectorsKnown, irq
<1>3. CASE \E p \in CPU : Access(p)
    BY <1>2, <1>3, AccessPasses
<1>4. CASE CKCHG \/ HostReset
    BY <1>4, ResetsPass DEF VectorsKnown
<1>5. CASE (Loop /\ ~CKCHG) \/ SoundRequest \/ CdInterrupt
    <2>1. TurnPassed
        BY <1>5, TurnPasses
        DEF Loop, SoundRequest, CdInterrupt, CKCHG, SmpcCommand
    <2> QED
        BY <1>2, <2>1 DEF TurnPassed
<1> QED
    BY <1>1, <1>3, <1>4, <1>5 DEF Next, Loop

(* Only known vectors are ever pending.                                    *)
LEMMA VectorsInvariance == Spec => []VectorsKnown
<1>1. Init => VectorsKnown
    <2> SUFFICES ASSUME Init PROVE VectorsKnown
        OBVIOUS
    <2>1. \A p \in CPU : irq.iqr[p] = << >>
        BY DEF Init, irq, InitScu, InitController
    <2>2. Vectors(<< >>) = {}
        BY DEF Vectors
    <2> QED
        BY <2>1, <2>2 DEF VectorsKnown
<1>2. IInv /\ VectorsKnown /\ [Next]_vars => VectorsKnown'
    BY VectorsStep
<1> QED
    BY <1>1, <1>2, Invariance, PTL DEF Spec

(* Finitely many vectors are raised: the SCU's, the NMI's and those of the *)
(* on-chip modules.                                                        *)
LEMMA AllVectorsFinite == IsFiniteSet(AllVectors)
<1> DEFINE v == {Vector[s] : s \in Source}
           c == {SlaveCopy[s].vec : s \in DOMAIN SlaveCopy}
           o == {r.vec : r \in OnChip}
           k == 64
           l == 80
<1>1. v \subseteq k .. l /\ c \subseteq k .. l
    BY DEF Source, Vector, SlaveCopy
<1>2. AllVectors = v \cup {NMIVector} \cup o \cup c
    BY DEF AllVectors
<1>3. k \in Int /\ l \in Int
    OBVIOUS
<1>4. IsFiniteSet(o)
    <2> DEFINE f == [r \in OnChip |-> r.vec]
    <2>1. IsFiniteSet(OnChip)
        BY EmulateAssumption
    <2>2. f \in Surjection(OnChip, o)
        BY DEF Surjection
    <2> HIDE DEF f, o
    <2>3. Surjection(OnChip, o) # {}
        BY <2>2
    <2> QED
        BY <2>1, <2>2, FS_Surjection, Zenon
<1> HIDE DEF v, c, o, k, l
<1>5. IsFiniteSet(k .. l)
    BY <1>3, FS_Interval
<1>6. IsFiniteSet(v) /\ IsFiniteSet(c)
    BY <1>1, <1>5, FS_Subset
<1>7. IsFiniteSet({NMIVector})
    BY FS_Singleton
<1> QED
    BY <1>2, <1>4, <1>6, <1>7, FS_Union

(* Neither array overflows.                                                *)
THEOREM QueuesNeverOverflow == Spec => []QueuesFit
<1>1. IInv /\ VectorsKnown => QueuesFit
    <2> SUFFICES ASSUME IInv, VectorsKnown PROVE QueuesFit
        OBVIOUS
    <2>1. IrqOk(irq)
        BY DEF IInv, ScuOk, irq
    <2>2. irq.number < MaxQueued
        <3>1. irq.number \in 0 .. 14
            BY <2>1, RoomInQueue
        <3> QED
            BY <3>1 DEF MaxQueued
    <2>3. ASSUME NEW p \in CPU PROVE Len(irq.iqr[p]) <= MaxInterrupts
        <3>1. QueueOk(irq.iqr[p]) /\ Vectors(irq.iqr[p]) \subseteq AllVectors
            BY <2>1 DEF IrqOk, VectorsKnown
        <3>2. Len(irq.iqr[p]) <= Cardinality(AllVectors)
            BY <3>1, AllVectorsFinite, QueueLength
        <3>3. Len(irq.iqr[p]) \in Nat
            BY <3>1 DEF QueueOk
        <3>4. Cardinality(AllVectors) \in Nat
            BY AllVectorsFinite, FS_CardinalityType
        <3> QED
            BY <3>2, <3>3, <3>4, EmulateAssumption
    <2> QED
        BY <2>2, <2>3 DEF QueuesFit
<1> QED
    BY <1>1, Invariance, VectorsInvariance, PTL

-----------------------------------------------------------------------------
(* A step of the program, one of the rest of the loop, a reset, or none.   *)
LEMMA StepKinds ==
    ASSUME [Next]_vars
    PROVE  \/ UNCHANGED vars
           \/ \E p \in CPU : Access(p)
           \/ CKCHG \/ HostReset
           \/ /\ ~CKCHG
              /\ \/ EndSlice \/ Deciline \/ ScuTurn \/ Raster \/ Smpc \/ CdDone
                 \/ SoundRequest \/ CdInterrupt
                 \/ \E p \in CPU : StartSlice(p)
BY Zenon DEF Next, Loop

(* No step but one of an on-chip module hands the master a masked source.  *)
THEOREM MaskHolds == Spec => OnlyUnmaskedPresented
<1>1. IInv /\ [Next]_vars =>
         [\A s \in Source : ~Pending(s) /\ Pending(s)'
             => s \notin irq'.ims \/ \E p \in CPU : OnChipRequest(p)]_vars
    <2> SUFFICES ASSUME IInv, [Next]_vars,
                        NEW s \in Source, ~Pending(s), Pending(s)',
                        ~ \E p \in CPU : OnChipRequest(p)
                 PROVE  s \notin irq'.ims
        OBVIOUS
    <2>1. ~On(scu.irq, s) /\ On(scu'.irq, s) /\ irq' = scu'.irq
        BY DEF Pending, On, irq
    <2>2. CASE UNCHANGED vars
        BY <2>1, <2>2 DEF vars
    <2>3. ASSUME Unmasked(scu, scu') PROVE s \notin irq'.ims
        BY <2>1, <2>3 DEF Unmasked
    <2>4. CASE \E p \in CPU : Access(p)
        BY <2>3, <2>4, AccessPasses
    <2>5. CASE CKCHG \/ HostReset
        BY <2>3, <2>5, ResetsPass
    <2>6. ASSUME TurnPassed PROVE s \notin irq'.ims
        BY <2>3, <2>6 DEF TurnPassed
    <2> QED
        BY <2>2, <2>4, <2>5, <2>6, StepKinds, TurnPasses
<1> QED
    BY <1>1, Invariance, PTL DEF Spec, OnlyUnmaskedPresented

(* A channel that comes to its end has it reported in the same step.       *)
THEOREM EndsReported == Spec => DmaEndReported
<1>1. IInv /\ [Next]_vars =>
         [\A ch \in Channel :
             ~Ended(scu.dma[ch]) /\ Ended(scu'.dma[ch])
             => \/ EndOf(ch) \in Queued(irq')
                \/ Pending(EndOf(ch))'
                \/ CKCHG \/ HostReset]_vars
    <2> SUFFICES ASSUME IInv, [Next]_vars, NEW ch \in Channel,
                        ~Ended(scu.dma[ch]), Ended(scu'.dma[ch]),
                        ~CKCHG, ~HostReset
                 PROVE  EndOf(ch) \in Queued(irq') \/ Pending(EndOf(ch))'
        OBVIOUS
    <2>1. CASE UNCHANGED vars
        BY <2>1 DEF vars
    <2>2. ASSUME NEW W, Passes(scu, scu', W)
          PROVE  EndOf(ch) \in Queued(irq') \/ Pending(EndOf(ch))'
        <3>1. Reported(scu', ch)
            BY <2>2 DEF Passes
        <3> QED
            BY <3>1 DEF Reported, On, Pending, irq
    <2>3. CASE \E p \in CPU : Access(p)
        BY <2>2, <2>3, AccessPasses
    <2>4. ASSUME TurnPassed
          PROVE  EndOf(ch) \in Queued(irq') \/ Pending(EndOf(ch))'
        BY <2>2, <2>4 DEF TurnPassed
    <2> QED
        BY <2>1, <2>3, <2>4, StepKinds, TurnPasses
<1> QED
    BY <1>1, Invariance, PTL DEF Spec, DmaEndReported

(* Nothing is lost out of the SCU's queue.                                 *)
THEOREM NothingLost == Spec => HeldUntilPresented
<1>1. IInv /\ [Next]_vars =>
         [\A s \in Queued(irq) \ Queued(irq') :
             \/ Pending(s)'
             \/ s = "VBlankIN" /\ vblank /\ ~vblank'
             \/ s \in {"Timer0", "Timer1"}
             \/ \E p \in CPU : ProgramIST(p)
             \/ CKCHG \/ HostReset]_vars
    <2> SUFFICES ASSUME IInv, [Next]_vars,
                        NEW s \in Queued(irq) \ Queued(irq'),
                        ~CKCHG, ~HostReset, ~ \E p \in CPU : ProgramIST(p)
                 PROVE  \/ Pending(s)'
                        \/ s = "VBlankIN" /\ vblank /\ ~vblank'
                        \/ s \in {"Timer0", "Timer1"}
        OBVIOUS
    <2>1. CASE UNCHANGED vars
        BY <2>1 DEF vars, irq
    <2>2. CASE \E p \in CPU : Access(p)
        <3>1. PICK p \in CPU : Access(p)
            BY <2>2
        <3>2. Given(irq, irq')
            BY <3>1, AccessPasses
        <3>3. On(irq', s)
            BY <3>2 DEF Given
        <3> QED
            BY <3>3 DEF On, Pending, irq
    <2>3. ASSUME TurnPassed
          PROVE  \/ s = "VBlankIN" /\ vblank /\ ~vblank'
                 \/ s \in {"Timer0", "Timer1"}
        <3>1. s \in Blankings
            BY <2>3 DEF TurnPassed, Passes, irq
        <3>2. s \in {"Timer0", "Timer1"} \/ ~vblank'
            BY <2>3 DEF TurnPassed
        <3>3. s = "VBlankIN" => vblank
            BY DEF IInv, VBlankInOnlyInVBlank
        <3> QED
            BY <3>1, <3>2, <3>3 DEF Blankings
    <2> QED
        BY <2>1, <2>2, <2>3, StepKinds, TurnPasses
<1> QED
    BY <1>1, Invariance, PTL DEF Spec, HeldUntilPresented

(* A write that lets a queued interrupt go lets the highest go.            *)
THEOREM HighestLetGo == Spec => HighestGoesFirst
<1>1. IInv /\ [Next]_vars =>
         [InSlice =>
          \A s \in Queueable :
             (s \in Queued(irq) \ Queued(irq') /\ ~Pending(s) /\ Pending(s)')
             => \A t \in Queued(irq') :
                   Level[t] > Level[s] => t \notin irq'.ist \ irq'.ims]_vars
    <2> SUFFICES ASSUME IInv, [Next]_vars, InSlice, NEW s \in Queueable,
                        s \in Queued(irq) \ Queued(irq'),
                        ~Pending(s), Pending(s)',
                        NEW t \in Queued(irq'), Level[t] > Level[s]
                 PROVE  t \notin irq'.ist \ irq'.ims
        OBVIOUS
    <2>1. ~On(irq, s) /\ On(irq', s) /\ s \in Source
        BY DEF Pending, On, irq, Queueable
    <2>2. ~ UNCHANGED scu
        BY <2>1 DEF irq
    <2>3. \E p \in CPU : Access(p)
        <3>1. ~ UNCHANGED vars /\ ~EndSlice
            BY <2>2 DEF vars, EndSlice
        <3>2. /\ ~Deciline /\ ~ScuTurn /\ ~Raster /\ ~CdDone /\ ~SoundRequest
              /\ ~CdInterrupt /\ ~HostReset
            BY DEF InSlice, Runs, Deciline, ScuTurn, Raster, CdDone,
                   SoundRequest, CdInterrupt, HostReset
        <3>3. \A p \in CPU : ~StartSlice(p)
            BY DEF InSlice, Runs, CPU, StartSlice
        <3>4. ~Smpc
            BY DEF InSlice, Runs, Smpc, SmpcCommand, SmpcIdle, SystemManager,
                   StartSlave, StopSlave, NMIREQ, CKCHG
        <3> QED
            BY <3>1, <3>2, <3>3, <3>4 DEF Next, Loop
    <2>4. HighestGone(irq, irq')
        BY <2>3, AccessPasses
    <2> QED
        BY <2>1, <2>4 DEF HighestGone
<1> QED
    BY <1>1, Invariance, PTL DEF Spec, HighestGoesFirst

(* An SH-2 takes the highest request its mask lets through.                *)
THEOREM HighestTaken == Spec => AcceptsHighest
<1>1. IInv /\ [Next]_vars =>
         [\A p \in CPU : StartSlice(p) /\ irq'.iqr[p] # irq.iqr[p] =>
             \E i \in DOMAIN irq.iqr[p] :
                LET r == irq.iqr[p][i] IN
                /\ \A j \in DOMAIN irq.iqr[p] : irq.iqr[p][j].level <= r.level
                /\ r.level > sr[p] \/ r.level >= 15
                /\ Vectors(irq'.iqr[p]) = Vectors(irq.iqr[p]) \ {r.vec}]_vars
    BY StartSlicePasses
<1> QED
    BY <1>1, Invariance, PTL DEF Spec, AcceptsHighest

=============================================================================
