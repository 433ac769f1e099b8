--------------------------------- MODULE Sound ---------------------------------
(***************************************************************************)
(* The sound chip's interrupts and timers (scsp2.c) between the main       *)
(* program, the sound program and ScspDoExec, which runs the sound         *)
(* processor in pieces cut where an enabled timer fires.                   *)
(*                                                                         *)
(* Either program writes the registers: the main one between two calls of  *)
(* ScspExec, the sound one inside a piece.  A piece's length and samples   *)
(* are fixed before the sound processor runs and counted after it.  The    *)
(* tone generators, the DSP, MIDI and the sound buffer have no part in     *)
(* this and are left out; of the processor only what musashi_SetIRQ and    *)
(* the status register decide is here, M68k has the rest.                  *)
(***************************************************************************)
EXTENDS Integers

CONSTANTS Sources,      \* the interrupt sources in use, numbered as in the registers
          Sample,       \* 256 in the code: the cycles of a sample
          TopSteps,     \* 0xFF in the code: a timer fires at TopSteps samples
          Scales,       \* the prescalers in use: 2^TACTL, 2^TBCTL, 2^TCCTL
          Slices,       \* cycles that a call of ScspDoExec may ask for
          Words,        \* values in use of the enable and clear registers, as sets
          LevelSets,    \* values in use of SCILV0 to SCILV2, as sets of sources
          Masks,        \* values in use of the processor's interrupt mask
          Writes        \* bound on the register writes and resets

Manual == 5
DmaEnd == 4
TimerSources == {6, 7, 8}
High == {8, 9, 10}      \* 0x700, the upper byte of the enable registers
Cpus == {"main", "sound"}
Timers == Sources \cap TimerSources

ASSUME SoundAssumption ==
    /\ Sources \subseteq 0 .. 10 /\ {DmaEnd, Manual} \subseteq Sources
    /\ Sample \in Nat \ {0} /\ TopSteps \in Nat \ {0}
    \* they divide a sample, so that the shifts by TACTL and 8 - TACTL lose nothing
    /\ Scales \subseteq 1 .. Sample /\ 1 \in Scales
    /\ \A scale \in Scales : (Sample \div scale) * scale = Sample
    \* no timer passes its top twice in a slice (the comment at scsp2.c:1511)
    /\ Slices \subseteq 1 .. TopSteps * Sample - 1
    /\ Words \subseteq SUBSET Sources
    /\ LevelSets \subseteq SUBSET (0 .. 7)
    /\ Masks \subseteq 0 .. 7
    /\ Writes \in Nat

VARIABLES enabled,      \* SCIEB and MCIEB
          pending,      \* SCIPD and MCIPD
          levels,       \* SCILV0, SCILV1, SCILV2
          reported,     \* pending sources of the main side the SCU was told of
          came,         \* history: sources pending because their event happened
          cpu,          \* the sound processor: irq, mask (0 until it is first started), stopped
          running,      \* m68k_running
          timer,        \* count (tima, timb, timc) and scale of every timer
          sampleTimer,  \* scsp.sample_timer
          cycles,       \* cycles_left of ScspDoExec, 0 outside
          piece,        \* this_cycles and this_samples while the processor runs;
                        \* history: the timers it was cut for, not written since
          budget        \* writes left
regs == <<enabled, pending, reported, came, cpu>>
vars == <<regs, levels, running, timer, sampleTimer, cycles, piece, budget>>

TimerTop == TopSteps * Sample                                    \* 0xFF00
None == [cycles |-> 0, samples |-> 0, on |-> FALSE, exact |-> {}]

-----------------------------------------------------------------------------
(* The request to the sound processor (musashi_SetIRQ, m68k_set_irq).      *)

Accept(c, l) == [irq |-> 0, mask |-> l, stopped |-> FALSE]
\* 7 interrupts by its edge, any other level if it is above the mask
SetIrq(c, l) ==
    IF (c.irq # 7 /\ l = 7) \/ l > c.mask THEN Accept(c, l) ELSE [c EXCEPT !.irq = l]
MusashiSetIrq(c, l) == IF l = 0 THEN c ELSE SetIrq(c, l)

\* sources above 7 share the level of 7
Shared(i) == IF i > 7 THEN 7 ELSE i
LevelOf(i) ==
    LET bit(p, weight) == IF Shared(i) \in levels[p] THEN weight ELSE 0
    IN  bit(0, 1) + bit(1, 2) + bit(2, 4)

-----------------------------------------------------------------------------
(* Raising and clearing.  A record r of the registers stands for the       *)
(* variables regs, so that one write can raise several sources.            *)

Now == [enabled |-> enabled, pending |-> pending, reported |-> reported,
        came |-> came, cpu |-> cpu]
Becomes(next) ==
    \E r \in {next} : /\ enabled' = r.enabled /\ pending' = r.pending
                       /\ reported' = r.reported /\ came' = r.came /\ cpu' = r.cpu

\* ScspRaiseInterrupt for one of the two sides
RaiseInterrupt(r, i, t) ==
    LET p == [r EXCEPT !.pending[t] = @ \cup {i}] IN
    IF i \notin r.enabled[t] THEN p
    ELSE IF t = "main" THEN [p EXCEPT !.reported = @ \cup {i}]
    ELSE [p EXCEPT !.cpu = MusashiSetIrq(@, LevelOf(i))]

\* the same by the event that the source stands for
Happens(r, i, t) == [RaiseInterrupt(r, i, t) EXCEPT !.came[t] = @ \cup {i}]
HappensForBoth(r, i) == Happens(Happens(r, i, "main"), i, "sound")

\* ScspCheckInterrupts: whether anything is pending, lowest source first
CheckOne(r, i, which, t) ==
    IF i \in which /\ i \in r.enabled[t] /\ r.pending[t] # {}
    THEN RaiseInterrupt(r, i, t) ELSE r
CheckThree(r, i, which, t) ==
    CheckOne(CheckOne(CheckOne(r, i, which, t), i + 1, which, t), i + 2, which, t)
CheckFour(r, i, which, t) == CheckOne(CheckThree(r, i, which, t), i + 3, which, t)
CheckInterrupts(r, which, t) ==
    CheckThree(CheckFour(CheckFour(r, 0, which, t), 4, which, t), 8, which, t)

ClearInterrupts(r, which, t) ==
    [r EXCEPT !.pending[t] = @ \ which, !.came[t] = @ \ which,
              !.reported = IF t = "main" THEN @ \ which ELSE @]

-----------------------------------------------------------------------------
(* Register writes, by either program.                                     *)

InPiece == piece.on /\ piece.cycles > 0 /\ running /\ ~cpu.stopped
MayWrite == budget > 0 /\ (cycles = 0 \/ InPiece)
Written == budget' = budget - 1
Same == UNCHANGED <<running, sampleTimer, cycles, piece>>

\* words of SCIEB and MCIEB look at every source, bytes at the upper ones
EnableWord(t, which) ==
    CheckInterrupts([Now EXCEPT !.enabled[t] = which], Sources, t)
\* Mutant: a byte written raises nothing.
EnableByteUnchecked(t, which) == [Now EXCEPT !.enabled[t] = which]
EnableByte(t, which) ==
    CheckInterrupts([Now EXCEPT !.enabled[t] = which], High, t)

WriteEnable ==
    /\ MayWrite /\ Written /\ Same /\ UNCHANGED <<levels, timer>>
    /\ \E t \in Cpus, which \in Words :
         \/ Becomes(EnableWord(t, which))
         \* one of the two bytes keeps its bits
         \/ /\ which \cap High = enabled[t] \cap High \/ which \ High = enabled[t] \ High
            /\ Becomes(EnableByte(t, which))

WritePending ==                                         \* bit 5 of SCIPD, MCIPD
    /\ MayWrite /\ Written /\ Same /\ UNCHANGED <<levels, timer>>
    /\ \E t \in Cpus : Becomes(Happens(Now, Manual, t))

WriteClear ==                                           \* SCIRE, MCIRE
    /\ MayWrite /\ Written /\ Same /\ UNCHANGED <<levels, timer>>
    /\ \E t \in Cpus, which \in Words : Becomes(ClearInterrupts(Now, which, t))

WriteLevel ==
    /\ MayWrite /\ Written /\ Same /\ UNCHANGED <<regs, timer>>
    /\ \E p \in 0 .. 2, which \in LevelSets : levels' = [levels EXCEPT ![p] = which]

WriteTimer ==
    /\ MayWrite /\ Written /\ UNCHANGED <<regs, levels, running, sampleTimer, cycles>>
    /\ \E i \in Timers, steps \in 0 .. TopSteps, scale \in Scales :
         /\ timer' = [timer EXCEPT ![i] = [count |-> steps * Sample, scale |-> scale]]
         /\ piece' = [piece EXCEPT !.exact = @ \ {i}]

\* ScspDoDMA, done at once; what it copies is not followed
WriteDma ==
    /\ MayWrite /\ Written /\ Same /\ UNCHANGED <<levels, timer>>
    /\ Becomes(HappensForBoth(Now, DmaEnd))

\* the sound program sets its status register, and may stop by that
SetStatus ==
    /\ InPiece /\ Same /\ UNCHANGED <<levels, timer, budget>>
    /\ \E m \in Masks, stop \in BOOLEAN :
         LET c == [cpu EXCEPT !.mask = m, !.stopped = stop]
         IN  Becomes([Now EXCEPT !.cpu = IF c.irq > m THEN Accept(c, c.irq) ELSE c])

-----------------------------------------------------------------------------
(* The main program starts and stops the processor; the reset of the chip. *)

M68KStart ==
    /\ cycles = 0
    /\ running' = TRUE /\ cpu' = [cpu EXCEPT !.mask = 7, !.stopped = FALSE]
    /\ UNCHANGED <<enabled, pending, reported, came, levels, timer, sampleTimer, cycles, piece, budget>>
M68KStop ==
    /\ cycles = 0 /\ running /\ running' = FALSE
    /\ UNCHANGED <<regs, levels, timer, sampleTimer, cycles, piece, budget>>

Nothing == [t \in Cpus |-> {}]
ResetRegisters ==
    /\ enabled' = Nothing /\ pending' = Nothing /\ reported' = {} /\ came' = Nothing
    /\ levels' = [p \in 0 .. 2 |-> {}]
    /\ timer' = [i \in Timers |-> [count |-> TimerTop, scale |-> 1]]
    /\ sampleTimer' = 0 /\ running' = FALSE
ScspReset ==
    /\ cycles = 0 /\ budget > 0 /\ Written
    /\ ResetRegisters /\ UNCHANGED <<cpu, cycles, piece>>

-----------------------------------------------------------------------------
(* ScspDoExec: one iteration is Cut, what the program does, and Update.    *)

CyclesLeft(i) == (TimerTop - timer[i].count) * timer[i].scale
Least(S) == CHOOSE n \in S : \A m \in S : n <= m
\* Mutant: only timer A cuts.
PieceLengthByA == Least({cycles} \cup {CyclesLeft(i) : i \in {6} \cap enabled["sound"]})
PieceLength ==
    Least({cycles} \cup {CyclesLeft(i) : i \in Timers \cap enabled["sound"]})

DoExec ==
    /\ cycles = 0 /\ cycles' \in Slices
    /\ UNCHANGED <<regs, levels, running, timer, sampleTimer, piece, budget>>

CutOf(n) ==
    /\ sampleTimer' = (sampleTimer + n) % Sample
    /\ piece' = [cycles |-> n, samples |-> (sampleTimer + n) \div Sample, on |-> TRUE,
                 exact |-> Timers \cap enabled["sound"]]
Cut ==
    /\ cycles > 0 /\ ~piece.on /\ CutOf(PieceLength)
    /\ UNCHANGED <<regs, levels, running, timer, cycles, budget>>

\* what a sample adds to a timer's count
Step(t) == Sample \div t.scale
Advanced(t) == t.count + piece.samples * Step(t)
\* Mutant: the top itself does not fire.
FiresBeyond(t) == Advanced(t) > TimerTop
Fires(t) == Advanced(t) >= TimerTop
\* Mutant: no wrap.
UpdateTimerOnce(t) == [t EXCEPT !.count = Advanced(t)]
UpdateTimer(t) == [t EXCEPT !.count = Advanced(t) - (IF Fires(t) THEN TimerTop ELSE 0)]
\* timers A, B and C in this order
UpdateTimers(r) ==
    LET update(q, i) == IF i \in Timers /\ Fires(timer[i]) THEN HappensForBoth(q, i) ELSE q
    IN  update(update(update(r, 6), 7), 8)
Update ==
    /\ piece.on
    /\ Becomes(UpdateTimers(Now))
    /\ timer' = [i \in Timers |-> UpdateTimer(timer[i])]
    /\ cycles' = cycles - piece.cycles /\ piece' = None
    /\ UNCHANGED <<levels, running, sampleTimer, budget>>

-----------------------------------------------------------------------------
Init ==
    /\ enabled = Nothing /\ pending = Nothing /\ reported = {} /\ came = Nothing
    /\ cpu = [irq |-> 0, mask |-> 0, stopped |-> FALSE] /\ running = FALSE
    /\ levels = [p \in 0 .. 2 |-> {}]
    /\ timer = [i \in Timers |-> [count |-> TimerTop, scale |-> 1]]
    /\ sampleTimer = 0 /\ cycles = 0 /\ piece = None /\ budget = Writes

Write == WriteEnable \/ WritePending \/ WriteClear \/ WriteLevel \/ WriteTimer \/ WriteDma
Next ==
    \/ Write \/ SetStatus \/ M68KStart \/ M68KStop \/ ScspReset
    \/ DoExec \/ Cut \/ Update
Spec == Init /\ [][Next]_vars
\* ScspDoExec is a loop of the emulator: once called it goes on
FairSpec == Spec /\ WF_vars(Cut) /\ WF_vars(Update)

-----------------------------------------------------------------------------
(* Properties.                                                             *)

\* The counters keep their widths: a timer never stays above its top, where
\* the cycles left to it would be counted from a negative number.
TypeOk ==
    /\ enabled \in [Cpus -> SUBSET Sources] /\ pending \in [Cpus -> SUBSET Sources]
    /\ reported \subseteq Sources /\ came \in [Cpus -> SUBSET Sources]
    /\ cpu \in [irq : 0 .. 7, mask : 0 .. 7, stopped : BOOLEAN] /\ running \in BOOLEAN
    /\ levels \in [0 .. 2 -> SUBSET (0 .. 7)]
    /\ timer \in [Timers -> [count : 0 .. TimerTop, scale : Scales]]
    /\ sampleTimer \in 0 .. Sample - 1 /\ cycles \in Nat
    /\ piece.cycles \in 0 .. cycles /\ piece.samples \in Nat

\* The SCU hears of each of the upper sources that is pending and enabled for
\* the main processor, whether the event or the enabling came first and however
\* the register is written.
UpperSourcesReported == enabled["main"] \cap pending["main"] \cap High \subseteq reported

\* ScspDoExec cuts the slice where a timer fires that is enabled for the sound
\* processor, so that no samples of its next period have passed; a timer or an
\* enable bit written while the piece runs does not carry another past its top.
CutAtTimers ==
    \A i \in piece.exact : Advanced(timer[i]) <= TimerTop

\* A call of ScspDoExec ends: a timer written with its last value makes a piece of
\* no cycles, but only once.
SliceEnds == cycles > 0 ~> cycles = 0

\* What the comment of ScspCheckInterrupts says (scsp2.c:2943): enabling raises
\* what is both enabled and pending, hence nothing that did not happen.
PendingHappened == \A t \in Cpus : pending[t] \subseteq came[t]
=============================================================================
