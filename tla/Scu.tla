-------------------------------- MODULE Scu --------------------------------
(***************************************************************************)
(* The SCU as its neighbours see it (scu.c): the functions by which the    *)
(* video, sound, SMPC and CD parts raise interrupts, the two timers, and   *)
(* the registers of the timers.  They act on a state s with the fields     *)
(* irq (ScuIrq), dma and regs (ScuDma) and timer:                          *)
(*   T0C, T1S       the compare register of timer 0 (T1S only through      *)
(*                  preset, its other copy)                                *)
(*   enable, line   T1MD bit 0 (timers on) and bit 7 (timer 1 only on the  *)
(*                  line timer 0 names)                                    *)
(*   timer0, timer0_set, timer1_set, counter, preset                       *)
(***************************************************************************)
EXTENDS ScuDma

CONSTANT TimerTick       \* timing >> 1, what one ScuExec takes off counter

ASSUME TimerTickAssumption == TimerTick \in Nat \ {0}

EveryLine == 500         \* ScuExec: a T0C above it stands for every line

Raise(s, src)    == [s EXCEPT !.irq = SendInterrupt(@, src)]
Withdraw(s, src) == [s EXCEPT !.irq = RemoveInterrupt(@, src)]

(* The start factors DnMD & 7 of the interrupts that may start a DMA.      *)
FactorOf == [VBlankIN |-> 0, VBlankOUT |-> 1, HBlankIN |-> 2, Timer0 |-> 3,
             Timer1 |-> 4, SoundRequest |-> 5, DrawEnd |-> 6]

RaiseAndStart(s, src) == CheckInterruptDMA(Raise(s, src), FactorOf[src])

ScuSendTimer0(s)       == RaiseAndStart(s, "Timer0")
ScuSendTimer1(s)       == RaiseAndStart(s, "Timer1")
ScuSendSoundRequest(s) == RaiseAndStart(s, "SoundRequest")
ScuSendDrawEnd(s)      == RaiseAndStart(s, "DrawEnd")

ScuSendVBlankIN(s) == RaiseAndStart(Withdraw(s, "Timer0"), "VBlankIN")

(* The line timer 0 has reached is, or is not, the one T0C names.          *)
Timer0Kept(s) == [s EXCEPT !.timer.timer0_set = FALSE]

Timer0Missed(s) == Withdraw([s EXCEPT !.timer.timer0_set = FALSE], "Timer0")

Timer1Reloaded(s) ==
    Withdraw([s EXCEPT !.timer = [@ EXCEPT !.timer1_set = FALSE,
                                           !.counter = s.timer.preset]],
             "Timer1")

ScuSendVBlankOUT(s) ==
    LET a == Withdraw(Withdraw(Withdraw(Raise(s, "VBlankOUT"), "VBlankIN"),
                               "Timer0"), "Timer1")
        b == [a EXCEPT !.timer.timer0 = 0]
        c == IF ~b.timer.enable THEN b
             ELSE IF b.timer.T0C = 0
             THEN ScuSendTimer0([b EXCEPT !.timer.timer0_set = TRUE])
             ELSE Timer0Missed(b)
    IN  CheckInterruptDMA(c, FactorOf["VBlankOUT"])

ScuSendHBlankIN(s) ==
    LET a == [Raise(s, "HBlankIN") EXCEPT !.timer.timer0 = @ + 1]
        b == IF a.timer.timer0 = a.timer.T0C
             THEN [ScuSendTimer0(a) EXCEPT !.timer.timer0_set = TRUE]
             ELSE Timer0Missed(a)
        c == IF b.timer.timer1_set
             THEN Timer1Reloaded(b) ELSE b
    IN  CheckInterruptDMA(IF a.timer.enable THEN c ELSE a,
                          FactorOf["HBlankIN"])

(* ScuTimer1Exec                                                           *)
Timer1Exec(s) ==
    LET left == s.timer.counter - TimerTick
        t    == [s EXCEPT !.timer.counter = left]
        u    == [t EXCEPT !.timer.timer1_set = TRUE]
    IN  CASE s.timer.counter <= 0 -> s
          [] s.timer.counter > 0 /\ left > 0 -> t
          [] s.timer.counter > 0 /\ left <= 0 ->
                IF ~u.timer.line \/ u.timer.timer0_set
                THEN ScuSendTimer1(u) ELSE u

(* ScuExec: timer 1, a burst of every DMA channel, and the DSP, which may  *)
(* come to an END instruction that asks for an interrupt.                  *)
ScuExec(s, lineCount, dspEnd) ==
    LET runs == /\ s.timer.enable
                /\ \/ ~s.timer.line
                   \/ lineCount = s.timer.T0C
                   \/ s.timer.T0C > EveryLine
        t == DmaProc(IF runs THEN Timer1Exec(s) ELSE s, FALSE)
    IN  IF dspEnd THEN Raise(t, "DSPEnd") ELSE t

(* ScuWriteLong, the registers of the timers.                              *)
WriteT0C(s, v) == [s EXCEPT !.timer.T0C = v]
WriteT1S(s, v) == [s EXCEPT !.timer = [@ EXCEPT !.timer1_set = TRUE,
                                                !.preset = v]]
WriteT1MD(s, enable, line) ==
    [s EXCEPT !.timer = [@ EXCEPT !.enable = enable, !.line = line]]

(* ScuReset.                                                               *)
ScuReset(s) ==
    [WriteT1MD(ResetDma([s EXCEPT !.irq = ResetController(@)]), FALSE, FALSE)
        EXCEPT !.timer.timer0 = 0]

InitTimer == [T0C |-> 0, enable |-> FALSE, line |-> FALSE, timer0 |-> 0,
              timer0_set |-> FALSE, timer1_set |-> FALSE, counter |-> 0,
              preset |-> 0]

InitScu == [irq |-> InitController, dma |-> InitDma, regs |-> InitRegs,
            timer |-> InitTimer]

-----------------------------------------------------------------------------
Timers == [T0C : Nat, enable : BOOLEAN, line : BOOLEAN, timer0 : Nat,
           timer0_set : BOOLEAN, timer1_set : BOOLEAN, counter : Int,
           preset : Nat]

(* A timer 1 interrupt in the controller's queue is of a count that has    *)
(* run out and has not been reloaded.                                      *)
TimersOk(s) ==
    "Timer1" \in Queued(s.irq) => s.timer.timer1_set /\ s.timer.counter <= 0

(* A timer 0 interrupt in the queue after a step from s to t is that of    *)
(* the line timer 0 stands on, or one from before the step: the step has   *)
(* counted no line, or it finds the timers off and then counts the line    *)
(* without a look at the interrupt.                                        *)
Timer0Current(s, t) ==
    "Timer0" \in Queued(t.irq) =>
        \/ s.timer.enable /\ t.timer.timer0 = t.timer.T0C
        \/ /\ "Timer0" \in Queued(s.irq)
           /\ ~s.timer.enable \/ t.timer.timer0 = s.timer.timer0

ScuState == [irq : Controller, dma : [Channel -> Transfer],
             regs : [Channel -> Registers], timer : Timers]

=============================================================================
