------------------------------- MODULE ScuIrq -------------------------------
(***************************************************************************)
(* The interrupt controller of the SCU (scu.c): which interrupts wait in   *)
(* its queue, what the status register IST shows of them, and what the     *)
(* functions that raise, withdraw, unmask and clear interrupts do to the   *)
(* queue and to the request queues of the two SH-2s.                       *)
(*                                                                         *)
(* A controller state is a record c with the fields                        *)
(*   ist        the sources whose bit is set in IST                        *)
(*   ims        the sources masked by IMS (bit 15 masks the A-bus, here    *)
(*              its one source "ExtInt00")                                 *)
(*   aiack      AIACK: the A-bus may present one interrupt                 *)
(*   interrupts the array interrupts[30]; a removal leaves the slots above *)
(*              the live part as they were, and one function reads them    *)
(*   number     NumberOfInterrupts, the length of the live part            *)
(*   iqr        the request queue of each SH-2                             *)
(*   ssh2       yabsys.IsSSH2Running                                       *)
(***************************************************************************)
EXTENDS Sh2Irq

MaxQueued == 30          \* scuinterrupt_struct interrupts[30]

CPU == {"msh2", "ssh2"}

(* The sources of the SCU that some device of the emulator raises, with    *)
(* the arguments their ScuSend function passes to SendInterrupt.           *)
Level == [VBlankIN  |-> 15, VBlankOUT |-> 14, HBlankIN |-> 13, Timer0 |-> 12,
          Timer1    |-> 11, DSPEnd    |-> 10, SoundRequest |-> 9,
          SystemManager |-> 8, ExtInt00 |-> 7, DMA2End |-> 6, DMA1End |-> 6,
          DMA0End |-> 5, DrawEnd |-> 2]

Vector == [VBlankIN  |-> 64, VBlankOUT |-> 65, HBlankIN |-> 66, Timer0 |-> 67,
           Timer1    |-> 68, DSPEnd    |-> 69, SoundRequest |-> 70,
           SystemManager |-> 71, ExtInt00 |-> 80, DMA2End |-> 73,
           DMA1End |-> 74, DMA0End |-> 75, DrawEnd |-> 77]

StatusBit == [VBlankIN  |-> 0, VBlankOUT |-> 1, HBlankIN |-> 2, Timer0 |-> 3,
              Timer1    |-> 4, DSPEnd    |-> 5, SoundRequest |-> 6,
              SystemManager |-> 7, ExtInt00 |-> 16, DMA2End |-> 9,
              DMA1End |-> 10, DMA0End |-> 11, DrawEnd |-> 13]

Source == {"VBlankIN", "VBlankOUT", "HBlankIN", "Timer0", "Timer1", "DSPEnd",
           "SoundRequest", "SystemManager", "ExtInt00", "DMA2End", "DMA1End",
           "DMA0End", "DrawEnd"}

(* mask & 0x8000: the A-bus is acknowledged, never queued.                 *)
ABus == {"ExtInt00"}
Queueable == Source \ ABus

None == "None"           \* a slot cleared by memset

RequestOf(s) == [vec |-> Vector[s], level |-> Level[s]]

(* The slave hears of the two blanking interrupts under other numbers.     *)
SlaveCopy == [HBlankIN |-> [vec |-> 65, level |-> 1],
              VBlankIN |-> [vec |-> 67, level |-> 2]]

-----------------------------------------------------------------------------
Live(c)   == 0 .. c.number - 1
Queued(c) == {c.interrupts[k] : k \in Live(c)}

(* sh2_SetInterrupt on the master and, for the blankings, on the slave.    *)
Present(c, s) ==
    [c EXCEPT !.iqr["msh2"] = SetInterrupt(@, RequestOf(s)),
              !.iqr["ssh2"] = IF c.ssh2 /\ s \in DOMAIN SlaveCopy
                              THEN SetInterrupt(@, SlaveCopy[s]) ELSE @]

DropLast(c, k) == [c EXCEPT !.number = @ - 1]

(* Take slot k out of the live part.                                       *)
RemoveSlot(c, k) ==
    [c EXCEPT !.interrupts = [i \in DOMAIN @ |->
                                 IF i >= k /\ i < c.number - 1
                                 THEN @[i + 1] ELSE @[i]],
              !.number = @ - 1]

(* ScuQueueInterrupt appends to the array and sorts it by exchanges, slot   *)
(* i being compared with every slot behind it in the turn for i.           *)
Exchange(a, i, j) ==
    IF Level[a[i]] > Level[a[j]] THEN [a EXCEPT ![i] = a[j], ![j] = a[i]] ELSE a

SortSlot(a, i, n) ==
    LET swept[j \in i .. n - 1] == IF j = i THEN a ELSE Exchange(swept[j - 1], i, j)
    IN  swept[n - 1]

ExchangeSort(a, n) ==
    LET turned[i \in 0 .. n - 1] == IF i = 0 THEN a ELSE SortSlot(turned[i - 1], i - 1, n)
    IN  turned[n - 1]

AppendAndSort(c, s) ==
    [c EXCEPT !.interrupts = ExchangeSort([@ EXCEPT ![c.number] = s], c.number + 1),
              !.number = @ + 1]

QueueInterrupt(c, s) ==
    IF s \in Queued(c) THEN c ELSE AppendAndSort(c, s)

(* SendInterrupt.  The A-bus presents one interrupt for every AIACK, or    *)
(* loses it to the mask; the others are presented or wait in the queue.    *)
PresentABus(c, s) == IF c.aiack THEN Present([c EXCEPT !.aiack = FALSE], s)
                     ELSE c

SendABus(c, s) ==
    CASE ~c.aiack -> c
      [] c.aiack /\ s \in c.ims -> [c EXCEPT !.aiack = FALSE]
      [] c.aiack /\ s \notin c.ims -> Present([c EXCEPT !.aiack = FALSE], s)

SendInterrupt(c, s) ==
    CASE s \in ABus -> SendABus(c, s)
      [] s \notin ABus /\ s \notin c.ims ->
             Present([c EXCEPT !.ist = @ \cup {s}], s)
      [] s \notin ABus /\ s \in c.ims ->
             [QueueInterrupt(c, s) EXCEPT !.ist = @ \cup {s}]

(* ScuRemoveInterrupt: a device withdraws its interrupt.                   *)
ClearStatus(c, s) == [c EXCEPT !.ist = @ \ {s}]

RemoveInterrupt(c, s) ==
    LET d == ClearStatus(c, s)
    IN  IF s \in Queued(c)
        THEN RemoveSlot(d, CHOOSE k \in Live(c) : c.interrupts[k] = s)
        ELSE d

(* ScuTestInterruptMask: scanning from the highest level, the first queued *)
(* interrupt that is unmasked and still set in IST goes to the CPUs; one   *)
(* call presents at most one.  The function's A-bus branch needs a queued  *)
(* A-bus interrupt, and SendInterrupt queues none.                         *)
SetInStatus(c) == {k \in Live(c) : c.interrupts[k] \in c.ist}

Presentable(c) ==
    {k \in Live(c) : c.interrupts[k] \in c.ist \ c.ims}

LowestPresentable(c) == Min(Presentable(c))

FirstPresentable(c) == Max(Presentable(c))

TestInterruptMask(c) ==
    IF Presentable(c) = {}
    THEN c
    ELSE LET k == FirstPresentable(c)
             s == c.interrupts[k]
         IN  RemoveSlot(ClearStatus(Present(c, s), s), k)

(* ScuRemoveInterruptByCPU, one turn of its outer loop, for the bit of s.  *)
(* The inner loop looks at slot number i, the number of the bit, in every  *)
(* turn, live or not, instead of at slot ii; a hit is thus a hit at the    *)
(* first turn, and the entry it removes is the one in slot 0.              *)
RemoveBit(c, s, cleared) ==
    IF /\ s \in cleared
       /\ c.number > 0
       /\ c.interrupts[StatusBit[s]] = s
    THEN RemoveSlot(ClearStatus(c, s), 0)
    ELSE c

(* The sixteen turns, in the order of the bits; the bits of no source are  *)
(* never set in IST.                                                       *)
RemoveBlankings(c, cleared) ==
    RemoveBit(RemoveBit(RemoveBit(c, "VBlankIN", cleared),
                        "VBlankOUT", cleared), "HBlankIN", cleared)

RemoveTimers(c, cleared) ==
    RemoveBit(RemoveBit(c, "Timer0", cleared), "Timer1", cleared)

RemoveParts(c, cleared) ==
    RemoveBit(RemoveBit(RemoveBit(c, "DSPEnd", cleared),
                        "SoundRequest", cleared), "SystemManager", cleared)

RemoveDmaEnds(c, cleared) ==
    RemoveBit(RemoveBit(RemoveBit(c, "DMA2End", cleared),
                        "DMA1End", cleared), "DMA0End", cleared)

RemoveInterruptByCPU(c, cleared) ==
    LET a == RemoveTimers(RemoveBlankings(c, cleared), cleared)
        b == RemoveDmaEnds(RemoveParts(a, cleared), cleared)
    IN  RemoveBit(b, "DrawEnd", cleared)

-----------------------------------------------------------------------------
(* The registers of the controller the program writes (ScuWriteLong).      *)
WriteIMS(c, masked) == TestInterruptMask([c EXCEPT !.ims = masked])

WriteIST(c, kept) ==
    LET after == c.ist \cap kept
    IN  TestInterruptMask(
            [RemoveInterruptByCPU(c, c.ist \ after) EXCEPT !.ist = after])

WriteAIACK(c, on) == TestInterruptMask([c EXCEPT !.aiack = on])

KeepQueue(c) == [c EXCEPT !.ims = Source, !.aiack = FALSE]

(* The part of ScuReset that concerns the controller; IST keeps its value. *)
ResetController(c) ==
    [c EXCEPT !.ims = Source,
              !.aiack = FALSE,
              !.interrupts = [k \in DOMAIN @ |-> None],
              !.number = 0]

(* ScuInit and the reset that follows it.                                  *)
InitController ==
    [ist |-> {}, ims |-> Source, aiack |-> FALSE,
     interrupts |-> [k \in 0 .. MaxQueued - 1 |-> None], number |-> 0,
     iqr |-> [p \in CPU |-> << >>], ssh2 |-> FALSE]

-----------------------------------------------------------------------------
Controller ==
    [ist : SUBSET Source, ims : SUBSET Source, aiack : BOOLEAN,
     interrupts : [0 .. MaxQueued - 1 -> Source \cup {None}],
     number : 0 .. MaxQueued,
     iqr : [CPU -> Seq(Request)], ssh2 : BOOLEAN]

(* Entries in ascending order of level, each source at most once, the      *)
(* A-bus never.                                                            *)
ScuQueueOk(c) ==
    /\ \A k \in Live(c) : c.interrupts[k] \in Queueable
    /\ \A k, l \in Live(c) :
          k < l => Level[c.interrupts[k]] <= Level[c.interrupts[l]]
    /\ \A k, l \in Live(c) : c.interrupts[k] = c.interrupts[l] => k = l

IrqOk(c) ==
    /\ c \in Controller
    /\ c.ist \subseteq Queueable
    /\ ScuQueueOk(c)
    /\ \A p \in CPU : QueueOk(c.iqr[p])

=============================================================================
