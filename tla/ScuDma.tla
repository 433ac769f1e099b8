------------------------------- MODULE ScuDma -------------------------------
(***************************************************************************)
(* The three DMA channels of the SCU (scu.c).  A channel is loaded from    *)
(* its registers by a write that starts it or by the interrupt it waits    *)
(* for, moves a burst on every call of ScuDmaProc and raises DMAnEnd when  *)
(* its count is used up.  The operators act on a state s with the fields   *)
(*   irq    the interrupt controller (module ScuIrq)                       *)
(*   dma    the running transfers: left is TransferNumber; rest the counts *)
(*          of an indirect table from the entry being moved on, << >> once *)
(*          the end of the table has been reported; direct whether bit 24  *)
(*          of DnMD is clear, cd whether the source is the CD block's port *)
(*   regs   the registers DnC (with DnR: cd, and the table at DnW: list),  *)
(*          DnEN (bit 8, enable) and DnMD (factor, and bit 24: indirect)   *)
(*                                                                         *)
(* Counts are in half words: the last word of an odd count takes           *)
(* TransferNumber below zero, as it does in the code when the count is no  *)
(* multiple of the word.  The entries of a table are taken as they come,   *)
(* those of 0 too.                                                         *)
(***************************************************************************)
EXTENDS ScuIrq

CONSTANTS
    MaxCount0,      \* what a count of 0 stands for on channel 0 (0x100000)
    MaxCount12,     \* the same on channels 1 and 2 (0x1000, also the modulus)
    Burst           \* the words a call has time for (128, or timing << 4)

ASSUME MaxCountAssumption ==
    /\ MaxCount0 \in Nat \ {0}
    /\ MaxCount12 \in Nat \ {0}
    /\ Burst \in Nat \ {0}

Channel == 0 .. 2
Word    == 2

StartByProgram == 7      \* DnMD & 7: a write to DnEN starts the channel

EndOf(ch) == CASE ch = 0 -> "DMA0End" [] ch = 1 -> "DMA1End"
               [] ch = 2 -> "DMA2End"

(* ScuSendDMAEnd                                                           *)
SendDMAEnd(s, ch) == [s EXCEPT !.irq = SendInterrupt(@, EndOf(ch))]

(* The TransferNumber ScuSetAddValue leaves for a direct transfer.         *)
DirectCount(ch, count) ==
    LET n == IF ch > 0 THEN count % MaxCount12 ELSE count
    IN  IF n # 0 THEN n ELSE IF ch > 0 THEN MaxCount12 ELSE MaxCount0

(* The assignments that load a channel, and ScuSetAddValue.                *)
Load(s, ch) ==
    LET r == s.regs[ch]
    IN  [s EXCEPT !.dma[ch] =
           IF r.indirect
           THEN [left |-> Head(r.list), rest |-> r.list,
                 direct |-> FALSE, cd |-> FALSE]
           ELSE [left |-> DirectCount(ch, r.count), rest |-> << >>,
                 direct |-> TRUE, cd |-> r.cd]]

(* A transfer is through, with left in TransferNumber.                     *)
FinishSilently(s, ch, left) ==
    [s EXCEPT !.dma[ch] = [@ EXCEPT !.left = left, !.rest = << >>]]

FinishPast(s, ch, left) ==
    SendDMAEnd([s EXCEPT !.dma[ch] = [@ EXCEPT !.left = left - 1,
                                               !.rest = << >>]], ch)

Finish(s, ch, left) ==
    SendDMAEnd([s EXCEPT !.dma[ch] = [@ EXCEPT !.left = left,
                                               !.rest = << >>]], ch)

(* SucDmaExec on a direct transfer.  all: the time is 0x7FFFFFFF, so that  *)
(* the transfer runs to its end; one from the CD block always does.        *)
MoveCount(s, ch, all) ==
    LET d == s.dma[ch]
    IN  IF all \/ d.cd \/ d.left <= Word * Burst
        THEN Finish(s, ch, -(d.left % Word))
        ELSE [s EXCEPT !.dma[ch].left = @ - Word * Burst]

(* The words SucDmaExec moves for a count: one for a count of 0, too.      *)
WordsOf(n) == IF n = 0 THEN 1 ELSE (n + Word - 1) \div Word

(* The words of the first i entries of a table.                            *)
WordsUpTo(t) ==
    LET f[i \in 0 .. Len(t)] ==
            IF i = 0 THEN 0 ELSE f[i - 1] + WordsOf(t[i])
    IN  f

(* The loop of SucDmaCheck over an indirect table: it goes from entry to   *)
(* entry as long as it has time, and loads the next one also when it has   *)
(* none left for it.                                                       *)
MoveTable(s, ch, all) ==
    LET d     == s.dma[ch]
        todo  == [d.rest EXCEPT ![1] = d.left]
        words == WordsUpTo(todo)
        moved == CHOOSE i \in 0 .. Len(todo) - 1 :
                    words[i] <= Burst /\ Burst < words[i + 1]
    IN  IF all \/ words[Len(todo)] <= Burst THEN Finish(s, ch, 0)
        ELSE [s EXCEPT !.dma[ch] =
                [d EXCEPT !.left = todo[moved + 1]
                                      - Word * (Burst - words[moved]),
                          !.rest = SubSeq(d.rest, moved + 1, Len(d.rest))]]

(* SucDmaCheck on one channel: nothing once TransferNumber is 0 or less,   *)
(* which is where an entry of 0 leaves it that is loaded last.             *)
DmaCheck(s, ch, all) ==
    CASE s.dma[ch].left <= 0 -> s
      [] s.dma[ch].left > 0 /\ s.dma[ch].direct  -> MoveCount(s, ch, all)
      [] s.dma[ch].left > 0 /\ ~s.dma[ch].direct -> MoveTable(s, ch, all)

(* ScuDmaProc: the channels in turn, all of them whoever asked.            *)
DmaProcTwo(s, all) == DmaCheck(DmaCheck(s, 0, all), 2, all)

DmaProc(s, all) ==
    DmaCheck(DmaCheck(DmaCheck(s, 0, all), 1, all), 2, all)

(* Start a channel: what it still has to move is moved first.              *)
Start(s, ch, busy) ==
    DmaProc(Load(IF busy THEN DmaProc(s, TRUE) ELSE s, ch), FALSE)

(* ScuChekIntrruptDMA(id): one channel, then the three of them.            *)
CheckOne(s, ch, id) ==
    IF s.regs[ch].enable /\ s.regs[ch].factor = id
    THEN [Start(s, ch, s.dma[ch].left > 0) EXCEPT !.regs[ch].enable = FALSE]
    ELSE s

CheckInterruptDMA(s, id) ==
    CheckOne(CheckOne(CheckOne(s, 0, id), 1, id), 2, id)

(* Writes to DnEN (go: bit 0, enable: bit 8) and to the other registers of *)
(* a channel, which only the next load reads.                              *)
WriteDnEN(s, ch, go, enable) ==
    LET t == IF go /\ s.regs[ch].factor = StartByProgram
             THEN Start(s, ch, s.dma[ch].left # 0) ELSE s
    IN  [t EXCEPT !.regs[ch].enable = enable]

WriteDnMD(s, ch, factor, indirect) ==
    [s EXCEPT !.regs[ch] = [@ EXCEPT !.factor = factor,
                                     !.indirect = indirect]]

WriteTransfer(s, ch, setup) ==
    [s EXCEPT !.regs[ch] = [@ EXCEPT !.count = setup.count, !.cd = setup.cd,
                                     !.list = setup.list]]

-----------------------------------------------------------------------------
Idle == [left |-> 0, rest |-> << >>, direct |-> TRUE, cd |-> FALSE]

(* ScuReset; the count and address registers keep their values.            *)
ResetDma(s) ==
    [s EXCEPT !.dma  = [ch \in Channel |-> Idle],
              !.regs = [ch \in Channel |->
                           [@[ch] EXCEPT !.enable = FALSE,
                                         !.factor = StartByProgram,
                                         !.indirect = FALSE]]]

InitDma  == [ch \in Channel |-> Idle]
InitRegs == [ch \in Channel |->
                [count |-> 0, cd |-> FALSE, list |-> <<1>>, enable |-> FALSE,
                 factor |-> StartByProgram, indirect |-> FALSE]]

(* A table in memory: counts, the last one with the end flag.  (A count    *)
(* from 2^31 on, negative in TransferNumber, stops the channel as 0 does.) *)
Table == Seq(Nat) \ {<< >>}

Transfer == [left : Int, rest : Seq(Nat), direct : BOOLEAN, cd : BOOLEAN]

Registers == [count : Nat, cd : BOOLEAN, list : Table, enable : BOOLEAN,
              factor : 0 .. 7, indirect : BOOLEAN]

(* A channel stands still at the end of its transfer, or before an entry   *)
(* of its table.                                                           *)
Ended(d) == d.left <= 0 /\ d.rest = << >>
Stuck(d) == d.left <= 0 /\ d.rest # << >>

(* A direct transfer stops less than a word below zero, an indirect one at *)
(* zero; one that stands still has come to its end or to an entry of 0.    *)
TransferOk(d) ==
    /\ d \in Transfer
    /\ d.left > -Word
    /\ d.direct => d.rest = << >>
    /\ ~d.direct => /\ d.left >= 0
                    /\ d.left > 0 => d.rest # << >>
    /\ Stuck(d) => Head(d.rest) = 0

=============================================================================
