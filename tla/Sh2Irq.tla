------------------------------- MODULE Sh2Irq -------------------------------
(***************************************************************************)
(* The interrupt request queue of one SH-2 (sh2/sh2.c): the array iqr[] of *)
(* pending requests, kept in ascending order of level, and the two         *)
(* functions that touch it.  sh2_SetInterrupt inserts a request,           *)
(* sh2_HandleInterrupt accepts the last one at the start of a slice when   *)
(* the interrupt mask SR.I lets it through.                                *)
(***************************************************************************)
EXTENDS Integers, Sequences, FiniteSetsExt

NMIVector == 11         \* 0xB
NMILevel  == 16         \* 0x10, above every mask

(* SH2_INTERRUPT(vec, level): the vector has 7 bits, levels go up to 16.   *)
Request == [vec : 0 .. 127, level : 1 .. NMILevel]

NMI == [vec |-> NMIVector, level |-> NMILevel]

Vectors(q) == {q[i].vec : i \in DOMAIN q}

(* Operators that are used nowhere else, such as AtTheEnd here, are errors *)
(* the code could contain, to try the properties against.                  *)

(* ir_pos: the insertion point is behind the last request of a lower       *)
(* level, so a request goes in FRONT of those of its own level.            *)
AtTheEnd(q, level) == Len(q)

InsertionPoint(q, level) ==
    Max({0} \cup {i \in DOMAIN q : q[i].level < level})

InsertRequest(q, r) ==
    LET p == InsertionPoint(q, r.level)
    IN  [i \in 1 .. Len(q) + 1 |->
            IF i <= p THEN q[i] ELSE IF i = p + 1 THEN r ELSE q[i - 1]]

(* sh2_SetInterrupt(sh, vec, level): a vector that is already pending is   *)
(* dropped, whatever its level.                                            *)
SetInterrupt(q, r) == IF r.vec \in Vectors(q) THEN q ELSE InsertRequest(q, r)

Top(q) == q[Len(q)]

StrictlyAbove(q, I) == q # << >> /\ Top(q).level > I
AboveOrEqual(q, I)  == q # << >> /\ Top(q).level >= I

(* The test of sh2_HandleInterrupt: above the mask, or level 15 and more.  *)
Acceptable(q, I) == q # << >> /\ (Top(q).level > I \/ Top(q).level >= 15)

(* What acceptance does to the queue and to SR.I (a 4-bit field, so that   *)
(* the level of the NMI leaves it 0).                                      *)
Accepted(q)     == SubSeq(q, 1, Len(q) - 1)
MaskAfter(r)    == r.level % 16

-----------------------------------------------------------------------------
(* Ascending levels: the order sh2_HandleInterrupt relies on.              *)
SortedQueue(q) ==
    \A i, j \in DOMAIN q : i < j => q[i].level <= q[j].level

(* No vector is pending twice.                                             *)
DistinctVectors(q) ==
    \A i, j \in DOMAIN q : q[i].vec = q[j].vec => i = j

QueueOk(q) ==
    /\ q \in Seq(Request)
    /\ SortedQueue(q)
    /\ DistinctVectors(q)

=============================================================================
