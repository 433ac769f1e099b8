---------------------------- MODULE SectorStore ----------------------------
(***************************************************************************)
(* What the sector buffer of the CD block promises a program that follows  *)
(* its protocol: every partition is a sequence of sectors to which the     *)
(* drive and the program append, from which commands delete and move runs, *)
(* and a get-then-delete claims a run that nothing else may take and that  *)
(* in the end leaves as a whole, or stays as a whole.                      *)
(***************************************************************************)
EXTENDS Integers, Sequences, Functions

CONSTANTS
    Sector,
    Selector,
    Capacity  \* how many sectors there is room for

VARIABLES
    stored, \* the sectors of every partition
    claim   \* the sectors an open get-then-delete will take

storeVars == <<stored, claim>>

Init ==
    /\ stored = [p \in Selector |-> <<>>]
    /\ claim = {}

Held == UNION {Range(stored[p]) : p \in Selector}

Run(p, i, j) == Range(SubSeq(stored[p], i, j))

\* What is left of a sequence without its run i .. j.
Cut(s, i, j) == SubSeq(s, 1, i - 1) \o SubSeq(s, j + 1, Len(s))

\* Sectors nobody holds come to the end of a partition.
Extend(p) ==
    /\ \E n \in 1 .. Capacity : \E new \in Injection(1 .. n, Sector \ Held) :
         stored' = [stored EXCEPT ![p] = @ \o new]
    /\ UNCHANGED claim

\* A run nobody has claimed leaves a partition, for good or for another one.
Delete(p, i, j) ==
    /\ Run(p, i, j) \cap claim = {}
    /\ stored' = [stored EXCEPT ![p] = Cut(@, i, j)]
    /\ UNCHANGED claim

\* A run goes to the end of another partition, no sector lost; a move within one
\* is none of the store's.
Move(p, i, j, q) ==
    /\ p # q
    /\ Run(p, i, j) \cap claim = {}
    /\ stored' = [stored EXCEPT ![p] = Cut(@, i, j),
                                ![q] = @ \o SubSeq(stored[p], i, j)]
    /\ UNCHANGED claim

\* A reset of a partition may end the open transfer as well.
Clear(p) ==
    /\ Range(stored[p]) \cap claim = {}
    /\ stored' = [stored EXCEPT ![p] = <<>>]
    /\ claim' \in {claim, {}}

ClearAll ==
    /\ stored' = [p \in Selector |-> <<>>]
    /\ claim' = {}

Claim(p, i, j) ==
    /\ claim = {}
    /\ claim' = Run(p, i, j)
    /\ UNCHANGED stored

Release ==
    /\ claim' = {}
    /\ UNCHANGED stored

\* The run that is claimed leaves.
Drop(p, i, j) ==
    /\ claim = Run(p, i, j)
    /\ stored' = [stored EXCEPT ![p] = Cut(@, i, j)]
    /\ claim' = {}

Next ==
    \/ \E p \in Selector :
        \/ Extend(p)
        \/ Clear(p)
        \/ \E i \in DOMAIN stored[p] : \E j \in i .. Len(stored[p]) :
            \/ Delete(p, i, j)
            \/ Claim(p, i, j)
            \/ Drop(p, i, j)
            \/ \E q \in Selector : Move(p, i, j, q)
    \/ ClearAll
    \/ Release

Spec == Init /\ [][Next]_storeVars
=============================================================================
