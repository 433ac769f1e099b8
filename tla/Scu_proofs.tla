----------------------------- MODULE Scu_proofs -----------------------------
(***************************************************************************)
(* The SH-2's request queue stays in order: sh2_SetInterrupt and the       *)
(* acceptance of a request keep it ascending and free of duplicates.       *)
(* ScuQueueInterrupt's two loops of exchanges sort any queue of different  *)
(* interrupts (ExchangeSortSorts).                                         *)
(* Every operation of the SCU's interrupt controller keeps its queue and   *)
(* the request queues of the SH-2s in order (IrqOk).  Every operation of   *)
(* the SCU keeps its queue in order, its transfers settled and its timers  *)
(* typed (ScuOk), and adds to the queue no more than the sources it is     *)
(* meant to raise.                                                         *)
(***************************************************************************)
EXTENDS Scu, FiniteSetTheorems, SequenceTheorems, WellFoundedInduction, TLAPS

-----------------------------------------------------------------------------
(* The request queue of an SH-2.                                           *)

(* A finite initial segment of the positive numbers is 1 .. its size; this *)
(* is how the insertion point is known to exist without an induction.      *)
LEMMA InitialSegment ==
    ASSUME NEW n \in Nat, NEW S \in SUBSET (1 .. n),
           \A i \in S : \A j \in 1 .. i : j \in S
    PROVE  /\ Cardinality(S) \in 0 .. n
           /\ S = 1 .. Cardinality(S)
<1> DEFINE c == Cardinality(S)
<1>1. IsFiniteSet(1 .. n) /\ Cardinality(1 .. n) = n
    BY FS_Interval
<1>2. IsFiniteSet(S) /\ c \in Nat /\ c <= n
    BY <1>1, FS_Subset, FS_CardinalityType
<1>3. ASSUME NEW i \in S PROVE i <= c
    <2>1. i \in Nat /\ i >= 1
        OBVIOUS
    <2>2. 1 .. i \in SUBSET S
        OBVIOUS
    <2>3. Cardinality(1 .. i) <= c
        BY <1>2, <2>2, FS_Subset
    <2>4. Cardinality(1 .. i) = i
        BY <2>1, FS_Interval
    <2> QED
        BY <2>3, <2>4
<1>4. S \in SUBSET (1 .. c)
    BY <1>2, <1>3
<1>5. IsFiniteSet(1 .. c) /\ Cardinality(1 .. c) = c
    BY <1>2, FS_Interval
<1>6. 1 .. c = S
    BY <1>4, <1>5, FS_Subset
<1> QED
    BY <1>2, <1>6

(* In an ascending queue the insertion point separates the lower levels    *)
(* from the rest.                                                          *)
LEMMA InsertionPointSplits ==
    ASSUME NEW q \in Seq(Request), SortedQueue(q), NEW level \in Int
    PROVE  /\ InsertionPoint(q, level) \in 0 .. Len(q)
           /\ \A i \in 1 .. InsertionPoint(q, level) : q[i].level < level
           /\ \A i \in DOMAIN q :
                 i > InsertionPoint(q, level) => q[i].level >= level
<1> DEFINE S == {i \in DOMAIN q : q[i].level < level}
           c == Cardinality(S)
           T == {0} \cup S
<1>1. DOMAIN q = 1 .. Len(q) /\ Len(q) \in Nat
    OBVIOUS
<1>2. \A i \in DOMAIN q : q[i].level \in Int
    <2>1. \A r \in Request : r.level \in Int
        BY DEF Request, NMILevel
    <2> QED
        BY <2>1
<1>3. \A i \in S : \A j \in 1 .. i : j \in S
    BY <1>1, <1>2 DEF SortedQueue
<1>4. c \in 0 .. Len(q) /\ S = 1 .. c
    <2>1. S \in SUBSET (1 .. Len(q))
        BY <1>1
    <2> HIDE DEF S
    <2> QED
        BY <1>1, <1>3, <2>1, InitialSegment
<1>5. /\ \A i \in 1 .. c : q[i].level < level
      /\ \A i \in DOMAIN q : i > c => q[i].level >= level
    <2> DEFINE d == c
    <2>1. d \in Nat /\ S = 1 .. d
        BY <1>4
    <2> HIDE DEF d
    <2>2. \A i \in 1 .. d : q[i].level < level
        BY <2>1
    <2>3. \A i \in DOMAIN q : i > d => q[i].level >= level
        BY <1>1, <1>2, <2>1
    <2> QED
        BY <2>2, <2>3 DEF d
<1>6. InsertionPoint(q, level) = c
    <2> HIDE DEF S
    <2> DEFINE d == c
    <2>1. d \in Nat /\ S = 1 .. d
        BY <1>4
    <2> HIDE DEF d
    <2>2. d \in T /\ \A i \in T : d >= i
        BY <2>1
    <2>3. \A x \in T : (\A i \in T : x >= i) => x = d
        BY <2>1, <2>2
    <2>4. Max(T) = d
        BY <2>2, <2>3 DEF Max
    <2> QED
        BY <2>4 DEF InsertionPoint, S, d
<1> QED
    BY <1>4, <1>5, <1>6

(* sh2_SetInterrupt: an insertion keeps the queue ascending and, the       *)
(* vector being new to it, free of duplicates.                             *)
LEMMA InsertRequestOk ==
    ASSUME NEW q, QueueOk(q), NEW r \in Request, r.vec \notin Vectors(q)
    PROVE  QueueOk(InsertRequest(q, r))
<1> DEFINE p == InsertionPoint(q, r.level)
           n == Len(q)
           h == [i \in 1 .. n + 1 |->
                    IF i <= p THEN q[i] ELSE IF i = p + 1 THEN r ELSE q[i - 1]]
<1>1. q \in Seq(Request) /\ SortedQueue(q) /\ DistinctVectors(q)
    BY DEF QueueOk
<1>2. r.level \in Int /\ \A s \in Request : s.level \in Int
    BY DEF Request, NMILevel
<1>3. /\ p \in 0 .. n
      /\ \A i \in 1 .. p : q[i].level < r.level
      /\ \A i \in 1 .. n : i > p => q[i].level >= r.level
    <2>1. DOMAIN q = 1 .. n
        BY <1>1
    <2>2. r.level \in Int
        BY <1>2
    <2> HIDE DEF p
    <2>3. /\ p \in 0 .. Len(q)
          /\ \A i \in 1 .. p : q[i].level < r.level
          /\ \A i \in DOMAIN q : i > p => q[i].level >= r.level
        BY <1>1, <2>2, InsertionPointSplits DEF p
    <2> QED
        BY <2>1, <2>3
<1> HIDE DEF p
<1>4. n \in Nat /\ DOMAIN q = 1 .. n /\ \A i \in 1 .. n : q[i] \in Request
    BY <1>1
<1> HIDE DEF n
<1>5. \A i \in 1 .. n + 1 : h[i] \in Request
    BY <1>3, <1>4
<1>6. h \in Seq(Request) /\ DOMAIN h = 1 .. n + 1
    BY <1>4, <1>5
<1>7. SortedQueue(h)
    <2> SUFFICES ASSUME NEW i \in 1 .. n + 1, NEW j \in 1 .. n + 1, i < j
                 PROVE  h[i].level <= h[j].level
        BY <1>6 DEF SortedQueue
    <2>1. \A k, l \in 1 .. n : k < l => q[k].level <= q[l].level
        BY <1>1, <1>4 DEF SortedQueue
    <2>2. \A k \in 1 .. n : q[k].level \in Int
        BY <1>2, <1>4
    <2>3. CASE i <= p /\ j <= p
        BY <2>1, <2>3, <1>3, <1>4
    <2>4. CASE i <= p /\ j = p + 1
        BY <2>4, <1>2, <1>3, <1>4, <2>2
    <2>5. CASE i <= p /\ j > p + 1
        <3>1. h[i] = q[i] /\ h[j] = q[j - 1] /\ i < j - 1
            BY <2>5, <1>3, <1>4
        <3>2. i \in 1 .. n /\ j - 1 \in 1 .. n
            BY <2>5, <1>3, <1>4
        <3> QED
            BY <3>1, <3>2, <2>1
    <2>6. CASE i = p + 1
        <3>1. h[i] = r /\ h[j] = q[j - 1] /\ j - 1 \in 1 .. n /\ j - 1 > p
            BY <2>6, <1>3, <1>4
        <3>2. q[j - 1].level >= r.level
            BY <3>1, <1>3
        <3> QED
            BY <3>1, <3>2, <1>2, <2>2
    <2>7. CASE i > p + 1
        <3>1. h[i] = q[i - 1] /\ h[j] = q[j - 1]
            BY <2>7, <1>3, <1>4
        <3>2. i - 1 \in 1 .. n /\ j - 1 \in 1 .. n /\ i - 1 < j - 1
            BY <2>7, <1>3, <1>4
        <3> QED
            BY <3>1, <3>2, <2>1
    <2> QED
        BY <2>3, <2>4, <2>5, <2>6, <2>7, <1>3
<1>8. DistinctVectors(h)
    <2> SUFFICES ASSUME NEW i \in 1 .. n + 1, NEW j \in 1 .. n + 1,
                        h[i].vec = h[j].vec
                 PROVE  i = j
        BY <1>6 DEF DistinctVectors
    <2> DEFINE src(k) == IF k <= p THEN k ELSE k - 1
    <2>1. \A k, l \in 1 .. n : q[k].vec = q[l].vec => k = l
        BY <1>1, <1>4 DEF DistinctVectors
    <2>2. \A k \in 1 .. n : q[k].vec # r.vec
        BY <1>4 DEF Vectors
    <2>3. \A k \in 1 .. n + 1 :
              k # p + 1 => h[k] = q[src(k)] /\ src(k) \in 1 .. n
        BY <1>3, <1>4
    <2>4. h[p + 1] = r
        BY <1>3, <1>4
    <2>5. CASE i = p + 1 \/ j = p + 1
        BY <2>2, <2>3, <2>4, <2>5
    <2>6. CASE i # p + 1 /\ j # p + 1
        <3>1. src(i) = src(j)
            BY <2>1, <2>3, <2>6
        <3> QED
            BY <3>1, <2>6, <1>3, <1>4
    <2> QED
        BY <2>5, <2>6
<1>9. InsertRequest(q, r) = h
    BY DEF InsertRequest, p, n
<1> QED
    BY <1>6, <1>7, <1>8, <1>9 DEF QueueOk

(* sh2_SetInterrupt keeps the request queue ascending and duplicate-free.  *)
LEMMA SetInterruptOk ==
    ASSUME NEW q, QueueOk(q), NEW r \in Request
    PROVE  QueueOk(SetInterrupt(q, r))
BY InsertRequestOk DEF SetInterrupt

(* Taking the last request leaves an orderly queue.                        *)
LEMMA AcceptedOk ==
    ASSUME NEW q, QueueOk(q), q # << >>
    PROVE  QueueOk(Accepted(q))
<1>1. q \in Seq(Request) /\ Len(q) \in Nat \ {0}
    BY DEF QueueOk
<1>2. /\ Accepted(q) \in Seq(Request)
      /\ DOMAIN Accepted(q) = 1 .. Len(q) - 1
      /\ \A i \in 1 .. Len(q) - 1 : Accepted(q)[i] = q[i]
    <2>1. Accepted(q) = [i \in 1 .. Len(q) - 1 |-> q[i]]
        BY <1>1 DEF Accepted
    <2>2. \A i \in 1 .. Len(q) - 1 : q[i] \in Request
        BY <1>1
    <2> QED
        BY <1>1, <2>1, <2>2
<1>3. DOMAIN q = 1 .. Len(q)
    BY <1>1
<1> QED
    BY <1>1, <1>2, <1>3 DEF QueueOk, SortedQueue, DistinctVectors

(* The queue memset leaves is a good one.                                  *)
LEMMA EmptyQueueOk == QueueOk(<< >>)
BY DEF QueueOk, SortedQueue, DistinctVectors

-----------------------------------------------------------------------------
(* sh2_SetInterrupt adds the vector of the request and no other; a vector  *)
(* that is pending already stays.                                          *)
LEMMA SetInterruptVectors ==
    ASSUME NEW q, QueueOk(q), NEW r \in Request
    PROVE  Vectors(SetInterrupt(q, r)) = Vectors(q) \cup {r.vec}
<1> DEFINE p == InsertionPoint(q, r.level)
           n == Len(q)
           h == [i \in 1 .. n + 1 |->
                    IF i <= p THEN q[i] ELSE IF i = p + 1 THEN r ELSE q[i - 1]]
<1>1. q \in Seq(Request) /\ SortedQueue(q)
    BY DEF QueueOk
<1>2. p \in 0 .. n
    <2>1. r.level \in Int
        BY DEF Request, NMILevel
    <2> QED
        BY <1>1, <2>1, InsertionPointSplits
<1> HIDE DEF p
<1>3. n \in Nat /\ DOMAIN q = 1 .. n
    BY <1>1
<1> HIDE DEF n
<1>4. h[p + 1] = r
    BY <1>2, <1>3
<1>5. \A i \in 1 .. n + 1 : h[i] \in {q[j] : j \in 1 .. n} \cup {r}
    <2> SUFFICES ASSUME NEW i \in 1 .. n + 1
                 PROVE  h[i] \in {q[j] : j \in 1 .. n} \cup {r}
        OBVIOUS
    <2>1. CASE i <= p
        BY <1>2, <1>3, <2>1
    <2>2. CASE i = p + 1
        BY <1>4, <2>2
    <2>3. CASE i > p + 1
        <3>1. h[i] = q[i - 1] /\ i - 1 \in 1 .. n
            BY <1>2, <1>3, <2>3
        <3> QED
            BY <3>1
    <2> QED
        BY <1>2, <1>3, <2>1, <2>2, <2>3
<1>6. ASSUME NEW j \in 1 .. n PROVE \E i \in 1 .. n + 1 : h[i] = q[j]
    <2>1. CASE j <= p
        <3>1. j \in 1 .. n + 1 /\ h[j] = q[j]
            BY <1>2, <1>3, <2>1
        <3> QED
            BY <3>1
    <2>2. CASE j > p
        <3>1. j + 1 \in 1 .. n + 1 /\ h[j + 1] = q[j]
            BY <1>2, <1>3, <2>2
        <3> QED
            BY <3>1
    <2> QED
        BY <1>2, <1>3, <2>1, <2>2
<1>7. p + 1 \in 1 .. n + 1 /\ DOMAIN h = 1 .. n + 1
    BY <1>2, <1>3
<1>8. InsertRequest(q, r) = h
    BY DEF InsertRequest, p, n
<1> HIDE DEF h
<1>9. Vectors(h) = Vectors(q) \cup {r.vec}
    <2>1. Vectors(q) = {q[j].vec : j \in 1 .. n}
        BY <1>3 DEF Vectors
    <2>2. Vectors(h) = {h[i].vec : i \in 1 .. n + 1}
        BY <1>7 DEF Vectors
    <2>3. \A i \in 1 .. n + 1 : h[i].vec \in Vectors(q) \cup {r.vec}
        BY <1>5, <2>1
    <2>4. \A j \in 1 .. n : \E i \in 1 .. n + 1 : h[i].vec = q[j].vec
        BY <1>6
    <2>5. r.vec \in Vectors(h)
        BY <1>4, <1>7, <2>2
    <2>6. Vectors(q) \subseteq Vectors(h)
        BY <2>1, <2>2, <2>4
    <2> QED
        BY <2>2, <2>3, <2>5, <2>6
<1> QED
    BY <1>8, <1>9 DEF SetInterrupt

(* sh2_HandleInterrupt takes one vector away, that of the last request.    *)
LEMMA AcceptedVectors ==
    ASSUME NEW q, QueueOk(q), q # << >>
    PROVE  /\ Vectors(Accepted(q)) = Vectors(q) \ {Top(q).vec}
           /\ Len(q) \in DOMAIN q
           /\ \A j \in DOMAIN q : q[j].level <= Top(q).level
<1> DEFINE n == Len(q)
<1>1. q \in Seq(Request) /\ n \in Nat \ {0} /\ DOMAIN q = 1 .. n
    BY DEF QueueOk
<1>2. Accepted(q) = [i \in 1 .. n - 1 |-> q[i]]
    BY <1>1 DEF Accepted
<1>3. \A j \in 1 .. n : q[j] \in Request
    BY <1>1
<1> HIDE DEF n
<1>4. /\ DOMAIN Accepted(q) = 1 .. n - 1
      /\ \A i \in 1 .. n - 1 : Accepted(q)[i] = q[i]
    BY <1>1, <1>2
<1>5. \A i \in 1 .. n : i # n => i \in 1 .. n - 1 /\ q[i].vec # q[n].vec
    BY <1>1 DEF QueueOk, DistinctVectors
<1>6. 1 .. n - 1 \subseteq 1 .. n /\ n \in 1 .. n /\ n \notin 1 .. n - 1
    BY <1>1
<1>7. Vectors(Accepted(q)) = Vectors(q) \ {q[n].vec}
    <2>1. Vectors(Accepted(q)) = {q[i].vec : i \in 1 .. n - 1}
        BY <1>4 DEF Vectors
    <2>2. Vectors(q) = {q[i].vec : i \in 1 .. n}
        BY <1>1 DEF Vectors
    <2> QED
        BY <1>5, <1>6, <2>1, <2>2
<1>8. \A j \in 1 .. n : j # n => j < n
    BY <1>1
<1>9. \A j \in 1 .. n : q[j].level <= q[n].level
    <2>1. \A j \in 1 .. n : q[j].level \in Int
        BY <1>3 DEF Request, NMILevel
    <2> QED
        BY <1>1, <1>6, <1>8, <2>1 DEF QueueOk, SortedQueue
<1> QED
    BY <1>1, <1>6, <1>7, <1>9 DEF Top, n

(* As many requests as vectors: a queue is no longer than any finite set   *)
(* of numbers that holds its vectors.                                      *)
LEMMA QueueLength ==
    ASSUME NEW q, QueueOk(q), NEW V, IsFiniteSet(V), Vectors(q) \subseteq V
    PROVE  Len(q) <= Cardinality(V)
<1> DEFINE n == Len(q)
           S == 1 .. n
           f == [i \in S |-> q[i].vec]
<1>1. q \in Seq(Request) /\ n \in Nat /\ DOMAIN q = S
    BY DEF QueueOk
<1>2. IsFiniteSet(S) /\ Cardinality(S) = n
    BY <1>1, FS_Interval
<1>3. f \in [S -> V] /\ \A i, j \in S : f[i] = f[j] => i = j
    BY <1>1 DEF QueueOk, DistinctVectors, Vectors
<1>4. Cardinality(V) \in Nat
    BY FS_CardinalityType
<1> HIDE DEF f, S, n
<1>5. ~(Cardinality(V) < Cardinality(S))
    BY <1>2, <1>3, FS_PigeonHole
<1> QED
    BY <1>1, <1>2, <1>4, <1>5 DEF n

-----------------------------------------------------------------------------
(* The controller.                                                         *)

(* The tables of levels and vectors give proper requests.                  *)
LEMMA TablesOk ==
    /\ \A s \in Source : Level[s] \in 1 .. 15
    /\ \A s \in Source : RequestOf(s) \in Request
    /\ \A s \in DOMAIN SlaveCopy : SlaveCopy[s] \in Request
<1>1. \A s \in Source : Level[s] \in 1 .. 15
    BY DEF Source, Level
<1>2. \A s \in Source : Vector[s] \in 0 .. 127
    BY DEF Source, Vector
<1>3. \A s \in Source : RequestOf(s) \in Request
    BY <1>1, <1>2 DEF RequestOf, Request, NMILevel
<1>4. \A s \in DOMAIN SlaveCopy : SlaveCopy[s] \in Request
    BY DEF SlaveCopy, Request, NMILevel
<1> QED
    BY <1>1, <1>3, <1>4

(* What IrqOk says of each field, and when an update of the queue keeps    *)
(* it.                                                                     *)
LEMMA ControllerParts ==
    ASSUME NEW c, IrqOk(c)
    PROVE  /\ c \in Controller
           /\ c.ist \in SUBSET Queueable /\ c.ims \in SUBSET Source
           /\ c.aiack \in BOOLEAN /\ c.ssh2 \in BOOLEAN
           /\ c.interrupts \in [0 .. 29 -> Source \cup {None}]
           /\ c.number \in 0 .. 30
           /\ c.iqr \in [CPU -> Seq(Request)]
           /\ ScuQueueOk(c)
           /\ \A p \in CPU : QueueOk(c.iqr[p])
<1>1. c \in Controller
    BY DEF IrqOk
<1>2. /\ c.ist \subseteq Queueable
      /\ ScuQueueOk(c) /\ \A p \in CPU : QueueOk(c.iqr[p])
    BY DEF IrqOk
<1>3. /\ c.ims \in SUBSET Source /\ c.aiack \in BOOLEAN /\ c.ssh2 \in BOOLEAN
      /\ c.interrupts \in [0 .. MaxQueued - 1 -> Source \cup {None}]
      /\ c.number \in 0 .. MaxQueued /\ c.iqr \in [CPU -> Seq(Request)]
    BY <1>1 DEF Controller
<1>4. MaxQueued = 30 /\ MaxQueued - 1 = 29
    BY DEF MaxQueued
<1> QED
    BY <1>1, <1>2, <1>3, <1>4

(* The order of the queue, said of the array and its live length alone.    *)
Ascending(a, n) ==
    /\ \A k \in 0 .. n - 1 : a[k] \in Queueable
    /\ \A k, l \in 0 .. n - 1 : k < l => Level[a[k]] <= Level[a[l]]
    /\ \A k, l \in 0 .. n - 1 : a[k] = a[l] => k = l

Slots == [0 .. 29 -> Source \cup {None}]

Entries(a, n) == {a[k] : k \in 0 .. n - 1}

(* What each operation of the controller guarantees: order, no effect on   *)
(* the slave while it is stopped, and no new entries but those of S.       *)
Keeps(c, d, S) ==
    /\ IrqOk(d)
    /\ d.ssh2 = c.ssh2
    /\ ~c.ssh2 => d.iqr["ssh2"] = c.iqr["ssh2"]
    /\ Queued(d) \subseteq Queued(c) \cup S

WithQueue(c, a, n) == [c EXCEPT !.interrupts = a, !.number = n]

(* What IrqOk says of the array and its live part.                         *)
LEMMA QueueParts ==
    ASSUME NEW c, IrqOk(c)
    PROVE  /\ c.interrupts \in Slots
           /\ c.number \in 0 .. 30
           /\ Live(c) = 0 .. c.number - 1
           /\ Ascending(c.interrupts, c.number)
           /\ Queued(c) = Entries(c.interrupts, c.number)
BY ControllerParts DEF Slots, ScuQueueOk, Live, Ascending, Queued, Entries

(* A controller whose array is replaced by an orderly one is orderly.      *)
LEMMA WithQueueOk ==
    ASSUME NEW c, IrqOk(c), NEW a \in Slots, NEW n \in 0 .. 30,
           Ascending(a, n), NEW S, Entries(a, n) \subseteq Queued(c) \cup S
    PROVE  Keeps(c, WithQueue(c, a, n), S)
<1> DEFINE r == WithQueue(c, a, n)
<1>1. c \in Controller
    BY ControllerParts
<1>2. /\ r.interrupts = a /\ r.number = n
      /\ r.iqr = c.iqr /\ r.ist = c.ist /\ r.ssh2 = c.ssh2
    BY <1>1 DEF Controller, WithQueue
<1>3. r \in Controller
    <2>1. 0 .. MaxQueued - 1 = 0 .. 29 /\ 0 .. MaxQueued = 0 .. 30
        BY DEF MaxQueued
    <2> QED
        BY <1>1, <2>1 DEF Controller, WithQueue, Slots
<1>4. ScuQueueOk(r)
    BY <1>2 DEF Live, ScuQueueOk, Ascending
<1> HIDE DEF r
<1>5. IrqOk(r)
    BY <1>2, <1>3, <1>4, ControllerParts DEF IrqOk
<1>6. Queued(r) = Entries(a, n)
    BY <1>2 DEF Queued, Entries, Live
<1> QED
    BY <1>2, <1>5, <1>6 DEF r, Keeps

(* The registers of the controller.                                        *)
LEMMA RegistersOk ==
    ASSUME NEW c, IrqOk(c)
    PROVE  /\ \A x \in SUBSET Queueable : Keeps(c, [c EXCEPT !.ist = x], {})
           /\ \A x \in SUBSET Source : Keeps(c, [c EXCEPT !.ims = x], {})
           /\ \A x \in BOOLEAN : Keeps(c, [c EXCEPT !.aiack = x], {})
<1>1. c \in Controller
    BY ControllerParts
<1>2. ASSUME NEW x \in SUBSET Queueable
      PROVE  Keeps(c, [c EXCEPT !.ist = x], {})
    <2> DEFINE r == [c EXCEPT !.ist = x]
    <2>1. /\ r \in Controller /\ r.ist = x /\ r.interrupts = c.interrupts
          /\ r.number = c.number /\ r.iqr = c.iqr /\ r.ssh2 = c.ssh2
        BY <1>1 DEF Controller, Queueable
    <2> HIDE DEF r
    <2> QED
        BY <2>1, ControllerParts
        DEF r, Keeps, IrqOk, ScuQueueOk, Live, Queued
<1>3. ASSUME NEW x \in SUBSET Source
      PROVE  Keeps(c, [c EXCEPT !.ims = x], {})
    <2> DEFINE r == [c EXCEPT !.ims = x]
    <2>1. /\ r \in Controller /\ r.ist = c.ist /\ r.interrupts = c.interrupts
          /\ r.number = c.number /\ r.iqr = c.iqr /\ r.ssh2 = c.ssh2
        BY <1>1 DEF Controller
    <2> HIDE DEF r
    <2> QED
        BY <2>1, ControllerParts
        DEF r, Keeps, IrqOk, ScuQueueOk, Live, Queued
<1>4. ASSUME NEW x \in BOOLEAN
      PROVE  Keeps(c, [c EXCEPT !.aiack = x], {})
    <2> DEFINE r == [c EXCEPT !.aiack = x]
    <2>1. /\ r \in Controller /\ r.ist = c.ist /\ r.interrupts = c.interrupts
          /\ r.number = c.number /\ r.iqr = c.iqr /\ r.ssh2 = c.ssh2
        BY <1>1 DEF Controller
    <2> HIDE DEF r
    <2> QED
        BY <2>1, ControllerParts
        DEF r, Keeps, IrqOk, ScuQueueOk, Live, Queued
<1> QED
    BY <1>2, <1>3, <1>4

(* Present changes nothing but the request queues.                         *)
LEMMA PresentOk ==
    ASSUME NEW c, IrqOk(c), NEW s \in Source
    PROVE  /\ Keeps(c, Present(c, s), {})
           /\ Present(c, s).interrupts = c.interrupts
           /\ Present(c, s).number = c.number
           /\ Present(c, s).ist = c.ist
<1> DEFINE m == SetInterrupt(c.iqr["msh2"], RequestOf(s))
           v == IF c.ssh2 /\ s \in DOMAIN SlaveCopy
                THEN SetInterrupt(c.iqr["ssh2"], SlaveCopy[s])
                ELSE c.iqr["ssh2"]
           iqr == [c.iqr EXCEPT !["msh2"] = m, !["ssh2"] = v]
<1>1. c \in Controller /\ \A p \in CPU : QueueOk(c.iqr[p])
    BY DEF IrqOk
<1>2. c.iqr \in [CPU -> Seq(Request)]
    BY <1>1 DEF Controller
<1>3. QueueOk(m)
    BY <1>1, TablesOk, SetInterruptOk DEF CPU
<1>4. QueueOk(v)
    BY <1>1, TablesOk, SetInterruptOk DEF CPU
<1> HIDE DEF m, v
<1>5. iqr \in [CPU -> Seq(Request)] /\ \A p \in CPU : QueueOk(iqr[p])
    BY <1>1, <1>2, <1>3, <1>4 DEF CPU, QueueOk
<1>6. Present(c, s) = [c EXCEPT !.iqr = iqr]
    BY <1>1, <1>2 DEF Present, Controller, CPU, m, v
<1> HIDE DEF iqr
<1> DEFINE r == [c EXCEPT !.iqr = iqr]
<1>7. /\ r \in Controller /\ r.ist = c.ist /\ r.interrupts = c.interrupts
      /\ r.number = c.number /\ r.iqr = iqr /\ r.ssh2 = c.ssh2
    BY <1>1, <1>5 DEF Controller
<1>8. ~c.ssh2 => iqr["ssh2"] = c.iqr["ssh2"]
    BY <1>2 DEF iqr, v, CPU
<1> HIDE DEF r
<1>9. IrqOk(r)
    BY <1>5, <1>7, ControllerParts DEF IrqOk, ScuQueueOk, Live
<1> QED
    BY <1>6, <1>7, <1>8, <1>9 DEF r, Keeps, Queued, Live

-----------------------------------------------------------------------------
(* Taking a live slot out keeps the rest in order.                         *)
Without(a, n, k) ==
    [i \in 0 .. 29 |-> IF i >= k /\ i < n - 1 THEN a[i + 1] ELSE a[i]]

(* Closing the gap at k keeps the array ascending and loses only a[k].     *)
LEMMA RemoveFromArray ==
    ASSUME NEW a \in Slots, NEW n \in 0 .. 30, Ascending(a, n),
           NEW k \in 0 .. n - 1
    PROVE  /\ Without(a, n, k) \in Slots
           /\ Ascending(Without(a, n, k), n - 1)
           /\ Entries(Without(a, n, k), n - 1) \subseteq Entries(a, n)
           /\ a[k] \notin Entries(Without(a, n, k), n - 1)
           /\ Entries(a, n) \subseteq Entries(Without(a, n, k), n - 1) \cup {a[k]}
<1> DEFINE b == Without(a, n, k)
           old(i) == IF i >= k THEN i + 1 ELSE i
<1>1. b \in Slots
    BY DEF Slots, Without
<1>2. ASSUME NEW i \in 0 .. n - 2
      PROVE  old(i) \in 0 .. n - 1 /\ b[i] = a[old(i)]
    BY DEF Without
<1>3. \A i, j \in 0 .. n - 2 :
          (i < j => old(i) < old(j)) /\ (old(i) = old(j) => i = j)
    OBVIOUS
<1>4. 0 .. (n - 1) - 1 = 0 .. n - 2
    OBVIOUS
<1>5. \A i \in 0 .. n - 2 : old(i) # k
    OBVIOUS
<1> HIDE DEF old, b
<1>6. \A i \in 0 .. n - 2 : b[i] \in Queueable
    BY <1>2 DEF Ascending
<1>7. \A i, j \in 0 .. n - 2 : i < j => Level[b[i]] <= Level[b[j]]
    BY <1>2, <1>3 DEF Ascending
<1>8. \A i, j \in 0 .. n - 2 : b[i] = b[j] => i = j
    BY <1>2, <1>3 DEF Ascending
<1>9. Entries(b, n - 1) \subseteq Entries(a, n)
    BY <1>2, <1>4 DEF Entries
<1>10. a[k] \notin Entries(b, n - 1)
    <2>1. \A i \in 0 .. n - 2 : b[i] # a[k]
        BY <1>2, <1>5 DEF Ascending
    <2> QED
        BY <1>4, <2>1 DEF Entries
<1>11. Entries(a, n) \subseteq Entries(b, n - 1) \cup {a[k]}
    <2> SUFFICES ASSUME NEW i \in 0 .. n - 1, i # k
                 PROVE  \E j \in 0 .. n - 2 : b[j] = a[i]
        BY <1>4 DEF Entries
    <2>1. CASE i < k
        <3>1. i \in 0 .. n - 2 /\ old(i) = i
            BY <2>1 DEF old
        <3> QED
            BY <1>2, <3>1
    <2>2. CASE i > k
        <3>1. i - 1 \in 0 .. n - 2 /\ old(i - 1) = i
            BY <2>2 DEF old
        <3> QED
            BY <1>2, <3>1
    <2> QED
        BY <2>1, <2>2
<1> QED
    BY <1>1, <1>4, <1>6, <1>7, <1>8, <1>9, <1>10, <1>11 DEF Ascending, b

(* ScuRemoveInterrupt's compaction.                                        *)
LEMMA RemoveSlotOk ==
    ASSUME NEW c, IrqOk(c), NEW k \in Live(c)
    PROVE  /\ Keeps(c, RemoveSlot(c, k), {})
           /\ c.interrupts[k] \notin Queued(RemoveSlot(c, k))
           /\ Queued(c) \subseteq Queued(RemoveSlot(c, k)) \cup {c.interrupts[k]}
<1> DEFINE a == c.interrupts
           n == c.number
           b == Without(a, n, k)
           m == n - 1
<1>1. /\ a \in Slots /\ n \in 0 .. 30 /\ Ascending(a, n)
      /\ k \in 0 .. n - 1 /\ Queued(c) = Entries(a, n)
    BY QueueParts
<1>2. RemoveSlot(c, k) = WithQueue(c, b, m)
    BY <1>1, ControllerParts
    DEF RemoveSlot, Controller, WithQueue, Slots, Without
<1> HIDE DEF a, n
<1>3. /\ b \in Slots /\ Ascending(b, m)
      /\ Entries(b, m) \subseteq Entries(a, n) /\ a[k] \notin Entries(b, m)
      /\ Entries(a, n) \subseteq Entries(b, m) \cup {a[k]}
    BY <1>1, RemoveFromArray
<1>4. m \in 0 .. 30
    BY <1>1
<1> HIDE DEF b, m
<1>5. Keeps(c, WithQueue(c, b, m), {})
    BY <1>1, <1>3, <1>4, WithQueueOk
<1>6. Queued(WithQueue(c, b, m)) = Entries(b, m)
    BY ControllerParts DEF WithQueue, Queued, Entries, Live, Controller
<1> QED
    BY <1>1, <1>2, <1>3, <1>5, <1>6 DEF a

-----------------------------------------------------------------------------
(* The size of an interval, from the library.                              *)
LEMMA IntervalSize ==
    ASSUME NEW n \in Nat
    PROVE  IsFiniteSet(0 .. n - 1) /\ Cardinality(0 .. n - 1) = n
BY FS_Interval

(* The queue never fills its thirty slots: its entries differ, and so do   *)
(* the numbers of their status bits.                                       *)
LEMMA RoomInQueue ==
    ASSUME NEW c, IrqOk(c)
    PROVE  c.number \in 0 .. 14
<1> DEFINE a == c.interrupts
           n == c.number
           f == [k \in 0 .. n - 1 |-> StatusBit[a[k]]]
           top == 14
<1>1. n \in 0 .. 30 /\ Ascending(a, n)
    BY QueueParts
<1>2. \A s \in Queueable : StatusBit[s] \in 0 .. top - 1
    BY DEF Queueable, Source, ABus, StatusBit
<1>3. \A s, t \in Queueable : StatusBit[s] = StatusBit[t] => s = t
    BY DEF Queueable, Source, ABus, StatusBit
<1>4. top \in Nat
    OBVIOUS
<1> HIDE DEF a, n, top
<1>5. f \in [0 .. n - 1 -> 0 .. top - 1]
    BY <1>1, <1>2 DEF Ascending
<1>6. \A k, l \in 0 .. n - 1 : f[k] = f[l] => k = l
    BY <1>1, <1>3 DEF Ascending
<1> HIDE DEF f
<1>7. IsFiniteSet(0 .. top - 1) /\ Cardinality(0 .. top - 1) = top
    BY <1>4, IntervalSize
<1>8. n \in Nat
    BY <1>1
<1>9. IsFiniteSet(0 .. n - 1) /\ Cardinality(0 .. n - 1) = n
    BY <1>8, IntervalSize
<1>10. ~(top < n)
    <2> SUFFICES ASSUME top < n PROVE FALSE
        OBVIOUS
    <2>1. Cardinality(0 .. top - 1) < Cardinality(0 .. n - 1)
        BY <1>7, <1>9
    <2> DEFINE S == 0 .. n - 1
               T == 0 .. top - 1
    <2>2. /\ IsFiniteSet(S) /\ IsFiniteSet(T) /\ f \in [S -> T]
          /\ Cardinality(T) < Cardinality(S)
        BY <1>5, <1>7, <1>9, <2>1
    <2>3. \A x, y \in S : f[x] = f[y] => x = y
        BY <1>6
    <2> HIDE DEF S, T
    <2>4. \E x, y \in S : x # y /\ f[x] = f[y]
        BY <2>2, FS_PigeonHole
    <2> QED
        BY <2>3, <2>4
<1> QED
    BY <1>1, <1>10 DEF n, top

(* ScuQueueInterrupt's sort: two loops of exchanges.  Each loop is a       *)
(* function defined from its value one turn earlier.                       *)

(* What holds of 0 and goes from each number to the next holds up to N.    *)
(* The induction is over a set and not over a predicate, so that it can be *)
(* cited.                                                                  *)
LEMMA Upwards ==
    ASSUME NEW N \in Nat, NEW T, 0 \in T, \A k \in 1 .. N : k - 1 \in T => k \in T
    PROVE  \A k \in 0 .. N : k \in T
<1> DEFINE R == OpToRel(<, Nat)
           B == {k \in 0 .. N : k \notin T}
<1>1. IsWellFoundedOn(R, Nat)
  BY NatLessThanWellFounded
<1>2. \A i, j \in Nat : j < i => <<j, i>> \in R
  BY DEF OpToRel
<1> HIDE DEF R
<1>3. SUFFICES ASSUME B # {} PROVE FALSE
  OBVIOUS
<1>4. B \subseteq Nat
  OBVIOUS
<1> HIDE DEF B
<1>5. PICK k \in B : \A j \in B : ~ (<<j, k>> \in R)
  BY <1>1, <1>3, <1>4, WFMin
<1>6. k \in 0 .. N /\ k \notin T
  BY DEF B
<1>7. k \in 1 .. N /\ k - 1 \in 0 .. N
  BY <1>6
<1>8. k - 1 \notin T
  BY <1>6, <1>7
<1>9. k - 1 \in B
  BY <1>7, <1>8 DEF B
<1>10. <<k - 1, k>> \in R
  BY <1>2, <1>7
<1> QED
  BY <1>5, <1>9, <1>10

(* f starts with e and takes each value from the one before by G.          *)
StepsOn(N, E) == [E \X (1 .. N) -> E]
Goes(f, N, E, e, G) ==
    /\ f \in [0 .. N -> E] /\ f[0] = e
    /\ \A k \in 1 .. N : f[k] = G[<<f[k - 1], k>>]

(* Such a function exists, for every e and every G.                        *)
LEMMA Recursion ==
    ASSUME NEW N \in Nat, NEW E, NEW e \in E, NEW G \in StepsOn(N, E)
    PROVE  \E f : Goes(f, N, E, e, G)
<1> USE DEF StepsOn
<1> DEFINE Upto(f, n) == /\ f \in [0 .. n -> E] /\ f[0] = e
                         /\ \A k \in 1 .. n : f[k] = G[<<f[k - 1], k>>]
           T == {n \in 0 .. N : \E f : Upto(f, n)}
<1>1. 0 \in T
  <2> DEFINE f == [k \in 0 .. 0 |-> e]
  <2>1. f \in [0 .. 0 -> E] /\ f[0] = e
    OBVIOUS
  <2> HIDE DEF f
  <2>2. Upto(f, 0)
    BY <2>1
  <2> QED
    BY <2>2
<1>2. ASSUME NEW n \in 1 .. N, n - 1 \in T PROVE n \in T
  <2>1. PICK g : Upto(g, n - 1)
    BY <1>2
  <2> DEFINE f == [k \in 0 .. n |-> IF k = n THEN G[<<g[n - 1], n>>] ELSE g[k]]
  <2>2. g \in [0 .. n - 1 -> E] /\ g[n - 1] \in E
    BY <2>1
  <2>3. G[<<g[n - 1], n>>] \in E
    BY <2>2
  <2>4. f \in [0 .. n -> E]
    BY <2>2, <2>3
  <2>5. f[0] = e /\ f[n] = G[<<g[n - 1], n>>] /\ \A k \in 0 .. n - 1 : f[k] = g[k]
    BY <2>1
  <2> HIDE DEF f
  <2>6. ASSUME NEW k \in 1 .. n PROVE f[k] = G[<<f[k - 1], k>>]
    <3>1. CASE k = n
      BY <2>5, <3>1
    <3>2. CASE k # n
      <4>1. k \in 1 .. n - 1 /\ k \in 0 .. n - 1 /\ k - 1 \in 0 .. n - 1
        BY <3>2
      <4>2. f[k] = g[k] /\ f[k - 1] = g[k - 1]
        BY <2>5, <4>1
      <4> QED
        BY <2>1, <4>1, <4>2
    <3> QED
      BY <3>1, <3>2
  <2>7. Upto(f, n)
    BY <2>4, <2>5, <2>6
  <2> QED
    BY <2>7
<1> HIDE DEF T
<1>3. N \in T
  BY <1>1, <1>2, Upwards
<1> QED
  BY <1>3 DEF T, Goes

(* b is a rearranged: the live part holds the entries it held, each once,  *)
(* and the slots above are as they were.                                   *)
Rearranged(a, b, n) ==
    /\ b \in Slots
    /\ \A k \in 0 .. n - 1 : b[k] \in Queueable
    /\ \A k, l \in 0 .. n - 1 : b[k] = b[l] => k = l
    /\ \A k \in 0 .. n - 1 : \E l \in 0 .. n - 1 : b[k] = a[l]
    /\ \A k \in 0 .. n - 1 : \E l \in 0 .. n - 1 : a[k] = b[l]
    /\ \A k \in n .. 29 : b[k] = a[k]

(* The slots below i hold what they will hold in the end.                  *)
SettledBelow(b, n, i) ==
    \A k, l \in 0 .. n - 1 : k < i /\ k < l => Level[b[k]] <= Level[b[l]]

(* Where the inner loop stands once it has compared slot i with slot j.    *)
Swept(a, b, n, i, j) ==
    /\ Rearranged(a, b, n)
    /\ SettledBelow(b, n, i)
    /\ \A l \in i .. j : Level[b[i]] <= Level[b[l]]

(* One comparison of the inner loop.                                       *)
LEMMA ExchangeSweeps ==
    ASSUME NEW n \in 1 .. 30, NEW a, NEW b, NEW i \in 0 .. n - 1,
           NEW j \in i + 1 .. n - 1, Swept(a, b, n, i, j - 1)
    PROVE  Swept(a, Exchange(b, i, j), n, i, j)
<1> DEFINE d == Exchange(b, i, j)
<1>1. /\ b \in Slots
      /\ \A k \in 0 .. n - 1 : b[k] \in Queueable
      /\ \A k, l \in 0 .. n - 1 : b[k] = b[l] => k = l
      /\ \A k \in 0 .. n - 1 : \E l \in 0 .. n - 1 : b[k] = a[l]
      /\ \A k \in 0 .. n - 1 : \E l \in 0 .. n - 1 : a[k] = b[l]
      /\ \A k \in n .. 29 : b[k] = a[k]
    BY DEF Swept, Rearranged
<1>2. \A k, l \in 0 .. n - 1 : k < i /\ k < l => Level[b[k]] <= Level[b[l]]
    BY DEF Swept, SettledBelow
<1>3. \A l \in i .. j - 1 : Level[b[i]] <= Level[b[l]]
    BY DEF Swept
<1>4. \A x \in Queueable : Level[x] \in Int
    BY TablesOk DEF Queueable
<1>5. i \in 0 .. 29 /\ j \in 0 .. 29 /\ j \in 0 .. n - 1 /\ i < j
    OBVIOUS
<1>6. CASE Level[b[i]] > Level[b[j]]
    <2>1. d = [b EXCEPT ![i] = b[j], ![j] = b[i]]
        BY <1>6 DEF Exchange
    <2>2. /\ d \in Slots /\ d[i] = b[j] /\ d[j] = b[i]
          /\ \A k \in 0 .. 29 : k # i /\ k # j => d[k] = b[k]
        <3>1. DOMAIN b = 0 .. 29 /\ b[i] \in Source \cup {None}
              /\ b[j] \in Source \cup {None}
            BY <1>1, <1>5 DEF Slots
        <3>2. d \in Slots
            BY <1>1, <2>1, <3>1 DEF Slots
        <3> QED
            BY <1>5, <2>1, <3>1, <3>2
    <2> HIDE DEF d
    <2>3. \A k \in 0 .. n - 1 : k \in 0 .. 29
        OBVIOUS
    <2>4. \A k \in 0 .. n - 1 : d[k] \in Queueable
        BY <1>1, <1>5, <2>2, <2>3
    <2>5. \A k, l \in 0 .. n - 1 : d[k] = d[l] => k = l
        <3> SUFFICES ASSUME NEW k \in 0 .. n - 1, NEW l \in 0 .. n - 1, d[k] = d[l]
                     PROVE  k = l
            OBVIOUS
        <3>1. k \in 0 .. 29 /\ l \in 0 .. 29 /\ i \in 0 .. n - 1
            OBVIOUS
        <3>2. \A p, q \in 0 .. n - 1 : b[p] = b[q] => p = q
            BY <1>1
        <3>3. d[k] = IF k = i THEN b[j] ELSE IF k = j THEN b[i] ELSE b[k]
            BY <1>5, <2>2, <3>1
        <3>4. d[l] = IF l = i THEN b[j] ELSE IF l = j THEN b[i] ELSE b[l]
            BY <1>5, <2>2, <3>1
        <3> QED
            BY <1>5, <3>1, <3>2, <3>3, <3>4
    <2>6. \A k \in 0 .. n - 1 : \E l \in 0 .. n - 1 : d[k] = b[l]
        BY <1>5, <2>2, <2>3
    <2>7. \A k \in 0 .. n - 1 : \E l \in 0 .. n - 1 : b[k] = d[l]
        BY <1>5, <2>2, <2>3
    <2>8. \A k \in n .. 29 : d[k] = a[k]
        <3> SUFFICES ASSUME NEW k \in n .. 29 PROVE d[k] = a[k]
            OBVIOUS
        <3>1. k \in 0 .. 29 /\ k # i /\ k # j
            BY <1>5
        <3> QED
            BY <1>1, <2>2, <3>1
    <2>9. \A k \in 0 .. n - 1 : \E l \in 0 .. n - 1 : d[k] = a[l]
        <3>1. \A k \in 0 .. n - 1 : \E l \in 0 .. n - 1 : b[k] = a[l]
            BY <1>1
        <3> QED
            BY <2>6, <3>1
    <2>10. \A k \in 0 .. n - 1 : \E l \in 0 .. n - 1 : a[k] = d[l]
        <3>1. \A k \in 0 .. n - 1 : \E l \in 0 .. n - 1 : a[k] = b[l]
            BY <1>1
        <3> QED
            BY <2>7, <3>1
    <2>11. Rearranged(a, d, n)
        BY <2>2, <2>4, <2>5, <2>8, <2>9, <2>10 DEF Rearranged
    <2>12. SettledBelow(d, n, i)
        <3> SUFFICES ASSUME NEW k \in 0 .. n - 1, NEW l \in 0 .. n - 1, k < i, k < l
                     PROVE  Level[d[k]] <= Level[d[l]]
            BY DEF SettledBelow
        <3>1. d[k] = b[k]
            BY <1>5, <2>2, <2>3
        <3>2. \E m \in 0 .. n - 1 : k < m /\ d[l] = b[m]
            BY <1>5, <2>2, <2>3
        <3> QED
            BY <1>2, <3>1, <3>2
    <2>13. ASSUME NEW l \in i .. j PROVE Level[d[i]] <= Level[d[l]]
        <3>1. l \in 0 .. n - 1 /\ l \in 0 .. 29
            BY <1>5
        <3>2. b[l] \in Queueable /\ b[i] \in Queueable /\ b[j] \in Queueable
            BY <1>1, <1>5, <3>1
        <3>3. Level[b[l]] \in Int /\ Level[b[i]] \in Int /\ Level[b[j]] \in Int
            BY <1>4, <3>2
        <3>4. l = i \/ l = j \/ (l \in i .. j - 1 /\ l # i /\ l # j)
            BY <1>5
        <3> QED
            BY <1>3, <1>6, <2>2, <3>1, <3>3, <3>4
    <2> QED
        BY <2>11, <2>12, <2>13 DEF Swept, d
<1>7. CASE ~ (Level[b[i]] > Level[b[j]])
    <2>1. d = b
        BY <1>7 DEF Exchange
    <2>2. Level[b[i]] <= Level[b[j]]
        BY <1>1, <1>4, <1>5, <1>7
    <2>3. \A l \in i .. j : l = j \/ l \in i .. j - 1
        BY <1>5
    <2> HIDE DEF d
    <2> QED
        BY <1>3, <2>1, <2>2, <2>3 DEF Swept, d
<1> QED
    BY <1>6, <1>7

(* The inner loop is a walk through the slots behind i.                    *)
LEMMA SlotWalk ==
    ASSUME NEW n \in 1 .. 30, NEW a \in Slots, NEW i \in 0 .. n - 1
    PROVE  \E w : /\ SortSlot(a, i, n) = w[n - 1] /\ w[i] = a
                  /\ \A j \in i + 1 .. n - 1 : w[j] = Exchange(w[j - 1], i, j)
<1> DEFINE N == n - 1 - i
           G == [p \in Slots \X (1 .. N) |-> Exchange(p[1], i, i + p[2])]
           f == CHOOSE w : w = [j \in i .. n - 1 |->
                                  IF j = i THEN a ELSE Exchange(w[j - 1], i, j)]
<1>1. SortSlot(a, i, n) = f[n - 1]
    BY DEF SortSlot
<1>2. N \in Nat /\ n - 1 = i + N /\ i \in 0 .. 29
    OBVIOUS
<1>3. \A b \in Slots, k \in 1 .. N : Exchange(b, i, i + k) \in Slots
    <2>1. \A k \in 1 .. N : i + k \in 0 .. 29
        OBVIOUS
    <2> QED
        BY <1>2, <2>1 DEF Exchange, Slots
<1> HIDE DEF N
<1>4. G \in StepsOn(N, Slots)
    BY <1>3 DEF StepsOn
<1>5. \A b \in Slots, k \in 1 .. N : G[<<b, k>>] = Exchange(b, i, i + k)
    OBVIOUS
<1> HIDE DEF G
<1>6. PICK g : Goes(g, N, Slots, a, G)
    BY <1>2, <1>4, Recursion
<1>7. /\ g \in [0 .. N -> Slots] /\ g[0] = a
      /\ \A k \in 1 .. N : g[k] = G[<<g[k - 1], k>>]
    BY <1>6 DEF Goes
<1>8. ASSUME NEW k \in 1 .. N PROVE g[k] = Exchange(g[k - 1], i, i + k)
    <2>1. g[k - 1] \in Slots
        BY <1>2, <1>7
    <2> QED
        BY <1>5, <1>7, <2>1
<1> DEFINE h == [j \in i .. n - 1 |-> g[j - i]]
<1>9. ASSUME NEW j \in i .. n - 1
      PROVE  h[j] = IF j = i THEN a ELSE Exchange(h[j - 1], i, j)
    <2>1. CASE j = i
        BY <1>2, <1>7, <2>1
    <2>2. CASE j # i
        <3>1. j - i \in 1 .. N /\ i + (j - i) = j /\ j - 1 \in i .. n - 1
              /\ (j - 1) - i = (j - i) - 1
            BY <1>2, <2>2
        <3>2. h[j] = g[j - i] /\ h[j - 1] = g[(j - i) - 1]
            BY <3>1
        <3>3. g[j - i] = Exchange(g[(j - i) - 1], i, i + (j - i))
            BY <1>8, <3>1
        <3> HIDE DEF h
        <3> QED
            BY <2>2, <3>1, <3>2, <3>3
    <2> QED
        BY <2>1, <2>2
<1>10. h = [j \in i .. n - 1 |-> IF j = i THEN a ELSE Exchange(h[j - 1], i, j)]
    <2>1. h = [j \in i .. n - 1 |-> h[j]]
        OBVIOUS
    <2> HIDE DEF h
    <2> QED
        BY <1>9, <2>1
<1> HIDE DEF h
<1>11. f = [j \in i .. n - 1 |-> IF j = i THEN a ELSE Exchange(f[j - 1], i, j)]
    BY <1>10
<1> HIDE DEF f
<1>12. f[i] = a
    BY <1>11
<1>13. \A j \in i + 1 .. n - 1 : f[j] = Exchange(f[j - 1], i, j)
    <2>1. \A j \in i + 1 .. n - 1 : j \in i .. n - 1 /\ j # i
        OBVIOUS
    <2> QED
        BY <1>11, <2>1
<1> QED
    BY <1>1, <1>12, <1>13

(* The inner loop keeps the shape of the array.                            *)
LEMMA SortSlotInSlots ==
    ASSUME NEW n \in 1 .. 30, NEW a \in Slots, NEW i \in 0 .. n - 1
    PROVE  SortSlot(a, i, n) \in Slots
<1>1. PICK w : /\ SortSlot(a, i, n) = w[n - 1] /\ w[i] = a
               /\ \A j \in i + 1 .. n - 1 : w[j] = Exchange(w[j - 1], i, j)
    BY SlotWalk
<1> DEFINE N == n - 1 - i
           T == {k \in 0 .. N : w[i + k] \in Slots}
<1>2. N \in Nat /\ i + N = n - 1 /\ i + 0 = i
    OBVIOUS
<1>3. 0 \in T
    BY <1>1, <1>2
<1>4. ASSUME NEW k \in 1 .. N, k - 1 \in T PROVE k \in T
    <2> DEFINE j == i + k
    <2>1. /\ j \in i + 1 .. n - 1 /\ i + (k - 1) = j - 1 /\ k \in 0 .. N
          /\ j \in 0 .. 29 /\ i \in 0 .. 29
        BY <1>2
    <2>2. w[j - 1] \in Slots /\ w[j] = Exchange(w[j - 1], i, j)
        BY <1>1, <1>4, <2>1
    <2> HIDE DEF j
    <2>3. w[j] \in Slots
        BY <2>1, <2>2 DEF Exchange, Slots
    <2> QED
        BY <2>1, <2>3 DEF j
<1> HIDE DEF T
<1>5. N \in T
    <2>1. \A k \in 1 .. N : k - 1 \in T => k \in T
        BY <1>4
    <2> HIDE DEF N
    <2>2. \A k \in 0 .. N : k \in T
        BY <1>2, <1>3, <2>1, Upwards
    <2> QED
        BY <1>2, <2>2
<1> QED
    BY <1>1, <1>2, <1>5 DEF T

(* One turn of the outer loop settles one more slot.                       *)
LEMMA SortSlotSettles ==
    ASSUME NEW n \in 1 .. 30, NEW a, NEW b, NEW i \in 0 .. n - 1,
           Rearranged(a, b, n), SettledBelow(b, n, i)
    PROVE  /\ Rearranged(a, SortSlot(b, i, n), n)
           /\ SettledBelow(SortSlot(b, i, n), n, i + 1)
<1>1. b \in Slots
    BY DEF Rearranged
<1>2. PICK w : /\ SortSlot(b, i, n) = w[n - 1] /\ w[i] = b
               /\ \A j \in i + 1 .. n - 1 : w[j] = Exchange(w[j - 1], i, j)
    BY <1>1, SlotWalk
<1> DEFINE N == n - 1 - i
           T == {k \in 0 .. N : Swept(a, w[i + k], n, i, i + k)}
<1>3. N \in Nat /\ i + N = n - 1 /\ i + 0 = i
    OBVIOUS
<1>4. 0 \in T
    <2>1. b[i] \in Queueable
        BY DEF Rearranged
    <2>2. Level[b[i]] <= Level[b[i]]
        BY <2>1, TablesOk DEF Queueable
    <2>3. \A l \in i .. i : l = i
        OBVIOUS
    <2>4. Swept(a, b, n, i, i)
        BY <2>2, <2>3 DEF Swept
    <2> QED
        BY <1>2, <1>3, <2>4
<1>5. ASSUME NEW k \in 1 .. N, k - 1 \in T PROVE k \in T
    <2> DEFINE j == i + k
    <2>1. j \in i + 1 .. n - 1 /\ i + (k - 1) = j - 1 /\ k \in 0 .. N
        BY <1>3
    <2>2. Swept(a, w[j - 1], n, i, j - 1)
        BY <1>5, <2>1
    <2>3. w[j] = Exchange(w[j - 1], i, j)
        BY <1>2, <2>1
    <2> HIDE DEF j
    <2>4. Swept(a, w[j], n, i, j)
        BY <2>1, <2>2, <2>3, ExchangeSweeps
    <2> QED
        BY <2>1, <2>4 DEF j
<1> HIDE DEF T
<1>6. \A k \in 0 .. N : k \in T
    <2> HIDE DEF N
    <2> QED
        BY <1>3, <1>4, <1>5, Upwards
<1>7. N \in T
    <2> HIDE DEF N
    <2> QED
        BY <1>3, <1>6
<1>8. Swept(a, w[n - 1], n, i, n - 1)
    BY <1>3, <1>7 DEF T
<1> DEFINE d == w[n - 1]
<1>9. SettledBelow(d, n, i + 1)
    <2> HIDE DEF d
    <2> SUFFICES ASSUME NEW k \in 0 .. n - 1, NEW l \in 0 .. n - 1,
                        k < i + 1, k < l
                 PROVE  Level[d[k]] <= Level[d[l]]
        BY DEF SettledBelow
    <2>1. k < i \/ (k = i /\ l \in i .. n - 1)
        OBVIOUS
    <2> QED
        BY <1>8, <2>1 DEF Swept, SettledBelow, d
<1> QED
    BY <1>2, <1>8, <1>9 DEF Swept

(* The outer loop is a walk through the turns.                             *)
LEMMA TurnWalk ==
    ASSUME NEW n \in 1 .. 30, NEW a \in Slots
    PROVE  \E w : /\ ExchangeSort(a, n) = w[n - 1] /\ w[0] = a
                  /\ \A i \in 1 .. n - 1 : w[i] = SortSlot(w[i - 1], i - 1, n)
<1> DEFINE N == n - 1
           G == [p \in Slots \X (1 .. N) |-> SortSlot(p[1], p[2] - 1, n)]
           f == CHOOSE w : w = [i \in 0 .. n - 1 |->
                                  IF i = 0 THEN a ELSE SortSlot(w[i - 1], i - 1, n)]
<1>1. ExchangeSort(a, n) = f[n - 1]
    BY DEF ExchangeSort
<1>2. N \in Nat
    OBVIOUS
<1>3. ASSUME NEW b \in Slots, NEW k \in 1 .. N PROVE SortSlot(b, k - 1, n) \in Slots
    BY <1>3, SortSlotInSlots
<1>4. /\ G \in StepsOn(N, Slots)
      /\ \A b \in Slots, k \in 1 .. N : G[<<b, k>>] = SortSlot(b, k - 1, n)
    <2> HIDE DEF N
    <2> QED
        BY <1>3 DEF StepsOn
<1> HIDE DEF G
<1>5. PICK g : Goes(g, N, Slots, a, G)
    <2> HIDE DEF N
    <2> QED
        BY <1>2, <1>4, Recursion
<1>6. /\ g \in [0 .. N -> Slots] /\ g[0] = a
      /\ \A k \in 1 .. N : g[k] = G[<<g[k - 1], k>>]
    BY <1>5 DEF Goes
<1>7. ASSUME NEW k \in 1 .. N PROVE g[k] = SortSlot(g[k - 1], k - 1, n)
    <2>1. g[k - 1] \in Slots
        BY <1>2, <1>6
    <2> QED
        BY <1>4, <1>6, <2>1
<1>8. ASSUME NEW i \in 0 .. n - 1
      PROVE  g[i] = IF i = 0 THEN a ELSE SortSlot(g[i - 1], i - 1, n)
    <2>1. i = 0 \/ i \in 1 .. N
        OBVIOUS
    <2> QED
        BY <1>6, <1>7, <2>1
<1>9. g = [i \in 0 .. n - 1 |-> IF i = 0 THEN a ELSE SortSlot(g[i - 1], i - 1, n)]
    BY <1>6, <1>8
<1>10. f = [i \in 0 .. n - 1 |-> IF i = 0 THEN a ELSE SortSlot(f[i - 1], i - 1, n)]
    BY <1>9
<1> HIDE DEF f
<1>11. f[0] = a /\ \A i \in 1 .. n - 1 : f[i] = SortSlot(f[i - 1], i - 1, n)
    BY <1>10
<1> QED
    BY <1>1, <1>11

(* ScuQueueInterrupt's exchange sort puts any live part of different       *)
(* sources in ascending order of level, loses and doubles none of them and *)
(* leaves the slots above alone.                                           *)
THEOREM ExchangeSortSorts ==
    ASSUME NEW n \in 1 .. 30, NEW a \in Slots,
           \A k \in 0 .. n - 1 : a[k] \in Queueable,
           \A k, l \in 0 .. n - 1 : a[k] = a[l] => k = l
    PROVE  /\ ExchangeSort(a, n) \in Slots
           /\ Ascending(ExchangeSort(a, n), n)
           /\ Entries(ExchangeSort(a, n), n) = Entries(a, n)
           /\ \A k \in n .. 29 : ExchangeSort(a, n)[k] = a[k]
<1>1. PICK w : /\ ExchangeSort(a, n) = w[n - 1] /\ w[0] = a
               /\ \A i \in 1 .. n - 1 : w[i] = SortSlot(w[i - 1], i - 1, n)
    BY TurnWalk
<1> DEFINE N == n - 1
           T == {i \in 0 .. N : Rearranged(a, w[i], n) /\ SettledBelow(w[i], n, i)}
<1>2. N \in Nat
    OBVIOUS
<1>3. 0 \in T
    <2>1. Rearranged(a, a, n)
        BY DEF Rearranged
    <2>2. SettledBelow(a, n, 0)
        BY DEF SettledBelow
    <2> QED
        BY <1>1, <1>2, <2>1, <2>2
<1>4. ASSUME NEW i \in 1 .. N, i - 1 \in T PROVE i \in T
    <2> DEFINE j == i - 1
               b == w[j]
    <2>1. /\ j \in 0 .. n - 1 /\ j + 1 = i /\ i \in 0 .. N
          /\ w[i] = SortSlot(b, j, n)
        BY <1>1
    <2>2. Rearranged(a, b, n) /\ SettledBelow(b, n, j)
        BY <1>4
    <2> HIDE DEF j, b
    <2>3. /\ Rearranged(a, SortSlot(b, j, n), n)
          /\ SettledBelow(SortSlot(b, j, n), n, j + 1)
        BY <2>1, <2>2, SortSlotSettles
    <2> QED
        BY <2>1, <2>3
<1> HIDE DEF T
<1>5. N \in T
    <2>1. \A i \in 1 .. N : i - 1 \in T => i \in T
        BY <1>4
    <2> HIDE DEF N
    <2>2. \A i \in 0 .. N : i \in T
        BY <1>2, <1>3, <2>1, Upwards
    <2> QED
        BY <1>2, <2>2
<1> DEFINE d == ExchangeSort(a, n)
<1>6. Rearranged(a, d, n) /\ SettledBelow(d, n, n - 1)
    BY <1>1, <1>5 DEF T
<1> HIDE DEF d
<1>7. \A k, l \in 0 .. n - 1 : k < l => Level[d[k]] <= Level[d[l]]
    BY <1>6 DEF SettledBelow
<1>8. Ascending(d, n)
    BY <1>6, <1>7 DEF Rearranged, Ascending
<1>9. Entries(d, n) = Entries(a, n)
    <2>1. \A k \in 0 .. n - 1 : \E l \in 0 .. n - 1 : d[k] = a[l]
        BY <1>6 DEF Rearranged
    <2>2. \A k \in 0 .. n - 1 : \E l \in 0 .. n - 1 : a[k] = d[l]
        BY <1>6 DEF Rearranged
    <2> QED
        BY <2>1, <2>2 DEF Entries
<1> QED
    BY <1>6, <1>8, <1>9 DEF d, Rearranged

(* A source that is not queued yet is queued in its place.                 *)
LEMMA AppendAndSortOk ==
    ASSUME NEW c, IrqOk(c), NEW s \in Queueable, s \notin Queued(c)
    PROVE  /\ Keeps(c, AppendAndSort(c, s), {s})
           /\ Queued(AppendAndSort(c, s)) = Queued(c) \cup {s}
<1> DEFINE a == c.interrupts
           n == c.number
           longer == [a EXCEPT ![n] = s]
           m == n + 1
           b == ExchangeSort(longer, m)
<1>1. /\ a \in Slots /\ n \in 0 .. 14 /\ Ascending(a, n)
      /\ Queued(c) = Entries(a, n)
    BY QueueParts, RoomInQueue
<1>2. AppendAndSort(c, s) = WithQueue(c, b, m)
    BY ControllerParts DEF AppendAndSort, Controller, WithQueue
<1> HIDE DEF a, n
<1>3. m \in 1 .. 30 /\ m \in 0 .. 30 /\ 0 .. m - 1 = 0 .. n /\ n \in 0 .. 29
    BY <1>1
<1>4. /\ longer \in Slots /\ longer[n] = s
      /\ \A k \in 0 .. n - 1 : longer[k] = a[k]
    <2>1. s \in Source
        BY DEF Queueable
    <2> QED
        BY <1>1, <1>3, <2>1 DEF Slots
<1> HIDE DEF longer, m
<1>5. \A k \in 0 .. m - 1 : k = n \/ k \in 0 .. n - 1
    BY <1>1, <1>3
<1>6. \A k \in 0 .. n - 1 : a[k] \in Queueable /\ a[k] # s
    BY <1>1 DEF Ascending, Entries
<1>7. \A k \in 0 .. m - 1 : longer[k] \in Queueable
    BY <1>4, <1>5, <1>6
<1>8. \A k, l \in 0 .. m - 1 : longer[k] = longer[l] => k = l
    BY <1>1, <1>4, <1>5, <1>6 DEF Ascending
<1>9. b \in Slots /\ Ascending(b, m) /\ Entries(b, m) = Entries(longer, m)
    BY <1>3, <1>4, <1>7, <1>8, ExchangeSortSorts
<1>10. Entries(longer, m) = Entries(a, n) \cup {s}
    <2>1. \A k \in 0 .. m - 1 : longer[k] \in Entries(a, n) \cup {s}
        BY <1>4, <1>5 DEF Entries
    <2>2. \A k \in 0 .. n - 1 : k \in 0 .. m - 1
        BY <1>3
    <2>3. \A k \in 0 .. n - 1 : a[k] \in Entries(longer, m)
        BY <1>4, <2>2 DEF Entries
    <2>4. s \in Entries(longer, m)
        BY <1>1, <1>3, <1>4 DEF Entries
    <2> QED
        BY <2>1, <2>3, <2>4 DEF Entries
<1> HIDE DEF b
<1>11. Entries(b, m) = Queued(c) \cup {s}
    BY <1>1, <1>9, <1>10
<1>12. Queued(WithQueue(c, b, m)) = Entries(b, m)
    BY ControllerParts DEF WithQueue, Queued, Entries, Live, Controller
<1> QED
    BY <1>2, <1>3, <1>9, <1>11, <1>12, WithQueueOk

(* ScuQueueInterrupt, which drops a source already queued.                 *)
LEMMA QueueInterruptOk ==
    ASSUME NEW c, IrqOk(c), NEW s \in Queueable
    PROVE  Keeps(c, QueueInterrupt(c, s), {s})
BY AppendAndSortOk DEF QueueInterrupt, Keeps

-----------------------------------------------------------------------------
(* SendInterrupt, for the A-bus and for the other sources.                 *)
LEMMA SendABusOk ==
    ASSUME NEW c, IrqOk(c), NEW s \in Source
    PROVE  Keeps(c, SendABus(c, s), {})
<1> DEFINE d == [c EXCEPT !.aiack = FALSE]
<1>1. Keeps(c, d, {})
    BY RegistersOk
<1> HIDE DEF d
<1>2. IrqOk(d)
    BY <1>1 DEF Keeps
<1>3. Keeps(d, Present(d, s), {})
    BY <1>2, PresentOk
<1>4. Keeps(c, Present(d, s), {})
    BY <1>1, <1>3 DEF Keeps
<1>5. Keeps(c, c, {})
    BY DEF Keeps
<1> QED
    BY <1>1, <1>4, <1>5, ControllerParts DEF SendABus, d

(* SendInterrupt, whatever the source and the mask.                        *)
LEMMA SendInterruptOk ==
    ASSUME NEW c, IrqOk(c), NEW s \in Source
    PROVE  Keeps(c, SendInterrupt(c, s), {s})
<1>1. CASE s \in ABus
    <2>1. Keeps(c, SendABus(c, s), {})
        BY SendABusOk
    <2>2. SendInterrupt(c, s) = SendABus(c, s)
        BY <1>1 DEF SendInterrupt
    <2> QED
        BY <2>1, <2>2 DEF Keeps
<1>2. CASE s \notin ABus /\ s \notin c.ims
    <2> DEFINE x == c.ist \cup {s}
               d == [c EXCEPT !.ist = x]
    <2>1. x \in SUBSET Queueable
        BY <1>2, ControllerParts DEF Queueable
    <2>2. SendInterrupt(c, s) = Present(d, s)
        BY <1>2 DEF SendInterrupt
    <2> HIDE DEF x
    <2>3. Keeps(c, d, {})
        BY <2>1, RegistersOk
    <2> HIDE DEF d
    <2>4. IrqOk(d)
        BY <2>3 DEF Keeps
    <2>5. Keeps(d, Present(d, s), {})
        BY <2>4, PresentOk
    <2> QED
        BY <2>2, <2>3, <2>5 DEF Keeps
<1>3. CASE s \notin ABus /\ s \in c.ims
    <2> DEFINE d == QueueInterrupt(c, s)
               x == d.ist \cup {s}
               y == c.ist \cup {s}
    <2>1. s \in Queueable
        BY <1>3 DEF Queueable
    <2>2. Keeps(c, d, {s})
        BY <2>1, QueueInterruptOk
    <2>3. d.ist = c.ist
        BY ControllerParts DEF QueueInterrupt, AppendAndSort, Controller
    <2>4. y \in SUBSET Queueable
        BY <2>1, ControllerParts
    <2>5. SendInterrupt(c, s) = [d EXCEPT !.ist = y]
        BY <1>3, <2>3 DEF SendInterrupt
    <2> HIDE DEF d, y
    <2>6. IrqOk(d)
        BY <2>2 DEF Keeps
    <2>7. Keeps(d, [d EXCEPT !.ist = y], {})
        BY <2>4, <2>6, RegistersOk
    <2> QED
        BY <2>2, <2>5, <2>7 DEF Keeps
<1> QED
    BY <1>1, <1>2, <1>3

(* ScuRemoveInterrupt: what a device withdraws is gone from the queue.     *)
LEMMA RemoveInterruptOk ==
    ASSUME NEW c, IrqOk(c), NEW s \in Source
    PROVE  /\ Keeps(c, RemoveInterrupt(c, s), {})
           /\ s \notin Queued(RemoveInterrupt(c, s))
<1> DEFINE x == c.ist \ {s}
           d == [c EXCEPT !.ist = x]
<1>1. x \in SUBSET Queueable
    BY ControllerParts
<1>2. /\ ClearStatus(c, s) = d
      /\ d.interrupts = c.interrupts /\ d.number = c.number
    BY ControllerParts DEF ClearStatus, Controller
<1> HIDE DEF x
<1>3. Keeps(c, d, {})
    BY <1>1, RegistersOk
<1> HIDE DEF d
<1>4. IrqOk(d) /\ Live(d) = Live(c) /\ Queued(d) = Queued(c)
    BY <1>2, <1>3 DEF Keeps, Live, Queued
<1>5. CASE s \in Queued(c)
    <2> DEFINE k == CHOOSE l \in Live(c) : c.interrupts[l] = s
    <2>1. k \in Live(c) /\ c.interrupts[k] = s
        BY <1>5 DEF Queued
    <2>2. RemoveInterrupt(c, s) = RemoveSlot(d, k)
        BY <1>2, <1>5 DEF RemoveInterrupt
    <2> HIDE DEF k
    <2>3. /\ Keeps(d, RemoveSlot(d, k), {})
          /\ d.interrupts[k] \notin Queued(RemoveSlot(d, k))
        BY <1>4, <2>1, RemoveSlotOk
    <2> QED
        BY <1>2, <1>3, <2>1, <2>2, <2>3 DEF Keeps
<1>6. CASE s \notin Queued(c)
    BY <1>2, <1>3, <1>4, <1>6 DEF RemoveInterrupt
<1> QED
    BY <1>5, <1>6

-----------------------------------------------------------------------------
(* A set of small numbers has a maximum.  Doubling the width of the range  *)
(* takes the place of an induction.                                        *)
HasMax(T) == \E m \in T : \A y \in T : m >= y

HasMaxUpTo(w) ==
    \A a \in Int : \A T \in SUBSET (a .. a + w - 1) : T # {} => HasMax(T)

(* If every set within w numbers has a maximum, so has every set within    *)
(* twice as many.                                                          *)
LEMMA MaxOfWider ==
    ASSUME NEW w \in Nat, HasMaxUpTo(w)
    PROVE  HasMaxUpTo(w + w)
<1> SUFFICES ASSUME NEW a \in Int,
                    NEW T \in SUBSET (a .. a + (w + w) - 1), T # {}
             PROVE  HasMax(T)
    BY DEF HasMaxUpTo
<1> DEFINE b == a + w
           H == T \cap (b .. b + w - 1)
<1>1. b \in Int /\ \A y \in T : y \in Int /\ (y \in H \/ y < b)
    OBVIOUS
<1>2. \A y \in H : y >= b
    OBVIOUS
<1>3. H \in SUBSET (b .. b + w - 1) /\ H \subseteq T
    OBVIOUS
<1>4. CASE H = {}
    <2>1. T \in SUBSET (a .. a + w - 1)
        BY <1>1, <1>4
    <2> QED
        BY <2>1 DEF HasMaxUpTo
<1>5. CASE H # {}
    <2> HIDE DEF b, H
    <2>1. HasMax(H)
        BY <1>1, <1>3, <1>5 DEF HasMaxUpTo
    <2> QED
        BY <1>1, <1>2, <1>3, <2>1 DEF HasMax
<1> QED
    BY <1>4, <1>5

(* Hence a set of bit numbers has one, which Max is.                       *)
LEMMA MaxExists ==
    ASSUME NEW T \in SUBSET (0 .. 31), T # {}
    PROVE  Max(T) \in T /\ \A y \in T : Max(T) >= y
<1>1. HasMaxUpTo(1)
    <2> SUFFICES ASSUME NEW a \in Int, NEW S \in SUBSET (a .. a + 1 - 1),
                        S # {}
                 PROVE  HasMax(S)
        BY DEF HasMaxUpTo
    <2>1. \A y \in S : y = a
        OBVIOUS
    <2>2. a \in S
        BY <2>1
    <2>3. a >= a
        OBVIOUS
    <2> QED
        BY <2>1, <2>2, <2>3 DEF HasMax
<1>2. HasMaxUpTo(2)
    BY <1>1, MaxOfWider, 1 + 1 = 2
<1>3. HasMaxUpTo(4)
    BY <1>2, MaxOfWider, 2 + 2 = 4
<1>4. HasMaxUpTo(8)
    BY <1>3, MaxOfWider, 4 + 4 = 8
<1>5. HasMaxUpTo(16)
    BY <1>4, MaxOfWider, 8 + 8 = 16
<1>6. HasMaxUpTo(32)
    BY <1>5, MaxOfWider, 16 + 16 = 32
<1>7. T \in SUBSET (0 .. 0 + 32 - 1)
    OBVIOUS
<1>8. HasMax(T)
    BY <1>6, <1>7 DEF HasMaxUpTo
<1> QED
    BY <1>8 DEF HasMax, Max

(* ScuTestInterruptMask.                                                   *)
LEMMA TestInterruptMaskOk ==
    ASSUME NEW c, IrqOk(c)
    PROVE  Keeps(c, TestInterruptMask(c), {})
<1>1. CASE Presentable(c) = {}
    BY <1>1 DEF TestInterruptMask, Keeps
<1>2. CASE Presentable(c) # {}
    <2> DEFINE k == FirstPresentable(c)
               s == c.interrupts[k]
               d == Present(c, s)
               x == d.ist \ {s}
               e == [d EXCEPT !.ist = x]
    <2>1. Presentable(c) \in SUBSET (0 .. 31)
        <3>1. Live(c) \in SUBSET (0 .. 31)
            <4> DEFINE n == c.number
            <4>1. n \in 0 .. 30 /\ Live(c) = 0 .. n - 1
                BY QueueParts
            <4> HIDE DEF n
            <4> QED
                BY <4>1
        <3> QED
            BY <3>1 DEF Presentable
    <2>2. k \in Live(c)
        BY <1>2, <2>1, MaxExists DEF FirstPresentable, Presentable
    <2>3. s \in Queueable
        BY <2>2, ControllerParts DEF ScuQueueOk
    <2>4. TestInterruptMask(c) = RemoveSlot(e, k)
        BY <1>2 DEF TestInterruptMask, ClearStatus
    <2> HIDE DEF k, s
    <2>5. Keeps(c, d, {}) /\ d.number = c.number
        BY <2>3, PresentOk DEF Queueable
    <2> HIDE DEF d
    <2>6. IrqOk(d)
        BY <2>5 DEF Keeps
    <2>7. x \in SUBSET Queueable
        BY <2>6, ControllerParts
    <2>8. e.number = d.number
        BY <2>6, ControllerParts DEF Controller
    <2> HIDE DEF x
    <2>9. Keeps(d, e, {})
        BY <2>6, <2>7, RegistersOk
    <2> HIDE DEF e
    <2>10. IrqOk(e)
        BY <2>9 DEF Keeps
    <2>11. k \in Live(e)
        BY <2>2, <2>5, <2>8 DEF Live
    <2>12. Keeps(e, RemoveSlot(e, k), {})
        BY <2>10, <2>11, RemoveSlotOk
    <2> QED
        BY <2>4, <2>5, <2>9, <2>12 DEF Keeps
<1> QED
    BY <1>1, <1>2

(* ScuRemoveInterruptByCPU, its turns one after the other.                 *)
LEMMA RemoveBitEmpty ==
    ASSUME NEW d, NEW s, NEW cleared, ~(d.number > 0)
    PROVE  RemoveBit(d, s, cleared) = d
BY Zenon DEF RemoveBit

(* RemoveBit does nothing or removes the entry of slot 0.                  *)
LEMMA RemoveBitCases ==
    ASSUME NEW d, NEW s, NEW cleared
    PROVE  RemoveBit(d, s, cleared) \in {d, RemoveSlot(ClearStatus(d, s), 0)}
BY Zenon DEF RemoveBit

(* It keeps the controller orderly in both cases.                          *)
LEMMA RemoveBitOk ==
    ASSUME NEW c, NEW d, Keeps(c, d, {}), NEW s, NEW cleared
    PROVE  Keeps(c, RemoveBit(d, s, cleared), {})
<1> DEFINE x == d.ist \ {s}
           e == [d EXCEPT !.ist = x]
<1>1. IrqOk(d)
    BY DEF Keeps
<1>2. x \in SUBSET Queueable
    BY <1>1, ControllerParts
<1>3. e.number = d.number /\ ClearStatus(d, s) = e
    BY <1>1, ControllerParts DEF Controller, ClearStatus
<1> HIDE DEF x
<1>4. Keeps(d, e, {})
    BY <1>1, <1>2, RegistersOk
<1> HIDE DEF e
<1>5. IrqOk(e)
    BY <1>4 DEF Keeps
<1>6. CASE d.number > 0
    <2> DEFINE n == d.number
    <2>1. n \in 0 .. 30 /\ Live(e) = 0 .. n - 1
        BY <1>1, <1>3, QueueParts DEF Live
    <2>2. n > 0
        BY <1>6
    <2> HIDE DEF n
    <2>3. 0 \in Live(e)
        BY <2>1, <2>2
    <2>4. Keeps(e, RemoveSlot(e, 0), {})
        BY <1>5, <2>3, RemoveSlotOk
    <2>5. Keeps(c, RemoveSlot(e, 0), {})
        BY <1>4, <2>4, Zenon DEF Keeps
    <2> QED
        BY <1>3, <2>5, RemoveBitCases
<1>7. CASE ~(d.number > 0)
    BY <1>7, RemoveBitEmpty
<1> QED
    BY <1>6, <1>7

(* ScuRemoveInterruptByCPU as a whole.                                     *)
LEMMA RemoveInterruptByCPUOk ==
    ASSUME NEW c, IrqOk(c), NEW cleared
    PROVE  Keeps(c, RemoveInterruptByCPU(c, cleared), {})
<1>1. Keeps(c, c, {})
    BY DEF Keeps
<1>2. ASSUME NEW d, Keeps(c, d, {})
      PROVE  /\ Keeps(c, RemoveBlankings(d, cleared), {})
             /\ Keeps(c, RemoveTimers(d, cleared), {})
             /\ Keeps(c, RemoveParts(d, cleared), {})
             /\ Keeps(c, RemoveDmaEnds(d, cleared), {})
             /\ Keeps(c, RemoveBit(d, "DrawEnd", cleared), {})
    BY <1>2, RemoveBitOk
    DEF RemoveBlankings, RemoveTimers, RemoveParts, RemoveDmaEnds
<1> QED
    BY <1>1, <1>2 DEF RemoveInterruptByCPU

(* The registers the program writes.                                       *)
LEMMA WritesOk ==
    ASSUME NEW c, IrqOk(c)
    PROVE  /\ \A masked \in SUBSET Source : Keeps(c, WriteIMS(c, masked), {})
           /\ \A kept : Keeps(c, WriteIST(c, kept), {})
           /\ \A on \in BOOLEAN : Keeps(c, WriteAIACK(c, on), {})
<1>1. ASSUME NEW masked \in SUBSET Source
      PROVE  Keeps(c, WriteIMS(c, masked), {})
    <2> DEFINE d == [c EXCEPT !.ims = masked]
    <2>1. Keeps(c, d, {})
        BY RegistersOk
    <2> HIDE DEF d
    <2>2. Keeps(d, TestInterruptMask(d), {})
        BY <2>1, TestInterruptMaskOk DEF Keeps
    <2> QED
        BY <2>1, <2>2 DEF WriteIMS, d, Keeps
<1>2. ASSUME NEW on \in BOOLEAN
      PROVE  Keeps(c, WriteAIACK(c, on), {})
    <2> DEFINE d == [c EXCEPT !.aiack = on]
    <2>1. Keeps(c, d, {})
        BY RegistersOk
    <2> HIDE DEF d
    <2>2. Keeps(d, TestInterruptMask(d), {})
        BY <2>1, TestInterruptMaskOk DEF Keeps
    <2> QED
        BY <2>1, <2>2 DEF WriteAIACK, d, Keeps
<1>3. ASSUME NEW kept
      PROVE  Keeps(c, WriteIST(c, kept), {})
    <2> DEFINE after == c.ist \cap kept
               d == RemoveInterruptByCPU(c, c.ist \ after)
               e == [d EXCEPT !.ist = after]
    <2>1. after \in SUBSET Queueable
        BY ControllerParts
    <2>2. WriteIST(c, kept) = TestInterruptMask(e)
        BY DEF WriteIST
    <2> HIDE DEF after
    <2>3. Keeps(c, d, {})
        BY RemoveInterruptByCPUOk
    <2> HIDE DEF d
    <2>4. Keeps(d, e, {})
        BY <2>1, <2>3, RegistersOk DEF Keeps
    <2> HIDE DEF e
    <2>5. Keeps(e, TestInterruptMask(e), {})
        BY <2>4, TestInterruptMaskOk DEF Keeps
    <2> QED
        BY <2>2, <2>3, <2>4, <2>5 DEF Keeps
<1> QED
    BY <1>1, <1>2, <1>3

(* ScuReset and ScuInit.                                                   *)
LEMMA ResetControllerOk ==
    ASSUME NEW c, IrqOk(c)
    PROVE  /\ Keeps(c, ResetController(c), {})
           /\ Queued(ResetController(c)) = {}
<1> DEFINE a == [k \in 0 .. 29 |-> None]
           d == [c EXCEPT !.ims = Source]
           e == [d EXCEPT !.aiack = FALSE]
<1>1. Keeps(c, d, {})
    BY RegistersOk
<1>2. Keeps(d, e, {})
    BY <1>1, RegistersOk DEF Keeps
<1>3. a \in Slots /\ Ascending(a, 0) /\ Entries(a, 0) = {}
    BY DEF Slots, Ascending, Entries
<1>4. ResetController(c) = WithQueue(e, a, 0)
    BY ControllerParts DEF ResetController, WithQueue, Controller
<1>5. IrqOk(e)
    BY <1>2 DEF Keeps
<1> HIDE DEF a, d, e
<1>6. Keeps(e, WithQueue(e, a, 0), {})
    BY <1>3, <1>5, WithQueueOk
<1>7. Queued(WithQueue(e, a, 0)) = {}
    BY <1>3, <1>5, ControllerParts
    DEF WithQueue, Queued, Entries, Live, Controller
<1> QED
    BY <1>1, <1>2, <1>4, <1>6, <1>7 DEF Keeps

(* The controller ScuInit leaves is orderly and empty.                     *)
LEMMA InitControllerOk ==
    IrqOk(InitController) /\ Queued(InitController) = {}
<1> DEFINE c == InitController
<1>1. 0 .. MaxQueued - 1 = 0 .. 29 /\ 0 .. MaxQueued = 0 .. 30
    BY DEF MaxQueued
<1>2. << >> \in Seq(Request)
    OBVIOUS
<1>3. c \in Controller /\ c.ist = {} /\ c.number = 0
    BY <1>1, <1>2 DEF InitController, Controller
<1>4. \A p \in CPU : QueueOk(c.iqr[p])
    BY EmptyQueueOk DEF InitController
<1> HIDE DEF c
<1>5. Live(c) = {}
    BY <1>3 DEF Live
<1> QED
    BY <1>3, <1>4, <1>5 DEF c, IrqOk, ScuQueueOk, Queued

-----------------------------------------------------------------------------
(* What an operation hands to the SH-2s.  On(c, s): the vector of s is     *)
(* pending on the master.                                                  *)
On(c, s) == Vector[s] \in Vectors(c.iqr["msh2"])

(* The vectors the SCU and the SMPC present.                               *)
ScuVectors == {Vector[s] : s \in Source} \cup {NMIVector}
                  \cup {SlaveCopy[s].vec : s \in DOMAIN SlaveCopy}

(* An operation under one value of IMS takes no request from the master,   *)
(* presents no masked source and lets only the sources of W out of its     *)
(* queue.                                                                  *)
Serves(c, d, W) ==
    /\ d.ims = c.ims
    /\ \A p \in CPU :
          Vectors(d.iqr[p]) \subseteq Vectors(c.iqr[p]) \cup ScuVectors
    /\ Vectors(c.iqr["msh2"]) \subseteq Vectors(d.iqr["msh2"])
    /\ \A s \in Source : On(d, s) => On(c, s) \/ s \notin c.ims
    /\ Queued(c) \subseteq Queued(d) \cup W

(* Serves is reflexive, transitive and monotone in W.                      *)
LEMMA ServesNothing ==
    ASSUME NEW c, NEW d, NEW W, d.ims = c.ims, d.iqr = c.iqr,
           Queued(c) \subseteq Queued(d) \cup W
    PROVE  Serves(c, d, W)
BY DEF Serves, On

(* Two steps of the controller one after the other serve what both serve.  *)
LEMMA ServesTwice ==
    ASSUME NEW c, NEW d, NEW e, NEW W, Serves(c, d, W), Serves(d, e, W)
    PROVE  Serves(c, e, W)
BY DEF Serves, On

(* What leaves out less serves also where more may be left out.            *)
LEMMA ServesMore ==
    ASSUME NEW c, NEW d, NEW W, NEW X, Serves(c, d, W), W \subseteq X
    PROVE  Serves(c, d, X)
BY DEF Serves

(* The registers of the controller other than IMS.                         *)
LEMMA RegistersServe ==
    ASSUME NEW c, IrqOk(c)
    PROVE  /\ \A x : Serves(c, [c EXCEPT !.ist = x], {})
           /\ \A x : Serves(c, [c EXCEPT !.aiack = x], {})
<1>1. ASSUME NEW x PROVE Serves(c, [c EXCEPT !.ist = x], {})
    <2> DEFINE d == [c EXCEPT !.ist = x]
    <2>1. /\ d.ims = c.ims /\ d.iqr = c.iqr
          /\ d.interrupts = c.interrupts /\ d.number = c.number
        BY ControllerParts DEF Controller
    <2> HIDE DEF d
    <2> QED
        BY <2>1, ServesNothing DEF Queued, Live, d
<1>2. ASSUME NEW x PROVE Serves(c, [c EXCEPT !.aiack = x], {})
    <2> DEFINE d == [c EXCEPT !.aiack = x]
    <2>1. /\ d.ims = c.ims /\ d.iqr = c.iqr
          /\ d.interrupts = c.interrupts /\ d.number = c.number
        BY ControllerParts DEF Controller
    <2> HIDE DEF d
    <2> QED
        BY <2>1, ServesNothing DEF Queued, Live, d
<1> QED
    BY <1>1, <1>2

(* The vectors of the sources differ, and none is the NMI's.               *)
LEMMA VectorsDiffer ==
    /\ \A s, t \in Source : Vector[s] = Vector[t] => s = t
    /\ \A s \in Source : Vector[s] # NMIVector
BY DEF Source, Vector, NMIVector

(* Present puts the vector of s, and no other, on the master.              *)
LEMMA PresentVectors ==
    ASSUME NEW c, IrqOk(c), NEW s \in Source
    PROVE  /\ Present(c, s).ims = c.ims
           /\ Vectors(Present(c, s).iqr["msh2"])
                 = Vectors(c.iqr["msh2"]) \cup {Vector[s]}
           /\ Vectors(Present(c, s).iqr["ssh2"])
                 \subseteq Vectors(c.iqr["ssh2"]) \cup ScuVectors
<1> DEFINE m == SetInterrupt(c.iqr["msh2"], RequestOf(s))
           v == IF c.ssh2 /\ s \in DOMAIN SlaveCopy
                THEN SetInterrupt(c.iqr["ssh2"], SlaveCopy[s])
                ELSE c.iqr["ssh2"]
<1>1. c \in Controller /\ \A p \in CPU : QueueOk(c.iqr[p])
    BY ControllerParts
<1>2. Vectors(m) = Vectors(c.iqr["msh2"]) \cup {Vector[s]}
    BY <1>1, TablesOk, SetInterruptVectors DEF CPU, RequestOf
<1>3. Vectors(v) \subseteq Vectors(c.iqr["ssh2"]) \cup ScuVectors
    <2>1. CASE c.ssh2 /\ s \in DOMAIN SlaveCopy
        BY <1>1, <2>1, TablesOk, SetInterruptVectors DEF CPU, ScuVectors
    <2>2. CASE ~(c.ssh2 /\ s \in DOMAIN SlaveCopy)
        BY <2>2
    <2> QED
        BY <2>1, <2>2
<1>4. /\ Present(c, s).ims = c.ims
      /\ Present(c, s).iqr["msh2"] = m /\ Present(c, s).iqr["ssh2"] = v
    <2>1. c.iqr \in [CPU -> Seq(Request)]
        BY ControllerParts
    <2> HIDE DEF m, v
    <2>2. Present(c, s) =
             [c EXCEPT !.iqr = [c.iqr EXCEPT !["msh2"] = m, !["ssh2"] = v]]
        BY <1>1, <2>1 DEF Present, Controller, CPU, m, v
    <2> QED
        BY <1>1, <2>1, <2>2 DEF Controller, CPU
<1> QED
    BY <1>2, <1>3, <1>4

(* Presenting a source adds its vectors to the SH-2s, and touches no queue. *)
LEMMA PresentServes ==
    ASSUME NEW c, IrqOk(c), NEW s \in Source, s \notin c.ims
    PROVE  Serves(c, Present(c, s), {}) /\ On(Present(c, s), s)
<1> DEFINE d == Present(c, s)
<1>1. /\ d.ims = c.ims
      /\ Vectors(d.iqr["msh2"]) = Vectors(c.iqr["msh2"]) \cup {Vector[s]}
      /\ Vectors(d.iqr["ssh2"]) \subseteq Vectors(c.iqr["ssh2"]) \cup ScuVectors
    BY PresentVectors
<1>2. d.interrupts = c.interrupts /\ d.number = c.number
    BY PresentOk
<1> HIDE DEF d
<1>3. Queued(d) = Queued(c)
    BY <1>2 DEF Queued, Live
<1>4. \A t \in Source : On(d, t) => On(c, t) \/ t \notin c.ims
    BY <1>1, VectorsDiffer DEF On
<1>5. Vector[s] \in ScuVectors
    BY DEF ScuVectors
<1>6. \A p \in CPU :
         Vectors(d.iqr[p]) \subseteq Vectors(c.iqr[p]) \cup ScuVectors
    BY <1>1, <1>5 DEF CPU
<1> QED
    BY <1>1, <1>3, <1>4, <1>6 DEF d, Serves, On

-----------------------------------------------------------------------------
(* ScuQueueInterrupt loses nothing.                                        *)
LEMMA QueueInterruptServes ==
    ASSUME NEW c, IrqOk(c), NEW s \in Queueable
    PROVE  /\ Serves(c, QueueInterrupt(c, s), {})
           /\ s \in Queued(QueueInterrupt(c, s))
<1>1. CASE s \in Queued(c)
    BY <1>1, ServesNothing DEF QueueInterrupt
<1>2. CASE s \notin Queued(c)
    <2> DEFINE d == AppendAndSort(c, s)
    <2>1. d.ims = c.ims /\ d.iqr = c.iqr
        BY ControllerParts DEF AppendAndSort, Controller
    <2>2. Queued(d) = Queued(c) \cup {s}
        BY <1>2, AppendAndSortOk
    <2>3. QueueInterrupt(c, s) = d
        BY <1>2 DEF QueueInterrupt
    <2> HIDE DEF d
    <2> QED
        BY <2>1, <2>2, <2>3, ServesNothing
<1> QED
    BY <1>1, <1>2

(* SendInterrupt presents nothing that IMS masks; a source other than the  *)
(* A-bus is pending on the master or in the queue afterwards.              *)
LEMMA SendInterruptServes ==
    ASSUME NEW c, IrqOk(c), NEW s \in Source
    PROVE  /\ Serves(c, SendInterrupt(c, s), {})
           /\ s \notin ABus => \/ s \in Queued(SendInterrupt(c, s))
                               \/ On(SendInterrupt(c, s), s)
<1>1. CASE s \in ABus
    <2> DEFINE d == [c EXCEPT !.aiack = FALSE]
    <2>1. Serves(c, d, {}) /\ IrqOk(d) /\ d.ims = c.ims
        BY RegistersServe, RegistersOk DEF Keeps, Serves
    <2>2. SendInterrupt(c, s) \in {c, d, Present(d, s)}
          /\ (s \in c.ims => SendInterrupt(c, s) \in {c, d})
        BY <1>1, ControllerParts DEF SendInterrupt, SendABus
    <2> HIDE DEF d
    <2>3. Serves(c, c, {})
        BY ServesNothing
    <2>4. s \notin c.ims => Serves(c, Present(d, s), {})
        BY <2>1, PresentServes, ServesTwice
    <2> QED
        BY <1>1, <2>1, <2>2, <2>3, <2>4
<1>2. CASE s \notin ABus /\ s \notin c.ims
    <2> DEFINE x == c.ist \cup {s}
               d == [c EXCEPT !.ist = x]
    <2>1. SendInterrupt(c, s) = Present(d, s)
        BY <1>2 DEF SendInterrupt
    <2>2. x \in SUBSET Queueable
        BY <1>2, ControllerParts DEF Queueable
    <2> HIDE DEF x
    <2>3. Serves(c, d, {}) /\ IrqOk(d) /\ d.ims = c.ims
        BY <2>2, RegistersServe, RegistersOk DEF Keeps, Serves
    <2> HIDE DEF d
    <2>4. Serves(d, Present(d, s), {}) /\ On(Present(d, s), s)
        BY <1>2, <2>3, PresentServes
    <2> QED
        BY <2>1, <2>3, <2>4, ServesTwice
<1>3. CASE s \notin ABus /\ s \in c.ims
    <2> DEFINE d == QueueInterrupt(c, s)
               x == d.ist \cup {s}
               e == [d EXCEPT !.ist = x]
    <2>1. s \in Queueable
        BY <1>3 DEF Queueable
    <2>2. Serves(c, d, {}) /\ s \in Queued(d) /\ IrqOk(d)
        BY <2>1, QueueInterruptServes, QueueInterruptOk DEF Keeps
    <2>3. SendInterrupt(c, s) = e
        BY <1>3 DEF SendInterrupt
    <2> HIDE DEF d, x
    <2>4. Serves(d, e, {})
        BY <2>2, RegistersServe
    <2>5. e.interrupts = d.interrupts /\ e.number = d.number
        BY <2>2, ControllerParts DEF Controller
    <2>6. s \in Queued(e)
        BY <2>2, <2>5 DEF Queued, Live
    <2> HIDE DEF e
    <2> QED
        BY <2>2, <2>3, <2>4, <2>6, ServesTwice
<1> QED
    BY <1>1, <1>2, <1>3

(* ScuRemoveInterrupt withdraws one source.                                *)
LEMMA RemoveSlotServes ==
    ASSUME NEW c, IrqOk(c), NEW k \in Live(c)
    PROVE  /\ RemoveSlot(c, k).ims = c.ims /\ RemoveSlot(c, k).iqr = c.iqr
           /\ RemoveSlot(c, k).ist = c.ist
           /\ Serves(c, RemoveSlot(c, k), {c.interrupts[k]})
<1> DEFINE d == RemoveSlot(c, k)
<1>1. d.ims = c.ims /\ d.iqr = c.iqr /\ d.ist = c.ist
    BY ControllerParts DEF RemoveSlot, Controller
<1>2. Queued(c) \subseteq Queued(d) \cup {c.interrupts[k]}
    BY RemoveSlotOk
<1> HIDE DEF d
<1> QED
    BY <1>1, <1>2, ServesNothing DEF d

(* ScuRemoveInterrupt takes one source out of the queue and no other.      *)
LEMMA RemoveInterruptServes ==
    ASSUME NEW c, IrqOk(c), NEW s \in Source
    PROVE  Serves(c, RemoveInterrupt(c, s), {s})
<1> DEFINE x == c.ist \ {s}
           d == [c EXCEPT !.ist = x]
<1>1. x \in SUBSET Queueable
    BY ControllerParts
<1>2. /\ ClearStatus(c, s) = d
      /\ d.interrupts = c.interrupts /\ d.number = c.number
    BY ControllerParts DEF ClearStatus, Controller
<1> HIDE DEF x
<1>3. Serves(c, d, {}) /\ IrqOk(d)
    BY <1>1, RegistersServe, RegistersOk DEF Keeps
<1> HIDE DEF d
<1>4. Serves(c, d, {s})
    BY <1>3, ServesMore
<1>5. CASE s \in Queued(c)
    <2> DEFINE k == CHOOSE l \in Live(c) : c.interrupts[l] = s
    <2>1. k \in Live(c) /\ c.interrupts[k] = s
        BY <1>5 DEF Queued
    <2>2. RemoveInterrupt(c, s) = RemoveSlot(d, k)
        BY <1>2, <1>5 DEF RemoveInterrupt
    <2> HIDE DEF k
    <2>3. k \in Live(d) /\ d.interrupts[k] = s
        BY <1>2, <2>1 DEF Live
    <2>4. Serves(d, RemoveSlot(d, k), {s})
        BY <1>3, <2>3, RemoveSlotServes
    <2> QED
        BY <1>4, <2>2, <2>4, ServesTwice
<1>6. CASE s \notin Queued(c)
    BY <1>2, <1>4, <1>6 DEF RemoveInterrupt
<1> QED
    BY <1>5, <1>6

-----------------------------------------------------------------------------
(* What has gone to the master in an operation has left nothing behind     *)
(* that is higher and could have gone.                                     *)
HighestGone(c, d) ==
    \A s \in Source : ~On(c, s) /\ On(d, s) =>
        \A t \in Queued(d) : Level[t] > Level[s] => t \notin d.ist \ d.ims

(* What has left the queue has gone to the master.                         *)
Given(c, d) == \A s \in Queued(c) \ Queued(d) : On(d, s)

(* ScuTestInterruptMask presents at most one, the highest it may.          *)
LEMMA TestInterruptMaskServes ==
    ASSUME NEW c, IrqOk(c)
    PROVE  /\ Serves(c, TestInterruptMask(c), Queueable)
           /\ Given(c, TestInterruptMask(c))
           /\ HighestGone(c, TestInterruptMask(c))
<1>1. CASE Presentable(c) = {}
    <2>1. TestInterruptMask(c) = c
        BY <1>1 DEF TestInterruptMask
    <2> QED
        BY <2>1, ServesNothing DEF HighestGone, Given
<1>2. CASE Presentable(c) # {}
    <2> DEFINE k == FirstPresentable(c)
               s == c.interrupts[k]
               d == Present(c, s)
               x == d.ist \ {s}
               e == [d EXCEPT !.ist = x]
               f == RemoveSlot(e, k)
    <2>1. Presentable(c) \in SUBSET (0 .. 31)
        <3>1. Live(c) \in SUBSET (0 .. 31)
            <4> DEFINE n == c.number
            <4>1. n \in 0 .. 30 /\ Live(c) = 0 .. n - 1
                BY QueueParts
            <4> HIDE DEF n
            <4> QED
                BY <4>1
        <3> QED
            BY <3>1 DEF Presentable
    <2>2. k \in Presentable(c) /\ \A l \in Presentable(c) : k >= l
        BY <1>2, <2>1, MaxExists DEF FirstPresentable
    <2>3. k \in Live(c) /\ s \in c.ist /\ s \notin c.ims
        BY <2>2 DEF Presentable
    <2>4. TestInterruptMask(c) = f
        BY <1>2 DEF TestInterruptMask, ClearStatus
    <2>5. s \in Queueable /\ s \in Source
        BY <2>3, ControllerParts DEF ScuQueueOk, Queueable
    <2>6. \A l \in Presentable(c) : Level[c.interrupts[l]] <= Level[s]
        <3> SUFFICES ASSUME NEW l \in Presentable(c)
                     PROVE  Level[c.interrupts[l]] <= Level[s]
            OBVIOUS
        <3>1. l \in Live(c) /\ l \in Int /\ k \in Int
            BY <2>1, <2>2 DEF Presentable
        <3>2. CASE l = k
            <4>1. Level[s] \in Int
                BY <2>5, TablesOk
            <4> QED
                BY <3>2, <4>1
        <3>3. CASE l < k
            BY <2>3, <3>1, <3>3, ControllerParts DEF ScuQueueOk
        <3> QED
            BY <2>2, <3>1, <3>2, <3>3
    <2> HIDE DEF k, s
    <2>7. /\ Serves(c, d, {}) /\ On(d, s) /\ IrqOk(d)
          /\ d.number = c.number /\ d.interrupts = c.interrupts
          /\ d.ist = c.ist /\ d.ims = c.ims
          /\ Vectors(d.iqr["msh2"]) = Vectors(c.iqr["msh2"]) \cup {Vector[s]}
        BY <2>3, <2>5, PresentServes, PresentOk, PresentVectors DEF Keeps
    <2> HIDE DEF d
    <2>8. x \in SUBSET Queueable
        BY <2>7, ControllerParts
    <2>9. /\ e.number = d.number /\ e.interrupts = d.interrupts
          /\ e.iqr = d.iqr /\ e.ims = d.ims /\ e.ist = x
        BY <2>7, ControllerParts DEF Controller
    <2> HIDE DEF x
    <2>10. Serves(d, e, {}) /\ IrqOk(e)
        BY <2>7, <2>8, RegistersServe, RegistersOk DEF Keeps
    <2> HIDE DEF e
    <2>11. k \in Live(e) /\ e.interrupts[k] = s
        BY <2>3, <2>7, <2>9 DEF Live, s
    <2>12. /\ f.ims = e.ims /\ f.iqr = e.iqr /\ f.ist = e.ist
           /\ Serves(e, f, {s})
        BY <2>10, <2>11, RemoveSlotServes
    <2>13. Queued(f) \subseteq Queued(e)
        BY <2>10, <2>11, RemoveSlotOk DEF Keeps
    <2> HIDE DEF f
    <2>14. Serves(c, f, {s})
        <3>1. Serves(c, d, {s}) /\ Serves(d, e, {s})
            BY <2>7, <2>10, ServesMore
        <3> QED
            BY <2>12, <3>1, ServesTwice
    <2>15. On(f, s)
        BY <2>7, <2>9, <2>12 DEF On
    <2>16. Serves(c, f, Queueable) /\ Given(c, f)
        <3>1. {s} \subseteq Queueable
            BY <2>5
        <3> QED
            BY <2>14, <2>15, <3>1, ServesMore DEF Serves, Given
    <2>17. HighestGone(c, f)
        <3> SUFFICES ASSUME NEW r \in Source, ~On(c, r), On(f, r),
                            NEW t \in Queued(f), Level[t] > Level[r],
                            t \in f.ist, t \notin f.ims
                     PROVE  FALSE
            BY DEF HighestGone
        <3>1. r = s
            BY <2>5, <2>7, <2>9, <2>12, VectorsDiffer DEF On
        <3>2. t \in c.ist /\ t \notin c.ims
            BY <2>7, <2>8, <2>9, <2>12 DEF x
        <3>3. PICK l \in Live(c) : c.interrupts[l] = t
            BY <2>7, <2>9, <2>13 DEF Queued, Live
        <3>4. l \in Presentable(c)
            BY <3>2, <3>3 DEF Presentable
        <3>5. Level[t] <= Level[s]
            BY <2>6, <3>3, <3>4
        <3>6. t \in Source /\ s \in Source
            BY <2>5, <3>3, ControllerParts DEF ScuQueueOk, Queueable
        <3>7. Level[t] \in Int /\ Level[s] \in Int
            BY <3>6, TablesOk
        <3> QED
            BY <3>1, <3>5, <3>7
    <2> QED
        BY <2>4, <2>16, <2>17
<1> QED
    BY <1>1, <1>2

(* ScuRemoveInterruptByCPU touches the queue and IST alone.                *)
Silent(c, d) == IrqOk(d) /\ d.ims = c.ims /\ d.iqr = c.iqr

(* One turn of ScuRemoveInterruptByCPU presents nothing.                   *)
LEMMA RemoveBitSilent ==
    ASSUME NEW c, NEW d, Silent(c, d), NEW s, NEW cleared
    PROVE  Silent(c, RemoveBit(d, s, cleared))
<1> DEFINE x == d.ist \ {s}
           e == [d EXCEPT !.ist = x]
<1>1. IrqOk(d) /\ Keeps(d, d, {})
    BY DEF Silent, Keeps
<1>2. x \in SUBSET Queueable
    BY <1>1, ControllerParts
<1>3. /\ e.number = d.number /\ e.ims = d.ims /\ e.iqr = d.iqr
      /\ ClearStatus(d, s) = e
    BY <1>1, ControllerParts DEF Controller, ClearStatus
<1> HIDE DEF x
<1>4. IrqOk(e)
    BY <1>1, <1>2, RegistersOk DEF Keeps
<1> HIDE DEF e
<1>5. IrqOk(RemoveBit(d, s, cleared))
    BY <1>1, RemoveBitOk DEF Keeps
<1>6. CASE d.number > 0
    <2> DEFINE n == d.number
    <2>1. n \in 0 .. 30 /\ Live(e) = 0 .. n - 1
        BY <1>1, <1>3, QueueParts DEF Live
    <2>2. n > 0
        BY <1>6
    <2> HIDE DEF n
    <2>3. 0 \in Live(e)
        BY <2>1, <2>2
    <2>4. RemoveSlot(e, 0).ims = e.ims /\ RemoveSlot(e, 0).iqr = e.iqr
        BY <1>4, <2>3, RemoveSlotServes
    <2>5. RemoveBit(d, s, cleared) \in {d, RemoveSlot(e, 0)}
        BY <1>3, RemoveBitCases
    <2> QED
        BY <1>3, <1>5, <2>4, <2>5 DEF Silent
<1>7. CASE ~(d.number > 0)
    BY <1>7, RemoveBitEmpty
<1> QED
    BY <1>6, <1>7

(* ScuRemoveInterruptByCPU presents nothing.                               *)
LEMMA RemoveInterruptByCPUSilent ==
    ASSUME NEW c, IrqOk(c), NEW cleared
    PROVE  Silent(c, RemoveInterruptByCPU(c, cleared))
<1>1. Silent(c, c)
    BY DEF Silent
<1>2. ASSUME NEW d, Silent(c, d)
      PROVE  /\ Silent(c, RemoveBlankings(d, cleared))
             /\ Silent(c, RemoveTimers(d, cleared))
             /\ Silent(c, RemoveParts(d, cleared))
             /\ Silent(c, RemoveDmaEnds(d, cleared))
             /\ Silent(c, RemoveBit(d, "DrawEnd", cleared))
    BY <1>2, RemoveBitSilent
    DEF RemoveBlankings, RemoveTimers, RemoveParts, RemoveDmaEnds
<1> QED
    BY <1>1, <1>2 DEF RemoveInterruptByCPU

(* The registers the program writes: what goes to the master is unmasked   *)
(* under the IMS the write leaves, and nothing higher stays behind; only a *)
(* write to IST takes anything out of the queue.                           *)
LEMMA WriteIMSServes ==
    ASSUME NEW c, IrqOk(c), NEW masked \in SUBSET Source
    PROVE  /\ Serves([c EXCEPT !.ims = masked], WriteIMS(c, masked), Queueable)
           /\ Given(c, WriteIMS(c, masked))
           /\ [c EXCEPT !.ims = masked].ims = masked
           /\ [c EXCEPT !.ims = masked].iqr = c.iqr
           /\ Queued([c EXCEPT !.ims = masked]) = Queued(c)
           /\ HighestGone(c, WriteIMS(c, masked))
<1> DEFINE d == [c EXCEPT !.ims = masked]
<1>1. /\ d.ims = masked /\ d.iqr = c.iqr
      /\ d.interrupts = c.interrupts /\ d.number = c.number
    BY ControllerParts DEF Controller
<1>2. IrqOk(d)
    BY RegistersOk DEF Keeps
<1>3. WriteIMS(c, masked) = TestInterruptMask(d)
    BY DEF WriteIMS
<1> HIDE DEF d
<1>4. Queued(d) = Queued(c)
    BY <1>1 DEF Queued, Live
<1>5. /\ Serves(d, TestInterruptMask(d), Queueable)
      /\ Given(d, TestInterruptMask(d))
      /\ HighestGone(d, TestInterruptMask(d))
    BY <1>2, TestInterruptMaskServes
<1>6. HighestGone(c, TestInterruptMask(d)) /\ Given(c, TestInterruptMask(d))
    BY <1>1, <1>4, <1>5 DEF HighestGone, Given, On
<1> QED
    BY <1>1, <1>3, <1>4, <1>5, <1>6 DEF d

(* A write to AIACK lets a queued interrupt go, as a write to IMS does.    *)
LEMMA WriteAIACKServes ==
    ASSUME NEW c, IrqOk(c), NEW on \in BOOLEAN
    PROVE  /\ Serves(c, WriteAIACK(c, on), Queueable)
           /\ Given(c, WriteAIACK(c, on))
           /\ HighestGone(c, WriteAIACK(c, on))
<1> DEFINE d == [c EXCEPT !.aiack = on]
<1>1. d.iqr = c.iqr /\ d.interrupts = c.interrupts /\ d.number = c.number
    BY ControllerParts DEF Controller
<1>2. IrqOk(d) /\ Serves(c, d, Queueable)
    BY RegistersOk, RegistersServe, ServesMore DEF Keeps
<1>3. WriteAIACK(c, on) = TestInterruptMask(d)
    BY DEF WriteAIACK
<1> HIDE DEF d
<1>4. /\ Serves(d, TestInterruptMask(d), Queueable)
      /\ Given(d, TestInterruptMask(d))
      /\ HighestGone(d, TestInterruptMask(d))
    BY <1>2, TestInterruptMaskServes
<1>5. HighestGone(c, TestInterruptMask(d)) /\ Given(c, TestInterruptMask(d))
    BY <1>1, <1>4 DEF HighestGone, Given, On, Queued, Live
<1> QED
    BY <1>2, <1>3, <1>4, <1>5, ServesTwice

(* A write to IST removes what it clears and lets the highest go.          *)
LEMMA WriteISTServes ==
    ASSUME NEW c, IrqOk(c), NEW kept
    PROVE  /\ Serves(c, WriteIST(c, kept), Queueable)
           /\ HighestGone(c, WriteIST(c, kept))
<1> DEFINE after == c.ist \cap kept
           d == RemoveInterruptByCPU(c, c.ist \ after)
           e == [d EXCEPT !.ist = after]
<1>1. after \in SUBSET Queueable
    BY ControllerParts
<1>2. WriteIST(c, kept) = TestInterruptMask(e)
    BY DEF WriteIST
<1> HIDE DEF after
<1>3. IrqOk(d) /\ d.ims = c.ims /\ d.iqr = c.iqr
    BY RemoveInterruptByCPUSilent DEF Silent
<1> HIDE DEF d
<1>4. IrqOk(e) /\ e.ims = d.ims /\ e.iqr = d.iqr
    <2>1. IrqOk(e)
        BY <1>1, <1>3, RegistersOk DEF Keeps
    <2>2. e.ims = d.ims /\ e.iqr = d.iqr
        BY <1>3, ControllerParts DEF Controller
    <2> QED
        BY <2>1, <2>2
<1> HIDE DEF e
<1>5. /\ Serves(e, TestInterruptMask(e), Queueable)
      /\ HighestGone(e, TestInterruptMask(e))
    BY <1>4, TestInterruptMaskServes
<1>6. Queued(c) \subseteq Queueable
    BY ControllerParts DEF ScuQueueOk, Queued
<1>7. Serves(c, e, Queueable)
    BY <1>3, <1>4, <1>6, ServesNothing
<1>8. HighestGone(c, TestInterruptMask(e))
    BY <1>3, <1>4, <1>5 DEF HighestGone, On
<1> QED
    BY <1>2, <1>5, <1>7, <1>8, ServesTwice, ServesMore

-----------------------------------------------------------------------------
(* The SCU as a whole.                                                     *)

ScuOk(s) ==
    /\ s \in ScuState
    /\ IrqOk(s.irq)
    /\ \A ch \in Channel : TransferOk(s.dma[ch])

(* A step of the SCU that leaves the timers alone and queues at most the   *)
(* sources of S.                                                           *)
Moves(s, t, S) ==
    /\ ScuOk(t)
    /\ Keeps(s.irq, t.irq, S)
    /\ t.timer = s.timer

DmaEnd == {"DMA0End", "DMA1End", "DMA2End"}

(* Moves is reflexive.                                                     *)
LEMMA MovesNothing ==
    ASSUME NEW s, ScuOk(s), NEW S PROVE Moves(s, s, S)
BY DEF Moves, Keeps, ScuOk

(* Moves is transitive.                                                    *)
LEMMA MovesTwice ==
    ASSUME NEW s, NEW t, NEW u, NEW S, Moves(s, t, S), Moves(t, u, S)
    PROVE  Moves(s, u, S)
BY DEF Moves, Keeps

(* Moves may name more sources than needed.                                *)
LEMMA MovesMore ==
    ASSUME NEW s, NEW t, NEW S, NEW T, Moves(s, t, S), S \subseteq T
    PROVE  Moves(s, t, T)
BY DEF Moves, Keeps

(* The four fields, updated one at a time.                                 *)
LEMMA IrqUpdate ==
    ASSUME NEW s, ScuOk(s), NEW c, NEW S, Keeps(s.irq, c, S)
    PROVE  Moves(s, [s EXCEPT !.irq = c], S)
<1> DEFINE t == [s EXCEPT !.irq = c]
<1>1. c \in Controller /\ IrqOk(c)
    BY ControllerParts DEF Keeps
<1>2. /\ t \in ScuState /\ t.irq = c
      /\ t.dma = s.dma /\ t.timer = s.timer
    BY <1>1 DEF ScuOk, ScuState
<1> HIDE DEF t
<1> QED
    BY <1>1, <1>2 DEF t, Moves, ScuOk

(* A channel's running transfer is replaced by a settled one.              *)
LEMMA DmaUpdate ==
    ASSUME NEW s, ScuOk(s), NEW ch \in Channel, NEW d, TransferOk(d), NEW S
    PROVE  Moves(s, [s EXCEPT !.dma[ch] = d], S)
<1> DEFINE t == [s EXCEPT !.dma[ch] = d]
<1>1. d \in Transfer
    BY DEF TransferOk
<1>2. /\ t \in ScuState /\ t.irq = s.irq /\ t.timer = s.timer
      /\ t.dma = [s.dma EXCEPT ![ch] = d]
    BY <1>1 DEF ScuOk, ScuState
<1>3. s.dma \in [Channel -> Transfer]
    BY DEF ScuOk, ScuState
<1> HIDE DEF t
<1>4. \A x \in Channel : TransferOk(t.dma[x])
    BY <1>2, <1>3 DEF ScuOk
<1> QED
    BY <1>2, <1>4 DEF t, Moves, ScuOk, Keeps

(* A channel's registers are written.                                      *)
LEMMA RegsUpdate ==
    ASSUME NEW s, ScuOk(s), NEW ch \in Channel, NEW r \in Registers, NEW S
    PROVE  Moves(s, [s EXCEPT !.regs[ch] = r], S)
<1> DEFINE t == [s EXCEPT !.regs[ch] = r]
<1>1. /\ t \in ScuState /\ t.irq = s.irq /\ t.timer = s.timer
      /\ t.dma = s.dma
    BY DEF ScuOk, ScuState
<1> HIDE DEF t
<1> QED
    BY <1>1 DEF t, Moves, ScuOk, Keeps

-----------------------------------------------------------------------------
(* A part raises its interrupt.                                            *)
LEMMA RaiseOk ==
    ASSUME NEW s, ScuOk(s), NEW src \in Source
    PROVE  Moves(s, Raise(s, src), {src})
<1> DEFINE c == SendInterrupt(s.irq, src)
<1>1. Raise(s, src) = [s EXCEPT !.irq = c]
    BY DEF Raise
<1>2. Keeps(s.irq, c, {src})
    BY SendInterruptOk DEF ScuOk
<1> HIDE DEF c
<1> QED
    BY <1>1, <1>2, IrqUpdate

(* A part withdraws its interrupt.                                         *)
LEMMA WithdrawOk ==
    ASSUME NEW s, ScuOk(s), NEW src \in Source
    PROVE  /\ Moves(s, Withdraw(s, src), {})
           /\ src \notin Queued(Withdraw(s, src).irq)
<1> DEFINE c == RemoveInterrupt(s.irq, src)
<1>1. Withdraw(s, src) = [s EXCEPT !.irq = c]
    BY DEF Withdraw
<1>2. Keeps(s.irq, c, {}) /\ src \notin Queued(c)
    BY RemoveInterruptOk DEF ScuOk
<1>3. [s EXCEPT !.irq = c].irq = c
    BY DEF ScuOk, ScuState
<1> HIDE DEF c
<1> QED
    BY <1>1, <1>2, <1>3, IrqUpdate

(* ScuSendDMAEnd.                                                          *)
LEMMA SendDMAEndOk ==
    ASSUME NEW s, ScuOk(s), NEW ch \in Channel
    PROVE  Moves(s, SendDMAEnd(s, ch), DmaEnd)
<1>1. EndOf(ch) \in DmaEnd /\ EndOf(ch) \in Source
    BY DEF EndOf, DmaEnd, Source, Channel
<1>2. SendDMAEnd(s, ch) = Raise(s, EndOf(ch))
    BY DEF SendDMAEnd, Raise
<1> QED
    BY <1>1, <1>2, RaiseOk, MovesMore

(* When a transfer with a new count and table is settled.                  *)
Settles(d, x, r) ==
    /\ x > -2
    /\ d.direct => r = << >>
    /\ ~d.direct => x >= 0 /\ (x > 0 => r # << >>)
    /\ x <= 0 /\ r # << >> => Head(r) = 0

(* A transfer with a new count and table.                                  *)
After(d, x, r) == [d EXCEPT !.left = x, !.rest = r]

(* If they are settled, the transfer is as it should be.                   *)
LEMMA TransferUpdate ==
    ASSUME NEW d \in Transfer, NEW x \in Int, NEW r \in Seq(Nat),
           Settles(d, x, r)
    PROVE  /\ TransferOk(After(d, x, r))
           /\ After(d, x, r).left = x /\ After(d, x, r).rest = r
<1> DEFINE e == After(d, x, r)
<1>1. /\ e.left = x /\ e.rest = r
      /\ e.direct = d.direct /\ e.cd = d.cd
    BY DEF Transfer, After
<1>2. [d EXCEPT !.left = x] \in Transfer
    BY DEF Transfer
<1>3. e \in Transfer
    BY <1>2 DEF Transfer, After
<1> HIDE DEF e
<1>4. e.left > -Word
    BY <1>1 DEF Settles, Word
<1>5. Stuck(e) => Head(e.rest) = 0
    BY <1>1 DEF Settles, Stuck
<1>6. /\ e.direct => e.rest = << >>
      /\ ~e.direct => e.left >= 0 /\ (e.left > 0 => e.rest # << >>)
    BY <1>1 DEF Settles
<1>7. TransferOk(e)
    BY <1>3, <1>4, <1>5, <1>6, Zenon DEF TransferOk
<1> QED
    BY <1>1, <1>7 DEF e

(* A transfer that is through, with its last word at most one half word    *)
(* beyond the count.                                                       *)
LEMMA ThroughOk ==
    ASSUME NEW s, ScuOk(s), NEW ch \in Channel, NEW x \in {-1, 0},
           s.dma[ch].direct \/ x = 0
    PROVE  TransferOk([s.dma[ch] EXCEPT !.left = x, !.rest = << >>])
<1>1. s.dma[ch] \in Transfer
    BY DEF ScuOk, TransferOk
<1>2. << >> \in Seq(Nat) /\ x \in Int
    OBVIOUS
<1>3. Settles(s.dma[ch], x, << >>)
    BY DEF Settles
<1>4. TransferOk(After(s.dma[ch], x, << >>))
    BY <1>1, <1>2, <1>3, TransferUpdate
<1> QED
    BY <1>4 DEF After

(* ScuSendDMAEnd at the end of a transfer.                                 *)
LEMMA FinishOk ==
    ASSUME NEW s, ScuOk(s), NEW ch \in Channel, NEW left \in {-1, 0},
           s.dma[ch].direct \/ left = 0
    PROVE  Moves(s, Finish(s, ch, left), DmaEnd)
<1> DEFINE d == [s.dma[ch] EXCEPT !.left = left, !.rest = << >>]
           t == [s EXCEPT !.dma[ch] = d]
<1>1. TransferOk(d)
    BY ThroughOk
<1>2. Finish(s, ch, left) = SendDMAEnd(t, ch)
    BY DEF Finish
<1> HIDE DEF d
<1>3. Moves(s, t, DmaEnd)
    BY <1>1, DmaUpdate
<1> HIDE DEF t
<1>4. Moves(t, SendDMAEnd(t, ch), DmaEnd)
    BY <1>3, SendDMAEndOk DEF Moves
<1> QED
    BY <1>2, <1>3, <1>4, MovesTwice

(* SucDmaExec's words for a count: at least one, and fewer words leave a   *)
(* part of a count that is not 0.                                          *)
LEMMA WordsOfOk ==
    ASSUME NEW n \in Nat
    PROVE  /\ WordsOf(n) \in Nat \ {0}
           /\ \A m \in Nat : m < WordsOf(n) /\ n # 0 => Word * m < n
           /\ \A m \in Nat : m < WordsOf(n) /\ n = 0 => m = 0
BY DEF WordsOf, Word

(* The words of a table add up from entry to entry.                        *)
LEMMA WordsUpToOk ==
    ASSUME NEW t \in Seq(Nat)
    PROVE  /\ WordsUpTo(t) \in [0 .. Len(t) -> Nat]
           /\ WordsUpTo(t)[0] = 0
           /\ \A i \in 1 .. Len(t) :
                 WordsUpTo(t)[i] = WordsUpTo(t)[i - 1] + WordsOf(t[i])
<1> DEFINE N == Len(t)
           G == [p \in Nat \X (1 .. N) |-> p[1] + WordsOf(t[p[2]])]
           f == CHOOSE w : w = [i \in 0 .. N |->
                                  IF i = 0 THEN 0 ELSE w[i - 1] + WordsOf(t[i])]
<1>1. WordsUpTo(t) = f
    BY DEF WordsUpTo
<1>2. N \in Nat
    OBVIOUS
<1>3. ASSUME NEW k \in 1 .. N PROVE WordsOf(t[k]) \in Nat
    <2>1. t[k] \in Nat
        BY <1>3
    <2> HIDE DEF N, G, f
    <2> QED
        BY <2>1, WordsOfOk
<1>4. /\ G \in StepsOn(N, Nat)
      /\ \A b \in Nat, k \in 1 .. N : G[<<b, k>>] = b + WordsOf(t[k])
    <2> HIDE DEF N
    <2>1. \A p \in Nat \X (1 .. N) : p[1] + WordsOf(t[p[2]]) \in Nat
        BY <1>3
    <2> QED
        BY <2>1 DEF StepsOn
<1> HIDE DEF G
<1>5. PICK g : Goes(g, N, Nat, 0, G)
    <2> HIDE DEF N
    <2> QED
        BY <1>2, <1>4, Recursion
<1>6. /\ g \in [0 .. N -> Nat] /\ g[0] = 0
      /\ \A k \in 1 .. N : g[k] = G[<<g[k - 1], k>>]
    BY <1>5 DEF Goes
<1>7. ASSUME NEW k \in 1 .. N PROVE g[k] = g[k - 1] + WordsOf(t[k])
    <2> HIDE DEF N
    <2>1. k - 1 \in 0 .. N
        BY <1>2
    <2>2. g[k - 1] \in Nat
        BY <1>6, <2>1
    <2> QED
        BY <1>4, <1>6, <2>2
<1>8. ASSUME NEW i \in 0 .. N
      PROVE  g[i] = IF i = 0 THEN 0 ELSE g[i - 1] + WordsOf(t[i])
    <2>1. i = 0 \/ i \in 1 .. N
        BY <1>2
    <2> QED
        BY <1>6, <1>7, <2>1
<1>9. g = [i \in 0 .. N |-> IF i = 0 THEN 0 ELSE g[i - 1] + WordsOf(t[i])]
    BY <1>6, <1>8
<1>10. f = [i \in 0 .. N |-> IF i = 0 THEN 0 ELSE f[i - 1] + WordsOf(t[i])]
    BY <1>9
<1> HIDE DEF f, N
<1>11. f[0] = 0 /\ \A i \in 1 .. N : f[i] = f[i - 1] + WordsOf(t[i])
    BY <1>2, <1>10
<1>12. f \in [0 .. N -> Nat]
    <2> DEFINE T == {k \in 0 .. N : f[k] \in Nat}
    <2>1. 0 \in T
        BY <1>2, <1>11
    <2>2. ASSUME NEW k \in 1 .. N, k - 1 \in T PROVE k \in T
        <3>1. f[k - 1] \in Nat /\ WordsOf(t[k]) \in Nat
            BY <1>3, <2>2
        <3> QED
            BY <1>2, <1>11, <3>1
    <2> HIDE DEF T
    <2>3. \A k \in 0 .. N : k \in T
        BY <1>2, <2>1, <2>2, Upwards
    <2>4. \A k \in 0 .. N : f[k] \in Nat
        BY <2>3 DEF T
    <2> QED
        BY <1>10, <2>4
<1> QED
    BY <1>1, <1>11, <1>12 DEF N

(* A sum that starts within a bound and ends beyond it crosses it once at  *)
(* least.                                                                  *)
LEMMA Crossing ==
    ASSUME NEW N \in Nat, NEW w \in [0 .. N -> Nat], NEW B \in Nat,
           w[0] <= B, B < w[N]
    PROVE  \E i \in 0 .. N - 1 : w[i] <= B /\ B < w[i + 1]
<1> SUFFICES ASSUME \A i \in 0 .. N - 1 : ~(w[i] <= B /\ B < w[i + 1])
             PROVE  FALSE
    OBVIOUS
<1> DEFINE T == {k \in 0 .. N : w[k] <= B}
<1>1. 0 \in T
    OBVIOUS
<1>2. ASSUME NEW k \in 1 .. N, k - 1 \in T PROVE k \in T
    <2>1. k - 1 \in 0 .. N - 1 /\ (k - 1) + 1 = k /\ k \in 0 .. N
        OBVIOUS
    <2>2. w[k - 1] <= B /\ w[k] \in Nat
        BY <1>2, <2>1
    <2> QED
        BY <2>1, <2>2
<1> HIDE DEF T
<1>3. \A k \in 0 .. N : k \in T
    BY <1>1, <1>2, Upwards
<1>4. N \in T /\ w[N] \in Nat
    BY <1>3
<1> QED
    BY <1>4 DEF T

(* A channel stands on an entry of its table of which x is left to move.   *)
OnTable(s, t, ch, x, r) ==
    /\ r # << >> /\ (x = 0 => Head(r) = 0)
    /\ t = [s EXCEPT !.dma[ch] = [s.dma[ch] EXCEPT !.left = x, !.rest = r]]

(* SucDmaCheck's loop over a table comes to its end, or stands on an entry *)
(* with a part of it left to move, or on one of 0.                         *)
LEMMA MoveTableKinds ==
    ASSUME NEW s, ScuOk(s), NEW ch \in Channel, NEW all \in BOOLEAN,
           s.dma[ch].left > 0, ~s.dma[ch].direct
    PROVE  \/ MoveTable(s, ch, all) = Finish(s, ch, 0)
           \/ \E x \in Nat, r \in Seq(Nat) :
                 OnTable(s, MoveTable(s, ch, all), ch, x, r)
<1> DEFINE d == s.dma[ch]
           todo == [d.rest EXCEPT ![1] = d.left]
           words == WordsUpTo(todo)
           L == Len(todo)
           Crosses(i) == words[i] <= Burst /\ Burst < words[i + 1]
           moved == CHOOSE i \in 0 .. L - 1 : Crosses(i)
           x == todo[moved + 1] - Word * (Burst - words[moved])
           r == SubSeq(d.rest, moved + 1, Len(d.rest))
<1>1. TransferOk(d) /\ d \in Transfer
    BY DEF ScuOk, TransferOk
<1>2. d.left \in Nat \ {0} /\ d.rest \in Seq(Nat) /\ d.rest # << >>
    BY <1>1 DEF Transfer, TransferOk
<1>3. /\ todo \in Seq(Nat) /\ L = Len(d.rest) /\ L \in Nat \ {0}
      /\ todo[1] = d.left /\ \A i \in 2 .. L : todo[i] = d.rest[i]
    BY <1>2
<1>4. MoveTable(s, ch, all) =
         IF all \/ words[L] <= Burst THEN Finish(s, ch, 0)
         ELSE [s EXCEPT !.dma[ch] = [d EXCEPT !.left = x, !.rest = r]]
    BY DEF MoveTable
<1>5. CASE all \/ words[L] <= Burst
    BY <1>4, <1>5
<1>6. CASE ~(all \/ words[L] <= Burst)
    <2> HIDE DEF d, todo
    <2>1. /\ words \in [0 .. L -> Nat] /\ words[0] = 0
          /\ \A i \in 1 .. L : words[i] = words[i - 1] + WordsOf(todo[i])
        BY <1>3, WordsUpToOk
    <2> HIDE DEF words
    <2>2. Burst \in Nat \ {0}
        BY MaxCountAssumption
    <2>3. \E i \in 0 .. L - 1 : Crosses(i)
        <3>1. L \in Nat /\ words[L] \in Nat /\ words[0] <= Burst /\ Burst < words[L]
            BY <1>3, <1>6, <2>1, <2>2
        <3> QED
            BY <2>1, <2>2, <3>1, Crossing
    <2>4. moved \in 0 .. L - 1 /\ Crosses(moved)
        BY <2>3
    <2> HIDE DEF moved
    <2>5. /\ moved + 1 \in 1 .. L /\ (moved + 1) - 1 = moved
          /\ todo[moved + 1] \in Nat /\ words[moved] \in Nat
          /\ words[moved + 1] = words[moved] + WordsOf(todo[moved + 1])
        <3>1. /\ moved + 1 \in 1 .. L /\ (moved + 1) - 1 = moved
              /\ moved \in 0 .. L
            BY <1>3, <2>4
        <3>2. todo[moved + 1] \in Nat
            BY <1>3, <3>1
        <3>4. words[moved] \in Nat
            <4> HIDE DEF L
            <4> QED
                BY <2>1, <3>1
        <3>3. words[moved + 1] = words[(moved + 1) - 1] + WordsOf(todo[moved + 1])
            BY <2>1, <3>1
        <3> QED
            BY <3>1, <3>2, <3>3, <3>4
    <2> DEFINE m == Burst - words[moved]
               n == todo[moved + 1]
    <2>6. m \in Nat /\ n \in Nat /\ x = n - Word * m
        BY <2>2, <2>4, <2>5
    <2>7. m < WordsOf(n)
        <3> DEFINE k == WordsOf(n)
        <3>1. k \in Nat /\ Burst < words[moved] + k
            BY <2>4, <2>5, <2>6, WordsOfOk
        <3> HIDE DEF k
        <3>2. m < k
            BY <2>2, <2>5, <3>1
        <3> QED
            BY <3>2 DEF k
    <2> HIDE DEF x
    <2>8. x \in Nat /\ (x = 0 => n = 0)
        <3> HIDE DEF m, n
        <3>1. n # 0 => Word * m < n
            BY <2>6, <2>7, WordsOfOk
        <3>2. n = 0 => m = 0
            BY <2>6, <2>7, WordsOfOk
        <3> QED
            BY <2>6, <3>1, <3>2 DEF Word
    <2>9. /\ r \in Seq(Nat) /\ r # << >> /\ Head(r) = d.rest[moved + 1]
        <3>1. moved + 1 \in 1 .. Len(d.rest) /\ Len(d.rest) \in Nat
            BY <1>3, <2>5
        <3> DEFINE q == d.rest
                   e == Len(q)
                   a == moved + 1
        <3>2. q \in Seq(Nat) /\ e \in Nat /\ a \in 1 .. e
            BY <1>2, <3>1
        <3> HIDE DEF q, a
        <3>3. /\ a \in Int /\ e \in Int /\ 1 \in 1 .. e - a + 1
              /\ a + 1 - 1 = a /\ a <= e
              /\ \A i \in a .. e : q[i] \in Nat
            BY <3>2
        <3> HIDE DEF e
        <3>4. /\ SubSeq(q, a, e) \in Seq(Nat)
              /\ Len(SubSeq(q, a, e)) = IF a <= e THEN e - a + 1 ELSE 0
              /\ \A i \in 1 .. e - a + 1 : SubSeq(q, a, e)[i] = q[a + i - 1]
            BY <3>2, <3>3, SubSeqProperties
        <3> DEFINE u == SubSeq(q, a, e)
        <3>5. u \in Seq(Nat) /\ Len(u) = e - a + 1 /\ u[1] = q[a]
            BY <3>3, <3>4
        <3>6. r = u
            BY DEF q, a, e
        <3> HIDE DEF u, r
        <3>7. u # << >> /\ Head(u) = u[1]
            BY <3>3, <3>5
        <3> QED
            BY <3>5, <3>6, <3>7 DEF q, a
    <2>10. x = 0 => Head(r) = 0
        <3>1. CASE moved = 0
            BY <1>2, <1>3, <2>8, <3>1
        <3>2. CASE moved # 0
            <4>1. moved + 1 \in 2 .. L
                BY <2>4, <3>2
            <4> QED
                BY <1>3, <2>8, <2>9, <4>1
        <3> QED
            BY <3>1, <3>2
    <2> HIDE DEF r, L
    <2>11. MoveTable(s, ch, all)
              = [s EXCEPT !.dma[ch] = [d EXCEPT !.left = x, !.rest = r]]
        BY <1>4, <1>6
    <2> QED
        BY <2>8, <2>9, <2>10, <2>11 DEF d, OnTable
<1> QED
    BY <1>5, <1>6

(* SucDmaExec on a direct transfer: through, or a part of it left.         *)
LEMMA MoveCountKinds ==
    ASSUME NEW s, ScuOk(s), NEW ch \in Channel, NEW all \in BOOLEAN,
           s.dma[ch].left > 0
    PROVE  \/ \E x \in {-1, 0} : MoveCount(s, ch, all) = Finish(s, ch, x)
           \/ \E x \in Nat \ {0} :
                 MoveCount(s, ch, all)
                    = [s EXCEPT !.dma[ch] = [s.dma[ch] EXCEPT !.left = x]]
<1> DEFINE d == s.dma[ch]
           left == d.left
           x == -(left % Word)
           y == left - Word * Burst
<1>1. left \in Nat \ {0}
    BY DEF ScuOk, TransferOk, Transfer
<1>2. MoveCount(s, ch, all) =
         IF all \/ d.cd \/ left <= Word * Burst THEN Finish(s, ch, x)
         ELSE [s EXCEPT !.dma[ch] = [d EXCEPT !.left = y]]
    BY DEF MoveCount
<1>3. Burst \in Nat
    BY MaxCountAssumption
<1> HIDE DEF left
<1>4. x \in {-1, 0}
    BY <1>1 DEF Word
<1>5. ~(left <= Word * Burst) => y \in Nat \ {0}
    BY <1>1, <1>3 DEF Word
<1> HIDE DEF x, y
<1> QED
    BY <1>2, <1>4, <1>5

(* SucDmaCheck: nothing, the end of the transfer, or a transfer that is    *)
(* not at its end.                                                         *)
LEMMA DmaCheckKinds ==
    ASSUME NEW s, ScuOk(s), NEW ch \in Channel, NEW all \in BOOLEAN
    PROVE  \/ DmaCheck(s, ch, all) = s
           \/ \E x \in {-1, 0} : /\ s.dma[ch].direct \/ x = 0
                                 /\ DmaCheck(s, ch, all) = Finish(s, ch, x)
           \/ \E d : /\ TransferOk(d) /\ ~Ended(d)
                     /\ DmaCheck(s, ch, all) = [s EXCEPT !.dma[ch] = d]
<1> DEFINE d == s.dma[ch]
           left == d.left
<1>1. TransferOk(d) /\ d \in Transfer
    BY DEF ScuOk, TransferOk
<1>2. left \in Int /\ d.rest \in Seq(Nat) /\ d.direct \in BOOLEAN
    BY <1>1 DEF Transfer
<1>3. CASE left <= 0
    BY <1>2, <1>3 DEF DmaCheck
<1>4. CASE left > 0 /\ d.direct
    <2>1. DmaCheck(s, ch, all) = MoveCount(s, ch, all)
        BY <1>2, <1>4 DEF DmaCheck
    <2>2. CASE \E x \in {-1, 0} : MoveCount(s, ch, all) = Finish(s, ch, x)
        BY <1>4, <2>1, <2>2
    <2>3. ASSUME NEW x \in Nat \ {0},
                 MoveCount(s, ch, all) = [s EXCEPT !.dma[ch] = [d EXCEPT !.left = x]]
          PROVE  \E e : /\ TransferOk(e) /\ ~Ended(e)
                        /\ DmaCheck(s, ch, all) = [s EXCEPT !.dma[ch] = e]
        <3> DEFINE e == [d EXCEPT !.left = x]
        <3>1. /\ e \in Transfer /\ e.left = x /\ e.rest = << >>
              /\ e.direct = d.direct
            <4>1. d.rest = << >>
                BY <1>1, <1>4 DEF TransferOk
            <4>2. e \in Transfer
                BY <1>1 DEF Transfer
            <4>3. e.left = x /\ e.rest = d.rest /\ e.direct = d.direct
                BY <1>1 DEF Transfer
            <4> QED
                BY <4>1, <4>2, <4>3
        <3>2. DmaCheck(s, ch, all) = [s EXCEPT !.dma[ch] = e]
            BY <2>1, <2>3
        <3> HIDE DEF e
        <3>3. TransferOk(e) /\ ~Ended(e)
            BY <1>4, <3>1 DEF TransferOk, Ended, Stuck, Word
        <3> QED
            BY <3>2, <3>3
    <2>4. left > 0
        BY <1>4
    <2> QED
        BY <2>2, <2>3, <2>4, MoveCountKinds
<1>5. CASE left > 0 /\ ~d.direct
    <2>1. DmaCheck(s, ch, all) = MoveTable(s, ch, all)
        BY <1>2, <1>5 DEF DmaCheck
    <2>2. CASE MoveTable(s, ch, all) = Finish(s, ch, 0)
        BY <2>1, <2>2
    <2>3. ASSUME NEW x \in Nat, NEW r \in Seq(Nat),
                 OnTable(s, MoveTable(s, ch, all), ch, x, r)
          PROVE  \E e : /\ TransferOk(e) /\ ~Ended(e)
                        /\ DmaCheck(s, ch, all) = [s EXCEPT !.dma[ch] = e]
        <3>1. x \in Int /\ x > -2 /\ x >= 0 /\ (x <= 0 => x = 0)
            OBVIOUS
        <3>2. r # << >> /\ (x = 0 => Head(r) = 0)
            BY <2>3 DEF OnTable
        <3>3. DmaCheck(s, ch, all)
                 = [s EXCEPT !.dma[ch] = After(d, x, r)]
            BY <2>1, <2>3 DEF OnTable, After
        <3>4. d \in Transfer /\ ~d.direct
            BY <1>1, <1>5
        <3> HIDE DEF d
        <3>5. Settles(d, x, r)
            BY <3>1, <3>2, <3>4 DEF Settles
        <3>6. TransferOk(After(d, x, r)) /\ After(d, x, r).rest = r
            BY <3>1, <3>4, <3>5, TransferUpdate
        <3>7. ~Ended(After(d, x, r))
            BY <3>2, <3>6 DEF Ended
        <3> QED
            BY <3>3, <3>6, <3>7
    <2>4. \/ MoveTable(s, ch, all) = Finish(s, ch, 0)
          \/ \E x \in Nat, r \in Seq(Nat) :
                OnTable(s, MoveTable(s, ch, all), ch, x, r)
        BY <1>5, MoveTableKinds
    <2> QED
        BY <2>2, <2>3, <2>4
<1>6. left <= 0 \/ left > 0
    <2> HIDE DEF left
    <2> QED
        BY <1>2
<1> QED
    BY <1>2, <1>3, <1>4, <1>5, <1>6

(* SucDmaCheck keeps the SCU as it should be.                              *)
LEMMA DmaCheckOk ==
    ASSUME NEW s, ScuOk(s), NEW ch \in Channel, NEW all \in BOOLEAN
    PROVE  Moves(s, DmaCheck(s, ch, all), DmaEnd)
<1>1. CASE DmaCheck(s, ch, all) = s
    BY <1>1, MovesNothing
<1>2. ASSUME NEW x \in {-1, 0}, s.dma[ch].direct \/ x = 0,
             DmaCheck(s, ch, all) = Finish(s, ch, x)
      PROVE  Moves(s, DmaCheck(s, ch, all), DmaEnd)
    BY <1>2, FinishOk
<1>3. ASSUME NEW d, TransferOk(d), DmaCheck(s, ch, all) = [s EXCEPT !.dma[ch] = d]
      PROVE  Moves(s, DmaCheck(s, ch, all), DmaEnd)
    BY <1>3, DmaUpdate
<1> QED
    BY <1>1, <1>2, <1>3, DmaCheckKinds

(* ScuDmaProc, the three channels in turn.                                 *)
LEMMA DmaProcOk ==
    ASSUME NEW s, ScuOk(s), NEW all \in BOOLEAN
    PROVE  Moves(s, DmaProc(s, all), DmaEnd)
<1> DEFINE t == DmaCheck(s, 0, all)
           u == DmaCheck(t, 1, all)
           v == DmaCheck(u, 2, all)
<1>1. 0 \in Channel /\ 1 \in Channel /\ 2 \in Channel
    BY DEF Channel
<1>2. Moves(s, t, DmaEnd)
    BY <1>1, DmaCheckOk
<1> HIDE DEF t
<1>3. Moves(t, u, DmaEnd)
    BY <1>1, <1>2, DmaCheckOk DEF Moves
<1> HIDE DEF u
<1>4. Moves(u, v, DmaEnd)
    BY <1>1, <1>3, DmaCheckOk DEF Moves
<1>5. DmaProc(s, all) = v
    BY DEF DmaProc, t, u
<1> HIDE DEF v
<1> QED
    BY <1>2, <1>3, <1>4, <1>5, MovesTwice

-----------------------------------------------------------------------------
(* A channel is started: loaded from its registers, after what it had left *)
(* to move has been moved.                                                 *)
LEMMA DirectCountOk ==
    ASSUME NEW ch \in Channel, NEW count \in Nat
    PROVE  DirectCount(ch, count) \in Nat \ {0}
<1> DEFINE m == count % MaxCount12
<1>1. m \in Nat
    BY MaxCountAssumption
<1> HIDE DEF m
<1>2. (IF ch > 0 THEN m ELSE count) \in Nat
    BY <1>1 DEF Channel
<1> QED
    BY <1>2, MaxCountAssumption DEF DirectCount, m

(* A channel is loaded from its registers: it has something to move, or    *)
(* its table starts with an entry of 0.                                    *)
LEMMA LoadKinds ==
    ASSUME NEW s, ScuOk(s), NEW ch \in Channel
    PROVE  \E d : /\ TransferOk(d) /\ ~Ended(d)
                  /\ Load(s, ch) = [s EXCEPT !.dma[ch] = d]
<1> DEFINE r == s.regs[ch]
<1>1. r \in Registers
    BY DEF ScuOk, ScuState
<1>2. r.list \in Seq(Nat) /\ r.list # << >>
    BY <1>1 DEF Registers, Table
<1>3. r.count \in Nat /\ r.cd \in BOOLEAN
    BY <1>1 DEF Registers
<1>4. CASE r.indirect
    <2> DEFINE x == Head(r.list)
               d == [left |-> x, rest |-> r.list, direct |-> FALSE, cd |-> FALSE]
    <2>1. x \in Nat
        BY <1>2
    <2>2. Load(s, ch) = [s EXCEPT !.dma[ch] = d]
        BY <1>4 DEF Load
    <2>3. d \in Transfer /\ d.left = x /\ d.direct = FALSE /\ d.rest = r.list
        BY <1>2, <2>1 DEF Transfer
    <2> HIDE DEF d
    <2>4. TransferOk(d) /\ ~Ended(d)
        BY <1>2, <2>1, <2>3 DEF TransferOk, Ended, Stuck, Word
    <2> QED
        BY <2>2, <2>4
<1>5. CASE ~r.indirect
    <2> DEFINE x == DirectCount(ch, r.count)
               d == [left |-> x, rest |-> << >>, direct |-> TRUE, cd |-> r.cd]
    <2>1. x \in Nat \ {0} /\ << >> \in Seq(Nat)
        BY <1>3, DirectCountOk
    <2>2. Load(s, ch) = [s EXCEPT !.dma[ch] = d]
        BY <1>5 DEF Load
    <2> HIDE DEF x
    <2>3. /\ d \in Transfer /\ d.left = x /\ d.direct = TRUE
          /\ d.rest = << >>
        BY <1>3, <2>1 DEF Transfer
    <2> HIDE DEF d
    <2>4. TransferOk(d) /\ ~Ended(d)
        BY <2>1, <2>3 DEF TransferOk, Ended, Stuck, Word
    <2> QED
        BY <2>2, <2>4
<1> QED
    BY <1>4, <1>5

(* Loading a channel keeps the SCU as it should be.                        *)
LEMMA LoadOk ==
    ASSUME NEW s, ScuOk(s), NEW ch \in Channel
    PROVE  Moves(s, Load(s, ch), DmaEnd)
BY LoadKinds, DmaUpdate

(* A start: flush, load, first burst.                                      *)
LEMMA StartOk ==
    ASSUME NEW s, ScuOk(s), NEW ch \in Channel, NEW busy \in BOOLEAN
    PROVE  Moves(s, Start(s, ch, busy), DmaEnd)
<1> DEFINE t == IF busy THEN DmaProc(s, TRUE) ELSE s
           u == Load(t, ch)
           v == DmaProc(u, FALSE)
<1>1. Moves(s, t, DmaEnd)
    BY DmaProcOk, MovesNothing
<1> HIDE DEF t
<1>2. Moves(t, u, DmaEnd)
    BY <1>1, LoadOk DEF Moves
<1> HIDE DEF u
<1>3. Moves(u, v, DmaEnd)
    BY <1>2, DmaProcOk DEF Moves
<1>4. Start(s, ch, busy) = v
    BY DEF Start, t, u
<1> HIDE DEF v
<1> QED
    BY <1>1, <1>2, <1>3, <1>4, MovesTwice

(* Bit 8 of DnEN is written.                                               *)
LEMMA EnableUpdate ==
    ASSUME NEW s, ScuOk(s), NEW ch \in Channel, NEW on \in BOOLEAN
    PROVE  Moves(s, [s EXCEPT !.regs[ch].enable = on], DmaEnd)
<1> DEFINE r == [s.regs[ch] EXCEPT !.enable = on]
<1>1. r \in Registers
    BY DEF ScuOk, ScuState, Registers
<1>2. [s EXCEPT !.regs[ch].enable = on] = [s EXCEPT !.regs[ch] = r]
    OBVIOUS
<1> HIDE DEF r
<1> QED
    BY <1>1, <1>2, RegsUpdate

(* ScuChekIntrruptDMA on one channel.                                      *)
LEMMA CheckOneOk ==
    ASSUME NEW s, ScuOk(s), NEW ch \in Channel, NEW id
    PROVE  Moves(s, CheckOne(s, ch, id), DmaEnd)
<1> DEFINE busy == s.dma[ch].left > 0
           t == Start(s, ch, busy)
           u == [t EXCEPT !.regs[ch].enable = FALSE]
<1>1. busy \in BOOLEAN
    BY DEF ScuOk, TransferOk, Transfer
<1>2. Moves(s, t, DmaEnd)
    <2> HIDE DEF busy
    <2> QED
        BY <1>1, StartOk
<1>3. CheckOne(s, ch, id) = u \/ CheckOne(s, ch, id) = s
    BY DEF CheckOne
<1> HIDE DEF t
<1>4. Moves(t, u, DmaEnd)
    BY <1>2, EnableUpdate DEF Moves
<1> HIDE DEF u
<1> QED
    BY <1>2, <1>3, <1>4, MovesTwice, MovesNothing

(* ScuChekIntrruptDMA on the three of them.                                *)
LEMMA CheckInterruptDMAOk ==
    ASSUME NEW s, ScuOk(s), NEW id
    PROVE  Moves(s, CheckInterruptDMA(s, id), DmaEnd)
<1> DEFINE t == CheckOne(s, 0, id)
           u == CheckOne(t, 1, id)
           v == CheckOne(u, 2, id)
<1>1. 0 \in Channel /\ 1 \in Channel /\ 2 \in Channel
    BY DEF Channel
<1>2. Moves(s, t, DmaEnd)
    BY <1>1, CheckOneOk
<1> HIDE DEF t
<1>3. Moves(t, u, DmaEnd)
    BY <1>1, <1>2, CheckOneOk DEF Moves
<1> HIDE DEF u
<1>4. Moves(u, v, DmaEnd)
    BY <1>1, <1>3, CheckOneOk DEF Moves
<1>5. CheckInterruptDMA(s, id) = v
    BY DEF CheckInterruptDMA, t, u
<1> HIDE DEF v
<1> QED
    BY <1>2, <1>3, <1>4, <1>5, MovesTwice

(* The registers of a channel.                                             *)
LEMMA WriteDnENOk ==
    ASSUME NEW s, ScuOk(s), NEW ch \in Channel,
           NEW go \in BOOLEAN, NEW enable \in BOOLEAN
    PROVE  Moves(s, WriteDnEN(s, ch, go, enable), DmaEnd)
<1> DEFINE busy == s.dma[ch].left # 0
           t == IF go /\ s.regs[ch].factor = StartByProgram
                THEN Start(s, ch, busy) ELSE s
           u == [t EXCEPT !.regs[ch].enable = enable]
<1>1. Moves(s, t, DmaEnd)
    BY StartOk, MovesNothing
<1>2. WriteDnEN(s, ch, go, enable) = u
    BY DEF WriteDnEN
<1> HIDE DEF t
<1>3. Moves(t, u, DmaEnd)
    BY <1>1, EnableUpdate DEF Moves
<1> HIDE DEF u
<1> QED
    BY <1>1, <1>2, <1>3, MovesTwice

\* A write to a register of a level-n DMA channel leaves the typed state typed.
(* A write to DnMD keeps the SCU as it should be.                          *)
LEMMA WriteDnMDOk ==
    ASSUME NEW s, ScuOk(s), NEW ch \in Channel,
           NEW factor \in 0 .. 7, NEW indirect \in BOOLEAN
    PROVE  Moves(s, WriteDnMD(s, ch, factor, indirect), DmaEnd)
<1> DEFINE q == [s.regs[ch] EXCEPT !.factor = factor]
           r == [s.regs[ch] EXCEPT !.factor = factor, !.indirect = indirect]
<1>1. s.regs[ch] \in Registers
    BY DEF ScuOk, ScuState
<1>2. q \in Registers
    BY <1>1 DEF Registers
<1>3. r \in Registers
    BY <1>1, <1>2 DEF Registers
<1>4. WriteDnMD(s, ch, factor, indirect) = [s EXCEPT !.regs[ch] = r]
    BY DEF WriteDnMD
<1> HIDE DEF r
<1> QED
    BY <1>3, <1>4, RegsUpdate

(* The count and address registers of a channel are written.               *)
LEMMA WriteTransferOk ==
    ASSUME NEW s, ScuOk(s), NEW ch \in Channel,
           NEW w \in [count : Nat, cd : BOOLEAN, list : Table]
    PROVE  Moves(s, WriteTransfer(s, ch, w), DmaEnd)
<1> DEFINE q == [s.regs[ch] EXCEPT !.count = w.count]
           p == [s.regs[ch] EXCEPT !.count = w.count, !.cd = w.cd]
           x == w.list
           r == [s.regs[ch] EXCEPT !.count = w.count, !.cd = w.cd, !.list = x]
<1>1. s.regs[ch] \in Registers
    BY DEF ScuOk, ScuState
<1>2. q \in Registers
    BY <1>1 DEF Registers
<1>3. p \in Registers
    BY <1>1, <1>2 DEF Registers
<1>4. r \in Registers
    <2>1. x \in Table
        OBVIOUS
    <2> HIDE DEF x
    <2>2. r = [p EXCEPT !.list = x]
        BY <1>1 DEF Registers
    <2> HIDE DEF p
    <2>3. [p EXCEPT !.list = x] \in Registers
        BY <1>3, <2>1 DEF Registers
    <2> QED
        BY <2>2, <2>3
<1>5. WriteTransfer(s, ch, w) = [s EXCEPT !.regs[ch] = r]
    BY DEF WriteTransfer
<1> HIDE DEF r
<1> QED
    BY <1>4, <1>5, RegsUpdate

-----------------------------------------------------------------------------
(* What the parts and the program do to the SCU as a whole: it stays as it *)
(* should be, and a pending timer 1 interrupt is of a count that ran out.  *)
Does(s, t, S) ==
    /\ ScuOk(t)
    /\ Keeps(s.irq, t.irq, S)
    /\ TimersOk(s) => TimersOk(t)

(* What they do to timer 0: unless the program writes to T0C or T1MD, a    *)
(* pending timer 0 interrupt stays that of the line it stands on.          *)
Follows(s, t) ==
    /\ t.timer.enable = s.timer.enable
    /\ t.timer.T0C = s.timer.T0C
    /\ Timer0Current(s, t)

Acts(s, t, S) == Does(s, t, S) /\ Follows(s, t)

NoTimer == Source \ {"Timer0", "Timer1"}

(* Timer 0 and its registers stay, or timer 1.                             *)
Same0(m, n) == n.enable = m.enable /\ n.T0C = m.T0C /\ n.timer0 = m.timer0
Same1(m, n) == n.timer1_set = m.timer1_set /\ n.counter = m.counter

(* A step that leaves the timers alone and queues no timer keeps pending   *)
(* timers current.                                                         *)
LEMMA MovesActs ==
    ASSUME NEW s, NEW t, NEW S \in SUBSET NoTimer, Moves(s, t, S)
    PROVE  Acts(s, t, S)
<1>1. /\ ScuOk(t) /\ Keeps(s.irq, t.irq, S) /\ t.timer = s.timer
      /\ Queued(t.irq) \subseteq Queued(s.irq) \cup S
    BY DEF Moves, Keeps
<1>2. "Timer0" \notin S /\ "Timer1" \notin S
    BY DEF NoTimer
<1>3. TimersOk(s) => TimersOk(t)
    BY <1>1, <1>2 DEF TimersOk
<1>4. Follows(s, t)
    BY <1>1, <1>2 DEF Follows, Timer0Current
<1> QED
    BY <1>1, <1>3, <1>4 DEF Acts, Does

(* Does is transitive.                                                     *)
LEMMA DoesTwice ==
    ASSUME NEW s, NEW t, NEW u, NEW S, Does(s, t, S), Does(t, u, S)
    PROVE  Does(s, u, S)
BY DEF Does, Keeps

(* Follows is transitive: a pending interrupt is from the line of the last *)
(* step that counted one, or from before them all.                         *)
LEMMA FollowsTwice ==
    ASSUME NEW s, NEW t, NEW u, Follows(s, t), Follows(t, u)
    PROVE  Follows(s, u)
BY DEF Follows, Timer0Current

(* Acts is transitive.                                                     *)
LEMMA ActsTwice ==
    ASSUME NEW s, NEW t, NEW u, NEW S, Acts(s, t, S), Acts(t, u, S)
    PROVE  Acts(s, u, S)
BY DoesTwice, FollowsTwice DEF Acts

(* Acts may name more sources than needed.                                 *)
LEMMA ActsMore ==
    ASSUME NEW s, NEW t, NEW S, NEW T, Acts(s, t, S), S \subseteq T
    PROVE  Acts(s, t, T)
BY DEF Acts, Does, Keeps

(* What it leaves is as it should be.                                      *)
LEMMA ActsOk ==
    ASSUME NEW s, NEW t, NEW S, Acts(s, t, S)
    PROVE  ScuOk(t) /\ Keeps(s.irq, t.irq, S)
BY DEF Acts, Does

(* The ends of the channels are not timer interrupts.                      *)
LEMMA DmaEndIsNoTimer == DmaEnd \in SUBSET NoTimer
BY DEF DmaEnd, NoTimer, Source

(* The fields of a timer record and their types.                           *)
LEMMA TimerFields ==
    ASSUME NEW m \in Timers
    PROVE  /\ \A x \in Nat : [m EXCEPT !.T0C = x] \in Timers
           /\ \A x \in BOOLEAN : [m EXCEPT !.enable = x] \in Timers
           /\ \A x \in BOOLEAN : [m EXCEPT !.line = x] \in Timers
           /\ \A x \in Nat : [m EXCEPT !.timer0 = x] \in Timers
           /\ \A x \in BOOLEAN : [m EXCEPT !.timer0_set = x] \in Timers
           /\ \A x \in BOOLEAN : [m EXCEPT !.timer1_set = x] \in Timers
           /\ \A x \in Int : [m EXCEPT !.counter = x] \in Timers
           /\ \A x \in Nat : [m EXCEPT !.preset = x] \in Timers
BY DEF Timers

(* The timers are written; the rest of the SCU stays.                      *)
LEMMA TimerUpdate ==
    ASSUME NEW s, ScuOk(s), NEW m \in Timers
    PROVE  /\ ScuOk([s EXCEPT !.timer = m])
           /\ [s EXCEPT !.timer = m].irq = s.irq
           /\ [s EXCEPT !.timer = m].timer = m
<1> DEFINE t == [s EXCEPT !.timer = m]
<1>1. /\ t \in ScuState /\ t.irq = s.irq /\ t.timer = m /\ t.dma = s.dma
    BY DEF ScuOk, ScuState
<1> HIDE DEF t
<1> QED
    BY <1>1 DEF t, ScuOk

(* The timers are typed in a proper state.                                 *)
LEMMA TimerTyped == ASSUME NEW s, ScuOk(s) PROVE s.timer \in Timers
BY DEF ScuOk, ScuState

(* An interrupt, and the DMA that waits for it.                            *)
LEMMA RaiseAndStartOk ==
    ASSUME NEW s, ScuOk(s), NEW src \in Source
    PROVE  Moves(s, RaiseAndStart(s, src), DmaEnd \cup {src})
<1> DEFINE t == Raise(s, src)
           S == DmaEnd \cup {src}
<1>1. Moves(s, t, {src})
    BY RaiseOk
<1> HIDE DEF t
<1>2. Moves(t, CheckInterruptDMA(t, FactorOf[src]), DmaEnd)
    BY <1>1, CheckInterruptDMAOk DEF Moves
<1>3. Moves(s, t, S) /\ Moves(t, CheckInterruptDMA(t, FactorOf[src]), S)
    BY <1>1, <1>2, MovesMore
<1> HIDE DEF S
<1>4. Moves(s, CheckInterruptDMA(t, FactorOf[src]), S)
    BY <1>3, MovesTwice
<1> QED
    BY <1>4 DEF RaiseAndStart, S, t

(* The interrupts of the sound and of VDP1.                                *)
LEMMA DeviceOk ==
    ASSUME NEW s, ScuOk(s)
    PROVE  /\ Acts(s, ScuSendSoundRequest(s), DmaEnd \cup {"SoundRequest"})
           /\ Acts(s, ScuSendDrawEnd(s), DmaEnd \cup {"DrawEnd"})
<1>1. /\ "SoundRequest" \in Source /\ "DrawEnd" \in Source
      /\ DmaEnd \cup {"SoundRequest"} \in SUBSET NoTimer
      /\ DmaEnd \cup {"DrawEnd"} \in SUBSET NoTimer
    BY DEF Source, NoTimer, DmaEnd
<1> QED
    BY <1>1, RaiseAndStartOk, MovesActs
    DEF ScuSendSoundRequest, ScuSendDrawEnd

(* VBlank-IN: timer 0 is withdrawn.                                        *)
LEMMA SendVBlankINOk ==
    ASSUME NEW s, ScuOk(s)
    PROVE  Acts(s, ScuSendVBlankIN(s), DmaEnd \cup {"VBlankIN"})
<1> DEFINE t == Withdraw(s, "Timer0")
           S == DmaEnd \cup {"VBlankIN"}
<1>1. /\ "Timer0" \in Source /\ "VBlankIN" \in Source
      /\ S \in SUBSET NoTimer /\ {} \subseteq S
    BY DEF Source, NoTimer, DmaEnd
<1>2. Moves(s, t, {})
    BY <1>1, WithdrawOk
<1> HIDE DEF t
<1>3. Moves(t, RaiseAndStart(t, "VBlankIN"), S)
    BY <1>1, <1>2, RaiseAndStartOk DEF Moves
<1> HIDE DEF S
<1>4. Moves(s, RaiseAndStart(t, "VBlankIN"), S)
    BY <1>1, <1>2, <1>3, MovesMore, MovesTwice
<1> QED
    BY <1>1, <1>4, MovesActs DEF ScuSendVBlankIN, S, t

(* The steps of the timers.                                                *)
Others == Source \ {"VBlankIN"}

(* Two fields of the timers written at once.                               *)
LEMMA TimerTwo ==
    ASSUME NEW m \in Timers
    PROVE  /\ \A x \in BOOLEAN, y \in Int :
                 [m EXCEPT !.timer1_set = x, !.counter = y] \in Timers
           /\ \A x \in BOOLEAN, y \in Nat :
                 [m EXCEPT !.timer1_set = x, !.preset = y] \in Timers
           /\ \A x, y \in BOOLEAN :
                 [m EXCEPT !.enable = x, !.line = y] \in Timers
<1>1. ASSUME NEW x \in BOOLEAN, NEW y \in Int
      PROVE  [m EXCEPT !.timer1_set = x, !.counter = y] \in Timers
    <2>1. [m EXCEPT !.timer1_set = x] \in Timers
        BY TimerFields
    <2> QED
        BY <2>1 DEF Timers
<1>2. ASSUME NEW x \in BOOLEAN, NEW y \in Nat
      PROVE  [m EXCEPT !.timer1_set = x, !.preset = y] \in Timers
    <2>1. [m EXCEPT !.timer1_set = x] \in Timers
        BY TimerFields
    <2> QED
        BY <2>1 DEF Timers
<1>3. ASSUME NEW x \in BOOLEAN, NEW y \in BOOLEAN
      PROVE  [m EXCEPT !.enable = x, !.line = y] \in Timers
    <2>1. [m EXCEPT !.enable = x] \in Timers
        BY TimerFields
    <2> QED
        BY <2>1 DEF Timers
<1> QED
    BY <1>1, <1>2, <1>3

(* What a write to one field of the timers leaves alone.                   *)
LEMMA TimerFrame ==
    ASSUME NEW m \in Timers
    PROVE  /\ \A x : /\ Same0(m, [m EXCEPT !.timer0_set = x])
                     /\ Same1(m, [m EXCEPT !.timer0_set = x])
           /\ \A x : /\ [m EXCEPT !.timer0 = x].enable = m.enable
                     /\ [m EXCEPT !.timer0 = x].T0C = m.T0C
                     /\ [m EXCEPT !.timer0 = x].timer0 = x
                     /\ Same1(m, [m EXCEPT !.timer0 = x])
           /\ \A x : /\ Same0(m, [m EXCEPT !.timer1_set = x])
                     /\ [m EXCEPT !.timer1_set = x].timer1_set = x
                     /\ [m EXCEPT !.timer1_set = x].counter = m.counter
           /\ \A x, y : Same0(m, [m EXCEPT !.timer1_set = x, !.counter = y])
BY DEF Timers, Same0, Same1

(* A write to the timers that keeps the promise of timer 1.                *)
LEMMA TimerDoes ==
    ASSUME NEW s, ScuOk(s), NEW m \in Timers,
           \/ "Timer1" \notin Queued(s.irq)
           \/ m.timer1_set /\ m.counter <= 0
           \/ /\ s.timer.timer1_set => m.timer1_set
              /\ m.counter = s.timer.counter
    PROVE  /\ Does(s, [s EXCEPT !.timer = m], Others)
           /\ [s EXCEPT !.timer = m].irq = s.irq
           /\ [s EXCEPT !.timer = m].timer = m
<1> DEFINE t == [s EXCEPT !.timer = m]
<1>1. ScuOk(t) /\ t.irq = s.irq /\ t.timer = m
    BY TimerUpdate
<1> HIDE DEF t
<1>2. TimersOk(s) => TimersOk(t)
    BY <1>1 DEF TimersOk
<1>3. Does(s, t, Others)
    BY <1>1, <1>2 DEF Does, Keeps, ScuOk
<1> QED
    BY <1>1, <1>3 DEF t

(* One that leaves timer 0 alone, too, acts.                               *)
LEMMA TimerActs ==
    ASSUME NEW s, NEW t, Does(s, t, Others), Same0(s.timer, t.timer),
           "Timer0" \in Queued(t.irq) => "Timer0" \in Queued(s.irq)
    PROVE  Acts(s, t, Others)
BY DEF Acts, Follows, Same0, Timer0Current

(* Timer 0 off its line: the flag is cleared and the interrupt withdrawn.  *)
LEMMA Timer0MissedOk ==
    ASSUME NEW s, ScuOk(s)
    PROVE  /\ Does(s, Timer0Missed(s), Others)
           /\ Same0(s.timer, Timer0Missed(s).timer)
           /\ "Timer0" \notin Queued(Timer0Missed(s).irq)
<1> DEFINE m == [s.timer EXCEPT !.timer0_set = FALSE]
           t == [s EXCEPT !.timer = m]
           u == Withdraw(t, "Timer0")
<1>1. s.timer \in Timers /\ "Timer0" \in Source
    BY TimerTyped DEF Source
<1>2. m \in Timers /\ Same0(s.timer, m) /\ Same1(s.timer, m)
    BY <1>1, TimerFields, TimerFrame
<1>3. Timer0Missed(s) = u
    BY DEF Timer0Missed
<1> HIDE DEF m
<1>4. Does(s, t, Others) /\ t.timer = m
    BY <1>2, TimerDoes DEF Same1
<1> HIDE DEF t
<1>5. Moves(t, u, {}) /\ "Timer0" \notin Queued(u.irq)
    BY <1>1, <1>4, WithdrawOk DEF Does
<1> HIDE DEF u
<1>6. {} \in SUBSET NoTimer /\ {} \subseteq Others
    OBVIOUS
<1>7. Does(t, u, Others)
    BY <1>5, <1>6, MovesActs, ActsMore DEF Acts
<1>8. Does(s, u, Others)
    BY <1>4, <1>7, DoesTwice
<1> QED
    BY <1>2, <1>3, <1>4, <1>5, <1>8 DEF Moves

(* Timer 1 reloaded: the flag is cleared and the interrupt withdrawn.      *)
LEMMA Timer1ReloadedOk ==
    ASSUME NEW s, ScuOk(s)
    PROVE  Acts(s, Timer1Reloaded(s), Others)
<1> DEFINE x == s.timer.preset
           m == [s.timer EXCEPT !.timer1_set = FALSE, !.counter = x]
           t == [s EXCEPT !.timer = m]
           u == Withdraw(t, "Timer1")
<1>1. s.timer \in Timers /\ "Timer1" \in Source
    BY TimerTyped DEF Source
<1>2. x \in Int
    BY <1>1 DEF Timers
<1>3. Timer1Reloaded(s) = u
    BY DEF Timer1Reloaded
<1> HIDE DEF x
<1>4. m \in Timers /\ Same0(s.timer, m)
    <2> DEFINE o == s.timer
               y == FALSE
    <2>1. o \in Timers /\ y \in BOOLEAN
        BY <1>1
    <2>2. m = [o EXCEPT !.timer1_set = y, !.counter = x]
        OBVIOUS
    <2> HIDE DEF o, y, m
    <2>3. m \in Timers
        BY <1>2, <2>1, <2>2, TimerTwo
    <2>4. Same0(o, m)
        BY <2>1, <2>2, TimerFrame
    <2> QED
        BY <2>3, <2>4 DEF o
<1> HIDE DEF m
<1>5. ScuOk(t) /\ t.irq = s.irq /\ t.timer = m
    BY <1>4, TimerUpdate
<1> HIDE DEF t
<1>6. Moves(t, u, {}) /\ "Timer1" \notin Queued(u.irq)
    BY <1>1, <1>5, WithdrawOk
<1> HIDE DEF u
<1>7. /\ Does(s, u, Others) /\ u.timer = m
      /\ Queued(u.irq) \subseteq Queued(s.irq)
    BY <1>5, <1>6 DEF Does, Moves, Keeps, TimersOk
<1> QED
    BY <1>3, <1>4, <1>7, TimerActs

(* The flag of timer 0 is set.                                             *)
LEMMA SetTimer0 ==
    ASSUME NEW s, ScuOk(s)
    PROVE  /\ ScuOk([s EXCEPT !.timer.timer0_set = TRUE])
           /\ [s EXCEPT !.timer.timer0_set = TRUE].irq = s.irq
           /\ Same0(s.timer, [s EXCEPT !.timer.timer0_set = TRUE].timer)
           /\ Same1(s.timer, [s EXCEPT !.timer.timer0_set = TRUE].timer)
<1> DEFINE m == [s.timer EXCEPT !.timer0_set = TRUE]
           t == [s EXCEPT !.timer = m]
<1>1. [s EXCEPT !.timer.timer0_set = TRUE] = t
    OBVIOUS
<1>2. m \in Timers /\ Same0(s.timer, m) /\ Same1(s.timer, m)
    BY TimerTyped, TimerFields, TimerFrame
<1> HIDE DEF m
<1>3. ScuOk(t) /\ t.irq = s.irq /\ t.timer = m
    BY <1>2, TimerUpdate
<1> HIDE DEF t
<1> QED
    BY <1>1, <1>2, <1>3

(* Timer 0 on its line: the flag is set and the interrupt raised, in       *)
(* either order.                                                           *)
LEMMA Timer0MatchedOk ==
    ASSUME NEW s, ScuOk(s), NEW u,
           \/ u = [ScuSendTimer0(s) EXCEPT !.timer.timer0_set = TRUE]
           \/ u = ScuSendTimer0([s EXCEPT !.timer.timer0_set = TRUE])
    PROVE  Does(s, u, Others) /\ Same0(s.timer, u.timer)
<1> DEFINE S == DmaEnd \cup {"Timer0"}
<1>1. /\ "Timer0" \in Source /\ S \subseteq Others
      /\ "Timer1" \notin S
    BY DEF Source, DmaEnd, Others
<1>2. /\ ScuOk(u) /\ Keeps(s.irq, u.irq, S)
      /\ Same0(s.timer, u.timer) /\ Same1(s.timer, u.timer)
    <2>1. CASE u = [ScuSendTimer0(s) EXCEPT !.timer.timer0_set = TRUE]
        <3> DEFINE t == ScuSendTimer0(s)
        <3>1. Moves(s, t, S)
            BY <1>1, RaiseAndStartOk DEF ScuSendTimer0
        <3>2. u = [t EXCEPT !.timer.timer0_set = TRUE]
            BY <2>1
        <3> HIDE DEF t, S
        <3>3. /\ ScuOk(u) /\ u.irq = t.irq
              /\ Same0(t.timer, u.timer) /\ Same1(t.timer, u.timer)
            BY <3>1, <3>2, SetTimer0 DEF Moves
        <3> QED
            BY <3>1, <3>3 DEF Moves
    <2>2. CASE u = ScuSendTimer0([s EXCEPT !.timer.timer0_set = TRUE])
        <3> DEFINE t == [s EXCEPT !.timer.timer0_set = TRUE]
        <3>1. /\ ScuOk(t) /\ t.irq = s.irq
              /\ Same0(s.timer, t.timer) /\ Same1(s.timer, t.timer)
            BY SetTimer0
        <3>2. u = ScuSendTimer0(t)
            BY <2>2
        <3> HIDE DEF t
        <3>3. Moves(t, u, S)
            BY <1>1, <3>1, <3>2, RaiseAndStartOk DEF ScuSendTimer0
        <3> HIDE DEF S
        <3> QED
            BY <3>1, <3>3 DEF Moves
    <2> QED
        BY <2>1, <2>2
<1> HIDE DEF S
<1>3. TimersOk(s) => TimersOk(u)
    BY <1>1, <1>2 DEF Keeps, TimersOk, Same1
<1> QED
    BY <1>1, <1>2, <1>3 DEF Does, Keeps

(* Timer 0 counts a line; the interrupt is left to the next step.          *)
LEMMA CountLine ==
    ASSUME NEW s, ScuOk(s), NEW n \in Nat
    PROVE  /\ Does(s, [s EXCEPT !.timer.timer0 = n], Others)
           /\ [s EXCEPT !.timer.timer0 = n].irq = s.irq
           /\ [s EXCEPT !.timer.timer0 = n].timer.timer0 = n
           /\ [s EXCEPT !.timer.timer0 = n].timer.enable = s.timer.enable
           /\ [s EXCEPT !.timer.timer0 = n].timer.T0C = s.timer.T0C
<1> DEFINE m == [s.timer EXCEPT !.timer0 = n]
           t == [s EXCEPT !.timer = m]
<1>1. [s EXCEPT !.timer.timer0 = n] = t
    OBVIOUS
<1>2. /\ m \in Timers /\ Same1(s.timer, m)
      /\ m.timer0 = n /\ m.enable = s.timer.enable /\ m.T0C = s.timer.T0C
    BY TimerTyped, TimerFields, TimerFrame
<1> HIDE DEF m
<1>3. Does(s, t, Others) /\ t.irq = s.irq /\ t.timer = m
    BY <1>2, TimerDoes DEF Same1
<1> HIDE DEF t
<1> QED
    BY <1>1, <1>2, <1>3

(* Acts is reflexive.                                                      *)
LEMMA ActsNothing ==
    ASSUME NEW s, ScuOk(s), NEW S PROVE Acts(s, s, S)
BY DEF Acts, Does, Follows, Timer0Current, Keeps, ScuOk

(* Raising an interrupt that is no timer's.                                *)
LEMMA RaiseActs ==
    ASSUME NEW s, ScuOk(s), NEW src \in NoTimer \ {"VBlankIN"}
    PROVE  Acts(s, Raise(s, src), Others)
<1>1. /\ src \in Source /\ {src} \in SUBSET NoTimer /\ {src} \subseteq Others
    BY DEF NoTimer, Others
<1> QED
    BY <1>1, RaiseOk, MovesActs, ActsMore

(* Withdrawing any interrupt.                                              *)
LEMMA WithdrawActs ==
    ASSUME NEW s, ScuOk(s), NEW src \in Source
    PROVE  /\ Acts(s, Withdraw(s, src), Others)
           /\ src \notin Queued(Withdraw(s, src).irq)
<1>1. {} \in SUBSET NoTimer /\ {} \subseteq Others
    OBVIOUS
<1> QED
    BY <1>1, WithdrawOk, MovesActs, ActsMore

(* The DMA an interrupt starts.                                            *)
LEMMA CheckActs ==
    ASSUME NEW s, ScuOk(s), NEW id
    PROVE  Acts(s, CheckInterruptDMA(s, id), Others)
<1>1. DmaEnd \subseteq Others
    BY DEF DmaEnd, Others, Source
<1> QED
    BY <1>1, DmaEndIsNoTimer, CheckInterruptDMAOk, MovesActs, ActsMore

(* VBlank-OUT; the VBlank-IN it withdraws stays out of the queue.          *)
LEMMA SendVBlankOUTOk ==
    ASSUME NEW s, ScuOk(s)
    PROVE  /\ Acts(s, ScuSendVBlankOUT(s), Others)
           /\ "VBlankIN" \notin Queued(ScuSendVBlankOUT(s).irq)
<1> DEFINE a1 == Raise(s, "VBlankOUT")
           a2 == Withdraw(a1, "VBlankIN")
           a3 == Withdraw(a2, "Timer0")
           a4 == Withdraw(a3, "Timer1")
           b == [a4 EXCEPT !.timer.timer0 = 0]
           c == IF ~b.timer.enable THEN b
                ELSE IF b.timer.T0C = 0
                THEN ScuSendTimer0([b EXCEPT !.timer.timer0_set = TRUE])
                ELSE Timer0Missed(b)
           d == CheckInterruptDMA(c, FactorOf["VBlankOUT"])
<1>1. /\ "VBlankOUT" \in NoTimer \ {"VBlankIN"} /\ "VBlankIN" \in Source
      /\ "Timer0" \in Source /\ "Timer1" \in Source
      /\ "VBlankIN" \notin Others /\ 0 \in Nat
    BY DEF NoTimer, Source, Others
<1>2. Acts(s, a1, Others)
    BY <1>1, RaiseActs
<1>3. ScuSendVBlankOUT(s) = d
    BY DEF ScuSendVBlankOUT
<1> HIDE DEF a1
<1>4. Acts(a1, a2, Others) /\ "VBlankIN" \notin Queued(a2.irq)
    BY <1>1, <1>2, WithdrawActs, ActsOk
<1> HIDE DEF a2
<1>5. Acts(a2, a3, Others) /\ "Timer0" \notin Queued(a3.irq)
    BY <1>1, <1>4, WithdrawActs, ActsOk
<1> HIDE DEF a3
<1>6. Acts(a3, a4, Others) /\ "Timer0" \notin Queued(a4.irq)
    <2>1. Acts(a3, a4, Others) /\ Queued(a4.irq) \subseteq Queued(a3.irq)
        BY <1>1, <1>5, WithdrawActs, WithdrawOk, ActsOk DEF Moves, Keeps
    <2> QED
        BY <1>5, <2>1
<1> HIDE DEF a4
<1>7. /\ Does(a4, b, Others) /\ b.irq = a4.irq /\ b.timer.timer0 = 0
      /\ b.timer.enable = a4.timer.enable /\ b.timer.T0C = a4.timer.T0C
    BY <1>1, <1>6, CountLine, ActsOk
<1> HIDE DEF b
<1>8. ScuOk(b) /\ Acts(a4, b, Others)
    BY <1>6, <1>7 DEF Acts, Does, Follows, Timer0Current
<1>9. Acts(b, c, Others)
    <2>1. CASE ~b.timer.enable
        BY <1>8, <2>1, ActsNothing
    <2>2. CASE b.timer.enable /\ b.timer.T0C = 0
        <3>1. Does(b, c, Others) /\ Same0(b.timer, c.timer)
            BY <1>8, <2>2, Timer0MatchedOk
        <3> HIDE DEF c
        <3> QED
            BY <1>7, <2>2, <3>1 DEF Acts, Follows, Same0, Timer0Current
    <2>3. CASE b.timer.enable /\ b.timer.T0C # 0
        <3>1. /\ Does(b, c, Others) /\ Same0(b.timer, c.timer)
              /\ "Timer0" \notin Queued(c.irq)
            BY <1>8, <2>3, Timer0MissedOk
        <3> HIDE DEF c
        <3> QED
            BY <3>1, TimerActs
    <2>4. b.timer.enable \in BOOLEAN
        BY <1>8, TimerTyped DEF Timers
    <2> QED
        BY <2>1, <2>2, <2>3, <2>4
<1> HIDE DEF c
<1>10. Acts(c, d, Others)
    BY <1>9, CheckActs, ActsOk
<1> HIDE DEF d
<1>11. Acts(a2, d, Others)
    BY <1>5, <1>6, <1>8, <1>9, <1>10, ActsTwice
<1>12. Acts(s, d, Others)
    BY <1>2, <1>4, <1>11, ActsTwice
<1>13. "VBlankIN" \notin Queued(d.irq)
    BY <1>1, <1>4, <1>11, ActsOk DEF Keeps
<1> QED
    BY <1>3, <1>12, <1>13

(* HBlank-IN.                                                              *)
LEMMA SendHBlankINOk ==
    ASSUME NEW s, ScuOk(s)
    PROVE  Acts(s, ScuSendHBlankIN(s), Others)
<1> DEFINE r == Raise(s, "HBlankIN")
           n == r.timer.timer0 + 1
           a == [r EXCEPT !.timer.timer0 = n]
           m == [ScuSendTimer0(a) EXCEPT !.timer.timer0_set = TRUE]
           b == IF a.timer.timer0 = a.timer.T0C THEN m ELSE Timer0Missed(a)
           c == IF b.timer.timer1_set THEN Timer1Reloaded(b) ELSE b
           e == IF a.timer.enable THEN c ELSE a
           d == CheckInterruptDMA(e, FactorOf["HBlankIN"])
<1>1. "HBlankIN" \in NoTimer \ {"VBlankIN"}
    BY DEF NoTimer, Source
<1>2. Acts(s, r, Others)
    BY <1>1, RaiseActs
<1>3. ScuSendHBlankIN(s) = d
    BY DEF ScuSendHBlankIN
<1> HIDE DEF r
<1>4. ScuOk(r) /\ n \in Nat /\ r.timer.enable \in BOOLEAN
    <2>1. ScuOk(r)
        BY <1>2, ActsOk
    <2>2. r.timer.timer0 \in Nat /\ r.timer.enable \in BOOLEAN
        BY <2>1, TimerTyped DEF Timers
    <2> QED
        BY <2>1, <2>2
<1> HIDE DEF n
<1>5. /\ Does(r, a, Others) /\ a.irq = r.irq /\ a.timer.timer0 = n
      /\ a.timer.enable = r.timer.enable /\ a.timer.T0C = r.timer.T0C
    BY <1>4, CountLine
<1> HIDE DEF a
<1>6. ScuOk(a)
    BY <1>5 DEF Does
<1>7. CASE ~a.timer.enable
    <2>1. Acts(r, e, Others)
        BY <1>5, <1>7 DEF Acts, Follows, Timer0Current
    <2> HIDE DEF e
    <2>2. Acts(e, d, Others)
        BY <2>1, CheckActs, ActsOk
    <2> HIDE DEF d
    <2> QED
        BY <1>2, <1>3, <2>1, <2>2, ActsTwice
<1>8. CASE a.timer.enable
    <2>1. a.timer.timer0 = a.timer.T0C => Acts(r, m, Others)
        <3> HIDE DEF m
        <3>1. SUFFICES ASSUME a.timer.timer0 = a.timer.T0C
                       PROVE  Acts(r, m, Others)
            OBVIOUS
        <3>2. Does(a, m, Others) /\ Same0(a.timer, m.timer)
            BY <1>6, Timer0MatchedOk DEF m
        <3>3. Does(r, m, Others)
            BY <1>5, <3>2, DoesTwice
        <3>4. Follows(r, m)
            BY <1>5, <1>8, <3>1, <3>2 DEF Follows, Same0, Timer0Current
        <3> QED
            BY <3>3, <3>4 DEF Acts
    <2>2. Acts(r, Timer0Missed(a), Others)
        <3> DEFINE k == Timer0Missed(a)
        <3>1. /\ Does(a, k, Others) /\ Same0(a.timer, k.timer)
              /\ "Timer0" \notin Queued(k.irq)
            BY <1>6, Timer0MissedOk
        <3> HIDE DEF k
        <3>2. Does(r, k, Others)
            BY <1>5, <3>1, DoesTwice
        <3>3. Follows(r, k)
            BY <1>5, <3>1 DEF Follows, Same0, Timer0Current
        <3>4. Acts(r, k, Others)
            BY <3>2, <3>3 DEF Acts
        <3> QED
            BY <3>4 DEF k
    <2> HIDE DEF m
    <2>3. Acts(r, b, Others)
        BY <2>1, <2>2
    <2> HIDE DEF b
    <2>4. ScuOk(b)
        BY <2>3, ActsOk
    <2>5. Acts(b, c, Others)
        BY <2>4, Timer1ReloadedOk, ActsNothing
    <2>6. e = c
        BY <1>8
    <2> HIDE DEF c
    <2>7. Acts(r, e, Others)
        BY <2>3, <2>5, <2>6, ActsTwice
    <2> HIDE DEF e
    <2>8. Acts(e, d, Others)
        BY <2>7, CheckActs, ActsOk
    <2> HIDE DEF d
    <2> QED
        BY <1>2, <1>3, <2>7, <2>8, ActsTwice
<1> QED
    BY <1>4, <1>5, <1>7, <1>8

(* ScuTimer1Exec and ScuExec.                                              *)
LEMMA Timer1ExecOk ==
    ASSUME NEW s, ScuOk(s)
    PROVE  Acts(s, Timer1Exec(s), Others)
<1> DEFINE left == s.timer.counter - TimerTick
           o == s.timer
           m == [o EXCEPT !.counter = left]
           k == [m EXCEPT !.timer1_set = TRUE]
           t == [s EXCEPT !.timer = m]
           u == [s EXCEPT !.timer = k]
           v == ScuSendTimer1(u)
           S == DmaEnd \cup {"Timer1"}
<1>1. o \in Timers /\ o.counter \in Int
    BY TimerTyped DEF Timers
<1>2. left \in Int
    BY <1>1, TimerTickAssumption
<1> DEFINE t1 == [s EXCEPT !.timer.counter = left]
           u1 == [t1 EXCEPT !.timer.timer1_set = TRUE]
<1>3. t1 = t /\ u1 = u
    BY DEF ScuOk, ScuState
<1>4. \/ Timer1Exec(s) = s
      \/ left > 0 /\ o.counter > 0 /\ Timer1Exec(s) = t1
      \/ left <= 0 /\ Timer1Exec(s) \in {u1, ScuSendTimer1(u1)}
    BY <1>1, <1>2 DEF Timer1Exec
<1> HIDE DEF t1, u1
<1>5. /\ m \in Timers /\ Same0(o, m) /\ m.counter = left
    <2> HIDE DEF left, o
    <2>1. m \in Timers
        BY <1>1, <1>2, TimerFields
    <2>2. Same0(o, m) /\ m.counter = left
        BY <1>1 DEF Timers, Same0
    <2> QED
        BY <2>1, <2>2
<1> HIDE DEF m
<1>6. /\ k \in Timers /\ Same0(o, k) /\ k.timer1_set = TRUE
      /\ k.counter = left
    <2> HIDE DEF left, o
    <2>1. /\ k \in Timers /\ Same0(m, k) /\ k.timer1_set = TRUE
          /\ k.counter = m.counter
        BY <1>5, TimerFields, TimerFrame
    <2> QED
        BY <1>5, <2>1 DEF Same0
<1> HIDE DEF k
<1>7. left > 0 /\ o.counter > 0 => Acts(s, t, Others)
    <2>1. ScuOk(t) /\ t.irq = s.irq /\ t.timer = m
        BY <1>5, TimerUpdate
    <2> HIDE DEF t
    <2>2. SUFFICES ASSUME left > 0, o.counter > 0 PROVE Acts(s, t, Others)
        OBVIOUS
    <2>3. TimersOk(s) => TimersOk(t)
        BY <1>1, <2>1, <2>2 DEF TimersOk
    <2>4. Does(s, t, Others)
        BY <2>1, <2>3 DEF Does, Keeps, ScuOk
    <2> QED
        BY <1>5, <2>1, <2>4, TimerActs
<1>8. left <= 0 => Acts(s, u, Others) /\ TimersOk(u) /\ u.timer = k
    <2>1. SUFFICES ASSUME left <= 0
                   PROVE  Acts(s, u, Others) /\ TimersOk(u) /\ u.timer = k
        OBVIOUS
    <2> HIDE DEF left
    <2>2. Does(s, u, Others) /\ u.irq = s.irq /\ u.timer = k
        BY <1>6, <2>1, TimerDoes
    <2> HIDE DEF u
    <2>3. TimersOk(u)
        BY <1>6, <2>1, <2>2 DEF TimersOk
    <2> QED
        BY <1>6, <2>2, <2>3, TimerActs
<1> HIDE DEF t, u
<1>9. /\ "Timer1" \in Source /\ S \subseteq Others /\ "Timer0" \notin S
    BY DEF Source, Others, DmaEnd
<1>10. left <= 0 => Acts(s, v, Others)
    <2>1. SUFFICES ASSUME left <= 0 PROVE Acts(s, v, Others)
        OBVIOUS
    <2> HIDE DEF left
    <2>2. ScuOk(u)
        BY <1>8, <2>1, ActsOk
    <2>3. Moves(u, v, S)
        BY <1>9, <2>2, RaiseAndStartOk DEF ScuSendTimer1
    <2> HIDE DEF S, v
    <2>4. Does(u, v, Others)
        BY <1>6, <1>8, <1>9, <2>1, <2>3 DEF Moves, Does, Keeps, TimersOk
    <2>5. Same0(u.timer, v.timer)
        BY <2>3 DEF Moves, Same0
    <2>6. Acts(u, v, Others)
        BY <1>9, <2>3, <2>4, <2>5, TimerActs DEF Moves, Keeps
    <2> QED
        BY <1>8, <2>1, <2>6, ActsTwice
<1> HIDE DEF left, o
<1>11. Acts(s, s, Others)
    BY ActsNothing
<1> QED
    BY <1>3, <1>4, <1>7, <1>8, <1>10, <1>11 DEF v

(* ScuExec: timer 1, a burst of each channel, the DSP.                     *)
LEMMA ScuExecOk ==
    ASSUME NEW s, ScuOk(s), NEW line, NEW dspEnd
    PROVE  Acts(s, ScuExec(s, line, dspEnd), Others)
<1> DEFINE t == Timer1Exec(s)
<1>1. Acts(s, t, Others)
    BY Timer1ExecOk
<1>2. ASSUME NEW u, Acts(s, u, Others)
      PROVE  /\ Acts(s, DmaProc(u, FALSE), Others)
             /\ Acts(s, Raise(DmaProc(u, FALSE), "DSPEnd"), Others)
    <2> DEFINE v == DmaProc(u, FALSE)
    <2>1. ScuOk(u)
        BY <1>2, ActsOk
    <2>2. DmaEnd \subseteq Others /\ "DSPEnd" \in NoTimer \ {"VBlankIN"}
        BY DEF DmaEnd, Others, Source, NoTimer
    <2>3. Acts(u, v, Others)
        BY <2>1, <2>2, DmaEndIsNoTimer, DmaProcOk, MovesActs, ActsMore
    <2> HIDE DEF v
    <2>4. Acts(v, Raise(v, "DSPEnd"), Others)
        BY <2>2, <2>3, RaiseActs, ActsOk
    <2>5. Acts(s, v, Others) /\ Acts(s, Raise(v, "DSPEnd"), Others)
        BY <1>2, <2>3, <2>4, ActsTwice
    <2> QED
        BY <2>5 DEF v
<1>3. Acts(s, s, Others)
    BY ActsNothing
<1> HIDE DEF t
<1>4. \E u \in {s, t} : ScuExec(s, line, dspEnd)
         \in {DmaProc(u, FALSE), Raise(DmaProc(u, FALSE), "DSPEnd")}
    BY DEF ScuExec, t
<1> QED
    BY <1>1, <1>2, <1>3, <1>4

(* The registers, the resets and the start.                                *)
LEMMA IrqActs ==
    ASSUME NEW s, ScuOk(s), NEW c, Keeps(s.irq, c, {})
    PROVE  Acts(s, [s EXCEPT !.irq = c], Others)
<1>1. {} \in SUBSET NoTimer /\ {} \subseteq Others
    OBVIOUS
<1> QED
    BY <1>1, IrqUpdate, MovesActs, ActsMore

(* The program's writes to IMS, IST and AIACK.                             *)
LEMMA IrqWritesOk ==
    ASSUME NEW s, ScuOk(s)
    PROVE  /\ \A masked \in SUBSET Source :
                 Acts(s, [s EXCEPT !.irq = WriteIMS(@, masked)], Others)
           /\ \A kept : Acts(s, [s EXCEPT !.irq = WriteIST(@, kept)], Others)
           /\ \A on \in BOOLEAN :
                 Acts(s, [s EXCEPT !.irq = WriteAIACK(@, on)], Others)
<1>1. IrqOk(s.irq)
    BY DEF ScuOk
<1> QED
    BY <1>1, WritesOk, IrqActs

(* The program's writes to T0C, T1S and T1MD leave line and interrupt.     *)
LEMMA TimerWritesOk ==
    ASSUME NEW s, ScuOk(s)
    PROVE  /\ \A v \in Nat : /\ Does(s, WriteT0C(s, v), Others)
                             /\ Timer0Current(s, WriteT0C(s, v))
           /\ \A v \in Nat : /\ Does(s, WriteT1S(s, v), Others)
                             /\ Timer0Current(s, WriteT1S(s, v))
           /\ \A enable, line \in BOOLEAN :
                 /\ Does(s, WriteT1MD(s, enable, line), Others)
                 /\ Timer0Current(s, WriteT1MD(s, enable, line))
<1> DEFINE o == s.timer
<1>1. o \in Timers
    BY TimerTyped
<1>2. ASSUME NEW m \in Timers, m.timer0 = o.timer0,
             o.timer1_set => m.timer1_set, m.counter = o.counter,
             NEW t, t = [s EXCEPT !.timer = m]
      PROVE  Does(s, t, Others) /\ Timer0Current(s, t)
    <2>1. Does(s, t, Others) /\ t.irq = s.irq /\ t.timer = m
        BY <1>2, TimerDoes
    <2> QED
        BY <1>2, <2>1 DEF Timer0Current
<1>3. ASSUME NEW v \in Nat
      PROVE  Does(s, WriteT0C(s, v), Others) /\ Timer0Current(s, WriteT0C(s, v))
    <2> DEFINE m == [o EXCEPT !.T0C = v]
    <2>1. /\ m \in Timers /\ m.timer0 = o.timer0
          /\ m.timer1_set = o.timer1_set /\ m.counter = o.counter
        BY <1>1 DEF Timers
    <2>2. WriteT0C(s, v) = [s EXCEPT !.timer = m]
        BY DEF WriteT0C
    <2> HIDE DEF m, o
    <2> QED
        BY <1>2, <2>1, <2>2
<1>4. ASSUME NEW v \in Nat
      PROVE  Does(s, WriteT1S(s, v), Others) /\ Timer0Current(s, WriteT1S(s, v))
    <2> DEFINE m == [o EXCEPT !.timer1_set = TRUE, !.preset = v]
    <2>1. m \in Timers
        BY <1>1, TimerTwo
    <2>2. /\ m.timer0 = o.timer0 /\ m.timer1_set = TRUE
          /\ m.counter = o.counter
        BY <1>1 DEF Timers
    <2>3. WriteT1S(s, v) = [s EXCEPT !.timer = m]
        BY DEF WriteT1S
    <2> HIDE DEF m, o
    <2> QED
        BY <1>2, <2>1, <2>2, <2>3
<1>5. ASSUME NEW enable \in BOOLEAN, NEW line \in BOOLEAN
      PROVE  /\ Does(s, WriteT1MD(s, enable, line), Others)
             /\ Timer0Current(s, WriteT1MD(s, enable, line))
    <2> DEFINE m == [o EXCEPT !.enable = enable, !.line = line]
    <2>1. m \in Timers
        BY <1>1, TimerTwo
    <2>2. /\ m.timer0 = o.timer0 /\ m.timer1_set = o.timer1_set
          /\ m.counter = o.counter
        BY <1>1 DEF Timers
    <2>3. WriteT1MD(s, enable, line) = [s EXCEPT !.timer = m]
        BY DEF WriteT1MD
    <2> HIDE DEF m, o
    <2> QED
        BY <1>2, <2>1, <2>2, <2>3
<1> QED
    BY <1>3, <1>4, <1>5

(* ScuReset's part on the channels.                                        *)
LEMMA ResetDmaOk ==
    ASSUME NEW s, ScuOk(s)
    PROVE  ScuOk(ResetDma(s)) /\ ResetDma(s).irq = s.irq
<1> DEFINE r == [ch \in Channel |->
                    [s.regs[ch] EXCEPT !.enable = FALSE,
                                       !.factor = StartByProgram,
                                       !.indirect = FALSE]]
           d == [ch \in Channel |-> Idle]
           t == ResetDma(s)
<1>1. ASSUME NEW g \in Registers
      PROVE  [g EXCEPT !.enable = FALSE, !.factor = StartByProgram,
                       !.indirect = FALSE] \in Registers
    <2> DEFINE a == [g EXCEPT !.enable = FALSE]
               b == [a EXCEPT !.factor = StartByProgram]
    <2>1. a \in Registers
        BY DEF Registers
    <2>2. StartByProgram \in 0 .. 7
        BY DEF StartByProgram
    <2> HIDE DEF a
    <2>3. b \in Registers
        BY <2>1, <2>2 DEF Registers
    <2> HIDE DEF b
    <2>4. [b EXCEPT !.indirect = FALSE] \in Registers
        BY <2>3 DEF Registers
    <2> QED
        BY <2>4 DEF a, b
<1>2. s.regs \in [Channel -> Registers] /\ s \in ScuState /\ IrqOk(s.irq)
    BY DEF ScuOk, ScuState
<1>3. r \in [Channel -> Registers]
    BY <1>1, <1>2
<1>4. Idle \in Transfer
    BY DEF Idle, Transfer
<1>5. TransferOk(Idle)
    BY <1>4 DEF TransferOk, Idle, Stuck, Word
<1>6. d \in [Channel -> Transfer] /\ \A ch \in Channel : d[ch] = Idle
    BY <1>4
<1>7. t = [s EXCEPT !.dma = d, !.regs = r]
    BY DEF ResetDma
<1> HIDE DEF d, r, t
<1>8. t \in ScuState /\ t.dma = d /\ t.irq = s.irq
    BY <1>2, <1>3, <1>6, <1>7 DEF ScuState
<1>9. ScuOk(t)
    BY <1>2, <1>5, <1>6, <1>8 DEF ScuOk
<1> QED
    BY <1>8, <1>9 DEF t

(* ScuReset: nothing is left in the controller's queue.                    *)
LEMMA ScuResetOk ==
    ASSUME NEW s, ScuOk(s)
    PROVE  /\ Does(s, ScuReset(s), Others)
           /\ Queued(ScuReset(s).irq) = {}
<1> DEFINE c == ResetController(s.irq)
           a == [s EXCEPT !.irq = c]
           b == ResetDma(a)
           w == WriteT1MD(b, FALSE, FALSE)
           e == [w EXCEPT !.timer.timer0 = 0]
<1>1. Keeps(s.irq, c, {}) /\ Queued(c) = {}
    BY ResetControllerOk DEF ScuOk
<1>2. a.irq = c
    BY DEF ScuOk, ScuState
<1>3. ScuReset(s) = e
    BY DEF ScuReset
<1> HIDE DEF c
<1>4. Acts(s, a, Others)
    BY <1>1, IrqActs
<1> HIDE DEF a
<1>5. ScuOk(b) /\ b.irq = a.irq
    BY <1>4, ResetDmaOk, ActsOk
<1> HIDE DEF b
<1>6. ScuOk(w) /\ w.irq = b.irq
    <2>1. w.irq = b.irq
        BY <1>5 DEF WriteT1MD, ScuOk, ScuState
    <2> QED
        BY <2>1, <1>5, TimerWritesOk DEF Does
<1> HIDE DEF w
<1>7. ScuOk(e) /\ e.irq = w.irq
    <2>1. e.irq = w.irq
        BY <1>6 DEF ScuOk, ScuState
    <2> QED
        BY <2>1, <1>6, CountLine DEF Does
<1> HIDE DEF e
<1>8. e.irq = c /\ Queued(e.irq) = {}
    BY <1>1, <1>2, <1>5, <1>6, <1>7
<1>9. Does(s, e, Others)
    BY <1>1, <1>7, <1>8 DEF Does, Keeps, TimersOk
<1> QED
    BY <1>3, <1>8, <1>9

(* The state after ScuInit and ScuReset.                                   *)
LEMMA InitScuOk ==
    ScuOk(InitScu) /\ TimersOk(InitScu) /\ Queued(InitScu.irq) = {}
<1>1. IrqOk(InitController) /\ Queued(InitController) = {}
    BY InitControllerOk
<1>2. InitController \in Controller
    BY <1>1, ControllerParts
<1>3. Idle \in Transfer
    BY DEF Idle, Transfer
<1>4. TransferOk(Idle)
    BY <1>3 DEF TransferOk, Idle, Stuck, Word
<1>5. InitRegs \in [Channel -> Registers]
    <2>1. <<1>> \in Table
        BY DEF Table
    <2>2. StartByProgram \in 0 .. 7
        BY DEF StartByProgram
    <2> QED
        BY <2>1, <2>2 DEF InitRegs, Registers
<1>6. InitDma \in [Channel -> Transfer]
    BY <1>3 DEF InitDma
<1>7. InitTimer \in Timers
    BY DEF InitTimer, Timers
<1>8. InitScu \in ScuState
    BY <1>2, <1>5, <1>6, <1>7 DEF InitScu, ScuState
<1>9. InitScu.irq = InitController /\ InitScu.dma = InitDma
    BY DEF InitScu
<1>10. \A ch \in Channel : InitDma[ch] = Idle
    BY DEF InitDma
<1> QED
    BY <1>1, <1>4, <1>8, <1>9, <1>10 DEF ScuOk, TimersOk

(* The request queues of the SH-2s, which others write too.                *)
LEMMA RequestsActs ==
    ASSUME NEW s, ScuOk(s), NEW p \in CPU, NEW q, QueueOk(q),
           p = "msh2" \/ s.irq.ssh2
    PROVE  Acts(s, [s EXCEPT !.irq.iqr[p] = q], Others)
<1> DEFINE c == [s.irq EXCEPT !.iqr[p] = q]
<1>1. Keeps(s.irq, c, {})
    <2>1. s.irq \in Controller /\ IrqOk(s.irq)
        BY DEF ScuOk, IrqOk
    <2>2. q \in Seq(Request)
        BY DEF QueueOk
    <2>3. /\ c \in Controller /\ c.ist = s.irq.ist
          /\ c.interrupts = s.irq.interrupts /\ c.number = s.irq.number
          /\ c.ssh2 = s.irq.ssh2
          /\ c.iqr = [s.irq.iqr EXCEPT ![p] = q]
          /\ s.irq.iqr \in [CPU -> Seq(Request)]
        BY <2>1, <2>2 DEF Controller
    <2> HIDE DEF c
    <2>4. Live(c) = Live(s.irq)
        BY <2>3 DEF Live
    <2>5. Queued(c) = Queued(s.irq)
        BY <2>3, <2>4 DEF Queued
    <2>6. ScuQueueOk(c)
        BY <2>1, <2>3, <2>4 DEF ScuQueueOk, IrqOk
    <2>7. \A x \in CPU : QueueOk(c.iqr[x])
        BY <2>1, <2>3 DEF IrqOk
    <2>8. IrqOk(c)
        BY <2>1, <2>3, <2>6, <2>7 DEF IrqOk
    <2>9. "ssh2" \in CPU /\ "msh2" # "ssh2"
        BY DEF CPU
    <2>10. ~s.irq.ssh2 => c.iqr["ssh2"] = s.irq.iqr["ssh2"]
        BY <2>3, <2>9
    <2> QED
        BY <2>3, <2>5, <2>8, <2>10 DEF Keeps
<1>2. [s EXCEPT !.irq.iqr[p] = q] = [s EXCEPT !.irq = c]
    OBVIOUS
<1> HIDE DEF c
<1> QED
    BY <1>1, <1>2, IrqActs

-----------------------------------------------------------------------------
(* What a step of the SCU hands to the SH-2s: its controller serves them,  *)
(* and a channel that stops moving has reported it.                        *)
Reported(s, ch) == EndOf(ch) \in Queued(s.irq) \/ On(s.irq, EndOf(ch))

Hands(s, t, W) ==
    /\ Serves(s.irq, t.irq, W)
    /\ \A ch \in Channel :
          ~Ended(s.dma[ch]) /\ Ended(t.dma[ch]) => Reported(t, ch)

(* The sources other than the ends of the channels may be withdrawn.       *)
NoEnd == Source \ DmaEnd

(* Hands is reflexive, transitive and monotone in W.                       *)
LEMMA HandsNothing ==
    ASSUME NEW s, NEW t, NEW W, t.irq = s.irq, t.dma = s.dma
    PROVE  Hands(s, t, W)
<1>1. Serves(s.irq, t.irq, W)
    BY ServesNothing
<1> QED
    BY <1>1 DEF Hands

(* Two steps of the SCU one after the other hand on what both hand on.     *)
LEMMA HandsTwice ==
    ASSUME NEW s, NEW t, NEW u, NEW W \in SUBSET NoEnd,
           Hands(s, t, W), Hands(t, u, W)
    PROVE  Hands(s, u, W)
<1>1. Serves(s.irq, u.irq, W)
    BY ServesTwice DEF Hands
<1>2. ASSUME NEW ch \in Channel, ~Ended(s.dma[ch]), Ended(u.dma[ch])
      PROVE  Reported(u, ch)
    <2>1. EndOf(ch) \in Source /\ EndOf(ch) \notin W
        BY DEF EndOf, Channel, NoEnd, DmaEnd, Source
    <2>2. CASE ~Ended(t.dma[ch])
        BY <1>2, <2>2 DEF Hands
    <2>3. CASE Ended(t.dma[ch])
        <3>1. Reported(t, ch) /\ Serves(t.irq, u.irq, W)
            BY <1>2, <2>3 DEF Hands
        <3> QED
            BY <2>1, <3>1 DEF Reported, Serves, On
    <2> QED
        BY <2>2, <2>3
<1> QED
    BY <1>1, <1>2 DEF Hands

(* What withdraws less hands on also where more may be withdrawn.          *)
LEMMA HandsMore ==
    ASSUME NEW s, NEW t, NEW W, NEW X, Hands(s, t, W), W \subseteq X
    PROVE  Hands(s, t, X)
BY ServesMore DEF Hands

(* Only the controller changes.                                            *)
LEMMA IrqHands ==
    ASSUME NEW s, ScuOk(s), NEW c, NEW W, Serves(s.irq, c, W)
    PROVE  /\ Hands(s, [s EXCEPT !.irq = c], W)
           /\ [s EXCEPT !.irq = c].irq = c
<1> DEFINE t == [s EXCEPT !.irq = c]
<1>1. t.irq = c /\ t.dma = s.dma
    BY DEF ScuOk, ScuState
<1> HIDE DEF t
<1> QED
    BY <1>1 DEF Hands, t

(* SendInterrupt, and the DMA it starts, hand on what they raise.          *)
LEMMA RaiseHands ==
    ASSUME NEW s, ScuOk(s), NEW src \in Source
    PROVE  /\ Hands(s, Raise(s, src), {})
           /\ src \notin ABus => \/ src \in Queued(Raise(s, src).irq)
                                 \/ On(Raise(s, src).irq, src)
<1> DEFINE c == SendInterrupt(s.irq, src)
<1>1. Raise(s, src) = [s EXCEPT !.irq = c]
    BY DEF Raise
<1>2. /\ Serves(s.irq, c, {})
      /\ src \notin ABus => src \in Queued(c) \/ On(c, src)
    BY SendInterruptServes DEF ScuOk
<1> HIDE DEF c
<1> QED
    BY <1>1, <1>2, IrqHands

(* ScuRemoveInterrupt hands on all but the source it withdraws.            *)
LEMMA WithdrawHands ==
    ASSUME NEW s, ScuOk(s), NEW src \in Source
    PROVE  Hands(s, Withdraw(s, src), {src})
<1> DEFINE c == RemoveInterrupt(s.irq, src)
<1>1. Withdraw(s, src) = [s EXCEPT !.irq = c]
    BY DEF Withdraw
<1>2. Serves(s.irq, c, {src})
    BY RemoveInterruptServes DEF ScuOk
<1> HIDE DEF c
<1> QED
    BY <1>1, <1>2, IrqHands

(* A channel goes on moving, or is loaded.                                 *)
LEMMA DmaHands ==
    ASSUME NEW s, ScuOk(s), NEW ch \in Channel, NEW d, ~Ended(d), NEW W
    PROVE  Hands(s, [s EXCEPT !.dma[ch] = d], W)
<1> DEFINE t == [s EXCEPT !.dma[ch] = d]
<1>1. t.irq = s.irq /\ t.dma = [s.dma EXCEPT ![ch] = d]
    BY DEF ScuOk, ScuState
<1>2. s.dma \in [Channel -> Transfer]
    BY DEF ScuOk, ScuState
<1> HIDE DEF t
<1>3. Serves(s.irq, t.irq, W)
    BY <1>1, ServesNothing
<1>4. \A x \in Channel : t.dma[x] = s.dma[x] \/ ~Ended(t.dma[x])
    BY <1>1, <1>2
<1> QED
    BY <1>3, <1>4 DEF Hands, t

(* A channel that stops sends its interrupt (ScuSendDMAEnd), which is then *)
(* in the queue or on the master.                                          *)
LEMMA FinishHands ==
    ASSUME NEW s, ScuOk(s), NEW ch \in Channel, NEW left \in {-1, 0},
           s.dma[ch].direct \/ left = 0
    PROVE  Hands(s, Finish(s, ch, left), {})
<1> DEFINE d == [s.dma[ch] EXCEPT !.left = left, !.rest = << >>]
           t == [s EXCEPT !.dma[ch] = d]
           u == Raise(t, EndOf(ch))
<1>3. TransferOk(d)
    BY ThroughOk
<1>4. Finish(s, ch, left) = u
    BY DEF Finish, SendDMAEnd, Raise
<1> HIDE DEF d
<1>5. ScuOk(t)
    BY <1>3, DmaUpdate DEF Moves
<1>6. t.irq = s.irq /\ t.dma = [s.dma EXCEPT ![ch] = d]
    BY DEF ScuOk, ScuState
<1>7. \A x \in Channel \ {ch} : t.dma[x] = s.dma[x]
    BY <1>6 DEF ScuOk, ScuState
<1> HIDE DEF t
<1>8. EndOf(ch) \in Source /\ EndOf(ch) \notin ABus
    BY DEF EndOf, Channel, Source, ABus
<1>9. Hands(t, u, {}) /\ Reported(u, ch)
    BY <1>5, <1>8, RaiseHands DEF Reported
<1>10. u.dma = t.dma
    BY <1>5 DEF Raise, ScuOk, ScuState
<1> HIDE DEF u
<1>11. Hands(s, u, {})
    BY <1>6, <1>7, <1>9, <1>10 DEF Hands
<1> QED
    BY <1>4, <1>11

(* SucDmaCheck reports the end of a channel that has come to it.           *)
LEMMA DmaCheckHands ==
    ASSUME NEW s, ScuOk(s), NEW ch \in Channel, NEW all \in BOOLEAN
    PROVE  Hands(s, DmaCheck(s, ch, all), {})
<1>1. CASE DmaCheck(s, ch, all) = s
    BY <1>1, HandsNothing
<1>2. ASSUME NEW x \in {-1, 0}, s.dma[ch].direct \/ x = 0,
             DmaCheck(s, ch, all) = Finish(s, ch, x)
      PROVE  Hands(s, DmaCheck(s, ch, all), {})
    BY <1>2, FinishHands
<1>3. ASSUME NEW d, ~Ended(d), DmaCheck(s, ch, all) = [s EXCEPT !.dma[ch] = d]
      PROVE  Hands(s, DmaCheck(s, ch, all), {})
    BY <1>3, DmaHands
<1> QED
    BY <1>1, <1>2, <1>3, DmaCheckKinds

(* ScuDmaProc hands on every channel's end.                         *)
LEMMA DmaProcHands ==
    ASSUME NEW s, ScuOk(s), NEW all \in BOOLEAN
    PROVE  Hands(s, DmaProc(s, all), {})
<1> DEFINE t == DmaCheck(s, 0, all)
           u == DmaCheck(t, 1, all)
           v == DmaCheck(u, 2, all)
<1>1. /\ 0 \in Channel /\ 1 \in Channel /\ 2 \in Channel
      /\ {} \in SUBSET NoEnd
    BY DEF Channel
<1>2. Hands(s, t, {}) /\ ScuOk(t)
    BY <1>1, DmaCheckHands, DmaCheckOk DEF Moves
<1> HIDE DEF t
<1>3. Hands(t, u, {}) /\ ScuOk(u)
    BY <1>1, <1>2, DmaCheckHands, DmaCheckOk DEF Moves
<1> HIDE DEF u
<1>4. Hands(u, v, {})
    BY <1>1, <1>3, DmaCheckHands
<1>5. DmaProc(s, all) = v
    BY DEF DmaProc, t, u
<1> HIDE DEF v
<1> QED
    BY <1>1, <1>2, <1>3, <1>4, <1>5, HandsTwice

(* Loading a channel's registers hands nothing on.                         *)
LEMMA LoadHands ==
    ASSUME NEW s, ScuOk(s), NEW ch \in Channel
    PROVE  Hands(s, Load(s, ch), {})
BY LoadKinds, DmaHands

(* Starting a channel flushes, and reports, what it interrupts.            *)
LEMMA StartHands ==
    ASSUME NEW s, ScuOk(s), NEW ch \in Channel, NEW busy \in BOOLEAN
    PROVE  Hands(s, Start(s, ch, busy), {})
<1> DEFINE t == IF busy THEN DmaProc(s, TRUE) ELSE s
           u == Load(t, ch)
           v == DmaProc(u, FALSE)
<1>1. {} \in SUBSET NoEnd
    OBVIOUS
<1>2. Hands(s, t, {}) /\ ScuOk(t)
    BY DmaProcHands, DmaProcOk, HandsNothing DEF Moves
<1> HIDE DEF t
<1>3. Hands(t, u, {}) /\ ScuOk(u)
    BY <1>2, LoadHands, LoadOk DEF Moves
<1> HIDE DEF u
<1>4. Hands(u, v, {})
    BY <1>3, DmaProcHands
<1>5. Start(s, ch, busy) = v
    BY DEF Start, t, u
<1> HIDE DEF v
<1> QED
    BY <1>1, <1>2, <1>3, <1>4, <1>5, HandsTwice

(* A channel's registers hand nothing.                                     *)
LEMMA RegsHands ==
    ASSUME NEW s, ScuOk(s), NEW ch, NEW r
    PROVE  Hands(s, [s EXCEPT !.regs[ch] = r], {})
<1> DEFINE t == [s EXCEPT !.regs[ch] = r]
<1>1. t.irq = s.irq /\ t.dma = s.dma
    BY DEF ScuOk, ScuState
<1> HIDE DEF t
<1> QED
    BY <1>1, HandsNothing DEF t

(* A write to DnEN starts the channel or leaves it.                        *)
LEMMA EnableHands ==
    ASSUME NEW s, ScuOk(s), NEW ch \in Channel, NEW on \in BOOLEAN
    PROVE  Hands(s, [s EXCEPT !.regs[ch].enable = on], {})
<1> DEFINE r == [s.regs[ch] EXCEPT !.enable = on]
<1>1. [s EXCEPT !.regs[ch].enable = on] = [s EXCEPT !.regs[ch] = r]
    OBVIOUS
<1> HIDE DEF r
<1> QED
    BY <1>1, RegsHands

(* One channel's start factor, met or not, loses no report.                *)
LEMMA CheckOneHands ==
    ASSUME NEW s, ScuOk(s), NEW ch \in Channel, NEW id
    PROVE  Hands(s, CheckOne(s, ch, id), {})
<1> DEFINE busy == s.dma[ch].left > 0
           t == Start(s, ch, busy)
           u == [t EXCEPT !.regs[ch].enable = FALSE]
<1>1. busy \in BOOLEAN /\ {} \in SUBSET NoEnd
    BY DEF ScuOk, TransferOk, Transfer
<1>2. Hands(s, t, {}) /\ ScuOk(t)
    <2> HIDE DEF busy
    <2> QED
        BY <1>1, StartHands, StartOk DEF Moves
<1>3. CheckOne(s, ch, id) = u \/ CheckOne(s, ch, id) = s
    BY DEF CheckOne
<1> HIDE DEF t
<1>4. Hands(t, u, {})
    BY <1>2, EnableHands
<1> HIDE DEF u
<1>5. Hands(s, u, {})
    BY <1>1, <1>2, <1>4, HandsTwice
<1> QED
    BY <1>3, <1>5, HandsNothing

(* Nor do the three channels' one after the other.                         *)
LEMMA CheckInterruptDMAHands ==
    ASSUME NEW s, ScuOk(s), NEW id
    PROVE  Hands(s, CheckInterruptDMA(s, id), {})
<1> DEFINE t == CheckOne(s, 0, id)
           u == CheckOne(t, 1, id)
           v == CheckOne(u, 2, id)
<1>1. /\ 0 \in Channel /\ 1 \in Channel /\ 2 \in Channel
      /\ {} \in SUBSET NoEnd
    BY DEF Channel
<1>2. Hands(s, t, {}) /\ ScuOk(t)
    BY <1>1, CheckOneHands, CheckOneOk DEF Moves
<1> HIDE DEF t
<1>3. Hands(t, u, {}) /\ ScuOk(u)
    BY <1>1, <1>2, CheckOneHands, CheckOneOk DEF Moves
<1> HIDE DEF u
<1>4. Hands(u, v, {})
    BY <1>1, <1>3, CheckOneHands
<1>5. CheckInterruptDMA(s, id) = v
    BY DEF CheckInterruptDMA, t, u
<1> HIDE DEF v
<1> QED
    BY <1>1, <1>2, <1>3, <1>4, <1>5, HandsTwice

(* The writes to the registers of the channels.                            *)
LEMMA ChannelWritesHand ==
    ASSUME NEW s, ScuOk(s), NEW ch \in Channel
    PROVE  /\ \A go, enable \in BOOLEAN :
                 Hands(s, WriteDnEN(s, ch, go, enable), {})
           /\ \A factor, indirect :
                 Hands(s, WriteDnMD(s, ch, factor, indirect), {})
           /\ \A w : Hands(s, WriteTransfer(s, ch, w), {})
<1>1. ASSUME NEW go \in BOOLEAN, NEW enable \in BOOLEAN
      PROVE  Hands(s, WriteDnEN(s, ch, go, enable), {})
    <2> DEFINE busy == s.dma[ch].left # 0
               t == IF go /\ s.regs[ch].factor = StartByProgram
                    THEN Start(s, ch, busy) ELSE s
               u == [t EXCEPT !.regs[ch].enable = enable]
    <2>1. Hands(s, t, {}) /\ ScuOk(t)
        BY StartHands, StartOk, HandsNothing DEF Moves
    <2>2. WriteDnEN(s, ch, go, enable) = u
        BY DEF WriteDnEN
    <2> HIDE DEF t
    <2>3. Hands(t, u, {}) /\ {} \in SUBSET NoEnd
        BY <2>1, EnableHands
    <2> HIDE DEF u
    <2> QED
        BY <2>1, <2>2, <2>3, HandsTwice
<1>2. ASSUME NEW factor, NEW indirect
      PROVE  Hands(s, WriteDnMD(s, ch, factor, indirect), {})
    BY RegsHands DEF WriteDnMD
<1>3. ASSUME NEW w PROVE Hands(s, WriteTransfer(s, ch, w), {})
    BY RegsHands DEF WriteTransfer
<1> QED
    BY <1>1, <1>2, <1>3

-----------------------------------------------------------------------------
Blankings == {"VBlankIN", "Timer0", "Timer1"}

(* No withdrawal of the video timing concerns the end of a DMA.            *)
LEMMA BlankingsAreNoEnd ==
    /\ Blankings \in SUBSET NoEnd /\ {} \in SUBSET NoEnd
    /\ Blankings \subseteq Source
    /\ {"Timer0"} \in SUBSET NoEnd /\ {"Timer0", "Timer1"} \in SUBSET NoEnd
    /\ {"Timer0", "Timer1"} \subseteq Blankings
BY DEF Blankings, NoEnd, Source, DmaEnd

(* A change of the timers' own registers hands nothing on.                 *)
LEMMA TimerHands ==
    ASSUME NEW s, ScuOk(s), NEW m, NEW W
    PROVE  Hands(s, [s EXCEPT !.timer = m], W)
<1> DEFINE t == [s EXCEPT !.timer = m]
<1>1. t.irq = s.irq /\ t.dma = s.dma
    BY DEF ScuOk, ScuState
<1> HIDE DEF t
<1> QED
    BY <1>1, HandsNothing DEF t

(* Raising a source that may be a start factor, and the start.             *)
LEMMA RaiseAndStartHands ==
    ASSUME NEW s, ScuOk(s), NEW src \in Source
    PROVE  Hands(s, RaiseAndStart(s, src), {})
<1> DEFINE t == Raise(s, src)
<1>1. Hands(s, t, {}) /\ ScuOk(t)
    BY RaiseHands, RaiseOk DEF Moves
<1>2. RaiseAndStart(s, src) = CheckInterruptDMA(t, FactorOf[src])
    BY DEF RaiseAndStart
<1> HIDE DEF t
<1>3. Hands(t, CheckInterruptDMA(t, FactorOf[src]), {})
    BY <1>1, CheckInterruptDMAHands
<1> QED
    BY <1>1, <1>2, <1>3, HandsTwice, BlankingsAreNoEnd

(* VBlank-IN withdraws timer 0.                                            *)
LEMMA SendVBlankINHands ==
    ASSUME NEW s, ScuOk(s)
    PROVE  Hands(s, ScuSendVBlankIN(s), {"Timer0"})
<1> DEFINE t == Withdraw(s, "Timer0")
           u == RaiseAndStart(t, "VBlankIN")
<1>1. /\ "Timer0" \in Source /\ "VBlankIN" \in Source
      /\ {} \subseteq {"Timer0"}
    BY DEF Source
<1>2. Hands(s, t, {"Timer0"}) /\ ScuOk(t)
    BY <1>1, WithdrawHands, WithdrawOk DEF Moves
<1>3. ScuSendVBlankIN(s) = u
    BY DEF ScuSendVBlankIN
<1> HIDE DEF t
<1>4. Hands(t, u, {"Timer0"})
    BY <1>1, <1>2, RaiseAndStartHands, HandsMore
<1> HIDE DEF u
<1> QED
    BY <1>2, <1>3, <1>4, HandsTwice, BlankingsAreNoEnd

(* A line other than timer 0's withdraws it.                               *)
LEMMA Timer0MissedHands ==
    ASSUME NEW s, ScuOk(s)
    PROVE  Hands(s, Timer0Missed(s), {"Timer0", "Timer1"})
<1> DEFINE W == {"Timer0", "Timer1"}
           m == [s.timer EXCEPT !.timer0_set = FALSE]
           t == [s EXCEPT !.timer = m]
           u == Withdraw(t, "Timer0")
<1>1. s.timer \in Timers /\ "Timer0" \in Source /\ {"Timer0"} \subseteq W
    BY TimerTyped DEF Source
<1>2. m \in Timers
    BY <1>1, TimerFields
<1>3. Timer0Missed(s) = u
    BY DEF Timer0Missed
<1> HIDE DEF m
<1>4. ScuOk(t) /\ Hands(s, t, W)
    BY <1>2, TimerUpdate, TimerHands
<1> HIDE DEF t
<1>5. Hands(t, u, W)
    BY <1>1, <1>4, WithdrawHands, HandsMore
<1> HIDE DEF u
<1> QED
    BY <1>3, <1>4, <1>5, HandsTwice, BlankingsAreNoEnd

(* Reloading timer 1 withdraws it.                                         *)
LEMMA Timer1ReloadedHands ==
    ASSUME NEW s, ScuOk(s)
    PROVE  Hands(s, Timer1Reloaded(s), {"Timer0", "Timer1"})
<1> DEFINE W == {"Timer0", "Timer1"}
           x == s.timer.preset
           m == [s.timer EXCEPT !.timer1_set = FALSE, !.counter = x]
           t == [s EXCEPT !.timer = m]
           u == Withdraw(t, "Timer1")
<1>1. /\ s.timer \in Timers /\ "Timer1" \in Source /\ {"Timer1"} \subseteq W
      /\ FALSE \in BOOLEAN
    BY TimerTyped DEF Source
<1>2. x \in Int
    BY <1>1 DEF Timers
<1>3. Timer1Reloaded(s) = u
    BY DEF Timer1Reloaded
<1> HIDE DEF x
<1>4. m \in Timers
    BY <1>1, <1>2, TimerTwo
<1> HIDE DEF m
<1>5. ScuOk(t) /\ Hands(s, t, W)
    BY <1>4, TimerUpdate, TimerHands
<1> HIDE DEF t
<1>6. Hands(t, u, W)
    BY <1>1, <1>5, WithdrawHands, HandsMore
<1> HIDE DEF u
<1> QED
    BY <1>3, <1>5, <1>6, HandsTwice, BlankingsAreNoEnd

(* Noting that timer 0 has matched hands nothing on.                       *)
LEMMA SetTimer0Hands ==
    ASSUME NEW s, ScuOk(s), NEW W
    PROVE  Hands(s, [s EXCEPT !.timer.timer0_set = TRUE], W)
<1>1. [s EXCEPT !.timer.timer0_set = TRUE]
         = [s EXCEPT !.timer = [s.timer EXCEPT !.timer0_set = TRUE]]
    OBVIOUS
<1> QED
    BY <1>1, TimerHands

(* Counting a line hands nothing on.                                       *)
LEMMA CountLineHands ==
    ASSUME NEW s, ScuOk(s), NEW n, NEW W
    PROVE  Hands(s, [s EXCEPT !.timer.timer0 = n], W)
<1>1. [s EXCEPT !.timer.timer0 = n]
         = [s EXCEPT !.timer = [s.timer EXCEPT !.timer0 = n]]
    OBVIOUS
<1> QED
    BY <1>1, TimerHands

(* Timer 0 is raised on the line it matches.                               *)
LEMMA Timer0MatchedHands ==
    ASSUME NEW s, ScuOk(s)
    PROVE  /\ Hands(s, [ScuSendTimer0(s) EXCEPT !.timer.timer0_set = TRUE], {})
           /\ Hands(s, ScuSendTimer0([s EXCEPT !.timer.timer0_set = TRUE]), {})
<1>1. "Timer0" \in Source
    BY DEF Source
<1>2. Hands(s, [ScuSendTimer0(s) EXCEPT !.timer.timer0_set = TRUE], {})
    <2> DEFINE t == ScuSendTimer0(s)
               u == [t EXCEPT !.timer.timer0_set = TRUE]
    <2>1. Hands(s, t, {}) /\ ScuOk(t)
        BY <1>1, RaiseAndStartHands, RaiseAndStartOk DEF ScuSendTimer0, Moves
    <2> HIDE DEF t
    <2>2. Hands(t, u, {})
        BY <2>1, SetTimer0Hands
    <2> HIDE DEF u
    <2>3. Hands(s, u, {})
        BY <2>1, <2>2, HandsTwice, BlankingsAreNoEnd
    <2> QED
        BY <2>3 DEF t, u
<1>3. Hands(s, ScuSendTimer0([s EXCEPT !.timer.timer0_set = TRUE]), {})
    <2> DEFINE t == [s EXCEPT !.timer.timer0_set = TRUE]
               u == ScuSendTimer0(t)
    <2>1. Hands(s, t, {}) /\ ScuOk(t)
        BY SetTimer0Hands, SetTimer0
    <2> HIDE DEF t
    <2>2. Hands(t, u, {})
        BY <1>1, <2>1, RaiseAndStartHands DEF ScuSendTimer0
    <2> HIDE DEF u
    <2>3. Hands(s, u, {})
        BY <2>1, <2>2, HandsTwice, BlankingsAreNoEnd
    <2> QED
        BY <2>3 DEF t, u
<1> QED
    BY <1>2, <1>3

(* VBlank-OUT withdraws VBlank-IN and the timers.                          *)
LEMMA SendVBlankOUTHands ==
    ASSUME NEW s, ScuOk(s)
    PROVE  Hands(s, ScuSendVBlankOUT(s), Blankings)
<1> DEFINE W == Blankings
           a1 == Raise(s, "VBlankOUT")
           a2 == Withdraw(a1, "VBlankIN")
           a3 == Withdraw(a2, "Timer0")
           a4 == Withdraw(a3, "Timer1")
           b == [a4 EXCEPT !.timer.timer0 = 0]
           c == IF ~b.timer.enable THEN b
                ELSE IF b.timer.T0C = 0
                THEN ScuSendTimer0([b EXCEPT !.timer.timer0_set = TRUE])
                ELSE Timer0Missed(b)
           d == CheckInterruptDMA(c, FactorOf["VBlankOUT"])
<1>1. /\ "VBlankOUT" \in Source /\ "VBlankIN" \in Source
      /\ "Timer0" \in Source /\ "Timer1" \in Source
      /\ 0 \in Nat /\ {} \subseteq W /\ {"VBlankIN"} \subseteq W
      /\ {"Timer0"} \subseteq W /\ {"Timer1"} \subseteq W
      /\ {"Timer0", "Timer1"} \subseteq W /\ W \in SUBSET NoEnd
    BY BlankingsAreNoEnd DEF Source, Blankings
<1>2. ScuSendVBlankOUT(s) = d
    BY DEF ScuSendVBlankOUT
<1> HIDE DEF W
<1>3. Hands(s, a1, W) /\ ScuOk(a1)
    <2>1. Hands(s, a1, {}) /\ ScuOk(a1)
        BY <1>1, RaiseHands, RaiseOk DEF Moves
    <2> HIDE DEF a1
    <2> QED
        BY <1>1, <2>1, HandsMore
<1> HIDE DEF a1
<1>4. Hands(a1, a2, W) /\ ScuOk(a2)
    BY <1>1, <1>3, WithdrawHands, WithdrawOk, HandsMore DEF Moves
<1> HIDE DEF a2
<1>5. Hands(a2, a3, W) /\ ScuOk(a3)
    BY <1>1, <1>4, WithdrawHands, WithdrawOk, HandsMore DEF Moves
<1> HIDE DEF a3
<1>6. Hands(a3, a4, W) /\ ScuOk(a4)
    BY <1>1, <1>5, WithdrawHands, WithdrawOk, HandsMore DEF Moves
<1> HIDE DEF a4
<1>7. Hands(a4, b, W) /\ ScuOk(b)
    BY <1>1, <1>6, CountLine, CountLineHands DEF Does
<1> HIDE DEF b
<1>8. ScuOk(c)
    <2> DEFINE m == ScuSendTimer0([b EXCEPT !.timer.timer0_set = TRUE])
    <2>1. ScuOk(m) /\ ScuOk(Timer0Missed(b))
        <3>1. Does(b, m, Others)
            BY <1>7, Timer0MatchedOk
        <3>2. Does(b, Timer0Missed(b), Others)
            BY <1>7, Timer0MissedOk
        <3> QED
            BY <3>1, <3>2 DEF Does
    <2> HIDE DEF m
    <2> QED
        BY <1>7, <2>1 DEF m
<1>9. Hands(b, c, W)
    <2> DEFINE m == ScuSendTimer0([b EXCEPT !.timer.timer0_set = TRUE])
    <2>1. Hands(b, m, {}) /\ Hands(b, Timer0Missed(b), {"Timer0", "Timer1"})
        BY <1>7, Timer0MatchedHands, Timer0MissedHands
    <2>2. c \in {b, m, Timer0Missed(b)}
        OBVIOUS
    <2> HIDE DEF c, m
    <2>3. Hands(b, m, W) /\ Hands(b, Timer0Missed(b), W) /\ Hands(b, b, W)
        BY <1>1, <2>1, HandsMore, HandsNothing
    <2> QED
        BY <2>2, <2>3
<1> HIDE DEF c
<1>10. Hands(c, d, W)
    BY <1>1, <1>8, CheckInterruptDMAHands, HandsMore
<1> HIDE DEF d
<1>11. Hands(a2, d, W)
    BY <1>1, <1>5, <1>6, <1>7, <1>9, <1>10, HandsTwice
<1>12. Hands(s, d, W)
    BY <1>1, <1>3, <1>4, <1>11, HandsTwice
<1> QED
    BY <1>2, <1>12 DEF W

(* HBlank-IN withdraws the timers.                                         *)
LEMMA SendHBlankINHands ==
    ASSUME NEW s, ScuOk(s)
    PROVE  Hands(s, ScuSendHBlankIN(s), {"Timer0", "Timer1"})
<1> DEFINE W == {"Timer0", "Timer1"}
           r == Raise(s, "HBlankIN")
           n == r.timer.timer0 + 1
           a == [r EXCEPT !.timer.timer0 = n]
           m == [ScuSendTimer0(a) EXCEPT !.timer.timer0_set = TRUE]
           b == IF a.timer.timer0 = a.timer.T0C THEN m ELSE Timer0Missed(a)
           c == IF b.timer.timer1_set THEN Timer1Reloaded(b) ELSE b
           e == IF a.timer.enable THEN c ELSE a
           d == CheckInterruptDMA(e, FactorOf["HBlankIN"])
<1>1. \A x, y : Hands(x, y, W) <=> Hands(x, y, {"Timer0", "Timer1"})
    OBVIOUS
<1>2. "HBlankIN" \in Source /\ W \in SUBSET NoEnd /\ {} \subseteq W
    BY BlankingsAreNoEnd DEF Source
<1>3. ScuSendHBlankIN(s) = d
    BY DEF ScuSendHBlankIN
<1> HIDE DEF W
<1>4. Hands(s, r, W) /\ ScuOk(r)
    <2>1. Hands(s, r, {}) /\ ScuOk(r)
        BY <1>2, RaiseHands, RaiseOk DEF Moves
    <2> HIDE DEF r
    <2> QED
        BY <1>2, <2>1, HandsMore
<1> HIDE DEF r
<1>5. n \in Nat
    <2>1. r.timer.timer0 \in Nat
        BY <1>4, TimerTyped DEF Timers
    <2> QED
        BY <2>1
<1> HIDE DEF n
<1>6. Hands(r, a, W) /\ ScuOk(a)
    BY <1>4, <1>5, CountLine, CountLineHands DEF Does
<1> HIDE DEF a
<1>7. Hands(a, m, W) /\ ScuOk(m)
    <2>1. Hands(a, m, {}) /\ ScuOk(m)
        <3>1. Hands(a, m, {}) /\ Does(a, m, Others)
            BY <1>6, Timer0MatchedHands, Timer0MatchedOk
        <3> QED
            BY <3>1 DEF Does
    <2> HIDE DEF m
    <2> QED
        BY <1>2, <2>1, HandsMore
<1>8. Hands(a, Timer0Missed(a), W) /\ ScuOk(Timer0Missed(a))
    BY <1>1, <1>6, Timer0MissedHands, Timer0MissedOk DEF Does
<1> HIDE DEF m
<1>9. Hands(a, b, W) /\ ScuOk(b)
    BY <1>7, <1>8
<1> HIDE DEF b
<1>10. Hands(b, c, W) /\ ScuOk(c)
    BY <1>1, <1>9, Timer1ReloadedHands, Timer1ReloadedOk, HandsNothing,
       ActsOk
<1> HIDE DEF c
<1>11. Hands(a, c, W)
    BY <1>2, <1>9, <1>10, HandsTwice
<1>12. Hands(a, e, W) /\ ScuOk(e)
    BY <1>6, <1>10, <1>11, HandsNothing
<1> HIDE DEF e
<1>13. Hands(e, d, W)
    BY <1>2, <1>12, CheckInterruptDMAHands, HandsMore
<1> HIDE DEF d
<1>14. Hands(s, a, W)
    BY <1>2, <1>4, <1>6, HandsTwice
<1>15. Hands(s, e, W)
    BY <1>2, <1>12, <1>14, HandsTwice
<1>16. Hands(s, d, W)
    BY <1>2, <1>13, <1>15, HandsTwice
<1> QED
    BY <1>1, <1>3, <1>16

(* Timer 1 is raised when it has run down.                                 *)
LEMMA Timer1ExecHands ==
    ASSUME NEW s, ScuOk(s)
    PROVE  Hands(s, Timer1Exec(s), {}) /\ ScuOk(Timer1Exec(s))
<1> DEFINE left == s.timer.counter - TimerTick
           m == [s.timer EXCEPT !.counter = left]
           k == [m EXCEPT !.timer1_set = TRUE]
           t == [s EXCEPT !.timer = m]
           u == [s EXCEPT !.timer = k]
           v == ScuSendTimer1(u)
<1>1. s.timer \in Timers /\ s.timer.counter \in Int
    BY TimerTyped DEF Timers
<1>2. left \in Int
    BY <1>1, TimerTickAssumption
<1> DEFINE t1 == [s EXCEPT !.timer.counter = left]
           u1 == [t1 EXCEPT !.timer.timer1_set = TRUE]
<1>3. Timer1Exec(s) \in {s, t, u, v}
    <2>1. t1 = t /\ u1 = u
        BY DEF ScuOk, ScuState
    <2>2. Timer1Exec(s) \in {s, t1, u1, ScuSendTimer1(u1)}
        BY <1>1, <1>2 DEF Timer1Exec
    <2> QED
        BY <2>1, <2>2
<1> HIDE DEF t1, u1, left
<1>4. m \in Timers
    BY <1>1, <1>2, TimerFields
<1> HIDE DEF m
<1>5. k \in Timers
    BY <1>4, TimerFields
<1> HIDE DEF k
<1>6. ScuOk(t) /\ Hands(s, t, {}) /\ ScuOk(u) /\ Hands(s, u, {})
    BY <1>4, <1>5, TimerUpdate, TimerHands
<1> HIDE DEF u
<1>7. Hands(u, v, {})
    BY <1>6, RaiseAndStartHands DEF ScuSendTimer1, Source
<1>8. ScuOk(Timer1Exec(s))
    BY Timer1ExecOk, ActsOk
<1> HIDE DEF v, t
<1>9. Hands(s, v, {})
    BY <1>6, <1>7, HandsTwice, BlankingsAreNoEnd
<1> QED
    BY <1>3, <1>6, <1>8, <1>9, HandsNothing

(* ScuExec withdraws nothing.                                              *)
LEMMA ScuExecHands ==
    ASSUME NEW s, ScuOk(s), NEW line, NEW dspEnd
    PROVE  Hands(s, ScuExec(s, line, dspEnd), {})
<1>1. ASSUME NEW u, Hands(s, u, {}), ScuOk(u)
      PROVE  /\ Hands(s, DmaProc(u, FALSE), {})
             /\ Hands(s, Raise(DmaProc(u, FALSE), "DSPEnd"), {})
    <2> DEFINE v == DmaProc(u, FALSE)
               w == Raise(v, "DSPEnd")
    <2>1. Hands(u, v, {}) /\ ScuOk(v)
        BY <1>1, DmaProcHands, DmaProcOk DEF Moves
    <2> HIDE DEF v
    <2>2. Hands(v, w, {})
        BY <2>1, RaiseHands DEF Source
    <2> HIDE DEF w
    <2>3. Hands(s, v, {}) /\ Hands(s, w, {})
        BY <1>1, <2>1, <2>2, HandsTwice, BlankingsAreNoEnd
    <2> QED
        BY <2>3 DEF v, w
<1> DEFINE t == Timer1Exec(s)
<1>2. \E u \in {s, t} : ScuExec(s, line, dspEnd)
         \in {DmaProc(u, FALSE), Raise(DmaProc(u, FALSE), "DSPEnd")}
    BY DEF ScuExec
<1>3. /\ Hands(s, t, {}) /\ ScuOk(t)
      /\ Hands(s, s, {})
    BY Timer1ExecHands, HandsNothing
<1> HIDE DEF t
<1> QED
    BY <1>1, <1>2, <1>3

(* A write to T0C, T1S or T1MD hands nothing on.                           *)
LEMMA TimerWritesHand ==
    ASSUME NEW s, ScuOk(s)
    PROVE  /\ \A v : Hands(s, WriteT0C(s, v), {})
           /\ \A v : Hands(s, WriteT1S(s, v), {})
           /\ \A enable, line : Hands(s, WriteT1MD(s, enable, line), {})
<1>1. ASSUME NEW v PROVE Hands(s, WriteT0C(s, v), {})
    <2>1. WriteT0C(s, v) = [s EXCEPT !.timer = [s.timer EXCEPT !.T0C = v]]
        BY DEF WriteT0C
    <2> QED
        BY <2>1, TimerHands
<1>2. ASSUME NEW v PROVE Hands(s, WriteT1S(s, v), {})
    BY TimerHands DEF WriteT1S
<1>3. ASSUME NEW enable, NEW line
      PROVE  Hands(s, WriteT1MD(s, enable, line), {})
    BY TimerHands DEF WriteT1MD
<1> QED
    BY <1>1, <1>2, <1>3

(* ScuReset masks every source and leaves the requests of the SH-2s.       *)
LEMMA ScuResetHands ==
    ASSUME NEW s, ScuOk(s)
    PROVE  /\ ScuReset(s).irq.ims = Source
           /\ ScuReset(s).irq.iqr = s.irq.iqr
<1> DEFINE c == ResetController(s.irq)
           a == [s EXCEPT !.irq = c]
           b == ResetDma(a)
           w == WriteT1MD(b, FALSE, FALSE)
           e == [w EXCEPT !.timer.timer0 = 0]
<1>1. c.ims = Source /\ c.iqr = s.irq.iqr
    BY DEF ResetController, ScuOk, ScuState, Controller
<1>2. Keeps(s.irq, c, {}) /\ a.irq = c
    BY ResetControllerOk DEF ScuOk, ScuState
<1>3. ScuReset(s) = e
    BY DEF ScuReset
<1> HIDE DEF c
<1>4. ScuOk(a)
    BY <1>2, IrqActs, ActsOk
<1> HIDE DEF a
<1>5. ScuOk(b) /\ b.irq = a.irq
    BY <1>4, ResetDmaOk
<1> HIDE DEF b
<1>6. ScuOk(w) /\ w.irq = b.irq
    <2>1. w.irq = b.irq
        BY <1>5 DEF WriteT1MD, ScuOk, ScuState
    <2> QED
        BY <2>1, <1>5, TimerWritesOk DEF Does
<1> HIDE DEF w
<1>7. e.irq = w.irq
    BY <1>6 DEF ScuOk, ScuState
<1> HIDE DEF e
<1> QED
    BY <1>1, <1>2, <1>3, <1>5, <1>6, <1>7

=============================================================================
