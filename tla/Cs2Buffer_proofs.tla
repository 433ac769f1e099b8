-------------------------- MODULE Cs2Buffer_proofs --------------------------
(***************************************************************************)
(* Proofs about Cs2Buffer, for every number of blocks and partitions,      *)
(* every size of sectors, and programs that keep the protocol of transfers *)
(* or do not.  Whatever the program does, the sectors the partitions count *)
(* stay there, but for the moves within one partition, which lose sectors. *)
(* With a program that keeps the protocol and makes no such move the CD    *)
(* block is the store of SectorStore, and with a disc that reads besides   *)
(* no block of it is lost: every allocated block is a sector some          *)
(* partition counts, so that emptying the partitions frees the buffer.     *)
(***************************************************************************)
EXTENDS Cs2Buffer, FiniteSetTheorems, SequenceTheorems, WellFoundedInduction, TLAPS

---------------------------------------------------------------------------
(***************************************************************************)
(* Numbers of blocks.                                                      *)
(***************************************************************************)
LEMMA BlocksCounted == MaxBlocks \in Nat /\ IsFiniteSet(Slot) /\ NULL \notin Block
BY BlockAssumption, FS_CardinalityType, FS_Interval DEF MaxBlocks, Slot

\* How many slots a range has.
LEMMA IntervalCounted ==
    ASSUME NEW a \in Int, NEW n \in Nat
    PROVE  IsFiniteSet(a .. a + n - 1) /\ Cardinality(a .. a + n - 1) = n
<1>1. a + n - 1 \in Int
  OBVIOUS
<1>2. /\ IsFiniteSet(a .. a + n - 1)
      /\ Cardinality(a .. a + n - 1) = IF a > a + n - 1 THEN 0 ELSE a + n - 1 - a + 1
  BY <1>1, FS_Interval
<1> QED
  BY <1>2

\* How many slots lie in front of one.
LEMMA FirstCounted ==
    ASSUME NEW n \in Nat
    PROVE  IsFiniteSet(0 .. n - 1) /\ Cardinality(0 .. n - 1) = n
<1>1. 0 .. n - 1 = 0 .. 0 + n - 1
  OBVIOUS
<1>2. IsFiniteSet(0 .. 0 + n - 1) /\ Cardinality(0 .. 0 + n - 1) = n
  BY IntervalCounted
<1> QED
  BY <1>1, <1>2

\* A set has as many members as its image under a function that keeps them apart.
LEMMA ImageCounted ==
    ASSUME NEW S, IsFiniteSet(S), NEW f,
           \A i, j \in S : f[i] = f[j] => i = j
    PROVE  /\ IsFiniteSet({f[i] : i \in S})
           /\ Cardinality({f[i] : i \in S}) = Cardinality(S)
<1> DEFINE T == {f[i] : i \in S}
           g == [i \in S |-> f[i]]
<1>1. g \in Surjection(S, T)
  BY DEF Surjection
<1>2. g \in Injection(S, T)
  BY DEF Injection, IsInjective
<1> HIDE DEF T, g
<1>3. IsFiniteSet(T) /\ Cardinality(T) = Cardinality(S)
  BY <1>1, <1>2, FS_Surjection
<1> QED
  BY <1>3 DEF T

\* Blocks are in use or free, and both can be counted.
LEMMA FreeCounted ==
    ASSUME NEW u \in SUBSET Block
    PROVE  /\ IsFiniteSet(u) /\ Cardinality(u) \in Nat
           /\ IsFiniteSet(Block \ u) /\ Cardinality(Block \ u) \in Nat
           /\ Cardinality(Block \ u) = MaxBlocks - Cardinality(u)
<1>1. IsFiniteSet(Block)
  BY BlockAssumption
<1>2. IsFiniteSet(u) /\ IsFiniteSet(Block \ u)
  BY <1>1, FS_Subset
<1>3. Cardinality(Block \ u) = Cardinality(Block) - Cardinality(Block \cap u)
  BY <1>1, FS_Difference
<1>4. Block \cap u = u
  OBVIOUS
<1> QED
  BY <1>2, <1>3, <1>4, FS_CardinalityType DEF MaxBlocks

---------------------------------------------------------------------------
(***************************************************************************)
(* Slots, and Cs2SortBlocks.                                               *)
(***************************************************************************)
Slots == [Slot -> Block \cup {NULL}]

Entries(b)  == {b[i] : i \in Slot} \ {NULL}
Distinct(b) == \A i, j \in Slot : b[i] # NULL /\ b[i] = b[j] => i = j

\* A partition fills no more slots than there are.
LEMMA FullFinite ==
    ASSUME NEW b \in Slots
    PROVE  /\ Full(b) \subseteq Slot /\ IsFiniteSet(Full(b))
           /\ Cardinality(Full(b)) \in Nat /\ Cardinality(Full(b)) <= MaxBlocks
<1>1. Full(b) \subseteq Slot
  BY DEF Full, Slots
<1>2. /\ IsFiniteSet(Full(b))
      /\ Cardinality(Full(b)) <= Cardinality(Slot)
  BY <1>1, BlocksCounted, FS_Subset
<1>3. Slot = 0 .. 0 + MaxBlocks - 1
  BY BlocksCounted DEF Slot
<1>4. Cardinality(Slot) = MaxBlocks
  BY <1>3, BlocksCounted, IntervalCounted
<1> QED
  BY <1>1, <1>2, <1>4, FS_CardinalityType

\* A partition that has each block once has as many blocks as full slots.
LEMMA EntriesCounted ==
    ASSUME NEW b \in Slots, Distinct(b)
    PROVE  IsFiniteSet(Entries(b)) /\ Cardinality(Entries(b)) = Cardinality(Full(b))
<1>1. Full(b) = {i \in Slot : b[i] # NULL} /\ IsFiniteSet(Full(b))
  BY FullFinite DEF Full, Slots
<1>2. \A i, j \in Full(b) : b[i] = b[j] => i = j
  BY <1>1 DEF Distinct
<1>3. /\ IsFiniteSet({b[i] : i \in Full(b)})
      /\ Cardinality({b[i] : i \in Full(b)}) = Cardinality(Full(b))
  BY <1>1, <1>2, ImageCounted
<1>4. Entries(b) = {b[i] : i \in Full(b)}
  BY <1>1 DEF Entries
<1> QED
  BY <1>3, <1>4

Below(b, i) == {j \in Full(b) : j < i}

\* The ranks of the full slots are 0 .. Cardinality(Full(b)) - 1, each once.
LEMMA RanksComplete ==
    ASSUME NEW b \in Slots
    PROVE  /\ \A k \in 0 .. Cardinality(Full(b)) - 1 : \E i \in Full(b) : Rank(b, i) = k
           /\ \A i \in Full(b) : Rank(b, i) \in 0 .. Cardinality(Full(b)) - 1
           /\ \A i, j \in Full(b) : Rank(b, i) = Rank(b, j) => i = j
<1> DEFINE F == Full(b)
           m == Cardinality(F)
           rank == [i \in F |-> Rank(b, i)]
<1>1. F \subseteq Slot /\ IsFiniteSet(F) /\ m \in Nat
  BY FullFinite
<1>2. Slot \subseteq Int
  BY BlocksCounted DEF Slot
<1>3. ASSUME NEW i \in F
      PROVE  /\ IsFiniteSet(Below(b, i)) /\ Rank(b, i) = Cardinality(Below(b, i))
             /\ Rank(b, i) \in Nat /\ Rank(b, i) < m
  <2>1. Below(b, i) \subseteq F /\ Rank(b, i) = Cardinality(Below(b, i))
    BY DEF Below, Rank
  <2>2. /\ IsFiniteSet(Below(b, i)) /\ Cardinality(Below(b, i)) <= m
        /\ m = Cardinality(Below(b, i)) => F = Below(b, i)
    BY <2>1, <1>1, FS_Subset
  <2>6. i \in Int
    BY <1>1, <1>2, Zenon
  <2>3. ~(i < i)
    BY <2>6
  <2>5. i \in F /\ i \notin Below(b, i)
    BY <2>3, Zenon DEF Below
  <2>4. Cardinality(Below(b, i)) \in Nat
    BY <2>2, FS_CardinalityType
  <2> HIDE DEF F, m
  <2> QED
    BY <2>1, <2>2, <2>5, <2>4, <1>1
<1>4. ASSUME NEW i \in F, NEW j \in F, i < j
      PROVE  Rank(b, i) # Rank(b, j)
  <2>1. i \in Int /\ j \in Int
    BY <1>1, <1>2
  <2>4. ~(i < i) /\ \A k \in Full(b) : k < i => k < j
    BY <2>1, <1>4, <1>1, <1>2
  <2>2. Below(b, i) \subseteq Below(b, j) /\ i \in Below(b, j) /\ i \notin Below(b, i)
    BY <2>4, <1>4, Zenon DEF Below
  <2>3. Cardinality(Below(b, j)) = Cardinality(Below(b, i)) => Below(b, j) = Below(b, i)
    BY <2>2, <1>3, FS_Subset
  <2> QED
    BY <2>2, <2>3, <1>3
<1>5. rank \in [F -> 0 .. m - 1]
  BY <1>3, <1>1
<1>6. ASSUME NEW i \in F, NEW j \in F, rank[i] = rank[j] PROVE i = j
  <2>1. Rank(b, i) = Rank(b, j)
    BY <1>6
  <2>2. i \in Int /\ j \in Int
    BY <1>1, <1>2
  <2> QED
    BY <2>1, <2>2, <1>4
<1>7. rank \in Injection(F, 0 .. m - 1)
  BY <1>5, <1>6 DEF Injection, IsInjective
<1>8. IsFiniteSet(0 .. m - 1) /\ Cardinality(0 .. m - 1) = m
  <2> HIDE DEF m
  <2> QED
    BY <1>1, FirstCounted
<1>9. rank \in Surjection(F, 0 .. m - 1)
  <2> HIDE DEF F, m, rank
  <2> QED
    BY <1>7, <1>8, FS_Injection, m = Cardinality(F) DEF m
<1>10. \A k \in 0 .. m - 1 : \E i \in F : rank[i] = k
  BY <1>9 DEF Surjection
<1>11. ASSUME NEW i \in F PROVE Rank(b, i) \in 0 .. m - 1
  <2>1. rank[i] \in 0 .. m - 1
    <3> HIDE DEF F, m, rank
    <3> QED
      BY <1>5
  <2> QED
    BY <2>1
<1> QED
  BY <1>6, <1>10, <1>11

\* Cs2SortBlocks keeps the entries, each once, and puts them before the gaps.
LEMMA Sorted ==
    ASSUME NEW b \in Slots
    PROVE  /\ Cs2SortBlocks(b) \in Slots
           /\ Entries(Cs2SortBlocks(b)) = Entries(b)
           /\ Distinct(b) => Distinct(Cs2SortBlocks(b))
           /\ \A k \in Slot : k < Cardinality(Full(b)) <=> Cs2SortBlocks(b)[k] # NULL
<1> DEFINE m == Cardinality(Full(b))
           at(k) == CHOOSE i \in Full(b) : Rank(b, i) = k
           c == Cs2SortBlocks(b)
<1>1. DOMAIN b = Slot /\ Slot \subseteq Nat /\ m \in Nat
  BY FullFinite, BlocksCounted DEF Slots, Slot
<1>2. c = [k \in Slot |-> IF k < m THEN b[at(k)] ELSE NULL]
  BY <1>1 DEF Cs2SortBlocks
<1>3. ASSUME NEW k \in Slot, k < m
      PROVE  at(k) \in Full(b) /\ Rank(b, at(k)) = k
  <2>1. k \in 0 .. m - 1
    BY <1>1, <1>3
  <2>2. \E i \in Full(b) : Rank(b, i) = k
    BY <2>1, RanksComplete
  <2> QED
    BY <2>2
<1>4. \A i \in Full(b) : i \in Slot /\ b[i] # NULL /\ b[i] \in Block
  BY DEF Full, Slots
<1> HIDE DEF m, at, c
<1>5. ASSUME NEW k \in Slot, k < m
      PROVE  c[k] = b[at(k)] /\ c[k] # NULL /\ c[k] \in Block /\ at(k) \in Slot
  BY <1>5, <1>2, <1>3, <1>4
<1>6. ASSUME NEW k \in Slot, ~(k < m) PROVE c[k] = NULL
  BY <1>6, <1>2
<1>7. c \in Slots
  BY <1>2, <1>5, <1>6 DEF Slots
<1>8. Entries(c) = Entries(b)
  <2>1. Entries(c) \subseteq Entries(b)
    BY <1>5, <1>6 DEF Entries
  <2>2. ASSUME NEW i \in Slot, b[i] # NULL PROVE \E k \in Slot : c[k] = b[i]
    <3> DEFINE k == Rank(b, i)
    <3>1. i \in Full(b) /\ k \in 0 .. m - 1 /\ m <= MaxBlocks
      BY <2>2, <1>1, RanksComplete, FullFinite DEF Full, m
    <3>2. k \in Slot /\ k < m
      BY <3>1, <1>1, BlocksCounted DEF Slot
    <3>3. at(k) = i
      BY <3>1, <3>2, <1>3, RanksComplete
    <3> QED
      BY <3>2, <3>3, <1>5
  <2>3. Entries(b) \subseteq Entries(c)
    BY <2>2 DEF Entries
  <2> QED
    BY <2>1, <2>3
<1>9. ASSUME Distinct(b), NEW k \in Slot, NEW l \in Slot, c[k] # NULL, c[k] = c[l]
      PROVE  k = l
  <2>1. k < m /\ l < m
    BY <1>9, <1>6
  <2>2. at(k) = at(l)
    BY <2>1, <1>9, <1>5 DEF Distinct
  <2> QED
    BY <2>1, <2>2, <1>3
<1>10. Distinct(b) => Distinct(c)
  BY <1>9 DEF Distinct
<1> QED
  BY <1>5, <1>6, <1>7, <1>8, <1>10 DEF c, m

\* Clearing slots and moving the rest together drops the blocks of the
\* cleared slots and no others.
LEMMA Removed ==
    ASSUME NEW b \in Slots, NEW R
    PROVE  /\ Without(b, R) \in Slots
           /\ Full(Without(b, R)) = Full(b) \ R
           /\ Entries(Without(b, R)) = {b[i] : i \in Full(b) \ R}
           /\ Distinct(b) => Distinct(Without(b, R))
<1> DEFINE c == Without(b, R)
<1>1. /\ DOMAIN b = Slot /\ \A i \in Slot : b[i] \in Block \cup {NULL}
      /\ c = [i \in Slot |-> IF i \in R THEN NULL ELSE b[i]]
  BY DEF Without, Slots
<1> HIDE DEF c
<1>2. c \in Slots
  BY <1>1 DEF Slots
<1>3. Full(c) = {i \in Slot : c[i] # NULL} /\ Full(b) = {i \in Slot : b[i] # NULL}
  BY <1>1 DEF Full
<1>4. \A i \in Slot : c[i] = IF i \in R THEN NULL ELSE b[i]
  BY <1>1
<1>5. Full(c) = Full(b) \ R
  BY <1>3, <1>4
<1>6. Entries(c) = {b[i] : i \in Full(b) \ R}
  BY <1>3, <1>4 DEF Entries
<1>7. Distinct(b) => Distinct(c)
  BY <1>4 DEF Distinct
<1> QED
  BY <1>2, <1>5, <1>6, <1>7 DEF c

---------------------------------------------------------------------------
(***************************************************************************)
(* One partition.                                                          *)
(***************************************************************************)
\* The sectors q counts are there, ...
AllThere(q) == \A i \in Slot : i < q.numblocks => q.block[i] # NULL

\* ... where whole says that they have to be.
Present(whole, q) == whole => AllThere(q)

\* The parts of a partition have their types.
LEMMA PartitionTyped ==
    ASSUME NEW q \in Partition
    PROVE  q.block \in Slots /\ q.numblocks \in 0 .. MaxBlocks /\ q.size \in Int
BY DEF Partition, Slots

\* As many sectors as a partition counts are left when n slots are cleared.
LEMMA EnoughLeft ==
    ASSUME NEW whole \in BOOLEAN, NEW q \in Partition, Present(whole, q), NEW a \in Int, NEW n \in Nat
    PROVE  whole => q.numblocks - n <= Cardinality(Full(q.block) \ (a .. a + n - 1))
<1> SUFFICES ASSUME whole
             PROVE  q.numblocks - n <= Cardinality(Full(q.block) \ (a .. a + n - 1))
  OBVIOUS
<1> DEFINE R == a .. a + n - 1
           F == Full(q.block)
           C == 0 .. q.numblocks - 1
<1>1. q.block \in Slots /\ q.numblocks \in Nat /\ q.numblocks <= MaxBlocks
  BY PartitionTyped, BlocksCounted
<1>2. IsFiniteSet(R) /\ Cardinality(R) = n
  BY IntervalCounted
<1>3. IsFiniteSet(C) /\ Cardinality(C) = q.numblocks
  BY <1>1, FirstCounted
<1>4. C \subseteq F
  BY <1>1, BlocksCounted DEF Present, AllThere, Full, Slots, Slot
<1>5. IsFiniteSet(F)
  BY <1>1, FullFinite
<1> HIDE DEF R, F, C
<1>6. IsFiniteSet(C \ R) /\ Cardinality(C \ R) = Cardinality(C) - Cardinality(C \cap R)
  BY <1>3, FS_Difference
<1>7. IsFiniteSet(C \cap R) /\ Cardinality(C \cap R) <= Cardinality(R)
  BY <1>2, FS_Intersection
<1>8. IsFiniteSet(F \ R) /\ Cardinality(C \ R) <= Cardinality(F \ R)
  <2>1. IsFiniteSet(F \ R) /\ C \ R \subseteq F \ R
    BY <1>4, <1>5, FS_Difference
  <2> QED
    BY <2>1, FS_Subset
<1>9. /\ Cardinality(C \cap R) \in Nat /\ Cardinality(C \ R) \in Nat
      /\ Cardinality(F \ R) \in Nat
  BY <1>6, <1>7, <1>8, FS_CardinalityType
<1>10. q.numblocks - n <= Cardinality(F \ R)
  BY <1>1, <1>2, <1>3, <1>6, <1>7, <1>8, <1>9
<1> QED
  BY <1>10 DEF F, R

\* A partition without the slots of R, which counts no more than it has left.
LEMMA Shrunk ==
    ASSUME NEW whole \in BOOLEAN, NEW q \in Partition, Distinct(q.block), NEW R,
           NEW n \in 0 .. MaxBlocks, whole => n <= Cardinality(Full(q.block) \ R),
           NEW size \in Int
    PROVE  LET w == WithoutSectors(q, R, n, size)
           IN  /\ w \in Partition /\ Distinct(w.block) /\ Present(whole, w)
               /\ Entries(w.block) \subseteq {q.block[i] : i \in Full(q.block) \ R}
<1> DEFINE c == Without(q.block, R)
           w == WithoutSectors(q, R, n, size)
<1>1. q.block \in Slots
  BY PartitionTyped
<1>2. /\ c \in Slots /\ Full(c) = Full(q.block) \ R
      /\ Entries(c) = {q.block[i] : i \in Full(q.block) \ R}
      /\ Distinct(c)
  BY <1>1, Removed
<1>3. /\ Cs2SortBlocks(c) \in Slots
      /\ Entries(Cs2SortBlocks(c)) \subseteq Entries(c)
      /\ Distinct(Cs2SortBlocks(c))
      /\ \A k \in Slot : k < Cardinality(Full(c)) => Cs2SortBlocks(c)[k] # NULL
  BY <1>2, Sorted
<1>4. w = [block |-> Cs2SortBlocks(c), numblocks |-> n, size |-> size]
  BY DEF WithoutSectors
<1> HIDE DEF c, w
<1>5. w \in Partition
  BY <1>3, <1>4 DEF Partition, Slots
<1>6. Cardinality(Full(c)) \in Nat
  BY <1>2, FullFinite
<1>7. Present(whole, w)
  <2>1. SUFFICES ASSUME whole, NEW k \in Slot, k < w.numblocks PROVE w.block[k] # NULL
    BY DEF Present, AllThere
  <2>2. k \in Nat /\ n \in Nat /\ w.numblocks = n /\ n <= Cardinality(Full(c))
    BY <1>2, <1>4, <2>1, BlocksCounted DEF Slot
  <2>3. k < Cardinality(Full(c))
    BY <2>1, <2>2, <1>6
  <2> QED
    BY <2>3, <1>3, <1>4
<1> QED
  BY <1>2, <1>3, <1>4, <1>5, <1>7 DEF w

\* Blocks for n slots, each at most once; all of them are there if they have to.
Fresh(whole, new, n) ==
    /\ new \in [0 .. n - 1 -> Block \cup {NULL}]
    /\ \A k, l \in 0 .. n - 1 : new[k] # NULL /\ new[k] = new[l] => k = l
    /\ whole => \A k \in 0 .. n - 1 : new[k] # NULL

\* A partition with n sectors more, for which there is room.
LEMMA Grown ==
    ASSUME NEW whole \in BOOLEAN, NEW q \in Partition, Distinct(q.block),
           Present(whole, q), NEW n \in Nat, q.numblocks + n <= MaxBlocks,
           NEW new, Fresh(whole, new, n),
           (Range(new) \ {NULL}) \cap Entries(q.block) = {},
           NEW size \in Int
    PROVE  LET w == WithSectors(q, n, new, size)
           IN  /\ w \in Partition /\ Distinct(w.block) /\ Present(whole, w)
               /\ Entries(w.block) \subseteq Entries(q.block) \cup (Range(new) \ {NULL})
<1> DEFINE w == WithSectors(q, n, new, size)
           T == q.numblocks .. q.numblocks + n - 1
           b == q.block
           s == q.numblocks
<1>1. b \in Slots /\ s \in Nat /\ Slot \subseteq Nat /\ MaxBlocks \in Nat
  BY PartitionTyped, BlocksCounted DEF Slot
<1>2. /\ w.block = [i \in Slot |-> IF i \in T THEN new[i - s] ELSE b[i]]
      /\ w.numblocks = s + n /\ w.size = size
      /\ w = [block |-> w.block, numblocks |-> w.numblocks, size |-> w.size]
  BY DEF WithSectors, NextSlots
<1>3. \A i \in T : i - s \in 0 .. n - 1
  BY <1>1
<1>4. \A i \in T : /\ new[i - s] \in Block \cup {NULL}
                   /\ new[i - s] # NULL => new[i - s] \in Range(new) \ {NULL}
  BY <1>3 DEF Range, Fresh
<1>5. \A i \in Slot : b[i] \in Block \cup {NULL} /\ (b[i] # NULL => b[i] \in Entries(b))
  BY <1>1 DEF Slots, Entries
<1> HIDE DEF w, b, s
<1>6. \A i \in Slot : w.block[i] = IF i \in T THEN new[i - s] ELSE b[i]
  BY <1>2
<1> HIDE DEF T
<1>7. w.block \in Slots
  BY <1>2, <1>4, <1>5 DEF Slots
<1>8. w \in Partition
  <2>1. s + n \in 0 .. MaxBlocks
    BY <1>1 DEF s
  <2> QED
    BY <2>1, <1>2, <1>7 DEF Partition, Slots
<1>9. Entries(w.block) \subseteq Entries(b) \cup (Range(new) \ {NULL})
  BY <1>4, <1>5, <1>6 DEF Entries
<1>10. ASSUME NEW i \in Slot, NEW j \in Slot, w.block[i] # NULL, w.block[i] = w.block[j]
       PROVE  i = j
  <2>1. CASE i \in T /\ j \in T
    <3>1. new[i - s] = new[j - s] /\ new[i - s] # NULL
      BY <2>1, <1>6, <1>10
    <3>2. i - s = j - s
      BY <3>1, <2>1, <1>3 DEF Fresh
    <3> QED
      BY <3>2, <1>1
  <2>2. CASE i \in T /\ j \notin T
    BY <2>2, <1>4, <1>5, <1>6, <1>10, (Range(new) \ {NULL}) \cap Entries(b) = {} DEF b
  <2>3. CASE i \notin T /\ j \in T
    BY <2>3, <1>4, <1>5, <1>6, <1>10, (Range(new) \ {NULL}) \cap Entries(b) = {} DEF b
  <2>4. CASE i \notin T /\ j \notin T
    BY <2>4, <1>6, <1>10, Distinct(b) DEF Distinct, b
  <2> QED
    BY <2>1, <2>2, <2>3, <2>4
<1>11. Present(whole, w)
  <2>1. SUFFICES ASSUME whole, NEW i \in Slot, i < s + n PROVE w.block[i] # NULL
    BY <1>2 DEF Present, AllThere
  <2>2. CASE i \in T
    BY <2>1, <2>2, <1>3, <1>6 DEF Fresh
  <2>3. CASE i \notin T
    <3>1. i < s
      BY <2>1, <2>3, <1>1 DEF T, s
    <3> QED
      BY <2>1, <3>1, <2>3, <1>6 DEF Present, AllThere, b, s
  <2> QED
    BY <2>2, <2>3
<1> QED
  BY <1>8, <1>9, <1>10, <1>11 DEF Distinct, w, b

---------------------------------------------------------------------------
(***************************************************************************)
(* All partitions.  Holds(whole, u, P): the partitions P hold blocks of u  *)
(* only, each block in one slot of one of them, and what they count is     *)
(* there if it has to.                                                     *)
(***************************************************************************)
Holds(whole, u, P) ==
    /\ P \in [Selector -> Partition]
    /\ \A p \in Selector : /\ Entries(P[p].block) \subseteq u
                           /\ Distinct(P[p].block)
                           /\ Present(whole, P[p])
    /\ \A p, r \in Selector : p # r => Entries(P[p].block) \cap Entries(P[r].block) = {}

\* Partition p becomes q, and the blocks in use v.
LEMMA Replaced ==
    ASSUME NEW whole \in BOOLEAN, NEW u, NEW v, NEW P, Holds(whole, u, P), NEW p \in Selector,
           NEW q \in Partition, Distinct(q.block), Present(whole, q),
           Entries(q.block) \subseteq v,
           \A r \in Selector \ {p} : /\ Entries(P[r].block) \subseteq v
                                     /\ Entries(P[r].block) \cap Entries(q.block) = {}
    PROVE  Holds(whole, v, [P EXCEPT ![p] = q])
<1> DEFINE Q == [P EXCEPT ![p] = q]
<1>1. /\ Q \in [Selector -> Partition] /\ Q[p] = q
      /\ \A r \in Selector \ {p} : Q[r] = P[r]
  BY DEF Holds
<1> HIDE DEF Q
<1>2. \A r \in Selector : /\ Entries(Q[r].block) \subseteq v
                          /\ Distinct(Q[r].block) /\ Present(whole, Q[r])
  BY <1>1 DEF Holds
<1>3. \A r, t \in Selector : r # t => Entries(Q[r].block) \cap Entries(Q[t].block) = {}
  BY <1>1 DEF Holds
<1> QED
  BY <1>1, <1>2, <1>3 DEF Holds, Q

---------------------------------------------------------------------------
(***************************************************************************)
(* The room.  A slot is taken when its partition counts it or has a block  *)
(* in it, and no more slots are taken than blocks are in use: where a      *)
(* counted slot is empty, a block has been lost.                           *)
(***************************************************************************)
Taken(q) == {i \in Slot : i < q.numblocks \/ q.block[i] # NULL}

AllTaken(P) == {x \in Selector \X Slot : x[2] \in Taken(P[x[1]])}

Room(u, P) == IsFiniteSet(AllTaken(P)) /\ Cardinality(AllTaken(P)) <= Cardinality(u)

\* The taken slots of one partition: those that are full and those it counts.
LEMMA TakenCounted ==
    ASSUME NEW q \in Partition
    PROVE  /\ Taken(q) \subseteq Slot /\ IsFiniteSet(Taken(q))
           /\ Cardinality(Taken(q)) \in Nat
           /\ Full(q.block) \subseteq Taken(q) /\ 0 .. q.numblocks - 1 \subseteq Taken(q)
           /\ q.numblocks <= Cardinality(Taken(q))
           /\ Cardinality(Full(q.block)) <= Cardinality(Taken(q))
<1>1. q.block \in Slots /\ q.numblocks \in Nat /\ q.numblocks <= MaxBlocks
  BY PartitionTyped, BlocksCounted
<1>2. Taken(q) \subseteq Slot /\ IsFiniteSet(Taken(q))
  BY BlocksCounted, FS_Subset DEF Taken
<1>3. Full(q.block) \subseteq Taken(q) /\ 0 .. q.numblocks - 1 \subseteq Taken(q)
  BY <1>1, BlocksCounted DEF Taken, Full, Slots, Slot
<1>4. Cardinality(0 .. q.numblocks - 1) = q.numblocks
  BY <1>1, FirstCounted
<1>5. /\ Cardinality(Full(q.block)) <= Cardinality(Taken(q))
      /\ Cardinality(0 .. q.numblocks - 1) <= Cardinality(Taken(q))
  BY <1>2, <1>3, FS_Subset
<1> QED
  BY <1>2, <1>3, <1>4, <1>5, FS_CardinalityType

\* Partition p becomes q: its taken slots go, and those of q come.
LEMMA TakenReplaced ==
    ASSUME NEW P \in [Selector -> Partition], IsFiniteSet(AllTaken(P)),
           NEW p \in Selector, NEW q \in Partition
    PROVE  LET Q == [P EXCEPT ![p] = q]
           IN  /\ IsFiniteSet(AllTaken(Q))
               /\ Cardinality(AllTaken(Q))
                    = Cardinality(AllTaken(P)) - Cardinality(Taken(P[p]))
                        + Cardinality(Taken(q))
               /\ Cardinality(Taken(P[p])) <= Cardinality(AllTaken(P))
<1> DEFINE Q == [P EXCEPT ![p] = q]
           pair == [i \in Slot |-> <<p, i>>]
           Of(S) == {pair[i] : i \in S}
           rest == {x \in AllTaken(P) : x[1] # p}
<1>1. /\ Q \in [Selector -> Partition] /\ Q[p] = q
      /\ \A r \in Selector \ {p} : Q[r] = P[r]
  OBVIOUS
<1>2. /\ Taken(P[p]) \subseteq Slot /\ IsFiniteSet(Taken(P[p]))
      /\ Taken(q) \subseteq Slot /\ IsFiniteSet(Taken(q))
      /\ Cardinality(Taken(P[p])) \in Nat /\ Cardinality(Taken(q)) \in Nat
  <2>1. P[p] \in Partition
    OBVIOUS
  <2> QED
    BY <2>1, TakenCounted
<1>3. ASSUME NEW S, S \subseteq Slot, IsFiniteSet(S)
      PROVE  /\ IsFiniteSet(Of(S)) /\ Cardinality(Of(S)) = Cardinality(S)
             /\ rest \cap Of(S) = {}
  <2>1. \A i, j \in S : pair[i] = pair[j] => i = j
    BY <1>3
  <2>2. \A i \in S : pair[i][1] = p
    BY <1>3
  <2> HIDE DEF pair
  <2>3. IsFiniteSet(Of(S)) /\ Cardinality(Of(S)) = Cardinality(S)
    BY <1>3, <2>1, ImageCounted
  <2> QED
    BY <2>2, <2>3
<1>4. AllTaken(P) = rest \cup Of(Taken(P[p]))
  <2>1. ASSUME NEW x \in Selector \X Slot, x[2] \in Taken(P[x[1]]), x[1] = p
        PROVE  x \in Of(Taken(P[p]))
    <3>1. x = <<p, x[2]>>
      BY <2>1
    <3> QED
      BY <3>1, <2>1
  <2>2. Of(Taken(P[p])) \subseteq AllTaken(P)
    <3>1. \A i \in Taken(P[p]) : pair[i] = <<p, i>> /\ i \in Slot
      BY <1>2
    <3> HIDE DEF pair
    <3> QED
      BY <3>1 DEF AllTaken
  <2> HIDE DEF Of
  <2> QED
    BY <2>1, <2>2 DEF AllTaken
<1>5. AllTaken(Q) = rest \cup Of(Taken(q))
  <2> HIDE DEF Q
  <2>1. ASSUME NEW x \in Selector \X Slot, x[2] \in Taken(Q[x[1]]), x[1] = p
        PROVE  x \in Of(Taken(q))
    <3>1. x = <<p, x[2]>> /\ x[2] \in Taken(q)
      BY <1>1, <2>1
    <3> QED
      BY <3>1, <2>1
  <2>2. \A x \in Selector \X Slot : x[1] # p => Q[x[1]] = P[x[1]]
    BY <1>1
  <2>3. Of(Taken(q)) \subseteq AllTaken(Q)
    <3>1. \A i \in Taken(q) : pair[i] = <<p, i>> /\ i \in Slot
      BY <1>2
    <3>2. \A i \in Taken(q) : <<p, i>> \in AllTaken(Q)
      BY <3>1, <1>1 DEF AllTaken
    <3> HIDE DEF pair
    <3> QED
      BY <3>1, <3>2
  <2> HIDE DEF Of
  <2> QED
    BY <2>1, <2>2, <2>3 DEF AllTaken
<1> HIDE DEF Of, pair, Q
<1>6. IsFiniteSet(rest) /\ Cardinality(rest) \in Nat
  BY FS_Subset, FS_CardinalityType
<1> HIDE DEF rest
<1>7. ASSUME NEW S, S \subseteq Slot, IsFiniteSet(S), Cardinality(S) \in Nat
      PROVE  /\ IsFiniteSet(rest \cup Of(S))
             /\ Cardinality(rest \cup Of(S)) = Cardinality(rest) + Cardinality(S)
  <2>1. /\ IsFiniteSet(Of(S)) /\ Cardinality(Of(S)) = Cardinality(S)
        /\ rest \cap Of(S) = {}
    BY <1>3, <1>7
  <2>2. /\ IsFiniteSet(rest \cup Of(S))
        /\ Cardinality(rest \cup Of(S))
             = Cardinality(rest) + Cardinality(Of(S)) - Cardinality(rest \cap Of(S))
    BY <1>6, <2>1, FS_Union
  <2>3. Cardinality(rest \cap Of(S)) = 0
    BY <2>1, FS_EmptySet
  <2> QED
    BY <1>6, <1>7, <2>1, <2>2, <2>3
<1>8. /\ Cardinality(AllTaken(P)) = Cardinality(rest) + Cardinality(Taken(P[p]))
      /\ Cardinality(AllTaken(Q)) = Cardinality(rest) + Cardinality(Taken(q))
      /\ IsFiniteSet(AllTaken(Q))
  BY <1>2, <1>4, <1>5, <1>7
<1>9. /\ IsFiniteSet(AllTaken(Q))
      /\ Cardinality(AllTaken(Q))
           = Cardinality(AllTaken(P)) - Cardinality(Taken(P[p])) + Cardinality(Taken(q))
      /\ Cardinality(Taken(P[p])) <= Cardinality(AllTaken(P))
  BY <1>2, <1>6, <1>8
<1> QED
  BY <1>9 DEF Q

\* Partition p takes no more slots than before, but for as many as there are
\* new blocks in use.
LEMMA RoomKept ==
    ASSUME NEW u \in SUBSET Block, NEW v \in SUBSET Block,
           NEW P \in [Selector -> Partition], Room(u, P),
           NEW p \in Selector, NEW q \in Partition,
           Cardinality(Taken(q)) + Cardinality(u)
             <= Cardinality(Taken(P[p])) + Cardinality(v)
    PROVE  Room(v, [P EXCEPT ![p] = q])
<1> DEFINE Q == [P EXCEPT ![p] = q]
<1>1. /\ Cardinality(u) \in Nat /\ Cardinality(v) \in Nat
      /\ Cardinality(Taken(q)) \in Nat /\ Cardinality(Taken(P[p])) \in Nat
      /\ Cardinality(AllTaken(P)) \in Nat /\ Cardinality(AllTaken(P)) <= Cardinality(u)
      /\ IsFiniteSet(AllTaken(P))
  <2>1. P[p] \in Partition
    OBVIOUS
  <2> QED
    BY <2>1, FreeCounted, TakenCounted, FS_CardinalityType DEF Room
<1>2. /\ IsFiniteSet(AllTaken(Q))
      /\ Cardinality(AllTaken(Q))
           = Cardinality(AllTaken(P)) - Cardinality(Taken(P[p])) + Cardinality(Taken(q))
  BY <1>1, TakenReplaced
<1> HIDE DEF Q
<1>3. Cardinality(AllTaken(Q)) <= Cardinality(v)
  BY <1>1, <1>2
<1> QED
  BY <1>2, <1>3 DEF Room, Q

\* Free blocks go into any partition: it does not have the slots they need yet.
LEMMA RoomForFree ==
    ASSUME NEW u \in SUBSET Block, NEW P \in [Selector -> Partition], Room(u, P),
           NEW p \in Selector, NEW n \in Nat, n <= Cardinality(Block \ u)
    PROVE  P[p].numblocks + n <= MaxBlocks
<1>1. /\ Cardinality(u) \in Nat /\ MaxBlocks \in Nat
      /\ Cardinality(Block \ u) = MaxBlocks - Cardinality(u)
  BY FreeCounted, BlocksCounted
<1>2. /\ P[p] \in Partition /\ P[p].numblocks \in Nat
      /\ P[p].numblocks <= Cardinality(Taken(P[p])) /\ Cardinality(Taken(P[p])) \in Nat
  <2>1. P[p] \in Partition
    OBVIOUS
  <2> QED
    BY <2>1, PartitionTyped, TakenCounted, BlocksCounted
<1>3. /\ IsFiniteSet(AllTaken(P)) /\ Cardinality(AllTaken(P)) <= Cardinality(u)
      /\ Cardinality(AllTaken(P)) \in Nat
  BY FS_CardinalityType DEF Room
<1>4. Cardinality(Taken(P[p])) <= Cardinality(AllTaken(P))
  BY <1>2, <1>3, TakenReplaced
<1> QED
  BY <1>1, <1>2, <1>3, <1>4

\* Two partitions together count no more than there are blocks.
LEMMA RoomForMoved ==
    ASSUME NEW u \in SUBSET Block, NEW P \in [Selector -> Partition], Room(u, P),
           NEW p \in Selector, NEW r \in Selector, p # r
    PROVE  P[p].numblocks + P[r].numblocks <= MaxBlocks
<1> DEFINE Q == [P EXCEPT ![p] = Empty]
<1>1. Empty \in Partition /\ Taken(Empty) = {}
  BY BlocksCounted DEF Empty, Partition, Taken, Slot
<1>2. Q \in [Selector -> Partition] /\ Q[r] = P[r]
  BY <1>1
<1>3. Cardinality(Taken(Empty)) = 0
  BY <1>1, FS_EmptySet
<1>4. /\ P[p] \in Partition /\ P[r] \in Partition
      /\ P[p].numblocks \in Nat /\ P[p].numblocks <= Cardinality(Taken(P[p]))
      /\ P[r].numblocks \in Nat /\ P[r].numblocks <= Cardinality(Taken(P[r]))
      /\ Cardinality(Taken(P[p])) \in Nat /\ Cardinality(Taken(P[r])) \in Nat
  <2>1. P[p] \in Partition /\ P[r] \in Partition
    OBVIOUS
  <2> QED
    BY <2>1, PartitionTyped, TakenCounted, BlocksCounted
<1>5. /\ IsFiniteSet(AllTaken(P)) /\ Cardinality(AllTaken(P)) <= Cardinality(u)
      /\ Cardinality(AllTaken(P)) \in Nat
  BY FS_CardinalityType DEF Room
<1>6. /\ IsFiniteSet(AllTaken(Q))
      /\ Cardinality(AllTaken(Q))
           = Cardinality(AllTaken(P)) - Cardinality(Taken(P[p])) + Cardinality(Taken(Empty))
  BY <1>1, <1>5, TakenReplaced
<1> HIDE DEF Q
<1>7. Cardinality(Taken(Q[r])) <= Cardinality(AllTaken(Q))
  <2>1. Q[r] \in Partition
    BY <1>2
  <2> QED
    BY <2>1, <1>2, <1>6, TakenReplaced
<1>8. Cardinality(u) <= MaxBlocks /\ Cardinality(u) \in Nat /\ MaxBlocks \in Nat
  <2>1. Cardinality(Block \ u) = MaxBlocks - Cardinality(u) /\ Cardinality(Block \ u) \in Nat
        /\ Cardinality(u) \in Nat
    BY FreeCounted
  <2> QED
    BY <2>1, BlocksCounted
<1> QED
  BY <1>2, <1>3, <1>4, <1>5, <1>6, <1>7, <1>8

\* What Cs2SortBlocks leaves of the taken slots.
LEMMA TakenSorted ==
    ASSUME NEW q \in Partition, NEW b \in Slots, q.block = Cs2SortBlocks(b),
           NEW m \in Nat, q.numblocks <= m, Cardinality(Full(b)) <= m
    PROVE  Cardinality(Taken(q)) <= m
<1>1. q.numblocks \in Nat /\ Cardinality(Full(b)) \in Nat
  BY PartitionTyped, BlocksCounted, FullFinite
<1>2. \A k \in Slot : k < Cardinality(Full(b)) <=> q.block[k] # NULL
  BY Sorted
<1>3. Slot \subseteq Nat
  BY BlocksCounted DEF Slot
<1>4. Taken(q) \subseteq 0 .. m - 1
  <2>1. ASSUME NEW k \in Slot, k < q.numblocks \/ k < Cardinality(Full(b))
        PROVE  k \in 0 .. m - 1
    BY <2>1, <1>1, <1>3
  <2> QED
    BY <2>1, <1>2 DEF Taken
<1>5. IsFiniteSet(0 .. m - 1) /\ Cardinality(0 .. m - 1) = m
  BY FirstCounted
<1> QED
  BY <1>4, <1>5, FS_Subset

---------------------------------------------------------------------------
(***************************************************************************)
(* The inductive invariant.  FreeCount needs BlocksOwned (a block freed    *)
(* twice would count twice), BlocksOwned needs the types (a sector put     *)
(* behind the last must find a slot, and a block that is in none), these   *)
(* need the room, for a partition may count sectors that a move within it  *)
(* has lost, and the room needs FreeCount (a put trusts it).               *)
(***************************************************************************)
Counted ==
    /\ used \subseteq Block /\ blockfreespace \in 0 .. MaxBlocks
    /\ isbufferfull \in BOOLEAN
    /\ FreeCount /\ FullMeansNoRoom

TransOk(t) ==
    /\ t \in [type : {"INVALID", "GETSECTOR", "GETDELSECTOR", "PUTSECTOR"},
              part : Selector \cup {NULL}, pos : 0 .. MaxBlocks, total : 0 .. MaxBlocks,
              done : 0 .. MaxBlocks, offset : 0 .. SectorSize - 1, cdwnum : Nat]
    /\ t.type # "INVALID" => t.part \in Selector

Moving == TransOk(trans) /\ partitionnum \in Selector /\ session \in BOOLEAN

Keeps(whole) ==
    Counted /\ Holds(whole, used, partition) /\ Room(used, partition) /\ Moving

\* What the partitions count has to be there if the program is disciplined.
IInv == Keeps(Disciplined)

\* The invariant when all that the partitions count is there.
Intact == Keeps(TRUE)

\* What the invariant says of the free count.
LEMMA CountedOf ==
    ASSUME Counted
    PROVE  /\ blockfreespace \in Nat /\ blockfreespace = Cardinality(Block \ used)
           /\ MaxBlocks \in Nat /\ used \in SUBSET Block
           /\ isbufferfull => blockfreespace = 0
BY BlocksCounted DEF Counted, FreeCount, FullMeansNoRoom, Free

\* blockfreespace agrees again when it changes by as many blocks as used does.
LEMMA CountedAgain ==
    ASSUME used' \in SUBSET Block, blockfreespace' = Cardinality(Block \ used'),
           isbufferfull' \in BOOLEAN, isbufferfull' => blockfreespace' = 0
    PROVE  Counted'
<1>1. /\ Cardinality(Block \ used') \in Nat /\ Cardinality(used') \in Nat
      /\ Cardinality(Block \ used') = MaxBlocks - Cardinality(used')
  BY FreeCounted
<1>2. MaxBlocks' = MaxBlocks /\ MaxBlocks \in Nat
  BY BlocksCounted DEF MaxBlocks
<1>3. blockfreespace' \in 0 .. MaxBlocks
  BY <1>1, <1>2
<1> QED
  BY <1>2, <1>3 DEF Counted, FreeCount, FullMeansNoRoom, Free

\* Cs2AllocateBlock, once for every block of S.
LEMMA Allocated ==
    ASSUME Counted, NEW S \in SUBSET Free, Cs2AllocateBlocks(S)
    PROVE  /\ Counted' /\ used' = used \cup S
           /\ IsFiniteSet(S) /\ Cardinality(S) \in Nat
           /\ Cardinality(used') = Cardinality(used) + Cardinality(S)
<1>1. /\ blockfreespace \in Nat /\ blockfreespace = Cardinality(Block \ used)
      /\ used \in SUBSET Block /\ isbufferfull \in BOOLEAN
      /\ isbufferfull => blockfreespace = 0
  BY CountedOf DEF Counted
<1>2. IsFiniteSet(Block \ used) /\ S \subseteq Block \ used
  BY <1>1, FreeCounted DEF Free
<1>3. /\ IsFiniteSet(S) /\ Cardinality(S) \in Nat
      /\ Cardinality(S) <= Cardinality(Block \ used)
  BY <1>2, FS_Subset, FS_CardinalityType
<1>4. Cardinality((Block \ used) \ S) = Cardinality(Block \ used) - Cardinality((Block \ used) \cap S)
  BY <1>2, FS_Difference
<1>5. (Block \ used) \cap S = S /\ (Block \ used) \ S = Block \ (used \cup S)
  BY <1>2
<1>6. /\ used' = used \cup S /\ blockfreespace' = blockfreespace - Cardinality(S)
      /\ isbufferfull' = (isbufferfull \/ (S # {} /\ blockfreespace' <= 0))
  BY DEF Cs2AllocateBlocks
<1>7. used' \in SUBSET Block /\ blockfreespace' = Cardinality(Block \ used')
  BY <1>1, <1>2, <1>4, <1>5, <1>6
<1>8. isbufferfull' \in BOOLEAN
  BY <1>6, Zenon
<1>9. ASSUME isbufferfull' PROVE blockfreespace' = 0
  <2>1. blockfreespace' \in Nat
    BY <1>1, <1>3, <1>6
  <2>2. isbufferfull \/ blockfreespace' <= 0
    BY <1>6, <1>9, Zenon
  <2> QED
    BY <2>1, <2>2, <1>1, <1>3, <1>6
<1>10. Cardinality(used') = Cardinality(used) + Cardinality(S)
  <2>1. /\ Cardinality(Block \ used) = MaxBlocks - Cardinality(used)
        /\ Cardinality(Block \ used') = MaxBlocks - Cardinality(used')
        /\ Cardinality(used) \in Nat /\ Cardinality(used') \in Nat /\ MaxBlocks \in Nat
    BY <1>1, <1>7, FreeCounted, BlocksCounted
  <2> QED
    BY <2>1, <1>1, <1>3, <1>6, <1>7
<1> QED
  BY <1>3, <1>6, <1>7, <1>8, <1>9, <1>10, CountedAgain

\* The blocks of the slots R of partition p go, and are as many as its full slots.
LEMMA FreedCounted ==
    ASSUME NEW whole \in BOOLEAN, Counted, Holds(whole, used, partition), NEW p \in Selector, NEW R
    PROVE  LET b == partition[p].block
               taken == R \cap Full(b)
               gone == {b[i] : i \in taken}
           IN  /\ IsFiniteSet(taken) /\ Cardinality(taken) \in Nat
               /\ gone \subseteq used /\ gone = {b[i] : i \in R \cap Slot} \ {NULL}
               /\ Cardinality(Block \ (used \ gone)) = blockfreespace + Cardinality(taken)
<1> DEFINE b == partition[p].block
           taken == R \cap Full(b)
           gone == {b[i] : i \in taken}
<1>1. b \in Slots /\ Entries(b) \subseteq used /\ Distinct(b)
  BY PartitionTyped DEF Holds
<1> HIDE DEF b
<1>2. Full(b) \subseteq Slot /\ IsFiniteSet(Full(b)) /\ Full(b) = {i \in Slot : b[i] # NULL}
  BY <1>1, FullFinite DEF Full, Slots
<1>3. IsFiniteSet(taken) /\ Cardinality(taken) \in Nat
  BY <1>2, FS_Intersection, FS_CardinalityType
<1>4. \A i, j \in taken : b[i] = b[j] => i = j
  BY <1>1, <1>2 DEF Distinct
<1> HIDE DEF taken
<1>5. IsFiniteSet(gone) /\ Cardinality(gone) = Cardinality(taken)
  BY <1>3, <1>4, ImageCounted
<1>6. gone \subseteq used /\ gone = {b[i] : i \in R \cap Slot} \ {NULL}
  BY <1>1, <1>2 DEF Entries, taken
<1> HIDE DEF gone
<1>7. /\ used \in SUBSET Block /\ blockfreespace = Cardinality(Block \ used)
      /\ blockfreespace \in Nat
  BY CountedOf
<1>8. IsFiniteSet(Block \ used)
  BY <1>7, FreeCounted
<1>9. Block \ (used \ gone) = (Block \ used) \cup gone /\ (Block \ used) \cap gone = {}
  BY <1>6, <1>7
<1>10. Cardinality((Block \ used) \cup gone)
         = Cardinality(Block \ used) + Cardinality(gone) - Cardinality((Block \ used) \cap gone)
  BY <1>5, <1>8, FS_Union
<1>11. Cardinality((Block \ used) \cap gone) = 0
  BY <1>9, FS_EmptySet
<1>12. Cardinality(Block \ (used \ gone)) = Cardinality((Block \ used) \cup gone)
  BY <1>9, Zenon
<1>13. Cardinality(Block \ (used \ gone)) = blockfreespace + Cardinality(taken)
  BY <1>3, <1>5, <1>7, <1>10, <1>11, <1>12
<1> QED
  BY <1>3, <1>6, <1>13 DEF b, taken, gone

\* Cs2FreeBlock, once for every slot of R of partition p.
LEMMA Freed ==
    ASSUME NEW whole \in BOOLEAN, Counted, Holds(whole, used, partition), NEW p \in Selector, NEW R,
           Cs2FreeBlocks(partition[p].block, R)
    PROVE  /\ Counted'
           /\ used' = used \ {partition[p].block[i] : i \in R \cap Full(partition[p].block)}
           /\ used' \in SUBSET Block
           /\ Cardinality(used')
                = Cardinality(used) - Cardinality(R \cap Full(partition[p].block))
<1> DEFINE b == partition[p].block
           taken == R \cap Full(b)
           gone == {b[i] : i \in taken}
<1>1. /\ used' = used \ gone /\ blockfreespace' = blockfreespace + Cardinality(taken)
      /\ isbufferfull' = (isbufferfull /\ taken = {})
  BY DEF Cs2FreeBlocks
<1>2. blockfreespace' = Cardinality(Block \ used') /\ Cardinality(taken) \in Nat
  BY <1>1, FreedCounted
<1>3. /\ used \in SUBSET Block /\ blockfreespace \in Nat
      /\ isbufferfull => blockfreespace = 0
  BY CountedOf
<1> HIDE DEF b, taken, gone
<1>4. used' \in SUBSET Block /\ isbufferfull' \in BOOLEAN
  BY <1>1, <1>3, Zenon
<1>5. ASSUME isbufferfull' PROVE blockfreespace' = 0
  <2>1. isbufferfull /\ taken = {}
    BY <1>1, <1>5, Zenon
  <2>2. Cardinality(taken) = 0
    BY <2>1, FS_EmptySet
  <2> QED
    BY <2>1, <2>2, <1>1, <1>3
<1>6. Counted'
  BY <1>2, <1>4, <1>5, CountedAgain
<1>7. Cardinality(used') = Cardinality(used) - Cardinality(taken)
  <2>1. /\ Cardinality(Block \ used) = MaxBlocks - Cardinality(used)
        /\ Cardinality(Block \ used') = MaxBlocks - Cardinality(used')
        /\ Cardinality(used) \in Nat /\ Cardinality(used') \in Nat /\ MaxBlocks \in Nat
        /\ blockfreespace = Cardinality(Block \ used)
    BY <1>3, <1>4, CountedOf, FreeCounted, BlocksCounted
  <2> QED
    BY <2>1, <1>1, <1>2
<1> QED
  BY <1>1, <1>4, <1>6, <1>7 DEF b, taken, gone

\* Partition p loses the slots of R, and the blocks in them are free.
LEMMA ShrunkHolds ==
    ASSUME NEW whole \in BOOLEAN, NEW u, NEW P, Holds(whole, u, P), NEW p \in Selector, NEW R,
           NEW n \in 0 .. MaxBlocks, whole => n <= Cardinality(Full(P[p].block) \ R),
           NEW size \in Int
    PROVE  Holds(whole, u \ {P[p].block[i] : i \in R \cap Full(P[p].block)},
                 [P EXCEPT ![p] = WithoutSectors(P[p], R, n, size)])
<1> DEFINE q == P[p]
           b == q.block
           w == WithoutSectors(q, R, n, size)
           gone == {b[i] : i \in R \cap Full(b)}
           left == {b[i] : i \in Full(b) \ R}
           v == u \ gone
<1>1. /\ q \in Partition /\ Distinct(b) /\ Entries(b) \subseteq u
      /\ b \in Slots
  BY PartitionTyped DEF Holds
<1>2. w \in Partition /\ Distinct(w.block) /\ Present(whole, w) /\ Entries(w.block) \subseteq left
  BY <1>1, Shrunk
<1>3. Full(b) = {i \in Slot : b[i] # NULL}
  BY <1>1 DEF Full, Slots
<1>4. left \cap gone = {}
  BY <1>1, <1>3 DEF Distinct
<1>5. left \subseteq Entries(b) /\ gone \subseteq Entries(b)
  BY <1>3 DEF Entries
<1>6. \A r \in Selector \ {p} :
        Entries(P[r].block) \subseteq u /\ Entries(P[r].block) \cap Entries(b) = {}
  BY DEF Holds
<1> HIDE DEF b, w, gone, left
<1>7. Entries(w.block) \subseteq v
  BY <1>1, <1>2, <1>4, <1>5
<1>8. \A r \in Selector \ {p} : /\ Entries(P[r].block) \subseteq v
                                /\ Entries(P[r].block) \cap Entries(w.block) = {}
  BY <1>2, <1>5, <1>6
<1> HIDE DEF q, v
<1>9. Holds(whole, v, [P EXCEPT ![p] = w])
  BY <1>2, <1>7, <1>8, Replaced
<1> QED
  BY <1>9 DEF v, gone, w, b, q

\* n blocks no partition holds go behind the sectors of partition p.
LEMMA GrownHolds ==
    ASSUME NEW whole \in BOOLEAN, NEW u, NEW P, Holds(whole, u, P), NEW p \in Selector, NEW n \in Nat,
           P[p].numblocks + n <= MaxBlocks,
           NEW new, Fresh(whole, new, n),
           \A r \in Selector : (Range(new) \ {NULL}) \cap Entries(P[r].block) = {},
           NEW size \in Int
    PROVE  Holds(whole, u \cup (Range(new) \ {NULL}),
                 [P EXCEPT ![p] = WithSectors(P[p], n, new, size)])
<1> DEFINE q == P[p]
           w == WithSectors(q, n, new, size)
           v == u \cup (Range(new) \ {NULL})
<1>1. /\ q \in Partition /\ Distinct(q.block) /\ Present(whole, q)
      /\ Entries(q.block) \subseteq u
  BY DEF Holds
<1>2. /\ w \in Partition /\ Distinct(w.block) /\ Present(whole, w)
      /\ Entries(w.block) \subseteq Entries(q.block) \cup (Range(new) \ {NULL})
  BY <1>1, Grown
<1>3. \A r \in Selector \ {p} :
        /\ Entries(P[r].block) \subseteq u
        /\ Entries(P[r].block) \cap Entries(q.block) = {}
  BY DEF Holds
<1> HIDE DEF w, q
<1>4. Entries(w.block) \subseteq v
  BY <1>1, <1>2
<1>5. \A r \in Selector \ {p} : /\ Entries(P[r].block) \subseteq v
                                /\ Entries(P[r].block) \cap Entries(w.block) = {}
  BY <1>2, <1>3
<1> HIDE DEF v
<1>6. Holds(whole, v, [P EXCEPT ![p] = w])
  BY <1>2, <1>4, <1>5, Replaced
<1> QED
  BY <1>6 DEF v, w, q

\* Partition p loses the slots of R, which hold no sector it goes on to count.
LEMMA EmptiedHolds ==
    ASSUME NEW whole \in BOOLEAN, NEW u, NEW v, NEW P, Holds(whole, u, P), NEW p \in Selector,
           NEW R, NEW q \in Partition, q.block = Without(P[p].block, R),
           q.numblocks <= P[p].numblocks, \A i \in Slot \cap R : ~(i < q.numblocks),
           Entries(q.block) \subseteq v,
           \A r \in Selector \ {p} : Entries(P[r].block) \subseteq v
    PROVE  Holds(whole, v, [P EXCEPT ![p] = q])
<1>1. /\ P[p] \in Partition /\ P[p].block \in Slots /\ Distinct(P[p].block)
      /\ Present(whole, P[p])
      /\ P[p].numblocks \in Nat /\ q.numblocks \in Nat
  BY PartitionTyped, BlocksCounted DEF Holds
<1>2. /\ Entries(q.block) \subseteq Entries(P[p].block) /\ Distinct(q.block)
      /\ \A i \in Slot : q.block[i] = IF i \in R THEN NULL ELSE P[p].block[i]
  BY <1>1 DEF Without, Slots, Entries, Distinct
<1>3. Present(whole, q)
  <2>1. ASSUME whole, NEW i \in Slot, i < q.numblocks PROVE i < P[p].numblocks /\ i \notin R
    BY <1>1, <2>1, BlocksCounted DEF Slot
  <2> QED
    BY <2>1, <1>1, <1>2 DEF Present, AllThere
<1>4. \A r \in Selector \ {p} : Entries(P[r].block) \cap Entries(q.block) = {}
  BY <1>2 DEF Holds
<1> QED
  BY <1>2, <1>3, <1>4, Replaced

\* Partition q without the slots of R takes no more slots than it has full
\* ones left, or counts.
LEMMA ShrunkTaken ==
    ASSUME NEW q \in Partition, NEW R, NEW n, NEW size,
           WithoutSectors(q, R, n, size) \in Partition,
           NEW m \in Nat, n <= m, Cardinality(Full(q.block) \ R) <= m
    PROVE  Cardinality(Taken(WithoutSectors(q, R, n, size))) <= m
<1> DEFINE w == WithoutSectors(q, R, n, size)
           c == Without(q.block, R)
<1>1. w.block = Cs2SortBlocks(c) /\ w.numblocks = n
  BY DEF WithoutSectors
<1>2. c \in Slots /\ Full(c) = Full(q.block) \ R
  BY PartitionTyped, Removed
<1> HIDE DEF w, c
<1>3. Cardinality(Taken(w)) <= m
  BY <1>1, <1>2, TakenSorted DEF w
<1> QED
  BY <1>3 DEF w

\* A partition with n sectors more takes at most n slots more.
LEMMA GrownTaken ==
    ASSUME NEW q \in Partition, NEW n \in Nat, NEW new, NEW size
    PROVE  Cardinality(Taken(WithSectors(q, n, new, size))) <= Cardinality(Taken(q)) + n
<1> DEFINE w == WithSectors(q, n, new, size)
           s == q.numblocks
           T == s .. s + n - 1
<1>1. s \in Nat /\ s \in Int /\ Slot \subseteq Nat
  BY PartitionTyped, BlocksCounted DEF Slot
<1>2. /\ w.numblocks = s + n
      /\ \A i \in Slot : i \notin T => w.block[i] = q.block[i]
  BY DEF WithSectors, NextSlots
<1> HIDE DEF w
<1>3. Taken(w) \subseteq Taken(q) \cup T
  <2>1. ASSUME NEW i \in Slot, i < w.numblocks, i \notin T PROVE i < s
    <3> HIDE DEF s
    <3> QED
      BY <2>1, <1>1, <1>2
  <2> HIDE DEF T
  <2> QED
    BY <2>1, <1>2 DEF Taken
<1> HIDE DEF s
<1>4. IsFiniteSet(T) /\ Cardinality(T) = n
  BY <1>1, IntervalCounted
<1>5. IsFiniteSet(Taken(q)) /\ Cardinality(Taken(q)) \in Nat
  BY TakenCounted
<1> HIDE DEF T
<1>6. /\ IsFiniteSet(Taken(q) \cup T)
      /\ Cardinality(Taken(q) \cup T)
           = Cardinality(Taken(q)) + Cardinality(T) - Cardinality(Taken(q) \cap T)
      /\ Cardinality(Taken(q) \cap T) \in Nat
  BY <1>4, <1>5, FS_Union, FS_Intersection, FS_CardinalityType
<1>7. /\ Cardinality(Taken(w)) <= Cardinality(Taken(q) \cup T)
      /\ IsFiniteSet(Taken(w))
  BY <1>3, <1>6, FS_Subset
<1>8. Cardinality(Taken(w)) \in Nat
  BY <1>7, FS_CardinalityType
<1>9. Cardinality(Taken(w)) <= Cardinality(Taken(q)) + n
  BY <1>4, <1>5, <1>6, <1>7, <1>8
<1> QED
  BY <1>9 DEF w

\* When a partition gives up the n slots of R, it takes fewer slots by at least
\* the blocks freed: so many of its full slots go, and it counts n less or none.
LEMMA SlotsLeft ==
    ASSUME NEW q \in Partition, NEW R, NEW n \in Nat, IsFiniteSet(R), Cardinality(R) = n,
           NEW left \in Nat, left <= q.numblocks - n \/ left = 0
    PROVE  LET freed == Cardinality(R \cap Full(q.block))
               rest  == Cardinality(Full(q.block) \ R)
           IN  /\ freed \in Nat /\ rest \in Nat
               /\ rest + freed <= Cardinality(Taken(q))
               /\ left + freed <= Cardinality(Taken(q))
<1> DEFINE F == Full(q.block)
           freed == Cardinality(R \cap F)
           rest == Cardinality(F \ R)
           t == Cardinality(Taken(q))
<1>1. /\ t \in Nat /\ q.numblocks <= t /\ Cardinality(F) <= t
      /\ q.numblocks \in Nat
  BY TakenCounted, PartitionTyped, BlocksCounted
<1>2. IsFiniteSet(F) /\ Cardinality(F) \in Nat
  BY PartitionTyped, FullFinite
<1> HIDE DEF F, t
<1>3. /\ IsFiniteSet(F \ R) /\ Cardinality(F \ R) = Cardinality(F) - Cardinality(F \cap R)
      /\ F \cap R = R \cap F
  BY <1>2, FS_Difference
<1>4. /\ IsFiniteSet(R \cap F) /\ Cardinality(R \cap F) <= Cardinality(R)
  BY FS_Intersection
<1>5. freed \in Nat /\ rest \in Nat /\ freed <= n /\ rest = Cardinality(F) - freed
  BY <1>3, <1>4, FS_CardinalityType
<1> HIDE DEF freed, rest
<1>6. rest + freed <= t /\ left + freed <= t
  BY <1>1, <1>2, <1>5
<1> QED
  BY <1>5, <1>6 DEF F, freed, rest, t

---------------------------------------------------------------------------
(***************************************************************************)
(* The steps.                                                              *)
(***************************************************************************)
LEMMA SizesTyped ==
    /\ SectorSize \in Nat \ {0}
    /\ \A size \in Sizes : size \in Int
    /\ \A size : Fits(size) => size \in Int
    /\ \A q \in Partition : SizeOf(q) \in Int
BY SizeAssumption DEF Fits, Sizes, SizeOf, Partition, Word

\* The invariant of the buffer while nothing touches the buffer.
LEMMA BufferKept ==
    ASSUME NEW whole \in BOOLEAN, Counted, Holds(whole, used, partition), Room(used, partition),
           UNCHANGED <<bufferVars, partition>>
    PROVE  Counted' /\ Holds(whole, used', partition') /\ Room(used', partition')
BY DEF Counted, bufferVars, FreeCount, FullMeansNoRoom, Free, MaxBlocks

\* The types of a transfer while nothing touches it.
LEMMA TransferKept ==
    ASSUME Moving, UNCHANGED transferVars
    PROVE  Moving'
BY DEF Moving, transferVars, TransOk, MaxBlocks

\* A transfer that is starting has its type, and so has none.
LEMMA StartTyped ==
    ASSUME NEW type \in {"GETSECTOR", "GETDELSECTOR", "PUTSECTOR"}, NEW p \in Selector,
           NEW pos \in 0 .. MaxBlocks, NEW total \in 0 .. MaxBlocks,
           NEW done \in 0 .. MaxBlocks
    PROVE  TransOk(Transfer(type, p, pos, total, done)) /\ TransOk(Idle)
<1>1. 0 \in 0 .. MaxBlocks /\ 0 \in 0 .. SectorSize - 1 /\ 0 \in Nat
  BY BlocksCounted, SizesTyped
<1> QED
  BY <1>1 DEF TransOk, Transfer, Idle

\* New blocks for partition p.
LEMMA NewBlocks ==
    ASSUME NEW whole \in BOOLEAN, Counted, Holds(whole, used, partition),
           Room(used, partition), NEW p \in Selector, NEW n \in Nat,
           NEW new \in Injection(0 .. n - 1, Free), Cs2AllocateBlocks(Range(new)),
           NEW size \in Int,
           partition' = [partition EXCEPT
             ![p] = WithSectors(partition[p], n, new, size)]
    PROVE  /\ Counted' /\ Holds(whole, used', partition') /\ Room(used', partition')
           /\ partition[p].numblocks + n <= MaxBlocks
<1>1. new \in [0 .. n - 1 -> Free] /\ IsInjective(new) /\ Range(new) \subseteq Free
  BY DEF Injection, Range
<1>2. /\ Counted' /\ used' = used \cup Range(new)
      /\ Cardinality(used') = Cardinality(used) + Cardinality(Range(new))
  BY <1>1, Allocated
<1>3. used \in SUBSET Block /\ Free \subseteq Block
  BY CountedOf DEF Free
<1>4. Cardinality(Range(new)) = n
  <2>2. IsFiniteSet(0 .. n - 1) /\ Cardinality(0 .. n - 1) = n
    BY FirstCounted
  <2>3. DOMAIN new = 0 .. n - 1
    BY <1>1
  <2>4. new \in Surjection(0 .. n - 1, Range(new)) /\ new \in Injection(0 .. n - 1, Range(new))
    BY <1>1, <2>3 DEF Surjection, Injection, Range
  <2> QED
    BY <2>2, <2>4, FS_Surjection
<1>5. n <= Cardinality(Block \ used)
  <2>1. IsFiniteSet(Block \ used) /\ Range(new) \subseteq Block \ used
    BY <1>1, <1>3, FreeCounted DEF Free
  <2> QED
    BY <2>1, <1>4, FS_Subset
<1>6. /\ partition \in [Selector -> Partition] /\ partition[p] \in Partition
      /\ partition[p].numblocks + n <= MaxBlocks
  <2>1. partition \in [Selector -> Partition]
    BY DEF Holds
  <2> QED
    BY <2>1, <1>3, <1>5, RoomForFree
<1>7. /\ Range(new) \ {NULL} = Range(new)
      /\ \A r \in Selector : Range(new) \cap Entries(partition[r].block) = {}
  BY <1>1, <1>3, BlocksCounted DEF Free, Holds
<1>8. Fresh(whole, new, n)
  BY <1>1, <1>3, BlocksCounted DEF Fresh, IsInjective
<1> DEFINE w == WithSectors(partition[p], n, new, size)
<1>9. Holds(whole, used \cup Range(new), [partition EXCEPT ![p] = w])
  BY <1>6, <1>7, <1>8, GrownHolds
<1>10. Room(used', partition')
  <2>1. w \in Partition
    BY <1>6, <1>9 DEF Holds
  <2>2. Cardinality(Taken(w)) <= Cardinality(Taken(partition[p])) + n
    BY <1>6, GrownTaken
  <2>3. /\ Cardinality(Taken(w)) \in Nat /\ Cardinality(Taken(partition[p])) \in Nat
        /\ Cardinality(used) \in Nat
    BY <2>1, <1>3, <1>6, TakenCounted, FreeCounted
  <2> HIDE DEF w
  <2>4. Cardinality(Taken(w)) + Cardinality(used)
          <= Cardinality(Taken(partition[p])) + Cardinality(used')
    BY <2>2, <2>3, <1>2, <1>4
  <2>5. used' \in SUBSET Block
    BY <1>1, <1>2, <1>3
  <2>6. Room(used', [partition EXCEPT ![p] = w])
    BY <2>1, <2>4, <2>5, <1>3, <1>6, RoomKept
  <2> QED
    BY <2>6 DEF w
<1> QED
  BY <1>2, <1>6, <1>9, <1>10

\* The slots R of partition p, which are n, are freed and closed up.
LEMMA SlotsFreed ==
    ASSUME NEW whole \in BOOLEAN, Counted, Holds(whole, used, partition),
           Room(used, partition), NEW p \in Selector,
           NEW a \in Int, NEW n \in Nat, Cs2FreeBlocks(partition[p].block, a .. a + n - 1),
           NEW left \in Nat, left <= partition[p].numblocks,
           left <= partition[p].numblocks - n \/ left = 0, NEW size \in Int,
           partition' = [partition EXCEPT
             ![p] = WithoutSectors(partition[p], a .. a + n - 1, left, size)]
    PROVE  Counted' /\ Holds(whole, used', partition') /\ Room(used', partition')
<1> DEFINE R == a .. a + n - 1
           q == partition[p]
           m == Cardinality(Full(q.block) \ R)
<1>1. /\ q \in Partition /\ Present(whole, q) /\ q.block \in Slots
      /\ q.numblocks \in Nat /\ q.numblocks <= MaxBlocks /\ MaxBlocks \in Nat
  BY PartitionTyped, BlocksCounted DEF Holds
<1>2. whole => q.numblocks - n <= m
  BY <1>1, EnoughLeft
<1>3. m \in Nat
  <2>1. IsFiniteSet(Full(q.block))
    BY <1>1, FullFinite
  <2> QED
    BY <2>1, FS_Difference, FS_CardinalityType
<1>4. left \in 0 .. MaxBlocks /\ (whole => left <= m)
  <2> HIDE DEF m
  <2> QED
    BY <1>1, <1>2, <1>3
<1>5. /\ Counted' /\ used' = used \ {q.block[i] : i \in R \cap Full(q.block)}
      /\ used' \in SUBSET Block
      /\ Cardinality(used') = Cardinality(used) - Cardinality(R \cap Full(q.block))
  BY Freed
<1>6. Holds(whole, used \ {q.block[i] : i \in R \cap Full(q.block)},
            [partition EXCEPT ![p] = WithoutSectors(q, R, left, size)])
  BY <1>4, ShrunkHolds
<1>7. Room(used', partition')
  <2> DEFINE w == WithoutSectors(q, R, left, size)
             freed == Cardinality(R \cap Full(q.block))
             t == Cardinality(Taken(q))
  <2>1. IsFiniteSet(R) /\ Cardinality(R) = n
    BY IntervalCounted
  <2> HIDE DEF R
  <2>2. freed \in Nat /\ m \in Nat /\ m + freed <= t /\ left + freed <= t
    BY <1>1, <2>1, SlotsLeft
  <2>3. t \in Nat
    BY <1>1, TakenCounted
  <2>4. /\ partition \in [Selector -> Partition] /\ used \in SUBSET Block
        /\ Cardinality(used) \in Nat
    BY CountedOf, FreeCounted DEF Holds
  <2>5. w \in Partition
    BY <1>6, <2>4 DEF Holds
  <2> HIDE DEF w, q, freed, t, m
  <2>6. t - freed \in Nat /\ left <= t - freed /\ m <= t - freed
    BY <2>2, <2>3
  <2>7. Cardinality(Taken(w)) <= t - freed
    BY <1>1, <2>5, <2>6, ShrunkTaken DEF w, m
  <2>8. Cardinality(Taken(w)) \in Nat
    BY <2>5, TakenCounted
  <2>9. Cardinality(used') = Cardinality(used) - freed
    BY <1>5 DEF freed
  <2>10. Cardinality(Taken(w)) + Cardinality(used) <= t + Cardinality(used')
    BY <2>2, <2>3, <2>4, <2>7, <2>8, <2>9
  <2>11. Room(used', [partition EXCEPT ![p] = w])
    BY <2>4, <2>5, <2>10, <1>5, RoomKept DEF t, q
  <2> QED
    BY <2>11 DEF w, q, R
<1> QED
  BY <1>5, <1>6, <1>7

\* A step leaves the transfer well-formed: it is kept, started or ended.
LEMMA MovingAfter ==
    ASSUME Moving, TransOk(trans'), partitionnum' \in Selector, session' \in BOOLEAN
    PROVE  Moving'
BY DEF Moving, TransOk, MaxBlocks

\* The drive finds no block.
LEMMA Emptied ==
    ASSUME NEW whole \in BOOLEAN, Counted, Holds(whole, used, partition),
           Room(used, partition), NEW p \in Selector, NoBlockLeft(p)
    PROVE  Counted' /\ Holds(whole, used', partition') /\ Room(used', partition')
<1> DEFINE R == {partition[p].numblocks}
           q == [partition[p] EXCEPT !.block = Without(partition[p].block, R)]
<1>1. /\ partition[p] \in Partition /\ partition[p].block \in Slots
      /\ partition[p].numblocks \in Nat /\ Entries(partition[p].block) \subseteq used
  BY PartitionTyped, BlocksCounted DEF Holds
<1>2. /\ Without(partition[p].block, R) \in Slots
      /\ Entries(Without(partition[p].block, R)) \subseteq Entries(partition[p].block)
  BY <1>1 DEF Without, Slots, Entries
<1>3. /\ q \in Partition /\ q.numblocks = partition[p].numblocks
      /\ q.block = Without(partition[p].block, R)
  BY <1>1, <1>2 DEF Partition, Slots
<1>4. partition' = [partition EXCEPT ![p] = q] /\ used' = used
  BY DEF NoBlockLeft
<1>5. \A i \in Slot \cap R : ~(i < q.numblocks)
  BY <1>1, <1>3
<1>6. q.numblocks <= partition[p].numblocks
  BY <1>1, <1>3
<1>7. \A r \in Selector \ {p} : Entries(partition[r].block) \subseteq used
  BY DEF Holds
<1> HIDE DEF q
<1>8. Holds(whole, used, [partition EXCEPT ![p] = q])
  BY <1>1, <1>2, <1>3, <1>5, <1>6, <1>7, EmptiedHolds
<1>9. Counted'
  <2>1. /\ blockfreespace = Cardinality(Block \ used) /\ used \in SUBSET Block
        /\ Block \ used = {}
    BY CountedOf DEF NoBlockLeft, Free
  <2>2. blockfreespace = 0
    BY <2>1, FS_EmptySet
  <2>3. used' = used /\ blockfreespace' = blockfreespace /\ isbufferfull' = TRUE
    BY DEF NoBlockLeft
  <2> QED
    BY <2>1, <2>2, <2>3, CountedAgain
<1>10. Room(used', partition')
  <2>1. Taken(q) \subseteq Taken(partition[p])
    BY <1>1, <1>3 DEF Taken, Without, Slots
  <2>2. /\ IsFiniteSet(Taken(partition[p])) /\ used \in SUBSET Block
        /\ partition \in [Selector -> Partition]
        /\ Cardinality(used) \in Nat /\ Cardinality(Taken(q)) \in Nat
        /\ Cardinality(Taken(partition[p])) \in Nat
    BY <1>1, <1>3, TakenCounted, CountedOf, FreeCounted DEF Holds
  <2>3. Cardinality(Taken(q)) <= Cardinality(Taken(partition[p]))
    BY <2>1, <2>2, FS_Subset
  <2>4. Cardinality(Taken(q)) + Cardinality(used)
          <= Cardinality(Taken(partition[p])) + Cardinality(used)
    BY <2>2, <2>3
  <2>5. Room(used, [partition EXCEPT ![p] = q])
    BY <1>3, <2>2, <2>4, RoomKept
  <2> QED
    BY <2>5, <1>4
<1> QED
  BY <1>4, <1>8, <1>9, <1>10

\* A sector that the drive files keeps the invariant.
LEMMA FilterData ==
    ASSUME NEW whole \in BOOLEAN, Keeps(whole), NEW p \in Selector, Cs2FilterData(p)
    PROVE  Keeps(whole)'
<1> DEFINE q == partition[p]
<1>1. Counted /\ Holds(whole, used, partition) /\ Room(used, partition) /\ Moving /\ q \in Partition
  BY DEF Keeps, Holds
<1>2. Moving'
  BY <1>1, TransferKept DEF Cs2FilterData
<1>3. CASE NoBlockLeft(p)
  BY <1>1, <1>2, <1>3, Emptied DEF Keeps
<1>4. CASE \E b \in Free :
             /\ Fits(SizeOf(q) + SectorSize)
             /\ Cs2AllocateBlocks({b})
             /\ partition' = [partition EXCEPT
                  ![p] = WithSectors(q, 1, [k \in {0} |-> b], SizeOf(q) + SectorSize)]
  <2>1. PICK b \in Free :
             /\ Fits(SizeOf(q) + SectorSize)
             /\ Cs2AllocateBlocks({b})
             /\ partition' = [partition EXCEPT
                  ![p] = WithSectors(q, 1, [k \in {0} |-> b], SizeOf(q) + SectorSize)]
    BY <1>4
  <2> DEFINE new == [k \in {0} |-> b]
  <2>2. 0 .. 1 - 1 = {0}
    OBVIOUS
  <2>3. new \in Injection(0 .. 1 - 1, Free) /\ Range(new) = {b}
    BY <2>2 DEF Injection, IsInjective, Range
  <2>4. SizeOf(q) + SectorSize \in Int
    BY <1>1, SizesTyped
  <2> HIDE DEF new
  <2>5. Cs2AllocateBlocks(Range(new))
    BY <2>1, <2>3
  <2>6. partition' = [partition EXCEPT
                       ![p] = WithSectors(partition[p], 1, new, SizeOf(q) + SectorSize)]
    BY <2>1 DEF new
  <2> HIDE DEF q
  <2>7. Counted' /\ Holds(whole, used', partition') /\ Room(used', partition')
    BY <1>1, <2>3, <2>4, <2>5, <2>6, NewBlocks
  <2> QED
    BY <1>2, <2>7 DEF Keeps
<1> QED
  BY <1>3, <1>4 DEF Cs2FilterData

\* Reading the file system, which stores a sector and frees it again, keeps
\* the invariant.
LEMMA ReadFileSystem ==
    ASSUME NEW whole \in BOOLEAN, Keeps(whole), NEW p \in Selector, Cs2ReadFileSystem(p)
    PROVE  Keeps(whole)'
<1> DEFINE q == partition[p]
           R == {q.numblocks}
<1>1. /\ Counted /\ Holds(whole, used, partition) /\ Room(used, partition) /\ Moving
      /\ q \in Partition /\ Present(whole, q) /\ Distinct(q.block) /\ q.block \in Slots
      /\ q.numblocks \in Nat /\ q.numblocks <= MaxBlocks /\ MaxBlocks \in Nat
      /\ Entries(q.block) \subseteq used
  BY PartitionTyped, BlocksCounted DEF Keeps, Holds
<1>2. Moving'
  BY <1>1, TransferKept DEF Cs2ReadFileSystem
<1>3. CASE NoBlockLeft(p)
  BY <1>1, <1>2, <1>3, Emptied DEF Keeps
<1>4. CASE /\ UNCHANGED bufferVars
           /\ partition' = [partition EXCEPT
                ![p] = WithoutSectors(q, R, q.numblocks, SizeOf(q))]
  <2> DEFINE F == Full(q.block)
             C == 0 .. q.numblocks - 1
             w == WithoutSectors(q, R, q.numblocks, SizeOf(q))
  <2>1. F = {i \in Slot : q.block[i] # NULL} /\ IsFiniteSet(F)
    BY <1>1, FullFinite DEF Full, Slots
  <2>2. whole => C \subseteq F \ R
    BY <1>1, <2>1 DEF Present, AllThere, Slot
  <2>3. Cardinality(C) = q.numblocks
    BY <1>1, FirstCounted
  <2>4. IsFiniteSet(F \ R)
    BY <2>1, FS_Difference
  <2> HIDE DEF C, F
  <2>5. whole => q.numblocks <= Cardinality(F \ R)
    BY <2>2, <2>3, <2>4, FS_Subset
  <2>6. q.numblocks \in 0 .. MaxBlocks /\ SizeOf(q) \in Int
    BY <1>1, SizesTyped
  <2>7. /\ w \in Partition /\ Distinct(w.block) /\ Present(whole, w)
        /\ Entries(w.block) \subseteq {q.block[i] : i \in Full(q.block) \ R}
    BY <1>1, <2>5, <2>6, Shrunk DEF F
  <2>8. {q.block[i] : i \in F \ R} \subseteq Entries(q.block)
    BY <2>1 DEF Entries
  <2> HIDE DEF w
  <2>9. Entries(w.block) \subseteq Entries(q.block)
    BY <2>7, <2>8 DEF F
  <2>10. \A r \in Selector \ {p} : /\ Entries(partition[r].block) \subseteq used
                                   /\ Entries(partition[r].block) \cap Entries(w.block) = {}
    BY <1>1, <2>9 DEF Holds
  <2>11. Holds(whole, used, [partition EXCEPT ![p] = w])
    BY <1>1, <2>7, <2>9, <2>10, Replaced
  <2>12. used' = used /\ partition' = [partition EXCEPT ![p] = w] /\ Counted'
    BY <1>1, <1>4 DEF w, bufferVars, Counted, FreeCount, FullMeansNoRoom, Free, MaxBlocks
  <2>13. Room(used', partition')
    <3>1. /\ Cardinality(F \ R) <= Cardinality(F) /\ Cardinality(F \ R) \in Nat
          /\ Cardinality(F) \in Nat
      <4>1. F \ R \subseteq F
        OBVIOUS
      <4> QED
        BY <2>1, <2>4, <4>1, FS_Subset, FS_CardinalityType
    <3>2. /\ Cardinality(F) <= Cardinality(Taken(q)) /\ q.numblocks <= Cardinality(Taken(q))
          /\ Cardinality(Taken(q)) \in Nat /\ Cardinality(Taken(w)) \in Nat
      BY <1>1, <2>7, TakenCounted DEF F
    <3> DEFINE t == Cardinality(Taken(q))
    <3>3. t \in Nat /\ q.numblocks <= t /\ Cardinality(F \ R) <= t
      BY <3>1, <3>2
    <3> HIDE DEF t, q, R
    <3>4. Cardinality(Taken(w)) <= t
      BY <1>1, <2>7, <3>3, ShrunkTaken DEF w, F
    <3>5. /\ used \in SUBSET Block /\ partition \in [Selector -> Partition]
          /\ Cardinality(used) \in Nat
      BY <1>1, CountedOf, FreeCounted DEF Holds
    <3>6. Cardinality(Taken(w)) + Cardinality(used) <= t + Cardinality(used)
      BY <3>2, <3>3, <3>4, <3>5
    <3>7. Room(used, [partition EXCEPT ![p] = w])
      BY <1>1, <2>7, <3>5, <3>6, RoomKept DEF t, q
    <3> QED
      BY <2>12, <3>7
  <2> QED
    BY <1>2, <2>11, <2>12, <2>13 DEF Keeps
<1> QED
  BY <1>3, <1>4 DEF Cs2ReadFileSystem

\* A block stays behind in the slot after the sectors of p.
LEMMA ReadFails ==
    ASSUME NEW whole \in BOOLEAN, Keeps(whole), NEW p \in Selector, Cs2ReadUnFilteredSectorFails(p)
    PROVE  Keeps(whole)'
<1> DEFINE f == partition[p].block
           s == partition[p].numblocks
<1>1. /\ Counted /\ Holds(whole, used, partition) /\ Room(used, partition) /\ Moving
      /\ partition[p] \in Partition /\ f \in Slots /\ Distinct(f)
      /\ Present(whole, partition[p]) /\ s \in Nat /\ Entries(f) \subseteq used
  <2>1. /\ Counted /\ Holds(whole, used, partition) /\ Room(used, partition) /\ Moving
    BY DEF Keeps
  <2>2. /\ partition[p] \in Partition /\ Distinct(f)
        /\ Present(whole, partition[p]) /\ Entries(f) \subseteq used
    BY <2>1 DEF Holds
  <2>3. f \in Slots /\ s \in Nat
    BY <2>2, PartitionTyped, BlocksCounted
  <2> QED
    BY <2>1, <2>2, <2>3
<1>2. PICK b \in Free :
        /\ Cs2AllocateBlocks({b})
        /\ partition' = [partition EXCEPT ![p].block[partition[p].numblocks] = b]
  BY DEF Cs2ReadUnFilteredSectorFails
<1> DEFINE c == [f EXCEPT ![s] = b]
           q == [partition[p] EXCEPT !.block = c]
<1>3. /\ Counted' /\ used' = used \cup {b}
      /\ Cardinality(used') = Cardinality(used) + 1
  <2>1. Cardinality({b}) = 1
    BY FS_Singleton
  <2> QED
    BY <1>1, <1>2, <2>1, Allocated
<1>4. b \in Block /\ b \notin used /\ b # NULL
  BY <1>2, BlocksCounted DEF Free
<1>5. /\ c \in Slots
      /\ \A i \in Slot : c[i] = IF i = s THEN b ELSE f[i]
  BY <1>1, <1>4 DEF Slots
<1>6. /\ q \in Partition /\ q.block = c /\ q.numblocks = s
      /\ partition' = [partition EXCEPT ![p] = q]
  BY <1>1, <1>2, <1>5 DEF Partition, Slots
<1> HIDE DEF c, q
<1>7. Entries(c) \subseteq Entries(f) \cup {b}
  BY <1>5 DEF Entries
<1>8. Distinct(c)
  <2>1. \A i \in Slot : f[i] # b
    BY <1>1, <1>4 DEF Entries
  <2> QED
    BY <2>1, <1>1, <1>5 DEF Distinct
<1>9. Present(whole, q)
  <2>1. ASSUME whole, NEW i \in Slot, i < s PROVE i # s /\ f[i] # NULL
    BY <1>1, <2>1 DEF Present, AllThere
  <2> QED
    BY <2>1, <1>5, <1>6 DEF Present, AllThere
<1>10. \A r \in Selector \ {p} : /\ Entries(partition[r].block) \subseteq used
                                 /\ Entries(partition[r].block) \cap Entries(f) = {}
  BY <1>1 DEF Holds
<1>11. \A r \in Selector \ {p} :
         /\ Entries(partition[r].block) \subseteq used \cup {b}
         /\ Entries(partition[r].block) \cap Entries(q.block) = {}
  BY <1>4, <1>6, <1>7, <1>10
<1>12. Entries(q.block) \subseteq used \cup {b} /\ Distinct(q.block)
  BY <1>1, <1>6, <1>7, <1>8
<1> HIDE DEF f, s
<1>13. Holds(whole, used \cup {b}, [partition EXCEPT ![p] = q])
  BY <1>1, <1>6, <1>9, <1>11, <1>12, Replaced
<1>14. Moving'
  BY <1>1, TransferKept DEF Cs2ReadUnFilteredSectorFails
<1>15. Room(used', partition')
  <2> DEFINE T == Taken(partition[p])
  <2>1. Taken(q) \subseteq T \cup {s}
    BY <1>5, <1>6 DEF Taken, f, s
  <2>2. IsFiniteSet(T) /\ Cardinality(T) \in Nat /\ Cardinality(Taken(q)) \in Nat
    BY <1>1, <1>6, TakenCounted
  <2> HIDE DEF T
  <2>3. IsFiniteSet(T \cup {s}) /\ Cardinality(T \cup {s}) <= Cardinality(T) + 1
    <3>1. /\ IsFiniteSet(T \cup {s})
          /\ Cardinality(T \cup {s}) = IF s \in T THEN Cardinality(T) ELSE Cardinality(T) + 1
      BY <2>2, FS_AddElement
    <3> QED
      BY <2>2, <3>1
  <2>4. Cardinality(Taken(q)) <= Cardinality(T) + 1
    <3>1. Cardinality(Taken(q)) <= Cardinality(T \cup {s})
      BY <2>1, <2>3, FS_Subset
    <3>2. Cardinality(T \cup {s}) \in Nat
      BY <2>3, FS_CardinalityType
    <3> QED
      BY <2>2, <2>3, <3>1, <3>2
  <2>5. /\ used \in SUBSET Block /\ used' \in SUBSET Block
        /\ partition \in [Selector -> Partition] /\ Cardinality(used) \in Nat
    BY <1>1, <1>3, <1>4, CountedOf, FreeCounted DEF Holds
  <2>6. Cardinality(Taken(q)) + Cardinality(used) <= Cardinality(T) + Cardinality(used')
    BY <1>3, <2>2, <2>4, <2>5
  <2>7. Room(used', [partition EXCEPT ![p] = q])
    BY <1>1, <1>6, <2>5, <2>6, RoomKept DEF T
  <2> QED
    BY <1>6, <2>7
<1> QED
  BY <1>3, <1>6, <1>13, <1>14, <1>15 DEF Keeps

\* What the commands on a range of sectors calculate with.
LEMMA RangeTyped ==
    ASSUME NEW whole \in BOOLEAN, Keeps(whole), NEW p \in Selector, NEW off \in Slot, NEW n \in 1 .. MaxBlocks
    PROVE  /\ off \in 0 .. MaxBlocks /\ n \in 0 .. MaxBlocks /\ 0 \in 0 .. MaxBlocks
           /\ off \in Nat /\ n \in Nat /\ MaxBlocks \in Nat
           /\ partition[p] \in Partition
           /\ partition[p].numblocks \in Nat /\ partition[p].size \in Int
           /\ n * SectorSize \in Int
<1>1. off \in Nat /\ n \in Nat /\ MaxBlocks \in Nat /\ SectorSize \in Int
  BY BlocksCounted, SizesTyped DEF Slot
<1>2. partition[p] \in Partition
  BY DEF Keeps, Holds
<1> QED
  BY <1>1, <1>2, PartitionTyped DEF Slot

\* Starting to get sectors keeps the invariant.
LEMMA GetSectorData ==
    ASSUME NEW whole \in BOOLEAN, Keeps(whole), NEW p \in Selector, NEW off \in Slot, NEW n \in 1 .. MaxBlocks,
           Cs2GetSectorData(p, off, n) \/ Cs2GetThenDeleteSectorData(p, off, n)
    PROVE  Keeps(whole)'
<1>1. Counted /\ Holds(whole, used, partition) /\ Room(used, partition) /\ Moving
  BY DEF Keeps
<1>2. UNCHANGED <<bufferVars, partition>>
  BY DEF Cs2GetSectorData, Cs2GetThenDeleteSectorData
<1>3. /\ TransOk(Transfer("GETSECTOR", p, off, n, 0))
      /\ TransOk(Transfer("GETDELSECTOR", p, off, n, 0))
  BY RangeTyped, StartTyped
<1>4. TransOk(trans') /\ session' \in BOOLEAN /\ partitionnum' \in Selector
  BY <1>1, <1>3 DEF Cs2GetSectorData, Cs2GetThenDeleteSectorData, Moving
<1> QED
  BY <1>1, <1>2, <1>4, BufferKept, MovingAfter DEF Keeps

\* Allocating the blocks of a put keeps the invariant.
LEMMA PutSectorData ==
    ASSUME NEW whole \in BOOLEAN, Keeps(whole), NEW p \in Selector, NEW n \in 1 .. MaxBlocks, Cs2PutSectorData(p, n)
    PROVE  Keeps(whole)'
<1> DEFINE q == partition[p]
<1>1. /\ Counted /\ Holds(whole, used, partition) /\ Room(used, partition) /\ Moving /\ MaxBlocks \in Nat
      /\ q \in Partition /\ q.numblocks \in Nat /\ n \in Nat /\ n * SectorSize \in Int
  BY PartitionTyped, BlocksCounted, SizesTyped DEF Keeps, Holds
<1>2. PICK new \in Injection(0 .. n - 1, Free) :
        /\ Cs2AllocateBlocks(Range(new))
        /\ partition' = [partition EXCEPT
             ![p] = WithSectors(partition[p], n, new, n * SectorSize)]
  BY DEF Cs2PutSectorData
<1>3. Counted' /\ Holds(whole, used', partition') /\ Room(used', partition') /\ q.numblocks + n <= MaxBlocks
  BY <1>1, <1>2, NewBlocks
<1>4. /\ 0 \in 0 .. MaxBlocks /\ q.numblocks \in 0 .. MaxBlocks
      /\ q.numblocks + n \in 0 .. MaxBlocks
  BY <1>1, <1>3
<1>5. TransOk(Transfer("PUTSECTOR", p, 0, q.numblocks + n, q.numblocks))
  BY <1>4, StartTyped
<1>6. TransOk(trans') /\ session' \in BOOLEAN /\ partitionnum' \in Selector
  BY <1>5 DEF Cs2PutSectorData
<1> QED
  BY <1>1, <1>3, <1>6, MovingAfter DEF Keeps

\* A word more, or the end of a get-then-delete.
LEMMA AdvancedTyped ==
    ASSUME Moving, trans.type # "INVALID", trans.done < trans.total, NEW slot,
           Advanced(slot)
    PROVE  TransOk(trans')
<1>1. /\ TransOk(trans) /\ trans.done \in 0 .. MaxBlocks /\ trans.total \in 0 .. MaxBlocks
      /\ trans.cdwnum \in Nat /\ trans.offset \in 0 .. SectorSize - 1
      /\ MaxBlocks \in Nat /\ SectorSize \in Nat \ {0}
  BY BlocksCounted, SizesTyped DEF Moving, TransOk
<1>2. trans.done + 1 \in 0 .. MaxBlocks /\ trans.cdwnum + Word \in Nat
  BY <1>1 DEF Word
<1>3. (trans.offset + Word) % SectorSize \in 0 .. SectorSize - 1
  <2>1. \A m \in Int, d \in Nat \ {0} : m % d \in 0 .. d - 1
    OBVIOUS
  <2>2. trans.offset + Word \in Int
    BY <1>1 DEF Word
  <2> QED
    BY <1>1, <2>1, <2>2
<1>4. trans' = [trans EXCEPT
         !.cdwnum = @ + Word,
         !.offset = (@ + Word) % SectorSize,
         !.done   = IF trans.offset + Word >= SectorSize THEN @ + 1 ELSE @]
  BY DEF Advanced
<1> QED
  BY <1>1, <1>2, <1>3, <1>4 DEF TransOk

\* Freeing the sectors that a get-then-delete has transferred keeps the
\* invariant.
LEMMA DeletedTransferred ==
    ASSUME NEW whole \in BOOLEAN, Keeps(whole), trans.type = "GETDELSECTOR", DeleteTransferred
    PROVE  /\ Counted' /\ Holds(whole, used', partition') /\ Room(used', partition')
        /\ TransOk(trans')
<1> DEFINE p == trans.part
           q == partition[p]
           left == NumblocksAfter(q.numblocks, trans.total)
<1>1. /\ Counted /\ Holds(whole, used, partition) /\ Room(used, partition)
      /\ p \in Selector
      /\ trans.pos \in 0 .. MaxBlocks /\ trans.total \in 0 .. MaxBlocks
      /\ trans.cdwnum \in Nat
  BY DEF Keeps, Moving, TransOk
<1>2. /\ trans.pos \in Int /\ trans.total \in Nat
      /\ q \in Partition /\ q.numblocks \in Nat /\ q.size \in Int
      /\ q.size - trans.cdwnum \in Int
  BY <1>1, PartitionTyped, BlocksCounted DEF Holds
<1>3. /\ left \in Nat /\ left <= q.numblocks
      /\ left <= q.numblocks - trans.total \/ left = 0
  BY <1>2 DEF NumblocksAfter
<1>4. /\ Cs2FreeBlocks(q.block, trans.pos .. trans.pos + trans.total - 1)
      /\ partition' = [partition EXCEPT
           ![p] = WithoutSectors(q, trans.pos .. trans.pos + trans.total - 1,
                                 left, q.size - trans.cdwnum)]
      /\ trans' = Idle
  BY DEF DeleteTransferred
<1> HIDE DEF left, p, q
<1>5. Counted' /\ Holds(whole, used', partition') /\ Room(used', partition')
  BY <1>1, <1>2, <1>3, <1>4, SlotsFreed DEF q
<1>6. TransOk(Idle)
  BY <1>1, BlocksCounted, SizesTyped DEF TransOk, Idle
<1> QED
  BY <1>4, <1>5, <1>6

\* Reading the data port keeps the invariant, behind the last sector too.
LEMMA ReadLong ==
    ASSUME NEW whole \in BOOLEAN, Keeps(whole), Cs2ReadLong
    PROVE  Keeps(whole)'
<1>1. Counted /\ Holds(whole, used, partition) /\ Room(used, partition) /\ Moving
  BY DEF Keeps
<1>2. CASE /\ trans.done < trans.total /\ Advanced(trans.pos + trans.done)
           /\ UNCHANGED <<bufferVars, partition>>
  <2>1. trans.type # "INVALID" /\ UNCHANGED <<partitionnum, session>>
    BY DEF Cs2ReadLong
  <2>2. TransOk(trans')
    BY <1>1, <1>2, <2>1, AdvancedTyped
  <2> QED
    BY <1>1, <1>2, <2>1, <2>2, BufferKept DEF Keeps, Moving
<1>3. CASE trans.type = "GETDELSECTOR" /\ DeleteTransferred
  <2>1. /\ Counted' /\ Holds(whole, used', partition') /\ Room(used', partition')
        /\ TransOk(trans')
    BY <1>3, DeletedTransferred
  <2> QED
    BY <1>1, <2>1 DEF Cs2ReadLong, Keeps, Moving
<1> QED
  BY <1>2, <1>3 DEF Cs2ReadLong

\* Writing the data port keeps the invariant.
LEMMA WriteLong ==
    ASSUME NEW whole \in BOOLEAN, Keeps(whole), Cs2WriteLong
    PROVE  Keeps(whole)'
<1>1. Counted /\ Holds(whole, used, partition) /\ Room(used, partition) /\ Moving
  BY DEF Keeps
<1>2. /\ trans.type # "INVALID" /\ trans.done < trans.total /\ Advanced(trans.done)
      /\ UNCHANGED <<bufferVars, partition>> /\ UNCHANGED <<partitionnum, session>>
  BY DEF Cs2WriteLong
<1>3. TransOk(trans')
  BY <1>1, <1>2, AdvancedTyped
<1> QED
  BY <1>1, <1>2, <1>3, BufferKept DEF Keeps, Moving

\* Ending a transfer keeps the invariant, wherever it stands.
LEMMA EndDataTransfer ==
    ASSUME NEW whole \in BOOLEAN, Keeps(whole), Cs2EndDataTransfer
    PROVE  Keeps(whole)'
<1>1. /\ Counted /\ Holds(whole, used, partition) /\ Room(used, partition)
      /\ Moving
      /\ session' = FALSE /\ partitionnum' = partitionnum
  BY DEF Keeps, Cs2EndDataTransfer
<1>2. CASE trans.type = "GETDELSECTOR" /\ DeleteTransferred
  BY <1>1, <1>2, DeletedTransferred DEF Keeps, Moving
<1>3. CASE /\ trans' = [trans EXCEPT !.cdwnum = 0]
           /\ UNCHANGED <<bufferVars, partition>>
  <2>1. TransOk(trans')
    BY <1>1, <1>3 DEF Moving, TransOk
  <2> QED
    BY <1>1, <1>3, <2>1, BufferKept DEF Keeps, Moving
<1> QED
  BY <1>2, <1>3 DEF Cs2EndDataTransfer

\* Deleting sectors keeps the invariant.
LEMMA DeleteSectorData ==
    ASSUME NEW whole \in BOOLEAN, Keeps(whole), NEW p \in Selector, NEW off \in Slot, NEW n \in 1 .. MaxBlocks,
           Cs2DeleteSectorData(p, off, n)
    PROVE  Keeps(whole)'
<1> DEFINE q == partition[p]
<1>1. /\ Counted /\ Holds(whole, used, partition) /\ Room(used, partition)
      /\ Moving
      /\ off \in Nat /\ n \in Nat /\ q.numblocks \in Nat /\ q.size \in Int
      /\ n * SectorSize \in Int
  BY RangeTyped DEF Keeps
<1>2. PICK size \in Sizes :
        /\ off + n <= q.numblocks
        /\ Cs2FreeBlocks(q.block, off .. off + n - 1)
        /\ partition' = [partition EXCEPT
             ![p] = WithoutSectors(q, off .. off + n - 1, q.numblocks - n, size)]
        /\ UNCHANGED transferVars
  BY DEF Cs2DeleteSectorData, InRange
<1> DEFINE left == q.numblocks - n
<1>3. /\ left \in Nat /\ left <= q.numblocks /\ off \in Int
      /\ left <= q.numblocks - n \/ left = 0
  BY <1>1, <1>2
<1>4. size \in Int
  BY SizesTyped
<1> HIDE DEF left, q
<1>5. /\ Cs2FreeBlocks(q.block, off .. off + n - 1)
      /\ partition' = [partition EXCEPT
           ![p] = WithoutSectors(q, off .. off + n - 1, left, size)]
  BY <1>2 DEF left
<1>6. Counted' /\ Holds(whole, used', partition') /\ Room(used', partition')
  BY <1>1, <1>3, <1>4, <1>5, SlotsFreed DEF q
<1> QED
  BY <1>1, <1>2, <1>6, TransferKept DEF Keeps

\* Copying sectors keeps the invariant.
LEMMA CopySectorData ==
    ASSUME NEW whole \in BOOLEAN, Keeps(whole), NEW p \in Selector, NEW off \in Slot, NEW n \in 1 .. MaxBlocks,
           NEW dest \in Selector, Cs2CopySectorData(p, off, n, dest)
    PROVE  Keeps(whole)'
<1>1. /\ Counted /\ Holds(whole, used, partition) /\ Room(used, partition) /\ Moving
      /\ n \in Nat
      /\ partition[dest].size \in Int /\ n * SectorSize \in Int
  BY RangeTyped DEF Keeps
<1> DEFINE size == partition[dest].size + n * SectorSize
<1>2. PICK new \in Injection(0 .. n - 1, Free) :
        /\ Cs2AllocateBlocks(Range(new))
        /\ partition' = [partition EXCEPT
             ![dest] = WithSectors(partition[dest], n, new, size)]
  BY DEF Cs2CopySectorData
<1>3. size \in Int
  BY <1>1
<1> HIDE DEF size
<1>4. Counted' /\ Holds(whole, used', partition') /\ Room(used', partition')
  BY <1>1, <1>2, <1>3, NewBlocks
<1>5. Moving'
  BY <1>1, TransferKept DEF Cs2CopySectorData
<1> QED
  BY <1>4, <1>5 DEF Keeps

\* Moving sectors to another partition keeps the invariant: no block is in two
\* partitions on the way.
LEMMA MoveBetween ==
    ASSUME NEW whole \in BOOLEAN, Keeps(whole), NEW p \in Selector, NEW off \in Slot,
           NEW n \in 1 .. MaxBlocks, NEW dest \in Selector, p # dest,
           Cs2MoveSectorData(p, off, n, dest)
    PROVE  Keeps(whole)'
<1> DEFINE q == partition[p]
           r == partition[dest]
           b == q.block
           moved == [k \in 0 .. n - 1 |-> b[off + k]]
           R == off .. off + n - 1
           left == q.numblocks - n
           less == q.size - n * SectorSize
           more == r.size + n * SectorSize
           w == WithoutSectors(q, R, left, less)
           P1 == [partition EXCEPT ![p] = w]
           x == WithSectors(r, n, moved, more)
           P2 == [P1 EXCEPT ![dest] = x]
           gone == {b[i] : i \in R \cap Full(b)}
<1>1. /\ Counted /\ Holds(whole, used, partition) /\ Room(used, partition) /\ Moving
      /\ off \in Nat /\ n \in Nat /\ MaxBlocks \in Nat
      /\ q \in Partition /\ q.numblocks \in Nat /\ q.size \in Int
      /\ r \in Partition /\ r.numblocks \in Nat /\ r.size \in Int
      /\ n * SectorSize \in Int
      /\ partition \in [Selector -> Partition] /\ used \in SUBSET Block
  BY RangeTyped, CountedOf DEF Keeps, Holds
<1>2. /\ off + n <= q.numblocks /\ partition' = P2
      /\ UNCHANGED <<bufferVars, transferVars>>
  BY <1>1 DEF Cs2MoveSectorData, InRange
<1>3. /\ b \in Slots /\ Distinct(b) /\ Present(whole, q) /\ q.numblocks <= MaxBlocks
      /\ Entries(b) \subseteq used
  BY <1>1, PartitionTyped DEF Holds
<1>4. /\ R \subseteq Slot /\ R \subseteq 0 .. q.numblocks - 1
      /\ (\A i \in R : b[i] \in Block \cup {NULL})
      /\ whole => \A i \in R : b[i] # NULL
      /\ \A k \in 0 .. n - 1 : off + k \in R
  <2>1. \A i \in R : i \in Slot /\ i < q.numblocks /\ i \in 0 .. q.numblocks - 1
    BY <1>1, <1>2, <1>3 DEF Slot
  <2>2. \A k \in 0 .. n - 1 : off + k \in R
    BY <1>1
  <2> HIDE DEF R
  <2> QED
    BY <2>1, <2>2, <1>3 DEF Present, AllThere, Slots
<1>5. left \in 0 .. MaxBlocks /\ less \in Int /\ more \in Int
  <2> DEFINE s == q.numblocks
             bytes == n * SectorSize
             was == q.size
             had == r.size
  <2>1. /\ off \in Nat /\ n \in Nat /\ MaxBlocks \in Nat /\ s \in Nat /\ s <= MaxBlocks
        /\ off + n <= s /\ bytes \in Int /\ was \in Int /\ had \in Int
    BY <1>1, <1>2, <1>3
  <2> HIDE DEF s, bytes, was, had
  <2>2. s - n \in 0 .. MaxBlocks /\ was - bytes \in Int /\ had + bytes \in Int
    BY <2>1
  <2> QED
    BY <2>2 DEF s, bytes, was, had
<1>6. whole => left <= Cardinality(Full(b) \ R)
  <2>1. off \in Int
    BY <1>1
  <2> HIDE DEF q
  <2>2. whole => q.numblocks - n <= Cardinality(Full(q.block) \ (off .. off + n - 1))
    BY <1>1, <1>3, <2>1, EnoughLeft
  <2> QED
    BY <2>2
<1>7. Holds(whole, used \ gone, P1)
  <2> HIDE DEF left, less, R
  <2> QED
    BY <1>1, <1>5, <1>6, ShrunkHolds
<1>8. P1[dest] = r
  BY <1>1 DEF Holds
<1>9. /\ moved \in [0 .. n - 1 -> Block \cup {NULL}]
      /\ \A k \in 0 .. n - 1 : moved[k] = b[off + k]
  BY <1>4
<1>10. Fresh(whole, moved, n)
  <2>1. ASSUME NEW k \in 0 .. n - 1, NEW l \in 0 .. n - 1, moved[k] # NULL,
               moved[k] = moved[l]
        PROVE  k = l
    <3>1. off + k = off + l
      BY <2>1, <1>3, <1>4, <1>9 DEF Distinct
    <3> QED
      BY <3>1, <1>1
  <2>2. whole => \A k \in 0 .. n - 1 : moved[k] # NULL
    BY <1>4, <1>9
  <2> HIDE DEF moved
  <2> QED
    BY <2>1, <2>2, <1>9 DEF Fresh
<1>11. Range(moved) \ {NULL} = gone
  <2>1. Full(b) = {i \in Slot : b[i] # NULL}
    BY <1>3 DEF Full, Slots
  <2>2. \A i \in R : i - off \in 0 .. n - 1 /\ off + (i - off) = i
    BY <1>1
  <2> HIDE DEF R
  <2>3. \A i \in R : b[i] = moved[i - off] /\ i - off \in DOMAIN moved
    BY <2>2, <1>9
  <2>4. DOMAIN moved = 0 .. n - 1
    OBVIOUS
  <2> HIDE DEF moved
  <2>5. ASSUME NEW k \in 0 .. n - 1, moved[k] # NULL PROVE moved[k] \in gone
    <3>1. off + k \in R \cap Full(b)
      BY <2>1, <2>5, <1>4, <1>9
    <3> QED
      BY <3>1, <1>9
  <2>6. ASSUME NEW i \in R \cap Full(b) PROVE b[i] \in Range(moved) \ {NULL}
    BY <2>1, <2>3 DEF Range
  <2> QED
    BY <2>4, <2>5, <2>6 DEF Range
<1>12. gone \subseteq used
  BY <1>1, FreedCounted
<1>13. r.numblocks + n <= MaxBlocks
  <2>1. q.numblocks + r.numblocks <= MaxBlocks
    BY <1>1, RoomForMoved
  <2> HIDE DEF q, r
  <2> QED
    BY <2>1, <1>1, <1>2
<1> HIDE DEF moved, R, left, less, more, gone, w, r, b
<1>14. \A t \in Selector : (Range(moved) \ {NULL}) \cap Entries(P1[t].block) = {}
  BY <1>7, <1>11 DEF Holds
<1> HIDE DEF P1
<1>15. Holds(whole, (used \ gone) \cup (Range(moved) \ {NULL}),
             [P1 EXCEPT ![dest] = WithSectors(P1[dest], n, moved, more)])
  BY <1>1, <1>5, <1>7, <1>8, <1>10, <1>13, <1>14, GrownHolds
<1>16. (used \ gone) \cup (Range(moved) \ {NULL}) = used
  BY <1>11, <1>12
<1>17. Holds(whole, used', partition')
  BY <1>2, <1>8, <1>15, <1>16 DEF bufferVars
<1>18. Room(used, P2)
  <2> DEFINE t == Cardinality(Taken(q))
             a == Cardinality(AllTaken(partition))
  <2>1. IsFiniteSet(R) /\ Cardinality(R) = n
    <3>1. off \in Int
      BY <1>1
    <3> QED
      BY <1>1, <3>1, IntervalCounted DEF R
  <2>2. /\ R \subseteq Taken(q) /\ Full(b) \subseteq Taken(q) /\ IsFiniteSet(Taken(q))
        /\ t \in Nat /\ q.numblocks <= t
    BY <1>1, <1>4, TakenCounted DEF b
  <2>3. /\ IsFiniteSet(Taken(q) \ R) /\ Cardinality(Taken(q) \ R) = t - Cardinality(Taken(q) \cap R)
        /\ Taken(q) \cap R = R
    BY <2>2, FS_Difference
  <2>4. Full(b) \ R \subseteq Taken(q) \ R
    BY <2>2
  <2>5. Cardinality(Full(b) \ R) <= t - n /\ t - n \in Nat
    <3>1. Cardinality(Full(b) \ R) <= Cardinality(Taken(q) \ R)
      BY <2>3, <2>4, FS_Subset
    <3>2. Cardinality(Taken(q) \ R) \in Nat
      BY <2>3, FS_CardinalityType
    <3> HIDE DEF t
    <3> QED
      BY <3>1, <3>2, <2>1, <2>3
  <2>6. left <= t - n
    <3> HIDE DEF t
    <3> QED
      BY <1>1, <2>2 DEF left
  <2>7. w \in Partition
    BY <1>1, <1>7 DEF P1, Holds
  <2> HIDE DEF q, t
  <2>8. Cardinality(Taken(w)) <= t - n
    BY <1>1, <2>5, <2>6, <2>7, ShrunkTaken DEF w, b
  <2>9. Cardinality(Taken(x)) <= Cardinality(Taken(r)) + n
    BY <1>1, GrownTaken
  <2> HIDE DEF x
  <2>10. /\ IsFiniteSet(AllTaken(partition)) /\ a \in Nat /\ a <= Cardinality(used)
         /\ Cardinality(used) \in Nat
    BY <1>1, FreeCounted, FS_CardinalityType DEF Room
  <2> HIDE DEF a
  <2>11. /\ IsFiniteSet(AllTaken(P1))
         /\ Cardinality(AllTaken(P1)) = a - t + Cardinality(Taken(w))
    BY <1>1, <2>7, <2>10, TakenReplaced DEF P1, a, t, q
  <2>12. P1 \in [Selector -> Partition] /\ x \in Partition
    BY <1>2, <1>7, <1>17 DEF Holds, P1
  <2>13. /\ IsFiniteSet(AllTaken(P2))
         /\ Cardinality(AllTaken(P2))
              = Cardinality(AllTaken(P1)) - Cardinality(Taken(r)) + Cardinality(Taken(x))
    BY <1>8, <2>11, <2>12, TakenReplaced
  <2>14. /\ Cardinality(Taken(w)) \in Nat /\ Cardinality(Taken(x)) \in Nat
         /\ Cardinality(Taken(r)) \in Nat
    BY <1>1, <2>7, <2>12, TakenCounted
  <2> HIDE DEF P2
  <2>15. Cardinality(AllTaken(P2)) <= Cardinality(used)
    BY <1>1, <2>2, <2>8, <2>9, <2>10, <2>11, <2>13, <2>14
  <2> QED
    BY <2>13, <2>15 DEF Room
<1>19. Counted'
  BY <1>1, <1>2 DEF Counted, bufferVars, FreeCount, FullMeansNoRoom, Free, MaxBlocks
<1>20. Moving'
  BY <1>1, <1>2, TransferKept
<1>21. Room(used', partition')
  BY <1>2, <1>18 DEF bufferVars
<1> QED
  BY <1>17, <1>19, <1>20, <1>21 DEF Keeps

\* Moving sectors within one partition keeps it too: blocks get lost, but the
\* partition takes no slot more.  One sector goes to the end and stays there.
LEMMA MoveWithin ==
    ASSUME NEW whole \in BOOLEAN, Keeps(whole), NEW p \in Selector, NEW off \in Slot,
           NEW n \in 1 .. MaxBlocks, Cs2MoveSectorData(p, off, n, p),
           whole => n = 1 /\ partition[p].numblocks # MaxBlocks
    PROVE  Keeps(whole)'
<1> DEFINE q == partition[p]
           b == q.block
           s == q.numblocks
           R == off .. off + n - 1
           l == off + n - 1
           c == [i \in Slot |-> IF i = s THEN b[l] ELSE Without(b, R)[i]]
           w == MovedWithin(q, off, n)
<1>1. /\ Counted /\ Holds(whole, used, partition) /\ Room(used, partition) /\ Moving
      /\ off \in Nat /\ n \in Nat /\ n >= 1 /\ MaxBlocks \in Nat
      /\ q \in Partition /\ s \in Nat /\ s <= MaxBlocks
      /\ partition \in [Selector -> Partition] /\ used \in SUBSET Block
  <2>1. /\ Counted /\ Holds(whole, used, partition) /\ Room(used, partition) /\ Moving
    BY DEF Keeps
  <2>2. /\ off \in Nat /\ n \in Nat /\ n >= 1 /\ MaxBlocks \in Nat
        /\ q \in Partition /\ s \in Nat
    BY RangeTyped
  <2>3. s <= MaxBlocks
    BY <2>2, PartitionTyped
  <2>4. partition \in [Selector -> Partition] /\ used \in SUBSET Block
    BY <2>1, CountedOf DEF Holds
  <2> QED
    BY <2>1, <2>2, <2>3, <2>4
<1>2. /\ off + n <= s /\ partition' = [partition EXCEPT ![p] = w]
      /\ UNCHANGED <<bufferVars, transferVars>>
  BY DEF Cs2MoveSectorData, InRange
<1>3. b \in Slots /\ Distinct(b) /\ Present(whole, q) /\ Entries(b) \subseteq used
  BY <1>1, PartitionTyped DEF Holds
<1>4. l \in Slot /\ l \in R /\ l # s /\ Slot \subseteq Nat
  BY <1>1, <1>2 DEF Slot
<1>5. \A i \in Slot : c[i] = IF i = s THEN b[l] ELSE IF i \in R THEN NULL ELSE b[i]
  BY <1>3 DEF Without, Slots
<1>6. w = [q EXCEPT !.block = Cs2SortBlocks(c)]
  BY DEF MovedWithin
<1>7. c \in Slots
  <2>1. c = [i \in Slot |-> c[i]]
    OBVIOUS
  <2> HIDE DEF c
  <2> QED
    BY <2>1, <1>3, <1>4, <1>5 DEF Slots
<1> HIDE DEF c, w, R, l
<1>8. Distinct(c) /\ Entries(c) \subseteq Entries(b)
  BY <1>3, <1>4, <1>5 DEF Distinct, Entries
<1>9. /\ Cs2SortBlocks(c) \in Slots /\ Entries(Cs2SortBlocks(c)) = Entries(c)
      /\ Distinct(Cs2SortBlocks(c))
      /\ \A k \in Slot : k < Cardinality(Full(c)) <=> Cs2SortBlocks(c)[k] # NULL
  BY <1>7, <1>8, Sorted
<1>10. w \in Partition /\ w.block = Cs2SortBlocks(c) /\ w.numblocks = s
  BY <1>1, <1>6, <1>9 DEF Partition, Slots
<1>11. Present(whole, w)
  <2>1. SUFFICES ASSUME whole, NEW k \in Slot, k < s PROVE Cs2SortBlocks(c)[k] # NULL
    BY <1>10 DEF Present, AllThere
  <2> DEFINE C == 0 .. s - 1
  <2>2. n = 1 /\ s \in Slot /\ R = {off} /\ l = off /\ off \in C
    BY <2>1, <1>1, <1>2 DEF R, l, Slot
  <2>3. \A i \in Slot : i < s => b[i] # NULL
    BY <2>1, <1>3 DEF Present, AllThere
  <2>4. /\ IsFiniteSet(C) /\ Cardinality(C) = s
    BY <1>1, FirstCounted
  <2>5. C \subseteq Slot /\ s \notin C /\ \A i \in C : i < s
    BY <1>1 DEF Slot
  <2> HIDE DEF C, s
  <2>6. /\ IsFiniteSet(C \ {off}) /\ Cardinality(C \ {off}) = s - 1
    BY <2>2, <2>4, FS_RemoveElement
  <2>7. /\ IsFiniteSet((C \ {off}) \cup {s})
        /\ Cardinality((C \ {off}) \cup {s}) = s
    <3>1. s \notin C \ {off}
      BY <2>5
    <3>2. Cardinality((C \ {off}) \cup {s}) = Cardinality(C \ {off}) + 1
          /\ IsFiniteSet((C \ {off}) \cup {s})
      BY <3>1, <2>6, FS_AddElement
    <3> QED
      BY <3>2, <2>6, <1>1
  <2>8. (C \ {off}) \cup {s} \subseteq Full(c)
    <3>1. Full(c) = {i \in Slot : c[i] # NULL}
      BY <1>7 DEF Full, Slots
    <3>2. c[s] # NULL
      BY <2>2, <2>3, <2>5, <1>5
    <3>3. \A i \in C \ {off} : c[i] # NULL
      BY <2>2, <2>3, <2>5, <1>5
    <3> QED
      BY <3>1, <3>2, <3>3, <2>2, <2>5
  <2>9. s <= Cardinality(Full(c)) /\ Cardinality(Full(c)) \in Nat
    BY <2>7, <2>8, <1>7, FullFinite, FS_Subset
  <2>10. k < Cardinality(Full(c))
    BY <2>1, <2>9, <1>1, <1>4
  <2> QED
    BY <2>10, <1>9
<1>12. \A r \in Selector \ {p} :
         /\ Entries(partition[r].block) \subseteq used
         /\ Entries(partition[r].block) \cap Entries(w.block) = {}
  BY <1>1, <1>8, <1>9, <1>10 DEF Holds
<1>13. Entries(w.block) \subseteq used /\ Distinct(w.block)
  BY <1>3, <1>8, <1>9, <1>10
<1>14. Holds(whole, used, [partition EXCEPT ![p] = w])
  BY <1>1, <1>10, <1>11, <1>12, <1>13, Replaced
<1>15. Room(used, [partition EXCEPT ![p] = w])
  <2> DEFINE t == Cardinality(Taken(q))
  <2>1. t \in Nat /\ s <= t /\ Cardinality(Full(b)) <= t
    BY <1>1, TakenCounted
  <2>2. /\ Cardinality(Entries(b)) = Cardinality(Full(b)) /\ IsFiniteSet(Entries(b))
        /\ Cardinality(Entries(c)) = Cardinality(Full(c))
    BY <1>3, <1>7, <1>8, EntriesCounted
  <2>3. Cardinality(Full(c)) <= Cardinality(Full(b))
    BY <2>2, <1>8, FS_Subset
  <2>4. Cardinality(Full(c)) \in Nat /\ Cardinality(Full(b)) \in Nat
    BY <1>3, <1>7, FullFinite
  <2> HIDE DEF t
  <2>5. Cardinality(Full(c)) <= t
    BY <2>1, <2>3, <2>4
  <2>6. Cardinality(Taken(w)) <= t
    BY <1>7, <1>10, <2>1, <2>5, TakenSorted
  <2>7. Cardinality(Taken(w)) \in Nat /\ Cardinality(used) \in Nat
    BY <1>1, <1>10, TakenCounted, FreeCounted
  <2>8. Cardinality(Taken(w)) + Cardinality(used) <= t + Cardinality(used)
    BY <2>1, <2>6, <2>7
  <2> QED
    BY <1>1, <1>10, <2>8, RoomKept DEF t
<1>16. Counted'
  BY <1>1, <1>2 DEF Counted, bufferVars, FreeCount, FullMeansNoRoom, Free, MaxBlocks
<1>17. Moving'
  BY <1>1, <1>2, TransferKept
<1>18. used' = used
  BY <1>2 DEF bufferVars
<1> QED
  BY <1>2, <1>14, <1>15, <1>16, <1>17, <1>18 DEF Keeps

\* Moving sectors keeps the invariant; where what is counted has to be there,
\* every move but one that loses sectors.
LEMMA MoveSectorData ==
    ASSUME NEW whole \in BOOLEAN, Keeps(whole), NEW p \in Selector, NEW off \in Slot,
           NEW n \in 1 .. MaxBlocks, NEW dest \in Selector,
           Cs2MoveSectorData(p, off, n, dest), whole => ~LosingMove
    PROVE  Keeps(whole)'
<1>1. CASE p # dest
  BY <1>1, MoveBetween
<1>2. CASE p = dest
  <2>1. Cs2MoveSectorData(p, off, n, p)
    BY <1>2
  <2>2. whole => ~(n > 1) /\ partition[p].numblocks # MaxBlocks
    BY <2>1 DEF LosingMove
  <2>3. ~(n > 1) => n = 1
    BY BlocksCounted
  <2> QED
    BY <2>1, <2>2, <2>3, MoveWithin
<1> QED
  BY <1>1, <1>2

\* Resetting a partition keeps the invariant.
LEMMA ResetSelector ==
    ASSUME NEW whole \in BOOLEAN, Keeps(whole), NEW p \in Selector, Cs2ResetSelector(p)
    PROVE  Keeps(whole)'
<1> DEFINE q == partition[p]
           b == q.block
           R == 0 .. q.numblocks - 1
           taken == R \cap Full(b)
           gone == {b[i] : i \in taken}
           w == [block |-> Without(b, R), numblocks |-> 0, size |-> -1]
<1>1. /\ Counted /\ Holds(whole, used, partition) /\ Room(used, partition) /\ Moving
      /\ q \in Partition /\ b \in Slots /\ Distinct(b) /\ Entries(b) \subseteq used
      /\ q.numblocks \in Nat /\ q.numblocks <= MaxBlocks /\ MaxBlocks \in Nat
  <2>1. Counted /\ Holds(whole, used, partition) /\ Room(used, partition) /\ Moving
    BY DEF Keeps
  <2>2. q \in Partition /\ Distinct(b) /\ Entries(b) \subseteq used
    BY <2>1 DEF Holds
  <2> HIDE DEF q
  <2> QED
    BY <2>1, <2>2, PartitionTyped, BlocksCounted
<1>2. /\ Cardinality(taken) \in Nat /\ gone \subseteq used
      /\ gone = {b[i] : i \in R \cap Slot} \ {NULL}
      /\ Cardinality(Block \ (used \ gone)) = blockfreespace + Cardinality(taken)
      /\ IsFiniteSet(taken)
  BY <1>1, FreedCounted
<1>3. R \subseteq Slot
  BY <1>1 DEF Slot
<1>4. /\ used \in SUBSET Block /\ blockfreespace \in Nat
      /\ isbufferfull => blockfreespace = 0
  BY <1>1, CountedOf
<1> HIDE DEF gone, taken, R
<1>5. used' = used \ gone
  <2>1. used' = used \ {b[i] : i \in R}
    BY DEF Cs2ResetSelector, R
  <2>2. NULL \notin used /\ R \cap Slot = R
    BY <1>3, <1>4, BlocksCounted
  <2> HIDE DEF b
  <2> QED
    BY <2>1, <2>2, <1>2
<1>6. blockfreespace' = blockfreespace + Cardinality(taken)
  BY DEF Cs2ResetSelector, taken, R
<1>7. isbufferfull' = (isbufferfull /\ taken = {} /\ blockfreespace' <= 0)
  BY <1>6 DEF Cs2ResetSelector, taken, R
<1>8. Counted'
  <2>1. used' \in SUBSET Block /\ blockfreespace' = Cardinality(Block \ used')
    BY <1>2, <1>4, <1>5, <1>6
  <2>2. isbufferfull' \in BOOLEAN
    BY <1>7, Zenon
  <2>3. ASSUME isbufferfull' PROVE blockfreespace' = 0
    <3>1. blockfreespace' <= 0
      BY <1>7, <2>3, Zenon
    <3> QED
      BY <3>1, <1>2, <1>4, <1>6
  <2> QED
    BY <2>1, <2>2, <2>3, CountedAgain
<1>9. /\ Without(b, R) \in Slots /\ Entries(Without(b, R)) = {b[i] : i \in Full(b) \ R}
  BY <1>1, Removed
<1>10. /\ w \in Partition /\ w.block = Without(b, R) /\ w.numblocks = 0
       /\ partition' = [partition EXCEPT ![p] = w]
  BY <1>1, <1>9 DEF Partition, Slots, Cs2ResetSelector, R
<1>11. Entries(w.block) \subseteq used \ gone
  <2>1. Full(b) = {i \in Slot : b[i] # NULL}
    BY <1>1 DEF Full, Slots
  <2>2. {b[i] : i \in Full(b) \ R} \subseteq Entries(b)
    BY <2>1 DEF Entries
  <2>3. {b[i] : i \in Full(b) \ R} \cap gone = {}
    BY <2>1, <1>1 DEF gone, taken, Distinct
  <2> QED
    BY <2>2, <2>3, <1>1, <1>9, <1>10
<1>12. \A r \in Selector \ {p} : Entries(partition[r].block) \subseteq used \ gone
  <2>1. gone \subseteq Entries(b)
    <3>1. Full(b) = {i \in Slot : b[i] # NULL}
      BY <1>1 DEF Full, Slots
    <3> QED
      BY <3>1 DEF Entries, gone, taken
  <2> QED
    BY <2>1, <1>1 DEF Holds
<1>13. w.numblocks <= q.numblocks /\ \A i \in Slot \cap R : ~(i < w.numblocks)
  BY <1>1, <1>10 DEF Slot
<1>16. Room(used', partition')
  <2> DEFINE t == Cardinality(Taken(q))
             m == Cardinality(Taken(w))
  <2>1. IsFiniteSet(R) /\ Cardinality(R) = q.numblocks
    BY <1>1, FirstCounted DEF R
  <2>2. Taken(w) = Full(b) \ R
    <3>1. \A i \in Slot : w.block[i] = IF i \in R THEN NULL ELSE b[i]
      BY <1>1, <1>10 DEF Without, Slots
    <3>2. Full(b) = {i \in Slot : b[i] # NULL} /\ \A i \in Slot : ~(i < w.numblocks)
      BY <1>1, <1>10, BlocksCounted DEF Full, Slots, Slot
    <3> HIDE DEF w, b
    <3> QED
      BY <3>1, <3>2 DEF Taken
  <2>3. /\ Cardinality(taken) \in Nat /\ Cardinality(Full(b) \ R) \in Nat
        /\ Cardinality(Full(b) \ R) + Cardinality(taken) <= t
    BY <1>1, <2>1, SlotsLeft, 0 \in Nat DEF taken
  <2>4. /\ Cardinality(used) \in Nat /\ MaxBlocks \in Nat /\ used' \in SUBSET Block
        /\ Cardinality(used') = Cardinality(used) - Cardinality(taken)
    <3>1. used' \in SUBSET Block
      BY <1>4, <1>5
    <3>2. /\ Cardinality(Block \ used) = MaxBlocks - Cardinality(used)
          /\ Cardinality(Block \ used') = MaxBlocks - Cardinality(used')
          /\ Cardinality(used) \in Nat /\ Cardinality(used') \in Nat
          /\ blockfreespace = Cardinality(Block \ used)
      BY <3>1, <1>1, <1>4, CountedOf, FreeCounted
    <3>3. Cardinality(Block \ used') = blockfreespace + Cardinality(taken)
      BY <1>2, <1>5
    <3> QED
      BY <3>1, <3>2, <3>3, <1>1, <2>3
  <2>5. partition \in [Selector -> Partition]
    BY <1>1 DEF Holds
  <2>6. t \in Nat /\ m = Cardinality(Full(b) \ R)
    BY <1>1, <2>2, TakenCounted
  <2>7. m + Cardinality(used) <= t + Cardinality(used')
    <3> HIDE DEF m, t
    <3> QED
      BY <2>3, <2>4, <2>6
  <2>8. Room(used', [partition EXCEPT ![p] = w])
    <3> HIDE DEF w
    <3> QED
      BY <1>1, <1>4, <1>10, <2>4, <2>5, <2>7, RoomKept
  <2> QED
    BY <2>8, <1>10
<1> HIDE DEF w, b, q
<1>14. Holds(whole, used \ gone, [partition EXCEPT ![p] = w])
  BY <1>1, <1>10, <1>11, <1>12, <1>13, EmptiedHolds DEF b, q
<1>15. Moving'
  <2>1. TransOk(Idle) /\ (trans' = Idle \/ trans' = trans)
    BY BlocksCounted, SizesTyped DEF TransOk, Idle, Cs2ResetSelector
  <2>2. UNCHANGED <<partitionnum, session>>
    BY DEF Cs2ResetSelector
  <2> QED
    BY <1>1, <2>1, <2>2, MovingAfter DEF Moving
<1> QED
  BY <1>5, <1>8, <1>10, <1>14, <1>15, <1>16 DEF Keeps

\* The buffer is in order when it is empty.
LEMMA EmptyHolds ==
    /\ \A whole \in BOOLEAN : Holds(whole, {}, [p \in Selector |-> Empty])
    /\ Room({}, [p \in Selector |-> Empty])
    /\ TransOk(Idle)
    /\ {} \in SUBSET Block /\ MaxBlocks = Cardinality(Block \ {})
<1>1. Empty \in Partition /\ Empty.numblocks = 0 /\ \A i \in Slot : Empty.block[i] = NULL
  BY BlocksCounted DEF Empty, Partition
<1>2. /\ Entries(Empty.block) = {} /\ Distinct(Empty.block)
      /\ \A whole \in BOOLEAN : Present(whole, Empty)
  BY <1>1, BlocksCounted DEF Entries, Distinct, Present, AllThere, Slot
<1>3. Block \ {} = Block
  OBVIOUS
<1>4. Room({}, [p \in Selector |-> Empty])
  <2>1. Taken(Empty) = {}
    BY <1>1, BlocksCounted DEF Taken, Slot
  <2>2. AllTaken([p \in Selector |-> Empty]) = {}
    BY <2>1 DEF AllTaken
  <2>3. IsFiniteSet({}) /\ Cardinality({}) = 0
    BY FS_EmptySet
  <2> QED
    BY <2>2, <2>3 DEF Room
<1> QED
  BY <1>1, <1>2, <1>3, <1>4, BlocksCounted, SizesTyped DEF Holds, TransOk, Idle, MaxBlocks

\* Freeing everything leaves it so.
LEMMA ClearedAll ==
    ASSUME NEW whole \in BOOLEAN, Cleared
    PROVE  Counted' /\ Holds(whole, used', partition') /\ Room(used', partition')
<1>1. /\ used' = {} /\ blockfreespace' = MaxBlocks /\ isbufferfull' = FALSE
      /\ partition' = [p \in Selector |-> Empty]
  BY DEF Cleared
<1>2. Counted'
  BY <1>1, EmptyHolds, CountedAgain
<1> QED
  BY <1>1, <1>2, EmptyHolds

\* The resets keep the invariant.
LEMMA Resets ==
    ASSUME NEW whole \in BOOLEAN, Keeps(whole),
           \/ Cs2ResetPartitions
           \/ \E software \in BOOLEAN : Cs2InitializeCDSystem(software)
           \/ Cs2AbortFile
    PROVE  Keeps(whole)'
<1>1. /\ Counted /\ Holds(whole, used, partition) /\ Room(used, partition) /\ Moving
      /\ TransOk(Idle)
  BY EmptyHolds DEF Keeps
<1>2. trans' = Idle /\ partitionnum' = partitionnum /\ session' \in BOOLEAN
  BY <1>1 DEF Cs2ResetPartitions, Cs2InitializeCDSystem, Cs2AbortFile, Moving
<1>3. Moving'
  BY <1>1, <1>2, MovingAfter DEF Moving
<1>4. CASE Cleared
  BY <1>3, <1>4, ClearedAll DEF Keeps
<1>5. CASE isbufferfull' = FALSE /\ UNCHANGED <<used, blockfreespace, partition>>
  <2>1. used' \in SUBSET Block /\ blockfreespace' = Cardinality(Block \ used')
    BY <1>1, <1>5, CountedOf
  <2>2. Counted'
    BY <2>1, <1>5, CountedAgain
  <2> QED
    BY <2>2, <1>1, <1>3, <1>5 DEF Keeps
<1>6. CASE UNCHANGED <<bufferVars, partition>>
  BY <1>1, <1>3, <1>6, BufferKept DEF Keeps
<1> QED
  BY <1>4, <1>5, <1>6 DEF Cs2ResetPartitions, Cs2InitializeCDSystem, Cs2AbortFile

---------------------------------------------------------------------------
(***************************************************************************)
(* The theorems.                                                           *)
(***************************************************************************)
LEMMA InitHolds == Init => IInv
<1>1. SUFFICES ASSUME Init PROVE IInv
  OBVIOUS
<1>2. /\ used = {} /\ blockfreespace = MaxBlocks /\ isbufferfull = FALSE
      /\ partition = [p \in Selector |-> Empty] /\ trans = Idle
      /\ partitionnum \in Selector /\ session = FALSE
  BY <1>1 DEF Init
<1>3. blockfreespace = Cardinality(Free) /\ blockfreespace \in 0 .. MaxBlocks
  BY <1>2, EmptyHolds, BlocksCounted DEF Free
<1>4. Counted
  BY <1>2, <1>3, BlocksCounted DEF Counted, FreeCount, FullMeansNoRoom
<1> QED
  BY <1>2, <1>4, EmptyHolds, ModeAssumption DEF IInv, Keeps, Moving

\* Every step keeps the invariant: where all that is counted has to be there,
\* every one but a move that loses sectors.
LEMMA NextKeeps ==
    ASSUME NEW whole \in BOOLEAN, Keeps(whole), [Next]_vars, whole => ~LosingMove
    PROVE  Keeps(whole)'
<1>2. CASE UNCHANGED vars
  <2>1. UNCHANGED <<bufferVars, partition>> /\ UNCHANGED transferVars
    BY <1>2 DEF vars
  <2> QED
    BY <2>1, BufferKept, TransferKept DEF Keeps
<1>3. ASSUME NEW p \in Selector,
             \/ Cs2FilterData(p) \/ Cs2ReadFileSystem(p)
             \/ Cs2ReadUnFilteredSectorFails(p) \/ Cs2ResetSelector(p)
      PROVE  Keeps(whole)'
  BY <1>3, FilterData, ReadFileSystem, ReadFails, ResetSelector
<1>4. ASSUME NEW p \in Selector, NEW n \in 1 .. MaxBlocks, Cs2PutSectorData(p, n)
      PROVE  Keeps(whole)'
  BY <1>4, PutSectorData
<1>5. ASSUME NEW p \in Selector, NEW n \in 1 .. MaxBlocks, NEW off \in Slot,
             \/ Cs2GetSectorData(p, off, n) \/ Cs2GetThenDeleteSectorData(p, off, n)
             \/ Cs2DeleteSectorData(p, off, n)
      PROVE  Keeps(whole)'
  BY <1>5, GetSectorData, DeleteSectorData
<1>6. ASSUME NEW p \in Selector, NEW n \in 1 .. MaxBlocks, NEW off \in Slot,
             NEW dest \in Selector,
             Cs2CopySectorData(p, off, n, dest) \/ Cs2MoveSectorData(p, off, n, dest)
      PROVE  Keeps(whole)'
  BY <1>6, CopySectorData, MoveSectorData
<1>7. ASSUME Cs2ReadLong \/ Cs2WriteLong \/ Cs2EndDataTransfer PROVE Keeps(whole)'
  BY <1>7, ReadLong, WriteLong, EndDataTransfer
<1>8. ASSUME \/ Cs2ResetPartitions
             \/ \E software \in BOOLEAN : Cs2InitializeCDSystem(software)
             \/ Cs2AbortFile
      PROVE  Keeps(whole)'
  BY <1>8, Resets
<1> QED
  BY <1>2, <1>3, <1>4, <1>5, <1>6, <1>7, <1>8, Zenon DEF Next

\* A disciplined program moves no sectors within one partition.
LEMMA NextHolds == IInv /\ [Next]_vars => IInv'
<1>1. SUFFICES ASSUME IInv, [Next]_vars PROVE IInv'
  OBVIOUS
<1>2. Disciplined => ~LosingMove
  BY DEF LosingMove, Cs2MoveSectorData, MayMove
<1> QED
  BY <1>1, <1>2, ModeAssumption, NextKeeps DEF IInv

\* The inductive invariant holds: the blocks are counted, each is in one slot,
\* the partitions count no more sectors than blocks are in use, and a transfer
\* that is open names a partition, whatever the program does and whether the
\* disc reads or fails.  What a disciplined program's partitions count is there.
THEOREM Invariance == Spec => []IInv
BY InitHolds, NextHolds, PTL DEF Spec

\* Every variable of the buffer stays in its type: no partition counts more
\* sectors than there are blocks, though get-then-delete, put, copy and move
\* only add and subtract (Cs2PutSectorData, Cs2MoveSectorData).
THEOREM BufferTyped == Spec => []TypeOk
<1>1. IInv => TypeOk
  BY DEF IInv, Keeps, Counted, Holds, Moving, TransOk, TypeOk
<1> QED
  BY <1>1, Invariance, PTL

\* blockfreespace is the number of blocks Cs2AllocateBlock would find.
THEOREM FreeCountHolds == Spec => []FreeCount
<1>1. IInv => FreeCount
  BY DEF IInv, Keeps, Counted
<1> QED
  BY <1>1, Invariance, PTL

\* A block in a slot is allocated and in no other slot: Cs2FreeBlock for one
\* partition never frees the sector of another.
THEOREM BlocksOwnedHolds == Spec => []BlocksOwned
<1>1. ASSUME IInv PROVE BlocksOwned
  <2>1. SUFFICES ASSUME NEW p \in Selector, NEW r \in Selector,
                        NEW i \in Slot, NEW j \in Slot, partition[p].block[i] # NULL
                 PROVE  /\ partition[p].block[i] \in used
                        /\ partition[r].block[j] = partition[p].block[i]
                             => p = r /\ i = j
    BY DEF BlocksOwned
  <2>2. Holds(Disciplined, used, partition)
    BY <1>1 DEF IInv, Keeps
  <2>3. partition[p].block[i] \in Entries(partition[p].block)
    BY <2>1 DEF Entries
  <2>4. ASSUME partition[r].block[j] = partition[p].block[i] PROVE p = r
    <3>1. partition[r].block[j] \in Entries(partition[r].block)
      BY <2>1, <2>4 DEF Entries
    <3> QED
      BY <2>2, <2>3, <2>4, <3>1 DEF Holds
  <2>5. ASSUME partition[r].block[j] = partition[p].block[i], p = r PROVE i = j
    BY <2>1, <2>2, <2>5 DEF Holds, Distinct
  <2> QED
    BY <2>2, <2>3, <2>4, <2>5 DEF Holds
<1> QED
  BY <1>1, Invariance, PTL

\* What the partitions count is there after a step if it was before it, the
\* moves that lose sectors apart.
LEMMA StaysPresent ==
    ASSUME IInv, SectorsPresent, [Next]_vars, ~LosingMove
    PROVE  SectorsPresent'
<1>1. Keeps(TRUE)
  BY DEF IInv, Keeps, Holds, Present, AllThere, SectorsPresent
<1>2. Keeps(TRUE)'
  BY <1>1, NextKeeps
<1> QED
  BY <1>2 DEF Keeps, Holds, Present, AllThere, SectorsPresent

\* The sectors the partitions count are there, for Cs2DeleteSectorData,
\* Cs2GetSectorInfo and Cs2CopySectorData to follow their pointers, until a
\* command moves sectors within one partition (Cs2MoveSectorData).
THEOREM SectorsStayHolds == Spec => SectorsStay
<1>1. IInv /\ [Next]_vars => [(SectorsPresent => SectorsPresent') \/ LosingMove]_vars
  BY StaysPresent
<1> QED
  BY <1>1, Invariance, PTL DEF Spec, SectorsStay

\* With a program that keeps the protocol, and moves sectors only between
\* partitions, they are always there.
THEOREM DisciplinedSectorsPresent ==
    ASSUME Disciplined
    PROVE  Spec => []SectorsPresent
<1>1. IInv => SectorsPresent
  BY DEF IInv, Keeps, Holds, Present, AllThere, SectorsPresent
<1> QED
  BY <1>1, Invariance, PTL

\* The drive never waits for room while there is some.
THEOREM FullMeansNoRoomHolds == Spec => []FullMeansNoRoom
<1>1. IInv => FullMeansNoRoom
  BY DEF IInv, Keeps, Counted
<1> QED
  BY <1>1, Invariance, PTL

---------------------------------------------------------------------------
(***************************************************************************)
(* A program that keeps the protocol.  Its open transfer is of sectors     *)
(* that stay: what takes sectors from a partition spares the transfer's,   *)
(* and Cs2ResetSelector of that partition ends it, because                 *)
(* datatranspartitionnum names it, unless it is a get-then-delete.         *)
(***************************************************************************)
Numbered == Transferring /\ trans.type # "GETDELSECTOR" => partitionnum = trans.part

Within == Numbered /\ TransferWithin

\* The transfer stays what it is and its partition loses nothing.
LEMMA WithinKept ==
    ASSUME Intact, Intact', Within, session' = session, partitionnum' = partitionnum,
           /\ trans'.type = trans.type /\ trans'.part = trans.part
           /\ trans'.pos = trans.pos /\ trans'.total = trans.total,
           Transferring => partition[trans.part].numblocks
                             <= partition'[trans.part].numblocks
    PROVE  Within'
<1>1. Transferring' = Transferring /\ Numbered'
  BY DEF Transferring, Within, Numbered
<1>2. ASSUME Transferring
      PROVE  trans'.pos + trans'.total <= partition'[trans'.part].numblocks
  <2>1. /\ trans.part \in Selector /\ trans.pos \in Nat /\ trans.total \in Nat
        /\ trans.pos + trans.total <= partition[trans.part].numblocks
    BY <1>2, BlocksCounted DEF Intact, Keeps, Moving, TransOk, Transferring, Within, TransferWithin
  <2>2. /\ partition[trans.part] \in Partition /\ partition'[trans.part] \in Partition
        /\ partition[trans.part].numblocks <= partition'[trans.part].numblocks
    BY <1>2, <2>1 DEF Intact, Keeps, Holds, Partition, Slot, MaxBlocks
  <2>3. /\ partition[trans.part].numblocks \in Nat
        /\ partition'[trans.part].numblocks \in Nat
    BY <2>2, PartitionTyped, BlocksCounted
  <2> QED
    BY <2>1, <2>2, <2>3
<1> QED
  BY <1>1, <1>2 DEF Within, TransferWithin

\* No transfer is within anything.
LEMMA WithinEnded ==
    ASSUME trans' = Idle \/ session' = FALSE
    PROVE  Within'
BY DEF Within, Numbered, TransferWithin, Transferring, Idle

\* The drive does not shorten the partition of a transfer.
LEMMA WithinDrive ==
    ASSUME Intact, Intact', Within, NEW p \in Selector,
           \/ Cs2FilterData(p) \/ Cs2ReadFileSystem(p) \/ Cs2ReadUnFilteredSectorFails(p)
    PROVE  Within'
<1>1. trans' = trans /\ partitionnum' = partitionnum /\ session' = session
  BY DEF Cs2FilterData, Cs2ReadFileSystem, Cs2ReadUnFilteredSectorFails, transferVars
<1>2. /\ partition \in [Selector -> Partition]
      /\ \A r \in Selector : partition[r].numblocks \in Nat
  BY PartitionTyped, BlocksCounted DEF Intact, Keeps, Holds
<1>3. Transferring => trans.part \in Selector
  BY DEF Intact, Keeps, Moving, TransOk, Transferring
<1>4. ASSUME NEW q, partition' = [partition EXCEPT ![p] = q],
             partition[p].numblocks <= q.numblocks
      PROVE  Within'
  <2>1. \A r \in Selector : partition[r].numblocks <= partition'[r].numblocks
    BY <1>2, <1>4
  <2> QED
    BY <1>1, <1>3, <2>1, WithinKept
<1>5. partition[p].numblocks <= partition[p].numblocks
  BY <1>2
<1>6. CASE NoBlockLeft(p)
  <2> DEFINE q == [partition[p] EXCEPT !.block = Without(@, {partition[p].numblocks})]
  <2>1. partition' = [partition EXCEPT ![p] = q] /\ q.numblocks = partition[p].numblocks
    BY <1>2, <1>6 DEF NoBlockLeft, Partition
  <2> HIDE DEF q
  <2> QED
    BY <1>4, <1>5, <2>1
<1>7. CASE Cs2FilterData(p) /\ ~NoBlockLeft(p)
  <2>1. PICK b \in Free :
          partition' = [partition EXCEPT
            ![p] = WithSectors(partition[p], 1, [k \in {0} |-> b],
                               SizeOf(partition[p]) + SectorSize)]
    BY <1>7 DEF Cs2FilterData
  <2> DEFINE q == WithSectors(partition[p], 1, [k \in {0} |-> b],
                              SizeOf(partition[p]) + SectorSize)
  <2>2. partition[p].numblocks <= q.numblocks
    BY <1>2 DEF WithSectors
  <2> HIDE DEF q
  <2> QED
    BY <1>4, <2>1, <2>2 DEF q
<1>8. CASE Cs2ReadFileSystem(p) /\ ~NoBlockLeft(p)
  <2> DEFINE q == WithoutSectors(partition[p], {partition[p].numblocks},
                                 partition[p].numblocks, SizeOf(partition[p]))
  <2>1. partition' = [partition EXCEPT ![p] = q] /\ q.numblocks = partition[p].numblocks
    BY <1>8 DEF Cs2ReadFileSystem, WithoutSectors
  <2> HIDE DEF q
  <2> QED
    BY <1>4, <1>5, <2>1
<1>9. CASE Cs2ReadUnFilteredSectorFails(p)
  <2>1. PICK b \in Free :
          partition' = [partition EXCEPT ![p].block[partition[p].numblocks] = b]
    BY <1>9 DEF Cs2ReadUnFilteredSectorFails
  <2> DEFINE q == [partition[p] EXCEPT !.block[partition[p].numblocks] = b]
  <2>2. partition' = [partition EXCEPT ![p] = q] /\ q.numblocks = partition[p].numblocks
    BY <2>1, <1>2 DEF Partition
  <2> HIDE DEF q
  <2> QED
    BY <1>4, <1>5, <2>2
<1> QED
  BY <1>6, <1>7, <1>8, <1>9

\* A transfer starts within its partition.
LEMMA WithinStarted ==
    ASSUME Intact, Intact', Disciplined, NEW p \in Selector, NEW n \in 1 .. MaxBlocks,
           \/ Cs2PutSectorData(p, n)
           \/ \E off \in Slot : \/ Cs2GetSectorData(p, off, n)
                                \/ Cs2GetThenDeleteSectorData(p, off, n)
    PROVE  Within'
<1>1. CASE Cs2PutSectorData(p, n)
  <2>1. /\ trans' = Transfer("PUTSECTOR", p, 0, partition[p].numblocks + n,
                             partition[p].numblocks)
        /\ partitionnum' = p
        /\ \E new : partition' = [partition EXCEPT
                      ![p] = WithSectors(partition[p], n, new, n * SectorSize)]
    BY <1>1 DEF Cs2PutSectorData
  <2>2. /\ trans'.part = p /\ trans'.pos = 0
        /\ trans'.total = partition[p].numblocks + n
    BY <2>1 DEF Transfer, Idle
  <2>3. partition'[p].numblocks = partition[p].numblocks + n
    BY <2>1 DEF Intact, Keeps, Holds, WithSectors
  <2>4. partition[p].numblocks + n \in Nat
    BY PartitionTyped, BlocksCounted DEF Intact, Keeps, Holds
  <2>5. trans'.pos + trans'.total <= partition'[trans'.part].numblocks
    BY <2>2, <2>3, <2>4
  <2> QED
    BY <2>1, <2>2, <2>5 DEF Within, Numbered, TransferWithin
<1>2. ASSUME NEW off \in Slot,
             Cs2GetSectorData(p, off, n) \/ Cs2GetThenDeleteSectorData(p, off, n)
      PROVE  Within'
  <2>1. /\ trans'.part = p /\ trans'.pos = off /\ trans'.total = n
        /\ trans'.type = "GETDELSECTOR" \/ partitionnum' = p
        /\ off + n <= partition[p].numblocks /\ partition' = partition
    BY <1>2 DEF Cs2GetSectorData, Cs2GetThenDeleteSectorData, Transfer, Idle, InRange
  <2> QED
    BY <2>1 DEF Within, Numbered, TransferWithin
<1> QED
  BY <1>1, <1>2

\* The data port moves a transfer towards its end only.
LEMMA WithinPort ==
    ASSUME Intact, Intact', Within, Cs2ReadLong \/ Cs2WriteLong \/ Cs2EndDataTransfer
    PROVE  Within'
<1>1. CASE Cs2EndDataTransfer
  BY <1>1, WithinEnded DEF Cs2EndDataTransfer
<1>2. CASE DeleteTransferred
  BY <1>2, WithinEnded DEF DeleteTransferred
<1>3. ASSUME NEW slot, Advanced(slot),
             UNCHANGED <<bufferVars, partition, partitionnum, session>>
      PROVE  Within'
  <2>1. /\ trans'.type = trans.type /\ trans'.part = trans.part
        /\ trans'.pos = trans.pos /\ trans'.total = trans.total
    BY <1>3 DEF Advanced, Intact, Keeps, Moving, TransOk
  <2>2. ASSUME Transferring
        PROVE  partition[trans.part].numblocks <= partition'[trans.part].numblocks
    <3>1. partition[trans.part] \in Partition
      BY <2>2 DEF Transferring, Intact, Keeps, Moving, TransOk, Holds
    <3> QED
      BY <3>1, <1>3, PartitionTyped, BlocksCounted
  <2> QED
    BY <1>3, <2>1, <2>2, WithinKept
<1> QED
  BY <1>1, <1>2, <1>3 DEF Cs2ReadLong, Cs2WriteLong

\* A disciplined program's commands leave the partition of its transfer alone.
LEMMA WithinCommands ==
    ASSUME Intact, Intact', Disciplined, Within,
           NEW p \in Selector, NEW off \in Slot, NEW n \in 1 .. MaxBlocks,
           NEW dest \in Selector,
           \/ Cs2DeleteSectorData(p, off, n)
           \/ Cs2CopySectorData(p, off, n, dest)
           \/ Cs2MoveSectorData(p, off, n, dest)
    PROVE  Within'
<1>1. trans' = trans /\ partitionnum' = partitionnum /\ session' = session
  BY DEF Cs2DeleteSectorData, Cs2CopySectorData, Cs2MoveSectorData, transferVars
<1>2. /\ partition \in [Selector -> Partition] /\ n \in Nat
      /\ \A r \in Selector : partition[r].numblocks \in Nat
  BY PartitionTyped, BlocksCounted DEF Intact, Keeps, Holds
<1>3. Transferring => trans.part \in Selector
  BY DEF Intact, Keeps, Moving, TransOk, Transferring
<1>4. SUFFICES ASSUME Transferring
               PROVE  partition[trans.part].numblocks <= partition'[trans.part].numblocks
  BY <1>1, WithinKept
<1>5. CASE Cs2DeleteSectorData(p, off, n)
  <2>1. /\ trans.part # p
        /\ \E q : partition' = [partition EXCEPT ![p] = q]
    BY <1>4, <1>5 DEF Cs2DeleteSectorData, MayTakeFrom
  <2> QED
    BY <2>1, <1>2, <1>3, <1>4
<1>6. CASE Cs2CopySectorData(p, off, n, dest)
  <2>1. \E new, size : partition' = [partition EXCEPT
                         ![dest] = WithSectors(partition[dest], n, new, size)]
    BY <1>6 DEF Cs2CopySectorData
  <2> QED
    BY <2>1, <1>2, <1>3, <1>4 DEF WithSectors
<1>7. CASE Cs2MoveSectorData(p, off, n, dest)
  <2>1. /\ trans.part # p /\ p # dest
        /\ \E q, new, size : partition' = [partition EXCEPT
               ![p] = q, ![dest] = WithSectors(partition[dest], n, new, size)]
    <3>1. trans.part # p /\ p # dest
      BY <1>4, <1>7 DEF Cs2MoveSectorData, MayMove, MayTakeFrom
    <3>2. \E q, new, size : partition' = [partition EXCEPT
               ![p] = q, ![dest] = WithSectors(partition[dest], n, new, size)]
      BY <3>1, <1>7 DEF Cs2MoveSectorData
    <3> QED
      BY <3>1, <3>2
  <2> QED
    BY <2>1, <1>2, <1>3, <1>4 DEF WithSectors
<1> QED
  BY <1>5, <1>6, <1>7

\* So do its resets, or they end the transfer.
LEMMA WithinResets ==
    ASSUME Intact, Intact', Disciplined, Within,
           \/ \E p \in Selector : Cs2ResetSelector(p)
           \/ Cs2ResetPartitions
           \/ \E software \in BOOLEAN : Cs2InitializeCDSystem(software)
           \/ Cs2AbortFile
    PROVE  Within'
<1>1. CASE trans' = Idle
  BY <1>1, WithinEnded
<1>2. ASSUME NEW p \in Selector, Cs2ResetSelector(p), trans' # Idle PROVE Within'
  <2>1. /\ trans' = trans /\ partitionnum # p
        /\ partitionnum' = partitionnum /\ session' = session
        /\ MayReset(p) /\ \E q : partition' = [partition EXCEPT ![p] = q]
    BY <1>2 DEF Cs2ResetSelector
  <2>2. ASSUME Transferring
        PROVE  partition[trans.part].numblocks <= partition'[trans.part].numblocks
    <3>1. trans.part # p
      BY <2>1, <2>2 DEF MayReset, Within, Numbered
    <3>2. trans.part \in Selector /\ partition \in [Selector -> Partition]
      BY <2>2 DEF Intact, Keeps, Moving, TransOk, Transferring, Holds
    <3>3. partition'[trans.part] = partition[trans.part]
      BY <2>1, <3>1, <3>2
    <3>4. partition[trans.part].numblocks \in Nat
      BY <3>2, PartitionTyped, BlocksCounted
    <3> QED
      BY <3>3, <3>4
  <2> QED
    BY <2>1, <2>2, WithinKept
<1> QED
  BY <1>1, <1>2 DEF Cs2ResetPartitions, Cs2InitializeCDSystem, Cs2AbortFile

\* A disciplined program finds all that the partitions count.
LEMMA IntactHolds ==
    ASSUME Disciplined
    PROVE  Spec => []Intact
<1>1. Disciplined = TRUE
  BY ModeAssumption
<1>2. IInv => Intact
  BY <1>1 DEF IInv, Intact
<1> QED
  BY <1>2, Invariance, PTL

\* Within is an invariant of a program that keeps the protocol.
LEMMA WithinHolds ==
    ASSUME Disciplined
    PROVE  Spec => []Within
<1>1. Init => Within
  BY WithinEnded DEF Init, Within, Numbered, TransferWithin, Transferring, Idle
<1>2. Intact /\ Intact' /\ Within /\ [Next]_vars => Within'
  <2>1. SUFFICES ASSUME Intact, Intact', Within, [Next]_vars PROVE Within'
    OBVIOUS
  <2>2. CASE UNCHANGED vars
    <3>1. Transferring => partition[trans.part] \in Partition
      BY <2>1 DEF Intact, Keeps, Moving, TransOk, Transferring, Holds
    <3>2. Transferring => partition[trans.part].numblocks <= partition[trans.part].numblocks
      BY <3>1, PartitionTyped, BlocksCounted
    <3> QED
      BY <2>1, <2>2, <3>2, WithinKept DEF vars, transferVars
  <2>3. ASSUME NEW p \in Selector,
               \/ Cs2FilterData(p) \/ Cs2ReadFileSystem(p)
               \/ Cs2ReadUnFilteredSectorFails(p)
        PROVE  Within'
    BY <2>1, <2>3, WithinDrive
  <2>4. ASSUME NEW p \in Selector, NEW n \in 1 .. MaxBlocks,
               \/ Cs2PutSectorData(p, n)
               \/ \E off \in Slot : \/ Cs2GetSectorData(p, off, n)
                                    \/ Cs2GetThenDeleteSectorData(p, off, n)
        PROVE  Within'
    BY <2>1, <2>4, WithinStarted
  <2>5. ASSUME NEW p \in Selector, NEW n \in 1 .. MaxBlocks, NEW off \in Slot,
               Cs2DeleteSectorData(p, off, n)
        PROVE  Within'
    BY <2>1, <2>5, WithinCommands
  <2>6. ASSUME NEW p \in Selector, NEW n \in 1 .. MaxBlocks, NEW off \in Slot,
               NEW dest \in Selector,
               Cs2CopySectorData(p, off, n, dest) \/ Cs2MoveSectorData(p, off, n, dest)
        PROVE  Within'
    BY <2>1, <2>6, WithinCommands
  <2>7. ASSUME Cs2ReadLong \/ Cs2WriteLong \/ Cs2EndDataTransfer PROVE Within'
    BY <2>1, <2>7, WithinPort
  <2>8. ASSUME \/ \E p \in Selector : Cs2ResetSelector(p)
               \/ Cs2ResetPartitions
               \/ \E software \in BOOLEAN : Cs2InitializeCDSystem(software)
               \/ Cs2AbortFile
        PROVE  Within'
    BY <2>1, <2>8, WithinResets
  <2> QED
    BY <2>1, <2>2, <2>3, <2>4, <2>5, <2>6, <2>7, <2>8, Zenon DEF Next
<1> QED
  BY <1>1, <1>2, IntactHolds, PTL DEF Spec

\* The slots of an open transfer are sectors of its partition, if the program
\* keeps the protocol and moves none within one partition: Cs2ReadLong reads what Cs2GetSectorData was asked for, and
\* DeleteTransferred deletes it, though the drive, the other commands and resets of
\* other partitions go on (Cs2GetSectorData, Cs2GetThenDeleteSectorData,
\* Cs2PutSectorData, Cs2ResetSelector).
THEOREM TransferWithinHolds ==
    ASSUME Disciplined
    PROVE  Spec => []TransferWithin
<1>1. Within => TransferWithin
  BY DEF Within
<1> QED
  BY <1>1, WithinHolds, PTL
-----------------------------------------------------------------------------
(* The store, and the blocks that are its sectors.                         *)

\* Behind the sectors a partition counts there is nothing.
Compact(q) == \A i \in Slot : q.numblocks <= i => q.block[i] = NULL

\* The partitions P are compact and the blocks u are all theirs.
Tidy(u, P) ==
    /\ \A p \in Selector : Compact(P[p])
    /\ \A x \in u : \E p \in Selector : x \in Entries(P[p].block)

\* Partition p becomes q: a block of v is in q, or another partition has it.
LEMMA TidyReplaced ==
    ASSUME NEW u, NEW v, NEW P \in [Selector -> Partition], Tidy(u, P),
           NEW p \in Selector, NEW q, Compact(q),
           \A x \in v : x \in Entries(q.block) \/ (x \in u /\ x \notin Entries(P[p].block))
    PROVE  Tidy(v, [P EXCEPT ![p] = q])
<1> DEFINE Q == [P EXCEPT ![p] = q]
<1>1. Q[p] = q /\ \A r \in Selector \ {p} : Q[r] = P[r]
  OBVIOUS
<1> HIDE DEF Q
<1>2. \A r \in Selector : Compact(Q[r])
  BY <1>1 DEF Tidy
<1>3. ASSUME NEW x \in v PROVE \E r \in Selector : x \in Entries(Q[r].block)
  <2>1. CASE x \in Entries(q.block)
    BY <2>1, <1>1
  <2>2. CASE x \in u /\ x \notin Entries(P[p].block)
    <3>1. PICK r \in Selector : x \in Entries(P[r].block)
      BY <2>2 DEF Tidy
    <3> QED
      BY <3>1, <2>2, <1>1
  <2> QED
    BY <2>1, <2>2
<1> QED
  BY <1>2, <1>3 DEF Tidy, Q

\* The full slots of a compact partition are those it counts.
LEMMA FullCounted ==
    ASSUME NEW q \in Partition, AllThere(q), Compact(q)
    PROVE  /\ Full(q.block) = 0 .. q.numblocks - 1
           /\ Cardinality(Full(q.block)) = q.numblocks
<1>1. /\ q.block \in Slots /\ q.numblocks \in Nat /\ q.numblocks <= MaxBlocks
      /\ MaxBlocks \in Nat
  BY PartitionTyped, BlocksCounted
<1>2. Full(q.block) = {i \in Slot : q.block[i] # NULL}
  BY <1>1 DEF Full, Slots
<1>3. \A i \in 0 .. q.numblocks - 1 : i \in Slot /\ i < q.numblocks
  BY <1>1 DEF Slot
<1>4. \A i \in Slot : i \notin 0 .. q.numblocks - 1 => q.numblocks <= i
  BY <1>1 DEF Slot
<1>5. Full(q.block) = 0 .. q.numblocks - 1
  BY <1>2, <1>3, <1>4 DEF AllThere, Compact
<1> QED
  BY <1>1, <1>5, FirstCounted

\* Partition p without its slots R, counting what is left.
LEMMA ShrunkTidy ==
    ASSUME NEW u, NEW v, NEW P \in [Selector -> Partition], Tidy(u, P),
           NEW p \in Selector, NEW R, NEW n \in Nat, NEW size,
           n = Cardinality(Full(P[p].block) \ R),
           v \subseteq u \ {P[p].block[i] : i \in R \cap Full(P[p].block)}
    PROVE  Tidy(v, [P EXCEPT ![p] = WithoutSectors(P[p], R, n, size)])
<1> DEFINE b == P[p].block
           c == Without(b, R)
           w == WithoutSectors(P[p], R, n, size)
<1>1. b \in Slots
  BY PartitionTyped
<1>2. /\ c \in Slots /\ Full(c) = Full(b) \ R
      /\ Entries(c) = {b[i] : i \in Full(b) \ R}
  BY <1>1, Removed
<1>3. /\ Entries(Cs2SortBlocks(c)) = Entries(c)
      /\ \A k \in Slot : k < Cardinality(Full(c)) <=> Cs2SortBlocks(c)[k] # NULL
  BY <1>2, Sorted
<1>4. w.block = Cs2SortBlocks(c) /\ w.numblocks = n
  BY DEF WithoutSectors
<1>5. Full(b) = {i \in Slot : b[i] # NULL}
  BY <1>1 DEF Full, Slots
<1> HIDE DEF c, w
<1>6. Compact(w)
  <2>1. SUFFICES ASSUME NEW k \in Slot, n <= k PROVE Cs2SortBlocks(c)[k] = NULL
    BY <1>4 DEF Compact
  <2>2. ~(k < Cardinality(Full(c)))
    BY <2>1, <1>2, BlocksCounted DEF Slot
  <2> QED
    BY <2>2, <1>3
<1>7. ASSUME NEW x \in v, x \in Entries(b) PROVE x \in Entries(w.block)
  <2>1. PICK i \in Slot : x = b[i] /\ b[i] # NULL
    BY <1>7 DEF Entries
  <2>2. i \in Full(b) /\ i \notin R
    BY <2>1, <1>5, <1>7
  <2> QED
    BY <2>1, <2>2, <1>2, <1>3, <1>4
<1>8. \A x \in v : x \in Entries(w.block) \/ (x \in u /\ x \notin Entries(b))
  BY <1>7
<1> HIDE DEF b
<1> QED
  BY <1>6, <1>8, TidyReplaced DEF w, b

\* Partition p with n sectors more.
LEMMA GrownTidy ==
    ASSUME NEW u, NEW v, NEW P \in [Selector -> Partition], Tidy(u, P),
           NEW p \in Selector, NEW n \in Nat, P[p].numblocks + n <= MaxBlocks,
           NEW new \in [0 .. n - 1 -> Block], NEW size,
           v \subseteq u \cup Range(new)
    PROVE  Tidy(v, [P EXCEPT ![p] = WithSectors(P[p], n, new, size)])
<1> DEFINE b == P[p].block
           s == P[p].numblocks
           T == s .. s + n - 1
           w == WithSectors(P[p], n, new, size)
<1>1. b \in Slots /\ s \in Nat /\ MaxBlocks \in Nat /\ Compact(P[p])
  BY PartitionTyped, BlocksCounted DEF Tidy
<1>2. /\ \A i \in Slot : w.block[i] = IF i \in T THEN new[i - s] ELSE b[i]
      /\ w.numblocks = s + n
  BY DEF WithSectors, NextSlots
<1>3. \A i \in Slot : s + n <= i => s <= i /\ i \notin T
  BY <1>1 DEF Slot
<1>4. \A i \in Slot : ~(s <= i) => i \notin T
  BY <1>1 DEF Slot
<1>5. \A k \in 0 .. n - 1 : s + k \in Slot /\ s + k \in T /\ (s + k) - s = k
  BY <1>1 DEF Slot
<1>6. \A k \in 0 .. n - 1 : new[k] # NULL
  BY BlocksCounted
<1> HIDE DEF w, T, b, s
<1>7. Compact(w)
  BY <1>1, <1>2, <1>3 DEF Compact, b, s
<1>8. ASSUME NEW x \in Entries(b) PROVE x \in Entries(w.block)
  <2>1. PICK i \in Slot : x = b[i] /\ b[i] # NULL
    BY <1>8 DEF Entries
  <2>2. ~(s <= i)
    BY <2>1, <1>1 DEF Compact, b, s
  <2>3. w.block[i] = b[i]
    BY <2>2, <1>2, <1>4
  <2> QED
    BY <2>1, <2>3 DEF Entries
<1>9. ASSUME NEW x \in Range(new) PROVE x \in Entries(w.block)
  <2>1. PICK k \in 0 .. n - 1 : x = new[k]
    BY <1>9 DEF Range
  <2>2. w.block[s + k] = new[k]
    BY <1>2, <1>5
  <2> QED
    BY <2>1, <2>2, <1>5, <1>6 DEF Entries
<1>10. \A x \in v : x \in Entries(w.block) \/ (x \in u /\ x \notin Entries(b))
  BY <1>8, <1>9
<1> QED
  BY <1>7, <1>10, TidyReplaced DEF w, b

---------------------------------------------------------------------------
(***************************************************************************)
(* The actions.                                                            *)
(***************************************************************************)
LEMMA PartitionsTyped ==
    ASSUME Intact
    PROVE  /\ partition \in [Selector -> Partition] /\ MaxBlocks \in Nat
           /\ \A p \in Selector : /\ partition[p] \in Partition /\ AllThere(partition[p])
                                  /\ partition[p].numblocks \in Nat
                                  /\ partition[p].numblocks <= MaxBlocks
                                  /\ partition[p].block \in Slots
<1>1. /\ partition \in [Selector -> Partition] /\ MaxBlocks \in Nat
      /\ \A p \in Selector : partition[p] \in Partition /\ AllThere(partition[p])
  BY BlocksCounted DEF Intact, Keeps, Holds, Present
<1>2. ASSUME NEW q \in Partition
      PROVE  q.numblocks \in Nat /\ q.numblocks <= MaxBlocks /\ q.block \in Slots
  <2>1. q.numblocks \in 0 .. MaxBlocks /\ q.block \in Slots
    BY PartitionTyped
  <2> QED
    BY <1>1, <2>1
<1> QED
  BY <1>1, <1>2

\* What the commands on a range of sectors calculate with.
LEMMA RangeKnown ==
    ASSUME Intact, NEW p \in Selector, NEW off \in Slot, NEW n \in 1 .. MaxBlocks
    PROVE  /\ off \in Nat /\ n \in Nat /\ n > 0 /\ MaxBlocks \in Nat
           /\ partition[p].size \in Int /\ n * SectorSize \in Int
<1>1. /\ off \in Nat /\ n \in Nat /\ MaxBlocks \in Nat /\ partition[p].size \in Int
      /\ n * SectorSize \in Int
  BY RangeTyped DEF Intact
<1> QED
  BY <1>1

\* The store while nothing touches it.
LEMMA TidyKept ==
    ASSUME Tidy(used, partition), used' = used, partition' = partition
    PROVE  Tidy(used', partition')
OBVIOUS

\* The drive finds no block: the slot it clears is empty.
LEMMA EmptiedTidy ==
    ASSUME Intact, Tidy(used, partition), NEW p \in Selector, NoBlockLeft(p)
    PROVE  Tidy(used', partition')
<1> DEFINE b == partition[p].block
           s == partition[p].numblocks
           c == Without(b, {s})
           q == [partition[p] EXCEPT !.block = c]
<1>1. /\ partition \in [Selector -> Partition] /\ b \in Slots /\ s \in Nat
      /\ partition[p] \in Partition /\ Compact(partition[p])
  BY PartitionsTyped DEF Tidy
<1>2. used' = used /\ partition' = [partition EXCEPT ![p] = q]
  BY DEF NoBlockLeft
<1>3. q.block = c /\ q.numblocks = s
  BY <1>1 DEF Partition
<1>4. \A i \in Slot : c[i] = IF i = s THEN NULL ELSE b[i]
  BY <1>1 DEF Without, Slots
<1>5. s \in Slot => b[s] = NULL
  BY <1>1 DEF Compact
<1>6. \A i \in Slot : c[i] = b[i]
  BY <1>4, <1>5
<1> HIDE DEF q, c
<1>7. Compact(q) /\ Entries(q.block) = Entries(b)
  BY <1>1, <1>3, <1>6 DEF Compact, Entries
<1>8. Tidy(used, [partition EXCEPT ![p] = q])
  BY <1>1, <1>7, TidyReplaced
<1> QED
  BY <1>2, <1>8

\* New blocks behind the sectors of p.
LEMMA NewTidy ==
    ASSUME Intact, Tidy(used, partition), NEW p \in Selector, NEW n \in Nat,
           NEW new \in Injection(0 .. n - 1, Free), Cs2AllocateBlocks(Range(new)),
           NEW size \in Int,
           partition' = [partition EXCEPT
             ![p] = WithSectors(partition[p], n, new, size)]
    PROVE  Tidy(used', partition')
<1>1. partition[p].numblocks + n <= MaxBlocks
  BY NewBlocks DEF Intact, Keeps
<1>2. new \in [0 .. n - 1 -> Block]
  BY DEF Injection, Free
<1>3. used' = used \cup Range(new)
  BY DEF Cs2AllocateBlocks
<1> QED
  BY <1>1, <1>2, <1>3, PartitionsTyped, GrownTidy

\* A sector that the drive files comes behind the counted ones and is
\* counted.
LEMMA FilterTidy ==
    ASSUME Intact, Tidy(used, partition), NEW p \in Selector, Cs2FilterData(p)
    PROVE  Tidy(used', partition')
<1>1. CASE NoBlockLeft(p)
  BY <1>1, EmptiedTidy
<1>2. ASSUME NEW b \in Free,
             Cs2AllocateBlocks({b}),
             partition' = [partition EXCEPT
               ![p] = WithSectors(partition[p], 1, [k \in {0} |-> b],
                                  SizeOf(partition[p]) + SectorSize)]
      PROVE  Tidy(used', partition')
  <2> DEFINE new == [k \in {0} |-> b]
  <2>1. 0 .. 1 - 1 = {0}
    OBVIOUS
  <2>2. new \in [{0} -> Block] /\ Range(new) = {b}
    BY DEF Range, Free
  <2>3. new \in [0 .. 1 - 1 -> Block]
    BY <2>1, <2>2
  <2>4. used' = used \cup Range(new)
    BY <1>2, <2>2 DEF Cs2AllocateBlocks
  <2>5. partition[p].numblocks + 1 <= MaxBlocks
    <3> DEFINE s == partition[p].numblocks
    <3>1. s \in Nat /\ MaxBlocks \in Nat /\ s < MaxBlocks
      BY PartitionsTyped DEF Cs2FilterData
    <3> HIDE DEF s
    <3>2. s + 1 <= MaxBlocks
      BY <3>1
    <3> QED
      BY <3>2 DEF s
  <2> HIDE DEF new
  <2> QED
    BY <1>2, <2>3, <2>4, <2>5, PartitionsTyped, GrownTidy DEF new
<1> QED
  BY <1>1, <1>2 DEF Cs2FilterData

\* The slot a directory passed through is empty, and the sort moves nothing.
LEMMA FileSystemTidy ==
    ASSUME Intact, Tidy(used, partition), NEW p \in Selector, Cs2ReadFileSystem(p)
    PROVE  Tidy(used', partition')
<1> DEFINE q == partition[p]
           R == {q.numblocks}
<1>1. CASE NoBlockLeft(p)
  BY <1>1, EmptiedTidy
<1>2. CASE UNCHANGED bufferVars
           /\ partition' = [partition EXCEPT
                ![p] = WithoutSectors(q, R, q.numblocks, SizeOf(q))]
  <2>1. q \in Partition /\ AllThere(q) /\ Compact(q) /\ q.numblocks \in Nat
    BY PartitionsTyped DEF Tidy
  <2>2. /\ Full(q.block) = 0 .. q.numblocks - 1
        /\ Cardinality(Full(q.block)) = q.numblocks
    BY <2>1, FullCounted
  <2>3. R \cap Full(q.block) = {}
    BY <2>1, <2>2
  <2>4. Full(q.block) \ R = Full(q.block)
    BY <2>3
  <2>5. used' \subseteq used \ {q.block[i] : i \in R \cap Full(q.block)}
    BY <1>2, <2>3 DEF bufferVars
  <2> HIDE DEF R
  <2> QED
    BY <1>2, <2>1, <2>2, <2>4, <2>5, PartitionsTyped, ShrunkTidy
<1> QED
  BY <1>1, <1>2 DEF Cs2ReadFileSystem

\* Slots a .. a + n - 1, which p counts, are cleared.
LEMMA RangeLeft ==
    ASSUME NEW q \in Partition, AllThere(q), Compact(q),
           NEW a \in Nat, NEW n \in Nat, a + n <= q.numblocks
    PROVE  Cardinality(Full(q.block) \ (a .. a + n - 1)) = q.numblocks - n
<1> DEFINE R == a .. a + n - 1
           F == Full(q.block)
<1>1. F = 0 .. q.numblocks - 1 /\ Cardinality(F) = q.numblocks /\ q.numblocks \in Nat
  <2>1. F = 0 .. q.numblocks - 1 /\ Cardinality(F) = q.numblocks
    BY FullCounted
  <2>2. q.numblocks \in Nat
    BY PartitionTyped, BlocksCounted
  <2> QED
    BY <2>1, <2>2
<1>2. IsFiniteSet(F)
  BY PartitionTyped, FullFinite
<1>3. F \cap R = R
  BY <1>1
<1>4. Cardinality(R) = n
  BY IntervalCounted
<1> HIDE DEF R, F
<1>5. Cardinality(F \ R) = Cardinality(F) - Cardinality(F \cap R)
  BY <1>2, FS_Difference
<1> QED
  BY <1>1, <1>3, <1>4, <1>5 DEF R, F

\* Cutting a range out of the counted sectors leaves nothing behind them.
LEMMA RangeTidy ==
    ASSUME Intact, Tidy(used, partition), NEW p \in Selector,
           NEW a \in Nat, NEW n \in Nat, a + n <= partition[p].numblocks,
           Cs2FreeBlocks(partition[p].block, a .. a + n - 1), NEW size,
           partition' = [partition EXCEPT
             ![p] = WithoutSectors(partition[p], a .. a + n - 1,
                                   partition[p].numblocks - n, size)]
    PROVE  Tidy(used', partition')
<1> DEFINE R == a .. a + n - 1
           left == partition[p].numblocks - n
<1>1. /\ partition[p] \in Partition /\ AllThere(partition[p]) /\ Compact(partition[p])
      /\ partition[p].numblocks \in Nat
  BY PartitionsTyped DEF Tidy
<1>2. Cardinality(Full(partition[p].block) \ R) = left
  BY <1>1, RangeLeft
<1>3. left \in Nat
  BY <1>1
<1>4. used' \subseteq used \ {partition[p].block[i] : i \in R \cap Full(partition[p].block)}
  BY DEF Cs2FreeBlocks
<1>5. partition' = [partition EXCEPT ![p] = WithoutSectors(partition[p], R, left, size)]
  OBVIOUS
<1>6. partition \in [Selector -> Partition]
  BY PartitionsTyped
<1> HIDE DEF R, left
<1>7. Tidy(used', [partition EXCEPT ![p] = WithoutSectors(partition[p], R, left, size)])
  BY <1>2, <1>3, <1>4, <1>6, ShrunkTidy
<1> QED
  BY <1>5, <1>7

\* A get-then-delete that ends deletes sectors of its partition, because its
\* range has stayed within it (Within).
LEMMA DeletedTidy ==
    ASSUME Intact, Within, Tidy(used, partition), session,
           trans.type = "GETDELSECTOR", DeleteTransferred
    PROVE  Tidy(used', partition')
<1> DEFINE p == trans.part
           q == partition[p]
<1>1. p \in Selector /\ trans.pos \in Nat /\ trans.total \in Nat
  BY BlocksCounted DEF Intact, Keeps, Moving, TransOk
<1>2. trans.pos + trans.total <= q.numblocks
  BY DEF Within, TransferWithin, Transferring
<1>3. q.numblocks \in Nat
  BY <1>1, PartitionsTyped
<1>4. NumblocksAfter(q.numblocks, trans.total) = q.numblocks - trans.total
  BY <1>1, <1>2, <1>3 DEF NumblocksAfter
<1>5. Cs2FreeBlocks(q.block, trans.pos .. trans.pos + trans.total - 1)
      /\ partition' = [partition EXCEPT
           ![p] = WithoutSectors(q, trans.pos .. trans.pos + trans.total - 1,
                                 q.numblocks - trans.total, q.size - trans.cdwnum)]
  BY <1>4 DEF DeleteTransferred
<1> HIDE DEF p, q
<1> QED
  BY <1>1, <1>2, <1>5, RangeTidy DEF q

\* The data port loses no block.
LEMMA PortTidy ==
    ASSUME Intact, Within, Disciplined, Tidy(used, partition),
           Cs2ReadLong \/ Cs2WriteLong \/ Cs2EndDataTransfer
    PROVE  Tidy(used', partition')
<1>1. session
  BY DEF Cs2ReadLong, Cs2WriteLong, Cs2EndDataTransfer, MayAccess
<1>2. CASE trans.type = "GETDELSECTOR" /\ DeleteTransferred
  BY <1>1, <1>2, DeletedTidy
<1>3. CASE UNCHANGED <<bufferVars, partition>>
  BY <1>3, TidyKept DEF bufferVars
<1> QED
  BY <1>2, <1>3 DEF Cs2ReadLong, Cs2WriteLong, Cs2EndDataTransfer

\* Putting, deleting and copying sectors lose no block.
LEMMA CommandsTidy ==
    ASSUME Intact, Tidy(used, partition), NEW p \in Selector, NEW n \in 1 .. MaxBlocks,
           \/ Cs2PutSectorData(p, n)
           \/ \E off \in Slot : \/ Cs2DeleteSectorData(p, off, n)
                                \/ \E dest \in Selector : Cs2CopySectorData(p, off, n, dest)
    PROVE  Tidy(used', partition')
<1>1. n \in Nat /\ n * SectorSize \in Int /\ \A r \in Selector : partition[r].size \in Int
  BY SizesTyped, BlocksCounted, PartitionsTyped DEF Partition
<1>2. CASE Cs2PutSectorData(p, n)
  <2>1. PICK new \in Injection(0 .. n - 1, Free) :
          /\ Cs2AllocateBlocks(Range(new))
          /\ partition' = [partition EXCEPT
               ![p] = WithSectors(partition[p], n, new, n * SectorSize)]
    BY <1>2 DEF Cs2PutSectorData
  <2> QED
    BY <2>1, <1>1, NewTidy
<1>3. ASSUME NEW off \in Slot, Cs2DeleteSectorData(p, off, n)
      PROVE  Tidy(used', partition')
  <2>1. off \in Nat
    BY BlocksCounted DEF Slot
  <2>2. PICK size \in Sizes :
        /\ off + n <= partition[p].numblocks
        /\ Cs2FreeBlocks(partition[p].block, off .. off + n - 1)
        /\ partition' = [partition EXCEPT
             ![p] = WithoutSectors(partition[p], off .. off + n - 1,
                                   partition[p].numblocks - n, size)]
    BY <1>3 DEF Cs2DeleteSectorData, InRange
  <2> QED
    BY <2>1, <2>2, <1>1, RangeTidy
<1>4. ASSUME NEW off \in Slot, NEW dest \in Selector, Cs2CopySectorData(p, off, n, dest)
      PROVE  Tidy(used', partition')
  <2> DEFINE size == partition[dest].size + n * SectorSize
  <2>1. PICK new \in Injection(0 .. n - 1, Free) :
          /\ Cs2AllocateBlocks(Range(new))
          /\ partition' = [partition EXCEPT
               ![dest] = WithSectors(partition[dest], n, new, size)]
    BY <1>4 DEF Cs2CopySectorData
  <2>2. size \in Int
    BY <1>1
  <2> HIDE DEF size
  <2> QED
    BY <2>1, <2>2, <1>1, NewTidy
<1> QED
  BY <1>2, <1>3, <1>4

\* What a disciplined program's move does.
LEMMA MoveIs ==
    ASSUME Disciplined, NEW p \in Selector, NEW off \in Slot,
           NEW n \in 1 .. MaxBlocks, NEW dest \in Selector,
           Cs2MoveSectorData(p, off, n, dest)
    PROVE  /\ MayTakeFrom(p) /\ p # dest /\ off + n <= partition[p].numblocks
           /\ UNCHANGED <<bufferVars, transferVars>> /\ used' = used
           /\ partition' = [partition EXCEPT
                ![p] = WithoutSectors(partition[p], off .. off + n - 1,
                                      partition[p].numblocks - n,
                                      partition[p].size - n * SectorSize),
                ![dest] = WithSectors(partition[dest], n,
                                      [k \in 0 .. n - 1 |-> partition[p].block[off + k]],
                                      partition[dest].size + n * SectorSize)]
<1>1. p # dest
  BY DEF Cs2MoveSectorData, MayMove
<1>2. MayTakeFrom(p) /\ off + n <= partition[p].numblocks
  BY DEF Cs2MoveSectorData, MayMove, InRange
<1>3. UNCHANGED <<bufferVars, transferVars>> /\ used' = used
  BY DEF Cs2MoveSectorData, bufferVars
<1> QED
  BY <1>1, <1>2, <1>3 DEF Cs2MoveSectorData

\* The sectors moved leave p and come to dest.
LEMMA MoveTidy ==
    ASSUME Disciplined, Intact, Tidy(used, partition), NEW p \in Selector, NEW off \in Slot,
           NEW n \in 1 .. MaxBlocks, NEW dest \in Selector,
           Cs2MoveSectorData(p, off, n, dest)
    PROVE  Tidy(used', partition')
<1> DEFINE q == partition[p]
           r == partition[dest]
           b == q.block
           moved == [k \in 0 .. n - 1 |-> b[off + k]]
           R == off .. off + n - 1
           left == q.numblocks - n
           less == q.size - n * SectorSize
           more == r.size + n * SectorSize
           w == WithoutSectors(q, R, left, less)
           P1 == [partition EXCEPT ![p] = w]
           gone == {b[i] : i \in R \cap Full(b)}
<1>1. /\ off \in Nat /\ n \in Nat /\ MaxBlocks \in Nat
      /\ partition \in [Selector -> Partition]
      /\ q \in Partition /\ AllThere(q) /\ Compact(q) /\ q.numblocks \in Nat
      /\ q.numblocks <= MaxBlocks /\ b \in Slots /\ r.numblocks \in Nat
      /\ q.size \in Int /\ n * SectorSize \in Int /\ Distinct(b)
  <2>1. Distinct(b)
    BY DEF Intact, Keeps, Holds
  <2>2. /\ off \in Nat /\ n \in Nat /\ MaxBlocks \in Nat /\ q.size \in Int
        /\ n * SectorSize \in Int
    BY RangeKnown
  <2>3. /\ partition \in [Selector -> Partition]
        /\ q \in Partition /\ AllThere(q) /\ q.numblocks \in Nat
        /\ q.numblocks <= MaxBlocks /\ b \in Slots /\ r.numblocks \in Nat
    BY PartitionsTyped
  <2>4. Compact(q)
    BY DEF Tidy
  <2> QED
    BY <2>1, <2>2, <2>3, <2>4
<1>2. /\ p # dest /\ off + n <= q.numblocks /\ used' = used
      /\ partition' = [P1 EXCEPT ![dest] = WithSectors(r, n, moved, more)]
  BY MoveIs
<1>3. left \in Nat /\ left \in 0 .. MaxBlocks /\ less \in Int
  BY <1>1, <1>2
<1>4. Cardinality(Full(b) \ R) = left
  <2> HIDE DEF q
  <2> QED
    BY <1>1, <1>2, RangeLeft
<1>5. w \in Partition
  <2>1. left <= Cardinality(Full(q.block) \ R)
    BY <1>3, <1>4
  <2> HIDE DEF q, left, less, R
  <2> QED
    BY <1>1, <1>3, <2>1, Shrunk
<1>6. P1 \in [Selector -> Partition] /\ P1[dest] = r
  <2> HIDE DEF w
  <2> QED
    BY <1>1, <1>2, <1>5
<1>7. Tidy(used \ gone, P1)
  <2> HIDE DEF left, less, R
  <2> QED
    BY <1>1, <1>3, <1>4, ShrunkTidy
<1>8. \A k \in 0 .. n - 1 : off + k \in R /\ off + k \in Slot /\ off + k < q.numblocks
  BY <1>1, <1>2 DEF Slot
<1>9. \A i \in R : i - off \in 0 .. n - 1 /\ off + (i - off) = i
  BY <1>1
<1>10. moved \in [0 .. n - 1 -> Block]
  <2>1. \A k \in 0 .. n - 1 : b[off + k] \in Block
    <3> HIDE DEF q, R
    <3> QED
      BY <1>1, <1>8 DEF AllThere, Slots
  <2> QED
    BY <2>1
<1>11. gone \subseteq Range(moved)
  <2> HIDE DEF R
  <2>1. \A i \in R : b[i] = moved[i - off] /\ i - off \in DOMAIN moved
    BY <1>9
  <2> HIDE DEF moved
  <2> QED
    BY <2>1 DEF Range
<1>12. r.numblocks + n <= MaxBlocks
  <2>1. /\ used \in SUBSET Block /\ Room(used, partition)
        /\ partition \in [Selector -> Partition]
    BY DEF Intact, Keeps, Counted, Holds
  <2>2. q.numblocks + r.numblocks <= MaxBlocks
    BY <1>2, <2>1, RoomForMoved
  <2> HIDE DEF q, r
  <2> QED
    BY <2>2, <1>1, <1>2
<1> HIDE DEF moved, R, left, less, more, gone, P1, w, r
<1>13. Tidy(used, [P1 EXCEPT ![dest] = WithSectors(P1[dest], n, moved, more)])
  <2>1. used \subseteq (used \ gone) \cup Range(moved)
    BY <1>11
  <2> QED
    BY <2>1, <1>1, <1>6, <1>7, <1>10, <1>12, GrownTidy
<1> QED
  BY <1>2, <1>6, <1>13

\* Freeing everything loses no block.
LEMMA ClearedTidy ==
    /\ Tidy({}, [p \in Selector |-> Empty])
    /\ Cleared => Tidy(used', partition')
<1>1. Compact(Empty)
  BY DEF Compact, Empty
<1> QED
  BY <1>1 DEF Tidy, Cleared

\* Cs2ResetSelector frees all the sectors partition p counts, which are all it has.
LEMMA ResetTidy ==
    ASSUME Intact, Tidy(used, partition), NEW p \in Selector, Cs2ResetSelector(p)
    PROVE  Tidy(used', partition')
<1> DEFINE b == partition[p].block
           R == 0 .. partition[p].numblocks - 1
           q == [block |-> Without(b, R), numblocks |-> 0, size |-> -1]
<1>1. /\ partition \in [Selector -> Partition] /\ b \in Slots
      /\ partition[p] \in Partition /\ partition[p].numblocks \in Nat
      /\ Compact(partition[p])
  BY PartitionsTyped DEF Tidy
<1>2. /\ used' = used \ {b[i] : i \in R}
      /\ partition' = [partition EXCEPT ![p] = q]
  BY DEF Cs2ResetSelector
<1>3. \A i \in Slot : i \in R \/ partition[p].numblocks <= i
  BY <1>1 DEF Slot
<1>4. \A i \in Slot : i \in R \/ b[i] = NULL
  BY <1>1, <1>3 DEF Compact
<1>5. \A i \in Slot : q.block[i] = NULL
  BY <1>1, <1>4 DEF Without, Slots
<1> HIDE DEF R, q
<1>6. Compact(q)
  BY <1>5 DEF Compact
<1>7. \A x \in used' : x \in used /\ x \notin Entries(b)
  BY <1>2, <1>4 DEF Entries
<1> QED
  BY <1>1, <1>2, <1>6, <1>7, TidyReplaced

---------------------------------------------------------------------------
(***************************************************************************)
(* The theorem.                                                            *)
(***************************************************************************)
LEMMA NextTidy ==
    ASSUME Disciplined, ~ReadFailures
    PROVE  Intact /\ Within /\ Tidy(used, partition) /\ [Next]_vars => Tidy(used', partition')
<1> DEFINE Kept == Tidy(used', partition')
<1>1. SUFFICES ASSUME Intact, Within, Tidy(used, partition), [Next]_vars PROVE Kept
  OBVIOUS
<1> HIDE DEF Kept
<1>2. CASE UNCHANGED <<bufferVars, partition>>
  BY <1>1, <1>2, TidyKept DEF bufferVars, Kept
<1>3. ASSUME NEW p \in Selector,
             \/ Cs2FilterData(p) \/ Cs2ReadFileSystem(p)
             \/ Cs2ReadUnFilteredSectorFails(p) \/ Cs2ResetSelector(p)
      PROVE  Kept
  BY <1>1, <1>3, FilterTidy, FileSystemTidy, ResetTidy
     DEF Kept, Cs2ReadUnFilteredSectorFails
<1>4. ASSUME NEW p \in Selector, NEW n \in 1 .. MaxBlocks, Cs2PutSectorData(p, n)
      PROVE  Kept
  BY <1>1, <1>4, CommandsTidy DEF Kept
<1>5. ASSUME NEW p \in Selector, NEW n \in 1 .. MaxBlocks, NEW off \in Slot,
             \/ Cs2GetSectorData(p, off, n) \/ Cs2GetThenDeleteSectorData(p, off, n)
             \/ Cs2DeleteSectorData(p, off, n)
      PROVE  Kept
  <2>1. CASE Cs2DeleteSectorData(p, off, n)
    BY <2>1, <1>1, CommandsTidy DEF Kept
  <2> QED
    BY <2>1, <1>2, <1>5 DEF Cs2GetSectorData, Cs2GetThenDeleteSectorData
<1>6. ASSUME NEW p \in Selector, NEW n \in 1 .. MaxBlocks, NEW off \in Slot,
             NEW dest \in Selector,
             Cs2CopySectorData(p, off, n, dest) \/ Cs2MoveSectorData(p, off, n, dest)
      PROVE  Kept
  BY <1>1, <1>6, CommandsTidy, MoveTidy DEF Kept
<1>7. ASSUME Cs2ReadLong \/ Cs2WriteLong \/ Cs2EndDataTransfer PROVE Kept
  BY <1>1, <1>7, PortTidy DEF Kept
<1>8. ASSUME \/ Cs2ResetPartitions
             \/ \E software \in BOOLEAN : Cs2InitializeCDSystem(software)
             \/ Cs2AbortFile
      PROVE  Kept
  <2>1. CASE Cleared
    BY <2>1, ClearedTidy DEF Kept
  <2>2. CASE used' = used /\ partition' = partition
    BY <2>2, <1>1, TidyKept DEF Kept
  <2> QED
    BY <2>1, <2>2, <1>8
       DEF Cs2ResetPartitions, Cs2InitializeCDSystem, Cs2AbortFile, bufferVars
<1>9. UNCHANGED vars => UNCHANGED <<bufferVars, partition>>
  BY DEF vars
<1> QED
  BY <1>1, <1>2, <1>3, <1>4, <1>5, <1>6, <1>7, <1>8, <1>9, Zenon DEF Next

\* With a disc that reads and a program that keeps the protocol, and moves sectors
\* only between partitions, every allocated block is a sector of a partition:
\* get-then-delete, copy, move, the file system's directories and the resets leave
\* none behind (Cs2FilterData, DeleteTransferred, Cs2ReadFileSystem,
\* Cs2ResetSelector).
THEOREM AllocatedIsStoredHolds ==
    ASSUME Disciplined, ~ReadFailures
    PROVE  Spec => []AllocatedIsStored
<1> DEFINE TidyNow == Tidy(used, partition)
<1>1. Init => TidyNow
  BY ClearedTidy DEF Init
<1>2. Intact /\ Within /\ TidyNow /\ [Next]_vars => TidyNow'
  BY NextTidy
<1>3. Intact /\ TidyNow => AllocatedIsStored
  <2>1. SUFFICES ASSUME Intact, TidyNow PROVE AllocatedIsStored
    OBVIOUS
  <2> DEFINE sectors(p) == {partition[p].block[i] : i \in 0 .. partition[p].numblocks - 1}
  <2>2. ASSUME NEW p \in Selector PROVE sectors(p) = Entries(partition[p].block)
    <3>1. /\ partition[p] \in Partition /\ AllThere(partition[p])
          /\ Compact(partition[p]) /\ partition[p].block \in Slots
      BY <2>1, PartitionsTyped DEF Tidy
    <3>2. Full(partition[p].block) = 0 .. partition[p].numblocks - 1
      BY <3>1, FullCounted
    <3>3. Full(partition[p].block) = {i \in Slot : partition[p].block[i] # NULL}
      BY <3>1 DEF Full, Slots
    <3>4. sectors(p) = {partition[p].block[i] : i \in Full(partition[p].block)}
      BY <3>2
    <3> HIDE DEF sectors
    <3> QED
      BY <3>3, <3>4 DEF Entries
  <2>3. \A p \in Selector : Entries(partition[p].block) \subseteq used
    BY <2>1 DEF Intact, Keeps, Holds
  <2>4. \A x \in used : \E p \in Selector : x \in Entries(partition[p].block)
    BY <2>1 DEF Tidy
  <2> HIDE DEF sectors
  <2>5. used = UNION {sectors(p) : p \in Selector}
    BY <2>2, <2>3, <2>4
  <2> QED
    BY <2>5 DEF sectors, AllocatedIsStored
<1> HIDE DEF TidyNow
<1> QED
  BY <1>1, <1>2, <1>3, IntactHolds, WithinHolds, PTL DEF Spec

---------------------------------------------------------------------------
(***************************************************************************)
(* The sectors of a partition as a sequence.                               *)
(***************************************************************************)

\* The sectors of a partition as the program sees them.
Sectors(q) == [i \in 1 .. q.numblocks |-> q.block[i - 1]]

\* They are a sequence of blocks, one for every sector that is counted.
LEMMA SectorsTyped ==
    ASSUME NEW q \in Partition, AllThere(q)
    PROVE  /\ Sectors(q) \in Seq(Block) /\ Len(Sectors(q)) = q.numblocks
           /\ q.numblocks \in Nat
           /\ \A i \in 0 .. q.numblocks - 1 : q.block[i] \in Block
           /\ \A i \in 1 .. q.numblocks : Sectors(q)[i] = q.block[i - 1]
<1> DEFINE s == q.numblocks
           f == Sectors(q)
<1>1. q.block \in Slots /\ s \in Nat /\ s <= MaxBlocks /\ MaxBlocks \in Nat
  BY PartitionTyped, BlocksCounted
<1>2. \A i \in 0 .. s - 1 : i \in Slot /\ i < s
  BY <1>1 DEF Slot
<1>3. \A i \in 0 .. s - 1 : q.block[i] \in Block
  BY <1>1, <1>2 DEF AllThere, Slots
<1>4. \A i \in 1 .. s : i - 1 \in 0 .. s - 1
  BY <1>1
<1>5. f = [i \in 1 .. s |-> q.block[i - 1]]
  BY DEF Sectors
<1> HIDE DEF s, f
<1>6. f \in [1 .. s -> Block] /\ \A i \in 1 .. s : f[i] = q.block[i - 1]
  BY <1>3, <1>4, <1>5
<1>7. f \in Seq(Block)
  BY <1>1, <1>6, SeqDef
<1>8. 1 .. s = 1 .. Len(f) /\ Len(f) \in Nat
  BY <1>6, <1>7, LenProperties
<1>9. Len(f) = s
  BY <1>1, <1>8
<1> QED
  BY <1>1, <1>3, <1>6, <1>7, <1>9 DEF s, f

\* Cs2SortBlocks puts an entry where the number of those before it says.
LEMMA SortedAt ==
    ASSUME NEW c \in Slots, NEW i \in Full(c), NEW k, Cardinality(Below(c, i)) = k
    PROVE  Cs2SortBlocks(c)[k] = c[i]
<1> DEFINE m == Cardinality(Full(c))
<1>1. Rank(c, i) = k
  BY DEF Rank, Below
<1>2. k \in 0 .. m - 1 /\ \A j \in Full(c) : Rank(c, j) = k => j = i
  BY <1>1, RanksComplete
<1>3. m \in Nat /\ m <= MaxBlocks /\ MaxBlocks \in Nat /\ DOMAIN c = Slot
  BY FullFinite, BlocksCounted DEF Slots
<1>4. k \in Slot /\ k < m
  BY <1>2, <1>3 DEF Slot
<1>5. (CHOOSE j \in Full(c) : Rank(c, j) = k) = i
  BY <1>1, <1>2
<1> QED
  BY <1>3, <1>4, <1>5 DEF Cs2SortBlocks

\* What holds of 0 and goes from each number to the next holds up to N.
LEMMA Upwards ==
    ASSUME NEW N \in Nat, NEW T, 0 \in T, \A k \in 1 .. N : k - 1 \in T => k \in T
    PROVE  \A k \in 0 .. N : k \in T
<1> DEFINE R == OpToRel(<, Nat)
           B == {k \in 0 .. N : k \notin T}
<1>1. IsWellFoundedOn(R, Nat)
  BY NatLessThanWellFounded
<1>2. \A i, j \in Nat : j < i => <<j, i>> \in R
  BY DEF OpToRel
<1> HIDE DEF R
<1>3. SUFFICES ASSUME B # {} PROVE FALSE
  OBVIOUS
<1>4. B \subseteq Nat
  OBVIOUS
<1> HIDE DEF B
<1>5. PICK k \in B : \A j \in B : ~ (<<j, k>> \in R)
  BY <1>1, <1>3, <1>4, WFMin
<1>6. k \in 0 .. N /\ k \notin T
  BY DEF B
<1>7. k \in 1 .. N /\ k - 1 \in 0 .. N
  BY <1>6
<1>8. k - 1 \notin T
  BY <1>6, <1>7
<1>9. k - 1 \in B
  BY <1>7, <1>8 DEF B
<1>10. <<k - 1, k>> \in R
  BY <1>2, <1>7
<1> QED
  BY <1>5, <1>9, <1>10

\* The loop of Cs2SortBlocks: "from" passes all slots and "to" follows the
\* entries, each of which moves down to it.
MoveDown(w, from) ==
    IF w.block[from] = NULL THEN w
    ELSE [block |-> [w.block EXCEPT ![w.to] = w.block[from]], to |-> w.to + 1]

Compacted(b) ==
    LET walk[from \in 0 .. MaxBlocks] ==
            IF from = 0 THEN [block |-> b, to |-> 0]
            ELSE MoveDown(walk[from - 1], from - 1)
        end == walk[MaxBlocks]
    IN  [k \in Slot |-> IF k < end.to THEN end.block[k] ELSE NULL]

\* Where the loop stands before it looks at slot n: the entries in front of n
\* are in their final places, the slots behind as they were.
PassedTo(b, n) ==
    [block |-> [k \in Slot |-> IF k < Cardinality(Below(b, n)) THEN Cs2SortBlocks(b)[k] ELSE b[k]],
     to    |-> Cardinality(Below(b, n))]

\* The entries in front of a slot are no more than the slots.
LEMMA BelowCounted ==
    ASSUME NEW b \in Slots, NEW n \in 0 .. MaxBlocks
    PROVE  Cardinality(Below(b, n)) \in 0 .. n
<1>1. Full(b) \subseteq Slot /\ MaxBlocks \in Nat
  BY FullFinite, BlocksCounted
<1>2. n \in Nat
  BY <1>1
<1>3. Below(b, n) \subseteq 0 .. n - 1
  BY <1>1, <1>2 DEF Below, Slot
<1>4. IsFiniteSet(0 .. n - 1) /\ Cardinality(0 .. n - 1) = n
  BY <1>2, FirstCounted
<1>5. /\ Cardinality(Below(b, n)) <= Cardinality(0 .. n - 1)
      /\ IsFiniteSet(Below(b, n))
  BY <1>3, <1>4, FS_Subset
<1>6. Cardinality(Below(b, n)) \in Nat
  BY <1>5, FS_CardinalityType
<1> QED
  BY <1>2, <1>4, <1>5, <1>6

\* One turn of the loop.
LEMMA PassesOne ==
    ASSUME NEW b \in Slots, NEW n \in 1 .. MaxBlocks
    PROVE  PassedTo(b, n) = MoveDown(PassedTo(b, n - 1), n - 1)
<1> DEFINE m == n - 1
           t == Cardinality(Below(b, m))
           u == Cardinality(Below(b, n))
           c == Cs2SortBlocks(b)
           w == PassedTo(b, m)
<1>1. MaxBlocks \in Nat /\ Slot = 0 .. MaxBlocks - 1 /\ Full(b) \subseteq Slot
  BY FullFinite, BlocksCounted DEF Slot
<1>2. m \in Slot /\ m \in 0 .. MaxBlocks /\ n \in 0 .. MaxBlocks /\ n = m + 1 /\ m \in Nat
  BY <1>1
<1>3. t \in 0 .. m /\ u \in 0 .. n
  BY <1>2, BelowCounted
<1>4. w.block = [k \in Slot |-> IF k < t THEN c[k] ELSE b[k]] /\ w.to = t
  BY DEF PassedTo
<1>5. w.block[m] = b[m]
  BY <1>2, <1>3, <1>4
<1>6. \A j \in Full(b) : j < n <=> j < m \/ j = m
  BY <1>1, <1>2
<1>7. CASE b[m] = NULL
  <2>1. m \notin Full(b)
    BY <1>7 DEF Full
  <2>2. Below(b, n) = Below(b, m)
    BY <1>6, <2>1 DEF Below
  <2>3. PassedTo(b, n) = w
    BY <2>2 DEF PassedTo
  <2> QED
    BY <1>5, <1>7, <2>3 DEF MoveDown
<1>8. CASE b[m] # NULL
  <2>1. m \in Full(b)
    BY <1>2, <1>8 DEF Full, Slots
  <2>2. Below(b, n) = Below(b, m) \cup {m} /\ m \notin Below(b, m)
    <3>1. ~ (m < m)
      BY <1>2
    <3> QED
      BY <1>6, <2>1, <3>1 DEF Below
  <2>3. IsFiniteSet(Below(b, m))
    <3>1. Below(b, m) \subseteq Full(b)
      BY DEF Below
    <3> QED
      BY <3>1, FullFinite, FS_Subset
  <2>4. u = t + 1
    BY <2>2, <2>3, FS_AddElement
  <2>5. c[t] = b[m]
    BY <2>1, SortedAt
  <2> HIDE DEF c, t, u, w, m
  <2>6. MoveDown(w, m) = [block |-> [w.block EXCEPT ![t] = b[m]], to |-> t + 1]
    BY <1>4, <1>5, <1>8 DEF MoveDown
  <2>7. [w.block EXCEPT ![t] = b[m]] = [k \in Slot |-> IF k < u THEN c[k] ELSE b[k]]
    <3>1. t \in Slot
      BY <1>1, <1>2, <1>3
    <3>2. \A k \in Slot : k < u <=> k < t \/ k = t
      BY <1>1, <1>2, <1>3, <2>4
    <3> QED
      BY <1>4, <2>5, <3>1, <3>2
  <2>8. PassedTo(b, n) = [block |-> [k \in Slot |-> IF k < u THEN c[k] ELSE b[k]], to |-> u]
    BY DEF PassedTo, u, c
  <2> QED
    BY <2>4, <2>6, <2>7, <2>8 DEF w, m
<1> QED
  BY <1>7, <1>8

\* The loop of Cs2SortBlocks moves the entries together in their order and
\* clears the slots behind them, whatever gaps there are.
THEOREM SortBlocksCompacts ==
    ASSUME NEW b \in Slots
    PROVE  Compacted(b) = Cs2SortBlocks(b)
<1> DEFINE N == MaxBlocks
           g == [n \in 0 .. N |-> PassedTo(b, n)]
           f == CHOOSE walk : walk = [from \in 0 .. MaxBlocks |->
                                        IF from = 0 THEN [block |-> b, to |-> 0]
                                        ELSE MoveDown(walk[from - 1], from - 1)]
           c == Cs2SortBlocks(b)
<1>1. Compacted(b) = [k \in Slot |-> IF k < f[N].to THEN f[N].block[k] ELSE NULL]
  BY DEF Compacted
<1>2. N \in Nat /\ N = MaxBlocks /\ b = [k \in Slot |-> b[k]] /\ DOMAIN b = Slot
  BY BlocksCounted DEF Slots
<1>3. Full(b) \subseteq Slot /\ Slot \subseteq Nat /\ \A k \in Slot : k < N
  BY <1>2, FullFinite DEF Slot
<1>4. PassedTo(b, 0) = [block |-> b, to |-> 0]
  <2>0. ASSUME NEW j \in Full(b) PROVE ~ (j < 0)
    <3>1. j \in Nat
      BY <1>3
    <3> QED
      BY <3>1
  <2>1. Below(b, 0) = {}
    BY <2>0 DEF Below
  <2>2. Cardinality(Below(b, 0)) = 0
    BY <2>1, FS_EmptySet
  <2>3. \A k \in Slot : ~ (k < 0)
    BY <1>3
  <2> QED
    BY <1>2, <2>2, <2>3 DEF PassedTo
<1> HIDE DEF N
<1>5. \A n \in 0 .. N : g[n] = IF n = 0 THEN [block |-> b, to |-> 0]
                               ELSE MoveDown(g[n - 1], n - 1)
  <2> SUFFICES ASSUME NEW n \in 0 .. N, n # 0 PROVE g[n] = MoveDown(g[n - 1], n - 1)
    BY <1>2, <1>4
  <2>1. n \in 1 .. MaxBlocks /\ n - 1 \in 0 .. N
    BY <1>2
  <2> QED
    BY <2>1, PassesOne
<1>6. g = [from \in 0 .. MaxBlocks |-> IF from = 0 THEN [block |-> b, to |-> 0]
                                       ELSE MoveDown(g[from - 1], from - 1)]
  BY <1>2, <1>5
<1>7. f = [from \in 0 .. MaxBlocks |-> IF from = 0 THEN [block |-> b, to |-> 0]
                                       ELSE MoveDown(f[from - 1], from - 1)]
  BY <1>6
<1> HIDE DEF f, g
<1> DEFINE T == {n \in 0 .. N : f[n] = g[n]}
<1>8. 0 \in T
  BY <1>2, <1>5, <1>7
<1>9. ASSUME NEW n \in 1 .. N, n - 1 \in T PROVE n \in T
  <2>1. f[n - 1] = g[n - 1] /\ n \in 0 .. N /\ n \in 0 .. MaxBlocks /\ n # 0
    BY <1>2, <1>9
  <2>2. f[n] = MoveDown(f[n - 1], n - 1) /\ g[n] = MoveDown(g[n - 1], n - 1)
    BY <1>5, <1>7, <2>1
  <2> QED
    BY <2>1, <2>2
<1>10. N \in T
  <2> HIDE DEF T
  <2>1. \A n \in 0 .. N : n \in T
    BY <1>2, <1>8, <1>9, Upwards
  <2> QED
    BY <1>2, <2>1
<1>11. f[N] = PassedTo(b, N)
  BY <1>2, <1>10 DEF g
<1>12. Below(b, N) = Full(b)
  BY <1>3 DEF Below
<1>13. f[N].to = Cardinality(Full(b))
       /\ \A k \in Slot : k < Cardinality(Full(b)) => f[N].block[k] = c[k]
  BY <1>11, <1>12 DEF PassedTo
<1> QED
  BY <1>1, <1>2, <1>13 DEF Cs2SortBlocks

\* Slots in front of those that are cleared keep what they hold.
LEMMA FirstStay ==
    ASSUME NEW b \in Slots, NEW m \in Nat, \A i \in Nat : i < m => i \in Full(b),
           NEW R, R \cap (0 .. m - 1) = {}, NEW k \in 0 .. m - 1
    PROVE  Cs2SortBlocks(Without(b, R))[k] = b[k]
<1> DEFINE c == Without(b, R)
<1>1. c \in Slots /\ Full(c) = Full(b) \ R
  BY Removed
<1>2. Full(b) \subseteq Slot /\ Slot \subseteq Nat
  BY FullFinite, BlocksCounted DEF Slot
<1>3. k \in Full(c) /\ c[k] = b[k]
  BY <1>1, <1>2 DEF Without, Slots
<1>4. Below(c, k) = 0 .. k - 1
  <2>1. ASSUME NEW j \in 0 .. k - 1 PROVE j \in Below(c, k)
    <3>1. j \in 0 .. m - 1 /\ j < k
      OBVIOUS
    <3> HIDE DEF c
    <3> QED
      BY <1>1, <3>1 DEF Below
  <2>2. ASSUME NEW j \in Below(c, k) PROVE j \in 0 .. k - 1
    <3>1. j \in Nat /\ j < k
      BY <1>1, <1>2, <2>2 DEF Below
    <3> QED
      BY <3>1
  <2> HIDE DEF c
  <2> QED
    BY <2>1, <2>2
<1>5. Cardinality(Below(c, k)) = k
  BY <1>4, FirstCounted
<1> HIDE DEF c
<1> QED
  BY <1>1, <1>3, <1>5, SortedAt DEF c

\* The n slots from a on.
RunOf(a, n) == a .. a + n - 1

\* Those behind a run that is cleared come forward by its length.
LEMMA RestComes ==
    ASSUME NEW b \in Slots, NEW s \in Nat, \A i \in Nat : i < s => i \in Full(b),
           NEW a \in Nat, NEW n \in Nat, NEW k \in Nat, a <= k, k + n < s
    PROVE  Cs2SortBlocks(Without(b, RunOf(a, n)))[k] = b[k + n]
<1> DEFINE R == RunOf(a, n)
           c == Without(b, RunOf(a, n))
           f == [j \in 0 .. k - 1 |-> IF j < a THEN j ELSE j + n]
<1>1. c \in Slots /\ Full(c) = Full(b) \ R
  BY Removed
<1>2. Full(b) \subseteq Slot /\ Slot \subseteq Nat
  BY FullFinite, BlocksCounted DEF Slot
<1>3. k + n \in Full(c) /\ c[k + n] = b[k + n]
  <2>1. k + n \in Full(b) /\ k + n \notin R
    BY DEF RunOf
  <2> QED
    BY <1>1, <1>2, <2>1 DEF Without, Slots
<1>4. Below(c, k + n) = {f[j] : j \in 0 .. k - 1}
  <2>1. ASSUME NEW j \in 0 .. k - 1 PROVE f[j] \in Below(c, k + n)
    <3>1. f[j] \in 0 .. s - 1 /\ f[j] \notin R /\ f[j] < k + n
      BY DEF RunOf
    <3> HIDE DEF f, R
    <3> QED
      BY <1>1, <3>1 DEF Below
  <2>2. ASSUME NEW i \in Below(c, k + n) PROVE \E j \in 0 .. k - 1 : f[j] = i
    <3>1. i \in Nat /\ i < k + n /\ i \notin R
      BY <1>1, <1>2, <2>2 DEF Below
    <3>2. CASE i < a
      <4>1. i \in 0 .. k - 1 /\ f[i] = i
        BY <3>1, <3>2
      <4> QED
        BY <4>1
    <3>3. CASE ~(i < a)
      <4>1. i - n \in 0 .. k - 1 /\ ~(i - n < a) /\ (i - n) + n = i
        BY <3>1, <3>3 DEF RunOf
      <4>2. f[i - n] = i
        BY <4>1
      <4> QED
        BY <4>1, <4>2
    <3> QED
      BY <3>2, <3>3
  <2> HIDE DEF f, c
  <2> QED
    BY <2>1, <2>2
<1>5. \A i, j \in 0 .. k - 1 : f[i] = f[j] => i = j
  OBVIOUS
<1>6. IsFiniteSet(0 .. k - 1) /\ Cardinality(0 .. k - 1) = k
  BY FirstCounted
<1> HIDE DEF c, f, R
<1>7. Cardinality(Below(c, k + n)) = k
  BY <1>4, <1>5, <1>6, ImageCounted
<1>8. Cs2SortBlocks(c)[k] = c[k + n]
  BY <1>1, <1>3, <1>7, SortedAt
<1> QED
  BY <1>3, <1>8 DEF c, R

\* The slots a partition counts are full.
LEMMA CountedFull ==
    ASSUME NEW q \in Partition, AllThere(q)
    PROVE  /\ \A i \in Nat : i < q.numblocks => i \in Full(q.block)
           /\ q.numblocks \in Nat /\ q.numblocks <= MaxBlocks /\ MaxBlocks \in Nat
           /\ q.block \in Slots
BY PartitionTyped, BlocksCounted DEF AllThere, Full, Slots, Slot

\* Clearing slots behind the sectors leaves the sectors.
LEMMA SectorsRest ==
    ASSUME NEW q \in Partition, AllThere(q), NEW R, R \cap (0 .. q.numblocks - 1) = {},
           NEW size
    PROVE  Sectors(WithoutSectors(q, R, q.numblocks, size)) = Sectors(q)
<1> DEFINE s == q.numblocks
           d == Cs2SortBlocks(Without(q.block, R))
<1>1. /\ \A i \in Nat : i < s => i \in Full(q.block)
      /\ s \in Nat /\ q.block \in Slots
  BY CountedFull
<1>2. \A k \in 0 .. s - 1 : d[k] = q.block[k]
  BY <1>1, FirstStay
<1> HIDE DEF d
<1>3. \A i \in 1 .. s : i - 1 \in 0 .. s - 1
  BY <1>1
<1>4. [i \in 1 .. s |-> d[i - 1]] = [i \in 1 .. s |-> q.block[i - 1]]
  BY <1>2, <1>3
<1> QED
  BY <1>4 DEF Sectors, WithoutSectors, d

\* Clearing a run of sectors cuts the run out.
LEMMA SectorsCut ==
    ASSUME NEW q \in Partition, AllThere(q), NEW s \in Nat, s = q.numblocks,
           NEW a \in Nat, NEW n \in Nat, a + n <= s, NEW size
    PROVE  Sectors(WithoutSectors(q, a .. a + n - 1, s - n, size))
             = Store!Cut(Sectors(q), a + 1, a + n)
<1> DEFINE R == a .. a + n - 1
           d == Cs2SortBlocks(Without(q.block, R))
           f == Sectors(q)
           g == [i \in 1 .. s - n |-> d[i - 1]]
           x == SubSeq(f, 1, a)
           y == SubSeq(f, a + n + 1, s)
<1>1. /\ \A i \in Nat : i < s => i \in Full(q.block)
      /\ s \in Nat /\ q.block \in Slots
  BY CountedFull
<1>2. /\ f \in Seq(Block) /\ Len(f) = s
      /\ \A i \in 1 .. s : f[i] = q.block[i - 1] /\ f[i] \in Block
  BY SectorsTyped, ElementOfSeq
<1>3. ASSUME NEW k \in 0 .. s - n - 1
      PROVE  d[k] = IF k < a THEN f[k + 1] ELSE f[k + n + 1]
  <2>1. CASE k < a
    <3>1. /\ \A i \in Nat : i < a => i \in Full(q.block)
          /\ R \cap (0 .. a - 1) = {} /\ k \in 0 .. a - 1
      BY <1>1, <2>1
    <3>2. d[k] = q.block[k]
      <4> HIDE DEF R
      <4> QED
        BY <1>1, <3>1, FirstStay
    <3>3. k + 1 \in 1 .. s /\ (k + 1) - 1 = k
      BY <1>1, <2>1
    <3> QED
      BY <1>2, <2>1, <3>2, <3>3
  <2>2. CASE ~(k < a)
    <3>1. k \in Nat /\ a <= k /\ k + n < s
      BY <1>1, <2>2
    <3>2. d[k] = q.block[k + n]
      <4> DEFINE b == q.block
      <4>1. b \in Slots /\ s \in Nat /\ \A i \in Nat : i < s => i \in Full(b)
        BY <1>1
      <4> HIDE DEF b
      <4>2. R = RunOf(a, n)
        BY DEF RunOf
      <4> HIDE DEF R
      <4>3. Cs2SortBlocks(Without(b, RunOf(a, n)))[k] = b[k + n]
        BY <3>1, <4>1, RestComes
      <4> QED
        BY <4>2, <4>3 DEF b
    <3>3. k + n + 1 \in 1 .. s /\ (k + n + 1) - 1 = k + n
      BY <1>1, <3>1
    <3> QED
      BY <1>2, <2>2, <3>2, <3>3
  <2> QED
    BY <2>1, <2>2
<1> HIDE DEF d, f, R
<1>4. /\ x \in Seq(Block) /\ Len(x) = a
      /\ \A i \in 1 .. a : x[i] = f[i]
  <2>1. \A i \in 1 .. a : f[i] \in Block
    BY <1>1, <1>2
  <2>2. /\ x \in Seq(Block) /\ Len(x) = IF 1 <= a THEN a - 1 + 1 ELSE 0
        /\ \A i \in 1 .. a - 1 + 1 : x[i] = f[1 + i - 1]
    BY <2>1, SubSeqProperties
  <2> HIDE DEF x
  <2> QED
    BY <2>2
<1>5. /\ y \in Seq(Block) /\ Len(y) = s - (a + n)
      /\ \A i \in 1 .. s - (a + n) : y[i] = f[a + n + i]
  <2>1. \A i \in a + n + 1 .. s : f[i] \in Block
    BY <1>1, <1>2
  <2>2. /\ y \in Seq(Block)
        /\ Len(y) = IF a + n + 1 <= s THEN s - (a + n + 1) + 1 ELSE 0
        /\ \A i \in 1 .. s - (a + n + 1) + 1 : y[i] = f[(a + n + 1) + i - 1]
    BY <1>1, <2>1, SubSeqProperties
  <2>3. a + n <= s
    OBVIOUS
  <2> HIDE DEF y
  <2> QED
    BY <1>1, <2>2, <2>3
<1> HIDE DEF x, y
<1>6. /\ x \o y \in Seq(Block) /\ Len(x \o y) = s - n
      /\ \A i \in 1 .. s - n : (x \o y)[i] = IF i <= a THEN f[i] ELSE f[i + n]
  <2>1. /\ x \o y \in Seq(Block) /\ Len(x \o y) = Len(x) + Len(y)
        /\ \A i \in 1 .. Len(x) + Len(y) :
              (x \o y)[i] = IF i <= Len(x) THEN x[i] ELSE y[i - Len(x)]
    BY <1>4, <1>5, ConcatProperties
  <2>2. Len(x) + Len(y) = s - n
    BY <1>1, <1>4, <1>5
  <2>3. ASSUME NEW i \in 1 .. s - n PROVE (x \o y)[i] = IF i <= a THEN f[i] ELSE f[i + n]
    <3>1. (x \o y)[i] = IF i <= a THEN x[i] ELSE y[i - a]
      BY <1>4, <2>1, <2>2
    <3>2. CASE i <= a
      BY <1>4, <3>1, <3>2
    <3>3. CASE ~(i <= a)
      <4>1. i - a \in 1 .. s - (a + n) /\ a + n + (i - a) = i + n
        BY <1>1, <3>3
      <4> QED
        BY <1>5, <3>1, <3>3, <4>1
    <3> QED
      BY <3>2, <3>3
  <2> QED
    BY <2>1, <2>2, <2>3
<1>7. DOMAIN (x \o y) = 1 .. s - n
  BY <1>6, LenProperties
<1>8. \A i \in 1 .. s - n : (x \o y)[i] = d[i - 1]
  <2> SUFFICES ASSUME NEW i \in 1 .. s - n PROVE (x \o y)[i] = d[i - 1]
    OBVIOUS
  <2>1. /\ i - 1 \in 0 .. s - n - 1 /\ (i - 1 < a <=> i <= a)
        /\ (i - 1) + 1 = i /\ (i - 1) + n + 1 = i + n
    BY <1>1
  <2>2. d[i - 1] = IF i - 1 < a THEN f[(i - 1) + 1] ELSE f[(i - 1) + n + 1]
    BY <1>3, <2>1
  <2> QED
    BY <1>6, <2>1, <2>2
<1>9. x \o y = g
  <2>1. x \o y \in [1 .. s - n -> Block]
    BY <1>6, LenProperties
  <2> QED
    BY <1>8, <2>1
<1>10. Sectors(WithoutSectors(q, R, s - n, size)) = g
  BY DEF Sectors, WithoutSectors, d
<1>11. Store!Cut(f, a + 1, a + n) = x \o y
  <2>1. (a + 1) - 1 = a /\ (a + n) + 1 = a + n + 1
    OBVIOUS
  <2> QED
    BY <1>2, <2>1 DEF Store!Cut, x, y
<1> QED
  BY <1>9, <1>10, <1>11 DEF f, R

\* The abstract variables in terms of the partitions.
LEMMA StoreChanges ==
    ASSUME Intact, NEW p \in Selector
    PROVE  /\ StoredSectors[p] = Sectors(partition[p])
           /\ partition' = partition => StoredSectors' = StoredSectors
           /\ \A q : partition' = [partition EXCEPT ![p] = q]
                       => StoredSectors' = [StoredSectors EXCEPT ![p] = Sectors(q)]
<1>1. partition \in [Selector -> Partition]
  BY PartitionsTyped
<1>2. StoredSectors = [r \in Selector |-> Sectors(partition[r])]
  BY DEF StoredSectors, Sectors
<1>3. StoredSectors' = [r \in Selector |-> Sectors(partition'[r])]
  BY DEF StoredSectors, Sectors
<1>4. ASSUME NEW q, partition' = [partition EXCEPT ![p] = q]
      PROVE  StoredSectors' = [StoredSectors EXCEPT ![p] = Sectors(q)]
  <2>1. \A r \in Selector : partition'[r] = IF r = p THEN q ELSE partition[r]
    BY <1>1, <1>4
  <2> QED
    BY <1>2, <1>3, <2>1
<1> QED
  BY <1>2, <1>3, <1>4

\* A run of slots that a partition counts is a run of its sectors.
LEMMA RunIs ==
    ASSUME Intact, NEW p \in Selector, NEW a \in Nat, NEW n \in Nat,
           a + n <= partition[p].numblocks
    PROVE  /\ Store!Run(p, a + 1, a + n) = {partition[p].block[i] : i \in RunOf(a, n)}
           /\ \A i \in RunOf(a, n) : partition[p].block[i] \in Entries(partition[p].block)
           /\ n > 0 => /\ a + 1 \in DOMAIN StoredSectors[p]
                       /\ a + n \in a + 1 .. Len(StoredSectors[p])
<1> DEFINE q == partition[p]
           s == q.numblocks
           f == Sectors(q)
           x == SubSeq(f, a + 1, a + n)
<1>1. /\ q \in Partition /\ AllThere(q) /\ s \in Nat /\ s <= MaxBlocks /\ MaxBlocks \in Nat
      /\ StoredSectors[p] = f
  BY PartitionsTyped, StoreChanges
<1>2. /\ f \in Seq(Block) /\ Len(f) = s /\ DOMAIN f = 1 .. s
      /\ \A i \in 0 .. s - 1 : q.block[i] \in Block
      /\ \A i \in 1 .. s : f[i] = q.block[i - 1] /\ f[i] \in Block
  <2> HIDE DEF f, q
  <2> USE DEF f
  <2> QED
    BY <1>1, SectorsTyped, LenProperties, ElementOfSeq
<1> HIDE DEF f
<1>3. /\ x \in Seq(Block) /\ Len(x) = n
      /\ \A i \in 1 .. n : x[i] = q.block[a + i - 1]
  <2>1. \A i \in a + 1 .. a + n : f[i] \in Block
    BY <1>1, <1>2
  <2>2. /\ x \in Seq(Block)
        /\ Len(x) = IF a + 1 <= a + n THEN (a + n) - (a + 1) + 1 ELSE 0
        /\ \A i \in 1 .. (a + n) - (a + 1) + 1 : x[i] = f[(a + 1) + i - 1]
    BY <2>1, SubSeqProperties
  <2>3. \A i \in 1 .. n : x[i] = f[a + i]
    BY <2>2
  <2>4. Len(x) = n
    BY <2>2
  <2>5. ASSUME NEW i \in 1 .. n PROVE x[i] = q.block[a + i - 1]
    <3>1. a + i \in 1 .. s /\ (a + i) - 1 = a + i - 1
      BY <1>1
    <3>2. f[a + i] = q.block[(a + i) - 1]
      BY <1>2, <3>1
    <3> HIDE DEF x, q
    <3> QED
      BY <2>3, <3>1, <3>2
  <2> QED
    BY <2>2, <2>4, <2>5
<1> HIDE DEF x
<1>4. DOMAIN x = 1 .. n
  BY <1>3, LenProperties
<1>5. Range(x) = {q.block[i] : i \in RunOf(a, n)}
  <2>1. \A i \in 1 .. n : a + i - 1 \in RunOf(a, n)
    BY DEF RunOf
  <2>2. \A i \in RunOf(a, n) : i - a + 1 \in 1 .. n /\ a + (i - a + 1) - 1 = i
    BY DEF RunOf
  <2>3. ASSUME NEW y \in Range(x) PROVE y \in {q.block[i] : i \in RunOf(a, n)}
    BY <1>3, <1>4, <2>1, <2>3 DEF Range
  <2>4. ASSUME NEW i \in RunOf(a, n) PROVE q.block[i] \in Range(x)
    <3>1. x[i - a + 1] = q.block[i]
      BY <1>3, <2>2
    <3> QED
      BY <1>4, <2>2, <3>1 DEF Range
  <2> QED
    BY <2>3, <2>4
<1>6. Store!Run(p, a + 1, a + n) = Range(x)
  BY <1>1 DEF Store!Run, Store!Range, Range, x, f
<1>7. \A i \in RunOf(a, n) : q.block[i] \in Entries(q.block)
  <2>1. \A i \in RunOf(a, n) : i \in 0 .. s - 1 /\ i \in Slot
    BY <1>1 DEF RunOf, Slot
  <2> QED
    BY <1>2, <2>1, BlocksCounted DEF Entries
<1>8. n > 0 => a + 1 \in DOMAIN f /\ a + n \in a + 1 .. Len(f)
  BY <1>1, <1>2
<1> QED
  BY <1>1, <1>5, <1>6, <1>7, <1>8

\* What all partitions hold is in use.
LEMMA HeldInUse == ASSUME Intact PROVE Store!Held \subseteq used
<1> SUFFICES ASSUME NEW p \in Selector, NEW i \in DOMAIN StoredSectors[p]
             PROVE  StoredSectors[p][i] \in used
  BY DEF Store!Held, Store!Range
<1> DEFINE q == partition[p]
<1>1. /\ q \in Partition /\ AllThere(q) /\ StoredSectors[p] = Sectors(q)
      /\ q.numblocks <= MaxBlocks /\ MaxBlocks \in Nat
      /\ Entries(q.block) \subseteq used
  BY PartitionsTyped, StoreChanges DEF Intact, Keeps, Holds
<1> HIDE DEF q
<1>2. /\ Sectors(q) \in Seq(Block) /\ Len(Sectors(q)) = q.numblocks /\ q.numblocks \in Nat
      /\ \A k \in 0 .. q.numblocks - 1 : q.block[k] \in Block
      /\ \A k \in 1 .. q.numblocks : Sectors(q)[k] = q.block[k - 1]
  BY <1>1, SectorsTyped
<1>3. i \in 1 .. q.numblocks
  BY <1>1, <1>2, LenProperties
<1>4. i - 1 \in 0 .. q.numblocks - 1 /\ i - 1 \in Slot
  BY <1>1, <1>2, <1>3 DEF Slot
<1>5. q.block[i - 1] \in Entries(q.block)
  BY <1>2, <1>4, BlocksCounted DEF Entries
<1> QED
  BY <1>1, <1>2, <1>3, <1>5

---------------------------------------------------------------------------
(***************************************************************************)
(* The claim of an open get-then-delete.                                   *)
(***************************************************************************)
Claiming == Transferring /\ trans.type = "GETDELSECTOR"

\* It is a run of sectors of its partition.
LEMMA ClaimIs ==
    ASSUME Intact, Within, Claiming
    PROVE  /\ trans.part \in Selector /\ trans.pos \in Nat /\ trans.total \in Nat
           /\ trans.pos + trans.total <= partition[trans.part].numblocks
           /\ Claimed = {partition[trans.part].block[i] : i \in RunOf(trans.pos, trans.total)}
           /\ Claimed = Store!Run(trans.part, trans.pos + 1, trans.pos + trans.total)
           /\ Claimed \subseteq Entries(partition[trans.part].block)
<1>1. trans.part \in Selector /\ trans.pos \in Nat /\ trans.total \in Nat
  BY BlocksCounted DEF Intact, Keeps, Moving, TransOk, Claiming
<1>2. trans.pos + trans.total <= partition[trans.part].numblocks
  BY DEF Within, TransferWithin, Claiming
<1>3. Claimed = {partition[trans.part].block[i] : i \in RunOf(trans.pos, trans.total)}
  BY DEF Claimed, Claiming, RunOf
<1> QED
  BY <1>1, <1>2, <1>3, RunIs

\* Without one nothing is claimed.
LEMMA NoClaim ==
    /\ ~Claiming => Claimed = {}
    /\ session' = FALSE \/ trans' = Idle \/ trans'.type # "GETDELSECTOR" => Claimed' = {}
BY DEF Claiming, Claimed, Transferring, Idle

\* The claim stays if the transfer does and its partition's counted slots.
LEMMA ClaimKept ==
    ASSUME Intact, Within, session' = session,
           /\ trans'.type = trans.type /\ trans'.part = trans.part
           /\ trans'.pos = trans.pos /\ trans'.total = trans.total,
           Claiming => \A i \in Slot : i < partition[trans.part].numblocks =>
             partition'[trans.part].block[i] = partition[trans.part].block[i]
    PROVE  Claimed' = Claimed
<1>1. Transferring' = Transferring
  BY DEF Transferring
<1>2. CASE ~Claiming
  BY <1>1, <1>2 DEF Claiming, Claimed
<1>3. CASE Claiming
  <2> DEFINE R == RunOf(trans.pos, trans.total)
             b == partition[trans.part].block
             c == partition'[trans.part].block
  <2>1. /\ trans.part \in Selector /\ trans.pos \in Nat /\ trans.total \in Nat
        /\ trans.pos + trans.total <= partition[trans.part].numblocks
        /\ Claimed = {b[i] : i \in R}
    BY <1>3, ClaimIs
  <2>2. Claimed' = {c[i] : i \in R}
    BY <1>1, <1>3 DEF Claiming, Claimed, RunOf
  <2>3. \A i \in R : i \in Slot /\ i < partition[trans.part].numblocks
    BY <2>1, PartitionsTyped DEF RunOf, Slot
  <2>4. \A i \in R : c[i] = b[i]
    BY <1>3, <2>3
  <2> HIDE DEF R, b, c
  <2> QED
    BY <2>1, <2>2, <2>4
<1> QED
  BY <1>2, <1>3

\* What changes partition p alone leaves the claim of another.
LEMMA ClaimElsewhere ==
    ASSUME Intact, Within, trans' = trans, session' = session,
           NEW p \in Selector, NEW q, partition' = [partition EXCEPT ![p] = q],
           Claiming => trans.part # p
    PROVE  Claimed' = Claimed
<1>1. partition \in [Selector -> Partition]
  BY PartitionsTyped
<1>2. Claiming => partition'[trans.part] = partition[trans.part]
  BY <1>1, ClaimIs
<1> QED
  BY <1>2, ClaimKept

\* Runs of another partition are not claimed.
LEMMA NotClaimed ==
    ASSUME Intact, Within, NEW p \in Selector, Claiming => trans.part # p
    PROVE  Entries(partition[p].block) \cap Claimed = {}
<1>1. CASE ~Claiming
  BY <1>1, NoClaim
<1>2. CASE Claiming
  <2>1. trans.part \in Selector /\ Claimed \subseteq Entries(partition[trans.part].block)
    BY <1>2, ClaimIs
  <2>2. Entries(partition[p].block) \cap Entries(partition[trans.part].block) = {}
    BY <1>2, <2>1 DEF Intact, Keeps, Holds
  <2> QED
    BY <2>1, <2>2
<1> QED
  BY <1>1, <1>2

\* The n entries of new, as a sequence.
Listed(n, new) == [k \in 1 .. n |-> new[k - 1]]

\* It is a sequence of blocks.
LEMMA ListedTyped ==
    ASSUME NEW n \in Nat, NEW new \in [0 .. n - 1 -> Block]
    PROVE  /\ Listed(n, new) \in Seq(Block) /\ Len(Listed(n, new)) = n
           /\ \A k \in 1 .. n : Listed(n, new)[k] = new[k - 1]
<1> DEFINE f == Listed(n, new)
<1>1. \A k \in 1 .. n : k - 1 \in 0 .. n - 1
  OBVIOUS
<1>2. f = [k \in 1 .. n |-> new[k - 1]]
  BY DEF Listed
<1> HIDE DEF f
<1>3. f \in [1 .. n -> Block] /\ \A k \in 1 .. n : f[k] = new[k - 1]
  BY <1>1, <1>2
<1>4. f \in Seq(Block)
  BY <1>3, SeqDef
<1>5. 1 .. n = 1 .. Len(f) /\ Len(f) \in Nat
  BY <1>3, <1>4, LenProperties
<1>6. Len(f) = n
  BY <1>5
<1> QED
  BY <1>3, <1>4, <1>6 DEF f

\* Sectors that come to a partition come to the end of its sequence.
LEMMA SectorsGrown ==
    ASSUME NEW q \in Partition, AllThere(q), NEW n \in Nat,
           q.numblocks + n <= MaxBlocks, NEW new \in [0 .. n - 1 -> Block], NEW size
    PROVE  Sectors(WithSectors(q, n, new, size)) = Sectors(q) \o Listed(n, new)
<1> DEFINE s == q.numblocks
           x == Sectors(q)
           y == Listed(n, new)
           w == WithSectors(q, n, new, size)
           d == w.block
           g == [i \in 1 .. s + n |-> d[i - 1]]
<1>1. /\ x \in Seq(Block) /\ Len(x) = s /\ s \in Nat
      /\ \A i \in 1 .. s : x[i] = q.block[i - 1]
  BY SectorsTyped
<1>2. /\ y \in Seq(Block) /\ Len(y) = n
      /\ \A k \in 1 .. n : y[k] = new[k - 1]
  BY ListedTyped
<1>3. d = [i \in Slot |-> IF i \in NextSlots(q, n) THEN new[i - s] ELSE q.block[i]]
  BY DEF WithSectors
<1>4. w.numblocks = s + n
  BY DEF WithSectors
<1>5. \A i \in 1 .. s + n : i - 1 \in Slot /\ (i - 1 \in NextSlots(q, n) <=> ~(i <= s))
  BY <1>1, BlocksCounted DEF Slot, NextSlots
<1>6. Sectors(w) = g
  BY <1>4 DEF Sectors
<1> HIDE DEF x, y, w, d
<1>7. \A i \in 1 .. s + n : d[i - 1] = IF i <= s THEN q.block[i - 1] ELSE new[(i - 1) - s]
  BY <1>3, <1>5
<1>8. /\ x \o y \in Seq(Block) /\ Len(x \o y) = s + n
      /\ \A i \in 1 .. s + n : (x \o y)[i] = IF i <= s THEN x[i] ELSE y[i - s]
  BY <1>1, <1>2, ConcatProperties
<1>9. ASSUME NEW i \in 1 .. s + n PROVE (x \o y)[i] = d[i - 1]
  <2>1. CASE i <= s
    BY <1>1, <1>7, <1>8, <2>1
  <2>2. CASE ~(i <= s)
    <3>1. i - s \in 1 .. n /\ (i - s) - 1 = (i - 1) - s
      BY <1>1, <2>2
    <3>2. y[i - s] = new[(i - s) - 1]
      BY <1>2, <3>1
    <3> QED
      BY <1>7, <1>8, <2>2, <3>1, <3>2
  <2> QED
    BY <2>1, <2>2
<1>10. x \o y = g
  <2>1. x \o y \in [1 .. s + n -> Block]
    BY <1>8, LenProperties
  <2> QED
    BY <1>9, <2>1
<1> QED
  BY <1>6, <1>10 DEF x, y, w

\* New blocks come to p from the free ones: the step of the store is an
\* Extend, provided that the claim stays.
LEMMA Extends ==
    ASSUME Intact, NEW p \in Selector, NEW n \in 1 .. MaxBlocks,
           NEW new \in Injection(0 .. n - 1, Free), NEW size,
           partition' = [partition EXCEPT ![p] = WithSectors(partition[p], n, new, size)],
           Claimed' = Claimed
    PROVE  Store!Extend(p)
<1> DEFINE q == partition[p]
           y == Listed(n, new)
<1>1. /\ MaxBlocks \in Nat /\ n \in Nat /\ q \in Partition /\ AllThere(q)
      /\ used \in SUBSET Block /\ Room(used, partition)
      /\ partition \in [Selector -> Partition]
  <2>1. used \in SUBSET Block /\ Room(used, partition)
    BY DEF Intact, Keeps, Counted
  <2> QED
    BY <2>1, PartitionsTyped
<1>2. /\ new \in [0 .. n - 1 -> Free] /\ new \in [0 .. n - 1 -> Block]
      /\ \A i, j \in 0 .. n - 1 : new[i] = new[j] => i = j
  BY DEF Injection, IsInjective, Free
<1>3. n <= Cardinality(Block \ used)
  <2>1. IsFiniteSet(0 .. n - 1) /\ Cardinality(0 .. n - 1) = n
    BY <1>1, FirstCounted
  <2>2. IsFiniteSet(Free) /\ Cardinality(Free) \in Nat
    BY <1>1, FreeCounted DEF Free
  <2>3. Cardinality(0 .. n - 1) <= Cardinality(Free)
    BY <2>1, <2>2, FS_Injection
  <2> QED
    BY <2>1, <2>3 DEF Free
<1>4. q.numblocks + n <= MaxBlocks
  BY <1>1, <1>3, RoomForFree
<1>5. /\ Sectors(WithSectors(q, n, new, size)) = Sectors(q) \o y
  BY <1>1, <1>2, <1>4, SectorsGrown
<1>6. StoredSectors' = [StoredSectors EXCEPT ![p] = StoredSectors[p] \o y]
  <2> HIDE DEF y
  <2> QED
    BY <1>5, StoreChanges
<1>7. y \in [1 .. n -> Block \ Store!Held]
  <2>1. \A k \in 1 .. n : k - 1 \in 0 .. n - 1
    BY <1>1
  <2>2. \A k \in 1 .. n : new[k - 1] \in Block \ Store!Held
    BY <1>2, <2>1, HeldInUse DEF Free
  <2> QED
    BY <2>2 DEF Listed
<1>8. \A j, k \in 1 .. n : y[j] = y[k] => j = k
  <2> SUFFICES ASSUME NEW j \in 1 .. n, NEW k \in 1 .. n, y[j] = y[k] PROVE j = k
    OBVIOUS
  <2>1. j - 1 \in 0 .. n - 1 /\ k - 1 \in 0 .. n - 1
    BY <1>1
  <2>2. new[j - 1] = new[k - 1]
    BY DEF Listed
  <2>3. j - 1 = k - 1
    BY <1>2, <2>1, <2>2
  <2> QED
    BY <2>3
<1> HIDE DEF y
<1>9. y \in Store!Injection(1 .. n, Block \ Store!Held)
  BY <1>7, <1>8 DEF Store!Injection, Store!IsInjective
<1> QED
  BY <1>6, <1>9 DEF Store!Extend

\* A run of sectors leaves partition p.
LEMMA Cuts ==
    ASSUME Intact, NEW p \in Selector, NEW a \in Nat, NEW n \in Nat,
           a + n <= partition[p].numblocks, NEW size,
           partition' = [partition EXCEPT
             ![p] = WithoutSectors(partition[p], a .. a + n - 1,
                                   partition[p].numblocks - n, size)]
    PROVE  StoredSectors' = [StoredSectors EXCEPT
             ![p] = Store!Cut(StoredSectors[p], a + 1, a + n)]
<1> DEFINE q == partition[p]
           s == q.numblocks
           w == WithoutSectors(q, a .. a + n - 1, s - n, size)
<1>1. q \in Partition /\ AllThere(q) /\ s \in Nat
  BY PartitionsTyped
<1>2. Sectors(w) = Store!Cut(Sectors(q), a + 1, a + n)
  <2>1. q \in Partition /\ AllThere(q) /\ s \in Nat /\ s = q.numblocks /\ a + n <= s
    BY <1>1
  <2> HIDE DEF q, s
  <2>2. Sectors(WithoutSectors(q, a .. a + n - 1, s - n, size))
          = Store!Cut(Sectors(q), a + 1, a + n)
    BY <2>1, SectorsCut
  <2> QED
    BY <2>2
<1>3. StoredSectors' = [StoredSectors EXCEPT ![p] = Sectors(w)]
  <2> HIDE DEF w
  <2>1. partition' = [partition EXCEPT ![p] = w]
    BY DEF w
  <2> QED
    BY <2>1, StoreChanges
<1>4. StoredSectors[p] = Sectors(q)
  BY StoreChanges
<1> QED
  BY <1>2, <1>3, <1>4

---------------------------------------------------------------------------
(***************************************************************************)
(* Steps that the store does not see, and those that end a transfer.       *)
(***************************************************************************)

\* What a step of the buffer is to the store: one of its steps or none.
StoreStutter == UNCHANGED <<StoredSectors, Claimed>>

StoreStep == Store!Next \/ StoreStutter

\* Partition p changes behind its sectors, the transfer goes on.
LEMMA BehindSectors ==
    ASSUME Intact, Within, NEW p \in Selector, trans' = trans, session' = session,
           \A r \in Selector : r # p => partition'[r] = partition[r],
           partition'[p].numblocks = partition[p].numblocks,
           \A i \in Slot : i < partition[p].numblocks
             => partition'[p].block[i] = partition[p].block[i]
    PROVE  StoreStutter
<1>1. ASSUME NEW r \in Selector PROVE Sectors(partition'[r]) = Sectors(partition[r])
  <2>1. CASE r = p
    <3> DEFINE s == partition[p].numblocks
               b == partition[p].block
               c == partition'[p].block
    <3>1. \A i \in 1 .. s : i - 1 \in Slot /\ i - 1 < s
      BY PartitionsTyped DEF Slot
    <3>2. \A i \in 1 .. s : c[i - 1] = b[i - 1]
      BY <3>1
    <3> HIDE DEF b, c
    <3>3. [i \in 1 .. s |-> c[i - 1]] = [i \in 1 .. s |-> b[i - 1]]
      BY <3>2
    <3> QED
      BY <2>1, <3>3 DEF Sectors, b, c
  <2>2. CASE r # p
    BY <2>2
  <2> QED
    BY <2>1, <2>2
<1>2. StoredSectors' = StoredSectors
  <2>1. StoredSectors = [r \in Selector |-> Sectors(partition[r])]
    BY DEF StoredSectors, Sectors
  <2>2. StoredSectors' = [r \in Selector |-> Sectors(partition'[r])]
    BY DEF StoredSectors, Sectors
  <2> QED
    BY <1>1, <2>1, <2>2
<1>3. Claiming => \A i \in Slot : i < partition[trans.part].numblocks =>
                    partition'[trans.part].block[i] = partition[trans.part].block[i]
  BY ClaimIs
<1>4. Claimed' = Claimed
  BY <1>3, ClaimKept
<1> QED
  BY <1>2, <1>4 DEF StoreStutter

\* The buffer stays as it is and so does the claim.
LEMMA BufferStays ==
    ASSUME Intact, Within, partition' = partition, session' = session,
           /\ trans'.type = trans.type /\ trans'.part = trans.part
           /\ trans'.pos = trans.pos /\ trans'.total = trans.total
    PROVE  StoreStutter
<1>1. StoredSectors' = StoredSectors
  BY DEF StoredSectors
<1>2. Claimed' = Claimed
  BY ClaimKept
<1> QED
  BY <1>1, <1>2 DEF StoreStutter

\* The buffer stays and the transfer ends.
LEMMA TransferOver ==
    ASSUME partition' = partition, trans' = Idle \/ session' = FALSE
    PROVE  Store!Next
<1>1. StoredSectors' = StoredSectors
  BY DEF StoredSectors
<1>2. Claimed' = {}
  BY NoClaim
<1> QED
  BY <1>1, <1>2 DEF Store!Next, Store!Release

\* The drive finds no block.
LEMMA NoBlockStep ==
    ASSUME Intact, Within, NEW p \in Selector, NoBlockLeft(p), UNCHANGED transferVars
    PROVE  StoreStutter
<1> DEFINE q == partition[p]
           c == Without(q.block, {q.numblocks})
           w == [q EXCEPT !.block = c]
<1>1. /\ q \in Partition /\ q.numblocks \in Nat /\ q.block \in Slots
      /\ partition \in [Selector -> Partition] /\ Slot \subseteq Nat
  BY PartitionsTyped, BlocksCounted DEF Slot
<1>2. partition' = [partition EXCEPT ![p] = w]
  BY <1>1 DEF NoBlockLeft
<1>3. \A i \in Slot : i < q.numblocks => c[i] = q.block[i]
  BY <1>1 DEF Without, Slots
<1>4. w.block = c /\ w.numblocks = q.numblocks
  BY <1>1 DEF Partition
<1> HIDE DEF c, w
<1>5. /\ partition'[p] = w
      /\ \A r \in Selector : r # p => partition'[r] = partition[r]
  BY <1>1, <1>2
<1> QED
  BY <1>3, <1>4, <1>5, BehindSectors DEF transferVars

\* A directory passes through the slot behind the sectors.
LEMMA FileSystemStep ==
    ASSUME Intact, Within, NEW p \in Selector, Cs2ReadFileSystem(p)
    PROVE  StoreStutter
<1> DEFINE q == partition[p]
           s == q.numblocks
           R == {s}
           c == Cs2SortBlocks(Without(q.block, R))
           size == SizeOf(q)
           w == WithoutSectors(q, R, s, size)
<1>1. /\ \A i \in Nat : i < s => i \in Full(q.block)
      /\ q.block \in Slots /\ s \in Nat
  BY PartitionsTyped, CountedFull
<1>2. R \cap (0 .. s - 1) = {}
  BY <1>1
<1>3. CASE NoBlockLeft(p)
  BY <1>3, NoBlockStep DEF Cs2ReadFileSystem
<1>4. CASE partition' = [partition EXCEPT ![p] = w]
  <2>1. \A i \in Slot : i < s => i \in 0 .. s - 1
    BY <1>1, BlocksCounted DEF Slot
  <2>2. w.block = c /\ w.numblocks = s
    BY DEF WithoutSectors
  <2>3. trans' = trans /\ session' = session
    BY DEF Cs2ReadFileSystem, transferVars
  <2> HIDE DEF w, R
  <2>4. /\ partition'[p] = w
        /\ \A r \in Selector : r # p => partition'[r] = partition[r]
    BY <1>4, PartitionsTyped
  <2>5. \A i \in 0 .. s - 1 : c[i] = q.block[i]
    <3> HIDE DEF q, s
    <3> QED
      BY <1>1, <1>2, FirstStay
  <2> HIDE DEF c
  <2>6. \A i \in Slot : i < partition[p].numblocks => partition'[p].block[i] = partition[p].block[i]
    BY <2>1, <2>2, <2>4, <2>5
  <2> QED
    BY <2>2, <2>3, <2>4, <2>6, BehindSectors
<1> QED
  BY <1>3, <1>4 DEF Cs2ReadFileSystem

\* A block that could not be filled stays behind the sectors.
LEMMA FailureStep ==
    ASSUME Intact, Within, NEW p \in Selector, Cs2ReadUnFilteredSectorFails(p)
    PROVE  StoreStutter
<1>1. PICK b \in Free :
        partition' = [partition EXCEPT ![p].block[partition[p].numblocks] = b]
  BY DEF Cs2ReadUnFilteredSectorFails
<1> DEFINE q == partition[p]
           c == [q.block EXCEPT ![q.numblocks] = b]
           w == [q EXCEPT !.block = c]
<1>2. /\ q \in Partition /\ q.numblocks \in Nat /\ q.block \in Slots
      /\ partition \in [Selector -> Partition] /\ Slot \subseteq Nat
  BY PartitionsTyped, BlocksCounted DEF Slot
<1>3. partition' = [partition EXCEPT ![p] = w]
  BY <1>1, <1>2
<1>4. \A i \in Slot : i < q.numblocks => c[i] = q.block[i]
  BY <1>2 DEF Slots
<1>5. w.block = c /\ w.numblocks = q.numblocks
  BY <1>2 DEF Partition
<1> HIDE DEF c, w
<1>6. /\ partition'[p] = w
      /\ \A r \in Selector : r # p => partition'[r] = partition[r]
  BY <1>2, <1>3
<1>7. trans' = trans /\ session' = session
  BY DEF Cs2ReadUnFilteredSectorFails, transferVars
<1> QED
  BY <1>4, <1>5, <1>6, <1>7, BehindSectors

\* Sectors that come to a partition leave the claim.
LEMMA GrowthKeepsClaim ==
    ASSUME Intact, Within, NEW p \in Selector, NEW n, NEW new, NEW size,
           trans' = trans, session' = session,
           partition' = [partition EXCEPT ![p] = WithSectors(partition[p], n, new, size)]
    PROVE  Claimed' = Claimed
<1> DEFINE q == partition[p]
           w == WithSectors(q, n, new, size)
<1>1. /\ partition \in [Selector -> Partition] /\ Slot \subseteq Nat
      /\ q.numblocks \in Nat
  BY PartitionsTyped, BlocksCounted DEF Slot
<1>2. \A i \in Slot : w.block[i] = IF i \in NextSlots(q, n)
                                   THEN new[i - q.numblocks] ELSE q.block[i]
  BY DEF WithSectors
<1>3. \A i \in Slot : i < q.numblocks => i \notin NextSlots(q, n)
  BY <1>1 DEF NextSlots
<1> HIDE DEF w
<1>4. \A r \in Selector : partition'[r] = IF r = p THEN w ELSE partition[r]
  BY <1>1 DEF w
<1>5. \A r \in Selector : \A i \in Slot : i < partition[r].numblocks
        => partition'[r].block[i] = partition[r].block[i]
  BY <1>2, <1>3, <1>4
<1>6. Claiming => \A i \in Slot : i < partition[trans.part].numblocks =>
                    partition'[trans.part].block[i] = partition[trans.part].block[i]
  BY <1>5, ClaimIs
<1> QED
  BY <1>6, ClaimKept

---------------------------------------------------------------------------
(***************************************************************************)
(* The commands, one after the other.                                      *)
(***************************************************************************)

\* An Extend is a step of the store.
LEMMA ExtendIsStep ==
    ASSUME NEW p \in Selector, Store!Extend(p) PROVE StoreStep
BY DEF StoreStep, Store!Next

\* The drive stores a sector.
LEMMA FilterStep ==
    ASSUME Intact, Within, NEW p \in Selector, Cs2FilterData(p)
    PROVE  StoreStep
<1>1. UNCHANGED transferVars /\ trans' = trans /\ session' = session
  BY DEF Cs2FilterData, transferVars
<1>2. CASE NoBlockLeft(p)
  BY <1>1, <1>2, NoBlockStep DEF StoreStep
<1>3. CASE ~NoBlockLeft(p)
  <2> DEFINE size == SizeOf(partition[p]) + SectorSize
  <2>1. PICK b \in Free :
          partition' = [partition EXCEPT
            ![p] = WithSectors(partition[p], 1, [k \in {0} |-> b], size)]
    BY <1>3, Zenon DEF Cs2FilterData
  <2> DEFINE new == [k \in {0} |-> b]
  <2>2. 0 .. 1 - 1 = {0}
    OBVIOUS
  <2>3. new \in Injection({0}, Free)
    BY DEF Injection, IsInjective
  <2>4. new \in Injection(0 .. 1 - 1, Free)
    BY <2>2, <2>3
  <2>5. 1 \in 1 .. MaxBlocks
    <3>1. used \subseteq Block /\ MaxBlocks \in Nat
      BY BlocksCounted DEF Intact, Keeps, Counted
    <3>2. MaxBlocks # 0
      BY BlockAssumption, FS_EmptySet DEF MaxBlocks
    <3> QED
      BY <3>1, <3>2
  <2> HIDE DEF size, new
  <2>6. partition' = [partition EXCEPT ![p] = WithSectors(partition[p], 1, new, size)]
    BY <2>1 DEF new
  <2>7. Claimed' = Claimed
    BY <1>1, <2>6, GrowthKeepsClaim
  <2>8. Store!Extend(p)
    BY <2>4, <2>5, <2>6, <2>7, Extends
  <2> QED
    BY <2>8, ExtendIsStep
<1> QED
  BY <1>2, <1>3

\* A put takes blocks for the sectors that will come, in between two claims.
LEMMA PutStep ==
    ASSUME Intact, Within, Disciplined, NEW p \in Selector, NEW n \in 1 .. MaxBlocks,
           Cs2PutSectorData(p, n)
    PROVE  StoreStep
<1> DEFINE size == n * SectorSize
<1>1. PICK new \in Injection(0 .. n - 1, Free) :
        partition' = [partition EXCEPT ![p] = WithSectors(partition[p], n, new, size)]
  BY DEF Cs2PutSectorData
<1>2. Claimed = {}
  BY NoClaim DEF Cs2PutSectorData, MayStart, Claiming, Transferring
<1>3. Claimed' = {}
  <2>1. trans'.type = "PUTSECTOR"
    BY DEF Cs2PutSectorData, Transfer, Idle
  <2> QED
    BY <2>1, NoClaim
<1> HIDE DEF size
<1>4. Store!Extend(p)
  BY <1>1, <1>2, <1>3, Extends
<1> QED
  BY <1>4, ExtendIsStep

\* A copy of sectors comes to dest.
LEMMA CopyStep ==
    ASSUME Intact, Within, NEW p \in Selector, NEW off, NEW n \in 1 .. MaxBlocks,
           NEW dest \in Selector, Cs2CopySectorData(p, off, n, dest)
    PROVE  StoreStep
<1> DEFINE size == partition[dest].size + n * SectorSize
<1>1. PICK new \in Injection(0 .. n - 1, Free) :
        partition' = [partition EXCEPT ![dest] = WithSectors(partition[dest], n, new, size)]
  BY DEF Cs2CopySectorData
<1>2. trans' = trans /\ session' = session
  BY DEF Cs2CopySectorData, transferVars
<1> HIDE DEF size
<1>3. Claimed' = Claimed
  BY <1>1, <1>2, GrowthKeepsClaim
<1>4. Store!Extend(dest)
  BY <1>1, <1>3, Extends
<1> QED
  BY <1>4, ExtendIsStep

\* A get starts: the store does not see it.
LEMMA GetStep ==
    ASSUME Disciplined, NEW p, NEW off, NEW n, Cs2GetSectorData(p, off, n)
    PROVE  StoreStep
<1>1. Claimed = {}
  BY NoClaim DEF Cs2GetSectorData, MayStart, Claiming, Transferring
<1>2. trans'.type = "GETSECTOR" /\ partition' = partition
  BY DEF Cs2GetSectorData, Transfer, Idle
<1>3. Claimed' = {}
  BY <1>2, NoClaim
<1>4. StoredSectors' = StoredSectors
  BY <1>2 DEF StoredSectors
<1> QED
  BY <1>1, <1>3, <1>4 DEF StoreStep, StoreStutter

\* A get-then-delete starts and claims its sectors.
LEMMA ClaimStep ==
    ASSUME Intact, Disciplined, NEW p \in Selector, NEW off \in Slot,
           NEW n \in 1 .. MaxBlocks, Cs2GetThenDeleteSectorData(p, off, n)
    PROVE  StoreStep
<1> DEFINE b == partition[p].block
<1>1. /\ off \in Nat /\ n \in Nat /\ n > 0 /\ off + n <= partition[p].numblocks
  BY RangeKnown DEF Cs2GetThenDeleteSectorData, InRange
<1>2. Claimed = {}
  BY NoClaim DEF Cs2GetThenDeleteSectorData, MayStart, Claiming, Transferring
<1>3. /\ trans'.type = "GETDELSECTOR" /\ trans'.part = p /\ trans'.pos = off
      /\ trans'.total = n /\ session' = TRUE /\ partition' = partition
  BY DEF Cs2GetThenDeleteSectorData, Transfer, Idle
<1>4. Claimed' = {b[i] : i \in RunOf(off, n)}
  BY <1>3 DEF Claimed, Transferring, RunOf
<1>5. /\ Store!Run(p, off + 1, off + n) = {b[i] : i \in RunOf(off, n)}
      /\ off + 1 \in DOMAIN StoredSectors[p]
      /\ off + n \in off + 1 .. Len(StoredSectors[p])
  BY <1>1, RunIs
<1>6. StoredSectors' = StoredSectors
  BY <1>3 DEF StoredSectors
<1> HIDE DEF b
<1>7. Store!Claim(p, off + 1, off + n)
  BY <1>2, <1>4, <1>5, <1>6 DEF Store!Claim
<1> QED
  BY <1>5, <1>7 DEF StoreStep, Store!Next

\* A run of p is deleted, which the protocol keeps apart from the claim.
LEMMA DeleteStep ==
    ASSUME Intact, Within, Disciplined, NEW p \in Selector, NEW off \in Slot,
           NEW n \in 1 .. MaxBlocks, Cs2DeleteSectorData(p, off, n)
    PROVE  StoreStep
<1>1. /\ off \in Nat /\ n \in Nat /\ n > 0 /\ off + n <= partition[p].numblocks
  BY RangeKnown DEF Cs2DeleteSectorData, InRange
<1>2. PICK size \in Sizes :
        partition' = [partition EXCEPT
          ![p] = WithoutSectors(partition[p], off .. off + n - 1,
                                partition[p].numblocks - n, size)]
  BY DEF Cs2DeleteSectorData
<1> DEFINE w == WithoutSectors(partition[p], off .. off + n - 1,
                               partition[p].numblocks - n, size)
<1>3. Claiming => trans.part # p
  BY DEF Cs2DeleteSectorData, MayTakeFrom, Claiming
<1>4. StoredSectors' = [StoredSectors EXCEPT
        ![p] = Store!Cut(StoredSectors[p], off + 1, off + n)]
  BY <1>1, <1>2, Cuts
<1>5. Claimed' = Claimed
  <2>1. trans' = trans /\ session' = session
    BY DEF Cs2DeleteSectorData, transferVars
  <2>2. partition' = [partition EXCEPT ![p] = w]
    BY <1>2
  <2> HIDE DEF w
  <2> QED
    BY <1>3, <2>1, <2>2, ClaimElsewhere
<1>6. /\ Store!Run(p, off + 1, off + n) \cap Claimed = {}
      /\ off + 1 \in DOMAIN StoredSectors[p]
      /\ off + n \in off + 1 .. Len(StoredSectors[p])
  <2>1. /\ Store!Run(p, off + 1, off + n) = {partition[p].block[i] : i \in RunOf(off, n)}
        /\ \A i \in RunOf(off, n) : partition[p].block[i] \in Entries(partition[p].block)
    BY <1>1, RunIs
  <2>2. Entries(partition[p].block) \cap Claimed = {}
    BY <1>3, NotClaimed
  <2>3. /\ off + 1 \in DOMAIN StoredSectors[p]
        /\ off + n \in off + 1 .. Len(StoredSectors[p])
    BY <1>1, RunIs
  <2> QED
    BY <2>1, <2>2, <2>3
<1>7. Store!Delete(p, off + 1, off + n)
  BY <1>4, <1>5, <1>6 DEF Store!Delete
<1> QED
  BY <1>6, <1>7 DEF StoreStep, Store!Next

\* The sectors of a run, in their order.
LEMMA RunListed ==
    ASSUME Intact, NEW p \in Selector, NEW a \in Nat, NEW n \in Nat,
           a + n <= partition[p].numblocks
    PROVE  LET moved == [k \in 0 .. n - 1 |-> partition[p].block[a + k]]
           IN  /\ moved \in [0 .. n - 1 -> Block]
               /\ SubSeq(StoredSectors[p], a + 1, a + n) = Listed(n, moved)
<1> DEFINE q == partition[p]
           s == q.numblocks
           b == q.block
           f == Sectors(q)
           moved == [k \in 0 .. n - 1 |-> b[a + k]]
           x == SubSeq(f, a + 1, a + n)
           y == Listed(n, moved)
<1>1. /\ q \in Partition /\ AllThere(q) /\ s \in Nat /\ StoredSectors[p] = f
  BY PartitionsTyped, StoreChanges
<1>2. /\ f \in Seq(Block) /\ Len(f) = s
      /\ \A i \in 0 .. s - 1 : b[i] \in Block
      /\ \A i \in 1 .. s : f[i] = b[i - 1]
  BY <1>1, SectorsTyped
<1>3. \A k \in 0 .. n - 1 : a + k \in 0 .. s - 1
  BY <1>1
<1>4. moved \in [0 .. n - 1 -> Block] /\ \A k \in 0 .. n - 1 : moved[k] = b[a + k]
  <2> HIDE DEF b, s
  <2> QED
    BY <1>2, <1>3
<1>5. /\ y \in Seq(Block) /\ Len(y) = n /\ \A k \in 1 .. n : y[k] = moved[k - 1]
  <2> HIDE DEF moved
  <2> QED
    BY <1>4, ListedTyped
<1> HIDE DEF f, y, moved
<1>6. /\ x \in Seq(Block) /\ Len(x) = n /\ \A k \in 1 .. n : x[k] = f[a + k]
  <2>1. \A i \in a + 1 .. a + n : f[i] \in Block
    BY <1>1, <1>2, ElementOfSeq
  <2>2. /\ x \in Seq(Block)
        /\ Len(x) = IF a + 1 <= a + n THEN (a + n) - (a + 1) + 1 ELSE 0
        /\ \A i \in 1 .. (a + n) - (a + 1) + 1 : x[i] = f[(a + 1) + i - 1]
    BY <2>1, SubSeqProperties
  <2> HIDE DEF x
  <2> QED
    BY <2>2
<1> HIDE DEF x
<1>7. ASSUME NEW k \in 1 .. n PROVE x[k] = y[k]
  <2>1. a + k \in 1 .. s /\ (a + k) - 1 = a + (k - 1) /\ k - 1 \in 0 .. n - 1
    BY <1>1
  <2>2. f[a + k] = b[(a + k) - 1]
    BY <1>2, <2>1
  <2> QED
    BY <1>4, <1>5, <1>6, <2>1, <2>2
<1>8. x = y
  BY <1>5, <1>6, <1>7, SeqEqual
<1> QED
  BY <1>1, <1>4, <1>8 DEF x, y, moved

\* A run of p goes to the end of dest.
LEMMA MoveStep ==
    ASSUME Intact, Within, Disciplined, NEW p \in Selector, NEW off \in Slot,
           NEW n \in 1 .. MaxBlocks, NEW dest \in Selector,
           Cs2MoveSectorData(p, off, n, dest)
    PROVE  StoreStep
<1> DEFINE q == partition[p]
           r == partition[dest]
           moved == [k \in 0 .. n - 1 |-> q.block[off + k]]
           less == q.size - n * SectorSize
           more == r.size + n * SectorSize
           w == WithoutSectors(q, off .. off + n - 1, q.numblocks - n, less)
           g == WithSectors(r, n, moved, more)
           s == q.numblocks
           y == SubSeq(StoredSectors[p], off + 1, off + n)
           cut == Store!Cut(StoredSectors[p], off + 1, off + n)
<1>1. /\ off \in Nat /\ n \in Nat /\ n > 0 /\ off + n <= q.numblocks /\ MaxBlocks \in Nat
      /\ q \in Partition /\ AllThere(q) /\ s \in Nat
      /\ r \in Partition /\ AllThere(r) /\ r.numblocks \in Nat
      /\ partition \in [Selector -> Partition]
  <2>1. /\ off \in Nat /\ n \in Nat /\ n > 0 /\ MaxBlocks \in Nat
        /\ off + n <= q.numblocks
    BY RangeKnown, MoveIs
  <2> QED
    BY <2>1, PartitionsTyped
<1>2. /\ p # dest /\ trans' = trans /\ session' = session
      /\ partition' = [partition EXCEPT ![p] = w, ![dest] = g]
  BY MoveIs DEF transferVars
<1>3. Claiming => trans.part # p
  BY MoveIs DEF MayTakeFrom, Claiming
<1>4. q.numblocks + r.numblocks <= MaxBlocks
  <2>1. used \in SUBSET Block /\ Room(used, partition)
    BY DEF Intact, Keeps, Counted
  <2> QED
    BY <1>1, <1>2, <2>1, RoomForMoved
<1>5. moved \in [0 .. n - 1 -> Block] /\ y = Listed(n, moved)
  BY <1>1, RunListed
<1>6. Sectors(w) = cut
  <2>1. q \in Partition /\ AllThere(q) /\ s \in Nat /\ s = q.numblocks /\ off + n <= s
    BY <1>1
  <2>2. StoredSectors[p] = Sectors(q)
    BY StoreChanges
  <2> HIDE DEF q, s, less
  <2>3. Sectors(WithoutSectors(q, off .. off + n - 1, s - n, less))
          = Store!Cut(Sectors(q), off + 1, off + n)
    BY <1>1, <2>1, SectorsCut
  <2> QED
    BY <2>1, <2>2, <2>3
<1>7. Sectors(g) = StoredSectors[dest] \o y
  <2>1. StoredSectors[dest] = Sectors(r)
    BY StoreChanges
  <2>2. r.numblocks + n <= MaxBlocks
    BY <1>1, <1>4
  <2> HIDE DEF r, moved, more, y
  <2>3. Sectors(g) = Sectors(r) \o Listed(n, moved)
    BY <1>1, <1>5, <2>2, SectorsGrown
  <2> QED
    BY <1>5, <2>1, <2>3
<1>8. \A t \in Selector : partition'[t] = IF t = dest THEN g ELSE IF t = p THEN w ELSE partition[t]
  <2> HIDE DEF g, w
  <2> QED
    BY <1>1, <1>2
<1>9. StoredSectors' = [StoredSectors EXCEPT ![p] = cut, ![dest] = @ \o y]
  <2>1. StoredSectors = [t \in Selector |-> Sectors(partition[t])]
    BY DEF StoredSectors, Sectors
  <2>2. StoredSectors' = [t \in Selector |-> Sectors(partition'[t])]
    BY DEF StoredSectors, Sectors
  <2> DEFINE T == StoredSectors
             more2 == T[dest] \o y
  <2>3. [StoredSectors EXCEPT ![p] = cut, ![dest] = @ \o y]
          = [T EXCEPT ![p] = cut, ![dest] = more2]
    <3>1. [T EXCEPT ![p] = cut][dest] = T[dest]
      BY <1>2, <2>1
    <3> QED
      BY <3>1
  <2>4. \A t \in Selector : T[t] = Sectors(partition[t])
    BY <2>1
  <2>5. T = [t \in Selector |-> T[t]]
    BY <2>1
  <2> HIDE DEF g, w, cut, y, T, more2
  <2>6. \A t \in Selector : Sectors(partition'[t])
          = IF t = dest THEN more2 ELSE IF t = p THEN cut ELSE T[t]
    BY <1>6, <1>7, <1>8, <2>4 DEF more2, T
  <2>7. [T EXCEPT ![p] = cut, ![dest] = more2]
          = [t \in Selector |-> IF t = dest THEN more2 ELSE IF t = p THEN cut ELSE T[t]]
    BY <1>2, <2>5
  <2>8. StoredSectors' = [t \in Selector |->
                            IF t = dest THEN more2 ELSE IF t = p THEN cut ELSE T[t]]
    BY <2>2, <2>6
  <2> QED
    BY <2>3, <2>7, <2>8
<1>10. Claimed' = Claimed
  <2>1. \A i \in Slot : g.block[i] = IF i \in NextSlots(r, n)
                                     THEN moved[i - r.numblocks] ELSE r.block[i]
    <3> HIDE DEF moved
    <3> QED
      BY DEF WithSectors
  <2>2. \A i \in Slot : i < r.numblocks => i \notin NextSlots(r, n)
    BY <1>1, BlocksCounted DEF NextSlots, Slot
  <2> HIDE DEF g, w, moved
  <2>3. \A t \in Selector \ {p} : \A i \in Slot : i < partition[t].numblocks
          => partition'[t].block[i] = partition[t].block[i]
    BY <1>8, <2>1, <2>2
  <2>4. Claiming => \A i \in Slot : i < partition[trans.part].numblocks =>
                      partition'[trans.part].block[i] = partition[trans.part].block[i]
    BY <1>3, <2>3, ClaimIs
  <2> QED
    BY <1>2, <2>4, ClaimKept
<1>11. /\ Store!Run(p, off + 1, off + n) \cap Claimed = {}
       /\ off + 1 \in DOMAIN StoredSectors[p]
       /\ off + n \in off + 1 .. Len(StoredSectors[p])
  <2>1. /\ Store!Run(p, off + 1, off + n) = {partition[p].block[i] : i \in RunOf(off, n)}
        /\ \A i \in RunOf(off, n) : partition[p].block[i] \in Entries(partition[p].block)
    BY <1>1, RunIs
  <2>2. Entries(partition[p].block) \cap Claimed = {}
    BY <1>3, NotClaimed
  <2> QED
    BY <1>1, <2>1, <2>2, RunIs
<1> HIDE DEF g, w, moved, s
<1>12. Store!Move(p, off + 1, off + n, dest)
  BY <1>2, <1>9, <1>10, <1>11 DEF Store!Move, cut, y
<1> QED
  BY <1>11, <1>12 DEF StoreStep, Store!Next

\* A partition that counts none is the empty sequence.
LEMMA NoSectors ==
    ASSUME NEW q, q.numblocks = 0
    PROVE  Sectors(q) = <<>>
<1>1. 1 .. q.numblocks = {}
  OBVIOUS
<1>2. Sectors(q) = [i \in {} |-> q.block[i - 1]]
  BY <1>1 DEF Sectors
<1> QED
  BY <1>2

\* A get-then-delete ends: what it claimed leaves.
LEMMA TransferredStep ==
    ASSUME Intact, Within, session, trans.type = "GETDELSECTOR", DeleteTransferred
    PROVE  StoreStep
<1> DEFINE p == trans.part
           a == trans.pos
           n == trans.total
           q == partition[p]
           size == q.size - trans.cdwnum
           w == WithoutSectors(q, a .. a + n - 1, q.numblocks - n, size)
<1>1. Claiming
  BY DEF Claiming, Transferring
<1>2. /\ p \in Selector /\ a \in Nat /\ n \in Nat /\ a + n <= q.numblocks
      /\ Claimed = {q.block[i] : i \in RunOf(a, n)}
      /\ Claimed = Store!Run(p, a + 1, a + n)
  BY <1>1, ClaimIs
<1>3. q.numblocks \in Nat /\ q \in Partition /\ AllThere(q)
  BY <1>2, PartitionsTyped
<1>4. NumblocksAfter(q.numblocks, n) = q.numblocks - n
  BY <1>2, <1>3 DEF NumblocksAfter
<1>5. partition' = [partition EXCEPT ![p] = w] /\ trans' = Idle
  BY <1>4 DEF DeleteTransferred
<1>6. Claimed' = {}
  BY <1>5, NoClaim
<1>7. CASE n = 0
  <2>1. RunOf(a, n) = {} /\ a .. a + n - 1 = {} /\ q.numblocks - n = q.numblocks
    BY <1>2, <1>3, <1>7 DEF RunOf
  <2>2. Claimed = {}
    BY <1>2, <2>1
  <2>3. w = WithoutSectors(q, {}, q.numblocks, size)
    BY <2>1
  <2> HIDE DEF w, q, size
  <2>4. Sectors(w) = Sectors(q)
    BY <1>3, <2>3, SectorsRest
  <2>5. StoredSectors' = [StoredSectors EXCEPT ![p] = Sectors(w)] /\ StoredSectors[p] = Sectors(q)
    BY <1>2, <1>5, StoreChanges DEF q
  <2>6. StoredSectors' = StoredSectors
    BY <2>4, <2>5 DEF StoredSectors
  <2> QED
    BY <1>6, <2>2, <2>6 DEF StoreStep, StoreStutter
<1>8. CASE n # 0
  <2>1. StoredSectors' = [StoredSectors EXCEPT
          ![p] = Store!Cut(StoredSectors[p], a + 1, a + n)]
    <3> HIDE DEF size, a, n, p
    <3> QED
      BY <1>2, <1>5, Cuts
  <2>2. a + 1 \in DOMAIN StoredSectors[p] /\ a + n \in a + 1 .. Len(StoredSectors[p])
    BY <1>2, <1>8, RunIs
  <2> HIDE DEF w, a, n, p
  <2>3. Store!Drop(p, a + 1, a + n)
    BY <1>2, <1>6, <2>1 DEF Store!Drop
  <2> QED
    BY <1>2, <2>2, <2>3 DEF StoreStep, Store!Next
<1> QED
  BY <1>7, <1>8

\* A word through the port.
LEMMA AdvancedStep ==
    ASSUME Intact, Within, NEW slot, Advanced(slot), partition' = partition,
           session' = session
    PROVE  StoreStep
<1>1. /\ trans'.type = trans.type /\ trans'.part = trans.part
      /\ trans'.pos = trans.pos /\ trans'.total = trans.total
  BY DEF Advanced, Intact, Keeps, Moving, TransOk
<1> QED
  BY <1>1, BufferStays DEF StoreStep

\* The port and the end of a transfer.
LEMMA PortStep ==
    ASSUME Intact, Within, Disciplined, Cs2ReadLong \/ Cs2WriteLong \/ Cs2EndDataTransfer
    PROVE  StoreStep
<1>1. session
  BY DEF Cs2ReadLong, Cs2WriteLong, Cs2EndDataTransfer, MayAccess
<1>2. CASE trans.type = "GETDELSECTOR" /\ DeleteTransferred
  BY <1>1, <1>2, TransferredStep
<1>3. ASSUME NEW slot, Advanced(slot), partition' = partition, session' = session
      PROVE  StoreStep
  BY <1>3, AdvancedStep
<1>4. CASE partition' = partition /\ session' = FALSE
  BY <1>4, TransferOver DEF StoreStep
<1> QED
  BY <1>2, <1>3, <1>4 DEF Cs2ReadLong, Cs2WriteLong, Cs2EndDataTransfer

\* Partition p is emptied, which is not the one whose sectors are claimed.
LEMMA ResetStep ==
    ASSUME Intact, Within, Disciplined, NEW p \in Selector, Cs2ResetSelector(p)
    PROVE  StoreStep
<1> DEFINE q == partition[p]
           w == [block |-> Without(q.block, 0 .. q.numblocks - 1), numblocks |-> 0,
                 size |-> -1]
<1>1. /\ partition' = [partition EXCEPT ![p] = w] /\ session' = session
      /\ trans' = Idle \/ trans' = trans
  BY DEF Cs2ResetSelector
<1>2. Claiming => trans.part # p
  BY DEF Cs2ResetSelector, MayReset, Claiming
<1>3. Sectors(w) = <<>>
  BY NoSectors
<1> HIDE DEF w
<1>4. StoredSectors' = [StoredSectors EXCEPT ![p] = <<>>]
  BY <1>1, <1>3, StoreChanges
<1>5. Claimed' = Claimed \/ Claimed' = {}
  <2>1. CASE trans' = Idle
    BY <2>1, NoClaim
  <2>2. CASE trans' = trans
    BY <1>1, <1>2, <2>2, ClaimElsewhere
  <2> QED
    BY <1>1, <2>1, <2>2
<1>6. Store!Range(StoredSectors[p]) \subseteq Entries(q.block)
  <2>1. /\ q \in Partition /\ AllThere(q) /\ q.numblocks \in Nat /\ MaxBlocks \in Nat
        /\ q.numblocks <= MaxBlocks /\ StoredSectors[p] = Sectors(q)
    BY PartitionsTyped, StoreChanges
  <2> DEFINE f == Sectors(q)
  <2>2. /\ f \in Seq(Block) /\ Len(f) = q.numblocks
        /\ \A i \in 0 .. q.numblocks - 1 : q.block[i] \in Block
        /\ \A i \in 1 .. q.numblocks : f[i] = q.block[i - 1]
    BY <2>1, SectorsTyped
  <2> HIDE DEF f
  <2>3. ASSUME NEW i \in DOMAIN f PROVE f[i] \in Entries(q.block)
    <3>1. i \in 1 .. q.numblocks
      BY <2>2, LenProperties
    <3>2. i - 1 \in 0 .. q.numblocks - 1 /\ i - 1 \in Slot
      BY <2>1, <3>1 DEF Slot
    <3>3. f[i] = q.block[i - 1] /\ q.block[i - 1] \in Block
      BY <2>2, <3>1, <3>2
    <3> QED
      BY <3>2, <3>3, BlocksCounted DEF Entries
  <2> QED
    BY <2>1, <2>3 DEF Store!Range, f
<1>7. Store!Range(StoredSectors[p]) \cap Claimed = {}
  BY <1>2, <1>6, NotClaimed
<1>8. Store!Clear(p)
  BY <1>4, <1>5, <1>7 DEF Store!Clear
<1> QED
  BY <1>8 DEF StoreStep, Store!Next

\* Everything is emptied and the claim gone.
LEMMA ClearedStep ==
    ASSUME Cleared, trans' = Idle
    PROVE  StoreStep
<1>1. StoredSectors' = [p \in Selector |-> Sectors(partition'[p])]
  BY DEF StoredSectors, Sectors
<1>2. \A p \in Selector : partition'[p].numblocks = 0
  BY DEF Cleared, Empty
<1>3. StoredSectors' = [p \in Selector |-> <<>>]
  BY <1>1, <1>2, NoSectors
<1>4. Claimed' = {}
  BY NoClaim
<1> QED
  BY <1>3, <1>4 DEF StoreStep, Store!Next, Store!ClearAll

---------------------------------------------------------------------------
(***************************************************************************)
(* The refinement.                                                         *)
(***************************************************************************)

\* The buffer starts as the empty store.
LEMMA InitStored == Init => Store!Init
<1> SUFFICES ASSUME Init PROVE Store!Init
  OBVIOUS
<1>1. StoredSectors = [p \in Selector |-> Sectors(partition[p])]
  BY DEF StoredSectors, Sectors
<1>2. \A p \in Selector : partition[p].numblocks = 0
  BY DEF Init, Empty
<1>3. StoredSectors = [p \in Selector |-> <<>>]
  BY <1>1, <1>2, NoSectors
<1>4. Claimed = {}
  BY DEF Init, Claimed, Transferring
<1> QED
  BY <1>3, <1>4 DEF Store!Init

\* Every step of a disciplined program is one of the store or none.
LEMMA NextStored ==
    ASSUME Disciplined
    PROVE  Intact /\ Within /\ [Next]_vars => StoreStep
<1> SUFFICES ASSUME Intact, Within, [Next]_vars PROVE StoreStep
  OBVIOUS
<1>1. ASSUME NEW p \in Selector,
             \/ Cs2FilterData(p) \/ Cs2ReadFileSystem(p)
             \/ Cs2ReadUnFilteredSectorFails(p) \/ Cs2ResetSelector(p)
      PROVE  StoreStep
  BY <1>1, FilterStep, FileSystemStep, FailureStep, ResetStep DEF StoreStep
<1>2. ASSUME NEW p \in Selector, NEW n \in 1 .. MaxBlocks, Cs2PutSectorData(p, n)
      PROVE  StoreStep
  BY <1>2, PutStep
<1>3. ASSUME NEW p \in Selector, NEW n \in 1 .. MaxBlocks, NEW off \in Slot,
             \/ Cs2GetSectorData(p, off, n) \/ Cs2GetThenDeleteSectorData(p, off, n)
             \/ Cs2DeleteSectorData(p, off, n)
      PROVE  StoreStep
  BY <1>3, GetStep, ClaimStep, DeleteStep
<1>4. ASSUME NEW p \in Selector, NEW n \in 1 .. MaxBlocks, NEW off \in Slot,
             NEW dest \in Selector,
             Cs2CopySectorData(p, off, n, dest) \/ Cs2MoveSectorData(p, off, n, dest)
      PROVE  StoreStep
  BY <1>4, CopyStep, MoveStep
<1>5. ASSUME Cs2ReadLong \/ Cs2WriteLong \/ Cs2EndDataTransfer PROVE StoreStep
  BY <1>5, PortStep
<1>6. ASSUME \/ Cs2ResetPartitions
             \/ \E software \in BOOLEAN : Cs2InitializeCDSystem(software)
             \/ Cs2AbortFile
      PROVE  StoreStep
  <2>1. CASE Cleared /\ trans' = Idle
    BY <2>1, ClearedStep
  <2>2. CASE partition' = partition /\ trans' = Idle
    BY <2>2, TransferOver DEF StoreStep
  <2> QED
    BY <2>1, <2>2, <1>6 DEF Cs2ResetPartitions, Cs2InitializeCDSystem, Cs2AbortFile
<1>7. CASE UNCHANGED vars
  BY <1>7, BufferStays DEF vars, bufferVars, transferVars, StoreStep
<1> QED
  BY <1>1, <1>2, <1>3, <1>4, <1>5, <1>6, <1>7, Zenon DEF Next

\* With a program that keeps the protocol, and moves sectors only between
\* partitions, the buffer implements SectorStore: slots, their compaction (Cs2SortBlocks) and the positions a get-then-delete remembers
\* (Cs2EndDataTransfer, Cs2ReadLong) never show, whatever the drive, copies, moves,
\* deletions and resets do while a transfer is open.
THEOREM StoreImplemented ==
    ASSUME Disciplined
    PROVE  Spec => StoreSpec
<1>1. Init => Store!Init
  BY InitStored
<1>2. Intact /\ Within /\ [Next]_vars => [Store!Next]_Store!storeVars
  BY NextStored DEF StoreStep, StoreStutter, Store!storeVars
<1> QED
  BY <1>1, <1>2, IntactHolds, WithinHolds, PTL DEF Spec, Store!Spec, StoreSpec
=============================================================================
