----------------------------- MODULE Cs2Buffer -----------------------------
(***************************************************************************)
(* The sector buffer of the CD block (cs2.c): MAX_BLOCKS blocks shared by  *)
(* MAX_SELECTORS partitions, the drive that fills them, the commands that  *)
(* move, copy and delete sectors, and the one data transfer the program    *)
(* reads or writes through the port at 0x25818000.                         *)
(*                                                                         *)
(* A block stands for its sector.  Every sector has SectorSize bytes, and  *)
(* the port moves Word bytes: that sectors of several sizes coexist is     *)
(* left out, with the FADs, the subheaders and HIRQ.  The commands name    *)
(* sectors the partition has; the numbers 0xFFFF ("the last", "all that    *)
(* follow") come to such ranges.                                           *)
(***************************************************************************)
EXTENDS Integers, FiniteSets, Functions

CONSTANTS
    Block,        \* Cs2Area->block[]
    NULL,         \* no block
    Selector,     \* the numbers of the partitions, below MAX_SELECTORS
    SectorSize,   \* getsectsize and putsectsize
    MaxSize,      \* bound on the bytes a partition counts
    Disciplined,  \* the program follows the protocol of transfers
    ReadFailures  \* the disc may fail to read

Word == 2

ASSUME BlockAssumption == IsFiniteSet(Block) /\ Block # {} /\ NULL \notin Block
ASSUME SelectorAssumption == Selector # {} /\ NULL \notin Selector
ASSUME SizeAssumption ==
    SectorSize \in {Word * n : n \in 1 .. 1176} /\ MaxSize \in Nat
ASSUME ModeAssumption == Disciplined \in BOOLEAN /\ ReadFailures \in BOOLEAN

MaxBlocks == Cardinality(Block)
Slot      == 0 .. MaxBlocks - 1

VARIABLES
    used,           \* the blocks whose size is not -1
    blockfreespace,
    isbufferfull,
    partition,      \* block[], numblocks and size of every partition
    trans,          \* the data transfer (datatrans*, datasectstotrans, cdwnum)
    partitionnum,   \* datatranspartitionnum
    session         \* the program has started a transfer and not ended it

bufferVars   == <<used, blockfreespace, isbufferfull>>
transferVars == <<trans, partitionnum, session>>
vars == <<bufferVars, partition, transferVars>>

Partition == [block : [Slot -> Block \cup {NULL}], numblocks : 0 .. MaxBlocks,
              size : Int]

Empty == [block |-> [i \in Slot |-> NULL], numblocks |-> 0, size |-> -1]

\* Without a transfer its fields are never read: each start sets them all.
Idle == [type |-> "INVALID", part |-> NULL, pos |-> 0, total |-> 0, done |-> 0,
         offset |-> 0, cdwnum |-> 0]

Init ==
    /\ used = {}
    /\ blockfreespace = MaxBlocks
    /\ isbufferfull = FALSE
    /\ partition = [p \in Selector |-> Empty]
    /\ trans = Idle
    /\ partitionnum \in Selector
    /\ session = FALSE

(***************************************************************************)
(* Blocks and slots.                                                       *)
(***************************************************************************)
Free == Block \ used

Full(b) == {i \in DOMAIN b : b[i] # NULL}

Rank(b, i) == Cardinality({j \in Full(b) : j < i})

\* Mutant: the slots behind the entries keep what they held.
SortWithoutTail(b) ==
    [k \in DOMAIN b |->
        IF k < Cardinality(Full(b))
        THEN b[CHOOSE i \in Full(b) : Rank(b, i) = k]
        ELSE b[k]]

\* Mutant: no sort, the gaps stay.
SortNothing(b) == b

\* The entries of b in their order and NULL after them.
Cs2SortBlocks(b) ==
    [k \in DOMAIN b |->
        IF k < Cardinality(Full(b))
        THEN b[CHOOSE i \in Full(b) : Rank(b, i) = k]
        ELSE NULL]

Without(b, R) == [i \in DOMAIN b |-> IF i \in R THEN NULL ELSE b[i]]

\* The slots of q that take n sectors more.
NextSlots(q, n) == q.numblocks .. q.numblocks + n - 1

\* Cs2AllocateBlock, once for every block of S; which free block it takes is
\* left open.
Cs2AllocateBlocks(S) ==
    /\ used' = used \cup S
    /\ blockfreespace' = blockfreespace - Cardinality(S)
    /\ isbufferfull' = (isbufferfull \/ (S # {} /\ blockfreespace' <= 0))

\* Mutant: an empty slot counts as a block freed.
FreeEverySlot(b, R) ==
    /\ used' = used \ {b[i] : i \in R \cap Full(b)}
    /\ blockfreespace' = blockfreespace + Cardinality(R)
    /\ isbufferfull' = (isbufferfull /\ R = {})

\* Mutant: isbufferfull stays set.
FreeKeepsFull(b, R) ==
    /\ used' = used \ {b[i] : i \in R \cap Full(b)}
    /\ blockfreespace' = blockfreespace + Cardinality(R \cap Full(b))
    /\ UNCHANGED isbufferfull

\* Cs2FreeBlock, once for every slot of R in b that has a block.
Cs2FreeBlocks(b, R) ==
    LET taken == R \cap Full(b)
    IN  /\ used' = used \ {b[i] : i \in taken}
        /\ blockfreespace' = blockfreespace + Cardinality(taken)
        /\ isbufferfull' = (isbufferfull /\ taken = {})

\* q with the n blocks new[0], .. new[n - 1] in its next slots.
WithSectors(q, n, new, size) ==
    [block     |-> [i \in Slot |-> IF i \in NextSlots(q, n)
                                   THEN new[i - q.numblocks] ELSE q.block[i]],
     numblocks |-> q.numblocks + n,
     size      |-> size]

\* q without the sectors of R.
WithoutSectors(q, R, numblocks, size) ==
    [block     |-> Cs2SortBlocks(Without(q.block, R)),
     numblocks |-> numblocks,
     size      |-> size]

\* A partition that was reset counts its bytes from 0.
SizeOf(q) == IF q.size = -1 THEN 0 ELSE q.size

(***************************************************************************)
(* The program's transfer.  A disciplined program starts none before it    *)
(* has ended the last, touches the port only in between, leaves the        *)
(* sectors of the transfer in their place, and moves sectors only from one *)
(* partition to another.                                                   *)
(***************************************************************************)
Transferring == session /\ trans.type # "INVALID"

MayStart == Disciplined => ~session
MayAccess == Disciplined => session
MayTakeFrom(p) == Disciplined => ~(Transferring /\ trans.part = p)
MayMove(p, dest) == MayTakeFrom(p) /\ (Disciplined => p # dest)
MayReset(p) ==
    Disciplined => ~(Transferring /\ trans.part = p /\ trans.type = "GETDELSECTOR")

\* Sectors off .. off + n - 1 of partition p, which exist.
InRange(p, off, n) == off + n <= partition[p].numblocks

\* No partition counts more than MaxSize bytes, above or below 0 (the size of
\* one whose transfers go astray drifts), all of them in whole words.
Sizes      == {size \in - MaxSize .. MaxSize : size % Word = 0}
Fits(size) == size \in Sizes

(***************************************************************************)
(* The drive.  It reads for partition p only while isbufferfull is clear;  *)
(* the blocks may have run out even so, after Cs2InitializeCDSystem.       *)
(***************************************************************************)
NoBlockLeft(p) ==
    LET q == partition[p]
    IN  /\ Free = {}
        /\ partition' = [partition EXCEPT ![p].block = Without(@, {q.numblocks})]
        /\ isbufferfull' = TRUE
        /\ UNCHANGED <<used, blockfreespace>>

Cs2FilterData(p) ==
    /\ ~isbufferfull
    /\ partition[p].numblocks < MaxBlocks
    /\ \/ NoBlockLeft(p)
       \/ \E b \in Free :
            LET q == partition[p]
            IN  /\ Fits(SizeOf(q) + SectorSize)
                /\ Cs2AllocateBlocks({b})
                /\ partition' = [partition EXCEPT
                     ![p] = WithSectors(q, 1, [k \in {0} |-> b], SizeOf(q) + SectorSize)]
    /\ UNCHANGED transferVars

\* Mutant: the block of the directory is not freed.
FileSystemKeeps(p) ==
    /\ ~isbufferfull
    /\ \/ NoBlockLeft(p)
       \/ \E b \in Free :
            /\ Cs2AllocateBlocks({b})
            /\ partition' = [partition EXCEPT ![p].block[partition[p].numblocks] = b]
    /\ UNCHANGED transferVars

\* A directory or the first sector of the disc passes through the slot after
\* the sectors of partition p: its block is free again at the end.
Cs2ReadFileSystem(p) ==
    LET q == partition[p]
    IN  /\ ~isbufferfull
        /\ \/ NoBlockLeft(p)
           \/ /\ Free # {}
              /\ partition' = [partition EXCEPT
                   ![p] = WithoutSectors(q, {q.numblocks}, q.numblocks, SizeOf(q))]
              /\ UNCHANGED bufferVars
        /\ UNCHANGED transferVars

\* The disc fails to read: Cs2ReadUnFilteredSector gives up and leaves the
\* block in that slot, where the next sector of p takes its place.
Cs2ReadUnFilteredSectorFails(p) ==
    /\ ReadFailures
    /\ ~isbufferfull
    /\ \E b \in Free :
         /\ Cs2AllocateBlocks({b})
         /\ partition' = [partition EXCEPT ![p].block[partition[p].numblocks] = b]
    /\ UNCHANGED transferVars

(***************************************************************************)
(* Commands that start a transfer.                                         *)
(***************************************************************************)
Transfer(type, p, pos, total, done) ==
    [Idle EXCEPT !.type = type, !.part = p, !.pos = pos, !.total = total, !.done = done]

\* Mutant: datatranspartitionnum stays, as in Cs2GetThenDeleteSectorData.
GetWithoutNumber(p, off, n) ==
    /\ MayStart
    /\ InRange(p, off, n)
    /\ trans' = Transfer("GETSECTOR", p, off, n, 0)
    /\ session' = TRUE
    /\ UNCHANGED <<bufferVars, partition, partitionnum>>

Cs2GetSectorData(p, off, n) ==
    /\ MayStart
    /\ InRange(p, off, n)
    /\ trans' = Transfer("GETSECTOR", p, off, n, 0)
    /\ partitionnum' = p
    /\ session' = TRUE
    /\ UNCHANGED <<bufferVars, partition>>

Cs2GetThenDeleteSectorData(p, off, n) ==
    /\ MayStart
    /\ InRange(p, off, n)
    /\ trans' = Transfer("GETDELSECTOR", p, off, n, 0)
    /\ session' = TRUE
    /\ UNCHANGED <<bufferVars, partition, partitionnum>>

\* The size starts again from 0 whatever the partition holds.
Cs2PutSectorData(p, n) ==
    LET q == partition[p]
    IN  /\ MayStart
        /\ n <= blockfreespace
        /\ Fits(n * SectorSize)
        /\ \E new \in Injection(0 .. n - 1, Free) :
             /\ Cs2AllocateBlocks(Range(new))
             /\ partition' = [partition EXCEPT
                  ![p] = WithSectors(q, n, new, n * SectorSize)]
        /\ trans' = Transfer("PUTSECTOR", p, 0, q.numblocks + n, q.numblocks)
        /\ partitionnum' = p
        /\ session' = TRUE

(***************************************************************************)
(* The port.  Nothing happens where the slot holds no block.               *)
(***************************************************************************)
\* One word more of the sector in the given slot of the transfer's partition.
Advanced(slot) ==
    /\ partition[trans.part].block[slot] # NULL
    /\ trans' = [trans EXCEPT
         !.cdwnum = @ + Word,
         !.offset = (@ + Word) % SectorSize,
         !.done   = IF trans.offset + Word >= SectorSize THEN @ + 1 ELSE @]

\* Mutant: the subtraction alone.
NumblocksDown(numblocks, n) == numblocks - n

\* numblocks never falls below 0 ("FIX underflow u8").
NumblocksAfter(numblocks, n) == IF numblocks >= n THEN numblocks - n ELSE 0

\* Mutant: the first sectors of the partition go instead.
DeleteFirst ==
    LET p == trans.part
        q == partition[p]
        R == 0 .. trans.total - 1
    IN  /\ Cs2FreeBlocks(q.block, R)
        /\ partition' = [partition EXCEPT
             ![p] = WithoutSectors(q, R, NumblocksAfter(q.numblocks, trans.total),
                                   q.size - trans.cdwnum)]
        /\ trans' = Idle

\* The end of a get-then-delete: its slots are freed, whatever they hold now.
DeleteTransferred ==
    LET p == trans.part
        q == partition[p]
        R == trans.pos .. trans.pos + trans.total - 1
    IN  /\ Fits(q.size - trans.cdwnum)
        /\ Cs2FreeBlocks(q.block, R)
        /\ partition' = [partition EXCEPT
             ![p] = WithoutSectors(q, R, NumblocksAfter(q.numblocks, trans.total),
                                   q.size - trans.cdwnum)]
        /\ trans' = Idle

Cs2ReadLong ==
    /\ MayAccess
    /\ trans.type # "INVALID"
    /\ \/ /\ trans.done < trans.total
          /\ Advanced(trans.pos + trans.done)
          /\ UNCHANGED <<bufferVars, partition>>
       \/ /\ trans.done >= trans.total
          /\ trans.type = "GETDELSECTOR"
          /\ DeleteTransferred
    /\ UNCHANGED <<partitionnum, session>>

Cs2WriteLong ==
    /\ MayAccess
    /\ trans.type = "PUTSECTOR"
    /\ trans.done < trans.total
    /\ Advanced(trans.done)
    /\ UNCHANGED <<bufferVars, partition, partitionnum, session>>

\* A get-then-delete from a partition of no bytes stays as it is.
Cs2EndDataTransfer ==
    /\ MayAccess
    /\ \/ /\ trans.type = "GETDELSECTOR"
          /\ partition[trans.part].size > 0
          /\ DeleteTransferred
       \/ /\ trans.type = "GETDELSECTOR" => partition[trans.part].size <= 0
          /\ trans' = [trans EXCEPT !.cdwnum = 0]
          /\ UNCHANGED <<bufferVars, partition>>
    /\ session' = FALSE
    /\ UNCHANGED partitionnum

(***************************************************************************)
(* Commands on the sectors of the buffer.                                  *)
(***************************************************************************)
\* For a slot that holds no block the code reads the size at address 0, where
\* the BIOS is mapped: any size.
Cs2DeleteSectorData(p, off, n) ==
    LET q == partition[p]
        R == off .. off + n - 1
    IN  /\ MayTakeFrom(p)
        /\ InRange(p, off, n)
        /\ Cs2FreeBlocks(q.block, R)
        /\ \E size \in Sizes :
             /\ R \subseteq Full(q.block) => size = q.size - n * SectorSize
             /\ partition' = [partition EXCEPT
                  ![p] = WithoutSectors(q, R, q.numblocks - n, size)]
        /\ UNCHANGED transferVars

\* The code copies into blocks it does not have if they run out: the program
\* copies what there is room for.
Cs2CopySectorData(p, off, n, dest) ==
    LET q == partition[dest]
    IN  /\ InRange(p, off, n)
        /\ n <= Cardinality(Free)
        /\ Fits(q.size + n * SectorSize)
        /\ \E new \in Injection(0 .. n - 1, Free) :
             /\ Cs2AllocateBlocks(Range(new))
             /\ partition' = [partition EXCEPT
                  ![dest] = WithSectors(q, n, new, q.size + n * SectorSize)]
        /\ UNCHANGED transferVars

\* Within one partition numblocks does not change, and every sector goes to the
\* slot behind the last: only the last of them stays there, or none if q fills
\* all its slots.  The blocks of the others are lost, and so is one that a
\* failed read left in that slot.
MovedWithin(q, off, n) ==
    LET last == q.block[off + n - 1]
        left == Without(q.block, off .. off + n - 1)
    IN  [q EXCEPT !.block =
            Cs2SortBlocks([i \in Slot |-> IF i = q.numblocks THEN last ELSE left[i]])]

Cs2MoveSectorData(p, off, n, dest) ==
    LET q == partition[p]
        r == partition[dest]
        moved == [k \in 0 .. n - 1 |-> q.block[off + k]]
    IN  /\ MayMove(p, dest)
        /\ InRange(p, off, n)
        /\ \/ /\ p = dest
              /\ partition' = [partition EXCEPT ![p] = MovedWithin(q, off, n)]
           \/ /\ p # dest
              /\ Fits(q.size - n * SectorSize)
              /\ Fits(r.size + n * SectorSize)
              /\ partition' = [partition EXCEPT
                   ![p]    = WithoutSectors(q, off .. off + n - 1, q.numblocks - n,
                                            q.size - n * SectorSize),
                   ![dest] = WithSectors(r, n, moved, r.size + n * SectorSize)]
        /\ UNCHANGED <<bufferVars, transferVars>>

(***************************************************************************)
(* Resets.                                                                 *)
(***************************************************************************)
Cleared ==
    /\ used' = {}
    /\ blockfreespace' = MaxBlocks
    /\ isbufferfull' = FALSE
    /\ partition' = [p \in Selector |-> Empty]

\* Cs2ResetSelector with no flag: partition p only.  A transfer ends with the
\* partition datatranspartitionnum names, or when all blocks are free.
Cs2ResetSelector(p) ==
    LET q == partition[p]
        R == 0 .. q.numblocks - 1
        freed == blockfreespace + Cardinality(R \cap Full(q.block))
    IN  /\ MayReset(p)
        /\ used' = used \ {q.block[i] : i \in R}
        /\ blockfreespace' = freed
        /\ isbufferfull' = (isbufferfull /\ R \cap Full(q.block) = {} /\ freed <= 0)
        /\ partition' = [partition EXCEPT
             ![p] = [block |-> Without(q.block, R), numblocks |-> 0, size |-> -1]]
        /\ trans' = IF freed = MaxBlocks \/ partitionnum = p THEN Idle ELSE trans
        /\ UNCHANGED <<partitionnum, session>>

\* Cs2ResetSelector with flag 4: every partition and every block.
Cs2ResetPartitions ==
    /\ Cleared
    /\ trans' = Idle
    /\ UNCHANGED <<partitionnum, session>>

Cs2InitializeCDSystem(software) ==
    /\ IF software THEN Cleared
       ELSE isbufferfull' = FALSE /\ UNCHANGED <<used, blockfreespace, partition>>
    /\ trans' = Idle
    /\ session' = FALSE
    /\ UNCHANGED partitionnum

Cs2AbortFile ==
    /\ trans' = Idle
    /\ session' = FALSE
    /\ UNCHANGED <<bufferVars, partition, partitionnum>>

Next ==
    \/ \E p \in Selector :
        \/ Cs2FilterData(p)
        \/ Cs2ReadFileSystem(p)
        \/ Cs2ReadUnFilteredSectorFails(p)
        \/ Cs2ResetSelector(p)
        \/ \E n \in 1 .. MaxBlocks :
            \/ Cs2PutSectorData(p, n)
            \/ \E off \in Slot :
                \/ Cs2GetSectorData(p, off, n)
                \/ Cs2GetThenDeleteSectorData(p, off, n)
                \/ Cs2DeleteSectorData(p, off, n)
                \/ \E dest \in Selector :
                    \/ Cs2CopySectorData(p, off, n, dest)
                    \/ Cs2MoveSectorData(p, off, n, dest)
    \/ Cs2ReadLong
    \/ Cs2WriteLong
    \/ Cs2EndDataTransfer
    \/ Cs2ResetPartitions
    \/ \E software \in BOOLEAN : Cs2InitializeCDSystem(software)
    \/ Cs2AbortFile

Spec == Init /\ [][Next]_vars

(***************************************************************************)
(* Properties.                                                             *)
(***************************************************************************)
TypeOk ==
    /\ used \subseteq Block
    /\ blockfreespace \in 0 .. MaxBlocks
    /\ isbufferfull \in BOOLEAN
    /\ partition \in [Selector -> Partition]
    /\ trans \in [type : {"INVALID", "GETSECTOR", "GETDELSECTOR", "PUTSECTOR"},
                  part : Selector \cup {NULL}, pos : 0 .. MaxBlocks, total : 0 .. MaxBlocks,
                  done : 0 .. MaxBlocks, offset : 0 .. SectorSize - 1,
                  cdwnum : Nat]
    /\ partitionnum \in Selector
    /\ session \in BOOLEAN

\* blockfreespace, which Cs2PutSectorData trusts and the program reads with
\* Cs2GetBufferSize, is the number of the blocks Cs2AllocateBlock would find.
FreeCount == blockfreespace = Cardinality(Free)

\* A block in a slot is allocated and in no other slot of any partition: what
\* frees one slot cannot free the sector of another, nor a block twice.
BlocksOwned ==
    \A p, r \in Selector : \A i, j \in Slot :
        LET b == partition[p].block[i]
        IN  b # NULL => /\ b \in used
                        /\ partition[r].block[j] = b => <<p, i>> = <<r, j>>

SectorsPresent ==
    \A p \in Selector : \A i \in Slot :
        i < partition[p].numblocks => partition[p].block[i] # NULL

\* A move within one partition of several sectors, or with no slot left.
LosingMove ==
    \E p \in Selector : \E off \in Slot : \E n \in 1 .. MaxBlocks :
        /\ Cs2MoveSectorData(p, off, n, p)
        /\ n > 1 \/ partition[p].numblocks = MaxBlocks

\* The sectors the partitions count are there (Cs2DeleteSectorData,
\* Cs2GetSectorInfo and Cs2CopySectorData follow their pointers unchecked), and
\* nothing the drive or the program does takes one away, but for one command:
\* Cs2MoveSectorData from a partition to the same one.
SectorsStay == [][(SectorsPresent => SectorsPresent') \/ LosingMove]_vars

\* isbufferfull is never left set while there is room: the drive would wait
\* for it to clear, with nothing left that clears it.
FullMeansNoRoom == isbufferfull => blockfreespace = 0

\* With a disc that reads, and a program that moves no sectors within one
\* partition, every allocated block is a sector of a partition.
AllocatedIsStored ==
    used = UNION {{partition[p].block[i] : i \in 0 .. partition[p].numblocks - 1} :
                    p \in Selector}

\* The slots of an open transfer are sectors of its partition, though commands
\* (no move within one partition among them) and resets go on in the meantime.
TransferWithin ==
    Transferring => trans.pos + trans.total <= partition[trans.part].numblocks

\* The buffer as a disciplined program sees it, which also knows not to move
\* sectors within one partition.
StoredSectors ==
    [p \in Selector |-> [i \in 1 .. partition[p].numblocks |-> partition[p].block[i - 1]]]

Claimed ==
    IF Transferring /\ trans.type = "GETDELSECTOR"
    THEN {partition[trans.part].block[i] : i \in trans.pos .. trans.pos + trans.total - 1}
    ELSE {}

Store == INSTANCE SectorStore
    WITH Sector <- Block, Selector <- Selector, Capacity <- MaxBlocks,
         stored <- StoredSectors, claim <- Claimed

StoreSpec == Store!Spec

\* Cs2ResetSelector, "Reset specified partition buffer only": the transfer
\* from another partition, whose sectors stay, goes on.
ResetsOnlyThatPartition ==
    [][\A p \in Selector : Cs2ResetSelector(p) /\ Transferring /\ trans.part # p
       => trans' = trans]_vars
=============================================================================
