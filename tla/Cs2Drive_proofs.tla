--------------------------- MODULE Cs2Drive_proofs --------------------------
(***************************************************************************)
(* Proofs about Cs2Drive, for every disc, every set of filters, every      *)
(* number of blocks and every set of commands.                             *)
(***************************************************************************)
EXTENDS Cs2Drive, TLAPS

USE DEF playVars, bufferVars, ifVars, programVars

---------------------------------------------------------------------------
(***************************************************************************)
(* The registers.  From the write of CR1 to the read of CR4 _command is    *)
(* set, which keeps the reports out; a command is under way only while the *)
(* program waits for it, with CMOK clear.                                  *)
(***************************************************************************)
Outstanding == pc \in {"begun", "given", "done"}

Interface ==
    /\ Outstanding => command /\ peri = FALSE
    /\ timing => pc = "given"
    /\ pc \in {"cleared", "begun"} => ~cmok
    /\ pc = "given" /\ timing => ~cmok
    /\ CommandsIntact

USE DEF Outstanding

\* Every command leaves CDB_STAT_PERI as it was, or clear.
LEMMA CommandsKeepPeri ==
    ASSUME Cs2Execute, peri = FALSE
    PROVE  peri' = FALSE
<1>1. ASSUME NEW s, NEW n, Becomes(s, n) PROVE peri' = FALSE
  BY <1>1 DEF Becomes
<1>2. CASE Cs2GetStatus \/ Cs2DeleteSectorData
  BY <1>2 DEF Cs2GetStatus, Cs2DeleteSectorData, SameStatus
<1>3. CASE Cs2GetToc \/ Cs2OpenTray \/ SeekStop \/ SeekPause \/ Cs2ResetSelector
  BY <1>3, <1>1 DEF Cs2GetToc, Cs2OpenTray, SeekStop, SeekPause, Cs2ResetSelector
<1>4. CASE Cs2InitializeCDSystem(asked.reset)
  BY <1>4, <1>1 DEF Cs2InitializeCDSystem
<1>5. CASE Cs2PlayDisc(asked.start, asked.length, asked.repeat, asked.keep)
  BY <1>5, <1>1 DEF Cs2PlayDisc
<1>6. CASE SeekFAD(asked.to)
  BY <1>6, <1>1 DEF SeekFAD
<1>7. CASE Cs2SetCDDeviceConnection(asked.filter)
  BY <1>7 DEF Cs2SetCDDeviceConnection, SameStatus
<1>8. CASE Cs2ReadFile(asked.start, asked.length)
  BY <1>8 DEF Cs2ReadFile
<1>9. CASE Cs2AbortFile
  BY <1>9, <1>1 DEF Cs2AbortFile, SameStatus
<1>10. \/ Cs2GetStatus \/ Cs2DeleteSectorData
       \/ Cs2GetToc \/ Cs2OpenTray \/ SeekStop \/ SeekPause \/ Cs2ResetSelector
       \/ Cs2InitializeCDSystem(asked.reset)
       \/ Cs2PlayDisc(asked.start, asked.length, asked.repeat, asked.keep)
       \/ SeekFAD(asked.to)
       \/ Cs2SetCDDeviceConnection(asked.filter)
       \/ Cs2ReadFile(asked.start, asked.length)
       \/ Cs2AbortFile
  BY Zenon DEF Cs2Execute
<1> QED
  BY <1>2, <1>3, <1>4, <1>5, <1>6, <1>7, <1>8, <1>9, <1>10, Zenon

\* The hand-over of commands is in order at the start.
LEMMA InterfaceInit == Init => Interface
  BY DEF Init, Interface, CommandsIntact

\* Every step keeps the hand-over of commands in order.
LEMMA InterfaceStep == Interface /\ [Next]_vars => Interface'
<1> SUFFICES ASSUME Interface, [Next]_vars PROVE Interface'
  OBVIOUS
<1> USE DEF Interface, CommandsIntact
<1>1. CASE \E c \in Command : ClearCMOK(c)
  BY <1>1 DEF ClearCMOK
<1>2. CASE WriteCR1
  BY <1>2 DEF WriteCR1
<1>3. CASE WriteCR4
  BY <1>3 DEF WriteCR4
<1>4. CASE SeeCMOK
  BY <1>4 DEF SeeCMOK
<1>5. CASE ReadCR4
  BY <1>5 DEF ReadCR4
<1>6. CASE TakeSector
  BY <1>6 DEF TakeSector
<1>7. CASE Handle
  BY <1>7 DEF Handle
<1>8. CASE Cs2Execute
  <2>1. timing /\ pc = "given" /\ ~timing' /\ cr4' = "answer" /\ pc' = pc /\ command' = command
    BY <1>8 DEF Cs2Execute
  <2>2. peri' = FALSE
    BY <2>1, <1>8, CommandsKeepPeri
  <2>3. cr1' = "answer"
    BY <2>2, <1>8 DEF Cs2Execute
  <2> QED
    BY <2>1, <2>2, <2>3
<1>9. CASE Unlock
  BY <1>9 DEF Unlock
<1>10. CASE PollTray
  <2>1. peri' = FALSE /\ UNCHANGED <<ifVars, programVars>>
    BY <1>10 DEF PollTray, Becomes
  <2> QED
    BY <2>1
<1>11. CASE Period
  <2>1. UNCHANGED <<command, timing, cmok, pc>>
    BY <1>11 DEF Period
  <2>2. ASSUME command PROVE UNCHANGED <<peri, cr1, cr4>>
    <3>1. Report
      BY <1>11 DEF Period
    <3> QED
      BY <3>1, <2>2 DEF Report
  <2>3. CASE Outstanding
    BY <2>1, <2>2, <2>3
  <2>4. CASE ~Outstanding
    BY <2>1, <2>4
  <2> QED
    BY <2>3, <2>4
<1>12. CASE UNCHANGED vars
  BY <1>12 DEF vars
<1> QED
  BY <1>1, <1>2, <1>3, <1>4, <1>5, <1>6, <1>7, <1>8, <1>9, <1>10, <1>11, <1>12 DEF Next

\* No periodic report gets between a command and its execution, or between its
\* answer and the program (_command, cs2.c).
THEOREM CommandsIntactHolds == Spec => []CommandsIntact
<1>1. Interface => CommandsIntact
  BY DEF Interface
<1> QED
  BY InterfaceInit, InterfaceStep, <1>1, PTL DEF Spec

---------------------------------------------------------------------------
(***************************************************************************)
(* The blocks.  The drive stores a sector when it finds a block, and it    *)
(* stops reading when the last one is gone; only Cs2InitializeCDSystem     *)
(* makes it forget that.                                                   *)
(***************************************************************************)
UsedOk == used \in 0 .. MaxBlocks

\* What the command does to the blocks in use.
LEMMA CommandsAndBlocks ==
    ASSUME UsedOk, Cs2Execute
    PROVE  /\ used' = used \/ used' = 0
           /\ \/ used' = used /\ isbufferfull' = isbufferfull
              \/ used' = 0
              \/ asked.op = "InitializeCDSystem"
<1>1. CASE \/ Cs2GetStatus \/ Cs2GetToc \/ Cs2OpenTray \/ SeekStop \/ SeekPause
           \/ Cs2AbortFile \/ SeekFAD(asked.to)
  BY <1>1 DEF Cs2GetStatus, Cs2GetToc, Cs2OpenTray, SeekStop, SeekPause, Cs2AbortFile,
              SeekFAD
<1>2. CASE Cs2PlayDisc(asked.start, asked.length, asked.repeat, asked.keep)
  BY <1>2 DEF Cs2PlayDisc
<1>3. CASE Cs2SetCDDeviceConnection(asked.filter)
  BY <1>3 DEF Cs2SetCDDeviceConnection
<1>4. CASE Cs2ReadFile(asked.start, asked.length)
  BY <1>4 DEF Cs2ReadFile
<1>5. CASE Cs2ResetSelector \/ Cs2DeleteSectorData
  BY <1>5 DEF Cs2ResetSelector, Cs2DeleteSectorData
<1>6. CASE asked.op = "InitializeCDSystem" /\ Cs2InitializeCDSystem(asked.reset)
  BY <1>6 DEF Cs2InitializeCDSystem
<1>7. \/ Cs2GetStatus \/ Cs2GetToc \/ Cs2OpenTray \/ SeekStop \/ SeekPause
      \/ Cs2AbortFile \/ SeekFAD(asked.to)
      \/ Cs2PlayDisc(asked.start, asked.length, asked.repeat, asked.keep)
      \/ Cs2SetCDDeviceConnection(asked.filter)
      \/ Cs2ReadFile(asked.start, asked.length)
      \/ Cs2ResetSelector \/ Cs2DeleteSectorData
      \/ (asked.op = "InitializeCDSystem" /\ Cs2InitializeCDSystem(asked.reset))
  BY Zenon DEF Cs2Execute
<1> QED
  BY <1>1, <1>2, <1>3, <1>4, <1>5, <1>6, <1>7, Zenon

\* What a period does to them.
LEMMA PeriodAndBlocks ==
    ASSUME UsedOk, Period
    PROVE  \/ used' = used /\ isbufferfull' = isbufferfull
           \/ used < MaxBlocks /\ used' = used + 1 /\ isbufferfull' = (used' = MaxBlocks)
           \/ Unnoticed /\ used' = used
<1>1. Drive
  BY DEF Period
<1>2. CASE PassOver
  BY <1>2 DEF PassOver
<1>3. CASE Store
  BY <1>3 DEF Store
<1>4. CASE Readable /\ Drop
  BY <1>4 DEF Readable, Drop, Unnoticed, Wanted
<1>5. CASE Idle
  BY <1>5 DEF Idle
<1>6. PassOver \/ Store \/ (Readable /\ Drop) \/ Idle
  BY <1>1 DEF Drive
<1> QED
  BY <1>2, <1>3, <1>4, <1>5, <1>6

\* The blocks in use are within the buffer at the start.
LEMMA UsedInit == Init => UsedOk
  BY DiscAssumption DEF Init, UsedOk

\* Every step keeps them within the buffer.
LEMMA UsedStep == UsedOk /\ [Next]_vars => UsedOk'
<1> SUFFICES ASSUME UsedOk, [Next]_vars PROVE UsedOk'
  OBVIOUS
<1> USE DiscAssumption DEF UsedOk
<1>1. CASE TakeSector
  BY <1>1 DEF TakeSector
<1>2. CASE Cs2Execute
  BY <1>2, CommandsAndBlocks
<1>3. CASE Period
  BY <1>3, PeriodAndBlocks DEF Unnoticed
<1>4. CASE UNCHANGED bufferVars
  BY <1>4
<1>5. TakeSector \/ Cs2Execute \/ Period \/ UNCHANGED bufferVars
  BY DEF Next, vars, ClearCMOK, WriteCR1, WriteCR4, SeeCMOK, ReadCR4, Handle, Unlock,
         PollTray
<1> QED
  BY <1>1, <1>2, <1>3, <1>4, <1>5

\* A sector the filters take is stored, or all blocks are in use unnoticed.
LEMMA WantedStored ==
    ASSUME UsedOk, Period, status = "PLAY", position \in Wanted, Passed
    PROVE  used' = used + 1 \/ Unnoticed
<1>1. Drive
  BY DEF Period
<1>2. CASE Readable
  <2>1. PassOver \/ Store \/ Drop
    BY <1>1, <1>2 DEF Drive
  <2>2. ~PassOver
    BY DEF PassOver
  <2>3. ASSUME Store PROVE used' = used + 1
    BY <2>3 DEF Store
  <2>4. ASSUME Drop PROVE Unnoticed
    BY <2>4, <1>2 DEF Readable, Drop, Unnoticed, Wanted
  <2> QED
    BY <2>1, <2>2, <2>3, <2>4
<1>3. CASE ~Readable
  <2>1. UNCHANGED <<status, nextStatus>> /\ Idle
    BY <1>1, <1>3 DEF Drive
  <2> QED
    BY <2>1 DEF Idle, Passed
<1> QED
  BY <1>2, <1>3

\* Only Cs2InitializeCDSystem lets the drive forget that no block is left.
LEMMA OnlyInitializeForgets ==
    ASSUME UsedOk, [Next]_vars, ~Unnoticed, Unnoticed'
    PROVE  timing /\ ~timing' /\ asked.op = "InitializeCDSystem"
<1> USE DiscAssumption DEF UsedOk, Unnoticed
<1>1. CASE TakeSector
  BY <1>1 DEF TakeSector
<1>2. CASE Cs2Execute
  <2>1. timing /\ ~timing'
    BY <1>2 DEF Cs2Execute
  <2> QED
    BY <2>1, <1>2, CommandsAndBlocks
<1>3. CASE Period
  BY <1>3, PeriodAndBlocks
<1>4. CASE UNCHANGED bufferVars
  BY <1>4
<1>5. TakeSector \/ Cs2Execute \/ Period \/ UNCHANGED bufferVars
  BY DEF Next, vars, ClearCMOK, WriteCR1, WriteCR4, SeeCMOK, ReadCR4, Handle, Unlock,
         PollTray
<1> QED
  BY <1>1, <1>2, <1>3, <1>4, <1>5

\* No play loses a sector that its filters take, unless a Cs2InitializeCDSystem
\* came while all blocks were in use (Cs2Exec, Cs2FilterData, Cs2AllocateBlock).
THEOREM SectorsStoredHolds == Spec => SectorsStored
<1>1. UsedOk /\ [Next]_vars
        => [/\ Period /\ status = "PLAY" /\ position \in Wanted /\ Passed
                 => (used' = used + 1 \/ Unnoticed)
            /\ Unnoticed' => \/ Unnoticed
                             \/ timing /\ ~timing' /\ asked.op = "InitializeCDSystem"
           ]_vars
  BY WantedStored, OnlyInitializeForgets
<1> QED
  BY UsedInit, UsedStep, <1>1, PTL DEF Spec, SectorsStored

---------------------------------------------------------------------------
(***************************************************************************)
(* The types.  The position leaves the disc only to the lead-out: a sector *)
(* is passed only when it was read, and it was read from the disc.         *)
(***************************************************************************)
StatusTyped == status \in Status /\ peri \in BOOLEAN /\ nextStatus \in Status \cup {NONE}

PlayTyped ==
    /\ position \in FAD /\ playFAD \in FAD /\ playendFAD \in Nat
    /\ repcnt \in 0 .. 255 /\ maxrepeat \in 0 .. Forever

BlocksTyped == used \in 0 .. MaxBlocks /\ isbufferfull \in BOOLEAN /\ connected \in BOOLEAN

\* A change of status.
LEMMA BecomesTyped ==
    ASSUME NEW s \in Status, NEW n \in Status \cup {NONE}, Becomes(s, n)
    PROVE  StatusTyped'
  BY DEF Becomes, StatusTyped

\* The frame addresses as numbers.
LEMMA FADs ==
    /\ Sectors \in Nat \ {0} /\ NoFAD = Sectors + 2 /\ LeadOut = Sectors + 1
    /\ Disc = 1 .. Sectors /\ FAD = 0 .. Sectors + 2
  BY DiscAssumption DEF NoFAD, LeadOut, Disc, FAD

\* There are blocks.
LEMMA Blocks == MaxBlocks \in Nat /\ MaxBlocks > 0 /\ 0 \in 0 .. MaxBlocks
  BY DiscAssumption

\* Adding to a frame address.
LEMMA PlusTyped == ASSUME NEW f \in FAD, NEW n \in Nat PROVE Plus(f, n) \in Nat
<1>1. f \in Nat /\ NoFAD \in Nat
  BY FADs
<1>2. CASE f # NoFAD
  BY <1>1, <1>2 DEF Plus
<1>3. CASE f = NoFAD /\ n = 0
  BY <1>1, <1>3 DEF Plus
<1>4. CASE f = NoFAD /\ n # 0
  BY <1>1, <1>4 DEF Plus
<1> QED
  BY <1>2, <1>3, <1>4

\* A start by FAD, with the end the command gives.
LEMMA PlayDiscTyped ==
    ASSUME PlayTyped, NEW c \in Command, c.op = "PlayDisc",
           Cs2PlayDisc(c.start, c.length, c.repeat, c.keep)
    PROVE  PlayTyped'
<1>1. /\ c.start \in Disc \cup {Same} /\ c.length \in Nat \cup {Same, ToEnd}
      /\ c.repeat \in 0 .. Forever \cup {Same}
  BY CommandAssumption
<1>2. playFAD' \in FAD /\ position' \in FAD /\ repcnt' \in 0 .. 255
  BY <1>1, FADs DEF Cs2PlayDisc, PlayTyped
<1>3. maxrepeat' \in 0 .. Forever
  BY <1>1 DEF Cs2PlayDisc, PlayTyped
<1>4.  playendFAD' \in Nat
  <2>1. CASE c.length = Same
    BY <2>1 DEF Cs2PlayDisc, PlayTyped, Same, ToEnd
  <2>2. CASE c.length = ToEnd
    BY <2>2, FADs DEF Cs2PlayDisc, Same, ToEnd
  <2>3. CASE c.length \in Nat
    <3>1. playendFAD' = Plus(playFAD', c.length)
      BY <2>3 DEF Cs2PlayDisc, Same, ToEnd
    <3> QED
      BY <3>1, <2>3, <1>2, PlusTyped
  <2> QED
    BY <1>1, <2>1, <2>2, <2>3
<1> QED
  BY <1>2, <1>3, <1>4 DEF PlayTyped

\* What a command does to the types of status, play and blocks.
LEMMA ExecuteTyped ==
    ASSUME StatusTyped, PlayTyped, BlocksTyped, asked \in Command, Cs2Execute
    PROVE  StatusTyped' /\ PlayTyped' /\ BlocksTyped'
<1> USE DEF Status, NONE
<1>1. CASE Cs2GetStatus
  BY <1>1 DEF Cs2GetStatus, SameStatus, StatusTyped, PlayTyped, BlocksTyped
<1>2. CASE Cs2GetToc \/ SeekPause
  <2>1. StatusTyped'
    BY <1>2, BecomesTyped DEF Cs2GetToc, SeekPause
  <2> QED
    BY <2>1, <1>2 DEF Cs2GetToc, SeekPause, PlayTyped, BlocksTyped
<1>3. CASE Cs2InitializeCDSystem(asked.reset)
  <2>1. StatusTyped'
    BY <1>3, BecomesTyped DEF Cs2InitializeCDSystem, StatusTyped
  <2>2. PlayTyped'
    BY <1>3, FADs DEF Cs2InitializeCDSystem, PlayTyped, Forever
  <2>3. BlocksTyped'
    BY <1>3, Blocks DEF Cs2InitializeCDSystem, BlocksTyped
  <2> QED
    BY <2>1, <2>2, <2>3
<1>4. CASE Cs2OpenTray
  <2>1. StatusTyped'
    BY <1>4, BecomesTyped DEF Cs2OpenTray, StatusTyped
  <2> QED
    BY <2>1, <1>4 DEF Cs2OpenTray, PlayTyped, BlocksTyped
<1>5. CASE asked.op = "PlayDisc" /\ Cs2PlayDisc(asked.start, asked.length, asked.repeat, asked.keep)
  <2>1. StatusTyped'
    BY <1>5, BecomesTyped DEF Cs2PlayDisc
  <2>2. PlayTyped'
    BY <1>5, PlayDiscTyped
  <2> QED
    BY <2>1, <2>2, <1>5 DEF Cs2PlayDisc, BlocksTyped
<1>6. CASE SeekStop
  <2>1. StatusTyped'
    BY <1>6, BecomesTyped DEF SeekStop
  <2> QED
    BY <2>1, <1>6, FADs DEF SeekStop, PlayTyped, BlocksTyped
<1>7. CASE asked.op = "SeekFAD" /\ SeekFAD(asked.to)
  <2>1. StatusTyped'
    BY <1>7, BecomesTyped DEF SeekFAD
  <2>2. asked.to \in Disc
    BY <1>7, CommandAssumption
  <2> QED
    BY <2>1, <2>2, <1>7, FADs DEF SeekFAD, PlayTyped, BlocksTyped
<1>8. CASE asked.op = "SetCDDeviceConnection" /\ Cs2SetCDDeviceConnection(asked.filter)
  <2>1. asked.filter \in BOOLEAN
    BY <1>8, CommandAssumption
  <2> QED
    BY <2>1, <1>8 DEF Cs2SetCDDeviceConnection, SameStatus, StatusTyped, PlayTyped, BlocksTyped
<1>9. CASE Cs2ResetSelector
  <2>1. StatusTyped'
    BY <1>9, BecomesTyped DEF Cs2ResetSelector, StatusTyped
  <2> QED
    BY <2>1, <1>9, Blocks DEF Cs2ResetSelector, PlayTyped, BlocksTyped
<1>10. CASE Cs2DeleteSectorData
  BY <1>10, Blocks DEF Cs2DeleteSectorData, SameStatus, StatusTyped, PlayTyped, BlocksTyped
<1>11. CASE asked.op = "ReadFile" /\ Cs2ReadFile(asked.start, asked.length)
  <2>1. asked.start \in Disc /\ asked.length \in Nat
    BY <1>11, CommandAssumption
  <2>2. StatusTyped'
    BY <1>11 DEF Cs2ReadFile, StatusTyped
  <2> QED
    BY <2>1, <2>2, <1>11, FADs DEF Cs2ReadFile, PlayTyped, BlocksTyped, Forever
<1>12. CASE Cs2AbortFile
  <2>1. StatusTyped'
    BY <1>12, BecomesTyped DEF Cs2AbortFile, SameStatus, StatusTyped
  <2> QED
    BY <2>1, <1>12 DEF Cs2AbortFile, PlayTyped, BlocksTyped
<1>13. \/ Cs2GetStatus \/ Cs2GetToc \/ SeekPause
       \/ Cs2InitializeCDSystem(asked.reset) \/ Cs2OpenTray
       \/ (asked.op = "PlayDisc" /\ Cs2PlayDisc(asked.start, asked.length, asked.repeat, asked.keep))
       \/ SeekStop \/ (asked.op = "SeekFAD" /\ SeekFAD(asked.to))
       \/ (asked.op = "SetCDDeviceConnection" /\ Cs2SetCDDeviceConnection(asked.filter))
       \/ Cs2ResetSelector \/ Cs2DeleteSectorData
       \/ (asked.op = "ReadFile" /\ Cs2ReadFile(asked.start, asked.length))
       \/ Cs2AbortFile
  BY Zenon DEF Cs2Execute
<1> QED
  BY <1>1, <1>2, <1>3, <1>4, <1>5, <1>6, <1>7, <1>8, <1>9, <1>10, <1>11, <1>12, <1>13, Zenon

\* A sector passed was on the disc.
LEMMA PassesTyped ==
    ASSUME StatusTyped, PlayTyped, position \in Disc, NEW full \in BOOLEAN, Passes(full)
    PROVE  /\ status' \in Status /\ nextStatus' \in Status \cup {NONE}
           /\ PlayTyped'
<1>1. status' \in Status /\ nextStatus' \in Status \cup {NONE}
  BY DEF Passes, StatusTyped, Status
<1>2. position + 1 \in FAD
  BY FADs
<1>3. UNCHANGED <<playFAD, playendFAD, maxrepeat>>
  BY DEF Passes
<1>4. CASE Ends(position + 1)
  <2>1. position' = position + 1 /\ UNCHANGED repcnt
    BY <1>4 DEF Passes
  <2> QED
    BY <1>1, <1>2, <1>3, <2>1 DEF PlayTyped
<1>5. CASE GoesOn(position + 1)
  <2>1. position' \in FAD
    BY <1>2, <1>5 DEF GoesOn, PlayTyped
  <2>2. repcnt' = repcnt \/ (repcnt < 14 /\ repcnt' = repcnt + 1)
    BY <1>5 DEF GoesOn
  <2>3. repcnt' \in 0 .. 255
    BY <2>2 DEF PlayTyped
  <2> QED
    BY <1>1, <1>3, <2>1, <2>3 DEF PlayTyped
<1>6. Ends(position + 1) \/ GoesOn(position + 1)
  BY DEF Passes
<1> QED
  BY <1>1, <1>4, <1>5, <1>6

\* What a period of the drive does to them.
LEMMA PeriodTyped ==
    ASSUME StatusTyped, PlayTyped, BlocksTyped, Period
    PROVE  StatusTyped' /\ PlayTyped' /\ BlocksTyped'
<1>1. Drive /\ Report
  BY DEF Period
<1>2. peri' \in BOOLEAN
  BY <1>1 DEF Report, StatusTyped
<1>3. CASE status = "PLAY" /\ Readable
  <2>1. position \in Disc
    BY <1>3 DEF Readable
  <2>2. PassOver \/ Store \/ Drop
    BY <1>1, <1>3 DEF Drive
  <2>3. CASE PassOver
    <3>1. Passes(FALSE)
      BY <2>3 DEF PassOver
    <3>2. BlocksTyped'
      BY <2>3 DEF PassOver, BlocksTyped
    <3> QED
      BY <3>1, <3>2, <2>1, <1>2, PassesTyped DEF StatusTyped
  <2>4. CASE Store
    <3>1. isbufferfull' \in BOOLEAN /\ Passes(isbufferfull')
      BY <2>4 DEF Store
    <3>2. BlocksTyped'
      BY <2>4, DiscAssumption DEF Store, BlocksTyped
    <3> QED
      BY <3>1, <3>2, <2>1, <1>2, PassesTyped DEF StatusTyped
  <2>5. CASE Drop
    <3>1. Passes(FALSE)
      BY <2>5 DEF Drop
    <3>2. BlocksTyped'
      BY <2>5 DEF Drop, BlocksTyped
    <3> QED
      BY <3>1, <3>2, <2>1, <1>2, PassesTyped DEF StatusTyped
  <2> QED
    BY <2>2, <2>3, <2>4, <2>5
<1>4. CASE ~(status = "PLAY" /\ Readable)
  <2>1. Idle
    BY <1>1, <1>4 DEF Drive
  <2>2. PlayTyped' /\ BlocksTyped'
    BY <2>1 DEF Idle, PlayTyped, BlocksTyped
  <2>3. CASE status = "SEEK"
    BY <1>1, <1>2, <1>4, <2>2, <2>3 DEF Drive, SeekOn, StatusTyped, Status, NONE
  <2>4. CASE status = "BUSY"
    BY <1>1, <1>2, <1>4, <2>2, <2>4 DEF Drive, Busy, StatusTyped
  <2>5. CASE status \notin {"SEEK", "BUSY"}
    <3>1. UNCHANGED <<status, nextStatus>>
      BY <1>1, <1>4, <2>5 DEF Drive
    <3> QED
      BY <3>1, <1>2, <2>2 DEF StatusTyped
  <2> QED
    BY <2>3, <2>4, <2>5
<1> QED
  BY <1>3, <1>4

RegistersTyped ==
    /\ command \in BOOLEAN /\ timing \in BOOLEAN /\ execlock \in BOOLEAN
    /\ cr1 \in Carried /\ cr4 \in Carried /\ cmok \in BOOLEAN
    /\ tray \in Tray
    /\ pc \in {"ready", "cleared", "begun", "given", "done"}
    /\ asked \in Command

\* The types of the registers are kept by every step.
LEMMA RegistersStep == RegistersTyped /\ [Next]_vars => RegistersTyped'
<1> SUFFICES ASSUME RegistersTyped, [Next]_vars PROVE RegistersTyped'
  OBVIOUS
<1> USE DEF RegistersTyped, Carried
<1>1. CASE \E c \in Command : ClearCMOK(c)
  BY <1>1 DEF ClearCMOK
<1>2. CASE WriteCR1
  BY <1>2 DEF WriteCR1
<1>3. CASE WriteCR4
  BY <1>3 DEF WriteCR4
<1>4. CASE SeeCMOK
  BY <1>4 DEF SeeCMOK
<1>5. CASE ReadCR4
  BY <1>5 DEF ReadCR4
<1>6. CASE TakeSector
  BY <1>6 DEF TakeSector
<1>7. CASE Handle
  BY <1>7 DEF Handle
<1>8. CASE Cs2Execute
  <2>1. execlock' \in BOOLEAN
    <3>1. CASE Cs2ResetSelector \/ Cs2DeleteSectorData
      BY <3>1 DEF Cs2ResetSelector, Cs2DeleteSectorData
    <3>2. CASE \/ Cs2GetStatus \/ Cs2GetToc \/ Cs2OpenTray \/ SeekStop \/ SeekPause
               \/ Cs2AbortFile
      BY <3>2 DEF Cs2GetStatus, Cs2GetToc, Cs2OpenTray, SeekStop, SeekPause, Cs2AbortFile
    <3>3. CASE Cs2InitializeCDSystem(asked.reset)
      BY <3>3 DEF Cs2InitializeCDSystem
    <3>4. CASE Cs2PlayDisc(asked.start, asked.length, asked.repeat, asked.keep)
      BY <3>4 DEF Cs2PlayDisc
    <3>5. CASE SeekFAD(asked.to)
      BY <3>5 DEF SeekFAD
    <3>6. CASE Cs2SetCDDeviceConnection(asked.filter)
      BY <3>6 DEF Cs2SetCDDeviceConnection
    <3>7. CASE Cs2ReadFile(asked.start, asked.length)
      BY <3>7 DEF Cs2ReadFile
    <3>8. \/ Cs2ResetSelector \/ Cs2DeleteSectorData
          \/ Cs2GetStatus \/ Cs2GetToc \/ Cs2OpenTray \/ SeekStop \/ SeekPause
          \/ Cs2AbortFile \/ Cs2InitializeCDSystem(asked.reset)
          \/ Cs2PlayDisc(asked.start, asked.length, asked.repeat, asked.keep)
          \/ SeekFAD(asked.to) \/ Cs2SetCDDeviceConnection(asked.filter)
          \/ Cs2ReadFile(asked.start, asked.length)
      BY <1>8, Zenon DEF Cs2Execute
    <3> QED
      BY <3>1, <3>2, <3>3, <3>4, <3>5, <3>6, <3>7, <3>8, Zenon
  <2>2. /\ timing' = FALSE /\ cmok' = TRUE /\ cr4' = "answer"
        /\ cr1' \in {"answer", "answer+peri"}
        /\ UNCHANGED <<command, tray, programVars>>
    BY <1>8 DEF Cs2Execute
  <2> QED
    BY <2>1, <2>2
<1>9. CASE Unlock
  BY <1>9 DEF Unlock
<1>10. CASE PollTray
  BY <1>10 DEF PollTray
<1>11. CASE Period
  <2>1. UNCHANGED <<command, timing, execlock, cmok, tray, programVars>> /\ Report
    BY <1>11 DEF Period
  <2> QED
    BY <2>1 DEF Report
<1>12. CASE UNCHANGED vars
  BY <1>12 DEF vars
<1> QED
  BY <1>1, <1>2, <1>3, <1>4, <1>5, <1>6, <1>7, <1>8, <1>9, <1>10, <1>11, <1>12 DEF Next

\* The types in four parts.
LEMMA TypeSplit == TypeOk <=> StatusTyped /\ PlayTyped /\ BlocksTyped /\ RegistersTyped
  BY DEF TypeOk, StatusTyped, PlayTyped, BlocksTyped, RegistersTyped

\* The types hold at the start.
LEMMA TypeInit == Init => TypeOk
<1> SUFFICES ASSUME Init PROVE TypeOk
  OBVIOUS
<1>1. StatusTyped
  BY DEF Init, StatusTyped, Status
<1>2. PlayTyped
  BY FADs DEF Init, PlayTyped, Forever
<1>3. BlocksTyped
  BY Blocks DEF Init, BlocksTyped
<1>4. RegistersTyped
  BY DiscAssumption DEF Init, RegistersTyped, Carried
<1> QED
  BY <1>1, <1>2, <1>3, <1>4, TypeSplit

\* Every step keeps the types.
LEMMA TypeStep == TypeOk /\ [Next]_vars => TypeOk'
<1> SUFFICES ASSUME TypeOk, [Next]_vars PROVE TypeOk'
  OBVIOUS
<1>1. StatusTyped /\ PlayTyped /\ BlocksTyped /\ RegistersTyped
  BY TypeSplit
<1>2. RegistersTyped'
  BY <1>1, RegistersStep
<1>3. StatusTyped' /\ PlayTyped' /\ BlocksTyped'
  <2>1. CASE Cs2Execute
    BY <1>1, <2>1, ExecuteTyped DEF RegistersTyped
  <2>2. CASE Period
    BY <1>1, <2>2, PeriodTyped
  <2>3. CASE PollTray
    <3>1. StatusTyped'
      BY <1>1, <2>3, BecomesTyped DEF PollTray, StatusTyped, Status
    <3> QED
      BY <1>1, <2>3, <3>1 DEF PollTray, PlayTyped, BlocksTyped
  <2>4. CASE TakeSector
    <3>1. BlocksTyped'
      <4>1. used' \in 0 .. MaxBlocks
        BY <1>1, <2>4, Blocks DEF TakeSector, BlocksTyped
      <4> QED
        BY <1>1, <2>4, <4>1 DEF TakeSector, BlocksTyped
    <3> QED
      BY <1>1, <2>4, <3>1 DEF TakeSector, StatusTyped, PlayTyped
  <2>5. CASE WriteCR1
    BY <1>1, <2>5 DEF WriteCR1, StatusTyped, PlayTyped, BlocksTyped
  <2>6. CASE UNCHANGED <<status, peri, nextStatus, playVars, bufferVars>>
    BY <1>1, <2>6 DEF StatusTyped, PlayTyped, BlocksTyped
  <2>7. \/ Cs2Execute \/ Period \/ PollTray \/ TakeSector \/ WriteCR1
        \/ UNCHANGED <<status, peri, nextStatus, playVars, bufferVars>>
    BY DEF Next, vars, ClearCMOK, WriteCR4, SeeCMOK, ReadCR4, Handle, Unlock
  <2> QED
    BY <2>1, <2>2, <2>3, <2>4, <2>5, <2>6, <2>7
<1>4. (StatusTyped /\ PlayTyped /\ BlocksTyped /\ RegistersTyped)'
  BY <1>2, <1>3
<1> QED
  BY <1>4 DEF TypeOk, StatusTyped, PlayTyped, BlocksTyped, RegistersTyped

\* The position stays within the disc and its lead-out, the repeats and the
\* blocks within their bounds, for every program.
THEOREM DriveTyped == Spec => []TypeOk
  BY TypeInit, TypeStep, PTL DEF Spec

=============================================================================
