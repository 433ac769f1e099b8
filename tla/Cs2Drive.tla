------------------------------ MODULE Cs2Drive ------------------------------
(***************************************************************************)
(* The drive of the CD block and its command interface (cs2.c): the four   *)
(* registers CR1 - CR4 that carry commands, answers and periodic reports,  *)
(* and the play that reads the disc, sector after sector, into the blocks. *)
(*                                                                         *)
(* Cs2Exec counts three clocks down - of the command, of the tray and of   *)
(* the period - and each is an action of its own here: how they fall       *)
(* together depends on the cycles.  The registers carry one command, one   *)
(* answer or one report; CR2 and CR3 go with CR4.  Of HIRQ only CMOK is    *)
(* kept.  Which blocks hold which sectors is Cs2Buffer's matter: here they *)
(* are counted.                                                            *)
(***************************************************************************)
EXTENDS Integers

CONSTANTS
    Sectors,    \* the disc has the FADs 1 .. Sectors (1 stands for 150)
    Audio,      \* those of the audio tracks
    Selected,   \* those the filters lead to a partition
    MaxBlocks,  \* MAX_BLOCKS
    Tray,       \* what the CD interface may answer to GetStatus
    Command     \* the commands of the program

Disc    == 1 .. Sectors
LeadOut == Sectors + 1
NoFAD   == Sectors + 2         \* 0xFFFFFFFF
FAD     == 0 .. NoFAD

Status == {"BUSY", "PAUSE", "STANDBY", "PLAY", "SEEK", "OPEN", "NODISC"}
NONE   == "none"               \* nextStatus 0xFF
Forever == 15                  \* the largest number of repeats
Same    == - 1                 \* "no change" of a start, an end or a repeat
ToEnd   == - 2                 \* an end at the lead-out

ASSUME DiscAssumption ==
    /\ Sectors \in Nat \ {0}
    /\ Audio \subseteq Disc /\ Selected \subseteq Disc
    /\ MaxBlocks \in Nat \ {0}
    /\ Tray \subseteq {"in", "empty", "open"} /\ "in" \in Tray
ASSUME CommandAssumption ==
    \A c \in Command :
        /\ c.op = "PlayDisc" =>
             /\ c.start \in Disc \cup {Same}
             /\ c.length \in Nat \cup {Same, ToEnd}
             /\ c.repeat \in 0 .. Forever \cup {Same}
             /\ c.keep \in BOOLEAN
        /\ c.op = "ReadFile" => c.start \in Disc /\ c.length \in Nat
        /\ c.op = "SeekFAD" => c.to \in Disc
        /\ c.op = "InitializeCDSystem" => c.reset \in BOOLEAN
        /\ c.op = "SetCDDeviceConnection" => c.filter \in BOOLEAN

VARIABLES
    status, peri,             \* Cs2Area->status: CDB_STAT_PERI apart
    nextStatus,
    position,                 \* Cs2Area->FAD
    playFAD, playendFAD, repcnt, maxrepeat,
    used, isbufferfull,       \* the blocks in use, of MaxBlocks
    connected,                \* outconcddev is not NULL
    command,                  \* _command
    timing,                   \* _commandtiming > 0
    execlock,                 \* _command_execlock > 0
    cr1, cr4,                 \* what the registers carry
    cmok,                     \* CDB_HIRQ_CMOK
    tray,                     \* its answer now
    pc, asked                 \* the program: its step, its command

playVars    == <<position, playFAD, playendFAD, repcnt, maxrepeat>>
bufferVars  == <<used, isbufferfull, connected>>
ifVars      == <<command, timing, execlock, cr1, cr4, cmok>>
programVars == <<pc, asked>>
vars == <<status, peri, nextStatus, playVars, bufferVars, ifVars, tray, programVars>>

Carried == {"command", "answer", "answer+peri", "report"}

TypeOk ==
    /\ status \in Status /\ peri \in BOOLEAN /\ nextStatus \in Status \cup {NONE}
    /\ position \in FAD /\ playFAD \in FAD /\ playendFAD \in Nat
    /\ repcnt \in 0 .. 255 /\ maxrepeat \in 0 .. Forever
    /\ used \in 0 .. MaxBlocks /\ isbufferfull \in BOOLEAN /\ connected \in BOOLEAN
    /\ command \in BOOLEAN /\ timing \in BOOLEAN /\ execlock \in BOOLEAN
    /\ cr1 \in Carried /\ cr4 \in Carried /\ cmok \in BOOLEAN
    /\ tray \in Tray
    /\ pc \in {"ready", "cleared", "begun", "given", "done"}
    /\ asked \in Command

\* Cs2Reset, with the disc in; the program has set no connection yet.
Init ==
    /\ status = "PAUSE" /\ peri = FALSE /\ nextStatus = NONE
    /\ position = 1 /\ playFAD = NoFAD /\ playendFAD = NoFAD
    /\ repcnt = 0 /\ maxrepeat = 0
    /\ used = 0 /\ isbufferfull = FALSE /\ connected = FALSE
    /\ command = FALSE /\ timing = FALSE /\ execlock = FALSE
    /\ cr1 = "report" /\ cr4 = "report" /\ cmok = TRUE
    /\ tray = "in"
    /\ pc = "ready" /\ asked \in Command

(***************************************************************************)
(* The program.  It waits for CMOK before it reads an answer, and it has   *)
(* read the answer before it gives the next command.  In between it may    *)
(* read CR4 of a report, and end transfers that free a block.              *)
(***************************************************************************)
ClearCMOK(c) ==
    /\ pc = "ready" /\ pc' = "cleared" /\ asked' = c
    /\ cmok' = FALSE
    /\ UNCHANGED <<status, peri, nextStatus, playVars, bufferVars, command, timing,
                   execlock, cr1, cr4, tray>>

WriteCR1 ==
    /\ pc = "cleared" /\ pc' = "begun"
    /\ peri' = FALSE /\ command' = TRUE /\ cr1' = "command"
    /\ UNCHANGED <<status, nextStatus, playVars, bufferVars, timing, execlock, cr4,
                   cmok, tray, asked>>

WriteCR4 ==
    /\ pc = "begun" /\ pc' = "given"
    /\ cr4' = "command" /\ timing' = TRUE
    /\ UNCHANGED <<status, peri, nextStatus, playVars, bufferVars, command, execlock,
                   cr1, cmok, tray, asked>>

SeeCMOK ==
    /\ pc = "given" /\ cmok /\ pc' = "done"
    /\ UNCHANGED <<status, peri, nextStatus, playVars, bufferVars, ifVars, tray, asked>>

\* The last of the answer, or of a report.
ReadCR4 ==
    /\ pc \in {"ready", "done"} /\ pc' = "ready"
    /\ command' = FALSE
    /\ UNCHANGED <<status, peri, nextStatus, playVars, bufferVars, timing, execlock,
                   cr1, cr4, cmok, tray, asked>>

\* Cs2FreeBlock for the sector of a transfer.
TakeSector ==
    /\ used > 0 /\ used' = used - 1 /\ isbufferfull' = FALSE
    /\ UNCHANGED <<status, peri, nextStatus, playVars, connected, ifVars, tray,
                   programVars>>

\* The user.
Handle ==
    /\ tray' \in Tray \ {tray}
    /\ UNCHANGED <<status, peri, nextStatus, playVars, bufferVars, ifVars, programVars>>

(***************************************************************************)
(* The commands.  Each sets CMOK and answers with the status.              *)
(***************************************************************************)
Loaded == status \notin {"OPEN", "NODISC"}

\* status = s; nextStatus = n.  An assignment clears CDB_STAT_PERI.
Becomes(s, n) == status' = s /\ peri' = FALSE /\ nextStatus' = n

SameStatus == UNCHANGED <<status, peri, nextStatus>>

\* FADs wrap at 2^32.
Plus(f, n) == IF f # NoFAD THEN f + n ELSE IF n = 0 THEN NoFAD ELSE n - 1

Cs2GetStatus == SameStatus /\ UNCHANGED <<playVars, bufferVars, execlock>>

\* Cs2GetToc, Cs2GetSessionInfo.
Cs2GetToc ==
    /\ Becomes("BUSY", "PAUSE")
    /\ UNCHANGED <<playVars, bufferVars, execlock>>

Cs2InitializeCDSystem(reset) ==
    /\ IF Loaded THEN Becomes("BUSY", "PAUSE") /\ position' = 1
       ELSE nextStatus' = NONE /\ UNCHANGED <<status, peri, position>>
    /\ IF reset
       THEN /\ playFAD' = NoFAD /\ playendFAD' = NoFAD /\ maxrepeat' = 0
            /\ used' = 0
       ELSE UNCHANGED <<playFAD, playendFAD, maxrepeat, used>>
    /\ isbufferfull' = FALSE
    /\ UNCHANGED <<repcnt, connected, execlock>>

Cs2OpenTray ==
    /\ Becomes("OPEN", nextStatus)
    /\ UNCHANGED <<playVars, bufferVars, execlock>>

\* A start by FAD.
Cs2PlayDisc(start, length, repeat, keep) ==
    /\ Becomes("SEEK", NONE)
    /\ playFAD' = IF start = Same THEN playFAD ELSE start
    /\ position' = IF start = Same \/ keep THEN position ELSE start
    /\ repcnt' = IF start = Same THEN repcnt ELSE 0
    /\ maxrepeat' = IF repeat = Same THEN maxrepeat ELSE repeat
    /\ playendFAD' = CASE length = Same  -> playendFAD
                       [] length = ToEnd -> LeadOut
                       [] OTHER          -> Plus(playFAD', length)
    /\ UNCHANGED <<bufferVars, execlock>>

SeekStop ==
    /\ Becomes("BUSY", "STANDBY")
    /\ position' = NoFAD /\ repcnt' = 255
    /\ UNCHANGED <<playFAD, playendFAD, maxrepeat, bufferVars, execlock>>

SeekPause == Becomes("BUSY", "PAUSE") /\ UNCHANGED <<playVars, bufferVars, execlock>>

SeekFAD(to) ==
    /\ Becomes("SEEK", "PAUSE")
    /\ position' = to /\ repcnt' = 0
    /\ UNCHANGED <<playFAD, playendFAD, maxrepeat, bufferVars, execlock>>

\* Command 0x31, Get CD Device Connection, is carried out as 0x30 with the
\* filter 0.
Cs2SetCDDeviceConnection(filter) ==
    /\ connected' = filter
    /\ SameStatus /\ UNCHANGED <<playVars, used, isbufferfull, execlock>>

\* With the flag that resets the buffers.
Cs2ResetSelector ==
    /\ used' = 0 /\ isbufferfull' = FALSE
    /\ Becomes("PAUSE", nextStatus) /\ execlock' = TRUE
    /\ UNCHANGED <<playVars, connected>>

\* "All that follow": rejected when there is none.
Cs2DeleteSectorData ==
    /\ IF used = 0 THEN UNCHANGED <<used, isbufferfull, execlock>>
       ELSE used' = 0 /\ isbufferfull' = FALSE /\ execlock' = TRUE
    /\ SameStatus /\ UNCHANGED <<playVars, connected>>

Cs2ReadFile(start, length) ==
    /\ status' = "PLAY" /\ peri' = FALSE /\ UNCHANGED nextStatus
    /\ playFAD' = start /\ position' = start /\ playendFAD' = start + length
    /\ repcnt' = 0 /\ maxrepeat' = 0
    /\ connected' = TRUE
    /\ UNCHANGED <<used, isbufferfull, execlock>>

Cs2AbortFile ==
    /\ IF Loaded THEN Becomes("BUSY", "PAUSE") ELSE SameStatus
    /\ UNCHANGED <<playVars, bufferVars, execlock>>

\* Cs2Execute, when the command's time is up.
Cs2Execute ==
    /\ timing /\ ~execlock /\ timing' = FALSE
    /\ \/ asked.op = "GetStatus" /\ Cs2GetStatus
       \/ asked.op = "GetToc" /\ Cs2GetToc
       \/ asked.op = "InitializeCDSystem" /\ Cs2InitializeCDSystem(asked.reset)
       \/ asked.op = "OpenTray" /\ Cs2OpenTray
       \/ /\ asked.op = "PlayDisc"
          /\ Cs2PlayDisc(asked.start, asked.length, asked.repeat, asked.keep)
       \/ asked.op = "SeekStop" /\ SeekStop
       \/ asked.op = "SeekPause" /\ SeekPause
       \/ asked.op = "SeekFAD" /\ SeekFAD(asked.to)
       \/ /\ asked.op = "SetCDDeviceConnection"
          /\ Cs2SetCDDeviceConnection(asked.filter)
       \/ asked.op = "ResetSelector" /\ Cs2ResetSelector
       \/ asked.op = "DeleteSectorData" /\ Cs2DeleteSectorData
       \/ asked.op = "ReadFile" /\ Cs2ReadFile(asked.start, asked.length)
       \/ asked.op = "AbortFile" /\ Cs2AbortFile
    /\ cr1' = IF peri' THEN "answer+peri" ELSE "answer"
    /\ cr4' = "answer" /\ cmok' = TRUE
    /\ UNCHANGED <<command, tray, programVars>>

\* The time a command took is up; its last interrupt goes out.
Unlock ==
    /\ execlock /\ execlock' = FALSE
    /\ UNCHANGED <<status, peri, nextStatus, playVars, bufferVars, command, timing, cr1,
                   cr4, cmok, tray, programVars>>

(***************************************************************************)
(* The drive.                                                              *)
(***************************************************************************)
\* The tray, once a second.
PollTray ==
    /\ \/ tray = "in" /\ ~Loaded /\ Becomes("PAUSE", nextStatus)
       \/ tray = "empty" /\ status # "NODISC" /\ Becomes("NODISC", nextStatus)
       \/ tray = "open" /\ status # "OPEN" /\ Becomes("OPEN", nextStatus)
    /\ UNCHANGED <<playVars, bufferVars, ifVars, tray, programVars>>

\* The play goes on behind the sector before f, or from its start again.
GoesOn(f) ==
    IF f < playendFAD THEN position' = f /\ UNCHANGED repcnt
    ELSE /\ repcnt < maxrepeat
         /\ position' = playFAD
         /\ repcnt' = IF repcnt < 14 THEN repcnt + 1 ELSE repcnt

Ends(f) == f >= playendFAD /\ repcnt >= maxrepeat

\* Behind a sector, with isbufferfull as full: pause at the end of the play,
\* and seek while there is no room.
Passes(full) ==
    LET f == position + 1
    IN  /\ IF Ends(f) THEN position' = f /\ UNCHANGED repcnt ELSE GoesOn(f)
        /\ status' = IF Ends(f) THEN "PAUSE" ELSE IF full THEN "SEEK" ELSE status
        /\ nextStatus' = IF full THEN NONE ELSE nextStatus
        /\ UNCHANGED <<playFAD, playendFAD, maxrepeat>>

\* The sectors that belong in a block.
Wanted == Selected \ Audio

\* Cs2ReadFilteredSector found a sector no partition takes.
PassOver == position \notin Wanted /\ Passes(FALSE) /\ UNCHANGED bufferVars

\* Mutant: Cs2AllocateBlock sets isbufferfull only once it finds no block.
StoreUntilNone ==
    /\ position \in Wanted /\ used < MaxBlocks
    /\ used' = used + 1 /\ UNCHANGED <<isbufferfull, connected>>
    /\ Passes(FALSE)

\* It found a sector of a partition, and a block.
Store ==
    /\ position \in Wanted /\ used < MaxBlocks
    /\ used' = used + 1 /\ isbufferfull' = (used' = MaxBlocks) /\ UNCHANGED connected
    /\ Passes(isbufferfull')

\* It found a sector of a partition, and no block; it does not even look for
\* one when the partition has them all.
Drop ==
    /\ position \in Wanted /\ used = MaxBlocks
    /\ isbufferfull' \in BOOLEAN /\ UNCHANGED <<used, connected>>
    /\ Passes(FALSE)

\* Mutant: a seek that waits for room waits for ever.
SeekStays ==
    /\ status' = IF nextStatus # NONE THEN nextStatus ELSE "SEEK"
    /\ nextStatus' = NONE

SeekOn ==
    /\ status' = CASE nextStatus # NONE -> nextStatus
                   [] isbufferfull      -> "SEEK"
                   [] OTHER             -> "PLAY"
    /\ nextStatus' = NONE

Busy ==
    /\ status' = IF nextStatus # NONE THEN nextStatus ELSE status
    /\ nextStatus' = NONE

\* Mutant: the answer of the CD interface is not looked at.
ReadableAnywhere ==
    tray = "in" /\ (position \in Audio \/ (connected /\ ~isbufferfull))

\* A sector of data is read only for a filter, and while there is room.
Readable ==
    /\ tray = "in" /\ position \in Disc
    /\ position \in Audio \/ (connected /\ ~isbufferfull)

Idle == UNCHANGED <<playVars, bufferVars>>

Drive ==
    CASE status = "PLAY" /\ Readable -> PassOver \/ Store \/ Drop
      [] status = "SEEK"             -> SeekOn /\ Idle
      [] status = "BUSY"             -> Busy /\ Idle
      [] OTHER -> UNCHANGED <<status, nextStatus>> /\ Idle

\* Mutant: a report although a command or its answer is in the registers.
ReportAlways == peri' = TRUE /\ cr1' = "report" /\ cr4' = "report"

\* A report leaves a command, and the answer to it, alone.
Report ==
    IF command THEN UNCHANGED <<peri, cr1, cr4>>
    ELSE peri' = TRUE /\ cr1' = "report" /\ cr4' = "report"

\* One period of the drive.
Period ==
    /\ Drive /\ Report
    /\ UNCHANGED <<command, timing, execlock, cmok, tray, programVars>>

Next ==
    \/ \E c \in Command : ClearCMOK(c)
    \/ WriteCR1
    \/ WriteCR4
    \/ SeeCMOK
    \/ ReadCR4
    \/ TakeSector
    \/ Handle
    \/ Cs2Execute
    \/ Unlock
    \/ PollTray
    \/ Period

Spec == Init /\ [][Next]_vars

\* Cs2Exec counts its cycles whatever the program does, and the program goes on
\* taking sectors; it need not give commands.
FairSpec == Spec /\ WF_vars(Period) /\ WF_vars(TakeSector)

(***************************************************************************)
(* Properties.                                                             *)
(***************************************************************************)
\* The registers hold the command as it was written until Cs2Execute reads it,
\* and its answer, with CDB_STAT_PERI clear, until the program has read CR4: no
\* periodic report comes between (Cs2Exec, Cs2WriteWord, Cs2ReadWord).
CommandsIntact ==
    /\ pc = "begun" => cr1 = "command"
    /\ pc = "given" /\ timing => cr1 = "command" /\ cr4 = "command"
    /\ (pc = "given" /\ ~timing) \/ pc = "done" => cr1 = "answer" /\ cr4 = "answer"

\* All blocks are in use and the drive does not know.
Unnoticed == used = MaxBlocks /\ ~isbufferfull

\* The drive has passed the sector it was on.
Passed == position' # position \/ repcnt' # repcnt \/ status' = "PAUSE"

\* A play passes no sector its filters take without storing it, however the
\* buffer fills and empties and the play seeks and goes on; except behind a
\* Cs2InitializeCDSystem that forgot that the buffer is full.
SectorsStored ==
    [][ /\ Period /\ status = "PLAY" /\ position \in Wanted /\ Passed
            => (used' = used + 1 \/ Unnoticed)
        /\ Unnoticed' => \/ Unnoticed
                         \/ timing /\ ~timing' /\ asked.op = "InitializeCDSystem"
      ]_vars

Playing == status = "PLAY" \/ (status = "SEEK" /\ nextStatus = NONE)

\* A play from where the drive is can come to its end on this disc.
Finite ==
    /\ position \in Disc /\ playFAD \in Disc /\ playendFAD <= LeadOut
    /\ maxrepeat < Forever
    /\ connected /\ tray = "in"

Disturbed ==
    \/ ~connected \/ tray # "in"
    \/ pc \in {"cleared", "begun", "given"} /\ asked.op \in {"PlayDisc", "ReadFile"}

\* Such a play ends, with its repeats, also when it has to wait for blocks:
\* unless the program orders another one, cuts the drive off, or the disc goes.
PlayEnds == Playing /\ Finite ~> ~Playing \/ Disturbed
=============================================================================
