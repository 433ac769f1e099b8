# Z-GX: a verification project

Z-GX is a Sega Saturn emulator for the GameCube and the Wii, descended from
Yabause. `YabauseEmulate` (src/src/yabause.c) runs the two SH-2 processors, the
sound part, the SCU, the video timing, the SMPC and the CD block in turns on one
host thread. What makes it go wrong is seldom one function: it is the order in
which interrupts are raised, masked, withdrawn and accepted, blocks taken and
given back, commands and reports written to the same registers, while the emulated
program does the same from the other side. This project models those parts in
TLA+, checks them with TLC on small instances and proves the invariants and the
action properties of the interrupts, and the invariants of the drive, of the
buffer and of the sound chip, with TLAPS for all of them. The sound
processor, the largest interpreter of the code, is modelled instruction by
instruction, and what its handlers promise each other is checked and proved. Paths below
are relative to `src/src/`.

## 1. Inventory

| part | source | state | operations | with whom |
|---|---|---|---|---|
| emulation loop | yabause.c | DecilineCount, LineCount, VBlankLineCount, IsSSH2Running | one turn per deciline, reset, start and stop of the slave, change of clock | calls everything else |
| SCU interrupt controller | scu.c | IST, IMS, AIACK, interrupts[30], NumberOfInterrupts | SendInterrupt, ScuQueueInterrupt, ScuRemoveInterrupt, ScuTestInterruptMask, ScuRemoveInterruptByCPU, register writes | called by every device; calls sh2_SetInterrupt |
| SCU DMA | scu.c | dma0..2, DnR, DnW, DnC, DnAD, DnEN, DnMD | start by write or by interrupt, ScuDmaProc, SucDmaCheck | raises DMAnEnd |
| SCU timers | scu.c | timer0, timer1_counter, timer1_preset, T0C, T1S, T1MD, the two "set" flags | HBlank-IN, VBlank-OUT, ScuTimer1Exec | raises Timer0 and Timer1 |
| SCU DSP | scu.c | program, registers, flags | ScuDspExec | raises DSPEnd |
| SH-2 interrupt requests | sh2/sh2.c | iqr[64], iqr_count, SR.I | sh2_SetInterrupt, sh2_HandleInterrupt, sh2_NMI, sh2_Reset | SCU, SMPC, VDP2, on-chip modules |
| SH-2 on-chip modules | sh2/sh2.c | FRT, WDT, DMAC, divider | sh2_FRTExec, sh2_WDTExec, sh2_DMAExec | sh2_SetInterrupt |
| SH-2 recompiler | sh2/drc | block table, pages, code area | sh2_DrcExec, compile, invalidate | memory writes of everybody |
| SMPC | smpc.c | COMREG, SF, timing, INTBACK phases | SmpcExec and its commands | loop, SCU, SH-2 |
| VDP2 timing | vdp2.c | TVMD, TVSTAT | VBlank-IN/OUT, HBlank-IN/OUT | SCU, slave, backup RAM |
| VDP1 | vdp1.c | EDSR, PTMR, FBCR, command list | draw, frame change | raises DrawEnd |
| CD block, buffer | cs2.c | block[], partition[], filter[], blockfreespace, isbufferfull, the transfer's pointer and count | get, put, delete, copy, move, end of transfer, the data port | SCU DMA reads the port; the drive fills it |
| CD block, drive | cs2.c, cdbase.c | status, nextStatus, FAD, playFAD, playendFAD, repcnt, CR1-CR4, HIRQ, _command, the clocks | commands, Cs2Exec, periodic reports, the tray | raises ExtInt00; reads the disc |
| SCSP | scsp2.c | SCIEB, SCIPD, SCILV, MCIEB, MCIPD, three timers, sample_timer | register writes, ScspDoExec, ScspRaiseInterrupt | raises SoundRequest; interrupts the 68000 |
| 68000 | musashi | DAR[16], PC, SR, SP[], int_level, stopped | 1,900 handlers, m68k_execute, m68k_set_irq | SCSP's registers and memory |
| backup RAM | memory.c | bup_ram, bup_ram_written | load, save, autosave | VDP2's VBlank-IN |
| VM, video back end, GUI | vm, sgx, gui, osd | host resources | - | host |

What is hard, part by part:

* *Interrupt controller.* Three functions compact one array, a fourth appends and
  sorts; a source may be raised, withdrawn by its device, cleared by the program
  and unmasked in any order. Right means: the queue is ordered and free of
  duplicates, nothing masked goes out, nothing waiting gets lost, the highest
  goes first, nothing stale is left.
* *Requests of the SH-2.* Sorted insertion, one acceptance per slice. Right
  means: the highest request the mask admits is taken, the array never
  overflows, a stopped slave keeps nothing.
* *DMA.* One start can flush all channels inside a register write. Right means:
  every end that is reached is reported, a channel stops before it at an entry of
  0 only.
* *Timers.* The flag, the counter and the queued interrupt are three states kept
  by five functions. Right means: while the timers run, an interrupt still queued
  is of the present line or count.
* *Loop.* Reset, clock change and TVMD all change the raster in mid-frame. Right
  means: the line stays in the frame, the blank comes and goes with its
  interrupts.
* *CD buffer.* A transfer holds a pointer into a partition that other commands
  change; blocks are counted in three places. Right means: no block is lost or
  in two partitions, the counts agree, a program that keeps the protocol gets
  and deletes the sectors it asked for.
* *CD drive.* Commands, answers and reports share four registers, the drive
  shares its status with the commands, and a full buffer makes it wait. Right
  means: no report overwrites a command or an answer, no wanted sector is
  passed, a play comes to its end.
* *SCSP.* Both programs write the registers, one of them inside a piece whose
  length is fixed already. Right means: the timers fire when their time is up,
  every enabled and pending source is reported, none is invented.
* *68000.* Every handler exists in a dozen addressing modes and three sizes, and
  must agree with its brothers. Right means: what exceptions, calls and register
  lists put away comes back, comparisons order numbers, long arithmetic can be
  built from short, user mode stays out of the system byte.
* *SMPC.* The command is executed from the register when its time is up.
* *Recompiler.* A write must invalidate every block compiled from that memory.
* *Backup RAM.* The file is truncated before the data are ready; the autosave
  waits for a pause in the writes.

PROJECT.json lists these hazards at their lines, with the properties that cover
them or the module that is planned for them.

## 2. Modules

```
Sh2Irq ── ScuIrq ── ScuDma ── Scu ── Emulate ── MCEmulate             (TLC)
SectorStore ··· Cs2Buffer ── MCCs2Buffer                               (TLC)
Cs2Drive ── MCCs2Drive                                                 (TLC)
Sound ── MCSound                                                       (TLC)
M68kAlu ── M68kCpu ── M68kForms ── M68kOpAc, M68kOpDm, M68kOpNz
                                   └── M68k ── MCM68k                  (TLC)
M68kAlu ── M68kArithmetic ── MCM68kArithmetic                          (TLC)
Scu_proofs ── Emulate_proofs                                           (TLAPS)
Cs2Buffer_proofs                                                       (TLAPS)
Cs2Drive_proofs                                                        (TLAPS)
Sound_proofs                                                           (TLAPS)
M68kAlu_proofs ── M68kArithmetic_proofs, M68k_proofs                   (TLAPS)
```

The lower modules of the first line define pure operators on records, because
the code's functions call each other in the middle of their own work (a send may
start a DMA that flushes another channel whose end is a send). An operator maps
the state before a call to the state after it, the calls it makes included.
`Emulate` owns the variables and has one action per access of the program and
per call of the loop.

* **Sh2Irq** - one request queue. `SetInterrupt` is sh2_SetInterrupt: a vector
  already pending is dropped, a new request goes in front of those of its level.
  `Acceptable`, `Accepted` and `MaskAfter` are sh2_HandleInterrupt.
* **ScuIrq** - the controller. A state is a record with IST and IMS as sets of
  sources, AIACK, the array with the slots *above* the live part (which
  ScuRemoveInterruptByCPU reads), its length, both request queues and
  IsSSH2Running. One operator per function of scu.c; `ExchangeSort` runs the two
  loops of exchanges of ScuQueueInterrupt, which Scu_proofs shows to sort. RemoveBit
  keeps the index the code uses (the number of the bit, not of the slot).
* **ScuDma** - the channels. A count is in half words, so that a transfer can end
  at zero or past it as odd counts do; `Burst` is the words a call has time for.
  `MoveTable` is the whole loop of SucDmaCheck over a table: it goes from entry to
  entry while it has time, moves a word for an entry of 0, and loads the next entry
  also when no time is left for it. `Start` flushes every channel when the code
  does. A transfer from the CD block ends in its first call.
* **Scu** - the ScuSend functions, the timers, ScuExec and ScuReset.
* **Emulate** - YabauseEmulate as a state machine: `phase` is the place in the
  loop body. In the slice of an SH-2 the program may write any of the SCU's
  registers, SR.I, TVMD, PTMR and HIRQ any number of times; between the slices
  the devices may raise their interrupts, and the SMPC may carry out one command.
* **MCEmulate** - the games. A run of all of it at once has too many states, so
  a behaviour begins by choosing a `game`: an instance of Emulate in which only
  some of the devices, commands and register writes take part, over the same
  variables. The properties are those of Emulate and hold of every game.

* **Cs2Buffer** - the blocks, the partitions and the data transfer of the CD
  block, with an action for each command, for a read of the drive and for an access
  to the port. A block stands for the sector in it. `block[]` is a function on
  slots that may have gaps and entries behind `numblocks`, as the array has;
  `used` is the set of blocks whose size is not -1. Which free block is taken is
  left open. `session` belongs to the program: it has given a transfer command
  and not yet ended it. With `Disciplined` it keeps the protocol (one transfer
  at a time, the port only within it, its sectors left alone, no move within one
  partition); without, it gives any command at any time. `MovedWithin` is the move
  within one partition: numblocks goes down and up again for each sector, so that all
  are stored in the same slot. A delete that meets a slot without a block subtracts
  whatever size stands at address 0, where the BIOS is mapped.
* **SectorStore** - what a disciplined program may rely on: sequences of sectors
  that grow at the end, runs that are deleted or moved, a claim of the open
  get-then-delete that leaves as a whole or stays as a whole. Cs2Buffer implements
  it with `stored` the first `numblocks` entries of the partitions (`StoredSectors`)
  and `claim` the sectors of the open transfer (`Claimed`); `Capacity` is MaxBlocks.
* **Cs2Drive** - the other half of cs2.c. Cs2Exec counts three clocks down, that
  of a command, of the tray and of the period, and each is an action, as is every
  access of the program: CMOK cleared, CR1 written, CR4 written, CMOK seen, CR4
  read. `cr1` and `cr4` say what the registers carry, a command, its answer or a
  report. `Cs2Execute` has one operator per command, with the status it leaves,
  and `Drive` is the play: a sector is read, stored, passed over or dropped,
  then the play goes on, repeats, pauses or seeks for want of room. Blocks are a number here,
  given back by `TakeSector`. The command 0x31, Get CD Device Connection, is
  carried out as 0x30 as the code does it (cs2.c:1241). FADs count from 1, and
  NoFAD is the 0xFFFFFFFF of the stop, behind which the count wraps.

* **Sound** - the interrupts and timers of the SCSP. The main program writes
  between the calls of ScspExec, the sound program inside a piece of ScspDoExec:
  `Cut` fixes the piece's length and samples, the sound program may write, `Update`
  counts what was fixed. Timers are in cycles and scaled as in the code;
  `Sample` and `TopSteps` are 256 and 0xFF there, and `Scales` are the prescalers
  2^TACTL, divisors of the sample. `came` and `piece.exact`
  are history: which pending bits an event set, and which timers a piece was cut
  for and nobody has written since.

* **M68kAlu** - values of a width and the flags of an operation on them, with
  bytes of `ByteBits` bits.
* **M68kCpu** - m68ki_cpu, the exceptions (m68ki_exception_*, jump to a vector,
  the frame of three words), the interrupt check, set SR, push and pull, and the
  twelve addressing modes.
* **M68kForms** - what the handlers have in common. The sources write every
  instruction out for each size and mode, 1,900 functions in three files; a form
  takes the size, the mode and the operation as parameters.
* **M68kOpAc, M68kOpDm, M68kOpNz** - the handlers of m68kopac.c, m68kopdm.c and
  m68kopnz.c, each with the name of its family: `add_16_er(s, m, x, y)` is
  m68k_op_add_16_er_d, _a, _ai, ... with the mode m.
* **M68k** - the calls the SCSP makes: m68k_execute with a slice of instructions
  (fetch, any handler, check of the interrupts; a stopped processor lets the slice
  pass), m68k_set_irq, where level 7 interrupts by its edge and the others by the
  mask, and m68k_pulse_reset. `left` is what remains of the slice, in instructions;
  `calls` bounds the calls of each kind.
* **M68kArithmetic** - the operations of M68kAlu against each other and against
  the numbers they stand for.

Left out of the state: time (a slice ends when it ends), memory but for the
sound processor's, what is drawn, played or copied, and the stack frame of an
interrupt of the SH-2.

## 3. Runs

Each .cfg gives the constants; the sets named there come from the MC modules. A
run opens the part of the program's freedom its question needs and closes the
rest, which keeps every run exhaustive.

| run | shows | opened |
|---|---|---|
| Interrupts | TypeOk, QueuesOk, PendingTimersCurrent, VBlankInOnlyInVBlank, StoppedSlaveIsClean, OnlyUnmaskedPresented, HighestGoesFirst, AcceptsHighest, DmaEndReported, HeldUntilPresented | eight games: RegisterWrites (IMS, IST, SR.I), SlaveControl (SSHON, SSHOFF, CKCHG, host resets), ThreeDevices (A-bus, sound, drawing, TVMD), DevicesAndNmi, Clocks (T0C, T1S, T1MD), MovingLine (T0C and IMS, the blankings and timer 0), TwoChannels and TwoTables (DMA by writes and by HBlank-IN, direct and by tables) |
| Progress | QueuesFit, TransfersSettle, VBlankInTaken, DmaEnds | two games under fairness: Masked (SR.I, IMS, an on-chip request, the slave), OneChannel (all kinds of transfer) |
| Buffer | TypeOk, FreeCount, BlocksOwned, FullMeansNoRoom, SectorsStay | every command at any time, read failures |
| Transfers | TransferWithin, AllocatedIsStored, StoreSpec | every command of a disciplined program, no read failure |
| Drive | TypeOk, CommandsIntact, SectorsStored, PlayEnds | eighteen commands one after the other, sectors taken at any time, the disc taken out and put in |
| Sound | TypeOk, UpperSourcesReported, CutAtTimers, SliceEnds | three writes of either program, status, start and stop of the 68000, reset |
| M68k | TypeOk, NoTakeableWaiting, ExceptionReturns, SavedRegistersComeBack, CallsReturn, PrivilegeKept | every handler in every mode from six states, with a request before or behind it; a reset and a request |
| Arithmetic | CompareAgrees, ChainingAgrees, ShiftsCompose, BcdDecimal | all pairs of a set of operands with every carry |
| LateVBlank | refutes VBlankInClearedOnCpu | RegisterWrites |
| ClearIst | refutes ClearedLeavesQueue | RegisterWrites |
| StaleSelector | refutes ResetsOnlyThatPartition | as Transfers |
| EnabledPending | refutes PendingHappened | as Sound |

**Bounds.** A line has two decilines (`DecilineNum`), the least with an HBlank-IN
before the end of the line and a slice on either side of it; a frame has two or
three lines, the least with a line in the blank and one or two outside, and for
TVMD a blanking line past the last. A burst is two words;
the counts of a transfer go up to five or six half words: more than one burst, not a
multiple of a word, and the range that a count of 0 stands for. The tables have an entry
of 0 in the middle, one passed within a burst and one where a burst ends, which stops
the channel. T0C and T1S take the values at, before and after the
lines of such a frame. Nothing in the code depends on more: lines are compared
with each other only, a transfer with zero only, and both SH-2 queues hold every
source the run opens. The proofs do not depend on any of these bounds.

The buffer has three blocks and two partitions: a gap in the middle, sectors
before and after a transfer, a partition to move to, and a full buffer. The code
treats all blocks and all partitions alike, which also makes them symmetric.
`MaxSize` bounds the bytes a partition counts on both sides of 0: the count
drifts when transfers are abandoned, and the code only asks for its sign. Buffer
has one word per sector and a bound of two sectors (a put, which starts the
count again, fills a partition all the same); Transfers has two words per sector
and a bound no disciplined program reaches.

The drive's disc has three sectors, one of audio, one the filters refuse and one
they store, and there is a single block, so that every second stored sector
finds no room. The plays have every kind of start, end and repeat, one ends in
the middle of the disc and one at its lead-out, and one is cut off by a seek.

Sound has samples of four cycles, timers that fire at two samples, two
prescalers, slices of seven cycles (the largest the code's comment admits:
no timer passes its top twice) and three writes, enough to write a timer, enable
it and write it again inside a piece. The sources are the DMA's, the manual one, one
timer in the lower byte and one in the upper.

The 68000 has bytes of six bits, so that a long still has four of them, and 128 bytes
of memory. M68k executes one slice of one instruction, with a request of level 3 or 7
before it or behind it, or a reset in its place (`MCBudgets`): the properties relate
the state after a step to the state before it, undoing it where that is the question,
so that a sequence of instructions adds nothing; the samples have both modes, masks and
requests of several levels, registers of both signs, addresses that wrap. MOVEM stores
lists with no register, one, and up to eight of both kinds (`Lists`).
Arithmetic takes the operands at and next to the ends of each width, and the
decimal digits.

**Fairness.** MCFairSpec asks that the phase goes on changing (`WF_phase(Advance)`).
sh2_Exec returns when its cycles are used up and every other call of the loop
returns, so no program can hold the loop; nothing is assumed of the program or
of the devices. Progress leaves NMIREQ closed: a slice accepts one request, and a
program that asks for an NMI at every turn keeps VBlank-IN waiting for ever. In
Sound, Cut and Update are fair, being the body of a loop that nothing leaves.
In Drive, Period is fair, because Cs2Exec counts whatever the program does (a
play command starts the period again, but PlayEnds excludes new plays), and so
is TakeSector, because a drive that waits for room can wait only for the
program; no command is fair.

**Deadlock** is checked except in Sound and EnabledPending, where the budget of
writes may be used up.

Each property is shown to say something about the code by a mutant
(PROJECT.json): a definition with one plausible mistake, under which the same
run finds the property violated.

## 4. What the runs refute

* `LateVBlank`: the comment in ScuSendVBlankOUT (scu.c:2190) asks that a pending
  VBlank-IN be cleared on the CPU; the code clears the SCU's queue only.
* `ClearIst`: ScuRemoveInterruptByCPU indexes the array with the number of the
  bit (scu.c:1885). The interrupt whose bit the program clears stays queued, or
  the entry in slot 0 goes instead. `HeldUntilPresented` holds in Interrupts because it
  lets a write to IST lose an entry.
* `StaleSelector`: Cs2GetThenDeleteSectorData does not set
  datatranspartitionnum, by which Cs2ResetSelector decides whether to stop the
  transfer: "Reset specified partition buffer only" (cs2.c:2217) stops the transfer
  of another partition. In SectorStore, Clear may therefore give up the claim.
* `EnabledPending`: ScspCheckInterrupts (scsp2.c:2943-2957) is there to raise what
  is both enabled and pending; it asks whether *anything* is pending, so enabling
  one source while another is pending raises an interrupt that never came.

Met while modelling and kept in the modules as the code has it: command 0x31 sets
the CD device connection it is asked for (cs2.c:1241); a seek to a FAD before the
first track reads TOC[-1] (cs2.c:1906), for which no command of the run asks; a stop
leaves the repeat count 0xFF; Cs2InitializeCDSystem clears isbufferfull with all
blocks in use, the one exception of SectorsStored; an interrupt handler that
reads CR4 between a command and its answer would let a report in, which
Cs2Drive's one program does not; rol.l by a count that is a multiple of 32 and not
0 clears C where the processor copies a bit, and shifts 32 bits by 32, which C
leaves undefined and the PowerPC makes 0 (m68kopnz.c:3072); divs of 0x80000000 by -1
leaves 0 with Z set.

Four more concern the properties, which name them as their exceptions:

* Cs2MoveSectorData within one partition (cs2.c:2766-2773) stores every sector in the
  slot behind the last: of several only the last stays, the blocks of the others
  are lost, and the partition counts slots that are empty. SectorsStay holds of every
  other step; TransferWithin, AllocatedIsStored and StoreSpec are about programs
  that make no such move.
* An entry of 0 in an indirect table (scu.c:847), loaded when the call has no time
  left, stops the channel with the rest of the table unread and no end reported.
  TransfersSettle says that nothing else does; DmaEndReported and DmaEnds speak
  of an end that is reached, and of channels that come to a stand.
* With bit 0 of T1MD clear ScuSendHBlankIN counts the line (scu.c:2229) and neither
  matches it nor withdraws a Timer0 that waits behind its mask: it is stale when the
  program unmasks it. PendingTimersCurrent is about the lines counted with the timers on.
* A write to IST can lose an interrupt that it does not name (`ClearIst`), the exception
  of HeldUntilPresented.

## 5. Proofs

The theorems hold for every value of the constants that satisfies the assumptions
named with them.

**Emulate_proofs**, under `MaxCountAssumption`, `TimerTickAssumption` and
`EmulateAssumption`:

| theorem | property |
|---|---|
| TypeCorrect | TypeOk |
| QueuesInOrder | QueuesOk |
| NoStaleVBlankIn | VBlankInOnlyInVBlank |
| NoStaleTimer | PendingTimersCurrent |
| CleanStart | StoppedSlaveIsClean |
| TransfersStop | TransfersSettle |
| QueuesNeverOverflow | QueuesFit |
| MaskHolds | OnlyUnmaskedPresented |
| EndsReported | DmaEndReported |
| NothingLost | HeldUntilPresented |
| HighestLetGo | HighestGoesFirst |
| HighestTaken | AcceptsHighest |

The inductive invariant `IInv` adds to these: the A-bus never sets a bit of IST
and is never queued (`IrqOk`); the loop is in the slave's slice only while the
slave runs; the blanking line is never the last line; the deciline count is at
its end only on the way to the end of the line (`LoopOk`). The first is what
ScuTestInterruptMask needs to skip its A-bus branch, the second keeps requests
from a stopped slave, the third and fourth keep the line within the frame: were
VBlankLineCount ever MaxLineCount, the `else if` of yabause.c would miss the end
of the frame. `EmulateAssumption` excludes it as the code does: VBlankLineCount is
224, 240, 256 or 272, MaxLineCount 263 or 313.

NoStaleTimer is an action property: what it says of timer 0 is not an invariant,
because a program that clears bit 0 of T1MD leaves the interrupt to go stale. What is
invariant, and part of `IInv`, is `TimersOk`, of timer 1. TransfersStop and EndsReported
hold of every table, entries of 0 included; the loop over a table
(`MoveTable`) ends between two entries because the words up to each of them only grow
(`WordsUpTo`).

The argument goes up the layers. Scu_proofs, first of ScuIrq: an insertion keeps a request
queue of an SH-2 sorted and free of repeated vectors; `Keeps(c, d, S)` - a
call that starts in an orderly controller c ends in an orderly d, does not touch
the queue of a stopped slave, and queues at most the sources of S - holds of
every function, with S the source it sends, or nothing. The room in
interrupts[30] is part of it: a queue without repetitions has at most as many
entries as there are sources. That ScuQueueInterrupt's two loops of exchanges sort is
ExchangeSortSorts: each loop is a recursive function over a range of slots, which
exists (`Recursion`) and of which each turn follows from the last (`Upwards`, by
well-founded induction over a set of numbers). The inner loop brings the least of what
it has passed to its slot (`Swept`), the outer leaves the slots behind it settled
(`SettledBelow`), and neither gains, loses or doubles an entry (`Rearranged`); two
entries of one level, the ends of DMA 1 and DMA 2, may change places, and nothing
rests on their order. The proof then lifts that to the whole SCU (`Acts`),
with the transfers settled, timer 1's promise kept, and timer 0's step by step
(`Follows`). Emulate_proofs then has
one lemma per action; only the raster step can bring VBlank-IN into the queue, and
it sets the flag in the same step.

QueuesFit is a pigeonhole: the vectors in a request queue are distinct and all
from `AllVectors`, those of the SCU, the NMI's and those the program gives the
on-chip modules. That the last are few enough is `EmulateAssumption`:
sh2_SetInterrupt does not look, and the code has no other bound.

The action properties go up the same layers by what a call may do to the
interrupts rather than to the types. Of the controller, `Serves(c, d, W)` - from c to d
only unmasked sources reach the master, only sources of W leave the queue and IMS
is kept - holds of every function but the reset; of ScuTestInterruptMask there are
`Given`, what leaves the queue reaches the master, and `HighestGone`. The SCU adds
the transfers: a channel that comes to its end has it `Reported`, in the same call,
through a flush as well. Emulate_proofs has one `...Passes` lemma per action
(`Passes(s, t, W)`), and one for the turn of the loop. HighestTaken rests on the order
of the request queue alone.

Two properties were restated because their proofs failed for a reason. A
first HighestGoesFirst spoke of every step: ScuSendVBlankOUT withdraws a timer 0
that waits behind its mask and raises it anew, and if the program has unmasked it
with a higher VBlank-OUT of the frame before still queued (one write to IMS
presents one interrupt only), timer 0 goes first. MovingLine is the game that
shows it; the property speaks of the writes of the program now, which is what
ScuTestInterruptMask is for. OnlyUnmaskedPresented did not say that the
program may give an on-chip module the vector of an SCU interrupt, which then is
pending whatever IMS says.

**Cs2Buffer_proofs**, under `BlockAssumption`, `SelectorAssumption`,
`SizeAssumption` and `ModeAssumption`, so for any number of blocks, partitions
and sectors, disciplined guest or not, reads failing or not:

| theorem | property |
|---|---|
| BufferTyped | TypeOk |
| FreeCountHolds | FreeCount |
| BlocksOwnedHolds | BlocksOwned |
| SectorsStayHolds | SectorsStay |
| DisciplinedSectorsPresent | `[]SectorsPresent`, of a disciplined guest |
| FullMeansNoRoomHolds | FullMeansNoRoom |
| TransferWithinHolds | TransferWithin, of a disciplined guest |
| AllocatedIsStoredHolds | AllocatedIsStored, of a disciplined guest and a disc that reads |
| StoreImplemented | StoreSpec, of a disciplined guest, reads failing or not |

A disciplined guest moves sectors only from one partition to another.

`IInv` is `Keeps(Disciplined)`, where `Keeps(whole)` is
`Counted /\ Holds(whole, used, partition) /\ Room(used, partition) /\ Moving`: the free count is
the number of blocks not in use, and isbufferfull is set only at none; a partition's
entries are blocks in use, no two entries of any partitions the same block, and, if
`whole`, the first numblocks entries are there; the slots that are counted or filled are
no more than the blocks in use; the transfer's variables have their types. None of
the four can be shown alone: that an allocation finds a block needs the count, the count is right
after a free only if the freed block was in use and is freed once, and that numblocks
never runs past the partition's slots, where a put would write, needs the room. The
room is what is left when a move within one partition has made counted sectors vanish:
such a move frees no block and takes no slot more (`MoveWithin`), the other commands
take and give back as many slots as blocks or leave some blocks over (`RoomKept`), and what comes to a partition
finds its slots (`RoomForFree`, `RoomForMoved`). With `whole`,
`Intact` is `Keeps(TRUE)`; it is kept by every step but the moves that lose sectors, which is
SectorsStay, and the theorems about a disciplined guest start from it
(`IntactHolds`). Cs2SortBlocks moves the entries together; that it drops
none is `RanksComplete`, the pigeonhole of its ranks. The model gives it in closed
form, by ranks; that the code's loop, with its two indices and the clearing of what is
left, comes to the same whatever gaps there are is SortBlocksCompacts: `PassedTo`
says where the loop stands before each slot, and a walk over the slots of which each
turn follows from the last (`Upwards`) ends there. TransferWithin holds
of a guest that leaves a partition alone while it is being transferred; the
inductive form `Within` adds that datatranspartitionnum still names the open
transfer's partition. On top of it `Tidy` - nothing lies behind the sectors a
partition counts, and every block in use is in some partition - gives
AllocatedIsStored: a get-then-delete takes as many sectors as it subtracts only
because its range is still within its partition, and a read that fails is what
breaks it, by the block it leaves behind the counted ones.

StoreImplemented is the refinement step by step, from `Intact` and `Within` alone:
each action is one step of SectorStore or none. Two facts about Cs2SortBlocks
carry it: slots in front of the cleared ones keep their entries (`FirstStay`), and
those behind a cleared run come forward by its length (`RestComes`), each by
counting the entries before a slot; so a run cleared from the slots is a run cut from
the sequence (`SectorsCut`), and what lies behind numblocks, a block of a failed read
for one, never shows (`BehindSectors`). That what comes is nobody's (`HeldInUse`)
and what a command takes is not claimed (`NotClaimed`) is the ownership of
blocks again. The claim's positions stay right without being moved because the
protocol leaves the transfer's partition alone, but for what comes to its end
(`GrowthKeepsClaim`). numblocks never falls short of a claim (`Within`), so the guard
against underflow (cs2.c, "FIX underflow u8") is not needed by a disciplined guest.

**Cs2Drive_proofs**, under `DiscAssumption` and `CommandAssumption`:

| theorem | property |
|---|---|
| CommandsIntactHolds | CommandsIntact |
| SectorsStoredHolds | SectorsStored |
| DriveTyped | TypeOk |

CommandsIntact is a matter of the hand-over (`Interface`): from the host's write
of CR1 until its read of CR4, `_command` is set and the PERI flag clear, so that no
report touches the registers; the command's clock runs only while a command is
given; CMOK stays clear until it is carried out. SectorsStored needs only that
the blocks in use are within the buffer. The types of the drive are proved in
four parts (`StatusTyped`, `PlayTyped`, `BlocksTyped`, `RegistersTyped`), of which
PlayTyped is the one with content: the position is the stop's value or between
the disc's start and its lead-out, whatever play and seek ranges are given.

**Sound_proofs**, under `SoundAssumption`, so for any set of sources, length of a
sample, prescalers that divide it, and slices within the code's comment:

| theorem | property |
|---|---|
| SoundTyped | TypeOk |
| UpperSourcesHeard | UpperSourcesReported |
| PiecesEndAtTimers | CutAtTimers |

CutAtTimers is not inductive: it needs that a piece's samples are at most those its
cycles make together with what the last piece left of a sample (`PieceOk`), and
that every timer counts in whole steps of its prescaler, also behind its wrap
(`WholeSteps`) - a timer between two steps would be carried past its top by the
last sample of a piece that was cut for it. That no timer passes its top twice,
which TypeOk needs of the wrap, is the bound on the slices. UpperSourcesReported
is a matter of the registers: `RegsOk` is kept by every raise, every clear and
every look at the pending bits, in whatever order sources are looked at (`AllChecked`).
The least of the cycles left exists by the order of the natural numbers
(`LeastOf`), an induction over sets that the prover's library does provide.

**M68kArithmetic_proofs**, under `WidthAssumption` and `OperandAssumption`, so for
bytes of any width, the code's eight bits among them, and for all pairs of words:

| theorem | property |
|---|---|
| Comparing | CompareAgrees |
| Chaining | ChainingAgrees |
| Shifting | ShiftsCompose |
| Decimals | BcdDecimal |

What a sum, a difference or a negation leaves is `Exact`: the result is the exact
one cut to the width, the carry says whether it was cut, the overflow whether the
exact result with signs is out of range - one statement for the next bit of a byte
or a word and for the three sign bits of a long (`SumMeans`, `DifferenceMeans`,
`NegationMeans`). An exact outcome is the only one (`Determined`), so that NEGX, with
formulas of its own, is SUBX from zero. Two exact halves make the exact whole
(`Chains`): only the upper half has a sign, and what the lower one leaves over is what
X carries. The decimal operations are taken digit by digit at bytes of eight bits.

The shifts need the laws of 2^n, which mean nothing to the provers and would take an
induction; but the library says that a set of n things has 2^n subsets, and a subset
of a + b things is one of the first a and one of the others (`PowerOfSum`). A number
moved by k places is then made of what went out and what stayed (`Shifted`, `Parts`),
and of the bit that one more place takes (`BitBelow`, `Moved`). ASL's V, the upper k + 1
bits neither all clear nor all set, is that of one place less or that of the last place
(`MixedAgain`; `MixedAtLast` where nothing is left). ASR is the division of the signed
number (`SignedMoved`). Rotations add up modulo the bits they go round (`RotateAgain`),
of which ROXL and ROXR have one more (`XKept`); what ROL and ROR leave in C is the bit
of the result that arrived last (`LastToLeft`, `LastToRight`).

**M68k_proofs**, under `WidthAssumption`, `MemoryAssumption` and `ProgramAssumption`, so
for every program, every start and any number of instructions, slices, requests and
resets one after another, where TLC executes one instruction and one request from each
of six states:

| theorem | property |
|---|---|
| M68kTyped | TypeOk |
| RequestsTaken | NoTakeableWaiting |
| PrivilegeHolds | PrivilegeKept |
| CallsComeBack | CallsReturn |
| ExceptionsComeBack | ExceptionReturns |
| SavedRegistersReturn | SavedRegistersComeBack |

`MemoryAssumption` says that the memory holds a word and fifteen longs, the list of a
MOVEM and what it stores, without overlapping itself, and that it repeats evenly through the address space, as
the sound RAM does, both being powers of two: a stack pointer that wraps at the end of
the address space then still finds what was pushed.

The inductive invariant is `Good`: the processor is well-formed, its request is not
above its mask, and it is not halted (a double fault would do that, which the
switched-off address errors exclude). What carries it is a classification of steps
(`Legal`): an instruction is *steady*, and leaves mode, mask, trace bit, the other
stack pointer and the request alone; or it ends in the entry to an *exception* behind a
steady part, and the frame it leaves is told exactly (`Entered`: status register and
program counter on the supervisor's stack, that one lowered by six); or it is the
supervisor's own, and leaves no request above the mask. `StepLegal` shows it of
every handler in every mode, from the operands upwards: effective addresses
(`EaYields`) and spots (`SpotUsed`) are found steadily whatever registers they step;
each calculation leaves a number and four flags (`...Left`), for which alone it may be
written back; forms and then groups of handlers follow. MOVEM, MOVEP and the
bitwise operations are recursive functions over registers, bytes and bits: that
they exist and stay within a set is shown once (`Recursion`, `Upwards`), by
well-founded induction over a set of numbers. Division works on the magnitudes and
keeps within the register because a quotient that does not fit is not stored.

PrivilegeKept is read off the classification: the third kind of step needs the
supervisor, the second says what lies on its stack, the first touches nothing.
That RTE undoes an exception is a fact about the stack and one about the status
register: what is written at an address is read there again, and a second push
leaves it alone, wherever the addresses wrap (`Written16`, `Written32`, `Pushing`);
and the status register is the sum of its fields in separate places, from which each
field is found again (`SrParts`, `Restored`). Good is needed once more, for RTE
itself looks for requests: none takes it away on its way back because the mask it
restores let none through before. CallsReturn uses the same facts of the stack;
LINK's displacement does not matter to UNLK, which takes the stack pointer from the
frame register. A7 as frame register has handlers of its own and is left out, as in
the property.

A request is no instruction: m68k_set_irq puts a level in and takes it at once or leaves
it below the mask (`RequestedIs`, `RequestGood`), and what it does to a user's program is
an entry like any other (`RequestKeeps`). A reset leaves nothing to take (`ResetGood`).
Only the calls still to be made must be counted besides (`CallsOk`).

That MOVEM gives back what it stored is about two walks over the sixteen registers, of
opposite direction and with lists counted from opposite ends. The stack pointer falls by
the width for each register in the list (`Depths`), so that every store lies below the
end of the memory and above the word of the list, and lower than those before it, which
it therefore leaves alone (`Stacked`); the second walk rises through the same addresses
(`Unstacked`). The property excludes A7 from the list, since the load overwrites it with
the end of its walk.

Only model-checked are the liveness properties, VBlankInTaken, DmaEnds, PlayEnds and
SliceEnds, and with them the refutations of section 4: fairness is out of the prover's
reach.

## 6. Plan

Done, with proofs: Sh2Irq, ScuIrq, ScuDma, Scu, Emulate; Cs2Buffer and its refinement
of SectorStore; Cs2Drive; Sound; the 68000's arithmetic and its instructions.

Next, in this order:

1. **Smpc**: COMREG, SF, the time of a command, INTBACK with its continuation and
   its end at VBlank-IN, in place of Emulate's free choice.
2. **BackupRam**: the save file with failures and a power-off between the calls.
3. **Cd**: Cs2Drive over Cs2Buffer (a full buffer pauses the drive), then with
   ScuIrq through HIRQ.
4. **DrcPages**: the block cache with writes of both SH-2s and of the DMA.
5. **Sh2OnChip**: FRT and WDT; then QueuesFit with their real vectors.
6. **Vdp1Draw**: the end of drawing and the change of frame buffer.

Theorem to add: that Sound and M68k fit together, the requests of the one being the
calls of the other.

## 7. Not modelled

* The SCU's DSP: an interpreter with no protocol of its own.
* C68k, the other 68000 core, which the build does not select; scsp.c, which is
  compiled in but never selected (main.c:189, 523 and 596 set the new SCSP); the
  old SH-2 interpreter, compiled with USE_SH2_OLD only.
* The translation of SH-2 code, drawing, sound synthesis, the host's services
  and menus: data without a protocol, or the host's.
* Of the drive: ScanDisc (it answers nothing), MPEG, the file system, the
  commands that only report, sectors the disc fails to read, filters connected in a
  ring, speeds and cycles.
* Of the 68000: cycle counts, prefetch, address errors and tracing, all switched
  off in m68kconf.h, and the handlers of later processors, which this build
  refuses as illegal; a request that the sound program's own write to SCIEB raises in
  the middle of an instruction (M68k makes requests between the slices);
  m68k_pulse_halt, which has no caller.
