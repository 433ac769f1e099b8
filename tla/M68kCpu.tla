------------------------------- MODULE M68kCpu -------------------------------
(***************************************************************************)
(* The sound processor's registers, memory, operand fetching and exception *)
(* processing (musashi/m68kcpu.h), as functions from a state of the        *)
(* processor to the next: the handlers of M68kOpAc, M68kOpDm and M68kOpNz  *)
(* are built from these.                                                   *)
(*                                                                         *)
(* The build emulates a 68000 and switches off the prefetch, the function  *)
(* codes, address errors and tracing (m68kconf.h), so none of these is     *)
(* here; opcodes that only later processors have raise Illegal.  Memory is *)
(* the sound RAM behind mus_read8/16 and mus_write8/16: MemSize bytes that *)
(* repeat, a word being the bytes at its address and the next one.         *)
(***************************************************************************)
EXTENDS M68kAlu, FiniteSets

CONSTANT MemSize        \* bytes of sound RAM

\* it has room for a word and all registers but one, and repeats to the end of
\* the address space
ASSUME MemoryAssumption ==
    /\ MemSize \in Nat /\ MemSize >= 2 + 15 * 4
    /\ Span(Long) % MemSize = 0

Reg == 0 .. 7
A(y) == 8 + y                       \* REG_A, the upper half of REG_DA
SP == A(7)

\* The state of the processor.  sp holds the stack pointer that is not in
\* use, by mode; left counts the instructions of the slice yet to be executed.
States == [dar : [0 .. 15 -> Values(Long)], sp : [BOOLEAN -> Values(Long)],
           pc : Values(Long), ppc : Values(Long),
           x : BOOLEAN, n : BOOLEAN, z : BOOLEAN, v : BOOLEAN, c : BOOLEAN,
           s : BOOLEAN, t : BOOLEAN, mask : 0 .. 7, level : 0 .. 7,
           stopped : SUBSET {"STOP", "HALT"}, left : Nat,
           mem : [0 .. MemSize - 1 -> Values(Byte)]]

SetUncut(s, r, v) == [s EXCEPT !.dar[r] = v]
Set(s, r, v) == [s EXCEPT !.dar[r] = Low(Long, v)]
SetLow(s, w, r, v) == [s EXCEPT !.dar[r] = Merge(w, @, v)]

-----------------------------------------------------------------------------
(* Memory and immediate operands.                                          *)

At(a) == a % MemSize
Read8(s, a) == s.mem[At(a)]
Read16(s, a) == Read8(s, a) * Radix + Read8(s, a + 1)
Read32(s, a) == Read16(s, a) * Span(Word) + Read16(s, a + 2)
Read(s, w, a) == CASE w = Byte -> Read8(s, a)
                   [] w = Word -> Read16(s, a)
                   [] w = Long -> Read32(s, a)

Write8(s, a, v) == [s EXCEPT !.mem[At(a)] = v % Radix]
Write16(s, a, v) == [s EXCEPT !.mem[At(a)] = (v \div Radix) % Radix,
                              !.mem[At(a + 1)] = v % Radix]
Write32(s, a, v) == Write16(Write16(s, a, v \div Span(Word)), a + 2, v)
Write(s, w, a, v) == CASE w = Byte -> Write8(s, a, v)
                       [] w = Word -> Write16(s, a, v)
                       [] w = Long -> Write32(s, a, v)

\* A value together with the state its evaluation leaves, and what follows.
With(v, s) == [v |-> v, s |-> s]
Then(e, F(_, _)) == F(e.v, e.s)

SetPc(s, a) == [s EXCEPT !.pc = Low(Long, a)]
Imm16(s) == With(Read16(s, s.pc), SetPc(s, s.pc + 2))
Imm32(s) == With(Read32(s, s.pc), SetPc(s, s.pc + 4))
Immediate(s, w) ==                                       \* OPER_I_8, _16, _32
    IF w = Long THEN Imm32(s) ELSE [Imm16(s) EXCEPT !.v = Low(w, @)]

OnTop(s, w, v) == Write(s, w, s.dar[SP], v)
Push16(s, v) == OnTop(Set(s, SP, s.dar[SP] - 2), Word, v)
Push32(s, v) == OnTop(Set(s, SP, s.dar[SP] - 4), Long, v)
Pull16(s) == With(Read16(s, s.dar[SP]), Set(s, SP, s.dar[SP] + 2))
Pull32(s) == With(Read32(s, s.dar[SP]), Set(s, SP, s.dar[SP] + 4))

-----------------------------------------------------------------------------
(* Effective addresses.  The modes are named as the handlers name them: ai *)
(* (An), pi (An)+, pd -(An), di d16(An), ix d8(An,Xn), aw and al absolute, *)
(* pcdi and pcix relative to the PC, d and a registers, i immediate.       *)

\* the stack pointer moves by words even for a byte (the pi7 and pd7 handlers)
Stride(w, y) == IF w = Byte /\ y = 7 THEN 2 ELSE w

\* brief extension word: register in the top 4 bits, then W/L; the low byte
\* is the displacement
Index(e, xn) == IF BitOf(e, Bits(Word) - 5) = 1 THEN xn ELSE Signed(Word, xn)
Indexed(s, base) ==
    Then(Imm16(s), LAMBDA e, t :
         With(Low(Long, base + Index(e, s.dar[e \div 2 ^ (Bits(Word) - 4)])
                        + Signed(Byte, e)), t))

Displaced(s, base) ==
    Then(Imm16(s), LAMBDA e, t : With(Low(Long, base + Signed(Word, e)), t))

\* (An) with the register left at after
Stepped(s, y, after, address) == With(address, Set(s, A(y), after))

EaFrom(s, w, m, y, an) ==
    CASE m = "ai" -> With(an, s)
      [] m = "pi" -> Stepped(s, y, an + Stride(w, y), an)
      [] m = "pd" -> Stepped(s, y, an - Stride(w, y), Low(Long, an - Stride(w, y)))
      [] m \in {"di", "aw", "pcdi"} ->
             Displaced(s, IF m = "di" THEN an ELSE IF m = "aw" THEN 0 ELSE s.pc)
      [] m \in {"ix", "pcix"} -> Indexed(s, IF m = "ix" THEN an ELSE s.pc)
      [] m = "al" -> Imm32(s)
Ea(s, w, m, y) == EaFrom(s, w, m, y, s.dar[A(y)])

Alterable == {"ai", "pi", "pd", "di", "ix", "aw", "al"}  \* memory that can be written
Control == {"ai", "di", "ix", "aw", "al", "pcdi", "pcix"}
Memory == Alterable \cup {"pcdi", "pcix"}
DataModes == Memory \cup {"d", "i"}                      \* sources of a byte
AllModes == DataModes \cup {"a"}
DataAlterable == Alterable \cup {"d"}

\* Where an operand is: a register or an address.
Place(s, w, m, y) ==
    IF m \in {"d", "a"} THEN With(<<"register", IF m = "d" THEN y ELSE A(y)>>, s)
    ELSE Then(Ea(s, w, m, y), LAMBDA a, t : With(<<"memory", a>>, t))
Contents(s, w, p) ==
    IF p[1] = "register" THEN Low(w, s.dar[p[2]]) ELSE Read(s, w, p[2])
Store(s, w, p, v) ==
    IF p[1] = "register" THEN SetLow(s, w, p[2], v) ELSE Write(s, w, p[2], v)

Operand(s, w, m, y) ==
    IF m = "i" THEN Immediate(s, w)
    ELSE Then(Place(s, w, m, y), LAMBDA p, t : With(Contents(t, w, p), t))

-----------------------------------------------------------------------------
(* The status register and the two stacks.                                 *)

Ccr(s) == 16 * Flag(s.x) + 8 * Flag(s.n) + 4 * Flag(s.z) + 2 * Flag(s.v) + Flag(s.c)
\* the implemented bits: T1 at the top of the word, S two below it, and the
\* mask in the low bits of the upper byte
Top16 == 2 ^ (Bits(Word) - 1)
Sr(s) == Top16 * Flag(s.t) + (Top16 \div 4) * Flag(s.s) + Radix * s.mask + Ccr(s)

SetCcr(s, v) ==
    [s EXCEPT !.x = BitOf(v, 4) = 1, !.n = BitOf(v, 3) = 1, !.z = BitOf(v, 2) = 1,
              !.v = BitOf(v, 1) = 1, !.c = BitOf(v, 0) = 1]

\* the stack pointer in use is put away and that of the new mode fetched
Switch(s, new, put) == [s EXCEPT !.sp = put, !.s = new, !.dar[SP] = put[new]]
SetS(s, new) == Switch(s, new, [s.sp EXCEPT ![s.s] = s.dar[SP]])

SetSrNoInt(s, v) ==
    SetS([SetCcr(s, v) EXCEPT !.t = BitOf(v, Bits(Word) - 1) = 1,
                              !.mask = (v \div Radix) % 8],
         BitOf(v, Bits(Word) - 3) = 1)

-----------------------------------------------------------------------------
(* Exceptions.                                                             *)

IllegalVector == 4
ZeroDivide == 5
Chk == 6
Trapv == 7
Privilege == 8
LineA == 10
LineF == 11
Uninitialized == 15
Autovector == 24
TrapBase == 32

\* supervisor mode, trace off; the interrupted PC and SR go on its stack
Pushed(t, pc) == Push16(Push32(t, pc), Sr(t))
EnterThenSave(s, pc) == Pushed(SetS([s EXCEPT !.t = FALSE], TRUE), pc)
Enter(s, pc) ==
    Push16(Push32(SetS([s EXCEPT !.t = FALSE], TRUE), pc), Sr(s))

Vector(s, n) == Read32(s, 4 * n)
Jump(s, a) == SetPc(s, a)
JumpVector(s, n) == Jump(s, Vector(s, n))

\* after the instruction (trap, CHK, division), or in its place
Trap(s, n) == JumpVector(Enter(s, s.pc), n)
Instead(s, n) == JumpVector(Enter(s, s.ppc), n)
PrivilegeViolation(s) == Instead(s, Privilege)
Illegal(s) == Instead(s, IllegalVector)

\* The vector is read before the frame is written, and the request is
\* withdrawn here: there is no acknowledge cycle in this build.
Handler(s, first) == IF first = 0 THEN Vector(s, Uninitialized) ELSE first
Interrupted(s, l) ==
    IF s.stopped # {} THEN s
    ELSE [Jump(Enter(s, s.pc), Handler(s, Vector(s, Autovector + l)))
          EXCEPT !.mask = l, !.level = 0]
Interrupt(s, l) == Interrupted([s EXCEPT !.stopped = @ \ {"STOP"}], l)

CheckInterrupts(s) == IF s.level > s.mask THEN Interrupt(s, s.level) ELSE s

SetSrQuietly(s, v) == SetSrNoInt(s, v)
SetSr(s, v) == CheckInterrupts(SetSrNoInt(s, v))

\* a jump to the instruction itself gives the rest of the slice away
\* (USE_ALL_CYCLES)
Idle(s) == IF s.pc = s.ppc THEN [s EXCEPT !.left = 0] ELSE s
=============================================================================
