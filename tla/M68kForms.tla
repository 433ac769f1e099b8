------------------------------ MODULE M68kForms ------------------------------
(***************************************************************************)
(* What the handlers of the sound processor have in common.  They write    *)
(* each of these out for every operand size and addressing mode; here a    *)
(* form takes the size w, the mode m and the operation as parameters.      *)
(***************************************************************************)
EXTENDS M68kCpu

-----------------------------------------------------------------------------
(* The forms handlers have in common.  Op(w, src, dst, x) gives the        *)
(* outcome of an operation, Mark(s, o) sets the flags from it.             *)

MarkNZVC(s, o) == [s EXCEPT !.n = o.n, !.z = o.z, !.v = o.v, !.c = o.c]
MarkXNZVC(s, o) == [MarkNZVC(s, o) EXCEPT !.x = o.c]
\* FLAG_Z |= res: the extended operations only ever clear Z
MarkChain(s, o) == [MarkXNZVC(s, o) EXCEPT !.z = s.z /\ o.z]

\* combine src with the operand of mode m, in place
Settle(s, w, p, o, Mark(_, _)) == Mark(Store(s, w, p, o.r), o)
Alter(s, w, m, y, src, Op(_, _, _, _), Mark(_, _)) ==
    Then(Place(s, w, m, y), LAMBDA p, t :
         Settle(t, w, p, Op(w, src, Contents(t, w, p), Flag(s.x)), Mark))

\* <ea> op Dx -> Dx, Dx op <ea> -> <ea>, #imm op <ea> -> <ea>
Er(s, w, m, x, y, Op(_, _, _, _), Mark(_, _)) ==
    Then(Operand(s, w, m, y), LAMBDA v, t : Alter(t, w, "d", x, v, Op, Mark))
Re(s, w, m, x, y, Op(_, _, _, _), Mark(_, _)) ==
    Alter(s, w, m, y, Low(w, s.dar[x]), Op, Mark)
Im(s, w, m, y, Op(_, _, _, _), Mark(_, _)) ==
    Then(Immediate(s, w), LAMBDA v, t : Alter(t, w, m, y, v, Op, Mark))

\* -(Ay) op -(Ax) -> (Ax), the source address first
Mm(s, w, x, y, Op(_, _, _, _), Mark(_, _)) ==
    Then(Operand(s, w, "pd", y), LAMBDA v, t : Alter(t, w, "pd", x, v, Op, Mark))

\* set the flags from src and the operand at m and keep neither
Look(s, w, m, y, src, Op(_, _, _, _), Mark(_, _)) ==
    Then(Operand(s, w, m, y), LAMBDA v, t : Mark(t, Op(w, src, v, Flag(s.x))))

\* the three bits of an opcode that hold an operand from 1 to 8
Quick(x) == IF x = 0 THEN 8 ELSE x

-----------------------------------------------------------------------------
(* Operations: size, source, destination, X.                               *)

Added(w, src, dst, x) == Sum(w, src, dst, 0)
Addx(w, src, dst, x) == Sum(w, src, dst, x)
Subtracted(w, src, dst, x) == Difference(w, src, dst, 0)
Subx(w, src, dst, x) == Difference(w, src, dst, x)
Negated(w, src, dst, x) == Negation(w, dst, 0)
Negx(w, src, dst, x) == Negation(w, dst, x)
Anded(w, src, dst, x) == Plain(w, And(w, src, dst))
Ored(w, src, dst, x) == Plain(w, Or(w, src, dst))
Eored(w, src, dst, x) == Plain(w, Xor(w, src, dst))
Inverted(w, src, dst, x) == Plain(w, Span(w) - 1 - dst)
Zeroed(w, src, dst, x) == Plain(w, 0)
Source(w, src, dst, x) == Plain(w, Low(w, src))
Kept(w, src, dst, x) == Plain(w, dst)
Extended(w, src, dst, x) == Plain(w, Low(w, Signed(src, dst)))   \* src is a size
Swapped(w, src, dst, x) ==
    Plain(w, (dst % Span(Word)) * Span(Word) + dst \div Span(Word))
\* TAS takes the flags before it sets the sign bit
TestAndSet(w, src, dst, x) ==
    [Plain(w, dst) EXCEPT !.r = Or(w, dst, Span(w) \div 2)]
Abcd(w, src, dst, x) == BcdSum(src, dst, x)
Sbcd(w, src, dst, x) == BcdDifference(src, dst, x)

Unmarked(s, o) == s

\* A static count of 8 is the width of a byte.
Count(x) == IF x = 0 THEN ByteBits ELSE x

\* By a register the count is taken modulo 64; nothing moves if it is zero.
ByCount(s, w, k, y, c, Op(_, _, _, _), Mark(_, _)) ==
    IF k = 0 THEN MarkNZVC(s, [Plain(w, Low(w, s.dar[y])) EXCEPT !.c = c])
             ELSE Alter(s, w, "d", y, k, Op, Mark)
ByRegister(s, w, x, y, Op(_, _, _, _), Mark(_, _)) ==
    ByCount(s, w, s.dar[x] % (8 * ByteBits), y, FALSE, Op, Mark)
\* and then C becomes X if X takes part
ExtendedByRegister(s, w, x, y, Op(_, _, _, _), Mark(_, _)) ==
    ByCount(s, w, s.dar[x] % (8 * ByteBits), y, s.x, Op, Mark)

\* Bit k of a long register or of a byte in memory; only Z is set.
Flip(w, k, dst, x) == dst + (1 - 2 * BitOf(dst, k)) * 2 ^ k
ClearBit(w, k, dst, x) == dst - BitOf(dst, k) * 2 ^ k
SetBit(w, k, dst, x) == dst + (1 - BitOf(dst, k)) * 2 ^ k
MarkZ(s, o) == [s EXCEPT !.z = o.z]
Bit(o, was) == [o EXCEPT !.z = was = 0]
AlterBit(s, w, m, y, n, New(_, _, _, _)) ==
    Alter(s, w, m, y, n % Bits(w),
          LAMBDA l, k, dst, x : Bit(Plain(l, New(l, k, dst, x)), BitOf(dst, k)), MarkZ)
TestBit(s, w, m, y, n) ==
    Then(Operand(s, w, m, y), LAMBDA v, t : [t EXCEPT !.z = BitOf(v, n % Bits(w)) = 0])

-----------------------------------------------------------------------------
(* Control transfer.                                                       *)

Branch8(s, d) == SetPc(s, s.pc + Signed(Byte, d))
\* relative to the address of the displacement itself
Branch16(s) == SetPc(s, s.pc + Signed(Word, Read16(s, s.pc)))
SkipWord(s) == SetPc(s, s.pc + 2)

Counted(s, y) ==
    IF Low(Word, s.dar[y]) = Span(Word) - 1 THEN SkipWord(s) ELSE Branch16(s)
CountDown(s, cond, y) ==
    IF Holds(cond, s) THEN SkipWord(s) ELSE Counted(SetLow(s, Word, y, s.dar[y] - 1), y)

Return(s) == Then(Pull32(s), LAMBDA pc, t : Jump(t, pc))

\* the displacement of LINK, added to the stack pointer
Frame(s) ==
    Then(Imm16(s), LAMBDA d, t : Set(t, SP, t.dar[SP] + Signed(Word, d)))

ToCcr(s, Op(_, _, _)) ==
    Then(Imm16(s), LAMBDA v, t : SetCcr(t, Op(Word, Ccr(s), v)))
ToSr(s, Op(_, _, _)) ==
    IF s.s THEN Then(Imm16(s), LAMBDA v, t : SetSr(t, Op(Word, Sr(s), v)))
           ELSE PrivilegeViolation(s)

\* The RESET instruction's callback is m68k_pulse_reset: the processor resets
\* itself.  A pending request stays.
PulseReset(s) ==
    SetPc(Set(SetS([s EXCEPT !.stopped = {}, !.left = 0, !.t = FALSE, !.mask = 7], TRUE),
              SP, Read32(s, 0)),
          Read32(s, 4))

-----------------------------------------------------------------------------
(* Registers.                                                              *)

Move(s, w, to, m, x, y) ==
    Then(Operand(s, w, m, y), LAMBDA v, t : Alter(t, w, to, x, v, Source, MarkNZVC))

AddTo(s, w, m, x, y, sign) ==                            \* ADDA, SUBA
    Then(Operand(s, w, m, y), LAMBDA v, t :
         Set(t, A(x), t.dar[A(x)] + sign * Signed(w, v)))

Compare(s, w, m, y, r) ==
    Then(Operand(s, w, m, y), LAMBDA v, t :
         MarkNZVC(t, Difference(w, v, Low(w, t.dar[r]), 0)))
\* with an address register the source is extended and longs are compared
CompareAddress(s, w, m, y, r) ==
    Then(Operand(s, w, m, y), LAMBDA v, t :
         MarkNZVC(t, Difference(Long, Extend(w, v), t.dar[r], 0)))
CompareMemory(s, w, x, y) ==
    Then(Operand(s, w, "pi", y), LAMBDA v, t :
         Look(t, w, "pi", x, v, Subtracted, MarkNZVC))

Exchange(s, i, j) == [s EXCEPT !.dar[i] = s.dar[j], !.dar[j] = s.dar[i]]

Product(s, x, p) == MarkNZVC(Set(s, x, p), Plain(Long, p))
Multiply(s, m, x, y, As(_, _)) ==
    Then(Operand(s, Word, m, y), LAMBDA v, t :
         Product(t, x, Low(Long, As(Word, v) * As(Word, s.dar[x]))))

\* the quotient below the remainder, or only V if it does not fit
Divided(s, x, d, fits) ==
    IF fits THEN MarkNZVC(Set(s, x, Low(Word, d.r) * Span(Word) + Low(Word, d.q)),
                          Plain(Word, Low(Word, d.q)))
            ELSE [s EXCEPT !.v = TRUE]

DividedSigned(s, x, d) == Divided(s, x, d, d.q = Signed(Word, d.q))
DividedUnsigned(s, x, d) == Divided(s, x, d, d.q < Span(Word))

\* CHK: in bounds the flags of the test stay, out of bounds N tells which
Checked(s, v) == [s EXCEPT !.z = v = 0, !.v = FALSE, !.c = FALSE]
CheckBound(s, v, bound) ==
    IF v >= 0 /\ v <= bound THEN Checked(s, v)
    ELSE Trap([Checked(s, v) EXCEPT !.n = v < 0], Chk)

\* NBCD: nothing is written, and Z stays, if the result is the operand's own
Undone(s, p, o) ==
    IF o.r = Low(Byte, NoBorrow) THEN [MarkXNZVC(s, o) EXCEPT !.z = s.z]
    ELSE MarkChain(Store(s, Byte, p, o.r), o)

SetIf(s, cond, m, y) ==
    Alter(s, Byte, m, y, IF Holds(cond, s) THEN Radix - 1 ELSE 0, Source, Unmarked)

\* MOVEM: Visit(e, k) for every k in the register list, lowest first, e being
\* the address reached and the state
Visited(list, e, Visit(_, _)) ==
    LET walk[k \in 0 .. 16] ==
            IF k = 0 THEN e
            ELSE IF BitOf(list, k - 1) = 1 THEN Visit(walk[k - 1], k - 1)
                                           ELSE walk[k - 1]
    IN  walk[16]

PutUp(e, w, r) == With(Low(Long, e.v + w), Write(e.s, w, e.v, Low(w, e.s.dar[r])))
PutAt(s, w, a, r) == With(a, Write(s, w, a, Low(w, s.dar[r])))
PutDown(e, w, r) == PutAt(e.s, w, Low(Long, e.v - w), r)
GetUp(e, w, r) == With(Low(Long, e.v + w), Set(e.s, r, Signed(w, Read(e.s, w, e.v))))
Leave(y, e) == Set(e.s, A(y), e.v)

\* the list counts from the other end if the address decreases
StoreDownForwards(s, w, y) ==
    Then(Imm16(s), LAMBDA list, t :
         Leave(y, Visited(list, With(s.dar[A(y)], t), LAMBDA e, k : PutDown(e, w, k))))
StoreDown(s, w, y) ==
    Then(Imm16(s), LAMBDA list, t :
         Leave(y, Visited(list, With(s.dar[A(y)], t), LAMBDA e, k : PutDown(e, w, 15 - k))))
StoreUp(s, w, m, y) ==
    Then(Imm16(s), LAMBDA list, t :
         Visited(list, Ea(t, w, m, y), LAMBDA e, k : PutUp(e, w, k)).s)
LoadFrom(s, w, m, y) ==
    Then(Imm16(s), LAMBDA list, t :
         Visited(list, Ea(t, w, m, y), LAMBDA e, k : GetUp(e, w, k)).s)
LoadUp(s, w, y) ==
    Then(Imm16(s), LAMBDA list, t :
         Leave(y, Visited(list, With(s.dar[A(y)], t), LAMBDA e, k : GetUp(e, w, k))))

\* MOVEP: the bytes of Dx, highest first, at every second address
Spread(s, w, a, v) ==
    LET put[k \in 0 .. w] ==
            IF k = 0 THEN s
            ELSE Write8(put[k - 1], a + 2 * (k - 1), v \div 2 ^ Bits(w - k))
    IN  put[w]
SpreadOut(s, w, x, y) ==
    Then(Displaced(s, s.dar[A(y)]), LAMBDA a, t : Spread(t, w, a, s.dar[x]))
Gathered(s, w, a) ==
    LET sum[k \in 0 .. w] ==
            IF k = 0 THEN 0 ELSE sum[k - 1] * Radix + Read8(s, a + 2 * (k - 1))
    IN  sum[w]
GatherIn(s, w, x, y) ==
    Then(Displaced(s, s.dar[A(y)]), LAMBDA a, t : SetLow(t, w, x, Gathered(t, w, a)))
=============================================================================
