------------------------------- MODULE M68kAlu -------------------------------
(***************************************************************************)
(* Arithmetic of the sound processor's interpreter: the macros of          *)
(* musashi/m68kcpu.h (masks, sign extension, flag formulas, conditions)    *)
(* and the calculations that the handlers of m68kopac.c, m68kopdm.c and    *)
(* m68kopnz.c repeat.  Nothing here has state.                             *)
(*                                                                         *)
(* The width of a byte is a parameter, so that TLC can enumerate operands  *)
(* and a long still fits its 32-bit integers; at ByteBits = 8 the          *)
(* definitions are the code's.  Flags are BOOLEANs: of the several bits    *)
(* the code leaves in FLAG_N, FLAG_V, FLAG_C and FLAG_X only the one the   *)
(* COND macros test is kept.                                               *)
(***************************************************************************)
EXTENDS Integers

CONSTANTS ByteBits,     \* bits of a byte
          Radix         \* values of a byte

ASSUME WidthAssumption ==
    /\ ByteBits \in Nat /\ ByteBits >= 6
    /\ Radix \in Nat /\ Radix > 0 /\ Radix % 2 = 0
    /\ Radix = 2 ^ ByteBits

Byte == 1
Word == 2
Long == 4
Width == {Byte, Word, Long}
Bits(w) == w * ByteBits
Span(w) == IF w = 1 THEN Radix
           ELSE IF w = 2 THEN Radix * Radix
           ELSE Radix * Radix * Radix * Radix
Values(w) == 0 .. Span(w) - 1

Flag(b) == IF b THEN 1 ELSE 0                            \* XFLAG_AS_1
Low(w, v) == v % Span(w)                                 \* MASK_OUT_ABOVE
Msb(w, v) == 2 * Low(w, v) >= Span(w)                    \* GET_MSB
Signed(w, v) == Low(w, v) - (IF Msb(w, v) THEN Span(w) ELSE 0)  \* MAKE_INT
Extend(w, v) == Low(Long, Signed(w, v))
Merge(w, old, v) == old - Low(w, old) + Low(w, v)        \* MASK_OUT_BELOW | v

\* bit i of v, and the bitwise operations on the low n bits
BitOf(v, i) == (v \div 2 ^ i) % 2
Bitwise2(Op(_, _), n, a, b) ==
    LET sum[i \in 0 .. n] ==
            IF i = 0 THEN 0
            ELSE sum[i - 1] + 2 ^ (i - 1) * Op(BitOf(a, i - 1), BitOf(b, i - 1))
    IN  sum[n]
And(w, a, b) == Bitwise2(LAMBDA p, q : p * q, Bits(w), a, b)
Or(w, a, b)  == Bitwise2(LAMBDA p, q : p + q - p * q, Bits(w), a, b)
Xor(w, a, b) == Bitwise2(LAMBDA p, q : (p + q) % 2, Bits(w), a, b)

\* What an operation leaves: the result r and the flags N, Z, V and C.
Outcome(w, r, v, c) == [r |-> r, n |-> Msb(w, r), z |-> r = 0, v |-> v, c |-> c]

-----------------------------------------------------------------------------
(* Addition and subtraction.  The carry of a byte or a word is the next bit *)
(* of the sum, kept in a 32-bit variable; for a long that bit is gone and   *)
(* the code rebuilds it from the sign bits (CFLAG_ADD_32, CFLAG_SUB_32).    *)

\* S, D and R: the sign bits of the source, the destination and the result r;
\* t is the result before it is cut to the width
AddedByResult(w, t, r, S, D, R) ==
    Outcome(w, r, (S # R) /\ (D # R),
            IF w = Long THEN (S /\ D) \/ (R /\ (S \/ D)) ELSE t >= Span(w))
AddedWith(w, t, r, S, D, R) ==
    Outcome(w, r, (S # R) /\ (D # R),
            IF w = Long THEN (S /\ D) \/ (~R /\ (S \/ D)) ELSE t >= Span(w))
SubtractedLikeAdded(w, t, r, S, D, R) ==
    Outcome(w, r, (S # R) /\ (D # R),
            IF w = Long THEN (S /\ R) \/ (~D /\ (S \/ R)) ELSE t < 0)
SubtractedWith(w, t, r, S, D, R) ==
    Outcome(w, r, (S # D) /\ (R # D),
            IF w = Long THEN (S /\ R) \/ (~D /\ (S \/ R)) ELSE t < 0)

Signs(w, src, dst, t, r, Op(_, _, _, _, _, _)) ==
    Op(w, t, r, Msb(w, src), Msb(w, dst), Msb(w, r))
Sum(w, src, dst, x) ==
    Signs(w, src, dst, src + dst + x, Low(w, src + dst + x), AddedWith)
Difference(w, src, dst, x) ==
    Signs(w, src, dst, dst - src - x, Low(w, dst - src - x), SubtractedWith)

\* the code writes 0 - src - X; S and R as above, 0 has no sign bit
NegatedWith(w, t, r, S, D, R) ==
    Outcome(w, r, S /\ R, IF w = Long THEN S \/ R ELSE t < 0)
Negation(w, src, x) ==
    Signs(w, src, 0, 0 - src - x, Low(w, 0 - src - x), NegatedWith)

\* and, or, eor, not, move, tst, clr, ext, swap, mul: V and C are cleared
Plain(w, r) == Outcome(w, r, FALSE, FALSE)

\* C's division of a long by a word: the quotient is cut towards zero.
DivideUnsigned(dst, src) == [q |-> dst \div src, r |-> dst % src]
Magnitude(i) == IF i < 0 THEN -i ELSE i
Quotient(a, b) ==
    IF (a < 0) = (b < 0) THEN Magnitude(a) \div Magnitude(b)
                         ELSE -(Magnitude(a) \div Magnitude(b))
Division(a, b) == [q |-> Quotient(a, b), r |-> a - Quotient(a, b) * b]
DivideSigned(dst, src) == Division(Signed(Long, dst), Signed(Word, src))

-----------------------------------------------------------------------------
(* Shifts and rotations by k > 0, and what every one of them does by 0.    *)

LeftBits(n, v, k) == (v % 2 ^ (n - k)) * 2 ^ k           \* low n bits of v << k
Top(n, v, k) == v \div 2 ^ (n - k)                       \* top k of the n bits of v

AslLastStep(w, k, src, x) ==
    IF k < Bits(w)
    THEN Outcome(w, LeftBits(Bits(w), src, k),
                 Top(Bits(w), src, 2) \notin {0, 3}, BitOf(src, Bits(w) - k) = 1)
    ELSE Outcome(w, 0, src # 0, k = Bits(w) /\ src % 2 = 1)

Asl(w, k, src, x) ==
    IF k < Bits(w)
    THEN Outcome(w, LeftBits(Bits(w), src, k),
                 Top(Bits(w), src, k + 1) \notin {0, 2 ^ (k + 1) - 1},
                 BitOf(src, Bits(w) - k) = 1)
    ELSE Outcome(w, 0, src # 0, k = Bits(w) /\ src % 2 = 1)

Asr(w, k, src, x) ==
    IF k < Bits(w)
    THEN Outcome(w, Low(w, Signed(w, src) \div 2 ^ k), FALSE, BitOf(src, k - 1) = 1)
    ELSE Outcome(w, IF Msb(w, src) THEN Span(w) - 1 ELSE 0, FALSE, Msb(w, src))

Lsl(w, k, src, x) ==
    IF k <= Bits(w)
    THEN Outcome(w, LeftBits(Bits(w), src, k), FALSE, BitOf(src, Bits(w) - k) = 1)
    ELSE Plain(w, 0)

Lsr(w, k, src, x) ==
    IF k <= Bits(w) THEN Outcome(w, src \div 2 ^ k, FALSE, BitOf(src, k - 1) = 1)
                    ELSE Plain(w, 0)

\* rotation of the low n bits of v to the left, and by how much to the left a
\* rotation to the right goes
Rotate(n, v, k) == LeftBits(n, v, k) + Top(n, v, k)
Opposite(n, k) == (n - (k % n)) % n

Ror(w, k, src, x) ==
    Outcome(w, Rotate(Bits(w), src, Opposite(Bits(w), k)), FALSE,
            BitOf(src, (k - 1) % Bits(w)) = 1)

\* A byte and a word turned by a multiple of their width leave bit 0 in C.  For
\* a long rol_32_r shifts 32 bits right by 32, which C leaves undefined: the
\* console's PowerPC gives 0, and C is clear.
Turned(w, src, j) ==
    Outcome(w, Rotate(Bits(w), src, j), FALSE,
            IF j = 0 THEN w # Long /\ src % 2 = 1 ELSE BitOf(src, Bits(w) - j) = 1)
Rol(w, k, src, x) == Turned(w, src, k % Bits(w))

\* ROR_9/17/33 and ROL_9/17/33: X is one more bit above the operand
WithX(w, t) == Outcome(w, Low(w, t), FALSE, BitOf(t, Bits(w)) = 1)
Rox(w, src, j, x) == WithX(w, Rotate(Bits(w) + 1, src + x * 2 ^ Bits(w), j))
Roxl(w, k, src, x) == Rox(w, src, k % (Bits(w) + 1), x)
Roxr(w, k, src, x) == Rox(w, src, Opposite(Bits(w) + 1, k), x)

-----------------------------------------------------------------------------
(* Decimal digits: two to a byte, the numbers of the code kept as they are. *)

LowDigit(v) == v % 16                                    \* LOW_NIBBLE
HighDigit(v) == 16 * ((v \div 16) % 16)                  \* HIGH_NIBBLE

\* FLAG_V = ~res; ... FLAG_V &= res: set if the sign bit became one
BcdOutcome(first, r, c) ==
    Outcome(Byte, r, ~Msb(Byte, first) /\ Msb(Byte, r), c)

\* 6 more than the low digits, 160 less than the high ones where they exceed
Carried(low, t) ==
    BcdOutcome(low, Low(Byte, IF t > 153 THEN t - 160 ELSE t), t > 153)   \* 0x99
DigitSumAboveTen(src, dst, low) ==
    Carried(low, (IF low > 10 THEN low + 6 ELSE low) + HighDigit(src) + HighDigit(dst))
DigitSum(src, dst, low) ==
    Carried(low, (IF low > 9 THEN low + 6 ELSE low) + HighDigit(src) + HighDigit(dst))
BcdSum(src, dst, x) == DigitSum(src, dst, LowDigit(src) + LowDigit(dst) + x)

\* the code's res is unsigned: a negative one is above both 9 and 0x99
Above(v, limit) == v < 0 \/ v > limit
Borrowed(low, t) ==
    BcdOutcome(low, Low(Byte, IF Above(t, 153) THEN t + 160 ELSE t), Above(t, 153))
DigitDifference(src, dst, low) ==
    Borrowed(low, (IF Above(low, 9) THEN low - 6 ELSE low)
                  + HighDigit(dst) - HighDigit(src))
BcdDifference(src, dst, x) ==
    DigitDifference(src, dst, LowDigit(dst) - LowDigit(src) - x)

\* 0x9a - dst - X; 0x9a itself stands for a result of zero without a borrow,
\* and then neither the operand nor Z is touched.
NoBorrow == 154
Complement(t) ==
    IF t = Low(Byte, NoBorrow) THEN Outcome(Byte, t, FALSE, FALSE)
    ELSE BcdOutcome(t, IF LowDigit(t) = 10 THEN Low(Byte, HighDigit(t) + 16) ELSE t, TRUE)
BcdNegation(dst, x) == Complement(Low(Byte, NoBorrow - dst - x))

-----------------------------------------------------------------------------
(* The conditions of Bcc, DBcc and Scc (COND_xx).  f has the flags.        *)

Conditions == {"t", "f", "hi", "ls", "cc", "cs", "ne", "eq",
               "vc", "vs", "pl", "mi", "ge", "lt", "gt", "le"}

Holds(cond, f) ==
    CASE cond = "t"  -> TRUE
      [] cond = "f"  -> FALSE
      [] cond = "hi" -> ~f.c /\ ~f.z
      [] cond = "ls" -> f.c \/ f.z
      [] cond = "cc" -> ~f.c
      [] cond = "cs" -> f.c
      [] cond = "ne" -> ~f.z
      [] cond = "eq" -> f.z
      [] cond = "vc" -> ~f.v
      [] cond = "vs" -> f.v
      [] cond = "pl" -> ~f.n
      [] cond = "mi" -> f.n
      [] cond = "ge" -> f.n = f.v
      [] cond = "lt" -> f.n # f.v
      [] cond = "gt" -> f.n = f.v /\ ~f.z
      [] cond = "le" -> f.n # f.v \/ f.z
=============================================================================
