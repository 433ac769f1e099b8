---------------------------- MODULE M68kArithmetic ----------------------------
(***************************************************************************)
(* What the sound processor's programs expect of its arithmetic, for every *)
(* pair of operands: a state is one pair and a carry, and the operations   *)
(* of M68kAlu are compared with numbers.                                   *)
(***************************************************************************)
EXTENDS M68kAlu

CONSTANT Operands       \* words to calculate with

ASSUME OperandAssumption == Operands \subseteq Values(Word)

VARIABLES src, dst, x
vars == <<src, dst, x>>

\* One operand with itself, then with every other.
Init == src \in Operands /\ dst = src /\ x \in {0, 1}
Pair == dst = src /\ dst' \in Operands /\ UNCHANGED <<src, x>>
Next == Pair \/ (dst # src /\ UNCHANGED vars)
Spec == Init /\ [][Next]_vars

-----------------------------------------------------------------------------
\* After CMP every condition means the comparison of its name, signed or
\* unsigned, although a byte and a word take the carry from a wider result and
\* a long rebuilds it from three sign bits.
CompareMeans(w, a, b) ==
    LET f == Difference(w, a, b, 0) IN
    /\ Holds("eq", f) <=> b = a
    /\ Holds("cs", f) <=> b < a
    /\ Holds("ls", f) <=> b <= a
    /\ Holds("lt", f) <=> Signed(w, b) < Signed(w, a)
    /\ Holds("le", f) <=> Signed(w, b) <= Signed(w, a)
    /\ \A p \in {<<"eq", "ne">>, <<"cs", "cc">>, <<"ls", "hi">>, <<"lt", "ge">>,
                 <<"le", "gt">>} : Holds(p[2], f) # Holds(p[1], f)
Wide(v) == Merge(Word, v * Span(Word), dst)
CompareAgrees == /\ CompareMeans(Word, src, dst)
                 /\ CompareMeans(Byte, Low(Byte, src), Low(Byte, dst))
                 /\ CompareMeans(Long, Wide(src), Wide(x))

\* The upper and the lower half of a number, done one after the other with X
\* between them (ADDX, SUBX, NEGX), are the whole number done at once: result,
\* carry, overflow and sign.
Half(w, v) == v \div Span(w)
Joined(w, high, low) ==
    [high EXCEPT !.r = high.r * Span(w) + low.r, !.z = high.z /\ low.z]
Chained(w, Op(_, _, _, _), a, b) ==
    LET low == Op(w, Low(w, a), Low(w, b), x)
        high == Op(w, Half(w, a), Half(w, b), Flag(low.c))
    IN  Joined(w, high, low)
NegationOf(w, a, b, c) == Negation(w, b, c)
ChainingAgrees ==
    /\ \A Op \in {"Sum", "Difference"} :
          LET Do(w, a, b, c) == IF Op = "Sum" THEN Sum(w, a, b, c) ELSE Difference(w, a, b, c)
          IN  /\ Chained(Byte, Do, src, dst) = Do(Word, src, dst, x)
              /\ Chained(Word, Do, Wide(src), Wide(dst)) = Do(Long, Wide(src), Wide(dst), x)
    /\ \A w \in {Byte, Word} : LET v == IF w = Byte THEN dst ELSE Wide(src)
       IN  /\ Chained(w, NegationOf, 0, v) = Negation(2 * w, v, x)
           /\ Negation(2 * w, v, x) = Difference(2 * w, v, 0, x)

\* Moving by k + 1 places is moving by k and then by one more, X going round
\* with ROXL and ROXR; ASL remembers every change of the sign on the way; and a
\* rotation is undone by the opposite one.  A long turned right round is left
\* out: there C of ROL is not the bit moved last.
Steps(w) == 1 .. Bits(w) + 2
Again(Op(_, _, _, _), w, k, v) ==
    LET once == Op(w, k, v, x) IN
    [Op(w, 1, once.r, Flag(once.c)) EXCEPT !.v = @ \/ once.v]
Composes(Op(_, _, _, _), w, v) ==
    \A k \in Steps(w) : Op(w, k + 1, v, x) = Again(Op, w, k, v)
Undoes(Op(_, _, _, _), Back(_, _, _, _), w, v) ==
    \A k \in Steps(w) : LET o == Op(w, k, v, x) IN Back(w, k, o.r, Flag(o.c)).r = v
ShiftsCompose ==
    \A w \in {Byte, Word} : LET v == Low(w, src) IN
        /\ Composes(Asl, w, v) /\ Composes(Asr, w, v)
        /\ Composes(Lsl, w, v) /\ Composes(Lsr, w, v)
        /\ Composes(Roxl, w, v) /\ Composes(Roxr, w, v)
        /\ Composes(Rol, w, v) /\ Composes(Ror, w, v)
        /\ Undoes(Rol, Ror, w, v) /\ Undoes(Roxl, Roxr, w, v)

\* ABCD, SBCD and NBCD calculate with two decimal digits and carry: with bytes
\* of eight bits, for operands that are decimal.
D == INSTANCE M68kAlu WITH ByteBits <- 8, Radix <- 256
Digits(n) == 16 * (n \div 10) + (n % 10)
BcdDecimal ==
    LET a == src % 100
        b == dst % 100
        sum == D!BcdSum(Digits(a), Digits(b), x)
        difference == D!BcdDifference(Digits(a), Digits(b), x)
        negation == D!BcdNegation(Digits(b), x)
    IN  /\ sum.r = Digits((a + b + x) % 100) /\ sum.c = (a + b + x > 99)
        /\ difference.r = Digits((b - a - x) % 100) /\ difference.c = (b - a - x < 0)
        /\ negation.c = (b + x > 0)
        /\ negation.c => negation.r = Digits((0 - b - x) % 100)
=============================================================================
