----------------------------- MODULE M68k_proofs -----------------------------
(***************************************************************************)
(* The sound processor, proved for every memory, every sample of operands  *)
(* and every width of a byte that M68k allows.                             *)
(*                                                                         *)
(* A step of an instruction is one of three kinds: it is steady, and       *)
(* leaves the mode, the interrupt mask, the trace bit, the other mode's    *)
(* stack pointer and the request alone; or it is the entry to an exception *)
(* after a steady part; or it is an instruction of the supervisor that     *)
(* leaves no request waiting that could be taken (Legal).  The module      *)
(* first shows each kind of operand, calculation and handler steady, then  *)
(* the exceptions, then every group of handlers legal.  The invariant      *)
(* (Good) follows, with the requests and resets between the slices, then   *)
(* the properties of M68k: at the end, that MOVEM gives back what it       *)
(* stored, from where the walks of the two instructions go.                *)
(***************************************************************************)
EXTENDS M68k, M68kAlu_proofs, WellFoundedInduction

(* A step from s to t that leaves the mode, the interrupt mask, the trace  *)
(* bit, the stack pointer not in use and the request as they are.          *)
Steady(s, t) ==
    /\ t \in States
    /\ t.s = s.s /\ t.sp = s.sp /\ t.t = s.t /\ t.mask = s.mask
    /\ t.level = s.level /\ t.stopped = s.stopped

(* Doing nothing is steady.                                                *)
LEMMA SteadyIs ==
    ASSUME NEW s \in States
    PROVE Steady(s, s)
BY DEF Steady

(* Two steady steps make one.                                              *)
LEMMA SteadyOn ==
    ASSUME NEW s, NEW t, NEW u, Steady(s, t), Steady(t, u)
    PROVE  Steady(s, u)
BY DEF Steady

(* The numbers behind the widths and the register names.                   *)
LEMMA Kinds ==
    /\ Byte \in Width /\ Word \in Width /\ Long \in Width
    /\ Byte = 1 /\ Word = 2 /\ Long = 4
    /\ SP = 15 /\ SP \in 0 .. 15
    /\ \A y \in Reg : y \in 0 .. 15 /\ A(y) \in 0 .. 15 /\ A(y) = 8 + y
BY DEF Byte, Word, Long, Width, SP, A, Reg

(* What is cut to a width has that width, whichever way it is read.        *)
LEMMA Cuts ==
    ASSUME NEW w \in Width, NEW v \in Int
    PROVE  /\ Low(w, v) \in Values(w) /\ Low(w, v) \in Nat
           /\ Msb(w, v) \in BOOLEAN
           /\ Signed(w, v) \in Int
BY Near, Spans DEF Values, Msb, Signed

(* Writing a register, the stack pointer in use included, is steady.       *)
LEMMA SetSteady ==
    ASSUME NEW s \in States, NEW r \in 0 .. 15, NEW v \in Int
    PROVE  Steady(s, Set(s, r, v))
<1>1. Low(Long, v) \in Values(Long)
  BY Near, Kinds
<1> QED
  BY <1>1 DEF Steady, Set, States

(* Setting one of the flags N, Z and V is steady.                          *)
LEMMA FlagSteady ==
    ASSUME NEW s \in States, NEW b \in BOOLEAN
    PROVE  /\ Steady(s, [s EXCEPT !.n = b])
           /\ Steady(s, [s EXCEPT !.z = b])
           /\ Steady(s, [s EXCEPT !.v = b])
BY DEF Steady, States

(* What an operation leaves.                                               *)
Left(o) ==
    /\ o.r \in Int
    /\ o.n \in BOOLEAN /\ o.z \in BOOLEAN /\ o.v \in BOOLEAN /\ o.c \in BOOLEAN

(* The four ways of setting the flags from the outcome of an operation are *)
(* steady.                                                                 *)
LEMMA MarkSteady ==
    ASSUME NEW s \in States, NEW o, Left(o)
    PROVE  /\ Steady(s, MarkNZVC(s, o))
           /\ Steady(s, MarkXNZVC(s, o))
           /\ Steady(s, MarkChain(s, o))
           /\ Steady(s, MarkZ(s, o))
           /\ Steady(s, Unmarked(s, o))
<1>1. Steady(s, MarkNZVC(s, o))
  BY DEF Steady, MarkNZVC, States, Left
<1>2. Steady(s, MarkXNZVC(s, o))
  BY DEF Steady, MarkXNZVC, MarkNZVC, States, Left
<1>3. Steady(s, MarkChain(s, o))
  <2> DEFINE t == MarkXNZVC(s, o)
             b == s.z /\ o.z
  <2>1. b \in BOOLEAN
    OBVIOUS
  <2>2. MarkChain(s, o) = [t EXCEPT !.z = b]
    BY DEF MarkChain
  <2> HIDE DEF t, b
  <2>3. Steady(s, t) /\ t \in States
    BY <1>2 DEF t, Steady
  <2>4. Steady(t, MarkChain(s, o))
    BY <2>1, <2>2, <2>3, FlagSteady
  <2> QED
    BY <2>3, <2>4, SteadyOn
<1>4. Steady(s, MarkZ(s, o)) /\ Steady(s, Unmarked(s, o))
  BY DEF Steady, MarkZ, Unmarked, States, Left
<1> QED
  BY <1>1, <1>2, <1>3, <1>4

(* A jump is steady.                                                       *)
LEMMA SetPcSteady ==
    ASSUME NEW s \in States, NEW a \in Int
    PROVE  Steady(s, SetPc(s, a))
<1>1. Low(Long, a) \in Values(Long)
  BY Near, Kinds
<1> QED
  BY <1>1 DEF Steady, SetPc, States

-----------------------------------------------------------------------------
(* Memory.                                                                 *)

(* Every address stands for a byte of the memory: the bus wraps.           *)
LEMMA AtBounds ==
    ASSUME NEW a \in Int
    PROVE  At(a) \in 0 .. MemSize - 1
BY MemoryAssumption, DivisionAlgorithm DEF At

(* Memory reads give values of their width.                                *)
LEMMA ReadTyped ==
    ASSUME NEW s \in States, NEW a \in Int
    PROVE  /\ Read8(s, a) \in Values(Byte)
           /\ Read16(s, a) \in Values(Word)
           /\ Read32(s, a) \in Values(Long)
           /\ \A w \in Width : Read(s, w, a) \in Values(w)
<1>1. ASSUME NEW b \in Int PROVE Read8(s, b) \in 0 .. Radix - 1
  <2>1. s.mem \in [0 .. MemSize - 1 -> 0 .. Radix - 1]
    BY Spans DEF States, Values
  <2> QED
    BY <2>1, AtBounds DEF Read8
<1>2. ASSUME NEW b \in Int PROVE Read16(s, b) \in 0 .. Span(Word) - 1
  <2>1. Read8(s, b) \in 0 .. Radix - 1 /\ Read8(s, b + 1) \in 0 .. Radix - 1
    BY <1>1
  <2>2. Read8(s, b) * Radix + Read8(s, b + 1) \in 0 .. Radix * Radix - 1
    BY <2>1, Spans, Composed
  <2> QED
    BY <2>2, Spans DEF Read16
<1>3. Read32(s, a) \in 0 .. Span(Long) - 1
  <2>1. Read16(s, a) \in 0 .. Span(Word) - 1 /\ Read16(s, a + 2) \in 0 .. Span(Word) - 1
    BY <1>2
  <2>2. Span(Word) \in Nat /\ Span(Word) > 0
    BY Spans, Kinds
  <2>3. Read16(s, a) * Span(Word) + Read16(s, a + 2) \in 0 .. Span(Word) * Span(Word) - 1
    BY <2>1, <2>2, Composed
  <2> QED
    BY <2>3, Spans DEF Read32
<1>4. Read8(s, a) \in Values(Byte) /\ Read16(s, a) \in Values(Word) /\ Read32(s, a) \in Values(Long)
  BY <1>1, <1>2, <1>3, Spans DEF Values
<1> QED
  BY <1>4, Kinds DEF Read, Width

(* Memory writes are steady, at any address.                               *)
LEMMA WriteSteady ==
    ASSUME NEW s \in States, NEW a \in Int, NEW v \in Int
    PROVE  /\ Steady(s, Write8(s, a, v))
           /\ Steady(s, Write16(s, a, v))
           /\ Steady(s, Write32(s, a, v))
           /\ \A w \in Width : Steady(s, Write(s, w, a, v))
<1>1. ASSUME NEW u \in Int PROVE u % Radix \in Values(Byte) /\ u \div Radix \in Int
  BY <1>1, Spans, DivisionAlgorithm DEF Values
<1>2. Steady(s, Write8(s, a, v))
  BY <1>1, AtBounds DEF Steady, Write8, States
<1>3. ASSUME NEW t \in States, NEW b \in Int, NEW u \in Int
      PROVE  Steady(t, Write16(t, b, u))
  <2>1. At(b) \in 0 .. MemSize - 1 /\ At(b + 1) \in 0 .. MemSize - 1
    BY AtBounds
  <2>2. u % Radix \in Values(Byte) /\ (u \div Radix) % Radix \in Values(Byte)
    BY <1>1
  <2> QED
    BY <2>1, <2>2 DEF Steady, Write16, States
<1>4. Steady(s, Write32(s, a, v))
  <2> DEFINE t == Write16(s, a, v \div Span(Word))
  <2>1. v \div Span(Word) \in Int
    BY Spans, Kinds, DivisionAlgorithm
  <2>2. Steady(s, t)
    BY <1>3, <2>1
  <2> HIDE DEF t
  <2>3. Steady(t, Write16(t, a + 2, v))
    BY <1>3, <2>2 DEF Steady
  <2> QED
    BY <2>2, <2>3, SteadyOn DEF Write32, t
<1> QED
  BY <1>2, <1>3, <1>4, Kinds DEF Write, Width

-----------------------------------------------------------------------------
(* Operands.                                                               *)

(* The powers that single out bits of a word.                              *)
LEMMA WordPowers ==
    /\ Bits(Word) \in Nat /\ Bits(Word) >= 12
    /\ Span(Word) = 2 ^ Bits(Word)
    /\ Span(Word) = 16 * 2 ^ (Bits(Word) - 4)
    /\ 2 ^ (Bits(Word) - 4) \in Nat /\ 2 ^ (Bits(Word) - 4) > 0
<1>1. Bits(Word) = ByteBits + ByteBits
  BY WidthAssumption DEF Bits, Word
<1>2. Bits(Word) \in Nat /\ Bits(Word) >= 12
  BY <1>1, WidthAssumption
<1>3. 2 ^ (ByteBits + ByteBits) = 2 ^ ByteBits * 2 ^ ByteBits
  BY WidthAssumption, PowerOfSum
<1>4. Span(Word) = 2 ^ Bits(Word)
  BY <1>1, <1>3, Spans, WidthAssumption
<1>5. 2 ^ Bits(Word) = 2 ^ (Bits(Word) - 4) * 16
  <2> DEFINE k == Bits(Word) - 4
  <2>1. k \in Nat /\ k + 2 \in Nat /\ Bits(Word) = k + 2 + 2
    BY <1>2
  <2> HIDE DEF k
  <2>2. 2 ^ (k + 2) = 2 ^ k * 4 /\ 2 ^ (k + 2 + 2) = 2 ^ (k + 2) * 4
    BY <2>1, NextPowers
  <2>3. 2 ^ k \in Nat
    BY <2>1, Power
  <2>4. 2 ^ Bits(Word) = 2 ^ k * 16
    BY <2>1, <2>2, <2>3
  <2> QED
    BY <2>4 DEF k
<1>6. 2 ^ (Bits(Word) - 4) \in Nat /\ 2 ^ (Bits(Word) - 4) > 0
  BY <1>2, Power
<1> QED
  BY <1>2, <1>4, <1>5, <1>6

(* A value from V together with a state reached steadily.                  *)
Yields(s, e, V) == e.v \in V /\ Steady(s, e.s)

(* A value put together with the state it was read in.                     *)
LEMMA WithYields ==
    ASSUME NEW s, NEW t, Steady(s, t), NEW V, NEW v \in V
    PROVE  /\ Yields(s, With(v, t), V)
           /\ With(v, t).v = v /\ With(v, t).s = t
BY DEF Yields, With

(* The program counters are longs.                                         *)
LEMMA PcTyped ==
    ASSUME NEW s \in States
    PROVE  s.pc \in Values(Long) /\ s.pc \in Int /\ s.ppc \in Values(Long) /\ s.ppc \in Int
BY Spans, Kinds DEF States, Values

(* The registers hold longs.                                               *)
LEMMA RegisterTyped ==
    ASSUME NEW s \in States, NEW r \in 0 .. 15
    PROVE  s.dar[r] \in Values(Long) /\ s.dar[r] \in Nat
<1>1. s.dar \in [0 .. 15 -> Values(Long)]
  BY DEF States
<1>2. s.dar[r] \in Values(Long)
  BY <1>1
<1> QED
  BY <1>2, Spans, Kinds DEF Values

(* An extension word or two taken from the program: the read is steady and *)
(* leaves the registers alone.                                             *)
LEMMA ImmediateYields ==
    ASSUME NEW s \in States
    PROVE  /\ Yields(s, Imm16(s), Values(Word)) /\ Imm16(s).s.dar = s.dar
           /\ Yields(s, Imm32(s), Values(Long)) /\ Imm32(s).s.dar = s.dar
           /\ \A w \in Width : Yields(s, Immediate(s, w), Values(w))
<1>1. /\ Steady(s, SetPc(s, s.pc + 2)) /\ SetPc(s, s.pc + 2).dar = s.dar
      /\ Steady(s, SetPc(s, s.pc + 4)) /\ SetPc(s, s.pc + 4).dar = s.dar
  <2>1. s.pc + 2 \in Int /\ s.pc + 4 \in Int
    BY PcTyped
  <2>2. SetPc(s, s.pc + 2).dar = s.dar /\ SetPc(s, s.pc + 4).dar = s.dar
    BY DEF SetPc, States
  <2> QED
    BY <2>1, <2>2, SetPcSteady
<1>2. Read16(s, s.pc) \in Values(Word) /\ Read32(s, s.pc) \in Values(Long)
  BY PcTyped, ReadTyped
<1>3. Yields(s, Imm16(s), Values(Word)) /\ Imm16(s).s.dar = s.dar
  BY <1>1, <1>2 DEF Imm16, With, Yields
<1>4. Yields(s, Imm32(s), Values(Long)) /\ Imm32(s).s.dar = s.dar
  BY <1>1, <1>2 DEF Imm32, With, Yields
<1>5. ASSUME NEW w \in Width, w # Long PROVE Yields(s, Immediate(s, w), Values(w))
  <2> DEFINE v == Read16(s, s.pc)
             t == SetPc(s, s.pc + 2)
  <2>1. Low(w, v) \in Values(w)
    <3>1. v \in Int
      BY <1>2, Spans, Kinds DEF Values
    <3> QED
      BY <3>1, Cuts
  <2>2. Immediate(s, w) = [With(v, t) EXCEPT !.v = Low(w, v)]
    BY <1>5 DEF Immediate, Imm16, With
  <2>3. Steady(s, t)
    BY <1>1
  <2> HIDE DEF v, t
  <2> QED
    BY <2>1, <2>2, <2>3 DEF Yields, With
<1> QED
  BY <1>3, <1>4, <1>5 DEF Immediate

(* The address of the mode with a displacement.                            *)
LEMMA DisplacedYields ==
    ASSUME NEW s \in States, NEW base \in Int
    PROVE  Yields(s, Displaced(s, base), Values(Long)) /\ Displaced(s, base).s.dar = s.dar
<1> DEFINE e == Imm16(s)
<1>1. Displaced(s, base) = With(Low(Long, base + Signed(Word, e.v)), e.s)
  BY DEF Displaced, Then
<1>2. Yields(s, e, Values(Word)) /\ e.s.dar = s.dar
  BY ImmediateYields
<1> HIDE DEF e
<1>3. e.v \in Int
  BY <1>2, Spans, Kinds DEF Yields, Values
<1>4. Low(Long, base + Signed(Word, e.v)) \in Values(Long)
  <2>1. Signed(Word, e.v) \in Int
    BY <1>3, Cuts, Kinds
  <2>2. base + Signed(Word, e.v) \in Int
    BY <2>1
  <2> QED
    BY <2>2, Cuts, Kinds
<1> QED
  BY <1>1, <1>2, <1>4 DEF Yields, With

(* The address of the mode with an index register, whose brief extension   *)
(* word is taken from the program.                                         *)
LEMMA IndexedYields ==
    ASSUME NEW s \in States, NEW base \in Int
    PROVE  Yields(s, Indexed(s, base), Values(Long)) /\ Indexed(s, base).s.dar = s.dar
<1> DEFINE e == Imm16(s)
           r == e.v \div 2 ^ (Bits(Word) - 4)
           a == base + Index(e.v, s.dar[r]) + Signed(Byte, e.v)
<1>1. Indexed(s, base) = With(Low(Long, a), e.s)
  BY DEF Indexed, Then
<1>2. Yields(s, e, Values(Word)) /\ e.s.dar = s.dar
  BY ImmediateYields
<1>3. e.v \in Int /\ r \in 0 .. 15
  <2> DEFINE P == 2 ^ (Bits(Word) - 4)
  <2>1. P \in Nat /\ P > 0 /\ Span(Word) = 16 * P
    BY WordPowers
  <2> HIDE DEF P, e
  <2>2. e.v \in 0 .. 16 * P - 1
    BY <1>2, <2>1 DEF Yields, Values
  <2>3. e.v \div P \in 0 .. 16 - 1
    BY <2>1, <2>2, Cut
  <2> QED
    BY <2>1, <2>2, <2>3 DEF P
<1> HIDE DEF e, r
<1>4. Index(e.v, s.dar[r]) \in Int
  <2>1. s.dar[r] \in Int
    BY <1>3, RegisterTyped
  <2> QED
    BY <2>1, Cuts, Kinds DEF Index
<1>5. Signed(Byte, e.v) \in Int
  BY <1>3, Cuts, Kinds
<1>6. a \in Int
  BY <1>4, <1>5
<1> HIDE DEF a
<1>7. Low(Long, a) \in Values(Long)
  BY <1>6, Cuts, Kinds
<1> QED
  BY <1>1, <1>2, <1>7 DEF Yields, With

(* The effective address of every mode: it is found steadily, and the      *)
(* control modes leave the registers alone.                                *)
LEMMA EaYields ==
    ASSUME NEW s \in States, NEW w \in Width, NEW m \in Memory, NEW y \in Reg
    PROVE  /\ Yields(s, Ea(s, w, m, y), Int)
           /\ m \in Control => Ea(s, w, m, y).s.dar = s.dar
<1> DEFINE an == s.dar[A(y)]
           k == Stride(w, y)
<1>1. an \in Int /\ s.pc \in Int /\ k \in Int /\ A(y) \in 0 .. 15
  BY RegisterTyped, PcTyped, Kinds DEF Stride, Width
<1>2. Values(Long) \subseteq Int
  BY Spans, Kinds DEF Values
<1>3. Steady(s, s)
  BY SteadyIs
<1>4. Steady(s, Set(s, A(y), an + k)) /\ Steady(s, Set(s, A(y), an - k))
  <2>1. an + k \in Int /\ an - k \in Int
    BY <1>1
  <2> HIDE DEF an, k
  <2> QED
    BY <1>1, <2>1, SetSteady
<1>5. Low(Long, an - k) \in Int
  <2>1. an - k \in Int
    BY <1>1
  <2> HIDE DEF an, k
  <2> QED
    BY <2>1, <1>2, Cuts, Kinds
<1>6. Ea(s, w, m, y) = EaFrom(s, w, m, y, an)
  BY DEF Ea
<1> HIDE DEF an
<1>7. CASE m = "ai"
  <2>1. Ea(s, w, m, y) = With(an, s)
    BY <1>6, <1>7 DEF EaFrom
  <2> QED
    BY <2>1, <1>1, <1>3, WithYields
<1>8. CASE m = "pi"
  <2>1. Ea(s, w, m, y) = With(an, Set(s, A(y), an + k))
    BY <1>6, <1>8 DEF EaFrom, Stepped
  <2> HIDE DEF k
  <2>2. m \notin Control
    BY <1>8 DEF Control
  <2> QED
    BY <2>1, <2>2, <1>1, <1>4, WithYields
<1>9. CASE m = "pd"
  <2>1. Ea(s, w, m, y) = With(Low(Long, an - k), Set(s, A(y), an - k))
    BY <1>6, <1>9 DEF EaFrom, Stepped
  <2> HIDE DEF k
  <2>2. m \notin Control
    BY <1>9 DEF Control
  <2> QED
    BY <2>1, <2>2, <1>4, <1>5, WithYields
<1>10. CASE m \in {"di", "aw", "pcdi"}
  <2> DEFINE b == IF m = "di" THEN an ELSE IF m = "aw" THEN 0 ELSE s.pc
  <2>1. Ea(s, w, m, y) = Displaced(s, b)
    BY <1>6, <1>10 DEF EaFrom
  <2>2. b \in Int
    BY <1>1
  <2> HIDE DEF b
  <2> QED
    BY <2>1, <2>2, <1>2, DisplacedYields DEF Yields
<1>11. CASE m \in {"ix", "pcix"}
  <2> DEFINE b == IF m = "ix" THEN an ELSE s.pc
  <2>1. Ea(s, w, m, y) = Indexed(s, b)
    BY <1>6, <1>11 DEF EaFrom
  <2>2. b \in Int
    BY <1>1
  <2> HIDE DEF b
  <2> QED
    BY <2>1, <2>2, <1>2, IndexedYields DEF Yields
<1>12. CASE m = "al"
  <2>1. Ea(s, w, m, y) = Imm32(s)
    BY <1>6, <1>12 DEF EaFrom
  <2> QED
    BY <2>1, <1>2, ImmediateYields DEF Yields
<1> QED
  BY <1>7, <1>8, <1>9, <1>10, <1>11, <1>12 DEF Memory, Alterable

(* A long is made of whole operands of any width.                          *)
LEMMA WidthDivides ==
    ASSUME NEW w \in Width
    PROVE  \E k \in Nat : k > 0 /\ Span(Long) = k * Span(w)
<1>1. CASE w = Byte
  <2> DEFINE k == Span(Byte) * Span(Word)
  <2>1. Span(Byte) \in Nat /\ Span(Word) \in Nat /\ Span(Byte) > 0 /\ Span(Word) > 0
    BY Spans, Kinds
  <2>2. k \in Nat /\ k > 0
    BY <2>1
  <2>3. Span(Long) = k * Span(Byte)
    <3>1. Span(Long) = Span(Word) * (Span(Byte) * Span(Byte))
      BY Spans
    <3> QED
      BY <3>1, <2>1
  <2> HIDE DEF k
  <2> QED
    BY <1>1, <2>2, <2>3
<1>2. CASE w = Word
  BY <1>2, Spans, Kinds
<1>3. CASE w = Long
  <2>1. Span(Long) = 1 * Span(w) /\ 1 \in Nat /\ 1 > 0
    BY <1>3, Spans, Kinds
  <2> QED
    BY <2>1
<1> QED
  BY <1>1, <1>2, <1>3 DEF Width

(* A register with a new low part is still a long.                         *)
LEMMA Merged ==
    ASSUME NEW w \in Width, NEW old \in Values(Long), NEW v \in Int
    PROVE  Merge(w, old, v) \in Values(Long)
<1> DEFINE S == Span(w)
           q == old \div S
           l == Low(w, v)
<1>1. S \in Nat /\ S > 0
  BY Spans
<1>2. PICK k \in Nat : k > 0 /\ Span(Long) = k * S
  BY WidthDivides
<1>3. old \in 0 .. k * S - 1
  BY <1>2 DEF Values
<1>4. l \in 0 .. S - 1
  BY Cuts DEF Values
<1>5. Low(w, old) = old % S
  BY DEF Low
<1> HIDE DEF S, l
<1>6. q \in 0 .. k - 1 /\ old % S \in 0 .. S - 1 /\ old = q * S + (old % S)
  BY <1>1, <1>2, <1>3, Cut
<1>7. q * S + l \in 0 .. k * S - 1
  <2> HIDE DEF q
  <2> QED
    BY <1>1, <1>2, <1>4, <1>6, Composed
<1>8. Merge(w, old, v) = q * S + l
  <2>1. Merge(w, old, v) = old - (old % S) + l
    BY <1>5 DEF Merge, l
  <2>2. q * S \in Int
    BY <1>1, <1>6
  <2> HIDE DEF q
  <2> QED
    BY <2>1, <2>2, <1>4, <1>6
<1> QED
  BY <1>2, <1>7, <1>8 DEF Values

(* Writing the low part of a register is steady.                           *)
LEMMA SetLowSteady ==
    ASSUME NEW s \in States, NEW w \in Width, NEW r \in 0 .. 15, NEW v \in Int
    PROVE  Steady(s, SetLow(s, w, r, v))
<1>1. Merge(w, s.dar[r], v) \in Values(Long)
  BY RegisterTyped, Merged
<1> QED
  BY <1>1 DEF Steady, SetLow, States

(* Where an operand can be.                                                *)
Spots == {<<"register", r>> : r \in 0 .. 15} \cup {<<"memory", a>> : a \in Int}

(* Finding the operand of a mode is steady and gives one of the spots      *)
(* where an operand can be.                                                *)
LEMMA PlaceYields ==
    ASSUME NEW s \in States, NEW w \in Width, NEW m \in AllModes \ {"i"}, NEW y \in Reg
    PROVE  Yields(s, Place(s, w, m, y), Spots)
<1>1. CASE m \in {"d", "a"}
  <2> DEFINE r == IF m = "d" THEN y ELSE A(y)
  <2>1. Place(s, w, m, y) = With(<<"register", r>>, s)
    BY <1>1 DEF Place
  <2>2. r \in 0 .. 15
    BY Kinds
  <2> HIDE DEF r
  <2>3. <<"register", r>> \in Spots
    BY <2>2 DEF Spots
  <2> QED
    BY <2>1, <2>3, SteadyIs, WithYields
<1>2. CASE m \notin {"d", "a"}
  <2> DEFINE e == Ea(s, w, m, y)
  <2>1. Place(s, w, m, y) = With(<<"memory", e.v>>, e.s)
    BY <1>2 DEF Place, Then
  <2>2. m \in Memory
    BY <1>2 DEF AllModes, DataModes
  <2>3. Yields(s, e, Int)
    BY <2>2, EaYields
  <2> HIDE DEF e
  <2>4. <<"memory", e.v>> \in Spots
    BY <2>3 DEF Spots, Yields
  <2> QED
    BY <2>1, <2>3, <2>4, WithYields DEF Yields
<1> QED
  BY <1>1, <1>2

(* Reading a spot gives a value of the width, and writing it is steady.    *)
LEMMA SpotUsed ==
    ASSUME NEW s \in States, NEW w \in Width, NEW p \in Spots
    PROVE  /\ Contents(s, w, p) \in Values(w)
           /\ \A v \in Int : Steady(s, Store(s, w, p, v))
<1>1. CASE \E r \in 0 .. 15 : p = <<"register", r>>
  <2>1. PICK r \in 0 .. 15 : p = <<"register", r>>
    BY <1>1
  <2>2. p[1] = "register" /\ p[2] = r
    BY <2>1
  <2>3. Contents(s, w, p) = Low(w, s.dar[r])
    BY <2>2 DEF Contents
  <2>4. Low(w, s.dar[r]) \in Values(w)
    <3>1. s.dar[r] \in Int
      BY RegisterTyped
    <3> QED
      BY <3>1, Cuts
  <2>5. ASSUME NEW v \in Int PROVE Steady(s, Store(s, w, p, v))
    <3>1. Store(s, w, p, v) = SetLow(s, w, r, v)
      BY <2>2 DEF Store
    <3> QED
      BY <3>1, SetLowSteady
  <2> QED
    BY <2>3, <2>4, <2>5
<1>2. CASE \E a \in Int : p = <<"memory", a>>
  <2>1. PICK a \in Int : p = <<"memory", a>>
    BY <1>2
  <2>2. p[1] # "register" /\ p[2] = a
    BY <2>1
  <2>3. Contents(s, w, p) = Read(s, w, a)
    BY <2>2 DEF Contents
  <2>4. ASSUME NEW v \in Int PROVE Steady(s, Store(s, w, p, v))
    <3>1. Store(s, w, p, v) = Write(s, w, a, v)
      BY <2>2 DEF Store
    <3> QED
      BY <3>1, WriteSteady
  <2> QED
    BY <2>3, <2>4, ReadTyped
<1> QED
  BY <1>1, <1>2 DEF Spots

(* Reading the operand of a mode is steady.                                *)
LEMMA OperandYields ==
    ASSUME NEW s \in States, NEW w \in Width, NEW m \in AllModes, NEW y \in Reg
    PROVE  Yields(s, Operand(s, w, m, y), Values(w))
<1>1. CASE m = "i"
  BY <1>1, ImmediateYields DEF Operand
<1>2. CASE m # "i"
  <2> DEFINE e == Place(s, w, m, y)
  <2>1. Operand(s, w, m, y) = With(Contents(e.s, w, e.v), e.s)
    BY <1>2 DEF Operand, Then
  <2>2. Yields(s, e, Spots)
    BY <1>2, PlaceYields
  <2> HIDE DEF e
  <2>3. e.s \in States /\ e.v \in Spots /\ Steady(s, e.s)
    BY <2>2 DEF Yields, Steady
  <2>4. Contents(e.s, w, e.v) \in Values(w)
    BY <2>3, SpotUsed
  <2> QED
    BY <2>1, <2>3, <2>4, WithYields
<1> QED
  BY <1>1, <1>2

-----------------------------------------------------------------------------
(* Recursive functions on 0 .. N: they exist, and what holds at 0 and goes *)
(* from each number to the next holds on all of them.                      *)

(* What holds of 0 and goes from each number to the next holds up to N.    *)
(* The induction is over a set and not over a predicate, so that it can be *)
(* cited.                                                                  *)
LEMMA Upwards ==
    ASSUME NEW N \in Nat, NEW T, 0 \in T, \A k \in 1 .. N : k - 1 \in T => k \in T
    PROVE  \A k \in 0 .. N : k \in T
<1> DEFINE R == OpToRel(<, Nat)
           B == {k \in 0 .. N : k \notin T}
<1>1. IsWellFoundedOn(R, Nat)
  BY NatLessThanWellFounded
<1>2. \A i, j \in Nat : j < i => <<j, i>> \in R
  BY DEF OpToRel
<1> HIDE DEF R
<1>3. SUFFICES ASSUME B # {} PROVE FALSE
  OBVIOUS
<1>4. B \subseteq Nat
  OBVIOUS
<1> HIDE DEF B
<1>5. PICK k \in B : \A j \in B : ~ (<<j, k>> \in R)
  BY <1>1, <1>3, <1>4, WFMin
<1>6. k \in 0 .. N /\ k \notin T
  BY DEF B
<1>7. k \in 1 .. N /\ k - 1 \in 0 .. N
  BY <1>6
<1>8. k - 1 \notin T
  BY <1>6, <1>7
<1>9. k - 1 \in B
  BY <1>7, <1>8 DEF B
<1>10. <<k - 1, k>> \in R
  BY <1>2, <1>7
<1> QED
  BY <1>5, <1>9, <1>10

(* f starts with e and takes each value from the one before by G.          *)
StepsOn(N, E) == [E \X (1 .. N) -> E]
Goes(f, N, E, e, G) ==
    /\ f \in [0 .. N -> E] /\ f[0] = e
    /\ \A k \in 1 .. N : f[k] = G[<<f[k - 1], k>>]

(* Such a function exists, for every e and every G.                        *)
LEMMA Recursion ==
    ASSUME NEW N \in Nat, NEW E, NEW e \in E, NEW G \in StepsOn(N, E)
    PROVE  \E f : Goes(f, N, E, e, G)
<1> USE DEF StepsOn
<1> DEFINE Upto(f, n) == /\ f \in [0 .. n -> E] /\ f[0] = e
                         /\ \A k \in 1 .. n : f[k] = G[<<f[k - 1], k>>]
           T == {n \in 0 .. N : \E f : Upto(f, n)}
<1>1. 0 \in T
  <2> DEFINE f == [k \in 0 .. 0 |-> e]
  <2>1. f \in [0 .. 0 -> E] /\ f[0] = e
    OBVIOUS
  <2> HIDE DEF f
  <2>2. Upto(f, 0)
    BY <2>1
  <2> QED
    BY <2>2
<1>2. ASSUME NEW n \in 1 .. N, n - 1 \in T PROVE n \in T
  <2>1. PICK g : Upto(g, n - 1)
    BY <1>2
  <2> DEFINE f == [k \in 0 .. n |-> IF k = n THEN G[<<g[n - 1], n>>] ELSE g[k]]
  <2>2. g \in [0 .. n - 1 -> E] /\ g[n - 1] \in E
    BY <2>1
  <2>3. G[<<g[n - 1], n>>] \in E
    BY <2>2
  <2>4. f \in [0 .. n -> E]
    BY <2>2, <2>3
  <2>5. f[0] = e /\ f[n] = G[<<g[n - 1], n>>] /\ \A k \in 0 .. n - 1 : f[k] = g[k]
    BY <2>1
  <2> HIDE DEF f
  <2>6. ASSUME NEW k \in 1 .. n PROVE f[k] = G[<<f[k - 1], k>>]
    <3>1. CASE k = n
      BY <2>5, <3>1
    <3>2. CASE k # n
      <4>1. k \in 1 .. n - 1 /\ k \in 0 .. n - 1 /\ k - 1 \in 0 .. n - 1
        BY <3>2
      <4>2. f[k] = g[k] /\ f[k - 1] = g[k - 1]
        BY <2>5, <4>1
      <4> QED
        BY <2>1, <4>1, <4>2
    <3> QED
      BY <3>1, <3>2
  <2>7. Upto(f, n)
    BY <2>4, <2>5, <2>6
  <2> QED
    BY <2>7
<1> HIDE DEF T
<1>3. N \in T
  BY <1>1, <1>2, Upwards
<1> QED
  BY <1>3 DEF T, Goes

(* A sum of terms g[1], g[2], ...                                          *)
LEMMA Summing ==
    ASSUME NEW n \in Nat, NEW g \in [1 .. n -> Int]
    PROVE  /\ \E f : f = [i \in 0 .. n |-> IF i = 0 THEN 0 ELSE f[i - 1] + g[i]]
           /\ \A f : f = [i \in 0 .. n |-> IF i = 0 THEN 0 ELSE f[i - 1] + g[i]]
                    => f[n] \in Int
<1> DEFINE G == [p \in Int \X (1 .. n) |-> p[1] + g[p[2]]]
<1>1. G \in [Int \X (1 .. n) -> Int]
  OBVIOUS
<1>2. \A a \in Int, i \in 1 .. n : G[<<a, i>>] = a + g[i]
  OBVIOUS
<1> HIDE DEF G
<1>3. PICK f \in [0 .. n -> Int] : f[0] = 0 /\ \A k \in 1 .. n : f[k] = G[<<f[k - 1], k>>]
  <2> DEFINE E == Int
             e == 0
  <2>1. e \in E /\ G \in StepsOn(n, E)
    BY <1>1 DEF StepsOn
  <2> HIDE DEF E, e
  <2>2. \E f : Goes(f, n, E, e, G)
    BY <2>1, Recursion
  <2> QED
    BY <2>2 DEF E, e, Goes
<1>4. ASSUME NEW i \in 0 .. n
      PROVE  f[i] = IF i = 0 THEN 0 ELSE f[i - 1] + g[i]
  <2>1. CASE i # 0
    <3>1. i \in 1 .. n /\ i - 1 \in 0 .. n
      BY <2>1
    <3> QED
      BY <1>2, <1>3, <2>1, <3>1
  <2> QED
    BY <1>3, <2>1
<1>5. f = [i \in 0 .. n |-> IF i = 0 THEN 0 ELSE f[i - 1] + g[i]]
  BY <1>4
<1>6. ASSUME NEW h, h = [i \in 0 .. n |-> IF i = 0 THEN 0 ELSE h[i - 1] + g[i]]
      PROVE  h[n] \in Int
  <2> DEFINE T == {i \in 0 .. n : h[i] \in Int}
  <2>1. h[0] = 0 /\ \A i \in 1 .. n : h[i] = h[i - 1] + g[i]
    BY <1>6
  <2>2. 0 \in T
    BY <2>1
  <2>3. ASSUME NEW i \in 1 .. n, i - 1 \in T PROVE i \in T
    BY <2>1, <2>3
  <2> HIDE DEF T
  <2>4. \A i \in 1 .. n : i - 1 \in T => i \in T
    BY <2>3
  <2>5. \A i \in 0 .. n : i \in T
    BY <2>2, <2>4, Upwards
  <2>6. n \in T
    BY <2>5
  <2> QED
    BY <2>6 DEF T
<1> QED
  BY <1>5, <1>6

(* Single bits are 0 or 1.                                                 *)
LEMMA Places ==
    ASSUME NEW a \in Int, NEW i \in Nat
    PROVE  2 ^ i \in Nat /\ 2 ^ i > 0 /\ BitOf(a, i) \in {0, 1}
<1>1. 2 ^ i \in Nat /\ 2 ^ i > 0
  BY Power
<1> DEFINE q == a \div 2 ^ i
<1>2. q \in Int
  BY <1>1, DivisionAlgorithm
<1> HIDE DEF q
<1>3. q % 2 \in {0, 1}
  BY <1>2
<1> QED
  BY <1>1, <1>3 DEF BitOf, q

(* The bit by bit operations, which are sums over the places, give         *)
(* numbers.                                                                *)
LEMMA BitwiseTyped ==
    ASSUME NEW w \in Width, NEW a \in Int, NEW b \in Int
    PROVE  And(w, a, b) \in Int /\ Or(w, a, b) \in Int /\ Xor(w, a, b) \in Int
<1> DEFINE n == Bits(w)
           p(i) == BitOf(a, i - 1)
           q(i) == BitOf(b, i - 1)
<1>1. n \in Nat
  BY WidthAssumption DEF Bits, Width, Byte, Word, Long
<1>2. ASSUME NEW i \in 1 .. n
      PROVE  /\ 2 ^ (i - 1) \in Int
             /\ p(i) \in Int /\ q(i) \in Int
  <2>1. i - 1 \in Nat
    BY <1>1
  <2> QED
    BY <2>1, Places
<1>3. And(w, a, b) \in Int
  <2> DEFINE g == [i \in 1 .. n |-> 2 ^ (i - 1) * (p(i) * q(i))]
             f == CHOOSE sum : sum =
                    [i \in 0 .. n |-> IF i = 0 THEN 0
                       ELSE sum[i - 1] + 2 ^ (i - 1) * (p(i) * q(i))]
  <2>1. And(w, a, b) = f[n]
    BY DEF And, Bitwise2
  <2>2. g \in [1 .. n -> Int]
    BY <1>2
  <2>3. ASSUME NEW h
        PROVE  [i \in 0 .. n |-> IF i = 0 THEN 0
                   ELSE h[i - 1] + 2 ^ (i - 1) * (p(i) * q(i))]
               = [i \in 0 .. n |-> IF i = 0 THEN 0 ELSE h[i - 1] + g[i]]
    BY <1>1
  <2>4. \E h : h = [i \in 0 .. n |-> IF i = 0 THEN 0
                   ELSE h[i - 1] + 2 ^ (i - 1) * (p(i) * q(i))]
    <3> HIDE DEF g, n
    <3>1. PICK h : h = [i \in 0 .. n |-> IF i = 0 THEN 0 ELSE h[i - 1] + g[i]]
      BY <1>1, <2>2, Summing
    <3>2. h = [i \in 0 .. n |-> IF i = 0 THEN 0
                  ELSE h[i - 1] + 2 ^ (i - 1) * (p(i) * q(i))]
      BY <2>3, <3>1
    <3> QED
      BY <3>2
  <2>5. f = [i \in 0 .. n |-> IF i = 0 THEN 0
               ELSE f[i - 1] + 2 ^ (i - 1) * (p(i) * q(i))]
    BY <2>4
  <2> HIDE DEF f
  <2>6. f = [i \in 0 .. n |-> IF i = 0 THEN 0 ELSE f[i - 1] + g[i]]
    BY <2>3, <2>5
  <2> HIDE DEF g, n
  <2> QED
    BY <1>1, <2>1, <2>2, <2>6, Summing
<1>4. Or(w, a, b) \in Int
  <2> DEFINE g == [i \in 1 .. n |-> 2 ^ (i - 1) * (p(i) + q(i) - p(i) * q(i))]
             f == CHOOSE sum : sum =
                    [i \in 0 .. n |-> IF i = 0 THEN 0
                       ELSE sum[i - 1] + 2 ^ (i - 1) * (p(i) + q(i) - p(i) * q(i))]
  <2>1. Or(w, a, b) = f[n]
    BY DEF Or, Bitwise2
  <2>2. g \in [1 .. n -> Int]
    BY <1>2
  <2>3. ASSUME NEW h
        PROVE  [i \in 0 .. n |-> IF i = 0 THEN 0
                   ELSE h[i - 1] + 2 ^ (i - 1) * (p(i) + q(i) - p(i) * q(i))]
               = [i \in 0 .. n |-> IF i = 0 THEN 0 ELSE h[i - 1] + g[i]]
    BY <1>1
  <2>4. \E h : h = [i \in 0 .. n |-> IF i = 0 THEN 0
                   ELSE h[i - 1] + 2 ^ (i - 1) * (p(i) + q(i) - p(i) * q(i))]
    <3> HIDE DEF g, n
    <3>1. PICK h : h = [i \in 0 .. n |-> IF i = 0 THEN 0 ELSE h[i - 1] + g[i]]
      BY <1>1, <2>2, Summing
    <3>2. h = [i \in 0 .. n |-> IF i = 0 THEN 0
                  ELSE h[i - 1] + 2 ^ (i - 1) * (p(i) + q(i) - p(i) * q(i))]
      BY <2>3, <3>1
    <3> QED
      BY <3>2
  <2>5. f = [i \in 0 .. n |-> IF i = 0 THEN 0
               ELSE f[i - 1] + 2 ^ (i - 1) * (p(i) + q(i) - p(i) * q(i))]
    BY <2>4
  <2> HIDE DEF f
  <2>6. f = [i \in 0 .. n |-> IF i = 0 THEN 0 ELSE f[i - 1] + g[i]]
    BY <2>3, <2>5
  <2> HIDE DEF g, n
  <2> QED
    BY <1>1, <2>1, <2>2, <2>6, Summing
<1>5. Xor(w, a, b) \in Int
  <2> DEFINE g == [i \in 1 .. n |-> 2 ^ (i - 1) * ((p(i) + q(i)) % 2)]
             f == CHOOSE sum : sum =
                    [i \in 0 .. n |-> IF i = 0 THEN 0
                       ELSE sum[i - 1] + 2 ^ (i - 1) * ((p(i) + q(i)) % 2)]
  <2>1. Xor(w, a, b) = f[n]
    BY DEF Xor, Bitwise2
  <2>2. g \in [1 .. n -> Int]
    BY <1>2
  <2>3. ASSUME NEW h
        PROVE  [i \in 0 .. n |-> IF i = 0 THEN 0
                   ELSE h[i - 1] + 2 ^ (i - 1) * ((p(i) + q(i)) % 2)]
               = [i \in 0 .. n |-> IF i = 0 THEN 0 ELSE h[i - 1] + g[i]]
    BY <1>1
  <2>4. \E h : h = [i \in 0 .. n |-> IF i = 0 THEN 0
                   ELSE h[i - 1] + 2 ^ (i - 1) * ((p(i) + q(i)) % 2)]
    <3> HIDE DEF g, n
    <3>1. PICK h : h = [i \in 0 .. n |-> IF i = 0 THEN 0 ELSE h[i - 1] + g[i]]
      BY <1>1, <2>2, Summing
    <3>2. h = [i \in 0 .. n |-> IF i = 0 THEN 0
                  ELSE h[i - 1] + 2 ^ (i - 1) * ((p(i) + q(i)) % 2)]
      BY <2>3, <3>1
    <3> QED
      BY <3>2
  <2>5. f = [i \in 0 .. n |-> IF i = 0 THEN 0
               ELSE f[i - 1] + 2 ^ (i - 1) * ((p(i) + q(i)) % 2)]
    BY <2>4
  <2> HIDE DEF f
  <2>6. f = [i \in 0 .. n |-> IF i = 0 THEN 0 ELSE f[i - 1] + g[i]]
    BY <2>3, <2>5
  <2> HIDE DEF g, n
  <2> QED
    BY <1>1, <2>1, <2>2, <2>6, Summing
<1> QED
  BY <1>3, <1>4, <1>5

-----------------------------------------------------------------------------
(* What the operations leave.                                              *)

(* An outcome with its flags is what an operation leaves.                  *)
LEMMA OutcomeLeft ==
    ASSUME NEW w \in Width, NEW r \in Int, NEW v \in BOOLEAN, NEW c \in BOOLEAN
    PROVE  Left(Outcome(w, r, v, c))
<1>1. Msb(w, r) \in BOOLEAN
  BY Cuts
<1> QED
  BY <1>1 DEF Left, Outcome

(* So is one with neither overflow nor carry.                              *)
LEMMA PlainLeft ==
    ASSUME NEW w \in Width, NEW r \in Int
    PROVE  Left(Plain(w, r))
BY OutcomeLeft DEF Plain

(* Sums and differences, with and without the extend flag, leave a number  *)
(* and four flags.                                                         *)
LEMMA CalculationsLeft ==
    ASSUME NEW w \in Width, NEW src \in Int, NEW dst \in Int, NEW x \in {0, 1}
    PROVE  /\ Left(Sum(w, src, dst, x))
           /\ Left(Difference(w, src, dst, x))
           /\ Left(Negation(w, src, x))
<1>1. Msb(w, src) \in BOOLEAN /\ Msb(w, dst) \in BOOLEAN
  BY Cuts
<1>2. ASSUME NEW t \in Int PROVE Low(w, t) \in Int /\ Msb(w, Low(w, t)) \in BOOLEAN
  BY Cuts
<1>3. Span(w) \in Int
  BY Spans
<1>4. Left(Sum(w, src, dst, x))
  <2> DEFINE t == src + dst + x
             r == Low(w, t)
             v == (Msb(w, src) # Msb(w, r)) /\ (Msb(w, dst) # Msb(w, r))
             c == IF w = Long
                  THEN (Msb(w, src) /\ Msb(w, dst)) \/ (~Msb(w, r) /\ (Msb(w, src) \/ Msb(w, dst)))
                  ELSE t >= Span(w)
  <2>1. Sum(w, src, dst, x) = Outcome(w, r, v, c)
    BY DEF Sum, Signs, AddedWith
  <2>2. t \in Int
    OBVIOUS
  <2>3. r \in Int
    BY <1>2, <2>2
  <2>4. v \in BOOLEAN
    OBVIOUS
  <2>5. c \in BOOLEAN
    <3>1. CASE w = Long
      BY <3>1
    <3>2. CASE w # Long
      <4>1. c = (t >= Span(w))
        BY <3>2
      <4> HIDE DEF c
      <4> QED
        BY <4>1
    <3> QED
      BY <3>1, <3>2
  <2> HIDE DEF r, v, c
  <2> QED
    BY <2>1, <2>3, <2>4, <2>5, OutcomeLeft
<1>5. Left(Difference(w, src, dst, x))
  <2> DEFINE t == dst - src - x
             r == Low(w, t)
             v == (Msb(w, src) # Msb(w, dst)) /\ (Msb(w, r) # Msb(w, dst))
             c == IF w = Long
                  THEN (Msb(w, src) /\ Msb(w, r)) \/ (~Msb(w, dst) /\ (Msb(w, src) \/ Msb(w, r)))
                  ELSE t < 0
  <2>1. Difference(w, src, dst, x) = Outcome(w, r, v, c)
    BY DEF Difference, Signs, SubtractedWith
  <2>2. t \in Int
    OBVIOUS
  <2>3. r \in Int
    BY <1>2, <2>2
  <2>4. v \in BOOLEAN
    OBVIOUS
  <2>5. c \in BOOLEAN
    <3>1. CASE w = Long
      BY <3>1
    <3>2. CASE w # Long
      <4>1. c = (t < 0)
        BY <3>2
      <4> HIDE DEF c
      <4> QED
        BY <4>1
    <3> QED
      BY <3>1, <3>2
  <2> HIDE DEF r, v, c
  <2> QED
    BY <2>1, <2>3, <2>4, <2>5, OutcomeLeft
<1>6. Left(Negation(w, src, x))
  <2> DEFINE t == 0 - src - x
             r == Low(w, t)
             v == Msb(w, src) /\ Msb(w, r)
             c == IF w = Long THEN Msb(w, src) \/ Msb(w, r) ELSE t < 0
  <2>1. Negation(w, src, x) = Outcome(w, r, v, c)
    BY DEF Negation, Signs, NegatedWith
  <2>2. t \in Int
    OBVIOUS
  <2>3. r \in Int
    BY <1>2, <2>2
  <2>4. v \in BOOLEAN
    OBVIOUS
  <2>5. c \in BOOLEAN
    <3>1. CASE w = Long
      BY <3>1
    <3>2. CASE w # Long
      <4>1. c = (t < 0)
        BY <3>2
      <4> HIDE DEF c
      <4> QED
        BY <4>1
    <3> QED
      BY <3>1, <3>2
  <2> HIDE DEF r, v, c
  <2> QED
    BY <2>1, <2>3, <2>4, <2>5, OutcomeLeft
<1> QED
  BY <1>4, <1>5, <1>6

(* A flag counts as 0 or 1.                                                *)
LEMMA FlagTyped ==
    ASSUME NEW b
    PROVE  Flag(b) \in {0, 1}
BY DEF Flag

(* The span of a width is a positive number.                               *)
LEMMA SpanTyped ==
    ASSUME NEW w \in Width
    PROVE  Span(w) \in Nat /\ Span(w) > 0 /\ Values(w) \subseteq Int
BY Spans DEF Values

(* What the arithmetic handlers calculate.                                 *)
LEMMA ArithmeticLeft ==
    ASSUME NEW w \in Width, NEW src \in Int, NEW dst \in Int, NEW x \in {0, 1}
    PROVE  /\ Left(Added(w, src, dst, x)) /\ Left(Addx(w, src, dst, x))
           /\ Left(Subtracted(w, src, dst, x)) /\ Left(Subx(w, src, dst, x))
           /\ Left(Negated(w, src, dst, x)) /\ Left(Negx(w, src, dst, x))
<1>1. 0 \in {0, 1}
  OBVIOUS
<1> QED
  BY <1>1, CalculationsLeft DEF Added, Addx, Subtracted, Subx, Negated, Negx

(* What the logic, move and one operand handlers calculate.                *)
LEMMA LogicLeft ==
    ASSUME NEW w \in Width, NEW src \in Int, NEW dst \in Int, NEW x \in {0, 1}
    PROVE  /\ Left(Anded(w, src, dst, x)) /\ Left(Ored(w, src, dst, x))
           /\ Left(Eored(w, src, dst, x)) /\ Left(Inverted(w, src, dst, x))
           /\ Left(Zeroed(w, src, dst, x)) /\ Left(Source(w, src, dst, x))
           /\ Left(Kept(w, src, dst, x)) /\ Left(Swapped(w, src, dst, x))
           /\ Left(TestAndSet(w, src, dst, x))
<1>1. Left(Anded(w, src, dst, x)) /\ Left(Ored(w, src, dst, x)) /\ Left(Eored(w, src, dst, x))
  BY BitwiseTyped, PlainLeft DEF Anded, Ored, Eored
<1>2. Left(Inverted(w, src, dst, x))
  <2>1. Span(w) - 1 - dst \in Int
    BY SpanTyped
  <2> QED
    BY <2>1, PlainLeft DEF Inverted
<1>3. Left(Zeroed(w, src, dst, x)) /\ Left(Kept(w, src, dst, x))
  <2>1. 0 \in Int
    OBVIOUS
  <2> QED
    BY <2>1, PlainLeft DEF Zeroed, Kept
<1>4. Left(Source(w, src, dst, x))
  <2>1. Low(w, src) \in Int
    BY Cuts
  <2> QED
    BY <2>1, PlainLeft DEF Source
<1>5. Left(Swapped(w, src, dst, x))
  <2> DEFINE S == Span(Word)
  <2>1. S \in Nat /\ S > 0
    BY SpanTyped, Kinds
  <2> HIDE DEF S
  <2>2. dst % S \in Int /\ dst \div S \in Int
    BY <2>1, DivisionAlgorithm
  <2>3. (dst % S) * S + (dst \div S) \in Int
    BY <2>1, <2>2
  <2> QED
    BY <2>3, PlainLeft DEF Swapped, S
<1>6. Left(TestAndSet(w, src, dst, x))
  <2> DEFINE h == Span(w) \div 2
             q == Or(w, dst, h)
  <2>1. h \in Int
    BY SpanTyped
  <2> HIDE DEF h
  <2>2. q \in Int
    BY <2>1, BitwiseTyped
  <2>3. Left(Plain(w, dst))
    BY PlainLeft
  <2>4. TestAndSet(w, src, dst, x) = [Plain(w, dst) EXCEPT !.r = q]
    BY DEF TestAndSet, h
  <2> HIDE DEF q
  <2> QED
    BY <2>2, <2>3, <2>4 DEF Left, Plain, Outcome
<1> QED
  BY <1>1, <1>2, <1>3, <1>4, <1>5, <1>6

(* What sign extension calculates.                                         *)
LEMMA ExtendedLeft ==
    ASSUME NEW w \in Width, NEW src \in Width, NEW dst \in Int, NEW x \in {0, 1}
    PROVE  Left(Extended(w, src, dst, x))
<1>1. Low(w, Signed(src, dst)) \in Int
  BY Cuts
<1> QED
  BY <1>1, PlainLeft DEF Extended

(* A result in decimal with its flags.                                     *)
LEMMA BcdLeft ==
    ASSUME NEW first \in Int, NEW r \in Int, NEW c \in BOOLEAN
    PROVE  Left(BcdOutcome(first, r, c))
<1> DEFINE v == ~Msb(Byte, first) /\ Msb(Byte, r)
<1>1. v \in BOOLEAN
  OBVIOUS
<1>2. BcdOutcome(first, r, c) = Outcome(Byte, r, v, c)
  BY DEF BcdOutcome
<1> HIDE DEF v
<1> QED
  BY <1>1, <1>2, OutcomeLeft, Kinds

(* What the decimal handlers calculate.                                    *)
LEMMA DecimalLeft ==
    ASSUME NEW w, NEW src \in Int, NEW dst \in Int, NEW x \in {0, 1}
    PROVE  /\ Left(Abcd(w, src, dst, x)) /\ Left(Sbcd(w, src, dst, x))
           /\ Left(BcdNegation(dst, x))
<1>1. ASSUME NEW v \in Int PROVE LowDigit(v) \in Int /\ HighDigit(v) \in Int
  BY DEF LowDigit, HighDigit
<1>2. ASSUME NEW v \in Int PROVE Low(Byte, v) \in Int
  BY Cuts, Kinds
<1>3. Left(Abcd(w, src, dst, x))
  <2> DEFINE low == LowDigit(src) + LowDigit(dst) + x
             t == (IF low > 9 THEN low + 6 ELSE low) + HighDigit(src) + HighDigit(dst)
             r == Low(Byte, IF t > 153 THEN t - 160 ELSE t)
             c == t > 153
  <2>1. Abcd(w, src, dst, x) = BcdOutcome(low, r, c)
    BY DEF Abcd, BcdSum, DigitSum, Carried
  <2>2. low \in Int
    BY <1>1
  <2>3. t \in Int
    <3> HIDE DEF low
    <3> QED
      BY <2>2, <1>1
  <2>4. r \in Int
    <3> HIDE DEF t
    <3> QED
      BY <1>2, <2>3
  <2>5. c \in BOOLEAN
    OBVIOUS
  <2> HIDE DEF low, r, c
  <2> QED
    BY <2>1, <2>2, <2>4, <2>5, BcdLeft
<1>4. Left(Sbcd(w, src, dst, x))
  <2> DEFINE low == LowDigit(dst) - LowDigit(src) - x
             t == (IF Above(low, 9) THEN low - 6 ELSE low) + HighDigit(dst) - HighDigit(src)
             r == Low(Byte, IF Above(t, 153) THEN t + 160 ELSE t)
             c == Above(t, 153)
  <2>1. Sbcd(w, src, dst, x) = BcdOutcome(low, r, c)
    BY DEF Sbcd, BcdDifference, DigitDifference, Borrowed
  <2>2. low \in Int
    BY <1>1
  <2>3. t \in Int
    <3> HIDE DEF low
    <3> QED
      BY <2>2, <1>1
  <2>4. r \in Int
    <3> HIDE DEF t
    <3> QED
      BY <1>2, <2>3
  <2>5. c \in BOOLEAN
    BY DEF Above
  <2> HIDE DEF low, r, c
  <2> QED
    BY <2>1, <2>2, <2>4, <2>5, BcdLeft
<1>5. Left(BcdNegation(dst, x))
  <2> DEFINE t == Low(Byte, NoBorrow - dst - x)
             r == IF LowDigit(t) = 10 THEN Low(Byte, HighDigit(t) + 16) ELSE t
  <2>1. t \in Int
    <3>1. NoBorrow - dst - x \in Int
      BY DEF NoBorrow
    <3> QED
      BY <3>1, <1>2
  <2>2. BcdNegation(dst, x) = IF t = Low(Byte, NoBorrow) THEN Outcome(Byte, t, FALSE, FALSE)
                              ELSE BcdOutcome(t, r, TRUE)
    BY DEF BcdNegation, Complement
  <2> HIDE DEF t
  <2>3. r \in Int
    <3>1. HighDigit(t) + 16 \in Int
      BY <1>1, <2>1
    <3> QED
      BY <3>1, <2>1, <1>2
  <2> HIDE DEF r
  <2>4. Left(Outcome(Byte, t, FALSE, FALSE)) /\ Left(BcdOutcome(t, r, TRUE))
    BY <2>1, <2>3, BcdLeft, OutcomeLeft, Kinds
  <2> QED
    BY <2>2, <2>4
<1> QED
  BY <1>3, <1>4, <1>5

(* Every width has more than one bit.                                      *)
LEMMA BitCounts ==
    ASSUME NEW w \in Width
    PROVE  Bits(w) \in Nat /\ Bits(w) > 1
<1>1. ByteBits \in Nat /\ ByteBits >= 6
  BY WidthAssumption
<1> QED
  BY <1>1 DEF Bits, Width, Byte, Word, Long

(* The parts of a number that a shift moves are numbers.                   *)
LEMMA RotationTyped ==
    ASSUME NEW n \in Nat, NEW k \in 0 .. n, NEW v \in Int
    PROVE  LeftBits(n, v, k) \in Int /\ Top(n, v, k) \in Int /\ Rotate(n, v, k) \in Int
<1> DEFINE P == 2 ^ k
           Q == 2 ^ (n - k)
<1>1. P \in Nat /\ Q \in Nat /\ Q > 0
  <2>1. k \in Nat /\ n - k \in Nat
    OBVIOUS
  <2> QED
    BY <2>1, Power
<1>2. LeftBits(n, v, k) = (v % Q) * P /\ Top(n, v, k) = v \div Q
  BY DEF LeftBits, Top
<1> HIDE DEF P, Q
<1>3. v % Q \in Int /\ v \div Q \in Int
  BY <1>1, DivisionAlgorithm
<1>4. (v % Q) * P \in Int
  BY <1>1, <1>3
<1> QED
  BY <1>2, <1>3, <1>4 DEF Rotate

(* A choice between two outcomes.                                          *)
LEMMA ChoiceLeft ==
    ASSUME NEW p, NEW f, NEW g, p => Left(f), ~p => Left(g)
    PROVE  Left(IF p THEN f ELSE g)
OBVIOUS

(* What the shifts calculate, for every count and not only for those an    *)
(* opcode can name.                                                        *)
LEMMA ShiftsLeft ==
    ASSUME NEW w \in Width, NEW k \in Nat, k > 0, NEW src \in Int, NEW x \in {0, 1}
    PROVE  /\ Left(Asl(w, k, src, x)) /\ Left(Asr(w, k, src, x))
           /\ Left(Lsl(w, k, src, x)) /\ Left(Lsr(w, k, src, x))
<1> DEFINE n == Bits(w)
           top == BitOf(src, n - k) = 1
           low == BitOf(src, k - 1) = 1
<1>1. n \in Nat /\ n > 1 /\ Span(w) \in Int
  BY BitCounts, SpanTyped
<1>2. top \in BOOLEAN /\ low \in BOOLEAN
  OBVIOUS
<1>3. Signed(w, src) \in Int
  BY Cuts
<1>4. ASSUME NEW v \in Int PROVE v \div 2 ^ k \in Int
  BY Power, DivisionAlgorithm
<1>5. ASSUME k <= n PROVE LeftBits(n, src, k) \in Int
  <2>1. k \in 0 .. n
    BY <1>1, <1>5
  <2> HIDE DEF n
  <2> QED
    BY <1>1, <2>1, RotationTyped
<1>6. Left(Plain(w, 0))
  <2>1. 0 \in Int
    OBVIOUS
  <2> QED
    BY <2>1, PlainLeft
<1>7. Left(Asl(w, k, src, x))
  <2> DEFINE v == Top(n, src, k + 1) \notin {0, 2 ^ (k + 1) - 1}
             c == k = n /\ src % 2 = 1
  <2>1. v \in BOOLEAN /\ c \in BOOLEAN /\ (src # 0) \in BOOLEAN
    OBVIOUS
  <2>2. Asl(w, k, src, x) = IF k < n THEN Outcome(w, LeftBits(n, src, k), v, top)
                                     ELSE Outcome(w, 0, src # 0, c)
    BY DEF Asl
  <2> HIDE DEF n, v, c, top
  <2>3. k < n => Left(Outcome(w, LeftBits(n, src, k), v, top))
    BY <1>1, <1>2, <1>5, <2>1, OutcomeLeft
  <2> DEFINE e == src # 0
  <2>4. Left(Outcome(w, 0, e, c))
    <3>1. e \in BOOLEAN /\ 0 \in Int
      OBVIOUS
    <3> HIDE DEF e
    <3> QED
      BY <3>1, <2>1, OutcomeLeft
  <2> QED
    BY <2>2, <2>3, <2>4, ChoiceLeft
<1>8. Left(Asr(w, k, src, x))
  <2> DEFINE r == Low(w, Signed(w, src) \div 2 ^ k)
             a == IF Msb(w, src) THEN Span(w) - 1 ELSE 0
             b == Msb(w, src)
  <2>1. r \in Int /\ a \in Int /\ b \in BOOLEAN
    BY <1>1, <1>3, <1>4, Cuts
  <2>2. Asr(w, k, src, x) = IF k < n THEN Outcome(w, r, FALSE, low) ELSE Outcome(w, a, FALSE, b)
    BY DEF Asr
  <2> HIDE DEF n, r, a, b, low
  <2>3. Left(Outcome(w, r, FALSE, low)) /\ Left(Outcome(w, a, FALSE, b))
    BY <1>2, <2>1, OutcomeLeft
  <2> QED
    BY <2>2, <2>3
<1>9. Left(Lsl(w, k, src, x))
  <2>1. Lsl(w, k, src, x) = IF k <= n THEN Outcome(w, LeftBits(n, src, k), FALSE, top)
                                      ELSE Plain(w, 0)
    BY DEF Lsl
  <2> HIDE DEF n, top
  <2>2. k <= n => Left(Outcome(w, LeftBits(n, src, k), FALSE, top))
    BY <1>2, <1>5, OutcomeLeft
  <2> QED
    BY <1>6, <2>1, <2>2
<1>10. Left(Lsr(w, k, src, x))
  <2> DEFINE r == src \div 2 ^ k
  <2>1. r \in Int
    BY <1>4
  <2>2. Lsr(w, k, src, x) = IF k <= n THEN Outcome(w, r, FALSE, low) ELSE Plain(w, 0)
    BY DEF Lsr
  <2> HIDE DEF n, low, r
  <2>3. Left(Outcome(w, r, FALSE, low))
    BY <1>2, <2>1, OutcomeLeft
  <2> QED
    BY <1>6, <2>2, <2>3
<1> QED
  BY <1>7, <1>8, <1>9, <1>10

(* What the rotations calculate, through the extend flag or not.           *)
LEMMA RotationsLeft ==
    ASSUME NEW w \in Width, NEW k \in Nat, NEW src \in Int, NEW x \in {0, 1}
    PROVE  /\ Left(Rol(w, k, src, x)) /\ Left(Ror(w, k, src, x))
           /\ Left(Roxl(w, k, src, x)) /\ Left(Roxr(w, k, src, x))
<1> DEFINE n == Bits(w)
<1>1. n \in Nat /\ n > 1
  BY BitCounts
<1> HIDE DEF n
<1>2. ASSUME NEW N \in Nat, N > 0 PROVE k % N \in 0 .. N /\ Opposite(N, k) \in 0 .. N
  <2>1. k % N \in 0 .. N - 1
    BY <1>2
  <2>2. N - (k % N) \in Int
    BY <1>2, <2>1
  <2> QED
    BY <1>2, <2>1, <2>2, DivisionAlgorithm DEF Opposite
<1>3. Left(Rol(w, k, src, x))
  <2> DEFINE j == k % n
             r == Rotate(n, src, j)
             c == IF j = 0 THEN w # Long /\ src % 2 = 1 ELSE BitOf(src, n - j) = 1
  <2>1. Rol(w, k, src, x) = Outcome(w, r, FALSE, c)
    BY DEF Rol, Turned, n
  <2>2. r \in Int
    <3>1. j \in 0 .. n
      BY <1>1, <1>2
    <3> HIDE DEF j
    <3> QED
      BY <1>1, <3>1, RotationTyped
  <2>3. c \in BOOLEAN
    OBVIOUS
  <2> HIDE DEF r, c
  <2> QED
    BY <2>1, <2>2, <2>3, OutcomeLeft
<1>4. Left(Ror(w, k, src, x))
  <2> DEFINE j == Opposite(n, k)
             r == Rotate(n, src, j)
             c == BitOf(src, (k - 1) % n) = 1
  <2>1. Ror(w, k, src, x) = Outcome(w, r, FALSE, c)
    BY DEF Ror, n
  <2>2. r \in Int
    <3>1. j \in 0 .. n
      BY <1>1, <1>2
    <3> HIDE DEF j
    <3> QED
      BY <1>1, <3>1, RotationTyped
  <2>3. c \in BOOLEAN
    OBVIOUS
  <2> HIDE DEF r, c
  <2> QED
    BY <2>1, <2>2, <2>3, OutcomeLeft
<1>5. ASSUME NEW j \in 0 .. n + 1 PROVE Left(Rox(w, src, j, x))
  <2> DEFINE v == src + x * 2 ^ n
             t == Rotate(n + 1, v, j)
             r == Low(w, t)
             c == BitOf(t, n) = 1
  <2>1. Rox(w, src, j, x) = Outcome(w, r, FALSE, c)
    BY DEF Rox, WithX, n
  <2>2. v \in Int /\ n + 1 \in Nat
    BY <1>1, Power
  <2>3. t \in Int
    <3> HIDE DEF v
    <3> DEFINE N == n + 1
    <3>1. N \in Nat /\ j \in 0 .. N
      BY <1>1
    <3> HIDE DEF N
    <3>2. Rotate(N, v, j) \in Int
      BY <2>2, <3>1, RotationTyped
    <3> QED
      BY <3>2 DEF N
  <2>4. r \in Int
    <3> HIDE DEF t
    <3> QED
      BY <2>3, Cuts
  <2>5. c \in BOOLEAN
    OBVIOUS
  <2> HIDE DEF r, c
  <2> QED
    BY <2>1, <2>4, <2>5, OutcomeLeft
<1>6. k % (n + 1) \in 0 .. n + 1 /\ Opposite(n + 1, k) \in 0 .. n + 1
  <2> DEFINE N == n + 1
  <2>1. N \in Nat /\ N > 0
    BY <1>1
  <2> HIDE DEF N
  <2>2. k % N \in 0 .. N /\ Opposite(N, k) \in 0 .. N
    BY <1>2, <2>1
  <2> QED
    BY <2>2 DEF N
<1>7. Left(Roxl(w, k, src, x)) /\ Left(Roxr(w, k, src, x))
  BY <1>5, <1>6 DEF Roxl, Roxr, n
<1> QED
  BY <1>3, <1>4, <1>7

(* What the handlers of single bits calculate.                             *)
LEMMA BitsLeft ==
    ASSUME NEW w, NEW k \in Nat, NEW dst \in Int, NEW x
    PROVE  /\ Flip(w, k, dst, x) \in Int
           /\ ClearBit(w, k, dst, x) \in Int
           /\ SetBit(w, k, dst, x) \in Int
<1>1. 2 ^ k \in Nat /\ BitOf(dst, k) \in {0, 1}
  BY Places
<1> DEFINE P == 2 ^ k
           b == BitOf(dst, k)
<1> HIDE DEF P, b
<1>2. P \in Int /\ b \in {0, 1}
  BY <1>1 DEF P, b
<1>3. dst + (1 - 2 * b) * P \in Int /\ dst - b * P \in Int /\ dst + (1 - b) * P \in Int
  BY <1>2
<1> QED
  BY <1>3 DEF Flip, ClearBit, SetBit, P, b

-----------------------------------------------------------------------------
(* The forms of the handlers.                                              *)

(* An operand that an operation finds, and what its outcome makes there.   *)
LEMMA Altered ==
    ASSUME NEW s \in States, NEW w \in Width, NEW m \in AllModes \ {"i"}, NEW y \in Reg,
           NEW e, e = Place(s, w, m, y)
    PROVE  /\ e.s \in States /\ Contents(e.s, w, e.v) \in Int
           /\ \A o : Left(o) =>
                /\ Steady(s, MarkNZVC(Store(e.s, w, e.v, o.r), o))
                /\ Steady(s, MarkXNZVC(Store(e.s, w, e.v, o.r), o))
                /\ Steady(s, MarkChain(Store(e.s, w, e.v, o.r), o))
                /\ Steady(s, MarkZ(Store(e.s, w, e.v, o.r), o))
                /\ Steady(s, Unmarked(Store(e.s, w, e.v, o.r), o))
<1>1. Yields(s, e, Spots)
  BY PlaceYields
<1>2. e.s \in States /\ e.v \in Spots /\ Steady(s, e.s)
  BY <1>1 DEF Yields, Steady
<1>3. Contents(e.s, w, e.v) \in Int
  BY <1>2, SpotUsed, SpanTyped
<1>4. ASSUME NEW o, Left(o), NEW t, t = Store(e.s, w, e.v, o.r)
      PROVE  /\ Steady(s, MarkNZVC(t, o)) /\ Steady(s, MarkXNZVC(t, o))
             /\ Steady(s, MarkChain(t, o)) /\ Steady(s, MarkZ(t, o))
             /\ Steady(s, Unmarked(t, o))
  <2>1. o.r \in Int
    BY <1>4 DEF Left
  <2>2. Steady(e.s, t)
    BY <1>2, <1>4, <2>1, SpotUsed
  <2>3. Steady(s, t) /\ t \in States
    BY <1>2, <2>2, SteadyOn DEF Steady
  <2> QED
    BY <1>4, <2>3, MarkSteady, SteadyOn
<1> QED
  BY <1>2, <1>3, <1>4

(* Every arithmetic operation on an operand at any mode that can be        *)
(* changed is steady.                                                      *)
LEMMA AlterArithmetic ==
    ASSUME NEW s \in States, NEW w \in Width, NEW m \in AllModes \ {"i"}, NEW y \in Reg,
           NEW src \in Int
    PROVE  /\ Steady(s, Alter(s, w, m, y, src, Added, MarkXNZVC))
           /\ Steady(s, Alter(s, w, m, y, src, Subtracted, MarkXNZVC))
           /\ Steady(s, Alter(s, w, m, y, src, Negated, MarkXNZVC))
           /\ Steady(s, Alter(s, w, m, y, src, Addx, MarkChain))
           /\ Steady(s, Alter(s, w, m, y, src, Subx, MarkChain))
           /\ Steady(s, Alter(s, w, m, y, src, Negx, MarkChain))
           /\ Steady(s, Alter(s, w, m, y, src, Abcd, MarkChain))
           /\ Steady(s, Alter(s, w, m, y, src, Sbcd, MarkChain))
<1> DEFINE e == Place(s, w, m, y)
           c == Contents(e.s, w, e.v)
           x == Flag(s.x)
<1>1. /\ Alter(s, w, m, y, src, Added, MarkXNZVC)
           = MarkXNZVC(Store(e.s, w, e.v, Added(w, src, c, x).r), Added(w, src, c, x))
      /\ Alter(s, w, m, y, src, Subtracted, MarkXNZVC)
           = MarkXNZVC(Store(e.s, w, e.v, Subtracted(w, src, c, x).r), Subtracted(w, src, c, x))
      /\ Alter(s, w, m, y, src, Negated, MarkXNZVC)
           = MarkXNZVC(Store(e.s, w, e.v, Negated(w, src, c, x).r), Negated(w, src, c, x))
      /\ Alter(s, w, m, y, src, Addx, MarkChain)
           = MarkChain(Store(e.s, w, e.v, Addx(w, src, c, x).r), Addx(w, src, c, x))
      /\ Alter(s, w, m, y, src, Subx, MarkChain)
           = MarkChain(Store(e.s, w, e.v, Subx(w, src, c, x).r), Subx(w, src, c, x))
      /\ Alter(s, w, m, y, src, Negx, MarkChain)
           = MarkChain(Store(e.s, w, e.v, Negx(w, src, c, x).r), Negx(w, src, c, x))
      /\ Alter(s, w, m, y, src, Abcd, MarkChain)
           = MarkChain(Store(e.s, w, e.v, Abcd(w, src, c, x).r), Abcd(w, src, c, x))
      /\ Alter(s, w, m, y, src, Sbcd, MarkChain)
           = MarkChain(Store(e.s, w, e.v, Sbcd(w, src, c, x).r), Sbcd(w, src, c, x))
  BY DEF Alter, Then, Settle
<1>2. c \in Int /\ x \in {0, 1}
  BY Altered, FlagTyped
<1>3. /\ Left(Added(w, src, c, x)) /\ Left(Subtracted(w, src, c, x))
      /\ Left(Negated(w, src, c, x)) /\ Left(Addx(w, src, c, x))
      /\ Left(Subx(w, src, c, x)) /\ Left(Negx(w, src, c, x))
      /\ Left(Abcd(w, src, c, x)) /\ Left(Sbcd(w, src, c, x))
  <2> HIDE DEF c, x
  <2> QED
    BY <1>2, ArithmeticLeft, DecimalLeft
<1> HIDE DEF c, x
<1> QED
  BY <1>1, <1>3, Altered

(* Logic, moves and what has one operand.                                  *)
LEMMA AlterLogic ==
    ASSUME NEW s \in States, NEW w \in Width, NEW m \in AllModes \ {"i"}, NEW y \in Reg,
           NEW src \in Int
    PROVE  /\ Steady(s, Alter(s, w, m, y, src, Anded, MarkNZVC))
           /\ Steady(s, Alter(s, w, m, y, src, Ored, MarkNZVC))
           /\ Steady(s, Alter(s, w, m, y, src, Eored, MarkNZVC))
           /\ Steady(s, Alter(s, w, m, y, src, Inverted, MarkNZVC))
           /\ Steady(s, Alter(s, w, m, y, src, Zeroed, MarkNZVC))
           /\ Steady(s, Alter(s, w, m, y, src, Source, MarkNZVC))
           /\ Steady(s, Alter(s, w, m, y, src, Source, Unmarked))
           /\ Steady(s, Alter(s, w, m, y, src, Swapped, MarkNZVC))
           /\ Steady(s, Alter(s, w, m, y, src, TestAndSet, MarkNZVC))
<1> DEFINE e == Place(s, w, m, y)
           c == Contents(e.s, w, e.v)
           x == Flag(s.x)
<1>1. /\ Alter(s, w, m, y, src, Anded, MarkNZVC)
           = MarkNZVC(Store(e.s, w, e.v, Anded(w, src, c, x).r), Anded(w, src, c, x))
      /\ Alter(s, w, m, y, src, Ored, MarkNZVC)
           = MarkNZVC(Store(e.s, w, e.v, Ored(w, src, c, x).r), Ored(w, src, c, x))
      /\ Alter(s, w, m, y, src, Eored, MarkNZVC)
           = MarkNZVC(Store(e.s, w, e.v, Eored(w, src, c, x).r), Eored(w, src, c, x))
      /\ Alter(s, w, m, y, src, Inverted, MarkNZVC)
           = MarkNZVC(Store(e.s, w, e.v, Inverted(w, src, c, x).r), Inverted(w, src, c, x))
      /\ Alter(s, w, m, y, src, Zeroed, MarkNZVC)
           = MarkNZVC(Store(e.s, w, e.v, Zeroed(w, src, c, x).r), Zeroed(w, src, c, x))
      /\ Alter(s, w, m, y, src, Source, MarkNZVC)
           = MarkNZVC(Store(e.s, w, e.v, Source(w, src, c, x).r), Source(w, src, c, x))
      /\ Alter(s, w, m, y, src, Source, Unmarked)
           = Unmarked(Store(e.s, w, e.v, Source(w, src, c, x).r), Source(w, src, c, x))
      /\ Alter(s, w, m, y, src, Swapped, MarkNZVC)
           = MarkNZVC(Store(e.s, w, e.v, Swapped(w, src, c, x).r), Swapped(w, src, c, x))
      /\ Alter(s, w, m, y, src, TestAndSet, MarkNZVC)
           = MarkNZVC(Store(e.s, w, e.v, TestAndSet(w, src, c, x).r), TestAndSet(w, src, c, x))
  BY DEF Alter, Then, Settle
<1>2. c \in Int /\ x \in {0, 1}
  BY Altered, FlagTyped
<1>3. /\ Left(Anded(w, src, c, x)) /\ Left(Ored(w, src, c, x))
      /\ Left(Eored(w, src, c, x)) /\ Left(Inverted(w, src, c, x))
      /\ Left(Zeroed(w, src, c, x)) /\ Left(Source(w, src, c, x))
      /\ Left(Swapped(w, src, c, x)) /\ Left(TestAndSet(w, src, c, x))
  <2> HIDE DEF c, x
  <2> QED
    BY <1>2, LogicLeft
<1> HIDE DEF c, x
<1> QED
  BY <1>1, <1>3, Altered

(* Sign extension from src, which is a width.                              *)
LEMMA AlterExtended ==
    ASSUME NEW s \in States, NEW w \in Width, NEW m \in AllModes \ {"i"}, NEW y \in Reg,
           NEW src \in Width
    PROVE  /\ Steady(s, Alter(s, w, m, y, src, Extended, MarkNZVC))
<1> DEFINE e == Place(s, w, m, y)
           c == Contents(e.s, w, e.v)
           x == Flag(s.x)
<1>1. /\ Alter(s, w, m, y, src, Extended, MarkNZVC)
           = MarkNZVC(Store(e.s, w, e.v, Extended(w, src, c, x).r), Extended(w, src, c, x))
  BY DEF Alter, Then, Settle
<1>2. c \in Int /\ x \in {0, 1}
  BY Altered, FlagTyped
<1>3. /\ Left(Extended(w, src, c, x))
  <2> HIDE DEF c, x
  <2> QED
    BY <1>2, ExtendedLeft
<1> HIDE DEF c, x
<1> QED
  BY <1>1, <1>3, Altered

(* Shifts and rotations by src places.                                     *)
LEMMA AlterShift ==
    ASSUME NEW s \in States, NEW w \in Width, NEW m \in AllModes \ {"i"}, NEW y \in Reg,
           NEW src \in Nat, src > 0
    PROVE  /\ Steady(s, Alter(s, w, m, y, src, Asl, MarkXNZVC))
           /\ Steady(s, Alter(s, w, m, y, src, Asr, MarkXNZVC))
           /\ Steady(s, Alter(s, w, m, y, src, Lsl, MarkXNZVC))
           /\ Steady(s, Alter(s, w, m, y, src, Lsr, MarkXNZVC))
           /\ Steady(s, Alter(s, w, m, y, src, Rol, MarkNZVC))
           /\ Steady(s, Alter(s, w, m, y, src, Ror, MarkNZVC))
           /\ Steady(s, Alter(s, w, m, y, src, Roxl, MarkXNZVC))
           /\ Steady(s, Alter(s, w, m, y, src, Roxr, MarkXNZVC))
<1> DEFINE e == Place(s, w, m, y)
           c == Contents(e.s, w, e.v)
           x == Flag(s.x)
<1>1. /\ Alter(s, w, m, y, src, Asl, MarkXNZVC)
           = MarkXNZVC(Store(e.s, w, e.v, Asl(w, src, c, x).r), Asl(w, src, c, x))
      /\ Alter(s, w, m, y, src, Asr, MarkXNZVC)
           = MarkXNZVC(Store(e.s, w, e.v, Asr(w, src, c, x).r), Asr(w, src, c, x))
      /\ Alter(s, w, m, y, src, Lsl, MarkXNZVC)
           = MarkXNZVC(Store(e.s, w, e.v, Lsl(w, src, c, x).r), Lsl(w, src, c, x))
      /\ Alter(s, w, m, y, src, Lsr, MarkXNZVC)
           = MarkXNZVC(Store(e.s, w, e.v, Lsr(w, src, c, x).r), Lsr(w, src, c, x))
      /\ Alter(s, w, m, y, src, Rol, MarkNZVC)
           = MarkNZVC(Store(e.s, w, e.v, Rol(w, src, c, x).r), Rol(w, src, c, x))
      /\ Alter(s, w, m, y, src, Ror, MarkNZVC)
           = MarkNZVC(Store(e.s, w, e.v, Ror(w, src, c, x).r), Ror(w, src, c, x))
      /\ Alter(s, w, m, y, src, Roxl, MarkXNZVC)
           = MarkXNZVC(Store(e.s, w, e.v, Roxl(w, src, c, x).r), Roxl(w, src, c, x))
      /\ Alter(s, w, m, y, src, Roxr, MarkXNZVC)
           = MarkXNZVC(Store(e.s, w, e.v, Roxr(w, src, c, x).r), Roxr(w, src, c, x))
  BY DEF Alter, Then, Settle
<1>2. c \in Int /\ x \in {0, 1}
  BY Altered, FlagTyped
<1>3. /\ Left(Asl(w, src, c, x)) /\ Left(Asr(w, src, c, x))
      /\ Left(Lsl(w, src, c, x)) /\ Left(Lsr(w, src, c, x))
      /\ Left(Rol(w, src, c, x)) /\ Left(Ror(w, src, c, x))
      /\ Left(Roxl(w, src, c, x)) /\ Left(Roxr(w, src, c, x))
  <2> HIDE DEF c, x
  <2> QED
    BY <1>2, ShiftsLeft, RotationsLeft
<1> HIDE DEF c, x
<1> QED
  BY <1>1, <1>3, Altered

(* Single bits; the number of the bit is cut to the width.                 *)
LEMMA BitNumber ==
    ASSUME NEW w \in Width, NEW n \in Int
    PROVE  n % Bits(w) \in Nat
<1>1. Bits(w) \in Nat /\ Bits(w) > 0
  BY BitCounts
<1> QED
  BY <1>1

(* Changing a single bit of an operand is steady.                          *)
LEMMA AlterBits ==
    ASSUME NEW s \in States, NEW w \in Width, NEW m \in AllModes \ {"i"}, NEW y \in Reg,
           NEW n \in Int
    PROVE  /\ Steady(s, AlterBit(s, w, m, y, n, Flip))
           /\ Steady(s, AlterBit(s, w, m, y, n, ClearBit))
           /\ Steady(s, AlterBit(s, w, m, y, n, SetBit))
<1> DEFINE e == Place(s, w, m, y)
           c == Contents(e.s, w, e.v)
           k == n % Bits(w)
           x == Flag(s.x)
           b == BitOf(c, k)
           o(r) == Bit(Plain(w, r), b)
<1>1. /\ AlterBit(s, w, m, y, n, Flip)
           = MarkZ(Store(e.s, w, e.v, o(Flip(w, k, c, x)).r), o(Flip(w, k, c, x)))
      /\ AlterBit(s, w, m, y, n, ClearBit)
           = MarkZ(Store(e.s, w, e.v, o(ClearBit(w, k, c, x)).r), o(ClearBit(w, k, c, x)))
      /\ AlterBit(s, w, m, y, n, SetBit)
           = MarkZ(Store(e.s, w, e.v, o(SetBit(w, k, c, x)).r), o(SetBit(w, k, c, x)))
  BY DEF AlterBit, Alter, Then, Settle
<1>2. c \in Int /\ k \in Nat
  BY Altered, BitNumber
<1> HIDE DEF c, k, b
<1>3. ASSUME NEW r \in Int PROVE Left(o(r))
  <2>1. Left(Plain(w, r))
    BY PlainLeft
  <2> DEFINE z == b = 0
  <2>2. o(r) = [Plain(w, r) EXCEPT !.z = z] /\ z \in BOOLEAN
    BY DEF Bit
  <2> HIDE DEF z
  <2> QED
    BY <2>1, <2>2 DEF Left, Plain, Outcome
<1>4. Flip(w, k, c, x) \in Int /\ ClearBit(w, k, c, x) \in Int /\ SetBit(w, k, c, x) \in Int
  BY <1>2, BitsLeft
<1>5. Left(o(Flip(w, k, c, x))) /\ Left(o(ClearBit(w, k, c, x))) /\ Left(o(SetBit(w, k, c, x)))
  BY <1>3, <1>4
<1> HIDE DEF o
<1> QED
  BY <1>1, <1>5, Altered

(* What the registers of an opcode hold.                                   *)
LEMMA Fields ==
    ASSUME NEW s \in States, NEW y \in Reg
    PROVE  /\ s.dar[y] \in Int /\ s.dar[A(y)] \in Int
           /\ \A w \in Width : Low(w, s.dar[y]) \in Int /\ Signed(w, s.dar[y]) \in Int
<1>1. s.dar[y] \in Int /\ s.dar[A(y)] \in Int
  BY RegisterTyped, Kinds
<1> QED
  BY <1>1, Cuts

(* A register and the operand at m.                                        *)
LEMMA ErSteady ==
    ASSUME NEW s \in States, NEW w \in Width, NEW m \in AllModes, NEW x \in Reg, NEW y \in Reg
    PROVE  /\ Steady(s, Er(s, w, m, x, y, Added, MarkXNZVC))
           /\ Steady(s, Er(s, w, m, x, y, Subtracted, MarkXNZVC))
           /\ Steady(s, Er(s, w, m, x, y, Anded, MarkNZVC))
           /\ Steady(s, Er(s, w, m, x, y, Ored, MarkNZVC))
<1> DEFINE e == Operand(s, w, m, y)
<1>1. /\ Er(s, w, m, x, y, Added, MarkXNZVC) = Alter(e.s, w, "d", x, e.v, Added, MarkXNZVC)
      /\ Er(s, w, m, x, y, Subtracted, MarkXNZVC) = Alter(e.s, w, "d", x, e.v, Subtracted, MarkXNZVC)
      /\ Er(s, w, m, x, y, Anded, MarkNZVC) = Alter(e.s, w, "d", x, e.v, Anded, MarkNZVC)
      /\ Er(s, w, m, x, y, Ored, MarkNZVC) = Alter(e.s, w, "d", x, e.v, Ored, MarkNZVC)
  BY DEF Er, Then
<1>2. e.s \in States /\ e.v \in Int /\ Steady(s, e.s)
  BY OperandYields, SpanTyped DEF Yields, Steady
<1>0. "d" \in AllModes \ {"i"}
  BY DEF AllModes, DataModes
<1> HIDE DEF e
<1>3. /\ Steady(e.s, Alter(e.s, w, "d", x, e.v, Added, MarkXNZVC))
      /\ Steady(e.s, Alter(e.s, w, "d", x, e.v, Subtracted, MarkXNZVC))
      /\ Steady(e.s, Alter(e.s, w, "d", x, e.v, Anded, MarkNZVC))
      /\ Steady(e.s, Alter(e.s, w, "d", x, e.v, Ored, MarkNZVC))
  BY <1>2, <1>0, AlterArithmetic, AlterLogic
<1> QED
  BY <1>1, <1>2, <1>3, SteadyOn

(* An immediate operand and the one at m.                                  *)
LEMMA ImSteady ==
    ASSUME NEW s \in States, NEW w \in Width, NEW m \in AllModes \ {"i"}, NEW y \in Reg
    PROVE  /\ Steady(s, Im(s, w, m, y, Added, MarkXNZVC))
           /\ Steady(s, Im(s, w, m, y, Subtracted, MarkXNZVC))
           /\ Steady(s, Im(s, w, m, y, Anded, MarkNZVC))
           /\ Steady(s, Im(s, w, m, y, Ored, MarkNZVC))
           /\ Steady(s, Im(s, w, m, y, Eored, MarkNZVC))
<1> DEFINE e == Immediate(s, w)
<1>1. /\ Im(s, w, m, y, Added, MarkXNZVC) = Alter(e.s, w, m, y, e.v, Added, MarkXNZVC)
      /\ Im(s, w, m, y, Subtracted, MarkXNZVC) = Alter(e.s, w, m, y, e.v, Subtracted, MarkXNZVC)
      /\ Im(s, w, m, y, Anded, MarkNZVC) = Alter(e.s, w, m, y, e.v, Anded, MarkNZVC)
      /\ Im(s, w, m, y, Ored, MarkNZVC) = Alter(e.s, w, m, y, e.v, Ored, MarkNZVC)
      /\ Im(s, w, m, y, Eored, MarkNZVC) = Alter(e.s, w, m, y, e.v, Eored, MarkNZVC)
  BY DEF Im, Then
<1>2. e.s \in States /\ e.v \in Int /\ Steady(s, e.s)
  BY ImmediateYields, SpanTyped DEF Yields, Steady
<1> HIDE DEF e
<1>3. /\ Steady(e.s, Alter(e.s, w, m, y, e.v, Added, MarkXNZVC))
      /\ Steady(e.s, Alter(e.s, w, m, y, e.v, Subtracted, MarkXNZVC))
      /\ Steady(e.s, Alter(e.s, w, m, y, e.v, Anded, MarkNZVC))
      /\ Steady(e.s, Alter(e.s, w, m, y, e.v, Ored, MarkNZVC))
      /\ Steady(e.s, Alter(e.s, w, m, y, e.v, Eored, MarkNZVC))
  BY <1>2, AlterArithmetic, AlterLogic
<1> QED
  BY <1>1, <1>2, <1>3, SteadyOn

(* Two operands in memory, both addresses decreasing.                      *)
LEMMA MmSteady ==
    ASSUME NEW s \in States, NEW w \in Width, NEW x \in Reg, NEW y \in Reg
    PROVE  /\ Steady(s, Mm(s, w, x, y, Addx, MarkChain))
           /\ Steady(s, Mm(s, w, x, y, Subx, MarkChain))
           /\ Steady(s, Mm(s, w, x, y, Abcd, MarkChain))
           /\ Steady(s, Mm(s, w, x, y, Sbcd, MarkChain))
<1> DEFINE e == Operand(s, w, "pd", y)
<1>1. /\ Mm(s, w, x, y, Addx, MarkChain) = Alter(e.s, w, "pd", x, e.v, Addx, MarkChain)
      /\ Mm(s, w, x, y, Subx, MarkChain) = Alter(e.s, w, "pd", x, e.v, Subx, MarkChain)
      /\ Mm(s, w, x, y, Abcd, MarkChain) = Alter(e.s, w, "pd", x, e.v, Abcd, MarkChain)
      /\ Mm(s, w, x, y, Sbcd, MarkChain) = Alter(e.s, w, "pd", x, e.v, Sbcd, MarkChain)
  BY DEF Mm, Then
<1>0. "pd" \in AllModes \ {"i"}
  BY DEF AllModes, DataModes, Memory, Alterable
<1>2. e.s \in States /\ e.v \in Int /\ Steady(s, e.s)
  BY <1>0, OperandYields, SpanTyped DEF Yields, Steady
<1> HIDE DEF e
<1>3. /\ Steady(e.s, Alter(e.s, w, "pd", x, e.v, Addx, MarkChain))
      /\ Steady(e.s, Alter(e.s, w, "pd", x, e.v, Subx, MarkChain))
      /\ Steady(e.s, Alter(e.s, w, "pd", x, e.v, Abcd, MarkChain))
      /\ Steady(e.s, Alter(e.s, w, "pd", x, e.v, Sbcd, MarkChain))
  BY <1>2, <1>0, AlterArithmetic
<1> QED
  BY <1>1, <1>2, <1>3, SteadyOn

(* The operand at m with a register.                                       *)
LEMMA ReSteady ==
    ASSUME NEW s \in States, NEW w \in Width, NEW m \in AllModes \ {"i"},
           NEW x \in Reg, NEW y \in Reg
    PROVE  /\ Steady(s, Re(s, w, m, x, y, Added, MarkXNZVC))
           /\ Steady(s, Re(s, w, m, x, y, Subtracted, MarkXNZVC))
           /\ Steady(s, Re(s, w, m, x, y, Anded, MarkNZVC))
           /\ Steady(s, Re(s, w, m, x, y, Ored, MarkNZVC))
           /\ Steady(s, Re(s, w, m, x, y, Eored, MarkNZVC))
<1>1. Low(w, s.dar[x]) \in Int
  BY Fields
<1> QED
  BY <1>1, AlterArithmetic, AlterLogic DEF Re

(* Flags from an operand that stays.                                       *)
LEMMA LookSteady ==
    ASSUME NEW s \in States, NEW w \in Width, NEW m \in AllModes, NEW y \in Reg, NEW src \in Int
    PROVE  /\ Steady(s, Look(s, w, m, y, src, Subtracted, MarkNZVC))
           /\ Steady(s, Look(s, w, m, y, src, Kept, MarkNZVC))
<1> DEFINE e == Operand(s, w, m, y)
           x == Flag(s.x)
<1>1. /\ Look(s, w, m, y, src, Subtracted, MarkNZVC) = MarkNZVC(e.s, Subtracted(w, src, e.v, x))
      /\ Look(s, w, m, y, src, Kept, MarkNZVC) = MarkNZVC(e.s, Kept(w, src, e.v, x))
  BY DEF Look, Then
<1>2. e.s \in States /\ e.v \in Int /\ Steady(s, e.s) /\ x \in {0, 1}
  BY OperandYields, SpanTyped, FlagTyped DEF Yields, Steady
<1> HIDE DEF e, x
<1>3. Left(Subtracted(w, src, e.v, x)) /\ Left(Kept(w, src, e.v, x))
  BY <1>2, ArithmeticLeft, LogicLeft
<1> QED
  BY <1>1, <1>2, <1>3, MarkSteady, SteadyOn

(* Testing a bit is steady.                                                *)
LEMMA TestBitSteady ==
    ASSUME NEW s \in States, NEW w \in Width, NEW m \in AllModes, NEW y \in Reg, NEW n
    PROVE  Steady(s, TestBit(s, w, m, y, n))
<1> DEFINE e == Operand(s, w, m, y)
           z == BitOf(e.v, n % Bits(w)) = 0
<1>1. TestBit(s, w, m, y, n) = [e.s EXCEPT !.z = z]
  BY DEF TestBit, Then
<1>2. e.s \in States /\ Steady(s, e.s)
  BY OperandYields DEF Yields, Steady
<1>3. z \in BOOLEAN
  OBVIOUS
<1> HIDE DEF e, z
<1> QED
  BY <1>1, <1>2, <1>3, FlagSteady, SteadyOn

(* Shifts by a count that may be zero.                                     *)
LEMMA CountedSteady ==
    ASSUME NEW s \in States, NEW w \in Width, NEW k \in Nat, NEW y \in Reg, NEW c \in BOOLEAN
    PROVE  /\ Steady(s, ByCount(s, w, k, y, c, Asl, MarkXNZVC))
           /\ Steady(s, ByCount(s, w, k, y, c, Asr, MarkXNZVC))
           /\ Steady(s, ByCount(s, w, k, y, c, Lsl, MarkXNZVC))
           /\ Steady(s, ByCount(s, w, k, y, c, Lsr, MarkXNZVC))
           /\ Steady(s, ByCount(s, w, k, y, c, Rol, MarkNZVC))
           /\ Steady(s, ByCount(s, w, k, y, c, Ror, MarkNZVC))
           /\ Steady(s, ByCount(s, w, k, y, c, Roxl, MarkXNZVC))
           /\ Steady(s, ByCount(s, w, k, y, c, Roxr, MarkXNZVC))
<1> DEFINE o == Plain(w, Low(w, s.dar[y]))
           p == [o EXCEPT !.c = c]
<1>1. Steady(s, MarkNZVC(s, p))
  <2>1. Left(o)
    <3>1. Low(w, s.dar[y]) \in Int
      BY Fields
    <3> QED
      BY <3>1, PlainLeft
  <2>2. Left(p)
    BY <2>1 DEF Left, Plain, Outcome
  <2> HIDE DEF p
  <2> QED
    BY <2>2, MarkSteady
<1>2. "d" \in AllModes \ {"i"}
  BY DEF AllModes, DataModes
<1>3. CASE k = 0
  BY <1>1, <1>3 DEF ByCount
<1>4. CASE k # 0
  <2>1. k > 0
    BY <1>4
  <2> QED
    BY <1>2, <1>4, <2>1, AlterShift DEF ByCount
<1> QED
  BY <1>3, <1>4

(* Shifts by the number in a register are steady.                          *)
LEMMA ByRegisterSteady ==
    ASSUME NEW s \in States, NEW w \in Width, NEW x \in Reg, NEW y \in Reg
    PROVE  /\ Steady(s, ByRegister(s, w, x, y, Asl, MarkXNZVC))
           /\ Steady(s, ByRegister(s, w, x, y, Asr, MarkXNZVC))
           /\ Steady(s, ByRegister(s, w, x, y, Lsl, MarkXNZVC))
           /\ Steady(s, ByRegister(s, w, x, y, Lsr, MarkXNZVC))
           /\ Steady(s, ByRegister(s, w, x, y, Rol, MarkNZVC))
           /\ Steady(s, ByRegister(s, w, x, y, Ror, MarkNZVC))
           /\ Steady(s, ExtendedByRegister(s, w, x, y, Roxl, MarkXNZVC))
           /\ Steady(s, ExtendedByRegister(s, w, x, y, Roxr, MarkXNZVC))
<1> DEFINE k == s.dar[x] % (8 * ByteBits)
<1>1. k \in Nat
  <2>1. 8 * ByteBits \in Nat /\ 8 * ByteBits > 0
    BY WidthAssumption
  <2>2. s.dar[x] \in Int
    BY RegisterTyped, Kinds
  <2> QED
    BY <2>1, <2>2
<1>2. s.x \in BOOLEAN /\ FALSE \in BOOLEAN
  BY DEF States
<1> HIDE DEF k
<1> QED
  BY <1>1, <1>2, CountedSteady DEF ByRegister, ExtendedByRegister, k

(* One thing after another.                                                *)
LEMMA Onward ==
    ASSUME NEW s, NEW e, NEW V, Yields(s, e, V)
    PROVE  /\ e.s \in States /\ e.v \in V /\ Steady(s, e.s)
           /\ \A u : Steady(e.s, u) => Steady(s, u)
BY SteadyOn DEF Yields, Steady

(* Control transfer.                                                       *)
LEMMA BranchSteady ==
    ASSUME NEW s \in States
    PROVE  /\ \A d \in Int : Steady(s, Branch8(s, d))
           /\ Steady(s, Branch16(s)) /\ Steady(s, SkipWord(s))
           /\ Steady(s, Idle(s))
<1>1. s.pc \in Int
  BY PcTyped
<1>2. ASSUME NEW d \in Int PROVE Steady(s, Branch8(s, d))
  <2>1. Signed(Byte, d) \in Int
    BY Cuts, Kinds
  <2>2. s.pc + Signed(Byte, d) \in Int
    BY <1>1, <2>1
  <2> QED
    BY <2>2, SetPcSteady DEF Branch8
<1>3. Steady(s, Branch16(s))
  <2>1. Read16(s, s.pc) \in Int
    BY <1>1, ReadTyped, SpanTyped, Kinds
  <2>2. Signed(Word, Read16(s, s.pc)) \in Int
    BY <2>1, Cuts, Kinds
  <2>3. s.pc + Signed(Word, Read16(s, s.pc)) \in Int
    BY <1>1, <2>2
  <2> QED
    BY <2>3, SetPcSteady DEF Branch16
<1>4. Steady(s, SkipWord(s))
  <2>1. s.pc + 2 \in Int
    BY <1>1
  <2> QED
    BY <2>1, SetPcSteady DEF SkipWord
<1>5. Steady(s, Idle(s))
  <2>1. Steady(s, [s EXCEPT !.left = 0])
    BY DEF Steady, States
  <2> QED
    BY <2>1, SteadyIs DEF Idle
<1> QED
  BY <1>2, <1>3, <1>4, <1>5

(* DBcc is steady, whether it loops or falls through.                      *)
LEMMA CountDownSteady ==
    ASSUME NEW s \in States, NEW cond, NEW y \in Reg
    PROVE  Steady(s, CountDown(s, cond, y))
<1> DEFINE t == SetLow(s, Word, y, s.dar[y] - 1)
<1>1. Steady(s, t)
  <2>1. s.dar[y] - 1 \in Int /\ y \in 0 .. 15
    BY Fields, Kinds
  <2> QED
    BY <2>1, SetLowSteady, Kinds
<1>2. t \in States
  BY <1>1 DEF Steady
<1>3. CountDown(s, cond, y) = IF Holds(cond, s) THEN SkipWord(s)
        ELSE IF Low(Word, t.dar[y]) = Span(Word) - 1 THEN SkipWord(t) ELSE Branch16(t)
  BY DEF CountDown, Counted
<1> HIDE DEF t
<1>4. Steady(s, SkipWord(s)) /\ Steady(s, SkipWord(t)) /\ Steady(s, Branch16(t))
  BY <1>1, <1>2, BranchSteady, SteadyOn
<1> QED
  BY <1>3, <1>4

(* The stack.                                                              *)
LEMMA PushSteady ==
    ASSUME NEW s \in States, NEW v \in Int
    PROVE  Steady(s, Push16(s, v)) /\ Steady(s, Push32(s, v))
<1>1. s.dar[SP] \in Int
  BY RegisterTyped, Kinds
<1>2. ASSUME NEW d \in Int, NEW w \in Width, NEW t, t = Set(s, SP, s.dar[SP] - d)
      PROVE  Steady(s, OnTop(t, w, v))
  <2>1. s.dar[SP] - d \in Int
    BY <1>1
  <2>2. Steady(s, t)
    BY <1>2, <2>1, SetSteady, Kinds
  <2>3. t \in States /\ t.dar[SP] \in Int
    BY <2>2, RegisterTyped, Kinds DEF Steady
  <2>4. Steady(t, OnTop(t, w, v))
    BY <2>3, WriteSteady DEF OnTop
  <2> QED
    BY <2>2, <2>4, SteadyOn
<1> QED
  BY <1>2, Kinds DEF Push16, Push32

(* Taking a word or a long from the stack is steady.                       *)
LEMMA PullYields ==
    ASSUME NEW s \in States
    PROVE  Yields(s, Pull16(s), Values(Word)) /\ Yields(s, Pull32(s), Values(Long))
<1>1. s.dar[SP] \in Int
  BY RegisterTyped, Kinds
<1>2. s.dar[SP] + 2 \in Int /\ s.dar[SP] + 4 \in Int
  BY <1>1
<1>3. Steady(s, Set(s, SP, s.dar[SP] + 2)) /\ Steady(s, Set(s, SP, s.dar[SP] + 4))
  BY <1>2, SetSteady, Kinds
<1>4. Read16(s, s.dar[SP]) \in Values(Word) /\ Read32(s, s.dar[SP]) \in Values(Long)
  BY <1>1, ReadTyped
<1> QED
  BY <1>3, <1>4, WithYields DEF Pull16, Pull32

(* A return is steady.                                                     *)
LEMMA ReturnSteady ==
    ASSUME NEW s \in States
    PROVE  Steady(s, Return(s))
<1> DEFINE e == Pull32(s)
<1>1. Return(s) = SetPc(e.s, e.v)
  BY DEF Return, Then, Jump
<1>2. Yields(s, e, Values(Long))
  BY PullYields
<1> HIDE DEF e
<1>3. e.v \in Int /\ e.s \in States
  BY <1>2, Onward, SpanTyped, Kinds
<1> QED
  BY <1>1, <1>2, <1>3, Onward, SetPcSteady

(* Making room in a stack frame is steady.                                 *)
LEMMA FrameSteady ==
    ASSUME NEW s \in States
    PROVE  Steady(s, Frame(s))
<1> DEFINE e == Imm16(s)
           v == e.s.dar[SP] + Signed(Word, e.v)
<1>1. Frame(s) = Set(e.s, SP, v)
  BY DEF Frame, Then
<1>2. Yields(s, e, Values(Word))
  BY ImmediateYields
<1> HIDE DEF e
<1>3. e.v \in Int /\ e.s \in States
  BY <1>2, Onward, SpanTyped, Kinds
<1>4. v \in Int
  <2>1. e.s.dar[SP] \in Int
    BY <1>3, RegisterTyped, Kinds
  <2>2. Signed(Word, e.v) \in Int
    BY <1>3, Cuts, Kinds
  <2> QED
    BY <2>1, <2>2
<1> HIDE DEF v
<1> QED
  BY <1>1, <1>2, <1>3, <1>4, Onward, SetSteady, Kinds

(* Writing the condition codes touches nothing else of the status          *)
(* register.                                                               *)
LEMMA SetCcrSteady ==
    ASSUME NEW s \in States, NEW v
    PROVE  Steady(s, SetCcr(s, v))
<1> DEFINE b(i) == BitOf(v, i) = 1
<1>1. b(0) \in BOOLEAN /\ b(1) \in BOOLEAN /\ b(2) \in BOOLEAN /\ b(3) \in BOOLEAN /\ b(4) \in BOOLEAN
  OBVIOUS
<1>2. SetCcr(s, v) = [s EXCEPT !.x = b(4), !.n = b(3), !.z = b(2), !.v = b(1), !.c = b(0)]
  BY DEF SetCcr
<1> HIDE DEF b
<1> QED
  BY <1>1, <1>2 DEF Steady, States

(* Nor does a logic operation on them.                                     *)
LEMMA ToCcrSteady ==
    ASSUME NEW s \in States
    PROVE  Steady(s, ToCcr(s, And)) /\ Steady(s, ToCcr(s, Or)) /\ Steady(s, ToCcr(s, Xor))
<1> DEFINE e == Imm16(s)
<1>1. /\ ToCcr(s, And) = SetCcr(e.s, And(Word, Ccr(s), e.v))
      /\ ToCcr(s, Or) = SetCcr(e.s, Or(Word, Ccr(s), e.v))
      /\ ToCcr(s, Xor) = SetCcr(e.s, Xor(Word, Ccr(s), e.v))
  BY DEF ToCcr, Then
<1>2. Yields(s, e, Values(Word))
  BY ImmediateYields
<1> HIDE DEF e
<1> QED
  BY <1>1, <1>2, Onward, SetCcrSteady

-----------------------------------------------------------------------------
(* Moves, comparisons, products and quotients.                             *)

(* Cutting a number to a width and extending it.                           *)
LEMMA Whole ==
    ASSUME NEW w \in Width, NEW v \in Int
    PROVE  Low(w, v) \in Int /\ Signed(w, v) \in Int /\ Extend(w, v) \in Int
<1>1. Low(w, v) \in Int /\ Signed(w, v) \in Int
  BY Cuts
<1>2. Low(Long, Signed(w, v)) \in Int
  BY <1>1, Cuts, Kinds
<1> QED
  BY <1>1, <1>2 DEF Extend

(* An operand and what is left to do after it.                             *)
LEMMA Operands ==
    ASSUME NEW s \in States, NEW w \in Width, NEW m \in AllModes, NEW y \in Reg
    PROVE  LET e == Operand(s, w, m, y)
           IN  /\ e.s \in States /\ e.v \in Values(w) /\ e.v \in Int
               /\ \A u : Steady(e.s, u) => Steady(s, u)
BY OperandYields, SpanTyped, Onward

(* The modes the handlers name themselves.                                 *)
LEMMA Modes ==
    /\ "d" \in AllModes \ {"i"} /\ "pd" \in AllModes \ {"i"} /\ "pi" \in AllModes \ {"i"}
    /\ DataModes \subseteq AllModes /\ Memory \subseteq AllModes
    /\ Alterable \subseteq AllModes \ {"i"} /\ DataAlterable \subseteq AllModes \ {"i"}
    /\ Control \subseteq Memory
BY DEF AllModes, DataModes, Memory, Alterable, DataAlterable, Control

(* MOVE between any two modes is steady.                                   *)
LEMMA MoveSteady ==
    ASSUME NEW s \in States, NEW w \in Width, NEW to \in AllModes \ {"i"},
           NEW m \in AllModes, NEW x \in Reg, NEW y \in Reg
    PROVE  Steady(s, Move(s, w, to, m, x, y))
<1> DEFINE e == Operand(s, w, m, y)
<1>1. Move(s, w, to, m, x, y) = Alter(e.s, w, to, x, e.v, Source, MarkNZVC)
  BY DEF Move, Then
<1>2. e.s \in States /\ e.v \in Int /\ \A u : Steady(e.s, u) => Steady(s, u)
  BY Operands
<1> HIDE DEF e
<1> QED
  BY <1>1, <1>2, AlterLogic

(* ADDA and SUBA are steady.                                               *)
LEMMA AddToSteady ==
    ASSUME NEW s \in States, NEW w \in Width, NEW m \in AllModes,
           NEW x \in Reg, NEW y \in Reg, NEW sign \in Int
    PROVE  Steady(s, AddTo(s, w, m, x, y, sign))
<1> DEFINE e == Operand(s, w, m, y)
           v == e.s.dar[A(x)] + sign * Signed(w, e.v)
<1>1. AddTo(s, w, m, x, y, sign) = Set(e.s, A(x), v)
  BY DEF AddTo, Then
<1>2. e.s \in States /\ e.v \in Int /\ \A u : Steady(e.s, u) => Steady(s, u)
  BY Operands
<1> HIDE DEF e
<1>3. v \in Int
  <2>1. e.s.dar[A(x)] \in Int
    BY <1>2, Fields
  <2>2. Signed(w, e.v) \in Int
    BY <1>2, Cuts
  <2> QED
    BY <2>1, <2>2
<1>4. A(x) \in 0 .. 15
  BY Kinds
<1> HIDE DEF v
<1> QED
  BY <1>1, <1>2, <1>3, <1>4, SetSteady

(* MOVEA is steady.                                                        *)
LEMMA MoveAddressSteady ==
    ASSUME NEW s \in States, NEW m \in AllModes, NEW x \in Reg, NEW y \in Reg
    PROVE  Steady(s, movea_16(s, m, x, y)) /\ Steady(s, movea_32(s, m, x, y))
<1> DEFINE e == Operand(s, Word, m, y)
           f == Operand(s, Long, m, y)
<1>1. /\ movea_16(s, m, x, y) = Set(e.s, A(x), Extend(Word, e.v))
      /\ movea_32(s, m, x, y) = Set(f.s, A(x), f.v)
  BY DEF movea_16, movea_32, Then
<1>2. /\ e.s \in States /\ e.v \in Int /\ \A u : Steady(e.s, u) => Steady(s, u)
      /\ f.s \in States /\ f.v \in Int /\ \A u : Steady(f.s, u) => Steady(s, u)
  BY Operands, Kinds
<1> HIDE DEF e, f
<1>3. Extend(Word, e.v) \in Int
  BY <1>2, Whole, Kinds
<1>4. A(x) \in 0 .. 15
  BY Kinds
<1> QED
  BY <1>1, <1>2, <1>3, <1>4, SetSteady

(* CMP and CMPA are steady.                                                *)
LEMMA CompareSteady ==
    ASSUME NEW s \in States, NEW w \in Width, NEW m \in AllModes, NEW y \in Reg,
           NEW r \in 0 .. 15
    PROVE  Steady(s, Compare(s, w, m, y, r)) /\ Steady(s, CompareAddress(s, w, m, y, r))
<1> DEFINE e == Operand(s, w, m, y)
           o == Difference(w, e.v, Low(w, e.s.dar[r]), 0)
           p == Difference(Long, Extend(w, e.v), e.s.dar[r], 0)
<1>1. /\ Compare(s, w, m, y, r) = MarkNZVC(e.s, o)
      /\ CompareAddress(s, w, m, y, r) = MarkNZVC(e.s, p)
  BY DEF Compare, CompareAddress, Then
<1>2. e.s \in States /\ e.v \in Int /\ \A u : Steady(e.s, u) => Steady(s, u)
  BY Operands
<1> HIDE DEF e, o, p
<1>3. e.s.dar[r] \in Int
  BY <1>2, RegisterTyped
<1>4. Low(w, e.s.dar[r]) \in Int /\ Extend(w, e.v) \in Int
  BY <1>2, <1>3, Whole
<1>5. ASSUME NEW l \in Width, NEW a \in Int, NEW b \in Int
      PROVE  Left(Difference(l, a, b, 0))
  <2> DEFINE x == 0
  <2>1. x \in {0, 1}
    OBVIOUS
  <2> HIDE DEF x
  <2>2. Left(Difference(l, a, b, x))
    BY <2>1, CalculationsLeft
  <2> QED
    BY <2>2 DEF x
<1>6. Left(o) /\ Left(p)
  BY <1>2, <1>3, <1>4, <1>5, Kinds DEF o, p
<1> QED
  BY <1>1, <1>2, <1>6, MarkSteady

(* CMPM is steady.                                                         *)
LEMMA CompareMemorySteady ==
    ASSUME NEW s \in States, NEW w \in Width, NEW x \in Reg, NEW y \in Reg
    PROVE  Steady(s, CompareMemory(s, w, x, y))
<1> DEFINE e == Operand(s, w, "pi", y)
<1>1. CompareMemory(s, w, x, y) = Look(e.s, w, "pi", x, e.v, Subtracted, MarkNZVC)
  BY DEF CompareMemory, Then
<1>2. e.s \in States /\ e.v \in Int /\ \A u : Steady(e.s, u) => Steady(s, u)
  BY Operands, Modes
<1> HIDE DEF e
<1> QED
  BY <1>1, <1>2, LookSteady, Modes

(* CMPI is steady.                                                         *)
LEMMA CompareImmediateSteady ==
    ASSUME NEW s \in States, NEW m \in DataAlterable, NEW y \in Reg
    PROVE  Steady(s, cmpi_8(s, m, y)) /\ Steady(s, cmpi_16(s, m, y)) /\ Steady(s, cmpi_32(s, m, y))
<1>1. ASSUME NEW w \in Width, NEW e, e = Immediate(s, w)
      PROVE  Steady(s, Look(e.s, w, m, y, e.v, Subtracted, MarkNZVC))
  <2>1. Yields(s, e, Values(w))
    BY <1>1, ImmediateYields
  <2>2. e.s \in States /\ e.v \in Int /\ \A u : Steady(e.s, u) => Steady(s, u)
    BY <2>1, Onward, SpanTyped
  <2>3. m \in AllModes
    BY Modes
  <2> QED
    BY <2>2, <2>3, LookSteady
<1> QED
  BY <1>1, Kinds DEF cmpi_8, cmpi_16, cmpi_32, Then

(* EXG is steady.                                                          *)
LEMMA ExchangeSteady ==
    ASSUME NEW s \in States, NEW i \in 0 .. 15, NEW j \in 0 .. 15
    PROVE  Steady(s, Exchange(s, i, j))
<1>1. s.dar[i] \in Values(Long) /\ s.dar[j] \in Values(Long)
  BY RegisterTyped
<1> QED
  BY <1>1 DEF Steady, Exchange, States

(* MULS and MULU are steady.                                               *)
LEMMA MultiplySteady ==
    ASSUME NEW s \in States, NEW m \in AllModes, NEW x \in Reg, NEW y \in Reg
    PROVE  Steady(s, Multiply(s, m, x, y, Signed)) /\ Steady(s, Multiply(s, m, x, y, Low))
<1> DEFINE e == Operand(s, Word, m, y)
           p == Low(Long, Signed(Word, e.v) * Signed(Word, s.dar[x]))
           q == Low(Long, Low(Word, e.v) * Low(Word, s.dar[x]))
<1>1. /\ Multiply(s, m, x, y, Signed) = Product(e.s, x, p)
      /\ Multiply(s, m, x, y, Low) = Product(e.s, x, q)
  BY DEF Multiply, Then
<1>2. e.s \in States /\ e.v \in Int /\ \A u : Steady(e.s, u) => Steady(s, u)
  BY Operands, Kinds
<1> HIDE DEF e
<1>3. p \in Int /\ q \in Int
  <2>1. /\ Signed(Word, e.v) \in Int /\ Signed(Word, s.dar[x]) \in Int
        /\ Low(Word, e.v) \in Int /\ Low(Word, s.dar[x]) \in Int
    <3>1. s.dar[x] \in Int
      BY Fields
    <3> HIDE DEF p, q
    <3> QED
      BY <1>2, <3>1, Whole, Kinds
  <2>2. /\ Signed(Word, e.v) * Signed(Word, s.dar[x]) \in Int
        /\ Low(Word, e.v) * Low(Word, s.dar[x]) \in Int
    BY <2>1
  <2> QED
    BY <2>2, Cuts, Kinds
<1> HIDE DEF p, q
<1>4. ASSUME NEW v \in Int PROVE Steady(e.s, Product(e.s, x, v))
  <2> DEFINE t == Set(e.s, x, v)
  <2>1. Steady(e.s, t)
    BY <1>2, Kinds, SetSteady
  <2>2. Left(Plain(Long, v))
    BY PlainLeft, Kinds
  <2>3. t \in States
    BY <2>1 DEF Steady
  <2> HIDE DEF t
  <2>4. Steady(t, MarkNZVC(t, Plain(Long, v)))
    BY <2>2, <2>3, MarkSteady
  <2> QED
    BY <2>1, <2>4, SteadyOn DEF Product, t
<1> QED
  BY <1>1, <1>2, <1>3, <1>4

(* The quotient and the remainder in the halves of the register.           *)
LEMMA DividedSteady ==
    ASSUME NEW s \in States, NEW x \in Reg, NEW d, d.q \in Int, d.r \in Int, NEW fits
    PROVE  Steady(s, Divided(s, x, d, fits))
<1> DEFINE v == Low(Word, d.r) * Span(Word) + Low(Word, d.q)
           o == Plain(Word, Low(Word, d.q))
           t == Set(s, x, v)
<1>1. Low(Word, d.r) \in Int /\ Low(Word, d.q) \in Int /\ Span(Word) \in Int
  <2>1. ASSUME NEW k \in Int PROVE Low(Word, k) \in Int
    BY Whole, Kinds
  <2>2. Span(Word) \in Int
    BY Kinds, SpanTyped
  <2> QED
    BY <2>1, <2>2
<1>2. v \in Int
  BY <1>1
<1>3. Left(o)
  BY <1>1, Kinds, PlainLeft
<1>4. Divided(s, x, d, fits) = IF fits THEN MarkNZVC(t, o) ELSE [s EXCEPT !.v = TRUE]
  BY DEF Divided
<1> HIDE DEF v, o
<1>5. Steady(s, t)
  BY <1>2, Kinds, SetSteady
<1>6. t \in States
  BY <1>5 DEF Steady
<1> HIDE DEF t
<1>7. Steady(s, MarkNZVC(t, o))
  BY <1>3, <1>5, <1>6, MarkSteady, SteadyOn
<1>8. Steady(s, [s EXCEPT !.v = TRUE])
  BY FlagSteady
<1> QED
  BY <1>4, <1>7, <1>8

(* Division of whole numbers, the divisor not zero.                        *)
LEMMA Quotients ==
    ASSUME NEW dst \in Int, NEW v \in Values(Word), v # 0
    PROVE  /\ DivideUnsigned(dst, v).q \in Int /\ DivideUnsigned(dst, v).r \in Int
           /\ DivideSigned(dst, v).q \in Int /\ DivideSigned(dst, v).r \in Int
<1>1. v \in Nat /\ v > 0 /\ v < Span(Word) /\ Span(Word) \in Nat
  BY Spans, Kinds DEF Values
<1>2. DivideUnsigned(dst, v).q \in Int /\ DivideUnsigned(dst, v).r \in Int
  <2>1. dst \div v \in Int /\ dst % v \in Int
    BY <1>1, DivisionAlgorithm
  <2> QED
    BY <2>1 DEF DivideUnsigned
<1> DEFINE a == Signed(Long, dst)
           b == Signed(Word, v)
<1>3. a \in Int /\ b \in Int
  BY <1>1, Cuts, Kinds
<1>4. b # 0
  <2>1. Low(Word, v) = v
    <3>1. v % Span(Word) = v
      BY <1>1
    <3> QED
      BY <3>1 DEF Low
  <2>2. b = v \/ b = v - Span(Word)
    BY <2>1, <1>1 DEF Signed
  <2> HIDE DEF b
  <2> QED
    BY <2>2, <1>1
<1>5. DivideSigned(dst, v) = Division(a, b)
  BY DEF DivideSigned
<1> HIDE DEF a, b
<1>6. Quotient(a, b) \in Int
  <2>1. Magnitude(a) \in Nat /\ Magnitude(b) \in Nat /\ Magnitude(b) > 0
    BY <1>3, <1>4 DEF Magnitude
  <2>2. Magnitude(a) \div Magnitude(b) \in Int
    BY <2>1, DivisionAlgorithm
  <2> QED
    BY <2>2 DEF Quotient
<1>7. Division(a, b).q \in Int /\ Division(a, b).r \in Int
  <2>1. Quotient(a, b) * b \in Int
    BY <1>3, <1>6
  <2>2. a - Quotient(a, b) * b \in Int
    BY <1>3, <2>1
  <2> QED
    BY <1>6, <2>2 DEF Division
<1> QED
  BY <1>2, <1>5, <1>7

(* NBCD is steady.                                                         *)
LEMMA DecimalNegationSteady ==
    ASSUME NEW s \in States, NEW m \in AllModes \ {"i"}, NEW y \in Reg
    PROVE  Steady(s, nbcd_8(s, m, y))
<1> DEFINE e == Place(s, Byte, m, y)
           o == BcdNegation(Contents(e.s, Byte, e.v), Flag(s.x))
           t == MarkXNZVC(e.s, o)
<1>1. nbcd_8(s, m, y) = IF o.r = Low(Byte, NoBorrow) THEN [t EXCEPT !.z = e.s.z]
                        ELSE MarkChain(Store(e.s, Byte, e.v, o.r), o)
  BY DEF nbcd_8, Undone, Then
<1>2. e.s \in States /\ Contents(e.s, Byte, e.v) \in Int
  BY Altered, Kinds
<1>3. Left(o)
  <2> DEFINE c == Contents(e.s, Byte, e.v)
             x == Flag(s.x)
  <2>1. c \in Int /\ x \in {0, 1}
    BY <1>2, FlagTyped
  <2>2. o = BcdNegation(c, x)
    OBVIOUS
  <2> HIDE DEF o, c, x
  <2> QED
    BY <2>1, <2>2, DecimalLeft
<1> HIDE DEF o
<1>4. Steady(s, MarkChain(Store(e.s, Byte, e.v, o.r), o))
  BY <1>3, Altered, Kinds
<1>5. Steady(s, e.s)
  BY PlaceYields, Kinds DEF Yields
<1> HIDE DEF e
<1>6. Steady(e.s, t)
  BY <1>2, <1>3, MarkSteady
<1>10. t \in States
  BY <1>6 DEF Steady
<1>7. e.s.z \in BOOLEAN
  BY <1>2 DEF States
<1> HIDE DEF t
<1>8. Steady(t, [t EXCEPT !.z = e.s.z])
  BY <1>10, <1>7, FlagSteady
<1>9. Steady(s, [t EXCEPT !.z = e.s.z])
  BY <1>5, <1>6, <1>8, SteadyOn
<1> QED
  BY <1>1, <1>4, <1>9

(* Scc is steady.                                                          *)
LEMMA SetIfSteady ==
    ASSUME NEW s \in States, NEW cond, NEW m \in AllModes \ {"i"}, NEW y \in Reg
    PROVE  Steady(s, SetIf(s, cond, m, y))
<1> DEFINE v == IF Holds(cond, s) THEN Radix - 1 ELSE 0
<1>1. v \in Int
  BY WidthAssumption
<1>2. SetIf(s, cond, m, y) = Alter(s, Byte, m, y, v, Source, Unmarked)
  BY DEF SetIf
<1> HIDE DEF v
<1> QED
  BY <1>1, <1>2, Kinds, AlterLogic

(* The numbers that opcodes hold.                                          *)
LEMMA InOpcodeFields ==
    ASSUME NEW x \in Reg
    PROVE  /\ Quick(x) \in Int /\ Quick(x) \in Nat
           /\ Count(x) \in Nat /\ Count(x) > 0
BY WidthAssumption DEF Quick, Count, Reg

(* The status register is a word.                                          *)
LEMMA StatusNumber ==
    ASSUME NEW s \in States
    PROVE  Sr(s) \in Nat /\ Ccr(s) \in 0 .. 31
<1>1. Ccr(s) \in 0 .. 31
  BY DEF Ccr, Flag
<1>2. Top16 \in Nat
  <2>1. Bits(Word) - 1 \in Nat
    BY WordPowers
  <2> QED
    BY <2>1, Power DEF Top16
<1>3. Top16 \div 4 \in Nat
  BY <1>2
<1>4. Radix * s.mask \in Nat
  BY WidthAssumption DEF States
<1>5. Top16 * Flag(s.t) \in Nat /\ (Top16 \div 4) * Flag(s.s) \in Nat
  BY <1>2, <1>3 DEF Flag
<1> HIDE DEF Top16
<1> QED
  BY <1>1, <1>4, <1>5 DEF Sr

-----------------------------------------------------------------------------
(* Lists of registers and every second byte.                               *)

(* An address and a state reached steadily from s.                         *)
Reached(s) == {e \in [v : Int, s : States] : Steady(s, e.s)}

(* Any number goes with a state that is reached.                           *)
LEMMA ReachedBy ==
    ASSUME NEW s, NEW v \in Int, NEW t, Steady(s, t)
    PROVE  With(v, t) \in Reached(s)
BY DEF With, Reached, Steady

(* What is reached from a reached state is reached.                        *)
LEMMA ReachedFurther ==
    ASSUME NEW s, NEW e \in Reached(s)
    PROVE  /\ e.v \in Int /\ e.s \in States /\ Steady(s, e.s)
           /\ \A v \in Int : \A t : Steady(e.s, t) => With(v, t) \in Reached(s)
<1>1. e.v \in Int /\ e.s \in States /\ Steady(s, e.s)
  BY DEF Reached
<1> QED
  BY <1>1, SteadyOn, ReachedBy

(* One register of the list.                                               *)
LEMMA VisitReaches ==
    ASSUME NEW s, NEW e \in Reached(s), NEW w \in Width, NEW r \in 0 .. 15
    PROVE  /\ PutUp(e, w, r) \in Reached(s)
           /\ PutDown(e, w, r) \in Reached(s)
           /\ GetUp(e, w, r) \in Reached(s)
<1>1. e.v \in Int /\ e.s \in States /\ w \in Int
  BY ReachedFurther DEF Width, Byte, Word, Long
<1>2. e.v + w \in Int /\ e.v - w \in Int
  BY <1>1
<1>3. Low(Long, e.v + w) \in Int /\ Low(Long, e.v - w) \in Int
  BY <1>2, Whole, Kinds
<1>4. Low(w, e.s.dar[r]) \in Int
  <2>1. e.s.dar[r] \in Int
    BY <1>1, RegisterTyped
  <2> QED
    BY <2>1, Whole
<1>5. Signed(w, Read(e.s, w, e.v)) \in Int
  <2>1. Read(e.s, w, e.v) \in Int
    BY <1>1, ReadTyped, SpanTyped
  <2> QED
    BY <2>1, Whole
<1>6. PutUp(e, w, r) \in Reached(s)
  <2>1. Steady(e.s, Write(e.s, w, e.v, Low(w, e.s.dar[r])))
    BY <1>1, <1>4, WriteSteady
  <2> QED
    BY <1>3, <2>1, ReachedFurther DEF PutUp
<1>7. PutDown(e, w, r) \in Reached(s)
  <2>1. Steady(e.s, Write(e.s, w, Low(Long, e.v - w), Low(w, e.s.dar[r])))
    BY <1>1, <1>3, <1>4, WriteSteady
  <2> QED
    BY <1>3, <2>1, ReachedFurther DEF PutDown, PutAt
<1>8. GetUp(e, w, r) \in Reached(s)
  <2>1. Steady(e.s, Set(e.s, r, Signed(w, Read(e.s, w, e.v))))
    BY <1>1, <1>5, SetSteady
  <2> QED
    BY <1>3, <2>1, ReachedFurther DEF GetUp
<1> QED
  BY <1>6, <1>7, <1>8

(* The walks of MOVEM over the sixteen registers: where they end, and f[k]  *)
(* is the address and the state after the first k of them.                 *)
PutsUpAt(list, w, e) == Visited(list, e, LAMBDA d, k : PutUp(d, w, k))
PutsDownAt(list, w, e) == Visited(list, e, LAMBDA d, k : PutDown(d, w, 15 - k))
GetsUpAt(list, w, e) == Visited(list, e, LAMBDA d, k : GetUp(d, w, k))
PutsUp(f, list, w, e) ==
    /\ f[0] = e
    /\ \A k \in 1 .. 16 :
          f[k] = IF BitOf(list, k - 1) = 1 THEN PutUp(f[k - 1], w, k - 1) ELSE f[k - 1]
PutsDown(f, list, w, e) ==
    /\ f[0] = e
    /\ \A k \in 1 .. 16 :
          f[k] = IF BitOf(list, k - 1) = 1 THEN PutDown(f[k - 1], w, 15 - (k - 1))
                 ELSE f[k - 1]
GetsUp(f, list, w, e) ==
    /\ f[0] = e
    /\ \A k \in 1 .. 16 :
          f[k] = IF BitOf(list, k - 1) = 1 THEN GetUp(f[k - 1], w, k - 1) ELSE f[k - 1]

(* A list stored upwards is stored by such a walk, through states reached  *)
(* steadily: by the recursion over the sixteen registers.                   *)
LEMMA UpwardsStored ==
    ASSUME NEW s, NEW e \in Reached(s), NEW w \in Width, NEW list
    PROVE  \E f : /\ PutsUp(f, list, w, e)
                  /\ \A k \in 0 .. 16 : f[k] \in Reached(s)
                  /\ PutsUpAt(list, w, e) = f[16]
<1> DEFINE E == Reached(s)
           N == 16
           on(d, k) == IF BitOf(list, k - 1) = 1 THEN PutUp(d, w, k - 1) ELSE d
           G == [p \in E \X (1 .. N) |-> on(p[1], p[2])]
           f == CHOOSE walk : walk =
                  [k \in 0 .. 16 |-> IF k = 0 THEN e ELSE
                     IF BitOf(list, k - 1) = 1 THEN PutUp(walk[k - 1], w, k - 1) ELSE walk[k - 1]]
<1>0. N \in Nat /\ e \in E
  OBVIOUS
<1>1. PutsUpAt(list, w, e) = f[16]
  BY DEF PutsUpAt, Visited
<1>2. ASSUME NEW d \in E, NEW k \in 1 .. N PROVE on(d, k) \in E
  <2>1. k - 1 \in 0 .. 15 /\ 15 - (k - 1) \in 0 .. 15
    OBVIOUS
  <2>2. PutUp(d, w, k - 1) \in E
    BY <2>1, VisitReaches
  <2> QED
    BY <2>2
<1>3. G \in StepsOn(N, E) /\ \A d \in E, k \in 1 .. N : G[<<d, k>>] = on(d, k)
  <2> HIDE DEF E, on
  <2> QED
    BY <1>2 DEF StepsOn
<1> HIDE DEF G, on
<1>4. PICK g : Goes(g, N, E, e, G)
  <2> HIDE DEF E, N
  <2> QED
    BY <1>0, <1>3, Recursion
<1>5. /\ g \in [0 .. 16 -> E] /\ g[0] = e
      /\ \A k \in 1 .. 16 : g[k] = on(g[k - 1], k)
  <2>1. g \in [0 .. 16 -> E] /\ g[0] = e /\ \A k \in 1 .. 16 : g[k] = G[<<g[k - 1], k>>]
    BY <1>4 DEF Goes
  <2> HIDE DEF E
  <2>2. \A k \in 1 .. 16 : g[k - 1] \in E
    BY <2>1
  <2> QED
    BY <1>3, <2>1, <2>2
<1>6. g = [k \in 0 .. 16 |-> IF k = 0 THEN e ELSE on(g[k - 1], k)]
  <2>1. ASSUME NEW k \in 0 .. 16 PROVE g[k] = IF k = 0 THEN e ELSE on(g[k - 1], k)
    <3>1. k = 0 \/ k \in 1 .. 16
      OBVIOUS
    <3> QED
      BY <1>5, <3>1
  <2> HIDE DEF E
  <2> QED
    BY <1>5, <2>1
<1>7. f = [k \in 0 .. 16 |-> IF k = 0 THEN e ELSE on(f[k - 1], k)]
  BY <1>6 DEF on
<1> HIDE DEF f
<1>8. f[0] = e /\ \A k \in 1 .. 16 : f[k] = on(f[k - 1], k)
  BY <1>7
<1> DEFINE T == {k \in 0 .. 16 : f[k] \in E}
<1>9. \A k \in 0 .. 16 : k \in T
  <2> HIDE DEF E
  <2>1. 0 \in T /\ \A k \in 1 .. N : k - 1 \in T => k \in T
    BY <1>0, <1>2, <1>8
  <2> HIDE DEF T
  <2> QED
    BY <1>0, <2>1, Upwards
<1>10. \A k \in 0 .. 16 : f[k] \in Reached(s)
  BY <1>9
<1>11. PutsUp(f, list, w, e)
  BY <1>8 DEF on, PutsUp
<1> QED
  BY <1>1, <1>10, <1>11

(* So is a list stored downwards.                                           *)
LEMMA DownwardsStored ==
    ASSUME NEW s, NEW e \in Reached(s), NEW w \in Width, NEW list
    PROVE  \E f : /\ PutsDown(f, list, w, e)
                  /\ \A k \in 0 .. 16 : f[k] \in Reached(s)
                  /\ PutsDownAt(list, w, e) = f[16]
<1> DEFINE E == Reached(s)
           N == 16
           on(d, k) == IF BitOf(list, k - 1) = 1 THEN PutDown(d, w, 15 - (k - 1)) ELSE d
           G == [p \in E \X (1 .. N) |-> on(p[1], p[2])]
           f == CHOOSE walk : walk =
                  [k \in 0 .. 16 |-> IF k = 0 THEN e ELSE
                     IF BitOf(list, k - 1) = 1 THEN PutDown(walk[k - 1], w, 15 - (k - 1)) ELSE walk[k - 1]]
<1>0. N \in Nat /\ e \in E
  OBVIOUS
<1>1. PutsDownAt(list, w, e) = f[16]
  BY DEF PutsDownAt, Visited
<1>2. ASSUME NEW d \in E, NEW k \in 1 .. N PROVE on(d, k) \in E
  <2>1. k - 1 \in 0 .. 15 /\ 15 - (k - 1) \in 0 .. 15
    OBVIOUS
  <2>2. PutDown(d, w, 15 - (k - 1)) \in E
    BY <2>1, VisitReaches
  <2> QED
    BY <2>2
<1>3. G \in StepsOn(N, E) /\ \A d \in E, k \in 1 .. N : G[<<d, k>>] = on(d, k)
  <2> HIDE DEF E, on
  <2> QED
    BY <1>2 DEF StepsOn
<1> HIDE DEF G, on
<1>4. PICK g : Goes(g, N, E, e, G)
  <2> HIDE DEF E, N
  <2> QED
    BY <1>0, <1>3, Recursion
<1>5. /\ g \in [0 .. 16 -> E] /\ g[0] = e
      /\ \A k \in 1 .. 16 : g[k] = on(g[k - 1], k)
  <2>1. g \in [0 .. 16 -> E] /\ g[0] = e /\ \A k \in 1 .. 16 : g[k] = G[<<g[k - 1], k>>]
    BY <1>4 DEF Goes
  <2> HIDE DEF E
  <2>2. \A k \in 1 .. 16 : g[k - 1] \in E
    BY <2>1
  <2> QED
    BY <1>3, <2>1, <2>2
<1>6. g = [k \in 0 .. 16 |-> IF k = 0 THEN e ELSE on(g[k - 1], k)]
  <2>1. ASSUME NEW k \in 0 .. 16 PROVE g[k] = IF k = 0 THEN e ELSE on(g[k - 1], k)
    <3>1. k = 0 \/ k \in 1 .. 16
      OBVIOUS
    <3> QED
      BY <1>5, <3>1
  <2> HIDE DEF E
  <2> QED
    BY <1>5, <2>1
<1>7. f = [k \in 0 .. 16 |-> IF k = 0 THEN e ELSE on(f[k - 1], k)]
  BY <1>6 DEF on
<1> HIDE DEF f
<1>8. f[0] = e /\ \A k \in 1 .. 16 : f[k] = on(f[k - 1], k)
  BY <1>7
<1> DEFINE T == {k \in 0 .. 16 : f[k] \in E}
<1>9. \A k \in 0 .. 16 : k \in T
  <2> HIDE DEF E
  <2>1. 0 \in T /\ \A k \in 1 .. N : k - 1 \in T => k \in T
    BY <1>0, <1>2, <1>8
  <2> HIDE DEF T
  <2> QED
    BY <1>0, <2>1, Upwards
<1>10. \A k \in 0 .. 16 : f[k] \in Reached(s)
  BY <1>9
<1>11. PutsDown(f, list, w, e)
  BY <1>8 DEF on, PutsDown
<1> QED
  BY <1>1, <1>10, <1>11

(* So is a list loaded upwards.                                             *)
LEMMA UpwardsLoaded ==
    ASSUME NEW s, NEW e \in Reached(s), NEW w \in Width, NEW list
    PROVE  \E f : /\ GetsUp(f, list, w, e)
                  /\ \A k \in 0 .. 16 : f[k] \in Reached(s)
                  /\ GetsUpAt(list, w, e) = f[16]
<1> DEFINE E == Reached(s)
           N == 16
           on(d, k) == IF BitOf(list, k - 1) = 1 THEN GetUp(d, w, k - 1) ELSE d
           G == [p \in E \X (1 .. N) |-> on(p[1], p[2])]
           f == CHOOSE walk : walk =
                  [k \in 0 .. 16 |-> IF k = 0 THEN e ELSE
                     IF BitOf(list, k - 1) = 1 THEN GetUp(walk[k - 1], w, k - 1) ELSE walk[k - 1]]
<1>0. N \in Nat /\ e \in E
  OBVIOUS
<1>1. GetsUpAt(list, w, e) = f[16]
  BY DEF GetsUpAt, Visited
<1>2. ASSUME NEW d \in E, NEW k \in 1 .. N PROVE on(d, k) \in E
  <2>1. k - 1 \in 0 .. 15 /\ 15 - (k - 1) \in 0 .. 15
    OBVIOUS
  <2>2. GetUp(d, w, k - 1) \in E
    BY <2>1, VisitReaches
  <2> QED
    BY <2>2
<1>3. G \in StepsOn(N, E) /\ \A d \in E, k \in 1 .. N : G[<<d, k>>] = on(d, k)
  <2> HIDE DEF E, on
  <2> QED
    BY <1>2 DEF StepsOn
<1> HIDE DEF G, on
<1>4. PICK g : Goes(g, N, E, e, G)
  <2> HIDE DEF E, N
  <2> QED
    BY <1>0, <1>3, Recursion
<1>5. /\ g \in [0 .. 16 -> E] /\ g[0] = e
      /\ \A k \in 1 .. 16 : g[k] = on(g[k - 1], k)
  <2>1. g \in [0 .. 16 -> E] /\ g[0] = e /\ \A k \in 1 .. 16 : g[k] = G[<<g[k - 1], k>>]
    BY <1>4 DEF Goes
  <2> HIDE DEF E
  <2>2. \A k \in 1 .. 16 : g[k - 1] \in E
    BY <2>1
  <2> QED
    BY <1>3, <2>1, <2>2
<1>6. g = [k \in 0 .. 16 |-> IF k = 0 THEN e ELSE on(g[k - 1], k)]
  <2>1. ASSUME NEW k \in 0 .. 16 PROVE g[k] = IF k = 0 THEN e ELSE on(g[k - 1], k)
    <3>1. k = 0 \/ k \in 1 .. 16
      OBVIOUS
    <3> QED
      BY <1>5, <3>1
  <2> HIDE DEF E
  <2> QED
    BY <1>5, <2>1
<1>7. f = [k \in 0 .. 16 |-> IF k = 0 THEN e ELSE on(f[k - 1], k)]
  BY <1>6 DEF on
<1> HIDE DEF f
<1>8. f[0] = e /\ \A k \in 1 .. 16 : f[k] = on(f[k - 1], k)
  BY <1>7
<1> DEFINE T == {k \in 0 .. 16 : f[k] \in E}
<1>9. \A k \in 0 .. 16 : k \in T
  <2> HIDE DEF E
  <2>1. 0 \in T /\ \A k \in 1 .. N : k - 1 \in T => k \in T
    BY <1>0, <1>2, <1>8
  <2> HIDE DEF T
  <2> QED
    BY <1>0, <2>1, Upwards
<1>10. \A k \in 0 .. 16 : f[k] \in Reached(s)
  BY <1>9
<1>11. GetsUp(f, list, w, e)
  BY <1>8 DEF on, GetsUp
<1> QED
  BY <1>1, <1>10, <1>11

(* Whatever the list of registers, MOVEM ends in a state reached steadily. *)
LEMMA VisitedReaches ==
    ASSUME NEW s, NEW e \in Reached(s), NEW w \in Width, NEW list
    PROVE  /\ Visited(list, e, LAMBDA d, k : PutUp(d, w, k)) \in Reached(s)
           /\ Visited(list, e, LAMBDA d, k : PutDown(d, w, 15 - k)) \in Reached(s)
           /\ Visited(list, e, LAMBDA d, k : GetUp(d, w, k)) \in Reached(s)
<1>0. 16 \in 0 .. 16
  OBVIOUS
<1>1. Visited(list, e, LAMBDA d, k : PutUp(d, w, k)) \in Reached(s)
  BY <1>0, UpwardsStored DEF PutsUpAt
<1>2. Visited(list, e, LAMBDA d, k : PutDown(d, w, 15 - k)) \in Reached(s)
  BY <1>0, DownwardsStored DEF PutsDownAt
<1>3. Visited(list, e, LAMBDA d, k : GetUp(d, w, k)) \in Reached(s)
  BY <1>0, UpwardsLoaded DEF GetsUpAt
<1> QED
  BY <1>1, <1>2, <1>3

(* An address is a pair of a number and a state.                           *)
LEMMA EaPair ==
    ASSUME NEW s, NEW w, NEW m \in Memory, NEW y
    PROVE  \E a, t : Ea(s, w, m, y) = With(a, t)
<1> DEFINE an == s.dar[A(y)]
<1>1. Ea(s, w, m, y) = EaFrom(s, w, m, y, an)
  BY DEF Ea
<1> HIDE DEF an
<1>2. CASE m = "ai"
  BY <1>1, <1>2 DEF EaFrom
<1>3. CASE m = "pi"
  BY <1>1, <1>3 DEF EaFrom, Stepped
<1>4. CASE m = "pd"
  BY <1>1, <1>4 DEF EaFrom, Stepped
<1>5. CASE m \in {"di", "aw", "pcdi"}
  BY <1>1, <1>5 DEF EaFrom, Displaced, Then
<1>6. CASE m \in {"ix", "pcix"}
  BY <1>1, <1>6 DEF EaFrom, Indexed, Then
<1>7. CASE m = "al"
  BY <1>1, <1>7 DEF EaFrom, Imm32
<1> QED
  BY <1>2, <1>3, <1>4, <1>5, <1>6, <1>7 DEF Memory, Alterable

(* MOVEM, the registers in the list one after the other.                   *)
LEMMA MultipleSteady ==
    ASSUME NEW s \in States, NEW w \in Width, NEW y \in Reg
    PROVE  /\ Steady(s, StoreDown(s, w, y)) /\ Steady(s, LoadUp(s, w, y))
           /\ \A m \in Memory : Steady(s, StoreUp(s, w, m, y)) /\ Steady(s, LoadFrom(s, w, m, y))
<1> DEFINE i == Imm16(s)
           d == With(s.dar[A(y)], i.s)
           down == Visited(i.v, d, LAMBDA e, k : PutDown(e, w, 15 - k))
           up == Visited(i.v, d, LAMBDA e, k : GetUp(e, w, k))
<1>1. Yields(s, i, Values(Word))
  BY ImmediateYields
<1>2. StoreDown(s, w, y) = Leave(y, down) /\ LoadUp(s, w, y) = Leave(y, up)
  BY DEF StoreDown, LoadUp, Then
<1>4. ASSUME NEW m
      PROVE  /\ StoreUp(s, w, m, y)
                  = Visited(i.v, Ea(i.s, w, m, y), LAMBDA e, k : PutUp(e, w, k)).s
             /\ LoadFrom(s, w, m, y)
                  = Visited(i.v, Ea(i.s, w, m, y), LAMBDA e, k : GetUp(e, w, k)).s
  BY DEF StoreUp, LoadFrom, Then
<1>5. i.s \in States /\ Steady(s, i.s)
  <2> HIDE DEF i
  <2> QED
    BY <1>1, Onward
<1>6. d \in Reached(s)
  <2>1. s.dar[A(y)] \in Int
    BY Fields
  <2> HIDE DEF i
  <2> QED
    BY <1>5, <2>1, ReachedBy
<1>7. ASSUME NEW e \in Reached(s) PROVE Steady(s, Leave(y, e)) /\ Steady(s, e.s)
  <2>1. e.v \in Int /\ e.s \in States /\ Steady(s, e.s)
    BY ReachedFurther
  <2>2. Steady(e.s, Leave(y, e))
    BY <2>1, SetSteady, Kinds DEF Leave
  <2> QED
    BY <2>1, <2>2, SteadyOn
<1> HIDE DEF i, d
<1>8. down \in Reached(s) /\ up \in Reached(s)
  BY <1>6, VisitedReaches
<1>9. ASSUME NEW m \in Memory
      PROVE  Steady(s, StoreUp(s, w, m, y)) /\ Steady(s, LoadFrom(s, w, m, y))
  <2> DEFINE a == Ea(i.s, w, m, y)
             puts == Visited(i.v, a, LAMBDA e, k : PutUp(e, w, k))
             gets == Visited(i.v, a, LAMBDA e, k : GetUp(e, w, k))
  <2>1. a.v \in Int /\ Steady(s, a.s)
    BY <1>5, EaYields, SteadyOn DEF Yields
  <2>2. a = With(a.v, a.s)
    BY EaPair DEF With
  <2>3. StoreUp(s, w, m, y) = puts.s /\ LoadFrom(s, w, m, y) = gets.s
    BY <1>4
  <2> HIDE DEF a
  <2>4. With(a.v, a.s) \in Reached(s)
    BY <2>1, ReachedBy
  <2>5. a \in Reached(s)
    BY <2>2, <2>4
  <2>6. puts \in Reached(s) /\ gets \in Reached(s)
    BY <2>5, VisitedReaches
  <2> HIDE DEF puts, gets
  <2> QED
    BY <1>7, <2>3, <2>6
<1> HIDE DEF down, up
<1> QED
  BY <1>2, <1>7, <1>8, <1>9

(* MOVEP, one byte after the other.                                        *)
LEMMA SpreadSteady ==
    ASSUME NEW s \in States, NEW w \in Width, NEW a \in Int, NEW v \in Int
    PROVE  Steady(s, Spread(s, w, a, v))
<1> DEFINE E == {t \in States : Steady(s, t)}
           N == w
           e == s
           on(d, k) == Write8(d, a + 2 * (k - 1), v \div 2 ^ Bits(w - k))
           G == [p \in E \X (1 .. N) |-> on(p[1], p[2])]
           f == CHOOSE put : put =
                  [k \in 0 .. w |-> IF k = 0 THEN s ELSE Write8(put[k - 1], a + 2 * (k - 1), v \div 2 ^ Bits(w - k))]
<1>0. N \in Nat /\ e \in E
  BY SteadyIs DEF Width, Byte, Word, Long
<1>1. Spread(s, w, a, v) = f[N]
  BY DEF Spread
<1>2. ASSUME NEW d \in E, NEW k \in 1 .. N PROVE on(d, k) \in E
  <2> DEFINE j == Bits(w - k)
             q == v \div 2 ^ j
             b == a + 2 * (k - 1)
  <2>1. w - k \in Nat /\ k \in Int
    BY <1>0
  <2>2. j \in Nat
    BY <2>1, WidthAssumption DEF Bits
  <2> HIDE DEF j
  <2>3. q \in Int
    BY <2>2, Power, DivisionAlgorithm
  <2>4. b \in Int
    BY <2>1
  <2> HIDE DEF q, b
  <2>5. d \in States /\ Steady(s, d)
    OBVIOUS
  <2>6. Steady(d, Write8(d, b, q))
    BY <2>3, <2>4, <2>5, WriteSteady
  <2>7. Steady(s, Write8(d, b, q)) /\ Write8(d, b, q) \in States
    BY <2>5, <2>6, SteadyOn DEF Steady
  <2> QED
    BY <2>7 DEF b, q, j
<1>3. G \in StepsOn(N, E) /\ \A d \in E, k \in 1 .. N : G[<<d, k>>] = on(d, k)
  <2> HIDE DEF E, on
  <2> QED
    BY <1>2 DEF StepsOn
<1> HIDE DEF G
<1>4. PICK g : Goes(g, N, E, e, G)
  <2> HIDE DEF E, N, e
  <2> QED
    BY <1>0, <1>3, Recursion
<1>5. /\ g \in [0 .. N -> E] /\ g[0] = e
      /\ \A k \in 1 .. N : g[k] = on(g[k - 1], k)
  <2> HIDE DEF E, N, e, on
  <2>1. g \in [0 .. N -> E] /\ g[0] = e /\ \A k \in 1 .. N : g[k] = G[<<g[k - 1], k>>]
    BY <1>4 DEF Goes
  <2>2. \A k \in 1 .. N : g[k - 1] \in E
    BY <1>0, <2>1
  <2> QED
    BY <1>3, <2>1, <2>2
<1>6. g = [k \in 0 .. N |-> IF k = 0 THEN e ELSE on(g[k - 1], k)]
  <2> HIDE DEF E, N, e, on
  <2>1. ASSUME NEW k \in 0 .. N PROVE g[k] = IF k = 0 THEN e ELSE on(g[k - 1], k)
    <3>1. k = 0 \/ k \in 1 .. N
      BY <1>0
    <3> QED
      BY <1>0, <1>5, <3>1
  <2> QED
    BY <1>5, <2>1
<1>7. f = [k \in 0 .. N |-> IF k = 0 THEN e ELSE on(f[k - 1], k)]
  BY <1>6
<1> HIDE DEF f, E, N, e, on
<1>8. f[0] = e /\ \A k \in 1 .. N : f[k] = on(f[k - 1], k)
  BY <1>0, <1>7
<1> DEFINE T == {k \in 0 .. N : f[k] \in E}
<1>9. 0 \in T /\ \A k \in 1 .. N : k - 1 \in T => k \in T
  BY <1>0, <1>2, <1>8
<1> HIDE DEF T
<1>10. \A k \in 0 .. N : k \in T
  BY <1>0, <1>9, Upwards
<1>11. N \in T
  BY <1>0, <1>10
<1> QED
  BY <1>1, <1>11 DEF T, E

(* The bytes MOVEP puts together make a number.                            *)
LEMMA GatheredTyped ==
    ASSUME NEW s \in States, NEW w \in Width, NEW a \in Int
    PROVE  Gathered(s, w, a) \in Int
<1> DEFINE E == Int
           N == w
           e == 0
           on(d, k) == d * Radix + Read8(s, a + 2 * (k - 1))
           G == [p \in E \X (1 .. N) |-> on(p[1], p[2])]
           f == CHOOSE sum : sum =
                  [k \in 0 .. w |-> IF k = 0 THEN 0 ELSE sum[k - 1] * Radix + Read8(s, a + 2 * (k - 1))]
<1>0. N \in Nat /\ e \in E
  BY DEF Width, Byte, Word, Long
<1>1. Gathered(s, w, a) = f[N]
  BY DEF Gathered
<1>2. ASSUME NEW d \in E, NEW k \in 1 .. N PROVE on(d, k) \in E
  <2>1. k \in Int /\ a + 2 * (k - 1) \in Int
    BY <1>0
  <2>2. Read8(s, a + 2 * (k - 1)) \in Int
    BY <2>1, ReadTyped, SpanTyped, Kinds
  <2> QED
    BY <2>2, WidthAssumption
<1>3. G \in StepsOn(N, E) /\ \A d \in E, k \in 1 .. N : G[<<d, k>>] = on(d, k)
  <2> HIDE DEF E, on
  <2> QED
    BY <1>2 DEF StepsOn
<1> HIDE DEF G
<1>4. PICK g : Goes(g, N, E, e, G)
  <2> HIDE DEF E, N, e
  <2> QED
    BY <1>0, <1>3, Recursion
<1>5. /\ g \in [0 .. N -> E] /\ g[0] = e
      /\ \A k \in 1 .. N : g[k] = on(g[k - 1], k)
  <2> HIDE DEF E, N, e, on
  <2>1. g \in [0 .. N -> E] /\ g[0] = e /\ \A k \in 1 .. N : g[k] = G[<<g[k - 1], k>>]
    BY <1>4 DEF Goes
  <2>2. \A k \in 1 .. N : g[k - 1] \in E
    BY <1>0, <2>1
  <2> QED
    BY <1>3, <2>1, <2>2
<1>6. g = [k \in 0 .. N |-> IF k = 0 THEN e ELSE on(g[k - 1], k)]
  <2> HIDE DEF E, N, e, on
  <2>1. ASSUME NEW k \in 0 .. N PROVE g[k] = IF k = 0 THEN e ELSE on(g[k - 1], k)
    <3>1. k = 0 \/ k \in 1 .. N
      BY <1>0
    <3> QED
      BY <1>0, <1>5, <3>1
  <2> QED
    BY <1>5, <2>1
<1>7. f = [k \in 0 .. N |-> IF k = 0 THEN e ELSE on(f[k - 1], k)]
  BY <1>6
<1> HIDE DEF f, E, N, e, on
<1>8. f[0] = e /\ \A k \in 1 .. N : f[k] = on(f[k - 1], k)
  BY <1>0, <1>7
<1> DEFINE T == {k \in 0 .. N : f[k] \in E}
<1>9. 0 \in T /\ \A k \in 1 .. N : k - 1 \in T => k \in T
  BY <1>0, <1>2, <1>8
<1> HIDE DEF T
<1>10. \A k \in 0 .. N : k \in T
  BY <1>0, <1>9, Upwards
<1>11. N \in T
  BY <1>0, <1>10
<1> QED
  BY <1>1, <1>11 DEF T, E

(* MOVEP is steady in both directions.                                     *)
LEMMA EverySecondSteady ==
    ASSUME NEW s \in States, NEW w \in Width, NEW x \in Reg, NEW y \in Reg
    PROVE  Steady(s, SpreadOut(s, w, x, y)) /\ Steady(s, GatherIn(s, w, x, y))
<1> DEFINE e == Displaced(s, s.dar[A(y)])
<1>1. /\ SpreadOut(s, w, x, y) = Spread(e.s, w, e.v, s.dar[x])
      /\ GatherIn(s, w, x, y) = SetLow(e.s, w, x, Gathered(e.s, w, e.v))
  BY DEF SpreadOut, GatherIn, Then
<1>2. Yields(s, e, Values(Long))
  BY Fields, DisplacedYields
<1>3. s.dar[x] \in Int /\ x \in 0 .. 15
  BY Fields, Kinds
<1> HIDE DEF e
<1>4. e.s \in States /\ e.v \in Int /\ \A u : Steady(e.s, u) => Steady(s, u)
  BY <1>2, Onward, SpanTyped, Kinds
<1>5. Steady(e.s, Spread(e.s, w, e.v, s.dar[x]))
  BY <1>3, <1>4, SpreadSteady
<1>6. Gathered(e.s, w, e.v) \in Int
  BY <1>4, GatheredTyped
<1>7. Steady(e.s, SetLow(e.s, w, x, Gathered(e.s, w, e.v)))
  BY <1>3, <1>4, <1>6, SetLowSteady
<1> QED
  BY <1>1, <1>4, <1>5, <1>7

-----------------------------------------------------------------------------
(* What is written can be read again, wherever the addresses wrap.         *)

(* Whole turns do not change a remainder.                                  *)
LEMMA Around ==
    ASSUME NEW S \in Nat, S > 0, NEW v \in Int, NEW z \in Int
    PROVE  (v + z * S) % S = v % S
<1> DEFINE q == v \div S
           r == v % S
<1>1. q \in Int /\ r \in 0 .. S - 1 /\ v = q * S + r
  BY DivisionAlgorithm
<1> HIDE DEF q, r
<1>2. q + z \in Int /\ (q + z) * S = q * S + z * S /\ q * S \in Int /\ z * S \in Int
  BY <1>1
<1> DEFINE u == v + z * S
           p == q + z
<1>3. u \in Int /\ p \in Int /\ u = p * S + r
  BY <1>1, <1>2
<1> HIDE DEF u, p
<1>4. u % S = r
  BY <1>1, <1>3, Remainder
<1> QED
  BY <1>4 DEF u, r

(* An address that has been cut to a long stands for the same place.       *)
LEMMA LowWraps ==
    ASSUME NEW a \in Int, NEW k \in Int
    PROVE  /\ Low(Long, Low(Long, a) + k) = Low(Long, a + k)
           /\ At(Low(Long, a) + k) = At(a + k)
<1> DEFINE L == Span(Long)
           q == a \div L
           M == MemSize
           p == L \div M
<1>1. L \in Nat /\ L > 0 /\ M \in Nat /\ M > 0 /\ L % M = 0
  BY SpanTyped, Kinds, MemoryAssumption
<1> HIDE DEF L, M
<1>2. q \in Int /\ a % L \in Int /\ a = q * L + (a % L)
  BY <1>1, DivisionAlgorithm
<1>3. p \in Int /\ L = p * M
  <2>1. p \in Int /\ L = p * M + (L % M)
    BY <1>1, DivisionAlgorithm
  <2>2. p * M \in Int
    BY <1>1, <2>1
  <2> HIDE DEF p
  <2> QED
    BY <1>1, <2>1, <2>2
<1> HIDE DEF q, p
<1> DEFINE b == (a % L) + k
           z == -q
           y == -q * p
<1>4. b = (a + k) + z * L /\ z \in Int /\ a + k \in Int
  <2>1. q * L \in Int /\ z * L = -(q * L)
    BY <1>1, <1>2
  <2> QED
    BY <1>2, <2>1
<1>5. b = (a + k) + y * M /\ y \in Int
  <2>1. z * L = y * M
    BY <1>1, <1>2, <1>3
  <2> QED
    BY <1>2, <1>3, <1>4, <2>1
<1> HIDE DEF b, z, y
<1>6. b % L = (a + k) % L
  BY <1>1, <1>4, Around
<1>7. b % M = (a + k) % M
  <2> DEFINE c == a + k
  <2>1. c \in Int /\ b = c + y * M
    BY <1>5
  <2> HIDE DEF c
  <2>2. (c + y * M) % M = c % M
    BY <1>1, <1>5, <2>1, Around
  <2> QED
    BY <2>1, <2>2 DEF c
<1> QED
  BY <1>6, <1>7 DEF b, L, M, At, Low

(* Fewer than MemSize bytes do not overlap.                                *)
LEMMA Apart ==
    ASSUME NEW a \in Int, NEW b \in Int, a < b, b - a < MemSize
    PROVE  At(a) # At(b)
<1> DEFINE M == MemSize
           p == a \div M
           q == b \div M
<1>1. M \in Nat /\ M > 0 /\ b - a < M
  BY MemoryAssumption
<1> HIDE DEF M
<1>2. /\ p \in Int /\ a % M \in Int /\ a = p * M + (a % M)
      /\ q \in Int /\ b % M \in Int /\ b = q * M + (b % M)
  BY <1>1, DivisionAlgorithm
<1> HIDE DEF p, q
<1>3. SUFFICES ASSUME a % M = b % M PROVE FALSE
  BY DEF At, M
<1> DEFINE d == q - p
<1>4. d \in Int /\ d * M = q * M - p * M /\ q * M \in Int /\ p * M \in Int
  BY <1>1, <1>2
<1>5. d * M = b - a
  BY <1>2, <1>3, <1>4
<1> HIDE DEF d
<1>6. CASE d <= 0
  <2>1. d * M <= 0
    BY <1>1, <1>4, <1>6
  <2> QED
    BY <1>5, <2>1
<1>7. CASE d >= 1
  <2>1. d * M >= M
    BY <1>1, <1>4, <1>7
  <2> QED
    BY <1>1, <1>5, <2>1
<1> QED
  BY <1>4, <1>6, <1>7

(* The two halves of a number, put together again.                         *)
LEMMA TwoDigits ==
    ASSUME NEW S \in Nat, S > 0, NEW v \in Int
    PROVE  ((v \div S) % S) * S + (v % S) = v % (S * S)
<1> DEFINE q == v \div S
           r == v % S
           p == q \div S
           u == q % S
<1>1. q \in Int /\ r \in 0 .. S - 1 /\ v = q * S + r
  BY DivisionAlgorithm
<1>2. p \in Int /\ u \in 0 .. S - 1 /\ q = p * S + u
  <2> HIDE DEF q
  <2> QED
    BY <1>1, DivisionAlgorithm
<1> HIDE DEF p, u, q, r
<1> DEFINE N == S * S
           w == u * S + r
<1>3. w \in 0 .. N - 1
  BY <1>1, <1>2, Composed
<1>4. v = p * N + w /\ N \in Nat /\ N > 0
  <2>1. N \in Nat /\ N > 0 /\ p * N \in Int /\ q * S = p * N + u * S /\ u * S \in Int
    BY <1>1, <1>2
  <2> HIDE DEF N
  <2> QED
    BY <1>1, <2>1
<1> HIDE DEF N, w
<1>5. v % N = w
  BY <1>2, <1>3, <1>4, Remainder
<1> QED
  BY <1>5 DEF N, w, u, r, q

(* A word that has been written is read again, and so are its bytes,       *)
(* wherever the address wraps.                                             *)
LEMMA Written16 ==
    ASSUME NEW s \in States, NEW a \in Int, NEW v \in Int
    PROVE  /\ Read16(Write16(s, a, v), a) = Low(Word, v)
           /\ \A b \in Int : At(b) # At(a) /\ At(b) # At(a + 1)
                => Read8(Write16(s, a, v), b) = Read8(s, b)
<1> DEFINE h == (v \div Radix) % Radix
           l == v % Radix
           t == Write16(s, a, v)
<1>1. At(a) \in 0 .. MemSize - 1 /\ At(a + 1) \in 0 .. MemSize - 1 /\ At(a) # At(a + 1)
  <2>1. a + 1 \in Int /\ a < a + 1 /\ (a + 1) - a < MemSize
    BY MemoryAssumption
  <2> QED
    BY <2>1, AtBounds, Apart
<1>2. t.mem = [s.mem EXCEPT ![At(a)] = h, ![At(a + 1)] = l]
  BY DEF Write16, States
<1>3. s.mem \in [0 .. MemSize - 1 -> Values(Byte)]
  BY DEF States
<1>4. h * Radix + l = Low(Word, v)
  <2>1. Radix \in Nat /\ Radix > 0
    BY WidthAssumption
  <2>2. ((v \div Radix) % Radix) * Radix + (v % Radix) = v % (Radix * Radix)
    BY <2>1, TwoDigits
  <2> QED
    BY <2>2, Spans DEF Low
<1> HIDE DEF h, l, t
<1>5. t.mem[At(a)] = h /\ t.mem[At(a + 1)] = l
  BY <1>1, <1>2, <1>3
<1>6. Read16(t, a) = Low(Word, v)
  BY <1>4, <1>5 DEF Read16, Read8
<1>7. ASSUME NEW b \in Int, At(b) # At(a), At(b) # At(a + 1) PROVE Read8(t, b) = Read8(s, b)
  <2>1. At(b) \in 0 .. MemSize - 1
    BY AtBounds
  <2> QED
    BY <1>2, <1>3, <1>7, <2>1 DEF Read8
<1> QED
  BY <1>6, <1>7 DEF t

(* So is a long.                                                           *)
LEMMA Written32 ==
    ASSUME NEW s \in States, NEW a \in Int, NEW v \in Int
    PROVE  Read32(Write32(s, a, v), a) = Low(Long, v)
<1> DEFINE h == v \div Span(Word)
           t == Write16(s, a, h)
           u == Write16(t, a + 2, v)
<1>1. h \in Int
  BY SpanTyped, Kinds, DivisionAlgorithm
<1>2. u = Write32(s, a, v)
  BY DEF Write32
<1>3. Low(Word, h) * Span(Word) + Low(Word, v) = Low(Long, v)
  <2>1. Span(Word) \in Nat /\ Span(Word) > 0
    BY SpanTyped, Kinds
  <2>2. (h % Span(Word)) * Span(Word) + (v % Span(Word)) = v % (Span(Word) * Span(Word))
    BY <2>1, TwoDigits
  <2> QED
    BY <2>2, Spans DEF Low
<1> HIDE DEF h
<1>4. Read16(t, a) = Low(Word, h) /\ t \in States
  BY <1>1, Written16, WriteSteady DEF Steady
<1>5. a + 2 \in Int /\ a + 1 \in Int /\ a + 2 + 1 \in Int
  OBVIOUS
<1> HIDE DEF t
<1>6. /\ Read16(u, a + 2) = Low(Word, v)
      /\ \A b \in Int : At(b) # At(a + 2) /\ At(b) # At(a + 2 + 1) => Read8(u, b) = Read8(t, b)
  BY <1>4, <1>5, Written16
<1>7. /\ At(a) # At(a + 2) /\ At(a) # At(a + 2 + 1)
      /\ At(a + 1) # At(a + 2) /\ At(a + 1) # At(a + 2 + 1)
  <2>1. MemSize >= 6 /\ MemSize \in Nat
    BY MemoryAssumption
  <2>2. /\ a < a + 2 /\ (a + 2) - a < MemSize /\ a < a + 2 + 1 /\ (a + 2 + 1) - a < MemSize
        /\ a + 1 < a + 2 /\ (a + 2) - (a + 1) < MemSize
        /\ a + 1 < a + 2 + 1 /\ (a + 2 + 1) - (a + 1) < MemSize
    BY <2>1
  <2> QED
    BY <1>5, <2>2, Apart
<1>8. Read16(u, a) = Read16(t, a)
  BY <1>5, <1>6, <1>7 DEF Read16
<1> HIDE DEF u
<1> QED
  BY <1>2, <1>3, <1>4, <1>6, <1>8 DEF Read32

(* An address that has been cut to a long reads the same.                  *)
LEMMA ReadWraps ==
    ASSUME NEW s, NEW a \in Int, NEW k \in Int
    PROVE  /\ Read16(s, Low(Long, a) + k) = Read16(s, a + k)
           /\ Read32(s, Low(Long, a) + k) = Read32(s, a + k)
           /\ Read32(s, Low(Long, a)) = Read32(s, a)
<1> DEFINE l == Low(Long, a)
<1>1. l \in Int
  BY Whole, Kinds
<1>2. ASSUME NEW j \in Int PROVE At(l + j) = At(a + j)
  BY LowWraps
<1> HIDE DEF l
<1>3. ASSUME NEW j \in Int PROVE Read16(s, l + j) = Read16(s, a + j)
  <2>1. At(l + j) = At(a + j) /\ At(l + (j + 1)) = At(a + (j + 1))
    BY <1>2
  <2>2. l + (j + 1) = l + j + 1 /\ a + (j + 1) = a + j + 1
    BY <1>1
  <2> QED
    BY <2>1, <2>2 DEF Read16, Read8
<1>4. ASSUME NEW j \in Int PROVE Read32(s, l + j) = Read32(s, a + j)
  <2>1. Read16(s, l + j) = Read16(s, a + j) /\ Read16(s, l + (j + 2)) = Read16(s, a + (j + 2))
    BY <1>3
  <2>2. l + (j + 2) = l + j + 2 /\ a + (j + 2) = a + j + 2
    BY <1>1
  <2> QED
    BY <2>1, <2>2 DEF Read32
<1>5. Read32(s, l) = Read32(s, a)
  <2>1. Read32(s, l + 0) = Read32(s, a + 0)
    BY <1>4
  <2>2. l + 0 = l /\ a + 0 = a
    BY <1>1
  <2> QED
    BY <2>1, <2>2
<1> QED
  BY <1>3, <1>4, <1>5 DEF l

-----------------------------------------------------------------------------
(* The stack: what is pushed is on top, and what lay there is below it.    *)

(* A write leaves the registers and the next word alone.                   *)
LEMMA WrittenElsewhere ==
    ASSUME NEW s \in States, NEW a \in Int, NEW v \in Int
    PROVE  /\ Write16(s, a, v).dar = s.dar
           /\ Write32(s, a, v).dar = s.dar
           /\ Read32(Write16(s, a, v), a + 2) = Read32(s, a + 2)
<1> DEFINE t == Write16(s, a, v)
<1>1. t.dar = s.dar /\ Write32(s, a, v).dar = s.dar
  BY DEF Write16, Write32, States
<1>2. \A b \in Int : At(b) # At(a) /\ At(b) # At(a + 1) => Read8(t, b) = Read8(s, b)
  BY Written16
<1> HIDE DEF t
<1>3. ASSUME NEW b \in Int, a + 1 < b, b < a + 6 PROVE Read8(t, b) = Read8(s, b)
  <2>1. MemSize \in Nat /\ MemSize >= 6 /\ a + 1 \in Int
    BY MemoryAssumption
  <2>2. a < b /\ b - a < MemSize /\ a + 1 < b /\ b - (a + 1) < MemSize
    BY <1>3, <2>1
  <2>3. At(a) # At(b) /\ At(a + 1) # At(b)
    BY <2>1, <2>2, Apart
  <2> QED
    BY <1>2, <2>3
<1>4. Read16(t, a + 2) = Read16(s, a + 2) /\ Read16(t, a + 2 + 2) = Read16(s, a + 2 + 2)
  <2>1. /\ Read8(t, a + 2) = Read8(s, a + 2)
        /\ Read8(t, a + 2 + 1) = Read8(s, a + 2 + 1)
        /\ Read8(t, a + 2 + 2) = Read8(s, a + 2 + 2)
        /\ Read8(t, a + 2 + 2 + 1) = Read8(s, a + 2 + 2 + 1)
    BY <1>3
  <2> QED
    BY <2>1 DEF Read16
<1> QED
  BY <1>1, <1>4 DEF Read32, t

(* Writing a register leaves the memory and the program counter alone.     *)
LEMMA SetElsewhere ==
    ASSUME NEW s \in States, NEW r \in 0 .. 15, NEW v
    PROVE  /\ Set(s, r, v).dar = [s.dar EXCEPT ![r] = Low(Long, v)]
           /\ Set(s, r, v).dar[r] = Low(Long, v)
           /\ Set(s, r, v).mem = s.mem /\ Set(s, r, v).pc = s.pc
           /\ \A a : Read16(Set(s, r, v), a) = Read16(s, a)
           /\ \A a : Read32(Set(s, r, v), a) = Read32(s, a)
<1>1. /\ Set(s, r, v).dar = [s.dar EXCEPT ![r] = Low(Long, v)]
      /\ Set(s, r, v).mem = s.mem /\ Set(s, r, v).pc = s.pc
  BY DEF Set, States
<1>2. s.dar \in [0 .. 15 -> Values(Long)]
  BY DEF States
<1>3. \A a : Read8(Set(s, r, v), a) = Read8(s, a)
  BY <1>1 DEF Read8
<1> QED
  BY <1>1, <1>2, <1>3 DEF Read16, Read32

(* What is pushed is on top of the stack, and what was on top before is    *)
(* behind it.                                                              *)
LEMMA Pushing ==
    ASSUME NEW s \in States, NEW v \in Int
    PROVE  /\ Push16(s, v).dar = [s.dar EXCEPT ![SP] = Low(Long, s.dar[SP] - 2)]
           /\ Push32(s, v).dar = [s.dar EXCEPT ![SP] = Low(Long, s.dar[SP] - 4)]
           /\ Read16(Push16(s, v), Push16(s, v).dar[SP]) = Low(Word, v)
           /\ Read32(Push32(s, v), Push32(s, v).dar[SP]) = Low(Long, v)
           /\ Read32(Push16(s, v), Push16(s, v).dar[SP] + 2) = Read32(s, s.dar[SP])
<1> DEFINE S == s.dar[SP]
<1>1. S \in Int /\ S - 2 \in Int /\ S - 4 \in Int
  BY RegisterTyped, Kinds
<1>2. ASSUME NEW d \in Int, NEW b, b = Low(Long, S - d), NEW t, t = Set(s, SP, S - d)
      PROVE  /\ b \in Int /\ t \in States /\ t.dar[SP] = b
             /\ t.dar = [s.dar EXCEPT ![SP] = b]
             /\ \A a : Read32(t, a) = Read32(s, a)
  <2>1. S - d \in Int
    BY <1>1
  <2> HIDE DEF S
  <2>2. b \in Int
    BY <1>2, <2>1, Whole, Kinds
  <2>3. Steady(s, t)
    BY <1>2, <2>1, SetSteady, Kinds
  <2> QED
    BY <1>2, <2>2, <2>3, SetElsewhere, Kinds DEF Steady
<1>3. /\ Push16(s, v).dar = [s.dar EXCEPT ![SP] = Low(Long, S - 2)]
      /\ Read16(Push16(s, v), Push16(s, v).dar[SP]) = Low(Word, v)
      /\ Read32(Push16(s, v), Push16(s, v).dar[SP] + 2) = Read32(s, S)
  <2> DEFINE b == Low(Long, S - 2)
             t == Set(s, SP, S - 2)
             u == Write16(t, b, v)
  <2>1. /\ b \in Int /\ t \in States /\ t.dar[SP] = b
        /\ t.dar = [s.dar EXCEPT ![SP] = b]
        /\ \A a : Read32(t, a) = Read32(s, a)
    BY <1>2
  <2>2. Push16(s, v) = Write(t, Word, t.dar[SP], v)
    BY DEF Push16, OnTop
  <2>3. Push16(s, v) = u
    <3> HIDE DEF t
    <3> QED
      BY <2>1, <2>2, Kinds DEF Write
  <2>4. Read32(s, b + 2) = Read32(s, S)
    <3> DEFINE c == S - 2
    <3>1. c \in Int /\ c + 2 = S /\ b = Low(Long, c)
      BY <1>1
    <3> HIDE DEF c, b, S
    <3>2. Read32(s, Low(Long, c) + 2) = Read32(s, c + 2)
      BY <3>1, ReadWraps
    <3> QED
      BY <3>1, <3>2
  <2> HIDE DEF b, t, S
  <2>5. u.dar = t.dar /\ Read16(u, b) = Low(Word, v) /\ Read32(u, b + 2) = Read32(t, b + 2)
    BY <2>1, Written16, WrittenElsewhere
  <2> HIDE DEF u
  <2> QED
    BY <2>1, <2>3, <2>4, <2>5 DEF b
<1>4. /\ Push32(s, v).dar = [s.dar EXCEPT ![SP] = Low(Long, S - 4)]
      /\ Read32(Push32(s, v), Push32(s, v).dar[SP]) = Low(Long, v)
  <2> DEFINE b == Low(Long, S - 4)
             t == Set(s, SP, S - 4)
             u == Write32(t, b, v)
  <2>1. /\ b \in Int /\ t \in States /\ t.dar[SP] = b
        /\ t.dar = [s.dar EXCEPT ![SP] = b]
    BY <1>2
  <2>2. Push32(s, v) = Write(t, Long, t.dar[SP], v)
    BY DEF Push32, OnTop
  <2>3. Push32(s, v) = u
    <3> HIDE DEF t
    <3> QED
      BY <2>1, <2>2, Kinds DEF Write
  <2> HIDE DEF b, t, S
  <2>5. u.dar = t.dar /\ Read32(u, b) = Low(Long, v)
    BY <2>1, Written32, WrittenElsewhere
  <2> HIDE DEF u
  <2> QED
    BY <2>1, <2>3, <2>5 DEF b
<1> QED
  BY <1>3, <1>4

(* The supervisor's stack pointer when an exception begins.                *)
SuperTop(s) == IF s.s THEN s.dar[SP] ELSE s.sp[TRUE]

(* s has been interrupted at pc: its status register and pc are on the     *)
(* supervisor's stack, and everything else is where it was.                *)
Entered(s, pc, t) ==
    /\ t \in States /\ t.s = TRUE /\ t.t = FALSE
    /\ t.sp = [s.sp EXCEPT ![s.s] = s.dar[SP]]
    /\ t.dar = [s.dar EXCEPT ![SP] = Low(Long, SuperTop(s) - 6)]
    /\ Read16(t, t.dar[SP]) = Sr(s)
    /\ Read32(t, t.dar[SP] + 2) = pc

(* A value of a width is what is left when it is cut to the width.         *)
LEMMA Numbers ==
    ASSUME NEW w \in Width, NEW v \in Values(w)
    PROVE  v \in Int /\ v \in Nat /\ Low(w, v) = v
BY Near, Spans DEF Values

(* A change of mode exchanges the two stack pointers and nothing else.     *)
LEMMA SetSIs ==
    ASSUME NEW s \in States, NEW new \in BOOLEAN
    PROVE  LET u == SetS(s, new)
           IN  /\ u \in States /\ u.s = new /\ u.t = s.t /\ u.mask = s.mask
               /\ u.level = s.level /\ u.stopped = s.stopped /\ u.pc = s.pc
               /\ u.mem = s.mem /\ Ccr(u) = Ccr(s)
               /\ u.sp = [s.sp EXCEPT ![s.s] = s.dar[SP]]
               /\ u.dar = [s.dar EXCEPT ![SP] = u.sp[new]]
<1> DEFINE put == [s.sp EXCEPT ![s.s] = s.dar[SP]]
<1>1. s.dar[SP] \in Values(Long) /\ SP \in 0 .. 15
  BY RegisterTyped, Kinds
<1>2. put \in [BOOLEAN -> Values(Long)] /\ put[new] \in Values(Long)
  BY <1>1 DEF States
<1>3. SetS(s, new) = [s EXCEPT !.sp = put, !.s = new, !.dar[SP] = put[new]]
  BY DEF SetS, Switch
<1> HIDE DEF put
<1> DEFINE u == [s EXCEPT !.sp = put, !.s = new, !.dar[SP] = put[new]]
<1>4. /\ u \in States /\ u.s = new /\ u.t = s.t /\ u.mask = s.mask
      /\ u.level = s.level /\ u.stopped = s.stopped /\ u.pc = s.pc
      /\ u.mem = s.mem /\ u.sp = put /\ u.dar = [s.dar EXCEPT ![SP] = put[new]]
      /\ u.x = s.x /\ u.n = s.n /\ u.z = s.z /\ u.v = s.v /\ u.c = s.c
  BY <1>1, <1>2 DEF States
<1> HIDE DEF u
<1>5. Ccr(u) = Ccr(s)
  BY <1>4 DEF Ccr
<1> QED
  BY <1>3, <1>4, <1>5 DEF u, put

-----------------------------------------------------------------------------
(* The status register as a number, and back again.                        *)

(* Its fields in terms of one unit, the part of a byte above its low six   *)
(* bits.                                                                   *)
Unit == 2 ^ (ByteBits - 6)

(* The bits of the status register in terms of the unit.                   *)
LEMMA Units ==
    /\ Unit \in Nat /\ Unit > 0
    /\ Radix = 64 * Unit
    /\ 2 ^ (Bits(Word) - 1) = 2048 * (Unit * Unit)
    /\ 2 ^ (Bits(Word) - 3) = 512 * (Unit * Unit)
    /\ 2 ^ 3 = 8 /\ 2 ^ 4 = 16
<1> DEFINE k == ByteBits - 6
<1>1. k \in Nat /\ ByteBits = k + 2 + 2 + 2
  BY WidthAssumption
<1> HIDE DEF k
<1>2. Unit = 2 ^ k /\ Unit \in Nat /\ Unit > 0
  BY <1>1, Power DEF Unit, k
<1>3. 2 ^ ByteBits = 64 * Unit
  <2>1. /\ 2 ^ (k + 2) = 2 ^ k * 4
        /\ 2 ^ (k + 2 + 2) = 2 ^ (k + 2) * 4
        /\ 2 ^ (k + 2 + 2 + 2) = 2 ^ (k + 2 + 2) * 4
    BY <1>1, NextPowers
  <2> QED
    BY <1>1, <1>2, <2>1
<1>4. 2 ^ 3 = 8 /\ 2 ^ 4 = 16
  <2> DEFINE two == 2
             three == 3
  <2>1. two \in Nat /\ three \in Nat /\ two + 1 = 3 /\ two + 2 = 4
    OBVIOUS
  <2>2. 2 ^ two = 4
    BY Four
  <2> HIDE DEF two, three
  <2>3. 2 ^ (two + 1) = 2 ^ two * 2 /\ 2 ^ (two + 2) = 2 ^ two * 4
    BY <2>1, NextPowers
  <2> QED
    BY <2>1, <2>2, <2>3
<1>5. 2 ^ Bits(Word) = 4096 * (Unit * Unit)
  <2>1. Span(Word) = Radix * Radix
    BY Spans
  <2>2. 2 ^ Bits(Word) = (64 * Unit) * (64 * Unit)
    BY <2>1, <1>3, WordPowers, WidthAssumption
  <2> QED
    BY <1>2, <2>2
<1>6. /\ 2 ^ (Bits(Word) - 1) = 2048 * (Unit * Unit)
      /\ 2 ^ (Bits(Word) - 3) = 512 * (Unit * Unit)
  <2> DEFINE j == Bits(Word) - 3
             U == Unit * Unit
  <2>1. j \in Nat /\ j + 2 = Bits(Word) - 1 /\ j + 2 + 1 = Bits(Word) /\ j + 2 \in Nat
    BY WordPowers
  <2>2. U \in Nat /\ 2 ^ Bits(Word) = 4096 * U
    BY <1>2, <1>5
  <2> HIDE DEF j, U
  <2>3. /\ 2 ^ (j + 2) = 2 ^ j * 4 /\ 2 ^ (j + 2 + 1) = 2 ^ (j + 2) * 2
        /\ 2 ^ j \in Nat
    BY <2>1, NextPowers, Power
  <2>4. 2 ^ (j + 2) = 2048 * U /\ 2 ^ j = 512 * U
    BY <2>1, <2>2, <2>3
  <2> QED
    BY <2>1, <2>4 DEF j, U
<1> QED
  BY <1>2, <1>3, <1>4, <1>6, WidthAssumption

(* The status register is the sum of its fields.                           *)
LEMMA SrParts ==
    ASSUME NEW s \in States
    PROVE  /\ Sr(s) = (2048 * Flag(s.t) + 512 * Flag(s.s)) * (Unit * Unit)
                        + 64 * (Unit * s.mask) + Ccr(s)
           /\ Flag(s.t) \in {0, 1} /\ Flag(s.s) \in {0, 1}
           /\ s.mask \in 0 .. 7 /\ Ccr(s) \in 0 .. 31
<1> DEFINE U == Unit * Unit
<1>1. /\ U \in Nat /\ Unit \in Nat /\ Top16 = 2048 * U /\ Radix = 64 * Unit
  BY Units DEF Top16
<1> HIDE DEF U
<1>2. Top16 \div 4 = 512 * U
  BY <1>1
<1>3. Flag(s.t) \in {0, 1} /\ Flag(s.s) \in {0, 1} /\ s.mask \in 0 .. 7 /\ Ccr(s) \in 0 .. 31
  BY FlagTyped, StatusNumber DEF States
<1>4. Radix * s.mask = 64 * (Unit * s.mask)
  BY <1>1, <1>3
<1>5. Top16 * Flag(s.t) + (Top16 \div 4) * Flag(s.s) = (2048 * Flag(s.t) + 512 * Flag(s.s)) * U
  BY <1>1, <1>2, <1>3
<1>6. Sr(s) = (2048 * Flag(s.t) + 512 * Flag(s.s)) * U + 64 * (Unit * s.mask) + Ccr(s)
  BY <1>4, <1>5 DEF Sr
<1> QED
  BY <1>3, <1>6 DEF U

(* The status register is a word.                                          *)
LEMMA SrWord ==
    ASSUME NEW s \in States
    PROVE  Sr(s) \in Values(Word)
<1> DEFINE P == Unit
           U == Unit * Unit
           m == s.mask
           Q == P * m
<1>1. P \in Nat /\ P > 0 /\ U \in Nat /\ U >= P /\ m \in 0 .. 7 /\ Span(Word) = 4096 * U
  <2>1. P \in Nat /\ P > 0 /\ m \in 0 .. 7
    BY Units, SrParts
  <2>2. U \in Nat /\ U >= P
    BY <2>1
  <2>3. Span(Word) = (64 * Unit) * (64 * Unit)
    BY Units, Spans
  <2> QED
    BY <2>1, <2>2, <2>3
<1>2. Q \in Nat /\ Q <= 7 * P
  BY <1>1
<1>3. /\ Sr(s) = (2048 * Flag(s.t) + 512 * Flag(s.s)) * U + 64 * Q + Ccr(s)
      /\ Flag(s.t) \in {0, 1} /\ Flag(s.s) \in {0, 1} /\ Ccr(s) \in 0 .. 31
  BY SrParts
<1> HIDE DEF P, U, m, Q
<1>4. Sr(s) \in Nat /\ Sr(s) < 4096 * U
  <2> DEFINE f == Flag(s.t)
             g == Flag(s.s)
             a == f * U
             b == g * U
  <2>1. Sr(s) = (2048 * f + 512 * g) * U + 64 * Q + Ccr(s) /\ f \in {0, 1} /\ g \in {0, 1}
    BY <1>3
  <2> HIDE DEF f, g
  <2>2. (2048 * f + 512 * g) * U = 2048 * a + 512 * b
    BY <1>1, <2>1
  <2>3. ASSUME NEW h \in {0, 1} PROVE h * U \in Nat /\ h * U <= U
    <3>1. h = 0 \/ h = 1
      OBVIOUS
    <3> QED
      BY <1>1, <3>1
  <2>4. a \in Nat /\ a <= U /\ b \in Nat /\ b <= U
    BY <2>1, <2>3
  <2> HIDE DEF a, b
  <2>5. 64 * Q + Ccr(s) < 512 * U /\ 64 * Q + Ccr(s) \in Nat
    BY <1>1, <1>2, <1>3
  <2> DEFINE r == 64 * Q + Ccr(s)
             k == (2048 * f + 512 * g) * U
  <2>6. Sr(s) = k + r
    BY <1>1, <1>2, <1>3, <2>1, <2>2, <2>4
  <2>7. r \in Nat /\ r < 512 * U /\ k = 2048 * a + 512 * b
    BY <2>2, <2>5
  <2> HIDE DEF r, k
  <2> QED
    BY <1>1, <2>4, <2>6, <2>7
<1> QED
  BY <1>1, <1>4 DEF Values

(* Each field is found again.                                              *)
LEMMA SrFields ==
    ASSUME NEW s \in States
    PROVE  /\ BitOf(Sr(s), Bits(Word) - 1) = Flag(s.t)
           /\ BitOf(Sr(s), Bits(Word) - 3) = Flag(s.s)
           /\ (Sr(s) \div Radix) % 8 = s.mask
           /\ \E X \in Int : Sr(s) = 64 * X + Ccr(s)
           /\ \A k \in 0 .. 4 : BitOf(Sr(s), k) = BitOf(Ccr(s), k)
<1> DEFINE P == Unit
           U == Unit * Unit
           m == s.mask
           Q == P * m
           f == Flag(s.t)
           g == Flag(s.s)
           c == Ccr(s)
           v == Sr(s)
<1>1. /\ P \in Nat /\ P > 0 /\ U \in Nat /\ U >= P /\ U = P * P /\ m \in 0 .. 7
      /\ Q \in Nat /\ Q <= 7 * P /\ Q = P * m
      /\ v = (2048 * f + 512 * g) * U + 64 * Q + c
      /\ f \in {0, 1} /\ g \in {0, 1} /\ c \in 0 .. 31
  <2>1. P \in Nat /\ P > 0 /\ m \in 0 .. 7
    BY Units, SrParts
  <2>2. U \in Nat /\ U >= P /\ Q \in Nat /\ Q <= 7 * P
    BY <2>1
  <2>3. /\ v = (2048 * f + 512 * g) * U + 64 * Q + c
        /\ f \in {0, 1} /\ g \in {0, 1} /\ c \in 0 .. 31
    BY SrParts
  <2> QED
    BY <2>1, <2>2, <2>3
<1>2. /\ 2 ^ (Bits(Word) - 1) = 2048 * U /\ 2 ^ (Bits(Word) - 3) = 512 * U /\ Radix = 64 * P
      /\ 2 ^ 0 = 1 /\ 2 ^ 1 = 2 /\ 2 ^ 2 = 4 /\ 2 ^ 3 = 8 /\ 2 ^ 4 = 16
  BY Units, SmallPowers, Four
<1> HIDE DEF P, U, m, Q, f, g, c, v
<1>0. v \in Int /\ 64 * Q + c < 512 * U /\ 64 * Q + c \in Nat
  <2>1. 64 * Q + c \in Nat /\ 64 * Q + c < 512 * U
    BY <1>1
  <2>2. (2048 * f + 512 * g) * U \in Int
    BY <1>1
  <2> QED
    BY <1>1, <2>1, <2>2
<1>3. BitOf(v, Bits(Word) - 1) = f
  <2> DEFINE S == 2048 * U
             r == 512 * (g * U) + 64 * Q + c
  <2>1. S \in Nat /\ S > 0 /\ r \in 0 .. S - 1 /\ f \in Int /\ v = f * S + r
    <3>1. g * U \in 0 .. U
      BY <1>1
    <3>2. (2048 * f + 512 * g) * U = f * (2048 * U) + 512 * (g * U)
      BY <1>1
    <3> QED
      BY <1>1, <1>0, <3>1, <3>2
  <2> HIDE DEF S, r
  <2>2. v \div S = f
    BY <1>0, <2>1, Remainder
  <2>3. f % 2 = f
    BY <1>1
  <2> QED
    BY <1>2, <2>2, <2>3 DEF BitOf, S
<1>4. BitOf(v, Bits(Word) - 3) = g
  <2> DEFINE S == 512 * U
             r == 64 * Q + c
             q == 4 * f + g
  <2>1. S \in Nat /\ S > 0 /\ r \in 0 .. S - 1 /\ q \in Int /\ v = q * S + r
    <3>2. (2048 * f + 512 * g) * U = (4 * f + g) * (512 * U)
      BY <1>1
    <3> QED
      BY <1>1, <1>0, <3>2
  <2>3. q % 2 = g
    BY <1>1
  <2> HIDE DEF S, r, q
  <2>2. v \div S = q
    BY <1>0, <2>1, Remainder
  <2> QED
    BY <1>2, <2>2, <2>3 DEF BitOf, S
<1>5. (v \div Radix) % 8 = m
  <2> DEFINE S == 64 * P
             h == 32 * f + 8 * g
             q == h * P + m
             F == f * P
             G == g * P
  <2>1. S \in Nat /\ S > 0 /\ c \in 0 .. S - 1 /\ F \in Int /\ G \in Int
    BY <1>1
  <2>2. h * P = 8 * (4 * F + G)
    BY <1>1
  <2>3. q \in Int /\ q % 8 = m
    <3> HIDE DEF F, G, h
    <3> QED
      BY <1>1, <2>1, <2>2
  <2>4. v = q * S + c
    <3>1. (2048 * f + 512 * g) * U = (h * P) * (64 * P)
      BY <1>1
    <3>2. q * S = (h * P) * (64 * P) + m * (64 * P)
      BY <1>1, <2>1
    <3>3. m * (64 * P) = 64 * Q /\ (h * P) * (64 * P) \in Int
      BY <1>1
    <3> HIDE DEF h, q, S
    <3> QED
      BY <1>1, <3>1, <3>2, <3>3
  <2> HIDE DEF S, h, q, F, G
  <2>5. v \div S = q
    BY <1>0, <2>1, <2>3, <2>4, Remainder
  <2> QED
    BY <1>2, <2>3, <2>5 DEF S
<1>6. PICK X \in Int : v = 64 * X + c
  <2> DEFINE X == 8 * ((4 * f + g) * U) + Q
  <2>1. (4 * f + g) * U \in Int /\ (2048 * f + 512 * g) * U = 512 * ((4 * f + g) * U)
    BY <1>1
  <2>2. X \in Int
    BY <1>1, <2>1
  <2>3. v = 64 * X + c
    BY <1>1, <2>1
  <2> HIDE DEF X
  <2> QED
    BY <2>2, <2>3
<1>7. ASSUME NEW k \in 0 .. 4 PROVE BitOf(v, k) = BitOf(c, k)
  <2>1. /\ ((64 * X + c) \div 1) % 2 = (c \div 1) % 2
        /\ ((64 * X + c) \div 2) % 2 = (c \div 2) % 2
        /\ ((64 * X + c) \div 4) % 2 = (c \div 4) % 2
        /\ ((64 * X + c) \div 8) % 2 = (c \div 8) % 2
        /\ ((64 * X + c) \div 16) % 2 = (c \div 16) % 2
    BY <1>1
  <2>2. k = 0 \/ k = 1 \/ k = 2 \/ k = 3 \/ k = 4
    OBVIOUS
  <2>3. BitOf(v, 0) = BitOf(c, 0) /\ BitOf(v, 1) = BitOf(c, 1) /\ BitOf(v, 2) = BitOf(c, 2)
    BY <1>2, <1>6, <2>1 DEF BitOf
  <2>4. BitOf(v, 3) = BitOf(c, 3) /\ BitOf(v, 4) = BitOf(c, 4)
    BY <1>2, <1>6, <2>1 DEF BitOf
  <2> QED
    BY <2>2, <2>3, <2>4
<1> QED
  BY <1>3, <1>4, <1>5, <1>6, <1>7 DEF f, g, m, c, v

-----------------------------------------------------------------------------
(* Exceptions.                                                             *)

(* The entry to an exception saves the status register and the program     *)
(* counter, and leaves the mask and the request.                           *)
LEMMA EnterEntered ==
    ASSUME NEW s \in States, NEW pc \in Values(Long)
    PROVE  /\ Entered(s, pc, Enter(s, pc))
           /\ Enter(s, pc).mask = s.mask /\ Enter(s, pc).level = s.level
           /\ Enter(s, pc).stopped = s.stopped
<1> DEFINE r == [s EXCEPT !.t = FALSE]
           u == SetS(r, TRUE)
           a == Push32(u, pc)
           t == Push16(a, Sr(s))
           top == SuperTop(s)
<1>1. /\ r \in States /\ r.s = s.s /\ r.t = FALSE /\ r.mask = s.mask /\ r.level = s.level
      /\ r.stopped = s.stopped /\ r.sp = s.sp /\ r.dar = s.dar
  BY DEF States
<1>2. Enter(s, pc) = t
  BY DEF Enter
<1>3. top \in Int
  <2>1. s.sp \in [BOOLEAN -> Values(Long)] /\ s.dar[SP] \in Values(Long)
    BY RegisterTyped, Kinds DEF States
  <2>2. s.sp[TRUE] \in Values(Long)
    BY <2>1
  <2> QED
    BY <2>1, <2>2, SpanTyped, Kinds DEF SuperTop
<1> HIDE DEF r, top
<1>4. /\ u \in States /\ u.s = TRUE /\ u.t = FALSE /\ u.mask = s.mask
      /\ u.level = s.level /\ u.stopped = s.stopped
      /\ u.sp = [s.sp EXCEPT ![s.s] = s.dar[SP]]
      /\ u.dar = [s.dar EXCEPT ![SP] = u.sp[TRUE]]
  BY <1>1, SetSIs
<1>5. u.sp[TRUE] = top
  <2>1. s.sp \in [BOOLEAN -> Values(Long)] /\ s.s \in BOOLEAN
    BY DEF States
  <2> QED
    BY <1>4, <2>1 DEF SuperTop, top
<1> HIDE DEF u
<1>6. s.dar \in [0 .. 15 -> Values(Long)] /\ SP \in 0 .. 15
  BY Kinds DEF States
<1>7. u.dar = [s.dar EXCEPT ![SP] = top] /\ u.dar[SP] = top
  BY <1>4, <1>5, <1>6
<1>8. pc \in Int /\ Low(Long, pc) = pc /\ Sr(s) \in Int /\ Low(Word, Sr(s)) = Sr(s)
  BY Numbers, SrWord, Kinds
<1>9. /\ Steady(u, a) /\ a.dar = [u.dar EXCEPT ![SP] = Low(Long, top - 4)]
      /\ Read32(a, a.dar[SP]) = pc
  BY <1>4, <1>7, <1>8, PushSteady, Pushing
<1>10. a \in States /\ a.dar = [s.dar EXCEPT ![SP] = Low(Long, top - 4)]
       /\ a.dar[SP] = Low(Long, top - 4)
  BY <1>6, <1>7, <1>9 DEF Steady
<1> HIDE DEF a
<1>11. /\ Steady(a, t) /\ t.dar = [a.dar EXCEPT ![SP] = Low(Long, a.dar[SP] - 2)]
       /\ Read16(t, t.dar[SP]) = Sr(s) /\ Read32(t, t.dar[SP] + 2) = pc
  BY <1>8, <1>9, <1>10, PushSteady, Pushing
<1>12. Low(Long, Low(Long, top - 4) - 2) = Low(Long, top - 6)
  <2> DEFINE c == top - 4
             k == -2
  <2>1. c \in Int /\ k \in Int /\ c + k = top - 6
    BY <1>3
  <2>2. Low(Long, c) + k = Low(Long, top - 4) - 2
    <3>1. Low(Long, c) \in Int
      BY <2>1, Whole, Kinds
    <3> QED
      BY <3>1
  <2> HIDE DEF c, k
  <2>3. Low(Long, Low(Long, c) + k) = Low(Long, c + k)
    BY <2>1, LowWraps
  <2> QED
    BY <2>1, <2>2, <2>3
<1> HIDE DEF t
<1>13. t.dar = [s.dar EXCEPT ![SP] = Low(Long, top - 6)]
  BY <1>6, <1>10, <1>11, <1>12
<1> QED
  BY <1>2, <1>4, <1>9, <1>11, <1>13 DEF Entered, Steady, top

(* Going to a handler, and then setting the mask and the request.          *)
LEMMA EnteredGoes ==
    ASSUME NEW s, NEW pc, NEW t, Entered(s, pc, t), NEW a \in Int
    PROVE  /\ Entered(s, pc, SetPc(t, a))
           /\ SetPc(t, a).mask = t.mask /\ SetPc(t, a).level = t.level
           /\ SetPc(t, a).stopped = t.stopped
<1> DEFINE u == SetPc(t, a)
<1>1. t \in States
  BY DEF Entered
<1>2. Steady(t, u) /\ u.dar = t.dar /\ u.mem = t.mem
  <2>1. u.dar = t.dar /\ u.mem = t.mem
    BY <1>1 DEF SetPc, States
  <2> QED
    BY <1>1, <2>1, SetPcSteady
<1>3. u \in States
  BY <1>2 DEF Steady
<1> HIDE DEF u
<1>4. ASSUME NEW b
      PROVE  /\ Read16(u, b) = Read16(t, b) /\ Read32(u, b) = Read32(t, b)
  BY <1>2 DEF Read16, Read32, Read8
<1>5. Entered(s, pc, u)
  BY <1>2, <1>4 DEF Entered, Steady
<1> QED
  BY <1>2, <1>5 DEF u, Steady

(* The mask and the request when an interrupt is taken.                    *)
Served(u, l, k) == [u EXCEPT !.mask = l, !.level = k]

(* v is u, entered from s at pc, with the mask l and the request k.        *)
Serving(s, pc, u, l, k, v) ==
    Entered(s, pc, v) /\ v.stopped = u.stopped /\ v.mask = l /\ v.level = k

(* Setting the mask and the request does not disturb what has been saved.  *)
LEMMA EnteredServed ==
    ASSUME NEW s, NEW pc, NEW u, Entered(s, pc, u), NEW l \in 0 .. 7, NEW k \in 0 .. 7
    PROVE  Serving(s, pc, u, l, k, Served(u, l, k))
<1> DEFINE v == Served(u, l, k)
<1>1. u \in States
  BY DEF Entered
<1>2. /\ v \in States /\ v.s = u.s /\ v.t = u.t /\ v.sp = u.sp /\ v.dar = u.dar /\ v.mem = u.mem
      /\ v.stopped = u.stopped /\ v.mask = l /\ v.level = k
  BY <1>1 DEF States, Served
<1> HIDE DEF v
<1>3. ASSUME NEW b
      PROVE  Read16(v, b) = Read16(u, b) /\ Read32(v, b) = Read32(u, b)
  BY <1>2 DEF Read16, Read32, Read8
<1>4. Entered(s, pc, v)
  BY <1>2, <1>3 DEF Entered
<1>5. Serving(s, pc, u, l, k, v)
  BY <1>2, <1>4 DEF Serving
<1> QED
  BY <1>5 DEF v

(* A vector is a long.                                                     *)
LEMMA VectorTyped ==
    ASSUME NEW s \in States, NEW n \in Nat
    PROVE  Vector(s, n) \in Int /\ Vector(s, n) \in Values(Long)
<1>1. 4 * n \in Int
  OBVIOUS
<1> QED
  BY <1>1, ReadTyped, SpanTyped, Kinds DEF Vector

(* The entry to an exception and the jump to its handler.                  *)
LEMMA TakenAt ==
    ASSUME NEW s \in States, NEW pc \in Values(Long), NEW n \in Nat
    PROVE  LET t == JumpVector(Enter(s, pc), n)
           IN  /\ Entered(s, pc, t)
               /\ t.mask = s.mask /\ t.level = s.level /\ t.stopped = s.stopped
<1> DEFINE u == Enter(s, pc)
<1>1. Entered(s, pc, u) /\ u.mask = s.mask /\ u.level = s.level /\ u.stopped = s.stopped
  BY EnterEntered
<1> HIDE DEF u
<1>2. Vector(u, n) \in Int
  BY <1>1, VectorTyped DEF Entered
<1> DEFINE a == Vector(u, n)
<1>4. a \in Int
  BY <1>2
<1> HIDE DEF a
<1>5. /\ Entered(s, pc, SetPc(u, a))
      /\ SetPc(u, a).mask = u.mask /\ SetPc(u, a).level = u.level
      /\ SetPc(u, a).stopped = u.stopped
  BY <1>1, <1>4, EnteredGoes
<1>6. JumpVector(u, n) = SetPc(u, a)
  BY DEF JumpVector, Jump, a
<1> QED
  BY <1>1, <1>5, <1>6 DEF u

(* The exceptions that instructions take.                                  *)
Excepted(s, t) ==
    \E u, pc : /\ Steady(s, u) /\ Entered(u, pc, t)
               /\ t.mask = u.mask /\ t.level = u.level /\ t.stopped = u.stopped

(* Traps, and what stands in for an opcode without a handler, are          *)
(* exceptions.                                                             *)
LEMMA TrapExcepts ==
    ASSUME NEW s, NEW u, Steady(s, u), NEW n \in Nat
    PROVE  Excepted(s, Trap(u, n)) /\ Excepted(s, Instead(u, n))
<1>1. u \in States
  BY DEF Steady
<1>2. u.pc \in Values(Long) /\ u.ppc \in Values(Long)
  BY <1>1, PcTyped
<1>3. ASSUME NEW pc \in Values(Long) PROVE Excepted(s, JumpVector(Enter(u, pc), n))
  BY <1>1, TakenAt DEF Excepted
<1> QED
  BY <1>2, <1>3 DEF Trap, Instead

(* States between instructions.  The bus never halts the processor here.   *)
Good(s) == s \in States /\ s.level <= s.mask /\ "HALT" \notin s.stopped

(* What an instruction may do to s.                                        *)
Legal(s, t) ==
    \/ Steady(s, t)
    \/ Excepted(s, t)
    \/ s.s /\ Good(t)

(* Writing the status register leaves the request waiting.                 *)
LEMMA SetSrTyped ==
    ASSUME NEW s \in States, NEW v \in Int
    PROVE  LET t == SetSrNoInt(s, v)
           IN  t \in States /\ t.level = s.level /\ t.stopped = s.stopped /\ t.pc = s.pc
<1> DEFINE a == BitOf(v, Bits(Word) - 1) = 1
           m == (v \div Radix) % 8
           b == BitOf(v, Bits(Word) - 3) = 1
           c == SetCcr(s, v)
           r == [c EXCEPT !.t = a, !.mask = m]
<1>1. SetSrNoInt(s, v) = SetS(r, b)
  BY DEF SetSrNoInt
<1>2. a \in BOOLEAN /\ b \in BOOLEAN
  OBVIOUS
<1>3. m \in 0 .. 7
  <2>1. v \div Radix \in Int
    BY WidthAssumption, DivisionAlgorithm
  <2> QED
    BY <2>1
<1>4. Steady(s, c) /\ c.pc = s.pc
  BY SetCcrSteady DEF SetCcr, States
<1> HIDE DEF a, m, b, c
<1>5. r \in States /\ r.level = s.level /\ r.stopped = s.stopped /\ r.pc = s.pc
  BY <1>2, <1>3, <1>4 DEF Steady, States
<1> HIDE DEF r
<1>6. b \in BOOLEAN
  BY <1>2
<1> DEFINE q == SetS(r, b)
<1>7. q \in States /\ q.level = r.level /\ q.stopped = r.stopped /\ q.pc = r.pc
  BY <1>5, <1>6, SetSIs
<1> QED
  BY <1>1, <1>5, <1>7

(* Taking an interrupt ends a STOP, saves what is to be saved, sets the    *)
(* mask to the level and drops the request.                                *)
LEMMA InterruptTaken ==
    ASSUME NEW s \in States, NEW l \in 0 .. 7, s.stopped \in {{}, {"STOP"}}
    PROVE  LET t == Interrupt(s, l)
               u == [s EXCEPT !.stopped = @ \ {"STOP"}]
           IN  /\ u \in States /\ Entered(u, s.pc, t)
               /\ t.mask = l /\ t.level = 0 /\ t.stopped = {}
<1> DEFINE u == [s EXCEPT !.stopped = @ \ {"STOP"}]
           e == Enter(u, u.pc)
           a == Handler(u, Vector(u, Autovector + l))
<1>1. u \in States /\ u.stopped = {} /\ u.pc = s.pc
  BY DEF States
<1>2. Interrupt(s, l) = [Jump(e, a) EXCEPT !.mask = l, !.level = 0]
  <2>1. Interrupt(s, l) = Interrupted(u, l)
    BY DEF Interrupt
  <2> HIDE DEF u
  <2> QED
    BY <1>1, <2>1 DEF Interrupted
<1> HIDE DEF u
<1>3. u.pc \in Values(Long)
  BY <1>1, PcTyped
<1>4. Entered(u, u.pc, e) /\ e.stopped = {}
  BY <1>1, <1>3, EnterEntered
<1>5. a \in Int
  <2>1. Uninitialized \in Nat /\ Autovector + l \in Nat
    BY DEF Uninitialized, Autovector
  <2> QED
    BY <1>1, <2>1, VectorTyped DEF Handler
<1> DEFINE p == u.pc
           j == SetPc(e, a)
<1> HIDE DEF e, a, p
<1>6. Entered(u, p, j) /\ j.stopped = e.stopped
  BY <1>4, <1>5, EnteredGoes DEF p
<1> HIDE DEF j
<1> DEFINE zero == 0
<1>7. zero \in 0 .. 7
  OBVIOUS
<1> HIDE DEF zero
<1>8. Serving(u, p, j, l, zero, Served(j, l, zero))
  BY <1>6, <1>7, EnteredServed
<1> QED
  BY <1>1, <1>2, <1>4, <1>6, <1>8 DEF Serving, Jump, Served, u, p, j, zero

(* Looking for a request after the mask has changed leaves none that could *)
(* be taken.                                                               *)
LEMMA CheckedGood ==
    ASSUME NEW s \in States, "HALT" \notin s.stopped
    PROVE  Good(CheckInterrupts(s))
<1>1. s.stopped \in {{}, {"STOP"}} /\ s.level \in 0 .. 7 /\ s.mask \in 0 .. 7
  BY DEF States
<1>2. CASE s.level > s.mask
  <2>1. CheckInterrupts(s) = Interrupt(s, s.level)
    BY <1>2 DEF CheckInterrupts
  <2>2. /\ Interrupt(s, s.level) \in States /\ Interrupt(s, s.level).mask = s.level
        /\ Interrupt(s, s.level).level = 0 /\ Interrupt(s, s.level).stopped = {}
    BY <1>1, InterruptTaken DEF Entered
  <2> QED
    BY <1>1, <2>1, <2>2 DEF Good
<1>3. CASE ~ (s.level > s.mask)
  BY <1>1, <1>3 DEF CheckInterrupts, Good
<1> QED
  BY <1>2, <1>3

(* Resetting the processor sets the mask to its top.                       *)
LEMMA ResetGood ==
    ASSUME NEW s \in States
    PROVE  Good(PulseReset(s))
<1> DEFINE off == FALSE
           o == [s EXCEPT !.stopped = {}, !.left = 0]
           seven == 7
           q == [o EXCEPT !.t = off, !.mask = seven]
           b == TRUE
           r == SetS(q, b)
           zero == 0
           four == 4
           v == Read32(s, zero)
           w == Read32(s, four)
           u == Set(r, SP, v)
<1>1. PulseReset(s) = SetPc(u, w)
  BY DEF PulseReset
<1>2. zero \in Int /\ four \in Int /\ b \in BOOLEAN /\ off \in BOOLEAN
      /\ seven \in 0 .. 7
  OBVIOUS
<1>9. off \in BOOLEAN /\ seven \in 0 .. 7
  BY <1>2
<1> HIDE DEF zero, four, b, off, seven
<1>3. v \in Int /\ w \in Int
  BY <1>2, ReadTyped, SpanTyped, Kinds
<1>8. o \in States /\ o.stopped = {} /\ o.level \in 0 .. 7
  BY DEF States
<1> HIDE DEF o
<1>4. q \in States /\ q.mask = seven /\ q.stopped = {} /\ q.level \in 0 .. 7
  BY <1>8, <1>9 DEF States
<1> HIDE DEF q, v, w
<1>5. r \in States /\ r.mask = q.mask /\ r.level = q.level /\ r.stopped = q.stopped
  BY <1>2, <1>4, SetSIs
<1> HIDE DEF r
<1>6. Steady(r, u) /\ u \in States
  BY <1>3, <1>5, SetSteady, Kinds DEF Steady
<1> HIDE DEF u
<1>7. Steady(r, SetPc(u, w))
  BY <1>3, <1>6, SetPcSteady, SteadyOn
<1> QED
  BY <1>1, <1>4, <1>5, <1>7 DEF Steady, Good, seven

(* Writing the status register looks for a request in the end.            *)
LEMMA SetSrGood ==
    ASSUME NEW s \in States, "HALT" \notin s.stopped, NEW v \in Int
    PROVE  Good(SetSr(s, v))
BY SetSrTyped, CheckedGood DEF SetSr

-----------------------------------------------------------------------------
(* The handlers that have no form in common with others.                   *)

(* An extension word, seen from the handlers.                              *)
LEMMA Words ==
    ASSUME NEW s \in States
    PROVE  LET e == Imm16(s)
           IN  /\ e.s \in States /\ e.v \in Values(Word) /\ e.v \in Int /\ e.s.dar = s.dar
               /\ Steady(s, e.s) /\ \A u : Steady(e.s, u) => Steady(s, u)
<1> DEFINE e == Imm16(s)
<1>1. Yields(s, e, Values(Word)) /\ e.s.dar = s.dar
  BY ImmediateYields
<1> HIDE DEF e
<1>2. /\ e.s \in States /\ e.v \in Values(Word) /\ Steady(s, e.s)
      /\ \A u : Steady(e.s, u) => Steady(s, u)
  BY <1>1, Onward
<1> QED
  BY <1>1, <1>2, SpanTyped, Kinds DEF e

(* The address of a control mode, seen from the handlers.                  *)
LEMMA Addresses ==
    ASSUME NEW s \in States, NEW m \in Control, NEW y \in Reg
    PROVE  LET e == Ea(s, Long, m, y)
           IN  /\ e.s \in States /\ e.v \in Int /\ e.s.dar = s.dar
               /\ Steady(s, e.s) /\ \A u : Steady(e.s, u) => Steady(s, u)
<1> DEFINE e == Ea(s, Long, m, y)
<1>1. m \in Memory /\ Long \in Width
  BY Modes, Kinds
<1>2. Yields(s, e, Int) /\ e.s.dar = s.dar
  BY <1>1, EaYields
<1> HIDE DEF e
<1>3. /\ e.s \in States /\ e.v \in Int /\ Steady(s, e.s)
      /\ \A u : Steady(e.s, u) => Steady(s, u)
  BY <1>2, Onward
<1> QED
  BY <1>2, <1>3 DEF e

(* JMP, JSR, LEA and PEA are steady.                                       *)
LEMMA ByAddressSteady ==
    ASSUME NEW s \in States, NEW m \in Control, NEW x \in Reg, NEW y \in Reg
    PROVE  /\ Steady(s, jmp_32(s, m, y)) /\ Steady(s, jsr_32(s, m, y))
           /\ Steady(s, pea_32(s, m, y)) /\ Steady(s, lea_32(s, m, x, y))
<1> DEFINE e == Ea(s, Long, m, y)
           t == e.s
           a == e.v
           p == Push32(t, t.pc)
           j == SetPc(t, a)
<1>1. /\ jmp_32(s, m, y) = Idle(j) /\ jsr_32(s, m, y) = SetPc(p, a)
      /\ pea_32(s, m, y) = Push32(t, a) /\ lea_32(s, m, x, y) = Set(t, A(x), a)
  BY DEF jmp_32, jsr_32, pea_32, lea_32, Then, Jump
<1>2. t \in States /\ a \in Int /\ \A u : Steady(t, u) => Steady(s, u)
  BY Addresses
<1> HIDE DEF t, a
<1>3. Steady(t, p) /\ p \in States /\ Steady(t, j) /\ j \in States
  <2>1. t.pc \in Int
    BY <1>2, PcTyped
  <2>2. Steady(t, p) /\ Steady(t, j)
    BY <1>2, <2>1, PushSteady, SetPcSteady
  <2> QED
    BY <2>2 DEF Steady
<1> HIDE DEF p, j
<1>4. Steady(p, SetPc(p, a)) /\ Steady(j, Idle(j))
  BY <1>2, <1>3, SetPcSteady, BranchSteady
<1>5. Steady(t, SetPc(p, a)) /\ Steady(t, Idle(j)) /\ Steady(t, Push32(t, a))
  BY <1>2, <1>3, <1>4, SteadyOn, PushSteady
<1>6. A(x) \in 0 .. 15
  BY Kinds
<1>7. Steady(t, Set(t, A(x), a))
  BY <1>2, <1>6, SetSteady
<1> QED
  BY <1>1, <1>2, <1>5, <1>7

(* Branches, calls and returns are steady.                                 *)
LEMMA SubroutineSteady ==
    ASSUME NEW s \in States
    PROVE  /\ \A d \in Int : Steady(s, bra_8(s, d)) /\ Steady(s, bsr_8(s, d))
           /\ Steady(s, bra_16(s)) /\ Steady(s, bsr_16(s))
           /\ Steady(s, rts_32(s)) /\ Steady(s, rtr_32(s))
<1>1. s.pc \in Int
  BY PcTyped
<1>2. ASSUME NEW d \in Int PROVE Steady(s, bra_8(s, d)) /\ Steady(s, bsr_8(s, d))
  <2> DEFINE b == Branch8(s, d)
             p == Push32(s, s.pc)
  <2>1. Steady(s, b) /\ Steady(s, p)
    BY <1>1, BranchSteady, PushSteady
  <2>2. b \in States /\ p \in States
    BY <2>1 DEF Steady
  <2> HIDE DEF b, p
  <2>3. Steady(b, Idle(b)) /\ Steady(p, Branch8(p, d))
    BY <2>2, BranchSteady
  <2>4. Steady(s, Idle(b)) /\ Steady(s, Branch8(p, d))
    BY <2>1, <2>3, SteadyOn
  <2> QED
    BY <2>4 DEF bra_8, bsr_8, b, p
<1>3. Steady(s, bra_16(s))
  <2> DEFINE b == Branch16(s)
  <2>1. Steady(s, b) /\ b \in States
    BY BranchSteady DEF Steady
  <2> HIDE DEF b
  <2>2. Steady(s, Idle(b))
    BY <2>1, BranchSteady, SteadyOn
  <2> QED
    BY <2>2 DEF bra_16, b
<1>4. Steady(s, bsr_16(s))
  <2> DEFINE e == Imm16(s)
             p == Push32(e.s, e.s.pc)
             a == s.pc + Signed(Word, e.v)
  <2>1. bsr_16(s) = SetPc(p, a)
    BY DEF bsr_16, Then, Jump
  <2>2. e.s \in States /\ e.v \in Int /\ \A u : Steady(e.s, u) => Steady(s, u)
    BY Words
  <2> HIDE DEF e
  <2>3. Signed(Word, e.v) \in Int
    BY <2>2, Whole, Kinds
  <2>4. a \in Int
    BY <1>1, <2>3
  <2>5. e.s.pc \in Int
    BY <2>2, PcTyped
  <2>6. Steady(e.s, p)
    BY <2>2, <2>5, PushSteady
  <2>7. p \in States
    BY <2>6 DEF Steady
  <2> HIDE DEF p, a
  <2>8. Steady(p, SetPc(p, a))
    BY <2>4, <2>7, SetPcSteady
  <2> QED
    BY <2>1, <2>2, <2>6, <2>8, SteadyOn
<1>5. Steady(s, rts_32(s))
  BY ReturnSteady DEF rts_32
<1>6. Steady(s, rtr_32(s))
  <2> DEFINE e == Pull16(s)
             c == SetCcr(e.s, e.v)
  <2>1. rtr_32(s) = Return(c)
    BY DEF rtr_32, Then
  <2>2. Yields(s, e, Values(Word))
    BY PullYields
  <2> HIDE DEF e
  <2>3. e.s \in States /\ \A u : Steady(e.s, u) => Steady(s, u)
    BY <2>2, Onward
  <2>4. Steady(e.s, c) /\ c \in States
    BY <2>3, SetCcrSteady DEF Steady
  <2> HIDE DEF c
  <2>5. Steady(e.s, Return(c))
    BY <2>4, ReturnSteady, SteadyOn
  <2> QED
    BY <2>1, <2>3, <2>5
<1> QED
  BY <1>2, <1>3, <1>4, <1>5, <1>6

(* LINK and UNLK are steady, on the stack pointer too.                     *)
LEMMA LinkSteady ==
    ASSUME NEW s \in States, NEW y \in Reg
    PROVE  /\ Steady(s, link_16(s, y)) /\ Steady(s, unlk_32(s, y))
           /\ Steady(s, link_16_a7(s)) /\ Steady(s, unlk_32_a7(s))
<1>1. s.dar[A(y)] \in Int /\ s.dar[SP] \in Int /\ SP \in 0 .. 15 /\ A(y) \in 0 .. 15
  BY RegisterTyped, Kinds
<1>2. Steady(s, link_16(s, y))
  <2> DEFINE v == s.dar[A(y)]
             top == s.dar[SP] - 4
             p == Push32(s, v)
             q == Set(p, A(y), top)
  <2>1. link_16(s, y) = Frame(q)
    BY DEF link_16
  <2>2. v \in Int /\ top \in Int
    BY <1>1
  <2> HIDE DEF v, top
  <2>3. Steady(s, p) /\ p \in States
    BY <2>2, PushSteady DEF Steady
  <2> HIDE DEF p
  <2>4. Steady(p, q) /\ q \in States
    BY <1>1, <2>2, <2>3, SetSteady DEF Steady
  <2> HIDE DEF q
  <2>5. Steady(q, Frame(q))
    BY <2>4, FrameSteady
  <2> QED
    BY <2>1, <2>3, <2>4, <2>5, SteadyOn
<1>3. Steady(s, unlk_32(s, y))
  <2> DEFINE v == s.dar[A(y)]
             p == Set(s, SP, v)
             e == Pull32(p)
  <2>1. unlk_32(s, y) = Set(e.s, A(y), e.v)
    BY DEF unlk_32, Then
  <2>2. v \in Int
    BY <1>1
  <2> HIDE DEF v
  <2>3. Steady(s, p) /\ p \in States
    BY <1>1, <2>2, SetSteady DEF Steady
  <2> HIDE DEF p
  <2>4. Yields(p, e, Values(Long))
    BY <2>3, PullYields
  <2> HIDE DEF e
  <2>5. e.s \in States /\ e.v \in Int /\ \A u : Steady(e.s, u) => Steady(p, u)
    BY <2>4, Onward, SpanTyped, Kinds
  <2>6. Steady(p, Set(e.s, A(y), e.v))
    BY <1>1, <2>5, SetSteady
  <2> QED
    BY <2>1, <2>3, <2>6, SteadyOn
<1>4. Steady(s, link_16_a7(s))
  <2> DEFINE top == s.dar[SP] - 4
             v == Low(Long, top)
             p == Push32(s, v)
  <2>1. link_16_a7(s) = Frame(p)
    BY DEF link_16_a7
  <2>2. top \in Int
    BY <1>1
  <2> HIDE DEF top
  <2>3. v \in Int
    BY <2>2, Whole, Kinds
  <2> HIDE DEF v
  <2>4. Steady(s, p) /\ p \in States
    BY <2>3, PushSteady DEF Steady
  <2> HIDE DEF p
  <2>5. Steady(p, Frame(p))
    BY <2>4, FrameSteady
  <2> QED
    BY <2>1, <2>4, <2>5, SteadyOn
<1>5. Steady(s, unlk_32_a7(s))
  <2> DEFINE a == s.dar[SP]
             v == Read32(s, a)
  <2>1. a \in Int
    BY <1>1
  <2> HIDE DEF a
  <2>2. v \in Int
    BY <2>1, ReadTyped, SpanTyped, Kinds
  <2>3. unlk_32_a7(s) = Set(s, SP, v)
    BY DEF unlk_32_a7, a
  <2> HIDE DEF v
  <2> QED
    BY <1>1, <2>2, <2>3, SetSteady
<1> QED
  BY <1>2, <1>3, <1>4, <1>5

(* CHK and the divisions are steady or end in an exception.                *)
LEMMA FaultLegal ==
    ASSUME NEW s \in States, NEW m \in DataModes, NEW x \in Reg, NEW y \in Reg
    PROVE  /\ Legal(s, chk_16(s, m, x, y))
           /\ Legal(s, divs_16(s, m, x, y)) /\ Legal(s, divu_16(s, m, x, y))
<1> DEFINE e == Operand(s, Word, m, y)
           t == e.s
           v == e.v
           c == s.dar[x]
<1>1. /\ t \in States /\ Steady(s, t) /\ v \in Values(Word) /\ v \in Int
      /\ \A u : Steady(t, u) => Steady(s, u)
  BY Operands, Modes, Kinds, SteadyIs
<1>2. c \in Int
  BY RegisterTyped, Kinds
<1>3. /\ chk_16(s, m, x, y) = CheckBound(t, Signed(Word, c), Signed(Word, v))
      /\ divs_16(s, m, x, y) =
           IF v = 0 THEN Trap(t, ZeroDivide)
           ELSE IF c = Span(Long) \div 2 /\ v = Span(Word) - 1
           THEN MarkNZVC(Set(t, x, 0), Plain(Word, 0))
           ELSE DividedSigned(t, x, DivideSigned(c, v))
      /\ divu_16(s, m, x, y) =
           IF v = 0 THEN Trap(t, ZeroDivide)
           ELSE DividedUnsigned(t, x, DivideUnsigned(c, v))
  BY DEF chk_16, divs_16, divu_16, Then
<1> HIDE DEF t, v, c
<1>4. Legal(s, Trap(t, ZeroDivide))
  <2>1. ZeroDivide \in Nat
    BY DEF ZeroDivide
  <2> QED
    BY <1>1, <2>1, TrapExcepts DEF Legal
<1>5. Legal(s, chk_16(s, m, x, y))
  <2> DEFINE i == Signed(Word, c)
             b == Signed(Word, v)
             k == Checked(t, i)
             low == i < 0
             l == [k EXCEPT !.n = low]
  <2>1. chk_16(s, m, x, y) = IF i >= 0 /\ i <= b THEN k ELSE Trap(l, Chk)
    BY <1>3 DEF CheckBound
  <2>2. Steady(t, k)
    <3> DEFINE z == i = 0
    <3>1. k = [t EXCEPT !.z = z, !.v = FALSE, !.c = FALSE] /\ z \in BOOLEAN
      BY DEF Checked
    <3> HIDE DEF z
    <3> QED
      BY <1>1, <3>1 DEF Steady, States
  <2>3. k \in States /\ low \in BOOLEAN
    BY <2>2 DEF Steady
  <2> HIDE DEF k, low
  <2>4. Steady(t, l)
    BY <2>2, <2>3, FlagSteady, SteadyOn
  <2> HIDE DEF l
  <2>5. Steady(s, k) /\ Steady(s, l)
    BY <1>1, <2>2, <2>4
  <2>6. Chk \in Nat
    BY DEF Chk
  <2> QED
    BY <2>1, <2>5, <2>6, TrapExcepts DEF Legal
<1>6. ASSUME v # 0
      PROVE  /\ Steady(s, DividedUnsigned(t, x, DivideUnsigned(c, v)))
             /\ Steady(s, DividedSigned(t, x, DivideSigned(c, v)))
  <2> DEFINE d == DivideUnsigned(c, v)
             g == DivideSigned(c, v)
  <2>1. d.q \in Int /\ d.r \in Int /\ g.q \in Int /\ g.r \in Int
    BY <1>1, <1>2, <1>6, Quotients
  <2> HIDE DEF d, g
  <2>2. Steady(t, Divided(t, x, d, d.q < Span(Word)))
    BY <1>1, <2>1, DividedSteady
  <2>3. Steady(t, Divided(t, x, g, g.q = Signed(Word, g.q)))
    BY <1>1, <2>1, DividedSteady
  <2> QED
    BY <1>1, <2>2, <2>3 DEF DividedUnsigned, DividedSigned, d, g
<1>7. Steady(s, MarkNZVC(Set(t, x, 0), Plain(Word, 0)))
  <2> DEFINE zero == 0
             p == Set(t, x, zero)
             q == Plain(Word, zero)
  <2>1. zero \in Int /\ x \in 0 .. 15
    BY Kinds
  <2> HIDE DEF zero
  <2>2. Steady(t, p) /\ p \in States
    BY <1>1, <2>1, SetSteady DEF Steady
  <2>3. Left(q)
    BY <2>1, PlainLeft, Kinds
  <2> HIDE DEF p, q
  <2>4. Steady(p, MarkNZVC(p, q))
    BY <2>2, <2>3, MarkSteady
  <2> QED
    BY <1>1, <2>2, <2>4, SteadyOn DEF p, q, zero
<1> QED
  BY <1>3, <1>4, <1>5, <1>6, <1>7 DEF Legal

(* The privileged instructions.                                            *)
LEMMA PrivilegeLegal ==
    ASSUME NEW s \in States
    PROVE  Legal(s, PrivilegeViolation(s))
<1>1. Privilege \in Nat
  BY DEF Privilege
<1> QED
  BY <1>1, SteadyIs, TrapExcepts DEF PrivilegeViolation, Legal

(* Writing the status register after a steady step.                        *)
LEMMA SteadySrGood ==
    ASSUME NEW s, Good(s), NEW t, Steady(s, t), NEW v \in Int
    PROVE  Good(SetSr(t, v))
<1>1. t \in States /\ "HALT" \notin t.stopped
  BY DEF Good, Steady
<1> QED
  BY <1>1, SetSrGood

(* The instructions that write the status register are refused in user     *)
(* mode.                                                                   *)
LEMMA StatusLegal ==
    ASSUME NEW s, Good(s)
    PROVE  /\ Legal(s, andi_16_tos(s)) /\ Legal(s, eori_16_tos(s)) /\ Legal(s, ori_16_tos(s))
           /\ Legal(s, rte_32(s))
           /\ \A m \in DataModes, y \in Reg : Legal(s, move_16_tos(s, m, y))
<1>1. s \in States
  BY DEF Good
<1>2. CASE ~s.s
  <2>1. Legal(s, PrivilegeViolation(s))
    BY <1>1, PrivilegeLegal
  <2> QED
    BY <1>2, <2>1 DEF andi_16_tos, eori_16_tos, ori_16_tos, ToSr, rte_32, move_16_tos
<1>3. CASE s.s
  <2> DEFINE e == Imm16(s)
             a == And(Word, Sr(s), e.v)
             b == Xor(Word, Sr(s), e.v)
             c == Or(Word, Sr(s), e.v)
  <2>1. /\ andi_16_tos(s) = SetSr(e.s, a)
        /\ eori_16_tos(s) = SetSr(e.s, b)
        /\ ori_16_tos(s) = SetSr(e.s, c)
    BY <1>3 DEF andi_16_tos, eori_16_tos, ori_16_tos, ToSr, Then
  <2>2. Steady(s, e.s) /\ e.v \in Int
    BY <1>1, Words
  <2> HIDE DEF e
  <2>3. a \in Int /\ b \in Int /\ c \in Int
    <3>1. Sr(s) \in Int
      BY <1>1, StatusNumber
    <3> QED
      BY <2>2, <3>1, BitwiseTyped, Kinds
  <2> HIDE DEF a, b, c
  <2>4. Good(SetSr(e.s, a)) /\ Good(SetSr(e.s, b)) /\ Good(SetSr(e.s, c))
    BY <2>2, <2>3, SteadySrGood
  <2>5. Good(rte_32(s))
    <3> DEFINE p == Pull16(s)
               r == Return(p.s)
    <3>1. rte_32(s) = SetSr(r, p.v)
      BY <1>3 DEF rte_32, Then
    <3>2. Yields(s, p, Values(Word))
      BY <1>1, PullYields
    <3> HIDE DEF p
    <3>3. p.s \in States /\ p.v \in Int /\ Steady(s, p.s)
      BY <3>2, Onward, SpanTyped, Kinds
    <3>4. Steady(s, r)
      BY <3>3, ReturnSteady, SteadyOn
    <3> HIDE DEF r
    <3> QED
      BY <3>1, <3>3, <3>4, SteadySrGood
  <2>6. ASSUME NEW m \in DataModes, NEW y \in Reg PROVE Good(move_16_tos(s, m, y))
    <3> DEFINE p == Operand(s, Word, m, y)
    <3>1. move_16_tos(s, m, y) = SetSr(p.s, p.v)
      BY <1>3 DEF move_16_tos, Then
    <3>2. p.s \in States /\ p.v \in Int /\ \A u : Steady(p.s, u) => Steady(s, u)
      BY <1>1, Operands, Modes, Kinds
    <3> HIDE DEF p
    <3>3. Steady(s, p.s)
      BY <3>2, SteadyIs
    <3> QED
      BY <3>1, <3>2, <3>3, SteadySrGood
  <2> QED
    BY <1>3, <2>1, <2>4, <2>5, <2>6 DEF Legal
<1> QED
  BY <1>2, <1>3

(* So are STOP and RESET.                                                  *)
LEMMA StopLegal ==
    ASSUME NEW s, Good(s)
    PROVE  Legal(s, stop(s)) /\ Legal(s, reset(s))
<1>1. s \in States /\ s.stopped \in {{}, {"STOP"}} /\ s.level <= s.mask
  BY DEF Good, States
<1>2. CASE ~s.s
  BY <1>1, <1>2, PrivilegeLegal DEF stop, reset
<1>3. CASE s.s
  <2>1. Good(stop(s))
    <3> DEFINE e == Imm16(s)
               t == e.s
               h == [t EXCEPT !.stopped = @ \cup {"STOP"}]
               g == SetSr(h, e.v)
    <3>1. stop(s) = [g EXCEPT !.left = 0]
      BY <1>3 DEF stop, Then
    <3>2. Steady(s, t) /\ e.v \in Int
      BY <1>1, Words
    <3> HIDE DEF e
    <3>3. h \in States /\ "HALT" \notin h.stopped
      BY <1>1, <3>2 DEF Steady, States
    <3> HIDE DEF h
    <3>4. Good(g)
      BY <3>2, <3>3, SetSrGood
    <3> HIDE DEF g
    <3> QED
      BY <3>1, <3>4 DEF Good, States
  <2>2. Good(reset(s))
    BY <1>1, <1>3, ResetGood DEF reset
  <2> QED
    BY <1>3, <2>1, <2>2 DEF Legal
<1> QED
  BY <1>2, <1>3

(* So are the moves from and to the user's stack pointer.                  *)
LEMMA StackPointerLegal ==
    ASSUME NEW s, Good(s), NEW y \in Reg
    PROVE  Legal(s, move_32_fru(s, y)) /\ Legal(s, move_32_tou(s, y))
<1>1. s \in States /\ A(y) \in 0 .. 15
  BY Kinds DEF Good
<1>2. CASE ~s.s
  BY <1>1, <1>2, PrivilegeLegal DEF move_32_fru, move_32_tou
<1>3. CASE s.s
  <2>1. Legal(s, move_32_fru(s, y))
    <3> DEFINE v == s.sp[FALSE]
    <3>1. v \in Int
      <4>1. s.sp \in [BOOLEAN -> Values(Long)]
        BY <1>1 DEF States
      <4> QED
        BY <4>1, SpanTyped, Kinds
    <3>2. move_32_fru(s, y) = Set(s, A(y), v)
      BY <1>3 DEF move_32_fru
    <3> HIDE DEF v
    <3> QED
      BY <1>1, <3>1, <3>2, SetSteady DEF Legal
  <2>2. Good(move_32_tou(s, y))
    <3> DEFINE v == s.dar[A(y)]
               sp == [s.sp EXCEPT ![FALSE] = v]
    <3>1. v \in Values(Long)
      BY <1>1, RegisterTyped
    <3> HIDE DEF v
    <3>2. sp \in [BOOLEAN -> Values(Long)]
      BY <1>1, <3>1 DEF States
    <3>3. move_32_tou(s, y) = [s EXCEPT !.sp = sp]
      BY <1>1, <1>3 DEF move_32_tou, v, States
    <3> HIDE DEF sp
    <3> QED
      BY <1>1, <3>2, <3>3 DEF Good, States
  <2> QED
    BY <1>3, <2>1, <2>2 DEF Legal
<1> QED
  BY <1>2, <1>3

(* What is left: the status register as an operand, constants and bits     *)
(* numbered by an extension word.                                          *)
LEMMA StatusOperandSteady ==
    ASSUME NEW s \in States, NEW m \in AllModes \ {"i"}, NEW y \in Reg
    PROVE  Steady(s, move_16_frs(s, m, y))
<1>1. Sr(s) \in Int
  BY StatusNumber
<1> QED
  BY <1>1, AlterLogic, Kinds DEF move_16_frs

(* MOVE to the condition codes is steady.                                  *)
LEMMA ToCcrFromSteady ==
    ASSUME NEW s \in States, NEW m \in AllModes, NEW y \in Reg
    PROVE  Steady(s, move_16_toc(s, m, y))
<1> DEFINE e == Operand(s, Word, m, y)
<1>1. move_16_toc(s, m, y) = SetCcr(e.s, e.v)
  BY DEF move_16_toc, Then
<1>2. e.s \in States /\ \A u : Steady(e.s, u) => Steady(s, u)
  BY Operands, Kinds
<1> HIDE DEF e
<1> QED
  BY <1>1, <1>2, SetCcrSteady

(* ADDQ and SUBQ on address registers, and MOVEQ, are steady.              *)
LEMMA QuickSteady ==
    ASSUME NEW s \in States, NEW x \in Reg, NEW y \in Reg
    PROVE  /\ Steady(s, addq_16_a(s, x, y)) /\ Steady(s, addq_32_a(s, x, y))
           /\ Steady(s, subq_16_a(s, x, y)) /\ Steady(s, subq_32_a(s, x, y))
           /\ \A d \in Int : Steady(s, moveq_32(s, d, x))
<1> DEFINE a == s.dar[A(y)] + Quick(x)
           b == s.dar[A(y)] - Quick(x)
<1>1. a \in Int /\ b \in Int
  <2>1. s.dar[A(y)] \in Int /\ Quick(x) \in Int
    BY Fields, InOpcodeFields
  <2> QED
    BY <2>1
<1>2. A(y) \in 0 .. 15
  BY Kinds
<1>3. /\ addq_16_a(s, x, y) = Set(s, A(y), a) /\ addq_32_a(s, x, y) = Set(s, A(y), a)
      /\ subq_16_a(s, x, y) = Set(s, A(y), b) /\ subq_32_a(s, x, y) = Set(s, A(y), b)
  BY DEF addq_16_a, addq_32_a, subq_16_a, subq_32_a
<1> HIDE DEF a, b
<1>4. ASSUME NEW d \in Int PROVE Steady(s, moveq_32(s, d, x))
  <2> DEFINE v == Extend(Byte, d)
  <2>1. v \in Int
    BY Whole, Kinds
  <2>2. moveq_32(s, d, x) = Alter(s, Long, "d", x, v, Source, MarkNZVC)
    BY DEF moveq_32
  <2> HIDE DEF v
  <2> QED
    BY <2>1, <2>2, AlterLogic, Modes, Kinds
<1> QED
  BY <1>1, <1>2, <1>3, <1>4, SetSteady

(* The operations on a bit numbered by an extension word are steady.       *)
LEMMA NumberedBitSteady ==
    ASSUME NEW s \in States, NEW y \in Reg
    PROVE  /\ Steady(s, bchg_32_s(s, y)) /\ Steady(s, bclr_32_s(s, y))
           /\ Steady(s, bset_32_s(s, y)) /\ Steady(s, btst_32_s(s, y))
           /\ \A m \in AllModes \ {"i"} :
                 /\ Steady(s, bchg_8_s(s, m, y)) /\ Steady(s, bclr_8_s(s, m, y))
                 /\ Steady(s, bset_8_s(s, m, y)) /\ Steady(s, btst_8_s(s, m, y))
<1> DEFINE e == Imm16(s)
           t == e.s
           n == e.v
<1>1. t \in States /\ n \in Int /\ \A u : Steady(t, u) => Steady(s, u)
  BY Words
<1>2. /\ bchg_32_s(s, y) = AlterBit(t, Long, "d", y, n, Flip)
      /\ bclr_32_s(s, y) = AlterBit(t, Long, "d", y, n, ClearBit)
      /\ bset_32_s(s, y) = AlterBit(t, Long, "d", y, n, SetBit)
      /\ btst_32_s(s, y) = TestBit(t, Long, "d", y, n)
  BY DEF bchg_32_s, bclr_32_s, bset_32_s, btst_32_s, Then
<1>3. ASSUME NEW m \in AllModes \ {"i"}
      PROVE  /\ bchg_8_s(s, m, y) = AlterBit(t, Byte, m, y, n, Flip)
             /\ bclr_8_s(s, m, y) = AlterBit(t, Byte, m, y, n, ClearBit)
             /\ bset_8_s(s, m, y) = AlterBit(t, Byte, m, y, n, SetBit)
             /\ btst_8_s(s, m, y) = TestBit(t, Byte, m, y, n)
  BY DEF bchg_8_s, bclr_8_s, bset_8_s, btst_8_s, Then
<1> HIDE DEF e, t, n
<1>4. /\ Steady(t, AlterBit(t, Long, "d", y, n, Flip))
      /\ Steady(t, AlterBit(t, Long, "d", y, n, ClearBit))
      /\ Steady(t, AlterBit(t, Long, "d", y, n, SetBit))
      /\ Steady(t, TestBit(t, Long, "d", y, n))
  BY <1>1, AlterBits, TestBitSteady, Modes, Kinds
<1>5. ASSUME NEW m \in AllModes \ {"i"}
      PROVE  /\ Steady(t, AlterBit(t, Byte, m, y, n, Flip))
             /\ Steady(t, AlterBit(t, Byte, m, y, n, ClearBit))
             /\ Steady(t, AlterBit(t, Byte, m, y, n, SetBit))
             /\ Steady(t, TestBit(t, Byte, m, y, n))
  BY <1>1, AlterBits, TestBitSteady, Kinds
<1> QED
  BY <1>1, <1>2, <1>3, <1>4, <1>5

-----------------------------------------------------------------------------
(* Every group of handlers.                                                *)

(* The modes a MOVE can write to are among those an operand can be changed *)
(* at.                                                                     *)
LEMMA Destinations ==
    /\ \A to \in {"d", "ai", "pi", "pd", "di", "ix", "aw", "al"} : to \in AllModes \ {"i"}
    /\ Memory \subseteq AllModes \ {"i"}
    /\ 7 \in Reg
BY DEF AllModes, DataModes, Memory, Alterable, Reg

(* The handlers that write the status register, stop or reset do what an   *)
(* instruction may do.                                                     *)
LEMMA SystemLegal ==
    ASSUME NEW s, Good(s), System(s)
    PROVE  Legal(s, cpu')
<1>1. s \in States /\ \A t : Steady(s, t) => Legal(s, t)
  BY DEF Good, Legal
<1>2. cpu' \in {andi_16_tos(s), eori_16_tos(s), ori_16_tos(s), reset(s), rte_32(s), stop(s)}
  BY Zenon DEF System
<1>3. /\ Legal(s, andi_16_tos(s))
      /\ Legal(s, eori_16_tos(s))
      /\ Legal(s, ori_16_tos(s))
      /\ Legal(s, rte_32(s))
  BY <1>1, StatusLegal, Modes, Kinds
<1>4. /\ Legal(s, reset(s))
      /\ Legal(s, stop(s))
  BY <1>1, StopLegal, Modes, Kinds
<1> QED
  BY <1>1, <1>2, <1>3, <1>4

(* The handlers that move the user's stack pointer do what an instruction  *)
(* may do.                                                                 *)
LEMMA SystemRegistersLegal ==
    ASSUME NEW s, Good(s), SystemRegisters(s)
    PROVE  Legal(s, cpu')
<1>1. s \in States /\ \A t : Steady(s, t) => Legal(s, t)
  BY DEF Good, Legal
<1>2. PICK y \in Ys :
        cpu' \in {move_32_fru(s, y), move_32_tou(s, y)}
  BY Zenon DEF SystemRegisters
<1>3. y \in Reg
  BY <1>2, ProgramAssumption, Modes, Destinations DEF Control, Memory, Alterable
<1>4. /\ Legal(s, move_32_fru(s, y))
      /\ Legal(s, move_32_tou(s, y))
  BY <1>1, <1>3, StackPointerLegal, Modes, Kinds
<1> QED
  BY <1>1, <1>2, <1>4

(* The handlers that write the status register or the condition codes from *)
(* an operand do what an instruction may do.                               *)
LEMMA StatusFromLegal ==
    ASSUME NEW s, Good(s), StatusFrom(s)
    PROVE  Legal(s, cpu')
<1>1. s \in States /\ \A t : Steady(s, t) => Legal(s, t)
  BY DEF Good, Legal
<1>2. PICK m \in DataModes, y \in Ys :
        cpu' \in {move_16_toc(s, m, y), move_16_tos(s, m, y)}
  BY Zenon DEF StatusFrom
<1>3. m \in AllModes /\ m \in DataModes /\ y \in Reg
  BY <1>2, ProgramAssumption, Modes, Destinations DEF Control, Memory, Alterable
<1>4. Steady(s, move_16_toc(s, m, y))
  BY <1>1, <1>3, ToCcrFromSteady, Modes, Kinds
<1>5. Legal(s, move_16_tos(s, m, y))
  BY <1>1, <1>3, StatusLegal, Modes, Kinds
<1> QED
  BY <1>1, <1>2, <1>4, <1>5

(* The handlers that read the status register do what an instruction may   *)
(* do.                                                                     *)
LEMMA StatusToLegal ==
    ASSUME NEW s, Good(s), StatusTo(s)
    PROVE  Legal(s, cpu')
<1>1. s \in States /\ \A t : Steady(s, t) => Legal(s, t)
  BY DEF Good, Legal
<1>2. PICK m \in DataAlterable, y \in Ys :
        cpu' \in {move_16_frs(s, m, y)}
  BY Zenon DEF StatusTo
<1>3. m \in AllModes /\ m \in AllModes \ {"i"} /\ m \in DataAlterable /\ y \in Reg
  BY <1>2, ProgramAssumption, Modes, Destinations DEF Control, Memory, Alterable
<1>4. Steady(s, move_16_frs(s, m, y))
  BY <1>1, <1>3, StatusOperandSteady, Modes, Kinds
<1> QED
  BY <1>1, <1>2, <1>4

(* The handlers with an operand at any mode and a register do what an      *)
(* instruction may do.                                                     *)
LEMMA AnyToRegisterLegal ==
    ASSUME NEW s, Good(s), AnyToRegister(s)
    PROVE  Legal(s, cpu')
<1>1. s \in States /\ \A t : Steady(s, t) => Legal(s, t)
  BY DEF Good, Legal
<1>2. PICK m \in AllModes, x \in Xs, y \in Ys :
        cpu' \in {add_16_er(s, m, x, y), add_32_er(s, m, x, y), adda_16(s, m, x, y),
                 adda_32(s, m, x, y), cmp_16(s, m, x, y), cmp_32(s, m, x, y),
                 cmpa_16(s, m, x, y), cmpa_32(s, m, x, y), movea_16(s, m, x, y),
                 movea_32(s, m, x, y), sub_16_er(s, m, x, y), sub_32_er(s, m, x, y),
                 suba_16(s, m, x, y), suba_32(s, m, x, y)}
  BY Zenon DEF AnyToRegister
<1>3. m \in AllModes /\ x \in Reg /\ y \in Reg
  BY <1>2, ProgramAssumption, Modes, Destinations DEF Control, Memory, Alterable
<1>4. /\ Steady(s, add_16_er(s, m, x, y))
      /\ Steady(s, add_32_er(s, m, x, y))
      /\ Steady(s, sub_16_er(s, m, x, y))
      /\ Steady(s, sub_32_er(s, m, x, y))
  BY <1>1, <1>3, ErSteady, Modes, Kinds DEF add_16_er, add_32_er, sub_16_er, sub_32_er
<1>5. /\ Steady(s, adda_16(s, m, x, y))
      /\ Steady(s, adda_32(s, m, x, y))
      /\ Steady(s, suba_16(s, m, x, y))
      /\ Steady(s, suba_32(s, m, x, y))
  BY <1>1, <1>3, AddToSteady, Modes, Kinds DEF adda_16, adda_32, suba_16, suba_32
<1>6. /\ Steady(s, cmp_16(s, m, x, y))
      /\ Steady(s, cmp_32(s, m, x, y))
      /\ Steady(s, cmpa_16(s, m, x, y))
      /\ Steady(s, cmpa_32(s, m, x, y))
  BY <1>1, <1>3, CompareSteady, Modes, Kinds DEF cmp_16, cmp_32, cmpa_16, cmpa_32
<1>7. /\ Steady(s, movea_16(s, m, x, y))
      /\ Steady(s, movea_32(s, m, x, y))
  BY <1>1, <1>3, MoveAddressSteady, Modes, Kinds
<1> QED
  BY <1>1, <1>2, <1>4, <1>5, <1>6, <1>7

(* The handlers of MOVE with words and longs do what an instruction may    *)
(* do.                                                                     *)
LEMMA MoveWideLegal ==
    ASSUME NEW s, Good(s), MoveWide(s)
    PROVE  Legal(s, cpu')
<1>1. s \in States /\ \A t : Steady(s, t) => Legal(s, t)
  BY DEF Good, Legal
<1>2. PICK m \in AllModes, x \in Xs, y \in Ys :
        cpu' \in {move_16_d(s, m, x, y), move_16_ai(s, m, x, y),
                 move_16_pi(s, m, x, y), move_16_pd(s, m, x, y),
                 move_16_di(s, m, x, y), move_16_ix(s, m, x, y),
                 move_16_aw(s, m, x, y), move_16_al(s, m, x, y), move_32_d(s, m, x, y),
                 move_32_ai(s, m, x, y), move_32_pi(s, m, x, y),
                 move_32_pd(s, m, x, y), move_32_di(s, m, x, y),
                 move_32_ix(s, m, x, y), move_32_aw(s, m, x, y), move_32_al(s, m, x, y)}
  BY Zenon DEF MoveWide
<1>3. m \in AllModes /\ x \in Reg /\ y \in Reg
  BY <1>2, ProgramAssumption, Modes, Destinations DEF Control, Memory, Alterable
<1>4. /\ Steady(s, move_16_d(s, m, x, y))
      /\ Steady(s, move_16_ai(s, m, x, y))
      /\ Steady(s, move_16_pi(s, m, x, y))
      /\ Steady(s, move_16_pd(s, m, x, y))
      /\ Steady(s, move_16_di(s, m, x, y))
      /\ Steady(s, move_16_ix(s, m, x, y))
      /\ Steady(s, move_16_aw(s, m, x, y))
      /\ Steady(s, move_16_al(s, m, x, y))
  BY <1>1, <1>3, MoveSteady, Modes, Kinds, Destinations DEF move_16_d, move_16_ai, move_16_pi, move_16_pd, move_16_di, move_16_ix, move_16_aw, move_16_al
<1>5. /\ Steady(s, move_32_d(s, m, x, y))
      /\ Steady(s, move_32_ai(s, m, x, y))
      /\ Steady(s, move_32_pi(s, m, x, y))
      /\ Steady(s, move_32_pd(s, m, x, y))
      /\ Steady(s, move_32_di(s, m, x, y))
      /\ Steady(s, move_32_ix(s, m, x, y))
      /\ Steady(s, move_32_aw(s, m, x, y))
      /\ Steady(s, move_32_al(s, m, x, y))
  BY <1>1, <1>3, MoveSteady, Modes, Kinds, Destinations DEF move_32_d, move_32_ai, move_32_pi, move_32_pd, move_32_di, move_32_ix, move_32_aw, move_32_al
<1> QED
  BY <1>1, <1>2, <1>4, <1>5

(* The handlers of MOVE with bytes do what an instruction may do.          *)
LEMMA MoveByteLegal ==
    ASSUME NEW s, Good(s), MoveByte(s)
    PROVE  Legal(s, cpu')
<1>1. s \in States /\ \A t : Steady(s, t) => Legal(s, t)
  BY DEF Good, Legal
<1>2. PICK m \in DataModes, x \in Xs, y \in Ys :
        cpu' \in {move_8_d(s, m, x, y), move_8_ai(s, m, x, y), move_8_pi(s, m, x, y),
                 move_8_pd(s, m, x, y), move_8_di(s, m, x, y), move_8_ix(s, m, x, y),
                 move_8_aw(s, m, x, y), move_8_al(s, m, x, y)}
  BY Zenon DEF MoveByte
<1>3. m \in AllModes /\ m \in DataModes /\ x \in Reg /\ y \in Reg
  BY <1>2, ProgramAssumption, Modes, Destinations DEF Control, Memory, Alterable
<1>4. /\ Steady(s, move_8_d(s, m, x, y))
      /\ Steady(s, move_8_ai(s, m, x, y))
      /\ Steady(s, move_8_pi(s, m, x, y))
      /\ Steady(s, move_8_pd(s, m, x, y))
      /\ Steady(s, move_8_di(s, m, x, y))
      /\ Steady(s, move_8_ix(s, m, x, y))
      /\ Steady(s, move_8_aw(s, m, x, y))
      /\ Steady(s, move_8_al(s, m, x, y))
  BY <1>1, <1>3, MoveSteady, Modes, Kinds, Destinations DEF move_8_d, move_8_ai, move_8_pi, move_8_pd, move_8_di, move_8_ix, move_8_aw, move_8_al
<1> QED
  BY <1>1, <1>2, <1>4

(* The handlers of MOVE with bytes by way of the stack pointer do what an  *)
(* instruction may do.                                                     *)
LEMMA MoveByteByStackLegal ==
    ASSUME NEW s, Good(s), MoveByteByStack(s)
    PROVE  Legal(s, cpu')
<1>1. s \in States /\ \A t : Steady(s, t) => Legal(s, t)
  BY DEF Good, Legal
<1>2. PICK m \in DataModes, y \in Ys :
        cpu' \in {move_8_pi7(s, m, y), move_8_pd7(s, m, y)}
  BY Zenon DEF MoveByteByStack
<1>3. m \in AllModes /\ m \in DataModes /\ y \in Reg
  BY <1>2, ProgramAssumption, Modes, Destinations DEF Control, Memory, Alterable
<1>4. /\ Steady(s, move_8_pi7(s, m, y))
      /\ Steady(s, move_8_pd7(s, m, y))
  BY <1>1, <1>3, MoveSteady, Modes, Kinds, Destinations DEF move_8_pi7, move_8_pd7
<1> QED
  BY <1>1, <1>2, <1>4

(* The handlers with an operand at a data mode and a register do what an   *)
(* instruction may do.                                                     *)
LEMMA DataToRegisterLegal ==
    ASSUME NEW s, Good(s), DataToRegister(s)
    PROVE  Legal(s, cpu')
<1>1. s \in States /\ \A t : Steady(s, t) => Legal(s, t)
  BY DEF Good, Legal
<1>2. PICK m \in DataModes, x \in Xs, y \in Ys :
        cpu' \in {add_8_er(s, m, x, y), and_8_er(s, m, x, y), and_16_er(s, m, x, y),
                 and_32_er(s, m, x, y), chk_16(s, m, x, y), cmp_8(s, m, x, y),
                 divs_16(s, m, x, y), divu_16(s, m, x, y), muls_16(s, m, x, y),
                 mulu_16(s, m, x, y), or_8_er(s, m, x, y), or_16_er(s, m, x, y),
                 or_32_er(s, m, x, y), sub_8_er(s, m, x, y)}
  BY Zenon DEF DataToRegister
<1>3. m \in AllModes /\ m \in DataModes /\ x \in Reg /\ y \in Reg
  BY <1>2, ProgramAssumption, Modes, Destinations DEF Control, Memory, Alterable
<1>4. /\ Steady(s, add_8_er(s, m, x, y))
      /\ Steady(s, and_8_er(s, m, x, y))
      /\ Steady(s, and_16_er(s, m, x, y))
      /\ Steady(s, and_32_er(s, m, x, y))
      /\ Steady(s, or_8_er(s, m, x, y))
      /\ Steady(s, or_16_er(s, m, x, y))
      /\ Steady(s, or_32_er(s, m, x, y))
      /\ Steady(s, sub_8_er(s, m, x, y))
  BY <1>1, <1>3, ErSteady, Modes, Kinds DEF add_8_er, and_8_er, and_16_er, and_32_er, or_8_er, or_16_er, or_32_er, sub_8_er
<1>5. /\ Legal(s, chk_16(s, m, x, y))
      /\ Legal(s, divs_16(s, m, x, y))
      /\ Legal(s, divu_16(s, m, x, y))
  BY <1>1, <1>3, FaultLegal, Modes, Kinds
<1>6. Steady(s, cmp_8(s, m, x, y))
  BY <1>1, <1>3, CompareSteady, Modes, Kinds DEF cmp_8
<1>7. /\ Steady(s, muls_16(s, m, x, y))
      /\ Steady(s, mulu_16(s, m, x, y))
  BY <1>1, <1>3, MultiplySteady, Modes, Kinds DEF muls_16, mulu_16
<1> QED
  BY <1>1, <1>2, <1>4, <1>5, <1>6, <1>7

(* The handlers with a register and an operand in memory do what an        *)
(* instruction may do.                                                     *)
LEMMA RegisterToMemoryLegal ==
    ASSUME NEW s, Good(s), RegisterToMemory(s)
    PROVE  Legal(s, cpu')
<1>1. s \in States /\ \A t : Steady(s, t) => Legal(s, t)
  BY DEF Good, Legal
<1>2. PICK m \in Alterable, x \in Xs, y \in Ys :
        cpu' \in {add_8_re(s, m, x, y), add_16_re(s, m, x, y), add_32_re(s, m, x, y),
                 and_8_re(s, m, x, y), and_16_re(s, m, x, y), and_32_re(s, m, x, y),
                 bchg_8_r(s, m, x, y), bclr_8_r(s, m, x, y), bset_8_r(s, m, x, y),
                 or_8_re(s, m, x, y), or_16_re(s, m, x, y), or_32_re(s, m, x, y),
                 sub_8_re(s, m, x, y), sub_16_re(s, m, x, y), sub_32_re(s, m, x, y)}
  BY Zenon DEF RegisterToMemory
<1>3. m \in AllModes /\ m \in AllModes \ {"i"} /\ x \in Reg /\ y \in Reg
  BY <1>2, ProgramAssumption, Modes, Destinations DEF Control, Memory, Alterable
<1>4. /\ Steady(s, add_8_re(s, m, x, y))
      /\ Steady(s, add_16_re(s, m, x, y))
      /\ Steady(s, add_32_re(s, m, x, y))
      /\ Steady(s, and_8_re(s, m, x, y))
      /\ Steady(s, and_16_re(s, m, x, y))
      /\ Steady(s, and_32_re(s, m, x, y))
      /\ Steady(s, or_8_re(s, m, x, y))
      /\ Steady(s, or_16_re(s, m, x, y))
  BY <1>1, <1>3, ReSteady, Modes, Kinds DEF add_8_re, add_16_re, add_32_re, and_8_re, and_16_re, and_32_re, or_8_re, or_16_re
<1>5. /\ Steady(s, or_32_re(s, m, x, y))
      /\ Steady(s, sub_8_re(s, m, x, y))
      /\ Steady(s, sub_16_re(s, m, x, y))
      /\ Steady(s, sub_32_re(s, m, x, y))
  BY <1>1, <1>3, ReSteady, Modes, Kinds DEF or_32_re, sub_8_re, sub_16_re, sub_32_re
<1>6. /\ Steady(s, bchg_8_r(s, m, x, y))
      /\ Steady(s, bclr_8_r(s, m, x, y))
      /\ Steady(s, bset_8_r(s, m, x, y))
  BY <1>1, <1>3, AlterBits, Modes, Kinds, Fields, InOpcodeFields DEF bchg_8_r, bclr_8_r, bset_8_r
<1> QED
  BY <1>1, <1>2, <1>4, <1>5, <1>6

(* The handlers with a register and an operand that can be changed do what *)
(* an instruction may do.                                                  *)
LEMMA RegisterToDataLegal ==
    ASSUME NEW s, Good(s), RegisterToData(s)
    PROVE  Legal(s, cpu')
<1>1. s \in States /\ \A t : Steady(s, t) => Legal(s, t)
  BY DEF Good, Legal
<1>2. PICK m \in DataAlterable, x \in Xs, y \in Ys :
        cpu' \in {addq_8(s, m, x, y), addq_16(s, m, x, y), addq_32(s, m, x, y),
                 eor_8(s, m, x, y), eor_16(s, m, x, y), eor_32(s, m, x, y),
                 subq_8(s, m, x, y), subq_16(s, m, x, y), subq_32(s, m, x, y)}
  BY Zenon DEF RegisterToData
<1>3. m \in AllModes /\ m \in AllModes \ {"i"} /\ m \in DataAlterable /\ x \in Reg /\ y \in Reg
  BY <1>2, ProgramAssumption, Modes, Destinations DEF Control, Memory, Alterable
<1>4. /\ Steady(s, addq_8(s, m, x, y))
      /\ Steady(s, addq_16(s, m, x, y))
      /\ Steady(s, addq_32(s, m, x, y))
      /\ Steady(s, subq_8(s, m, x, y))
      /\ Steady(s, subq_16(s, m, x, y))
      /\ Steady(s, subq_32(s, m, x, y))
  BY <1>1, <1>3, AlterArithmetic, Modes, Kinds, Fields, InOpcodeFields DEF addq_8, addq_16, addq_32, subq_8, subq_16, subq_32
<1>5. /\ Steady(s, eor_8(s, m, x, y))
      /\ Steady(s, eor_16(s, m, x, y))
      /\ Steady(s, eor_32(s, m, x, y))
  BY <1>1, <1>3, ReSteady, Modes, Kinds DEF eor_8, eor_16, eor_32
<1> QED
  BY <1>1, <1>2, <1>4, <1>5

(* The handlers with an immediate operand do what an instruction may do.   *)
LEMMA ImmediateToDataLegal ==
    ASSUME NEW s, Good(s), ImmediateToData(s)
    PROVE  Legal(s, cpu')
<1>1. s \in States /\ \A t : Steady(s, t) => Legal(s, t)
  BY DEF Good, Legal
<1>2. PICK m \in DataAlterable, y \in Ys :
        cpu' \in {addi_8(s, m, y), addi_16(s, m, y), addi_32(s, m, y), andi_8(s, m, y),
                 andi_16(s, m, y), andi_32(s, m, y), cmpi_8(s, m, y), cmpi_16(s, m, y),
                 cmpi_32(s, m, y), eori_8(s, m, y), eori_16(s, m, y), eori_32(s, m, y),
                 ori_8(s, m, y), ori_16(s, m, y), ori_32(s, m, y), subi_8(s, m, y),
                 subi_16(s, m, y), subi_32(s, m, y)}
  BY Zenon DEF ImmediateToData
<1>3. m \in AllModes /\ m \in AllModes \ {"i"} /\ m \in DataAlterable /\ y \in Reg
  BY <1>2, ProgramAssumption, Modes, Destinations DEF Control, Memory, Alterable
<1>4. /\ Steady(s, addi_8(s, m, y))
      /\ Steady(s, addi_16(s, m, y))
      /\ Steady(s, addi_32(s, m, y))
      /\ Steady(s, andi_8(s, m, y))
      /\ Steady(s, andi_16(s, m, y))
      /\ Steady(s, andi_32(s, m, y))
      /\ Steady(s, eori_8(s, m, y))
      /\ Steady(s, eori_16(s, m, y))
  BY <1>1, <1>3, ImSteady, Modes, Kinds DEF addi_8, addi_16, addi_32, andi_8, andi_16, andi_32, eori_8, eori_16
<1>5. /\ Steady(s, eori_32(s, m, y))
      /\ Steady(s, ori_8(s, m, y))
      /\ Steady(s, ori_16(s, m, y))
      /\ Steady(s, ori_32(s, m, y))
      /\ Steady(s, subi_8(s, m, y))
      /\ Steady(s, subi_16(s, m, y))
      /\ Steady(s, subi_32(s, m, y))
  BY <1>1, <1>3, ImSteady, Modes, Kinds DEF eori_32, ori_8, ori_16, ori_32, subi_8, subi_16, subi_32
<1>6. /\ Steady(s, cmpi_8(s, m, y))
      /\ Steady(s, cmpi_16(s, m, y))
      /\ Steady(s, cmpi_32(s, m, y))
  BY <1>1, <1>3, CompareImmediateSteady, Modes, Kinds
<1> QED
  BY <1>1, <1>2, <1>4, <1>5, <1>6

(* The handlers with one operand do what an instruction may do.            *)
LEMMA OneOperandLegal ==
    ASSUME NEW s, Good(s), OneOperand(s)
    PROVE  Legal(s, cpu')
<1>1. s \in States /\ \A t : Steady(s, t) => Legal(s, t)
  BY DEF Good, Legal
<1>2. PICK m \in DataAlterable, y \in Ys :
        cpu' \in {clr_8(s, m, y), clr_16(s, m, y), clr_32(s, m, y), nbcd_8(s, m, y),
                 neg_8(s, m, y), neg_16(s, m, y), neg_32(s, m, y), negx_8(s, m, y),
                 negx_16(s, m, y), negx_32(s, m, y), not_8(s, m, y), not_16(s, m, y),
                 not_32(s, m, y), tas_8(s, m, y), tst_8(s, m, y), tst_16(s, m, y),
                 tst_32(s, m, y)}
  BY Zenon DEF OneOperand
<1>3. m \in AllModes /\ m \in AllModes \ {"i"} /\ m \in DataAlterable /\ y \in Reg
  BY <1>2, ProgramAssumption, Modes, Destinations DEF Control, Memory, Alterable
<1>4. /\ Steady(s, clr_8(s, m, y))
      /\ Steady(s, clr_16(s, m, y))
      /\ Steady(s, clr_32(s, m, y))
      /\ Steady(s, not_8(s, m, y))
      /\ Steady(s, not_16(s, m, y))
      /\ Steady(s, not_32(s, m, y))
      /\ Steady(s, tas_8(s, m, y))
  BY <1>1, <1>3, AlterLogic, Modes, Kinds, Fields, InOpcodeFields DEF clr_8, clr_16, clr_32, not_8, not_16, not_32, tas_8
<1>5. Steady(s, nbcd_8(s, m, y))
  BY <1>1, <1>3, DecimalNegationSteady, Modes, Kinds
<1>6. /\ Steady(s, neg_8(s, m, y))
      /\ Steady(s, neg_16(s, m, y))
      /\ Steady(s, neg_32(s, m, y))
      /\ Steady(s, negx_8(s, m, y))
      /\ Steady(s, negx_16(s, m, y))
      /\ Steady(s, negx_32(s, m, y))
  BY <1>1, <1>3, AlterArithmetic, Modes, Kinds, Fields, InOpcodeFields DEF neg_8, neg_16, neg_32, negx_8, negx_16, negx_32
<1>7. /\ Steady(s, tst_8(s, m, y))
      /\ Steady(s, tst_16(s, m, y))
      /\ Steady(s, tst_32(s, m, y))
  BY <1>1, <1>3, LookSteady, Modes, Kinds DEF tst_8, tst_16, tst_32
<1> QED
  BY <1>1, <1>2, <1>4, <1>5, <1>6, <1>7

(* The handlers of Scc do what an instruction may do.                      *)
LEMMA SetOnConditionLegal ==
    ASSUME NEW s, Good(s), SetOnCondition(s)
    PROVE  Legal(s, cpu')
<1>1. s \in States /\ \A t : Steady(s, t) => Legal(s, t)
  BY DEF Good, Legal
<1>2. PICK m \in DataAlterable, y \in Ys :
        cpu' \in {st_8(s, m, y), sf_8(s, m, y), shi_8(s, m, y), sls_8(s, m, y),
                 scc_8(s, m, y), scs_8(s, m, y), sne_8(s, m, y), seq_8(s, m, y),
                 svc_8(s, m, y), svs_8(s, m, y), spl_8(s, m, y), smi_8(s, m, y),
                 sge_8(s, m, y), slt_8(s, m, y), sgt_8(s, m, y), sle_8(s, m, y)}
  BY Zenon DEF SetOnCondition
<1>3. m \in AllModes /\ m \in AllModes \ {"i"} /\ m \in DataAlterable /\ y \in Reg
  BY <1>2, ProgramAssumption, Modes, Destinations DEF Control, Memory, Alterable
<1>4. /\ Steady(s, st_8(s, m, y))
      /\ Steady(s, sf_8(s, m, y))
      /\ Steady(s, shi_8(s, m, y))
      /\ Steady(s, sls_8(s, m, y))
      /\ Steady(s, scc_8(s, m, y))
      /\ Steady(s, scs_8(s, m, y))
      /\ Steady(s, sne_8(s, m, y))
      /\ Steady(s, seq_8(s, m, y))
  BY <1>1, <1>3, SetIfSteady, Modes, Kinds DEF st_8, sf_8, shi_8, sls_8, scc_8, scs_8, sne_8, seq_8
<1>5. /\ Steady(s, svc_8(s, m, y))
      /\ Steady(s, svs_8(s, m, y))
      /\ Steady(s, spl_8(s, m, y))
      /\ Steady(s, smi_8(s, m, y))
      /\ Steady(s, sge_8(s, m, y))
      /\ Steady(s, slt_8(s, m, y))
      /\ Steady(s, sgt_8(s, m, y))
      /\ Steady(s, sle_8(s, m, y))
  BY <1>1, <1>3, SetIfSteady, Modes, Kinds DEF svc_8, svs_8, spl_8, smi_8, sge_8, slt_8, sgt_8, sle_8
<1> QED
  BY <1>1, <1>2, <1>4, <1>5

(* The handlers that test a bit numbered by a register do what an          *)
(* instruction may do.                                                     *)
LEMMA TestBitOfRegisterLegal ==
    ASSUME NEW s, Good(s), TestBitOfRegister(s)
    PROVE  Legal(s, cpu')
<1>1. s \in States /\ \A t : Steady(s, t) => Legal(s, t)
  BY DEF Good, Legal
<1>2. PICK m \in DataModes \ {"d"}, x \in Xs, y \in Ys :
        cpu' \in {btst_8_r(s, m, x, y)}
  BY Zenon DEF TestBitOfRegister
<1>3. m \in AllModes /\ x \in Reg /\ y \in Reg
  BY <1>2, ProgramAssumption, Modes, Destinations DEF Control, Memory, Alterable
<1>4. Steady(s, btst_8_r(s, m, x, y))
  BY <1>1, <1>3, TestBitSteady, Modes, Kinds, Fields, InOpcodeFields DEF btst_8_r
<1> QED
  BY <1>1, <1>2, <1>4

(* The handlers that test a bit of an immediate operand do what an         *)
(* instruction may do.                                                     *)
LEMMA TestBitOfImmediateLegal ==
    ASSUME NEW s, Good(s), TestBitOfImmediate(s)
    PROVE  Legal(s, cpu')
<1>1. s \in States /\ \A t : Steady(s, t) => Legal(s, t)
  BY DEF Good, Legal
<1>2. PICK m \in Memory, y \in Ys :
        cpu' \in {btst_8_s(s, m, y)}
  BY Zenon DEF TestBitOfImmediate
<1>3. m \in AllModes /\ m \in AllModes \ {"i"} /\ y \in Reg
  BY <1>2, ProgramAssumption, Modes, Destinations DEF Control, Memory, Alterable
<1>4. Steady(s, btst_8_s(s, m, y))
  BY <1>1, <1>3, NumberedBitSteady, Modes, Kinds, Destinations
<1> QED
  BY <1>1, <1>2, <1>4

(* The handlers that shift a word in memory do what an instruction may do. *)
LEMMA ShiftMemoryLegal ==
    ASSUME NEW s, Good(s), ShiftMemory(s)
    PROVE  Legal(s, cpu')
<1>1. s \in States /\ \A t : Steady(s, t) => Legal(s, t)
  BY DEF Good, Legal
<1>2. PICK m \in Alterable, y \in Ys :
        cpu' \in {asr_16(s, m, y), asl_16(s, m, y), bchg_8_s(s, m, y),
                 bclr_8_s(s, m, y), bset_8_s(s, m, y), lsr_16(s, m, y),
                 lsl_16(s, m, y), ror_16(s, m, y), rol_16(s, m, y), roxr_16(s, m, y),
                 roxl_16(s, m, y)}
  BY Zenon DEF ShiftMemory
<1>3. m \in AllModes /\ m \in AllModes \ {"i"} /\ y \in Reg
  BY <1>2, ProgramAssumption, Modes, Destinations DEF Control, Memory, Alterable
<1>4. /\ Steady(s, asr_16(s, m, y))
      /\ Steady(s, asl_16(s, m, y))
      /\ Steady(s, lsr_16(s, m, y))
      /\ Steady(s, lsl_16(s, m, y))
      /\ Steady(s, ror_16(s, m, y))
      /\ Steady(s, rol_16(s, m, y))
      /\ Steady(s, roxr_16(s, m, y))
      /\ Steady(s, roxl_16(s, m, y))
  BY <1>1, <1>3, AlterShift, Modes, Kinds, Fields, InOpcodeFields DEF asr_16, asl_16, lsr_16, lsl_16, ror_16, rol_16, roxr_16, roxl_16
<1>5. /\ Steady(s, bchg_8_s(s, m, y))
      /\ Steady(s, bclr_8_s(s, m, y))
      /\ Steady(s, bset_8_s(s, m, y))
  BY <1>1, <1>3, NumberedBitSteady, Modes, Kinds, Destinations
<1> QED
  BY <1>1, <1>2, <1>4, <1>5

(* The handlers that shift a register do what an instruction may do.       *)
LEMMA ShiftRegisterLegal ==
    ASSUME NEW s, Good(s), ShiftRegister(s)
    PROVE  Legal(s, cpu')
<1>1. s \in States /\ \A t : Steady(s, t) => Legal(s, t)
  BY DEF Good, Legal
<1>2. PICK x \in Xs, y \in Ys :
        cpu' \in {asr_8_s(s, x, y), asr_16_s(s, x, y), asr_32_s(s, x, y),
                 asl_8_s(s, x, y), asl_16_s(s, x, y), asl_32_s(s, x, y),
                 lsr_8_s(s, x, y), lsr_16_s(s, x, y), lsr_32_s(s, x, y),
                 lsl_8_s(s, x, y), lsl_16_s(s, x, y), lsl_32_s(s, x, y),
                 ror_8_s(s, x, y), ror_16_s(s, x, y), ror_32_s(s, x, y),
                 rol_8_s(s, x, y), rol_16_s(s, x, y), rol_32_s(s, x, y),
                 roxr_8_s(s, x, y), roxr_16_s(s, x, y), roxr_32_s(s, x, y),
                 roxl_8_s(s, x, y), roxl_16_s(s, x, y), roxl_32_s(s, x, y),
                 asr_8_r(s, x, y), asr_16_r(s, x, y), asr_32_r(s, x, y),
                 asl_8_r(s, x, y), asl_16_r(s, x, y), asl_32_r(s, x, y),
                 lsr_8_r(s, x, y), lsr_16_r(s, x, y), lsr_32_r(s, x, y),
                 lsl_8_r(s, x, y), lsl_16_r(s, x, y), lsl_32_r(s, x, y),
                 ror_8_r(s, x, y), ror_16_r(s, x, y), ror_32_r(s, x, y),
                 rol_8_r(s, x, y), rol_16_r(s, x, y), rol_32_r(s, x, y),
                 roxr_8_r(s, x, y), roxr_16_r(s, x, y), roxr_32_r(s, x, y),
                 roxl_8_r(s, x, y), roxl_16_r(s, x, y), roxl_32_r(s, x, y)}
  BY Zenon DEF ShiftRegister
<1>3. x \in Reg /\ y \in Reg
  BY <1>2, ProgramAssumption, Modes, Destinations DEF Control, Memory, Alterable
<1>4. /\ Steady(s, asr_8_s(s, x, y))
      /\ Steady(s, asr_16_s(s, x, y))
      /\ Steady(s, asr_32_s(s, x, y))
      /\ Steady(s, asl_8_s(s, x, y))
      /\ Steady(s, asl_16_s(s, x, y))
      /\ Steady(s, asl_32_s(s, x, y))
      /\ Steady(s, lsr_8_s(s, x, y))
      /\ Steady(s, lsr_16_s(s, x, y))
  BY <1>1, <1>3, AlterShift, Modes, Kinds, Fields, InOpcodeFields DEF asr_8_s, asr_16_s, asr_32_s, asl_8_s, asl_16_s, asl_32_s, lsr_8_s, lsr_16_s
<1>5. /\ Steady(s, lsr_32_s(s, x, y))
      /\ Steady(s, lsl_8_s(s, x, y))
      /\ Steady(s, lsl_16_s(s, x, y))
      /\ Steady(s, lsl_32_s(s, x, y))
      /\ Steady(s, ror_8_s(s, x, y))
      /\ Steady(s, ror_16_s(s, x, y))
      /\ Steady(s, ror_32_s(s, x, y))
      /\ Steady(s, rol_8_s(s, x, y))
  BY <1>1, <1>3, AlterShift, Modes, Kinds, Fields, InOpcodeFields DEF lsr_32_s, lsl_8_s, lsl_16_s, lsl_32_s, ror_8_s, ror_16_s, ror_32_s, rol_8_s
<1>6. /\ Steady(s, rol_16_s(s, x, y))
      /\ Steady(s, rol_32_s(s, x, y))
      /\ Steady(s, roxr_8_s(s, x, y))
      /\ Steady(s, roxr_16_s(s, x, y))
      /\ Steady(s, roxr_32_s(s, x, y))
      /\ Steady(s, roxl_8_s(s, x, y))
      /\ Steady(s, roxl_16_s(s, x, y))
      /\ Steady(s, roxl_32_s(s, x, y))
  BY <1>1, <1>3, AlterShift, Modes, Kinds, Fields, InOpcodeFields DEF rol_16_s, rol_32_s, roxr_8_s, roxr_16_s, roxr_32_s, roxl_8_s, roxl_16_s, roxl_32_s
<1>7. /\ Steady(s, asr_8_r(s, x, y))
      /\ Steady(s, asr_16_r(s, x, y))
      /\ Steady(s, asr_32_r(s, x, y))
      /\ Steady(s, asl_8_r(s, x, y))
      /\ Steady(s, asl_16_r(s, x, y))
      /\ Steady(s, asl_32_r(s, x, y))
      /\ Steady(s, lsr_8_r(s, x, y))
      /\ Steady(s, lsr_16_r(s, x, y))
  BY <1>1, <1>3, ByRegisterSteady, Modes, Kinds DEF asr_8_r, asr_16_r, asr_32_r, asl_8_r, asl_16_r, asl_32_r, lsr_8_r, lsr_16_r
<1>8. /\ Steady(s, lsr_32_r(s, x, y))
      /\ Steady(s, lsl_8_r(s, x, y))
      /\ Steady(s, lsl_16_r(s, x, y))
      /\ Steady(s, lsl_32_r(s, x, y))
      /\ Steady(s, ror_8_r(s, x, y))
      /\ Steady(s, ror_16_r(s, x, y))
      /\ Steady(s, ror_32_r(s, x, y))
      /\ Steady(s, rol_8_r(s, x, y))
  BY <1>1, <1>3, ByRegisterSteady, Modes, Kinds DEF lsr_32_r, lsl_8_r, lsl_16_r, lsl_32_r, ror_8_r, ror_16_r, ror_32_r, rol_8_r
<1>9. /\ Steady(s, rol_16_r(s, x, y))
      /\ Steady(s, rol_32_r(s, x, y))
      /\ Steady(s, roxr_8_r(s, x, y))
      /\ Steady(s, roxr_16_r(s, x, y))
      /\ Steady(s, roxr_32_r(s, x, y))
      /\ Steady(s, roxl_8_r(s, x, y))
      /\ Steady(s, roxl_16_r(s, x, y))
      /\ Steady(s, roxl_32_r(s, x, y))
  BY <1>1, <1>3, ByRegisterSteady, Modes, Kinds DEF rol_16_r, rol_32_r, roxr_8_r, roxr_16_r, roxr_32_r, roxl_8_r, roxl_16_r, roxl_32_r
<1> QED
  BY <1>1, <1>2, <1>4, <1>5, <1>6, <1>7, <1>8, <1>9

(* The handlers with two registers do what an instruction may do.          *)
LEMMA TwoRegistersLegal ==
    ASSUME NEW s, Good(s), TwoRegisters(s)
    PROVE  Legal(s, cpu')
<1>1. s \in States /\ \A t : Steady(s, t) => Legal(s, t)
  BY DEF Good, Legal
<1>2. PICK x \in Xs, y \in Ys :
        cpu' \in {abcd_8_rr(s, x, y), abcd_8_mm(s, x, y), addx_8_rr(s, x, y),
                 addx_16_rr(s, x, y), addx_32_rr(s, x, y), addx_8_mm(s, x, y),
                 addx_16_mm(s, x, y), addx_32_mm(s, x, y), cmpm_8(s, x, y),
                 cmpm_16(s, x, y), cmpm_32(s, x, y), sbcd_8_rr(s, x, y),
                 sbcd_8_mm(s, x, y), subx_8_rr(s, x, y), subx_16_rr(s, x, y),
                 subx_32_rr(s, x, y), subx_8_mm(s, x, y), subx_16_mm(s, x, y),
                 subx_32_mm(s, x, y), addq_16_a(s, x, y), addq_32_a(s, x, y),
                 bchg_32_r(s, x, y), bclr_32_r(s, x, y), bset_32_r(s, x, y),
                 btst_32_r(s, x, y), exg_32_dd(s, x, y), exg_32_aa(s, x, y),
                 exg_32_da(s, x, y), movep_16_re(s, x, y), movep_32_re(s, x, y),
                 movep_16_er(s, x, y), movep_32_er(s, x, y), subq_16_a(s, x, y),
                 subq_32_a(s, x, y)}
  BY Zenon DEF TwoRegisters
<1>3. x \in Reg /\ y \in Reg
  BY <1>2, ProgramAssumption, Modes, Destinations DEF Control, Memory, Alterable
<1>4. /\ Steady(s, abcd_8_rr(s, x, y))
      /\ Steady(s, addx_8_rr(s, x, y))
      /\ Steady(s, addx_16_rr(s, x, y))
      /\ Steady(s, addx_32_rr(s, x, y))
      /\ Steady(s, sbcd_8_rr(s, x, y))
      /\ Steady(s, subx_8_rr(s, x, y))
      /\ Steady(s, subx_16_rr(s, x, y))
      /\ Steady(s, subx_32_rr(s, x, y))
  BY <1>1, <1>3, AlterArithmetic, Modes, Kinds, Fields, InOpcodeFields DEF abcd_8_rr, addx_8_rr, addx_16_rr, addx_32_rr, sbcd_8_rr, subx_8_rr, subx_16_rr, subx_32_rr
<1>5. /\ Steady(s, abcd_8_mm(s, x, y))
      /\ Steady(s, addx_8_mm(s, x, y))
      /\ Steady(s, addx_16_mm(s, x, y))
      /\ Steady(s, addx_32_mm(s, x, y))
      /\ Steady(s, sbcd_8_mm(s, x, y))
      /\ Steady(s, subx_8_mm(s, x, y))
      /\ Steady(s, subx_16_mm(s, x, y))
      /\ Steady(s, subx_32_mm(s, x, y))
  BY <1>1, <1>3, MmSteady, Modes, Kinds DEF abcd_8_mm, addx_8_mm, addx_16_mm, addx_32_mm, sbcd_8_mm, subx_8_mm, subx_16_mm, subx_32_mm
<1>6. /\ Steady(s, cmpm_8(s, x, y))
      /\ Steady(s, cmpm_16(s, x, y))
      /\ Steady(s, cmpm_32(s, x, y))
  BY <1>1, <1>3, CompareMemorySteady, Modes, Kinds DEF cmpm_8, cmpm_16, cmpm_32
<1>7. /\ Steady(s, addq_16_a(s, x, y))
      /\ Steady(s, addq_32_a(s, x, y))
      /\ Steady(s, subq_16_a(s, x, y))
      /\ Steady(s, subq_32_a(s, x, y))
  BY <1>1, <1>3, QuickSteady, Modes, Kinds
<1>8. /\ Steady(s, bchg_32_r(s, x, y))
      /\ Steady(s, bclr_32_r(s, x, y))
      /\ Steady(s, bset_32_r(s, x, y))
  BY <1>1, <1>3, AlterBits, Modes, Kinds, Fields, InOpcodeFields DEF bchg_32_r, bclr_32_r, bset_32_r
<1>9. Steady(s, btst_32_r(s, x, y))
  BY <1>1, <1>3, TestBitSteady, Modes, Kinds, Fields, InOpcodeFields DEF btst_32_r
<1>10. /\ Steady(s, exg_32_dd(s, x, y))
      /\ Steady(s, exg_32_aa(s, x, y))
      /\ Steady(s, exg_32_da(s, x, y))
  BY <1>1, <1>3, ExchangeSteady, Modes, Kinds DEF exg_32_dd, exg_32_aa, exg_32_da
<1>11. /\ Steady(s, movep_16_re(s, x, y))
      /\ Steady(s, movep_32_re(s, x, y))
      /\ Steady(s, movep_16_er(s, x, y))
      /\ Steady(s, movep_32_er(s, x, y))
  BY <1>1, <1>3, EverySecondSteady, Modes, Kinds DEF movep_16_re, movep_32_re, movep_16_er, movep_32_er
<1> QED
  BY <1>1, <1>2, <1>4, <1>5, <1>6, <1>7, <1>8, <1>9, <1>10, <1>11

(* The handlers with one register do what an instruction may do.           *)
LEMMA OneRegisterLegal ==
    ASSUME NEW s, Good(s), OneRegister(s)
    PROVE  Legal(s, cpu')
<1>1. s \in States /\ \A t : Steady(s, t) => Legal(s, t)
  BY DEF Good, Legal
<1>2. PICK y \in Ys :
        cpu' \in {bchg_32_s(s, y), bclr_32_s(s, y), bset_32_s(s, y), btst_32_s(s, y),
                 ext_16(s, y), ext_32(s, y), swap_32(s, y), dbt_16(s, y), dbf_16(s, y),
                 dbhi_16(s, y), dbls_16(s, y), dbcc_16(s, y), dbcs_16(s, y),
                 dbne_16(s, y), dbeq_16(s, y), dbvc_16(s, y), dbvs_16(s, y),
                 dbpl_16(s, y), dbmi_16(s, y), dbge_16(s, y), dblt_16(s, y),
                 dbgt_16(s, y), dble_16(s, y), movem_16_re_pd(s, y),
                 movem_32_re_pd(s, y), movem_16_er_pi(s, y), movem_32_er_pi(s, y)}
  BY Zenon DEF OneRegister
<1>3. y \in Reg
  BY <1>2, ProgramAssumption, Modes, Destinations DEF Control, Memory, Alterable
<1>4. /\ Steady(s, bchg_32_s(s, y))
      /\ Steady(s, bclr_32_s(s, y))
      /\ Steady(s, bset_32_s(s, y))
      /\ Steady(s, btst_32_s(s, y))
  BY <1>1, <1>3, NumberedBitSteady, Modes, Kinds, Destinations
<1>5. /\ Steady(s, ext_16(s, y))
      /\ Steady(s, ext_32(s, y))
  BY <1>1, <1>3, AlterExtended, Modes, Kinds, Fields, InOpcodeFields DEF ext_16, ext_32
<1>6. Steady(s, swap_32(s, y))
  BY <1>1, <1>3, AlterLogic, Modes, Kinds, Fields, InOpcodeFields DEF swap_32
<1>7. /\ Steady(s, dbt_16(s, y))
      /\ Steady(s, dbf_16(s, y))
      /\ Steady(s, dbhi_16(s, y))
      /\ Steady(s, dbls_16(s, y))
      /\ Steady(s, dbcc_16(s, y))
      /\ Steady(s, dbcs_16(s, y))
      /\ Steady(s, dbne_16(s, y))
      /\ Steady(s, dbeq_16(s, y))
  BY <1>1, <1>3, CountDownSteady, Modes, Kinds DEF dbt_16, dbf_16, dbhi_16, dbls_16, dbcc_16, dbcs_16, dbne_16, dbeq_16
<1>8. /\ Steady(s, dbvc_16(s, y))
      /\ Steady(s, dbvs_16(s, y))
      /\ Steady(s, dbpl_16(s, y))
      /\ Steady(s, dbmi_16(s, y))
      /\ Steady(s, dbge_16(s, y))
      /\ Steady(s, dblt_16(s, y))
      /\ Steady(s, dbgt_16(s, y))
      /\ Steady(s, dble_16(s, y))
  BY <1>1, <1>3, CountDownSteady, Modes, Kinds DEF dbvc_16, dbvs_16, dbpl_16, dbmi_16, dbge_16, dblt_16, dbgt_16, dble_16
<1>9. /\ Steady(s, movem_16_re_pd(s, y))
      /\ Steady(s, movem_32_re_pd(s, y))
      /\ Steady(s, movem_16_er_pi(s, y))
      /\ Steady(s, movem_32_er_pi(s, y))
  BY <1>1, <1>3, MultipleSteady, Modes, Kinds DEF movem_16_re_pd, movem_32_re_pd, movem_16_er_pi, movem_32_er_pi
<1> QED
  BY <1>1, <1>2, <1>4, <1>5, <1>6, <1>7, <1>8, <1>9

(* The handlers that jump, call and push an address do what an instruction *)
(* may do.                                                                 *)
LEMMA AddressLegal ==
    ASSUME NEW s, Good(s), Address(s)
    PROVE  Legal(s, cpu')
<1>1. s \in States /\ \A t : Steady(s, t) => Legal(s, t)
  BY DEF Good, Legal
<1>2. PICK m \in Control, y \in Ys :
        cpu' \in {jmp_32(s, m, y), jsr_32(s, m, y), pea_32(s, m, y)}
  BY Zenon DEF Address
<1>3. m \in AllModes /\ m \in Control /\ y \in Reg
  BY <1>2, ProgramAssumption, Modes, Destinations DEF Control, Memory, Alterable
<1>4. /\ Steady(s, jmp_32(s, m, y))
      /\ Steady(s, jsr_32(s, m, y))
      /\ Steady(s, pea_32(s, m, y))
  BY <1>1, <1>3, ByAddressSteady, Modes, Kinds
<1> QED
  BY <1>1, <1>2, <1>4

(* The handlers of LEA do what an instruction may do.                      *)
LEMMA LoadAddressLegal ==
    ASSUME NEW s, Good(s), LoadAddress(s)
    PROVE  Legal(s, cpu')
<1>1. s \in States /\ \A t : Steady(s, t) => Legal(s, t)
  BY DEF Good, Legal
<1>2. PICK m \in Control, x \in Xs, y \in Ys :
        cpu' \in {lea_32(s, m, x, y)}
  BY Zenon DEF LoadAddress
<1>3. m \in AllModes /\ m \in Control /\ x \in Reg /\ y \in Reg
  BY <1>2, ProgramAssumption, Modes, Destinations DEF Control, Memory, Alterable
<1>4. Steady(s, lea_32(s, m, x, y))
  BY <1>1, <1>3, ByAddressSteady, Modes, Kinds
<1> QED
  BY <1>1, <1>2, <1>4

(* The handlers of LINK and UNLK do what an instruction may do.            *)
LEMMA StackFrameLegal ==
    ASSUME NEW s, Good(s), StackFrame(s)
    PROVE  Legal(s, cpu')
<1>1. s \in States /\ \A t : Steady(s, t) => Legal(s, t)
  BY DEF Good, Legal
<1>2. PICK y \in Ys \ {7} :
        cpu' \in {link_16(s, y), unlk_32(s, y)}
  BY Zenon DEF StackFrame
<1>3. y \in Reg
  BY <1>2, ProgramAssumption, Modes, Destinations DEF Control, Memory, Alterable
<1>4. /\ Steady(s, link_16(s, y))
      /\ Steady(s, unlk_32(s, y))
  BY <1>1, <1>3, LinkSteady, Modes, Kinds
<1> QED
  BY <1>1, <1>2, <1>4

(* The handlers of MOVEM do what an instruction may do.                    *)
LEMMA MoveMultipleLegal ==
    ASSUME NEW s, Good(s), MoveMultiple(s)
    PROVE  Legal(s, cpu')
<1>1. s \in States /\ \A t : Steady(s, t) => Legal(s, t)
  BY DEF Good, Legal
<1>2. PICK m \in {"ai", "di", "ix", "aw", "al"}, y \in Ys :
        cpu' \in {movem_16_re(s, m, y), movem_32_re(s, m, y), movem_16_er(s, m, y),
                 movem_32_er(s, m, y)}
  BY Zenon DEF MoveMultiple
<1>3. m \in AllModes /\ m \in Memory /\ y \in Reg
  BY <1>2, ProgramAssumption, Modes, Destinations DEF Control, Memory, Alterable
<1>4. /\ Steady(s, movem_16_re(s, m, y))
      /\ Steady(s, movem_32_re(s, m, y))
      /\ Steady(s, movem_16_er(s, m, y))
      /\ Steady(s, movem_32_er(s, m, y))
  BY <1>1, <1>3, MultipleSteady, Modes, Kinds DEF movem_16_re, movem_32_re, movem_16_er, movem_32_er
<1> QED
  BY <1>1, <1>2, <1>4

(* The handlers of MOVEM relative to the program counter do what an        *)
(* instruction may do.                                                     *)
LEMMA MoveMultiplePcLegal ==
    ASSUME NEW s, Good(s), MoveMultiplePc(s)
    PROVE  Legal(s, cpu')
<1>1. s \in States /\ \A t : Steady(s, t) => Legal(s, t)
  BY DEF Good, Legal
<1>2. PICK m \in {"pcdi", "pcix"}, y \in Ys :
        cpu' \in {movem_16_er_pc(s, m, y), movem_32_er_pc(s, m, y)}
  BY Zenon DEF MoveMultiplePc
<1>3. m \in AllModes /\ m \in Memory /\ y \in Reg
  BY <1>2, ProgramAssumption, Modes, Destinations DEF Control, Memory, Alterable
<1>4. /\ Steady(s, movem_16_er_pc(s, m, y))
      /\ Steady(s, movem_32_er_pc(s, m, y))
  BY <1>1, <1>3, MultipleSteady, Modes, Kinds DEF movem_16_er_pc, movem_32_er_pc
<1> QED
  BY <1>1, <1>2, <1>4

(* The handlers that stand for an opcode without an instruction do what an *)
(* instruction may do.                                                     *)
LEMMA RefusedLegal ==
    ASSUME NEW s, Good(s), Refused(s)
    PROVE  Legal(s, cpu')
<1>1. cpu' \in {Instead(s, LineA), Instead(s, LineF), Instead(s, IllegalVector)}
  BY DEF Refused, op_1010, op_1111, bcc_32, bkpt, bra_32, bsr_32, chk_32, cmpi_8_pc,
         cmpi_16_pc, cmpi_32_pc, illegal, Illegal
<1>2. LineA \in Nat /\ LineF \in Nat /\ IllegalVector \in Nat /\ Steady(s, s)
  BY SteadyIs DEF Good, LineA, LineF, IllegalVector
<1>3. \A n \in Nat : Legal(s, Instead(s, n))
  BY <1>2, TrapExcepts DEF Legal
<1> QED
  BY <1>1, <1>2, <1>3

(* The handlers without fields in their opcode do what an instruction may  *)
(* do.                                                                     *)
LEMMA SimpleLegal ==
    ASSUME NEW s, Good(s), Simple(s)
    PROVE  Legal(s, cpu')
<1>1. s \in States /\ Steady(s, s) /\ \A t : Steady(s, t) => Legal(s, t)
  BY SteadyIs DEF Good, Legal
<1>2. cpu' \in {andi_16_toc(s), bra_16(s), bsr_16(s), eori_16_toc(s), link_16_a7(s), nop(s),
                ori_16_toc(s), rtr_32(s), rts_32(s), trapv(s), unlk_32_a7(s)}
  BY Zenon DEF Simple
<1>3. /\ Steady(s, andi_16_toc(s)) /\ Steady(s, eori_16_toc(s)) /\ Steady(s, ori_16_toc(s))
      /\ Steady(s, nop(s))
  BY <1>1, ToCcrSteady DEF andi_16_toc, eori_16_toc, ori_16_toc, nop
<1>4. /\ Steady(s, bra_16(s)) /\ Steady(s, bsr_16(s)) /\ Steady(s, rts_32(s))
      /\ Steady(s, rtr_32(s))
  BY <1>1, SubroutineSteady
<1>5. Steady(s, link_16_a7(s)) /\ Steady(s, unlk_32_a7(s))
  BY <1>1, LinkSteady, Destinations
<1>6. Legal(s, trapv(s))
  <2>1. Trapv \in Nat
    BY DEF Trapv
  <2>2. Legal(s, Trap(s, Trapv)) /\ Legal(s, s)
    BY <1>1, <2>1, TrapExcepts DEF Legal
  <2> QED
    BY <2>2 DEF trapv
<1> QED
  BY <1>1, <1>2, <1>3, <1>4, <1>5, <1>6

(* The handlers with a number in their opcode do what an instruction may   *)
(* do.                                                                     *)
LEMMA InOpcodeLegal ==
    ASSUME NEW s, Good(s), InOpcode(s)
    PROVE  Legal(s, cpu')
<1>1. s \in States /\ Steady(s, s) /\ \A t : Steady(s, t) => Legal(s, t)
  BY SteadyIs DEF Good, Legal
<1>2. ASSUME NEW d \in Displacements PROVE d \in Int
  BY ProgramAssumption, SpanTyped, Kinds
<1>3. \/ \E cond \in Conditions \ {"t", "f"} :
            cpu' \in {bcc_8(s, cond, d) : d \in Displacements} \cup {bcc_16(s, cond)}
      \/ \E d \in Displacements, x \in Xs :
            cpu' \in {bra_8(s, d), bsr_8(s, d), moveq_32(s, d, x)}
      \/ \E n \in Traps : cpu' = trap(s, n)
  BY Zenon DEF InOpcode
<1>4. ASSUME NEW cond,
             cpu' \in {bcc_8(s, cond, d) : d \in Displacements} \cup {bcc_16(s, cond)}
      PROVE  Legal(s, cpu')
  <2>1. Steady(s, bcc_16(s, cond))
    BY <1>1, BranchSteady DEF bcc_16
  <2>2. ASSUME NEW d \in Displacements PROVE Steady(s, bcc_8(s, cond, d))
    BY <1>1, <1>2, BranchSteady DEF bcc_8
  <2> QED
    BY <1>1, <1>4, <2>1, <2>2
<1>5. ASSUME NEW d \in Displacements, NEW x \in Xs,
             cpu' \in {bra_8(s, d), bsr_8(s, d), moveq_32(s, d, x)}
      PROVE  Legal(s, cpu')
  <2>1. d \in Int /\ x \in Reg
    BY <1>2, ProgramAssumption
  <2>2. Steady(s, bra_8(s, d)) /\ Steady(s, bsr_8(s, d))
    BY <1>1, <2>1, SubroutineSteady
  <2>3. Steady(s, moveq_32(s, d, x))
    BY <1>1, <2>1, QuickSteady
  <2> QED
    BY <1>1, <1>5, <2>2, <2>3
<1>6. ASSUME NEW n \in Traps, cpu' = trap(s, n)
      PROVE  Legal(s, cpu')
  <2> DEFINE k == TrapBase + n
  <2>1. k \in Nat
    BY ProgramAssumption DEF TrapBase
  <2>2. cpu' = Trap(s, k)
    BY <1>6 DEF trap
  <2> HIDE DEF k
  <2> QED
    BY <1>1, <2>1, <2>2, TrapExcepts DEF Legal
<1> QED
  BY <1>3, <1>4, <1>5, <1>6

(* Every handler does what an instruction may do.                          *)
LEMMA InstructionLegal ==
    ASSUME NEW s, Good(s), Instruction(s)
    PROVE  Legal(s, cpu')
<1>1. CASE \/ Refused(s) \/ Simple(s) \/ System(s) \/ SystemRegisters(s)
           \/ StatusFrom(s) \/ StatusTo(s) \/ AnyToRegister(s) \/ MoveWide(s)
           \/ MoveByte(s) \/ MoveByteByStack(s) \/ DataToRegister(s)
  BY <1>1, RefusedLegal, SimpleLegal, SystemLegal, SystemRegistersLegal, StatusFromLegal,
     StatusToLegal, AnyToRegisterLegal, MoveWideLegal, MoveByteLegal, MoveByteByStackLegal,
     DataToRegisterLegal
<1>2. CASE \/ RegisterToMemory(s) \/ RegisterToData(s) \/ ImmediateToData(s)
           \/ OneOperand(s) \/ SetOnCondition(s) \/ TestBitOfRegister(s)
           \/ TestBitOfImmediate(s) \/ ShiftMemory(s) \/ ShiftRegister(s)
  BY <1>2, RegisterToMemoryLegal, RegisterToDataLegal, ImmediateToDataLegal, OneOperandLegal,
     SetOnConditionLegal, TestBitOfRegisterLegal, TestBitOfImmediateLegal, ShiftMemoryLegal,
     ShiftRegisterLegal
<1>3. CASE \/ TwoRegisters(s) \/ OneRegister(s) \/ Address(s) \/ LoadAddress(s)
           \/ StackFrame(s) \/ MoveMultiple(s) \/ MoveMultiplePc(s) \/ InOpcode(s)
  BY <1>3, TwoRegistersLegal, OneRegisterLegal, AddressLegal, LoadAddressLegal,
     StackFrameLegal, MoveMultipleLegal, MoveMultiplePcLegal, InOpcodeLegal
<1> QED
  BY <1>1, <1>2, <1>3, Zenon DEF Instruction

-----------------------------------------------------------------------------
(* The inductive invariant.                                                *)

(* Fetching the opcode is steady.                                          *)
LEMMA FetchSteady ==
    ASSUME NEW s \in States, s.left > 0
    PROVE  Steady(s, Fetch(s))
<1> DEFINE a == s.pc + 2
           t == SetPc(s, a)
           pc == s.pc
           l == t.left - 1
<1>1. a \in Int /\ pc \in Values(Long)
  BY PcTyped
<1> HIDE DEF a, pc
<1>2. Steady(s, t) /\ t.left = s.left
  <2>1. t.left = s.left
    BY DEF SetPc, States
  <2> QED
    BY <1>1, <2>1, SetPcSteady
<1>3. Fetch(s) = [t EXCEPT !.ppc = pc, !.left = l]
  BY <1>2 DEF Fetch, a, pc, Steady, States
<1>4. s.left \in Nat
  BY DEF States
<1>5. l \in Nat
  BY <1>2, <1>4
<1> HIDE DEF t, l
<1>6. Steady(t, [t EXCEPT !.ppc = pc, !.left = l])
  BY <1>1, <1>2, <1>5 DEF Steady, States
<1> QED
  BY <1>2, <1>3, <1>6, SteadyOn

(* What an instruction may do after a steady step it may do altogether.    *)
LEMMA LegalOn ==
    ASSUME NEW s, NEW t, NEW u, Steady(s, t), Legal(t, u)
    PROVE  Legal(s, u)
<1>1. CASE Steady(t, u)
  BY <1>1, SteadyOn DEF Legal
<1>2. CASE Excepted(t, u)
  BY <1>2, SteadyOn DEF Legal, Excepted
<1>3. CASE t.s /\ Good(u)
  BY <1>3 DEF Legal, Steady
<1> QED
  BY <1>1, <1>2, <1>3 DEF Legal

(* What an instruction may do keeps the invariant.                         *)
LEMMA LegalGood ==
    ASSUME NEW s, NEW t, Good(s), Legal(s, t)
    PROVE  Good(t)
<1>1. CASE Steady(s, t)
  BY <1>1 DEF Good, Steady
<1>2. CASE Excepted(s, t)
  BY <1>2 DEF Good, Excepted, Steady, Entered
<1>3. CASE s.s /\ Good(t)
  BY <1>3
<1> QED
  BY <1>1, <1>2, <1>3 DEF Legal

(* So does a steady step.                                                  *)
LEMMA SteadyGood ==
    ASSUME NEW s, NEW t, Good(s), Steady(s, t)
    PROVE  Good(t)
BY DEF Good, Steady

(* Whatever is executed, the step is one of the three kinds, and so is the *)
(* beginning of a slice.                                                   *)
LEMMA StepLegal ==
    ASSUME Good(cpu), Execute \/ m68k_execute \/ UNCHANGED vars
    PROVE  Legal(cpu, cpu')
<1>1. CASE Execute
  <2> DEFINE s == Fetch(cpu)
  <2>1. cpu.left > 0 /\ Instruction(s)
    BY <1>1 DEF Execute
  <2>2. Steady(cpu, s)
    BY <2>1, FetchSteady DEF Good
  <2> HIDE DEF s
  <2>3. Good(s)
    BY <2>2, SteadyGood
  <2>4. Legal(s, cpu')
    BY <2>1, <2>3, InstructionLegal
  <2> QED
    BY <2>2, <2>4, LegalOn
<1>2. CASE m68k_execute
  <2>1. PICK n \in Slices : cpu' = [cpu EXCEPT !.left = IF cpu.stopped = {} THEN n ELSE 0]
    BY <1>2 DEF m68k_execute
  <2> DEFINE l == IF cpu.stopped = {} THEN n ELSE 0
  <2>2. l \in Nat
    BY ProgramAssumption
  <2>3. cpu' = [cpu EXCEPT !.left = l]
    BY <2>1
  <2> HIDE DEF l
  <2>4. Steady(cpu, cpu')
    BY <2>2, <2>3 DEF Good, Steady, States
  <2> QED
    BY <2>4 DEF Legal
<1>3. CASE UNCHANGED vars
  BY <1>3, SteadyIs DEF Good, Legal, vars
<1> QED
  BY <1>1, <1>2, <1>3

(* s with the request l in place of the one that waits.                    *)
Asked(s, l) == [s EXCEPT !.level = l]

(* A request that comes in is taken at once or left below the mask.        *)
LEMMA RequestedIs ==
    ASSUME NEW s \in States, NEW l \in 0 .. 7
    PROVE  LET t == Asked(s, l) IN
           /\ t \in States /\ t.level = l /\ t.s = s.s /\ t.sp = s.sp /\ t.t = s.t
           /\ t.mask = s.mask /\ t.stopped = s.stopped /\ t.pc = s.pc
           /\ \/ Requested(s, l) = Interrupt(t, l)
              \/ Requested(s, l) = t /\ l <= s.mask
<1> DEFINE t == Asked(s, l)
<1>1. /\ t \in States /\ t.level = l /\ t.s = s.s /\ t.sp = s.sp /\ t.t = s.t
      /\ t.mask = s.mask /\ t.stopped = s.stopped /\ t.pc = s.pc
  BY DEF States, Asked
<1>2. s.mask \in 0 .. 7
  BY DEF States
<1>3. Requested(s, l) = IF s.level # 7 /\ l = 7 THEN Interrupt(t, 7) ELSE CheckInterrupts(t)
  BY DEF Requested, Asked
<1> HIDE DEF t
<1>4. \/ Requested(s, l) = Interrupt(t, l)
      \/ Requested(s, l) = t /\ l <= s.mask
  <2>1. CASE s.level # 7 /\ l = 7
    BY <1>3, <2>1
  <2>2. CASE ~ (s.level # 7 /\ l = 7)
    BY <1>1, <1>2, <1>3, <2>2 DEF CheckInterrupts
  <2> QED
    BY <2>1, <2>2
<1> QED
  BY <1>1, <1>4 DEF t

(* A request leaves none that could be taken.                              *)
LEMMA RequestGood ==
    ASSUME NEW s, Good(s), NEW l \in 0 .. 7
    PROVE  Good(Requested(s, l))
<1> DEFINE t == Asked(s, l)
<1>1. /\ t \in States /\ t.level = l /\ t.mask = s.mask /\ t.stopped = s.stopped
      /\ \/ Requested(s, l) = Interrupt(t, l)
         \/ Requested(s, l) = t /\ l <= s.mask
  BY RequestedIs DEF Good
<1>2. t.stopped \in {{}, {"STOP"}}
  BY <1>1 DEF Good, States
<1> HIDE DEF t
<1>3. CASE Requested(s, l) = Interrupt(t, l)
  <2>1. /\ Interrupt(t, l) \in States /\ Interrupt(t, l).mask = l
        /\ Interrupt(t, l).level = 0 /\ Interrupt(t, l).stopped = {}
    BY <1>1, <1>2, InterruptTaken DEF Entered
  <2> QED
    BY <1>3, <2>1 DEF Good
<1>4. CASE Requested(s, l) = t /\ l <= s.mask
  BY <1>1, <1>4 DEF Good
<1> QED
  BY <1>1, <1>3, <1>4

(* The invariant: the processor is well formed, its request is not above   *)
(* its mask, and it has not been halted. It needs every instruction to be  *)
(* one of the three kinds, and it is what the properties follow from.      *)
LEMMA Goodness == Spec => []Good(cpu)
<1>1. Init => Good(cpu)
  BY ProgramAssumption DEF Init, Good
<1>2. Good(cpu) /\ [Next]_vars => Good(cpu)'
  <2> SUFFICES ASSUME Good(cpu), [Next]_vars PROVE Good(cpu')
    OBVIOUS
  <2>1. CASE Execute \/ m68k_execute \/ UNCHANGED vars
    <3>1. Legal(cpu, cpu')
      BY <2>1, StepLegal
    <3> QED
      BY <3>1, LegalGood
  <2>2. CASE m68k_set_irq
    <3>1. PICK l \in Levels \ {0} : cpu' = Requested(cpu, l)
      BY <2>2 DEF m68k_set_irq
    <3>2. l \in 0 .. 7
      BY ProgramAssumption
    <3> QED
      BY <3>1, <3>2, RequestGood
  <2>3. CASE m68k_pulse_reset
    BY <2>3, ResetGood DEF m68k_pulse_reset, Good
  <2> QED
    BY <2>1, <2>2, <2>3 DEF Next, AtRest
<1> QED
  BY <1>1, <1>2, PTL DEF Spec

(* The calls left are numbers.                                             *)
CallsOk(c) == c \in [Call -> Int]

(* A call that is made counts.                                             *)
LEMMA BudgetsKept == Spec => []CallsOk(calls)
<1>1. Init => CallsOk(calls)
  BY ProgramAssumption DEF Init, CallsOk
<1>2. CallsOk(calls) /\ [Next]_vars => CallsOk(calls)'
  <2> SUFFICES ASSUME CallsOk(calls), [Next]_vars PROVE CallsOk(calls')
    OBVIOUS
  <2>1. CASE Execute \/ UNCHANGED vars
    BY <2>1 DEF Execute, vars
  <2>2. ASSUME NEW which \in Call, Called(which) PROVE CallsOk(calls')
    BY <2>2 DEF Called, CallsOk
  <2>3. CASE m68k_execute \/ m68k_set_irq \/ m68k_pulse_reset
    BY <2>2, <2>3 DEF m68k_execute, m68k_set_irq, m68k_pulse_reset, Call
  <2> QED
    BY <2>1, <2>3 DEF Next, AtRest
<1> QED
  BY <1>1, <1>2, PTL DEF Spec

(* Whatever the programs and the samples of memory, no instruction,        *)
(* exception or request makes a register, a flag or a byte of memory leave *)
(* its width: 68000 registers are kept in words of the host (m68kcpu.h),   *)
(* and every handler of m68kopac.c, m68kopdm.c and m68kopnz.c has to cut   *)
(* its result by itself.                                                   *)
THEOREM M68kTyped == Spec => []TypeOk
<1>1. Good(cpu) => TypeOk
  BY DEF Good, TypeOk
<1> QED
  BY <1>1, Goodness, PTL

(* A request above the mask never waits: every handler that writes the     *)
(* status register does it by m68ki_set_sr, which ends in                  *)
(* m68ki_check_interrupts.                                                 *)
THEOREM RequestsTaken == Spec => []NoTakeableWaiting
<1>1. Good(cpu) => NoTakeableWaiting
  BY DEF Good, NoTakeableWaiting
<1> QED
  BY <1>1, Goodness, PTL

-----------------------------------------------------------------------------
(* Privilege.                                                              *)

(* The upper part of the status register is made of the mode, the trace    *)
(* bit and the mask alone.                                                 *)
LEMMA SrMode ==
    ASSUME NEW s \in States, NEW t \in States, t.s = s.s, t.t = s.t, t.mask = s.mask
    PROVE  Sr(t) \div 32 = Sr(s) \div 32
<1> DEFINE f == 2048 * Flag(s.t) + 512 * Flag(s.s)
           q == f * (Unit * Unit)
           m == Unit * s.mask
<1>1. /\ Sr(s) = q + 64 * m + Ccr(s) /\ Sr(t) = q + 64 * m + Ccr(t)
      /\ Ccr(s) \in 0 .. 31 /\ Ccr(t) \in 0 .. 31
  BY SrParts
<1>2. m \in Int /\ \E Z \in Int : q = 512 * Z
  <2> DEFINE g == Flag(s.t)
             h == Flag(s.s)
             U == Unit * Unit
             Z == (4 * g + h) * U
  <2>1. g \in Int /\ h \in Int /\ U \in Int /\ m \in Int
    BY SrParts, Units
  <2>2. q = (2048 * g + 512 * h) * U
    OBVIOUS
  <2> HIDE DEF g, h, U
  <2>3. Z \in Int /\ q = 512 * Z
    BY <2>1, <2>2
  <2> QED
    BY <2>1, <2>3
<1> HIDE DEF q, m
<1>3. PICK Z \in Int : q = 512 * Z
  BY <1>2
<1> DEFINE Y == 16 * Z + 2 * m
<1>4. Y \in Int /\ Sr(s) = 32 * Y + Ccr(s) /\ Sr(t) = 32 * Y + Ccr(t)
  BY <1>1, <1>2, <1>3
<1> HIDE DEF Y
<1> QED
  BY <1>1, <1>4

(* What a step may do in user mode.                                        *)
Keeping(s, t) ==
    IF t.s THEN /\ t.dar[SP] = Low(Long, s.sp[TRUE] - 6)
                /\ Read16(t, t.dar[SP]) \div 32 = Sr(s) \div 32
    ELSE t.sp[TRUE] = s.sp[TRUE] /\ t.mask = s.mask /\ t.t = s.t

(* An exception leaves the user's mode and mask on the supervisor's stack. *)
LEMMA EnteredKeeps ==
    ASSUME NEW s \in States, ~s.s, NEW u \in States, NEW t, NEW pc, Entered(u, pc, t),
           u.s = s.s, u.t = s.t, u.mask = s.mask, u.sp = s.sp
    PROVE  Keeping(s, t)
<1>1. t.s /\ t.dar = [u.dar EXCEPT ![SP] = Low(Long, SuperTop(u) - 6)]
      /\ Read16(t, t.dar[SP]) = Sr(u)
  BY DEF Entered
<1>2. SuperTop(u) = s.sp[TRUE]
  BY DEF SuperTop
<1>3. t.dar[SP] = Low(Long, s.sp[TRUE] - 6)
  <2>1. u.dar \in [0 .. 15 -> Values(Long)] /\ SP \in 0 .. 15
    BY Kinds DEF States
  <2> QED
    BY <1>1, <1>2, <2>1
<1>4. Sr(u) \div 32 = Sr(s) \div 32
  BY SrMode
<1> QED
  BY <1>1, <1>3, <1>4 DEF Keeping

(* What an instruction may do in user mode.                                *)
LEMMA LegalKeeps ==
    ASSUME NEW s, NEW t, Good(s), Legal(s, t), ~s.s
    PROVE  Keeping(s, t)
<1>1. CASE Steady(s, t)
  BY <1>1 DEF Steady, Keeping
<1>2. CASE Excepted(s, t)
  <2>1. PICK u, pc : Steady(s, u) /\ Entered(u, pc, t)
    BY <1>2 DEF Excepted
  <2>2. s \in States /\ u \in States /\ u.s = s.s /\ u.t = s.t /\ u.mask = s.mask /\ u.sp = s.sp
    BY <2>1 DEF Good, Steady
  <2> QED
    BY <2>1, <2>2, EnteredKeeps
<1> QED
  BY <1>1, <1>2 DEF Legal

(* And what a request may do, whether the processor has stopped or not.    *)
LEMMA RequestKeeps ==
    ASSUME NEW s, Good(s), ~s.s, NEW l \in 0 .. 7
    PROVE  Keeping(s, Requested(s, l))
<1> DEFINE t == Asked(s, l)
           u == [t EXCEPT !.stopped = @ \ {"STOP"}]
           r == Interrupt(t, l)
<1>1. /\ t \in States /\ t.s = s.s /\ t.sp = s.sp /\ t.t = s.t
      /\ t.mask = s.mask /\ t.stopped = s.stopped
      /\ \/ Requested(s, l) = r
         \/ Requested(s, l) = t /\ l <= s.mask
  BY RequestedIs DEF Good
<1>2. t.stopped \in {{}, {"STOP"}} /\ s \in States
  BY <1>1 DEF Good, States
<1> HIDE DEF t
<1>3. CASE Requested(s, l) = r
  <2> DEFINE pc == t.pc
  <2>1. u \in States /\ Entered(u, pc, r)
    BY <1>1, <1>2, InterruptTaken
  <2>2. u.s = s.s /\ u.t = s.t /\ u.mask = s.mask /\ u.sp = s.sp
    BY <1>1 DEF States
  <2> HIDE DEF u, r, pc
  <2> QED
    BY <1>2, <1>3, <2>1, <2>2, EnteredKeeps
<1>4. CASE Requested(s, l) = t
  BY <1>1, <1>4 DEF Keeping
<1> QED
  BY <1>1, <1>3, <1>4

(* In user mode only an exception reaches the interrupt mask, the trace    *)
(* bit and the supervisor's stack pointer, and it leaves the user's mode   *)
(* and mask on top of the supervisor's stack: no handler among those that  *)
(* write the status register or the stack pointer lacks its test of the    *)
(* mode.                                                                   *)
THEOREM PrivilegeHolds == Spec => PrivilegeKept
<1>1. Good(cpu) /\ CallsOk(calls) /\ [Next]_vars
        => [~cpu.s /\ calls'["reset"] = calls["reset"] =>
             IF cpu'.s
             THEN /\ cpu'.dar[SP] = Low(Long, cpu.sp[TRUE] - 6)
                  /\ Read16(cpu', cpu'.dar[SP]) \div 32 = Sr(cpu) \div 32
             ELSE /\ cpu'.sp[TRUE] = cpu.sp[TRUE]
                  /\ cpu'.mask = cpu.mask /\ cpu'.t = cpu.t]_cpu
  <2> SUFFICES ASSUME Good(cpu), CallsOk(calls), [Next]_vars, ~cpu.s,
                      calls'["reset"] = calls["reset"]
               PROVE  Keeping(cpu, cpu')
    BY Zenon DEF Keeping
  <2>1. CASE Execute \/ m68k_execute \/ UNCHANGED vars
    <3>1. Legal(cpu, cpu')
      BY <2>1, StepLegal
    <3> QED
      BY <3>1, LegalKeeps
  <2>2. CASE m68k_set_irq
    <3>1. PICK l \in Levels \ {0} : cpu' = Requested(cpu, l)
      BY <2>2 DEF m68k_set_irq
    <3>2. l \in 0 .. 7
      BY ProgramAssumption
    <3> QED
      BY <3>1, <3>2, RequestKeeps
  <2>3. CASE m68k_pulse_reset
    BY <2>3 DEF m68k_pulse_reset, Called, CallsOk, Call
  <2> QED
    BY <2>1, <2>2, <2>3 DEF Next, AtRest
<1> QED
  BY <1>1, Goodness, BudgetsKept, PTL DEF Spec, PrivilegeKept

-----------------------------------------------------------------------------
(* Coming back.                                                            *)

(* A jump changes the program counter only.                                *)
LEMMA SetPcKeeps ==
    ASSUME NEW s \in States, NEW a \in Int
    PROVE  /\ SetPc(s, a).dar = s.dar /\ SetPc(s, a).pc = Low(Long, a)
           /\ SetPc(s, a).mem = s.mem
           /\ Sr(SetPc(s, a)) = Sr(s)
<1>1. Low(Long, a) \in Values(Long)
  BY Cuts, Kinds
<1>2. /\ SetPc(s, a).dar = s.dar /\ SetPc(s, a).pc = Low(Long, a) /\ SetPc(s, a).mem = s.mem
      /\ SetPc(s, a).t = s.t /\ SetPc(s, a).s = s.s /\ SetPc(s, a).mask = s.mask
      /\ SetPc(s, a).x = s.x /\ SetPc(s, a).n = s.n /\ SetPc(s, a).z = s.z
      /\ SetPc(s, a).v = s.v /\ SetPc(s, a).c = s.c
  BY DEF SetPc, States
<1>4. Sr(SetPc(s, a)) = Sr(s)
  BY <1>2 DEF Sr, Ccr
<1> QED
  BY <1>2, <1>4

(* t is s with v in register r.                                            *)
Placed(s, t, r, v) ==
    /\ t \in States
    /\ t.dar = [s.dar EXCEPT ![r] = Low(Long, v)] /\ t.dar[r] = Low(Long, v)
    /\ t.mem = s.mem

(* Writing a register.                                                     *)
LEMMA SetPlaces ==
    ASSUME NEW s \in States, NEW r \in 0 .. 15, NEW v \in Int
    PROVE  Placed(s, Set(s, r, v), r, v)
<1> DEFINE c == Low(Long, v)
<1>1. c \in Values(Long)
  BY Cuts, Kinds
<1>2. Set(s, r, v) \in States
  BY SetSteady DEF Steady
<1> HIDE DEF c
<1>3. s.dar \in [0 .. 15 -> Values(Long)]
  BY DEF States
<1>4. Set(s, r, v).dar = [s.dar EXCEPT ![r] = c] /\ Set(s, r, v).mem = s.mem
  BY DEF Set, States, c
<1>5. [s.dar EXCEPT ![r] = c][r] = c
  BY <1>3
<1> QED
  BY <1>2, <1>4, <1>5 DEF Placed, c

(* What a return takes from the stack.                                     *)
LEMMA Returned ==
    ASSUME NEW s \in States
    PROVE  /\ Return(s).pc = Read32(s, s.dar[SP])
           /\ Return(s).dar = [s.dar EXCEPT ![SP] = Low(Long, s.dar[SP] + 4)]
           /\ Return(s).s = s.s /\ Return(s).sp = s.sp /\ Return(s).level = s.level
           /\ Return(s) \in States
<1> DEFINE a == s.dar[SP]
           v == Read32(s, a)
           b == a + 4
           t == Set(s, SP, b)
<1>1. Return(s) = SetPc(t, v)
  BY DEF Return, Pull32, With, Then, Jump
<1>2. a \in Int /\ b \in Int
  BY RegisterTyped, Kinds
<1> HIDE DEF a
<1>3. v \in Values(Long)
  BY <1>2, ReadTyped
<1> HIDE DEF b, v
<1>4. t \in States /\ t.dar = [s.dar EXCEPT ![SP] = Low(Long, b)]
  <2>1. Placed(s, t, SP, b)
    BY <1>2, SetPlaces, Kinds
  <2> QED
    BY <2>1 DEF Placed
<1>5. v \in Int /\ Low(Long, v) = v
  BY <1>3, Numbers, Kinds
<1> HIDE DEF t
<1>6. SetPc(t, v).dar = t.dar /\ SetPc(t, v).pc = v
  BY <1>4, <1>5, SetPcKeeps
<1>7. Steady(s, Return(s))
  BY ReturnSteady
<1> QED
  BY <1>1, <1>4, <1>6, <1>7 DEF a, b, v, Steady

(* What has been taken off the stack pointer can be given back, wherever   *)
(* it wraps.                                                               *)
LEMMA StackTop ==
    ASSUME NEW s \in States, NEW k \in Int
    PROVE  /\ s.dar[SP] \in Int /\ s.dar[SP] - k \in Int /\ s.dar[SP] + k \in Int
           /\ Low(Long, Low(Long, s.dar[SP] - k) + k) = s.dar[SP]
           /\ Low(Long, s.dar[SP]) = s.dar[SP]
<1> DEFINE S == s.dar[SP]
           a == S - k
<1>1. S \in Values(Long)
  BY RegisterTyped, Kinds
<1>2. S \in Int /\ Low(Long, S) = S
  BY <1>1, Numbers, Kinds
<1>3. a \in Int /\ a + k = S /\ S + k \in Int
  BY <1>2
<1> HIDE DEF a, S
<1>4. Low(Long, Low(Long, a) + k) = Low(Long, a + k)
  BY <1>3, LowWraps
<1> QED
  BY <1>2, <1>3, <1>4 DEF a, S

(* A return undoes the push before a jump.                                 *)
LEMMA PushedReturns ==
    ASSUME NEW s \in States, NEW v \in Values(Long), NEW a \in Int
    PROVE  LET r == Return(SetPc(Push32(s, v), a))
           IN  r.pc = v /\ r.dar = s.dar
<1> DEFINE p == Push32(s, v)
           t == SetPc(p, a)
           four == 4
           S == s.dar[SP]
<1>1. v \in Int /\ Low(Long, v) = v
  BY Numbers, Kinds
<1>2. four \in Int
  OBVIOUS
<1> HIDE DEF four
<1>3. /\ S - four \in Int /\ Low(Long, S) = S
      /\ Low(Long, Low(Long, S - four) + four) = S
  BY <1>2, StackTop
<1>4. /\ p.dar = [s.dar EXCEPT ![SP] = Low(Long, S - four)]
      /\ Read32(p, p.dar[SP]) = v
  BY <1>1, Pushing DEF four
<1>5. p \in States
  BY <1>1, PushSteady DEF Steady
<1> HIDE DEF p
<1>6. t.dar = p.dar /\ Read32(t, t.dar[SP]) = v
  <2>1. t.dar = p.dar /\ t.mem = p.mem
    BY <1>5, SetPcKeeps
  <2> HIDE DEF t
  <2> QED
    BY <1>4, <2>1 DEF Read32, Read16, Read8
<1>7. t \in States
  BY <1>5, SetPcSteady DEF Steady
<1> HIDE DEF t
<1>8. Return(t).pc = v /\ Return(t).dar = [t.dar EXCEPT ![SP] = Low(Long, t.dar[SP] + four)]
  BY <1>6, <1>7, Returned DEF four
<1>9. s.dar \in [0 .. 15 -> Values(Long)] /\ SP \in 0 .. 15
  BY Kinds DEF States
<1>10. t.dar[SP] = Low(Long, S - four)
  BY <1>4, <1>6, <1>9
<1> HIDE DEF S
<1>11. Return(t).dar = [s.dar EXCEPT ![SP] = S]
  BY <1>3, <1>4, <1>6, <1>8, <1>9, <1>10
<1>12. [s.dar EXCEPT ![SP] = S] = s.dar
  BY <1>9 DEF S
<1> QED
  BY <1>8, <1>11, <1>12 DEF t, p

(* UNLK undoes LINK: the frame register comes back from the stack, and the *)
(* stack pointer from the frame register, for every displacement.          *)
LEMMA Unlinked ==
    ASSUME NEW s \in States, NEW y \in Reg \ {7}
    PROVE  unlk_32(link_16(s, y), y).dar = s.dar
<1> DEFINE S == s.dar[SP]
           four == 4
           top == S - four
           v == s.dar[A(y)]
           p == Push32(s, v)
           q == Set(p, A(y), top)
           f == Frame(q)
           b == Low(Long, top)
<1>1. /\ y \in Reg /\ A(y) \in 0 .. 15 /\ SP \in 0 .. 15 /\ A(y) # SP
      /\ s.dar \in [0 .. 15 -> Values(Long)]
  BY Kinds DEF Reg, States
<1>2. v \in Values(Long) /\ v \in Int /\ Low(Long, v) = v
  BY <1>1, RegisterTyped, Numbers, Kinds
<1>3. four \in Int
  OBVIOUS
<1> HIDE DEF four
<1>4. top \in Int /\ S \in Int /\ Low(Long, S) = S /\ Low(Long, b + four) = S
  BY <1>3, StackTop
<1>5. b \in Values(Long) /\ b \in Int /\ Low(Long, b) = b
  BY <1>4, Cuts, Numbers, Kinds
<1> HIDE DEF v
<1>6. /\ p \in States /\ p.dar = [s.dar EXCEPT ![SP] = b]
      /\ Read32(p, p.dar[SP]) = v
  BY <1>2, PushSteady, Pushing DEF Steady, four
<1> HIDE DEF p, S, top, b
<1>7. p.dar[SP] = b
  BY <1>1, <1>6
<1>8. /\ q \in States /\ q.dar = [p.dar EXCEPT ![A(y)] = b] /\ q.mem = p.mem
  <2>1. Placed(p, q, A(y), top)
    BY <1>1, <1>4, <1>6, SetPlaces
  <2> QED
    BY <2>1 DEF Placed, b
<1> HIDE DEF q
<1>9. PICK X : f.dar = [q.dar EXCEPT ![SP] = X] /\ f \in States /\ f.mem = q.mem
  <2> DEFINE e == Imm16(q)
             w == e.s.dar[SP] + Signed(Word, e.v)
  <2>1. f = Set(e.s, SP, w)
    BY DEF Frame, Then
  <2>2. e.s \in States /\ e.s.dar = q.dar /\ e.v \in Int
    BY <1>8, Words
  <2>3. e.s.mem = q.mem
    BY <1>8 DEF Imm16, With, SetPc, States
  <2> DEFINE r == e.s
  <2> HIDE DEF e
  <2>6. w \in Int
    <3>1. r.dar[SP] \in Int
      BY <2>2, RegisterTyped, Kinds
    <3>2. Signed(Word, e.v) \in Int
      BY <2>2, Whole, Kinds
    <3> QED
      BY <3>1, <3>2
  <2> HIDE DEF w
  <2>7. Placed(r, Set(r, SP, w), SP, w)
    BY <1>1, <2>2, <2>6, SetPlaces
  <2>4. f.dar = [q.dar EXCEPT ![SP] = Low(Long, w)] /\ f.mem = q.mem
    BY <2>1, <2>2, <2>3, <2>7 DEF Placed
  <2>5. f \in States
    BY <1>8, FrameSteady DEF Steady
  <2> QED
    BY <2>4, <2>5
<1> HIDE DEF f
<1>10. f.dar[A(y)] = b
  BY <1>1, <1>6, <1>8, <1>9
<1> DEFINE g == Set(f, SP, b)
<1>11. /\ g \in States /\ g.dar = [f.dar EXCEPT ![SP] = b] /\ g.dar[SP] = b /\ g.mem = p.mem
  <2>1. Placed(f, g, SP, b)
    BY <1>1, <1>5, <1>9, SetPlaces
  <2> QED
    BY <1>5, <1>8, <1>9, <2>1 DEF Placed
<1> HIDE DEF g
<1>12. Read32(g, b) = v
  BY <1>6, <1>7, <1>11 DEF Read32, Read16, Read8
<1> DEFINE c == b + four
           h == Set(g, SP, c)
<1>13. unlk_32(f, y) = Set(h, A(y), v)
  BY <1>10, <1>11, <1>12 DEF unlk_32, Pull32, With, Then, g, four
<1>14. c \in Int
  BY <1>3, <1>5
<1> HIDE DEF c
<1>15. h \in States /\ h.dar = [g.dar EXCEPT ![SP] = Low(Long, c)]
  <2>1. Placed(g, h, SP, c)
    BY <1>1, <1>11, <1>14, SetPlaces
  <2> QED
    BY <2>1 DEF Placed
<1>16. Low(Long, c) = S
  BY <1>4 DEF c
<1> HIDE DEF h
<1>17. unlk_32(f, y).dar = [h.dar EXCEPT ![A(y)] = v]
  <2>1. Placed(h, Set(h, A(y), v), A(y), v)
    BY <1>1, <1>2, <1>15, SetPlaces
  <2> QED
    BY <1>2, <1>13, <2>1 DEF Placed
<1>18. unlk_32(f, y).dar = s.dar
  <2>1. v = s.dar[A(y)] /\ S = s.dar[SP]
    BY DEF v, S
  <2>2. unlk_32(f, y).dar \in [0 .. 15 -> Values(Long)]
    <3>1. h.dar \in [0 .. 15 -> Values(Long)]
      BY <1>15 DEF States
    <3> QED
      BY <1>1, <1>2, <1>17, <3>1
  <2>3. ASSUME NEW i \in 0 .. 15 PROVE unlk_32(f, y).dar[i] = s.dar[i]
    BY <1>1, <1>6, <1>8, <1>9, <1>11, <1>15, <1>16, <1>17, <2>1
  <2> QED
    BY <1>1, <2>2, <2>3
<1>19. link_16(s, y) = f
  BY DEF link_16, f, q, p, v, top, S, four
<1> QED
  BY <1>18, <1>19

(* The invariant is all a call needs in order to come back.                *)
LEMMA CallsBack ==
    ASSUME Good(cpu)
    PROVE  CallsReturn
<1>1. cpu \in States
  BY DEF Good
<1>2. ASSUME NEW m \in Control, NEW y \in Ys
      PROVE  LET r == rts_32(jsr_32(cpu, m, y))
             IN  r.pc = Ea(cpu, Long, m, y).s.pc /\ r.dar = cpu.dar
  <2> DEFINE e == Ea(cpu, Long, m, y)
             t == e.s
             a == e.v
             pc == t.pc
  <2>1. y \in Reg
    BY ProgramAssumption
  <2>2. t \in States /\ a \in Int /\ t.dar = cpu.dar
    BY <1>1, <2>1, Addresses
  <2>3. rts_32(jsr_32(cpu, m, y)) = Return(SetPc(Push32(t, pc), a))
    BY DEF rts_32, jsr_32, Then, Jump
  <2> HIDE DEF t, a
  <2>4. pc \in Values(Long)
    BY <2>2, PcTyped
  <2> HIDE DEF pc
  <2>5. LET r == Return(SetPc(Push32(t, pc), a)) IN r.pc = pc /\ r.dar = t.dar
    BY <2>2, <2>4, PushedReturns
  <2> QED
    BY <2>2, <2>3, <2>5 DEF t, pc
<1>3. LET r == rts_32(bsr_16(cpu)) IN r.pc = SkipWord(cpu).pc /\ r.dar = cpu.dar
  <2> DEFINE e == Imm16(cpu)
             t == e.s
             a == cpu.pc + Signed(Word, e.v)
             pc == t.pc
  <2>1. t \in States /\ e.v \in Int /\ t.dar = cpu.dar
    BY <1>1, Words
  <2>2. SkipWord(cpu).pc = pc
    BY DEF SkipWord, Imm16, With
  <2>3. rts_32(bsr_16(cpu)) = Return(SetPc(Push32(t, pc), a))
    BY DEF rts_32, bsr_16, Then, Jump
  <2> HIDE DEF e
  <2>4. Signed(Word, e.v) \in Int /\ cpu.pc \in Int
    BY <1>1, <2>1, Whole, PcTyped, Kinds
  <2>5. a \in Int /\ pc \in Values(Long)
    BY <2>1, <2>4, PcTyped
  <2> HIDE DEF t, a, pc
  <2>6. LET r == Return(SetPc(Push32(t, pc), a)) IN r.pc = pc /\ r.dar = t.dar
    BY <2>1, <2>5, PushedReturns
  <2> QED
    BY <2>1, <2>2, <2>3, <2>6
<1>4. \A y \in Reg \ {7} : unlk_32(link_16(cpu, y), y).dar = cpu.dar
  BY <1>1, Unlinked
<1> QED
  BY <1>2, <1>3, <1>4 DEF CallsReturn

(* A subroutine returns behind the call, with the stack as it was, from    *)
(* every control mode, and UNLK undoes LINK, in every state the processor  *)
(* can reach.                                                              *)
THEOREM CallsComeBack == Spec => []CallsReturn
BY CallsBack, Goodness, PTL

(* The flags are found again in the status register that was saved.        *)
LEMMA SetCcrFromSr ==
    ASSUME NEW s \in States, NEW r \in States
    PROVE  LET c == SetCcr(r, Sr(s))
           IN  /\ c.x = s.x /\ c.n = s.n /\ c.z = s.z /\ c.v = s.v /\ c.c = s.c
               /\ c.dar = r.dar /\ c.pc = r.pc /\ Steady(r, c)
<1> DEFINE v == Sr(s)
           n == Ccr(s)
           b(i) == BitOf(v, i) = 1
           c == SetCcr(r, v)
<1>1. c = [r EXCEPT !.x = b(4), !.n = b(3), !.z = b(2), !.v = b(1), !.c = b(0)]
  BY DEF SetCcr
<1>2. /\ s.x \in BOOLEAN /\ s.n \in BOOLEAN /\ s.z \in BOOLEAN
      /\ s.v \in BOOLEAN /\ s.c \in BOOLEAN
  BY DEF States
<1> DEFINE X == Flag(s.x)
           N == Flag(s.n)
           Z == Flag(s.z)
           V == Flag(s.v)
           C == Flag(s.c)
<1>3. /\ n = 16 * X + 8 * N + 4 * Z + 2 * V + C
      /\ X \in {0, 1} /\ N \in {0, 1} /\ Z \in {0, 1} /\ V \in {0, 1} /\ C \in {0, 1}
  BY FlagTyped DEF Ccr
<1>4. \A k \in 0 .. 4 : BitOf(v, k) = BitOf(n, k)
  BY SrFields
<1> HIDE DEF X, N, Z, V, C, n, v
<1>5. /\ 2 ^ 0 = 1 /\ 2 ^ 1 = 2 /\ 2 ^ 2 = 4 /\ 2 ^ 3 = 8 /\ 2 ^ 4 = 16
  BY Units, SmallPowers, Four
<1>6. /\ (n \div 1) % 2 = C /\ (n \div 2) % 2 = V /\ (n \div 4) % 2 = Z
      /\ (n \div 8) % 2 = N /\ (n \div 16) % 2 = X
  <2>1. (n \div 1) % 2 = C
    BY <1>3
  <2>2. (n \div 2) % 2 = V
    BY <1>3
  <2>3. (n \div 4) % 2 = Z
    BY <1>3
  <2>4. (n \div 8) % 2 = N
    BY <1>3
  <2>5. (n \div 16) % 2 = X
    BY <1>3
  <2> QED
    BY <2>1, <2>2, <2>3, <2>4, <2>5
<1>7. /\ BitOf(n, 0) = C /\ BitOf(n, 1) = V /\ BitOf(n, 2) = Z
      /\ BitOf(n, 3) = N /\ BitOf(n, 4) = X
  BY <1>5, <1>6 DEF BitOf
<1>8. /\ BitOf(v, 0) = C /\ BitOf(v, 1) = V /\ BitOf(v, 2) = Z
      /\ BitOf(v, 3) = N /\ BitOf(v, 4) = X
  <2>1. 0 \in 0 .. 4 /\ 1 \in 0 .. 4 /\ 2 \in 0 .. 4 /\ 3 \in 0 .. 4 /\ 4 \in 0 .. 4
    OBVIOUS
  <2> QED
    BY <1>4, <1>7, <2>1
<1>9. /\ (X = 1) = s.x /\ (N = 1) = s.n /\ (Z = 1) = s.z /\ (V = 1) = s.v /\ (C = 1) = s.c
  BY <1>2 DEF X, N, Z, V, C, Flag
<1>10. b(4) = s.x /\ b(3) = s.n /\ b(2) = s.z /\ b(1) = s.v /\ b(0) = s.c
  BY <1>8, <1>9
<1>11. c = [r EXCEPT !.x = s.x, !.n = s.n, !.z = s.z, !.v = s.v, !.c = s.c]
  BY <1>1, <1>10
<1>12. Steady(r, c)
  BY SetCcrSteady
<1> HIDE DEF b, c
<1>13. /\ c.x = s.x /\ c.n = s.n /\ c.z = s.z /\ c.v = s.v /\ c.c = s.c
       /\ c.dar = r.dar /\ c.pc = r.pc
  BY <1>11 DEF States
<1> QED
  BY <1>12, <1>13 DEF c, v

(* Writing a status register that was read brings its fields back.         *)
Restored(s, r, u) ==
    /\ u \in States /\ u.s = s.s /\ Sr(u) = Sr(s) /\ u.mask = s.mask
    /\ u.level = r.level /\ u.pc = r.pc
    /\ u.sp = [r.sp EXCEPT ![r.s] = r.dar[SP]]
    /\ u.dar = [r.dar EXCEPT ![SP] = u.sp[s.s]]

(* So are the mode, the mask and the trace bit, and the stack pointers go  *)
(* back where they were.                                                   *)
LEMMA SetSrFromSr ==
    ASSUME NEW s \in States, NEW r \in States
    PROVE  Restored(s, r, SetSrNoInt(r, Sr(s)))
<1> DEFINE v == Sr(s)
           a == BitOf(v, Bits(Word) - 1) = 1
           m == (v \div Radix) % 8
           b == BitOf(v, Bits(Word) - 3) = 1
           c == SetCcr(r, v)
           q == [c EXCEPT !.t = a, !.mask = m]
           u == SetS(q, b)
<1>1. SetSrNoInt(r, v) = u
  BY DEF SetSrNoInt
<1>2. s.t \in BOOLEAN /\ s.s \in BOOLEAN /\ s.mask \in 0 .. 7
  BY DEF States
<1>3. a = s.t /\ b = s.s /\ m = s.mask
  <2>1. /\ BitOf(v, Bits(Word) - 1) = Flag(s.t) /\ BitOf(v, Bits(Word) - 3) = Flag(s.s)
        /\ m = s.mask
    BY SrFields
  <2>2. (Flag(s.t) = 1) = s.t /\ (Flag(s.s) = 1) = s.s
    BY <1>2 DEF Flag
  <2> QED
    BY <2>1, <2>2
<1>4. /\ c.x = s.x /\ c.n = s.n /\ c.z = s.z /\ c.v = s.v /\ c.c = s.c
      /\ c.dar = r.dar /\ c.pc = r.pc /\ Steady(r, c)
  BY SetCcrFromSr
<1> HIDE DEF v, a, b, m, c
<1>5. a \in BOOLEAN /\ b \in BOOLEAN /\ m \in 0 .. 7 /\ c \in States
  BY <1>2, <1>3, <1>4 DEF Steady
<1>6. /\ q \in States /\ q.t = a /\ q.mask = m /\ q.s = c.s /\ q.sp = c.sp /\ q.dar = c.dar
      /\ q.pc = c.pc /\ q.level = c.level
      /\ q.x = c.x /\ q.n = c.n /\ q.z = c.z /\ q.v = c.v /\ q.c = c.c
  BY <1>5 DEF States
<1> HIDE DEF q
<1>7. Ccr(q) = Ccr(s)
  BY <1>4, <1>6 DEF Ccr
<1>8. /\ u \in States /\ u.s = b /\ u.t = q.t /\ u.mask = q.mask /\ u.level = q.level
      /\ u.pc = q.pc /\ Ccr(u) = Ccr(q)
      /\ u.sp = [q.sp EXCEPT ![q.s] = q.dar[SP]]
      /\ u.dar = [q.dar EXCEPT ![SP] = u.sp[b]]
  BY <1>5, <1>6, SetSIs
<1> HIDE DEF u
<1>9. Sr(u) = Sr(s)
  BY <1>3, <1>6, <1>7, <1>8 DEF Sr
<1> QED
  BY <1>1, <1>3, <1>4, <1>6, <1>8, <1>9 DEF v, Steady, Restored

(* RTE gives back what the entry to an exception has put away.             *)
LEMMA RteReturns ==
    ASSUME NEW s \in States, NEW pc \in Values(Long), NEW t, Entered(s, pc, t),
           t.level <= s.mask
    PROVE  Context(rte_32(t)) = <<s.dar, s.sp[~s.s], pc, Sr(s)>>
<1> DEFINE e == Pull16(t)
           a == t.dar[SP]
           b == a + 2
           v == Read16(t, a)
           d == Set(t, SP, b)
           r == Return(d)
           u == SetSrNoInt(r, v)
           top == SuperTop(s)
<1>1. /\ t \in States /\ t.s = TRUE /\ t.sp = [s.sp EXCEPT ![s.s] = s.dar[SP]]
      /\ t.dar = [s.dar EXCEPT ![SP] = Low(Long, top - 6)]
      /\ v = Sr(s) /\ Read32(t, b) = pc
  BY DEF Entered
<1>2. rte_32(t) = CheckInterrupts(u)
  BY <1>1 DEF rte_32, Pull16, With, Then, SetSr
<1>3. /\ s.sp \in [BOOLEAN -> Values(Long)] /\ s.s \in BOOLEAN
      /\ s.dar \in [0 .. 15 -> Values(Long)] /\ SP \in 0 .. 15
  BY Kinds DEF States
<1>4. top \in Values(Long) /\ top \in Int /\ Low(Long, top) = top
  <2>1. top \in Values(Long)
    BY <1>3 DEF SuperTop
  <2> HIDE DEF top
  <2> QED
    BY <2>1, Numbers, Kinds
<1> HIDE DEF top
<1>5. a \in Int /\ a = Low(Long, top - 6)
  <2>1. a = Low(Long, top - 6)
    BY <1>1, <1>3
  <2>2. a \in Int
    BY <1>1, RegisterTyped, Kinds
  <2> QED
    BY <2>1, <2>2
<1> HIDE DEF v
<1>6. b \in Int
  BY <1>5
<1> HIDE DEF a, b
<1>7. /\ d \in States /\ d.dar = [t.dar EXCEPT ![SP] = Low(Long, b)] /\ d.dar[SP] = Low(Long, b)
      /\ d.mem = t.mem /\ Steady(t, d)
  <2>1. Placed(t, d, SP, b)
    BY <1>1, <1>3, <1>6, SetPlaces
  <2>2. Steady(t, d)
    BY <1>1, <1>3, <1>6, SetSteady
  <2> QED
    BY <2>1, <2>2 DEF Placed
<1> HIDE DEF d
<1>8. Read32(d, d.dar[SP]) = pc
  <2> DEFINE l == Low(Long, b)
  <2>1. Read32(t, l) = Read32(t, b)
    BY <1>6, ReadWraps
  <2> HIDE DEF l
  <2>2. Read32(d, l) = Read32(t, l)
    BY <1>7 DEF Read32, Read16, Read8
  <2> QED
    BY <1>1, <1>7, <2>1, <2>2 DEF l
<1>9. /\ r.pc = pc /\ r.dar = [d.dar EXCEPT ![SP] = Low(Long, d.dar[SP] + 4)]
      /\ r.s = TRUE /\ r.sp = t.sp /\ r.level = t.level /\ r \in States
  BY <1>1, <1>7, <1>8, Returned DEF Steady
<1> HIDE DEF r
<1>10. Low(Long, Low(Long, b) + 4) = top
  <2> DEFINE c == top - 6
             two == 2
             four == 4
             g == c + two
  <2>1. c \in Int /\ two \in Int /\ four \in Int /\ g \in Int /\ g + four = top
    BY <1>4
  <2>2. b = Low(Long, c) + two
    BY <1>5 DEF b
  <2> HIDE DEF c, two, four
  <2>3. Low(Long, b) = Low(Long, g)
    BY <2>1, <2>2, LowWraps
  <2> HIDE DEF g
  <2>4. Low(Long, Low(Long, g) + four) = Low(Long, g + four)
    BY <2>1, LowWraps
  <2> QED
    BY <1>4, <2>1, <2>3, <2>4 DEF four
<1>11. r.dar = [s.dar EXCEPT ![SP] = top] /\ r.dar[SP] = top
  BY <1>1, <1>3, <1>7, <1>9, <1>10
<1>12. /\ u \in States /\ u.s = s.s /\ Sr(u) = Sr(s) /\ u.mask = s.mask
       /\ u.level = r.level /\ u.pc = r.pc
       /\ u.sp = [r.sp EXCEPT ![r.s] = r.dar[SP]]
       /\ u.dar = [r.dar EXCEPT ![SP] = u.sp[s.s]]
  <2>1. Restored(s, r, u)
    BY <1>1, <1>9, SetSrFromSr
  <2> QED
    BY <2>1 DEF Restored
<1> HIDE DEF u
<1>13. CheckInterrupts(u) = u
  <2>1. u.level \in Int /\ u.mask \in Int
    BY <1>12 DEF States
  <2>2. ~ (u.level > u.mask)
    BY <1>9, <1>12, <2>1
  <2> QED
    BY <2>2 DEF CheckInterrupts
<1>14. u.sp[s.s] = s.dar[SP] /\ u.sp[~s.s] = s.sp[~s.s]
  <2>1. u.sp = [[s.sp EXCEPT ![s.s] = s.dar[SP]] EXCEPT ![TRUE] = top]
    BY <1>1, <1>9, <1>11, <1>12
  <2>2. CASE s.s = TRUE
    <3>1. top = s.dar[SP]
      BY <2>2 DEF top, SuperTop
    <3>2. u.sp[TRUE] = top /\ u.sp[FALSE] = s.sp[FALSE]
      BY <1>3, <2>1, <2>2
    <3> QED
      BY <2>2, <3>1, <3>2
  <2>3. CASE s.s = FALSE
    <3>1. top = s.sp[TRUE]
      BY <2>3 DEF top, SuperTop
    <3>2. u.sp[TRUE] = top /\ u.sp[FALSE] = s.dar[SP]
      BY <1>3, <2>1, <2>3
    <3> QED
      BY <2>3, <3>1, <3>2
  <2> QED
    BY <1>3, <2>2, <2>3
<1>15. u.dar = s.dar
  BY <1>3, <1>11, <1>12, <1>14
<1>16. u.sp[~u.s] = s.sp[~s.s] /\ u.pc = pc
  BY <1>9, <1>12, <1>14
<1> QED
  BY <1>2, <1>12, <1>13, <1>15, <1>16 DEF Context

(* The invariant is all an exception needs in order to come back: as no    *)
(* request above the mask waits, RTE does not take one on its way.         *)
LEMMA ExceptionsBack ==
    ASSUME Good(cpu)
    PROVE  ExceptionReturns
<1>1. /\ cpu \in States /\ cpu.level <= cpu.mask /\ cpu.level \in 0 .. 7 /\ cpu.mask \in 0 .. 7
      /\ cpu.pc \in Values(Long) /\ cpu.ppc \in Values(Long) /\ cpu.ppc \in Int
  <2>1. cpu \in States /\ cpu.level <= cpu.mask
    BY DEF Good
  <2>2. cpu.level \in 0 .. 7 /\ cpu.mask \in 0 .. 7
    BY <2>1 DEF States
  <2> QED
    BY <2>1, <2>2, PcTyped
<1>2. Context(cpu) = <<cpu.dar, cpu.sp[~cpu.s], cpu.pc, Sr(cpu)>>
  BY DEF Context
<1>3. ASSUME NEW n \in Nat, NEW pc \in Values(Long)
      PROVE  Context(rte_32(JumpVector(Enter(cpu, pc), n)))
               = <<cpu.dar, cpu.sp[~cpu.s], pc, Sr(cpu)>>
  <2> DEFINE t == JumpVector(Enter(cpu, pc), n)
  <2>1. Entered(cpu, pc, t) /\ t.level = cpu.level
    BY <1>1, TakenAt
  <2> HIDE DEF t
  <2>2. t.level <= cpu.mask
    BY <1>1, <2>1
  <2>3. Context(rte_32(t)) = <<cpu.dar, cpu.sp[~cpu.s], pc, Sr(cpu)>>
    BY <1>1, <2>1, <2>2, RteReturns
  <2> QED
    BY <2>3 DEF t
<1>4. ASSUME NEW n \in Traps PROVE Context(rte_32(trap(cpu, n))) = Context(cpu)
  <2> DEFINE k == TrapBase + n
  <2>1. k \in Nat
    BY ProgramAssumption DEF TrapBase
  <2>2. trap(cpu, n) = JumpVector(Enter(cpu, cpu.pc), k)
    BY DEF trap, Trap
  <2> HIDE DEF k
  <2> QED
    BY <1>1, <1>2, <1>3, <2>1, <2>2
<1>5. Context(rte_32(illegal(cpu))) = Context(SetPc(cpu, cpu.ppc))
  <2> DEFINE p == cpu.ppc
             u == SetPc(cpu, p)
             k == IllegalVector
  <2>1. k \in Nat
    BY DEF IllegalVector
  <2>2. illegal(cpu) = JumpVector(Enter(cpu, p), k)
    BY DEF illegal, Illegal, Instead
  <2> HIDE DEF k
  <2>3. Context(rte_32(illegal(cpu))) = <<cpu.dar, cpu.sp[~cpu.s], p, Sr(cpu)>>
    BY <1>1, <1>3, <2>1, <2>2
  <2>4. Low(Long, p) = p
    BY <1>1, Numbers, Kinds
  <2>5. /\ u.dar = cpu.dar /\ u.pc = p /\ Sr(u) = Sr(cpu) /\ u.s = cpu.s /\ u.sp = cpu.sp
    <3> HIDE DEF p
    <3>1. p \in Int
      BY <1>1 DEF p
    <3>2. Steady(cpu, u) /\ u.dar = cpu.dar /\ u.pc = p /\ Sr(u) = Sr(cpu)
      BY <1>1, <2>4, <3>1, SetPcKeeps, SetPcSteady
    <3> QED
      BY <3>2 DEF Steady
  <2> HIDE DEF u
  <2> QED
    BY <2>3, <2>5 DEF Context, u
<1>6. ASSUME NEW l \in 1 .. 7
      PROVE  Context(rte_32(Interrupt(cpu, l))) = Context(cpu)
  <2> DEFINE t == Interrupt(cpu, l)
             u == [cpu EXCEPT !.stopped = @ \ {"STOP"}]
  <2>1. /\ u.dar = cpu.dar /\ u.sp = cpu.sp /\ u.s = cpu.s /\ u.mask = cpu.mask
        /\ u.t = cpu.t /\ u.x = cpu.x /\ u.n = cpu.n /\ u.z = cpu.z /\ u.v = cpu.v /\ u.c = cpu.c
    BY <1>1 DEF States
  <2>2. l \in 0 .. 7 /\ cpu.stopped \in {{}, {"STOP"}}
    BY <1>1 DEF States, Good
  <2>3. u \in States /\ Entered(u, cpu.pc, t) /\ t.level = 0
    BY <1>1, <2>2, InterruptTaken
  <2>4. Sr(u) = Sr(cpu)
    BY <2>1 DEF Sr, Ccr
  <2> HIDE DEF t, u
  <2> DEFINE pc == cpu.pc
  <2>5. pc \in Values(Long) /\ Entered(u, pc, t) /\ t.level <= u.mask
    BY <1>1, <2>1, <2>3 DEF States
  <2> HIDE DEF pc
  <2>6. Context(rte_32(t)) = <<u.dar, u.sp[~u.s], pc, Sr(u)>>
    BY <2>3, <2>5, RteReturns
  <2> QED
    BY <1>2, <2>1, <2>4, <2>6 DEF t, pc
<1> QED
  BY <1>4, <1>5, <1>6 DEF ExceptionReturns

(* RTE undoes the entry to every trap and every interrupt, in every state  *)
(* the processor can reach.                                                *)
THEOREM ExceptionsComeBack == Spec => []ExceptionReturns
BY ExceptionsBack, Goodness, PTL

-----------------------------------------------------------------------------
(* MOVEM to and from the stack: what is stored downwards is loaded upwards. *)

Halves == {Word, Long}

(* A cut address names the same place for a word or a long.                *)
LEMMA SamePlace ==
    ASSUME NEW a \in Int, NEW w \in Halves, NEW s, NEW v
    PROVE  /\ Write(s, w, Low(Long, a), v) = Write(s, w, a, v)
           /\ Read(s, w, Low(Long, a)) = Read(s, w, a)
<1> DEFINE c == Low(Long, a)
<1>1. c \in Int
  BY Whole, Kinds
<1>2. /\ At(c + 0) = At(a + 0) /\ At(c + 1) = At(a + 1)
      /\ At(c + 2) = At(a + 2) /\ At(c + 3) = At(a + 3)
  BY LowWraps
<1> HIDE DEF c
<1>3. /\ At(c) = At(a) /\ At(c + 2 + 1) = At(a + 2 + 1)
  <2>1. c + 0 = c /\ a + 0 = a /\ c + 2 + 1 = c + 3 /\ a + 2 + 1 = a + 3
    BY <1>1
  <2> QED
    BY <1>2, <2>1
<1>4. Write16(s, c, v) = Write16(s, a, v) /\ Read16(s, c) = Read16(s, a)
  BY <1>2, <1>3 DEF Write16, Read16, Read8
<1>5. Write32(s, c, v) = Write32(s, a, v)
  <2>1. \A t, x : Write16(t, c, x) = Write16(t, a, x)
    BY <1>2, <1>3 DEF Write16
  <2>2. \A t, x : Write16(t, c + 2, x) = Write16(t, a + 2, x)
    BY <1>2, <1>3 DEF Write16
  <2> QED
    BY <2>1, <2>2 DEF Write32
<1>6. Read32(s, c) = Read32(s, a)
  <2>1. Read16(s, c + 2) = Read16(s, a + 2)
    BY <1>2, <1>3 DEF Read16, Read8
  <2> QED
    BY <1>4, <2>1 DEF Read32
<1>7. \/ w = Word /\ Write(s, w, c, v) = Write16(s, c, v) /\ Write(s, w, a, v) = Write16(s, a, v)
                  /\ Read(s, w, c) = Read16(s, c) /\ Read(s, w, a) = Read16(s, a)
      \/ w = Long /\ Write(s, w, c, v) = Write32(s, c, v) /\ Write(s, w, a, v) = Write32(s, a, v)
                  /\ Read(s, w, c) = Read32(s, c) /\ Read(s, w, a) = Read32(s, a)
  BY DEF Write, Read, Halves, Byte, Word, Long
<1> QED
  BY <1>4, <1>5, <1>6, <1>7 DEF c

(* A word or a long is two or four bytes, and within those a write and a   *)
(* read are those of the handlers.                                         *)
LEMMA HalvesAre ==
    ASSUME NEW w \in Halves
    PROVE  /\ w \in Width /\ w \in Int /\ 2 <= w /\ w <= 4
           /\ \/ /\ w = 2
                 /\ \A s, a, v : Write(s, w, a, v) = Write16(s, a, v)
                 /\ \A s, a : Read(s, w, a) = Read16(s, a)
                 /\ w = Word
              \/ /\ w = 4
                 /\ \A s, a, v : Write(s, w, a, v) = Write32(s, a, v)
                 /\ \A s, a : Read(s, w, a) = Read32(s, a)
                 /\ w = Long
BY DEF Write, Read, Halves, Byte, Word, Long, Width

(* The bytes above what is written stay, up to a whole turn of the memory. *)
LEMMA BytesKept ==
    ASSUME NEW s \in States, NEW w \in Halves, NEW a \in Int, NEW v \in Int, NEW b \in Int,
           a + w <= b, b - a < MemSize
    PROVE  Read8(Write(s, w, a, v), b) = Read8(s, b)
<1>0. w \in Int /\ 2 <= w
  BY HalvesAre
<1>1. ASSUME NEW t \in States, NEW c \in Int, NEW x \in Int, a <= c, c + 2 <= b
      PROVE  Read8(Write16(t, c, x), b) = Read8(t, b)
  <2>1. MemSize \in Nat
    BY MemoryAssumption
  <2>2. c < b /\ b - c < MemSize /\ c + 1 < b /\ b - (c + 1) < MemSize /\ c + 1 \in Int
    BY <1>1, <2>1
  <2>3. At(b) # At(c) /\ At(b) # At(c + 1)
    BY <2>2, Apart
  <2> QED
    BY <2>3, Written16
<1>2. CASE w = 2 /\ \A q, r, x : Write(q, w, r, x) = Write16(q, r, x)
  BY <1>1, <1>2
<1>3. CASE w = 4 /\ \A q, r, x : Write(q, w, r, x) = Write32(q, r, x)
  <2> DEFINE h == v \div Span(Word)
             t == Write16(s, a, h)
  <2>1. h \in Int
    BY SpanTyped, Kinds, DivisionAlgorithm
  <2>2. Write(s, w, a, v) = Write16(t, a + 2, v)
    BY <1>3 DEF Write32
  <2> HIDE DEF h
  <2>3. t \in States
    BY <2>1, WriteSteady DEF Steady
  <2>4. Read8(t, b) = Read8(s, b)
    BY <1>1, <1>3, <2>1
  <2> HIDE DEF t
  <2>5. Read8(Write16(t, a + 2, v), b) = Read8(t, b)
    BY <1>1, <1>3, <2>3
  <2> QED
    BY <2>2, <2>4, <2>5
<1> QED
  BY <1>2, <1>3, HalvesAre

(* The words and longs, as u says, that lie above one of width w at a and   *)
(* less than a turn of the memory away are the same in s and t.            *)
SameAbove(s, t, w, a, u) ==
    \A b \in Int : a + w <= b /\ (b + u) - a <= MemSize => Read(t, u, b) = Read(s, u, b)

(* A write leaves them as they are.                                        *)
LEMMA StoredElsewhere ==
    ASSUME NEW s \in States, NEW w \in Halves, NEW u \in Halves,
           NEW a \in Int, NEW v \in Int
    PROVE  SameAbove(s, Write(s, w, a, v), w, a, u)
<1> DEFINE t == Write(s, w, a, v)
<1> SUFFICES ASSUME NEW b \in Int, a + w <= b, (b + u) - a <= MemSize
             PROVE  Read(t, u, b) = Read(s, u, b)
  BY DEF SameAbove
<1>0. w \in Int /\ u \in Int /\ MemSize \in Nat
  BY HalvesAre, MemoryAssumption
<1>1. ASSUME NEW c \in Int, b <= c, c < b + u PROVE Read8(t, c) = Read8(s, c)
  <2>1. a + w <= c /\ c - a < MemSize
    BY <1>0, <1>1
  <2> QED
    BY <2>1, BytesKept
<1> HIDE DEF t
<1>2. CASE u = 2 /\ \A q, r : Read(q, u, r) = Read16(q, r)
  <2>1. Read8(t, b) = Read8(s, b) /\ Read8(t, b + 1) = Read8(s, b + 1)
    BY <1>1, <1>2
  <2> QED
    BY <1>2, <2>1 DEF Read16, t
<1>3. CASE u = 4 /\ \A q, r : Read(q, u, r) = Read32(q, r)
  <2>1. /\ Read8(t, b) = Read8(s, b) /\ Read8(t, b + 1) = Read8(s, b + 1)
        /\ Read8(t, b + 2) = Read8(s, b + 2) /\ Read8(t, b + 2 + 1) = Read8(s, b + 2 + 1)
    BY <1>1, <1>3
  <2>2. Read16(t, b) = Read16(s, b) /\ Read16(t, b + 2) = Read16(s, b + 2)
    BY <2>1 DEF Read16
  <2> QED
    BY <1>3, <2>2 DEF Read32, t
<1> QED
  BY <1>2, <1>3, HalvesAre

(* What is written is read again, and no register changes.                 *)
LEMMA StoredThere ==
    ASSUME NEW s \in States, NEW w \in Halves, NEW a \in Int, NEW v \in Int
    PROVE  /\ Read(Write(s, w, a, v), w, a) = Low(w, v)
           /\ Write(s, w, a, v).dar = s.dar
           /\ Write(s, w, a, v) \in States
<1>1. Write(s, w, a, v) \in States
  BY HalvesAre, WriteSteady DEF Steady
<1>2. CASE w = Word /\ (\A q, r, x : Write(q, w, r, x) = Write16(q, r, x)) /\ \A q, r : Read(q, w, r) = Read16(q, r)
  <2>1. Read16(Write16(s, a, v), a) = Low(Word, v) /\ Write16(s, a, v).dar = s.dar
    BY Written16, WrittenElsewhere
  <2> QED
    BY <1>1, <1>2, <2>1
<1>3. CASE w = Long /\ (\A q, r, x : Write(q, w, r, x) = Write32(q, r, x)) /\ \A q, r : Read(q, w, r) = Read32(q, r)
  <2>1. Read32(Write32(s, a, v), a) = Low(Long, v) /\ Write32(s, a, v).dar = s.dar
    BY Written32, WrittenElsewhere
  <2> QED
    BY <1>1, <1>3, <2>1
<1> QED
  BY <1>2, <1>3, HalvesAre

(* How far below the top the address is after the first k registers.       *)
Depths(o, list, w) ==
    /\ o[0] = 0 /\ o[1] = 0
    /\ \A k \in 0 .. 16 : o[k] \in 0 .. 60
    /\ \A k \in 1 .. 16 : o[k] = IF BitOf(list, k - 1) = 1 THEN o[k - 1] + w ELSE o[k - 1]
    /\ \A k \in 0 .. 16 : \A j \in 0 .. k : o[j] <= o[k]

(* A list without the first register, which is A7 when the list counts     *)
(* downwards, takes at most fifteen longs.                                 *)
LEMMA DepthsBounded ==
    ASSUME NEW list \in Int, BitOf(list, 0) = 0, NEW w \in Halves
    PROVE  \E o : Depths(o, list, w)
<1> DEFINE g == [k \in 1 .. 16 |-> IF BitOf(list, k - 1) = 1 THEN w ELSE 0]
<1>1. w \in Int /\ 2 <= w /\ w <= 4
  BY HalvesAre
<1>2. g \in [1 .. 16 -> Int] /\ 16 \in Nat
  BY <1>1
<1>3. PICK o : o = [i \in 0 .. 16 |-> IF i = 0 THEN 0 ELSE o[i - 1] + g[i]]
  <2> HIDE DEF g
  <2> QED
    BY <1>2, Summing
<1>4. /\ o[0] = 0
      /\ \A k \in 1 .. 16 : o[k] = o[k - 1] + (IF BitOf(list, k - 1) = 1 THEN w ELSE 0)
  BY <1>3
<1> DEFINE T == {k \in 0 .. 16 : o[k] \in 0 .. 4 * k /\ (k # 0 => o[k] <= 4 * (k - 1))}
           U == {k \in 0 .. 16 : \A j \in 0 .. k : o[j] <= o[k]}
<1>5. \A k \in 0 .. 16 : k \in T
  <2>1. 0 \in T
    BY <1>4
  <2>2. ASSUME NEW k \in 1 .. 16, k - 1 \in T PROVE k \in T
    <3>1. k - 1 \in 0 .. 15 /\ o[k - 1] \in 0 .. 4 * (k - 1)
          /\ (k - 1 # 0 => o[k - 1] <= 4 * (k - 2))
      BY <2>2
    <3>2. CASE k = 1
      BY <1>4, <3>1, <3>2
    <3>3. CASE k # 1
      BY <1>1, <1>4, <3>1, <3>3
    <3> QED
      BY <3>2, <3>3
  <2> HIDE DEF T
  <2> QED
    BY <1>2, <2>1, <2>2, Upwards
<1>6. \A k \in 0 .. 16 : o[k] \in 0 .. 60
  BY <1>5
<1>7. \A k \in 0 .. 16 : k \in U
  <2>1. 0 \in U
    BY <1>4
  <2>2. ASSUME NEW k \in 1 .. 16, k - 1 \in U PROVE k \in U
    <3>0. k - 1 \in 0 .. 16 /\ k \in 0 .. 16
      OBVIOUS
    <3>1. o[k - 1] \in Int /\ o[k - 1] <= o[k] /\ o[k] \in Int
      <4>1. o[k - 1] \in Int /\ o[k] \in Int
        BY <1>6, <3>0
      <4>2. o[k] = o[k - 1] + (IF BitOf(list, k - 1) = 1 THEN w ELSE 0)
        BY <1>4
      <4> QED
        BY <1>1, <4>1, <4>2
    <3>2. ASSUME NEW j \in 0 .. k PROVE o[j] <= o[k]
      <4>1. CASE j = k
        BY <3>1, <4>1
      <4>2. CASE j # k
        <5>1. j \in 0 .. k - 1 /\ j \in 0 .. 16
          BY <4>2
        <5>2. o[j] <= o[k - 1] /\ o[j] \in Int
          BY <1>6, <2>2, <5>1
        <5> QED
          BY <3>1, <5>2
      <4> QED
        BY <4>1, <4>2
    <3> QED
      BY <3>2
  <2> HIDE DEF U
  <2> QED
    BY <1>2, <2>1, <2>2, Upwards
<1>8. \A k \in 1 .. 16 : o[k] = IF BitOf(list, k - 1) = 1 THEN o[k - 1] + w ELSE o[k - 1]
  <2>1. ASSUME NEW k \in 1 .. 16 PROVE o[k - 1] + 0 = o[k - 1]
    BY <1>6
  <2> QED
    BY <1>4, <2>1
<1>9. o[1] = 0
  BY <1>4, <1>8
<1>10. \A k \in 0 .. 16 : \A j \in 0 .. k : o[j] <= o[k]
  BY <1>7
<1> HIDE DEF T, U, g
<1>11. Depths(o, list, w)
  BY <1>4, <1>6, <1>8, <1>9, <1>10 DEF Depths
<1> QED
  BY <1>11

Stages == [v : Int, s : States]

(* n follows d by storing register r below the address a.                  *)
PutBelow(d, n, w, a, r) ==
    /\ n.v = Low(Long, a - w) /\ n.s \in States /\ n.s.dar = d.s.dar
    /\ Read(n.s, w, a - w) = Low(w, d.s.dar[r])
    /\ \A b \in Int : a <= b /\ (b + w) - (a - w) <= MemSize
                      => Read(n.s, w, b) = Read(d.s, w, b)

(* Storing one register downwards.                                         *)
LEMMA OneStored ==
    ASSUME NEW d \in Stages, NEW w \in Halves, NEW a \in Int, d.v = Low(Long, a),
           NEW r \in 0 .. 15
    PROVE  PutBelow(d, PutDown(d, w, r), w, a, r)
<1> DEFINE s == d.s
           x == Low(w, s.dar[r])
           t == Write(s, w, a - w, x)
<1>1. s \in States /\ w \in Int /\ w \in Width
  BY HalvesAre DEF Stages
<1>2. a - w \in Int /\ - w \in Int
  BY <1>1
<1>3. x \in Int
  <2>1. s.dar[r] \in Int
    BY <1>1, RegisterTyped
  <2> HIDE DEF s
  <2> QED
    BY <1>1, <2>1, Whole
<1>4. Low(Long, d.v - w) = Low(Long, a - w)
  <2>1. Low(Long, Low(Long, a) + (- w)) = Low(Long, a + (- w))
    BY <1>2, LowWraps
  <2>2. d.v - w = d.v + (- w) /\ a - w = a + (- w)
    BY <1>1 DEF Stages
  <2> QED
    BY <2>1, <2>2
<1>5. PutDown(d, w, r) = With(Low(Long, a - w), t)
  <2>1. Write(s, w, Low(Long, a - w), x) = t
    <3> HIDE DEF s, x
    <3> QED
      BY <1>2, SamePlace
  <2> QED
    BY <1>4, <2>1 DEF PutDown, PutAt
<1>6. Low(w, x) = x
  <2>1. s.dar[r] \in Int
    BY <1>1, RegisterTyped
  <2>2. x \in Values(w)
    <3> HIDE DEF s
    <3> QED
      BY <1>1, <2>1, Cuts
  <2> HIDE DEF x
  <2> QED
    BY <1>1, <2>2, Numbers
<1> HIDE DEF s, x
<1>7. Read(t, w, a - w) = x /\ t.dar = s.dar /\ t \in States
  BY <1>1, <1>2, <1>3, <1>6, StoredThere
<1>8. ASSUME NEW b \in Int, a <= b, (b + w) - (a - w) <= MemSize
      PROVE  Read(t, w, b) = Read(s, w, b)
  <2> DEFINE l == a - w
  <2>1. l \in Int /\ l + w <= b /\ (b + w) - l <= MemSize
    BY <1>1, <1>8
  <2>2. t = Write(s, w, l, x)
    BY DEF t
  <2> HIDE DEF t, l
  <2>3. SameAbove(s, Write(s, w, l, x), w, l, w)
    BY <1>1, <1>3, <2>1, StoredElsewhere
  <2> QED
    BY <2>1, <2>2, <2>3 DEF SameAbove
<1> HIDE DEF t
<1> QED
  BY <1>5, <1>7, <1>8 DEF PutBelow, With, s, x

(* n follows d by loading register r from the address a.                   *)
Got(d, n, w, a, r) ==
    /\ n.v = Low(Long, a + w) /\ n.s.mem = d.s.mem
    /\ n.s.dar = [d.s.dar EXCEPT ![r] = Low(Long, Signed(w, Read(d.s, w, a)))]

(* Loading one register upwards.                                           *)
LEMMA OneLoaded ==
    ASSUME NEW d \in Stages, NEW w \in Halves, NEW a \in Int, d.v = Low(Long, a),
           NEW r \in 0 .. 15
    PROVE  Got(d, GetUp(d, w, r), w, a, r)
<1> DEFINE s == d.s
           x == Signed(w, Read(s, w, a))
<1>1. s \in States /\ w \in Int /\ w \in Width
  BY HalvesAre DEF Stages
<1>2. Read(s, w, d.v) = Read(s, w, a)
  BY SamePlace
<1>3. Low(Long, d.v + w) = Low(Long, a + w)
  BY <1>1, LowWraps
<1>4. GetUp(d, w, r) = With(Low(Long, a + w), Set(s, r, x))
  BY <1>2, <1>3 DEF GetUp
<1>5. x \in Int
  <2>1. Read(s, w, a) \in Int
    <3> HIDE DEF s
    <3> QED
      BY <1>1, ReadTyped, SpanTyped
  <2> HIDE DEF s
  <2> QED
    BY <1>1, <2>1, Whole
<1> HIDE DEF s, x
<1>6. Placed(s, Set(s, r, x), r, x)
  BY <1>1, <1>5, SetPlaces
<1> QED
  BY <1>4, <1>6 DEF Got, Placed, With, s, x

(* After the first k registers of the list, everything they held is below  *)
(* the top of the memory and the registers are as they were.               *)
Stacked(f, t, list, w, o, k) ==
    /\ f[k].v = Low(Long, MemSize - o[k]) /\ f[k].s.dar = t.dar
    /\ \A j \in 1 .. k : BitOf(list, j - 1) = 1
                         => Read(f[k].s, w, MemSize - o[j]) = Low(w, t.dar[16 - j])

(* A list stored downwards from the end of the memory is there, none of it *)
(* overwritten by what was stored after it.                                *)
LEMMA ListStored ==
    ASSUME NEW s, NEW t \in States, NEW w \in Halves, NEW list, NEW f, NEW o,
           PutsDown(f, list, w, With(t.dar[SP], t)), \A k \in 0 .. 16 : f[k] \in Reached(s),
           Depths(o, list, w), t.dar[SP] = Low(Long, MemSize)
    PROVE  Stacked(f, t, list, w, o, 16)
<1>0. /\ w \in Int /\ 2 <= w /\ w <= 4 /\ MemSize \in Int /\ MemSize >= 62
      /\ 16 \in Nat /\ 16 \in 0 .. 16
  BY HalvesAre, MemoryAssumption
<1>1. /\ o[0] = 0 /\ \A k \in 0 .. 16 : o[k] \in 0 .. 60
      /\ \A k \in 1 .. 16 : o[k] = IF BitOf(list, k - 1) = 1 THEN o[k - 1] + w ELSE o[k - 1]
      /\ \A k \in 0 .. 16 : \A j \in 0 .. k : o[j] <= o[k]
  BY DEF Depths
<1> DEFINE T == {k \in 0 .. 16 : Stacked(f, t, list, w, o, k)}
<1>2. 0 \in T
  <2>1. MemSize - o[0] = MemSize
    BY <1>0, <1>1
  <2>2. f[0].v = t.dar[SP] /\ f[0].s = t
    BY DEF PutsDown, With
  <2> QED
    BY <2>1, <2>2 DEF Stacked
<1>3. ASSUME NEW k \in 1 .. 16, k - 1 \in T PROVE k \in T
  <2>1. k - 1 \in 0 .. 16 /\ k \in 0 .. 16 /\ 15 - (k - 1) \in 0 .. 15 /\ 16 - k \in 0 .. 15
        /\ 15 - (k - 1) = 16 - k
    BY <1>0
  <2>2. Stacked(f, t, list, w, o, k - 1)
    BY <1>3
  <2> DEFINE d == f[k - 1]
             a == MemSize - o[k - 1]
             r == 15 - (k - 1)
  <2>3. d \in Stages /\ a \in Int /\ o[k - 1] \in Int /\ o[k] \in 0 .. 60
    <3>1. d \in Reached(s)
      BY <2>1
    <3>2. o[k - 1] \in 0 .. 60 /\ o[k] \in 0 .. 60
      BY <1>1, <2>1
    <3> QED
      BY <1>0, <3>1, <3>2 DEF Reached, Stages
  <2>4. d.v = Low(Long, a) /\ d.s.dar = t.dar
        /\ \A j \in 1 .. k - 1 : BitOf(list, j - 1) = 1
                                 => Read(d.s, w, MemSize - o[j]) = Low(w, t.dar[16 - j])
    BY <2>2 DEF Stacked
  <2>5. CASE BitOf(list, k - 1) # 1
    <3>1. f[k] = d /\ o[k] = o[k - 1]
      BY <1>1, <2>5 DEF PutsDown
    <3> HIDE DEF d
    <3>2. \A j \in 1 .. k : BitOf(list, j - 1) = 1 => j \in 1 .. k - 1
      BY <2>5
    <3> QED
      BY <2>1, <2>4, <3>1, <3>2 DEF Stacked
  <2>6. CASE BitOf(list, k - 1) = 1
    <3> DEFINE n == PutDown(d, w, r)
    <3>1. f[k] = n /\ o[k] = o[k - 1] + w
      BY <1>1, <2>6 DEF PutsDown
    <3> HIDE DEF d, a
    <3>2. PutBelow(d, n, w, a, r)
      BY <2>1, <2>3, <2>4, OneStored
    <3> HIDE DEF n
    <3>3. a - w = MemSize - o[k]
      BY <1>0, <2>3, <3>1 DEF a
    <3>4. n.v = Low(Long, MemSize - o[k]) /\ n.s.dar = t.dar
      BY <2>4, <3>2, <3>3 DEF PutBelow
    <3>5. ASSUME NEW j \in 1 .. k, BitOf(list, j - 1) = 1
          PROVE  Read(n.s, w, MemSize - o[j]) = Low(w, t.dar[16 - j])
      <4>1. CASE j = k
        <5>1. 16 - j = r
          BY <2>1, <4>1
        <5> QED
          BY <2>4, <3>2, <3>3, <4>1, <5>1 DEF PutBelow
      <4>2. CASE j # k
        <5> DEFINE b == MemSize - o[j]
        <5>1. j \in 1 .. k - 1 /\ j - 1 \in 0 .. 16 /\ j \in 0 .. 16 /\ j \in 0 .. k - 1 /\ j \in 1 .. 16
          BY <4>2
        <5>2. o[j] \in Int /\ o[j - 1] \in Nat /\ o[j] <= o[k - 1] /\ o[j] = o[j - 1] + w
          BY <1>1, <2>1, <3>5, <5>1
        <5>3. b \in Int /\ a <= b /\ (b + w) - (a - w) <= MemSize
          BY <1>0, <2>3, <3>1, <5>2 DEF a
        <5>4. Read(d.s, w, b) = Low(w, t.dar[16 - j])
          BY <2>4, <3>5, <5>1
        <5> HIDE DEF b
        <5>5. Read(n.s, w, b) = Read(d.s, w, b)
          BY <3>2, <5>3 DEF PutBelow
        <5> QED
          BY <5>4, <5>5 DEF b
      <4> QED
        BY <4>1, <4>2
    <3> QED
      BY <2>1, <3>1, <3>4, <3>5 DEF Stacked
  <2> QED
    BY <2>5, <2>6
<1> HIDE DEF T
<1>4. \A k \in 0 .. 16 : k \in T
  BY <1>0, <1>2, <1>3, Upwards
<1> QED
  BY <1>0, <1>4 DEF T

(* After the first k registers of the list are loaded, these have the      *)
(* values x, extended, and the others are as they were.                    *)
Unstacked(f, t, list, w, o, x, k) ==
    /\ f[k].v = Low(Long, MemSize - o[16 - k]) /\ f[k].s.mem = t.mem
    /\ f[k].s.dar = [r \in 0 .. 15 |-> IF r < k /\ BitOf(list, r) = 1
                                       THEN Extend(w, x[r]) ELSE t.dar[r]]

(* The other list is this one, counted from the other end.                 *)
Mirrored(list, other) == \A r \in 0 .. 15 : BitOf(list, r) = BitOf(other, 15 - r)

(* A list loaded upwards from where the opposite list was stored.          *)
LEMMA ListLoaded ==
    ASSUME NEW s, NEW t \in States, NEW w \in Halves, NEW list, NEW other, NEW f, NEW o,
           NEW x \in [0 .. 15 -> Values(Long)],
           GetsUp(f, list, w, With(t.dar[SP], t)), \A k \in 0 .. 16 : f[k] \in Reached(s),
           Depths(o, other, w), Mirrored(list, other),
           t.dar[SP] = Low(Long, MemSize - o[16]),
           \A r \in 0 .. 15 : BitOf(list, r) = 1
                => Read(t, w, MemSize - o[16 - r]) = Low(w, x[r])
    PROVE  Unstacked(f, t, list, w, o, x, 16)
<1>0. /\ w \in Int /\ 2 <= w /\ w <= 4 /\ MemSize \in Int /\ w \in Width
      /\ 16 \in Nat /\ 16 \in 0 .. 16
  BY HalvesAre, MemoryAssumption
<1>1. /\ \A k \in 0 .. 16 : o[k] \in 0 .. 60
      /\ \A k \in 1 .. 16 : o[k] = IF BitOf(other, k - 1) = 1 THEN o[k - 1] + w ELSE o[k - 1]
  BY DEF Depths
<1> DEFINE T == {k \in 0 .. 16 : Unstacked(f, t, list, w, o, x, k)}
<1>2. 0 \in T
  <2>1. f[0].v = t.dar[SP] /\ f[0].s = t /\ 16 - 0 = 16
    BY DEF GetsUp, With
  <2>2. t.dar \in [0 .. 15 -> Values(Long)]
    BY DEF States
  <2>3. t.dar = [r \in 0 .. 15 |-> IF r < 0 /\ BitOf(list, r) = 1 THEN Extend(w, x[r]) ELSE t.dar[r]]
    BY <2>2
  <2> QED
    BY <2>1, <2>3 DEF Unstacked
<1>3. ASSUME NEW k \in 1 .. 16, k - 1 \in T PROVE k \in T
  <2> DEFINE d == f[k - 1]
             r == k - 1
             q == 17 - k
             a == MemSize - o[q]
             D(i) == [j \in 0 .. 15 |-> IF j < i /\ BitOf(list, j) = 1
                                        THEN Extend(w, x[j]) ELSE t.dar[j]]
  <2>1. /\ r \in 0 .. 15 /\ r \in 0 .. 16 /\ k \in 0 .. 16 /\ q \in 1 .. 16 /\ q \in 0 .. 16
        /\ 16 - r = q /\ q - 1 = 16 - k /\ 15 - r = q - 1 /\ 16 - k \in 0 .. 16
    BY <1>0
  <2>2. Unstacked(f, t, list, w, o, x, r)
    BY <1>3
  <2>3. d \in Stages /\ a \in Int /\ o[q] \in Int /\ o[q - 1] \in Int
    <3>1. d \in Reached(s)
      BY <2>1
    <3>2. o[q] \in 0 .. 60 /\ o[16 - k] \in 0 .. 60
      BY <1>1, <2>1
    <3> QED
      BY <1>0, <2>1, <3>1, <3>2 DEF Reached, Stages
  <2>4. d.v = Low(Long, a) /\ d.s.mem = t.mem /\ d.s.dar = D(r)
    BY <2>1, <2>2 DEF Unstacked
  <2>5. BitOf(list, r) = BitOf(other, q - 1)
    BY <2>1 DEF Mirrored
  <2>6. o[q] = IF BitOf(list, r) = 1 THEN o[q - 1] + w ELSE o[q - 1]
    BY <1>1, <2>1, <2>5
  <2>7. CASE BitOf(list, r) # 1
    <3>1. f[k] = d /\ o[q] = o[16 - k]
      BY <2>1, <2>6, <2>7 DEF GetsUp
    <3>2. D(k) = D(r)
      <4>1. \A j \in 0 .. 15 : (j < k /\ BitOf(list, j) = 1) <=> (j < r /\ BitOf(list, j) = 1)
        BY <2>7
      <4> QED
        BY <4>1
    <3> HIDE DEF d
    <3> QED
      BY <2>1, <2>4, <3>1, <3>2 DEF Unstacked
  <2>8. CASE BitOf(list, r) = 1
    <3> DEFINE n == GetUp(d, w, r)
               y == Low(Long, Signed(w, Read(d.s, w, a)))
    <3>1. f[k] = n /\ o[q] = o[16 - k] + w
      BY <2>1, <2>6, <2>8 DEF GetsUp
    <3>2. y = Extend(w, x[r])
      <4>1. Read(d.s, w, a) = Read(t, w, a)
        BY <2>4 DEF Read, Read32, Read16, Read8
      <4>2. Read(t, w, a) = Low(w, x[r])
        BY <2>1, <2>8
      <4>3. x[r] \in Int
        BY <2>1, Kinds, SpanTyped DEF Values
      <4>4. Low(w, Low(w, x[r])) = Low(w, x[r])
        <5> DEFINE c == x[r]
                   e == Low(w, c)
        <5>1. e \in Values(w)
          <6> HIDE DEF c
          <6> QED
            BY <1>0, <4>3, Cuts DEF c
        <5> HIDE DEF e
        <5>2. Low(w, e) = e
          BY <1>0, <5>1, Numbers
        <5> QED
          BY <5>2 DEF e
      <4>5. Signed(w, Low(w, x[r])) = Signed(w, x[r])
        BY <4>4 DEF Signed, Msb
      <4> QED
        BY <4>1, <4>2, <4>5 DEF Extend
    <3> HIDE DEF d, a
    <3>3. Got(d, n, w, a, r)
      BY <2>1, <2>3, <2>4, OneLoaded
    <3> HIDE DEF n
    <3>4. a + w = MemSize - o[16 - k]
      BY <1>0, <2>1, <2>3, <3>1 DEF a
    <3>5. n.v = Low(Long, MemSize - o[16 - k]) /\ n.s.mem = t.mem /\ n.s.dar = [D(r) EXCEPT ![r] = y]
      BY <2>4, <3>3, <3>4 DEF Got
    <3> HIDE DEF y
    <3>6. [D(r) EXCEPT ![r] = y] = D(k)
      <4>1. ASSUME NEW j \in 0 .. 15 PROVE (IF j = r THEN y ELSE D(r)[j]) = D(k)[j]
        <5>1. CASE j = r
          BY <2>1, <2>8, <3>2, <5>1
        <5>2. CASE j # r
          <6>1. j < r <=> j < k
            BY <5>2
          <6> QED
            BY <5>2, <6>1
        <5> QED
          BY <5>1, <5>2
      <4>2. [D(r) EXCEPT ![r] = y] = [j \in 0 .. 15 |-> IF j = r THEN y ELSE D(r)[j]]
        BY <2>1
      <4>3. D(k) = [j \in 0 .. 15 |-> D(k)[j]]
        OBVIOUS
      <4> HIDE DEF D, r
      <4> QED
        BY <4>1, <4>2, <4>3
    <3> QED
      BY <2>1, <3>1, <3>5, <3>6 DEF Unstacked
  <2> QED
    BY <2>7, <2>8
<1> HIDE DEF T
<1>4. \A k \in 0 .. 16 : k \in T
  BY <1>0, <1>2, <1>3, Upwards
<1> QED
  BY <1>0, <1>4 DEF T

(* s about to execute MOVEM with this list.                                *)
Listed(s, list) == Write16(SetPc(s, 0), 0, list)
(* s without the registers L.                                              *)
Wiped(s, L) == [s EXCEPT !.dar = [k \in 0 .. 15 |-> IF k \in L THEN 0 ELSE @[k]]]

(* t is s when the list has been read: with its registers, and with its    *)
(* memory but for the first word.                                          *)
Begun(s, t) ==
    /\ t \in States /\ t.dar = s.dar
    /\ \A u \in Halves, b \in Int : 2 <= b /\ b + u <= MemSize => Read(t, u, b) = Read(s, u, b)

(* MOVEM reads its list from the word behind its opcode.                   *)
LEMMA ListRead ==
    ASSUME NEW s \in States, NEW list \in Values(Word)
    PROVE  LET u == Listed(s, list)
               i == Imm16(u)
           IN  /\ u \in States /\ u.dar = s.dar /\ i.v = list
               /\ Begun(s, i.s)
<1> DEFINE p == SetPc(s, 0)
           u == Listed(s, list)
           i == Imm16(u)
<1>1. p \in States /\ p.dar = s.dar /\ p.mem = s.mem /\ p.pc = Low(Long, 0)
  BY SetPcSteady, SetPcKeeps DEF Steady
<1>2. Low(Long, 0) = 0 /\ Low(Word, list) = list /\ list \in Int
  <2>1. 0 \in Values(Long)
    BY Spans, Kinds DEF Values
  <2> QED
    BY <2>1, Numbers, Kinds
<1>3. u = Write16(p, 0, list)
  BY DEF Listed
<1> HIDE DEF p, u
<1>4. Read16(u, 0) = list /\ u.dar = s.dar /\ u \in States
  <2>1. Read16(Write16(p, 0, list), 0) = Low(Word, list)
    BY <1>1, <1>2, Written16
  <2>2. Write16(p, 0, list).dar = p.dar
    BY <1>1 DEF Write16, States
  <2>3. Steady(p, Write16(p, 0, list))
    BY <1>1, <1>2, WriteSteady
  <2> QED
    BY <1>1, <1>2, <1>3, <2>1, <2>2, <2>3 DEF Steady
<1>5. u.pc = 0
  BY <1>1, <1>2, <1>3 DEF Write16, States
<1>6. i = With(Read16(u, 0), SetPc(u, 2))
  BY <1>5 DEF Imm16
<1>7. i.v = list /\ i.s = SetPc(u, 2)
  BY <1>4, <1>6 DEF With
<1>8. i.s \in States /\ i.s.dar = u.dar /\ i.s.mem = u.mem
  BY <1>4, <1>7, SetPcSteady, SetPcKeeps DEF Steady
<1>9. ASSUME NEW w \in Halves, NEW b \in Int, 2 <= b, b + w <= MemSize
      PROVE  Read(i.s, w, b) = Read(s, w, b)
  <2>1. Word \in Halves /\ Word = 2 /\ w \in Int /\ 0 \in Int /\ MemSize \in Int
    BY HalvesAre, MemoryAssumption DEF Halves, Word
  <2>2. Write(p, Word, 0, list) = u
    BY <1>3 DEF Write, Byte, Word, Long
  <2>3. SameAbove(p, Write(p, Word, 0, list), Word, 0, w)
    BY <1>1, <1>2, <2>1, StoredElsewhere
  <2>4. 0 + Word <= b /\ (b + w) - 0 <= MemSize
    BY <1>9, <2>1
  <2>5. Read(u, w, b) = Read(p, w, b)
    BY <2>2, <2>3, <2>4 DEF SameAbove
  <2>6. Read(i.s, w, b) = Read(u, w, b)
    BY <1>8 DEF Read, Read32, Read16, Read8
  <2>7. Read(p, w, b) = Read(s, w, b)
    BY <1>1 DEF Read, Read32, Read16, Read8
  <2> QED
    BY <2>5, <2>6, <2>7
<1> HIDE DEF i
<1>10. Begun(s, i.s)
  BY <1>4, <1>8, <1>9 DEF Begun
<1> QED
  BY <1>4, <1>7, <1>10 DEF u, i

(* What MOVEM stores below the end of the memory.                          *)
Laid(s, t, list, w, o) ==
    /\ t \in States
    /\ t.dar = [s.dar EXCEPT ![SP] = Low(Long, MemSize - o[16])]
    /\ \A j \in 1 .. 16 : BitOf(list, j - 1) = 1
                          => Read(t, w, MemSize - o[j]) = Low(w, s.dar[16 - j])

(* MOVEM to -(A7).                                                         *)
LEMMA StoresList ==
    ASSUME NEW s \in States, s.dar[SP] = Low(Long, MemSize), NEW w \in Halves,
           NEW list \in Values(Word), NEW o, Depths(o, list, w)
    PROVE  Laid(s, StoreDown(Listed(s, list), w, 7), list, w, o)
<1> DEFINE u == Listed(s, list)
           i == Imm16(u)
           t == i.s
           e == With(t.dar[SP], t)
           walk == PutsDownAt(list, w, e)
<1>0. w \in Width /\ A(7) = SP /\ SP = 15 /\ 15 \in 0 .. 15 /\ 16 \in 0 .. 16
  BY HalvesAre, Kinds DEF Reg
<1>1. u.dar = s.dar /\ i.v = list /\ Begun(s, t)
  BY ListRead
<1>2. t \in States /\ t.dar = s.dar
  BY <1>1 DEF Begun
<1>3. StoreDown(u, w, 7) = Set(walk.s, SP, walk.v)
  BY <1>0, <1>1, <1>2 DEF StoreDown, Then, Leave, PutsDownAt
<1> HIDE DEF t
<1>4. e \in Reached(t)
  <2>1. t.dar[SP] \in Int
    BY <1>0, <1>2, RegisterTyped
  <2> QED
    BY <1>2, <2>1, SteadyIs, ReachedBy
<1> HIDE DEF e
<1>5. PICK f : /\ PutsDown(f, list, w, e)
               /\ \A k \in 0 .. 16 : f[k] \in Reached(t)
               /\ walk = f[16]
  BY <1>0, <1>4, DownwardsStored
<1> HIDE DEF walk
<1>6. Stacked(f, t, list, w, o, 16)
  BY <1>2, <1>5, ListStored DEF e
<1> DEFINE n == f[16].s
           c == Low(Long, MemSize - o[16])
<1>7. /\ f[16].v = c /\ n.dar = s.dar /\ n \in States /\ c \in Int /\ Low(Long, c) = c
      /\ \A j \in 1 .. 16 : BitOf(list, j - 1) = 1
                            => Read(n, w, MemSize - o[j]) = Low(w, s.dar[16 - j])
  <2>1. o[16] \in Int /\ MemSize \in Int
    BY <1>0, MemoryAssumption DEF Depths
  <2> DEFINE a == MemSize - o[16]
  <2>2. a \in Int
    BY <2>1
  <2> HIDE DEF a
  <2>3. Low(Long, a) \in Values(Long)
    BY <2>2, Cuts, Kinds
  <2> DEFINE l == Low(Long, a)
  <2> HIDE DEF l
  <2>4. l \in Int /\ Low(Long, l) = l
    BY <2>3, Numbers, Kinds DEF l
  <2>5. n \in States
    BY <1>0, <1>5 DEF Reached
  <2> QED
    BY <1>2, <1>6, <2>4, <2>5 DEF Stacked, l, a
<1> DEFINE r == Set(n, SP, c)
<1>8. StoreDown(u, w, 7) = r
  BY <1>3, <1>5, <1>7
<1> HIDE DEF n, c
<1>9. Placed(n, r, SP, c)
  BY <1>0, <1>7, SetPlaces
<1> HIDE DEF r
<1>10. r \in States /\ r.dar = [s.dar EXCEPT ![SP] = c] /\ r.mem = n.mem
  BY <1>7, <1>9 DEF Placed
<1>11. ASSUME NEW j \in 1 .. 16, BitOf(list, j - 1) = 1
       PROVE  Read(r, w, MemSize - o[j]) = Low(w, s.dar[16 - j])
  <2>1. Read(r, w, MemSize - o[j]) = Read(n, w, MemSize - o[j])
    BY <1>10 DEF Read, Read32, Read16, Read8
  <2> QED
    BY <1>7, <1>11, <2>1
<1>12. Laid(s, r, list, w, o)
  BY <1>10, <1>11 DEF Laid, c
<1> QED
  BY <1>8, <1>12

(* MOVEM from (A7)+, where the opposite list was stored.                   *)
LEMMA LoadsList ==
    ASSUME NEW s \in States, NEW w \in Halves, NEW list \in Values(Word), NEW other, NEW o,
           Depths(o, other, w), Mirrored(list, other),
           s.dar[SP] = Low(Long, MemSize - o[16]), BitOf(list, SP) # 1,
           NEW x \in [0 .. 15 -> Values(Long)],
           \A r \in 0 .. 15 : BitOf(list, r) = 1
                => Read(s, w, MemSize - o[16 - r]) = Low(w, x[r])
    PROVE  LoadUp(Listed(s, list), w, 7).dar
             = [r \in 0 .. 15 |-> IF r = SP THEN Low(Long, MemSize)
                                  ELSE IF BitOf(list, r) = 1 THEN Extend(w, x[r])
                                  ELSE s.dar[r]]
<1> DEFINE u == Listed(s, list)
           i == Imm16(u)
           t == i.s
           e == With(t.dar[SP], t)
           walk == GetsUpAt(list, w, e)
<1>0. /\ w \in Width /\ w \in Int /\ 2 <= w /\ w <= 4
      /\ A(7) = SP /\ SP = 15 /\ 15 \in 0 .. 15 /\ 16 \in 0 .. 16
      /\ MemSize \in Int /\ MemSize >= 62
  BY HalvesAre, Kinds, MemoryAssumption DEF Reg
<1>1. u.dar = s.dar /\ i.v = list /\ Begun(s, t)
  BY ListRead
<1>2. t \in States /\ t.dar = s.dar
  BY <1>1 DEF Begun
<1>3. LoadUp(u, w, 7) = Set(walk.s, SP, walk.v)
  BY <1>0, <1>1, <1>2 DEF LoadUp, Then, Leave, GetsUpAt
<1>4. ASSUME NEW r \in 0 .. 15, BitOf(list, r) = 1
      PROVE  Read(t, w, MemSize - o[16 - r]) = Low(w, x[r])
  <2> DEFINE b == MemSize - o[16 - r]
             j == 16 - r
  <2>1. j \in 1 .. 16 /\ j - 1 \in 0 .. 16 /\ j \in 0 .. 16 /\ 15 - r = j - 1
    OBVIOUS
  <2>2. BitOf(other, j - 1) = 1
    BY <1>4, <2>1 DEF Mirrored
  <2>3. o[j] = o[j - 1] + w /\ o[j] \in 0 .. 60 /\ o[j - 1] \in 0 .. 60
    <3> HIDE DEF j
    <3> QED
      BY <2>1, <2>2 DEF Depths
  <2>4. b \in Int /\ 2 <= b /\ b + w <= MemSize
    BY <1>0, <2>3
  <2> HIDE DEF b, t
  <2>5. Read(t, w, b) = Read(s, w, b)
    BY <1>1, <2>4 DEF Begun
  <2> QED
    BY <1>4, <2>5 DEF b
<1> HIDE DEF t
<1>5. e \in Reached(t)
  <2>1. t.dar[SP] \in Int
    BY <1>0, <1>2, RegisterTyped
  <2> QED
    BY <1>2, <2>1, SteadyIs, ReachedBy
<1> HIDE DEF e
<1>6. PICK f : /\ GetsUp(f, list, w, e)
               /\ \A k \in 0 .. 16 : f[k] \in Reached(t)
               /\ walk = f[16]
  BY <1>0, <1>5, UpwardsLoaded
<1> HIDE DEF walk
<1>7. Unstacked(f, t, list, w, o, x, 16)
  BY <1>2, <1>4, <1>6, ListLoaded DEF e
<1> DEFINE n == f[16].s
           c == Low(Long, MemSize)
           Dar == [r \in 0 .. 15 |-> IF r < 16 /\ BitOf(list, r) = 1
                                     THEN Extend(w, x[r]) ELSE s.dar[r]]
<1>8. /\ f[16].v = c /\ n.dar = Dar /\ n \in States /\ c \in Int /\ Low(Long, c) = c
  <2>1. 16 - 16 = 0 /\ MemSize - o[0] = MemSize
    BY <1>0 DEF Depths
  <2>2. Low(Long, MemSize) \in Values(Long)
    BY <1>0, Cuts, Kinds
  <2> DEFINE l == Low(Long, MemSize)
  <2> HIDE DEF l
  <2>4. l \in Int /\ Low(Long, l) = l
    BY <2>2, Numbers, Kinds DEF l
  <2>5. n \in States
    BY <1>0, <1>6 DEF Reached
  <2> QED
    BY <1>2, <1>7, <2>1, <2>4, <2>5 DEF Unstacked, l
<1> DEFINE q == Set(n, SP, c)
<1>9. LoadUp(u, w, 7) = q
  BY <1>3, <1>6, <1>8
<1> HIDE DEF n, c
<1>10. Placed(n, q, SP, c)
  BY <1>0, <1>8, SetPlaces
<1> HIDE DEF q
<1>11. q.dar = [Dar EXCEPT ![SP] = c]
  BY <1>8, <1>10 DEF Placed
<1>12. [Dar EXCEPT ![SP] = c]
         = [r \in 0 .. 15 |-> IF r = SP THEN c
                              ELSE IF BitOf(list, r) = 1 THEN Extend(w, x[r]) ELSE s.dar[r]]
  <2>1. ASSUME NEW r \in 0 .. 15
        PROVE  Dar[r] = IF BitOf(list, r) = 1 THEN Extend(w, x[r]) ELSE s.dar[r]
    <3>1. r < 16
      OBVIOUS
    <3> QED
      BY <3>1
  <2>2. [Dar EXCEPT ![SP] = c] = [r \in 0 .. 15 |-> IF r = SP THEN c ELSE Dar[r]]
    BY <1>0
  <2> HIDE DEF Dar
  <2> QED
    BY <2>1, <2>2
<1> HIDE DEF Dar
<1> QED
  BY <1>9, <1>11, <1>12 DEF c, u

(* The registers a list names come back, whatever they held in between.    *)
LEMMA ListComesBack ==
    ASSUME NEW s \in States, s.dar[SP] = Low(Long, MemSize), NEW w \in Halves,
           NEW up \in Values(Word), NEW down \in Values(Word),
           SP \notin Named(up), Named(down) = {15 - k : k \in Named(up)}
    PROVE  LoadUp(Listed(Wiped(StoreDown(Listed(s, down), w, 7), Named(up)), up), w, 7).dar
             = [k \in 0 .. 15 |-> IF k \in Named(up) THEN Extend(w, s.dar[k]) ELSE s.dar[k]]
<1> DEFINE L == Named(up)
           t == StoreDown(Listed(s, down), w, 7)
           u == Wiped(t, L)
<1>0. SP = 15 /\ 15 \in 0 .. 15 /\ up \in Int /\ down \in Int
  BY Numbers, Kinds
<1>1. \A k \in 0 .. 15 : /\ BitOf(up, k) \in {0, 1} /\ BitOf(down, k) \in {0, 1}
                         /\ (k \in L <=> BitOf(up, k) = 1)
  BY <1>0, Places DEF Named
<1>2. Mirrored(up, down)
  <2>1. ASSUME NEW k \in 0 .. 15 PROVE BitOf(up, k) = BitOf(down, 15 - k)
    <3>1. 15 - k \in 0 .. 15 /\ 15 - (15 - k) = k
      OBVIOUS
    <3>2. BitOf(down, 15 - k) = 1 <=> 15 - k \in {15 - j : j \in L}
      BY <3>1 DEF Named
    <3>3. 15 - k \in {15 - j : j \in L} <=> k \in L
      <4>1. L \subseteq 0 .. 15
        BY DEF Named
      <4> QED
        BY <4>1
    <3> QED
      BY <1>1, <3>1, <3>2, <3>3
  <2> QED
    BY <2>1 DEF Mirrored
<1>3. BitOf(up, SP) # 1 /\ BitOf(down, 0) = 0
  <2>1. BitOf(up, 15) # 1 /\ BitOf(up, 15) = BitOf(down, 15 - 15) /\ 15 - 15 = 0
    BY <1>0, <1>1, <1>2 DEF Mirrored
  <2> QED
    BY <1>0, <1>1, <2>1
<1>4. PICK o : Depths(o, down, w)
  BY <1>0, <1>3, DepthsBounded
<1>5. Laid(s, t, down, w, o)
  BY <1>4, StoresList
<1> HIDE DEF t, L
<1>6. s.dar \in [0 .. 15 -> Values(Long)]
  BY DEF States
<1> DEFINE c == Low(Long, MemSize - o[16])
<1>7. /\ t \in States /\ t.dar = [s.dar EXCEPT ![SP] = c]
      /\ \A j \in 1 .. 16 : BitOf(down, j - 1) = 1
                            => Read(t, w, MemSize - o[j]) = Low(w, s.dar[16 - j])
  BY <1>5 DEF Laid
<1>8. /\ u \in States /\ u.mem = t.mem
      /\ u.dar = [k \in 0 .. 15 |-> IF k \in L THEN 0 ELSE t.dar[k]]
  <2>1. t.dar \in [0 .. 15 -> Values(Long)] /\ 0 \in Values(Long)
    <3>1. t.dar \in [0 .. 15 -> Values(Long)]
      BY <1>7 DEF States
    <3>2. 0 \in Values(Long)
      BY Spans, Kinds DEF Values
    <3> QED
      BY <3>1, <3>2
  <2> DEFINE D == [k \in 0 .. 15 |-> IF k \in L THEN 0 ELSE t.dar[k]]
  <2>2. D \in [0 .. 15 -> Values(Long)]
    BY <2>1
  <2>3. u = [t EXCEPT !.dar = D]
    BY DEF Wiped
  <2> HIDE DEF D, u
  <2>4. u \in States /\ u.mem = t.mem /\ u.dar = D
    BY <1>7, <2>2, <2>3 DEF States
  <2> QED
    BY <2>4 DEF D
<1> HIDE DEF c, u
<1>9. u.dar[SP] = c
  BY <1>0, <1>6, <1>7, <1>8 DEF L
<1>10. ASSUME NEW r \in 0 .. 15, BitOf(up, r) = 1
       PROVE  Read(u, w, MemSize - o[16 - r]) = Low(w, s.dar[r])
  <2>1. 16 - r \in 1 .. 16 /\ 16 - (16 - r) = r /\ (16 - r) - 1 = 15 - r
    OBVIOUS
  <2>2. BitOf(down, (16 - r) - 1) = 1
    BY <1>2, <1>10, <2>1 DEF Mirrored
  <2>3. Read(t, w, MemSize - o[16 - r]) = Low(w, s.dar[16 - (16 - r)])
    BY <1>7, <2>1, <2>2
  <2>4. Read(u, w, MemSize - o[16 - r]) = Read(t, w, MemSize - o[16 - r])
    BY <1>8 DEF Read, Read32, Read16, Read8
  <2> QED
    BY <2>1, <2>3, <2>4
<1>11. LoadUp(Listed(u, up), w, 7).dar
         = [r \in 0 .. 15 |-> IF r = SP THEN Low(Long, MemSize)
                              ELSE IF BitOf(up, r) = 1 THEN Extend(w, s.dar[r])
                              ELSE u.dar[r]]
  BY <1>2, <1>3, <1>4, <1>6, <1>8, <1>9, <1>10, LoadsList DEF c
<1>12. ASSUME NEW k \in 0 .. 15
       PROVE  (IF k = SP THEN Low(Long, MemSize)
               ELSE IF BitOf(up, k) = 1 THEN Extend(w, s.dar[k]) ELSE u.dar[k])
                = IF k \in L THEN Extend(w, s.dar[k]) ELSE s.dar[k]
  <2>1. CASE k = SP
    BY <2>1 DEF L
  <2>2. CASE k # SP
    <3>1. t.dar[k] = s.dar[k]
      BY <1>6, <1>7, <2>2
    <3>2. k \notin L => u.dar[k] = t.dar[k]
      BY <1>8
    <3> QED
      BY <1>1, <2>2, <3>1, <3>2 DEF L
  <2> QED
    BY <2>1, <2>2
<1>13. LoadUp(Listed(u, up), w, 7).dar
         = [k \in 0 .. 15 |-> IF k \in L THEN Extend(w, s.dar[k]) ELSE s.dar[k]]
  BY <1>11, <1>12
<1> QED
  BY <1>13 DEF L, t, u

(* Every list of every state: the stack pointer is put at the end of the   *)
(* memory, which is what the property asks about.                          *)
LEMMA RegistersBack ==
    ASSUME Good(cpu)
    PROVE  SavedRegistersComeBack
<1> DEFINE s == Set(cpu, SP, MemSize)
<1>1. /\ cpu \in States /\ MemSize \in Int /\ SP \in 0 .. 15
      /\ Word \in Halves /\ Long \in Halves /\ Long \in Width
  BY MemoryAssumption, Kinds DEF Good, Halves
<1>2. Placed(cpu, s, SP, MemSize)
  BY <1>1, SetPlaces
<1> HIDE DEF s
<1>3. s \in States /\ s.dar[SP] = Low(Long, MemSize) /\ s.dar \in [0 .. 15 -> Values(Long)]
  BY <1>2 DEF Placed, States
<1>4. ASSUME NEW up \in Lists, NEW down \in Lists,
             SP \notin Named(up), Named(down) = {15 - k : k \in Named(up)},
             NEW w \in Halves
      PROVE  LoadUp(Listed(Wiped(StoreDown(Listed(s, down), w, 7), Named(up)), up), w, 7).dar
               = [k \in 0 .. 15 |-> IF k \in Named(up) THEN Extend(w, s.dar[k]) ELSE s.dar[k]]
  BY <1>3, <1>4, ListComesBack, ProgramAssumption
<1>5. ASSUME NEW k \in 0 .. 15 PROVE Extend(Long, s.dar[k]) = s.dar[k]
  <2> DEFINE v == s.dar[k]
  <2>1. v \in Values(Long) /\ v \in Nat /\ v < Span(Long) /\ Low(Long, v) = v
    <3>1. v \in Values(Long)
      BY <1>3
    <3> HIDE DEF v
    <3> QED
      BY <3>1, Numbers, Kinds, SpanTyped DEF Values
  <2> HIDE DEF v
  <2>2. Low(Long, v - Span(Long)) = v
    <3>1. Span(Long) \in Nat /\ Span(Long) > 0
      BY SpanTyped, Kinds
    <3>2. - Span(Long) <= v - Span(Long) /\ v - Span(Long) < 0 /\ v - Span(Long) \in Int
      BY <2>1, <3>1
    <3>3. Low(Long, v - Span(Long)) = (v - Span(Long)) + Span(Long)
      BY <1>1, <3>2, Near
    <3> QED
      BY <2>1, <3>1, <3>3
  <2>3. v - 0 = v
    BY <2>1
  <2> QED
    BY <2>1, <2>2, <2>3 DEF Extend, Signed, v
<1>6. ASSUME NEW L
      PROVE  [k \in 0 .. 15 |-> IF k \in L THEN Extend(Long, s.dar[k]) ELSE s.dar[k]] = s.dar
  <2>1. \A k \in 0 .. 15 : (IF k \in L THEN Extend(Long, s.dar[k]) ELSE s.dar[k]) = s.dar[k]
    BY <1>5
  <2> QED
    BY <1>3, <2>1
<1> SUFFICES ASSUME NEW down \in Lists, NEW up \in Lists,
                    SP \notin Named(up), Named(down) = {15 - k : k \in Named(up)}
    PROVE  /\ LoadUp(Listed(Wiped(StoreDown(Listed(s, down), Long, 7), Named(up)), up), Long, 7).dar
                = s.dar
           /\ LoadUp(Listed(Wiped(StoreDown(Listed(s, down), Word, 7), Named(up)), up), Word, 7).dar
                = [k \in 0 .. 15 |-> IF k \in Named(up) THEN Extend(Word, s.dar[k]) ELSE s.dar[k]]
  BY DEF SavedRegistersComeBack, Listed, Wiped, s, movem_32_er_pi, movem_32_re_pd,
         movem_16_er_pi, movem_16_re_pd
<1>7. LoadUp(Listed(Wiped(StoreDown(Listed(s, down), Long, 7), Named(up)), up), Long, 7).dar
        = [k \in 0 .. 15 |-> IF k \in Named(up) THEN Extend(Long, s.dar[k]) ELSE s.dar[k]]
  BY <1>1, <1>4
<1>8. LoadUp(Listed(Wiped(StoreDown(Listed(s, down), Word, 7), Named(up)), up), Word, 7).dar
        = [k \in 0 .. 15 |-> IF k \in Named(up) THEN Extend(Word, s.dar[k]) ELSE s.dar[k]]
  BY <1>1, <1>4
<1> QED
  BY <1>6, <1>7, <1>8

(* Registers stored by MOVEM come back, in every state the processor       *)
(* reaches and for every list without A7.                                  *)
THEOREM SavedRegistersReturn == Spec => []SavedRegistersComeBack
BY RegistersBack, Goodness, PTL
=============================================================================
