------------------------ MODULE M68kArithmetic_proofs ------------------------
(***************************************************************************)
(* The sound processor's arithmetic for every width of a byte and all      *)
(* operands: what a sum or a difference leaves is exact (Exact), two exact *)
(* halves make an exact whole (Chains), moving by k places and one more is *)
(* moving by k + 1 (MixedAgain, RotateAgain), and decimal digits are       *)
(* numbers.                                                                *)
(***************************************************************************)
EXTENDS M68kArithmetic, M68kAlu_proofs

(* f is what an operation of width w leaves whose exact result is t, read  *)
(* without signs, and s, read with them.                                   *)
Exact(w, t, s, f) ==
    /\ f = [r |-> f.r, n |-> f.n, z |-> f.z, v |-> f.v, c |-> f.c]
    /\ f.n \in BOOLEAN /\ f.z \in BOOLEAN /\ f.v \in BOOLEAN /\ f.c \in BOOLEAN
    /\ f.r \in Values(w)
    /\ f.r = t + (IF t < 0 THEN Span(w) ELSE IF t >= Span(w) THEN - Span(w) ELSE 0)
    /\ f.c <=> t < 0 \/ t >= Span(w)
    /\ f.z <=> f.r = 0
    /\ f.n <=> f.r >= Middle(w)
    /\ f.v <=> s < - Middle(w) \/ s >= Middle(w)

(* The parts of an outcome.                                                *)
LEMMA OutcomeParts ==
    ASSUME NEW w, NEW r, NEW v, NEW c, NEW f, f = Outcome(w, r, v, c)
    PROVE  /\ f = [r |-> f.r, n |-> f.n, z |-> f.z, v |-> f.v, c |-> f.c]
           /\ f.r = r /\ f.n = Msb(w, r) /\ f.z = (r = 0) /\ f.v = v /\ f.c = c
<1> DEFINE Z == r = 0
<1>1. f = [r |-> r, n |-> Msb(w, r), z |-> Z, v |-> v, c |-> c]
  BY DEF Outcome
<1> HIDE DEF Z
<1>2. /\ f.r = r /\ f.n = Msb(w, r) /\ f.z = Z /\ f.v = v /\ f.c = c
      /\ f = [r |-> f.r, n |-> f.n, z |-> f.z, v |-> f.v, c |-> f.c]
  BY <1>1
<1>3. f.z = (r = 0)
  BY <1>2 DEF Z
<1> QED
  BY <1>2, <1>3, Zenon

(* An outcome is exact if its carry and its overflow are.                  *)
LEMMA OutcomeExact ==
    ASSUME NEW w \in Width, NEW t \in Int, NEW s, NEW v, NEW c, NEW f,
           - Span(w) <= t, t < 2 * Span(w),
           f = Outcome(w, Low(w, t), v, c),
           c \in BOOLEAN, v \in BOOLEAN,
           c <=> t < 0 \/ t >= Span(w),
           v <=> s < - Middle(w) \/ s >= Middle(w)
    PROVE  Exact(w, t, s, f)
<1> DEFINE r == Low(w, t)
<1>1. f.r = Low(w, t) /\ f.n = Msb(w, f.r) /\ f.z = (f.r = 0) /\ f.v = v /\ f.c = c
  <2> HIDE DEF r
  <2>1. f = Outcome(w, r, v, c)
    BY DEF r
  <2>2. f.r = r /\ f.n = Msb(w, r) /\ f.z = (r = 0) /\ f.v = v /\ f.c = c
    BY <2>1, OutcomeParts
  <2> QED
    BY <2>2, Zenon DEF r
<1>2. f = [r |-> f.r, n |-> f.n, z |-> f.z, v |-> f.v, c |-> f.c]
  <2> HIDE DEF r
  <2>1. f = Outcome(w, r, v, c)
    BY DEF r
  <2> QED
    BY <2>1, OutcomeParts
<1>3. f.r \in Values(w)
  BY <1>1, Near
<1>4. Msb(w, f.r) \in BOOLEAN /\ (Msb(w, f.r) <=> f.r >= Middle(w))
  BY <1>3, SignBit
<1>5. f.r = t + (IF t < 0 THEN Span(w) ELSE IF t >= Span(w) THEN - Span(w) ELSE 0)
  BY <1>1, Near, Spans
<1>6. f.z \in BOOLEAN /\ (f.z <=> f.r = 0)
  BY <1>1, Zenon
<1>7. f.n \in BOOLEAN /\ (f.n <=> f.r >= Middle(w))
  BY <1>1, <1>4, Zenon
<1>8. f.v \in BOOLEAN /\ f.c \in BOOLEAN /\ (f.c <=> t < 0 \/ t >= Span(w))
  BY <1>1, Zenon
<1>9. f.v <=> s < - Middle(w) \/ s >= Middle(w)
  BY <1>1, Zenon
<1> QED
  BY <1>2, <1>3, <1>5, <1>6, <1>7, <1>8, <1>9, Zenon DEF Exact

(* An exact result leaves no choice.                                       *)
LEMMA Determined ==
    ASSUME NEW w, NEW t, NEW s, NEW f, NEW g, Exact(w, t, s, f), Exact(w, t, s, g)
    PROVE  f = g
<1>1. f.r = g.r
  BY DEF Exact
<1>2. f.c = g.c /\ f.v = g.v /\ f.n = g.n /\ f.z = g.z
  BY <1>1, Zenon DEF Exact
<1> QED
  BY <1>1, <1>2, Zenon DEF Exact

(* SUB, CMP, SUBX: the carry of a byte or a word is the next bit, that of  *)
(* a long is made of three sign bits, and both are the borrow; V is the    *)
(* same formula at all widths.                                             *)
LEMMA DifferenceMeans ==
    ASSUME NEW w \in Width, NEW a \in Values(w), NEW b \in Values(w), NEW c \in {0, 1}
    PROVE  Exact(w, b - a - c, Signed(w, b) - Signed(w, a) - c, Difference(w, a, b, c))
<1> DEFINE t == b - a - c
           s == Signed(w, b) - Signed(w, a) - c
           r == Low(w, t)
           M == Middle(w)
           S == Span(w)
           V == Msb(w, a) # Msb(w, b) /\ Msb(w, r) # Msb(w, b)
           C == IF w = Long
                THEN \/ Msb(w, a) /\ Msb(w, r)
                     \/ ~Msb(w, b) /\ (Msb(w, a) \/ Msb(w, r))
                ELSE t < 0
<1>1. S \in Nat /\ M \in Nat /\ M > 0 /\ S = 2 * M
  BY Spans, Middles
<1>2. a \in Nat /\ a < S /\ b \in Nat /\ b < S
  BY SignBit
<1>3. t \in Int /\ t >= - S /\ t < S
  BY <1>1, <1>2
<1>4. r \in Values(w) /\ r = IF t < 0 THEN t + S ELSE t
  BY <1>3, Near
<1>5. r \in Nat /\ r < S
  BY <1>4, SignBit
<1>6. /\ Msb(w, a) \in BOOLEAN /\ Msb(w, b) \in BOOLEAN /\ Msb(w, r) \in BOOLEAN
      /\ Msb(w, a) <=> a >= M
      /\ Msb(w, b) <=> b >= M
      /\ Msb(w, r) <=> r >= M
  BY <1>4, SignBit
<1>7. s = (IF b >= M THEN b - S ELSE b) - (IF a >= M THEN a - S ELSE a) - c
  BY SignBit
<1>8. Difference(w, a, b, c) = Outcome(w, r, V, C)
  BY DEF Difference, Signs, SubtractedWith
<1>9. t = b - a - c
  OBVIOUS
<1> HIDE DEF r, s, M, S, t
<1>10. V <=> s < - M \/ s >= M
  <2>1. V <=> ~(a >= M <=> b >= M) /\ ~(r >= M <=> b >= M)
    BY <1>6, Zenon
  <2> QED
    BY <2>1, <1>1, <1>2, <1>3, <1>4, <1>5, <1>7, <1>9
<1>11. C <=> t < 0 \/ t >= S
  <2>1. CASE w = Long
    <3>1. C <=> \/ a >= M /\ r >= M
                \/ ~(b >= M) /\ (a >= M \/ r >= M)
      BY <2>1, <1>6, Zenon
    <3> QED
      BY <3>1, <1>1, <1>2, <1>3, <1>4, <1>5, <1>9
  <2>2. CASE w # Long
    BY <2>2, <1>1, <1>3
  <2> QED
    BY <2>1, <2>2
<1>12. C \in BOOLEAN
  <2>1. CASE w = Long
    BY <2>1, Zenon
  <2>2. CASE w # Long
    BY <2>2
  <2> QED
    BY <2>1, <2>2
<1>13. V \in BOOLEAN
  OBVIOUS
<1> HIDE DEF V, C
<1>14. t < 2 * S
  BY <1>1, <1>3
<1> QED
  BY <1>3, <1>8, <1>10, <1>11, <1>12, <1>13, <1>14, OutcomeExact DEF r, s, M, S, t

(* ADD, ADDX: the same of the carry of a sum.                              *)
LEMMA SumMeans ==
    ASSUME NEW w \in Width, NEW a \in Values(w), NEW b \in Values(w), NEW c \in {0, 1}
    PROVE  Exact(w, a + b + c, Signed(w, a) + Signed(w, b) + c, Sum(w, a, b, c))
<1> DEFINE t == a + b + c
           s == Signed(w, a) + Signed(w, b) + c
           r == Low(w, t)
           M == Middle(w)
           S == Span(w)
           V == Msb(w, a) # Msb(w, r) /\ Msb(w, b) # Msb(w, r)
           C == IF w = Long
                THEN \/ Msb(w, a) /\ Msb(w, b)
                     \/ ~Msb(w, r) /\ (Msb(w, a) \/ Msb(w, b))
                ELSE t >= S
<1>1. S \in Nat /\ M \in Nat /\ M > 0 /\ S = 2 * M
  BY Spans, Middles
<1>2. a \in Nat /\ a < S /\ b \in Nat /\ b < S
  BY SignBit
<1>3. t \in Int /\ t >= 0 /\ t < 2 * S
  BY <1>1, <1>2
<1>4. r \in Values(w) /\ r = IF t >= S THEN t - S ELSE t
  BY <1>1, <1>3, Near
<1>5. r \in Nat /\ r < S
  BY <1>4, SignBit
<1>6. /\ Msb(w, a) \in BOOLEAN /\ Msb(w, b) \in BOOLEAN /\ Msb(w, r) \in BOOLEAN
      /\ Msb(w, a) <=> a >= M
      /\ Msb(w, b) <=> b >= M
      /\ Msb(w, r) <=> r >= M
  BY <1>4, SignBit
<1>7. s = (IF a >= M THEN a - S ELSE a) + (IF b >= M THEN b - S ELSE b) + c
  BY SignBit
<1>8. Sum(w, a, b, c) = Outcome(w, r, V, C)
  BY DEF Sum, Signs, AddedWith
<1>9. t = a + b + c
  OBVIOUS
<1> HIDE DEF r, s, M, S, t
<1>10. V <=> s < - M \/ s >= M
  <2>1. V <=> ~(a >= M <=> r >= M) /\ ~(b >= M <=> r >= M)
    BY <1>6, Zenon
  <2> QED
    BY <2>1, <1>1, <1>2, <1>3, <1>4, <1>5, <1>7, <1>9
<1>11. C <=> t < 0 \/ t >= S
  <2>1. CASE w = Long
    <3>1. C <=> \/ a >= M /\ b >= M
                \/ ~(r >= M) /\ (a >= M \/ b >= M)
      BY <2>1, <1>6, Zenon
    <3> QED
      BY <3>1, <1>1, <1>2, <1>3, <1>4, <1>5, <1>9
  <2>2. CASE w # Long
    BY <2>2, <1>1, <1>3
  <2> QED
    BY <2>1, <2>2
<1>12. C \in BOOLEAN
  <2>1. CASE w = Long
    BY <2>1, Zenon
  <2>2. CASE w # Long
    BY <2>2
  <2> QED
    BY <2>1, <2>2
<1>13. V \in BOOLEAN
  OBVIOUS
<1> HIDE DEF V, C
<1>14. t >= - S
  BY <1>1, <1>3
<1> QED
  BY <1>3, <1>8, <1>10, <1>11, <1>12, <1>13, <1>14, OutcomeExact DEF r, s, M, S, t

(* NEG, NEGX: with zero for the other operand two sign bits are enough.    *)
LEMMA NegationMeans ==
    ASSUME NEW w \in Width, NEW a \in Values(w), NEW c \in {0, 1}
    PROVE  Exact(w, 0 - a - c, 0 - Signed(w, a) - c, Negation(w, a, c))
<1> DEFINE t == 0 - a - c
           s == 0 - Signed(w, a) - c
           r == Low(w, t)
           M == Middle(w)
           S == Span(w)
           V == Msb(w, a) /\ Msb(w, r)
           C == IF w = Long THEN Msb(w, a) \/ Msb(w, r) ELSE t < 0
<1>1. S \in Nat /\ M \in Nat /\ M > 0 /\ S = 2 * M
  BY Spans, Middles
<1>2. a \in Nat /\ a < S
  BY SignBit
<1>3. t \in Int /\ t >= - S /\ t <= 0
  BY <1>1, <1>2
<1>4. r \in Values(w) /\ r = IF t < 0 THEN t + S ELSE t
  BY <1>1, <1>3, Near
<1>5. r \in Nat /\ r < S
  BY <1>4, SignBit
<1>6. /\ Msb(w, a) \in BOOLEAN /\ Msb(w, r) \in BOOLEAN
      /\ Msb(w, a) <=> a >= M
      /\ Msb(w, r) <=> r >= M
  BY <1>4, SignBit
<1>7. s = 0 - (IF a >= M THEN a - S ELSE a) - c
  BY SignBit
<1>8. Negation(w, a, c) = Outcome(w, r, V, C)
  BY DEF Negation, Signs, NegatedWith
<1>9. t = 0 - a - c
  OBVIOUS
<1> HIDE DEF r, s, M, S, t
<1>10. V <=> s < - M \/ s >= M
  <2>1. V <=> a >= M /\ r >= M
    BY <1>6, Zenon
  <2> QED
    BY <2>1, <1>1, <1>2, <1>3, <1>4, <1>5, <1>7, <1>9
<1>11. C <=> t < 0 \/ t >= S
  <2>1. CASE w = Long
    <3>1. C <=> a >= M \/ r >= M
      BY <2>1, <1>6, Zenon
    <3> QED
      BY <3>1, <1>1, <1>2, <1>3, <1>4, <1>5, <1>9
  <2>2. CASE w # Long
    BY <2>2, <1>1, <1>3
  <2> QED
    BY <2>1, <2>2
<1>12. C \in BOOLEAN
  <2>1. CASE w = Long
    BY <2>1, Zenon
  <2>2. CASE w # Long
    BY <2>2
  <2> QED
    BY <2>1, <2>2
<1>13. V \in BOOLEAN
  BY <1>6
<1> HIDE DEF V, C
<1>14. t < 2 * S
  BY <1>1, <1>3
<1> QED
  BY <1>3, <1>8, <1>10, <1>11, <1>12, <1>13, <1>14, OutcomeExact DEF r, s, M, S, t

(* What the conditions say after a comparison, at one width.               *)
LEMMA CompareHolds ==
    ASSUME NEW w \in Width, NEW a \in Values(w), NEW b \in Values(w)
    PROVE  CompareMeans(w, a, b)
<1> DEFINE f == Difference(w, a, b, 0)
           M == Middle(w)
           S == Span(w)
           sa == Signed(w, a)
           sb == Signed(w, b)
           t == b - a - 0
           s == sb - sa - 0
<1>1. S \in Nat /\ M \in Nat /\ M > 0 /\ S = 2 * M
  BY Spans, Middles
<1>2. /\ a \in Nat /\ a < S /\ b \in Nat /\ b < S
      /\ sa = IF a >= M THEN a - S ELSE a
      /\ sb = IF b >= M THEN b - S ELSE b
  BY SignBit
<1>3. Exact(w, t, s, f)
  BY DifferenceMeans
<1>4. t = b - a /\ s = sb - sa /\ sa \in Int /\ sb \in Int
  BY <1>1, <1>2
<1> HIDE DEF f, M, S, sa, sb, s, t
<1>5. /\ f.n \in BOOLEAN /\ f.z \in BOOLEAN /\ f.v \in BOOLEAN /\ f.c \in BOOLEAN
      /\ f.c <=> t < 0 \/ t >= S
      /\ f.z <=> f.r = 0
      /\ f.n <=> f.r >= M
      /\ f.v <=> s < - M \/ s >= M
  BY <1>3, Zenon DEF Exact, M, S
<1>6. f.r = t + (IF t < 0 THEN S ELSE IF t >= S THEN - S ELSE 0)
  BY <1>3 DEF Exact, S
<1>7. f.r = IF b < a THEN b - a + S ELSE b - a
  BY <1>1, <1>2, <1>4, <1>6
<1>8. f.z <=> b = a
  BY <1>1, <1>2, <1>5, <1>7
<1>9. f.c <=> b < a
  BY <1>1, <1>2, <1>4, <1>5
<1>10. (f.n # f.v) <=> sb < sa
  <2>1. (f.n # f.v) <=> ~(f.r >= M <=> (s < - M \/ s >= M))
    BY <1>5, Zenon
  <2> QED
    BY <1>1, <1>2, <1>4, <1>7, <2>1
<1>11. b = a <=> sb = sa
  BY <1>1, <1>2
<1>12. /\ Holds("eq", f) = f.z /\ Holds("ne", f) = ~f.z
       /\ Holds("cs", f) = f.c /\ Holds("cc", f) = ~f.c
       /\ Holds("ls", f) = (f.c \/ f.z) /\ Holds("hi", f) = (~f.c /\ ~f.z)
       /\ Holds("lt", f) = (f.n # f.v) /\ Holds("ge", f) = (f.n = f.v)
       /\ Holds("le", f) = (f.n # f.v \/ f.z) /\ Holds("gt", f) = (f.n = f.v /\ ~f.z)
  BY DEF Holds
<1>13. /\ Holds("eq", f) <=> b = a
       /\ Holds("cs", f) <=> b < a
       /\ Holds("ls", f) <=> b <= a
       /\ Holds("lt", f) <=> sb < sa
       /\ Holds("le", f) <=> sb <= sa
  <2>1. b <= a <=> b < a \/ b = a
    BY <1>2
  <2>2. sb <= sa <=> sb < sa \/ sb = sa
    BY <1>4
  <2> QED
    BY <2>1, <2>2, <1>8, <1>9, <1>10, <1>11, <1>12, Zenon
<1>14. \A p \in {<<"eq", "ne">>, <<"cs", "cc">>, <<"ls", "hi">>, <<"lt", "ge">>,
                 <<"le", "gt">>} : Holds(p[2], f) # Holds(p[1], f)
  <2>1. /\ Holds("ne", f) # Holds("eq", f) /\ Holds("cc", f) # Holds("cs", f)
        /\ Holds("hi", f) # Holds("ls", f) /\ Holds("ge", f) # Holds("lt", f)
        /\ Holds("gt", f) # Holds("le", f)
    BY <1>5, <1>12, Zenon
  <2> QED
    BY <2>1
<1> QED
  BY <1>13, <1>14 DEF CompareMeans, f, sa, sb

-----------------------------------------------------------------------------
(* The widths that are half of another.                                    *)
Narrow == {Byte, Word}

(* The width twice as wide.                                                *)
LEMMA Doubled ==
    ASSUME NEW w \in Narrow
    PROVE  /\ w \in Width /\ 2 * w \in Width
           /\ Span(2 * w) = Span(w) * Span(w)
           /\ Middle(2 * w) = Middle(w) * Span(w)
<1>1. w \in Width /\ 2 * w \in Width
  BY DEF Narrow, Width, Byte, Word, Long
<1>2. Span(2 * w) = Span(w) * Span(w)
  <2>1. CASE w = Byte
    <3>1. 2 * w = Word
      BY <2>1 DEF Byte, Word
    <3> QED
      BY <2>1, <3>1, Spans
  <2>2. CASE w = Word
    <3>1. 2 * w = Long
      BY <2>2 DEF Word, Long
    <3> QED
      BY <2>2, <3>1, Spans
  <2> QED
    BY <2>1, <2>2 DEF Narrow
<1> DEFINE S == Span(w)
           M == Middle(w)
           MM == Middle(2 * w)
<1>3. S \in Nat /\ M \in Nat /\ S = 2 * M
  BY <1>1, Spans, Middles
<1>4. MM \in Nat /\ S * S = 2 * MM
  BY <1>1, <1>2, Middles
<1> HIDE DEF S, M, MM
<1>5. S * S = 2 * (M * S) /\ M * S \in Nat
  BY <1>3
<1>6. MM = M * S
  BY <1>4, <1>5
<1> QED
  BY <1>1, <1>2, <1>6 DEF S, M, MM

(* A value in two halves, of which only the upper one has a sign.          *)
LEMMA Halves ==
    ASSUME NEW w \in Narrow, NEW v \in Values(2 * w)
    PROVE  /\ Half(w, v) \in Values(w) /\ Low(w, v) \in Values(w)
           /\ v = Half(w, v) * Span(w) + Low(w, v)
           /\ Signed(2 * w, v) = Signed(w, Half(w, v)) * Span(w) + Low(w, v)
<1> DEFINE S == Span(w)
           M == Middle(w)
           h == Half(w, v)
           l == Low(w, v)
<1>1. S \in Nat /\ S > 0 /\ M \in Nat /\ S = 2 * M
  BY Doubled, Spans, Middles
<1>2. v \in Nat /\ v < S * S
  BY Doubled, SignBit
<1>3. h \in Nat /\ l \in 0 .. S - 1 /\ v = h * S + l
  <2> DEFINE k == v \div S
             m == v % S
  <2>1. h = k /\ l = m
    BY DEF Half, Low
  <2>2. k \in Int /\ m \in 0 .. S - 1 /\ v = k * S + m
    BY <1>1, <1>2, DivisionAlgorithm
  <2>3. k >= 0
    <3> HIDE DEF S, k, m
    <3>1. 0 * S = 0
      BY <1>1
    <3> QED
      BY <1>1, <1>2, <2>2, <3>1, HalvesOrder
  <2> QED
    BY <2>1, <2>2, <2>3
<1>4. l \in Values(w)
  BY <1>3 DEF Values
<1>5. h \in Values(w)
  <2>1. h < S
    <3> HIDE DEF S, h, l
    <3> QED
      BY <1>1, <1>2, <1>3, HalvesOrder
  <2> QED
    BY <1>1, <1>3, <2>1 DEF Values
<1>6. v >= M * S <=> h >= M
  <2> HIDE DEF S, M, h, l
  <2> QED
    BY <1>1, <1>3, HalvesOrder
<1>7. Signed(2 * w, v) = IF v >= M * S THEN v - S * S ELSE v
  BY Doubled, SignBit
<1>8. Signed(w, h) = IF h >= M THEN h - S ELSE h
  BY <1>5, Doubled, SignBit
<1>9. Signed(2 * w, v) = Signed(w, h) * S + l
  <2> HIDE DEF S, M, h, l
  <2>1. CASE h >= M
    <3>1. Signed(w, h) = h - S /\ Signed(2 * w, v) = v - S * S
      BY <2>1, <1>6, <1>7, <1>8
    <3>2. (h - S) * S = h * S - S * S
      BY <1>1, <1>3
    <3>3. h * S \in Int /\ S * S \in Int /\ l \in Int
      BY <1>1, <1>3
    <3> QED
      BY <1>3, <3>1, <3>2, <3>3
  <2>2. CASE ~(h >= M)
    BY <2>2, <1>3, <1>6, <1>7, <1>8
  <2> QED
    BY <2>1, <2>2
<1> QED
  BY <1>3, <1>4, <1>5, <1>9

(* Two exact outcomes on the halves, the upper one with what the lower one *)
(* left over, make the exact outcome of the whole.                         *)
LEMMA Chains ==
    ASSUME NEW w \in Narrow, NEW low, NEW high, NEW f,
           NEW tl \in Int, NEW sl, NEW th \in Int, NEW sh \in Int, NEW t, NEW s,
           Exact(w, tl, sl, low), Exact(w, th, sh, high), Exact(2 * w, t, s, f),
           t = th * Span(w) + low.r, s = sh * Span(w) + low.r
    PROVE  f = Joined(w, high, low)
<1> DEFINE S == Span(w)
           M == Middle(w)
           SS == Span(2 * w)
           MM == Middle(2 * w)
           lr == low.r
           hr == high.r
           r == hr * S + lr
<1>1. S \in Nat /\ S > 0 /\ M \in Nat /\ S = 2 * M /\ SS = S * S /\ MM = M * S
  BY Doubled, Spans, Middles
<1>2. lr \in 0 .. S - 1 /\ hr \in 0 .. S - 1
  BY DEF Exact, Values
<1>3. /\ hr = th + (IF th < 0 THEN S ELSE IF th >= S THEN - S ELSE 0)
      /\ f.r = t + (IF t < 0 THEN SS ELSE IF t >= SS THEN - SS ELSE 0)
      /\ t = th * S + lr /\ s = sh * S + lr
  BY DEF Exact
<1>4. /\ f.c \in BOOLEAN /\ high.c \in BOOLEAN
      /\ f.v \in BOOLEAN /\ high.v \in BOOLEAN
      /\ f.n \in BOOLEAN /\ high.n \in BOOLEAN
      /\ f.z \in BOOLEAN /\ high.z \in BOOLEAN /\ low.z \in BOOLEAN
      /\ f.c <=> t < 0 \/ t >= SS
      /\ high.c <=> th < 0 \/ th >= S
      /\ f.v <=> s < - MM \/ s >= MM
      /\ high.v <=> sh < - M \/ sh >= M
      /\ f.n <=> f.r >= MM
      /\ high.n <=> hr >= M
      /\ f.z <=> f.r = 0
      /\ high.z <=> hr = 0
      /\ low.z <=> lr = 0
  BY Zenon DEF Exact
<1>5. /\ f = [r |-> f.r, n |-> f.n, z |-> f.z, v |-> f.v, c |-> f.c]
      /\ high = [r |-> high.r, n |-> high.n, z |-> high.z, v |-> high.v, c |-> high.c]
  BY Zenon DEF Exact
<1> HIDE DEF S, M, SS, MM, lr, hr, r
<1>6. t < 0 <=> th < 0
  <2>1. 0 * S = 0
    BY <1>1
  <2> QED
    BY <1>1, <1>2, <1>3, <2>1, HalvesOrder
<1>7. t >= SS <=> th >= S
  BY <1>1, <1>2, <1>3, HalvesOrder
<1>8. s >= MM <=> sh >= M
  BY <1>1, <1>2, <1>3, HalvesOrder
<1>9. s < - MM <=> sh < - M
  <2>1. (- M) * S = - MM /\ - M \in Int
    BY <1>1
  <2>2. sh * S + lr < (- M) * S <=> sh < - M
    BY <1>1, <1>2, <2>1, HalvesOrder
  <2> QED
    BY <1>3, <2>1, <2>2
<1>10. f.r = r
  <2>1. t \in Int /\ SS \in Int /\ th * S \in Int /\ lr \in Int
    BY <1>1, <1>2, <1>3
  <2>2. (th + S) * S = th * S + SS /\ (th - S) * S = th * S - SS
    BY <1>1
  <2>3. CASE th < 0
    <3>1. hr = th + S /\ f.r = t + SS
      BY <1>3, <1>6, <2>3
    <3> QED
      BY <1>3, <2>1, <2>2, <3>1 DEF r
  <2>4. CASE th >= S
    <3>1. hr = th - S /\ f.r = t - SS
      <4>1. ~(th < 0) /\ ~(t < 0) /\ t >= SS
        BY <2>4, <1>1, <1>6, <1>7
      <4>2. hr = th + (- S) /\ f.r = t + (- SS)
        BY <1>3, <2>4, <4>1
      <4> QED
        BY <4>2, <2>1, <1>1
    <3> QED
      BY <1>3, <2>1, <2>2, <3>1 DEF r
  <2>5. CASE ~(th < 0) /\ ~(th >= S)
    <3>1. hr = th /\ f.r = t
      BY <1>3, <1>6, <1>7, <2>1, <2>5
    <3> QED
      BY <1>3, <3>1 DEF r
  <2> QED
    BY <2>3, <2>4, <2>5
<1>11. r >= MM <=> hr >= M
  BY <1>1, <1>2, HalvesOrder DEF r
<1>12. r = 0 <=> hr = 0 /\ lr = 0
  <2>1. hr >= 1 => r >= S
    <3>1. 1 * S = S
      BY <1>1
    <3> QED
      BY <1>1, <1>2, <3>1, HalvesOrder DEF r
  <2>2. hr = 0 => r = lr
    BY <1>1, <1>2 DEF r
  <2> QED
    BY <1>1, <1>2, <2>1, <2>2
<1>13. f.c = high.c
  BY <1>4, <1>6, <1>7, Zenon
<1>14. f.v = high.v
  BY <1>4, <1>8, <1>9, Zenon
<1>15. f.n = high.n
  BY <1>4, <1>10, <1>11, Zenon
<1>16. f.z = (high.z /\ low.z)
  BY <1>4, <1>10, <1>12, Zenon
<1> DEFINE Z == high.z /\ low.z
<1>17. f.z = Z
  BY <1>16
<1> HIDE DEF Z
<1>18. [high EXCEPT !.r = r, !.z = Z]
         = [r |-> r, n |-> high.n, z |-> Z, v |-> high.v, c |-> high.c]
  <2>1. ASSUME NEW a, NEW b, NEW d, NEW e, NEW k,
               high = [r |-> a, n |-> b, z |-> d, v |-> e, c |-> k]
        PROVE  [high EXCEPT !.r = r, !.z = Z] = [r |-> r, n |-> b, z |-> Z, v |-> e, c |-> k]
    <3> DEFINE g == [high EXCEPT !.r = r]
    <3>1. g = [r |-> r, n |-> b, z |-> d, v |-> e, c |-> k]
      BY <2>1
    <3>2. [high EXCEPT !.r = r, !.z = Z] = [g EXCEPT !.z = Z]
      BY <2>1
    <3> HIDE DEF g
    <3>3. [g EXCEPT !.z = Z] = [r |-> r, n |-> b, z |-> Z, v |-> e, c |-> k]
      BY <3>1
    <3> QED
      BY <3>2, <3>3
  <2> QED
    BY <1>5, <2>1
<1>19. f = [high EXCEPT !.r = r, !.z = Z]
  BY <1>5, <1>10, <1>13, <1>14, <1>15, <1>17, <1>18
<1> QED
  BY <1>19 DEF Z, r, hr, lr, S, Joined

(* ADDX of the lower halves, then of the upper ones, is ADDX of the whole. *)
LEMMA SumChained ==
    ASSUME NEW w \in Narrow, NEW a \in Values(2 * w), NEW b \in Values(2 * w),
           NEW c \in {0, 1}, NEW low, NEW high,
           low = Sum(w, Low(w, a), Low(w, b), c),
           high = Sum(w, Half(w, a), Half(w, b), Flag(low.c))
    PROVE  Sum(2 * w, a, b, c) = Joined(w, high, low)
<1> DEFINE S == Span(w)
           k == Flag(low.c)
           la == Low(w, a)
           lb == Low(w, b)
           ha == Half(w, a)
           hb == Half(w, b)
           sa == Signed(w, ha)
           sb == Signed(w, hb)
           tl == la + lb + c
           th == ha + hb + k
           sh == sa + sb + k
           t == a + b + c
           s == Signed(2 * w, a) + Signed(2 * w, b) + c
<1>1. w \in Width /\ 2 * w \in Width
  BY Doubled
<1>2. S \in Nat /\ S > 0
  BY <1>1, Spans
<1>3. /\ la \in Values(w) /\ lb \in Values(w) /\ ha \in Values(w) /\ hb \in Values(w)
      /\ a = ha * S + la /\ b = hb * S + lb
      /\ Signed(2 * w, a) = sa * S + la /\ Signed(2 * w, b) = sb * S + lb
  BY Halves
<1>4. la \in Int /\ lb \in Int /\ ha \in Int /\ hb \in Int /\ sa \in Int /\ sb \in Int
  BY <1>1, <1>2, <1>3, SignBit
<1>5. k \in {0, 1}
  BY DEF Flag
<1>6. Exact(w, tl, Signed(w, la) + Signed(w, lb) + c, low)
  BY <1>1, <1>3, SumMeans
<1>7. Exact(w, th, sh, high)
  BY <1>1, <1>3, <1>5, SumMeans
<1>8. Exact(2 * w, t, s, Sum(2 * w, a, b, c))
  BY <1>1, SumMeans
<1>9. low.r = tl - k * S
  <2>1. tl \in Int /\ tl >= 0
    BY <1>1, <1>3, SignBit
  <2>2. low.c \in BOOLEAN /\ (low.c <=> tl < 0 \/ tl >= S)
    BY <1>6, Zenon DEF Exact
  <2>3. low.r = tl + (IF tl < 0 THEN S ELSE IF tl >= S THEN - S ELSE 0)
    BY <1>6 DEF Exact
  <2> HIDE DEF tl, S
  <2>4. CASE tl >= S
    BY <1>2, <2>1, <2>2, <2>3, <2>4 DEF Flag
  <2>5. CASE ~(tl >= S)
    BY <1>2, <2>1, <2>2, <2>3, <2>5 DEF Flag
  <2> QED
    BY <2>4, <2>5
<1> HIDE DEF S, k, la, lb, ha, hb, sa, sb
<1>10. th \in Int /\ sh \in Int /\ tl \in Int
  BY <1>4, <1>5
<1>11. /\ t = th * S + low.r
       /\ s = sh * S + low.r
  <2>1. th * S = ha * S + hb * S + k * S /\ sh * S = sa * S + sb * S + k * S
    BY <1>2, <1>4, <1>5
  <2>2. ha * S \in Int /\ hb * S \in Int /\ sa * S \in Int /\ sb * S \in Int /\ k * S \in Int
    BY <1>2, <1>4, <1>5
  <2> HIDE DEF th, sh
  <2>3. t = th * S + low.r
    BY <1>3, <1>4, <1>9, <2>1, <2>2
  <2>4. s = sh * S + low.r
    BY <1>3, <1>4, <1>9, <2>1, <2>2
  <2> QED
    BY <2>3, <2>4
<1> HIDE DEF t, s, th, sh, tl
<1> QED
  BY <1>6, <1>7, <1>8, <1>10, <1>11, Chains DEF S

(* The same of SUBX.                                                       *)
LEMMA DifferenceChained ==
    ASSUME NEW w \in Narrow, NEW a \in Values(2 * w), NEW b \in Values(2 * w),
           NEW c \in {0, 1}, NEW low, NEW high,
           low = Difference(w, Low(w, a), Low(w, b), c),
           high = Difference(w, Half(w, a), Half(w, b), Flag(low.c))
    PROVE  Difference(2 * w, a, b, c) = Joined(w, high, low)
<1> DEFINE S == Span(w)
           k == Flag(low.c)
           la == Low(w, a)
           lb == Low(w, b)
           ha == Half(w, a)
           hb == Half(w, b)
           sa == Signed(w, ha)
           sb == Signed(w, hb)
           tl == lb - la - c
           th == hb - ha - k
           sh == sb - sa - k
           t == b - a - c
           s == Signed(2 * w, b) - Signed(2 * w, a) - c
<1>1. w \in Width /\ 2 * w \in Width
  BY Doubled
<1>2. S \in Nat /\ S > 0
  BY <1>1, Spans
<1>3. /\ la \in Values(w) /\ lb \in Values(w) /\ ha \in Values(w) /\ hb \in Values(w)
      /\ a = ha * S + la /\ b = hb * S + lb
      /\ Signed(2 * w, a) = sa * S + la /\ Signed(2 * w, b) = sb * S + lb
  BY Halves
<1>4. la \in Int /\ lb \in Int /\ ha \in Int /\ hb \in Int /\ sa \in Int /\ sb \in Int
  BY <1>1, <1>2, <1>3, SignBit
<1>5. k \in {0, 1}
  BY DEF Flag
<1>6. Exact(w, tl, Signed(w, lb) - Signed(w, la) - c, low)
  BY <1>1, <1>3, DifferenceMeans
<1>7. Exact(w, th, sh, high)
  BY <1>1, <1>3, <1>5, DifferenceMeans
<1>8. Exact(2 * w, t, s, Difference(2 * w, a, b, c))
  BY <1>1, DifferenceMeans
<1>9. low.r = tl + k * S
  <2>1. tl \in Int /\ tl < S
    BY <1>1, <1>2, <1>3, SignBit
  <2>2. low.c \in BOOLEAN /\ (low.c <=> tl < 0 \/ tl >= S)
    BY <1>6, Zenon DEF Exact
  <2>3. low.r = tl + (IF tl < 0 THEN S ELSE IF tl >= S THEN - S ELSE 0)
    BY <1>6 DEF Exact
  <2> HIDE DEF tl, S
  <2>4. CASE tl < 0
    BY <1>2, <2>1, <2>2, <2>3, <2>4 DEF Flag
  <2>5. CASE ~(tl < 0)
    BY <1>2, <2>1, <2>2, <2>3, <2>5 DEF Flag
  <2> QED
    BY <2>4, <2>5
<1> HIDE DEF S, k, la, lb, ha, hb, sa, sb
<1>10. th \in Int /\ sh \in Int /\ tl \in Int
  BY <1>4, <1>5
<1>11. /\ t = th * S + low.r
       /\ s = sh * S + low.r
  <2>1. th * S = hb * S - ha * S - k * S /\ sh * S = sb * S - sa * S - k * S
    BY <1>2, <1>4, <1>5
  <2>2. ha * S \in Int /\ hb * S \in Int /\ sa * S \in Int /\ sb * S \in Int /\ k * S \in Int
    BY <1>2, <1>4, <1>5
  <2> HIDE DEF th, sh
  <2>3. t = th * S + low.r
    BY <1>3, <1>4, <1>9, <2>1, <2>2
  <2>4. s = sh * S + low.r
    BY <1>3, <1>4, <1>9, <2>1, <2>2
  <2> QED
    BY <2>3, <2>4
<1> HIDE DEF t, s, th, sh, tl
<1> QED
  BY <1>6, <1>7, <1>8, <1>10, <1>11, Chains DEF S

(* NEGX is SUBX from zero, although it has formulas of its own.            *)
LEMMA NegationDiffers ==
    ASSUME NEW w \in Width, NEW a \in Values(w), NEW c \in {0, 1}
    PROVE  Negation(w, a, c) = Difference(w, a, 0, c)
<1>1. 0 \in Values(w) /\ Signed(w, 0) = 0
  <2>1. 0 \in Values(w)
    BY Spans DEF Values
  <2> QED
    BY <2>1, Middles, SignBit
<1>2. Exact(w, 0 - a - c, 0 - Signed(w, a) - c, Difference(w, a, 0, c))
  BY <1>1, DifferenceMeans
<1> QED
  BY <1>2, NegationMeans, Determined

(* NEGX of the halves is NEGX of the whole.                                *)
LEMMA NegationChained ==
    ASSUME NEW w \in Narrow, NEW a \in Values(2 * w), NEW c \in {0, 1}, NEW low, NEW high,
           low = Negation(w, Low(w, a), c),
           high = Negation(w, Half(w, a), Flag(low.c))
    PROVE  Negation(2 * w, a, c) = Joined(w, high, low)
<1>1. /\ w \in Width /\ 2 * w \in Width
      /\ Low(w, a) \in Values(w) /\ Half(w, a) \in Values(w)
  BY Doubled, Halves
<1>2. 0 \in Values(2 * w) /\ Low(w, 0) = 0 /\ Half(w, 0) = 0
  <2>1. Span(w) \in Nat /\ Span(w) > 0 /\ 0 \in Values(2 * w)
    BY <1>1, Spans DEF Values
  <2>2. 0 = 0 * Span(w) + 0
    BY <2>1
  <2>3. 0 \in 0 .. Span(w) - 1
    BY <2>1
  <2>4. 0 % Span(w) = 0 /\ 0 \div Span(w) = 0
    BY <2>1, <2>2, <2>3, Remainder
  <2> QED
    BY <2>1, <2>4 DEF Low, Half
<1>3. Flag(low.c) \in {0, 1}
  BY DEF Flag
<1>4. low = Difference(w, Low(w, a), Low(w, 0), c)
  BY <1>1, <1>2, NegationDiffers
<1>5. high = Difference(w, Half(w, a), Half(w, 0), Flag(low.c))
  BY <1>1, <1>2, <1>3, NegationDiffers
<1>6. Negation(2 * w, a, c) = Difference(2 * w, a, 0, c)
  BY <1>1, NegationDiffers
<1> QED
  BY <1>2, <1>4, <1>5, <1>6, DifferenceChained

-----------------------------------------------------------------------------
(* The states of M68kArithmetic.                                           *)
Calculated == src \in Operands /\ dst \in Operands /\ x \in {0, 1}

(* The operands stay words, and the carry a bit.                           *)
LEMMA Calculating == Spec => []Calculated
<1>1. Init => Calculated
  BY DEF Init, Calculated
<1>2. Calculated /\ [Next]_vars => Calculated'
  BY DEF Calculated, Next, Pair, vars
<1> QED
  BY <1>1, <1>2, PTL DEF Spec

(* The longs that the properties calculate with are longs.                 *)
LEMMA Widened ==
    ASSUME Calculated, NEW v \in Values(Word)
    PROVE  Wide(v) \in Values(Long)
<1> DEFINE S == Span(Word)
<1>1. Word \in Width /\ S \in Nat /\ S > 0 /\ Span(Long) = S * S
  BY Spans DEF Width
<1>2. v \in Nat /\ v < S /\ dst \in Nat /\ dst < S /\ Low(Word, dst) = dst
  BY <1>1, OperandAssumption, SignBit DEF Calculated
<1>3. Low(Word, v * S) = 0
  <2> HIDE DEF S
  <2>1. v * S \in Int /\ v * S = v * S + 0 /\ 0 \in 0 .. S - 1
    BY <1>1, <1>2
  <2>2. (v * S) % S = 0
    BY <1>1, <1>2, <2>1, Remainder
  <2> QED
    BY <2>2 DEF Low, S
<1>4. Wide(v) = v * S + dst
  <2>1. Wide(v) = v * S - 0 + dst
    BY <1>2, <1>3 DEF Wide, Merge
  <2> HIDE DEF S
  <2>2. v * S \in Int
    BY <1>1, <1>2
  <2> QED
    BY <1>2, <2>1, <2>2
<1> HIDE DEF S
<1>5. dst \in 0 .. S - 1
  BY <1>1, <1>2
<1>6. v * S + dst < S * S
  BY <1>1, <1>2, <1>5, HalvesOrder
<1>7. v * S + dst \in Nat
  BY <1>1, <1>2
<1> QED
  BY <1>1, <1>4, <1>6, <1>7 DEF Values

(* What every state offers the operations.                                 *)
LEMMA Given ==
    ASSUME Calculated
    PROVE  /\ src \in Values(Word) /\ dst \in Values(Word) /\ x \in {0, 1}
           /\ x \in Values(Word)
           /\ Low(Byte, src) \in Values(Byte) /\ Low(Byte, dst) \in Values(Byte)
           /\ Wide(src) \in Values(Long) /\ Wide(dst) \in Values(Long)
           /\ Wide(x) \in Values(Long)
<1>1. src \in Values(Word) /\ dst \in Values(Word) /\ x \in {0, 1}
  BY OperandAssumption DEF Calculated
<1>2. x \in Values(Word)
  BY <1>1, Middles, Spans DEF Width, Values
<1>3. src \in Int /\ dst \in Int /\ Byte \in Width
  BY <1>1 DEF Width, Values
<1> QED
  BY <1>1, <1>2, <1>3, Near, Widened

(* CompareAgrees: after CMP each condition is the comparison of its name   *)
(* (m68kcpu.h COND_xx over VFLAG_SUB and CFLAG_SUB).                       *)
THEOREM Comparing == Spec => []CompareAgrees
<1>1. ASSUME Calculated PROVE CompareAgrees
  BY <1>1, Given, CompareHolds DEF CompareAgrees, Width
<1> QED
  BY <1>1, Calculating, PTL

(* ChainingAgrees: ADDX, SUBX and NEGX of two halves are those of the      *)
(* whole (m68kcpu.h VFLAG_ADD, VFLAG_SUB, CFLAG_ADD, CFLAG_SUB).           *)
THEOREM Chaining == Spec => []ChainingAgrees
<1>1. ASSUME Calculated PROVE ChainingAgrees
  <2>1. /\ Byte \in Narrow /\ Word \in Narrow /\ 2 * Byte = Word /\ 2 * Word = Long
        /\ Word \in Width /\ Long \in Width
    BY DEF Narrow, Byte, Word, Long, Width
  <2>2. ASSUME NEW w \in Narrow, NEW a \in Values(2 * w), NEW b \in Values(2 * w)
        PROVE  Chained(w, Sum, a, b) = Sum(2 * w, a, b, x)
    <3> DEFINE low == Sum(w, Low(w, a), Low(w, b), x)
               high == Sum(w, Half(w, a), Half(w, b), Flag(low.c))
    <3>1. Chained(w, Sum, a, b) = Joined(w, high, low)
      BY DEF Chained
    <3>2. x \in {0, 1}
      BY <1>1, Given
    <3> HIDE DEF low, high
    <3>3. Sum(2 * w, a, b, x) = Joined(w, high, low)
      BY <3>2, SumChained DEF low, high
    <3> QED
      BY <3>1, <3>3
  <2>3. ASSUME NEW w \in Narrow, NEW a \in Values(2 * w), NEW b \in Values(2 * w)
        PROVE  Chained(w, Difference, a, b) = Difference(2 * w, a, b, x)
    <3> DEFINE low == Difference(w, Low(w, a), Low(w, b), x)
               high == Difference(w, Half(w, a), Half(w, b), Flag(low.c))
    <3>1. Chained(w, Difference, a, b) = Joined(w, high, low)
      BY DEF Chained
    <3>2. x \in {0, 1}
      BY <1>1, Given
    <3> HIDE DEF low, high
    <3>3. Difference(2 * w, a, b, x) = Joined(w, high, low)
      BY <3>2, DifferenceChained DEF low, high
    <3> QED
      BY <3>1, <3>3
  <2>4. ASSUME NEW w \in Narrow, NEW v \in Values(2 * w)
        PROVE  /\ Chained(w, NegationOf, 0, v) = Negation(2 * w, v, x)
               /\ Negation(2 * w, v, x) = Difference(2 * w, v, 0, x)
    <3> DEFINE low == Negation(w, Low(w, v), x)
               high == Negation(w, Half(w, v), Flag(low.c))
    <3>1. Chained(w, NegationOf, 0, v) = Joined(w, high, low)
      BY DEF Chained, NegationOf
    <3>2. x \in {0, 1} /\ 2 * w \in Width
      BY <1>1, Given, Doubled
    <3> HIDE DEF low, high
    <3>3. Negation(2 * w, v, x) = Joined(w, high, low)
      BY <3>2, NegationChained DEF low, high
    <3> QED
      BY <3>1, <3>2, <3>3, NegationDiffers
  <2>5. /\ Chained(Byte, Sum, src, dst) = Sum(Word, src, dst, x)
        /\ Chained(Word, Sum, Wide(src), Wide(dst)) = Sum(Long, Wide(src), Wide(dst), x)
    BY <1>1, <2>1, <2>2, Given
  <2>6. /\ Chained(Byte, Difference, src, dst) = Difference(Word, src, dst, x)
        /\ Chained(Word, Difference, Wide(src), Wide(dst))
             = Difference(Long, Wide(src), Wide(dst), x)
    BY <1>1, <2>1, <2>3, Given
  <2>7. ASSUME NEW w \in {Byte, Word}, NEW v, v = IF w = Byte THEN dst ELSE Wide(src)
        PROVE  /\ Chained(w, NegationOf, 0, v) = Negation(2 * w, v, x)
               /\ Negation(2 * w, v, x) = Difference(2 * w, v, 0, x)
    <3>1. w \in Narrow /\ v \in Values(2 * w)
      BY <1>1, <2>1, <2>7, Given DEF Narrow
    <3> QED
      BY <2>4, <3>1
  <2>8. ASSUME NEW Op \in {"Sum", "Difference"}
        PROVE  LET Do(w, a, b, c) ==
                     IF Op = "Sum" THEN Sum(w, a, b, c) ELSE Difference(w, a, b, c)
               IN  /\ Chained(Byte, Do, src, dst) = Do(Word, src, dst, x)
                   /\ Chained(Word, Do, Wide(src), Wide(dst))
                        = Do(Long, Wide(src), Wide(dst), x)
    <3>1. CASE Op = "Sum"
      BY <2>5, <3>1 DEF Chained
    <3>2. CASE Op = "Difference"
      BY <2>6, <3>2 DEF Chained
    <3> QED
      BY <3>1, <3>2
  <2> QED
    BY <2>7, <2>8 DEF ChainingAgrees
<1> QED
  BY <1>1, Calculating, PTL

-----------------------------------------------------------------------------
(* What goes out at the top when v moves by k places, and what stays.      *)
LEMMA Shifted ==
    ASSUME NEW n \in Nat, NEW k \in 0 .. n, NEW v \in 0 .. 2 ^ n - 1
    PROVE  \E h \in 0 .. 2 ^ k - 1, l \in 0 .. 2 ^ (n - k) - 1 :
              /\ v = h * 2 ^ (n - k) + l
              /\ Top(n, v, k) = h /\ LeftBits(n, v, k) = l * 2 ^ k
              /\ LeftBits(n, v, k) \in 0 .. 2 ^ n - 1
<1> DEFINE P == 2 ^ k
           Q == 2 ^ (n - k)
<1>1. P \in Nat /\ Q \in Nat /\ P > 0 /\ Q > 0 /\ 2 ^ n = P * Q
  BY PowerSplit
<1>2. Top(n, v, k) = v \div Q /\ LeftBits(n, v, k) = (v % Q) * P
  BY DEF Top, LeftBits
<1> HIDE DEF P, Q
<1>3. v \div Q \in 0 .. P - 1 /\ v % Q \in 0 .. Q - 1 /\ v = (v \div Q) * Q + (v % Q)
  BY <1>1, Cut
<1>4. (v % Q) * P \in 0 .. P * Q - 1
  <2>1. PICK l \in 0 .. Q - 1 : v % Q = l
    BY <1>3
  <2>2. l * P + 0 \in 0 .. Q * P - 1
    BY <1>1, Composed
  <2>3. l * P + 0 = l * P /\ Q * P = P * Q
    BY <1>1
  <2> QED
    BY <2>1, <2>2, <2>3
<1> QED
  BY <1>1, <1>2, <1>3, <1>4 DEF P, Q

(* v has h in its upper k of n bits and l below them.                      *)
Made(n, k, v, h, l) ==
    /\ h \in 0 .. 2 ^ k - 1 /\ l \in 0 .. 2 ^ (n - k) - 1
    /\ v = h * 2 ^ (n - k) + l

(* Moving a number by the place at which it is made of two parts.          *)
LEMMA Parts ==
    ASSUME NEW n \in Nat, NEW k \in 0 .. n, NEW v, NEW h, NEW l, Made(n, k, v, h, l)
    PROVE  /\ v \in 0 .. 2 ^ n - 1
           /\ Top(n, v, k) = h /\ LeftBits(n, v, k) = l * 2 ^ k
           /\ Rotate(n, v, k) = l * 2 ^ k + h
<1> DEFINE P == 2 ^ k
           Q == 2 ^ (n - k)
<1>1. P \in Nat /\ Q \in Nat /\ P > 0 /\ Q > 0 /\ 2 ^ n = P * Q
  BY PowerSplit
<1>2. Top(n, v, k) = v \div Q /\ LeftBits(n, v, k) = (v % Q) * P
  BY DEF Top, LeftBits
<1>3. h \in 0 .. P - 1 /\ l \in 0 .. Q - 1 /\ v = h * Q + l
  BY DEF Made
<1> HIDE DEF P, Q
<1>4. v \in 0 .. P * Q - 1 /\ v \div Q = h /\ v % Q = l
  BY <1>1, <1>3, Composed
<1>5. Top(n, v, k) = h /\ LeftBits(n, v, k) = l * P
  BY <1>2, <1>4
<1> QED
  BY <1>1, <1>4, <1>5 DEF P, Q, Rotate

(* Turned by i and then by j, without going round.                         *)
LEMMA RotateOn ==
    ASSUME NEW M \in Nat, NEW i \in 0 .. M, NEW j \in 0 .. M - i, NEW v \in 0 .. 2 ^ M - 1
    PROVE  /\ Rotate(M, v, i) \in 0 .. 2 ^ M - 1
           /\ Rotate(M, Rotate(M, v, i), j) = Rotate(M, v, i + j)
<1> DEFINE X == 2 ^ i
           Y == 2 ^ j
           Z == 2 ^ (M - (i + j))
<1>1. /\ j \in 0 .. M /\ i + j \in 0 .. M /\ j \in 0 .. M - i /\ M - i \in Nat
      /\ i \in 0 .. i + j /\ i \in 0 .. M - j /\ M - j \in Nat /\ i + j \in Nat
      /\ M - i - j = M - (i + j) /\ i + j - i = j /\ M - j - i = M - (i + j)
  OBVIOUS
<1>2. X \in Nat /\ Y \in Nat /\ Z \in Nat /\ X > 0 /\ Y > 0 /\ Z > 0
  BY <1>1, PowerSplit
<1>3. 2 ^ (M - i) = Y * Z
  BY <1>1, PowerSplit
<1>4. 2 ^ (M - j) = X * Z
  BY <1>1, PowerSplit
<1>5. 2 ^ (i + j) = X * Y
  BY <1>1, PowerSplit
<1> HIDE DEF X, Y, Z
<1>6. PICK A \in 0 .. X - 1, l \in 0 .. Y * Z - 1 : v = A * (Y * Z) + l
  <2>1. \E h \in 0 .. 2 ^ i - 1, l \in 0 .. 2 ^ (M - i) - 1 : v = h * 2 ^ (M - i) + l
    BY Shifted
  <2> QED
    BY <2>1, <1>3 DEF X
<1>7. PICK B \in 0 .. Y - 1, C \in 0 .. Z - 1 : l = B * Z + C
  BY <1>2, Cut
<1>8. Rotate(M, v, i) \in 0 .. 2 ^ M - 1 /\ Rotate(M, v, i) = l * X + A
  <2>1. Made(M, i, v, A, l)
    BY <1>3, <1>6 DEF X, Made
  <2>2. Rotate(M, v, i) = l * X + A
    BY <2>1, Parts DEF X
  <2>3. 2 ^ M = (Y * Z) * X
    <3>1. 2 ^ M = 2 ^ i * 2 ^ (M - i)
      BY PowerSplit
    <3>2. X * (Y * Z) = (Y * Z) * X
      BY <1>2
    <3> QED
      BY <3>1, <3>2, <1>3 DEF X
  <2>4. Y * Z \in Nat /\ Y * Z > 0
    BY <1>2
  <2>5. l * X + A \in 0 .. (Y * Z) * X - 1
    BY <1>2, <2>4, Composed
  <2> QED
    BY <2>2, <2>3, <2>5
<1>9. C * X + A \in 0 .. X * Z - 1
  <2>1. C * X + A \in 0 .. Z * X - 1
    BY <1>2, Composed
  <2> QED
    BY <2>1, <1>2
<1>10. A * Y + B \in 0 .. X * Y - 1
  BY <1>2, Composed
<1>11. Rotate(M, Rotate(M, v, i), j) = (C * X + A) * Y + B
  <2>1. l * X + A = B * (X * Z) + (C * X + A)
    BY <1>2, <1>7
  <2> DEFINE low == C * X + A
  <2>2. low \in 0 .. 2 ^ (M - j) - 1 /\ B \in 0 .. 2 ^ j - 1
    BY <1>4, <1>9 DEF Y
  <2>3. Made(M, j, Rotate(M, v, i), B, low)
    BY <1>8, <1>4, <2>1, <2>2 DEF Made
  <2> HIDE DEF low
  <2>4. Rotate(M, Rotate(M, v, i), j) = low * 2 ^ j + B
    BY <1>1, <2>2, <2>3, Parts
  <2> QED
    BY <2>4 DEF low, Y
<1>12. Rotate(M, v, i + j) = C * (X * Y) + (A * Y + B)
  <2>1. v = (A * Y + B) * Z + C
    BY <1>2, <1>6, <1>7
  <2> DEFINE high == A * Y + B
  <2>2. high \in 0 .. 2 ^ (i + j) - 1 /\ C \in 0 .. 2 ^ (M - (i + j)) - 1
    BY <1>5, <1>10 DEF Z
  <2>3. Made(M, i + j, v, high, C)
    BY <2>1, <2>2 DEF Z, Made
  <2> HIDE DEF high
  <2>4. Rotate(M, v, i + j) = C * 2 ^ (i + j) + high
    BY <1>1, <2>2, <2>3, Parts
  <2> QED
    BY <2>4, <1>5 DEF high
<1>13. (C * X + A) * Y + B = C * (X * Y) + (A * Y + B)
  BY <1>2
<1> QED
  BY <1>8, <1>11, <1>12, <1>13

(* Not turned, and turned right round.                                     *)
LEMMA RotateRound ==
    ASSUME NEW M \in Nat, NEW v \in 0 .. 2 ^ M - 1
    PROVE  Rotate(M, v, 0) = v /\ Rotate(M, v, M) = v
<1>1. 0 \in 0 .. M /\ M \in 0 .. M /\ M - 0 = M /\ M - M = 0
  OBVIOUS
<1>2. 2 ^ M \in Nat /\ v \in Int
  BY <1>1, PowerSplit
<1>3. Rotate(M, v, 0) = v
  <2>1. ASSUME NEW q \in Nat, v < q PROVE v % q = v /\ v \div q = 0
    <3>1. v \in Nat
      BY <1>2
    <3> QED
      BY <2>1, <3>1
  <2>2. v % 2 ^ M = v /\ v \div 2 ^ M = 0
    BY <2>1, <1>2
  <2> QED
    BY <2>2, <1>1, <1>2, SmallPowers DEF Rotate, LeftBits, Top
<1>4. Rotate(M, v, M) = v
  <2>1. v % 1 = 0 /\ v \div 1 = v
    BY <1>2
  <2>2. 0 * 2 ^ M = 0
    BY <1>2
  <2> QED
    BY <2>1, <2>2, <1>1, <1>2, SmallPowers DEF Rotate, LeftBits, Top
<1> QED
  BY <1>3, <1>4

(* Rotations compose, modulo the bits that they go round.                  *)
LEMMA RotateAgain ==
    ASSUME NEW M \in Nat, NEW i \in 0 .. M - 1, NEW j \in 0 .. M - 1, NEW v \in 0 .. 2 ^ M - 1
    PROVE  Rotate(M, Rotate(M, v, i), j) = Rotate(M, v, (i + j) % M)
<1>1. CASE i + j < M
  <2>1. i \in 0 .. M /\ j \in 0 .. M - i /\ (i + j) % M = i + j
    BY <1>1
  <2> QED
    BY <2>1, RotateOn
<1>2. CASE i + j >= M
  <2> DEFINE m == i + j - M
             u == Rotate(M, v, i)
  <2>1. /\ i \in 0 .. M /\ M - i \in 0 .. M /\ M - i \in 0 .. M - i
        /\ i + (M - i) = M /\ m \in 0 .. M - (M - i) /\ (M - i) + m = j
    BY <1>2
  <2>2. (i + j) % M = m
    BY <1>2
  <2> HIDE DEF m
  <2>3. u \in 0 .. 2 ^ M - 1 /\ Rotate(M, u, M - i) = Rotate(M, v, M)
    BY <2>1, RotateOn
  <2> HIDE DEF u
  <2>4. Rotate(M, Rotate(M, u, M - i), m) = Rotate(M, u, (M - i) + m)
    BY <2>1, <2>3, RotateOn
  <2>5. Rotate(M, v, M) = v
    BY RotateRound
  <2> QED
    BY <2>1, <2>2, <2>3, <2>4, <2>5 DEF u
<1> QED
  BY <1>1, <1>2

(* v has b at bit i, h above it and l below.                               *)
HasBit(i, v, h, b, l) == v = (2 * h + b) * 2 ^ i + l

(* The bit that a number has.                                              *)
LEMMA BitMade ==
    ASSUME NEW i \in Nat, NEW h \in Int, NEW b \in {0, 1}, NEW l \in 0 .. 2 ^ i - 1,
           NEW v, HasBit(i, v, h, b, l)
    PROVE  BitOf(v, i) = b
<1> DEFINE q == 2 ^ i
<1>1. q \in Nat /\ q > 0 /\ l \in 0 .. q - 1 /\ v = (2 * h + b) * q + l
  BY Power DEF HasBit
<1>2. BitOf(v, i) = (v \div q) % 2
  BY DEF BitOf
<1> HIDE DEF q
<1>3. 2 * h + b \in Int /\ (2 * h + b) * q + l \in Int
  BY <1>1
<1>4. v \div q = 2 * h + b
  BY <1>1, <1>3, Remainder
<1>5. (2 * h + b) % 2 = b
  OBVIOUS
<1> QED
  BY <1>2, <1>4, <1>5

(* The bit below the upper k, which one more place takes.                  *)
LEMMA BitBelow ==
    ASSUME NEW n \in Nat, NEW k \in 0 .. n - 1, NEW v \in 0 .. 2 ^ n - 1
    PROVE  \E h \in 0 .. 2 ^ k - 1, b \in {0, 1}, l \in 0 .. 2 ^ (n - k - 1) - 1 :
              /\ HasBit(n - k - 1, v, h, b, l)
              /\ Made(n, k, v, h, b * 2 ^ (n - k - 1) + l)
              /\ Made(n, k + 1, v, 2 * h + b, l)
              /\ BitOf(v, n - k - 1) = b
<1> DEFINE i == n - k - 1
           q == 2 ^ i
           K == 2 ^ k
<1>1. /\ k \in 0 .. n /\ k + 1 \in Nat /\ i \in Nat /\ n - k = 1 + i /\ n - (k + 1) = i
      /\ 1 \in Nat /\ k \in Nat /\ n - k \in Nat
  OBVIOUS
<1>2. K \in Nat /\ K > 0 /\ q \in Nat /\ q > 0
  BY <1>1, Power
<1>3. 2 ^ (n - k) = 2 * q
  BY <1>1, PowerOfSum, SmallPowers
<1>4. 2 ^ (k + 1) = 2 * K
  <2>1. 2 ^ (k + 1) = K * 2
    BY <1>1, PowerOfSum, SmallPowers
  <2> QED
    BY <2>1, <1>2
<1>5. PICK h \in 0 .. K - 1, r \in 0 .. 2 * q - 1 : v = h * (2 * q) + r
  <2>1. \E h \in 0 .. 2 ^ k - 1, r \in 0 .. 2 ^ (n - k) - 1 : v = h * 2 ^ (n - k) + r
    BY <1>1, Shifted
  <2> QED
    BY <2>1, <1>3
<1>6. PICK b \in {0, 1}, l \in 0 .. q - 1 : r = b * q + l
  <2> HIDE DEF q
  <2>1. CASE r < q
    <3>1. r = 0 * q + r /\ r \in 0 .. q - 1
      BY <1>2, <2>1
    <3> QED
      BY <3>1
  <2>2. CASE r >= q
    <3>1. r = 1 * q + (r - q) /\ r - q \in 0 .. q - 1
      BY <1>2, <2>2
    <3> QED
      BY <3>1
  <2> QED
    BY <2>1, <2>2, <1>2
<1>7. v = (2 * h + b) * q + l
  <2> HIDE DEF q, K
  <2> QED
    BY <1>2, <1>5, <1>6
<1>8. HasBit(i, v, h, b, l)
  BY <1>7 DEF HasBit
<1>9. Made(n, k, v, h, b * q + l)
  <2>1. r \in 0 .. 2 ^ (n - k) - 1 /\ v = h * 2 ^ (n - k) + r
    BY <1>3, <1>5
  <2> QED
    BY <2>1, <1>6 DEF Made
<1>10. Made(n, k + 1, v, 2 * h + b, l)
  <2>1. 2 * h + b \in 0 .. 2 * K - 1
    <3> HIDE DEF K
    <3> QED
      BY <1>2
  <2>2. 2 * h + b \in 0 .. 2 ^ (k + 1) - 1 /\ l \in 0 .. 2 ^ (n - (k + 1)) - 1
    BY <2>1, <1>4, <1>1
  <2> QED
    BY <2>2, <1>7, <1>1 DEF Made
<1>11. BitOf(v, i) = b
  BY <1>8, <1>1, BitMade
<1> QED
  BY <1>8, <1>9, <1>10, <1>11

(* What one more place sees of a number moved or turned by k.              *)
LEMMA Moved ==
    ASSUME NEW n \in Nat, NEW k \in 0 .. n - 1, NEW v \in 0 .. 2 ^ n - 1
    PROVE  /\ LeftBits(n, v, k) \in 0 .. 2 ^ n - 1
           /\ LeftBits(n, LeftBits(n, v, k), 1) = LeftBits(n, v, k + 1)
           /\ BitOf(LeftBits(n, v, k), n - 1) = BitOf(v, n - k - 1)
           /\ BitOf(Rotate(n, v, k), n - 1) = BitOf(v, n - k - 1)
<1> DEFINE i == n - k - 1
           q == 2 ^ i
           K == 2 ^ k
           u == LeftBits(n, v, k)
<1>1. /\ k \in 0 .. n /\ k + 1 \in 0 .. n /\ k + 1 \in Nat /\ i \in Nat
      /\ 1 \in Nat /\ k \in Nat /\ n - 1 = k + i /\ n - 1 \in Nat /\ 1 \in 0 .. n
  OBVIOUS
<1>2. K \in Nat /\ K > 0 /\ q \in Nat /\ q > 0
  BY <1>1, Power
<1>3. 2 ^ (n - 1) = K * q
  BY <1>1, PowerOfSum
<1>4. 2 ^ (k + 1) = K * 2
  BY <1>1, PowerOfSum, SmallPowers
<1>5. PICK h \in 0 .. K - 1, b \in {0, 1}, l \in 0 .. q - 1 :
         /\ Made(n, k, v, h, b * q + l)
         /\ Made(n, k + 1, v, 2 * h + b, l)
         /\ BitOf(v, i) = b
  BY BitBelow
<1>6. u = (b * q + l) * K /\ Rotate(n, v, k) = (b * q + l) * K + h
  BY <1>1, <1>5, Parts
<1>7. LeftBits(n, v, k + 1) = l * (K * 2)
  BY <1>1, <1>4, <1>5, Parts
<1>8. u \in 0 .. 2 ^ n - 1
  BY <1>1, Shifted
<1> HIDE DEF q, K, u
<1>9. \A m \in 0 .. K - 1 : l * K + m \in 0 .. K * q - 1
  <2>1. \A m \in 0 .. K - 1 : l * K + m \in 0 .. q * K - 1
    BY <1>2, Composed
  <2> QED
    BY <2>1, <1>2
<1>10. ASSUME NEW m \in 0 .. K - 1 PROVE BitOf((b * q + l) * K + m, n - 1) = b
  <2>1. (b * q + l) * K + m = (2 * 0 + b) * (K * q) + (l * K + m)
    BY <1>2
  <2> DEFINE w == (b * q + l) * K + m
             z == l * K + m
  <2>2. z \in 0 .. 2 ^ (n - 1) - 1
    BY <1>3, <1>9
  <2>3. HasBit(n - 1, w, 0, b, z)
    BY <2>1, <1>3 DEF HasBit
  <2> HIDE DEF w, z
  <2>4. BitOf(w, n - 1) = b
    BY <1>1, <2>2, <2>3, BitMade
  <2> QED
    BY <2>4 DEF w
<1>11. BitOf(u, n - 1) = b
  <2>1. 0 \in 0 .. K - 1 /\ (b * q + l) * K + 0 = (b * q + l) * K
    BY <1>2
  <2> QED
    BY <2>1, <1>6, <1>10
<1>12. BitOf(Rotate(n, v, k), n - 1) = b
  BY <1>6, <1>10
<1>13. LeftBits(n, u, 1) = l * (K * 2)
  <2> DEFINE z == l * K
  <2>1. z + 0 \in 0 .. K * q - 1 /\ z + 0 = z
    BY <1>2, <1>9
  <2>2. u = b * (K * q) + z
    BY <1>2, <1>6
  <2>3. Made(n, 1, u, b, z)
    BY <2>1, <2>2, <1>3, SmallPowers DEF Made
  <2>4. z * 2 = l * (K * 2)
    BY <1>2
  <2>5. z \in Int
    BY <2>1
  <2> HIDE DEF z
  <2>6. ASSUME NEW j \in 0 .. n, Made(n, j, u, b, z) PROVE LeftBits(n, u, j) = z * 2 ^ j
    BY <2>6, Parts
  <2>7. LeftBits(n, u, 1) = z * 2 ^ 1
    BY <1>1, <2>3, <2>6
  <2> QED
    BY <2>4, <2>7, SmallPowers
<1> QED
  BY <1>5, <1>7, <1>8, <1>11, <1>12, <1>13 DEF u

-----------------------------------------------------------------------------
(* The values of a width are a power of two.                               *)
LEMMA Powers ==
    ASSUME NEW w \in Narrow
    PROVE  /\ Bits(w) \in Nat /\ Bits(w) >= 6
           /\ Span(w) = 2 ^ Bits(w) /\ Values(w) = 0 .. 2 ^ Bits(w) - 1
<1>1. ByteBits \in Nat /\ ByteBits >= 6 /\ Radix = 2 ^ ByteBits
  BY WidthAssumption
<1>2. Bits(Byte) = ByteBits /\ Bits(Word) = ByteBits + ByteBits
  BY <1>1 DEF Bits, Byte, Word
<1>3. Span(Word) = 2 ^ (ByteBits + ByteBits)
  BY <1>1, Spans, PowerOfSum
<1>4. Span(Byte) = 2 ^ ByteBits
  BY <1>1, Spans
<1> QED
  BY <1>1, <1>2, <1>3, <1>4 DEF Narrow, Values

(* f is the outcome r with overflow v and carry c.                         *)
Result(w, f, r, v, c) == v \in BOOLEAN /\ c \in BOOLEAN /\ f = Outcome(w, r, v, c)
(* What ShiftsCompose asks of a movement, the one before it and one place  *)
(* more.                                                                   *)
Follows(f, once, g) == f = [g EXCEPT !.v = @ \/ once.v]

(* The parts of a result.                                                  *)
LEMMA ResultParts ==
    ASSUME NEW w, NEW f, NEW r, NEW v, NEW c, Result(w, f, r, v, c)
    PROVE  f.r = r /\ f.c = c /\ f.v = v
BY DEF Result, Outcome

(* Moving again has the same result and carry, and V is or-ed.             *)
LEMMA ResultsFollow ==
    ASSUME NEW w, NEW f, NEW once, NEW g, NEW r, NEW v, NEW c, NEW s, NEW p, NEW d, NEW q,
           Result(w, f, r, v, c), Result(w, once, s, p, d), Result(w, g, r, q, c),
           v <=> (p \/ q)
    PROVE  Follows(f, once, g)
<1>1. once.v = p /\ g.v = q
  BY ResultParts
<1>2. f = Outcome(w, r, v, c) /\ g = Outcome(w, r, q, c)
  BY DEF Result
<1>3. v \in BOOLEAN /\ p \in BOOLEAN /\ q \in BOOLEAN
  BY DEF Result
<1>4. (q \/ p) = v
  BY <1>3, Zenon
<1>5. ASSUME NEW o PROVE [g EXCEPT !.v = o] = Outcome(w, r, o, c)
  BY <1>2 DEF Outcome
<1>6. [g EXCEPT !.v = g.v \/ once.v] = Outcome(w, r, g.v \/ once.v, c)
  BY <1>5
<1>7. (g.v \/ once.v) = v
  BY <1>1, <1>4
<1> QED
  BY <1>2, <1>6, <1>7 DEF Follows

(* Zero stays zero.                                                        *)
LEMMA BitsOfZero ==
    ASSUME NEW n \in Nat, n > 0, NEW i \in 0 .. n
    PROVE  BitOf(0, i) = 0 /\ LeftBits(n, 0, 1) = 0 /\ 0 \in 0 .. 2 ^ n - 1
<1>1. n - 1 \in Nat /\ i \in Nat /\ 1 \in Nat
  OBVIOUS
<1>2. ASSUME NEW q \in Nat, q > 0 PROVE 0 \div q = 0 /\ 0 % q = 0
  BY <1>2
<1>3. 0 \div 2 ^ i = 0
  BY <1>1, <1>2, Power
<1>4. 0 % 2 ^ (n - 1) = 0
  BY <1>1, <1>2, Power
<1>5. 0 \in 0 .. 2 ^ n - 1
  BY Power
<1>6. BitOf(0, i) = 0
  BY <1>3, 0 % 2 = 0 DEF BitOf
<1>7. LeftBits(n, 0, 1) = 0
  <2>1. LeftBits(n, 0, 1) = 0 * 2 ^ 1
    BY <1>4 DEF LeftBits
  <2> QED
    BY <2>1, SmallPowers
<1> QED
  BY <1>5, <1>6, <1>7

(* Bit 0.                                                                  *)
LEMMA LowestBit ==
    ASSUME NEW v \in Int
    PROVE  BitOf(v, 0) = v % 2
BY SmallPowers DEF BitOf

(* What LSL leaves,                                                        *)
LEMMA LslLeaves ==
    ASSUME NEW w \in Narrow, NEW v, NEW k \in Nat, NEW y
    PROVE  /\ k <= Bits(w) =>
                 Result(w, Lsl(w, k, v, y), LeftBits(Bits(w), v, k), FALSE, BitOf(v, Bits(w) - k) = 1)
           /\ k > Bits(w) => Result(w, Lsl(w, k, v, y), 0, FALSE, FALSE)
<1>1. CASE k <= Bits(w)
  <2>1. Lsl(w, k, v, y)
           = Outcome(w, LeftBits(Bits(w), v, k), FALSE, BitOf(v, Bits(w) - k) = 1)
    BY <1>1 DEF Lsl
  <2>2. (BitOf(v, Bits(w) - k) = 1) \in BOOLEAN
    OBVIOUS
  <2>3. ~ k > Bits(w)
    BY <1>1, Powers
  <2> QED
    BY <2>1, <2>2, <2>3, Zenon DEF Result
<1>2. CASE k > Bits(w)
  <2>1. ~ k <= Bits(w)
    BY <1>2, Powers
  <2>2. Lsl(w, k, v, y) = Outcome(w, 0, FALSE, FALSE)
    BY <2>1 DEF Lsl, Plain
  <2> QED
    BY <2>1, <2>2 DEF Result
<1> QED
  BY <1>1, <1>2, Powers

(* and LSL once more; by more than the width it leaves C and X clear.      *)
LEMMA LslAgain ==
    ASSUME NEW w \in Narrow, NEW v \in Values(w), NEW k \in Steps(w),
           NEW y, NEW z, NEW once, once = Lsl(w, k, v, y)
    PROVE  Follows(Lsl(w, k + 1, v, y), once, Lsl(w, 1, once.r, z))
<1> DEFINE n == Bits(w)
<1>1. /\ n \in Nat /\ n >= 6 /\ v \in 0 .. 2 ^ n - 1
      /\ k \in Nat /\ k + 1 \in Nat /\ k > 0 /\ 1 \in Nat
  BY Powers DEF Steps
<1>2. CASE k + 1 <= n
  <2> DEFINE u == LeftBits(n, v, k)
             c == BitOf(v, n - k) = 1
             d == BitOf(v, n - (k + 1)) = 1
             e == BitOf(u, n - 1) = 1
  <2>1. k \in 0 .. n - 1 /\ k <= n /\ n - k - 1 = n - (k + 1) /\ 1 <= n
    BY <1>1, <1>2
  <2>2. Result(w, once, u, FALSE, c)
    BY <1>1, <2>1, LslLeaves
  <2>3. Result(w, Lsl(w, k + 1, v, y), LeftBits(n, v, k + 1), FALSE, d)
    BY <1>1, <1>2, LslLeaves
  <2>4. Result(w, Lsl(w, 1, u, z), LeftBits(n, u, 1), FALSE, e)
    BY <1>1, <2>1, LslLeaves
  <2>5. LeftBits(n, u, 1) = LeftBits(n, v, k + 1) /\ (e <=> d)
    <3>1. /\ LeftBits(n, u, 1) = LeftBits(n, v, k + 1)
          /\ BitOf(u, n - 1) = BitOf(v, n - k - 1)
      BY <1>1, <2>1, Moved
    <3> QED
      BY <2>1, <3>1
  <2> HIDE DEF n, u, c, d, e
  <2>6. once.r = u
    BY <2>2, ResultParts
  <2>7. Result(w, Lsl(w, 1, u, z), LeftBits(n, v, k + 1), FALSE, d)
    BY <2>3, <2>4, <2>5 DEF Result
  <2> QED
    BY <2>2, <2>3, <2>6, <2>7, ResultsFollow
<1>3. CASE k + 1 > n
  <2> DEFINE c == BitOf(v, n - k) = 1
             e == BitOf(0, n - 1) = 1
  <2>1. once.r = 0 /\ \E d : Result(w, once, 0, FALSE, d)
    <3>1. CASE k = n
      <4>1. LeftBits(n, v, k) = 0
        <5>1. n - k = 0 /\ v % 1 = 0 /\ v \in Int
          BY <1>1, <3>1
        <5>2. 2 ^ k \in Nat /\ 2 ^ 0 = 1
          BY <1>1, Power, SmallPowers
        <5>3. (v % 2 ^ (n - k)) = 0
          BY <5>1, <5>2
        <5> QED
          BY <5>2, <5>3 DEF LeftBits
      <4>2. k <= n
        BY <1>1, <3>1
      <4>3. Result(w, once, LeftBits(n, v, k), FALSE, c)
        BY <1>1, <4>2, LslLeaves
      <4> HIDE DEF c
      <4> QED
        BY <4>1, <4>3, ResultParts
    <3>2. CASE k > n
      <4>1. Result(w, once, 0, FALSE, FALSE)
        BY <1>1, <3>2, LslLeaves
      <4>2. once.r = 0
        BY <4>1, ResultParts
      <4> QED
        BY <4>1, <4>2, Zenon
    <3>3. k = n \/ k > n
      BY <1>1, <1>3
    <3> QED
      BY <3>1, <3>2, <3>3, Zenon
  <2>2. Result(w, Lsl(w, k + 1, v, y), 0, FALSE, FALSE)
    BY <1>1, <1>3, LslLeaves
  <2>3. Result(w, Lsl(w, 1, 0, z), LeftBits(n, 0, 1), FALSE, e)
    <3>1. 1 <= n
      BY <1>1
    <3> QED
      BY <1>1, <3>1, LslLeaves
  <2>4. LeftBits(n, 0, 1) = 0 /\ ~ e
    <3>1. n > 0 /\ n - 1 \in 0 .. n
      BY <1>1
    <3> QED
      BY <1>1, <3>1, BitsOfZero
  <2> HIDE DEF n, e
  <2>5. Result(w, Lsl(w, 1, 0, z), 0, FALSE, FALSE)
    BY <2>3, <2>4 DEF Result
  <2> QED
    BY <2>1, <2>2, <2>5, ResultsFollow
<1> QED
  BY <1>1, <1>2, <1>3

(* To the right by k places and then by one.                               *)
LEMMA DivideAgain ==
    ASSUME NEW v \in Int, NEW k \in Nat
    PROVE  /\ v \div 2 ^ k \in Int
           /\ (v \div 2 ^ k) \div 2 ^ 1 = v \div 2 ^ (k + 1)
           /\ BitOf(v \div 2 ^ k, 0) = BitOf(v, k)
<1> DEFINE q == 2 ^ k
           h == v \div q
           l == v % q
           g == h \div 2
           b == h % 2
<1>1. q \in Nat /\ q > 0
  BY Power
<1>2. 2 ^ (k + 1) = q * 2
  BY PowerOfSum, SmallPowers
<1> HIDE DEF q
<1>3. h \in Int /\ l \in 0 .. q - 1 /\ v = h * q + l
  BY <1>1, DivisionAlgorithm
<1> HIDE DEF h, l
<1>4. g \in Int /\ b \in {0, 1} /\ h = g * 2 + b
  BY <1>3
<1> HIDE DEF g, b
<1>5. v = g * (q * 2) + (b * q + l)
  BY <1>1, <1>3, <1>4
<1>6. b * q + l \in 0 .. q * 2 - 1
  BY <1>1, <1>3, <1>4
<1>7. q * 2 \in Nat /\ q * 2 > 0
  BY <1>1
<1> DEFINE S == q * 2
           r == b * q + l
<1>8. v \div S = g
  <2> HIDE DEF S, r
  <2>1. S \in Nat /\ S > 0 /\ r \in 0 .. S - 1 /\ v = g * S + r
    BY <1>5, <1>6, <1>7 DEF S, r
  <2> QED
    BY <2>1, <1>4, Remainder
<1>9. BitOf(h, 0) = h % 2
  BY <1>3, LowestBit
<1>10. BitOf(v, k) = h % 2
  BY DEF BitOf, q, h
<1> QED
  BY <1>2, <1>3, <1>8, <1>9, <1>10, SmallPowers DEF q, h, g

(* What LSR leaves,                                                        *)
LEMMA LsrLeaves ==
    ASSUME NEW w \in Narrow, NEW v, NEW k \in Nat, NEW y
    PROVE  /\ k <= Bits(w) =>
                 Result(w, Lsr(w, k, v, y), v \div 2 ^ k, FALSE, BitOf(v, k - 1) = 1)
           /\ k > Bits(w) => Result(w, Lsr(w, k, v, y), 0, FALSE, FALSE)
<1>1. CASE k <= Bits(w)
  <2>1. Lsr(w, k, v, y) = Outcome(w, v \div 2 ^ k, FALSE, BitOf(v, k - 1) = 1)
    BY <1>1 DEF Lsr
  <2>2. (BitOf(v, k - 1) = 1) \in BOOLEAN
    OBVIOUS
  <2>3. ~ k > Bits(w)
    BY <1>1, Powers
  <2> QED
    BY <2>1, <2>2, <2>3, Zenon DEF Result
<1>2. CASE k > Bits(w)
  <2>1. ~ k <= Bits(w)
    BY <1>2, Powers
  <2>2. Lsr(w, k, v, y) = Outcome(w, 0, FALSE, FALSE)
    BY <2>1 DEF Lsr, Plain
  <2> QED
    BY <2>1, <2>2 DEF Result
<1> QED
  BY <1>1, <1>2, Powers

(* and LSR once more.                                                      *)
LEMMA LsrAgain ==
    ASSUME NEW w \in Narrow, NEW v \in Values(w), NEW k \in Steps(w),
           NEW y, NEW z, NEW once, once = Lsr(w, k, v, y)
    PROVE  Follows(Lsr(w, k + 1, v, y), once, Lsr(w, 1, once.r, z))
<1> DEFINE n == Bits(w)
<1>1. /\ n \in Nat /\ n >= 6 /\ v \in 0 .. 2 ^ n - 1 /\ v \in Int
      /\ k \in Nat /\ k + 1 \in Nat /\ k > 0 /\ 1 \in Nat /\ 1 <= n
  <2>1. n \in Nat /\ n >= 6 /\ v \in 0 .. 2 ^ n - 1
    BY Powers
  <2> QED
    BY <2>1 DEF Steps
<1>2. CASE k + 1 <= n
  <2> DEFINE u == v \div 2 ^ k
             c == BitOf(v, k - 1) = 1
             d == BitOf(v, (k + 1) - 1) = 1
             e == BitOf(u, 1 - 1) = 1
  <2>1. k <= n /\ (k + 1) - 1 = k /\ 1 - 1 = 0
    BY <1>1, <1>2
  <2>2. Result(w, once, u, FALSE, c)
    BY <1>1, <2>1, LsrLeaves
  <2>3. Result(w, Lsr(w, k + 1, v, y), v \div 2 ^ (k + 1), FALSE, d)
    BY <1>1, <1>2, LsrLeaves
  <2>4. Result(w, Lsr(w, 1, u, z), u \div 2 ^ 1, FALSE, e)
    BY <1>1, LsrLeaves
  <2>5. u \div 2 ^ 1 = v \div 2 ^ (k + 1) /\ (e <=> d)
    <3>1. u \div 2 ^ 1 = v \div 2 ^ (k + 1) /\ BitOf(u, 0) = BitOf(v, k)
      BY <1>1, DivideAgain
    <3> QED
      BY <2>1, <3>1
  <2> HIDE DEF n, u, c, d, e
  <2>6. once.r = u
    BY <2>2, ResultParts
  <2>7. Result(w, Lsr(w, 1, u, z), v \div 2 ^ (k + 1), FALSE, d)
    BY <2>3, <2>4, <2>5 DEF Result
  <2> QED
    BY <2>2, <2>3, <2>6, <2>7, ResultsFollow
<1>3. CASE k + 1 > n
  <2> DEFINE c == BitOf(v, k - 1) = 1
             e == BitOf(0, 1 - 1) = 1
  <2>1. once.r = 0 /\ \E d : Result(w, once, 0, FALSE, d)
    <3>1. CASE k = n
      <4>1. v \div 2 ^ k = 0
        <5>1. ASSUME NEW q \in Nat, v \in Nat, v < q PROVE v \div q = 0
          BY <5>1
        <5>2. 2 ^ k \in Nat /\ 2 ^ n = 2 ^ k
          BY <1>1, <3>1, Power
        <5>3. v \in Nat /\ v < 2 ^ k
          BY <1>1, <5>2
        <5> QED
          BY <5>1, <5>2, <5>3
      <4>2. k <= n
        BY <1>1, <3>1
      <4>3. Result(w, once, v \div 2 ^ k, FALSE, c)
        BY <1>1, <4>2, LsrLeaves
      <4> HIDE DEF c
      <4> QED
        BY <4>1, <4>3, ResultParts
    <3>2. CASE k > n
      <4>1. Result(w, once, 0, FALSE, FALSE)
        BY <1>1, <3>2, LsrLeaves
      <4>2. once.r = 0
        BY <4>1, ResultParts
      <4> QED
        BY <4>1, <4>2, Zenon
    <3>3. k = n \/ k > n
      BY <1>1, <1>3
    <3> QED
      BY <3>1, <3>2, <3>3, Zenon
  <2>2. Result(w, Lsr(w, k + 1, v, y), 0, FALSE, FALSE)
    BY <1>1, <1>3, LsrLeaves
  <2>3. Result(w, Lsr(w, 1, 0, z), 0 \div 2 ^ 1, FALSE, e)
    BY <1>1, LsrLeaves
  <2>4. 0 \div 2 ^ 1 = 0 /\ ~ e
    <3>1. n > 0 /\ 1 - 1 \in 0 .. n
      BY <1>1
    <3>2. BitOf(0, 1 - 1) = 0
      BY <1>1, <3>1, BitsOfZero
    <3>3. 0 \div 2 = 0
      OBVIOUS
    <3> QED
      BY <3>2, <3>3, SmallPowers
  <2> HIDE DEF n, e
  <2>5. Result(w, Lsr(w, 1, 0, z), 0, FALSE, FALSE)
    BY <2>3, <2>4 DEF Result
  <2> QED
    BY <2>1, <2>2, <2>5, ResultsFollow
<1> QED
  BY <1>1, <1>2, <1>3

-----------------------------------------------------------------------------
(* How far a rotation goes, and how far its opposite.                      *)
LEMMA Opposites ==
    ASSUME NEW M \in Nat, M > 1, NEW k \in Nat
    PROVE  /\ k % M \in 0 .. M - 1 /\ Opposite(M, k) \in 0 .. M - 1
           /\ 1 % M = 1 /\ Opposite(M, 1) = M - 1
           /\ ((k % M) + 1) % M = (k + 1) % M
           /\ (Opposite(M, k) + (M - 1)) % M = Opposite(M, k + 1)
           /\ ((k % M) + Opposite(M, k)) % M = 0
<1> DEFINE a == k \div M
           m == k % M
<1>1. a \in Int /\ m \in 0 .. M - 1 /\ k = a * M + m
  BY DivisionAlgorithm
<1>2. Opposite(M, k) = (M - m) % M
  BY DEF Opposite
<1> HIDE DEF a, m
<1>3. (M - m) % M = IF m = 0 THEN 0 ELSE M - m
  BY <1>1
<1>4. 1 % M = 1
  OBVIOUS
<1>5. Opposite(M, 1) = M - 1
  BY <1>4 DEF Opposite
<1>6. (k + 1) % M = IF m + 1 = M THEN 0 ELSE m + 1
  <2>1. CASE m + 1 = M
    <3>1. k + 1 = (a + 1) * M + 0
      BY <1>1, <2>1
    <3>2. k + 1 \in Int /\ a + 1 \in Int /\ 0 \in 0 .. M - 1
      BY <1>1
    <3> QED
      BY <3>1, <3>2, <2>1, Remainder
  <2>2. CASE m + 1 # M
    <3>1. k + 1 = a * M + (m + 1)
      BY <1>1
    <3>2. k + 1 \in Int /\ m + 1 \in 0 .. M - 1
      BY <1>1, <2>2
    <3> QED
      BY <1>1, <3>1, <3>2, <2>2, Remainder
  <2> QED
    BY <2>1, <2>2
<1>7. (m + 1) % M = (k + 1) % M
  BY <1>1, <1>6
<1>8. Opposite(M, k + 1) = (M - ((k + 1) % M)) % M
  BY DEF Opposite
<1>9. Opposite(M, k + 1) = IF m + 1 = M THEN 0 ELSE M - (m + 1)
  BY <1>1, <1>6, <1>8
<1>10. (Opposite(M, k) + (M - 1)) % M = Opposite(M, k + 1)
  <2>1. CASE m = 0
    BY <2>1, <1>1, <1>2, <1>3, <1>9
  <2>2. CASE m # 0
    BY <2>2, <1>1, <1>2, <1>3, <1>9
  <2> QED
    BY <2>1, <2>2
<1>11. (m + Opposite(M, k)) % M = 0
  BY <1>1, <1>2, <1>3
<1> QED
  BY <1>1, <1>2, <1>3, <1>4, <1>5, <1>7, <1>10, <1>11 DEF m

(* Rotations to the left and to the right once more, and one undone.       *)
LEMMA Turns ==
    ASSUME NEW M \in Nat, M > 1, NEW k \in Nat, NEW v \in 0 .. 2 ^ M - 1
    PROVE  /\ Rotate(M, v, k % M) \in 0 .. 2 ^ M - 1
           /\ Rotate(M, v, Opposite(M, k)) \in 0 .. 2 ^ M - 1
           /\ Rotate(M, Rotate(M, v, k % M), 1 % M) = Rotate(M, v, (k + 1) % M)
           /\ Rotate(M, Rotate(M, v, Opposite(M, k)), Opposite(M, 1))
                 = Rotate(M, v, Opposite(M, k + 1))
           /\ Rotate(M, Rotate(M, v, k % M), Opposite(M, k)) = v
<1> DEFINE m == k % M
           o == Opposite(M, k)
<1>1. /\ m \in 0 .. M - 1 /\ o \in 0 .. M - 1
      /\ 1 % M = 1 /\ Opposite(M, 1) = M - 1
      /\ (m + 1) % M = (k + 1) % M
      /\ (o + (M - 1)) % M = Opposite(M, k + 1)
      /\ (m + o) % M = 0
  BY Opposites
<1> HIDE DEF m, o
<1>2. 1 \in 0 .. M - 1 /\ M - 1 \in 0 .. M - 1 /\ m \in 0 .. M /\ o \in 0 .. M
  BY <1>1
<1>3. \A i \in 0 .. M : Rotate(M, v, i) \in 0 .. 2 ^ M - 1
  <2>1. \A i \in 0 .. M : 0 \in 0 .. M - i
    OBVIOUS
  <2> QED
    BY <2>1, RotateOn
<1>4. Rotate(M, Rotate(M, v, m), 1) = Rotate(M, v, (m + 1) % M)
  BY <1>1, <1>2, RotateAgain
<1>5. Rotate(M, Rotate(M, v, o), M - 1) = Rotate(M, v, (o + (M - 1)) % M)
  BY <1>1, <1>2, RotateAgain
<1>6. Rotate(M, Rotate(M, v, m), o) = Rotate(M, v, (m + o) % M)
  BY <1>1, RotateAgain
<1>7. Rotate(M, v, 0) = v
  BY RotateRound
<1> QED
  BY <1>1, <1>2, <1>3, <1>4, <1>5, <1>6, <1>7 DEF m, o

(* The lowest bit of a number turned left is the bit moved last.           *)
LEMMA LastToLeft ==
    ASSUME NEW n \in Nat, n > 0, NEW j \in 0 .. n - 1, NEW v \in 0 .. 2 ^ n - 1
    PROVE  IF j = 0 THEN v % 2 = Rotate(n, v, j) % 2
                    ELSE BitOf(v, n - j) = Rotate(n, v, j) % 2
<1>1. CASE j = 0
  BY <1>1, RotateRound
<1>2. CASE j # 0
  <2> DEFINE i == j - 1
             K == 2 ^ i
  <2>1. /\ i \in Nat /\ i + 1 = j /\ j \in 0 .. n /\ n - j \in Nat /\ 1 \in Nat
        /\ j \in Nat
    BY <1>2
  <2> HIDE DEF i
  <2>2. 2 ^ j = K * 2 /\ K \in Nat
    <3>1. 2 ^ (i + 1) = 2 ^ i * 2 ^ 1
      BY <2>1, PowerOfSum
    <3> QED
      BY <3>1, <2>1, SmallPowers, Power
  <2>3. PICK h \in 0 .. 2 ^ j - 1, l \in 0 .. 2 ^ (n - j) - 1 :
           Top(n, v, j) = h /\ LeftBits(n, v, j) = l * 2 ^ j
    <3>1. \E h \in 0 .. 2 ^ j - 1, l \in 0 .. 2 ^ (n - j) - 1 :
              /\ v = h * 2 ^ (n - j) + l
              /\ Top(n, v, j) = h /\ LeftBits(n, v, j) = l * 2 ^ j
              /\ LeftBits(n, v, j) \in 0 .. 2 ^ n - 1
      BY <2>1, Shifted
    <3> QED
      BY <3>1
  <2> HIDE DEF K
  <2>4. l \in Int /\ h \in Int
    OBVIOUS
  <2>5. Rotate(n, v, j) = l * (K * 2) + h
    BY <2>2, <2>3 DEF Rotate
  <2>6. l * (K * 2) = 2 * (l * K) /\ l * K \in Int
    BY <2>2, <2>4
  <2>7. Rotate(n, v, j) % 2 = h % 2
    BY <2>4, <2>5, <2>6
  <2>8. BitOf(v, n - j) = h % 2
    BY <2>3 DEF BitOf, Top
  <2> QED
    BY <2>7, <2>8, <1>2
<1> QED
  BY <1>1, <1>2

(* The highest bit of one turned right is the bit moved last.              *)
LEMMA LastToRight ==
    ASSUME NEW n \in Nat, n > 1, NEW k \in Nat, k > 0, NEW v \in 0 .. 2 ^ n - 1
    PROVE  BitOf(v, (k - 1) % n) = BitOf(Rotate(n, v, Opposite(n, k)), n - 1)
<1> DEFINE j == Opposite(n, k)
           i == (k - 1) % n
<1>1. i \in 0 .. n - 1 /\ j \in 0 .. n - 1
  <2>1. k - 1 \in Int
    OBVIOUS
  <2> QED
    <3>1. i \in 0 .. n - 1
      BY <2>1, DivisionAlgorithm
    <3>2. j \in 0 .. n - 1
      BY Opposites
    <3> QED
      BY <3>1, <3>2
<1>2. n - j - 1 = i
  <2>1. k - 1 \in Nat /\ (k - 1) + 1 = k
    OBVIOUS
  <2>2. (i + 1) % n = k % n
    BY <2>1, Opposites
  <2>3. k % n = IF i + 1 = n THEN 0 ELSE i + 1
    <3> HIDE DEF i
    <3>1. (i + 1) % n = IF i + 1 = n THEN 0 ELSE i + 1
      BY <1>1
    <3> QED
      BY <3>1, <2>2
  <2>4. j = (n - (k % n)) % n
    BY DEF Opposite
  <2>5. k % n \in 0 .. n - 1
    BY Opposites
  <2> HIDE DEF i, j
  <2>6. j = IF k % n = 0 THEN 0 ELSE n - (k % n)
    BY <2>4, <2>5
  <2> QED
    BY <1>1, <2>3, <2>6
<1> HIDE DEF i, j
<1>3. BitOf(Rotate(n, v, j), n - 1) = BitOf(v, n - j - 1)
  BY <1>1, Moved
<1> QED
  BY <1>2, <1>3 DEF i, j

(* ROL leaves in C the bit moved last, of a byte and a word turned right   *)
(* round too.                                                              *)
LEMMA RolLeaves ==
    ASSUME NEW w \in Narrow, NEW v \in Values(w), NEW k \in Nat, NEW y
    PROVE  Result(w, Rol(w, k, v, y), Rotate(Bits(w), v, k % Bits(w)), FALSE,
                  Rotate(Bits(w), v, k % Bits(w)) % 2 = 1)
<1> DEFINE n == Bits(w)
           j == k % n
           R == Rotate(n, v, j)
           c == R % 2 = 1
           d == IF j = 0 THEN w # Long /\ v % 2 = 1 ELSE BitOf(v, n - j) = 1
<1>1. n \in Nat /\ n > 1 /\ n > 0 /\ v \in 0 .. 2 ^ n - 1 /\ w # Long
  BY Powers DEF Narrow, Byte, Word, Long
<1>2. j \in 0 .. n - 1
  BY <1>1, Opposites
<1>3. Rol(w, k, v, y) = Outcome(w, R, FALSE, d)
  BY DEF Rol, Turned
<1>4. IF j = 0 THEN v % 2 = R % 2 ELSE BitOf(v, n - j) = R % 2
  <2> HIDE DEF j, n
  <2> QED
    BY <1>1, <1>2, LastToLeft
<1>5. d <=> c
  <2> HIDE DEF j, R, n
  <2>1. CASE j = 0
    BY <2>1, <1>1, <1>4
  <2>2. CASE j # 0
    BY <2>2, <1>4
  <2> QED
    BY <2>1, <2>2
<1>6. c \in BOOLEAN
  OBVIOUS
<1>7. d = c
  <2>1. d \in BOOLEAN
    <3>1. CASE j = 0
      BY <3>1
    <3>2. CASE j # 0
      BY <3>2
    <3> QED
      BY <3>1, <3>2
  <2> HIDE DEF d, c
  <2> QED
    BY <2>1, <1>5, <1>6
<1> HIDE DEF d
<1>8. Result(w, Rol(w, k, v, y), R, FALSE, c)
  <2> HIDE DEF c, R
  <2> QED
    BY <1>3, <1>6, <1>7 DEF Result
<1> QED
  BY <1>8

(* ROR does.                                                               *)
LEMMA RorLeaves ==
    ASSUME NEW w \in Narrow, NEW v \in Values(w), NEW k \in Nat, k > 0, NEW y
    PROVE  Result(w, Ror(w, k, v, y), Rotate(Bits(w), v, Opposite(Bits(w), k)), FALSE,
                  BitOf(Rotate(Bits(w), v, Opposite(Bits(w), k)), Bits(w) - 1) = 1)
<1> DEFINE n == Bits(w)
           R == Rotate(n, v, Opposite(n, k))
           c == BitOf(R, n - 1) = 1
           d == BitOf(v, (k - 1) % n) = 1
<1>1. n \in Nat /\ n > 1 /\ v \in 0 .. 2 ^ n - 1
  BY Powers
<1>2. Ror(w, k, v, y) = Outcome(w, R, FALSE, d)
  BY DEF Ror
<1>3. BitOf(v, (k - 1) % n) = BitOf(R, n - 1)
  BY <1>1, LastToRight
<1>4. c \in BOOLEAN
  OBVIOUS
<1>5. d = c
  BY <1>3
<1>6. Result(w, Ror(w, k, v, y), R, FALSE, c)
  <2> HIDE DEF c, R, d
  <2> QED
    BY <1>2, <1>4, <1>5 DEF Result
<1> QED
  BY <1>6

(* ROL once more, and undone by ROR.                                       *)
LEMMA RolAgain ==
    ASSUME NEW w \in Narrow, NEW v \in Values(w), NEW k \in Steps(w),
           NEW y, NEW z, NEW once, once = Rol(w, k, v, y)
    PROVE  /\ Follows(Rol(w, k + 1, v, y), once, Rol(w, 1, once.r, z))
           /\ Ror(w, k, once.r, z).r = v
<1> DEFINE n == Bits(w)
           R == Rotate(n, v, k % n)
           Q == Rotate(n, v, (k + 1) % n)
<1>1. /\ n \in Nat /\ n > 1 /\ Values(w) = 0 .. 2 ^ n - 1
      /\ k \in Nat /\ k + 1 \in Nat /\ k > 0 /\ 1 \in Nat
  BY Powers DEF Steps
<1>2. /\ R \in Values(w) /\ Rotate(n, R, 1 % n) = Q
      /\ Rotate(n, R, Opposite(n, k)) = v
  <2>1. v \in 0 .. 2 ^ n - 1
    BY <1>1
  <2>2. /\ R \in 0 .. 2 ^ n - 1 /\ Rotate(n, R, 1 % n) = Q
        /\ Rotate(n, R, Opposite(n, k)) = v
    BY <1>1, <2>1, Turns
  <2> QED
    BY <1>1, <2>2
<1>3. Result(w, once, R, FALSE, R % 2 = 1)
  BY <1>1, RolLeaves
<1>4. Result(w, Rol(w, k + 1, v, y), Q, FALSE, Q % 2 = 1)
  BY <1>1, RolLeaves
<1>5. ASSUME NEW u \in Values(w)
      PROVE  /\ Result(w, Rol(w, 1, u, z), Rotate(n, u, 1 % n), FALSE, Rotate(n, u, 1 % n) % 2 = 1)
             /\ Ror(w, k, u, z).r = Rotate(n, u, Opposite(n, k))
  <2>1. Result(w, Rol(w, 1, u, z), Rotate(n, u, 1 % n), FALSE, Rotate(n, u, 1 % n) % 2 = 1)
    BY <1>1, RolLeaves
  <2>2. Ror(w, k, u, z).r = Rotate(n, u, Opposite(n, k))
    BY DEF Ror, Outcome
  <2> QED
    BY <2>1, <2>2
<1> DEFINE c == R % 2 = 1
           d == Q % 2 = 1
<1> HIDE DEF R, Q, n
<1>6. Result(w, Rol(w, 1, R, z), Q, FALSE, d) /\ Ror(w, k, R, z).r = v
  BY <1>2, <1>5
<1>7. Result(w, once, R, FALSE, c) /\ Result(w, Rol(w, k + 1, v, y), Q, FALSE, d)
  BY <1>3, <1>4
<1> HIDE DEF c, d
<1>8. once.r = R
  BY <1>7, ResultParts
<1> QED
  BY <1>6, <1>7, <1>8, ResultsFollow

(* ROR once more.                                                          *)
LEMMA RorAgain ==
    ASSUME NEW w \in Narrow, NEW v \in Values(w), NEW k \in Steps(w),
           NEW y, NEW z, NEW once, once = Ror(w, k, v, y)
    PROVE  Follows(Ror(w, k + 1, v, y), once, Ror(w, 1, once.r, z))
<1> DEFINE n == Bits(w)
           R == Rotate(n, v, Opposite(n, k))
           Q == Rotate(n, v, Opposite(n, k + 1))
<1>1. /\ n \in Nat /\ n > 1 /\ Values(w) = 0 .. 2 ^ n - 1
      /\ k \in Nat /\ k + 1 \in Nat /\ k > 0 /\ k + 1 > 0 /\ 1 \in Nat /\ 1 > 0
  BY Powers DEF Steps
<1>2. R \in Values(w) /\ Rotate(n, R, Opposite(n, 1)) = Q
  BY <1>1, Turns
<1>3. Result(w, once, R, FALSE, BitOf(R, n - 1) = 1)
  BY <1>1, RorLeaves
<1>4. Result(w, Ror(w, k + 1, v, y), Q, FALSE, BitOf(Q, n - 1) = 1)
  BY <1>1, RorLeaves
<1>5. ASSUME NEW u \in Values(w)
      PROVE  Result(w, Ror(w, 1, u, z), Rotate(n, u, Opposite(n, 1)), FALSE,
                    BitOf(Rotate(n, u, Opposite(n, 1)), n - 1) = 1)
  BY <1>1, RorLeaves
<1> DEFINE c == BitOf(R, n - 1) = 1
           d == BitOf(Q, n - 1) = 1
<1> HIDE DEF R, Q, n
<1>6. Result(w, Ror(w, 1, R, z), Q, FALSE, d)
  BY <1>2, <1>5
<1>7. Result(w, once, R, FALSE, c) /\ Result(w, Ror(w, k + 1, v, y), Q, FALSE, d)
  BY <1>3, <1>4
<1> HIDE DEF c, d
<1>8. once.r = R
  BY <1>7, ResultParts
<1> QED
  BY <1>6, <1>7, <1>8, ResultsFollow

(* With X for one more bit above the operand nothing is lost.              *)
LEMMA XKept ==
    ASSUME NEW w \in Narrow, NEW t \in 0 .. 2 ^ (Bits(w) + 1) - 1, NEW f, f = WithX(w, t)
    PROVE  /\ f.r \in Values(w) /\ f.r = Low(w, t)
           /\ f.r + Flag(f.c) * 2 ^ Bits(w) = t
<1> DEFINE n == Bits(w)
           N == 2 ^ n
<1>1. n \in Nat /\ Span(w) = N /\ Values(w) = 0 .. N - 1
  BY Powers
<1>2. N \in Nat /\ N > 0 /\ 2 ^ (n + 1) = 2 * N
  <2>1. 2 ^ (n + 1) = N * 2
    BY <1>1, PowerOfSum, SmallPowers
  <2> QED
    BY <2>1, <1>1, Power
<1>3. BitOf(t, n) = (t \div N) % 2 /\ Low(w, t) = t % N
  BY <1>1 DEF BitOf, Low
<1>4. t \in 0 .. 2 * N - 1
  BY <1>2
<1> HIDE DEF N
<1>5. t \div N \in 0 .. 1 /\ t % N \in 0 .. N - 1 /\ t = (t \div N) * N + (t % N)
  <2>1. 2 \in Nat /\ 2 > 0
    OBVIOUS
  <2> QED
    BY <1>2, <1>4, <2>1, Cut
<1> DEFINE h == t \div N
<1> HIDE DEF h
<1>6. h \in {0, 1} /\ h % 2 = h
  BY <1>5 DEF h
<1>7. f.r = t % N /\ f.c = (h = 1)
  BY <1>3, <1>6 DEF h, WithX, Outcome, n
<1>8. Flag(f.c) = h
  BY <1>6, <1>7 DEF Flag
<1>9. t = h * N + (t % N)
  BY <1>5 DEF h
<1>10. (t % N) + h * N = t
  BY <1>2, <1>5, <1>6, <1>9
<1> QED
  BY <1>1, <1>3, <1>5, <1>7, <1>8, <1>10 DEF N

(* The overflow stays clear.                                               *)
LEMMA XFollows ==
    ASSUME NEW w, NEW t, NEW s
    PROVE  Follows(WithX(w, t), WithX(w, s), WithX(w, t))
<1> DEFINE c == BitOf(t, Bits(w)) = 1
           d == BitOf(s, Bits(w)) = 1
<1>1. c \in BOOLEAN /\ d \in BOOLEAN
  OBVIOUS
<1>2. WithX(w, t) = Outcome(w, Low(w, t), FALSE, c) /\ WithX(w, s) = Outcome(w, Low(w, s), FALSE, d)
  BY DEF WithX
<1> HIDE DEF c, d
<1>3. Result(w, WithX(w, t), Low(w, t), FALSE, c) /\ Result(w, WithX(w, s), Low(w, s), FALSE, d)
  BY <1>1, <1>2 DEF Result
<1> QED
  BY <1>3, ResultsFollow

(* ROXL and ROXR once more, X going round with them, and ROXL undone.      *)
LEMMA RoxAgain ==
    ASSUME NEW w \in Narrow, NEW v \in Values(w), NEW k \in Steps(w), NEW y \in {0, 1},
           NEW l, l = Roxl(w, k, v, y), NEW r, r = Roxr(w, k, v, y)
    PROVE  /\ Follows(Roxl(w, k + 1, v, y), l, Roxl(w, 1, l.r, Flag(l.c)))
           /\ Follows(Roxr(w, k + 1, v, y), r, Roxr(w, 1, r.r, Flag(r.c)))
           /\ Roxr(w, k, l.r, Flag(l.c)).r = v
<1> DEFINE n == Bits(w)
           M == n + 1
           t == v + y * 2 ^ n
           L == Rotate(M, t, k % M)
           R == Rotate(M, t, Opposite(M, k))
<1>1. /\ n \in Nat /\ M \in Nat /\ M > 1 /\ Values(w) = 0 .. 2 ^ n - 1 /\ Span(w) = 2 ^ n
      /\ k \in Nat /\ k + 1 \in Nat /\ k > 0 /\ 1 \in Nat
  BY Powers DEF Steps
<1>2. t \in 0 .. 2 ^ M - 1 /\ Low(w, t) = v
  <2>1. 2 ^ M = 2 ^ n * 2 /\ 2 ^ n \in Nat /\ 2 ^ n > 0
    <3>1. 2 ^ (n + 1) = 2 ^ n * 2 ^ 1
      BY <1>1, PowerOfSum
    <3> QED
      BY <3>1, <1>1, SmallPowers, Power
  <2>2. v \in 0 .. 2 ^ n - 1
    BY <1>1
  <2> DEFINE N == 2 ^ n
  <2> HIDE DEF N
  <2>3. v + y * N \in 0 .. N * 2 - 1
    BY <2>1, <2>2 DEF N
  <2>4. (v + y * N) % N = v
    <3>1. N \in Nat /\ N > 0 /\ v \in 0 .. N - 1 /\ y \in 0 .. 2 - 1 /\ 2 \in Nat /\ 2 > 0
      BY <2>1, <2>2 DEF N
    <3>2. (y * N + v) % N = v
      BY <3>1, Composed
    <3>3. v + y * N = y * N + v
      BY <3>1
    <3> QED
      BY <3>2, <3>3
  <2> QED
    BY <2>1, <2>3, <2>4, <1>1 DEF N, Low
<1>3. /\ l = WithX(w, L) /\ r = WithX(w, R)
      /\ Roxl(w, k + 1, v, y) = WithX(w, Rotate(M, t, (k + 1) % M))
      /\ Roxr(w, k + 1, v, y) = WithX(w, Rotate(M, t, Opposite(M, k + 1)))
  BY DEF Roxl, Roxr, Rox
<1>4. ASSUME NEW f, NEW s, f.r + Flag(f.c) * 2 ^ n = s
      PROVE  /\ Roxl(w, 1, f.r, Flag(f.c)) = WithX(w, Rotate(M, s, 1 % M))
             /\ Roxr(w, 1, f.r, Flag(f.c)) = WithX(w, Rotate(M, s, Opposite(M, 1)))
             /\ Roxr(w, k, f.r, Flag(f.c)) = WithX(w, Rotate(M, s, Opposite(M, k)))
  BY <1>4 DEF Roxl, Roxr, Rox
<1>5. /\ L \in 0 .. 2 ^ M - 1 /\ R \in 0 .. 2 ^ M - 1
      /\ Rotate(M, L, 1 % M) = Rotate(M, t, (k + 1) % M)
      /\ Rotate(M, R, Opposite(M, 1)) = Rotate(M, t, Opposite(M, k + 1))
      /\ Rotate(M, L, Opposite(M, k)) = t
  BY <1>1, <1>2, Turns
<1>6. l.r + Flag(l.c) * 2 ^ n = L /\ r.r + Flag(r.c) * 2 ^ n = R
  BY <1>3, <1>5, XKept
<1> HIDE DEF L, R, t, M, n
<1>7. /\ Roxl(w, 1, l.r, Flag(l.c)) = Roxl(w, k + 1, v, y)
      /\ Roxr(w, 1, r.r, Flag(r.c)) = Roxr(w, k + 1, v, y)
      /\ Roxr(w, k, l.r, Flag(l.c)) = WithX(w, t)
  BY <1>3, <1>4, <1>5, <1>6
<1>8. WithX(w, t).r = v
  BY <1>2 DEF WithX, Outcome
<1> QED
  BY <1>3, <1>7, <1>8, XFollows

-----------------------------------------------------------------------------
(* A signed number moved to the right as long as any of it is left.        *)
LEMMA SignedMoved ==
    ASSUME NEW w \in Narrow, NEW v \in Values(w), NEW k \in 0 .. Bits(w) - 1
    PROVE  /\ Low(w, Signed(w, v) \div 2 ^ k) \in Values(w)
           /\ Signed(w, Low(w, Signed(w, v) \div 2 ^ k)) = Signed(w, v) \div 2 ^ k
           /\ Low(w, Signed(w, v) \div 2 ^ k) % 2 = BitOf(v, k)
           /\ Signed(w, v) \div 2 ^ k \in Int /\ Signed(w, v) \in Int
           /\ k = Bits(w) - 1 =>
                 Signed(w, v) \div 2 ^ k = IF Msb(w, v) THEN -1 ELSE 0
<1> DEFINE n == Bits(w)
           H == 2 ^ (n - 1)
           q == 2 ^ k
           p == 2 ^ (n - 1 - k)
           s == Signed(w, v)
           g == s \div q
           l == s % q
           u == Low(w, g)
<1>1. /\ n \in Nat /\ n >= 6 /\ k \in Nat /\ n - 1 \in Nat /\ n - 1 - k \in Nat
      /\ k + (n - 1 - k) = n - 1 /\ (n - 1) + 1 = n /\ w \in Width
  BY Powers DEF Narrow, Width
<1>2. H \in Nat /\ H > 0 /\ q \in Nat /\ q > 0 /\ p \in Nat /\ p > 0
  BY <1>1, Power
<1>3. Span(w) = 2 * H /\ H = q * p
  <2>1. 2 ^ ((n - 1) + 1) = H * 2
    BY <1>1, PowerOfSum, SmallPowers
  <2>2. 2 ^ (k + (n - 1 - k)) = q * p
    BY <1>1, PowerOfSum
  <2> QED
    BY <1>1, <1>2, <2>1, <2>2, Powers
<1>4. Middle(w) = H
  BY <1>1, <1>2, <1>3, Middles
<1>5. /\ v \in 0 .. 2 * H - 1 /\ s = IF v >= H THEN v - 2 * H ELSE v
      /\ Msb(w, v) \in BOOLEAN /\ (Msb(w, v) <=> v >= H)
  BY <1>1, <1>2, <1>3, <1>4, SignBit
<1> HIDE DEF H, q, p, s
<1>6. s \in Int /\ - H <= s /\ s < H
  BY <1>2, <1>5
<1>7. g \in Int /\ l \in 0 .. q - 1 /\ s = g * q + l
  BY <1>2, <1>6, DivisionAlgorithm
<1> HIDE DEF g, l
<1>8. - H <= g /\ g < H
  <2>1. H * q >= H
    BY <1>2, Factor, 1 \in Nat, 1 <= q, H <= H, H * 1 = H
  <2>2. - H \in Int /\ (- H) * q = - (H * q)
    BY <1>2
  <2>3. g * q + l < (- H) * q <=> g < - H
    BY <1>2, <1>7, <2>2, HalvesOrder
  <2>4. g * q + l >= H * q <=> g >= H
    BY <1>2, <1>7, HalvesOrder
  <2>5. H * q \in Int
    BY <1>2
  <2> QED
    BY <1>2, <1>6, <1>7, <2>1, <2>2, <2>3, <2>4, <2>5
<1>9. u \in Values(w) /\ u = IF g < 0 THEN g + 2 * H ELSE g
  BY <1>1, <1>2, <1>3, <1>7, <1>8, Near
<1>10. Signed(w, u) = g
  <2> HIDE DEF u
  <2>1. Signed(w, u) = IF u >= H THEN u - 2 * H ELSE u
    BY <1>1, <1>3, <1>4, <1>9, SignBit
  <2> QED
    BY <2>1, <1>2, <1>7, <1>8, <1>9
<1>11. u % 2 = g % 2
  BY <1>2, <1>7, <1>9
<1>12. BitOf(v, k) = g % 2
  <2>1. BitOf(v, k) = (v \div q) % 2
    BY DEF BitOf, q
  <2>2. v \div q = IF v >= H THEN g + 2 * p ELSE g
    <3>1. CASE v >= H
      <4>1. v = s + 2 * (q * p)
        BY <1>2, <1>3, <1>5, <3>1
      <4>2. v = (g + 2 * p) * q + l
        BY <1>2, <1>7, <4>1
      <4>3. g + 2 * p \in Int /\ v \in Int
        BY <1>2, <1>7, <1>5
      <4>4. v \div q = g + 2 * p
        BY <1>2, <1>7, <4>2, <4>3, Remainder
      <4> QED
        BY <3>1, <4>4
    <3>2. CASE ~ v >= H
      BY <3>2, <1>5 DEF g
    <3> QED
      BY <3>1, <3>2
  <2>3. (g + 2 * p) % 2 = g % 2
    BY <1>2, <1>7
  <2> QED
    BY <2>1, <2>2, <2>3
<1>13. ASSUME k = n - 1 PROVE g = IF Msb(w, v) THEN -1 ELSE 0
  <2>1. q = H
    BY <1>13 DEF q, H
  <2>2. CASE Msb(w, v)
    <3>1. s = (-1) * q + (s + H) /\ s + H \in 0 .. q - 1
      BY <1>2, <1>5, <2>1, <2>2
    <3>2. -1 \in Int
      OBVIOUS
    <3>3. s \div q = -1
      BY <1>2, <1>6, <3>1, <3>2, Remainder
    <3> QED
      BY <2>2, <3>3 DEF g
  <2>3. CASE ~ Msb(w, v)
    <3>1. s \in Nat /\ s < q
      BY <1>2, <1>5, <2>1, <2>3
    <3>2. s \div q = 0
      BY <1>2, <3>1
    <3> QED
      BY <2>3, <3>2 DEF g
  <2> QED
    BY <2>2, <2>3, <1>5
<1> QED
  BY <1>6, <1>7, <1>9, <1>10, <1>11, <1>12, <1>13 DEF g, q, s

(* What is left of a signed number moved out.                              *)
AllSign(w, v) == IF Msb(w, v) THEN Span(w) - 1 ELSE 0

(* What ASR leaves,                                                        *)
LEMMA AsrLeaves ==
    ASSUME NEW w \in Narrow, NEW v \in Values(w), NEW k \in Nat, NEW y
    PROVE  /\ k < Bits(w) =>
                 Result(w, Asr(w, k, v, y), Low(w, Signed(w, v) \div 2 ^ k), FALSE,
                        BitOf(v, k - 1) = 1)
           /\ k >= Bits(w) => Result(w, Asr(w, k, v, y), AllSign(w, v), FALSE, Msb(w, v))
<1>1. CASE k < Bits(w)
  <2>1. Asr(w, k, v, y)
           = Outcome(w, Low(w, Signed(w, v) \div 2 ^ k), FALSE, BitOf(v, k - 1) = 1)
    BY <1>1 DEF Asr
  <2>2. (BitOf(v, k - 1) = 1) \in BOOLEAN
    OBVIOUS
  <2>3. ~ k >= Bits(w)
    BY <1>1, Powers
  <2> QED
    BY <2>1, <2>2, <2>3, Zenon DEF Result
<1>2. CASE k >= Bits(w)
  <2>1. ~ k < Bits(w)
    BY <1>2, Powers
  <2>2. Asr(w, k, v, y) = Outcome(w, AllSign(w, v), FALSE, Msb(w, v))
    BY <2>1 DEF Asr, AllSign
  <2>3. Msb(w, v) \in BOOLEAN
    BY DEF Msb
  <2> QED
    BY <2>1, <2>2, <2>3, Zenon DEF Result
<1> QED
  BY <1>1, <1>2, Powers

(* where only the sign is left, what one more place leaves of it,          *)
LEMMA SignStays ==
    ASSUME NEW w \in Narrow, NEW v \in Values(w)
    PROVE  /\ AllSign(w, v) \in Values(w)
           /\ Low(w, -1) = Span(w) - 1 /\ Low(w, 0) = 0
           /\ Low(w, Signed(w, AllSign(w, v)) \div 2 ^ 1) = AllSign(w, v)
           /\ BitOf(AllSign(w, v), 0) = 1 <=> Msb(w, v)
<1> DEFINE H == Middle(w)
           e == AllSign(w, v)
<1>1. w \in Width /\ H \in Nat /\ H > 0 /\ Span(w) = 2 * H /\ Values(w) = 0 .. 2 * H - 1
  BY Middles DEF Narrow, Width, Values
<1> HIDE DEF H
<1>2. Msb(w, v) \in BOOLEAN
  BY DEF Msb
<1>3. e \in Values(w)
  BY <1>1 DEF AllSign
<1>4. Low(w, -1) = Span(w) - 1 /\ Low(w, 0) = 0
  <2>1. ASSUME NEW m \in Int, m + 1 = 0 PROVE Low(w, m) = m + Span(w)
    <3>1. - Span(w) <= m /\ m < 0
      BY <1>1, <2>1
    <3>2. - Span(w) <= m /\ m < 0 => Low(w, m) = m + Span(w)
      BY ONLY <1>1, m \in Int, Near
    <3> QED
      BY <3>1, <3>2
  <2>2. \A m \in Int : m = 0 => Low(w, m) = 0
    BY <1>1, Near
  <2>3. -1 \in Int /\ (-1) + 1 = 0 /\ (-1) + Span(w) = Span(w) - 1
    BY <1>1
  <2> QED
    BY <2>1, <2>2, <2>3
<1>5. Signed(w, e) = IF Msb(w, v) THEN -1 ELSE 0
  <2>1. Signed(w, e) = IF e >= H THEN e - 2 * H ELSE e
    <3> HIDE DEF e
    <3> QED
      BY <1>1, <1>3, SignBit DEF H
  <2> QED
    BY <1>1, <1>2, <2>1 DEF AllSign
<1>6. (-1) \div 2 = -1 /\ 0 \div 2 = 0
  <2>1. \A m \in Int : m + 1 = 0 => m \div 2 = m
    OBVIOUS
  <2>2. -1 \in Int /\ (-1) + 1 = 0
    OBVIOUS
  <2>3. 0 \div 2 = 0
    OBVIOUS
  <2> QED
    BY <2>1, <2>2, <2>3
<1>7. Low(w, Signed(w, e) \div 2 ^ 1) = e
  <2>1. CASE Msb(w, v)
    BY <2>1, <1>4, <1>5, <1>6, SmallPowers DEF AllSign
  <2>2. CASE ~ Msb(w, v)
    BY <2>2, <1>4, <1>5, <1>6, SmallPowers DEF AllSign
  <2> QED
    BY <2>1, <2>2
<1>8. BitOf(e, 0) = 1 <=> Msb(w, v)
  <2>1. BitOf(e, 0) = e % 2
    BY <1>1, <1>3, LowestBit
  <2>2. CASE Msb(w, v)
    BY <2>1, <2>2, <1>1 DEF AllSign
  <2>3. CASE ~ Msb(w, v)
    BY <2>1, <2>3, <1>1 DEF AllSign
  <2> QED
    BY <2>2, <2>3
<1> QED
  BY <1>3, <1>4, <1>7, <1>8

(* and ASR once more.                                                      *)
LEMMA AsrAgain ==
    ASSUME NEW w \in Narrow, NEW v \in Values(w), NEW k \in Steps(w),
           NEW y, NEW z, NEW once, once = Asr(w, k, v, y)
    PROVE  Follows(Asr(w, k + 1, v, y), once, Asr(w, 1, once.r, z))
<1> DEFINE n == Bits(w)
           s == Signed(w, v)
<1>1. /\ n \in Nat /\ n >= 6 /\ k \in Nat /\ k + 1 \in Nat /\ k > 0 /\ 1 \in Nat /\ 1 < n
      /\ 1 - 1 = 0 /\ (k + 1) - 1 = k
  BY Powers DEF Steps
<1>2. CASE k + 1 < n
  <2> DEFINE u == Low(w, s \div 2 ^ k)
             t == Low(w, s \div 2 ^ (k + 1))
             c == BitOf(v, k - 1) = 1
             d == BitOf(v, (k + 1) - 1) = 1
             e == BitOf(u, 1 - 1) = 1
  <2>1. k \in 0 .. n - 1 /\ k < n
    BY <1>1, <1>2
  <2>2. Result(w, once, u, FALSE, c)
    BY <1>1, <2>1, AsrLeaves
  <2>3. Result(w, Asr(w, k + 1, v, y), t, FALSE, d)
    BY <1>1, <1>2, AsrLeaves
  <2>4. /\ u \in Values(w) /\ Signed(w, u) = s \div 2 ^ k /\ u % 2 = BitOf(v, k)
        /\ s \in Int
    BY <2>1, SignedMoved
  <2>5. Result(w, Asr(w, 1, u, z), Low(w, Signed(w, u) \div 2 ^ 1), FALSE, e)
    <3> HIDE DEF u
    <3> QED
      BY <1>1, <2>4, AsrLeaves
  <2>6. Low(w, Signed(w, u) \div 2 ^ 1) = t
    BY <1>1, <2>4, DivideAgain
  <2>7. e <=> d
    <3>1. u \in Int
      BY <2>4, Powers
    <3> HIDE DEF u
    <3>2. BitOf(u, 0) = BitOf(v, k)
      BY <2>4, <3>1, LowestBit
    <3> QED
      BY <1>1, <3>2
  <2> HIDE DEF n, u, t, c, d, e
  <2>8. once.r = u
    BY <2>2, ResultParts
  <2>9. Result(w, Asr(w, 1, u, z), t, FALSE, d)
    BY <2>3, <2>5, <2>6, <2>7 DEF Result
  <2> QED
    BY <2>2, <2>3, <2>8, <2>9, ResultsFollow
<1>3. CASE k + 1 >= n
  <2> DEFINE u == AllSign(w, v)
             m == Msb(w, v)
             c == BitOf(v, k - 1) = 1
             e == BitOf(u, 1 - 1) = 1
  <2>1. /\ u \in Values(w) /\ Low(w, Signed(w, u) \div 2 ^ 1) = u
        /\ Low(w, -1) = Span(w) - 1 /\ Low(w, 0) = 0
        /\ (e <=> m)
    <3>1. BitOf(u, 0) = 1 <=> m
      BY SignStays
    <3> QED
      BY <1>1, <3>1, SignStays
  <2>2. \E d : Result(w, once, u, FALSE, d)
    <3>1. CASE k = n - 1
      <4>1. k \in 0 .. n - 1 /\ k < n
        BY <1>1, <3>1
      <4>2. Result(w, once, Low(w, s \div 2 ^ k), FALSE, c)
        BY <1>1, <4>1, AsrLeaves
      <4>3. s \div 2 ^ k = IF m THEN -1 ELSE 0
        BY <3>1, <4>1, SignedMoved
      <4>4. Low(w, s \div 2 ^ k) = u
        BY <2>1, <4>3 DEF AllSign
      <4> HIDE DEF c
      <4> QED
        BY <4>2, <4>4
    <3>2. CASE k >= n
      <4>1. Result(w, once, u, FALSE, m)
        BY <1>1, <3>2, AsrLeaves
      <4> QED
        BY <4>1, Zenon
    <3>3. k = n - 1 \/ k >= n
      BY <1>1, <1>3
    <3> QED
      BY <3>1, <3>2, <3>3, Zenon
  <2>3. Result(w, Asr(w, k + 1, v, y), u, FALSE, m)
    BY <1>1, <1>3, AsrLeaves
  <2>4. Result(w, Asr(w, 1, u, z), Low(w, Signed(w, u) \div 2 ^ 1), FALSE, e)
    <3> HIDE DEF u
    <3> QED
      BY <1>1, <2>1, AsrLeaves
  <2> HIDE DEF n, u, e, m
  <2>5. PICK d : Result(w, once, u, FALSE, d)
    BY <2>2
  <2>6. once.r = u
    BY <2>5, ResultParts
  <2>7. Result(w, Asr(w, 1, u, z), u, FALSE, m)
    BY <2>1, <2>3, <2>4 DEF Result
  <2> QED
    BY <2>3, <2>5, <2>6, <2>7, ResultsFollow
<1> QED
  BY <1>1, <1>2, <1>3

(* The upper k bits are neither all clear nor all set.                     *)
Mixed(n, v, k) == Top(n, v, k) \notin {0, 2 ^ k - 1}

-----------------------------------------------------------------------------
(* A sign that changes on the way changes before the last place or at it.  *)
LEMMA MixedAgain ==
    ASSUME NEW n \in Nat, NEW k \in 1 .. n - 2, NEW v \in 0 .. 2 ^ n - 1
    PROVE  Mixed(n, v, k + 2) <=> Mixed(n, v, k + 1) \/ Mixed(n, LeftBits(n, v, k), 2)
<1> DEFINE i == n - k - 2
           q == 2 ^ i
           K == 2 ^ k
           u == LeftBits(n, v, k)
<1>1. /\ k \in Nat /\ i \in Nat /\ n - 2 \in Nat /\ k + 1 \in 0 .. n - 1 /\ k \in 0 .. n - 1
      /\ k \in 0 .. n /\ k + 1 \in 0 .. n /\ k + 2 \in 0 .. n /\ 2 \in 0 .. n
      /\ n - k - 1 = i + 1 /\ n - (k + 1) - 1 = i /\ (k + 1) + 1 = k + 2
      /\ n - 2 = k + i /\ 1 \in Nat /\ 2 \in Nat
  OBVIOUS
<1>2. K \in Nat /\ K > 0 /\ q \in Nat /\ q > 0
  BY <1>1, Power
<1>3. 2 ^ (n - k - 1) = q * 2 /\ 2 ^ (n - (k + 1) - 1) = q
  <2>1. 2 ^ (i + 1) = 2 ^ i * 2
    BY <1>1, NextPowers
  <2> QED
    BY <1>1, <2>1
<1>4. 2 ^ (k + 1) = K * 2
  BY <1>1, NextPowers
<1>5. 2 ^ (k + 2) = K * 4
  BY <1>1, NextPowers
<1>6. 2 ^ (n - 2) = K * q
  BY <1>1, PowerOfSum
<1>7. PICK h \in 0 .. K - 1, b \in {0, 1}, l \in 0 .. q * 2 - 1 :
         /\ Made(n, k, v, h, b * (q * 2) + l)
         /\ Made(n, k + 1, v, 2 * h + b, l)
  <2>1. \E h \in 0 .. 2 ^ k - 1, b \in {0, 1}, l \in 0 .. 2 ^ (n - k - 1) - 1 :
           /\ HasBit(n - k - 1, v, h, b, l)
           /\ Made(n, k, v, h, b * 2 ^ (n - k - 1) + l)
           /\ Made(n, k + 1, v, 2 * h + b, l)
           /\ BitOf(v, n - k - 1) = b
    BY <1>1, BitBelow
  <2> QED
    BY <2>1, <1>3
<1>8. PICK g \in 0 .. K * 2 - 1, a \in {0, 1}, m \in 0 .. q - 1 :
         /\ Made(n, k + 1, v, g, a * q + m)
         /\ Made(n, k + 2, v, 2 * g + a, m)
  <2> DEFINE j == k + 1
  <2>1. \E g \in 0 .. 2 ^ j - 1, a \in {0, 1}, m \in 0 .. 2 ^ (n - j - 1) - 1 :
           /\ HasBit(n - j - 1, v, g, a, m)
           /\ Made(n, j, v, g, a * 2 ^ (n - j - 1) + m)
           /\ Made(n, j + 1, v, 2 * g + a, m)
           /\ BitOf(v, n - j - 1) = a
    <3>1. j \in 0 .. n - 1
      BY <1>1
    <3> HIDE DEF j
    <3> QED
      BY <3>1, BitBelow
  <2> QED
    BY <2>1, <1>1, <1>3, <1>4
<1>9. /\ Top(n, v, k + 1) = 2 * h + b /\ Top(n, v, k + 1) = g
      /\ LeftBits(n, v, k + 1) = l * 2 ^ (k + 1)
      /\ LeftBits(n, v, k + 1) = (a * q + m) * 2 ^ (k + 1)
      /\ Top(n, v, k + 2) = 2 * g + a
      /\ u = (b * (q * 2) + l) * K
  <2>0. ASSUME NEW j \in 0 .. n, NEW r, NEW e, Made(n, j, v, r, e)
        PROVE  Top(n, v, j) = r /\ LeftBits(n, v, j) = e * 2 ^ j
    BY <2>0, Parts
  <2>1. Top(n, v, k + 1) = 2 * h + b /\ LeftBits(n, v, k + 1) = l * 2 ^ (k + 1)
    BY <1>1, <1>7, <2>0
  <2>2. Top(n, v, k + 1) = g /\ LeftBits(n, v, k + 1) = (a * q + m) * 2 ^ (k + 1)
    BY <1>1, <1>8, Parts
  <2>3. Top(n, v, k + 2) = 2 * g + a
    BY <1>1, <1>8, Parts
  <2>4. u = (b * (q * 2) + l) * K
    BY <1>1, <1>7, Parts
  <2> QED
    BY <2>1, <2>2, <2>3, <2>4
<1> HIDE DEF i, q, K, u
<1>10. l = a * q + m
  <2>1. v = (2 * h + b) * (q * 2) + l
    <3>1. v = h * 2 ^ (n - k) + (b * (q * 2) + l) /\ 2 ^ (n - k) = q * 4
      <4>1. n - k = i + 2
        BY <1>1 DEF i
      <4>2. 2 ^ (i + 2) = q * 4
        BY <1>1, NextPowers DEF q
      <4> QED
        BY <4>1, <4>2, <1>7 DEF Made
    <3> QED
      BY <3>1, <1>2, <1>7
  <2>2. v = (2 * h + b) * (q * 2) + (a * q + m)
    <3>1. v = g * 2 ^ (n - (k + 1)) + (a * q + m)
      BY <1>8 DEF Made
    <3>2. n - (k + 1) = n - k - 1
      BY <1>1
    <3> QED
      BY <3>1, <3>2, <1>3, <1>9
  <2> DEFINE e == (2 * h + b) * (q * 2)
  <2>3. e \in Int /\ a * q + m \in Int
    BY <1>2
  <2> HIDE DEF e
  <2>4. v = e + l /\ v = e + (a * q + m)
    BY <2>1, <2>2 DEF e
  <2> QED
    BY <2>3, <2>4
<1>11. Top(n, u, 2) = 2 * b + a
  <2>1. u = (2 * b + a) * (K * q) + m * K
    BY <1>2, <1>9, <1>10
  <2>2. m * K + 0 \in 0 .. q * K - 1
    BY <1>2, Composed, 0 \in 0 .. K - 1
  <2>3. m * K \in 0 .. K * q - 1
    BY <2>2, <1>2
  <2>4. 2 * b + a \in 0 .. 4 - 1
    OBVIOUS
  <2>5. Made(n, 2, u, 2 * b + a, m * K)
    BY <2>1, <2>3, <2>4, <1>6, Four DEF Made
  <2>6. ASSUME NEW j \in 0 .. n, NEW r, NEW e, Made(n, j, u, r, e) PROVE Top(n, u, j) = r
    BY <2>6, Parts
  <2> QED
    BY <2>5, <2>6, <1>1
<1>12. Mixed(n, v, k + 2) <=> 2 * g + a \notin {0, K * 4 - 1}
  BY <1>5, <1>9 DEF Mixed
<1>13. Mixed(n, v, k + 1) <=> g \notin {0, K * 2 - 1}
  BY <1>4, <1>9 DEF Mixed
<1>14. Mixed(n, u, 2) <=> 2 * b + a \notin {0, 3}
  BY <1>11, Four DEF Mixed
<1>15. g = 2 * h + b
  BY <1>9
<1>16. 2 * g + a \notin {0, K * 4 - 1} <=> g \notin {0, K * 2 - 1} \/ 2 * b + a \notin {0, 3}
  <2>1. CASE a = 0 /\ b = 0
    BY <2>1, <1>2, <1>15
  <2>2. CASE a = 0 /\ b = 1
    BY <2>2, <1>2, <1>15
  <2>3. CASE a = 1 /\ b = 0
    BY <2>3, <1>2, <1>15
  <2>4. CASE a = 1 /\ b = 1
    BY <2>4, <1>2, <1>15
  <2> QED
    BY <2>1, <2>2, <2>3, <2>4
<1> QED
  BY <1>12, <1>13, <1>14, <1>16 DEF u

(* When nothing is left the sign changed, unless there was nothing.        *)
LEMMA MixedAtLast ==
    ASSUME NEW n \in Nat, n > 1, NEW v \in 0 .. 2 ^ n - 1
    PROVE  /\ v # 0 <=> Mixed(n, v, n) \/ Mixed(n, LeftBits(n, v, n - 1), 2)
           /\ LeftBits(n, v, n) = 0
<1> DEFINE H == 2 ^ (n - 1)
           Q == 2 ^ (n - 2)
           b == v % 2
           u == LeftBits(n, v, n - 1)
<1>1. /\ n - 1 \in Nat /\ n - 2 \in Nat /\ (n - 2) + 1 = n - 1 /\ (n - 1) + 1 = n
      /\ n - n = 0 /\ n - (n - 1) = 1 /\ 2 \in 0 .. n /\ 1 \in Nat
  OBVIOUS
<1>2. H \in Nat /\ H > 0 /\ Q \in Nat /\ Q > 0 /\ 2 ^ n \in Nat
  BY <1>1, Power
<1>3. 2 ^ ((n - 2) + 1) = Q * 2 /\ 2 ^ ((n - 1) + 1) = H * 2
  <2>1. ASSUME NEW a \in Nat PROVE 2 ^ (a + 1) = 2 ^ a * 2
    BY NextPowers
  <2> QED
    BY <1>1, <2>1
<1>4. H = Q * 2 /\ 2 ^ n = H * 2
  BY <1>1, <1>3
<1>5. v \in Int /\ v \in 0 .. H * 2 - 1 /\ b \in {0, 1}
  BY <1>2, <1>4
<1>6. u = b * H
  BY <1>1, SmallPowers DEF LeftBits
<1>7. Top(n, v, n) = v /\ LeftBits(n, v, n) = 0
  <2>1. v \div 1 = v /\ v % 1 = 0 /\ 0 * 2 ^ n = 0
    BY <1>2, <1>5
  <2> QED
    BY <2>1, <1>1, SmallPowers DEF Top, LeftBits
<1>8. Mixed(n, v, n) <=> v \notin {0, H * 2 - 1}
  BY <1>4, <1>7 DEF Mixed
<1> HIDE DEF H, Q, u
<1>9. Mixed(n, u, 2) <=> b = 1
  <2>1. CASE b = 0
    <3>1. u = 0 /\ 0 \div Q = 0
      BY <1>2, <1>6, <2>1
    <3>2. Top(n, u, 2) = 0
      BY <3>1 DEF Top, Q
    <3> QED
      BY <2>1, <3>2 DEF Mixed
  <2>2. CASE b = 1
    <3>1. u = 2 * Q + 0 /\ u \in Int /\ 2 \in Int /\ 0 \in 0 .. Q - 1
      BY <1>2, <1>4, <1>6, <2>2
    <3>2. u \div Q = 2
      BY ONLY <1>2, <3>1, Remainder
    <3>3. Top(n, u, 2) = 2
      BY <3>2 DEF Top, Q
    <3> QED
      BY <2>2, <3>3, Four DEF Mixed
  <2> QED
    BY <2>1, <2>2, <1>5
<1>10. v = H * 2 - 1 => b = 1
  BY <1>2, <1>5
<1>11. v = 0 => b = 0
  OBVIOUS
<1> QED
  BY <1>7, <1>8, <1>9, <1>10, <1>11 DEF u

(* What ASL leaves,                                                        *)
LEMMA AslLeaves ==
    ASSUME NEW w \in Narrow, NEW v, NEW k \in Nat, NEW y
    PROVE  /\ k < Bits(w) =>
                 Result(w, Asl(w, k, v, y), LeftBits(Bits(w), v, k), Mixed(Bits(w), v, k + 1),
                        BitOf(v, Bits(w) - k) = 1)
           /\ k >= Bits(w) => Result(w, Asl(w, k, v, y), 0, v # 0, k = Bits(w) /\ v % 2 = 1)
<1>1. CASE k < Bits(w)
  <2>1. Asl(w, k, v, y) = Outcome(w, LeftBits(Bits(w), v, k), Mixed(Bits(w), v, k + 1),
                                  BitOf(v, Bits(w) - k) = 1)
    BY <1>1 DEF Asl, Mixed
  <2>2. (BitOf(v, Bits(w) - k) = 1) \in BOOLEAN /\ Mixed(Bits(w), v, k + 1) \in BOOLEAN
    BY DEF Mixed
  <2>3. ~ k >= Bits(w)
    BY <1>1, Powers
  <2> QED
    BY <2>1, <2>2, <2>3, Zenon DEF Result
<1>2. CASE k >= Bits(w)
  <2>1. ~ k < Bits(w)
    BY <1>2, Powers
  <2>2. Asl(w, k, v, y) = Outcome(w, 0, v # 0, k = Bits(w) /\ v % 2 = 1)
    BY <2>1 DEF Asl
  <2>3. (v # 0) \in BOOLEAN /\ (k = Bits(w) /\ v % 2 = 1) \in BOOLEAN
    OBVIOUS
  <2> QED
    BY <2>1, <2>2, <2>3, Zenon DEF Result
<1> QED
  BY <1>1, <1>2, Powers

(* and ASL once more, V kept.                                              *)
LEMMA AslAgain ==
    ASSUME NEW w \in Narrow, NEW v \in Values(w), NEW k \in Steps(w),
           NEW y, NEW z, NEW once, once = Asl(w, k, v, y)
    PROVE  Follows(Asl(w, k + 1, v, y), once, Asl(w, 1, once.r, z))
<1> DEFINE n == Bits(w)
           R == LeftBits(n, v, k)
           c == BitOf(v, n - k) = 1
           p == Mixed(n, v, k + 1)
<1>1. /\ n \in Nat /\ n >= 6 /\ v \in 0 .. 2 ^ n - 1 /\ v \in Int
      /\ k \in Nat /\ k + 1 \in Nat /\ k > 0 /\ 1 \in Nat /\ 1 < n /\ n > 0 /\ n > 1
      /\ 1 + 1 = 2 /\ (k + 1) + 1 = k + 2 /\ n - 1 \in 0 .. n
  <2>1. n \in Nat /\ n >= 6 /\ v \in 0 .. 2 ^ n - 1
    BY Powers
  <2> QED
    BY <2>1 DEF Steps
<1>2. ASSUME NEW u
      PROVE  Result(w, Asl(w, 1, u, z), LeftBits(n, u, 1), Mixed(n, u, 2), BitOf(u, n - 1) = 1)
  BY <1>1, AslLeaves
<1>3. CASE k < n
  <2> DEFINE q == Mixed(n, R, 2)
             e == BitOf(R, n - 1) = 1
  <2>1. Result(w, once, R, p, c)
    BY <1>1, <1>3, AslLeaves
  <2>2. Result(w, Asl(w, 1, R, z), LeftBits(n, R, 1), q, e)
    BY <1>2
  <2>3. k \in 0 .. n - 1
    BY <1>1, <1>3
  <2>4. LeftBits(n, R, 1) = LeftBits(n, v, k + 1) /\ BitOf(R, n - 1) = BitOf(v, n - k - 1)
    BY <1>1, <2>3, Moved
  <2>5. CASE k + 1 < n
    <3> DEFINE d == BitOf(v, n - (k + 1)) = 1
               m == Mixed(n, v, k + 2)
    <3>1. Result(w, Asl(w, k + 1, v, y), LeftBits(n, v, k + 1), m, d)
      BY <1>1, <2>5, AslLeaves
    <3>2. e <=> d
      <4>1. n - k - 1 = n - (k + 1)
        BY <1>1
      <4> QED
        BY <2>4, <4>1
    <3>3. m <=> (p \/ q)
      <4>1. k \in 1 .. n - 2
        BY <1>1, <2>5
      <4> QED
        BY <1>1, <4>1, MixedAgain
    <3>4. d \in BOOLEAN /\ e \in BOOLEAN
      OBVIOUS
    <3> HIDE DEF c, d, e, m, p, q, R, n
    <3>5. Result(w, Asl(w, 1, R, z), LeftBits(n, v, k + 1), q, d)
      BY <2>2, <2>4, <3>2, <3>4 DEF Result
    <3>6. once.r = R
      BY <2>1, ResultParts
    <3> QED
      BY <2>1, <3>1, <3>3, <3>5, <3>6, ResultsFollow
  <2>6. CASE k + 1 = n
    <3> DEFINE d == k + 1 = Bits(w) /\ v % 2 = 1
               m == v # 0
    <3>1. Result(w, Asl(w, k + 1, v, y), 0, m, d)
      <4>1. k + 1 >= n
        BY <1>1, <2>6
      <4> QED
        BY <1>1, <4>1, AslLeaves
    <3>2. e <=> d
      <4>1. n - k - 1 = 0
        BY <1>1, <2>6
      <4>2. BitOf(v, 0) = v % 2
        BY <1>1, LowestBit
      <4> QED
        BY <2>4, <2>6, <4>1, <4>2
    <3>3. (m <=> (p \/ q)) /\ LeftBits(n, v, k + 1) = 0
      <4>1. /\ v # 0 <=> Mixed(n, v, n) \/ Mixed(n, LeftBits(n, v, n - 1), 2)
            /\ LeftBits(n, v, n) = 0
        BY <1>1, MixedAtLast
      <4>2. k = n - 1
        BY <1>1, <2>6
      <4> QED
        BY <4>1, <4>2, <2>6
    <3>4. d \in BOOLEAN /\ e \in BOOLEAN
      OBVIOUS
    <3> HIDE DEF c, d, e, m, p, q, R, n
    <3>5. Result(w, Asl(w, 1, R, z), 0, q, d)
      BY <2>2, <2>4, <3>2, <3>3, <3>4 DEF Result
    <3>6. once.r = R
      BY <2>1, ResultParts
    <3> QED
      BY <2>1, <3>1, <3>3, <3>5, <3>6, ResultsFollow
  <2> QED
    BY <1>1, <1>3, <2>5, <2>6
<1>4. CASE k >= n
  <2> DEFINE m == v # 0
             d == k = Bits(w) /\ v % 2 = 1
             f == k + 1 = Bits(w) /\ v % 2 = 1
             e == BitOf(0, n - 1) = 1
             q == Mixed(n, 0, 2)
  <2>1. Result(w, once, 0, m, d)
    BY <1>1, <1>4, AslLeaves
  <2>2. Result(w, Asl(w, k + 1, v, y), 0, m, f)
    <3>1. k + 1 >= n
      BY <1>1, <1>4
    <3> QED
      BY <1>1, <3>1, AslLeaves
  <2>3. Result(w, Asl(w, 1, 0, z), LeftBits(n, 0, 1), q, e)
    BY <1>2
  <2>4. ~ f
    BY <1>1, <1>4
  <2>5. LeftBits(n, 0, 1) = 0 /\ ~ e
    <3>1. BitOf(0, n - 1) = 0 /\ LeftBits(n, 0, 1) = 0
      BY <1>1, BitsOfZero
    <3> QED
      BY <3>1
  <2>6. ~ q
    <3>1. 2 ^ (n - 2) \in Nat /\ 2 ^ (n - 2) > 0
      BY <1>1, Power
    <3>2. ASSUME NEW s \in Nat, s > 0 PROVE 0 \div s = 0
      BY <3>2
    <3>3. Top(n, 0, 2) = 0
      BY <3>1, <3>2 DEF Top
    <3> QED
      BY <3>3 DEF Mixed
  <2>7. f \in BOOLEAN /\ e \in BOOLEAN
    OBVIOUS
  <2> HIDE DEF d, e, f, m, q, n
  <2>8. Result(w, Asl(w, 1, 0, z), 0, q, f)
    BY <2>3, <2>4, <2>5, <2>7 DEF Result
  <2>9. once.r = 0
    BY <2>1, ResultParts
  <2>10. m <=> (m \/ q)
    BY <2>6
  <2> QED
    BY <2>1, <2>2, <2>8, <2>9, <2>10, ResultsFollow
<1> QED
  BY <1>1, <1>3, <1>4

-----------------------------------------------------------------------------
(* ShiftsCompose: a shift or a rotation by k + 1 places is one by k and    *)
(* then by one, and a rotation is undone by its opposite (m68k_op_asl_*,   *)
(* asr, lsl, lsr, rol, ror, roxl and roxr of m68kopac.c, m68kopdm.c and    *)
(* m68kopnz.c).                                                            *)
THEOREM Shifting == Spec => []ShiftsCompose
<1>1. ASSUME Calculated, NEW w \in {Byte, Word}, NEW v \in Values(w)
      PROVE  /\ Composes(Asl, w, v) /\ Composes(Asr, w, v)
             /\ Composes(Lsl, w, v) /\ Composes(Lsr, w, v)
             /\ Composes(Roxl, w, v) /\ Composes(Roxr, w, v)
             /\ Composes(Rol, w, v) /\ Composes(Ror, w, v)
             /\ Undoes(Rol, Ror, w, v) /\ Undoes(Roxl, Roxr, w, v)
  <2>1. w \in Narrow /\ x \in {0, 1}
    BY <1>1, Given DEF Narrow
  <2>2. Composes(Asl, w, v)
    <3>1. ASSUME NEW k \in Steps(w) PROVE Asl(w, k + 1, v, x) = Again(Asl, w, k, v)
      <4>1. Follows(Asl(w, k + 1, v, x), Asl(w, k, v, x),
                    Asl(w, 1, Asl(w, k, v, x).r, Flag(Asl(w, k, v, x).c)))
        BY <2>1, AslAgain
      <4> QED
        BY <4>1 DEF Follows, Again
    <3> QED
      BY <3>1 DEF Composes
  <2>3. Composes(Asr, w, v)
    <3>1. ASSUME NEW k \in Steps(w) PROVE Asr(w, k + 1, v, x) = Again(Asr, w, k, v)
      <4>1. Follows(Asr(w, k + 1, v, x), Asr(w, k, v, x),
                    Asr(w, 1, Asr(w, k, v, x).r, Flag(Asr(w, k, v, x).c)))
        BY <2>1, AsrAgain
      <4> QED
        BY <4>1 DEF Follows, Again
    <3> QED
      BY <3>1 DEF Composes
  <2>4. Composes(Lsl, w, v)
    <3>1. ASSUME NEW k \in Steps(w) PROVE Lsl(w, k + 1, v, x) = Again(Lsl, w, k, v)
      <4>1. Follows(Lsl(w, k + 1, v, x), Lsl(w, k, v, x),
                    Lsl(w, 1, Lsl(w, k, v, x).r, Flag(Lsl(w, k, v, x).c)))
        BY <2>1, LslAgain
      <4> QED
        BY <4>1 DEF Follows, Again
    <3> QED
      BY <3>1 DEF Composes
  <2>5. Composes(Lsr, w, v)
    <3>1. ASSUME NEW k \in Steps(w) PROVE Lsr(w, k + 1, v, x) = Again(Lsr, w, k, v)
      <4>1. Follows(Lsr(w, k + 1, v, x), Lsr(w, k, v, x),
                    Lsr(w, 1, Lsr(w, k, v, x).r, Flag(Lsr(w, k, v, x).c)))
        BY <2>1, LsrAgain
      <4> QED
        BY <4>1 DEF Follows, Again
    <3> QED
      BY <3>1 DEF Composes
  <2>6. Composes(Rol, w, v)
    <3>1. ASSUME NEW k \in Steps(w) PROVE Rol(w, k + 1, v, x) = Again(Rol, w, k, v)
      <4>1. Follows(Rol(w, k + 1, v, x), Rol(w, k, v, x),
                    Rol(w, 1, Rol(w, k, v, x).r, Flag(Rol(w, k, v, x).c)))
        BY <2>1, RolAgain
      <4> QED
        BY <4>1 DEF Follows, Again
    <3> QED
      BY <3>1 DEF Composes
  <2>7. Composes(Ror, w, v)
    <3>1. ASSUME NEW k \in Steps(w) PROVE Ror(w, k + 1, v, x) = Again(Ror, w, k, v)
      <4>1. Follows(Ror(w, k + 1, v, x), Ror(w, k, v, x),
                    Ror(w, 1, Ror(w, k, v, x).r, Flag(Ror(w, k, v, x).c)))
        BY <2>1, RorAgain
      <4> QED
        BY <4>1 DEF Follows, Again
    <3> QED
      BY <3>1 DEF Composes
  <2>8. Composes(Roxl, w, v)
    <3>1. ASSUME NEW k \in Steps(w) PROVE Roxl(w, k + 1, v, x) = Again(Roxl, w, k, v)
      <4>1. Follows(Roxl(w, k + 1, v, x), Roxl(w, k, v, x),
                    Roxl(w, 1, Roxl(w, k, v, x).r, Flag(Roxl(w, k, v, x).c)))
        BY <2>1, RoxAgain
      <4> QED
        BY <4>1 DEF Follows, Again
    <3> QED
      BY <3>1 DEF Composes
  <2>9. Composes(Roxr, w, v)
    <3>1. ASSUME NEW k \in Steps(w) PROVE Roxr(w, k + 1, v, x) = Again(Roxr, w, k, v)
      <4>1. Follows(Roxr(w, k + 1, v, x), Roxr(w, k, v, x),
                    Roxr(w, 1, Roxr(w, k, v, x).r, Flag(Roxr(w, k, v, x).c)))
        BY <2>1, RoxAgain
      <4> QED
        BY <4>1 DEF Follows, Again
    <3> QED
      BY <3>1 DEF Composes
  <2>10. Undoes(Rol, Ror, w, v)
    <3>1. ASSUME NEW k \in Steps(w)
          PROVE  Ror(w, k, Rol(w, k, v, x).r, Flag(Rol(w, k, v, x).c)).r = v
      BY <2>1, RolAgain
    <3> QED
      BY <3>1 DEF Undoes
  <2>11. Undoes(Roxl, Roxr, w, v)
    <3>1. ASSUME NEW k \in Steps(w)
          PROVE  Roxr(w, k, Roxl(w, k, v, x).r, Flag(Roxl(w, k, v, x).c)).r = v
      BY <2>1, RoxAgain
    <3> QED
      BY <3>1 DEF Undoes
  <2> QED
    BY <2>2, <2>3, <2>4, <2>5, <2>6, <2>7, <2>8, <2>9, <2>10, <2>11
<1>2. ASSUME Calculated, NEW w \in {Byte, Word} PROVE Low(w, src) \in Values(w)
  <2>1. w \in Width /\ src \in Int
    BY <1>2, Given DEF Width, Byte, Word, Values
  <2> QED
    BY <2>1, Near
<1>3. Calculated => ShiftsCompose
  BY <1>1, <1>2 DEF ShiftsCompose
<1> QED
  BY <1>3, Calculating, PTL

-----------------------------------------------------------------------------
(* Bytes of eight bits.                                                    *)
LEMMA Eights ==
    ASSUME NEW v
    PROVE  D!Low(D!Byte, v) = v % 256
BY DEF D!Low, D!Byte, D!Span

(* The result and the carry of a decimal operation.                        *)
LEMMA BcdParts ==
    ASSUME NEW first, NEW r, NEW c, NEW f, f = D!BcdOutcome(first, r, c)
    PROVE  f.r = r /\ f.c = c
BY DEF D!BcdOutcome, D!Outcome

(* The digits of a byte that holds a decimal number of two.                *)
LEMMA TwoDigits ==
    ASSUME NEW h \in 0 .. 9, NEW l \in 0 .. 9
    PROVE  /\ Digits(10 * h + l) = 16 * h + l
           /\ D!LowDigit(16 * h + l) = l
           /\ D!HighDigit(16 * h + l) = 16 * h
<1>1. (10 * h + l) \div 10 = h /\ (10 * h + l) % 10 = l
  OBVIOUS
<1>2. (16 * h + l) \div 16 = h /\ (16 * h + l) % 16 = l
  OBVIOUS
<1> QED
  BY <1>1, <1>2 DEF Digits, D!LowDigit, D!HighDigit

(* Numbers below a hundred have two digits.                                *)
LEMMA Decimal ==
    ASSUME NEW n \in 0 .. 99
    PROVE  \E h \in 0 .. 9, l \in 0 .. 9 : n = 10 * h + l
<1>1. n \div 10 \in 0 .. 9 /\ n % 10 \in 0 .. 9 /\ n = 10 * (n \div 10) + (n % 10)
  OBVIOUS
<1> QED
  BY <1>1

(* The decimal digits that f leaves are those of n.                        *)
Leaves(f, n) == f.r = Digits(n % 100)

(* ABCD adds numbers.                                                      *)
LEMMA BcdSums ==
    ASSUME NEW a \in 0 .. 99, NEW b \in 0 .. 99, NEW c \in {0, 1}, NEW f,
           f = D!BcdSum(Digits(a), Digits(b), c)
    PROVE  /\ Leaves(f, a + b + c)
           /\ f.c \in BOOLEAN /\ (f.c <=> a + b + c > 99)
<1>1. PICK ha \in 0 .. 9, la \in 0 .. 9 : a = 10 * ha + la
  BY Decimal
<1>2. PICK hb \in 0 .. 9, lb \in 0 .. 9 : b = 10 * hb + lb
  BY Decimal
<1> DEFINE low == la + lb + c
           t == (IF low > 9 THEN low + 6 ELSE low) + 16 * ha + 16 * hb
           u == IF t > 153 THEN t - 160 ELSE t
<1>3. f.r = u % 256 /\ f.c \in BOOLEAN /\ (f.c <=> t > 153)
  <2> DEFINE A == Digits(a)
             B == Digits(b)
             low2 == D!LowDigit(A) + D!LowDigit(B) + c
             t2 == (IF low2 > 9 THEN low2 + 6 ELSE low2) + D!HighDigit(A) + D!HighDigit(B)
             u2 == IF t2 > 153 THEN t2 - 160 ELSE t2
             C == t2 > 153
  <2>0. C \in BOOLEAN
    OBVIOUS
  <2>1. f = D!BcdOutcome(low2, D!Low(D!Byte, u2), C)
    BY DEF D!BcdSum, D!DigitSum, D!Carried
  <2>2. /\ D!LowDigit(A) = la /\ D!HighDigit(A) = 16 * ha
        /\ D!LowDigit(B) = lb /\ D!HighDigit(B) = 16 * hb
    BY <1>1, <1>2, TwoDigits
  <2>3. low2 = low /\ t2 = t /\ u2 = u
    BY <2>2
  <2> HIDE DEF C, u2, low2
  <2>4. f.r = D!Low(D!Byte, u2) /\ f.c = C
    BY <2>1, BcdParts
  <2> HIDE DEF t, t2, u
  <2> QED
    BY <2>0, <2>3, <2>4, Eights DEF C
<1>4. t > 153 <=> a + b + c > 99
  BY <1>1, <1>2
<1>5. \E h \in 0 .. 9, l \in 0 .. 9 : u = 16 * h + l /\ (a + b + c) % 100 = 10 * h + l
  <2>1. CASE low > 9 /\ t > 153
    <3> WITNESS ha + hb - 9 \in 0 .. 9, low - 10 \in 0 .. 9
    <3> QED
      BY <2>1, <1>1, <1>2
  <2>2. CASE low > 9 /\ ~(t > 153)
    <3> WITNESS ha + hb + 1 \in 0 .. 9, low - 10 \in 0 .. 9
    <3> QED
      BY <2>2, <1>1, <1>2
  <2>3. CASE ~(low > 9) /\ t > 153
    <3> WITNESS ha + hb - 10 \in 0 .. 9, low \in 0 .. 9
    <3> QED
      BY <2>3, <1>1, <1>2
  <2>4. CASE ~(low > 9) /\ ~(t > 153)
    <3> WITNESS ha + hb \in 0 .. 9, low \in 0 .. 9
    <3> QED
      BY <2>4, <1>1, <1>2
  <2> QED
    BY <2>1, <2>2, <2>3, <2>4
<1> HIDE DEF u, t, low
<1>6. u % 256 = Digits((a + b + c) % 100)
  <2>1. PICK h \in 0 .. 9, l \in 0 .. 9 : u = 16 * h + l /\ (a + b + c) % 100 = 10 * h + l
    BY <1>5
  <2>2. u % 256 = 16 * h + l
    BY <2>1
  <2> QED
    BY <2>1, <2>2, TwoDigits
<1> QED
  BY <1>3, <1>4, <1>6 DEF Leaves

(* SBCD subtracts them; a negative sum of digits, which the code's         *)
(* unsigned res holds as a large number, is taken for too large.           *)
LEMMA BcdDifferences ==
    ASSUME NEW a \in 0 .. 99, NEW b \in 0 .. 99, NEW c \in {0, 1}, NEW f,
           f = D!BcdDifference(Digits(a), Digits(b), c)
    PROVE  /\ Leaves(f, b - a - c)
           /\ f.c \in BOOLEAN /\ (f.c <=> b - a - c < 0)
<1>1. PICK ha \in 0 .. 9, la \in 0 .. 9 : a = 10 * ha + la
  BY Decimal
<1>2. PICK hb \in 0 .. 9, lb \in 0 .. 9 : b = 10 * hb + lb
  BY Decimal
<1> DEFINE low == lb - la - c
           t == (IF low < 0 \/ low > 9 THEN low - 6 ELSE low) + 16 * hb - 16 * ha
           u == IF t < 0 \/ t > 153 THEN t + 160 ELSE t
<1>3. f.r = u % 256 /\ f.c = (t < 0 \/ t > 153)
  <2> DEFINE A == Digits(a)
             B == Digits(b)
             low2 == D!LowDigit(B) - D!LowDigit(A) - c
             t2 == (IF low2 < 0 \/ low2 > 9 THEN low2 - 6 ELSE low2)
                   + D!HighDigit(B) - D!HighDigit(A)
             u2 == IF t2 < 0 \/ t2 > 153 THEN t2 + 160 ELSE t2
             C == t2 < 0 \/ t2 > 153
  <2>1. f = D!BcdOutcome(low2, D!Low(D!Byte, u2), C)
    BY DEF D!BcdDifference, D!DigitDifference, D!Borrowed, D!Above
  <2>2. /\ D!LowDigit(A) = la /\ D!HighDigit(A) = 16 * ha
        /\ D!LowDigit(B) = lb /\ D!HighDigit(B) = 16 * hb
    BY <1>1, <1>2, TwoDigits
  <2>3. low2 = low /\ t2 = t /\ u2 = u
    BY <2>2
  <2> HIDE DEF C, u2, low2
  <2>4. f.r = D!Low(D!Byte, u2) /\ f.c = C
    BY <2>1, BcdParts
  <2> HIDE DEF t, t2, u
  <2> QED
    BY <2>3, <2>4, Eights DEF C
<1>4. (t < 0 \/ t > 153) <=> b - a - c < 0
  BY <1>1, <1>2
<1>5. \E h \in 0 .. 9, l \in 0 .. 9 : u = 16 * h + l /\ (b - a - c) % 100 = 10 * h + l
  <2>1. CASE low < 0 /\ t < 0
    <3> WITNESS hb - ha + 9 \in 0 .. 9, low + 10 \in 0 .. 9
    <3> QED
      BY <2>1, <1>1, <1>2
  <2>2. CASE low < 0 /\ ~(t < 0)
    <3> WITNESS hb - ha - 1 \in 0 .. 9, low + 10 \in 0 .. 9
    <3> QED
      BY <2>2, <1>1, <1>2
  <2>3. CASE ~(low < 0) /\ t < 0
    <3> WITNESS hb - ha + 10 \in 0 .. 9, low \in 0 .. 9
    <3> QED
      BY <2>3, <1>1, <1>2
  <2>4. CASE ~(low < 0) /\ ~(t < 0)
    <3> WITNESS hb - ha \in 0 .. 9, low \in 0 .. 9
    <3> QED
      BY <2>4, <1>1, <1>2
  <2> QED
    BY <2>1, <2>2, <2>3, <2>4
<1> HIDE DEF u, t, low
<1>6. u % 256 = Digits((b - a - c) % 100)
  <2>1. PICK h \in 0 .. 9, l \in 0 .. 9 : u = 16 * h + l /\ (b - a - c) % 100 = 10 * h + l
    BY <1>5
  <2>2. u % 256 = 16 * h + l
    BY <2>1
  <2> QED
    BY <2>1, <2>2, TwoDigits
<1> QED
  BY <1>3, <1>4, <1>6 DEF Leaves

(* NBCD subtracts from zero, by way of 0x9a.                               *)
LEMMA BcdNegations ==
    ASSUME NEW b \in 0 .. 99, NEW c \in {0, 1}, NEW f, f = D!BcdNegation(Digits(b), c)
    PROVE  /\ f.c \in BOOLEAN /\ (f.c <=> b + c > 0)
           /\ f.c => Leaves(f, 0 - b - c)
<1>1. PICK h \in 0 .. 9, l \in 0 .. 9 : b = 10 * h + l
  BY Decimal
<1> DEFINE t == 154 - (16 * h + l) - c
<1>2. Digits(b) = 16 * h + l
  BY <1>1, TwoDigits
<1>3. t \in 0 .. 154 /\ t % 256 = t /\ 154 % 256 = 154
  OBVIOUS
<1>4. f = D!Complement(t)
  BY <1>2, <1>3, Eights DEF D!BcdNegation, D!NoBorrow
<1>5. D!Low(D!Byte, D!NoBorrow) = 154
  BY <1>3, Eights DEF D!NoBorrow
<1>6. CASE b + c = 0
  <2>1. t = 154
    BY <1>1, <1>6
  <2>2. f = D!Outcome(D!Byte, t, FALSE, FALSE)
    BY <1>4, <1>5, <2>1 DEF D!Complement
  <2>3. f.c = FALSE
    BY <2>2 DEF D!Outcome
  <2>4. ~(b + c > 0)
    BY <1>6
  <2>5. f.c \in BOOLEAN /\ ~f.c
    BY <2>3, Zenon
  <2> QED
    BY <2>4, <2>5 DEF Leaves
<1>7. CASE b + c # 0
  <2> DEFINE r == IF D!LowDigit(t) = 10 THEN D!Low(D!Byte, D!HighDigit(t) + 16) ELSE t
  <2>1. t # 154 /\ b + c > 0
    BY <1>1, <1>7
  <2>2. f = D!BcdOutcome(t, r, TRUE)
    BY <1>4, <1>5, <2>1 DEF D!Complement
  <2>3. f.r = r /\ f.c = TRUE
    <3> DEFINE C == TRUE
    <3>1. f = D!BcdOutcome(t, r, C)
      BY <2>2
    <3> HIDE DEF r, C
    <3>2. f.r = r /\ f.c = C
      BY <3>1, BcdParts
    <3> QED
      BY <3>2 DEF C
  <2>4. r = Digits((0 - b - c) % 100)
    <3>1. CASE l + c = 0
      <4>1. t = 16 * (9 - h) + 10 /\ h >= 1
        BY <1>1, <2>1, <3>1
      <4>2. D!LowDigit(t) = 10 /\ D!HighDigit(t) = 16 * (9 - h)
        <5>1. t % 16 = 10 /\ t \div 16 = 9 - h /\ (9 - h) % 16 = 9 - h
          BY <4>1
        <5> QED
          BY <5>1 DEF D!LowDigit, D!HighDigit
      <4>3. r = (16 * (9 - h) + 16) % 256
        BY <4>2, Eights
      <4>4. r = 16 * (10 - h) + 0
        BY <4>1, <4>3
      <4>5. (0 - b - c) % 100 = 10 * (10 - h) + 0
        BY <1>1, <3>1, <4>1
      <4>6. 10 - h \in 0 .. 9 /\ 0 \in 0 .. 9
        BY <4>1
      <4> QED
        BY <4>4, <4>5, <4>6, TwoDigits
    <3>2. CASE l + c # 0
      <4>1. t = 16 * (9 - h) + (10 - l - c) /\ 9 - h \in 0 .. 9 /\ 10 - l - c \in 0 .. 9
        BY <3>2
      <4>2. D!LowDigit(t) = 10 - l - c
        BY <4>1, TwoDigits
      <4>3. r = t
        BY <3>2, <4>2
      <4>4. (0 - b - c) % 100 = 10 * (9 - h) + (10 - l - c)
        BY <1>1, <3>2
      <4> QED
        BY <4>1, <4>3, <4>4, TwoDigits
    <3> QED
      BY <3>1, <3>2
  <2>5. f.c \in BOOLEAN /\ f.c
    BY <2>3, Zenon
  <2> QED
    BY <2>1, <2>3, <2>4, <2>5 DEF Leaves
<1>8. b + c = 0 \/ b + c # 0
  OBVIOUS
<1> QED
  BY <1>6, <1>7, <1>8, Zenon

(* BcdDecimal: ABCD, SBCD and NBCD calculate with decimal numbers and      *)
(* their carry (m68k_op_abcd, sbcd and nbcd of m68kopac.c and m68kopnz.c). *)
THEOREM Decimals == Spec => []BcdDecimal
<1>1. ASSUME Calculated PROVE BcdDecimal
  <2>1. src \in Int /\ dst \in Int /\ x \in {0, 1}
    BY <1>1, Given DEF Values
  <2>2. src % 100 \in 0 .. 99 /\ dst % 100 \in 0 .. 99
    BY <2>1
  <2> DEFINE m == src % 100
             n == dst % 100
             sum == D!BcdSum(Digits(m), Digits(n), x)
             difference == D!BcdDifference(Digits(m), Digits(n), x)
             negation == D!BcdNegation(Digits(n), x)
  <2> HIDE DEF m, n
  <2>3. m \in 0 .. 99 /\ n \in 0 .. 99
    BY <2>2 DEF m, n
  <2> HIDE DEF sum, difference, negation
  <2>4. /\ Leaves(sum, m + n + x)
        /\ sum.c \in BOOLEAN /\ (sum.c <=> m + n + x > 99)
    BY <2>1, <2>3, BcdSums, Zenon DEF sum
  <2>5. /\ Leaves(difference, n - m - x)
        /\ difference.c \in BOOLEAN /\ (difference.c <=> n - m - x < 0)
    BY <2>1, <2>3, BcdDifferences, Zenon DEF difference
  <2>6. /\ negation.c \in BOOLEAN /\ (negation.c <=> n + x > 0)
        /\ negation.c => Leaves(negation, 0 - n - x)
    BY <2>1, <2>3, BcdNegations DEF negation
  <2>7. sum.c = (m + n + x > 99)
    BY <2>4
  <2>8. difference.c = (n - m - x < 0)
    BY <2>5
  <2>9. negation.c = (n + x > 0)
    BY <2>6
  <2> QED
    BY <2>4, <2>5, <2>6, <2>7, <2>8, <2>9, Zenon DEF BcdDecimal, Leaves, m, n, sum, difference, negation
<1> QED
  BY <1>1, Calculating, PTL
=============================================================================
