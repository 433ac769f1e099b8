---------------------------- MODULE M68kAlu_proofs ----------------------------
(***************************************************************************)
(* Facts about widths and places that the proofs about the sound           *)
(* processor share: the span of a width, what is left of a number cut to   *)
(* it, and the powers of two, which are derived from the number of subsets *)
(* of a finite set.                                                        *)
(***************************************************************************)
EXTENDS M68kAlu, TLAPS, FiniteSetTheorems

(* A number is its quotient and its remainder.                             *)
LEMMA DivisionAlgorithm ==
    ASSUME NEW S \in Nat, S > 0, NEW v \in Int
    PROVE  v \div S \in Int /\ v % S \in 0 .. S - 1 /\ v = (v \div S) * S + (v % S)
OBVIOUS

(* Half the span of a width: the least number whose sign bit is set.       *)
Middle(w) == Span(w) \div 2

(* The number of values of each width: a width is two of the one below it. *)
LEMMA Spans ==
    /\ Radix \in Nat /\ Radix > 1
    /\ \A w \in Width : Span(w) \in Nat /\ Span(w) > 0
    /\ Span(Byte) = Radix
    /\ Span(Word) = Span(Byte) * Span(Byte)
    /\ Span(Long) = Span(Word) * Span(Word)
<1>1. Radix \in Nat /\ Radix > 1
  BY WidthAssumption
<1>2. Span(Byte) = Radix /\ Span(Word) = Radix * Radix
  BY DEF Span, Byte, Word
<1>3. Span(Long) = Radix * Radix * Radix * Radix
  BY DEF Span, Long
<1> DEFINE s == Radix * Radix
<1>4. s \in Nat /\ s > 0
  BY <1>1
<1>5. s * s = Radix * Radix * Radix * Radix
  BY <1>1
<1>6. s * s \in Nat /\ s * s > 0
  <2> HIDE DEF s
  <2> QED
    BY <1>4
<1>7. Span(Long) = s * s
  BY <1>3, <1>5
<1> HIDE DEF s
<1>8. \A w \in Width : Span(w) \in Nat /\ Span(w) > 0
  BY <1>1, <1>2, <1>4, <1>6, <1>7 DEF Width, s
<1> QED
  BY <1>1, <1>2, <1>7, <1>8 DEF s

(* Every width has an even number of values, so that it has a middle.      *)
LEMMA Middles ==
    ASSUME NEW w \in Width
    PROVE  /\ Middle(w) \in Nat /\ Middle(w) > 0 /\ Span(w) = 2 * Middle(w)
<1>1. PICK h \in Nat : Radix = 2 * h
  <2>1. Radix = 2 * (Radix \div 2) /\ Radix \div 2 \in Nat
    BY WidthAssumption
  <2> QED
    BY <2>1
<1>2. \E k \in Nat : Span(w) = 2 * k
  <2>1. CASE w = Byte
    BY <2>1, <1>1, Spans
  <2>2. CASE w = Word
    <3>1. Radix * Radix = 2 * (h * Radix) /\ h * Radix \in Nat
      BY <1>1, Spans
    <3> QED
      BY <2>2, <3>1, Spans
  <2>3. CASE w = Long
    <3>1. PICK s \in Nat : s = Span(Word)
      BY Spans DEF Width
    <3>2. PICK k \in Nat : s = 2 * k
      <4>1. Radix * Radix = 2 * (h * Radix) /\ h * Radix \in Nat
        BY <1>1, Spans
      <4> QED
        BY <3>1, <4>1, Spans
    <3>3. s * s = 2 * (k * s) /\ k * s \in Nat
      BY <3>2
    <3> QED
      BY <2>3, <3>1, <3>3, Spans
  <2> QED
    BY <2>1, <2>2, <2>3 DEF Width
<1>3. Span(w) \in Nat /\ Span(w) > 0
  BY Spans
<1> QED
  BY <1>2, <1>3 DEF Middle

(* A division is known by a quotient and a remainder in range.             *)
LEMMA Remainder ==
    ASSUME NEW S \in Nat, S > 0, NEW q \in Int, NEW r \in 0 .. S - 1, NEW v \in Int,
           v = q * S + r
    PROVE  v % S = r /\ v \div S = q
<1> DEFINE k == v \div S
           m == v % S
<1>1. k \in Int /\ m \in 0 .. S - 1 /\ v = k * S + m
  OBVIOUS
<1> HIDE DEF k, m
<1>2. (k - q) * S = r - m
  BY <1>1
<1>3. r - m < S /\ m - r < S
  BY <1>1
<1>4. ~(k > q)
  <2>1. k > q => k - q >= 1
    BY <1>1
  <2>2. k - q >= 1 => (k - q) * S >= S
    BY <1>1
  <2> QED
    BY <1>1, <1>2, <1>3, <2>1, <2>2
<1>5. ~(k < q)
  <2>1. k < q => k - q <= -1
    BY <1>1
  <2>2. k - q <= -1 => (k - q) * S <= -S
    BY <1>1
  <2> QED
    BY <1>1, <1>2, <1>3, <2>1, <2>2
<1>6. k = q
  BY <1>1, <1>4, <1>5
<1>7. m = r
  BY <1>1, <1>2, <1>6
<1> QED
  BY <1>6, <1>7 DEF k, m

(* A number cut to a width, when it is not far from the width's values.    *)
LEMMA Near ==
    ASSUME NEW w \in Width, NEW v \in Int
    PROVE  /\ Low(w, v) \in Values(w)
           /\ 0 <= v /\ v < Span(w) => Low(w, v) = v
           /\ - Span(w) <= v /\ v < 0 => Low(w, v) = v + Span(w)
           /\ Span(w) <= v /\ v < 2 * Span(w) => Low(w, v) = v - Span(w)
<1> DEFINE S == Span(w)
<1>1. S \in Nat /\ S > 0
  BY Spans
<1>2. Low(w, v) = v % S /\ Values(w) = 0 .. S - 1
  BY DEF Low, Values
<1> HIDE DEF S
<1>3. v % S \in 0 .. S - 1
  BY <1>1
<1>4. ASSUME NEW q \in Int, NEW r \in 0 .. S - 1, v = q * S + r PROVE v % S = r
  BY <1>1, <1>4, Remainder
<1>5. 0 <= v /\ v < S => v % S = v
  <2>1. v = 0 * S + v
    BY <1>1
  <2> QED
    BY <1>1, <1>4, <2>1
<1>6. - S <= v /\ v < 0 => v % S = v + S
  <2>1. v = (-1) * S + (v + S)
    BY <1>1
  <2>2. - S <= v /\ v < 0 => v + S \in 0 .. S - 1
    BY <1>1
  <2> QED
    BY <1>4, <2>1, <2>2
<1>7. S <= v /\ v < 2 * S => v % S = v - S
  <2>1. v = 1 * S + (v - S)
    BY <1>1
  <2>2. S <= v /\ v < 2 * S => v - S \in 0 .. S - 1
    BY <1>1
  <2> QED
    BY <1>4, <2>1, <2>2
<1> QED
  BY <1>2, <1>3, <1>5, <1>6, <1>7 DEF S

(* The sign bit of a value, and the value read with its sign.              *)
LEMMA SignBit ==
    ASSUME NEW w \in Width, NEW v \in Values(w)
    PROVE  /\ v \in Nat /\ v < Span(w) /\ Low(w, v) = v
           /\ Msb(w, v) \in BOOLEAN
           /\ Msb(w, v) <=> v >= Middle(w)
           /\ Signed(w, v) = IF v >= Middle(w) THEN v - Span(w) ELSE v
<1>1. v \in Nat /\ v < Span(w) /\ v \in Int /\ 0 <= v
  BY Spans DEF Values
<1>2. Low(w, v) = v
  BY <1>1, Near
<1>3. Msb(w, v) <=> v >= Middle(w)
  BY <1>1, <1>2, Middles DEF Msb
<1>4. Msb(w, v) \in BOOLEAN
  BY <1>1, <1>2, Spans DEF Msb
<1>5. Signed(w, v) = IF v >= Middle(w) THEN v - Span(w) ELSE v
  BY <1>1, <1>2, <1>3, Spans, Middles DEF Signed
<1> QED
  BY <1>1, <1>2, <1>3, <1>4, <1>5

-----------------------------------------------------------------------------
(* A power of two counts the subsets of a set, which is all that the       *)
(* library says of it, and enough.                                         *)
LEMMA Subsets ==
    ASSUME NEW a \in Nat, NEW b \in Nat
    PROVE  /\ IsFiniteSet(SUBSET (a + 1 .. a + b))
           /\ Cardinality(SUBSET (a + 1 .. a + b)) = 2 ^ b
<1> DEFINE S == a + 1 .. a + b
<1>1. a + 1 \in Int /\ a + b \in Int
  OBVIOUS
<1>2. IsFiniteSet(S) /\ Cardinality(S) = IF a + 1 > a + b THEN 0 ELSE a + b - (a + 1) + 1
  BY <1>1, FS_Interval
<1>3. Cardinality(S) = b
  BY <1>2
<1> QED
  BY <1>2, <1>3, FS_SUBSET

(* Powers of two are positive.                                             *)
LEMMA Power ==
    ASSUME NEW a \in Nat
    PROVE  2 ^ a \in Nat /\ 2 ^ a > 0
<1>0. 0 + 1 = 1 /\ 0 + a = a
  OBVIOUS
<1>1. IsFiniteSet(SUBSET (1 .. a)) /\ Cardinality(SUBSET (1 .. a)) = 2 ^ a
  BY <1>0, Subsets
<1>2. Cardinality(SUBSET (1 .. a)) \in Nat
  BY <1>1, FS_CardinalityType
<1>3. Cardinality(SUBSET (1 .. a)) # 0
  <2>1. SUBSET (1 .. a) # {}
    OBVIOUS
  <2> QED
    BY <1>1, <2>1, FS_EmptySet
<1> QED
  BY <1>1, <1>2, <1>3

(* A subset of a + b things is one of the first a and one of the others.   *)
LEMMA PowerOfSum ==
    ASSUME NEW a \in Nat, NEW b \in Nat
    PROVE  2 ^ (a + b) = 2 ^ a * 2 ^ b
<1> DEFINE A == 1 .. a
           B == a + 1 .. a + b
           C == 1 .. a + b
           f == [p \in (SUBSET A) \X (SUBSET B) |-> p[1] \cup p[2]]
<1>1. IsFiniteSet(SUBSET A) /\ Cardinality(SUBSET A) = 2 ^ a
  <2>1. 0 + 1 = 1 /\ 0 + a = a
    OBVIOUS
  <2> QED
    BY <2>1, Subsets
<1>2. IsFiniteSet(SUBSET B) /\ Cardinality(SUBSET B) = 2 ^ b
  BY Subsets
<1>3. IsFiniteSet(SUBSET C) /\ Cardinality(SUBSET C) = 2 ^ (a + b)
  <2>1. 0 + 1 = 1 /\ 0 + (a + b) = a + b /\ a + b \in Nat
    OBVIOUS
  <2> QED
    BY <2>1, Subsets
<1>4. A \cup B = C /\ A \cap B = {}
  OBVIOUS
<1>5. ExistsBijection((SUBSET A) \X (SUBSET B), SUBSET C)
  <2> HIDE DEF A, B, C
  <2>1. f \in [(SUBSET A) \X (SUBSET B) -> SUBSET C]
    BY <1>4
  <2>2. ASSUME NEW p \in (SUBSET A) \X (SUBSET B), NEW q \in (SUBSET A) \X (SUBSET B),
               f[p] = f[q]
        PROVE  p = q
    <3>1. p[1] \cup p[2] = q[1] \cup q[2]
      BY <2>2
    <3>2. p[1] \subseteq A /\ p[2] \subseteq B /\ q[1] \subseteq A /\ q[2] \subseteq B
      OBVIOUS
    <3>3. p[1] = q[1]
      BY <3>1, <3>2, <1>4
    <3>4. p[2] = q[2]
      BY <3>1, <3>2, <1>4
    <3> QED
      BY <3>3, <3>4
  <2>3. ASSUME NEW t \in SUBSET C
        PROVE  \E p \in (SUBSET A) \X (SUBSET B) : f[p] = t
    <3>1. <<t \cap A, t \cap B>> \in (SUBSET A) \X (SUBSET B)
      OBVIOUS
    <3>2. (t \cap A) \cup (t \cap B) = t
      BY <1>4
    <3>3. f[<<t \cap A, t \cap B>>] = t
      BY <3>1, <3>2
    <3> QED
      BY <3>1, <3>3
  <2> HIDE DEF f
  <2>4. f \in Bijection((SUBSET A) \X (SUBSET B), SUBSET C)
    BY <2>1, <2>2, <2>3 DEF Bijection, Injection, Surjection, IsInjective
  <2> QED
    BY <2>4 DEF ExistsBijection
<1>6. /\ IsFiniteSet((SUBSET A) \X (SUBSET B))
      /\ Cardinality((SUBSET A) \X (SUBSET B)) = 2 ^ a * 2 ^ b
  BY <1>1, <1>2, FS_Product
<1>7. Cardinality(SUBSET C) = Cardinality((SUBSET A) \X (SUBSET B))
  BY <1>5, <1>6, FS_Bijection
<1> QED
  BY <1>3, <1>6, <1>7

(* The powers that are digits.                                             *)
LEMMA SmallPowers == 2 ^ 0 = 1 /\ 2 ^ 1 = 2
<1>1. 2 ^ 0 = 1
  <2>1. /\ IsFiniteSet(SUBSET (0 + 1 .. 0 + 0))
        /\ Cardinality(SUBSET (0 + 1 .. 0 + 0)) = 2 ^ 0
    BY Subsets
  <2>2. SUBSET (0 + 1 .. 0 + 0) = {{}}
    OBVIOUS
  <2> QED
    BY <2>1, <2>2, FS_Singleton
<1>2. 2 ^ 1 = 2
  <2>1. /\ IsFiniteSet(SUBSET (0 + 1 .. 0 + 1))
        /\ Cardinality(SUBSET (0 + 1 .. 0 + 1)) = 2 ^ 1
    BY Subsets
  <2>2. SUBSET (0 + 1 .. 0 + 1) = {{}} \cup {{1}}
    <3>1. 0 + 1 .. 0 + 1 = {1}
      OBVIOUS
    <3> QED
      BY <3>1
  <2>3. Cardinality({{}} \cup {{1}}) = Cardinality({{}}) + 1
    <3>1. IsFiniteSet({{}}) /\ Cardinality({{}}) = 1
      BY FS_Singleton
    <3>2. {1} \notin {{}}
      OBVIOUS
    <3> QED
      BY <3>1, <3>2, FS_AddElement
  <2> QED
    BY <2>1, <2>2, <2>3, FS_Singleton
<1> QED
  BY <1>1, <1>2

(* A product grows with its factors.                                       *)
LEMMA Factor ==
    ASSUME NEW a \in Nat, NEW b \in Nat, NEW c \in Nat, NEW d \in Nat,
           a <= b, c <= d
    PROVE  a * c <= b * d
<1>1. PICK e \in Nat : b = a + e
  BY b - a \in Nat, b = a + (b - a)
<1>2. PICK g \in Nat : d = c + g
  BY d - c \in Nat, d = c + (d - c)
<1>3. b * d = a * c + (a * g + e * c + e * g)
  BY <1>1, <1>2
<1>4. a * g \in Nat /\ e * c \in Nat /\ e * g \in Nat /\ a * c \in Nat
  OBVIOUS
<1> QED
  BY <1>3, <1>4

(* A number in two halves is compared by its upper half.                   *)
LEMMA HalvesOrder ==
    ASSUME NEW S \in Nat, NEW h \in Int, NEW l \in 0 .. S - 1, NEW B \in Int
    PROVE  /\ h * S + l >= B * S <=> h >= B
           /\ h * S + l < B * S <=> h < B
<1>1. ASSUME h >= B PROVE h * S + l >= B * S
  <2>1. PICK d \in Nat : h = B + d
    BY <1>1
  <2>2. h * S = B * S + d * S /\ d * S \in Nat /\ B * S \in Int
    BY <2>1
  <2> QED
    BY <2>2
<1>2. ASSUME h < B PROVE h * S + l < B * S
  <2>1. PICK d \in Nat : B = h + 1 + d
    BY <1>2
  <2>2. B * S = h * S + S + d * S /\ d * S \in Nat /\ h * S \in Int
    BY <2>1
  <2> QED
    BY <2>2
<1>3. h * S + l \in Int /\ B * S \in Int
  OBVIOUS
<1> QED
  BY <1>1, <1>2, <1>3

(* A number below P * Q in two parts,                                      *)
LEMMA Cut ==
    ASSUME NEW P \in Nat, NEW Q \in Nat, P > 0, Q > 0, NEW v \in 0 .. P * Q - 1
    PROVE  v \div Q \in 0 .. P - 1 /\ v % Q \in 0 .. Q - 1 /\ v = (v \div Q) * Q + (v % Q)
<1>1. v \in Int /\ 0 <= v /\ v < P * Q
  <2>1. P * Q \in Int
    OBVIOUS
  <2> QED
    BY <2>1
<1>2. v \div Q \in Int /\ v % Q \in 0 .. Q - 1 /\ v = (v \div Q) * Q + (v % Q)
  BY <1>1, DivisionAlgorithm
<1> DEFINE h == v \div Q
           l == v % Q
<1> HIDE DEF h, l
<1>3. h \in Int /\ l \in 0 .. Q - 1 /\ v = h * Q + l
  BY <1>2 DEF h, l
<1>4. h < P
  BY <1>1, <1>3, HalvesOrder
<1>5. h >= 0
  <2>1. v >= 0 * Q <=> h >= 0
    BY <1>3, HalvesOrder
  <2> QED
    BY <2>1, <1>1
<1> QED
  BY <1>3, <1>4, <1>5 DEF h, l

(* and a number made of two parts.                                         *)
LEMMA Composed ==
    ASSUME NEW P \in Nat, NEW Q \in Nat, P > 0, Q > 0, NEW h \in 0 .. P - 1, NEW l \in 0 .. Q - 1
    PROVE  h * Q + l \in 0 .. P * Q - 1 /\ (h * Q + l) \div Q = h /\ (h * Q + l) % Q = l
<1>1. h \in Int /\ l \in Int /\ h * Q \in Int /\ P * Q \in Int
  OBVIOUS
<1>2. h * Q + l < P * Q
  BY HalvesOrder
<1>3. h * Q + l >= 0
  <2>1. h * Q + l >= 0 * Q <=> h >= 0
    BY HalvesOrder
  <2> QED
    BY <2>1
<1>4. h * Q + l \in Int
  BY <1>1
<1>5. (h * Q + l) \div Q = h /\ (h * Q + l) % Q = l
  BY <1>4, <1>1, Remainder
<1> QED
  BY <1>1, <1>2, <1>3, <1>4, <1>5

(* The powers on both sides of a cut.                                      *)
LEMMA PowerSplit ==
    ASSUME NEW n \in Nat, NEW k \in 0 .. n
    PROVE  /\ k \in Nat /\ n - k \in Nat
           /\ 2 ^ n \in Nat /\ 2 ^ k \in Nat /\ 2 ^ (n - k) \in Nat
           /\ 2 ^ n > 0 /\ 2 ^ k > 0 /\ 2 ^ (n - k) > 0
           /\ 2 ^ n = 2 ^ k * 2 ^ (n - k)
<1>1. k \in Nat /\ n - k \in Nat /\ k + (n - k) = n
  OBVIOUS
<1>2. 2 ^ (k + (n - k)) = 2 ^ k * 2 ^ (n - k)
  BY <1>1, PowerOfSum
<1> QED
  BY <1>1, <1>2, Power

(* One more power.                                                         *)
LEMMA Four == 2 ^ 2 = 4
<1>1. 2 ^ (1 + 1) = 2 ^ 1 * 2 ^ 1
  BY PowerOfSum, 1 \in Nat
<1>2. 1 + 1 = 2
  OBVIOUS
<1> QED
  BY <1>1, <1>2, SmallPowers

(* The powers above one.                                                   *)
LEMMA NextPowers ==
    ASSUME NEW a \in Nat
    PROVE  2 ^ (a + 1) = 2 ^ a * 2 /\ 2 ^ (a + 2) = 2 ^ a * 4
<1>1. 2 ^ (a + 1) = 2 ^ a * 2 ^ 1
  BY PowerOfSum, 1 \in Nat
<1>2. 2 ^ (a + 2) = 2 ^ a * 2 ^ 2
  BY PowerOfSum, 2 \in Nat
<1> QED
  BY <1>1, <1>2, SmallPowers, Four
=============================================================================
