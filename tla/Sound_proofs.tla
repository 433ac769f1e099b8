---------------------------- MODULE Sound_proofs ----------------------------
(***************************************************************************)
(* Proofs about Sound: the timers keep their range and fire where the      *)
(* pieces are cut, and the SCU is told of every upper source it should     *)
(* hear of, for any sources, sample length, prescalers and slices.         *)
(***************************************************************************)
EXTENDS Sound, WellFoundedInduction, TLAPS

-----------------------------------------------------------------------------
(* The inductive invariant.                                                *)

CpuSet == [irq : 0 .. 7, mask : 0 .. 7, stopped : BOOLEAN]

RegSet == [enabled : [Cpus -> SUBSET Sources],
           pending : [Cpus -> SUBSET Sources],
           reported : SUBSET Sources,
           came : [Cpus -> SUBSET Sources],
           cpu : CpuSet]

(* A record of the registers as the invariant wants it.                    *)
Told(r) == r.enabled["main"] \cap r.pending["main"] \cap High \subseteq r.reported
RegsOk(r) == r \in RegSet /\ Told(r)

TimerSet == [count : 0 .. TimerTop, scale : Scales]

(* A timer counts in whole steps, also across the wrap: only so do the     *)
(* cycles left to its top end on a sample.                                 *)
WholeSteps(t) == \E k \in Nat : t.count = k * Step(t)

PieceSet == [cycles : Nat, samples : Nat, on : BOOLEAN, exact : SUBSET Timers]

(* A piece is part of the slice, and its samples are those its cycles make *)
(* with what the last piece left of a sample.                              *)
PieceOk ==
    /\ piece \in PieceSet
    /\ piece.cycles <= cycles
    /\ piece.on => cycles > 0
    /\ ~piece.on => piece = None
    /\ piece.samples * Sample <= piece.cycles + Sample - 1

IInv ==
    /\ RegsOk(Now)
    /\ running \in BOOLEAN
    /\ levels \in [0 .. 2 -> SUBSET (0 .. 7)]
    /\ timer \in [Timers -> TimerSet]
    /\ \A i \in Timers : WholeSteps(timer[i])
    /\ sampleTimer \in 0 .. Sample - 1
    /\ cycles \in 0 .. TimerTop - 1
    /\ PieceOk
    /\ CutAtTimers

-----------------------------------------------------------------------------
(* The registers.                                                          *)

(* The two sides of an interrupt.                                          *)
LEMMA CpusAre == "main" \in Cpus /\ "sound" \in Cpus /\ "main" # "sound"
BY DEF Cpus

(* SCILV0 to SCILV2 make levels of three bits.                             *)
LEMMA LevelsInRange == ASSUME NEW i PROVE LevelOf(i) \in 0 .. 7
BY DEF LevelOf

(* A request leaves the sound processor in one of its states.              *)
LEMMA SetIrqTyped ==
    ASSUME NEW c \in CpuSet, NEW l \in 0 .. 7
    PROVE  Accept(c, l) \in CpuSet /\ MusashiSetIrq(c, l) \in CpuSet
BY DEF CpuSet, Accept, SetIrq, MusashiSetIrq

(* What ScspRaiseInterrupt changes, on either side.                        *)
LEMMA RaiseChanges ==
    ASSUME NEW r \in RegSet, NEW i \in Sources, NEW t \in Cpus
    PROVE  LET q == RaiseInterrupt(r, i, t) IN
           /\ q \in RegSet
           /\ q.enabled = r.enabled
           /\ q.pending = [r.pending EXCEPT ![t] = @ \cup {i}]
           /\ q.came = r.came
           /\ r.reported \subseteq q.reported
           /\ t = "main" /\ i \in r.enabled["main"] => i \in q.reported
<1> DEFINE p == [r EXCEPT !.pending[t] = @ \cup {i}]
           u == [p EXCEPT !.reported = @ \cup {i}]
           c == MusashiSetIrq(p.cpu, LevelOf(i))
           v == [p EXCEPT !.cpu = c]
<1>1. /\ p \in RegSet /\ p.enabled = r.enabled /\ p.came = r.came
      /\ p.pending = [r.pending EXCEPT ![t] = @ \cup {i}]
      /\ p.reported = r.reported /\ p.cpu = r.cpu
    BY DEF RegSet
<1> HIDE DEF p
<1>2. /\ u \in RegSet /\ u.enabled = p.enabled /\ u.came = p.came
      /\ u.pending = p.pending /\ u.reported = p.reported \cup {i}
    BY <1>1 DEF RegSet
<1>3. p.cpu \in CpuSet
    BY <1>1 DEF RegSet
<1>4. c \in CpuSet
    BY <1>3, LevelsInRange, SetIrqTyped
<1> HIDE DEF c
<1>5. /\ v \in RegSet /\ v.enabled = p.enabled /\ v.came = p.came
      /\ v.pending = p.pending /\ v.reported = p.reported
    BY <1>1, <1>4 DEF RegSet
<1>6. RaiseInterrupt(r, i, t) = IF i \notin r.enabled[t] THEN p
                                ELSE IF t = "main" THEN u ELSE v
    BY DEF RaiseInterrupt, p, u, v, c
<1> HIDE DEF u, v
<1> QED
    BY <1>1, <1>2, <1>5, <1>6

(* Raising tells the SCU what it should hear.                              *)
LEMMA RaiseOk ==
    ASSUME NEW r, RegsOk(r), NEW i \in Sources, NEW t \in Cpus
    PROVE  RegsOk(RaiseInterrupt(r, i, t))
<1> DEFINE q == RaiseInterrupt(r, i, t)
<1>1. r \in RegSet /\ Told(r)
    BY DEF RegsOk
<1>2. /\ q \in RegSet
      /\ q.enabled = r.enabled
      /\ q.pending = [r.pending EXCEPT ![t] = @ \cup {i}]
      /\ r.reported \subseteq q.reported
      /\ t = "main" /\ i \in r.enabled["main"] => i \in q.reported
    BY <1>1, RaiseChanges
<1> HIDE DEF q
<1>3. q.pending["main"] = r.pending["main"] \cup (IF t = "main" THEN {i} ELSE {})
    BY <1>1, <1>2, CpusAre DEF RegSet
<1>4. ASSUME NEW x \in High, x \in q.enabled["main"], x \in q.pending["main"]
      PROVE  x \in q.reported
    <2>1. CASE x \in r.pending["main"]
        BY <1>1, <1>2, <1>4, <2>1 DEF Told
    <2>2. CASE x \notin r.pending["main"]
        BY <1>2, <1>3, <1>4, <2>2
    <2> QED
        BY <2>1, <2>2
<1>5. Told(q)
    BY <1>4 DEF Told
<1> QED
    BY <1>2, <1>5 DEF RegsOk, q

(* So does the event.                                                      *)
LEMMA HappensOk ==
    ASSUME NEW r, RegsOk(r), NEW i \in Sources, NEW t \in Cpus
    PROVE  RegsOk(Happens(r, i, t))
<1> DEFINE q == RaiseInterrupt(r, i, t)
           u == [q EXCEPT !.came[t] = @ \cup {i}]
<1>1. q \in RegSet /\ Told(q)
    BY RaiseOk DEF RegsOk
<1> HIDE DEF q
<1>2. /\ u \in RegSet /\ u.enabled = q.enabled /\ u.pending = q.pending
      /\ u.reported = q.reported
    BY <1>1 DEF RegSet
<1>3. Happens(r, i, t) = u
    BY DEF Happens, q
<1> HIDE DEF u
<1> QED
    BY <1>1, <1>2, <1>3 DEF RegsOk, Told

(* And the event that both sides hear of.                                  *)
LEMMA HappensForBothOk ==
    ASSUME NEW r, RegsOk(r), NEW i \in Sources
    PROVE  RegsOk(HappensForBoth(r, i))
<1> DEFINE q == Happens(r, i, "main")
<1>1. RegsOk(q)
    BY HappensOk, CpusAre
<1> HIDE DEF q
<1>2. RegsOk(Happens(q, i, "sound"))
    BY <1>1, HappensOk, CpusAre
<1> QED
    BY <1>2 DEF HappensForBoth, q

(* ScspClearInterrupts clears at the SCU what it clears in MCIPD.          *)
LEMMA ClearOk ==
    ASSUME NEW r, RegsOk(r), NEW which, NEW t \in Cpus
    PROVE  RegsOk(ClearInterrupts(r, which, t))
<1> DEFINE p == [r EXCEPT !.pending[t] = @ \ which]
           q == [p EXCEPT !.came[t] = @ \ which]
           u == [q EXCEPT !.reported = IF t = "main" THEN @ \ which ELSE @]
<1>1. r \in RegSet /\ Told(r)
    BY DEF RegsOk
<1>2. /\ p \in RegSet /\ p.enabled = r.enabled /\ p.reported = r.reported
      /\ p.pending = [r.pending EXCEPT ![t] = @ \ which]
    BY <1>1 DEF RegSet
<1>3. ClearInterrupts(r, which, t) = u
    BY DEF ClearInterrupts
<1> HIDE DEF p
<1>4. /\ q \in RegSet /\ q.enabled = p.enabled /\ q.reported = p.reported
      /\ q.pending = p.pending
    BY <1>2 DEF RegSet
<1> HIDE DEF q
<1>5. /\ u \in RegSet /\ u.enabled = q.enabled /\ u.pending = q.pending
      /\ u.reported = IF t = "main" THEN q.reported \ which ELSE q.reported
    BY <1>4 DEF RegSet
<1> HIDE DEF u
<1>6. u.pending["main"] = IF t = "main" THEN r.pending["main"] \ which
                          ELSE r.pending["main"]
    <2>1. u.pending = [r.pending EXCEPT ![t] = @ \ which]
        BY <1>2, <1>4, <1>5
    <2>2. r.pending \in [Cpus -> SUBSET Sources] /\ "main" \in Cpus
        BY <1>1, CpusAre DEF RegSet
    <2> QED
        BY <2>1, <2>2
<1> QED
    BY <1>1, <1>2, <1>3, <1>4, <1>5, <1>6 DEF RegsOk, Told

-----------------------------------------------------------------------------
(* ScspCheckInterrupts, from r to q: what is added to MCIPD has been told, *)
(* and if anything was pending all the sources of D that are enabled.      *)
Checked(r, q, t, D) ==
    /\ q \in RegSet /\ q.enabled = r.enabled
    /\ r.reported \subseteq q.reported
    /\ r.pending[t] \subseteq q.pending[t]
    /\ q.pending["main"] \subseteq r.pending["main"] \cup q.reported
    /\ t = "main" /\ r.pending["main"] # {} =>
          D \cap q.enabled["main"] \subseteq q.reported

(* One source more has been looked at.                                     *)
LEMMA CheckOneChecks ==
    ASSUME NEW r, NEW q, NEW t \in Cpus, NEW which, NEW D, NEW i,
           Checked(r, q, t, D)
    PROVE  Checked(r, CheckOne(q, i, which, t), t, D \cup ({i} \cap which))
<1> DEFINE u == RaiseInterrupt(q, i, t)
           raise == i \in which /\ i \in q.enabled[t] /\ q.pending[t] # {}
<1>1. /\ q \in RegSet /\ q.enabled = r.enabled
      /\ r.reported \subseteq q.reported
      /\ r.pending[t] \subseteq q.pending[t]
      /\ q.pending["main"] \subseteq r.pending["main"] \cup q.reported
      /\ t = "main" /\ r.pending["main"] # {} =>
            D \cap q.enabled["main"] \subseteq q.reported
    BY DEF Checked
<1>2. CASE ~raise
    <2>1. CheckOne(q, i, which, t) = q
        BY <1>2 DEF CheckOne
    <2>2. t = "main" /\ r.pending["main"] # {} =>
             {i} \cap which \cap q.enabled["main"] = {}
        BY <1>1, <1>2
    <2> QED
        BY <1>1, <2>1, <2>2 DEF Checked
<1>3. CASE raise
    <2>1. CheckOne(q, i, which, t) = u
        BY <1>3 DEF CheckOne
    <2>2. i \in Sources
        BY <1>1, <1>3 DEF RegSet
    <2>3. /\ u \in RegSet
          /\ u.enabled = q.enabled
          /\ u.pending = [q.pending EXCEPT ![t] = @ \cup {i}]
          /\ q.reported \subseteq u.reported
          /\ t = "main" /\ i \in q.enabled["main"] => i \in u.reported
        BY <1>1, <2>2, RaiseChanges
    <2> HIDE DEF u
    <2>4. q.pending \in [Cpus -> SUBSET Sources]
        BY <1>1 DEF RegSet
    <2>5. /\ u.pending["main"] \subseteq q.pending["main"] \cup u.reported
          /\ q.pending[t] \subseteq u.pending[t]
        BY <1>3, <2>3, <2>4, CpusAre
    <2>6. t = "main" /\ r.pending["main"] # {} =>
             (D \cup ({i} \cap which)) \cap u.enabled["main"] \subseteq u.reported
        BY <1>1, <1>3, <2>3
    <2>7. u.pending["main"] \subseteq r.pending["main"] \cup u.reported
        BY <1>1, <2>3, <2>5
    <2>8. Checked(r, u, t, D \cup ({i} \cap which))
        BY <1>1, <2>3, <2>5, <2>6, <2>7 DEF Checked
    <2> QED
        BY <2>8, <2>1
<1> QED
    BY <1>2, <1>3

(* What has been checked for a set has been for its subsets.               *)
LEMMA CheckedFewer ==
    ASSUME NEW r, NEW q, NEW t, NEW D, NEW E, Checked(r, q, t, D), E \subseteq D
    PROVE  Checked(r, q, t, E)
BY DEF Checked

(* The loop looks at all eleven.                                           *)
LEMMA CheckThreeChecks ==
    ASSUME NEW r, NEW q, NEW t \in Cpus, NEW which, NEW D, NEW i \in Nat,
           Checked(r, q, t, D)
    PROVE  /\ Checked(r, CheckThree(q, i, which, t), t,
                      D \cup ((i .. i + 2) \cap which))
           /\ Checked(r, CheckFour(q, i, which, t), t,
                      D \cup ((i .. i + 3) \cap which))
<1> DEFINE S(j) == {j} \cap which
           a == CheckOne(q, i, which, t)
           b == CheckOne(a, i + 1, which, t)
           c == CheckOne(b, i + 2, which, t)
           d == CheckOne(c, i + 3, which, t)
<1>1. Checked(r, a, t, D \cup S(i))
    BY CheckOneChecks
<1>2. CheckThree(q, i, which, t) = c /\ CheckFour(q, i, which, t) = d
    BY DEF CheckThree, CheckFour
<1>3. /\ D \cup ((i .. i + 2) \cap which)
            \subseteq D \cup S(i) \cup S(i + 1) \cup S(i + 2)
      /\ D \cup ((i .. i + 3) \cap which)
            \subseteq D \cup S(i) \cup S(i + 1) \cup S(i + 2) \cup S(i + 3)
    OBVIOUS
<1> HIDE DEF a
<1>4. Checked(r, b, t, D \cup S(i) \cup S(i + 1))
    BY <1>1, CheckOneChecks
<1> HIDE DEF b
<1>5. Checked(r, c, t, D \cup S(i) \cup S(i + 1) \cup S(i + 2))
    BY <1>4, CheckOneChecks
<1> HIDE DEF c
<1>6. Checked(r, d, t, D \cup S(i) \cup S(i + 1) \cup S(i + 2) \cup S(i + 3))
    BY <1>5, CheckOneChecks
<1> HIDE DEF d, S
<1> QED
    BY <1>2, <1>3, <1>5, <1>6, CheckedFewer

(* So ScspCheckInterrupts looks at all that which holds.                   *)
LEMMA AllChecked ==
    ASSUME NEW r \in RegSet, NEW t \in Cpus, NEW which
    PROVE  Checked(r, CheckInterrupts(r, which, t), t, which \cap (0 .. 10))
<1> DEFINE a == CheckFour(r, 0, which, t)
           b == CheckFour(a, 4, which, t)
           c == CheckThree(b, 8, which, t)
           S(i, j) == (i .. j) \cap which
<1>1. Checked(r, r, t, {})
    BY DEF Checked
<1>2. Checked(r, a, t, {} \cup S(0, 0 + 3))
    BY <1>1, CheckThreeChecks
<1>3. CheckInterrupts(r, which, t) = c
    BY DEF CheckInterrupts
<1>4. which \cap (0 .. 10)
         \subseteq {} \cup S(0, 0 + 3) \cup S(4, 4 + 3) \cup S(8, 8 + 2)
    OBVIOUS
<1> HIDE DEF a
<1>5. Checked(r, b, t, {} \cup S(0, 0 + 3) \cup S(4, 4 + 3))
    BY <1>2, CheckThreeChecks
<1> HIDE DEF b
<1>6. Checked(r, c, t, {} \cup S(0, 0 + 3) \cup S(4, 4 + 3) \cup S(8, 8 + 2))
    BY <1>5, CheckThreeChecks
<1> HIDE DEF c, S
<1> QED
    BY <1>3, <1>4, <1>6, CheckedFewer

(* Writing an enable register: every upper source of the main side that is *)
(* both enabled and pending after it has been told, if the upper sources   *)
(* are among those looked at.                                              *)
LEMMA EnableOk ==
    ASSUME NEW r, RegsOk(r), NEW which \in SUBSET Sources, NEW t \in Cpus,
           NEW looked, Sources \cap High \subseteq looked
    PROVE  RegsOk(CheckInterrupts([r EXCEPT !.enabled[t] = which], looked, t))
<1> DEFINE p == [r EXCEPT !.enabled[t] = which]
           q == CheckInterrupts(p, looked, t)
<1>1. r \in RegSet /\ Told(r)
    BY DEF RegsOk
<1>2. /\ p \in RegSet /\ p.pending = r.pending /\ p.reported = r.reported
      /\ p.enabled = [r.enabled EXCEPT ![t] = which]
      /\ r.enabled \in [Cpus -> SUBSET Sources]
    BY <1>1 DEF RegSet
<1> HIDE DEF p
<1>3. Checked(p, q, t, looked \cap (0 .. 10))
    BY <1>2, AllChecked
<1> HIDE DEF q
<1>4. /\ q \in RegSet /\ q.enabled = p.enabled
      /\ p.reported \subseteq q.reported
      /\ q.pending["main"] \subseteq p.pending["main"] \cup q.reported
      /\ t = "main" /\ p.pending["main"] # {} =>
            (looked \cap (0 .. 10)) \cap q.enabled["main"] \subseteq q.reported
    BY <1>3 DEF Checked
<1>5. ASSUME NEW x \in High, x \in q.enabled["main"], x \in q.pending["main"]
      PROVE  x \in q.reported
    <2>1. CASE x \notin p.pending["main"]
        BY <1>4, <1>5, <2>1
    <2>2. CASE x \in p.pending["main"] /\ t = "main"
        <3>1. x \in Sources /\ x \in 0 .. 10
            BY <1>4, <1>5, CpusAre DEF RegSet, High
        <3> QED
            BY <1>4, <1>5, <2>2, <3>1
    <2>3. CASE x \in p.pending["main"] /\ t # "main"
        <3>1. q.enabled["main"] = r.enabled["main"]
            BY <1>2, <1>4, <2>3, CpusAre
        <3> QED
            BY <1>1, <1>2, <1>4, <1>5, <2>3, <3>1 DEF Told
    <2> QED
        BY <2>1, <2>2, <2>3
<1>6. Told(q)
    BY <1>5 DEF Told
<1> QED
    BY <1>4, <1>6 DEF RegsOk, q, p

-----------------------------------------------------------------------------
(* Arithmetic.                                                             *)

(* Nonlinear facts that the later proofs cite.                             *)
LEMMA MulLess ==
    ASSUME NEW a \in Int, NEW b \in Int, NEW c \in Nat \ {0},
           a * c < (b + 1) * c
    PROVE  a <= b
<1> SUFFICES ASSUME a >= b + 1 PROVE FALSE
    OBVIOUS
<1>1. a * c >= (b + 1) * c
    OBVIOUS
<1> QED
    BY <1>1

(* A product grows with its factor.                                        *)
LEMMA MulMonotone ==
    ASSUME NEW a \in Int, NEW b \in Int, NEW c \in Nat, a <= b
    PROVE  a * c <= b * c
OBVIOUS

(* Products are associative, commutative and distributive.                 *)
LEMMA MulLaws ==
    ASSUME NEW a \in Int, NEW b \in Int, NEW c \in Int
    PROVE  /\ a * (b * c) = (a * b) * c /\ a * b = b * a /\ a * b \in Int
           /\ (a + b) * c = a * c + b * c /\ (a - b) * c = a * c - b * c
OBVIOUS

(* A quotient times its divisor is no more than the dividend.              *)
LEMMA Division ==
    ASSUME NEW a \in Nat, NEW b \in Nat \ {0}
    PROVE  a \div b \in Nat /\ (a \div b) * b <= a /\ a % b \in 0 .. b - 1
OBVIOUS

(* A sample is a whole number of steps, and the top of every timer too.    *)
LEMMA StepDivides ==
    ASSUME NEW t \in TimerSet
    PROVE  /\ Sample \in Nat \ {0} /\ TopSteps \in Nat \ {0} /\ TimerTop \in Nat
           /\ t.scale \in Nat \ {0} /\ t.count \in 0 .. TimerTop
           /\ Step(t) \in Nat \ {0} /\ Step(t) <= Sample
           /\ Step(t) * t.scale = Sample
           /\ TimerTop = (TopSteps * t.scale) * Step(t)
           /\ TopSteps * t.scale \in Nat
<1> DEFINE d == Step(t)
           c == t.scale
<1>1. /\ Sample \in Nat \ {0} /\ TopSteps \in Nat \ {0}
      /\ c \in 1 .. Sample /\ (Sample \div c) * c = Sample
    BY SoundAssumption DEF TimerSet
<1>2. t.count \in 0 .. TimerTop
    BY DEF TimerSet
<1>3. d = Sample \div c
    BY DEF Step
<1> HIDE DEF c, d
<1>4. d \in Nat /\ d * c = Sample
    BY <1>1, <1>3, Division
<1>5. d # 0
    BY <1>1, <1>4
<1>6. d <= Sample
    <2>1. 1 * d <= c * d
        BY <1>1, <1>4, MulMonotone
    <2> QED
        BY <1>1, <1>4, <2>1
<1>7. TimerTop = (TopSteps * c) * d
    <2>1. TopSteps * (c * d) = (TopSteps * c) * d
        BY <1>1, <1>4, MulLaws
    <2> QED
        BY <1>1, <1>4, <2>1 DEF TimerTop
<1>8. TimerTop \in Nat /\ TopSteps * c \in Nat
    BY <1>1 DEF TimerTop
<1> QED
    BY <1>1, <1>2, <1>4, <1>5, <1>6, <1>7, <1>8 DEF c, d

(* A piece of a slice is no longer than a timer's period.                  *)
LEMMA SamplesOfPiece ==
    ASSUME NEW m \in Nat, NEW n \in Nat, n < TimerTop,
           m * Sample <= n + Sample - 1
    PROVE  m <= TopSteps
<1>1. Sample \in Nat \ {0} /\ TopSteps \in Nat \ {0}
    BY SoundAssumption
<1>2. (TopSteps + 1) * Sample = TopSteps * Sample + Sample
    BY <1>1
<1>3. TopSteps * Sample \in Nat /\ m * Sample \in Nat
    BY <1>1
<1>4. m * Sample < (TopSteps + 1) * Sample
    BY <1>1, <1>2, <1>3 DEF TimerTop
<1> QED
    BY <1>1, <1>4, MulLess

(* ScspUpdateTimer wraps a timer once at most, and stays on its steps.     *)
LEMMA UpdateTimerOk ==
    ASSUME NEW t \in TimerSet, WholeSteps(t),
           piece.samples \in Nat, piece.samples <= TopSteps
    PROVE  UpdateTimer(t) \in TimerSet /\ WholeSteps(UpdateTimer(t))
<1> DEFINE d == Step(t)
           m == piece.samples
           a == Advanced(t)
           u == UpdateTimer(t)
           top == TopSteps * t.scale
<1>1. /\ Sample \in Nat \ {0} /\ TopSteps \in Nat /\ TimerTop \in Nat
      /\ t.count \in 0 .. TimerTop
      /\ d \in Nat \ {0} /\ d <= Sample
      /\ TimerTop = top * d /\ top \in Nat
    BY StepDivides
<1>2. PICK k \in Nat : t.count = k * d
    BY DEF WholeSteps
<1>3. m \in Nat /\ m <= TopSteps
    OBVIOUS
<1>4. a = t.count + m * d
    BY DEF Advanced
<1>5. /\ u = [t EXCEPT !.count = a - (IF Fires(t) THEN TimerTop ELSE 0)]
      /\ Fires(t) <=> a >= TimerTop
    BY DEF UpdateTimer, Fires
<1>6. u.scale = t.scale /\ t.scale \in Scales /\ Step(u) = d
    BY <1>5 DEF TimerSet, Step
<1> HIDE DEF d, m, a, top
<1>7. m * d \in Nat /\ m * d <= TimerTop
    <2>1. m * d <= TopSteps * d /\ d * TopSteps <= Sample * TopSteps
        BY <1>1, <1>3, MulMonotone
    <2>2. m * d \in Nat /\ TopSteps * d = d * TopSteps
        BY <1>1, <1>3
    <2>3. Sample * TopSteps = TimerTop
        BY <1>1 DEF TimerTop
    <2> QED
        BY <1>1, <2>1, <2>2, <2>3
<1>8. a \in Nat /\ a = (k + m) * d
    BY <1>1, <1>2, <1>3, <1>4, <1>7
<1>9. CASE a >= TimerTop
    <2>1. u.count = a - TimerTop
        BY <1>5, <1>9 DEF TimerSet
    <2>2. u.count \in 0 .. TimerTop
        BY <1>1, <1>4, <1>7, <1>9, <2>1
    <2>3. a - TimerTop = ((k + m) - top) * d
        BY <1>1, <1>3, <1>8, MulLaws
    <2>4. (k + m) - top \in Nat
        <3> SUFFICES ASSUME k + m + 1 <= top PROVE FALSE
            BY <1>1, <1>3
        <3>1. (k + m + 1) * d <= top * d
            BY <1>1, <1>3, MulMonotone
        <3>2. (k + m + 1) * d = (k + m) * d + d
            BY <1>1, <1>3
        <3> QED
            BY <1>1, <1>8, <1>9, <3>1, <3>2
    <2>5. WholeSteps(u)
        BY <1>6, <2>1, <2>3, <2>4 DEF WholeSteps
    <2>6. u \in TimerSet
        BY <1>5, <1>6, <2>1, <2>2 DEF TimerSet
    <2> QED
        BY <2>5, <2>6
<1>10. CASE ~(a >= TimerTop)
    <2>1. u.count = a
        BY <1>5, <1>8, <1>10 DEF TimerSet
    <2>2. u.count \in 0 .. TimerTop
        BY <1>1, <1>8, <1>10, <2>1
    <2>3. WholeSteps(u)
        <3>1. k + m \in Nat
            BY <1>3
        <3> QED
            BY <1>6, <1>8, <2>1, <3>1 DEF WholeSteps
    <2>4. u \in TimerSet
        BY <1>5, <1>6, <2>1, <2>2 DEF TimerSet
    <2> QED
        BY <2>3, <2>4
<1> QED
    BY <1>9, <1>10

(* A piece that leaves a timer no more than its last cycles brings it to   *)
(* its top at most: the cycles left are whole samples, and what the last   *)
(* piece left of a sample makes no other.                                  *)
LEMMA CutBeforeTop ==
    ASSUME NEW t \in TimerSet, WholeSteps(t),
           NEW s \in 0 .. Sample - 1, NEW n \in Nat,
           n <= (TimerTop - t.count) * t.scale
    PROVE  t.count + ((s + n) \div Sample) * Step(t) <= TimerTop
<1> DEFINE d == Step(t)
           c == t.scale
           top == TopSteps * t.scale
           q == (s + n) \div Sample
<1>1. /\ Sample \in Nat \ {0} /\ TimerTop \in Nat
      /\ t.count \in 0 .. TimerTop /\ c \in Nat \ {0}
      /\ d \in Nat \ {0} /\ d * c = Sample
      /\ TimerTop = top * d /\ top \in Nat
    BY StepDivides
<1>2. PICK k \in Nat : t.count = k * d
    BY DEF WholeSteps
<1>3. s + n \in Nat
    BY <1>1
<1>4. q \in Nat /\ q * Sample <= s + n
    BY <1>1, <1>3, Division
<1> HIDE DEF d, c, top, q
<1>5. TimerTop - t.count = (top - k) * d
    BY <1>1, <1>2, MulLaws
<1>6. n <= (top - k) * Sample
    <2>1. (TimerTop - t.count) * c = ((top - k) * d) * c
        BY <1>5
    <2>2. (top - k) * (d * c) = ((top - k) * d) * c
        BY <1>1, MulLaws
    <2> QED
        BY <1>1, <2>1, <2>2 DEF c
<1>7. q <= top - k
    <2>1. ((top - k) + 1) * Sample = (top - k) * Sample + Sample
        BY <1>1
    <2>2. (top - k) * Sample \in Int /\ q * Sample \in Int
        BY <1>1, <1>4
    <2>3. q * Sample < ((top - k) + 1) * Sample
        BY <1>1, <1>3, <1>4, <1>6, <2>1, <2>2
    <2> QED
        BY <1>1, <1>4, <2>3, MulLess
<1>8. q * d <= (top - k) * d
    BY <1>1, <1>4, <1>7, MulMonotone
<1>9. q * d \in Int /\ t.count \in Int /\ (top - k) * d \in Int
    BY <1>1, <1>4
<1> QED
    BY <1>1, <1>5, <1>8, <1>9 DEF d, q

(* A set of natural numbers has a least element, which Least chooses.      *)
LEMMA LeastOf ==
    ASSUME NEW T \in SUBSET Nat, T # {}
    PROVE  Least(T) \in T /\ \A m \in T : Least(T) <= m
<1> DEFINE R == OpToRel(<, Nat)
<1>1. IsWellFoundedOn(R, Nat)
    BY NatLessThanWellFounded
<1>2. \A x, y \in Nat : y < x => <<y, x>> \in R
    BY DEF OpToRel
<1> HIDE DEF R
<1>3. PICK x \in T : \A y \in T : ~ (<<y, x>> \in R)
    BY <1>1, WFMin
<1>4. \A y \in T : x <= y
    <2> SUFFICES ASSUME NEW y \in T, ~(x <= y) PROVE FALSE
        OBVIOUS
    <2>1. x \in Nat /\ y \in Nat
        OBVIOUS
    <2>2. y < x
        BY <2>1
    <2> QED
        BY <1>2, <1>3, <2>1, <2>2
<1>5. \E n \in T : \A m \in T : n <= m
    BY <1>4
<1> QED
    BY <1>5 DEF Least

-----------------------------------------------------------------------------
(* Init establishes the invariant.                                         *)
LEMMA ResetTimers ==
    LET t == [count |-> TimerTop, scale |-> 1]
    IN  t \in TimerSet /\ WholeSteps(t)
<1> DEFINE t == [count |-> TimerTop, scale |-> 1]
<1>1. 1 \in Scales /\ TimerTop \in Nat
    BY SoundAssumption DEF TimerTop
<1>2. t \in TimerSet
    BY <1>1 DEF TimerSet
<1>3. t.count = (TopSteps * t.scale) * Step(t) /\ TopSteps * t.scale \in Nat
    BY <1>2, StepDivides
<1> QED
    BY <1>2, <1>3 DEF WholeSteps

(* Init establishes IInv.                                                  *)
LEMMA InitOk == Init => IInv
<1> SUFFICES ASSUME Init PROVE IInv
    OBVIOUS
<1> DEFINE t == [count |-> TimerTop, scale |-> 1]
<1>1. Sample \in Nat \ {0} /\ TimerTop \in Nat \ {0}
    BY SoundAssumption DEF TimerTop
<1>2. t \in TimerSet /\ WholeSteps(t)
    BY ResetTimers
<1>3. timer = [i \in Timers |-> t]
    BY DEF Init
<1> HIDE DEF t
<1>4. timer \in [Timers -> TimerSet] /\ \A i \in Timers : WholeSteps(timer[i])
    BY <1>2, <1>3
<1>5. RegsOk(Now)
    <2> DEFINE c == [irq |-> 0, mask |-> 0, stopped |-> FALSE]
    <2>1. Nothing \in [Cpus -> SUBSET Sources] /\ Nothing["main"] = {}
        BY CpusAre DEF Nothing
    <2>2. c \in CpuSet
        BY DEF CpuSet
    <2>3. Now = [enabled |-> Nothing, pending |-> Nothing, reported |-> {},
                 came |-> Nothing, cpu |-> c]
        BY DEF Init, Now
    <2> HIDE DEF c
    <2>4. Now \in RegSet
        BY <2>1, <2>2, <2>3 DEF RegSet
    <2>5. Told(Now)
        BY <2>1, <2>3 DEF Told
    <2> QED
        BY <2>4, <2>5 DEF RegsOk
<1>6. PieceOk /\ CutAtTimers
    BY <1>1 DEF Init, None, PieceOk, PieceSet, CutAtTimers
<1>7. levels \in [0 .. 2 -> SUBSET (0 .. 7)]
    BY DEF Init
<1>8. running = FALSE /\ sampleTimer = 0 /\ cycles = 0
    BY DEF Init
<1>9. running \in BOOLEAN
    BY <1>8
<1>10. sampleTimer \in 0 .. Sample - 1 /\ cycles \in 0 .. TimerTop - 1
    <2>1. 0 \in 0 .. Sample - 1 /\ 0 \in 0 .. TimerTop - 1
        BY <1>1
    <2> QED
        BY <1>8, <2>1
<1> QED
    BY <1>4, <1>5, <1>6, <1>7, <1>9, <1>10 DEF IInv

-----------------------------------------------------------------------------
(* A step that writes the registers and leaves the slice alone.            *)
LEMMA RegsStep ==
    ASSUME IInv, NEW r, RegsOk(r), Becomes(r),
           UNCHANGED <<levels, running, timer, sampleTimer, cycles, piece>>
    PROVE  IInv'
<1>1. Now' = r
    BY DEF Becomes, Now, RegsOk, RegSet
<1>2. RegsOk(Now)'
    BY <1>1
<1>3. PieceOk' /\ CutAtTimers'
    BY DEF IInv, PieceOk, CutAtTimers, Advanced
<1>4. \A i \in Timers : WholeSteps(timer'[i])
    BY DEF IInv
<1> QED
    BY <1>2, <1>3, <1>4 DEF IInv

(* The register writes of either program.                                  *)
LEMMA WriteStep == ASSUME IInv, Write PROVE IInv'
<1>1. RegsOk(Now)
    BY DEF IInv
<1>2. CASE WriteEnable
    <2>1. UNCHANGED <<levels, running, timer, sampleTimer, cycles, piece>>
        BY <1>2 DEF WriteEnable, Same
    <2>2. PICK t \in Cpus, which \in Words :
             Becomes(EnableWord(t, which)) \/ Becomes(EnableByte(t, which))
        BY <1>2 DEF WriteEnable
    <2>3. which \in SUBSET Sources
        BY SoundAssumption
    <2>4. RegsOk(EnableWord(t, which)) /\ RegsOk(EnableByte(t, which))
        BY <1>1, <2>3, EnableOk DEF EnableWord, EnableByte
    <2> QED
        BY <2>1, <2>2, <2>4, RegsStep
<1>3. CASE WritePending
    <2>1. UNCHANGED <<levels, running, timer, sampleTimer, cycles, piece>>
        BY <1>3 DEF WritePending, Same
    <2>2. PICK t \in Cpus : Becomes(Happens(Now, Manual, t))
        BY <1>3 DEF WritePending
    <2>3. Manual \in Sources
        BY SoundAssumption
    <2> QED
        BY <1>1, <2>1, <2>2, <2>3, HappensOk, RegsStep
<1>4. CASE WriteClear
    <2>1. UNCHANGED <<levels, running, timer, sampleTimer, cycles, piece>>
        BY <1>4 DEF WriteClear, Same
    <2>2. PICK t \in Cpus, which \in Words :
             Becomes(ClearInterrupts(Now, which, t))
        BY <1>4 DEF WriteClear
    <2> QED
        BY <1>1, <2>1, <2>2, ClearOk, RegsStep
<1>5. CASE WriteDma
    <2>1. UNCHANGED <<levels, running, timer, sampleTimer, cycles, piece>>
        BY <1>5 DEF WriteDma, Same
    <2>2. DmaEnd \in Sources
        BY SoundAssumption
    <2>3. RegsOk(HappensForBoth(Now, DmaEnd))
        BY <1>1, <2>2, HappensForBothOk
    <2> QED
        BY <1>5, <2>1, <2>3, RegsStep DEF WriteDma
<1>6. CASE WriteLevel
    <2>1. UNCHANGED <<regs, running, timer, sampleTimer, cycles, piece>>
        BY <1>6 DEF WriteLevel, Same
    <2>2. levels' \in [0 .. 2 -> SUBSET (0 .. 7)]
        BY <1>6, SoundAssumption DEF WriteLevel, IInv
    <2>3. Now' = Now
        BY <2>1 DEF regs, Now
    <2>4. PieceOk' /\ CutAtTimers'
        BY <2>1 DEF IInv, PieceOk, CutAtTimers, Advanced
    <2> QED
        BY <2>1, <2>2, <2>3, <2>4 DEF IInv
<1>7. CASE WriteTimer
    <2>1. PICK i \in Timers, steps \in 0 .. TopSteps, scale \in Scales :
             /\ timer' = [timer EXCEPT
                             ![i] = [count |-> steps * Sample, scale |-> scale]]
             /\ piece' = [piece EXCEPT !.exact = @ \ {i}]
        BY <1>7 DEF WriteTimer
    <2>2. UNCHANGED <<regs, levels, running, sampleTimer, cycles>>
        BY <1>7 DEF WriteTimer
    <2> DEFINE t == [count |-> steps * Sample, scale |-> scale]
    <2>3. /\ Sample \in Nat \ {0} /\ TopSteps \in Nat \ {0}
          /\ scale \in Nat \ {0} /\ (Sample \div scale) * scale = Sample
        BY SoundAssumption
    <2>4. t \in TimerSet
        <3>1. steps * Sample \in Nat /\ steps * Sample <= TimerTop
            BY <2>3, MulMonotone DEF TimerTop
        <3> QED
            BY <3>1, <2>3 DEF TimerSet, TimerTop
    <2>5. WholeSteps(t)
        <3>1. Step(t) \in Nat \ {0} /\ Step(t) * scale = Sample
            BY <2>4, StepDivides
        <3>2. steps * Sample = (steps * scale) * Step(t) /\ steps * scale \in Nat
            <4>1. Step(t) * scale = scale * Step(t)
                BY <2>3, <3>1
            <4>2. steps * (scale * Step(t)) = (steps * scale) * Step(t)
                BY <2>3, <3>1, MulLaws
            <4> QED
                BY <2>3, <3>1, <4>1, <4>2
        <3> QED
            BY <3>2 DEF WholeSteps
    <2> HIDE DEF t
    <2>6. /\ timer \in [Timers -> TimerSet]
          /\ \A j \in Timers : WholeSteps(timer[j])
          /\ timer' = [timer EXCEPT ![i] = t]
        BY <2>1 DEF IInv, t
    <2>7. /\ timer' \in [Timers -> TimerSet]
          /\ \A j \in Timers : WholeSteps(timer'[j])
        BY <2>4, <2>5, <2>6
    <2>8. /\ piece \in PieceSet /\ piece' \in PieceSet
          /\ piece'.cycles = piece.cycles /\ piece'.samples = piece.samples
          /\ piece'.on = piece.on /\ piece'.exact = piece.exact \ {i}
        BY <2>1 DEF IInv, PieceOk, PieceSet
    <2>9. CutAtTimers'
        <3> SUFFICES ASSUME NEW j \in piece'.exact
                     PROVE  Advanced(timer[j])' <= TimerTop
            BY DEF CutAtTimers
        <3>1. j \in piece.exact /\ j # i /\ j \in Timers
            BY <2>8 DEF PieceSet
        <3>2. timer'[j] = timer[j]
            BY <2>6, <3>1
        <3>3. Advanced(timer[j]) <= TimerTop
            BY <3>1 DEF IInv, CutAtTimers
        <3> QED
            BY <2>8, <3>2, <3>3 DEF Advanced
    <2>10. PieceOk'
        <3>1. ASSUME ~piece.on PROVE piece' = None
            <4>1. piece = None
                BY <3>1 DEF IInv, PieceOk
            <4>2. piece'.exact = {}
                BY <2>8, <4>1 DEF None
            <4> QED
                BY <2>8, <4>1, <4>2 DEF PieceSet, None
        <3> QED
            BY <2>2, <2>8, <3>1 DEF IInv, PieceOk
    <2>11. Now' = Now
        BY <2>2 DEF regs, Now
    <2> QED
        BY <2>2, <2>7, <2>9, <2>10, <2>11 DEF IInv
<1> QED
    BY <1>2, <1>3, <1>4, <1>5, <1>6, <1>7 DEF Write

-----------------------------------------------------------------------------
(* The sound program's status register; starting, stopping, resetting.     *)
LEMMA ProcessorStep ==
    ASSUME IInv, SetStatus \/ M68KStart \/ M68KStop \/ ScspReset
    PROVE  IInv'
<1>1. Now \in RegSet /\ Told(Now) /\ RegsOk(Now)
    BY DEF IInv, RegsOk
<1>2. ASSUME NEW c \in CpuSet
      PROVE  RegsOk([Now EXCEPT !.cpu = c])
    <2> DEFINE r == [Now EXCEPT !.cpu = c]
    <2>1. /\ r \in RegSet /\ r.enabled = Now.enabled
          /\ r.pending = Now.pending /\ r.reported = Now.reported
        BY <1>1 DEF RegSet
    <2> HIDE DEF r
    <2>2. RegsOk(r)
        BY <1>1, <2>1 DEF RegsOk, Told
    <2> QED
        BY <2>2 DEF r
<1>3. cpu \in CpuSet
    BY <1>1 DEF RegSet, Now
<1>4. CASE SetStatus
    <2>1. UNCHANGED <<levels, running, timer, sampleTimer, cycles, piece>>
        BY <1>4 DEF SetStatus, Same
    <2> DEFINE c(m, stop) == [cpu EXCEPT !.mask = m, !.stopped = stop]
               n(m, stop) == IF c(m, stop).irq > m
                             THEN Accept(c(m, stop), c(m, stop).irq)
                             ELSE c(m, stop)
    <2>2. PICK m \in Masks, stop \in BOOLEAN :
             Becomes([Now EXCEPT !.cpu = n(m, stop)])
        BY <1>4 DEF SetStatus
    <2>3. m \in 0 .. 7
        BY SoundAssumption
    <2>4. c(m, stop) \in CpuSet /\ c(m, stop).irq \in 0 .. 7
        BY <1>3, <2>3 DEF CpuSet
    <2>5. n(m, stop) \in CpuSet
        BY <2>4, SetIrqTyped
    <2> HIDE DEF n
    <2>6. RegsOk([Now EXCEPT !.cpu = n(m, stop)])
        BY <1>2, <2>5
    <2> QED
        BY <2>1, <2>2, <2>6, RegsStep
<1>5. CASE M68KStart
    <2> DEFINE c == [cpu EXCEPT !.mask = 7, !.stopped = FALSE]
    <2>1. c \in CpuSet
        <3>1. /\ cpu \in [irq : 0 .. 7, mask : 0 .. 7, stopped : BOOLEAN]
              /\ 7 \in 0 .. 7
            BY <1>3 DEF CpuSet
        <3>2. c \in [irq : 0 .. 7, mask : 0 .. 7, stopped : BOOLEAN]
            BY <3>1
        <3> QED
            BY <3>2 DEF CpuSet
    <2>2. /\ UNCHANGED <<enabled, pending, reported, came, levels, timer,
                         sampleTimer, cycles, piece>>
          /\ cpu' = c /\ running' = TRUE
        BY <1>5 DEF M68KStart
    <2> HIDE DEF c
    <2>3. Now' = [Now EXCEPT !.cpu = c]
        BY <2>2 DEF Now
    <2>4. RegsOk(Now)'
        BY <1>2, <2>1, <2>3
    <2>5. PieceOk' /\ CutAtTimers'
        BY <2>2 DEF IInv, PieceOk, CutAtTimers, Advanced
    <2> QED
        BY <2>2, <2>4, <2>5 DEF IInv
<1>6. CASE M68KStop
    <2>1. /\ UNCHANGED <<regs, levels, timer, sampleTimer, cycles, piece>>
          /\ running' = FALSE
        BY <1>6 DEF M68KStop
    <2>2. Now' = Now
        BY <2>1 DEF regs, Now
    <2>3. PieceOk' /\ CutAtTimers'
        BY <2>1 DEF IInv, PieceOk, CutAtTimers, Advanced
    <2> QED
        BY <2>1, <2>2, <2>3 DEF IInv
<1>7. CASE ScspReset
    <2> DEFINE t == [count |-> TimerTop, scale |-> 1]
    <2>1. /\ cycles = 0 /\ UNCHANGED <<cpu, cycles, piece>>
          /\ enabled' = Nothing /\ pending' = Nothing /\ came' = Nothing
          /\ reported' = {} /\ levels' = [p \in 0 .. 2 |-> {}]
          /\ timer' = [i \in Timers |-> t] /\ sampleTimer' = 0
          /\ running' = FALSE
        BY <1>7 DEF ScspReset, ResetRegisters
    <2>2. t \in TimerSet /\ WholeSteps(t)
        BY ResetTimers
    <2> HIDE DEF t
    <2>3. /\ timer' \in [Timers -> TimerSet]
          /\ \A i \in Timers : WholeSteps(timer'[i])
        BY <2>1, <2>2
    <2>4. RegsOk(Now)'
        <3>1. Nothing \in [Cpus -> SUBSET Sources] /\ Nothing["main"] = {}
            BY CpusAre DEF Nothing
        <3>2. Now' = [enabled |-> Nothing, pending |-> Nothing,
                      reported |-> {}, came |-> Nothing, cpu |-> cpu]
            BY <2>1 DEF Now
        <3>3. Now' \in RegSet
            BY <1>3, <3>1, <3>2 DEF RegSet
        <3>4. Told(Now')
            BY <3>1, <3>2 DEF Told
        <3> QED
            BY <3>3, <3>4 DEF RegsOk
    <2>5. piece = None
        BY <2>1 DEF IInv, PieceOk
    <2>6. PieceOk' /\ CutAtTimers'
        BY <2>1, <2>5 DEF IInv, PieceOk, None, CutAtTimers
    <2>7. levels' \in [0 .. 2 -> SUBSET (0 .. 7)]
        BY <2>1
    <2>8. sampleTimer' \in 0 .. Sample - 1
        BY <2>1, SoundAssumption
    <2> QED
        BY <2>1, <2>3, <2>4, <2>6, <2>7, <2>8 DEF IInv
<1> QED
    BY <1>4, <1>5, <1>6, <1>7

(* ScspDoExec is called.                                                   *)
LEMMA DoExecStep == ASSUME IInv, DoExec PROVE IInv'
<1>1. /\ UNCHANGED <<regs, levels, running, timer, sampleTimer, piece>>
      /\ cycles = 0 /\ cycles' \in Slices
    BY DEF DoExec
<1>2. cycles' \in 1 .. TimerTop - 1
    BY <1>1, SoundAssumption DEF TimerTop
<1>3. Now' = Now
    BY <1>1 DEF regs, Now
<1>4. piece = None
    BY <1>1 DEF IInv, PieceOk
<1>5. PieceOk' /\ CutAtTimers'
    BY <1>1, <1>2, <1>4 DEF IInv, PieceOk, None, CutAtTimers
<1>6. cycles' \in 0 .. TimerTop - 1
    BY <1>2
<1> QED
    BY <1>1, <1>3, <1>5, <1>6 DEF IInv

(* A piece is cut.                                                         *)
LEMMA CutStep == ASSUME IInv, Cut PROVE IInv'
<1> DEFINE n == PieceLength
           on == Timers \cap enabled["sound"]
           S == {cycles} \cup {CyclesLeft(i) : i \in on}
           q == (sampleTimer + n) \div Sample
           x == [cycles |-> n, samples |-> q, on |-> TRUE, exact |-> on]
<1>1. /\ UNCHANGED <<regs, levels, running, timer, cycles>>
      /\ cycles > 0 /\ ~piece.on
      /\ sampleTimer' = (sampleTimer + n) % Sample
      /\ piece' = x
    BY DEF Cut, CutOf
<1>2. /\ Sample \in Nat \ {0} /\ TimerTop \in Nat
      /\ cycles \in 0 .. TimerTop - 1 /\ sampleTimer \in 0 .. Sample - 1
    BY SoundAssumption DEF IInv, TimerTop
<1>3. \A i \in on : CyclesLeft(i) \in Nat
    <2> SUFFICES ASSUME NEW i \in on PROVE CyclesLeft(i) \in Nat
        OBVIOUS
    <2>1. timer[i] \in TimerSet
        BY DEF IInv
    <2>2. timer[i].count \in 0 .. TimerTop /\ timer[i].scale \in Nat
        BY <2>1, StepDivides
    <2>3. TimerTop - timer[i].count \in Nat
        BY <1>2, <2>2
    <2> HIDE DEF on
    <2> QED
        BY <2>2, <2>3 DEF CyclesLeft
<1>4. n = Least(S)
    BY DEF PieceLength
<1> HIDE DEF n, on
<1>5. S \in SUBSET Nat /\ S # {}
    BY <1>2, <1>3
<1>6. n \in S /\ \A m \in S : n <= m
    BY <1>4, <1>5, LeastOf
<1>7. n \in Nat /\ n <= cycles /\ \A i \in on : n <= CyclesLeft(i)
    BY <1>5, <1>6
<1> HIDE DEF S
<1>8. /\ q \in Nat /\ q * Sample <= sampleTimer + n
      /\ sampleTimer' \in 0 .. Sample - 1
    <2>1. sampleTimer + n \in Nat
        BY <1>2, <1>7
    <2> QED
        BY <1>1, <1>2, <2>1, Division
<1> HIDE DEF q
<1>9. q * Sample <= n + Sample - 1
    <2>1. q * Sample \in Int
        BY <1>2, <1>8
    <2> QED
        BY <1>2, <1>7, <1>8, <2>1
<1>10. PieceOk'
    <2>1. x \in PieceSet
        BY <1>7, <1>8 DEF PieceSet, on
    <2> QED
        BY <1>1, <1>7, <1>9, <2>1 DEF PieceOk
<1>11. CutAtTimers'
    <2> SUFFICES ASSUME NEW i \in on
                 PROVE  Advanced(timer[i])' <= TimerTop
        BY <1>1 DEF CutAtTimers
    <2>1. i \in Timers
        BY DEF on
    <2>2. timer[i] \in TimerSet /\ WholeSteps(timer[i])
        BY <2>1 DEF IInv
    <2>3. n <= (TimerTop - timer[i].count) * timer[i].scale
        BY <1>7 DEF CyclesLeft
    <2>4. timer[i].count + ((sampleTimer + n) \div Sample) * Step(timer[i])
             <= TimerTop
        BY <1>2, <1>7, <2>2, <2>3, CutBeforeTop
    <2> QED
        BY <1>1, <2>4 DEF Advanced, q
<1>12. Now' = Now
    BY <1>1 DEF regs, Now
<1> QED
    BY <1>1, <1>8, <1>10, <1>11, <1>12 DEF IInv

(* A piece is counted.                                                     *)
LEMMA UpdateStep == ASSUME IInv, Update PROVE IInv'
<1> DEFINE r == UpdateTimers(Now)
<1>1. /\ Becomes(r) /\ piece' = None /\ cycles' = cycles - piece.cycles
      /\ timer' = [i \in Timers |-> UpdateTimer(timer[i])]
      /\ UNCHANGED <<levels, running, sampleTimer>>
    BY DEF Update
<1>2. /\ piece \in PieceSet /\ piece.cycles <= cycles
      /\ piece.samples * Sample <= piece.cycles + Sample - 1
      /\ cycles \in 0 .. TimerTop - 1
    BY DEF IInv, PieceOk
<1>3. Sample \in Nat \ {0} /\ TimerTop \in Nat
    BY SoundAssumption DEF TimerTop
<1>4. piece.samples \in Nat /\ piece.cycles \in Nat
    BY <1>2 DEF PieceSet
<1>5. piece.samples <= TopSteps
    <2>1. piece.cycles < TimerTop
        BY <1>2, <1>3, <1>4
    <2> QED
        BY <1>2, <1>4, <2>1, SamplesOfPiece
<1>6. /\ timer' \in [Timers -> TimerSet]
      /\ \A i \in Timers : WholeSteps(timer'[i])
    <2>1. \A i \in Timers : /\ UpdateTimer(timer[i]) \in TimerSet
                            /\ WholeSteps(UpdateTimer(timer[i]))
        BY <1>4, <1>5, UpdateTimerOk DEF IInv
    <2> QED
        BY <1>1, <2>1
<1>7. RegsOk(r)
    <2> DEFINE U(v, i) == IF i \in Timers /\ Fires(timer[i])
                          THEN HappensForBoth(v, i) ELSE v
    <2>1. \A v, i : RegsOk(v) => RegsOk(U(v, i))
        BY HappensForBothOk DEF Timers
    <2>2. r = U(U(U(Now, 6), 7), 8)
        BY DEF UpdateTimers
    <2>3. RegsOk(Now)
        BY DEF IInv
    <2> HIDE DEF U, r
    <2> QED
        BY <2>1, <2>2, <2>3
<1> HIDE DEF r
<1>8. Now' = r
    BY <1>1, <1>7 DEF Becomes, Now, RegsOk, RegSet
<1>9. RegsOk(Now)'
    BY <1>7, <1>8
<1>10. cycles' \in 0 .. TimerTop - 1
    BY <1>1, <1>2, <1>3, <1>4
<1>11. PieceOk' /\ CutAtTimers'
    BY <1>1, <1>3, <1>10 DEF PieceOk, PieceSet, None, CutAtTimers
<1> QED
    BY <1>1, <1>6, <1>9, <1>10, <1>11 DEF IInv

-----------------------------------------------------------------------------
(* IInv is inductive.                                                      *)
THEOREM Invariance == Spec => []IInv
<1>1. IInv /\ [Next]_vars => IInv'
    <2> SUFFICES ASSUME IInv, [Next]_vars PROVE IInv'
        OBVIOUS
    <2>1. CASE UNCHANGED vars
        <3>1. UNCHANGED <<regs, levels, running, timer, sampleTimer, cycles, piece>>
            BY <2>1 DEF vars
        <3>2. Now' = Now
            BY <3>1 DEF regs, Now
        <3>3. PieceOk' /\ CutAtTimers'
            BY <3>1 DEF IInv, PieceOk, CutAtTimers, Advanced
        <3> QED
            BY <3>1, <3>2, <3>3 DEF IInv
    <2> QED
        BY <2>1, WriteStep, ProcessorStep, DoExecStep, CutStep, UpdateStep
        DEF Next
<1> QED
    BY <1>1, InitOk, PTL DEF Spec

(* The counters keep their widths.                                         *)
THEOREM SoundTyped == Spec => []TypeOk
<1>1. IInv => TypeOk
    <2> SUFFICES ASSUME IInv PROVE TypeOk
        OBVIOUS
    <2>1. Now \in RegSet
        BY DEF IInv, RegsOk
    <2>2. /\ enabled \in [Cpus -> SUBSET Sources]
          /\ pending \in [Cpus -> SUBSET Sources]
          /\ reported \subseteq Sources /\ came \in [Cpus -> SUBSET Sources]
          /\ cpu \in [irq : 0 .. 7, mask : 0 .. 7, stopped : BOOLEAN]
        BY <2>1 DEF Now, RegSet, CpuSet
    <2>3. cycles \in Nat /\ TimerTop \in Nat
        BY SoundAssumption DEF IInv, TimerTop
    <2>4. piece.cycles \in 0 .. cycles /\ piece.samples \in Nat
        BY <2>3 DEF IInv, PieceOk, PieceSet
    <2> QED
        BY <2>2, <2>3, <2>4 DEF IInv, TypeOk, TimerSet
<1> QED
    BY <1>1, Invariance, PTL

(* The SCU hears of every upper source that is pending and enabled.        *)
THEOREM UpperSourcesHeard == Spec => []UpperSourcesReported
<1>1. IInv => UpperSourcesReported
    BY DEF IInv, RegsOk, Told, Now, UpperSourcesReported
<1> QED
    BY <1>1, Invariance, PTL

(* No piece carries a timer it was cut for past its top.                   *)
THEOREM PiecesEndAtTimers == Spec => []CutAtTimers
<1>1. IInv => CutAtTimers
    BY DEF IInv
<1> QED
    BY <1>1, Invariance, PTL

=============================================================================
