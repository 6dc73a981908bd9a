-------------------------- MODULE StressSweepProofs --------------------------
(***************************************************************************)
(* Proofs about StressSweep, for any limits, number of sweeps and servers: *)
(* a knee never exceeds what the server sustains, it is right when no      *)
(* point of its sweep was spoilt, the bracket the interpolation works in   *)
(* was measured, and the median of an odd number of sweeps survives a      *)
(* minority of spoilt ones.                                                *)
(***************************************************************************)
EXTENDS StressSweep, FiniteSetTheorems, WellFoundedInduction, TLAPS

Sweep == Len(knees) + 1     \* the number of the sweep that is going on

(* Before the first point nothing is measured.                             *)
FirstInv ==
  stage = "first" => tested = <<>> /\ lastPass = 0 /\ firstFail = 0 /\ rate = StartQps

(* On the way up every rate measured has passed, the last one the highest. *)
UpInv ==
  stage = "up" =>
    /\ lastPass > 0 /\ lastPass <= capacity /\ firstFail = 0 /\ rate = 2 * lastPass
    /\ lastPass \in DOMAIN tested /\ tested[lastPass] = "passed"
    /\ \A q \in DOMAIN tested : q <= lastPass

(* On the way down every rate measured has missed, the last one the lowest.*)
DownInv ==
  stage = "down" =>
    /\ lastPass = 0 /\ rate \in Halves(firstFail)
    /\ firstFail \in DOMAIN tested /\ tested[firstFail] = "missed"
    /\ \A q \in DOMAIN tested : q >= firstFail
    /\ Sweep \notin spoilt => capacity < firstFail

(* What a finished sweep hands over as its knee.                           *)
SweptInv ==
  stage = "swept" => lastPass <= capacity /\ (Sweep \notin spoilt => Tight(2 * lastPass))

(* The sweeps to come are not spoilt yet, and the summary follows the last.*)
ProgressInv ==
  /\ \A i \in spoilt : i <= Sweep
  /\ stage \in {"ready", "preflight"} => Sweep \notin spoilt
  /\ stage \in {"preflight", "ready", "first", "up", "down", "swept"} => Sweep <= Reps

IInv == /\ TypeOK /\ FirstInv /\ UpInv /\ DownInv /\ SweptInv /\ ProgressInv
        /\ Bracketed /\ BracketMeasured
-----------------------------------------------------------------------------
(* Half of a rate, rounded either way.                                     *)
LEMMA Halving ==
  ASSUME NEW q \in Nat, NEW h \in Halves(q)
  PROVE  h \in Nat /\ q - 1 <= 2 * h /\ 2 * h <= q + 1
  BY DEF Halves

LEMMA StartNat == TypeOK => StartQps \in Nat
  BY RatesNat, FloorTwo DEF TypeOK, StartQps, Least, Greatest

(* What a passing point says, if the rate had not been measured before.    *)
LEMMA PassedPoint ==
  ASSUME TypeOK, Passed, rate \notin DOMAIN tested
  PROVE  /\ rate <= capacity /\ lastPass' = rate /\ firstFail' = firstFail /\ spoilt' = spoilt
         /\ DOMAIN tested' = DOMAIN tested \cup {rate}
         /\ tested'[rate] = "passed"
         /\ \A q \in DOMAIN tested : q # rate => tested'[q] = tested[q]
         /\ UNCHANGED <<pass, capacity, estimate, knees, report>>
  <1>1. "passed" \in Verdicts
    BY DEF Passed, TestRate
  <1>2. rate <= capacity
    BY <1>1 DEF Verdicts, Sustainable
  <1>3. spoilt' = spoilt
    BY DEF Passed, TestRate
  <1>4. QED
    BY <1>2, <1>3 DEF Passed, TestRate

(* What a miss says: the server does not sustain the rate, or the sweep is *)
(* spoilt.                                                                 *)
LEMMA MissedPoint ==
  ASSUME TypeOK, Missed, rate \notin DOMAIN tested
  PROVE  /\ firstFail' = rate /\ lastPass' = lastPass
         /\ \/ capacity < rate /\ spoilt' = spoilt
            \/ rate <= capacity /\ spoilt' = spoilt \cup {Sweep}
         /\ DOMAIN tested' = DOMAIN tested \cup {rate}
         /\ tested'[rate] = "missed"
         /\ \A q \in DOMAIN tested : q # rate => tested'[q] = tested[q]
         /\ UNCHANGED <<pass, capacity, estimate, knees, report>>
  <1>1. \/ capacity < rate /\ spoilt' = spoilt
        \/ rate <= capacity /\ spoilt' = spoilt \cup {Sweep}
    BY DEF Missed, TestRate, Sustainable, Sweep, TypeOK
  <1>2. QED
    BY <1>1 DEF Missed, TestRate

(* What a point leaves behind has its type, whatever it says.              *)
LEMMA PointTypes ==
  ASSUME TypeOK, Passed \/ Missed, rate \notin DOMAIN tested, Sweep <= Reps,
         stage' \in Stage, rate' \in Nat
  PROVE  TypeOK'
  <1>1. DOMAIN tested' \subseteq Nat
    <2>1. DOMAIN tested' = DOMAIN tested \cup {rate}
      BY PassedPoint, MissedPoint
    <2>2. QED
      BY <2>1 DEF TypeOK
  <1>2. \A q \in DOMAIN tested' : tested'[q] \in Verdict
    <2>1. /\ DOMAIN tested' = DOMAIN tested \cup {rate}
          /\ tested'[rate] \in Verdict
          /\ \A q \in DOMAIN tested : q # rate => tested'[q] = tested[q]
      BY PassedPoint, MissedPoint DEF Verdict
    <2>2. QED
      BY <2>1 DEF TypeOK
  <1>3. lastPass' \in Nat /\ firstFail' \in Nat
    BY PassedPoint, MissedPoint DEF TypeOK
  <1>4. spoilt' \subseteq 1..Reps
    <2>1. spoilt' \subseteq spoilt \cup {Sweep}
      BY PassedPoint, MissedPoint
    <2>2. Sweep \in 1..Reps /\ spoilt \subseteq 1..Reps
      BY CountsNat DEF Sweep, TypeOK
    <2>3. QED
      BY <2>1, <2>2
  <1>5. UNCHANGED <<pass, capacity, estimate, knees, report>>
    BY PassedPoint, MissedPoint
  <1>6. QED
    BY <1>1, <1>2, <1>3, <1>4, <1>5 DEF TypeOK

LEMMA InitInv == Init => IInv
  <1> SUFFICES ASSUME Init PROVE IInv
    OBVIOUS
  <1>1. TypeOK
    BY CountsNat DEF Init, TypeOK, Stage
  <1>2. FirstInv /\ UpInv /\ DownInv /\ SweptInv /\ ProgressInv /\ BracketMeasured
    BY DEF Init, FirstInv, UpInv, DownInv, SweptInv, ProgressInv, BracketMeasured
  <1>3. Bracketed
    BY DEF Init, Bracketed
  <1>4. QED
    BY <1>1, <1>2, <1>3 DEF IInv

(* Steps outside a sweep leave nothing to show about its points.           *)
LEMMA OutsideStep ==
  ASSUME IInv, StartPass \/ Preflight \/ SweepRaises \/ RunAllReturns \/ Report
  PROVE  IInv'
  <1> USE DEF IInv, FirstInv, UpInv, DownInv, SweptInv, ProgressInv, BracketMeasured, Sweep,
              search, outcome
  <1>1. CASE StartPass
    <2>1. TypeOK'
      <3>1. pass' \in 0..Passes /\ stage' \in Stage
        BY <1>1, CountsNat DEF StartPass, PassLeft, Fails, TypeOK, Stage
      <3>2. capacity' \in Nat /\ estimate' \in Nat
        BY <1>1, ServerNat DEF StartPass, TypeOK
      <3>3. knees' \in Seq(Nat) /\ spoilt' \subseteq 1..Reps
        BY <1>1 DEF StartPass
      <3>4. report'.kind \in {"none", "failed", "skipped", "measured"}
        BY <1>1 DEF StartPass, Fails, TypeOK
      <3>5. UNCHANGED search
        BY <1>1 DEF StartPass
      <3>6. QED
        BY <3>1, <3>2, <3>3, <3>4, <3>5 DEF TypeOK
    <2>2. Bracketed'
      BY <1>1 DEF StartPass, Bracketed
    <2>3. stage' \in {"preflight", "idle"} /\ knees' = <<>> /\ spoilt' = {}
      BY <1>1 DEF StartPass, Fails
    <2>4. ProgressInv'
      BY <2>3, CountsNat
    <2>5. QED
      BY <2>1, <2>2, <2>3, <2>4
  <1>2. CASE Preflight
    <2>1. TypeOK'
      <3>1. stage' \in Stage /\ estimate' \in Nat
        BY <1>2, ServerNat DEF Preflight, TypeOK, Stage
      <3>2. report'.kind \in {"none", "failed", "skipped", "measured"}
        BY <1>2 DEF Preflight, TypeOK
      <3>3. UNCHANGED <<pass, capacity, search, knees, spoilt>>
        BY <1>2 DEF Preflight
      <3>4. QED
        BY <3>1, <3>2, <3>3 DEF TypeOK
    <2>2. stage' \in {"ready", "idle"} /\ UNCHANGED <<pass, capacity, search, knees, spoilt>>
      BY <1>2 DEF Preflight
    <2>3. ProgressInv'
      BY <1>2, <2>2 DEF Preflight
    <2>4. Bracketed'
      BY <2>2 DEF Bracketed, Tight
    <2>5. QED
      BY <2>1, <2>2, <2>3, <2>4
  <1>3. CASE SweepRaises
    BY <1>3 DEF SweepRaises, Fails, TypeOK, Stage, Bracketed, Tight
  <1>4. CASE RunAllReturns
    BY <1>4 DEF RunAllReturns, TypeOK, Stage, Bracketed, Tight
  <1>5. CASE Report
    BY <1>5 DEF Report, TypeOK, Stage, Bracketed, Tight
  <1>6. QED
    BY <1>1, <1>2, <1>3, <1>4, <1>5

(* BeginSweep and EndSweep: the ends of a sweep.                           *)
LEMMA EndsStep ==
  ASSUME IInv, BeginSweep \/ LimitReached \/ EndSweep
  PROVE  IInv'
  <1> USE DEF IInv, FirstInv, UpInv, DownInv, SweptInv, ProgressInv, Sweep, search, outcome
  <1>1. CASE BeginSweep
    <2>1. TypeOK'
      BY <1>1, StartNat DEF BeginSweep, TypeOK, Stage
    <2>2. StartQps' = StartQps
      BY <1>1 DEF BeginSweep, StartQps
    <2>3. QED
      BY <1>1, <2>1, <2>2 DEF BeginSweep, Bracketed, Tight, BracketMeasured
  <1>2. CASE LimitReached
    <2>1. TypeOK' /\ Bracketed'
      BY <1>2 DEF LimitReached, TypeOK, Stage, Bracketed, Tight
    <2>2. CASE stage = "up" /\ rate > MaxQps
      BY <1>2, <2>1, <2>2, RatesNat DEF LimitReached, TypeOK, BracketMeasured, Tight
    <2>3. CASE stage = "down" /\ rate < MinDown
      <3>1. lastPass = 0 /\ firstFail <= 2 * rate + 1
        BY <2>3, Halving DEF TypeOK
      <3>2. Sweep \notin spoilt => capacity < 2 * MinDown
        BY <2>3, <3>1, FloorTwo DEF TypeOK
      <3>3. QED
        BY <1>2, <2>1, <2>3, <3>1, <3>2 DEF LimitReached, TypeOK, BracketMeasured, Tight
    <2>4. QED
      BY <1>2, <2>2, <2>3 DEF LimitReached, AtLimit
  <1>3. CASE EndSweep
    <2>1. knees' \in Seq(Nat) /\ Len(knees') = Sweep /\ knees'[Sweep] = lastPass
      BY <1>3 DEF EndSweep, TypeOK
    <2>2. \A i \in 1..Len(knees) : knees'[i] = knees[i]
      BY <1>3 DEF EndSweep, TypeOK
    <2>3. TypeOK'
      BY <1>3, <2>1 DEF EndSweep, TypeOK, Stage
    <2>4. Bracketed'
      BY <1>3, <2>1, <2>2 DEF EndSweep, TypeOK, Bracketed, Tight
    <2>5. Sweep' = Sweep + 1 /\ ProgressInv'
      <3>1. Sweep' = Sweep + 1
        BY <2>1, <1>3 DEF EndSweep, TypeOK
      <3>2. spoilt' = spoilt /\ stage' \in {"ready", "reporting"}
        BY <1>3 DEF EndSweep
      <3>3. \A i \in spoilt : i <= Sweep
        OBVIOUS
      <3>4. Sweep \in Nat /\ spoilt \subseteq 1..Reps /\ Reps \in Nat
        BY CountsNat DEF TypeOK
      <3>5. Sweep + 1 \notin spoilt /\ \A i \in spoilt : i <= Sweep + 1
        BY <3>3, <3>4
      <3>6. stage' = "ready" => Sweep + 1 <= Reps
        BY <1>3, <3>4 DEF EndSweep
      <3>7. QED
        BY <3>1, <3>2, <3>5, <3>6
    <2>6. QED
      BY <1>3, <2>3, <2>4, <2>5 DEF EndSweep, BracketMeasured
  <1>4. QED
    BY <1>1, <1>2, <1>3

(* A rate that is about to be probed has not been measured in the sweep.   *)
LEMMA FreshRate ==
  ASSUME IInv, FirstRate \/ RampUp \/ RampDown
  PROVE  rate \notin DOMAIN tested
  <1>1. CASE FirstRate
    BY <1>1 DEF FirstRate, IInv, FirstInv
  <1>2. CASE RampUp
    BY <1>2 DEF RampUp, IInv, UpInv, TypeOK
  <1>3. CASE RampDown
    <2>1. 2 * rate <= firstFail + 1
      BY <1>3, Halving DEF RampDown, IInv, DownInv, TypeOK
    <2>2. rate < firstFail
      BY <1>3, <2>1, FloorTwo DEF RampDown, IInv, DownInv, TypeOK
    <2>3. QED
      BY <1>3, <2>2 DEF RampDown, IInv, DownInv, TypeOK
  <1>4. QED
    BY <1>1, <1>2, <1>3

(* The three probing actions.                                              *)
LEMMA FirstStep ==
  ASSUME IInv, FirstRate
  PROVE  IInv'
  <1> USE DEF IInv
  <1>1. rate \notin DOMAIN tested
    BY FreshRate
  <1>2. /\ stage = "first" /\ tested = <<>> /\ lastPass = 0 /\ firstFail = 0 /\ rate \in Nat
        /\ Sweep <= Reps /\ Sweep \in Nat
    BY DEF FirstRate, FirstInv, TypeOK, ProgressInv, Sweep
  <1>3. CASE Passed /\ stage' = "up" /\ rate' = 2 * rate
    <2>1. TypeOK'
      BY <1>1, <1>2, <1>3, PointTypes DEF Stage
    <2>2. rate > 0
      BY <1>2, RatesNat, FloorTwo DEF FirstInv, StartQps, Least, Greatest, TypeOK
    <2>3. UpInv'
      BY <1>1, <1>2, <1>3, <2>2, PassedPoint DEF UpInv, TypeOK
    <2>4. QED
      BY <1>1, <1>2, <1>3, <2>1, <2>3, PassedPoint
         DEF FirstInv, DownInv, SweptInv, ProgressInv, Bracketed, BracketMeasured, Tight, Sweep
  <1>4. CASE Missed /\ stage' = "down" /\ rate' \in Halves(rate)
    <2>1. rate' \in Nat
      BY <1>2, <1>4, Halving
    <2>2. /\ spoilt \subseteq spoilt' /\ spoilt' \subseteq spoilt \cup {Sweep}
          /\ Sweep \notin spoilt' => capacity < rate
      BY <1>1, <1>4, MissedPoint
    <2>3. TypeOK'
      BY <1>1, <1>2, <1>4, <2>1, PointTypes DEF Stage
    <2>4. DownInv'
      BY <1>1, <1>2, <1>4, <2>2, MissedPoint DEF DownInv, TypeOK, Sweep
    <2>5. ProgressInv'
      BY <1>1, <1>2, <1>4, <2>2, MissedPoint DEF ProgressInv, Tight, TypeOK, Sweep
    <2>6. Bracketed'
      BY <1>1, <1>2, <1>4, <2>2, MissedPoint DEF Bracketed, Tight, TypeOK, Sweep
    <2>7. QED
      BY <1>4, <2>3, <2>4, <2>5, <2>6 DEF FirstInv, UpInv, SweptInv, BracketMeasured
  <1>5. QED
    BY <1>3, <1>4 DEF FirstRate

LEMMA UpStep ==
  ASSUME IInv, RampUp
  PROVE  IInv'
  <1> USE DEF IInv
  <1>1. rate \notin DOMAIN tested
    BY FreshRate
  <1>2. stage = "up" /\ rate = 2 * lastPass /\ rate \in Nat /\ Sweep <= Reps /\ Sweep \in Nat
    BY DEF RampUp, UpInv, TypeOK, ProgressInv, Sweep
  <1>3. CASE Passed /\ UNCHANGED stage /\ rate' = 2 * rate
    <2>1. TypeOK'
      BY <1>1, <1>2, <1>3, PointTypes DEF Stage
    <2>2. UpInv'
      BY <1>1, <1>2, <1>3, PassedPoint DEF UpInv, TypeOK
    <2>3. QED
      BY <1>1, <1>2, <1>3, <2>1, <2>2, PassedPoint
         DEF FirstInv, DownInv, SweptInv, ProgressInv, Bracketed, BracketMeasured, Tight, Sweep
  <1>4. CASE Missed /\ stage' = "swept" /\ UNCHANGED rate
    <2>1. /\ spoilt \subseteq spoilt' /\ spoilt' \subseteq spoilt \cup {Sweep}
          /\ Sweep \notin spoilt' => capacity < rate
      BY <1>1, <1>4, MissedPoint
    <2>2. TypeOK'
      BY <1>1, <1>2, <1>4, PointTypes DEF Stage
    <2>3. SweptInv'
      BY <1>1, <1>2, <1>4, <2>1, MissedPoint DEF SweptInv, UpInv, Tight, TypeOK, Sweep
    <2>4. BracketMeasured'
      BY <1>1, <1>2, <1>4, MissedPoint DEF BracketMeasured, UpInv, TypeOK
    <2>5. ProgressInv' /\ Bracketed'
      <3>1. knees' = knees /\ capacity' = capacity
        BY <1>1, <1>4, MissedPoint
      <3>2. ProgressInv'
        BY <1>2, <1>4, <2>1, <3>1 DEF ProgressInv, Sweep
      <3>3. Bracketed'
        BY <2>1, <3>1 DEF Bracketed, Tight
      <3>4. QED
        BY <3>2, <3>3
    <2>6. QED
      BY <1>4, <2>2, <2>3, <2>4, <2>5 DEF FirstInv, UpInv, DownInv
  <1>5. QED
    BY <1>3, <1>4 DEF RampUp

LEMMA DownStep ==
  ASSUME IInv, RampDown
  PROVE  IInv'
  <1> USE DEF IInv
  <1>1. rate \notin DOMAIN tested
    BY FreshRate
  <1>2. /\ stage = "down" /\ lastPass = 0 /\ rate \in Nat /\ rate >= MinDown
        /\ Sweep <= Reps /\ Sweep \in Nat
    BY DEF RampDown, DownInv, TypeOK, ProgressInv, Sweep
  <1>3. firstFail <= 2 * rate + 1 /\ rate < firstFail /\ firstFail \in Nat
    <2>1. 2 * rate <= firstFail + 1 /\ firstFail - 1 <= 2 * rate /\ firstFail \in Nat
      BY <1>2, Halving DEF DownInv, TypeOK
    <2>2. QED
      BY <1>2, <2>1, FloorTwo
  <1>4. CASE Passed /\ stage' = "swept" /\ UNCHANGED rate
    <2>1. TypeOK'
      BY <1>1, <1>2, <1>4, PointTypes DEF Stage
    <2>2. SweptInv'
      BY <1>1, <1>2, <1>3, <1>4, FloorTwo, PassedPoint DEF SweptInv, DownInv, Tight, TypeOK, Sweep
    <2>3. BracketMeasured'
      BY <1>1, <1>2, <1>3, <1>4, FloorTwo, PassedPoint DEF BracketMeasured, DownInv, TypeOK
    <2>4. QED
      BY <1>1, <1>2, <1>4, <2>1, <2>2, <2>3, PassedPoint
         DEF FirstInv, UpInv, DownInv, ProgressInv, Bracketed, Tight, Sweep
  <1>5. CASE Missed /\ UNCHANGED stage /\ rate' \in Halves(rate)
    <2>1. rate' \in Nat
      BY <1>2, <1>5, Halving
    <2>2. /\ spoilt \subseteq spoilt' /\ spoilt' \subseteq spoilt \cup {Sweep}
          /\ Sweep \notin spoilt' => capacity < rate
      BY <1>1, <1>5, MissedPoint
    <2>3. TypeOK'
      BY <1>1, <1>2, <1>5, <2>1, PointTypes DEF Stage
    <2>4. DownInv'
      BY <1>1, <1>2, <1>3, <1>5, <2>2, MissedPoint DEF DownInv, TypeOK, Sweep
    <2>5. ProgressInv' /\ Bracketed'
      BY <1>1, <1>2, <1>5, <2>2, MissedPoint, SMTT(30) DEF ProgressInv, Bracketed, Tight, TypeOK, Sweep
    <2>6. QED
      BY <1>2, <1>5, <2>3, <2>4, <2>5 DEF FirstInv, UpInv, SweptInv, BracketMeasured
  <1>6. QED
    BY <1>4, <1>5 DEF RampDown

LEMMA Invariance == Spec => []IInv
  <1>1. IInv /\ [Next]_vars => IInv'
    <2>1. IInv /\ UNCHANGED vars => IInv'
      BY DEF IInv, vars, TypeOK, FirstInv, UpInv, DownInv, SweptInv, ProgressInv, Bracketed,
             BracketMeasured, Tight, Sweep, StartQps
    <2>2. QED
      BY <2>1, OutsideStep, EndsStep, FirstStep, UpStep, DownStep DEF Next, Proceed
  <1>2. QED
    BY InitInv, <1>1, PTL DEF Spec

(* The variables of the model keep their types.                            *)
THEOREM TypeCorrect == Spec => []TypeOK
  <1>1. IInv => TypeOK
    BY DEF IInv
  <1>2. QED
    BY Invariance, <1>1, PTL

(* A sweep never reports more than the server sustains and, unless a point *)
(* of it was spoilt, not less than half of it, within the search's limits. *)
THEOREM KneesBracketed == Spec => []Bracketed
  <1>1. IInv => Bracketed
    BY DEF IInv
  <1>2. QED
    BY Invariance, <1>1, PTL

(* The interpolation is only given a pass and the miss just above it.      *)
THEOREM InterpolatesMeasured == Spec => []BracketMeasured
  <1>1. IInv => BracketMeasured
    BY DEF IInv
  <1>2. QED
    BY Invariance, <1>1, PTL
-----------------------------------------------------------------------------
(* The median                                                              *)

(* A non-empty set of natural numbers has a least element.                 *)
LEMMA LeastNat ==
  ASSUME NEW T, T \subseteq Nat, T # {}
  PROVE  \E x \in T : \A y \in T : x <= y
  <1>1. IsWellFoundedOn(OpToRel(<, Nat), Nat)
    BY NatLessThanWellFounded
  <1>2. PICK x \in T : \A y \in T : ~ (<<y, x>> \in OpToRel(<, Nat))
    BY <1>1, WFMin
  <1>3. \A y \in T : ~(y < x)
    <2> SUFFICES ASSUME NEW y \in T, y < x PROVE <<y, x>> \in OpToRel(<, Nat)
      BY <1>2
    <2>1. <<y, x>> \in Nat \X Nat /\ <<y, x>>[1] < <<y, x>>[2]
      OBVIOUS
    <2> QED BY <2>1, Zenon DEF OpToRel
  <1> QED BY <1>3

LEMMA CountedTo ==
  ASSUME NEW n \in Nat
  PROVE  IsFiniteSet(1..n) /\ Cardinality(1..n) = n
  <1>1. 1 \in Int /\ n \in Int
    OBVIOUS
  <1>2. IsFiniteSet(1..n) /\ Cardinality(1..n) = IF 1 > n THEN 0 ELSE n - 1 + 1
    BY <1>1, FS_Interval, Zenon
  <1>3. (IF 1 > n THEN 0 ELSE n - 1 + 1) = n
    OBVIOUS
  <1>4. QED
    BY <1>2, <1>3

(* The places of a sequence that satisfy a bound are finitely many.        *)
LEMMA PlacesFinite ==
  ASSUME NEW s \in Seq(Nat), NEW P, P \subseteq DOMAIN s
  PROVE  IsFiniteSet(P) /\ Cardinality(P) \in Nat /\ Cardinality(P) <= Len(s)
  <1>1. DOMAIN s = 1..Len(s) /\ Len(s) \in Nat
    OBVIOUS
  <1>2. IsFiniteSet(1..Len(s)) /\ Cardinality(1..Len(s)) = Len(s)
    BY <1>1, CountedTo
  <1>3. IsFiniteSet(P) /\ Cardinality(P) <= Cardinality(1..Len(s))
    BY <1>1, <1>2, FS_Subset
  <1>4. QED
    BY <1>2, <1>3, FS_CardinalityType

(* A k-th smallest element is an element, and k places hold no more.       *)
LEMMA RankedIs ==
  ASSUME NEW s \in Seq(Nat), NEW k \in Nat, 0 < k, k <= Len(s),
         NEW b \in Nat, \A i \in DOMAIN s : s[i] <= b
  PROVE  /\ \E i \in DOMAIN s : s[i] = Ranked(s, k)
         /\ k <= Cardinality({i \in DOMAIN s : s[i] <= Ranked(s, k)})
  <1> DEFINE Upto(v)  == {i \in DOMAIN s : s[i] <= v}
             Under(v) == {i \in DOMAIN s : s[i] < v}
             V        == {v \in Nat : k <= Cardinality(Upto(v))}
  <1>1. Upto(b) = 1..Len(s) /\ Len(s) \in Nat
    OBVIOUS
  <1>2. Cardinality(Upto(b)) = Len(s)
    BY <1>1, CountedTo
  <1>3. PICK v \in V : \A w \in V : v <= w
    <2>1. b \in V
      BY <1>2
    <2> HIDE DEF V
    <2>2. V \subseteq Nat
      BY DEF V
    <2>3. QED
      BY <2>1, <2>2, LeastNat
  <1>4. v \in Nat /\ k <= Cardinality(Upto(v))
    OBVIOUS
  <1>5. Cardinality(Under(v)) < k
    <2>1. CASE v = 0
      <3>1. Under(v) = {}
        BY <2>1
      <3>2. QED
        BY <3>1, FS_EmptySet
    <2>2. CASE v # 0
      <3>1. v - 1 \in Nat /\ v - 1 \notin V
        BY <1>3, <1>4, <2>2
      <3>2. ~(k <= Cardinality(Upto(v - 1)))
        BY <3>1
      <3>3. Under(v) = Upto(v - 1)
        BY <1>4
      <3>4. Cardinality(Under(v)) \in Nat
        BY PlacesFinite
      <3> HIDE DEF Under, Upto
      <3>5. QED
        BY <3>2, <3>3, <3>4
    <2>3. QED
      BY <2>1, <2>2
  <1>6. \E i \in DOMAIN s : s[i] = v
    <2> SUFFICES ASSUME \A i \in DOMAIN s : s[i] # v PROVE FALSE
      OBVIOUS
    <2>1. Upto(v) = Under(v)
      BY <1>4
    <2>2. Cardinality(Upto(v)) \in Nat
      BY PlacesFinite
    <2> HIDE DEF Under, Upto
    <2>3. QED
      BY <1>4, <1>5, <2>1, <2>2
  <1>7. \E x \in {s[i] : i \in DOMAIN s} :
          Cardinality({i \in DOMAIN s : s[i] < x}) < k /\ k <= Cardinality({i \in DOMAIN s : s[i] <= x})
    BY <1>4, <1>5, <1>6
  <1>8. /\ Ranked(s, k) \in {s[i] : i \in DOMAIN s}
        /\ k <= Cardinality({i \in DOMAIN s : s[i] <= Ranked(s, k)})
    BY <1>7, Zenon DEF Ranked
  <1>9. QED
    BY <1>8

(* What the sweeps hand to the median: a positive knee is no smaller than  *)
(* the floor or the cap.                                                   *)
AboveFloor(k) == k > 0 => k >= MinDown \/ k >= MaxQps

KneeInv ==
  /\ \A i \in 1..Len(knees) : AboveFloor(knees[i])
  /\ stage \in {"up", "swept"} => AboveFloor(lastPass)
  /\ stage = "reporting" => Len(knees) = Reps
  /\ HeadlineTight

(* The middle one of an odd number of knees of which a minority is spoilt. *)
LEMMA MedianTight ==
  ASSUME IInv, KneeInv, Len(knees) = Reps, Reps % 2 = 1, 2 * Cardinality(spoilt) < Reps
  PROVE  Tight(MedianTwice(knees))
  <1> DEFINE k == (Reps + 1) \div 2
             m == Ranked(knees, k)
             low  == {i \in DOMAIN knees : knees[i] <= m}
             good == (1..Reps) \ spoilt
  <1>1. /\ knees \in Seq(Nat) /\ capacity \in Nat /\ DOMAIN knees = 1..Reps /\ Reps \in Nat
        /\ spoilt \subseteq 1..Reps
    BY CountsNat DEF IInv, TypeOK
  <1>2. k \in Nat /\ 0 < k /\ k <= Reps /\ 2 * k = Reps + 1 /\ (Reps + 2) \div 2 = k
    BY <1>1
  <1>3. \A i \in DOMAIN knees : knees[i] <= capacity
    BY <1>1 DEF IInv, Bracketed
  <1>4. (\E i \in DOMAIN knees : knees[i] = m) /\ k <= Cardinality(low)
    BY <1>1, <1>2, <1>3, RankedIs
  <1>5. m \in Nat /\ m <= capacity /\ AboveFloor(m)
    BY <1>1, <1>3, <1>4 DEF KneeInv
  <1>6. MedianTwice(knees) = 2 * m
    <2>1. MedianTwice(knees) = m + m
      BY <1>2 DEF MedianTwice
    <2>2. QED
      BY <1>5, <2>1
  <1>7. Cardinality(good) + Cardinality(low) > Reps
    <2>1. IsFiniteSet(1..Reps) /\ Cardinality(1..Reps) = Reps
      BY <1>1, CountedTo
    <2>2. IsFiniteSet(spoilt) /\ IsFiniteSet(good)
      BY <1>1, <2>1, FS_Subset
    <2>3. good \cup spoilt = 1..Reps /\ good \cap spoilt = {}
      BY <1>1
    <2>4. Cardinality(good) + Cardinality(spoilt) = Reps
      <3>1. Cardinality(good \cup spoilt) = Cardinality(good) + Cardinality(spoilt) - Cardinality(good \cap spoilt)
        BY <2>2, FS_Union
      <3>2. Cardinality(good \cap spoilt) = 0
        BY <2>3, FS_EmptySet
      <3>3. Cardinality(good) \in Nat /\ Cardinality(spoilt) \in Nat
        BY <2>2, FS_CardinalityType
      <3>4. Cardinality(good \cup spoilt) = Reps
        BY <2>1, <2>3
      <3> HIDE DEF good
      <3>5. QED
        BY <3>1, <3>2, <3>3, <3>4
    <2>5. Cardinality(good) \in Nat /\ Cardinality(spoilt) \in Nat /\ Cardinality(low) \in Nat
      BY <1>1, <2>2, FS_CardinalityType, PlacesFinite
    <2>6. \A g, c, l, h \in Nat : g + c = Reps /\ 2 * c < Reps /\ h <= l /\ 2 * h = Reps + 1 => g + l > Reps
      BY <1>1
    <2>7. k \in Nat /\ 2 * k = Reps + 1 /\ k <= Cardinality(low)
      BY <1>2, <1>4
    <2> HIDE DEF good, low, k
    <2>8. QED
      BY <2>4, <2>5, <2>6, <2>7
  <1>8. PICK i \in 1..Reps : i \notin spoilt /\ knees[i] <= m
    <2>1. IsFiniteSet(1..Reps) /\ Cardinality(1..Reps) = Reps
      BY <1>1, CountedTo
    <2>2. good \subseteq 1..Reps /\ low \subseteq 1..Reps
      BY <1>1
    <2>3. good \cap low # {}
      <3> HIDE DEF good, low
      <3>1. QED
        BY <1>7, <2>1, <2>2, FS_MajoritiesIntersect
    <2>4. QED
      BY <2>3
  <1>9. Tight(2 * knees[i]) /\ knees[i] \in Nat
    BY <1>1, <1>8 DEF IInv, Bracketed
  <1> HIDE DEF m
  <1>10. Tight(2 * m)
    BY <1>1, <1>5, <1>8, <1>9, FloorTwo, RatesNat DEF Tight, AboveFloor
  <1>11. QED
    BY <1>6, <1>10

LEMMA KneeStep ==
  ASSUME Reps % 2 = 1, IInv, KneeInv, [Next]_vars
  PROVE  KneeInv'
  <1> USE DEF IInv, AboveFloor, search, outcome
  <1>1. CASE StartPass
    BY <1>1 DEF StartPass, Fails, KneeInv, HeadlineTight
  <1>2. CASE Preflight
    BY <1>2 DEF Preflight, KneeInv, HeadlineTight
  <1>3. CASE RunAllReturns
    BY <1>3 DEF RunAllReturns, KneeInv, HeadlineTight, Tight
  <1>4. CASE BeginSweep
    BY <1>4 DEF BeginSweep, KneeInv, HeadlineTight
  <1>5. CASE FirstRate
    <2>1. stage = "first" /\ rate = StartQps /\ knees' = knees /\ stage' \in {"up", "down"}
      BY <1>5 DEF FirstRate, FirstInv, Passed, Missed, TestRate
    <2>2. AboveFloor(StartQps)
      BY FloorTwo, RatesNat DEF StartQps, Least, Greatest, TypeOK
    <2>3. stage' = "up" => lastPass' = rate
      BY <1>5 DEF FirstRate, Passed
    <2>4. QED
      BY <2>1, <2>2, <2>3 DEF KneeInv, HeadlineTight
  <1>6. CASE RampUp
    <2>1. stage = "up" /\ rate = 2 * lastPass /\ knees' = knees /\ stage' \in {"up", "swept"}
      BY <1>6 DEF RampUp, UpInv, Passed, Missed, TestRate
    <2>2. lastPass' \in {rate, lastPass}
      BY <1>6 DEF RampUp, Passed, Missed
    <2>3. AboveFloor(lastPass)'
      BY <2>1, <2>2, FloorTwo, RatesNat DEF KneeInv, TypeOK
    <2>4. QED
      BY <2>1, <2>3 DEF KneeInv, HeadlineTight
  <1>7. CASE RampDown
    <2>1. stage = "down" /\ rate >= MinDown /\ knees' = knees /\ stage' \in {"down", "swept"}
      BY <1>7 DEF RampDown, Passed, Missed, TestRate
    <2>2. stage' = "swept" => lastPass' = rate
      BY <1>7 DEF RampDown, Passed
    <2>3. QED
      BY <2>1, <2>2 DEF KneeInv, HeadlineTight
  <1>8. CASE LimitReached
    BY <1>8 DEF LimitReached, AtLimit, DownInv, KneeInv, HeadlineTight
  <1>9. CASE EndSweep
    <2>1. Len(knees') = Len(knees) + 1 /\ knees'[Len(knees) + 1] = lastPass /\ AboveFloor(lastPass)
      BY <1>9 DEF EndSweep, KneeInv, TypeOK
    <2>2. \A i \in 1..Len(knees) : knees'[i] = knees[i]
      BY <1>9 DEF EndSweep, TypeOK
    <2>3. \A i \in 1..Len(knees') : AboveFloor(knees'[i])
      <3>1. Len(knees) \in Nat /\ \A i \in 1..Len(knees) : AboveFloor(knees[i])
        BY DEF KneeInv, TypeOK
      <3> HIDE DEF AboveFloor, IInv
      <3>2. ASSUME NEW i \in 1..Len(knees') PROVE AboveFloor(knees'[i])
        <4>1. CASE i = Len(knees) + 1
          BY <2>1, <4>1
        <4>2. CASE i # Len(knees) + 1
          <5>1. i \in 1..Len(knees)
            BY <2>1, <3>1, <4>2
          <5>2. QED
            BY <2>2, <3>1, <5>1
        <4>3. QED
          BY <4>1, <4>2
      <3>3. QED
        BY <3>2
    <2>4. stage' \in {"ready", "reporting"} /\ (stage' = "reporting" => Len(knees') = Reps)
      BY <1>9, <2>1, CountsNat DEF EndSweep, ProgressInv, Sweep, TypeOK
    <2>5. QED
      BY <2>3, <2>4 DEF KneeInv, HeadlineTight
  <1>10. CASE Report
    <2>1. stage = "reporting" /\ stage' = "idle" /\ UNCHANGED <<capacity, knees, spoilt>>
      BY <1>10 DEF Report
    <2>2. report'.twiceQps = MedianTwice(knees)
      BY <1>10 DEF Report
    <2>3. 2 * Cardinality(spoilt) < Reps => Tight(MedianTwice(knees))
      BY <2>1, MedianTight DEF KneeInv
    <2>4. Tight(MedianTwice(knees)) => Tight(report.twiceQps)'
      BY <2>1, <2>2 DEF Tight
    <2>5. HeadlineTight'
      BY <2>1, <2>3, <2>4 DEF HeadlineTight
    <2>6. QED
      BY <2>1, <2>5 DEF KneeInv
  <1>11. CASE SweepRaises
    BY <1>11 DEF SweepRaises, Fails, KneeInv, HeadlineTight
  <1>12. CASE UNCHANGED vars
    BY <1>12 DEF vars, KneeInv, HeadlineTight, Tight
  <1>13. QED
    BY <1>1, <1>2, <1>3, <1>4, <1>5, <1>6, <1>7, <1>8, <1>9, <1>10, <1>11, <1>12 DEF Next, Proceed

(* With an odd number of sweeps, fewer than half of them spoilt, the       *)
(* headline is right about the server up to the factor of two between      *)
(* probes or the limits of the search, whatever the spoilt ones report.    *)
THEOREM HeadlineIsTight ==
  ASSUME Reps % 2 = 1
  PROVE  Spec => []HeadlineTight
  <1>1. Init => KneeInv
    BY CountsNat DEF Init, KneeInv, HeadlineTight
  <1>2. IInv /\ KneeInv /\ [Next]_vars => KneeInv'
    BY KneeStep
  <1>3. KneeInv => HeadlineTight
    BY DEF KneeInv
  <1>4. QED
    BY Invariance, <1>1, <1>2, <1>3, PTL DEF Spec

-----------------------------------------------------------------------------
(* The secondary figures                                                   *)

(* The sweep nearest to a median that was measured is one that measured it.*)
LEMMA MedianSweepIs ==
  ASSUME NEW s \in Seq(Nat), NEW m \in Nat, MedianTwice(s) = 2 * m, \E i \in DOMAIN s : s[i] = m
  PROVE  MedianSweep(s) \in DOMAIN s /\ s[MedianSweep(s)] = m
  <1> DEFINE far(i) == Distance(2 * s[i], MedianTwice(s))
             T      == {i \in DOMAIN s : s[i] = m}
             c      == MedianSweep(s)
  <1>1. \A i \in DOMAIN s : far(i) \in Nat /\ (far(i) = 0 <=> s[i] = m)
    <2>1. \A k \in Nat : Distance(2 * k, 2 * m) \in Nat /\ (Distance(2 * k, 2 * m) = 0 <=> k = m)
      BY DEF Distance
    <2>2. \A i \in DOMAIN s : s[i] \in Nat
      OBVIOUS
    <2>3. QED
      BY <2>1, <2>2
  <1>2. PICK x \in T : \A y \in T : x <= y
    <2>1. T \subseteq Nat /\ T # {}
      OBVIOUS
    <2> HIDE DEF T
    <2>2. QED
      BY <2>1, LeastNat
  <1>3. x \in DOMAIN s /\ far(x) = 0
    BY <1>1, <1>2
  <1>4. \A j \in DOMAIN s : far(x) < far(j) \/ (far(x) = far(j) /\ x <= j)
    <2> SUFFICES ASSUME NEW j \in DOMAIN s PROVE far(x) < far(j) \/ (far(x) = far(j) /\ x <= j)
      OBVIOUS
    <2>1. CASE s[j] = m
      BY <1>1, <1>2, <1>3, <2>1
    <2>2. CASE s[j] # m
      <3>1. far(j) \in Nat /\ far(j) # 0
        BY <1>1, <2>2
      <3> HIDE DEF far
      <3>2. QED
        BY <1>3, <3>1
    <2>3. QED
      BY <2>1, <2>2
  <1>5. c = CHOOSE i \in DOMAIN s : \A j \in DOMAIN s : far(i) < far(j) \/ (far(i) = far(j) /\ i <= j)
    BY DEF MedianSweep
  <1> HIDE DEF far, c
  <1>6. c \in DOMAIN s /\ \A j \in DOMAIN s : far(c) < far(j) \/ (far(c) = far(j) /\ c <= j)
    BY <1>3, <1>4, <1>5, Zenon
  <1>7. far(c) = 0
    BY <1>1, <1>3, <1>6
  <1>8. QED
    BY <1>1, <1>6, <1>7 DEF c

LEMMA MedianMeasured ==
  ASSUME IInv, Len(knees) = Reps, Reps % 2 = 1
  PROVE  \E m \in Nat : MedianTwice(knees) = 2 * m /\ \E i \in DOMAIN knees : knees[i] = m
  <1> DEFINE k == (Reps + 1) \div 2
             m == Ranked(knees, k)
  <1>1. knees \in Seq(Nat) /\ capacity \in Nat /\ DOMAIN knees = 1..Reps /\ Reps \in Nat
    BY CountsNat DEF IInv, TypeOK
  <1>2. k \in Nat /\ 0 < k /\ k <= Reps /\ (Reps + 2) \div 2 = k
    BY <1>1
  <1>3. \A i \in DOMAIN knees : knees[i] <= capacity
    BY <1>1 DEF IInv, Bracketed
  <1>4. \E i \in DOMAIN knees : knees[i] = m
    BY <1>1, <1>2, <1>3, RankedIs
  <1>5. MedianTwice(knees) = m + m
    BY <1>2 DEF MedianTwice
  <1> HIDE DEF m
  <1>6. m \in Nat
    BY <1>1, <1>4
  <1>7. QED
    BY <1>4, <1>5, <1>6

LEMMA SameRepStep ==
  ASSUME Reps % 2 = 1, IInv, KneeInv, SameRepUnlessZero, [Next]_vars
  PROVE  SameRepUnlessZero'
  <1> USE DEF search, outcome, SameRepUnlessZero, SameRep
  <1>1. CASE StartPass
    BY <1>1 DEF StartPass, Fails
  <1>2. CASE Preflight
    BY <1>2 DEF Preflight
  <1>3. CASE RunAllReturns \/ BeginSweep \/ LimitReached \/ EndSweep \/ UNCHANGED vars
    BY <1>3 DEF RunAllReturns, BeginSweep, LimitReached, EndSweep, vars
  <1>4. CASE FirstRate \/ RampUp \/ RampDown
    BY <1>4 DEF FirstRate, RampUp, RampDown, Passed, Missed, TestRate
  <1>5. CASE Report
    <2>1. stage = "reporting" /\ report'.twiceQps = MedianTwice(knees) /\ report'.best = BestPoint(knees)
      BY <1>5 DEF Report
    <2>2. Len(knees) = Reps
      BY <2>1 DEF KneeInv
    <2>3. PICK m \in Nat : MedianTwice(knees) = 2 * m /\ \E i \in DOMAIN knees : knees[i] = m
      BY <2>2, MedianMeasured
    <2>4. knees[MedianSweep(knees)] = m
      BY <2>3, MedianSweepIs DEF IInv, TypeOK
    <2>5. m > 0 => BestPoint(knees) = m
      BY <2>4 DEF BestPoint
    <2>6. QED
      BY <2>1, <2>3, <2>5
  <1>6. CASE SweepRaises
    BY <1>6 DEF SweepRaises, Fails
  <1>7. QED
    BY <1>1, <1>2, <1>3, <1>4, <1>5, <1>6 DEF Next, Proceed

(* "Secondary metrics MUST come from the SAME rep as the reported (median) *)
(* knee": with an odd number of sweeps they do, whichever sweeps are       *)
(* spoilt, unless the median is zero.                                      *)
THEOREM SecondaryFromMedian ==
  ASSUME Reps % 2 = 1
  PROVE  Spec => []SameRepUnlessZero
  <1>1. Init => KneeInv
    BY CountsNat DEF Init, KneeInv, HeadlineTight
  <1>2. Init => SameRepUnlessZero
    BY DEF Init, SameRepUnlessZero
  <1>3. IInv /\ KneeInv /\ SameRepUnlessZero /\ [Next]_vars => KneeInv' /\ SameRepUnlessZero'
    BY KneeStep, SameRepStep
  <1>4. QED
    BY Invariance, <1>1, <1>2, <1>3, PTL DEF Spec
=============================================================================
