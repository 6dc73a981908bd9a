----------------------------- MODULE StressSweep -----------------------------
(***************************************************************************)
(* The capacity search of gbench/runners/stress.py: run_all makes a text   *)
(* and a multimodal pass, run makes one pass (preflight, then Reps sweeps  *)
(* and their summary), _sweep_once searches for the highest arrival rate   *)
(* the server sustains, the knee.                                          *)
(*                                                                         *)
(* Rates are integers, in thousandths of a request per second (the code    *)
(* rounds to three decimals).  The server of a pass sustains the rates up  *)
(* to its capacity; a measured point above it misses one of the gates, and *)
(* a point below it passes them unless something else spoils it: a client  *)
(* that cannot keep up, failed requests, work queued by an earlier point.  *)
(***************************************************************************)
EXTENDS Integers, Sequences, FiniteSets

CONSTANTS
  Passes,      \* passes of run_all
  Reps,        \* STRESS_REPS
  MaxQps,      \* MAX_QPS, the safety cap
  MinDown,     \* MIN_DOWN_QPS
  InitialQps,  \* start of a sweep when no latency was probed
  Capacities,  \* what the servers may sustain
  Estimates,   \* half the single-stream capacity, as a preflight may measure it
  MaxSpoilt    \* bound: the sweeps of a pass with a spoilt point

ASSUME CountsNat == Passes \in Nat /\ Reps \in Nat \ {0} /\ MaxSpoilt \in Nat
ASSUME RatesNat  == MaxQps \in Nat \ {0} /\ InitialQps \in Nat \ {0}
ASSUME FloorTwo  == MinDown \in Nat \ {0, 1} /\ MinDown <= InitialQps
ASSUME ServerNat == Capacities \subseteq Nat /\ Estimates \subseteq Nat

VARIABLES
  pass,       \* the pass run_all is at
  stage,      \* what the pass is doing
  capacity,   \* what its server sustains
  estimate,   \* _probe_e2e_ms, as half the capacity it implies; 0 for None
  rate,       \* the next rate to probe
  tested,     \* _tested_rates: the verdict on each rate measured in this sweep
  lastPass,   \* last_pass
  firstFail,  \* first_fail, 0 for None
  knees,      \* knees of the sweeps of this pass
  spoilt,     \* which of its sweeps had a spoilt point
  report      \* the result of the latest pass

vars == <<pass, stage, capacity, estimate, rate, tested, lastPass, firstFail,
          knees, spoilt, report>>
search  == <<rate, tested, lastPass, firstFail>>
outcome == <<knees, spoilt, report>>

Stage   == {"idle", "preflight", "ready", "first", "up", "down", "swept",
            "reporting", "over"}
Verdict == {"passed", "missed"}

TypeOK ==
  /\ pass \in 0..Passes
  /\ stage \in Stage
  /\ capacity \in Nat
  /\ estimate \in Nat
  /\ rate \in Nat
  /\ DOMAIN tested \subseteq Nat
  /\ \A q \in DOMAIN tested : tested[q] \in Verdict
  /\ lastPass \in Nat
  /\ firstFail \in Nat
  /\ knees \in Seq(Nat)
  /\ spoilt \subseteq 1..Reps
  /\ report.kind \in {"none", "failed", "skipped", "measured"}

Init ==
  /\ pass = 0
  /\ stage = "idle"
  /\ capacity = 0
  /\ estimate = 0
  /\ rate = 0
  /\ tested = <<>>
  /\ lastPass = 0
  /\ firstFail = 0
  /\ knees = <<>>
  /\ spoilt = {}
  /\ report = [kind |-> "none"]

Least(a, b)    == IF a <= b THEN a ELSE b
Greatest(a, b) == IF a >= b THEN a ELSE b
Distance(a, b) == IF a >= b THEN a - b ELSE b - a

-----------------------------------------------------------------------------
(* A pass: run                                                             *)

Sweeping == {"first", "up", "down"}

(* An exception ends the pass with a failed result; run_all goes on.       *)
Fails ==
  /\ stage' = "idle"
  /\ report' = [kind |-> "failed"]

PassLeft == pass < Passes

(* A server of its own, or an exception before it is up.                   *)
StartPass ==
  /\ stage = "idle"
  /\ PassLeft
  /\ pass' = pass + 1
  /\ knees' = <<>>
  /\ spoilt' = {}
  /\ \/ /\ stage' = "preflight"
        /\ capacity' \in Capacities
        /\ UNCHANGED report
     \/ /\ Fails
        /\ UNCHANGED capacity
  /\ UNCHANGED <<estimate, search>>

(* _preflight_floor_check: a latency that seeds the sweeps, an error that  *)
(* leaves the previous one in place, or a server below the floor.          *)
Preflight ==
  /\ stage = "preflight"
  /\ \/ /\ stage' = "ready"
        /\ estimate' \in Estimates \cup {estimate}
        /\ UNCHANGED report
     \/ /\ stage' = "idle"
        /\ report' = [kind |-> "skipped"]
        /\ estimate' \in Estimates \cup {estimate}
  /\ UNCHANGED <<pass, capacity, search, knees, spoilt>>

SweepRaises ==
  /\ stage \in Sweeping
  /\ Fails
  /\ UNCHANGED <<pass, capacity, estimate, search, knees, spoilt>>

RunAllReturns ==
  /\ stage = "idle"
  /\ ~PassLeft
  /\ stage' = "over"
  /\ UNCHANGED <<pass, capacity, estimate, search, outcome>>

-----------------------------------------------------------------------------
(* A sweep: _sweep_once                                                    *)

StartQps ==
  Least(MaxQps, IF estimate > 0 THEN Greatest(MinDown, estimate) ELSE InitialQps)

(* Seeded fault: what earlier sweeps measured is kept.                     *)
BeginSweepCached ==
  /\ stage = "ready"
  /\ stage' = "first"
  /\ rate' = StartQps
  /\ lastPass' = 0
  /\ firstFail' = 0
  /\ UNCHANGED <<pass, capacity, estimate, tested, outcome>>

BeginSweep ==
  /\ stage = "ready"
  /\ stage' = "first"
  /\ rate' = StartQps
  /\ tested' = <<>>
  /\ lastPass' = 0
  /\ firstFail' = 0
  /\ UNCHANGED <<pass, capacity, estimate, outcome>>

(* round(x / 2, 3): half a thousandth goes either way.                     *)
Halves(q) == {q \div 2, (q + 1) \div 2}

(* What _test_rate may find: a rate the server sustains passes its five    *)
(* gates (keep-up, latency, samples, failures, client), unless spoilt.     *)
Sustainable == rate <= capacity
MaySpoil    == Cardinality(spoilt \cup {Len(knees) + 1}) <= MaxSpoilt
Verdicts    == (IF Sustainable THEN {"passed"} ELSE {"missed"})
               \cup (IF MaySpoil THEN {"missed"} ELSE {})

(* _test_rate measures a rate unless it already has in this sweep.         *)
TestRate(verdict) ==
  /\ verdict \in IF rate \in DOMAIN tested THEN {tested[rate]} ELSE Verdicts
  /\ tested' = [q \in DOMAIN tested \cup {rate} |-> IF q = rate THEN verdict ELSE tested[q]]
  /\ spoilt' = IF rate \notin DOMAIN tested /\ Sustainable /\ verdict = "missed"
               THEN spoilt \cup {Len(knees) + 1} ELSE spoilt
  /\ UNCHANGED <<pass, capacity, estimate, knees, report>>

(* Seeded faults: the rate that passed, or missed, is not remembered.      *)
PassedForgets == TestRate("passed") /\ UNCHANGED <<lastPass, firstFail>>
MissedForgets == TestRate("missed") /\ UNCHANGED <<lastPass, firstFail>>

Passed == TestRate("passed") /\ lastPass' = rate /\ UNCHANGED firstFail
Missed == TestRate("missed") /\ firstFail' = rate /\ UNCHANGED lastPass

FirstRate ==
  /\ stage = "first"
  /\ \/ /\ Passed
        /\ stage' = "up"
        /\ rate' = 2 * rate
     \/ /\ Missed
        /\ stage' = "down"
        /\ rate' \in Halves(rate)

(* Ramp up by doubling to the first miss.                                  *)
RampUp ==
  /\ stage = "up"
  /\ rate <= MaxQps
  /\ \/ /\ Passed
        /\ UNCHANGED stage
        /\ rate' = 2 * rate
     \/ /\ Missed
        /\ stage' = "swept"
        /\ UNCHANGED rate

(* The start already misses: ramp down by halving to the first pass.       *)
RampDown ==
  /\ stage = "down"
  /\ rate >= MinDown
  /\ \/ /\ Passed
        /\ stage' = "swept"
        /\ UNCHANGED rate
     \/ /\ Missed
        /\ UNCHANGED stage
        /\ rate' \in Halves(rate)

(* Seeded fault: no safety cap.                                            *)
AtLimitNever == stage = "down" /\ rate < MinDown

AtLimit == (stage = "up" /\ rate > MaxQps) \/ (stage = "down" /\ rate < MinDown)

LimitReached ==
  /\ AtLimit
  /\ stage' = "swept"
  /\ UNCHANGED <<pass, capacity, estimate, search, outcome>>

EndSweep ==
  /\ stage = "swept"
  /\ knees' = Append(knees, lastPass)
  /\ stage' = IF Len(knees) + 1 < Reps THEN "ready" ELSE "reporting"
  /\ UNCHANGED <<pass, capacity, estimate, search, spoilt, report>>
-----------------------------------------------------------------------------
(* The summary of the sweeps: _knee_stats and the end of run               *)

(* The k-th smallest of s.                                                 *)
Ranked(s, k) ==
  CHOOSE v \in {s[i] : i \in DOMAIN s} :
    /\ Cardinality({i \in DOMAIN s : s[i] < v}) < k
    /\ k <= Cardinality({i \in DOMAIN s : s[i] <= v})

(* Twice the median.                                                       *)
MedianTwice(s) ==
  Ranked(s, (Len(s) + 1) \div 2) + Ranked(s, (Len(s) + 2) \div 2)

(* The first sweep whose knee is nearest to the median.                    *)
MedianSweep(s) ==
  LET far(i) == Distance(2 * s[i], MedianTwice(s)) IN
  CHOOSE i \in DOMAIN s : \A j \in DOMAIN s : far(i) < far(j) \/ (far(i) = far(j) /\ i <= j)

(* The measured point the secondary figures are taken from, as its rate:   *)
(* best of that sweep, else all_best, of the last sweep that has a knee; 0 *)
(* for {}.                                                                 *)
BestPoint(s) ==
  LET positive == SelectSeq(s, LAMBDA k : k > 0) IN
  IF s[MedianSweep(s)] > 0 THEN s[MedianSweep(s)]
  ELSE IF positive = <<>> THEN 0 ELSE positive[Len(positive)]

Report ==
  /\ stage = "reporting"
  /\ stage' = "idle"
  /\ report' = [kind |-> "measured", twiceQps |-> MedianTwice(knees), best |-> BestPoint(knees)]
  /\ UNCHANGED <<pass, capacity, estimate, search, knees, spoilt>>

-----------------------------------------------------------------------------
Proceed ==
  \/ StartPass \/ Preflight \/ RunAllReturns
  \/ BeginSweep \/ FirstRate \/ RampUp \/ RampDown \/ LimitReached \/ EndSweep
  \/ Report

Next == Proceed \/ SweepRaises

Spec == Init /\ [][Next]_vars

(* The search is one thread that waits only for measurements, which are    *)
(* bounded by REQUEST_TIMEOUT_S and MAX_POINT_S; no exception is counted   *)
(* on.                                                                     *)
FairSpec == Spec /\ WF_vars(Proceed)

-----------------------------------------------------------------------------
(* Properties                                                              *)

(* A knee (doubled, for the median) that is right about the server up to   *)
(* the factor of two between probes, or up to the limits of the search.    *)
Tight(twice) ==
  /\ twice <= 2 * capacity
  /\ IF twice > 0 THEN capacity <= twice \/ twice > MaxQps
     ELSE capacity < 2 * MinDown

(* Wherever a sweep starts, its knee is never more than the server         *)
(* sustains, and without a spoilt point it is right.                       *)
Bracketed ==
  \A i \in 1..Len(knees) : knees[i] <= capacity /\ (i \notin spoilt => Tight(2 * knees[i]))

(* A sweep ends at the cap or with its knee and the miss just above it both *)
(* measured, which is what the interpolation between them takes for given. *)
BracketMeasured ==
  stage = "swept" /\ lastPass > 0 =>
    /\ lastPass \in DOMAIN tested /\ tested[lastPass] = "passed"
    /\ IF firstFail = 0 THEN 2 * lastPass > MaxQps
       ELSE /\ firstFail \in DOMAIN tested /\ tested[firstFail] = "missed"
            /\ lastPass < firstFail /\ firstFail <= 2 * lastPass + 1

(* "It rejects a single spurious rep": when fewer than half of the sweeps  *)
(* are spoilt the headline is right, whatever those report.                *)
HeadlineTight ==
  report.kind = "measured" /\ stage \in {"idle", "over"} /\ 2 * Cardinality(spoilt) < Reps
    => Tight(report.twiceQps)

(* "Secondary metrics MUST come from the SAME rep as the reported (median) *)
(* knee".                                                                  *)
SameRep ==
  report.kind = "measured" => 2 * report.best = report.twiceQps

(* It does hold of every headline that is not zero.                        *)
SameRepUnlessZero ==
  report.kind = "measured" /\ report.twiceQps > 0 => SameRep

(* Every pass comes to an end: the doubling at the safety cap, the halving *)
(* at MIN_DOWN_QPS.                                                        *)
Finishes == <>(stage = "over")
=============================================================================
