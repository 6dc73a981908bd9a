------------------------------- MODULE GoldenSet -------------------------------
(***************************************************************************)
(* The Golden Set runner: gbench/runners/golden.py.  One runner object     *)
(* serves all models of a program: it resolves the name to send to the     *)
(* endpoint, asks the cases one by one, retrying what is transient, and    *)
(* reduces their statuses to a verdict on the model.                       *)
(***************************************************************************)
EXTENDS Naturals, FiniteSets

CONSTANTS
  N,            \* models of the program
  C,            \* cases of the dataset
  MediaCases,   \* cases that carry an image or audio
  MaxAttempts   \* MAX_ATTEMPTS

ASSUME GoldenConstants ==
  /\ N \in Nat \ {0} /\ C \in Nat \ {0} /\ MaxAttempts \in Nat \ {0}
  /\ MediaCases \subseteq 1..C

Named  == 1..N
Cases  == 1..C
Status == {"passed", "failed", "error", "not_applicable"}

VARIABLES
  override,   \* --golden-model-id, 0 without one
  served,     \* the models the endpoint serves
  textOnly,   \* the models without the modality of MediaCases
  modelId,    \* self._model_id: the name resolved, 0 for None
  judged,     \* the model run() is about, 0 outside run()
  at,         \* the case the loop is at, 0 before the name is resolved
  attempt,    \* attempts at the request in hand
  results,    \* task_results: the status of each case of this run
  asked,      \* history: the model each run put its cases to, 0 for none
  verdict     \* the status of the summary of each model

endpoint   == <<override, served, textOnly>>
goldenVars == <<endpoint, modelId, judged, at, attempt, results, asked, verdict>>

GoldenTypeOK ==
  /\ override \in 0..N
  /\ served \in SUBSET Named
  /\ textOnly \in SUBSET Named
  /\ modelId \in 0..N
  /\ judged \in 0..N
  /\ at \in 0..(C + 1)
  /\ attempt \in 0..MaxAttempts
  /\ results \in [Cases -> Status \cup {"none"}]
  /\ asked \in [Named -> 0..N]
  /\ verdict \in [Named -> {"none", "passed", "failed", "error"}]

GoldenInit ==
  /\ override \in 0..N
  /\ served \in SUBSET Named
  /\ textOnly \in SUBSET Named
  /\ modelId = 0
  /\ judged = 0
  /\ at = 0
  /\ attempt = 0
  /\ results = [c \in Cases |-> "none"]
  /\ asked = [m \in Named |-> 0]
  /\ verdict = [m \in Named |-> "none"]

Summarise(v) ==
  /\ verdict' = [verdict EXCEPT ![judged] = v]
  /\ judged' = 0
  /\ at' = 0
  /\ attempt' = 0
  /\ results' = [c \in Cases |-> "none"]

-----------------------------------------------------------------------------
(* run for one model; the dataset may be missing.                          *)
StartGolden(m) ==
  /\ judged = 0
  /\ \/ /\ judged' = m
        /\ UNCHANGED verdict
     \/ /\ verdict' = [verdict EXCEPT ![m] = "error"]
        /\ UNCHANGED judged
  /\ UNCHANGED <<endpoint, modelId, at, attempt, results, asked>>

Ask(m) ==
  /\ modelId' = m
  /\ asked' = [asked EXCEPT ![judged] = m]
  /\ at' = 1
  /\ UNCHANGED <<endpoint, judged, attempt, results, verdict>>

(* The name is resolved once for the life of the runner.                   *)
ResolvedBefore ==
  /\ judged # 0 /\ at = 0
  /\ modelId # 0
  /\ Ask(modelId)

(* Whatever the operator has named goes before any listing.                *)
ResolveOverride ==
  /\ judged # 0 /\ at = 0
  /\ modelId = 0
  /\ override # 0
  /\ Ask(override)

(* The listing names one model, or the configured one among several.       *)
ResolveListed ==
  /\ judged # 0 /\ at = 0
  /\ modelId = 0 /\ override = 0
  /\ \/ Cardinality(served) = 1 /\ \E m \in served : Ask(m)
     \/ Cardinality(served) > 1 /\ judged \in served /\ Ask(judged)

(* No listing, or an empty one: the configured name.                       *)
ResolveConfigured ==
  /\ judged # 0 /\ at = 0
  /\ modelId = 0 /\ override = 0
  /\ Ask(judged)

ResolveFails ==
  /\ judged # 0 /\ at = 0
  /\ modelId = 0 /\ override = 0
  /\ Cardinality(served) > 1
  /\ judged \notin served
  /\ Summarise("error")
  /\ UNCHANGED <<endpoint, modelId, asked>>

-----------------------------------------------------------------------------
Settle(s) ==
  /\ results' = [results EXCEPT ![at] = s]
  /\ at' = at + 1
  /\ attempt' = 0
  /\ UNCHANGED <<endpoint, modelId, judged, asked, verdict>>

(* A case whose modality the model lacks by its own configuration.         *)
NotApplicable ==
  /\ at \in MediaCases
  /\ judged \in textOnly
  /\ Settle("not_applicable")

Applicable == at \in Cases /\ ~(at \in MediaCases /\ judged \in textOnly)

(* The endpoint answers for a model it serves: the answer passes or fails, *)
(* or the case itself is malformed.                                        *)
Answered ==
  /\ Applicable
  /\ modelId \in served
  /\ \E s \in {"passed", "failed", "error"} : Settle(s)

(* A request that cannot succeed: an HTTP error that is no use repeating,  *)
(* a body that is no JSON, no choices, a missing asset.                    *)
Refused ==
  /\ Applicable
  /\ Settle("error")

(* Seeded fault: the last failure is held against the model.               *)
TransientAsFailed ==
  /\ Applicable
  /\ Settle("failed")

(* A transient failure is retried; the last attempt is an error.           *)
Transient ==
  /\ Applicable
  /\ IF attempt + 1 < MaxAttempts
       THEN /\ attempt' = attempt + 1
            /\ UNCHANGED <<endpoint, modelId, judged, at, results, asked, verdict>>
       ELSE Settle("error")

Reduce(seen) ==
  IF "error" \in seen THEN "error" ELSE IF "failed" \in seen THEN "failed" ELSE "passed"

Conclude ==
  /\ at = C + 1
  /\ Summarise(Reduce({results[c] : c \in Cases}))
  /\ UNCHANGED <<endpoint, modelId, asked>>

GoldenStep == \/ ResolvedBefore \/ ResolveOverride \/ ResolveListed
              \/ ResolveConfigured \/ ResolveFails
              \/ NotApplicable \/ Answered \/ Refused \/ Transient \/ Conclude

-----------------------------------------------------------------------------
(* Properties                                                              *)

(* "Omitting it lets a multi-model endpoint or a router silently answer    *)
(* from a different checkpoint than the one the report names": a model is  *)
(* judged by its own answers wherever the endpoint serves more than one    *)
(* and the operator has not named another.                                 *)
GoldenAsksOwn ==
  \A m \in Named : verdict[m] \in {"passed", "failed"} /\ Cardinality(served) > 1 /\ override = 0
                     => asked[m] = m

(* How far GoldenAsksOwn fails: whatever is asked of the endpoint, every    *)
(* model of a program is judged by the answers of one and the same model   *)
(* (golden.py:652).                                                        *)
OneAskedForAll == \A m, n \in Named : asked[m] # 0 /\ asked[n] # 0 => asked[m] = asked[n]

(* A verdict on a model rests on answers: where the endpoint does not      *)
(* serve the model it was put to, no retry, refusal or fallback of the     *)
(* name makes it pass or fail - but for a set with no case for it, which   *)
(* it passes unasked (golden.py:1039).                                     *)
VerdictNeedsAnswer ==
  \A m \in Named :
    /\ verdict[m] = "failed" => asked[m] \in served
    /\ verdict[m] = "passed" => asked[m] \in served \/ (Cases \subseteq MediaCases /\ m \in textOnly)
=============================================================================
