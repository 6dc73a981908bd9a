------------------------------ MODULE EvalSuite ------------------------------
(***************************************************************************)
(* One evaluation suite, gbench/runners/eval_suites/base.py:               *)
(* _run_suite_async sends every sample to the model at once, with          *)
(* Concurrency requests in flight; _fetch_sample drives one sample through *)
(* its tool loop, _send_single_request one request through its retries;    *)
(* replies are classified and tallied as they come in, graded, and summed  *)
(* up in a status.                                                         *)
(*                                                                         *)
(* A reply is what the code looks at: how much text it has, whether it     *)
(* calls tools, whether it was cut off at the token budget.                *)
(***************************************************************************)
EXTENDS Integers, FiniteSets

CONSTANTS
  Samples,        \* indices of the samples of the suite
  Concurrency,    \* permits of the semaphore
  MaxToolRounds,  \* max_tool_rounds
  Tries,          \* attempts at one request: 3 in the code
  CutShare        \* at most one answer in CutShare may be cut off: 10 in the code

ASSUME SamplesFinite == IsFiniteSet(Samples) /\ Samples # {}
ASSUME BoundsNat == Concurrency \in Nat \ {0} /\ MaxToolRounds \in Nat /\ Tries \in Nat \ {0}
ASSUME ShareNat  == CutShare \in Nat \ {0}

VARIABLES
  tools,      \* the suite has a tool_executor
  judged,     \* the suite has an async_eval_fn, which grades all samples at the end
  phase,      \* what _run_suite_async is doing
  at,         \* where _fetch_sample is with a sample, and then the sample's trace
  turn,       \* why it is sending: in the loop, for a forced final answer, or to recover one
  try,        \* attempt of _send_single_request
  rounds,     \* tool rounds used
  oversize,   \* the last clamp_to_context found no room for an answer
  reply,      \* latest Reply
  grade,      \* judge_grade, scoring_excluded and is_correct of a trace
  failed,     \* failed_requests
  truncated,  \* truncated_responses
  correct,    \* correct_count
  result      \* what the suite returns

loop    == <<at, turn, try, rounds, oversize, reply>>
tallies == <<failed, truncated, correct>>
vars    == <<tools, judged, phase, loop, grade, tallies, result>>

Text    == {"none", "empty", "blank", "words"}
NoReply == [text |-> "none", calls |-> FALSE, cut |-> FALSE]

(* Tool calls are rendered into the text.                                  *)
Replies == {NoReply}
  \cup [text : {"empty", "blank"}, calls : {FALSE}, cut : BOOLEAN]
  \cup [text : {"words"}, calls : BOOLEAN, cut : BOOLEAN]

Grade  == {"ungraded", "right", "wrong", "unparsed", "outage", "excluded"}
Status == {"failed", "success", "completed_with_errors"}

TypeOK ==
  /\ tools \in BOOLEAN
  /\ judged \in BOOLEAN
  /\ phase \in {"generating", "judging", "raised", "reported"}
  /\ at \in [Samples -> {"unsent", "queued", "sending", "replied", "returned", "recorded"}]
  /\ turn \in [Samples -> {"loop", "final", "recover"}]
  /\ try \in [Samples -> 1..Tries]
  /\ rounds \in [Samples -> 0..MaxToolRounds]
  /\ oversize \in [Samples -> BOOLEAN]
  /\ reply \in [Samples -> Replies]
  /\ grade \in [Samples -> Grade]
  /\ failed \in 0..2 * Cardinality(Samples)
  /\ truncated \in 0..Cardinality(Samples)
  /\ correct \in 0..Cardinality(Samples)
  /\ result \in {"none"} \cup Status

(* One suite of any of the four kinds.                                     *)
Init ==
  /\ tools \in BOOLEAN
  /\ judged \in BOOLEAN
  /\ phase = "generating"
  /\ at = [s \in Samples |-> "unsent"]
  /\ turn = [s \in Samples |-> "loop"]
  /\ try = [s \in Samples |-> 1]
  /\ rounds = [s \in Samples |-> 0]
  /\ oversize = [s \in Samples |-> FALSE]
  /\ reply = [s \in Samples |-> NoReply]
  /\ grade = [s \in Samples |-> "ungraded"]
  /\ failed = 0
  /\ truncated = 0
  /\ correct = 0
  /\ result = "none"

-----------------------------------------------------------------------------
(* One sample: _fetch_sample and _send_single_request                      *)

Set(f, s, v) == [f EXCEPT ![s] = v]

InFlight == {s \in Samples : at[s] = "sending"}

Generating(s, stage) == phase = "generating" /\ at[s] = stage

(* A request for turn t, if clamp_to_context leaves room for an answer;    *)
(* otherwise the sample is returned with the reply it has.                 *)
AskIfRoom(s, t) ==
  \/ /\ at' = Set(at, s, "queued")
     /\ turn' = Set(turn, s, t)
     /\ try' = Set(try, s, 1)
     /\ oversize' = Set(oversize, s, FALSE)
  \/ /\ at' = Set(at, s, "returned")
     /\ oversize' = Set(oversize, s, TRUE)
     /\ UNCHANGED <<turn, try>>

Begin(s) ==
  /\ Generating(s, "unsent")
  /\ AskIfRoom(s, "loop")
  /\ UNCHANGED <<rounds, reply>>

Acquire(s) ==
  /\ Generating(s, "queued")
  /\ Cardinality(InFlight) < Concurrency
  /\ at' = Set(at, s, "sending")
  /\ UNCHANGED <<turn, try, rounds, oversize, reply>>

(* The permit is given back with the reply.  _retry_discarded_final keeps  *)
(* what it was handed unless the new reply has words.                      *)
Deliver(s, r) ==
  /\ at' = Set(at, s, "replied")
  /\ reply' = Set(reply, s, IF turn[s] = "recover" /\ r.text # "words" THEN reply[s] ELSE r)
  /\ UNCHANGED <<turn, try, rounds, oversize>>

(* The server answers; it parses tool calls only where tools are offered.  *)
Answer(s) ==
  /\ Generating(s, "sending")
  /\ \E r \in Replies \ {NoReply} :
       /\ turn[s] # "loop" => ~r.calls
       /\ Deliver(s, r)

(* A timeout, an exception, an error status or a shrunk budget: the next   *)
(* attempt keeps the permit, also while it backs off.                      *)
Retry(s) ==
  /\ Generating(s, "sending")
  /\ try[s] < Tries
  /\ try' = Set(try, s, try[s] + 1)
  /\ UNCHANGED <<at, turn, rounds, oversize, reply>>

GiveUp(s) ==
  /\ Generating(s, "sending")
  /\ try[s] = Tries
  /\ Deliver(s, NoReply)

Return(s) ==
  /\ at' = Set(at, s, "returned")
  /\ UNCHANGED <<turn, try, rounds, oversize, reply>>

(* The budget went into the reasoning channel: no words and no call.       *)
RanDry(s) == tools /\ reply[s].cut /\ reply[s].text # "words"

CallsTools(s) == tools /\ reply[s].calls

(* The sample's answer, or a first forced final turn.                      *)
EndLoop(s) ==
  /\ Generating(s, "replied")
  /\ turn[s] = "loop"
  /\ ~CallsTools(s)
  /\ IF RanDry(s)
       THEN AskIfRoom(s, "final") /\ UNCHANGED <<rounds, reply>>
       ELSE Return(s)

MoreRounds(s) == rounds[s] < MaxToolRounds

(* Seeded fault: out of rounds, the tool call is returned as it is.        *)
ForceFinalDropped(s) ==
  /\ Generating(s, "replied")
  /\ turn[s] = "loop"
  /\ CallsTools(s)
  /\ ~MoreRounds(s)
  /\ Return(s)

(* Out of rounds with a tool call in hand: one final turn without tools.   *)
ForceFinal(s) ==
  /\ Generating(s, "replied")
  /\ turn[s] = "loop"
  /\ CallsTools(s)
  /\ ~MoreRounds(s)
  /\ AskIfRoom(s, "final")
  /\ UNCHANGED <<rounds, reply>>

(* Seeded fault: the round is not counted.                                 *)
RunToolsUncounted(s) ==
  /\ Generating(s, "replied")
  /\ turn[s] = "loop"
  /\ CallsTools(s)
  /\ MoreRounds(s)
  /\ AskIfRoom(s, "loop")
  /\ UNCHANGED <<rounds, reply>>

(* The calls are awaited, however long they take; their results make the   *)
(* transcript longer.                                                      *)
RunTools(s) ==
  /\ Generating(s, "replied")
  /\ turn[s] = "loop"
  /\ CallsTools(s)
  /\ MoreRounds(s)
  /\ rounds' = Set(rounds, s, rounds[s] + 1)
  /\ AskIfRoom(s, "loop")
  /\ UNCHANGED reply

(* classify_reply calls a wordless final reply output_discarded when it    *)
(* has completion tokens but no reasoning; then it is asked for once more. *)
RecoverFinal(s) ==
  /\ Generating(s, "replied")
  /\ turn[s] = "final"
  /\ reply[s].text \in {"empty", "blank"}
  /\ ~reply[s].cut
  /\ at' = Set(at, s, "queued")
  /\ turn' = Set(turn, s, "recover")
  /\ try' = Set(try, s, 1)
  /\ UNCHANGED <<rounds, oversize, reply>>

EndFinal(s) ==
  /\ Generating(s, "replied")
  /\ turn[s] \in {"final", "recover"}
  /\ Return(s)

(* What has a timeout, or waits for nothing but a permit.                  *)
Request(s) ==
  \/ Begin(s) \/ Acquire(s) \/ Answer(s) \/ Retry(s) \/ GiveUp(s)
  \/ EndLoop(s) \/ ForceFinal(s) \/ RecoverFinal(s) \/ EndFinal(s)

Fetch(s) ==
  /\ Request(s) \/ RunTools(s)
  /\ UNCHANGED <<tools, judged, phase, grade, tallies, result>>

-----------------------------------------------------------------------------
(* The suite: classification, grading and summary                          *)

(* Seeded faults: an empty reply passes for an answer; one cut off before  *)
(* its first word passes for a failed request.                             *)
FruitlessIfNone(r) == r.text = "none"
FruitlessIfCut(r)  == r.text \in {"none", "empty", "blank"}

(* Counted in failed_requests as it comes in.                              *)
Fruitless(r) == r.text = "none" \/ (r.text \in {"empty", "blank"} /\ ~r.cut)

(* What eval_fn may say of a reply.                                        *)
Verdicts(r) == IF Fruitless(r) THEN {"wrong"} ELSE {"right", "wrong"}

Record(s) ==
  /\ Generating(s, "returned")
  /\ at' = Set(at, s, "recorded")
  /\ failed' = failed + (IF Fruitless(reply[s]) THEN 1 ELSE 0)
  /\ truncated' = truncated + (IF reply[s].cut THEN 1 ELSE 0)
  /\ \/ judged /\ UNCHANGED <<grade, correct>>
     \/ /\ ~judged
        /\ \E v \in Verdicts(reply[s]) :
             /\ grade' = Set(grade, s, v)
             /\ correct' = correct + (IF v = "right" THEN 1 ELSE 0)
  /\ UNCHANGED <<tools, judged, phase, turn, try, rounds, oversize, reply, result>>

AllRecorded == \A s \in Samples : at[s] = "recorded"

StartJudging ==
  /\ phase = "generating"
  /\ judged
  /\ AllRecorded
  /\ phase' = "judging"
  /\ UNCHANGED <<tools, judged, loop, grade, tallies, result>>

(* What the graders of the suites may make of a reply: a sample can be     *)
(* excluded whatever it replied, and a judge is only asked about a text.   *)
GradesOf(r) ==
  {"wrong", "excluded"}
    \cup (IF r.text \in {"blank", "words"} THEN {"right", "unparsed", "outage"} ELSE {})
    \cup (IF r.cut THEN {"right"} ELSE {})

(* The judge is awaited, however long it takes.                            *)
JudgeSample(s) ==
  /\ phase = "judging"
  /\ grade[s] = "ungraded"
  /\ \E g \in GradesOf(reply[s]) : grade' = Set(grade, s, g)
  /\ UNCHANGED <<tools, judged, phase, loop, tallies, result>>

Graded(g) == {s \in Samples : grade[s] = g}
Total     == Cardinality(Samples)
Scored    == Total - Cardinality(Graded("outage")) - Cardinality(Graded("excluded"))

(* status_str, from the failed requests, the judge outages and the answers *)
(* cut off.                                                                *)
StatusOf(f, o, t) ==
  IF f = Total \/ o >= Total
    THEN "failed"
    ELSE IF f = 0 /\ o = 0 /\ t * CutShare <= Total
      THEN "success"
      ELSE "completed_with_errors"

Report ==
  /\ \/ phase = "generating" /\ ~judged /\ AllRecorded
     \/ phase = "judging" /\ Graded("ungraded") = {}
  /\ phase' = "reported"
  /\ failed' = failed + Cardinality(Graded("unparsed"))
  /\ correct' = IF judged THEN Cardinality(Graded("right")) ELSE correct
  /\ result' = StatusOf(failed', Cardinality(Graded("outage")), truncated)
  /\ UNCHANGED <<tools, judged, loop, grade, truncated>>

(* A grader raises: the suite returns nothing, its caller records an error.*)
GraderRaises ==
  /\ \/ /\ phase = "generating"
        /\ ~judged
        /\ \E s \in Samples : at[s] = "returned" /\ ~Fruitless(reply[s])
     \/ phase = "judging"
  /\ phase' = "raised"
  /\ UNCHANGED <<tools, judged, loop, grade, tallies, result>>

Proceed ==
  \/ \E s \in Samples : Fetch(s) \/ Record(s) \/ JudgeSample(s)
  \/ StartJudging
  \/ Report

Next == Proceed \/ GraderRaises

(* What the suite is sure to do: requests have timeouts, but neither the   *)
(* await of a tool nor that of a judge has one.                            *)
Prompt ==
  \/ \E s \in Samples : Record(s) \/ (Request(s) /\ Fetch(s))
  \/ StartJudging
  \/ Report

Spec     == Init /\ [][Next]_vars
FairSpec == Spec /\ WF_vars(Prompt)

-----------------------------------------------------------------------------
(* Properties                                                              *)

Answered(s) == reply[s].text = "words" \/ reply[s].cut

(* "success" is only reported when every sample was answered, no answer    *)
(* was lost to the judge, and few were cut off (base.py:1564): the failed  *)
(* requests, empty replies, judge failures and outages of a suite, counted *)
(* in four places, all reach the status.                                   *)
SuccessEarned ==
  result = "success" =>
    /\ \A s \in Samples : Answered(s) /\ grade[s] \notin {"ungraded", "unparsed", "outage"}
    /\ CutShare * Cardinality({s \in Samples : reply[s].cut}) <= Total

(* "failed" is only reported when no sample was found right                *)
(* (base.py:1561), unless a reply of white space was counted twice: as     *)
(* empty when it came and as a judge failure later.                        *)
FailedSound ==
  /\ result = "failed"
  /\ \A s \in Samples : reply[s].text # "blank"
  => Graded("right") = {}

Dangling(s) == tools /\ at[s] = "recorded" /\ reply[s].calls

(* A sample of a tool loop is only graded on a tool call when its          *)
(* transcript no longer fitted the context window: a model that never      *)
(* stops calling tools is made to answer (base.py:1289).                   *)
DanglingOnlyWhenFull == \A s \in Samples : Dangling(s) => oversize[s]

WithTools(s) == Generating(s, "replied") /\ turn[s] = "loop" /\ CallsTools(s) /\ MoreRounds(s)
WithJudge    == phase = "judging" /\ Graded("ungraded") # {}

(* However the server answers, only a tool or a judge that never returns   *)
(* holds the suite up (base.py:1345, 520 await them without a timeout),    *)
(* and such a tool none but its own sample: it keeps no permit, the tool   *)
(* loop and the retries are bounded.                                       *)
Finishes ==
  /\ \A s \in Samples : <>(at[s] = "recorded" \/ phase = "raised") \/ <>[]WithTools(s)
  /\ \/ <>(phase \in {"reported", "raised"})
     \/ <>[](WithJudge \/ \E s \in Samples : WithTools(s))

(* The accuracy reported is the share of the scored samples that were       *)
(* found right: the tally is theirs, and none of them is left out of the   *)
(* denominator as excluded or lost to the judge (base.py:1507).            *)
AccuracyIsShare ==
  phase = "reported" => correct = Cardinality(Graded("right")) /\ correct <= Scored

(* "A wrong answer is a real result, a dangling tool call is not"          *)
(* (base.py:1295), and forced_final_answers counts samples "made to commit *)
(* to an answer instead of being graded on a dangling tool call"           *)
(* (base.py:1703).                                                         *)
NoDanglingGraded == \A s \in Samples : ~Dangling(s)

(* "never emit a clean success 0% when nothing was actually scored"        *)
(* (base.py:1557).                                                         *)
SuccessScored == result = "success" => Scored > 0

=============================================================================
