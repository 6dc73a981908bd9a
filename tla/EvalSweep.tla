------------------------------- MODULE EvalSweep -------------------------------
(***************************************************************************)
(* The evaluation sweep of a benchmark program:                            *)
(* gbench/runners/evals.py (run, _run_single_eval, _run_with_timeout) with *)
(* the records it keeps under --results-dir (gbench/utils/log_manager.py). *)
(*                                                                         *)
(* A program sweeps the suites over its models one by one.  Under          *)
(* --suite-timeout a suite runs in a worker thread, which the timeout      *)
(* abandons but does not stop.  A program may die at any point; the next   *)
(* one may be told to reuse what its predecessors recorded.                *)
(***************************************************************************)
EXTENDS Naturals

CONSTANTS
  M,          \* models of the program
  K,          \* suites of the sweep
  Programs,   \* bound: programs started one after the other
  Budgets,    \* is --suite-timeout given? the answers considered
  Firsts      \* what --remote-endpoint lists first; 0 is a local server and
              \* M + 1 a model that is none of the program's

ASSUME SizesPositive == M \in Nat \ {0} /\ K \in Nat \ {0} /\ Programs \in Nat \ {0}
ASSUME BudgetsBool   == Budgets \subseteq BOOLEAN
ASSUME FirstsModels  == Firsts \subseteq 0..(M + 1)

Models  == 1..M
Suites  == 1..K
Pairs   == Models \X Suites
Dirs    == 1..Programs
(* An "error" stands for every row without a score: failed, unknown or     *)
(* skipped.                                                                *)
Verdict == {"success", "error", "timeout"}
Broken  == {"empty", "torn"}               \* a file json.load cannot read
Record  == {"absent"} \cup Broken \cup Verdict

VARIABLES
  program,   \* the program that runs, or ran last
  flags,     \* its command line: --skip-existing, --suite-timeout, --remote-endpoint
  rerun,     \* --results-dir is itself a run directory: every program writes there
  yearEnd,   \* the last program started before the turn of the year
  model,     \* the model being swept
  suite,     \* the suite of evals_to_run the loop is at
  target,    \* target_model_id: the model the suites of each model are put to
  stage,     \* what the main thread is doing
  guarded,   \* the row being saved is saved within a try
  row,       \* results: what the sweep reports for each suite of each model
  origin,    \* the run directory a row was reused from, 0 for a measured one
  swept,     \* how run() ended for each model
  workers,   \* suites whose worker thread is alive in this process
  disk,      \* the record of each suite in each run directory
  earned,    \* history: model swept, model measured and suite of each success that a
             \* suite returned with
  listed     \* history: the models that were resolved from a listing

files   == <<disk, rerun, yearEnd>>
report  == <<row, origin, swept>>
history == <<earned, listed>>
vars    == <<program, flags, rerun, yearEnd, model, suite, target, stage, guarded,
             row, origin, swept, workers, disk, history>>
CommandLine == [resume : BOOLEAN, budget : Budgets, first : Firsts]

Stage == {"idle", "boot", "choose", "measure", "save", "exiting", "exited", "dead"}

TypeOK ==
  /\ program \in Dirs
  /\ flags \in CommandLine
  /\ rerun \in BOOLEAN
  /\ yearEnd \in Dirs
  /\ model \in 0..M
  /\ suite \in 1..(K + 1)
  /\ target \in [Models -> 1..(M + 1)]
  /\ stage \in Stage
  /\ guarded \in BOOLEAN
  /\ row \in [Pairs -> Verdict \cup {"none"}]
  /\ origin \in [Pairs -> 0..Programs]
  /\ swept \in [Models -> {"pending", "done", "noserver", "lost"}]
  /\ workers \in SUBSET Pairs
  /\ disk \in [Dirs -> [Pairs -> Record]]
  /\ earned \in SUBSET (Models \X (1..(M + 1)) \X Suites)
  /\ listed \in SUBSET (1..(M + 1))

(* A new process, or what is left of one.                                  *)
Fresh(s) ==
  /\ model' = 0
  /\ suite' = 1
  /\ target' = [m \in Models |-> m]
  /\ stage' = s
  /\ row' = [p \in Pairs |-> "none"]
  /\ origin' = [p \in Pairs |-> 0]
  /\ swept' = [m \in Models |-> "pending"]
  /\ workers' = {}

(* That the year turns just before the last program makes no difference:    *)
(* its own directory is not compared with the others.                      *)
Init ==
  /\ program = 1
  /\ flags \in CommandLine
  /\ rerun \in BOOLEAN
  /\ yearEnd \in IF rerun THEN {Programs} ELSE Dirs \ {Programs - 1}
  /\ model = 0
  /\ suite = 1
  /\ target = [m \in Models |-> m]
  /\ stage = "idle"
  /\ guarded = FALSE
  /\ row = [p \in Pairs |-> "none"]
  /\ origin = [p \in Pairs |-> 0]
  /\ swept = [m \in Models |-> "pending"]
  /\ workers = {}
  /\ disk = [d \in Dirs |-> [p \in Pairs |-> "absent"]]
  /\ earned = {}
  /\ listed = {}

Current == <<model, suite>>
(* The run directory of this program.                                      *)
ResultsDir == IF rerun THEN 1 ELSE program

-----------------------------------------------------------------------------
(* Looking for a record to reuse                                           *)

(* Seeded fault: the file is named after the suite alone.                  *)
RecordedOfAnyModel(d, p) ==
  IF \E m \in Models : disk[d][<<m, p[2]>>] = "success" THEN "success" ELSE disk[d][p]

(* What json.load makes of the file eval_<suite>_<model>_<format>.json.    *)
Recorded(d, p) == disk[d][p]

(* Seeded fault: the directories are compared the wrong way round.         *)
RankOldest(d) == Programs - d

(* Run directories are named month-day-time, without the year: the names   *)
(* of a new year sort before those of the old one.                         *)
Rank(d) == IF d > yearEnd THEN d ELSE d + Programs

(* The file of this suite in the directory of this program if there is     *)
(* one, never mind its size; else the last by name of those not empty.     *)
Candidates(p) == {d \in Dirs : Recorded(d, p) \notin {"absent", "empty"}}

Existing(p) ==
  IF Recorded(ResultsDir, p) # "absent" THEN {ResultsDir}
  ELSE {d \in Candidates(p) : \A e \in Candidates(p) : Rank(e) <= Rank(d)}

-----------------------------------------------------------------------------
(* Running the suites of one model: run                                    *)

StartEvals(m) ==
  /\ stage = "idle"
  /\ model < m
  /\ model' = m
  /\ suite' = 1
  /\ stage' = "boot"
  /\ UNCHANGED <<program, flags, files, target, guarded, report, workers, history>>

(* The suites are put to the first model the endpoint lists, whichever is  *)
(* swept, and to the configured one if the listing fails.  A local server  *)
(* serves the model it was started for.                                    *)
Resolve(t) ==
  /\ target' = [target EXCEPT ![model] = t]
  /\ listed' = IF flags.first = t THEN listed \cup {t} ELSE listed

(* The local server comes up, or the sweep of this model is one error row. *)
Boot ==
  /\ stage = "boot"
  /\ \/ /\ stage' = "choose"
        /\ \E t \in {flags.first, model} \ {0} : Resolve(t)
        /\ UNCHANGED swept
     \/ /\ flags.first = 0
        /\ stage' = "idle"
        /\ swept' = [swept EXCEPT ![model] = "noserver"]
        /\ UNCHANGED <<target, listed>>
  /\ UNCHANGED <<program, flags, files, model, suite, guarded, row, origin, workers, earned>>

(* A readable record becomes the row of the suite, whatever it says, and   *)
(* is copied to the directory of this program.                             *)
Reuse ==
  /\ stage = "choose"
  /\ suite <= K
  /\ flags.resume
  /\ \E d \in Existing(Current) :
       /\ Recorded(d, Current) \in Verdict
       /\ row' = [row EXCEPT ![Current] = Recorded(d, Current)]
       /\ origin' = [origin EXCEPT ![Current] = d]
       /\ IF d = ResultsDir
            THEN suite' = suite + 1 /\ UNCHANGED <<stage, guarded, disk>>
            ELSE /\ stage' = "save"
                 /\ guarded' = TRUE
                 /\ disk' = [disk EXCEPT ![ResultsDir][Current] = "empty"]
                 /\ UNCHANGED suite
  /\ UNCHANGED <<program, flags, rerun, yearEnd, model, target, swept, workers, history>>

(* A record that cannot be read drops the suite: neither run nor reported. *)
ReuseUnreadable ==
  /\ stage = "choose"
  /\ suite <= K
  /\ flags.resume
  /\ \E d \in Existing(Current) : Recorded(d, Current) \in Broken
  /\ suite' = suite + 1
  /\ UNCHANGED <<program, flags, files, model, target, stage, guarded, report, workers, history>>

(* Under a budget the suite runs in a thread of its own.                   *)
Measure ==
  /\ stage = "choose"
  /\ suite <= K
  /\ ~flags.resume \/ Existing(Current) = {}
  /\ stage' = "measure"
  /\ workers' = IF flags.budget THEN workers \cup {Current} ELSE workers
  /\ UNCHANGED <<program, flags, files, model, target, suite, guarded, report, history>>

(* The row is appended before the record is written: open() empties the    *)
(* file.                                                                   *)
ReportRow(v, inTry) ==
  /\ row' = [row EXCEPT ![Current] = v]
  /\ origin' = [origin EXCEPT ![Current] = 0]
  /\ guarded' = inTry
  /\ stage' = "save"
  /\ disk' = [disk EXCEPT ![ResultsDir][Current] = "empty"]
  /\ UNCHANGED <<program, flags, rerun, yearEnd, model, target, suite, swept>>

(* The suite p succeeded, on the model it was put to.                      *)
Success(p) == <<p[1], target[p[1]], p[2]>>

(* The suite returns: a result, or the dict of an error.  Its save is not  *)
(* in the try.                                                             *)
SuiteReturns ==
  /\ stage = "measure"
  /\ \E v \in {"success", "error"} :
       /\ ReportRow(v, FALSE)
       /\ earned' = IF v = "success" THEN earned \cup {Success(Current)} ELSE earned
  /\ workers' = workers \ {Current}
  /\ UNCHANGED listed

(* Seeded fault: a skipped suite leaves no row.                            *)
SuiteRaisesUnreported ==
  /\ stage = "measure"
  /\ stage' = "choose"
  /\ suite' = suite + 1
  /\ workers' = workers \ {Current}
  /\ UNCHANGED <<program, flags, files, model, target, guarded, report, history>>

(* The suite raises: an error, or a dataset the operator has to provide.   *)
SuiteRaises ==
  /\ stage = "measure"
  /\ ReportRow("error", TRUE)
  /\ workers' = workers \ {Current}
  /\ UNCHANGED history

(* Within a budget, a TimeoutError of the suite's own cannot be told from  *)
(* the one of the future.                                                  *)
SuiteRaisesTimeout ==
  /\ stage = "measure"
  /\ flags.budget
  /\ ReportRow("timeout", FALSE)
  /\ workers' = workers \ {Current}
  /\ UNCHANGED history

(* Seeded faults: the budget is never spent, or it cuts an error short.    *)
TimeOutNever == FALSE
TimeOutAsError ==
  /\ stage = "measure"
  /\ flags.budget
  /\ ReportRow("error", FALSE)
  /\ UNCHANGED <<workers, history>>

(* The budget is spent: the row says so and the sweep goes on, while the   *)
(* thread does too.                                                        *)
TimeOut ==
  /\ stage = "measure"
  /\ flags.budget
  /\ ReportRow("timeout", FALSE)
  /\ UNCHANGED <<workers, history>>

Saved ==
  /\ stage = "save"
  /\ disk' = [disk EXCEPT ![ResultsDir][Current] = row[Current]]
  /\ suite' = suite + 1
  /\ stage' = "choose"
  /\ guarded' = FALSE
  /\ UNCHANGED <<program, flags, rerun, yearEnd, model, target, report, workers, history>>

(* Seeded fault: no failed write is noticed.                               *)
SaveFailsUnnoticed ==
  /\ stage = "save"
  /\ \E b \in Broken : disk' = [disk EXCEPT ![ResultsDir][Current] = b]
  /\ suite' = suite + 1
  /\ stage' = "choose"
  /\ guarded' = FALSE
  /\ UNCHANGED <<program, flags, rerun, yearEnd, model, target, report, workers, history>>

(* The write fails half way.  Where nothing catches that, run() is left:   *)
(* its rows are lost, and the model counts as failed.                      *)
SaveFails ==
  /\ stage = "save"
  /\ \E b \in Broken : disk' = [disk EXCEPT ![ResultsDir][Current] = b]
  /\ IF guarded
       THEN /\ suite' = suite + 1
            /\ stage' = "choose"
            /\ UNCHANGED report
       ELSE /\ swept' = [swept EXCEPT ![model] = "lost"]
            /\ row' = [p \in Pairs |-> IF p[1] = model THEN "none" ELSE row[p]]
            /\ origin' = [p \in Pairs |-> IF p[1] = model THEN 0 ELSE origin[p]]
            /\ stage' = "idle"
            /\ UNCHANGED suite
  /\ guarded' = FALSE
  /\ UNCHANGED <<program, flags, rerun, yearEnd, model, target, workers, history>>

EvalsDone ==
  /\ stage = "choose"
  /\ suite = K + 1
  /\ swept' = [swept EXCEPT ![model] = "done"]
  /\ stage' = "idle"
  /\ UNCHANGED <<program, flags, files, model, target, suite, guarded, row, origin, workers, history>>

-----------------------------------------------------------------------------
(* The program around the sweep                                            *)

(* main returns; the interpreter then joins the worker threads that are    *)
(* still alive.                                                            *)
MainReturns ==
  /\ stage = "idle"
  /\ stage' = "exiting"
  /\ UNCHANGED <<program, flags, files, model, target, suite, guarded, report, workers, history>>

Exit ==
  /\ stage = "exiting"
  /\ workers = {}
  /\ stage' = "exited"
  /\ UNCHANGED <<program, flags, files, model, target, suite, guarded, report, workers, history>>

(* An abandoned suite comes to an end: nobody reads its result.            *)
StrayEnds ==
  /\ \E w \in workers :
       /\ stage = "measure" => w # Current
       /\ workers' = workers \ {w}
  /\ UNCHANGED <<program, flags, files, model, target, suite, stage, guarded, report, history>>

(* The process is killed: the file being written stays empty or torn.      *)
Crash ==
  /\ stage \notin {"exited", "dead"}
  /\ Fresh("dead")
  /\ IF stage = "save"
       THEN \E b \in Broken : disk' = [disk EXCEPT ![ResultsDir][Current] = b]
       ELSE UNCHANGED disk
  /\ guarded' = FALSE
  /\ UNCHANGED <<program, flags, rerun, yearEnd, history>>

Restart ==
  /\ stage \in {"exited", "dead"}
  /\ program < Programs
  /\ program' = program + 1
  /\ flags' \in CommandLine
  /\ Fresh("idle")
  /\ UNCHANGED <<files, guarded, history>>

-----------------------------------------------------------------------------
Sweep == \/ Boot \/ Reuse \/ ReuseUnreadable \/ Measure
         \/ SuiteReturns \/ SuiteRaises \/ SuiteRaisesTimeout
         \/ Saved \/ SaveFails \/ EvalsDone

(* Here the program has nothing to do but to sweep its models in turn.     *)
NextModel   == model < M /\ StartEvals(model + 1)
LastReturns == model = M /\ MainReturns

Next == \/ Sweep \/ TimeOut \/ NextModel \/ LastReturns
        \/ Exit \/ StrayEnds \/ Crash \/ Restart

Spec == Init /\ [][Next]_vars

(* What the main thread does by itself.                                    *)
OwnStep == \/ Boot \/ Reuse \/ ReuseUnreadable \/ Measure
           \/ Saved \/ SaveFails \/ EvalsDone

(* The main thread runs, and a wait with a timeout ends; a suite need not. *)
FairSpec ==
  /\ Spec
  /\ WF_vars(NextModel \/ OwnStep \/ LastReturns \/ Exit)
  /\ WF_vars(TimeOut)

-----------------------------------------------------------------------------
(* Properties                                                              *)

(* A model is credited with a suite, by a row or by a record that a later  *)
(* program may reuse, only if that suite once returned a success in the    *)
(* sweep of that model, on that very model or on one that an endpoint had  *)
(* listed first: no crash, torn file, reuse or abandoned thread makes a    *)
(* success up, and without such a listing none is another model's          *)
(* (evals.py:31 and 336).                                                  *)
Credited(p) == \E t \in {p[1]} \cup listed : <<p[1], t, p[2]>> \in earned

SuccessEarned ==
  /\ \A p \in Pairs : row[p] = "success" => Credited(p)
  /\ \A d \in Dirs, p \in Pairs : disk[d][p] = "success" => Credited(p)

(* The row, which names the model swept, is that very model's.  It does    *)
(* not hold: the first model of the listing is taken without a look for    *)
(* the one swept (evals.py:42), which the golden runner does look for      *)
(* (golden.py:680) because the wrong one would invalidate the run.         *)
CreditedOwn == \A p \in Pairs : row[p] = "success" => <<p[1], p[1], p[2]>> \in earned

(* A thread that runs beside the sweep belongs to a suite reported as      *)
(* timed out, or to a model whose rows were lost, and without a budget     *)
(* there is none: nothing else loads the server that is being measured.    *)
StraysTimedOut ==
  \A w \in workers :
    /\ flags.budget
    /\ \/ stage = "measure" /\ w = Current
       \/ row[w] = "timeout"
       \/ swept[w[1]] = "lost"

(* A sweep that returned has a row for every suite, except where it was    *)
(* told to reuse records and met one that cannot be read.                  *)
DroppedOnlyUnreadable ==
  \A m \in Models, s \in Suites :
    swept[m] = "done" /\ row[<<m, s>>] = "none"
      => flags.resume /\ \E d \in Dirs : disk[d][<<m, s>>] \in Broken

(* A success that was measured is on disk by the time its sweep returns:   *)
(* the failure to save it is never passed over in silence.                 *)
SuccessOnDisk ==
  \A m \in Models, s \in Suites :
    swept[m] = "done" /\ row[<<m, s>>] = "success" /\ origin[<<m, s>>] = 0
      => disk[ResultsDir][<<m, s>>] = "success"

(* "newest match wins": a reused row comes from the newest run directory   *)
(* that has a record of the suite at all.                                  *)
NewestWins ==
  \A p \in Pairs, d \in Dirs :
    origin[p] \in 1..(program - 1) /\ d \in (origin[p] + 1)..(program - 1)
      => disk[d][p] \notin Verdict

(* So it does as long as no directory is of another year.                  *)
NewestWinsWithinYear == yearEnd >= program - 1 => NewestWins

(* "so one wedged harness cannot stall the run" (cli.py): a program with a *)
(* budget exits once it has reported.  It does not hold.                   *)
BudgetedRunExits ==
  flags.budget /\ stage = "idle" ~> stage \in {"exited", "dead"}
=============================================================================
