---------------------------- MODULE SharedMachine -----------------------------
(***************************************************************************)
(* What several benchmark programs share on one machine, each on GPUs of   *)
(* its own:                                                                *)
(*   gbench/runners/throughput.py - the multimodal throughput measurement, *)
(*     whose engine leaves its figures in one file under /tmp;             *)
(*   gbench/runners/quality.py - the checkout of the gemmaclaw repository, *)
(*     built under a file lock, and the output directory inside it.        *)
(* A program may die at any point and be started again.                    *)
(***************************************************************************)
EXTENDS Naturals, FiniteSets

CONSTANTS
  Progs,       \* programs
  Commits,     \* gemmaclaw commits asked for
  Iterations,  \* num_iterations
  Restarts     \* bound: restarts of all programs together

ASSUME MachineConstants ==
  /\ IsFiniteSet(Progs) /\ IsFiniteSet(Commits)
  /\ {"none", "stale", "absent", "empty"} \cap Progs = {} /\ {"none", "mixed"} \cap Commits = {}
  /\ Iterations \in Nat \ {0} /\ Restarts \in Nat

VARIABLES
  task,      \* what each program measures: "mm" or "quality"
  want,      \* the commit a quality runner is told to use
  pc,        \* where each program is
  restarts,
  orphans,   \* benchmark and suite processes of its earlier lives
  (* multimodal throughput *)
  tmp,       \* whose figures are in /tmp/mm_throughput_result.json
  left,      \* engines that have outlived their benchmark and are still alive
  iter,      \* iterations done
  reading,   \* the figures this iteration is to return, "none" if it failed
  figures,   \* mm_iter_results: how many of its own, how many foreign
  good,      \* history: iterations whose benchmark succeeded
  bare,      \* history: the first of them succeeded without a result file
  loose,     \* history: an engine was left by a benchmark that ended of itself, or by
             \* an earlier life
  starved,   \* history: a benchmark failed beside the engine of an earlier one
  (* quality *)
  lock,      \* holder of gemmaclaw.lock
  head, stamp, installed, built,   \* of the repository
  out,       \* gbench_qa_out: "absent", "empty" or whose summary is in it
  tree,      \* history: the build a program's suite has been run with
  report,    \* the owner of the summary a program reports
  (* history *)
  met,       \* another program was at the same work meanwhile
  botched    \* an installation or build broke off since the last stamp

mmVars   == <<tmp, left, iter, reading, figures, good, bare, loose, starved>>
repo     == <<head, stamp, installed, built>>
qaVars   == <<lock, repo, out, tree, report, botched>>
machine  == <<task, want, pc, restarts, orphans, mmVars, qaVars, met>>

Own     == "own"
Foreign == "foreign"
(* What a life that is over has left in a file.                            *)
Stale   == "stale"
MMpc == {"wait", "spawn", "running", "written", "check", "open", "finally", "unlink"}
QApc == {"setup", "locked", "install", "build", "clear", "mkdir", "suite", "read", "tidy"}
Rest == {"done", "dead"}

TypeOK ==
  /\ task \in [Progs -> {"mm", "quality"}]
  /\ want \in [Progs -> Commits \cup {"none"}]
  /\ \A p \in Progs : task[p] = "quality" => want[p] \in Commits
  /\ pc \in [Progs -> Rest \cup MMpc \cup QApc]
  /\ \A p \in Progs : pc[p] \notin IF task[p] = "mm" THEN QApc ELSE MMpc
  /\ restarts \in 0..Restarts
  /\ orphans \in [Progs -> Nat]
  /\ tmp \in Progs \cup {"none", Stale}
  /\ left \in [Progs -> Nat]
  /\ iter \in [Progs -> 0..Iterations]
  /\ reading \in [Progs -> {"none", Own, Foreign}]
  /\ figures \in [Progs -> [{Own, Foreign} -> 0..Iterations]]
  /\ good \in [Progs -> 0..Iterations]
  /\ bare \in [Progs -> BOOLEAN] /\ loose \in [Progs -> BOOLEAN] /\ starved \in [Progs -> BOOLEAN]
  /\ lock \in Progs \cup {"none"}
  /\ head \in Commits \cup {"none"} /\ stamp \in Commits \cup {"none"}
  /\ installed \in Commits \cup {"none", "mixed"}
  /\ built \in Commits \cup {"none", "mixed"}
  /\ out \in Progs \cup {"absent", "empty", Stale}
  /\ tree \in [Progs -> {"none", "right", "wrong"}]
  /\ report \in [Progs -> {"none", Own, Foreign}]
  /\ met \in [Progs -> BOOLEAN]
  /\ botched \in BOOLEAN

Start(p) == IF task[p] = "mm" THEN "wait" ELSE "setup"

(* The programs busy with the same kind of work as p, or whose orphans     *)
(* still are.                                                              *)
Busy(p) == {q \in Progs \ {p} : task[q] = task[p] /\ (pc[q] \notin Rest \/ orphans[q] > 0)}

Init ==
  /\ task \in [Progs -> {"mm", "quality"}]
  /\ want \in [Progs -> Commits \cup {"none"}]
  /\ \A p \in Progs : want[p] = "none" <=> task[p] = "mm"
  /\ pc = [p \in Progs |-> "dead"]
  /\ restarts = 0
  /\ orphans = [p \in Progs |-> 0]
  /\ tmp = "none"
  /\ left = [p \in Progs |-> 0]
  /\ iter = [p \in Progs |-> 0]
  /\ reading = [p \in Progs |-> "none"]
  /\ figures = [p \in Progs |-> [o \in {Own, Foreign} |-> 0]]
  /\ good = [p \in Progs |-> 0]
  /\ bare = [p \in Progs |-> FALSE]
  /\ loose = [p \in Progs |-> FALSE]
  /\ starved = [p \in Progs |-> FALSE]
  /\ lock = "none"
  /\ head = "none" /\ stamp = "none" /\ installed = "none" /\ built = "none"
  /\ out = "absent"
  /\ tree = [p \in Progs |-> "none"]
  /\ report = [p \in Progs |-> "none"]
  /\ met = [p \in Progs |-> FALSE]
  /\ botched = FALSE

Goto(p, from, to) ==
  /\ pc[p] = from
  /\ pc' = [pc EXCEPT ![p] = to]

-----------------------------------------------------------------------------
(* Multimodal throughput: run_all, _run_multimodal_throughput              *)

mmFrame == UNCHANGED <<task, want, restarts, orphans, qaVars, met>>

History == <<bare, loose, starved>>

(* Before a configuration the memory of the last engine is waited for, but *)
(* not the first time and for two minutes at most.                         *)
WaitForMemory(p) ==
  /\ Goto(p, "wait", "spawn")
  /\ mmFrame /\ UNCHANGED mmVars

(* The benchmark, and with it its engine, in a process group of its own.   *)
Spawn(p) ==
  /\ Goto(p, "spawn", "running")
  /\ mmFrame /\ UNCHANGED mmVars

EngineWrites(p) ==
  /\ Goto(p, "running", "written")
  /\ tmp' = p
  /\ mmFrame /\ UNCHANGED <<left, iter, reading, figures, good, History>>

Measured(p, to) ==
  /\ pc[p] \in {"running", "written"}
  /\ Goto(p, pc[p], to)

(* A benchmark that ends of itself signals nobody: its engine goes with    *)
(* it, or outlives it.                                                     *)
EndsOfItself(p) ==
  \/ UNCHANGED <<left, loose>>
  \/ /\ left' = [left EXCEPT ![p] = @ + 1]
     /\ loose' = [loose EXCEPT ![p] = TRUE]

(* Return code 0, with a result file or without one.                       *)
Succeeds(p) ==
  /\ Measured(p, "check")
  /\ EndsOfItself(p)
  /\ good' = [good EXCEPT ![p] = @ + 1]
  /\ bare' = [bare EXCEPT ![p] = @ \/ (iter[p] = 0 /\ pc[p] = "running")]
  /\ mmFrame /\ UNCHANGED <<tmp, iter, reading, figures, starved>>

(* Seeded fault: the return code is not looked at.                         *)
ErrsUnnoticed(p) ==
  /\ Measured(p, "check")
  /\ EndsOfItself(p)
  /\ starved' = [starved EXCEPT ![p] = @ \/ left[p] + orphans[p] > 0]
  /\ mmFrame /\ UNCHANGED <<tmp, iter, reading, figures, good, bare>>

(* It fails, for one thing because an earlier engine holds the memory.     *)
Errs(p) ==
  /\ Measured(p, "finally")
  /\ EndsOfItself(p)
  /\ starved' = [starved EXCEPT ![p] = @ \/ left[p] + orphans[p] > 0]
  /\ mmFrame /\ UNCHANGED <<tmp, iter, reading, figures, good, bare>>

(* Seeded fault: only the child is killed, as subprocess.run would.        *)
TimesOutChildOnly(p) ==
  /\ Measured(p, "finally")
  /\ left' = [left EXCEPT ![p] = @ + 1]
  /\ mmFrame /\ UNCHANGED <<tmp, iter, reading, figures, good, History>>

(* Past its timeout the process group of this benchmark is killed with its *)
(* engine, but no other group.                                             *)
TimesOut(p) ==
  /\ Measured(p, "finally")
  /\ mmFrame /\ UNCHANGED mmVars

(* An engine that was left behind dies in the end.                         *)
EngineDies(p) ==
  /\ left[p] > 0
  /\ left' = [left EXCEPT ![p] = @ - 1]
  /\ mmFrame /\ UNCHANGED <<pc, tmp, iter, reading, figures, good, History>>

(* Is the file there? If not, what the benchmark printed will do.          *)
FileThere(p) ==
  /\ tmp # "none"
  /\ Goto(p, "check", "open")
  /\ mmFrame /\ UNCHANGED mmVars

FromStdout(p) ==
  /\ tmp = "none"
  /\ Goto(p, "check", "finally")
  /\ reading' = [reading EXCEPT ![p] = Own]
  /\ mmFrame /\ UNCHANGED <<tmp, left, iter, figures, good, History>>

(* Nobody looks whose it is: it may be another program's by now, it may    *)
(* have been there before the benchmark began, or it may be gone.          *)
OpenFile(p) ==
  /\ Goto(p, "open", "finally")
  /\ reading' = [reading EXCEPT ![p] = IF tmp = p THEN Own
                                       ELSE IF tmp = "none" THEN "none" ELSE Foreign]
  /\ mmFrame /\ UNCHANGED <<tmp, left, iter, figures, good, History>>

(* The iteration returns its figures or fails; after the last one the row  *)
(* is made up of those that returned.                                      *)
IterationEnds(p, r) ==
  /\ iter' = [iter EXCEPT ![p] = @ + 1]
  /\ pc' = [pc EXCEPT ![p] = IF iter[p] + 1 < Iterations THEN "spawn" ELSE "done"]
  /\ figures' = IF r = "none" THEN figures ELSE [figures EXCEPT ![p][r] = @ + 1]
  /\ reading' = [reading EXCEPT ![p] = "none"]

NothingToUnlink(p) ==
  /\ pc[p] = "finally"
  /\ tmp = "none"
  /\ IterationEnds(p, reading[p])
  /\ mmFrame /\ UNCHANGED <<tmp, left, good, History>>

SomethingToUnlink(p) ==
  /\ tmp # "none"
  /\ Goto(p, "finally", "unlink")
  /\ mmFrame /\ UNCHANGED mmVars

(* A file that has gone meanwhile makes the iteration fail.                *)
Unlink(p) ==
  /\ pc[p] = "unlink"
  /\ tmp' = "none"
  /\ IterationEnds(p, IF tmp = "none" THEN "none" ELSE reading[p])
  /\ mmFrame /\ UNCHANGED <<left, good, History>>

Throughput(p) ==
  /\ task[p] = "mm"
  /\ \/ WaitForMemory(p) \/ Spawn(p) \/ EngineWrites(p) \/ Succeeds(p) \/ Errs(p)
     \/ TimesOut(p) \/ EngineDies(p) \/ FileThere(p)
     \/ FromStdout(p) \/ OpenFile(p) \/ NothingToUnlink(p) \/ SomethingToUnlink(p) \/ Unlink(p)

-----------------------------------------------------------------------------
(* Quality: _setup_gemmaclaw_repo, run                                     *)

qaFrame == UNCHANGED <<task, want, restarts, orphans, mmVars, met>>

Lock(p) ==
  /\ lock = "none"
  /\ Goto(p, "setup", "locked")
  /\ lock' = p
  /\ qaFrame /\ UNCHANGED <<repo, out, tree, report, botched>>

(* Clone, fetch or checkout fail: the lock is released, the runner raises. *)
SetupFails(p) ==
  /\ Goto(p, "locked", "done")
  /\ lock' = "none"
  /\ qaFrame /\ UNCHANGED <<repo, out, tree, report, botched>>

(* Seeded fault: any stamp saves the build.                               *)
CheckoutAnyStamp(p) ==
  /\ pc[p] = "locked"
  /\ head' = want[p]
  /\ IF stamp # "none"
       THEN pc' = [pc EXCEPT ![p] = "clear"] /\ lock' = "none"
       ELSE pc' = [pc EXCEPT ![p] = "install"] /\ UNCHANGED lock
  /\ qaFrame /\ UNCHANGED <<stamp, installed, built, out, tree, report, botched>>

(* The commit is checked out; a stamp that names it saves the build.       *)
Checkout(p) ==
  /\ pc[p] = "locked"
  /\ head' = want[p]
  /\ IF stamp = want[p]
       THEN pc' = [pc EXCEPT ![p] = "clear"] /\ lock' = "none"
       ELSE pc' = [pc EXCEPT ![p] = "install"] /\ UNCHANGED lock
  /\ qaFrame /\ UNCHANGED <<stamp, installed, built, out, tree, report, botched>>

Install(p) ==
  /\ Goto(p, "install", "build")
  /\ installed' = head
  /\ qaFrame /\ UNCHANGED <<lock, head, stamp, built, out, tree, report, botched>>

(* The build is stamped while the lock is held.                            *)
Build(p) ==
  /\ Goto(p, "build", "clear")
  /\ built' = head
  /\ stamp' = head
  /\ lock' = "none"
  /\ botched' = FALSE
  /\ qaFrame /\ UNCHANGED <<head, installed, out, tree, report>>

(* pnpm breaks off half way: the stamp of the build before remains, unless *)
(* the new build has already cleared it away.                              *)
Breaks(p) ==
  /\ \/ pc[p] = "install" /\ installed' = "mixed" /\ UNCHANGED <<built, stamp>>
     \/ pc[p] = "build" /\ built' = "mixed" /\ stamp' \in {stamp, "none"} /\ UNCHANGED installed
  /\ botched' = TRUE

InstallOrBuildFails(p) ==
  /\ Breaks(p)
  /\ pc' = [pc EXCEPT ![p] = "done"]
  /\ lock' = "none"
  /\ qaFrame /\ UNCHANGED <<head, out, tree, report>>

(* The vLLM server does not come up.                                       *)
ServerFails(p) ==
  /\ Goto(p, "clear", "done")
  /\ qaFrame /\ UNCHANGED <<lock, repo, out, tree, report, botched>>

ClearOutput(p) ==
  /\ Goto(p, "clear", "mkdir")
  /\ out' = "absent"
  /\ qaFrame /\ UNCHANGED <<lock, repo, tree, report, botched>>

(* A directory that is there again is an error.                            *)
MakeOutput(p) ==
  /\ pc[p] = "mkdir"
  /\ IF out = "absent"
       THEN /\ pc' = [pc EXCEPT ![p] = "suite"]
            /\ out' = "empty"
       ELSE /\ pc' = [pc EXCEPT ![p] = "tidy"]
            /\ UNCHANGED out
  /\ qaFrame /\ UNCHANGED <<lock, repo, tree, report, botched>>

(* The suite runs on whatever is built; it may write its summary.          *)
Suite(p) ==
  /\ Goto(p, "suite", "read")
  /\ tree' = [tree EXCEPT ![p] =
                IF {head, installed, built} = {want[p]} THEN "right" ELSE "wrong"]
  /\ out' \in {out, p}
  /\ qaFrame /\ UNCHANGED <<lock, repo, report, botched>>

ReadSummary(p) ==
  /\ Goto(p, "read", "tidy")
  /\ report' = [report EXCEPT ![p] = IF out = p THEN Own
                                     ELSE IF out \in {"absent", "empty"} THEN "none" ELSE Foreign]
  /\ qaFrame /\ UNCHANGED <<lock, repo, out, tree, botched>>

Tidy(p) ==
  /\ Goto(p, "tidy", "done")
  /\ out' = "absent"
  /\ qaFrame /\ UNCHANGED <<lock, repo, tree, report, botched>>

Quality(p) ==
  /\ task[p] = "quality"
  /\ \/ Lock(p) \/ SetupFails(p) \/ Checkout(p) \/ Install(p) \/ Build(p)
     \/ InstallOrBuildFails(p) \/ ServerFails(p) \/ ClearOutput(p) \/ MakeOutput(p)
     \/ Suite(p) \/ ReadSummary(p) \/ Tidy(p)

-----------------------------------------------------------------------------
(* Programs come and go                                                    *)

(* What a life holds in memory is gone with it.                            *)
Forget(p) ==
  /\ iter' = [iter EXCEPT ![p] = 0]
  /\ reading' = [reading EXCEPT ![p] = "none"]
  /\ figures' = [figures EXCEPT ![p] = [o \in {Own, Foreign} |-> 0]]
  /\ good' = [good EXCEPT ![p] = 0]
  /\ bare' = [bare EXCEPT ![p] = FALSE]
  /\ starved' = [starved EXCEPT ![p] = FALSE]
  /\ tree' = [tree EXCEPT ![p] = "none"]
  /\ report' = [report EXCEPT ![p] = "none"]

(* The program is killed: the operating system drops its lock, but the     *)
(* benchmark or suite it is waiting for lives on, and what it had in the   *)
(* shared places is nobody's now.  Where it is interrupted instead, it     *)
(* still clears up.                                                        *)
Killed(p) ==
  /\ pc[p] \notin Rest
  /\ pc' = [pc EXCEPT ![p] = "dead"]
  /\ orphans' = IF pc[p] \in {"running", "written", "suite"}
                THEN [orphans EXCEPT ![p] = @ + 1] ELSE orphans
  /\ lock' = IF lock = p THEN "none" ELSE lock
  /\ \/ tmp' = IF tmp = p THEN Stale ELSE tmp
     \/ pc[p] \in MMpc \ {"wait", "spawn"} /\ tmp' = "none"
  /\ \/ out' = IF out = p THEN Stale ELSE out
     \/ pc[p] \in {"mkdir", "suite", "read", "tidy"} /\ out' = "absent"
  /\ IF pc[p] \in {"install", "build"}
       THEN Breaks(p)
       ELSE UNCHANGED <<installed, built, stamp, botched>>
  /\ Forget(p)
  /\ loose' = [loose EXCEPT ![p] = FALSE]
  /\ UNCHANGED <<task, want, restarts, left, head, met>>

(* What a killed program was waiting for comes to its end, and may still   *)
(* leave a result, and an engine.                                          *)
OrphanEnds(p) ==
  /\ orphans[p] > 0
  /\ orphans' = [orphans EXCEPT ![p] = @ - 1]
  /\ IF task[p] = "mm"
       THEN /\ tmp' \in {tmp, Stale}
            /\ left' \in {left, [left EXCEPT ![p] = @ + 1]}
            /\ UNCHANGED out
       ELSE out' \in {out, Stale} /\ UNCHANGED <<tmp, left>>
  /\ UNCHANGED <<task, want, pc, restarts, iter, reading, figures, good, History,
                 lock, repo, tree, report, botched, met>>

Launch(p) ==
  /\ pc[p] \in Rest
  /\ restarts < Restarts
  /\ restarts' = restarts + 1
  /\ pc' = [pc EXCEPT ![p] = Start(p)]
  /\ Forget(p)
  /\ loose' = [loose EXCEPT ![p] = left[p] + orphans[p] > 0]
  /\ met' = [q \in Progs |-> IF q = p THEN Busy(p) # {} \/ orphans[p] > 0
                                      ELSE met[q] \/ q \in Busy(p)]
  /\ UNCHANGED <<task, want, orphans, tmp, left, lock, repo, out, botched>>

Next ==
  \E p \in Progs : Throughput(p) \/ Quality(p) \/ Killed(p) \/ OrphanEnds(p) \/ Launch(p)

Spec == Init /\ [][Next]_machine

-----------------------------------------------------------------------------
(* Properties                                                              *)

(* A program that met no other at the same work, and no orphan, reports    *)
(* its own measurements, all of them and nothing else - but for one row of *)
(* figures that was in /tmp before it began, which it takes for its own if *)
(* its first benchmark leaves no file (throughput.py:824 only asks whether *)
(* there is one).                                                          *)
AloneIsTrue ==
  \A p \in Progs : ~met[p] =>
    /\ figures[p][Foreign] + (IF reading[p] = Foreign THEN 1 ELSE 0) <= IF bare[p] THEN 1 ELSE 0
    /\ pc[p] = "done" /\ task[p] = "mm" => figures[p][Own] + figures[p][Foreign] = good[p]
    /\ report[p] # Foreign

(* "group-kill on timeout so nothing survives to poison the next campaign" *)
(* (throughput.py:137): where a benchmark failed beside the engine of an   *)
(* earlier one, that one ended of itself or belongs to an earlier life of  *)
(* the program; those that were timed out never cost a later iteration its *)
(* memory.                                                                 *)
TimeoutStarvesNobody == \A p \in Progs : starved[p] => loose[p]

(* A suite runs on the build of the commit it reports, unless another      *)
(* program was at the repository meanwhile or an earlier installation or   *)
(* build broke off.                                                        *)
SuiteOnOwnBuild ==
  \A p \in Progs : tree[p] = "wrong" /\ pc[p] = "read" => met[p] \/ botched
=============================================================================
