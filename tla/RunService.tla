----------------------------- MODULE RunService -----------------------------
(***************************************************************************)
(* The run lifecycle of the dashboard backend: service/routes/runs.py and  *)
(* the status half of service/utils/storage.py.                            *)
(*                                                                         *)
(* Endpoints declared with "def" run in a pool of threads, and a triggered *)
(* benchmark is supervised by a background task in the same pool, so the   *)
(* handlers interleave.  They meet in three places: the ACTIVE_RUNS        *)
(* dictionary, the active_run.json of each run directory (rewritten in     *)
(* place: truncate, then write), and the benchmark process itself.  An     *)
(* action is a stretch of code between two points where another thread can *)
(* be noticed.  The service may be killed at any point (ServiceRestart):   *)
(* threads and ACTIVE_RUNS go, files and benchmark processes stay.         *)
(*                                                                         *)
(* A run is named by the request that triggers it; its run_id is minted    *)
(* when the request is accepted.                                           *)
(***************************************************************************)
EXTENDS Naturals, FiniteSets

CONSTANTS
  Runs,           \* trigger requests, and the runs they become
  Cancellers,     \* threads serving POST /runs/{id}/cancel
  Readers,        \* threads serving GET /runs and GET /runs/{id}
  MaxRestarts,    \* bound: how often the service is killed and started again
  PidReuse,       \* may the OS give the pid of a reaped benchmark to another process?
  PatientClient   \* does the client trigger only when earlier runs are recorded or over?

ASSUME RunsFinite     == IsFiniteSet(Runs)
ASSUME RestartsBound  == MaxRestarts \in Nat
ASSUME SwitchesBool   == PidReuse \in BOOLEAN /\ PatientClient \in BOOLEAN

VARIABLES
  exec,      \* stage of each run's trigger request, then of its _execute_benchmark
  verdict,   \* final status chosen by _execute_benchmark, not yet written
  active,    \* ACTIVE_RUNS: the runs with an entry
  file,      \* content of active_run.json in each run directory
  proc,      \* the process behind each run's pid
  exit,      \* how the benchmark exited: returncode 0 or not
  signalled, \* runs whose pid was sent SIGTERM
  cancel,    \* the cancel threads
  reader,    \* the status threads
  acked,     \* runs for which a cancel was answered "cancelled"
  restarts

vars == <<exec, verdict, active, file, proc, exit, signalled,
          cancel, reader, acked, restarts>>

taskVars == <<exec, verdict, active>>
procVars == <<proc, exit, signalled>>
askVars  == <<cancel, reader, acked, restarts>>

-----------------------------------------------------------------------------
(* Types                                                                   *)

Final    == {"completed", "failed", "cancelled"}
Status   == {"running"} \cup Final
(* "empty" is a file just truncated, "corrupt" one that holds the tail of  *)
(* a longer record behind a shorter one; json.load raises on both.         *)
Content  == {"absent", "empty", "corrupt"} \cup Status
Stage    == {"idle", "scanning", "queued", "spawned", "registered", "described",
             "opened", "waiting", "reaped", "decided", "sealing", "leaving",
             "done", "crashed", "lost"}
Proc     == {"none", "live", "zombie", "gone", "recycled"}
Idle     == [pc |-> "idle"]
CancelThread ==
  {Idle} \cup [pc : {"signalled", "opening", "writing", "dropping", "probing"},
               run : Runs, status : {"cancelled", "failed"}, via : {"memory", "disk"}]
ReaderThread == {Idle} \cup [pc : {"judging", "condemning", "writing"}, run : Runs]

TypeOK ==
  /\ exec \in [Runs -> Stage]
  /\ verdict \in [Runs -> Final \cup {"none"}]
  /\ active \subseteq Runs
  /\ file \in [Runs -> Content]
  /\ proc \in [Runs -> Proc]
  /\ exit \in [Runs -> {"none", "ok", "error"}]
  /\ signalled \subseteq Runs
  /\ cancel \in [Cancellers -> CancelThread]
  /\ reader \in [Readers -> ReaderThread]
  /\ acked \subseteq Runs
  /\ restarts \in 0..MaxRestarts

-----------------------------------------------------------------------------
(* Files and processes                                                     *)

(* Length of a record, which differs only in its status word.  A corrupt   *)
(* file is as long as the longest record that was written to it.           *)
Width(c) == IF c = "running" THEN 7
            ELSE IF c = "failed" THEN 6
            ELSE IF c \in {"completed", "cancelled", "corrupt"} THEN 9
            ELSE 0

(* json.dump into a file another thread may have written since open("w"):  *)
(* the record replaces what is there only if it is at least as long.       *)
Overlay(old, new) == IF Width(new) >= Width(old) THEN new ELSE "corrupt"

Truncate(r)    == file' = [file EXCEPT ![r] = "empty"]
Flush(r, s)    == file' = [file EXCEPT ![r] = Overlay(@, s)]

Live(r)        == proc[r] = "live"
(* os.kill(pid, 0) succeeds: a zombie and a recycled pid count.            *)
PidExists(r)   == proc[r] \in {"live", "zombie", "recycled"}
(* Seeded faults: the pid check fails always, or succeeds always.          *)
SeenRunningNever(r)  == {FALSE}
SeenRunningAlways(r) == {TRUE}

(* is_gbench_process_running: the cmdline of a zombie is empty, that of a  *)
(* stranger may or may not contain "python".                               *)
SeenRunning(r) == IF proc[r] = "recycled" THEN BOOLEAN ELSE {Live(r)}

(* poll() on the entries S of ACTIVE_RUNS reaps those that have exited.    *)
Reap(S) == [r \in Runs |-> IF r \in S /\ proc[r] = "zombie" THEN "gone" ELSE proc[r]]

To(r, stage) == exec' = [exec EXCEPT ![r] = stage]

-----------------------------------------------------------------------------
Init ==
  /\ exec = [r \in Runs |-> "idle"]
  /\ verdict = [r \in Runs |-> "none"]
  /\ active = {}
  /\ file = [r \in Runs |-> "absent"]
  /\ proc = [r \in Runs |-> "none"]
  /\ exit = [r \in Runs |-> "none"]
  /\ signalled = {}
  /\ cancel = [c \in Cancellers |-> Idle]
  /\ reader = [d \in Readers |-> Idle]
  /\ acked = {}
  /\ restarts = 0

-----------------------------------------------------------------------------
(* POST /runs: trigger_run                                                 *)

(* The client of PatientClient: every run it triggered earlier has its     *)
(* record on disk, or its process is over.                                 *)
Recorded(r) ==
  /\ exec[r] \notin {"scanning", "queued"}
  /\ Live(r) => file[r] \in {"running", "cancelled"}

(* First check: no entry of ACTIVE_RUNS has a live process.  A refused     *)
(* request (409) mints no run and leaves nothing behind but reaped         *)
(* processes, which PollActive covers.                                     *)
TriggerCheckMemory(r) ==
  /\ exec[r] = "idle"
  /\ PatientClient => \A q \in Runs \ {r} : Recorded(q)
  /\ \A q \in active : ~Live(q)
  /\ To(r, "scanning")
  /\ proc' = Reap(active)
  /\ UNCHANGED <<verdict, active, file, exit, signalled, askVars>>

(* Seeded fault: the directory scan is left out.                           *)
TriggerCheckDiskSkipped(r) ==
  /\ exec[r] = "scanning"
  /\ To(r, "queued")
  /\ UNCHANGED <<verdict, active, file, procVars, askVars>>

(* Second check: no readable record says "running" for a pid that looks    *)
(* like a benchmark.  Unreadable records are skipped.                      *)
TriggerCheckDisk(r) ==
  /\ exec[r] = "scanning"
  /\ \/ /\ \A q \in Runs : file[q] = "running" => FALSE \in SeenRunning(q)
        /\ To(r, "queued")
     \/ /\ \E q \in Runs : file[q] = "running" /\ TRUE \in SeenRunning(q)
        /\ To(r, "idle")
  /\ UNCHANGED <<verdict, active, file, procVars, askVars>>

-----------------------------------------------------------------------------
(* The background task: _execute_benchmark                                 *)

(* Make the run directory, open master.log, Popen.                         *)
Spawn(r) ==
  /\ exec[r] = "queued"
  /\ To(r, "spawned")
  /\ proc' = [proc EXCEPT ![r] = "live"]
  /\ UNCHANGED <<verdict, active, file, exit, signalled, askVars>>

(* After counting the scenarios (which may clone a repository).            *)
Register(r) ==
  /\ exec[r] = "spawned"
  /\ To(r, "registered")
  /\ active' = active \cup {r}
  /\ UNCHANGED <<verdict, file, procVars, askVars>>

(* active_meta reads ACTIVE_RUNS[run_id] back: a KeyError, which ends the  *)
(* task, when a cancel has removed the entry in between.                   *)
Describe(r) ==
  /\ exec[r] = "registered"
  /\ To(r, IF r \in active THEN "described" ELSE "crashed")
  /\ UNCHANGED <<verdict, active, file, procVars, askVars>>

OpenRecord(r) ==
  /\ exec[r] = "described"
  /\ To(r, "opened")
  /\ Truncate(r)
  /\ UNCHANGED <<verdict, active, procVars, askVars>>

WriteRecord(r) ==
  /\ exec[r] = "opened"
  /\ To(r, "waiting")
  /\ Flush(r, "running")
  /\ UNCHANGED <<verdict, active, procVars, askVars>>

(* process.wait() returns.                                                 *)
Wait(r) ==
  /\ exec[r] = "waiting"
  /\ proc[r] \in {"zombie", "gone", "recycled"}
  /\ To(r, "reaped")
  /\ proc' = Reap({r})
  /\ UNCHANGED <<verdict, active, file, exit, signalled, askVars>>

(* Seeded fault: the returncode is not looked at.                          *)
FinalStatusAnyExit(r) == IF file[r] = "cancelled" THEN "cancelled" ELSE "completed"

FinalStatus(r) ==
  IF file[r] = "cancelled" THEN "cancelled"
  ELSE IF exit[r] = "ok" THEN "completed" ELSE "failed"

(* Read the record back and choose the final status.  An unreadable record *)
(* raises, and the final status is never written.                          *)
Decide(r) ==
  /\ exec[r] = "reaped"
  /\ \/ /\ file[r] \in {"empty", "corrupt"}
        /\ To(r, "leaving")
        /\ UNCHANGED verdict
     \/ /\ file[r] \notin {"empty", "corrupt"}
        /\ To(r, "decided")
        /\ verdict' = [verdict EXCEPT ![r] = FinalStatus(r)]
  /\ UNCHANGED <<active, file, procVars, askVars>>

OpenFinal(r) ==
  /\ exec[r] = "decided"
  /\ To(r, "sealing")
  /\ Truncate(r)
  /\ UNCHANGED <<verdict, active, procVars, askVars>>

WriteFinal(r) ==
  /\ exec[r] = "sealing"
  /\ To(r, "leaving")
  /\ Flush(r, verdict[r])
  /\ verdict' = [verdict EXCEPT ![r] = "none"]
  /\ UNCHANGED <<active, procVars, askVars>>

(* Seeded fault: the entry is not removed.                                 *)
LeaveForgetEntry(r) ==
  /\ exec[r] = "leaving"
  /\ To(r, "done")
  /\ UNCHANGED <<verdict, active, file, procVars, askVars>>

(* The entry is removed if it is still there.                              *)
Leave(r) ==
  /\ exec[r] = "leaving"
  /\ To(r, "done")
  /\ active' = active \ {r}
  /\ UNCHANGED <<verdict, file, procVars, askVars>>

-----------------------------------------------------------------------------
(* POST /runs/{id}/cancel: cancel_run                                      *)

Call(pc, r, status, via) == [pc |-> pc, run |-> r, status |-> status, via |-> via]

CancelTo(c, pc) ==
  cancel' = [cancel EXCEPT ![c] = Call(pc, cancel[c].run, cancel[c].status, cancel[c].via)]

(* poll() may answer None: the benchmark is live, or it has just exited    *)
(* and the task blocked in wait() still holds the Popen's lock.            *)
PollsNone(r) == Live(r) \/ (proc[r] = "zombie" /\ exec[r] = "waiting")

(* The run has an entry: send SIGTERM to a benchmark that seems to run, or *)
(* drop the entry of one that has exited ("Run had already finished").     *)
CancelActive(c, r) ==
  /\ cancel[c] = Idle
  /\ r \in active
  /\ \/ /\ PollsNone(r)
        /\ signalled' = signalled \cup {r}
        /\ cancel' = [cancel EXCEPT ![c] = Call("signalled", r, "cancelled", "memory")]
        /\ UNCHANGED <<active, proc>>
     \/ /\ ~Live(r)
        /\ proc' = Reap({r})
        /\ active' = active \ {r}
        /\ UNCHANGED <<signalled, cancel>>
  /\ UNCHANGED <<exec, verdict, file, exit, reader, acked, restarts>>

(* Read the record to rewrite; without one, or with one that cannot be     *)
(* read, go on to drop the entry.                                          *)
CancelRead(c) ==
  /\ cancel[c].pc = "signalled"
  /\ CancelTo(c, IF file[cancel[c].run] \in Status THEN "opening" ELSE "dropping")
  /\ UNCHANGED <<taskVars, file, procVars, reader, acked, restarts>>

CancelOpen(c) ==
  /\ cancel[c].pc = "opening"
  /\ Truncate(cancel[c].run)
  /\ CancelTo(c, "writing")
  /\ UNCHANGED <<taskVars, procVars, reader, acked, restarts>>

(* The write ends the handler when it worked from the file alone.          *)
CancelWrite(c) ==
  LET call == cancel[c] IN
  /\ call.pc = "writing"
  /\ Flush(call.run, call.status)
  /\ \/ /\ call.via = "memory"
        /\ CancelTo(c, "dropping")
        /\ UNCHANGED acked
     \/ /\ call.via = "disk"
        /\ cancel' = [cancel EXCEPT ![c] = Idle]
        /\ acked' = IF call.status = "cancelled" THEN acked \cup {call.run} ELSE acked
  /\ UNCHANGED <<taskVars, procVars, reader, restarts>>

(* del ACTIVE_RUNS[run_id]: a KeyError (500, no acknowledgement) when the  *)
(* background task has removed the entry first.                            *)
CancelDrop(c) ==
  LET r == cancel[c].run IN
  /\ cancel[c].pc = "dropping"
  /\ active' = active \ {r}
  /\ acked' = IF r \in active THEN acked \cup {r} ELSE acked
  /\ cancel' = [cancel EXCEPT ![c] = Idle]
  /\ UNCHANGED <<exec, verdict, file, procVars, reader, restarts>>

(* No entry (the service was restarted): go by the file.  Any content but  *)
(* "running" is answered at once.                                          *)
CancelRecorded(c, r) ==
  /\ cancel[c] = Idle
  /\ r \notin active
  /\ file[r] = "running"
  /\ cancel' = [cancel EXCEPT ![c] = Call("probing", r, "failed", "disk")]
  /\ UNCHANGED <<taskVars, file, procVars, reader, acked, restarts>>

(* os.kill(pid, 0), then os.kill(pid, SIGTERM), on whatever has the pid.   *)
CancelProbe(c) ==
  LET r == cancel[c].run IN
  /\ cancel[c].pc = "probing"
  /\ \/ /\ PidExists(r)
        /\ signalled' = signalled \cup {r}
        /\ cancel' = [cancel EXCEPT ![c] = Call("opening", r, "cancelled", "disk")]
     \/ /\ ~PidExists(r)
        /\ cancel' = [cancel EXCEPT ![c] = Call("opening", r, "failed", "disk")]
        /\ UNCHANGED signalled
  /\ UNCHANGED <<taskVars, file, proc, exit, reader, acked, restarts>>

-----------------------------------------------------------------------------
(* GET /runs and GET /runs/{id}: list_all_runs, get_run, get_run_details   *)

(* Both poll entries of ACTIVE_RUNS, one or all, which reaps what has      *)
(* exited.                                                                 *)
PollActive ==
  \E S \in SUBSET active :
    /\ \E r \in S : proc[r] = "zombie"
    /\ proc' = Reap(S)
    /\ UNCHANGED <<taskVars, file, exit, signalled, askVars>>

(* Only a record that says "running" makes the reader do anything but      *)
(* report it.                                                              *)
ReadRecord(d, r) ==
  /\ reader[d] = Idle
  /\ file[r] = "running"
  /\ reader' = [reader EXCEPT ![d] = [pc |-> "judging", run |-> r]]
  /\ UNCHANGED <<taskVars, file, procVars, cancel, acked, restarts>>

Judge(d) ==
  /\ reader[d].pc = "judging"
  /\ \E seen \in SeenRunning(reader[d].run) :
       reader' = [reader EXCEPT ![d] =
                    IF seen THEN Idle ELSE [pc |-> "condemning", run |-> reader[d].run]]
  /\ UNCHANGED <<taskVars, file, procVars, cancel, acked, restarts>>

CondemnOpen(d) ==
  /\ reader[d].pc = "condemning"
  /\ Truncate(reader[d].run)
  /\ reader' = [reader EXCEPT ![d] = [pc |-> "writing", run |-> reader[d].run]]
  /\ UNCHANGED <<taskVars, procVars, cancel, acked, restarts>>

CondemnWrite(d) ==
  /\ reader[d].pc = "writing"
  /\ Flush(reader[d].run, "failed")
  /\ reader' = [reader EXCEPT ![d] = Idle]
  /\ UNCHANGED <<taskVars, procVars, cancel, acked, restarts>>

-----------------------------------------------------------------------------
(* The benchmark process and the operating system                          *)

(* A benchmark whose service is gone is reaped by init.                    *)
Exit(r) ==
  /\ Live(r)
  /\ proc' = [proc EXCEPT ![r] = IF exec[r] = "lost" THEN "gone" ELSE "zombie"]
  /\ \E how \in {"ok", "error"} : exit' = [exit EXCEPT ![r] = how]
  /\ UNCHANGED <<taskVars, file, signalled, askVars>>

Recycle(r) ==
  /\ PidReuse
  /\ proc[r] = "gone"
  /\ proc' = [proc EXCEPT ![r] = "recycled"]
  /\ UNCHANGED <<taskVars, file, exit, signalled, askVars>>

(* The service is killed and started again.  A request that had not been   *)
(* answered is as if never made; an accepted run loses its supervisor.     *)
ServiceRestart ==
  /\ restarts < MaxRestarts
  /\ restarts' = restarts + 1
  /\ exec' = [r \in Runs |-> IF exec[r] \in {"idle", "scanning"} THEN "idle"
                             ELSE IF exec[r] = "done" THEN "done" ELSE "lost"]
  /\ verdict' = [r \in Runs |-> "none"]
  /\ active' = {}
  /\ proc' = Reap(Runs)
  /\ cancel' = [c \in Cancellers |-> Idle]
  /\ reader' = [d \in Readers |-> Idle]
  /\ UNCHANGED <<file, exit, signalled, acked>>

-----------------------------------------------------------------------------
CancelStep(c) == \/ CancelRead(c) \/ CancelOpen(c) \/ CancelWrite(c)
                 \/ CancelDrop(c) \/ CancelProbe(c)
ReadStep(d)   == Judge(d) \/ CondemnOpen(d) \/ CondemnWrite(d)

Trigger(r)  == TriggerCheckMemory(r) \/ TriggerCheckDisk(r)
Execute(r)  == \/ Spawn(r) \/ Register(r) \/ Describe(r) \/ OpenRecord(r)
               \/ WriteRecord(r) \/ Wait(r) \/ Decide(r) \/ OpenFinal(r)
               \/ WriteFinal(r) \/ Leave(r)
Cancel(c)   == \/ \E r \in Runs : CancelActive(c, r) \/ CancelRecorded(c, r)
               \/ CancelStep(c)
Read(d)     == (\E r \in Runs : ReadRecord(d, r)) \/ ReadStep(d)

Next ==
  \/ \E r \in Runs : Trigger(r) \/ Execute(r) \/ Exit(r) \/ Recycle(r)
  \/ \E c \in Cancellers : Cancel(c)
  \/ \E d \in Readers : Read(d)
  \/ PollActive
  \/ ServiceRestart

Spec == Init /\ [][Next]_vars

-----------------------------------------------------------------------------
(* Fairness: threads of the pool are scheduled; SIGTERM kills a benchmark  *)
(* (gbench installs no handler); the dashboard asks for GET /runs, which   *)
(* reads every run directory, every five seconds.                          *)
Fairness ==
  /\ \A r \in Runs : WF_vars(Execute(r)) /\ WF_vars(r \in signalled /\ Exit(r))
  /\ \A c \in Cancellers : WF_vars(CancelStep(c))
  /\ \A d \in Readers : WF_vars(ReadStep(d)) /\ \A r \in Runs : SF_vars(ReadRecord(d, r))

FairSpec == Spec /\ Fairness

-----------------------------------------------------------------------------
(* Properties                                                              *)

(* An entry of ACTIVE_RUNS always has a background task that will still    *)
(* remove it: whichever of cancel and task comes first, none is left       *)
(* behind after the task has gone.                                         *)
Supervised == {"registered", "described", "opened", "waiting", "reaped",
               "decided", "sealing", "leaving"}
EntryOwned == \A r \in active : exec[r] \in Supervised

(* Two threads that write the same record at once can leave it unreadable, *)
(* but never while the benchmark is running: until it has exited, cancel,  *)
(* restart and a new trigger can all still recognise it.                   *)
LiveRecordSound == \A r \in Runs : Live(r) => file[r] # "corrupt"

(* With a client that waits for a run to be recorded before it triggers    *)
(* the next, no two benchmarks run at once, restarts included, unless one  *)
(* of them has been told to stop.                                          *)
OneBenchmark ==
  \A p, q \in Runs : p # q /\ Live(p) /\ Live(q) => {p, q} \cap signalled # {}

(* trigger_run "prevent[s] concurrent executions across server restarts".  *)
NoConcurrentExecutions ==
  \A p, q \in Runs : Live(p) /\ Live(q) => p = q

(* A run whose cancel was answered "Run aborted successfully" is recorded  *)
(* as cancelled once its supervisor has finished with it.                  *)
CancelHonoured ==
  \A r \in acked : exec[r] = "done" => file[r] = "cancelled"

(* Once a benchmark has exited its entry goes away.                        *)
EntryReleased ==
  \A r \in Runs : (r \in active /\ ~Live(r)) ~> r \notin active

(* The record of a benchmark that is no longer running does not go on      *)
(* saying "running": its supervisor settles it or, after a restart, the    *)
(* dashboard's own polling does.                                           *)
StaleRecordSettled ==
  \A r \in Runs : (file[r] = "running" /\ ~Live(r)) ~> file[r] # "running"

(* The lifecycle a user sees: RunLifecycle, with the outcome read from the *)
(* record when it is readable.                                             *)
life ==
  [r \in Runs |-> IF proc[r] = "none" THEN "unborn"
                  ELSE IF Live(r) THEN "live"
                  ELSE IF exit[r] = "ok" THEN "succeeded" ELSE "broke"]
outcome == [r \in Runs |-> IF file[r] \in Final THEN file[r] ELSE "none"]

Lifecycle == INSTANCE RunLifecycle WITH aborted <- signalled
ImplementsLifecycle == Lifecycle!LifecycleSpec
=============================================================================
