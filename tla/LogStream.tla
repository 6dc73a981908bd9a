----------------------------- MODULE LogStream -----------------------------
(***************************************************************************)
(* The log stream of the dashboard, GET /runs/{id}/stream-logs             *)
(* (stream_logs in service/routes/runs.py), beside the run lifecycle of    *)
(* RunService.                                                             *)
(*                                                                         *)
(* A stream follows master.log.  At the end of the file it asks whether    *)
(* the run is alive, first of active_run.json and then of ACTIVE_RUNS, and *)
(* announces [PROCESS_COMPLETED] when neither says so.  It runs on the     *)
(* event loop while handlers and supervisors run in the thread pool, so    *)
(* they interleave with its two questions.                                 *)
(***************************************************************************)
EXTENDS RunService

CONSTANT Viewers  \* clients that follow the log of a run

VARIABLE viewer   \* the stream of each client

lvars == <<vars, viewer>>

(* Past the end of the file a stream may leave lines unread, which the     *)
(* benchmark has written since.                                            *)
Stream == {Idle} \cup [pc : {"reading"}, run : Runs]
                 \cup [pc : {"asking", "polling"}, run : Runs, unread : BOOLEAN]
PastEnd(v) == viewer[v].pc \in {"asking", "polling"}
Closed     == [v \in Viewers |-> Idle]

StreamTypeOK == viewer \in [Viewers -> Stream]

LInit == Init /\ viewer = Closed

StreamTo(v, s) == viewer' = [viewer EXCEPT ![v] = s]
Reading(r)     == [pc |-> "reading", run |-> r]

-----------------------------------------------------------------------------
(* The log is opened just before the benchmark is started; a stream that   *)
(* does not find it in five seconds answers with an error.                 *)
Follow(v, r) ==
  /\ viewer[v] = Idle
  /\ exec[r] \notin {"idle", "scanning"}
  /\ StreamTo(v, Reading(r))
  /\ UNCHANGED vars

(* The lines there are, up to a readline() that returns none.              *)
ReadToEnd(v) ==
  /\ viewer[v].pc = "reading"
  /\ StreamTo(v, [pc |-> "asking", run |-> viewer[v].run, unread |-> FALSE])
  /\ UNCHANGED vars

(* Seeded fault: a run without a usable record is taken to be over.        *)
AskRecordOnly(v) ==
  LET r == viewer[v].run IN
  /\ viewer[v].pc = "asking"
  /\ \E alive \in IF file[r] = "running" THEN SeenRunning(r) ELSE {FALSE} :
       StreamTo(v, IF alive THEN Reading(r) ELSE Idle)
  /\ UNCHANGED vars

(* The record says the run is on and its pid looks like a benchmark: sleep *)
(* and read on.  A missing or unreadable record is no answer.              *)
AskRecord(v) ==
  LET r == viewer[v].run IN
  /\ viewer[v].pc = "asking"
  /\ \E alive \in IF file[r] = "running" THEN SeenRunning(r) ELSE {FALSE} :
       StreamTo(v, IF alive THEN Reading(r) ELSE [viewer[v] EXCEPT !.pc = "polling"])
  /\ UNCHANGED vars

(* The run has an entry whose process polls as running: sleep and read on. *)
(* Otherwise announce the end of the run.                                  *)
AskMemory(v) ==
  LET r == viewer[v].run IN
  /\ viewer[v].pc = "polling"
  /\ \/ /\ r \in active /\ PollsNone(r)
        /\ StreamTo(v, Reading(r))
        /\ UNCHANGED vars
     \/ /\ r \in active /\ ~Live(r)
        /\ StreamTo(v, Idle)
        /\ proc' = Reap({r})
        /\ UNCHANGED <<taskVars, file, exit, signalled, askVars>>
     \/ /\ r \notin active
        /\ StreamTo(v, Idle)
        /\ UNCHANGED vars

(* The client closes its event source while the stream sleeps.             *)
HangUp(v) ==
  /\ viewer[v].pc = "reading"
  /\ StreamTo(v, Idle)
  /\ UNCHANGED vars

(* The benchmark writes to the log, which a stream past its end misses     *)
(* unless it reads again.                                                  *)
WriteLog(r) ==
  /\ Live(r)
  /\ \E v \in Viewers : PastEnd(v) /\ viewer[v].run = r /\ ~viewer[v].unread
  /\ viewer' = [v \in Viewers |-> IF PastEnd(v) /\ viewer[v].run = r
                                  THEN [viewer[v] EXCEPT !.unread = TRUE] ELSE viewer[v]]
  /\ UNCHANGED vars

(* A restart of the service breaks its streams off.                        *)
ServiceStep ==
  /\ Next
  /\ viewer' = IF restarts' = restarts THEN viewer ELSE Closed

LNext ==
  \/ ServiceStep
  \/ \E v \in Viewers : \/ \E r \in Runs : Follow(v, r)
                        \/ ReadToEnd(v) \/ AskRecord(v) \/ AskMemory(v) \/ HangUp(v)
  \/ \E r \in Runs : WriteLog(r)

LSpec == LInit /\ [][LNext]_lvars

LFairSpec == LSpec /\ Fairness

-----------------------------------------------------------------------------
(* Properties                                                              *)

(* The stream of r announces that the run is over.                         *)
Announces(v, r) ==
  /\ PastEnd(v) /\ viewer[v].run = r
  /\ viewer'[v] = Idle
  /\ restarts' = restarts

(* When a stream announces [PROCESS_COMPLETED] the benchmark has exited,   *)
(* or was told to stop, or its run is in neither place a stream asks: it   *)
(* was spawned and not yet registered, or its service was killed before    *)
(* the first record was written.                                           *)
EndIsTheEnd ==
  [][\A v \in Viewers, r \in Runs :
       Announces(v, r) /\ Live(r) =>
         \/ r \in signalled
         \/ exec[r] = "spawned"
         \/ exec[r] = "lost" /\ file[r] \in {"absent", "empty"}]_lvars

(* A stream that announces the end has shown every line of the log.        *)
NothingLost ==
  [][\A v \in Viewers, r \in Runs : Announces(v, r) => ~viewer[v].unread]_lvars
=============================================================================
