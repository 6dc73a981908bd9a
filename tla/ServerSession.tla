---------------------------- MODULE ServerSession ----------------------------
(***************************************************************************)
(* The local vLLM server of a benchmark program: gbench/runners/serving.py *)
(* (_start_server, _wait_for_server_ready, _cleanup_server) as its callers *)
(* use it, one session after the other on one port and one GPU.            *)
(*                                                                         *)
(* A server is a process group of its own: the leader answers on the port, *)
(* the engine it spawns holds the GPU.  Both live, hang, crash and die     *)
(* beside the runner, which sees the leader through Popen and through the  *)
(* health endpoint only.                                                   *)
(***************************************************************************)
EXTENDS Naturals

CONSTANTS
  N,             \* sessions of the program: serving, stress, quality and eval passes
  Guarded,       \* sessions that start the server inside the try that cleans up (stress)
  OtherServer,   \* may a server of somebody else answer on the port from the start?
  MayInterrupt,  \* may the user press Ctrl-C?
  Docile         \* does an engine that is sent SIGTERM exit at once?

ASSUME SessionsNat  == N \in Nat
ASSUME SwitchesBool == {OtherServer, MayInterrupt, Docile} \subseteq BOOLEAN

Sessions == 1..N
Other    == N + 1        \* the port in the hands of somebody else

VARIABLES
  turn,     \* the session the program is at
  stage,    \* what the runner is doing
  leaving,  \* an interrupt is propagating: the program ends after the cleanup
  handle,   \* self.server_process: the session whose server it is, 0 for None
  leader,   \* the vllm process of each session
  engine,   \* the rest of its process group
  port      \* who listens: a session, Other, or 0

vars == <<turn, stage, leaving, handle, leader, engine, port>>
world == <<leader, engine, port>>

Stage  == {"idle", "booting", "verifying", "measuring",
           "terminating", "killing", "draining", "exited"}
Leader == {"none", "booting", "serving", "doomed", "dead", "reaped"}
Engine == {"none", "live", "doomed", "gone"}

TypeOK ==
  /\ turn \in 0..N
  /\ stage \in Stage
  /\ leaving \in BOOLEAN
  /\ handle \in 0..N
  /\ leader \in [Sessions -> Leader]
  /\ engine \in [Sessions -> Engine]
  /\ port \in 0..Other

Init ==
  /\ turn = 0
  /\ stage = "idle"
  /\ leaving = FALSE
  /\ handle = 0
  /\ leader = [s \in Sessions |-> "none"]
  /\ engine = [s \in Sessions |-> "none"]
  /\ port \in IF OtherServer THEN {0, Other} ELSE {0}

Up(s)      == leader[s] \in {"booting", "serving"}
HoldsGpu(s) == engine[s] \in {"live", "doomed"}
(* Somebody answers GET /health with 200, never mind who.                  *)
Answering  == port = Other \/ (port \in Sessions /\ leader[port] = "serving")

-----------------------------------------------------------------------------
(* Cleaning up: _cleanup_server                                            *)

(* SIGTERM to the process group of the server, then wait(timeout=10).      *)
Terminate ==
  /\ stage' = "terminating"
  /\ engine' = [engine EXCEPT ![handle] = IF Docile /\ @ = "live" THEN "gone" ELSE @]
  /\ UNCHANGED <<turn, handle, leader, port>>

(* The finally: server_process is forgotten, the caller goes on.           *)
Forget ==
  /\ handle' = 0
  /\ stage' = IF leaving THEN "exited" ELSE "idle"
  /\ UNCHANGED <<turn, leaving>>

Terminated ==
  /\ stage = "terminating"
  /\ leader[handle] = "dead"
  /\ leader' = [leader EXCEPT ![handle] = "reaped"]
  /\ stage' = "draining"
  /\ UNCHANGED <<turn, leaving, handle, engine, port>>

(* Seeded fault: after ten seconds the server is left to itself.           *)
TermTimeoutGivesUp ==
  /\ stage = "terminating"
  /\ leader[handle] # "dead"
  /\ Forget
  /\ UNCHANGED world

(* After ten seconds, SIGKILL to the group and wait(timeout=5).            *)
TermTimeout ==
  /\ stage = "terminating"
  /\ leader[handle] # "dead"
  /\ stage' = "killing"
  /\ leader' = [leader EXCEPT ![handle] = "doomed"]
  /\ engine' = [engine EXCEPT ![handle] = IF @ = "live" THEN "doomed" ELSE @]
  /\ UNCHANGED <<turn, leaving, handle, port>>

(* The killed leader is reaped, or is still there after five seconds: an   *)
(* exception, and no wait for the GPU.                                     *)
Killed ==
  /\ stage = "killing"
  /\ \/ /\ leader[handle] = "dead"
        /\ leader' = [leader EXCEPT ![handle] = "reaped"]
        /\ stage' = "draining"
        /\ UNCHANGED <<turn, leaving, handle>>
     \/ /\ leader[handle] = "doomed"
        /\ Forget
        /\ UNCHANGED leader
  /\ UNCHANGED <<engine, port>>

(* _wait_for_gpu_memory returns when enough is free, or after 120 seconds  *)
(* anyway.                                                                 *)
Drained ==
  /\ stage = "draining"
  /\ Forget
  /\ UNCHANGED world

-----------------------------------------------------------------------------
(* Starting: _start_server                                                 *)

(* Popen in a new session, or an exception before there is a process.      *)
StartServer ==
  /\ stage = "idle"
  /\ turn < N
  /\ turn' = turn + 1
  /\ \/ /\ stage' = "booting"
        /\ handle' = turn + 1
        /\ leader' = [leader EXCEPT ![turn + 1] = "booting"]
     \/ UNCHANGED <<stage, handle, leader>>
  /\ UNCHANGED <<leaving, engine, port>>

HealthOk ==
  /\ stage = "booting"
  /\ Answering
  /\ stage' = "verifying"
  /\ UNCHANGED <<turn, leaving, handle, world>>

(* poll() finds the leader dead, and reaps it: getpgid in the cleanup then *)
(* raises ProcessLookupError, and nothing is signalled.                    *)
SeenDead ==
  /\ stage = "booting"
  /\ leader[handle] = "dead"
  /\ leader' = [leader EXCEPT ![handle] = "reaped"]
  /\ Forget
  /\ UNCHANGED <<engine, port>>

(* Seeded fault: the start has no timeout.                                 *)
BootTimeoutNever == FALSE

BootTimeout ==
  /\ stage = "booting"
  /\ Terminate
  /\ UNCHANGED leaving

(* Seeded fault: a server that fails the second probe is not cleaned up.   *)
VerifyAbandons ==
  /\ stage = "verifying"
  /\ \/ /\ Answering
        /\ stage' = "measuring"
        /\ UNCHANGED <<turn, leaving, handle, world>>
     \/ /\ Forget
        /\ UNCHANGED world

(* verify_endpoint_functional: a second probe of the port.                 *)
Verify ==
  /\ stage = "verifying"
  /\ \/ /\ Answering
        /\ stage' = "measuring"
        /\ UNCHANGED <<turn, handle, world>>
     \/ Terminate
  /\ UNCHANGED leaving

(* The benchmarks of the session are over, whether or not they failed: the *)
(* finally of the caller cleans up.  Nothing limits how long they take.    *)
Measured ==
  /\ stage = "measuring"
  /\ Terminate
  /\ UNCHANGED leaving

ProgramEnds ==
  /\ stage = "idle"
  /\ turn = N
  /\ stage' = "exited"
  /\ UNCHANGED <<turn, leaving, handle, world>>

(* Ctrl-C is no Exception: only a finally sees it.  Within the cleanup it  *)
(* ends the wait; before the caller's try it leaves the server as it is.   *)
Interrupt ==
  /\ MayInterrupt
  /\ \/ /\ stage = "measuring" \/ (stage \in {"booting", "verifying"} /\ turn \in Guarded)
        /\ Terminate
     \/ /\ \/ stage \in {"idle", "terminating", "killing", "draining"}
           \/ stage \in {"booting", "verifying"} /\ turn \notin Guarded
        /\ handle' = 0
        /\ stage' = "exited"
        /\ UNCHANGED <<turn, world>>
  /\ leaving' = TRUE

-----------------------------------------------------------------------------
(* The server processes                                                    *)

Release(s) == port' = IF port = s THEN 0 ELSE port

EngineStart(s) ==
  /\ leader[s] = "booting"
  /\ engine[s] = "none"
  /\ \/ /\ \A q \in Sessions : ~HoldsGpu(q)
        /\ engine' = [engine EXCEPT ![s] = "live"]
        /\ UNCHANGED leader
     \/ /\ \E q \in Sessions : HoldsGpu(q)       \* out of memory
        /\ leader' = [leader EXCEPT ![s] = "dead"]
        /\ UNCHANGED engine
  /\ UNCHANGED <<turn, stage, leaving, handle, port>>

(* Serving needs the port; without it vllm exits.                          *)
Listen(s) ==
  /\ leader[s] = "booting"
  /\ engine[s] = "live"
  /\ leader' = [leader EXCEPT ![s] = IF port = 0 THEN "serving" ELSE "dead"]
  /\ port' = IF port = 0 THEN s ELSE port
  /\ UNCHANGED <<turn, stage, leaving, handle, engine>>

(* A leader that crashes, obeys SIGTERM or has been killed; its engine may *)
(* outlive it.                                                             *)
LeaderDies(s) ==
  /\ Up(s) \/ leader[s] = "doomed"
  /\ leader' = [leader EXCEPT ![s] = "dead"]
  /\ Release(s)
  /\ UNCHANGED <<turn, stage, leaving, handle, engine>>

EngineDies(s) ==
  /\ HoldsGpu(s)
  /\ engine' = [engine EXCEPT ![s] = "gone"]
  /\ UNCHANGED <<turn, stage, leaving, handle, leader, port>>

-----------------------------------------------------------------------------
(* The steps of the runner that wait with a timeout, or for nothing.       *)
Prompt == \/ StartServer \/ HealthOk \/ SeenDead \/ BootTimeout \/ Verify
          \/ Terminated \/ TermTimeout \/ Killed \/ Drained \/ ProgramEnds

Runner == Prompt \/ Measured

Server(s) == EngineStart(s) \/ Listen(s) \/ LeaderDies(s) \/ EngineDies(s)

Next == Runner \/ Interrupt \/ \E s \in Sessions : Server(s)

Spec == Init /\ [][Next]_vars

(* The runner keeps running, but for a measurement that may never be over: *)
(* while a subprocess lives, quality.py:547 polls it without a limit.      *)
FairSpec == Spec /\ WF_vars(Prompt)

-----------------------------------------------------------------------------
(* Properties                                                              *)

(* While the program runs, a server that is up is the one in the runner's  *)
(* handle: on no path of starting, failing and cleaning up does a healthy  *)
(* server slip out of reach, and so no two are ever up at once.            *)
Reachable == \A s \in Sessions : stage # "exited" /\ Up(s) => handle = s

(* Unless somebody else has the port, whatever answers while a session is  *)
(* measured is the server of that session, and no leftover of another.     *)
OwnServer == stage = "measuring" => port \in {0, turn, Other}

(* A program that was not interrupted leaves no server behind that could   *)
(* take a request.                                                         *)
NothingLeft == stage = "exited" /\ ~leaving => \A s \in Sessions : ~Up(s)

(* "Register cleanup on exit": nor does one that was.                      *)
CleanupOnExit == stage = "exited" => \A s \in Sessions : ~Up(s)

(* "Kill the entire process group (API server + EngineCore + workers)":    *)
(* between sessions no engine is left running.                             *)
GroupKilled == stage = "idle" => \A s \in Sessions : engine[s] # "live"

(* However its servers hang, crash or ignore signals, they do not hold the *)
(* program up: it comes to an end, unless a measurement never does.        *)
Finishes == <>(stage = "exited") \/ <>[](stage = "measuring")
=============================================================================
