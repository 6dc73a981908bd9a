---------------------------- MODULE RunLifecycle ----------------------------
(***************************************************************************)
(* What the dashboard backend promises of a benchmark run, whatever the    *)
(* threads of the service, its restarts and its files do: a benchmark is   *)
(* started at most once, ends at most once, and the outcome shown for it   *)
(* is one its process really had.  RunService implements this.             *)
(*                                                                         *)
(* An outcome may be withdrawn (the status file is being rewritten) and    *)
(* may be replaced by another outcome that is true as well: a process that *)
(* was aborted and exited may be shown as cancelled or as failed.          *)
(***************************************************************************)
CONSTANT Runs

VARIABLES
  life,     \* the benchmark process of each run
  aborted,  \* the runs somebody asked to abort
  outcome   \* the outcome shown for each run

lifecycleVars == <<life, aborted, outcome>>

Life    == {"unborn", "live", "succeeded", "broke"}
Outcome == {"none", "completed", "failed", "cancelled"}

Ended(r) == life[r] \in {"succeeded", "broke"}

(* The outcomes that may be shown for run r.                               *)
True(r) ==
  {"none"}
    \cup (IF life[r] = "succeeded" THEN {"completed"} ELSE {})
    \cup (IF Ended(r) THEN {"failed"} ELSE {})
    \cup (IF r \in aborted THEN {"cancelled"} ELSE {})

LifecycleInit ==
  /\ life = [r \in Runs |-> "unborn"]
  /\ aborted = {}
  /\ outcome = [r \in Runs |-> "none"]

Start(r) ==
  /\ life[r] = "unborn"
  /\ life' = [life EXCEPT ![r] = "live"]
  /\ UNCHANGED <<aborted, outcome>>

Abort(r) ==
  /\ life[r] # "unborn"
  /\ aborted' = aborted \cup {r}
  /\ UNCHANGED <<life, outcome>>

End(r) ==
  /\ life[r] = "live"
  /\ \E how \in {"succeeded", "broke"} : life' = [life EXCEPT ![r] = how]
  /\ UNCHANGED <<aborted, outcome>>

Show(r) ==
  /\ \E o \in True(r) : outcome' = [outcome EXCEPT ![r] = o]
  /\ UNCHANGED <<life, aborted>>

LifecycleNext == \E r \in Runs : Start(r) \/ Abort(r) \/ End(r) \/ Show(r)

LifecycleSpec == LifecycleInit /\ [][LifecycleNext]_lifecycleVars
=============================================================================
