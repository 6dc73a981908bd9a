------------------------- MODULE ServerSessionProofs -------------------------
(***************************************************************************)
(* Proofs about ServerSession, for any number of sessions and any choice   *)
(* of the switches: a server that is up can be reached by the cleanup, a   *)
(* session measures its own server, and a program nobody interrupts leaves *)
(* none behind.                                                            *)
(***************************************************************************)
EXTENDS ServerSession, TLAPS

(* The handle is that of the current session from Popen to the end of the  *)
(* cleanup, and None otherwise.                                            *)
HandleInv ==
  /\ stage \in {"idle", "exited"} => handle = 0
  /\ stage \notin {"idle", "exited"} => handle = turn /\ handle # 0

(* What the stages of the cleanup know of the server.                      *)
CleanupInv ==
  /\ stage = "killing" => leader[handle] \in {"doomed", "dead"}
  /\ stage = "draining" => leader[handle] = "reaped"

(* Sessions to come have no processes.                                     *)
FutureInv == \A s \in Sessions : s > turn => leader[s] = "none"

(* Only a server that is up, or killed and not yet gone, listens.          *)
PortInv == port \in Sessions => leader[port] \in {"serving", "doomed"}

IInv == /\ TypeOK /\ HandleInv /\ CleanupInv /\ FutureInv /\ PortInv
        /\ Reachable /\ OwnServer /\ NothingLeft

-----------------------------------------------------------------------------
LEMMA InitInv == Init => IInv
  <1> SUFFICES ASSUME Init PROVE IInv
    OBVIOUS
  <1>1. TypeOK
    <2>1. turn \in 0..N /\ handle \in 0..N /\ port \in 0..Other
      BY SessionsNat DEF Init, Other
    <2>2. stage \in Stage /\ leaving \in BOOLEAN
      BY DEF Init, Stage
    <2>3. leader \in [Sessions -> Leader] /\ engine \in [Sessions -> Engine]
      BY DEF Init, Leader, Engine
    <2>4. QED
      BY <2>1, <2>2, <2>3 DEF TypeOK
  <1>2. HandleInv /\ CleanupInv /\ FutureInv /\ Reachable /\ OwnServer /\ NothingLeft
    BY DEF Init, HandleInv, CleanupInv, FutureInv, Reachable, OwnServer, NothingLeft, Up
  <1>3. PortInv
    BY SessionsNat DEF Init, PortInv, Sessions, Other
  <1>4. QED
    BY <1>1, <1>2, <1>3 DEF IInv

LEMMA StepInv == IInv /\ [Next]_vars => IInv'
  <1> SUFFICES ASSUME IInv, [Next]_vars PROVE IInv'
    OBVIOUS
  <1> USE SessionsNat DEF IInv, TypeOK, HandleInv, CleanupInv, FutureInv, PortInv, Reachable, OwnServer,
          NothingLeft, Up, Sessions, Other, Stage, Leader, Engine
  <1>1. CASE StartServer
    BY <1>1 DEF StartServer
  <1>2. CASE HealthOk
    BY <1>2 DEF HealthOk, world
  <1>3. CASE SeenDead
    BY <1>3 DEF SeenDead, Forget
  <1>4. CASE BootTimeout
    BY <1>4 DEF BootTimeout, Terminate
  <1>5. CASE Verify
    BY <1>5 DEF Verify, Terminate, Answering, world
  <1>6. CASE Measured
    BY <1>6 DEF Measured, Terminate
  <1>7. CASE Terminated
    BY <1>7 DEF Terminated
  <1>8. CASE TermTimeout
    BY <1>8 DEF TermTimeout
  <1>9. CASE Killed
    BY <1>9 DEF Killed, Forget
  <1>10. CASE Drained
    BY <1>10 DEF Drained, Forget, world
  <1>11. CASE ProgramEnds
    BY <1>11 DEF ProgramEnds, world
  <1>12. CASE Interrupt
    BY <1>12 DEF Interrupt, Terminate, world
  <1>13. ASSUME NEW s \in Sessions, EngineStart(s) \/ Listen(s) PROVE IInv'
    BY <1>13 DEF EngineStart, Listen
  <1>14. ASSUME NEW s \in Sessions, LeaderDies(s) \/ EngineDies(s) PROVE IInv'
    <2>1. CASE LeaderDies(s)
      BY <2>1 DEF LeaderDies, Release
    <2>2. CASE EngineDies(s)
      BY <2>2 DEF EngineDies
    <2>3. QED
      BY <1>14, <2>1, <2>2
  <1>15. CASE UNCHANGED vars
    BY <1>15 DEF vars
  <1>16. QED
    BY <1>1, <1>2, <1>3, <1>4, <1>5, <1>6, <1>7, <1>8, <1>9, <1>10, <1>11, <1>12, <1>13, <1>14, <1>15
       DEF Next, Runner, Prompt, Server

LEMMA Invariance == Spec => []IInv
  BY InitInv, StepInv, PTL DEF Spec

(* The variables of the model keep their types.                            *)
THEOREM TypeCorrect == Spec => []TypeOK
  <1>1. IInv => TypeOK
    BY DEF IInv
  <1>2. QED
    BY Invariance, <1>1, PTL

(* While the program runs, a server that is up is the one in the runner's  *)
(* handle, with or without interrupts and foreign servers.                 *)
THEOREM ServersReachable == Spec => []Reachable
  <1>1. IInv => Reachable
    BY DEF IInv
  <1>2. QED
    BY Invariance, <1>1, PTL

(* Unless somebody else has the port, a session is measured against its    *)
(* own server.                                                             *)
THEOREM MeasuresOwn == Spec => []OwnServer
  <1>1. IInv => OwnServer
    BY DEF IInv
  <1>2. QED
    BY Invariance, <1>1, PTL

(* A program nobody interrupts leaves no server behind.                    *)
THEOREM LeavesNothing == Spec => []NothingLeft
  <1>1. IInv => NothingLeft
    BY DEF IInv
  <1>2. QED
    BY Invariance, <1>1, PTL
=============================================================================
