-------------------------- MODULE RunServiceProofs --------------------------
(***************************************************************************)
(* Proofs about RunService: its types, that ACTIVE_RUNS entries are owned, *)
(* that the record of a live run is never corrupt, that a patient client   *)
(* runs one benchmark at a time, and that it implements RunLifecycle; and  *)
(* about LogStream: it leaves all that as it is, and announces the end of  *)
(* a run truly.  They hold for any sets of runs, threads and viewers and   *)
(* any number of restarts, with and without pid reuse.                     *)
(***************************************************************************)
EXTENDS LogStream, TLAPS

(* The process of r has been started, and has exited.                      *)
Started(r) == proc[r] # "none"
Over(r)    == proc[r] \in {"zombie", "gone", "recycled"}

(* The stages before the first record is opened.                           *)
Unrecorded == {"idle", "scanning", "queued", "spawned", "registered",
               "described", "crashed"}

(* A process starts in Spawn and nowhere else, and exits once.             *)
ProcInv ==
  \A r \in Runs :
    /\ exec[r] \in {"idle", "scanning", "queued"} => proc[r] = "none"
    /\ exec[r] \notin {"idle", "scanning", "queued", "lost"} => Started(r)
    /\ exec[r] \in {"reaped", "decided", "sealing", "leaving", "done"} => Over(r)
    /\ Over(r) <=> exit[r] # "none"
    /\ r \in signalled => Started(r)

(* Until its supervisor has written the first record nobody else has       *)
(* anything to rewrite.                                                    *)
RecordInv ==
  /\ \A r \in Runs :
       /\ exec[r] \in Unrecorded => file[r] = "absent"
       /\ exec[r] = "opened" => file[r] = "empty"
       /\ file[r] # "absent" => Started(r)
       /\ exec[r] \in {"decided", "sealing"} => verdict[r] \in Final
  /\ \A c \in Cancellers : cancel[c].pc \in {"opening", "writing", "probing"} =>
       exec[cancel[c].run] \notin Unrecorded \cup {"opened"} /\ Started(cancel[c].run)
  /\ \A d \in Readers : reader[d].pc # "idle" =>
       exec[reader[d].run] \notin Unrecorded \cup {"opened"} /\ Started(reader[d].run)

(* A status is true of its run: in the file, and in the hands of a thread  *)
(* that is about to write it.                                              *)
TrueOf(s, r) ==
  /\ s = "completed" => exit[r] = "ok"
  /\ s = "failed"    => Over(r)
  /\ s = "cancelled" => r \in signalled

TruthInv ==
  /\ \A r \in Runs : TrueOf(file[r], r) /\ TrueOf(verdict[r], r)
  /\ \A c \in Cancellers : cancel[c].pc \in {"signalled", "opening", "writing", "dropping"} =>
       TrueOf(cancel[c].status, cancel[c].run)
  /\ \A d \in Readers : reader[d].pc \in {"condemning", "writing"} => Over(reader[d].run)

IInv == TypeOK /\ EntryOwned /\ ProcInv /\ RecordInv /\ TruthInv /\ LiveRecordSound

-----------------------------------------------------------------------------
(* What a write leaves in a file.                                          *)
LEMMA OverlayLeaves ==
  ASSUME NEW old \in Content, NEW new \in Status
  PROVE  /\ Overlay(old, new) \in {new, "corrupt"}
         /\ new \in {"completed", "cancelled"} => Overlay(old, new) = new
         /\ old = "empty" => Overlay(old, new) = new
  BY DEF Overlay, Width, Content, Status, Final

LEMMA TypeInit == Init => TypeOK
  BY RestartsBound DEF Init, TypeOK, Content, Stage, Proc, CancelThread, ReaderThread, Idle, Status, Final

LEMMA TypeStep == TypeOK /\ RecordInv /\ [Next]_vars => TypeOK'
  <1> SUFFICES ASSUME TypeOK, RecordInv, [Next]_vars PROVE TypeOK'
    OBVIOUS
  <1> USE DEF TypeOK, To
  <1>1. ASSUME NEW r \in Runs, Trigger(r) PROVE TypeOK'
    BY <1>1, ZenonT(30) DEF Trigger, TriggerCheckMemory, TriggerCheckDisk, Reap, Stage, Proc, procVars, askVars
  <1>2. ASSUME NEW r \in Runs, Spawn(r) \/ Register(r) \/ Describe(r) \/ OpenRecord(r) PROVE TypeOK'
    BY <1>2 DEF Spawn, Register, Describe, OpenRecord, Truncate, Stage, Proc, Content, procVars, askVars
  <1>3. ASSUME NEW r \in Runs, WriteRecord(r) PROVE TypeOK'
    BY <1>3, OverlayLeaves DEF WriteRecord, Flush, Stage, Content, Status, procVars, askVars
  <1>4. ASSUME NEW r \in Runs, Wait(r) \/ Decide(r) \/ OpenFinal(r) \/ Leave(r) PROVE TypeOK'
    BY <1>4 DEF Wait, Decide, FinalStatus, OpenFinal, Leave, Reap, Truncate, Stage, Proc, Content, Final, procVars, askVars
  <1>5. ASSUME NEW r \in Runs, WriteFinal(r) PROVE TypeOK'
    BY <1>5, OverlayLeaves DEF WriteFinal, RecordInv, Flush, Stage, Content, Status, Final, procVars, askVars
  <1>6. ASSUME NEW c \in Cancellers, CancelStep(c) PROVE TypeOK'
    <2>1. CASE CancelRead(c)
      BY <2>1 DEF CancelRead, CancelTo, Call, CancelThread, Idle, taskVars, procVars
    <2>2. CASE CancelOpen(c)
      BY <2>2 DEF CancelOpen, CancelTo, Call, CancelThread, Call, Idle, Truncate, Content, taskVars, procVars
    <2>3. CASE CancelWrite(c)
      BY <2>3, OverlayLeaves DEF CancelWrite, CancelTo, Call, CancelThread, Idle, Flush, Content, Status, Final, taskVars, procVars
    <2>4. CASE CancelDrop(c)
      BY <2>4 DEF CancelDrop, CancelThread, Idle, procVars
    <2>5. CASE CancelProbe(c)
      BY <2>5 DEF CancelProbe, Call, CancelThread, Idle, taskVars
    <2>6. QED
      BY <1>6, <2>1, <2>2, <2>3, <2>4, <2>5 DEF CancelStep
  <1>7. ASSUME NEW c \in Cancellers, NEW r \in Runs, CancelActive(c, r) \/ CancelRecorded(c, r) PROVE TypeOK'
    BY <1>7 DEF CancelActive, CancelRecorded, Call, CancelThread, Idle, Reap, Proc, taskVars, procVars
  <1>8. ASSUME NEW d \in Readers, Read(d) PROVE TypeOK'
    BY <1>8, OverlayLeaves DEF Read, ReadStep, ReadRecord, Judge, CondemnOpen, CondemnWrite, ReaderThread, Idle,
       Truncate, Flush, Content, Status, Final, taskVars, procVars
  <1>9. ASSUME NEW r \in Runs, Exit(r) \/ Recycle(r) PROVE TypeOK'
    BY <1>9 DEF Exit, Recycle, Proc, taskVars, askVars
  <1>10. CASE PollActive
    BY <1>10 DEF PollActive, Reap, Proc, taskVars, askVars
  <1>11. CASE ServiceRestart
    BY <1>11, RestartsBound DEF ServiceRestart, Reap, Proc, Stage, CancelThread, ReaderThread, Idle
  <1>12. CASE UNCHANGED vars
    BY <1>12 DEF vars
  <1>13. QED
    BY <1>1, <1>2, <1>3, <1>4, <1>5, <1>6, <1>7, <1>8, <1>9, <1>10, <1>11, <1>12 DEF Next, Execute, Cancel

-----------------------------------------------------------------------------
(* A busy thread works on a run.                                           *)
LEMMA ThreadRuns ==
  ASSUME TypeOK
  PROVE  /\ \A c \in Cancellers : cancel[c].pc # "idle" =>
              cancel[c].run \in Runs /\ cancel[c].status \in {"cancelled", "failed"}
         /\ \A d \in Readers : reader[d].pc # "idle" => reader[d].run \in Runs
  BY DEF TypeOK, CancelThread, ReaderThread, Idle

(* ACTIVE_RUNS entries are owned, by induction on their own.               *)
LEMMA OwnedStep == TypeOK /\ EntryOwned /\ [Next]_vars => EntryOwned'
  <1> SUFFICES ASSUME TypeOK, EntryOwned, [Next]_vars PROVE EntryOwned'
    OBVIOUS
  <1> USE DEF TypeOK, EntryOwned, Supervised, To
  <1>1. ASSUME NEW r \in Runs, Trigger(r) PROVE EntryOwned'
    BY <1>1 DEF Trigger, TriggerCheckMemory, TriggerCheckDisk, procVars, askVars
  <1>2. ASSUME NEW r \in Runs, Execute(r) PROVE EntryOwned'
    BY <1>2 DEF Execute, Spawn, Register, Describe, OpenRecord, WriteRecord, Wait, Decide,
       OpenFinal, WriteFinal, Leave, procVars, askVars
  <1>3. ASSUME NEW c \in Cancellers, Cancel(c) PROVE EntryOwned'
    BY <1>3 DEF Cancel, CancelStep, CancelActive, CancelRead, CancelOpen, CancelWrite, CancelDrop,
       CancelRecorded, CancelProbe, taskVars
  <1>4. ASSUME NEW d \in Readers, Read(d) PROVE EntryOwned'
    BY <1>4 DEF Read, ReadStep, ReadRecord, Judge, CondemnOpen, CondemnWrite, taskVars
  <1>5. ASSUME NEW r \in Runs, Exit(r) \/ Recycle(r) PROVE EntryOwned'
    BY <1>5 DEF Exit, Recycle, taskVars
  <1>6. CASE PollActive \/ ServiceRestart
    BY <1>6 DEF PollActive, ServiceRestart, taskVars
  <1>7. CASE UNCHANGED vars
    BY <1>7 DEF vars
  <1>8. QED
    BY <1>1, <1>2, <1>3, <1>4, <1>5, <1>6, <1>7 DEF Next

(* Processes start once and exit once, in step with their supervisor.      *)
LEMMA ProcStep ==
  TypeOK /\ EntryOwned /\ ProcInv /\ RecordInv /\ TruthInv /\ [Next]_vars => ProcInv'
  <1> SUFFICES ASSUME TypeOK, EntryOwned, ProcInv, RecordInv, TruthInv, [Next]_vars
               PROVE  ProcInv'
    OBVIOUS
  <1> USE DEF TypeOK, ProcInv, Started, Over, To, Proc, Stage
  <1>1. ASSUME NEW r \in Runs, Trigger(r) PROVE ProcInv'
    <2>1. CASE TriggerCheckMemory(r)
      BY <2>1 DEF TriggerCheckMemory, Reap, askVars
    <2>2. CASE TriggerCheckDisk(r)
      <3>1. /\ exec[r] = "scanning"
            /\ exec' = [exec EXCEPT ![r] = "queued"] \/ exec' = [exec EXCEPT ![r] = "idle"]
            /\ UNCHANGED <<proc, exit, signalled>>
        BY <2>2 DEF TriggerCheckDisk, procVars
      <3>2. QED
        BY <3>1
    <2>3. QED
      BY <1>1, <2>1, <2>2 DEF Trigger
  <1>2. ASSUME NEW r \in Runs, Spawn(r) \/ Register(r) \/ Describe(r) \/ OpenRecord(r) \/ WriteRecord(r)
        PROVE ProcInv'
    BY <1>2 DEF Spawn, Register, Describe, OpenRecord, WriteRecord, procVars, askVars
  <1>3. ASSUME NEW r \in Runs, Wait(r) PROVE ProcInv'
    BY <1>3 DEF Wait, Reap, askVars
  <1>4. ASSUME NEW r \in Runs, Decide(r) \/ OpenFinal(r) \/ WriteFinal(r) \/ Leave(r) PROVE ProcInv'
    BY <1>4 DEF Decide, OpenFinal, WriteFinal, Leave, procVars, askVars
  <1>5. ASSUME NEW c \in Cancellers, NEW r \in Runs, CancelActive(c, r) PROVE ProcInv'
    BY <1>5 DEF CancelActive, PollsNone, Live, Reap
  <1>6. ASSUME NEW c \in Cancellers, CancelProbe(c) PROVE ProcInv'
    BY <1>6 DEF CancelProbe, PidExists, taskVars
  <1>7. ASSUME NEW c \in Cancellers, CancelRead(c) \/ CancelOpen(c) \/ CancelWrite(c) \/ CancelDrop(c)
                                      \/ (\E r \in Runs : CancelRecorded(c, r))
        PROVE ProcInv'
    BY <1>7 DEF CancelRead, CancelOpen, CancelWrite, CancelDrop, CancelRecorded, taskVars, procVars
  <1>8. ASSUME NEW d \in Readers, Read(d) PROVE ProcInv'
    BY <1>8 DEF Read, ReadStep, ReadRecord, Judge, CondemnOpen, CondemnWrite, taskVars, procVars
  <1>9. ASSUME NEW r \in Runs, Exit(r) \/ Recycle(r) PROVE ProcInv'
    BY <1>9 DEF Exit, Recycle, Live, taskVars, askVars
  <1>10. CASE PollActive \/ ServiceRestart
    BY <1>10 DEF PollActive, ServiceRestart, Reap, taskVars, askVars
  <1>11. CASE UNCHANGED vars
    BY <1>11 DEF vars
  <1>12. QED
    BY <1>1, <1>2, <1>3, <1>4, <1>5, <1>6, <1>7, <1>8, <1>9, <1>10, <1>11
       DEF Next, Execute, Cancel, CancelStep

(* A thread that rewrites a record found it written by its supervisor.     *)
LEMMA RecordStep ==
  TypeOK /\ ProcInv /\ RecordInv /\ [Next]_vars => RecordInv'
  <1> SUFFICES ASSUME TypeOK, ProcInv, RecordInv, [Next]_vars PROVE RecordInv'
    OBVIOUS
  <1>a. /\ \A c \in Cancellers : cancel[c].pc # "idle" => cancel[c].run \in Runs
        /\ \A d \in Readers : reader[d].pc # "idle" => reader[d].run \in Runs
    BY ThreadRuns
  <1> USE <1>a DEF TypeOK, RecordInv, Unrecorded, Started, To, Stage, Idle
  <1>1. ASSUME NEW r \in Runs, Trigger(r) PROVE RecordInv'
    <2>1. CASE TriggerCheckMemory(r)
      BY <2>1 DEF TriggerCheckMemory, Reap, askVars
    <2>2. CASE TriggerCheckDisk(r)
      <3>1. /\ exec[r] = "scanning"
            /\ exec' = [exec EXCEPT ![r] = "queued"] \/ exec' = [exec EXCEPT ![r] = "idle"]
            /\ UNCHANGED <<verdict, file, proc, cancel, reader>>
        BY <2>2 DEF TriggerCheckDisk, procVars, askVars
      <3>2. QED
        BY <3>1
    <2>3. QED
      BY <1>1, <2>1, <2>2 DEF Trigger
  <1>2. ASSUME NEW r \in Runs, Spawn(r) \/ Register(r) \/ Describe(r) PROVE RecordInv'
    BY <1>2 DEF Spawn, Register, Describe, procVars, askVars
  <1>3. ASSUME NEW r \in Runs, OpenRecord(r) \/ OpenFinal(r) PROVE RecordInv'
    BY <1>3 DEF OpenRecord, OpenFinal, Truncate, ProcInv, Over, procVars, askVars
  <1>4. ASSUME NEW r \in Runs, WriteRecord(r) \/ WriteFinal(r) PROVE RecordInv'
    BY <1>4 DEF WriteRecord, WriteFinal, Flush, ProcInv, Over, procVars, askVars
  <1>5. ASSUME NEW r \in Runs, Wait(r) \/ Decide(r) \/ Leave(r) PROVE RecordInv'
    BY <1>5 DEF Wait, Decide, FinalStatus, Final, Leave, Reap, procVars, askVars
  <1>6. ASSUME NEW c \in Cancellers, NEW r \in Runs, CancelActive(c, r) \/ CancelRecorded(c, r)
        PROVE RecordInv'
    BY <1>6 DEF CancelActive, CancelRecorded, Call, Reap, taskVars, procVars
  <1>7. ASSUME NEW c \in Cancellers, CancelStep(c) PROVE RecordInv'
    <2>1. CASE CancelRead(c)
      BY <2>1 DEF CancelRead, CancelTo, Call, CancelThread, Status, Final, taskVars, procVars
    <2>2. CASE CancelOpen(c) \/ CancelWrite(c)
      BY <2>2 DEF CancelOpen, CancelWrite, CancelTo, Call, CancelThread, ProcInv, Over,
         Truncate, Flush, taskVars, procVars
    <2>3. CASE CancelDrop(c) \/ CancelProbe(c)
      BY <2>3 DEF CancelDrop, CancelProbe, Call, taskVars, procVars
    <2>4. QED
      BY <1>7, <2>1, <2>2, <2>3 DEF CancelStep
  <1>8. ASSUME NEW d \in Readers, Read(d) PROVE RecordInv'
    <2>1. CASE (\E r \in Runs : ReadRecord(d, r)) \/ Judge(d)
      BY <2>1 DEF ReadRecord, Judge, taskVars, procVars
    <2>2. CASE CondemnOpen(d) \/ CondemnWrite(d)
      BY <2>2 DEF CondemnOpen, CondemnWrite, Truncate, Flush, taskVars, procVars
    <2>3. QED
      BY <1>8, <2>1, <2>2 DEF Read, ReadStep
  <1>9. ASSUME NEW r \in Runs, Exit(r) \/ Recycle(r) PROVE RecordInv'
    BY <1>9 DEF Exit, Recycle, taskVars, askVars
  <1>10. CASE PollActive \/ ServiceRestart
    BY <1>10 DEF PollActive, ServiceRestart, Reap, taskVars, askVars
  <1>11. CASE UNCHANGED vars
    BY <1>11 DEF vars
  <1>12. QED
    BY <1>1, <1>2, <1>3, <1>4, <1>5, <1>6, <1>7, <1>8, <1>9, <1>10, <1>11
       DEF Next, Execute, Cancel

(* A benchmark that has exited has exited, and how it did does not change. *)
LEMMA PastStep ==
  ASSUME TypeOK, ProcInv, [Next]_vars, NEW r \in Runs
  PROVE  /\ Over(r) => Over(r)' /\ exit'[r] = exit[r]
         /\ r \in signalled => r \in signalled'
  <1> USE DEF TypeOK, Over, Proc
  <1>1. ASSUME NEW q \in Runs, Trigger(q) \/ Execute(q) PROVE UNCHANGED <<exit, signalled>>
    BY <1>1 DEF Trigger, TriggerCheckMemory, TriggerCheckDisk, Execute, Spawn, Register, Describe,
       OpenRecord, WriteRecord, Wait, Decide, OpenFinal, WriteFinal, Leave, procVars
  <1>2. ASSUME NEW q \in Runs, Trigger(q) \/ Execute(q) PROVE Over(r) => Over(r)'
    BY <1>2, ZenonT(30) DEF Trigger, TriggerCheckMemory, TriggerCheckDisk, Execute, Spawn, Register, Describe,
       OpenRecord, WriteRecord, Wait, Decide, OpenFinal, WriteFinal, Leave, Reap, procVars, ProcInv
  <1>3. ASSUME NEW q \in Runs, Exit(q) \/ Recycle(q)
        PROVE (Over(r) => Over(r)' /\ exit'[r] = exit[r]) /\ UNCHANGED signalled
    BY <1>3 DEF Exit, Recycle, Live
  <1>4. ASSUME NEW c \in Cancellers, Cancel(c)
        PROVE  (Over(r) => Over(r)') /\ UNCHANGED exit /\ signalled \subseteq signalled'
    BY <1>4 DEF Cancel, CancelActive, CancelRecorded, CancelStep, CancelRead, CancelOpen, CancelWrite,
       CancelDrop, CancelProbe, Reap, procVars
  <1>5. ASSUME NEW d \in Readers, Read(d) PROVE UNCHANGED <<proc, exit, signalled>>
    BY <1>5 DEF Read, ReadStep, ReadRecord, Judge, CondemnOpen, CondemnWrite, procVars
  <1>6. CASE PollActive \/ ServiceRestart
    BY <1>6 DEF PollActive, ServiceRestart, Reap
  <1>7. CASE UNCHANGED vars
    BY <1>7 DEF vars
  <1>8. QED
    BY <1>1, <1>2, <1>3, <1>4, <1>5, <1>6, <1>7 DEF Next

(* What is true of a run stays true of it, so a step need only be looked   *)
(* at for the statuses it writes, hands over or decides.                   *)
LEMMA TruthStep ==
  TypeOK /\ ProcInv /\ RecordInv /\ TruthInv /\ [Next]_vars => TruthInv'
  <1> SUFFICES ASSUME TypeOK, ProcInv, RecordInv, TruthInv, [Next]_vars PROVE TruthInv'
    OBVIOUS
  <1>a. \A r \in Runs : /\ Over(r) => Over(r)'
                        /\ exit[r] = "ok" => exit'[r] = "ok"
                        /\ r \in signalled => r \in signalled'
    BY PastStep DEF ProcInv
  <1>b. /\ \A c \in Cancellers : cancel[c].pc # "idle" => cancel[c].run \in Runs
        /\ \A d \in Readers : reader[d].pc # "idle" => reader[d].run \in Runs
    BY ThreadRuns
  <1> USE <1>a, <1>b DEF TypeOK, TruthInv, TrueOf, Idle
  <1>1. ASSUME NEW r \in Runs, Trigger(r) PROVE TruthInv'
    <2>1. UNCHANGED <<verdict, file, cancel, reader>>
      BY <1>1 DEF Trigger, TriggerCheckMemory, TriggerCheckDisk, askVars
    <2>2. QED
      BY <2>1
  <1>2. ASSUME NEW r \in Runs, Spawn(r) \/ Register(r) \/ Describe(r) \/ Wait(r) \/ Leave(r)
        PROVE TruthInv'
    <2>1. UNCHANGED <<verdict, file, cancel, reader>>
      BY <1>2 DEF Spawn, Register, Describe, Wait, Leave, askVars
    <2>2. QED
      BY <2>1
  <1>3. ASSUME NEW r \in Runs, OpenRecord(r) \/ OpenFinal(r) PROVE TruthInv'
    BY <1>3 DEF OpenRecord, OpenFinal, Truncate, askVars
  <1>4. ASSUME NEW r \in Runs, WriteRecord(r) PROVE TruthInv'
    <2>1. file' = [file EXCEPT ![r] = "running"]
      BY <1>4, OverlayLeaves DEF WriteRecord, RecordInv, Flush, Content, Status
    <2>2. QED
      BY <1>4, <2>1 DEF WriteRecord, askVars
  <1>5. ASSUME NEW r \in Runs, Decide(r) PROVE TruthInv'
    <2>1. /\ UNCHANGED <<file, cancel, reader, exit, proc, signalled>>
          /\ UNCHANGED verdict \/ verdict' = [verdict EXCEPT ![r] = FinalStatus(r)]
          /\ Over(r)
      BY <1>5 DEF Decide, ProcInv, procVars, askVars
    <2>2. TrueOf(FinalStatus(r), r)
      BY <2>1 DEF FinalStatus
    <2>3. QED
      BY <2>1, <2>2 DEF FinalStatus
  <1>6. ASSUME NEW r \in Runs, WriteFinal(r) PROVE TruthInv'
    <2>1. Overlay(file[r], verdict[r]) \in {verdict[r], "corrupt"}
      BY <1>6, OverlayLeaves DEF WriteFinal, RecordInv, Status
    <2>2. QED
      BY <1>6, <2>1 DEF WriteFinal, Flush, askVars
  <1>7. ASSUME NEW c \in Cancellers, NEW r \in Runs, CancelActive(c, r) \/ CancelRecorded(c, r)
        PROVE TruthInv'
    BY <1>7 DEF CancelActive, CancelRecorded, Call, taskVars, procVars
  <1>8. ASSUME NEW c \in Cancellers, CancelStep(c) PROVE TruthInv'
    <2>1. CASE CancelRead(c)
      BY <2>1 DEF CancelRead, CancelTo, Call, taskVars, procVars
    <2>2. CASE CancelOpen(c)
      BY <2>2 DEF CancelOpen, CancelTo, Call, Truncate, taskVars, procVars
    <2>3. CASE CancelWrite(c)
      <3>1. Overlay(file[cancel[c].run], cancel[c].status) \in {cancel[c].status, "corrupt"}
        BY <2>3, OverlayLeaves, ThreadRuns DEF CancelWrite, Status, Final
      <3>2. QED
        BY <2>3, <3>1 DEF CancelWrite, CancelTo, Call, Flush, taskVars, procVars
    <2>4. CASE CancelDrop(c)
      BY <2>4 DEF CancelDrop, procVars
    <2>5. CASE CancelProbe(c)
      <3>1. cancel[c].run \in Runs /\ Started(cancel[c].run) /\ UNCHANGED <<verdict, file, reader, proc, exit>>
        BY <2>5 DEF CancelProbe, RecordInv, taskVars
      <3>2. \/ /\ cancel' = [cancel EXCEPT ![c] = Call("opening", cancel[c].run, "cancelled", "disk")]
               /\ cancel[c].run \in signalled'
            \/ /\ cancel' = [cancel EXCEPT ![c] = Call("opening", cancel[c].run, "failed", "disk")]
               /\ Over(cancel[c].run)
        BY <2>5, <3>1 DEF CancelProbe, PidExists, Over, Started, Proc
      <3>3. QED
        BY <3>1, <3>2 DEF Call, Over
    <2>6. QED
      BY <1>8, <2>1, <2>2, <2>3, <2>4, <2>5 DEF CancelStep
  <1>9. ASSUME NEW d \in Readers, Read(d) PROVE TruthInv'
    <2>1. CASE \E r \in Runs : ReadRecord(d, r)
      BY <2>1 DEF ReadRecord, taskVars, procVars
    <2>2. CASE Judge(d)
      <3>1. reader[d].run \in Runs /\ Started(reader[d].run) /\ UNCHANGED <<verdict, file, cancel, proc, exit, signalled>>
        BY <2>2 DEF Judge, RecordInv, taskVars, procVars
      <3>2. \/ reader' = [reader EXCEPT ![d] = Idle]
            \/ /\ reader' = [reader EXCEPT ![d] = [pc |-> "condemning", run |-> reader[d].run]]
               /\ Over(reader[d].run)
        BY <2>2, <3>1, ZenonT(30) DEF Judge, SeenRunning, Live, Over, Started, Proc
      <3>3. QED
        BY <3>1, <3>2 DEF Over
    <2>3. CASE CondemnOpen(d)
      BY <2>3 DEF CondemnOpen, Truncate, taskVars, procVars
    <2>4. CASE CondemnWrite(d)
      <3>1. Overlay(file[reader[d].run], "failed") \in {"failed", "corrupt"}
        BY <2>4, OverlayLeaves DEF CondemnWrite, Status, Final
      <3>2. QED
        BY <2>4, <3>1 DEF CondemnWrite, Flush, taskVars, procVars
    <2>5. QED
      BY <1>9, <2>1, <2>2, <2>3, <2>4 DEF Read, ReadStep
  <1>10. ASSUME NEW r \in Runs, Exit(r) \/ Recycle(r) PROVE TruthInv'
    BY <1>10 DEF Exit, Recycle, taskVars, askVars
  <1>11. CASE PollActive
    BY <1>11 DEF PollActive, taskVars, askVars
  <1>12. CASE ServiceRestart
    BY <1>12 DEF ServiceRestart
  <1>13. CASE UNCHANGED vars
    BY <1>13 DEF vars
  <1>14. QED
    BY <1>1, <1>2, <1>3, <1>4, <1>5, <1>6, <1>7, <1>8, <1>9, <1>10, <1>11, <1>12, <1>13
       DEF Next, Execute, Cancel

(* Only "failed" is shorter than what it may be written over, and nobody   *)
(* writes "failed" for a benchmark that is still running.                  *)
LEMMA SoundStep ==
  TypeOK /\ ProcInv /\ RecordInv /\ TruthInv /\ LiveRecordSound /\ [Next]_vars => LiveRecordSound'
  <1> SUFFICES ASSUME TypeOK, ProcInv, RecordInv, TruthInv, LiveRecordSound, [Next]_vars
               PROVE  LiveRecordSound'
    OBVIOUS
  <1> DEFINE Same == UNCHANGED file \/ \E r \in Runs : Truncate(r)
             Born == \A r \in Runs : Live(r)' => Live(r) \/ file'[r] = "absent"
  <1>a. ASSUME Same, Born PROVE LiveRecordSound'
    BY <1>a DEF LiveRecordSound, Live, Truncate, TypeOK
  <1>b. ASSUME NEW r \in Runs, file' = [file EXCEPT ![r] = Overlay(@, "running")], file[r] = "empty", Born
        PROVE  LiveRecordSound'
    BY <1>b, OverlayLeaves DEF LiveRecordSound, Live, TypeOK, Content, Status
  <1>c. ASSUME NEW r \in Runs, NEW s \in Final, file' = [file EXCEPT ![r] = Overlay(@, s)],
               s = "failed" => ~Live(r), UNCHANGED proc
        PROVE  LiveRecordSound'
    BY <1>c, OverlayLeaves DEF LiveRecordSound, Live, TypeOK, Status, Final
  <1>1. ASSUME NEW r \in Runs, Trigger(r) PROVE LiveRecordSound'
    BY <1>1, <1>a DEF Trigger, TriggerCheckMemory, TriggerCheckDisk, Reap, Live, TypeOK, procVars
  <1>2. ASSUME NEW r \in Runs, Spawn(r) PROVE LiveRecordSound'
    BY <1>2, <1>a DEF Spawn, Live, RecordInv, Unrecorded, TypeOK
  <1>3. ASSUME NEW r \in Runs, Register(r) \/ Describe(r) \/ OpenRecord(r) \/ Wait(r) \/ Decide(r)
                                \/ OpenFinal(r) \/ Leave(r)
        PROVE LiveRecordSound'
    BY <1>3, <1>a DEF Register, Describe, OpenRecord, Wait, Decide, OpenFinal, Leave, Reap, Live, TypeOK, procVars
  <1>4. ASSUME NEW r \in Runs, WriteRecord(r) PROVE LiveRecordSound'
    BY <1>4, <1>b DEF WriteRecord, Flush, RecordInv, Live, procVars
  <1>5. ASSUME NEW r \in Runs, WriteFinal(r) PROVE LiveRecordSound'
    BY <1>5, <1>c DEF WriteFinal, Flush, RecordInv, TruthInv, TrueOf, Over, Live, procVars
  <1>6. ASSUME NEW c \in Cancellers, Cancel(c) PROVE LiveRecordSound'
    <2>1. CASE CancelWrite(c)
      BY <2>1, <1>c, ThreadRuns DEF CancelWrite, Flush, TruthInv, TrueOf, Over, Live, Final, procVars
    <2>2. CASE CancelOpen(c)
      BY <2>2, <1>a, ThreadRuns DEF CancelOpen, Live, procVars
    <2>3. ASSUME NEW r \in Runs, CancelActive(c, r) \/ CancelRecorded(c, r) PROVE LiveRecordSound'
      BY <2>3, <1>a DEF CancelActive, CancelRecorded, Reap, Live, TypeOK, procVars
    <2>4. CASE CancelRead(c) \/ CancelDrop(c) \/ CancelProbe(c)
      BY <2>4, <1>a DEF CancelRead, CancelDrop, CancelProbe, Live, procVars
    <2>5. QED
      BY <1>6, <2>1, <2>2, <2>3, <2>4 DEF Cancel, CancelStep
  <1>7. ASSUME NEW d \in Readers, Read(d) PROVE LiveRecordSound'
    <2>1. CASE CondemnWrite(d)
      BY <2>1, <1>c, ThreadRuns DEF CondemnWrite, Flush, TruthInv, Over, Live, Final, procVars
    <2>2. CASE CondemnOpen(d)
      BY <2>2, <1>a, ThreadRuns DEF CondemnOpen, Live, procVars
    <2>3. CASE (\E r \in Runs : ReadRecord(d, r)) \/ Judge(d)
      BY <2>3, <1>a DEF ReadRecord, Judge, Live, procVars
    <2>4. QED
      BY <1>7, <2>1, <2>2, <2>3 DEF Read, ReadStep
  <1>8. ASSUME NEW r \in Runs, Exit(r) \/ Recycle(r) PROVE LiveRecordSound'
    BY <1>8, <1>a DEF Exit, Recycle, Live, TypeOK
  <1>9. CASE PollActive \/ ServiceRestart
    BY <1>9, <1>a DEF PollActive, ServiceRestart, Reap, Live, TypeOK
  <1>10. CASE UNCHANGED vars
    BY <1>10, <1>a DEF vars, Live
  <1>11. QED
    BY <1>1, <1>2, <1>3, <1>4, <1>5, <1>6, <1>7, <1>8, <1>9, <1>10 DEF Next, Execute

-----------------------------------------------------------------------------
LEMMA InvInit == Init => IInv
  <1> SUFFICES ASSUME Init PROVE IInv
    OBVIOUS
  <1>1. TypeOK
    BY TypeInit
  <1>2. EntryOwned /\ LiveRecordSound
    BY DEF Init, EntryOwned, LiveRecordSound
  <1>3. ProcInv /\ RecordInv
    BY DEF Init, ProcInv, RecordInv, Started, Over, Unrecorded, Idle
  <1>4. TruthInv
    BY DEF Init, TruthInv, TrueOf, Idle
  <1>5. QED
    BY <1>1, <1>2, <1>3, <1>4 DEF IInv

(* The inductive invariant holds in every reachable state, whatever the    *)
(* number of runs, handler threads and restarts of the service.            *)
THEOREM Invariance == Spec => []IInv
  <1>1. IInv /\ [Next]_vars => IInv'
    BY TypeStep, OwnedStep, ProcStep, RecordStep, TruthStep, SoundStep DEF IInv
  <1>2. QED
    BY InvInit, <1>1, PTL DEF Spec

(* Every variable of the service keeps its type.                           *)
THEOREM TypeCorrect == Spec => []TypeOK
  <1>1. IInv => TypeOK
    BY DEF IInv
  <1>2. QED
    BY Invariance, <1>1, PTL

(* An entry of ACTIVE_RUNS always has a background task that will still    *)
(* remove it, however cancels, registrations and restarts interleave.      *)
THEOREM EntriesOwned == Spec => []EntryOwned
  <1>1. IInv => EntryOwned
    BY DEF IInv
  <1>2. QED
    BY Invariance, <1>1, PTL

(* However many threads rewrite an active_run.json at once, it does not    *)
(* become unreadable for good while its benchmark is running.              *)
THEOREM LiveRecordsSound == Spec => []LiveRecordSound
  <1>1. IInv => LiveRecordSound
    BY DEF IInv
  <1>2. QED
    BY Invariance, <1>1, PTL

-----------------------------------------------------------------------------
(* One benchmark at a time, for a client that waits                        *)

(* A benchmark that nobody has told to stop.                               *)
Loose(r) == Live(r) /\ r \notin signalled

(* One request at a time is past the first check.  While it scans, the     *)
(* record of a benchmark that is loose says so; once it has scanned, none  *)
(* is.                                                                     *)
SoleInv ==
  /\ \A p, q \in Runs : {exec[p], exec[q]} \subseteq {"scanning", "queued"} => p = q
  /\ \A p, q \in Runs : p # q /\ Loose(p) =>
       /\ exec[q] = "scanning" => file[p] = "running"
       /\ exec[q] # "queued"
  /\ OneBenchmark

(* A step that starts nothing and lets no record of a loose benchmark be   *)
(* rewritten keeps it.                                                     *)
LEMMA SoleKept ==
  ASSUME SoleInv,
         \A r \in Runs : exec'[r] \in {"scanning", "queued"} => exec'[r] = exec[r],
         \A r \in Runs : Live(r)' => Live(r),
         signalled \subseteq signalled',
         \A r \in Runs : Loose(r) /\ file[r] = "running" => file'[r] = "running"
  PROVE  SoleInv'
  <1>1. \A r \in Runs : Loose(r)' => Loose(r)
    BY DEF Loose
  <1>2. \A p, q \in Runs : {exec[p], exec[q]}' \subseteq {"scanning", "queued"} => p = q
    BY DEF SoleInv
  <1>3. ASSUME NEW p \in Runs, NEW q \in Runs, p # q, Loose(p)'
        PROVE  (exec'[q] = "scanning" => file'[p] = "running") /\ exec'[q] # "queued"
    BY <1>1, <1>3 DEF SoleInv
  <1>4. OneBenchmark'
    BY DEF SoleInv, OneBenchmark
  <1>5. QED
    BY <1>2, <1>3, <1>4 DEF SoleInv

LEMMA SoleStep == PatientClient /\ IInv /\ SoleInv /\ [Next]_vars => SoleInv'
  <1> SUFFICES ASSUME PatientClient, IInv, SoleInv, [Next]_vars PROVE SoleInv'
    OBVIOUS
  <1> USE DEF IInv, TypeOK
  <1>1. ASSUME NEW r \in Runs, TriggerCheckMemory(r) PROVE SoleInv'
    <2>1. /\ \A q \in Runs \ {r} : Recorded(q)
          /\ exec' = [exec EXCEPT ![r] = "scanning"]
          /\ UNCHANGED <<file, signalled>>
          /\ \A q \in Runs : Live(q)' => Live(q)
      BY <1>1 DEF TriggerCheckMemory, To, Reap, Live
    <2>2. \A p, q \in Runs : {exec[p], exec[q]}' \subseteq {"scanning", "queued"} => p = q
      BY <2>1 DEF Recorded
    <2>3. \A p \in Runs \ {r} : Loose(p) => file[p] = "running"
      BY <2>1 DEF Recorded, Loose, TruthInv, TrueOf
    <2>4. ASSUME NEW p \in Runs, NEW q \in Runs, p # q, Loose(p)'
          PROVE  (exec'[q] = "scanning" => file'[p] = "running") /\ exec'[q] # "queued"
      <3>1. Loose(p)
        BY <2>1, <2>4 DEF Loose
      <3>2. CASE q = r
        BY <2>1, <2>3, <2>4, <3>1, <3>2
      <3>3. CASE q # r
        BY <2>1, <3>3 DEF Recorded
      <3>4. QED
        BY <3>2, <3>3
    <2>5. OneBenchmark'
      BY <2>1 DEF SoleInv, OneBenchmark
    <2>6. QED
      BY <2>2, <2>4, <2>5 DEF SoleInv
  <1>2. ASSUME NEW r \in Runs, TriggerCheckDisk(r) PROVE SoleInv'
    <2>1. exec[r] = "scanning" /\ UNCHANGED <<file, proc, signalled>>
      BY <1>2 DEF TriggerCheckDisk, procVars
    <2>2. CASE exec' = [exec EXCEPT ![r] = "idle"]
      BY <2>1, <2>2, SoleKept DEF Live
    <2>3. CASE /\ exec' = [exec EXCEPT ![r] = "queued"]
               /\ \A q \in Runs : file[q] = "running" => FALSE \in SeenRunning(q)
      <3>1. \A p \in Runs : p # r => ~Loose(p)
        BY <2>1, <2>3 DEF SoleInv, SeenRunning, Loose, Live
      <3>2. \A p, q \in Runs : {exec[p], exec[q]}' \subseteq {"scanning", "queued"} => p = q
        BY <2>1, <2>3 DEF SoleInv
      <3>3. ASSUME NEW p \in Runs, NEW q \in Runs, p # q, Loose(p)'
            PROVE  (exec'[q] = "scanning" => file'[p] = "running") /\ exec'[q] # "queued"
        <4>1. Loose(p) /\ p = r
          BY <2>1, <3>1, <3>3 DEF Loose, Live
        <4>2. exec'[q] \notin {"scanning", "queued"}
          BY <2>3, <3>2, <3>3, <4>1
        <4>3. QED
          BY <4>2
      <3>4. OneBenchmark'
        BY <2>1 DEF SoleInv, OneBenchmark, Live
      <3>5. QED
        BY <3>2, <3>3, <3>4 DEF SoleInv
    <2>4. QED
      BY <1>2, <2>2, <2>3 DEF TriggerCheckDisk, To
  <1>3. ASSUME NEW r \in Runs, Spawn(r) PROVE SoleInv'
    <2>1. /\ exec[r] = "queued" /\ exec' = [exec EXCEPT ![r] = "spawned"]
          /\ proc' = [proc EXCEPT ![r] = "live"]
          /\ UNCHANGED <<file, signalled>>
      BY <1>3 DEF Spawn, To, askVars
    <2>2. \A q \in Runs : q # r => ~Loose(q) /\ (Loose(q)' <=> Loose(q))
      BY <2>1 DEF SoleInv, Loose, Live
    <2>3. \A q \in Runs : exec'[q] \notin {"scanning", "queued"}
      BY <2>1 DEF SoleInv
    <2>4. OneBenchmark'
      BY <2>1, <2>2 DEF OneBenchmark, Loose, Live
    <2>5. QED
      BY <2>3, <2>4 DEF SoleInv
  <1>4. ASSUME NEW r \in Runs, Register(r) \/ Describe(r) \/ Decide(r) \/ Leave(r) PROVE SoleInv'
    <2>1. /\ \A q \in Runs : exec'[q] \in {"scanning", "queued"} => exec'[q] = exec[q]
          /\ UNCHANGED <<file, proc, signalled>>
      BY <1>4 DEF Register, Describe, Decide, Leave, To, procVars
    <2>2. QED
      BY <2>1, SoleKept DEF Live
  <1>5. ASSUME NEW r \in Runs, OpenRecord(r) \/ WriteRecord(r) \/ OpenFinal(r) \/ WriteFinal(r)
        PROVE  SoleInv'
    <2>1. /\ \A q \in Runs : exec'[q] \in {"scanning", "queued"} => exec'[q] = exec[q]
          /\ UNCHANGED <<proc, signalled>>
          /\ \A q \in Runs : q # r => file'[q] = file[q]
      BY <1>5 DEF OpenRecord, WriteRecord, OpenFinal, WriteFinal, To, Truncate, Flush, procVars
    <2>2. Loose(r) => file[r] # "running"
      BY <1>5 DEF OpenRecord, WriteRecord, OpenFinal, WriteFinal, RecordInv, Unrecorded, ProcInv, Over, Loose, Live
    <2>3. QED
      BY <2>1, <2>2, SoleKept DEF Live
  <1>6. ASSUME NEW r \in Runs, Wait(r) PROVE SoleInv'
    <2>1. /\ \A q \in Runs : exec'[q] \in {"scanning", "queued"} => exec'[q] = exec[q]
          /\ \A q \in Runs : Live(q)' => Live(q)
          /\ UNCHANGED <<file, signalled>>
      BY <1>6 DEF Wait, To, Reap, Live
    <2>2. QED
      BY <2>1, SoleKept
  <1>7. ASSUME NEW r \in Runs, Exit(r) \/ Recycle(r) PROVE SoleInv'
    <2>1. UNCHANGED <<exec, file, signalled>> /\ \A q \in Runs : Live(q)' => Live(q)
      BY <1>7 DEF Exit, Recycle, Live, taskVars
    <2>2. QED
      BY <2>1, SoleKept
  <1>8. ASSUME NEW c \in Cancellers, NEW r \in Runs, CancelActive(c, r) PROVE SoleInv'
    <2>1. /\ UNCHANGED <<exec, file>> /\ signalled \subseteq signalled'
          /\ \A q \in Runs : Live(q)' => Live(q)
      BY <1>8 DEF CancelActive, Reap, Live
    <2>2. QED
      BY <2>1, SoleKept
  <1>9. ASSUME NEW c \in Cancellers, CancelOpen(c) \/ CancelWrite(c) PROVE SoleInv'
    <2> DEFINE r == cancel[c].run
    <2>1. r \in Runs /\ ~Loose(r)
      BY <1>9, ThreadRuns DEF CancelOpen, CancelWrite, TruthInv, TrueOf, Over, Loose, Live
    <2>2. /\ UNCHANGED <<exec, proc, signalled>>
          /\ \A q \in Runs : q # r => file'[q] = file[q]
      BY <1>9 DEF CancelOpen, CancelWrite, Truncate, Flush, taskVars, procVars
    <2>3. QED
      BY <2>1, <2>2, SoleKept DEF Live
  <1>10. ASSUME NEW c \in Cancellers, CancelRead(c) \/ CancelDrop(c) \/ CancelProbe(c)
                                      \/ (\E r \in Runs : CancelRecorded(c, r))
         PROVE SoleInv'
    <2>1. UNCHANGED <<exec, file, proc>> /\ signalled \subseteq signalled'
      BY <1>10 DEF CancelRead, CancelDrop, CancelProbe, CancelRecorded, taskVars, procVars
    <2>2. QED
      BY <2>1, SoleKept DEF Live
  <1>11. ASSUME NEW d \in Readers, CondemnOpen(d) \/ CondemnWrite(d) PROVE SoleInv'
    <2> DEFINE r == reader[d].run
    <2>1. r \in Runs /\ ~Loose(r)
      BY <1>11, ThreadRuns DEF CondemnOpen, CondemnWrite, TruthInv, Over, Loose, Live
    <2>2. /\ UNCHANGED <<exec, proc, signalled>>
          /\ \A q \in Runs : q # r => file'[q] = file[q]
      BY <1>11 DEF CondemnOpen, CondemnWrite, Truncate, Flush, taskVars, procVars
    <2>3. QED
      BY <2>1, <2>2, SoleKept DEF Live
  <1>12. ASSUME NEW d \in Readers, (\E r \in Runs : ReadRecord(d, r)) \/ Judge(d) PROVE SoleInv'
    <2>1. UNCHANGED <<exec, file, proc, signalled>>
      BY <1>12 DEF ReadRecord, Judge, taskVars, procVars
    <2>2. QED
      BY <2>1, SoleKept DEF Live
  <1>13. CASE PollActive \/ ServiceRestart
    <2>1. /\ \A q \in Runs : exec'[q] \in {"scanning", "queued"} => exec'[q] = exec[q]
          /\ \A q \in Runs : Live(q)' => Live(q)
          /\ UNCHANGED <<file, signalled>>
      BY <1>13 DEF PollActive, ServiceRestart, Reap, Live, taskVars
    <2>2. QED
      BY <2>1, SoleKept
  <1>14. CASE UNCHANGED vars
    BY <1>14, SoleKept DEF vars, Live
  <1>15. QED
    BY <1>1, <1>2, <1>3, <1>4, <1>5, <1>6, <1>7, <1>8, <1>9, <1>10, <1>11, <1>12, <1>13, <1>14
       DEF Next, Trigger, Execute, Cancel, CancelStep, Read, ReadStep

(* With a client that waits for a run to be recorded before it triggers    *)
(* the next, no two benchmarks run at once unless one of them has been     *)
(* told to stop, across restarts of the service and reuse of pids, and     *)
(* however status threads and cancels rewrite the records meanwhile.       *)
THEOREM OneAtATime ==
  ASSUME PatientClient
  PROVE  Spec => []OneBenchmark
  <1>1. Init => SoleInv
    BY DEF Init, SoleInv, OneBenchmark, Loose, Live
  <1>2. IInv /\ SoleInv /\ [Next]_vars => SoleInv'
    BY SoleStep
  <1>3. SoleInv => OneBenchmark
    BY DEF SoleInv
  <1>4. QED
    BY Invariance, <1>1, <1>2, <1>3, PTL DEF Spec
-----------------------------------------------------------------------------
(* Writing a true status shows a true outcome.                             *)
LEMMA ShowTrue ==
  ASSUME TypeOK, ProcInv, NEW r \in Runs, NEW x, file' = [file EXCEPT ![r] = x],
         TrueOf(x, r), UNCHANGED procVars
  PROVE  Lifecycle!Show(r)
  <1> DEFINE o == IF x \in Final THEN x ELSE "none"
  <1>1. UNCHANGED <<life, signalled>>
    BY DEF life, Live, procVars
  <1>2. outcome' = [outcome EXCEPT ![r] = o]
    BY DEF outcome, TypeOK
  <1>3. o \in Lifecycle!True(r)
    <2>1. x = "completed" => life[r] = "succeeded"
      BY DEF TrueOf, life, Live, ProcInv, Over, TypeOK
    <2>2. x = "failed" => life[r] \in {"succeeded", "broke"}
      BY DEF TrueOf, life, Live, ProcInv, Over, TypeOK
    <2>3. x = "cancelled" => r \in signalled
      BY DEF TrueOf
    <2>4. QED
      BY <2>1, <2>2, <2>3 DEF Lifecycle!True, Lifecycle!Ended, Final
  <1>4. QED
    BY <1>1, <1>2, <1>3 DEF Lifecycle!Show

(* A step that leaves exits and records alone, and at most reaps or        *)
(* recycles processes that have exited, shows the user nothing new.        *)
LEMMA ShowNothing ==
  ASSUME TypeOK, UNCHANGED <<file, exit, signalled>>,
         \A r \in Runs : proc'[r] = proc[r] \/ (Over(r) /\ Over(r)')
  PROVE  UNCHANGED <<life, signalled, outcome>>
  <1>1. life' = life
    BY DEF life, Live, Over, TypeOK
  <1>2. outcome' = outcome
    BY DEF outcome
  <1>3. QED
    BY <1>1, <1>2

(* Every step of the service is a step of the lifecycle or none.           *)
LEMMA RefineStep ==
  IInv /\ [Next]_vars => [Lifecycle!LifecycleNext]_<<life, signalled, outcome>>
  <1> SUFFICES ASSUME IInv, [Next]_vars
               PROVE  [Lifecycle!LifecycleNext]_<<life, signalled, outcome>>
    OBVIOUS
  <1> DEFINE Step == [Lifecycle!LifecycleNext]_<<life, signalled, outcome>>
  <1> USE DEF IInv
  <1>a. ASSUME UNCHANGED <<file, procVars>> PROVE Step
    BY <1>a, ShowNothing DEF procVars
  <1>b. ASSUME NEW r \in Runs, NEW x, file' = [file EXCEPT ![r] = x], TrueOf(x, r), UNCHANGED procVars
        PROVE  Step
    BY <1>b, ShowTrue DEF Lifecycle!LifecycleNext
  <1>c. ASSUME NEW S \in SUBSET Runs, proc' = Reap(S), UNCHANGED <<file, exit, signalled>> PROVE Step
    BY <1>c, ShowNothing DEF Reap, Over, TypeOK
  <1>1. ASSUME NEW r \in Runs, Trigger(r) PROVE Step
    <2>1. CASE TriggerCheckMemory(r)
      BY <2>1, <1>c DEF TriggerCheckMemory, TypeOK, askVars
    <2>2. CASE TriggerCheckDisk(r)
      <3>1. UNCHANGED <<file, procVars>>
        BY <2>2 DEF TriggerCheckDisk
      <3>2. QED
        BY <3>1, <1>a
    <2>3. QED
      BY <1>1, <2>1, <2>2 DEF Trigger
  <1>2. ASSUME NEW r \in Runs, Spawn(r) PROVE Step
    <2>1. life[r] = "unborn" /\ life' = [life EXCEPT ![r] = "live"]
      BY <1>2 DEF Spawn, ProcInv, life, Live, TypeOK
    <2>2. UNCHANGED <<signalled, outcome>>
      BY <1>2 DEF Spawn, outcome, askVars
    <2>3. QED
      BY <2>1, <2>2 DEF Lifecycle!LifecycleNext, Lifecycle!Start
  <1>3. ASSUME NEW r \in Runs, Register(r) \/ Describe(r) \/ Decide(r) \/ Leave(r) PROVE Step
    BY <1>3, <1>a DEF Register, Describe, Decide, Leave
  <1>4. ASSUME NEW r \in Runs, OpenRecord(r) \/ OpenFinal(r) PROVE Step
    BY <1>4, <1>b DEF OpenRecord, OpenFinal, Truncate, TrueOf
  <1>5. ASSUME NEW r \in Runs, WriteRecord(r) PROVE Step
    <2>1. file' = [file EXCEPT ![r] = "running"]
      BY <1>5, OverlayLeaves DEF WriteRecord, RecordInv, Flush, Content, Status
    <2>2. QED
      BY <1>5, <2>1, <1>b DEF WriteRecord, TrueOf
  <1>6. ASSUME NEW r \in Runs, Wait(r) PROVE Step
    BY <1>6, <1>c DEF Wait, askVars
  <1>7. ASSUME NEW r \in Runs, WriteFinal(r) PROVE Step
    <2>1. Overlay(file[r], verdict[r]) \in {verdict[r], "corrupt"}
      BY <1>7, OverlayLeaves DEF WriteFinal, RecordInv, TypeOK, Status
    <2>2. TrueOf(Overlay(file[r], verdict[r]), r)
      BY <2>1 DEF TruthInv, TrueOf
    <2>3. file' = [file EXCEPT ![r] = Overlay(file[r], verdict[r])]
      BY <1>7 DEF WriteFinal, Flush, TypeOK
    <2>4. QED
      BY <1>7, <2>2, <2>3, <1>b DEF WriteFinal
  <1>8. ASSUME NEW c \in Cancellers, NEW r \in Runs, CancelActive(c, r) PROVE Step
    <2>1. CASE PollsNone(r) /\ signalled' = signalled \cup {r} /\ UNCHANGED <<proc, file, exit>>
      <3>1. life[r] # "unborn" /\ UNCHANGED <<life, outcome>>
        BY <2>1 DEF PollsNone, life, Live, outcome
      <3>2. QED
        BY <2>1, <3>1 DEF Lifecycle!LifecycleNext, Lifecycle!Abort
    <2>2. CASE proc' = Reap({r}) /\ UNCHANGED <<file, exit, signalled>>
      BY <2>2, <1>c
    <2>3. QED
      BY <1>8, <2>1, <2>2 DEF CancelActive
  <1>9. ASSUME NEW c \in Cancellers, CancelProbe(c) PROVE Step
    <2>1. UNCHANGED <<proc, file, exit>> /\ UNCHANGED <<life, outcome>>
      BY <1>9 DEF CancelProbe, taskVars, life, Live, outcome
    <2>2. cancel[c].run \in Runs /\ life[cancel[c].run] # "unborn"
      BY <1>9, ThreadRuns DEF CancelProbe, RecordInv, Started, life
    <2>3. signalled' = signalled \cup {cancel[c].run} \/ UNCHANGED signalled
      BY <1>9 DEF CancelProbe
    <2>4. QED
      BY <2>1, <2>2, <2>3 DEF Lifecycle!LifecycleNext, Lifecycle!Abort
  <1>10. ASSUME NEW c \in Cancellers, CancelOpen(c) PROVE Step
    BY <1>10, <1>b, ThreadRuns DEF CancelOpen, Truncate, TrueOf
  <1>11. ASSUME NEW c \in Cancellers, CancelWrite(c) PROVE Step
    <2> DEFINE r == cancel[c].run
               s == cancel[c].status
    <2>1. r \in Runs /\ s \in {"cancelled", "failed"} /\ TrueOf(s, r)
      BY <1>11, ThreadRuns DEF CancelWrite, TruthInv
    <2>2. Overlay(file[r], s) \in {s, "corrupt"}
      BY <2>1, OverlayLeaves DEF TypeOK, Status, Final
    <2>3. TrueOf(Overlay(file[r], s), r)
      BY <2>1, <2>2 DEF TrueOf
    <2>4. file' = [file EXCEPT ![r] = Overlay(file[r], s)] /\ UNCHANGED procVars
      BY <1>11 DEF CancelWrite, Flush, TypeOK
    <2>5. QED
      BY <2>1, <2>3, <2>4, <1>b
  <1>12. ASSUME NEW c \in Cancellers, CancelRead(c) \/ CancelDrop(c) \/ (\E r \in Runs : CancelRecorded(c, r))
         PROVE Step
    BY <1>12, <1>a DEF CancelRead, CancelDrop, CancelRecorded
  <1>13. ASSUME NEW d \in Readers, Read(d) PROVE Step
    <2>1. CASE CondemnWrite(d)
      <3> DEFINE r == reader[d].run
      <3>1. r \in Runs /\ Over(r)
        BY <2>1, ThreadRuns DEF CondemnWrite, TruthInv
      <3>2. Overlay(file[r], "failed") \in {"failed", "corrupt"}
        BY <3>1, OverlayLeaves DEF TypeOK, Status, Final
      <3>3. TrueOf(Overlay(file[r], "failed"), r)
        BY <3>1, <3>2 DEF TrueOf
      <3>4. file' = [file EXCEPT ![r] = Overlay(file[r], "failed")] /\ UNCHANGED procVars
        BY <2>1 DEF CondemnWrite, Flush, TypeOK
      <3>5. QED
        BY <3>1, <3>3, <3>4, <1>b
    <2>2. CASE CondemnOpen(d)
      BY <2>2, <1>b, ThreadRuns DEF CondemnOpen, Truncate, TrueOf
    <2>3. CASE (\E r \in Runs : ReadRecord(d, r)) \/ Judge(d)
      BY <2>3, <1>a DEF ReadRecord, Judge
    <2>4. QED
      BY <1>13, <2>1, <2>2, <2>3 DEF Read, ReadStep
  <1>14. ASSUME NEW r \in Runs, Exit(r) PROVE Step
    <2>1. PICK how \in {"ok", "error"} : exit' = [exit EXCEPT ![r] = how]
      BY <1>14 DEF Exit
    <2>2. life[r] = "live"
      BY <1>14 DEF Exit, life, Live
    <2>3. life' = [life EXCEPT ![r] = IF how = "ok" THEN "succeeded" ELSE "broke"]
      BY <1>14, <2>1 DEF Exit, life, Live, TypeOK
    <2>4. UNCHANGED <<signalled, outcome>>
      BY <1>14 DEF Exit, outcome
    <2>5. QED
      BY <2>2, <2>3, <2>4 DEF Lifecycle!LifecycleNext, Lifecycle!End
  <1>15. ASSUME NEW r \in Runs, Recycle(r) PROVE Step
    BY <1>15, ShowNothing DEF Recycle, Over, TypeOK
  <1>16. CASE PollActive \/ ServiceRestart
    BY <1>16, <1>c DEF PollActive, ServiceRestart, TypeOK, askVars
  <1>17. CASE UNCHANGED vars
    BY <1>17, <1>a DEF vars, procVars
  <1>18. QED
    BY <1>1, <1>2, <1>3, <1>4, <1>5, <1>6, <1>7, <1>8, <1>9, <1>10, <1>11, <1>12, <1>13, <1>14, <1>15,
       <1>16, <1>17 DEF Next, Execute, Cancel, CancelStep

(* The service implements RunLifecycle: whatever the interleaving, a       *)
(* benchmark starts once, ends once, and no outcome is shown that its      *)
(* process did not have.                                                   *)
THEOREM Refinement == Spec => ImplementsLifecycle
  <1>1. Init => Lifecycle!LifecycleInit
    BY DEF Init, Lifecycle!LifecycleInit, life, outcome, Final
  <1>2. QED
    BY <1>1, Invariance, RefineStep, PTL
       DEF Spec, ImplementsLifecycle, Lifecycle!LifecycleSpec, Lifecycle!lifecycleVars

-----------------------------------------------------------------------------
(* The log stream                                                          *)

(* A stream changes nothing of the service but that its poll reaps.        *)
LEMMA StreamIsPoll == TypeOK /\ [LNext]_lvars => [Next]_vars
  <1> SUFFICES ASSUME TypeOK, [LNext]_lvars PROVE [Next]_vars
    OBVIOUS
  <1>1. ASSUME NEW v \in Viewers, AskMemory(v), ~UNCHANGED vars PROVE Next
    <2> DEFINE r == viewer[v].run
    <2>1. /\ r \in active
          /\ proc' = Reap({r})
          /\ UNCHANGED <<taskVars, file, exit, signalled, askVars>>
      BY <1>1 DEF AskMemory
    <2>2. proc[r] = "zombie"
      <3> SUFFICES ASSUME proc[r] # "zombie" PROVE UNCHANGED vars
        BY <1>1
      <3>1. proc' = proc
        BY <2>1 DEF Reap, TypeOK
      <3>2. QED
        BY <2>1, <3>1 DEF vars, taskVars, askVars
    <2>3. PollActive
      BY <2>1, <2>2 DEF PollActive
    <2>4. QED
      BY <2>3 DEF Next
  <1>2. CASE ServiceStep \/ UNCHANGED lvars
    BY <1>2 DEF ServiceStep, lvars
  <1>3. ASSUME NEW v \in Viewers,
               (\E r \in Runs : Follow(v, r)) \/ ReadToEnd(v) \/ AskRecord(v) \/ HangUp(v)
        PROVE  UNCHANGED vars
    BY <1>3 DEF Follow, ReadToEnd, AskRecord, HangUp
  <1>4. ASSUME NEW r \in Runs, WriteLog(r) PROVE UNCHANGED vars
    BY <1>4 DEF WriteLog
  <1>5. QED
    BY <1>1, <1>2, <1>3, <1>4 DEF LNext

(* Beside its log stream the service behaves as without it, so what is     *)
(* proved of Spec holds of LSpec.                                          *)
THEOREM StreamHarmless == LSpec => Spec /\ []IInv
  <1>1. LInit => Init
    BY DEF LInit
  <1>2. IInv => TypeOK
    BY DEF IInv
  <1>3. IInv /\ [Next]_vars => IInv'
    BY TypeStep, OwnedStep, ProcStep, RecordStep, TruthStep, SoundStep DEF IInv
  <1>4. QED
    BY <1>1, <1>2, <1>3, InvInit, StreamIsPoll, PTL DEF LSpec, Spec

(* An open stream follows a run, and past the end of the file it knows     *)
(* whether it has left lines unread.                                       *)
LEMMA StreamRuns ==
  ASSUME StreamTypeOK, NEW v \in Viewers
  PROVE  /\ viewer[v].pc # "idle" => viewer[v].run \in Runs
         /\ PastEnd(v) => /\ viewer[v].run \in Runs
                          /\ viewer[v] \in [pc : {"asking", "polling"}, run : Runs, unread : BOOLEAN]
  BY DEF StreamTypeOK, Stream, PastEnd, Idle

(* The stream of each client keeps its type.                               *)
THEOREM StreamTypeCorrect == LSpec => []StreamTypeOK
  <1>1. LInit => StreamTypeOK
    BY DEF LInit, StreamTypeOK, Closed, Stream
  <1>2. ASSUME StreamTypeOK, [LNext]_lvars PROVE StreamTypeOK'
    <2>a. ASSUME NEW v \in Viewers, NEW s \in Stream, StreamTo(v, s) PROVE StreamTypeOK'
      BY <1>2, <2>a DEF StreamTypeOK, StreamTo
    <2>b. /\ Idle \in Stream
          /\ \A r \in Runs : Reading(r) \in Stream
          /\ \A r \in Runs : [pc |-> "asking", run |-> r, unread |-> FALSE] \in Stream
      BY DEF Stream, Reading
    <2>1. CASE ServiceStep \/ UNCHANGED lvars
      BY <1>2, <2>1 DEF ServiceStep, Closed, lvars, StreamTypeOK, Stream
    <2>2. ASSUME NEW v \in Viewers, NEW r \in Runs, Follow(v, r) PROVE StreamTypeOK'
      BY <2>2, <2>a, <2>b DEF Follow
    <2>3. ASSUME NEW v \in Viewers, ReadToEnd(v) \/ HangUp(v) PROVE StreamTypeOK'
      BY <1>2, <2>3, <2>a, <2>b, StreamRuns DEF ReadToEnd, HangUp
    <2>4. ASSUME NEW v \in Viewers, AskRecord(v) \/ AskMemory(v) PROVE StreamTypeOK'
      <3>1. PastEnd(v)
        BY <2>4 DEF AskRecord, AskMemory, PastEnd
      <3>2. viewer[v].run \in Runs /\ [viewer[v] EXCEPT !.pc = "polling"] \in Stream
        BY <1>2, <3>1, StreamRuns DEF Stream
      <3>3. \/ StreamTo(v, Idle) \/ StreamTo(v, Reading(viewer[v].run))
            \/ StreamTo(v, [viewer[v] EXCEPT !.pc = "polling"])
        BY <2>4 DEF AskRecord, AskMemory
      <3>4. QED
        BY <3>2, <3>3, <2>a, <2>b
    <2>5. ASSUME NEW r \in Runs, WriteLog(r) PROVE StreamTypeOK'
      <3>1. \A v \in Viewers : PastEnd(v) => [viewer[v] EXCEPT !.unread = TRUE] \in Stream
        BY <1>2, StreamRuns DEF Stream
      <3>2. viewer' = [v \in Viewers |-> IF PastEnd(v) /\ viewer[v].run = r
                                        THEN [viewer[v] EXCEPT !.unread = TRUE] ELSE viewer[v]]
        BY <2>5 DEF WriteLog
      <3>3. QED
        BY <1>2, <3>1, <3>2 DEF StreamTypeOK
    <2>6. QED
      BY <1>2, <2>1, <2>2, <2>3, <2>4, <2>5 DEF LNext
  <1>3. QED
    BY <1>1, <1>2, PTL DEF LSpec

-----------------------------------------------------------------------------
(* A cancel that works from an entry is one that has sent SIGTERM.  Nobody *)
(* else takes the entry of a running benchmark away.                       *)
TraceInv ==
  /\ \A c \in Cancellers : cancel[c].pc # "idle" =>
       /\ cancel[c].pc \in {"signalled", "dropping"} => cancel[c].via = "memory"
       /\ cancel[c].via = "memory" => cancel[c].status = "cancelled"
  /\ \A r \in Runs : Loose(r) /\ r \notin active => exec[r] \in {"spawned", "lost"}

LEMMA TraceStep == IInv /\ TraceInv /\ [Next]_vars => TraceInv'
  <1> SUFFICES ASSUME IInv, TraceInv, [Next]_vars PROVE TraceInv'
    OBVIOUS
  <1> DEFINE Calls   == \A c \in Cancellers : cancel[c].pc # "idle" =>
                          /\ cancel[c].pc \in {"signalled", "dropping"} => cancel[c].via = "memory"
                          /\ cancel[c].via = "memory" => cancel[c].status = "cancelled"
             Entries == \A r \in Runs : Loose(r) /\ r \notin active => exec[r] \in {"spawned", "lost"}
  <1> USE DEF IInv, TypeOK
  <1>a. Calls /\ Entries
    BY DEF TraceInv
  <1>d. ASSUME Calls', Entries' PROVE TraceInv'
    BY <1>d DEF TraceInv
  <1> HIDE DEF Calls, Entries
  <1>b. ASSUME UNCHANGED cancel PROVE Calls'
    BY <1>a, <1>b DEF Calls
  <1>c. ASSUME \A r \in Runs : Loose(r)' => Loose(r),
               \A r \in Runs : exec[r] \in {"spawned", "lost"} => exec'[r] = exec[r] \/ r \in active',
               \A r \in active : Loose(r)' => r \in active'
        PROVE  Entries'
    BY <1>a, <1>c DEF Entries
  <1>1. ASSUME NEW r \in Runs, Trigger(r) PROVE Calls' /\ Entries'
    <2>1. /\ UNCHANGED <<cancel, active, signalled>>
          /\ \A q \in Runs : exec[q] \in {"spawned", "lost"} => exec'[q] = exec[q]
          /\ \A q \in Runs : Live(q)' => Live(q)
      BY <1>1, ZenonT(30) DEF Trigger, TriggerCheckMemory, TriggerCheckDisk, To, Reap, Live, procVars, askVars
    <2>2. QED
      BY <2>1, <1>b, <1>c DEF Loose
  <1>2. ASSUME NEW r \in Runs, Spawn(r) PROVE Calls' /\ Entries'
    BY <1>2, <1>a, <1>b DEF Spawn, To, Entries, Loose, Live, askVars
  <1>3. ASSUME NEW r \in Runs, Register(r) PROVE Calls' /\ Entries'
    BY <1>3, <1>b, <1>c DEF Register, To, Loose, Live, procVars, askVars
  <1>4. ASSUME NEW r \in Runs, Describe(r) \/ OpenRecord(r) \/ WriteRecord(r) \/ Decide(r)
                                \/ OpenFinal(r) \/ WriteFinal(r)
        PROVE Calls' /\ Entries'
    <2>1. /\ UNCHANGED <<cancel, active, signalled, proc>>
          /\ \A q \in Runs : exec[q] \in {"spawned", "lost"} => exec'[q] = exec[q]
      BY <1>4 DEF Describe, OpenRecord, WriteRecord, Decide, OpenFinal, WriteFinal, To, procVars, askVars
    <2>2. QED
      BY <2>1, <1>b, <1>c DEF Loose, Live
  <1>5. ASSUME NEW r \in Runs, Wait(r) PROVE Calls' /\ Entries'
    BY <1>5, <1>b, <1>c DEF Wait, To, Reap, Loose, Live, askVars
  <1>6. ASSUME NEW r \in Runs, Leave(r) PROVE Calls' /\ Entries'
    BY <1>6, <1>b, <1>c DEF Leave, To, ProcInv, Over, Loose, Live, procVars, askVars
  <1>7. ASSUME NEW c \in Cancellers, NEW r \in Runs, CancelActive(c, r) PROVE Calls' /\ Entries'
    <2>1. Calls'
      BY <1>7, <1>a DEF CancelActive, Call, Calls
    <2>2. Entries'
      BY <1>7, <1>c DEF CancelActive, Reap, Loose, Live
    <2>3. QED
      BY <2>1, <2>2
  <1>8. ASSUME NEW c \in Cancellers, CancelRead(c) \/ CancelOpen(c) \/ CancelWrite(c) \/ CancelProbe(c)
                                      \/ (\E r \in Runs : CancelRecorded(c, r))
        PROVE Calls' /\ Entries'
    <2>1. Calls'
      BY <1>8, <1>a DEF CancelRead, CancelOpen, CancelWrite, CancelProbe, CancelRecorded, CancelTo, Call, Idle, Calls
    <2>2. UNCHANGED <<exec, active, proc>> /\ signalled \subseteq signalled'
      BY <1>8 DEF CancelRead, CancelOpen, CancelWrite, CancelProbe, CancelRecorded, taskVars, procVars
    <2>3. QED
      BY <2>1, <2>2, <1>c DEF Loose, Live
  <1>9. ASSUME NEW c \in Cancellers, CancelDrop(c) PROVE Calls' /\ Entries'
    <2>1. cancel[c].run \in signalled
      BY <1>9, <1>a DEF CancelDrop, Calls, TruthInv, TrueOf
    <2>2. Calls'
      BY <1>9, <1>a DEF CancelDrop, Idle, Calls
    <2>3. Entries'
      BY <1>9, <2>1, <1>c DEF CancelDrop, Loose, Live, procVars
    <2>4. QED
      BY <2>2, <2>3
  <1>10. ASSUME NEW d \in Readers, Read(d) PROVE Calls' /\ Entries'
    <2>1. UNCHANGED <<cancel, exec, active, proc, signalled>>
      BY <1>10 DEF Read, ReadStep, ReadRecord, Judge, CondemnOpen, CondemnWrite, taskVars, procVars
    <2>2. QED
      BY <2>1, <1>b, <1>c DEF Loose, Live
  <1>11. ASSUME NEW r \in Runs, Exit(r) \/ Recycle(r) PROVE Calls' /\ Entries'
    BY <1>11, <1>b, <1>c DEF Exit, Recycle, Loose, Live, taskVars, askVars
  <1>12. CASE PollActive
    <2>1. UNCHANGED <<cancel, exec, active, signalled>>
      BY <1>12 DEF PollActive, taskVars, askVars
    <2>2. \A q \in Runs : Live(q)' => Live(q)
      BY <1>12 DEF PollActive, Reap, Live
    <2>3. QED
      BY <2>1, <2>2, <1>b, <1>c, <1>d DEF Loose
  <1>13. CASE ServiceRestart
    <2>1. Calls'
      BY <1>13 DEF ServiceRestart, Idle, Calls
    <2>2. \A r \in Runs : Live(r)' => exec'[r] = "lost"
      BY <1>13 DEF ServiceRestart, Reap, Live, ProcInv, Over, Started
    <2>3. QED
      BY <2>1, <2>2, <1>d DEF Entries, Loose, Live
  <1>14. CASE UNCHANGED vars
    <2>1. UNCHANGED <<cancel, exec, active, signalled, proc>>
      BY <1>14 DEF vars
    <2>2. QED
      BY <2>1, <1>b, <1>c, <1>d DEF Loose, Live
  <1>15. QED
    BY <1>1, <1>2, <1>3, <1>4, <1>5, <1>6, <1>7, <1>8, <1>9, <1>10, <1>11, <1>12, <1>13, <1>14, <1>d
       DEF Next, Execute, Cancel, CancelStep

(* The record of a run whose supervisor is lost stays as it is while the   *)
(* benchmark runs on and nobody has told it to stop.                       *)
LEMMA LostKept ==
  ASSUME IInv, [Next]_vars, restarts' = restarts,
         NEW r \in Runs, exec'[r] = "lost", Loose(r)'
  PROVE  exec[r] = "lost" /\ Loose(r) /\ file'[r] = file[r]
  <1> USE DEF IInv, TypeOK, Loose
  <1>1. ASSUME NEW q \in Runs, Trigger(q) PROVE exec[r] = "lost" /\ Loose(r) /\ file'[r] = file[r]
    <2>1. exec'[q] # "lost" /\ UNCHANGED <<file, signalled>> /\ (Live(r)' => Live(r))
      BY <1>1, ZenonT(30) DEF Trigger, TriggerCheckMemory, TriggerCheckDisk, To, Reap, Live, procVars, askVars
    <2>2. \A p \in Runs \ {q} : exec'[p] = exec[p]
      BY <1>1 DEF Trigger, TriggerCheckMemory, TriggerCheckDisk, To
    <2>3. QED
      BY <2>1, <2>2
  <1>2. ASSUME NEW q \in Runs, Execute(q) PROVE exec[r] = "lost" /\ Loose(r) /\ file'[r] = file[r]
    <2>1. exec'[q] # "lost" /\ UNCHANGED signalled /\ \A p \in Runs \ {q} : exec'[p] = exec[p]
      BY <1>2 DEF Execute, Spawn, Register, Describe, OpenRecord, WriteRecord, Wait, Decide,
         OpenFinal, WriteFinal, Leave, To, procVars
    <2>2. \A p \in Runs \ {q} : file'[p] = file[p] /\ (Live(p)' => Live(p))
      BY <1>2 DEF Execute, Spawn, Register, Describe, OpenRecord, WriteRecord, Wait, Decide,
         OpenFinal, WriteFinal, Leave, Truncate, Flush, Reap, Live, procVars
    <2>3. QED
      BY <2>1, <2>2
  <1>3. ASSUME NEW c \in Cancellers, Cancel(c) PROVE exec[r] = "lost" /\ Loose(r) /\ file'[r] = file[r]
    <2>1. UNCHANGED exec /\ signalled \subseteq signalled' /\ (Live(r)' => Live(r))
      BY <1>3 DEF Cancel, CancelStep, CancelActive, CancelRead, CancelOpen, CancelWrite, CancelDrop,
         CancelRecorded, CancelProbe, Reap, Live, taskVars, procVars
    <2>2. file'[r] = file[r]
      <3>1. CASE CancelOpen(c) \/ CancelWrite(c)
        <4>1. cancel[c].run \in Runs /\ ~Loose(cancel[c].run)
          BY <3>1, ThreadRuns DEF CancelOpen, CancelWrite, TruthInv, TrueOf, Over, Live
        <4>2. \A q \in Runs : q # cancel[c].run => file'[q] = file[q]
          BY <3>1 DEF CancelOpen, CancelWrite, Truncate, Flush
        <4>3. QED
          BY <4>1, <4>2, <2>1
      <3>2. CASE UNCHANGED file
        BY <3>2
      <3>3. QED
        BY <1>3, <3>1, <3>2 DEF Cancel, CancelStep, CancelActive, CancelRead, CancelDrop, CancelRecorded, CancelProbe
    <2>3. QED
      BY <2>1, <2>2
  <1>4. ASSUME NEW d \in Readers, Read(d) PROVE exec[r] = "lost" /\ Loose(r) /\ file'[r] = file[r]
    <2>1. UNCHANGED <<exec, proc, signalled>>
      BY <1>4 DEF Read, ReadStep, ReadRecord, Judge, CondemnOpen, CondemnWrite, taskVars, procVars
    <2>2. file'[r] = file[r]
      <3>1. CASE CondemnOpen(d) \/ CondemnWrite(d)
        <4>1. reader[d].run \in Runs /\ ~Live(reader[d].run)
          BY <3>1, ThreadRuns DEF CondemnOpen, CondemnWrite, TruthInv, Over, Live
        <4>2. \A q \in Runs : q # reader[d].run => file'[q] = file[q]
          BY <3>1 DEF CondemnOpen, CondemnWrite, Truncate, Flush
        <4>3. QED
          BY <4>1, <4>2, <2>1 DEF Live
      <3>2. CASE UNCHANGED file
        BY <3>2
      <3>3. QED
        BY <1>4, <3>1, <3>2 DEF Read, ReadStep, ReadRecord, Judge
    <2>3. QED
      BY <2>1, <2>2 DEF Live
  <1>5. ASSUME NEW q \in Runs, Exit(q) \/ Recycle(q) PROVE exec[r] = "lost" /\ Loose(r) /\ file'[r] = file[r]
    BY <1>5 DEF Exit, Recycle, Live, taskVars, askVars
  <1>6. CASE PollActive
    BY <1>6 DEF PollActive, Reap, Live, taskVars
  <1>7. CASE ServiceRestart
    BY <1>7, RestartsBound DEF ServiceRestart
  <1>8. CASE UNCHANGED vars
    BY <1>8 DEF vars, Live
  <1>9. QED
    BY <1>1, <1>2, <1>3, <1>4, <1>5, <1>6, <1>7, <1>8 DEF Next

(* A stream that is about to ask ACTIVE_RUNS about a benchmark whose       *)
(* service was killed found no record of it.                               *)
ViewInv ==
  \A v \in Viewers, r \in Runs :
    viewer[v].pc = "polling" /\ viewer[v].run = r /\ exec[r] = "lost" /\ Loose(r) =>
      file[r] \in {"absent", "empty"}

LEMMA ViewStep == IInv /\ StreamTypeOK /\ ViewInv /\ [LNext]_lvars => ViewInv'
  <1> SUFFICES ASSUME IInv, StreamTypeOK, ViewInv, [LNext]_lvars,
                      NEW v \in Viewers, NEW r \in Runs,
                      viewer'[v].pc = "polling", viewer'[v].run = r, exec'[r] = "lost", Loose(r)'
               PROVE  file'[r] \in {"absent", "empty"}
    BY DEF ViewInv
  <1> USE DEF IInv, TypeOK
  <1>a. ASSUME UNCHANGED <<exec, file, signalled>>, Live(r)' => Live(r),
               viewer[v].pc = "polling", viewer[v].run = r
        PROVE  file'[r] \in {"absent", "empty"}
    BY <1>a DEF ViewInv, Loose
  <1>b. ASSUME NEW u \in Viewers, NEW s, StreamTo(u, s), s.pc # "polling" PROVE UNCHANGED viewer[v]
    BY <1>b DEF StreamTo, StreamTypeOK
  <1>1. CASE ServiceStep \/ UNCHANGED lvars
    <2>1. UNCHANGED <<viewer, restarts>> /\ [Next]_vars
      BY <1>1 DEF ServiceStep, Closed, Idle, lvars, vars
    <2>2. QED
      BY <2>1, LostKept DEF ViewInv
  <1>2. ASSUME NEW u \in Viewers, (\E q \in Runs : Follow(u, q)) \/ ReadToEnd(u) \/ HangUp(u)
        PROVE  file'[r] \in {"absent", "empty"}
    <2>1. UNCHANGED vars
      BY <1>2 DEF Follow, ReadToEnd, HangUp
    <2>2. UNCHANGED viewer[v]
      BY <1>2, <1>b DEF Follow, ReadToEnd, HangUp, Reading, Idle
    <2>3. QED
      BY <2>1, <2>2, <1>a DEF vars, Live
  <1>3. ASSUME NEW u \in Viewers, AskMemory(u) PROVE file'[r] \in {"absent", "empty"}
    <2>1. UNCHANGED viewer[v]
      BY <1>3, <1>b DEF AskMemory, Reading, Idle
    <2>2. UNCHANGED <<exec, file, signalled>> /\ (Live(r)' => Live(r))
      BY <1>3 DEF AskMemory, Reap, Live, vars, taskVars
    <2>3. QED
      BY <2>1, <2>2, <1>a
  <1>4. ASSUME NEW u \in Viewers, AskRecord(u) PROVE file'[r] \in {"absent", "empty"}
    <2>1. UNCHANGED vars
      BY <1>4 DEF AskRecord
    <2>2. CASE u # v
      <3>1. UNCHANGED viewer[v]
        BY <1>4, <2>2 DEF AskRecord, StreamTo, StreamTypeOK
      <3>2. QED
        BY <2>1, <3>1, <1>a DEF vars, Live
    <2>3. CASE u = v
      <3>1. viewer[v].run = r /\ (file[r] = "running" => FALSE \in SeenRunning(r))
        <4>1. PICK alive \in IF file[viewer[v].run] = "running" THEN SeenRunning(viewer[v].run) ELSE {FALSE} :
                viewer'[v] = IF alive THEN Reading(viewer[v].run) ELSE [viewer[v] EXCEPT !.pc = "polling"]
          BY <1>4, <2>3 DEF AskRecord, StreamTo, StreamTypeOK
        <4>2. alive = FALSE
          <5>1. alive \in BOOLEAN
            BY <4>1 DEF SeenRunning, Live
          <5>2. ~alive
            BY <4>1 DEF Reading
          <5>3. QED
            BY <5>1, <5>2
        <4>3. viewer'[v].run = viewer[v].run
          BY <1>4, <2>3, <4>1, <4>2, StreamRuns DEF AskRecord, PastEnd
        <4>4. QED
          BY <4>1, <4>2, <4>3
      <3>2. Loose(r) /\ file'[r] = file[r]
        BY <2>1 DEF vars, Loose, Live
      <3>3. file[r] # "running"
        BY <3>1, <3>2 DEF SeenRunning, Loose, Live
      <3>4. file[r] \notin {"completed", "failed", "cancelled", "corrupt"}
        BY <3>2 DEF TruthInv, TrueOf, ProcInv, Over, Loose, Live, LiveRecordSound
      <3>5. QED
        BY <3>2, <3>3, <3>4 DEF Content, Status, Final
    <2>4. QED
      BY <2>2, <2>3
  <1>5. ASSUME NEW q \in Runs, WriteLog(q) PROVE file'[r] \in {"absent", "empty"}
    <2>1. UNCHANGED vars
      BY <1>5 DEF WriteLog
    <2>2. viewer[v].pc = "polling" /\ viewer[v].run = r
      BY <1>5, StreamRuns DEF WriteLog, PastEnd
    <2>3. QED
      BY <2>1, <2>2, <1>a DEF vars, Live
  <1>6. QED
    BY <1>1, <1>2, <1>3, <1>4, <1>5 DEF LNext

(* What a stream announces is so, or the run is one that neither question  *)
(* can reach.                                                              *)
LEMMA EndStep ==
  ASSUME IInv, StreamTypeOK, TraceInv, ViewInv, [LNext]_lvars,
         NEW v \in Viewers, NEW r \in Runs, Announces(v, r), Live(r)
  PROVE  \/ r \in signalled
         \/ exec[r] = "spawned"
         \/ exec[r] = "lost" /\ file[r] \in {"absent", "empty"}
  <1> USE DEF Announces, StreamTypeOK
  <1>a. viewer'[v] # viewer[v] /\ viewer[v] # Idle
    BY DEF PastEnd, Idle
  <1>b. ASSUME NEW u \in Viewers, NEW s, StreamTo(u, s) PROVE u = v /\ s = Idle
    BY <1>a, <1>b DEF StreamTo
  <1>1. PICK u \in Viewers : AskMemory(u)
    <2>1. ~ServiceStep /\ ~UNCHANGED lvars
      BY <1>a DEF ServiceStep, lvars
    <2>2. ASSUME NEW q \in Runs, WriteLog(q) PROVE FALSE
      BY <2>2, StreamRuns DEF WriteLog, Idle
    <2>3. ASSUME NEW u \in Viewers, NEW q \in Runs, Follow(u, q) PROVE FALSE
      BY <2>3, <1>b DEF Follow, Reading, Idle
    <2>4. ASSUME NEW u \in Viewers, ReadToEnd(u) PROVE FALSE
      BY <2>4, <1>b DEF ReadToEnd, PastEnd
    <2>5. ASSUME NEW u \in Viewers, HangUp(u) PROVE FALSE
      BY <2>5, <1>b DEF HangUp, PastEnd
    <2>6. ASSUME NEW u \in Viewers, AskRecord(u) PROVE FALSE
      <3>1. PICK s : StreamTo(u, s) /\ (s = Reading(viewer[u].run) \/ s = [viewer[u] EXCEPT !.pc = "polling"])
        BY <2>6 DEF AskRecord
      <3>2. u = v /\ s = Idle
        BY <3>1, <1>b
      <3>3. s.pc # "idle"
        BY <3>1, <3>2, StreamRuns DEF Reading
      <3>4. QED
        BY <3>2, <3>3 DEF Idle
    <2>7. QED
      BY <2>1, <2>2, <2>3, <2>4, <2>5, <2>6 DEF LNext
  <1>2. viewer[v].pc = "polling" /\ viewer[v].run = r /\ r \notin active
    <2>1. u = v
      BY <1>1, <1>b DEF AskMemory
    <2>2. ~StreamTo(v, Reading(r))
      BY <1>b DEF Reading, Idle
    <2>3. QED
      BY <1>1, <2>1, <2>2 DEF AskMemory
  <1>3. r \in signalled \/ exec[r] \in {"spawned", "lost"}
    BY <1>2 DEF TraceInv, Loose
  <1>4. QED
    BY <1>2, <1>3 DEF ViewInv, Loose

(* When the dashboard says [PROCESS_COMPLETED] the benchmark has exited,   *)
(* was told to stop, or runs unseen: not yet registered, or orphaned       *)
(* before its first record.  However the two questions of the stream       *)
(* interleave with rewrites of the record, cancels and the supervisor.     *)
THEOREM EndAnnounced == LSpec => EndIsTheEnd
  <1> DEFINE Told == \A v \in Viewers, r \in Runs :
                       Announces(v, r) /\ Live(r) =>
                         \/ r \in signalled
                         \/ exec[r] = "spawned"
                         \/ exec[r] = "lost" /\ file[r] \in {"absent", "empty"}
  <1>1. LInit => TraceInv /\ ViewInv
    BY DEF LInit, Init, TraceInv, ViewInv, Loose, Live, Closed, Idle
  <1>2. IInv /\ TraceInv /\ [LNext]_lvars => TraceInv'
    BY StreamIsPoll, TraceStep DEF IInv
  <1>3. IInv /\ StreamTypeOK /\ ViewInv /\ [LNext]_lvars => ViewInv'
    BY ViewStep
  <1>4. IInv /\ StreamTypeOK /\ TraceInv /\ ViewInv /\ [LNext]_lvars => [Told]_lvars
    BY EndStep
  <1>5. QED
    BY <1>1, <1>2, <1>3, <1>4, StreamHarmless, StreamTypeCorrect, PTL DEF LSpec, EndIsTheEnd
=============================================================================
