-------------------------- MODULE SharedMachineProofs --------------------------
(***************************************************************************)
(* Proofs about SharedMachine, for any number of programs and commits, and *)
(* however often they are killed and started again.                        *)
(***************************************************************************)
EXTENDS SharedMachine, TLAPS

(* No more figures than iterations; a benchmark that succeeded is counted  *)
(* before the iteration is.                                                *)
Ran == {"check", "open", "finally", "unlink"}
Bounds ==
  \A p \in Progs :
    /\ pc[p] \in MMpc =>
         /\ iter[p] < Iterations
         /\ good[p] <= iter[p] + (IF pc[p] \in Ran THEN 1 ELSE 0)
    /\ \A o \in {Own, Foreign} : figures[p][o] <= iter[p]

TypeInv == TypeOK /\ Bounds

(* Where a program is, and what is not shared.                             *)
Local(q) == <<pc[q], orphans[q], left[q], iter[q], reading[q], figures[q], good[q],
              bare[q], loose[q], starved[q], tree[q], report[q], met[q]>>

Active(p) == pc[p] \notin Rest \/ orphans[p] > 0

-----------------------------------------------------------------------------
(* Types                                                                   *)

LEMMA TypeInit == Init => TypeInv
  <1> SUFFICES ASSUME Init PROVE TypeInv
    OBVIOUS
  <1>1. Iterations \in Nat /\ Restarts \in Nat /\ 0 \in 0..Iterations /\ 0 \in 0..Restarts
    BY MachineConstants
  <1>2. \A p \in Progs : pc[p] = "dead" /\ iter[p] = 0 /\ \A o \in {Own, Foreign} : figures[p][o] = 0
    BY DEF Init
  <1>3. TypeOK
    <2>1. /\ task \in [Progs -> {"mm", "quality"}] /\ want \in [Progs -> Commits \cup {"none"}]
          /\ \A p \in Progs : task[p] = "quality" => want[p] \in Commits
      BY DEF Init
    <2> QED BY <1>1, <2>1 DEF Init, TypeOK, Rest, MMpc, QApc
  <1>4. Bounds
    BY <1>2 DEF Bounds, MMpc
  <1> QED BY <1>3, <1>4 DEF TypeInv

(* What the actions of one program leave alone.                            *)
LEMMA ThroughputFrame ==
  ASSUME TypeOK, NEW p \in Progs, Throughput(p)
  PROVE  /\ UNCHANGED <<task, want, restarts, orphans, qaVars, met>>
         /\ \A q \in Progs \ {p} : UNCHANGED Local(q)
         /\ pc[p] \notin Rest \/ UNCHANGED <<pc, tmp, iter, reading, figures, good, bare>>
         /\ task[p] = "mm"
  <1> USE DEF TypeOK, Local, Goto, mmFrame, mmVars, qaVars, repo, Rest, History
  <1>1. CASE WaitForMemory(p) \/ Spawn(p) \/ EngineWrites(p)
    BY <1>1 DEF Throughput, WaitForMemory, Spawn, EngineWrites
  <1>2. CASE Succeeds(p)
    BY <1>2 DEF Throughput, Succeeds, Measured, EndsOfItself
  <1>3. CASE Errs(p)
    BY <1>3 DEF Throughput, Errs, Measured, EndsOfItself
  <1>4. CASE TimesOut(p) \/ EngineDies(p)
    BY <1>4 DEF Throughput, TimesOut, Measured, EngineDies
  <1>5. CASE FileThere(p) \/ FromStdout(p) \/ OpenFile(p) \/ SomethingToUnlink(p)
    BY <1>5 DEF Throughput, FileThere, FromStdout, OpenFile, SomethingToUnlink
  <1>6. CASE NothingToUnlink(p) \/ Unlink(p)
    BY <1>6 DEF Throughput, NothingToUnlink, Unlink, IterationEnds
  <1> QED BY <1>1, <1>2, <1>3, <1>4, <1>5, <1>6 DEF Throughput

LEMMA QualityFrame ==
  ASSUME TypeOK, NEW p \in Progs, Quality(p)
  PROVE  /\ UNCHANGED <<task, want, restarts, orphans, mmVars, met>>
         /\ \A q \in Progs \ {p} : UNCHANGED Local(q)
         /\ pc[p] \notin Rest
         /\ task[p] = "quality"
  <1> USE DEF TypeOK, Local, Goto, qaFrame, mmVars, History, repo, Rest
  <1>1. CASE Lock(p) \/ SetupFails(p) \/ Checkout(p) \/ Install(p) \/ Build(p)
    BY <1>1 DEF Quality, Lock, SetupFails, Checkout, Install, Build
  <1>2. CASE InstallOrBuildFails(p) \/ ServerFails(p) \/ ClearOutput(p) \/ MakeOutput(p)
    BY <1>2 DEF Quality, InstallOrBuildFails, Breaks, ServerFails, ClearOutput, MakeOutput
  <1>3. CASE Suite(p) \/ ReadSummary(p) \/ Tidy(p)
    BY <1>3 DEF Quality, Suite, ReadSummary, Tidy
  <1> QED BY <1>1, <1>2, <1>3 DEF Quality

(* What a life holds in memory.                                            *)
Memory(q) == <<iter[q], reading[q], figures[q], good[q], bare[q], starved[q], tree[q], report[q]>>

LEMMA ForgetType ==
  ASSUME TypeOK, NEW p \in Progs, Forget(p)
  PROVE  /\ iter' \in [Progs -> 0..Iterations] /\ good' \in [Progs -> 0..Iterations]
         /\ figures' \in [Progs -> [{Own, Foreign} -> 0..Iterations]]
         /\ reading' \in [Progs -> {"none", Own, Foreign}]
         /\ bare' \in [Progs -> BOOLEAN] /\ starved' \in [Progs -> BOOLEAN]
         /\ tree' \in [Progs -> {"none", "right", "wrong"}]
         /\ report' \in [Progs -> {"none", Own, Foreign}]
         /\ iter'[p] = 0 /\ good'[p] = 0 /\ \A o \in {Own, Foreign} : figures'[p][o] = 0
         /\ reading'[p] = "none" /\ ~bare'[p] /\ ~starved'[p]
         /\ tree'[p] = "none" /\ report'[p] = "none"
         /\ \A q \in Progs \ {p} : UNCHANGED Memory(q)
  <1>1. 0 \in 0..Iterations
    BY MachineConstants
  <1>2. /\ iter' \in [Progs -> 0..Iterations] /\ good' \in [Progs -> 0..Iterations]
        /\ iter'[p] = 0 /\ good'[p] = 0
    BY <1>1 DEF TypeOK, Forget
  <1>3. /\ figures' \in [Progs -> [{Own, Foreign} -> 0..Iterations]]
        /\ \A o \in {Own, Foreign} : figures'[p][o] = 0
    <2>1. figures' = [figures EXCEPT ![p] = [o \in {Own, Foreign} |-> 0]]
      BY DEF Forget
    <2>2. [o \in {Own, Foreign} |-> 0] \in [{Own, Foreign} -> 0..Iterations]
      BY <1>1
    <2>3. figures'[p] = [o \in {Own, Foreign} |-> 0]
      BY <2>1 DEF TypeOK
    <2> QED BY <2>1, <2>2, <2>3 DEF TypeOK
  <1>4. /\ reading' \in [Progs -> {"none", Own, Foreign}] /\ reading'[p] = "none"
        /\ bare' \in [Progs -> BOOLEAN] /\ ~bare'[p]
    BY DEF TypeOK, Forget
  <1>5. /\ starved' \in [Progs -> BOOLEAN] /\ ~starved'[p]
        /\ tree' \in [Progs -> {"none", "right", "wrong"}] /\ tree'[p] = "none"
    BY DEF TypeOK, Forget
  <1>6. report' \in [Progs -> {"none", Own, Foreign}] /\ report'[p] = "none"
    BY DEF TypeOK, Forget
  <1>7. \A q \in Progs \ {p} : UNCHANGED Memory(q)
    BY DEF TypeOK, Forget, Memory
  <1> QED BY <1>2, <1>3, <1>4, <1>5, <1>6, <1>7

LEMMA KilledFrame ==
  ASSUME TypeOK, NEW p \in Progs, Killed(p)
  PROVE  /\ UNCHANGED <<task, want, restarts, left, head, met>>
         /\ \A q \in Progs \ {p} : UNCHANGED Local(q)
         /\ pc[p] \notin Rest /\ pc'[p] = "dead"
  <1>1. Forget(p) /\ UNCHANGED <<task, want, restarts, left, head, met>> /\ pc[p] \notin Rest
    BY DEF Killed
  <1>2. \A q \in Progs \ {p} : UNCHANGED Memory(q)
    BY <1>1, ForgetType
  <1>3. /\ pc'[p] = "dead"
        /\ \A q \in Progs \ {p} : UNCHANGED <<pc[q], orphans[q], loose[q]>>
    BY DEF Killed, TypeOK
  <1> QED BY <1>1, <1>2, <1>3 DEF Local, Memory

LEMMA OrphanFrame ==
  ASSUME TypeOK, NEW p \in Progs, OrphanEnds(p)
  PROVE  /\ UNCHANGED <<task, want, pc, restarts, iter, reading, figures, good, History,
                        lock, repo, tree, report, botched, met>>
         /\ \A q \in Progs \ {p} : UNCHANGED Local(q)
         /\ orphans[p] > 0
         /\ IF task[p] = "mm" THEN UNCHANGED out ELSE UNCHANGED <<tmp, left>>
  BY DEF TypeOK, OrphanEnds, Local, History

LEMMA LaunchFrame ==
  ASSUME TypeOK, NEW p \in Progs, Launch(p)
  PROVE  /\ UNCHANGED <<task, want, orphans, tmp, left, lock, repo, out, botched>>
         /\ \A q \in Progs \ {p} :
              /\ UNCHANGED <<pc[q], loose[q], Memory(q)>>
              /\ met'[q] = (met[q] \/ q \in Busy(p))
         /\ pc[p] \in Rest /\ pc'[p] = Start(p)
         /\ loose'[p] = (left[p] + orphans[p] > 0)
         /\ met'[p] = (Busy(p) # {} \/ orphans[p] > 0)
  <1>1. \A q \in Progs \ {p} : met'[q] = (met[q] \/ q \in Busy(p))
    BY DEF Launch
  <1>2. met'[p] = (Busy(p) # {} \/ orphans[p] > 0)
    BY DEF Launch
  <1>3. Forget(p)
    BY DEF Launch
  <1>4. \A q \in Progs \ {p} : UNCHANGED <<pc[q], loose[q], Memory(q)>>
    BY <1>3, ForgetType DEF TypeOK, Launch
  <1>5. /\ UNCHANGED <<task, want, orphans, tmp, left, lock, repo, out, botched>>
        /\ pc[p] \in Rest /\ pc'[p] = Start(p)
        /\ loose'[p] = (left[p] + orphans[p] > 0)
    BY DEF TypeOK, Launch
  <1> QED BY <1>1, <1>2, <1>4, <1>5

(* The end of an iteration keeps the counts within their bounds.           *)
LEMMA IterationType ==
  ASSUME TypeInv, NEW p \in Progs, pc[p] \in {"finally", "unlink"}, task[p] = "mm",
         NEW r \in {"none", Own, Foreign}, IterationEnds(p, r)
  PROVE  /\ iter' \in [Progs -> 0..Iterations]
         /\ pc' \in [Progs -> Rest \cup MMpc \cup QApc]
         /\ figures' \in [Progs -> [{Own, Foreign} -> 0..Iterations]]
         /\ reading' \in [Progs -> {"none", Own, Foreign}]
         /\ pc'[p] \in {"spawn", "done"} /\ (pc'[p] = "spawn" => iter'[p] < Iterations)
         /\ iter'[p] = iter[p] + 1 /\ reading'[p] = "none"
         /\ \A o \in {Own, Foreign} :
              figures'[p][o] = IF o = r THEN figures[p][o] + 1 ELSE figures[p][o]
  <1>1. iter[p] \in Nat /\ iter[p] < Iterations /\ Iterations \in Nat
    BY MachineConstants DEF TypeInv, TypeOK, Bounds, MMpc
  <1>2. \A o \in {Own, Foreign} : figures[p][o] \in Nat /\ figures[p][o] <= iter[p]
    BY DEF TypeInv, TypeOK, Bounds
  <1>3. iter' \in [Progs -> 0..Iterations] /\ iter'[p] = iter[p] + 1
    <2>1. iter[p] + 1 \in 0..Iterations
      BY <1>1
    <2> QED BY <2>1 DEF IterationEnds, TypeInv, TypeOK
  <1>4. /\ pc' \in [Progs -> Rest \cup MMpc \cup QApc]
        /\ pc'[p] \in {"spawn", "done"} /\ (pc'[p] = "spawn" => iter[p] + 1 < Iterations)
    BY DEF IterationEnds, TypeInv, TypeOK, Rest, MMpc
  <1>5. reading' \in [Progs -> {"none", Own, Foreign}] /\ reading'[p] = "none"
    BY DEF IterationEnds, TypeInv, TypeOK
  <1>6. /\ figures' \in [Progs -> [{Own, Foreign} -> 0..Iterations]]
        /\ \A o \in {Own, Foreign} :
             figures'[p][o] = IF o = r THEN figures[p][o] + 1 ELSE figures[p][o]
    <2>1. CASE r = "none"
      BY <2>1 DEF IterationEnds, TypeInv, TypeOK, Own, Foreign
    <2>2. CASE r # "none"
      <3> DEFINE f == [figures[p] EXCEPT ![r] = @ + 1]
      <3>1. r \in {Own, Foreign} /\ figures[p] \in [{Own, Foreign} -> 0..Iterations]
        BY <2>2 DEF TypeInv, TypeOK
      <3>2. figures[p][r] + 1 \in 0..Iterations
        BY <1>1, <1>2, <3>1
      <3>3. f \in [{Own, Foreign} -> 0..Iterations]
        BY <3>1, <3>2
      <3>4. figures' = [figures EXCEPT ![p] = f]
        BY <2>2 DEF IterationEnds
      <3>5. figures'[p] = f
        BY <3>4 DEF TypeInv, TypeOK
      <3> QED BY <3>1, <3>3, <3>4, <3>5 DEF TypeInv, TypeOK
    <2> QED BY <2>1, <2>2
  <1> QED BY <1>1, <1>3, <1>4, <1>5, <1>6

LEMMA ThroughputType == ASSUME TypeInv, NEW p \in Progs, Throughput(p) PROVE TypeInv'
  <1>0. /\ UNCHANGED <<task, want, restarts, orphans, qaVars, met>>
        /\ \A q \in Progs \ {p} : UNCHANGED Local(q)
        /\ task[p] = "mm"
    BY ThroughputFrame DEF TypeInv
  <1>1. UNCHANGED <<lock, head, stamp, installed, built, out, tree, report, botched>>
    BY <1>0 DEF qaVars, repo
  <1>2. SUFFICES
          /\ pc' \in [Progs -> Rest \cup MMpc \cup QApc] /\ pc'[p] \notin QApc
          /\ tmp' \in Progs \cup {"none", Stale}
          /\ left' \in [Progs -> Nat]
          /\ iter' \in [Progs -> 0..Iterations]
          /\ reading' \in [Progs -> {"none", Own, Foreign}]
          /\ figures' \in [Progs -> [{Own, Foreign} -> 0..Iterations]]
          /\ good' \in [Progs -> 0..Iterations]
          /\ bare' \in [Progs -> BOOLEAN]
          /\ loose' \in [Progs -> BOOLEAN] /\ starved' \in [Progs -> BOOLEAN]
          /\ pc'[p] \in MMpc =>
               iter'[p] < Iterations /\ good'[p] <= iter'[p] + (IF pc'[p] \in Ran THEN 1 ELSE 0)
          /\ \A o \in {Own, Foreign} : figures'[p][o] <= iter'[p]
    <2>1. TypeOK'
      <3>1. \A q \in Progs : pc'[q] \notin IF task'[q] = "mm" THEN QApc ELSE MMpc
        BY <1>0, <1>2 DEF TypeInv, TypeOK, Local
      <3>2. /\ task' \in [Progs -> {"mm", "quality"}] /\ want' \in [Progs -> Commits \cup {"none"}]
            /\ \A q \in Progs : task'[q] = "quality" => want'[q] \in Commits
            /\ orphans' \in [Progs -> Nat] /\ restarts' \in 0..Restarts /\ tree' \in [Progs -> {"none", "right", "wrong"}]
            /\ report' \in [Progs -> {"none", Own, Foreign}] /\ met' \in [Progs -> BOOLEAN]
        BY <1>0, <1>1 DEF TypeInv, TypeOK
      <3>3. /\ lock' \in Progs \cup {"none"}
            /\ head' \in Commits \cup {"none"} /\ stamp' \in Commits \cup {"none"}
            /\ installed' \in Commits \cup {"none", "mixed"}
            /\ built' \in Commits \cup {"none", "mixed"}
            /\ out' \in Progs \cup {"absent", "empty", Stale} /\ botched' \in BOOLEAN
        BY <1>1 DEF TypeInv, TypeOK
      <3> QED BY <1>2, <3>1, <3>2, <3>3 DEF TypeOK
    <2>2. Bounds'
      BY <1>0, <1>2 DEF TypeInv, Bounds, Local
    <2> QED BY <2>1, <2>2 DEF TypeInv
  <1>3. \A q \in Progs : iter[q] \in Nat /\ good[q] \in Nat /\ Iterations \in Nat
    BY MachineConstants DEF TypeInv, TypeOK
  <1>10. CASE NothingToUnlink(p) \/ Unlink(p)
    <2>1. PICK r \in {"none", Own, Foreign} : IterationEnds(p, r)
      BY <1>10 DEF NothingToUnlink, Unlink, TypeInv, TypeOK
    <2>2. /\ pc[p] \in {"finally", "unlink"} /\ tmp' \in {tmp, "none"}
          /\ UNCHANGED <<left, good, History>>
      BY <1>10 DEF NothingToUnlink, Unlink
    <2>3. good[p] <= iter[p] + 1 /\ \A o \in {Own, Foreign} : figures[p][o] \in Nat /\ figures[p][o] <= iter[p]
      BY <1>3, <2>2 DEF TypeInv, TypeOK, Bounds, MMpc, Ran
    <2>4. /\ iter' \in [Progs -> 0..Iterations]
          /\ pc' \in [Progs -> Rest \cup MMpc \cup QApc]
          /\ figures' \in [Progs -> [{Own, Foreign} -> 0..Iterations]]
          /\ reading' \in [Progs -> {"none", Own, Foreign}]
          /\ pc'[p] \in {"spawn", "done"} /\ (pc'[p] = "spawn" => iter'[p] < Iterations)
          /\ iter'[p] = iter[p] + 1
          /\ \A o \in {Own, Foreign} :
               figures'[p][o] = IF o = r THEN figures[p][o] + 1 ELSE figures[p][o]
      BY <1>0, <2>1, <2>2, IterationType
    <2>5. \A o \in {Own, Foreign} : figures'[p][o] <= iter'[p]
      BY <1>3, <2>3, <2>4
    <2>6. pc'[p] \notin QApc /\ pc'[p] \notin Ran /\ (pc'[p] \in MMpc => pc'[p] = "spawn")
      BY <2>4 DEF QApc, MMpc, Ran
    <2>7. /\ tmp' \in Progs \cup {"none", Stale} /\ left' \in [Progs -> Nat]
          /\ good' \in [Progs -> 0..Iterations] /\ good'[p] <= iter'[p]
          /\ bare' \in [Progs -> BOOLEAN]
          /\ loose' \in [Progs -> BOOLEAN] /\ starved' \in [Progs -> BOOLEAN]
      BY <2>2, <2>3, <2>4 DEF TypeInv, TypeOK, History
    <2>8. pc'[p] \in MMpc =>
            iter'[p] < Iterations /\ good'[p] <= iter'[p] + (IF pc'[p] \in Ran THEN 1 ELSE 0)
      <3>1. iter'[p] \in Nat /\ good'[p] \in Nat
        BY <2>4, <2>7, <1>3
      <3> QED BY <2>4, <2>6, <2>7, <3>1
    <2> QED BY <2>4, <2>5, <2>6, <2>7, <2>8
  <1>11. ASSUME NEW to \in {"check", "finally"}, Measured(p, to), EndsOfItself(p) \/ UNCHANGED <<left, loose>>
         PROVE  /\ pc' \in [Progs -> Rest \cup MMpc \cup QApc] /\ pc'[p] = to
                /\ to \in MMpc /\ to \in Ran /\ to \notin QApc
                /\ left' \in [Progs -> Nat] /\ loose' \in [Progs -> BOOLEAN]
                /\ iter[p] < Iterations /\ good[p] <= iter[p]
    <2>1. /\ pc[p] \in {"running", "written"} /\ pc' = [pc EXCEPT ![p] = to]
          /\ to \in MMpc /\ to \in Ran /\ to \notin QApc
      BY <1>11 DEF Measured, Goto, MMpc, QApc, Ran
    <2>2. left' \in [Progs -> Nat] /\ loose' \in [Progs -> BOOLEAN]
      <3>1. left \in [Progs -> Nat] /\ loose \in [Progs -> BOOLEAN] /\ left[p] + 1 \in Nat
        BY DEF TypeInv, TypeOK
      <3>2. CASE UNCHANGED <<left, loose>>
        BY <3>1, <3>2
      <3>3. CASE /\ left' = [left EXCEPT ![p] = @ + 1]
                 /\ loose' = [loose EXCEPT ![p] = TRUE]
        BY <3>1, <3>3
      <3> QED BY <1>11, <3>2, <3>3 DEF EndsOfItself
    <2>3. iter[p] < Iterations /\ good[p] <= iter[p]
      BY <1>3, <2>1 DEF TypeInv, Bounds, MMpc, Ran
    <2> QED BY <2>1, <2>2, <2>3 DEF TypeInv, TypeOK
  <1>12. \A o \in {Own, Foreign} : figures[p][o] <= iter[p]
    BY DEF TypeInv, Bounds
  <1>5. CASE Succeeds(p)
    <2>1. /\ Measured(p, "check") /\ EndsOfItself(p)
          /\ UNCHANGED <<tmp, iter, reading, figures, starved>>
      BY <1>5 DEF Succeeds
    <2>2. good[p] + 1 \in 0..Iterations /\ good[p] + 1 <= iter[p] + 1
      BY <1>3, <1>11, <2>1, SMTT(30)
    <2>3. good' \in [Progs -> 0..Iterations] /\ good'[p] = good[p] + 1
      BY <1>5, <2>2 DEF Succeeds, TypeInv, TypeOK
    <2>4. bare' \in [Progs -> BOOLEAN]
      BY <1>5 DEF Succeeds, TypeInv, TypeOK
    <2> QED BY <1>11, <1>12, <2>1, <2>2, <2>3, <2>4 DEF TypeInv, TypeOK
  <1>6. CASE Errs(p)
    <2>1. /\ Measured(p, "finally") /\ EndsOfItself(p)
          /\ UNCHANGED <<tmp, iter, reading, figures, good, bare>>
      BY <1>6 DEF Errs
    <2>2. starved' \in [Progs -> BOOLEAN]
      BY <1>6 DEF Errs, TypeInv, TypeOK
    <2>3. good'[p] <= iter'[p] + 1
      BY <1>3, <1>11, <2>1
    <2> QED BY <1>11, <1>12, <2>1, <2>2, <2>3 DEF TypeInv, TypeOK
  <1>13. CASE TimesOut(p)
    <2>1. /\ Measured(p, "finally")
          /\ UNCHANGED <<tmp, left, iter, reading, figures, good, bare, loose, starved>>
      BY <1>13 DEF TimesOut, mmVars
    <2>3. good'[p] <= iter'[p] + 1
      BY <1>3, <1>11, <2>1
    <2> QED BY <1>11, <1>12, <2>1, <2>3 DEF TypeInv, TypeOK
  <1>7. CASE EngineDies(p)
    <2>1. /\ UNCHANGED <<pc, tmp, iter, reading, figures, good, bare, loose, starved>>
          /\ left[p] > 0 /\ left' = [left EXCEPT ![p] = @ - 1]
      BY <1>7 DEF EngineDies, History
    <2>2. left' \in [Progs -> Nat]
      BY <2>1 DEF TypeInv, TypeOK
    <2>3. pc[p] \notin QApc
      BY <1>0 DEF TypeInv, TypeOK
    <2> QED BY <2>1, <2>2, <2>3 DEF TypeInv, TypeOK, Bounds
  <1> USE DEF TypeInv, TypeOK, Bounds, Goto, Rest, MMpc, QApc, Ran
  <1>4. CASE WaitForMemory(p) \/ Spawn(p) \/ EngineWrites(p)
    BY <1>3, <1>4, ZenonT(30) DEF WaitForMemory, Spawn, EngineWrites, mmVars, History
  <1>8. CASE FileThere(p) \/ FromStdout(p) \/ SomethingToUnlink(p)
    BY <1>3, <1>8, ZenonT(30) DEF FileThere, FromStdout, SomethingToUnlink, mmVars, History
  <1>9. CASE OpenFile(p)
    BY <1>3, <1>9 DEF OpenFile, History
  <1> QED BY <1>4, <1>5, <1>6, <1>7, <1>8, <1>9, <1>10, <1>13 DEF Throughput

LEMMA QualityType == ASSUME TypeInv, NEW p \in Progs, Quality(p) PROVE TypeInv'
  <1>0. /\ UNCHANGED <<task, want, restarts, orphans, tmp, left, iter, reading, figures, good,
                       bare, loose, starved, met>>
        /\ \A q \in Progs \ {p} : UNCHANGED Local(q)
        /\ task[p] = "quality"
    BY QualityFrame DEF TypeInv, mmVars
  <1>1. SUFFICES
          /\ pc' \in [Progs -> Rest \cup MMpc \cup QApc] /\ pc'[p] \notin MMpc
          /\ lock' \in Progs \cup {"none"}
          /\ head' \in Commits \cup {"none"} /\ stamp' \in Commits \cup {"none"}
          /\ installed' \in Commits \cup {"none", "mixed"}
          /\ built' \in Commits \cup {"none", "mixed"}
          /\ out' \in Progs \cup {"absent", "empty", Stale}
          /\ tree' \in [Progs -> {"none", "right", "wrong"}]
          /\ report' \in [Progs -> {"none", Own, Foreign}]
          /\ botched' \in BOOLEAN
    <2>1. TypeOK'
      BY <1>0, <1>1 DEF TypeInv, TypeOK, Local
    <2>2. Bounds'
      BY <1>0, <1>1 DEF TypeInv, Bounds, Local
    <2> QED BY <2>1, <2>2 DEF TypeInv
  <1>2. TypeOK /\ want[p] \in Commits
    BY <1>0 DEF TypeInv, TypeOK
  <1> USE DEF TypeOK, Goto, Rest, MMpc, QApc, repo
  <1>3. CASE Lock(p) \/ SetupFails(p) \/ ServerFails(p) \/ ClearOutput(p) \/ Tidy(p)
    BY <1>2, <1>3, ZenonT(30) DEF Lock, SetupFails, ServerFails, ClearOutput, Tidy
  <1>4. CASE Checkout(p)
    BY <1>2, <1>4, ZenonT(30) DEF Checkout
  <1>5. CASE Install(p) \/ Build(p)
    BY <1>2, <1>5, ZenonT(30) DEF Install, Build
  <1>6. CASE InstallOrBuildFails(p)
    BY <1>2, <1>6 DEF InstallOrBuildFails, Breaks
  <1>7. CASE MakeOutput(p)
    <2>0. /\ pc \in [Progs -> Rest \cup MMpc \cup QApc] /\ pc[p] = "mkdir"
          /\ \E to \in {"suite", "tidy"} : pc' = [pc EXCEPT ![p] = to]
      BY <1>2, <1>7 DEF MakeOutput
    <2>1. pc'[p] \notin MMpc /\ pc' \in [Progs -> Rest \cup MMpc \cup QApc]
      <3>1. PICK to \in {"suite", "tidy"} : pc' = [pc EXCEPT ![p] = to]
        BY <2>0
      <3>2. pc'[p] = to /\ to \in QApc /\ to \notin MMpc
        BY <2>0, <3>1
      <3> QED BY <2>0, <3>1, <3>2
    <2>2. out' \in Progs \cup {"absent", "empty", Stale}
      BY <1>2, <1>7 DEF MakeOutput
    <2>3. UNCHANGED <<lock, head, stamp, installed, built, tree, report, botched>>
      BY <1>7 DEF MakeOutput
    <2> QED BY <1>2, <2>1, <2>2, <2>3
  <1>10. CASE ReadSummary(p)
    BY <1>2, <1>10 DEF ReadSummary
  <1>8. CASE Suite(p)
    BY <1>2, <1>8 DEF Suite
  <1> QED BY <1>3, <1>4, <1>5, <1>6, <1>7, <1>8, <1>10 DEF Quality

LEMMA TypeStep == TypeInv /\ [Next]_machine => TypeInv'
  <1> SUFFICES ASSUME TypeInv, [Next]_machine PROVE TypeInv'
    OBVIOUS
  <1>1. CASE UNCHANGED machine
    BY <1>1, ZenonT(30) DEF machine, mmVars, qaVars, repo, TypeInv, TypeOK, Bounds
  <1>0. TypeOK
    BY DEF TypeInv
  <1>2. ASSUME NEW p \in Progs, Killed(p) PROVE TypeInv'
    <2>1. /\ pc' \in [Progs -> Rest \cup MMpc \cup QApc]
          /\ pc'[p] = "dead" /\ \A q \in Progs \ {p} : pc'[q] = pc[q]
      BY <1>2 DEF Killed, TypeInv, TypeOK, Rest
    <2>2. tmp' \in Progs \cup {"none", Stale} /\ lock' \in Progs \cup {"none"}
      BY <1>2 DEF Killed, TypeInv, TypeOK
    <2>3. out' \in Progs \cup {"absent", "empty", Stale} /\ orphans' \in [Progs -> Nat]
      BY <1>2 DEF Killed, TypeInv, TypeOK
    <2>4. /\ installed' \in Commits \cup {"none", "mixed"} /\ built' \in Commits \cup {"none", "mixed"}
          /\ stamp' \in Commits \cup {"none"} /\ botched' \in BOOLEAN
      BY <1>2 DEF Killed, Breaks, TypeInv, TypeOK
    <2>5. Forget(p) /\ UNCHANGED <<task, want, restarts, left, head, met>>
      BY <1>2 DEF Killed
    <2>6. loose' \in [Progs -> BOOLEAN]
      BY <1>2 DEF Killed, TypeInv, TypeOK
    <2>7. \A q \in Progs : pc'[q] \notin IF task'[q] = "mm" THEN QApc ELSE MMpc
      BY <2>1, <2>5 DEF TypeInv, TypeOK, MMpc, QApc
    <2>8. TypeOK'
      BY <1>0, <2>1, <2>2, <2>3, <2>4, <2>5, <2>6, <2>7, ForgetType DEF TypeOK
    <2>9. Bounds'
      <3>1. /\ iter'[p] = 0 /\ \A o \in {Own, Foreign} : figures'[p][o] = 0
            /\ \A q \in Progs \ {p} : UNCHANGED Memory(q)
        BY <1>0, <2>5, ForgetType
      <3>2. pc'[p] \notin MMpc
        BY <2>1 DEF MMpc
      <3> QED BY <2>1, <3>1, <3>2 DEF TypeInv, Bounds, Memory
    <2> QED BY <2>8, <2>9 DEF TypeInv
  <1>3. ASSUME NEW p \in Progs, OrphanEnds(p) PROVE TypeInv'
    <2>1. UNCHANGED <<task, want, pc, restarts, iter, reading, figures, good, bare, loose, starved,
                      lock, head, stamp, installed, built, tree, report, botched, met>>
      BY <1>3 DEF OrphanEnds, History, repo
    <2>2. orphans' \in [Progs -> Nat]
      BY <1>3, <1>0 DEF OrphanEnds, TypeOK
    <2>3. tmp' \in Progs \cup {"none", Stale} /\ out' \in Progs \cup {"absent", "empty", Stale}
      BY <1>3, <1>0 DEF OrphanEnds, TypeOK
    <2>4. left' \in [Progs -> Nat]
      BY <1>3, <1>0 DEF OrphanEnds, TypeOK
    <2>5. TypeOK'
      BY <1>0, <2>1, <2>2, <2>3, <2>4, ZenonT(30) DEF TypeOK
    <2> QED BY <2>1, <2>5 DEF TypeInv, Bounds
  <1>4. ASSUME NEW p \in Progs, Launch(p) PROVE TypeInv'
    <2>1. /\ pc' \in [Progs -> Rest \cup MMpc \cup QApc] /\ pc'[p] = Start(p)
          /\ \A q \in Progs \ {p} : pc'[q] = pc[q]
      BY <1>4, <1>0 DEF Launch, TypeOK, Start, MMpc, QApc
    <2>2. restarts' \in 0..Restarts
      BY <1>4, <1>0, MachineConstants DEF Launch, TypeOK
    <2>3. /\ Forget(p)
          /\ UNCHANGED <<task, want, orphans, tmp, left, lock, head, stamp, installed, built, out, botched>>
      BY <1>4 DEF Launch, repo
    <2>4. loose' \in [Progs -> BOOLEAN]
      BY <1>4, <1>0 DEF Launch, TypeOK
    <2>5. met' \in [Progs -> BOOLEAN]
      BY <1>4, <1>0 DEF Launch, TypeOK
    <2>6. \A q \in Progs : pc'[q] \notin IF task'[q] = "mm" THEN QApc ELSE MMpc
      BY <1>0, <2>1, <2>3 DEF Start, TypeOK, MMpc, QApc
    <2>7. TypeOK'
      <3>1. /\ iter' \in [Progs -> 0..Iterations] /\ good' \in [Progs -> 0..Iterations]
            /\ figures' \in [Progs -> [{Own, Foreign} -> 0..Iterations]]
            /\ reading' \in [Progs -> {"none", Own, Foreign}]
            /\ bare' \in [Progs -> BOOLEAN] /\ starved' \in [Progs -> BOOLEAN]
            /\ tree' \in [Progs -> {"none", "right", "wrong"}]
            /\ report' \in [Progs -> {"none", Own, Foreign}]
        BY <1>0, <2>3, ForgetType
      <3>2. /\ task' \in [Progs -> {"mm", "quality"}] /\ want' \in [Progs -> Commits \cup {"none"}]
            /\ \A q \in Progs : task'[q] = "quality" => want'[q] \in Commits
            /\ orphans' \in [Progs -> Nat] /\ tmp' \in Progs \cup {"none", Stale}
            /\ left' \in [Progs -> Nat] /\ lock' \in Progs \cup {"none"}
        BY <1>0, <2>3 DEF TypeOK
      <3>3. /\ head' \in Commits \cup {"none"} /\ stamp' \in Commits \cup {"none"}
            /\ installed' \in Commits \cup {"none", "mixed"}
            /\ built' \in Commits \cup {"none", "mixed"}
            /\ out' \in Progs \cup {"absent", "empty", Stale} /\ botched' \in BOOLEAN
        BY <1>0, <2>3 DEF TypeOK
      <3> QED BY <2>1, <2>2, <2>4, <2>5, <2>6, <3>1, <3>2, <3>3 DEF TypeOK
    <2>8. Bounds'
      <3>1. /\ iter'[p] = 0 /\ good'[p] = 0 /\ \A o \in {Own, Foreign} : figures'[p][o] = 0
            /\ \A q \in Progs \ {p} : UNCHANGED Memory(q)
        BY <1>0, <2>3, ForgetType
      <3>2. 0 < Iterations
        BY MachineConstants
      <3>3. pc'[p] \notin Ran
        BY <2>1 DEF Start, Ran
      <3> QED BY <2>1, <3>1, <3>2, <3>3 DEF TypeInv, Bounds, Memory
    <2> QED BY <2>7, <2>8 DEF TypeInv
  <1> QED BY <1>1, <1>2, <1>3, <1>4, ThroughputType, QualityType DEF Next

(* Every variable keeps its type, and no program returns more figures than *)
(* iterations.                                                             *)
THEOREM TypeCorrect == Spec => []TypeInv
  <1> QED BY TypeInit, TypeStep, PTL DEF Spec

-----------------------------------------------------------------------------
(* Engines                                                                 *)

(* In a life that is under way every engine that outlived its benchmark,   *)
(* and every orphan, is accounted for: nothing is left by a timeout.       *)
Accounted ==
  \A p \in Progs :
    /\ pc[p] # "dead" /\ left[p] + orphans[p] > 0 => loose[p]
    /\ starved[p] => loose[p] /\ pc[p] # "dead"

LEMMA AccountedStep == TypeInv /\ Accounted /\ [Next]_machine => Accounted'
  <1> SUFFICES ASSUME TypeInv, Accounted, [Next]_machine PROVE Accounted'
    OBVIOUS
  <1> DEFINE Acc(q) == /\ pc[q] # "dead" /\ left[q] + orphans[q] > 0 => loose[q]
                       /\ starved[q] => loose[q] /\ pc[q] # "dead"
  <1>0. TypeOK
    BY DEF TypeInv
  <1>1. CASE UNCHANGED machine
    BY <1>1 DEF machine, mmVars, Accounted
  <1>2. ASSUME NEW p \in Progs, Throughput(p) PROVE Accounted'
    <2>1. \A q \in Progs \ {p} : Acc(q)'
      BY <1>0, <1>2, ThroughputFrame DEF Local, Accounted
    <2>2. /\ orphans' = orphans /\ left[p] \in Nat /\ orphans[p] \in Nat
          /\ pc \in [Progs -> Rest \cup MMpc \cup QApc] /\ left \in [Progs -> Nat]
          /\ loose \in [Progs -> BOOLEAN] /\ starved \in [Progs -> BOOLEAN] /\ Acc(p)
      BY <1>0, <1>2, ThroughputFrame DEF TypeOK, Accounted
    <2>3. Acc(p)'
      <3> USE DEF Goto, mmVars, History
      <3>1. CASE WaitForMemory(p) \/ Spawn(p) \/ EngineWrites(p)
        BY <2>2, <3>1 DEF WaitForMemory, Spawn, EngineWrites
      <3>2. CASE TimesOut(p)
        BY <2>2, <3>2 DEF TimesOut, Measured
      <3>3. CASE Succeeds(p) \/ Errs(p)
        <4>1. /\ pc[p] \in {"running", "written"} /\ pc'[p] \in {"check", "finally"}
              /\ EndsOfItself(p)
              /\ starved'[p] => starved[p] \/ left[p] + orphans[p] > 0
          BY <2>2, <3>3 DEF Succeeds, Errs, Measured
        <4>2. loose[p] => loose'[p]
          BY <2>2, <4>1 DEF EndsOfItself
        <4>3. left'[p] = left[p] \/ loose'[p]
          BY <2>2, <4>1 DEF EndsOfItself
        <4> QED BY <2>2, <4>1, <4>2, <4>3
      <3>4. CASE EngineDies(p)
        BY <2>2, <3>4 DEF EngineDies
      <3>5. CASE FileThere(p) \/ FromStdout(p) \/ OpenFile(p) \/ SomethingToUnlink(p)
        BY <2>2, <3>5 DEF FileThere, FromStdout, OpenFile, SomethingToUnlink
      <3>6. CASE NothingToUnlink(p) \/ Unlink(p)
        <4>1. /\ pc[p] \in {"finally", "unlink"} /\ UNCHANGED <<left, loose, starved>>
              /\ pc'[p] \in {"spawn", "done"}
          BY <2>2, <3>6 DEF NothingToUnlink, Unlink, IterationEnds
        <4> QED BY <2>2, <4>1
      <3> QED BY <1>2, <3>1, <3>2, <3>3, <3>4, <3>5, <3>6 DEF Throughput
    <2> QED BY <2>1, <2>3 DEF Accounted
  <1>3. ASSUME NEW p \in Progs, Quality(p) PROVE Accounted'
    <2>1. /\ UNCHANGED <<orphans, left, loose, starved>> /\ pc[p] # "dead"
          /\ \A q \in Progs \ {p} : pc'[q] = pc[q]
      BY <1>0, <1>3, QualityFrame DEF Local, mmVars, Rest
    <2>2. pc'[p] # "dead"
      <3> USE DEF TypeOK, Goto, Quality
      <3>1. CASE Lock(p) \/ SetupFails(p) \/ Checkout(p) \/ Install(p) \/ Build(p)
        BY <1>0, <3>1, SMTT(30) DEF Lock, SetupFails, Checkout, Install, Build
      <3>2. CASE InstallOrBuildFails(p) \/ ServerFails(p) \/ ClearOutput(p) \/ MakeOutput(p)
        BY <1>0, <3>2 DEF InstallOrBuildFails, ServerFails, ClearOutput, MakeOutput
      <3>3. CASE Suite(p) \/ ReadSummary(p) \/ Tidy(p)
        BY <1>0, <3>3 DEF Suite, ReadSummary, Tidy
      <3> QED BY <1>3, <3>1, <3>2, <3>3
    <2> QED BY <2>1, <2>2 DEF Accounted
  <1>4. ASSUME NEW p \in Progs, Killed(p) PROVE Accounted'
    <2>1. \A q \in Progs \ {p} : Acc(q)'
      BY <1>0, <1>4, KilledFrame DEF Local, Accounted
    <2>2. pc'[p] = "dead"
      BY <1>0, <1>4, KilledFrame
    <2>3. ~starved'[p]
      BY <1>0, <1>4, ForgetType DEF Killed
    <2> QED BY <2>1, <2>2, <2>3 DEF Accounted
  <1>5. ASSUME NEW p \in Progs, OrphanEnds(p) PROVE Accounted'
    <2>1. UNCHANGED <<pc, loose, starved>> /\ orphans[p] > 0
          /\ \A q \in Progs \ {p} : UNCHANGED <<left[q], orphans[q]>>
      BY <1>0, <1>5, OrphanFrame DEF History, Local
    <2>2. orphans[p] \in Nat /\ left[p] \in Nat
      BY <1>0 DEF TypeOK
    <2>3. pc[p] # "dead" => loose[p]
      BY <2>1, <2>2 DEF Accounted
    <2> QED BY <2>1, <2>3 DEF Accounted
  <1>6. ASSUME NEW p \in Progs, Launch(p) PROVE Accounted'
    <2>1. /\ UNCHANGED <<left, orphans>> /\ loose'[p] = (left[p] + orphans[p] > 0)
          /\ \A q \in Progs \ {p} : UNCHANGED <<pc[q], loose[q], Memory(q)>>
      BY <1>0, <1>6, LaunchFrame
    <2>2. ~starved'[p]
      BY <1>0, <1>6, ForgetType DEF Launch
    <2>3. \A q \in Progs \ {p} : Acc(q)'
      BY <2>1 DEF Accounted, Memory
    <2> QED BY <2>1, <2>2, <2>3 DEF Accounted
  <1> QED BY <1>1, <1>2, <1>3, <1>4, <1>5, <1>6 DEF Next

LEMMA AccountedInit == Init => Accounted
  BY DEF Init, Accounted

(* A benchmark that fails beside the engine of an earlier one owes it to   *)
(* one that ended of itself, or to an earlier life of its program.         *)
THEOREM TimeoutsStarveNobody == Spec => []TimeoutStarvesNobody
  <1>1. Accounted => TimeoutStarvesNobody
    BY DEF Accounted, TimeoutStarvesNobody
  <1> QED BY <1>1, TypeInit, TypeStep, AccountedInit, AccountedStep, PTL DEF Spec

-----------------------------------------------------------------------------
(* Meeting another program                                                 *)

(* Two programs at the same kind of work know of each other, and a program *)
(* of the orphans of its earlier lives.                                    *)
Together ==
  /\ \A p, q \in Progs : p # q /\ task[p] = task[q] /\ Active(p) /\ Active(q) => met[p]
  /\ \A p \in Progs : pc[p] \notin Rest /\ orphans[p] > 0 => met[p]

LEMMA TogetherStep == TypeInv /\ Together /\ [Next]_machine => Together'
  <1> SUFFICES ASSUME TypeInv, Together, [Next]_machine PROVE Together'
    OBVIOUS
  <1>0. TypeOK
    BY DEF TypeInv
  <1>1. CASE UNCHANGED machine
    BY <1>1 DEF machine, Together, Active
  <1>2. ASSUME NEW p \in Progs, Throughput(p) \/ Quality(p) PROVE Together'
    <2>1. /\ UNCHANGED <<task, met, orphans>> /\ (pc[p] \notin Rest \/ pc' = pc)
          /\ \A q \in Progs \ {p} : pc'[q] = pc[q]
      BY <1>0, <1>2, ThroughputFrame, QualityFrame DEF Local
    <2>2. \A q \in Progs : (Active(q)' => Active(q)) /\ (pc'[q] \notin Rest => pc[q] \notin Rest)
      BY <2>1 DEF Active
    <2> QED BY <2>1, <2>2 DEF Together
  <1>3. ASSUME NEW p \in Progs, Killed(p) PROVE Together'
    <2>1. /\ UNCHANGED <<task, met>> /\ pc[p] \notin Rest /\ pc'[p] = "dead"
          /\ \A q \in Progs \ {p} : UNCHANGED <<pc[q], orphans[q]>>
      BY <1>0, <1>3, KilledFrame DEF Local
    <2>2. \A q \in Progs : Active(q)' => Active(q)
      BY <2>1 DEF Active
    <2>3. pc'[p] \in Rest
      BY <2>1 DEF Rest
    <2> QED BY <2>1, <2>2, <2>3 DEF Together
  <1>4. ASSUME NEW p \in Progs, OrphanEnds(p) PROVE Together'
    <2>1. /\ UNCHANGED <<task, met, pc>> /\ orphans[p] > 0
          /\ \A q \in Progs \ {p} : UNCHANGED orphans[q]
      BY <1>0, <1>4, OrphanFrame DEF Local
    <2>2. \A q \in Progs : (Active(q)' => Active(q)) /\ (orphans'[q] > 0 => orphans[q] > 0)
      BY <2>1 DEF Active
    <2> QED BY <2>1, <2>2 DEF Together
  <1>5. ASSUME NEW p \in Progs, Launch(p) PROVE Together'
    <2>1. /\ UNCHANGED <<task, orphans>>
          /\ \A q \in Progs \ {p} : pc'[q] = pc[q] /\ met'[q] = (met[q] \/ q \in Busy(p))
          /\ met'[p] = (Busy(p) # {} \/ orphans[p] > 0)
      BY <1>0, <1>5, LaunchFrame
    <2>2. \A q \in Progs \ {p} : task[q] = task[p] /\ Active(q) => q \in Busy(p)
      BY DEF Busy, Active
    <2>3. \A q \in Progs \ {p} : Active(q)' = Active(q)
      BY <2>1 DEF Active
    <2>4. ASSUME NEW r \in Progs, NEW q \in Progs, r # q, task[r] = task[q], Active(r)', Active(q)'
          PROVE  met'[r]
      <3>1. CASE r = p
        BY <2>1, <2>2, <2>3, <2>4, <3>1
      <3>2. CASE q = p
        BY <2>1, <2>2, <2>3, <2>4, <3>2
      <3>3. CASE r # p /\ q # p
        BY <2>1, <2>3, <2>4, <3>3 DEF Together
      <3> QED BY <3>1, <3>2, <3>3
    <2>5. ASSUME NEW r \in Progs, pc'[r] \notin Rest, orphans'[r] > 0
          PROVE  met'[r]
      BY <2>1, <2>5 DEF Together
    <2> QED BY <2>1, <2>4, <2>5 DEF Together
  <1> QED BY <1>1, <1>2, <1>3, <1>4, <1>5 DEF Next

LEMMA TogetherInit == Init => Together
  BY DEF Init, Together, Active, Rest

-----------------------------------------------------------------------------
(* A program that is alone                                                 *)

(* What an iteration reads was written by its own engine, unless it is the *)
(* first and its benchmark wrote nothing: the first unlinks what others    *)
(* have left.                                                              *)
OwnFile(p) ==
  /\ pc[p] = "written" => tmp = p
  /\ pc[p] \in {"open", "unlink"} => tmp # "none"
  /\ pc[p] \in {"check", "open"} => tmp \in {p, "none"} \/ bare[p]
  /\ pc[p] \in MMpc /\ iter[p] > 0 => tmp \in {p, "none"}

(* Until an iteration returns its figures nothing is kept of it.           *)
OwnFigures(p) ==
  /\ pc[p] \notin {"finally", "unlink"} => reading[p] = "none"
  /\ reading[p] = Foreign \/ figures[p][Foreign] > 0 => bare[p]
  /\ reading[p] = Foreign => iter[p] = 0
  /\ iter[p] = 0 => figures[p][Foreign] = 0
  /\ figures[p][Foreign] <= 1
  /\ good[p] = figures[p][Own] + figures[p][Foreign] +
                  (IF pc[p] \in {"check", "open"} \/ reading[p] # "none" THEN 1 ELSE 0)

AloneInv ==
  \A p \in Progs : ~met[p] =>
    /\ task[p] = "mm" => OwnFile(p) /\ OwnFigures(p)
    /\ task[p] = "quality" => reading[p] = "none" /\ figures[p][Foreign] = 0
    /\ report[p] # Foreign
    /\ pc[p] \in {"suite", "read"} => out \in {"absent", "empty", p}

LEMMA ThroughputAlone ==
  ASSUME TypeInv, Together, AloneInv, NEW p \in Progs, Throughput(p)
  PROVE  AloneInv'
  <1>0. TypeOK
    BY DEF TypeInv
  <1>1. /\ UNCHANGED <<task, qaVars, met>> /\ task[p] = "mm"
        /\ pc[p] \notin Rest \/ UNCHANGED <<pc, tmp, iter, reading, figures, good, bare>>
        /\ \A q \in Progs \ {p} : UNCHANGED Local(q)
    BY <1>0, ThroughputFrame
  <1>2. UNCHANGED <<report, out>>
    BY <1>1 DEF qaVars
  <1>3. ASSUME NEW q \in Progs \ {p}, ~met'[q]
        PROVE  /\ task'[q] = "mm" => OwnFile(q)' /\ OwnFigures(q)'
               /\ task'[q] = "quality" => reading'[q] = "none" /\ figures'[q][Foreign] = 0
               /\ report'[q] # Foreign
               /\ pc'[q] \in {"suite", "read"} => out' \in {"absent", "empty", q}
    <2>1. UNCHANGED <<pc[q], iter[q], reading[q], figures[q], good[q], bare[q], report[q], met[q], task[q]>>
      BY <1>1, <1>3 DEF Local
    <2>2. task[q] = "mm" => pc[q] \in Rest \/ tmp' = tmp
      BY <1>1, <1>3, <2>1 DEF Together, Active
    <2>3. task[q] = "mm" => OwnFile(q)'
      BY <1>3, <2>1, <2>2 DEF AloneInv, OwnFile, Rest, MMpc
    <2>4. task[q] = "mm" => OwnFigures(q)'
      BY <1>3, <2>1 DEF AloneInv, OwnFigures
    <2> QED BY <1>2, <1>3, <2>1, <2>3, <2>4 DEF AloneInv
  <1>4. ASSUME ~met'[p]
        PROVE  OwnFile(p)' /\ OwnFigures(p)'
    <2>0. OwnFile(p) /\ OwnFigures(p)
      BY <1>1, <1>4 DEF AloneInv
    <2>1. /\ good \in [Progs -> 0..Iterations] /\ good[p] \in Nat /\ figures[p][Own] \in Nat
          /\ figures[p][Foreign] \in Nat /\ iter[p] \in Nat
          /\ reading \in [Progs -> {"none", Own, Foreign}] /\ bare \in [Progs -> BOOLEAN]
          /\ pc \in [Progs -> Rest \cup MMpc \cup QApc] /\ p # "none"
      BY <1>0, MachineConstants DEF TypeOK, Own, Foreign
    <2> USE DEF OwnFile, OwnFigures, Goto, Own, Foreign, MMpc, mmVars, History
    <2>2. CASE WaitForMemory(p) \/ Spawn(p)
      BY <2>0, <2>1, <2>2 DEF WaitForMemory, Spawn
    <2>3. CASE EngineWrites(p)
      BY <2>0, <2>1, <2>3 DEF EngineWrites
    <2>4. CASE Succeeds(p)
      <3>1. /\ pc[p] \in {"running", "written"} /\ pc'[p] = "check" /\ UNCHANGED <<tmp, iter, reading, figures>>
            /\ good'[p] = good[p] + 1
            /\ bare'[p] = (bare[p] \/ (iter[p] = 0 /\ pc[p] = "running"))
        BY <2>1, <2>4 DEF Succeeds, Measured
      <3>2. reading[p] = "none" /\ iter'[p] = iter[p]
        BY <2>0, <3>1
      <3>3. tmp \in {p, "none"} \/ bare'[p]
        <4>1. CASE pc[p] = "written"
          BY <2>0, <4>1
        <4>2. CASE pc[p] = "running" /\ iter[p] = 0
          BY <3>1, <4>2
        <4>3. CASE pc[p] = "running" /\ iter[p] > 0
          BY <2>0, <4>3
        <4> QED BY <2>1, <3>1, <4>1, <4>2, <4>3
      <3>4. OwnFile(p)'
        BY <2>0, <2>1, <3>1, <3>3
      <3>5. OwnFigures(p)'
        BY <2>0, <2>1, <3>1, <3>2
      <3> QED BY <3>4, <3>5
    <2>5. CASE Errs(p)
      BY <2>0, <2>1, <2>5 DEF Errs, Measured
    <2>6. CASE TimesOut(p)
      BY <2>0, <2>1, <2>6 DEF TimesOut, Measured
    <2>7. CASE EngineDies(p)
      BY <2>0, <2>7 DEF EngineDies
    <2>8. CASE FileThere(p) \/ SomethingToUnlink(p)
      BY <2>0, <2>1, <2>8 DEF FileThere, SomethingToUnlink
    <2>9. CASE FromStdout(p)
      BY <2>0, <2>1, <2>9 DEF FromStdout
    <2>10. CASE OpenFile(p)
      <3>1. /\ pc[p] = "open" /\ pc'[p] = "finally" /\ UNCHANGED <<tmp, iter, figures, good, bare>>
            /\ reading'[p] = IF tmp = p THEN Own ELSE IF tmp = "none" THEN "none" ELSE Foreign
        BY <2>1, <2>10 DEF OpenFile
      <3>2. tmp # "none" /\ (tmp # p => bare[p] /\ iter[p] = 0)
        BY <2>0, <2>1, <3>1
      <3>3. OwnFile(p)'
        BY <2>0, <2>1, <3>1
      <3>4. OwnFigures(p)'
        BY <2>0, <2>1, <3>1, <3>2
      <3> QED BY <3>3, <3>4
    <2>11. CASE NothingToUnlink(p) \/ Unlink(p)
      <3>1. /\ IterationEnds(p, reading[p]) /\ pc[p] \in {"finally", "unlink"}
            /\ good' = good /\ bare' = bare /\ tmp' = "none"
        BY <2>0, <2>11 DEF NothingToUnlink, Unlink
      <3>2. reading[p] \in {"none", Own, Foreign}
        BY <2>1
      <3> HIDE DEF Own, Foreign
      <3>3. /\ pc'[p] \in {"spawn", "done"} /\ reading'[p] = "none" /\ iter'[p] = iter[p] + 1
            /\ \A o \in {Own, Foreign} :
                 figures'[p][o] = IF o = reading[p] THEN figures[p][o] + 1 ELSE figures[p][o]
        BY <1>1, <3>1, <3>2, IterationType
      <3>4. Own # Foreign /\ Own # "none" /\ Foreign # "none"
        BY DEF Own, Foreign
      <3>5. OwnFile(p)'
        BY <3>1, <3>3
      <3>6. /\ figures'[p][Foreign] = figures[p][Foreign] + (IF reading[p] = Foreign THEN 1 ELSE 0)
            /\ figures'[p][Own] = figures[p][Own] + (IF reading[p] = Own THEN 1 ELSE 0)
        BY <2>1, <3>3, <3>4
      <3>7. /\ figures'[p][Foreign] > 0 => bare'[p]
            /\ figures'[p][Foreign] <= 1
            /\ iter'[p] # 0
        BY <2>0, <2>1, <3>1, <3>3, <3>6
      <3>8. good'[p] = figures'[p][Own] + figures'[p][Foreign]
        BY <2>0, <2>1, <3>1, <3>2, <3>4, <3>6
      <3>9. OwnFigures(p)'
        BY <3>3, <3>4, <3>7, <3>8, <2>1
      <3> QED BY <3>5, <3>9
    <2> QED BY <1>1, <2>2, <2>3, <2>4, <2>5, <2>6, <2>7, <2>8, <2>9, <2>10, <2>11 DEF Throughput
  <1>5. pc'[p] \notin {"suite", "read"}
    <2>1. TypeInv'
      BY ThroughputType
    <2> QED BY <1>1, <2>1 DEF TypeInv, TypeOK, QApc
  <1>6. \A q \in Progs : q # p => q \in Progs \ {p}
    OBVIOUS
  <1>7. ~met'[p] => report'[p] # Foreign
    BY <1>1, <1>2 DEF AloneInv
  <1>8. task'[p] # "quality"
    BY <1>1
  <1> QED BY <1>3, <1>4, <1>5, <1>6, <1>7, <1>8 DEF AloneInv

LEMMA QualityAlone ==
  ASSUME TypeInv, Together, AloneInv, NEW p \in Progs, Quality(p)
  PROVE  AloneInv'
  <1>0. TypeOK
    BY DEF TypeInv
  <1>1. /\ UNCHANGED <<task, tmp, iter, reading, figures, good, bare, met>>
        /\ Active(p) /\ task[p] = "quality"
        /\ \A q \in Progs \ {p} : UNCHANGED Local(q)
    BY <1>0, QualityFrame DEF mmVars, Active
  <1>2. ASSUME NEW q \in Progs \ {p}, ~met'[q]
        PROVE  /\ task'[q] = "mm" => OwnFile(q)' /\ OwnFigures(q)'
               /\ task'[q] = "quality" => reading'[q] = "none" /\ figures'[q][Foreign] = 0
               /\ report'[q] # Foreign
               /\ pc'[q] \in {"suite", "read"} => out' \in {"absent", "empty", q}
    <2>1. UNCHANGED <<pc[q], iter[q], reading[q], figures[q], good[q], bare[q], report[q], met[q], task[q]>> /\ ~met[q]
      BY <1>1, <1>2 DEF Local
    <2>2. pc[q] \notin {"suite", "read"}
      BY <1>0, <1>1, <2>1 DEF Together, Active, TypeOK, Rest, QApc
    <2> QED BY <1>1, <2>1, <2>2 DEF AloneInv, OwnFile, OwnFigures
  <1>3. ASSUME ~met'[p]
        PROVE  /\ report'[p] # Foreign
               /\ pc'[p] \in {"suite", "read"} => out' \in {"absent", "empty", p}
    <2>0. report[p] # Foreign /\ (pc[p] \in {"suite", "read"} => out \in {"absent", "empty", p})
      BY <1>1, <1>3 DEF AloneInv
    <2> USE DEF TypeOK, Goto, Own, Foreign
    <2>2. CASE Lock(p) \/ SetupFails(p) \/ Checkout(p) \/ Install(p) \/ Build(p)
      BY <1>0, <2>0, <2>2 DEF Lock, SetupFails, Checkout, Install, Build
    <2>3. CASE InstallOrBuildFails(p) \/ ServerFails(p) \/ ClearOutput(p)
      BY <1>0, <2>0, <2>3 DEF InstallOrBuildFails, ServerFails, ClearOutput
    <2>4. CASE MakeOutput(p)
      BY <1>0, <2>0, <2>4 DEF MakeOutput
    <2>5. CASE Suite(p)
      BY <1>0, <2>0, <2>5 DEF Suite
    <2>7. CASE ReadSummary(p)
      BY <1>0, <2>0, <2>7 DEF ReadSummary
    <2>8. CASE Tidy(p)
      BY <1>0, <2>0, <2>8 DEF Tidy
    <2> QED BY <2>2, <2>3, <2>4, <2>5, <2>7, <2>8 DEF Quality
  <1>4. \A q \in Progs : q # p => q \in Progs \ {p}
    OBVIOUS
  <1>5. ~met'[p] => reading'[p] = "none" /\ figures'[p][Foreign] = 0 /\ task'[p] # "mm"
    BY <1>1 DEF AloneInv
  <1> QED BY <1>2, <1>3, <1>4, <1>5 DEF AloneInv

(* A program that holds nothing in memory yet, or any more.                *)
LEMMA FreshAlone ==
  ASSUME TypeOK, NEW p \in Progs, Forget(p), pc'[p] \in {"wait", "setup", "dead"}
  PROVE  /\ OwnFile(p)' /\ OwnFigures(p)' /\ reading'[p] = "none" /\ figures'[p][Foreign] = 0
         /\ report'[p] # Foreign /\ pc'[p] \notin {"suite", "read"}
  <1>1. /\ iter'[p] = 0 /\ good'[p] = 0 /\ figures'[p][Own] = 0 /\ figures'[p][Foreign] = 0
        /\ reading'[p] = "none" /\ report'[p] = "none"
    BY ForgetType
  <1>2. OwnFile(p)'
    BY <1>1 DEF OwnFile
  <1>3. OwnFigures(p)'
    BY <1>1 DEF OwnFigures, Foreign
  <1> QED BY <1>1, <1>2, <1>3 DEF Foreign

LEMMA AloneStep == TypeInv /\ Together /\ AloneInv /\ [Next]_machine => AloneInv'
  <1> SUFFICES ASSUME TypeInv, Together, AloneInv, [Next]_machine PROVE AloneInv'
    OBVIOUS
  <1>0. TypeOK
    BY DEF TypeInv
  <1>1. CASE UNCHANGED machine
    BY <1>1 DEF machine, mmVars, qaVars, AloneInv, OwnFile, OwnFigures
  <1>2. ASSUME NEW p \in Progs, Killed(p) PROVE AloneInv'
    <2>1. /\ UNCHANGED <<task, met>> /\ Active(p) /\ pc'[p] = "dead" /\ Forget(p)
          /\ \A q \in Progs \ {p} : UNCHANGED Local(q)
      BY <1>0, <1>2, KilledFrame DEF Active, Killed
    <2>2. task[p] = "quality" => tmp \in {p, tmp'} /\ (tmp # p => tmp' = tmp)
      BY <1>0, <1>2 DEF Killed, TypeOK, MMpc, QApc
    <2>3. task[p] = "mm" => (out # p => out' = out)
      BY <1>0, <1>2 DEF Killed, TypeOK, MMpc, QApc
    <2>4. ASSUME NEW q \in Progs \ {p}, ~met[q]
          PROVE  /\ task[q] = "mm" => OwnFile(q)' /\ OwnFigures(q)'
                 /\ pc'[q] \in {"suite", "read"} => out' \in {"absent", "empty", q}
      <3>1. UNCHANGED <<pc[q], iter[q], reading[q], figures[q], good[q], bare[q]>>
        BY <2>1 DEF Local
      <3>2. task[q] = "mm" => OwnFigures(q)'
        BY <2>1, <2>4, <3>1 DEF AloneInv, OwnFigures
      <3>3. task[q] = "mm" /\ task[p] = "mm" => pc[q] \in Rest
        BY <2>1, <2>4 DEF Together, Active
      <3>4. task[q] = "mm" /\ task[p] = "mm" => OwnFile(q)'
        BY <3>1, <3>3 DEF OwnFile, Rest, MMpc
      <3>5. task[q] = "mm" /\ task[p] = "quality" => OwnFile(q)'
        <4>1. p # "none" /\ p # q /\ Stale # "none"
          BY MachineConstants DEF Stale
        <4>2. CASE task[q] = "mm" /\ task[p] = "quality"
          <5>1. OwnFile(q)
            BY <2>4, <4>2 DEF AloneInv
          <5>2. tmp' = tmp \/ (tmp = p /\ tmp' = Stale)
            BY <1>0, <1>2, <4>2 DEF Killed, TypeOK, MMpc, QApc
          <5> QED BY <3>1, <4>1, <5>1, <5>2 DEF OwnFile
        <4> QED BY <4>2
      <3>6. pc[q] \in {"suite", "read"} => task[q] = "quality"
        BY <1>0 DEF TypeOK, QApc
      <3>7. pc[q] \in {"suite", "read"} => task[p] = "mm"
        BY <1>0, <2>1, <2>4, <3>6 DEF Together, Active, TypeOK, Rest
      <3>8. pc'[q] \in {"suite", "read"} => out' \in {"absent", "empty", q}
        BY <2>3, <2>4, <3>1, <3>7, MachineConstants DEF AloneInv
      <3>9. task[q] \in {"mm", "quality"} /\ task[p] \in {"mm", "quality"}
        BY <1>0 DEF TypeOK
      <3> QED BY <3>2, <3>4, <3>5, <3>8, <3>9
    <2>5. ASSUME NEW q \in Progs \ {p}, ~met'[q]
          PROVE  /\ task'[q] = "quality" => reading'[q] = "none" /\ figures'[q][Foreign] = 0
                 /\ report'[q] # Foreign
      BY <2>1, <2>5 DEF AloneInv, Local
    <2>6. \A q \in Progs : q # p => q \in Progs \ {p}
      OBVIOUS
    <2> QED BY <1>0, <2>1, <2>4, <2>5, <2>6, FreshAlone DEF AloneInv
  <1>3. ASSUME NEW p \in Progs, OrphanEnds(p) PROVE AloneInv'
    <2>1. /\ UNCHANGED <<task, pc, iter, reading, figures, good, bare, report, met>> /\ Active(p)
          /\ IF task[p] = "mm" THEN UNCHANGED out ELSE UNCHANGED tmp
      BY <1>0, <1>3, OrphanFrame DEF Active, History
    <2>2. ASSUME NEW q \in Progs, ~met[q]
          PROVE  /\ task[q] = "mm" => OwnFile(q)'
                 /\ pc[q] \in {"suite", "read"} => out' \in {"absent", "empty", q}
      <3>1. task[q] = task[p] => pc[q] \in Rest
        <4>1. CASE q = p
          BY <1>0, <1>3, <2>2, <4>1, OrphanFrame DEF Together
        <4>2. CASE q # p
          BY <2>1, <2>2, <4>2 DEF Together, Active
        <4> QED BY <4>1, <4>2
      <3>2. task[q] = "mm" => OwnFile(q)'
        BY <2>1, <2>2, <3>1 DEF AloneInv, OwnFile, Rest, MMpc
      <3>3. pc[q] \in {"suite", "read"} => task[q] = "quality" /\ pc[q] \notin Rest
        BY <1>0 DEF TypeOK, QApc, Rest
      <3>4. task[p] \in {"mm", "quality"}
        BY <1>0 DEF TypeOK
      <3>5. pc[q] \in {"suite", "read"} => out' = out
        BY <2>1, <3>1, <3>3, <3>4
      <3> QED BY <2>2, <3>2, <3>5 DEF AloneInv
    <2>3. ASSUME NEW q \in Progs, ~met[q], task[q] = "mm"
          PROVE  OwnFigures(q)'
      BY <2>1, <2>3 DEF AloneInv, OwnFigures
    <2> QED BY <2>1, <2>2, <2>3 DEF AloneInv
  <1>4. ASSUME NEW p \in Progs, Launch(p) PROVE AloneInv'
    <2>1. /\ UNCHANGED <<task, tmp, out>> /\ Forget(p)
          /\ \A q \in Progs \ {p} : UNCHANGED <<pc[q], Memory(q)>> /\ (met[q] => met'[q])
          /\ pc'[p] = Start(p)
      BY <1>0, <1>4, LaunchFrame DEF Launch
    <2>2. pc'[p] \in {"wait", "setup"}
      BY <2>1 DEF Start
    <2>3. ASSUME NEW q \in Progs \ {p}, ~met'[q]
          PROVE  /\ task'[q] = "mm" => OwnFile(q)' /\ OwnFigures(q)'
                 /\ task'[q] = "quality" => reading'[q] = "none" /\ figures'[q][Foreign] = 0
                 /\ report'[q] # Foreign
                 /\ pc'[q] \in {"suite", "read"} => out' \in {"absent", "empty", q}
      <3>1. UNCHANGED <<pc[q], iter[q], reading[q], figures[q], good[q], bare[q], report[q]>> /\ ~met[q]
        BY <2>1, <2>3 DEF Memory
      <3> QED BY <2>1, <3>1 DEF AloneInv, OwnFile, OwnFigures
    <2>4. \A q \in Progs : q # p => q \in Progs \ {p}
      OBVIOUS
    <2> QED BY <1>0, <2>1, <2>2, <2>3, <2>4, FreshAlone DEF AloneInv
  <1> QED BY <1>1, <1>2, <1>3, <1>4, ThroughputAlone, QualityAlone DEF Next

LEMMA AloneInit == Init => AloneInv
  BY DEF Init, AloneInv, OwnFile, OwnFigures, MMpc, Own, Foreign

(* A program that met no other at the same work, nor an orphan, reports    *)
(* what it measured, but for one row at most that its first iteration      *)
(* found.                                                                  *)
THEOREM AloneAlwaysTrue == Spec => []AloneIsTrue
  <1>1. TypeInv /\ AloneInv => AloneIsTrue
    <2> SUFFICES ASSUME TypeInv, AloneInv, NEW p \in Progs, ~met[p]
                 PROVE  /\ figures[p][Foreign] + (IF reading[p] = Foreign THEN 1 ELSE 0)
                              <= IF bare[p] THEN 1 ELSE 0
                        /\ pc[p] = "done" /\ task[p] = "mm" => figures[p][Own] + figures[p][Foreign] = good[p]
                        /\ report[p] # Foreign
      BY DEF AloneIsTrue
    <2>1. /\ figures[p][Own] \in Nat /\ figures[p][Foreign] \in Nat /\ good[p] \in Nat
          /\ task[p] \in {"mm", "quality"}
      BY DEF TypeInv, TypeOK
    <2>2. CASE task[p] = "mm"
      <3>1. OwnFigures(p) /\ report[p] # Foreign
        BY <2>2 DEF AloneInv
      <3> QED BY <2>1, <3>1 DEF OwnFigures
    <2>3. CASE task[p] = "quality"
      <3>1. reading[p] = "none" /\ figures[p][Foreign] = 0 /\ report[p] # Foreign
        BY <2>3 DEF AloneInv
      <3> QED BY <2>3, <3>1 DEF Foreign
    <2> QED BY <2>1, <2>2, <2>3
  <1> QED BY <1>1, TypeInit, TypeStep, TogetherInit, TogetherStep, AloneInit, AloneStep, PTL DEF Spec

-----------------------------------------------------------------------------
(* The build a suite runs on                                               *)

(* The lock orders checkout, installation and build.                       *)
Exclusive == \A p \in Progs : pc[p] \in {"locked", "install", "build"} => lock = p

(* The stamp names what is built and installed, unless a build is under    *)
(* way or one broke off.                                                   *)
StampTrue ==
  ~botched /\ stamp # "none" =>
    built = stamp /\ (installed = stamp \/ \E p \in Progs : pc[p] = "build")

UnderWay ==
  \A p \in Progs :
    /\ pc[p] \in {"install", "build"} => head = want[p]
    /\ pc[p] = "build" => installed = head

OnOwnBuild ==
  \A p \in Progs : pc[p] \in {"clear", "mkdir", "suite"} =>
    met[p] \/ botched \/ (head = want[p] /\ installed = want[p] /\ built = want[p])

RepoInv == Exclusive /\ StampTrue /\ UnderWay /\ OnOwnBuild /\ SuiteOnOwnBuild

LEMMA RepoInit == Init => RepoInv
  BY DEF Init, RepoInv, Exclusive, StampTrue, UnderWay, OnOwnBuild, SuiteOnOwnBuild

LEMMA RepoQuality ==
  ASSUME TypeInv, Together, RepoInv, NEW p \in Progs, Quality(p)
  PROVE  RepoInv'
  <1>0. TypeOK
    BY DEF TypeInv
  <1>1. /\ UNCHANGED <<task, want, met>> /\ Active(p) /\ task[p] = "quality"
        /\ \A q \in Progs \ {p} : UNCHANGED <<pc[q], tree[q]>>
    BY <1>0, QualityFrame DEF Local, Active
  (* Whoever else is at work in the repository has met p.                  *)
  <1>2. \A q \in Progs \ {p} : pc[q] \in QApc => met[q]
    BY <1>0, <1>1, SMTT(30) DEF Together, Active, TypeOK, Rest, MMpc, QApc
  <1>3. \A q \in Progs \ {p} :
          /\ pc'[q] \in {"clear", "mkdir", "suite"} => met'[q]
          /\ pc'[q] = "read" => met'[q]
    BY <1>1, <1>2 DEF QApc
  <1>4. p # "none" /\ want[p] \in Commits /\ want[p] # "none"
    BY <1>0, <1>1, MachineConstants DEF TypeOK
  <1>5. pc \in [Progs -> Rest \cup MMpc \cup QApc] /\ tree \in [Progs -> {"none", "right", "wrong"}]
    BY <1>0 DEF TypeOK
  <1>6. SUFFICES
          /\ Exclusive' /\ StampTrue' /\ UnderWay'
          /\ pc'[p] \in {"clear", "mkdir", "suite"} =>
               \/ met[p] \/ botched'
               \/ head' = want[p] /\ installed' = want[p] /\ built' = want[p]
          /\ tree'[p] = "wrong" /\ pc'[p] = "read" => met[p] \/ botched'
    BY <1>1, <1>3 DEF RepoInv, OnOwnBuild, SuiteOnOwnBuild
  <1>7. \A q \in Progs \ {p} : pc[q] \in {"locked", "install", "build"} => lock = q
    BY DEF RepoInv, Exclusive
  <1> USE DEF Exclusive, StampTrue, UnderWay, OnOwnBuild, SuiteOnOwnBuild, RepoInv, Goto, repo
  <1>8. CASE Lock(p)
    <2>1. /\ pc[p] = "setup" /\ pc'[p] = "locked" /\ lock = "none" /\ lock' = p
          /\ UNCHANGED <<head, stamp, installed, built, tree, botched>>
      BY <1>5, <1>8 DEF Lock
    <2>2. \A q \in Progs \ {p} : pc[q] \notin {"locked", "install", "build"}
      BY <1>7, <2>1, MachineConstants
    <2> QED BY <1>1, <2>1, <2>2
  <1>9. CASE SetupFails(p)
    BY <1>1, <1>4, <1>5, <1>7, <1>9 DEF SetupFails
  <1>10. CASE Checkout(p)
    <2>1. /\ pc[p] = "locked" /\ lock = p /\ head' = want[p]
          /\ UNCHANGED <<stamp, installed, built, tree, botched>>
      BY <1>10 DEF Checkout
    <2>2. \A q \in Progs \ {p} : pc[q] \notin {"locked", "install", "build"}
      BY <1>7, <2>1
    <2>3. CASE stamp = want[p] /\ pc'[p] = "clear"
      BY <1>1, <1>4, <2>1, <2>2, <2>3
    <2>4. CASE pc'[p] = "install" /\ lock' = lock
      BY <1>1, <1>4, <2>1, <2>2, <2>4
    <2> QED BY <1>5, <1>10, <2>3, <2>4 DEF Checkout
  <1>11. CASE Install(p)
    <2>1. /\ pc[p] = "install" /\ lock = p /\ head = want[p] /\ pc'[p] = "build" /\ installed' = head
          /\ UNCHANGED <<lock, head, stamp, built, tree, botched>>
      BY <1>5, <1>11 DEF Install
    <2>2. \A q \in Progs \ {p} : pc[q] \notin {"locked", "install", "build"}
      BY <1>7, <2>1
    <2> QED BY <1>1, <2>1, <2>2
  <1>12. CASE Build(p)
    <2>1. /\ pc[p] = "build" /\ lock = p /\ head = want[p] /\ installed = head /\ pc'[p] = "clear"
          /\ built' = head /\ stamp' = head /\ UNCHANGED <<head, installed, tree>>
      BY <1>5, <1>12 DEF Build
    <2>2. \A q \in Progs \ {p} : pc[q] \notin {"locked", "install", "build"}
      BY <1>7, <2>1
    <2> QED BY <1>1, <2>1, <2>2
  <1>13. CASE InstallOrBuildFails(p)
    <2>1. /\ pc[p] \in {"install", "build"} /\ lock = p /\ pc'[p] = "done" /\ botched'
      BY <1>5, <1>13 DEF InstallOrBuildFails, Breaks
    <2>2. \A q \in Progs \ {p} : pc[q] \notin {"locked", "install", "build"}
      BY <1>7, <2>1
    <2> QED BY <1>1, <2>1, <2>2
  <1>14. CASE ServerFails(p) \/ ClearOutput(p) \/ ReadSummary(p) \/ Tidy(p)
    BY <1>1, <1>5, <1>14 DEF ServerFails, ClearOutput, ReadSummary, Tidy
  <1>15. CASE MakeOutput(p)
    BY <1>1, <1>5, <1>15 DEF MakeOutput
  <1>16. CASE Suite(p)
    BY <1>1, <1>5, <1>16 DEF Suite
  <1> QED BY <1>8, <1>9, <1>10, <1>11, <1>12, <1>13, <1>14, <1>15, <1>16 DEF Quality

LEMMA RepoStep == TypeInv /\ Together /\ RepoInv /\ [Next]_machine => RepoInv'
  <1> SUFFICES ASSUME TypeInv, Together, RepoInv, [Next]_machine PROVE RepoInv'
    OBVIOUS
  <1>0. TypeOK
    BY DEF TypeInv
  <1> USE DEF Exclusive, StampTrue, UnderWay, OnOwnBuild, SuiteOnOwnBuild, RepoInv
  <1>1. CASE UNCHANGED machine
    BY <1>1 DEF machine, mmVars, qaVars, repo
  <1>2. ASSUME NEW p \in Progs, Throughput(p) PROVE RepoInv'
    <2>1. /\ UNCHANGED <<want, met, lock, head, stamp, installed, built, tree, botched>>
          /\ \A q \in Progs \ {p} : pc'[q] = pc[q]
          /\ task[p] = "mm"
      BY <1>0, <1>2, ThroughputFrame DEF Local, qaVars, repo
    <2>2. pc[p] \notin QApc /\ pc'[p] \notin QApc
      <3>1. TypeInv' /\ task' = task
        BY <1>0, <1>2, ThroughputType, ThroughputFrame
      <3> QED BY <1>0, <2>1, <3>1 DEF TypeInv, TypeOK
    <2> QED BY <2>1, <2>2 DEF QApc
  <1>3. ASSUME NEW p \in Progs, Killed(p) PROVE RepoInv'
    <2>1. /\ UNCHANGED <<want, head, met>> /\ pc'[p] = "dead"
          /\ \A q \in Progs \ {p} : pc'[q] = pc[q] /\ tree'[q] = tree[q]
      BY <1>0, <1>3, KilledFrame DEF Local
    <2>2. lock' = IF lock = p THEN "none" ELSE lock
      BY <1>3 DEF Killed
    <2>3. CASE pc[p] \in {"install", "build"}
      <3>1. botched' /\ lock = p
        BY <1>3, <2>3 DEF Killed, Breaks
      <3>2. \A q \in Progs \ {p} : pc[q] \notin {"locked", "install", "build"}
        BY <3>1
      <3> QED BY <2>1, <3>1, <3>2
    <2>4. CASE pc[p] \notin {"install", "build"}
      <3>1. UNCHANGED <<installed, built, stamp, botched>>
        BY <1>3, <2>4 DEF Killed
      <3> QED BY <2>1, <2>2, <2>4, <3>1
    <2> QED BY <2>3, <2>4
  <1>4. ASSUME NEW p \in Progs, Launch(p) PROVE RepoInv'
    <2>1. /\ UNCHANGED <<want, lock, head, stamp, installed, built, botched>>
          /\ \A q \in Progs \ {p} : pc'[q] = pc[q] /\ tree'[q] = tree[q] /\ (met[q] => met'[q])
          /\ pc'[p] = Start(p) /\ pc[p] \in Rest
      BY <1>0, <1>4, LaunchFrame DEF repo, Memory
    <2>2. pc'[p] \in {"wait", "setup"} /\ pc[p] \in {"done", "dead"}
      BY <2>1 DEF Start, Rest
    <2> QED BY <2>1, <2>2
  <1>5. ASSUME NEW p \in Progs, OrphanEnds(p) PROVE RepoInv'
    <2>1. UNCHANGED <<want, pc, lock, head, stamp, installed, built, tree, botched, met>>
      BY <1>0, <1>5, OrphanFrame DEF repo
    <2> QED BY <2>1
  <1> QED BY <1>1, <1>2, <1>3, <1>4, <1>5, RepoQuality DEF Next

(* A suite runs on the build of its own commit, unless another program     *)
(* was at the repository meanwhile or a build broke off before.            *)
THEOREM SuiteOnOwnBuildUnlessMet == Spec => []SuiteOnOwnBuild
  <1>1. RepoInv => SuiteOnOwnBuild
    BY DEF RepoInv
  <1> QED BY <1>1, TypeInit, TypeStep, TogetherInit, TogetherStep, RepoInit, RepoStep, PTL DEF Spec
=============================================================================
