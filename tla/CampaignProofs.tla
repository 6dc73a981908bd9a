---------------------------- MODULE CampaignProofs ----------------------------
(***************************************************************************)
(* Proofs about EvalSweep, and about Campaign, which runs it, for any      *)
(* models, suites, programs, formats, campaigns and selections of pillars, *)
(* with or without a budget.  The sweep comes first; the invariant of the  *)
(* campaign has four parts: that of the sweep, carried over; the golden    *)
(* set; the rows collected by the loops; and the shared configuration.     *)
(***************************************************************************)
EXTENDS Campaign, WellFoundedInduction, TLAPS

-----------------------------------------------------------------------------
(* EvalSweep                                                               *)

Sweeping == {"boot", "choose", "measure", "save"}

(* The sweep has dealt with this suite of this model.                      *)
Behind(p) ==
  \/ p[1] < model
  \/ p[1] = model /\ \/ stage \notin Sweeping
                     \/ p[2] < suite
                     \/ p[2] = suite /\ stage = "save"

(* The sweep goes forward: what lies ahead has no row and no worker, but   *)
(* for the suite being measured.                                           *)
Forward ==
  /\ stage \in Sweeping => model \in Models
  /\ stage \in {"measure", "save"} => suite \in Suites
  /\ stage = "boot" => suite = 1
  /\ \A m \in Models : m > model \/ (m = model /\ stage \in Sweeping) => swept[m] = "pending"
  /\ \A p \in Pairs : ~Behind(p) =>
       /\ row[p] = "none" /\ origin[p] = 0
       /\ p \in workers => stage = "measure" /\ p = Current

(* What is being saved is a row; one saved within a try was not measured   *)
(* with success.                                                           *)
Saving ==
  stage = "save" =>
    /\ row[Current] \in Verdict
    /\ guarded => row[Current] # "success" \/ origin[Current] # 0

(* What the reader of the results may rely on, once a suite is done.       *)
Kept(p) ==
  /\ row[p] = "none" => flags.resume /\ \E d \in Dirs : disk[d][p] \in Broken
  /\ row[p] = "success" /\ origin[p] = 0 => disk[ResultsDir][p] = "success"

Finished(p) ==
  \/ swept[p[1]] = "done"
  \/ p[1] = model /\ stage \in Sweeping /\ p[2] < suite

AllKept == \A p \in Pairs : Finished(p) => Kept(p)

(* Nothing is written but to the directory of a program that has started.  *)
DirsInOrder ==
  \A d \in Dirs, p \in Pairs : (rerun /\ d # 1) \/ (~rerun /\ d > program) => disk[d][p] = "absent"

(* The suites of a model are put to it, or to a model a listing named.     *)
Targeted == \A m \in Models : target[m] \in {m} \cup listed

IInv == /\ TypeOK /\ Forward /\ Saving /\ StraysTimedOut /\ AllKept
        /\ DirsInOrder /\ NewestWinsWithinYear /\ SuccessEarned /\ Targeted

-----------------------------------------------------------------------------
(* Lemmas about the operators                                              *)

LEMMA Sizes == M \in Nat /\ K \in Nat /\ Programs \in Nat /\ M >= 1 /\ K >= 1 /\ Programs >= 1
  BY SizesPositive

LEMMA PairOf == ASSUME NEW p \in Pairs
                PROVE  p = <<p[1], p[2]>> /\ p[1] \in Models /\ p[2] \in Suites
  BY DEF Pairs

LEMMA ResultsDirType == TypeOK => ResultsDir \in Dirs
  BY Sizes DEF TypeOK, ResultsDir, Dirs

LEMMA RecordType == ASSUME TypeOK, NEW d \in Dirs, NEW p \in Pairs
                    PROVE  Recorded(d, p) \in Record
  BY DEF TypeOK, Recorded

(* A write to the record of the current suite changes nothing else.        *)
LEMMA WriteRecord ==
  ASSUME TypeOK, Current \in Pairs, NEW b \in Record,
         disk' = [disk EXCEPT ![ResultsDir][Current] = b]
  PROVE  /\ disk' \in [Dirs -> [Pairs -> Record]]
         /\ disk'[ResultsDir][Current] = b
         /\ \A d \in Dirs, p \in Pairs :
              d # ResultsDir \/ p # Current => disk'[d][p] = disk[d][p]
  <1>1. ResultsDir \in Dirs
    BY ResultsDirType
  <1>2. disk \in [Dirs -> [Pairs -> Record]]
    BY DEF TypeOK
  <1> HIDE DEF ResultsDir, Current
  <1> DEFINE f == [disk[ResultsDir] EXCEPT ![Current] = b]
  <1>3. f \in [Pairs -> Record] /\ f[Current] = b /\ \A p \in Pairs : p # Current => f[p] = disk[ResultsDir][p]
    BY <1>1, <1>2
  <1>4. disk' = [disk EXCEPT ![ResultsDir] = f]
    OBVIOUS
  <1>5. disk'[ResultsDir] = f /\ \A d \in Dirs : d # ResultsDir => disk'[d] = disk[d]
    BY <1>1, <1>2, <1>4
  <1>6. disk' \in [Dirs -> [Pairs -> Record]]
    BY <1>1, <1>2, <1>3, <1>4
  <1> QED BY <1>3, <1>5, <1>6

LEMMA ExistingIn == ASSUME TypeOK, NEW p \in Pairs, NEW d \in Existing(p) PROVE d \in Dirs
  BY ResultsDirType DEF Existing, Candidates

(* The current suite is one of the sweep.                                  *)
LEMMA CurrentPair == ASSUME TypeOK, Forward, stage \in Sweeping, suite <= K
                     PROVE  Current \in Pairs /\ suite \in Suites /\ Current[1] = model /\ Current[2] = suite
  BY Sizes DEF TypeOK, Forward, Current, Pairs, Suites

(* A success counts for the model that was put the suite to.               *)
LEMMA SuccessType ==
  ASSUME TypeOK, NEW p \in Pairs
  PROVE  Success(p) \in Models \X (1..(M + 1)) \X Suites
  <1>1. p[1] \in Models /\ p[2] \in Suites /\ target[p[1]] \in 1..(M + 1)
    BY PairOf DEF TypeOK
  <1> QED BY <1>1 DEF Success

LEMMA SuccessCredits ==
  ASSUME TypeOK, Targeted, NEW p \in Pairs, Success(p) \in earned', listed' = listed
  PROVE  Credited(p)'
  <1>1. target[p[1]] \in {p[1]} \cup listed
    BY PairOf DEF Targeted
  <1> QED BY <1>1 DEF Credited, Success

(* What the four ways a measurement ends have in common.                   *)
Measured(v) ==
  /\ v \in Verdict
  /\ stage = "measure" /\ stage' = "save"
  /\ row' = [row EXCEPT ![Current] = v]
  /\ origin' = [origin EXCEPT ![Current] = 0]
  /\ guarded' \in BOOLEAN /\ (guarded' => v # "success")
  /\ disk' = [disk EXCEPT ![ResultsDir][Current] = "empty"]
  /\ workers' = workers \ {Current} \/ (workers' = workers /\ v = "timeout" /\ flags.budget)
  /\ earned' = earned \/ earned' = earned \cup {Success(Current)}
  /\ v = "success" => Success(Current) \in earned'
  /\ UNCHANGED <<program, flags, rerun, yearEnd, model, target, suite, swept, listed>>

LEMMA MeasuredBy ==
  ASSUME SuiteReturns \/ SuiteRaises \/ SuiteRaisesTimeout \/ TimeOut
  PROVE  \E v \in Verdict : Measured(v)
  <1>1. CASE SuiteReturns
    BY <1>1 DEF SuiteReturns, ReportRow, Measured, Verdict, history
  <1>2. CASE SuiteRaises
    BY <1>2 DEF SuiteRaises, ReportRow, Measured, Verdict, history
  <1>3. CASE SuiteRaisesTimeout
    BY <1>3 DEF SuiteRaisesTimeout, ReportRow, Measured, Verdict, history
  <1>4. CASE TimeOut
    BY <1>4 DEF TimeOut, ReportRow, Measured, Verdict, history
  <1> QED BY <1>1, <1>2, <1>3, <1>4

-----------------------------------------------------------------------------
(* Each action keeps the invariant                                         *)

LEMMA InitInv == Init => IInv
  <1> SUFFICES ASSUME Init PROVE IInv
    OBVIOUS
  <1> USE Sizes DEF Init
  <1>1. 1 \in Dirs /\ Programs \in Dirs /\ 1 \in 1..(K + 1) /\ 0 \in 0..M /\ 0 \in 0..Programs
    BY DEF Dirs
  <1>2. TypeOK
    <2>1. \A m \in Models : m \in 1..(M + 1)
      BY DEF Models
    <2> QED BY <1>1, <2>1 DEF TypeOK, Stage, Record
  <1>3. Forward
    BY <1>2 DEF Forward, Sweeping, Models
  <1>4. Saving /\ StraysTimedOut
    BY DEF Saving, StraysTimedOut
  <1>5. AllKept
    <2>1. ASSUME NEW p \in Pairs PROVE ~Finished(p)
      <3>1. p[1] \in Models
        BY PairOf
      <3> QED BY <3>1 DEF Finished, Sweeping
    <2> QED BY <2>1 DEF AllKept
  <1>6. DirsInOrder /\ NewestWinsWithinYear /\ SuccessEarned /\ Targeted
    BY DEF DirsInOrder, NewestWinsWithinYear, NewestWins, SuccessEarned, Targeted
  <1> QED BY <1>2, <1>3, <1>4, <1>5, <1>6 DEF IInv

(* A fresh process, whatever its predecessor left on disk.                 *)
LEMMA FreshInv ==
  ASSUME IInv, NEW s \in {"dead", "idle"}, Fresh(s), TypeOK', DirsInOrder',
         UNCHANGED history,
         \A d \in Dirs, p \in Pairs : disk'[d][p] = "success" => Credited(p)
  PROVE  IInv'
  <1> USE DEF Fresh
  <1>1. Forward'
    BY Sizes DEF Forward, Sweeping, Models
  <1>2. Saving' /\ StraysTimedOut'
    BY DEF Saving, StraysTimedOut
  <1>3. AllKept'
    <2>1. ASSUME NEW p \in Pairs PROVE ~Finished(p)'
      <3>1. p[1] \in Models
        BY PairOf
      <3> QED BY <3>1 DEF Finished, Sweeping
    <2> QED BY <2>1 DEF AllKept
  <1>4. NewestWinsWithinYear'
    BY DEF NewestWinsWithinYear, NewestWins
  <1>5. SuccessEarned' /\ Targeted'
    BY DEF SuccessEarned, Credited, Targeted, history
  <1> QED BY <1>1, <1>2, <1>3, <1>4, <1>5 DEF IInv

LEMMA CrashInv == IInv /\ Crash => IInv'
  <1> SUFFICES ASSUME IInv, Crash PROVE IInv'
    OBVIOUS
  <1>1. TypeOK /\ Fresh("dead") /\ guarded' = FALSE
        /\ UNCHANGED <<program, flags, rerun, yearEnd, history>>
    BY DEF IInv, Crash
  <1>2. /\ disk' \in [Dirs -> [Pairs -> Record]]
        /\ \A d \in Dirs, p \in Pairs :
             disk'[d][p] = disk[d][p] \/ (d = ResultsDir /\ disk'[d][p] \in Broken)
    <2>1. CASE stage = "save"
      <3>1. PICK b \in Broken : disk' = [disk EXCEPT ![ResultsDir][Current] = b]
        BY <2>1 DEF Crash
      <3>2. Current \in Pairs
        BY <2>1, CurrentPair, Sizes DEF IInv, Forward, Sweeping, Suites
      <3> QED BY <1>1, <3>1, <3>2, WriteRecord, ZenonT(30) DEF Record
    <2>2. CASE stage # "save"
      BY <1>1, <2>2 DEF Crash, TypeOK
    <2> QED BY <2>1, <2>2
  <1>3. TypeOK'
    <2>1. /\ model' \in 0..M /\ suite' \in 1..(K + 1) /\ stage' \in Stage /\ workers' \in SUBSET Pairs
          /\ target' \in [Models -> 1..(M + 1)]
          /\ row' \in [Pairs -> Verdict \cup {"none"}] /\ origin' \in [Pairs -> 0..Programs]
          /\ swept' \in [Models -> {"pending", "done", "noserver", "lost"}]
      BY <1>1, Sizes DEF Fresh, Stage, Models
    <2>2. UNCHANGED <<program, flags, rerun, yearEnd, earned, listed>> /\ guarded' \in BOOLEAN
      BY <1>1 DEF history
    <2> QED BY <1>1, <1>2, <2>1, <2>2 DEF TypeOK
  <1>4. DirsInOrder'
    BY <1>1, <1>2 DEF IInv, DirsInOrder, ResultsDir, TypeOK, Dirs
  <1>5. \A d \in Dirs, p \in Pairs : disk'[d][p] = "success" => Credited(p)
    BY <1>2 DEF IInv, SuccessEarned, Broken
  <1> QED BY <1>1, <1>3, <1>4, <1>5, FreshInv

LEMMA RestartInv == IInv /\ Restart => IInv'
  <1> SUFFICES ASSUME IInv, Restart PROVE IInv'
    OBVIOUS
  <1>1. TypeOK /\ Fresh("idle") /\ program' = program + 1 /\ program < Programs
        /\ UNCHANGED <<disk, rerun, yearEnd, guarded, history>>
        /\ flags' \in CommandLine
    BY DEF IInv, Restart, files
  <1>2. program' \in Dirs
    BY <1>1, Sizes DEF TypeOK, Dirs
  <1>3. TypeOK'
    BY <1>1, <1>2, Sizes DEF TypeOK, Fresh, Stage, Models, history
  <1>4. DirsInOrder'
    BY <1>1, Sizes DEF IInv, DirsInOrder, TypeOK, Dirs
  <1>5. \A d \in Dirs, p \in Pairs : disk'[d][p] = "success" => Credited(p)
    BY <1>1 DEF IInv, SuccessEarned
  <1> QED BY <1>1, <1>3, <1>4, <1>5, FreshInv

(* The sweep moves on and writes neither row nor record.                   *)
LEMMA StartEvalsInv == ASSUME IInv, NEW n \in Models, StartEvals(n) PROVE IInv'
  <1>1. /\ TypeOK /\ stage = "idle" /\ stage' = "boot" /\ suite' = 1
        /\ model < n /\ model' = n /\ model \in Nat /\ n \in 1..M
        /\ UNCHANGED <<program, flags, disk, rerun, yearEnd, guarded, row, origin, swept, workers, target, earned, listed>>
    BY Sizes DEF IInv, Models, StartEvals, files, report, history, TypeOK
  <1>2. TypeOK'
    BY <1>1, Sizes DEF TypeOK, Stage
  <1>3. ASSUME NEW p \in Pairs, ~Behind(p)' PROVE ~Behind(p)
    <2>1. p[1] \in Nat
      BY PairOf, Sizes DEF Models
    <2> QED BY <1>1, <1>3, <2>1 DEF Behind, Sweeping
  <1>4. Forward'
    <2>1. \A p \in Pairs : ~Behind(p)' => row[p] = "none" /\ origin[p] = 0 /\ p \notin workers
      BY <1>1, <1>3 DEF IInv, Forward
    <2>2. \A m \in Models : m >= n => swept[m] = "pending"
      BY <1>1, Sizes DEF IInv, Forward, Models
    <2> QED BY <1>1, <2>1, <2>2, Sizes DEF Forward, Sweeping, Models
  <1>5. Saving' /\ StraysTimedOut'
    BY <1>1 DEF IInv, Saving, StraysTimedOut
  <1>6. AllKept'
    <2>1. ASSUME NEW p \in Pairs, Finished(p)' PROVE Finished(p)
      <3>1. p[1] \in Models /\ p[2] \in Nat /\ p[2] >= 1
        BY PairOf, Sizes DEF Suites
      <3> QED BY <1>1, <2>1, <3>1 DEF Finished
    <2> QED BY <1>1, <2>1 DEF IInv, AllKept, Kept, ResultsDir
  <1>7. DirsInOrder' /\ NewestWinsWithinYear' /\ SuccessEarned' /\ Targeted'
    BY <1>1 DEF IInv, DirsInOrder, NewestWinsWithinYear, NewestWins, SuccessEarned, Credited, Targeted
  <1> QED BY <1>2, <1>4, <1>5, <1>6, <1>7 DEF IInv

LEMMA NextModelInv == IInv /\ NextModel => IInv'
  <1> SUFFICES ASSUME IInv, NextModel PROVE IInv'
    OBVIOUS
  <1>1. model + 1 \in Models
    BY Sizes DEF IInv, TypeOK, NextModel, Models
  <1> QED BY <1>1, StartEvalsInv DEF NextModel

LEMMA BootInv == IInv /\ Boot => IInv'
  <1> SUFFICES ASSUME IInv, Boot PROVE IInv'
    OBVIOUS
  <1>1. /\ TypeOK /\ stage = "boot" /\ stage' \in {"choose", "idle"} /\ suite = 1 /\ model \in Models
        /\ UNCHANGED <<program, flags, disk, rerun, yearEnd, model, suite, guarded, row, origin, workers, earned>>
        /\ \/ stage' = "choose" /\ swept' = swept
           \/ stage' = "idle" /\ swept' = [swept EXCEPT ![model] = "noserver"]
    BY DEF IInv, Boot, Forward, Sweeping, files, TypeOK
  <1>9. target' \in [Models -> 1..(M + 1)] /\ listed' \in SUBSET (1..(M + 1)) /\ listed \subseteq listed' /\ Targeted'
    <2>0. /\ target \in [Models -> 1..(M + 1)] /\ listed \in SUBSET (1..(M + 1)) /\ model \in Models
          /\ model \in 1..(M + 1) /\ flags.first \in 0..(M + 1) /\ Targeted
      <3>1. target \in [Models -> 1..(M + 1)] /\ listed \in SUBSET (1..(M + 1)) /\ flags \in CommandLine
        BY <1>1 DEF TypeOK
      <3>2. flags.first \in 0..(M + 1)
        BY <3>1, FirstsModels DEF CommandLine
      <3>3. model \in 1..(M + 1)
        BY <1>1, Sizes DEF Models
      <3> QED BY <1>1, <3>1, <3>2, <3>3 DEF IInv
    <2>1. CASE UNCHANGED <<target, listed>>
      BY <2>0, <2>1 DEF Targeted
    <2>2. ASSUME NEW t \in {flags.first, model} \ {0}, Resolve(t)
          PROVE  /\ target' \in [Models -> 1..(M + 1)] /\ listed' \in SUBSET (1..(M + 1))
                 /\ listed \subseteq listed' /\ Targeted'
      <3>1. t \in 1..(M + 1)
        BY <2>0, Sizes
      <3>2. /\ target' = [target EXCEPT ![model] = t] /\ listed \subseteq listed'
            /\ listed' \subseteq listed \cup {t} /\ (t = model \/ t \in listed')
        BY <2>2 DEF Resolve
      <3> QED BY <2>0, <3>1, <3>2 DEF Targeted
    <2> QED BY <2>1, <2>2 DEF Boot
  <1>2. \A m \in Models : m # model => swept'[m] = swept[m]
    BY <1>1 DEF TypeOK
  <1>3. TypeOK' /\ swept[model] = "pending" /\ swept'[model] # "done" /\ swept'[model] # "lost"
    BY <1>1, <1>9 DEF IInv, Forward, Sweeping, TypeOK, Stage
  <1>4. Forward'
    <2>1. ASSUME NEW p \in Pairs, ~Behind(p)' PROVE ~Behind(p)
      BY <1>1, <2>1 DEF Behind, Sweeping
    <2>2. \A p \in Pairs : ~Behind(p)' => row[p] = "none" /\ origin[p] = 0 /\ p \notin workers
      BY <1>1, <2>1 DEF IInv, Forward
    <2>3. \A m \in Models : m > model \/ (m = model /\ stage' \in Sweeping) => swept'[m] = "pending"
      BY <1>1, <1>2, <1>3 DEF IInv, Forward, Sweeping, Models
    <2> QED BY <1>1, <2>2, <2>3 DEF Forward, Sweeping
  <1>5. Saving'
    BY <1>1 DEF Saving
  <1>6. StraysTimedOut'
    <2>1. ASSUME NEW w \in workers PROVE flags.budget /\ (row[w] = "timeout" \/ swept[w[1]] = "lost") /\ w[1] \in Models
      <3>1. w \in Pairs
        BY <1>1 DEF TypeOK
      <3> QED BY <1>1, <3>1, PairOf DEF IInv, StraysTimedOut
    <2> QED BY <1>1, <1>2, <1>3, <2>1 DEF StraysTimedOut
  <1>7. AllKept'
    <2>1. ASSUME NEW p \in Pairs, Finished(p)' PROVE Finished(p)
      <3>1. p[1] \in Models /\ p[2] \in Nat /\ p[2] >= 1
        BY PairOf, Sizes DEF Suites
      <3> QED BY <1>1, <1>2, <1>3, <2>1, <3>1 DEF Finished
    <2> QED BY <1>1, <2>1 DEF IInv, AllKept, Kept, ResultsDir
  <1>8. DirsInOrder' /\ NewestWinsWithinYear' /\ SuccessEarned'
    BY <1>1, <1>9 DEF IInv, DirsInOrder, NewestWinsWithinYear, NewestWins, SuccessEarned, Credited
  <1> QED BY <1>3, <1>4, <1>5, <1>6, <1>7, <1>8, <1>9 DEF IInv

LEMMA EvalsDoneInv == IInv /\ EvalsDone => IInv'
  <1> SUFFICES ASSUME IInv, EvalsDone PROVE IInv'
    OBVIOUS
  <1>1. /\ TypeOK /\ stage = "choose" /\ stage' = "idle" /\ suite = K + 1 /\ model \in Models
        /\ UNCHANGED <<program, flags, disk, rerun, yearEnd, model, suite, guarded, row, origin, workers, target, earned, listed>>
        /\ swept' = [swept EXCEPT ![model] = "done"]
    BY DEF IInv, EvalsDone, Forward, Sweeping, files, history
  <1>2. swept'[model] = "done" /\ \A m \in Models : m # model => swept'[m] = swept[m]
    BY <1>1 DEF TypeOK
  <1>3. TypeOK' /\ swept[model] = "pending"
    BY <1>1 DEF IInv, Forward, Sweeping, TypeOK, Stage
  <1>4. Forward'
    <2>1. ASSUME NEW p \in Pairs, ~Behind(p)' PROVE ~Behind(p)
      BY <1>1, <2>1 DEF Behind, Sweeping
    <2>2. \A p \in Pairs : ~Behind(p)' => row[p] = "none" /\ origin[p] = 0 /\ p \notin workers
      BY <1>1, <2>1 DEF IInv, Forward
    <2>3. \A m \in Models : m > model => swept'[m] = "pending"
      BY <1>1, <1>2 DEF IInv, Forward, Models
    <2> QED BY <1>1, <2>2, <2>3 DEF Forward, Sweeping
  <1>5. Saving'
    BY <1>1 DEF Saving
  <1>6. StraysTimedOut'
    <2>1. ASSUME NEW w \in workers PROVE flags.budget /\ (row[w] = "timeout" \/ swept[w[1]] = "lost") /\ w[1] \in Models
      <3>1. w \in Pairs
        BY <1>1 DEF TypeOK
      <3> QED BY <1>1, <3>1, PairOf DEF IInv, StraysTimedOut
    <2> QED BY <1>1, <1>2, <1>3, <2>1 DEF StraysTimedOut
  <1>7. AllKept'
    <2>1. ASSUME NEW p \in Pairs, Finished(p)' PROVE Finished(p)
      <3>1. p[1] \in Models /\ p[2] \in Nat /\ p[2] <= K /\ K \in Nat
        BY PairOf, Sizes DEF Suites
      <3> QED BY <1>1, <1>2, <2>1, <3>1 DEF Finished, Sweeping
    <2> QED BY <1>1, <2>1 DEF IInv, AllKept, Kept, ResultsDir
  <1>8. DirsInOrder' /\ NewestWinsWithinYear' /\ SuccessEarned' /\ Targeted'
    BY <1>1 DEF IInv, DirsInOrder, NewestWinsWithinYear, NewestWins, SuccessEarned, Credited, Targeted
  <1> QED BY <1>3, <1>4, <1>5, <1>6, <1>7, <1>8 DEF IInv

LEMMA LeavingInv == IInv /\ (MainReturns \/ Exit) => IInv'
  <1> SUFFICES ASSUME IInv, MainReturns \/ Exit PROVE IInv'
    OBVIOUS
  <1>1. /\ TypeOK /\ stage \in {"idle", "exiting"} /\ stage' \in {"exiting", "exited"}
        /\ UNCHANGED <<program, flags, disk, rerun, yearEnd, model, suite, guarded, row, origin, swept, workers, target, earned, listed>>
    BY DEF IInv, MainReturns, Exit, files, report, history
  <1>2. TypeOK'
    BY <1>1 DEF TypeOK, Stage
  <1>3. \A p \in Pairs : /\ Behind(p)' = Behind(p)
                         /\ Finished(p)' = Finished(p)
    BY <1>1 DEF Behind, Finished, Sweeping
  <1>4. Forward'
    BY <1>1, <1>3 DEF IInv, Forward, Sweeping
  <1>5. Saving' /\ StraysTimedOut'
    BY <1>1 DEF IInv, Saving, StraysTimedOut
  <1>6. AllKept'
    BY <1>1, <1>3 DEF IInv, AllKept, Kept, ResultsDir
  <1>7. DirsInOrder' /\ NewestWinsWithinYear' /\ SuccessEarned' /\ Targeted'
    BY <1>1 DEF IInv, DirsInOrder, NewestWinsWithinYear, NewestWins, SuccessEarned, Credited, Targeted
  <1> QED BY <1>2, <1>4, <1>5, <1>6, <1>7 DEF IInv

LEMMA StrayEndsInv == IInv /\ StrayEnds => IInv'
  <1> SUFFICES ASSUME IInv, StrayEnds PROVE IInv'
    OBVIOUS
  <1>1. PICK w \in workers : workers' = workers \ {w}
    BY DEF StrayEnds
  <1>2. /\ TypeOK /\ w \in Pairs
        /\ UNCHANGED <<program, flags, disk, rerun, yearEnd, model, suite, stage, guarded, row, origin, swept,
                       target, earned, listed>>
    BY DEF IInv, TypeOK, StrayEnds, files, report, history
  <1>3. TypeOK'
    BY <1>1, <1>2 DEF TypeOK
  <1>4. \A p \in Pairs : /\ Behind(p)' = Behind(p)
                         /\ Finished(p)' = Finished(p)
    BY <1>2 DEF Behind, Finished
  <1>5. Forward' /\ Saving' /\ StraysTimedOut'
    BY <1>1, <1>2, <1>4 DEF IInv, Forward, Saving, StraysTimedOut, Current
  <1>6. AllKept'
    BY <1>2, <1>4 DEF IInv, AllKept, Kept, ResultsDir
  <1>7. DirsInOrder' /\ NewestWinsWithinYear' /\ SuccessEarned' /\ Targeted'
    BY <1>1, <1>2 DEF IInv, DirsInOrder, NewestWinsWithinYear, NewestWins, SuccessEarned, Credited, Targeted
  <1> QED BY <1>3, <1>5, <1>6, <1>7 DEF IInv

LEMMA MeasureInv == IInv /\ Measure => IInv'
  <1> SUFFICES ASSUME IInv, Measure PROVE IInv'
    OBVIOUS
  <1>1. /\ TypeOK /\ stage = "choose" /\ stage' = "measure" /\ suite <= K /\ model \in Models
        /\ workers' \in {workers, workers \cup {Current}} /\ (workers' # workers => flags.budget)
        /\ UNCHANGED <<program, flags, disk, rerun, yearEnd, model, suite, guarded, row, origin, swept, target, earned, listed>>
    BY DEF IInv, Forward, Measure, files, report, history, Sweeping
  <1>2. Current \in Pairs /\ suite \in Suites /\ Current' = Current
    BY <1>1, CurrentPair DEF IInv, Sweeping, Current
  <1>3. TypeOK'
    BY <1>1, <1>2 DEF TypeOK, Stage
  <1>4. \A p \in Pairs : /\ Behind(p)' = Behind(p)
                         /\ Finished(p)' = Finished(p)
    BY <1>1 DEF Behind, Finished, Sweeping
  <1>5. Forward'
    BY <1>1, <1>2, <1>4 DEF IInv, Forward, Sweeping
  <1>6. Saving' /\ StraysTimedOut'
    BY <1>1, <1>2 DEF IInv, Saving, StraysTimedOut
  <1>7. AllKept'
    BY <1>1, <1>4 DEF IInv, AllKept, Kept, ResultsDir
  <1>8. DirsInOrder' /\ NewestWinsWithinYear' /\ SuccessEarned' /\ Targeted'
    BY <1>1 DEF IInv, DirsInOrder, NewestWinsWithinYear, NewestWins, SuccessEarned, Credited, Targeted
  <1> QED BY <1>3, <1>5, <1>6, <1>7, <1>8 DEF IInv

(* From one suite to the next, once its row and record are as they should. *)
LEMMA NextSuite ==
  ASSUME IInv, TypeOK', stage \in {"choose", "save"}, stage' = "choose", suite <= K, suite' = suite + 1,
         UNCHANGED <<flags, model, swept, workers, rerun, program>>,
         NEW c \in Pairs, c = Current,
         Kept(c)', row[c] = "timeout" => row'[c] = "timeout",
         \A p \in Pairs : p # c =>
            row'[p] = row[p] /\ origin'[p] = origin[p] /\ \A d \in Dirs : disk'[d][p] = disk[d][p]
  PROVE  Forward' /\ Saving' /\ StraysTimedOut' /\ AllKept'
  <1>1. TypeOK /\ model \in Models /\ suite \in Nat
    BY DEF IInv, Forward, Sweeping, TypeOK
  <1>2. suite \in Suites /\ c[1] = model /\ c[2] = suite
    BY CurrentPair, <1>1 DEF IInv, Sweeping
  <1>3. \A p \in Pairs : p[1] \in Nat /\ p[2] \in Nat
    BY PairOf, Sizes DEF Models, Suites
  <1>4. ASSUME NEW p \in Pairs, ~Behind(p)' PROVE ~Behind(p) /\ p # c
    BY <1>1, <1>2, <1>3, <1>4 DEF Behind, Sweeping
  <1>5. Forward'
    <2>1. \A p \in Pairs : ~Behind(p)' => row'[p] = "none" /\ origin'[p] = 0 /\ p \notin workers
      BY <1>4 DEF IInv, Forward
    <2>2. \A m \in Models : m > model \/ m = model => swept[m] = "pending"
      BY DEF IInv, Forward, Sweeping
    <2> QED BY <1>1, <2>1, <2>2 DEF Forward, Sweeping
  <1>6. Saving'
    BY DEF Saving
  <1>7. StraysTimedOut'
    <2>1. ASSUME NEW w \in workers PROVE flags.budget /\ (row'[w] = "timeout" \/ swept[w[1]] = "lost")
      <3>1. w \in Pairs
        BY <1>1 DEF TypeOK
      <3> QED BY <3>1 DEF IInv, StraysTimedOut
    <2> QED BY <2>1 DEF StraysTimedOut
  <1>8. AllKept'
    <2>1. ASSUME NEW p \in Pairs, p # c, Finished(p)' PROVE Finished(p)
      <3>1. p = <<p[1], p[2]>> /\ c = <<model, suite>>
        BY PairOf DEF Current
      <3>2. ~(p[1] = model /\ p[2] = suite)
        BY <2>1, <3>1
      <3> QED BY <1>1, <1>3, <2>1, <3>2 DEF Finished, Sweeping
    <2>2. ASSUME NEW p \in Pairs, p # c, Finished(p)' PROVE Kept(p)'
      <3>1. Kept(p)
        BY <2>1, <2>2 DEF IInv, AllKept
      <3>2. ResultsDir' = ResultsDir /\ ResultsDir \in Dirs
        BY <1>1, ResultsDirType DEF ResultsDir
      <3> QED BY <2>2, <3>1, <3>2 DEF Kept
    <2> QED BY <2>2 DEF AllKept
  <1> QED BY <1>5, <1>6, <1>7, <1>8

LEMMA ReuseUnreadableInv == IInv /\ ReuseUnreadable => IInv'
  <1> SUFFICES ASSUME IInv, ReuseUnreadable PROVE IInv'
    OBVIOUS
  <1>1. /\ TypeOK /\ stage = "choose" /\ suite <= K /\ suite' = suite + 1 /\ flags.resume
        /\ UNCHANGED <<program, flags, disk, rerun, yearEnd, model, stage, guarded, row, origin, swept,
                       workers, target, earned, listed>>
    BY DEF IInv, ReuseUnreadable, files, report, history
  <1>2. Current \in Pairs /\ suite \in Suites /\ Current[1] = model /\ Current[2] = suite
    BY <1>1, CurrentPair DEF IInv, Sweeping
  <1>3. PICK d \in Existing(Current) : Recorded(d, Current) \in Broken
    BY DEF ReuseUnreadable
  <1>4. d \in Dirs /\ disk[d][Current] \in Broken
    BY <1>1, <1>2, <1>3, ExistingIn DEF Recorded
  <1>5. TypeOK'
    BY <1>1, Sizes DEF TypeOK
  <1>6. row[Current] = "none"
    <2>1. ~Behind(Current)
      BY <1>1, <1>2, Sizes DEF Behind, Models, Suites, IInv, Forward, Sweeping
    <2> QED BY <1>2, <2>1 DEF IInv, Forward
  <1>7. PICK x \in Pairs : x = Current
    BY <1>2
  <1>8. Kept(x)'
    BY <1>1, <1>4, <1>6, <1>7 DEF Kept
  <1>9. Forward' /\ Saving' /\ StraysTimedOut' /\ AllKept'
    BY <1>1, <1>5, <1>7, <1>8, NextSuite
  <1>10. DirsInOrder' /\ NewestWinsWithinYear' /\ SuccessEarned' /\ Targeted'
    BY <1>1 DEF IInv, DirsInOrder, NewestWinsWithinYear, NewestWins, SuccessEarned, Credited, Targeted
  <1> QED BY <1>5, <1>9, <1>10 DEF IInv

(* The newest record of another program is the one that is reused.         *)
LEMMA ReusedIsNewest ==
  ASSUME IInv, NEW p \in Pairs, NEW d \in Existing(p), yearEnd >= program - 1,
         d \in 1..(program - 1), NEW e \in (d + 1)..(program - 1)
  PROVE  disk[e][p] \notin Verdict
  <1>1. /\ TypeOK /\ program \in Nat /\ Programs \in Nat /\ yearEnd \in Nat /\ program <= Programs
        /\ d \in Nat /\ e \in Nat /\ d \in Dirs /\ e \in Dirs
    BY Sizes DEF IInv, TypeOK, Dirs
  <1>2. CASE rerun
    <2>1. e # 1
      BY <1>1
    <2> QED BY <1>1, <1>2, <2>1 DEF IInv, DirsInOrder, Verdict
  <1>3. CASE ~rerun /\ d = ResultsDir
    BY <1>1, <1>3 DEF ResultsDir
  <1>4. CASE ~rerun /\ d # ResultsDir
    <2>1. \A x \in Candidates(p) : Rank(x) <= Rank(d)
      BY <1>4 DEF Existing
    <2>2. Rank(e) = e + Programs /\ Rank(d) = d + Programs
      BY <1>1 DEF Rank
    <2>3. e \notin Candidates(p)
      BY <1>1, <2>1, <2>2
    <2>4. disk[e][p] \in {"absent", "empty"}
      BY <1>1, <2>3 DEF Candidates, Recorded
    <2> QED BY <2>4 DEF Verdict
  <1> QED BY <1>2, <1>3, <1>4

LEMMA ReuseInv == IInv /\ Reuse => IInv'
  <1> SUFFICES ASSUME IInv, Reuse PROVE IInv'
    OBVIOUS
  <1>1. /\ TypeOK /\ stage = "choose" /\ suite <= K /\ flags.resume /\ model \in Models
        /\ UNCHANGED <<program, flags, rerun, yearEnd, model, swept, workers, target, earned, listed>>
    BY DEF IInv, Reuse, Forward, Sweeping, history
  <1>2. Current \in Pairs /\ suite \in Suites /\ Current[1] = model /\ Current[2] = suite
    BY <1>1, CurrentPair DEF IInv, Sweeping
  <1>3. PICK x \in Pairs : x = Current
    BY <1>2
  <1>4. PICK d \in Existing(x) :
          /\ Recorded(d, x) \in Verdict
          /\ row' = [row EXCEPT ![x] = Recorded(d, x)]
          /\ origin' = [origin EXCEPT ![x] = d]
          /\ IF d = ResultsDir
               THEN suite' = suite + 1 /\ UNCHANGED <<stage, guarded, disk>>
               ELSE /\ stage' = "save" /\ guarded' = TRUE /\ UNCHANGED suite
                    /\ disk' = [disk EXCEPT ![ResultsDir][x] = "empty"]
    BY <1>3 DEF Reuse
  <1>5. d \in Dirs /\ d # 0 /\ d \in 0..Programs /\ Recorded(d, x) = disk[d][x]
    BY <1>1, <1>4, ExistingIn, Sizes DEF Dirs, Recorded
  <1>6. /\ row'[x] = disk[d][x] /\ row'[x] \in Verdict /\ row'[x] # "none" /\ origin'[x] = d
        /\ \A p \in Pairs : p # x => row'[p] = row[p] /\ origin'[p] = origin[p]
        /\ row' \in [Pairs -> Verdict \cup {"none"}] /\ origin' \in [Pairs -> 0..Programs]
    BY <1>1, <1>4, <1>5 DEF TypeOK, Verdict
  <1>7. ~Behind(x) /\ row[x] = "none"
    <2>1. ~Behind(x)
      BY <1>1, <1>2, <1>3, Sizes DEF Behind, Models, Suites, Sweeping
    <2> QED BY <2>1 DEF IInv, Forward
  <1>8. /\ disk' \in [Dirs -> [Pairs -> Record]]
        /\ \A e \in Dirs, p \in Pairs : e # ResultsDir \/ p # x => disk'[e][p] = disk[e][p]
        /\ disk' # disk => disk'[ResultsDir][x] = "empty"
    <2>1. CASE disk' = disk
      BY <1>1, <2>1 DEF TypeOK
    <2>2. CASE disk' = [disk EXCEPT ![ResultsDir][Current] = "empty"]
      BY <1>1, <1>2, <1>3, <2>2, WriteRecord DEF Record, Broken
    <2> QED BY <1>3, <1>4, <2>1, <2>2
  <1>9. TypeOK'
    <2>1. suite' \in 1..(K + 1) /\ stage' \in Stage /\ guarded' \in BOOLEAN
      <3>1. suite \in Nat /\ suite >= 1 /\ suite <= K
        BY <1>2, Sizes DEF Suites
      <3>2. CASE d = ResultsDir
        BY <1>1, <1>4, <3>1, <3>2, Sizes DEF TypeOK
      <3>3. CASE d # ResultsDir
        BY <1>1, <1>4, <3>1, <3>3, Sizes DEF Stage
      <3> QED BY <3>2, <3>3
    <2> QED BY <1>1, <1>6, <1>8, <2>1 DEF TypeOK
  <1>10. SuccessEarned' /\ Targeted'
    <2>1. \A p \in Pairs : Credited(p)' = Credited(p)
      BY <1>1 DEF Credited
    <2> QED BY <1>1, <1>5, <1>6, <1>8, <2>1 DEF IInv, SuccessEarned, Targeted
  <1>11. DirsInOrder'
    <2>1. ResultsDir = IF rerun THEN 1 ELSE program
      BY DEF ResultsDir
    <2>2. program \in Nat
      BY <1>1 DEF TypeOK, Dirs
    <2>3. ASSUME NEW e \in Dirs, NEW p \in Pairs, (rerun /\ e # 1) \/ (~rerun /\ e > program)
          PROVE  disk'[e][p] = "absent"
      <3>1. e # ResultsDir
        BY <2>1, <2>2, <2>3
      <3> QED BY <1>8, <2>3, <3>1 DEF IInv, DirsInOrder
    <2> QED BY <1>1, <2>3 DEF DirsInOrder
  <1>12. NewestWinsWithinYear'
    <2> SUFFICES ASSUME yearEnd >= program - 1, NEW p \in Pairs, NEW e \in Dirs,
                        origin'[p] \in 1..(program - 1), e \in (origin'[p] + 1)..(program - 1)
                 PROVE  disk'[e][p] \notin Verdict
      BY <1>1 DEF NewestWinsWithinYear, NewestWins
    <2>1. disk[e][p] \notin Verdict
      <3>1. CASE p = x
        BY <1>4, <1>6, <3>1, ReusedIsNewest
      <3>2. CASE p # x
        BY <1>6, <3>2 DEF IInv, NewestWinsWithinYear, NewestWins
      <3> QED BY <3>1, <3>2
    <2>2. disk'[e][p] = disk[e][p] \/ disk'[e][p] = "empty"
      BY <1>8
    <2> QED BY <2>1, <2>2 DEF Verdict
  <1>13. CASE d = ResultsDir
    <2>1. suite' = suite + 1 /\ UNCHANGED <<stage, guarded, disk>>
      BY <1>4, <1>13
    <2>2. Kept(x)'
      BY <1>5, <1>6 DEF Kept
    <2>3. Forward' /\ Saving' /\ StraysTimedOut' /\ AllKept'
      BY <1>1, <1>3, <1>6, <1>7, <1>9, <2>1, <2>2, NextSuite
    <2> QED BY <1>9, <1>10, <1>11, <1>12, <2>3 DEF IInv
  <1>14. CASE d # ResultsDir
    <2>1. stage' = "save" /\ UNCHANGED suite
      BY <1>4, <1>14
    <2>2. \A p \in Pairs : ~Behind(p)' => ~Behind(p) /\ p # x
      BY <1>1, <1>2, <1>3, <2>1 DEF Behind, Sweeping
    <2>3. Forward'
      <3>1. \A p \in Pairs : ~Behind(p)' => row'[p] = "none" /\ origin'[p] = 0 /\ p \notin workers
        BY <1>1, <1>6, <2>2 DEF IInv, Forward
      <3> QED BY <1>1, <1>2, <2>1, <3>1 DEF IInv, Forward, Sweeping
    <2>4. Saving'
      BY <1>1, <1>3, <1>5, <1>6, <2>1 DEF Saving, Current
    <2>5. StraysTimedOut'
      <3>1. ASSUME NEW w \in workers PROVE flags.budget /\ (row'[w] = "timeout" \/ swept[w[1]] = "lost")
        <4>1. w \in Pairs /\ w # x
          BY <1>1, <1>7 DEF IInv, Forward, TypeOK
        <4> QED BY <1>1, <1>6, <4>1 DEF IInv, StraysTimedOut
      <3> QED BY <1>1, <3>1 DEF StraysTimedOut
    <2>6. AllKept'
      <3>1. ASSUME NEW p \in Pairs, Finished(p)' PROVE Finished(p) /\ p # x
        <4>1. suite \in Nat /\ swept[model] = "pending"
          BY <1>1, <1>2 DEF TypeOK, IInv, Forward, Sweeping
        <4> QED BY <1>1, <1>2, <1>3, <2>1, <3>1, <4>1 DEF Finished, Sweeping
      <3>2. ASSUME NEW p \in Pairs, Finished(p)' PROVE Kept(p)'
        <4>1. Kept(p) /\ p # x
          BY <3>1, <3>2 DEF IInv, AllKept
        <4>2. ResultsDir' = ResultsDir /\ ResultsDir \in Dirs
          BY <1>1, ResultsDirType DEF ResultsDir
        <4> QED BY <1>1, <1>6, <1>8, <4>1, <4>2 DEF Kept
      <3> QED BY <3>2 DEF AllKept
    <2> QED BY <1>9, <1>10, <1>11, <1>12, <2>3, <2>4, <2>5, <2>6 DEF IInv
  <1> QED BY <1>13, <1>14

(* What is written to the directory of this program leaves those of others *)
(* alone.                                                                  *)
LEMMA WrittenHere ==
  ASSUME IInv, TypeOK', UNCHANGED <<program, rerun, yearEnd>>, NEW c \in Pairs,
         earned \subseteq earned', UNCHANGED <<target, listed>>,
         disk'[ResultsDir][c] = "success" => Credited(c)',
         \A p \in Pairs : row'[p] = "success" => Credited(p)',
         \A e \in Dirs, p \in Pairs : e # ResultsDir \/ p # c => disk'[e][p] = disk[e][p],
         \A p \in Pairs : origin'[p] = origin[p] \/ origin'[p] = 0
  PROVE  DirsInOrder' /\ NewestWinsWithinYear' /\ SuccessEarned' /\ Targeted'
  <1>1. /\ program \in Nat /\ program >= 1
        /\ ResultsDir = IF rerun THEN 1 ELSE program
    BY Sizes DEF IInv, TypeOK, Dirs, ResultsDir
  <1>2. DirsInOrder'
    <2>1. ASSUME NEW e \in Dirs, NEW p \in Pairs, (rerun /\ e # 1) \/ (~rerun /\ e > program)
          PROVE  disk'[e][p] = "absent"
      <3>1. e # ResultsDir
        BY <1>1, <2>1
      <3> QED BY <2>1, <3>1 DEF IInv, DirsInOrder
    <2> QED BY <2>1 DEF DirsInOrder
  <1>3. NewestWinsWithinYear'
    <2> SUFFICES ASSUME yearEnd >= program - 1, NEW p \in Pairs, NEW e \in Dirs,
                        origin'[p] \in 1..(program - 1), e \in (origin'[p] + 1)..(program - 1)
                 PROVE  disk'[e][p] \notin Verdict
      BY DEF NewestWinsWithinYear, NewestWins
    <2>1. origin'[p] = origin[p] /\ e # ResultsDir
      BY <1>1
    <2> QED BY <2>1 DEF IInv, NewestWinsWithinYear, NewestWins
  <1>4. SuccessEarned'
    <2>1. \A p \in Pairs : Credited(p) => Credited(p)'
      BY DEF Credited
    <2> QED BY <2>1 DEF IInv, SuccessEarned
  <1>5. Targeted'
    BY DEF IInv, Targeted
  <1> QED BY <1>2, <1>3, <1>4, <1>5

LEMMA MeasuredInv == ASSUME IInv, NEW v \in Verdict, Measured(v) PROVE IInv'
  <1>1. /\ TypeOK /\ stage = "measure" /\ stage' = "save" /\ model \in Models /\ suite \in Suites
        /\ UNCHANGED <<program, flags, rerun, yearEnd, model, suite, swept, target, listed>>
    BY DEF IInv, Forward, Sweeping, Measured
  <1>2. Current \in Pairs /\ Current[1] = model /\ Current[2] = suite
    BY <1>1, CurrentPair, Sizes DEF IInv, Sweeping, Suites
  <1>3. PICK x \in Pairs : x = Current
    BY <1>2
  <1>4. /\ row'[x] = v /\ origin'[x] = 0
        /\ \A p \in Pairs : p # x => row'[p] = row[p] /\ origin'[p] = origin[p]
        /\ row' \in [Pairs -> Verdict \cup {"none"}] /\ origin' \in [Pairs -> 0..Programs]
    BY <1>1, <1>3, Sizes DEF Measured, TypeOK
  <1>5. /\ disk' \in [Dirs -> [Pairs -> Record]]
        /\ disk'[ResultsDir][x] = "empty"
        /\ \A e \in Dirs, p \in Pairs : e # ResultsDir \/ p # x => disk'[e][p] = disk[e][p]
    BY <1>1, <1>2, <1>3, WriteRecord DEF Measured, Record, Broken
  <1>6. /\ workers' \in SUBSET Pairs /\ workers' \subseteq workers
        /\ earned \subseteq earned' /\ (v = "success" => Success(x) \in earned')
        /\ x \in workers' => v = "timeout" /\ flags.budget
        /\ guarded' \in BOOLEAN /\ (guarded' => v # "success")
    BY <1>1, <1>3 DEF Measured, TypeOK
  <1>7. TypeOK'
    <2>1. earned' \in SUBSET (Models \X (1..(M + 1)) \X Suites)
      BY <1>1, <1>3, SuccessType DEF Measured, TypeOK
    <2> QED BY <1>1, <1>4, <1>5, <1>6, <2>1 DEF TypeOK, Stage
  <1>8. \A p \in Pairs : ~Behind(p)' => ~Behind(p) /\ p # x
    BY <1>1, <1>2, <1>3 DEF Behind, Sweeping
  <1>9. Forward'
    <2>1. \A p \in Pairs : ~Behind(p)' => row'[p] = "none" /\ origin'[p] = 0 /\ p \notin workers'
      BY <1>3, <1>4, <1>6, <1>8 DEF IInv, Forward
    <2> QED BY <1>1, <2>1 DEF IInv, Forward, Sweeping
  <1>10. Saving'
    BY <1>1, <1>3, <1>4, <1>6 DEF Saving, Current
  <1>11. StraysTimedOut'
    <2>1. ASSUME NEW w \in workers' PROVE flags.budget /\ (row'[w] = "timeout" \/ swept[w[1]] = "lost")
      <3>1. w \in Pairs /\ w \in workers
        BY <1>6
      <3> QED BY <1>3, <1>4, <1>6, <3>1 DEF IInv, StraysTimedOut
    <2> QED BY <1>1, <2>1 DEF StraysTimedOut
  <1>12. AllKept'
    <2>1. ASSUME NEW p \in Pairs, Finished(p)' PROVE Finished(p) /\ p # x
      <3>1. suite \in Nat /\ swept[model] = "pending"
        BY <1>1, Sizes DEF Suites, IInv, Forward, Sweeping
      <3> QED BY <1>1, <1>2, <1>3, <2>1, <3>1 DEF Finished, Sweeping
    <2>2. ASSUME NEW p \in Pairs, Finished(p)' PROVE Kept(p)'
      <3>1. Kept(p) /\ p # x
        BY <2>1, <2>2 DEF IInv, AllKept
      <3>2. ResultsDir' = ResultsDir /\ ResultsDir \in Dirs
        BY <1>1, ResultsDirType DEF ResultsDir
      <3> QED BY <1>1, <1>4, <1>5, <3>1, <3>2 DEF Kept
    <2> QED BY <2>2 DEF AllKept
  <1>13. DirsInOrder' /\ NewestWinsWithinYear' /\ SuccessEarned' /\ Targeted'
    <2>0. v = "success" => Credited(x)'
      BY <1>1, <1>6, SuccessCredits DEF IInv
    <2>3. \A p \in Pairs : Credited(p) => Credited(p)'
      BY <1>1, <1>6 DEF Credited
    <2>1. \A p \in Pairs : row'[p] = "success" => Credited(p)'
      BY <1>4, <2>0, <2>3 DEF IInv, SuccessEarned
    <2>2. \A p \in Pairs : origin'[p] = origin[p] \/ origin'[p] = 0
      BY <1>4
    <2> QED BY <1>1, <1>5, <1>6, <1>7, <2>1, <2>2, WrittenHere
  <1> QED BY <1>7, <1>9, <1>10, <1>11, <1>12, <1>13 DEF IInv

LEMMA SavedInv == IInv /\ Saved => IInv'
  <1> SUFFICES ASSUME IInv, Saved PROVE IInv'
    OBVIOUS
  <1>1. /\ TypeOK /\ stage = "save" /\ stage' = "choose" /\ suite' = suite + 1
        /\ model \in Models /\ suite \in Suites /\ guarded' = FALSE
        /\ UNCHANGED <<program, flags, rerun, yearEnd, model, row, origin, swept, workers, target, earned, listed>>
    BY DEF IInv, Forward, Sweeping, Saved, report, history
  <1>2. Current \in Pairs /\ suite <= K /\ suite \in Nat /\ suite >= 1
    BY <1>1, CurrentPair, Sizes DEF IInv, Sweeping, Suites
  <1>3. PICK x \in Pairs : x = Current
    BY <1>2
  <1>4. row[x] \in Verdict
    BY <1>1, <1>3 DEF IInv, Saving
  <1>5. /\ disk' \in [Dirs -> [Pairs -> Record]]
        /\ disk'[ResultsDir][x] = row[x]
        /\ \A e \in Dirs, p \in Pairs : e # ResultsDir \/ p # x => disk'[e][p] = disk[e][p]
    BY <1>1, <1>2, <1>3, <1>4, WriteRecord DEF Saved, Record
  <1>6. TypeOK'
    <2>1. suite' \in 1..(K + 1)
      BY <1>1, <1>2, Sizes
    <2>2. stage' \in Stage /\ guarded' \in BOOLEAN
      BY <1>1 DEF Stage
    <2> QED BY <1>1, <1>5, <2>1, <2>2 DEF TypeOK
  <1>7. Kept(x)'
    BY <1>1, <1>4, <1>5 DEF Kept, Verdict, ResultsDir
  <1>8. Forward' /\ Saving' /\ StraysTimedOut' /\ AllKept'
    <2>1. \A p \in Pairs : p # x => \A d \in Dirs : disk'[d][p] = disk[d][p]
      BY <1>5
    <2> QED BY <1>1, <1>2, <1>3, <1>6, <1>7, <2>1, NextSuite
  <1>9. row[x] = "success" => Credited(x)
    BY DEF IInv, SuccessEarned
  <1>11. \A p \in Pairs : Credited(p)' = Credited(p)
    BY <1>1 DEF Credited
  <1>10. DirsInOrder' /\ NewestWinsWithinYear' /\ SuccessEarned' /\ Targeted'
    <2>1. \A p \in Pairs : row'[p] = "success" => Credited(p)'
      BY <1>1, <1>11 DEF IInv, SuccessEarned
    <2> QED BY <1>1, <1>5, <1>6, <1>9, <1>11, <2>1, WrittenHere
  <1> QED BY <1>6, <1>8, <1>10 DEF IInv

LEMMA SaveFailsInv == IInv /\ SaveFails => IInv'
  <1> SUFFICES ASSUME IInv, SaveFails PROVE IInv'
    OBVIOUS
  <1>1. /\ TypeOK /\ stage = "save" /\ model \in Models /\ suite \in Suites /\ guarded' = FALSE
        /\ UNCHANGED <<program, flags, rerun, yearEnd, model, workers, target, earned, listed>>
    BY DEF IInv, Forward, Sweeping, SaveFails, history
  <1>2. Current \in Pairs /\ suite <= K /\ suite \in Nat /\ suite >= 1
    BY <1>1, CurrentPair, Sizes DEF IInv, Sweeping, Suites
  <1>3. PICK x \in Pairs : x = Current
    BY <1>2
  <1>4. PICK b \in Broken : disk' = [disk EXCEPT ![ResultsDir][Current] = b]
    BY DEF SaveFails
  <1>5. /\ disk' \in [Dirs -> [Pairs -> Record]]
        /\ disk'[ResultsDir][x] = b /\ b \notin Verdict
        /\ \A e \in Dirs, p \in Pairs : e # ResultsDir \/ p # x => disk'[e][p] = disk[e][p]
    BY <1>1, <1>2, <1>3, <1>4, WriteRecord DEF Record, Broken, Verdict
  <1>6. \A p \in Pairs : p # x => \A d \in Dirs : disk'[d][p] = disk[d][p]
    BY <1>5
  <1>7. CASE guarded
    <2>1. suite' = suite + 1 /\ stage' = "choose" /\ UNCHANGED <<row, origin, swept>>
      BY <1>7 DEF SaveFails, report
    <2>2. TypeOK'
      <3>1. suite' \in 1..(K + 1)
        BY <1>2, <2>1, Sizes
      <3>2. stage' \in Stage /\ guarded' \in BOOLEAN
        BY <1>1, <2>1 DEF Stage
      <3> QED BY <1>1, <1>5, <2>1, <3>1, <3>2 DEF TypeOK
    <2>3. Kept(x)'
      BY <1>1, <1>3, <1>7, <2>1 DEF Kept, IInv, Saving, Verdict
    <2>4. Forward' /\ Saving' /\ StraysTimedOut' /\ AllKept'
      BY <1>1, <1>2, <1>3, <1>6, <2>1, <2>2, <2>3, NextSuite
    <2>5. DirsInOrder' /\ NewestWinsWithinYear' /\ SuccessEarned' /\ Targeted'
      <3>1. \A p \in Pairs : row'[p] = "success" => Credited(p)'
        BY <1>1, <2>1 DEF IInv, SuccessEarned, Credited
      <3> QED BY <1>1, <1>5, <2>1, <2>2, <3>1, WrittenHere DEF Verdict
    <2> QED BY <2>2, <2>4, <2>5 DEF IInv
  <1>8. CASE ~guarded
    <2>1. /\ swept' = [swept EXCEPT ![model] = "lost"] /\ stage' = "idle" /\ UNCHANGED suite
          /\ row' = [p \in Pairs |-> IF p[1] = model THEN "none" ELSE row[p]]
          /\ origin' = [p \in Pairs |-> IF p[1] = model THEN 0 ELSE origin[p]]
      BY <1>8 DEF SaveFails
    <2>2. swept'[model] = "lost" /\ \A m \in Models : m # model => swept'[m] = swept[m]
      BY <1>1, <2>1 DEF TypeOK
    <2>3. TypeOK'
      <3>1. row' \in [Pairs -> Verdict \cup {"none"}] /\ origin' \in [Pairs -> 0..Programs]
        BY <1>1, <2>1, Sizes DEF TypeOK
      <3> QED BY <1>1, <1>5, <2>1, <3>1 DEF TypeOK, Stage
    <2>4. \A p \in Pairs : (row'[p] = "none" /\ origin'[p] = 0) \/ (p[1] # model /\ row'[p] = row[p] /\ origin'[p] = origin[p])
      BY <2>1
    <2>5. Forward'
      <3>1. \A p \in Pairs : ~Behind(p)' => ~Behind(p)
        BY <1>1, <2>1 DEF Behind, Sweeping
      <3>2. \A p \in Pairs : ~Behind(p)' => row'[p] = "none" /\ origin'[p] = 0 /\ p \notin workers
        BY <1>1, <2>4, <3>1 DEF IInv, Forward
      <3>3. \A m \in Models : m > model => swept'[m] = "pending"
        BY <1>1, <2>2, Sizes DEF IInv, Forward, Models
      <3> QED BY <1>1, <2>1, <3>2, <3>3 DEF Forward, Sweeping
    <2>6. Saving'
      BY <2>1 DEF Saving
    <2>7. StraysTimedOut'
      <3>1. ASSUME NEW w \in workers PROVE flags.budget /\ (row'[w] = "timeout" \/ swept'[w[1]] = "lost")
        <4>1. w \in Pairs /\ w[1] \in Models
          BY <1>1, PairOf DEF TypeOK
        <4>2. flags.budget /\ (row[w] = "timeout" \/ swept[w[1]] = "lost")
          BY <1>1 DEF IInv, StraysTimedOut
        <4>3. w[1] # model => row'[w] = row[w] /\ swept'[w[1]] = swept[w[1]]
          BY <2>1, <2>2, <4>1
        <4> QED BY <2>2, <4>2, <4>3
      <3> QED BY <1>1, <3>1 DEF StraysTimedOut
    <2>8. AllKept'
      <3>1. ASSUME NEW p \in Pairs, Finished(p)' PROVE Kept(p)'
        <4>1. p[1] \in Models /\ p[1] # model /\ swept[p[1]] = "done"
          BY <2>1, <2>2, <3>1, PairOf DEF Finished, Sweeping
        <4>2. Kept(p) /\ p # x /\ row'[p] = row[p] /\ origin'[p] = origin[p]
          BY <1>3, <2>1, <4>1 DEF IInv, AllKept, Finished, Current
        <4>3. ResultsDir' = ResultsDir /\ ResultsDir \in Dirs
          BY <1>1, ResultsDirType DEF ResultsDir
        <4> QED BY <1>1, <1>6, <4>2, <4>3 DEF Kept
      <3> QED BY <3>1 DEF AllKept
    <2>9. DirsInOrder' /\ NewestWinsWithinYear' /\ SuccessEarned' /\ Targeted'
      <3>1. \A p \in Pairs : row'[p] = "success" => Credited(p)'
        BY <1>1, <2>4 DEF IInv, SuccessEarned, Credited
      <3>2. \A p \in Pairs : origin'[p] = origin[p] \/ origin'[p] = 0
        BY <2>4
      <3> QED BY <1>1, <1>3, <1>5, <2>3, <3>1, <3>2, WrittenHere DEF Verdict
    <2> QED BY <2>3, <2>5, <2>6, <2>7, <2>8, <2>9 DEF IInv
  <1> QED BY <1>7, <1>8

-----------------------------------------------------------------------------
LEMMA StepInv == IInv /\ [Next]_vars => IInv'
  <1> SUFFICES ASSUME IInv, [Next]_vars PROVE IInv'
    OBVIOUS
  <1>1. CASE UNCHANGED vars
    <2>1. \A p \in Pairs : /\ Behind(p)' = Behind(p) /\ Finished(p)' = Finished(p) /\ Kept(p)' = Kept(p)
      BY <1>1 DEF vars, Behind, Finished, Kept, ResultsDir
    <2> QED BY <1>1, <2>1 DEF vars, IInv, TypeOK, Forward, Saving, StraysTimedOut, AllKept, DirsInOrder,
                 NewestWinsWithinYear, NewestWins, SuccessEarned, Credited, Targeted, history, Current
  <1>2. CASE SuiteReturns \/ SuiteRaises \/ SuiteRaisesTimeout \/ TimeOut
    BY <1>2, MeasuredBy, MeasuredInv
  <1>3. CASE LastReturns
    BY <1>3, LeavingInv DEF LastReturns
  <1> QED BY <1>1, <1>2, <1>3, BootInv, ReuseInv, ReuseUnreadableInv, MeasureInv, SavedInv, SaveFailsInv,
             EvalsDoneInv, NextModelInv, LeavingInv, StrayEndsInv, CrashInv, RestartInv
          DEF Next, Sweep

(* The inductive invariant holds throughout.                               *)
THEOREM Invariance == Spec => []IInv
  <1> QED BY InitInv, StepInv, PTL DEF Spec

(* Every variable of the sweep keeps its type.                             *)
THEOREM TypeCorrect == Spec => []TypeOK
  <1>1. IInv => TypeOK
    BY DEF IInv
  <1> QED BY <1>1, Invariance, PTL

(* No crash, torn file, reuse or stray thread makes a success up.          *)
THEOREM SuccessIsEarned == Spec => []SuccessEarned
  <1>1. IInv => SuccessEarned
    BY DEF IInv
  <1> QED BY <1>1, Invariance, PTL

(* Only suites that timed out, or whose rows were lost, run beside the     *)
(* sweep.                                                                  *)
THEOREM OnlyTimedOutStray == Spec => []StraysTimedOut
  <1>1. IInv => StraysTimedOut
    BY DEF IInv
  <1> QED BY <1>1, Invariance, PTL

(* A finished sweep misses no row but those of unreadable records.         *)
THEOREM OnlyUnreadableDropped == Spec => []DroppedOnlyUnreadable
  <1>1. IInv => DroppedOnlyUnreadable
    <2> SUFFICES ASSUME IInv, NEW m \in Models, NEW s \in Suites, swept[m] = "done",
                        row[<<m, s>>] = "none"
                 PROVE  flags.resume /\ \E d \in Dirs : disk[d][<<m, s>>] \in Broken
      BY DEF DroppedOnlyUnreadable
    <2>1. <<m, s>> \in Pairs /\ Finished(<<m, s>>)
      BY DEF Pairs, Finished
    <2> QED BY <2>1 DEF IInv, AllKept, Kept
  <1> QED BY <1>1, Invariance, PTL

(* A measured success that a finished sweep reports is on disk.            *)
THEOREM SuccessIsOnDisk == Spec => []SuccessOnDisk
  <1>1. IInv => SuccessOnDisk
    <2> SUFFICES ASSUME IInv, NEW m \in Models, NEW s \in Suites, swept[m] = "done",
                        row[<<m, s>>] = "success", origin[<<m, s>>] = 0
                 PROVE  disk[ResultsDir][<<m, s>>] = "success"
      BY DEF SuccessOnDisk
    <2>1. <<m, s>> \in Pairs /\ Finished(<<m, s>>)
      BY DEF Pairs, Finished
    <2> QED BY <2>1 DEF IInv, AllKept, Kept
  <1> QED BY <1>1, Invariance, PTL

(* Within a year the newest record is the one that is reused.              *)
THEOREM NewestIsReused == Spec => []NewestWinsWithinYear
  <1>1. IInv => NewestWinsWithinYear
    BY DEF IInv
  <1> QED BY <1>1, Invariance, PTL

-----------------------------------------------------------------------------
(* Campaign                                                                *)

(* Cell i of pass m is skipped by the loops.                               *)
Skipped(m, i) == ~Runs(m, Pillars[i])

DriverType ==
  /\ plan \in Plans /\ order \in Orders /\ slo = order[1]
  /\ groups \in [Models -> Models]
  /\ pass \in 1..(M + 1) /\ pillar \in 1..10 /\ turn \in 1..Len(order)
  /\ begun \in BOOLEAN
  /\ failedModels \subseteq Models
  /\ exit \in {"none", "ok", "model_failure", "harness_error"}

(* Where the loops are, and what they do there.                            *)
Loops ==
  /\ pass <= M /\ pillar <= 9 => Runs(pass, Pillars[pillar])
  /\ turn > 1 => pass <= M /\ pillar <= 9 /\ Here \in PerCampaign
  /\ begun => Working /\ pillar \in {8, 9}
  /\ exit # "none" => pass = M + 1 /\ exit = ExitCode

-----------------------------------------------------------------------------
(* Lemmas about the loops                                                  *)

(* The least-number principle, for sets: it stands in for induction.       *)
LEMMA LeastNat ==
  ASSUME NEW T, T \subseteq Nat, T # {}
  PROVE  \E x \in T : \A y \in T : x <= y
  <1>1. IsWellFoundedOn(OpToRel(<, Nat), Nat)
    BY NatLessThanWellFounded
  <1>2. PICK x \in T : \A y \in T : ~ (<<y, x>> \in OpToRel(<, Nat))
    BY <1>1, WFMin
  <1>3. \A y \in T : ~(y < x)
    <2> SUFFICES ASSUME NEW y \in T, y < x PROVE <<y, x>> \in OpToRel(<, Nat)
      BY <1>2
    <2>1. <<y, x>> \in Nat \X Nat /\ <<y, x>>[1] < <<y, x>>[2]
      OBVIOUS
    <2> QED BY <2>1, Zenon DEF OpToRel
  <1> QED BY <1>3

LEMMA OrderType ==
  ASSUME NEW o \in Orders
  PROVE  /\ o \in Seq(CampaignNames) /\ Len(o) \in Nat /\ Len(o) >= 1
         /\ \A t \in 1..Len(o) : o[t] \in CampaignNames
  <1>1. o \in Seq(CampaignNames) /\ o # <<>>
    BY CampaignConstants
  <1> QED BY <1>1

LEMMA PillarAt ==
  /\ Len(Pillars) = 9
  /\ Pillars[1] = "serving" /\ Pillars[2] = "throughput"
  /\ Pillars[3] = "serving_mm" /\ Pillars[4] = "throughput_mm"
  /\ Pillars[5] = "stress" /\ Pillars[6] = "stress_mm"
  /\ Pillars[7] = "quality" /\ Pillars[8] = "golden" /\ Pillars[9] = "evals"
  BY DEF Pillars

LEMMA PillarKind ==
  ASSUME NEW i \in 1..9
  PROVE  /\ Pillars[i] \in PerCampaign <=> i \in 1..4
         /\ Pillars[i] \in Measurements <=> i \in 1..7
         /\ Pillars[i] = "golden" <=> i = 8
         /\ Pillars[i] = "evals" <=> i = 9
         /\ Pillars[i] \in {"stress", "stress_mm"} <=> i \in {5, 6}
         /\ Pillars[i] \in TextPillars => i \in {1, 2, 5}
         /\ Pillars[i] \in {"serving", "serving_mm", "quality"} <=> i \in {1, 3, 7}
  <1>1. i \in {1, 2, 3, 4, 5, 6, 7, 8, 9}
    OBVIOUS
  <1> QED BY <1>1, PillarAt DEF PerCampaign, Measurements, TextPillars

LEMMA NextPillarIs ==
  ASSUME NEW m, NEW i \in 1..10
  PROVE  /\ NextPillar(m, i) \in i..10
         /\ NextPillar(m, i) <= 9 => Runs(m, Pillars[NextPillar(m, i)])
         /\ \A k \in i..(NextPillar(m, i) - 1) : Skipped(m, k)
  <1> DEFINE T == {j \in i..10 : j <= 9 => Runs(m, Pillars[j])}
  <1>1. T \subseteq Nat /\ 10 \in T
    OBVIOUS
  <1>2. PICK x \in T : \A y \in T : x <= y
    <2> HIDE DEF T
    <2> QED BY <1>1, LeastNat
  <1>3. \A k \in i..(x - 1) : Skipped(m, k)
    <2> SUFFICES ASSUME NEW k \in i..(x - 1) PROVE Skipped(m, k)
      OBVIOUS
    <2>1. k \notin T /\ k \in i..10
      BY <1>2
    <2> QED BY <2>1 DEF Skipped
  <1>4. \E j \in i..(9 + 1) : /\ j <= 9 => Runs(m, Pillars[j])
                              /\ \A k \in i..(j - 1) : ~Runs(m, Pillars[k])
    BY <1>2, <1>3 DEF Skipped
  <1> QED BY <1>4, PillarAt DEF NextPillar, Skipped

(* One campaign, one pillar or one pass further.                           *)
LEMMA AdvanceLoops ==
  ASSUME DriverType, Loops, pass <= M, pillar <= 9, Advance
  PROVE  /\ pass' = pass /\ turn' \in 1..Len(order)
         /\ \/ /\ pillar \in 1..4 /\ turn < Len(order)
               /\ turn' = turn + 1 /\ pillar' = pillar
            \/ /\ pillar \in 1..4 => turn = Len(order)
               /\ turn' = 1
               /\ pillar' \in (pillar + 1)..10
               /\ pillar' <= 9 => Runs(pass, Pillars[pillar'])
               /\ \A k \in (pillar + 1)..(pillar' - 1) : Skipped(pass, k)
  <1>1. pillar \in 1..9 /\ Len(order) \in Nat /\ turn \in 1..Len(order)
    BY OrderType DEF DriverType
  <1>2. Here \in PerCampaign <=> pillar \in 1..4
    BY <1>1, PillarKind DEF Here
  <1>3. CASE pillar \in 1..4 /\ turn < Len(order)
    BY <1>1, <1>2, <1>3 DEF Advance
  <1>4. CASE ~(pillar \in 1..4 /\ turn < Len(order))
    <2>1. pass' = pass /\ turn' = 1 /\ pillar' = NextPillar(pass, pillar + 1)
      BY <1>1, <1>2, <1>4 DEF Advance
    <2>2. pillar + 1 \in 1..10
      BY <1>1
    <2>3. /\ pillar' \in (pillar + 1)..10
          /\ pillar' <= 9 => Runs(pass, Pillars[pillar'])
          /\ \A k \in (pillar + 1)..(pillar' - 1) : Skipped(pass, k)
      BY <2>1, <2>2, NextPillarIs
    <2>4. (pillar \in 1..4 => turn = Len(order)) /\ 1 \in 1..Len(order)
      BY <1>1, <1>4
    <2> QED BY <2>1, <2>3, <2>4
  <1> QED BY <1>3, <1>4

LEMMA PassLoops ==
  ASSUME DriverType, NEW n \in (pass + 1)..(M + 1),
         pass' = n, turn' = 1, pillar' = IF n <= M THEN NextPillar(n, 1) ELSE 1
  PROVE  /\ pass' \in 1..(M + 1) /\ turn' \in 1..Len(order)
         /\ pillar' \in 1..10 /\ (n = M + 1 => pillar' = 1)
         /\ n <= M => /\ pillar' <= 9 => Runs(n, Pillars[pillar'])
                      /\ \A k \in 1..(pillar' - 1) : Skipped(n, k)
  <1>1. pass \in 1..(M + 1) /\ M \in Nat /\ Len(order) \in Nat /\ 1 \in 1..Len(order)
    BY OrderType, Sizes DEF DriverType
  <1> QED BY <1>1, NextPillarIs

(* The passes that are left out belong to the model that failed.           *)
LEMMA FailLoops ==
  ASSUME DriverType, pass <= M, FailModel
  PROVE  \E n \in (pass + 1)..(M + 1) :
           /\ pass' = n /\ turn' = 1 /\ pillar' = IF n <= M THEN NextPillar(n, 1) ELSE 1
           /\ \A k \in (pass + 1)..(n - 1) : groups[k] = groups[pass]
           /\ failedModels' = failedModels \cup {groups[pass]}
  <1>1. pass \in Nat /\ M \in Nat /\ M + 1 \in (pass + 1)..(M + 1)
    BY Sizes DEF DriverType
  <1> DEFINE T == {m \in (pass + 1)..(M + 1) : m <= M => groups[m] # groups[pass]}
  <1>2. T \subseteq Nat /\ M + 1 \in T
    BY <1>1
  <1>3. PICK x \in T : \A y \in T : x <= y
    <2> HIDE DEF T
    <2> QED BY <1>2, LeastNat
  <1>4. \A k \in (pass + 1)..(x - 1) : groups[k] = groups[pass]
    <2> SUFFICES ASSUME NEW k \in (pass + 1)..(x - 1) PROVE groups[k] = groups[pass]
      OBVIOUS
    <2>1. k \notin T /\ k \in (pass + 1)..(M + 1)
      BY <1>1, <1>3
    <2> QED BY <1>1, <2>1
  <1>5. \E m \in (pass + 1)..(M + 1) : /\ m <= M => groups[m] # groups[pass]
                                       /\ \A k \in (pass + 1)..(m - 1) : groups[k] = groups[pass]
    BY <1>3, <1>4
  <1> QED BY <1>5 DEF FailModel

-----------------------------------------------------------------------------
(* What the steps of the driver and of the parts it calls do to the loops. *)

CellDone ==
  /\ Working /\ begun' = FALSE /\ exit' = exit
  /\ UNCHANGED <<plan, order, groups, slo>>
  /\ \/ Advance /\ failedModels' = failedModels
     \/ FailModel

Called ==
  /\ Working /\ pillar \in {8, 9} /\ begun' = TRUE
  /\ UNCHANGED <<plan, order, groups, slo, conf, pass, pillar, turn, rows, failedModels, exit>>

LEMMA DriverSteps ==
  ASSUME DriverType, Loops, Driver
  PROVE  \/ CellDone
         \/ Called
         \/ PassDone
         \/ Return
  <1>1. Working => pillar \in 1..9
    BY PillarAt DEF Working, DriverType
  <1>2. CASE MeasureCell \/ CellRaises
    <2>1. Working /\ ~begun
      <3>1. pillar \in 1..7
        BY <1>1, <1>2, PillarKind DEF MeasureCell, CellRaises, Here
      <3> QED BY <1>2, <3>1 DEF MeasureCell, CellRaises, Loops
    <2>2. begun' = FALSE
      BY <1>2, <2>1 DEF MeasureCell, CellRaises, DriverType
    <2> QED BY <1>2, <2>1, <2>2 DEF MeasureCell, CellRaises, CellDone, args
  <1>3. CASE GoldenReturns \/ EvalsReturn
    BY <1>3 DEF GoldenReturns, EvalsReturn, CellDone, args
  <1>4. CASE CallGolden \/ CallEvals
    <2>1. Working /\ pillar \in {8, 9}
      BY <1>1, <1>4, PillarKind DEF CallGolden, CallEvals, Here
    <2> QED BY <1>4, <2>1 DEF CallGolden, CallEvals, Called, args, loop
  <1> QED BY <1>2, <1>3, <1>4 DEF Driver

(* From where the loops are to where they go.                              *)
Onward ==
  \/ /\ pass' = pass /\ turn < Len(order) /\ turn' = turn + 1
     /\ pillar \in 1..4 /\ pillar' = pillar
  \/ /\ pass' = pass /\ turn' = 1 /\ pillar' \in (pillar + 1)..10
     /\ pillar \in 1..4 => turn = Len(order)
     /\ \A k \in (pillar + 1)..(pillar' - 1) : Skipped(pass, k)
  \/ /\ pass' \in (pass + 1)..(M + 1) /\ turn' = 1
     /\ pass' <= M => \A k \in 1..(pillar' - 1) : Skipped(pass', k)
     /\ pass' = M + 1 => pillar' = 1
     /\ \A k \in (pass + 1)..(pass' - 1) : groups[k] \in failedModels'
     /\ pillar = 10 \/ groups[pass] \in failedModels'

LEMMA LoopsMove ==
  ASSUME DriverType, Loops, CellDone \/ PassDone
  PROVE  /\ Onward /\ DriverType' /\ Loops'
         /\ failedModels \subseteq failedModels' /\ exit' = "none" /\ begun' = FALSE
         /\ UNCHANGED <<plan, order, groups, slo>>
  <1>1. /\ pass \in 1..M /\ pillar \in 1..10 /\ exit = "none" /\ M \in Nat
        /\ UNCHANGED <<plan, order, groups, slo>> /\ exit' = exit /\ begun' = FALSE
    <2>1. ~begun \/ CellDone
      BY PillarAt DEF PassDone, Loops, Working, DriverType
    <2>2. pass \in 1..M /\ pillar \in 1..10 /\ exit = "none" /\ M \in Nat
      BY Sizes DEF CellDone, PassDone, Working, DriverType
    <2> QED BY <2>1, <2>2 DEF CellDone, PassDone, DriverType, args
  <1>2. groups[pass] \in Models
    BY <1>1 DEF DriverType, Models
  <1>3. CASE CellDone /\ Advance /\ failedModels' = failedModels
    <2>1. pillar <= 9
      BY <1>3, PillarAt DEF CellDone, Working
    <2>2. pass <= M
      BY <1>1
    <2>3. Onward /\ pass' \in 1..(M + 1) /\ pillar' \in 1..10 /\ turn' \in 1..Len(order)
      <3>1. pass' = pass /\ turn' \in 1..Len(order)
        BY <1>3, <2>1, <2>2, AdvanceLoops
      <3>2. CASE pillar \in 1..4 /\ turn < Len(order) /\ turn' = turn + 1 /\ pillar' = pillar
        BY <1>1, <3>1, <3>2 DEF Onward
      <3>3. CASE /\ pillar \in 1..4 => turn = Len(order)
                 /\ turn' = 1
                 /\ pillar' \in (pillar + 1)..10
                 /\ \A k \in (pillar + 1)..(pillar' - 1) : Skipped(pass, k)
        <4>1. Onward
          BY <3>1, <3>3 DEF Onward
        <4>2. pass' \in 1..(M + 1) /\ pillar' \in 1..10
          <5> HIDE DEF Onward
          <5>1. pillar' \in (pillar + 1)..10 /\ pillar \in 1..10 /\ pass \in 1..M /\ M \in Nat /\ pass' = pass
            BY <1>1, <3>1, <3>3
          <5>2. QED
            BY <5>1
        <4>3. QED
          BY <3>1, <4>1, <4>2
      <3>4. QED
        BY <1>3, <2>1, <2>2, <3>2, <3>3, AdvanceLoops
    <2>4. pillar' <= 9 => Runs(pass', Pillars[pillar'])
      BY <1>1, <1>3, <2>1, <2>2, AdvanceLoops DEF Loops
    <2>5. turn' > 1 => pillar' \in 1..4
      BY <1>1, <1>3, <2>1, <2>2, AdvanceLoops
    <2>6. turn' > 1 => pillar' <= 9 /\ Pillars[pillar'] \in PerCampaign /\ pass' <= M
      BY <1>1, <1>3, <2>5, PillarKind DEF Advance
    <2>7. DriverType'
      BY <1>1, <1>3, <2>3 DEF DriverType
    <2>8. Loops'
      BY <1>1, <2>4, <2>6 DEF Loops, Here, Runs
    <2> QED BY <1>1, <1>3, <2>3, <2>7, <2>8
  <1>4. ASSUME NEW n \in (pass + 1)..(M + 1),
               pass' = n, turn' = 1, pillar' = IF n <= M THEN NextPillar(n, 1) ELSE 1,
               failedModels' \subseteq Models
        PROVE  DriverType' /\ Loops'
    <2>1. /\ pass' \in 1..(M + 1) /\ turn' \in 1..Len(order) /\ pillar' \in 1..10
          /\ n <= M /\ pillar' <= 9 => Runs(n, Pillars[pillar'])
      BY <1>4, PassLoops
    <2>2. DriverType'
      BY <1>1, <1>4, <2>1 DEF DriverType
    <2>3. Loops'
      BY <1>1, <1>4, <2>1 DEF Loops, Runs
    <2> QED BY <2>2, <2>3
  <1>5. CASE CellDone /\ FailModel
    <2>0. pass <= M
      BY <1>1
    <2>1. PICK n \in (pass + 1)..(M + 1) :
             /\ pass' = n /\ turn' = 1 /\ pillar' = IF n <= M THEN NextPillar(n, 1) ELSE 1
             /\ \A k \in (pass + 1)..(n - 1) : groups[k] = groups[pass]
             /\ failedModels' = failedModels \cup {groups[pass]}
      BY <1>5, <2>0, FailLoops
    <2>2. failedModels' \subseteq Models
      BY <1>2, <2>1 DEF DriverType
    <2>3. /\ n = M + 1 => pillar' = 1
          /\ n <= M => \A k \in 1..(pillar' - 1) : Skipped(n, k)
      BY <2>1, PassLoops
    <2> QED BY <1>1, <1>4, <2>1, <2>2, <2>3 DEF Onward
  <1>6. CASE PassDone
    <2>1. pass' = pass + 1 /\ turn' = 1 /\ pillar = 10 /\ failedModels' = failedModels
          /\ pillar' = IF pass < M THEN NextPillar(pass + 1, 1) ELSE 1
      BY <1>6, PillarAt DEF PassDone
    <2>2. PICK n \in (pass + 1)..(M + 1) : n = pass + 1
      BY <1>1
    <2>3. pass' = n /\ pillar' = IF n <= M THEN NextPillar(n, 1) ELSE 1
      BY <1>1, <2>1, <2>2
    <2>4. failedModels' \subseteq Models
      BY <2>1 DEF DriverType
    <2>5. /\ n = M + 1 => pillar' = 1
          /\ n <= M => \A k \in 1..(pillar' - 1) : Skipped(n, k)
      BY <2>1, <2>3, PassLoops
    <2>6. \A k \in (pass + 1)..(pass' - 1) : FALSE
      BY <1>1, <2>1
    <2> QED BY <1>1, <1>4, <2>1, <2>2, <2>3, <2>4, <2>5, <2>6 DEF Onward
  <1> QED BY <1>3, <1>5, <1>6 DEF CellDone

-----------------------------------------------------------------------------
(* The golden set                                                          *)

(* No case is passed or failed but by a model that is served, or skipped   *)
(* but for want of a modality.                                             *)
CasesAnswered ==
  \A c \in Cases :
    /\ results[c] \in {"passed", "failed"} => modelId \in served
    /\ results[c] = "not_applicable" => c \in MediaCases /\ judged \in textOnly
    /\ c < at => results[c] # "none"

(* A name once resolved is the one asked, and no result is there before    *)
(* the first case.                                                         *)
GoldenInv ==
  /\ GoldenTypeOK
  /\ judged = 0 => at = 0
  /\ at = 0 => \A c \in Cases : results[c] = "none"
  /\ \A m \in Named : asked[m] # 0 => asked[m] = modelId
  /\ at > 0 => modelId # 0 /\ asked[judged] = modelId
  /\ CasesAnswered
  /\ VerdictNeedsAnswer

(* The runner works for the pass the loops are at.                         *)
GoldenCalled ==
  /\ judged # 0 => begun /\ pillar = 8 /\ judged = groups[pass]
  /\ begun /\ pillar = 8 => judged # 0 \/ verdict[groups[pass]] # "none"

LEMMA GoldenSizes == N \in Nat /\ N >= 1 /\ C \in Nat /\ C >= 1 /\ MaxAttempts \in Nat /\ MaxAttempts >= 1
                     /\ MediaCases \subseteq 1..C /\ N = M /\ Named = Models
  BY GoldenConstants, CampaignConstants DEF Named, Models

LEMMA GoldenStart == GoldenInit => GoldenInv
  BY GoldenSizes DEF GoldenInit, GoldenInv, GoldenTypeOK, CasesAnswered, VerdictNeedsAnswer, Named, Cases

(* The runner puts its cases to the model it resolved.                     *)
LEMMA AskInv ==
  ASSUME GoldenInv, judged # 0, at = 0, NEW m \in Named, Ask(m), modelId = 0 \/ modelId = m
  PROVE  GoldenInv'
  <1>1. /\ judged \in Named /\ m # 0 /\ modelId' = m /\ at' = 1
        /\ asked' = [asked EXCEPT ![judged] = m]
        /\ UNCHANGED <<override, served, textOnly, judged, attempt, results, verdict>>
    BY GoldenSizes DEF GoldenInv, GoldenTypeOK, Ask, Named, endpoint
  <1>2. /\ asked'[judged] = m
        /\ \A n \in Named : n # judged => asked'[n] = asked[n]
    BY <1>1 DEF GoldenInv, GoldenTypeOK
  <1>3. GoldenTypeOK'
    BY <1>1, GoldenSizes DEF GoldenInv, GoldenTypeOK, Named
  <1>4. \A n \in Named : asked'[n] # 0 => asked'[n] = m
    BY <1>2 DEF GoldenInv
  <1>5. VerdictNeedsAnswer'
    <2>1. ASSUME NEW n \in Named, asked[n] \in served PROVE asked'[n] \in served
      <3>1. served \subseteq Named
        BY DEF GoldenInv, GoldenTypeOK
      <3>2. asked[n] # 0
        BY <2>1, <3>1 DEF Named
      <3> QED BY <1>1, <1>2, <2>1, <3>2 DEF GoldenInv
    <2> QED BY <1>1, <2>1 DEF GoldenInv, VerdictNeedsAnswer
  <1>6. CasesAnswered'
    <2>1. \A c \in Cases : results'[c] = "none" /\ c \in Nat /\ ~(c < at')
      BY <1>1, GoldenSizes DEF GoldenInv, Cases
    <2> QED BY <2>1 DEF CasesAnswered
  <1> QED BY <1>1, <1>2, <1>3, <1>4, <1>5, <1>6 DEF GoldenInv

(* A verdict is given on the model that is judged.                         *)
LEMMA SummariseInv ==
  ASSUME GoldenInv, judged # 0, NEW v \in {"passed", "failed", "error"}, Summarise(v),
         v = "failed" => asked[judged] \in served,
         v = "passed" => asked[judged] \in served \/ (Cases \subseteq MediaCases /\ judged \in textOnly),
         UNCHANGED <<endpoint, modelId, asked>>
  PROVE  GoldenInv'
  <1>1. /\ judged \in Named /\ verdict' = [verdict EXCEPT ![judged] = v]
        /\ judged' = 0 /\ at' = 0 /\ attempt' = 0
        /\ results' = [c \in Cases |-> "none"]
        /\ UNCHANGED <<override, served, textOnly, modelId, asked>>
    BY GoldenSizes DEF GoldenInv, GoldenTypeOK, Summarise, Named, endpoint
  <1>2. GoldenTypeOK'
    BY <1>1, GoldenSizes DEF GoldenInv, GoldenTypeOK
  <1>3. VerdictNeedsAnswer'
    <2>1. /\ verdict'[judged] = v
          /\ \A n \in Named : n # judged => verdict'[n] = verdict[n]
      BY <1>1 DEF GoldenInv, GoldenTypeOK
    <2>2. ASSUME NEW n \in Named
          PROVE  /\ verdict'[n] = "failed" => asked[n] \in served
                 /\ verdict'[n] = "passed" => asked[n] \in served \/ (Cases \subseteq MediaCases /\ n \in textOnly)
      <3>1. CASE n = judged
        BY <2>1, <3>1
      <3>2. CASE n # judged
        BY <2>1, <3>2 DEF GoldenInv, VerdictNeedsAnswer
      <3> QED BY <3>1, <3>2
    <2> QED BY <1>1, <2>2 DEF VerdictNeedsAnswer
  <1>4. CasesAnswered'
    <2>1. \A c \in Cases : results'[c] = "none" /\ c \in Nat /\ ~(c < at')
      BY <1>1, GoldenSizes DEF Cases
    <2> QED BY <2>1 DEF CasesAnswered
  <1> QED BY <1>1, <1>2, <1>3, <1>4 DEF GoldenInv

(* A case gets its status.                                                 *)
LEMMA SettleInv ==
  ASSUME GoldenInv, at \in Cases, NEW s \in Status, Settle(s),
         s \in {"passed", "failed"} => modelId \in served,
         s = "not_applicable" => at \in MediaCases /\ judged \in textOnly
  PROVE  GoldenInv'
  <1>1. /\ results' = [results EXCEPT ![at] = s] /\ at' = at + 1 /\ attempt' = 0
        /\ UNCHANGED <<override, served, textOnly, modelId, judged, asked, verdict>>
        /\ at \in 1..C
    BY DEF Settle, Cases, endpoint
  <1>2. GoldenTypeOK'
    BY <1>1, GoldenSizes DEF GoldenInv, GoldenTypeOK
  <1>3. VerdictNeedsAnswer'
    BY <1>1 DEF GoldenInv, GoldenTypeOK, VerdictNeedsAnswer
  <1>4. at > 0 /\ at' > 0 /\ judged # 0
    BY <1>1 DEF GoldenInv
  <1>5. CasesAnswered'
    <2>1. /\ results'[at] = s /\ s # "none"
          /\ \A c \in Cases : c # at => results'[c] = results[c]
      BY <1>1 DEF GoldenInv, GoldenTypeOK, Status
    <2>2. \A c \in Cases : c \in Nat /\ (c < at' => c < at \/ c = at)
      BY <1>1, GoldenSizes DEF Cases
    <2> QED BY <1>1, <2>1, <2>2 DEF GoldenInv, CasesAnswered
  <1> QED BY <1>1, <1>2, <1>3, <1>4, <1>5 DEF GoldenInv

LEMMA GoldenStepInv == GoldenInv /\ GoldenStep => GoldenInv'
  <1> SUFFICES ASSUME GoldenInv, GoldenStep PROVE GoldenInv'
    OBVIOUS
  <1>1. CASE ResolvedBefore
    <2>1. modelId \in Named
      BY <1>1, GoldenSizes DEF ResolvedBefore, GoldenInv, GoldenTypeOK, Named
    <2> QED BY <1>1, <2>1, AskInv DEF ResolvedBefore
  <1>10. CASE ResolveOverride
    <2>1. override \in Named
      BY <1>10, GoldenSizes DEF ResolveOverride, GoldenInv, GoldenTypeOK, Named
    <2> QED BY <1>10, <2>1, AskInv DEF ResolveOverride
  <1>2. CASE ResolveListed
    <2>1. PICK m \in served : Ask(m) /\ modelId = 0 /\ judged # 0 /\ at = 0
      BY <1>2 DEF ResolveListed
    <2>2. m \in Named
      BY <2>1 DEF GoldenInv, GoldenTypeOK
    <2> QED BY <2>1, <2>2, AskInv
  <1>3. CASE ResolveConfigured
    <2>1. judged \in Named
      BY <1>3, GoldenSizes DEF ResolveConfigured, GoldenInv, GoldenTypeOK, Named
    <2> QED BY <1>3, <2>1, AskInv DEF ResolveConfigured
  <1>4. CASE ResolveFails
    BY <1>4, SummariseInv DEF ResolveFails
  <1>5. CASE NotApplicable
    BY <1>5, GoldenSizes, SettleInv DEF NotApplicable, Status, Cases
  <1>6. CASE Answered
    <2>1. PICK s \in {"passed", "failed", "error"} : Settle(s)
      BY <1>6 DEF Answered
    <2> QED BY <1>6, <2>1, SettleInv DEF Answered, Applicable, Status
  <1>7. CASE Refused
    BY <1>7, SettleInv DEF Refused, Applicable, Status
  <1>8. CASE Transient
    <2>1. CASE attempt + 1 < MaxAttempts
      <3>1. /\ attempt' = attempt + 1
            /\ UNCHANGED <<override, served, textOnly, modelId, judged, at, results, asked, verdict>>
        BY <1>8, <2>1 DEF Transient, endpoint
      <3>2. GoldenTypeOK'
        BY <2>1, <3>1, GoldenSizes DEF GoldenInv, GoldenTypeOK
      <3> QED BY <3>1, <3>2 DEF GoldenInv, CasesAnswered, VerdictNeedsAnswer
    <2>2. CASE ~(attempt + 1 < MaxAttempts)
      BY <1>8, <2>2, SettleInv DEF Transient, Applicable, Status
    <2> QED BY <2>1, <2>2
  <1>9. CASE Conclude
    <2> DEFINE v == Reduce({results[c] : c \in Cases})
    <2>1. /\ at = C + 1 /\ Summarise(v) /\ UNCHANGED <<endpoint, modelId, asked>>
          /\ at > 0 /\ judged # 0
      BY <1>9, GoldenSizes DEF Conclude, GoldenInv
    <2>2. v \in {"passed", "failed", "error"}
      BY DEF Reduce
    <2>3. v = "failed" => \E c \in Cases : results[c] = "failed"
      BY DEF Reduce
    <2>4. v = "failed" => asked[judged] \in served
      BY <2>1, <2>3 DEF GoldenInv, CasesAnswered
    <2>5. v = "passed" => asked[judged] \in served \/ (Cases \subseteq MediaCases /\ judged \in textOnly)
      <3> SUFFICES ASSUME v = "passed", asked[judged] \notin served
                   PROVE  Cases \subseteq MediaCases /\ judged \in textOnly
        OBVIOUS
      <3>1. \A c \in Cases : results[c] # "error"
        BY DEF Reduce
      <3>2. \A c \in Cases : c < at
        BY <2>1, GoldenSizes DEF Cases
      <3>3. \A c \in Cases : results[c] \notin {"none", "passed", "failed", "error"}
        BY <2>1, <3>1, <3>2 DEF GoldenInv, CasesAnswered
      <3>4. \A c \in Cases : results[c] = "not_applicable"
        BY <3>3 DEF GoldenInv, GoldenTypeOK, Status
      <3>5. \A c \in Cases : c \in MediaCases /\ judged \in textOnly
        BY <3>4 DEF GoldenInv, CasesAnswered
      <3> QED BY <3>5, GoldenSizes DEF Cases
    <2> HIDE DEF v
    <2> QED BY <2>1, <2>2, <2>4, <2>5, SummariseInv
  <1> QED BY <1>1, <1>10, <1>2, <1>3, <1>4, <1>5, <1>6, <1>7, <1>8, <1>9 DEF GoldenStep

(* The runner ends with a verdict on the model it was called for.          *)
LEMMA GoldenStepCalled ==
  ASSUME GoldenInv, GoldenStep
  PROVE  /\ judged # 0 \/ (judged' = judged /\ verdict' = verdict)
         /\ judged' = judged \/ (judged' = 0 /\ verdict'[judged] # "none")
         /\ \A m \in Named : verdict'[m] = verdict[m] \/ m = judged
  <1>1. \A v \in {"passed", "failed", "error"} : Summarise(v) /\ judged # 0 =>
           /\ judged' = 0 /\ verdict'[judged] # "none"
           /\ \A m \in Named : verdict'[m] = verdict[m] \/ m = judged
    BY GoldenSizes DEF GoldenInv, GoldenTypeOK, Summarise, Named
  <1>2. at \in Cases => judged # 0
    BY GoldenSizes DEF GoldenInv, Cases
  <1>3. CASE ResolveFails \/ Conclude
    <2>1. judged # 0 /\ \E v \in {"passed", "failed", "error"} : Summarise(v)
      BY <1>3, GoldenSizes DEF ResolveFails, Conclude, Reduce, GoldenInv
    <2> QED BY <1>1, <2>1
  <1>4. CASE ResolvedBefore \/ ResolveOverride \/ ResolveListed \/ ResolveConfigured
    BY <1>4 DEF ResolvedBefore, ResolveOverride, ResolveListed, ResolveConfigured, Ask
  <1>5. CASE NotApplicable \/ Answered \/ Refused \/ Transient
    <2>1. at \in Cases
      BY <1>5, GoldenSizes DEF NotApplicable, Answered, Refused, Transient, Applicable, Cases
    <2>2. judged' = judged /\ verdict' = verdict
      BY <1>5 DEF NotApplicable, Answered, Refused, Transient, Settle
    <2> QED BY <1>2, <2>1, <2>2
  <1> QED BY <1>3, <1>4, <1>5 DEF GoldenStep

-----------------------------------------------------------------------------
(* The rows                                                                *)

Sound(s, b) ==
  /\ pillar \in 1..7 => s \in {"ok", "failed"}
  /\ pillar = 8 => s \in {"passed", "failed", "error"}
  /\ b => Beside(Here) /\ pillar \in 1..7

(* A cell that is done leaves its row, or the model is given up.           *)
CellRow ==
  \/ FailModel /\ rows' = rows
  \/ /\ Advance /\ failedModels' = failedModels
     /\ \E s, b : Sound(s, b) /\ rows' = rows \cup {Row(Here, s, b)}

Cell == MeasureCell \/ CellRaises \/ GoldenReturns \/ EvalsReturn

LEMMA CellRows ==
  ASSUME DriverType, Loops, GoldenInv, GoldenCalled, Cell
  PROVE  /\ CellDone /\ CellRow /\ conf' = ConfHere /\ pillar \in 1..9 /\ pass \in 1..M
         /\ (pillar = 9 <=> EvalsReturn)
         /\ (pillar = 8 <=> GoldenReturns)
         /\ UNCHANGED <<vars, goldenVars>>
  <1>1. Working /\ pillar \in 1..9 /\ pass \in 1..M
    <2>1. Working
      BY DEF Cell, MeasureCell, CellRaises, GoldenReturns, EvalsReturn
    <2> QED BY <2>1, PillarAt, Sizes DEF Working, DriverType
  <1>2. /\ MeasureCell \/ CellRaises => pillar \in 1..7
        /\ GoldenReturns => pillar = 8
        /\ EvalsReturn => pillar = 9
    <2>1. /\ Here \in Measurements <=> pillar \in 1..7
          /\ Here = "golden" <=> pillar = 8
          /\ Here = "evals" <=> pillar = 9
          /\ Here \in {"serving", "serving_mm", "quality"} <=> pillar \in {1, 3, 7}
      BY <1>1, PillarKind DEF Here
    <2>2. MeasureCell => pillar \in 1..7
      BY <2>1 DEF MeasureCell
    <2>3. CellRaises => pillar \in 1..7
      <3>1. CellRaises => pillar \in {1, 3, 7}
        BY <2>1 DEF CellRaises
      <3> QED BY <3>1
    <2>4. (GoldenReturns => pillar = 8) /\ (EvalsReturn => pillar = 9)
      BY <2>1 DEF GoldenReturns, EvalsReturn
    <2> QED BY <2>2, <2>3, <2>4
  <1>3. pillar \in {8, 9} => ConfHere = conf
    BY <1>1, PillarKind DEF ConfHere, Here
  <1>4. CellDone
    <2>1. Driver
      BY DEF Cell, Driver
    <2>2. ~Called
      <3>1. CASE MeasureCell \/ CellRaises
        BY <1>2, <3>1 DEF Called
      <3>2. CASE GoldenReturns \/ EvalsReturn
        BY <3>2 DEF GoldenReturns, EvalsReturn, Called
      <3> QED BY <3>1, <3>2 DEF Cell
    <2>3. ~PassDone
      BY <1>1, PillarAt DEF PassDone
    <2>4. ~Return
      BY <1>1, Sizes DEF Return
    <2> QED BY <2>1, <2>2, <2>3, <2>4, DriverSteps
  <1>5. CellRow /\ conf' = ConfHere /\ UNCHANGED <<vars, goldenVars>>
    <2>1. CASE MeasureCell
      <3>1. PICK s \in {"ok", "failed"} : rows' = rows \cup {Row(Here, s, Beside(Here))}
        BY <2>1 DEF MeasureCell
      <3>2. Sound(s, Beside(Here))
        BY <1>2, <2>1, <3>1 DEF Sound
      <3> QED BY <2>1, <3>1, <3>2 DEF MeasureCell, CellRow
    <2>2. CASE CellRaises
      BY <2>2 DEF CellRaises, CellRow
    <2>3. CASE GoldenReturns
      <3>1. rows' = rows \cup {Row(Here, verdict[groups[pass]], FALSE)}
        BY <2>3 DEF GoldenReturns
      <3>2. verdict[groups[pass]] \in {"passed", "failed", "error"}
        <4>1. groups[pass] \in Named /\ judged = 0 /\ begun
          BY <1>1, <2>3, GoldenSizes DEF DriverType, Models, GoldenReturns
        <4> QED BY <1>2, <2>3, <4>1 DEF GoldenCalled, GoldenInv, GoldenTypeOK
      <3>3. Sound(verdict[groups[pass]], FALSE)
        BY <1>2, <2>3, <3>2 DEF Sound
      <3> QED BY <1>2, <1>3, <2>3, <3>1, <3>3 DEF GoldenReturns, CellRow
    <2>4. CASE EvalsReturn
      <3>1. CASE swept[pass] = "lost"
        BY <1>2, <1>3, <2>4, <3>1 DEF EvalsReturn, CellRow
      <3>2. CASE swept[pass] # "lost"
        <4>1. rows' = rows \cup {Row(Here, swept[pass], FALSE)} /\ Advance /\ UNCHANGED failedModels
          BY <2>4, <3>2 DEF EvalsReturn
        <4>2. Sound(swept[pass], FALSE)
          BY <1>2, <2>4 DEF Sound
        <4> QED BY <1>2, <1>3, <2>4, <4>1, <4>2 DEF EvalsReturn, CellRow
      <3> QED BY <3>1, <3>2
    <2> QED BY <2>1, <2>2, <2>3, <2>4 DEF Cell
  <1>6. (pillar = 9 <=> EvalsReturn) /\ (pillar = 8 <=> GoldenReturns)
    <2>1. CASE MeasureCell \/ CellRaises
      BY <1>2, <2>1
    <2>2. CASE GoldenReturns
      BY <1>2, <2>2
    <2>3. CASE EvalsReturn
      BY <1>2, <2>3
    <2> QED BY <2>1, <2>2, <2>3 DEF Cell
  <1> QED BY <1>1, <1>4, <1>5, <1>6

LabelOf(i, t) == IF Pillars[i] \in PerCampaign THEN order[t] ELSE "none"

(* The loops have been at turn t of cell i of pass m.                      *)
Before(m, i, t) ==
  \/ m < pass
  \/ m = pass /\ (i < pillar \/ (i = pillar /\ t < turn))

HasRow(m, i, t) ==
  \E r \in rows : r.pass = m /\ r.pillar = Pillars[i] /\ r.label = LabelOf(i, t)

Covered ==
  \A m \in Models, i \in 1..9, t \in 1..Len(order) :
    Before(m, i, t) /\ Runs(m, Pillars[i]) /\ groups[m] \notin failedModels => HasRow(m, i, t)

RowsTrue ==
  \A r \in rows :
    /\ r.pass \in 1..pass
    /\ r.pillar \in TextPillars => r.status \in {"ok", "failed"}
    /\ r.pillar = "golden" => r.status \in {"passed", "failed", "error"}

LEMMA BelowIn == ASSUME NEW a \in Nat, NEW b \in Nat, b >= 1, b < a PROVE b \in 1..(a - 1)
  OBVIOUS

LEMMA Between ==
  ASSUME NEW a \in Nat, NEW b \in Nat, NEW c \in Nat, a <= b, b < c, b \notin (a + 1)..(c - 1)
  PROVE  a = b
  OBVIOUS

(* Wherever the loops go on to, they leave a row behind them or a model    *)
(* that is reported as failed.                                             *)
LEMMA CoveredStep ==
  ASSUME DriverType, Loops, Covered, CellDone \/ PassDone, rows \subseteq rows',
         CellDone /\ ~FailModel =>
           \E r \in rows' : r.pass = pass /\ r.pillar = Pillars[pillar] /\ r.label = LabelOf(pillar, turn),
         FailModel => groups[pass] \in failedModels'
  PROVE  Covered'
  <1>1. /\ Onward /\ failedModels \subseteq failedModels' /\ DriverType'
        /\ UNCHANGED <<plan, order, groups>>
    BY LoopsMove
  <1>6. pillar' \in Nat /\ pillar' <= 10 /\ pass' \in Nat
    BY <1>1, Sizes DEF DriverType
  <1>2. pass \in Nat /\ pillar \in 1..10 /\ turn \in 1..Len(order) /\ Len(order) \in Nat /\ M \in Nat
    BY OrderType, Sizes DEF DriverType
  <1> SUFFICES ASSUME NEW m \in Models, NEW i \in 1..9, NEW t \in 1..Len(order),
                      Before(m, i, t)', Runs(m, Pillars[i]), groups[m] \notin failedModels'
               PROVE  \E r \in rows' : r.pass = m /\ r.pillar = Pillars[i] /\ r.label = LabelOf(i, t)
    BY <1>1 DEF Covered, HasRow, LabelOf, Runs
  <1>3. groups[m] \notin failedModels /\ m \in Nat /\ m <= M /\ i \in Nat /\ i >= 1 /\ i <= 9
    BY <1>1 DEF Models
  <1>4. CASE Before(m, i, t)
    BY <1>3, <1>4, SMTT(30) DEF Covered, HasRow
  <1>5. CASE ~Before(m, i, t)
    <2>1. ~Skipped(m, i)
      BY DEF Skipped
    <2>2. /\ m = pass /\ i = pillar
          /\ t = turn \/ pillar \notin 1..4
      <3>1. CASE /\ pass' = pass /\ turn < Len(order) /\ turn' = turn + 1
                 /\ pillar \in 1..4 /\ pillar' = pillar
        BY <1>2, <1>3, <1>5, <3>1 DEF Before
      <3>2. CASE /\ pass' = pass /\ turn' = 1 /\ pillar' \in (pillar + 1)..10
                 /\ pillar \in 1..4 => turn = Len(order)
                 /\ \A k \in (pillar + 1)..(pillar' - 1) : Skipped(pass, k)
        <4>1. m = pass /\ i < pillar' /\ ~(i < pillar) /\ (i = pillar => ~(t < turn))
          BY <1>2, <1>3, <1>5, <3>2 DEF Before
        <4>2. ~(i \in (pillar + 1)..(pillar' - 1))
          BY <2>1, <3>2, <4>1
        <4>3. i = pillar
          BY <1>2, <1>3, <1>6, <4>1, <4>2
        <4>4. pillar \in 1..4 => t = turn
          BY <1>2, <3>2, <4>1, <4>3
        <4> QED BY <4>1, <4>3, <4>4
      <3>3. CASE /\ pass' \in (pass + 1)..(M + 1) /\ turn' = 1
                 /\ pass' <= M => \A k \in 1..(pillar' - 1) : Skipped(pass', k)
                 /\ pass' = M + 1 => pillar' = 1
                 /\ \A k \in (pass + 1)..(pass' - 1) : groups[k] \in failedModels'
                 /\ pillar = 10 \/ groups[pass] \in failedModels'
        <4>1. m < pass' \/ (m = pass' /\ i < pillar')
          BY <1>2, <1>3, <3>3 DEF Before
        <4>2. m # pass'
          <5>1. CASE m = pass' /\ i < pillar'
            <6>1. pass' <= M
              BY <1>3, <5>1
            <6>2. i \in 1..(pillar' - 1)
              BY <1>3, <1>6, <5>1, BelowIn
            <6>3. \A k \in 1..(pillar' - 1) : Skipped(pass', k)
              BY <3>3, <6>1
            <6>4. Skipped(pass', i)
              BY <6>2, <6>3
            <6> QED BY <2>1, <5>1, <6>4
          <5>2. CASE m < pass'
            BY <1>2, <1>3, <3>3, <5>2
          <5> QED BY <4>1, <5>1, <5>2
        <4>3. m < pass' /\ m >= pass
          BY <1>2, <1>3, <1>5, <4>1, <4>2 DEF Before
        <4>4. m = pass
          <5>1. m \notin (pass + 1)..(pass' - 1)
            BY <3>3
          <5>2. pass <= m /\ m < pass'
            BY <1>2, <1>3, <4>3
          <5> QED BY <1>2, <1>3, <1>6, <5>1, <5>2, Between
        <4>5. pillar = 10
          BY <3>3, <4>4
        <4> QED BY <1>2, <1>5, <4>4, <4>5 DEF Before
      <3> QED BY <1>1, <3>1, <3>2, <3>3 DEF Onward
    <2>3. CellDone /\ ~FailModel
      <3>1. pillar \in 1..9 /\ groups[pass] \notin failedModels'
        BY <2>2
      <3>2. ~PassDone
        BY <3>1, PillarAt DEF PassDone
      <3> QED BY <3>1, <3>2
    <2>4. LabelOf(i, t) = LabelOf(pillar, turn)
      <3>1. Pillars[i] \in PerCampaign <=> i \in 1..4
        BY PillarKind
      <3> QED BY <2>2, <3>1 DEF LabelOf
    <2> QED BY <2>2, <2>3, <2>4
  <1> QED BY <1>4, <1>5

-----------------------------------------------------------------------------
(* The sweep                                                               *)

(* The sweep works for the pass the loops are at, and is done with the     *)
(* passes before it.                                                       *)
SweepCalled ==
  /\ stage \in Sweeping => begun /\ pillar = 9 /\ model = pass
  /\ model <= pass
  /\ model = pass => pillar = 10 \/ (begun /\ pillar = 9)

(* What a step of the sweep leaves alone.                                  *)
LEMMA SweepFrame ==
  ASSUME IInv, Sweep \/ TimeOut \/ Exit \/ StrayEnds
  PROVE  /\ IInv' /\ flags' = flags /\ model' = model
         /\ stage' \in Sweeping => stage \in Sweeping
         /\ stage \in Sweeping \/ (row' = row /\ swept' = swept)
         /\ \A p \in Pairs : p[1] # model => row'[p] = row[p] /\ swept'[p[1]] = swept[p[1]]
  <1>1. TypeOK /\ (stage \in Sweeping => model \in Models)
    BY DEF IInv, Forward
  <1>2. IInv'
    <2>1. CASE SuiteReturns \/ SuiteRaises \/ SuiteRaisesTimeout \/ TimeOut
      BY <2>1, MeasuredBy, MeasuredInv
    <2> QED BY <2>1, BootInv, ReuseInv, ReuseUnreadableInv, MeasureInv, SavedInv, SaveFailsInv,
               EvalsDoneInv, LeavingInv, StrayEndsInv DEF Sweep
  <1>3. CASE Exit \/ StrayEnds
    BY <1>2, <1>3 DEF Exit, StrayEnds, report, files, Sweeping
  <1>4. CASE Sweep \/ TimeOut
    <2>1. stage \in Sweeping /\ model \in Models
      BY <1>1, <1>4 DEF Sweep, TimeOut, Boot, Reuse, ReuseUnreadable, Measure, SuiteReturns, SuiteRaises,
            SuiteRaisesTimeout, Saved, SaveFails, EvalsDone, Sweeping
    <2>2. flags' = flags /\ model' = model
      BY <1>4 DEF Sweep, TimeOut, Boot, Reuse, ReuseUnreadable, Measure, SuiteReturns, SuiteRaises,
            SuiteRaisesTimeout, Saved, SaveFails, EvalsDone, ReportRow
    <2>3. \A p \in Pairs : p[1] # model => p # Current
      BY DEF Current
    <2>4. \A p \in Pairs : p[1] # model => row'[p] = row[p]
      <3>1. CASE SuiteReturns \/ SuiteRaises \/ SuiteRaisesTimeout \/ TimeOut
        <4>1. \E v : row' = [row EXCEPT ![Current] = v]
          BY <3>1 DEF SuiteReturns, SuiteRaises, SuiteRaisesTimeout, TimeOut, ReportRow
        <4> HIDE DEF Current
        <4> QED BY <1>1, <2>3, <4>1 DEF TypeOK
      <3>2. CASE Reuse
        <4>1. \E v : row' = [row EXCEPT ![Current] = v]
          BY <3>2 DEF Reuse
        <4> HIDE DEF Current
        <4> QED BY <1>1, <2>3, <4>1 DEF TypeOK
      <3>3. CASE SaveFails
        <4>1. row' = row \/ row' = [p \in Pairs |-> IF p[1] = model THEN "none" ELSE row[p]]
          BY <3>3 DEF SaveFails, report
        <4> QED BY <4>1
      <3>4. CASE Boot \/ ReuseUnreadable \/ Measure \/ Saved \/ EvalsDone
        BY <3>4 DEF Boot, ReuseUnreadable, Measure, Saved, EvalsDone, report
      <3> QED BY <1>4, <3>1, <3>2, <3>3, <3>4 DEF Sweep
    <2>5. \A m \in Models : m # model => swept'[m] = swept[m]
      <3>1. swept' = swept \/ \E v : swept' = [swept EXCEPT ![model] = v]
        BY <1>4 DEF Sweep, TimeOut, Boot, Reuse, ReuseUnreadable, Measure, SuiteReturns, SuiteRaises,
              SuiteRaisesTimeout, Saved, SaveFails, EvalsDone, ReportRow, report
      <3> QED BY <1>1, <3>1 DEF TypeOK
    <2> QED BY <1>2, <2>1, <2>2, <2>4, <2>5, PairOf
  <1> QED BY <1>3, <1>4

(* A row made beside an abandoned suite names its culprit.                 *)
LEMMA BesideRow ==
  ASSUME IInv, DriverType, Loops, SweepCalled, pillar \in 1..7, pass \in 1..M, Beside(Here)
  PROVE  /\ flags.budget
         /\ \E m \in 1..(pass - 1) : swept[m] = "lost" \/ \E s \in Suites : row[<<m, s>>] = "timeout"
  <1>1. PICK w \in workers : TRUE
    BY DEF Beside
  <1>2. w \in Pairs /\ stage \notin Sweeping
    BY DEF IInv, TypeOK, SweepCalled
  <1>3. w = <<w[1], w[2]>> /\ w[1] \in Models /\ w[2] \in Suites
    BY <1>2, PairOf
  <1>4. flags.budget /\ (row[w] = "timeout" \/ swept[w[1]] = "lost")
    BY <1>1, <1>2 DEF IInv, StraysTimedOut, Sweeping
  <1>5. Behind(w)
    BY <1>1, <1>2 DEF IInv, Forward, Sweeping
  <1>6. model \in Nat /\ w[1] \in Nat /\ w[1] >= 1 /\ pass \in Nat
    BY <1>3, Sizes DEF IInv, TypeOK, Models
  <1>7. w[1] <= model
    BY <1>5, <1>6 DEF Behind
  <1>8. model < pass
    BY <1>6 DEF SweepCalled
  <1>9. w[1] \in 1..(pass - 1)
    BY <1>6, <1>7, <1>8
  <1> QED BY <1>3, <1>4, <1>9

-----------------------------------------------------------------------------
(* The configuration                                                       *)

OnlyChat == \A t \in 1..Len(order) : order[t] = "chat_like"

(* The lengths that the first k campaigns leave behind: those of the last  *)
(* one that has any.                                                       *)
LeftBy(lengths, k) ==
  \A t \in 1..k : order[t] # "chat_like" /\ (\A u \in (t + 1)..k : order[u] = "chat_like")
                    => lengths = Geometry[order[t]]

ConfAfter(c, k) == c.window = CampaignCtx(order[k], c.lengths) /\ LeftBy(c.lengths, k)

(* One of the pillars measured per campaign is done in this pass.          *)
Campaigned == \E j \in 1..4 : j < pillar /\ Runs(pass, Pillars[j])

ConfInv ==
  /\ OnlyChat => conf.lengths = Geometry.preset
  /\ turn > 1 => ConfAfter(conf, turn - 1)
  /\ turn = 1 /\ pass <= M /\ Campaigned => ConfAfter(conf, Len(order))
  /\ plan \cap PerCampaign = {} => conf = Applied(order[1], Preset)

(* What a stress test is measured with.                                    *)
StressedWith(c) ==
  /\ OnlyChat => c.lengths = Geometry.preset
  /\ IF plan \cap PerCampaign = {}
       THEN c.lengths = Applied(order[1], Preset).lengths /\ c.window = Applied(order[1], Preset).window
       ELSE ConfAfter(c, Len(order))

StressRows ==
  \A r \in rows : r.slo # "none" => r.slo = slo /\ StressedWith(r)

LEMMA AppliedConf ==
  ASSUME DriverType, ConfInv
  PROVE  /\ ConfAfter(Applied(order[turn], conf), turn)
         /\ OnlyChat => Applied(order[turn], conf).lengths = Geometry.preset
  <1> DEFINE c == Applied(order[turn], conf)
  <1>1. turn \in 1..Len(order) /\ Len(order) \in Nat
    BY OrderType DEF DriverType
  <1>2. /\ c.lengths = IF order[turn] = "chat_like" THEN conf.lengths ELSE Geometry[order[turn]]
        /\ c.window = CampaignCtx(order[turn], c.lengths)
    BY DEF Applied
  <1>3. LeftBy(c.lengths, turn)
    <2> SUFFICES ASSUME NEW t \in 1..turn, order[t] # "chat_like",
                        \A u \in (t + 1)..turn : order[u] = "chat_like"
                 PROVE  c.lengths = Geometry[order[t]]
      BY DEF LeftBy
    <2>1. CASE t = turn
      BY <1>2, <2>1
    <2>2. CASE t # turn
      <3>1. turn \in (t + 1)..turn /\ t \in 1..(turn - 1) /\ turn > 1
        BY <1>1, <2>2
      <3>2. c.lengths = conf.lengths
        BY <1>2, <3>1
      <3>3. \A u \in (t + 1)..(turn - 1) : order[u] = "chat_like"
        BY <1>1
      <3> QED BY <3>1, <3>2, <3>3 DEF ConfInv, ConfAfter, LeftBy
    <2> QED BY <2>1, <2>2
  <1>4. OnlyChat => c.lengths = Geometry.preset
    BY <1>1, <1>2 DEF OnlyChat, ConfInv
  <1> QED BY <1>2, <1>3, <1>4 DEF ConfAfter

LEMMA ConfStep ==
  ASSUME DriverType, Loops, ConfInv, CellDone \/ PassDone,
         conf' = IF pillar \in 1..4 THEN Applied(order[turn], conf) ELSE conf
  PROVE  ConfInv'
  <1>1. /\ Onward /\ DriverType' /\ Loops'
        /\ UNCHANGED <<plan, order, groups, slo>>
    BY LoopsMove
  <1>2. pass \in Nat /\ pillar \in 1..10 /\ turn \in 1..Len(order) /\ Len(order) \in Nat /\ pass' \in Nat
        /\ pillar' \in 1..10
    BY <1>1, OrderType, Sizes DEF DriverType
  <1>3. pillar \in 1..4 => ConfAfter(conf', turn)
    BY AppliedConf
  <1>4. OnlyChat => conf'.lengths = Geometry.preset
    BY AppliedConf DEF ConfInv
  <1>5. turn' > 1 => ConfAfter(conf', turn' - 1)
    <2>1. turn' > 1 => turn' = turn + 1 /\ pillar \in 1..4
      <3>1. turn' = 1 \/ (turn' = turn + 1 /\ pillar \in 1..4)
        BY <1>1 DEF Onward
      <3> QED BY <3>1
    <2>2. turn' > 1 => turn' - 1 = turn
      BY <1>2, <2>1
    <2> QED BY <1>3, <2>1, <2>2
  <1>6. ASSUME turn' = 1, pass' <= M, NEW j \in 1..4, j < pillar', Runs(pass', Pillars[j])
        PROVE  ConfAfter(conf', Len(order))
    <2>0. ~Skipped(pass', j)
      BY <1>6 DEF Skipped
    <2>1. pass' = pass /\ pillar' \in (pillar + 1)..10 /\ (pillar \in 1..4 => turn = Len(order))
          /\ \A k \in (pillar + 1)..(pillar' - 1) : Skipped(pass, k)
      <3>1. ~(turn' = turn + 1)
        BY <1>2, <1>6
      <3>2. j \in 1..(pillar' - 1)
        <4>1. pillar' \in Nat /\ j \in Nat /\ j >= 1 /\ j < pillar'
          BY <1>2, <1>6
        <4> QED BY <4>1, BelowIn
      <3> QED BY <1>1, <1>6, <2>0, <3>1, <3>2 DEF Onward
    <2>2. CASE pillar \in 1..4
      BY <1>3, <2>1, <2>2
    <2>3. CASE pillar \notin 1..4
      <3>1. turn = 1
        <4>1. turn > 1 => pillar \in 1..9 /\ Pillars[pillar] \in PerCampaign
          BY <1>2 DEF Loops, Here
        <4>2. turn > 1 => pillar \in 1..4
          BY <4>1, PillarKind
        <4> QED BY <1>2, <2>3, <4>2
      <3>2. j < pillar
        BY <1>2, <2>3
      <3>3. ConfAfter(conf, Len(order))
        BY <1>6, <2>1, <3>1, <3>2 DEF ConfInv, Campaigned
      <3> QED BY <2>3, <3>3
    <2> QED BY <2>2, <2>3
  <1>7. plan \cap PerCampaign = {} => conf' = conf
    <2>1. CASE pillar \in 1..4
      <3>1. pass <= M
        BY PillarAt, <2>1 DEF CellDone, PassDone, Working
      <3>2. Pillars[pillar] \in plan
        BY <1>2, <2>1, <3>1 DEF Loops, Runs
      <3>3. Pillars[pillar] \in PerCampaign
        BY <2>1, PillarKind
      <3> QED BY <3>2, <3>3
    <2>2. CASE pillar \notin 1..4
      BY <2>2
    <2> QED BY <2>1, <2>2
  <1>8. Campaigned' => \E j \in 1..4 : j < pillar' /\ Runs(pass', Pillars[j])
    BY <1>1 DEF Campaigned, Runs
  <1>9. (turn = 1 /\ pass <= M /\ Campaigned => ConfAfter(conf, Len(order)))'
    <2> SUFFICES ASSUME turn' = 1, pass' <= M, Campaigned' PROVE ConfAfter(conf, Len(order))'
      OBVIOUS
    <2>1. ConfAfter(conf', Len(order))
      BY <1>6, <1>8
    <2> QED BY <1>1, <2>1 DEF ConfAfter, LeftBy
  <1>10. (turn > 1 => ConfAfter(conf, turn - 1))'
    BY <1>1, <1>5 DEF ConfAfter, LeftBy
  <1>11. (OnlyChat => conf.lengths = Geometry.preset)'
    BY <1>1, <1>4 DEF OnlyChat
  <1>12. (plan \cap PerCampaign = {} => conf = Applied(order[1], Preset))'
    BY <1>1, <1>7 DEF ConfInv
  <1> QED BY <1>9, <1>10, <1>11, <1>12 DEF ConfInv

(* Every stress test comes after all campaigns of its pass.                *)
LEMMA StressConf ==
  ASSUME DriverType, Loops, ConfInv, pass \in 1..M, pillar \in {5, 6}
  PROVE  StressedWith(conf)
  <1>1. turn = 1
    <2>1. turn > 1 => Pillars[pillar] \in PerCampaign
      BY DEF Loops, Here
    <2>2. turn \in Nat /\ turn >= 1
      BY OrderType DEF DriverType
    <2> QED BY <2>1, <2>2, PillarKind
  <1>2. CASE plan \cap PerCampaign = {}
    BY <1>2 DEF StressedWith, ConfInv
  <1>3. CASE plan \cap PerCampaign # {}
    <2>1. Legal(plan) /\ Runs(pass, Pillars[pillar])
      BY CampaignConstants DEF DriverType, Loops
    <2>2. CASE pillar = 5
      <3>1. "serving" \in plan
        BY <1>3, <2>1, <2>2, PillarAt DEF Legal, Runs
      <3>2. Runs(pass, Pillars[1])
        BY <3>1, PillarAt DEF Runs, Multimodal
      <3>3. Campaigned
        BY <2>2, <3>2 DEF Campaigned
      <3> QED BY <1>1, <1>3, <3>3 DEF ConfInv, StressedWith
    <2>3. CASE pillar = 6
      <3>1. "serving_mm" \in plan /\ groups[pass] \in Visual
        BY <1>3, <2>1, <2>3, PillarAt DEF Legal, Runs, Multimodal
      <3>2. Runs(pass, Pillars[3])
        BY <3>1, PillarAt DEF Runs
      <3>3. Campaigned
        BY <2>3, <3>2 DEF Campaigned
      <3> QED BY <1>1, <1>3, <3>3 DEF ConfInv, StressedWith
    <2> QED BY <2>2, <2>3
  <1> QED BY <1>2, <1>3

(* The campaigns as a whole leave one configuration behind.                *)
LEMMA StressAlike ==
  ASSUME DriverType, NEW c, NEW d, StressedWith(c), StressedWith(d)
  PROVE  c.lengths = d.lengths /\ c.window = d.window
  <1>1. CASE plan \cap PerCampaign = {}
    BY <1>1 DEF StressedWith
  <1>2. CASE plan \cap PerCampaign # {}
    <2>1. Len(order) \in Nat
      BY OrderType DEF DriverType
    <2>2. c.lengths = d.lengths
      <3>1. CASE OnlyChat
        BY <3>1 DEF StressedWith
      <3>2. CASE ~OnlyChat
        <4> DEFINE T == {n \in Nat : n < Len(order) /\ order[Len(order) - n] # "chat_like"}
        <4>1. T \subseteq Nat /\ T # {}
          <5>1. PICK t \in 1..Len(order) : order[t] # "chat_like"
            BY <3>2 DEF OnlyChat
          <5>2. Len(order) - t \in T
            BY <2>1, <5>1
          <5> QED BY <5>2
        <4>2. PICK n \in T : \A k \in T : n <= k
          <5> HIDE DEF T
          <5> QED BY <4>1, LeastNat
        <4>3. PICK t \in 1..Len(order) : t = Len(order) - n /\ order[t] # "chat_like"
          BY <2>1, <4>2
        <4>4. ASSUME NEW u \in (t + 1)..Len(order) PROVE order[u] = "chat_like"
          <5>1. Len(order) - u \in Nat /\ Len(order) - u < n /\ Len(order) - (Len(order) - u) = u
            BY <2>1, <4>2, <4>3
          <5>2. Len(order) - u \notin T
            BY <4>2, <5>1
          <5> QED BY <2>1, <4>2, <5>1, <5>2
        <4>5. c.lengths = Geometry[order[t]] /\ d.lengths = Geometry[order[t]]
          BY <1>2, <4>3, <4>4 DEF StressedWith, ConfAfter, LeftBy
        <4> QED BY <4>5
      <3> QED BY <3>1, <3>2
    <2> QED BY <1>2, <2>2 DEF StressedWith, ConfAfter
  <1> QED BY <1>1, <1>2

-----------------------------------------------------------------------------
(* The invariant of the program                                            *)

CInv ==
  /\ DriverType /\ Loops
  /\ GoldenInv /\ GoldenCalled
  /\ IInv /\ SweepCalled
  /\ RowsTrue /\ Covered /\ LabelTrue /\ DisturbedOnlyByTimedOut
  /\ ConfInv /\ StressRows

LEMMA SweepKept == IInv /\ UNCHANGED vars => IInv' /\ UNCHANGED <<flags, model, stage, row, swept, workers>>
  <1>1. IInv /\ UNCHANGED vars => IInv'
    BY StepInv
  <1> QED BY <1>1 DEF vars

LEMMA GoldenKept ==
  ASSUME GoldenInv, UNCHANGED goldenVars
  PROVE  GoldenInv' /\ UNCHANGED <<judged, verdict>>
  BY DEF GoldenInv, goldenVars, endpoint, GoldenTypeOK, CasesAnswered, VerdictNeedsAnswer

(* The rows are not touched between the cells.                             *)
LEMMA RowsKept ==
  ASSUME CInv, UNCHANGED <<plan, order, groups, slo, conf, pass, pillar, turn, rows, failedModels>>
  PROVE  RowsTrue' /\ Covered' /\ LabelTrue' /\ ConfInv' /\ StressRows'
  <1>1. RowsTrue' /\ LabelTrue'
    BY DEF CInv, RowsTrue, LabelTrue
  <1>2. Covered'
    BY DEF CInv, Covered, Before, HasRow, LabelOf, Runs
  <1>3. ConfInv'
    BY DEF CInv, ConfInv, OnlyChat, ConfAfter, LeftBy, Campaigned, Runs
  <1>4. StressRows'
    BY DEF CInv, StressRows, StressedWith, OnlyChat, ConfAfter, LeftBy
  <1> QED BY <1>1, <1>2, <1>3, <1>4

LEMMA ExitKept ==
  ASSUME DriverType, Loops, UNCHANGED <<plan, order, groups, slo, pass, pillar, turn, rows, failedModels, exit>>,
         begun' \in BOOLEAN, begun' => Working /\ pillar \in {8, 9}
  PROVE  DriverType' /\ Loops'
  <1>1. DriverType'
    BY DEF DriverType
  <1>2. Loops'
    BY DEF Loops, Runs, Here, Working, ExitCode, Has
  <1> QED BY <1>1, <1>2

(* What the row of a cell says.                                            *)
LEMMA RowMade ==
  ASSUME CInv, pillar \in 1..9, pass \in 1..M, NEW s, NEW b, Sound(s, b), NEW r, r = Row(Here, s, b)
  PROVE  /\ r.pass = pass /\ r.pillar = Pillars[pillar] /\ r.label = LabelOf(pillar, turn)
         /\ r.pillar \in TextPillars => r.status \in {"ok", "failed"}
         /\ r.pillar = "golden" => r.status \in {"passed", "failed", "error"}
         /\ r.beside => /\ flags.budget
                        /\ \E m \in 1..(pass - 1) :
                             swept[m] = "lost" \/ \E x \in Suites : row[<<m, x>>] = "timeout"
         /\ r.pillar \in PerCampaign =>
              /\ r.window = CampaignCtx(r.label, r.lengths)
              /\ r.label # "chat_like" => r.lengths = Geometry[r.label]
         /\ r.slo # "none" => r.slo = slo /\ StressedWith(r)
  <1>1. /\ Pillars[pillar] \in PerCampaign <=> pillar \in 1..4
        /\ Pillars[pillar] = "golden" <=> pillar = 8
        /\ Pillars[pillar] \in {"stress", "stress_mm"} <=> pillar \in {5, 6}
        /\ Pillars[pillar] \in TextPillars => pillar \in {1, 2, 5}
    BY PillarKind
  <1>2. /\ r.pass = pass /\ r.pillar = Pillars[pillar] /\ r.label = LabelOf(pillar, turn)
        /\ r.status = s /\ r.beside = b
        /\ r.lengths = ConfHere.lengths /\ r.window = ConfHere.window
        /\ r.slo = IF Pillars[pillar] \in {"stress", "stress_mm"} THEN slo ELSE "none"
    BY DEF Row, Here, LabelOf
  <1>3. r.pillar \in TextPillars => r.status \in {"ok", "failed"}
    <2>1. pillar \in {1, 2, 5} => pillar \in 1..7
      OBVIOUS
    <2> QED BY <1>1, <1>2, <2>1 DEF Sound
  <1>4. r.pillar = "golden" => r.status \in {"passed", "failed", "error"}
    BY <1>1, <1>2 DEF Sound
  <1>5. r.beside => /\ flags.budget
                    /\ \E m \in 1..(pass - 1) :
                         swept[m] = "lost" \/ \E x \in Suites : row[<<m, x>>] = "timeout"
    BY <1>2, BesideRow DEF Sound, CInv
  <1>6. r.pillar \in PerCampaign =>
          /\ r.window = CampaignCtx(r.label, r.lengths)
          /\ r.label # "chat_like" => r.lengths = Geometry[r.label]
    BY <1>1, <1>2 DEF ConfHere, Here, Applied, LabelOf
  <1>7. r.slo # "none" => r.slo = slo /\ StressedWith(r)
    <2>1. r.slo # "none" => pillar \in {5, 6}
      BY <1>1, <1>2
    <2>2. pillar \in {5, 6} => StressedWith(conf) /\ ConfHere = conf
      BY <1>1, StressConf DEF CInv, ConfHere, Here
    <2>3. pillar \in {5, 6} => StressedWith(r)
      BY <1>2, <2>2 DEF StressedWith, ConfAfter
    <2> QED BY <1>1, <1>2, <2>1, <2>3
  <1> QED BY <1>2, <1>3, <1>4, <1>5, <1>6, <1>7

-----------------------------------------------------------------------------
(* Each step keeps the invariant                                           *)

LEMMA CellInv == ASSUME CInv, Cell PROVE CInv'
  <1>1. /\ CellDone /\ CellRow /\ conf' = ConfHere /\ pillar \in 1..9 /\ pass \in 1..M
        /\ (pillar = 9 <=> EvalsReturn) /\ (pillar = 8 <=> GoldenReturns)
        /\ UNCHANGED <<vars, goldenVars>>
    BY CellRows DEF CInv
  <1>2. /\ Onward /\ DriverType' /\ Loops' /\ begun' = FALSE
        /\ UNCHANGED <<plan, order, groups, slo>>
        /\ failedModels \subseteq failedModels'
    BY <1>1, LoopsMove DEF CInv
  <1>3. GoldenInv' /\ GoldenCalled'
    <2>1. GoldenInv' /\ UNCHANGED <<judged, verdict>>
      BY <1>1, GoldenKept DEF CInv
    <2>2. judged = 0
      <3>1. CASE pillar = 8
        BY <1>1, <3>1 DEF GoldenReturns
      <3>2. CASE pillar # 8
        BY <3>2 DEF CInv, GoldenCalled
      <3> QED BY <3>1, <3>2
    <2>3. GoldenCalled'
      BY <1>2, <2>1, <2>2 DEF GoldenCalled
    <2> QED BY <2>1, <2>3
  <1>4. IInv' /\ UNCHANGED <<flags, model, stage, row, swept, workers>>
    BY <1>1, SweepKept DEF CInv
  <1>5. /\ pass \in Nat /\ pass' \in Nat /\ pillar' \in 1..10 /\ model \in Nat /\ M \in Nat
        /\ pass <= pass' /\ (pass' = pass \/ pass < pass')
    <2>1. pass \in Nat /\ pass' \in Nat /\ pillar' \in 1..10 /\ model \in Nat /\ M \in Nat
      BY <1>1, <1>2, Sizes DEF DriverType, CInv, IInv, TypeOK
    <2>2. pass' = pass \/ pass' \in (pass + 1)..(M + 1)
      BY <1>2 DEF Onward
    <2> QED BY <2>1, <2>2
  <1>6. SweepCalled'
    <2>1. stage \notin Sweeping
      <3>1. CASE pillar = 9
        BY <1>1, <3>1 DEF EvalsReturn, Sweeping
      <3>2. CASE pillar # 9
        BY <3>2 DEF CInv, SweepCalled
      <3> QED BY <3>1, <3>2
    <2>2. model <= pass'
      BY <1>5 DEF CInv, SweepCalled
    <2>3. ASSUME model = pass' PROVE pillar' = 10
      <3>1. pass' = pass /\ model = pass
        BY <1>5, <2>3 DEF CInv, SweepCalled
      <3>2. pillar = 9
        BY <1>1, <3>1 DEF CInv, SweepCalled
      <3>3. pillar' \in (pillar + 1)..10
        <4>1. ~(pass' \in (pass + 1)..(M + 1))
          BY <1>5, <3>1
        <4> QED BY <1>2, <3>2, <4>1 DEF Onward
      <3> QED BY <1>5, <3>2, <3>3
    <2> QED BY <1>4, <2>1, <2>2, <2>3 DEF SweepCalled
  <1>7. /\ rows \subseteq rows'
        /\ \A r \in rows' \ rows : \E s, b : Sound(s, b) /\ r = Row(Here, s, b)
    <2>1. CASE rows' = rows
      BY <2>1
    <2>2. CASE \E s, b : Sound(s, b) /\ rows' = rows \cup {Row(Here, s, b)}
      <3>1. PICK s, b : Sound(s, b) /\ rows' = rows \cup {Row(Here, s, b)}
        BY <2>2
      <3>2. \A r \in rows' \ rows : r = Row(Here, s, b)
        BY <3>1
      <3> QED BY <3>1, <3>2
    <2> QED BY <1>1, <2>1, <2>2 DEF CellRow
  <1>8. \A r \in rows' \ rows :
         /\ r.pass = pass /\ r.pillar = Pillars[pillar] /\ r.label = LabelOf(pillar, turn)
         /\ r.pillar \in TextPillars => r.status \in {"ok", "failed"}
         /\ r.pillar = "golden" => r.status \in {"passed", "failed", "error"}
         /\ r.beside => /\ flags.budget
                        /\ \E m \in 1..(pass - 1) :
                             swept[m] = "lost" \/ \E x \in Suites : row[<<m, x>>] = "timeout"
         /\ r.pillar \in PerCampaign =>
              /\ r.window = CampaignCtx(r.label, r.lengths)
              /\ r.label # "chat_like" => r.lengths = Geometry[r.label]
         /\ r.slo # "none" => r.slo = slo /\ StressedWith(r)
    BY <1>1, <1>7, RowMade
  <1>9. RowsTrue'
    <2>1. \A r \in rows' : r.pass \in 1..pass'
      <3>1. \A r \in rows : r.pass \in 1..pass
        BY DEF CInv, RowsTrue
      <3>2. \A r \in rows' : r.pass \in 1..pass
        <4>1. pass \in 1..pass
          BY <1>1
        <4> QED BY <1>8, <3>1, <4>1
      <3> QED BY <1>5, <3>2
    <2> QED BY <1>8, <2>1 DEF CInv, RowsTrue
  <1>10. Covered'
    <2>1. CellDone /\ ~FailModel =>
            \E r \in rows' : r.pass = pass /\ r.pillar = Pillars[pillar] /\ r.label = LabelOf(pillar, turn)
      <3> SUFFICES ASSUME ~FailModel
                   PROVE  \E r \in rows' : r.pass = pass /\ r.pillar = Pillars[pillar] /\ r.label = LabelOf(pillar, turn)
        OBVIOUS
      <3>1. PICK s, b : Sound(s, b) /\ rows' = rows \cup {Row(Here, s, b)}
        BY <1>1 DEF CellRow
      <3>2. Row(Here, s, b) \in rows'
        BY <3>1
      <3> QED BY <1>1, <3>1, <3>2, RowMade
    <2>2. FailModel => groups[pass] \in failedModels'
      BY DEF FailModel
    <2> QED BY <1>1, <1>7, <2>1, <2>2, CoveredStep DEF CInv
  <1>11. LabelTrue'
    BY <1>8 DEF CInv, LabelTrue
  <1>12. DisturbedOnlyByTimedOut'
    <2>1. \A r \in rows' : r.beside => /\ flags.budget
                          /\ \E m \in 1..(r.pass - 1) :
                               swept[m] = "lost" \/ \E x \in Suites : row[<<m, x>>] = "timeout"
      BY <1>8 DEF CInv, DisturbedOnlyByTimedOut
    <2> QED BY <1>4, <2>1 DEF DisturbedOnlyByTimedOut
  <1>13. ConfInv'
    <2>1. conf' = IF pillar \in 1..4 THEN Applied(order[turn], conf) ELSE conf
      BY <1>1, PillarKind DEF ConfHere, Here
    <2> QED BY <1>1, <2>1, ConfStep DEF CInv
  <1>14. StressRows'
    <2>1. \A r \in rows' : r.slo # "none" => r.slo = slo /\ StressedWith(r)
      BY <1>8 DEF CInv, StressRows
    <2> QED BY <1>2, <2>1 DEF StressRows, StressedWith, OnlyChat, ConfAfter, LeftBy
  <1> QED BY <1>2, <1>3, <1>4, <1>6, <1>9, <1>10, <1>11, <1>12, <1>13, <1>14 DEF CInv

LEMMA PassDoneInv == ASSUME CInv, PassDone PROVE CInv'
  <1>1. /\ pass' = pass + 1 /\ pillar = 10 /\ exit = "none" /\ pass \in 1..M
        /\ UNCHANGED <<vars, goldenVars, conf, begun, rows, failedModels, exit>>
    BY PillarAt, Sizes DEF PassDone, CInv, DriverType
  <1>2. /\ DriverType' /\ Loops' /\ UNCHANGED <<plan, order, groups, slo>>
    BY LoopsMove DEF CInv
  <1>3. ~begun /\ ~CellDone
    BY <1>1, PillarAt DEF CInv, Loops, CellDone, Working
  <1>4. GoldenInv' /\ GoldenCalled'
    <2>1. GoldenInv' /\ UNCHANGED <<judged, verdict>>
      BY <1>1, GoldenKept DEF CInv
    <2> QED BY <1>1, <1>3, <2>1 DEF CInv, GoldenCalled
  <1>5. IInv' /\ UNCHANGED <<flags, model, stage, row, swept, workers>>
    BY <1>1, SweepKept DEF CInv
  <1>6. SweepCalled'
    <2>1. model \in Nat /\ pass \in Nat
      BY <1>1, Sizes DEF CInv, IInv, TypeOK
    <2> QED BY <1>1, <1>3, <1>5, <2>1 DEF CInv, SweepCalled
  <1>7. RowsTrue' /\ LabelTrue' /\ DisturbedOnlyByTimedOut'
    <2>1. \A r \in rows : r.pass \in 1..(pass + 1)
      BY <1>1 DEF CInv, RowsTrue
    <2> QED BY <1>1, <1>5, <2>1 DEF CInv, RowsTrue, LabelTrue, DisturbedOnlyByTimedOut
  <1>8. Covered'
    <2>1. ~FailModel \/ groups[pass] \in failedModels'
      BY DEF FailModel
    <2> QED BY <1>1, <1>3, <2>1, CoveredStep DEF CInv
  <1>9. ConfInv'
    BY <1>1, ConfStep DEF CInv
  <1>10. StressRows'
    BY <1>1, <1>2 DEF CInv, StressRows, StressedWith, OnlyChat, ConfAfter, LeftBy
  <1> QED BY <1>2, <1>4, <1>5, <1>6, <1>7, <1>8, <1>9, <1>10 DEF CInv

LEMMA CallGoldenInv == ASSUME CInv, CallGolden PROVE CInv'
  <1>1. /\ Working /\ ~begun /\ begun' = TRUE /\ pillar = 8 /\ StartGolden(groups[pass])
        /\ UNCHANGED vars
        /\ UNCHANGED <<plan, order, groups, slo, conf, pass, pillar, turn, rows, failedModels, exit>>
    <2>1. pillar \in 1..9
      BY PillarAt DEF CallGolden, Working, CInv, DriverType
    <2> QED BY <2>1, PillarKind DEF CallGolden, Here, args, loop
  <1>2. DriverType' /\ Loops'
    BY <1>1, ExitKept DEF CInv
  <1>3. groups[pass] \in Named
    BY <1>1, GoldenSizes DEF Working, CInv, DriverType, Models
  <1>4. judged = 0 /\ GoldenTypeOK
    BY <1>1 DEF StartGolden, CInv, GoldenInv
  <1>5. GoldenInv' /\ GoldenCalled'
    <2>1. CASE judged' = groups[pass] /\ verdict' = verdict
      <3>1. UNCHANGED <<override, served, textOnly, modelId, at, attempt, results, asked>>
        BY <1>1 DEF StartGolden, endpoint
      <3>2. GoldenTypeOK'
        BY <1>3, <1>4, <2>1, <3>1, GoldenSizes DEF GoldenTypeOK, Named
      <3>5. at = 0 /\ CasesAnswered'
        <4>1. at = 0 /\ \A c \in Cases : results[c] = "none" /\ c >= 1
          BY <1>4, GoldenSizes DEF CInv, GoldenInv, Cases
        <4> QED BY <3>1, <4>1 DEF CasesAnswered, Cases
      <3>3. GoldenInv'
        BY <1>4, <2>1, <3>1, <3>2, <3>5 DEF CInv, GoldenInv, VerdictNeedsAnswer
      <3>4. groups[pass] # 0
        BY <1>3 DEF Named
      <3> QED BY <1>1, <2>1, <3>3, <3>4 DEF GoldenCalled
    <2>2. CASE judged' = judged /\ verdict' = [verdict EXCEPT ![groups[pass]] = "error"]
      <3>1. UNCHANGED <<override, served, textOnly, modelId, at, attempt, results, asked>>
        BY <1>1 DEF StartGolden, endpoint
      <3>2. /\ verdict'[groups[pass]] = "error"
            /\ \A m \in Named : verdict'[m] \in {"failed", "passed"} => verdict[m] = verdict'[m]
        BY <1>3, <1>4, <2>2 DEF GoldenTypeOK
      <3>3. GoldenTypeOK'
        BY <1>3, <1>4, <2>2, <3>1 DEF GoldenTypeOK
      <3>4. GoldenInv'
        BY <1>4, <2>2, <3>1, <3>2, <3>3 DEF CInv, GoldenInv, CasesAnswered, VerdictNeedsAnswer
      <3> QED BY <1>1, <1>4, <2>2, <3>2, <3>4 DEF GoldenCalled
    <2> QED BY <1>1, <2>1, <2>2 DEF StartGolden
  <1>6. IInv' /\ UNCHANGED <<flags, model, stage, row, swept, workers>>
    BY <1>1, SweepKept DEF CInv
  <1>7. SweepCalled' /\ DisturbedOnlyByTimedOut'
    BY <1>1, <1>6 DEF CInv, SweepCalled, DisturbedOnlyByTimedOut
  <1>8. RowsTrue' /\ Covered' /\ LabelTrue' /\ ConfInv' /\ StressRows'
    BY <1>1, RowsKept
  <1> QED BY <1>2, <1>5, <1>6, <1>7, <1>8 DEF CInv

LEMMA CallEvalsInv == ASSUME CInv, CallEvals PROVE CInv'
  <1>1. /\ Working /\ ~begun /\ begun' = TRUE /\ pillar = 9 /\ StartEvals(pass)
        /\ UNCHANGED goldenVars /\ pass \in Models
        /\ UNCHANGED <<plan, order, groups, slo, conf, pass, pillar, turn, rows, failedModels, exit>>
    <2>1. pillar \in 1..9 /\ pass \in Models
      BY PillarAt DEF CallEvals, Working, CInv, DriverType, Models
    <2> QED BY <2>1, PillarKind DEF CallEvals, Here, args, loop
  <1>2. DriverType' /\ Loops'
    BY <1>1, ExitKept DEF CInv
  <1>3. GoldenInv' /\ GoldenCalled'
    <2>1. GoldenInv' /\ UNCHANGED <<judged, verdict>>
      BY <1>1, GoldenKept DEF CInv
    <2> QED BY <1>1, <2>1 DEF CInv, GoldenCalled
  <1>4. IInv' /\ model' = pass /\ UNCHANGED <<flags, row, swept>>
    <2>1. model' = pass /\ UNCHANGED <<flags, row, swept>>
      BY <1>1 DEF StartEvals, report
    <2>2. IInv'
      BY <1>1, StartEvalsInv DEF CInv
    <2> QED BY <2>1, <2>2
  <1>5. SweepCalled'
    <2>1. pass \in Nat
      BY <1>1, Sizes DEF Models
    <2> QED BY <1>1, <1>4, <2>1 DEF SweepCalled
  <1>6. DisturbedOnlyByTimedOut'
    BY <1>1, <1>4 DEF CInv, DisturbedOnlyByTimedOut
  <1>7. RowsTrue' /\ Covered' /\ LabelTrue' /\ ConfInv' /\ StressRows'
    BY <1>1, RowsKept
  <1> QED BY <1>2, <1>3, <1>4, <1>5, <1>6, <1>7 DEF CInv

LEMMA ReturnInv == ASSUME CInv, Return PROVE CInv'
  <1>1. /\ exit = "none" /\ pass = M + 1 /\ exit' = ExitCode /\ MainReturns
        /\ UNCHANGED goldenVars
        /\ UNCHANGED <<plan, order, groups, slo, conf, pass, pillar, turn, begun, rows, failedModels>>
    BY DEF Return, args, loop
  <1>2. ~begun /\ turn = 1
    <2>1. ~(pass <= M) /\ turn \in Nat /\ turn >= 1
      BY <1>1, Sizes, OrderType DEF CInv, DriverType
    <2> QED BY <2>1 DEF CInv, Loops, Working
  <1>3. DriverType'
    <2>1. ExitCode \in {"ok", "model_failure", "harness_error"}
      BY DEF ExitCode
    <2> QED BY <1>1, <2>1 DEF CInv, DriverType
  <1>4. Loops'
    <2>1. ExitCode' = ExitCode
      BY <1>1 DEF ExitCode, Has
    <2>2. ~(pass <= M)
      BY <1>1, Sizes
    <2> QED BY <1>1, <1>2, <2>1, <2>2 DEF Loops
  <1>5. GoldenInv' /\ GoldenCalled'
    <2>1. GoldenInv' /\ UNCHANGED <<judged, verdict>>
      BY <1>1, GoldenKept DEF CInv
    <2> QED BY <1>1, <2>1 DEF CInv, GoldenCalled
  <1>6. IInv' /\ stage' = "exiting" /\ UNCHANGED <<flags, model, row, swept>>
    <2>1. stage' = "exiting" /\ UNCHANGED <<flags, model, row, swept>>
      BY <1>1 DEF MainReturns, report
    <2> QED BY <1>1, <2>1, LeavingInv DEF CInv
  <1>7. SweepCalled' /\ DisturbedOnlyByTimedOut'
    BY <1>1, <1>6 DEF CInv, SweepCalled, DisturbedOnlyByTimedOut, Sweeping
  <1>8. RowsTrue' /\ Covered' /\ LabelTrue' /\ ConfInv' /\ StressRows'
    BY <1>1, RowsKept
  <1> QED BY <1>3, <1>4, <1>5, <1>6, <1>7, <1>8 DEF CInv

LEMMA SweepStepInv == ASSUME CInv, SweepStep PROVE CInv'
  <1>1. /\ Sweep \/ TimeOut \/ Exit \/ StrayEnds
        /\ UNCHANGED goldenVars
        /\ UNCHANGED <<plan, order, groups, slo, conf, pass, pillar, turn, begun, rows, failedModels, exit>>
    BY DEF SweepStep, campaignVars
  <1>2. DriverType' /\ Loops'
    <2>1. begun \in BOOLEAN /\ (begun => Working /\ pillar \in {8, 9})
      BY DEF CInv, DriverType, Loops
    <2> QED BY <1>1, <2>1, ExitKept DEF CInv
  <1>3. GoldenInv' /\ GoldenCalled'
    <2>1. GoldenInv' /\ UNCHANGED <<judged, verdict>>
      BY <1>1, GoldenKept DEF CInv
    <2> QED BY <1>1, <2>1 DEF CInv, GoldenCalled
  <1>4. /\ IInv' /\ flags' = flags /\ model' = model
        /\ stage' \in Sweeping => stage \in Sweeping
        /\ stage \in Sweeping \/ (row' = row /\ swept' = swept)
        /\ \A p \in Pairs : p[1] # model => row'[p] = row[p] /\ swept'[p[1]] = swept[p[1]]
    BY <1>1, SweepFrame DEF CInv
  <1>5. SweepCalled'
    BY <1>1, <1>4 DEF CInv, SweepCalled
  <1>6. DisturbedOnlyByTimedOut'
    <2>1. CASE row' = row /\ swept' = swept
      BY <1>1, <1>4, <2>1 DEF CInv, DisturbedOnlyByTimedOut
    <2>2. CASE stage \in Sweeping
      <3> SUFFICES ASSUME NEW r \in rows, r.beside
                   PROVE  /\ flags.budget
                          /\ \E m \in 1..(r.pass - 1) :
                               swept'[m] = "lost" \/ \E s \in Suites : row'[<<m, s>>] = "timeout"
        BY <1>1, <1>4 DEF DisturbedOnlyByTimedOut
      <3>1. PICK m \in 1..(r.pass - 1) : swept[m] = "lost" \/ \E s \in Suites : row[<<m, s>>] = "timeout"
        BY DEF CInv, DisturbedOnlyByTimedOut
      <3>2. flags.budget /\ r.pass \in 1..pass /\ model = pass /\ pass \in 1..(M + 1) /\ model \in 0..M /\ M \in Nat
        BY <2>2, Sizes DEF CInv, DisturbedOnlyByTimedOut, RowsTrue, SweepCalled, DriverType, IInv, TypeOK
      <3>3. m \in Models /\ m # model
        BY <3>2 DEF Models
      <3>4. ASSUME NEW s \in Suites PROVE row'[<<m, s>>] = row[<<m, s>>] /\ swept'[m] = swept[m]
        <4>1. <<m, s>> \in Pairs /\ <<m, s>>[1] = m
          BY <3>3 DEF Pairs
        <4> QED BY <1>4, <3>3, <4>1
      <3>5. 1 \in Suites
        BY Sizes DEF Suites
      <3> QED BY <3>1, <3>2, <3>4, <3>5
    <2> QED BY <1>4, <2>1, <2>2
  <1>7. RowsTrue' /\ Covered' /\ LabelTrue' /\ ConfInv' /\ StressRows'
    BY <1>1, RowsKept
  <1> QED BY <1>2, <1>3, <1>4, <1>5, <1>6, <1>7 DEF CInv

LEMMA GoldenPartInv == ASSUME CInv, GoldenPart PROVE CInv'
  <1>1. /\ GoldenStep /\ UNCHANGED vars
        /\ UNCHANGED <<plan, order, groups, slo, conf, pass, pillar, turn, begun, rows, failedModels, exit>>
    BY DEF GoldenPart, campaignVars
  <1>2. DriverType' /\ Loops'
    <2>1. begun \in BOOLEAN /\ (begun => Working /\ pillar \in {8, 9})
      BY DEF CInv, DriverType, Loops
    <2> QED BY <1>1, <2>1, ExitKept DEF CInv
  <1>3. GoldenInv'
    BY <1>1, GoldenStepInv DEF CInv
  <1>4. GoldenCalled'
    <2>1. /\ judged # 0 \/ (judged' = judged /\ verdict' = verdict)
          /\ judged' = judged \/ (judged' = 0 /\ verdict'[judged] # "none")
          /\ \A m \in Named : verdict'[m] = verdict[m] \/ m = judged
      BY <1>1, GoldenStepCalled DEF CInv
    <2>2. judged # 0 => begun /\ pillar = 8 /\ judged = groups[pass]
      BY DEF CInv, GoldenCalled
    <2>3. judged' # 0 => begun /\ pillar = 8 /\ judged' = groups[pass]
      BY <2>1, <2>2
    <2>4. begun /\ pillar = 8 => judged' # 0 \/ verdict'[groups[pass]] # "none"
      BY <2>1, <2>2 DEF CInv, GoldenCalled
    <2> QED BY <1>1, <2>3, <2>4 DEF GoldenCalled
  <1>5. IInv' /\ UNCHANGED <<flags, model, stage, row, swept, workers>>
    BY <1>1, SweepKept DEF CInv
  <1>6. SweepCalled' /\ DisturbedOnlyByTimedOut'
    BY <1>1, <1>5 DEF CInv, SweepCalled, DisturbedOnlyByTimedOut
  <1>7. RowsTrue' /\ Covered' /\ LabelTrue' /\ ConfInv' /\ StressRows'
    BY <1>1, RowsKept
  <1> QED BY <1>2, <1>3, <1>4, <1>5, <1>6, <1>7 DEF CInv

LEMMA IdleInv == ASSUME CInv, UNCHANGED all PROVE CInv'
  <1>1. /\ UNCHANGED vars /\ UNCHANGED goldenVars
        /\ UNCHANGED <<plan, order, groups, slo, conf, pass, pillar, turn, begun, rows, failedModels, exit>>
    BY DEF all, campaignVars
  <1>2. DriverType' /\ Loops'
    <2>1. begun \in BOOLEAN /\ (begun => Working /\ pillar \in {8, 9})
      BY DEF CInv, DriverType, Loops
    <2> QED BY <1>1, <2>1, ExitKept DEF CInv
  <1>3. GoldenInv' /\ UNCHANGED <<judged, verdict>>
    BY <1>1, GoldenKept DEF CInv
  <1>4. IInv' /\ UNCHANGED <<flags, model, stage, row, swept, workers>>
    BY <1>1, SweepKept DEF CInv
  <1>5. GoldenCalled' /\ SweepCalled' /\ DisturbedOnlyByTimedOut'
    BY <1>1, <1>3, <1>4 DEF CInv, GoldenCalled, SweepCalled, DisturbedOnlyByTimedOut
  <1>6. RowsTrue' /\ Covered' /\ LabelTrue' /\ ConfInv' /\ StressRows'
    BY <1>1, RowsKept
  <1> QED BY <1>2, <1>3, <1>4, <1>5, <1>6 DEF CInv

LEMMA StartInv == CInit => CInv
  <1> SUFFICES ASSUME CInit PROVE CInv
    OBVIOUS
  <1>1. /\ plan \in Plans /\ order \in Orders /\ conf = Applied(order[1], Preset) /\ slo = order[1]
        /\ groups \in [Models -> Models]
        /\ pass = 1 /\ pillar = NextPillar(1, 1) /\ turn = 1 /\ begun = FALSE /\ rows = {}
        /\ failedModels = {} /\ exit = "none"
    BY DEF CInit, CampaignInit
  <1>2. /\ pillar \in 1..10 /\ (pillar <= 9 => Runs(1, Pillars[pillar]))
        /\ \A k \in 1..(pillar - 1) : Skipped(1, k)
    BY <1>1, NextPillarIs
  <1>3. Len(order) \in Nat /\ Len(order) >= 1 /\ order[1] \in CampaignNames
    BY <1>1, OrderType
  <1>4. DriverType
    <2>1. pass \in 1..(M + 1) /\ pillar \in 1..10 /\ turn \in 1..Len(order)
      BY <1>1, <1>2, <1>3, Sizes
    <2>2. begun \in BOOLEAN /\ failedModels \subseteq Models
      BY <1>1
    <2>3. slo = order[1] /\ exit \in {"none", "ok", "model_failure", "harness_error"}
      BY <1>1
    <2> QED BY <1>1, <2>1, <2>2, <2>3 DEF DriverType
  <1>5. Loops
    BY <1>1, <1>2 DEF Loops
  <1>6. GoldenInv /\ judged = 0
    BY GoldenStart DEF CInit, GoldenInit
  <1>7. IInv /\ model = 0 /\ stage = "idle"
    BY InitInv DEF CInit, Init
  <1>8. GoldenCalled /\ SweepCalled
    BY <1>1, <1>6, <1>7 DEF GoldenCalled, SweepCalled, Sweeping
  <1>9. RowsTrue /\ LabelTrue /\ DisturbedOnlyByTimedOut /\ StressRows
    BY <1>1 DEF RowsTrue, LabelTrue, DisturbedOnlyByTimedOut, StressRows
  <1>10. Covered
    <2> SUFFICES ASSUME NEW m \in Models, NEW i \in 1..9, NEW t \in 1..Len(order),
                        Before(m, i, t), Runs(m, Pillars[i])
                 PROVE  FALSE
      BY DEF Covered
    <2>1. m = 1 /\ i < pillar
      BY <1>1, <1>2, <1>3, Sizes DEF Before, Models
    <2>2. Skipped(1, i)
      BY <1>2, <2>1
    <2> QED BY <2>1, <2>2 DEF Skipped
  <1>11. ConfInv
    <2>1. OnlyChat => conf.lengths = Geometry.preset
      <3>1. OnlyChat => order[1] = "chat_like"
        BY <1>3 DEF OnlyChat
      <3> QED BY <1>1, <3>1 DEF Applied, Preset
    <2>2. ~Campaigned
      <3> SUFFICES ASSUME NEW j \in 1..4, j < pillar, Runs(1, Pillars[j]) PROVE FALSE
        BY <1>1 DEF Campaigned
      <3>1. j \in 1..(pillar - 1)
        BY <1>2
      <3> QED BY <1>2, <3>1 DEF Skipped
    <2> QED BY <1>1, <2>1, <2>2 DEF ConfInv
  <1> QED BY <1>4, <1>5, <1>6, <1>7, <1>8, <1>9, <1>10, <1>11 DEF CInv

LEMMA ProgramStep == CInv /\ [CNext]_all => CInv'
  <1> SUFFICES ASSUME CInv, [CNext]_all PROVE CInv'
    OBVIOUS
  <1>1. CASE Driver
    <2>1. Cell \/ CallGolden \/ CallEvals \/ PassDone \/ Return
      BY <1>1 DEF Driver, Cell
    <2> QED BY <2>1, CellInv, CallGoldenInv, CallEvalsInv, PassDoneInv, ReturnInv
  <1> QED BY <1>1, SweepStepInv, GoldenPartInv, IdleInv DEF CNext

-----------------------------------------------------------------------------
(* The theorems                                                            *)

(* The inductive invariant holds throughout the program.                   *)
THEOREM Program == CSpec => []CInv
  <1> QED BY StartInv, ProgramStep, PTL DEF CSpec

(* The variables of driver, sweep and golden set keep their types.         *)
THEOREM ProgramTypes == CSpec => []CampaignTypeOK
  <1>1. CInv => CampaignTypeOK
    <2> SUFFICES ASSUME CInv PROVE CampaignTypeOK
      OBVIOUS
    <2>1. TypeOK /\ GoldenTypeOK /\ DriverType
      BY DEF CInv, IInv, GoldenInv
    <2>2. slo \in CampaignNames
      BY <2>1, OrderType DEF DriverType
    <2> QED BY <2>1, <2>2, PillarAt DEF CampaignTypeOK, DriverType
  <1> QED BY <1>1, Program, PTL

(* Every row was measured with the window and the lengths of the campaign  *)
(* it is labelled with, whichever campaigns and models went before.        *)
THEOREM LabelsTrue == CSpec => []LabelTrue
  <1>1. CInv => LabelTrue
    BY DEF CInv
  <1> QED BY <1>1, Program, PTL

(* The models of a program are stressed alike, whatever campaigns it runs  *)
(* and whichever model fails on the way.                                   *)
THEOREM StressAlwaysUniform == CSpec => []StressUniform
  <1>1. CInv => StressUniform
    <2> SUFFICES ASSUME CInv, NEW q \in rows, NEW r \in rows, q.slo # "none", r.slo # "none"
                 PROVE  q.lengths = r.lengths /\ q.window = r.window /\ q.slo = r.slo
      BY DEF StressUniform
    <2>1. DriverType /\ q.slo = slo /\ r.slo = slo /\ StressedWith(q) /\ StressedWith(r)
      BY DEF CInv, StressRows
    <2> QED BY <2>1, StressAlike
  <1> QED BY <1>1, Program, PTL

LEMMA AllCovered ==
  ASSUME CInv, exit # "none", NEW m \in Models, NEW i \in 1..9, Runs(m, Pillars[i]),
         groups[m] \notin failedModels, NEW t \in 1..Len(order)
  PROVE  HasRow(m, i, t)
  <1>1. Before(m, i, t)
    BY Sizes DEF CInv, Loops, Before, Models
  <1> QED BY <1>1 DEF CInv, Covered

(* A program that returned has a row for every cell, or says which model   *)
(* failed.                                                                 *)
THEOREM NothingMissing == CSpec => []Complete
  <1>1. CInv => Complete
    <2> SUFFICES ASSUME CInv, exit # "none", NEW m \in Models, NEW i \in 1..Len(Pillars),
                        Runs(m, Pillars[i]), groups[m] \notin failedModels,
                        NEW c \in IF Pillars[i] \in PerCampaign THEN {order[t] : t \in 1..Len(order)} ELSE {"none"}
                 PROVE  \E r \in rows : r.pass = m /\ r.pillar = Pillars[i] /\ r.label = c
      BY ZenonT(30) DEF Complete
    <2>1. i \in 1..9
      BY PillarAt
    <2>2. \E t \in 1..Len(order) : c = LabelOf(i, t)
      <3>1. CASE Pillars[i] \in PerCampaign
        BY <3>1 DEF LabelOf
      <3>2. CASE Pillars[i] \notin PerCampaign
        <4>1. 1 \in 1..Len(order)
          BY OrderType DEF CInv, DriverType
        <4> QED BY <3>2, <4>1 DEF LabelOf
      <3> QED BY <3>1, <3>2
    <2>3. PICK t \in 1..Len(order) : c = LabelOf(i, t)
      BY <2>2
    <2>4. HasRow(m, i, t)
      BY <2>1, <2>3, AllCovered
    <2> QED BY <2>3, <2>4 DEF HasRow
  <1> QED BY <1>1, Program, PTL

(* Exit code 0 means that every text measurement and golden set asked for  *)
(* is there and good, for every model.                                     *)
THEOREM ZeroAlwaysClean == CSpec => []ZeroMeansClean
  <1>1. CInv => ZeroMeansClean
    <2> SUFFICES ASSUME CInv, exit = "ok", NEW m \in Models, NEW p \in plan \cap (TextPillars \cup {"golden"})
                 PROVE  /\ \E r \in rows : r.pass = m /\ r.pillar = p
                        /\ \A r \in rows : r.pillar = p => r.status \in {"ok", "passed"}
      BY DEF ZeroMeansClean
    <2>1. /\ failedModels = {} /\ ~Has(TextPillars, "failed")
          /\ ~Has({"golden"}, "error") /\ ~Has({"golden"}, "failed")
      BY DEF CInv, Loops, ExitCode
    <2>2. PICK i \in 1..9 : Pillars[i] = p
      <3>1. p \in {"serving", "throughput", "stress", "golden"}
        BY DEF TextPillars
      <3> QED BY <3>1, PillarAt
    <2>3. Runs(m, Pillars[i])
      <3>1. p \notin Multimodal
        BY DEF TextPillars, Multimodal
      <3> QED BY <2>2, <3>1 DEF Runs
    <2>4. \E r \in rows : r.pass = m /\ r.pillar = p
      <3>1. 1 \in 1..Len(order)
        BY OrderType DEF CInv, DriverType
      <3>2. HasRow(m, i, 1)
        BY <2>1, <2>3, <3>1, AllCovered
      <3> QED BY <2>2, <3>2 DEF HasRow
    <2>5. ASSUME NEW r \in rows, r.pillar = p PROVE r.status \in {"ok", "passed"}
      <3>1. CASE p \in TextPillars
        BY <2>1, <2>5, <3>1 DEF CInv, RowsTrue, Has
      <3>2. CASE p = "golden"
        BY <2>1, <2>5, <3>2 DEF CInv, RowsTrue, Has
      <3> QED BY <3>1, <3>2
    <2> QED BY <2>4, <2>5
  <1> QED BY <1>1, Program, PTL

(* Whatever a figure was measured beside is named in the report.           *)
THEOREM CulpritsNamed == CSpec => []DisturbedOnlyByTimedOut
  <1>1. CInv => DisturbedOnlyByTimedOut
    BY DEF CInv
  <1> QED BY <1>1, Program, PTL

(* A failed verdict rests on an answer of a model the endpoint serves, and *)
(* so does a passed one, unless no case applies to the model judged.       *)
THEOREM VerdictsNeedAnswers == CSpec => []VerdictNeedsAnswer
  <1>1. CInv => VerdictNeedsAnswer
    BY DEF CInv, GoldenInv
  <1> QED BY <1>1, Program, PTL

(* All models of a program are judged by the answers of one model.         *)
THEOREM OneModelAnswers == CSpec => []OneAskedForAll
  <1>1. CInv => OneAskedForAll
    BY DEF CInv, GoldenInv, OneAskedForAll
  <1> QED BY <1>1, Program, PTL
=============================================================================
