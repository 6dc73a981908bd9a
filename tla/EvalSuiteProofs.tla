--------------------------- MODULE EvalSuiteProofs ---------------------------
(***************************************************************************)
(* Proofs about EvalSuite, for any samples, concurrency and bounds: the    *)
(* tallies count what the traces say, so that the status says what it      *)
(* should, and a tool call is only graded for want of room.                *)
(***************************************************************************)
EXTENDS EvalSuite, FiniteSetTheorems, TLAPS

Barren == {s \in Samples : at[s] = "recorded" /\ Fruitless(reply[s])}
CutOff == {s \in Samples : at[s] = "recorded" /\ reply[s].cut}

(* TypeOK, with the tallies only known to be natural numbers.              *)
TypeCore ==
  /\ tools \in BOOLEAN
  /\ judged \in BOOLEAN
  /\ phase \in {"generating", "judging", "raised", "reported"}
  /\ at \in [Samples -> {"unsent", "queued", "sending", "replied", "returned", "recorded"}]
  /\ turn \in [Samples -> {"loop", "final", "recover"}]
  /\ try \in [Samples -> 1..Tries]
  /\ rounds \in [Samples -> 0..MaxToolRounds]
  /\ oversize \in [Samples -> BOOLEAN]
  /\ reply \in [Samples -> Replies]
  /\ grade \in [Samples -> Grade]
  /\ failed \in Nat /\ truncated \in Nat /\ correct \in Nat
  /\ result \in {"none"} \cup Status

(* The counters kept while replies come in agree with the traces.          *)
TallyInv ==
  /\ failed = Cardinality(Barren)
       + (IF phase = "reported" THEN Cardinality(Graded("unparsed")) ELSE 0)
  /\ truncated = Cardinality(CutOff)
  /\ correct = IF judged /\ phase # "reported" THEN 0 ELSE Cardinality(Graded("right"))

(* What is known of the traces in each phase.                              *)
PhaseInv ==
  /\ phase \in {"judging", "reported"} => AllRecorded
  /\ phase = "judging" => judged
  /\ phase = "generating" /\ judged => \A s \in Samples : grade[s] = "ungraded"
  /\ phase = "reported" =>
       /\ \A s \in Samples : grade[s] # "ungraded"
       /\ result = StatusOf(failed, Cardinality(Graded("outage")), truncated)
  /\ phase # "reported" => result = "none"

(* Every grade is one the trace can have got.                              *)
GradeInv ==
  \A s \in Samples : grade[s] # "ungraded" =>
    /\ at[s] = "recorded"
    /\ IF judged THEN grade[s] \in GradesOf(reply[s]) ELSE grade[s] \in Verdicts(reply[s])

UngradedInv == ~judged => \A s \in Samples : at[s] = "recorded" => grade[s] # "ungraded"

(* A final turn withdraws the tools; only a sample without room keeps a    *)
(* tool call.                                                              *)
CallInv ==
  \A s \in Samples :
    /\ at[s] = "replied" /\ turn[s] = "final" => ~reply[s].calls
    /\ turn[s] = "recover" => ~reply[s].calls
    /\ at[s] \in {"returned", "recorded"} /\ tools /\ reply[s].calls => oversize[s]

IInv == TypeCore /\ TallyInv /\ PhaseInv /\ GradeInv /\ UngradedInv /\ CallInv

-----------------------------------------------------------------------------
LEMMA ReplyFacts ==
  /\ NoReply \in Replies
  /\ NoReply.text = "none" /\ ~NoReply.calls /\ ~NoReply.cut
  /\ \A r \in Replies : /\ r.text \in Text
                        /\ r.text # "words" => ~r.calls
                        /\ r.text = "none" => ~r.cut
  <1>1. NoReply \in Replies /\ NoReply.text = "none" /\ ~NoReply.calls /\ ~NoReply.cut
    BY DEF NoReply, Replies
  <1>2. ASSUME NEW r \in [text : {"empty", "blank"}, calls : {FALSE}, cut : BOOLEAN]
        PROVE  r.text \in {"empty", "blank"} /\ ~r.calls
    <2>1. r.calls \in {FALSE}
      OBVIOUS
    <2>2. r.calls = FALSE
      BY <2>1
    <2>3. QED
      BY <2>2
  <1>3. ASSUME NEW r \in [text : {"words"}, calls : BOOLEAN, cut : BOOLEAN]
        PROVE  r.text = "words"
    OBVIOUS
  <1>4. ASSUME NEW r \in Replies
        PROVE  r.text \in Text /\ (r.text # "words" => ~r.calls) /\ (r.text = "none" => ~r.cut)
    BY <1>1, <1>2, <1>3 DEF Replies, Text
  <1>5. QED
    BY <1>1, <1>4

(* What a step of the tool loop leaves alone, and how it keeps CallInv for *)
(* its own sample.                                                         *)
LEMMA FetchShape ==
  ASSUME TypeCore, CallInv, NEW s \in Samples, Fetch(s)
  PROVE  /\ phase = "generating" /\ at[s] # "recorded" /\ at'[s] # "recorded"
         /\ TypeCore'
         /\ \A t \in Samples \ {s} : at'[t] = at[t] /\ reply'[t] = reply[t]
                                   /\ turn'[t] = turn[t] /\ oversize'[t] = oversize[t]
         /\ UNCHANGED <<tools, judged, phase, grade, failed, truncated, correct, result>>
         /\ CallInv'
  <1> DEFINE Others == \A t \in Samples \ {s} : at'[t] = at[t] /\ reply'[t] = reply[t]
                                   /\ turn'[t] = turn[t] /\ oversize'[t] = oversize[t]
             Mine == /\ at'[s] = "replied" /\ turn'[s] = "final" => ~reply'[s].calls
                     /\ turn'[s] = "recover" => ~reply'[s].calls
                     /\ at'[s] \in {"returned", "recorded"} /\ tools /\ reply'[s].calls
                          => oversize'[s]
             Types == /\ at' \in [Samples -> {"unsent", "queued", "sending", "replied", "returned", "recorded"}]
                      /\ turn' \in [Samples -> {"loop", "final", "recover"}]
                      /\ try' \in [Samples -> 1..Tries]
                      /\ rounds' \in [Samples -> 0..MaxToolRounds]
                      /\ oversize' \in [Samples -> BOOLEAN]
                      /\ reply' \in [Samples -> Replies]
             Shape == /\ phase = "generating" /\ at[s] # "recorded" /\ at'[s] # "recorded"
                      /\ Types /\ Others /\ Mine
  <1>1. UNCHANGED <<tools, judged, phase, grade, failed, truncated, correct, result>>
    BY DEF Fetch, tallies
  <1>2. 1 \in 1..Tries
    BY BoundsNat
  <1>3. /\ NoReply \in Replies /\ ~NoReply.calls
        /\ \A r \in Replies : r.text \in {"empty", "blank"} => ~r.calls
    BY ReplyFacts
  <1> SUFFICES Shape
    <2> ASSUME Shape PROVE TypeCore' /\ CallInv'
      <3>1. TypeCore'
        BY <1>1 DEF TypeCore
      <3>2. CallInv'
        BY <1>1 DEF CallInv
      <3>3. QED
        BY <3>1, <3>2
    <2> QED
      BY <1>1
  <1>4. CASE Begin(s)
    <2>1. at[s] = "unsent" /\ phase = "generating" /\ UNCHANGED <<rounds, reply>>
      BY <1>4 DEF Begin, Generating
    <2>2. CASE at'[s] = "queued"
      BY <2>1, <2>2, <1>2, <1>4, ZenonT(30) DEF TypeCore, CallInv, Begin, AskIfRoom, Set
    <2>3. CASE at'[s] = "returned"
      BY <2>1, <2>3, <1>2, <1>4 DEF TypeCore, CallInv, Begin, AskIfRoom, Set
    <2>4. QED
      BY <2>2, <2>3, <1>4 DEF TypeCore, Begin, AskIfRoom, Set
  <1>5. CASE Acquire(s)
    BY <1>5 DEF TypeCore, CallInv, Acquire, Generating, Set
  <1>6. ASSUME NEW r \in Replies, Generating(s, "sending"), Deliver(s, r),
               turn[s] # "loop" => ~r.calls
        PROVE  Shape
    BY <1>6 DEF TypeCore, CallInv, Deliver, Generating, Set
  <1>7. CASE Answer(s)
    BY <1>6, <1>7 DEF Answer
  <1>8. CASE Retry(s)
    BY <1>8, BoundsNat DEF TypeCore, CallInv, Retry, Generating, Set
  <1>9. CASE GiveUp(s)
    BY <1>3, <1>6, <1>9 DEF GiveUp
  <1>10. ASSUME Generating(s, "replied"), Return(s), turn[s] = "loop" => ~CallsTools(s)
         PROVE  Shape
    BY <1>10 DEF TypeCore, CallInv, Return, Generating, Set, CallsTools
  <1>11. ASSUME Generating(s, "replied"), turn[s] = "loop", NEW t \in {"loop", "final"},
                AskIfRoom(s, t), reply' = reply, rounds' \in [Samples -> 0..MaxToolRounds]
         PROVE  Shape
    BY <1>2, <1>11, ZenonT(30) DEF TypeCore, CallInv, AskIfRoom, Generating, Set
  <1>12. CASE EndLoop(s)
    BY <1>10, <1>11, <1>12 DEF EndLoop, TypeCore
  <1>13. CASE ForceFinal(s)
    BY <1>11, <1>13 DEF ForceFinal, TypeCore
  <1>14. CASE RunTools(s)
    <2>1. rounds' \in [Samples -> 0..MaxToolRounds]
      BY <1>14, BoundsNat DEF RunTools, MoreRounds, TypeCore, Set
    <2>2. QED
      BY <2>1, <1>11, <1>14 DEF RunTools
  <1>15. CASE RecoverFinal(s)
    BY <1>2, <1>3, <1>15 DEF TypeCore, CallInv, RecoverFinal, Generating, Set
  <1>16. CASE EndFinal(s)
    BY <1>10, <1>16 DEF EndFinal
  <1>17. QED
    BY <1>5, <1>4, <1>7, <1>8, <1>9, <1>12, <1>13, <1>14, <1>15, <1>16 DEF Fetch, Request

-----------------------------------------------------------------------------
(* The invariant, action by action                                         *)

LEMMA FiniteParts ==
  ASSUME NEW T \in SUBSET Samples
  PROVE  IsFiniteSet(T) /\ Cardinality(T) \in Nat /\ Cardinality(T) <= Total
  BY SamplesFinite, FS_Subset, FS_CardinalityType DEF Total

LEMMA InitInv == Init => IInv
  <1> SUFFICES ASSUME Init PROVE IInv
    OBVIOUS
  <1>1. Barren = {} /\ CutOff = {} /\ Graded("right") = {}
    BY DEF Init, Barren, CutOff, Graded
  <1>2. TallyInv
    BY <1>1, FS_EmptySet DEF TallyInv, Init
  <1>3. TypeCore
    BY ReplyFacts, BoundsNat DEF Init, TypeCore, Grade
  <1>4. PhaseInv /\ GradeInv /\ UngradedInv
    BY DEF Init, PhaseInv, GradeInv, UngradedInv
  <1>5. CallInv
    BY DEF Init, CallInv
  <1>6. QED
    BY <1>2, <1>3, <1>4, <1>5 DEF IInv

(* A step of the tool loop touches no recorded sample.                     *)
LEMMA FetchInv ==
  ASSUME IInv, NEW s \in Samples, Fetch(s)
  PROVE  IInv'
  <1>1. /\ phase = "generating" /\ at[s] # "recorded" /\ at'[s] # "recorded"
        /\ TypeCore' /\ CallInv'
        /\ \A t \in Samples \ {s} : at'[t] = at[t] /\ reply'[t] = reply[t]
        /\ UNCHANGED <<tools, judged, phase, grade, failed, truncated, correct, result>>
    BY FetchShape DEF IInv
  <1>2. Barren' = Barren /\ CutOff' = CutOff
    BY <1>1 DEF Barren, CutOff, Fruitless
  <1>3. Graded("right")' = Graded("right") /\ Graded("unparsed")' = Graded("unparsed")
    BY <1>1 DEF Graded
  <1>4. TallyInv'
    BY <1>1, <1>2, <1>3 DEF IInv, TallyInv
  <1>5. PhaseInv'
    BY <1>1 DEF IInv, PhaseInv
  <1>6. GradeInv'
    BY <1>1 DEF IInv, GradeInv, GradesOf, Verdicts, Fruitless
  <1>7. UngradedInv'
    BY <1>1 DEF IInv, UngradedInv
  <1>8. QED
    BY <1>1, <1>4, <1>5, <1>6, <1>7 DEF IInv

(* A sample is recorded once, and counted under what its reply was.        *)
LEMMA RecordInv ==
  ASSUME IInv, NEW s \in Samples, Record(s)
  PROVE  IInv'
  <1>1. /\ phase = "generating" /\ at[s] = "returned" /\ grade[s] = "ungraded"
        /\ at' = [at EXCEPT ![s] = "recorded"]
        /\ UNCHANGED <<tools, judged, phase, turn, try, rounds, oversize, reply, result>>
    BY DEF IInv, GradeInv, Record, Generating, Set
  <1>2. failed' = failed + (IF Fruitless(reply[s]) THEN 1 ELSE 0)
    BY DEF Record
  <1>3. truncated' = truncated + (IF reply[s].cut THEN 1 ELSE 0)
    BY DEF Record
  <1>4. at'[s] = "recorded" /\ \A t \in Samples \ {s} : at'[t] = at[t]
    BY <1>1 DEF IInv, TypeCore
  <1>5. /\ Barren' = IF Fruitless(reply[s]) THEN Barren \cup {s} ELSE Barren
        /\ s \notin Barren
    BY <1>1, <1>4 DEF Barren, Fruitless
  <1>6. /\ CutOff' = IF reply[s].cut THEN CutOff \cup {s} ELSE CutOff
        /\ s \notin CutOff
    BY <1>1, <1>4 DEF CutOff
  <1>7. IsFiniteSet(Barren) /\ IsFiniteSet(CutOff) /\ IsFiniteSet(Graded("right"))
    BY FiniteParts DEF Barren, CutOff, Graded
  <1>8. failed' = Cardinality(Barren') /\ failed' \in Nat
    <2>1. failed = Cardinality(Barren) /\ Cardinality(Barren) \in Nat
      BY <1>1, <1>7, FS_CardinalityType DEF IInv, TallyInv
    <2>2. Cardinality(Barren \cup {s}) = Cardinality(Barren) + 1
      BY <1>5, <1>7, FS_AddElement
    <2>3. CASE Fruitless(reply[s])
      BY <1>2, <1>5, <2>1, <2>2, <2>3
    <2>4. CASE ~Fruitless(reply[s])
      BY <1>2, <1>5, <2>1, <2>4
    <2>5. QED
      BY <2>3, <2>4
  <1>9. truncated' = Cardinality(CutOff')
    <2>1. truncated = Cardinality(CutOff) /\ Cardinality(CutOff) \in Nat
      BY <1>7, FS_CardinalityType DEF IInv, TallyInv
    <2>2. Cardinality(CutOff \cup {s}) = Cardinality(CutOff) + 1
      BY <1>6, <1>7, FS_AddElement
    <2>3. CASE reply[s].cut
      BY <1>3, <1>6, <2>1, <2>2, <2>3
    <2>4. CASE ~reply[s].cut
      BY <1>3, <1>6, <2>1, <2>4
    <2>5. QED
      BY <2>3, <2>4
  <1>10. CASE judged
    <2>1. grade' = grade /\ correct' = correct
      BY <1>10 DEF Record
    <2>2. TallyInv'
      BY <1>1, <1>8, <1>9, <1>10, <2>1 DEF IInv, TallyInv
    <2>3. TypeCore'
      BY <1>1, <1>2, <1>3, <2>1 DEF IInv, TypeCore
    <2>4. PhaseInv' /\ GradeInv' /\ UngradedInv'
      BY <1>1, <1>10, <2>1 DEF IInv, PhaseInv, GradeInv, UngradedInv
    <2>5. CallInv'
      BY <1>1, <1>4 DEF IInv, CallInv
    <2>6. QED
      BY <2>2, <2>3, <2>4, <2>5 DEF IInv
  <1>11. CASE ~judged
    <2>1. PICK v \in Verdicts(reply[s]) :
            /\ grade' = [grade EXCEPT ![s] = v]
            /\ correct' = correct + (IF v = "right" THEN 1 ELSE 0)
      BY <1>11 DEF Record, Set
    <2>2. v \in {"right", "wrong"}
      BY DEF Verdicts
    <2>3. grade'[s] = v /\ \A t \in Samples \ {s} : grade'[t] = grade[t]
      BY <2>1 DEF IInv, TypeCore
    <2>4. /\ Graded("right")' = IF v = "right" THEN Graded("right") \cup {s} ELSE Graded("right")
          /\ s \notin Graded("right")
      BY <1>1, <2>3 DEF Graded
    <2>5. correct' = Cardinality(Graded("right")')
      <3>1. correct = Cardinality(Graded("right")) /\ Cardinality(Graded("right")) \in Nat
        BY <1>7, <1>11, FS_CardinalityType DEF IInv, TallyInv
      <3>2. Cardinality(Graded("right") \cup {s}) = Cardinality(Graded("right")) + 1
        BY <1>7, <2>4, FS_AddElement
      <3>3. CASE v = "right"
        BY <2>1, <2>4, <3>1, <3>2, <3>3
      <3>4. CASE v # "right"
        BY <2>1, <2>4, <3>1, <3>4
      <3>5. QED
        BY <3>3, <3>4
    <2>6. TallyInv'
      BY <1>1, <1>8, <1>9, <1>11, <2>5 DEF TallyInv
    <2>7. TypeCore'
      BY <1>1, <1>2, <1>3, <2>1, <2>2 DEF IInv, TypeCore, Grade
    <2>8. PhaseInv'
      BY <1>1, <1>11 DEF IInv, PhaseInv
    <2>9. GradeInv'
      BY <1>1, <1>4, <1>11, <2>3 DEF IInv, GradeInv
    <2>10. UngradedInv'
      BY <1>1, <1>4, <2>2, <2>3 DEF IInv, UngradedInv
    <2>11. CallInv'
      BY <1>1, <1>4 DEF IInv, CallInv
    <2>12. QED
      BY <2>6, <2>7, <2>8, <2>9, <2>10, <2>11 DEF IInv
  <1>12. QED
    BY <1>10, <1>11

LEMMA StartJudgingInv ==
  ASSUME IInv, StartJudging
  PROVE  IInv'
  <1>1. /\ phase = "generating" /\ judged /\ AllRecorded /\ phase' = "judging"
        /\ UNCHANGED <<tools, judged, at, turn, try, rounds, oversize, reply, grade,
                       failed, truncated, correct, result>>
    BY DEF StartJudging, loop, tallies
  <1>2. TypeCore'
    BY <1>1 DEF IInv, TypeCore
  <1>3. TallyInv'
    BY <1>1 DEF IInv, TallyInv, Barren, CutOff, Graded, Fruitless
  <1>4. PhaseInv' /\ GradeInv' /\ UngradedInv' /\ CallInv'
    BY <1>1 DEF IInv, PhaseInv, GradeInv, UngradedInv, CallInv, AllRecorded, GradesOf
  <1>5. QED
    BY <1>2, <1>3, <1>4 DEF IInv

(* The judge's grades are only counted at the end.                         *)
LEMMA JudgeSampleInv ==
  ASSUME IInv, NEW s \in Samples, JudgeSample(s)
  PROVE  IInv'
  <1>1. PICK g \in GradesOf(reply[s]) : grade' = [grade EXCEPT ![s] = g]
    BY DEF JudgeSample, Set
  <1>2. /\ phase = "judging" /\ judged /\ AllRecorded /\ result = "none"
        /\ UNCHANGED <<tools, judged, phase, at, turn, try, rounds, oversize, reply,
                       failed, truncated, correct, result>>
    BY DEF IInv, PhaseInv, JudgeSample, loop, tallies
  <1>3. g \in Grade \ {"ungraded"}
    BY DEF GradesOf, Grade
  <1>4. TypeCore'
    BY <1>1, <1>2, <1>3 DEF IInv, TypeCore
  <1>5. grade'[s] = g /\ \A t \in Samples \ {s} : grade'[t] = grade[t]
    BY <1>1 DEF IInv, TypeCore
  <1>6. TallyInv'
    BY <1>2 DEF IInv, TallyInv, Barren, CutOff, Fruitless
  <1>7. PhaseInv' /\ UngradedInv' /\ CallInv'
    BY <1>2 DEF IInv, PhaseInv, UngradedInv, CallInv, AllRecorded
  <1>8. GradeInv'
    BY <1>2, <1>5 DEF IInv, GradeInv, AllRecorded, GradesOf
  <1>9. QED
    BY <1>4, <1>6, <1>7, <1>8 DEF IInv

LEMMA ReportInv ==
  ASSUME IInv, Report
  PROVE  IInv'
  <1>1. /\ phase # "reported" /\ phase' = "reported"
        /\ UNCHANGED <<tools, judged, at, turn, try, rounds, oversize, reply, grade, truncated>>
        /\ failed' = failed + Cardinality(Graded("unparsed"))
        /\ correct' = IF judged THEN Cardinality(Graded("right")) ELSE correct
        /\ result' = StatusOf(failed', Cardinality(Graded("outage")), truncated)
    BY DEF Report, loop
  <1>2. AllRecorded /\ \A s \in Samples : grade[s] # "ungraded"
    BY DEF Report, IInv, PhaseInv, UngradedInv, AllRecorded, Graded
  <1>3. Cardinality(Graded("unparsed")) \in Nat /\ Cardinality(Graded("right")) \in Nat
    BY FiniteParts DEF Graded
  <1>4. Cardinality(Barren) \in Nat /\ failed = Cardinality(Barren)
    BY <1>1, FiniteParts DEF IInv, TallyInv, Barren
  <1>5. \A g : Graded(g)' = Graded(g)
    BY <1>1 DEF Graded
  <1>6. Barren' = Barren /\ CutOff' = CutOff
    BY <1>1 DEF Barren, CutOff, Fruitless
  <1>7. TallyInv'
    BY <1>1, <1>4, <1>5, <1>6 DEF IInv, TallyInv
  <1>8. result' \in Status
    BY <1>1 DEF StatusOf, Status
  <1>9. TypeCore'
    BY <1>1, <1>3, <1>8 DEF IInv, TypeCore
  <1>10. PhaseInv'
    BY <1>1, <1>2, <1>5 DEF PhaseInv, AllRecorded, StatusOf, Total
  <1>11. GradeInv' /\ UngradedInv' /\ CallInv'
    BY <1>1 DEF IInv, GradeInv, UngradedInv, CallInv, GradesOf, Verdicts, Fruitless
  <1>12. QED
    BY <1>7, <1>9, <1>10, <1>11 DEF IInv

LEMMA RaiseInv ==
  ASSUME IInv, GraderRaises
  PROVE  IInv'
  <1>1. /\ phase \in {"generating", "judging"} /\ phase' = "raised"
        /\ UNCHANGED <<tools, judged, at, turn, try, rounds, oversize, reply, grade,
                       failed, truncated, correct, result>>
    BY DEF GraderRaises, loop, tallies
  <1>2. TypeCore'
    BY <1>1 DEF IInv, TypeCore
  <1>3. TallyInv'
    BY <1>1 DEF IInv, TallyInv, Barren, CutOff, Graded, Fruitless
  <1>4. PhaseInv' /\ GradeInv' /\ UngradedInv' /\ CallInv'
    BY <1>1 DEF IInv, PhaseInv, GradeInv, UngradedInv, CallInv, GradesOf, Verdicts, Fruitless
  <1>5. QED
    BY <1>2, <1>3, <1>4 DEF IInv

LEMMA StutterInv ==
  ASSUME IInv, UNCHANGED vars
  PROVE  IInv'
  <1>1. UNCHANGED <<tools, judged, phase, at, turn, try, rounds, oversize, reply, grade,
                   failed, truncated, correct, result>>
    BY DEF vars, loop, tallies
  <1>2. TypeCore'
    BY <1>1 DEF IInv, TypeCore
  <1>3. TallyInv'
    BY <1>1 DEF IInv, TallyInv, Barren, CutOff, Graded, Fruitless
  <1>4. PhaseInv'
    BY <1>1 DEF IInv, PhaseInv, AllRecorded, StatusOf, Total, Graded
  <1>5. GradeInv' /\ UngradedInv' /\ CallInv'
    BY <1>1 DEF IInv, GradeInv, UngradedInv, CallInv, GradesOf, Verdicts, Fruitless
  <1>6. QED
    BY <1>2, <1>3, <1>4, <1>5 DEF IInv

(* The inductive invariant holds of every suite, whatever the server, the  *)
(* tools and the graders do.                                               *)
THEOREM Invariance == Spec => []IInv
  <1>1. IInv /\ [Next]_vars => IInv'
    <2> SUFFICES ASSUME IInv, [Next]_vars PROVE IInv'
      OBVIOUS
    <2>1. ASSUME NEW s \in Samples, Fetch(s) PROVE IInv'
      BY <2>1, FetchInv
    <2>2. ASSUME NEW s \in Samples, Record(s) PROVE IInv'
      BY <2>2, RecordInv
    <2>3. ASSUME NEW s \in Samples, JudgeSample(s) PROVE IInv'
      BY <2>3, JudgeSampleInv
    <2>4. CASE StartJudging
      BY <2>4, StartJudgingInv
    <2>5. CASE Report
      BY <2>5, ReportInv
    <2>6. CASE GraderRaises
      BY <2>6, RaiseInv
    <2>7. CASE UNCHANGED vars
      BY <2>7, StutterInv
    <2>8. QED
      BY <2>1, <2>2, <2>3, <2>4, <2>5, <2>6, <2>7 DEF Next, Proceed
  <1>2. QED
    BY InitInv, <1>1, PTL DEF Spec

-----------------------------------------------------------------------------
(* What follows                                                            *)

(* The types, and the bounds of the tallies: no more requests fail than    *)
(* there are samples, but for those the judge counts again.                *)
THEOREM TypeCorrect == Spec => []TypeOK
  <1>1. IInv => TypeOK
    <2> SUFFICES ASSUME IInv PROVE TypeOK
      OBVIOUS
    <2>1. Cardinality(Barren) \in 0..Total /\ Cardinality(CutOff) \in 0..Total
      BY FiniteParts, FS_CardinalityType, SamplesFinite DEF Barren, CutOff, Total
    <2>2. \A g : Cardinality(Graded(g)) \in 0..Total
      BY FiniteParts, FS_CardinalityType, SamplesFinite DEF Graded, Total
    <2>3. Total \in Nat
      BY FS_CardinalityType, SamplesFinite DEF Total
    <2>4. failed \in 0..2 * Total
      BY <2>1, <2>2, <2>3 DEF IInv, TallyInv
    <2>5. truncated \in 0..Total /\ correct \in 0..Total
      BY <2>1, <2>2, <2>3 DEF IInv, TallyInv
    <2>6. QED
      BY <2>4, <2>5 DEF IInv, TypeCore, TypeOK, Total
  <1>2. QED
    BY <1>1, Invariance, PTL

(* Whatever fails on the way, a suite reported as a success was answered   *)
(* in full and lost nothing to its judge.                                  *)
THEOREM SuccessIsEarned == Spec => []SuccessEarned
  <1>1. IInv => SuccessEarned
    <2> SUFFICES ASSUME IInv, result = "success" PROVE SuccessEarned
      BY DEF SuccessEarned
    <2>1. phase = "reported"
      BY DEF IInv, PhaseInv
    <2>2. /\ AllRecorded /\ \A s \in Samples : grade[s] # "ungraded"
          /\ result = StatusOf(failed, Cardinality(Graded("outage")), truncated)
      BY <2>1 DEF IInv, PhaseInv
    <2>3. failed = 0 /\ Cardinality(Graded("outage")) = 0 /\ truncated * CutShare <= Total
      BY <2>2 DEF StatusOf
    <2>4. /\ IsFiniteSet(Barren) /\ Cardinality(Barren) \in Nat
          /\ IsFiniteSet(Graded("unparsed")) /\ Cardinality(Graded("unparsed")) \in Nat
          /\ IsFiniteSet(Graded("outage"))
      BY FiniteParts DEF Barren, Graded
    <2>5. Cardinality(Barren) = 0 /\ Cardinality(Graded("unparsed")) = 0
      BY <2>1, <2>3, <2>4 DEF IInv, TallyInv
    <2>6. Barren = {} /\ Graded("unparsed") = {} /\ Graded("outage") = {}
      BY <2>3, <2>4, <2>5, FS_EmptySet
    <2>7. \A s \in Samples : grade[s] \notin {"ungraded", "unparsed", "outage"}
      BY <2>2, <2>6 DEF Graded
    <2>8. \A s \in Samples : Answered(s)
      <3> TAKE s \in Samples
      <3>1. ~Fruitless(reply[s])
        BY <2>2, <2>6 DEF Barren, AllRecorded
      <3>2. reply[s].text \in Text
        BY ReplyFacts DEF IInv, TypeCore
      <3>3. QED
        BY <3>1, <3>2 DEF Fruitless, Answered, Text
    <2>9. CutOff = {s \in Samples : reply[s].cut}
      BY <2>2 DEF CutOff, AllRecorded
    <2>10. CutShare * Cardinality({s \in Samples : reply[s].cut}) <= Total
      <3>1. truncated = Cardinality({s \in Samples : reply[s].cut}) /\ truncated \in Nat
        BY <2>9 DEF IInv, TallyInv, TypeCore
      <3>2. QED
        BY <2>3, <3>1, ShareNat
    <2>11. QED
      BY <2>7, <2>8, <2>10 DEF SuccessEarned
  <1>2. QED
    BY <1>1, Invariance, PTL

(* A suite reported as failed has no right answer to lose, but for replies *)
(* of white space.                                                         *)
THEOREM FailedIsSound == Spec => []FailedSound
  <1>1. IInv => FailedSound
    <2> SUFFICES ASSUME IInv, result = "failed", \A s \in Samples : reply[s].text # "blank",
                        NEW s \in Samples, grade[s] = "right"
                 PROVE  FALSE
      BY DEF FailedSound, Graded
    <2> DEFINE Lost == Graded("unparsed")
               Out  == Graded("outage")
    <2>1. phase = "reported"
      BY DEF IInv, PhaseInv
    <2>2. /\ AllRecorded
          /\ failed = Total \/ Cardinality(Out) >= Total
      BY <2>1 DEF IInv, PhaseInv, StatusOf
    <2>3. \A t \in Samples : reply[t].text \in {"none", "empty", "words"}
      BY ReplyFacts DEF IInv, TypeCore, Text
    <2>4. \A t \in Samples : reply[t].text = "none" => ~reply[t].cut
      BY ReplyFacts DEF IInv, TypeCore
    <2>5. s \notin Barren
      <3>1. CASE judged
        <4>1. grade[s] \in GradesOf(reply[s])
          BY <3>1 DEF IInv, GradeInv
        <4>2. reply[s].text = "words" \/ reply[s].cut
          BY <2>3, <4>1 DEF GradesOf
        <4>3. QED
          BY <2>4, <4>2 DEF Barren, Fruitless
      <3>2. CASE ~judged
        BY <3>2 DEF IInv, GradeInv, Verdicts, Barren
      <3>3. QED
        BY <3>1, <3>2
    <2>6. IsFiniteSet(Barren) /\ IsFiniteSet(Lost) /\ IsFiniteSet(Out)
      BY FiniteParts DEF Barren, Graded
    <2>7. CASE Cardinality(Out) >= Total
      <3>1. Out = Samples
        <4>1. /\ Cardinality(Out) \in Nat /\ Cardinality(Samples) \in Nat
              /\ Cardinality(Out) <= Cardinality(Samples)
          BY FiniteParts, FS_CardinalityType, SamplesFinite DEF Graded, Total
        <4>2. Cardinality(Samples) = Cardinality(Out)
          BY <2>7, <4>1 DEF Total
        <4>3. QED
          BY <4>2, FS_Subset, SamplesFinite DEF Graded
      <3>2. QED
        BY <3>1 DEF Graded
    <2>8. CASE failed = Total
      <3>1. Barren \cap Lost = {}
        <4>1. ASSUME NEW t \in Barren, t \in Lost PROVE FALSE
          <5>1. grade[t] = "unparsed" /\ t \in Samples /\ Fruitless(reply[t])
            BY <4>1 DEF Graded, Barren
          <5>2. judged /\ grade[t] \in GradesOf(reply[t])
            BY <5>1 DEF IInv, GradeInv, Verdicts
          <5>3. reply[t].text = "words"
            BY <2>3, <5>1, <5>2 DEF GradesOf
          <5>4. QED
            BY <5>1, <5>3 DEF Fruitless
        <4>2. QED
          BY <4>1
      <3>2. failed = Cardinality(Barren) + Cardinality(Lost)
        BY <2>1 DEF IInv, TallyInv
      <3>3. Cardinality(Barren \cup Lost) = Cardinality(Samples)
        <4>1. /\ Cardinality(Barren) \in Nat /\ Cardinality(Lost) \in Nat
              /\ Cardinality(Barren \cap Lost) = 0
          BY <2>6, <3>1, FS_EmptySet, FS_CardinalityType
        <4>2. Cardinality(Barren \cup Lost)
                = Cardinality(Barren) + Cardinality(Lost) - Cardinality(Barren \cap Lost)
          BY <2>6, FS_Union
        <4>3. QED
          BY <2>8, <3>2, <4>1, <4>2 DEF Total
      <3>4. Barren \cup Lost = Samples
        BY <3>3, FS_Subset, SamplesFinite DEF Barren, Graded
      <3>5. s \in Lost
        BY <2>5, <3>4
      <3>6. QED
        BY <3>5 DEF Graded
    <2>9. QED
      BY <2>2, <2>7, <2>8
  <1>2. QED
    BY <1>1, Invariance, PTL

(* Only a sample whose transcript is full is graded on a tool call.        *)
THEOREM ToolCallsAnswered == Spec => []DanglingOnlyWhenFull
  <1>1. IInv => DanglingOnlyWhenFull
    BY DEF IInv, CallInv, DanglingOnlyWhenFull, Dangling
  <1>2. QED
    BY <1>1, Invariance, PTL

(* The accuracy of a reported suite is a share, at most 1, for any number  *)
(* of samples excluded or lost to the judge.                               *)
THEOREM AccuracyIsAShare == Spec => []AccuracyIsShare
  <1>1. IInv => AccuracyIsShare
    <2> SUFFICES ASSUME IInv, phase = "reported"
                 PROVE  correct = Cardinality(Graded("right")) /\ correct <= Scored
      BY DEF AccuracyIsShare
    <2> DEFINE Right == Graded("right")
               Out   == Graded("outage")
               Apart == Graded("excluded")
    <2>1. correct = Cardinality(Right)
      BY DEF IInv, TallyInv
    <2>2. Right \in SUBSET Samples /\ Out \in SUBSET Samples /\ Apart \in SUBSET Samples
      BY DEF Graded
    <2>3. Right \cap Out = {} /\ (Right \cup Out) \cap Apart = {}
      BY DEF Graded
    <2>4. (Right \cup Out) \cup Apart \in SUBSET Samples /\ Right \cup Out \in SUBSET Samples
      BY <2>2
    <2> HIDE DEF Right, Out, Apart
    <2>5. /\ IsFiniteSet(Right) /\ IsFiniteSet(Out) /\ IsFiniteSet(Apart)
          /\ IsFiniteSet(Right \cup Out)
          /\ Cardinality((Right \cup Out) \cup Apart) <= Total
      BY <2>2, <2>4, FiniteParts
    <2>6. Cardinality(Right \cup Out) = Cardinality(Right) + Cardinality(Out) - Cardinality(Right \cap Out)
      BY <2>5, FS_Union
    <2>7. Cardinality((Right \cup Out) \cup Apart)
            = Cardinality(Right \cup Out) + Cardinality(Apart) - Cardinality((Right \cup Out) \cap Apart)
      BY <2>5, FS_Union
    <2>8. Cardinality(Right) \in Nat /\ Cardinality(Out) \in Nat /\ Cardinality(Apart) \in Nat /\ Total \in Nat
      BY <2>2, FiniteParts, SamplesFinite, FS_CardinalityType DEF Total
    <2>9. Cardinality(Right \cap Out) = 0 /\ Cardinality((Right \cup Out) \cap Apart) = 0
      BY <2>3, FS_EmptySet
    <2>10. Cardinality(Right) <= Total - Cardinality(Out) - Cardinality(Apart)
      <3> DEFINE r == Cardinality(Right)
                 o == Cardinality(Out)
                 a == Cardinality(Apart)
                 u == Cardinality(Right \cup Out)
                 w == Cardinality((Right \cup Out) \cup Apart)
      <3>1. u = r + o - 0 /\ w = u + a - 0 /\ w <= Total
        BY <2>5, <2>6, <2>7, <2>9
      <3>2. r \in Nat /\ o \in Nat /\ a \in Nat /\ Total \in Nat
        BY <2>8
      <3> HIDE DEF r, o, a, u, w
      <3>3. r <= Total - o - a
        BY <3>1, <3>2
      <3> QED BY <3>3 DEF r, o, a
    <2> QED BY <2>1, <2>10 DEF Scored, Right, Out, Apart
  <1>2. QED
    BY <1>1, Invariance, PTL
=============================================================================
