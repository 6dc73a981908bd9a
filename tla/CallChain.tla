------------------------------ MODULE CallChain ------------------------------
(***************************************************************************)
(* One sample of ComplexFuncBench: gbench/runners/eval_suites/             *)
(* complexfuncbench.py.  The model under test is led through a golden      *)
(* chain of turns, each a list of function calls that may come in any      *)
(* order.  What it calls is matched with the golden calls that are due,    *)
(* exactly, as an optional ("free") call, or by similarity and a judge;    *)
(* it is then shown what was recorded for the golden call.                 *)
(*                                                                         *)
(* A call is its function and one value that stands for its arguments.     *)
(* What was recorded for the j-th call of turn t is <<t, j>>.              *)
(***************************************************************************)
EXTENDS Integers, SequencesExt

CONSTANTS
  Chains,     \* golden chains of the samples
  Wrong,      \* calls of no golden chain
  Parallel,   \* bound: calls of one message
  MaxRounds,  \* _MAX_ROUNDS
  Attempts    \* attempts of chat

Call == [fn : STRING, arg : STRING]

ASSUME ChainConstants ==
  /\ {Parallel, MaxRounds, Attempts} \subseteq Nat \ {0}
  /\ Chains \subseteq Seq(Seq(Call)) /\ Wrong \subseteq Call
  /\ \A c \in Chains : Len(c) > 0 /\ \A t \in 1..Len(c) : Len(c[t]) > 0

FreeFunctions == {"Location_to_Lat_Long", "Search_Hotel_Destination",
                  "Search_Attraction_Location", "Search_Car_Location",
                  "Search_Flight_Location", "Taxi_Search_Location"}

(* What is dropped from the golden calls before a stop is judged.          *)
DroppedFunctions == FreeFunctions \ {"Location_to_Lat_Long"}
HotelSearch(c)   == c.fn = "Search_Hotels" /\ c.arg = "hotel"
DroppedAtEnd(c)  == HotelSearch(c) \/ c.fn \in DroppedFunctions
Optional(c)      == HotelSearch(c) \/ c.fn \in FreeFunctions

(* The arguments do not pass format_check, whether the dataset has the     *)
(* call or not.                                                            *)
Malformed(c) == c.arg = "malformed"

(* The dataset has the arguments in another order than the sorted one.     *)
Unsorted(c) == c.arg = "unsorted"

VARIABLES
  chain,    \* fc_chain; obs_chain is the places in it
  golden,   \* turn_id, golden_fcs, golden_obs
  called,   \* the free functions that are marked as called
  rounds,   \* rounds begun
  attempt,  \* attempt of chat, 0 between two requests
  predict,  \* the calls being compared
  err,      \* error_message is not empty
  outcome,  \* "none" while the episode lasts
  taken,    \* history: places whose golden call was matched
  doubled   \* history: a marked call was due twice at once

history == <<taken, doubled>>
vars == <<chain, golden, called, rounds, attempt, predict, err, outcome, history>>

Places(t) == [j \in 1..Len(chain[t]) |-> <<t, j>>]
CallAt(o) == chain[o[1]][o[2]]
(* free_functions; the key of a lookup whose arguments are not sorted is   *)
(* never found, since those of the model are.                              *)
FreeCalls == {c \in UNION {ToSet(chain[t]) : t \in 1..Len(chain)} :
                c.fn \in FreeFunctions /\ ~Unsorted(c)}
Calls     == UNION {ToSet(chain[t]) : t \in 1..Len(chain)} \cup Wrong

-----------------------------------------------------------------------------
(* The golden calls that are due                                           *)

(* Seeded fault: a turn that is done replaces what is still due.           *)
UpdateReplaces(g) ==
  LET t == g.turn + 1 IN
  IF t > Len(chain) THEN [g EXCEPT !.turn = t]
  ELSE [turn |-> t, fcs |-> chain[t], obs |-> Places(t)]

(* update_current_golden: turn is turn_id + 1.                             *)
Update(g) ==
  LET t == g.turn + 1 IN
  IF t > Len(chain) THEN [g EXCEPT !.turn = t]
  ELSE [turn |-> t, fcs |-> g.fcs \o chain[t], obs |-> g.obs \o Places(t)]

OnlyFree(fcs) ==
  \/ \E c \in ToSet(fcs) : HotelSearch(c)
  \/ \A c \in ToSet(fcs) : c.fn \in FreeFunctions

Advance(g) == IF OnlyFree(g.fcs) THEN Update(g) ELSE g

(* What stands in s at the places in I, in their order.                    *)
Nth(I, n)   == CHOOSE i \in I : Cardinality({j \in I : j <= i}) = n
Subseq(s, I) == [n \in 1..Cardinality(I) |-> s[Nth(I, n)]]

(* Seeded fault: only the calls are taken off the list.                    *)
KeepObs(g, I) == [g EXCEPT !.fcs = Subseq(@, I)]

(* golden_fcs and golden_obs with what stands at the places in I.          *)
Keep(g, I) == [g EXCEPT !.fcs = Subseq(@, I), !.obs = Subseq(@, I)]

Rank(s, i)  == Cardinality({j \in 1..i : s[j] = s[i]})
Count(s, c) == Cardinality({j \in DOMAIN s : s[j] = c})

(* The first n[c] occurrences of every call c are removed.                 *)
Without(g, n) == Keep(g, {i \in 1..Len(g.fcs) : Rank(g.fcs, i) > n[g.fcs[i]]})

Unmatch(g, success) == Without(g, [c \in ToSet(g.fcs) |-> Count(success, c)])

(* remove_called_fc looks up the places to pop by value, and pops from the *)
(* last to the first: a pop at place i takes the first one from i on that  *)
(* is still there.  Place p stays if for no i the pops at i..p are as many *)
(* as these places.                                                        *)
FirstAt(s, c) == Min({i \in DOMAIN s : s[i] = c})
Pops(s, C)    == [j \in {k \in DOMAIN s : s[k] \in C} |-> FirstAt(s, s[j])]
Stays(at, p)  == \A i \in 1..p : Cardinality({j \in DOMAIN at : at[j] \in i..p}) <= p - i
Unpopped(s, C) == LET at == Pops(s, C) IN {p \in DOMAIN s : Stays(at, p)}

RemoveCalled(g) == Keep(g, Unpopped(g.fcs, called))

-----------------------------------------------------------------------------
(* Which golden call a call is compared with: mapping_call                 *)

Unmatched == 0
AsFree    == -1

(* The next call c, when M are matched: a free call is looked for no       *)
(* further than the first golden call that is open.                        *)
Exact(g, M, c) ==
  LET open == 1..Len(g.fcs) \ M
      same == {j \in open : g.fcs[j] = c}
  IN IF c \in FreeCalls /\ open # {} /\ Min(open) \notin same THEN AsFree
     ELSE IF same = {} THEN Unmatched
     ELSE Min(same)

(* The one sequence of matches of predict.                                 *)
ExactMatches(g) ==
  LET wanted == {j \in 1..Len(g.fcs) : g.fcs[j] \in ToSet(predict)} IN
  {m \in [1..Len(predict) -> {AsFree, Unmatched} \cup wanted] :
     \A i \in 1..Len(predict) : m[i] = Exact(g, {m[j] : j \in 1..(i - 1)}, predict[i])}

(* _assign_max pairs as many as it can, by similarity.                     *)
Alignments(g, m) ==
  LET left == {i \in 1..Len(m) : m[i] = Unmatched}
      open == 1..Len(g.fcs) \ ToSet(m)
      n    == Min({Cardinality(left), Cardinality(open)})
  IN UNION {Injection(D, open) : D \in kSubset(n, left)}

(* Call i may be the same as golden call j, though it is not alike.        *)
Comparable(g, i, j) ==
  ~Malformed(predict[i]) /\ predict[i].fn = g.fcs[j].fn /\ predict[i] # g.fcs[j]

(* Two calls that are left to be paired have to be put before the judge.   *)
JudgeMayBeAsked ==
  \E g \in {RemoveCalled(golden)} : \E i \in 1..Len(predict), j \in 1..Len(g.fcs) :
    /\ Comparable(g, i, j)
    /\ \E m \in ExactMatches(g) : m[i] = Unmatched /\ j \notin ToSet(m)

-----------------------------------------------------------------------------
Init ==
  /\ chain \in Chains
  /\ golden = Advance([turn |-> 1, fcs |-> chain[1], obs |-> Places(1)])
  /\ called = {}
  /\ rounds = 0
  /\ attempt = 0
  /\ predict = <<>>
  /\ err = FALSE
  /\ outcome = "none"
  /\ taken = {}
  /\ doubled = FALSE

Return(o) == outcome' = o

(* Seeded fault: what is left of the golden calls is not looked at.        *)
StopUnchecked(g) ==
  /\ UNCHANGED golden
  /\ Return(IF g.turn <= Len(chain) THEN "stop_early" ELSE "success")

(* return_result without an error.                                         *)
Stop(g) ==
  LET rest == Subseq(g.fcs, {i \in 1..Len(g.fcs) : ~DroppedAtEnd(g.fcs[i])}) IN
  /\ golden' = [g EXCEPT !.fcs = rest]
  /\ Return(IF g.turn <= Len(chain) \/ rest # <<>> THEN "stop_early" ELSE "success")

TooManyRounds ==
  /\ outcome = "none" /\ attempt = 0 /\ predict = <<>>
  /\ rounds = MaxRounds
  /\ Return("max_rounds")
  /\ UNCHANGED <<chain, golden, called, rounds, attempt, predict, err, history>>

(* Seeded fault: a round is not counted when it follows an error.          *)
RequestUncounted ==
  /\ outcome = "none" /\ attempt = 0 /\ predict = <<>>
  /\ rounds < MaxRounds
  /\ rounds' = IF err THEN rounds ELSE rounds + 1
  /\ attempt' = 1
  /\ UNCHANGED <<chain, golden, called, predict, err, outcome, history>>

Request ==
  /\ outcome = "none" /\ attempt = 0 /\ predict = <<>>
  /\ rounds < MaxRounds
  /\ rounds' = rounds + 1
  /\ attempt' = 1
  /\ UNCHANGED <<chain, golden, called, predict, err, outcome, history>>

RequestFails ==
  /\ outcome = "none" /\ attempt > 0
  /\ IF attempt < Attempts
       THEN /\ attempt' = attempt + 1
            /\ UNCHANGED outcome
       ELSE /\ attempt' = 0
            /\ Return("unknown_error")
  /\ UNCHANGED <<chain, golden, called, rounds, predict, err, history>>

Replies ==
  /\ outcome = "none" /\ attempt > 0
  /\ attempt' = 0
  /\ UNCHANGED <<chain, called, rounds, err, history>>

Empty ==
  /\ Replies
  /\ Return("unknown_error")
  /\ UNCHANGED <<golden, predict>>

Answer ==
  /\ Replies
  /\ IF err THEN Return("mismatch") /\ UNCHANGED golden ELSE Stop(golden)
  /\ UNCHANGED predict

(* Tool calls.  One that names no function of the sample, or whose         *)
(* arguments are no JSON, cannot be decoded.                               *)
CallTools ==
  /\ Replies
  /\ IF golden.fcs = <<>>
       THEN Return("func_hallucination") /\ UNCHANGED predict
       ELSE \/ Return("decode_error") /\ UNCHANGED predict
            \/ /\ \E n \in 1..Parallel : predict' \in [1..n -> Calls]
               /\ UNCHANGED outcome
  /\ UNCHANGED golden

(* process_matches: the calls matched, which take the chain one turn on,   *)
(* and the free calls that are called.                                     *)
ProcessMatches(g, success) ==
  \E rest \in {Unmatch(g, success)} :
  \E next \in {IF DOMAIN success = {} THEN rest ELSE Update(rest)} :
  \E left \in {Without(next, [c \in ToSet(next.fcs) |-> IF c \in called' THEN 1 ELSE 0])} :
    /\ golden' = Advance(left)
    /\ taken' = taken \cup (ToSet(g.obs) \ ToSet(rest.obs))
    /\ doubled' = (doubled \/ \E c \in called' : Count(next.fcs, c) > 1 \/ Count(golden'.fcs, c) > 1)

(* compare_turn_prediction and what run makes of it.  equal: the judge, or *)
(* the live service, takes the two calls for the same.  Every call that is *)
(* compared is checked for its format, one that is matched exactly too.    *)
Compare ==
  /\ outcome = "none" /\ predict # <<>>
  /\ \E g \in {RemoveCalled(golden)} : \E m \in ExactMatches(g) : \E a \in Alignments(g, m) :
     \E matched \in {{k \in 1..Len(m) : m[k] # Unmatched}} :
     \E unfit \in {{i \in matched \cup DOMAIN a : Malformed(predict[i])}} :
     \E equal \in SUBSET {i \in DOMAIN a : Comparable(g, i, a[i])} :
     \E success \in {[i \in (matched \cup equal) \ unfit |->
                       IF i \in equal THEN g.fcs[a[i]] ELSE predict[i]]} :
       /\ g.fcs # <<>>
       /\ called' = called \cup {predict[i] : i \in {k \in matched : m[k] = AsFree}}
       /\ err' = (DOMAIN a \ (equal \cup unfit) # {})
       /\ IF DOMAIN success \cup unfit = {}
            THEN /\ Return("mismatch")
                 /\ golden' = g
                 /\ UNCHANGED <<predict, history>>
            ELSE /\ ProcessMatches(g, success)
                 /\ predict' = <<>>
                 /\ UNCHANGED outcome
  /\ UNCHANGED <<chain, rounds, attempt>>

(* All that was due had been called already.                               *)
NothingDue ==
  LET g == RemoveCalled(golden) IN
  /\ outcome = "none" /\ predict # <<>> /\ g.fcs = <<>>
  /\ err' = FALSE
  /\ Stop(g)
  /\ UNCHANGED <<chain, called, rounds, attempt, predict, history>>

(* The judge or the embedder raises: _evaluate_one leaves the sample out.  *)
Raises ==
  /\ outcome = "none" /\ predict # <<>>
  /\ Return("exception")
  /\ UNCHANGED <<chain, golden, called, rounds, attempt, predict, err, history>>

Next ==
  \/ TooManyRounds \/ Request \/ RequestFails \/ Empty \/ Answer
  \/ CallTools \/ NothingDue \/ Raises \/ Compare

Spec == Init /\ [][Next]_vars

(* A request ends within its timeout, one to the live service too, and the *)
(* rest is computed; a judge need never answer (base.py:486 and 520).      *)
FairSpec == Spec /\ WF_vars(~JudgeMayBeAsked /\ Next)

-----------------------------------------------------------------------------
Due == UNION {ToSet(Places(t)) : t \in 1..Len(chain)}
Required == {o \in Due : ~Optional(CallAt(o))}

(* golden_fcs and golden_obs are two lists that are popped by index: while *)
(* the episode lasts, whatever was matched or consumed, the i-th           *)
(* observation is the one that was recorded for the i-th call, so that the *)
(* model is never shown the answer to another call.                        *)
Aligned ==
  outcome = "none" =>
  /\ Len(golden.fcs) = Len(golden.obs)
  /\ \A i \in 1..Len(golden.fcs) : golden.fcs[i] = CallAt(golden.obs[i])

(* A required call of a turn that is open is due or was matched, never     *)
(* both and never neither, in whatever order calls, optional ones and      *)
(* turns come.  It does not hold when a marked call is due twice at once:  *)
(* looking up by value, remove_called_fc pops what stands behind it.       *)
Conserved ==
  LET open == {o \in Required : o[1] <= golden.turn}
      due  == ToSet(golden.obs)
  IN open \ taken = due \cap Required

(* As long as no marked call was due twice at once, no required call is    *)
(* lost or matched twice.                                                  *)
GoldenConserved == ~doubled => Conserved

(* Success, the headline, takes every required call of the chain matched   *)
(* and a model that then answered and called nothing more, as long as no   *)
(* marked call was due twice at once.                                      *)
SuccessMeansDone ==
  outcome = "success" /\ ~doubled => Required \subseteq taken /\ predict = <<>>

(* An episode ends, whatever the model does: it answers, errs, runs out of *)
(* golden calls or of rounds.  Only a judge that never answers keeps it,   *)
(* over a call that is well formed and has the function of a golden call   *)
(* but not its arguments (scoring the answer, which asks judges too, comes *)
(* after it).                                                              *)
EpisodeEnds == <>(outcome # "none") \/ <>[]JudgeMayBeAsked

(* Optional calls never count for or against the model: one that answers   *)
(* with every required call matched did not stop early.  It does not hold. *)
OptionalNeverCounts ==
  outcome = "stop_early" /\ predict = <<>> => ~(Required \subseteq taken)

(* It does hold of a chain that ends in a turn with a required call and    *)
(* whose optional calls are all among those dropped at the end.            *)
OptionalHarmless ==
  /\ ~doubled
  /\ \E c \in ToSet(chain[Len(chain)]) : ~Optional(c)
  /\ \A o \in Due : Optional(CallAt(o)) => DroppedAtEnd(CallAt(o))
  => OptionalNeverCounts

=============================================================================
