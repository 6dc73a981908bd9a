------------------------------ MODULE SearchTool ------------------------------
(***************************************************************************)
(* The web_search tool of the agentic suites:                              *)
(* gbench/runners/eval_suites/search_tool.py.  The searches of a program   *)
(* run in threads of their own.  Each works its way through the cascade of *)
(* grounding models, several times over if need be; every request first    *)
(* takes a token from one bucket shared by all; which backend served a     *)
(* search is counted in one dict, without a lock.                          *)
(*                                                                         *)
(* Time passes in ticks.  A token comes in every Ticks ticks, so that the  *)
(* level of the bucket is counted in fractions 1/Ticks of a token.         *)
(***************************************************************************)
EXTENDS Naturals

CONSTANTS
  Threads,    \* threads that search
  Models,     \* length of the cascade
  Rounds,     \* _cascade_rounds()
  Attempts,   \* _SEARCH_ATTEMPTS
  Capacity,   \* GBENCH_SEARCH_MAX_BURST, in tokens
  Ticks,      \* 1 / GBENCH_SEARCH_MAX_RPS, in ticks
  Pauses,     \* back-off with jitter, in ticks
  Searches,   \* bound: searches of one thread
  Window      \* bound: grants that history remembers

ASSUME SearchConstants ==
  /\ {Models, Rounds, Attempts, Capacity, Ticks, Searches} \subseteq Nat \ {0}
  /\ Pauses \subseteq Nat /\ Pauses # {}
  /\ Window \in Nat /\ Window > Capacity

Cascade   == 1..Models
AllFailed == 0                 \* all-grounding-models-failed
NoKey     == Models + 1        \* none
Backends  == Cascade \cup {AllFailed, NoKey}
Place     == [round : 1..Rounds, model : Cascade, attempt : 1..Attempts]
Full      == Capacity * Ticks
LongAgo   == (Window - Capacity) * Ticks

VARIABLES
  keyed,     \* GEMINI_API_KEY is set
  (* the limiter *)
  level,     \* tokens
  since,     \* ticks since _updated, no further than it takes to fill up
  (* the searches *)
  pc,        \* where each thread is
  at,        \* the round, model and attempt it is at
  nap,       \* ticks it sleeps at least
  left,      \* searches it still makes
  backend,   \* the backend its search is put down to
  seen,      \* the count it has read
  tally,     \* _BACKEND_TALLY
  (* history *)
  ages,      \* ticks since the last grants, latest first
  missed,    \* the rounds and models that failed this search of a thread
  answered,  \* the model that answered it, 0 for none
  served     \* searches that each backend served

limiter == <<level, since, ages>>
vars == <<keyed, limiter, pc, at, nap, left, backend, seen, tally, missed, answered, served>>

TypeOK ==
  /\ keyed \in BOOLEAN
  /\ level \in 0..Full
  /\ since \in 0..Full
  /\ pc \in [Threads -> {"idle", "acquire", "request", "read", "write"}]
  /\ at \in [Threads -> Place]
  /\ nap \in [Threads -> Nat]
  /\ left \in [Threads -> 0..Searches]
  /\ backend \in [Threads -> Backends]
  /\ seen \in [Threads -> Nat]
  /\ tally \in [Backends -> Nat]
  /\ ages \in [1..Window -> 0..LongAgo]
  /\ missed \in [Threads -> SUBSET ((1..Rounds) \X Cascade)]
  /\ answered \in [Threads -> 0..Models]
  /\ served \in [Backends -> Nat]

First == [round |-> 1, model |-> 1, attempt |-> 1]

Init ==
  /\ keyed \in BOOLEAN
  /\ level = Full
  /\ since = 0
  /\ pc = [t \in Threads |-> "idle"]
  /\ at = [t \in Threads |-> First]
  /\ nap = [t \in Threads |-> 0]
  /\ left = [t \in Threads |-> Searches]
  /\ backend = [t \in Threads |-> NoKey]
  /\ seen = [t \in Threads |-> 0]
  /\ tally = [b \in Backends |-> 0]
  /\ ages = [i \in 1..Window |-> LongAgo]
  /\ missed = [t \in Threads |-> {}]
  /\ answered = [t \in Threads |-> 0]
  /\ served = [b \in Backends |-> 0]

Goto(t, from, to) ==
  /\ pc[t] = from
  /\ pc' = [pc EXCEPT ![t] = to]

-----------------------------------------------------------------------------
(* The token bucket: _RateLimiter                                          *)

Min2(a, b) == IF a < b THEN a ELSE b

(* What is in the bucket now.                                              *)
Tokens == Min2(Full, level + since)

Remember == ages' = [i \in 1..Window |-> IF i = 1 THEN 0 ELSE ages[i - 1]]

(* Seeded fault: the clock is not read off.                                *)
AcquireUnstamped(t) ==
  /\ pc[t] = "acquire"
  /\ nap[t] = 0
  /\ IF Tokens >= Ticks
       THEN /\ level' = Tokens - Ticks
            /\ Remember
            /\ pc' = [pc EXCEPT ![t] = "request"]
            /\ UNCHANGED nap
       ELSE /\ level' = Tokens
            /\ nap' = [nap EXCEPT ![t] = Ticks - Tokens]
            /\ UNCHANGED <<ages, pc>>
  /\ UNCHANGED <<keyed, since, at, left, backend, seen, tally, missed, answered, served>>

(* Under the lock: fill up, then take a token, or sleep as long as the     *)
(* missing part of one takes. Whoever wakes first gets it.                 *)
Acquire(t) ==
  /\ pc[t] = "acquire"
  /\ nap[t] = 0
  /\ since' = 0
  /\ IF Tokens >= Ticks
       THEN /\ level' = Tokens - Ticks
            /\ Remember
            /\ pc' = [pc EXCEPT ![t] = "request"]
            /\ UNCHANGED nap
       ELSE /\ level' = Tokens
            /\ nap' = [nap EXCEPT ![t] = Ticks - Tokens]
            /\ UNCHANGED <<ages, pc>>
  /\ UNCHANGED <<keyed, at, left, backend, seen, tally, missed, answered, served>>

Tick ==
  /\ since' = Min2(Full, since + 1)
  /\ nap' = [t \in Threads |-> IF nap[t] = 0 THEN 0 ELSE nap[t] - 1]
  /\ ages' = [i \in 1..Window |-> Min2(LongAgo, ages[i] + 1)]
  /\ UNCHANGED <<keyed, level, pc, at, left, backend, seen, tally, missed, answered, served>>

-----------------------------------------------------------------------------
(* One search: search_with_fallback, gemini_search                         *)

PutDownTo(t, b) == backend' = [backend EXCEPT ![t] = b]

Begin(t) ==
  /\ left[t] > 0
  /\ left' = [left EXCEPT ![t] = @ - 1]
  /\ at' = [at EXCEPT ![t] = First]
  /\ missed' = [missed EXCEPT ![t] = {}]
  /\ answered' = [answered EXCEPT ![t] = 0]
  /\ \/ keyed /\ Goto(t, "idle", "acquire") /\ UNCHANGED backend
     \/ ~keyed /\ Goto(t, "idle", "read") /\ PutDownTo(t, NoKey)
  /\ UNCHANGED <<keyed, limiter, nap, seen, tally, served>>

(* Seeded fault: what is counted is what was configured.                   *)
AnswersConfigured(t) ==
  /\ Goto(t, "request", "read")
  /\ answered' = [answered EXCEPT ![t] = at[t].model]
  /\ PutDownTo(t, 1)
  /\ UNCHANGED <<keyed, limiter, at, nap, left, seen, tally, missed, served>>

(* The model answers; to have found nothing is an answer too.              *)
Answers(t) ==
  /\ Goto(t, "request", "read")
  /\ answered' = [answered EXCEPT ![t] = at[t].model]
  /\ PutDownTo(t, at[t].model)
  /\ UNCHANGED <<keyed, limiter, at, nap, left, seen, tally, missed, served>>

(* The answer is JSON but not of the form expected: the search raises, and *)
(* is counted nowhere.                                                     *)
Unreadable(t) ==
  /\ Goto(t, "request", "idle")
  /\ UNCHANGED <<keyed, limiter, at, nap, left, backend, seen, tally, missed, answered, served>>

(* The model has failed: on to the next; after the last, a pause and the   *)
(* next round; after the last round, give up.                              *)
GoOn(t) ==
  /\ missed' = [missed EXCEPT ![t] = @ \cup {<<at[t].round, at[t].model>>}]
  /\ \/ /\ at[t].model < Models
        /\ at' = [at EXCEPT ![t] = [round |-> at[t].round, model |-> at[t].model + 1, attempt |-> 1]]
        /\ Goto(t, "request", "acquire")
        /\ UNCHANGED <<nap, backend>>
     \/ /\ at[t].model = Models /\ at[t].round < Rounds
        /\ at' = [at EXCEPT ![t] = [round |-> at[t].round + 1, model |-> 1, attempt |-> 1]]
        /\ \E n \in Pauses : nap' = [nap EXCEPT ![t] = n]
        /\ Goto(t, "request", "acquire")
        /\ UNCHANGED backend
     \/ /\ at[t].model = Models /\ at[t].round = Rounds
        /\ PutDownTo(t, AllFailed)
        /\ Goto(t, "request", "read")
        /\ UNCHANGED <<at, nap>>
  /\ UNCHANGED <<keyed, limiter, left, seen, tally, answered, served>>

(* 429: the same model is not asked again.                                 *)
Throttled(t) == GoOn(t)

(* Seeded fault: there is always another attempt.                          *)
TransientForEver(t) ==
  /\ Goto(t, "request", "acquire")
  /\ \E n \in Pauses : nap' = [nap EXCEPT ![t] = n]
  /\ UNCHANGED <<keyed, limiter, at, left, backend, seen, tally, missed, answered, served>>

(* Any other failure is tried again after a pause; the last one counts.    *)
Transient(t) ==
  \/ /\ at[t].attempt < Attempts
     /\ at' = [at EXCEPT ![t].attempt = @ + 1]
     /\ \E n \in Pauses : nap' = [nap EXCEPT ![t] = n]
     /\ Goto(t, "request", "acquire")
     /\ UNCHANGED <<keyed, limiter, left, backend, seen, tally, missed, answered, served>>
  \/ at[t].attempt = Attempts /\ GoOn(t)

(* The count is read and written back in two steps.                        *)
ReadTally(t) ==
  /\ Goto(t, "read", "write")
  /\ seen' = [seen EXCEPT ![t] = tally[backend[t]]]
  /\ UNCHANGED <<keyed, limiter, at, nap, left, backend, tally, missed, answered, served>>

WriteTally(t) ==
  /\ Goto(t, "write", "idle")
  /\ tally' = [tally EXCEPT ![backend[t]] = seen[t] + 1]
  /\ served' = [served EXCEPT ![backend[t]] = @ + 1]
  /\ UNCHANGED <<keyed, limiter, at, nap, left, backend, seen, missed, answered>>

Step(t) == \/ Begin(t) \/ Acquire(t) \/ Answers(t) \/ Unreadable(t)
           \/ Throttled(t) \/ Transient(t) \/ ReadTally(t) \/ WriteTally(t)

Next == Tick \/ \E t \in Threads : Step(t)

Spec == Init /\ [][Next]_vars

(* Time passes and every thread is scheduled; a request has a timeout      *)
(* (search_tool.py:271).                                                   *)
FairSpec == Spec /\ WF_vars(Tick) /\ \A t \in Threads : WF_vars(Step(t))

-----------------------------------------------------------------------------
(* Properties                                                              *)

(* "excess callers block until a token frees, so the request rate self-    *)
(* limits regardless of fan-out": of the last grants, any j - i + 1 in a   *)
(* row take as long as it takes for all of them but a burst to come in.    *)
RateCapped ==
  \A i, j \in 1..Window : i <= j /\ ages[j] < LongAgo =>
    (j - i + 1) * Ticks <= Full + (ages[j] - ages[i])

(* "a run never silently claims grounding it did not get": a search is put *)
(* down to a model only if that model answered it, and to all having       *)
(* failed only if every model failed it in every round; and what the tally *)
(* says of a backend is too little at worst, but never nothing.  (Between  *)
(* two resets of it: a search that outlives its suite is counted with the  *)
(* suites after it.)                                                       *)
TallyHonest ==
  /\ \A t \in Threads : pc[t] \in {"read", "write"} =>
       \/ ~keyed /\ backend[t] = NoKey
       \/ answered[t] # 0 /\ backend[t] = answered[t]
       \/ backend[t] = AllFailed /\ missed[t] = (1..Rounds) \X Cascade
  /\ \A b \in Backends :
       /\ tally[b] <= served[b]
       /\ tally[b] = 0 => served[b] = 0

(* However many threads wait for the same token, every search comes to an  *)
(* end.                                                                    *)
SearchesReturn == \A t \in Threads : pc[t] # "idle" ~> pc[t] = "idle"
=============================================================================
