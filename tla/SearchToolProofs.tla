--------------------------- MODULE SearchToolProofs ---------------------------
(***************************************************************************)
(* Proofs about SearchTool, for any number of threads, models, rounds and  *)
(* attempts, any size of the bucket and any rate.                          *)
(*                                                                         *)
(* The cap on the rate is proved from a potential: the i-th last grant and *)
(* all after it have cost i tokens; together with what is left in the      *)
(* bucket now they cannot have come to more than one full bucket and what  *)
(* has dripped in since.                                                   *)
(***************************************************************************)
EXTENDS SearchTool, TLAPS

(* The bucket has paid for the last i grants and still holds its tokens.   *)
Paid ==
  \A i \in 1..Window : ages[i] < LongAgo => i * Ticks + Tokens <= Full + ages[i]

(* Later grants are younger.                                               *)
Ordered == \A i, j \in 1..Window : i <= j => ages[i] <= ages[j]

(* The models before the one a search is at have failed it.                *)
Passed(r, m, p) == r < p.round \/ (r = p.round /\ m < p.model)

CascadeInOrder ==
  \A t \in Threads : pc[t] \in {"acquire", "request"} =>
    \A r \in 1..Rounds, m \in Cascade : Passed(r, m, at[t]) => <<r, m>> \in missed[t]

PutDownRight ==
  \A t \in Threads : pc[t] \in {"read", "write"} =>
    \/ ~keyed /\ backend[t] = NoKey
    \/ answered[t] # 0 /\ backend[t] = answered[t]
    \/ backend[t] = AllFailed /\ missed[t] = (1..Rounds) \X Cascade

(* A count in hand is never above the searches served.                     *)
NeverTooMuch ==
  /\ \A t \in Threads : pc[t] = "write" => seen[t] <= served[backend[t]]
  /\ \A b \in Backends :
       /\ tally[b] <= served[b]
       /\ tally[b] = 0 => served[b] = 0

RateInv  == TypeOK /\ Ordered /\ Paid /\ RateCapped
TallyInv == TypeOK /\ CascadeInOrder /\ PutDownRight /\ NeverTooMuch

-----------------------------------------------------------------------------
(* Arithmetic                                                              *)

LEMMA TimesSucc == ASSUME NEW a \in Nat, NEW b \in Nat
                   PROVE  (a + 1) * b = a * b + b /\ a * b \in Nat
  BY SMT

LEMMA TimesMono == ASSUME NEW a \in Nat, NEW b \in Nat \ {0} PROVE a * b >= b \/ a = 0
  BY SMT

(* The bucket holds one token at least, and history reaches back in time.  *)
LEMMA Sizes == /\ Full \in Nat /\ Ticks \in Nat /\ Ticks > 0 /\ Full >= Ticks
               /\ LongAgo \in Nat /\ Window \in Nat /\ Window >= 1
  <1>1. /\ Capacity \in Nat \ {0} /\ Ticks \in Nat \ {0} /\ Window \in Nat
        /\ Window > Capacity /\ Window - Capacity \in Nat
    BY SearchConstants
  <1>2. Full \in Nat /\ Full >= Ticks
    BY <1>1, TimesMono, TimesSucc DEF Full
  <1>3. LongAgo \in Nat
    BY <1>1, TimesSucc DEF LongAgo
  <1> QED BY <1>1, <1>2, <1>3

LEMMA TokensType == ASSUME level \in 0..Full, since \in 0..Full
                    PROVE  Tokens \in 0..Full
  BY Sizes DEF Tokens, Min2

-----------------------------------------------------------------------------
(* Types                                                                   *)

LEMMA TypeInit == Init => TypeOK
  <1> SUFFICES ASSUME Init PROVE TypeOK
    OBVIOUS
  <1>1. First \in Place
    BY SearchConstants DEF First, Place, Cascade
  <1>2. \A t \in Threads : Searches \in 0..Searches /\ NoKey \in Backends /\ 0 \in 0..Models
    BY SearchConstants DEF NoKey, Backends, Cascade
  <1>3. Full \in 0..Full /\ 0 \in 0..Full /\ LongAgo \in 0..LongAgo
    BY Sizes
  <1> QED BY <1>1, <1>2, <1>3 DEF Init, TypeOK

LEMMA GoOnType == ASSUME TypeOK, NEW t \in Threads, GoOn(t) PROVE TypeOK'
  <1>1. at[t] \in Place
    BY DEF TypeOK
  <1>2. pc' \in [Threads -> {"idle", "acquire", "request", "read", "write"}]
    BY DEF TypeOK, GoOn, Goto
  <1>3. missed' \in [Threads -> SUBSET ((1..Rounds) \X Cascade)]
    BY <1>1, SMTT(30) DEF TypeOK, GoOn, Place
  <1>4. at' \in [Threads -> Place]
    <2>1. CASE at[t].model < Models 
                 /\ at' = [at EXCEPT ![t] = [round |-> at[t].round, model |-> at[t].model + 1, attempt |-> 1]]
      <3> DEFINE p == [round |-> at[t].round, model |-> at[t].model + 1, attempt |-> 1]
      <3>1. p \in Place
        BY <1>1, <2>1, SearchConstants DEF Place, Cascade
      <3> QED BY <3>1, <2>1 DEF TypeOK
    <2>2. CASE at[t].round < Rounds
                 /\ at' = [at EXCEPT ![t] = [round |-> at[t].round + 1, model |-> 1, attempt |-> 1]]
      <3> DEFINE p == [round |-> at[t].round + 1, model |-> 1, attempt |-> 1]
      <3>1. p \in Place
        BY <1>1, <2>2, SearchConstants DEF Place, Cascade
      <3> QED BY <3>1, <2>2 DEF TypeOK
    <2>3. CASE UNCHANGED at
      BY <2>3 DEF TypeOK
    <2> QED BY <2>1, <2>2, <2>3 DEF GoOn
  <1>5. nap' \in [Threads -> Nat]
    <2>1. \A n \in Pauses : n \in Nat
      BY SearchConstants
    <2> QED BY <2>1 DEF TypeOK, GoOn
  <1>6. backend' \in [Threads -> Backends]
    BY DEF TypeOK, GoOn, PutDownTo, AllFailed, Backends
  <1>7. UNCHANGED <<keyed, limiter, left, seen, tally, answered, served>>
    BY DEF GoOn
  <1> QED BY <1>2, <1>3, <1>4, <1>5, <1>6, <1>7 DEF TypeOK, limiter

LEMMA TypeStep == TypeOK /\ [Next]_vars => TypeOK'
  <1> SUFFICES ASSUME TypeOK, [Next]_vars PROVE TypeOK'
    OBVIOUS
  <1>1. CASE UNCHANGED vars
    BY <1>1 DEF vars, limiter, TypeOK
  <1>2. CASE Tick
    <2>1. since' \in 0..Full
      BY <1>2, Sizes DEF Tick, Min2, TypeOK
    <2>2. nap' \in [Threads -> Nat]
      BY <1>2 DEF Tick, TypeOK
    <2>3. ages' \in [1..Window -> 0..LongAgo]
      BY <1>2, Sizes DEF Tick, Min2, TypeOK
    <2> QED BY <1>2, <2>1, <2>2, <2>3 DEF Tick, TypeOK
  <1>3. ASSUME NEW t \in Threads, Begin(t) PROVE TypeOK'
    <2>1. First \in Place /\ NoKey \in Backends /\ {} \in SUBSET ((1..Rounds) \X Cascade) /\ 0 \in 0..Models
      BY SearchConstants DEF First, Place, Cascade, NoKey, Backends
    <2>2. left' \in [Threads -> 0..Searches]
      <3>1. left[t] > 0 => left[t] - 1 \in 0..Searches
        BY SearchConstants, SMTT(30) DEF TypeOK
      <3> QED BY <1>3, <3>1 DEF Begin, TypeOK
    <2>3. pc' \in [Threads -> {"idle", "acquire", "request", "read", "write"}]
      BY <1>3 DEF Begin, Goto, TypeOK
    <2>4. backend' \in [Threads -> Backends]
      BY <1>3, <2>1 DEF Begin, PutDownTo, TypeOK
    <2>5. /\ at' \in [Threads -> Place]
          /\ missed' \in [Threads -> SUBSET ((1..Rounds) \X Cascade)]
          /\ answered' \in [Threads -> 0..Models]
      BY <1>3, <2>1 DEF Begin, TypeOK
    <2> QED BY <1>3, <2>2, <2>3, <2>4, <2>5 DEF Begin, TypeOK, limiter
  <1>4. ASSUME NEW t \in Threads, Acquire(t) PROVE TypeOK'
    <2>1. Tokens \in 0..Full
      BY TokensType DEF TypeOK
    <2>0. UNCHANGED <<keyed, at, left, backend, seen, tally, missed, answered, served>>
      BY <1>4 DEF Acquire
    <2>2. CASE Tokens >= Ticks
      <3>1. level' \in 0..Full
        BY <1>4, <2>1, <2>2, Sizes DEF Acquire
      <3>2. ages' \in [1..Window -> 0..LongAgo]
        <4>1. ages' = [i \in 1..Window |-> IF i = 1 THEN 0 ELSE ages[i - 1]]
          BY <1>4, <2>2 DEF Acquire, Remember
        <4>2. \A i \in 1..Window : (IF i = 1 THEN 0 ELSE ages[i - 1]) \in 0..LongAgo
          BY Sizes DEF TypeOK
        <4> QED BY <4>1, <4>2
      <3>3. /\ since' = 0 /\ UNCHANGED nap
            /\ pc' \in [Threads -> {"idle", "acquire", "request", "read", "write"}]
        BY <1>4, <2>2 DEF Acquire, TypeOK
      <3>4. since' \in 0..Full
        BY <3>3, Sizes
      <3> QED BY <2>0, <3>1, <3>2, <3>3, <3>4 DEF TypeOK
    <2>3. CASE ~(Tokens >= Ticks)
      <3>1. Ticks - Tokens \in Nat
        BY <2>1, <2>3, Sizes
      <3>2. nap' \in [Threads -> Nat]
        BY <1>4, <2>3, <3>1 DEF Acquire, TypeOK
      <3>3. since' = 0 /\ level' = Tokens /\ UNCHANGED <<ages, pc>>
        BY <1>4, <2>3 DEF Acquire
      <3> QED BY <2>0, <2>1, <3>2, <3>3, Sizes, SMTT(30) DEF TypeOK
    <2> QED BY <2>2, <2>3
  <1>5. ASSUME NEW t \in Threads, Answers(t) PROVE TypeOK'
    <2>1. at[t].model \in 0..Models /\ at[t].model \in Backends
      BY SearchConstants, SMTT(30) DEF TypeOK, Place, Cascade, Backends
    <2>2. pc' \in [Threads -> {"idle", "acquire", "request", "read", "write"}]
      BY <1>5 DEF Answers, Goto, TypeOK
    <2>3. answered' \in [Threads -> 0..Models] /\ backend' \in [Threads -> Backends]
      BY <1>5, <2>1 DEF Answers, PutDownTo, TypeOK
    <2> QED BY <1>5, <2>2, <2>3 DEF Answers, TypeOK, limiter
  <1>6. ASSUME NEW t \in Threads, Throttled(t) PROVE TypeOK'
    BY <1>6, GoOnType DEF Throttled
  <1>7. ASSUME NEW t \in Threads, Transient(t) PROVE TypeOK'
    <2>1. CASE at[t].attempt < Attempts /\ at' = [at EXCEPT ![t].attempt = @ + 1]
                 /\ (\E n \in Pauses : nap' = [nap EXCEPT ![t] = n])
                 /\ Goto(t, "request", "acquire")
                 /\ UNCHANGED <<keyed, limiter, left, backend, seen, tally, missed, answered, served>>
      <3>1. [at[t] EXCEPT !.attempt = @ + 1] \in Place
        <4>1. at[t] \in Place
          BY DEF TypeOK
        <4>2. at[t].attempt + 1 \in 1..Attempts
          BY <2>1, <4>1, SearchConstants DEF Place
        <4> QED BY <4>1, <4>2 DEF Place
      <3>2. at' \in [Threads -> Place]
        BY <2>1, <3>1 DEF TypeOK
      <3>3. nap' \in [Threads -> Nat]
        BY <2>1, SearchConstants DEF TypeOK
      <3>4. pc' \in [Threads -> {"idle", "acquire", "request", "read", "write"}]
        BY <2>1 DEF Goto, TypeOK
      <3> QED BY <2>1, <3>2, <3>3, <3>4 DEF TypeOK, limiter
    <2> QED BY <1>7, <2>1, GoOnType DEF Transient
  <1>8. ASSUME NEW t \in Threads, ReadTally(t) PROVE TypeOK'
    <2>1. tally[backend[t]] \in Nat
      BY DEF TypeOK
    <2> QED BY <1>8, <2>1 DEF ReadTally, Goto, TypeOK, limiter
  <1>9. ASSUME NEW t \in Threads, WriteTally(t) PROVE TypeOK'
    <2>1. seen[t] + 1 \in Nat /\ backend[t] \in Backends /\ served[backend[t]] + 1 \in Nat
      BY DEF TypeOK
    <2> QED BY <1>9, <2>1 DEF WriteTally, Goto, TypeOK, limiter
  <1>10. ASSUME NEW t \in Threads, Unreadable(t) PROVE TypeOK'
    BY <1>10 DEF Unreadable, Goto, TypeOK, limiter
  <1> QED BY <1>1, <1>2, <1>3, <1>4, <1>5, <1>6, <1>7, <1>8, <1>9, <1>10 DEF Next, Step

(* Every variable of the search tool keeps its type.                       *)
THEOREM TypeCorrect == Spec => []TypeOK
  <1> QED BY TypeInit, TypeStep, PTL DEF Spec

-----------------------------------------------------------------------------
(* The rate                                                                *)

LEMMA RateInit == Init => RateInv
  <1> SUFFICES ASSUME Init PROVE RateInv
    OBVIOUS
  <1>1. TypeOK
    BY TypeInit
  <1>2. \A i \in 1..Window : ages[i] = LongAgo
    BY DEF Init
  <1> QED BY <1>1, <1>2, Sizes DEF RateInv, Ordered, Paid, RateCapped

LEMMA TickRate == RateInv /\ Tick => Ordered' /\ Paid' /\ RateCapped'
  <1> SUFFICES ASSUME RateInv, Tick PROVE Ordered' /\ Paid' /\ RateCapped'
    OBVIOUS
  <1>1. level \in 0..Full /\ since \in 0..Full /\ ages \in [1..Window -> 0..LongAgo]
    BY DEF RateInv, TypeOK
  <1>2. \A i \in 1..Window : ages[i] \in 0..LongAgo /\ ages'[i] = Min2(LongAgo, ages[i] + 1)
    BY <1>1 DEF Tick
  <1>3. \A i \in 1..Window : ages'[i] < LongAgo => ages[i] < LongAgo /\ ages'[i] = ages[i] + 1
    BY <1>2, Sizes DEF Min2
  <1>4. Tokens \in 0..Full /\ Tokens' \in 0..Full /\ Tokens' <= Tokens + 1
    BY <1>1, Sizes DEF Tick, Tokens, Min2
  <1>5. Ordered'
    BY <1>2, Sizes DEF RateInv, Ordered, Min2
  <1>6. Paid'
    <2> SUFFICES ASSUME NEW i \in 1..Window, ages'[i] < LongAgo
                 PROVE  i * Ticks + Tokens' <= Full + ages'[i]
      BY DEF Paid
    <2>1. i * Ticks + Tokens <= Full + ages[i]
      BY <1>3 DEF RateInv, Paid
    <2>2. i * Ticks \in Nat
      BY TimesSucc, Sizes
    <2> QED BY <1>2, <1>3, <1>4, <2>1, <2>2, Sizes
  <1>7. RateCapped'
    <2> SUFFICES ASSUME NEW i \in 1..Window, NEW j \in 1..Window, i <= j, ages'[j] < LongAgo
                 PROVE  (j - i + 1) * Ticks <= Full + (ages'[j] - ages'[i])
      BY DEF RateCapped
    <2>1. ages[j] < LongAgo /\ ages'[j] = ages[j] + 1
      BY <1>3
    <2>2. ages'[i] <= ages'[j]
      BY <1>5 DEF Ordered
    <2>3. ages'[i] = ages[i] + 1
      BY <1>2, <1>3, <2>2, Sizes DEF Min2
    <2>4. (j - i + 1) * Ticks <= Full + (ages[j] - ages[i])
      BY <2>1 DEF RateInv, RateCapped
    <2> QED BY <1>2, <2>1, <2>3, <2>4
  <1> QED BY <1>5, <1>6, <1>7

LEMMA AcquireRate == ASSUME RateInv, NEW t \in Threads, Acquire(t)
                     PROVE  Ordered' /\ Paid' /\ RateCapped'
  <1>1. Tokens \in 0..Full /\ ages \in [1..Window -> 0..LongAgo] /\ since' = 0
    BY TokensType DEF RateInv, TypeOK, Acquire
  <1>2. CASE Tokens >= Ticks
    <2>1. level' = Tokens - Ticks /\ Tokens' = Tokens - Ticks /\ Tokens' \in Nat
      BY <1>1, <1>2, Sizes DEF Acquire, Tokens, Min2
    <2>2. ages' = [i \in 1..Window |-> IF i = 1 THEN 0 ELSE ages[i - 1]]
      BY <1>2 DEF Acquire, Remember
    <2>3. \A i \in 1..Window : i # 1 => /\ i - 1 \in 1..Window /\ ages'[i] = ages[i - 1]
                                        /\ ages[i - 1] \in 0..LongAgo
      BY <1>1, <2>2, Sizes
    <2>4. 1 \in 1..Window /\ ages'[1] = 0
      BY <2>2, Sizes
    <2>5. Ordered'
      <3> SUFFICES ASSUME NEW i \in 1..Window, NEW j \in 1..Window, i <= j
                   PROVE  ages'[i] <= ages'[j]
        BY DEF Ordered
      <3>1. CASE i = 1
        BY <2>3, <2>4, <3>1, Sizes
      <3>2. CASE i # 1
        <4>1. j # 1 /\ i - 1 <= j - 1
          BY <3>2
        <4> QED BY <2>3, <3>2, <4>1 DEF RateInv, Ordered
      <3> QED BY <3>1, <3>2
    <2>6. \A i \in 1..Window : i # 1 /\ ages'[i] < LongAgo =>
            (i - 1) * Ticks + Tokens <= Full + ages'[i]
      BY <2>3 DEF RateInv, Paid
    <2>7. \A i \in 1..Window : i # 1 => i * Ticks = (i - 1) * Ticks + Ticks /\ (i - 1) * Ticks \in Nat
      <3> SUFFICES ASSUME NEW i \in 1..Window, i # 1
                   PROVE  i * Ticks = (i - 1) * Ticks + Ticks /\ (i - 1) * Ticks \in Nat
        OBVIOUS
      <3>1. i - 1 \in Nat /\ (i - 1) + 1 = i
        OBVIOUS
      <3>2. ((i - 1) + 1) * Ticks = (i - 1) * Ticks + Ticks /\ (i - 1) * Ticks \in Nat
        BY <3>1, TimesSucc, Sizes
      <3> QED BY <3>1, <3>2
    <2>8. 1 * Ticks = Ticks
      BY Sizes
    <2>9. Paid'
      <3> SUFFICES ASSUME NEW i \in 1..Window, ages'[i] < LongAgo
                   PROVE  i * Ticks + Tokens' <= Full + ages'[i]
        BY DEF Paid
      <3>1. CASE i = 1
        BY <1>1, <2>1, <2>4, <2>8, <3>1, Sizes
      <3>2. CASE i # 1
        <4>1. ages'[i] \in Nat
          BY <2>3, <3>2, Sizes
        <4> QED BY <1>1, <2>1, <2>6, <2>7, <3>2, <4>1, Sizes
      <3> QED BY <3>1, <3>2
    <2>10. RateCapped'
      <3> SUFFICES ASSUME NEW i \in 1..Window, NEW j \in 1..Window, i <= j, ages'[j] < LongAgo
                   PROVE  (j - i + 1) * Ticks <= Full + (ages'[j] - ages'[i])
        BY DEF RateCapped
      <3>1. CASE i # 1
        <4>1. /\ i - 1 \in 1..Window /\ j - 1 \in 1..Window /\ i - 1 <= j - 1
              /\ ages'[i] = ages[i - 1] /\ ages'[j] = ages[j - 1]
          BY <2>3, <3>1
        <4>2. ((j - 1) - (i - 1) + 1) * Ticks <= Full + (ages[j - 1] - ages[i - 1])
          BY <4>1 DEF RateInv, RateCapped
        <4>3. (j - 1) - (i - 1) + 1 = j - i + 1
          OBVIOUS
        <4> QED BY <4>1, <4>2, <4>3
      <3>2. CASE i = 1 /\ j = 1
        BY <2>4, <2>8, <3>2, Sizes
      <3>3. CASE i = 1 /\ j # 1
        <4>1. j - i + 1 = j /\ ages'[i] = 0 /\ ages'[j] \in Nat
          BY <2>3, <2>4, <3>3, Sizes
        <4>2. j * Ticks <= Full + ages'[j]
          BY <1>1, <1>2, <2>6, <2>7, <3>3, <4>1, Sizes
        <4> QED BY <4>1, <4>2
      <3> QED BY <3>1, <3>2, <3>3
    <2> QED BY <2>5, <2>9, <2>10
  <1>3. CASE ~(Tokens >= Ticks)
    <2>1. level' = Tokens /\ Tokens' = Tokens /\ ages' = ages
      BY <1>1, <1>3, Sizes DEF Acquire, Tokens, Min2
    <2> QED BY <2>1 DEF RateInv, Ordered, Paid, RateCapped
  <1> QED BY <1>2, <1>3

LEMMA RateStep == RateInv /\ [Next]_vars => RateInv'
  <1> SUFFICES ASSUME RateInv, [Next]_vars PROVE RateInv'
    OBVIOUS
  <1>1. TypeOK'
    BY TypeStep DEF RateInv
  <1>2. CASE UNCHANGED limiter
    <2>1. UNCHANGED <<level, since, ages>>
      BY <1>2 DEF limiter
    <2> QED BY <1>1, <2>1 DEF RateInv, Ordered, Paid, RateCapped, Tokens
  <1>3. CASE Tick
    BY <1>1, <1>3, TickRate DEF RateInv
  <1>4. CASE \E t \in Threads : Acquire(t)
    BY <1>1, <1>4, AcquireRate DEF RateInv
  <1>5. UNCHANGED limiter \/ Tick \/ \E t \in Threads : Acquire(t)
    BY DEF Next, Step, vars, Begin, Answers, Unreadable, Throttled, Transient, GoOn, ReadTally, WriteTally
  <1> QED BY <1>2, <1>3, <1>4, <1>5

(* Of the last grants any run of them takes as long as it takes for all of *)
(* them but one burst to come in, whatever the threads do.                 *)
THEOREM RateIsCapped == Spec => []RateCapped
  <1>1. RateInv => RateCapped
    BY DEF RateInv
  <1> QED BY <1>1, RateInit, RateStep, PTL DEF Spec

-----------------------------------------------------------------------------
(* The tally                                                               *)

LEMMA TallyInit == Init => TallyInv
  <1> SUFFICES ASSUME Init PROVE TallyInv
    OBVIOUS
  <1> QED BY TypeInit DEF Init, TallyInv, CascadeInOrder, PutDownRight, NeverTooMuch

LEMMA GoOnTally == ASSUME TallyInv, TypeOK', NEW t \in Threads, GoOn(t) PROVE TallyInv'
  <1> DEFINE here == <<at[t].round, at[t].model>>
  <1>1. at[t] \in Place /\ pc[t] = "request"
    BY DEF TallyInv, TypeOK, GoOn, Goto
  <1>2. at[t].round \in 1..Rounds /\ at[t].model \in 1..Models
    BY <1>1 DEF Place, Cascade
  <1>3. /\ missed'[t] = missed[t] \cup {here} /\ \A u \in Threads \ {t} : missed'[u] = missed[u]
    BY DEF GoOn, TallyInv, TypeOK
  <1>4. \A r \in 1..Rounds, m \in Cascade : Passed(r, m, at[t]) => <<r, m>> \in missed'[t]
    BY <1>1, <1>3 DEF TallyInv, CascadeInOrder
  <1>5. <<at[t].round, at[t].model>> \in missed'[t]
    BY <1>3
  <1>6. \A u \in Threads \ {t} : pc'[u] = pc[u] /\ at'[u] = at[u] /\ backend'[u] = backend[u]
    BY DEF GoOn, Goto, PutDownTo, TallyInv, TypeOK
  <1>7. UNCHANGED <<keyed, seen, tally, answered, served>>
    BY DEF GoOn
  <1>8. CASE /\ at[t].model < Models /\ pc'[t] = "acquire"
             /\ at'[t] = [round |-> at[t].round, model |-> at[t].model + 1, attempt |-> 1]
    <2>1. \A r \in 1..Rounds, m \in Cascade : Passed(r, m, at'[t]) => <<r, m>> \in missed'[t]
      <3> SUFFICES ASSUME NEW r \in 1..Rounds, NEW m \in Cascade, Passed(r, m, at'[t])
                   PROVE  <<r, m>> \in missed'[t]
        OBVIOUS
      <3>1. at'[t].round = at[t].round /\ at'[t].model = at[t].model + 1
        BY <1>8
      <3>2. Passed(r, m, at[t]) \/ (r = at[t].round /\ m = at[t].model)
        BY <1>2, <3>1, SearchConstants DEF Passed, Cascade
      <3> QED BY <1>4, <1>5, <3>2
    <2>2. CascadeInOrder'
      BY <1>3, <1>6, <2>1 DEF TallyInv, CascadeInOrder
    <2>3. PutDownRight'
      BY <1>3, <1>6, <1>7, <1>8 DEF TallyInv, PutDownRight
    <2>4. NeverTooMuch'
      BY <1>6, <1>7, <1>8 DEF TallyInv, NeverTooMuch
    <2> QED BY <2>2, <2>3, <2>4 DEF TallyInv
  <1>9. CASE /\ at[t].model = Models /\ at[t].round < Rounds /\ pc'[t] = "acquire"
             /\ at'[t] = [round |-> at[t].round + 1, model |-> 1, attempt |-> 1]
    <2>1. \A r \in 1..Rounds, m \in Cascade : Passed(r, m, at'[t]) => <<r, m>> \in missed'[t]
      <3> SUFFICES ASSUME NEW r \in 1..Rounds, NEW m \in Cascade, Passed(r, m, at'[t])
                   PROVE  <<r, m>> \in missed'[t]
        OBVIOUS
      <3>1. at'[t].round = at[t].round + 1 /\ at'[t].model = 1
        BY <1>9
      <3>2. Passed(r, m, at[t]) \/ (r = at[t].round /\ m = at[t].model)
        BY <1>2, <1>9, <3>1, SearchConstants DEF Passed, Cascade
      <3> QED BY <1>4, <1>5, <3>2
    <2>2. CascadeInOrder'
      BY <1>3, <1>6, <2>1 DEF TallyInv, CascadeInOrder
    <2>3. PutDownRight'
      BY <1>3, <1>6, <1>7, <1>9 DEF TallyInv, PutDownRight
    <2>4. NeverTooMuch'
      BY <1>6, <1>7, <1>9 DEF TallyInv, NeverTooMuch
    <2> QED BY <2>2, <2>3, <2>4 DEF TallyInv
  <1>10. CASE /\ at[t].model = Models /\ at[t].round = Rounds /\ pc'[t] = "read"
              /\ backend'[t] = AllFailed
    <2>1. \A r \in 1..Rounds, m \in Cascade : <<r, m>> \in missed'[t]
      <3> SUFFICES ASSUME NEW r \in 1..Rounds, NEW m \in Cascade PROVE <<r, m>> \in missed'[t]
        OBVIOUS
      <3>1. Passed(r, m, at[t]) \/ (r = at[t].round /\ m = at[t].model)
        BY <1>2, <1>10, SearchConstants DEF Passed, Cascade
      <3> QED BY <1>4, <1>5, <3>1
    <2>2. missed'[t] = (1..Rounds) \X Cascade
      BY <2>1 DEF TypeOK
    <2>3. CascadeInOrder'
      BY <1>3, <1>6, <1>10 DEF TallyInv, CascadeInOrder
    <2>4. PutDownRight'
      BY <1>3, <1>6, <1>7, <1>10, <2>2 DEF TallyInv, PutDownRight
    <2>5. NeverTooMuch'
      BY <1>6, <1>7, <1>10 DEF TallyInv, NeverTooMuch
    <2> QED BY <2>3, <2>4, <2>5 DEF TallyInv
  <1> QED BY <1>8, <1>9, <1>10 DEF GoOn, Goto, PutDownTo, TallyInv, TypeOK

LEMMA TallyStep == TallyInv /\ [Next]_vars => TallyInv'
  <1> SUFFICES ASSUME TallyInv, [Next]_vars PROVE TallyInv'
    OBVIOUS
  <1> USE DEF TallyInv
  <1>0. TypeOK'
    BY TypeStep
  <1>1. CASE UNCHANGED vars
    BY <1>0, <1>1 DEF vars, CascadeInOrder, PutDownRight, NeverTooMuch
  <1>2. CASE Tick
    BY <1>0, <1>2 DEF Tick, CascadeInOrder, PutDownRight, NeverTooMuch
  <1>3. ASSUME NEW t \in Threads, Begin(t) PROVE TallyInv'
    <2>1. /\ at'[t] = First
          /\ \/ pc'[t] = "acquire"
             \/ ~keyed /\ pc'[t] = "read" /\ backend'[t] = NoKey
      BY <1>3 DEF Begin, Goto, PutDownTo, TypeOK
    <2>2. \A u \in Threads \ {t} :
             /\ pc'[u] = pc[u] /\ at'[u] = at[u] /\ backend'[u] = backend[u]
             /\ missed'[u] = missed[u] /\ answered'[u] = answered[u]
      BY <1>3 DEF Begin, Goto, PutDownTo, TypeOK
    <2>3. UNCHANGED <<keyed, seen, tally, served>>
      BY <1>3 DEF Begin
    <2>4. \A r \in 1..Rounds, m \in Cascade : ~Passed(r, m, First)
      BY SearchConstants DEF Passed, First, Cascade
    <2>5. CascadeInOrder'
      BY <2>1, <2>2, <2>4 DEF CascadeInOrder
    <2>6. PutDownRight'
      BY <2>1, <2>2, <2>3 DEF PutDownRight
    <2>7. NeverTooMuch'
      BY <2>1, <2>2, <2>3 DEF NeverTooMuch
    <2> QED BY <1>0, <2>5, <2>6, <2>7
  <1>4. ASSUME NEW t \in Threads, Acquire(t) PROVE TallyInv'
    <2>1. pc[t] = "acquire" /\ pc' \in {pc, [pc EXCEPT ![t] = "request"]}
      BY <1>4 DEF Acquire
    <2>2. UNCHANGED <<keyed, at, backend, seen, tally, missed, answered, served>>
      BY <1>4 DEF Acquire
    <2>3. \A u \in Threads : pc'[u] = pc[u] \/ (u = t /\ pc'[u] = "request")
      BY <2>1 DEF TypeOK
    <2>4. CascadeInOrder'
      BY <2>1, <2>2, <2>3 DEF CascadeInOrder
    <2>5. PutDownRight' /\ NeverTooMuch'
      BY <2>1, <2>2, <2>3 DEF PutDownRight, NeverTooMuch
    <2> QED BY <1>0, <2>4, <2>5
  <1>5. ASSUME NEW t \in Threads, Answers(t) PROVE TallyInv'
    <2>1. at[t].model # 0 /\ at[t].model \in Nat
      BY SearchConstants, SMTT(30) DEF TypeOK, Place, Cascade
    <2>2. pc'[t] = "read" /\ answered'[t] = at[t].model /\ backend'[t] = at[t].model
      BY <1>5 DEF Answers, Goto, PutDownTo, TypeOK
    <2>3. \A u \in Threads \ {t} :
            pc'[u] = pc[u] /\ backend'[u] = backend[u] /\ answered'[u] = answered[u]
      BY <1>5 DEF Answers, Goto, PutDownTo, TypeOK
    <2>4. UNCHANGED <<keyed, at, seen, tally, missed, served>>
      BY <1>5 DEF Answers
    <2>5. CascadeInOrder'
      BY <2>2, <2>3, <2>4 DEF CascadeInOrder
    <2>6. PutDownRight'
      BY <2>1, <2>2, <2>3, <2>4 DEF PutDownRight
    <2>7. NeverTooMuch'
      BY <2>2, <2>3, <2>4 DEF NeverTooMuch
    <2> QED BY <1>0, <2>5, <2>6, <2>7
  <1>6. ASSUME NEW t \in Threads, GoOn(t) PROVE TallyInv'
    BY <1>0, <1>6, GoOnTally
  <1>7. ASSUME NEW t \in Threads, Transient(t) PROVE TallyInv'
    <2>1. CASE GoOn(t)
      BY <1>6, <2>1
    <2>2. CASE /\ at' = [at EXCEPT ![t].attempt = @ + 1]
               /\ Goto(t, "request", "acquire")
               /\ UNCHANGED <<keyed, limiter, left, backend, seen, tally, missed, answered, served>>
      <3>1. at'[t].round = at[t].round /\ at'[t].model = at[t].model
        BY <2>2 DEF TypeOK, Place
      <3>2. \A u \in Threads \ {t} : at'[u] = at[u] /\ pc'[u] = pc[u]
        BY <2>2 DEF Goto, TypeOK
      <3>3. pc[t] = "request" /\ pc'[t] = "acquire"
        BY <2>2 DEF Goto, TypeOK
      <3>4. UNCHANGED <<keyed, backend, seen, tally, missed, answered, served>>
        BY <2>2
      <3>5. CascadeInOrder'
        BY <3>1, <3>2, <3>3, <3>4 DEF CascadeInOrder, Passed
      <3>6. PutDownRight' /\ NeverTooMuch'
        BY <3>2, <3>3, <3>4 DEF PutDownRight, NeverTooMuch
      <3> QED BY <1>0, <3>5, <3>6
    <2> QED BY <1>7, <2>1, <2>2 DEF Transient
  <1>8. ASSUME NEW t \in Threads, ReadTally(t) PROVE TallyInv'
    <2>1. pc[t] = "read" /\ pc'[t] = "write" /\ seen'[t] = tally[backend[t]] /\ backend[t] \in Backends
      BY <1>8 DEF ReadTally, Goto, TypeOK
    <2>2. \A u \in Threads \ {t} : pc'[u] = pc[u] /\ seen'[u] = seen[u]
      BY <1>8 DEF ReadTally, Goto, TypeOK
    <2>3. UNCHANGED <<keyed, at, backend, tally, missed, answered, served>>
      BY <1>8 DEF ReadTally
    <2>4. CascadeInOrder'
      BY <2>1, <2>2, <2>3 DEF CascadeInOrder
    <2>5. PutDownRight'
      BY <2>1, <2>2, <2>3 DEF PutDownRight
    <2>6. NeverTooMuch'
      BY <2>1, <2>2, <2>3 DEF NeverTooMuch
    <2> QED BY <1>0, <2>4, <2>5, <2>6
  <1>9. ASSUME NEW t \in Threads, WriteTally(t) PROVE TallyInv'
    <2>1. /\ pc[t] = "write" /\ pc'[t] = "idle" /\ backend[t] \in Backends
          /\ \A u \in Threads \ {t} : pc'[u] = pc[u]
      BY <1>9 DEF WriteTally, Goto, TypeOK
    <2>2. UNCHANGED <<keyed, at, seen, backend, missed, answered>>
      BY <1>9 DEF WriteTally
    <2>3. /\ tally'[backend[t]] = seen[t] + 1 /\ served'[backend[t]] = served[backend[t]] + 1
          /\ \A b \in Backends \ {backend[t]} : tally'[b] = tally[b] /\ served'[b] = served[b]
      BY <1>9, <2>1 DEF WriteTally, TypeOK
    <2>4. CascadeInOrder'
      BY <2>1, <2>2 DEF CascadeInOrder
    <2>5. PutDownRight'
      BY <2>1, <2>2 DEF PutDownRight
    <2>6. NeverTooMuch'
      <3>1. seen \in [Threads -> Nat] /\ served \in [Backends -> Nat] /\ tally \in [Backends -> Nat]
            /\ backend \in [Threads -> Backends]
        BY DEF TypeOK
      <3>2. \A b \in Backends : tally'[b] <= served'[b] /\ (tally'[b] = 0 => served'[b] = 0)
        BY <2>1, <2>3, <3>1 DEF NeverTooMuch
      <3>3. \A b \in Backends : served[b] <= served'[b]
        BY <2>3, <3>1
      <3>4. \A u \in Threads : pc'[u] = "write" => seen[u] <= served'[backend[u]]
        <4> SUFFICES ASSUME NEW u \in Threads, pc'[u] = "write"
                     PROVE  seen[u] <= served'[backend[u]]
          OBVIOUS
        <4>1. pc[u] = "write"
          BY <2>1
        <4>2. seen[u] <= served[backend[u]] /\ backend[u] \in Backends
          BY <3>1, <4>1 DEF NeverTooMuch
        <4>3. served'[backend[u]] \in Nat /\ served[backend[u]] \in Nat /\ seen[u] \in Nat
          BY <1>0, <2>2, <3>1, <4>2 DEF TypeOK
        <4> QED BY <3>3, <4>2, <4>3
      <3> QED BY <2>2, <3>2, <3>4 DEF NeverTooMuch
    <2> QED BY <1>0, <2>4, <2>5, <2>6
  <1>10. ASSUME NEW t \in Threads, Unreadable(t) PROVE TallyInv'
    <2>1. pc'[t] = "idle" /\ \A u \in Threads \ {t} : pc'[u] = pc[u]
      BY <1>10 DEF Unreadable, Goto, TypeOK
    <2>2. UNCHANGED <<keyed, at, backend, seen, tally, missed, answered, served>>
      BY <1>10 DEF Unreadable
    <2>3. CascadeInOrder'
      BY <2>1, <2>2 DEF CascadeInOrder
    <2>4. PutDownRight' /\ NeverTooMuch'
      BY <2>1, <2>2 DEF PutDownRight, NeverTooMuch
    <2> QED BY <1>0, <2>3, <2>4
  <1> QED BY <1>1, <1>2, <1>3, <1>4, <1>5, <1>6, <1>7, <1>8, <1>9, <1>10 DEF Next, Step, Throttled

(* A search is put down to the model that answered it, or to all having    *)
(* failed only where all have; and no backend is credited with more than   *)
(* it served, whatever increments are lost.                                *)
THEOREM TallyIsHonest == Spec => []TallyHonest
  <1>1. TallyInv => TallyHonest
    BY DEF TallyInv, PutDownRight, NeverTooMuch, TallyHonest
  <1> QED BY <1>1, TallyInit, TallyStep, PTL DEF Spec
=============================================================================
