--------------------------- MODULE CallChainProofs ---------------------------
(***************************************************************************)
(* Proofs about CallChain, for any golden chains, calls of the model,      *)
(* rounds and attempts.  First what the operators on the two golden lists  *)
(* keep; then the invariant, which relates both lists, the calls that are  *)
(* marked, the turn and what was matched.                                  *)
(***************************************************************************)
EXTENDS CallChain, FiniteSetTheorems, WellFoundedInduction, TLAPS

Golden == [turn : Nat, fcs : Seq(Call), obs : Seq(Nat \X Nat)]

TypeOK ==
  /\ chain \in Chains
  /\ golden \in Golden
  /\ called \subseteq FreeCalls
  /\ rounds \in 0..MaxRounds /\ attempt \in 0..Attempts
  /\ predict \in Seq(Calls)
  /\ err \in BOOLEAN
  /\ outcome \in {"none", "success", "stop_early", "max_rounds", "mismatch", "unknown_error",
                  "func_hallucination", "decode_error", "exception"}
  /\ taken \subseteq Due
  /\ doubled \in BOOLEAN

(* Nothing is due or matched before its turn.                              *)
InTurn ==
  /\ ToSet(golden.obs) \subseteq Due
  /\ \A o \in ToSet(golden.obs) \cup taken : o[1] <= golden.turn

(* A marked call is due at most once, and past the last turn no more: it   *)
(* was taken off the list when it was marked.                              *)
MarkedOnce ==
  outcome = "none" /\ ~doubled =>
  /\ \A c \in called : ~(Count(golden.fcs, c) > 1)
  /\ golden.turn > Len(chain) => ToSet(golden.fcs) \cap called = {}

(* Calls are compared between two requests, with something that is due.    *)
Comparing ==
  outcome = "none" => /\ attempt > 0 => predict = <<>>
                      /\ predict # <<>> => golden.fcs # <<>>

IInv == /\ TypeOK /\ InTurn /\ MarkedOnce /\ Comparing
        /\ Aligned /\ GoldenConserved /\ SuccessMeansDone

-----------------------------------------------------------------------------
(* Numbers and finite sets                                                 *)

(* The least-number principle, for sets: it stands in for induction.       *)
LEMMA LeastNat ==
  ASSUME NEW T, T \subseteq Nat, T # {}
  PROVE  \E x \in T : \A y \in T : x <= y
  <1>1. IsWellFoundedOn(OpToRel(<, Nat), Nat)
    BY NatLessThanWellFounded
  <1>2. PICK x \in T : \A y \in T : ~ (<<y, x>> \in OpToRel(<, Nat))
    BY <1>1, WFMin
  <1>3. \A y \in T : ~(y < x)
    <2> SUFFICES ASSUME NEW y \in T, y < x PROVE <<y, x>> \in OpToRel(<, Nat)
      BY <1>2
    <2>1. <<y, x>> \in Nat \X Nat /\ <<y, x>>[1] < <<y, x>>[2]
      OBVIOUS
    <2> QED BY <2>1, Zenon DEF OpToRel
  <1> QED BY <1>3

LEMMA MinIs ==
  ASSUME NEW T, T \subseteq Nat, T # {}
  PROVE  Min(T) \in T /\ \A y \in T : Min(T) <= y
  BY LeastNat DEF Min

LEMMA IntervalFinite ==
  ASSUME NEW a \in Int, NEW b \in Int, NEW P, P \subseteq a..b
  PROVE  /\ IsFiniteSet(P) /\ Cardinality(P) \in Nat
         /\ a <= b + 1 => Cardinality(P) <= b - a + 1
  <1>1. IsFiniteSet(a..b) /\ Cardinality(a..b) = IF a > b THEN 0 ELSE b - a + 1
    BY FS_Interval, Zenon
  <1>2. IsFiniteSet(P) /\ Cardinality(P) <= Cardinality(a..b)
    BY <1>1, FS_Subset
  <1>3. QED
    BY <1>1, <1>2, FS_CardinalityType

LEMMA PlacesFinite ==
  ASSUME NEW m \in Nat, NEW P \in SUBSET (1..m)
  PROVE  IsFiniteSet(P) /\ Cardinality(P) \in Nat /\ P \subseteq Nat \ {0}
  <1>1. 1 \in Int /\ m \in Int
    OBVIOUS
  <1>2. IsFiniteSet(P) /\ Cardinality(P) \in Nat
    BY <1>1, IntervalFinite, Zenon
  <1>3. QED
    BY <1>2

-----------------------------------------------------------------------------
(* Parts of a sequence                                                     *)

(* There is an n-th place in I, and it is in I.                            *)
LEMMA NthIs ==
  ASSUME NEW m \in Nat, NEW I \in SUBSET (1..m), NEW n \in 1..Cardinality(I)
  PROVE  Nth(I, n) \in I /\ Cardinality({j \in I : j <= Nth(I, n)}) = n
  <1> DEFINE UpTo(i) == {j \in I : j <= i}
             V       == {i \in Nat : n <= Cardinality(UpTo(i))}
  <1>i. \A j \in I : j \in Nat /\ 1 <= j /\ j <= m
    OBVIOUS
  <1>1. \A i : IsFiniteSet(UpTo(i)) /\ Cardinality(UpTo(i)) \in Nat
    <2>1. \A i : UpTo(i) \subseteq 1..m
      OBVIOUS
    <2> HIDE DEF UpTo
    <2>2. QED
      BY <2>1, PlacesFinite
  <1>2. PICK v \in V : \A w \in V : v <= w
    <2>1. UpTo(m) = I
      BY <1>i
    <2>2. m \in V
      BY <1>1, <2>1
    <2>3. V \subseteq Nat
      OBVIOUS
    <2> HIDE DEF V
    <2>4. QED
      BY <2>2, <2>3, LeastNat
  <1>3. v \in Nat /\ n <= Cardinality(UpTo(v)) /\ n \in Nat /\ n > 0
    BY <1>1
  <1>4. v # 0
    <2>0. \A j \in I : ~(j <= 0)
      BY <1>i
    <2>1. UpTo(0) = {}
      BY <2>0
    <2>2. Cardinality(UpTo(0)) = 0
      BY <2>1, FS_EmptySet
    <2> HIDE DEF UpTo
    <2>3. QED
      BY <1>3, <2>2
  <1>5. v - 1 \in Nat /\ Cardinality(UpTo(v - 1)) < n
    <2>1. v - 1 \in Nat /\ v - 1 < v
      BY <1>3, <1>4
    <2> HIDE DEF UpTo
    <2>2. ~(n <= Cardinality(UpTo(v - 1)))
      BY <1>2, <1>3, <2>1
    <2>3. QED
      BY <1>1, <1>3, <2>1, <2>2
  <1>6. v \in I
    <2> SUFFICES ASSUME v \notin I PROVE FALSE
      OBVIOUS
    <2>0. \A j \in I : j <= v <=> j <= v - 1
      BY <1>i, <1>3
    <2>1. UpTo(v) = UpTo(v - 1)
      BY <2>0
    <2> HIDE DEF UpTo
    <2>2. QED
      BY <1>1, <1>3, <1>5, <2>1
  <1>7. Cardinality(UpTo(v)) = n
    <2>0. (\A j \in I : j <= v <=> j <= v - 1 \/ j = v) /\ ~(v <= v - 1)
      BY <1>i, <1>3
    <2>1. UpTo(v) = UpTo(v - 1) \cup {v} /\ v \notin UpTo(v - 1)
      BY <1>6, <2>0
    <2> HIDE DEF UpTo
    <2>2. Cardinality(UpTo(v)) = Cardinality(UpTo(v - 1)) + 1
      BY <1>1, <2>1, FS_AddElement
    <2>3. QED
      BY <1>1, <1>3, <1>5, <2>2
  <1>8. \E i \in I : Cardinality({j \in I : j <= i}) = n
    BY <1>6, <1>7
  <1>9. QED
    BY <1>8, Zenon DEF Nth

(* Every place in I is the n-th for some n.                                *)
LEMMA EachIsNth ==
  ASSUME NEW m \in Nat, NEW I \in SUBSET (1..m), NEW i \in I
  PROVE  \E n \in 1..Cardinality(I) : Nth(I, n) = i
  <1> DEFINE UpTo(k) == {j \in I : j <= k}
             n       == Cardinality(UpTo(i))
             k       == Nth(I, n)
  <1>i. \A j \in I : j \in Nat /\ 1 <= j /\ j <= m
    OBVIOUS
  <1>1. \A h \in I : IsFiniteSet(UpTo(h)) /\ Cardinality(UpTo(h)) \in Nat
    <2>1. \A h \in I : UpTo(h) \subseteq 1..m
      OBVIOUS
    <2> HIDE DEF UpTo
    <2>2. QED
      BY <2>1, PlacesFinite
  <1>2. n \in 1..Cardinality(I)
    <2>1. IsFiniteSet(I) /\ Cardinality(I) \in Nat
      BY PlacesFinite
    <2>2. UpTo(i) \in SUBSET I /\ UpTo(i) # {}
      OBVIOUS
    <2> HIDE DEF UpTo
    <2>3. Cardinality(UpTo(i)) <= Cardinality(I)
      BY <2>1, <2>2, FS_Subset
    <2>4. Cardinality(UpTo(i)) # 0
      BY <1>1, <2>2, FS_EmptySet
    <2>5. QED
      BY <1>1, <2>1, <2>3, <2>4
  <1> HIDE DEF n
  <1>3. k \in I /\ Cardinality(UpTo(k)) = n
    BY <1>2, NthIs
  <1> HIDE DEF k
  <1>4. Cardinality(UpTo(k)) = Cardinality(UpTo(i))
    BY <1>3 DEF n
  <1>5. ~(k < i)
    <2> SUFFICES ASSUME k < i PROVE FALSE
      OBVIOUS
    <2>0. (\A j \in I : j <= k => j <= i) /\ i <= i /\ ~(i <= k)
      BY <1>i, <1>3
    <2>1. UpTo(k) \in SUBSET UpTo(i) /\ i \in UpTo(i) /\ i \notin UpTo(k)
      BY <1>3, <2>0
    <2> HIDE DEF UpTo
    <2>2. UpTo(k) = UpTo(i)
      BY <1>1, <1>4, <2>1, FS_Subset
    <2>3. QED
      BY <2>1, <2>2
  <1>6. ~(i < k)
    <2> SUFFICES ASSUME i < k PROVE FALSE
      OBVIOUS
    <2>0. (\A j \in I : j <= i => j <= k) /\ k <= k /\ ~(k <= i)
      BY <1>i, <1>3
    <2>1. UpTo(i) \in SUBSET UpTo(k) /\ k \in UpTo(k) /\ k \notin UpTo(i)
      BY <1>3, <2>0
    <2> HIDE DEF UpTo
    <2>2. UpTo(i) = UpTo(k)
      BY <1>1, <1>3, <1>4, <2>1, FS_Subset
    <2>3. QED
      BY <2>1, <2>2
  <1>7. k = i
    BY <1>3, <1>5, <1>6
  <1>8. QED
    BY <1>2, <1>7 DEF k

(* A part of a sequence: its length, its elements and where they stood.    *)
LEMMA SubseqSeq ==
  ASSUME NEW S, NEW s \in Seq(S), NEW I \in SUBSET (1..Len(s))
  PROVE  Subseq(s, I) \in Seq(S) /\ Len(Subseq(s, I)) = Cardinality(I)
  <1>0. Len(s) \in Nat
    OBVIOUS
  <1>1. IsFiniteSet(I) /\ Cardinality(I) \in Nat
    BY <1>0, PlacesFinite
  <1>2. \A n \in 1..Cardinality(I) : s[Nth(I, n)] \in S
    <2>1. \A n \in 1..Cardinality(I) : Nth(I, n) \in I
      BY <1>0, NthIs
    <2>2. \A i \in I : s[i] \in S
      OBVIOUS
    <2>3. QED
      BY <2>1, <2>2
  <1>3. QED
    BY <1>1, <1>2 DEF Subseq

LEMMA SubseqAt ==
  ASSUME NEW S, NEW s \in Seq(S), NEW I \in SUBSET (1..Len(s)), NEW n \in 1..Cardinality(I)
  PROVE  Nth(I, n) \in I /\ Subseq(s, I)[n] = s[Nth(I, n)]
  <1>0. Len(s) \in Nat
    OBVIOUS
  <1>1. Nth(I, n) \in I
    BY <1>0, NthIs
  <1>2. QED
    BY <1>1 DEF Subseq

LEMMA SubseqHas ==
  ASSUME NEW S, NEW s \in Seq(S), NEW I \in SUBSET (1..Len(s)), NEW x
  PROVE  x \in ToSet(Subseq(s, I)) <=> \E i \in I : x = s[i]
  <1>1. DOMAIN Subseq(s, I) = 1..Cardinality(I)
    BY DEF Subseq
  <1>2. x \in ToSet(Subseq(s, I)) <=> \E n \in 1..Cardinality(I) : x = s[Nth(I, n)]
    BY <1>1, SubseqAt DEF ToSet
  <1>3. \A n \in 1..Cardinality(I) : Nth(I, n) \in I
    BY SubseqAt
  <1>0. Len(s) \in Nat
    OBVIOUS
  <1>4. \A i \in I : \E n \in 1..Cardinality(I) : Nth(I, n) = i
    BY <1>0, EachIsNth
  <1>5. QED
    BY <1>2, <1>3, <1>4

LEMMA SubseqEmpty ==
  ASSUME NEW S, NEW s \in Seq(S), NEW I \in SUBSET (1..Len(s)), Subseq(s, I) = <<>>
  PROVE  I = {}
  <1>0. Len(s) \in Nat
    OBVIOUS
  <1>1. IsFiniteSet(I) /\ Cardinality(I) \in Nat
    BY <1>0, PlacesFinite
  <1>2. Cardinality(I) = 0
    <2>1. Len(Subseq(s, I)) = Cardinality(I)
      BY SubseqSeq
    <2>2. QED
      BY <2>1
  <1>3. QED
    BY <1>1, <1>2, FS_EmptySet

LEMMA TwoParts ==
  ASSUME NEW a \in Nat, NEW b \in Nat, NEW i \in 1..(a + b)
  PROVE  i \in 1..a \/ \E j \in 1..b : i = a + j
  <1>1. CASE ~(i <= a)
    <2>1. i - a \in 1..b /\ i = a + (i - a)
      BY <1>1
    <2>2. QED
      BY <2>1
  <1>2. QED
    BY <1>1

(* A list of calls and the list of the places where they stand.            *)
InPairs(s, u) == Len(s) = Len(u) /\ \A i \in 1..Len(s) : s[i] = CallAt(u[i])

(* Two pairs of lists, put end to end, are paired as each was.             *)
LEMMA ConcatPaired ==
  ASSUME NEW S, NEW s \in Seq(S), NEW r \in Seq(S),
         NEW T, NEW u \in Seq(T), NEW v \in Seq(T)
  PROVE  InPairs(s, u) /\ InPairs(r, v) => InPairs(s \o r, u \o v)
  <1>0. SUFFICES ASSUME Len(s) = Len(u), \A i \in 1..Len(s) : s[i] = CallAt(u[i]),
                        Len(r) = Len(v), \A i \in 1..Len(r) : r[i] = CallAt(v[i])
                 PROVE  /\ Len(s \o r) = Len(u \o v)
                        /\ \A i \in 1..Len(s \o r) : (s \o r)[i] = CallAt((u \o v)[i])
    BY DEF InPairs
  <1>1. Len(s \o r) = Len(s) + Len(r) /\ Len(u \o v) = Len(u) + Len(v)
    OBVIOUS
  <1>2. \A i \in 1..Len(s) : (s \o r)[i] = s[i]
    OBVIOUS
  <1>u. \A i \in 1..Len(u) : (u \o v)[i] = u[i]
    OBVIOUS
  <1>3. \A j \in 1..Len(r) : (s \o r)[Len(s) + j] = r[j]
    OBVIOUS
  <1>4. \A j \in 1..Len(v) : (u \o v)[Len(u) + j] = v[j]
    OBVIOUS
  <1>5. ASSUME NEW i \in 1..Len(s \o r) PROVE (s \o r)[i] = CallAt((u \o v)[i])
    <2> DEFINE a == Len(s)
               b == Len(r)
    <2>0. a \in Nat /\ b \in Nat /\ i \in 1..(a + b)
      BY <1>1
    <2> HIDE DEF a, b
    <2>1. i \in 1..a \/ \E j \in 1..b : i = a + j
      BY <2>0, TwoParts
    <2> USE DEF a, b
    <2>2. CASE i \in 1..Len(s)
      BY <1>0, <1>2, <1>u, <2>2
    <2>3. ASSUME NEW j \in 1..Len(r), i = Len(s) + j PROVE (s \o r)[i] = CallAt((u \o v)[i])
      <3>1. (s \o r)[i] = r[j]
        BY <1>3, <2>3
      <3>2. (u \o v)[i] = v[j]
        BY <1>0, <1>4, <2>3
      <3>3. QED
        BY <1>0, <3>1, <3>2
    <2>4. QED
      BY <2>1, <2>2, <2>3
  <1>6. QED
    BY <1>0, <1>1, <1>5

LEMMA ToSetConcat ==
  ASSUME NEW S, NEW s \in Seq(S), NEW r \in Seq(S)
  PROVE  ToSet(s \o r) = ToSet(s) \cup ToSet(r)
  <1>1. ASSUME NEW i \in DOMAIN (s \o r) PROVE (s \o r)[i] \in ToSet(s) \cup ToSet(r)
    <2>1. CASE i <= Len(s)
      BY <2>1 DEF ToSet
    <2>2. CASE ~(i <= Len(s))
      <3>1. i - Len(s) \in DOMAIN r /\ (s \o r)[i] = r[i - Len(s)]
        BY <2>2
      <3>2. QED
        BY <3>1 DEF ToSet
    <2>3. QED
      BY <2>1, <2>2
  <1>2. ASSUME NEW i \in DOMAIN s PROVE s[i] \in ToSet(s \o r)
    <2>1. i \in DOMAIN (s \o r) /\ (s \o r)[i] = s[i]
      OBVIOUS
    <2>2. QED
      BY <2>1 DEF ToSet
  <1>3. ASSUME NEW i \in DOMAIN r PROVE r[i] \in ToSet(s \o r)
    <2>1. Len(s) + i \in DOMAIN (s \o r) /\ (s \o r)[Len(s) + i] = r[i]
      OBVIOUS
    <2>2. QED
      BY <2>1 DEF ToSet
  <1>4. QED
    BY <1>1, <1>2, <1>3 DEF ToSet

-----------------------------------------------------------------------------
(* Golden lists                                                            *)

(* Calls and observations are paired and belong to turns begun.            *)
Paired(g) == InPairs(g.fcs, g.obs)

Begun(g) == ToSet(g.obs) \subseteq Due /\ \A o \in ToSet(g.obs) : o[1] <= g.turn

Well(g) == g \in Golden /\ Paired(g) /\ Begun(g)

(* What is due in g and the places in T share out the required calls.      *)
Shares(g, T) == {o \in Required : o[1] <= g.turn} \ T = ToSet(g.obs) \cap Required

LEMMA ChainIs ==
  ASSUME chain \in Chains
  PROVE  /\ Len(chain) \in Nat \ {0}
         /\ \A t \in 1..Len(chain) : chain[t] \in Seq(Call) /\ Len(chain[t]) \in Nat \ {0}
  <1>1. chain \in Seq(Seq(Call)) /\ Len(chain) > 0 /\ \A t \in 1..Len(chain) : Len(chain[t]) > 0
    BY ChainConstants
  <1>2. QED
    BY <1>1

LEMMA PlacesAre ==
  ASSUME chain \in Chains, NEW t \in 1..Len(chain)
  PROVE  /\ Places(t) \in Seq(Nat \X Nat) /\ Len(Places(t)) = Len(chain[t])
         /\ \A j \in 1..Len(chain[t]) : Places(t)[j] = <<t, j>> /\ CallAt(<<t, j>>) = chain[t][j]
         /\ ToSet(Places(t)) = {<<t, j>> : j \in 1..Len(chain[t])}
  <1>1. Len(chain[t]) \in Nat /\ t \in Nat
    BY ChainIs
  <1>2. /\ Places(t) \in Seq(Nat \X Nat) /\ Len(Places(t)) = Len(chain[t])
        /\ \A j \in 1..Len(chain[t]) : Places(t)[j] = <<t, j>>
    BY <1>1 DEF Places
  <1>3. \A j \in 1..Len(chain[t]) : CallAt(<<t, j>>) = chain[t][j]
    BY DEF CallAt
  <1>4. ToSet(Places(t)) = {<<t, j>> : j \in 1..Len(chain[t])}
    BY DEF ToSet, Places
  <1>5. QED
    BY <1>2, <1>3, <1>4

LEMMA DueIs ==
  ASSUME chain \in Chains
  PROVE  /\ \A o \in Due : /\ o \in Nat \X Nat /\ o[1] \in 1..Len(chain)
                           /\ CallAt(o) \in Call /\ CallAt(o) \in ToSet(chain[o[1]])
         /\ \A t \in 1..Len(chain) : ToSet(Places(t)) = {o \in Due : o[1] = t}
  <1>1. \A o : o \in Due <=> \E t \in 1..Len(chain) : \E j \in 1..Len(chain[t]) : o = <<t, j>>
    <2>1. \A o : o \in Due <=> \E t \in 1..Len(chain) : o \in ToSet(Places(t))
      BY Zenon DEF Due
    <2>2. \A t \in 1..Len(chain) : ToSet(Places(t)) = {<<t, j>> : j \in 1..Len(chain[t])}
      BY PlacesAre
    <2>3. QED
      BY <2>1, <2>2
  <1>2. ASSUME NEW o \in Due
        PROVE  /\ o \in Nat \X Nat /\ o[1] \in 1..Len(chain)
               /\ CallAt(o) \in Call /\ CallAt(o) \in ToSet(chain[o[1]])
    <2>1. PICK t \in 1..Len(chain) : \E j \in 1..Len(chain[t]) : o = <<t, j>>
      BY <1>1
    <2>2. PICK j \in 1..Len(chain[t]) : o = <<t, j>>
      BY <2>1
    <2>3. chain[t] \in Seq(Call) /\ Len(chain) \in Nat /\ CallAt(o) = chain[t][j]
      BY <2>2, ChainIs, PlacesAre
    <2>4. CallAt(o) \in Call /\ CallAt(o) \in ToSet(chain[t])
      BY <2>3 DEF ToSet
    <2>5. QED
      BY <2>2, <2>3, <2>4
  <1>3. ASSUME NEW t \in 1..Len(chain)
        PROVE  ToSet(Places(t)) = {o \in Due : o[1] = t}
    <2>1. ToSet(Places(t)) = {<<t, j>> : j \in 1..Len(chain[t])}
      BY PlacesAre
    <2>2. \A o : o \in {<<t, j>> : j \in 1..Len(chain[t])} <=> o \in Due /\ o[1] = t
      BY <1>1
    <2>3. QED
      BY <2>1, <2>2
  <1>4. QED
    BY <1>2, <1>3

(* Keeping part of both lists.                                             *)
LEMMA KeepIs ==
  ASSUME NEW g, Well(g), NEW I, I \subseteq 1..Len(g.fcs)
  PROVE  /\ Well(Keep(g, I)) /\ Keep(g, I).turn = g.turn
         /\ ToSet(Keep(g, I).fcs) = {g.fcs[i] : i \in I}
         /\ ToSet(Keep(g, I).obs) = {g.obs[i] : i \in I}
         /\ Keep(g, I).fcs = <<>> => I = {}
  <1> DEFINE k == Keep(g, I)
  <1>1. /\ g.turn \in Nat /\ g.fcs \in Seq(Call) /\ g.obs \in Seq(Nat \X Nat)
        /\ Len(g.obs) = Len(g.fcs) /\ g \in Golden
    BY DEF Well, Golden, Paired, InPairs
  <1>2. k.turn = g.turn /\ k.fcs = Subseq(g.fcs, I) /\ k.obs = Subseq(g.obs, I)
    BY <1>1 DEF Keep, Golden
  <1> HIDE DEF k
  <1>3. /\ k.fcs \in Seq(Call) /\ Len(k.fcs) = Cardinality(I)
        /\ \A n \in 1..Cardinality(I) : Nth(I, n) \in I /\ k.fcs[n] = g.fcs[Nth(I, n)]
        /\ ToSet(k.fcs) = {g.fcs[i] : i \in I} /\ (k.fcs = <<>> => I = {})
    <2> DEFINE s == g.fcs
    <2>1. s \in Seq(Call) /\ I \subseteq 1..Len(s) /\ k.fcs = Subseq(s, I)
      BY <1>1, <1>2
    <2> HIDE DEF s
    <2>2. Subseq(s, I) \in Seq(Call) /\ Len(Subseq(s, I)) = Cardinality(I)
      BY <2>1, SubseqSeq
    <2>3. \A n \in 1..Cardinality(I) : Nth(I, n) \in I /\ Subseq(s, I)[n] = s[Nth(I, n)]
      BY <2>1, SubseqAt
    <2>4. ToSet(Subseq(s, I)) = {s[i] : i \in I}
      <3>1. \A x : x \in ToSet(Subseq(s, I)) <=> \E i \in I : x = s[i]
        BY <2>1, SubseqHas
      <3>2. QED
        BY <3>1
    <2>5. Subseq(s, I) = <<>> => I = {}
      BY <2>1, SubseqEmpty
    <2>6. QED
      BY <2>1, <2>2, <2>3, <2>4, <2>5, Zenon DEF s
  <1>4. /\ k.obs \in Seq(Nat \X Nat) /\ Len(k.obs) = Cardinality(I)
        /\ \A n \in 1..Cardinality(I) : k.obs[n] = g.obs[Nth(I, n)]
        /\ ToSet(k.obs) = {g.obs[i] : i \in I}
    <2> DEFINE s == g.obs
    <2>1. s \in Seq(Nat \X Nat) /\ I \subseteq 1..Len(s) /\ k.obs = Subseq(s, I)
      BY <1>1, <1>2
    <2> HIDE DEF s
    <2>2. Subseq(s, I) \in Seq(Nat \X Nat) /\ Len(Subseq(s, I)) = Cardinality(I)
      BY <2>1, SubseqSeq
    <2>3. \A n \in 1..Cardinality(I) : Nth(I, n) \in I /\ Subseq(s, I)[n] = s[Nth(I, n)]
      BY <2>1, SubseqAt
    <2>4. ToSet(Subseq(s, I)) = {s[i] : i \in I}
      <3>1. \A x : x \in ToSet(Subseq(s, I)) <=> \E i \in I : x = s[i]
        BY <2>1, SubseqHas
      <3>2. QED
        BY <3>1
    <2>5. Subseq(s, I) = <<>> => I = {}
      BY <2>1, SubseqEmpty
    <2>6. QED
      BY <2>1, <2>2, <2>3, <2>4, <2>5, Zenon DEF s
  <1>5. k \in Golden
    BY <1>1, <1>2, <1>3, <1>4 DEF Keep, Golden, k
  <1>6. Paired(k)
    BY <1>3, <1>4 DEF Paired, InPairs, Well
  <1>7. Begun(k)
    <2>1. ToSet(k.obs) \subseteq ToSet(g.obs)
      <3>1. \A i \in I : g.obs[i] \in ToSet(g.obs)
        BY <1>1 DEF ToSet
      <3>2. QED
        BY <1>4, <3>1
    <2>2. QED
      BY <1>2, <2>1 DEF Begun, Well
  <1>8. QED
    BY <1>2, <1>3, <1>4, <1>5, <1>6, <1>7 DEF k, Well

(* The next turn.                                                          *)
LEMMA UpdateIs ==
  ASSUME chain \in Chains, NEW g, Well(g)
  PROVE  /\ Well(Update(g)) /\ Update(g).turn = g.turn + 1
         /\ g.turn + 1 > Len(chain) => Update(g).fcs = g.fcs
         /\ ToSet(Update(g).obs) = ToSet(g.obs) \cup {o \in Due : o[1] = g.turn + 1}
  <1> DEFINE u == Update(g)
             t == g.turn + 1
  <1>1. /\ g.turn \in Nat /\ g.fcs \in Seq(Call) /\ g.obs \in Seq(Nat \X Nat)
        /\ Len(g.obs) = Len(g.fcs) /\ g \in Golden
        /\ t \in Nat /\ t > 0 /\ Len(chain) \in Nat
    BY ChainIs DEF Well, Golden, Paired, InPairs
  <1> HIDE DEF t
  <1>2. CASE t > Len(chain)
    <2>1. u = [g EXCEPT !.turn = t]
      BY <1>2 DEF Update, t
    <2>2. u.turn = t /\ u.fcs = g.fcs /\ u.obs = g.obs /\ u \in Golden
      BY <1>1, <2>1 DEF Golden
    <2>3. {o \in Due : o[1] = t} = {}
      BY <1>1, <1>2, DueIs
    <2>4. Paired(u)
      BY <2>2 DEF Well, Paired, InPairs
    <2>5. Begun(u)
      <3>1. \A o \in Due : o[1] <= g.turn => o[1] <= t
        BY <1>1, DueIs DEF t
      <3>2. QED
        BY <2>2, <3>1 DEF Well, Begun
    <2>6. ToSet(u.obs) = ToSet(g.obs) \cup {o \in Due : o[1] = t}
      BY <2>2, <2>3
    <2> HIDE DEF u
    <2>7. QED
      BY <2>2, <2>4, <2>5, <2>6 DEF Well, t, u
  <1>3. CASE ~(t > Len(chain))
    <2>1. u = [turn |-> t, fcs |-> g.fcs \o chain[t], obs |-> g.obs \o Places(t)]
      BY <1>3 DEF Update, t
    <2>2. t \in 1..Len(chain)
      BY <1>1, <1>3
    <2>3. chain[t] \in Seq(Call) /\ Len(chain[t]) \in Nat
      BY <2>2, ChainIs
    <2>4. /\ Places(t) \in Seq(Nat \X Nat) /\ Len(Places(t)) = Len(chain[t])
          /\ \A j \in 1..Len(chain[t]) : CallAt(Places(t)[j]) = chain[t][j]
      BY <2>2, PlacesAre
    <2> DEFINE f == g.fcs \o chain[t]
               b == g.obs \o Places(t)
    <2>5. u.turn = t /\ u.fcs = f /\ u.obs = b
      <3>1. u = [turn |-> t, fcs |-> f, obs |-> b]
        BY <2>1
      <3> HIDE DEF f, b, u
      <3>2. QED
        BY <3>1
    <2>6. u \in Golden
      <3>1. g.fcs \o chain[t] \in Seq(Call) /\ g.obs \o Places(t) \in Seq(Nat \X Nat)
        BY <1>1, <2>3, <2>4
      <3>2. QED
        BY <1>1, <2>1, <3>1 DEF Golden
    <2> HIDE DEF u
    <2>7. Paired(u)
      <3>1. InPairs(g.fcs, g.obs)
        BY DEF Well, Paired
      <3>2. InPairs(chain[t], Places(t))
        BY <2>3, <2>4 DEF InPairs
      <3>3. InPairs(f, b)
        BY <1>1, <2>3, <2>4, <3>1, <3>2, ConcatPaired
      <3> HIDE DEF f, b
      <3>4. QED
        BY <2>5, <3>3 DEF Paired
    <2>8. ToSet(u.obs) = ToSet(g.obs) \cup {o \in Due : o[1] = t}
      <3>1. ToSet(Places(t)) = {o \in Due : o[1] = t}
        BY <2>2, DueIs
      <3>2. ToSet(u.obs) = ToSet(g.obs) \cup ToSet(Places(t))
        BY <1>1, <2>4, <2>5, ToSetConcat
      <3>3. QED
        BY <3>1, <3>2
    <2>9. Begun(u)
      <3>1. \A o \in Due : (o[1] <= g.turn => o[1] <= t) /\ (o[1] = t => o[1] <= t)
        BY <1>1, DueIs DEF t
      <3>2. QED
        BY <2>5, <2>8, <3>1 DEF Well, Begun
    <2>10. QED
      BY <1>3, <2>5, <2>6, <2>7, <2>8, <2>9 DEF Well, t, u
  <1>4. QED
    BY <1>2, <1>3

LEMMA AdvanceIs ==
  ASSUME chain \in Chains, NEW g, Well(g)
  PROVE  /\ Well(Advance(g))
         /\ Advance(g).turn \in Nat /\ g.turn <= Advance(g).turn
         /\ Advance(g).turn > Len(chain) => Advance(g).fcs = g.fcs
  <1>1. g.turn \in Nat
    BY DEF Well, Golden
  <1>2. CASE OnlyFree(g.fcs)
    <2>1. Advance(g) = Update(g)
      BY <1>2 DEF Advance
    <2>2. /\ Well(Update(g)) /\ Update(g).turn = g.turn + 1
          /\ g.turn + 1 > Len(chain) => Update(g).fcs = g.fcs
      BY UpdateIs
    <2>3. QED
      BY <1>1, <2>1, <2>2
  <1>3. CASE ~OnlyFree(g.fcs)
    <2>1. Advance(g) = g
      BY <1>3 DEF Advance
    <2>2. QED
      BY <1>1, <2>1
  <1>4. QED
    BY <1>2, <1>3

-----------------------------------------------------------------------------
(* The required calls                                                      *)

(* What is taken out of the lists and counted as matched.                  *)
LEMMA SharesTaken ==
  ASSUME NEW g, Well(g), NEW T, Shares(g, T), NEW I \in SUBSET (1..Len(g.fcs))
  PROVE  Shares(Keep(g, I), T \cup (ToSet(g.obs) \ ToSet(Keep(g, I).obs)))
  <1> DEFINE k == Keep(g, I)
  <1>1. k.turn = g.turn /\ ToSet(k.obs) = {g.obs[i] : i \in I}
    BY KeepIs
  <1>2. ToSet(k.obs) \subseteq ToSet(g.obs)
    <2>1. g.obs \in Seq(Nat \X Nat) /\ Len(g.obs) = Len(g.fcs)
      BY DEF Well, Golden, Paired, InPairs
    <2>2. \A i \in I : g.obs[i] \in ToSet(g.obs)
      BY <2>1 DEF ToSet
    <2>3. QED
      BY <1>1, <2>2
  <1> HIDE DEF k
  <1>3. Shares(k, T \cup (ToSet(g.obs) \ ToSet(k.obs)))
    BY <1>1, <1>2 DEF Shares
  <1>4. QED
    BY <1>3 DEF k

(* Optional calls may be taken out.                                        *)
LEMMA SharesKept ==
  ASSUME NEW g, Well(g), NEW T, Shares(g, T), NEW I \in SUBSET (1..Len(g.fcs)),
         \A i \in 1..Len(g.fcs) : i \in I \/ Optional(g.fcs[i])
  PROVE  Shares(Keep(g, I), T)
  <1> DEFINE k == Keep(g, I)
  <1>1. k.turn = g.turn /\ ToSet(k.obs) = {g.obs[i] : i \in I}
    BY KeepIs
  <1>2. /\ g.obs \in Seq(Nat \X Nat) /\ Len(g.obs) = Len(g.fcs)
        /\ \A i \in 1..Len(g.fcs) : g.fcs[i] = CallAt(g.obs[i])
    BY DEF Well, Golden, Paired, InPairs
  <1>3. ToSet(k.obs) \cap Required = ToSet(g.obs) \cap Required
    <2>1. \A o \in ToSet(g.obs) : \E i \in 1..Len(g.fcs) : o = g.obs[i]
      <3>1. DOMAIN g.obs = 1..Len(g.fcs)
        BY <1>2
      <3>2. QED
        BY <3>1, Zenon DEF ToSet
    <2>2. \A i \in 1..Len(g.fcs) : g.obs[i] \in Required => i \in I
      BY <1>2 DEF Required
    <2>3. \A i \in I : g.obs[i] \in ToSet(g.obs)
      BY <1>2 DEF ToSet
    <2> HIDE DEF k
    <2>4. QED
      BY <1>1, <2>1, <2>2, <2>3
  <1> HIDE DEF k
  <1>4. Shares(k, T)
    BY <1>1, <1>3 DEF Shares
  <1>5. QED
    BY <1>4 DEF k

(* A turn that begins brings its required calls, none of them matched yet. *)
LEMMA SharesUpdate ==
  ASSUME chain \in Chains, NEW g, Well(g), NEW T, Shares(g, T), T \subseteq Due,
         \A o \in T : o[1] <= g.turn
  PROVE  Shares(Update(g), T)
  <1> DEFINE u == Update(g)
             n == g.turn
  <1>1. n \in Nat /\ u.turn = n + 1 /\ ToSet(u.obs) = ToSet(g.obs) \cup {o \in Due : o[1] = n + 1}
    BY UpdateIs DEF Well, Golden
  <1>2. Required \subseteq Due /\ \A o \in Due : o[1] \in Nat
    BY DueIs DEF Required
  <1> HIDE DEF u, n
  <1>3. \A o \in Due : o[1] <= n + 1 <=> o[1] <= n \/ o[1] = n + 1
    BY <1>1, <1>2
  <1>4. \A o \in T : ~(o[1] = n + 1)
    BY <1>1, <1>2 DEF n
  <1>5. {o \in Required : o[1] <= n} \ T = ToSet(g.obs) \cap Required
    BY DEF Shares, n
  <1>6. {o \in Required : o[1] <= n + 1} \ T = ToSet(u.obs) \cap Required
    BY <1>1, <1>2, <1>3, <1>4, <1>5
  <1>7. QED
    BY <1>1, <1>6 DEF Shares, u

LEMMA SharesAdvance ==
  ASSUME chain \in Chains, NEW g, Well(g), NEW T, Shares(g, T), T \subseteq Due,
         \A o \in T : o[1] <= g.turn
  PROVE  Shares(Advance(g), T)
  BY SharesUpdate DEF Advance

-----------------------------------------------------------------------------
(* Calls counted and popped by value                                       *)

LEMMA RankIs ==
  ASSUME NEW S, NEW s \in Seq(S), NEW i \in 1..Len(s)
  PROVE  /\ Rank(s, i) \in Nat /\ Rank(s, i) > 0
         /\ Count(s, s[i]) \in Nat /\ Rank(s, i) <= Count(s, s[i])
  <1> DEFINE R == {j \in 1..i : s[j] = s[i]}
             C == {j \in DOMAIN s : s[j] = s[i]}
  <1>1. Len(s) \in Nat /\ DOMAIN s = 1..Len(s) /\ i \in Nat
    OBVIOUS
  <1>2. C \in SUBSET (1..Len(s))
    BY <1>1
  <1>3. R \in SUBSET C /\ R # {}
    <2>1. \A j \in 1..i : j \in DOMAIN s
      BY <1>1
    <2>2. i \in R
      BY <1>1
    <2>3. QED
      BY <2>1, <2>2
  <1> HIDE DEF R, C
  <1>4. IsFiniteSet(C) /\ Cardinality(C) \in Nat
    BY <1>1, <1>2, PlacesFinite
  <1>5. IsFiniteSet(R) /\ Cardinality(R) <= Cardinality(C)
    BY <1>3, <1>4, FS_Subset
  <1>6. Cardinality(R) \in Nat /\ Cardinality(R) # 0
    BY <1>3, <1>5, FS_EmptySet, FS_CardinalityType
  <1>7. QED
    BY <1>4, <1>5, <1>6 DEF Rank, Count, R, C

(* A call that is not there twice is in one place.                         *)
LEMMA OncePlace ==
  ASSUME NEW S, NEW s \in Seq(S), NEW j \in 1..Len(s), ~(Count(s, s[j]) > 1)
  PROVE  \A i \in 1..Len(s) : s[i] = s[j] => i = j
  <1> DEFINE C == {i \in DOMAIN s : s[i] = s[j]}
  <1>1. Len(s) \in Nat /\ DOMAIN s = 1..Len(s)
    OBVIOUS
  <1>2. C \in SUBSET (1..Len(s)) /\ j \in C
    BY <1>1
  <1>3. SUFFICES ASSUME NEW i \in 1..Len(s), s[i] = s[j], i # j PROVE FALSE
    OBVIOUS
  <1>4. {i, j} \in SUBSET C
    BY <1>1, <1>3
  <1>5. Count(s, s[j]) = Cardinality(C)
    BY DEF Count
  <1> HIDE DEF C
  <1>6. IsFiniteSet(C) /\ Cardinality(C) \in Nat
    BY <1>1, <1>2, PlacesFinite
  <1>7. Cardinality({i, j}) = 2
    <2>1. IsFiniteSet({i}) /\ Cardinality({i}) = 1
      BY FS_Singleton
    <2>2. Cardinality({i} \cup {j}) = 2
      <3>1. j \notin {i}
        BY <1>3
      <3>2. Cardinality({i} \cup {j}) = Cardinality({i}) + 1
        BY <2>1, <3>1, FS_AddElement
      <3>3. QED
        BY <2>1, <3>2
    <2>3. {i} \cup {j} = {i, j}
      OBVIOUS
    <2>4. QED
      BY <2>2, <2>3
  <1>8. Cardinality({i, j}) <= Cardinality(C)
    BY <1>4, <1>6, FS_Subset
  <1>9. QED
    BY <1>5, <1>6, <1>7, <1>8

(* When no marked call is there twice, popping by value takes marked calls *)
(* only.                                                                   *)
LEMMA UnpoppedHas ==
  ASSUME NEW S, NEW s \in Seq(S), NEW C, \A c \in C : ~(Count(s, c) > 1),
         NEW p \in 1..Len(s), s[p] \notin C
  PROVE  p \in Unpopped(s, C)
  <1> DEFINE at == Pops(s, C)
  <1>1. Len(s) \in Nat /\ DOMAIN s = 1..Len(s) /\ p \in Nat
    OBVIOUS
  <1>2. DOMAIN at = {k \in DOMAIN s : s[k] \in C}
    BY DEF Pops
  <1>3. ASSUME NEW j \in DOMAIN at PROVE at[j] = j /\ j # p /\ j \in Nat
    <2>1. j \in 1..Len(s) /\ s[j] \in C /\ j \in Nat
      BY <1>1, <1>2
    <2>2. at[j] = FirstAt(s, s[j])
      BY <1>2 DEF Pops
    <2>3. {i \in DOMAIN s : s[i] = s[j]} = {j}
      <3>1. \A i \in 1..Len(s) : s[i] = s[j] => i = j
        BY <2>1, OncePlace
      <3>2. QED
        BY <1>1, <2>1, <3>1
    <2>4. Min({j}) = j
      <3>1. {j} \subseteq Nat /\ {j} # {}
        BY <2>1
      <3>2. Min({j}) \in {j}
        BY <3>1, MinIs
      <3>3. QED
        BY <3>2
    <2>5. QED
      BY <2>1, <2>2, <2>3, <2>4 DEF FirstAt
  <1> HIDE DEF at
  <1>4. ASSUME NEW i \in 1..p
        PROVE  Cardinality({j \in DOMAIN at : at[j] \in i..p}) <= p - i
    <2> DEFINE P == {j \in DOMAIN at : at[j] \in i..p}
    <2>1. i \in Int /\ p - 1 \in Int /\ i <= (p - 1) + 1
      BY <1>1
    <2>2. P \subseteq i..(p - 1)
      <3>1. ASSUME NEW j \in P PROVE j \in i..(p - 1)
        <4>1. j \in DOMAIN at /\ at[j] \in i..p
          OBVIOUS
        <4>2. j \in i..p /\ j # p
          BY <1>3, <4>1
        <4>3. QED
          BY <1>1, <4>2
      <3>2. QED
        BY <3>1
    <2> HIDE DEF P
    <2>3. Cardinality(P) <= (p - 1) - i + 1
      BY <2>1, <2>2, IntervalFinite
    <2>4. Cardinality(P) <= p - i
      BY <1>1, <2>3
    <2>5. QED
      BY <2>4 DEF P
  <1>5. Stays(at, p)
    BY <1>4 DEF Stays
  <1>6. QED
    BY <1>1, <1>5 DEF Unpopped, at

(* Only free calls are marked.                                             *)
LEMMA FreeMarked ==
  ASSUME NEW g, g \in Golden, NEW m \in ExactMatches(g), predict \in Seq(Calls),
         NEW i \in 1..Len(m), m[i] = AsFree
  PROVE  i \in 1..Len(predict) /\ predict[i] \in FreeCalls
  <1> DEFINE M    == {m[j] : j \in 1..(i - 1)}
             same == {j \in 1..Len(g.fcs) \ M : g.fcs[j] = predict[i]}
  <1>1. Len(predict) \in Nat /\ Len(g.fcs) \in Nat
    BY DEF Golden
  <1>2. DOMAIN m = 1..Len(predict) /\ Len(m) = Len(predict)
    BY <1>1 DEF ExactMatches
  <1>3. i \in 1..Len(predict) /\ m[i] = Exact(g, M, predict[i])
    BY <1>2 DEF ExactMatches
  <1>4. ASSUME predict[i] \notin FreeCalls PROVE FALSE
    <2>1. m[i] = IF same = {} THEN Unmatched ELSE Min(same)
      BY <1>3, <1>4 DEF Exact
    <2>2. same \subseteq Nat
      BY <1>1
    <2> HIDE DEF same
    <2>3. same # {} => Min(same) \in Nat
      BY <2>2, MinIs
    <2>4. QED
      BY <2>1, <2>3 DEF AsFree, Unmatched
  <1>5. QED
    BY <1>3, <1>4

-----------------------------------------------------------------------------
(* What each of the two methods does to the golden lists                   *)

(* remove_called_fc: past it, what is due is as required as it was.        *)
LEMMA RemoveCalledIs ==
  ASSUME NEW g, Well(g), called \subseteq FreeCalls, NEW T
  PROVE  /\ Well(RemoveCalled(g)) /\ RemoveCalled(g).turn = g.turn
         /\ ToSet(RemoveCalled(g).obs) \subseteq ToSet(g.obs)
         /\ (\A c \in called : ~(Count(g.fcs, c) > 1))
            => /\ Shares(g, T) => Shares(RemoveCalled(g), T)
               /\ RemoveCalled(g).fcs = <<>> => \A i \in 1..Len(g.fcs) : g.fcs[i] \in called
  <1> DEFINE I == Unpopped(g.fcs, called)
             r == RemoveCalled(g)
  <1>1. /\ g.fcs \in Seq(Call) /\ g.obs \in Seq(Nat \X Nat) /\ Len(g.obs) = Len(g.fcs)
        /\ DOMAIN g.fcs = 1..Len(g.fcs)
    BY DEF Well, Golden, Paired, InPairs
  <1>2. I \in SUBSET (1..Len(g.fcs))
    BY <1>1 DEF Unpopped
  <1>3. r = Keep(g, I)
    BY DEF RemoveCalled
  <1> HIDE DEF I, r
  <1>4. /\ Well(r) /\ r.turn = g.turn /\ ToSet(r.obs) = {g.obs[i] : i \in I}
        /\ r.fcs = <<>> => I = {}
    BY <1>2, <1>3, KeepIs
  <1>5. ToSet(r.obs) \subseteq ToSet(g.obs)
    <2>1. \A i \in I : g.obs[i] \in ToSet(g.obs)
      BY <1>1, <1>2 DEF ToSet
    <2>2. QED
      BY <1>4, <2>1
  <1>6. ASSUME \A c \in called : ~(Count(g.fcs, c) > 1)
        PROVE  /\ Shares(g, T) => Shares(r, T)
               /\ r.fcs = <<>> => \A i \in 1..Len(g.fcs) : g.fcs[i] \in called
    <2>1. \A i \in 1..Len(g.fcs) : i \in I \/ g.fcs[i] \in called
      BY <1>1, <1>6, UnpoppedHas DEF I
    <2>2. \A i \in 1..Len(g.fcs) : i \in I \/ Optional(g.fcs[i])
      BY <2>1 DEF FreeCalls, Optional
    <2>3. Shares(g, T) => Shares(r, T)
      BY <1>2, <1>3, <2>2, SharesKept
    <2>4. QED
      BY <1>4, <2>1, <2>3
  <1>7. QED
    BY <1>4, <1>5, <1>6 DEF r

(* process_matches: the matched calls go, the turn ends, marked calls go.  *)
LEMMA ProcessMatchesIs ==
  ASSUME chain \in Chains, NEW g, Well(g), NEW success, ProcessMatches(g, success),
         called' \subseteq FreeCalls, taken \subseteq Due, \A o \in taken : o[1] <= g.turn,
         ~doubled => Shares(g, taken), doubled \in BOOLEAN
  PROVE  /\ Well(golden') /\ doubled' \in BOOLEAN
         /\ taken' \subseteq Due /\ \A o \in taken' : o[1] <= golden'.turn
         /\ ~doubled' => /\ Shares(golden', taken')
                         /\ \A c \in called' : ~(Count(golden'.fcs, c) > 1)
                         /\ golden'.turn > Len(chain) => ToSet(golden'.fcs) \cap called' = {}
  <1> DEFINE rest == Unmatch(g, success)
             next == IF DOMAIN success = {} THEN rest ELSE Update(rest)
             left == Without(next, [c \in ToSet(next.fcs) |-> IF c \in called' THEN 1 ELSE 0])
             I    == {i \in 1..Len(g.fcs) : Rank(g.fcs, i) > Count(success, g.fcs[i])}
             J    == {i \in 1..Len(next.fcs) :
                        Rank(next.fcs, i) > IF next.fcs[i] \in called' THEN 1 ELSE 0}
  <1>1. /\ golden' = Advance(left)
        /\ taken' = taken \cup (ToSet(g.obs) \ ToSet(rest.obs))
        /\ doubled' = (doubled \/ \E c \in called' : Count(next.fcs, c) > 1 \/ Count(golden'.fcs, c) > 1)
    BY Zenon DEF ProcessMatches
  <1>2. rest = Keep(g, I)
    <2>1. \A i \in 1..Len(g.fcs) : g.fcs[i] \in ToSet(g.fcs)
      BY DEF ToSet, Well, Golden
    <2>2. QED
      BY <2>1 DEF Unmatch, Without
  <1> HIDE DEF rest, I
  <1>3. /\ Well(rest) /\ rest.turn = g.turn /\ g.turn \in Nat
        /\ ~doubled => Shares(rest, taken')
    BY <1>1, <1>2, KeepIs, SharesTaken DEF I, Well, Golden
  <1>4. taken' \subseteq Due /\ \A o \in taken' : o[1] <= g.turn
    BY <1>1 DEF Well, Begun
  <1>5. /\ Well(next) /\ g.turn <= next.turn /\ next.turn \in Nat
        /\ ~doubled => Shares(next, taken')
    <2>1. CASE DOMAIN success = {}
      BY <1>3, <2>1
    <2>2. CASE DOMAIN success # {}
      <3>1. Well(Update(rest)) /\ Update(rest).turn = rest.turn + 1
        BY <1>3, UpdateIs
      <3>2. ~doubled => Shares(Update(rest), taken')
        BY <1>3, <1>4, SharesUpdate
      <3>3. QED
        BY <1>3, <2>2, <3>1, <3>2
    <2>3. QED
      BY <2>1, <2>2
  <1>6. /\ next.fcs \in Seq(Call)
        /\ \A i \in 1..Len(next.fcs) : next.fcs[i] \in ToSet(next.fcs)
    BY <1>5 DEF ToSet, Well, Golden
  <1> HIDE DEF next
  <1>7. left = Keep(next, J)
    BY <1>6 DEF Without
  <1> HIDE DEF left
  <1>8. J \in SUBSET (1..Len(next.fcs))
    OBVIOUS
  <1>9. /\ Well(left) /\ left.turn = next.turn
        /\ ToSet(left.fcs) = {next.fcs[i] : i \in J}
    BY <1>5, <1>7, <1>8, KeepIs
  <1>10. ~doubled => Shares(left, taken')
    <2>1. \A i \in 1..Len(next.fcs) : i \in J \/ next.fcs[i] \in called'
      BY <1>6, RankIs
    <2>2. \A i \in 1..Len(next.fcs) : i \in J \/ Optional(next.fcs[i])
      BY <2>1 DEF FreeCalls, Optional
    <2> HIDE DEF J
    <2>3. QED
      BY <1>5, <1>7, <1>8, <2>2, SharesKept
  <1>11. /\ Well(golden') /\ golden'.turn \in Nat /\ left.turn <= golden'.turn
         /\ golden'.turn > Len(chain) => golden'.fcs = left.fcs
    BY <1>1, <1>9, AdvanceIs
  <1>12. \A o \in taken' : o[1] <= golden'.turn
    BY <1>3, <1>4, <1>5, <1>9, <1>11, DueIs
  <1>13. ~doubled => Shares(golden', taken')
    <2>1. \A o \in taken' : o[1] <= left.turn
      BY <1>3, <1>4, <1>5, <1>9, DueIs
    <2>2. QED
      BY <1>1, <1>4, <1>9, <1>10, <2>1, SharesAdvance
  <1>14. ASSUME ~doubled'
         PROVE  /\ ~doubled /\ \A c \in called' : ~(Count(golden'.fcs, c) > 1)
                /\ ToSet(left.fcs) \cap called' = {}
    <2>1. /\ ~doubled
          /\ \A c \in called' : ~(Count(next.fcs, c) > 1) /\ ~(Count(golden'.fcs, c) > 1)
      BY <1>1, <1>14, Zenon
    <2>2. ASSUME NEW i \in J PROVE next.fcs[i] \notin called'
      BY <1>6, <2>1, RankIs
    <2>3. QED
      BY <1>9, <2>1, <2>2
  <1>15. doubled' \in BOOLEAN
    BY <1>1
  <1>16. QED
    BY <1>4, <1>11, <1>12, <1>13, <1>14, <1>15

-----------------------------------------------------------------------------
(* The invariant is inductive                                              *)

LEMMA SameChain ==
  ASSUME UNCHANGED chain
  PROVE  /\ Due' = Due /\ Required' = Required /\ FreeCalls' = FreeCalls /\ Calls' = Calls
         /\ \A o : CallAt(o)' = CallAt(o)
  <1>1. Due' = Due
    BY DEF Due, Places
  <1>2. \A o : CallAt(o)' = CallAt(o)
    BY DEF CallAt
  <1>3. Required' = Required
    BY <1>1, <1>2 DEF Required
  <1>4. FreeCalls' = FreeCalls /\ Calls' = Calls
    BY DEF FreeCalls, Calls
  <1>5. QED
    BY <1>1, <1>2, <1>3, <1>4

LEMMA InitInv == Init => IInv
  <1> SUFFICES ASSUME Init PROVE IInv
    OBVIOUS
  <1> DEFINE g == [turn |-> 1, fcs |-> chain[1], obs |-> Places(1)]
  <1>1. /\ chain \in Chains /\ golden = Advance(g) /\ called = {} /\ taken = {} /\ doubled = FALSE
        /\ rounds = 0 /\ attempt = 0 /\ predict = <<>> /\ err = FALSE /\ outcome = "none"
    BY DEF Init
  <1>2. 1 \in 1..Len(chain)
    BY <1>1, ChainIs
  <1>3. /\ chain[1] \in Seq(Call) /\ Places(1) \in Seq(Nat \X Nat)
        /\ InPairs(chain[1], Places(1)) /\ ToSet(Places(1)) = {o \in Due : o[1] = 1}
    BY <1>1, <1>2, ChainIs, PlacesAre, DueIs DEF InPairs
  <1>4. g.turn = 1 /\ g.fcs = chain[1] /\ g.obs = Places(1)
    OBVIOUS
  <1>5. g \in Golden
    BY <1>3 DEF Golden
  <1> HIDE DEF g
  <1>6. Well(g)
    BY <1>3, <1>4, <1>5 DEF Well, Paired, Begun
  <1>7. Shares(g, {})
    <2>1. \A o \in Due : o[1] <= 1 <=> o[1] = 1
      BY <1>1, DueIs
    <2>2. QED
      BY <1>3, <1>4, <2>1 DEF Shares, Required
  <1>8. Well(golden) /\ Shares(golden, taken)
    BY <1>1, <1>6, <1>7, AdvanceIs, SharesAdvance
  <1>9. TypeOK
    <2>1. rounds \in 0..MaxRounds /\ attempt \in 0..Attempts
      BY <1>1, ChainConstants
    <2>2. golden \in Golden /\ called \subseteq FreeCalls /\ taken \subseteq Due /\ predict \in Seq(Calls)
      BY <1>1, <1>8 DEF Well
    <2>3. QED
      BY <1>1, <2>1, <2>2 DEF TypeOK
  <1>10. InTurn
    BY <1>1, <1>8 DEF InTurn, Well, Begun
  <1>11. MarkedOnce /\ Comparing
    BY <1>1 DEF MarkedOnce, Comparing
  <1>12. Aligned /\ GoldenConserved /\ SuccessMeansDone
    BY <1>1, <1>8 DEF Aligned, GoldenConserved, Conserved, SuccessMeansDone, Well, Paired, InPairs, Shares
  <1>13. QED
    BY <1>9, <1>10, <1>11, <1>12 DEF IInv

(* While the episode lasts the golden lists are well, and share out the    *)
(* required calls with what was matched.                                   *)
LEMMA GoldenWell ==
  ASSUME IInv, outcome = "none"
  PROVE  Well(golden) /\ (~doubled => Shares(golden, taken))
  BY DEF IInv, TypeOK, InTurn, Aligned, GoldenConserved, Conserved, Well, Paired, InPairs, Begun, Shares

(* Most steps leave the lists alone.                                       *)
LEMMA QuietStep ==
  ASSUME IInv, UNCHANGED <<chain, golden, called, history>>, outcome = "none",
         outcome' # "success"
  PROVE  InTurn' /\ MarkedOnce' /\ Aligned' /\ GoldenConserved' /\ SuccessMeansDone'
  <1>1. UNCHANGED <<chain, golden, called, taken, doubled>>
    BY DEF history
  <1>2. /\ Due' = Due /\ Required' = Required
        /\ \A o : CallAt(o)' = CallAt(o)
    BY <1>1, SameChain
  <1>3. InTurn'
    BY <1>1, <1>2 DEF IInv, InTurn
  <1>4. MarkedOnce'
    BY <1>1 DEF IInv, MarkedOnce
  <1>5. Aligned'
    BY <1>1 DEF IInv, Aligned, CallAt
  <1>6. GoldenConserved'
    BY <1>1, <1>2 DEF IInv, GoldenConserved, Conserved
  <1>7. SuccessMeansDone'
    BY DEF SuccessMeansDone
  <1>8. QED
    BY <1>3, <1>4, <1>5, <1>6, <1>7

(* return_result: an end, with success only when nothing required is left. *)
LEMMA StopIs ==
  ASSUME chain \in Chains, NEW g, Well(g), Stop(g), ~doubled => Shares(g, taken)
  PROVE  /\ golden' \in Golden /\ golden'.obs = g.obs /\ golden'.turn = g.turn
         /\ outcome' \in {"success", "stop_early"}
         /\ outcome' = "success" =>
              /\ g.turn > Len(chain)
              /\ ~doubled => Required \subseteq taken
  <1> DEFINE I    == {i \in 1..Len(g.fcs) : ~DroppedAtEnd(g.fcs[i])}
             rest == Subseq(g.fcs, I)
  <1>1. /\ g \in Golden /\ g.turn \in Nat /\ Len(chain) \in Nat
        /\ g.fcs \in Seq(Call) /\ g.obs \in Seq(Nat \X Nat) /\ Len(g.obs) = Len(g.fcs)
        /\ \A i \in 1..Len(g.fcs) : g.fcs[i] = CallAt(g.obs[i])
    BY ChainIs DEF Well, Golden, Paired, InPairs
  <1>2. /\ golden' = [g EXCEPT !.fcs = rest]
        /\ outcome' = IF g.turn <= Len(chain) \/ rest # <<>> THEN "stop_early" ELSE "success"
    BY DEF Stop, Return
  <1>3. rest \in Seq(Call)
    <2>1. I \in SUBSET (1..Len(g.fcs))
      OBVIOUS
    <2> HIDE DEF I
    <2>2. QED
      BY <1>1, <2>1, SubseqSeq
  <1> HIDE DEF rest
  <1>4. golden' \in Golden /\ golden'.obs = g.obs /\ golden'.turn = g.turn
    BY <1>1, <1>2, <1>3 DEF Golden
  <1>5. ASSUME outcome' = "success", ~doubled
        PROVE  Required \subseteq taken
    <2>1. g.turn > Len(chain) /\ rest = <<>>
      BY <1>1, <1>2, <1>5
    <2>2. I = {}
      <3>1. I \in SUBSET (1..Len(g.fcs))
        OBVIOUS
      <3> HIDE DEF I
      <3>2. QED
        BY <1>1, <2>1, <3>1, SubseqEmpty DEF rest
    <2>3. \A i \in 1..Len(g.fcs) : Optional(CallAt(g.obs[i]))
      BY <1>1, <2>2 DEF DroppedAtEnd, DroppedFunctions, Optional
    <2>4. ToSet(g.obs) \cap Required = {}
      <3>1. DOMAIN g.obs = 1..Len(g.fcs)
        BY <1>1
      <3>2. QED
        BY <2>3, <3>1 DEF ToSet, Required
    <2>5. \A o \in Required : o[1] <= g.turn
      BY <1>1, <2>1, DueIs DEF Required
    <2>6. QED
      BY <1>5, <2>4, <2>5 DEF Shares
  <1>6. QED
    BY <1>1, <1>2, <1>4, <1>5

LEMMA SmallStep ==
  ASSUME IInv, TooManyRounds \/ Request \/ RequestFails \/ Empty \/ CallTools \/ Raises
  PROVE  IInv'
  <1>1. /\ UNCHANGED <<chain, golden, called, history>> /\ outcome = "none" /\ outcome' # "success"
        /\ err' = err
    BY DEF TooManyRounds, Request, RequestFails, Empty, CallTools, Raises, Replies, Return
  <1>2. InTurn' /\ MarkedOnce' /\ Aligned' /\ GoldenConserved' /\ SuccessMeansDone'
    BY <1>1, QuietStep
  <1>3. UNCHANGED <<chain, golden, called, taken, doubled>>
    BY <1>1 DEF history
  <1>4. Due' = Due /\ FreeCalls' = FreeCalls /\ Calls' = Calls
    BY <1>3, SameChain
  <1>5. MaxRounds \in Nat /\ Attempts \in Nat /\ Attempts > 0
    BY ChainConstants
  <1>6. rounds' \in 0..MaxRounds
    BY <1>5 DEF TooManyRounds, Request, RequestFails, Empty, CallTools, Raises, Replies, IInv, TypeOK
  <1>7. attempt' \in 0..Attempts
    BY <1>5 DEF TooManyRounds, Request, RequestFails, Empty, CallTools, Raises, Replies, IInv, TypeOK
  <1>8. /\ predict' \in Seq(Calls)
        /\ outcome' = "none" /\ predict' # <<>> => golden.fcs # <<>>
        /\ outcome' = "none" /\ attempt' > 0 => predict' = <<>>
    <2>1. CASE CallTools
      <3>1. outcome = "none" /\ attempt > 0 /\ predict = <<>> /\ attempt' = 0 /\ predict \in Seq(Calls)
        BY <2>1 DEF CallTools, Replies, IInv, TypeOK, Comparing
      <3>2. \/ UNCHANGED predict
            \/ golden.fcs # <<>> /\ \E n \in 1..Parallel : predict' \in [1..n -> Calls]
        BY <2>1 DEF CallTools
      <3>3. ASSUME NEW n \in 1..Parallel, predict' \in [1..n -> Calls] PROVE predict' \in Seq(Calls)
        <4>1. n \in Nat
          BY ChainConstants
        <4>2. QED
          BY <3>3, <4>1
      <3>4. predict' \in Seq(Calls)
        BY <3>1, <3>2, <3>3
      <3>5. QED
        BY <3>1, <3>2, <3>4
    <2>2. CASE TooManyRounds \/ Request \/ RequestFails \/ Empty \/ Raises
      <3>1. UNCHANGED predict /\ (predict # <<>> => UNCHANGED attempt \/ outcome' # "none")
        BY <2>2 DEF TooManyRounds, Request, RequestFails, Empty, Raises, Replies, Return, IInv, Comparing
      <3>2. QED
        BY <1>1, <3>1 DEF IInv, TypeOK, Comparing
    <2>3. QED
      BY <2>1, <2>2
  <1>9. outcome' \in {"none", "success", "stop_early", "max_rounds", "mismatch", "unknown_error",
                     "func_hallucination", "decode_error", "exception"}
    BY <1>1 DEF TooManyRounds, Request, RequestFails, Empty, CallTools, Raises, Replies, Return
  <1>10. TypeOK'
    BY <1>1, <1>3, <1>4, <1>6, <1>7, <1>8, <1>9 DEF IInv, TypeOK
  <1>11. Comparing'
    BY <1>3, <1>8 DEF Comparing
  <1>12. QED
    BY <1>2, <1>10, <1>11 DEF IInv

(* An end by return_result, from an answer or with nothing left to match.  *)
LEMMA StopStep ==
  ASSUME IInv, outcome = "none", NEW g, Well(g), g.turn = golden.turn,
         ToSet(g.obs) \subseteq ToSet(golden.obs), ~doubled => Shares(g, taken), Stop(g),
         UNCHANGED <<chain, called, rounds, predict, history>>, attempt' \in 0..Attempts, err' \in BOOLEAN,
         g.turn > Len(chain) /\ ~doubled /\ outcome' = "success" => predict = <<>>
  PROVE  IInv'
  <1>1. UNCHANGED <<chain, called, rounds, predict, taken, doubled>>
    BY DEF history
  <1>2. /\ Due' = Due /\ Required' = Required /\ FreeCalls' = FreeCalls /\ Calls' = Calls
    BY <1>1, SameChain
  <1>3. /\ golden' \in Golden /\ golden'.obs = g.obs /\ golden'.turn = g.turn
        /\ outcome' \in {"success", "stop_early"}
        /\ outcome' = "success" => /\ g.turn > Len(chain)
                                   /\ ~doubled => Required \subseteq taken
    BY StopIs DEF IInv, TypeOK
  <1>4. TypeOK'
    BY <1>1, <1>2, <1>3 DEF IInv, TypeOK
  <1>5. InTurn'
    BY <1>1, <1>2, <1>3 DEF IInv, InTurn
  <1>6. MarkedOnce' /\ Comparing' /\ Aligned'
    BY <1>3 DEF MarkedOnce, Comparing, Aligned
  <1>7. GoldenConserved'
    BY <1>1, <1>2, <1>3 DEF GoldenConserved, Conserved, Shares
  <1>8. SuccessMeansDone'
    <2>1. ASSUME outcome' = "success", ~doubled PROVE Required \subseteq taken /\ predict = <<>>
      <3>1. g.turn > Len(chain) /\ Required \subseteq taken
        BY <1>3, <2>1
      <3>2. QED
        BY <2>1, <3>1
    <2>2. QED
      BY <1>1, <1>2, <2>1 DEF SuccessMeansDone
  <1>9. QED
    BY <1>4, <1>5, <1>6, <1>7, <1>8 DEF IInv

LEMMA AnswerStep == ASSUME IInv, Answer PROVE IInv'
  <1>1. /\ outcome = "none" /\ attempt > 0 /\ attempt' = 0
        /\ UNCHANGED <<chain, called, rounds, err, predict, history>>
    BY DEF Answer, Replies
  <1>2. predict = <<>> /\ Well(golden) /\ (~doubled => Shares(golden, taken))
    BY <1>1, GoldenWell DEF IInv, Comparing
  <1>3. attempt' \in 0..Attempts /\ err' \in BOOLEAN
    BY <1>1, ChainConstants DEF IInv, TypeOK
  <1>4. CASE err
    <2>1. outcome' = "mismatch" /\ UNCHANGED golden
      BY <1>4 DEF Answer, Return
    <2>2. InTurn' /\ MarkedOnce' /\ Aligned' /\ GoldenConserved' /\ SuccessMeansDone'
      BY <1>1, <2>1, QuietStep
    <2>3. UNCHANGED <<chain, golden, called, taken, doubled>>
      BY <1>1, <2>1 DEF history
    <2>4. Due' = Due /\ FreeCalls' = FreeCalls /\ Calls' = Calls
      BY <2>3, SameChain
    <2>5. TypeOK'
      BY <1>1, <1>3, <2>1, <2>3, <2>4 DEF IInv, TypeOK
    <2>6. Comparing'
      BY <2>1 DEF Comparing
    <2>7. QED
      BY <2>2, <2>5, <2>6 DEF IInv
  <1>5. CASE ~err
    <2>1. Stop(golden)
      BY <1>5 DEF Answer
    <2>2. UNCHANGED <<chain, called, rounds, predict, history>>
      BY <1>1
    <2>3. QED
      BY <1>1, <1>2, <1>3, <2>1, <2>2, StopStep
  <1>6. QED
    BY <1>4, <1>5

LEMMA NothingDueStep == ASSUME IInv, NothingDue PROVE IInv'
  <1> DEFINE g == RemoveCalled(golden)
  <1>1. /\ outcome = "none" /\ predict # <<>> /\ g.fcs = <<>> /\ err' = FALSE /\ Stop(g)
        /\ UNCHANGED <<chain, called, rounds, attempt, predict, history>>
    BY DEF NothingDue
  <1>2. Well(golden) /\ (~doubled => Shares(golden, taken)) /\ called \subseteq FreeCalls
    BY <1>1, GoldenWell DEF IInv, TypeOK
  <1>3. /\ Well(g) /\ g.turn = golden.turn /\ ToSet(g.obs) \subseteq ToSet(golden.obs)
        /\ (\A c \in called : ~(Count(golden.fcs, c) > 1))
           => /\ Shares(golden, taken) => Shares(g, taken)
              /\ g.fcs = <<>> => \A i \in 1..Len(golden.fcs) : golden.fcs[i] \in called
    BY <1>2, RemoveCalledIs
  <1> HIDE DEF g
  <1>4. ~doubled => \A c \in called : ~(Count(golden.fcs, c) > 1)
    BY <1>1 DEF IInv, MarkedOnce
  <1>5. ~doubled => Shares(g, taken)
    BY <1>2, <1>3, <1>4
  <1>6. ~(golden.turn > Len(chain) /\ ~doubled)
    <2> SUFFICES ASSUME golden.turn > Len(chain), ~doubled PROVE FALSE
      OBVIOUS
    <2>1. ToSet(golden.fcs) \cap called = {} /\ golden.fcs # <<>> /\ golden.fcs \in Seq(Call)
      BY <1>1, <1>2 DEF IInv, MarkedOnce, Comparing, Well, Golden
    <2>2. \A i \in 1..Len(golden.fcs) : golden.fcs[i] \in called
      BY <1>1, <1>3, <1>4
    <2>3. 1 \in 1..Len(golden.fcs) /\ golden.fcs[1] \in ToSet(golden.fcs)
      BY <2>1 DEF ToSet
    <2>4. QED
      BY <2>1, <2>2, <2>3
  <1>7. attempt' \in 0..Attempts /\ err' \in BOOLEAN
    BY <1>1 DEF IInv, TypeOK
  <1>8. UNCHANGED <<chain, called, rounds, predict, history>>
    BY <1>1
  <1>9. g.turn > Len(chain) /\ ~doubled /\ outcome' = "success" => predict = <<>>
    BY <1>3, <1>6
  <1>10. QED
    BY <1>1, <1>3, <1>5, <1>7, <1>8, <1>9, StopStep

(* A comparison ends the episode, with the marked calls removed, or goes   *)
(* on as process_matches leaves it.                                        *)
Ends(g)    == outcome' = "mismatch" /\ golden' = g /\ UNCHANGED <<predict, taken, doubled>>
GoesOn(g)  == /\ \E success : ProcessMatches(g, success)
              /\ predict' = <<>> /\ outcome' = "none"
DueFor(g)  == /\ Well(g) /\ g.turn = golden.turn /\ ToSet(g.obs) \subseteq ToSet(golden.obs)
              /\ ~doubled => Shares(g, taken)

LEMMA CompareIs ==
  ASSUME IInv, Compare
  PROVE  /\ outcome = "none" /\ UNCHANGED <<chain, rounds, attempt>>
         /\ called' \subseteq FreeCalls /\ err' \in BOOLEAN
         /\ \E g : DueFor(g) /\ (Ends(g) \/ GoesOn(g))
  <1> DEFINE Effect(h, success, unfit) ==
               IF DOMAIN success \cup unfit = {}
                 THEN /\ Return("mismatch")
                      /\ golden' = h
                      /\ UNCHANGED <<predict, history>>
                 ELSE /\ ProcessMatches(h, success)
                      /\ predict' = <<>>
                      /\ UNCHANGED outcome
             Outcome(h, m, a, matched, unfit, equal, success) ==
               /\ h.fcs # <<>>
               /\ called' = called \cup {predict[i] : i \in {k \in matched : m[k] = AsFree}}
               /\ err' = (DOMAIN a \ (equal \cup unfit) # {})
               /\ Effect(h, success, unfit)
  <1>1. /\ outcome = "none" /\ predict # <<>>
        /\ UNCHANGED <<chain, rounds, attempt>>
    BY DEF Compare
  <1> DEFINE Matching(h, m, a) ==
               \E matched \in {{k \in 1..Len(m) : m[k] # Unmatched}} :
               \E unfit \in {{i \in matched \cup DOMAIN a : Malformed(predict[i])}} :
               \E equal \in SUBSET {i \in DOMAIN a : Comparable(h, i, a[i])} :
               \E success \in {[i \in (matched \cup equal) \ unfit |->
                                 IF i \in equal THEN h.fcs[a[i]] ELSE predict[i]]} :
                 Outcome(h, m, a, matched, unfit, equal, success)
  <1>2. PICK g \in {RemoveCalled(golden)} :
          \E m \in ExactMatches(g) : \E a \in Alignments(g, m) : Matching(g, m, a)
    BY DEF Compare
  <1>3. g = RemoveCalled(golden)
    OBVIOUS
  <1>4. PICK m \in ExactMatches(g) : \E a \in Alignments(g, m) : Matching(g, m, a)
    <2> HIDE DEF Matching
    <2> QED BY <1>2
  <1>5. PICK a \in Alignments(g, m) : Matching(g, m, a)
    <2> HIDE DEF Matching
    <2> QED BY <1>4
  <1> HIDE DEF Outcome
  <1>14. PICK matched \in {{k \in 1..Len(m) : m[k] # Unmatched}} :
           \E unfit, equal, success : Outcome(g, m, a, matched, unfit, equal, success)
    BY <1>5, Zenon
  <1>15. PICK unfit, equal, success : Outcome(g, m, a, matched, unfit, equal, success)
    BY <1>14
  <1>6. /\ called' = called \cup {predict[i] : i \in {k \in matched : m[k] = AsFree}}
        /\ err' \in BOOLEAN
        /\ Effect(g, success, unfit)
    BY <1>15, Zenon DEF Outcome
  <1>7. /\ chain \in Chains /\ called \subseteq FreeCalls /\ taken \subseteq Due /\ doubled \in BOOLEAN
        /\ predict \in Seq(Calls) /\ \A o \in taken : o[1] <= golden.turn
        /\ rounds \in 0..MaxRounds /\ attempt \in 0..Attempts
    BY DEF IInv, TypeOK, InTurn
  <1>8. Well(golden) /\ (~doubled => Shares(golden, taken))
    BY <1>1, GoldenWell
  <1>9. ~doubled => \A c \in called : ~(Count(golden.fcs, c) > 1)
    BY <1>1 DEF IInv, MarkedOnce
  <1>10. /\ Well(g) /\ g.turn = golden.turn /\ ToSet(g.obs) \subseteq ToSet(golden.obs)
         /\ ~doubled => Shares(g, taken)
    BY <1>3, <1>7, <1>8, <1>9, RemoveCalledIs
  <1>11. called' \subseteq FreeCalls
    <2>1. g \in Golden
      BY <1>10 DEF Well
    <2>2. \A i \in 1..Len(m) : m[i] = AsFree => predict[i] \in FreeCalls
      BY <1>7, <2>1, FreeMarked
    <2>3. matched = {k \in 1..Len(m) : m[k] # Unmatched}
      OBVIOUS
    <2>4. QED
      BY <1>6, <1>7, <2>2, <2>3
  <1>12. DueFor(g) /\ (Ends(g) \/ GoesOn(g))
    <2>1. CASE DOMAIN success \cup unfit = {}
      BY <1>6, <1>10, <2>1 DEF Return, history, Ends, DueFor
    <2>2. CASE DOMAIN success \cup unfit # {}
      <3>1. ProcessMatches(g, success) /\ predict' = <<>> /\ outcome' = "none"
        BY <1>1, <1>6, <2>2
      <3>2. QED
        BY <1>10, <3>1, Zenon DEF DueFor, GoesOn
    <2>3. QED
      BY <2>1, <2>2
  <1>13. QED
    BY <1>1, <1>6, <1>11, <1>12

LEMMA CompareStep == ASSUME IInv, Compare PROVE IInv'
  <1>1. /\ outcome = "none" /\ UNCHANGED <<chain, rounds, attempt>>
        /\ called' \subseteq FreeCalls /\ err' \in BOOLEAN
    BY CompareIs
  <1>2. PICK g : DueFor(g) /\ (Ends(g) \/ GoesOn(g))
    BY CompareIs
  <1>3. /\ Well(g) /\ g.turn = golden.turn /\ ToSet(g.obs) \subseteq ToSet(golden.obs)
        /\ ~doubled => Shares(g, taken)
    BY <1>2 DEF DueFor
  <1>4. /\ chain \in Chains /\ taken \subseteq Due /\ doubled \in BOOLEAN
        /\ predict \in Seq(Calls) /\ \A o \in taken : o[1] <= golden.turn
        /\ rounds \in 0..MaxRounds /\ attempt \in 0..Attempts
    BY DEF IInv, TypeOK, InTurn
  <1>5. /\ Due' = Due /\ Required' = Required /\ FreeCalls' = FreeCalls /\ Calls' = Calls
        /\ \A o : CallAt(o)' = CallAt(o)
    BY <1>1, SameChain
  <1>6. CASE Ends(g)
    <2>1. /\ outcome' = "mismatch" /\ golden' = g
          /\ UNCHANGED <<predict, taken, doubled>>
      BY <1>6 DEF Ends
    <2>2. TypeOK'
      BY <1>1, <1>3, <1>4, <1>5, <2>1 DEF TypeOK, Well
    <2>3. InTurn'
      BY <1>3, <1>4, <1>5, <2>1 DEF InTurn, Well, Begun
    <2>4. MarkedOnce' /\ Comparing' /\ Aligned' /\ SuccessMeansDone'
      BY <2>1 DEF MarkedOnce, Comparing, Aligned, SuccessMeansDone
    <2>5. GoldenConserved'
      BY <1>3, <1>5, <2>1 DEF GoldenConserved, Conserved, Shares
    <2>6. QED
      BY <2>2, <2>3, <2>4, <2>5 DEF IInv
  <1>7. CASE GoesOn(g)
    <2>1. predict' = <<>> /\ outcome' = "none"
      BY <1>7 DEF GoesOn
    <2>2. \A o \in taken : o[1] <= g.turn
      BY <1>3, <1>4
    <2>3. /\ Well(golden') /\ doubled' \in BOOLEAN
          /\ taken' \subseteq Due /\ \A o \in taken' : o[1] <= golden'.turn
          /\ ~doubled' => /\ Shares(golden', taken')
                          /\ \A c \in called' : ~(Count(golden'.fcs, c) > 1)
                          /\ golden'.turn > Len(chain) => ToSet(golden'.fcs) \cap called' = {}
      <3>1. PICK success : ProcessMatches(g, success)
        BY <1>7 DEF GoesOn
      <3>2. QED
        BY <1>1, <1>3, <1>4, <2>2, <3>1, ProcessMatchesIs
    <2>4. TypeOK'
      BY <1>1, <1>4, <1>5, <2>1, <2>3 DEF TypeOK, Well
    <2>5. InTurn'
      BY <1>5, <2>3 DEF InTurn, Well, Begun
    <2>6. MarkedOnce'
      BY <1>1, <2>3 DEF MarkedOnce
    <2>7. Comparing' /\ SuccessMeansDone'
      BY <2>1 DEF Comparing, SuccessMeansDone
    <2>8. Aligned'
      BY <1>5, <2>3 DEF Aligned, Well, Paired, InPairs
    <2>9. GoldenConserved'
      BY <1>5, <2>3 DEF GoldenConserved, Conserved, Shares
    <2>10. QED
      BY <2>4, <2>5, <2>6, <2>7, <2>8, <2>9 DEF IInv
  <1>8. QED
    BY <1>2, <1>6, <1>7

LEMMA Stutter == ASSUME IInv, UNCHANGED vars PROVE IInv'
  <1>1. /\ UNCHANGED <<chain, golden, called, rounds, attempt, predict, err, outcome, taken, doubled>>
    BY DEF vars, history
  <1>2. /\ Due' = Due /\ Required' = Required /\ FreeCalls' = FreeCalls /\ Calls' = Calls
    BY <1>1, SameChain
  <1>3. TypeOK' /\ InTurn'
    BY <1>1, <1>2 DEF IInv, TypeOK, InTurn
  <1>4. MarkedOnce' /\ Comparing'
    BY <1>1 DEF IInv, MarkedOnce, Comparing
  <1>5. Aligned'
    BY <1>1 DEF IInv, Aligned, CallAt
  <1>6. GoldenConserved' /\ SuccessMeansDone'
    BY <1>1, <1>2 DEF IInv, GoldenConserved, Conserved, SuccessMeansDone
  <1>7. QED
    BY <1>3, <1>4, <1>5, <1>6 DEF IInv

(* The invariant holds, whatever the model under test and the judge do.    *)
THEOREM Invariance == Spec => []IInv
  <1>1. Init => IInv
    BY InitInv
  <1>2. ASSUME IInv, [Next]_vars PROVE IInv'
    <2>1. CASE TooManyRounds \/ Request \/ RequestFails \/ Empty \/ CallTools \/ Raises
      BY <1>2, <2>1, SmallStep
    <2>2. CASE Answer
      BY <1>2, <2>2, AnswerStep
    <2>3. CASE NothingDue
      BY <1>2, <2>3, NothingDueStep
    <2>4. CASE Compare
      BY <1>2, <2>4, CompareStep
    <2>5. CASE UNCHANGED vars
      BY <1>2, <2>5, Stutter
    <2>6. QED
      BY <1>2, <2>1, <2>2, <2>3, <2>4, <2>5 DEF Next
  <1>3. QED
    BY <1>1, <1>2, PTL DEF Spec

-----------------------------------------------------------------------------
(* Every variable has its type: golden_fcs holds calls of the model's      *)
(* vocabulary, only free calls are marked, rounds and attempts stay within *)
(* their bounds.                                                           *)
THEOREM TypeCorrect == Spec => []TypeOK
  BY Invariance, PTL DEF IInv

(* golden_fcs and golden_obs are popped by index and stay parallel: the    *)
(* i-th observation is the one recorded for the i-th call, in all the      *)
(* removals of one message.                                                *)
THEOREM AlignedAlways == Spec => []Aligned
  BY Invariance, PTL DEF IInv

(* A required call of a turn that is open is due or was matched, never     *)
(* both and never neither, as long as remove_called_fc and process_matches *)
(* met no marked call twice in golden_fcs.                                 *)
THEOREM ConservedUnlessDoubled == Spec => []GoldenConserved
  BY Invariance, PTL DEF IInv

(* return_result reports success only when every required call of the      *)
(* chain was matched and nothing is left to be compared, under the same    *)
(* condition.                                                              *)
THEOREM SuccessIsDone == Spec => []SuccessMeansDone
  BY Invariance, PTL DEF IInv

-----------------------------------------------------------------------------
(* Optional calls                                                          *)

(* A match takes the chain on: what was matched is of an earlier turn.     *)
TakenBefore == \A o \in taken : o[1] < golden.turn

LEMMA TakenBeforeMatches ==
  ASSUME chain \in Chains, NEW g, Well(g), NEW success, ProcessMatches(g, success),
         taken \subseteq Due, \A o \in taken : o[1] < g.turn
  PROVE  TakenBefore'
  <1> DEFINE rest == Unmatch(g, success)
             next == IF DOMAIN success = {} THEN rest ELSE Update(rest)
             left == Without(next, [c \in ToSet(next.fcs) |-> IF c \in called' THEN 1 ELSE 0])
             I    == {i \in 1..Len(g.fcs) : Rank(g.fcs, i) > Count(success, g.fcs[i])}
             J    == {i \in 1..Len(next.fcs) :
                        Rank(next.fcs, i) > IF next.fcs[i] \in called' THEN 1 ELSE 0}
  <1>1. /\ golden' = Advance(left)
        /\ taken' = taken \cup (ToSet(g.obs) \ ToSet(rest.obs))
    BY Zenon DEF ProcessMatches
  <1>2. /\ g.fcs \in Seq(Call) /\ Len(g.obs) = Len(g.fcs) /\ g.obs \in Seq(Nat \X Nat)
        /\ \A i \in 1..Len(g.fcs) : g.fcs[i] \in ToSet(g.fcs)
    BY DEF ToSet, Well, Golden, Paired, InPairs
  <1>3. rest = Keep(g, I)
    BY <1>2 DEF Unmatch, Without
  <1> HIDE DEF rest
  <1>4. I \in SUBSET (1..Len(g.fcs))
    OBVIOUS
  <1>5. DOMAIN success = {} => I = 1..Len(g.fcs)
    <2> SUFFICES ASSUME DOMAIN success = {}, NEW i \in 1..Len(g.fcs) PROVE i \in I
      OBVIOUS
    <2>1. {j \in DOMAIN success : success[j] = g.fcs[i]} = {}
      OBVIOUS
    <2>2. Count(success, g.fcs[i]) = 0
      BY <2>1, FS_EmptySet DEF Count
    <2>3. Rank(g.fcs, i) > 0
      BY <1>2, RankIs
    <2>4. QED
      BY <2>2, <2>3
  <1> HIDE DEF I
  <1>6. /\ Well(rest) /\ rest.turn = g.turn /\ g.turn \in Nat
        /\ ToSet(rest.obs) = {g.obs[i] : i \in I}
    BY <1>3, <1>4, KeepIs DEF Well, Golden
  <1>7. DOMAIN success = {} => taken' = taken
    <2>1. DOMAIN g.obs = 1..Len(g.fcs)
      BY <1>2
    <2>2. QED
      BY <1>1, <1>5, <1>6, <2>1 DEF ToSet
  <1>8. /\ Well(next) /\ next.turn \in Nat /\ g.turn <= next.turn
        /\ \A o \in taken' : o[1] < next.turn
    <2>1. CASE DOMAIN success = {}
      BY <1>6, <1>7, <2>1
    <2>2. CASE DOMAIN success # {}
      <3>1. Well(Update(rest)) /\ Update(rest).turn = rest.turn + 1
        BY <1>6, UpdateIs
      <3>2. \A o \in ToSet(g.obs) : o[1] \in Nat /\ o[1] <= g.turn
        BY DueIs DEF Well, Begun
      <3>3. \A o \in taken : o[1] \in Nat
        BY DueIs
      <3>4. QED
        BY <1>1, <1>6, <2>2, <3>1, <3>2, <3>3
    <2>3. QED
      BY <2>1, <2>2
  <1>9. \A i \in 1..Len(next.fcs) : next.fcs[i] \in ToSet(next.fcs)
    BY <1>8 DEF ToSet, Well, Golden
  <1> HIDE DEF next
  <1>10. left = Keep(next, J)
    BY <1>9 DEF Without
  <1> HIDE DEF left
  <1>11. J \in SUBSET (1..Len(next.fcs))
    OBVIOUS
  <1>12. Well(left) /\ left.turn = next.turn
    BY <1>8, <1>10, <1>11, KeepIs
  <1>13. golden'.turn \in Nat /\ left.turn <= golden'.turn
    BY <1>1, <1>8, <1>12, AdvanceIs
  <1>14. \A o \in taken' : o[1] \in Nat
    <2>1. \A o \in taken \cup ToSet(g.obs) : o[1] \in Nat
      BY DueIs DEF Well, Begun
    <2>2. QED
      BY <1>1, <2>1
  <1>15. QED
    BY <1>8, <1>12, <1>13, <1>14 DEF TakenBefore

(* Steps that match nothing leave the turn and what was matched alone.     *)
LEMMA OtherSteps ==
  ASSUME IInv, Next \/ UNCHANGED vars, ~Compare
  PROVE  taken' = taken /\ golden'.turn = golden.turn
  <1>1. golden \in Golden
    BY DEF IInv, TypeOK
  <1>2. CASE TooManyRounds \/ Request \/ RequestFails \/ Empty \/ CallTools \/ Raises \/ UNCHANGED vars
    BY <1>2 DEF TooManyRounds, Request, RequestFails, Empty, CallTools, Raises, Replies, history, vars
  <1>3. CASE Answer
    <2>1. taken' = taken /\ (UNCHANGED golden \/ Stop(golden))
      BY <1>3 DEF Answer, Replies, history
    <2>2. Stop(golden) => golden'.turn = golden.turn
      BY <1>1 DEF Stop, Golden
    <2>3. QED
      BY <2>1, <2>2
  <1>4. CASE NothingDue
    <2> DEFINE g == RemoveCalled(golden)
    <2>1. /\ taken' = taken /\ Stop(g)
          /\ outcome = "none"
      BY <1>4 DEF NothingDue, history
    <2>2. Well(golden) /\ called \subseteq FreeCalls
      BY <2>1, GoldenWell DEF IInv, TypeOK
    <2>3. g \in Golden /\ g.turn = golden.turn
      BY <2>2, RemoveCalledIs DEF Well
    <2> HIDE DEF g
    <2>4. golden'.turn = g.turn
      BY <2>1, <2>3 DEF Stop, Golden
    <2>5. QED
      BY <2>1, <2>3, <2>4
  <1>5. QED
    BY <1>2, <1>3, <1>4 DEF Next

LEMMA TakenBeforeStep == ASSUME IInv, TakenBefore, [Next]_vars PROVE TakenBefore'
  <1>1. CASE ~Compare
    <2>1. taken' = taken /\ golden'.turn = golden.turn
      BY <1>1, OtherSteps
    <2>2. QED
      BY <2>1 DEF TakenBefore
  <1>2. CASE Compare
    <2>1. PICK g : DueFor(g) /\ (Ends(g) \/ GoesOn(g))
      BY <1>2, CompareIs
    <2>2. Well(g) /\ g.turn = golden.turn
      BY <2>1 DEF DueFor
    <2>3. CASE Ends(g)
      BY <2>2, <2>3 DEF Ends, TakenBefore
    <2>4. CASE GoesOn(g)
      <3>1. PICK success : ProcessMatches(g, success)
        BY <2>4 DEF GoesOn
      <3>2. /\ chain \in Chains /\ taken \subseteq Due
            /\ \A o \in taken : o[1] < g.turn
        BY <2>2 DEF IInv, TypeOK, TakenBefore
      <3>3. QED
        BY <2>2, <3>1, <3>2, TakenBeforeMatches
    <2>5. QED
      BY <2>1, <2>3, <2>4
  <1>3. QED
    BY <1>1, <1>2

(* An answer with every required call matched is a success, where the      *)
(* chain ends in a required turn and what is optional is dropped.          *)
LEMMA StopSucceeds ==
  ASSUME chain \in Chains, Well(golden), Shares(golden, taken), TakenBefore, Stop(golden),
         \E c \in ToSet(chain[Len(chain)]) : ~Optional(c),
         \A o \in Due : Optional(CallAt(o)) => DroppedAtEnd(CallAt(o)),
         Required \subseteq taken
  PROVE  outcome' = "success"
  <1> DEFINE I == {i \in 1..Len(golden.fcs) : ~DroppedAtEnd(golden.fcs[i])}
  <1>1. /\ golden.turn \in Nat /\ Len(chain) \in Nat \ {0}
        /\ golden.fcs \in Seq(Call) /\ Len(golden.obs) = Len(golden.fcs)
        /\ golden.obs \in Seq(Nat \X Nat)
        /\ \A i \in 1..Len(golden.fcs) : golden.fcs[i] = CallAt(golden.obs[i])
    BY ChainIs DEF Well, Golden, Paired, InPairs
  <1>2. Len(chain) < golden.turn
    <2> DEFINE l == Len(chain)
    <2>1. l \in 1..Len(chain)
      BY <1>1
    <2>2. /\ ToSet(Places(l)) = {o \in Due : o[1] = l}
          /\ ToSet(Places(l)) = {<<l, j>> : j \in 1..Len(chain[l])}
      BY <2>1, DueIs, PlacesAre
    <2>3. PICK j \in DOMAIN chain[l] : ~Optional(chain[l][j])
      BY DEF ToSet
    <2>4. chain[l] \in Seq(Call)
      BY <2>1, ChainIs
    <2>5. <<l, j>> \in Due
      BY <2>2, <2>4
    <2>6. CallAt(<<l, j>>) = chain[l][j]
      BY DEF CallAt
    <2>7. <<l, j>> \in Required
      BY <2>3, <2>5, <2>6 DEF Required
    <2>8. <<l, j>> \in taken
      BY <2>7
    <2>9. <<l, j>>[1] < golden.turn
      BY <2>8 DEF TakenBefore
    <2>10. QED
      BY <2>9
  <1>3. I = {}
    <2> SUFFICES ASSUME NEW i \in 1..Len(golden.fcs), ~DroppedAtEnd(golden.fcs[i]) PROVE FALSE
      OBVIOUS
    <2>1. golden.obs[i] \in ToSet(golden.obs)
      BY <1>1 DEF ToSet
    <2>2. golden.obs[i] \in Due
      BY <2>1 DEF Well, Begun
    <2>3. golden.obs[i] \in Required
      BY <1>1, <2>2 DEF Required
    <2>4. QED
      BY <2>1, <2>3 DEF Shares
  <1>4. Subseq(golden.fcs, {}) = <<>>
    <2>1. {} \in SUBSET (1..Len(golden.fcs))
      OBVIOUS
    <2>2. Subseq(golden.fcs, {}) \in Seq(Call) /\ Len(Subseq(golden.fcs, {})) = Cardinality({})
      BY <1>1, <2>1, SubseqSeq
    <2>3. Cardinality({}) = 0
      BY FS_EmptySet
    <2>4. QED
      BY <2>2, <2>3
  <1>5. outcome' = IF golden.turn <= Len(chain) \/ Subseq(golden.fcs, I) # <<>> THEN "stop_early" ELSE "success"
    BY DEF Stop, Return
  <1> HIDE DEF I
  <1>6. Subseq(golden.fcs, I) = <<>> /\ ~(golden.turn <= Len(chain))
    BY <1>1, <1>2, <1>3, <1>4
  <1>7. QED
    BY <1>5, <1>6

LEMMA HarmlessStep ==
  ASSUME IInv, TakenBefore, OptionalHarmless, [Next]_vars
  PROVE  OptionalHarmless'
  <1>1. CASE UNCHANGED vars
    <2>1. UNCHANGED <<chain, outcome, predict, taken, doubled>>
      BY <1>1 DEF vars, history
    <2>2. Due' = Due /\ Required' = Required /\ \A o : CallAt(o)' = CallAt(o)
      BY <2>1, SameChain
    <2>3. QED
      BY <2>1, <2>2 DEF OptionalHarmless, OptionalNeverCounts
  <1>2. CASE TooManyRounds \/ Request \/ RequestFails \/ Empty \/ CallTools \/ Raises
    <2>1. outcome' # "stop_early"
      BY <1>2 DEF TooManyRounds, Request, RequestFails, Empty, CallTools, Raises, Replies, Return
    <2>2. QED
      BY <2>1 DEF OptionalHarmless, OptionalNeverCounts
  <1>3. CASE Compare
    <2>1. outcome' # "stop_early"
      BY <1>3, CompareIs DEF Ends, GoesOn
    <2>2. QED
      BY <2>1 DEF OptionalHarmless, OptionalNeverCounts
  <1>4. CASE NothingDue
    <2>1. predict' # <<>>
      BY <1>4 DEF NothingDue
    <2>2. QED
      BY <2>1 DEF OptionalHarmless, OptionalNeverCounts
  <1>5. CASE Answer
    <2>1. /\ UNCHANGED <<chain, taken, doubled>> /\ outcome = "none"
          /\ outcome' = "mismatch" \/ Stop(golden)
      BY <1>5 DEF Answer, Replies, Return, history
    <2>2. Due' = Due /\ Required' = Required /\ \A o : CallAt(o)' = CallAt(o)
      BY <2>1, SameChain
    <2>3. Well(golden) /\ (~doubled => Shares(golden, taken)) /\ chain \in Chains
      BY <2>1, GoldenWell DEF IInv, TypeOK
    <2> SUFFICES ASSUME ~doubled,
                        \E c \in ToSet(chain[Len(chain)]) : ~Optional(c),
                        \A o \in Due : Optional(CallAt(o)) => DroppedAtEnd(CallAt(o)),
                        Required \subseteq taken
                 PROVE  outcome' # "stop_early"
      BY <2>1, <2>2 DEF OptionalHarmless, OptionalNeverCounts
    <2>4. Stop(golden) => outcome' = "success"
      BY <2>3, StopSucceeds
    <2>5. QED
      BY <2>1, <2>4
  <1>6. QED
    BY <1>1, <1>2, <1>3, <1>4, <1>5 DEF Next

(* "Never count for/against the model" is true of every chain that ends in *)
(* a turn with a required call and has no optional call but those that     *)
(* return_result drops, as long as no marked call is due twice at once: a  *)
(* model that answers with every required call matched succeeds.           *)
THEOREM OptionalNeverCountsThere == Spec => []OptionalHarmless
  <1>1. Init => TakenBefore /\ OptionalHarmless
    BY DEF Init, TakenBefore, OptionalHarmless, OptionalNeverCounts
  <1>2. IInv /\ TakenBefore /\ OptionalHarmless /\ [Next]_vars => TakenBefore' /\ OptionalHarmless'
    BY TakenBeforeStep, HarmlessStep
  <1>3. QED
    BY <1>1, <1>2, Invariance, PTL DEF Spec

=============================================================================
