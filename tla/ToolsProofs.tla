----------------------------- MODULE ToolsProofs -----------------------------
(***************************************************************************)
(* Proofs about SpecLint and LearningExtract, for any specification lines, *)
(* histories, windows and queries.  Both compute with folds and recursive  *)
(* functions; what these compute is proved by induction on Nat, from the   *)
(* fact that < is well-founded there (Induct, Along).                      *)
(***************************************************************************)
EXTENDS SpecLint, LearningExtract,
        FiniteSetTheorems, SequenceTheorems, WellFoundedInduction, TLAPS

-----------------------------------------------------------------------------
(***************************************************************************)
(* Induction on the natural numbers, and folds over sequences.             *)
(***************************************************************************)
Smaller == {ss \in Nat \X Nat : ss[1] < ss[2]}
LEMMA NaturalsAreWellFounded == IsWellFoundedOn(Smaller, Nat)
<1>1. IsWellFoundedOn({ss \in Nat \X Nat : ss[1] < ss[2]}, Nat)
  BY NatLessThanWellFounded DEF OpToRel
<1> QED BY <1>1 DEF Smaller

LEMMA Induct ==
  ASSUME NEW T, 0 \in T, \A n \in Nat : n \in T => n + 1 \in T
  PROVE Nat \subseteq T
<1> DEFINE Rest == Nat \ T
<1>1. SUFFICES ASSUME Rest # {} PROVE FALSE
  OBVIOUS
<1>2. PICK x \in Rest : \A y \in Rest : ~(<<y, x>> \in Smaller)
  <2> Rest \subseteq Nat
    OBVIOUS
  <2> HIDE DEF Rest
  <2> QED BY <1>1, NaturalsAreWellFounded, WFMin, Zenon
<1>3. x # 0 /\ x - 1 \in Nat /\ x - 1 < x
  BY <1>2
<1>4. <<x - 1, x>> \in Smaller
  BY <1>3 DEF Smaller
<1>5. x - 1 \in T
  BY <1>2, <1>3, <1>4
<1> QED BY <1>2, <1>3, <1>5

LEMMA Along ==
  ASSUME NEW n \in Nat, NEW T, 0 \in T, \A k \in 1..n : k - 1 \in T => k \in T
  PROVE  0..n \subseteq T
<1> DEFINE U == {k \in Nat : k <= n => k \in T}
<1>1. 0 \in U
  OBVIOUS
<1>2. ASSUME NEW k \in Nat, k \in U PROVE k + 1 \in U
  <2> SUFFICES ASSUME k + 1 <= n PROVE k + 1 \in T
    OBVIOUS
  <2> k + 1 \in 1..n /\ (k + 1) - 1 = k /\ k \in T
    BY <1>2
  <2> QED OBVIOUS
<1> HIDE DEF U
<1>3. Nat \subseteq U
  BY <1>1, <1>2, Induct
<1> QED BY <1>3 DEF U

LEMMA HasMax ==
  ASSUME NEW n \in Nat, NEW s \in SUBSET (1..n), s # {}
  PROVE  Max(s) \in s /\ \A x \in s : x <= Max(s)
<1> DEFINE T == {k \in Nat : \A r \in SUBSET (1..k) : r # {} => \E x \in r : \A y \in r : x >= y}
<1>1. 0 \in T
  <2> 1..0 = {}
    OBVIOUS
  <2> QED OBVIOUS
<1>2. ASSUME NEW k \in Nat, k \in T PROVE k + 1 \in T
  <2> SUFFICES ASSUME NEW r \in SUBSET (1..(k + 1)), r # {} PROVE \E x \in r : \A y \in r : x >= y
    OBVIOUS
  <2>1. CASE k + 1 \in r
    BY <2>1
  <2>2. CASE k + 1 \notin r
    <3>1. r \in SUBSET (1..k)
      BY <2>2
    <3> QED BY <3>1, <1>2
  <2> QED BY <2>1, <2>2
<1>3. n \in T
  <2> HIDE DEF T
  <2> QED BY <1>1, <1>2, Induct
<1>4. \E x \in s : \A y \in s : x >= y
  BY <1>3
<1> QED BY <1>4 DEF Max

LEMMA MaxOfInterval ==
  ASSUME NEW k \in Nat, k > 0
  PROVE  Max(1..k) = k /\ (1..k) \ {k} = 1..(k - 1)
  BY DEF Max

Iterates(g, n, base, st) ==
  \A s \in SUBSET (1..n) : g[s] = IF s = {} THEN base ELSE st[<<Max(s), g[s \ {Max(s)}]>>]

LEMMA FoldExists ==
  ASSUME NEW n \in Nat, NEW V, NEW base \in V, NEW st \in [(1..n) \X V -> V]
  PROVE \E g \in [SUBSET (1..n) -> V] : Iterates(g, n, base, st)
<1> DEFINE P(k) == k <= n => \E g \in [SUBSET (1..k) -> V] : Iterates(g, k, base, st)
           T == {k \in Nat : P(k)}
<1>1. P(0)
  <2>1. 1..0 = {} /\ SUBSET (1..0) = {{}}
    OBVIOUS
  <2> DEFINE g == [s \in SUBSET (1..0) |-> base]
  <2>2. g \in [SUBSET (1..0) -> V]
    OBVIOUS
  <2>3. Iterates(g, 0, base, st)
    BY <2>1 DEF Iterates
  <2> HIDE DEF g
  <2> QED BY <2>2, <2>3
<1>2. ASSUME NEW k \in Nat, P(k) PROVE P(k + 1)
  <2> SUFFICES ASSUME k + 1 <= n PROVE \E g \in [SUBSET (1..(k + 1)) -> V] : Iterates(g, k + 1, base, st)
    OBVIOUS
  <2> k <= n
    OBVIOUS
  <2>1. PICK g \in [SUBSET (1..k) -> V] : Iterates(g, k, base, st)
    BY <1>2, Zenon
  <2>2. \A s \in SUBSET (1..(k + 1)) : s \ {k + 1} \in SUBSET (1..k)
    OBVIOUS
  <2> DEFINE h == [s \in SUBSET (1..(k + 1)) |-> IF k + 1 \in s THEN st[<<k + 1, g[s \ {k + 1}]>>] ELSE g[s]]
  <2>3. h \in [SUBSET (1..(k + 1)) -> V]
    <3> SUFFICES ASSUME NEW s \in SUBSET (1..(k + 1)) PROVE h[s] \in V
      OBVIOUS
    <3>1. CASE k + 1 \in s
      BY <2>2, <3>1
    <3>2. CASE k + 1 \notin s
      <4>1. s \in SUBSET (1..k)
        BY <3>2
      <4> QED BY <4>1, <3>2
    <3> QED BY <3>1, <3>2
  <2>4. \A s \in SUBSET (1..k) : s \in SUBSET (1..(k + 1)) /\ k + 1 \notin s /\ h[s] = g[s]
    OBVIOUS
  <2>5. ASSUME NEW s \in SUBSET (1..(k + 1))
        PROVE  h[s] = IF s = {} THEN base ELSE st[<<Max(s), h[s \ {Max(s)}]>>]
    <3>1. CASE k + 1 \in s
      <4>1. Max(s) = k + 1
        <5>1. Max(s) \in s /\ \A x \in s : x <= Max(s)
          BY <3>1, HasMax, k + 1 \in Nat, s # {}, Zenon
        <5>2. Max(s) \in 1..(k + 1)
          BY <5>1
        <5> QED BY <5>1, <5>2, <3>1
      <4>2. h[s \ {k + 1}] = g[s \ {k + 1}]
        BY <2>2, <2>4
      <4>3. h[s] = st[<<k + 1, g[s \ {k + 1}]>>] /\ h[s \ {k + 1}] = g[s \ {k + 1}] /\ s # {}
        BY <3>1, <4>2
      <4> HIDE DEF h
      <4> QED BY <4>1, <4>2, <4>3, <3>1
    <3>2. CASE k + 1 \notin s
      <4>1. s \in SUBSET (1..k)
        BY <3>2
      <4>2. s # {} => Max(s) \in s /\ s \ {Max(s)} \in SUBSET (1..k)
        BY <4>1, HasMax
      <4>3. h[s] = g[s] /\ (s # {} => h[s \ {Max(s)}] = g[s \ {Max(s)}])
        BY <4>1, <4>2, <2>4
      <4>4. g[s] = IF s = {} THEN base ELSE st[<<Max(s), g[s \ {Max(s)}]>>]
        BY <2>1, <4>1 DEF Iterates
      <4> HIDE DEF h
      <4> QED BY <4>3, <4>4
    <3> QED BY <3>1, <3>2
  <2> HIDE DEF h
  <2>6. Iterates(h, k + 1, base, st)
    BY <2>5 DEF Iterates
  <2> QED BY <2>3, <2>6
<1> HIDE DEF P
<1>3. 0 \in T /\ \A k \in Nat : k \in T => k + 1 \in T
  BY <1>1, <1>2
<1> HIDE DEF T
<1>4. n \in T
  BY <1>3, Induct
<1>5. P(n)
  BY <1>4 DEF T
<1>6. n <= n
  OBVIOUS
<1> QED BY <1>5, <1>6, Zenon DEF P

LEMMA OneBefore ==
  ASSUME NEW n \in Nat, NEW V, NEW g \in [SUBSET (1..n) -> V], NEW r \in SUBSET (1..n), r # {}
  PROVE  Max(r) \in 1..n /\ g[r \ {Max(r)}] \in V
  BY HasMax

Recurs(f, n, V, base, st) ==
  /\ f[{}] = base
  /\ \A r \in SUBSET (1..n) : r # {} /\ Max(r) \in 1..n /\ f[r \ {Max(r)}] \in V => f[r] = st[<<Max(r), f[r \ {Max(r)}]>>]

StepsTo(h, n, V, base, st, end) ==
  h[0] = base /\ end = h[n] /\ \A k \in 1..n : h[k - 1] \in V /\ h[k] = st[<<k, h[k - 1]>>]

\* A function with the recurrence of a fold takes one step for each element.
LEMMA FoldSteps ==
  ASSUME NEW n \in Nat, NEW V, NEW base \in V, NEW st \in [(1..n) \X V -> V], NEW f, Recurs(f, n, V, base, st)
  PROVE  \E h \in [0..n -> V] : StepsTo(h, n, V, base, st, f[1..n])
<1> DEFINE h == [k \in 0..n |-> f[1..k]]
           T == {k \in 0..n : h[k] \in V}
<1>1. ASSUME NEW k \in 1..n, h[k - 1] \in V PROVE h[k] = st[<<k, h[k - 1]>>]
  <2>1. k \in Nat /\ k > 0 /\ k <= n /\ k \in 0..n /\ k - 1 \in 0..n
    OBVIOUS
  <2>2. 1 \in 1..k /\ \A i \in 1..k : i \in 1..n
    BY <2>1
  <2>3. 1..k \in SUBSET (1..n) /\ 1..k # {} /\ Max(1..k) = k /\ (1..k) \ {Max(1..k)} = 1..(k - 1)
    BY <2>1, <2>2, MaxOfInterval
  <2>4. h[k] = f[1..k] /\ h[k - 1] = f[1..(k - 1)]
    BY <2>1
  <2> HIDE DEF h
  <2> QED BY <1>1, <2>3, <2>4 DEF Recurs
<1>2. h[0] = base /\ h[n] = f[1..n] /\ h = [k \in 0..n |-> h[k]] /\ 0 \in 0..n
  <2> 1..0 = {}
    OBVIOUS
  <2> QED BY DEF Recurs
<1> HIDE DEF h
<1>3. 0 \in T
  BY <1>2
<1>4. ASSUME NEW k \in 1..n, k - 1 \in T PROVE k \in T
  <2>1. h[k - 1] \in V /\ k \in 0..n
    BY <1>4
  <2> QED BY <1>1, <2>1
<1> HIDE DEF T
<1>5. 0..n \subseteq T
  BY <1>3, <1>4, Along
<1>6. \A k \in 0..n : h[k] \in V
  BY <1>5 DEF T
<1>7. \A k \in 1..n : h[k - 1] \in V /\ h[k] = st[<<k, h[k - 1]>>]
  <2>1. \A k \in 1..n : k - 1 \in 0..n
    OBVIOUS
  <2> QED BY <1>1, <1>6, <2>1
<1>8. h \in [0..n -> V]
  BY <1>2, <1>6
<1> QED BY <1>2, <1>7, <1>8 DEF StepsTo

\* within, step by step.
LEMMA WithinFolds ==
  ASSUME NEW X, NEW s \in Seq(X), NEW S
  PROVE  \E h \in [0..Len(s) -> Seq(X)] :
           /\ h[0] = <<>> /\ within(s, S) = h[Len(s)]
           /\ \A k \in 1..Len(s) : h[k] = keepIn(h[k - 1], s[k], S)
<1> DEFINE n == Len(s)
           V == Seq(X)
           st == [at \in (1..n) \X V |-> keepIn(at[2], s[at[1]], S)]
<1>1. n \in Nat /\ DOMAIN s = 1..n
  OBVIOUS
<1>2. <<>> \in V
  OBVIOUS
<1>3. ASSUME NEW v \in V, NEW k \in 1..n PROVE keepIn(v, s[k], S) \in V
  BY DEF keepIn
<1>4. st \in [(1..n) \X V -> V]
  <2> HIDE DEF n, V
  <2> QED BY <1>3
<1>5. PICK g \in [SUBSET (1..n) -> V] : Iterates(g, n, <<>>, st)
  <2> HIDE DEF st, n, V
  <2> QED BY <1>1, <1>2, <1>4, FoldExists
<1> DEFINE Def(f) ==
             f = [r \in SUBSET (1..n) |->
                    IF r = {} THEN <<>> ELSE keepIn(f[r \ {Max(r)}], s[Max(r)], S)]
           f == CHOOSE f : Def(f)
<1>6. Def(g)
  <2> HIDE DEF n, V
  <2>1. ASSUME NEW r \in SUBSET (1..n), r # {}
        PROVE  st[<<Max(r), g[r \ {Max(r)}]>>] = keepIn(g[r \ {Max(r)}], s[Max(r)], S)
    BY <1>1, <1>5, <2>1, OneBefore
  <2> HIDE DEF st
  <2> QED BY <1>5, <2>1 DEF Iterates
<1>7. Def(f)
  <2> HIDE DEF Def
  <2> QED BY <1>6
<1>8. within(s, S) = f[1..n]
  BY <1>1 DEF within, FoldLeft, MapThenFoldSet
<1> HIDE DEF f
<1>9. Recurs(f, n, V, <<>>, st)
  <2> HIDE DEF n, V
  <2> QED BY <1>7 DEF Recurs
<1>10. PICK h \in [0..n -> V] : StepsTo(h, n, V, <<>>, st, f[1..n])
  <2> HIDE DEF n, V, st
  <2> QED BY <1>1, <1>2, <1>4, <1>9, FoldSteps
<1>11. \A k \in 1..n : h[k] = keepIn(h[k - 1], s[k], S)
  <2> HIDE DEF n, V
  <2> QED BY <1>10 DEF StepsTo
<1> QED BY <1>8, <1>10, <1>11 DEF StepsTo

-----------------------------------------------------------------------------
(***************************************************************************)
(* The linter: what it reads is always a model of the specification.       *)
(***************************************************************************)
LEMMA SeqIsSeq == ASSUME NEW X, NEW s \in Seq(X) PROVE IsSeq(s)
<1>1. \A i \in 1..Len(s) : s[i] \in ToSet(s)
  BY DEF ToSet
<1>2. s = [i \in 1..Len(s) |-> s[i]] /\ Len(s) \in Nat
  OBVIOUS
<1>3. [i \in 1..Len(s) |-> s[i]] \in Seq(ToSet(s))
  BY <1>1, <1>2
<1> QED BY <1>2, <1>3 DEF IsSeq

LEMMA AppendIsSeq ==
  ASSUME NEW s, IsSeq(s), NEW x
  PROVE  IsSeq(Append(s, x)) /\ ToSet(Append(s, x)) = ToSet(s) \cup {x}
<1> DEFINE X == ToSet(s) \cup {x}
<1>1. s \in Seq(X) /\ x \in X
  BY DEF IsSeq
<1> HIDE DEF X
<1>2. Append(s, x) \in Seq(X)
  BY <1>1
<1>3. DOMAIN Append(s, x) = 1..(Len(s) + 1) /\ DOMAIN s = 1..Len(s) /\ Len(s) \in Nat
  BY <1>1
<1>4. Append(s, x)[Len(s) + 1] = x /\ \A i \in 1..Len(s) : Append(s, x)[i] = s[i]
  BY <1>1
<1>5. ToSet(Append(s, x)) = ToSet(s) \cup {x}
  BY <1>3, <1>4 DEF ToSet
<1> QED BY <1>2, <1>5, SeqIsSeq

LEMMA ConcatIsSeq ==
  ASSUME NEW s, IsSeq(s), NEW t, IsSeq(t)
  PROVE  IsSeq(s \o t) /\ ToSet(s \o t) = ToSet(s) \cup ToSet(t)
<1> DEFINE X == ToSet(s) \cup ToSet(t)
<1>1. s \in Seq(X) /\ t \in Seq(X)
  BY DEF IsSeq
<1> HIDE DEF X
<1>2. s \o t \in Seq(X)
  BY <1>1
<1>3. DOMAIN (s \o t) = 1..(Len(s) + Len(t)) /\ DOMAIN s = 1..Len(s) /\ DOMAIN t = 1..Len(t)
      /\ Len(s) \in Nat /\ Len(t) \in Nat
  BY <1>1
<1>4. /\ \A i \in 1..Len(s) : (s \o t)[i] = s[i]
      /\ \A i \in 1..Len(t) : (s \o t)[Len(s) + i] = t[i]
  BY <1>1
<1>5. ToSet(s \o t) = ToSet(s) \cup ToSet(t)
  <2>1. ASSUME NEW y \in ToSet(s \o t) PROVE y \in ToSet(s) \cup ToSet(t)
    <3>1. PICK i \in 1..(Len(s) + Len(t)) : y = (s \o t)[i]
      BY <1>3 DEF ToSet
    <3>2. CASE i <= Len(s)
      BY <3>1, <3>2, <1>3, <1>4 DEF ToSet
    <3>3. CASE i > Len(s)
      <4>1. i - Len(s) \in 1..Len(t) /\ Len(s) + (i - Len(s)) = i
        BY <3>1, <3>3, <1>3
      <4>2. (s \o t)[i] = t[i - Len(s)]
        BY <4>1, <1>4
      <4> QED BY <3>1, <4>1, <4>2, <1>3 DEF ToSet
    <3> QED BY <3>1, <3>2, <3>3, <1>3
  <2>2. ToSet(s) \subseteq ToSet(s \o t)
    <3>1. \A i \in 1..Len(s) : i \in 1..(Len(s) + Len(t))
      BY <1>3
    <3> QED BY <3>1, <1>3, <1>4 DEF ToSet
  <2>3. ToSet(t) \subseteq ToSet(s \o t)
    <3>1. \A i \in 1..Len(t) : Len(s) + i \in 1..(Len(s) + Len(t))
      BY <1>3
    <3> QED BY <3>1, <1>3, <1>4 DEF ToSet
  <2> QED BY <2>1, <2>2, <2>3
<1> QED BY <1>2, <1>5, SeqIsSeq

LEMMA ExceptIsSeq ==
  ASSUME NEW s, IsSeq(s), NEW i \in DOMAIN s, NEW x
  PROVE  /\ IsSeq([s EXCEPT ![i] = x]) /\ x \in ToSet([s EXCEPT ![i] = x])
         /\ ToSet([s EXCEPT ![i] = x]) \subseteq ToSet(s) \cup {x}
         /\ ToSet(s) \subseteq ToSet([s EXCEPT ![i] = x]) \cup {s[i]}
<1> DEFINE X == ToSet(s) \cup {x}
           t == [s EXCEPT ![i] = x]
<1>1. s \in Seq(X) /\ x \in X
  BY DEF IsSeq
<1> HIDE DEF X
<1>2. t \in Seq(X)
  BY <1>1
<1>3. DOMAIN t = DOMAIN s /\ t[i] = x /\ \A j \in DOMAIN s : j # i => t[j] = s[j]
  BY <1>1
<1> HIDE DEF t
<1>4. x \in ToSet(t) /\ ToSet(t) \subseteq ToSet(s) \cup {x} /\ ToSet(s) \subseteq ToSet(t) \cup {s[i]}
  BY <1>3 DEF ToSet
<1>5. IsSeq(t)
  BY <1>2, SeqIsSeq
<1> QED BY <1>4, <1>5 DEF t

LEMMA InSeq ==
  ASSUME NEW s, IsSeq(s)
  PROVE  /\ Len(s) \in Nat /\ DOMAIN s = 1..Len(s) /\ s \in Seq(ToSet(s))
         /\ \A i \in DOMAIN s : s[i] \in ToSet(s)
         /\ \A x \in ToSet(s) : \E i \in DOMAIN s : s[i] = x
         /\ (s # <<>> => Len(s) \in DOMAIN s /\ 1 \in DOMAIN s)
<1>1. s \in Seq(ToSet(s))
  BY DEF IsSeq
<1> QED BY <1>1 DEF ToSet

LEMMA NothingIsSeq == ASSUME NEW e, e = <<>> PROVE IsSeq(e) /\ ToSet(e) = {} /\ Len(e) = 0
<1>1. e \in Seq({}) /\ DOMAIN e = {} /\ Len(e) = 0
  OBVIOUS
<1>2. IsSeq(e)
  BY <1>1, SeqIsSeq
<1>3. ToSet(e) = {}
  BY <1>1 DEF ToSet
<1> QED BY <1>1, <1>2, <1>3

LEMMA ShortSeqs ==
  ASSUME NEW x
  PROVE  /\ IsSeq(<<x>>) /\ ToSet(<<x>>) = {x} /\ <<x>> # <<>> /\ <<x>>[1] = x /\ Len(<<x>>) = 1
         /\ DOMAIN <<x>> = {1}
<1>1. <<x>> \in Seq({x}) /\ DOMAIN <<x>> = 1..1 /\ 1..1 = {1} /\ <<x>>[1] = x
  OBVIOUS
<1>2. IsSeq(<<x>>)
  BY <1>1, SeqIsSeq
<1>3. ToSet(<<x>>) = {x}
  BY <1>1 DEF ToSet
<1>4. Len(<<x>>) = 1 /\ <<x>> # <<>>
  OBVIOUS
<1> QED BY <1>1, <1>2, <1>3, <1>4

ModelFields ==
  {"status", "bare", "statusLineCount", "slug", "slugLineCount", "sections", "reqs", "tcs", "tasks",
   "batches", "currentTask", "currentSection", "fence", "inComment"}

IsTask(t) ==
  /\ DOMAIN t = {"id", "files", "tests", "depends", "execOnly"}
  /\ IsSeq(t.files) /\ IsSeq(t.tests) /\ IsSeq(t.depends)

IsBatch(b) ==
  /\ DOMAIN b = {"index", "taskIDs", "sharedAdditive"}
  /\ b.index \in Nat /\ IsSeq(b.taskIDs) /\ IsSeq(b.sharedAdditive)

\* A model of a spec that the parser may hold.
IsModel(p) ==
  /\ DOMAIN p = ModelFields
  /\ IsSeq(p.reqs) /\ \A r \in ToSet(p.reqs) : r.noTest \in {"absent", "empty", "reason"}
  /\ IsSeq(p.tcs)
  /\ IsSeq(p.tasks) /\ \A t \in ToSet(p.tasks) : IsTask(t)
  /\ IsSeq(p.batches) /\ \A b \in ToSet(p.batches) : IsBatch(b)
  /\ IsSeq(p.currentTask) /\ Len(p.currentTask) <= 1 /\ \A t \in ToSet(p.currentTask) : IsTask(t)

LEMMA EmptyIsModel == IsModel(emptyModel)
<1>1. DOMAIN emptyModel = ModelFields
  BY DEF emptyModel, ModelFields
<1>2. /\ emptyModel.reqs = <<>> /\ emptyModel.tcs = <<>> /\ emptyModel.tasks = <<>>
      /\ emptyModel.batches = <<>> /\ emptyModel.currentTask = <<>>
  BY DEF emptyModel
<1> QED BY <1>1, <1>2, NothingIsSeq DEF IsModel

LEMMA NewTaskIsTask == ASSUME NEW id PROVE IsTask(newTask(id))
<1>1. /\ DOMAIN newTask(id) = {"id", "files", "tests", "depends", "execOnly"}
      /\ newTask(id).files = <<>> /\ newTask(id).tests = <<>> /\ newTask(id).depends = <<>>
  BY DEF newTask
<1> QED BY <1>1, NothingIsSeq DEF IsTask

LEMMA FinalizeKeepsModel ==
  ASSUME NEW p, IsModel(p)
  PROVE  /\ IsModel(finalizeTask(p)) /\ finalizeTask(p).currentTask = <<>>
         /\ ToSet(finalizeTask(p).tasks) = ToSet(p.tasks) \cup ToSet(p.currentTask)
         /\ \A x \in ModelFields \ {"tasks", "currentTask"} : finalizeTask(p)[x] = p[x]
<1> DEFINE f == finalizeTask(p)
<1>1. /\ DOMAIN f = ModelFields /\ f.tasks = p.tasks \o p.currentTask /\ f.currentTask = <<>>
      /\ \A x \in ModelFields \ {"tasks", "currentTask"} : f[x] = p[x]
  BY DEF finalizeTask, IsModel, ModelFields
<1>2. IsSeq(f.tasks) /\ ToSet(f.tasks) = ToSet(p.tasks) \cup ToSet(p.currentTask)
  BY <1>1, ConcatIsSeq DEF IsModel
<1>3. f.reqs = p.reqs /\ f.tcs = p.tcs /\ f.batches = p.batches
  BY <1>1 DEF ModelFields
<1> HIDE DEF f
<1>4. IsModel(f)
  BY <1>1, <1>2, <1>3, NothingIsSeq DEF IsModel
<1> QED BY <1>1, <1>2, <1>4 DEF f

LEMMA SubItemIsTask ==
  ASSUME NEW t, IsTask(t), NEW l, IsLine(l)
  PROVE  /\ IsTask(parseTaskSubItem(t, l)) /\ parseTaskSubItem(t, l).id = t.id
         /\ ToSet(parseTaskSubItem(t, l).files) = ToSet(t.files) \cup IF l.k = "files" THEN ToSet(l.files) ELSE {}
<1> DEFINE u == parseTaskSubItem(t, l)
<1> USE DEF IsTask
<1>1. CASE l.k = "files"
  <2>1. u = [t EXCEPT !.files = t.files \o l.files]
    BY <1>1 DEF parseTaskSubItem
  <2>2. /\ DOMAIN u = DOMAIN t /\ u.files = t.files \o l.files /\ u.id = t.id
        /\ u.tests = t.tests /\ u.depends = t.depends
    BY <2>1
  <2> HIDE DEF u
  <2>3. IsSeq(u.files) /\ ToSet(u.files) = ToSet(t.files) \cup ToSet(l.files)
    BY <2>2, <1>1, ConcatIsSeq DEF IsLine
  <2> USE DEF u
  <2> QED BY <2>2, <2>3, <1>1
<1>2. CASE l.k = "tests"
  <2>1. u = [t EXCEPT !.tests = t.tests \o l.ids]
    BY <1>2 DEF parseTaskSubItem
  <2>2. /\ DOMAIN u = DOMAIN t /\ u.tests = t.tests \o l.ids /\ u.id = t.id
        /\ u.files = t.files /\ u.depends = t.depends
    BY <2>1
  <2>3. IsSeq(t.tests \o l.ids)
    BY <1>2, ConcatIsSeq DEF IsLine
  <2> QED BY <2>2, <2>3, <1>2
<1>3. CASE l.k = "depends"
  <2>1. u = [t EXCEPT !.depends = t.depends \o l.ids]
    BY <1>3 DEF parseTaskSubItem
  <2>2. /\ DOMAIN u = DOMAIN t /\ u.depends = t.depends \o l.ids /\ u.id = t.id
        /\ u.files = t.files /\ u.tests = t.tests
    BY <2>1
  <2>3. IsSeq(t.depends \o l.ids)
    BY <1>3, ConcatIsSeq DEF IsLine
  <2> QED BY <2>2, <2>3, <1>3
<1>4. CASE l.k = "none"
  <2>1. u = [t EXCEPT !.execOnly = TRUE]
    BY <1>4 DEF parseTaskSubItem
  <2> QED BY <2>1, <1>4
<1>5. CASE l.k \notin {"files", "tests", "depends", "none"}
  BY <1>5 DEF parseTaskSubItem
<1> QED BY <1>1, <1>2, <1>3, <1>4, <1>5

HeadingFields ==
  {"status", "bare", "statusLineCount", "slug", "slugLineCount", "sections", "currentSection"}

LEMMA HeadingKeepsModel ==
  ASSUME NEW p, IsModel(p), NEW l
  PROVE  /\ IsModel(parseHeading(p, l)) /\ parseHeading(p, l).currentTask = <<>>
         /\ ToSet(parseHeading(p, l).tasks) = ToSet(p.tasks) \cup ToSet(p.currentTask)
         /\ parseHeading(p, l).currentSection
              = IF l.k \in {"status", "slug"} THEN p.currentSection ELSE l.name
         /\ parseHeading(p, l).fence = p.fence /\ parseHeading(p, l).inComment = p.inComment
<1> DEFINE f == finalizeTask(p)
           h == parseHeading(p, l)
<1>1. /\ IsModel(f) /\ f.currentTask = <<>> /\ ToSet(f.tasks) = ToSet(p.tasks) \cup ToSet(p.currentTask)
      /\ f.currentSection = p.currentSection /\ f.fence = p.fence /\ f.inComment = p.inComment
  BY FinalizeKeepsModel DEF ModelFields
<1>2. /\ DOMAIN h = DOMAIN f
      /\ \A x \in ModelFields \ HeadingFields : h[x] = f[x]
      /\ h.currentSection = IF l.k \in {"status", "slug"} THEN f.currentSection ELSE l.name
  <2> DOMAIN f = ModelFields
    BY <1>1 DEF IsModel
  <2> HIDE DEF f
  <2>1. h = CASE l.k = "status" /\ p.statusLineCount = 0 ->
         [f EXCEPT !.statusLineCount = 1, !.status = l.token, !.bare = l.bare]
    [] l.k = "status" /\ p.statusLineCount # 0 -> [f EXCEPT !.statusLineCount = @ + 1]
    [] l.k = "slug" /\ p.slugLineCount = 0 -> [f EXCEPT !.slugLineCount = 1, !.slug = l.slug]
    [] l.k = "slug" /\ p.slugLineCount # 0 -> [f EXCEPT !.slugLineCount = @ + 1]
    [] OTHER -> [f EXCEPT !.sections = @ \cup {l.name}, !.currentSection = l.name]
    BY DEF parseHeading, f
  <2> HIDE DEF h
  <2>2. CASE l.k = "status"
    <3>1. CASE p.statusLineCount = 0
      <4> h = [f EXCEPT !.statusLineCount = 1, !.status = l.token, !.bare = l.bare]
        BY <2>1, <2>2, <3>1
      <4> QED BY <2>2 DEF ModelFields, HeadingFields
    <3>2. CASE p.statusLineCount # 0
      <4> h = [f EXCEPT !.statusLineCount = @ + 1]
        BY <2>1, <2>2, <3>2
      <4> QED BY <2>2 DEF ModelFields, HeadingFields
    <3> QED BY <3>1, <3>2
  <2>3. CASE l.k = "slug"
    <3>1. CASE p.slugLineCount = 0
      <4> h = [f EXCEPT !.slugLineCount = 1, !.slug = l.slug]
        BY <2>1, <2>3, <3>1
      <4> QED BY <2>3 DEF ModelFields, HeadingFields
    <3>2. CASE p.slugLineCount # 0
      <4> h = [f EXCEPT !.slugLineCount = @ + 1]
        BY <2>1, <2>3, <3>2
      <4> QED BY <2>3 DEF ModelFields, HeadingFields
    <3> QED BY <3>1, <3>2
  <2>4. CASE l.k \notin {"status", "slug"}
    <3> h = [f EXCEPT !.sections = @ \cup {l.name}, !.currentSection = l.name]
      BY <2>1, <2>4
    <3> QED BY <2>4 DEF ModelFields, HeadingFields
  <2> QED BY <2>2, <2>3, <2>4
<1> HIDE DEF f, h
<1>3. /\ h.reqs = f.reqs /\ h.tcs = f.tcs /\ h.tasks = f.tasks /\ h.batches = f.batches
      /\ h.currentTask = f.currentTask /\ h.fence = f.fence /\ h.inComment = f.inComment
  BY <1>2 DEF ModelFields, HeadingFields
<1>4. IsModel(h)
  BY <1>1, <1>2, <1>3 DEF IsModel
<1> QED BY <1>1, <1>2, <1>3, <1>4 DEF h

\* What a line below the headings may change.
BodyReads(p, q, l) ==
  /\ q.currentSection = p.currentSection /\ q.fence = p.fence /\ q.inComment = p.inComment
  /\ p.currentSection = "Tasks" /\ declares(l) =>
       /\ q.currentTask = <<newTask(l.id)>>
       /\ ToSet(q.tasks) = ToSet(p.tasks) \cup ToSet(p.currentTask)
  /\ p.currentSection = "Tasks" /\ ~declares(l) /\ p.currentTask # <<>> =>
       q.currentTask = <<parseTaskSubItem(p.currentTask[1], l)>> /\ q.tasks = p.tasks
  /\ p.currentSection # "Tasks" \/ (~declares(l) /\ p.currentTask = <<>>) =>
       q.currentTask = p.currentTask /\ q.tasks = p.tasks

LEMMA BodyKeepsModel ==
  ASSUME NEW p, IsModel(p), NEW l, IsLine(l)
  PROVE  IsModel(parseBody(p, l)) /\ BodyReads(p, parseBody(p, l), l)
<1> DEFINE in(section) == p.currentSection = section
           q == parseBody(p, l)
<1>d. DOMAIN p = ModelFields
  BY DEF IsModel
<1>0. q = CASE in("Requirements") /\ l.k = "req" -> [p EXCEPT !.reqs = Append(@, l)]
    [] in("Test Plan") /\ l.k = "tc"     -> [p EXCEPT !.tcs = Append(@, l)]
    [] in("Tasks") /\ declares(l) ->
         [finalizeTask(p) EXCEPT !.currentTask = <<newTask(l.id)>>]
    [] in("Tasks") /\ ~declares(l) /\ p.currentTask # <<>> ->
         [p EXCEPT !.currentTask[1] = parseTaskSubItem(@, l)]
    [] in("Parallel Batches") /\ l.k = "shared" /\ p.batches # <<>> ->
         [p EXCEPT !.batches[Len(p.batches)].sharedAdditive = @ \o l.files]
    [] OTHER -> p
  BY DEF parseBody
<1> HIDE DEF q
<1>1. CASE in("Requirements") /\ l.k = "req"
  <2>1. q = [p EXCEPT !.reqs = Append(@, l)]
    BY <1>0, <1>1
  <2>2. DOMAIN q = ModelFields /\ q.reqs = Append(p.reqs, l) /\ \A x \in ModelFields \ {"reqs"} : q[x] = p[x]
    BY <1>d, <2>1 DEF ModelFields
  <2>3. /\ q.tcs = p.tcs /\ q.tasks = p.tasks /\ q.batches = p.batches /\ q.currentTask = p.currentTask
        /\ q.currentSection = p.currentSection /\ q.fence = p.fence /\ q.inComment = p.inComment
    BY <2>2 DEF ModelFields
  <2>4. IsSeq(q.reqs) /\ ToSet(q.reqs) = ToSet(p.reqs) \cup {l}
    BY <2>2, AppendIsSeq DEF IsModel
  <2>5. \A r \in ToSet(q.reqs) : r.noTest \in {"absent", "empty", "reason"}
    BY <2>4, <1>1 DEF IsModel, IsLine
  <2>6. IsModel(q)
    BY <2>2, <2>3, <2>4, <2>5 DEF IsModel
  <2> QED BY <2>3, <2>6, <1>1 DEF BodyReads, q
<1>2. CASE in("Test Plan") /\ l.k = "tc"
  <2>1. q = [p EXCEPT !.tcs = Append(@, l)]
    BY <1>0, <1>2
  <2>2. DOMAIN q = ModelFields /\ q.tcs = Append(p.tcs, l) /\ \A x \in ModelFields \ {"tcs"} : q[x] = p[x]
    BY <1>d, <2>1 DEF ModelFields
  <2>3. /\ q.reqs = p.reqs /\ q.tasks = p.tasks /\ q.batches = p.batches /\ q.currentTask = p.currentTask
        /\ q.currentSection = p.currentSection /\ q.fence = p.fence /\ q.inComment = p.inComment
    BY <2>2 DEF ModelFields
  <2>4. IsSeq(q.tcs)
    BY <2>2, AppendIsSeq DEF IsModel
  <2>6. IsModel(q)
    BY <2>2, <2>3, <2>4 DEF IsModel
  <2> QED BY <2>3, <2>6, <1>2 DEF BodyReads, q
<1>3. CASE in("Tasks") /\ declares(l)
  <2> DEFINE f == finalizeTask(p)
  <2>0. /\ IsModel(f) /\ ToSet(f.tasks) = ToSet(p.tasks) \cup ToSet(p.currentTask)
        /\ f.currentSection = p.currentSection /\ f.fence = p.fence /\ f.inComment = p.inComment
    BY FinalizeKeepsModel DEF ModelFields
  <2>1. q = [f EXCEPT !.currentTask = <<newTask(l.id)>>]
    BY <1>0, <1>3
  <2> HIDE DEF f
  <2>2. /\ DOMAIN q = ModelFields /\ q.currentTask = <<newTask(l.id)>>
        /\ \A x \in ModelFields \ {"currentTask"} : q[x] = f[x]
    BY <2>0, <2>1 DEF ModelFields, IsModel
  <2>3. /\ q.reqs = f.reqs /\ q.tcs = f.tcs /\ q.tasks = f.tasks /\ q.batches = f.batches
        /\ q.currentSection = f.currentSection /\ q.fence = f.fence /\ q.inComment = f.inComment
    BY <2>2 DEF ModelFields
  <2>4. IsSeq(q.currentTask) /\ ToSet(q.currentTask) = {newTask(l.id)} /\ Len(q.currentTask) = 1
        /\ IsTask(newTask(l.id))
    BY <2>2, ShortSeqs, NewTaskIsTask
  <2>5. \A t \in ToSet(q.currentTask) : IsTask(t)
    BY <2>4
  <2>6. IsModel(q)
    BY <2>0, <2>2, <2>3, <2>4, <2>5 DEF IsModel
  <2> QED BY <2>0, <2>2, <2>3, <2>6, <1>3 DEF BodyReads, q
<1>4. CASE in("Tasks") /\ ~declares(l) /\ p.currentTask # <<>>
  <2>1. q = [p EXCEPT !.currentTask[1] = parseTaskSubItem(@, l)]
    BY <1>0, <1>4
  <2>2. PICK t : p.currentTask = <<t>> /\ IsTask(t) /\ p.currentTask[1] = t
    <3>1. p.currentTask \in Seq(ToSet(p.currentTask)) /\ Len(p.currentTask) <= 1
      BY DEF IsModel, IsSeq
    <3>2. Len(p.currentTask) = 1 /\ p.currentTask[1] \in ToSet(p.currentTask)
      <4>1. 1 \in DOMAIN p.currentTask /\ Len(p.currentTask) \in DOMAIN p.currentTask
            /\ DOMAIN p.currentTask = 1..Len(p.currentTask) /\ Len(p.currentTask) \in Nat
            /\ \A i \in DOMAIN p.currentTask : p.currentTask[i] \in ToSet(p.currentTask)
        BY <1>4, InSeq DEF IsModel
      <4> DEFINE n == Len(p.currentTask)
      <4>2. n = 1
        <5>1. n \in 1..n /\ n \in Nat /\ n <= 1
          BY <4>1, <3>1
        <5> HIDE DEF n
        <5> QED BY <5>1
      <4> QED BY <4>1, <4>2
    <3>3. p.currentTask = <<p.currentTask[1]>> /\ IsTask(p.currentTask[1])
      BY <3>1, <3>2 DEF IsModel
    <3> QED BY <3>3
  <2> DEFINE u == parseTaskSubItem(t, l)
  <2>3. /\ DOMAIN q = ModelFields /\ q.currentTask = [p.currentTask EXCEPT ![1] = u]
        /\ \A x \in ModelFields \ {"currentTask"} : q[x] = p[x]
    <3> HIDE DEF u
    <3>1. q = [p EXCEPT !.currentTask = [p.currentTask EXCEPT ![1] = parseTaskSubItem(p.currentTask[1], l)]]
      BY <2>1
    <3>2. q = [p EXCEPT !.currentTask = [p.currentTask EXCEPT ![1] = u]]
      BY <3>1, <2>2 DEF u
    <3> QED BY <1>d, <3>2 DEF ModelFields
  <2>4. IsTask(u)
    BY <2>2, SubItemIsTask
  <2> HIDE DEF u
  <2>5. q.currentTask = <<u>>
    BY <2>2, <2>3
  <2>6. IsSeq(q.currentTask) /\ ToSet(q.currentTask) = {u} /\ Len(q.currentTask) = 1
    BY <2>5, ShortSeqs
  <2>7. /\ q.reqs = p.reqs /\ q.tcs = p.tcs /\ q.tasks = p.tasks /\ q.batches = p.batches
        /\ q.currentSection = p.currentSection /\ q.fence = p.fence /\ q.inComment = p.inComment
    BY <2>3 DEF ModelFields
  <2>8. \A x \in ToSet(q.currentTask) : IsTask(x)
    BY <2>4, <2>6
  <2>9. IsModel(q)
    BY <2>3, <2>6, <2>7, <2>8 DEF IsModel
  <2>10. q.currentTask = <<parseTaskSubItem(p.currentTask[1], l)>>
    BY <2>2, <2>5 DEF u
  <2> QED BY <2>7, <2>9, <2>10, <1>4 DEF BodyReads, q
<1>5. CASE in("Parallel Batches") /\ l.k = "shared" /\ p.batches # <<>>
  <2>1. q = [p EXCEPT !.batches[Len(p.batches)].sharedAdditive = @ \o l.files]
    BY <1>0, <1>5
  <2> DEFINE n == Len(p.batches)
             b == [p.batches[n] EXCEPT !.sharedAdditive = p.batches[n].sharedAdditive \o l.files]
  <2>2. n \in DOMAIN p.batches /\ IsBatch(p.batches[n])
    BY <1>5, InSeq DEF IsModel
  <2>3. /\ DOMAIN q = ModelFields /\ q.batches = [p.batches EXCEPT ![n] = b]
        /\ \A x \in ModelFields \ {"batches"} : q[x] = p[x]
    <3>1. q = [p EXCEPT !.batches = [p.batches EXCEPT ![n] = b]]
      BY <2>1
    <3> HIDE DEF b, n
    <3> QED BY <1>d, <3>1 DEF ModelFields
  <2>4. IsBatch(b)
    <3>1. DOMAIN b = DOMAIN p.batches[n] /\ b.index = p.batches[n].index /\ b.taskIDs = p.batches[n].taskIDs
          /\ b.sharedAdditive = p.batches[n].sharedAdditive \o l.files
      <4> HIDE DEF n
      <4> QED BY <2>2 DEF IsBatch
    <3>2. IsSeq(l.files)
      BY <1>5 DEF IsLine
    <3>3. IsSeq(p.batches[n].sharedAdditive \o l.files)
      BY <2>2, <3>2, ConcatIsSeq DEF IsBatch
    <3> HIDE DEF b, n
    <3> QED BY <2>2, <3>1, <3>3 DEF IsBatch
  <2> HIDE DEF b, n
  <2>5. IsSeq(q.batches) /\ ToSet(q.batches) \subseteq ToSet(p.batches) \cup {b}
    BY <2>2, <2>3, ExceptIsSeq DEF IsModel
  <2>6. /\ q.reqs = p.reqs /\ q.tcs = p.tcs /\ q.tasks = p.tasks /\ q.currentTask = p.currentTask
        /\ q.currentSection = p.currentSection /\ q.fence = p.fence /\ q.inComment = p.inComment
    BY <2>3 DEF ModelFields
  <2>7. \A x \in ToSet(q.batches) : IsBatch(x)
    BY <2>4, <2>5 DEF IsModel
  <2>8. IsModel(q)
    BY <2>3, <2>5, <2>6, <2>7 DEF IsModel
  <2> QED BY <2>6, <2>8, <1>5 DEF BodyReads, q
<1>6. CASE /\ ~(in("Requirements") /\ l.k = "req") /\ ~(in("Test Plan") /\ l.k = "tc")
           /\ ~(in("Tasks") /\ (declares(l) \/ p.currentTask # <<>>))
           /\ ~(in("Parallel Batches") /\ l.k = "shared" /\ p.batches # <<>>)
  <2>1. q = p
    BY <1>0, <1>6
  <2> QED BY <2>1, <1>6 DEF BodyReads, q
<1> QED BY <1>1, <1>2, <1>3, <1>4, <1>5, <1>6

\* A line before the headings and the body look at it: what is left of it, and
\* the model with the batch it may declare.
seenOf(p, l) == stripComments(p, l)
withBatch(p, l) ==
  [p EXCEPT !.inComment = commentAfter(p, l),
            !.batches = IF seenOf(p, l).k # "batch" THEN @
                        ELSE Append(@, [index |-> seenOf(p, l).index, taskIDs |-> seenOf(p, l).ids,
                                        sharedAdditive |-> <<>>])]

LEMMA BatchKeepsModel ==
  ASSUME NEW p, IsModel(p), NEW l, IsLine(l)
  PROVE  /\ IsModel(withBatch(p, l)) /\ IsLine(seenOf(p, l))
         /\ withBatch(p, l).inComment = commentAfter(p, l)
         /\ \A x \in ModelFields \ {"inComment", "batches"} : withBatch(p, l)[x] = p[x]
<1> DEFINE q == withBatch(p, l)
           seen == seenOf(p, l)
           b == [index |-> seen.index, taskIDs |-> seen.ids, sharedAdditive |-> <<>>]
<1>1. IsLine(seen)
  <2>1. IsLine(Blank)
    BY DEF IsLine, Blank, Bullets
  <2> QED BY <2>1 DEF seenOf, stripComments
<1>2. q = [p EXCEPT !.inComment = commentAfter(p, l),
                    !.batches = IF seen.k # "batch" THEN @ ELSE Append(@, b)]
  BY DEF withBatch
<1> HIDE DEF q, seen
<1>3. /\ DOMAIN q = ModelFields /\ q.inComment = commentAfter(p, l)
      /\ q.batches = IF seen.k # "batch" THEN p.batches ELSE Append(p.batches, b)
      /\ \A x \in ModelFields \ {"inComment", "batches"} : q[x] = p[x]
  <2> HIDE DEF b
  <2> QED BY <1>2 DEF IsModel, ModelFields
<1>4. seen.k = "batch" => IsBatch(b)
  <2>1. DOMAIN b = {"index", "taskIDs", "sharedAdditive"} /\ b.index = seen.index /\ b.taskIDs = seen.ids
        /\ b.sharedAdditive = <<>>
    OBVIOUS
  <2>2. IsSeq(b.sharedAdditive)
    BY <2>1, NothingIsSeq
  <2> HIDE DEF b
  <2> QED BY <1>1, <2>1, <2>2 DEF IsBatch, IsLine
<1> HIDE DEF b
<1>5. IsSeq(q.batches) /\ \A x \in ToSet(q.batches) : IsBatch(x)
  <2>1. CASE seen.k = "batch"
    <3>1. IsSeq(q.batches) /\ ToSet(q.batches) = ToSet(p.batches) \cup {b}
      BY <1>3, <2>1, AppendIsSeq DEF IsModel
    <3> QED BY <3>1, <1>4, <2>1 DEF IsModel
  <2>2. CASE seen.k # "batch"
    BY <1>3, <2>2 DEF IsModel
  <2> QED BY <2>1, <2>2
<1>6. q.reqs = p.reqs /\ q.tcs = p.tcs /\ q.tasks = p.tasks /\ q.currentTask = p.currentTask
  BY <1>3 DEF ModelFields
<1>7. IsModel(q)
  BY <1>3, <1>5, <1>6 DEF IsModel
<1> QED BY <1>1, <1>3, <1>7 DEF q, seen

LEMMA LineIsRead ==
  ASSUME NEW p, NEW l
  PROVE  parseLine(p, l) =
           IF l.k = "fence" /\ p.fence \in {"", l.mark}
           THEN [p EXCEPT !.fence = IF @ = "" THEN l.mark ELSE ""]
           ELSE IF withBatch(p, l).fence # "" \/ withBatch(p, l).inComment THEN withBatch(p, l)
           ELSE IF seenOf(p, l).k \in {"status", "slug", "section"} THEN parseHeading(withBatch(p, l), seenOf(p, l))
           ELSE parseBody(withBatch(p, l), seenOf(p, l))
  BY DEF parseLine, withBatch, seenOf

LEMMA LineKeepsModel ==
  ASSUME NEW p, IsModel(p), NEW l, IsLine(l)
  PROVE  IsModel(parseLine(p, l))
<1> DEFINE q == withBatch(p, l)
<1>1. CASE l.k = "fence" /\ p.fence \in {"", l.mark}
  <2> DEFINE r == parseLine(p, l)
  <2>1. r = [p EXCEPT !.fence = IF @ = "" THEN l.mark ELSE ""]
    BY <1>1, LineIsRead
  <2> HIDE DEF r
  <2>2. DOMAIN r = ModelFields /\ \A x \in ModelFields \ {"fence"} : r[x] = p[x]
    BY <2>1 DEF IsModel, ModelFields
  <2>3. /\ r.reqs = p.reqs /\ r.tcs = p.tcs /\ r.tasks = p.tasks /\ r.batches = p.batches
        /\ r.currentTask = p.currentTask
    BY <2>2 DEF ModelFields
  <2>4. IsModel(r)
    BY <2>2, <2>3 DEF IsModel
  <2> QED BY <2>4 DEF r
<1>2. CASE ~(l.k = "fence" /\ p.fence \in {"", l.mark})
  <2>1. IsModel(q) /\ IsLine(seenOf(p, l))
    BY BatchKeepsModel
  <2> HIDE DEF q
  <2>2. IsModel(parseHeading(q, seenOf(p, l))) /\ IsModel(parseBody(q, seenOf(p, l)))
    BY <2>1, HeadingKeepsModel, BodyKeepsModel
  <2> USE DEF q
  <2> QED BY <1>2, <2>1, <2>2, LineIsRead
<1> QED BY <1>1, <1>2

\* A line that is neither a fence nor a comment, outside of both.
LEMMA PlainLineIsRead ==
  ASSUME NEW p, IsModel(p), NEW l, IsLine(l),
         p.fence = "", p.inComment = FALSE, l.k \notin {"fence", "comment"}
  PROVE  /\ parseLine(p, l).fence = "" /\ parseLine(p, l).inComment = FALSE
         /\ l.k \in {"status", "slug", "section"} =>
              /\ parseLine(p, l).currentTask = <<>>
              /\ ToSet(parseLine(p, l).tasks) = ToSet(p.tasks) \cup ToSet(p.currentTask)
              /\ parseLine(p, l).currentSection
                   = IF l.k \in {"status", "slug"} THEN p.currentSection ELSE l.name
         /\ l.k \notin {"status", "slug", "section"} =>
              BodyReads(p, parseLine(p, l), IF l.k = "endComment" THEN Blank ELSE l)
<1> DEFINE q == withBatch(p, l)
           seen == seenOf(p, l)
<1>1. seen = IF l.k = "endComment" THEN Blank ELSE l
  BY DEF seenOf, stripComments
<1>2. commentAfter(p, l) = FALSE
  BY DEF commentAfter
<1>3. /\ IsModel(q) /\ IsLine(seen) /\ q.inComment = FALSE /\ q.fence = "" /\ q.tasks = p.tasks
      /\ q.currentTask = p.currentTask /\ q.currentSection = p.currentSection
  BY <1>2, BatchKeepsModel DEF ModelFields
<1>4. parseLine(p, l) = IF seen.k \in {"status", "slug", "section"} THEN parseHeading(q, seen) ELSE parseBody(q, seen)
  BY <1>3, LineIsRead
<1>5. seen.k \in {"status", "slug", "section"} <=> l.k \in {"status", "slug", "section"}
  <2> Blank.k = "blank"
    BY DEF Blank
  <2> HIDE DEF seen
  <2> QED BY <1>1
<1> HIDE DEF q, seen
<1>6. CASE l.k \in {"status", "slug", "section"}
  <2> seen = l
    BY <1>1, <1>6
  <2>1. parseLine(p, l) = parseHeading(q, l)
    BY <1>4, <1>6
  <2>2. /\ parseHeading(q, l).currentTask = <<>>
        /\ ToSet(parseHeading(q, l).tasks) = ToSet(q.tasks) \cup ToSet(q.currentTask)
        /\ parseHeading(q, l).currentSection
             = IF l.k \in {"status", "slug"} THEN q.currentSection ELSE l.name
        /\ parseHeading(q, l).fence = q.fence /\ parseHeading(q, l).inComment = q.inComment
    BY <1>3, HeadingKeepsModel
  <2> QED BY <1>3, <1>6, <2>1, <2>2
<1>7. CASE l.k \notin {"status", "slug", "section"}
  <2>1. BodyReads(q, parseBody(q, seen), seen)
    BY <1>3, BodyKeepsModel
  <2>2. BodyReads(p, parseBody(q, seen), seen)
    BY <1>3, <2>1 DEF BodyReads
  <2>3. parseLine(p, l) = parseBody(q, seen)
    BY <1>4, <1>5, <1>7
  <2>4. parseLine(p, l).fence = "" /\ parseLine(p, l).inComment = FALSE
    BY <1>3, <2>1, <2>3 DEF BodyReads
  <2> QED BY <1>1, <1>7, <2>2, <2>3, <2>4
<1> QED BY <1>6, <1>7

\* The linter: what it holds is well formed, and its verdict is that of the
\* validators.
LintRead ==
  /\ form \in Forms
  /\ IsSeq(doc) /\ Len(doc) <= Len(form)
  /\ IsModel(m)
  /\ exit # -1 => Len(doc) = Len(form) /\ errors = validate(m) /\ m.currentTask = <<>>
  /\ exit = 0 => errors = {}

LEMMA LintInitRead == LintInit => LintRead
<1> SUFFICES ASSUME LintInit PROVE LintRead
  OBVIOUS
<1>1. IsSeq(doc) /\ Len(doc) = 0
  BY NothingIsSeq DEF LintInit
<1>2. Len(form) \in Nat
  BY FormsAssumption, InSeq DEF LintInit
<1> QED BY <1>1, <1>2, EmptyIsModel DEF LintInit, LintRead

LEMMA LineOfForm ==
  ASSUME LintRead, ReadLine
  PROVE  \E l : /\ IsLine(l) /\ doc' = Append(doc, l) /\ m' = parseLine(m, l)
                /\ learned' = learnLine(learned, l)
                /\ Len(doc) \in Nat /\ IsSeq(doc') /\ Len(doc') = Len(doc) + 1 /\ Len(doc) < Len(form)
<1>1. PICK l \in form[Len(doc) + 1] :
        doc' = Append(doc, l) /\ m' = parseLine(m, l) /\ learned' = learnLine(learned, l)
  BY DEF ReadLine
<1>2. Len(doc) \in Nat /\ Len(form) \in Nat /\ DOMAIN form = 1..Len(form)
  BY FormsAssumption, InSeq DEF LintRead
<1>3. Len(doc) + 1 \in DOMAIN form
  BY <1>2 DEF ReadLine
<1>4. IsLine(l)
  BY <1>1, <1>3, FormsAssumption DEF LintRead
<1>5. IsSeq(doc')
  BY <1>1, AppendIsSeq DEF LintRead
<1>6. Len(doc') = Len(doc) + 1
  <2>1. doc \in Seq(ToSet(doc) \cup {l})
    BY DEF LintRead, IsSeq
  <2> QED BY <1>1, <2>1
<1> QED BY <1>1, <1>2, <1>4, <1>5, <1>6 DEF ReadLine

LEMMA LintNextReads == LintRead /\ [LintNext]_lintVars => LintRead'
<1> SUFFICES ASSUME LintRead, [LintNext]_lintVars PROVE LintRead'
  OBVIOUS
<1>0. Len(form) \in Nat /\ Len(doc) \in Nat
  BY FormsAssumption, InSeq DEF LintRead
<1>1. CASE ReadLine
  <2>1. PICK l : /\ IsLine(l) /\ doc' = Append(doc, l) /\ m' = parseLine(m, l)
                 /\ IsSeq(doc') /\ Len(doc') = Len(doc) + 1 /\ Len(doc) < Len(form)
    BY <1>1, LineOfForm
  <2>2. IsModel(m')
    BY <2>1, LineKeepsModel DEF LintRead
  <2>3. form' = form /\ errors' = errors /\ exit' = exit
    BY <1>1 DEF ReadLine
  <2>4. exit = -1
    BY <1>0, <2>1 DEF LintRead
  <2> QED BY <1>0, <2>1, <2>2, <2>3, <2>4 DEF LintRead
<1>2. CASE EndOfFile
  <2>1. IsModel(m') /\ m'.currentTask = <<>>
    BY <1>2, FinalizeKeepsModel DEF EndOfFile, LintRead
  <2> QED BY <1>2, <2>1 DEF EndOfFile, LintRead
<1>3. CASE UNCHANGED lintVars
  BY <1>3 DEF lintVars, LintRead
<1> QED BY <1>1, <1>2, <1>3 DEF LintNext

\* The linter's model of the spec is well formed while it reads, and its verdict
\* is that of the validators on the whole file.
THEOREM LintAlwaysRead == LintSpec => []LintRead
<1>1. LintInit => LintRead
  BY LintInitRead
<1>2. LintRead /\ [LintNext]_lintVars => LintRead'
  BY LintNextReads
<1> QED BY <1>1, <1>2, PTL DEF LintSpec

-----------------------------------------------------------------------------
(***************************************************************************)
(* The linter: what a specification without findings is.                   *)
(***************************************************************************)
LEMMA NothingFound == ASSUME NEW rule, NEW subjects, found(rule, subjects) = {} PROVE subjects = {}
  BY DEF found

\* A clean spec has no finding of any validator.
LEMMA CleanSpec ==
  ASSUME LintRead, exit = 0
  PROVE  /\ validateReqCovered(m) = {} /\ validateTCReferenced(m) = {} /\ validateIDFormat(m) = {}
         /\ validateDependsExist(m) = {} /\ validateBatchMembership(m) = {}
         /\ validateBatchFileOverlap(m) = {} /\ validateBatchOrder(m) = {}
         /\ IsModel(m)
  BY DEF LintRead, validate

\* A spec with a slug that the linter passes tests every requirement that has no
\* exemption (validate.go:187-268, 593-607).
THEOREM CleanSpecIsTraced == LintSpec => []CleanSpecTracesRequirements
<1>1. LintRead => CleanSpecTracesRequirements
  <2> SUFFICES ASSUME LintRead, exit = 0, m.slug # "", NEW r \in ToSet(m.reqs), r.noTest # "reason"
               PROVE  \E tc \in ToSet(m.tcs), t \in ToSet(m.tasks) :
                        tc.ref = r.id /\ tc.id \in ToSet(t.tests) /\ tc.id.slug = m.slug
    BY DEF CleanSpecTracesRequirements
  <2>1. r.noTest \in {"absent", "empty"}
    BY CleanSpec DEF IsModel
  <2>2. {r2.id : r2 \in {r2 \in ToSet(m.reqs) :
           IF r2.noTest = "absent" THEN \A tc \in ToSet(m.tcs) : tc.ref # r2.id
           ELSE r2.noTest = "empty"}} = {}
    BY CleanSpec, NothingFound DEF validateReqCovered
  <2>3. PICK tc \in ToSet(m.tcs) : tc.ref = r.id
    BY <2>1, <2>2
  <2>4. TCIds(m) \ UNION {ToSet(t.tests) : t \in ToSet(m.tasks)} = {}
    <3>1. validateTCReferenced(m) = found("tcReferenced", TCIds(m) \ UNION {ToSet(t.tests) : t \in ToSet(m.tasks)})
      BY DEF validateTCReferenced
    <3> QED BY <3>1, CleanSpec, NothingFound
  <2>5. tc.id \in TCIds(m)
    BY DEF TCIds
  <2>6. PICK t \in ToSet(m.tasks) : tc.id \in ToSet(t.tests)
    BY <2>4, <2>5
  <2>7. {x.id : x \in {x \in ToSet(m.tcs) :
           x.id.type \notin registeredTCTypes \/ x.id.digits < 2 \/ (m.slug # "" /\ x.id.slug # m.slug)}}
        \cup {x.id : x \in {x \in ToSet(m.reqs) : m.slug # "" /\ x.id.slug # m.slug}} = {}
    BY CleanSpec, NothingFound DEF validateIDFormat
  <2>8. tc.id.slug = m.slug
    BY <2>7
  <2> QED BY <2>3, <2>6, <2>8
<1> QED BY <1>1, LintAlwaysRead, PTL

LEMMA ListingsAreFinite ==
  ASSUME NEW p, IsModel(p), NEW id
  PROVE  /\ IsFiniteSet(listings(p, id))
         /\ \A i, j : <<i, j>> \in listings(p, id) <=>
              i \in DOMAIN p.batches /\ j \in DOMAIN p.batches[i].taskIDs /\ p.batches[i].taskIDs[j] = id
<1> DEFINE of(i) == {<<i, j>> : j \in {j \in DOMAIN p.batches[i].taskIDs : p.batches[i].taskIDs[j] = id}}
           n == Len(p.batches)
<1>1. n \in Nat /\ DOMAIN p.batches = 1..n /\ \A i \in 1..n : IsBatch(p.batches[i])
  BY InSeq DEF IsModel
<1>2. ASSUME NEW i \in 1..n PROVE IsFiniteSet(of(i))
  <2> DEFINE k == Len(p.batches[i].taskIDs)
  <2>1. k \in Nat /\ DOMAIN p.batches[i].taskIDs = 1..k
    BY <1>1, InSeq DEF IsBatch
  <2> HIDE DEF k
  <2>2. IsFiniteSet(1..k) /\ IsFiniteSet({i})
    <3>1. 1 \in Int /\ k \in Int
      BY <2>1
    <3> QED BY <3>1, FS_Interval, FS_Singleton, Zenon
  <2>3. IsFiniteSet({i} \X (1..k))
    BY <2>2, FS_Product
  <2>4. of(i) \in SUBSET ({i} \X (1..k))
    BY <2>1
  <2> HIDE DEF of
  <2> QED BY <2>3, <2>4, FS_Subset
<1> DEFINE F == [i \in 1..n |-> of(i)]
           S == {of(i) : i \in 1..n}
<1>3. F \in Surjection(1..n, S)
  <2> HIDE DEF of, n
  <2> QED BY DEF Surjection
<1>4. IsFiniteSet(S)
  <2> HIDE DEF F, S
  <2> QED BY <1>1, <1>3, FS_Interval, FS_Surjection
<1>5. IsFiniteSet(UNION S)
  <2>1. \A T \in S : IsFiniteSet(T)
    <3> HIDE DEF of
    <3> QED BY <1>2
  <2> HIDE DEF S
  <2> QED BY <1>4, <2>1, FS_UNION
<1>6. listings(p, id) = UNION S
  BY <1>1 DEF listings
<1>7. \A i, j : <<i, j>> \in listings(p, id) <=>
        i \in DOMAIN p.batches /\ j \in DOMAIN p.batches[i].taskIDs /\ p.batches[i].taskIDs[j] = id
  BY DEF listings
<1> HIDE DEF S
<1> QED BY <1>5, <1>6, <1>7

LEMMA DependsAreTasks ==
  ASSUME LintRead, exit = 0
  PROVE  \A x \in ToSet(m.tasks) : ToSet(x.depends) \subseteq TaskIds(m)
<1> DEFINE named == UNION {ToSet(t.depends) : t \in ToSet(m.tasks)}
<1>1. validateDependsExist(m) = found("dependsExist", named \ TaskIds(m))
  BY DEF validateDependsExist
<1>2. \A x \in ToSet(m.tasks) : ToSet(x.depends) \subseteq named
  OBVIOUS
<1> HIDE DEF named
<1>3. named \ TaskIds(m) = {}
  BY <1>1, CleanSpec, NothingFound, Zenon
<1> QED BY <1>2, <1>3

\* A task that one batch line lists once.
LEMMA ListedOnce ==
  ASSUME LintRead, exit = 0, NEW id \in TaskIds(m)
  PROVE  \E b \in ToSet(m.batches) :
           /\ IsBatch(b) /\ id \in ToSet(b.taskIDs) /\ batchOf(m, id) = {b.index}
           /\ \A c \in ToSet(m.batches) : id \in ToSet(c.taskIDs) => c = b
<1>0. IsModel(m)
  BY CleanSpec
<1>1. IsSeq(m.batches) /\ \A b \in ToSet(m.batches) : IsBatch(b)
  BY <1>0 DEF IsModel
<1>2. {x \in TaskIds(m) : Cardinality(listings(m, x)) # 1} = {}
  <2> validateBatchMembership(m) = found("membership", {x \in TaskIds(m) : Cardinality(listings(m, x)) # 1})
    BY DEF validateBatchMembership
  <2> QED BY CleanSpec, NothingFound
<1>3. PICK x : listings(m, id) = {x}
  BY <1>0, <1>2, ListingsAreFinite, FS_Singleton
<1>4. \A i, j : <<i, j>> = x <=>
        i \in DOMAIN m.batches /\ j \in DOMAIN m.batches[i].taskIDs /\ m.batches[i].taskIDs[j] = id
  <2>1. \A i, j : <<i, j>> \in listings(m, id) <=>
          i \in DOMAIN m.batches /\ j \in DOMAIN m.batches[i].taskIDs /\ m.batches[i].taskIDs[j] = id
    BY <1>0, ListingsAreFinite, Zenon
  <2>2. \A y : y \in listings(m, id) <=> y = x
    BY <1>3
  <2> QED BY <2>1, <2>2, Zenon
<1>5. PICK i, j : x = <<i, j>>
  BY <1>3 DEF listings
<1> DEFINE b == m.batches[i]
<1>6. i \in DOMAIN m.batches /\ j \in DOMAIN b.taskIDs /\ b.taskIDs[j] = id
  BY <1>4, <1>5
<1>7. b \in ToSet(m.batches) /\ IsBatch(b) /\ id \in ToSet(b.taskIDs)
  BY <1>1, <1>6, InSeq DEF ToSet
<1>8. ASSUME NEW k \in DOMAIN m.batches, id \in ToSet(m.batches[k].taskIDs) PROVE k = i
  <2>1. PICK l \in DOMAIN m.batches[k].taskIDs : m.batches[k].taskIDs[l] = id
    BY <1>8 DEF ToSet
  <2>2. <<k, l>> = x
    BY <1>4, <2>1
  <2> QED BY <1>5, <2>2
<1>9. ASSUME NEW c \in ToSet(m.batches), id \in ToSet(c.taskIDs) PROVE c = b
  <2>1. PICK k \in DOMAIN m.batches : m.batches[k] = c
    BY DEF ToSet
  <2> QED BY <1>8, <1>9, <2>1
<1>10. batchOf(m, id) = {b.index}
  <2> DEFINE with == {k \in DOMAIN m.batches : id \in ToSet(m.batches[k].taskIDs)}
  <2>1. with = {i}
    BY <1>6, <1>7, <1>8
  <2>2. DOMAIN m.batches = 1..Len(m.batches) /\ Len(m.batches) \in Nat
    BY <1>1, InSeq
  <2>3. Max(with) \in with
    <3>1. with \in SUBSET (1..Len(m.batches)) /\ with # {}
      BY <2>1, <2>2, <1>6
    <3> HIDE DEF with
    <3> QED BY <2>2, <3>1, HasMax
  <2>4. Max(with) = i
    BY <2>1, <2>3
  <2>5. with # {}
    BY <2>1
  <2>6. batchOf(m, id) = IF with = {} THEN {} ELSE {m.batches[Max(with)].index}
    BY DEF batchOf
  <2> HIDE DEF with
  <2> QED BY <2>4, <2>5, <2>6
<1> HIDE DEF b
<1> QED BY <1>7, <1>9, <1>10

\* With one task of each id, the map of the linter finds it.
LEMMA LastIsOnly ==
  ASSUME NEW p, IsModel(p), \A i, j \in DOMAIN p.tasks : p.tasks[i].id = p.tasks[j].id => i = j,
         NEW t \in ToSet(p.tasks)
  PROVE  lastTask(p, t.id) = t
<1> DEFINE of == {i \in DOMAIN p.tasks : p.tasks[i].id = t.id}
<1>1. DOMAIN p.tasks = 1..Len(p.tasks) /\ Len(p.tasks) \in Nat
  BY InSeq DEF IsModel
<1>2. PICK i \in DOMAIN p.tasks : p.tasks[i] = t
  BY DEF ToSet
<1>3. of \in SUBSET (1..Len(p.tasks)) /\ of # {}
  BY <1>1, <1>2
<1>4. Max(of) \in of
  <2> HIDE DEF of
  <2> QED BY <1>1, <1>3, HasMax
<1>5. Max(of) = i
  BY <1>2, <1>4
<1>6. lastTask(p, t.id) = IF of = {} THEN newTask(t.id) ELSE p.tasks[Max(of)]
  BY DEF lastTask
<1> HIDE DEF of
<1> QED BY <1>2, <1>3, <1>5, <1>6

\* A spec the linter passes runs batch by batch: one batch for every task, after
\* everything it depends on, and no two tasks of it write one file unless that
\* is shared (validate.go:394-481).
THEOREM CleanSpecIsScheduled == LintSpec => []CleanSpecRunsInBatches
<1>1. LintRead => CleanSpecRunsInBatches
  <2> SUFFICES ASSUME LintRead, exit = 0,
                      \A i, j \in DOMAIN m.tasks : m.tasks[i].id = m.tasks[j].id => i = j,
                      NEW t \in ToSet(m.tasks)
               PROVE  \E b \in ToSet(m.batches) :
                        /\ t.id \in ToSet(b.taskIDs)
                        /\ \A c \in ToSet(m.batches) \ {b} : t.id \notin ToSet(c.taskIDs)
                        /\ \A d \in ToSet(t.depends) : \E c \in ToSet(m.batches) :
                             d \in ToSet(c.taskIDs) /\ c.index < b.index /\ d \in TaskIds(m)
                        /\ \A u \in ToSet(m.tasks) : u.id # t.id /\ u.id \in ToSet(b.taskIDs) =>
                             ToSet(t.files) \cap ToSet(u.files) \subseteq ToSet(b.sharedAdditive)
    BY DEF CleanSpecRunsInBatches, Distinct
  <2>0. IsModel(m)
    BY CleanSpec
  <2>1. t.id \in TaskIds(m)
    BY DEF TaskIds
  <2>2. PICK b \in ToSet(m.batches) :
           /\ IsBatch(b) /\ t.id \in ToSet(b.taskIDs) /\ batchOf(m, t.id) = {b.index}
           /\ \A c \in ToSet(m.batches) : t.id \in ToSet(c.taskIDs) => c = b
    BY <2>1, ListedOnce
  <2>3. ASSUME NEW d \in ToSet(t.depends)
        PROVE  \E c \in ToSet(m.batches) : d \in ToSet(c.taskIDs) /\ c.index < b.index /\ d \in TaskIds(m)
    <3>1. d \in TaskIds(m)
      BY DependsAreTasks
    <3>2. PICK c \in ToSet(m.batches) : IsBatch(c) /\ d \in ToSet(c.taskIDs) /\ batchOf(m, d) = {c.index}
      BY <3>1, ListedOnce
    <3>3. {x.id : x \in {x \in ToSet(m.tasks) :
              \E e \in ToSet(x.depends) : \E i \in batchOf(m, x.id), j \in batchOf(m, e) : j >= i}} = {}
      BY CleanSpec, NothingFound DEF validateBatchOrder
    <3>4. ~(c.index >= b.index)
      BY <2>2, <3>2, <3>3
    <3> QED BY <3>1, <3>2, <3>4, <2>2 DEF IsBatch
  <2>4. ASSUME NEW u \in ToSet(m.tasks), u.id # t.id, u.id \in ToSet(b.taskIDs),
               NEW f \in ToSet(t.files) \cap ToSet(u.files)
        PROVE  f \in ToSet(b.sharedAdditive)
    <3>1. PICK i \in DOMAIN b.taskIDs, j \in DOMAIN b.taskIDs : b.taskIDs[i] = t.id /\ b.taskIDs[j] = u.id
      BY <2>2, <2>4 DEF ToSet
    <3>2. PICK x \in DOMAIN t.files, y \in DOMAIN u.files : t.files[x] = f /\ u.files[y] = f
      BY DEF ToSet
    <3>3. lastTask(m, b.taskIDs[i]) = t /\ lastTask(m, b.taskIDs[j]) = u
      BY <2>0, <3>1, LastIsOnly
    <3>4. <<i, x>> \in claims(m, b) /\ <<j, y>> \in claims(m, b)
      BY <3>2, <3>3 DEF claims
    <3>5. claimed(m, b, <<i, x>>) = f /\ claimed(m, b, <<j, y>>) = f
      BY <3>2, <3>3 DEF claimed
    <3>6. <<j, y>> # <<i, x>>
      BY <2>4, <3>1
    <3>7. f \in claimedTwice(m, b)
      BY <3>4, <3>5, <3>6 DEF claimedTwice
    <3>8. {c.index : c \in {c \in ToSet(m.batches) : claimedTwice(m, c) \ ToSet(c.sharedAdditive) # {}}} = {}
      BY CleanSpec, NothingFound DEF validateBatchFileOverlap
    <3> QED BY <3>7, <3>8
  <2>5. \A c \in ToSet(m.batches) \ {b} : t.id \notin ToSet(c.taskIDs)
    BY <2>2
  <2>6. /\ t.id \in ToSet(b.taskIDs)
        /\ \A u \in ToSet(m.tasks) : u.id # t.id /\ u.id \in ToSet(b.taskIDs) =>
              ToSet(t.files) \cap ToSet(u.files) \subseteq ToSet(b.sharedAdditive)
    BY <2>2, <2>4
  <2> QED BY <2>3, <2>5, <2>6
<1> QED BY <1>1, LintAlwaysRead, PTL

-----------------------------------------------------------------------------
(***************************************************************************)
(* The linter and learning read the same tasks.                            *)
(***************************************************************************)
\* What the ingester holds: at most one open block, of a task, and the entries of
\* the execution log, which are of another kind.
IsLearned(q) ==
  /\ DOMAIN q = {"status", "records", "block", "inExecLog", "entry"}
  /\ IsSeq(q.records)
  /\ IsSeq(q.block) /\ Len(q.block) <= 1
  /\ \A b \in ToSet(q.block) : DOMAIN b = {"kind", "id", "tokens"} /\ IsSeq(b.tokens)
  /\ IsSeq(q.entry) /\ \A e \in ToSet(q.entry) : DOMAIN e = {"kind", "id", "tokens"} /\ e.kind = "spec-tdd-step"
  /\ q.inExecLog \in BOOLEAN /\ (q.inExecLog => q.block = <<>>)

\* What one line may add to it.
Adds(l) == {"(none)"} \cup IF l.k = "files" THEN ToSet(splitFiles(l)) ELSE {}
LineLearns(q, r, l) ==
  /\ \A x \in ToSet(r.records) : x.kind = "spec-task" => x \in ToSet(q.records) \cup ToSet(q.block)
  /\ \A b \in ToSet(r.block) :
       \/ takes(l) /\ b.id = l.id /\ b.tokens = <<>>
       \/ /\ l.k \notin {"status", "slug", "section"} /\ (l.k = "task" => l.indented)
          /\ \E a \in ToSet(q.block) :
               /\ b.id = a.id
               /\ ToSet(b.tokens) \subseteq ToSet(a.tokens) \cup Adds(l)

LEMMA OnlyOne ==
  ASSUME NEW s, IsSeq(s), Len(s) <= 1, s # <<>>
  PROVE  s = <<s[1]>> /\ ToSet(s) = {s[1]}
<1> DEFINE n == Len(s)
<1>1. n \in Nat /\ DOMAIN s = 1..n /\ n \in 1..n /\ n <= 1 /\ s \in Seq(ToSet(s))
  BY InSeq
<1>2. n = 1
  <2> HIDE DEF n
  <2> QED BY <1>1
<1>3. s = <<s[1]>>
  BY <1>1, <1>2
<1> QED BY <1>3, ShortSeqs

LEMMA FlushesKeep ==
  ASSUME NEW q, IsLearned(q)
  PROVE  /\ IsLearned(flushTask(q)) /\ flushTask(q).block = <<>>
         /\ ToSet(flushTask(q).records) = ToSet(q.records) \cup ToSet(q.block)
         /\ flushTask(q).entry = q.entry /\ flushTask(q).inExecLog = q.inExecLog
         /\ flushTask(q).status = q.status
         /\ IsLearned(flushLog(q)) /\ flushLog(q).entry = <<>> /\ flushLog(q).block = q.block
         /\ ToSet(flushLog(q).records) = ToSet(q.records) \cup ToSet(q.entry)
         /\ flushLog(q).inExecLog = q.inExecLog /\ flushLog(q).status = q.status
<1> DEFINE t == flushTask(q)
           g == flushLog(q)
<1>1. /\ DOMAIN t = DOMAIN q /\ t.records = q.records \o q.block /\ t.block = <<>>
      /\ t.entry = q.entry /\ t.inExecLog = q.inExecLog /\ t.status = q.status
  BY DEF flushTask, IsLearned
<1>2. /\ DOMAIN g = DOMAIN q /\ g.records = q.records \o q.entry /\ g.entry = <<>>
      /\ g.block = q.block /\ g.inExecLog = q.inExecLog /\ g.status = q.status
  BY DEF flushLog, IsLearned
<1> HIDE DEF t, g
<1>3. IsSeq(t.records) /\ ToSet(t.records) = ToSet(q.records) \cup ToSet(q.block)
  BY <1>1, ConcatIsSeq DEF IsLearned
<1>4. IsSeq(g.records) /\ ToSet(g.records) = ToSet(q.records) \cup ToSet(q.entry)
  BY <1>2, ConcatIsSeq DEF IsLearned
<1>5. IsLearned(t)
  BY <1>1, <1>3, NothingIsSeq DEF IsLearned
<1>6. IsLearned(g)
  BY <1>2, <1>4, NothingIsSeq DEF IsLearned
<1> QED BY <1>1, <1>2, <1>3, <1>4, <1>5, <1>6 DEF t, g

flushed(q) == IF q.inExecLog THEN flushLog(flushTask(q)) ELSE flushTask(q)

LEMMA LearnedFlushed ==
  ASSUME NEW q, IsLearned(q)
  PROVE  /\ IsLearned(flushed(q)) /\ flushed(q).block = <<>>
         /\ \A x \in ToSet(flushed(q).records) : x.kind = "spec-task" => x \in ToSet(q.records) \cup ToSet(q.block)
<1> DEFINE f == flushed(q)
<1>1. IsLearned(f) /\ f.block = <<>>
  BY FlushesKeep DEF flushed
<1>2. \A x \in ToSet(f.records) : x.kind = "spec-task" => x \in ToSet(q.records) \cup ToSet(q.block)
  <2>1. CASE q.inExecLog
    <3>1. /\ IsLearned(flushTask(q)) /\ flushTask(q).entry = q.entry
          /\ ToSet(flushTask(q).records) = ToSet(q.records) \cup ToSet(q.block)
      BY FlushesKeep
    <3>2. ToSet(f.records) = (ToSet(q.records) \cup ToSet(q.block)) \cup ToSet(q.entry)
      BY <2>1, <3>1, FlushesKeep DEF flushed
    <3> HIDE DEF f
    <3>3. \A e \in ToSet(q.entry) : e.kind # "spec-task"
      BY DEF IsLearned
    <3> QED BY <3>2, <3>3
  <2>2. CASE ~q.inExecLog
    BY <2>2, FlushesKeep DEF flushed
  <2> QED BY <2>1, <2>2
<1> QED BY <1>1, <1>2

LEMMA HeadingLearns ==
  ASSUME NEW q, IsLearned(q), NEW l
  PROVE  IsLearned(learnHeading(q, l)) /\ LineLearns(q, learnHeading(q, l), l)
<1> DEFINE f == flushed(q)
           r == learnHeading(q, l)
<1>1. IsLearned(f) /\ f.block = <<>>
  BY LearnedFlushed
<1>2. \A x \in ToSet(f.records) : x.kind = "spec-task" => x \in ToSet(q.records) \cup ToSet(q.block)
  BY LearnedFlushed
<1>3. r = [f EXCEPT !.inExecLog = l.k = "section" /\ l.name = "Execution Log",
                    !.status = IF l.k = "status" /\ l.bare THEN l.token ELSE @]
  BY DEF learnHeading, flushed
<1> HIDE DEF f, r
<1>4. /\ DOMAIN r = DOMAIN f /\ r.records = f.records /\ r.block = f.block /\ r.entry = f.entry
      /\ r.inExecLog \in BOOLEAN
  BY <1>1, <1>3 DEF IsLearned
<1>5. IsLearned(r)
  BY <1>1, <1>4 DEF IsLearned
<1>6. ToSet(r.block) = {}
  BY <1>1, <1>4, NothingIsSeq
<1>7. LineLearns(q, r, l)
  BY <1>2, <1>4, <1>6 DEF LineLearns
<1> QED BY <1>5, <1>7 DEF r

LEMMA LogLearns ==
  ASSUME NEW q, IsLearned(q), q.inExecLog, NEW l
  PROVE  IsLearned(learnLog(q, l)) /\ LineLearns(q, learnLog(q, l), l)
<1> DEFINE r == learnLog(q, l)
<1>0. q.block = <<>> /\ ToSet(q.block) = {}
  BY NothingIsSeq DEF IsLearned
<1>1. CASE l.k = "log"
  <2> DEFINE f == flushLog(q)
             e == [kind |-> "spec-tdd-step", id |-> l.id, tokens |-> <<>>]
  <2>1. IsLearned(f) /\ f.block = <<>> /\ ToSet(f.records) = ToSet(q.records) \cup ToSet(q.entry)
    BY <1>0, FlushesKeep
  <2>2. r = [f EXCEPT !.entry = <<e>>]
    BY <1>1 DEF learnLog
  <2>3. DOMAIN e = {"kind", "id", "tokens"} /\ e.kind = "spec-tdd-step"
    OBVIOUS
  <2> HIDE DEF f, e, r
  <2>4. DOMAIN r = DOMAIN f /\ r.records = f.records /\ r.block = f.block /\ r.entry = <<e>>
        /\ r.inExecLog = f.inExecLog
    BY <2>1, <2>2 DEF IsLearned
  <2>5. IsSeq(r.entry) /\ ToSet(r.entry) = {e}
    BY <2>4, ShortSeqs
  <2>6. IsLearned(r)
    BY <2>1, <2>3, <2>4, <2>5 DEF IsLearned
  <2>7. \A x \in ToSet(q.entry) : x.kind # "spec-task"
    BY DEF IsLearned
  <2>8. ToSet(r.block) = {}
    BY <2>1, <2>4, NothingIsSeq
  <2>9. LineLearns(q, r, l)
    BY <2>1, <2>4, <2>7, <2>8 DEF LineLearns
  <2> QED BY <2>6, <2>9 DEF r
<1>2. CASE l.k = "tdd" /\ q.entry # <<>>
  <2> DEFINE e == [q.entry[1] EXCEPT !.tokens = <<"RED", "GREEN", "REFACTOR">>]
  <2>1. 1 \in DOMAIN q.entry /\ q.entry[1] \in ToSet(q.entry)
    BY <1>2, InSeq DEF IsLearned
  <2>2. r = [q EXCEPT !.entry = [q.entry EXCEPT ![1] = e]]
    BY <1>2 DEF learnLog
  <2>3. DOMAIN e = {"kind", "id", "tokens"} /\ e.kind = "spec-tdd-step"
    <3>1. DOMAIN q.entry[1] = {"kind", "id", "tokens"} /\ q.entry[1].kind = "spec-tdd-step"
      BY <2>1 DEF IsLearned
    <3> QED BY <3>1
  <2> HIDE DEF e, r
  <2>4. DOMAIN r = DOMAIN q /\ r.records = q.records /\ r.block = q.block /\ r.inExecLog = q.inExecLog
        /\ r.entry = [q.entry EXCEPT ![1] = e]
    BY <2>2 DEF IsLearned
  <2>5. IsSeq(r.entry) /\ ToSet(r.entry) \subseteq ToSet(q.entry) \cup {e}
    BY <2>1, <2>4, ExceptIsSeq DEF IsLearned
  <2>6. \A x \in ToSet(r.entry) : DOMAIN x = {"kind", "id", "tokens"} /\ x.kind = "spec-tdd-step"
    BY <2>3, <2>5 DEF IsLearned
  <2>7. IsLearned(r)
    BY <2>4, <2>5, <2>6 DEF IsLearned
  <2>8. LineLearns(q, r, l)
    BY <1>0, <2>4 DEF LineLearns
  <2> QED BY <2>7, <2>8 DEF r
<1>3. CASE l.k # "log" /\ ~(l.k = "tdd" /\ q.entry # <<>>)
  <2>1. r = q
    BY <1>3 DEF learnLog
  <2>2. LineLearns(q, q, l)
    BY <1>0 DEF LineLearns
  <2> QED BY <2>1, <2>2 DEF r
<1> QED BY <1>1, <1>2, <1>3

\* The body of a task: its block takes tokens.
LEMMA BlockTakes ==
  ASSUME NEW q, IsLearned(q), q.block # <<>>, NEW l, l.k \notin {"task", "status", "slug", "section"},
         NEW tokens, IsSeq(tokens),
         ToSet(tokens) \subseteq ToSet(q.block[1].tokens) \cup Adds(l),
         NEW r, r = [q EXCEPT !.block = [q.block EXCEPT ![1] = [q.block[1] EXCEPT !.tokens = tokens]]]
  PROVE  IsLearned(r) /\ LineLearns(q, r, l)
<1> DEFINE a == q.block[1]
           b == [a EXCEPT !.tokens = tokens]
<1>1. q.block = <<a>> /\ ToSet(q.block) = {a} /\ DOMAIN a = {"kind", "id", "tokens"} /\ IsSeq(a.tokens)
  <2>1. q.block = <<a>> /\ ToSet(q.block) = {a}
    BY OnlyOne DEF IsLearned
  <2>2. a \in ToSet(q.block)
    BY <2>1
  <2> HIDE DEF a
  <2> QED BY <2>1, <2>2 DEF IsLearned
<1>2. r = [q EXCEPT !.block = [q.block EXCEPT ![1] = b]]
  OBVIOUS
<1> HIDE DEF a
<1>3. DOMAIN b = {"kind", "id", "tokens"} /\ b.tokens = tokens /\ b.id = a.id
  BY <1>1
<1> HIDE DEF b
<1>4. /\ DOMAIN r = DOMAIN q /\ r.records = q.records /\ r.entry = q.entry /\ r.inExecLog = q.inExecLog
      /\ r.block = [q.block EXCEPT ![1] = b]
  BY <1>2 DEF IsLearned
<1>5. r.block = <<b>>
  BY <1>1, <1>4
<1>6. IsSeq(r.block) /\ ToSet(r.block) = {b} /\ Len(r.block) = 1
  BY <1>5, ShortSeqs
<1>7. q.inExecLog = FALSE
  BY <1>1, ShortSeqs DEF IsLearned
<1>8. IsLearned(r)
  BY <1>3, <1>4, <1>6, <1>7 DEF IsLearned
<1>9. LineLearns(q, r, l)
  <2>1. \A x \in ToSet(r.block) : x.id = a.id /\ ToSet(x.tokens) \subseteq
            ToSet(a.tokens) \cup Adds(l)
    BY <1>3, <1>6 DEF a
  <2>2. a \in ToSet(q.block)
    BY <1>1
  <2> QED BY <1>4, <2>1, <2>2 DEF LineLearns
<1> QED BY <1>8, <1>9

LEMMA SplitIsSeq ==
  ASSUME NEW l, IsSeq(l.files)
  PROVE  /\ IsSeq(splitFiles(l))
         /\ l.commas \/ Len(l.files) <= 1 => ToSet(splitFiles(l)) = {f.path : f \in ToSet(l.files)}
<1> DEFINE s == splitFiles(l)
           n == Len(l.files)
<1>1. n \in Nat /\ DOMAIN l.files = 1..n
  BY InSeq
<1>2. CASE l.commas \/ n <= 1
  <2>1. s = [i \in 1..n |-> l.files[i].path]
    BY <1>1, <1>2 DEF splitFiles
  <2> HIDE DEF s
  <2>2. \A i \in 1..n : s[i] \in ToSet(s)
    BY <2>1 DEF ToSet
  <2>3. s \in Seq(ToSet(s))
    BY <1>1, <2>1, <2>2
  <2>4. ToSet(s) = {f.path : f \in ToSet(l.files)}
    BY <1>1, <2>1 DEF ToSet
  <2> QED BY <2>3, <2>4 DEF s, IsSeq
<1>3. CASE ~(l.commas \/ n <= 1)
  BY <1>3, ShortSeqs DEF splitFiles
<1> QED BY <1>2, <1>3

LEMMA BodyLearns ==
  ASSUME NEW q, IsLearned(q), q.inExecLog = FALSE, NEW l, IsLine(l), l.k \notin {"status", "slug", "section"}
  PROVE  IsLearned(learnBody(q, l)) /\ LineLearns(q, learnBody(q, l), l)
<1> DEFINE r == learnBody(q, l)
           f == flushTask(q)
<1>0. /\ IsLearned(f) /\ f.block = <<>> /\ ToSet(f.records) = ToSet(q.records) \cup ToSet(q.block)
      /\ f.inExecLog = FALSE
  BY FlushesKeep
<1>1. CASE takes(l)
  <2> DEFINE b == [kind |-> "spec-task", id |-> l.id, tokens |-> <<>>]
  <2>1. r = [f EXCEPT !.block = <<b>>]
    BY <1>1 DEF learnBody
  <2>2. DOMAIN b = {"kind", "id", "tokens"} /\ b.id = l.id /\ b.tokens = <<>>
    OBVIOUS
  <2>3. IsSeq(b.tokens)
    BY <2>2, NothingIsSeq
  <2> HIDE DEF r, f, b
  <2>4. DOMAIN r = DOMAIN f /\ r.records = f.records /\ r.entry = f.entry /\ r.inExecLog = FALSE /\ r.block = <<b>>
    BY <1>0, <2>1 DEF IsLearned
  <2>5. IsSeq(r.block) /\ ToSet(r.block) = {b} /\ Len(r.block) = 1
    BY <2>4, ShortSeqs
  <2>6. IsLearned(r)
    <3>1. \A x \in ToSet(r.block) : DOMAIN x = {"kind", "id", "tokens"} /\ IsSeq(x.tokens)
      BY <2>2, <2>3, <2>5
    <3>2. /\ DOMAIN r = {"status", "records", "block", "inExecLog", "entry"} /\ IsSeq(r.records) /\ IsSeq(r.entry)
          /\ \A e \in ToSet(r.entry) : DOMAIN e = {"kind", "id", "tokens"} /\ e.kind = "spec-tdd-step"
      BY <1>0, <2>4 DEF IsLearned
    <3>3. Len(r.block) <= 1
      BY <2>5
    <3>4. r.inExecLog \in BOOLEAN /\ (r.inExecLog => r.block = <<>>)
      BY <2>4, Zenon
    <3> QED BY <2>5, <3>1, <3>2, <3>3, <3>4, Zenon DEF IsLearned
  <2>7. LineLearns(q, r, l)
    BY <1>0, <1>1, <2>2, <2>4, <2>5 DEF LineLearns
  <2> QED BY <2>6, <2>7 DEF r
<1>2. CASE ~takes(l) /\ l.k = "files" /\ l.indented /\ q.block # <<>>
  <2> DEFINE tokens == q.block[1].tokens \o splitFiles(l)
  <2>1. r = [q EXCEPT !.block = [q.block EXCEPT ![1] = [q.block[1] EXCEPT !.tokens = tokens]]]
    BY <1>2 DEF learnBody, endsBlock, Bullets
  <2>2. IsSeq(q.block[1].tokens)
    <3>1. q.block[1] \in ToSet(q.block)
      BY <1>2, InSeq DEF IsLearned
    <3> QED BY <3>1 DEF IsLearned
  <2>3. IsSeq(tokens) /\ ToSet(tokens) = ToSet(q.block[1].tokens) \cup ToSet(splitFiles(l))
    BY <1>2, <2>2, ConcatIsSeq, SplitIsSeq DEF IsLine
  <2> HIDE DEF r, tokens
  <2> QED BY <1>2, <2>1, <2>3, BlockTakes DEF r, Adds
<1>3. CASE ~takes(l) /\ l.k = "none" /\ l.indented /\ q.block # <<>>
  <2> DEFINE tokens == Append(q.block[1].tokens, "(none)")
  <2>1. r = [q EXCEPT !.block = [q.block EXCEPT ![1] = [q.block[1] EXCEPT !.tokens = tokens]]]
    BY <1>3 DEF learnBody, endsBlock, Bullets
  <2>2. IsSeq(q.block[1].tokens)
    <3>1. q.block[1] \in ToSet(q.block)
      BY <1>3, InSeq DEF IsLearned
    <3> QED BY <3>1 DEF IsLearned
  <2>3. IsSeq(tokens) /\ ToSet(tokens) = ToSet(q.block[1].tokens) \cup {"(none)"}
    BY <2>2, AppendIsSeq
  <2> HIDE DEF r, tokens
  <2> QED BY <1>3, <2>1, <2>3, BlockTakes DEF r, Adds
<1>4. CASE ~takes(l) /\ endsBlock(l)
  <2>1. r = f
    BY <1>4 DEF learnBody, endsBlock, Bullets
  <2>2. ToSet(f.block) = {}
    BY <1>0, NothingIsSeq
  <2> HIDE DEF r, f
  <2>3. LineLearns(q, r, l)
    BY <1>0, <2>1, <2>2 DEF LineLearns
  <2> QED BY <1>0, <2>1, <2>3 DEF r
<1>5. CASE /\ ~takes(l) /\ ~endsBlock(l)
           /\ ~(l.k \in {"files", "none"} /\ l.indented /\ q.block # <<>>)
  <2>1. r = q
    BY <1>5 DEF learnBody
  <2>2. LineLearns(q, q, l)
    <3>1. l.k = "task" => l.indented
      BY <1>5 DEF endsBlock, Bullets, IsLine
    <3> QED BY <3>1 DEF LineLearns
  <2> QED BY <2>1, <2>2 DEF r
<1> QED BY <1>1, <1>2, <1>3, <1>4, <1>5

LEMMA LineIsLearned ==
  ASSUME NEW q, IsLearned(q), NEW l, IsLine(l)
  PROVE  IsLearned(learnLine(q, l)) /\ LineLearns(q, learnLine(q, l), l)
<1>1. CASE l.k \in {"status", "slug", "section"}
  BY <1>1, HeadingLearns DEF learnLine
<1>2. CASE l.k \notin {"status", "slug", "section"} /\ q.inExecLog
  BY <1>2, LogLearns DEF learnLine
<1>3. CASE l.k \notin {"status", "slug", "section"} /\ ~q.inExecLog
  <2> q.inExecLog = FALSE
    BY <1>3 DEF IsLearned
  <2> QED BY <1>3, BodyLearns DEF learnLine
<1> QED BY <1>1, <1>2, <1>3

LEMMA EndIsLearned ==
  ASSUME NEW q, IsLearned(q)
  PROVE  IsLearned(learnEnd(q)) /\ learnEnd(q).block = <<>> /\
         \A x \in ToSet(learnEnd(q).records) : x.kind = "spec-task" => x \in ToSet(q.records) \cup ToSet(q.block)
<1> DEFINE f == flushed(q)
           r == learnEnd(q)
<1>1. IsLearned(f) /\ f.block = <<>>
  BY LearnedFlushed
<1>2. \A x \in ToSet(f.records) : x.kind = "spec-task" => x \in ToSet(q.records) \cup ToSet(q.block)
  BY LearnedFlushed
<1> DEFINE x0 == [kind |-> "spec-status-transition", id |-> "", tokens |-> <<q.status>>]
<1>3. r = IF q.status \in {"IN_PROGRESS", "DONE", "FAILED"} THEN [f EXCEPT !.records = <<x0>> \o @] ELSE f
  BY DEF learnEnd, flushed
<1>4. x0.kind # "spec-task"
  OBVIOUS
<1> HIDE DEF f, x0, r
<1>5. CASE q.status \in {"IN_PROGRESS", "DONE", "FAILED"}
  <2>1. /\ DOMAIN r = DOMAIN f /\ r.records = <<x0>> \o f.records /\ r.block = f.block /\ r.entry = f.entry
        /\ r.inExecLog = f.inExecLog
    BY <1>1, <1>3, <1>5 DEF IsLearned
  <2>2. IsSeq(r.records) /\ ToSet(r.records) = {x0} \cup ToSet(f.records)
    <3>1. IsSeq(<<x0>>) /\ ToSet(<<x0>>) = {x0}
      BY ShortSeqs
    <3> QED BY <1>1, <2>1, <3>1, ConcatIsSeq DEF IsLearned
  <2>3. IsLearned(r)
    BY <1>1, <2>1, <2>2 DEF IsLearned
  <2> QED BY <1>1, <1>2, <1>4, <2>1, <2>2, <2>3 DEF r
<1>6. CASE q.status \notin {"IN_PROGRESS", "DONE", "FAILED"}
  <2> r = f
    BY <1>3, <1>6
  <2> QED BY <1>1, <1>2 DEF r
<1> QED BY <1>5, <1>6

tasksHeading == [k |-> "section", name |-> "Tasks"]

\* Nothing is hidden in fences or comments; both readers take all lines alike.
Plain(d) == \A i \in DOMAIN d : d[i].k \notin {"fence", "comment"}
Alike(d) == \A i \in DOMAIN d : readAlike(d[i])

InTasks(d) == \E j \in DOMAIN d : d[j] = tasksHeading /\ \A n \in (j + 1)..Len(d) : d[n].k # "section"

\* What a record says of a task is what the linter's model says of it.
Paths(t) == {f.path : f \in ToSet(t.files)}
SaysOf(r, t) == t.id = r.id /\ ToSet(r.tokens) \ {"(none)"} \subseteq Paths(t)

Declared(p) == ToSet(p.tasks) \cup ToSet(p.currentTask)

\* The linter has read what a record says, but for tasks it overlooks.
Told(r) == r.id \notin undeclared(doc) =>
  \E t \in Declared(m) : t.id = r.id /\ (Alike(doc) => SaysOf(r, t))

\* The two readers go side by side.
SideBySide ==
  /\ m.fence = "" /\ m.inComment = FALSE
  /\ InTasks(doc) => m.currentSection = "Tasks"
  /\ \A r \in ToSet(learned.records) : r.kind = "spec-task" => Told(r)
  /\ \A b \in ToSet(learned.block) : Told(b) /\
       (b.id \notin undeclared(doc) /\ Alike(doc) =>
          m.currentSection = "Tasks" /\ \E t \in ToSet(m.currentTask) : SaysOf(b, t))

LintLearned == IsLearned(learned) /\ (Plain(doc) => SideBySide)

LEMMA PlainPrefix ==
  ASSUME NEW d, IsSeq(d), NEW l, Plain(Append(d, l))
  PROVE  /\ Plain(d) /\ l.k \notin {"fence", "comment"}
         /\ undeclared(d) \subseteq undeclared(Append(d, l))
         /\ takes(l) /\ l.id \notin undeclared(Append(d, l)) => declares(l) /\ InTasks(d)
         /\ Alike(Append(d, l)) => Alike(d) /\ readAlike(l)
         /\ InTasks(Append(d, l)) => l = tasksHeading \/ (l.k # "section" /\ InTasks(d))
<1> DEFINE e == Append(d, l)
           n == Len(d)
<1>1. n \in Nat /\ DOMAIN d = 1..n
  BY InSeq
<1>2. Len(e) = n + 1 /\ DOMAIN e = 1..(n + 1) /\ e[n + 1] = l /\ \A i \in 1..n : e[i] = d[i]
  <2>1. d \in Seq(ToSet(d) \cup {l})
    BY DEF IsSeq
  <2> QED BY <1>1, <2>1
<1>3. Plain(e)
  OBVIOUS
<1> HIDE DEF e, n
<1>4. \A i \in 1..n : i \in 1..(n + 1)
  BY <1>1
<1>5. n + 1 \in 1..(n + 1)
  BY <1>1
<1>6. Plain(d)
  BY <1>1, <1>2, <1>3, <1>4 DEF Plain
<1>7. l.k \notin {"fence", "comment"}
  BY <1>2, <1>3, <1>5 DEF Plain
<1>8. ASSUME NEW j \in 1..(n + 1), e[j] = tasksHeading, \A k \in (j + 1)..(n + 1) : e[k].k # "section", l # tasksHeading
      PROVE  InTasks(d) /\ l.k # "section"
  <2>1. j \in 1..n
    BY <1>1, <1>2, <1>8
  <2>2. n + 1 \in (j + 1)..(n + 1) /\ \A k \in (j + 1)..n : k \in (j + 1)..(n + 1) /\ k \in 1..n
    BY <1>1, <2>1
  <2>3. d[j] = tasksHeading /\ \A k \in (j + 1)..n : d[k].k # "section"
    BY <1>2, <1>8, <2>1, <2>2
  <2>4. l.k # "section"
    BY <1>2, <1>8, <2>2
  <2> QED BY <1>1, <2>1, <2>3, <2>4 DEF InTasks, n
<1>9. ASSUME takes(l), l.id \notin undeclared(e) PROVE declares(l) /\ InTasks(d)
  <2>1. takes(e[n + 1]) /\ e[n + 1].id = l.id
    BY <1>2, <1>9
  <2>2. declares(e[n + 1]) /\ underTasks(e, n + 1)
    BY <1>2, <1>5, <1>9, <2>1 DEF undeclared
  <2>3. PICK j \in 1..(n + 1) : e[j] = tasksHeading /\ \A k \in (j + 1)..(n + 1) : e[k].k # "section"
    BY <2>2 DEF underTasks, tasksHeading
  <2>4. tasksHeading.k = "section" /\ l.k = "task"
    BY <1>9 DEF tasksHeading, takes
  <2>5. l # tasksHeading
    BY <2>4
  <2> QED BY <1>2, <1>8, <2>2, <2>3, <2>5
<1>11. ASSUME NEW i \in 1..n, underTasks(e, i) PROVE underTasks(d, i)
  <2>1. PICK j \in 1..i : e[j] = [k |-> "section", name |-> "Tasks"] /\ \A k \in (j + 1)..i : e[k].k # "section"
    BY <1>11 DEF underTasks
  <2>2. j \in 1..n /\ \A k \in (j + 1)..i : k \in 1..n
    BY <1>1
  <2> QED BY <2>1, <2>2, <1>2 DEF underTasks
<1>12. undeclared(d) \subseteq undeclared(e)
  <2>1. ASSUME NEW i \in DOMAIN d, takes(d[i]), ~(declares(d[i]) /\ underTasks(d, i))
        PROVE  d[i].id \in undeclared(e)
    <3>1. i \in 1..n /\ i \in DOMAIN e /\ e[i] = d[i]
      BY <1>1, <1>2, <1>4
    <3>2. ~(declares(e[i]) /\ underTasks(e, i))
      BY <1>11, <2>1, <3>1
    <3> QED BY <2>1, <3>1, <3>2 DEF undeclared
  <2> QED BY <2>1 DEF undeclared
<1>13. Alike(e) => Alike(d) /\ readAlike(l)
  BY <1>1, <1>2, <1>4, <1>5 DEF Alike
<1>10. InTasks(e) => l = tasksHeading \/ (l.k # "section" /\ InTasks(d))
  BY <1>2, <1>8 DEF InTasks
<1> QED BY <1>6, <1>7, <1>9, <1>10, <1>12, <1>13 DEF e

\* What the linter held of a task it holds after the next line too.
Keeps(p, q, l) ==
  /\ \A t \in Declared(p) : \E u \in Declared(q) : u.id = t.id /\ ToSet(t.files) \subseteq ToSet(u.files)
  /\ p.currentSection = "Tasks" /\ declares(l) =>
       q.currentSection = "Tasks" /\ ToSet(q.currentTask) = {newTask(l.id)}
  /\ p.currentSection = "Tasks" /\ ~declares(l) /\ l.k \notin {"status", "slug", "section"} =>
       /\ q.currentSection = "Tasks"
       /\ \A t \in ToSet(p.currentTask) : \E u \in ToSet(q.currentTask) :
            u.id = t.id /\ ToSet(u.files) = ToSet(t.files) \cup IF l.k = "files" THEN ToSet(l.files) ELSE {}
  /\ l = tasksHeading \/ (l.k # "section" /\ p.currentSection = "Tasks") => q.currentSection = "Tasks"

LEMMA PlainKeeps ==
  ASSUME NEW p, IsModel(p), NEW l, IsLine(l), p.fence = "", p.inComment = FALSE, l.k \notin {"fence", "comment"}
  PROVE  Keeps(p, parseLine(p, l), l)
<1> DEFINE q == parseLine(p, l)
           seen == IF l.k = "endComment" THEN Blank ELSE l
<1>1. CASE l.k \in {"status", "slug", "section"}
  <2>1. /\ q.currentTask = <<>> /\ ToSet(q.tasks) = ToSet(p.tasks) \cup ToSet(p.currentTask)
        /\ q.currentSection = IF l.k \in {"status", "slug"} THEN p.currentSection ELSE l.name
    BY <1>1, PlainLineIsRead
  <2>2. l = tasksHeading => l.k = "section" /\ l.name = "Tasks"
    <3> tasksHeading.k = "section" /\ tasksHeading.name = "Tasks"
      BY DEF tasksHeading
    <3> QED OBVIOUS
  <2> HIDE DEF q
  <2> QED BY <1>1, <2>1, <2>2 DEF Declared, Keeps, declares, q
<1>2. CASE l.k \notin {"status", "slug", "section"}
  <2>1. BodyReads(p, q, seen)
    BY <1>2, PlainLineIsRead
  <2>2. IsLine(seen) /\ (declares(seen) <=> declares(l)) /\ (seen.k = "files" <=> l.k = "files")
        /\ (declares(l) => seen.id = l.id) /\ (l.k = "files" => seen.files = l.files)
    <3>1. IsLine(Blank) /\ Blank.k = "blank"
      BY DEF IsLine, Blank, Bullets
    <3> QED BY <3>1 DEF declares
  <2> HIDE DEF q, seen
  <2>3. q.currentSection = p.currentSection
    BY <2>1 DEF BodyReads
  <2>4. l # tasksHeading
    <3> tasksHeading.k = "section"
      BY DEF tasksHeading
    <3> QED BY <1>2
  <2>5. CASE p.currentSection = "Tasks" /\ declares(l)
    <3>1. q.currentTask = <<newTask(l.id)>> /\ ToSet(q.tasks) = ToSet(p.tasks) \cup ToSet(p.currentTask)
      BY <2>1, <2>2, <2>5 DEF BodyReads
    <3>2. ToSet(q.currentTask) = {newTask(l.id)}
      BY <3>1, ShortSeqs
    <3> QED BY <2>3, <2>4, <2>5, <3>1, <3>2 DEF Declared, Keeps, q
  <2>6. CASE p.currentSection = "Tasks" /\ ~declares(l) /\ p.currentTask # <<>>
    <3> DEFINE t == p.currentTask[1]
               u == parseTaskSubItem(t, seen)
    <3>1. q.currentTask = <<u>> /\ q.tasks = p.tasks
      BY <2>1, <2>2, <2>6 DEF BodyReads
    <3>2. ToSet(p.currentTask) = {t} /\ IsTask(t)
      <4>1. ToSet(p.currentTask) = {t}
        BY <2>6, OnlyOne DEF IsModel
      <4> HIDE DEF t
      <4> QED BY <4>1 DEF IsModel
    <3>3. u.id = t.id /\ ToSet(u.files) = ToSet(t.files) \cup IF seen.k = "files" THEN ToSet(seen.files) ELSE {}
      BY <2>2, <3>2, SubItemIsTask
    <3> HIDE DEF t, u
    <3>4. ToSet(q.currentTask) = {u}
      BY <3>1, ShortSeqs
    <3>5. ToSet(u.files) = ToSet(t.files) \cup IF l.k = "files" THEN ToSet(l.files) ELSE {}
      BY <2>2, <3>3
    <3>6. \A x \in Declared(p) : \E y \in Declared(q) : y.id = x.id /\ ToSet(x.files) \subseteq ToSet(y.files)
      BY <3>1, <3>2, <3>3, <3>4, <3>5 DEF Declared
    <3> QED BY <1>2, <2>3, <2>4, <2>6, <3>2, <3>3, <3>4, <3>5, <3>6 DEF Keeps, q
  <2>7. CASE p.currentSection # "Tasks" \/ (~declares(l) /\ p.currentTask = <<>>)
    <3>1. q.currentTask = p.currentTask /\ q.tasks = p.tasks
      BY <2>1, <2>2, <2>7 DEF BodyReads
    <3>2. p.currentSection = "Tasks" => ToSet(p.currentTask) = {}
      BY <2>7, NothingIsSeq
    <3>3. \A x \in Declared(p) : x \in Declared(q)
      BY <3>1 DEF Declared
    <3> QED BY <2>3, <2>4, <2>7, <3>2, <3>3 DEF Keeps, q
  <2> QED BY <2>5, <2>6, <2>7
<1> QED BY <1>1, <1>2

LEMMA ReadsSideBySide ==
  ASSUME LintRead, LintLearned, ReadLine
  PROVE  LintLearned'
<1>1. PICK l : /\ IsLine(l) /\ doc' = Append(doc, l) /\ m' = parseLine(m, l) /\ learned' = learnLine(learned, l)
  BY LineOfForm
<1>2. IsLearned(learned') /\ LineLearns(learned, learned', l)
  BY <1>1, LineIsLearned DEF LintLearned
<1>3. ASSUME Plain(doc)' PROVE SideBySide'
  <2>0. Plain(Append(doc, l)) /\ IsSeq(doc) /\ IsModel(m)
    BY <1>1, <1>3 DEF LintRead
  <2>1. /\ Plain(doc) /\ l.k \notin {"fence", "comment"}
        /\ undeclared(doc) \subseteq undeclared(Append(doc, l))
        /\ (takes(l) /\ l.id \notin undeclared(Append(doc, l)) => declares(l) /\ InTasks(doc))
        /\ (Alike(Append(doc, l)) => Alike(doc) /\ readAlike(l))
        /\ (InTasks(Append(doc, l)) => l = tasksHeading \/ (l.k # "section" /\ InTasks(doc)))
    BY <2>0, PlainPrefix
  <2>2. SideBySide
    BY <2>1 DEF LintLearned
  <2>3. m.fence = "" /\ m.inComment = FALSE
    BY <2>2 DEF SideBySide
  <2>4. m'.fence = "" /\ m'.inComment = FALSE
    BY <1>1, <2>0, <2>1, <2>3, PlainLineIsRead
  <2>5. Keeps(m, m', l)
    BY <1>1, <2>0, <2>1, <2>3, PlainKeeps
  <2>6. InTasks(doc)' => m'.currentSection = "Tasks"
    <3>1. InTasks(doc)' => InTasks(Append(doc, l))
      BY <1>1
    <3> QED BY <3>1, <2>1, <2>2, <2>5 DEF SideBySide, Keeps
  <2>a. doc' = Append(doc, l)
    BY <1>1
  <2>b. \A t, u, x : SaysOf(x, t) /\ u.id = t.id /\ ToSet(t.files) \subseteq ToSet(u.files) => SaysOf(x, u)
    BY DEF SaysOf, Paths
  <2>7. ASSUME NEW r, Told(r), r.id \notin undeclared(doc')
        PROVE  \E u \in Declared(m') : u.id = r.id /\ (Alike(doc') => SaysOf(r, u))
    <3>1. r.id \notin undeclared(doc)
      BY <2>1, <2>7, <2>a
    <3>2. PICK t \in Declared(m) : t.id = r.id /\ (Alike(doc) => SaysOf(r, t))
      BY <2>7, <3>1 DEF Told
    <3>3. PICK u \in Declared(m') : u.id = t.id /\ ToSet(t.files) \subseteq ToSet(u.files)
      BY <2>5 DEF Keeps
    <3>4. Alike(doc') => SaysOf(r, u)
      BY <2>1, <2>a, <2>b, <3>2, <3>3
    <3> QED BY <3>2, <3>3, <3>4
  <2>8. ASSUME NEW r \in ToSet(learned'.records), r.kind = "spec-task" PROVE Told(r)'
    <3>1. Told(r)
      BY <1>2, <2>2, <2>8 DEF LineLearns, SideBySide
    <3> QED BY <2>7, <3>1 DEF Told
  <2>9. ASSUME NEW b \in ToSet(learned'.block)
        PROVE  /\ Told(b)'
               /\ b.id \notin undeclared(doc') /\ Alike(doc') =>
                    m'.currentSection = "Tasks" /\ \E t \in ToSet(m'.currentTask) : SaysOf(b, t)
    <3> SUFFICES ASSUME b.id \notin undeclared(doc')
                 PROVE  /\ \E u \in Declared(m') : u.id = b.id /\ (Alike(doc') => SaysOf(b, u))
                        /\ Alike(doc') =>
                             m'.currentSection = "Tasks" /\ \E t \in ToSet(m'.currentTask) : SaysOf(b, t)
      BY DEF Told
    <3>1. CASE takes(l) /\ b.id = l.id /\ b.tokens = <<>>
      <4>1. declares(l) /\ m.currentSection = "Tasks"
        BY <3>1, <2>1, <2>2, <2>a DEF SideBySide
      <4>2. m'.currentSection = "Tasks" /\ ToSet(m'.currentTask) = {newTask(l.id)}
        BY <4>1, <2>5 DEF Keeps
      <4>3. ToSet(b.tokens) = {}
        BY <3>1, NothingIsSeq
      <4>4. newTask(l.id).id = l.id
        BY DEF newTask
      <4>5. SaysOf(b, newTask(l.id))
        BY <3>1, <4>3, <4>4 DEF SaysOf
      <4> QED BY <3>1, <4>2, <4>4, <4>5 DEF Declared
    <3>2. CASE /\ l.k \notin {"status", "slug", "section"} /\ (l.k = "task" => l.indented)
               /\ \E a \in ToSet(learned.block) :
                    /\ b.id = a.id
                    /\ ToSet(b.tokens) \subseteq ToSet(a.tokens) \cup Adds(l)
      <4>1. PICK a \in ToSet(learned.block) :
                    /\ b.id = a.id
                    /\ ToSet(b.tokens) \subseteq ToSet(a.tokens) \cup Adds(l)
        BY <3>2
      <4>2. /\ Told(a)
            /\ Alike(doc) => m.currentSection = "Tasks" /\ \E t \in ToSet(m.currentTask) : SaysOf(a, t)
        BY <2>1, <2>2, <2>a, <4>1 DEF SideBySide
      <4>3. \E u \in Declared(m') : u.id = b.id
        BY <2>7, <4>1, <4>2
      <4>4. ASSUME Alike(doc')
            PROVE  m'.currentSection = "Tasks" /\ \E t \in ToSet(m'.currentTask) : SaysOf(b, t)
        <5>1. readAlike(l) /\ m.currentSection = "Tasks"
          BY <2>1, <2>a, <4>2, <4>4
        <5>2. ~declares(l)
          BY <3>2, <5>1 DEF readAlike, declares
        <5>3. PICK t \in ToSet(m.currentTask) : SaysOf(a, t)
          BY <2>1, <2>a, <4>2, <4>4
        <5>4. m'.currentSection = "Tasks"
          BY <2>5, <3>2, <5>1, <5>2 DEF Keeps
        <5>5. PICK u \in ToSet(m'.currentTask) :
                     /\ u.id = t.id
                     /\ ToSet(u.files) = ToSet(t.files) \cup IF l.k = "files" THEN ToSet(l.files) ELSE {}
          BY <2>5, <3>2, <5>1, <5>2 DEF Keeps
        <5>6. l.k = "files" => ToSet(splitFiles(l)) = {f.path : f \in ToSet(l.files)}
          BY <1>1, <5>1, SplitIsSeq DEF IsLine, readAlike
        <5>7. Paths(u) = Paths(t) \cup IF l.k = "files" THEN {f.path : f \in ToSet(l.files)} ELSE {}
          BY <5>5 DEF Paths
        <5>8. SaysOf(b, u)
          BY <4>1, <5>3, <5>6, <5>7, <5>5 DEF SaysOf, Adds
        <5> QED BY <5>4, <5>8
      <4> QED BY <4>3, <4>4 DEF Declared, SaysOf
    <3> QED BY <1>2, <3>1, <3>2 DEF LineLearns
  <2> QED BY <2>4, <2>6, <2>8, <2>9 DEF SideBySide
<1> QED BY <1>2, <1>3 DEF LintLearned

LEMMA LintNextLearns == LintRead /\ LintLearned /\ [LintNext]_lintVars => LintLearned'
<1> SUFFICES ASSUME LintRead, LintLearned, [LintNext]_lintVars PROVE LintLearned'
  OBVIOUS
<1>1. CASE ReadLine
  BY <1>1, ReadsSideBySide
<1>2. CASE EndOfFile
  <2>1. /\ IsLearned(learned') /\ learned'.block = <<>>
        /\ \A x \in ToSet(learned'.records) : x.kind = "spec-task" =>
              x \in ToSet(learned.records) \cup ToSet(learned.block)
    BY <1>2, EndIsLearned DEF EndOfFile, LintLearned
  <2>2. /\ ToSet(m'.tasks) = ToSet(m.tasks) \cup ToSet(m.currentTask)
        /\ m'.fence = m.fence /\ m'.inComment = m.inComment /\ m'.currentSection = m.currentSection
    BY <1>2, FinalizeKeepsModel DEF EndOfFile, LintRead, ModelFields
  <2>3. doc' = doc
    BY <1>2 DEF EndOfFile
  <2>4. ASSUME SideBySide PROVE SideBySide'
    <3>1. \A x \in ToSet(learned'.block) : FALSE
      BY <2>1, NothingIsSeq
    <3>2. \A t \in Declared(m) : t \in Declared(m')
      BY <2>2 DEF Declared
    <3>3. ASSUME NEW r \in ToSet(learned'.records), r.kind = "spec-task" PROVE Told(r)'
      <4>1. Told(r)
        BY <2>1, <2>4, <3>3 DEF SideBySide
      <4> QED BY <2>3, <3>2, <4>1 DEF Told
    <3>4. InTasks(doc)' => InTasks(doc)
      BY <2>3
    <3> QED BY <2>2, <2>4, <3>1, <3>3, <3>4 DEF SideBySide
  <2>5. Plain(doc)' => Plain(doc)
    BY <2>3
  <2> QED BY <2>1, <2>4, <2>5 DEF LintLearned
<1>3. CASE UNCHANGED lintVars
  BY <1>3 DEF lintVars, LintLearned, SideBySide, Plain, InTasks, Told
<1> QED BY <1>1, <1>2, <1>3 DEF LintNext

LEMMA LintInitLearned == LintInit => LintLearned
<1> SUFFICES ASSUME LintInit PROVE LintLearned
  OBVIOUS
<1>1. /\ DOMAIN learned = {"status", "records", "block", "inExecLog", "entry"}
      /\ learned.records = <<>> /\ learned.block = <<>> /\ learned.entry = <<>> /\ learned.inExecLog = FALSE
  BY DEF LintInit, nothingLearned
<1>2. ToSet(learned.records) = {} /\ ToSet(learned.block) = {} /\ ToSet(learned.entry) = {}
      /\ Len(learned.block) = 0 /\ IsSeq(learned.records) /\ IsSeq(learned.block) /\ IsSeq(learned.entry)
  BY <1>1, NothingIsSeq
<1>3. IsLearned(learned)
  <2>1. Len(learned.block) <= 1
    BY <1>2
  <2>2. learned.inExecLog \in BOOLEAN
    BY <1>1, Zenon
  <2> QED BY <1>1, <1>2, <2>1, <2>2, Zenon DEF IsLearned
<1>4. DOMAIN doc = {}
  BY DEF LintInit
<1>5. m.fence = "" /\ m.inComment = FALSE
  BY DEF LintInit, emptyModel
<1> QED BY <1>2, <1>3, <1>4, <1>5 DEF LintLearned, SideBySide, InTasks

\* Every task the learning loop remembers of a spec without fences and comments
\* is one the linter read, unless its line is not of the linter's form, and so is
\* each remembered file where the readers take all lines alike
\* (ingest_spec.go:63-284, parser.go:58-225).
THEOREM LearnedIsDeclared == LintSpec => []LearnedTasksAreDeclared
<1>1. LintInit => LintLearned
  BY LintInitLearned
<1>2. LintRead /\ LintLearned /\ [LintNext]_lintVars => LintLearned'
  BY LintNextLearns
<1>3. LintRead /\ LintLearned => LearnedTasksAreDeclared
  <2> SUFFICES ASSUME LintRead, LintLearned, exit # -1, Plain(doc),
                      NEW r \in ToSet(learned.records), r.kind = "spec-task", r.id \notin undeclared(doc)
               PROVE  \E t \in ToSet(m.tasks) : t.id = r.id /\ (Alike(doc) => SaysOf(r, t))
    BY DEF LearnedTasksAreDeclared, Plain, Alike, SaysOf, Paths
  <2>1. PICK t \in Declared(m) : t.id = r.id /\ (Alike(doc) => SaysOf(r, t))
    BY DEF LintLearned, SideBySide, Told
  <2>2. ToSet(m.currentTask) = {}
    BY NothingIsSeq DEF LintRead
  <2> QED BY <2>1, <2>2 DEF Declared
<1> QED BY <1>1, <1>2, <1>3, LintAlwaysRead, PTL DEF LintSpec

-----------------------------------------------------------------------------
(***************************************************************************)
(* The DAG check: a depth-first search finds a cycle when there is one.    *)
(***************************************************************************)
LEMMA ToSetFinite == ASSUME NEW s, IsSeq(s) PROVE IsFiniteSet(ToSet(s))
<1> DEFINE n == Len(s)
           F == [i \in 1..n |-> s[i]]
<1>1. n \in Nat /\ DOMAIN s = 1..n
  BY InSeq
<1>2. F \in Surjection(1..n, ToSet(s))
  <2> HIDE DEF n
  <2> QED BY <1>1 DEF Surjection, ToSet
<1>3. IsFiniteSet(1..n)
  <2> HIDE DEF n
  <2>1. 1 \in Int /\ n \in Int
    BY <1>1
  <2> QED BY <2>1, FS_Interval, Zenon
<1> HIDE DEF n, F
<1> QED BY <1>2, <1>3, FS_Surjection

LEMMA ImageFinite ==
  ASSUME NEW S, IsFiniteSet(S), NEW T, NEW f \in [S -> T], \A y \in T : \E x \in S : f[x] = y
  PROVE  IsFiniteSet(T)
<1>1. f \in Surjection(S, T)
  BY DEF Surjection
<1> QED BY <1>1, FS_Surjection

LEMMA NodesFinite == ASSUME NEW p, IsModel(p) PROVE IsFiniteSet(Nodes(p))
<1> DEFINE S == ToSet(p.tasks)
           D == {ToSet(t.depends) : t \in S}
<1>1. IsFiniteSet(S) /\ \A t \in S : IsTask(t)
  BY ToSetFinite DEF IsModel
<1>2. TaskIds(p) = {t.id : t \in S}
  BY DEF TaskIds
<1>3. Nodes(p) = TaskIds(p) \cup UNION D
  BY DEF Nodes
<1> HIDE DEF S
<1>4. IsFiniteSet(TaskIds(p))
  <2> DEFINE f == [t \in S |-> t.id]
  <2>1. f \in [S -> TaskIds(p)] /\ \A y \in TaskIds(p) : \E x \in S : f[x] = y
    BY <1>2
  <2> HIDE DEF f
  <2> QED BY <1>1, <2>1, ImageFinite
<1>5. IsFiniteSet(D)
  <2> DEFINE f == [t \in S |-> ToSet(t.depends)]
  <2>1. f \in [S -> D] /\ \A y \in D : \E x \in S : f[x] = y
    OBVIOUS
  <2> HIDE DEF f, D
  <2> QED BY <1>1, <2>1, ImageFinite
<1>6. \A x \in D : IsFiniteSet(x)
  BY <1>1, ToSetFinite DEF IsTask
<1> HIDE DEF D
<1>7. IsFiniteSet(UNION D)
  BY <1>5, <1>6, FS_UNION
<1> QED BY <1>3, <1>4, <1>7, FS_Union

\* The dependencies of a node are nodes, and only tasks have any.
LEMMA AdjacencyInNodes ==
  ASSUME NEW p, IsModel(p), NEW id
  PROVE  /\ IsSeq(adjacency(p, id)) /\ ToSet(adjacency(p, id)) \subseteq Nodes(p)
         /\ adjacency(p, id) \in Seq(Nodes(p))
         /\ ToSet(adjacency(p, id)) # {} => id \in TaskIds(p)
<1> DEFINE of == {i \in DOMAIN p.tasks : p.tasks[i].id = id}
           t == p.tasks[Max(of)]
<1>0. lastTask(p, id) = IF of = {} THEN newTask(id) ELSE t
  BY DEF lastTask
<1>1. CASE of = {}
  <2>1. adjacency(p, id) = <<>>
    BY <1>0, <1>1 DEF adjacency, newTask
  <2>2. adjacency(p, id) \in Seq(Nodes(p))
    BY <2>1
  <2> QED BY <2>1, <2>2, NothingIsSeq
<1>2. CASE of # {}
  <2>1. DOMAIN p.tasks = 1..Len(p.tasks) /\ Len(p.tasks) \in Nat
    BY InSeq DEF IsModel
  <2>2. Max(of) \in of
    <3>1. of \in SUBSET (1..Len(p.tasks))
      BY <2>1
    <3> HIDE DEF of
    <3> QED BY <1>2, <2>1, <3>1, HasMax
  <2>3. t \in ToSet(p.tasks) /\ t.id = id
    BY <2>2 DEF ToSet
  <2>4. adjacency(p, id) = t.depends
    BY <1>0, <1>2 DEF adjacency
  <2> HIDE DEF t, of
  <2>5. IsSeq(t.depends) /\ id \in TaskIds(p)
    BY <2>3 DEF IsModel, IsTask, TaskIds
  <2>6. ToSet(t.depends) \subseteq Nodes(p)
    BY <2>3 DEF Nodes
  <2>7. t.depends \in Seq(Nodes(p))
    <3>1. t.depends \in Seq(ToSet(t.depends))
      BY <2>5 DEF IsSeq
    <3> QED BY <2>6, <3>1
  <2> QED BY <2>4, <2>5, <2>6, <2>7
<1> QED BY <1>1, <1>2

Result(p) == [cycle : BOOLEAN, color : Colors(p)]
SearchTyped(p, search) == \A c \in Colors(p) : \A x \in Nodes(p) : search[c][x] \in Result(p)

LEMMA VisitDepTyped ==
  ASSUME NEW p, NEW r \in Result(p), NEW dep \in Nodes(p), NEW search, SearchTyped(p, search)
  PROVE  visitDep(r, dep, search) \in Result(p)
<1>1. r.color \in Colors(p) /\ [r EXCEPT !.cycle = TRUE] \in Result(p)
  BY DEF Result
<1> QED BY <1>1 DEF visitDep, SearchTyped

\* The loop over the dependencies, step by step.
LEMMA VisitDepsFolds ==
  ASSUME NEW p, NEW color \in Colors(p), NEW node \in Nodes(p), NEW search,
         SearchTyped(p, search), NEW s \in Seq(Nodes(p)), s = adjacency(p, node)
  PROVE  \E h \in [0..Len(s) -> Result(p)] :
           /\ h[0] = [cycle |-> FALSE, color |-> color] /\ visitDeps(p, color, node, search) = h[Len(s)]
           /\ \A k \in 1..Len(s) : h[k] = visitDep(h[k - 1], s[k], search)
<1> DEFINE n == Len(s)
           V == Result(p)
           st == [at \in (1..n) \X V |-> visitDep(at[2], s[at[1]], search)]
<1>1. n \in Nat /\ DOMAIN s = 1..n
  OBVIOUS
<1>2. [cycle |-> FALSE, color |-> color] \in V
  BY DEF Result
<1>3. ASSUME NEW v \in V, NEW k \in 1..n PROVE visitDep(v, s[k], search) \in V
  BY <1>1, VisitDepTyped
<1>4. st \in [(1..n) \X V -> V]
  <2> HIDE DEF n, V
  <2> QED BY <1>3
<1>5. PICK g \in [SUBSET (1..n) -> V] : Iterates(g, n, [cycle |-> FALSE, color |-> color], st)
  <2> HIDE DEF st, n, V
  <2> QED BY <1>1, <1>2, <1>4, FoldExists
<1> DEFINE Def(f) ==
             f = [r \in SUBSET (1..n) |->
                    IF r = {} THEN [cycle |-> FALSE, color |-> color] ELSE visitDep(f[r \ {Max(r)}], s[Max(r)], search)]
           f == CHOOSE f : Def(f)
<1>6. Def(g)
  <2> HIDE DEF n, V
  <2>1. ASSUME NEW r \in SUBSET (1..n), r # {}
        PROVE  st[<<Max(r), g[r \ {Max(r)}]>>] = visitDep(g[r \ {Max(r)}], s[Max(r)], search)
    BY <1>1, <1>5, <2>1, OneBefore
  <2> HIDE DEF st
  <2> QED BY <1>5, <2>1 DEF Iterates
<1>7. Def(f)
  <2> HIDE DEF Def
  <2> QED BY <1>6
<1>8. visitDeps(p, color, node, search) = f[1..n]
  BY <1>1 DEF visitDeps, FoldLeft, MapThenFoldSet
<1> HIDE DEF f
<1>9. Recurs(f, n, V, [cycle |-> FALSE, color |-> color], st)
  <2> HIDE DEF n, V
  <2> QED BY <1>7 DEF Recurs
<1>10. PICK h \in [0..n -> V] : StepsTo(h, n, V, [cycle |-> FALSE, color |-> color], st, f[1..n])
  <2> HIDE DEF n, V, st
  <2> QED BY <1>1, <1>2, <1>4, <1>9, FoldSteps
<1>11. \A k \in 1..n : h[k] = visitDep(h[k - 1], s[k], search)
  <2> HIDE DEF n, V
  <2> QED BY <1>10 DEF StepsTo
<1> QED BY <1>8, <1>10, <1>11 DEF StepsTo

Level(p, d, prev) ==
  [color \in Colors(p) |-> [node \in Nodes(p) |->
     IF d = 0 THEN [cycle |-> FALSE, color |-> color] ELSE visit(p, color, node, prev)]]

Searches(p, s, k) == s = [d \in 0..k |-> Level(p, d, s[d - 1])]

LEMMA SearchExists == ASSUME NEW p, NEW n \in Nat PROVE \E s : Searches(p, s, n)
<1> DEFINE P(k) == \E s : Searches(p, s, k)
           T == {k \in Nat : P(k)}
<1>1. P(0)
  <2> DEFINE s == [d \in 0..0 |-> Level(p, 0, 0)]
  <2>1. \A d \in 0..0 : d = 0
    OBVIOUS
  <2>2. \A x : Level(p, 0, x) = Level(p, 0, 0)
    BY DEF Level
  <2>3. s = [d \in 0..0 |-> Level(p, d, s[d - 1])]
    <3> DEFINE u == s
    <3> HIDE DEF u
    <3>1. [d \in 0..0 |-> Level(p, d, u[d - 1])] = [d \in 0..0 |-> Level(p, 0, 0)]
      BY <2>1, <2>2
    <3> QED BY <3>1 DEF u
  <2> HIDE DEF s
  <2> QED BY <2>3 DEF Searches
<1>2. ASSUME NEW k \in Nat, P(k) PROVE P(k + 1)
  <2>1. PICK s : Searches(p, s, k)
    BY <1>2
  <2> DEFINE u == [d \in 0..(k + 1) |-> IF d <= k THEN s[d] ELSE Level(p, k + 1, s[k])]
  <2>2. ASSUME NEW d \in 0..(k + 1) PROVE u[d] = Level(p, d, u[d - 1])
    <3>1. CASE d = 0
      <4>1. d \in 0..k /\ d <= k
        BY <3>1
      <4>2. u[d] = s[d]
        BY <4>1
      <4>3. s[d] = Level(p, d, s[d - 1])
        BY <2>1, <4>1 DEF Searches
      <4>4. \A x, y : Level(p, 0, x) = Level(p, 0, y)
        BY DEF Level
      <4> HIDE DEF u
      <4> QED BY <3>1, <4>2, <4>3, <4>4
    <3>2. CASE d # 0 /\ d <= k
      <4>1. d \in 0..k /\ d - 1 \in 0..(k + 1) /\ d - 1 <= k
        BY <3>2
      <4>2. u[d] = s[d] /\ u[d - 1] = s[d - 1]
        BY <3>2, <4>1
      <4>3. s[d] = Level(p, d, s[d - 1])
        BY <2>1, <4>1 DEF Searches
      <4> HIDE DEF u
      <4> QED BY <4>2, <4>3
    <3>3. CASE d > k
      <4>1. d = k + 1 /\ d - 1 = k /\ d - 1 \in 0..(k + 1) /\ ~(d <= k) /\ d - 1 <= k
        BY <3>3
      <4>2. u[d] = Level(p, k + 1, s[k]) /\ u[d - 1] = s[k]
        BY <4>1
      <4> HIDE DEF u
      <4> QED BY <4>1, <4>2
    <3> QED BY <3>1, <3>2, <3>3
  <2>3. u = [d \in 0..(k + 1) |-> u[d]]
    OBVIOUS
  <2> HIDE DEF u
  <2>4. u = [d \in 0..(k + 1) |-> Level(p, d, u[d - 1])]
    BY <2>2, <2>3
  <2>5. Searches(p, u, k + 1)
    BY <2>4 DEF Searches
  <2> QED BY <2>5
<1> HIDE DEF P
<1>3. 0 \in T /\ \A k \in Nat : k \in T => k + 1 \in T
  BY <1>1, <1>2
<1> HIDE DEF T
<1>4. n \in T
  BY <1>3, Induct
<1> QED BY <1>4 DEF T, P

LEMMA DfsIsSearch ==
  ASSUME NEW p, IsModel(p)
  PROVE  /\ Cardinality(Nodes(p)) \in Nat
         /\ \E s : Searches(p, s, Cardinality(Nodes(p))) /\ dfs(p) = s[Cardinality(Nodes(p))]
<1> DEFINE n == Cardinality(Nodes(p))
           s == CHOOSE s : s = [d \in 0..n |-> Level(p, d, s[d - 1])]
<1>1. n \in Nat
  BY NodesFinite, FS_CardinalityType
<1>2. Searches(p, s, n)
  <2> HIDE DEF n
  <2>1. \E u : u = [d \in 0..n |-> Level(p, d, u[d - 1])]
    BY <1>1, SearchExists DEF Searches
  <2> QED BY <2>1 DEF Searches
<1>3. dfs(p) = s[n]
  BY DEF dfs, Level
<1> HIDE DEF s, n
<1> QED BY <1>1, <1>2, <1>3 DEF n

Gray(p, c) == {x \in Nodes(p) : c[x] = "gray"}
White(p, c) == {x \in Nodes(p) : c[x] = "white"}
Black(p, c) == {x \in Nodes(p) : c[x] = "black"}

After(p, x) == ToSet(adjacency(p, x))

\* Nodes of which each depends on one of them.
Sustains(p, C) == \A a \in C : After(p, a) \cap C # {}
Loops(p) == \E C \in SUBSET Nodes(p) : C # {} /\ Sustains(p, C)

\* What is black depends on black, without a cycle.
BlackIsDone(p, c) ==
  /\ \A b \in Black(p, c) : After(p, b) \subseteq Black(p, c)
  /\ \A C \in SUBSET Black(p, c) : C # {} => ~Sustains(p, C)

\* The gray nodes are on a path to the node that is searched next, which is
\* white, and the depth suffices for the white ones.
Pre(p, c, node, d) ==
  /\ c[node] = "white"
  /\ \A g \in Gray(p, c) : After(p, g) \cap (Gray(p, c) \cup {node}) # {}
  /\ BlackIsDone(p, c)
  /\ Cardinality(White(p, c)) <= d

Post(p, c, node, r) ==
  /\ r.cycle => Loops(p)
  /\ ~r.cycle => /\ Gray(p, r.color) = Gray(p, c) /\ BlackIsDone(p, r.color)
                 /\ Black(p, c) \subseteq Black(p, r.color) /\ node \in Black(p, r.color)

Correct(p, d, search) ==
  /\ SearchTyped(p, search)
  /\ \A c \in Colors(p) : \A x \in Nodes(p) : Pre(p, c, x, d) => Post(p, c, x, search[c][x])

\* Between two dependencies of the node that is searched.
Between(p, c, r, past) ==
  /\ r.cycle => Loops(p)
  /\ ~r.cycle => /\ Gray(p, r.color) = Gray(p, c) /\ BlackIsDone(p, r.color)
                 /\ Black(p, c) \subseteq Black(p, r.color) /\ past \subseteq Black(p, r.color)

LEMMA OneColor ==
  ASSUME NEW p, NEW c \in Colors(p)
  PROVE  /\ Gray(p, c) \cup White(p, c) \cup Black(p, c) = Nodes(p)
         /\ Gray(p, c) \cap White(p, c) = {} /\ Gray(p, c) \cap Black(p, c) = {} /\ White(p, c) \cap Black(p, c) = {}
  BY DEF Colors, Gray, White, Black

LEMMA FewerWhite ==
  ASSUME NEW p, IsModel(p), NEW c, NEW e, NEW d \in Nat,
         White(p, e) \subseteq White(p, c), Cardinality(White(p, c)) <= d
  PROVE  Cardinality(White(p, e)) <= d
<1>1. White(p, c) \in SUBSET Nodes(p)
  BY DEF White
<1>2. IsFiniteSet(White(p, c))
  BY <1>1, NodesFinite, FS_Subset
<1>3. IsFiniteSet(White(p, e)) /\ Cardinality(White(p, e)) <= Cardinality(White(p, c))
  BY <1>2, FS_Subset
<1>4. Cardinality(White(p, e)) \in Nat /\ Cardinality(White(p, c)) \in Nat
  BY <1>2, <1>3, FS_CardinalityType
<1> QED BY <1>3, <1>4

LEMMA NextDependency ==
  ASSUME NEW p, IsModel(p), NEW d \in Nat, NEW search, Correct(p, d, search),
         NEW c \in Colors(p), NEW node \in Nodes(p), node \in Gray(p, c),
         \A g \in Gray(p, c) \ {node} : After(p, g) \cap Gray(p, c) # {},
         Cardinality(White(p, c)) <= d,
         NEW r \in Result(p), NEW past, Between(p, c, r, past),
         NEW dep \in After(p, node)
  PROVE  Between(p, c, visitDep(r, dep, search), past \cup {dep})
<1>0. dep \in Nodes(p)
  BY AdjacencyInNodes DEF After
<1>1. CASE r.cycle
  <2>1. visitDep(r, dep, search) = r
    BY <1>1 DEF visitDep
  <2> QED BY <1>1, <2>1 DEF Between
<1>2. CASE ~r.cycle /\ r.color[dep] = "black"
  <2>1. visitDep(r, dep, search) = r
    BY <1>2 DEF visitDep
  <2>2. dep \in Black(p, r.color)
    BY <1>0, <1>2 DEF Black
  <2> QED BY <1>2, <2>1, <2>2 DEF Between
<1>3. CASE ~r.cycle /\ r.color[dep] = "gray"
  <2>1. visitDep(r, dep, search) = [r EXCEPT !.cycle = TRUE]
    BY <1>3 DEF visitDep
  <2>2. visitDep(r, dep, search).cycle
    BY <2>1 DEF Result
  <2>3. dep \in Gray(p, c)
    <3>1. dep \in Gray(p, r.color)
      BY <1>0, <1>3 DEF Gray
    <3> QED BY <1>3, <3>1 DEF Between
  <2>4. Sustains(p, Gray(p, c))
    BY <2>3 DEF Sustains
  <2>5. Gray(p, c) \in SUBSET Nodes(p)
    BY DEF Gray
  <2>6. Loops(p)
    BY <2>3, <2>4, <2>5 DEF Loops
  <2> QED BY <2>2, <2>6 DEF Between
<1>4. CASE ~r.cycle /\ r.color[dep] = "white"
  <2> DEFINE q == search[r.color][dep]
  <2>1. visitDep(r, dep, search) = q
    BY <1>4 DEF visitDep
  <2>2. r.color \in Colors(p)
    BY DEF Result
  <2>3. /\ Gray(p, r.color) = Gray(p, c) /\ BlackIsDone(p, r.color)
        /\ Black(p, c) \subseteq Black(p, r.color) /\ past \subseteq Black(p, r.color)
    BY <1>4 DEF Between
  <2>4. White(p, r.color) \subseteq White(p, c)
    BY <2>2, <2>3, OneColor
  <2>5. Cardinality(White(p, r.color)) <= d
    BY <2>4, FewerWhite
  <2>6. \A g \in Gray(p, r.color) : After(p, g) \cap (Gray(p, r.color) \cup {dep}) # {}
    BY <2>3
  <2>7. Pre(p, r.color, dep, d)
    BY <1>4, <2>3, <2>5, <2>6 DEF Pre
  <2>8. Post(p, r.color, dep, q)
    BY <1>0, <2>2, <2>7 DEF Correct
  <2> HIDE DEF q
  <2>9. Between(p, c, q, past \cup {dep})
    BY <2>3, <2>8 DEF Post, Between
  <2> QED BY <2>1, <2>9
<1>5. r.color[dep] \in {"white", "gray", "black"}
  BY <1>0 DEF Result, Colors
<1> QED BY <1>1, <1>2, <1>3, <1>4, <1>5

LEMMA DependenciesVisited ==
  ASSUME NEW p, IsModel(p), NEW d \in Nat, NEW search, Correct(p, d, search),
         NEW c \in Colors(p), NEW node \in Nodes(p), node \in Gray(p, c),
         \A g \in Gray(p, c) \ {node} : After(p, g) \cap Gray(p, c) # {},
         Cardinality(White(p, c)) <= d, BlackIsDone(p, c)
  PROVE  visitDeps(p, c, node, search) \in Result(p) /\ Between(p, c, visitDeps(p, c, node, search), After(p, node))
<1> DEFINE s == adjacency(p, node)
           n == Len(s)
<1>1. s \in Seq(Nodes(p)) /\ IsSeq(s)
  BY AdjacencyInNodes
<1>2. SearchTyped(p, search)
  BY DEF Correct
<1>3. PICK h \in [0..Len(s) -> Result(p)] :
           /\ h[0] = [cycle |-> FALSE, color |-> c] /\ visitDeps(p, c, node, search) = h[Len(s)]
           /\ \A k \in 1..Len(s) : h[k] = visitDep(h[k - 1], s[k], search)
  <2> DEFINE u == s
  <2>1. u \in Seq(Nodes(p)) /\ u = adjacency(p, node)
    BY <1>1
  <2> HIDE DEF u
  <2>2. \E h \in [0..Len(u) -> Result(p)] :
           /\ h[0] = [cycle |-> FALSE, color |-> c] /\ visitDeps(p, c, node, search) = h[Len(u)]
           /\ \A k \in 1..Len(u) : h[k] = visitDep(h[k - 1], u[k], search)
    BY <1>2, <2>1, VisitDepsFolds
  <2> QED BY <2>2 DEF u
<1>4. n \in Nat /\ DOMAIN s = 1..n
  BY <1>1, InSeq
<1> DEFINE past(k) == {s[j] : j \in 1..k}
           T == {k \in 0..n : Between(p, c, h[k], past(k))}
<1>5. 0 \in T
  <2>1. h[0].cycle = FALSE /\ h[0].color = c
    BY <1>3
  <2>2. past(0) = {}
    OBVIOUS
  <2> HIDE DEF past
  <2>3. Between(p, c, h[0], past(0))
    BY <2>1, <2>2 DEF Between
  <2> QED BY <1>4, <2>3
<1>6. ASSUME NEW k \in 1..n, k - 1 \in T PROVE k \in T
  <2>1. k - 1 \in 0..n /\ k \in 0..n
    BY <1>4
  <2>2. s[k] \in After(p, node)
    BY <1>4 DEF After, ToSet
  <2>3. h[k - 1] \in Result(p) /\ Between(p, c, h[k - 1], past(k - 1))
    BY <1>3, <1>6, <2>1
  <2>4. past(k) = past(k - 1) \cup {s[k]}
    <3> HIDE DEF s, n
    <3> QED BY <1>4
  <2> HIDE DEF past, s
  <2>5. Between(p, c, visitDep(h[k - 1], s[k], search), past(k - 1) \cup {s[k]})
    BY <2>2, <2>3, NextDependency
  <2> QED BY <1>3, <2>1, <2>4, <2>5
<1>7. n \in T
  <2> HIDE DEF T, n
  <2>1. 0..n \subseteq T
    BY <1>4, <1>5, <1>6, Along
  <2>2. n \in 0..n
    BY <1>4
  <2> QED BY <2>1, <2>2
<1>8. past(n) = After(p, node)
  BY <1>4 DEF After, ToSet
<1>9. h[n] \in Result(p)
  <2> n \in 0..n
    BY <1>4
  <2> QED BY <1>3
<1> HIDE DEF past
<1> QED BY <1>3, <1>7, <1>8, <1>9

LEMMA NodeVisited ==
  ASSUME NEW p, IsModel(p), NEW d \in Nat, NEW search, Correct(p, d, search),
         NEW c \in Colors(p), NEW node \in Nodes(p), Pre(p, c, node, d + 1)
  PROVE  Post(p, c, node, visit(p, c, node, search))
<1> DEFINE e == [c EXCEPT ![node] = "gray"]
           r == visitDeps(p, e, node, search)
           v == visit(p, c, node, search)
<1>1. e \in Colors(p)
  BY DEF Colors
<1>2. /\ Gray(p, e) = Gray(p, c) \cup {node} /\ Black(p, e) = Black(p, c) /\ White(p, e) = White(p, c) \ {node}
      /\ node \in White(p, c)
  BY DEF Colors, Pre, Gray, White, Black
<1>3. Cardinality(White(p, e)) <= d
  <2>1. White(p, c) \in SUBSET Nodes(p)
    BY DEF White
  <2>2. IsFiniteSet(White(p, c))
    BY <2>1, NodesFinite, FS_Subset
  <2>3. Cardinality(White(p, e)) = Cardinality(White(p, c)) - 1 /\ Cardinality(White(p, c)) \in Nat
    BY <1>2, <2>2, FS_RemoveElement, FS_CardinalityType
  <2> QED BY <2>3 DEF Pre
<1>4. \A g \in Gray(p, e) \ {node} : After(p, g) \cap Gray(p, e) # {}
  BY <1>2 DEF Pre
<1>5. BlackIsDone(p, e)
  BY <1>2 DEF Pre, BlackIsDone
<1>6. v = IF r.cycle THEN r ELSE [r EXCEPT !.color[node] = "black"]
  BY DEF visit
<1> HIDE DEF e
<1>7. r \in Result(p) /\ Between(p, e, r, After(p, node))
  BY <1>1, <1>2, <1>3, <1>4, <1>5, DependenciesVisited
<1> HIDE DEF r, v
<1>8. CASE r.cycle
  BY <1>6, <1>7, <1>8 DEF Between, Post, v
<1>9. CASE ~r.cycle
  <2> DEFINE a == r.color
             z == [a EXCEPT ![node] = "black"]
  <2>1. a \in Colors(p) /\ r.cycle = FALSE
    BY <1>7, <1>9 DEF Result
  <2>2. v.color = z /\ v.cycle = FALSE
    <3>1. v = [r EXCEPT !.color = [r.color EXCEPT ![node] = "black"]]
      BY <1>6, <1>9
    <3> QED BY <1>7, <2>1, <3>1 DEF Result
  <2>3. /\ Gray(p, a) = Gray(p, e) /\ BlackIsDone(p, a) /\ Black(p, e) \subseteq Black(p, a)
        /\ After(p, node) \subseteq Black(p, a)
    BY <1>7, <1>9 DEF Between
  <2> HIDE DEF a
  <2>4. Gray(p, z) = Gray(p, a) \ {node} /\ Black(p, z) = Black(p, a) \cup {node}
    BY <2>1 DEF Colors, Gray, Black
  <2>5. node \notin Black(p, a)
    BY <1>2, <2>1, <2>3, OneColor
  <2>6. node \notin Gray(p, c)
    BY <1>2, OneColor
  <2> HIDE DEF z
  <2>7. \A b \in Black(p, z) : After(p, b) \subseteq Black(p, z)
    BY <2>3, <2>4 DEF BlackIsDone
  <2>8. ASSUME NEW C \in SUBSET Black(p, z), C # {} PROVE ~Sustains(p, C)
    <3>1. CASE node \notin C
      <4> C \in SUBSET Black(p, a)
        BY <2>4, <3>1
      <4> QED BY <2>3, <2>8 DEF BlackIsDone
    <3>2. CASE C = {node}
      <4> After(p, node) \cap {node} = {}
        BY <2>3, <2>5
      <4> QED BY <3>2 DEF Sustains
    <3>3. CASE node \in C /\ C # {node}
      <4>1. C \ {node} \in SUBSET Black(p, a) /\ C \ {node} # {}
        BY <2>4, <3>3
      <4>2. PICK x \in C \ {node} : After(p, x) \cap (C \ {node}) = {}
        BY <2>3, <4>1 DEF BlackIsDone, Sustains
      <4>3. After(p, x) \subseteq Black(p, a)
        BY <2>3, <4>1 DEF BlackIsDone
      <4>4. After(p, x) \cap C = {}
        BY <2>5, <4>2, <4>3
      <4> QED BY <4>4 DEF Sustains
    <3> QED BY <3>1, <3>2, <3>3
  <2>9. BlackIsDone(p, z)
    BY <2>7, <2>8 DEF BlackIsDone
  <2>10. Gray(p, z) = Gray(p, c) /\ Black(p, c) \subseteq Black(p, z) /\ node \in Black(p, z)
    BY <1>2, <2>3, <2>4, <2>6
  <2> QED BY <2>2, <2>9, <2>10 DEF Post, v
<1> QED BY <1>8, <1>9

LEMMA VisitTyped ==
  ASSUME NEW p, IsModel(p), NEW search, SearchTyped(p, search), NEW c \in Colors(p), NEW node \in Nodes(p)
  PROVE  visit(p, c, node, search) \in Result(p)
<1> DEFINE e == [c EXCEPT ![node] = "gray"]
           r == visitDeps(p, e, node, search)
           s == adjacency(p, node)
<1>1. e \in Colors(p)
  BY DEF Colors
<1>2. s \in Seq(Nodes(p))
  BY AdjacencyInNodes
<1>3. visit(p, c, node, search) = IF r.cycle THEN r ELSE [r EXCEPT !.color[node] = "black"]
  BY DEF visit
<1> HIDE DEF e
<1>4. r \in Result(p)
  <2> DEFINE u == s
  <2>1. u \in Seq(Nodes(p)) /\ u = adjacency(p, node)
    BY <1>2
  <2> HIDE DEF u
  <2>2. PICK h \in [0..Len(u) -> Result(p)] :
          /\ h[0] = [cycle |-> FALSE, color |-> e] /\ visitDeps(p, e, node, search) = h[Len(u)]
          /\ \A k \in 1..Len(u) : h[k] = visitDep(h[k - 1], u[k], search)
    BY <1>1, <2>1, VisitDepsFolds
  <2>3. Len(u) \in 0..Len(u)
    BY <2>1
  <2> QED BY <2>2, <2>3
<1> HIDE DEF r
<1>5. r.color \in Colors(p)
  BY <1>4 DEF Result
<1>6. [r.color EXCEPT ![node] = "black"] \in Colors(p)
  BY <1>5 DEF Colors
<1> QED BY <1>3, <1>4, <1>6 DEF Result

\* dfs is right at every depth, so at the depth it is given.
LEMMA DfsCorrect ==
  ASSUME NEW p, IsModel(p)
  PROVE  Correct(p, Cardinality(Nodes(p)), dfs(p))
<1> DEFINE n == Cardinality(Nodes(p))
<1>1. n \in Nat
  BY DfsIsSearch
<1>2. PICK s : Searches(p, s, n) /\ dfs(p) = s[n]
  BY DfsIsSearch
<1> HIDE DEF n
<1> DEFINE T == {d \in 0..n : Correct(p, d, s[d])}
<1>3. \A d \in 0..n : s[d] = Level(p, d, s[d - 1])
  BY <1>2 DEF Searches
<1>4. 0 \in T
  <2>1. s[0] = Level(p, 0, s[0 - 1])
    BY <1>1, <1>3
  <2>2. \A c \in Colors(p) : \A x \in Nodes(p) : s[0][c][x] = [cycle |-> FALSE, color |-> c]
    BY <2>1 DEF Level
  <2>3. SearchTyped(p, s[0])
    <3>1. \A c \in Colors(p) : [cycle |-> FALSE, color |-> c] \in Result(p)
      BY DEF Result
    <3> QED BY <2>2, <3>1 DEF SearchTyped
  <2>4. ASSUME NEW c \in Colors(p), NEW x \in Nodes(p) PROVE ~Pre(p, c, x, 0)
    <3> SUFFICES ASSUME Pre(p, c, x, 0) PROVE FALSE
      OBVIOUS
    <3>1. x \in White(p, c) /\ White(p, c) \in SUBSET Nodes(p)
      BY DEF Pre, White
    <3>2. IsFiniteSet(White(p, c))
      BY <3>1, NodesFinite, FS_Subset
    <3>3. Cardinality(White(p, c)) \in Nat /\ (Cardinality(White(p, c)) = 0 <=> White(p, c) = {})
      BY <3>2, FS_CardinalityType, FS_EmptySet
    <3> QED BY <3>1, <3>3 DEF Pre
  <2>5. Correct(p, 0, s[0])
    BY <2>3, <2>4 DEF Correct
  <2> QED BY <1>1, <2>5
<1>5. ASSUME NEW d \in 1..n, d - 1 \in T PROVE d \in T
  <2>1. d \in 0..n /\ d - 1 \in Nat /\ (d - 1) + 1 = d /\ d # 0
    BY <1>1
  <2>2. Correct(p, d - 1, s[d - 1])
    BY <1>5
  <2>3. \A c \in Colors(p) : \A x \in Nodes(p) : s[d][c][x] = visit(p, c, x, s[d - 1])
    <3> DEFINE prev == s[d - 1]
    <3>1. s[d] = Level(p, d, prev)
      BY <1>3, <2>1
    <3> HIDE DEF prev
    <3>2. \A c \in Colors(p) : \A x \in Nodes(p) : Level(p, d, prev)[c][x] = visit(p, c, x, prev)
      BY <2>1 DEF Level
    <3> QED BY <3>1, <3>2 DEF prev
  <2>4. SearchTyped(p, s[d])
    <3>1. SearchTyped(p, s[d - 1])
      BY <2>2 DEF Correct
    <3>2. \A c \in Colors(p) : \A x \in Nodes(p) : visit(p, c, x, s[d - 1]) \in Result(p)
      BY <3>1, VisitTyped
    <3> QED BY <2>3, <3>2 DEF SearchTyped
  <2>5. ASSUME NEW c \in Colors(p), NEW x \in Nodes(p), Pre(p, c, x, d) PROVE Post(p, c, x, s[d][c][x])
    <3>1. Pre(p, c, x, (d - 1) + 1)
      BY <2>1, <2>5
    <3>2. Post(p, c, x, visit(p, c, x, s[d - 1]))
      BY <2>1, <2>2, <3>1, NodeVisited
    <3> QED BY <2>3, <3>2
  <2> QED BY <2>1, <2>4, <2>5 DEF Correct
<1>6. n \in T
  <2> HIDE DEF T
  <2>1. 0..n \subseteq T /\ n \in 0..n
    BY <1>1, <1>4, <1>5, Along
  <2> QED BY <2>1
<1> QED BY <1>2, <1>6 DEF n

Verdict(p) == [fs : SUBSET {<<"cycle", id>> : id \in TaskIds(p)}, color : Colors(p)]

LEMMA SearchFromTyped ==
  ASSUME NEW p, IsModel(p), NEW v \in Verdict(p), NEW t \in ToSet(p.tasks)
  PROVE  searchFrom(p, v, t) \in Verdict(p)
<1> DEFINE r == dfs(p)[v.color][t.id]
           black == [x \in Nodes(p) |-> IF r.color[x] = "white" THEN "white" ELSE "black"]
<1>1. t.id \in TaskIds(p) /\ t.id \in Nodes(p)
  BY DEF TaskIds, Nodes
<1>2. v.color \in Colors(p)
  BY DEF Verdict
<1>3. r.color \in Colors(p)
  BY <1>1, <1>2, DfsCorrect DEF Correct, SearchTyped, Result
<1>4. black \in Colors(p)
  BY DEF Colors
<1>5. searchFrom(p, v, t) = IF v.color[t.id] # "white" THEN v
                            ELSE IF ~r.cycle THEN [v EXCEPT !.color = r.color]
                            ELSE [fs |-> v.fs \cup {<<"cycle", t.id>>}, color |-> black]
  BY DEF searchFrom
<1> HIDE DEF r, black
<1>6. [v EXCEPT !.color = r.color] \in Verdict(p)
  BY <1>3 DEF Verdict
<1>7. [fs |-> v.fs \cup {<<"cycle", t.id>>}, color |-> black] \in Verdict(p)
  BY <1>1, <1>4 DEF Verdict
<1> QED BY <1>5, <1>6, <1>7

\* The loop over the tasks, step by step.
LEMMA SearchesFold ==
  ASSUME NEW p, IsModel(p), NEW s \in Seq(ToSet(p.tasks)), s = p.tasks
  PROVE  \E h \in [0..Len(s) -> Verdict(p)] :
           /\ h[0] = [fs |-> {}, color |-> [x \in Nodes(p) |-> "white"]] /\ validateDependsDAG(p) = h[Len(s)].fs
           /\ \A k \in 1..Len(s) : h[k] = searchFrom(p, h[k - 1], s[k])
<1> DEFINE n == Len(s)
           V == Verdict(p)
           st == [at \in (1..n) \X V |-> searchFrom(p, at[2], s[at[1]])]
<1>1. n \in Nat /\ DOMAIN s = 1..n
  OBVIOUS
<1>2. [fs |-> {}, color |-> [x \in Nodes(p) |-> "white"]] \in V
  BY DEF Verdict, Colors
<1>3. ASSUME NEW v \in V, NEW k \in 1..n PROVE searchFrom(p, v, s[k]) \in V
  BY <1>1, SearchFromTyped
<1>4. st \in [(1..n) \X V -> V]
  <2> HIDE DEF n, V
  <2> QED BY <1>3
<1>5. PICK g \in [SUBSET (1..n) -> V] : Iterates(g, n, [fs |-> {}, color |-> [x \in Nodes(p) |-> "white"]], st)
  <2> HIDE DEF st, n, V
  <2> QED BY <1>1, <1>2, <1>4, FoldExists
<1> DEFINE Def(f) ==
             f = [r \in SUBSET (1..n) |->
                    IF r = {} THEN [fs |-> {}, color |-> [x \in Nodes(p) |-> "white"]]
                    ELSE searchFrom(p, f[r \ {Max(r)}], s[Max(r)])]
           f == CHOOSE f : Def(f)
<1>6. Def(g)
  <2> HIDE DEF n, V
  <2>1. ASSUME NEW r \in SUBSET (1..n), r # {}
        PROVE  st[<<Max(r), g[r \ {Max(r)}]>>] = searchFrom(p, g[r \ {Max(r)}], s[Max(r)])
    BY <1>1, <1>5, <2>1, OneBefore
  <2> HIDE DEF st
  <2> QED BY <1>5, <2>1 DEF Iterates
<1>7. Def(f)
  <2> HIDE DEF Def
  <2> QED BY <1>6
<1>8. validateDependsDAG(p) = f[1..n].fs
  BY <1>1 DEF validateDependsDAG, FoldLeft, MapThenFoldSet
<1> HIDE DEF f
<1>9. Recurs(f, n, V, [fs |-> {}, color |-> [x \in Nodes(p) |-> "white"]], st)
  <2> HIDE DEF n, V
  <2> QED BY <1>7 DEF Recurs
<1>10. PICK h \in [0..n -> V] : StepsTo(h, n, V, [fs |-> {}, color |-> [x \in Nodes(p) |-> "white"]], st, f[1..n])
  <2> HIDE DEF n, V, st
  <2> QED BY <1>1, <1>2, <1>4, <1>9, FoldSteps
<1>11. \A k \in 1..n : h[k] = searchFrom(p, h[k - 1], s[k])
  <2> HIDE DEF n, V
  <2> QED BY <1>10 DEF StepsTo
<1> QED BY <1>8, <1>10, <1>11 DEF StepsTo

\* Between two tasks: a cycle was reported only if there is one, and without one
\* every task that was looked at is black.
Sound(p, v, past) ==
  /\ v.fs # {} => Loops(p)
  /\ v.fs = {} => Gray(p, v.color) = {} /\ BlackIsDone(p, v.color) /\ past \subseteq Black(p, v.color)

LEMMA NextTask ==
  ASSUME NEW p, IsModel(p), NEW v \in Verdict(p), NEW t \in ToSet(p.tasks), NEW past, Sound(p, v, past)
  PROVE  Sound(p, searchFrom(p, v, t), past \cup {t.id})
<1> DEFINE r == dfs(p)[v.color][t.id]
           black == [x \in Nodes(p) |-> IF r.color[x] = "white" THEN "white" ELSE "black"]
<1>1. t.id \in TaskIds(p) /\ t.id \in Nodes(p)
  BY DEF TaskIds, Nodes
<1>2. v.color \in Colors(p)
  BY DEF Verdict
<1>3. searchFrom(p, v, t) = IF v.color[t.id] # "white" THEN v
                            ELSE IF ~r.cycle THEN [v EXCEPT !.color = r.color]
                            ELSE [fs |-> v.fs \cup {<<"cycle", t.id>>}, color |-> black]
  BY DEF searchFrom
<1> HIDE DEF black
<1>4. CASE v.color[t.id] # "white"
  <2>1. searchFrom(p, v, t) = v
    BY <1>3, <1>4
  <2>2. v.fs = {} => t.id \in Black(p, v.color)
    <3>1. t.id \notin White(p, v.color)
      BY <1>4 DEF White
    <3> QED BY <1>1, <1>2, <3>1, OneColor DEF Sound
  <2> QED BY <2>1, <2>2 DEF Sound
<1>5. CASE v.color[t.id] = "white" /\ v.fs # {}
  <2>1. searchFrom(p, v, t).fs # {}
    <3>1. [v EXCEPT !.color = r.color].fs = v.fs
      BY DEF Verdict
    <3> HIDE DEF r
    <3>2. [fs |-> v.fs \cup {<<"cycle", t.id>>}, color |-> black].fs = v.fs \cup {<<"cycle", t.id>>}
      OBVIOUS
    <3> QED BY <1>3, <1>5, <3>1, <3>2
  <2> QED BY <1>5, <2>1 DEF Sound
<1>6. CASE v.color[t.id] = "white" /\ v.fs = {}
  <2> DEFINE n == Cardinality(Nodes(p))
  <2>1. Pre(p, v.color, t.id, n)
    <3>1. White(p, v.color) \in SUBSET Nodes(p)
      BY DEF White
    <3>2. Cardinality(White(p, v.color)) <= n
      BY <3>1, NodesFinite, FS_Subset
    <3> HIDE DEF n
    <3> QED BY <1>6, <3>2 DEF Pre, Sound
  <2>2. Post(p, v.color, t.id, r)
    <3> HIDE DEF r
    <3>1. Correct(p, n, dfs(p))
      BY DfsCorrect
    <3> HIDE DEF n
    <3> QED BY <1>1, <1>2, <2>1, <3>1 DEF Correct, r
  <2> HIDE DEF r
  <2>3. CASE r.cycle
    <3>1. searchFrom(p, v, t).fs # {}
      <4>1. searchFrom(p, v, t) = [fs |-> v.fs \cup {<<"cycle", t.id>>}, color |-> black]
        BY <1>3, <1>6, <2>3
      <4>2. searchFrom(p, v, t).fs = v.fs \cup {<<"cycle", t.id>>}
        BY <4>1
      <4> QED BY <4>2
    <3>2. Loops(p)
      BY <2>2, <2>3 DEF Post
    <3> QED BY <3>1, <3>2 DEF Sound
  <2>4. CASE ~r.cycle
    <3>1. searchFrom(p, v, t) = [v EXCEPT !.color = r.color]
      BY <1>3, <1>6, <2>4
    <3>2. searchFrom(p, v, t).fs = {} /\ searchFrom(p, v, t).color = r.color
      BY <1>6, <3>1 DEF Verdict
    <3> QED BY <1>6, <2>2, <2>4, <3>2 DEF Post, Sound
  <2> QED BY <2>3, <2>4
<1> QED BY <1>4, <1>5, <1>6

\* The verdict over all tasks is right.
LEMMA SearchIsExact ==
  ASSUME NEW p, IsModel(p)
  PROVE  /\ validateDependsDAG(p) \subseteq {<<"cycle", id>> : id \in TaskIds(p)}
         /\ validateDependsDAG(p) # {} <=> Loops(p)
<1> DEFINE s == p.tasks
           n == Len(s)
<1>1. s \in Seq(ToSet(s)) /\ n \in Nat /\ DOMAIN s = 1..n
  BY InSeq DEF IsModel
<1>2. PICK h \in [0..n -> Verdict(p)] :
           /\ h[0] = [fs |-> {}, color |-> [x \in Nodes(p) |-> "white"]] /\ validateDependsDAG(p) = h[n].fs
           /\ \A k \in 1..n : h[k] = searchFrom(p, h[k - 1], s[k])
  <2> DEFINE u == s
  <2>1. u \in Seq(ToSet(p.tasks)) /\ u = p.tasks
    BY <1>1
  <2> HIDE DEF u
  <2>2. \E h \in [0..Len(u) -> Verdict(p)] :
           /\ h[0] = [fs |-> {}, color |-> [x \in Nodes(p) |-> "white"]] /\ validateDependsDAG(p) = h[Len(u)].fs
           /\ \A k \in 1..Len(u) : h[k] = searchFrom(p, h[k - 1], u[k])
    BY <2>1, SearchesFold
  <2> QED BY <2>2 DEF u
<1> DEFINE past(k) == {s[j].id : j \in 1..k}
           T == {k \in 0..n : Sound(p, h[k], past(k))}
<1>3. 0 \in T
  <2>1. h[0].fs = {} /\ h[0].color = [x \in Nodes(p) |-> "white"]
    BY <1>2
  <2>2. Gray(p, h[0].color) = {} /\ Black(p, h[0].color) = {}
    BY <2>1 DEF Gray, Black
  <2>3. BlackIsDone(p, h[0].color)
    BY <2>2 DEF BlackIsDone
  <2>4. past(0) = {}
    OBVIOUS
  <2> HIDE DEF past, n
  <2>5. Sound(p, h[0], past(0))
    BY <2>1, <2>2, <2>3, <2>4 DEF Sound
  <2> QED BY <1>1, <2>5
<1>4. ASSUME NEW k \in 1..n, k - 1 \in T PROVE k \in T
  <2>1. k - 1 \in 0..n /\ k \in 0..n
    BY <1>1
  <2>2. s[k] \in ToSet(p.tasks)
    BY <1>1 DEF ToSet
  <2>3. h[k - 1] \in Verdict(p) /\ Sound(p, h[k - 1], past(k - 1))
    BY <1>2, <1>4, <2>1
  <2>4. past(k) = past(k - 1) \cup {s[k].id}
    <3> HIDE DEF s, n
    <3> QED BY <1>1
  <2> HIDE DEF past, s
  <2>5. Sound(p, searchFrom(p, h[k - 1], s[k]), past(k - 1) \cup {s[k].id})
    BY <2>2, <2>3, NextTask
  <2> QED BY <1>2, <2>1, <2>4, <2>5
<1>5. Sound(p, h[n], past(n)) /\ h[n] \in Verdict(p)
  <2>1. n \in 0..n
    BY <1>1
  <2>2. 0..n \subseteq T
    <3> HIDE DEF T, n
    <3> QED BY <1>1, <1>3, <1>4, Along
  <2>3. n \in T
    BY <2>1, <2>2
  <2> QED BY <1>2, <2>1, <2>3
<1>6. past(n) = TaskIds(p)
  BY <1>1 DEF TaskIds, ToSet
<1> DEFINE c == h[n].color
<1>7. h[n].fs \subseteq {<<"cycle", id>> : id \in TaskIds(p)}
  BY <1>5 DEF Verdict
<1> HIDE DEF past
<1>8. ASSUME h[n].fs = {} PROVE ~Loops(p)
  <2> SUFFICES ASSUME NEW C \in SUBSET Nodes(p), C # {}, Sustains(p, C) PROVE FALSE
    BY DEF Loops
  <2>1. \A a \in C : After(p, a) # {}
    BY DEF Sustains
  <2>2. C \subseteq TaskIds(p)
    BY <2>1, AdjacencyInNodes DEF After
  <2>3. C \in SUBSET Black(p, c)
    BY <1>5, <1>6, <1>8, <2>2 DEF Sound
  <2>4. BlackIsDone(p, c)
    BY <1>5, <1>8 DEF Sound
  <2> QED BY <2>3, <2>4 DEF BlackIsDone
<1>9. h[n].fs # {} => Loops(p)
  BY <1>5 DEF Sound
<1> QED BY <1>2, <1>7, <1>8, <1>9

\* The search reports a cycle exactly when the dependencies of the tasks have one
\* (validate.go:322-374).
THEOREM DagCheckIsAlwaysExact == LintSpec => []DagCheckIsExact
<1>1. LintRead => DagCheckIsExact
  <2> SUFFICES ASSUME LintRead, exit # -1
               PROVE  (\E id \in TaskIds(m) : <<"cycle", id>> \in errors)
                      <=> \E C \in SUBSET TaskIds(m) : C # {} /\ \A a \in C : ToSet(adjacency(m, a)) \cap C # {}
    BY DEF DagCheckIsExact
  <2>1. IsModel(m) /\ errors = validate(m)
    BY DEF LintRead
  <2>2. \A id : <<"cycle", id>> \in validate(m) <=> <<"cycle", id>> \in validateDependsDAG(m)
    <3>1. ASSUME NEW rule, rule # "cycle", NEW x, NEW id PROVE <<"cycle", id>> \notin found(rule, x)
      BY <3>1 DEF found
    <3> SUFFICES ASSUME NEW id PROVE <<"cycle", id>> \in validate(m) <=> <<"cycle", id>> \in validateDependsDAG(m)
      OBVIOUS
    <3>2. <<"cycle", id>> \notin validateRequiredSections(m) \cup validateStatusHeader(m) \cup validateSlugDeclared(m)
      BY <3>1 DEF validateRequiredSections, validateStatusHeader, validateSlugDeclared
    <3>3. <<"cycle", id>> \notin validateReqCovered(m) \cup validateTaskHasFiles(m) \cup validateDependsExist(m)
      BY <3>1 DEF validateReqCovered, validateTaskHasFiles, validateDependsExist
    <3>4. <<"cycle", id>> \notin validateBatchMembership(m) \cup validateBatchFileOverlap(m) \cup validateBatchOrder(m)
      BY <3>1 DEF validateBatchMembership, validateBatchFileOverlap, validateBatchOrder
    <3>5. <<"cycle", id>> \notin validateIDFormat(m) \cup validateIDUnique(m) \cup validateTCRefValid(m)
      BY <3>1 DEF validateIDFormat, validateIDUnique, validateTCRefValid
    <3>6. <<"cycle", id>> \notin validateTestsRefValid(m) \cup validateTCReferenced(m)
      BY <3>1 DEF validateTestsRefValid, validateTCReferenced
    <3> QED BY <3>2, <3>3, <3>4, <3>5, <3>6 DEF validate
  <2>3. /\ validateDependsDAG(m) \subseteq {<<"cycle", id>> : id \in TaskIds(m)}
        /\ validateDependsDAG(m) # {} <=> Loops(m)
    BY <2>1, SearchIsExact
  <2>4. (\E id \in TaskIds(m) : <<"cycle", id>> \in errors) <=> validateDependsDAG(m) # {}
    BY <2>1, <2>2, <2>3
  <2>5. Loops(m) <=> \E C \in SUBSET TaskIds(m) : C # {} /\ \A a \in C : ToSet(adjacency(m, a)) \cap C # {}
    <3>1. TaskIds(m) \subseteq Nodes(m)
      BY DEF Nodes
    <3>2. ASSUME NEW C \in SUBSET Nodes(m), Sustains(m, C) PROVE C \subseteq TaskIds(m)
      <4>1. \A a \in C : After(m, a) # {}
        BY <3>2 DEF Sustains
      <4> QED BY <2>1, <4>1, AdjacencyInNodes DEF After
    <3>3. Loops(m) <=> \E C \in SUBSET TaskIds(m) : C # {} /\ Sustains(m, C)
      BY <3>1, <3>2 DEF Loops
    <3> QED BY <3>3 DEF Sustains, After
  <2> QED BY <2>3, <2>4, <2>5
<1> QED BY <1>1, LintAlwaysRead, PTL

-----------------------------------------------------------------------------
(***************************************************************************)
(* Rankings: what an index answers.                                        *)
(***************************************************************************)
Ranked(s) == \A i, j \in DOMAIN s : i < j => ~ranksBefore(s[j], s[i]) /\ s[i] # s[j]

LEMMA InsertIs ==
  ASSUME NEW X, NEW s \in Seq(X), NEW x \in X, NEW p \in 1..(Len(s) + 1)
  PROVE  /\ InsertAt(s, p, x) \in Seq(X) /\ Len(InsertAt(s, p, x)) = Len(s) + 1
         /\ \A i \in 1..(p - 1) : InsertAt(s, p, x)[i] = s[i]
         /\ InsertAt(s, p, x)[p] = x
         /\ \A i \in p..Len(s) : InsertAt(s, p, x)[i + 1] = s[i]
<1> DEFINE a == SubSeq(s, 1, p - 1)
           b == SubSeq(s, p, Len(s))
<1>1. Len(s) \in Nat /\ p \in Nat /\ 1 <= p /\ p <= Len(s) + 1
  OBVIOUS
<1>2. a \in Seq(X) /\ Len(a) = p - 1 /\ \A i \in 1..(p - 1) : a[i] = s[i]
  BY <1>1
<1>3. b \in Seq(X) /\ Len(b) = Len(s) - p + 1 /\ \A i \in 1..(Len(s) - p + 1) : b[i] = s[p + i - 1]
  BY <1>1
<1>4. <<x>> \in Seq(X) /\ Len(<<x>>) = 1 /\ <<x>>[1] = x
  OBVIOUS
<1>5. InsertAt(s, p, x) = (a \o <<x>>) \o b
  BY DEF InsertAt
<1> HIDE DEF a, b
<1> DEFINE c == a \o <<x>>
<1>6. c \in Seq(X) /\ Len(c) = p /\ c[p] = x /\ \A i \in 1..(p - 1) : c[i] = s[i]
  BY <1>1, <1>2, <1>4
<1> HIDE DEF c
<1>7. c \o b \in Seq(X) /\ Len(c \o b) = Len(s) + 1 /\ (c \o b)[p] = x /\ \A i \in 1..(p - 1) : (c \o b)[i] = s[i]
  <2>1. c \o b \in Seq(X) /\ Len(c \o b) = Len(s) + 1
    BY <1>1, <1>3, <1>6
  <2>2. ASSUME NEW i \in 1..p PROVE (c \o b)[i] = c[i]
    BY <1>1, <1>3, <1>6
  <2>3. p \in 1..p /\ \A i \in 1..(p - 1) : i \in 1..p
    BY <1>1
  <2> QED BY <2>1, <2>2, <2>3, <1>6
<1>8. ASSUME NEW i \in p..Len(s) PROVE (c \o b)[i + 1] = s[i]
  <2> i \in Nat /\ p <= i /\ i <= Len(s)
    BY <1>1
  <2>1. i + 1 - p \in 1..(Len(s) - p + 1) /\ i + 1 = p + (i + 1 - p) /\ p + (i + 1 - p) - 1 = i
    BY <1>1
  <2>2. (c \o b)[i + 1] = b[i + 1 - p]
    BY <2>1, <1>1, <1>3, <1>6
  <2> QED BY <2>1, <2>2, <1>3
<1> QED BY <1>5, <1>7, <1>8 DEF c

LEMMA LastNotBetter ==
  ASSUME NEW n \in Nat, NEW r \in SUBSET (1..n)
  PROVE  Max({0} \cup r) \in {0} \cup r /\ \A i \in r : i <= Max({0} \cup r)
<1> DEFINE last == IF r = {} THEN 0 ELSE Max(r)
<1>1. last \in {0} \cup r /\ \A i \in {0} \cup r : i <= last
  <2>1. CASE r = {}
    BY <2>1
  <2>2. CASE r # {}
    <3>1. Max(r) \in r /\ \A i \in r : i <= Max(r)
      BY <2>2, HasMax
    <3>2. Max(r) \in 1..n
      BY <3>1
    <3> QED BY <2>2, <3>1, <3>2
  <2> QED BY <2>1, <2>2
<1> HIDE DEF last
<1>2. \E k \in {0} \cup r : \A i \in {0} \cup r : k >= i
  BY <1>1
<1>3. Max({0} \cup r) \in {0} \cup r /\ \A i \in {0} \cup r : Max({0} \cup r) >= i
  BY <1>2 DEF Max
<1> QED BY <1>3

\* ranksBefore is a strict weak order.
LEMMA RankOrder ==
  ASSUME NEW a, NEW b, NEW c, a.score \in Int, a.path \in Int, b.score \in Int, b.path \in Int,
         c.score \in Int, c.path \in Int
  PROVE  /\ ~ranksBefore(a, a)
         /\ ranksBefore(a, b) => ~ranksBefore(b, a)
         /\ ~ranksBefore(a, b) /\ ~ranksBefore(b, c) => ~ranksBefore(a, c)
BY DEF ranksBefore

LEMMA InsertRanks ==
  ASSUME NEW H, IsHits(H), NEW s \in Seq(H), Ranked(s), NEW x \in H \ ToSet(s)
  PROVE  /\ insertRanked(s, x) \in Seq(H) /\ Ranked(insertRanked(s, x))
         /\ ToSet(insertRanked(s, x)) = ToSet(s) \cup {x}
<1> DEFINE n == Len(s)
           r == {i \in DOMAIN s : ~ranksBefore(x, s[i])}
           last == Max({0} \cup r)
           t == InsertAt(s, last + 1, x)
<1>1. n \in Nat /\ DOMAIN s = 1..n /\ \A i \in 1..n : s[i] \in H /\ s[i] # x
  BY DEF ToSet
<1>2. r \in SUBSET (1..n)
  BY <1>1
<1>3. last \in {0} \cup r /\ \A i \in r : i <= last
  <2> HIDE DEF n, r
  <2> QED BY <1>1, <1>2, LastNotBetter
<1>4. insertRanked(s, x) = t
  <2>1. 1 + last = last + 1
    BY <1>1, <1>2, <1>3
  <2> QED BY <2>1 DEF insertRanked
<1> HIDE DEF n
<1>5. last \in 0..n
  BY <1>1, <1>2, <1>3
<1>6. \A i \in (last + 1)..n : ranksBefore(x, s[i])
  <2> SUFFICES ASSUME NEW i \in (last + 1)..n PROVE ranksBefore(x, s[i])
    OBVIOUS
  <2>1. i \in DOMAIN s /\ ~(i <= last)
    BY <1>1, <1>5
  <2>2. i \notin r
    <3> HIDE DEF r, last
    <3> QED BY <2>1, <1>3
  <2> QED BY <2>1, <2>2
<1>7. last # 0 => ~ranksBefore(x, s[last])
  BY <1>1, <1>3
<1> HIDE DEF r, last
<1>8. ASSUME NEW i \in 1..last PROVE ~ranksBefore(x, s[i])
  <2>1. CASE i = last
    BY <2>1, <1>5, <1>7
  <2>2. CASE i < last
    <3>1. i \in DOMAIN s /\ last \in DOMAIN s /\ i \in 1..n /\ last \in 1..n
      BY <2>2, <1>1, <1>5
    <3>2. ~ranksBefore(s[last], s[i]) /\ ~ranksBefore(x, s[last])
      BY <2>2, <3>1, <1>5, <1>7 DEF Ranked
    <3> QED BY <3>1, <3>2, <1>1, RankOrder DEF IsHits
  <2> QED BY <2>1, <2>2, <1>5
<1>9. /\ t \in Seq(H) /\ Len(t) = n + 1 /\ t[last + 1] = x
      /\ \A i \in 1..last : t[i] = s[i]
      /\ \A i \in (last + 1)..n : t[i + 1] = s[i]
  <2>1. last + 1 \in 1..(Len(s) + 1) /\ (last + 1) - 1 = last
    BY <1>1, <1>5 DEF n
  <2> HIDE DEF t
  <2> QED BY <2>1, InsertIs DEF n, t
<1>10. DOMAIN t = 1..(n + 1)
  BY <1>1, <1>9
<1> HIDE DEF t
<1> DEFINE old(i) == IF i <= last THEN i ELSE i - 1
<1>11. \A i \in 1..(n + 1) : i # last + 1 => old(i) \in 1..n /\ t[i] = s[old(i)] /\ (old(i) <= last <=> i <= last)
  <2>1. ASSUME NEW i \in 1..(n + 1), i > last + 1 PROVE t[i] = s[i - 1] /\ i - 1 \in (last + 1)..n
    <3>1. i - 1 \in (last + 1)..n /\ (i - 1) + 1 = i
      BY <2>1, <1>1, <1>5
    <3>2. t[(i - 1) + 1] = s[i - 1]
      BY <3>1, <1>9, Zenon
    <3> QED BY <3>1, <3>2
  <2> QED BY <2>1, <1>1, <1>5, <1>9
<1>12. ASSUME NEW i \in 1..(n + 1), NEW j \in 1..(n + 1), i < j PROVE ~ranksBefore(t[j], t[i]) /\ t[i] # t[j]
  <2>1. CASE i = last + 1
    <3>1. old(j) \in (last + 1)..n /\ t[j] = s[old(j)] /\ t[i] = x
      BY <1>11, <2>1, <1>12, <1>9, <1>5, <1>1
    <3>2. old(j) \in 1..n
      BY <3>1, <1>5
    <3> HIDE DEF old
    <3> QED BY <3>1, <3>2, <1>6, <1>1, RankOrder DEF IsHits
  <2>2. CASE j = last + 1
    <3>1. i \in 1..last /\ t[i] = s[i] /\ t[j] = x /\ i \in 1..n
      BY <2>2, <1>12, <1>9, <1>5, <1>1
    <3> QED BY <3>1, <1>8, <1>1
  <2>3. CASE i # last + 1 /\ j # last + 1
    <3>1. old(i) \in DOMAIN s /\ old(j) \in DOMAIN s /\ old(i) < old(j) /\ t[i] = s[old(i)] /\ t[j] = s[old(j)]
      <4>1. old(i) \in DOMAIN s /\ old(j) \in DOMAIN s /\ t[i] = s[old(i)] /\ t[j] = s[old(j)]
        BY <2>3, <1>1, <1>11, Zenon
      <4>2. old(i) < old(j)
        BY <2>3, <1>5, <1>12
      <4> QED BY <4>1, <4>2
    <3> HIDE DEF old
    <3> QED BY <3>1 DEF Ranked
  <2> QED BY <2>1, <2>2, <2>3
<1>13. Ranked(t)
  BY <1>10, <1>12 DEF Ranked
<1>14. ToSet(t) = ToSet(s) \cup {x}
  <2>1. ASSUME NEW i \in 1..(n + 1) PROVE t[i] \in ToSet(s) \cup {x}
    <3>1. CASE i = last + 1
      BY <3>1, <1>9
    <3>2. CASE i # last + 1
      <4>1. old(i) \in DOMAIN s /\ t[i] = s[old(i)]
        BY <3>2, <1>1, <1>11, Zenon
      <4> HIDE DEF old
      <4> QED BY <4>1 DEF ToSet
    <3> QED BY <3>1, <3>2
  <2>2. ASSUME NEW i \in 1..n PROVE \E j \in 1..(n + 1) : t[j] = s[i]
    <3>1. CASE i <= last
      <4>1. i \in 1..last /\ i \in 1..(n + 1)
        BY <3>1, <1>1, <1>5
      <4> QED BY <4>1, <1>9
    <3>2. CASE i > last
      <4>1. i \in (last + 1)..n /\ i + 1 \in 1..(n + 1)
        BY <3>2, <1>1, <1>5
      <4> QED BY <4>1, <1>9
    <3> QED BY <3>1, <3>2, <1>5
  <2>3. last + 1 \in 1..(n + 1)
    BY <1>1, <1>5
  <2>4. ToSet(t) = {t[i] : i \in 1..(n + 1)} /\ ToSet(s) = {s[i] : i \in 1..n}
    BY <1>1, <1>10 DEF ToSet
  <2>5. x \in ToSet(t)
    BY <2>3, <2>4, <1>9
  <2>6. ToSet(t) \subseteq ToSet(s) \cup {x}
    BY <2>1, <2>4
  <2>7. ToSet(s) \subseteq ToSet(t)
    BY <2>2, <2>4
  <2> QED BY <2>5, <2>6, <2>7
<1> QED BY <1>4, <1>9, <1>13, <1>14

anyOf(r) == CHOOSE x \in r : TRUE

\* How large the subsets of H are, up to N.
Sizes(size, H, N) ==
  \A r \in SUBSET H :
    /\ size[r] \in Nat /\ (size[r] = 0 <=> r = {}) /\ size[r] <= N
    /\ r # {} => anyOf(r) \in r /\ r \ {anyOf(r)} \in SUBSET H /\ size[r \ {anyOf(r)}] = size[r] - 1

LEMMA Shrinking == ASSUME NEW H, IsFiniteSet(H) PROVE \E size : Sizes(size, H, Cardinality(H))
<1> DEFINE size == [r \in SUBSET H |-> Cardinality(r)]
<1>1. ASSUME NEW r \in SUBSET H
      PROVE  /\ size[r] \in Nat /\ (size[r] = 0 <=> r = {}) /\ size[r] <= Cardinality(H)
             /\ r # {} => anyOf(r) \in r /\ r \ {anyOf(r)} \in SUBSET H /\ size[r \ {anyOf(r)}] = size[r] - 1
  <2>1. size[r] = Cardinality(r) /\ r \ {anyOf(r)} \in SUBSET H /\ size[r \ {anyOf(r)}] = Cardinality(r \ {anyOf(r)})
    OBVIOUS
  <2> HIDE DEF size
  <2>2. IsFiniteSet(r) /\ Cardinality(r) <= Cardinality(H)
    BY FS_Subset
  <2>3. Cardinality(r) \in Nat /\ (Cardinality(r) = 0 <=> r = {})
    BY <2>2, FS_CardinalityType, FS_EmptySet
  <2>4. r # {} => anyOf(r) \in r
    BY DEF anyOf
  <2>5. r # {} => Cardinality(r \ {anyOf(r)}) = Cardinality(r) - 1
    BY <2>2, <2>4, FS_RemoveElement
  <2> QED BY <2>1, <2>2, <2>3, <2>4, <2>5
<1> HIDE DEF size
<1>2. Sizes(size, H, Cardinality(H))
  BY <1>1 DEF Sizes
<1> QED BY <1>2

\* The fold over the hits, in whatever order they are chosen.
LEMMA RankedHits ==
  ASSUME NEW H, IsHits(H)
  PROVE  LET s == FoldSet(LAMBDA x, out : insertRanked(out, x), <<>>, H)
         IN  s \in Seq(H) /\ Ranked(s) /\ ToSet(s) = H
<1> DEFINE DefOn(f, D) == f = [r \in D |-> IF r = {} THEN <<>> ELSE insertRanked(f[r \ {anyOf(r)}], anyOf(r))]
           fold == CHOOSE f : DefOn(f, SUBSET H)
           N == Cardinality(H)
<1>1. IsFiniteSet(H) /\ N \in Nat
  BY FS_CardinalityType DEF IsHits
<1> HIDE DEF N
<1>2. PICK size : Sizes(size, H, N)
  BY <1>1, Shrinking DEF N
<1> DEFINE within_(k) == {r \in SUBSET H : size[r] <= k}
<1>a. /\ \A r \in SUBSET H : size[r] \in Nat /\ (size[r] = 0 <=> r = {})
      /\ \A r \in SUBSET H : r # {} => anyOf(r) \in r /\ r \ {anyOf(r)} \in SUBSET H
                                         /\ size[r \ {anyOf(r)}] = size[r] - 1
      /\ \A r \in SUBSET H : size[r] <= N
  BY <1>2 DEF Sizes
<1>3. \E g : DefOn(g, SUBSET H)
  <2> DEFINE T == {k \in Nat : \E g : DefOn(g, within_(k))}
  <2>1. 0 \in T
    <3> DEFINE g == [r \in within_(0) |-> <<>>]
    <3>1. \A r \in within_(0) : r = {}
      BY <1>a
    <3>2. DefOn(g, within_(0))
      BY <3>1
    <3> QED BY <3>2
  <2>2. ASSUME NEW k \in Nat, k \in T PROVE k + 1 \in T
    <3>1. PICK g : DefOn(g, within_(k))
      BY <2>2
    <3> DEFINE f == [r \in within_(k + 1) |-> IF r = {} THEN <<>> ELSE insertRanked(g[r \ {anyOf(r)}], anyOf(r))]
    <3>2. ASSUME NEW r \in within_(k) PROVE f[r] = g[r] /\ r \in within_(k + 1)
      <4>1. r \in within_(k + 1)
        BY <1>a
      <4>2. g[r] = IF r = {} THEN <<>> ELSE insertRanked(g[r \ {anyOf(r)}], anyOf(r))
        BY <3>1
      <4> QED BY <4>1, <4>2
    <3>3. ASSUME NEW r \in within_(k + 1), r # {} PROVE r \ {anyOf(r)} \in within_(k)
      <4>1. r \in SUBSET H /\ size[r] <= k + 1
        OBVIOUS
      <4>2. r \ {anyOf(r)} \in SUBSET H /\ size[r \ {anyOf(r)}] = size[r] - 1 /\ size[r] \in Nat
        BY <4>1, <3>3, <1>a
      <4> QED BY <4>1, <4>2
    <3>4. ASSUME NEW r \in within_(k + 1) PROVE f[r] = IF r = {} THEN <<>> ELSE insertRanked(f[r \ {anyOf(r)}], anyOf(r))
      <4>1. r # {} => f[r \ {anyOf(r)}] = g[r \ {anyOf(r)}]
        BY <3>2, <3>3, Zenon
      <4>2. f[r] = IF r = {} THEN <<>> ELSE insertRanked(g[r \ {anyOf(r)}], anyOf(r))
        OBVIOUS
      <4> HIDE DEF f, within_
      <4> QED BY <4>1, <4>2
    <3>5. DOMAIN f = within_(k + 1) /\ f = [r \in within_(k + 1) |-> f[r]]
      OBVIOUS
    <3> HIDE DEF f, within_
    <3>6. DefOn(f, within_(k + 1))
      BY <3>4, <3>5
    <3> HIDE DEF DefOn
    <3> QED BY <3>6
  <2> HIDE DEF T
  <2>3. N \in T
    BY <1>1, <2>1, <2>2, Induct
  <2>4. within_(N) = SUBSET H
    BY <1>a
  <2> QED BY <2>3, <2>4 DEF T
<1>4. DefOn(fold, SUBSET H)
  <2> HIDE DEF DefOn
  <2> QED BY <1>3
<1>5. FoldSet(LAMBDA x, out : insertRanked(out, x), <<>>, H) = fold[H]
  BY DEF FoldSet, MapThenFoldSet, anyOf
<1> HIDE DEF fold
<1> DEFINE Good(r) == fold[r] \in Seq(H) /\ Ranked(fold[r]) /\ ToSet(fold[r]) = r
           T == {k \in Nat : \A r \in within_(k) : Good(r)}
<1>6. Good({})
  <2>1. fold[{}] = <<>>
    BY <1>4
  <2> QED BY <2>1 DEF Ranked, ToSet
<1>7. 0 \in T
  <2>1. \A r \in within_(0) : r = {}
    BY <1>a
  <2> HIDE DEF Good, within_
  <2> QED BY <1>6, <2>1
<1>8. ASSUME NEW k \in Nat, k \in T PROVE k + 1 \in T
  <2> SUFFICES ASSUME NEW r \in within_(k + 1), r # {} PROVE Good(r)
    <3> HIDE DEF Good, within_
    <3> QED BY <1>6
  <2>1. anyOf(r) \in r /\ r \ {anyOf(r)} \in within_(k) /\ anyOf(r) \in H
    <3>1. r \in SUBSET H /\ size[r] <= k + 1
      OBVIOUS
    <3>2. anyOf(r) \in r /\ r \ {anyOf(r)} \in SUBSET H /\ size[r \ {anyOf(r)}] = size[r] - 1 /\ size[r] \in Nat
      BY <3>1, <1>a
    <3> QED BY <3>1, <3>2
  <2>2. Good(r \ {anyOf(r)})
    BY <2>1, <1>8
  <2>3. fold[r] = insertRanked(fold[r \ {anyOf(r)}], anyOf(r))
    BY <1>4
  <2>4. anyOf(r) \in H \ ToSet(fold[r \ {anyOf(r)}])
    BY <2>1, <2>2
  <2>5. (r \ {anyOf(r)}) \cup {anyOf(r)} = r
    BY <2>1
  <2> DEFINE old == fold[r \ {anyOf(r)}]
             x == anyOf(r)
  <2>6. old \in Seq(H) /\ Ranked(old) /\ x \in H \ ToSet(old) /\ ToSet(old) = r \ {anyOf(r)}
    BY <2>2, <2>4
  <2>7. fold[r] = insertRanked(old, x)
    BY <2>3
  <2> HIDE DEF old, x
  <2>8. insertRanked(old, x) \in Seq(H) /\ Ranked(insertRanked(old, x))
        /\ ToSet(insertRanked(old, x)) = ToSet(old) \cup {x}
    BY <2>6, InsertRanks
  <2>9. ToSet(old) \cup {x} = r
    BY <2>5, <2>6 DEF x
  <2> QED BY <2>7, <2>8, <2>9
<1> HIDE DEF T
<1>9. N \in T
  BY <1>1, <1>7, <1>8, Induct
<1>10. Good(H)
  BY <1>a, <1>9 DEF T
<1> QED BY <1>5, <1>10

\* Ranked sequences list a set without repetition.
LEMMA RankedCounts ==
  ASSUME NEW X, NEW s \in Seq(X), Ranked(s)
  PROVE  IsFiniteSet(ToSet(s)) /\ Cardinality(ToSet(s)) = Len(s)
<1> DEFINE n == Len(s)
           f == [i \in 1..n |-> s[i]]
<1>1. n \in Nat /\ DOMAIN s = 1..n
  OBVIOUS
<1>2. \A i, j \in 1..n : i # j => s[i] # s[j]
  <2> SUFFICES ASSUME NEW i \in 1..n, NEW j \in 1..n, i < j PROVE s[i] # s[j]
    <3> HIDE DEF n
    <3> QED BY <1>1
  <2> QED BY <1>1 DEF Ranked
<1>3. f \in Bijection(1..n, ToSet(s))
  <2> HIDE DEF n
  <2> QED BY <1>1, <1>2 DEF Bijection, Injection, Surjection, IsInjective, ToSet
<1> HIDE DEF f
<1>4. ExistsBijection(1..n, ToSet(s))
  BY <1>3 DEF ExistsBijection
<1>5. IsFiniteSet(ToSet(s)) /\ Cardinality(ToSet(s)) = n
  <2> HIDE DEF n
  <2>1. Cardinality(ToSet(s)) = n
    BY <1>1, <1>4, FS_CountingElements
  <2>2. IsFiniteSet(1..n)
    <3>1. 1 \in Int /\ n \in Int
      BY <1>1
    <3> QED BY <3>1, FS_Interval, Zenon
  <2>3. IsFiniteSet(ToSet(s))
    BY <2>2, <1>4, FS_Bijection, Zenon
  <2> QED BY <2>1, <2>3
<1> QED BY <1>5

LEMMA WithinRanked ==
  ASSUME NEW X, NEW s \in Seq(X), Ranked(s), NEW S
  PROVE  /\ within(s, S) \in Seq(X) /\ Ranked(within(s, S))
         /\ ToSet(within(s, S)) = ToSet(s) \cap S
<1> DEFINE n == Len(s)
<1>1. n \in Nat /\ DOMAIN s = 1..n
  OBVIOUS
<1>2. PICK h \in [0..n -> Seq(X)] :
        /\ h[0] = <<>> /\ within(s, S) = h[n]
        /\ \A k \in 1..n : h[k] = keepIn(h[k - 1], s[k], S)
  <2> DEFINE w == within(s, S)
  <2>1. w = within(s, S)
    OBVIOUS
  <2> HIDE DEF n, w
  <2>2. \E h \in [0..Len(s) -> Seq(X)] :
          /\ h[0] = <<>> /\ w = h[Len(s)]
          /\ \A k \in 1..Len(s) : h[k] = keepIn(h[k - 1], s[k], S)
    BY <2>1, WithinFolds
  <2> QED BY <2>2 DEF n, w
<1> DEFINE sofar(k) == {s[i] : i \in 1..k}
           T == {k \in 0..n : h[k] \in Seq(X) /\ Ranked(h[k]) /\ ToSet(h[k]) = sofar(k) \cap S}
<1>3. 0 \in T
  <2>1. 1..0 = {} /\ h[0] = <<>> /\ DOMAIN h[0] = {} /\ 0 \in 0..n
    BY <1>1, <1>2
  <2> QED BY <2>1, <1>2 DEF Ranked, ToSet
<1>4. ASSUME NEW k \in 1..n, k - 1 \in T PROVE k \in T
  <2> DEFINE o == h[k - 1]
             t == h[k]
  <2>1. o \in Seq(X) /\ Ranked(o) /\ ToSet(o) = sofar(k - 1) \cap S /\ t = keepIn(o, s[k], S) /\ k \in 0..n
    BY <1>2, <1>4
  <2>2. sofar(k) = sofar(k - 1) \cup {s[k]}
    <3>1. 1..k = (1..(k - 1)) \cup {k}
      BY <1>1
    <3> QED BY <3>1
  <2>3. s[k] \in X
    BY <1>1
  <2> HIDE DEF o, t, sofar, n
  <2>4. CASE s[k] \in S
    <3> DEFINE l == Len(o)
    <3>1. t = Append(o, s[k]) /\ l \in Nat /\ DOMAIN o = 1..l
      BY <2>1, <2>4 DEF keepIn
    <3>2. t \in Seq(X) /\ DOMAIN t = 1..(l + 1) /\ t[l + 1] = s[k] /\ \A i \in 1..l : t[i] = o[i]
      BY <2>1, <2>3, <3>1
    <3>3. ASSUME NEW i \in 1..l PROVE o[i] # s[k] /\ ~ranksBefore(s[k], o[i])
      <4>1. o[i] \in sofar(k - 1)
        BY <2>1, <3>1 DEF ToSet
      <4>2. PICK j \in 1..(k - 1) : o[i] = s[j]
        BY <4>1 DEF sofar
      <4>3. j \in DOMAIN s /\ k \in DOMAIN s /\ j < k
        BY <1>1
      <4> QED BY <4>2, <4>3 DEF Ranked
    <3> HIDE DEF l
    <3>4. Ranked(t)
      <4> SUFFICES ASSUME NEW i \in 1..(l + 1), NEW j \in 1..(l + 1), i < j
                   PROVE  ~ranksBefore(t[j], t[i]) /\ t[i] # t[j]
        BY <3>2 DEF Ranked
      <4>1. i \in 1..l
        BY <3>1
      <4>2. CASE j = l + 1
        BY <4>1, <4>2, <3>2, <3>3
      <4>3. CASE j # l + 1
        <5>1. j \in 1..l
          BY <4>3, <3>1
        <5> QED BY <4>1, <5>1, <3>1, <3>2, <2>1 DEF Ranked
      <4> QED BY <4>2, <4>3
    <3>5. ToSet(t) = ToSet(o) \cup {s[k]}
      <4>1. 1..(l + 1) = (1..l) \cup {l + 1}
        BY <3>1
      <4>2. ToSet(t) = {t[i] : i \in 1..(l + 1)} /\ ToSet(o) = {o[i] : i \in 1..l}
        BY <3>1, <3>2 DEF ToSet
      <4>3. {t[i] : i \in 1..(l + 1)} = {t[i] : i \in 1..l} \cup {t[l + 1]}
        BY <4>1
      <4>4. {t[i] : i \in 1..l} = {o[i] : i \in 1..l}
        BY <3>2
      <4> QED BY <4>2, <4>3, <4>4, <3>2
    <3>6. ToSet(t) = sofar(k) \cap S
      BY <3>5, <2>1, <2>2, <2>4
    <3> QED BY <3>2, <3>4, <3>6, <2>1 DEF t
  <2>5. CASE s[k] \notin S
    <3>1. t = o
      BY <2>1, <2>5 DEF keepIn
    <3>2. sofar(k) \cap S = sofar(k - 1) \cap S
      BY <2>2, <2>5
    <3> QED BY <3>1, <3>2, <2>1 DEF t
  <2> QED BY <2>4, <2>5
<1> HIDE DEF T
<1>5. n \in T
  <2> HIDE DEF n
  <2>1. n \in Nat /\ n \in 0..n
    BY <1>1
  <2>2. 0..n \subseteq T
    BY <2>1, <1>3, <1>4, Along
  <2> QED BY <2>1, <2>2
<1>6. sofar(n) = ToSet(s)
  BY <1>1 DEF ToSet
<1> HIDE DEF sofar, n
<1> QED BY <1>2, <1>5, <1>6 DEF T

LEMMA FirstRanked ==
  ASSUME NEW X, NEW s \in Seq(X), Ranked(s), NEW n \in Nat
  PROVE  /\ firstOf(s, n) \in Seq(X) /\ Ranked(firstOf(s, n))
         /\ Len(firstOf(s, n)) <= n
         /\ ToSet(firstOf(s, n)) \subseteq ToSet(s)
         /\ Len(firstOf(s, n)) = n \/ firstOf(s, n) = s
         /\ Len(s) >= n => Len(firstOf(s, n)) = n
         /\ Len(s) <= n => firstOf(s, n) = s
         /\ \A x \in ToSet(firstOf(s, n)), y \in ToSet(s) \ ToSet(firstOf(s, n)) : ~ranksBefore(y, x)
<1> DEFINE l == IF Len(s) < n THEN Len(s) ELSE n
           t == SubSeq(s, 1, l)
<1>1. Len(s) \in Nat /\ DOMAIN s = 1..Len(s) /\ l \in 0..Len(s) /\ l <= n
  OBVIOUS
<1>2. t \in Seq(X) /\ Len(t) = l /\ DOMAIN t = 1..l /\ \A i \in 1..l : t[i] = s[i]
  <2> HIDE DEF l
  <2> QED BY <1>1
<1>3. firstOf(s, n) = t
  BY DEF firstOf
<1>4. (Len(s) >= n => l = n) /\ (Len(s) <= n => l = Len(s))
  <2> Len(s) \in Nat
    OBVIOUS
  <2> QED OBVIOUS
<1>5. l = Len(s) => t = s
  <2> HIDE DEF l
  <2> QED BY <1>1, <1>2
<1> HIDE DEF t, l
<1>6. \A i \in 1..l : i \in DOMAIN s
  BY <1>1
<1>7. Ranked(t)
  BY <1>2, <1>6 DEF Ranked
<1>8. ToSet(t) = {s[i] : i \in 1..l} /\ ToSet(s) = {s[i] : i \in DOMAIN s}
  BY <1>2 DEF ToSet
<1>9. ASSUME NEW x \in ToSet(t), NEW y \in ToSet(s) \ ToSet(t) PROVE ~ranksBefore(y, x)
  <2>1. PICK i \in 1..l : x = s[i]
    BY <1>8
  <2>2. PICK j \in DOMAIN s : y = s[j]
    BY <1>8
  <2>3. j \notin 1..l
    BY <1>8, <2>2
  <2>4. i < j /\ i \in DOMAIN s
    BY <1>1, <2>3
  <2> QED BY <2>1, <2>2, <2>4 DEF Ranked
<1>10. ToSet(t) \subseteq ToSet(s)
  BY <1>6, <1>8
<1>11. Len(t) <= n /\ (Len(t) = n \/ t = s) /\ (Len(s) >= n => Len(t) = n) /\ (Len(s) <= n => t = s)
  <2>1. Len(t) = l /\ l <= n /\ Len(s) \in Nat
    BY <1>1, <1>2
  <2>2. Len(s) >= n \/ Len(s) <= n
    BY <2>1
  <2> QED BY <2>1, <2>2, <1>4, <1>5
<1> QED BY <1>2, <1>3, <1>7, <1>9, <1>10, <1>11

\* got lists the best of good, limit of them if there are so many.
Best(got, good, limit) ==
  /\ got \in Seq(good) /\ Ranked(got) /\ Len(got) <= limit
  /\ ToSet(got) = good \/ Len(got) = limit
  /\ \A x \in ToSet(got), y \in good \ ToSet(got) : ~ranksBefore(y, x)

\* LIMIT before the minimal score loses nothing.
LEMMA IndexAnswersBest ==
  ASSUME NEW H, IsHits(H), NEW limit \in Nat, NEW minScore \in Int
  PROVE  Best(queryFTSIndex(H, limit, minScore), {x \in H : x.score >= minScore}, limit)
<1> DEFINE all == FoldSet(LAMBDA x, s : insertRanked(s, x), <<>>, H)
           good == {x \in H : x.score >= minScore}
           first == firstOf(all, limit)
           got == within(first, good)
<1>1. all \in Seq(H) /\ Ranked(all) /\ ToSet(all) = H
  BY RankedHits
<1>2. queryFTSIndex(H, limit, minScore) = got
  BY DEF queryFTSIndex
<1> HIDE DEF all
<1>3. /\ first \in Seq(H) /\ Ranked(first) /\ Len(first) <= limit
      /\ ToSet(first) \subseteq H /\ (Len(first) = limit \/ first = all)
      /\ \A x \in ToSet(first), y \in H \ ToSet(first) : ~ranksBefore(y, x)
  BY <1>1, FirstRanked
<1> HIDE DEF first
<1>4. got \in Seq(H) /\ Ranked(got) /\ ToSet(got) = ToSet(first) \cap good
  BY <1>3, WithinRanked
<1> HIDE DEF got
<1>5. /\ Len(got) = Cardinality(ToSet(got)) /\ Len(first) = Cardinality(ToSet(first))
      /\ IsFiniteSet(ToSet(first)) /\ Len(got) \in Nat /\ Len(first) \in Nat
  <2>1. IsFiniteSet(ToSet(got)) /\ Len(got) = Cardinality(ToSet(got)) /\ Len(got) \in Nat
    <3>1. IsFiniteSet(ToSet(got)) /\ Cardinality(ToSet(got)) = Len(got)
      BY <1>4, RankedCounts, Zenon
    <3> QED BY <3>1, <1>4
  <2>2. IsFiniteSet(ToSet(first)) /\ Len(first) = Cardinality(ToSet(first)) /\ Len(first) \in Nat
    <3>1. IsFiniteSet(ToSet(first)) /\ Cardinality(ToSet(first)) = Len(first)
      BY <1>3, RankedCounts, Zenon
    <3> QED BY <3>1, <1>3
  <2> QED BY <2>1, <2>2
<1>6. Cardinality(ToSet(got)) <= Cardinality(ToSet(first))
  <2>1. ToSet(got) \in SUBSET ToSet(first)
    BY <1>4
  <2> QED BY <2>1, <1>5, FS_Subset
<1>7. got \in Seq(good)
  <2>1. \A i \in 1..Len(got) : got[i] \in good
    <3>1. ToSet(got) \subseteq good
      BY <1>4
    <3> HIDE DEF good
    <3> QED BY <3>1, <1>4 DEF ToSet
  <2>2. got = [i \in 1..Len(got) |-> got[i]] /\ Len(got) \in Nat
    BY <1>4
  <2> HIDE DEF good
  <2>3. [i \in 1..Len(got) |-> got[i]] \in Seq(good)
    BY <2>1, <2>2
  <2> QED BY <2>2, <2>3
<1>8. ASSUME NEW x \in ToSet(got), NEW y \in good \ ToSet(got) PROVE ~ranksBefore(y, x)
  BY <1>3, <1>4
<1>9. ASSUME ToSet(got) # good PROVE Len(got) = limit
  <2>1. PICK y \in good : y \notin ToSet(first)
    BY <1>4, <1>9
  <2>2. Len(first) = limit
    BY <2>1, <1>1, <1>3
  <2>3. ASSUME NEW x \in ToSet(first) PROVE x \in good
    <3>1. ~ranksBefore(y, x) /\ x \in H /\ y \in H /\ y.score >= minScore
      BY <1>3, <2>1
    <3>2. x.score >= y.score
      BY <3>1 DEF ranksBefore, IsHits
    <3>3. x.score \in Int /\ y.score \in Int
      BY <3>1 DEF IsHits
    <3> QED BY <3>1, <3>2, <3>3
  <2>4. ToSet(got) = ToSet(first)
    BY <2>3, <1>4
  <2> QED BY <2>2, <2>4, <1>5
<1> HIDE DEF good
<1>10. Len(got) <= limit
  BY <1>3, <1>5, <1>6
<1>11. Best(got, good, limit)
  BY <1>4, <1>7, <1>8, <1>9, <1>10 DEF Best
<1> QED BY <1>2, <1>11 DEF good

-----------------------------------------------------------------------------
(***************************************************************************)
(* The edit distance: one row at a time, and the table.                    *)
(***************************************************************************)
LEMMA Least ==
  ASSUME NEW a \in Nat, NEW b \in Nat, NEW c \in Nat
  PROVE  /\ Min({a, b, c}) \in Nat /\ Min({a, b, c}) \in {a, b, c}
         /\ Min({a, b, c}) <= a /\ Min({a, b, c}) <= b /\ Min({a, b, c}) <= c
<1>1. \E x \in {a, b, c} : \A y \in {a, b, c} : x <= y
  <2>1. CASE a <= b /\ a <= c
    BY <2>1
  <2>2. CASE b <= a /\ b <= c
    BY <2>2
  <2>3. CASE c <= a /\ c <= b
    BY <2>3
  <2> QED BY <2>1, <2>2, <2>3
<1>2. Min({a, b, c}) \in {a, b, c} /\ \A y \in {a, b, c} : Min({a, b, c}) <= y
  BY <1>1 DEF Min
<1> QED BY <1>2

Rows(n) == [0..n -> Nat]
Cells(n) == [prev : Rows(n), diag : Nat]
costOf(i, j, ra, rb) == IF ra[i] = rb[j] THEN 0 ELSE 1

LEMMA UpToIsSeq ==
  ASSUME NEW n \in Nat
  PROVE  upTo(n) \in Seq(1..n) /\ Len(upTo(n)) = n /\ \A k \in 1..n : upTo(n)[k] = k
BY DEF upTo

\* Cell j is written, and what it was becomes the diagonal.
Wrote(new, row, j, cost, n) ==
  /\ new.diag = row.prev[j]
  /\ new.prev[j] = Min({row.prev[j] + 1, row.prev[j - 1] + 1, row.diag + cost})
  /\ \A l \in (0..n) \ {j} : new.prev[l] = row.prev[l]

LEMMA CellIs ==
  ASSUME NEW ra, NEW rb, NEW n \in Nat, NEW i, NEW row \in Cells(n), NEW j \in 1..n
  PROVE  cell(row, j, i, ra, rb) \in Cells(n) /\ Wrote(cell(row, j, i, ra, rb), row, j, costOf(i, j, ra, rb), n)
<1> DEFINE value == Min({row.prev[j] + 1, row.prev[j - 1] + 1, row.diag + costOf(i, j, ra, rb)})
<1>1. row.prev \in Rows(n) /\ row.diag \in Nat /\ j \in 0..n /\ j - 1 \in 0..n
  BY DEF Cells
<1>2. row.prev[j] \in Nat /\ row.prev[j - 1] \in Nat /\ costOf(i, j, ra, rb) \in Nat
  BY <1>1 DEF Rows, costOf
<1>3. value \in Nat
  <2>1. row.prev[j] + 1 \in Nat /\ row.prev[j - 1] + 1 \in Nat /\ row.diag + costOf(i, j, ra, rb) \in Nat
    BY <1>1, <1>2
  <2> QED BY <2>1, Least
<1>4. cell(row, j, i, ra, rb) = [prev |-> [row.prev EXCEPT ![j] = value], diag |-> row.prev[j]]
  BY DEF cell, costOf
<1> HIDE DEF value
<1> DEFINE p == [row.prev EXCEPT ![j] = value]
<1>5. p \in Rows(n) /\ p[j] = value /\ \A l \in (0..n) \ {j} : p[l] = row.prev[l]
  BY <1>1, <1>3 DEF Rows
<1> HIDE DEF p
<1>6. cell(row, j, i, ra, rb) = [prev |-> p, diag |-> row.prev[j]]
  BY <1>4 DEF p
<1> QED BY <1>2, <1>5, <1>6 DEF Cells, Wrote, value

cellsOf(prev, i, ra, rb) ==
  FoldLeft(LAMBDA row, j : cell(row, j, i, ra, rb),
           [prev |-> [prev EXCEPT ![0] = i], diag |-> prev[0]], upTo(Len(rb)))

CellByCell(prev, i, ra, rb, s, base, wide) ==
  \E h \in [0..Len(s) -> Cells(wide)] :
    /\ h[0] = base /\ cellsOf(prev, i, ra, rb) = h[Len(s)]
    /\ \A k \in 1..Len(s) : h[k] = cell(h[k - 1], s[k], i, ra, rb)

\* A row, cell by cell.
LEMMA CellsFold ==
  ASSUME NEW ra, NEW rb, NEW wide \in Nat, wide = Len(rb), NEW prev \in Rows(wide), NEW i \in Nat,
         NEW s \in Seq(1..wide), s = upTo(wide),
         NEW base \in Cells(wide), base = [prev |-> [prev EXCEPT ![0] = i], diag |-> prev[0]]
  PROVE  CellByCell(prev, i, ra, rb, s, base, wide)
<1> DEFINE n == Len(s)
           V == Cells(wide)
           st == [at \in (1..n) \X V |-> cell(at[2], s[at[1]], i, ra, rb)]
<1>1. n \in Nat /\ DOMAIN s = 1..n
  OBVIOUS
<1>2. base \in V
  OBVIOUS
<1>3. ASSUME NEW v \in V, NEW k \in 1..n PROVE cell(v, s[k], i, ra, rb) \in V
  <2>1. v \in Cells(wide) /\ s[k] \in 1..wide
    BY <1>1
  <2>2. cell(v, s[k], i, ra, rb) \in Cells(wide)
    BY <2>1, CellIs
  <2> QED BY <2>2
<1>4. st \in [(1..n) \X V -> V]
  <2> HIDE DEF n, V
  <2> QED BY <1>3
<1>5. PICK g \in [SUBSET (1..n) -> V] : Iterates(g, n, base, st)
  <2> HIDE DEF st, n, V
  <2> QED BY <1>1, <1>2, <1>4, FoldExists
<1> DEFINE Def(f) ==
             f = [r \in SUBSET (1..n) |->
                    IF r = {} THEN base ELSE cell(f[r \ {Max(r)}], s[Max(r)], i, ra, rb)]
           f == CHOOSE f : Def(f)
<1>6. Def(g)
  <2> HIDE DEF n, V
  <2>1. ASSUME NEW r \in SUBSET (1..n), r # {}
        PROVE  st[<<Max(r), g[r \ {Max(r)}]>>] = cell(g[r \ {Max(r)}], s[Max(r)], i, ra, rb)
    BY <1>1, <1>5, <2>1, OneBefore
  <2> HIDE DEF st
  <2> QED BY <1>5, <2>1 DEF Iterates
<1>7. Def(f)
  <2> HIDE DEF Def
  <2> QED BY <1>6
<1>8. cellsOf(prev, i, ra, rb) = f[1..n]
  BY <1>1 DEF cellsOf, FoldLeft, MapThenFoldSet
<1> HIDE DEF f
<1>9. Recurs(f, n, V, base, st)
  <2> HIDE DEF n, V
  <2> QED BY <1>7 DEF Recurs
<1>10. PICK h \in [0..n -> V] : StepsTo(h, n, V, base, st, f[1..n])
  <2> HIDE DEF n, V, st
  <2> QED BY <1>1, <1>2, <1>4, <1>9, FoldSteps
<1>11. \A k \in 1..n : h[k] = cell(h[k - 1], s[k], i, ra, rb)
  <2> HIDE DEF n, V
  <2> QED BY <1>10 DEF StepsTo
<1>12. h[0] = base /\ f[1..n] = h[n]
  BY <1>10 DEF StepsTo
<1> QED BY <1>8, <1>11, <1>12 DEF CellByCell

Follows(r, prev, i, ra, rb, n) ==
  /\ r[0] = i
  /\ \A j \in 1..n : r[j] = Min({prev[j] + 1, r[j - 1] + 1, prev[j - 1] + costOf(i, j, ra, rb)})

LEMMA NextRowIs ==
  ASSUME NEW ra, NEW rb, NEW n \in Nat, n = Len(rb), NEW prev \in Rows(n), NEW i \in Nat
  PROVE  nextRow(prev, i, ra, rb) \in Rows(n) /\ Follows(nextRow(prev, i, ra, rb), prev, i, ra, rb, n)
<1> DEFINE cols == upTo(n)
<1>1. cols \in Seq(1..n) /\ Len(cols) = n /\ \A k \in 1..n : cols[k] = k
  BY UpToIsSeq
<1>2. cols = upTo(n)
  OBVIOUS
<1> HIDE DEF cols
<1> DEFINE r == nextRow(prev, i, ra, rb)
           start == [prev |-> [prev EXCEPT ![0] = i], diag |-> prev[0]]
<1>3. CellByCell(prev, i, ra, rb, cols, start, n)
  <2>1. start \in Cells(n) /\ start = [prev |-> [prev EXCEPT ![0] = i], diag |-> prev[0]]
    BY DEF Cells, Rows
  <2> HIDE DEF start
  <2> QED BY <1>1, <1>2, <2>1, CellsFold
<1>0. r = cellsOf(prev, i, ra, rb).prev
  BY DEF nextRow, cellsOf
<1> HIDE DEF r
<1>4. PICK h \in [0..n -> Cells(n)] :
        /\ h[0] = start /\ r = h[n].prev
        /\ \A k \in 1..n : h[k] = cell(h[k - 1], k, i, ra, rb)
  <2> HIDE DEF start
  <2> QED BY <1>0, <1>1, <1>3 DEF CellByCell
<1>5. /\ h[0].diag = prev[0] /\ h[0].prev \in Rows(n) /\ h[0].prev[0] = i
      /\ \A l \in 1..n : h[0].prev[l] = prev[l]
  <2>1. h[0] = [prev |-> [prev EXCEPT ![0] = i], diag |-> prev[0]]
    BY <1>4
  <2> QED BY <2>1 DEF Rows
<1> HIDE DEF start
<1>6. ASSUME NEW k \in 1..n
      PROVE  /\ h[k].diag = h[k - 1].prev[k]
             /\ h[k].prev[k] =
                  Min({h[k - 1].prev[k] + 1, h[k - 1].prev[k - 1] + 1, h[k - 1].diag + costOf(i, k, ra, rb)})
             /\ \A l \in (0..n) \ {k} : h[k].prev[l] = h[k - 1].prev[l]
  <2>1. k - 1 \in 0..n
    OBVIOUS
  <2> DEFINE left == h[k - 1]
             here == h[k]
  <2>2. left \in Cells(n) /\ here = cell(left, k, i, ra, rb)
    BY <2>1, <1>4
  <2> HIDE DEF left, here
  <2>3. Wrote(here, left, k, costOf(i, k, ra, rb), n)
    BY <2>2, CellIs
  <2> QED BY <2>3 DEF left, here, Wrote
\* What is left of k is written, what is right of it is the left before.
<1> DEFINE Done(k) == /\ h[k].diag = prev[k]
                      /\ \A l \in 0..n : l <= k => h[k].prev[l] = h[l].prev[l]
                      /\ \A l \in 0..n : l > k => h[k].prev[l] = prev[l]
           T == {k \in 0..n : Done(k)}
<1>7. 0 \in T
  BY <1>5
<1>8. ASSUME NEW k \in 1..n, k - 1 \in T PROVE k \in T
  <2>1. Done(k - 1) /\ k \in 0..n
    BY <1>8
  <2>a. /\ \A l \in 0..n : l <= k - 1 => h[k - 1].prev[l] = h[l].prev[l]
        /\ \A l \in 0..n : l > k - 1 => h[k - 1].prev[l] = prev[l]
    BY <2>1
  <2>b. /\ h[k].diag = h[k - 1].prev[k]
        /\ \A l \in (0..n) \ {k} : h[k].prev[l] = h[k - 1].prev[l]
    BY <1>6
  <2>c. k > k - 1
    OBVIOUS
  <2>2. h[k].diag = prev[k]
    BY <2>1, <2>a, <2>b, <2>c
  <2>3. ASSUME NEW l \in 0..n, l <= k PROVE h[k].prev[l] = h[l].prev[l]
    <3>1. CASE l = k
      BY <3>1
    <3>2. CASE l # k
      <4>1. l <= k - 1 /\ l \in (0..n) \ {k}
        BY <3>2, <2>3
      <4> HIDE DEF Done
      <4> QED BY <4>1, <2>a, <2>b
    <3> QED BY <3>1, <3>2
  <2>4. ASSUME NEW l \in 0..n, l > k PROVE h[k].prev[l] = prev[l]
    <3>1. l > k - 1 /\ l \in (0..n) \ {k}
      BY <2>4
    <3> HIDE DEF Done
    <3> QED BY <3>1, <2>a, <2>b
  <2> QED BY <2>1, <2>2, <2>3, <2>4
<1>9. 0..n \subseteq T
  <2> HIDE DEF T
  <2> QED BY <1>7, <1>8, Along
<1>10. ASSUME NEW l \in 0..n PROVE r[l] = h[l].prev[l]
  <2>1. Done(n)
    BY <1>9
  <2> QED BY <2>1, <1>4
<1>11. r \in Rows(n)
  BY <1>4 DEF Cells
<1>12. r[0] = i
  BY <1>5, <1>10
<1>13. ASSUME NEW j \in 1..n
       PROVE  r[j] = Min({prev[j] + 1, r[j - 1] + 1, prev[j - 1] + costOf(i, j, ra, rb)})
  <2>1. j \in 0..n /\ j - 1 \in 0..n /\ Done(j - 1)
    BY <1>9
  <2>2. h[j - 1].prev[j] = prev[j] /\ h[j - 1].prev[j - 1] = r[j - 1] /\ h[j - 1].diag = prev[j - 1]
    BY <2>1, <1>10
  <2>3. r[j] = h[j].prev[j]
    BY <2>1, <1>10
  <2> QED BY <2>2, <2>3, <1>6
<1> QED BY <1>11, <1>12, <1>13 DEF r, Follows

rowsOf(ra, rb) == FoldLeft(LAMBDA prev, i : nextRow(prev, i, ra, rb), [j \in 0..Len(rb) |-> j], upTo(Len(ra)))

RowByRow(ra, rb, s, wide) ==
  \E h \in [0..Len(s) -> Rows(wide)] :
    /\ h[0] = [j \in 0..wide |-> j] /\ rowsOf(ra, rb) = h[Len(s)]
    /\ \A k \in 1..Len(s) : h[k] = nextRow(h[k - 1], s[k], ra, rb)

\* The table, row by row.
LEMMA RowsFold ==
  ASSUME NEW ra, NEW rb, NEW wide \in Nat, wide = Len(rb), Len(ra) \in Nat,
         NEW s \in Seq(Nat), s = upTo(Len(ra))
  PROVE  RowByRow(ra, rb, s, wide)
<1> DEFINE n == Len(s)
           V == Rows(wide)
           st == [at \in (1..n) \X V |-> nextRow(at[2], s[at[1]], ra, rb)]
<1>1. n \in Nat /\ DOMAIN s = 1..n
  OBVIOUS
<1>2. [j \in 0..wide |-> j] \in V
  BY DEF Rows
<1>3. ASSUME NEW v \in V, NEW k \in 1..n PROVE nextRow(v, s[k], ra, rb) \in V
  <2>1. v \in Rows(wide) /\ s[k] \in Nat
    BY <1>1
  <2> DEFINE w == nextRow(v, s[k], ra, rb)
  <2>2. w = nextRow(v, s[k], ra, rb)
    OBVIOUS
  <2> HIDE DEF w
  <2>3. w \in Rows(wide)
    BY <2>1, <2>2, NextRowIs
  <2> QED BY <2>2, <2>3
<1>4. st \in [(1..n) \X V -> V]
  <2> HIDE DEF n, V
  <2> QED BY <1>3
<1>5. PICK g \in [SUBSET (1..n) -> V] : Iterates(g, n, [j \in 0..wide |-> j], st)
  <2> HIDE DEF st, n, V
  <2> QED BY <1>1, <1>2, <1>4, FoldExists
<1> DEFINE Def(f) ==
             f = [r \in SUBSET (1..n) |->
                    IF r = {} THEN [j \in 0..wide |-> j] ELSE nextRow(f[r \ {Max(r)}], s[Max(r)], ra, rb)]
           f == CHOOSE f : Def(f)
<1>6. Def(g)
  <2> HIDE DEF n, V
  <2>1. ASSUME NEW r \in SUBSET (1..n), r # {}
        PROVE  st[<<Max(r), g[r \ {Max(r)}]>>] = nextRow(g[r \ {Max(r)}], s[Max(r)], ra, rb)
    BY <1>1, <1>5, <2>1, OneBefore
  <2> HIDE DEF st
  <2> QED BY <1>5, <2>1 DEF Iterates
<1>7. Def(f)
  <2> HIDE DEF Def
  <2> QED BY <1>6
<1>8. rowsOf(ra, rb) = f[1..n]
  BY <1>1 DEF rowsOf, FoldLeft, MapThenFoldSet
<1> HIDE DEF f
<1>9. Recurs(f, n, V, [j \in 0..wide |-> j], st)
  <2> HIDE DEF n, V
  <2> QED BY <1>7 DEF Recurs
<1>10. PICK h \in [0..n -> V] : StepsTo(h, n, V, [j \in 0..wide |-> j], st, f[1..n])
  <2> HIDE DEF n, V, st
  <2> QED BY <1>1, <1>2, <1>4, <1>9, FoldSteps
<1>11. \A k \in 1..n : h[k] = nextRow(h[k - 1], s[k], ra, rb)
  <2> HIDE DEF n, V
  <2> QED BY <1>10 DEF StepsTo
<1>12. h[0] = [j \in 0..wide |-> j] /\ f[1..n] = h[n]
  BY <1>10 DEF StepsTo
<1> QED BY <1>8, <1>11, <1>12 DEF RowByRow

\* The table of the distances of all prefixes, by its recurrence.
IsTable(d, a, b) ==
  d = [c \in (0..Len(a)) \X (0..Len(b)) |->
         IF c[1] = 0 THEN c[2] ELSE IF c[2] = 0 THEN c[1]
         ELSE Min({d[<<c[1] - 1, c[2]>>] + 1, d[<<c[1], c[2] - 1>>] + 1,
                   d[<<c[1] - 1, c[2] - 1>>] + IF a[c[1]] = b[c[2]] THEN 0 ELSE 1})]

LEMMA TableUnique ==
  ASSUME NEW a, IsSeq(a), NEW b, IsSeq(b), NEW d, IsTable(d, a, b), NEW e, IsTable(e, a, b)
  PROVE  d = e
<1> DEFINE wide == Len(a)
           n == Len(b)
           same(i, j) == d[<<i, j>>] = e[<<i, j>>]
           T == {i \in 0..wide : \A j \in 0..n : same(i, j)}
<1>1. wide \in Nat /\ n \in Nat
  BY InSeq
<1>2. ASSUME NEW i \in 0..wide, NEW j \in 0..n
      PROVE  /\ i = 0 \/ j = 0 => same(i, j)
             /\ i # 0 /\ j # 0 /\ same(i - 1, j) /\ same(i, j - 1) /\ same(i - 1, j - 1) => same(i, j)
  <2>1. <<i, j>> \in (0..wide) \X (0..n)
    OBVIOUS
  <2> DEFINE val(f) == IF i = 0 THEN j ELSE IF j = 0 THEN i
                       ELSE Min({f[<<i - 1, j>>] + 1, f[<<i, j - 1>>] + 1,
                                 f[<<i - 1, j - 1>>] + IF a[i] = b[j] THEN 0 ELSE 1})
  <2>2. d[<<i, j>>] = val(d) /\ e[<<i, j>>] = val(e)
    <3> HIDE DEF wide, n
    <3> USE DEF wide, n
    <3> QED BY <2>1 DEF IsTable
  <2> HIDE DEF wide, n
  <2> QED BY <2>2
<1> HIDE DEF wide, n
<1>3. 0 \in T
  <2>1. 0 \in 0..wide /\ \A j \in 0..n : same(0, j)
    <3> HIDE DEF same
    <3> QED BY <1>1, <1>2
  <2> HIDE DEF same
  <2> QED BY <2>1
<1>4. ASSUME NEW i \in 1..wide, i - 1 \in T PROVE i \in T
  <2>1. i \in 0..wide /\ i # 0 /\ \A j \in 0..n : same(i - 1, j)
    BY <1>4
  <2> HIDE DEF same
  <2> DEFINE U == {j \in 0..n : same(i, j)}
  <2>2. 0 \in U
    BY <1>1, <1>2, <2>1
  <2>3. ASSUME NEW j \in 1..n, j - 1 \in U PROVE j \in U
    <3>1. j \in 0..n /\ j # 0 /\ same(i, j - 1) /\ j - 1 \in 0..n
      BY <2>3
    <3>2. same(i - 1, j) /\ same(i - 1, j - 1)
      BY <2>1, <3>1
    <3> QED BY <1>2, <2>1, <3>1, <3>2
  <2>4. 0..n \subseteq U
    <3> HIDE DEF U
    <3> QED BY <1>1, <2>2, <2>3, Along
  <2> QED BY <2>1, <2>4
<1>5. 0..wide \subseteq T
  <2> HIDE DEF T
  <2> QED BY <1>1, <1>3, <1>4, Along
<1>6. \A c \in (0..wide) \X (0..n) : d[c] = e[c]
  <2> SUFFICES ASSUME NEW i \in 0..wide, NEW j \in 0..n PROVE d[<<i, j>>] = e[<<i, j>>]
    OBVIOUS
  <2> QED BY <1>5
<1>7. DOMAIN d = (0..wide) \X (0..n) /\ DOMAIN e = (0..wide) \X (0..n)
  BY DEF IsTable, wide, n
<1>8. d = [c \in DOMAIN d |-> d[c]] /\ e = [c \in DOMAIN e |-> e[c]]
  BY DEF IsTable
<1> QED BY <1>6, <1>7, <1>8

\* H, row by row, is that table.
Tabulates(H, a, b) ==
  /\ H \in [0..Len(a) -> Rows(Len(b))]
  /\ \A i \in 0..Len(a), j \in 0..Len(b) :
       /\ i = 0 => H[i][j] = j
       /\ j = 0 => H[i][j] = i
       /\ i # 0 /\ j # 0 =>
            H[i][j] = Min({H[i - 1][j] + 1, H[i][j - 1] + 1, H[i - 1][j - 1] + costOf(i, j, a, b)})

LEMMA RowsTabulate ==
  ASSUME NEW a, IsSeq(a), NEW b, IsSeq(b)
  PROVE  \E H : Tabulates(H, a, b) /\ rowsOf(a, b) = H[Len(a)]
<1> DEFINE wide == Len(a)
           n == Len(b)
           lines == upTo(wide)
<1>1. wide \in Nat /\ n \in Nat
  BY InSeq
<1>2. lines \in Seq(Nat) /\ Len(lines) = wide /\ \A k \in 1..wide : lines[k] = k
  <2> HIDE DEF wide
  <2>1. lines \in Seq(1..wide) /\ Len(lines) = wide /\ \A k \in 1..wide : lines[k] = k
    BY <1>1, UpToIsSeq
  <2> QED BY <2>1
<1>3. RowByRow(a, b, lines, n)
  <2>1. lines = upTo(Len(a)) /\ n = Len(b) /\ Len(a) \in Nat
    BY <1>1
  <2> HIDE DEF lines, wide, n
  <2> QED BY <1>1, <1>2, <2>1, RowsFold
<1> HIDE DEF lines
<1>4. PICK h \in [0..wide -> Rows(n)] :
        /\ h[0] = [j \in 0..n |-> j] /\ rowsOf(a, b) = h[wide]
        /\ \A k \in 1..wide : h[k] = nextRow(h[k - 1], k, a, b)
  <2> HIDE DEF wide, n
  <2>1. PICK h \in [0..Len(lines) -> Rows(n)] :
          /\ h[0] = [j \in 0..n |-> j] /\ rowsOf(a, b) = h[Len(lines)]
          /\ \A k \in 1..Len(lines) : h[k] = nextRow(h[k - 1], lines[k], a, b)
    BY <1>3, Zenon DEF RowByRow
  <2>2. \A k \in 1..wide : h[k] = nextRow(h[k - 1], k, a, b)
    BY <2>1, <1>2
  <2>3. h \in [0..wide -> Rows(n)] /\ h[0] = [j \in 0..n |-> j] /\ rowsOf(a, b) = h[wide]
    BY <2>1, <1>2
  <2> QED BY <2>2, <2>3, Zenon
<1>5. ASSUME NEW k \in 1..wide
      PROVE  /\ h[k][0] = k
             /\ \A j \in 1..n : h[k][j] = Min({h[k - 1][j] + 1, h[k][j - 1] + 1, h[k - 1][j - 1] + costOf(k, j, a, b)})
  <2> DEFINE above == h[k - 1]
             here == h[k]
  <2>1. above \in Rows(n) /\ k \in Nat /\ n = Len(b) /\ here = nextRow(above, k, a, b)
    <3>1. k - 1 \in 0..wide
      BY <1>1
    <3> HIDE DEF wide
    <3> QED BY <3>1, <1>4 DEF n
  <2> HIDE DEF above, here, wide, n
  <2>2. Follows(here, above, k, a, b, n)
    BY <1>1, <2>1, NextRowIs
  <2> QED BY <2>2 DEF above, here, Follows
<1>6. ASSUME NEW i \in 0..wide, NEW j \in 0..n
      PROVE  /\ i = 0 => h[i][j] = j
             /\ j = 0 => h[i][j] = i
             /\ i # 0 /\ j # 0 =>
                  h[i][j] = Min({h[i - 1][j] + 1, h[i][j - 1] + 1, h[i - 1][j - 1] + costOf(i, j, a, b)})
  <2>1. i # 0 => i \in 1..wide
    BY <1>1
  <2>2. j # 0 => j \in 1..n
    BY <1>1
  <2>3. \A l \in 0..n : h[0][l] = l
    BY <1>4
  <2> HIDE DEF wide, n
  <2> QED BY <2>1, <2>2, <2>3, <1>5
<1>7. Tabulates(h, a, b)
  <2> HIDE DEF wide, n
  <2> QED BY <1>4, <1>6 DEF Tabulates, wide, n
<1> QED BY <1>4, <1>7

LEMMA TableOfRows ==
  ASSUME NEW a, IsSeq(a), NEW b, IsSeq(b), NEW H, Tabulates(H, a, b)
  PROVE  /\ IsTable([c \in (0..Len(a)) \X (0..Len(b)) |-> H[c[1]][c[2]]], a, b)
         /\ IsTable([c \in (0..Len(b)) \X (0..Len(a)) |-> H[c[2]][c[1]]], b, a)
<1> DEFINE wide == Len(a)
           n == Len(b)
           d == [c \in (0..wide) \X (0..n) |-> H[c[1]][c[2]]]
           e == [c \in (0..n) \X (0..wide) |-> H[c[2]][c[1]]]
<1>1. wide \in Nat /\ n \in Nat
  BY InSeq
<1>2. ASSUME NEW i \in 0..wide, NEW j \in 0..n
      PROVE  /\ i = 0 => H[i][j] = j
             /\ j = 0 => H[i][j] = i
             /\ i # 0 /\ j # 0 =>
                  H[i][j] = Min({H[i - 1][j] + 1, H[i][j - 1] + 1, H[i - 1][j - 1] + IF a[i] = b[j] THEN 0 ELSE 1})
  BY DEF Tabulates, costOf
<1> HIDE DEF wide, n
<1>3. ASSUME NEW i \in 0..wide, NEW j \in 0..n
      PROVE  /\ d[<<i, j>>] = H[i][j] /\ e[<<j, i>>] = H[i][j]
             /\ i # 0 => d[<<i - 1, j>>] = H[i - 1][j] /\ e[<<j, i - 1>>] = H[i - 1][j]
             /\ j # 0 => d[<<i, j - 1>>] = H[i][j - 1] /\ e[<<j - 1, i>>] = H[i][j - 1]
             /\ i # 0 /\ j # 0 => d[<<i - 1, j - 1>>] = H[i - 1][j - 1] /\ e[<<j - 1, i - 1>>] = H[i - 1][j - 1]
  <2>1. (i # 0 => i - 1 \in 0..wide) /\ (j # 0 => j - 1 \in 0..n)
    BY <1>1
  <2> QED BY <2>1
<1> DEFINE dv(i, j) == IF i = 0 THEN j ELSE IF j = 0 THEN i
                       ELSE Min({d[<<i - 1, j>>] + 1, d[<<i, j - 1>>] + 1,
                                 d[<<i - 1, j - 1>>] + IF a[i] = b[j] THEN 0 ELSE 1})
           ev(i, j) == IF i = 0 THEN j ELSE IF j = 0 THEN i
                       ELSE Min({e[<<i - 1, j>>] + 1, e[<<i, j - 1>>] + 1,
                                 e[<<i - 1, j - 1>>] + IF b[i] = a[j] THEN 0 ELSE 1})
<1>4. ASSUME NEW i \in 0..wide, NEW j \in 0..n PROVE d[<<i, j>>] = dv(i, j)
  <2> HIDE DEF d, e
  <2>1. CASE i = 0 \/ j = 0
    <3>1. d[<<i, j>>] = H[i][j]
      BY <1>3
    <3>2. H[i][j] = IF i = 0 THEN j ELSE i
      BY <2>1, <1>2
    <3> QED BY <2>1, <3>1, <3>2
  <2>2. CASE i # 0 /\ j # 0
    <3>1. H[i][j] = Min({H[i - 1][j] + 1, H[i][j - 1] + 1, H[i - 1][j - 1] + IF a[i] = b[j] THEN 0 ELSE 1})
      BY <2>2, <1>2
    <3>2. dv(i, j) = Min({H[i - 1][j] + 1, H[i][j - 1] + 1, H[i - 1][j - 1] + IF a[i] = b[j] THEN 0 ELSE 1})
      BY <2>2, <1>3
    <3>3. d[<<i, j>>] = H[i][j]
      BY <1>3
    <3> QED BY <3>1, <3>2, <3>3
  <2> QED BY <2>1, <2>2
<1>5. ASSUME NEW i \in 0..wide, NEW j \in 0..n PROVE e[<<j, i>>] = ev(j, i)
  <2> HIDE DEF d, e
  <2>1. CASE i = 0 \/ j = 0
    <3>1. e[<<j, i>>] = H[i][j]
      BY <1>3
    <3>2. H[i][j] = IF j = 0 THEN i ELSE j
      BY <2>1, <1>2
    <3> QED BY <2>1, <3>1, <3>2
  <2>2. CASE i # 0 /\ j # 0
    <3>1. H[i][j] = Min({H[i - 1][j] + 1, H[i][j - 1] + 1, H[i - 1][j - 1] + IF a[i] = b[j] THEN 0 ELSE 1})
      BY <2>2, <1>2
    <3>2. ev(j, i) = Min({H[i][j - 1] + 1, H[i - 1][j] + 1, H[i - 1][j - 1] + IF b[j] = a[i] THEN 0 ELSE 1})
      BY <2>2, <1>3
    <3>3. (IF a[i] = b[j] THEN 0 ELSE 1) = (IF b[j] = a[i] THEN 0 ELSE 1)
      OBVIOUS
    <3>4. {H[i - 1][j] + 1, H[i][j - 1] + 1, H[i - 1][j - 1] + IF a[i] = b[j] THEN 0 ELSE 1}
          = {H[i][j - 1] + 1, H[i - 1][j] + 1, H[i - 1][j - 1] + IF b[j] = a[i] THEN 0 ELSE 1}
      BY <3>3
    <3> QED BY <3>1, <3>2, <3>4, <1>3
  <2> QED BY <2>1, <2>2
<1>6. \A c \in (0..wide) \X (0..n) : d[c] = dv(c[1], c[2])
  <2> HIDE DEF d, dv
  <2> QED BY <1>4
<1>7. \A c \in (0..n) \X (0..wide) : e[c] = ev(c[1], c[2])
  <2> HIDE DEF e, ev
  <2> QED BY <1>5
<1>8. d = [c \in (0..wide) \X (0..n) |-> d[c]] /\ e = [c \in (0..n) \X (0..wide) |-> e[c]]
  OBVIOUS
<1>9. IsTable(d, a, b)
  <2> HIDE DEF d
  <2> QED BY <1>6, <1>8 DEF IsTable, wide, n
<1>10. IsTable(e, b, a)
  <2> HIDE DEF e
  <2> QED BY <1>7, <1>8 DEF IsTable, wide, n
<1> QED BY <1>9, <1>10 DEF wide, n

LEMMA TableBounded ==
  ASSUME NEW a, IsSeq(a), NEW b, IsSeq(b), NEW H, Tabulates(H, a, b)
  PROVE  \A i \in 0..Len(a), j \in 0..Len(b) : H[i][j] \in Nat /\ (H[i][j] <= i \/ H[i][j] <= j)
<1> DEFINE wide == Len(a)
           n == Len(b)
           T == {i \in 0..wide : \A j \in 0..n : H[i][j] <= i \/ H[i][j] <= j}
<1>1. wide \in Nat /\ n \in Nat
  BY InSeq
<1>2. ASSUME NEW i \in 0..wide, NEW j \in 0..n
      PROVE  /\ H[i][j] \in Nat /\ (i = 0 => H[i][j] = j) /\ (j = 0 => H[i][j] = i)
             /\ i # 0 /\ j # 0 =>
                  H[i][j] = Min({H[i - 1][j] + 1, H[i][j - 1] + 1, H[i - 1][j - 1] + costOf(i, j, a, b)})
  BY DEF Tabulates, Rows
<1> HIDE DEF wide, n
<1>3. 0 \in T
  <2>1. 0 \in 0..wide
    BY <1>1
  <2>2. ASSUME NEW j \in 0..n PROVE H[0][j] <= j
    <3>1. H[0][j] = j /\ j \in Nat
      BY <2>1, <1>1, <1>2
    <3> QED BY <3>1
  <2> QED BY <2>1, <2>2
<1>4. ASSUME NEW i \in 1..wide, i - 1 \in T PROVE i \in T
  <2>1. i \in 0..wide /\ i # 0 /\ i - 1 \in 0..wide /\ i \in Nat
    BY <1>1
  <2>2. ASSUME NEW j \in 0..n PROVE H[i][j] <= i \/ H[i][j] <= j
    <3>1. CASE j = 0
      <4>1. H[i][j] = i
        BY <3>1, <2>1, <1>2
      <4> QED BY <4>1, <2>1
    <3>2. CASE j # 0
      <4>1. j - 1 \in 0..n
        BY <3>2, <1>1
      <4> DEFINE up == H[i - 1][j]
                 left == H[i][j - 1]
                 diag == H[i - 1][j - 1]
                 cost == costOf(i, j, a, b)
      <4>2. up \in Nat /\ left \in Nat /\ diag \in Nat /\ cost \in {0, 1}
        BY <2>1, <4>1, <1>2 DEF costOf
      <4>3. H[i][j] = Min({up + 1, left + 1, diag + cost}) /\ H[i][j] \in Nat
        BY <2>1, <3>2, <1>2
      <4>4. diag <= i - 1 \/ diag <= j - 1
        BY <4>1, <1>4
      <4> HIDE DEF up, left, diag, cost
      <4>5. Min({up + 1, left + 1, diag + cost}) <= diag + cost
        <5>1. up + 1 \in Nat /\ left + 1 \in Nat /\ diag + cost \in Nat
          BY <4>2
        <5> QED BY <5>1, Least
      <4> QED BY <4>2, <4>3, <4>4, <4>5, <2>1
    <3> QED BY <3>1, <3>2
  <2> QED BY <2>1, <2>2
<1>5. 0..wide \subseteq T
  <2> HIDE DEF T
  <2> QED BY <1>1, <1>3, <1>4, Along
<1> QED BY <1>2, <1>5 DEF wide, n

LEMMA DistanceIs ==
  ASSUME NEW a, IsSeq(a), NEW b, IsSeq(b), NEW d, IsTable(d, a, b)
  PROVE  editDistance(a, b) = d[<<Len(a), Len(b)>>]
<1> DEFINE t == CHOOSE t : IsTable(t, a, b)
<1>1. editDistance(a, b) = t[<<Len(a), Len(b)>>]
  BY DEF editDistance, IsTable
<1>2. IsTable(t, a, b)
  OBVIOUS
<1> HIDE DEF t
<1>3. t = d
  BY <1>2, TableUnique
<1> QED BY <1>1, <1>3

\* The single-row algorithm over the longer text, with the shorter one as the
\* row, computes the distance defined by the recurrence (levenshteinDistance).
THEOREM LevenshteinIsExact ==
  ASSUME NEW a, IsSeq(a), NEW b, IsSeq(b)
  PROVE  /\ levenshteinDistance(a, b) = editDistance(a, b) /\ editDistance(a, b) \in Nat
         /\ editDistance(a, b) <= Len(a) \/ editDistance(a, b) <= Len(b)
<1>2. ASSUME NEW x, IsSeq(x), NEW y, IsSeq(y)
      PROVE  /\ rowsOf(x, y)[Len(y)] = editDistance(x, y) /\ rowsOf(x, y)[Len(y)] = editDistance(y, x)
             /\ rowsOf(x, y)[Len(y)] \in Nat
             /\ rowsOf(x, y)[Len(y)] <= Len(x) \/ rowsOf(x, y)[Len(y)] <= Len(y)
  <2> DEFINE wide == Len(x)
             n == Len(y)
  <2>1. wide \in Nat /\ n \in Nat
    BY <1>2, InSeq
  <2>2. PICK H : Tabulates(H, x, y) /\ rowsOf(x, y) = H[wide]
    BY <1>2, RowsTabulate
  <2> DEFINE d == [c \in (0..wide) \X (0..n) |-> H[c[1]][c[2]]]
             e == [c \in (0..n) \X (0..wide) |-> H[c[2]][c[1]]]
  <2>3. IsTable(d, x, y) /\ IsTable(e, y, x)
    BY <1>2, <2>2, TableOfRows
  <2>4. d[<<wide, n>>] = H[wide][n] /\ e[<<n, wide>>] = H[wide][n]
    <3> HIDE DEF wide, n
    <3>1. wide \in 0..wide /\ n \in 0..n
      BY <2>1
    <3> QED BY <3>1
  <2>5. H[wide][n] \in Nat /\ (H[wide][n] <= wide \/ H[wide][n] <= n)
    <3>1. \A i \in 0..wide, j \in 0..n : H[i][j] \in Nat /\ (H[i][j] <= i \/ H[i][j] <= j)
      BY <1>2, <2>2, TableBounded
    <3> HIDE DEF wide, n
    <3> QED BY <2>1, <3>1
  <2> HIDE DEF d, e
  <2>6. editDistance(x, y) = d[<<wide, n>>]
    BY <1>2, <2>3, DistanceIs
  <2>7. editDistance(y, x) = e[<<n, wide>>]
    BY <1>2, <2>3, DistanceIs
  <2> QED BY <2>2, <2>4, <2>5, <2>6, <2>7
<1>3. CASE Len(a) < Len(b)
  <2>1. levenshteinDistance(a, b) = rowsOf(b, a)[Len(a)]
    BY <1>3 DEF levenshteinDistance, rowsOf
  <2> QED BY <2>1, <1>2
<1>4. CASE ~(Len(a) < Len(b))
  <2>1. levenshteinDistance(a, b) = rowsOf(a, b)[Len(b)]
    BY <1>4 DEF levenshteinDistance, rowsOf
  <2> QED BY <2>1, <1>2
<1> QED BY <1>3, <1>4

LEMMA Largest ==
  ASSUME NEW a \in Nat, NEW b \in Nat
  PROVE  Max({a, b}) \in Nat /\ Max({a, b}) >= a /\ Max({a, b}) >= b
<1>1. \E x \in {a, b} : \A y \in {a, b} : x >= y
  OBVIOUS
<1>2. Max({a, b}) \in {a, b} /\ \A y \in {a, b} : Max({a, b}) >= y
  BY <1>1 DEF Max
<1> QED BY <1>2

LEMMA NormalizedIs ==
  ASSUME NEW a, IsSeq(a), NEW b, IsSeq(b)
  PROVE  normalized(a, b)[1] = editDistance(a, b) /\ normalized(a, b)[1] <= normalized(a, b)[2]
<1> DEFINE wide == Len(a)
           n == Len(b)
           longest == Max({wide, n})
           e == editDistance(a, b)
<1>1. wide \in Nat /\ n \in Nat
  BY InSeq
<1>2. longest \in Nat /\ longest >= wide /\ longest >= n
  <2> HIDE DEF wide, n
  <2> QED BY <1>1, Largest
<1>3. normalized(a, b) = IF longest = 0 THEN <<0, 1>> ELSE <<levenshteinDistance(a, b), longest>>
  BY DEF normalized
<1>4. levenshteinDistance(a, b) = e /\ e \in Nat /\ (e <= wide \/ e <= n)
  BY LevenshteinIsExact
<1> HIDE DEF wide, n, longest, e
<1>5. e <= longest
  BY <1>1, <1>2, <1>4
<1>6. CASE longest = 0
  <2>1. normalized(a, b) = <<0, 1>> /\ e = 0
    BY <1>3, <1>4, <1>5, <1>6
  <2> QED BY <2>1 DEF e
<1>7. CASE longest # 0
  <2>1. normalized(a, b) = <<e, longest>>
    BY <1>3, <1>4, <1>7
  <2> QED BY <2>1, <1>5 DEF e
<1> QED BY <1>6, <1>7

-----------------------------------------------------------------------------
(***************************************************************************)
(* similar.                                                                *)
(***************************************************************************)
\* The path of the target is excluded: it takes at most one place.
LEMMA SimilarAnswers ==
  ASSUME NEW q, IsSimilarQuery(q)
  PROVE  LET out == similar(q, q.skills)
             others == {x \in q.skills : x.path # q.target /\ x.score >= q.minScore}
         IN  /\ Len(out) = Min({q.topK, Cardinality(others)})
             /\ \A i \in DOMAIN out : \E x \in others :
                  x.path = out[i].path /\ out[i].distance = normalized(q.body, loadSkillBody(x))
<1> DEFINE hits == q.skills
           good == {x \in hits : x.score >= q.minScore}
           rest == {x \in hits : x.path # q.target}
           others == {x \in hits : x.path # q.target /\ x.score >= q.minScore}
           k == q.topK
           got == queryFTSIndex(hits, k + 1, q.minScore)
           w == within(got, rest)
           rows == firstOf(w, k)
           out == similar(q, hits)
<1>1. k \in Nat /\ IsHits(hits) /\ \A x, y \in hits : x.path = y.path => x = y
  BY DEF IsSimilarQuery
<1>2. Best(got, good, k + 1)
  <2>1. k + 1 \in Nat /\ q.minScore \in Int
    BY DEF IsSimilarQuery
  <2> QED BY <1>1, <2>1, IndexAnswersBest
<1>3. out = [i \in DOMAIN rows |-> [path |-> rows[i].path, distance |-> normalized(q.body, loadSkillBody(rows[i]))]]
  BY DEF similar
<1>4. others = good \cap rest /\ good \subseteq hits
  OBVIOUS
<1>5. IsFiniteSet(others) /\ IsFiniteSet(good)
  <2> IsFiniteSet(hits)
    BY <1>1 DEF IsHits
  <2> QED BY FS_Subset
<1>6. \A x, y \in good \ others : x = y
  BY <1>1
<1> HIDE DEF got, out, k, hits, good, rest, others
<1>7. got \in Seq(good) /\ Ranked(got) /\ Len(got) <= k + 1 /\ (ToSet(got) = good \/ Len(got) = k + 1)
  BY <1>2 DEF Best
<1>8. w \in Seq(good) /\ Ranked(w) /\ ToSet(w) = ToSet(got) \cap rest
  BY <1>7, WithinRanked
<1> HIDE DEF w
<1>9. ToSet(got) \subseteq good
  BY <1>7 DEF ToSet
<1>10. /\ rows \in Seq(good) /\ ToSet(rows) \subseteq ToSet(w) /\ (Len(w) >= k => Len(rows) = k)
       /\ (Len(w) <= k => rows = w)
  BY <1>1, <1>8, FirstRanked
<1> HIDE DEF rows
<1>11. /\ IsFiniteSet(ToSet(w)) /\ Cardinality(ToSet(w)) = Len(w) /\ Len(w) \in Nat
       /\ IsFiniteSet(ToSet(got)) /\ Cardinality(ToSet(got)) = Len(got) /\ Len(got) \in Nat
  <2>1. IsFiniteSet(ToSet(w)) /\ Cardinality(ToSet(w)) = Len(w)
    BY <1>8, RankedCounts
  <2>2. IsFiniteSet(ToSet(got)) /\ Cardinality(ToSet(got)) = Len(got)
    BY <1>7, RankedCounts
  <2> QED BY <2>1, <2>2, <1>7, <1>8
<1>12. ToSet(w) \subseteq others
  BY <1>4, <1>8, <1>9
<1>13. Len(w) <= Cardinality(others) /\ Cardinality(others) \in Nat
  <2>1. ToSet(w) \in SUBSET others
    BY <1>12
  <2>2. Cardinality(ToSet(w)) <= Cardinality(others)
    BY <2>1, <1>5, FS_Subset
  <2> QED BY <2>2, <1>5, <1>11, FS_CardinalityType
<1>14. Len(w) >= Len(got) - 1
  <2>1. CASE ToSet(got) \subseteq others
    <3>1. ToSet(w) = ToSet(got)
      BY <2>1, <1>4, <1>8
    <3> QED BY <3>1, <1>11
  <2>2. CASE \E x \in ToSet(got) : x \notin others
    <3>1. PICK x \in ToSet(got) : x \notin others
      BY <2>2
    <3>2. ToSet(w) = ToSet(got) \ {x}
      BY <3>1, <1>4, <1>6, <1>8, <1>9
    <3>3. Cardinality(ToSet(got) \ {x}) = Cardinality(ToSet(got)) - 1
      BY <3>1, <1>11, FS_RemoveElement
    <3> QED BY <3>2, <3>3, <1>11
  <2> QED BY <2>1, <2>2
<1>15. Len(rows) = Min({k, Cardinality(others)})
  <2> DEFINE c == Cardinality(others)
  <2>1. c \in Nat /\ Min({k, c, c}) \in {k, c} /\ Min({k, c, c}) <= k /\ Min({k, c, c}) <= c
    <3>1. c \in Nat
      BY <1>13
    <3> HIDE DEF c
    <3> QED BY <3>1, <1>1, Least
  <2>2. {k, c, c} = {k, c}
    OBVIOUS
  <2> DEFINE least == Min({k, c})
  <2>3. least \in {k, c} /\ least <= k /\ least <= c
    BY <2>1, <2>2
  <2> HIDE DEF least
  <2>4. CASE ToSet(got) = good
    <3>1. ToSet(w) = others
      BY <2>4, <1>4, <1>8
    <3>2. Len(w) = c
      BY <3>1, <1>11
    <3>3. (c >= k => Len(rows) = k) /\ (c <= k => Len(rows) = c)
      BY <3>2, <1>10
    <3> HIDE DEF c
    <3>4. Len(rows) = least
      BY <2>1, <2>3, <3>3, <1>1
    <3> QED BY <3>4 DEF c, least
  <2>5. CASE ToSet(got) # good
    <3>1. Len(got) = k + 1
      BY <2>5, <1>7
    <3>2. Len(w) >= k
      BY <3>1, <1>1, <1>11, <1>14
    <3>3. Len(rows) = k /\ k <= c
      BY <3>2, <1>1, <1>10, <1>11, <1>13
    <3> HIDE DEF c
    <3>4. Len(rows) = least
      BY <2>1, <2>3, <3>3, <1>1
    <3> QED BY <3>4 DEF c, least
  <2> QED BY <2>4, <2>5
<1>16. Len(rows) \in Nat /\ DOMAIN rows = 1..Len(rows) /\ DOMAIN out = 1..Len(rows) /\ Len(out) = Len(rows)
  <2>1. Len(rows) \in Nat /\ DOMAIN rows = 1..Len(rows)
    BY <1>10
  <2> QED BY <2>1, <1>3
<1>17. ASSUME NEW i \in DOMAIN out
       PROVE  \E x \in others : x.path = out[i].path /\ out[i].distance = normalized(q.body, loadSkillBody(x))
  <2>1. rows[i] \in others
    BY <1>10, <1>12, <1>16 DEF ToSet
  <2>2. out[i] = [path |-> rows[i].path, distance |-> normalized(q.body, loadSkillBody(rows[i]))]
    BY <1>3, <1>16
  <2> QED BY <2>1, <2>2
<1> QED BY <1>15, <1>16, <1>17 DEF out, others, hits, k

LEMMA SimilarAnswersExactly ==
  ASSUME answer.op = "similar" => answer.q \in SimilarQueries /\ answer.out = similar(answer.q, answer.q.skills)
  PROVE  SimilarIsExact
<1> DEFINE q == answer.q
           out == answer.out
           others == {x \in q.skills : x.path # q.target /\ x.score >= q.minScore}
<1>1. SUFFICES ASSUME answer.op = "similar"
               PROVE  /\ Len(out) = Min({q.topK, Cardinality(others)})
                      /\ \A i \in DOMAIN out : \E x \in others :
                           /\ x.path = out[i].path
                           /\ out[i].distance[1] = editDistance(q.body, loadSkillBody(x))
                           /\ out[i].distance[1] <= out[i].distance[2]
  BY DEF SimilarIsExact
<1>2. IsSimilarQuery(q) /\ out = similar(q, q.skills)
  BY <1>1, QueriesAssumption
<1> HIDE DEF q, out
<1>3. /\ Len(out) = Min({q.topK, Cardinality(others)})
      /\ \A i \in DOMAIN out : \E x \in others : x.path = out[i].path /\ out[i].distance = normalized(q.body, loadSkillBody(x))
  BY <1>2, SimilarAnswers
<1>4. ASSUME NEW i \in DOMAIN out
      PROVE  \E x \in others : /\ x.path = out[i].path
                               /\ out[i].distance[1] = editDistance(q.body, loadSkillBody(x))
                               /\ out[i].distance[1] <= out[i].distance[2]
  <2>1. PICK x \in others : x.path = out[i].path /\ out[i].distance = normalized(q.body, loadSkillBody(x))
    BY <1>3
  <2>2. IsSeq(q.body) /\ IsSeq(x.body)
    BY <1>2, <2>1 DEF IsSimilarQuery, IsSeq
  <2>3. IsSeq(loadSkillBody(x))
    BY <2>2, NothingIsSeq DEF loadSkillBody
  <2> QED BY <2>1, <2>2, <2>3, NormalizedIs
<1> QED BY <1>3, <1>4

-----------------------------------------------------------------------------
(***************************************************************************)
(* recall: merging, taking within the limits.                              *)
(***************************************************************************)
LEMMA InsertTyped ==
  ASSUME NEW X, NEW s \in Seq(X), NEW x \in X
  PROVE  insertRanked(s, x) \in Seq(X)
<1> DEFINE r == {i \in DOMAIN s : ~ranksBefore(x, s[i])}
           last == Max({0} \cup r)
<1>1. Len(s) \in Nat /\ DOMAIN s = 1..Len(s)
  OBVIOUS
<1>2. last \in {0} \cup r /\ r \in SUBSET (1..Len(s))
  <2>1. r \in SUBSET (1..Len(s))
    BY <1>1
  <2> HIDE DEF r
  <2> QED BY <1>1, <2>1, LastNotBetter
<1>3. insertRanked(s, x) = InsertAt(s, 1 + last, x)
  BY DEF insertRanked
<1> HIDE DEF last, r
<1>4. 1 + last \in 1..(Len(s) + 1)
  <2>1. last \in 0..Len(s)
    <3>1. CASE last = 0
      BY <3>1, <1>1
    <3>2. CASE last \in r
      <4>1. last \in 1..Len(s)
        BY <3>2, <1>2
      <4> QED BY <4>1
    <3> QED BY <3>1, <3>2, <1>2
  <2> QED BY <2>1, <1>1
<1> QED BY <1>3, <1>4, InsertIs

MergedBy(s, X) ==
  \E h \in [0..Len(s) -> Seq(X)] :
    /\ h[0] = <<>> /\ mergeRanked(s) = h[Len(s)]
    /\ \A k \in 1..Len(s) : h[k] = insertRanked(h[k - 1], s[k])

\* The stable sort, match by match.
LEMMA MergeFolds ==
  ASSUME NEW X, NEW s \in Seq(X)
  PROVE  MergedBy(s, X)
<1> DEFINE n == Len(s)
           V == Seq(X)
           st == [at \in (1..n) \X V |-> insertRanked(at[2], s[at[1]])]
<1>1. n \in Nat /\ DOMAIN s = 1..n
  OBVIOUS
<1>2. <<>> \in V
  OBVIOUS
<1>3. ASSUME NEW v \in V, NEW k \in 1..n PROVE insertRanked(v, s[k]) \in V
  BY <1>1, InsertTyped
<1>4. st \in [(1..n) \X V -> V]
  <2> HIDE DEF n, V
  <2> QED BY <1>3
<1>5. PICK g \in [SUBSET (1..n) -> V] : Iterates(g, n, <<>>, st)
  <2> HIDE DEF st, n, V
  <2> QED BY <1>1, <1>2, <1>4, FoldExists
<1> DEFINE Def(f) ==
             f = [r \in SUBSET (1..n) |->
                    IF r = {} THEN <<>> ELSE insertRanked(f[r \ {Max(r)}], s[Max(r)])]
           f == CHOOSE f : Def(f)
<1>6. Def(g)
  <2> HIDE DEF n, V
  <2>1. ASSUME NEW r \in SUBSET (1..n), r # {}
        PROVE  st[<<Max(r), g[r \ {Max(r)}]>>] = insertRanked(g[r \ {Max(r)}], s[Max(r)])
    BY <1>1, <1>5, <2>1, OneBefore
  <2> HIDE DEF st
  <2> QED BY <1>5, <2>1 DEF Iterates
<1>7. Def(f)
  <2> HIDE DEF Def
  <2> QED BY <1>6
<1>8. mergeRanked(s) = f[1..n]
  BY <1>1 DEF mergeRanked, FoldLeft, MapThenFoldSet
<1> HIDE DEF f
<1>9. Recurs(f, n, V, <<>>, st)
  <2> HIDE DEF n, V
  <2> QED BY <1>7 DEF Recurs
<1>10. PICK h \in [0..n -> V] : StepsTo(h, n, V, <<>>, st, f[1..n])
  <2> HIDE DEF n, V, st
  <2> QED BY <1>1, <1>2, <1>4, <1>9, FoldSteps
<1>11. \A k \in 1..n : h[k] = insertRanked(h[k - 1], s[k])
  <2> HIDE DEF n, V
  <2> QED BY <1>10 DEF StepsTo
<1> QED BY <1>8, <1>10, <1>11 DEF StepsTo, MergedBy

Injective(s) == \A i, j \in DOMAIN s : i # j => s[i] # s[j]

LEMMA MergeRanks ==
  ASSUME NEW H, IsHits(H), NEW s \in Seq(H), Injective(s)
  PROVE  mergeRanked(s) \in Seq(H) /\ Ranked(mergeRanked(s)) /\ ToSet(mergeRanked(s)) = ToSet(s)
<1> DEFINE n == Len(s)
<1>1. n \in Nat /\ DOMAIN s = 1..n
  OBVIOUS
<1>2. PICK h \in [0..n -> Seq(H)] :
        /\ h[0] = <<>> /\ mergeRanked(s) = h[n]
        /\ \A k \in 1..n : h[k] = insertRanked(h[k - 1], s[k])
  <2>1. MergedBy(s, H)
    BY MergeFolds
  <2> QED BY <2>1, Zenon DEF MergedBy
<1> DEFINE sofar(k) == {s[i] : i \in 1..k}
           T == {k \in 0..n : Ranked(h[k]) /\ ToSet(h[k]) = sofar(k)}
<1>3. 0 \in T
  <2>1. 1..0 = {} /\ h[0] = <<>> /\ DOMAIN h[0] = {} /\ 0 \in 0..n
    BY <1>1, <1>2
  <2> QED BY <2>1, <1>2 DEF Ranked, ToSet
<1>4. ASSUME NEW k \in 1..n, k - 1 \in T PROVE k \in T
  <2> DEFINE o == h[k - 1]
             x == s[k]
  <2>1. o \in Seq(H) /\ Ranked(o) /\ ToSet(o) = sofar(k - 1) /\ h[k] = insertRanked(o, x) /\ k \in 0..n
    BY <1>2, <1>4
  <2>2. sofar(k) = sofar(k - 1) \cup {x}
    <3>1. 1..k = (1..(k - 1)) \cup {k}
      BY <1>1
    <3> QED BY <3>1
  <2>3. x \in H \ ToSet(o)
    <3>1. x \in H
      BY <1>1
    <3>2. ASSUME NEW i \in 1..(k - 1) PROVE s[i] # x
      <4>1. i \in DOMAIN s /\ k \in DOMAIN s /\ i # k
        BY <1>1
      <4> QED BY <4>1 DEF Injective
    <3> QED BY <3>1, <3>2, <2>1
  <2> HIDE DEF o, x, sofar
  <2>4. Ranked(insertRanked(o, x)) /\ ToSet(insertRanked(o, x)) = ToSet(o) \cup {x}
    BY <2>1, <2>3, InsertRanks
  <2> QED BY <2>1, <2>2, <2>4
<1> HIDE DEF T
<1>5. n \in T
  <2> HIDE DEF n
  <2>1. n \in 0..n
    BY <1>1
  <2>2. 0..n \subseteq T
    BY <1>1, <1>3, <1>4, Along
  <2> QED BY <2>1, <2>2
<1>6. sofar(n) = ToSet(s)
  BY <1>1 DEF ToSet
<1>7. h[n] \in Seq(H)
  BY <1>1, <1>2
<1> HIDE DEF sofar, n
<1> QED BY <1>2, <1>5, <1>6, <1>7 DEF T

LEMMA RankedIsInjective == ASSUME NEW X, NEW s \in Seq(X), Ranked(s) PROVE Injective(s)
<1> SUFFICES ASSUME NEW i \in DOMAIN s, NEW j \in DOMAIN s, i # j PROVE s[i] # s[j]
  BY DEF Injective
<1>1. i \in Nat /\ j \in Nat
  OBVIOUS
<1>2. CASE i < j
  BY <1>2 DEF Ranked
<1>3. CASE j < i
  <2>1. s[j] # s[i]
    BY <1>3 DEF Ranked
  <2> QED BY <2>1
<1> QED BY <1>1, <1>2, <1>3

LEMMA ConcatInjective ==
  ASSUME NEW X, NEW s \in Seq(X), Injective(s), NEW t \in Seq(X), Injective(t), ToSet(s) \cap ToSet(t) = {}
  PROVE  s \o t \in Seq(X) /\ Injective(s \o t) /\ ToSet(s \o t) = ToSet(s) \cup ToSet(t)
<1> DEFINE got == Len(s)
           n == Len(t)
           c == s \o t
<1>1. got \in Nat /\ n \in Nat /\ DOMAIN s = 1..got /\ DOMAIN t = 1..n /\ c \in Seq(X) /\ DOMAIN c = 1..(got + n)
  OBVIOUS
<1>2. (\A i \in 1..got : c[i] = s[i]) /\ \A i \in (got + 1)..(got + n) : c[i] = t[i - got] /\ i - got \in 1..n
  OBVIOUS
<1>3. ToSet(c) = ToSet(s) \cup ToSet(t)
  <2> IsSeq(s) /\ IsSeq(t)
    BY SeqIsSeq
  <2> QED BY ConcatIsSeq
<1> HIDE DEF c, got, n
<1>4. \A i \in 1..got : c[i] \in ToSet(s)
  BY <1>1, <1>2 DEF ToSet
<1>5. \A i \in (got + 1)..(got + n) : c[i] \in ToSet(t)
  BY <1>1, <1>2 DEF ToSet
<1>6. ASSUME NEW i \in 1..(got + n), NEW j \in 1..(got + n), i < j PROVE c[i] # c[j]
  <2>1. CASE j <= got
    <3>1. i \in 1..got /\ j \in 1..got /\ i # j
      BY <1>1, <1>6, <2>1
    <3> QED BY <3>1, <1>1, <1>2 DEF Injective
  <2>2. CASE i > got
    <3>1. i \in (got + 1)..(got + n) /\ j \in (got + 1)..(got + n) /\ i - got # j - got
      BY <1>1, <1>6, <2>2
    <3>2. i - got \in DOMAIN t /\ j - got \in DOMAIN t /\ c[i] = t[i - got] /\ c[j] = t[j - got]
      BY <3>1, <1>1, <1>2
    <3> QED BY <3>1, <3>2 DEF Injective
  <2>3. CASE i <= got /\ j > got
    <3>1. i \in 1..got /\ j \in (got + 1)..(got + n)
      BY <1>1, <1>6, <2>3
    <3> QED BY <3>1, <1>4, <1>5
  <2> QED BY <1>1, <2>1, <2>2, <2>3
<1>7. Injective(c)
  <2> SUFFICES ASSUME NEW i \in 1..(got + n), NEW j \in 1..(got + n), i # j PROVE c[i] # c[j]
    BY <1>1 DEF Injective
  <2>1. i < j \/ j < i
    BY <1>1
  <2>2. CASE i < j
    BY <2>2, <1>6
  <2>3. CASE j < i
    <3>1. c[j] # c[i]
      BY <2>3, <1>6
    <3> QED BY <3>1
  <2> QED BY <2>1, <2>2, <2>3
<1> QED BY <1>1, <1>3, <1>7 DEF c

\* The concatenation of one or three answers.
LEMMA FlattenOne ==
  ASSUME NEW s, s = [i \in 1..1 |-> s[i]]
  PROVE  FlattenSeq(s) = s[1]
<1> DEFINE Def(f) == f = [i \in 1..Len(s) |-> IF i = 1 THEN s[i] ELSE f[i - 1] \o s[i]]
           f == CHOOSE f : Def(f)
           g == [i \in 1..1 |-> s[1]]
<1>1. Len(s) = 1
  OBVIOUS
<1>2. Def(g)
  BY <1>1
<1>3. Def(f)
  <2> HIDE DEF Def, g
  <2> QED BY <1>2
<1>4. FlattenSeq(s) = f[1]
  BY <1>1 DEF FlattenSeq
<1> HIDE DEF f
<1> QED BY <1>1, <1>3, <1>4

LEMMA FlattenThree ==
  ASSUME NEW s, s = [i \in 1..3 |-> s[i]]
  PROVE  FlattenSeq(s) = (s[1] \o s[2]) \o s[3]
<1> DEFINE Def(f) == f = [i \in 1..Len(s) |-> IF i = 1 THEN s[i] ELSE f[i - 1] \o s[i]]
           f == CHOOSE f : Def(f)
           g == [i \in 1..3 |-> IF i = 1 THEN s[1] ELSE IF i = 2 THEN s[1] \o s[2] ELSE (s[1] \o s[2]) \o s[3]]
<1>1. Len(s) = 3 /\ 1 \in 1..3 /\ 2 \in 1..3 /\ 3 \in 1..3
  OBVIOUS
<1>2. Def(g)
  <2>1. g[1] = s[1] /\ g[2] = g[1] \o s[2] /\ g[3] = g[2] \o s[3]
    BY <1>1
  <2>2. \A i \in 1..3 : g[i] = IF i = 1 THEN s[i] ELSE g[i - 1] \o s[i]
    <3> HIDE DEF g
    <3> SUFFICES ASSUME NEW i \in 1..3 PROVE g[i] = IF i = 1 THEN s[i] ELSE g[i - 1] \o s[i]
      OBVIOUS
    <3>1. i = 1 \/ i = 2 \/ i = 3
      OBVIOUS
    <3>2. 2 - 1 = 1 /\ 3 - 1 = 2
      OBVIOUS
    <3> QED BY <2>1, <3>1, <3>2
  <2>3. g = [i \in 1..3 |-> g[i]]
    OBVIOUS
  <2> HIDE DEF g
  <2> QED BY <1>1, <2>2, <2>3
<1>3. Def(f)
  <2> HIDE DEF Def, g
  <2> QED BY <1>2
<1>4. FlattenSeq(s) = f[3]
  BY <1>1 DEF FlattenSeq
<1> HIDE DEF f
<1>5. \A i \in 1..3 : f[i] = IF i = 1 THEN s[i] ELSE f[i - 1] \o s[i]
  BY <1>1, <1>3
<1>6. f[1] = s[1]
  BY <1>1, <1>5
<1>7. f[2] = f[1] \o s[2]
  <2>1. 2 # 1 /\ 2 - 1 = 1
    OBVIOUS
  <2> QED BY <2>1, <1>1, <1>5
<1>8. f[3] = f[2] \o s[3]
  <2>1. 3 # 1 /\ 3 - 1 = 2
    OBVIOUS
  <2> QED BY <2>1, <1>1, <1>5
<1> QED BY <1>4, <1>6, <1>7, <1>8

Lengths(X) == \A x \in X : x.len \in Nat

TotalledBy(s) ==
  \E h \in [0..Len(s) -> Nat] :
    /\ h[0] = 0 /\ total(s) = h[Len(s)]
    /\ \A k \in 1..Len(s) : h[k] = h[k - 1] + s[k].len

\* The total, match by match.
LEMMA TotalFolds ==
  ASSUME NEW X, Lengths(X), NEW s \in Seq(X)
  PROVE  TotalledBy(s)
<1> DEFINE n == Len(s)
           V == Nat
           st == [at \in (1..n) \X V |-> at[2] + s[at[1]].len]
<1>1. n \in Nat /\ DOMAIN s = 1..n
  OBVIOUS
<1>2. 0 \in V
  OBVIOUS
<1>3. ASSUME NEW v \in V, NEW k \in 1..n PROVE v + s[k].len \in V
  <2>1. s[k] \in X
    BY <1>1
  <2> QED BY <2>1 DEF Lengths
<1>4. st \in [(1..n) \X V -> V]
  <2> HIDE DEF n, V
  <2> QED BY <1>3
<1>5. PICK g \in [SUBSET (1..n) -> V] : Iterates(g, n, 0, st)
  <2> HIDE DEF st, n, V
  <2> QED BY <1>1, <1>2, <1>4, FoldExists
<1> DEFINE Def(f) ==
             f = [r \in SUBSET (1..n) |->
                    IF r = {} THEN 0 ELSE f[r \ {Max(r)}] + s[Max(r)].len]
           f == CHOOSE f : Def(f)
<1>6. Def(g)
  <2> HIDE DEF n, V
  <2>1. ASSUME NEW r \in SUBSET (1..n), r # {}
        PROVE  st[<<Max(r), g[r \ {Max(r)}]>>] = g[r \ {Max(r)}] + s[Max(r)].len
    BY <1>1, <1>5, <2>1, OneBefore
  <2> HIDE DEF st
  <2> QED BY <1>5, <2>1 DEF Iterates
<1>7. Def(f)
  <2> HIDE DEF Def
  <2> QED BY <1>6
<1>8. total(s) = f[1..n]
  BY <1>1 DEF total, FoldLeft, MapThenFoldSet
<1> HIDE DEF f
<1>9. Recurs(f, n, V, 0, st)
  <2> HIDE DEF n, V
  <2> QED BY <1>7 DEF Recurs
<1>10. PICK h \in [0..n -> V] : StepsTo(h, n, V, 0, st, f[1..n])
  <2> HIDE DEF n, V, st
  <2> QED BY <1>1, <1>2, <1>4, <1>9, FoldSteps
<1>11. \A k \in 1..n : h[k] = h[k - 1] + s[k].len
  <2> HIDE DEF n, V
  <2> QED BY <1>10 DEF StepsTo
<1> QED BY <1>8, <1>10, <1>11 DEF StepsTo, TotalledBy

LEMMA TotalOfAppend ==
  ASSUME NEW X, Lengths(X), NEW s \in Seq(X), NEW x \in X
  PROVE  total(Append(s, x)) = total(s) + x.len /\ total(s) \in Nat
<1> DEFINE n == Len(s)
           t == Append(s, x)
<1>1. n \in Nat /\ t \in Seq(X) /\ Len(t) = n + 1 /\ t[n + 1] = x /\ \A k \in 1..n : t[k] = s[k]
  OBVIOUS
<1>2. TotalledBy(s)
  BY TotalFolds
<1> HIDE DEF t
<1>3. TotalledBy(t)
  BY <1>1, TotalFolds
<1>4. PICK g \in [0..n -> Nat] : g[0] = 0 /\ total(s) = g[n] /\ \A k \in 1..n : g[k] = g[k - 1] + s[k].len
  BY <1>2, Zenon DEF TotalledBy
<1>5. PICK h \in [0..Len(t) -> Nat] :
        h[0] = 0 /\ total(t) = h[Len(t)] /\ \A k \in 1..Len(t) : h[k] = h[k - 1] + t[k].len
  BY <1>3, Zenon DEF TotalledBy
<1> HIDE DEF n
<1> DEFINE T == {k \in 0..n : g[k] = h[k]}
<1>6. 0 \in T
  BY <1>1, <1>4, <1>5
<1>7. ASSUME NEW k \in 1..n, k - 1 \in T PROVE k \in T
  <2>1. k \in 1..Len(t) /\ k \in 0..n /\ t[k] = s[k]
    BY <1>1
  <2>2. g[k] = g[k - 1] + s[k].len /\ h[k] = h[k - 1] + t[k].len
    BY <2>1, <1>4, <1>5
  <2> QED BY <1>7, <2>1, <2>2
<1>8. n \in T
  <2> HIDE DEF T
  <2>1. n \in 0..n
    BY <1>1
  <2>2. 0..n \subseteq T
    BY <1>1, <1>6, <1>7, Along
  <2> QED BY <2>1, <2>2
<1>9. h[n + 1] = h[n] + x.len
  <2>1. n + 1 \in 1..Len(t) /\ (n + 1) - 1 = n
    BY <1>1
  <2>2. h[n + 1] = h[(n + 1) - 1] + t[n + 1].len
    BY <2>1, <1>5
  <2> QED BY <2>1, <2>2, <1>1
<1>10. g[n] \in Nat
  BY <1>1, <1>4
<1> QED BY <1>1, <1>4, <1>5, <1>8, <1>9, <1>10 DEF t

LEMMA TotalOfNothing == total(<<>>) = 0
<1>1. <<>> \in Seq({}) /\ Lengths({}) /\ Len(<<>>) = 0
  BY DEF Lengths
<1>2. TotalledBy(<<>>)
  BY <1>1, TotalFolds
<1> QED BY <1>1, <1>2 DEF TotalledBy

Answers(X) == [matches : Seq(X), used : Nat, full : BOOLEAN]
nothingYet == [matches |-> <<>>, used |-> 0, full |-> FALSE]
takenFrom(s, topK, maxTokens) == FoldLeft(LAMBDA out, x : take(out, x, topK, maxTokens), nothingYet, s)

LEMMA TakeTyped ==
  ASSUME NEW X, Lengths(X), NEW out \in Answers(X), NEW x \in X, NEW topK, NEW maxTokens
  PROVE  take(out, x, topK, maxTokens) \in Answers(X)
<1> DEFINE full == [out EXCEPT !.full = TRUE]
           more == [out EXCEPT !.matches = Append(@, x), !.used = @ + x.len]
<1>1. out.matches \in Seq(X) /\ out.used \in Nat /\ x.len \in Nat
  BY DEF Answers, Lengths
<1>2. Append(out.matches, x) \in Seq(X) /\ out.used + x.len \in Nat
  BY <1>1
<1>3. full \in Answers(X)
  BY DEF Answers
<1>4. more \in Answers(X)
  <2> DEFINE ms == Append(out.matches, x)
             u == out.used + x.len
  <2>1. more = [out EXCEPT !.matches = ms, !.used = u] /\ ms \in Seq(X) /\ u \in Nat
    BY <1>2
  <2> HIDE DEF ms, u
  <2> QED BY <2>1 DEF Answers
<1>5. take(out, x, topK, maxTokens) = full \/ take(out, x, topK, maxTokens) = more
  BY DEF take
<1> QED BY <1>3, <1>4, <1>5

TakenBy(s, X, topK, maxTokens) ==
  \E h \in [0..Len(s) -> Answers(X)] :
    /\ h[0] = nothingYet /\ takenFrom(s, topK, maxTokens) = h[Len(s)]
    /\ \A k \in 1..Len(s) : h[k] = take(h[k - 1], s[k], topK, maxTokens)

\* The answer, match by match.
LEMMA TakeFolds ==
  ASSUME NEW X, Lengths(X), NEW s \in Seq(X), NEW topK, NEW maxTokens
  PROVE  TakenBy(s, X, topK, maxTokens)
<1> DEFINE n == Len(s)
           V == Answers(X)
           st == [at \in (1..n) \X V |-> take(at[2], s[at[1]], topK, maxTokens)]
<1>1. n \in Nat /\ DOMAIN s = 1..n
  OBVIOUS
<1>2. nothingYet \in V
  BY DEF nothingYet, Answers
<1>3. ASSUME NEW v \in V, NEW k \in 1..n PROVE take(v, s[k], topK, maxTokens) \in V
  BY <1>1, TakeTyped
<1>4. st \in [(1..n) \X V -> V]
  <2> HIDE DEF n, V
  <2> QED BY <1>3
<1>5. PICK g \in [SUBSET (1..n) -> V] : Iterates(g, n, nothingYet, st)
  <2> HIDE DEF st, n, V
  <2> QED BY <1>1, <1>2, <1>4, FoldExists
<1> DEFINE Def(f) ==
             f = [r \in SUBSET (1..n) |->
                    IF r = {} THEN nothingYet ELSE take(f[r \ {Max(r)}], s[Max(r)], topK, maxTokens)]
           f == CHOOSE f : Def(f)
<1>6. Def(g)
  <2> HIDE DEF n, V
  <2>1. ASSUME NEW r \in SUBSET (1..n), r # {}
        PROVE  st[<<Max(r), g[r \ {Max(r)}]>>] = take(g[r \ {Max(r)}], s[Max(r)], topK, maxTokens)
    BY <1>1, <1>5, <2>1, OneBefore
  <2> HIDE DEF st
  <2> QED BY <1>5, <2>1 DEF Iterates
<1>7. Def(f)
  <2> HIDE DEF Def
  <2> QED BY <1>6
<1>8. takenFrom(s, topK, maxTokens) = f[1..n]
  BY <1>1 DEF takenFrom, FoldLeft, MapThenFoldSet
<1> HIDE DEF f
<1>9. Recurs(f, n, V, nothingYet, st)
  <2> HIDE DEF n, V
  <2> QED BY <1>7 DEF Recurs
<1>10. PICK h \in [0..n -> V] : StepsTo(h, n, V, nothingYet, st, f[1..n])
  <2> HIDE DEF n, V, st
  <2> QED BY <1>1, <1>2, <1>4, <1>9, FoldSteps
<1>11. \A k \in 1..n : h[k] = take(h[k - 1], s[k], topK, maxTokens)
  <2> HIDE DEF n, V
  <2> QED BY <1>10 DEF StepsTo
<1> QED BY <1>8, <1>10, <1>11 DEF StepsTo, TakenBy

\* The answer is a beginning of s, and what ended it is top-k, the budget or s.
Begins(out, s) == Len(out) <= Len(s) /\ \A i \in 1..Len(out) : out[i] = s[i]
Ended(out, s, topK, maxTokens) ==
  Len(out) = topK \/ (Len(out) < Len(s) /\ total(out) + s[Len(out) + 1].len > maxTokens)

LEMMA TakenIs ==
  ASSUME NEW X, Lengths(X), NEW s \in Seq(X), NEW topK \in Nat, NEW maxTokens \in Nat
  PROVE  LET out == takenFrom(s, topK, maxTokens).matches IN
         /\ out \in Seq(X) /\ Begins(out, s) /\ Len(out) <= topK /\ total(out) <= maxTokens
         /\ Ended(out, s, topK, maxTokens) \/ Len(out) = Len(s)
<1> DEFINE n == Len(s)
<1>1. n \in Nat /\ \A k \in 1..n : s[k] \in X
  OBVIOUS
<1>2. PICK h \in [0..n -> Answers(X)] :
        /\ h[0] = nothingYet /\ takenFrom(s, topK, maxTokens) = h[n]
        /\ \A k \in 1..n : h[k] = take(h[k - 1], s[k], topK, maxTokens)
  <2>1. TakenBy(s, X, topK, maxTokens)
    BY TakeFolds
  <2> QED BY <2>1, Zenon DEF TakenBy
<1> DEFINE Fits(a) == /\ Begins(a.matches, s) /\ Len(a.matches) <= topK
                      /\ a.used = total(a.matches) /\ total(a.matches) <= maxTokens
           Stops(a, k) == IF a.full THEN Ended(a.matches, s, topK, maxTokens) ELSE Len(a.matches) = k
           T == {k \in 0..n : Fits(h[k]) /\ Stops(h[k], k)}
<1>3. 0 \in T
  <2>1. h[0].matches = <<>> /\ h[0].used = 0 /\ h[0].full = FALSE /\ Len(<<>>) = 0
    BY <1>2 DEF nothingYet
  <2>2. Begins(<<>>, s)
    BY <1>1 DEF Begins
  <2> QED BY <2>1, <2>2, <1>1, TotalOfNothing
<1>4. ASSUME NEW k \in 1..n, k - 1 \in T PROVE k \in T
  <2> DEFINE a == h[k - 1]
             ms == a.matches
             x == s[k]
             l == Len(ms)
  <2>1. /\ a \in Answers(X) /\ Fits(a) /\ Stops(a, k - 1) /\ h[k] = take(a, x, topK, maxTokens)
        /\ k \in 0..n /\ k \in Nat /\ k <= n
    BY <1>1, <1>2, <1>4
  <2>2. x \in X /\ x.len \in Nat
    BY <1>1 DEF Lengths
  <2> HIDE DEF a, n
  <2>3. ms \in Seq(X) /\ a.used \in Nat /\ a.full \in BOOLEAN
    BY <2>1 DEF Answers
  <2>4. l \in Nat
    BY <2>3
  <2>5. a.full \/ l >= topK \/ a.used + x.len > maxTokens =>
          Fits([a EXCEPT !.full = TRUE]) /\ Stops([a EXCEPT !.full = TRUE], k)
    <3> DEFINE b == [a EXCEPT !.full = TRUE]
    <3>1. b.matches = ms /\ b.used = a.used /\ b.full = TRUE
      BY <2>1 DEF Answers
    <3> HIDE DEF b
    <3>2. Fits(b)
      BY <2>1, <3>1
    <3>3. a.full => Ended(ms, s, topK, maxTokens)
      BY <2>1
    <3>4. l >= topK => Ended(ms, s, topK, maxTokens)
      BY <2>1, <2>4 DEF Ended
    <3>5. ~a.full /\ a.used + x.len > maxTokens => Ended(ms, s, topK, maxTokens)
      <4> SUFFICES ASSUME ~a.full, a.used + x.len > maxTokens PROVE Ended(ms, s, topK, maxTokens)
        OBVIOUS
      <4>1. l = k - 1 /\ a.used = total(ms)
        BY <2>1
      <4>2. l + 1 = k /\ l < Len(s)
        BY <4>1, <2>1, <1>1 DEF n
      <4> QED BY <4>1, <4>2 DEF Ended
    <3>6. a.full \/ l >= topK \/ a.used + x.len > maxTokens => Stops(b, k)
      <4> HIDE DEF x, l, ms
      <4> QED BY <3>1, <3>3, <3>4, <3>5 DEF ms
    <3> QED BY <3>2, <3>6 DEF b
  <2>6. ~(a.full \/ l >= topK \/ a.used + x.len > maxTokens) =>
          LET b == [a EXCEPT !.matches = Append(@, x), !.used = @ + x.len] IN Fits(b) /\ Stops(b, k)
    <3> SUFFICES ASSUME ~a.full, l < topK, a.used + x.len <= maxTokens
                 PROVE  LET b == [a EXCEPT !.matches = Append(@, x), !.used = @ + x.len] IN Fits(b) /\ Stops(b, k)
      BY <2>2, <2>3, <2>4
    <3> DEFINE b == [a EXCEPT !.matches = Append(@, x), !.used = @ + x.len]
               t == Append(ms, x)
    <3>1. b.matches = t /\ b.used = a.used + x.len /\ b.full = a.full
      BY <2>1 DEF Answers
    <3>2. t \in Seq(X) /\ Len(t) = l + 1 /\ t[l + 1] = x /\ \A i \in 1..l : t[i] = ms[i]
      BY <2>2, <2>3
    <3>3. total(t) = total(ms) + x.len
      BY <2>2, <2>3, TotalOfAppend
    <3>4. l = k - 1 /\ a.used = total(ms) /\ \A i \in 1..l : ms[i] = s[i]
      BY <2>1 DEF Begins
    <3> HIDE DEF b, t, ms, l, x
    <3>5. l + 1 = k /\ k <= Len(s)
      BY <3>4, <2>1, <2>4 DEF n
    <3>6. Begins(t, s)
      <4>1. ASSUME NEW i \in 1..(l + 1) PROVE t[i] = s[i]
        <5>1. CASE i = l + 1
          BY <5>1, <3>2, <3>5 DEF x
        <5>2. CASE i # l + 1
          <6>1. i \in 1..l
            BY <5>2, <2>4
          <6> QED BY <6>1, <3>2, <3>4
        <5> QED BY <5>1, <5>2
      <4> QED BY <4>1, <3>2, <3>5 DEF Begins
    <3>7. Fits(b)
      BY <3>1, <3>2, <3>3, <3>4, <3>6, <2>4
    <3>8. Stops(b, k)
      BY <3>1, <3>2, <3>5
    <3> QED BY <3>7, <3>8 DEF b
  <2> HIDE DEF Fits, Stops
  <2>7. Fits(h[k]) /\ Stops(h[k], k)
    BY <2>1, <2>5, <2>6 DEF take
  <2> QED BY <2>1, <2>7
<1>5. n \in T
  <2> HIDE DEF T, n
  <2>1. n \in 0..n
    BY <1>1
  <2>2. 0..n \subseteq T
    BY <1>1, <1>3, <1>4, Along
  <2> QED BY <2>1, <2>2
<1>6. h[n].matches \in Seq(X)
  <2> HIDE DEF n
  <2>1. h[n] \in Answers(X)
    BY <1>1, <1>2
  <2> QED BY <2>1 DEF Answers
<1> QED BY <1>2, <1>5, <1>6

\* What the limits cut off is no better than topK of the matches that are left.
CutsLate(wanted, s, topK) ==
  \A y \in wanted \ ToSet(s) : \E M \in SUBSET ToSet(s) :
    Cardinality(M) >= topK /\ \A z \in M : ~ranksBefore(y, z)

LEMMA BetterIsBefore ==
  ASSUME NEW H, IsHits(H), NEW s \in Seq(H), Ranked(s), NEW topK \in Nat, NEW wanted \in SUBSET H,
         CutsLate(wanted, s, topK), NEW y \in wanted \ ToSet(s), NEW j \in DOMAIN s, ranksBefore(y, s[j])
  PROVE  topK <= j - 1
<1> DEFINE f == firstOf(s, j - 1)
           x == s[j]
<1>1. Len(s) \in Nat /\ DOMAIN s = 1..Len(s) /\ j \in Nat /\ j >= 1 /\ j <= Len(s) /\ x \in H
  OBVIOUS
<1>2. PICK M \in SUBSET ToSet(s) : Cardinality(M) >= topK /\ \A z \in M : ~ranksBefore(y, z)
  BY DEF CutsLate
<1>3. f = SubSeq(s, 1, j - 1)
  BY <1>1 DEF firstOf
<1>4. f \in Seq(H) /\ Len(f) = j - 1 /\ \A i \in 1..(j - 1) : f[i] = s[i]
  BY <1>1, <1>3
<1>5. Ranked(f)
  <2>1. j - 1 \in Nat
    BY <1>1
  <2> QED BY <2>1, FirstRanked
<1> HIDE DEF f
<1>6. M \subseteq ToSet(f)
  <2> SUFFICES ASSUME NEW z \in M PROVE z \in ToSet(f)
    OBVIOUS
  <2>1. PICK i \in DOMAIN s : z = s[i]
    BY <1>2 DEF ToSet
  <2>2. z \in H /\ y \in H
    BY <2>1
  <2>3. ranksBefore(z, x)
    BY <1>1, <1>2, <2>2, RankOrder DEF IsHits
  <2>4. ~(i > j)
    BY <2>1, <2>3 DEF Ranked
  <2>5. i # j
    BY <1>1, <2>1, <2>3, RankOrder DEF IsHits
  <2>6. i \in 1..(j - 1)
    BY <1>1, <2>4, <2>5
  <2>7. i \in DOMAIN f /\ f[i] = z
    BY <1>1, <1>4, <2>1, <2>6
  <2> QED BY <2>7 DEF ToSet
<1>7. IsFiniteSet(ToSet(f)) /\ Cardinality(ToSet(f)) = j - 1
  BY <1>4, <1>5, RankedCounts
<1>8. Cardinality(M) <= j - 1 /\ Cardinality(M) \in Nat
  <2>1. M \in SUBSET ToSet(f)
    BY <1>6
  <2>2. IsFiniteSet(M) /\ Cardinality(M) <= Cardinality(ToSet(f))
    BY <2>1, <1>7, FS_Subset
  <2> QED BY <2>2, <1>7, FS_CardinalityType
<1> QED BY <1>1, <1>2, <1>8

IsTheBest(out, wanted, topK, maxTokens) ==
  LET others == wanted \ ToSet(out)
      best == {x \in others : \A y \in others : ~ranksBefore(y, x)}
  IN /\ ToSet(out) \subseteq wanted /\ Len(out) <= topK /\ total(out) <= maxTokens
     /\ \A i, j \in DOMAIN out : i < j => ~ranksBefore(out[j], out[i]) /\ out[i] # out[j]
     /\ \A x \in ToSet(out), y \in others : ~ranksBefore(y, x)
     /\ Len(out) = topK \/ others = {} \/ \E x \in best : total(out) + x.len > maxTokens

LEMMA TheBestAreTaken ==
  ASSUME NEW H, IsHits(H), Lengths(H), NEW s \in Seq(H), Ranked(s), NEW topK \in Nat, NEW maxTokens \in Nat,
         NEW wanted \in SUBSET H, ToSet(s) \subseteq wanted, CutsLate(wanted, s, topK)
  PROVE  IsTheBest(takenFrom(s, topK, maxTokens).matches, wanted, topK, maxTokens)
<1> DEFINE out == takenFrom(s, topK, maxTokens).matches
           n == Len(out)
           N == Len(s)
           others == wanted \ ToSet(out)
           best == {x \in others : \A y \in others : ~ranksBefore(y, x)}
<1>1. /\ out \in Seq(H) /\ Begins(out, s) /\ n <= topK /\ total(out) <= maxTokens
      /\ Ended(out, s, topK, maxTokens) \/ n = N
  BY TakenIs
<1> HIDE DEF out
<1>2. n \in Nat /\ N \in Nat /\ n <= N /\ DOMAIN out = 1..n /\ DOMAIN s = 1..N /\ \A i \in 1..n : out[i] = s[i]
  BY <1>1 DEF Begins
<1>3. Ended(out, s, topK, maxTokens) => n = topK \/ (n < N /\ total(out) + s[n + 1].len > maxTokens)
  BY DEF Ended
<1> HIDE DEF n, N
<1>4. \A i \in 1..n : i \in 1..N
  BY <1>2
<1>5. ToSet(out) \subseteq ToSet(s)
  BY <1>2, <1>4 DEF ToSet
<1>6. \A i, j \in DOMAIN out : i < j => ~ranksBefore(out[j], out[i]) /\ out[i] # out[j]
  BY <1>2, <1>4 DEF Ranked
<1>7. ASSUME NEW y \in others, y \in ToSet(s) PROVE \E i \in (n + 1)..N : y = s[i]
  <2>1. PICK i \in 1..N : y = s[i]
    BY <1>2, <1>7 DEF ToSet
  <2>2. i \notin 1..n
    BY <2>1, <1>2 DEF ToSet
  <2> QED BY <2>1, <2>2, <1>2
<1>8. ASSUME NEW y \in others, NEW j \in 1..N, j <= n + 1, j <= topK PROVE ~ranksBefore(y, s[j])
  <2>1. CASE y \in ToSet(s)
    <3>1. PICK i \in (n + 1)..N : y = s[i]
      BY <2>1, <1>7
    <3>2. i \in 1..N /\ (j < i \/ j = i)
      BY <1>2, <1>8
    <3>3. CASE j < i
      BY <3>1, <3>2, <3>3, <1>2 DEF Ranked
    <3>4. CASE j = i
      <4>1. y \in H
        OBVIOUS
      <4> QED BY <3>1, <3>4, <4>1, RankOrder DEF IsHits
    <3> QED BY <3>2, <3>3, <3>4
  <2>2. CASE y \notin ToSet(s)
    <3> SUFFICES ASSUME ranksBefore(y, s[j]) PROVE FALSE
      OBVIOUS
    <3>1. y \in wanted \ ToSet(s) /\ j \in DOMAIN s
      BY <2>2, <1>2
    <3>2. topK <= j - 1
      BY <3>1, BetterIsBefore
    <3> QED BY <3>2, <1>8, <1>2
  <2> QED BY <2>1, <2>2
<1>9. ASSUME NEW x \in ToSet(out), NEW y \in others PROVE ~ranksBefore(y, x)
  <2>1. PICK j \in 1..n : x = s[j]
    BY <1>2 DEF ToSet
  <2>2. j \in 1..N /\ j <= n + 1 /\ j <= topK
    BY <1>1, <1>2
  <2> QED BY <2>1, <2>2, <1>8
<1>10. n = topK \/ others = {} \/ \E x \in best : total(out) + x.len > maxTokens
  <2>1. CASE n < N /\ n # topK /\ total(out) + s[n + 1].len > maxTokens
    <3> DEFINE x == s[n + 1]
    <3>1. n + 1 \in 1..N /\ n + 1 <= n + 1 /\ n + 1 <= topK
      BY <2>1, <1>1, <1>2
    <3>2. x \in wanted
      BY <3>1, <1>2 DEF ToSet
    <3>3. x \notin ToSet(out)
      <4> SUFFICES ASSUME NEW i \in 1..n PROVE s[i] # x
        BY <1>2 DEF ToSet
      <4>1. i < n + 1 /\ i \in DOMAIN s /\ n + 1 \in DOMAIN s
        BY <3>1, <1>2
      <4> QED BY <4>1 DEF Ranked
    <3>4. \A y \in others : ~ranksBefore(y, x)
      BY <3>1, <1>8
    <3>5. x \in best
      <4> HIDE DEF x
      <4> QED BY <3>2, <3>3, <3>4
    <3> QED BY <3>5, <2>1
  <2>2. CASE n = N
    <3> SUFFICES ASSUME NEW y \in others PROVE n = topK
      OBVIOUS
    <3>1. y \notin ToSet(s)
      <4>1. ~(\E i \in (n + 1)..N : TRUE)
        BY <2>2, <1>2
      <4> QED BY <4>1, <1>7
    <3>2. PICK M \in SUBSET ToSet(s) : Cardinality(M) >= topK
      BY <3>1 DEF CutsLate
    <3>3. IsFiniteSet(ToSet(s)) /\ Cardinality(ToSet(s)) = N
      BY RankedCounts DEF N
    <3>4. IsFiniteSet(M) /\ Cardinality(M) <= N /\ Cardinality(M) \in Nat
      <4>1. IsFiniteSet(M) /\ Cardinality(M) <= Cardinality(ToSet(s))
        BY <3>2, <3>3, FS_Subset
      <4> QED BY <4>1, <3>3, FS_CardinalityType
    <3> QED BY <3>2, <3>4, <2>2, <1>1, <1>2
  <2> QED BY <2>1, <2>2, <1>1, <1>3
<1> HIDE DEF others
<1>11. IsTheBest(out, wanted, topK, maxTokens)
  BY <1>1, <1>5, <1>6, <1>9, <1>10 DEF IsTheBest, n, others
<1> QED BY <1>11 DEF out

Kinds3 == {"skill", "memory", "pattern"}

\* What the three indexes match, the patterns being any finite set of them.
IsMatched(q, hits) ==
  /\ IsRecallQuery(q)
  /\ \E P : hits = [skill |-> q.skills, memory |-> q.memories, pattern |-> P]
  /\ IsHits(hits["pattern"])
  /\ \A x \in hits["pattern"] : x.kind = "pattern" /\ x.len \in Nat /\ x.at \in Nat

LEMMA MatchedHits ==
  ASSUME NEW q, NEW hits, IsMatched(q, hits), NEW kind \in Kinds3
  PROVE  IsHits(hits[kind]) /\ \A x \in hits[kind] : x.kind = kind /\ x.len \in Nat /\ x.at \in Nat
<1>1. PICK P : hits = [skill |-> q.skills, memory |-> q.memories, pattern |-> P]
  BY DEF IsMatched
<1>2. hits["skill"] = q.skills /\ hits["memory"] = q.memories
  BY <1>1
<1>3. IsRecallQuery(q)
  BY DEF IsMatched
<1>4. CASE kind = "skill"
  <2>1. IsHits(q.skills) /\ \A x \in q.skills : x.kind = "skill" /\ x.len \in Nat /\ x.at \in Nat
    BY <1>3 DEF IsRecallQuery
  <2> QED BY <2>1, <1>2, <1>4
<1>5. CASE kind = "memory"
  <2>1. IsHits(q.memories) /\ \A x \in q.memories : x.kind = "memory" /\ x.len \in Nat /\ x.at \in Nat
    BY <1>3 DEF IsRecallQuery
  <2> QED BY <2>1, <1>2, <1>5
<1>6. CASE kind = "pattern"
  BY <1>6 DEF IsMatched
<1> QED BY <1>4, <1>5, <1>6 DEF Kinds3

LEMMA ThreeOf ==
  ASSUME NEW X, NEW a \in X, NEW b \in X, NEW c \in X, a # b, a # c, b # c, NEW s, s = <<a, b, c>>
  PROVE  s \in Seq(X) /\ Len(s) = 3 /\ Injective(s)
<1>1. Len(s) = 3 /\ DOMAIN s = 1..3 /\ s[1] = a /\ s[2] = b /\ s[3] = c /\ s \in Seq(X)
  OBVIOUS
<1>2. 1..3 = {1, 2, 3}
  OBVIOUS
<1> QED BY <1>1, <1>2 DEF Injective

LEMMA OneOf ==
  ASSUME NEW X, NEW a \in X, NEW s, s = <<a>>
  PROVE  s \in Seq(X) /\ Len(s) = 1 /\ Injective(s)
<1>1. Len(s) = 1 /\ DOMAIN s = 1..1 /\ s \in Seq(X)
  OBVIOUS
<1> QED BY <1>1 DEF Injective

LEMMA Indexes ==
  ASSUME NEW kind \in {"", "skill", "memory", "pattern"}
  PROVE  LET idx == indexesForKind(kind) IN
         /\ idx \in Seq(Kinds3) /\ (Len(idx) = 1 \/ Len(idx) = 3)
         /\ Injective(idx)
<1> DEFINE idx == indexesForKind(kind)
<1>1. CASE kind = ""
  <2>1. idx = <<"skill", "memory", "pattern">>
    BY <1>1 DEF indexesForKind
  <2>2. "skill" \in Kinds3 /\ "memory" \in Kinds3 /\ "pattern" \in Kinds3
    BY DEF Kinds3
  <2> HIDE DEF idx
  <2> QED BY <2>1, <2>2, ThreeOf DEF idx
<1>2. CASE kind # ""
  <2>1. idx = <<kind>> /\ kind \in Kinds3
    BY <1>2 DEF indexesForKind, Kinds3
  <2> HIDE DEF idx
  <2> QED BY <2>1, OneOf DEF idx
<1> QED BY <1>1, <1>2

\* The concatenation has what the answers have, as no two of them share a match.
\* The answers of the indexes, no two with a match in common, and their concatenation.
Separate(parts, many, X) ==
  /\ parts = [i \in 1..many |-> parts[i]]
  /\ \A i \in 1..many : parts[i] \in Seq(X) /\ Injective(parts[i])
  /\ \A i, j \in 1..many : i # j => ToSet(parts[i]) \cap ToSet(parts[j]) = {}

Joined(s, parts, many, X) ==
  s \in Seq(X) /\ Injective(s) /\ ToSet(s) = UNION {ToSet(parts[i]) : i \in 1..many}

LEMMA Gathered ==
  ASSUME NEW X, NEW many, many = 1 \/ many = 3, NEW parts, Separate(parts, many, X)
  PROVE  Joined(FlattenSeq(parts), parts, many, X)
<1> USE DEF Separate, Joined
<1>1. CASE many = 1
  <2>1. FlattenSeq(parts) = parts[1] /\ 1 \in 1..many /\ 1..many = {1}
    BY <1>1, FlattenOne
  <2> QED BY <2>1
<1>2. CASE many = 3
  <2>1. FlattenSeq(parts) = (parts[1] \o parts[2]) \o parts[3]
    BY <1>2, FlattenThree
  <2>2. 1..many = {1, 2, 3} /\ 1 \in 1..many /\ 2 \in 1..many /\ 3 \in 1..many
    BY <1>2
  <2> DEFINE a == parts[1]
             b == parts[2]
             c == parts[3]
             A == ToSet(a)
             B == ToSet(b)
             C == ToSet(c)
  <2>3. a \in Seq(X) /\ Injective(a) /\ b \in Seq(X) /\ Injective(b) /\ c \in Seq(X) /\ Injective(c)
    BY <2>2
  <2>4. A \cap B = {} /\ A \cap C = {} /\ B \cap C = {}
    <3>1. 1 # 2 /\ 1 # 3 /\ 2 # 3
      OBVIOUS
    <3> QED BY <2>2, <3>1
  <2>5. UNION {ToSet(parts[i]) : i \in 1..many} = (A \cup B) \cup C
    BY <2>2
  <2> HIDE DEF a, b, c
  <2>6. a \o b \in Seq(X) /\ Injective(a \o b) /\ ToSet(a \o b) = A \cup B
    BY <2>3, <2>4, ConcatInjective
  <2> DEFINE d == a \o b
  <2>7. d \in Seq(X) /\ Injective(d) /\ ToSet(d) = A \cup B
    BY <2>6
  <2>8. FlattenSeq(parts) = d \o c
    BY <2>1 DEF a, b, c
  <2> HIDE DEF d
  <2>9. ToSet(d) \cap ToSet(c) = {}
    BY <2>4, <2>7
  <2>10. d \o c \in Seq(X) /\ Injective(d \o c) /\ ToSet(d \o c) = ToSet(d) \cup ToSet(c)
    BY <2>3, <2>7, <2>9, ConcatInjective
  <2> QED BY <2>5, <2>7, <2>8, <2>10
<1> QED BY <1>1, <1>2

\* The limit of an index is no smaller than topK, so what it cuts off would not be taken.
LEMMA RecallAnswersBest ==
  ASSUME NEW q, NEW hits, IsMatched(q, hits), NEW H,
         H = UNION {hits[indexesForKind(q.kind)[i]] : i \in DOMAIN indexesForKind(q.kind)},
         q.cutoff = 0 \/ \A kind \in {"skill", "memory", "pattern"} :
                           Cardinality({x \in H : x.kind = kind}) <= perIndexLimit(q.topK)
  PROVE  IsTheBest(recallMatches(q, hits),
                   {x \in H : x.score >= q.minScore /\ (x.kind = "pattern" \/ x.at >= q.cutoff)},
                   q.topK, q.maxTokens)
<1> DEFINE idx == indexesForKind(q.kind)
           n == Len(idx)
           limit == perIndexLimit(q.topK)
           ms == [i \in DOMAIN idx |-> queryFTSIndex(hits[idx[i]], limit, q.minScore)]
           all == mergeRanked(FlattenSeq(ms))
           new == {x \in ToSet(all) : x.kind = "pattern" \/ x.at >= q.cutoff}
           recent == within(all, new)
           wanted == {x \in H : x.score >= q.minScore /\ (x.kind = "pattern" \/ x.at >= q.cutoff)}
           good(i) == {x \in hits[idx[i]] : x.score >= q.minScore}
<1>1. /\ q.topK \in Nat /\ q.maxTokens \in Nat /\ q.minScore \in Int /\ q.cutoff \in Nat
      /\ q.kind \in {"", "skill", "memory", "pattern"}
  BY DEF IsMatched, IsRecallQuery
<1>2. idx \in Seq(Kinds3) /\ (n = 1 \/ n = 3) /\ Injective(idx)
  BY <1>1, Indexes
<1>3. recallMatches(q, hits) = takenFrom(recent, q.topK, q.maxTokens).matches
  BY DEF recallMatches, takenFrom, nothingYet
<1>4. limit \in Nat /\ limit >= q.topK
  <2> DEFINE k == q.topK
  <2>1. k \in Nat /\ limit = IF k < 5 THEN 5 ELSE k
    BY <1>1 DEF perIndexLimit
  <2> HIDE DEF k, limit
  <2>2. limit \in Nat /\ limit >= k
    BY <2>1
  <2> QED BY <2>2 DEF k
<1>5. DOMAIN idx = 1..n /\ n \in Nat /\ \A i \in 1..n : idx[i] \in Kinds3
  BY <1>2
<1> HIDE DEF idx, n, limit
<1>6. ASSUME NEW i \in 1..n
      PROVE  IsHits(hits[idx[i]]) /\ \A x \in hits[idx[i]] : x.kind = idx[i] /\ x.len \in Nat /\ x.at \in Nat
  <2> DEFINE kind == idx[i]
  <2>1. kind \in Kinds3
    BY <1>5
  <2> HIDE DEF kind
  <2>2. IsHits(hits[kind]) /\ \A x \in hits[kind] : x.kind = kind /\ x.len \in Nat /\ x.at \in Nat
    BY <2>1, MatchedHits
  <2> QED BY <2>2 DEF kind
<1>7. H = UNION {hits[idx[i]] : i \in 1..n}
  BY <1>5 DEF idx
<1>8. IsHits(H) /\ Lengths(H) /\ \A x \in H : x.at \in Nat
  <2>1. \A x \in H : x.score \in Int /\ x.path \in Int /\ x.len \in Nat /\ x.at \in Nat
    BY <1>6, <1>7 DEF IsHits
  <2>2. IsFiniteSet(H)
    <3> DEFINE f == [i \in 1..n |-> hits[idx[i]]]
               D == {hits[idx[i]] : i \in 1..n}
    <3>1. f \in [1..n -> D] /\ \A y \in D : \E i \in 1..n : f[i] = y
      OBVIOUS
    <3>2. IsFiniteSet(1..n)
      <4>1. 1 \in Int /\ n \in Int
        BY <1>5
      <4> QED BY <4>1, FS_Interval, Zenon
    <3>3. \A x \in D : IsFiniteSet(x)
      BY <1>6 DEF IsHits
    <3>4. H = UNION D
      BY <1>7
    <3> HIDE DEF D, f
    <3>5. IsFiniteSet(D)
      BY <3>1, <3>2, ImageFinite
    <3> QED BY <3>3, <3>4, <3>5, FS_UNION
  <2> QED BY <2>1, <2>2 DEF IsHits, Lengths
<1>9. ASSUME NEW i \in 1..n
      PROVE  ms[i] \in Seq(H) /\ Ranked(ms[i]) /\ Best(ms[i], good(i), limit) /\ ToSet(ms[i]) \subseteq good(i)
  <2>1. ms[i] = queryFTSIndex(hits[idx[i]], limit, q.minScore)
    BY <1>5
  <2> DEFINE h == hits[idx[i]]
             g == good(i)
             got == ms[i]
  <2>2. IsHits(h) /\ h \subseteq H
    BY <1>6, <1>7
  <2>3. got = queryFTSIndex(h, limit, q.minScore) /\ g = {x \in h : x.score >= q.minScore}
    BY <2>1
  <2> HIDE DEF h, g, got
  <2>4. Best(got, g, limit)
    BY <1>1, <1>4, <2>2, <2>3, IndexAnswersBest
  <2>5. got \in Seq(g) /\ Ranked(got) /\ g \subseteq H
    BY <2>2, <2>3, <2>4 DEF Best
  <2>6. got \in Seq(H) /\ ToSet(got) \subseteq g
    BY <2>5 DEF ToSet
  <2> QED BY <2>4, <2>5, <2>6 DEF got, g
<1>10. ms = [i \in 1..n |-> ms[i]]
  BY <1>5
<1> HIDE DEF ms
<1>11. \A i, j \in 1..n : i # j => ToSet(ms[i]) \cap ToSet(ms[j]) = {}
  <2> SUFFICES ASSUME NEW i \in 1..n, NEW j \in 1..n, i # j, NEW x \in ToSet(ms[i]), x \in ToSet(ms[j]) PROVE FALSE
    OBVIOUS
  <2>1. x \in hits[idx[i]] /\ x \in hits[idx[j]]
    BY <1>9
  <2>2. x.kind = idx[i] /\ x.kind = idx[j]
    BY <2>1, <1>6
  <2> QED BY <2>2, <1>2, <1>5 DEF Injective
<1> DEFINE cat == FlattenSeq(ms)
<1>12. cat \in Seq(H) /\ Injective(cat) /\ ToSet(cat) = UNION {ToSet(ms[i]) : i \in 1..n}
  <2>1. \A i \in 1..n : ms[i] \in Seq(H) /\ Injective(ms[i])
    BY <1>9, RankedIsInjective
  <2>2. Separate(ms, n, H)
    BY <1>10, <1>11, <2>1 DEF Separate
  <2>3. Joined(FlattenSeq(ms), ms, n, H)
    BY <1>2, <2>2, Gathered
  <2> QED BY <2>3 DEF Joined
<1> HIDE DEF cat
<1>13. all \in Seq(H) /\ Ranked(all) /\ ToSet(all) = UNION {ToSet(ms[i]) : i \in 1..n}
  <2>1. mergeRanked(cat) \in Seq(H) /\ Ranked(mergeRanked(cat)) /\ ToSet(mergeRanked(cat)) = ToSet(cat)
    BY <1>8, <1>12, MergeRanks
  <2> QED BY <2>1, <1>12 DEF cat
<1> HIDE DEF all
<1>14. recent \in Seq(H) /\ Ranked(recent) /\ ToSet(recent) = ToSet(all) \cap new
  BY <1>13, WithinRanked
<1> HIDE DEF recent
<1>15. ToSet(recent) \subseteq wanted
  <2> SUFFICES ASSUME NEW x \in ToSet(recent) PROVE x \in wanted
    OBVIOUS
  <2>1. x \in new /\ x \in ToSet(all)
    BY <1>14
  <2>2. PICK i \in 1..n : x \in ToSet(ms[i])
    BY <2>1, <1>13
  <2>3. x \in hits[idx[i]] /\ x.score >= q.minScore
    BY <2>2, <1>9
  <2> QED BY <2>1, <2>3, <1>7
<1>16. CutsLate(wanted, recent, q.topK)
  <2> SUFFICES ASSUME NEW y \in wanted \ ToSet(recent)
               PROVE  \E M \in SUBSET ToSet(recent) : Cardinality(M) >= q.topK /\ \A z \in M : ~ranksBefore(y, z)
    BY DEF CutsLate
  <2>1. PICK i \in 1..n : y \in hits[idx[i]]
    BY <1>7
  <2>2. y \in good(i)
    BY <2>1
  <2>3. y \notin ToSet(ms[i])
    <3> SUFFICES ASSUME y \in ToSet(ms[i]) PROVE FALSE
      OBVIOUS
    <3>1. y \in ToSet(all)
      BY <1>13
    <3>2. y \in new
      BY <3>1
    <3> QED BY <3>1, <3>2, <1>14
  <2> DEFINE M == ToSet(ms[i])
             h == hits[idx[i]]
  <2>4. Len(ms[i]) = limit /\ (\A z \in M : ~ranksBefore(y, z)) /\ M \subseteq h
    BY <1>9, <2>2, <2>3 DEF Best
  <2>5. IsFiniteSet(M) /\ Cardinality(M) = limit
    BY <1>9, <2>4, RankedCounts
  <2>6. CASE q.cutoff = 0
    <3>1. M \subseteq ToSet(recent)
      <4> SUFFICES ASSUME NEW z \in M PROVE z \in ToSet(recent)
        OBVIOUS
      <4>1. z \in ToSet(all)
        BY <1>13
      <4>2. z \in H
        BY <2>4, <1>7
      <4>3. z.at >= q.cutoff
        BY <4>2, <2>6, <1>8
      <4>4. z \in new
        BY <4>1, <4>3
      <4> QED BY <4>1, <4>4, <1>14
    <3> HIDE DEF M
    <3> QED BY <3>1, <2>4, <2>5, <1>4, <1>1
  <2>7. CASE Cardinality({x \in H : x.kind = idx[i]}) <= limit
    <3> DEFINE K == {x \in H : x.kind = idx[i]}
    <3>1. IsFiniteSet(K)
      <4>1. K \in SUBSET H /\ IsFiniteSet(H)
        BY <1>8 DEF IsHits
      <4> QED BY <4>1, FS_Subset
    <3>2. M \cup {y} \in SUBSET K
      <4>1. h \subseteq K
        BY <1>6, <1>7
      <4> QED BY <4>1, <2>1, <2>4
    <3>3. Cardinality(K) <= limit
      BY <2>7
    <3>4. y \notin M
      BY <2>3
    <3> HIDE DEF K, M
    <3>5. Cardinality(M \cup {y}) = limit + 1
      BY <3>4, <2>5, FS_AddElement
    <3>6. Cardinality(M \cup {y}) <= Cardinality(K)
      BY <3>1, <3>2, FS_Subset
    <3>7. Cardinality(K) \in Nat
      BY <3>1, FS_CardinalityType
    <3> QED BY <3>3, <3>5, <3>6, <3>7, <1>4
  <2>8. q.cutoff = 0 \/ Cardinality({x \in H : x.kind = idx[i]}) <= limit
    BY <1>5 DEF Kinds3, limit
  <2> QED BY <2>6, <2>7, <2>8
<1>17. wanted \in SUBSET H
  OBVIOUS
<1> HIDE DEF wanted
<1>18. IsTheBest(takenFrom(recent, q.topK, q.maxTokens).matches, wanted, q.topK, q.maxTokens)
  BY <1>1, <1>8, <1>14, <1>15, <1>16, <1>17, TheBestAreTaken
<1> QED BY <1>3, <1>18 DEF wanted

-----------------------------------------------------------------------------
(***************************************************************************)
(* Extraction: the tables follow the candidates file.                      *)
(***************************************************************************)
Kinds == {"commit-pattern", "file-sequence", "tool-sequence"}
RowFields == {"kind", "frequency", "score", "first", "last"}

Says(row, c) == row.frequency = c.frequency /\ row.score = c.score

\* Every row is a row, and some file said what it says.
Backed ==
  \A sig \in DOMAIN patterns :
    /\ DOMAIN patterns[sig] = RowFields
    /\ \E c \in published : c.signature = sig /\ Says(patterns[sig], c)

Alone(c) == \A d \in extract.mined : d.signature = c.signature => d = c

Rowed(c) ==
  /\ c.signature \in DOMAIN patterns
  /\ Alone(c) => Says(patterns[c.signature], c)

Audited(c) ==
  \E a \in audit : a.created = now /\ a.signature = c.signature /\ a.contexts = c.contexts /\ a.score = c.score

\* What is left to persist, and what is not, at each point of an extract.
Persisting ==
  /\ DOMAIN extract = {"pc", "window", "readable", "mined", "left"}
  /\ extract.pc \in {"idle", "mined", "upsert", "insert", "ended", "killed"}
  /\ extract.left \subseteq extract.mined
  /\ \A c \in extract.mined : c.kind \in Kinds
  /\ At("mined") => extract.left = extract.mined
  /\ extract.pc \in {"upsert", "insert", "ended"} =>
       /\ file = extract.mined /\ extract.mined \subseteq published
       /\ \A c \in extract.mined \ extract.left : Rowed(c) /\ Audited(c)
  /\ At("insert") => extract.left # {} /\ Rowed(nextCandidate)
  /\ At("ended") => extract.left = {}

IInv == Backed /\ Persisting

LEMMA MinedKinds ==
  ASSUME NEW h, NEW readable, NEW windowStart, NEW time
  PROVE  \A c \in mined(h, readable, windowStart, time) : c.kind \in Kinds
<1>1. ASSUME NEW kind, NEW sources PROVE \A c \in mineKind(kind, sources) : c.kind = kind
  <2>1. \A sig, acc, maxCount : patternCandidate(kind, sig, acc, maxCount).kind = kind
    BY DEF patternCandidate
  <2> QED
    BY <2>1 DEF mineKind
<1> QED
  BY <1>1 DEF mined, Kinds

\* The file is ordered by kind first, so what is left has a next candidate.
LEMMA NextIsLeft ==
  ASSUME Persisting, extract.left # {}
  PROVE  nextCandidate \in extract.left
<1>1. kindRank["commit-pattern"] = 1 /\ kindRank["file-sequence"] = 2 /\ kindRank["tool-sequence"] = 3
  BY DEF kindRank
<1>2. \A c \in extract.left : c.kind \in Kinds
  BY DEF Persisting
<1>3. \E c \in extract.left : \A d \in extract.left : kindRank[c.kind] <= kindRank[d.kind]
  <2>1. CASE \E c \in extract.left : c.kind = "commit-pattern"
    BY <1>1, <1>2, <2>1 DEF Kinds
  <2>2. CASE (\A c \in extract.left : c.kind # "commit-pattern") /\ \E c \in extract.left : c.kind = "file-sequence"
    BY <1>1, <1>2, <2>2 DEF Kinds
  <2>3. CASE \A c \in extract.left : c.kind # "commit-pattern" /\ c.kind # "file-sequence"
    BY <1>1, <1>2, <2>3 DEF Kinds
  <2> QED
    BY <2>1, <2>2, <2>3
<1> QED
  BY <1>3 DEF nextCandidate

LEMMA Upserts ==
  ASSUME Backed, NEW c
  PROVE  /\ DOMAIN upserted(c) = DOMAIN patterns \cup {c.signature}
         /\ \A sig \in DOMAIN patterns \ {c.signature} : upserted(c)[sig] = patterns[sig]
         /\ DOMAIN upserted(c)[c.signature] = RowFields
         /\ Says(upserted(c)[c.signature], c)
<1>1. CASE c.signature \in DOMAIN patterns
  <2>1. DOMAIN patterns[c.signature] = RowFields
    BY <1>1 DEF Backed
  <2> QED
    BY <1>1, <2>1 DEF upserted, Says, RowFields
<1>2. CASE c.signature \notin DOMAIN patterns
  BY <1>2 DEF upserted, Says, RowFields
<1> QED
  BY <1>1, <1>2

LEMMA InitStep == Init => IInv
BY DEF Init, IInv, Backed, Persisting, Idle, At

LEMMA MineStep ==
  ASSUME IInv, Mine
  PROVE  IInv'
<1>1. PICK window \in Windows, readable \in {{"transcripts", "specs", "git"}, {"transcripts", "git"}} :
        LET got == mined(history[1], readable, window, now) IN
        extract' = [pc |-> "mined", window |-> window, readable |-> readable, mined |-> got, left |-> got]
  BY DEF Mine
<1> DEFINE got == mined(history[1], readable, window, now)
<1>2. \A c \in got : c.kind \in Kinds
  BY MinedKinds
<1> HIDE DEF got
<1>3. extract' = [pc |-> "mined", window |-> window, readable |-> readable, mined |-> got, left |-> got]
  BY <1>1 DEF got
<1>4. Persisting'
  BY <1>2, <1>3 DEF Persisting, At
<1>5. Backed'
  BY DEF Mine, IInv, Backed, Says
<1> QED
  BY <1>4, <1>5 DEF IInv

LEMMA WriteStep ==
  ASSUME IInv, writeCandidatesFile
  PROVE  IInv'
<1>1. /\ extract.pc = "mined" /\ extract' = [extract EXCEPT !.pc = "upsert"]
      /\ file' = extract.mined /\ published' = published \cup extract.mined /\ patterns' = patterns
  BY DEF writeCandidatesFile, At
<1>2. /\ DOMAIN extract' = DOMAIN extract /\ extract'.pc = "upsert"
      /\ extract'.mined = extract.mined /\ extract'.left = extract.left
  BY <1>1 DEF IInv, Persisting
<1>3. Persisting'
  BY <1>1, <1>2 DEF IInv, Persisting, At
<1>4. Backed'
  BY <1>1 DEF IInv, Backed, Says
<1> QED
  BY <1>3, <1>4 DEF IInv

LEMMA UpsertStep ==
  ASSUME IInv, upsertPattern
  PROVE  IInv'
<1> DEFINE c == nextCandidate
<1>1. /\ extract.pc = "upsert" /\ extract.left # {} /\ extract' = [extract EXCEPT !.pc = "insert"]
      /\ patterns' = upserted(c) /\ UNCHANGED <<now, file, audit, published>>
  BY DEF upsertPattern, At
<1>2. c \in extract.left /\ c \in extract.mined /\ c \in published
  BY <1>1, NextIsLeft DEF IInv, Persisting
<1>3. /\ DOMAIN extract' = DOMAIN extract /\ extract'.pc = "insert"
      /\ extract'.mined = extract.mined /\ extract'.left = extract.left
  BY <1>1 DEF IInv, Persisting
<1>4. c' = c
  BY <1>3 DEF nextCandidate
<1> HIDE DEF c
<1>5. /\ DOMAIN patterns' = DOMAIN patterns \cup {c.signature}
      /\ \A sig \in DOMAIN patterns \ {c.signature} : patterns'[sig] = patterns[sig]
      /\ DOMAIN patterns'[c.signature] = RowFields
      /\ Says(patterns'[c.signature], c)
  BY <1>1, Upserts DEF IInv
<1>6. Backed'
  <2> SUFFICES ASSUME NEW sig \in DOMAIN patterns'
               PROVE  /\ DOMAIN patterns'[sig] = RowFields
                      /\ \E d \in published : d.signature = sig /\ Says(patterns'[sig], d)
    BY <1>1 DEF Backed, Says
  <2>1. CASE sig = c.signature
    BY <1>2, <1>5, <2>1
  <2>2. CASE sig # c.signature
    BY <1>5, <2>2 DEF IInv, Backed
  <2> QED
    BY <2>1, <2>2
<1>7. Rowed(c)'
  BY <1>4, <1>5 DEF Rowed, Alone, Says
<1>8. ASSUME NEW d \in extract.mined \ extract.left PROVE Rowed(d)' /\ Audited(d)'
  <2>1. Rowed(d) /\ Audited(d)
    BY <1>1 DEF IInv, Persisting
  <2>2. Audited(d)'
    BY <1>1, <2>1 DEF Audited
  <2>3. Alone(d) => d.signature # c.signature
    BY <1>2 DEF Alone
  <2>4. Alone(d)' = Alone(d)
    BY <1>3 DEF Alone
  <2>5. Rowed(d)'
    BY <1>5, <2>1, <2>3, <2>4 DEF Rowed, Says
  <2> QED
    BY <2>2, <2>5
<1>9. Rowed(nextCandidate)'
  BY <1>7 DEF c
<1>10. Persisting'
  BY <1>1, <1>2, <1>3, <1>8, <1>9 DEF IInv, Persisting, At
<1> QED
  BY <1>6, <1>10 DEF IInv

LEMMA InsertStep ==
  ASSUME IInv, insertCandidate
  PROVE  IInv'
<1> DEFINE c == nextCandidate
<1>1. /\ extract.pc = "insert" /\ extract.left # {} /\ Rowed(c) /\ c \in extract.left
      /\ extract' = [extract EXCEPT !.pc = "upsert", !.left = @ \ {c}]
      /\ audit' = audit \cup {[signature |-> c.signature, contexts |-> c.contexts, score |-> c.score,
                               created |-> now]}
      /\ UNCHANGED <<now, file, patterns, published>>
  BY NextIsLeft DEF insertCandidate, At, IInv, Persisting
<1> HIDE DEF c
<1>2. /\ DOMAIN extract' = DOMAIN extract /\ extract'.pc = "upsert"
      /\ extract'.mined = extract.mined /\ extract'.left = extract.left \ {c}
  BY <1>1 DEF IInv, Persisting
<1>3. ASSUME NEW d \in extract.mined \ (extract.left \ {c}) PROVE Rowed(d)' /\ Audited(d)'
  <2>1. Rowed(d)
    BY <1>1 DEF IInv, Persisting
  <2>2. Rowed(d)'
    BY <1>1, <1>2, <2>1 DEF Rowed, Alone, Says
  <2>3. CASE d = c
    <3> DEFINE a == [signature |-> c.signature, contexts |-> c.contexts, score |-> c.score,
                     created |-> now]
    <3>1. a \in audit' /\ now' = now
      BY <1>1
    <3>2. a.created = now /\ a.signature = c.signature /\ a.contexts = c.contexts /\ a.score = c.score
      OBVIOUS
    <3> HIDE DEF a
    <3> QED
      BY <2>2, <2>3, <3>1, <3>2 DEF Audited
  <2>4. CASE d # c
    <3>1. Audited(d)
      BY <1>1, <2>4 DEF IInv, Persisting
    <3>2. audit \subseteq audit' /\ now' = now
      BY <1>1
    <3> QED
      BY <2>2, <3>1, <3>2 DEF Audited
  <2> QED
    BY <2>2, <2>3, <2>4
<1>4. Persisting'
  BY <1>1, <1>2, <1>3 DEF IInv, Persisting, At
<1>5. Backed'
  BY <1>1 DEF IInv, Backed, Says
<1> QED
  BY <1>4, <1>5 DEF IInv

\* The steps that touch neither the file nor the tables.
LEMMA OtherSteps ==
  ASSUME IInv, allPersisted \/ Kill \/ Work \/ Recall \/ Similar
  PROVE  IInv'
<1>1. UNCHANGED <<now, file, patterns, audit, published>>
  BY DEF allPersisted, Kill, Work, Recall, Similar
<1>2. Backed'
  BY <1>1 DEF IInv, Backed, Says
<1>3. CASE extract' = extract
  <2>1. nextCandidate' = nextCandidate
    BY <1>3 DEF nextCandidate
  <2> QED
    BY <1>1, <1>2, <1>3, <2>1 DEF IInv, Persisting, At, Rowed, Alone, Audited, Says
<1>4. CASE allPersisted
  <2>1. /\ DOMAIN extract' = DOMAIN extract /\ extract'.pc = "ended" /\ extract.pc = "upsert"
        /\ extract'.mined = extract.mined /\ extract'.left = extract.left /\ extract.left = {}
    BY <1>4 DEF allPersisted, At, IInv, Persisting
  <2>2. \A c : (Rowed(c)' <=> Rowed(c)) /\ (Audited(c)' <=> Audited(c))
    BY <1>1, <2>1 DEF Rowed, Alone, Audited, Says
  <2> QED
    BY <1>1, <1>2, <2>1, <2>2 DEF IInv, Persisting, At
<1>5. CASE Kill \/ Work
  <2>1. extract' \in {Idle, [Idle EXCEPT !.pc = "killed"]}
    BY <1>5 DEF Kill, Work
  <2>2. Persisting'
    BY <2>1 DEF Persisting, Idle, At
  <2> QED
    BY <1>2, <2>2 DEF IInv
<1> QED
  BY <1>3, <1>4, <1>5 DEF Recall, Similar

THEOREM Inductive == Spec => []IInv
<1>1. Init => IInv
  BY InitStep
<1>2. IInv /\ [Next]_vars => IInv'
  <2> SUFFICES ASSUME IInv, [Next]_vars PROVE IInv'
    OBVIOUS
  <2>1. CASE UNCHANGED vars
    <3>1. UNCHANGED <<now, extract, file, patterns, audit, published>>
      BY <2>1 DEF vars
    <3>2. nextCandidate' = nextCandidate
      BY <3>1 DEF nextCandidate
    <3> QED
      BY <3>1, <3>2 DEF IInv, Backed, Says, Persisting, At, Rowed, Alone, Audited
  <2>2. CASE Next
    BY <2>2, MineStep, WriteStep, UpsertStep, InsertStep, OtherSteps DEF Next
  <2> QED
    BY <2>1, <2>2
<1> QED
  BY <1>1, <1>2, PTL DEF Spec

\* The tables follow the candidates file (TablesFollowTheFile), for any histories
\* and any extracts, killed or not: persistCandidates upserts a row and inserts an
\* audit entry for each candidate before it takes the next.
THEOREM TablesAlwaysFollow == Spec => []TablesFollowTheFile
<1>1. IInv => TablesFollowTheFile
  BY DEF IInv, Backed, Persisting, Says, Rowed, Alone, Audited, TablesFollowTheFile, At
<1> QED
  BY <1>1, Inductive, PTL

-----------------------------------------------------------------------------
(***************************************************************************)
(* Extraction: the answers of similar and recall.                          *)
(***************************************************************************)
PatternsIn(S, q) ==
  {[kind |-> "pattern", path |-> 0, id |-> sig, score |-> q.patternScore, len |-> 0, at |-> 0] : sig \in S}

Matched(S, q) == [skill |-> q.skills, memory |-> q.memories, pattern |-> PatternsIn(S, q)]

\* The answer to a recall over the patterns of S.
Recalled(a, S) ==
  /\ IsFiniteSet(S)
  /\ a.q \in RecallQueries
  /\ a.out = recallMatches(a.q, Matched(S, a.q))
  /\ a.hits = UNION {Matched(S, a.q)[indexesForKind(a.q.kind)[i]] : i \in DOMAIN indexesForKind(a.q.kind)}

\* The answer is what its operation gave; later extracts add patterns to those it was over.
Answered ==
  /\ IsFiniteSet(DOMAIN patterns)
  /\ answer.op = "similar" => answer.q \in SimilarQueries /\ answer.out = similar(answer.q, answer.q.skills)
  /\ answer.op = "recall" => \E S : Recalled(answer, S)

LEMMA PatternsMatch ==
  ASSUME NEW S, IsFiniteSet(S), NEW q, IsRecallQuery(q)
  PROVE  IsMatched(q, Matched(S, q))
<1> DEFINE hit(sig) == [kind |-> "pattern", path |-> 0, id |-> sig, score |-> q.patternScore, len |-> 0, at |-> 0]
           P == PatternsIn(S, q)
<1>1. P = {hit(sig) : sig \in S}
  BY DEF PatternsIn
<1>2. \A x \in P : \E sig \in S : x = hit(sig)
  BY <1>1
<1>3. \A sig \in S : hit(sig) \in P
  BY <1>1
<1>4. \A sig : /\ hit(sig).kind = "pattern" /\ hit(sig).path = 0 /\ hit(sig).len = 0
               /\ hit(sig).at = 0 /\ hit(sig).score = q.patternScore
  OBVIOUS
<1>5. Matched(S, q) = [skill |-> q.skills, memory |-> q.memories, pattern |-> P] /\ Matched(S, q)["pattern"] = P
  BY DEF Matched
<1> DEFINE f == [sig \in S |-> hit(sig)]
<1>6. f \in [S -> P] /\ \A y \in P : \E sig \in S : f[sig] = y
  BY <1>2, <1>3
<1> HIDE DEF P, hit, f
<1>7. IsFiniteSet(P)
  BY <1>6, ImageFinite
<1>8. q.patternScore \in Int
  BY DEF IsRecallQuery
<1>9. \A x \in P : x.kind = "pattern" /\ x.path = 0 /\ x.len = 0 /\ x.at = 0 /\ x.score = q.patternScore
  BY <1>2, <1>4
<1>10. IsHits(P)
  BY <1>7, <1>8, <1>9 DEF IsHits
<1> DEFINE hits == Matched(S, q)
<1>11. \E X : hits = [skill |-> q.skills, memory |-> q.memories, pattern |-> X]
  BY <1>5
<1>12. hits["pattern"] = P
  BY <1>5
<1> HIDE DEF hits
<1>13. \A x \in hits["pattern"] : x.kind = "pattern" /\ x.len \in Nat /\ x.at \in Nat
  BY <1>9, <1>12
<1>14. IsMatched(q, hits)
  BY <1>10, <1>11, <1>12, <1>13 DEF IsMatched
<1> QED BY <1>14 DEF hits

LEMMA RecallAnswersTheBest ==
  ASSUME answer.op = "recall" => \E S : Recalled(answer, S)
  PROVE  RecallReturnsTheBest
<1> DEFINE q == answer.q
           out == answer.out
           H == answer.hits
           wanted == {x \in H : x.score >= q.minScore /\ (x.kind = "pattern" \/ x.at >= q.cutoff)}
           unlimited == \A kind \in {"skill", "memory", "pattern"} :
                          Cardinality({x \in H : x.kind = kind}) <= perIndexLimit(q.topK)
<1>1. SUFFICES ASSUME answer.op = "recall", q.cutoff = 0 \/ unlimited
               PROVE  IsTheBest(out, wanted, q.topK, q.maxTokens)
  BY DEF RecallReturnsTheBest, IsTheBest
<1>2. PICK S : Recalled(answer, S)
  BY <1>1
<1> DEFINE hits == Matched(S, q)
<1>3. IsFiniteSet(S) /\ IsRecallQuery(q)
  BY <1>2, QueriesAssumption DEF Recalled
<1>4. out = recallMatches(q, hits) /\ H = UNION {hits[indexesForKind(q.kind)[i]] : i \in DOMAIN indexesForKind(q.kind)}
  BY <1>2 DEF Recalled
<1>5. IsMatched(q, hits)
  BY <1>3, PatternsMatch
<1>6. q.cutoff = 0 \/ \A kind \in {"skill", "memory", "pattern"} :
                        Cardinality({x \in H : x.kind = kind}) <= perIndexLimit(q.topK)
  BY <1>1
<1> HIDE DEF hits, q, out, H
<1>7. IsTheBest(recallMatches(q, hits), wanted, q.topK, q.maxTokens)
  BY <1>4, <1>5, <1>6, RecallAnswersBest
<1> QED BY <1>4, <1>7

LEMMA AnsweredFirst == Init => Answered
<1> SUFFICES ASSUME Init PROVE Answered
  OBVIOUS
<1>1. DOMAIN patterns = {} /\ answer.op = "none"
  BY DEF Init, NoAnswer
<1> QED BY <1>1, FS_EmptySet DEF Answered

LEMMA AnsweredNext ==
  ASSUME Answered, [Next]_vars
  PROVE  Answered'
<1>1. CASE answer' = answer /\ patterns' = patterns
  BY <1>1 DEF Answered, Recalled
<1>2. CASE answer' = NoAnswer /\ patterns' = patterns
  <2>1. answer'.op = "none"
    BY <1>2 DEF NoAnswer
  <2> QED BY <1>2, <2>1 DEF Answered
<1>3. CASE upsertPattern
  <2> DEFINE sig == nextCandidate.signature
  <2>1. DOMAIN patterns' = DOMAIN patterns \cup {sig} /\ answer' = answer
    BY <1>3 DEF upsertPattern, upserted
  <2> HIDE DEF sig
  <2>2. IsFiniteSet(DOMAIN patterns')
    <3>1. IsFiniteSet(DOMAIN patterns)
      BY DEF Answered
    <3> QED BY <2>1, <3>1, FS_AddElement
  <2> QED BY <2>1, <2>2 DEF Answered, Recalled
<1>4. CASE Recall
  <2>1. PICK q \in RecallQueries :
          LET hits == [skill |-> q.skills, memory |-> q.memories, pattern |-> patternHits(q)] IN
          answer' = [op |-> "recall", q |-> q, out |-> recallMatches(q, hits),
                     hits |-> UNION {hits[indexesForKind(q.kind)[i]] : i \in DOMAIN indexesForKind(q.kind)}]
    BY <1>4 DEF Recall
  <2> DEFINE S == DOMAIN patterns
             hits == [skill |-> q.skills, memory |-> q.memories, pattern |-> patternHits(q)]
             among == UNION {hits[indexesForKind(q.kind)[i]] : i \in DOMAIN indexesForKind(q.kind)}
  <2>2. hits = Matched(S, q)
    BY DEF Matched, PatternsIn, patternHits
  <2>3. IsFiniteSet(S) /\ patterns' = patterns
    BY <1>4 DEF Answered, Recall
  <2>4. answer' = [op |-> "recall", q |-> q, out |-> recallMatches(q, hits), hits |-> among]
    BY <2>1
  <2>5. among = UNION {Matched(S, q)[indexesForKind(q.kind)[i]] : i \in DOMAIN indexesForKind(q.kind)}
    BY <2>2
  <2> HIDE DEF hits, among, S
  <2>6. answer'.op = "recall" /\ answer'.q = q /\ answer'.out = recallMatches(q, hits) /\ answer'.hits = among
    BY <2>4
  <2>7. Recalled(answer', S)
    BY <2>2, <2>3, <2>5, <2>6 DEF Recalled
  <2>8. IsFiniteSet(DOMAIN patterns')
    BY <2>3 DEF S
  <2> QED BY <2>6, <2>7, <2>8 DEF Answered, Recalled
<1>5. CASE Similar
  <2>1. PICK q \in SimilarQueries :
          answer' = [op |-> "similar", q |-> q, hits |-> q.skills, out |-> similar(q, q.skills)]
    BY <1>5 DEF Similar
  <2>2. answer'.op = "similar" /\ answer'.q = q /\ answer'.out = similar(q, q.skills) /\ patterns' = patterns
    BY <2>1, <1>5 DEF Similar
  <2> QED BY <2>2 DEF Answered
<1> QED BY <1>1, <1>2, <1>3, <1>4, <1>5
        DEF Next, vars, Mine, writeCandidatesFile, insertCandidate, allPersisted, Kill, Work

LEMMA AlwaysAnswered == Spec => []Answered
BY AnsweredFirst, AnsweredNext, PTL DEF Spec

\* similar answers with the top-k other skills and their exact edit distances
\* (SimilarIsExact), for any queries: the one-row algorithm of levenshteinDistance
\* computes the recurrence, and excluding the target after the limit loses nothing,
\* as runSimilar asks for one more.
THEOREM SimilarAlwaysExact == Spec => []SimilarIsExact
<1>1. Answered => SimilarIsExact
  BY SimilarAnswersExactly DEF Answered
<1> QED BY <1>1, AlwaysAnswered, PTL

\* recall answers with the best matches of all indexes (RecallReturnsTheBest), for
\* any queries and any patterns: the limit of an index is no smaller than top-k
\* (perIndexLimit), so what it cuts off would not have been taken.
THEOREM RecallAlwaysBest == Spec => []RecallReturnsTheBest
<1>1. Answered => RecallReturnsTheBest
  BY RecallAnswersTheBest DEF Answered
<1> QED BY <1>1, AlwaysAnswered, PTL

-----------------------------------------------------------------------------
(***************************************************************************)
(* Extraction: sequences that list a set in some order.                    *)
(***************************************************************************)
\* u lists A in the order R, a set of pairs, and s is what f says of it.
TracedBy(u, s, A, f, R) ==
  /\ IsSeq(s) /\ u \in [1..Len(s) -> A]
  /\ \A i, j \in 1..Len(s) : i < j => <<u[i], u[j]>> \in R
  /\ \A a \in A : \E i \in 1..Len(s) : u[i] = a
  /\ \A i \in 1..Len(s) : s[i] = f[u[i]]

Traces(s, A, f, R) == \E u : TracedBy(u, s, A, f, R)

Asymmetric(A, R) == \A a, b \in A : <<a, b>> \in R => <<b, a>> \notin R

\* Pairs of A and a place, by the order of A and then by place.
Lex(A, R) ==
  {p \in (A \X Nat) \X (A \X Nat) :
     <<p[1][1], p[2][1]>> \in R \/ (p[1][1] = p[2][1] /\ p[1][2] < p[2][2])}

\* An element's place in the list is one more than the number of those before it.
LEMMA RankOf ==
  ASSUME NEW A, NEW R, Asymmetric(A, R), NEW n \in Nat, NEW u \in [1..n -> A],
         \A i, j \in 1..n : i < j => <<u[i], u[j]>> \in R,
         \A a \in A : \E i \in 1..n : u[i] = a
  PROVE  /\ IsFiniteSet(A) /\ Cardinality(A) = n
         /\ \A i, j \in 1..n : u[i] = u[j] => i = j
         /\ \A i \in 1..n : Cardinality({w \in A : <<w, u[i]>> \in R}) = i - 1
<1>1. \A i, j \in 1..n : u[i] = u[j] => i = j
  <2> SUFFICES ASSUME NEW i \in 1..n, NEW j \in 1..n, u[i] = u[j], i < j PROVE FALSE
    OBVIOUS
  <2>1. <<u[i], u[i]>> \in R /\ u[i] \in A
    BY Zenon
  <2> QED BY <2>1 DEF Asymmetric
<1>2. ASSUME NEW i \in 0..n PROVE IsFiniteSet({u[j] : j \in 1..i}) /\ Cardinality({u[j] : j \in 1..i}) = i
  <2> DEFINE B == {u[j] : j \in 1..i}
             g == [j \in 1..i |-> u[j]]
  <2>1. \A j \in 1..i : j \in 1..n
    OBVIOUS
  <2>2. g \in [1..i -> B] /\ (\A j, k \in 1..i : g[j] = g[k] => j = k) /\ \A b \in B : \E j \in 1..i : g[j] = b
    BY <1>1, <2>1
  <2> HIDE DEF B, g
  <2>3. ExistsBijection(1..i, B)
    BY <2>2 DEF ExistsBijection, Bijection, Injection, Surjection, IsInjective
  <2>4. Cardinality(B) = i
    BY <2>3, FS_CountingElements, i \in Nat
  <2>5. IsFiniteSet(1..i)
    BY FS_Interval, 1 \in Int, i \in Int, Zenon
  <2>6. IsFiniteSet(B)
    BY <2>3, <2>5, FS_Bijection, Zenon
  <2> QED BY <2>4, <2>6 DEF B
<1>3. A = {u[j] : j \in 1..n} /\ n \in 0..n
  OBVIOUS
<1>4. ASSUME NEW i \in 1..n PROVE Cardinality({w \in A : <<w, u[i]>> \in R}) = i - 1
  <2>1. ASSUME NEW j \in 1..n PROVE <<u[j], u[i]>> \in R <=> j < i
    <3>1. CASE j < i
      BY <3>1, Zenon
    <3>2. CASE j = i
      BY <3>2 DEF Asymmetric
    <3>3. CASE i < j
      <4>1. <<u[i], u[j]>> \in R /\ u[i] \in A /\ u[j] \in A
        BY <3>3, Zenon
      <4> QED BY <4>1, <3>3 DEF Asymmetric
    <3> QED BY <3>1, <3>2, <3>3
  <2>2. \A j \in 1..n : j < i <=> j \in 1..(i - 1)
    OBVIOUS
  <2>3. \A j \in 1..(i - 1) : j \in 1..n
    OBVIOUS
  <2>4. {w \in A : <<w, u[i]>> \in R} = {u[j] : j \in 1..(i - 1)}
    BY <1>3, <2>1, <2>2, <2>3
  <2> QED BY <2>4, <1>2, i - 1 \in 0..n
<1> QED BY <1>1, <1>2, <1>3, <1>4

LEMMA TraceRanks ==
  ASSUME NEW u, NEW s, NEW A, NEW f, NEW R, Asymmetric(A, R), TracedBy(u, s, A, f, R), Len(s) \in Nat
  PROVE  /\ Cardinality(A) = Len(s)
         /\ \A i, j \in 1..Len(s) : u[i] = u[j] => i = j
         /\ \A i \in 1..Len(s) : Cardinality({w \in A : <<w, u[i]>> \in R}) = i - 1
<1> DEFINE n == Len(s)
<1>1. /\ u \in [1..n -> A]
      /\ \A i, j \in 1..n : i < j => <<u[i], u[j]>> \in R
      /\ \A a \in A : \E i \in 1..n : u[i] = a
  BY DEF TracedBy
<1>2. n \in Nat
  OBVIOUS
<1> HIDE DEF n
<1>3. /\ Cardinality(A) = n
      /\ \A i, j \in 1..n : u[i] = u[j] => i = j
      /\ \A i \in 1..n : Cardinality({w \in A : <<w, u[i]>> \in R}) = i - 1
  BY <1>1, <1>2, RankOf, SMTT(30)
<1> QED BY <1>3 DEF n

\* Two sequences that say the same of the same list are equal.
LEMMA SameTrace ==
  ASSUME NEW s, NEW t, NEW A, NEW f, NEW g, NEW R, Asymmetric(A, R),
         Traces(s, A, f, R), Traces(t, A, g, R), \A a \in A : f[a] = g[a]
  PROVE  s = t
<1>1. PICK u : TracedBy(u, s, A, f, R)
  BY DEF Traces
<1>2. PICK v : TracedBy(v, t, A, g, R)
  BY DEF Traces
<1>3. Len(s) \in Nat /\ Len(t) \in Nat /\ s = [i \in 1..Len(s) |-> s[i]] /\ t = [i \in 1..Len(t) |-> t[i]]
  <2>1. IsSeq(s) /\ IsSeq(t)
    BY <1>1, <1>2 DEF TracedBy
  <2>2. s \in Seq(ToSet(s)) /\ t \in Seq(ToSet(t))
    BY <2>1 DEF IsSeq
  <2> QED BY <2>2
<1>4. /\ Cardinality(A) = Len(s)
      /\ \A i, j \in 1..Len(s) : u[i] = u[j] => i = j
      /\ \A i \in 1..Len(s) : Cardinality({w \in A : <<w, u[i]>> \in R}) = i - 1
  BY <1>1, <1>3, TraceRanks
<1>5. /\ Cardinality(A) = Len(t)
      /\ \A i \in 1..Len(t) : Cardinality({w \in A : <<w, v[i]>> \in R}) = i - 1
  BY <1>2, <1>3, TraceRanks
<1>6. Len(s) = Len(t)
  BY <1>4, <1>5
<1>7. ASSUME NEW i \in 1..Len(s) PROVE s[i] = t[i]
  <2>1. v[i] \in A /\ t[i] = g[v[i]]
    BY <1>2, <1>6 DEF TracedBy
  <2>2. PICK j \in 1..Len(s) : u[j] = v[i]
    BY <1>1, <2>1 DEF TracedBy
  <2>3. j - 1 = i - 1
    BY <1>4, <1>5, <1>6, <2>2
  <2>4. j = i
    BY <2>3, <1>3
  <2>5. s[i] = f[v[i]]
    BY <1>1, <2>2, <2>4 DEF TracedBy
  <2> QED BY <2>1, <2>5
<1> QED BY <1>3, <1>6, <1>7

LEMMA ConcatTraces ==
  ASSUME NEW s, NEW t, NEW A, NEW B, NEW f, NEW R,
         Traces(s, A, f, R), Traces(t, B, f, R), \A a \in A, b \in B : <<a, b>> \in R
  PROVE  Traces(s \o t, A \cup B, f, R)
<1>1. PICK u : TracedBy(u, s, A, f, R)
  BY DEF Traces
<1>2. PICK v : TracedBy(v, t, B, f, R)
  BY DEF Traces
<1> DEFINE l == Len(s)
           n == Len(t)
           r == s \o t
           w == [i \in 1..(l + n) |-> IF i <= l THEN u[i] ELSE v[i - l]]
<1>3. IsSeq(s) /\ IsSeq(t)
  BY <1>1, <1>2 DEF TracedBy
<1>4. l \in Nat /\ n \in Nat /\ s \in Seq(ToSet(s)) /\ t \in Seq(ToSet(t))
  BY <1>3, InSeq
<1>5. IsSeq(r)
  BY <1>3, ConcatIsSeq
<1>6. Len(r) = l + n /\ (\A i \in 1..l : r[i] = s[i]) /\ \A i \in 1..n : r[l + i] = t[i]
  <2>1. s \in Seq(ToSet(s) \cup ToSet(t)) /\ t \in Seq(ToSet(s) \cup ToSet(t))
    BY <1>4
  <2> QED BY <2>1
<1> HIDE DEF l, n, r
<1>7. /\ u \in [1..l -> A] /\ v \in [1..n -> B]
      /\ \A i, j \in 1..l : i < j => <<u[i], u[j]>> \in R
      /\ \A i, j \in 1..n : i < j => <<v[i], v[j]>> \in R
      /\ \A a \in A : \E i \in 1..l : u[i] = a
      /\ \A b \in B : \E i \in 1..n : v[i] = b
      /\ \A i \in 1..l : s[i] = f[u[i]]
      /\ \A i \in 1..n : t[i] = f[v[i]]
  BY <1>1, <1>2 DEF TracedBy, l, n
<1>8. /\ \A i \in 1..l : i \in 1..(l + n) /\ w[i] = u[i]
      /\ \A i \in 1..n : l + i \in 1..(l + n) /\ w[l + i] = v[i]
      /\ \A i \in 1..(l + n) : i \in 1..l \/ (i - l \in 1..n /\ i = l + (i - l))
  <2>1. \A i \in 1..n : ~(l + i <= l) /\ (l + i) - l = i /\ l + i \in 1..(l + n)
    BY <1>4
  <2>2. \A i \in 1..l : i <= l /\ i \in 1..(l + n)
    BY <1>4
  <2>3. \A i \in 1..(l + n) : i \in 1..l \/ (i - l \in 1..n /\ i = l + (i - l))
    BY <1>4
  <2> QED BY <2>1, <2>2, <2>3
<1>9. DOMAIN w = 1..(l + n) /\ w = [i \in 1..(l + n) |-> w[i]]
  OBVIOUS
<1> HIDE DEF w
<1>10. \A i \in 1..(l + n) : w[i] \in A \cup B /\ r[i] = f[w[i]]
  <2> SUFFICES ASSUME NEW i \in 1..(l + n) PROVE w[i] \in A \cup B /\ r[i] = f[w[i]]
    OBVIOUS
  <2>1. CASE i \in 1..l
    BY <2>1, <1>6, <1>7, <1>8
  <2>2. CASE i - l \in 1..n /\ i = l + (i - l)
    <3>1. w[i] = v[i - l] /\ r[i] = t[i - l]
      BY <2>2, <1>6, <1>8
    <3> QED BY <3>1, <2>2, <1>7
  <2> QED BY <2>1, <2>2, <1>8
<1>11. ASSUME NEW i \in 1..(l + n), NEW j \in 1..(l + n), i < j PROVE <<w[i], w[j]>> \in R
  <2>1. CASE i \in 1..l /\ j \in 1..l
    BY <2>1, <1>7, <1>8, <1>11
  <2>2. CASE i \in 1..l /\ j - l \in 1..n /\ j = l + (j - l)
    <3>1. w[i] = u[i] /\ w[j] = v[j - l] /\ u[i] \in A /\ v[j - l] \in B
      BY <2>2, <1>7, <1>8
    <3> QED BY <3>1
  <2>3. CASE i - l \in 1..n /\ i = l + (i - l) /\ j - l \in 1..n /\ j = l + (j - l)
    <3>1. i - l < j - l
      BY <1>4, <1>11
    <3>2. w[i] = v[i - l] /\ w[j] = v[j - l]
      BY <2>3, <1>8
    <3> QED BY <3>1, <3>2, <2>3, <1>7
  <2>4. ~(i - l \in 1..n /\ j \in 1..l)
    BY <1>4, <1>11
  <2> QED BY <2>1, <2>2, <2>3, <2>4, <1>8
<1>12. \A c \in A \cup B : \E i \in 1..(l + n) : w[i] = c
  BY <1>7, <1>8
<1>13. w \in [1..(l + n) -> A \cup B]
  BY <1>9, <1>10
<1>14. TracedBy(w, r, A \cup B, f, R)
  BY <1>5, <1>6, <1>10, <1>11, <1>12, <1>13 DEF TracedBy
<1> QED BY <1>14 DEF Traces, r

LEMMA NothingTraces == ASSUME NEW f, NEW R PROVE Traces(<<>>, {}, f, R)
<1> DEFINE e == <<>>
<1>1. IsSeq(e) /\ Len(e) = 0
  BY NothingIsSeq
<1>2. 1..0 = {} /\ e \in [1..0 -> {}]
  OBVIOUS
<1> HIDE DEF e
<1>3. TracedBy(e, e, {}, f, R)
  BY <1>1, <1>2 DEF TracedBy
<1> QED BY <1>3 DEF Traces, e

LEMMA OneTraces == ASSUME NEW x, NEW a, NEW f, f[a] = x, NEW R PROVE Traces(<<x>>, {a}, f, R)
<1> DEFINE e == <<x>>
           u == [i \in 1..1 |-> a]
<1>1. IsSeq(e) /\ Len(e) = 1 /\ e[1] = x
  BY ShortSeqs
<1>2. 1 \in 1..1 /\ u \in [1..1 -> {a}] /\ u[1] = a /\ \A i \in 1..1 : i = 1
  OBVIOUS
<1> HIDE DEF e, u
<1>3. TracedBy(u, e, {a}, f, R)
  BY <1>1, <1>2 DEF TracedBy
<1> QED BY <1>3 DEF Traces, e

\* A sequence lists its own indices.
LEMMA OwnTrace == ASSUME NEW s, IsSeq(s) PROVE Traces(s, DOMAIN s, s, Smaller)
<1> DEFINE u == [i \in 1..Len(s) |-> i]
<1>1. Len(s) \in Nat /\ DOMAIN s = 1..Len(s)
  BY InSeq
<1>2. u \in [1..Len(s) -> DOMAIN s] /\ \A i \in 1..Len(s) : u[i] = i
  BY <1>1
<1> HIDE DEF u
<1>3. \A i, j \in 1..Len(s) : i < j => <<i, j>> \in Smaller
  BY <1>1 DEF Smaller
<1>4. TracedBy(u, s, DOMAIN s, s, Smaller)
  BY <1>1, <1>2, <1>3 DEF TracedBy
<1> QED BY <1>4 DEF Traces

\* The same list told by another function, under other names and in a larger order.
LEMMA Renamed ==
  ASSUME NEW s, NEW t, NEW A, NEW B, NEW f, NEW g, NEW R, NEW Q, Traces(s, A, f, R),
         IsSeq(t), Len(t) = Len(s), NEW name \in [A -> B], \A b \in B : \E a \in A : name[a] = b,
         \A a, b \in A : <<a, b>> \in R => <<name[a], name[b]>> \in Q,
         \A i \in 1..Len(s), a \in A : s[i] = f[a] => t[i] = g[name[a]]
  PROVE  Traces(t, B, g, Q)
<1>1. PICK u : TracedBy(u, s, A, f, R)
  BY DEF Traces
<1> DEFINE n == Len(s)
           v == [i \in 1..n |-> name[u[i]]]
<1>2. /\ u \in [1..n -> A] /\ \A i, j \in 1..n : i < j => <<u[i], u[j]>> \in R
      /\ \A a \in A : \E i \in 1..n : u[i] = a
      /\ \A i \in 1..n : s[i] = f[u[i]]
  BY <1>1 DEF TracedBy
<1>3. Len(t) = n
  OBVIOUS
<1> HIDE DEF n
<1>4. v \in [1..n -> B] /\ \A i \in 1..n : v[i] = name[u[i]]
  BY <1>2
<1> HIDE DEF v
<1>5. \A i \in 1..n : u[i] \in A
  BY <1>2
<1>6. \A i, j \in 1..n : i < j => <<v[i], v[j]>> \in Q
  <2> SUFFICES ASSUME NEW i \in 1..n, NEW j \in 1..n, i < j PROVE <<v[i], v[j]>> \in Q
    OBVIOUS
  <2>1. <<u[i], u[j]>> \in R /\ u[i] \in A /\ u[j] \in A
    BY <1>2, <1>5
  <2>2. v[i] = name[u[i]] /\ v[j] = name[u[j]]
    BY <1>4
  <2> QED BY <2>1, <2>2
<1>7. \A b \in B : \E i \in 1..n : v[i] = b
  <2> SUFFICES ASSUME NEW b \in B PROVE \E i \in 1..n : v[i] = b
    OBVIOUS
  <2>1. PICK a \in A : name[a] = b
    OBVIOUS
  <2>2. PICK i \in 1..n : u[i] = a
    BY <1>2
  <2> QED BY <2>1, <2>2, <1>4
<1>8. \A i \in 1..n : t[i] = g[v[i]]
  BY <1>2, <1>4, <1>5 DEF n
<1>9. TracedBy(v, t, B, g, Q)
  BY <1>3, <1>4, <1>6, <1>7, <1>8 DEF TracedBy
<1> QED BY <1>9 DEF Traces

LEMMA PartTraces ==
  ASSUME NEW s, NEW A, NEW f, NEW R, NEW u, TracedBy(u, s, A, f, R), NEW p \in Nat, NEW q \in Nat, 1 <= p, q <= Len(s), p <= q + 1
  PROVE  Traces(SubSeq(s, p, q), {u[i] : i \in p..q}, f, R)
<1> DEFINE n == Len(s)
           t == SubSeq(s, p, q)
           B == {u[i] : i \in p..q}
           k == q - p + 1
           v == [i \in 1..k |-> u[p + i - 1]]
<1>1. s \in Seq(ToSet(s)) /\ n \in Nat
  BY InSeq DEF TracedBy
<1>2. k \in Nat /\ t \in Seq(ToSet(s)) /\ Len(t) = k /\ \A i \in 1..k : t[i] = s[p + i - 1]
  BY <1>1
<1>3. IsSeq(t)
  BY <1>2, SeqIsSeq
<1>4. \A i \in 1..k : p + i - 1 \in p..q /\ p + i - 1 \in 1..n
  BY <1>1
<1>5. v \in [1..k -> B] /\ \A i \in 1..k : v[i] = u[p + i - 1]
  BY <1>4
<1>6. \A b \in B : \E i \in 1..k : v[i] = b
  <2> SUFFICES ASSUME NEW i \in p..q PROVE \E j \in 1..k : v[j] = u[i]
    OBVIOUS
  <2>1. i - p + 1 \in 1..k /\ p + (i - p + 1) - 1 = i
    OBVIOUS
  <2> HIDE DEF k, v
  <2>2. v[i - p + 1] = u[i]
    BY <2>1, <1>5
  <2> QED BY <2>1, <2>2
<1> HIDE DEF t, B, v
<1>7. \A i, j \in 1..k : i < j => <<v[i], v[j]>> \in R
  <2> SUFFICES ASSUME NEW i \in 1..k, NEW j \in 1..k, i < j PROVE <<v[i], v[j]>> \in R
    OBVIOUS
  <2>1. p + i - 1 < p + j - 1
    OBVIOUS
  <2> QED BY <2>1, <1>4, <1>5 DEF TracedBy, n
<1>8. \A i \in 1..k : t[i] = f[v[i]]
  <2> SUFFICES ASSUME NEW i \in 1..k PROVE t[i] = f[v[i]]
    OBVIOUS
  <2>1. t[i] = s[p + i - 1] /\ v[i] = u[p + i - 1]
    BY <1>2, <1>5
  <2>2. s[p + i - 1] = f[u[p + i - 1]]
    BY <1>4 DEF TracedBy, n
  <2> QED BY <2>1, <2>2
<1>9. TracedBy(v, t, B, f, R)
  <2> HIDE DEF k
  <2> QED BY <1>2, <1>3, <1>5, <1>6, <1>7, <1>8 DEF TracedBy
<1> QED BY <1>9 DEF Traces, t, B

LEMMA WithinTraces ==
  ASSUME NEW s, NEW A, NEW f, NEW R, Traces(s, A, f, R), NEW S
  PROVE  Traces(within(s, S), {a \in A : f[a] \in S}, f, R)
<1>1. PICK u : TracedBy(u, s, A, f, R)
  BY DEF Traces
<1> DEFINE n == Len(s)
           X == ToSet(s)
           got(k) == {u[i] : i \in {j \in 1..k : f[u[j]] \in S}}
<1>2. n \in Nat /\ s \in Seq(X) /\ IsSeq(s)
  BY <1>1, InSeq DEF TracedBy
<1>3. /\ u \in [1..n -> A] /\ \A i, j \in 1..n : i < j => <<u[i], u[j]>> \in R
      /\ \A a \in A : \E i \in 1..n : u[i] = a
      /\ \A i \in 1..n : s[i] = f[u[i]]
  BY <1>1 DEF TracedBy
<1>4. PICK h \in [0..n -> Seq(X)] :
        /\ h[0] = <<>> /\ within(s, S) = h[n]
        /\ \A k \in 1..n : h[k] = keepIn(h[k - 1], s[k], S)
  <2> DEFINE w == within(s, S)
  <2>1. w = within(s, S)
    OBVIOUS
  <2> HIDE DEF w, X, n
  <2>2. \E h \in [0..Len(s) -> Seq(X)] :
          /\ h[0] = <<>> /\ w = h[Len(s)]
          /\ \A k \in 1..Len(s) : h[k] = keepIn(h[k - 1], s[k], S)
    BY <2>1, <1>2, WithinFolds
  <2> QED BY <2>2 DEF n, w
<1> HIDE DEF n, X
<1> DEFINE T == {k \in 0..n : Traces(h[k], got(k), f, R)}
<1>5. 0 \in T
  <2>1. got(0) = {}
    OBVIOUS
  <2>2. Traces(<<>>, {}, f, R)
    BY NothingTraces
  <2> HIDE DEF got
  <2>3. Traces(h[0], got(0), f, R)
    BY <2>1, <2>2, <1>4
  <2> QED BY <2>3, <1>2
<1>6. ASSUME NEW k \in 1..n, k - 1 \in T PROVE k \in T
  <2>1. /\ Traces(h[k - 1], got(k - 1), f, R) /\ k \in 0..n /\ k - 1 \in 0..n
        /\ h[k] = keepIn(h[k - 1], s[k], S) /\ s[k] = f[u[k]]
    BY <1>2, <1>3, <1>4, <1>6
  <2>2. got(k) = got(k - 1) \cup (IF f[u[k]] \in S THEN {u[k]} ELSE {})
    <3>1. 1..k = (1..(k - 1)) \cup {k}
      BY <1>2
    <3> QED BY <3>1
  <2>3. \A a \in got(k - 1) : <<a, u[k]>> \in R
    <3>1. \A i \in 1..(k - 1) : i \in 1..n /\ i < k
      BY <1>2
    <3> QED BY <3>1, <1>3
  <2> HIDE DEF got
  <2>4. CASE f[u[k]] \in S
    <3> DEFINE x == s[k]
               o == h[k - 1]
    <3>1. Traces(<<x>>, {u[k]}, f, R)
      BY <2>1, OneTraces
    <3>2. o \in Seq(X) /\ x \in X
      BY <1>2, <2>1 DEF n
    <3>3. h[k] = Append(o, x)
      BY <2>1, <2>4 DEF keepIn
    <3> HIDE DEF x, o
    <3>4. h[k] = o \o <<x>>
      BY <3>2, <3>3
    <3>5. Traces(o \o <<x>>, got(k - 1) \cup {u[k]}, f, R)
      BY <2>1, <2>3, <3>1, ConcatTraces DEF o
    <3> QED BY <2>1, <2>2, <2>4, <3>4, <3>5
  <2>5. CASE f[u[k]] \notin S
    <3>1. h[k] = h[k - 1] /\ got(k) = got(k - 1)
      BY <2>1, <2>2, <2>5 DEF keepIn
    <3> QED BY <2>1, <3>1
  <2> QED BY <2>4, <2>5
<1> HIDE DEF T
<1>7. n \in T
  <2>1. 0..n \subseteq T
    BY <1>2, <1>5, <1>6, Along
  <2> QED BY <2>1, <1>2
<1>8. got(n) = {a \in A : f[a] \in S}
  BY <1>3
<1> QED BY <1>4, <1>7, <1>8 DEF T

\* FlattenSeq, step by step.
LEMMA FlattenFolds ==
  ASSUME NEW X, NEW seqs \in Seq(Seq(X))
  PROVE  \E h \in [0..Len(seqs) -> Seq(X)] :
           /\ h[0] = <<>> /\ FlattenSeq(seqs) = h[Len(seqs)]
           /\ \A k \in 1..Len(seqs) : h[k] = h[k - 1] \o seqs[k]
<1> DEFINE n == Len(seqs)
           V == Seq(X)
<1>1. n \in Nat /\ (\A k \in 1..n : seqs[k] \in V) /\ <<>> \in V
  OBVIOUS
<1>2. \A a, b \in V : a \o b \in V
  OBVIOUS
<1>3. \A a \in V : <<>> \o a = a
  OBVIOUS
<1>4. n = 0 => FlattenSeq(seqs) = <<>>
  BY DEF FlattenSeq
<1> HIDE DEF n, V
<1> DEFINE Builds(h, k) == h[0] = <<>> /\ \A i \in 1..k : h[i] = h[i - 1] \o seqs[i]
           T == {k \in 0..n : \E h \in [0..k -> V] : Builds(h, k)}
<1>5. 0 \in T
  <2> DEFINE h == [i \in 0..0 |-> <<>>]
  <2>1. 0 \in 0..0 /\ 0 \in 0..n /\ 1..0 = {}
    BY <1>1
  <2>2. h \in [0..0 -> V] /\ Builds(h, 0)
    BY <1>1, <2>1
  <2> HIDE DEF h, Builds
  <2> QED BY <2>1, <2>2
<1>6. ASSUME NEW k \in 1..n, k - 1 \in T PROVE k \in T
  <2>1. PICK h \in [0..(k - 1) -> V] : Builds(h, k - 1)
    BY <1>6
  <2> DEFINE new == [i \in 0..k |-> IF i = k THEN h[k - 1] \o seqs[k] ELSE h[i]]
  <2>2. /\ k \in 0..n /\ k - 1 \in 0..(k - 1) /\ k # 0 /\ 0 \in 0..k
        /\ \A i \in 0..k : i = k \/ i \in 0..(k - 1)
        /\ \A i \in 1..k : i \in 0..k /\ i - 1 \in 0..k /\ i - 1 # k /\ (i # k => i \in 1..(k - 1))
    BY <1>1
  <2>3. \A i \in 0..k : new[i] \in V
    BY <1>1, <1>2, <2>2
  <2>4. \A i \in 0..k : new[i] = IF i = k THEN h[k - 1] \o seqs[k] ELSE h[i]
    OBVIOUS
  <2>5. new = [i \in 0..k |-> new[i]]
    OBVIOUS
  <2> HIDE DEF new
  <2>6. new \in [0..k -> V]
    BY <2>3, <2>5
  <2>7. \A i \in 1..k : new[i] = new[i - 1] \o seqs[i]
    BY <2>1, <2>2, <2>4
  <2>8. Builds(new, k)
    BY <2>1, <2>2, <2>4, <2>7
  <2> HIDE DEF Builds
  <2> QED BY <2>2, <2>6, <2>8
<1>7. PICK h \in [0..n -> V] : Builds(h, n)
  <2> HIDE DEF T
  <2>1. n \in Nat
    BY <1>1
  <2>2. 0..n \subseteq T
    BY <2>1, <1>5, <1>6, Along
  <2>3. n \in T
    BY <2>1, <2>2
  <2> USE DEF T
  <2> QED BY <2>3
<1>8. FlattenSeq(seqs) = h[n]
  <2> SUFFICES ASSUME n # 0 PROVE FlattenSeq(seqs) = h[n]
    BY <1>4, <1>7
  <2> DEFINE Def(f) == f = [i \in 1..Len(seqs) |-> IF i = 1 THEN seqs[i] ELSE f[i - 1] \o seqs[i]]
             flatten == CHOOSE f : Def(f)
             g == [i \in 1..n |-> h[i]]
  <2>1. 1 \in 1..n /\ n \in 1..n /\ \A i \in 1..n : i # 1 => i - 1 \in 1..n
    BY <1>1
  <2>2. h[1] = seqs[1]
    <3>1. h[1] = h[1 - 1] \o seqs[1] /\ h[0] = <<>>
      BY <1>7, <2>1
    <3> QED BY <3>1, <1>1, <1>3, <2>1, 1 - 1 = 0
  <2>3. \A i \in 1..n : g[i] = IF i = 1 THEN seqs[i] ELSE g[i - 1] \o seqs[i]
    BY <1>7, <2>1, <2>2
  <2>4. g = [i \in 1..n |-> g[i]]
    OBVIOUS
  <2> HIDE DEF g
  <2>5. Def(g)
    BY <2>3, <2>4 DEF n
  <2> HIDE DEF Def
  <2>6. Def(flatten)
    BY <2>5
  <2> USE DEF Def
  <2>7. FlattenSeq(seqs) = flatten[n]
    BY DEF FlattenSeq, n
  <2> HIDE DEF flatten
  <2>8. \A i \in 1..n : flatten[i] = IF i = 1 THEN seqs[i] ELSE flatten[i - 1] \o seqs[i]
    BY <2>6 DEF n
  <2> DEFINE U == {k \in 0..n : k # 0 => flatten[k] = h[k]}
  <2>9. 0 \in U
    BY <1>1
  <2>10. ASSUME NEW k \in 1..n, k - 1 \in U PROVE k \in U
    <3>1. k \in 0..n
      BY <1>1
    <3>2. CASE k = 1
      BY <3>1, <3>2, <2>2, <2>8
    <3>3. CASE k # 1
      <4>1. flatten[k - 1] = h[k - 1]
        BY <2>10, <3>3
      <4>2. flatten[k] = flatten[k - 1] \o seqs[k] /\ h[k] = h[k - 1] \o seqs[k]
        BY <2>8, <3>3, <1>7
      <4> QED BY <3>1, <4>1, <4>2
    <3> QED BY <3>2, <3>3
  <2> HIDE DEF U
  <2>11. n \in U
    <3>1. 0..n \subseteq U
      BY <1>1, <2>9, <2>10, Along
    <3> QED BY <3>1, <1>1
  <2> QED BY <2>7, <2>11 DEF U
<1> QED BY <1>7, <1>8 DEF n, V

\* The places of what g tells, sequence by sequence.
Places(A, g) == UNION {{<<a, j>> : j \in DOMAIN g[a]} : a \in A}
ToldBy(A, g) == [p \in Places(A, g) |-> g[p[1]][p[2]]]

LEMMA PlacesOf ==
  ASSUME NEW s, IsSeq(s), NEW A, NEW a \in A, NEW R, NEW F, \A j \in DOMAIN s : F[<<a, j>>] = s[j]
  PROVE  Traces(s, {<<a, j>> : j \in DOMAIN s}, F, Lex(A, R))
<1> DEFINE n == Len(s)
           B == {<<a, j>> : j \in DOMAIN s}
           u == [j \in 1..n |-> <<a, j>>]
<1>1. n \in Nat /\ DOMAIN s = 1..n
  BY InSeq
<1>2. u \in [1..n -> B] /\ (\A j \in 1..n : u[j] = <<a, j>>) /\ \A b \in B : \E j \in 1..n : u[j] = b
  BY <1>1
<1> HIDE DEF B, u
<1>3. \A i, j \in 1..n : i < j => <<u[i], u[j]>> \in Lex(A, R)
  <2> SUFFICES ASSUME NEW i \in 1..n, NEW j \in 1..n, i < j PROVE <<u[i], u[j]>> \in Lex(A, R)
    OBVIOUS
  <2>1. <<a, i>> \in A \X Nat /\ <<a, j>> \in A \X Nat
    BY <1>1
  <2> QED BY <1>2, <2>1 DEF Lex
<1>4. \A j \in 1..n : s[j] = F[u[j]]
  BY <1>1, <1>2
<1>5. TracedBy(u, s, B, F, Lex(A, R))
  BY <1>2, <1>3, <1>4 DEF TracedBy, n
<1> QED BY <1>5 DEF Traces, B

LEMMA FlattenTraces ==
  ASSUME NEW seqs, NEW A, NEW g, NEW R, Traces(seqs, A, g, R), \A a \in A : IsSeq(g[a])
  PROVE  Traces(FlattenSeq(seqs), Places(A, g), ToldBy(A, g), Lex(A, R))
<1>1. PICK u : TracedBy(u, seqs, A, g, R)
  BY DEF Traces
<1> DEFINE n == Len(seqs)
           X == UNION {ToSet(g[a]) : a \in A}
           of(k) == {<<u[k], j>> : j \in DOMAIN g[u[k]]}
           got(k) == UNION {of(i) : i \in 1..k}
           F == ToldBy(A, g)
           Q == Lex(A, R)
<1>2. n \in Nat /\ IsSeq(seqs)
  BY <1>1, InSeq DEF TracedBy
<1>3. /\ u \in [1..n -> A] /\ \A i, j \in 1..n : i < j => <<u[i], u[j]>> \in R
      /\ \A a \in A : \E i \in 1..n : u[i] = a
      /\ \A i \in 1..n : seqs[i] = g[u[i]]
  BY <1>1 DEF TracedBy
<1>4. ASSUME NEW a \in A PROVE g[a] \in Seq(X) /\ DOMAIN g[a] = 1..Len(g[a]) /\ Len(g[a]) \in Nat
  <2>1. g[a] \in Seq(ToSet(g[a])) /\ DOMAIN g[a] = 1..Len(g[a]) /\ Len(g[a]) \in Nat
    BY InSeq
  <2>2. ToSet(g[a]) \subseteq X
    OBVIOUS
  <2> HIDE DEF X
  <2> QED BY <2>1, <2>2
<1>5. seqs \in Seq(Seq(X))
  <2>1. seqs = [i \in 1..n |-> seqs[i]]
    <3> seqs \in Seq(ToSet(seqs))
      BY <1>2, InSeq
    <3> QED OBVIOUS
  <2>2. \A i \in 1..n : seqs[i] \in Seq(X)
    <3> HIDE DEF X, n
    <3> QED BY <1>3, <1>4
  <2> HIDE DEF X, n
  <2> QED BY <2>1, <2>2, <1>2
<1>6. PICK h \in [0..n -> Seq(X)] :
        /\ h[0] = <<>> /\ FlattenSeq(seqs) = h[n]
        /\ \A k \in 1..n : h[k] = h[k - 1] \o seqs[k]
  <2> HIDE DEF X
  <2> QED BY <1>5, FlattenFolds
<1> HIDE DEF X, n
<1>7. ASSUME NEW k \in 1..n PROVE Traces(seqs[k], of(k), F, Q)
  <2>1. u[k] \in A /\ seqs[k] = g[u[k]] /\ IsSeq(g[u[k]])
    BY <1>3
  <2>2. \A j \in DOMAIN g[u[k]] : F[<<u[k], j>>] = g[u[k]][j]
    BY <2>1 DEF ToldBy, Places
  <2> HIDE DEF F
  <2>3. Traces(g[u[k]], of(k), F, Q)
    BY <2>1, <2>2, PlacesOf
  <2> QED BY <2>1, <2>3
<1> DEFINE T == {k \in 0..n : Traces(h[k], got(k), F, Q)}
<1> HIDE DEF F, Q, of
<1>8. 0 \in T
  <2>1. got(0) = {}
    OBVIOUS
  <2>2. Traces(<<>>, {}, F, Q)
    BY NothingTraces
  <2> HIDE DEF got
  <2>3. Traces(h[0], got(0), F, Q)
    BY <2>1, <2>2, <1>6
  <2> QED BY <2>3, <1>2
<1>9. ASSUME NEW k \in 1..n, k - 1 \in T PROVE k \in T
  <2>1. Traces(h[k - 1], got(k - 1), F, Q) /\ k \in 0..n /\ h[k] = h[k - 1] \o seqs[k]
    <3>1. Traces(h[k - 1], got(k - 1), F, Q)
      <4> HIDE DEF got
      <4> QED BY <1>9
    <3>2. k \in 0..n
      BY <1>2
    <3> QED BY <3>1, <3>2, <1>6
  <2>2. got(k) = got(k - 1) \cup of(k)
    <3>1. 1..k = (1..(k - 1)) \cup {k}
      BY <1>2
    <3> QED BY <3>1
  <2>3. \A a \in got(k - 1), b \in of(k) : <<a, b>> \in Q
    <3> SUFFICES ASSUME NEW i \in 1..(k - 1), NEW a \in of(i), NEW b \in of(k) PROVE <<a, b>> \in Q
      OBVIOUS
    <3>1. i \in 1..n /\ i < k
      BY <1>2
    <3>2. PICK j \in DOMAIN g[u[i]] : a = <<u[i], j>>
      BY DEF of
    <3>3. PICK l \in DOMAIN g[u[k]] : b = <<u[k], l>>
      BY DEF of
    <3>4. u[i] \in A /\ u[k] \in A /\ j \in Nat /\ l \in Nat /\ <<u[i], u[k]>> \in R
      BY <1>3, <1>4, <3>1, <3>2, <3>3
    <3>5. a \in A \X Nat /\ b \in A \X Nat /\ <<a[1], b[1]>> \in R
      BY <3>2, <3>3, <3>4
    <3> QED BY <3>5 DEF Q, Lex
  <2> HIDE DEF got
  <2>4. Traces(h[k - 1] \o seqs[k], got(k - 1) \cup of(k), F, Q)
    BY <2>1, <2>3, <1>7, ConcatTraces
  <2> QED BY <2>1, <2>2, <2>4
<1> HIDE DEF T
<1>10. n \in T
  <2>1. 0..n \subseteq T
    BY <1>2, <1>8, <1>9, Along
  <2> QED BY <2>1, <1>2
<1>11. got(n) = Places(A, g)
  <2>1. \A i \in 1..n : u[i] \in A
    BY <1>3
  <2> QED BY <1>3, <2>1 DEF of, Places
<1> QED BY <1>6, <1>10, <1>11 DEF T, F, Q

LEMMA LexAsymmetric ==
  ASSUME NEW A, NEW R, Asymmetric(A, R), NEW B \in SUBSET (A \X Nat)
  PROVE  Asymmetric(B, Lex(A, R))
<1> SUFFICES ASSUME NEW p \in B, NEW q \in B, <<p, q>> \in Lex(A, R), <<q, p>> \in Lex(A, R) PROVE FALSE
  BY DEF Asymmetric
<1>1. p[1] \in A /\ q[1] \in A /\ p[2] \in Nat /\ q[2] \in Nat
  OBVIOUS
<1>2. /\ <<p[1], q[1]>> \in R \/ (p[1] = q[1] /\ p[2] < q[2])
      /\ <<q[1], p[1]>> \in R \/ (q[1] = p[1] /\ q[2] < p[2])
  BY DEF Lex
<1> QED BY <1>1, <1>2 DEF Asymmetric

LEMMA SmallerAsymmetric == ASSUME NEW A PROVE Asymmetric(A, Smaller)
BY DEF Asymmetric, Smaller

\* Where an entry is inserted.
LEMMA PlaceByTime ==
  ASSUME NEW X, NEW s \in Seq(X), NEW x
  PROVE  \E last \in 0..Len(s) :
           /\ insertByTime(s, x) = InsertAt(s, last + 1, x)
           /\ last # 0 => s[last].at <= x.at
           /\ \A i \in (last + 1)..Len(s) : ~(s[i].at <= x.at)
<1> DEFINE n == Len(s)
           r == {i \in DOMAIN s : s[i].at <= x.at}
           last == Max({0} \cup r)
<1>1. n \in Nat /\ DOMAIN s = 1..n
  OBVIOUS
<1>2. r \in SUBSET (1..n)
  BY <1>1
<1>3. last \in {0} \cup r /\ \A i \in r : i <= last
  <2> HIDE DEF n, r
  <2> QED BY <1>1, <1>2, LastNotBetter
<1>4. 1 + last = last + 1
  BY <1>1, <1>2, <1>3
<1>5. insertByTime(s, x) = InsertAt(s, last + 1, x)
  BY <1>4 DEF insertByTime
<1> HIDE DEF n
<1>6. last \in 0..n
  BY <1>1, <1>2, <1>3
<1>7. last # 0 => s[last].at <= x.at
  BY <1>3
<1>8. \A i \in (last + 1)..n : ~(s[i].at <= x.at)
  <2> SUFFICES ASSUME NEW i \in (last + 1)..n PROVE ~(s[i].at <= x.at)
    OBVIOUS
  <2>1. i \in DOMAIN s /\ ~(i <= last)
    BY <1>1, <1>6
  <2>2. i \notin r
    <3> HIDE DEF r, last
    <3> QED BY <2>1, <1>3
  <2> QED BY <2>1, <2>2
<1> HIDE DEF last
<1> QED BY <1>5, <1>6, <1>7, <1>8 DEF n

LEMMA InsertedIsSeq == ASSUME NEW X, NEW s \in Seq(X), NEW x \in X PROVE insertByTime(s, x) \in Seq(X)
<1>1. PICK last \in 0..Len(s) : insertByTime(s, x) = InsertAt(s, last + 1, x)
  BY PlaceByTime
<1>2. last + 1 \in 1..(Len(s) + 1)
  OBVIOUS
<1> QED BY <1>1, <1>2, InsertIs

\* Insertion, step by step.
LEMMA InsertFolds ==
  ASSUME NEW X, NEW s \in Seq(X)
  PROVE  \E h \in [0..Len(s) -> Seq(X)] :
           /\ h[0] = <<>> /\ FoldLeft(insertByTime, <<>>, s) = h[Len(s)]
           /\ \A k \in 1..Len(s) : h[k] = insertByTime(h[k - 1], s[k])
<1> DEFINE n == Len(s)
           V == Seq(X)
           st == [at \in (1..n) \X V |-> insertByTime(at[2], s[at[1]])]
<1>1. n \in Nat /\ DOMAIN s = 1..n
  OBVIOUS
<1>2. <<>> \in V
  OBVIOUS
<1>3. ASSUME NEW v \in V, NEW k \in 1..n PROVE insertByTime(v, s[k]) \in V
  <2> v \in Seq(X) /\ s[k] \in X
    BY <1>1
  <2> QED BY InsertedIsSeq
<1>4. st \in [(1..n) \X V -> V]
  <2> HIDE DEF n, V
  <2> QED BY <1>3
<1>5. PICK g \in [SUBSET (1..n) -> V] : Iterates(g, n, <<>>, st)
  <2> HIDE DEF st, n, V
  <2> QED BY <1>1, <1>2, <1>4, FoldExists
<1> DEFINE Def(f) == f = [r \in SUBSET (1..n) |-> IF r = {} THEN <<>> ELSE insertByTime(f[r \ {Max(r)}], s[Max(r)])]
           f == CHOOSE f : Def(f)
<1>6. Def(g)
  <2> HIDE DEF n, V
  <2>1. ASSUME NEW r \in SUBSET (1..n), r # {}
        PROVE  st[<<Max(r), g[r \ {Max(r)}]>>] = insertByTime(g[r \ {Max(r)}], s[Max(r)])
    BY <1>1, <1>5, <2>1, OneBefore
  <2> HIDE DEF st
  <2> QED BY <1>5, <2>1 DEF Iterates
<1>7. Def(f)
  <2> HIDE DEF Def
  <2> QED BY <1>6
<1>8. FoldLeft(insertByTime, <<>>, s) = f[1..n]
  BY <1>1 DEF FoldLeft, MapThenFoldSet
<1> HIDE DEF f
<1>9. Recurs(f, n, V, <<>>, st)
  <2> HIDE DEF n, V
  <2> QED BY <1>7 DEF Recurs
<1>10. PICK h \in [0..n -> V] : StepsTo(h, n, V, <<>>, st, f[1..n])
  <2> HIDE DEF n, V, st
  <2> QED BY <1>1, <1>2, <1>4, <1>9, FoldSteps
<1>11. \A k \in 1..n : h[k] = insertByTime(h[k - 1], s[k])
  <2> HIDE DEF n, V
  <2> QED BY <1>10 DEF StepsTo
<1> QED BY <1>8, <1>10, <1>11 DEF StepsTo

\* The order of time, and for the same time the order R.
Timed(f, A, R) ==
  {p \in A \X A : f[p[1]].at < f[p[2]].at \/ (f[p[1]].at = f[p[2]].at /\ p \in R)}

LEMMA InsertTraces ==
  ASSUME NEW s, NEW A, NEW B \in SUBSET A, NEW f, NEW R, Traces(s, B, f, Timed(f, A, R)),
         NEW a \in A, \A b \in B : <<b, a>> \in R, \A b \in A : f[b].at \in Int
  PROVE  Traces(insertByTime(s, f[a]), B \cup {a}, f, Timed(f, A, R))
<1> DEFINE Q == Timed(f, A, R)
           n == Len(s)
           x == f[a]
<1>1. PICK u : TracedBy(u, s, B, f, Q)
  BY DEF Traces
<1>2. IsSeq(s) /\ n \in Nat /\ s \in Seq(ToSet(s))
  BY <1>1, InSeq DEF TracedBy
<1>3. PICK last \in 0..n :
        /\ insertByTime(s, x) = InsertAt(s, last + 1, x)
        /\ last # 0 => s[last].at <= x.at
        /\ \A i \in (last + 1)..n : ~(s[i].at <= x.at)
  BY <1>2, PlaceByTime
<1>4. /\ u \in [1..n -> B] /\ \A i, j \in 1..n : i < j => <<u[i], u[j]>> \in Q
      /\ \A b \in B : \E i \in 1..n : u[i] = b
      /\ \A i \in 1..n : s[i] = f[u[i]] /\ u[i] \in A
  BY <1>1 DEF TracedBy
<1> DEFINE C == {u[i] : i \in 1..last}
           D == {u[i] : i \in (last + 1)..n}
<1>5. B = C \cup D
  <2>1. \A i \in 1..n : i \in 1..last \/ i \in (last + 1)..n
    BY <1>2
  <2>2. (\A i \in 1..last : i \in 1..n) /\ \A i \in (last + 1)..n : i \in 1..n
    BY <1>2
  <2>3. B \subseteq C \cup D
    BY <1>4, <2>1
  <2>4. C \cup D \subseteq B
    BY <1>4, <2>2
  <2> QED BY <2>3, <2>4
<1>6. ASSUME NEW i \in 1..n, NEW j \in 1..n, i <= j PROVE s[i].at <= s[j].at
  <2>1. CASE i = j
    BY <2>1, <1>4
  <2>2. CASE i < j
    <3>1. <<u[i], u[j]>> \in Q
      BY <1>4, <2>2
    <3>2. f[u[i]].at <= f[u[j]].at
      BY <3>1, <1>4 DEF Timed
    <3> QED BY <3>2, <1>4
  <2>3. i = j \/ i < j
    BY <1>2, <1>6
  <2> QED BY <2>1, <2>2, <2>3
<1>7. \A c \in C : <<c, a>> \in Q
  <2> SUFFICES ASSUME NEW i \in 1..last PROVE <<u[i], a>> \in Q
    OBVIOUS
  <2>1. i \in 1..n /\ last \in 1..n /\ i <= last /\ last # 0
    BY <1>2
  <2>2. s[i].at <= s[last].at /\ s[last].at <= x.at
    BY <2>1, <1>3, <1>6
  <2>3. u[i] \in A /\ u[i] \in B /\ f[u[i]].at <= f[a].at
    <3>1. s[i].at \in Int /\ s[last].at \in Int /\ x.at \in Int /\ s[i] = f[u[i]]
      BY <2>1, <1>4
    <3>2. s[i].at <= x.at
      BY <3>1, <2>2
    <3> QED BY <3>1, <3>2, <2>1, <1>4
  <2>4. <<u[i], a>> \in R
    BY <2>3
  <2>5. f[u[i]].at < f[a].at \/ f[u[i]].at = f[a].at
    BY <2>3
  <2> QED BY <2>3, <2>4, <2>5 DEF Timed
<1>8. \A d \in D : <<a, d>> \in Q
  <2> SUFFICES ASSUME NEW i \in (last + 1)..n PROVE <<a, u[i]>> \in Q
    OBVIOUS
  <2>1. i \in 1..n
    BY <1>2
  <2>2. ~(f[u[i]].at <= f[a].at) /\ u[i] \in A
    BY <2>1, <1>3, <1>4
  <2>3. f[a].at < f[u[i]].at
    BY <2>2
  <2> QED BY <2>2, <2>3 DEF Timed
<1>9. \A c \in C, d \in D : <<c, d>> \in Q
  <2> SUFFICES ASSUME NEW i \in 1..last, NEW j \in (last + 1)..n PROVE <<u[i], u[j]>> \in Q
    OBVIOUS
  <2>1. i \in 1..n /\ j \in 1..n /\ i < j
    BY <1>2
  <2> QED BY <2>1, <1>4
<1>10. Traces(SubSeq(s, 1, last), C, f, Q)
  <2>1. 1 \in Nat /\ last \in Nat /\ 1 <= 1 /\ last <= n /\ 1 <= last + 1
    BY <1>2
  <2> HIDE DEF Q
  <2> QED BY <2>1, <1>1, PartTraces
<1>11. Traces(SubSeq(s, last + 1, n), D, f, Q)
  <2>1. last + 1 \in Nat /\ n \in Nat /\ 1 <= last + 1 /\ n <= n /\ last + 1 <= n + 1
    BY <1>2
  <2> HIDE DEF Q
  <2> QED BY <2>1, <1>1, PartTraces
<1>12. Traces(<<x>>, {a}, f, Q)
  BY OneTraces
<1>13. insertByTime(s, x) = (SubSeq(s, 1, last) \o <<x>>) \o SubSeq(s, last + 1, n)
  <2>1. (last + 1) - 1 = last
    OBVIOUS
  <2> QED BY <2>1, <1>3 DEF InsertAt
<1> HIDE DEF Q, C, D, x, n
<1>14. Traces(SubSeq(s, 1, last) \o <<x>>, C \cup {a}, f, Q)
  BY <1>7, <1>10, <1>12, ConcatTraces
<1>15. \A c \in C \cup {a}, d \in D : <<c, d>> \in Q
  BY <1>8, <1>9
<1>16. Traces((SubSeq(s, 1, last) \o <<x>>) \o SubSeq(s, last + 1, n), (C \cup {a}) \cup D, f, Q)
  BY <1>11, <1>14, <1>15, ConcatTraces
<1>17. (C \cup {a}) \cup D = B \cup {a}
  BY <1>5
<1> QED BY <1>13, <1>16, <1>17 DEF Q, x

LEMMA InsertionTraces ==
  ASSUME NEW s, NEW A, NEW f, NEW R, Traces(s, A, f, R), \A b \in A : f[b].at \in Int
  PROVE  Traces(FoldLeft(insertByTime, <<>>, s), A, f, Timed(f, A, R))
<1>1. PICK u : TracedBy(u, s, A, f, R)
  BY DEF Traces
<1> DEFINE n == Len(s)
           X == ToSet(s)
           got(k) == {u[i] : i \in 1..k}
           Q == Timed(f, A, R)
<1>2. n \in Nat /\ s \in Seq(X) /\ IsSeq(s)
  BY <1>1, InSeq DEF TracedBy
<1>3. /\ u \in [1..n -> A] /\ \A i, j \in 1..n : i < j => <<u[i], u[j]>> \in R
      /\ \A a \in A : \E i \in 1..n : u[i] = a
      /\ \A i \in 1..n : s[i] = f[u[i]]
  BY <1>1 DEF TracedBy
<1>4. PICK h \in [0..n -> Seq(X)] :
        /\ h[0] = <<>> /\ FoldLeft(insertByTime, <<>>, s) = h[n]
        /\ \A k \in 1..n : h[k] = insertByTime(h[k - 1], s[k])
  <2> HIDE DEF X
  <2> QED BY <1>2, InsertFolds
<1> HIDE DEF n, X, Q
<1> DEFINE T == {k \in 0..n : Traces(h[k], got(k), f, Q)}
<1>5. 0 \in T
  <2>1. got(0) = {}
    OBVIOUS
  <2>2. Traces(<<>>, {}, f, Q)
    BY NothingTraces
  <2> HIDE DEF got
  <2>3. Traces(h[0], got(0), f, Q)
    BY <2>1, <2>2, <1>4
  <2> QED BY <2>3, <1>2
<1>6. ASSUME NEW k \in 1..n, k - 1 \in T PROVE k \in T
  <2>1. Traces(h[k - 1], got(k - 1), f, Q)
    <3> HIDE DEF got
    <3> QED BY <1>6
  <2>2. k \in 0..n /\ h[k] = insertByTime(h[k - 1], f[u[k]])
    BY <1>2, <1>3, <1>4
  <2>3. got(k) = got(k - 1) \cup {u[k]}
    <3>1. 1..k = (1..(k - 1)) \cup {k}
      BY <1>2
    <3> QED BY <3>1
  <2>4. (\A b \in got(k - 1) : <<b, u[k]>> \in R) /\ got(k - 1) \in SUBSET A /\ u[k] \in A
    <3>1. \A i \in 1..(k - 1) : i \in 1..n /\ i < k
      BY <1>2
    <3> QED BY <3>1, <1>3
  <2> HIDE DEF got
  <2>5. Traces(insertByTime(h[k - 1], f[u[k]]), got(k - 1) \cup {u[k]}, f, Q)
    BY <2>1, <2>4, InsertTraces DEF Q
  <2> QED BY <2>2, <2>3, <2>5
<1> HIDE DEF T
<1>7. n \in T
  <2>1. 0..n \subseteq T
    BY <1>2, <1>5, <1>6, Along
  <2> QED BY <2>1, <1>2
<1>8. got(n) = A
  BY <1>3
<1> QED BY <1>4, <1>7, <1>8 DEF T, Q

LEMMA TimedAsymmetric ==
  ASSUME NEW A, NEW f, NEW R, Asymmetric(A, R), \A b \in A : f[b].at \in Int
  PROVE  Asymmetric(A, Timed(f, A, R))
<1> SUFFICES ASSUME NEW a \in A, NEW b \in A, <<a, b>> \in Timed(f, A, R), <<b, a>> \in Timed(f, A, R) PROVE FALSE
  BY DEF Asymmetric
<1>1. /\ f[a].at < f[b].at \/ (f[a].at = f[b].at /\ <<a, b>> \in R)
      /\ f[b].at < f[a].at \/ (f[b].at = f[a].at /\ <<b, a>> \in R)
  BY DEF Timed
<1> QED BY <1>1 DEF Asymmetric

LEMMA TimedInOrder ==
  ASSUME NEW s, NEW A, NEW f, NEW R, Traces(s, A, f, Timed(f, A, R)), \A b \in A : f[b].at \in Int
  PROVE  inOrder(s)
<1>1. PICK u : TracedBy(u, s, A, f, Timed(f, A, R))
  BY DEF Traces
<1>2. DOMAIN s = 1..Len(s) /\ Len(s) \in Nat
  BY <1>1, InSeq DEF TracedBy
<1> SUFFICES ASSUME NEW i \in 1..Len(s), NEW j \in 1..Len(s), i < j PROVE s[i].at <= s[j].at
  BY <1>2 DEF inOrder
<1>3. /\ <<u[i], u[j]>> \in Timed(f, A, R) /\ u[i] \in A /\ u[j] \in A
      /\ s[i] = f[u[i]] /\ s[j] = f[u[j]]
  BY <1>1 DEF TracedBy
<1>4. f[u[i]].at < f[u[j]].at \/ f[u[i]].at = f[u[j]].at
  BY <1>3 DEF Timed
<1> QED BY <1>3, <1>4

\* Two lists of one set are reorderings of each other.
LEMMA Permuted ==
  ASSUME NEW s, NEW t, NEW A, NEW f, NEW R, NEW Q, Asymmetric(A, R), Asymmetric(A, Q),
         Traces(s, A, f, R), Traces(t, A, f, Q)
  PROVE  t \in reorderings(s)
<1>1. PICK u : TracedBy(u, s, A, f, R)
  BY DEF Traces
<1>2. PICK v : TracedBy(v, t, A, f, Q)
  BY DEF Traces
<1>3. /\ Len(s) \in Nat /\ DOMAIN s = 1..Len(s)
      /\ Len(t) \in Nat /\ t = [i \in 1..Len(t) |-> t[i]]
  <2>1. IsSeq(s) /\ IsSeq(t)
    BY <1>1, <1>2 DEF TracedBy
  <2>2. t \in Seq(ToSet(t))
    BY <2>1 DEF IsSeq
  <2> QED BY <2>1, <2>2, InSeq
<1>4. Cardinality(A) = Len(s) /\ \A i, j \in 1..Len(s) : u[i] = u[j] => i = j
  BY <1>1, <1>3, TraceRanks
<1>5. Cardinality(A) = Len(t) /\ \A i, j \in 1..Len(t) : v[i] = v[j] => i = j
  BY <1>2, <1>3, TraceRanks
<1> DEFINE n == Len(s)
           p == [k \in 1..n |-> CHOOSE i \in 1..n : u[i] = v[k]]
<1>6. Len(t) = n
  BY <1>4, <1>5
<1>7. /\ u \in [1..n -> A] /\ v \in [1..n -> A]
      /\ \A a \in A : (\E i \in 1..n : u[i] = a) /\ \E i \in 1..n : v[i] = a
      /\ \A i \in 1..n : s[i] = f[u[i]] /\ t[i] = f[v[i]]
  BY <1>1, <1>2, <1>6 DEF TracedBy
<1> HIDE DEF n
<1>8. \A k \in 1..n : p[k] \in 1..n /\ u[p[k]] = v[k]
  BY <1>7
<1>9. p = [k \in 1..n |-> p[k]]
  OBVIOUS
<1> HIDE DEF p
<1>10. p \in [1..n -> 1..n]
  BY <1>8, <1>9
<1>11. \A k, l \in 1..n : p[k] = p[l] => k = l
  BY <1>5, <1>6, <1>8
<1>12. \A i \in 1..n : \E k \in 1..n : p[k] = i
  <2> SUFFICES ASSUME NEW i \in 1..n PROVE \E k \in 1..n : p[k] = i
    OBVIOUS
  <2>1. PICK k \in 1..n : v[k] = u[i]
    BY <1>7
  <2>2. p[k] = i
    BY <2>1, <1>4, <1>8 DEF n
  <2> QED BY <2>2
<1>13. p \in Bijection(DOMAIN s, DOMAIN s)
  BY <1>3, <1>10, <1>11, <1>12 DEF Bijection, Injection, Surjection, IsInjective, n
<1>14. \A k \in 1..n : t[k] = s[p[k]]
  BY <1>7, <1>8
<1>15. t = [k \in DOMAIN s |-> s[p[k]]]
  BY <1>3, <1>6, <1>14 DEF n
<1> QED BY <1>13, <1>15 DEF reorderings

\* An order of different times leaves no choice.
LEMMA SortedTraces ==
  ASSUME NEW s, NEW A, NEW f, NEW R, Traces(s, A, f, R), \A b \in A : f[b].at \in Int,
         \A a, b \in A : <<a, b>> \in R => f[a].at # f[b].at,
         NEW t \in reorderings(s), inOrder(t)
  PROVE  Traces(t, A, f, Timed(f, A, R))
<1>1. PICK u : TracedBy(u, s, A, f, R)
  BY DEF Traces
<1> DEFINE n == Len(s)
           Q == Timed(f, A, R)
<1>2. n \in Nat /\ DOMAIN s = 1..n /\ s \in Seq(ToSet(s))
  BY <1>1, InSeq DEF TracedBy
<1>3. PICK p \in Bijection(DOMAIN s, DOMAIN s) : t = [i \in DOMAIN s |-> s[p[i]]]
  BY DEF reorderings
<1>4. /\ u \in [1..n -> A] /\ \A i, j \in 1..n : i < j => <<u[i], u[j]>> \in R
      /\ \A a \in A : \E i \in 1..n : u[i] = a
      /\ \A i \in 1..n : s[i] = f[u[i]]
  BY <1>1 DEF TracedBy
<1>5. t \in Seq(ToSet(s)) /\ Len(t) = n /\ DOMAIN t = 1..n
  <2>1. \A i \in 1..n : p[i] \in 1..n /\ s[p[i]] \in ToSet(s)
    BY <1>2, <1>3 DEF Bijection, Injection, ToSet
  <2> HIDE DEF n
  <2> QED BY <1>2, <1>3, <2>1
<1> HIDE DEF n
<1>6. /\ \A i \in 1..n : p[i] \in 1..n /\ t[i] = s[p[i]]
      /\ \A i, j \in 1..n : i # j => p[i] # p[j]
      /\ \A j \in 1..n : \E i \in 1..n : p[i] = j
  BY <1>2, <1>3 DEF Bijection, Injection, Surjection, IsInjective
<1> DEFINE v == [i \in 1..n |-> u[p[i]]]
<1>7. v \in [1..n -> A] /\ \A i \in 1..n : v[i] = u[p[i]] /\ t[i] = f[v[i]]
  BY <1>4, <1>6
<1> HIDE DEF v
<1>8. \A a \in A : \E i \in 1..n : v[i] = a
  <2> SUFFICES ASSUME NEW a \in A PROVE \E i \in 1..n : v[i] = a
    OBVIOUS
  <2>1. PICK j \in 1..n : u[j] = a
    BY <1>4
  <2>2. PICK i \in 1..n : p[i] = j
    BY <1>6
  <2> QED BY <2>1, <2>2, <1>7
<1>9. ASSUME NEW i \in 1..n, NEW j \in 1..n, i < j PROVE <<v[i], v[j]>> \in Q
  <2>1. t[i].at <= t[j].at
    BY <1>5, <1>9 DEF inOrder
  <2>2. f[v[i]].at <= f[v[j]].at /\ v[i] \in A /\ v[j] \in A
    BY <2>1, <1>7
  <2>3. f[v[i]].at # f[v[j]].at
    <3>1. p[i] \in 1..n /\ p[j] \in 1..n /\ p[i] # p[j]
      BY <1>6, <1>9
    <3>2. CASE p[i] < p[j]
      <4>1. <<v[i], v[j]>> \in R
        BY <3>1, <3>2, <1>4, <1>7
      <4> QED BY <4>1, <2>2
    <3>3. CASE p[j] < p[i]
      <4>1. <<v[j], v[i]>> \in R
        BY <3>1, <3>3, <1>4, <1>7
      <4> QED BY <4>1, <2>2
    <3> QED BY <3>1, <3>2, <3>3
  <2>4. f[v[i]].at < f[v[j]].at
    <3>1. f[v[i]].at \in Int /\ f[v[j]].at \in Int
      BY <2>2
    <3> QED BY <2>2, <2>3, <3>1
  <2> QED BY <2>2, <2>4 DEF Timed
<1>10. IsSeq(t)
  BY <1>5, SeqIsSeq
<1> HIDE DEF Q
<1>11. TracedBy(v, t, A, f, Q)
  BY <1>5, <1>7, <1>8, <1>9, <1>10 DEF TracedBy
<1> QED BY <1>11 DEF Traces, Q

\* What sort.Slice keeps of the order of equal times.
KeepsTies(s, A, f, R) ==
  \/ inOrder(s)
  \/ Len(s) <= maxInsertion
  \/ \A a, b \in A : <<a, b>> \in R => f[a].at # f[b].at

LEMMA ByTimeTraces ==
  ASSUME NEW s, NEW A, NEW f, NEW R, Asymmetric(A, R), Traces(s, A, f, R), \A b \in A : f[b].at \in Int,
         KeepsTies(s, A, f, R)
  PROVE  Traces(byTime(s), A, f, Timed(f, A, R))
<1> DEFINE Q == Timed(f, A, R)
           r == FoldLeft(insertByTime, <<>>, s)
<1>1. Traces(r, A, f, Q)
  BY InsertionTraces
<1>2. CASE inOrder(s)
  <2>1. PICK u : TracedBy(u, s, A, f, R)
    BY DEF Traces
  <2>2. DOMAIN s = 1..Len(s)
    BY <2>1, InSeq DEF TracedBy
  <2>3. \A i, j \in 1..Len(s) : i < j => <<u[i], u[j]>> \in Q
    <3> SUFFICES ASSUME NEW i \in 1..Len(s), NEW j \in 1..Len(s), i < j PROVE <<u[i], u[j]>> \in Q
      OBVIOUS
    <3>1. s[i].at <= s[j].at
      BY <1>2, <2>2 DEF inOrder
    <3>2. /\ u[i] \in A /\ u[j] \in A /\ <<u[i], u[j]>> \in R
          /\ f[u[i]] = s[i] /\ f[u[j]] = s[j]
      BY <2>1 DEF TracedBy
    <3>3. f[u[i]].at < f[u[j]].at \/ f[u[i]].at = f[u[j]].at
      BY <3>1, <3>2
    <3> QED BY <3>2, <3>3 DEF Timed
  <2> HIDE DEF Q
  <2>4. TracedBy(u, s, A, f, Q)
    BY <2>1, <2>3 DEF TracedBy
  <2>5. byTime(s) = s
    BY <1>2 DEF byTime
  <2> QED BY <2>4, <2>5 DEF Traces, Q
<1>3. CASE ~inOrder(s) /\ Len(s) <= maxInsertion
  BY <1>1, <1>3 DEF byTime
<1>4. CASE ~inOrder(s) /\ ~(Len(s) <= maxInsertion)
  <2>1. inOrder(r)
    BY <1>1, TimedInOrder
  <2>2. Asymmetric(A, Q)
    BY TimedAsymmetric
  <2> HIDE DEF r, Q
  <2>3. r \in reorderings(s)
    BY <1>1, <2>2, Permuted
  <2>4. byTime(s) = CHOOSE t \in reorderings(s) : inOrder(t)
    BY <1>4 DEF byTime
  <2>5. byTime(s) \in reorderings(s) /\ inOrder(byTime(s))
    BY <2>1, <2>3, <2>4
  <2>6. \A a, b \in A : <<a, b>> \in R => f[a].at # f[b].at
    BY <1>4 DEF KeepsTies
  <2> QED BY <2>5, <2>6, SortedTraces DEF Q
<1> QED BY <1>2, <1>3, <1>4

-----------------------------------------------------------------------------
(***************************************************************************)
(* Extraction: the sequence of each source.                                *)
(***************************************************************************)
\* The records of one source, as grouped picks them.
recordsOf(recs, source) == within(recs, {r \in ToSet(recs) : r.source = source})
Part(A, f, source) == {a \in A : f[a].source = source}
TokensOf(A, f) == [a \in A |-> f[a].tokens]

LEMMA Listed ==
  ASSUME NEW s, NEW A, NEW f, NEW R, Traces(s, A, f, R)
  PROVE  ToSet(s) = {f[a] : a \in A} /\ IsSeq(s)
<1>1. PICK u : TracedBy(u, s, A, f, R)
  BY DEF Traces
<1>2. IsSeq(s) /\ DOMAIN s = 1..Len(s) /\ Len(s) \in Nat
  BY <1>1, InSeq DEF TracedBy
<1>3. /\ \A i \in 1..Len(s) : u[i] \in A /\ s[i] = f[u[i]]
      /\ \A a \in A : \E i \in 1..Len(s) : u[i] = a
  BY <1>1 DEF TracedBy
<1>4. ToSet(s) = {s[i] : i \in 1..Len(s)}
  BY <1>2 DEF ToSet
<1>5. {s[i] : i \in 1..Len(s)} = {f[a] : a \in A}
  BY <1>3
<1> QED BY <1>2, <1>4, <1>5

LEMMA RecordsTrace ==
  ASSUME NEW recs, NEW A, NEW f, NEW R, Traces(recs, A, f, R), NEW source
  PROVE  Traces(recordsOf(recs, source), Part(A, f, source), f, R)
<1> DEFINE S == {r \in ToSet(recs) : r.source = source}
<1>1. Traces(within(recs, S), {a \in A : f[a] \in S}, f, R)
  BY WithinTraces
<1>2. {a \in A : f[a] \in S} = Part(A, f, source)
  BY Listed DEF Part
<1> QED BY <1>1, <1>2 DEF recordsOf

LEMMA SameLength ==
  ASSUME NEW s, NEW A, NEW f, NEW R, Asymmetric(A, R), Traces(s, A, f, R)
  PROVE  IsFiniteSet(A) /\ Len(s) = Cardinality(A)
<1>1. PICK u : TracedBy(u, s, A, f, R)
  BY DEF Traces
<1>2. Len(s) \in Nat
  BY <1>1, InSeq DEF TracedBy
<1> QED BY <1>1, <1>2, RankOf DEF TracedBy

\* The tokens of a source, sorted by time and concatenated.
LEMMA SequenceIs ==
  ASSUME NEW es, NEW A, NEW f, NEW R, Asymmetric(A, R), Traces(es, A, f, R), A # {},
         \A a \in A : f[a].at \in Int /\ IsSeq(f[a].tokens),
         KeepsTies(es, A, f, R), NEW source
  PROVE  LET g == sequenceOf(source, es)
         IN  /\ DOMAIN g = {"source", "tokens", "first", "last"} /\ g.source = source
             /\ Traces(g.tokens, Places(A, TokensOf(A, f)), ToldBy(A, TokensOf(A, f)), Lex(A, Timed(f, A, R)))
             /\ g.first \in Int /\ g.last \in Int /\ g.first <= g.last
<1> DEFINE t == byTime(es)
           Q == Timed(f, A, R)
           w == TokensOf(A, f)
           many == [i \in DOMAIN t |-> t[i].tokens]
           g == sequenceOf(source, es)
<1>1. Traces(t, A, f, Q)
  BY ByTimeTraces
<1>2. inOrder(t)
  BY <1>1, TimedInOrder
<1>3. g = [source |-> source, tokens |-> FlattenSeq(many), first |-> t[1].at, last |-> t[Len(t)].at]
  BY DEF sequenceOf
<1>4. IsSeq(t) /\ ToSet(t) = {f[a] : a \in A}
  BY <1>1, Listed
<1> HIDE DEF t, Q, g
<1>5. DOMAIN t = 1..Len(t) /\ Len(t) \in Nat /\ t # <<>>
  <2>1. DOMAIN t = 1..Len(t) /\ Len(t) \in Nat
    BY <1>4, InSeq
  <2>2. t = <<>> => ToSet(t) = {}
    BY NothingIsSeq
  <2> QED BY <2>1, <2>2, <1>4
<1>6. 1 \in DOMAIN t /\ Len(t) \in DOMAIN t
  BY <1>4, <1>5, InSeq
<1>7. \A i \in DOMAIN t : \E a \in A : t[i] = f[a]
  BY <1>4, InSeq
<1>8. t[1].at \in Int /\ t[Len(t)].at \in Int /\ t[1].at <= t[Len(t)].at
  <2>1. t[1].at \in Int /\ t[Len(t)].at \in Int
    BY <1>6, <1>7
  <2>2. CASE Len(t) = 1
    BY <2>1, <2>2
  <2>3. CASE 1 < Len(t)
    BY <1>2, <1>6, <2>1, <2>3 DEF inOrder
  <2> QED BY <2>2, <2>3, <1>5, <1>6
<1>9. Traces(many, A, w, Q)
  <2>1. PICK u : TracedBy(u, t, A, f, Q)
    BY <1>1 DEF Traces
  <2>2. \A i \in 1..Len(t) : u[i] \in A /\ t[i] = f[u[i]]
    BY <2>1 DEF TracedBy
  <2>3. many \in Seq({many[i] : i \in 1..Len(t)}) /\ Len(many) = Len(t)
    <3>1. \A i \in 1..Len(t) : many[i] \in {many[j] : j \in 1..Len(t)}
      OBVIOUS
    <3>2. many = [i \in 1..Len(t) |-> many[i]]
      BY <1>5
    <3> HIDE DEF many
    <3> QED BY <3>1, <3>2, <1>5
  <2>4. \A i \in 1..Len(t) : many[i] = t[i].tokens
    BY <1>5
  <2> HIDE DEF many
  <2>5. IsSeq(many)
    BY <2>3, SeqIsSeq
  <2>6. \A i \in 1..Len(t) : many[i] = w[u[i]]
    BY <2>2, <2>4 DEF TokensOf
  <2> HIDE DEF w
  <2>7. TracedBy(u, many, A, w, Q)
    BY <2>1, <2>3, <2>5, <2>6 DEF TracedBy
  <2> QED BY <2>7 DEF Traces
<1>10. \A a \in A : IsSeq(w[a])
  BY DEF TokensOf
<1> HIDE DEF w, many
<1>11. Traces(FlattenSeq(many), Places(A, w), ToldBy(A, w), Lex(A, Q))
  BY <1>9, <1>10, FlattenTraces
<1> DEFINE flat == FlattenSeq(many)
<1> HIDE DEF flat
<1>12. g = [source |-> source, tokens |-> flat, first |-> t[1].at, last |-> t[Len(t)].at]
  BY <1>3 DEF flat
<1>13. /\ DOMAIN g = {"source", "tokens", "first", "last"} /\ g.source = source
       /\ g.tokens = flat /\ g.first = t[1].at /\ g.last = t[Len(t)].at
  BY <1>12
<1>14. Traces(g.tokens, Places(A, w), ToldBy(A, w), Lex(A, Q))
  BY <1>11, <1>13 DEF flat
<1> QED BY <1>8, <1>13, <1>14 DEF g, w, Q

-----------------------------------------------------------------------------
(***************************************************************************)
(* Extraction: the tools of the sessions.                                  *)
(***************************************************************************)
\* What the sequences S of a source have to do with what happened, P.
Agree(S, P) ==
  /\ IsFiniteSet(S)
  /\ \A s \in S : /\ IsSeq(s.tokens) /\ s.first \in Int /\ s.last \in Int /\ s.first <= s.last
                  /\ \E p \in P : p.source = s.source /\ p.tokens = s.tokens
  /\ \A p \in P : DOMAIN p.tokens = {} \/ \E s \in S : s.source = p.source /\ s.tokens = p.tokens
  /\ \A s, t \in S : s.source = t.source => s = t
  /\ \A p, q \in P : p.source = q.source => p = q

Lines == history[1].lines
KeptLines == {i \in DOMAIN Lines : /\ Lines[i].ok /\ Lines[i].at >= extract.window
                                  /\ Lines[i].session \notin refused(Lines)}
UseRecord(i, j) == [source |-> Lines[i].session, at |-> Lines[i].at, tokens |-> <<Lines[i].tools[j]>>]
LineRecords == [i \in KeptLines |-> [j \in DOMAIN Lines[i].tools |-> UseRecord(i, j)]]
AllUses == Places(KeptLines, LineRecords)
UseOrder == Lex(KeptLines, Smaller)
UseRecords == ToldBy(KeptLines, LineRecords)

\* The window and the history an extract mined.
Mining == IsHistory(history[1]) /\ extract.window \in Int

LEMMA LinesAre ==
  ASSUME Mining
  PROVE  /\ IsSeq(Lines) /\ Len(Lines) \in Nat /\ DOMAIN Lines = 1..Len(Lines)
         /\ \A i \in DOMAIN Lines : Lines[i] \in ToSet(Lines) /\ Lines[i].at \in Int /\ IsSeq(Lines[i].tools)
         /\ KeptLines \subseteq Nat
<1>1. Lines \in Seq(ToSet(Lines)) /\ \A l \in ToSet(Lines) : l.at \in Int /\ l.tools \in Seq(ToSet(l.tools))
  BY DEF Mining, IsHistory, Lines
<1>2. IsSeq(Lines)
  BY <1>1 DEF IsSeq
<1>3. Len(Lines) \in Nat /\ DOMAIN Lines = 1..Len(Lines) /\ \A i \in DOMAIN Lines : Lines[i] \in ToSet(Lines)
  BY <1>2, InSeq
<1>4. KeptLines \subseteq Nat
  BY <1>3 DEF KeptLines
<1> QED BY <1>1, <1>2, <1>3, <1>4 DEF IsSeq

LEMMA UsesAre ==
  ASSUME Mining
  PROVE  /\ AllUses = UNION {{<<i, j>> : j \in DOMAIN Lines[i].tools} : i \in KeptLines}
         /\ AllUses \subseteq KeptLines \X Nat
         /\ \A u \in AllUses : /\ u[1] \in KeptLines /\ u[2] \in DOMAIN Lines[u[1]].tools
                               /\ UseRecords[u] = UseRecord(u[1], u[2])
         /\ Traces(toolRecords(Lines, extract.window), AllUses, UseRecords, UseOrder)
         /\ Asymmetric(AllUses, UseOrder)
         /\ \A u, v \in AllUses : <<u, v>> \in UseOrder <=> before(u, v)
<1>1. \A i \in KeptLines : DOMAIN LineRecords[i] = DOMAIN Lines[i].tools
  BY DEF LineRecords
<1>2. AllUses = UNION {{<<i, j>> : j \in DOMAIN Lines[i].tools} : i \in KeptLines}
  BY <1>1 DEF AllUses, Places
<1>3. \A i \in KeptLines : IsSeq(Lines[i].tools) /\ i \in DOMAIN Lines
  BY LinesAre DEF KeptLines
<1>4. AllUses \subseteq KeptLines \X Nat
  <2>1. ASSUME NEW i \in KeptLines, NEW j \in DOMAIN Lines[i].tools PROVE <<i, j>> \in KeptLines \X Nat
    BY <1>3, InSeq
  <2> QED BY <1>2, <2>1
<1>5. ASSUME NEW u \in AllUses
      PROVE  u[1] \in KeptLines /\ u[2] \in DOMAIN Lines[u[1]].tools /\ UseRecords[u] = UseRecord(u[1], u[2])
  <2>1. PICK i \in KeptLines : u \in {<<i, j>> : j \in DOMAIN Lines[i].tools}
    BY <1>2
  <2>2. PICK j \in DOMAIN Lines[i].tools : u = <<i, j>>
    BY <2>1
  <2>5. u[1] = i /\ u[2] = j
    BY <2>2
  <2>3. UseRecords[u] = LineRecords[u[1]][u[2]]
    BY DEF UseRecords, ToldBy, AllUses
  <2>4. LineRecords[i][j] = UseRecord(i, j)
    BY DEF LineRecords
  <2> QED BY <2>5, <2>3, <2>4
<1>6. Traces(toolRecords(Lines, extract.window), AllUses, UseRecords, UseOrder)
  <2> DEFINE S == {l \in ToSet(Lines) : l.ok /\ l.at >= extract.window /\ l.session \notin refused(Lines)}
             kept == within(Lines, S)
             many == [i \in DOMAIN kept |->
                        [j \in DOMAIN kept[i].tools |->
                           [source |-> kept[i].session, at |-> kept[i].at, tokens |-> <<kept[i].tools[j]>>]]]
  <2>1. toolRecords(Lines, extract.window) = FlattenSeq(many)
    BY DEF toolRecords
  <2>2. Traces(kept, KeptLines, Lines, Smaller)
    <3>1. Traces(Lines, DOMAIN Lines, Lines, Smaller)
      BY LinesAre, OwnTrace
    <3>2. Traces(kept, {i \in DOMAIN Lines : Lines[i] \in S}, Lines, Smaller)
      BY <3>1, WithinTraces
    <3>3. {i \in DOMAIN Lines : Lines[i] \in S} = KeptLines
      BY LinesAre DEF KeptLines
    <3> QED BY <3>2, <3>3
  <2> HIDE DEF kept
  <2>3. PICK u : TracedBy(u, kept, KeptLines, Lines, Smaller)
    BY <2>2 DEF Traces
  <2>4. Len(kept) \in Nat /\ DOMAIN kept = 1..Len(kept)
    BY <2>3, InSeq DEF TracedBy
  <2>5. \A i \in 1..Len(kept) : u[i] \in KeptLines /\ kept[i] = Lines[u[i]]
    BY <2>3 DEF TracedBy
  <2>6. \A i \in 1..Len(kept) : many[i] = LineRecords[u[i]]
    <3> SUFFICES ASSUME NEW i \in 1..Len(kept) PROVE many[i] = LineRecords[u[i]]
      OBVIOUS
    <3>1. many[i] = [j \in DOMAIN kept[i].tools |->
                      [source |-> kept[i].session, at |-> kept[i].at, tokens |-> <<kept[i].tools[j]>>]]
      BY <2>4
    <3>2. LineRecords[u[i]] = [j \in DOMAIN Lines[u[i]].tools |-> UseRecord(u[i], j)]
      BY <2>5 DEF LineRecords
    <3> QED BY <3>1, <3>2, <2>5 DEF UseRecord
  <2>7. many = [i \in 1..Len(kept) |-> many[i]]
    BY <2>4
  <2> HIDE DEF many
  <2>8. many \in Seq({many[i] : i \in 1..Len(kept)}) /\ Len(many) = Len(kept)
    BY <2>4, <2>7
  <2>9. IsSeq(many)
    BY <2>8, SeqIsSeq
  <2>10. TracedBy(u, many, KeptLines, LineRecords, Smaller)
    BY <2>3, <2>6, <2>8, <2>9 DEF TracedBy
  <2>11. \A i \in KeptLines : IsSeq(LineRecords[i])
    <3> SUFFICES ASSUME NEW i \in KeptLines PROVE IsSeq(LineRecords[i])
      OBVIOUS
    <3> DEFINE s == Lines[i].tools
               r == [j \in DOMAIN s |-> UseRecord(i, j)]
    <3>1. DOMAIN s = 1..Len(s) /\ Len(s) \in Nat
      BY <1>3, InSeq
    <3>2. r = [j \in 1..Len(s) |-> r[j]] /\ \A j \in 1..Len(s) : r[j] \in {r[l] : l \in 1..Len(s)}
      BY <3>1
    <3>3. LineRecords[i] = r
      BY DEF LineRecords
    <3> HIDE DEF r, s
    <3>4. r \in Seq({r[l] : l \in 1..Len(s)})
      BY <3>1, <3>2
    <3> QED BY <3>3, <3>4, SeqIsSeq
  <2> QED BY <2>1, <2>10, <2>11, FlattenTraces DEF Traces, AllUses, UseRecords, UseOrder
<1>7. Asymmetric(AllUses, UseOrder)
  <2>1. Asymmetric(KeptLines, Smaller)
    BY SmallerAsymmetric
  <2>2. AllUses \in SUBSET (KeptLines \X Nat)
    BY <1>4
  <2> QED BY <2>1, <2>2, LexAsymmetric DEF UseOrder
<1>8. ASSUME NEW u \in AllUses, NEW v \in AllUses PROVE <<u, v>> \in UseOrder <=> before(u, v)
  <2>1. u \in KeptLines \X Nat /\ v \in KeptLines \X Nat /\ u[1] \in Nat /\ v[1] \in Nat
    BY <1>4, LinesAre
  <2>2. <<u[1], v[1]>> \in Smaller <=> u[1] < v[1]
    BY <2>1 DEF Smaller
  <2> QED BY <2>1, <2>2 DEF UseOrder, Lex, before
<1> QED BY <1>2, <1>4, <1>5, <1>6, <1>7, <1>8

\* The elements of a list, by the number of those before them.
InPlace(A, R, i) == CHOOSE v \in A : Cardinality({w \in A : <<w, v>> \in R}) = i - 1

LEMMA RankChosen ==
  ASSUME NEW t, NEW A, NEW f, NEW R, Asymmetric(A, R), Traces(t, A, f, R)
  PROVE  /\ t = [i \in 1..Cardinality(A) |-> f[InPlace(A, R, i)]]
         /\ \A i \in 1..Cardinality(A) : InPlace(A, R, i) \in A
<1>1. PICK u : TracedBy(u, t, A, f, R)
  BY DEF Traces
<1>2. Len(t) \in Nat /\ t = [i \in 1..Len(t) |-> t[i]]
  <2>1. t \in Seq(ToSet(t))
    BY <1>1, InSeq DEF TracedBy
  <2> QED BY <2>1
<1>3. /\ Cardinality(A) = Len(t)
      /\ \A i, j \in 1..Len(t) : u[i] = u[j] => i = j
      /\ \A i \in 1..Len(t) : Cardinality({w \in A : <<w, u[i]>> \in R}) = i - 1
  BY <1>1, <1>2, RankOf DEF TracedBy
<1>4. ASSUME NEW i \in 1..Len(t)
      PROVE  t[i] = f[InPlace(A, R, i)] /\ InPlace(A, R, i) \in A
  <2> DEFINE P(v) == Cardinality({w \in A : <<w, v>> \in R}) = i - 1
             c == CHOOSE v \in A : P(v)
  <2>1. u[i] \in A /\ t[i] = f[u[i]] /\ P(u[i])
    BY <1>1, <1>3 DEF TracedBy
  <2>2. ASSUME NEW v \in A, P(v) PROVE v = u[i]
    <3>1. PICK j \in 1..Len(t) : u[j] = v
      BY <1>1 DEF TracedBy
    <3>2. j - 1 = i - 1
      BY <3>1, <1>3, <2>2
    <3>3. j = i
      BY <3>2, <1>2
    <3> QED BY <3>1, <3>3
  <2>3. c = u[i]
    <3> HIDE DEF P
    <3> QED BY <2>1, <2>2
  <2> QED BY <2>1, <2>3 DEF InPlace
<1> QED BY <1>2, <1>3, <1>4

\* A listed sequence of records: its sources.
LEMMA SourcesIs ==
  ASSUME NEW recs, NEW A, NEW f, NEW R, Asymmetric(A, R), Traces(recs, A, f, R)
  PROVE  /\ {r.source : r \in ToSet(recs)} = {s \in {f[a].source : a \in A} : Part(A, f, s) # {}}
         /\ grouped(recs) = {sequenceOf(s, recordsOf(recs, s)) : s \in {f[a].source : a \in A}}
         /\ IsFiniteSet(grouped(recs))
<1>1. ToSet(recs) = {f[a] : a \in A}
  BY Listed
<1>2. {r.source : r \in ToSet(recs)} = {f[a].source : a \in A}
  BY <1>1
<1>3. \A a \in A : Part(A, f, f[a].source) # {}
  BY DEF Part
<1>4. IsFiniteSet(A)
  BY SameLength
<1> DEFINE F(a) == sequenceOf(f[a].source, recordsOf(recs, f[a].source))
<1>5. grouped(recs) = {sequenceOf(s, recordsOf(recs, s)) : s \in {f[a].source : a \in A}}
  BY <1>2 DEF grouped, recordsOf
<1>6. grouped(recs) = {F(a) : a \in A}
  BY <1>5
<1> HIDE DEF F
<1>7. IsFiniteSet({F(a) : a \in A})
  <2> DEFINE h == [a \in A |-> F(a)]
  <2>1. h \in [A -> {F(a) : a \in A}] /\ \A y \in {F(a) : a \in A} : \E a \in A : h[a] = y
    OBVIOUS
  <2> HIDE DEF h
  <2> QED BY <2>1, <1>4, ImageFinite
<1> QED BY <1>2, <1>3, <1>5, <1>6, <1>7

ToolToken(s, i) ==
  LET u == CHOOSE v \in uses(s) : Cardinality({w \in uses(s) : earlier(w, v)}) = i - 1
  IN Lines[u[1]].tools[u[2]]
ToolTokens(s) == [i \in 1..Cardinality(uses(s)) |-> ToolToken(s, i)]
Sessions == {l.session : l \in ToSet(Lines)}
Earlier(s) == {p \in uses(s) \X uses(s) : earlier(p[1], p[2])}
Tool(s) == [u \in uses(s) |-> Lines[u[1]].tools[u[2]]]

LEMMA SessionPart ==
  ASSUME Mining, NEW s
  PROVE  Part(AllUses, UseRecords, s) = uses(s) /\ (uses(s) # {} => s \in Sessions)
<1>1. ASSUME NEW u \in AllUses PROVE u \in uses(s) <=> UseRecords[u].source = s
  <2>1. u[1] \in KeptLines /\ u[2] \in DOMAIN Lines[u[1]].tools /\ u = <<u[1], u[2]>>
    <3>1. u \in KeptLines \X Nat
      BY UsesAre
    <3> QED BY <3>1, UsesAre
  <2>2. UseRecords[u].source = Lines[u[1]].session
    <3>1. UseRecords[u] = UseRecord(u[1], u[2])
      BY UsesAre
    <3> QED BY <3>1 DEF UseRecord
  <2>3. Lines[u[1]].session = s => u \in uses(s)
    BY <2>1 DEF uses, KeptLines, Lines
  <2>4. ASSUME u \in uses(s) PROVE Lines[u[1]].session = s
    <3>1. PICK i \in {k \in DOMAIN Lines : /\ Lines[k].session = s /\ Lines[k].ok /\ Lines[k].at >= extract.window
                                     /\ s \notin refused(Lines)} :
             u \in {<<i, j>> : j \in DOMAIN Lines[i].tools}
      BY <2>4 DEF uses, Lines
    <3> QED BY <3>1
  <2> QED BY <2>2, <2>3, <2>4
<1>2. ASSUME NEW u \in uses(s) PROVE u \in AllUses /\ s \in Sessions
  <2>1. PICK i \in {k \in DOMAIN Lines : /\ Lines[k].session = s /\ Lines[k].ok /\ Lines[k].at >= extract.window
                                     /\ s \notin refused(Lines)} :
           u \in {<<i, j>> : j \in DOMAIN Lines[i].tools}
    BY DEF uses, Lines
  <2>2. i \in KeptLines /\ Lines[i] \in ToSet(Lines)
    BY <2>1, LinesAre DEF KeptLines
  <2> QED BY <2>1, <2>2, UsesAre DEF Sessions
<1> QED BY <1>1, <1>2 DEF Part

\* What buildToolSequences makes of a session that used tools.
LEMMA SessionIs ==
  ASSUME Mining, timesKeepOrder, NEW s, uses(s) # {}
  PROVE  LET g == sequenceOf(s, recordsOf(toolRecords(Lines, extract.window), s))
         IN  /\ g.source = s /\ g.tokens = ToolTokens(s) /\ IsSeq(g.tokens)
             /\ g.first \in Int /\ g.last \in Int /\ g.first <= g.last
<1> DEFINE recs == toolRecords(Lines, extract.window)
           es == recordsOf(recs, s)
           B == uses(s)
           Q == Timed(UseRecords, B, UseOrder)
           w == TokensOf(B, UseRecords)
           g == sequenceOf(s, es)
<1>1. Part(AllUses, UseRecords, s) = B /\ s \in Sessions /\ B \subseteq AllUses
  BY SessionPart DEF Part
<1>2. /\ Traces(recs, AllUses, UseRecords, UseOrder) /\ Asymmetric(AllUses, UseOrder)
      /\ \A u, v \in AllUses : <<u, v>> \in UseOrder <=> before(u, v)
  BY UsesAre
<1>3. \A u \in AllUses : /\ UseRecords[u].at = atOf(u) /\ atOf(u) \in Int
                         /\ UseRecords[u].tokens = <<Lines[u[1]].tools[u[2]]>>
  <2> SUFFICES ASSUME NEW u \in AllUses
               PROVE  /\ UseRecords[u].at = atOf(u) /\ atOf(u) \in Int
                      /\ UseRecords[u].tokens = <<Lines[u[1]].tools[u[2]]>>
    OBVIOUS
  <2>1. u[1] \in KeptLines /\ UseRecords[u] = UseRecord(u[1], u[2])
    BY UsesAre
  <2>2. Lines[u[1]].at \in Int
    BY <2>1, LinesAre DEF KeptLines
  <2> QED BY <2>1, <2>2 DEF UseRecord, atOf, Lines
<1>4. Traces(es, B, UseRecords, UseOrder)
  BY <1>1, <1>2, RecordsTrace
<1>5. Asymmetric(B, UseOrder)
  BY <1>1, <1>2 DEF Asymmetric
<1>6. \A u, v \in B : <<u, v>> \in UseOrder <=> before(u, v)
  BY <1>1, <1>2
<1>7. \A u \in B : UseRecords[u].at = atOf(u) /\ atOf(u) \in Int
  BY <1>1, <1>3
<1> HIDE DEF B, recs, es
<1>8. KeepsTies(es, B, UseRecords, UseOrder)
  <2>1. \/ Cardinality(B) <= maxInsertion
        \/ \A u, v \in B : before(u, v) => atOf(u) <= atOf(v)
        \/ \A u, v \in B : before(u, v) => atOf(u) # atOf(v)
    BY <1>1 DEF timesKeepOrder, B, Sessions, Lines
  <2>2. CASE Cardinality(B) <= maxInsertion
    <3>1. Len(es) = Cardinality(B)
      BY <1>4, <1>5, SameLength
    <3> QED BY <2>2, <3>1 DEF KeepsTies
  <2>3. CASE \A u, v \in B : before(u, v) => atOf(u) <= atOf(v)
    <3>1. PICK u : TracedBy(u, es, B, UseRecords, UseOrder)
      BY <1>4 DEF Traces
    <3>2. DOMAIN es = 1..Len(es)
      BY <3>1, InSeq DEF TracedBy
    <3>3. ASSUME NEW k \in DOMAIN es, NEW l \in DOMAIN es, k < l PROVE es[k].at <= es[l].at
      <4>1. u[k] \in B /\ u[l] \in B /\ <<u[k], u[l]>> \in UseOrder
        BY <3>1, <3>2, <3>3 DEF TracedBy
      <4>2. es[k] = UseRecords[u[k]] /\ es[l] = UseRecords[u[l]]
        BY <3>1, <3>2 DEF TracedBy
      <4>3. atOf(u[k]) <= atOf(u[l])
        BY <4>1, <1>6, <2>3
      <4> QED BY <4>1, <4>2, <4>3, <1>7
    <3> QED BY <3>3 DEF KeepsTies, inOrder
  <2>4. CASE \A u, v \in B : before(u, v) => atOf(u) # atOf(v)
    BY <2>4, <1>6, <1>7 DEF KeepsTies
  <2> QED BY <2>1, <2>2, <2>3, <2>4
<1>9. \A u \in B : IsSeq(UseRecords[u].tokens)
  <2>1. \A u \in B : UseRecords[u].tokens = <<Lines[u[1]].tools[u[2]]>>
    BY <1>1, <1>3
  <2>2. \A u \in B : IsSeq(<<Lines[u[1]].tools[u[2]]>>)
    BY ShortSeqs
  <2> QED BY <2>1, <2>2
<1> HIDE DEF g
<1>10. /\ g.source = s
       /\ Traces(g.tokens, Places(B, w), ToldBy(B, w), Lex(B, Q))
       /\ g.first \in Int /\ g.last \in Int /\ g.first <= g.last
  <2>1. B # {}
    BY DEF B
  <2> QED BY <2>1, <1>4, <1>5, <1>7, <1>8, <1>9, SequenceIs DEF g
<1>11. \A u \in B : w[u] = <<Tool(s)[u]>>
  BY <1>1, <1>3 DEF TokensOf, Tool, B
<1>12. Places(B, w) = {<<u, 1>> : u \in B} /\ \A u \in B : ToldBy(B, w)[<<u, 1>>] = Tool(s)[u]
  <2>1. \A u \in B : DOMAIN w[u] = {1} /\ w[u][1] = Tool(s)[u]
    BY <1>11, ShortSeqs
  <2>2. Places(B, w) = {<<u, 1>> : u \in B}
    BY <2>1 DEF Places
  <2> QED BY <2>1, <2>2 DEF ToldBy
<1> DEFINE name == [p \in Places(B, w) |-> p[1]]
<1> HIDE DEF w
<1>13. Traces(g.tokens, B, Tool(s), Earlier(s))
  <2>1. name \in [Places(B, w) -> B] /\ \A u \in B : \E p \in Places(B, w) : name[p] = u
    <3>1. \A u \in B : <<u, 1>> \in Places(B, w) /\ name[<<u, 1>>] = u
      BY <1>12
    <3> QED BY <1>12, <3>1
  <2>2. \A p, q \in Places(B, w) : <<p, q>> \in Lex(B, Q) => <<name[p], name[q]>> \in Earlier(s)
    <3> SUFFICES ASSUME NEW x \in B, NEW y \in B, <<<<x, 1>>, <<y, 1>>>> \in Lex(B, Q)
                 PROVE  <<x, y>> \in Earlier(s)
      BY <1>12
    <3>1. <<x, y>> \in Q
      BY DEF Lex
    <3>2. atOf(x) < atOf(y) \/ (atOf(x) = atOf(y) /\ before(x, y))
      BY <3>1, <1>6, <1>7 DEF Timed
    <3> QED BY <3>2 DEF earlier, Earlier, B
  <2>3. IsSeq(g.tokens)
    BY <1>10, Listed
  <2>4. \A n \in 1..Len(g.tokens), p \in Places(B, w) :
          g.tokens[n] = ToldBy(B, w)[p] => g.tokens[n] = Tool(s)[name[p]]
    BY <1>12
  <2> HIDE DEF name
  <2> QED BY <1>10, <2>1, <2>2, <2>3, <2>4, Renamed
<1>14. Asymmetric(B, Earlier(s))
  <2>1. Asymmetric(B, Q)
    BY <1>5, <1>7, TimedAsymmetric
  <2>2. \A x, y \in B : <<x, y>> \in Earlier(s) <=> <<x, y>> \in Q
    BY <1>6, <1>7 DEF Earlier, earlier, Timed, B
  <2> QED BY <2>1, <2>2 DEF Asymmetric
<1>15. /\ g.tokens = [n \in 1..Cardinality(B) |-> Tool(s)[InPlace(B, Earlier(s), n)]]
       /\ \A n \in 1..Cardinality(B) : InPlace(B, Earlier(s), n) \in B
  BY <1>13, <1>14, RankChosen
<1>16. \A n \in 1..Cardinality(B) : Tool(s)[InPlace(B, Earlier(s), n)] = ToolToken(s, n)
  <2>1. \A v \in B : {x \in B : <<x, v>> \in Earlier(s)} = {x \in B : earlier(x, v)}
    BY DEF Earlier, B
  <2>2. \A n : InPlace(B, Earlier(s), n) = CHOOSE v \in B : Cardinality({x \in B : earlier(x, v)}) = n - 1
    BY <2>1 DEF InPlace
  <2> SUFFICES ASSUME NEW n \in 1..Cardinality(B) PROVE Tool(s)[InPlace(B, Earlier(s), n)] = ToolToken(s, n)
    OBVIOUS
  <2> DEFINE u == InPlace(B, Earlier(s), n)
  <2>3. u \in uses(s)
    BY <1>15 DEF B
  <2>4. ToolToken(s, n) = Lines[u[1]].tools[u[2]]
    BY <2>2 DEF ToolToken, B
  <2> HIDE DEF u
  <2>5. Tool(s)[u] = Lines[u[1]].tools[u[2]]
    BY <2>3 DEF Tool
  <2> QED BY <2>4, <2>5 DEF u
<1>17. g.tokens = ToolTokens(s)
  BY <1>15, <1>16 DEF ToolTokens, B
<1>18. IsSeq(g.tokens)
  BY <1>10, Listed
<1> QED BY <1>10, <1>17, <1>18 DEF g, es, recs

\* The sequences of the sessions are the tools they used, in the order of time and
\* then of the transcript's lines, as long as sort.Slice keeps the order of equal
\* times (timesKeepOrder, buildToolSequences).
THEOREM ToolsAgree ==
  ASSUME Mining, timesKeepOrder
  PROVE  Agree(buildToolSequences(Lines, extract.window), toolSources)
<1> DEFINE recs == toolRecords(Lines, extract.window)
           G(s) == sequenceOf(s, recordsOf(recs, s))
           T(s) == [source |-> s, tokens |-> ToolTokens(s)]
           used == {s \in Sessions : uses(s) # {}}
           S == buildToolSequences(Lines, extract.window)
<1>1. toolSources = {T(s) : s \in Sessions}
  BY DEF toolSources, ToolTokens, ToolToken, Sessions, Lines
<1>2. Traces(recs, AllUses, UseRecords, UseOrder) /\ Asymmetric(AllUses, UseOrder)
  BY UsesAre
<1>3. /\ S = {G(s) : s \in {UseRecords[u].source : u \in AllUses}}
      /\ IsFiniteSet(S)
  BY <1>2, SourcesIs DEF buildToolSequences
<1>4. {UseRecords[u].source : u \in AllUses} = used
  <2>1. ASSUME NEW u \in AllUses PROVE UseRecords[u].source \in used
    <3>1. u \in Part(AllUses, UseRecords, UseRecords[u].source)
      BY DEF Part
    <3> QED BY <3>1, SessionPart
  <2>2. ASSUME NEW s \in used PROVE \E u \in AllUses : UseRecords[u].source = s
    BY SessionPart DEF Part
  <2> QED BY <2>1, <2>2
<1>5. \A s \in used : /\ G(s).source = s /\ G(s).tokens = ToolTokens(s) /\ IsSeq(G(s).tokens)
                      /\ G(s).first \in Int /\ G(s).last \in Int /\ G(s).first <= G(s).last
  BY SessionIs
<1>6. \A s \in Sessions : T(s).source = s /\ T(s).tokens = ToolTokens(s)
  OBVIOUS
<1>7. \A s \in Sessions : s \notin used => DOMAIN ToolTokens(s) = {}
  <2> SUFFICES ASSUME NEW s \in Sessions, uses(s) = {} PROVE DOMAIN ToolTokens(s) = {}
    OBVIOUS
  <2>1. Cardinality(uses(s)) = 0
    BY FS_EmptySet
  <2> QED BY <2>1 DEF ToolTokens
<1> HIDE DEF recs, G, T, S
<1>8. S = {G(s) : s \in used}
  BY <1>3, <1>4
<1>9. used \subseteq Sessions
  OBVIOUS
<1> HIDE DEF used
<1>10. \A s \in S : /\ IsSeq(s.tokens) /\ s.first \in Int /\ s.last \in Int /\ s.first <= s.last
                    /\ \E p \in toolSources : p.source = s.source /\ p.tokens = s.tokens
  <2> SUFFICES ASSUME NEW s \in used
               PROVE  /\ IsSeq(G(s).tokens) /\ G(s).first \in Int /\ G(s).last \in Int /\ G(s).first <= G(s).last
                      /\ \E p \in toolSources : p.source = G(s).source /\ p.tokens = G(s).tokens
    BY <1>8
  <2>1. T(s) \in toolSources /\ T(s).source = G(s).source /\ T(s).tokens = G(s).tokens
    BY <1>1, <1>5, <1>6, <1>9
  <2> QED BY <1>5, <2>1
<1>11. \A p \in toolSources : DOMAIN p.tokens = {} \/ \E s \in S : s.source = p.source /\ s.tokens = p.tokens
  <2> SUFFICES ASSUME NEW s \in Sessions, s \in used
               PROVE  \E r \in S : r.source = T(s).source /\ r.tokens = T(s).tokens
    BY <1>1, <1>6, <1>7
  <2>1. G(s) \in S
    BY <1>8
  <2> QED BY <2>1, <1>5, <1>6
<1>12. \A s, t \in S : s.source = t.source => s = t
  BY <1>5, <1>8
<1>13. \A p, q \in toolSources : p.source = q.source => p = q
  BY <1>1, <1>6
<1> QED BY <1>3, <1>10, <1>11, <1>12, <1>13 DEF Agree, S

-----------------------------------------------------------------------------
(***************************************************************************)
(* Extraction: the done tasks of the specs.                                *)
(***************************************************************************)
Specs == history[1].specs
TaskRecord(i, j, t) == [source |-> Specs[i].path, at |-> t, tokens |-> Specs[i].tasks[j]]
SpecRecords(t) == [i \in DOMAIN Specs |-> [j \in DOMAIN Specs[i].tasks |-> TaskRecord(i, j, t)]]
AllTasks == UNION {{<<i, j>> : j \in DOMAIN Specs[i].tasks} : i \in DOMAIN Specs}
TaskOrder == Lex(DOMAIN Specs, Smaller)
TaskRecords(t) == ToldBy(DOMAIN Specs, SpecRecords(t))
KeptTasks == {a \in AllTasks : Specs[a[1]].tasks[a[2]] # <<>>}
taskList(t) == FlattenSeq([i \in DOMAIN Specs |->
                 [j \in DOMAIN Specs[i].tasks |-> [source |-> Specs[i].path, at |-> t, tokens |-> Specs[i].tasks[j]]]])
keptList(t) == within(taskList(t), {r \in ToSet(taskList(t)) : r.tokens # <<>>})

LEMMA SpecsAre ==
  ASSUME Mining
  PROVE  /\ IsSeq(Specs) /\ Len(Specs) \in Nat /\ DOMAIN Specs = 1..Len(Specs)
         /\ \A i \in DOMAIN Specs :
              /\ Specs[i] \in ToSet(Specs) /\ IsSeq(Specs[i].tasks)
              /\ DOMAIN Specs[i].tasks = 1..Len(Specs[i].tasks) /\ Len(Specs[i].tasks) \in Nat
              /\ \A j \in DOMAIN Specs[i].tasks : IsSeq(Specs[i].tasks[j])
         /\ \A i, j \in DOMAIN Specs : Specs[i].path = Specs[j].path => i = j
         /\ DOMAIN Specs \subseteq Nat
<1>1. /\ Specs \in Seq(ToSet(Specs))
      /\ \A d \in ToSet(Specs) : d.tasks \in Seq(ToSet(d.tasks)) /\ \A tokens \in ToSet(d.tasks) : tokens \in Seq(ToSet(tokens))
      /\ \A i, j \in DOMAIN Specs : Specs[i].path = Specs[j].path => i = j
  BY DEF Mining, IsHistory, Specs
<1>2. IsSeq(Specs)
  BY <1>1 DEF IsSeq
<1>3. Len(Specs) \in Nat /\ DOMAIN Specs = 1..Len(Specs) /\ \A i \in DOMAIN Specs : Specs[i] \in ToSet(Specs)
  BY <1>2, InSeq
<1>4. ASSUME NEW i \in DOMAIN Specs
      PROVE  /\ IsSeq(Specs[i].tasks) /\ DOMAIN Specs[i].tasks = 1..Len(Specs[i].tasks) /\ Len(Specs[i].tasks) \in Nat
             /\ \A j \in DOMAIN Specs[i].tasks : IsSeq(Specs[i].tasks[j])
  <2>1. IsSeq(Specs[i].tasks)
    BY <1>1, <1>3 DEF IsSeq
  <2>2. \A tokens \in ToSet(Specs[i].tasks) : IsSeq(tokens)
    BY <1>1, <1>3 DEF IsSeq
  <2> QED BY <2>1, <2>2, InSeq
<1> QED BY <1>1, <1>2, <1>3, <1>4

LEMMA TasksAre ==
  ASSUME Mining, NEW t
  PROVE  /\ KeptTasks \subseteq (DOMAIN Specs) \X Nat
         /\ \A a \in KeptTasks : /\ a[1] \in DOMAIN Specs /\ a[2] \in DOMAIN Specs[a[1]].tasks
                                 /\ TaskRecords(t)[a] = TaskRecord(a[1], a[2], t)
         /\ Traces(keptList(t), KeptTasks, TaskRecords(t), TaskOrder)
         /\ Asymmetric(KeptTasks, TaskOrder)
<1> DEFINE G == SpecRecords(t)
           F == TaskRecords(t)
           recs == taskList(t)
           S == {r \in ToSet(recs) : r.tokens # <<>>}
<1>1. \A i \in DOMAIN Specs : DOMAIN G[i] = DOMAIN Specs[i].tasks
  BY DEF SpecRecords
<1>2. AllTasks = Places(DOMAIN Specs, G)
  BY <1>1 DEF AllTasks, Places
<1>3. ASSUME NEW i \in DOMAIN Specs PROVE IsSeq(G[i])
  <2> DEFINE r == [j \in DOMAIN Specs[i].tasks |-> TaskRecord(i, j, t)]
             n == Len(Specs[i].tasks)
  <2>1. DOMAIN Specs[i].tasks = 1..n /\ n \in Nat
    BY SpecsAre
  <2>2. r = [j \in 1..n |-> r[j]] /\ \A j \in 1..n : r[j] \in {r[l] : l \in 1..n}
    BY <2>1
  <2>3. G[i] = r
    BY DEF SpecRecords
  <2> HIDE DEF r, n
  <2>4. r \in Seq({r[l] : l \in 1..n})
    BY <2>1, <2>2
  <2> QED BY <2>3, <2>4, SeqIsSeq
<1>4. IsSeq(G)
  <2>1. G = [i \in 1..Len(Specs) |-> G[i]] /\ Len(Specs) \in Nat
    BY SpecsAre DEF SpecRecords
  <2> HIDE DEF G
  <2>2. \A i \in 1..Len(Specs) : G[i] \in {G[l] : l \in 1..Len(Specs)}
    OBVIOUS
  <2>3. G \in Seq({G[l] : l \in 1..Len(Specs)})
    BY <2>1, <2>2
  <2> QED BY <2>3, SeqIsSeq
<1>5. DOMAIN G = DOMAIN Specs /\ FlattenSeq(G) = recs
  BY DEF SpecRecords, taskList, TaskRecord
<1>6. Traces(recs, AllTasks, F, TaskOrder)
  <2>1. Traces(G, DOMAIN Specs, G, Smaller)
    BY <1>4, <1>5, OwnTrace
  <2> HIDE DEF G
  <2> QED BY <2>1, <1>2, <1>3, <1>5, FlattenTraces DEF TaskOrder, TaskRecords, G
<1>7. AllTasks \subseteq (DOMAIN Specs) \X Nat
  <2>1. ASSUME NEW i \in DOMAIN Specs, NEW j \in DOMAIN Specs[i].tasks PROVE <<i, j>> \in (DOMAIN Specs) \X Nat
    BY SpecsAre
  <2> QED BY <2>1 DEF AllTasks
<1>8. ASSUME NEW a \in AllTasks
      PROVE  a[1] \in DOMAIN Specs /\ a[2] \in DOMAIN Specs[a[1]].tasks /\ F[a] = TaskRecord(a[1], a[2], t)
  <2>1. PICK i \in DOMAIN Specs : a \in {<<i, j>> : j \in DOMAIN Specs[i].tasks}
    BY DEF AllTasks
  <2>2. PICK j \in DOMAIN Specs[i].tasks : a = <<i, j>>
    BY <2>1
  <2>3. a[1] = i /\ a[2] = j
    BY <2>2
  <2>4. F[a] = G[a[1]][a[2]]
    BY <1>2 DEF TaskRecords, ToldBy
  <2>5. G[i][j] = TaskRecord(i, j, t)
    BY DEF SpecRecords
  <2> HIDE DEF F, G
  <2> QED BY <2>3, <2>4, <2>5
<1>9. Asymmetric(KeptTasks, TaskOrder)
  <2>1. Asymmetric(DOMAIN Specs, Smaller)
    BY SmallerAsymmetric
  <2>2. KeptTasks \in SUBSET ((DOMAIN Specs) \X Nat)
    BY <1>7 DEF KeptTasks
  <2> QED BY <2>1, <2>2, LexAsymmetric DEF TaskOrder
<1> HIDE DEF F, recs
<1>10. {a \in AllTasks : F[a] \in S} = KeptTasks
  <2>1. ToSet(recs) = {F[a] : a \in AllTasks}
    BY <1>6, Listed
  <2>2. \A a \in AllTasks : F[a].tokens = Specs[a[1]].tasks[a[2]]
    <3>1. \A i, j : TaskRecord(i, j, t).tokens = Specs[i].tasks[j]
      BY DEF TaskRecord
    <3> QED BY <1>8, <3>1
  <2> QED BY <2>1, <2>2 DEF KeptTasks
<1>11. Traces(keptList(t), KeptTasks, F, TaskOrder)
  <2>1. Traces(within(recs, S), {a \in AllTasks : F[a] \in S}, F, TaskOrder)
    BY <1>6, WithinTraces
  <2> QED BY <2>1, <1>10 DEF keptList, recs
<1> QED BY <1>7, <1>8, <1>9, <1>11 DEF KeptTasks, F

\* What buildFileSequences makes of a spec with a done task that names a file.
SpecTasks(k) == {a \in KeptTasks : a[1] = k}

LEMMA SpecIs ==
  ASSUME Mining, NEW t \in Int, NEW k \in DOMAIN Specs, SpecTasks(k) # {}
  PROVE  LET g == sequenceOf(Specs[k].path, recordsOf(keptList(t), Specs[k].path))
         IN  /\ g.source = Specs[k].path /\ g.tokens = FlattenSeq(Specs[k].tasks) /\ IsSeq(g.tokens)
             /\ g.first \in Int /\ g.last \in Int /\ g.first <= g.last
<1> DEFINE F == TaskRecords(t)
           B == SpecTasks(k)
           path == Specs[k].path
           es == recordsOf(keptList(t), path)
           g == sequenceOf(path, es)
           w == TokensOf(B, F)
           Q == Timed(F, B, TaskOrder)
           ts == Specs[k].tasks
<1>1. /\ \A a \in KeptTasks : /\ a[1] \in DOMAIN Specs /\ a[2] \in DOMAIN Specs[a[1]].tasks
                              /\ F[a] = TaskRecord(a[1], a[2], t)
      /\ Traces(keptList(t), KeptTasks, F, TaskOrder)
      /\ Asymmetric(KeptTasks, TaskOrder)
      /\ KeptTasks \subseteq (DOMAIN Specs) \X Nat
  BY TasksAre
<1>2. \A a \in KeptTasks : F[a].source = Specs[a[1]].path /\ F[a].at = t /\ F[a].tokens = Specs[a[1]].tasks[a[2]]
  <2>1. \A i, j : /\ TaskRecord(i, j, t).source = Specs[i].path /\ TaskRecord(i, j, t).at = t
                  /\ TaskRecord(i, j, t).tokens = Specs[i].tasks[j]
    BY DEF TaskRecord
  <2> HIDE DEF F
  <2> QED BY <1>1, <2>1
<1> HIDE DEF F
<1>3. Part(KeptTasks, F, path) = B
  BY <1>1, <1>2, SpecsAre DEF Part, SpecTasks
<1>4. \A a \in B : a \in KeptTasks /\ a[1] = k /\ a[2] \in DOMAIN ts /\ F[a].at = t /\ F[a].tokens = ts[a[2]]
  BY <1>1, <1>2 DEF SpecTasks
<1>5. IsSeq(ts) /\ (\A j \in DOMAIN ts : IsSeq(ts[j])) /\ DOMAIN ts \subseteq Nat
  BY SpecsAre
<1>6. Traces(es, B, F, TaskOrder)
  BY <1>1, <1>3, RecordsTrace
<1>7. Asymmetric(B, TaskOrder)
  BY <1>1, <1>4 DEF Asymmetric
<1> HIDE DEF es, g, B, path
<1>8. KeepsTies(es, B, F, TaskOrder)
  <2>1. ToSet(es) = {F[a] : a \in B} /\ IsSeq(es)
    BY <1>6, Listed
  <2>2. \A x \in ToSet(es) : x.at = t
    BY <2>1, <1>4
  <2>3. \A i \in DOMAIN es : es[i].at = t
    BY <2>1, <2>2, InSeq
  <2> QED BY <2>3 DEF KeepsTies, inOrder
<1>9. /\ g.source = path
      /\ Traces(g.tokens, Places(B, w), ToldBy(B, w), Lex(B, Q))
      /\ g.first \in Int /\ g.last \in Int /\ g.first <= g.last
  <2>1. \A a \in B : F[a].at \in Int /\ IsSeq(F[a].tokens)
    BY <1>4, <1>5
  <2>2. B # {}
    BY DEF B
  <2> QED BY <2>1, <2>2, <1>6, <1>7, <1>8, SequenceIs DEF g
<1>10. \A a \in B : w[a] = ts[a[2]]
  BY <1>4 DEF TokensOf
<1> DEFINE A == DOMAIN ts
           PB == Places(B, w)
           PA == Places(A, ts)
           name == [p \in PB |-> <<p[1][2], p[2]>>]
<1> HIDE DEF w, ts
<1>11. Traces(FlattenSeq(ts), PA, ToldBy(A, ts), Lex(A, Smaller))
  <2>1. Traces(ts, A, ts, Smaller)
    BY <1>5, OwnTrace
  <2> QED BY <2>1, <1>5, FlattenTraces
<1>12. PA = UNION {{<<j, i>> : i \in DOMAIN ts[j]} : j \in A} /\ PB = UNION {{<<a, i>> : i \in DOMAIN w[a]} : a \in B}
  BY DEF Places
<1>13. Asymmetric(PA, Lex(A, Smaller))
  <2>1. Asymmetric(A, Smaller)
    BY SmallerAsymmetric
  <2>2. PA \in SUBSET (A \X Nat)
    <3>1. ASSUME NEW j \in A, NEW i \in DOMAIN ts[j] PROVE <<j, i>> \in A \X Nat
      <4>1. DOMAIN ts[j] = 1..Len(ts[j]) /\ Len(ts[j]) \in Nat
        BY <1>5, InSeq
      <4> QED BY <4>1
    <3> QED BY <3>1, <1>12
  <2> HIDE DEF PA, A
  <2> QED BY <2>1, <2>2, LexAsymmetric
<1>14. \A a \in B : \A i \in DOMAIN w[a] :
         /\ <<a, i>> \in PB /\ name[<<a, i>>] = <<a[2], i>> /\ <<a[2], i>> \in PA
         /\ ToldBy(B, w)[<<a, i>>] = w[a][i] /\ ToldBy(A, ts)[<<a[2], i>>] = ts[a[2]][i]
  <2> SUFFICES ASSUME NEW a \in B, NEW i \in DOMAIN w[a]
               PROVE  /\ <<a, i>> \in PB /\ name[<<a, i>>] = <<a[2], i>> /\ <<a[2], i>> \in PA
                      /\ ToldBy(B, w)[<<a, i>>] = w[a][i] /\ ToldBy(A, ts)[<<a[2], i>>] = ts[a[2]][i]
    OBVIOUS
  <2>1. <<a, i>> \in PB
    BY <1>12
  <2>2. a[2] \in A /\ i \in DOMAIN ts[a[2]]
    BY <1>4, <1>10 DEF ts
  <2>3. <<a[2], i>> \in PA
    BY <2>2, <1>12
  <2>4. name[<<a, i>>] = <<a[2], i>>
    BY <2>1
  <2>5. ToldBy(B, w)[<<a, i>>] = w[a][i]
    BY <2>1 DEF ToldBy
  <2>6. ToldBy(A, ts)[<<a[2], i>>] = ts[a[2]][i]
    BY <2>3 DEF ToldBy
  <2> QED BY <2>1, <2>3, <2>4, <2>5, <2>6
<1>15. /\ \A p \in PB : \E a \in B : \E i \in DOMAIN w[a] : p = <<a, i>>
       /\ \A p \in PA : \E j \in A : \E i \in DOMAIN ts[j] : p = <<j, i>>
  BY <1>12
<1>0. DOMAIN name = PB /\ name = [p \in PB |-> name[p]]
  OBVIOUS
<1> HIDE DEF name, PA, PB
<1>16. name \in [PB -> PA]
  <2>1. \A p \in PB : name[p] \in PA
    <3> SUFFICES ASSUME NEW a \in B, NEW i \in DOMAIN w[a] PROVE name[<<a, i>>] \in PA
      BY <1>15
    <3> QED BY <1>14
  <2> QED BY <2>1, <1>0
<1>17. \A q \in PA : \E p \in PB : name[p] = q
  <2> SUFFICES ASSUME NEW j \in A, NEW i \in DOMAIN ts[j] PROVE \E p \in PB : name[p] = <<j, i>>
    BY <1>15
  <2>1. ts[j] # <<>>
    BY <1>5, NothingIsSeq, InSeq
  <2>2. <<k, j>> \in B
    <3>1. <<k, j>> \in AllTasks
      BY DEF AllTasks, ts
    <3> QED BY <3>1, <2>1 DEF B, SpecTasks, KeptTasks, ts
  <2>3. i \in DOMAIN w[<<k, j>>]
    BY <2>2, <1>10 DEF ts
  <2> QED BY <2>2, <2>3, <1>14
<1>18. \A p, q \in PB : <<p, q>> \in Lex(B, Q) => <<name[p], name[q]>> \in Lex(A, Smaller)
  <2> SUFFICES ASSUME NEW a \in B, NEW i \in DOMAIN w[a], NEW b \in B, NEW j \in DOMAIN w[b],
                      <<<<a, i>>, <<b, j>>>> \in Lex(B, Q)
               PROVE  <<<<a[2], i>>, <<b[2], j>>>> \in Lex(A, Smaller)
    <3>1. ASSUME NEW p \in PB, NEW q \in PB, <<p, q>> \in Lex(B, Q) PROVE <<name[p], name[q]>> \in Lex(A, Smaller)
      <4>1. PICK a \in B : \E i \in DOMAIN w[a] : p = <<a, i>>
        BY <1>15
      <4>2. PICK i \in DOMAIN w[a] : p = <<a, i>>
        BY <4>1
      <4>3. PICK b \in B : \E j \in DOMAIN w[b] : q = <<b, j>>
        BY <1>15
      <4>4. PICK j \in DOMAIN w[b] : q = <<b, j>>
        BY <4>3
      <4>5. <<<<a[2], i>>, <<b[2], j>>>> \in Lex(A, Smaller)
        BY <4>2, <4>4, <3>1
      <4>6. name[p] = <<a[2], i>> /\ name[q] = <<b[2], j>>
        BY <4>2, <4>4, <1>14
      <4> QED BY <4>5, <4>6
    <3> QED BY <3>1
  <2>1. <<a, b>> \in Q \/ (a = b /\ i < j)
    BY DEF Lex
  <2>2. <<a, b>> \in Q => <<a, b>> \in TaskOrder
    BY <1>4 DEF Timed
  <2>3. a[1] = k /\ b[1] = k /\ a[2] \in A /\ b[2] \in A /\ a[2] \in Nat /\ b[2] \in Nat /\ k \in Nat
    BY <1>4, <1>5, SpecsAre DEF ts
  <2>4. <<a, b>> \in TaskOrder => <<k, k>> \in Smaller \/ a[2] < b[2]
    BY <2>3 DEF TaskOrder, Lex
  <2>5. <<k, k>> \notin Smaller
    BY <2>3 DEF Smaller
  <2>6. a[2] < b[2] => <<a[2], b[2]>> \in Smaller
    BY <2>3 DEF Smaller
  <2>7. i \in Nat /\ j \in Nat
    <3>1. IsSeq(w[a]) /\ IsSeq(w[b])
      BY <1>4, <1>5, <1>10 DEF ts
    <3> QED BY <3>1, InSeq
  <2>8. <<a[2], i>> \in A \X Nat /\ <<b[2], j>> \in A \X Nat
    BY <2>3, <2>7
  <2>9. <<a[2], b[2]>> \in Smaller \/ (a[2] = b[2] /\ i < j)
    BY <2>1, <2>2, <2>4, <2>5, <2>6
  <2> QED BY <2>8, <2>9 DEF Lex
<1>19. IsSeq(g.tokens)
  BY <1>9, Listed
<1>20. \A n \in 1..Len(g.tokens), p \in PB : g.tokens[n] = ToldBy(B, w)[p] => g.tokens[n] = ToldBy(A, ts)[name[p]]
  <2>1. \A p \in PB : ToldBy(B, w)[p] = ToldBy(A, ts)[name[p]]
    <3> SUFFICES ASSUME NEW a \in B, NEW i \in DOMAIN w[a] PROVE ToldBy(B, w)[<<a, i>>] = ToldBy(A, ts)[name[<<a, i>>]]
      BY <1>15
    <3>1. w[a] = ts[a[2]]
      BY <1>10 DEF ts
    <3>2. /\ ToldBy(B, w)[<<a, i>>] = w[a][i] /\ ToldBy(A, ts)[<<a[2], i>>] = ts[a[2]][i]
          /\ name[<<a, i>>] = <<a[2], i>>
      BY <1>14
    <3> HIDE DEF A
    <3> QED BY <3>1, <3>2
  <2> QED BY <2>1
<1> HIDE DEF A, Q
<1>21. Traces(g.tokens, PA, ToldBy(A, ts), Lex(A, Smaller))
  BY <1>9, <1>16, <1>17, <1>18, <1>19, <1>20, Renamed DEF PB
<1>22. g.tokens = FlattenSeq(ts)
  BY <1>11, <1>13, <1>21, SameTrace
<1> QED BY <1>9, <1>19, <1>22 DEF g, es, path, ts

LEMMA NoTaskNoToken ==
  ASSUME Mining, NEW k \in DOMAIN Specs, SpecTasks(k) = {}
  PROVE  DOMAIN FlattenSeq(Specs[k].tasks) = {}
<1> DEFINE ts == Specs[k].tasks
           A == DOMAIN ts
<1>1. IsSeq(ts) /\ (\A j \in A : IsSeq(ts[j]))
  BY SpecsAre
<1>2. \A j \in A : ts[j] = <<>>
  <2> SUFFICES ASSUME NEW j \in A, ts[j] # <<>> PROVE FALSE
    OBVIOUS
  <2>1. <<k, j>> \in AllTasks
    BY DEF AllTasks
  <2>2. <<k, j>> \in SpecTasks(k)
    BY <2>1 DEF SpecTasks, KeptTasks
  <2> QED BY <2>2
<1> HIDE DEF ts
<1>3. Traces(FlattenSeq(ts), Places(A, ts), ToldBy(A, ts), Lex(A, Smaller))
  <2>1. Traces(ts, A, ts, Smaller)
    BY <1>1, OwnTrace
  <2> QED BY <2>1, <1>1, FlattenTraces
<1>4. Places(A, ts) = {}
  <2>1. \A j \in A : DOMAIN ts[j] = {}
    <3>1. \A j \in A : Len(ts[j]) = 0 /\ DOMAIN ts[j] = 1..Len(ts[j])
      BY <1>1, <1>2, NothingIsSeq, InSeq
    <3> QED BY <3>1
  <2> QED BY <2>1 DEF Places
<1>5. ToSet(FlattenSeq(ts)) = {} /\ IsSeq(FlattenSeq(ts))
  BY <1>3, <1>4, Listed
<1>6. DOMAIN FlattenSeq(ts) = {}
  BY <1>5, InSeq
<1> QED BY <1>6 DEF ts

\* The sequences of the specs are the tokens of their done tasks, one task after the
\* other; a spec without tokens has none (buildFileSequences).
THEOREM SpecsAgree ==
  ASSUME Mining, NEW t \in Int
  PROVE  Agree(buildFileSequences(Specs, t), specSources)
<1> DEFINE recs == keptList(t)
           G(k) == sequenceOf(Specs[k].path, recordsOf(recs, Specs[k].path))
           T(k) == [source |-> Specs[k].path, tokens |-> FlattenSeq(Specs[k].tasks)]
           D == DOMAIN Specs
           used == {k \in D : SpecTasks(k) # {}}
           S == buildFileSequences(Specs, t)
<1>1. specSources = {T(k) : k \in D}
  <2>1. ToSet(Specs) = {Specs[k] : k \in D}
    BY DEF ToSet
  <2>2. specSources = {[source |-> d.path, tokens |-> FlattenSeq(d.tasks)] : d \in ToSet(Specs)}
    BY DEF specSources, Specs
  <2> QED BY <2>1, <2>2
<1>2. S = grouped(recs)
  BY DEF buildFileSequences, keptList, taskList
<1>3. /\ Traces(recs, KeptTasks, TaskRecords(t), TaskOrder) /\ Asymmetric(KeptTasks, TaskOrder)
      /\ \A a \in KeptTasks : a[1] \in D /\ TaskRecords(t)[a] = TaskRecord(a[1], a[2], t)
  BY TasksAre
<1>4. /\ S = {sequenceOf(s, recordsOf(recs, s)) : s \in {TaskRecords(t)[a].source : a \in KeptTasks}}
      /\ IsFiniteSet(S)
  BY <1>2, <1>3, SourcesIs
<1>5. {TaskRecords(t)[a].source : a \in KeptTasks} = {Specs[k].path : k \in used}
  <2>1. \A a \in KeptTasks : TaskRecords(t)[a].source = Specs[a[1]].path
    <3>1. \A i, j : TaskRecord(i, j, t).source = Specs[i].path
      BY DEF TaskRecord
    <3> QED BY <1>3, <3>1
  <2>2. \A a \in KeptTasks : a[1] \in used
    BY <1>3 DEF SpecTasks
  <2>3. \A k \in used : \E a \in KeptTasks : a[1] = k
    BY DEF SpecTasks
  <2> QED BY <2>1, <2>2, <2>3
<1>6. \A k \in used : /\ G(k).source = Specs[k].path /\ G(k).tokens = FlattenSeq(Specs[k].tasks) /\ IsSeq(G(k).tokens)
                      /\ G(k).first \in Int /\ G(k).last \in Int /\ G(k).first <= G(k).last
  BY SpecIs
<1>7. \A k \in D : T(k).source = Specs[k].path /\ T(k).tokens = FlattenSeq(Specs[k].tasks)
  OBVIOUS
<1>8. \A k \in D : k \notin used => DOMAIN FlattenSeq(Specs[k].tasks) = {}
  BY NoTaskNoToken
<1>9. S = {G(k) : k \in used}
  BY <1>4, <1>5
<1>10. used \subseteq D /\ \A k, j \in D : Specs[k].path = Specs[j].path => k = j
  BY SpecsAre
<1> HIDE DEF recs, G, T, S, used, D
<1>11. \A s \in S : /\ IsSeq(s.tokens) /\ s.first \in Int /\ s.last \in Int /\ s.first <= s.last
                    /\ \E p \in specSources : p.source = s.source /\ p.tokens = s.tokens
  <2> SUFFICES ASSUME NEW k \in used
               PROVE  /\ IsSeq(G(k).tokens) /\ G(k).first \in Int /\ G(k).last \in Int /\ G(k).first <= G(k).last
                      /\ \E p \in specSources : p.source = G(k).source /\ p.tokens = G(k).tokens
    BY <1>9
  <2>1. T(k) \in specSources /\ T(k).source = G(k).source /\ T(k).tokens = G(k).tokens
    BY <1>1, <1>6, <1>7, <1>10
  <2> QED BY <1>6, <2>1
<1>12. \A p \in specSources : DOMAIN p.tokens = {} \/ \E s \in S : s.source = p.source /\ s.tokens = p.tokens
  <2> SUFFICES ASSUME NEW k \in D, k \in used
               PROVE  \E r \in S : r.source = T(k).source /\ r.tokens = T(k).tokens
    BY <1>1, <1>7, <1>8
  <2>1. G(k) \in S
    BY <1>9
  <2> QED BY <2>1, <1>6, <1>7
<1>13. \A s, r \in S : s.source = r.source => s = r
  <2> SUFFICES ASSUME NEW k \in used, NEW j \in used, G(k).source = G(j).source PROVE G(k) = G(j)
    BY <1>9
  <2>1. k = j
    BY <1>6, <1>10
  <2> QED BY <2>1
<1>14. \A p, q \in specSources : p.source = q.source => p = q
  <2> SUFFICES ASSUME NEW k \in D, NEW j \in D, T(k).source = T(j).source PROVE T(k) = T(j)
    BY <1>1
  <2>1. k = j
    BY <1>7, <1>10
  <2> QED BY <2>1
<1> QED BY <1>4, <1>11, <1>12, <1>13, <1>14 DEF Agree, S

-----------------------------------------------------------------------------
(***************************************************************************)
(* Extraction: the commits that git log renders and the parser reads.      *)
(***************************************************************************)
GitRecordOf(header, numstat) ==
  [source |-> header[1].c.sha, at |-> header[1].c.at,
   tokens |-> <<header[1].c.type, header[1].c.scope>> \o dirTokens(numstatFiles(numstat))]

GitRecords(X) == {GitRecordOf(header, numstat) : header \in Seq(X), numstat \in Seq(X)}

EntryStates(X) == [header : Seq(X), numstat : Seq(X), inHeader : BOOLEAN, records : Seq(GitRecords(X))]

\* An entry that starts anew, with the records so far.
EntryWith(R) == [header |-> <<>>, numstat |-> <<>>, inHeader |-> TRUE, records |-> R]

LEMMA Anew == ASSUME NEW R PROVE [emptyEntry EXCEPT !.records = R] = EntryWith(R)
<1>1. \A a, b, c, d :
        [[header |-> a, numstat |-> b, inHeader |-> c, records |-> d] EXCEPT !.records = R]
        = [header |-> a, numstat |-> b, inHeader |-> c, records |-> R]
  OBVIOUS
<1> DEFINE e == <<>>
<1> HIDE DEF e
<1>2. [[header |-> e, numstat |-> e, inHeader |-> TRUE, records |-> e] EXCEPT !.records = R]
      = [header |-> e, numstat |-> e, inHeader |-> TRUE, records |-> R]
  BY <1>1
<1> QED BY <1>2 DEF emptyEntry, EntryWith, e

LEMMA EmptyTyped == ASSUME NEW X PROVE emptyEntry \in EntryStates(X)
  BY DEF emptyEntry, EntryStates

LEMMA FlushTyped == ASSUME NEW X, NEW st \in EntryStates(X) PROVE flush(st) \in EntryStates(X)
<1> DEFINE Y == GitRecords(X)
           b == buildGitRecord(st.header, st.numstat)
<1>1. st.header \in Seq(X) /\ st.numstat \in Seq(X) /\ st.records \in Seq(Y)
  BY DEF EntryStates
<1>2. GitRecordOf(st.header, st.numstat) \in Y
  BY <1>1 DEF GitRecords
<1>3. b = <<>> \/ b = <<GitRecordOf(st.header, st.numstat)>>
  BY DEF buildGitRecord, GitRecordOf
<1> HIDE DEF b, Y
<1>4. b \in Seq(Y)
  <2>1. \A y \in Y : <<y>> \in Seq(Y)
    OBVIOUS
  <2> HIDE DEF Y
  <2>2. <<>> \in Seq(Y)
    OBVIOUS
  <2> QED BY <1>2, <1>3, <2>1, <2>2, Zenon
<1>5. st.records \o b \in Seq(Y)
  BY <1>1, <1>4
<1>6. \A R \in Seq(Y) : [emptyEntry EXCEPT !.records = R] \in EntryStates(X)
  <2>1. \A R : [emptyEntry EXCEPT !.records = R] = EntryWith(R)
    BY Anew
  <2>2. <<>> \in Seq(X)
    OBVIOUS
  <2>3. \A R \in Seq(Y) : EntryWith(R) \in EntryStates(X)
    BY <2>2 DEF EntryStates, Y, EntryWith
  <2> QED BY <2>1, <2>3
<1> QED BY <1>1, <1>5, <1>6 DEF flush, b

LEMMA EntryTyped == ASSUME NEW X, NEW st \in EntryStates(X), NEW l \in X PROVE entryLine(st, l) \in EntryStates(X)
<1> DEFINE A == Seq(X)
           B == Seq(GitRecords(X))
           v == ~l.ends
<1>1. /\ st.header \in A /\ st.numstat \in A /\ st.inHeader \in BOOLEAN /\ st.records \in B
      /\ EntryStates(X) = [header : A, numstat : A, inHeader : BOOLEAN, records : B]
  BY DEF EntryStates
<1>2. Append(st.header, l) \in A /\ Append(st.numstat, l) \in A /\ v \in BOOLEAN
  BY <1>1
<1> HIDE DEF A, B
<1>4. [st EXCEPT !.header = Append(st.header, l), !.inHeader = v] \in EntryStates(X)
  <2> HIDE DEF v
  <2> DEFINE h == Append(st.header, l)
  <2>1. h \in A /\ st \in [header : A, numstat : A, inHeader : BOOLEAN, records : B]
    BY <1>1, <1>2
  <2> HIDE DEF h
  <2>2. [st EXCEPT !.header = h, !.inHeader = v] \in [header : A, numstat : A, inHeader : BOOLEAN, records : B]
    BY <2>1, <1>2
  <2> QED BY <1>1, <2>2 DEF h
<1>5. [st EXCEPT !.numstat = Append(st.numstat, l)] \in EntryStates(X)
  <2> DEFINE h == Append(st.numstat, l)
  <2>1. h \in A /\ st \in [header : A, numstat : A, inHeader : BOOLEAN, records : B]
    BY <1>1, <1>2
  <2> HIDE DEF h
  <2>2. [st EXCEPT !.numstat = h] \in [header : A, numstat : A, inHeader : BOOLEAN, records : B]
    BY <2>1
  <2> QED BY <1>1, <2>2 DEF h
<1> QED BY <1>4, <1>5, FlushTyped DEF entryLine, v

\* The parser, line by line.
LEMMA EntryFolds ==
  ASSUME NEW X, NEW s \in Seq(X)
  PROVE  \E h \in [0..Len(s) -> EntryStates(X)] :
           /\ h[0] = emptyEntry /\ FoldLeft(entryLine, emptyEntry, s) = h[Len(s)]
           /\ \A k \in 1..Len(s) : h[k] = entryLine(h[k - 1], s[k])
<1> DEFINE n == Len(s)
           V == EntryStates(X)
           st == [at \in (1..n) \X V |-> entryLine(at[2], s[at[1]])]
<1>1. n \in Nat /\ DOMAIN s = 1..n
  OBVIOUS
<1>2. emptyEntry \in V
  BY EmptyTyped
<1>3. ASSUME NEW v \in V, NEW k \in 1..n PROVE entryLine(v, s[k]) \in V
  <2> v \in EntryStates(X) /\ s[k] \in X
    BY <1>1
  <2> QED BY EntryTyped
<1>4. st \in [(1..n) \X V -> V]
  <2> HIDE DEF n, V
  <2> QED BY <1>3
<1>5. PICK g \in [SUBSET (1..n) -> V] : Iterates(g, n, emptyEntry, st)
  <2> HIDE DEF st, n, V
  <2> QED BY <1>1, <1>2, <1>4, FoldExists
<1> DEFINE Def(f) == f = [r \in SUBSET (1..n) |-> IF r = {} THEN emptyEntry ELSE entryLine(f[r \ {Max(r)}], s[Max(r)])]
           f == CHOOSE f : Def(f)
<1>6. Def(g)
  <2> HIDE DEF n, V
  <2>1. ASSUME NEW r \in SUBSET (1..n), r # {}
        PROVE  st[<<Max(r), g[r \ {Max(r)}]>>] = entryLine(g[r \ {Max(r)}], s[Max(r)])
    BY <1>1, <1>5, <2>1, OneBefore
  <2> HIDE DEF st
  <2> QED BY <1>5, <2>1 DEF Iterates
<1>7. Def(f)
  <2> HIDE DEF Def
  <2> QED BY <1>6
<1>8. FoldLeft(entryLine, emptyEntry, s) = f[1..n]
  BY <1>1 DEF FoldLeft, MapThenFoldSet
<1> HIDE DEF f
<1>9. Recurs(f, n, V, emptyEntry, st)
  <2> HIDE DEF n, V
  <2> QED BY <1>7 DEF Recurs
<1>10. PICK h \in [0..n -> V] : StepsTo(h, n, V, emptyEntry, st, f[1..n])
  <2> HIDE DEF n, V, st
  <2> QED BY <1>1, <1>2, <1>4, <1>9, FoldSteps
<1>11. \A k \in 1..n : h[k] = entryLine(h[k - 1], s[k])
  <2> HIDE DEF n, V
  <2> QED BY <1>10 DEF StepsTo
<1> QED BY <1>8, <1>10, <1>11 DEF StepsTo

LEMMA ConcatAt ==
  ASSUME NEW s, IsSeq(s), NEW t, IsSeq(t)
  PROVE  /\ IsSeq(s \o t) /\ Len(s \o t) = Len(s) + Len(t)
         /\ \A i \in 1..Len(s) : (s \o t)[i] = s[i]
         /\ \A i \in 1..Len(t) : (s \o t)[Len(s) + i] = t[i]
<1> DEFINE X == ToSet(s) \cup ToSet(t)
<1>1. s \in Seq(X) /\ t \in Seq(X)
  BY DEF IsSeq
<1> HIDE DEF X
<1>2. Len(s \o t) = Len(s) + Len(t) /\ (\A i \in 1..Len(s) : (s \o t)[i] = s[i]) /\ \A i \in 1..Len(t) : (s \o t)[Len(s) + i] = t[i]
  BY <1>1
<1> QED BY <1>2, ConcatIsSeq

\* A state of the parser.
Entry(header, numstat, inHeader, records) ==
  [header |-> header, numstat |-> numstat, inHeader |-> inHeader, records |-> records]

LEMMA Flushed ==
  ASSUME NEW h, NEW n, NEW v, NEW R
  PROVE  /\ h = <<>> => flush(Entry(h, n, v, R)) = EntryWith(R)
         /\ h # <<>> => flush(Entry(h, n, v, R)) = EntryWith(R \o buildGitRecord(h, n))
<1>1. Entry(h, n, v, R).header = h /\ Entry(h, n, v, R).numstat = n /\ Entry(h, n, v, R).records = R
  BY DEF Entry
<1>2. \A x : [emptyEntry EXCEPT !.records = x] = EntryWith(x)
  BY Anew
<1> QED BY <1>1, <1>2 DEF flush

Yes == TRUE
No == FALSE

LEMMA TextRead ==
  ASSUME NEW h, NEW n, NEW R, NEW l, l.ends = No
  PROVE  entryLine(Entry(h, n, Yes, R), l) = Entry(Append(h, l), n, Yes, R)
<1> DEFINE st == Entry(h, n, Yes, R)
           H == Append(h, l)
<1>1. st.header = h /\ st.inHeader = Yes
  BY DEF Entry
<1>2. [st EXCEPT !.header = H, !.inHeader = Yes] = Entry(H, n, Yes, R)
  <2> HIDE DEF H
  <2>1. [st EXCEPT !.header = H] = Entry(H, n, Yes, R)
    BY DEF Entry
  <2>2. [Entry(H, n, Yes, R) EXCEPT !.inHeader = Yes] = Entry(H, n, Yes, R)
    BY DEF Entry
  <2>3. [st EXCEPT !.header = H, !.inHeader = Yes] = [[st EXCEPT !.header = H] EXCEPT !.inHeader = Yes]
    <3> HIDE DEF st
    <3> QED OBVIOUS
  <2> HIDE DEF st
  <2> QED BY <2>1, <2>2, <2>3
<1> HIDE DEF st
<1>3. (~l.ends) = Yes
  BY DEF Yes, No
<1>4. entryLine(st, l) = [st EXCEPT !.header = Append(st.header, l), !.inHeader = ~l.ends]
  BY <1>1 DEF entryLine, Yes
<1> QED BY <1>1, <1>2, <1>3, <1>4 DEF st

LEMMA LastTextRead ==
  ASSUME NEW h, NEW n, NEW R, NEW l, l.ends = Yes
  PROVE  entryLine(Entry(h, n, Yes, R), l) = Entry(Append(h, l), n, No, R)
<1> DEFINE st == Entry(h, n, Yes, R)
           H == Append(h, l)
<1>1. st.header = h /\ st.inHeader = Yes
  BY DEF Entry
<1>2. [st EXCEPT !.header = H, !.inHeader = No] = Entry(H, n, No, R)
  <2> HIDE DEF H
  <2>1. [st EXCEPT !.header = H] = Entry(H, n, Yes, R)
    BY DEF Entry
  <2>2. [Entry(H, n, Yes, R) EXCEPT !.inHeader = No] = Entry(H, n, No, R)
    BY DEF Entry
  <2>3. [st EXCEPT !.header = H, !.inHeader = No] = [[st EXCEPT !.header = H] EXCEPT !.inHeader = No]
    <3> HIDE DEF st
    <3> QED OBVIOUS
  <2> HIDE DEF st
  <2> QED BY <2>1, <2>2, <2>3
<1> HIDE DEF st
<1>3. (~l.ends) = No
  BY DEF Yes, No
<1>4. entryLine(st, l) = [st EXCEPT !.header = Append(st.header, l), !.inHeader = ~l.ends]
  BY <1>1 DEF entryLine, Yes
<1> QED BY <1>1, <1>2, <1>3, <1>4 DEF st

LEMMA FileRead ==
  ASSUME NEW h, NEW n, NEW R, NEW l, l.k # "blank"
  PROVE  entryLine(Entry(h, n, No, R), l) = Entry(h, Append(n, l), No, R)
<1> DEFINE st == Entry(h, n, No, R)
           N == Append(n, l)
<1>1. st.numstat = n /\ st.inHeader = No
  BY DEF Entry
<1>2. [st EXCEPT !.numstat = N] = Entry(h, N, No, R)
  <2> HIDE DEF N
  <2> QED BY DEF Entry
<1> HIDE DEF st
<1>3. entryLine(st, l) = [st EXCEPT !.numstat = Append(st.numstat, l)]
  BY <1>1 DEF entryLine, No
<1> QED BY <1>1, <1>2, <1>3 DEF st

LEMMA BlankRead ==
  ASSUME NEW h, NEW n, NEW R, NEW l, l.k = "blank", h # <<>>
  PROVE  entryLine(Entry(h, n, No, R), l) = EntryWith(R \o buildGitRecord(h, n))
<1> DEFINE st == Entry(h, n, No, R)
<1>1. st.inHeader = No
  BY DEF Entry
<1>2. flush(st) = EntryWith(R \o buildGitRecord(h, n))
  BY Flushed
<1> HIDE DEF st
<1>3. entryLine(st, l) = flush(st)
  BY <1>1 DEF entryLine, No
<1> QED BY <1>2, <1>3 DEF st

LEMMA Appended ==
  ASSUME NEW X, NEW s \in Seq(X), NEW x \in X
  PROVE  Append(s, x) \in Seq(X) /\ Len(Append(s, x)) = Len(s) + 1 /\ \A i \in 1..Len(s) : Append(s, x)[i] = s[i]
  OBVIOUS

headLine(c) == [k |-> "head", c |-> c, ends |-> ~c.body]
textLine(ends) == [k |-> "text", ends |-> ends]
fileLine(f) == [k |-> "file", file |-> f, ends |-> FALSE]
blankLine == [k |-> "blank", ends |-> FALSE]
headerLength(c) == IF c.body THEN 3 ELSE 1
fileLines(c) == [i \in DOMAIN c.files |-> fileLine(c.files[i])]

LEMMA FileLines ==
  ASSUME NEW c, IsSeq(c.files)
  PROVE  /\ IsSeq(fileLines(c)) /\ Len(fileLines(c)) = Len(c.files) /\ Len(c.files) \in Nat
         /\ DOMAIN c.files = 1..Len(c.files)
         /\ \A i \in 1..Len(c.files) : fileLines(c)[i] = fileLine(c.files[i])
<1> DEFINE n == Len(c.files)
           r == fileLines(c)
<1>1. DOMAIN c.files = 1..n /\ n \in Nat
  BY InSeq
<1>2. r = [i \in 1..n |-> r[i]] /\ \A i \in 1..n : r[i] = fileLine(c.files[i])
  BY <1>1 DEF fileLines
<1> HIDE DEF n, r
<1>3. \A i \in 1..n : r[i] \in {r[j] : j \in 1..n}
  OBVIOUS
<1>4. r \in Seq({r[j] : j \in 1..n}) /\ Len(r) = n
  BY <1>1, <1>2, <1>3
<1>5. IsSeq(r)
  BY <1>4, SeqIsSeq
<1> QED BY <1>1, <1>2, <1>4, <1>5 DEF n, r

LEMMA RenderedIs ==
  ASSUME NEW c, IsSeq(c.files), NEW last \in BOOLEAN
  PROVE  LET r == rendered(c, last)
             b == headerLength(c)
             n == Len(c.files)
         IN  /\ IsSeq(r) /\ Len(r) = b + n + (IF c.files = <<>> \/ last THEN 0 ELSE 1)
             /\ r[1] = headLine(c) /\ (c.body => r[2] = textLine(FALSE) /\ r[3] = textLine(TRUE))
             /\ \A i \in 1..n : r[b + i] = fileLine(c.files[i])
             /\ c.files # <<>> /\ ~last => r[b + n + 1] = blankLine
<1> DEFINE r == rendered(c, last)
           b == headerLength(c)
           n == Len(c.files)
           one == <<headLine(c)>>
           two == IF c.body THEN <<textLine(FALSE), textLine(TRUE)>> ELSE <<>>
           three == fileLines(c)
           four == IF c.files = <<>> \/ last THEN <<>> ELSE <<blankLine>>
           e == IF c.files = <<>> \/ last THEN 0 ELSE 1
<1>1. r = ((one \o two) \o three) \o four
  BY DEF rendered, headLine, textLine, fileLines, fileLine, blankLine
<1>2. IsSeq(one) /\ Len(one) = 1 /\ one[1] = headLine(c)
  BY ShortSeqs
<1>3. /\ IsSeq(two) /\ Len(two) = b - 1 /\ b \in Nat /\ b >= 1 /\ (c.body => b = 3)
      /\ c.body => two[1] = textLine(FALSE) /\ two[2] = textLine(TRUE)
  <2>1. CASE c.body
    <3> DEFINE x == textLine(FALSE)
               y == textLine(TRUE)
    <3>1. two = <<x, y>>
      BY <2>1
    <3> HIDE DEF x, y, two
    <3>2. <<x, y>> \in Seq({x, y}) /\ Len(<<x, y>>) = 2 /\ <<x, y>>[1] = x /\ <<x, y>>[2] = y
      OBVIOUS
    <3>3. IsSeq(<<x, y>>)
      BY <3>2, SeqIsSeq
    <3>4. b = 3
      BY <2>1 DEF headerLength
    <3>5. two[1] = textLine(FALSE) /\ two[2] = textLine(TRUE)
      BY <3>1, <3>2 DEF x, y
    <3> HIDE DEF b
    <3> QED BY <2>1, <3>1, <3>2, <3>3, <3>4, <3>5
  <2>2. CASE ~c.body
    <3>1. two = <<>>
      BY <2>2
    <3> HIDE DEF two
    <3>2. IsSeq(two) /\ Len(two) = 0
      BY <3>1, NothingIsSeq
    <3>3. b = 1
      BY <2>2 DEF headerLength
    <3> HIDE DEF b
    <3>4. Len(two) = b - 1 /\ b \in Nat /\ b >= 1
      BY <3>2, <3>3
    <3> QED BY <2>2, <3>2, <3>4
  <2> QED BY <2>1, <2>2
<1>4. IsSeq(three) /\ Len(three) = n /\ n \in Nat /\ \A i \in 1..n : three[i] = fileLine(c.files[i])
  BY FileLines
<1>5. IsSeq(four) /\ Len(four) = e /\ (e = 1 => four[1] = blankLine) /\ e \in {0, 1} /\ (c.files # <<>> /\ ~last => e = 1)
  <2>1. CASE c.files = <<>> \/ last
    <3>1. four = <<>>
      BY <2>1
    <3> HIDE DEF four
    <3> QED BY <2>1, <3>1, NothingIsSeq
  <2>2. CASE ~(c.files = <<>> \/ last)
    <3>1. four = <<blankLine>>
      BY <2>2
    <3> HIDE DEF four
    <3> QED BY <2>2, <3>1, ShortSeqs
  <2> QED BY <2>1, <2>2
<1> DEFINE s2 == one \o two
           s3 == s2 \o three
           s4 == s3 \o four
<1> HIDE DEF one, two, three, four, e, r, b, n
<1>6. IsSeq(s2) /\ Len(s2) = b /\ s2[1] = headLine(c) /\ (c.body => s2[2] = textLine(FALSE) /\ s2[3] = textLine(TRUE))
  <2>1. IsSeq(s2) /\ Len(s2) = 1 + (b - 1) /\ s2[1] = one[1] /\ \A i \in 1..(b - 1) : s2[1 + i] = two[i]
    <3>1. IsSeq(one) /\ IsSeq(two)
      BY <1>2, <1>3
    <3>2. /\ IsSeq(s2) /\ Len(s2) = Len(one) + Len(two) /\ (\A i \in 1..Len(one) : s2[i] = one[i])
          /\ \A i \in 1..Len(two) : s2[Len(one) + i] = two[i]
      BY <3>1, ConcatAt
    <3> HIDE DEF s2
    <3> QED BY <3>2, <1>2, <1>3
  <2> HIDE DEF s2
  <2>2. c.body => s2[2] = two[1] /\ s2[3] = two[2]
    <3> SUFFICES ASSUME c.body PROVE s2[2] = two[1] /\ s2[3] = two[2]
      OBVIOUS
    <3>1. 1 \in 1..(b - 1) /\ 2 \in 1..(b - 1) /\ 1 + 1 = 2 /\ 1 + 2 = 3
      BY <1>3
    <3> QED BY <2>1, <3>1
  <2>3. Len(s2) = b
    BY <2>1, <1>3
  <2> QED BY <2>1, <2>2, <2>3, <1>2, <1>3
<1> HIDE DEF s2
<1>7. IsSeq(s3) /\ Len(s3) = b + n /\ (\A i \in 1..b : s3[i] = s2[i]) /\ \A i \in 1..n : s3[b + i] = three[i]
  <2>1. IsSeq(s2) /\ IsSeq(three)
    BY <1>4, <1>6
  <2>2. /\ IsSeq(s3) /\ Len(s3) = Len(s2) + Len(three) /\ (\A i \in 1..Len(s2) : s3[i] = s2[i])
        /\ \A i \in 1..Len(three) : s3[Len(s2) + i] = three[i]
    BY <2>1, ConcatAt
  <2> HIDE DEF s3
  <2> QED BY <2>2, <1>4, <1>6
<1> HIDE DEF s3
<1>8. /\ IsSeq(s4) /\ Len(s4) = b + n + e /\ (\A i \in 1..(b + n) : s4[i] = s3[i])
      /\ \A i \in 1..e : s4[b + n + i] = four[i]
  <2>1. IsSeq(s3) /\ IsSeq(four)
    BY <1>5, <1>7
  <2>2. /\ IsSeq(s4) /\ Len(s4) = Len(s3) + Len(four) /\ (\A i \in 1..Len(s3) : s4[i] = s3[i])
        /\ \A i \in 1..Len(four) : s4[Len(s3) + i] = four[i]
    BY <2>1, ConcatAt
  <2> HIDE DEF s4
  <2> QED BY <2>2, <1>5, <1>7
<1> HIDE DEF s4
<1>9. s4 = r
  BY <1>1 DEF s2, s3, s4
<1>10. r[1] = headLine(c) /\ (c.body => r[2] = textLine(FALSE) /\ r[3] = textLine(TRUE))
  <2>1. \A i \in 1..b : i \in 1..(b + n)
    BY <1>3, <1>4
  <2>2. 1 \in 1..b /\ (c.body => 2 \in 1..b /\ 3 \in 1..b)
    BY <1>3
  <2>3. \A i \in 1..b : r[i] = s2[i]
    BY <2>1, <1>7, <1>8, <1>9
  <2> QED BY <2>2, <2>3, <1>6
<1>11. \A i \in 1..n : r[b + i] = fileLine(c.files[i])
  <2>1. \A i \in 1..n : b + i \in 1..(b + n)
    BY <1>3, <1>4
  <2> QED BY <2>1, <1>4, <1>7, <1>8, <1>9
<1>12. c.files # <<>> /\ ~last => r[b + n + 1] = blankLine
  <2>1. e = 1 => 1 \in 1..e
    OBVIOUS
  <2> QED BY <2>1, <1>5, <1>8, <1>9
<1> QED BY <1>8, <1>9, <1>10, <1>11, <1>12 DEF r, b, n, e

\* What a commit is worth.
commitRecord(c) ==
  [source |-> c.sha, at |-> c.at, tokens |-> <<c.type, c.scope>> \o dirTokens(c.files)]
recordOf(c) == IF \E i \in DOMAIN c.files : c.files[i].binary THEN <<>> ELSE <<commitRecord(c)>>

LEMMA RecordIs ==
  ASSUME NEW c, IsSeq(c.files), NEW h, h[1].c = c
  PROVE  buildGitRecord(h, fileLines(c)) = recordOf(c)
<1> DEFINE l == fileLines(c)
           S == {x \in ToSet(l) : x.k = "file"}
           w == within(l, S)
           n == Len(c.files)
<1>1. IsSeq(l) /\ Len(l) = n /\ n \in Nat /\ (\A i \in 1..n : l[i] = fileLine(c.files[i])) /\ DOMAIN c.files = 1..n
  BY FileLines
<1>2. \A f : fileLine(f).k = "file" /\ fileLine(f).file = f
  BY DEF fileLine
<1> HIDE DEF l
<1>3. DOMAIN l = 1..n
  BY <1>1, InSeq
<1>4. {i \in DOMAIN l : l[i] \in S} = DOMAIN l
  BY <1>1, <1>2, <1>3, InSeq
<1>5. Traces(l, DOMAIN l, l, Smaller)
  BY <1>1, OwnTrace
<1>6. Traces(w, DOMAIN l, l, Smaller)
  BY <1>4, <1>5, WithinTraces
<1>7. w = l
  BY <1>5, <1>6, SameTrace, SmallerAsymmetric
<1>8. numstatFiles(l) = [i \in DOMAIN l |-> l[i].file]
  BY <1>7 DEF numstatFiles
<1>9. c.files = [i \in 1..n |-> c.files[i]]
  <2>1. c.files \in Seq(ToSet(c.files))
    BY InSeq
  <2> QED BY <2>1
<1>10. numstatFiles(l) = c.files
  BY <1>1, <1>2, <1>3, <1>8, <1>9
<1> QED BY <1>10 DEF buildGitRecord, recordOf, commitRecord, l

\* The parser g goes through the lines of commit c, from p on, with the records R so far.
Reads(g, p, c, last, R) ==
  /\ p \in Nat /\ IsSeq(c.files) /\ last \in BOOLEAN /\ g[p] = EntryWith(R)
  /\ \A j \in 1..Len(rendered(c, last)) : g[p + j] = entryLine(g[p + (j - 1)], rendered(c, last)[j])

LEMMA HeaderRead ==
  ASSUME NEW g, NEW p, NEW c, NEW last, NEW R, Reads(g, p, c, last, R)
  PROVE  \E H : H # <<>> /\ H[1].c = c /\ g[p + headerLength(c)] = Entry(H, <<>>, No, R)
<1> DEFINE r == rendered(c, last)
           b == headerLength(c)
           none == <<>>
           x == headLine(c)
           y == textLine(FALSE)
           z == textLine(TRUE)
<1>1. /\ p \in Nat /\ last \in BOOLEAN /\ IsSeq(c.files) /\ g[p] = EntryWith(R)
      /\ \A j \in 1..Len(r) : g[p + j] = entryLine(g[p + (j - 1)], r[j])
  BY DEF Reads
<1>2. /\ Len(r) = b + Len(c.files) + (IF c.files = <<>> \/ last THEN 0 ELSE 1)
      /\ r[1] = x /\ (c.body => r[2] = y /\ r[3] = z)
  BY <1>1, RenderedIs
<1>3. Len(c.files) \in Nat /\ b \in Nat /\ b >= 1 /\ (c.body => b = 3) /\ (~c.body => b = 1)
  <2>1. (c.body => b = 3) /\ (~c.body => b = 1)
    BY DEF headerLength
  <2> HIDE DEF b
  <2>2. b \in Nat /\ b >= 1
    BY <2>1
  <2> QED BY <1>1, <2>1, <2>2, InSeq
<1> HIDE DEF r, b
<1>4. \A j \in 1..b : j \in 1..Len(r)
  <2>1. Len(r) \in Nat /\ b <= Len(r)
    <3> DEFINE e == IF c.files = <<>> \/ last THEN 0 ELSE 1
    <3>1. e \in {0, 1}
      OBVIOUS
    <3>2. Len(r) = b + Len(c.files) + e
      BY <1>2
    <3> HIDE DEF e
    <3> QED BY <3>1, <3>2, <1>3
  <2> QED BY <2>1, <1>3
<1>5. x.c = c /\ (c.body => x.ends = No) /\ (~c.body => x.ends = Yes) /\ y.ends = No /\ z.ends = Yes
  BY DEF headLine, textLine, Yes, No
<1> HIDE DEF x, y, z
<1> DEFINE H1 == Append(none, x)
           H2 == Append(H1, y)
           H3 == Append(H2, z)
<1>6. H1 # <<>> /\ H1[1] = x /\ H3 # <<>> /\ H3[1] = x
  <2> DEFINE X == {x, y, z}
  <2>1. none \in Seq(X) /\ Len(none) = 0 /\ x \in X /\ y \in X /\ z \in X
    OBVIOUS
  <2> HIDE DEF X, none
  <2>2. H1 \in Seq(X) /\ Len(H1) = 1 /\ H1[1] = x
    BY <2>1
  <2> HIDE DEF H1
  <2>3. 1 \in 1..1 /\ 1 \in 1..2 /\ 1 + 1 = 2 /\ 2 + 1 = 3
    OBVIOUS
  <2>4. H2 \in Seq(X) /\ Len(H2) = 2 /\ H2[1] = H1[1]
    <3>1. \A s \in Seq(X), e \in X : Append(s, e) \in Seq(X) /\ Len(Append(s, e)) = Len(s) + 1
      BY Appended
    <3>2. \A s \in Seq(X), e \in X : \A i \in 1..Len(s) : Append(s, e)[i] = s[i]
      BY Appended
    <3>3. 1 \in 1..Len(H1)
      BY <2>2
    <3>4. H2 = Append(H1, y)
      OBVIOUS
    <3> HIDE DEF H2
    <3>5. Append(H1, y) \in Seq(X) /\ Len(Append(H1, y)) = Len(H1) + 1
      BY <3>1, <2>1, <2>2
    <3>6. Append(H1, y)[1] = H1[1]
      BY <3>2, <3>3, <2>1, <2>2
    <3> QED BY <3>4, <3>5, <3>6, <2>2
  <2> HIDE DEF H2
  <2>5. H3 \in Seq(X) /\ Len(H3) = 3 /\ H3[1] = H2[1]
    <3>1. \A s \in Seq(X), e \in X : Append(s, e) \in Seq(X) /\ Len(Append(s, e)) = Len(s) + 1
      BY Appended
    <3>2. \A s \in Seq(X), e \in X : \A i \in 1..Len(s) : Append(s, e)[i] = s[i]
      BY Appended
    <3>3. 1 \in 1..Len(H2)
      BY <2>4
    <3>4. H3 = Append(H2, z)
      OBVIOUS
    <3> HIDE DEF H3
    <3>5. Append(H2, z) \in Seq(X) /\ Len(Append(H2, z)) = Len(H2) + 1
      BY <3>1, <2>1, <2>4
    <3>6. Append(H2, z)[1] = H2[1]
      BY <3>2, <3>3, <2>1, <2>4
    <3> QED BY <3>4, <3>5, <3>6, <2>3, <2>4
  <2> HIDE DEF H3
  <2> QED BY <2>2, <2>4, <2>5
<1>7. EntryWith(R) = Entry(none, none, Yes, R)
  BY DEF EntryWith, Entry, Yes
<1> HIDE DEF none
<1>8. g[p + 1] = entryLine(Entry(none, none, Yes, R), x)
  <2>1. 1 \in 1..Len(r) /\ p + (1 - 1) = p
    BY <1>1, <1>3, <1>4
  <2> QED BY <1>1, <1>2, <1>7, <2>1
<1>9. /\ ~c.body => entryLine(Entry(none, none, Yes, R), x) = Entry(H1, none, No, R)
      /\ c.body => entryLine(Entry(none, none, Yes, R), x) = Entry(H1, none, Yes, R)
  BY <1>5, TextRead, LastTextRead
<1>10. CASE ~c.body
  <2>2. g[p + b] = Entry(H1, none, No, R)
    BY <1>3, <1>8, <1>9, <1>10
  <2> QED BY <2>2, <1>5, <1>6 DEF none, b
<1>11. CASE c.body
  <2>2. g[p + 1] = Entry(H1, none, Yes, R)
    BY <1>8, <1>9, <1>11
  <2>3. g[p + 2] = entryLine(g[p + 1], y) /\ g[p + 3] = entryLine(g[p + 2], z)
    <3>1. 2 \in 1..Len(r) /\ 3 \in 1..Len(r) /\ 2 - 1 = 1 /\ 3 - 1 = 2
      BY <1>3, <1>4, <1>11
    <3>2. r[2] = y /\ r[3] = z
      BY <1>2, <1>11
    <3> QED BY <1>1, <3>1, <3>2
  <2> HIDE DEF H1
  <2>4. entryLine(Entry(H1, none, Yes, R), y) = Entry(H2, none, Yes, R)
    BY <1>5, TextRead, LastTextRead
  <2>5. g[p + 2] = Entry(H2, none, Yes, R)
    BY <2>2, <2>3, <2>4
  <2> HIDE DEF H2
  <2>6. entryLine(Entry(H2, none, Yes, R), z) = Entry(H3, none, No, R)
    BY <1>5, TextRead, LastTextRead
  <2>7. g[p + b] = Entry(H3, none, No, R)
    BY <2>3, <2>5, <2>6, <1>3, <1>11
  <2> QED BY <2>7, <1>5, <1>6 DEF none, b
<1> QED BY <1>10, <1>11

LEMMA CommitRead ==
  ASSUME NEW g, NEW p, NEW c, NEW last, NEW R, Reads(g, p, c, last, R)
  PROVE  LET q == p + Len(rendered(c, last))
         IN  /\ c.files # <<>> /\ ~last => g[q] = EntryWith(R \o recordOf(c))
             /\ last => flush(g[q]) = EntryWith(R \o recordOf(c))
<1> DEFINE r == rendered(c, last)
           b == headerLength(c)
           n == Len(c.files)
           fl == fileLines(c)
           X == ToSet(fl)
<1>1. /\ p \in Nat /\ last \in BOOLEAN /\ IsSeq(c.files) /\ g[p] = EntryWith(R)
      /\ \A j \in 1..Len(r) : g[p + j] = entryLine(g[p + (j - 1)], r[j])
  BY DEF Reads
<1>2. /\ Len(r) = b + n + (IF c.files = <<>> \/ last THEN 0 ELSE 1)
      /\ (\A i \in 1..n : r[b + i] = fileLine(c.files[i]))
      /\ c.files # <<>> /\ ~last => r[b + n + 1] = blankLine
  BY <1>1, RenderedIs
<1>3. PICK H : H # <<>> /\ H[1].c = c /\ g[p + b] = Entry(H, <<>>, No, R)
  <2> HIDE DEF r, n, fl, X
  <2> QED BY HeaderRead
<1>4. IsSeq(fl) /\ fl \in Seq(X) /\ Len(fl) = n /\ n \in Nat /\ \A i \in 1..n : fl[i] = fileLine(c.files[i])
  BY <1>1, FileLines, InSeq
<1>5. b \in Nat /\ b >= 1
  BY DEF headerLength
<1>6. \A f : fileLine(f).k # "blank"
  BY DEF fileLine
<1>7. buildGitRecord(H, fl) = recordOf(c)
  BY <1>1, <1>3, RecordIs
<1>8. blankLine.k = "blank"
  BY DEF blankLine
<1> HIDE DEF r, b, n, fl, X
<1> DEFINE T == {i \in 0..n : g[p + b + i] = Entry(H, SubSeq(fl, 1, i), No, R)}
<1>9. 0 \in T
  <2>1. SubSeq(fl, 1, 0) = <<>>
    BY <1>4
  <2>2. p + b + 0 = p + b /\ 0 \in 0..n
    BY <1>1, <1>4, <1>5
  <2> QED BY <2>1, <2>2, <1>3
<1>10. ASSUME NEW i \in 1..n, i - 1 \in T PROVE i \in T
  <2>1. g[p + b + (i - 1)] = Entry(H, SubSeq(fl, 1, i - 1), No, R)
    BY <1>10
  <2>2. /\ b + i \in 1..Len(r) /\ p + (b + i) = p + b + i /\ p + ((b + i) - 1) = p + b + (i - 1)
        /\ i \in 0..n
    <3>1. i >= 1 /\ i <= n /\ i \in Nat
      BY <1>4
    <3>2. Len(r) \in Nat /\ Len(r) >= b + n
      BY <1>2, <1>4, <1>5
    <3> QED BY <3>1, <3>2, <1>1, <1>4, <1>5
  <2>3. g[p + b + i] = entryLine(g[p + b + (i - 1)], fl[i])
    BY <2>2, <1>1, <1>2, <1>4
  <2> DEFINE s == SubSeq(fl, 1, i - 1)
  <2>4. SubSeq(fl, 1, i) = Append(s, fl[i])
    BY <1>4
  <2>5. fl[i].k # "blank"
    BY <1>4, <1>6
  <2> HIDE DEF s
  <2>7. entryLine(Entry(H, s, No, R), fl[i]) = Entry(H, Append(s, fl[i]), No, R)
    BY <2>5, FileRead
  <2>8. g[p + b + i] = Entry(H, SubSeq(fl, 1, i), No, R)
    BY <2>1, <2>3, <2>4, <2>7 DEF s
  <2> QED BY <2>2, <2>8
<1>11. g[p + b + n] = Entry(H, fl, No, R)
  <2> HIDE DEF T
  <2>1. n \in T
    <3>1. 0..n \subseteq T
      BY <1>4, <1>9, <1>10, Along
    <3> QED BY <3>1, <1>4
  <2>2. SubSeq(fl, 1, n) = fl
    BY <1>4
  <2> QED BY <2>1, <2>2 DEF T
<1>13. ASSUME c.files # <<>>, ~last PROVE g[p + Len(r)] = EntryWith(R \o recordOf(c))
  <2>1. Len(r) = b + n + 1
    BY <1>2, <1>13
  <2>2. b + n + 1 \in 1..Len(r) /\ (b + n + 1) - 1 = b + n /\ p + (b + n) = p + b + n
    BY <2>1, <1>1, <1>4, <1>5
  <2>3. g[p + Len(r)] = entryLine(g[p + b + n], blankLine)
    BY <2>1, <2>2, <1>1, <1>2, <1>13
  <2>4. entryLine(Entry(H, fl, No, R), blankLine) = EntryWith(R \o buildGitRecord(H, fl))
    BY <1>3, <1>8, BlankRead
  <2> QED BY <2>3, <2>4, <1>7, <1>11
<1>14. ASSUME last PROVE flush(g[p + Len(r)]) = EntryWith(R \o recordOf(c))
  <2>1. Len(r) = b + n /\ p + (b + n) = p + b + n
    BY <1>1, <1>2, <1>4, <1>5, <1>14
  <2>2. flush(Entry(H, fl, No, R)) = EntryWith(R \o buildGitRecord(H, fl))
    BY <1>3, Flushed
  <2> QED BY <2>1, <2>2, <1>7, <1>11
<1> QED BY <1>13, <1>14 DEF r

\* Where each sequence begins in what FlattenSeq makes of them.
Parted(X, seqs, n, flat) ==
  /\ flat \in Seq(X)
  /\ \E p \in [0..n -> Nat] :
       /\ p[0] = 0 /\ p[n] = Len(flat)
       /\ \A k \in 1..n :
            /\ p[k] = p[k - 1] + Len(seqs[k])
            /\ \A j \in 1..Len(seqs[k]) : p[k - 1] + j \in 1..Len(flat) /\ flat[p[k - 1] + j] = seqs[k][j]

LEMMA FlattenAt ==
  ASSUME NEW X, NEW seqs \in Seq(Seq(X))
  PROVE  Parted(X, seqs, Len(seqs), FlattenSeq(seqs))
<1> DEFINE n == Len(seqs)
           flat == FlattenSeq(seqs)
<1>1. PICK h \in [0..n -> Seq(X)] : /\ h[0] = <<>> /\ flat = h[n]
                                    /\ \A k \in 1..n : h[k] = h[k - 1] \o seqs[k]
  BY FlattenFolds
<1>2. n \in Nat /\ \A k \in 1..n : seqs[k] \in Seq(X)
  OBVIOUS
<1> HIDE DEF n, flat
<1> DEFINE p == [k \in 0..n |-> Len(h[k])]
<1>3. \A k \in 1..n : k \in 0..n /\ k - 1 \in 0..n
  BY <1>2
<1>4. \A k \in 0..n : h[k] \in Seq(X) /\ p[k] = Len(h[k]) /\ p[k] \in Nat
  <2>1. \A s \in Seq(X) : Len(s) \in Nat
    OBVIOUS
  <2> DEFINE S == Seq(X)
  <2> HIDE DEF S
  <2>2. h \in [0..n -> S]
    BY DEF S
  <2>3. \A k \in 0..n : h[k] \in S
    BY <2>2
  <2>4. \A k \in 0..n : p[k] = Len(h[k])
    OBVIOUS
  <2>5. \A s \in S : Len(s) \in Nat
    BY <2>1 DEF S
  <2> HIDE DEF p
  <2>6. \A k \in 0..n : p[k] \in Nat
    BY <2>3, <2>4, <2>5
  <2> QED BY <2>3, <2>4, <2>6 DEF S
<1>5. p \in [0..n -> Nat]
  OBVIOUS
<1> HIDE DEF p
<1>6. ASSUME NEW k \in 1..n
      PROVE  /\ p[k] = p[k - 1] + Len(seqs[k]) /\ Len(seqs[k]) \in Nat
             /\ \A q \in 1..p[k - 1] : h[k][q] = h[k - 1][q]
             /\ \A j \in 1..Len(seqs[k]) : h[k][p[k - 1] + j] = seqs[k][j]
  <2>1. h[k] = h[k - 1] \o seqs[k] /\ h[k - 1] \in Seq(X) /\ seqs[k] \in Seq(X) /\ p[k] = Len(h[k]) /\ p[k - 1] = Len(h[k - 1])
    BY <1>1, <1>2, <1>3, <1>4
  <2>3. \A s, t \in Seq(X) : /\ Len(s \o t) = Len(s) + Len(t) /\ Len(t) \in Nat
                             /\ (\A q \in 1..Len(s) : (s \o t)[q] = s[q])
                             /\ \A j \in 1..Len(t) : (s \o t)[Len(s) + j] = t[j]
    OBVIOUS
  <2>2. /\ Len(h[k - 1] \o seqs[k]) = Len(h[k - 1]) + Len(seqs[k]) /\ Len(seqs[k]) \in Nat
        /\ \A q \in 1..Len(h[k - 1]) : (h[k - 1] \o seqs[k])[q] = h[k - 1][q]
        /\ \A j \in 1..Len(seqs[k]) : (h[k - 1] \o seqs[k])[Len(h[k - 1]) + j] = seqs[k][j]
    <3> DEFINE s == h[k - 1]
               t == seqs[k]
    <3>1. s \in Seq(X) /\ t \in Seq(X)
      BY <2>1
    <3> HIDE DEF s, t
    <3>2. /\ Len(s \o t) = Len(s) + Len(t) /\ Len(t) \in Nat
          /\ (\A q \in 1..Len(s) : (s \o t)[q] = s[q])
          /\ \A j \in 1..Len(t) : (s \o t)[Len(s) + j] = t[j]
      BY <2>3, <3>1
    <3> QED BY <3>2 DEF s, t
  <2> QED BY <2>1, <2>2
<1> DEFINE T == {e \in 0..n : \A k \in 0..n : k <= e => p[k] <= p[e] /\ \A q \in 1..p[k] : h[e][q] = h[k][q]}
<1>7. 0 \in T
  <2>1. \A k \in 0..n : k <= 0 => k = 0
    BY <1>2
  <2>2. 0 \in 0..n
    BY <1>2
  <2> QED BY <2>1, <2>2, <1>4
<1>8. ASSUME NEW e \in 1..n, e - 1 \in T PROVE e \in T
  <2> SUFFICES ASSUME NEW k \in 0..n, k <= e PROVE p[k] <= p[e] /\ \A q \in 1..p[k] : h[e][q] = h[k][q]
    BY <1>3
  <2>1. CASE k = e
    BY <2>1, <1>4
  <2>2. CASE k <= e - 1
    <3>1. p[k] <= p[e - 1] /\ \A q \in 1..p[k] : h[e - 1][q] = h[k][q]
      BY <2>2, <1>8
    <3>2. p[e] = p[e - 1] + Len(seqs[e]) /\ Len(seqs[e]) \in Nat /\ \A q \in 1..p[e - 1] : h[e][q] = h[e - 1][q]
      BY <1>6
    <3>3. p[k] \in Nat /\ p[e - 1] \in Nat /\ p[e] \in Nat
      BY <1>3, <1>4
    <3>4. \A q \in 1..p[k] : q \in 1..p[e - 1]
      BY <3>1, <3>3
    <3> QED BY <3>1, <3>2, <3>3, <3>4
  <2> QED BY <2>1, <2>2, <1>2
<1>9. \A k \in 0..n : p[k] <= p[n] /\ \A q \in 1..p[k] : h[n][q] = h[k][q]
  <2> HIDE DEF T
  <2>1. 0..n \subseteq T
    BY <1>2, <1>7, <1>8, Along
  <2>2. n \in T /\ \A k \in 0..n : k <= n
    BY <2>1, <1>2
  <2> QED BY <2>2 DEF T
<1>10. ASSUME NEW k \in 1..n, NEW j \in 1..Len(seqs[k])
       PROVE  p[k - 1] + j \in 1..Len(flat) /\ flat[p[k - 1] + j] = seqs[k][j]
  <2>1. p[k - 1] \in Nat /\ p[k] \in Nat /\ p[n] \in Nat /\ p[n] = Len(flat)
    <3>1. n \in 0..n /\ k \in 0..n /\ k - 1 \in 0..n
      BY <1>2, <1>3
    <3> QED BY <3>1, <1>1, <1>4
  <2>2. p[k - 1] + j \in 1..p[k]
    BY <2>1, <1>6
  <2>3. p[k] <= p[n] /\ h[n][p[k - 1] + j] = h[k][p[k - 1] + j]
    BY <2>2, <1>3, <1>9
  <2>4. p[k - 1] + j \in 1..p[n]
    BY <2>1, <2>2, <2>3
  <2> QED BY <2>1, <2>3, <2>4, <1>1, <1>6
<1>11. p[0] = 0 /\ p[n] = Len(flat) /\ flat \in Seq(X)
  <2>1. 0 \in 0..n /\ n \in 0..n
    BY <1>2
  <2>2. p[0] = Len(h[0])
    BY <2>1, <1>4
  <2>3. Len(h[0]) = 0
    BY <1>1, NothingIsSeq
  <2> QED BY <2>1, <2>2, <2>3, <1>1, <1>4
<1>12. Parted(X, seqs, n, flat)
  BY <1>5, <1>6, <1>10, <1>11 DEF Parted
<1> QED BY <1>12 DEF n, flat

clean(c) == \A i \in DOMAIN c.files : ~c.files[i].binary

LEMMA RecordOfIs ==
  ASSUME NEW c
  PROVE  IsSeq(recordOf(c)) /\ ToSet(recordOf(c)) = {commitRecord(d) : d \in {e \in {c} : clean(e)}}
<1>1. CASE clean(c)
  <2>1. recordOf(c) = <<commitRecord(c)>>
    BY <1>1 DEF recordOf, clean
  <2>2. {commitRecord(d) : d \in {e \in {c} : clean(e)}} = {commitRecord(c)}
    BY <1>1
  <2> QED BY <2>1, <2>2, ShortSeqs
<1>2. CASE ~clean(c)
  <2>1. recordOf(c) = <<>>
    BY <1>2 DEF recordOf, clean
  <2>2. {commitRecord(d) : d \in {e \in {c} : clean(e)}} = {}
    BY <1>2
  <2> QED BY <2>1, <2>2, NothingIsSeq
<1> QED BY <1>1, <1>2

\* The records of the clean commits among the first k.
commitsTo(C, k) == {commitRecord(C[i]) : i \in {j \in 1..k : clean(C[j])}}

LEMMA RecordsGrow ==
  ASSUME NEW C, NEW n \in Nat, NEW k \in 1..n
  PROVE  commitsTo(C, k) = commitsTo(C, k - 1) \cup ToSet(recordOf(C[k]))
<1>1. ToSet(recordOf(C[k])) = {commitRecord(d) : d \in {e \in {C[k]} : clean(e)}}
  BY RecordOfIs
<1>2. k \in Nat /\ \A j : j \in 1..k <=> j \in 1..(k - 1) \/ j = k
  OBVIOUS
<1>3. {commitRecord(d) : d \in {e \in {C[k]} : clean(e)}} = {commitRecord(C[i]) : i \in {j \in {k} : clean(C[j])}}
  OBVIOUS
<1>4. {j \in 1..k : clean(C[j])} = {j \in 1..(k - 1) : clean(C[j])} \cup {j \in {k} : clean(C[j])}
  BY <1>2
<1> QED BY <1>1, <1>3, <1>4 DEF commitsTo

\* The log of commits C and where each commit begins in it.
LEMMA LogIs ==
  ASSUME NEW C, IsSeq(C), \A i \in 1..Len(C) : IsSeq(C[i].files)
  PROVE  \E X : /\ gitLog(C) \in Seq(X)
                /\ \E p \in [0..Len(C) -> Nat] :
                     /\ p[0] = 0 /\ p[Len(C)] = Len(gitLog(C))
                     /\ \A k \in 1..Len(C) :
                          LET r == rendered(C[k], k = Len(C))
                          IN  /\ p[k] = p[k - 1] + Len(r)
                              /\ \A j \in 1..Len(r) : p[k - 1] + j \in 1..Len(gitLog(C)) /\ gitLog(C)[p[k - 1] + j] = r[j]
<1> DEFINE n == Len(C)
           r(k) == rendered(C[k], k = n)
           seqs == [i \in DOMAIN C |-> r(i)]
           X == UNION {ToSet(r(i)) : i \in 1..n}
<1>1. n \in Nat /\ DOMAIN C = 1..n
  BY InSeq
<1>2. gitLog(C) = FlattenSeq(seqs)
  BY DEF gitLog
<1>3. ASSUME NEW k \in 1..n PROVE IsSeq(r(k))
  <2>1. IsSeq(C[k].files) /\ (k = n) \in BOOLEAN
    OBVIOUS
  <2> HIDE DEF n
  <2> QED BY <2>1, RenderedIs
<1> HIDE DEF n, r
<1>4. ASSUME NEW k \in 1..n PROVE r(k) \in Seq(X)
  <2>1. r(k) \in Seq(ToSet(r(k))) /\ ToSet(r(k)) \subseteq X
    BY <1>3, InSeq
  <2> HIDE DEF X
  <2> QED BY <2>1
<1>5. seqs \in Seq(Seq(X)) /\ Len(seqs) = n /\ \A k \in 1..n : seqs[k] = r(k)
  <2> DEFINE S == Seq(X)
  <2>1. \A k \in 1..n : r(k) \in S
    BY <1>4
  <2> HIDE DEF S
  <2>2. seqs = [i \in 1..n |-> r(i)]
    BY <1>1
  <2> HIDE DEF seqs
  <2>3. seqs \in Seq(S) /\ Len(seqs) = n
    BY <2>1, <2>2, <1>1
  <2>4. \A k \in 1..n : seqs[k] = r(k)
    BY <2>2
  <2> QED BY <2>3, <2>4 DEF S
<1> HIDE DEF seqs, X
<1> DEFINE flat == FlattenSeq(seqs)
<1>61. seqs \in Seq(Seq(X)) /\ n = Len(seqs)
  BY <1>5
<1>60. Parted(X, seqs, n, flat)
  BY <1>61, FlattenAt
<1> HIDE DEF flat
<1>6. flat \in Seq(X)
  BY <1>60 DEF Parted
<1>7. PICK p \in [0..n -> Nat] :
                  /\ p[0] = 0 /\ p[n] = Len(flat)
                  /\ \A k \in 1..n :
                       /\ p[k] = p[k - 1] + Len(seqs[k])
                       /\ \A j \in 1..Len(seqs[k]) : p[k - 1] + j \in 1..Len(flat) /\ flat[p[k - 1] + j] = seqs[k][j]
  BY <1>60 DEF Parted
<1>8. \A k \in 1..n : /\ p[k] = p[k - 1] + Len(r(k))
                      /\ \A j \in 1..Len(r(k)) : p[k - 1] + j \in 1..Len(flat) /\ flat[p[k - 1] + j] = r(k)[j]
  BY <1>5, <1>7
<1>9. gitLog(C) = flat
  BY <1>2 DEF flat
<1> QED BY <1>6, <1>7, <1>8, <1>9 DEF n, r

LEMMA PastCommit ==
  ASSUME NEW g, NEW p, NEW c, NEW R, NEW q, Reads(g, p, c, No, R), c.files # <<>>, q = p + Len(rendered(c, No))
  PROVE  g[q] = EntryWith(R \o recordOf(c))
<1>1. c.files # <<>> /\ ~No => g[p + Len(rendered(c, No))] = EntryWith(R \o recordOf(c))
  BY CommitRead, ZenonT(60)
<1> QED BY <1>1 DEF No

LEMMA PastLast ==
  ASSUME NEW g, NEW p, NEW c, NEW R, NEW q, Reads(g, p, c, Yes, R), q = p + Len(rendered(c, Yes))
  PROVE  flush(g[q]) = EntryWith(R \o recordOf(c))
<1>1. Yes => flush(g[p + Len(rendered(c, Yes))]) = EntryWith(R \o recordOf(c))
  BY CommitRead, ZenonT(60)
<1> QED BY <1>1 DEF Yes

\* What the parser makes of a log in which none but the oldest commit is without files.
LEMMA CommitsRead ==
  ASSUME NEW C, IsSeq(C), \A i \in 1..Len(C) : IsSeq(C[i].files),
         \A i \in 1..(Len(C) - 1) : C[i].files # <<>>
  PROVE  IsSeq(parseGitEntries(gitLog(C))) /\ ToSet(parseGitEntries(gitLog(C))) = commitsTo(C, Len(C))
<1> DEFINE n == Len(C)
           flat == gitLog(C)
<1>1. PICK X : /\ flat \in Seq(X)
               /\ \E p \in [0..n -> Nat] :
                     /\ p[0] = 0 /\ p[n] = Len(flat)
                     /\ \A k \in 1..n :
                          LET r == rendered(C[k], k = n)
                          IN  /\ p[k] = p[k - 1] + Len(r)
                              /\ \A j \in 1..Len(r) : p[k - 1] + j \in 1..Len(flat) /\ flat[p[k - 1] + j] = r[j]
  BY LogIs
<1>2. PICK p \in [0..n -> Nat] :
                     /\ p[0] = 0 /\ p[n] = Len(flat)
                     /\ \A k \in 1..n :
                          LET r == rendered(C[k], k = n)
                          IN  /\ p[k] = p[k - 1] + Len(r)
                              /\ \A j \in 1..Len(r) : p[k - 1] + j \in 1..Len(flat) /\ flat[p[k - 1] + j] = r[j]
  BY <1>1
<1>3. n \in Nat
  BY InSeq
<1>4. PICK g \in [0..Len(flat) -> EntryStates(X)] :
           /\ g[0] = emptyEntry /\ FoldLeft(entryLine, emptyEntry, flat) = g[Len(flat)]
           /\ \A k \in 1..Len(flat) : g[k] = entryLine(g[k - 1], flat[k])
  <2> HIDE DEF flat
  <2>1. flat \in Seq(X)
    BY <1>1
  <2> QED BY <2>1, EntryFolds, Zenon
<1>5. parseGitEntries(flat) = flush(g[Len(flat)]).records
  BY <1>4 DEF parseGitEntries
<1> HIDE DEF n, flat
<1>6. ASSUME NEW k \in 1..n, NEW R, g[p[k - 1]] = EntryWith(R), NEW last \in BOOLEAN, last = (k = n)
      PROVE  Reads(g, p[k - 1], C[k], last, R) /\ p[k] = p[k - 1] + Len(rendered(C[k], last))
  <2> DEFINE r == rendered(C[k], last)
  <2>0. r = rendered(C[k], k = n)
    BY <1>6, Zenon
  <2>1. /\ p[k] = p[k - 1] + Len(r)
        /\ \A j \in 1..Len(r) : p[k - 1] + j \in 1..Len(flat) /\ flat[p[k - 1] + j] = r[j]
    <3> HIDE DEF r
    <3> QED BY <1>2, <2>0
  <2>2. p[k - 1] \in Nat /\ IsSeq(C[k].files) /\ last \in BOOLEAN
    <3>1. k - 1 \in 0..n
      BY <1>3
    <3> QED BY <3>1, <1>2 DEF n
  <2> HIDE DEF r
  <2>3. ASSUME NEW j \in 1..Len(r) PROVE g[p[k - 1] + j] = entryLine(g[p[k - 1] + (j - 1)], r[j])
    <3>1. p[k - 1] + j \in 1..Len(flat) /\ flat[p[k - 1] + j] = r[j] /\ j \in Int
      BY <2>1
    <3>2. (p[k - 1] + j) - 1 = p[k - 1] + (j - 1)
      BY <2>2, <3>1, SMTT(20)
    <3> QED BY <3>1, <3>2, <1>4
  <2> QED BY <2>1, <2>2, <2>3, <1>6 DEF Reads, r
<1> DEFINE Held(k, R) == IsSeq(R) /\ ToSet(R) = commitsTo(C, k) /\ g[p[k]] = EntryWith(R)
           T == {k \in 0..n : k < n => \E R : Held(k, R)}
<1>7. IsSeq(<<>>) /\ ToSet(<<>>) = commitsTo(C, 0) /\ emptyEntry = EntryWith(<<>>)
  <2>1. commitsTo(C, 0) = {}
    BY DEF commitsTo
  <2>2. emptyEntry = EntryWith(<<>>)
    BY DEF emptyEntry, EntryWith
  <2> QED BY <2>1, <2>2, NothingIsSeq
<1>8. 0 \in T
  <2>1. Held(0, <<>>)
    BY <1>2, <1>4, <1>7
  <2> HIDE DEF Held
  <2> QED BY <2>1, <1>3
<1>9. ASSUME NEW k \in 1..n, NEW R, Held(k - 1, R)
      PROVE  IsSeq(R \o recordOf(C[k])) /\ ToSet(R \o recordOf(C[k])) = commitsTo(C, k)
  <2>1. IsSeq(recordOf(C[k]))
    BY RecordOfIs
  <2>2. ToSet(R \o recordOf(C[k])) = ToSet(R) \cup ToSet(recordOf(C[k])) /\ IsSeq(R \o recordOf(C[k]))
    BY <2>1, <1>9, ConcatIsSeq
  <2>3. commitsTo(C, k) = commitsTo(C, k - 1) \cup ToSet(recordOf(C[k]))
    BY <1>3, RecordsGrow
  <2> QED BY <2>2, <2>3, <1>9
<1>10. ASSUME NEW k \in 1..n, k - 1 \in T PROVE k \in T
  <2>1. k \in 0..n /\ k - 1 < n
    BY <1>3
  <2> SUFFICES ASSUME k < n PROVE \E R : Held(k, R)
    BY <2>1
  <2>2. PICK R : Held(k - 1, R)
    BY <1>10, <2>1
  <2>4. C[k].files # <<>> /\ ~(k = n)
    <3>1. k \in 1..(n - 1) /\ k # n
      BY <1>3
    <3> QED BY <3>1 DEF n
  <2>41. No \in BOOLEAN /\ No = (k = n)
    BY <2>4 DEF No
  <2>3. Reads(g, p[k - 1], C[k], No, R) /\ p[k] = p[k - 1] + Len(rendered(C[k], No))
    BY <1>6, <2>2, <2>41
  <2>5. g[p[k]] = EntryWith(R \o recordOf(C[k]))
    BY <2>3, <2>4, PastCommit
  <2>6. Held(k, R \o recordOf(C[k]))
    BY <1>9, <2>2, <2>5
  <2> HIDE DEF Held
  <2> QED BY <2>6
<1>11. CASE n = 0
  <2>1. g[Len(flat)] = EntryWith(<<>>)
    BY <1>2, <1>4, <1>7, <1>11
  <2>2. flush(EntryWith(<<>>)) = EntryWith(<<>>)
    <3> DEFINE e == <<>>
    <3>1. EntryWith(e) = Entry(e, e, Yes, e)
      BY DEF EntryWith, Entry, Yes
    <3>2. \A h : h = <<>> => flush(Entry(h, h, Yes, h)) = EntryWith(h)
      BY Flushed
    <3> QED BY <3>1, <3>2
  <2>3. EntryWith(<<>>).records = <<>>
    BY DEF EntryWith
  <2> QED BY <2>1, <2>2, <2>3, <1>5, <1>7, <1>11 DEF n, flat
<1>12. CASE n # 0
  <2> HIDE DEF T
  <2>1. n - 1 \in T
    <3>1. 0..n \subseteq T
      BY <1>3, <1>8, <1>10, Along
    <3> QED BY <3>1, <1>3, <1>12
  <2>2. n \in 1..n /\ n - 1 < n
    BY <1>3, <1>12
  <2>3. PICK R : Held(n - 1, R)
    BY <2>1, <2>2 DEF T
  <2>41. Yes \in BOOLEAN /\ Yes = (n = n)
    BY DEF Yes
  <2>4. Reads(g, p[n - 1], C[n], Yes, R) /\ p[n] = p[n - 1] + Len(rendered(C[n], Yes))
    BY <1>6, <2>2, <2>3, <2>41
  <2>5. flush(g[p[n]]) = EntryWith(R \o recordOf(C[n]))
    BY <2>4, PastLast
  <2>6. IsSeq(R \o recordOf(C[n])) /\ ToSet(R \o recordOf(C[n])) = commitsTo(C, n)
    BY <1>9, <2>2, <2>3
  <2>7. \A Q : EntryWith(Q).records = Q
    BY DEF EntryWith
  <2>8. parseGitEntries(flat) = R \o recordOf(C[n])
    <3>1. parseGitEntries(flat) = flush(g[p[n]]).records
      BY <1>2, <1>5
    <3> QED BY <2>5, <2>7, <3>1, Zenon
  <2> QED BY <2>6, <2>8 DEF n, flat
<1> QED BY <1>11, <1>12

LEMMA DirTokensAre == ASSUME NEW files PROVE IsSeq(dirTokens(files))
<1> DEFINE w == within(Dirs, {files[i].dir : i \in DOMAIN files})
           k == IF Len(w) < maxGitDirsPerCommit THEN Len(w) ELSE maxGitDirsPerCommit
           X == ToSet(w)
<1>1. IsSeq(Dirs) /\ maxGitDirsPerCommit \in Nat
  BY ExtractAssumption, SeqIsSeq
<1>2. IsSeq(w)
  <2>1. Traces(Dirs, DOMAIN Dirs, Dirs, Smaller)
    BY <1>1, OwnTrace
  <2> QED BY <2>1, WithinTraces, Listed
<1>3. dirTokens(files) = SubSeq(w, 1, k)
  BY DEF dirTokens, firstOf
<1> HIDE DEF w, X
<1>4. w \in Seq(X) /\ Len(w) \in Nat
  BY <1>2, InSeq DEF X
<1>5. k \in 0..Len(w)
  BY <1>1, <1>4
<1> HIDE DEF k
<1>6. SubSeq(w, 1, k) \in Seq(X)
  BY <1>4, <1>5
<1> QED BY <1>3, <1>6, SeqIsSeq

LEMMA CommitTokensAre == ASSUME NEW c PROVE IsSeq(commitRecord(c).tokens)
<1>1. \A a, b : IsSeq(<<a, b>>)
  <2> TAKE a, b
  <2>1. <<a, b>> \in Seq({a, b})
    OBVIOUS
  <2> QED BY <2>1, SeqIsSeq
<1>2. IsSeq(<<c.type, c.scope>>) /\ IsSeq(dirTokens(c.files))
  BY <1>1, DirTokensAre
<1>3. IsSeq(<<c.type, c.scope>> \o dirTokens(c.files))
  BY <1>2, ConcatIsSeq
<1> QED BY <1>3 DEF commitRecord

\* The commits of the history that git lists.
LEMMA CommitsAre ==
  ASSUME Mining
  PROVE  /\ IsSeq(inWindow) /\ since(history[1].commits, extract.window) = inWindow
         /\ \A c \in ToSet(inWindow) : IsSeq(c.files) /\ c.at \in Int
         /\ \A c, d \in ToSet(inWindow) : c.sha = d.sha => c = d
<1> DEFINE C == history[1].commits
           S == {c \in ToSet(C) : c.committed >= extract.window}
<1>1. /\ IsSeq(C) /\ \A c \in ToSet(C) : c.at \in Int /\ IsSeq(c.files)
  BY SeqIsSeq DEF Mining, IsHistory
<1>2. \A c, d \in ToSet(C) : c.sha = d.sha => c = d
  BY DEF Mining, IsHistory, ToSet
<1>3. inWindow = within(C, S) /\ since(C, extract.window) = within(C, S)
  BY DEF inWindow, since
<1> HIDE DEF C, S
<1>4. Traces(C, DOMAIN C, C, Smaller)
  BY <1>1, OwnTrace
<1>5. Traces(within(C, S), {a \in DOMAIN C : C[a] \in S}, C, Smaller)
  BY <1>4, WithinTraces
<1>6. IsSeq(within(C, S)) /\ ToSet(within(C, S)) = {C[a] : a \in {a \in DOMAIN C : C[a] \in S}}
  BY <1>5, Listed
<1>7. ToSet(inWindow) \subseteq ToSet(C)
  BY <1>3, <1>6, <1>1, InSeq
<1>8. since(C, extract.window) = inWindow
  BY <1>3
<1> QED BY <1>1, <1>2, <1>3, <1>6, <1>7, <1>8 DEF C

\* What the parser makes of the log that git renders agrees with the commits
\* themselves, as long as none but the oldest is without files (onlyTheOldestIsEmpty,
\* parseGitEntries, buildCommitSequences).
THEOREM CommitsAgree ==
  ASSUME Mining, onlyTheOldestIsEmpty
  PROVE  Agree(buildCommitSequences(history[1].commits, extract.window), commitSources)
<1> DEFINE C == inWindow
           K == {c \in ToSet(C) : clean(c)}
           G(c) == [source |-> c.sha, tokens |-> commitRecord(c).tokens, first |-> c.at, last |-> c.at]
           P(c) == [source |-> c.sha, tokens |-> commitRecord(c).tokens]
           S == buildCommitSequences(history[1].commits, extract.window)
<1>1. /\ IsSeq(C) /\ since(history[1].commits, extract.window) = C
      /\ \A c \in ToSet(C) : IsSeq(c.files) /\ c.at \in Int
      /\ \A c, d \in ToSet(C) : c.sha = d.sha => c = d
  BY CommitsAre
<1>2. IsSeq(C) /\ (\A i \in 1..Len(C) : C[i] \in ToSet(C)) /\ Len(C) \in Nat /\ DOMAIN C = 1..Len(C)
  BY <1>1, InSeq
<1>3. \A i \in 1..(Len(C) - 1) : C[i].files # <<>>
  BY DEF onlyTheOldestIsEmpty
<1>4. \A c : commitRecord(c).source = c.sha /\ commitRecord(c).at = c.at
             /\ commitRecord(c).tokens = <<c.type, c.scope>> \o dirTokens(c.files)
  BY DEF commitRecord
<1>5. commitSources = {P(c) : c \in K}
  <2>1. commitSources = {[source |-> c.sha, tokens |-> <<c.type, c.scope>> \o dirTokens(c.files)] : c \in K}
    BY DEF commitSources, clean
  <2> QED BY <2>1, <1>4
<1> HIDE DEF C
<1>6. ToSet(parseGitEntries(gitLog(C))) = commitsTo(C, Len(C))
  <2>1. \A i \in 1..Len(C) : IsSeq(C[i].files)
    BY <1>1, <1>2
  <2> QED BY <2>1, <1>1, <1>3, CommitsRead
<1>7. commitsTo(C, Len(C)) = {commitRecord(c) : c \in K}
  <2>1. ToSet(C) = {C[i] : i \in 1..Len(C)}
    BY <1>2 DEF ToSet
  <2> QED BY <2>1 DEF commitsTo
<1>8. S = {[source |-> r.source, tokens |-> r.tokens, first |-> r.at, last |-> r.at] : r \in {commitRecord(c) : c \in K}}
  BY <1>1, <1>6, <1>7 DEF buildCommitSequences
<1>9. S = {G(c) : c \in K}
  <2>1. \A c : G(c) = [source |-> commitRecord(c).source, tokens |-> commitRecord(c).tokens,
                      first |-> commitRecord(c).at, last |-> commitRecord(c).at]
    BY <1>4
  <2> HIDE DEF K, S, G
  <2> QED BY <2>1, <1>8
<1>10. IsFiniteSet(S)
  <2>1. IsFiniteSet(K)
    <3>1. IsFiniteSet(ToSet(C))
      BY <1>1, ToSetFinite
    <3> QED BY <3>1, FS_Subset
  <2> DEFINE f == [c \in K |-> G(c)]
  <2> HIDE DEF K, S
  <2>2. f \in [K -> S] /\ \A y \in S : \E c \in K : f[c] = y
    <3>1. \A c \in K : f[c] = G(c) /\ G(c) \in S
      BY <1>9
    <3>2. f = [c \in K |-> f[c]]
      OBVIOUS
    <3> HIDE DEF f, G
    <3>3. f \in [K -> S]
      BY <3>1, <3>2
    <3>4. \A y \in S : \E c \in K : f[c] = y
      BY <3>1, <1>9
    <3> QED BY <3>3, <3>4
  <2> HIDE DEF f
  <2> QED BY <2>1, <2>2, ImageFinite
<1>11. \A c \in K : /\ IsSeq(commitRecord(c).tokens) /\ c.at \in Int /\ c.at <= c.at
  BY <1>1, CommitTokensAre
<1>12. \A c, d \in K : c.sha = d.sha => c = d
  BY <1>1
<1>13. \A c : /\ G(c).source = c.sha /\ G(c).tokens = commitRecord(c).tokens /\ G(c).first = c.at /\ G(c).last = c.at
              /\ P(c).source = c.sha /\ P(c).tokens = commitRecord(c).tokens
  OBVIOUS
<1> HIDE DEF G, P, K, S
<1>14. \A s \in S : /\ IsSeq(s.tokens) /\ s.first \in Int /\ s.last \in Int /\ s.first <= s.last
                    /\ \E p \in commitSources : p.source = s.source /\ p.tokens = s.tokens
  <2> SUFFICES ASSUME NEW c \in K
               PROVE  /\ IsSeq(G(c).tokens) /\ G(c).first \in Int /\ G(c).last \in Int /\ G(c).first <= G(c).last
                      /\ \E p \in commitSources : p.source = G(c).source /\ p.tokens = G(c).tokens
    BY <1>9
  <2>1. P(c) \in commitSources
    BY <1>5
  <2> QED BY <2>1, <1>11, <1>13
<1>15. \A p \in commitSources : \E s \in S : s.source = p.source /\ s.tokens = p.tokens
  <2> SUFFICES ASSUME NEW c \in K PROVE \E s \in S : s.source = P(c).source /\ s.tokens = P(c).tokens
    BY <1>5
  <2>1. G(c) \in S
    BY <1>9
  <2> QED BY <2>1, <1>13
<1>16. \A s, r \in S : s.source = r.source => s = r
  <2> SUFFICES ASSUME NEW c \in K, NEW d \in K, G(c).source = G(d).source PROVE G(c) = G(d)
    BY <1>9
  <2>1. c = d
    BY <1>12, <1>13
  <2> QED BY <2>1
<1>17. \A p, q \in commitSources : p.source = q.source => p = q
  <2> SUFFICES ASSUME NEW c \in K, NEW d \in K, P(c).source = P(d).source PROVE P(c) = P(d)
    BY <1>5
  <2>1. c = d
    BY <1>12, <1>13
  <2> QED BY <2>1
<1> QED BY <1>10, <1>14, <1>15, <1>16, <1>17 DEF Agree, S

-----------------------------------------------------------------------------
(***************************************************************************)
(* Extraction: the windows that are counted.                               *)
(***************************************************************************)
\* What is known of the windows V of one signature.
IsTally(acc, V) ==
  /\ acc.count = Cardinality(V) /\ acc.contexts = {w.src.source : w \in V}
  /\ acc.first \in Int /\ acc.last \in Int /\ acc.first <= acc.last

WithTokens(W, sig) == {w \in W : w.tokens = sig}

Tallied(accs, W) ==
  /\ DOMAIN accs = {w.tokens : w \in W}
  /\ \A sig \in DOMAIN accs : IsTally(accs[sig], WithTokens(W, sig))

Dated(w) == w.src.first \in Int /\ w.src.last \in Int /\ w.src.first <= w.src.last

LEMMA AccTallied ==
  ASSUME NEW V, IsFiniteSet(V), NEW x, x \notin V, Dated(x), NEW old, IsTally(old, V)
  PROVE  IsTally([count |-> old.count + 1, contexts |-> old.contexts \cup {x.src.source},
                  first |-> smaller(old.first, x.src.first), last |-> larger(old.last, x.src.last)], V \cup {x})
<1> DEFINE f == smaller(old.first, x.src.first)
           l == larger(old.last, x.src.last)
<1>1. f \in Int /\ l \in Int /\ f <= l
  BY DEF smaller, larger, Dated, IsTally
<1>2. Cardinality(V \cup {x}) = Cardinality(V) + 1
  BY FS_AddElement
<1>3. {w.src.source : w \in V \cup {x}} = {w.src.source : w \in V} \cup {x.src.source}
  OBVIOUS
<1> DEFINE n == old.count + 1
           c == old.contexts \cup {x.src.source}
           acc == [count |-> n, contexts |-> c, first |-> f, last |-> l]
<1>4. n = Cardinality(V \cup {x}) /\ c = {w.src.source : w \in V \cup {x}}
  BY <1>2, <1>3 DEF IsTally
<1>5. acc.count = n /\ acc.contexts = c /\ acc.first = f /\ acc.last = l
  OBVIOUS
<1> HIDE DEF acc, n, c, f, l
<1>6. IsTally(acc, V \cup {x})
  BY <1>1, <1>4, <1>5 DEF IsTally
<1> QED BY <1>6 DEF acc, n, c, f, l

LEMMA FirstTallied ==
  ASSUME NEW x, Dated(x)
  PROVE  IsTally([count |-> 1, contexts |-> {x.src.source}, first |-> x.src.first, last |-> x.src.last], {x})
<1>1. Cardinality({x}) = 1
  BY FS_Singleton
<1> QED BY <1>1 DEF IsTally, Dated

LEMMA TallyAdds ==
  ASSUME NEW q, IsFiniteSet(q), NEW x, x \notin q, Dated(x), NEW accs, Tallied(accs, q)
  PROVE  Tallied(tally(x, accs), q \cup {x})
<1> DEFINE old == accs[x.tokens]
           more == [count |-> old.count + 1, contexts |-> old.contexts \cup {x.src.source},
                    first |-> smaller(old.first, x.src.first), last |-> larger(old.last, x.src.last)]
           one == [count |-> 1, contexts |-> {x.src.source}, first |-> x.src.first, last |-> x.src.last]
           acc == IF x.tokens \in DOMAIN accs THEN more ELSE one
           r == q \cup {x}
           new == tally(x, accs)
<1>1. new = [sig \in DOMAIN accs \cup {x.tokens} |-> IF sig = x.tokens THEN acc ELSE accs[sig]]
  BY DEF tally
<1>2. ASSUME x.tokens \in DOMAIN accs PROVE IsTally(more, WithTokens(r, x.tokens))
  <2> DEFINE V == WithTokens(q, x.tokens)
  <2>1. IsTally(old, V) /\ IsFiniteSet(V) /\ x \notin V
    <3>1. V \subseteq q
      BY DEF WithTokens
    <3> QED BY <1>2, <3>1, FS_Subset DEF Tallied
  <2>2. IsTally(more, V \cup {x})
    <3> HIDE DEF V, old
    <3> QED BY <2>1, AccTallied
  <2>3. V \cup {x} = WithTokens(r, x.tokens)
    BY DEF WithTokens
  <2> HIDE DEF more, V, r
  <2> QED BY <2>2, <2>3
<1>3. ASSUME x.tokens \notin DOMAIN accs PROVE IsTally(one, WithTokens(r, x.tokens))
  <2>1. WithTokens(r, x.tokens) = {x}
    BY <1>3 DEF WithTokens, Tallied
  <2>2. IsTally(one, {x})
    BY FirstTallied
  <2> HIDE DEF one
  <2> QED BY <2>1, <2>2
<1>4. IsTally(acc, WithTokens(r, x.tokens))
  <2> HIDE DEF more, one, r
  <2> QED BY <1>2, <1>3
<1> HIDE DEF acc, new
<1>5. DOMAIN new = {w.tokens : w \in r}
  BY <1>1 DEF Tallied
<1>6. ASSUME NEW sig \in DOMAIN new, sig # x.tokens PROVE IsTally(new[sig], WithTokens(r, sig))
  <2>1. sig \in DOMAIN accs /\ new[sig] = accs[sig]
    BY <1>1, <1>6
  <2>2. WithTokens(r, sig) = WithTokens(q, sig)
    BY <1>6 DEF WithTokens
  <2> QED BY <2>1, <2>2 DEF Tallied
<1>7. new[x.tokens] = acc
  BY <1>1
<1>8. \A sig \in DOMAIN new : IsTally(new[sig], WithTokens(r, sig))
  BY <1>4, <1>6, <1>7
<1> QED BY <1>5, <1>8 DEF Tallied, new

\* The fold over the windows, in whatever order they are chosen.
LEMMA AllTallied ==
  ASSUME NEW W, IsFiniteSet(W), \A w \in W : Dated(w)
  PROVE  Tallied(FoldSet(tally, <<>>, W), W)
<1> DEFINE DefOn(f, D) == f = [r \in D |-> IF r = {} THEN <<>> ELSE tally(anyOf(r), f[r \ {anyOf(r)}])]
           fold == CHOOSE f : DefOn(f, SUBSET W)
           N == Cardinality(W)
<1>1. IsFiniteSet(W) /\ N \in Nat
  BY FS_CardinalityType
<1> HIDE DEF N
<1>2. PICK size : Sizes(size, W, N)
  BY <1>1, Shrinking DEF N
<1> DEFINE within_(k) == {r \in SUBSET W : size[r] <= k}
<1>a. /\ \A r \in SUBSET W : size[r] \in Nat /\ (size[r] = 0 <=> r = {})
      /\ \A r \in SUBSET W : r # {} => anyOf(r) \in r /\ r \ {anyOf(r)} \in SUBSET W
                                         /\ size[r \ {anyOf(r)}] = size[r] - 1
      /\ \A r \in SUBSET W : size[r] <= N
  BY <1>2 DEF Sizes
<1>3. \E g : DefOn(g, SUBSET W)
  <2> DEFINE T == {k \in Nat : \E g : DefOn(g, within_(k))}
  <2>1. 0 \in T
    <3> DEFINE g == [r \in within_(0) |-> <<>>]
    <3>1. \A r \in within_(0) : r = {}
      BY <1>a
    <3>2. DefOn(g, within_(0))
      BY <3>1
    <3> QED BY <3>2
  <2>2. ASSUME NEW k \in Nat, k \in T PROVE k + 1 \in T
    <3>1. PICK g : DefOn(g, within_(k))
      BY <2>2
    <3> DEFINE f == [r \in within_(k + 1) |-> IF r = {} THEN <<>> ELSE tally(anyOf(r), g[r \ {anyOf(r)}])]
    <3>2. ASSUME NEW r \in within_(k) PROVE f[r] = g[r] /\ r \in within_(k + 1)
      <4>1. r \in within_(k + 1)
        BY <1>a
      <4>2. g[r] = IF r = {} THEN <<>> ELSE tally(anyOf(r), g[r \ {anyOf(r)}])
        BY <3>1
      <4> QED BY <4>1, <4>2
    <3>3. ASSUME NEW r \in within_(k + 1), r # {} PROVE r \ {anyOf(r)} \in within_(k)
      <4>1. r \in SUBSET W /\ size[r] <= k + 1
        OBVIOUS
      <4>2. r \ {anyOf(r)} \in SUBSET W /\ size[r \ {anyOf(r)}] = size[r] - 1 /\ size[r] \in Nat
        BY <4>1, <3>3, <1>a
      <4> QED BY <4>1, <4>2
    <3>4. ASSUME NEW r \in within_(k + 1) PROVE f[r] = IF r = {} THEN <<>> ELSE tally(anyOf(r), f[r \ {anyOf(r)}])
      <4>1. r # {} => f[r \ {anyOf(r)}] = g[r \ {anyOf(r)}]
        BY <3>2, <3>3, Zenon
      <4>2. f[r] = IF r = {} THEN <<>> ELSE tally(anyOf(r), g[r \ {anyOf(r)}])
        OBVIOUS
      <4> HIDE DEF f, within_
      <4> QED BY <4>1, <4>2
    <3>5. DOMAIN f = within_(k + 1) /\ f = [r \in within_(k + 1) |-> f[r]]
      OBVIOUS
    <3> HIDE DEF f, within_
    <3>6. DefOn(f, within_(k + 1))
      BY <3>4, <3>5
    <3> HIDE DEF DefOn
    <3> QED BY <3>6
  <2> HIDE DEF T
  <2>3. N \in T
    BY <1>1, <2>1, <2>2, Induct
  <2>4. within_(N) = SUBSET W
    BY <1>a
  <2> QED BY <2>3, <2>4 DEF T
<1>4. DefOn(fold, SUBSET W)
  <2> HIDE DEF DefOn
  <2> QED BY <1>3
<1>5. FoldSet(tally, <<>>, W) = fold[W]
  BY DEF FoldSet, MapThenFoldSet, anyOf
<1> HIDE DEF fold
<1> DEFINE Good(r) == Tallied(fold[r], r)
           T == {k \in Nat : \A r \in within_(k) : Good(r)}
<1>6. Good({})
  <2>1. fold[{}] = <<>>
    BY <1>4
  <2>2. DOMAIN fold[{}] = {}
    BY <2>1
  <2> QED BY <2>2 DEF Tallied
<1>7. 0 \in T
  <2>1. \A r \in within_(0) : r = {}
    BY <1>a
  <2> HIDE DEF Good, within_
  <2> QED BY <1>6, <2>1
<1>8. ASSUME NEW k \in Nat, k \in T PROVE k + 1 \in T
  <2> SUFFICES ASSUME NEW r \in within_(k + 1), r # {} PROVE Good(r)
    <3> HIDE DEF Good, within_
    <3> QED BY <1>6
  <2>1. anyOf(r) \in r /\ r \ {anyOf(r)} \in within_(k) /\ anyOf(r) \in W /\ r \in SUBSET W
    <3>1. r \in SUBSET W /\ size[r] <= k + 1
      OBVIOUS
    <3>2. anyOf(r) \in r /\ r \ {anyOf(r)} \in SUBSET W /\ size[r \ {anyOf(r)}] = size[r] - 1 /\ size[r] \in Nat
      BY <3>1, <1>a
    <3> QED BY <3>1, <3>2
  <2> DEFINE q == r \ {anyOf(r)}
             x == anyOf(r)
             old == fold[q]
  <2>2. Tallied(old, q)
    BY <2>1, <1>8
  <2>3. fold[r] = tally(x, old)
    BY <1>4
  <2>4. x \notin q /\ q \cup {x} = r /\ Dated(x)
    BY <2>1
  <2>5. IsFiniteSet(q)
    BY <1>1, <2>1, FS_Subset
  <2> HIDE DEF q, x, old
  <2>6. Tallied(tally(x, old), q \cup {x})
    BY <2>2, <2>4, <2>5, TallyAdds
  <2> QED BY <2>3, <2>4, <2>6
<1> HIDE DEF T
<1>9. N \in T
  BY <1>1, <1>7, <1>8, Induct
<1>10. Good(W)
  BY <1>a, <1>9 DEF T
<1> QED BY <1>5, <1>10

Window(s, i, n) == [src |-> s, from |-> i, tokens |-> SubSeq(s.tokens, i, i + n - 1)]

LEMMA WindowIs ==
  ASSUME NEW S, NEW w
  PROVE  w \in windowsOf(S) <=>
           \E s \in S : \E n \in extractNGramSizes : \E i \in 1..(Len(s.tokens) - n + 1) : w = Window(s, i, n)
<1>1. windowsOf(S) = UNION {windowsIn(s, n) : s \in S, n \in extractNGramSizes}
  BY DEF windowsOf
<1>2. \A s, n : windowsIn(s, n) = {Window(s, i, n) : i \in 1..(Len(s.tokens) - n + 1)}
  BY DEF windowsIn, Window
<1>3. w \in windowsOf(S) <=> \E s \in S : \E n \in extractNGramSizes : w \in windowsIn(s, n)
  BY <1>1
<1> QED BY <1>2, <1>3

LEMMA RunIs ==
  ASSUME NEW t, IsSeq(t), NEW i \in DOMAIN t, NEW j \in DOMAIN t
  PROVE  Len(SubSeq(t, i, j)) = IF i <= j THEN j - i + 1 ELSE 0
<1> DEFINE X == ToSet(t)
<1>1. t \in Seq(X) /\ DOMAIN t = 1..Len(t) /\ Len(t) \in Nat
  BY InSeq
<1> HIDE DEF X
<1> QED BY <1>1

LEMMA PlaceIs ==
  ASSUME NEW t, IsSeq(t), NEW n \in extractNGramSizes, NEW i
  PROVE  /\ i \in 1..(Len(t) - n + 1) <=> i \in DOMAIN t /\ i + n - 1 <= Len(t)
         /\ i \in 1..(Len(t) - n + 1) => /\ i \in Int /\ i + n - 1 \in DOMAIN t
                                        /\ Len(SubSeq(t, i, i + n - 1)) = n
<1>1. DOMAIN t = 1..Len(t) /\ Len(t) \in Nat
  BY InSeq
<1>2. n \in {2, 3, 4}
  BY DEF extractNGramSizes
<1>3. i \in 1..(Len(t) - n + 1) <=> i \in DOMAIN t /\ i + n - 1 <= Len(t)
  BY <1>1, <1>2
<1>4. ASSUME i \in 1..(Len(t) - n + 1)
      PROVE  i \in Int /\ i + n - 1 \in DOMAIN t /\ Len(SubSeq(t, i, i + n - 1)) = n
  <2>1. i \in Int /\ i + n - 1 \in DOMAIN t /\ i \in DOMAIN t /\ i <= i + n - 1 /\ (i + n - 1) - i + 1 = n
    BY <1>1, <1>2, <1>4
  <2> DEFINE j == i + n - 1
  <2>2. j \in DOMAIN t /\ i <= j /\ j - i + 1 = n
    BY <2>1
  <2> HIDE DEF j
  <2>3. Len(SubSeq(t, i, j)) = n
    BY <2>1, <2>2, RunIs
  <2> QED BY <2>1, <2>3 DEF j
<1> QED BY <1>3, <1>4

LEMMA WindowsFinite ==
  ASSUME NEW S, IsFiniteSet(S), \A s \in S : IsSeq(s.tokens)
  PROVE  IsFiniteSet(windowsOf(S))
<1> DEFINE E == extractNGramSizes
           A == S \X E
           f == [a \in A |-> windowsIn(a[1], a[2])]
           F == {windowsIn(s, n) : s \in S, n \in E}
<1>1. IsFiniteSet(E)
  <2>1. E = 2..4
    BY DEF extractNGramSizes
  <2>2. IsFiniteSet(2..4)
    <3>1. 2 \in Int /\ 4 \in Int
      OBVIOUS
    <3> QED BY <3>1, FS_Interval, Zenon
  <2> HIDE DEF E
  <2> QED BY <2>1, <2>2
<1>2. IsFiniteSet(A)
  BY <1>1, FS_Product
<1>3. f \in [A -> F] /\ \A y \in F : \E a \in A : f[a] = y
  <2>1. \A a \in A : f[a] = windowsIn(a[1], a[2]) /\ a[1] \in S /\ a[2] \in E
    OBVIOUS
  <2>2. f = [a \in A |-> f[a]]
    OBVIOUS
  <2>3. \A s \in S : \A n \in E : <<s, n>> \in A /\ f[<<s, n>>] = windowsIn(s, n)
    OBVIOUS
  <2> HIDE DEF f, A, E
  <2>4. \A a \in A : f[a] \in F
    BY <2>1
  <2>5. \A y \in F : \E a \in A : f[a] = y
    <3> SUFFICES ASSUME NEW s \in S, NEW n \in E PROVE \E a \in A : f[a] = windowsIn(s, n)
      OBVIOUS
    <3>1. <<s, n>> \in A /\ f[<<s, n>>] = windowsIn(s, n)
      BY <2>3
    <3> HIDE DEF F
    <3> QED BY <3>1, Zenon
  <2> HIDE DEF F
  <2> QED BY <2>2, <2>4, <2>5
<1>4. IsFiniteSet(F)
  <2> HIDE DEF F, f, A
  <2> QED BY <1>2, <1>3, ImageFinite
<1>5. ASSUME NEW s \in S, NEW n \in E PROVE IsFiniteSet(windowsIn(s, n))
  <2> DEFINE I == 1..(Len(s.tokens) - n + 1)
             g == [i \in I |-> Window(s, i, n)]
             W == windowsIn(s, n)
  <2>1. IsFiniteSet(I)
    <3>1. Len(s.tokens) \in Nat
      BY InSeq
    <3>2. n \in {2, 3, 4}
      BY DEF extractNGramSizes
    <3>3. Len(s.tokens) - n + 1 \in Int
      BY <3>1, <3>2
    <3> QED BY <3>3, FS_Interval
  <2>2. W = {Window(s, i, n) : i \in I}
    BY DEF windowsIn, Window
  <2> HIDE DEF I, W
  <2>3. \A i \in I : g[i] = Window(s, i, n)
    OBVIOUS
  <2>4. g = [i \in I |-> g[i]]
    OBVIOUS
  <2> HIDE DEF g
  <2>5. \A i \in I : g[i] \in W
    BY <2>2, <2>3
  <2>6. g \in [I -> W]
    BY <2>4, <2>5
  <2>7. \A y \in W : \E i \in I : g[i] = y
    BY <2>2, <2>3
  <2>8. IsFiniteSet(W)
    BY <2>1, <2>6, <2>7, ImageFinite
  <2> QED BY <2>8 DEF W
<1>6. \A T \in F : IsFiniteSet(T)
  <2> HIDE DEF E
  <2> QED BY <1>5
<1>7. windowsOf(S) = UNION F
  BY DEF windowsOf
<1> HIDE DEF F
<1> QED BY <1>4, <1>6, <1>7, FS_UNION

OccurrenceOf(sig, P, o) ==
  \E p \in P : \E i \in DOMAIN p.tokens :
     /\ i + Len(sig) - 1 <= Len(p.tokens) /\ SubSeq(p.tokens, i, i + Len(sig) - 1) = sig
     /\ o = <<p.source, i>>

LEMMA OccurrenceIs == ASSUME NEW sig, NEW P, NEW o PROVE o \in occurrences(sig, P) <=> OccurrenceOf(sig, P, o)
<1> DEFINE at(s) == {<<s.source, i>> : i \in {j \in DOMAIN s.tokens :
                j + Len(sig) - 1 <= Len(s.tokens) /\ SubSeq(s.tokens, j, j + Len(sig) - 1) = sig}}
<1>1. occurrences(sig, P) = UNION {at(s) : s \in P}
  BY DEF occurrences
<1>2. o \in occurrences(sig, P) <=> \E s \in P : o \in at(s)
  <2> HIDE DEF at
  <2> QED BY <1>1
<1> QED BY <1>2 DEF OccurrenceOf

\* The windows with tokens sig are its occurrences.
LEMMA WindowsOccur ==
  ASSUME NEW S, NEW P, Agree(S, P), NEW sig, Len(sig) \in extractNGramSizes
  PROVE  LET V == WithTokens(windowsOf(S), sig)
             O == occurrences(sig, P)
         IN  /\ Cardinality(V) = Cardinality(O)
             /\ {w.src.source : w \in V} = {o[1] : o \in O}
<1> DEFINE V == WithTokens(windowsOf(S), sig)
           O == occurrences(sig, P)
           n == Len(sig)
           f == [w \in V |-> <<w.src.source, w.from>>]
<1>1. /\ IsFiniteSet(S)
      /\ \A s \in S : IsSeq(s.tokens) /\ \E p \in P : p.source = s.source /\ p.tokens = s.tokens
      /\ \A p \in P : DOMAIN p.tokens = {} \/ \E s \in S : s.source = p.source /\ s.tokens = p.tokens
      /\ \A s, t \in S : s.source = t.source => s = t
  BY DEF Agree
<1>2. n \in extractNGramSizes
  OBVIOUS
<1>3. ASSUME NEW w \in V
      PROVE  \E s \in S : \E i \in 1..(Len(s.tokens) - n + 1) : w = Window(s, i, n) /\ SubSeq(s.tokens, i, i + n - 1) = sig
  <2>1. w \in windowsOf(S) /\ w.tokens = sig
    BY DEF WithTokens
  <2>2. PICK s \in S : \E k \in extractNGramSizes : \E i \in 1..(Len(s.tokens) - k + 1) : w = Window(s, i, k)
    BY <2>1, WindowIs
  <2>3. PICK k \in extractNGramSizes : \E i \in 1..(Len(s.tokens) - k + 1) : w = Window(s, i, k)
    BY <2>2
  <2>4. PICK i \in 1..(Len(s.tokens) - k + 1) : w = Window(s, i, k)
    BY <2>3
  <2>5. w.tokens = SubSeq(s.tokens, i, i + k - 1)
    BY <2>4 DEF Window
  <2>6. Len(SubSeq(s.tokens, i, i + k - 1)) = k
    BY <1>1, PlaceIs
  <2>7. k = n
    BY <2>1, <2>5, <2>6
  <2> HIDE DEF n
  <2>8. i \in 1..(Len(s.tokens) - n + 1) /\ w = Window(s, i, n) /\ SubSeq(s.tokens, i, i + n - 1) = sig
    BY <2>1, <2>4, <2>5, <2>7
  <2> QED BY <2>8
<1>4. ASSUME NEW s \in S, NEW i \in 1..(Len(s.tokens) - n + 1), SubSeq(s.tokens, i, i + n - 1) = sig
      PROVE  Window(s, i, n) \in V
  <2>1. Window(s, i, n).tokens = sig
    BY <1>4 DEF Window
  <2>2. Window(s, i, n) \in windowsOf(S)
    <3> HIDE DEF n
    <3> QED BY <1>2, WindowIs
  <2> HIDE DEF n
  <2> QED BY <2>1, <2>2 DEF WithTokens
<1>5. \A o : o \in O <=> \E p \in P : \E i \in DOMAIN p.tokens :
         /\ i + n - 1 <= Len(p.tokens) /\ SubSeq(p.tokens, i, i + n - 1) = sig
         /\ o = <<p.source, i>>
  BY OccurrenceIs DEF OccurrenceOf
<1>6. \A s, i, k : Window(s, i, k).src = s /\ Window(s, i, k).from = i
  BY DEF Window
<1>7. \A w \in V : f[w] = <<w.src.source, w.from>>
  OBVIOUS
<1>8. f = [w \in V |-> f[w]]
  OBVIOUS
<1>9. IsFiniteSet(V)
  <2>1. IsFiniteSet(windowsOf(S))
    BY <1>1, WindowsFinite
  <2>2. V \subseteq windowsOf(S)
    BY DEF WithTokens
  <2> HIDE DEF V
  <2> QED BY <2>1, <2>2, FS_Subset
<1> HIDE DEF V, O, n, f
<1>10. ASSUME NEW w \in V PROVE f[w] \in O /\ f[w][1] = w.src.source
  <2>1. PICK s \in S : \E i \in 1..(Len(s.tokens) - n + 1) : w = Window(s, i, n) /\ SubSeq(s.tokens, i, i + n - 1) = sig
    BY <1>3
  <2>2. PICK i \in 1..(Len(s.tokens) - n + 1) : w = Window(s, i, n) /\ SubSeq(s.tokens, i, i + n - 1) = sig
    BY <2>1
  <2>3. w.src = s /\ w.from = i
    BY <2>2, <1>6
  <2>4. PICK p \in P : p.source = s.source /\ p.tokens = s.tokens
    BY <1>1
  <2>5. i \in DOMAIN s.tokens /\ i + n - 1 <= Len(s.tokens)
    BY <1>1, <1>2, PlaceIs
  <2>6. <<p.source, i>> \in O
    BY <2>2, <2>4, <2>5, <1>5
  <2>7. f[w] = <<s.source, i>>
    BY <1>7, <2>3
  <2> QED BY <2>3, <2>4, <2>6, <2>7
<1>11. ASSUME NEW o \in O PROVE \E w \in V : f[w] = o
  <2>1. PICK p \in P : \E i \in DOMAIN p.tokens :
         /\ i + n - 1 <= Len(p.tokens) /\ SubSeq(p.tokens, i, i + n - 1) = sig
         /\ o = <<p.source, i>>
    BY <1>5
  <2>2. PICK i \in DOMAIN p.tokens :
         /\ i + n - 1 <= Len(p.tokens) /\ SubSeq(p.tokens, i, i + n - 1) = sig
         /\ o = <<p.source, i>>
    BY <2>1
  <2>3. PICK s \in S : s.source = p.source /\ s.tokens = p.tokens
    BY <2>2, <1>1
  <2>4. i \in 1..(Len(s.tokens) - n + 1)
    BY <2>2, <2>3, <1>1, <1>2, PlaceIs
  <2>5. Window(s, i, n) \in V
    BY <2>2, <2>3, <2>4, <1>4
  <2>6. f[Window(s, i, n)] = <<s.source, i>>
    BY <2>5, <1>6, <1>7
  <2> QED BY <2>2, <2>3, <2>5, <2>6
<1>12. ASSUME NEW v \in V, NEW w \in V, f[v] = f[w] PROVE v = w
  <2>1. PICK s \in S : \E i \in 1..(Len(s.tokens) - n + 1) : v = Window(s, i, n) /\ SubSeq(s.tokens, i, i + n - 1) = sig
    BY <1>3
  <2>2. PICK t \in S : \E i \in 1..(Len(t.tokens) - n + 1) : w = Window(t, i, n) /\ SubSeq(t.tokens, i, i + n - 1) = sig
    BY <1>3
  <2>3. PICK i : v = Window(s, i, n)
    BY <2>1
  <2>4. PICK j : w = Window(t, j, n)
    BY <2>2
  <2>5. f[v] = <<s.source, i>> /\ f[w] = <<t.source, j>>
    BY <2>3, <2>4, <1>6, <1>7
  <2>6. s.source = t.source /\ i = j
    BY <2>5, <1>12
  <2>7. s = t
    BY <2>6, <1>1
  <2> QED BY <2>3, <2>4, <2>6, <2>7
<1>13. f \in [V -> O]
  BY <1>8, <1>10
<1>14. Cardinality(V) = Cardinality(O)
  <2>1. f \in Bijection(V, O)
    BY <1>11, <1>12, <1>13 DEF Bijection, Injection, Surjection, IsInjective
  <2>2. ExistsBijection(V, O)
    BY <2>1 DEF ExistsBijection
  <2> QED BY <2>2, <1>9, FS_Bijection, Zenon
<1>15. {w.src.source : w \in V} = {o[1] : o \in O}
  BY <1>10, <1>11
<1> QED BY <1>14, <1>15 DEF V, O

LEMMA RunOf ==
  ASSUME NEW P, NEW sig
  PROVE  sig \in runsOf(P) <=>
           \E p \in P : \E i \in DOMAIN p.tokens : \E j \in DOMAIN p.tokens : sig = SubSeq(p.tokens, i, j)
<1> DEFINE at(s) == {SubSeq(s.tokens, i, j) : i \in DOMAIN s.tokens, j \in DOMAIN s.tokens}
<1>1. runsOf(P) = UNION {at(s) : s \in P}
  BY DEF runsOf
<1>2. \A s : sig \in at(s) <=> \E i \in DOMAIN s.tokens : \E j \in DOMAIN s.tokens : sig = SubSeq(s.tokens, i, j)
  OBVIOUS
<1> HIDE DEF at
<1>3. sig \in runsOf(P) <=> \E s \in P : sig \in at(s)
  BY <1>1
<1> QED BY <1>2, <1>3

\* The signatures that are counted are the runs of two to four tokens.
LEMMA RunsAreWindows ==
  ASSUME NEW S, NEW P, Agree(S, P), NEW sig
  PROVE  (\E w \in windowsOf(S) : w.tokens = sig) <=> sig \in runsOf(P) /\ Len(sig) \in extractNGramSizes
<1>1. /\ \A s \in S : IsSeq(s.tokens) /\ \E p \in P : p.source = s.source /\ p.tokens = s.tokens
      /\ \A p \in P : DOMAIN p.tokens = {} \/ \E s \in S : s.source = p.source /\ s.tokens = p.tokens
  BY DEF Agree
<1>2. ASSUME NEW w \in windowsOf(S), w.tokens = sig PROVE sig \in runsOf(P) /\ Len(sig) \in extractNGramSizes
  <2>1. PICK s \in S : \E n \in extractNGramSizes : \E i \in 1..(Len(s.tokens) - n + 1) : w = Window(s, i, n)
    BY WindowIs
  <2>2. PICK n \in extractNGramSizes : \E i \in 1..(Len(s.tokens) - n + 1) : w = Window(s, i, n)
    BY <2>1
  <2>3. PICK i \in 1..(Len(s.tokens) - n + 1) : w = Window(s, i, n)
    BY <2>2
  <2>4. sig = SubSeq(s.tokens, i, i + n - 1)
    BY <1>2, <2>3 DEF Window
  <2>5. i \in DOMAIN s.tokens /\ i + n - 1 \in DOMAIN s.tokens /\ Len(sig) = n
    BY <1>1, <2>4, PlaceIs
  <2>6. PICK p \in P : p.source = s.source /\ p.tokens = s.tokens
    BY <1>1
  <2>7. sig \in runsOf(P)
    BY <2>4, <2>5, <2>6, RunOf
  <2> QED BY <2>5, <2>7
<1>3. ASSUME sig \in runsOf(P), Len(sig) \in extractNGramSizes PROVE \E w \in windowsOf(S) : w.tokens = sig
  <2>1. PICK p \in P : \E i \in DOMAIN p.tokens : \E j \in DOMAIN p.tokens : sig = SubSeq(p.tokens, i, j)
    BY <1>3, RunOf
  <2>2. PICK i \in DOMAIN p.tokens : \E j \in DOMAIN p.tokens : sig = SubSeq(p.tokens, i, j)
    BY <2>1
  <2>3. PICK j \in DOMAIN p.tokens : sig = SubSeq(p.tokens, i, j)
    BY <2>2
  <2>4. PICK s \in S : s.tokens = p.tokens
    BY <1>1, <2>2
  <2> DEFINE t == s.tokens
             n == Len(sig)
  <2>5. IsSeq(t) /\ i \in DOMAIN t /\ j \in DOMAIN t /\ sig = SubSeq(t, i, j)
    BY <1>1, <2>2, <2>3, <2>4
  <2>6. DOMAIN t = 1..Len(t) /\ Len(t) \in Nat /\ n = IF i <= j THEN j - i + 1 ELSE 0
    <3> HIDE DEF t
    <3> QED BY <2>5, InSeq, RunIs
  <2>7. n \in {2, 3, 4}
    BY <1>3 DEF extractNGramSizes
  <2> HIDE DEF t, n
  <2>8. i \in 1..(Len(t) - n + 1) /\ i + n - 1 = j
    <3>1. i \in 1..Len(t) /\ j \in 1..Len(t)
      BY <2>5, <2>6
    <3>2. i <= j /\ n = j - i + 1
      BY <2>6, <2>7, <3>1
    <3> QED BY <2>6, <3>1, <3>2
  <2>9. Window(s, i, n) \in windowsOf(S) /\ Window(s, i, n).tokens = sig
    <3>1. n \in extractNGramSizes
      BY <1>3 DEF n
    <3>2. Window(s, i, n).tokens = sig
      BY <2>5, <2>8 DEF Window, t
    <3> QED BY <2>8, <3>1, <3>2, WindowIs DEF t
  <2> QED BY <2>9
<1> QED BY <1>2, <1>3

\* What is known of the tally of the sources S, which agree with P.
LEMMA AccumulatedIs ==
  ASSUME NEW S, NEW P, Agree(S, P)
  PROVE  LET accs == accumulated(S)
         IN  /\ \A sig : sig \in DOMAIN accs <=> sig \in runsOf(P) /\ Len(sig) \in extractNGramSizes
             /\ \A sig \in DOMAIN accs :
                  /\ accs[sig].count = Cardinality(occurrences(sig, P))
                  /\ accs[sig].contexts = {o[1] : o \in occurrences(sig, P)}
                  /\ accs[sig].first <= accs[sig].last
             /\ \E N \in Nat : \A sig \in DOMAIN accs : accs[sig].count \in 1..N
<1> DEFINE accs == accumulated(S)
           W == windowsOf(S)
           N == Cardinality(W)
<1>1. /\ IsFiniteSet(S)
      /\ \A s \in S : IsSeq(s.tokens) /\ s.first \in Int /\ s.last \in Int /\ s.first <= s.last
  BY DEF Agree
<1>2. IsFiniteSet(W)
  BY <1>1, WindowsFinite
<1>3. \A w \in W : Dated(w)
  <2> SUFFICES ASSUME NEW w \in W PROVE Dated(w)
    OBVIOUS
  <2>1. PICK s \in S : \E n \in extractNGramSizes : \E i \in 1..(Len(s.tokens) - n + 1) : w = Window(s, i, n)
    BY WindowIs
  <2>2. w.src = s
    BY <2>1 DEF Window
  <2> QED BY <1>1, <2>2 DEF Dated
<1>4. Tallied(accs, W)
  <2>1. accs = FoldSet(tally, <<>>, W)
    BY DEF accumulated
  <2> HIDE DEF accs, W
  <2> QED BY <1>2, <1>3, <2>1, AllTallied
<1>5. \A sig : sig \in DOMAIN accs <=> \E w \in W : w.tokens = sig
  <2> HIDE DEF accs, W
  <2> QED BY <1>4 DEF Tallied
<1>6. \A sig : sig \in DOMAIN accs <=> sig \in runsOf(P) /\ Len(sig) \in extractNGramSizes
  <2> HIDE DEF accs
  <2> QED BY <1>5, RunsAreWindows
<1>7. ASSUME NEW sig \in DOMAIN accs
      PROVE  /\ accs[sig].count = Cardinality(occurrences(sig, P))
             /\ accs[sig].contexts = {o[1] : o \in occurrences(sig, P)}
             /\ accs[sig].first <= accs[sig].last
             /\ accs[sig].count \in 1..N
  <2> DEFINE V == WithTokens(W, sig)
  <2>1. IsTally(accs[sig], V)
    BY <1>4 DEF Tallied
  <2>2. Cardinality(V) = Cardinality(occurrences(sig, P)) /\ {w.src.source : w \in V} = {o[1] : o \in occurrences(sig, P)}
    BY <1>6, WindowsOccur
  <2>3. V \subseteq W /\ V # {}
    BY <1>5 DEF WithTokens
  <2> HIDE DEF V, W, accs
  <2>4. IsFiniteSet(V) /\ Cardinality(V) <= N
    BY <1>2, <2>3, FS_Subset
  <2>5. Cardinality(V) \in Nat /\ Cardinality(V) # 0 /\ N \in Nat
    BY <1>2, <2>3, <2>4, FS_CardinalityType, FS_EmptySet
  <2>6. accs[sig].count = Cardinality(V)
    BY <2>1 DEF IsTally
  <2>7. accs[sig].count \in 1..N
    BY <2>4, <2>5, <2>6
  <2> QED BY <2>1, <2>2, <2>7 DEF IsTally
<1>8. N \in Nat
  BY <1>2, FS_CardinalityType
<1> HIDE DEF accs, N
<1>9. \E K \in Nat : \A sig \in DOMAIN accs : accs[sig].count \in 1..K
  BY <1>7, <1>8
<1> QED BY <1>6, <1>7, <1>9 DEF accs

\* The candidates of a kind are the frequent runs of its sources, each with the number
\* and the sources of its places, the most frequent one with score 1 (mineKind).
THEOREM MinedCounts ==
  ASSUME NEW kind, NEW S, NEW P, Agree(S, P)
  PROVE  CountsWindows(mineKind(kind, S), P) /\ \A c \in mineKind(kind, S) : c.kind = kind
<1> DEFINE accs == accumulated(S)
           kept == {sig \in DOMAIN accs : accs[sig].count >= MinPatternFreq}
           most == Max({accs[sig].count : sig \in kept})
           C(sig) == patternCandidate(kind, sig, accs[sig], most)
           cs == mineKind(kind, S)
<1>1. cs = {C(sig) : sig \in kept}
  BY DEF mineKind
<1>2. /\ \A sig : sig \in DOMAIN accs <=> sig \in runsOf(P) /\ Len(sig) \in extractNGramSizes
      /\ \A sig \in DOMAIN accs :
           /\ accs[sig].count = Cardinality(occurrences(sig, P))
           /\ accs[sig].contexts = {o[1] : o \in occurrences(sig, P)}
           /\ accs[sig].first <= accs[sig].last
      /\ \E N \in Nat : \A sig \in DOMAIN accs : accs[sig].count \in 1..N
  BY AccumulatedIs
<1>3. \A sig : /\ C(sig).kind = kind /\ C(sig).signature = sig /\ C(sig).frequency = accs[sig].count
               /\ C(sig).contexts = accs[sig].contexts /\ C(sig).score = <<accs[sig].count, most>>
               /\ C(sig).first = accs[sig].first /\ C(sig).last = accs[sig].last
  <2> HIDE DEF accs, most
  <2> QED BY DEF patternCandidate, scorePattern
<1> HIDE DEF accs
<1>4. kept = frequentIn(P)
  BY <1>2 DEF frequentIn
<1>5. kept # {} => \E sig \in kept : accs[sig].count = most
  <2> SUFFICES ASSUME kept # {} PROVE \E sig \in kept : accs[sig].count = most
    OBVIOUS
  <2>1. PICK N \in Nat : \A sig \in DOMAIN accs : accs[sig].count \in 1..N
    BY <1>2
  <2> DEFINE counts == {accs[sig].count : sig \in kept}
  <2>2. counts \in SUBSET (1..N) /\ counts # {}
    BY <2>1
  <2> HIDE DEF counts
  <2>3. Max(counts) \in counts
    BY <2>2, HasMax
  <2> QED BY <2>3 DEF counts
<1> HIDE DEF C, most, kept, cs
<1>6. \A sig \in kept : /\ C(sig) \in cs /\ C(sig).signature = sig
                        /\ C(sig).score[1] = accs[sig].count /\ C(sig).score[2] = most
  BY <1>1, <1>3
<1>7. ASSUME NEW c \in cs
      PROVE  /\ c.kind = kind /\ c.signature \in kept
             /\ c.frequency = Cardinality(occurrences(c.signature, P))
             /\ c.contexts = {o[1] : o \in occurrences(c.signature, P)}
             /\ c.score[1] = c.frequency /\ c.score[2] = most /\ c.first <= c.last
  <2>1. PICK sig \in kept : c = C(sig)
    BY <1>1
  <2>2. sig \in DOMAIN accs
    BY DEF kept
  <2>3. c.kind = kind /\ c.signature = sig /\ c.frequency = accs[sig].count
    BY <2>1, <1>3
  <2>4. c.contexts = accs[sig].contexts /\ c.first = accs[sig].first /\ c.last = accs[sig].last
    BY <2>1, <1>3
  <2>5. c.score[1] = accs[sig].count /\ c.score[2] = most
    BY <2>1, <1>6
  <2>6. /\ accs[sig].count = Cardinality(occurrences(sig, P))
        /\ accs[sig].contexts = {o[1] : o \in occurrences(sig, P)}
        /\ accs[sig].first <= accs[sig].last
    BY <2>2, <1>2
  <2> QED BY <2>3, <2>4, <2>5, <2>6
<1>8. {c.signature : c \in cs} = frequentIn(P)
  BY <1>4, <1>6, <1>7
<1>9. ASSUME cs # {} PROVE \E c \in cs : c.score[1] = c.score[2] /\ \A d \in cs : d.score[2] = c.score[2]
  <2>1. PICK sig \in kept : accs[sig].count = most
    BY <1>5, <1>7, <1>9
  <2>2. C(sig) \in cs /\ C(sig).score[1] = most /\ C(sig).score[2] = most
    BY <2>1, <1>6
  <2>3. \A d \in cs : d.score[2] = most
    BY <1>7
  <2> QED BY <2>2, <2>3
<1> QED BY <1>7, <1>8, <1>9 DEF CountsWindows, cs

LEMMA KindOf == ASSUME NEW kind, NEW S, NEW c \in mineKind(kind, S) PROVE c.kind = kind
<1>1. \A sig, acc, n : patternCandidate(kind, sig, acc, n).kind = kind
  BY DEF patternCandidate
<1>2. \E sig, acc, n : c = patternCandidate(kind, sig, acc, n)
  <2> DEFINE accs == accumulated(S)
             kept == {sig \in DOMAIN accs : accs[sig].count >= MinPatternFreq}
             most == Max({accs[sig].count : sig \in kept})
  <2>1. c \in {patternCandidate(kind, sig, accs[sig], most) : sig \in kept}
    BY DEF mineKind
  <2> HIDE DEF accs, kept, most
  <2> QED BY <2>1
<1> QED BY <1>1, <1>2

LEMMA NothingAgrees == Agree({}, {})
BY FS_EmptySet DEF Agree

\* The candidates that the sources in git, specs and transcripts make.
LEMMA CandidatesCounted ==
  ASSUME Mining, NEW t \in Int, extract.mined = mined(history[1], extract.readable, extract.window, t)
  PROVE  CandidatesCountWindows
<1> DEFINE r == extract.readable
           A == IF "transcripts" \in r THEN buildToolSequences(Lines, extract.window) ELSE {}
           B == IF "specs" \in r THEN buildFileSequences(Specs, t) ELSE {}
           C == IF "git" \in r THEN buildCommitSequences(history[1].commits, extract.window) ELSE {}
           ofKind(kind) == {c \in extract.mined : c.kind = kind}
<1>1. extract.mined = mineKind("tool-sequence", A) \cup mineKind("file-sequence", B) \cup mineKind("commit-pattern", C)
  BY DEF mined, Lines, Specs
<1>2. /\ sourcesOf("commit-pattern") = IF "git" \in r THEN commitSources ELSE {}
      /\ sourcesOf("file-sequence") = IF "specs" \in r THEN specSources ELSE {}
      /\ sourcesOf("tool-sequence") = IF "transcripts" \in r THEN toolSources ELSE {}
  BY DEF sourcesOf
<1>3. timesKeepOrder => Agree(A, sourcesOf("tool-sequence"))
  BY <1>2, ToolsAgree, NothingAgrees
<1>4. Agree(B, sourcesOf("file-sequence"))
  BY <1>2, SpecsAgree, NothingAgrees
<1>5. onlyTheOldestIsEmpty => Agree(C, sourcesOf("commit-pattern"))
  BY <1>2, CommitsAgree, NothingAgrees
<1> HIDE DEF A, B, C, r
<1>6. /\ ofKind("tool-sequence") = mineKind("tool-sequence", A)
      /\ ofKind("file-sequence") = mineKind("file-sequence", B)
      /\ ofKind("commit-pattern") = mineKind("commit-pattern", C)
  <2>1. /\ \A c \in mineKind("tool-sequence", A) : c.kind = "tool-sequence"
        /\ \A c \in mineKind("file-sequence", B) : c.kind = "file-sequence"
        /\ \A c \in mineKind("commit-pattern", C) : c.kind = "commit-pattern"
    BY KindOf
  <2>2. "tool-sequence" # "file-sequence" /\ "tool-sequence" # "commit-pattern" /\ "file-sequence" # "commit-pattern"
    OBVIOUS
  <2> QED BY <1>1, <2>1, <2>2
<1>7. /\ timesKeepOrder => CountsWindows(ofKind("tool-sequence"), sourcesOf("tool-sequence"))
      /\ CountsWindows(ofKind("file-sequence"), sourcesOf("file-sequence"))
      /\ onlyTheOldestIsEmpty => CountsWindows(ofKind("commit-pattern"), sourcesOf("commit-pattern"))
  <2>1. timesKeepOrder => CountsWindows(mineKind("tool-sequence", A), sourcesOf("tool-sequence"))
    BY <1>3, MinedCounts
  <2>2. CountsWindows(mineKind("file-sequence", B), sourcesOf("file-sequence"))
    BY <1>4, MinedCounts
  <2>3. onlyTheOldestIsEmpty => CountsWindows(mineKind("commit-pattern", C), sourcesOf("commit-pattern"))
    BY <1>5, MinedCounts
  <2> HIDE DEF ofKind
  <2> QED BY <1>6, <2>1, <2>2, <2>3
<1>8. DOMAIN kindRank = {"commit-pattern", "file-sequence", "tool-sequence"}
  BY DEF kindRank
<1>9. \A kind \in DOMAIN kindRank :
        (kind = "commit-pattern" => onlyTheOldestIsEmpty) /\ (kind = "tool-sequence" => timesKeepOrder) =>
          CountsWindows(ofKind(kind), sourcesOf(kind))
  <2> HIDE DEF ofKind
  <2> QED BY <1>7, <1>8
<1> QED BY <1>9 DEF CandidatesCountWindows

\* What there is to mine, and what an extract has mined.
Minable ==
  /\ now \in Nat
  /\ IsSeq(history) /\ history # <<>> /\ \A h \in ToSet(history) : IsHistory(h)
  /\ "pc" \in DOMAIN extract /\ extract.window \in Int
  /\ At("mined") => \E t \in Nat : extract.mined = mined(history[1], extract.readable, extract.window, t)

LEMMA MinableFirst == Init => Minable
<1> SUFFICES ASSUME Init PROVE Minable
  OBVIOUS
<1>1. history \in Histories /\ now = 1 /\ extract = Idle
  BY DEF Init
<1>2. IsSeq(history) /\ history # <<>> /\ \A h \in ToSet(history) : IsHistory(h)
  BY <1>1, HistoriesAssumption, SeqIsSeq
<1>3. "pc" \in DOMAIN extract /\ extract.window \in Int /\ ~At("mined")
  BY <1>1 DEF Idle, At
<1> QED BY <1>1, <1>2, <1>3 DEF Minable

LEMMA MinableNext == Minable /\ [Next]_vars => Minable'
<1> SUFFICES ASSUME Minable, [Next]_vars PROVE Minable'
  OBVIOUS
<1> DEFINE Holds(hs) == IsSeq(hs) /\ hs # <<>> /\ \A h \in ToSet(hs) : IsHistory(h)
           Kept == now' \in Nat /\ Holds(history')
<1>1. now \in Nat /\ Holds(history) /\ "pc" \in DOMAIN extract /\ extract.window \in Int
  BY DEF Minable
<1>2. CASE Mine
  <2>1. PICK window \in Windows : \E readable \in {{"transcripts", "specs", "git"}, {"transcripts", "git"}} :
       extract' = [pc |-> "mined", window |-> window, readable |-> readable,
                   mined |-> mined(history[1], readable, window, now), left |-> mined(history[1], readable, window, now)]
    BY <1>2 DEF Mine
  <2>2. PICK readable :
       extract' = [pc |-> "mined", window |-> window, readable |-> readable,
                   mined |-> mined(history[1], readable, window, now), left |-> mined(history[1], readable, window, now)]
    BY <2>1
  <2>3. now' = now + 1 /\ history' = history
    BY <1>2 DEF Mine
  <2>4. /\ "pc" \in DOMAIN extract' /\ extract'.window = window /\ extract'.readable = readable
        /\ extract'.mined = mined(history[1], readable, window, now)
    BY <2>2
  <2>5. window \in Int
    BY HistoriesAssumption
  <2>6. extract'.mined = mined(history'[1], extract'.readable, extract'.window, now)
    BY <2>3, <2>4
  <2>7. now' \in Nat
    BY <1>1, <2>3
  <2> QED BY <1>1, <2>3, <2>4, <2>5, <2>6, <2>7 DEF Minable
<1>3. CASE writeCandidatesFile \/ upsertPattern \/ insertCandidate \/ allPersisted
  <2>1. now' = now /\ history' = history
    BY <1>3 DEF writeCandidatesFile, upsertPattern, insertCandidate, allPersisted
  <2>2. "pc" \in DOMAIN extract' /\ extract'.window = extract.window /\ extract'.pc \in {"upsert", "insert", "ended"}
    <3>1. extract' \in {[extract EXCEPT !.pc = "upsert"], [extract EXCEPT !.pc = "insert"],
                       [extract EXCEPT !.pc = "upsert", !.left = @ \ {nextCandidate}],
                       [extract EXCEPT !.pc = "ended"]}
      BY <1>3, Zenon DEF writeCandidatesFile, upsertPattern, insertCandidate, allPersisted
    <3>2. \A e, l : "pc" \in DOMAIN e =>
            LET d == [e EXCEPT !.pc = "upsert", !.left = l]
            IN  "pc" \in DOMAIN d /\ d.window = e.window /\ d.pc = "upsert"
      OBVIOUS
    <3>3. \A e : \A s \in {"upsert", "insert", "ended"} : "pc" \in DOMAIN e =>
            LET d == [e EXCEPT !.pc = s]
            IN  "pc" \in DOMAIN d /\ d.window = e.window /\ d.pc = s
      OBVIOUS
    <3> DEFINE l == extract.left \ {nextCandidate}
    <3>4. extract' \in {[extract EXCEPT !.pc = "upsert"], [extract EXCEPT !.pc = "insert"],
                       [extract EXCEPT !.pc = "upsert", !.left = l], [extract EXCEPT !.pc = "ended"]}
      BY <3>1
    <3> HIDE DEF l
    <3>5. CASE extract' = [extract EXCEPT !.pc = "upsert", !.left = l]
      BY <1>1, <3>2, <3>5
    <3>6. CASE \E s \in {"upsert", "insert", "ended"} : extract' = [extract EXCEPT !.pc = s]
      BY <1>1, <3>3, <3>6
    <3> QED BY <3>4, <3>5, <3>6
  <2>3. ~At("mined")'
    BY <2>2 DEF At
  <2> QED BY <1>1, <2>1, <2>2, <2>3 DEF Minable
<1>4. CASE Kill \/ Work
  <2>1. "pc" \in DOMAIN extract' /\ extract'.window = 0 /\ extract'.pc # "mined"
    BY <1>4 DEF Kill, Work, Idle
  <2>2. now' = now
    BY <1>4 DEF Kill, Work
  <2>3. history' = history \/ (Len(history) > 1 /\ history' = Tail(history))
    BY <1>4 DEF Kill, Work
  <2>4. ASSUME Len(history) > 1 PROVE Holds(Tail(history))
    <3> DEFINE X == ToSet(history)
               n == Len(history)
               s == Tail(history)
    <3>1. history \in Seq(X) /\ n \in Nat
      BY <1>1, InSeq
    <3> HIDE DEF X
    <3>2. s \in Seq(X) /\ Len(s) = n - 1
      BY <2>4, <3>1
    <3> HIDE DEF s
    <3>3. IsSeq(s) /\ s # <<>>
      BY <2>4, <3>1, <3>2, SeqIsSeq
    <3>4. ToSet(s) \subseteq X
      BY <3>2 DEF ToSet
    <3> QED BY <1>1, <3>3, <3>4 DEF X, s
  <2>5. Holds(history')
    <3> HIDE DEF Holds
    <3> QED BY <1>1, <2>3, <2>4
  <2> QED BY <1>1, <2>1, <2>2, <2>5 DEF Minable, At
<1>5. CASE Recall \/ Similar \/ UNCHANGED vars
  <2>1. UNCHANGED <<now, history, extract>>
    BY <1>5 DEF Recall, Similar, vars
  <2> QED BY <2>1 DEF Minable, At
<1> QED BY <1>2, <1>3, <1>4, <1>5 DEF Next

\* The candidates count what happened (CandidatesCountWindows), for any histories
\* and any windows: git's records, the tools of the sessions and the tasks of the
\* specs become the sequences they should (CommitsAgree, ToolsAgree, SpecsAgree),
\* and the tally of their windows is the number of their places (MinedCounts).
THEOREM CandidatesAlwaysCount == Spec => []CandidatesCountWindows
<1>3. ~At("mined") => CandidatesCountWindows
  BY DEF CandidatesCountWindows
<1>1. Minable => CandidatesCountWindows
  <2> SUFFICES ASSUME Minable, At("mined") PROVE CandidatesCountWindows
    BY <1>3
  <2>1. Mining
    <3>1. 1 \in DOMAIN history /\ \A i \in DOMAIN history : history[i] \in ToSet(history)
      BY InSeq DEF Minable
    <3> QED BY <3>1 DEF Minable, Mining
  <2>2. PICK t \in Nat : extract.mined = mined(history[1], extract.readable, extract.window, t)
    BY DEF Minable
  <2>3. t \in Int
    OBVIOUS
  <2> QED BY <2>1, <2>2, <2>3, CandidatesCounted
<1>2. Spec => []Minable
  BY MinableFirst, MinableNext, PTL DEF Spec
<1> QED BY <1>1, <1>2, PTL
=============================================================================
