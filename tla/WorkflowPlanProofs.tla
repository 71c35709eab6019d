------------------------- MODULE WorkflowPlanProofs -------------------------
(***************************************************************************)
(* What the next wave of a manifest is, for any number of steps and any    *)
(* manifest: NextBatch collects a wave in a recursive function, so its     *)
(* lemmas rest on induction over the steps already looked at.              *)
(***************************************************************************)
EXTENDS WorkflowPlan, WellFoundedInduction, TLAPS

(* Induction over the naturals for a set that is given, not a predicate.   *)
LEMMA SetInduction ==
  ASSUME NEW S, 0 \in S, \A n \in Nat : n \in S => n + 1 \in S
  PROVE  Nat \subseteq S
<1> DEFINE T == Nat \ S
<1>1. SUFFICES ASSUME T # {} PROVE FALSE
  OBVIOUS
<1>2. T \subseteq Nat
  OBVIOUS
<1>3. \E x \in T : \A y \in T : ~ (<<y, x>> \in OpToRel(<, Nat))
  <2> HIDE DEF T
  <2> QED BY <1>1, <1>2, WFMin, NatLessThanWellFounded
<1>4. PICK x \in T : \A y \in T : ~ (<<y, x>> \in OpToRel(<, Nat))
  BY <1>3
<1>5. \A y \in T : ~(y < x)
  BY <1>2, <1>4 DEF OpToRel
<1>6. x \in Nat /\ x # 0 /\ x - 1 \in Nat /\ x - 1 \in S
  BY <1>5
<1> QED BY <1>6

(* A function on 0..k that takes its values one after the other. *)
Stepwise(f, k, first, step) ==
  f[0] = first /\ \A i \in 1..k : f[i] = step[i, f[i - 1]]

(* A step function defines a function on 0..n, one argument at a time.     *)
LEMMA StepwiseFunction ==
  ASSUME NEW V, NEW first \in V, NEW step \in [Nat \X V -> V], NEW n \in Nat
  PROVE  \E f \in [0..n -> V] : Stepwise(f, n, first, step)
<1> DEFINE S == {k \in Nat : \E f \in [0..k -> V] : Stepwise(f, k, first, step)}
<1>1. 0 \in S
  <2> DEFINE f == [i \in 0..0 |-> first]
  <2>1. f \in [0..0 -> V] /\ Stepwise(f, 0, first, step)
    BY DEF Stepwise
  <2> QED BY <2>1
<1>2. ASSUME NEW k \in Nat, k \in S PROVE k + 1 \in S
  <2>1. PICK f \in [0..k -> V] : Stepwise(f, k, first, step)
    BY <1>2
  <2>2. PICK last \in V : last = step[k + 1, f[k]]
    <3>1. f[k] \in V /\ k + 1 \in Nat
      OBVIOUS
    <3> QED BY <3>1
  <2> DEFINE g == [i \in 0..(k + 1) |-> IF i = k + 1 THEN last ELSE f[i]]
  <2>3. \A i \in 0..k : i \in 0..(k + 1) /\ i # k + 1 /\ g[i] = f[i]
    OBVIOUS
  <2>4. k + 1 \in 0..(k + 1) /\ g[k + 1] = last
    OBVIOUS
  <2>5. g \in [0..(k + 1) -> V]
    <3>1. \A i \in 0..(k + 1) : i = k + 1 \/ i \in 0..k
      OBVIOUS
    <3>2. \A i \in 0..(k + 1) : g[i] \in V
      BY <2>3, <2>4, <3>1
    <3> QED BY <3>2
  <2> HIDE DEF g
  <2>6. Stepwise(g, k + 1, first, step)
    <3>1. 0 \in 0..k /\ k \in 0..k /\ (k + 1) - 1 = k
      OBVIOUS
    <3>2. g[0] = first
      BY <2>1, <2>3, <3>1 DEF Stepwise
    <3>3. g[k + 1] = step[k + 1, g[(k + 1) - 1]]
      BY <2>2, <2>3, <2>4, <3>1
    <3>4. ASSUME NEW i \in 1..k PROVE g[i] = step[i, g[i - 1]]
      <4>1. i \in 0..k /\ i - 1 \in 0..k
        OBVIOUS
      <4> QED BY <2>1, <2>3, <4>1 DEF Stepwise
    <3>5. \A i \in 1..(k + 1) : i \in 1..k \/ i = k + 1
      OBVIOUS
    <3> QED BY <3>2, <3>3, <3>4, <3>5 DEF Stepwise
  <2> QED BY <2>5, <2>6
<1>3. n \in S
  <2> HIDE DEF S
  <2> QED BY <1>1, <1>2, SetInduction
<1> QED BY <1>3

(* A fact about a function on 0..n that is passed on from each argument to *)
(* the next; the fact is the set of the arguments at which it holds.       *)
LEMMA RangeInduction ==
  ASSUME NEW n \in Nat, NEW S, 0 \in S, \A i \in 1..n : i - 1 \in S => i \in S
  PROVE  \A i \in 0..n : i \in S
<1> DEFINE T == {k \in Nat : k <= n => k \in S}
<1>1. 0 \in T
  OBVIOUS
<1>2. ASSUME NEW k \in Nat, k \in T PROVE k + 1 \in T
  <2>1. CASE k + 1 <= n
    <3>1. k + 1 \in 1..n /\ (k + 1) - 1 = k /\ k \in S
      BY <1>2, <2>1
    <3> QED BY <3>1
  <2> QED BY <2>1
<1>3. Nat \subseteq T
  <2> HIDE DEF T
  <2> QED BY <1>1, <1>2, SetInduction
<1> QED BY <1>3

-----------------------------------------------------------------------------
(* What a step joins: the wave collected so far.                           *)
Joins(m, done, i, batch) ==
  /\ i \notin done
  /\ IF m.parallel
     THEN /\ m.deps[i] \subseteq done
          /\ \A j \in batch : ~workflowWritesOverlap(m.writes[i], m.writes[j])
     ELSE batch = {}

(* The waves collected after each step in authored order. *)
Collects(f, m, done) ==
  /\ f[0] = {}
  /\ \A i \in 1..N :
       f[i] = IF Joins(m, done, i, f[i - 1]) THEN f[i - 1] \cup {i} ELSE f[i - 1]

LEMMA CollectsUnique ==
  ASSUME NEW m, NEW done, NEW f, NEW g, Collects(f, m, done), Collects(g, m, done)
  PROVE  \A i \in 0..N : f[i] = g[i]
<1> DEFINE S == {i \in 0..N : f[i] = g[i]}
<1>1. N \in Nat
  BY NAssumption
<1>2. 0 \in S
  BY <1>1 DEF Collects
<1>3. ASSUME NEW i \in 1..N, i - 1 \in S PROVE i \in S
  <2>1. f[i - 1] = g[i - 1] /\ i \in 0..N
    BY <1>1, <1>3
  <2>2. f[i] = g[i]
    BY <2>1 DEF Collects
  <2> QED BY <2>1, <2>2
<1>4. \A i \in 0..N : i \in S
  <2> HIDE DEF S
  <2> QED BY <1>1, <1>2, <1>3, RangeInduction
<1> QED BY <1>4

(* NextBatch is the last of them. *)
LEMMA NextBatchUnfolds ==
  ASSUME NEW m, NEW done
  PROVE  \E f \in [0..N -> SUBSET Nat] : Collects(f, m, done) /\ NextBatch(m, done) = f[N]
<1> DEFINE Body(f) == [i \in 0..N |->
              IF i = 0 THEN {}
              ELSE LET batch == f[i - 1] IN
                   IF /\ i \notin done
                      /\ IF m.parallel
                         THEN /\ m.deps[i] \subseteq done
                              /\ \A j \in batch : ~workflowWritesOverlap(m.writes[i], m.writes[j])
                         ELSE batch = {}
                   THEN batch \cup {i} ELSE batch]
           Picked == CHOOSE f : f = Body(f)
           step == [p \in Nat \X SUBSET Nat |->
                      IF Joins(m, done, p[1], p[2]) THEN p[2] \cup {p[1]} ELSE p[2]]
<1>1. NextBatch(m, done) = Picked[N]
  BY DEF NextBatch
<1>2. step \in [Nat \X SUBSET Nat -> SUBSET Nat]
  OBVIOUS
<1>3. N \in Nat
  BY NAssumption
<1>4. PICK f \in [0..N -> SUBSET Nat] : Stepwise(f, N, {}, step)
  <2> HIDE DEF step
  <2> QED BY <1>2, <1>3, StepwiseFunction
<1>5. Collects(f, m, done)
  <2>1. f[0] = {}
    BY <1>4 DEF Stepwise
  <2>2. ASSUME NEW i \in 1..N
        PROVE  f[i] = IF Joins(m, done, i, f[i - 1]) THEN f[i - 1] \cup {i} ELSE f[i - 1]
    <3>1. i \in Nat /\ i - 1 \in 0..N
      BY <1>3
    <3>2. <<i, f[i - 1]>> \in Nat \X SUBSET Nat
      BY <3>1
    <3>3. f[i] = step[<<i, f[i - 1]>>]
      BY <1>4 DEF Stepwise
    <3> QED BY <3>2, <3>3
  <2> QED BY <2>1, <2>2 DEF Collects
<1>6. f = Body(f)
  <2>1. \A i \in 0..N : f[i] = Body(f)[i]
    <3> TAKE i \in 0..N
    <3>1. CASE i = 0
      BY <1>5, <3>1 DEF Collects
    <3>2. CASE i # 0
      <4>1. i \in 1..N
        BY <1>3, <3>2
      <4> QED BY <1>5, <3>2, <4>1 DEF Joins, Collects
    <3> QED BY <3>1, <3>2
  <2>2. Body(f) = [i \in 0..N |-> Body(f)[i]] /\ f = [i \in 0..N |-> f[i]]
    OBVIOUS
  <2> HIDE DEF Body
  <2> QED BY <2>1, <2>2
<1>7. Picked = Body(Picked)
  <2> HIDE DEF Body
  <2> QED BY <1>6
<1>8. Collects(Picked, m, done) /\ 0 \in 0..N /\ N \in 0..N
  <2> HIDE DEF Picked
  <2>1. Picked[0] = {} /\ 0 \in 0..N /\ N \in 0..N
    BY <1>3, <1>7
  <2>2. ASSUME NEW i \in 1..N
        PROVE  Picked[i] = IF Joins(m, done, i, Picked[i - 1])
                           THEN Picked[i - 1] \cup {i} ELSE Picked[i - 1]
    <3>1. i \in 0..N /\ i # 0
      BY <1>3
    <3>2. Picked[i] = Body(Picked)[i]
      BY <1>7
    <3>3. Body(Picked)[i] = IF Joins(m, done, i, Picked[i - 1])
                            THEN Picked[i - 1] \cup {i} ELSE Picked[i - 1]
      BY <3>1 DEF Joins
    <3> HIDE DEF Body
    <3> QED BY <3>2, <3>3
  <2> QED BY <2>1, <2>2 DEF Collects
<1>9. Picked[N] = f[N]
  <2> HIDE DEF Picked
  <2> QED BY <1>5, <1>8, CollectsUnique
<1> QED BY <1>1, <1>5, <1>9

(* Overlap of two declarations is symmetric. *)
LEMMA OverlapSymmetric ==
  ASSUME NEW a, NEW b, workflowWritesOverlap(a, b)
  PROVE  workflowWritesOverlap(b, a)
BY DEF workflowWritesOverlap

(* A wave takes steps that are not done.  In a parallel wave every         *)
(* dependency is done and no two declarations overlap; a sequential wave   *)
(* is the first step that is not done.                                     *)
LEMMA NextBatchSound ==
  ASSUME NEW m, NEW done
  PROVE  LET batch == NextBatch(m, done) IN
         /\ batch \subseteq Steps \ done
         /\ IF m.parallel
            THEN \A s \in batch :
                   /\ m.deps[s] \subseteq done
                   /\ \A t \in batch : s # t => ~workflowWritesOverlap(m.writes[s], m.writes[t])
            ELSE \A s \in batch : batch = {s} /\ 1..(s - 1) \subseteq done
<1>1. PICK f \in [0..N -> SUBSET Nat] : Collects(f, m, done) /\ NextBatch(m, done) = f[N]
  BY NextBatchUnfolds
<1> DEFINE Sound(i, batch) ==
             /\ batch \subseteq (1..i) \ done
             /\ m.parallel => \A s \in batch :
                   /\ m.deps[s] \subseteq done
                   /\ \A t \in batch : s # t => ~workflowWritesOverlap(m.writes[s], m.writes[t])
             /\ ~m.parallel =>
                  /\ batch = {} => 1..i \subseteq done
                  /\ \A s \in batch : batch = {s} /\ 1..(s - 1) \subseteq done
           S == {i \in 0..N : Sound(i, f[i])}
<1>2. N \in Nat
  BY NAssumption
<1>3. 0 \in S
  BY <1>1, <1>2 DEF Collects
<1>4. ASSUME NEW i \in 1..N, i - 1 \in S PROVE i \in S
  <2> DEFINE b == f[i - 1]
  <2>1. Sound(i - 1, b)
    BY <1>4
  <2>2. i \in Nat /\ i \in 0..N /\ 1..i = (1..(i - 1)) \cup {i} /\ i \notin 1..(i - 1)
    BY <1>2
  <2>3. CASE ~Joins(m, done, i, b)
    <3>1. f[i] = b
      BY <1>1, <2>3 DEF Collects
    <3>2. ~m.parallel /\ b = {} => i \in done
      BY <2>3 DEF Joins
    <3> HIDE DEF b
    <3> QED BY <2>1, <2>2, <3>1, <3>2
  <2>4. CASE Joins(m, done, i, b)
    <3>1. f[i] = b \cup {i} /\ i \notin done
      BY <1>1, <2>4 DEF Joins, Collects
    <3> HIDE DEF b
    <3>2. f[i] \subseteq (1..i) \ done
      BY <2>1, <2>2, <3>1
    <3>3. ASSUME m.parallel, NEW s \in f[i]
          PROVE  /\ m.deps[s] \subseteq done
                 /\ \A t \in f[i] : s # t => ~workflowWritesOverlap(m.writes[s], m.writes[t])
      <4>1. m.deps[i] \subseteq done /\ \A j \in b : ~workflowWritesOverlap(m.writes[i], m.writes[j])
        BY <2>4, <3>3 DEF Joins
      <4>2. \A j \in b : ~workflowWritesOverlap(m.writes[j], m.writes[i])
        BY <4>1, OverlapSymmetric
      <4> QED BY <2>1, <3>1, <3>3, <4>1, <4>2
    <3>4. ~m.parallel => b = {}
      BY <2>4 DEF Joins
    <3> QED BY <2>1, <2>2, <3>1, <3>2, <3>3, <3>4
  <2> QED BY <2>3, <2>4
<1>5. N \in S
  <2> HIDE DEF S
  <2> QED BY <1>2, <1>3, <1>4, RangeInduction
<1> QED BY <1>1, <1>5 DEF Steps

-----------------------------------------------------------------------------
(* Declarations whose wildcards stand for whole names.  With a star inside *)
(* a name two overlapping patterns can have stems of which neither begins  *)
(* the other, and NextBatch puts their steps side by side.                 *)
WholeNames(Name, writes) ==
  \A p \in writes : p.form # "names" /\ p.stem \in Seq(Name)

(* Of two sequences that begin the same one, one begins the other.         *)
LEMMA PrefixesCompare ==
  ASSUME NEW Name, NEW path \in Seq(Name), NEW s \in Seq(Name), NEW t \in Seq(Name),
         IsPrefix(s, path), IsPrefix(t, path)
  PROVE  IsPrefix(s, t) \/ IsPrefix(t, s)
<1>1. /\ Len(s) \in Nat /\ Len(t) \in Nat /\ Len(path) \in Nat
      /\ Len(s) <= Len(path) /\ Len(t) <= Len(path)
      /\ s = [i \in 1..Len(s) |-> s[i]] /\ t = [i \in 1..Len(t) |-> t[i]]
  BY DEF IsPrefix
<1>2. \A i \in 1..Len(s) : s[i] = path[i]
  BY <1>1 DEF IsPrefix
<1>3. \A i \in 1..Len(t) : t[i] = path[i]
  BY <1>1 DEF IsPrefix
<1>4. CASE Len(s) <= Len(t)
  BY <1>1, <1>2, <1>3, <1>4 DEF IsPrefix
<1>5. CASE Len(t) <= Len(s)
  BY <1>1, <1>2, <1>3, <1>5 DEF IsPrefix
<1> QED BY <1>1, <1>4, <1>5

(* What a lease allows lies at or below the stem of one of its patterns.   *)
LEMMA LeaseStaysBelow ==
  ASSUME NEW Name, NEW path \in Seq(Name), NEW writes, WholeNames(Name, writes),
         LeaseAllows(writes, path)
  PROVE  \E p \in writes : p.stem \in Seq(Name) /\ IsPrefix(p.stem, path)
<1>1. PICK p \in writes : Matches(p, path)
  BY DEF LeaseAllows
<1>2. p.form # "names" /\ p.stem \in Seq(Name)
  BY DEF WholeNames
<1>3. CASE path = p.stem
  BY <1>3 DEF IsPrefix
<1> QED BY <1>1, <1>2, <1>3 DEF Matches

(* Two leases with a file in common overlap. *)
LEMMA SharedFileOverlaps ==
  ASSUME NEW Name, NEW path \in Seq(Name), NEW a, NEW b,
         WholeNames(Name, a), WholeNames(Name, b),
         LeaseAllows(a, path), LeaseAllows(b, path)
  PROVE  workflowWritesOverlap(a, b)
<1>1. PICK x \in a : x.stem \in Seq(Name) /\ IsPrefix(x.stem, path)
  BY LeaseStaysBelow
<1>2. PICK y \in b : y.stem \in Seq(Name) /\ IsPrefix(y.stem, path)
  BY LeaseStaysBelow
<1>3. IsPrefix(x.stem, y.stem) \/ IsPrefix(y.stem, x.stem)
  BY <1>1, <1>2, PrefixesCompare
<1> QED BY <1>3 DEF workflowWritesOverlap
=============================================================================
