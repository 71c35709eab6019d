-------------------------- MODULE TaskRoutingProofs --------------------------
(***************************************************************************)
(* What holds of a routed task for any settings, tables, catalogs and      *)
(* requests: the floor of its tier, the provider gate, the agent that      *)
(* starts, and the honesty of its recorded outcome.                        *)
(***************************************************************************)
EXTENDS TaskRouting, FiniteSetTheorems, WellFoundedInduction, TLAPS

(* A strict order has a greatest element on every finite set; <<y, x>> says *)
(* that y is above x.                                                      *)
LEMMA GreatestExists ==
  ASSUME NEW S, IsFiniteSet(S), S # {}, NEW R,
         \A x \in S : <<x, x>> \notin R,
         \A x, y, z \in S : <<x, y>> \in R /\ <<y, z>> \in R => <<x, z>> \in R
  PROVE  \E x \in S : \A y \in S : <<y, x>> \notin R
<1> DEFINE above(x) == {y \in S : <<y, x>> \in R}
           order == StrictSubsetOrdering(S)
           T == {above(x) : x \in S}
<1>1. \A x \in S : above(x) \in SUBSET S /\ IsFiniteSet(above(x))
  BY FS_Subset
<1> HIDE DEF above
<1>2. T \subseteq FiniteSubsetsOf(S) /\ T # {}
  <2>1. PICK x \in S : TRUE
    OBVIOUS
  <2>2. \A t \in T : t \in SUBSET S /\ IsFiniteSet(t)
    BY <1>1
  <2>3. T \subseteq FiniteSubsetsOf(S)
    BY <2>2 DEF FiniteSubsetsOf
  <2>4. above(x) \in T
    BY <2>1
  <2> QED BY <2>3, <2>4
<1>3. IsWellFoundedOn(order, FiniteSubsetsOf(S))
  BY FS_StrictSubsetOrderingWellFounded
<1> HIDE DEF T, order
<1>4. PICK t \in T : \A u \in T : <<u, t>> \notin order
  BY <1>2, <1>3, WFMin
<1>5. PICK x \in S : t = above(x)
  BY <1>4 DEF T
<1>6. ASSUME NEW y \in S, <<y, x>> \in R
      PROVE  FALSE
  <2>1. above(y) \subseteq above(x) /\ y \in above(x) /\ y \notin above(y)
    BY <1>6, <1>5 DEF above
  <2>2. <<above(y), above(x)>> \in order
    BY <2>1, <1>1, <1>5 DEF order, StrictSubsetOrdering
  <2> QED BY <2>2, <1>4, <1>5 DEF T
<1> QED BY <1>6 DEF above

(* The order of names, on triples. *)
Lex(a, b) ==
    \/ a[1] < b[1]
    \/ a[1] = b[1] /\ a[2] < b[2]
    \/ a[1] = b[1] /\ a[2] = b[2] /\ a[3] < b[3]
Place(p) == <<Alphabet[p.provider], Alphabet[p.model], Alphabet[p.native]>>

(* The first place where two triples differ decides. *)
LEMMA FirstDifference ==
  ASSUME NEW a \in Int \X Int \X Int, NEW b \in Int \X Int \X Int, a # b
  PROVE  LET i == CHOOSE k \in 1..3 : a[k] # b[k] /\ \A j \in 1..(k-1) : a[j] = b[j]
         IN  a[i] < b[i] <=> Lex(a, b)
<1> DEFINE First(k) == a[k] # b[k] /\ \A j \in 1..(k-1) : a[j] = b[j]
           i == CHOOSE k \in 1..3 : First(k)
<1>1. /\ a[1] \in Int /\ a[2] \in Int /\ a[3] \in Int
      /\ b[1] \in Int /\ b[2] \in Int /\ b[3] \in Int
      /\ ~(a[1] = b[1] /\ a[2] = b[2] /\ a[3] = b[3])
  OBVIOUS
<1>2. /\ First(1) <=> a[1] # b[1]
      /\ First(2) <=> a[1] = b[1] /\ a[2] # b[2]
      /\ First(3) <=> a[1] = b[1] /\ a[2] = b[2] /\ a[3] # b[3]
  <2>1. 1..(1-1) = {} /\ 1..(2-1) = {1} /\ 1..(3-1) = {1, 2}
    OBVIOUS
  <2> QED BY <2>1
<1>3. 1..3 = {1, 2, 3}
  OBVIOUS
<1> HIDE DEF First
<1>4. i \in {1, 2, 3} /\ First(i)
  BY <1>1, <1>2, <1>3
<1>5. a[i] < b[i] <=> Lex(a, b)
  <2>1. CASE i = 1
    BY <2>1, <1>1, <1>2, <1>4 DEF Lex
  <2>2. CASE i = 2
    BY <2>2, <1>1, <1>2, <1>4 DEF Lex
  <2>3. CASE i = 3
    BY <2>3, <1>1, <1>2, <1>4 DEF Lex
  <2> QED BY <1>4, <2>1, <2>2, <2>3
<1> QED BY <1>5 DEF First

(* A catalog profile whose names and numbers are known. *)
Ranked(p) ==
    /\ {p.provider, p.model, p.native} \subseteq DOMAIN Alphabet
    /\ p.quality \in Int /\ p.cost \in Int

(* Ranking is by score, then by name. *)
LEMMA AheadIs ==
  ASSUME NEW p, NEW q, Ranked(p), Ranked(q), Key(p) # Key(q), NEW w
  PROVE  Ahead(p, q, w) <=> \/ CatalogScore(p, w) > CatalogScore(q, w)
                            \/ CatalogScore(p, w) = CatalogScore(q, w) /\ Lex(Place(p), Place(q))
<1> DEFINE a == Place(p)
           b == Place(q)
<1>1. a \in Int \X Int \X Int /\ b \in Int \X Int \X Int
  BY CatalogsAssumption DEF Ranked, Place
<1>2. a # b
  BY CatalogsAssumption DEF Ranked, Place, Key
<1>3. Ahead(p, q, w) <=>
        LET i == CHOOSE k \in 1..3 : a[k] # b[k] /\ \A j \in 1..(k-1) : a[j] = b[j]
        IN  \/ CatalogScore(p, w) > CatalogScore(q, w)
            \/ CatalogScore(p, w) = CatalogScore(q, w) /\ a[i] < b[i]
  BY DEF Ahead, Place
<1> HIDE DEF a, b
<1>4. LET i == CHOOSE k \in 1..3 : a[k] # b[k] /\ \A j \in 1..(k-1) : a[j] = b[j]
      IN  a[i] < b[i] <=> Lex(a, b)
  BY <1>1, <1>2, FirstDifference
<1> QED BY <1>3, <1>4 DEF a, b

(* A finite catalog with distinct keys has a first profile. *)
LEMMA FirstExists ==
  ASSUME NEW S, IsFiniteSet(S), S # {}, \A p \in S : Ranked(p),
         \A p, q \in S : Key(p) = Key(q) => p = q,
         NEW w, w.quality \in Int, w.cost \in Int
  PROVE  RankFirst(S, w) \in S
<1> DEFINE R == {x \in S \X S : x[1] # x[2] /\ Ahead(x[1], x[2], w)}
           score(p) == CatalogScore(p, w)
           over(p, q) == \/ score(p) > score(q)
                         \/ score(p) = score(q) /\ Lex(Place(p), Place(q))
<1>1. \A p \in S : score(p) \in Int
  BY DEF CatalogScore, Ranked
<1>2. \A p \in S : Place(p) \in Int \X Int \X Int
  BY CatalogsAssumption DEF Place, Ranked
<1>3. \A p, q \in S : p # q => Place(p) # Place(q)
  BY CatalogsAssumption DEF Ranked, Place, Key
<1>4. \A p, q \in S : p # q => (Ahead(p, q, w) <=> over(p, q))
  BY AheadIs
<1> HIDE DEF score
<1>5. \A p, q \in S : <<p, q>> \in R <=> p # q /\ over(p, q)
  BY <1>4
<1> HIDE DEF R
<1>6. \A p \in S : <<p, p>> \notin R
  BY <1>5
<1>7. \A p, q, r \in S : <<p, q>> \in R /\ <<q, r>> \in R => <<p, r>> \in R
  <2> SUFFICES ASSUME NEW p \in S, NEW q \in S, NEW r \in S, over(p, q), over(q, r), p # q, q # r
               PROVE  over(p, r) /\ p # r
    BY <1>5
  <2>1. over(p, r)
    BY <1>1, <1>2 DEF Lex
  <2>2. ~ over(p, p)
    BY <1>1, <1>2 DEF Lex
  <2> QED BY <2>1, <2>2
<1>8. PICK p \in S : \A q \in S : <<q, p>> \notin R
  BY <1>6, <1>7, GreatestExists
<1>9. ASSUME NEW q \in S, q # p
      PROVE  over(p, q)
  <2>1. ~ over(q, p)
    BY <1>8, <1>9, <1>5
  <2>2. Place(p) # Place(q)
    BY <1>9, <1>3
  <2> QED BY <2>1, <2>2, <1>1, <1>2 DEF Lex
<1>10. \A q \in S \ {p} : Ahead(p, q, w)
  BY <1>9, <1>4
<1> QED BY <1>10 DEF RankFirst

(* An entry of the highest weight. *)
LEMMA BestExists ==
  ASSUME NEW entries, NEW on \in SUBSET Nat, IsFiniteSet(on), on # {},
         \A i \in on : entries[i].weight \in Int
  PROVE  LET best == {i \in on : \A j \in on : entries[j].weight <= entries[i].weight}
         IN  Min(best) \in on
<1> DEFINE best == {i \in on : \A j \in on : entries[j].weight <= entries[i].weight}
           heavier == {x \in on \X on : entries[x[1]].weight > entries[x[2]].weight}
           smaller == {x \in best \X best : x[1] < x[2]}
<1>1. \A i, j \in on : <<i, j>> \in heavier <=> entries[i].weight > entries[j].weight
  OBVIOUS
<1> HIDE DEF heavier
<1>2. PICK i \in on : \A j \in on : <<j, i>> \notin heavier
  <2>1. \A x \in on : <<x, x>> \notin heavier
    BY <1>1
  <2>2. \A x, y, z \in on : <<x, y>> \in heavier /\ <<y, z>> \in heavier => <<x, z>> \in heavier
    BY <1>1
  <2> QED BY <2>1, <2>2, GreatestExists
<1>3. i \in best
  <2>1. ASSUME NEW j \in on
        PROVE  entries[j].weight <= entries[i].weight
    <3>1. ~(entries[j].weight > entries[i].weight)
      BY <1>1, <1>2
    <3>2. entries[j].weight \in Int /\ entries[i].weight \in Int
      OBVIOUS
    <3> QED BY <3>1, <3>2
  <2> QED BY <2>1
<1>4. best \subseteq on /\ IsFiniteSet(best)
  BY FS_Subset
<1> HIDE DEF best
<1>5. \A m, n \in best : <<m, n>> \in smaller <=> m < n
  OBVIOUS
<1> HIDE DEF smaller
<1>6. PICK m \in best : \A n \in best : <<n, m>> \notin smaller
  <2>1. \A x \in best : <<x, x>> \notin smaller
    BY <1>5, <1>4
  <2>2. \A x, y, z \in best : <<x, y>> \in smaller /\ <<y, z>> \in smaller => <<x, z>> \in smaller
    BY <1>5, <1>4
  <2> QED BY <1>3, <1>4, <2>1, <2>2, GreatestExists
<1>7. \A n \in best : m =< n
  <2>1. ASSUME NEW n \in best
        PROVE  m =< n
    <3>1. ~(n < m)
      BY <1>5, <1>6
    <3>2. m \in Nat /\ n \in Nat
      BY <1>4
    <3> QED BY <3>1, <3>2
  <2> QED BY <2>1
<1>8. Min(best) \in best
  BY <1>7 DEF Min
<1> QED BY <1>4, <1>8 DEF best
(* The tiers have ranks. *)
LEMMA Ranks ==
  /\ \A c : rankOf(c) \in 0..3
  /\ validTier("deep-reasoning") /\ rankOf("deep-reasoning") = 2
<1>1. DOMAIN classRank = {"cheap-fast", "default", "deep-reasoning", "elevate"}
  BY DEF classRank
<1>2. /\ classRank["cheap-fast"] = 0 /\ classRank["default"] = 1
      /\ classRank["deep-reasoning"] = 2 /\ classRank["elevate"] = 3
  BY DEF classRank
<1> QED BY <1>1, <1>2 DEF rankOf, validTier

(* The ladder below an override and a pin never goes below the floor. *)
LEMMA RaisedToFloor ==
  ASSUME NEW s, NEW t, NEW triage, taskTierOverride(t) = Unset, ~validTier(s.pin)
  PROVE  LET class == RouteDecide(s, t, triage).class IN
         /\ validTier(s.floor) => rankOf(class) >= rankOf(s.floor)
         /\ IsRiskyTask(s, t) => rankOf(class) >= rankOf("deep-reasoning")
<1> DEFINE floor == riskFloor(s, t)
           raised(c) == IF validTier(floor) /\ rankOf(c) < rankOf(floor) THEN floor ELSE c
           class == RouteDecide(s, t, triage).class
<1>0. /\ rankOf(floor) \in 0..3 /\ rankOf(s.floor) \in 0..3
      /\ validTier("deep-reasoning") /\ rankOf("deep-reasoning") = 2
      /\ ~validTier(s.floor) => rankOf(s.floor) = 1
  BY Ranks DEF rankOf
<1>1. \E c : class = raised(c)
  BY DEF RouteDecide
<1>r. floor = IF IsRiskyTask(s, t) /\ rankOf("deep-reasoning") > rankOf(s.floor) THEN "deep-reasoning" ELSE s.floor
  BY DEF riskFloor
<1> HIDE DEF floor
<1>2. validTier(floor) => rankOf(class) >= rankOf(floor)
  BY <1>1, Ranks
<1>3. /\ IsRiskyTask(s, t) => validTier(floor) /\ rankOf(floor) >= 2
      /\ validTier(s.floor) => validTier(floor) /\ rankOf(floor) >= rankOf(s.floor)
  <2>1. CASE floor = s.floor /\ ~(IsRiskyTask(s, t) /\ rankOf("deep-reasoning") > rankOf(s.floor))
    BY <1>0, <2>1
  <2>2. CASE floor = "deep-reasoning" /\ rankOf("deep-reasoning") > rankOf(s.floor)
    <3>1. validTier(floor) /\ rankOf(floor) = 2
      BY <1>0, <2>2, Zenon
    <3>2. rankOf(floor) >= rankOf(s.floor)
      BY <1>0, <2>2, <3>1
    <3> QED BY <3>1, <3>2
  <2> QED BY <1>r, <2>1, <2>2
<1>4. rankOf(class) \in 0..3
  BY Ranks
<1> HIDE DEF class
<1> QED BY <1>0, <1>2, <1>3, <1>4 DEF class

(* A decision that is an agent's is of the class the ladder says. *)
LEMMA AgentDecision ==
  ASSUME NEW s, NEW rd, NEW r
  PROVE  LET d == agentDecision(s, rd, r) IN
         /\ d.kind = "agent" /\ d.class = rd.class /\ d.provider = r.p.provider
         /\ d.cmd = Unset \/ Enabled(s, CmdProvider[d.cmd])
         /\ DOMAIN d = {"kind", "op", "class", "source", "cmd", "provider", "profile", "model",
                        "effort", "native", "selection"}
<1> DEFINE cmd == IF rd.cmd # Unset THEN rd.cmd ELSE r.p.cmd
           given == IF Enabled(s, CmdProvider[cmd]) THEN cmd ELSE Unset
<1>1. agentDecision(s, rd, r) =
        [kind |-> "agent", op |-> Unset, class |-> rd.class, source |-> rd.source, cmd |-> given,
         provider |-> r.p.provider, profile |-> r.p.profile, model |-> r.p.model,
         effort |-> r.p.effort, native |-> r.p.native, selection |-> r.selection]
  BY DEF agentDecision
<1>2. given = Unset \/ Enabled(s, CmdProvider[given])
  OBVIOUS
<1> HIDE DEF given
<1>3. LET d == agentDecision(s, rd, r) IN
      d.kind = "agent" /\ d.class = rd.class /\ d.provider = r.p.provider /\ d.cmd = given
  BY <1>1
<1>4. DOMAIN agentDecision(s, rd, r) =
        {"kind", "op", "class", "source", "cmd", "provider", "profile", "model",
         "effort", "native", "selection"}
  BY <1>1
<1> QED BY <1>2, <1>3, <1>4

(* A decision for an agent comes from the ladder and the policy. *)
LEMMA DecidedByAgent ==
  ASSUME NEW triage, Decision(triage).kind = "agent"
  PROVE  LET rd == RouteDecide(settings, task, triage) IN
         Decision(triage) =
           agentDecision(settings, rd, resolveProviderPolicy(settings, rd.class, Table, catalog, Weights[rd.class]))
<1>1. Operation(readOperation(task)).kind = "deterministic"
  BY DEF Operation
<1> QED BY <1>1 DEF Decision, DecideWithStore, decideAgent

(* ... and its class from the ladder alone. *)
LEMMA ClassIsRouted ==
  ASSUME NEW triage, Decision(triage).kind = "agent"
  PROVE  Decision(triage).class = RouteDecide(settings, task, triage).class /\ "class" \in DOMAIN Decision(triage)
<1> DEFINE rd == RouteDecide(settings, task, triage)
           r == resolveProviderPolicy(settings, rd.class, Table, catalog, Weights[rd.class])
<1>1. Decision(triage) = agentDecision(settings, rd, r)
  BY DecidedByAgent
<1> HIDE DEF r, rd
<1>2. agentDecision(settings, rd, r).class = rd.class /\ "class" \in DOMAIN agentDecision(settings, rd, r)
  BY AgentDecision
<1> QED BY <1>1, <1>2 DEF rd

(* The options of one run change everything but the class. *)
LEMMA OverridesKeepClass ==
  ASSUME NEW o \in Overrides, NEW d, NEW weights, "class" \in DOMAIN d
  PROVE  applyOverrides(o, d, catalog, weights).class = d.class
<1> DEFINE asked == [f \in DOMAIN d |-> IF f \in DOMAIN o THEN Choose(o[f], d[f]) ELSE d[f]]
<1>1. "class" \in DOMAIN asked /\ asked.class = d.class
  BY OverridesAssumption
<1>2. \/ applyOverrides(o, d, catalog, weights) = d
      \/ applyOverrides(o, d, catalog, weights) = [asked EXCEPT !.cmd = Unset]
      \/ \E provider, model, native, effort, selection :
           applyOverrides(o, d, catalog, weights) =
             [asked EXCEPT !.cmd = Unset, !.provider = provider, !.model = model,
                           !.native = native, !.effort = effort, !.selection = selection]
  BY DEF applyOverrides
<1> HIDE DEF asked
<1>3. [asked EXCEPT !.cmd = Unset].class = d.class
  BY <1>1
<1>5. ASSUME NEW provider, NEW model, NEW native, NEW effort, NEW selection,
             applyOverrides(o, d, catalog, weights) =
               [asked EXCEPT !.cmd = Unset, !.provider = provider, !.model = model,
                             !.native = native, !.effort = effort, !.selection = selection]
      PROVE  applyOverrides(o, d, catalog, weights).class = d.class
  BY <1>1, <1>5
<1> QED BY <1>1, <1>2, <1>3, <1>5

(* Whatever decides, the class is a tier. *)
LEMMA ClassIsTier ==
  ASSUME NEW s, NEW t, NEW triage
  PROVE  RouteDecide(s, t, triage).class \in DOMAIN classRank
<1> DEFINE floor == riskFloor(s, t)
           raised(c) == IF validTier(floor) /\ rankOf(c) < rankOf(floor) THEN floor ELSE c
           override == taskTierOverride(t)
           keyword == ClassifyStore(s, t)
<1>1. DOMAIN classRank = {"cheap-fast", "default", "deep-reasoning", "elevate"}
  BY DEF classRank
<1>2. override = Unset \/ override \in DOMAIN classRank
  BY <1>1 DEF taskTierOverride
<1>3. keyword = Unset \/ keyword \in DOMAIN classRank
  BY <1>1 DEF ClassifyStore
<1>4. \A c \in DOMAIN classRank : raised(c) \in DOMAIN classRank
  BY DEF validTier
<1>5. \A c : escalate(c) \in DOMAIN classRank
  <2>1. classRank["deep-reasoning"] = 2 /\ classRank["default"] = 1
    BY DEF classRank
  <2> QED BY <2>1, <1>1 DEF escalate
<1> HIDE DEF raised, override, keyword
<1>6. RouteDecide(s, t, triage).class =
        IF override # Unset THEN override
        ELSE IF validTier(s.pin) THEN s.pin
        ELSE IF keyword # Unset THEN raised(keyword)
        ELSE IF validTier(triage.class) THEN raised(IF triage.sure THEN triage.class ELSE escalate(triage.class))
        ELSE raised("default")
  BY DEF RouteDecide, raised, override, keyword
<1> QED BY <1>1, <1>2, <1>3, <1>4, <1>5, <1>6 DEF validTier

(* The settings whose gate can be trusted: "no provider" is never off. *)
Gated(s) == Unset \notin s.off

(* The entry of a class is of an enabled provider. *)
LEMMA EntryIsEnabled ==
  ASSUME NEW s, Gated(s), NEW class \in DOMAIN classRank
  PROVE  LET entry == resolveProvider(s, class, Table) IN
         /\ Enabled(s, entry.provider)
         /\ DOMAIN entry = DOMAIN NoProvider
<1> DEFINE entries == Table[class]
           on == {i \in DOMAIN entries : Enabled(s, entries[i].provider)}
           best == {i \in on : \A j \in on : entries[j].weight <= entries[i].weight}
           entry == resolveProvider(s, class, Table)
           plain == [NoProvider EXCEPT !.class = class]
           listed == {i \in DOMAIN File : File[i].class = class}
<1>0. /\ NoProvider.provider = Unset /\ NoProvider.weight = 0
      /\ plain.weight = 0 /\ DOMAIN plain = DOMAIN NoProvider
  BY DEF NoProvider
<1>1. \/ entries = [i \in {1} |-> plain]
      \/ entries = [i \in listed |-> File[i]]
  BY DEF Table, LoadConfig
<1>f. /\ Len(File) \in Nat /\ DOMAIN File = 1..Len(File)
      /\ \A i \in DOMAIN File : DOMAIN File[i] = DOMAIN NoProvider /\ File[i].weight \in Int
  BY FileAssumption
<1> HIDE DEF plain
<1>2. /\ DOMAIN entries \in SUBSET Nat /\ IsFiniteSet(DOMAIN entries)
      /\ \A i \in DOMAIN entries : entries[i].weight \in Int /\ DOMAIN entries[i] = DOMAIN NoProvider
  <2>1. CASE entries = [i \in {1} |-> plain]
    <3>1. DOMAIN entries = {1} /\ entries[1] = plain
      BY <2>1
    <3>2. IsFiniteSet({1})
      BY FS_Singleton
    <3> QED BY <3>1, <3>2, <1>0
  <2>2. CASE entries = [i \in listed |-> File[i]]
    <3>1. DOMAIN entries = listed /\ \A i \in listed : entries[i] = File[i]
      BY <2>2
    <3>2. listed \subseteq 1..Len(File) /\ listed \subseteq DOMAIN File
      BY <1>f
    <3>3. IsFiniteSet(listed)
      <4>1. IsFiniteSet(1..Len(File))
        BY <1>f, FS_Interval
      <4> HIDE DEF listed
      <4> QED BY <3>2, <4>1, FS_Subset
    <3> QED BY <3>1, <3>2, <3>3, <1>f
  <2> QED BY <1>1, <2>1, <2>2
<1> HIDE DEF entries
<1>3. on \in SUBSET Nat /\ IsFiniteSet(on)
  BY <1>2, FS_Subset
<1>4. CASE on = {}
  <2>1. entry = NoProvider
    BY <1>4 DEF resolveProvider, entries
  <2> QED BY <2>1, <1>0 DEF Enabled, Gated
<1>5. CASE on # {}
  <2>1. entry = entries[Min(best)]
    BY <1>5 DEF resolveProvider, entries
  <2>2. \A i \in on : entries[i].weight \in Int
    BY <1>2
  <2>3. Min(best) \in on
    BY <2>2, <1>3, <1>5, BestExists
  <2> QED BY <2>1, <2>3, <1>2
<1> QED BY <1>4, <1>5

(* A catalog, or what is left of it, as Catalogs says. *)
Chosen(c) ==
    /\ IsFiniteSet(c) /\ \A p \in c : Ranked(p)
    /\ \A p, q \in c : Key(p) = Key(q) => p = q

(* What is selected is in the catalog. *)
LEMMA SelectedIsListed ==
  ASSUME NEW c, Chosen(c), NEW req, NEW w, w.quality \in Int, w.cost \in Int
  PROVE  SelectCatalogProfile(c, req, w) \subseteq c
<1> DEFINE own == Candidates(c, req)
           loose == Candidates(c, [req EXCEPT !.provider = Unset, !.model = Unset, !.native = Unset])
           other == IF req.cross = "true" THEN loose ELSE {}
           all == IF own # {} THEN own ELSE other
<1>1. \A r : Candidates(c, r) \subseteq c
  BY DEF Candidates
<1>2. own \subseteq c /\ loose \subseteq c
  BY <1>1
<1>3. SelectCatalogProfile(c, req, w) = IF all = {} THEN {} ELSE {RankFirst(all, w)}
  BY DEF SelectCatalogProfile
<1> HIDE DEF own, loose
<1>4. all \subseteq c
  BY <1>2
<1> HIDE DEF all
<1>5. ASSUME all # {}
      PROVE  RankFirst(all, w) \in all
  <2>1. IsFiniteSet(all)
    BY <1>4, FS_Subset DEF Chosen
  <2>2. \A p \in all : Ranked(p)
    BY <1>4 DEF Chosen
  <2>3. \A p, q \in all : Key(p) = Key(q) => p = q
    BY <1>4 DEF Chosen
  <2> QED BY <2>1, <2>2, <2>3, <1>5, FirstExists
<1> QED BY <1>3, <1>4, <1>5

(* The assumption on catalogs, in the form the lemmas use. *)
LEMMA CatalogsAreChosen == \A c \in Catalogs : Chosen(c)
BY CatalogsAssumption DEF Chosen, Ranked

(* The provider a class resolves to is enabled: the entry of the file when  *)
(* the policy asks for one that is not, and what the catalog offers anyhow. *)
LEMMA ResolvedIsEnabled ==
  ASSUME NEW s, Gated(s), NEW class \in DOMAIN classRank, NEW c \in Catalogs
  PROVE  Enabled(s, resolveProviderPolicy(s, class, Table, c, Weights[class]).p.provider)
<1> DEFINE w == Weights[class]
           entry == resolveProvider(s, class, Table)
           set == [f \in DOMAIN entry |->
                     IF f \in PolicyFields /\ storeRouteSetting(s, f, class) # Unset
                       THEN storeRouteSetting(s, f, class) ELSE entry[f]]
           asked == IF set.effort = Unset /\ set.native = Unset
                      THEN [set EXCEPT !.effort = defaultEffortForClass(class)] ELSE set
           requested == IF Refused(s, asked)
                          THEN [asked EXCEPT !.provider = Unset, !.profile = Unset, !.model = Unset,
                                             !.native = Unset, !.cmd = Unset] ELSE asked
           p == IF Refused(s, asked) THEN entry ELSE asked
           enabled == {q \in c : Enabled(s, q.provider)}
           chosen == SelectCatalogProfile(enabled, requested, w)
<1>1. Enabled(s, entry.provider) /\ DOMAIN entry = DOMAIN NoProvider
  BY EntryIsEnabled
<1>2. "provider" \in DOMAIN NoProvider
  BY DEF NoProvider
<1>3. resolveProviderPolicy(s, class, Table, c, w) = withProfile(p, requested, chosen)
  BY DEF resolveProviderPolicy
<1> HIDE DEF entry
<1>4. DOMAIN asked = DOMAIN entry
  OBVIOUS
<1> HIDE DEF asked
<1>5. Enabled(s, p.provider) /\ "provider" \in DOMAIN p
  BY <1>1, <1>2, <1>4 DEF Refused
<1> HIDE DEF p, requested, chosen
<1>6. chosen \subseteq enabled
  <2>1. Chosen(c)
    BY CatalogsAreChosen
  <2>2. IsFiniteSet(enabled)
    BY <2>1, FS_Subset DEF Chosen
  <2>3. Chosen(enabled)
    BY <2>1, <2>2 DEF Chosen
  <2>4. w.quality \in Int /\ w.cost \in Int
    BY WeightsAssumption
  <2> HIDE DEF enabled, w
  <2> QED BY <2>3, <2>4, SelectedIsListed DEF chosen
<1>7. CASE chosen = {}
  BY <1>7, <1>3, <1>5 DEF withProfile
<1>8. CASE chosen # {}
  <2> DEFINE q == CHOOSE q \in chosen : TRUE
  <2>1. q \in enabled
    BY <1>6, <1>8
  <2>2. Enabled(s, q.provider)
    BY <2>1
  <2> HIDE DEF q
  <2>3. withProfile(p, requested, chosen) =
          [p |-> [p EXCEPT !.provider = q.provider, !.model = q.model,
                           !.effort = NormalizeEffort(q.native), !.native = q.native],
           selection |-> CatalogSelectionReason(requested, q)]
    BY <1>8 DEF withProfile, q
  <2>4. ASSUME NEW model, NEW effort, NEW native
        PROVE  [p EXCEPT !.provider = q.provider, !.model = model,
                         !.effort = effort, !.native = native].provider = q.provider
    BY <1>5
  <2>5. withProfile(p, requested, chosen).p =
          [p EXCEPT !.provider = q.provider, !.model = q.model,
                    !.effort = NormalizeEffort(q.native), !.native = q.native]
    BY <2>3
  <2>6. withProfile(p, requested, chosen).p.provider = q.provider
    BY <2>4, <2>5
  <2> QED BY <2>2, <2>6, <1>3
<1> QED BY <1>7, <1>8

(* A decision for an agent names enabled providers only. *)
LEMMA DecisionIsEnabled ==
  ASSUME NEW triage, Decision(triage).kind = "agent", Gated(settings), catalog \in Catalogs
  PROVE  /\ Enabled(settings, Decision(triage).provider)
         /\ Enabled(settings, CmdProvider[Decision(triage).cmd])
<1> DEFINE rd == RouteDecide(settings, task, triage)
           r == resolveProviderPolicy(settings, rd.class, Table, catalog, Weights[rd.class])
<1>1. Decision(triage) = agentDecision(settings, rd, r)
  BY DecidedByAgent
<1>2. Enabled(settings, r.p.provider)
  <2>1. rd.class \in DOMAIN classRank
    BY ClassIsTier
  <2> HIDE DEF rd
  <2> QED BY <2>1, ResolvedIsEnabled
<1> HIDE DEF r, rd
<1>3. LET d == agentDecision(settings, rd, r) IN
      d.provider = r.p.provider /\ (d.cmd = Unset \/ Enabled(settings, CmdProvider[d.cmd]))
  BY AgentDecision
<1>4. Enabled(settings, CmdProvider[Unset])
  BY SettingsAssumption DEF Enabled, Gated
<1> QED BY <1>1, <1>2, <1>3, <1>4
-----------------------------------------------------------------------------
(* The invariant.  The gate never closes on "no provider"; a decision holds *)
(* what the settings it was made from demand, which no command changes      *)
(* afterwards; the process that runs is the one decided; and a step that    *)
(* has touched nothing still has the fingerprint it started from.           *)
Phases == {"asked", "decided", "running", "exited", "recorded"}
Typed ==
  /\ DOMAIN settings = {"pin", "floor", "keywords", "tierCmd", "policy", "off"}
  /\ catalog \in Catalogs /\ env \in Envs /\ phase \in Phases
  /\ head \in {0, 1} /\ DOMAIN outcome = {"state", "mutated"}
Unmoved ==
  /\ phase \in {"asked", "decided"} => head = 0 /\ touched = {}
  /\ phase \in {"running", "exited"} /\ touched = {} /\ head = 0 =>
       before \in {Unread, <<0, dirty \ {RunFile}>>}
RoutingInv ==
  Typed /\ Gated(settings) /\ FloorHolds /\ GateHolds /\ DecisionIsLaunched /\ Unmoved /\ PlainDoneIsHonest

(* Before anything is decided nothing is promised. *)
LEMMA InitRouting == Init => RoutingInv
<1> SUFFICES ASSUME Init PROVE RoutingInv
  OBVIOUS
<1>1. Typed /\ Gated(settings)
  BY SettingsAssumption DEF Init, Typed, Gated, Pending, Phases
<1>2. phase = "asked" /\ head = 0 /\ touched = {}
  BY DEF Init
<1> QED BY <1>1, <1>2 DEF RoutingInv, FloorHolds, GateHolds, DecisionIsLaunched, Unmoved, PlainDoneIsHonest, Decided

(* A setting command keeps the gate, and decides nothing. *)
LEMMA CommandKeeps ==
  ASSUME RoutingInv, Command, phase' = phase,
         DOMAIN settings' = DOMAIN settings, Gated(settings')
  PROVE  RoutingInv'
<1>1. /\ phase = "asked"
      /\ UNCHANGED <<catalog, env, phase, head, touched, outcome>>
  BY DEF Command, request, repo
<1>2. Typed'
  BY <1>1 DEF RoutingInv, Typed
<1>3. Unmoved'
  BY <1>1 DEF RoutingInv, Unmoved
<1> QED BY <1>1, <1>2, <1>3 DEF RoutingInv, Gated, FloorHolds, GateHolds, DecisionIsLaunched, PlainDoneIsHonest, Decided

(* No setting command turns "no provider" off. *)
LEMMA SettingsKeep ==
  ASSUME RoutingInv
  PROVE  /\ \A p \in DOMAIN Alphabet, on \in BOOLEAN : runProviderCmd(p, on) => RoutingInv'
         /\ \A tier : routeSetTier(tier) => RoutingInv'
         /\ \A scope, class, field, value : routePolicySet(scope, class, field, value) => RoutingInv'
         /\ \A scope, class, fields : routePolicyClear(scope, class, fields) => RoutingInv'
<1>1. /\ DOMAIN settings = {"pin", "floor", "keywords", "tierCmd", "policy", "off"}
      /\ Unset \notin settings.off
  BY DEF RoutingInv, Typed, Gated
<1>2. Command => phase' = phase
  BY DEF Command
<1>3. ASSUME NEW p \in DOMAIN Alphabet, NEW on \in BOOLEAN, runProviderCmd(p, on)
      PROVE  RoutingInv'
  <2>1. p # Unset
    BY CatalogsAssumption
  <2>2. DOMAIN settings' = DOMAIN settings /\ Unset \notin settings'.off
    BY <1>1, <1>3, <2>1 DEF runProviderCmd
  <2> QED BY <1>2, <1>3, <2>2, CommandKeeps DEF Gated, runProviderCmd
<1>4. ASSUME NEW tier, routeSetTier(tier)
      PROVE  RoutingInv'
  <2>1. DOMAIN settings' = DOMAIN settings /\ settings'.off = settings.off
    BY <1>1, <1>4 DEF routeSetTier
  <2> QED BY <1>1, <1>2, <1>4, <2>1, CommandKeeps DEF Gated, routeSetTier
<1>5. ASSUME NEW policy, Command, settings' = [settings EXCEPT !.policy = policy]
      PROVE  RoutingInv'
  <2>1. DOMAIN settings' = DOMAIN settings /\ settings'.off = settings.off
    BY <1>1, <1>5
  <2> QED BY <1>1, <1>2, <1>5, <2>1, CommandKeeps DEF Gated
<1>6. ASSUME NEW scope, NEW class, NEW field, NEW value, routePolicySet(scope, class, field, value)
      PROVE  RoutingInv'
  <2>1. \E policy : settings' = [settings EXCEPT !.policy = policy]
    BY <1>6 DEF routePolicySet
  <2> QED BY <2>1, <1>5, <1>6 DEF routePolicySet
<1>7. ASSUME NEW scope, NEW class, NEW fields, routePolicyClear(scope, class, fields)
      PROVE  RoutingInv'
  <2>1. \E policy : settings' = [settings EXCEPT !.policy = policy]
    BY <1>7 DEF routePolicyClear
  <2> QED BY <2>1, <1>5, <1>7 DEF routePolicyClear
<1> QED BY <1>3, <1>4, <1>6, <1>7

(* What deciding leaves to show: the decision's own two promises. *)
LEMMA DecidingKeeps ==
  ASSUME RoutingInv, phase = "asked", phase' = "decided",
         UNCHANGED <<route, task, env, launched, repo, before, outcome>>,
         FloorHolds', GateHolds'
  PROVE  RoutingInv'
<1>1. UNCHANGED <<settings, catalog, env, head, touched, outcome>>
  BY DEF route, repo
<1>2. Typed'
  BY <1>1 DEF RoutingInv, Typed, Phases
<1>3. Unmoved'
  BY <1>1 DEF RoutingInv, Unmoved
<1>4. Gated(settings')
  BY <1>1 DEF RoutingInv
<1> QED BY <1>2, <1>3, <1>4 DEF RoutingInv, Gated, DecisionIsLaunched, PlainDoneIsHonest

(* The class the ladder gives satisfies the floor. *)
LEMMA FloorOfDecision ==
  ASSUME NEW triage, NEW class, class = RouteDecide(settings, task, triage).class,
         UNCHANGED <<settings, task>>, dec'.kind = "agent" => dec'.class = class
  PROVE  FloorHolds'
<1> SUFFICES ASSUME dec'.kind = "agent", taskTierOverride(task) = Unset, ~validTier(settings.pin)
             PROVE  /\ validTier(settings.floor) => rankOf(dec'.class) >= rankOf(settings.floor)
                    /\ IsRiskyTask(settings, task) => rankOf(dec'.class) >= rankOf("deep-reasoning")
  BY DEF FloorHolds, Decided
<1> QED BY RaisedToFloor

(* The step lemmas, one per action. *)
LEMMA DispatchKeeps ==
  ASSUME RoutingInv, runDispatchCmd
  PROVE  RoutingInv'
<1>1. PICK triage \in Triages : dec' = Decision(triage)
  BY DEF runDispatchCmd
<1>2. /\ phase = "asked" /\ phase' = "decided"
      /\ UNCHANGED <<route, task, env, launched, repo, before, outcome>>
      /\ UNCHANGED <<settings, catalog, task>>
  BY DEF runDispatchCmd, route
<1>3. FloorHolds'
  <2>1. dec'.kind = "agent" => dec'.class = RouteDecide(settings, task, triage).class
    BY <1>1, ClassIsRouted
  <2> QED BY <2>1, <1>2, FloorOfDecision
<1>4. GateHolds'
  <2>1. Gated(settings) /\ catalog \in Catalogs
    BY DEF RoutingInv, Typed
  <2>2. dec'.kind = "agent" => Enabled(settings, dec'.provider) /\ Enabled(settings, CmdProvider[dec'.cmd])
    BY <2>1, <1>1, DecisionIsEnabled
  <2> QED BY <2>2, <1>2 DEF GateHolds, Decided
<1> QED BY <1>2, <1>3, <1>4, DecidingKeeps

LEMMA RunKeeps ==
  ASSUME RoutingInv, NEW o \in Overrides, runRunCmd(o)
  PROVE  RoutingInv'
<1>1. PICK triage \in Triages :
        LET d == Decision(triage) IN
        dec' = IF d.kind = "agent" THEN applyOverrides(o, d, catalog, Weights[d.class]) ELSE d
  BY DEF runRunCmd
<1>2. /\ phase = "asked" /\ phase' = "decided" /\ via' = "run"
      /\ UNCHANGED <<route, task, env, launched, repo, before, outcome>>
      /\ UNCHANGED <<settings, catalog, task>>
  BY DEF runRunCmd, route
<1>3. FloorHolds'
  <2> DEFINE d == Decision(triage)
  <2>1. CASE d.kind = "agent"
    <3>1. d.class = RouteDecide(settings, task, triage).class /\ "class" \in DOMAIN d
      BY <2>1, ClassIsRouted
    <3> HIDE DEF d
    <3>2. dec' = applyOverrides(o, d, catalog, Weights[d.class])
      BY <1>1, <2>1 DEF d
    <3>3. dec'.class = d.class
      BY <3>1, <3>2, OverridesKeepClass
    <3> QED BY <3>1, <3>3, <1>2, FloorOfDecision
  <2>2. CASE d.kind # "agent"
    BY <1>1, <2>2 DEF FloorHolds, Decided
  <2> QED BY <2>1, <2>2
<1>4. GateHolds'
  BY <1>2 DEF GateHolds
<1> QED BY <1>2, <1>3, <1>4, DecidingKeeps

(* What starts is what was decided, over any environment of the caller. *)
LEMMA EnvironmentLaunches ==
  ASSUME NEW d, NEW e \in Envs,
         NEW built \in {dispatchEnv(d, e), runEnv(d, e)}
  PROVE  LET agent == resolveAgentArgv(built) IN
         IF d.cmd # Unset THEN agent.provider = CmdProvider[d.cmd]
         ELSE Meets(d.provider, agent.provider) /\ Meets(d.model, agent.model)
<1>1. e = [cmd |-> e.cmd, agent |-> e.agent, model |-> e.model]
  BY EnvsAssumption
<1>2. CASE d.cmd # Unset
  <2>1. built.cmd = d.cmd
    BY <1>1, <1>2 DEF dispatchEnv, runEnv
  <2> QED BY <2>1, <1>2 DEF resolveAgentArgv
<1>3. CASE d.cmd = Unset
  <2>1. /\ built.cmd = Unset
        /\ built.agent = Choose(d.provider, e.agent)
        /\ built.model \in {Choose(d.model, e.model), Choose(Choose(d.model, d.profile), e.model)}
    BY <1>3 DEF dispatchEnv, runEnv
  <2>2. /\ Meets(d.provider, Choose(built.agent, "claude"))
        /\ Meets(d.model, built.model)
    BY <2>1 DEF Meets, Choose
  <2> QED BY <2>1, <2>2, <1>3 DEF resolveAgentArgv
<1> QED BY <1>2, <1>3

(* Nothing after the decision touches what the decision rests on. *)
LEMMA DecisionStands ==
  ASSUME RoutingInv, phase # "asked", UNCHANGED <<route, request>>, phase' # "asked"
  PROVE  /\ FloorHolds' /\ GateHolds' /\ Gated(settings')
         /\ UNCHANGED <<settings, catalog, task, env, dec, via>>
<1>1. UNCHANGED <<settings, catalog, task, env, dec, via>>
  BY DEF route, request
<1> QED BY <1>1 DEF RoutingInv, Gated, FloorHolds, GateHolds, Decided

LEMMA ChildKeeps ==
  ASSUME RoutingInv, runDispatchChild
  PROVE  RoutingInv'
<1>1. /\ phase = "decided" /\ phase' = "running"
      /\ UNCHANGED <<route, request, head, dirty, touched, outcome>>
      /\ before' \in {gitFingerprint, Unread}
  BY DEF runDispatchChild
<1>2. /\ FloorHolds' /\ GateHolds' /\ Gated(settings')
      /\ UNCHANGED <<settings, catalog, task, env, dec, via>>
  BY <1>1, DecisionStands
<1>3. Typed'
  BY <1>1, <1>2 DEF RoutingInv, Typed, Phases
<1>4. Unmoved'
  <2>1. head = 0 => gitFingerprint = <<0, dirty \ {RunFile}>>
    BY DEF gitFingerprint, dropEngineStateLines, Status
  <2>2. before' \in {Unread, <<0, dirty' \ {RunFile}>>}
    BY <1>1, <2>1 DEF RoutingInv, Unmoved
  <2> QED BY <1>1, <2>2 DEF Unmoved
<1>5. DecisionIsLaunched'
  <2> SUFFICES ASSUME dec.kind = "agent"
               PROVE  IF dec.cmd # Unset THEN launched'.provider = CmdProvider[dec.cmd]
                      ELSE Meets(dec.provider, launched'.provider) /\ Meets(dec.model, launched'.model)
    BY <1>2 DEF DecisionIsLaunched
  <2>1. PICK built \in {dispatchEnv(dec, env), runEnv(dec, env)} : launched' = resolveAgentArgv(built)
    BY DEF runDispatchChild
  <2>2. env \in Envs
    BY DEF RoutingInv, Typed
  <2> QED BY <2>1, <2>2, EnvironmentLaunches
<1>6. PlainDoneIsHonest'
  BY <1>1 DEF PlainDoneIsHonest
<1> QED BY <1>2, <1>3, <1>4, <1>5, <1>6 DEF RoutingInv

LEMMA AgentKeeps ==
  ASSUME RoutingInv, (\E f \in Files : AgentEdits(f)) \/ AgentCommits
  PROVE  RoutingInv'
<1>1. /\ phase = "running" /\ phase' = "running"
      /\ UNCHANGED <<route, request, launched, before, outcome>>
      /\ touched' # {} \/ head' = 1
      /\ head' \in {head, 1}
  BY DEF AgentEdits, AgentCommits
<1>2. /\ FloorHolds' /\ GateHolds' /\ Gated(settings')
      /\ UNCHANGED <<settings, catalog, task, env, dec, via>>
  BY <1>1, DecisionStands
<1>3. Typed'
  BY <1>1, <1>2 DEF RoutingInv, Typed
<1>4. Unmoved'
  BY <1>1 DEF Unmoved
<1>5. DecisionIsLaunched'
  BY <1>1, <1>2 DEF RoutingInv, DecisionIsLaunched
<1>6. PlainDoneIsHonest'
  BY <1>1 DEF PlainDoneIsHonest
<1> QED BY <1>2, <1>3, <1>4, <1>5, <1>6 DEF RoutingInv

LEMMA ExitKeeps ==
  ASSUME RoutingInv, NEW ok \in BOOLEAN, ChildExits(ok)
  PROVE  RoutingInv'
<1>1. /\ phase = "running" /\ phase' = "exited"
      /\ UNCHANGED <<route, request, launched, repo, before>>
      /\ UNCHANGED <<head, dirty, touched>>
      /\ DOMAIN outcome' = DOMAIN outcome
  BY DEF ChildExits, repo
<1>2. /\ FloorHolds' /\ GateHolds' /\ Gated(settings')
      /\ UNCHANGED <<settings, catalog, task, env, dec, via>>
  BY <1>1, DecisionStands
<1>3. Typed'
  BY <1>1, <1>2 DEF RoutingInv, Typed, Phases
<1>4. Unmoved'
  BY <1>1 DEF RoutingInv, Unmoved
<1>5. DecisionIsLaunched'
  BY <1>1, <1>2 DEF RoutingInv, DecisionIsLaunched
<1>6. PlainDoneIsHonest'
  BY <1>1 DEF PlainDoneIsHonest
<1> QED BY <1>2, <1>3, <1>4, <1>5, <1>6 DEF RoutingInv

(* The verdict: "done" alone needs two readings that differ, and only a      *)
(* change of the agent's tells them apart.                                  *)
LEMMA RecordKeeps ==
  ASSUME RoutingInv, RecordStep
  PROVE  RoutingInv'
<1>1. /\ phase = "exited" /\ phase' = "recorded"
      /\ UNCHANGED <<route, request, launched, repo, before>>
      /\ UNCHANGED <<head, dirty, touched>>
      /\ DOMAIN outcome' = DOMAIN outcome
  BY DEF RecordStep, repo
<1>2. /\ FloorHolds' /\ GateHolds' /\ Gated(settings')
      /\ UNCHANGED <<settings, catalog, task, env, dec, via>>
  BY <1>1, DecisionStands
<1>3. Typed'
  BY <1>1, <1>2 DEF RoutingInv, Typed, Phases
<1>4. Unmoved'
  BY <1>1 DEF Unmoved
<1>5. DecisionIsLaunched'
  BY <1>1, <1>2 DEF RoutingInv, DecisionIsLaunched
<1>6. PlainDoneIsHonest'
  <2> SUFFICES ASSUME outcome'.mutated # "unknown", stepOutcomeLabel' = "done", touched = {}, head # 1
               PROVE  FALSE
    BY <1>1 DEF PlainDoneIsHonest
  <2>1. PICK after \in {gitFingerprint, Unread} :
          outcome' = [outcome EXCEPT !.mutated = mutationBetween(before, after)]
    BY DEF RecordStep
  <2>2. "mutated" \in DOMAIN outcome /\ head = 0 /\ before \in {Unread, <<0, dirty \ {RunFile}>>}
    BY <1>1 DEF RoutingInv, Typed, Unmoved
  <2>3. outcome'.mutated = mutationBetween(before, after)
    BY <2>1, <2>2
  <2>4. before # Unread /\ after # Unread
    BY <2>3 DEF mutationBetween
  <2>5. gitFingerprint = <<0, dirty \ {RunFile}>>
    BY <2>2 DEF gitFingerprint, dropEngineStateLines, Status
  <2>6. outcome'.mutated = "no"
    BY <2>2, <2>3, <2>4, <2>5 DEF mutationBetween
  <2>7. stepOutcomeLabel' # "done"
    BY <2>6 DEF stepOutcomeLabel
  <2> QED BY <2>7
<1> QED BY <1>2, <1>3, <1>4, <1>5, <1>6 DEF RoutingInv

LEMMA NextKeeps == RoutingInv /\ [Next]_vars => RoutingInv'
<1> SUFFICES ASSUME RoutingInv, [Next]_vars PROVE RoutingInv'
  OBVIOUS
<1>1. CASE UNCHANGED vars
  <2>1. UNCHANGED <<settings, catalog, via, task, env, dec, phase, launched, head, dirty, touched,
                    before, outcome>>
    BY <1>1 DEF vars, route, request, repo
  <2>2. Typed' /\ Gated(settings') /\ Unmoved'
    BY <2>1 DEF RoutingInv, Typed, Gated, Unmoved
  <2>3. FloorHolds' /\ GateHolds'
    BY <2>1 DEF RoutingInv, FloorHolds, GateHolds, Decided
  <2>4. DecisionIsLaunched' /\ PlainDoneIsHonest'
    BY <2>1 DEF RoutingInv, DecisionIsLaunched, PlainDoneIsHonest, stepOutcomeLabel
  <2> QED BY <2>2, <2>3, <2>4 DEF RoutingInv
<1>2. CASE \E p \in DOMAIN Alphabet : \E on \in BOOLEAN : runProviderCmd(p, on)
  BY <1>2, SettingsKeep
<1>3. CASE \E tier \in Pins \cup {Unset} : routeSetTier(tier)
  BY <1>3, SettingsKeep
<1>4. CASE \E x \in Policies : \/ routePolicySet(x[1], x[2], x[3], x[4])
                               \/ routePolicyClear(x[1], x[2], ClearedByAll)
                               \/ routePolicyClear(x[1], x[2], {x[3]})
  BY <1>4, SettingsKeep
<1>5. CASE runDispatchCmd
  BY <1>5, DispatchKeeps
<1>6. CASE \E o \in Overrides : runRunCmd(o)
  BY <1>6, RunKeeps
<1>7. CASE runDispatchChild
  BY <1>7, ChildKeeps
<1>8. CASE (\E f \in Files : AgentEdits(f)) \/ AgentCommits
  BY <1>8, AgentKeeps
<1>9. CASE \E ok \in BOOLEAN : ChildExits(ok)
  BY <1>9, ExitKeeps
<1>10. CASE RecordStep
  BY <1>10, RecordKeeps
<1> QED BY <1>1, <1>2, <1>3, <1>4, <1>5, <1>6, <1>7, <1>8, <1>9, <1>10 DEF Next

LEMMA Routed == Spec => []RoutingInv
BY InitRouting, NextKeeps, PTL DEF Spec
-----------------------------------------------------------------------------
(* projx-store/routing.go:239-266: for any keywords, triage answers and      *)
(* order of setting commands, a task is never given less than the standing  *)
(* floor, nor less than deep reasoning when it is risky.                    *)
THEOREM TheFloorHolds == Spec => []FloorHolds
<1>1. RoutingInv => FloorHolds
  BY DEF RoutingInv
<1> QED BY <1>1, Routed, PTL

(* routing.go:422-469: for any policies, entries and catalog, what dispatch *)
(* decides names no provider that is disabled.                              *)
THEOREM TheGateHolds == Spec => []GateHolds
<1>1. RoutingInv => GateHolds
  BY DEF RoutingInv
<1> QED BY <1>1, Routed, PTL

(* dispatch_run.go:398-441, agents.go:236-263: over any environment of the  *)
(* caller, the agent that starts is the one that was decided.               *)
THEOREM TheDecidedStarts == Spec => []DecisionIsLaunched
<1>1. RoutingInv => DecisionIsLaunched
  BY DEF RoutingInv
<1> QED BY <1>1, Routed, PTL

(* dispatch_run.go:445-552: whatever files the repository has and was       *)
(* dirty in, a step that changed none of them is not labelled "done".       *)
THEOREM PlainDoneStaysHonest == Spec => []PlainDoneIsHonest
<1>1. RoutingInv => PlainDoneIsHonest
  BY DEF RoutingInv
<1> QED BY <1>1, Routed, PTL
=============================================================================
