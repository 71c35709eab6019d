---------------------------- MODULE PermHubProofs ----------------------------
(***************************************************************************)
(* The permission channel, for any number of requesters, clients and       *)
(* grants: nothing is granted that no client approved, and what is revoked *)
(* stays revoked until a client approves again.                            *)
(***************************************************************************)
EXTENDS PermHub, FiniteSetTheorems, TLAPS

Answer == [access : Nat, scope : {"once", "ttl", "permanent"}]
Result == [at : {"none", "taken", "stored", "sent"}, by : {"none", "client", "timer"}, d : Answer]

Typed ==
  /\ seq \in Nat /\ rid \in [Requesters -> Nat]
  /\ res \in [Ids -> Result] /\ chan \in [Ids -> Seq(Answer)] /\ ans \in [Requesters -> Answer]
  /\ brk \in [Requesters -> {"idle", "waiting", "persist", "granted", "denied"}]
  /\ hub \in [Requesters -> {"idle", "called", "select", "returned"}]

(* Every request has a number of its own, and its requester knows it. *)
Numbered == {r \in Requesters : rid[r] # 0}
Numbers ==
  /\ seq = Cardinality(Numbered)
  /\ \A r \in Requesters :
       /\ rid[r] <= seq
       /\ rid[r] = 0 <=> hub[r] \in {"idle", "called"}
       /\ brk[r] = "idle" => hub[r] = "idle"
       /\ \A q \in Requesters : rid[q] = rid[r] /\ rid[q] # 0 => q = r
  /\ \A n \in DOMAIN pending :
       n \in 1..seq /\ pending[n] \in Requesters /\ rid[pending[n]] = n

(* An open request has no result.  What is in its channel is the result,   *)
(* and only a client's is not a denial.                                    *)
Results ==
  \A n \in Ids :
    /\ n \in DOMAIN pending \/ n > seq => res[n] = NoRes /\ chan[n] = <<>>
    /\ chan[n] # <<>> => chan[n] = <<res[n].d>>
    /\ res[n].by # "client" => res[n].d = Deny /\ res[n].at \in {"none", "sent"}

(* PermHub.Decide returns the result of its own request, or a denial. *)
Answers ==
  \A r \in Requesters :
    /\ hub[r] = "returned" => ans[r] = Deny \/ ans[r] = res[rid[r]].d
    /\ brk[r] = "persist" => hub[r] = "returned" /\ ans[r].access > 0

IInv == Typed /\ Numbers /\ Results /\ Answers
-----------------------------------------------------------------------------
LEMMA DenyIsAnswer == Deny \in Answer /\ NoRes \in Result /\ Deny.access = 0 /\ NoRes.d = Deny
                        /\ NoRes.by = "none" /\ NoRes.at = "none"
  BY DEF Deny, NoRes, Answer, Result

LEMMA IdsAreEnough ==
  ASSUME IInv
  PROVE  /\ Cardinality(Requesters) \in Nat /\ seq <= Cardinality(Requesters)
         /\ \A r \in Requesters : rid[r] # 0 => rid[r] \in Ids /\ rid[r] \in 1..seq
         /\ DOMAIN pending \subseteq Ids
<1>1. Cardinality(Requesters) \in Nat
  BY FS_CardinalityType, RequestsAssumption
<1>2. seq <= Cardinality(Requesters)
  BY FS_Subset, RequestsAssumption DEF IInv, Numbers, Numbered
<1> QED BY <1>1, <1>2 DEF IInv, Typed, Numbers, Ids

LEMMA SameNumbered ==
  ASSUME UNCHANGED rid
  PROVE  Numbered' = Numbered
  BY DEF Numbered

LEMMA InitInv == Init => IInv
<1> SUFFICES ASSUME Init PROVE IInv
  OBVIOUS
<1>1. Typed
  BY DenyIsAnswer DEF Init, Typed
<1>2. Numbers
  <2>1. Numbered = {}
    BY DEF Init, Numbered
  <2> QED BY <2>1, FS_EmptySet DEF Init, Numbers
<1>3. Results /\ Answers
  BY DenyIsAnswer DEF Init, Results, Answers
<1> QED BY <1>1, <1>2, <1>3 DEF IInv

LEMMA RestartInv ==
  ASSUME Restart
  PROVE  IInv'
<1>1. Typed'
  BY DenyIsAnswer DEF Restart, Typed
<1>2. Numbers'
  <2>1. Numbered' = {}
    BY DEF Restart, Numbered
  <2> QED BY <2>1, FS_EmptySet DEF Restart, Numbers
<1>3. Results' /\ Answers'
  BY DenyIsAnswer DEF Restart, Results, Answers
<1> QED BY <1>1, <1>2, <1>3 DEF IInv

(* What the server's clients see, and the table, are of no concern here. *)
LEMMA StutterInv ==
  ASSUME IInv, UNCHANGED <<request, waiting>>
  PROVE  IInv'
  BY DEF IInv, Typed, Numbers, Numbered, Results, Answers, request, waiting

LEMMA MissInv ==
  ASSUME IInv, NEW r \in Requesters, Miss(r)
  PROVE  IInv'
<1>1. UNCHANGED <<request, ans>>
  BY DEF Miss
<1>2. Typed' /\ Results'
  BY <1>1 DEF Miss, IInv, Typed, Results, request
<1>3. Numbers'
  <2>1. UNCHANGED <<seq, rid, pending>> /\ Numbered' = Numbered
    BY <1>1, SameNumbered DEF request
  <2> QED BY <2>1 DEF Miss, IInv, Typed, Numbers
<1>4. Answers'
  BY <1>1 DEF Miss, IInv, Typed, Answers, request
<1> QED BY <1>2, <1>3, <1>4 DEF IInv

(* The next number is nobody's yet, and one more requester has one. *)
LEMMA DecideInv ==
  ASSUME IInv, NEW r \in Requesters, Decide(r)
  PROVE  IInv'
<1>1. /\ hub[r] = "called" /\ rid[r] = 0
      /\ seq' = seq + 1 /\ rid' = [rid EXCEPT ![r] = seq + 1]
      /\ hub' = [hub EXCEPT ![r] = "select"]
      /\ UNCHANGED <<chan, res, brk, ans>>
  BY DEF Decide, IInv, Numbers
<1>2. DOMAIN pending' = DOMAIN pending \cup {seq + 1} /\ pending'[seq + 1] = r
      /\ \A n \in DOMAIN pending : n # seq + 1 => pending'[n] = pending[n]
  BY DEF Decide
<1>3. Typed'
  BY <1>1 DEF IInv, Typed
<1>4. Numbers'
  <2>1. Numbered' = Numbered \cup {r} /\ r \notin Numbered
    BY <1>1 DEF IInv, Typed, Numbered
  <2>2. seq' = Cardinality(Numbered')
    <3>1. IsFiniteSet(Numbered)
      BY FS_Subset, RequestsAssumption DEF Numbered
    <3> QED BY <1>1, <2>1, <3>1, FS_AddElement DEF IInv, Numbers
  <2>3. \A q \in Requesters :
          /\ rid'[q] <= seq'
          /\ rid'[q] = 0 <=> hub'[q] \in {"idle", "called"}
          /\ brk'[q] = "idle" => hub'[q] = "idle"
          /\ \A p \in Requesters : rid'[p] = rid'[q] /\ rid'[p] # 0 => p = q
    BY <1>1 DEF IInv, Typed, Numbers
  <2>4. \A n \in DOMAIN pending' :
          n \in 1..seq' /\ pending'[n] \in Requesters /\ rid'[pending'[n]] = n
    BY <1>1, <1>2 DEF IInv, Typed, Numbers
  <2> QED BY <2>2, <2>3, <2>4 DEF Numbers
<1>5. Results'
  BY <1>1, <1>2 DEF IInv, Typed, Results, Ids
<1>6. Answers'
  BY <1>1 DEF IInv, Typed, Answers
<1> QED BY <1>3, <1>4, <1>5, <1>6 DEF IInv

LEMMA TakeRemoves ==
  ASSUME NEW n, Take(n)
  PROVE  /\ DOMAIN pending' = DOMAIN pending \ {n}
         /\ \A m \in DOMAIN pending' : pending'[m] = pending[m]
  BY DEF Take

LEMMA TakeNumbers ==
  ASSUME IInv, NEW n, Take(n), UNCHANGED <<seq, rid, brk>>,
         \A q \in Requesters : hub'[q] = hub[q] \/ (hub[q] = "select" /\ hub'[q] = "returned")
  PROVE  Numbers'
<1>1. Numbered' = Numbered
  BY SameNumbered
<1>2. \A r \in Requesters :
        /\ rid'[r] <= seq'
        /\ rid'[r] = 0 <=> hub'[r] \in {"idle", "called"}
        /\ brk'[r] = "idle" => hub'[r] = "idle"
        /\ \A q \in Requesters : rid'[q] = rid'[r] /\ rid'[q] # 0 => q = r
  BY DEF IInv, Numbers
<1>3. \A m \in DOMAIN pending' :
        m \in 1..seq' /\ pending'[m] \in Requesters /\ rid'[pending'[m]] = m
  BY TakeRemoves DEF IInv, Numbers
<1> QED BY <1>1, <1>2, <1>3 DEF IInv, Numbers

(* Whoever takes a request from the open ones sets its result. *)
LEMMA ResolveInv ==
  ASSUME IInv, NEW n \in Ids, NEW d \in Decisions, Resolve(n, d)
  PROVE  IInv'
<1> DEFINE new == [at |-> "taken", by |-> "client", d |-> d]
<1>1. /\ n \in DOMAIN pending /\ Take(n)
      /\ res' = [res EXCEPT ![n] = new]
      /\ UNCHANGED <<seq, rid, chan, brk, hub, ans>>
  BY DEF Resolve, waiting
<1>2. d \in Answer
  BY DecisionsAssumption DEF Answer
<1>3. Typed'
  <2>1. new \in Result
    BY <1>2 DEF Result
  <2> QED BY <1>1, <2>1 DEF IInv, Typed
<1>4. Numbers'
  BY <1>1, TakeNumbers
<1>5. Results'
  <2>1. /\ res'[n] = new /\ new.by = "client"
        /\ \A m \in Ids : m # n => res'[m] = res[m]
        /\ chan[n] = <<>>
    BY <1>1 DEF IInv, Typed, Results
  <2>2. DOMAIN pending' = DOMAIN pending \ {n}
    BY <1>1, TakeRemoves
  <2>3. n <= seq
    BY <1>1 DEF IInv, Typed, Numbers
  <2> QED BY <1>1, <2>1, <2>2, <2>3 DEF IInv, Typed, Results, Ids
<1>6. Answers'
  <2>1. \A r \in Requesters : hub[r] = "returned" /\ rid[r] = n => ans[r] = Deny
    BY <1>1, DenyIsAnswer DEF IInv, Answers, Results
  <2>2. \A r \in Requesters : hub[r] = "returned" => rid[r] \in Ids
    BY IdsAreEnough DEF IInv, Numbers
  <2> QED BY <1>1, <2>1, <2>2 DEF IInv, Typed, Answers
<1> QED BY <1>3, <1>4, <1>5, <1>6 DEF IInv

LEMMA ResolvePersistInv ==
  ASSUME IInv, NEW n \in Ids, ResolvePersist(n)
  PROVE  IInv'
<1>1. /\ res[n].at = "taken" /\ res' = [res EXCEPT ![n].at = "stored"]
      /\ UNCHANGED <<seq, pending, rid, chan, brk, hub, ans>>
  BY DEF ResolvePersist, waiting
<1>2. res'[n] = [res[n] EXCEPT !.at = "stored"] /\ res[n] \in Result
  BY <1>1 DEF IInv, Typed
<1>3. res'[n] \in Result /\ res'[n].by = res[n].by /\ res'[n].d = res[n].d
  BY <1>2 DEF Result
<1>4. Typed'
  BY <1>1, <1>3 DEF IInv, Typed
<1>5. Numbers'
  BY <1>1 DEF IInv, Numbers, Numbered
<1>6. Results'
  BY <1>1, <1>3, DenyIsAnswer DEF IInv, Typed, Results
<1>7. Answers'
  BY <1>1, <1>3, IdsAreEnough DEF IInv, Typed, Numbers, Answers
<1> QED BY <1>4, <1>5, <1>6, <1>7 DEF IInv

LEMMA ResolveSendInv ==
  ASSUME IInv, NEW n \in Ids, ResolveSend(n)
  PROVE  IInv'
<1>1. /\ res[n].at = "stored" /\ res' = [res EXCEPT ![n].at = "sent"]
      /\ chan' = [chan EXCEPT ![n] = <<res[n].d>>]
      /\ UNCHANGED <<seq, pending, rid, brk, hub, ans>>
  BY DEF ResolveSend, waiting
<1>2. res'[n] = [res[n] EXCEPT !.at = "sent"] /\ res[n] \in Result
  BY <1>1 DEF IInv, Typed
<1>3. res'[n] \in Result /\ res'[n].by = res[n].by /\ res'[n].d = res[n].d
      /\ res[n].d \in Answer
  BY <1>2 DEF Result
<1>4. Typed'
  BY <1>1, <1>3 DEF IInv, Typed
<1>5. Numbers'
  BY <1>1 DEF IInv, Numbers, Numbered
<1>6. Results'
  BY <1>1, <1>2, <1>3, DenyIsAnswer DEF IInv, Typed, Results
<1>7. Answers'
  BY <1>1, <1>3, IdsAreEnough DEF IInv, Typed, Numbers, Answers
<1> QED BY <1>4, <1>5, <1>6, <1>7 DEF IInv

LEMMA DecideReturnsInv ==
  ASSUME IInv, NEW r \in Requesters, DecideReturns(r)
  PROVE  IInv'
<1>1. /\ hub[r] = "select" /\ chan[rid[r]] # <<>> /\ rid[r] \in Ids
      /\ ans' = [ans EXCEPT ![r] = Head(chan[rid[r]])]
      /\ chan' = [chan EXCEPT ![rid[r]] = Tail(chan[rid[r]])]
      /\ hub' = [hub EXCEPT ![r] = "returned"]
      /\ UNCHANGED <<seq, pending, rid, res, brk>>
  BY IdsAreEnough DEF DecideReturns, IInv, Numbers
<1>2. chan[rid[r]] = <<res[rid[r]].d>> /\ res[rid[r]].d \in Answer
  BY <1>1 DEF IInv, Typed, Results, Result
<1>3. Head(chan[rid[r]]) = res[rid[r]].d /\ Tail(chan[rid[r]]) = <<>>
  BY <1>2
<1>4. Typed'
  BY <1>1, <1>2, <1>3 DEF IInv, Typed
<1>5. Numbers'
  BY <1>1 DEF IInv, Typed, Numbers, Numbered
<1>6. Results'
  BY <1>1, <1>3 DEF IInv, Typed, Results
<1>7. Answers'
  BY <1>1, <1>3 DEF IInv, Typed, Answers
<1> QED BY <1>4, <1>5, <1>6, <1>7 DEF IInv

(* The timer denies, whether or not a client's answer came first. *)
LEMMA DecideTimeoutInv ==
  ASSUME IInv, NEW r \in Requesters, DecideTimeout(r)
  PROVE  IInv'
<1>1. /\ hub[r] = "select" /\ rid[r] \in Ids
      /\ ans' = [ans EXCEPT ![r] = Deny]
      /\ hub' = [hub EXCEPT ![r] = "returned"]
      /\ UNCHANGED <<seq, rid, brk>>
  BY IdsAreEnough DEF DecideTimeout, IInv, Numbers
<1>2. Answers' \/ rid[r] \in DOMAIN pending
  BY <1>1 DEF DecideTimeout, IInv, Typed, Answers
<1>3. CASE rid[r] \notin DOMAIN pending
  <2>1. UNCHANGED <<pending, res, chan>>
    BY <1>3 DEF DecideTimeout
  <2>2. Typed' /\ Results'
    BY <1>1, <2>1, DenyIsAnswer DEF IInv, Typed, Results
  <2>3. Numbers'
    BY <1>1, <2>1 DEF IInv, Typed, Numbers, Numbered
  <2> QED BY <1>2, <1>3, <2>2, <2>3 DEF IInv
<1>4. CASE rid[r] \in DOMAIN pending
  <2> DEFINE n == rid[r]
             new == [at |-> "sent", by |-> "timer", d |-> Deny]
  <2>1. /\ Take(n) /\ res' = [res EXCEPT ![n] = new]
        /\ chan' = [chan EXCEPT ![n] = Append(chan[n], Deny)]
    BY <1>4 DEF DecideTimeout
  <2>2. chan[n] = <<>> /\ res[n] = NoRes
    BY <1>1, <1>4 DEF IInv, Results
  <2>3. Append(chan[n], Deny) = <<Deny>>
    BY <2>2
  <2>4. Typed'
    <3>1. new \in Result
      BY DenyIsAnswer DEF Result
    <3>2. <<Deny>> \in Seq(Answer)
      BY DenyIsAnswer
    <3> QED BY <1>1, <2>1, <2>3, <3>1, <3>2, DenyIsAnswer DEF IInv, Typed
  <2>5. Numbers'
    <3>1. \A q \in Requesters : hub'[q] = hub[q] \/ (hub[q] = "select" /\ hub'[q] = "returned")
      BY <1>1 DEF IInv, Typed
    <3> QED BY <1>1, <2>1, <3>1, TakeNumbers
  <2>6. Results'
    <3>1. /\ res'[n] = new /\ new.d = Deny /\ new.at = "sent"
          /\ chan'[n] = <<Deny>>
          /\ \A m \in Ids : m # n => res'[m] = res[m] /\ chan'[m] = chan[m]
      BY <1>1, <2>1, <2>3 DEF IInv, Typed
    <3>2. DOMAIN pending' = DOMAIN pending \ {n}
      BY <2>1, TakeRemoves
    <3>3. n <= seq
      BY <1>4 DEF IInv, Typed, Numbers
    <3> QED BY <1>1, <3>1, <3>2, <3>3 DEF IInv, Typed, Results, Ids
  <2>7. Answers'
    <3>1. \A q \in Requesters : hub[q] = "returned" => rid[q] \in Ids
      BY IdsAreEnough DEF IInv, Numbers
    <3> QED BY <1>1, <2>1, <2>2, <3>1, DenyIsAnswer DEF IInv, Typed, Answers
  <2> QED BY <2>4, <2>5, <2>6, <2>7 DEF IInv
<1> QED BY <1>3, <1>4

LEMMA BrokerReceivesInv ==
  ASSUME IInv, NEW r \in Requesters, BrokerReceives(r)
  PROVE  IInv'
<1>1. /\ brk[r] = "waiting" /\ hub[r] = "returned"
      /\ UNCHANGED <<request, hub, ans>>
  BY DEF BrokerReceives
<1>2. \E b \in {"denied", "persist", "granted"} :
        /\ brk' = [brk EXCEPT ![r] = b]
        /\ b = "persist" => ans[r].access > 0
  <2>1. ans[r].access \in Nat /\ Want[r] \in Nat
    BY RequestsAssumption DEF IInv, Typed, Answer
  <2>2. CASE ans[r].access < Want[r]
    BY <2>1, <2>2 DEF BrokerReceives, Persists
  <2>3. CASE ~(ans[r].access < Want[r]) /\ Persists(ans[r])
    <3>1. brk' = [brk EXCEPT ![r] = "persist"]
      BY <2>1, <2>3 DEF BrokerReceives, Persists
    <3> QED BY <2>3, <3>1 DEF Persists
  <2>4. CASE ~(ans[r].access < Want[r]) /\ ~Persists(ans[r])
    BY <2>1, <2>4 DEF BrokerReceives, Persists
  <2> QED BY <2>2, <2>3, <2>4
<1>3. Typed' /\ Results'
  BY <1>1, <1>2 DEF IInv, Typed, Results, request
<1>4. Numbers'
  <2>1. UNCHANGED <<seq, rid, pending, hub>> /\ Numbered' = Numbered
    BY <1>1, SameNumbered DEF request
  <2> QED BY <1>1, <1>2, <2>1 DEF IInv, Typed, Numbers
<1>5. Answers'
  BY <1>1, <1>2 DEF IInv, Typed, Answers, request
<1> QED BY <1>3, <1>4, <1>5 DEF IInv

LEMMA BrokerEndsInv ==
  ASSUME IInv, NEW r \in Requesters, BrokerPersists(r) \/ BrokerTimeout(r)
  PROVE  IInv'
<1>1. /\ brk[r] # "idle" /\ UNCHANGED <<request, hub, ans>>
      /\ \E b \in {"denied", "granted"} : brk' = [brk EXCEPT ![r] = b]
  BY DEF BrokerPersists, BrokerTimeout
<1>2. Typed' /\ Results'
  BY <1>1 DEF IInv, Typed, Results, request
<1>3. Numbers'
  <2>1. UNCHANGED <<seq, rid, pending, hub>> /\ Numbered' = Numbered
    BY <1>1, SameNumbered DEF request
  <2> QED BY <1>1, <2>1 DEF IInv, Typed, Numbers
<1>4. Answers'
  BY <1>1 DEF IInv, Typed, Answers, request
<1> QED BY <1>2, <1>3, <1>4 DEF IInv

LEMMA InvNext ==
  ASSUME IInv, [Next]_vars
  PROVE  IInv'
<1>1. CASE \E r \in Requesters : Decide(r) \/ DecideReturns(r) \/ DecideTimeout(r)
  BY <1>1, DecideInv, DecideReturnsInv, DecideTimeoutInv
<1>2. CASE \E r \in Requesters : BrokerReceives(r) \/ BrokerPersists(r) \/ BrokerTimeout(r)
  BY <1>2, BrokerReceivesInv, BrokerEndsInv
<1>3. CASE \E n \in Ids : ResolvePersist(n) \/ ResolveSend(n)
  BY <1>3, ResolvePersistInv, ResolveSendInv
<1>4. CASE Restart
  BY <1>4, RestartInv
<1>5. CASE \E r \in Requesters : Miss(r)
  BY <1>5, MissInv
<1>6. CASE \E n \in Ids, d \in Decisions : Resolve(n, d)
  BY <1>6, ResolveInv
<1>7. CASE runEnds \/ startRun \/ UNCHANGED vars
  BY <1>7, StutterInv DEF runEnds, startRun, vars
<1>8. CASE \E c \in Clients : Subscribe(c) \/ ListPending(c) \/ Deliver(c) \/ Unsubscribe(c)
  BY <1>8, StutterInv DEF Subscribe, ListPending, Deliver, Unsubscribe
<1>9. CASE \/ \E g \in grants : Revoke(g.id) \/ Expire(g)
           \/ \E s \in Subjects : RevokeMatching(s)
  BY <1>9, StutterInv DEF Revoke, Expire, RevokeMatching
<1> QED BY <1>1, <1>2, <1>3, <1>4, <1>5, <1>6, <1>7, <1>8, <1>9 DEF Next, Server

(* The inductive invariant of requests, results and answers. *)
THEOREM Invariance == Spec => []IInv
  BY InitInv, InvNext, PTL DEF Spec
-----------------------------------------------------------------------------
(* An answer above a denial is the answer a client gave. *)
LEMMA AnswerIsClients ==
  ASSUME IInv, NEW r \in Requesters, hub[r] = "returned", ans[r].access > 0
  PROVE  /\ rid[r] \in Ids /\ ans[r] = res[rid[r]].d
         /\ res[rid[r]].by = "client"
<1>1. rid[r] \in Ids
  BY IdsAreEnough DEF IInv, Numbers
<1>2. ans[r] = res[rid[r]].d
  BY DenyIsAnswer DEF IInv, Answers
<1> QED BY <1>1, <1>2, DenyIsAnswer DEF IInv, Results

(* Only Broker.Decide ends a requester's waiting with an access. *)
LEMMA WaitingEnds ==
  ASSUME IInv, [Next]_vars, NEW r \in Requesters,
         brk[r] = "waiting", brk'[r] \in {"persist", "granted"}
  PROVE  BrokerReceives(r)
<1>1. CASE Server
  BY <1>1 DEF Server, Decide, DecideReturns, DecideTimeout, BrokerReceives, BrokerPersists,
     BrokerTimeout, ResolvePersist, ResolveSend, runEnds, waiting, IInv, Typed
<1>2. CASE Restart
  BY <1>2 DEF Restart
<1>3. CASE \E q \in Requesters : Miss(q)
  BY <1>3 DEF Miss, IInv, Typed
<1>4. CASE \E n \in Ids, d \in Decisions : Resolve(n, d)
  BY <1>4 DEF Resolve, waiting
<1>5. CASE startRun \/ UNCHANGED vars
  BY <1>5 DEF startRun, vars, waiting
<1>6. CASE \E c \in Clients : Subscribe(c) \/ ListPending(c) \/ Deliver(c) \/ Unsubscribe(c)
  BY <1>6 DEF Subscribe, ListPending, Deliver, Unsubscribe, waiting
<1>7. CASE \/ \E g \in grants : Revoke(g.id) \/ Expire(g)
           \/ \E s \in Subjects : RevokeMatching(s)
  BY <1>7 DEF Revoke, Expire, RevokeMatching, waiting
<1> QED BY <1>1, <1>2, <1>3, <1>4, <1>5, <1>6, <1>7 DEF Next

(* serve.go:71-89, grants.go Broker.Decide: whichever of the answers and   *)
(* the two time-outs comes first, an access is given only when a client    *)
(* granted this very request at least what it asked for.                   *)
THEOREM NothingUnapproved == Spec => FailsClosed
<1>1. ASSUME IInv, [Next]_vars, NEW r \in Requesters,
             brk[r] = "waiting", brk'[r] \in {"persist", "granted"}
      PROVE  res[rid[r]].by = "client" /\ res[rid[r]].d.access >= Want[r]
  <2>1. BrokerReceives(r)
    BY <1>1, WaitingEnds
  <2>2. hub[r] = "returned" /\ ~(ans[r].access < Want[r])
    BY <1>1, <2>1 DEF BrokerReceives, IInv, Typed
  <2>3. ans[r].access \in Nat /\ Want[r] \in Nat \ {0}
    BY <1>1, RequestsAssumption DEF IInv, Typed, Answer
  <2>4. ans[r].access > 0 /\ ans[r].access >= Want[r]
    BY <2>2, <2>3
  <2> QED BY <1>1, <2>2, <2>4, AnswerIsClients
<1>2. IInv /\ [Next]_vars =>
        [\A r \in Requesters :
           brk[r] = "waiting" /\ brk'[r] \in {"persist", "granted"} =>
             res[rid[r]].by = "client" /\ res[rid[r]].d.access >= Want[r]]_vars
  BY <1>1
<1> QED BY <1>2, Invariance, PTL DEF Spec, FailsClosed
-----------------------------------------------------------------------------
(* An approval that has not reached the table twice yet. *)
OnItsWay(r) ==
  /\ rid[r] # 0 /\ res[rid[r]].by = "client" /\ res[rid[r]].d.access > 0
  /\ res[rid[r]].at = "taken" \/ brk[r] \in {"waiting", "persist"}

(* Rows are records: an update of one field leaves the others alone. *)
AreRows == \A g \in grants : {"id", "subject", "live"} \subseteq DOMAIN g

(* What is cut is covered by no live row, and by nothing on its way there. *)
CutInv ==
  \A s \in cut :
    /\ \A g \in grants : g.live => <<g.subject, s>> \notin Covers
    /\ \A r \in Requesters : <<Subject[r], s>> \in Covers => ~OnItsWay(r)
-----------------------------------------------------------------------------
(* What a revocation or the clock makes of a row. *)
LEMMA RowUpdate ==
  ASSUME NEW g, {"id", "subject", "live"} \subseteq DOMAIN g, NEW b
  PROVE  /\ {"id", "subject", "live"} \subseteq DOMAIN [g EXCEPT !.live = b]
         /\ [g EXCEPT !.live = b].subject = g.subject
         /\ [g EXCEPT !.live = b].live = b
  OBVIOUS

LEMMA RowsNext ==
  ASSUME AreRows, [Next]_vars
  PROVE  AreRows'
<1>1. CASE UNCHANGED grants
  BY <1>1 DEF AreRows
<1>2. ASSUME NEW id, NEW s, NEW d, NEW e, PutRow(id, s, d, e)
      PROVE  AreRows'
  BY <1>2 DEF PutRow, AreRows
<1>3. ASSUME NEW id, Revoke(id)
      PROVE  AreRows'
  BY <1>3, RowUpdate DEF Revoke, AreRows
<1>4. ASSUME NEW s, RevokeMatching(s)
      PROVE  AreRows'
  BY <1>4, RowUpdate DEF RevokeMatching, AreRows
<1>5. ASSUME NEW h \in grants, Expire(h)
      PROVE  AreRows'
  BY <1>5, RowUpdate DEF Expire, AreRows
<1>6. CASE Server
  <2>1. CASE \E r \in Requesters : BrokerPersists(r)
    BY <1>2, <2>1 DEF BrokerPersists
  <2>2. CASE \E n \in Ids : ResolvePersist(n)
    BY <1>1, <1>2, <2>2 DEF ResolvePersist
  <2> QED BY <1>1, <1>6, <2>1, <2>2 DEF Server, Decide, DecideReturns, DecideTimeout,
       BrokerReceives, BrokerTimeout, ResolveSend, runEnds, disk
<1>7. CASE startRun \/ Restart \/ UNCHANGED vars
  BY <1>1, <1>7 DEF startRun, Restart, vars, disk
<1>8. CASE \/ \E r \in Requesters : Miss(r)
           \/ \E n \in Ids, d \in Decisions : Resolve(n, d)
           \/ \E c \in Clients : Subscribe(c) \/ ListPending(c) \/ Deliver(c) \/ Unsubscribe(c)
  BY <1>1, <1>8 DEF Miss, Resolve, Subscribe, ListPending, Deliver, Unsubscribe, disk
<1> QED BY <1>3, <1>4, <1>5, <1>6, <1>7, <1>8 DEF Next
-----------------------------------------------------------------------------
(* Rows that were there, and approvals that were on their way, cover what  *)
(* they covered before.                                                    *)
LEMMA CutKept ==
  ASSUME CutInv, cut' \subseteq cut,
         \A g \in grants' : g.live => \E h \in grants : h.live /\ h.subject = g.subject,
         \A r \in Requesters : OnItsWay(r)' => OnItsWay(r)
  PROVE  CutInv'
  BY DEF CutInv

(* So does a new row for a subject whose approval was on its way. *)
LEMMA CutPutRow ==
  ASSUME CutInv, cut' = cut, NEW r \in Requesters, OnItsWay(r),
         NEW id, NEW d, NEW e, PutRow(id, Subject[r], d, e),
         \A q \in Requesters : OnItsWay(q)' => OnItsWay(q)
  PROVE  CutInv'
<1>1. ASSUME NEW s \in cut, NEW g \in grants', g.live
      PROVE  <<g.subject, s>> \notin Covers
  <2>1. CASE g \in grants
    BY <1>1, <2>1 DEF CutInv
  <2>2. CASE g.subject = Subject[r]
    BY <2>2 DEF CutInv
  <2> QED BY <2>1, <2>2 DEF PutRow
<1> QED BY <1>1 DEF CutInv

LEMMA SameApprovals ==
  ASSUME UNCHANGED <<rid, res, brk>>
  PROVE  \A r \in Requesters : OnItsWay(r)' => OnItsWay(r)
  BY DEF OnItsWay

LEMMA FreshNumber ==
  ASSUME IInv, NEW r \in Requesters, rid[r] = 0
  PROVE  seq + 1 \in Ids /\ res[seq + 1] = NoRes
<1>1. IsFiniteSet(Numbered) /\ r \notin Numbered
  BY FS_Subset, RequestsAssumption DEF Numbered
<1>2. Cardinality(Numbered \cup {r}) = seq + 1
  BY <1>1, FS_AddElement DEF IInv, Numbers
<1>3. Cardinality(Numbered \cup {r}) <= Cardinality(Requesters)
  BY FS_Subset, RequestsAssumption DEF Numbered
<1>4. seq + 1 \in Ids
  BY <1>2, <1>3, IdsAreEnough DEF IInv, Typed, Ids
<1> QED BY <1>4 DEF IInv, Typed, Results

LEMMA CutServer ==
  ASSUME IInv, CutInv, Server
  PROVE  CutInv'
<1>1. ASSUME NEW r \in Requesters, Decide(r)
      PROVE  CutInv'
  <2>1. rid[r] = 0
    BY <1>1 DEF Decide, IInv, Numbers
  <2>2. \A q \in Requesters : OnItsWay(q)' => OnItsWay(q)
    BY <1>1, <2>1, FreshNumber, DenyIsAnswer DEF Decide, OnItsWay, IInv, Typed
  <2> QED BY <1>1, <2>2, CutKept DEF Decide, disk
<1>2. ASSUME NEW r \in Requesters, DecideReturns(r)
      PROVE  CutInv'
  BY <1>2, SameApprovals, CutKept DEF DecideReturns, disk
<1>3. ASSUME NEW r \in Requesters, DecideTimeout(r)
      PROVE  CutInv'
  <2>1. UNCHANGED <<rid, brk, disk, cut>>
        /\ \/ UNCHANGED res
           \/ /\ rid[r] \in Ids
              /\ res' = [res EXCEPT ![rid[r]] = [at |-> "sent", by |-> "timer", d |-> Deny]]
    BY <1>3, IdsAreEnough DEF DecideTimeout, IInv, Numbers
  <2>2. \A q \in Requesters : OnItsWay(q)' => OnItsWay(q)
    <3>1. CASE UNCHANGED res
      BY <2>1, <3>1, SameApprovals
    <3>2. CASE res' = [res EXCEPT ![rid[r]] = [at |-> "sent", by |-> "timer", d |-> Deny]]
      <4>1. \A n \in Ids : res'[n].by = "client" => res'[n] = res[n]
        BY <3>2 DEF IInv, Typed
      <4>2. ASSUME NEW q \in Requesters, OnItsWay(q)'
            PROVE  OnItsWay(q)
        <5>1. rid[q] \in Ids /\ res'[rid[q]].by = "client"
          BY <2>1, <4>2, IdsAreEnough DEF OnItsWay
        <5> QED BY <2>1, <4>1, <4>2, <5>1 DEF OnItsWay
      <4> QED BY <4>2
    <3> QED BY <2>1, <3>1, <3>2
  <2> QED BY <2>1, <2>2, CutKept DEF disk
<1>4. ASSUME NEW r \in Requesters, BrokerReceives(r) \/ BrokerTimeout(r)
      PROVE  CutInv'
  <2>1. UNCHANGED <<rid, res, disk, cut>>
    BY <1>4 DEF BrokerReceives, BrokerTimeout, request
  <2>2. brk[r] = "waiting" /\ \A q \in Requesters : q # r => brk'[q] = brk[q]
    BY <1>4 DEF BrokerReceives, BrokerTimeout, IInv, Typed
  <2>3. \A q \in Requesters : OnItsWay(q)' => OnItsWay(q)
    BY <2>1, <2>2 DEF OnItsWay
  <2> QED BY <2>1, <2>3, CutKept DEF disk
<1>5. ASSUME NEW r \in Requesters, BrokerPersists(r)
      PROVE  CutInv'
  <2>1. OnItsWay(r)
    <3>1. brk[r] = "persist" /\ hub[r] = "returned" /\ ans[r].access > 0 /\ rid[r] # 0
      BY <1>5 DEF BrokerPersists, IInv, Numbers, Answers
    <3> QED BY <3>1, AnswerIsClients DEF OnItsWay
  <2>2. \A q \in Requesters : OnItsWay(q)' => OnItsWay(q)
    BY <1>5 DEF BrokerPersists, OnItsWay, IInv, Typed, request
  <2> QED BY <1>5, <2>1, <2>2, CutPutRow DEF BrokerPersists
<1>6. ASSUME NEW n \in Ids, ResolvePersist(n)
      PROVE  CutInv'
  <2>1. res[n].at = "taken" /\ res[n].by = "client"
    BY <1>6 DEF ResolvePersist, IInv, Results
  <2>2. /\ res' = [res EXCEPT ![n].at = "stored"] /\ res[n] \in Result
        /\ UNCHANGED <<rid, brk, cut>>
    BY <1>6 DEF ResolvePersist, IInv, Typed, waiting
  <2>3. \A m \in Ids : res'[m].by = res[m].by /\ res'[m].d = res[m].d
                          /\ (res'[m].at = "taken" => res[m].at = "taken")
    BY <2>2 DEF IInv, Typed, Result
  <2>4. \A q \in Requesters : OnItsWay(q)' => OnItsWay(q)
    BY <2>2, <2>3, IdsAreEnough DEF OnItsWay
  <2>5. CASE Persists(res[n].d)
    <3>1. PICK r \in Requesters : rid[r] = n /\ PutRow(n, Subject[r], res[n].d, FALSE)
      BY <1>6, <2>5 DEF ResolvePersist
    <3>2. OnItsWay(r)
      BY <2>1, <2>5, <3>1 DEF OnItsWay, Persists, Ids
    <3> QED BY <2>2, <2>4, <3>1, <3>2, CutPutRow
  <2>6. CASE ~Persists(res[n].d)
    BY <1>6, <2>2, <2>4, <2>6, CutKept DEF ResolvePersist
  <2> QED BY <2>5, <2>6
<1>7. ASSUME NEW n \in Ids, ResolveSend(n)
      PROVE  CutInv'
  <2>1. /\ res' = [res EXCEPT ![n].at = "sent"] /\ res[n] \in Result
        /\ UNCHANGED <<rid, brk, disk, cut>>
    BY <1>7 DEF ResolveSend, IInv, Typed, waiting
  <2>2. \A m \in Ids : res'[m].by = res[m].by /\ res'[m].d = res[m].d
                          /\ (res'[m].at = "taken" => res[m].at = "taken")
    BY <2>1 DEF IInv, Typed, Result
  <2>3. \A q \in Requesters : OnItsWay(q)' => OnItsWay(q)
    BY <2>1, <2>2, IdsAreEnough DEF OnItsWay
  <2> QED BY <2>1, <2>3, CutKept DEF disk
<1>8. CASE runEnds
  BY <1>8, SameApprovals, CutKept DEF runEnds, request, waiting, disk
<1> QED BY <1>1, <1>2, <1>3, <1>4, <1>5, <1>6, <1>7, <1>8 DEF Server

(* A client's approval takes what it covers out of the cut. *)
LEMMA CutResolve ==
  ASSUME IInv, CutInv, NEW n \in Ids, NEW d \in Decisions, Resolve(n, d)
  PROVE  CutInv'
<1> DEFINE q == pending[n]
<1>1. /\ n \in DOMAIN pending /\ UNCHANGED <<rid, brk, disk>>
      /\ res' = [res EXCEPT ![n] = [at |-> "taken", by |-> "client", d |-> d]]
      /\ cut' = IF d.access > 0 THEN {s \in cut : <<Subject[q], s>> \notin Covers} ELSE cut
  BY DEF Resolve, waiting
<1>2. /\ q \in Requesters /\ rid[q] = n
      /\ \A r \in Requesters : rid[r] = n => r = q
  BY <1>1 DEF IInv, Typed, Numbers, Ids
<1>3. ASSUME NEW s \in cut', NEW r \in Requesters, <<Subject[r], s>> \in Covers, OnItsWay(r)'
      PROVE  FALSE
  <2>1. CASE r = q
    <3>1. d.access > 0
      BY <1>1, <1>2, <1>3, <2>1 DEF OnItsWay, IInv, Typed
    <3> QED BY <1>1, <1>3, <2>1, <3>1
  <2>2. CASE r # q
    <3>1. OnItsWay(r)
      BY <1>1, <1>2, <1>3, <2>2 DEF OnItsWay, IInv, Typed
    <3>2. s \in cut
      BY <1>1
    <3> QED BY <1>3, <3>1, <3>2 DEF CutInv
  <2> QED BY <2>1, <2>2
<1>4. cut' \subseteq cut /\ grants' = grants
  BY <1>1 DEF disk
<1> QED BY <1>3, <1>4 DEF CutInv

(* Revoking kills the rows that cover the subject, and the subject is cut  *)
(* only if nothing that covers it is on its way.                           *)
LEMMA CutRevoke ==
  ASSUME IInv, AreRows, CutInv, NEW s \in Subjects, RevokeMatching(s)
  PROVE  CutInv'
<1>1. /\ grants' = {[g EXCEPT !.live = @ /\ ~Touches(g, s)] : g \in grants}
      /\ cut' = IF InFlight(s) THEN cut ELSE cut \cup {s}
      /\ UNCHANGED <<rid, res, brk>>
  BY DEF RevokeMatching, request, waiting
<1>2. ASSUME NEW t \in cut', NEW g \in grants', g.live
      PROVE  <<g.subject, t>> \notin Covers
  <2>1. PICK h \in grants : g = [h EXCEPT !.live = h.live /\ ~Touches(h, s)]
    BY <1>1, <1>2
  <2>2. g.subject = h.subject /\ g.live = (h.live /\ ~Touches(h, s))
    BY <2>1, RowUpdate DEF AreRows
  <2>3. CASE t \in cut
    BY <1>2, <2>2, <2>3 DEF CutInv
  <2>4. CASE t = s
    BY <1>2, <2>2, <2>4 DEF Touches
  <2> QED BY <1>1, <1>2, <2>3, <2>4
<1>3. ASSUME NEW t \in cut', NEW r \in Requesters, <<Subject[r], t>> \in Covers
      PROVE  ~OnItsWay(r)'
  <2>1. CASE t \in cut
    BY <1>1, <1>3, <2>1 DEF CutInv, OnItsWay
  <2>2. CASE t = s /\ ~InFlight(s)
    BY <1>1, <1>3, <2>2 DEF InFlight, OnItsWay
  <2> QED BY <1>1, <1>3, <2>1, <2>2
<1> QED BY <1>2, <1>3 DEF CutInv

LEMMA CutNext ==
  ASSUME IInv, AreRows, CutInv, [Next]_vars
  PROVE  CutInv'
<1>1. CASE startRun \/ UNCHANGED vars
  BY <1>1, SameApprovals, CutKept DEF startRun, vars, request, waiting, disk
<1>2. CASE Restart
  <2>1. \A r \in Requesters : ~OnItsWay(r)'
    BY <1>2 DEF Restart, OnItsWay
  <2> QED BY <1>2, <2>1, CutKept DEF Restart, disk
<1>3. ASSUME NEW r \in Requesters, Miss(r)
      PROVE  CutInv'
  <2>1. rid[r] = 0 /\ UNCHANGED <<rid, res, disk, cut>>
    BY <1>3 DEF Miss, IInv, Numbers, request
  <2>2. \A q \in Requesters : q # r => brk'[q] = brk[q]
    BY <1>3 DEF Miss, IInv, Typed
  <2>3. \A q \in Requesters : OnItsWay(q)' => OnItsWay(q)
    BY <2>1, <2>2 DEF OnItsWay
  <2> QED BY <2>1, <2>3, CutKept DEF disk
<1>4. CASE \E c \in Clients : Subscribe(c) \/ ListPending(c) \/ Deliver(c) \/ Unsubscribe(c)
  <2>1. UNCHANGED <<request, waiting, disk, cut>>
    BY <1>4 DEF Subscribe, ListPending, Deliver, Unsubscribe
  <2> QED BY <2>1, SameApprovals, CutKept DEF request, waiting, disk
<1>5. ASSUME NEW h \in grants, Revoke(h.id) \/ Expire(h)
      PROVE  CutInv'
  <2>1. UNCHANGED <<request, waiting, cut>>
    BY <1>5 DEF Revoke, Expire
  <2>2. \A g \in grants' : g.live => \E k \in grants : k.live /\ k.subject = g.subject
    <3>1. CASE Revoke(h.id)
      <4>1. ASSUME NEW g \in grants', g.live
            PROVE  \E k \in grants : k.live /\ k.subject = g.subject
        <5>1. PICK k \in grants : g = [k EXCEPT !.live = k.live /\ k.id # h.id]
          BY <3>1, <4>1 DEF Revoke
        <5> QED BY <4>1, <5>1, RowUpdate DEF AreRows
      <4> QED BY <4>1
    <3>2. CASE Expire(h)
      <4>1. ASSUME NEW g \in grants', g.live
            PROVE  g \in grants
        BY <3>2, <4>1, RowUpdate DEF Expire, AreRows
      <4> QED BY <4>1
    <3> QED BY <1>5, <3>1, <3>2
  <2> QED BY <2>1, <2>2, SameApprovals, CutKept DEF request, waiting
<1> QED BY <1>1, <1>2, <1>3, <1>4, <1>5, CutServer, CutResolve, CutRevoke DEF Next

(* serve.go:305-323: a revocation reaches every row an approval left, also *)
(* those of earlier servers, and nothing but a new approval brings the     *)
(* access back, in any number of requests, rows and restarts.              *)
THEOREM RevocationHolds == Spec => []RevokeHolds
<1>1. Init => CutInv /\ AreRows
  BY KeptAssumption DEF Init, CutInv, AreRows
<1>2. CutInv => RevokeHolds
  <2> SUFFICES ASSUME CutInv, NEW s \in cut PROVE Lookup(s) = 0
    BY DEF RevokeHolds
  <2>1. {h \in grants : h.live /\ <<h.subject, s>> \in Covers} = {}
    BY DEF CutInv
  <2>2. Lookup(s) = Max({0})
    BY <2>1 DEF Lookup
  <2> QED BY <2>2 DEF Max
<1> QED BY <1>1, <1>2, CutNext, RowsNext, Invariance, PTL DEF Spec
-----------------------------------------------------------------------------
(* What the clients see.  The last event about a request in a channel says  *)
(* whether it is open, and where there is none the view does: from the      *)
(* subscription on for the events, from the listing on for the view.        *)
Event == [type : {"pending", "resolved"}, id : Nat]
Mentions(q, n) == \E i \in DOMAIN q : q[i].id = n
Says(q, n) ==
  \E i \in DOMAIN q :
    q[i].id = n /\ q[i].type = "pending" /\ \A j \in DOMAIN q : q[j].id = n => j <= i
StreamsTyped ==
  /\ queue \in [Clients -> Seq(Event)] /\ missed \in [Clients -> BOOLEAN]
  /\ subs \in [Clients -> {"off", "subscribed", "live"}] /\ view \in [Clients -> SUBSET Nat]
Told(q, open) == \A n \in Nat : Mentions(q, n) => (Says(q, n) <=> n \in open)
Listed(q, shown, open) == \A n \in Nat : ~Mentions(q, n) => (n \in shown <=> n \in open)
StreamInv ==
  /\ StreamsTyped
  /\ \A c \in Clients :
       /\ subs[c] = "off" => queue[c] = <<>>
       /\ subs[c] # "off" /\ ~missed[c] => Told(queue[c], DOMAIN pending)
       /\ subs[c] = "live" /\ ~missed[c] => Listed(queue[c], view[c], DOMAIN pending)

(* What an event adds at the end of a channel, and takes from its head. *)
LEMMA AppendSays ==
  ASSUME NEW q \in Seq(Event), NEW e \in Event, NEW n \in Nat
  PROVE  /\ Mentions(Append(q, e), n) <=> Mentions(q, n) \/ e.id = n
         /\ e.id = n => (Says(Append(q, e), n) <=> e.type = "pending")
         /\ e.id # n => (Says(Append(q, e), n) <=> Says(q, n))
<1> DEFINE t == Append(q, e)
           l == Len(q) + 1
<1>1. /\ DOMAIN q = 1..Len(q) /\ Len(q) \in Nat
      /\ DOMAIN t = 1..l /\ t[l] = e /\ l \in DOMAIN t /\ l \notin DOMAIN q
      /\ \A i \in DOMAIN q : t[i] = q[i] /\ i \in DOMAIN t /\ i < l
      /\ \A i \in DOMAIN t : i \in DOMAIN q \/ i = l
  OBVIOUS
<1>2. \A i \in DOMAIN t : i \in Nat /\ i <= l
  BY <1>1
<1> HIDE DEF t, l
<1>3. Mentions(t, n) <=> Mentions(q, n) \/ e.id = n
  BY <1>1 DEF Mentions
<1>4. ASSUME e.id = n
      PROVE  Says(t, n) <=> e.type = "pending"
  <2>1. ASSUME e.type = "pending"
        PROVE  Says(t, n)
    BY <1>1, <1>2, <1>4, <2>1 DEF Says
  <2>2. ASSUME Says(t, n)
        PROVE  e.type = "pending"
    <3>1. PICK i \in DOMAIN t : t[i].id = n /\ t[i].type = "pending" /\ \A j \in DOMAIN t : t[j].id = n => j <= i
      BY <2>2 DEF Says
    <3>2. i = l
      BY <1>1, <1>2, <1>4, <3>1
    <3> QED BY <3>1, <3>2, <1>1
  <2> QED BY <2>1, <2>2
<1>5. ASSUME e.id # n
      PROVE  Says(t, n) <=> Says(q, n)
  <2>1. \A i \in DOMAIN t : t[i].id = n <=> i \in DOMAIN q /\ q[i].id = n
    BY <1>1, <1>5
  <2> QED BY <1>1, <2>1 DEF Says
<1> QED BY <1>3, <1>4, <1>5 DEF t

LEMMA TailSays ==
  ASSUME NEW q \in Seq(Event), q # <<>>, NEW n \in Nat
  PROVE  /\ Head(q) \in Event /\ Tail(q) \in Seq(Event)
         /\ Mentions(q, n) <=> Mentions(Tail(q), n) \/ Head(q).id = n
         /\ Mentions(Tail(q), n) => (Says(q, n) <=> Says(Tail(q), n))
         /\ ~Mentions(Tail(q), n) /\ Head(q).id = n => (Says(q, n) <=> Head(q).type = "pending")
<1> DEFINE t == Tail(q)
           h == Head(q)
<1>1. /\ h \in Event /\ t \in Seq(Event) /\ h = q[1]
      /\ DOMAIN q = 1..Len(q) /\ Len(q) \in Nat /\ 1 \in DOMAIN q
      /\ DOMAIN t = 1..(Len(q) - 1)
      /\ \A i \in DOMAIN t : t[i] = q[i + 1]
  OBVIOUS
<1>2. /\ \A i \in DOMAIN t : i \in Nat /\ i >= 1 /\ i + 1 \in DOMAIN q /\ t[i] = q[i + 1]
      /\ \A k \in DOMAIN q : k \in Nat /\ k >= 1
      /\ \A k \in DOMAIN q : k # 1 => k - 1 \in DOMAIN t /\ q[k] = t[k - 1]
  BY <1>1
<1> HIDE DEF t, h
<1>3. Mentions(q, n) <=> Mentions(t, n) \/ h.id = n
  BY <1>1, <1>2 DEF Mentions
<1>4. ASSUME Mentions(t, n)
      PROVE  Says(q, n) <=> Says(t, n)
  <2>1. PICK m \in DOMAIN t : t[m].id = n
    BY <1>4 DEF Mentions
  <2>2. ASSUME Says(q, n)
        PROVE  Says(t, n)
    <3>1. PICK k \in DOMAIN q : q[k].id = n /\ q[k].type = "pending" /\ \A j \in DOMAIN q : q[j].id = n => j <= k
      BY <2>2 DEF Says
    <3>2. k >= m + 1 /\ k # 1
      BY <2>1, <3>1, <1>2
    <3>3. k - 1 \in DOMAIN t /\ t[k - 1] = q[k]
      BY <3>2, <1>2
    <3>4. \A j \in DOMAIN t : t[j].id = n => j <= k - 1
      BY <3>1, <1>2
    <3> QED BY <3>1, <3>3, <3>4 DEF Says
  <2>3. ASSUME Says(t, n)
        PROVE  Says(q, n)
    <3>1. PICK i \in DOMAIN t : t[i].id = n /\ t[i].type = "pending" /\ \A j \in DOMAIN t : t[j].id = n => j <= i
      BY <2>3 DEF Says
    <3>2. \A k \in DOMAIN q : q[k].id = n => k <= i + 1
      BY <3>1, <1>2
    <3> QED BY <3>1, <3>2, <1>2 DEF Says
  <2> QED BY <2>2, <2>3
<1>5. ASSUME ~Mentions(t, n), h.id = n
      PROVE  Says(q, n) <=> h.type = "pending"
  <2>1. \A k \in DOMAIN q : q[k].id = n <=> k = 1
    BY <1>1, <1>2, <1>5 DEF Mentions
  <2> QED BY <1>1, <1>2, <2>1 DEF Says
<1> QED BY <1>1, <1>3, <1>4, <1>5 DEF t, h

(* An event that says what happened to the open requests keeps every        *)
(* channel true, full ones apart.                                           *)
LEMMA BroadcastTells ==
  ASSUME StreamInv, NEW e \in Event, broadcast(e),
         \A n \in Nat : n \in DOMAIN pending' <=> IF n = e.id THEN e.type = "pending" ELSE n \in DOMAIN pending
  PROVE  StreamInv'
<1>1. /\ queue' = [c \in Clients |-> IF subs[c] = "off" \/ Full(c) THEN queue[c] ELSE Append(queue[c], e)]
      /\ missed' = [c \in Clients |-> missed[c] \/ Full(c)]
      /\ UNCHANGED <<subs, view>>
  BY DEF broadcast
<1>2. \A c \in Clients : Full(c) \in BOOLEAN
  BY DEF Full
<1>3. StreamsTyped'
  <2>1. queue' \in [Clients -> Seq(Event)]
    BY <1>1 DEF StreamInv, StreamsTyped
  <2>2. missed' \in [Clients -> BOOLEAN]
    BY <1>1, <1>2 DEF StreamInv, StreamsTyped
  <2> QED BY <1>1, <2>1, <2>2 DEF StreamInv, StreamsTyped
<1>4. ASSUME NEW c \in Clients
      PROVE  /\ subs'[c] = "off" => queue'[c] = <<>>
             /\ subs'[c] # "off" /\ ~missed'[c] => Told(queue'[c], DOMAIN pending')
             /\ subs'[c] = "live" /\ ~missed'[c] => Listed(queue'[c], view'[c], DOMAIN pending')
  <2>1. CASE subs[c] = "off"
    BY <1>1, <2>1 DEF StreamInv
  <2>2. CASE subs[c] # "off" /\ Full(c)
    BY <1>1, <2>2
  <2>3. CASE subs[c] # "off" /\ ~Full(c)
    <3>1. /\ queue'[c] = Append(queue[c], e) /\ queue[c] \in Seq(Event)
          /\ missed'[c] = missed[c] /\ subs'[c] = subs[c] /\ view'[c] = view[c]
      BY <1>1, <2>3 DEF StreamInv, StreamsTyped
    <3>2. ~missed[c] => Told(queue[c], DOMAIN pending)
      BY <2>3 DEF StreamInv
    <3>3. ~missed[c] /\ subs[c] = "live" => Listed(queue[c], view[c], DOMAIN pending)
      BY <2>3 DEF StreamInv
    <3>4. ~missed[c] => Told(queue'[c], DOMAIN pending')
      BY <3>1, <3>2, AppendSays DEF Told
    <3>5. ~missed[c] /\ subs[c] = "live" => Listed(queue'[c], view[c], DOMAIN pending')
      BY <3>1, <3>3, AppendSays DEF Listed
    <3> QED BY <2>3, <3>1, <3>4, <3>5
  <2> QED BY <2>1, <2>2, <2>3
<1> QED BY <1>3, <1>4 DEF StreamInv

LEMMA TakeTells ==
  ASSUME StreamInv, IInv, NEW n \in Nat, Take(n)
  PROVE  StreamInv'
<1> DEFINE e == [type |-> "resolved", id |-> n]
<1>1. e \in Event /\ e.id = n /\ e.type # "pending"
  BY DEF Event
<1>2. broadcast(e)
  BY DEF Take
<1>3. DOMAIN pending' = DOMAIN pending \ {n}
  BY TakeRemoves
<1> HIDE DEF e
<1> QED BY <1>1, <1>2, <1>3, BroadcastTells

LEMMA DecideTells ==
  ASSUME StreamInv, IInv, NEW r \in Requesters, Decide(r)
  PROVE  StreamInv'
<1> DEFINE e == [type |-> "pending", id |-> seq + 1]
<1>1. e \in Event /\ e.id = seq + 1 /\ e.type = "pending"
  BY DEF Event, IInv, Typed
<1>2. broadcast(e)
  BY DEF Decide
<1>3. DOMAIN pending' = DOMAIN pending \cup {seq + 1}
  BY DEF Decide
<1> HIDE DEF e
<1> QED BY <1>1, <1>2, <1>3, BroadcastTells

(* A client subscribes, lists what is pending, reads an event, leaves. *)
LEMMA ClientTells ==
  ASSUME StreamInv, IInv, NEW c \in Clients,
         Subscribe(c) \/ ListPending(c) \/ Deliver(c) \/ Unsubscribe(c)
  PROVE  StreamInv'
<1>0. /\ UNCHANGED pending /\ DOMAIN pending \subseteq Nat
      /\ queue[c] \in Seq(Event) /\ view[c] \in SUBSET Nat
  BY DEF Subscribe, ListPending, Deliver, Unsubscribe, request, IInv, Typed, Numbers, StreamInv, StreamsTyped
<1>1. CASE Subscribe(c)
  <2>1. queue[c] = <<>> /\ Told(<<>>, DOMAIN pending)
    BY <1>1 DEF Subscribe, StreamInv, Told, Mentions
  <2> QED BY <1>0, <1>1, <2>1 DEF Subscribe, StreamInv, StreamsTyped
<1>2. CASE ListPending(c)
  <2>1. Listed(queue[c], DOMAIN pending, DOMAIN pending)
    BY DEF Listed
  <2> QED BY <1>0, <1>2, <2>1 DEF ListPending, StreamInv, StreamsTyped
<1>3. CASE Deliver(c)
  <2> DEFINE h == Head(queue[c])
             t == Tail(queue[c])
             shown == Show(view[c], h)
  <2>1. /\ subs[c] = "live" /\ queue[c] # <<>>
        /\ view' = [view EXCEPT ![c] = shown] /\ queue' = [queue EXCEPT ![c] = t]
        /\ UNCHANGED <<subs, missed>>
    BY <1>3 DEF Deliver
  <2>2. h \in Event /\ t \in Seq(Event)
    BY <1>0, <2>1
  <2>3. shown \in SUBSET Nat /\ \A n \in Nat : n \in shown <=> IF n = h.id THEN h.type = "pending" ELSE n \in view[c]
    BY <1>0, <2>2 DEF Show, Event
  <2>4. ASSUME NEW n \in Nat
        PROVE  /\ Mentions(queue[c], n) <=> Mentions(t, n) \/ h.id = n
               /\ Mentions(t, n) => (Says(queue[c], n) <=> Says(t, n))
               /\ ~Mentions(t, n) /\ h.id = n => (Says(queue[c], n) <=> h.type = "pending")
    BY <1>0, <2>1, TailSays
  <2> HIDE DEF h, t, shown
  <2>5. ~missed[c] => Told(queue[c], DOMAIN pending) /\ Listed(queue[c], view[c], DOMAIN pending)
    BY <2>1 DEF StreamInv
  <2>6. ~missed[c] => Told(t, DOMAIN pending)
    BY <2>4, <2>5 DEF Told
  <2>7. ~missed[c] => Listed(t, shown, DOMAIN pending)
    BY <2>3, <2>4, <2>5 DEF Told, Listed
  <2>8. StreamsTyped'
    BY <2>1, <2>2, <2>3 DEF StreamInv, StreamsTyped
  <2> QED BY <1>0, <2>1, <2>6, <2>7, <2>8 DEF StreamInv, StreamsTyped
<1>4. CASE Unsubscribe(c)
  <2>1. <<>> \in Seq(Event)
    OBVIOUS
  <2> QED BY <1>0, <1>4, <2>1 DEF Unsubscribe, StreamInv, StreamsTyped
<1> QED BY <1>1, <1>2, <1>3, <1>4

LEMMA StreamInit == Init => StreamInv
<1>1. <<>> \in Seq(Event)
  OBVIOUS
<1> QED BY <1>1 DEF Init, StreamInv, StreamsTyped

LEMMA StreamRestart == Restart => StreamInv'
<1>1. <<>> \in Seq(Event)
  OBVIOUS
<1> QED BY <1>1 DEF Restart, StreamInv, StreamsTyped

LEMMA StreamStutters ==
  ASSUME StreamInv, UNCHANGED <<pending, streams>>
  PROVE  StreamInv'
BY DEF StreamInv, StreamsTyped, streams

LEMMA StreamNext ==
  ASSUME StreamInv, IInv, [Next]_vars
  PROVE  StreamInv'
<1>1. CASE \E r \in Requesters : Decide(r)
  BY <1>1, DecideTells
<1>2. CASE \E n \in Ids, d \in Decisions : Resolve(n, d)
  BY <1>2, TakeTells DEF Resolve, Ids
<1>3. CASE \E r \in Requesters : DecideTimeout(r)
  <2>1. PICK r \in Requesters : DecideTimeout(r)
    BY <1>3
  <2>2. CASE rid[r] \in DOMAIN pending
    BY <2>1, <2>2, TakeTells DEF DecideTimeout, IInv, Typed
  <2>3. CASE rid[r] \notin DOMAIN pending
    BY <2>1, <2>3, StreamStutters DEF DecideTimeout
  <2> QED BY <2>2, <2>3
<1>4. CASE \E c \in Clients : Subscribe(c) \/ ListPending(c) \/ Deliver(c) \/ Unsubscribe(c)
  BY <1>4, ClientTells
<1>5. CASE Restart
  BY <1>5, StreamRestart
<1>6. CASE \/ \E r \in Requesters : DecideReturns(r) \/ BrokerReceives(r) \/ BrokerPersists(r) \/ BrokerTimeout(r)
           \/ \E n \in Ids : ResolvePersist(n) \/ ResolveSend(n)
  BY <1>6, StreamStutters DEF DecideReturns, BrokerReceives, BrokerPersists, BrokerTimeout,
     ResolvePersist, ResolveSend, request
<1>7. CASE runEnds \/ startRun \/ UNCHANGED vars \/ \E r \in Requesters : Miss(r)
  BY <1>7, StreamStutters DEF runEnds, startRun, vars, Miss, request
<1>8. CASE \/ \E g \in grants : Revoke(g.id) \/ Expire(g)
           \/ \E s \in Subjects : RevokeMatching(s)
  BY <1>8, StreamStutters DEF Revoke, Expire, RevokeMatching, request
<1> QED BY <1>1, <1>2, <1>3, <1>4, <1>5, <1>6, <1>7, <1>8 DEF Next, Server

(* serve.go:250-273: whatever is subscribed, listed, published and read in  *)
(* between, a client that no event was dropped for ends up showing exactly  *)
(* the open requests, for any number of requesters, clients and buffers.    *)
THEOREM StreamsConverge == Spec => []StreamConverges
<1>1. ASSUME StreamInv, IInv, NEW c \in Clients, subs[c] = "live", ~missed[c], NEW n \in Ids \cup view[c]
      PROVE  WillShow(c, n) <=> n \in DOMAIN pending
  <2> DEFINE about == {i \in DOMAIN queue[c] : queue[c][i].id = n}
  <2>1. n \in Nat
    BY <1>1 DEF StreamInv, StreamsTyped, Ids
  <2>2. /\ Mentions(queue[c], n) <=> about # {}
        /\ Says(queue[c], n) <=> \E i \in about : queue[c][i].type = "pending" /\ \A j \in about : j <= i
    BY DEF Mentions, Says
  <2>3. /\ Told(queue[c], DOMAIN pending)
        /\ Listed(queue[c], view[c], DOMAIN pending)
    BY <1>1 DEF StreamInv
  <2> QED BY <2>1, <2>2, <2>3 DEF WillShow, Told, Listed
<1>2. StreamInv /\ IInv => StreamConverges
  BY <1>1 DEF StreamConverges
<1>3. Init => StreamInv
  BY StreamInit
<1>4. IInv /\ StreamInv /\ [Next]_vars => StreamInv'
  BY StreamNext
<1> QED BY <1>2, <1>3, <1>4, Invariance, PTL DEF Spec
=============================================================================
