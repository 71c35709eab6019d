--------------------------- MODULE KnowledgeSync ---------------------------
(***************************************************************************)
(* Knowledge of several machines (serve_knowledge.go, projx-store's        *)
(* merge.go).  The engine of each machine exports what its store holds and *)
(* merges what is posted to it; the Workbench carries exports from one to  *)
(* the other and promises nothing: they arrive late, twice, out of order   *)
(* or never.  A merge request reads the whole store, computes the merged   *)
(* set by last-write-wins and puts every record of it, one after the       *)
(* other, while commands and other requests write the same store.          *)
(*                                                                         *)
(* A record is a version: a text and the stamp it was written with.        *)
(***************************************************************************)
EXTENDS Naturals, FiniteSets

CONSTANTS
  Machines, Bodies,
  Ids,        \* numbers: a merged set is put in the order of its ids
  Requests,   \* merge requests under way together
  Stamps,     \* what the clocks of the machines show
  MaxWrites, MaxSent,   \* bounds: commands, exports
  MaxMerges, MaxFaults  \* bounds: merge requests, kills and failing writes

(* A stamp of 0 means there is none; Put never stores it. *)
StampsAssumption == Stamps \subseteq Nat \ {0}

VARIABLES
  store,    \* per machine and id: a version, or None
  sent,     \* the exports that were ever made
  request,  \* per request: [machine, base, posted, left]
  seen,     \* history: per machine and id, the versions it was given
  review,   \* history: per machine, the ids a report left to a human
  spoiled,  \* history: per machine, the ids that somebody took back or raced
  writes, merges, faults

vars == <<store, sent, request, seen, review, spoiled, writes, merges, faults>>

None == [body |-> "none", at |-> 0]
Version == [body : Bodies, at : Stamps]
Nothing == [i \in Ids |-> None]
NoWork == [machine |-> "none", base |-> Nothing, posted |-> Nothing, left |-> {}]

Init ==
  /\ store = [m \in Machines |-> Nothing]
  /\ sent = {} /\ request = [r \in Requests |-> NoWork]
  /\ seen = [m \in Machines |-> [i \in Ids |-> {}]]
  /\ review = [m \in Machines |-> {}] /\ spoiled = [m \in Machines |-> {}]
  /\ writes = 0 /\ merges = 0 /\ faults = 0

(* What is posted always wins. *)
MergedTakesPosted(b, new) == IF new = None THEN b ELSE new

(* Merge, for one id: an unknown record is added, the newer of two is      *)
(* taken, a tie keeps the base and, when the texts differ, asks a human.   *)
Merged(b, new) ==
  IF new = None THEN b
  ELSE IF b = None THEN new
  ELSE IF new.at > b.at THEN new ELSE b
NeedsReview(b, new) == b # None /\ new # None /\ new.at = b.at /\ new.body # b.body

(* `store commit': the record is built without a stamp, so Put stamps it.  *)
(* The clocks of two machines differ: one that is behind makes the commit  *)
(* older than what was merged in.                                          *)
Commit(m, i, b, t) ==
  /\ writes < MaxWrites
  /\ writes' = writes + 1
  /\ LET v == [body |-> b, at |-> t]
     IN /\ store' = [store EXCEPT ![m][i] = v]
        /\ seen' = [seen EXCEPT ![m][i] = @ \cup {v}]
        /\ spoiled' = [spoiled EXCEPT ![m] = @ \cup {j \in {i} : v.at <= store[m][i].at}]
  /\ UNCHANGED <<sent, request, review, merges, faults>>
(* `store rm', and an undo that puts an earlier version with its old stamp: *)
(* an export that still has the later one brings it back.                  *)
TakeBack(m, i, v) ==
  /\ store[m][i] # v /\ writes < MaxWrites
  /\ writes' = writes + 1
  /\ store' = [store EXCEPT ![m][i] = v]
  /\ spoiled' = [spoiled EXCEPT ![m] = @ \cup {i}]
  /\ UNCHANGED <<sent, request, seen, review, merges, faults>>

(* GET /api/knowledge/export *)
Export(m) ==
  /\ store[m] # Nothing /\ Cardinality(sent) < MaxSent
  /\ sent' = sent \cup {store[m]}
  /\ UNCHANGED <<store, request, seen, review, spoiled, writes, merges, faults>>

(* POST /api/knowledge/merge: ListAll, then Merge, which touches no store. *)
Post(r, m, posted) ==
  /\ request[r] = NoWork /\ merges < MaxMerges
  /\ merges' = merges + 1
  /\ request' = [request EXCEPT ![r] =
       [machine |-> m, base |-> store[m], posted |-> posted,
        left |-> {i \in Ids : store[m][i] # None \/ posted[i] # None}]]
  /\ UNCHANGED <<store, sent, seen, review, spoiled, writes, faults>>
(* The loop over res.Merged: what was not changed is put again as well; a  *)
(* put that fails is not counted, and the loop goes on.                    *)
IsNext(r, i) == i \in request[r].left /\ \A j \in request[r].left : i <= j
Advance(r, i) ==
  request' = IF request[r].left = {i} THEN [request EXCEPT ![r] = NoWork]
             ELSE [request EXCEPT ![r].left = @ \ {i}]
PutMerged(m, i, b, new) ==
  /\ store' = [store EXCEPT ![m][i] = Merged(b, new)]
  /\ seen' = [seen EXCEPT ![m][i] = @ \cup ({new} \ {None})]
  /\ review' = [review EXCEPT ![m] = @ \cup {j \in {i} : NeedsReview(b, new)}]
  /\ spoiled' = [spoiled EXCEPT ![m] = @ \cup {j \in {i} : store[m][i] # b}]
PutOne(r, i) ==
  /\ IsNext(r, i)
  /\ PutMerged(request[r].machine, i, request[r].base[i], request[r].posted[i])
  /\ Advance(r, i)
  /\ UNCHANGED <<sent, writes, merges, faults>>
PutFails(r, i) ==
  /\ IsNext(r, i) /\ faults < MaxFaults
  /\ faults' = faults + 1
  /\ Advance(r, i)
  /\ UNCHANGED <<store, sent, seen, review, spoiled, writes, merges>>
(* The server of a machine is killed, with every request it serves. *)
Killed(m) ==
  /\ faults < MaxFaults /\ \E r \in Requests : request[r].machine = m
  /\ faults' = faults + 1
  /\ request' = [r \in Requests |-> IF request[r].machine = m THEN NoWork ELSE request[r]]
  /\ UNCHANGED <<store, sent, seen, review, spoiled, writes, merges>>

Next ==
  \/ \E m \in Machines :
       \/ \E i \in Ids, b \in Bodies, t \in Stamps : Commit(m, i, b, t)
       \/ \E i \in Ids : \E v \in seen[m][i] \cup {None} : TakeBack(m, i, v)
       \/ Export(m) \/ Killed(m)
       \/ \E r \in Requests, s \in sent : Post(r, m, s)
  \/ \E r \in Requests, i \in Ids : PutOne(r, i) \/ PutFails(r, i)
Spec == Init /\ [][Next]_vars
-----------------------------------------------------------------------------
(* Stores and exports hold versions; a request under way has its machine,  *)
(* the list it read and what was posted to it.                             *)
TypeOK ==
  /\ store \in [Machines -> [Ids -> Version \cup {None}]]
  /\ sent \subseteq [Ids -> Version \cup {None}]
  /\ request \in [Requests -> [machine : Machines \cup {"none"}, left : SUBSET Ids,
                               base : [Ids -> Version \cup {None}],
                               posted : [Ids -> Version \cup {None}]]]
  /\ \A r \in Requests : request[r].left # {} => request[r].machine \in Machines
  /\ seen \in [Machines -> [Ids -> SUBSET Version]]
  /\ review \in [Machines -> SUBSET Ids]
  /\ spoiled \in [Machines -> SUBSET Ids]

(* serve_knowledge.go:3-8, merge.go:56-63: a machine holds the newest      *)
(* version it was given, in whatever order and however often exports come, *)
(* whichever puts fail and whoever is killed, and if it was given two that *)
(* are equally new a report has said so; so machines that were given the   *)
(* same versions agree or were told.  Excepted are records that somebody   *)
(* took back, wrote with a clock that is behind, or changed between a      *)
(* request's reading and its put.                                          *)
NewestIsKept ==
  \A m \in Machines : \A i \in Ids \ spoiled[m] :
    \A v \in seen[m][i] :
      /\ v.at <= store[m][i].at
      /\ v.at = store[m][i].at /\ v # store[m][i] => i \in review[m]
=============================================================================
