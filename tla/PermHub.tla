------------------------------ MODULE PermHub ------------------------------
(***************************************************************************)
(* serve.go, serve_agent.go: the live permission channel of the control    *)
(* server.  A miss of the caged agent goes through the broker of the       *)
(* grants package to PermHub.Decide, which publishes a pending request and *)
(* waits; an HTTP client decides it, or the time-out does.  The lock h.mu  *)
(* covers exactly one action here wherever the code holds it; what the     *)
(* code does after Unlock is another action.                               *)
(***************************************************************************)
EXTENDS Integers, Sequences, FiniteSets, SequencesExt

CONSTANTS Requesters,    \* concurrent misses of one agent
          Subjects,      \* what is asked for (paths, host names)
          Subject,       \* [Requesters -> Subjects]
          Want,          \* [Requesters -> 1..2], access asked for
          Covers,        \* pairs <<s, t>>: a grant on s covers an access to t
          Decisions,     \* what a client may answer
          Clients,       \* SSE subscribers
          Kept,          \* tables that earlier servers may have left
          Buffer,        \* capacity of a subscriber's channel (16 in the code)
          MaxRuns,       \* bound on agent runs over all servers
          MaxRows        \* bound on the number of rows a broker inserts

ASSUME RequestsAssumption ==
    /\ IsFiniteSet(Requesters)
    /\ Subject \in [Requesters -> Subjects]
    /\ Want \in [Requesters -> Nat \ {0}]
ASSUME DecisionsAssumption ==
    Decisions \subseteq [access : Nat, scope : {"once", "ttl", "permanent"}]
ASSUME KeptAssumption ==
    Kept \subseteq SUBSET [id : Int, subject : Subjects, access : Nat, scope : {"ttl", "permanent"},
                           expires : BOOLEAN, live : BOOLEAN]

VARIABLES run,       \* state of the latest agentRun of this server
          runs,      \* agent runs started so far
          seq,       \* PermHub.seq
          pending,   \* PermHub.pending: id -> requester
          brk, hub,  \* per requester: where Broker.Decide and PermHub.Decide stand
          rid,       \* per requester: id of its request
          chan,      \* per id: the buffered channel
          res,       \* per id: where the winning resolve stands, and its decision
          ans,       \* per requester: what PermHub.Decide returned to the broker
          subs,      \* per client: "off", "subscribed" (not yet listed), "live"
          queue,     \* per client: its channel
          view,      \* per client: ids it shows as open
          missed,    \* per client: an event was dropped
          grants,    \* rows of grants.db
          rows,      \* rows inserted under a random id
          cut        \* observer: subjects revoked, and approved by nobody since

agent == <<run, runs>>
request == <<seq, pending, chan, res, rid>>
waiting == <<brk, hub, ans>>
streams == <<subs, queue, view, missed>>
disk == <<grants, rows>>
vars == <<agent, request, waiting, streams, disk, cut>>

Deny == [access |-> 0, scope |-> "once"]
NoRes == [at |-> "none", by |-> "none", d |-> Deny]
Ids == 1..Cardinality(Requesters)

TypeOK ==
    /\ run \in {"none", "running", "done"} /\ runs \in 0..MaxRuns
    /\ seq \in 0..Cardinality(Requesters)
    /\ \A n \in DOMAIN pending : n \in 1..seq /\ pending[n] \in Requesters
    /\ brk \in [Requesters -> {"idle", "waiting", "persist", "granted", "denied"}]
    /\ hub \in [Requesters -> {"idle", "called", "select", "returned"}]
    /\ rid \in [Requesters -> 0..seq]
    /\ ans \in [Requesters -> Decisions \cup {Deny}]
    /\ subs \in [Clients -> {"off", "subscribed", "live"}]
    /\ \A c \in Clients : Len(queue[c]) <= Buffer
    /\ rows \in 0..MaxRows
-----------------------------------------------------------------------------
(* The grants store. *)
Persists(d) == d.access > 0 /\ d.scope \in {"ttl", "permanent"}

\* INSERT OR REPLACE by id.  `expires': the row has an ExpiresAt other than 0;
\* `live': neither revoked nor past that time (IsActive).
PutRow(id, s, d, expires) ==
    grants' = {g \in grants : g.id # id} \cup
        {[id |-> id, subject |-> s, access |-> d.access, scope |-> d.scope,
          expires |-> expires, live |-> TRUE]}

\* The largest access a live row that covers the subject gives; 0 for none.
Lookup(s) ==
    LET covering == {h \in grants : h.live /\ <<h.subject, s>> \in Covers}
    IN  Max({0} \cup {g.access : g \in covering})

(* Events.  A full channel drops the event rather than block the broker. *)
Full(c) == subs[c] # "off" /\ Len(queue[c]) >= Buffer
broadcast(e) ==
    /\ queue' = [c \in Clients |-> IF subs[c] = "off" \/ Full(c) THEN queue[c] ELSE Append(queue[c], e)]
    /\ missed' = [c \in Clients |-> missed[c] \/ Full(c)]
    /\ UNCHANGED <<subs, view>>

Show(shown, e) == IF e.type = "pending" THEN shown \cup {e.id} ELSE shown \ {e.id}
-----------------------------------------------------------------------------
(* newPermHub, controlServer: what a server process starts with. *)
Init ==
    /\ run = "none" /\ seq = 0 /\ pending = <<>>
    /\ brk = [r \in Requesters |-> "idle"] /\ hub = [r \in Requesters |-> "idle"]
    /\ rid = [r \in Requesters |-> 0] /\ chan = [n \in Ids |-> <<>>] /\ res = [n \in Ids |-> NoRes]
    /\ ans = [r \in Requesters |-> Deny]
    /\ subs = [c \in Clients |-> "off"] /\ queue = [c \in Clients |-> <<>>]
    /\ view = [c \in Clients |-> {}] /\ missed = [c \in Clients |-> FALSE]
    /\ runs = 0 /\ rows = 0 /\ cut = {}
    /\ grants \in Kept

\* The server is stopped and started again, the agent it ran dies with it: only
\* the table survives, and request ids begin again at p1.
Restart ==
    /\ run' = "none" /\ seq' = 0 /\ pending' = <<>>
    /\ brk' = [r \in Requesters |-> "idle"] /\ hub' = [r \in Requesters |-> "idle"]
    /\ rid' = [r \in Requesters |-> 0] /\ chan' = [n \in Ids |-> <<>>] /\ res' = [n \in Ids |-> NoRes]
    /\ ans' = [r \in Requesters |-> Deny]
    /\ subs' = [c \in Clients |-> "off"] /\ queue' = [c \in Clients |-> <<>>]
    /\ view' = [c \in Clients |-> {}] /\ missed' = [c \in Clients |-> FALSE]
    /\ UNCHANGED <<runs, disk, cut>>

startRun ==
    /\ run = "none" /\ runs < MaxRuns
    /\ run' = "running" /\ runs' = runs + 1
    /\ UNCHANGED <<request, waiting, streams, disk, cut>>

\* The goroutine of startRun: the agent process has ended.
runEnds ==
    /\ run = "running" /\ \A r \in Requesters : brk[r] \in {"idle", "granted", "denied"}
    /\ run' = "done"
    /\ UNCHANGED <<runs, request, waiting, streams, disk, cut>>

(* Broker.Decide: the store first, then the approver in a goroutine. *)
Miss(r) ==
    /\ run = "running" /\ brk[r] = "idle"
    /\ \/ /\ Lookup(Subject[r]) >= Want[r]
          /\ brk' = [brk EXCEPT ![r] = "granted"]
          /\ UNCHANGED hub
       \/ /\ Lookup(Subject[r]) < Want[r]
          /\ brk' = [brk EXCEPT ![r] = "waiting"]
          /\ hub' = [hub EXCEPT ![r] = "called"]
    /\ UNCHANGED <<agent, request, ans, streams, disk, cut>>

\* PermHub.Decide up to Unlock.
Decide(r) ==
    /\ hub[r] = "called"
    /\ seq' = seq + 1
    /\ rid' = [rid EXCEPT ![r] = seq + 1]
    /\ pending' = [n \in DOMAIN pending \cup {seq + 1} |-> IF n = seq + 1 THEN r ELSE pending[n]]
    /\ broadcast([type |-> "pending", id |-> seq + 1])
    /\ hub' = [hub EXCEPT ![r] = "select"]
    /\ UNCHANGED <<agent, chan, res, brk, ans, disk, cut>>

\* resolve up to Unlock: whoever deletes the entry has decided.
Take(n) ==
    /\ pending' = [m \in DOMAIN pending \ {n} |-> pending[m]]
    /\ broadcast([type |-> "resolved", id |-> n])

\* POST /api/perms/decide.  An id that is not pending is a 404 and no step.
Resolve(n, d) ==
    /\ n \in DOMAIN pending
    /\ Take(n)
    /\ res' = [res EXCEPT ![n] = [at |-> "taken", by |-> "client", d |-> d]]
    /\ cut' = IF d.access > 0 THEN {s \in cut : <<Subject[pending[n]], s>> \notin Covers} ELSE cut
    /\ UNCHANGED <<agent, seq, rid, chan, waiting, disk>>

\* The rest of resolve: a lasting grant is stored, with no expiry ...
ResolvePersist(n) ==
    /\ res[n].at = "taken"
    /\ IF Persists(res[n].d)
         THEN \E r \in Requesters : rid[r] = n /\ PutRow(n, Subject[r], res[n].d, FALSE)
         ELSE UNCHANGED grants
    /\ res' = [res EXCEPT ![n].at = "stored"]
    /\ UNCHANGED <<agent, seq, pending, rid, chan, waiting, streams, rows, cut>>

\* ... and then the decision is sent; the HTTP client is told "ok".
ResolveSend(n) ==
    /\ res[n].at = "stored" /\ chan[n] = <<>>
    /\ chan' = [chan EXCEPT ![n] = <<res[n].d>>]
    /\ res' = [res EXCEPT ![n].at = "sent"]
    /\ UNCHANGED <<agent, seq, pending, rid, waiting, streams, disk, cut>>

DecideReturns(r) ==
    /\ hub[r] = "select" /\ chan[rid[r]] # <<>>
    /\ ans' = [ans EXCEPT ![r] = Head(chan[rid[r]])]
    /\ chan' = [chan EXCEPT ![rid[r]] = Tail(@)]
    /\ hub' = [hub EXCEPT ![r] = "returned"]
    /\ UNCHANGED <<agent, seq, pending, rid, res, brk, streams, disk, cut>>

\* Mutant: the timer forgets the request without telling the subscribers.
DecideTimeoutSilent(r) ==
    /\ hub[r] = "select"
    /\ pending' = [m \in DOMAIN pending \ {rid[r]} |-> pending[m]]
    /\ ans' = [ans EXCEPT ![r] = Deny]
    /\ hub' = [hub EXCEPT ![r] = "returned"]
    /\ UNCHANGED <<agent, seq, rid, chan, res, brk, streams, disk, cut>>

\* The select takes the timer: resolve is called with a denial, and access 0 is
\* returned whether or not that call came first.
DecideTimeout(r) ==
    /\ hub[r] = "select"
    /\ IF rid[r] \in DOMAIN pending
         THEN /\ Take(rid[r])
              /\ res' = [res EXCEPT ![rid[r]] = [at |-> "sent", by |-> "timer", d |-> Deny]]
              /\ chan' = [chan EXCEPT ![rid[r]] = Append(@, Deny)]
         ELSE UNCHANGED <<pending, res, chan, streams>>
    /\ ans' = [ans EXCEPT ![r] = Deny]
    /\ hub' = [hub EXCEPT ![r] = "returned"]
    /\ UNCHANGED <<agent, seq, rid, brk, disk, cut>>

\* Mutant: the broker gives whatever was granted, enough or not.
BrokerReceivesAny(r) ==
    /\ brk[r] = "waiting" /\ hub[r] = "returned"
    /\ brk' = [brk EXCEPT ![r] = IF ans[r].access = 0 THEN "denied"
                                  ELSE IF Persists(ans[r]) THEN "persist" ELSE "granted"]
    /\ UNCHANGED <<agent, request, hub, ans, streams, disk, cut>>

\* Broker.Decide after the approver's answer.
BrokerReceives(r) ==
    /\ brk[r] = "waiting" /\ hub[r] = "returned"
    /\ brk' = [brk EXCEPT ![r] = IF ans[r].access < Want[r] THEN "denied"
                                  ELSE IF Persists(ans[r]) THEN "persist" ELSE "granted"]
    /\ UNCHANGED <<agent, request, hub, ans, streams, disk, cut>>

\* Mutant: the broker leaves a grant that is stored already alone, and the request with it.
BrokerPersistsOnce(r) ==
    /\ brk[r] = "persist" /\ rows < MaxRows
    /\ Lookup(Subject[r]) < Want[r]
    /\ rows' = rows + 1
    /\ PutRow(-(rows + 1), Subject[r], ans[r], ans[r].scope = "ttl")
    /\ brk' = [brk EXCEPT ![r] = "granted"]
    /\ UNCHANGED <<agent, request, hub, ans, streams, cut>>

\* The broker stores the same grant a second time, under an id of its own.
BrokerPersists(r) ==
    /\ brk[r] = "persist" /\ rows < MaxRows
    /\ rows' = rows + 1
    /\ PutRow(-(rows + 1), Subject[r], ans[r], ans[r].scope = "ttl")
    /\ brk' = [brk EXCEPT ![r] = "granted"]
    /\ UNCHANGED <<agent, request, hub, ans, streams, cut>>

\* The broker's own time-out: its goroutine stays in PermHub.Decide.
BrokerTimeout(r) ==
    /\ brk[r] = "waiting"
    /\ brk' = [brk EXCEPT ![r] = "denied"]
    /\ UNCHANGED <<agent, request, hub, ans, streams, disk, cut>>
-----------------------------------------------------------------------------
(* GET /api/perms/stream: subscribe, list what is pending, then relay. *)
Subscribe(c) ==
    /\ subs[c] = "off"
    /\ subs' = [subs EXCEPT ![c] = "subscribed"]
    /\ UNCHANGED <<agent, request, waiting, queue, view, missed, disk, cut>>

ListPending(c) ==
    /\ subs[c] = "subscribed"
    /\ view' = [view EXCEPT ![c] = DOMAIN pending]
    /\ subs' = [subs EXCEPT ![c] = "live"]
    /\ UNCHANGED <<agent, request, waiting, queue, missed, disk, cut>>

Deliver(c) ==
    /\ subs[c] = "live" /\ queue[c] # <<>>
    /\ view' = [view EXCEPT ![c] = Show(@, Head(queue[c]))]
    /\ queue' = [queue EXCEPT ![c] = Tail(@)]
    /\ UNCHANGED <<agent, request, waiting, subs, missed, disk, cut>>

Unsubscribe(c) ==
    /\ subs[c] = "live"
    /\ subs' = [subs EXCEPT ![c] = "off"] /\ queue' = [queue EXCEPT ![c] = <<>>]
    /\ view' = [view EXCEPT ![c] = {}] /\ missed' = [missed EXCEPT ![c] = FALSE]
    /\ UNCHANGED <<agent, request, waiting, disk, cut>>

(* POST /api/perms/revoke, by id or by subject, in both directions. *)
Revoke(id) ==
    /\ \E g \in grants : g.id = id /\ g.live
    /\ grants' = {[g EXCEPT !.live = @ /\ g.id # id] : g \in grants}
    /\ UNCHANGED <<agent, request, waiting, streams, rows, cut>>

\* An approval that covers s was given and has not reached the table twice yet.
InFlight(s) ==
    \E r \in Requesters :
        /\ <<Subject[r], s>> \in Covers /\ rid[r] # 0 /\ res[rid[r]].by = "client"
        /\ res[rid[r]].at = "taken" \/ brk[r] \in {"waiting", "persist"}

\* Mutant: a revocation reaches the grants below the subject but not those above it.
TouchesBelow(g, s) == g.live /\ <<s, g.subject>> \in Covers

Touches(g, s) == g.live /\ (<<g.subject, s>> \in Covers \/ <<s, g.subject>> \in Covers)
RevokeMatching(s) ==
    /\ \E g \in grants : Touches(g, s)
    /\ grants' = {[g EXCEPT !.live = @ /\ ~Touches(g, s)] : g \in grants}
    /\ cut' = IF InFlight(s) THEN cut ELSE cut \cup {s}
    /\ UNCHANGED <<agent, request, waiting, streams, rows>>

\* The clock passes the ExpiresAt of a row.
Expire(g) ==
    /\ g.live /\ g.expires
    /\ grants' = (grants \ {g}) \cup {[g EXCEPT !.live = FALSE]}
    /\ UNCHANGED <<agent, request, waiting, streams, rows, cut>>

\* What goroutines, timers and handlers do once they can.
Server ==
    \/ \E r \in Requesters :
         Decide(r) \/ DecideReturns(r) \/ DecideTimeout(r)
           \/ BrokerReceives(r) \/ BrokerPersists(r) \/ BrokerTimeout(r)
    \/ \E n \in Ids : ResolvePersist(n) \/ ResolveSend(n)
    \/ runEnds

Next ==
    \/ Server \/ startRun \/ Restart
    \/ \E r \in Requesters : Miss(r)
    \/ \E n \in Ids, d \in Decisions : Resolve(n, d)
    \/ \E c \in Clients : Subscribe(c) \/ ListPending(c) \/ Deliver(c) \/ Unsubscribe(c)
    \/ \E g \in grants : Revoke(g.id) \/ Expire(g)
    \/ \E s \in Subjects : RevokeMatching(s)

Spec == Init /\ [][Next]_vars

\* Timers fire, and goroutines and handlers that can go on do: one of them,
\* which is enough here.  Nothing is assumed of the clients, of the clock or of
\* the agent.
FairSpec == Spec /\ WF_vars(Server)
-----------------------------------------------------------------------------
(* Properties. *)

\* serve.go:71-89, grants.go Broker.Decide: an access that a requester waited
\* for was granted by a client, for that very request and at least as high as
\* asked; a time-out on either side, or a race with it, grants nothing.
FailsClosed ==
    [][\A r \in Requesters :
         brk[r] = "waiting" /\ brk'[r] \in {"persist", "granted"} =>
             res[rid[r]].by = "client" /\ res[rid[r]].d.access >= Want[r]]_vars

\* serve.go:250-273: a subscriber that no event was dropped for ends up showing
\* exactly the open requests, once it has read its channel.
WillShow(c, n) ==
    LET about == {i \in DOMAIN queue[c] : queue[c][i].id = n}
    IN  IF about = {} THEN n \in view[c]
        ELSE \E i \in about : queue[c][i].type = "pending" /\ \A j \in about : j <= i
StreamConverges ==
    \A c \in Clients : subs[c] = "live" /\ ~missed[c] =>
        \A n \in Ids \cup view[c] : WillShow(c, n) <=> n \in DOMAIN pending

\* serve.go:305-323: when no approval is on its way, revoking a subject removes
\* all access to it, through both rows an approval leaves, until a client
\* approves again; restarts of the server included.
RevokeHolds == \A s \in cut : Lookup(s) = 0

\* serve.go:72-89, serve_agent.go:52-68: no request stays open for ever: an
\* agent that waits for nothing but permissions finishes, whether or not
\* anybody listens or answers.
RequestsEnd == run = "running" ~> run # "running"

=============================================================================
