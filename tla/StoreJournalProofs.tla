------------------------- MODULE StoreJournalProofs -------------------------
(***************************************************************************)
(* Proofs about StoreJournal, for any records, processes, commands and     *)
(* bounds: type correctness, and that agent knowledge stays a candidate.   *)
(*                                                                         *)
(* Neither is inductive alone.  What undo writes back is read from the     *)
(* journal and what a command writes was computed when it began, so the    *)
(* invariant says of all three places, files, journal and running          *)
(* commands, that they hold good records; that the revision of a move has  *)
(* both a before and an after (its inverse reads both); and that a command *)
(* that is writing has something left to write.                            *)
(***************************************************************************)
EXTENDS StoreJournal, FiniteSetTheorems, SequenceTheorems, TLAPS

Shaped(r) == r.op = "move" => r.before # NoRec /\ r.after # NoRec

GoodRec(rec) == rec \in Record \cup {NoRec} /\ Candidate(rec)
GoodRev(r) == r \in Revision /\ GoodRec(r.before) /\ GoodRec(r.after) /\ Shaped(r)
GoodWrites(ws) == ws \in Seq(Write) /\ \A i \in DOMAIN ws : GoodRec(ws[i].rec)

GoodDb == db \in Database /\ \A l \in Level, id \in Ids : GoodRec(db[l][id])
GoodJournal == journal \in Seq(Revision) /\ \A i \in DOMAIN journal : GoodRev(journal[i])
GoodWork ==
  /\ pc \in [Procs -> {"idle", "write", "note", "append"}]
  /\ work = [p \in Procs |-> work[p]]
  /\ \A p \in Procs :
       IF pc[p] = "idle" THEN work[p] = Idle
       ELSE /\ work[p] \in Working
            /\ GoodRev(work[p].rev)
            /\ GoodWrites(work[p].todo)
            /\ pc[p] = "write" => work[p].todo # <<>>
GoodBounds == crashes \in 0..MaxCrashes /\ faults \in 0..MaxFaults

IInv == GoodDb /\ GoodJournal /\ GoodWork /\ GoodBounds

-----------------------------------------------------------------------------
(* The writes of the operations.                                           *)

LEMMA RecordFields ==
  ASSUME NEW rec \in Record
  PROVE  /\ rec.scope \in Scope /\ rec.body \in Bodies
         /\ rec.status \in Status /\ rec.prov \in Provenance
         /\ rec # NoRec
  BY NoRecAssumption DEF Record

LEMMA OwningLevel ==
  ASSUME NEW s \in Scope
  PROVE  owning(s) \in Level
  BY DEF owning, Scope, Level

LEMMA OneWrite ==
  ASSUME NEW l \in Level, NEW rec, GoodRec(rec)
  PROVE  GoodWrites(<<[level |-> l, rec |-> rec]>>)
<1>1. [level |-> l, rec |-> rec] \in Write
  BY DEF GoodRec, Write
<1> QED BY <1>1 DEF GoodWrites

LEMMA PutGood ==
  ASSUME NEW rec \in Record, Candidate(rec)
  PROVE  GoodWrites(Put(rec)) /\ Put(rec) # <<>>
<1>1. owning(rec.scope) \in Level /\ GoodRec(rec)
  BY RecordFields, OwningLevel DEF GoodRec
<1> QED BY <1>1, OneWrite DEF Put

LEMMA NoRecGood == GoodRec(NoRec)
  BY DEF GoodRec, Candidate

LEMMA DeleteGood == GoodWrites(Delete) /\ Delete # <<>>
<1>1. present \in Seq(Level) /\ present # <<>>
  <2>1. {"project", "workspace", "global"} \subseteq Level
    BY DEF Level
  <2>2. CASE HasSpace
    BY <2>1, <2>2 DEF present
  <2>3. CASE ~HasSpace
    BY <2>1, <2>3 DEF present
  <2> QED BY <2>2, <2>3
<1>2. /\ DOMAIN Delete = 1..Len(present)
      /\ \A i \in 1..Len(present) : Delete[i] = [level |-> present[i], rec |-> NoRec]
  BY <1>1 DEF Delete
<1>3. \A i \in 1..Len(present) : present[i] \in Level
  BY <1>1
<1>4. \A i \in 1..Len(present) : Delete[i] \in Write /\ Delete[i].rec = NoRec
  BY <1>2, <1>3 DEF Write
<1>5. Delete \in [1..Len(present) -> Write]
  BY <1>2, <1>4 DEF Delete
<1>6. Len(present) \in Nat /\ Len(present) # 0
  BY <1>1
<1>7. Delete \in Seq(Write) /\ Len(Delete) = Len(present)
  BY <1>5, <1>6
<1> QED BY <1>2, <1>4, <1>6, <1>7, NoRecGood DEF GoodWrites

LEMMA ConcatGood ==
  ASSUME NEW a, NEW b, GoodWrites(a), GoodWrites(b)
  PROVE  GoodWrites(a \o b) /\ (a # <<>> => a \o b # <<>>)
<1>1. a \in Seq(Write) /\ b \in Seq(Write)
  BY DEF GoodWrites
<1>2. a \o b \in Seq(Write) /\ Len(a \o b) = Len(a) + Len(b)
  BY <1>1
<1>3. ASSUME NEW i \in DOMAIN (a \o b) PROVE GoodRec((a \o b)[i].rec)
  <2>1. CASE i <= Len(a)
    <3>1. i \in DOMAIN a /\ (a \o b)[i] = a[i]
      BY <1>1, <1>2, <2>1
    <3> QED BY <3>1 DEF GoodWrites
  <2>2. CASE i > Len(a)
    <3>1. i - Len(a) \in DOMAIN b /\ (a \o b)[i] = b[i - Len(a)]
      BY <1>1, <1>2, <2>2
    <3> QED BY <3>1 DEF GoodWrites
  <2> QED BY <1>1, <1>2, <2>1, <2>2
<1>4. a # <<>> => a \o b # <<>>
  BY <1>1, <1>2
<1> QED BY <1>2, <1>3, <1>4 DEF GoodWrites

LEMMA EmptyGood == GoodWrites(<<>>)
  BY DEF GoodWrites

LEMMA GetGood ==
  ASSUME GoodDb, NEW id \in Ids
  PROVE  GoodRec(Get(db, id))
  BY DEF GoodDb, Get, Level

(* A revision composed of good parts is good, with the length as number. *)
LEMMA RevGood ==
  ASSUME GoodJournal, NEW op \in Op, NEW id \in Ids, NEW by \in Provenance,
         NEW ref \in Nat, NEW before, GoodRec(before), NEW after, GoodRec(after),
         op = "move" => before # NoRec /\ after # NoRec
  PROVE  GoodRev(Rev(op, id, by, ref, before, after))
<1>1. Len(journal) + 1 \in Nat
  BY DEF GoodJournal
<1>2. Rev(op, id, by, ref, before, after) \in Revision
  BY <1>1 DEF Rev, Revision, GoodRec
<1> QED BY <1>2 DEF GoodRev, Rev, Shaped

-----------------------------------------------------------------------------
(* The command of a process changes; the others keep theirs. *)
LEMMA WorkKept ==
  ASSUME IInv, NEW p \in Procs, NEW here \in {"idle", "write", "note", "append"}, NEW w,
         pc' = [pc EXCEPT ![p] = here], work' = [work EXCEPT ![p] = w],
         here = "idle" => w = Idle,
         here # "idle" => w \in Working /\ GoodRev(w.rev) /\ GoodWrites(w.todo),
         here = "write" => w.todo # <<>>
  PROVE  GoodWork'
<1>1. /\ pc' \in [Procs -> {"idle", "write", "note", "append"}]
      /\ work' = [q \in Procs |-> work'[q]]
  BY DEF IInv, GoodWork
<1>2. ASSUME NEW q \in Procs
      PROVE  IF pc'[q] = "idle" THEN work'[q] = Idle
             ELSE /\ work'[q] \in Working
                  /\ GoodRev(work'[q].rev)
                  /\ GoodWrites(work'[q].todo)
                  /\ pc'[q] = "write" => work'[q].todo # <<>>
  <2>1. CASE q = p
    BY <2>1 DEF IInv, GoodWork
  <2>2. CASE q # p
    <3>1. pc'[q] = pc[q] /\ work'[q] = work[q]
      BY <2>2 DEF IInv, GoodWork
    <3> QED BY <3>1 DEF IInv, GoodWork
  <2> QED BY <2>1, <2>2
<1> QED BY <1>1, <1>2 DEF GoodWork, GoodRev, GoodRec, GoodWrites, Candidate, Shaped

LEMMA BeginKeeps ==
  ASSUME IInv, NEW p \in Procs, NEW command, NEW rev, GoodRev(rev), NEW of \in Op,
         NEW writes, GoodWrites(writes), Begin(p, command, rev, of, writes)
  PROVE  IInv'
<1> DEFINE w == [rev |-> rev, of |-> of, todo |-> writes]
           here == IF writes = <<>> THEN "note" ELSE "write"
<1>1. w \in Working /\ w.rev = rev /\ w.todo = writes
  BY DEF Working, GoodRev, GoodWrites
<1>2. pc' = [pc EXCEPT ![p] = here] /\ work' = [work EXCEPT ![p] = w]
  BY DEF Begin
<1>3. here \in {"note", "write"} /\ (here = "write" => writes # <<>>)
  OBVIOUS
<1> HIDE DEF w, here
<1>4. GoodWork'
  BY <1>1, <1>2, <1>3, WorkKept
<1>5. UNCHANGED <<db, journal, crashes, faults>>
  BY DEF Begin
<1>6. GoodDb' /\ GoodJournal' /\ GoodBounds'
  BY <1>5 DEF IInv, GoodDb, GoodJournal, GoodBounds
<1> QED BY <1>4, <1>6 DEF IInv

(* The process is idle again and has written nothing. *)
LEMMA DoneKeeps ==
  ASSUME IInv, NEW p \in Procs, Done(p)
  PROVE  GoodWork'
<1>1. pc' = [pc EXCEPT ![p] = "idle"] /\ work' = [work EXCEPT ![p] = Idle]
  BY DEF Done
<1> QED BY <1>1, WorkKept

-----------------------------------------------------------------------------
(* Every command starts with a good revision and good writes.              *)

LEMMA CommitKeeps ==
  ASSUME IInv, NEW p \in Procs, storeCommit(p)
  PROVE  IInv'
<1> PICK by \in Actors, id \in Ids, body \in Bodies, scope \in CommitScopes, flag \in StatusFlags :
      LET before == Get(db, id)
          rec == [scope |-> scope, body |-> body, prov |-> by,
                  status |-> CommitStatus(by, before, flag)]
      IN /\ by = "agent" => AgentMay(before, rec)
         /\ Begin(p, "commit", Rev("put", id, by, 0, before, rec), "put", Put(rec))
  BY DEF storeCommit
<1> DEFINE before == Get(db, id)
           rec == [scope |-> scope, body |-> body, prov |-> by,
                   status |-> CommitStatus(by, before, flag)]
<1>1. GoodRec(before)
  BY GetGood DEF IInv
<1>2. by \in Provenance /\ scope \in Scope
  BY ActorsAssumption, ScopesAssumption
<1>3. CommitStatus(by, before, flag) \in Status
  BY <1>1, FlagsAssumption, RecordFields DEF CommitStatus, GoodRec, Status
<1>4. rec \in Record
  BY <1>2, <1>3 DEF Record
<1>5. Candidate(rec)
  BY DEF Candidate, AgentMay
<1>6. GoodRev(Rev("put", id, by, 0, before, rec))
  <2>1. GoodRec(rec)
    BY <1>4, <1>5 DEF GoodRec
  <2> HIDE DEF before, rec
  <2> QED BY <1>1, <1>2, <2>1, RevGood DEF IInv, Op
<1>7. GoodWrites(Put(rec))
  BY <1>4, <1>5, PutGood
<1>8. Begin(p, "commit", Rev("put", id, by, 0, before, rec), "put", Put(rec))
  OBVIOUS
<1> HIDE DEF before, rec
<1> QED BY <1>6, <1>7, <1>8, BeginKeeps DEF Op

LEMMA RmKeeps ==
  ASSUME IInv, NEW p \in Procs, storeRm(p)
  PROVE  IInv'
<1> PICK id \in Ids :
      Begin(p, "rm", Rev("delete", id, "human", 0, Get(db, id), NoRec), "delete", Delete)
  BY DEF storeRm
<1>1. GoodRev(Rev("delete", id, "human", 0, Get(db, id), NoRec))
  BY GetGood, NoRecGood, RevGood DEF IInv, Op, Provenance
<1> QED BY <1>1, DeleteGood, BeginKeeps DEF Op

LEMMA MoveKeeps ==
  ASSUME IInv, NEW p \in Procs, storeMove(p)
  PROVE  IInv'
<1> PICK id \in Ids, to \in Scope :
      LET cur == Get(db, id)
          moved == [cur EXCEPT !.scope = to]
      IN /\ cur # NoRec
         /\ Begin(p, "move", MoveRev(cur, moved, id), "move", MoveWrites(cur, moved))
  BY DEF storeMove
<1> DEFINE cur == Get(db, id)
           moved == [cur EXCEPT !.scope = to]
<1>1. GoodRec(cur) /\ cur # NoRec
  BY GetGood DEF IInv
<1>2. cur \in Record /\ Candidate(cur)
  BY <1>1 DEF GoodRec
<1>3. moved \in Record /\ moved.prov = cur.prov /\ moved.status = cur.status
  BY <1>2 DEF Record
<1>4. Candidate(moved) /\ moved # NoRec
  BY <1>2, <1>3, RecordFields DEF Candidate
<1>5. Begin(p, "move", MoveRev(cur, moved, id), "move", MoveWrites(cur, moved))
  OBVIOUS
<1> HIDE DEF cur, moved
<1>6. GoodRev(MoveRev(cur, moved, id))
  <2>1. GoodRec(moved)
    BY <1>3, <1>4 DEF GoodRec
  <2> QED BY <1>1, <1>4, <2>1, RevGood DEF IInv, MoveRev, Op, Provenance
<1>7. GoodWrites(MoveWrites(cur, moved))
  <2>1. GoodWrites(Put(moved))
    BY <1>3, <1>4, PutGood
  <2>2. GoodWrites(<<[level |-> owning(cur.scope), rec |-> NoRec]>>)
    BY <1>2, RecordFields, OwningLevel, NoRecGood, OneWrite
  <2> QED BY <2>1, <2>2, EmptyGood, ConcatGood DEF MoveWrites
<1> QED BY <1>5, <1>6, <1>7, BeginKeeps DEF Op

(* What a revision of the journal is made of. *)
LEMMA JournalRev ==
  ASSUME IInv, NEW i \in DOMAIN journal
  PROVE  /\ GoodRev(journal[i])
         /\ journal[i].seq \in Nat /\ journal[i].id \in Ids /\ journal[i].op \in Op
         /\ journal[i].before # NoRec =>
              journal[i].before \in Record /\ Candidate(journal[i].before)
         /\ journal[i].after # NoRec =>
              journal[i].after \in Record /\ Candidate(journal[i].after)
  BY DEF IInv, GoodJournal, GoodRev, GoodRec, Revision

LEMMA RestoreGood ==
  ASSUME IInv, NEW i \in DOMAIN journal
  PROVE  GoodWrites(Restore(journal[i]))
<1> DEFINE r == journal[i]
<1>1. /\ r.op \in Op /\ Shaped(r)
      /\ r.before # NoRec => r.before \in Record /\ Candidate(r.before)
      /\ r.after # NoRec => r.after \in Record
  BY JournalRev DEF GoodRev
<1> SUFFICES GoodWrites(Restore(r))
  OBVIOUS
<1> HIDE DEF r
<1>2. CASE r.op = "put"
  <2>1. Restore(r) = IF r.before = NoRec THEN Delete ELSE Put(r.before)
    BY <1>2 DEF Restore
  <2> QED BY <1>1, <2>1, PutGood, DeleteGood
<1>3. CASE r.op = "delete"
  <2>1. Restore(r) = IF r.before = NoRec THEN <<>> ELSE Put(r.before)
    BY <1>3 DEF Restore
  <2> QED BY <1>1, <2>1, PutGood, EmptyGood
<1>4. CASE r.op = "move"
  <2>1. r.before \in Record /\ Candidate(r.before) /\ r.after \in Record
    BY <1>1, <1>4 DEF Shaped
  <2>2. GoodWrites(<<[level |-> owning(r.after.scope), rec |-> NoRec]>>)
    BY <2>1, RecordFields, OwningLevel, NoRecGood, OneWrite
  <2>3. GoodWrites(Put(r.before))
    BY <2>1, PutGood
  <2>4. GoodWrites(<<[level |-> owning(r.after.scope), rec |-> NoRec]>> \o Put(r.before))
    BY <2>2, <2>3, ConcatGood
  <2>5. Restore(r) = <<[level |-> owning(r.after.scope), rec |-> NoRec]>> \o Put(r.before)
    BY <1>4 DEF Restore
  <2> QED BY <2>4, <2>5
<1>5. CASE r.op \notin {"put", "delete", "move"}
  <2>1. Restore(r) = <<>>
    BY <1>5 DEF Restore
  <2> QED BY <2>1, EmptyGood
<1> QED BY <1>2, <1>3, <1>4, <1>5

LEMMA UndoKeeps ==
  ASSUME IInv, NEW p \in Procs, undoLastStore(p)
  PROVE  IInv'
<1> PICK i \in DOMAIN journal :
      Begin(p, "undo", Rev("undo", journal[i].id, "human", journal[i].seq, NoRec, NoRec),
            journal[i].op, Restore(journal[i]))
  BY DEF undoLastStore
<1>1. GoodRev(Rev("undo", journal[i].id, "human", journal[i].seq, NoRec, NoRec))
  BY JournalRev, NoRecGood, RevGood DEF IInv, Op, Provenance
<1> QED BY <1>1, JournalRev, RestoreGood, BeginKeeps

LEMMA RevertKeeps ==
  ASSUME IInv, NEW p \in Procs, revertRevision(p)
  PROVE  IInv'
<1> PICK i \in DOMAIN journal :
      Begin(p, "revert", Rev("revert", journal[i].id, "human", journal[i].seq,
                             Get(db, journal[i].id), NoRec),
            journal[i].op, RevertWrites(journal[i]))
  BY DEF revertRevision
<1>1. GoodRec(Get(db, journal[i].id))
  BY JournalRev, GetGood DEF IInv
<1>2. GoodRev(Rev("revert", journal[i].id, "human", journal[i].seq, Get(db, journal[i].id), NoRec))
  BY <1>1, JournalRev, NoRecGood, RevGood DEF IInv, Op, Provenance
<1>3. GoodWrites(RevertWrites(journal[i]))
  BY JournalRev, PutGood, DeleteGood DEF RevertWrites
<1> QED BY <1>2, <1>3, JournalRev, BeginKeeps

LEMMA CherryPickKeeps ==
  ASSUME IInv, NEW p \in Procs, cherryPickRevision(p)
  PROVE  IInv'
<1> PICK i \in DOMAIN journal :
      /\ journal[i].op = "put" => journal[i].after # NoRec
      /\ Begin(p, "cherry-pick", Rev("cherry-pick", journal[i].id, "human", journal[i].seq,
                                     Get(db, journal[i].id), NoRec),
               journal[i].op,
               IF journal[i].op = "put" THEN Put(journal[i].after) ELSE Delete)
  BY DEF cherryPickRevision
<1>1. GoodRec(Get(db, journal[i].id))
  BY JournalRev, GetGood DEF IInv
<1>2. GoodRev(Rev("cherry-pick", journal[i].id, "human", journal[i].seq, Get(db, journal[i].id), NoRec))
  BY <1>1, JournalRev, NoRecGood, RevGood DEF IInv, Op, Provenance
<1>3. GoodWrites(IF journal[i].op = "put" THEN Put(journal[i].after) ELSE Delete)
  BY JournalRev, PutGood, DeleteGood
<1> QED BY <1>2, <1>3, JournalRev, BeginKeeps

-----------------------------------------------------------------------------
(* Carrying a command out.                                                 *)

(* The command of a process that is not idle. *)
LEMMA BusyWork ==
  ASSUME IInv, NEW p \in Procs, pc[p] # "idle"
  PROVE  /\ work[p] \in Working /\ GoodRev(work[p].rev) /\ GoodWrites(work[p].todo)
         /\ work[p].rev.id \in Ids /\ work[p].of \in Op
         /\ pc[p] = "write" => work[p].todo # <<>>
  BY DEF IInv, GoodWork, Working, Revision

LEMMA TailGood ==
  ASSUME NEW ws, GoodWrites(ws), ws # <<>>
  PROVE  /\ GoodWrites(Tail(ws)) /\ Head(ws) \in Write /\ GoodRec(Head(ws).rec)
         /\ Len(ws) # 1 => Tail(ws) # <<>>
<1>1. ws \in Seq(Write) /\ Len(ws) \in Nat /\ Len(ws) # 0
  BY DEF GoodWrites
<1>2. /\ Tail(ws) \in Seq(Write) /\ Len(Tail(ws)) = Len(ws) - 1
      /\ \A i \in DOMAIN Tail(ws) : i + 1 \in DOMAIN ws /\ Tail(ws)[i] = ws[i + 1]
  BY <1>1
<1>3. Head(ws) = ws[1] /\ 1 \in DOMAIN ws /\ ws[1] \in Write
  BY <1>1
<1> QED BY <1>1, <1>2, <1>3 DEF GoodWrites

(* The command with another todo. *)
LEMMA WithTodo ==
  ASSUME NEW w \in Working, GoodRev(w.rev), NEW ws, GoodWrites(ws)
  PROVE  /\ [w EXCEPT !.todo = ws] \in Working
         /\ GoodRev([w EXCEPT !.todo = ws].rev)
         /\ [w EXCEPT !.todo = ws].todo = ws
  BY DEF Working, GoodWrites

LEMMA WriteKeeps ==
  ASSUME IInv, NEW p \in Procs, WriteStep(p)
  PROVE  IInv'
<1> DEFINE w == work[p]
<1>1. /\ pc[p] = "write" /\ db' = Written(db, w.rev.id, Head(w.todo))
      /\ work' = [work EXCEPT ![p] = [w EXCEPT !.todo = Tail(w.todo)]]
      /\ pc' = [pc EXCEPT ![p] = IF Len(w.todo) = 1 THEN "note" ELSE "write"]
      /\ UNCHANGED <<journal, crashes, faults>>
  BY DEF WriteStep
<1>2. /\ w \in Working /\ GoodRev(w.rev) /\ GoodWrites(w.todo)
      /\ w.rev.id \in Ids /\ w.todo # <<>>
  BY <1>1, BusyWork
<1>3. /\ GoodWrites(Tail(w.todo)) /\ Head(w.todo) \in Write /\ GoodRec(Head(w.todo).rec)
      /\ Len(w.todo) # 1 => Tail(w.todo) # <<>>
  BY <1>2, TailGood
<1> HIDE DEF w
<1>4. GoodWork'
  <2> DEFINE here == IF Len(w.todo) = 1 THEN "note" ELSE "write"
             v == [w EXCEPT !.todo = Tail(w.todo)]
  <2>1. v \in Working /\ GoodRev(v.rev) /\ v.todo = Tail(w.todo)
    BY <1>2, <1>3, WithTodo
  <2>2. here \in {"note", "write"} /\ (here = "write" => Tail(w.todo) # <<>>)
    BY <1>3
  <2>3. pc' = [pc EXCEPT ![p] = here] /\ work' = [work EXCEPT ![p] = v]
    BY <1>1
  <2> HIDE DEF here, v
  <2> QED BY <1>3, <2>1, <2>2, <2>3, WorkKept
<1>5. GoodDb'
  <2> DEFINE h == Head(w.todo)
  <2>1. h.level \in Level /\ h.rec \in Record \cup {NoRec} /\ GoodRec(h.rec)
    BY <1>3 DEF Write
  <2>2. db' = [db EXCEPT ![h.level][w.rev.id] = h.rec]
    BY <1>1 DEF Written
  <2> HIDE DEF h
  <2>3. db' \in Database
    BY <1>2, <2>1, <2>2 DEF IInv, GoodDb, Database
  <2>4. ASSUME NEW l \in Level, NEW id \in Ids
        PROVE  db'[l][id] = db[l][id] \/ db'[l][id] = h.rec
    BY <1>2, <2>1, <2>2 DEF IInv, GoodDb, Database
  <2>5. \A l \in Level, id \in Ids : GoodRec(db'[l][id])
    BY <2>1, <2>4 DEF IInv, GoodDb
  <2> QED BY <2>3, <2>5 DEF GoodDb, GoodRec, Candidate
<1>6. GoodJournal' /\ GoodBounds'
  BY <1>1 DEF IInv, GoodJournal, GoodBounds
<1> QED BY <1>4, <1>5, <1>6 DEF IInv

(* One more fault stays within its bound. *)
LEMMA FaultCounted ==
  ASSUME IInv, faults < MaxFaults, faults' = faults + 1, UNCHANGED crashes
  PROVE  GoodBounds'
  BY BoundsAssumption DEF IInv, GoodBounds

LEMMA FailKeeps ==
  ASSUME IInv, NEW p \in Procs, WriteFails(p)
  PROVE  IInv'
<1> DEFINE w == work[p]
           left == IF w.of = "move" THEN Tail(w.todo) ELSE <<>>
<1>1. /\ pc[p] = "write" /\ faults < MaxFaults /\ faults' = faults + 1
      /\ UNCHANGED <<db, journal, crashes>>
  BY DEF WriteFails
<1>2. w \in Working /\ GoodRev(w.rev) /\ GoodWrites(w.todo) /\ w.todo # <<>>
  BY <1>1, BusyWork
<1>3. GoodWrites(left)
  BY <1>2, TailGood, EmptyGood
<1> HIDE DEF left, w
<1>4. GoodWork'
  <2>1. CASE w.rev.op = "undo"
    <3> DEFINE here == IF left = <<>> THEN "note" ELSE "write"
               v == [w EXCEPT !.todo = left]
    <3>1. v \in Working /\ GoodRev(v.rev) /\ v.todo = left
      BY <1>2, <1>3, WithTodo
    <3>2. pc' = [pc EXCEPT ![p] = here] /\ work' = [work EXCEPT ![p] = v]
      BY <2>1 DEF WriteFails, w, left
    <3>3. here \in {"note", "write"} /\ (here = "write" => left # <<>>)
      OBVIOUS
    <3> HIDE DEF here, v
    <3> QED BY <1>3, <3>1, <3>2, <3>3, WorkKept
  <2>2. CASE w.rev.op # "undo"
    <3>1. pc' = [pc EXCEPT ![p] = "idle"] /\ work' = [work EXCEPT ![p] = Idle]
      BY <2>2 DEF WriteFails, w
    <3> QED BY <3>1, WorkKept
  <2> QED BY <2>1, <2>2
<1>5. GoodDb' /\ GoodJournal'
  BY <1>1 DEF IInv, GoodDb, GoodJournal
<1> QED BY <1>1, <1>4, <1>5, FaultCounted DEF IInv

(* What is noted keeps the shape of the revision. *)
LEMMA NotedGood ==
  ASSUME IInv, NEW r, GoodRev(r)
  PROVE  GoodRev(Noted(r))
<1>1. r \in Revision /\ r.op \in Op /\ r.id \in Ids
  BY DEF GoodRev, Revision
<1>2. CASE r.op \in {"revert", "cherry-pick"}
  <2>1. GoodRec(Get(db, r.id))
    BY <1>1, GetGood DEF IInv
  <2>2. Noted(r) = [r EXCEPT !.after = Get(db, r.id)]
    BY <1>2 DEF Noted
  <2>3. /\ Noted(r) \in Revision /\ Noted(r).before = r.before /\ Noted(r).op = r.op
        /\ Noted(r).after = Get(db, r.id)
    BY <1>1, <2>1, <2>2 DEF Revision, GoodRec
  <2> QED BY <1>2, <2>1, <2>3 DEF GoodRev, Shaped
<1>3. CASE r.op = "undo"
  BY <1>3 DEF Noted
<1>4. CASE r.op \notin {"revert", "cherry-pick", "undo"}
  <2>1. Len(journal) + 1 \in Nat
    BY DEF IInv, GoodJournal
  <2>2. Noted(r) = [r EXCEPT !.seq = Len(journal) + 1]
    BY <1>4 DEF Noted
  <2>3. /\ Noted(r) \in Revision /\ Noted(r).before = r.before /\ Noted(r).op = r.op
        /\ Noted(r).after = r.after
    BY <1>1, <2>1, <2>2 DEF Revision
  <2> QED BY <2>3 DEF GoodRev, Shaped
<1> QED BY <1>2, <1>3, <1>4

LEMMA NoteKeeps ==
  ASSUME IInv, NEW p \in Procs, Note(p)
  PROVE  IInv'
<1> DEFINE w == work[p]
           v == [w EXCEPT !.rev = Noted(w.rev)]
<1>1. w \in Working /\ GoodRev(w.rev) /\ GoodWrites(w.todo)
  BY BusyWork DEF Note
<1>2. GoodRev(Noted(w.rev))
  BY <1>1, NotedGood
<1>3. v \in Working /\ v.rev = Noted(w.rev) /\ v.todo = w.todo
  BY <1>1, <1>2 DEF Working, GoodRev
<1>4. /\ pc' = [pc EXCEPT ![p] = "append"] /\ work' = [work EXCEPT ![p] = v]
      /\ UNCHANGED <<db, journal, crashes, faults>>
  BY DEF Note
<1> HIDE DEF v, w
<1>5. GoodWork'
  BY <1>1, <1>2, <1>3, <1>4, WorkKept
<1>6. GoodDb' /\ GoodJournal' /\ GoodBounds'
  BY <1>4 DEF IInv, GoodDb, GoodJournal, GoodBounds
<1> QED BY <1>5, <1>6 DEF IInv

LEMMA AppendKeeps ==
  ASSUME IInv, NEW p \in Procs, appendRevision(p)
  PROVE  IInv'
<1> DEFINE r == work[p].rev
<1>1. /\ journal' = Append(journal, r) /\ Done(p)
      /\ UNCHANGED <<db, crashes, faults>> /\ pc[p] # "idle"
  BY DEF appendRevision
<1>2. GoodRev(r)
  BY <1>1, BusyWork
<1> HIDE DEF r
<1>3. GoodJournal'
  <2>1. journal' \in Seq(Revision) /\ Len(journal') = Len(journal) + 1
    BY <1>1, <1>2 DEF IInv, GoodJournal, GoodRev
  <2>2. ASSUME NEW i \in DOMAIN journal' PROVE GoodRev(journal'[i])
    <3>1. (i \in DOMAIN journal /\ journal'[i] = journal[i]) \/ journal'[i] = r
      BY <1>1, <2>1 DEF IInv, GoodJournal
    <3> QED BY <1>2, <3>1 DEF IInv, GoodJournal
  <2> QED BY <2>1, <2>2 DEF GoodJournal, GoodRev, GoodRec, Candidate, Shaped
<1>4. GoodWork'
  BY <1>1, DoneKeeps
<1>5. GoodDb' /\ GoodBounds'
  BY <1>1 DEF IInv, GoodDb, GoodBounds
<1> QED BY <1>3, <1>4, <1>5 DEF IInv

LEMMA AppendFailKeeps ==
  ASSUME IInv, NEW p \in Procs, AppendFails(p)
  PROVE  IInv'
<1>1. GoodWork' /\ GoodBounds'
  BY DoneKeeps, FaultCounted DEF AppendFails
<1>2. GoodDb' /\ GoodJournal'
  BY DEF AppendFails, IInv, GoodDb, GoodJournal
<1> QED BY <1>1, <1>2 DEF IInv

LEMMA CrashKeeps ==
  ASSUME IInv, NEW p \in Procs, Crash(p)
  PROVE  IInv'
<1>1. GoodWork'
  BY DoneKeeps DEF Crash
<1>2. GoodDb' /\ GoodJournal' /\ GoodBounds'
  BY BoundsAssumption DEF Crash, IInv, GoodDb, GoodJournal, GoodBounds
<1> QED BY <1>1, <1>2 DEF IInv

-----------------------------------------------------------------------------
LEMMA InitGood == Init => IInv
<1> SUFFICES ASSUME Init PROVE IInv
  OBVIOUS
<1>1. GoodDb
  BY NoRecGood DEF Init, EmptyDatabase, GoodDb, Database
<1>2. GoodJournal
  BY DEF Init, GoodJournal
<1>3. GoodWork
  BY DEF Init, GoodWork
<1>4. GoodBounds
  BY BoundsAssumption DEF Init, GoodBounds
<1> QED BY <1>1, <1>2, <1>3, <1>4 DEF IInv

LEMMA StepGood == IInv /\ [Next]_vars => IInv'
<1> SUFFICES ASSUME IInv, [Next]_vars PROVE IInv'
  OBVIOUS
<1>1. CASE Next
  <2> PICK p \in Procs :
        \/ storeCommit(p) \/ storeRm(p) \/ storeMove(p)
        \/ undoLastStore(p) \/ revertRevision(p) \/ cherryPickRevision(p)
        \/ WriteStep(p) \/ WriteFails(p) \/ Note(p)
        \/ appendRevision(p) \/ AppendFails(p) \/ Crash(p)
    BY <1>1 DEF Next
  <2> QED
    BY CommitKeeps, RmKeeps, MoveKeeps, UndoKeeps, RevertKeeps, CherryPickKeeps,
       WriteKeeps, FailKeeps, NoteKeeps, AppendKeeps, AppendFailKeeps, CrashKeeps
<1>2. CASE UNCHANGED vars
  BY <1>2 DEF vars, IInv, GoodDb, GoodJournal, GoodWork, GoodBounds
<1> QED BY <1>1, <1>2

(* The invariant holds throughout. *)
THEOREM Invariance == Spec => []IInv
  BY InitGood, StepGood, PTL DEF Spec

LEMMA GoodTyped == IInv => TypeOK
  BY DEF IInv, GoodDb, GoodJournal, GoodWork, GoodBounds, TypeOK

LEMMA GoodIsCandidate == IInv => AgentKnowledgeIsCandidate
  BY DEF IInv, GoodDb, GoodJournal, GoodWork, GoodRev, GoodRec, GoodWrites,
         AgentKnowledgeIsCandidate

(* The files hold records, the journal revisions, a busy command what it   *)
(* will record and write, whatever the interleaving (StoreJournal's steps).*)
THEOREM TypeCorrect == Spec => []TypeOK
  BY Invariance, GoodTyped, PTL

(* Agent knowledge is a candidate in every file, revision and command, for *)
(* any number of processes, commands and failures: no undo, revert or      *)
(* cherry-pick promotes it (storeCommit's agent guards).                   *)
THEOREM AgentKnowledgeStaysCandidate == Spec => []AgentKnowledgeIsCandidate
  BY Invariance, GoodIsCandidate, PTL

-----------------------------------------------------------------------------
(* History covers the store.                                               *)
(*                                                                         *)
(* What a command read is of no help once the command is killed: a copy    *)
(* counts as recorded only when the journal has it or a running put or     *)
(* move will record it as its after.  Then a killed command or a failing   *)
(* append can leave one copy behind, the one of its after at the level of  *)
(* its scope, and no other step can leave any.                             *)

InJournal(id, rec) ==
  \E i \in DOMAIN journal : journal[i].id = id /\ rec \in {journal[i].before, journal[i].after}
Promises(rev, rec) == rev.op \in {"put", "move"} /\ rec = rev.after
Recorded(id, rec) ==
  \/ InJournal(id, rec)
  \/ \E p \in Procs : pc[p] # "idle" /\ work[p].rev.id = id /\ Promises(work[p].rev, rec)
Unrecorded ==
  {c \in Level \X Ids : db[c[1]][c[2]] # NoRec /\ ~Recorded(c[2], db[c[1]][c[2]])}

(* A copy is at the level its scope belongs to. *)
InPlace(d) == \A l \in Level, id \in Ids : d[l][id] # NoRec => owning(d[l][id].scope) = l
(* So is what a command writes, which the journal or its revision has. *)
Backed(rev, ws) ==
  \A i \in DOMAIN ws : ws[i].rec # NoRec =>
    /\ owning(ws[i].rec.scope) = ws[i].level
    /\ InJournal(rev.id, ws[i].rec) \/ Promises(rev, ws[i].rec)

Covered ==
  /\ InPlace(db)
  /\ \A p \in Procs : pc[p] # "idle" => Backed(work[p].rev, work[p].todo)
  /\ IsFiniteSet(Unrecorded)
  /\ Cardinality(Unrecorded) <= crashes + faults

LEMMA BackedPut ==
  ASSUME NEW rev, NEW rec, InJournal(rev.id, rec) \/ Promises(rev, rec)
  PROVE  Backed(rev, Put(rec))
<1>1. DOMAIN Put(rec) = {1} /\ Put(rec)[1] = [level |-> owning(rec.scope), rec |-> rec]
  BY DEF Put
<1> QED BY <1>1 DEF Backed

LEMMA BackedDelete ==
  ASSUME NEW rev
  PROVE  Backed(rev, Delete)
<1>1. \A i \in DOMAIN Delete : Delete[i].rec = NoRec
  BY DEF Delete
<1> QED BY <1>1 DEF Backed

LEMMA BackedErase ==
  ASSUME NEW rev, NEW l
  PROVE  Backed(rev, <<[level |-> l, rec |-> NoRec]>>)
  BY DEF Backed

LEMMA BackedEmpty ==
  ASSUME NEW rev
  PROVE  Backed(rev, <<>>)
  BY DEF Backed

LEMMA BackedConcat ==
  ASSUME NEW rev, NEW a \in Seq(Write), NEW b \in Seq(Write), Backed(rev, a), Backed(rev, b)
  PROVE  Backed(rev, a \o b)
<1> DEFINE ok(w) == w.rec # NoRec =>
             /\ owning(w.rec.scope) = w.level
             /\ InJournal(rev.id, w.rec) \/ Promises(rev, w.rec)
<1>1. ASSUME NEW i \in DOMAIN (a \o b) PROVE ok((a \o b)[i])
  <2>1. (\A j \in DOMAIN a : ok(a[j])) /\ (\A j \in DOMAIN b : ok(b[j]))
    BY DEF Backed
  <2> HIDE DEF ok
  <2>2. CASE i <= Len(a)
    <3>1. i \in DOMAIN a /\ (a \o b)[i] = a[i]
      BY <2>2
    <3> QED BY <2>1, <3>1
  <2>3. CASE i > Len(a)
    <3>1. i - Len(a) \in DOMAIN b /\ (a \o b)[i] = b[i - Len(a)]
      BY <2>3
    <3> QED BY <2>1, <3>1
  <2> QED BY <2>2, <2>3
<1> QED BY <1>1 DEF Backed

LEMMA BackedTail ==
  ASSUME NEW rev, NEW ws \in Seq(Write), Backed(rev, ws), ws # <<>>
  PROVE  Backed(rev, Tail(ws))
<1>1. \A i \in DOMAIN Tail(ws) : i + 1 \in DOMAIN ws /\ Tail(ws)[i] = ws[i + 1]
  OBVIOUS
<1> QED BY <1>1 DEF Backed

-----------------------------------------------------------------------------
(* What one process starts or drops, the promises of the others stay. *)

LEMMA AtMost ==
  ASSUME NEW v \in Nat, NEW u \in Nat, NEW s \in Nat, NEW t \in Nat, v <= u, u <= s, s <= t
  PROVE  v <= t
  OBVIOUS

LEMMA NatSum == \A a, b \in Nat : a + b \in Nat
  OBVIOUS

LEMMA LessUnrecorded ==
  ASSUME Covered, Unrecorded' \subseteq Unrecorded,
         IInv, IInv', crashes' + faults' >= crashes + faults
  PROVE  IsFiniteSet(Unrecorded') /\ Cardinality(Unrecorded') <= crashes' + faults'
<1> DEFINE U == Unrecorded
           V == Unrecorded'
<1>1. IsFiniteSet(U) /\ V \subseteq U /\ Cardinality(U) <= crashes + faults
  BY DEF Covered
<1>2. /\ crashes \in Nat /\ faults \in Nat /\ crashes' \in Nat /\ faults' \in Nat
  BY BoundsAssumption DEF IInv, GoodBounds
<1> HIDE DEF U, V
<1>3. IsFiniteSet(V) /\ Cardinality(V) <= Cardinality(U)
  BY <1>1, FS_Subset
<1>4. Cardinality(U) \in Nat /\ Cardinality(V) \in Nat
  BY <1>1, <1>3, FS_CardinalityType
<1>5. Cardinality(V) <= crashes' + faults'
  <2>1. crashes + faults \in Nat /\ crashes' + faults' \in Nat
    BY <1>2, NatSum
  <2>2. crashes + faults <= crashes' + faults'
    BY <1>2
  <2> QED BY <1>1, <1>3, <1>4, <2>1, <2>2, AtMost
<1> QED BY <1>3, <1>5 DEF V

LEMMA OneMoreUnrecorded ==
  ASSUME Covered, NEW x, Unrecorded' \subseteq Unrecorded \cup {x},
         IInv, IInv', crashes' + faults' = crashes + faults + 1
  PROVE  IsFiniteSet(Unrecorded') /\ Cardinality(Unrecorded') <= crashes' + faults'
<1> DEFINE U == Unrecorded
           V == Unrecorded'
           W == U \cup {x}
<1>1. IsFiniteSet(U) /\ V \subseteq W /\ Cardinality(U) <= crashes + faults
  BY DEF Covered
<1>2. /\ crashes \in Nat /\ faults \in Nat /\ crashes' \in Nat /\ faults' \in Nat
  BY BoundsAssumption DEF IInv, GoodBounds
<1> HIDE DEF U, V
<1>3. IsFiniteSet(W) /\ Cardinality(W) \in {Cardinality(U), Cardinality(U) + 1}
  BY <1>1, FS_AddElement
<1> HIDE DEF W
<1>4. IsFiniteSet(V) /\ Cardinality(V) <= Cardinality(W)
  BY <1>1, <1>3, FS_Subset
<1>5. Cardinality(U) \in Nat /\ Cardinality(V) \in Nat /\ Cardinality(W) \in Nat
  BY <1>1, <1>3, <1>4, FS_CardinalityType
<1>6. Cardinality(V) <= crashes' + faults'
  <2>1. Cardinality(U) + 1 \in Nat /\ Cardinality(W) <= Cardinality(U) + 1
    BY <1>3, <1>5
  <2>4. crashes' + faults' \in Nat /\ crashes + faults \in Nat
    BY <1>2, NatSum
  <2>2. \A u, s \in Nat : u <= s => u + 1 <= s + 1
    OBVIOUS
  <2>3. Cardinality(U) + 1 <= crashes' + faults'
    BY <1>1, <1>5, <2>1, <2>2, <2>4
  <2> QED BY <1>4, <1>5, <2>1, <2>3, <2>4, AtMost
<1> QED BY <1>4, <1>6 DEF V

LEMMA OthersBacked ==
  ASSUME Covered, NEW p \in Procs, NEW q \in Procs, q # p,
         pc'[q] = pc[q], work'[q] = work[q], pc'[q] # "idle",
         \A id, rec : InJournal(id, rec) => InJournal(id, rec)'
  PROVE  Backed(work[q].rev, work[q].todo)'
<1>1. Backed(work[q].rev, work[q].todo)
  BY DEF Covered
<1> QED BY <1>1 DEF Backed, Promises

LEMMA BeginCovers ==
  ASSUME IInv, IInv', Covered, NEW p \in Procs, NEW command, NEW rev, NEW of, NEW writes,
         Backed(rev, writes), Begin(p, command, rev, of, writes)
  PROVE  Covered'
<1>1. /\ pc[p] = "idle" /\ UNCHANGED <<db, journal, crashes, faults>>
      /\ pc' = [pc EXCEPT ![p] = IF writes = <<>> THEN "note" ELSE "write"]
      /\ work' = [work EXCEPT ![p] = [rev |-> rev, of |-> of, todo |-> writes]]
  BY DEF Begin
<1>2. ASSUME NEW q \in Procs, q # p PROVE pc'[q] = pc[q] /\ work'[q] = work[q]
  BY <1>1, <1>2 DEF IInv, GoodWork
<1>3. work'[p].rev = rev /\ work'[p].todo = writes
  BY <1>1 DEF IInv, GoodWork
<1>4. ASSUME NEW id, NEW rec, InJournal(id, rec) PROVE InJournal(id, rec)'
  BY <1>1, <1>4 DEF InJournal
<1>5. ASSUME NEW id, NEW rec, Recorded(id, rec) PROVE Recorded(id, rec)'
  BY <1>1, <1>2, <1>4, <1>5 DEF Recorded
<1>6. Unrecorded' \subseteq Unrecorded
  BY <1>1, <1>5 DEF Unrecorded
<1>7. ASSUME NEW q \in Procs, pc'[q] # "idle" PROVE Backed(work[q].rev, work[q].todo)'
  <2>1. CASE q = p
    BY <1>3, <1>4, <2>1 DEF Backed, Promises
  <2>2. CASE q # p
    BY <1>2, <1>4, <1>7, <2>2, OthersBacked
  <2> QED BY <2>1, <2>2
<1>8. InPlace(db')
  BY <1>1 DEF Covered
<1>9. crashes' + faults' >= crashes + faults
  BY <1>1, BoundsAssumption DEF IInv, GoodBounds
<1>10. IsFiniteSet(Unrecorded') /\ Cardinality(Unrecorded') <= crashes' + faults'
  BY <1>6, <1>7, <1>8, <1>9, LessUnrecorded
<1> QED BY <1>6, <1>7, <1>8, <1>9, <1>10 DEF Covered, InPlace

(* What is recorded stays recorded when no promise is given up. *)
LEMMA StillRecorded ==
  ASSUME IInv, NEW p \in Procs, pc[p] # "idle",
         \A q \in Procs : q # p => pc'[q] = pc[q] /\ work'[q] = work[q],
         \A id, rec : InJournal(id, rec) => InJournal(id, rec)',
         \A id, rec : work[p].rev.id = id /\ Promises(work[p].rev, rec)
           => \/ pc'[p] # "idle" /\ work'[p].rev.id = id /\ Promises(work'[p].rev, rec)
              \/ InJournal(id, rec)'
  PROVE  \A id, rec : Recorded(id, rec) => Recorded(id, rec)'
<1> SUFFICES ASSUME NEW id, NEW rec, Recorded(id, rec) PROVE Recorded(id, rec)'
  OBVIOUS
<1>1. CASE InJournal(id, rec)
  BY <1>1 DEF Recorded
<1>2. ASSUME NEW q \in Procs, pc[q] # "idle", work[q].rev.id = id, Promises(work[q].rev, rec)
      PROVE  Recorded(id, rec)'
  <2>1. CASE q = p
    BY <1>2, <2>1 DEF Recorded, Promises
  <2>2. CASE q # p
    BY <1>2, <2>2 DEF Recorded, Promises
  <2> QED BY <2>1, <2>2
<1> QED BY <1>1, <1>2 DEF Recorded

LEMMA WriteCovers ==
  ASSUME IInv, IInv', Covered, NEW p \in Procs, WriteStep(p)
  PROVE  Covered'
<1> DEFINE w == work[p]
           h == Head(w.todo)
<1>1. /\ pc[p] = "write" /\ db' = Written(db, w.rev.id, h)
      /\ work' = [work EXCEPT ![p].todo = Tail(w.todo)]
      /\ pc' = [pc EXCEPT ![p] = IF Len(w.todo) = 1 THEN "note" ELSE "write"]
      /\ UNCHANGED <<journal, crashes, faults>>
  BY DEF WriteStep
<1>2. /\ w \in Working /\ w.todo \in Seq(Write) /\ w.todo # <<>> /\ w.rev.id \in Ids
      /\ h \in Write
  BY <1>1, BusyWork, TailGood DEF GoodWrites
<1>3. Backed(w.rev, w.todo)
  BY <1>1 DEF Covered
<1>4. h.rec # NoRec => /\ owning(h.rec.scope) = h.level
                       /\ InJournal(w.rev.id, h.rec) \/ Promises(w.rev, h.rec)
  <2>1. 1 \in DOMAIN w.todo /\ h = w.todo[1]
    BY <1>2
  <2> QED BY <1>3, <2>1 DEF Backed
<1>5. \A q \in Procs : q # p => pc'[q] = pc[q] /\ work'[q] = work[q]
  BY <1>1 DEF IInv, GoodWork
<1>6. work'[p].rev = w.rev /\ work'[p].todo = Tail(w.todo) /\ pc'[p] # "idle"
  BY <1>1, <1>2 DEF IInv, GoodWork, Working
<1>7. \A id, rec : InJournal(id, rec) => InJournal(id, rec)'
  BY <1>1 DEF InJournal
<1>8. \A id, rec : Recorded(id, rec) => Recorded(id, rec)'
  BY <1>1, <1>5, <1>6, <1>7, StillRecorded
<1>9. h.level \in Level /\ h.rec \in Record \cup {NoRec}
  BY <1>2 DEF Write
<1>10. ASSUME NEW l \in Level, NEW id \in Ids
       PROVE  db'[l][id] = IF l = h.level /\ id = w.rev.id THEN h.rec ELSE db[l][id]
  <2>1. db' = [db EXCEPT ![h.level][w.rev.id] = h.rec]
    BY <1>1 DEF Written
  <2> HIDE DEF w, h
  <2> QED BY <1>2, <1>9, <2>1 DEF IInv, GoodDb, Database
<1>11. InPlace(db')
  <2> SUFFICES ASSUME NEW l \in Level, NEW id \in Ids, db'[l][id] # NoRec
               PROVE  owning(db'[l][id].scope) = l
    BY DEF InPlace
  <2> HIDE DEF h, w
  <2> QED BY <1>4, <1>10 DEF Covered, InPlace
<1>12. Unrecorded' \subseteq Unrecorded
  <2> SUFFICES ASSUME NEW c \in Unrecorded' PROVE c \in Unrecorded
    OBVIOUS
  <2>1. PICK v : /\ c \in Level \X Ids /\ c[1] \in Level /\ c[2] \in Ids
                 /\ v = db'[c[1]][c[2]] /\ v # NoRec /\ ~Recorded(c[2], v)'
    BY DEF Unrecorded, Recorded, InJournal, Promises
  <2>2. ~Recorded(c[2], v)
    BY <1>8, <2>1
  <2>3. ~(c[1] = h.level /\ c[2] = w.rev.id)
    BY <1>1, <1>4, <1>10, <2>1, <2>2 DEF Recorded
  <2>4. v = db[c[1]][c[2]]
    BY <1>10, <2>1, <2>3
  <2> QED BY <2>1, <2>2, <2>4 DEF Unrecorded
<1>13. ASSUME NEW q \in Procs, pc'[q] # "idle" PROVE Backed(work[q].rev, work[q].todo)'
  <2>1. CASE q = p
    <3>1. Backed(w.rev, Tail(w.todo))
      BY <1>2, <1>3, BackedTail
    <3> QED BY <1>6, <1>7, <2>1, <3>1 DEF Backed, Promises
  <2>2. CASE q # p
    BY <1>5, <1>7, <1>13, <2>2, OthersBacked
  <2> QED BY <2>1, <2>2
<1>14. crashes' + faults' >= crashes + faults
  BY <1>1, BoundsAssumption DEF IInv, GoodBounds
<1>15. IsFiniteSet(Unrecorded') /\ Cardinality(Unrecorded') <= crashes' + faults'
  BY <1>11, <1>12, <1>13, <1>14, LessUnrecorded
<1> QED BY <1>11, <1>12, <1>13, <1>14, <1>15 DEF Covered, InPlace

(* A command is dropped: at most the copy of its after is left behind. *)
LEMMA DropCovers ==
  ASSUME IInv, IInv', Covered, NEW p \in Procs, Done(p), pc[p] # "idle",
         UNCHANGED <<db, journal>>, crashes' + faults' = crashes + faults + 1
  PROVE  Covered'
<1> DEFINE r == work[p].rev
           x == <<owning(r.after.scope), r.id>>
<1>1. pc' = [pc EXCEPT ![p] = "idle"] /\ work' = [work EXCEPT ![p] = Idle]
  BY DEF Done
<1>2. \A q \in Procs : q # p => pc'[q] = pc[q] /\ work'[q] = work[q]
  BY <1>1 DEF IInv, GoodWork
<1>3. pc'[p] = "idle"
  BY <1>1 DEF IInv, GoodWork
<1>4. \A id, rec : InJournal(id, rec) => InJournal(id, rec)'
  BY DEF InJournal
<1>5. Unrecorded' \subseteq Unrecorded \cup {x}
  <2> SUFFICES ASSUME NEW c \in Unrecorded', c \notin Unrecorded PROVE c = x
    OBVIOUS
  <2>1. /\ c = <<c[1], c[2]>> /\ c[1] \in Level /\ c[2] \in Ids
        /\ db[c[1]][c[2]] # NoRec /\ ~Recorded(c[2], db[c[1]][c[2]])'
        /\ Recorded(c[2], db[c[1]][c[2]])
    BY DEF Unrecorded
  <2>2. c[2] = r.id /\ db[c[1]][c[2]] = r.after
    <3>1. ~InJournal(c[2], db[c[1]][c[2]])
      BY <1>4, <2>1 DEF Recorded
    <3>2. PICK q \in Procs : pc[q] # "idle" /\ work[q].rev.id = c[2]
                             /\ Promises(work[q].rev, db[c[1]][c[2]])
      BY <2>1, <3>1 DEF Recorded
    <3>3. q = p
      BY <1>2, <2>1, <3>2 DEF Recorded, Promises
    <3> QED BY <3>2, <3>3 DEF Promises
  <2>3. owning(db[c[1]][c[2]].scope) = c[1]
    BY <2>1 DEF Covered, InPlace
  <2> QED BY <2>1, <2>2, <2>3
<1>6. ASSUME NEW q \in Procs, pc'[q] # "idle" PROVE Backed(work[q].rev, work[q].todo)'
  <2>1. q # p
    BY <1>3, <1>6
  <2> QED BY <1>2, <1>4, <1>6, <2>1, OthersBacked
<1>7. InPlace(db')
  BY DEF Covered
<1> HIDE DEF x
<1>8. IsFiniteSet(Unrecorded') /\ Cardinality(Unrecorded') <= crashes' + faults'
  BY <1>5, OneMoreUnrecorded
<1> QED BY <1>6, <1>7, <1>8 DEF Covered, InPlace

(* A failing write of an undo leaves it with fewer writes. *)
LEMMA FailCovers ==
  ASSUME IInv, IInv', Covered, NEW p \in Procs, WriteFails(p)
  PROVE  Covered'
<1> DEFINE w == work[p]
           left == IF w.of = "move" THEN Tail(w.todo) ELSE <<>>
<1>1. /\ pc[p] = "write" /\ faults' = faults + 1 /\ UNCHANGED <<db, journal, crashes>>
  BY DEF WriteFails
<1>2. /\ crashes \in Nat /\ faults \in Nat
      /\ crashes' + faults' = crashes + faults + 1
  BY <1>1, BoundsAssumption DEF IInv, GoodBounds
<1>3. CASE w.rev.op = "undo"
  <2>1. /\ work' = [work EXCEPT ![p].todo = left]
        /\ pc' = [pc EXCEPT ![p] = IF left = <<>> THEN "note" ELSE "write"]
    BY <1>3 DEF WriteFails
  <2>2. /\ w \in Working /\ w.todo \in Seq(Write) /\ w.todo # <<>> /\ Backed(w.rev, w.todo)
    BY <1>1, BusyWork DEF GoodWrites, Covered
  <2>3. Backed(w.rev, left)
    BY <2>2, BackedTail, BackedEmpty
  <2> HIDE DEF left
  <2>4. \A q \in Procs : q # p => pc'[q] = pc[q] /\ work'[q] = work[q]
    BY <2>1 DEF IInv, GoodWork
  <2>5. work'[p].rev = w.rev /\ work'[p].todo = left /\ pc'[p] # "idle"
    BY <2>1, <2>2 DEF IInv, GoodWork, Working
  <2>6. \A id, rec : InJournal(id, rec) => InJournal(id, rec)'
    BY <1>1 DEF InJournal
  <2>7. \A id, rec : Recorded(id, rec) => Recorded(id, rec)'
    BY <1>1, <2>4, <2>5, <2>6, StillRecorded
  <2>8. Unrecorded' \subseteq Unrecorded
    BY <1>1, <2>7 DEF Unrecorded
  <2>9. ASSUME NEW q \in Procs, pc'[q] # "idle" PROVE Backed(work[q].rev, work[q].todo)'
    <3>1. CASE q = p
      BY <2>3, <2>5, <2>6, <3>1 DEF Backed, Promises
    <3>2. CASE q # p
      BY <2>4, <2>6, <2>9, <3>2, OthersBacked
    <3> QED BY <3>1, <3>2
  <2>10. InPlace(db')
    BY <1>1 DEF Covered
  <2>11. IsFiniteSet(Unrecorded') /\ Cardinality(Unrecorded') <= crashes' + faults'
    BY <1>2, <2>8, <2>9, <2>10, LessUnrecorded
  <2> QED BY <1>2, <2>8, <2>9, <2>10, <2>11 DEF Covered, InPlace
<1>4. CASE w.rev.op # "undo"
  <2>1. Done(p)
    BY <1>4 DEF WriteFails, Done
  <2> QED BY <1>1, <1>2, <2>1, DropCovers
<1> QED BY <1>3, <1>4

(* Noting changes no promise. *)
LEMMA NoteCovers ==
  ASSUME IInv, IInv', Covered, NEW p \in Procs, Note(p)
  PROVE  Covered'
<1> DEFINE w == work[p]
<1>1. /\ pc[p] = "note" /\ work' = [work EXCEPT ![p].rev = Noted(w.rev)]
      /\ pc' = [pc EXCEPT ![p] = "append"] /\ UNCHANGED <<db, journal, crashes, faults>>
  BY DEF Note
<1>2. w \in Working /\ w.rev \in Revision /\ Backed(w.rev, w.todo)
  BY <1>1, BusyWork DEF GoodRev, Covered
<1>3. \A q \in Procs : q # p => pc'[q] = pc[q] /\ work'[q] = work[q]
  BY <1>1 DEF IInv, GoodWork
<1>4. work'[p].rev = Noted(w.rev) /\ work'[p].todo = w.todo /\ pc'[p] # "idle"
  BY <1>1, <1>2 DEF IInv, GoodWork, Working
<1>5. /\ Noted(w.rev).id = w.rev.id
      /\ \A rec : Promises(w.rev, rec) => Promises(Noted(w.rev), rec)
  BY <1>2 DEF Noted, Promises, Revision
<1>6. \A id, rec : InJournal(id, rec) => InJournal(id, rec)'
  BY <1>1 DEF InJournal
<1>7. \A id, rec : Recorded(id, rec) => Recorded(id, rec)'
  BY <1>1, <1>3, <1>4, <1>5, <1>6, StillRecorded
<1>8. Unrecorded' \subseteq Unrecorded
  BY <1>1, <1>7 DEF Unrecorded
<1>9. ASSUME NEW q \in Procs, pc'[q] # "idle" PROVE Backed(work[q].rev, work[q].todo)'
  <2>1. CASE q = p
    BY <1>2, <1>4, <1>5, <1>6, <2>1 DEF Backed
  <2>2. CASE q # p
    BY <1>3, <1>6, <1>9, <2>2, OthersBacked
  <2> QED BY <2>1, <2>2
<1>10. InPlace(db')
  BY <1>1 DEF Covered
<1>11. crashes' + faults' >= crashes + faults
  BY <1>1, BoundsAssumption DEF IInv, GoodBounds
<1>12. IsFiniteSet(Unrecorded') /\ Cardinality(Unrecorded') <= crashes' + faults'
  BY <1>8, <1>9, <1>10, <1>11, LessUnrecorded
<1> QED BY <1>8, <1>9, <1>10, <1>11, <1>12 DEF Covered, InPlace

(* The promise is kept: the after of the revision is in the journal. *)
LEMMA AppendCovers ==
  ASSUME IInv, IInv', Covered, NEW p \in Procs, appendRevision(p)
  PROVE  Covered'
<1> DEFINE r == work[p].rev
<1>1. /\ pc[p] = "append" /\ journal' = Append(journal, r) /\ UNCHANGED <<db, crashes, faults>>
      /\ pc' = [pc EXCEPT ![p] = "idle"] /\ work' = [work EXCEPT ![p] = Idle]
  BY DEF appendRevision, Done
<1>2. \A q \in Procs : q # p => pc'[q] = pc[q] /\ work'[q] = work[q]
  BY <1>1 DEF IInv, GoodWork
<1>3. pc'[p] = "idle"
  BY <1>1 DEF IInv, GoodWork
<1>4. /\ \A i \in DOMAIN journal : i \in DOMAIN journal' /\ journal'[i] = journal[i]
      /\ Len(journal) + 1 \in DOMAIN journal' /\ journal'[Len(journal) + 1] = r
  BY <1>1 DEF IInv, GoodJournal
<1>5. \A id, rec : InJournal(id, rec) => InJournal(id, rec)'
  BY <1>4 DEF InJournal
<1>6. \A id, rec : r.id = id /\ Promises(r, rec) => InJournal(id, rec)'
  BY <1>4 DEF InJournal, Promises
<1>7. \A id, rec : Recorded(id, rec) => Recorded(id, rec)'
  BY <1>1, <1>2, <1>5, <1>6, StillRecorded
<1>8. Unrecorded' \subseteq Unrecorded
  BY <1>1, <1>7 DEF Unrecorded
<1>9. ASSUME NEW q \in Procs, pc'[q] # "idle" PROVE Backed(work[q].rev, work[q].todo)'
  BY <1>2, <1>3, <1>5, <1>9, OthersBacked
<1>10. InPlace(db')
  BY <1>1 DEF Covered
<1>11. crashes' + faults' >= crashes + faults
  BY <1>1, BoundsAssumption DEF IInv, GoodBounds
<1>12. IsFiniteSet(Unrecorded') /\ Cardinality(Unrecorded') <= crashes' + faults'
  BY <1>8, <1>9, <1>10, <1>11, LessUnrecorded
<1> QED BY <1>8, <1>9, <1>10, <1>11, <1>12 DEF Covered, InPlace

LEMMA AppendFailCovers ==
  ASSUME IInv, IInv', Covered, NEW p \in Procs, AppendFails(p)
  PROVE  Covered'
<1>1. crashes' + faults' = crashes + faults + 1
  BY BoundsAssumption DEF AppendFails, IInv, GoodBounds
<1> QED BY <1>1, DropCovers DEF AppendFails

LEMMA CrashCovers ==
  ASSUME IInv, IInv', Covered, NEW p \in Procs, Crash(p)
  PROVE  Covered'
<1>1. crashes' + faults' = crashes + faults + 1
  BY BoundsAssumption DEF Crash, IInv, GoodBounds
<1> QED BY <1>1, DropCovers DEF Crash

-----------------------------------------------------------------------------
(* What each command writes is in the journal or in its revision. *)

LEMMA CommitCovers ==
  ASSUME IInv, IInv', Covered, NEW p \in Procs, storeCommit(p)
  PROVE  Covered'
<1> PICK by \in Actors, id \in Ids, body \in Bodies, scope \in CommitScopes, flag \in StatusFlags :
      LET before == Get(db, id)
          rec == [scope |-> scope, body |-> body, prov |-> by,
                  status |-> CommitStatus(by, before, flag)]
      IN Begin(p, "commit", Rev("put", id, by, 0, before, rec), "put", Put(rec))
  BY DEF storeCommit
<1> DEFINE before == Get(db, id)
           rec == [scope |-> scope, body |-> body, prov |-> by,
                   status |-> CommitStatus(by, before, flag)]
           rev == Rev("put", id, by, 0, before, rec)
<1>1. Begin(p, "commit", rev, "put", Put(rec))
  OBVIOUS
<1> HIDE DEF before, rec
<1>2. Promises(rev, rec)
  BY DEF Promises, Rev
<1> HIDE DEF rev
<1> QED BY <1>1, <1>2, BackedPut, BeginCovers

LEMMA RmCovers ==
  ASSUME IInv, IInv', Covered, NEW p \in Procs, storeRm(p)
  PROVE  Covered'
  BY BackedDelete, BeginCovers DEF storeRm

LEMMA MoveCovers ==
  ASSUME IInv, IInv', Covered, NEW p \in Procs, storeMove(p)
  PROVE  Covered'
<1> PICK id \in Ids, to \in Scope :
      LET cur == Get(db, id)
          moved == [cur EXCEPT !.scope = to]
      IN /\ cur # NoRec
         /\ Begin(p, "move", MoveRev(cur, moved, id), "move", MoveWrites(cur, moved))
  BY DEF storeMove
<1> DEFINE cur == Get(db, id)
           moved == [cur EXCEPT !.scope = to]
           rev == MoveRev(cur, moved, id)
<1>1. cur # NoRec /\ Begin(p, "move", rev, "move", MoveWrites(cur, moved))
  OBVIOUS
<1>2. cur \in Record
  BY <1>1, GetGood DEF IInv, GoodRec
<1>3. moved \in Record
  BY <1>2 DEF Record
<1> HIDE DEF cur, moved
<1>4. Promises(rev, moved)
  BY DEF Promises, MoveRev, Rev
<1> HIDE DEF rev
<1>5. Backed(rev, MoveWrites(cur, moved))
  <2>1. owning(moved.scope) \in Level /\ owning(cur.scope) \in Level
    BY <1>2, <1>3, RecordFields, OwningLevel
  <2>2. Put(moved) \in Seq(Write) /\ Backed(rev, Put(moved))
    BY <1>3, <1>4, <2>1, BackedPut DEF Put, Write
  <2>3. /\ <<[level |-> owning(cur.scope), rec |-> NoRec]>> \in Seq(Write)
        /\ Backed(rev, <<[level |-> owning(cur.scope), rec |-> NoRec]>>)
    BY <2>1, BackedErase DEF Write
  <2>4. <<>> \in Seq(Write) /\ Backed(rev, <<>>)
    BY BackedEmpty
  <2> QED BY <2>2, <2>3, <2>4, BackedConcat DEF MoveWrites
<1> QED BY <1>1, <1>5, BeginCovers

LEMMA UndoCovers ==
  ASSUME IInv, IInv', Covered, NEW p \in Procs, undoLastStore(p)
  PROVE  Covered'
<1> PICK i \in DOMAIN journal :
      Begin(p, "undo", Rev("undo", journal[i].id, "human", journal[i].seq, NoRec, NoRec),
            journal[i].op, Restore(journal[i]))
  BY DEF undoLastStore
<1> DEFINE r == journal[i]
           rev == Rev("undo", r.id, "human", r.seq, NoRec, NoRec)
<1>1. rev.id = r.id
  BY DEF Rev
<1>2. InJournal(rev.id, r.before)
  BY <1>1 DEF InJournal
<1>3. /\ Shaped(r) /\ (r.before # NoRec => r.before \in Record)
      /\ (r.after # NoRec => r.after \in Record)
  BY JournalRev DEF GoodRev
<1>4. Begin(p, "undo", rev, r.op, Restore(r))
  OBVIOUS
<1> HIDE DEF r, rev
<1>5. Backed(rev, Put(r.before))
  BY <1>2, BackedPut
<1>6. Backed(rev, Restore(r))
  <2>1. CASE r.op = "move"
    <3>1. r.before \in Record /\ r.after \in Record
      BY <1>3, <2>1 DEF Shaped
    <3>2. owning(r.before.scope) \in Level /\ owning(r.after.scope) \in Level
      BY <3>1, RecordFields, OwningLevel
    <3>3. Put(r.before) \in Seq(Write)
      BY <3>1, <3>2 DEF Put, Write
    <3>4. /\ <<[level |-> owning(r.after.scope), rec |-> NoRec]>> \in Seq(Write)
          /\ Backed(rev, <<[level |-> owning(r.after.scope), rec |-> NoRec]>>)
      BY <3>2, BackedErase DEF Write
    <3>5. Restore(r) = <<[level |-> owning(r.after.scope), rec |-> NoRec]>> \o Put(r.before)
      BY <2>1 DEF Restore
    <3> QED BY <1>5, <3>3, <3>4, <3>5, BackedConcat
  <2>2. CASE r.op # "move"
    BY <1>5, <2>2, BackedDelete, BackedEmpty DEF Restore
  <2> QED BY <2>1, <2>2
<1> QED BY <1>4, <1>6, BeginCovers

LEMMA RevertCovers ==
  ASSUME IInv, IInv', Covered, NEW p \in Procs, revertRevision(p)
  PROVE  Covered'
<1> PICK i \in DOMAIN journal :
      Begin(p, "revert", Rev("revert", journal[i].id, "human", journal[i].seq,
                             Get(db, journal[i].id), NoRec),
            journal[i].op, RevertWrites(journal[i]))
  BY DEF revertRevision
<1> DEFINE r == journal[i]
           rev == Rev("revert", r.id, "human", r.seq, Get(db, r.id), NoRec)
<1>1. rev.id = r.id
  BY DEF Rev
<1>2. InJournal(rev.id, r.before)
  BY <1>1 DEF InJournal
<1>3. Begin(p, "revert", rev, r.op, RevertWrites(r))
  OBVIOUS
<1> HIDE DEF r, rev
<1>4. Backed(rev, RevertWrites(r))
  BY <1>2, BackedPut, BackedDelete DEF RevertWrites
<1> QED BY <1>3, <1>4, BeginCovers

LEMMA CherryPickCovers ==
  ASSUME IInv, IInv', Covered, NEW p \in Procs, cherryPickRevision(p)
  PROVE  Covered'
<1> PICK i \in DOMAIN journal :
      Begin(p, "cherry-pick", Rev("cherry-pick", journal[i].id, "human", journal[i].seq,
                                  Get(db, journal[i].id), NoRec),
            journal[i].op,
            IF journal[i].op = "put" THEN Put(journal[i].after) ELSE Delete)
  BY DEF cherryPickRevision
<1> DEFINE r == journal[i]
           rev == Rev("cherry-pick", r.id, "human", r.seq, Get(db, r.id), NoRec)
           writes == IF r.op = "put" THEN Put(r.after) ELSE Delete
<1>1. rev.id = r.id
  BY DEF Rev
<1>2. InJournal(rev.id, r.after)
  BY <1>1 DEF InJournal
<1>3. Begin(p, "cherry-pick", rev, r.op, writes)
  OBVIOUS
<1> HIDE DEF r, rev
<1>4. Backed(rev, writes)
  BY <1>2, BackedPut, BackedDelete
<1> QED BY <1>3, <1>4, BeginCovers

LEMMA InitCovers == Init => Covered
<1> SUFFICES ASSUME Init PROVE Covered
  OBVIOUS
<1>1. \A l \in Level, id \in Ids : db[l][id] = NoRec
  BY DEF Init, EmptyDatabase
<1>2. Unrecorded = {}
  BY <1>1 DEF Unrecorded
<1>3. \A p \in Procs : pc[p] = "idle"
  BY DEF Init
<1>4. IsFiniteSet({}) /\ Cardinality({}) = 0
  BY FS_EmptySet
<1> QED BY <1>1, <1>2, <1>3, <1>4 DEF Init, Covered, InPlace

LEMMA StepCovers == IInv /\ IInv' /\ Covered /\ [Next]_vars => Covered'
<1> SUFFICES ASSUME IInv, IInv', Covered, [Next]_vars PROVE Covered'
  OBVIOUS
<1>1. CASE Next
  <2> PICK p \in Procs :
        \/ storeCommit(p) \/ storeRm(p) \/ storeMove(p)
        \/ undoLastStore(p) \/ revertRevision(p) \/ cherryPickRevision(p)
        \/ WriteStep(p) \/ WriteFails(p) \/ Note(p)
        \/ appendRevision(p) \/ AppendFails(p) \/ Crash(p)
    BY <1>1 DEF Next
  <2> QED
    BY CommitCovers, RmCovers, MoveCovers, UndoCovers, RevertCovers, CherryPickCovers,
       WriteCovers, FailCovers, NoteCovers, AppendCovers, AppendFailCovers, CrashCovers
<1>2. CASE UNCHANGED vars
  <2>1. UNCHANGED Unrecorded
    BY <1>2 DEF vars, Unrecorded, Recorded, InJournal
  <2> QED BY <1>2, <2>1 DEF vars, Covered, InPlace, Backed, InJournal
<1> QED BY <1>1, <1>2

(* What the invariant does not count, the property does not count either. *)
LEMMA CoveredIsHistory == IInv /\ Covered => HistoryCoversStore
<1> SUFFICES ASSUME IInv, Covered PROVE HistoryCoversStore
  OBVIOUS
<1> DEFINE unknown == {c \in Level \X Ids :
             db[c[1]][c[2]] # NoRec /\ ~Known(c[2], db[c[1]][c[2]])}
           U == Unrecorded
<1>1. \A id, rec : Recorded(id, rec) => Known(id, rec)
  BY DEF Recorded, InJournal, Promises, Known
<1>2. unknown \subseteq U
  BY <1>1 DEF Unrecorded
<1>3. IsFiniteSet(U) /\ Cardinality(U) <= crashes + faults
  BY DEF Covered
<1>4. crashes \in Nat /\ faults \in Nat
  BY BoundsAssumption DEF IInv, GoodBounds
<1>5. Cardinality(unknown) <= crashes + faults
  <2> HIDE DEF unknown, U
  <2>1. IsFiniteSet(unknown) /\ Cardinality(unknown) <= Cardinality(U)
    BY <1>2, <1>3, FS_Subset
  <2>2. Cardinality(unknown) \in Nat /\ Cardinality(U) \in Nat
    BY <1>3, <2>1, FS_CardinalityType
  <2> QED BY <1>3, <1>4, <2>1, <2>2
<1> QED BY <1>5 DEF HistoryCoversStore

(* A copy in the files that no revision knows was left by a killed command *)
(* or a failed write, one copy each at most, for any number of processes   *)
(* and commands in any order (appendRevision is the last step of each).    *)
THEOREM HistoryIsNeverLost == Spec => []HistoryCoversStore
<1>1. Spec => []Covered
  BY Invariance, InitCovers, StepCovers, PTL DEF Spec
<1> QED BY <1>1, Invariance, CoveredIsHistory, PTL

-----------------------------------------------------------------------------
(* What commands that run one after the other do to files and journal.     *)
(*                                                                         *)
(* The invariant looks ahead: it speaks of the files a running command     *)
(* will leave and of the journal with the revision it will append, so that *)
(* only the start of a command has anything to show.                       *)

(* Commands run one after the other: an idle process keeps nothing, so one *)
(* process p stands for whoever runs them.  No command was killed, no      *)
(* write failed.                                                           *)
Alone(p) == Procs = {p}
Unbroken == crashes = 0 /\ faults = 0

(* Replay and Only, of any journal. *)
Touching(js, S, id) == {i \in S : js[i].id = id}
(* v is what the revisions in S say of id. *)
SaysOf(js, S, id, v) ==
  \/ Touching(js, S, id) = {} /\ v = NoRec
  \/ \E i \in Touching(js, S, id) :
       (\A k \in Touching(js, S, id) : k <= i) /\ v = js[i].after
OnlyOps(js, ops) == \A i \in DOMAIN js : js[i].op \in ops

OneCopy(d) ==
  \A l, m \in Level, id \in Ids : d[l][id] # NoRec /\ d[m][id] # NoRec => l = m

(* Revisions are numbered by their place, and an undo names an earlier one. *)
Numbered(js) ==
  \A i \in DOMAIN js : js[i].seq = i /\ (js[i].op = "undo" => js[i].ref < i)
(* A commit keeps the scope, a removal removes something. *)
Formed(r) ==
  /\ r.op = "put" => r.after # NoRec /\ (r.before # NoRec => r.before.scope = r.after.scope)
  /\ r.op = "delete" => r.before # NoRec /\ r.after = NoRec
  /\ r.op = "move" => r.before # NoRec /\ r.after # NoRec

PickOps == {"put", "delete", "revert", "cherry-pick"}

(* What stands is what the reader sees, and every revision that stands     *)
(* was made on top of those that stand before it.                          *)
Stacked(d, js) ==
  /\ OneCopy(d)
  /\ \A id \in Ids : SaysOf(js, Standing(js), id, Get(d, id))
  /\ \A i \in Standing(js) :
       SaysOf(js, {k \in Standing(js) : k < i}, js[i].id, js[i].before)
Current(d, js) == \A id \in Ids : SaysOf(js, DOMAIN js, id, Get(d, id))

ScopesIn(js, id) ==
  LET revs == {js[i] : i \in {k \in DOMAIN js : js[k].id = id}}
      recs == {r.before : r \in revs} \cup {r.after : r \in revs}
  IN {rec.scope : rec \in recs \ {NoRec}}
Reverted(d, js) ==
  js # <<>> /\ js[Len(js)].op = "revert" /\ Cardinality(ScopesIn(js, js[Len(js)].id)) <= 1
  => \A i \in DOMAIN js : js[i].seq = js[Len(js)].ref => Get(d, js[i].id) = js[i].before

Kept(d, js) ==
  /\ InPlace(d)
  /\ Numbered(js)
  /\ \A i \in DOMAIN js : Formed(js[i])
  /\ OnlyOps(js, UndoOps) => Stacked(d, js)
  /\ OnlyOps(js, PickOps) => Current(d, js)
  /\ Reverted(d, js)

Ahead(p) ==
  LET w == work[p]
      d == Carried(db, w.rev.id, w.todo)
  IN /\ pc[p] = "idle" => Kept(db, journal)
     /\ pc[p] = "append" => Kept(db, Append(journal, w.rev))
     /\ pc[p] \in {"write", "note"} =>
          /\ Len(w.todo) <= 3
          /\ pc[p] = "note" => w.todo = <<>>
          /\ Kept(d, Append(journal, NotedIn(d, journal, w.rev)))

-----------------------------------------------------------------------------
(* What the writes of a command leave.                                     *)

LEMMA CarriedOne ==
  ASSUME NEW d, NEW id, NEW x
  PROVE  Carried(d, id, <<x>>) = Written(d, id, x)
<1>1. <<x>> # <<>> /\ Head(<<x>>) = x /\ Tail(<<x>>) = <<>>
  OBVIOUS
<1>2. Rest(<<x>>) = <<>> /\ Rest(<<>>) = <<>>
  BY <1>1 DEF Rest
<1> QED BY <1>1, <1>2 DEF Carried, First

LEMMA CarriedTwo ==
  ASSUME NEW d, NEW id, NEW x, NEW y
  PROVE  Carried(d, id, <<x, y>>) = Written(Written(d, id, x), id, y)
<1>1. <<x, y>> # <<>> /\ Head(<<x, y>>) = x
  OBVIOUS
<1>2. Tail(<<x, y>>) = <<y>>
  OBVIOUS
<1>3. <<y>> # <<>> /\ Head(<<y>>) = y /\ Tail(<<y>>) = <<>>
  OBVIOUS
<1>4. Rest(<<x, y>>) = <<y>> /\ Rest(<<y>>) = <<>>
  BY <1>1, <1>2, <1>3 DEF Rest
<1> QED BY <1>1, <1>3, <1>4 DEF Carried, First

LEMMA Pair ==
  ASSUME NEW S, NEW x \in S, NEW y \in S
  PROVE  <<x>> \o <<y>> = <<x, y>>
<1>1. <<x>> \in Seq(S) /\ <<y>> \in Seq(S) /\ <<x>> \o <<y>> \in Seq(S)
  OBVIOUS
<1>2. /\ Len(<<x>> \o <<y>>) = 2
      /\ (<<x>> \o <<y>>)[1] = x /\ (<<x>> \o <<y>>)[2] = y
  BY <1>1
<1>3. <<x, y>> \in Seq(S) /\ Len(<<x, y>>) = 2 /\ <<x, y>>[1] = x /\ <<x, y>>[2] = y
  OBVIOUS
<1>4. \A i \in 1..2 : i = 1 \/ i = 2
  OBVIOUS
<1>5. \A i \in 1..2 : (<<x>> \o <<y>>)[i] = <<x, y>>[i]
  BY <1>2, <1>3, <1>4
<1> QED BY <1>1, <1>2, <1>3, <1>5, SeqEqual

(* The first write is carried out, the others are left. *)
LEMMA CarriedStep ==
  ASSUME NEW d, NEW id, NEW ws \in Seq(Write), ws # <<>>, Len(ws) <= 3
  PROVE  /\ Carried(Written(d, id, Head(ws)), id, Tail(ws)) = Carried(d, id, ws)
         /\ Len(Tail(ws)) <= 3
         /\ Len(ws) = 1 => Tail(ws) = <<>>
<1>1. Rest(ws) = Tail(ws)
  BY DEF Rest
<1>2. Tail(ws) \in Seq(Write) /\ Len(Tail(ws)) = Len(ws) - 1 /\ Len(ws) \in Nat
  OBVIOUS
<1>3. Rest(Rest(Rest(ws))) = <<>>
  <2>1. CASE Tail(ws) = <<>>
    BY <1>1, <2>1 DEF Rest
  <2>2. CASE Tail(ws) # <<>>
    <3>1. /\ Rest(Tail(ws)) = Tail(Tail(ws)) /\ Tail(Tail(ws)) \in Seq(Write)
          /\ Len(Tail(Tail(ws))) = Len(ws) - 2
      BY <1>2, <2>2 DEF Rest
    <3>2. CASE Tail(Tail(ws)) = <<>>
      BY <1>1, <3>1, <3>2 DEF Rest
    <3>3. CASE Tail(Tail(ws)) # <<>>
      <4>1. /\ Tail(Tail(Tail(ws))) \in Seq(Write)
            /\ Len(Tail(Tail(Tail(ws)))) = Len(ws) - 3
        BY <1>2, <3>1, <3>3
      <4>2. Tail(Tail(Tail(ws))) = <<>>
        BY <1>2, <4>1
      <4>3. Rest(Tail(Tail(ws))) = Tail(Tail(Tail(ws)))
        BY <3>3 DEF Rest
      <4> QED BY <1>1, <3>1, <4>2, <4>3
    <3> QED BY <3>2, <3>3
  <2> QED BY <2>1, <2>2
<1>4. First(d, id, ws) = Written(d, id, Head(ws))
  BY DEF First
<1>5. Carried(Written(d, id, Head(ws)), id, Tail(ws)) = Carried(d, id, ws)
  <2> DEFINE e == Written(d, id, Head(ws))
             f == First(First(e, id, Rest(ws)), id, Rest(Rest(ws)))
  <2>1. Carried(e, id, Tail(ws)) = First(f, id, Rest(Rest(Rest(ws))))
    BY <1>1 DEF Carried
  <2>2. Carried(d, id, ws) = f
    BY <1>4 DEF Carried
  <2> HIDE DEF f
  <2>3. First(f, id, <<>>) = f
    BY DEF First
  <2> QED BY <1>3, <2>1, <2>2, <2>3
<1> QED BY <1>2, <1>5

(* One file gets one record. *)
LEMMA WrittenAt ==
  ASSUME NEW d \in Database, NEW id \in Ids, NEW l \in Level, NEW rec \in Record \cup {NoRec}
  PROVE  /\ Written(d, id, [level |-> l, rec |-> rec]) \in Database
         /\ \A m \in Level, j \in Ids :
              Written(d, id, [level |-> l, rec |-> rec])[m][j] =
                IF m = l /\ j = id THEN rec ELSE d[m][j]
  BY DEF Written, Database

LEMMA CarriedPut ==
  ASSUME NEW d \in Database, NEW id \in Ids, NEW rec \in Record
  PROVE  /\ Carried(d, id, Put(rec)) \in Database
         /\ \A m \in Level, j \in Ids :
              Carried(d, id, Put(rec))[m][j] =
                IF m = owning(rec.scope) /\ j = id THEN rec ELSE d[m][j]
<1>1. owning(rec.scope) \in Level
  BY RecordFields, OwningLevel
<1>2. Carried(d, id, Put(rec)) = Written(d, id, [level |-> owning(rec.scope), rec |-> rec])
  BY CarriedOne DEF Put
<1> QED BY <1>1, <1>2, WrittenAt

(* Nothing is kept at the level of a workspace that is not there. *)
LEMMA CarriedDelete ==
  ASSUME NEW d \in Database, InPlace(d), NEW id \in Ids
  PROVE  /\ Carried(d, id, Delete) \in Database
         /\ \A m \in Level, j \in Ids :
              Carried(d, id, Delete)[m][j] = IF j = id THEN NoRec ELSE d[m][j]
<1> DEFINE at(l) == [level |-> l, rec |-> NoRec]
<1>0. "project" \in Level /\ "workspace" \in Level /\ "global" \in Level
      /\ \A m \in Level : m = "project" \/ m = "workspace" \/ m = "global"
  BY DEF Level
<1>1. CASE HasSpace
  <2> DEFINE ws == <<at("project"), at("workspace"), at("global")>>
  <2>1. Delete = ws
    <3>1. present = <<"project", "workspace", "global">>
      BY <1>1 DEF present
    <3> QED BY <3>1 DEF Delete
  <2>2. Carried(d, id, ws) =
          Written(Written(Written(d, id, at("project")), id, at("workspace")), id, at("global"))
    <3> HIDE DEF at
    <3>1. ws # <<>> /\ Head(ws) = at("project")
      OBVIOUS
    <3>2. Tail(ws) = <<at("workspace"), at("global")>>
      OBVIOUS
    <3>3. Tail(<<at("workspace"), at("global")>>) = <<at("global")>>
      OBVIOUS
    <3>4. Rest(ws) = <<at("workspace"), at("global")>>
      BY <3>1, <3>2 DEF Rest
    <3>5. Rest(<<at("workspace"), at("global")>>) = <<at("global")>>
      BY <3>3 DEF Rest
    <3>6. Carried(d, id, ws) =
            First(First(First(d, id, ws), id, <<at("workspace"), at("global")>>), id, <<at("global")>>)
      BY <3>4, <3>5 DEF Carried
    <3>7. /\ First(d, id, ws) = Written(d, id, at("project"))
          /\ \A e : First(e, id, <<at("workspace"), at("global")>>) = Written(e, id, at("workspace"))
          /\ \A e : First(e, id, <<at("global")>>) = Written(e, id, at("global"))
      BY <3>1 DEF First
    <3> QED BY <3>6, <3>7
  <2> HIDE DEF ws
  <2> DEFINE e == Written(d, id, at("project"))
             f == Written(e, id, at("workspace"))
             g == Written(f, id, at("global"))
  <2>3. /\ e \in Database
        /\ \A m \in Level, j \in Ids : e[m][j] = IF m = "project" /\ j = id THEN NoRec ELSE d[m][j]
    BY <1>0, WrittenAt
  <2> HIDE DEF e
  <2>4. /\ f \in Database
        /\ \A m \in Level, j \in Ids : f[m][j] = IF m = "workspace" /\ j = id THEN NoRec ELSE e[m][j]
    BY <1>0, <2>3, WrittenAt
  <2> HIDE DEF f
  <2>5. /\ g \in Database
        /\ \A m \in Level, j \in Ids : g[m][j] = IF m = "global" /\ j = id THEN NoRec ELSE f[m][j]
    BY <1>0, <2>4, WrittenAt
  <2>6. Carried(d, id, Delete) = g
    BY <2>1, <2>2 DEF e, f
  <2> HIDE DEF g
  <2>7. \A m \in Level, j \in Ids : g[m][j] = IF j = id THEN NoRec ELSE d[m][j]
    BY <1>0, <2>3, <2>4, <2>5
  <2> QED BY <2>5, <2>6, <2>7
<1>2. CASE ~HasSpace
  <2>1. Delete = <<at("project"), at("global")>>
    <3>1. present = <<"project", "global">>
      BY <1>2 DEF present
    <3> QED BY <3>1 DEF Delete
  <2> DEFINE e == Written(d, id, at("project"))
             g == Written(e, id, at("global"))
  <2>3. Carried(d, id, Delete) = g
    BY <2>1, CarriedTwo
  <2>4. /\ e \in Database
        /\ \A m \in Level, j \in Ids : e[m][j] = IF m = "project" /\ j = id THEN NoRec ELSE d[m][j]
    BY <1>0, WrittenAt
  <2> HIDE DEF e
  <2>5. /\ g \in Database
        /\ \A m \in Level, j \in Ids : g[m][j] = IF m = "global" /\ j = id THEN NoRec ELSE e[m][j]
    BY <1>0, <2>4, WrittenAt
  <2> HIDE DEF g
  <2>6. d["workspace"][id] = NoRec
    <3>1. \A s \in Scope : owning(s) # "workspace"
      BY <1>2 DEF owning
    <3>2. d["workspace"][id] \in Record \cup {NoRec}
      BY <1>0 DEF Database
    <3> QED BY <1>0, <3>1, <3>2, RecordFields DEF InPlace
  <2>7. \A m \in Level, j \in Ids : g[m][j] = IF j = id THEN NoRec ELSE d[m][j]
    BY <1>0, <2>4, <2>5, <2>6
  <2> QED BY <2>3, <2>5, <2>7
<1> QED BY <1>1, <1>2

-----------------------------------------------------------------------------
(* What a reader sees then.                                                *)

LEMMA GetOther ==
  ASSUME NEW d, NEW e, NEW j, \A m \in Level : e[m][j] = d[m][j]
  PROVE  Get(e, j) = Get(d, j)
  BY DEF Get, Level

LEMMA GetNone ==
  ASSUME NEW d, NEW j, \A m \in Level : d[m][j] = NoRec
  PROVE  Get(d, j) = NoRec
  BY DEF Get, Level

(* The visible copy is at the level of its scope, nothing is above it. *)
LEMMA GetLevel ==
  ASSUME NEW d \in Database, InPlace(d), NEW id \in Ids
  PROVE  /\ Get(d, id) \in Record \cup {NoRec}
         /\ Get(d, id) = NoRec => \A m \in Level : d[m][id] = NoRec
         /\ Get(d, id) # NoRec =>
              /\ Get(d, id) \in Record
              /\ d[owning(Get(d, id).scope)][id] = Get(d, id)
  BY DEF Get, Level, Database, InPlace

(* What the effect of a Put is on a reader, when nothing hides it. *)
LEMMA PutShows ==
  ASSUME NEW d \in Database, InPlace(d), NEW e \in Database, NEW id \in Ids, NEW rec \in Record,
         \A m \in Level, j \in Ids :
           e[m][j] = IF m = owning(rec.scope) /\ j = id THEN rec ELSE d[m][j]
  PROVE  /\ InPlace(e)
         /\ \A j \in Ids : j # id => Get(e, j) = Get(d, j)
         /\ (Get(d, id) # NoRec => owning(Get(d, id).scope) = owning(rec.scope))
              => Get(e, id) = rec /\ (OneCopy(d) => OneCopy(e))
<1>1. rec # NoRec /\ owning(rec.scope) \in Level
  BY RecordFields, OwningLevel
<1>2. InPlace(e)
  BY <1>1 DEF InPlace
<1>3. \A j \in Ids : j # id => Get(e, j) = Get(d, j)
  BY GetOther
<1> DEFINE unhidden == Get(d, id) # NoRec => owning(Get(d, id).scope) = owning(rec.scope)
<1>4. ASSUME unhidden PROVE Get(e, id) = rec
  <2>1. CASE Get(d, id) = NoRec
    <3>1. \A m \in Level : e[m][id] = IF m = owning(rec.scope) THEN rec ELSE NoRec
      BY <2>1, GetLevel
    <3> QED BY <1>1, <3>1 DEF Get, Level
  <2>2. CASE Get(d, id) # NoRec
    <3>1. d[owning(rec.scope)][id] = Get(d, id)
      BY <1>4, <2>2, GetLevel
    <3>2. \A m \in Level : e[m][id] = IF m = owning(rec.scope) THEN rec ELSE d[m][id]
      OBVIOUS
    <3>3. ASSUME NEW m \in Level, m # owning(rec.scope), d[m][id] # NoRec
          PROVE  d[m][id] # Get(d, id)
      <4>1. owning(d[m][id].scope) = m
        BY <3>3 DEF InPlace
      <4> QED BY <1>4, <2>2, <3>3, <4>1
    <3> QED BY <1>1, <2>2, <3>1, <3>2, <3>3 DEF Get, Level
  <2> QED BY <2>1, <2>2
<1>5. ASSUME unhidden, OneCopy(d) PROVE OneCopy(e)
  <2> SUFFICES ASSUME NEW l \in Level, NEW m \in Level, NEW j \in Ids,
                      e[l][j] # NoRec, e[m][j] # NoRec
               PROVE  l = m
    BY DEF OneCopy
  <2>1. CASE j # id
    BY <1>5, <2>1 DEF OneCopy
  <2>2. CASE j = id /\ Get(d, id) = NoRec
    <3>1. \A n \in Level : e[n][id] = IF n = owning(rec.scope) THEN rec ELSE NoRec
      BY <2>2, GetLevel
    <3> QED BY <2>2, <3>1
  <2>3. CASE j = id /\ Get(d, id) # NoRec
    <3>1. d[owning(rec.scope)][id] # NoRec
      BY <1>5, <2>3, GetLevel
    <3>2. \A n \in Level : d[n][id] # NoRec => n = owning(rec.scope)
      BY <1>1, <1>5, <3>1 DEF OneCopy
    <3> QED BY <2>3, <3>2
  <2> QED BY <2>1, <2>2, <2>3
<1> QED BY <1>2, <1>3, <1>4, <1>5

LEMMA DeleteShows ==
  ASSUME NEW d \in Database, InPlace(d), NEW e \in Database, NEW id \in Ids,
         \A m \in Level, j \in Ids : e[m][j] = IF j = id THEN NoRec ELSE d[m][j]
  PROVE  /\ InPlace(e)
         /\ Get(e, id) = NoRec
         /\ \A j \in Ids : j # id => Get(e, j) = Get(d, j)
         /\ OneCopy(d) => OneCopy(e)
<1>1. InPlace(e)
  BY DEF InPlace
<1>2. Get(e, id) = NoRec
  BY GetNone
<1>3. \A j \in Ids : j # id => Get(e, j) = Get(d, j)
  BY GetOther
<1>4. OneCopy(d) => OneCopy(e)
  BY DEF OneCopy
<1> QED BY <1>1, <1>2, <1>3, <1>4

(* One copy goes to another level, or to a scope of the same level. *)
LEMMA MoveShows ==
  ASSUME NEW d \in Database, InPlace(d), NEW e \in Database, NEW id \in Ids,
         NEW cur \in Record, NEW rec \in Record,
         \A m \in Level, j \in Ids :
           e[m][j] = IF j # id THEN d[m][j]
                     ELSE IF m = owning(rec.scope) THEN rec
                     ELSE IF m = owning(cur.scope) THEN NoRec ELSE d[m][j]
  PROVE  /\ InPlace(e)
         /\ \A j \in Ids : j # id => Get(e, j) = Get(d, j)
         /\ OneCopy(d) /\ Get(d, id) = cur => OneCopy(e) /\ Get(e, id) = rec
<1>1. /\ rec # NoRec /\ owning(rec.scope) \in Level
      /\ cur # NoRec /\ owning(cur.scope) \in Level
  BY RecordFields, OwningLevel
<1>2. InPlace(e)
  BY <1>1 DEF InPlace
<1>3. \A j \in Ids : j # id => Get(e, j) = Get(d, j)
  BY GetOther
<1>4. ASSUME OneCopy(d), Get(d, id) = cur PROVE OneCopy(e) /\ Get(e, id) = rec
  <2>1. d[owning(cur.scope)][id] # NoRec
    BY <1>1, <1>4, GetLevel
  <2>2. \A m \in Level : m # owning(cur.scope) => d[m][id] = NoRec
    BY <1>1, <1>4, <2>1 DEF OneCopy
  <2>3. \A m \in Level : e[m][id] = IF m = owning(rec.scope) THEN rec ELSE NoRec
    BY <2>2
  <2>4. Get(e, id) = rec
    BY <1>1, <2>3 DEF Get, Level
  <2>5. OneCopy(e)
    <3> SUFFICES ASSUME NEW l \in Level, NEW m \in Level, NEW j \in Ids,
                        e[l][j] # NoRec, e[m][j] # NoRec
                 PROVE  l = m
      BY DEF OneCopy
    <3>1. CASE j # id
      BY <1>4, <3>1 DEF OneCopy
    <3>2. CASE j = id
      BY <2>3, <3>2
    <3> QED BY <3>1, <3>2
  <2> QED BY <2>4, <2>5
<1> QED BY <1>2, <1>3, <1>4

-----------------------------------------------------------------------------
(* What one more revision says.  js is the journal, ks the one with r.     *)

Grows(js, ks, r) ==
  /\ ks \in Seq(Revision) /\ r \in Revision
  /\ Len(js) \in Nat /\ Len(ks) = Len(js) + 1 /\ ks # <<>>
  /\ DOMAIN ks = DOMAIN js \cup {Len(js) + 1} /\ Len(js) + 1 \notin DOMAIN js
  /\ \A i \in DOMAIN js : /\ i \in Nat /\ i < Len(js) + 1 /\ i <= Len(js) + 1
                          /\ ks[i] = js[i] /\ ks[i] \in Revision
  /\ ks[Len(js) + 1] = r

LEMMA JournalGrows ==
  ASSUME NEW js \in Seq(Revision), NEW r \in Revision
  PROVE  Grows(js, Append(js, r), r)
  BY DEF Grows

LEMMA NumbersGrow ==
  ASSUME NEW js, NEW ks, NEW r, Grows(js, ks, r), Numbered(js),
         r.seq = Len(js) + 1, r.op = "undo" => r.ref \in DOMAIN js
  PROVE  Numbered(ks)
<1> SUFFICES ASSUME NEW i \in DOMAIN ks
             PROVE  ks[i].seq = i /\ (ks[i].op = "undo" => ks[i].ref < i)
  BY DEF Numbered
<1>1. CASE i \in DOMAIN js
  BY <1>1 DEF Numbered, Grows
<1>2. CASE i = Len(js) + 1
  BY <1>2 DEF Grows
<1> QED BY <1>1, <1>2 DEF Grows

LEMMA FormsGrow ==
  ASSUME NEW js, NEW ks, NEW r, Grows(js, ks, r),
         \A i \in DOMAIN js : Formed(js[i]), Formed(r)
  PROVE  \A i \in DOMAIN ks : Formed(ks[i])
  BY DEF Grows

LEMMA OpsGrow ==
  ASSUME NEW js, NEW ks, NEW r, Grows(js, ks, r), NEW ops, OnlyOps(ks, ops)
  PROVE  OnlyOps(js, ops) /\ r.op \in ops
  BY DEF OnlyOps, Grows

(* The old revisions say what they said. *)
LEMMA SaysSame ==
  ASSUME NEW js, NEW ks, NEW r, Grows(js, ks, r), NEW S, S \subseteq DOMAIN js,
         NEW id, NEW v, SaysOf(js, S, id, v)
  PROVE  SaysOf(ks, S, id, v)
<1>1. Touching(ks, S, id) = Touching(js, S, id)
  BY DEF Touching, Grows
<1>2. \A i \in Touching(js, S, id) : ks[i] = js[i]
  BY DEF Touching, Grows
<1> QED BY <1>1, <1>2 DEF SaysOf

(* The new one has the last word about its id, and none about the others. *)
LEMMA SaysLast ==
  ASSUME NEW js, NEW ks, NEW r, Grows(js, ks, r), NEW S, S \subseteq DOMAIN js
  PROVE  SaysOf(ks, S \cup {Len(js) + 1}, r.id, r.after)
<1> DEFINE n == Len(js) + 1
           T == Touching(ks, S \cup {n}, r.id)
<1>1. n \in T /\ ks[n] = r /\ n \in Nat
  BY DEF Touching, Grows
<1>2. \A k \in T : k <= n
  BY DEF Touching, Grows
<1> HIDE DEF n, T
<1>3. \E i \in T : (\A k \in T : k <= i) /\ r.after = ks[i].after
  BY <1>1, <1>2
<1> QED BY <1>3 DEF SaysOf, T, n

LEMMA SaysOthers ==
  ASSUME NEW js, NEW ks, NEW r, Grows(js, ks, r), NEW S, S \subseteq DOMAIN js,
         NEW id, id # r.id, NEW v, SaysOf(js, S, id, v)
  PROVE  SaysOf(ks, S \cup {Len(js) + 1}, id, v)
<1>1. Touching(ks, S \cup {Len(js) + 1}, id) = Touching(js, S, id)
  BY DEF Touching, Grows
<1>2. \A i \in Touching(js, S, id) : ks[i] = js[i]
  BY DEF Touching, Grows
<1> QED BY <1>1, <1>2 DEF SaysOf

LEMMA CurrentGrows ==
  ASSUME NEW js, NEW ks, NEW r, Grows(js, ks, r), NEW d, NEW e, Current(d, js),
         Get(e, r.id) = r.after, \A j \in Ids : j # r.id => Get(e, j) = Get(d, j)
  PROVE  Current(e, ks)
<1>1. DOMAIN ks = DOMAIN js \cup {Len(js) + 1}
  BY DEF Grows
<1> SUFFICES ASSUME NEW id \in Ids
             PROVE  SaysOf(ks, DOMAIN js \cup {Len(js) + 1}, id, Get(e, id))
  BY <1>1 DEF Current
<1>2. CASE id = r.id
  BY <1>2, SaysLast
<1>3. CASE id # r.id
  <2>1. SaysOf(js, DOMAIN js, id, Get(e, id))
    BY <1>3 DEF Current
  <2> QED BY <1>3, <2>1, SaysOthers
<1> QED BY <1>2, <1>3

(* A change stands, and what stood before it stands. *)
LEMMA PushStands ==
  ASSUME NEW js, NEW ks, NEW r, Grows(js, ks, r), Numbered(js), Numbered(ks), r.op # "undo"
  PROVE  Standing(ks) = Standing(js) \cup {Len(js) + 1}
<1> DEFINE n == Len(js) + 1
<1>1. ASSUME NEW i \in DOMAIN js PROVE Stands(ks, i) <=> Stands(js, i)
  BY <1>1 DEF Stands, Grows
<1>2. Stands(ks, n)
  <2> SUFFICES ASSUME NEW k \in DOMAIN ks, ks[k].op = "undo" PROVE ks[k].ref # ks[n].seq
    BY DEF Stands, Grows
  <2>1. k \in DOMAIN js
    BY DEF Grows
  <2>2. ks[k].ref < k /\ k < n /\ ks[n].seq = n /\ ks[k].ref \in Nat /\ k \in Nat /\ n \in Nat
    BY <2>1 DEF Numbered, Revision, Grows
  <2> QED BY <2>2
<1> QED BY <1>1, <1>2 DEF Standing, Grows

(* An undo does not stand, nor does what it undoes. *)
LEMMA PopStands ==
  ASSUME NEW js, NEW ks, NEW r, Grows(js, ks, r), Numbered(js), r.op = "undo",
         NEW i \in Standing(js), r.ref = i
  PROVE  Standing(ks) = Standing(js) \ {i}
<1> DEFINE n == Len(js) + 1
<1>1. ~Stands(ks, n)
  BY DEF Stands, Grows
<1>2. ASSUME NEW k \in DOMAIN js PROVE Stands(ks, k) <=> Stands(js, k) /\ k # i
  <2>1. ks[k] = js[k] /\ js[k].seq = k
    BY DEF Numbered, Grows
  <2>2. /\ \A m \in DOMAIN js : ks[m] = js[m]
        /\ DOMAIN ks = DOMAIN js \cup {n} /\ ks[n] = r
    BY DEF Grows
  <2> HIDE DEF n
  <2> QED BY <2>1, <2>2 DEF Stands
<1>3. DOMAIN ks = DOMAIN js \cup {n}
  BY DEF Grows
<1> HIDE DEF n
<1>4. Standing(ks) = {k \in DOMAIN js : Stands(js, k) /\ k # i}
  BY <1>1, <1>2, <1>3 DEF Standing
<1> QED BY <1>4 DEF Standing

(* A change goes on top of what stands. *)
LEMMA StackPush ==
  ASSUME NEW js, NEW ks, NEW r, Grows(js, ks, r), Numbered(js), Numbered(ks),
         r.op # "undo", NEW d, NEW e, Stacked(d, js), OneCopy(e),
         r.before = Get(d, r.id), Get(e, r.id) = r.after,
         \A j \in Ids : j # r.id => Get(e, j) = Get(d, j)
  PROVE  Stacked(e, ks)
<1> DEFINE n == Len(js) + 1
           S == Standing(js)
<1>1. S \subseteq DOMAIN js
  BY DEF Standing
<1>2. Standing(ks) = S \cup {n}
  BY PushStands
<1>3. ASSUME NEW id \in Ids PROVE SaysOf(ks, S \cup {n}, id, Get(e, id))
  <2>1. CASE id = r.id
    <3>1. SaysOf(ks, S \cup {n}, r.id, r.after)
      BY <1>1, SaysLast
    <3> QED BY <2>1, <3>1
  <2>2. CASE id # r.id
    <3>1. SaysOf(js, S, id, Get(e, id))
      BY <2>2 DEF Stacked
    <3> QED BY <1>1, <2>2, <3>1, SaysOthers
  <2> QED BY <2>1, <2>2
<1>4. ASSUME NEW i \in S \cup {n}
      PROVE  SaysOf(ks, {k \in S \cup {n} : k < i}, ks[i].id, ks[i].before)
  <2>1. CASE i \in S
    <3>1. {k \in S \cup {n} : k < i} = {k \in S : k < i}
      BY <1>1, <2>1 DEF Grows
    <3>2. SaysOf(js, {k \in S : k < i}, js[i].id, js[i].before)
      BY <2>1 DEF Stacked
    <3>3. {k \in S : k < i} \subseteq DOMAIN js
      BY <1>1
    <3>4. SaysOf(ks, {k \in S : k < i}, js[i].id, js[i].before)
      BY <3>2, <3>3, SaysSame
    <3>5. ks[i] = js[i]
      BY <1>1, <2>1 DEF Grows
    <3> QED BY <3>1, <3>4, <3>5
  <2>2. CASE i = n
    <3>1. {k \in S \cup {n} : k < n} = S
      BY <1>1 DEF Grows
    <3>2. r.id \in Ids
      BY DEF Grows, Revision
    <3>3. SaysOf(js, S, r.id, r.before)
      BY <3>2 DEF Stacked
    <3>4. SaysOf(ks, S, r.id, r.before)
      BY <1>1, <3>3, SaysSame
    <3>5. ks[n] = r
      BY DEF Grows
    <3> QED BY <2>2, <3>1, <3>4, <3>5
  <2> QED BY <2>1, <2>2
<1> QED BY <1>2, <1>3, <1>4 DEF Stacked

(* An undo takes the topmost change away. *)
LEMMA StackPop ==
  ASSUME NEW js, NEW ks, NEW r, Grows(js, ks, r), Numbered(js), Numbered(ks),
         r.op = "undo", NEW i \in Standing(js), \A k \in Standing(js) : k <= i,
         r.ref = i, r.id = js[i].id, NEW d, NEW e, Stacked(d, js), OneCopy(e),
         Get(e, r.id) = js[i].before,
         \A j \in Ids : j # r.id => Get(e, j) = Get(d, j)
  PROVE  Stacked(e, ks)
<1> DEFINE n == Len(js) + 1
           S == Standing(js)
           T == {k \in S : k < i}
<1>1. S \subseteq DOMAIN js /\ T \subseteq DOMAIN js /\ i \in DOMAIN js
  BY DEF Standing
<1>2. T = S \ {i}
  BY <1>1 DEF Grows
<1>3. Standing(ks) = T
  BY <1>2, PopStands
<1>4. ASSUME NEW id \in Ids PROVE SaysOf(ks, T, id, Get(e, id))
  <2>1. CASE id = r.id
    <3>1. SaysOf(js, T, js[i].id, js[i].before)
      BY DEF Stacked
    <3> QED BY <1>1, <2>1, <3>1, SaysSame
  <2>2. CASE id # r.id
    <3>1. SaysOf(js, S, id, Get(e, id))
      BY <2>2 DEF Stacked
    <3>2. Touching(js, T, id) = Touching(js, S, id)
      BY <1>2, <2>2 DEF Touching
    <3>3. SaysOf(js, T, id, Get(e, id))
      BY <3>1, <3>2 DEF SaysOf
    <3> QED BY <1>1, <3>3, SaysSame
  <2> QED BY <2>1, <2>2
<1>5. ASSUME NEW j \in T
      PROVE  SaysOf(ks, {k \in T : k < j}, ks[j].id, ks[j].before)
  <2>1. {k \in T : k < j} = {k \in S : k < j}
    BY <1>1, <1>5 DEF Grows
  <2>2. SaysOf(js, {k \in S : k < j}, js[j].id, js[j].before)
    BY <1>5 DEF Stacked
  <2>3. {k \in S : k < j} \subseteq DOMAIN js
    BY <1>1
  <2>4. SaysOf(ks, {k \in S : k < j}, js[j].id, js[j].before)
    BY <2>2, <2>3, SaysSame
  <2>5. ks[j] = js[j]
    BY <1>1 DEF Grows
  <2> QED BY <2>1, <2>4, <2>5
<1> QED BY <1>3, <1>4, <1>5 DEF Stacked

(* Only a revert says anything about a revert. *)
LEMMA NotReverted ==
  ASSUME NEW js, NEW ks, NEW r, Grows(js, ks, r), r.op # "revert", NEW e
  PROVE  Reverted(e, ks)
  BY DEF Reverted, Grows

-----------------------------------------------------------------------------
(* What keeps Kept: a change, an undo, and a revert or a cherry-pick.      *)

LEMMA ChangeKept ==
  ASSUME GoodJournal, Kept(db, journal), NEW r \in Revision, r.op \in {"put", "delete", "move"},
         r.seq = Len(journal) + 1, Formed(r), r.before = Get(db, r.id),
         NEW e, InPlace(e), \A j \in Ids : j # r.id => Get(e, j) = Get(db, j),
         OneCopy(db) => OneCopy(e) /\ Get(e, r.id) = r.after,
         r.op # "move" => Get(e, r.id) = r.after
  PROVE  Kept(e, Append(journal, r))
<1> DEFINE ks == Append(journal, r)
<1>1. Grows(journal, ks, r)
  BY JournalGrows DEF GoodJournal
<1>2. /\ Numbered(journal) /\ (\A i \in DOMAIN journal : Formed(journal[i]))
      /\ OnlyOps(journal, UndoOps) => Stacked(db, journal)
      /\ OnlyOps(journal, PickOps) => Current(db, journal)
  BY DEF Kept
<1> HIDE DEF ks
<1>3. Numbered(ks)
  BY <1>1, <1>2, NumbersGrow
<1>4. \A i \in DOMAIN ks : Formed(ks[i])
  BY <1>1, <1>2, FormsGrow
<1>5. ASSUME OnlyOps(ks, UndoOps) PROVE Stacked(e, ks)
  <2>1. Stacked(db, journal)
    BY <1>1, <1>2, <1>5, OpsGrow
  <2>2. OneCopy(e) /\ Get(e, r.id) = r.after
    BY <2>1 DEF Stacked
  <2>3. r.op # "undo"
    OBVIOUS
  <2> QED BY <1>1, <1>2, <1>3, <2>1, <2>2, <2>3, StackPush
<1>6. ASSUME OnlyOps(ks, PickOps) PROVE Current(e, ks)
  <2>1. Current(db, journal) /\ r.op # "move"
    BY <1>1, <1>2, <1>6, OpsGrow DEF PickOps
  <2> QED BY <1>1, <2>1, CurrentGrows
<1>7. Reverted(e, ks)
  BY <1>1, NotReverted
<1> QED BY <1>3, <1>4, <1>5, <1>6, <1>7 DEF Kept, ks

LEMMA UndoKept ==
  ASSUME GoodJournal, Kept(db, journal), NEW r \in Revision, r.op = "undo",
         r.seq = Len(journal) + 1, NEW i \in Standing(journal),
         \A k \in Standing(journal) : k <= i, r.ref = i, r.id = journal[i].id,
         NEW e, InPlace(e), \A j \in Ids : j # r.id => Get(e, j) = Get(db, j),
         Stacked(db, journal) /\ journal[i].op \in UndoOps
           => OneCopy(e) /\ Get(e, r.id) = journal[i].before
  PROVE  Kept(e, Append(journal, r))
<1> DEFINE ks == Append(journal, r)
<1>1. Grows(journal, ks, r)
  BY JournalGrows DEF GoodJournal
<1>2. /\ Numbered(journal) /\ (\A k \in DOMAIN journal : Formed(journal[k]))
      /\ OnlyOps(journal, UndoOps) => Stacked(db, journal)
      /\ i \in DOMAIN journal
  BY DEF Kept, Standing
<1> HIDE DEF ks
<1>3. Numbered(ks)
  BY <1>1, <1>2, NumbersGrow
<1>4. \A k \in DOMAIN ks : Formed(ks[k])
  <2>1. Formed(r)
    BY DEF Formed
  <2> QED BY <1>1, <1>2, <2>1, FormsGrow
<1>5. ASSUME OnlyOps(ks, UndoOps) PROVE Stacked(e, ks)
  <2>1. Stacked(db, journal) /\ OnlyOps(journal, UndoOps)
    BY <1>1, <1>2, <1>5, OpsGrow
  <2>2. OneCopy(e) /\ Get(e, r.id) = journal[i].before
    BY <1>2, <2>1 DEF OnlyOps
  <2> QED BY <1>1, <1>2, <1>3, <2>1, <2>2, StackPop
<1>6. ASSUME OnlyOps(ks, PickOps) PROVE Current(e, ks)
  BY <1>1, <1>6, OpsGrow DEF PickOps
<1>7. Reverted(e, ks)
  BY <1>1, NotReverted
<1> QED BY <1>3, <1>4, <1>5, <1>6, <1>7 DEF Kept, ks

LEMMA PickKept ==
  ASSUME GoodJournal, Kept(db, journal), NEW r \in Revision, r.op \in {"revert", "cherry-pick"},
         r.seq = Len(journal) + 1,
         NEW e, InPlace(e), \A j \in Ids : j # r.id => Get(e, j) = Get(db, j),
         r.after = Get(e, r.id),
         r.op = "revert" => Reverted(e, Append(journal, r))
  PROVE  Kept(e, Append(journal, r))
<1> DEFINE ks == Append(journal, r)
<1>1. Grows(journal, ks, r)
  BY JournalGrows DEF GoodJournal
<1>2. /\ Numbered(journal) /\ (\A k \in DOMAIN journal : Formed(journal[k]))
      /\ OnlyOps(journal, PickOps) => Current(db, journal)
  BY DEF Kept
<1>3. r.op = "revert" => Reverted(e, ks)
  OBVIOUS
<1> HIDE DEF ks
<1>4. Numbered(ks)
  BY <1>1, <1>2, NumbersGrow
<1>5. \A k \in DOMAIN ks : Formed(ks[k])
  <2>1. Formed(r)
    BY DEF Formed
  <2> QED BY <1>1, <1>2, <2>1, FormsGrow
<1>6. ~OnlyOps(ks, UndoOps)
  BY <1>1, OpsGrow DEF UndoOps
<1>7. ASSUME OnlyOps(ks, PickOps) PROVE Current(e, ks)
  <2>1. Current(db, journal)
    BY <1>1, <1>2, <1>7, OpsGrow
  <2> QED BY <1>1, <2>1, CurrentGrows
<1>8. Reverted(e, ks)
  BY <1>1, <1>3, NotReverted
<1> QED BY <1>4, <1>5, <1>6, <1>7, <1>8 DEF Kept, ks

-----------------------------------------------------------------------------
(* The start of each command, alone.                                       *)

(* What is noted of a revision made by Rev. *)
LEMMA NotedRev ==
  ASSUME NEW d, NEW op, NEW id, NEW by, NEW ref, NEW before, NEW after
  PROVE  LET rev == Rev(op, id, by, ref, before, after)
         IN /\ op \in {"put", "delete", "move", "undo"} => NotedIn(d, journal, rev) = rev
            /\ op \in {"revert", "cherry-pick"} =>
                 NotedIn(d, journal, rev) = Rev(op, id, by, ref, before, Get(d, id))
  BY DEF Rev, NotedIn

LEMMA BeginAhead ==
  ASSUME IInv, NEW p \in Procs, NEW command, NEW rev, NEW of, NEW writes \in Seq(Write),
         Len(writes) <= 3, Begin(p, command, rev, of, writes),
         NEW d, d = Carried(db, rev.id, writes),
         Kept(d, Append(journal, NotedIn(d, journal, rev)))
  PROVE  Ahead(p)'
<1>1. /\ UNCHANGED <<db, journal>>
      /\ pc' = [pc EXCEPT ![p] = IF writes = <<>> THEN "note" ELSE "write"]
      /\ work' = [work EXCEPT ![p] = [rev |-> rev, of |-> of, todo |-> writes]]
  BY DEF Begin
<1>2. work'[p].rev = rev /\ work'[p].todo = writes
  BY <1>1 DEF IInv, GoodWork
<1>3. pc'[p] \in {"note", "write"} /\ (pc'[p] = "note" => writes = <<>>)
  BY <1>1 DEF IInv, GoodWork
<1> QED BY <1>1, <1>2, <1>3 DEF Ahead

LEMMA CommitAhead ==
  ASSUME IInv, NEW p \in Procs, KeepsScope, Kept(db, journal), storeCommit(p)
  PROVE  Ahead(p)'
<1> PICK by \in Actors, id \in Ids, body \in Bodies, scope \in CommitScopes, flag \in StatusFlags :
      LET before == Get(db, id)
          rec == [scope |-> scope, body |-> body, prov |-> by,
                  status |-> CommitStatus(by, before, flag)]
      IN /\ before # NoRec => scope = before.scope
         /\ Begin(p, "commit", Rev("put", id, by, 0, before, rec), "put", Put(rec))
  BY DEF storeCommit
<1> DEFINE before == Get(db, id)
           rec == [scope |-> scope, body |-> body, prov |-> by,
                   status |-> CommitStatus(by, before, flag)]
           rev == Rev("put", id, by, 0, before, rec)
           d == Carried(db, id, Put(rec))
<1>1. before # NoRec => rec.scope = before.scope
  OBVIOUS
<1>2. Begin(p, "commit", rev, "put", Put(rec))
  OBVIOUS
<1>3. db \in Database /\ InPlace(db) /\ GoodJournal /\ before \in Record \cup {NoRec}
  BY GetGood DEF IInv, GoodDb, Kept, GoodRec
<1>4. rec \in Record
  <2>1. by \in Provenance /\ scope \in Scope
    BY ActorsAssumption, ScopesAssumption
  <2>2. CommitStatus(by, before, flag) \in Status
    BY <1>3, FlagsAssumption, RecordFields DEF CommitStatus, Status
  <2> QED BY <2>1, <2>2 DEF Record
<1>5. before = Get(db, id)
  OBVIOUS
<1>6. by \in Provenance
  BY ActorsAssumption
<1> HIDE DEF before, rec
<1>7. /\ d \in Database
      /\ \A m \in Level, j \in Ids :
           d[m][j] = IF m = owning(rec.scope) /\ j = id THEN rec ELSE db[m][j]
  BY <1>3, <1>4, CarriedPut
<1> HIDE DEF d
<1>8. /\ InPlace(d) /\ Get(d, id) = rec
      /\ \A j \in Ids : j # id => Get(d, j) = Get(db, j)
      /\ OneCopy(db) => OneCopy(d)
  <2>1. /\ InPlace(d)
        /\ \A j \in Ids : j # id => Get(d, j) = Get(db, j)
        /\ (Get(db, id) # NoRec => owning(Get(db, id).scope) = owning(rec.scope))
             => Get(d, id) = rec /\ (OneCopy(db) => OneCopy(d))
    BY <1>3, <1>4, <1>7, PutShows
  <2> QED BY <1>1, <1>5, <2>1
<1>9. /\ rev.id = id /\ rev.op = "put" /\ rev.before = before /\ rev.after = rec
      /\ rev.seq = Len(journal) + 1 /\ rev \in Revision
  BY <1>3, <1>4, <1>6 DEF Rev, Revision, Op, GoodJournal
<1>10. NotedIn(d, journal, rev) = rev
  BY NotedRev
<1>11. Formed(rev)
  BY <1>1, <1>4, <1>9, RecordFields DEF Formed
<1> HIDE DEF rev
<1>12. Kept(d, Append(journal, rev))
  BY <1>3, <1>5, <1>8, <1>9, <1>11, ChangeKept
<1>13. Put(rec) \in Seq(Write) /\ Len(Put(rec)) <= 3
  BY <1>4, RecordFields, OwningLevel DEF Put, Write
<1>14. d = Carried(db, rev.id, Put(rec))
  BY <1>9 DEF d
<1> QED BY <1>2, <1>10, <1>12, <1>13, <1>14, BeginAhead

(* A Delete has a write for each level that is there. *)
LEMMA DeleteShort == Delete \in Seq(Write) /\ Len(Delete) <= 3
<1>1. Delete \in Seq(Write)
  BY DeleteGood DEF GoodWrites
<1>2. present \in Seq(Level) /\ Len(present) <= 3
  <2>1. {"project", "workspace", "global"} \subseteq Level
    BY DEF Level
  <2>2. CASE HasSpace
    BY <2>1, <2>2 DEF present
  <2>3. CASE ~HasSpace
    BY <2>1, <2>3 DEF present
  <2> QED BY <2>2, <2>3
<1>3. DOMAIN Delete = 1..Len(present)
  BY <1>2 DEF Delete
<1>4. Len(Delete) = Len(present)
  BY <1>1, <1>2, <1>3
<1> QED BY <1>1, <1>2, <1>4

LEMMA RmAhead ==
  ASSUME IInv, NEW p \in Procs, Kept(db, journal), storeRm(p)
  PROVE  Ahead(p)'
<1> PICK id \in Ids :
      /\ Get(db, id) # NoRec
      /\ Begin(p, "rm", Rev("delete", id, "human", 0, Get(db, id), NoRec), "delete", Delete)
  BY DEF storeRm
<1> DEFINE rev == Rev("delete", id, "human", 0, Get(db, id), NoRec)
           d == Carried(db, id, Delete)
<1>1. db \in Database /\ InPlace(db) /\ GoodJournal /\ Get(db, id) \in Record \cup {NoRec}
  BY GetGood DEF IInv, GoodDb, Kept, GoodRec
<1>2. /\ d \in Database
      /\ \A m \in Level, j \in Ids : d[m][j] = IF j = id THEN NoRec ELSE db[m][j]
  BY <1>1, CarriedDelete
<1> HIDE DEF d
<1>3. /\ InPlace(d) /\ Get(d, id) = NoRec
      /\ \A j \in Ids : j # id => Get(d, j) = Get(db, j)
      /\ OneCopy(db) => OneCopy(d)
  BY <1>1, <1>2, DeleteShows
<1>4. /\ rev.id = id /\ rev.op = "delete" /\ rev.before = Get(db, id) /\ rev.after = NoRec
      /\ rev.seq = Len(journal) + 1 /\ rev \in Revision
  BY <1>1 DEF Rev, Revision, Op, Provenance, GoodJournal
<1>5. NotedIn(d, journal, rev) = rev
  BY NotedRev
<1>6. Formed(rev)
  BY <1>4 DEF Formed
<1>7. Begin(p, "rm", rev, "delete", Delete)
  OBVIOUS
<1> HIDE DEF rev
<1>8. Kept(d, Append(journal, rev))
  BY <1>1, <1>3, <1>4, <1>6, ChangeKept
<1>9. d = Carried(db, rev.id, Delete)
  BY <1>4 DEF d
<1> QED BY <1>5, <1>7, <1>8, <1>9, DeleteShort, BeginAhead

LEMMA MoveAhead ==
  ASSUME IInv, NEW p \in Procs, Kept(db, journal), storeMove(p)
  PROVE  Ahead(p)'
<1> PICK id \in Ids, to \in Scope :
      LET cur == Get(db, id)
          moved == [cur EXCEPT !.scope = to]
      IN /\ cur # NoRec
         /\ Begin(p, "move", MoveRev(cur, moved, id), "move", MoveWrites(cur, moved))
  BY DEF storeMove
<1> DEFINE cur == Get(db, id)
           moved == [cur EXCEPT !.scope = to]
           rev == MoveRev(cur, moved, id)
           ws == MoveWrites(cur, moved)
           d == Carried(db, id, ws)
           erase == [level |-> owning(cur.scope), rec |-> NoRec]
           add == [level |-> owning(moved.scope), rec |-> moved]
<1>1. cur # NoRec /\ Begin(p, "move", rev, "move", ws)
  OBVIOUS
<1>2. /\ db \in Database /\ InPlace(db) /\ GoodJournal
      /\ cur \in Record
  BY <1>1, GetGood DEF IInv, GoodDb, Kept, GoodRec
<1>3. moved \in Record
  BY <1>2 DEF Record
<1>4. cur = Get(db, id)
  OBVIOUS
<1> HIDE DEF cur, moved
<1>5. owning(cur.scope) \in Level /\ owning(moved.scope) \in Level
  BY <1>2, <1>3, RecordFields, OwningLevel
<1>6. add \in Write /\ erase \in Write
  BY <1>3, <1>5 DEF Write
<1>7. /\ ws \in Seq(Write) /\ Len(ws) <= 3 /\ d \in Database
      /\ \A m \in Level, j \in Ids :
           d[m][j] = IF j # id THEN db[m][j]
                     ELSE IF m = owning(moved.scope) THEN moved
                     ELSE IF m = owning(cur.scope) THEN NoRec ELSE db[m][j]
  <2>1. CASE owning(cur.scope) = owning(moved.scope)
    <3>1. ws = Put(moved)
      <4>1. Put(moved) \in Seq(Write)
        BY <1>6 DEF Put
      <4> HIDE DEF erase
      <4>2. ws = Put(moved) \o <<>>
        BY <2>1 DEF MoveWrites
      <4> QED BY <4>1, <4>2
    <3>2. Put(moved) \in Seq(Write) /\ Len(Put(moved)) <= 3
      BY <1>6 DEF Put
    <3>3. /\ Carried(db, id, Put(moved)) \in Database
          /\ \A m \in Level, j \in Ids :
               Carried(db, id, Put(moved))[m][j] =
                 IF m = owning(moved.scope) /\ j = id THEN moved ELSE db[m][j]
      BY <1>2, <1>3, CarriedPut
    <3>4. d = Carried(db, id, Put(moved))
      BY <3>1
    <3> HIDE DEF ws, d
    <3> QED BY <2>1, <3>1, <3>2, <3>3, <3>4
  <2>2. CASE owning(cur.scope) # owning(moved.scope)
    <3>1. ws = <<add, erase>>
      <4>1. ws = <<add>> \o <<erase>>
        BY <2>2 DEF MoveWrites, Put
      <4> HIDE DEF add, erase
      <4> QED BY <1>6, <4>1, Pair
    <3> DEFINE e == Written(db, id, add)
               f == Written(e, id, erase)
    <3>2. d = f
      <4> HIDE DEF add, erase, ws
      <4> QED BY <3>1, CarriedTwo
    <3>3. /\ e \in Database
          /\ \A m \in Level, j \in Ids :
               e[m][j] = IF m = owning(moved.scope) /\ j = id THEN moved ELSE db[m][j]
      BY <1>2, <1>3, <1>5, WrittenAt
    <3> HIDE DEF e
    <3>4. /\ f \in Database
          /\ \A m \in Level, j \in Ids :
               f[m][j] = IF m = owning(cur.scope) /\ j = id THEN NoRec ELSE e[m][j]
      BY <1>5, <3>3, WrittenAt
    <3>5. ws \in Seq(Write) /\ Len(ws) <= 3
      <4> HIDE DEF add, erase, ws
      <4> QED BY <1>6, <3>1
    <3> HIDE DEF f, d, ws
    <3> QED BY <2>2, <3>2, <3>3, <3>4, <3>5
  <2> QED BY <2>1, <2>2
<1> HIDE DEF d, ws, add, erase
<1>8. /\ InPlace(d)
      /\ \A j \in Ids : j # id => Get(d, j) = Get(db, j)
      /\ OneCopy(db) => OneCopy(d) /\ Get(d, id) = moved
  <2>1. /\ InPlace(d)
        /\ \A j \in Ids : j # id => Get(d, j) = Get(db, j)
        /\ OneCopy(db) /\ Get(db, id) = cur => OneCopy(d) /\ Get(d, id) = moved
    BY <1>2, <1>3, <1>7, MoveShows
  <2> QED BY <1>4, <2>1
<1>9. /\ rev.id = id /\ rev.op = "move" /\ rev.before = cur /\ rev.after = moved
      /\ rev.seq = Len(journal) + 1 /\ rev \in Revision
  BY <1>2, <1>3 DEF MoveRev, Rev, Revision, Op, Provenance, GoodJournal
<1>10. NotedIn(d, journal, rev) = rev
  BY NotedRev DEF MoveRev
<1>11. Formed(rev)
  BY <1>2, <1>3, <1>9, RecordFields DEF Formed
<1> HIDE DEF rev
<1>12. Kept(d, Append(journal, rev))
  BY <1>2, <1>4, <1>8, <1>9, <1>11, ChangeKept
<1>13. d = Carried(db, rev.id, ws)
  BY <1>9 DEF d
<1> QED BY <1>1, <1>7, <1>10, <1>12, <1>13, BeginAhead

(* The last change that stands is what the reader sees. *)
LEMMA TopShows ==
  ASSUME GoodJournal, Stacked(db, journal), NEW i \in Standing(journal), journal[i].id \in Ids,
         \A k \in Standing(journal) : k <= i
  PROVE  Get(db, journal[i].id) = journal[i].after
<1> DEFINE id == journal[i].id
           T == Touching(journal, Standing(journal), id)
<1>1. SaysOf(journal, Standing(journal), id, Get(db, id))
  BY DEF Stacked
<1>2. i \in T /\ T \subseteq Standing(journal) /\ T \subseteq Nat
  BY DEF Touching, Standing, GoodJournal
<1> HIDE DEF T
<1>3. PICK j \in T : (\A k \in T : k <= j) /\ Get(db, id) = journal[j].after
  BY <1>1, <1>2 DEF SaysOf, T
<1>4. i <= j /\ j <= i /\ i \in Nat /\ j \in Nat
  BY <1>2, <1>3
<1>5. i = j
  BY <1>4
<1> QED BY <1>3, <1>5

(* What the writes of an undo leave. *)
LEMMA RestoreShows ==
  ASSUME IInv, Kept(db, journal), NEW i \in Standing(journal),
         \A k \in Standing(journal) : k <= i, NEW d,
         d = Carried(db, journal[i].id, Restore(journal[i]))
  PROVE  /\ InPlace(d)
         /\ \A j \in Ids : j # journal[i].id => Get(d, j) = Get(db, j)
         /\ Stacked(db, journal) /\ journal[i].op \in UndoOps
              => OneCopy(d) /\ Get(d, journal[i].id) = journal[i].before
         /\ Restore(journal[i]) \in Seq(Write) /\ Len(Restore(journal[i])) <= 3
<1> DEFINE r == journal[i]
           id == r.id
<1>1. /\ db \in Database /\ InPlace(db) /\ GoodJournal /\ i \in DOMAIN journal
      /\ Stacked(db, journal) => OneCopy(db)
  BY DEF IInv, GoodDb, Kept, Standing, Stacked
<1>2. /\ id \in Ids /\ Formed(r)
      /\ r.before # NoRec => r.before \in Record
      /\ r.after # NoRec => r.after \in Record
      /\ r.op # "undo"
  BY <1>1, JournalRev DEF Kept, Standing, Stands
<1>3. Stacked(db, journal) => Get(db, id) = r.after
  BY <1>1, <1>2, TopShows
<1> SUFFICES /\ InPlace(d)
             /\ \A j \in Ids : j # id => Get(d, j) = Get(db, j)
             /\ Stacked(db, journal) /\ r.op \in UndoOps => OneCopy(d) /\ Get(d, id) = r.before
             /\ Restore(r) \in Seq(Write) /\ Len(Restore(r)) <= 3
  OBVIOUS
<1>4. d = Carried(db, id, Restore(r))
  OBVIOUS
<1>5. GoodWrites(Restore(r))
  BY <1>1, RestoreGood
<1> HIDE DEF r
<1>6. CASE r.op = "put" /\ r.before = NoRec
  <2>1. Restore(r) = Delete
    BY <1>6 DEF Restore
  <2>2. /\ d \in Database
        /\ \A m \in Level, j \in Ids : d[m][j] = IF j = id THEN NoRec ELSE db[m][j]
    BY <1>1, <1>2, <1>4, <2>1, CarriedDelete
  <2>3. /\ InPlace(d) /\ Get(d, id) = NoRec
        /\ \A j \in Ids : j # id => Get(d, j) = Get(db, j)
        /\ OneCopy(db) => OneCopy(d)
    BY <1>1, <1>2, <2>2, DeleteShows
  <2> QED BY <1>1, <1>6, <2>1, <2>3, DeleteShort
<1>7. CASE r.op \in {"put", "delete"} /\ r.before # NoRec
  <2>1. Restore(r) = Put(r.before) /\ r.before \in Record
    BY <1>2, <1>7 DEF Restore
  <2>2. /\ d \in Database
        /\ \A m \in Level, j \in Ids :
             d[m][j] = IF m = owning(r.before.scope) /\ j = id THEN r.before ELSE db[m][j]
    BY <1>1, <1>2, <1>4, <2>1, CarriedPut
  <2>3. /\ InPlace(d)
        /\ \A j \in Ids : j # id => Get(d, j) = Get(db, j)
        /\ (Get(db, id) # NoRec => owning(Get(db, id).scope) = owning(r.before.scope))
             => Get(d, id) = r.before /\ (OneCopy(db) => OneCopy(d))
    BY <1>1, <1>2, <2>1, <2>2, PutShows
  <2>4. r.after # NoRec => r.before.scope = r.after.scope
    BY <1>2, <1>7 DEF Formed
  <2>5. Len(Put(r.before)) <= 3
    BY DEF Put
  <2> QED BY <1>1, <1>3, <1>5, <2>1, <2>3, <2>4, <2>5 DEF GoodWrites
<1>8. CASE r.op = "move"
  <2>1. r.before \in Record /\ r.after \in Record
    BY <1>2, <1>8 DEF Formed
  <2>2. owning(r.before.scope) \in Level /\ owning(r.after.scope) \in Level
    BY <2>1, RecordFields, OwningLevel
  <2> DEFINE erase == [level |-> owning(r.after.scope), rec |-> NoRec]
             add == [level |-> owning(r.before.scope), rec |-> r.before]
  <2>3. add \in Write /\ erase \in Write
    BY <2>1, <2>2 DEF Write
  <2>4. Restore(r) = <<erase, add>>
    <3>1. Restore(r) = <<erase>> \o <<add>>
      BY <1>8 DEF Restore, Put
    <3> HIDE DEF erase, add
    <3> QED BY <2>3, <3>1, Pair
  <2> DEFINE e == Written(db, id, erase)
             f == Written(e, id, add)
  <2>5. d = f
    <3> HIDE DEF erase, add
    <3> QED BY <1>4, <2>4, CarriedTwo
  <2>6. /\ e \in Database
        /\ \A m \in Level, j \in Ids :
             e[m][j] = IF m = owning(r.after.scope) /\ j = id THEN NoRec ELSE db[m][j]
    BY <1>1, <1>2, <2>2, WrittenAt
  <2> HIDE DEF e
  <2>7. /\ f \in Database
        /\ \A m \in Level, j \in Ids :
             f[m][j] = IF m = owning(r.before.scope) /\ j = id THEN r.before ELSE e[m][j]
    BY <1>2, <2>1, <2>2, <2>6, WrittenAt
  <2> HIDE DEF f
  <2>8. /\ d \in Database
        /\ \A m \in Level, j \in Ids :
             d[m][j] = IF j # id THEN db[m][j]
                       ELSE IF m = owning(r.before.scope) THEN r.before
                       ELSE IF m = owning(r.after.scope) THEN NoRec ELSE db[m][j]
    BY <2>5, <2>6, <2>7
  <2>9. /\ InPlace(d)
        /\ \A j \in Ids : j # id => Get(d, j) = Get(db, j)
        /\ OneCopy(db) /\ Get(db, id) = r.after => OneCopy(d) /\ Get(d, id) = r.before
    <3>1. ASSUME NEW x \in Ids, NEW cur \in Record, NEW rec \in Record,
                 \A m \in Level, j \in Ids :
                   d[m][j] = IF j # x THEN db[m][j]
                             ELSE IF m = owning(rec.scope) THEN rec
                             ELSE IF m = owning(cur.scope) THEN NoRec ELSE db[m][j]
          PROVE  /\ InPlace(d)
                 /\ \A j \in Ids : j # x => Get(d, j) = Get(db, j)
                 /\ OneCopy(db) /\ Get(db, x) = cur => OneCopy(d) /\ Get(d, x) = rec
      BY <1>1, <2>8, <3>1, MoveShows
    <3> QED BY <1>2, <2>1, <2>8, <3>1
  <2>10. Len(Restore(r)) <= 3
    <3> HIDE DEF erase, add
    <3> QED BY <2>4
  <2> QED BY <1>1, <1>3, <1>5, <2>9, <2>10 DEF GoodWrites
<1>9. CASE r.op \notin {"put", "delete", "move"}
  <2>1. Restore(r) = <<>>
    BY <1>9 DEF Restore
  <2>2. d = db
    BY <1>4, <2>1 DEF Carried, First, Rest
  <2>3. r.op \notin UndoOps
    BY <1>2, <1>9 DEF UndoOps
  <2> QED BY <1>1, <1>5, <2>1, <2>2, <2>3 DEF GoodWrites
<1>10. r.op = "delete" => r.before # NoRec
  BY <1>2 DEF Formed
<1> QED BY <1>6, <1>7, <1>8, <1>9, <1>10

LEMMA UndoAhead ==
  ASSUME IInv, NEW p \in Procs, Kept(db, journal), undoLastStore(p)
  PROVE  Ahead(p)'
<1> PICK i \in DOMAIN journal :
      /\ NotUndone(i)
      /\ \A k \in DOMAIN journal : NotUndone(k) => k <= i
      /\ Begin(p, "undo", Rev("undo", journal[i].id, "human", journal[i].seq, NoRec, NoRec),
               journal[i].op, Restore(journal[i]))
  BY DEF undoLastStore
<1> DEFINE id == journal[i].id
           rev == Rev("undo", id, "human", journal[i].seq, NoRec, NoRec)
           ws == Restore(journal[i])
           d == Carried(db, id, ws)
<1>1. i \in Standing(journal) /\ \A k \in Standing(journal) : k <= i
  BY DEF Standing, Stands, NotUndone
<1>2. /\ GoodJournal /\ journal[i].seq = i /\ id \in Ids /\ i \in Nat
  BY JournalRev DEF IInv, Kept, Numbered, GoodJournal
<1>3. /\ InPlace(d)
      /\ \A j \in Ids : j # id => Get(d, j) = Get(db, j)
      /\ Stacked(db, journal) /\ journal[i].op \in UndoOps
           => OneCopy(d) /\ Get(d, id) = journal[i].before
      /\ ws \in Seq(Write) /\ Len(ws) <= 3
  BY <1>1, RestoreShows
<1>4. Begin(p, "undo", rev, journal[i].op, ws)
  OBVIOUS
<1> HIDE DEF ws, d
<1>5. /\ rev.id = id /\ rev.op = "undo" /\ rev.ref = i
      /\ rev.seq = Len(journal) + 1 /\ rev \in Revision
  BY <1>2 DEF Rev, Revision, Op, Provenance, GoodJournal
<1>6. NotedIn(d, journal, rev) = rev
  BY NotedRev
<1> HIDE DEF rev
<1>7. Kept(d, Append(journal, rev))
  BY <1>1, <1>2, <1>3, <1>5, UndoKept
<1>8. d = Carried(db, rev.id, ws)
  BY <1>5 DEF d
<1> QED BY <1>3, <1>4, <1>6, <1>7, <1>8, BeginAhead

(* Records of an id that only ever had one scope have the same scope. *)
LEMMA SameScope ==
  ASSUME NEW js, NEW ks, NEW r, Grows(js, ks, r), NEW t \in DOMAIN js, js[t].id = r.id,
         Cardinality(ScopesIn(ks, r.id)) <= 1,
         r.before # NoRec, js[t].before # NoRec
  PROVE  r.before.scope = js[t].before.scope
<1> DEFINE S == ScopesIn(ks, r.id)
           a == r.before.scope
           b == js[t].before.scope
<1>1. \A i \in DOMAIN ks : ks[i].before \in Record \cup {NoRec} /\ ks[i].after \in Record \cup {NoRec}
  BY DEF Grows, Revision
<1>2. S \subseteq Scope
  BY <1>1, RecordFields DEF ScopesIn
<1>3. a \in S
  <2>1. /\ Len(js) + 1 \in {k \in DOMAIN ks : ks[k].id = r.id}
        /\ ks[Len(js) + 1].before = r.before
    BY DEF Grows
  <2> QED BY <2>1 DEF ScopesIn
<1>4. b \in S
  <2>1. t \in {k \in DOMAIN ks : ks[k].id = r.id} /\ ks[t].before = js[t].before
    BY DEF Grows
  <2> QED BY <2>1 DEF ScopesIn
<1>5. IsFiniteSet(Scope)
  <2>1. /\ IsFiniteSet({}) /\ IsFiniteSet({"project"})
        /\ IsFiniteSet({"project"} \cup {"workspace"})
        /\ IsFiniteSet(({"project"} \cup {"workspace"}) \cup {"global"})
    BY FS_EmptySet, FS_Singleton, FS_AddElement
  <2>2. Scope = ({"project"} \cup {"workspace"}) \cup {"global"}
    BY DEF Scope, Level
  <2> QED BY <2>1, <2>2
<1>6. IsFiniteSet(S) /\ Cardinality(S) <= 1
  <2> HIDE DEF S
  <2>1. IsFiniteSet(S)
    BY <1>2, <1>5, FS_Subset
  <2> QED BY <2>1 DEF S
<1> SUFFICES ASSUME a # b PROVE FALSE
  OBVIOUS
<1> HIDE DEF S, a, b
<1>7. /\ IsFiniteSet({b}) /\ Cardinality({b}) = 1
      /\ IsFiniteSet({b} \cup {a}) /\ Cardinality({b} \cup {a}) = 2
  <2>1. IsFiniteSet({b}) /\ Cardinality({b}) = 1
    BY FS_Singleton
  <2>2. a \notin {b}
    OBVIOUS
  <2>3. IsFiniteSet({b} \cup {a}) /\ Cardinality({b} \cup {a}) = Cardinality({b}) + 1
    BY <2>1, <2>2, FS_AddElement
  <2> QED BY <2>1, <2>3
<1>8. Cardinality({b} \cup {a}) <= Cardinality(S)
  <2>1. {b} \cup {a} \subseteq S
    BY <1>3, <1>4
  <2> QED BY <1>6, <2>1, FS_Subset
<1>9. Cardinality(S) \in Nat
  BY <1>6, FS_CardinalityType
<1> QED BY <1>6, <1>7, <1>8, <1>9

LEMMA RevertAhead ==
  ASSUME IInv, NEW p \in Procs, Kept(db, journal), revertRevision(p)
  PROVE  Ahead(p)'
<1> PICK t \in DOMAIN journal :
      Begin(p, "revert", Rev("revert", journal[t].id, "human", journal[t].seq,
                             Get(db, journal[t].id), NoRec),
            journal[t].op, RevertWrites(journal[t]))
  BY DEF revertRevision
<1> DEFINE r == journal[t]
           id == r.id
           rev == Rev("revert", id, "human", r.seq, Get(db, id), NoRec)
           ws == RevertWrites(r)
           d == Carried(db, id, ws)
           new == Rev("revert", id, "human", r.seq, Get(db, id), Get(d, id))
<1>1. /\ db \in Database /\ InPlace(db) /\ GoodJournal /\ id \in Ids
      /\ Get(db, id) \in Record \cup {NoRec}
      /\ r.before # NoRec => r.before \in Record
      /\ r.seq = t /\ t \in Nat /\ t < Len(journal) + 1
  BY JournalRev, GetGood DEF IInv, GoodDb, Kept, GoodRec, Numbered, GoodJournal
<1>2. Begin(p, "revert", rev, r.op, ws)
  OBVIOUS
<1>3. /\ InPlace(d) /\ d \in Database
      /\ \A j \in Ids : j # id => Get(d, j) = Get(db, j)
      /\ ws \in Seq(Write) /\ Len(ws) <= 3
      /\ r.before = NoRec => Get(d, id) = NoRec
      /\ r.before # NoRec /\ (Get(db, id) # NoRec => Get(db, id).scope = r.before.scope)
           => Get(d, id) = r.before
  <2> HIDE DEF r
  <2>1. CASE r.before = NoRec
    <3>1. ws = Delete
      BY <2>1 DEF RevertWrites
    <3>2. /\ d \in Database
          /\ \A m \in Level, j \in Ids : d[m][j] = IF j = id THEN NoRec ELSE db[m][j]
      BY <1>1, <3>1, CarriedDelete
    <3> HIDE DEF d
    <3>3. /\ InPlace(d) /\ Get(d, id) = NoRec
          /\ \A j \in Ids : j # id => Get(d, j) = Get(db, j)
      BY <1>1, <3>2, DeleteShows
    <3> QED BY <2>1, <3>1, <3>2, <3>3, DeleteShort
  <2>2. CASE r.before # NoRec
    <3>1. ws = Put(r.before) /\ r.before \in Record
      BY <1>1, <2>2 DEF RevertWrites
    <3>2. /\ d \in Database
          /\ \A m \in Level, j \in Ids :
               d[m][j] = IF m = owning(r.before.scope) /\ j = id THEN r.before ELSE db[m][j]
      BY <1>1, <3>1, CarriedPut
    <3> HIDE DEF d
    <3>3. /\ InPlace(d)
          /\ \A j \in Ids : j # id => Get(d, j) = Get(db, j)
          /\ (Get(db, id) # NoRec => owning(Get(db, id).scope) = owning(r.before.scope))
               => Get(d, id) = r.before
      BY <1>1, <3>1, <3>2, PutShows
    <3>4. Put(r.before) \in Seq(Write) /\ Len(Put(r.before)) <= 3
      BY <3>1, RecordFields, OwningLevel DEF Put, Write
    <3> HIDE DEF ws
    <3> QED BY <2>2, <3>1, <3>2, <3>3, <3>4
  <2> QED BY <2>1, <2>2
<1> HIDE DEF d, ws
<1>4. NotedIn(d, journal, rev) = new /\ rev.id = id
  BY NotedRev DEF Rev
<1>5. Get(d, id) \in Record \cup {NoRec}
  BY <1>1, <1>3, GetLevel
<1>6. /\ new.id = id /\ new.op = "revert" /\ new.ref = t /\ new.before = Get(db, id)
      /\ new.after = Get(d, id) /\ new.seq = Len(journal) + 1 /\ new \in Revision
  BY <1>1, <1>5 DEF Rev, Revision, Op, Provenance, GoodJournal
<1> HIDE DEF new, rev
<1> DEFINE ks == Append(journal, new)
<1>7. Grows(journal, ks, new)
  BY <1>1, <1>6, JournalGrows DEF GoodJournal
<1>8. Reverted(d, ks)
  <2> HIDE DEF ks
  <2> SUFFICES ASSUME Cardinality(ScopesIn(ks, id)) <= 1, NEW i \in DOMAIN ks, ks[i].seq = t
               PROVE  Get(d, ks[i].id) = ks[i].before
    BY <1>6, <1>7 DEF Reverted, Grows
  <2>1. i = t /\ ks[i] = r
    <3>1. CASE i = Len(journal) + 1
      BY <1>1, <1>6, <1>7, <3>1 DEF Grows
    <3>2. CASE i \in DOMAIN journal
      <4>1. ks[i] = journal[i] /\ journal[i].seq = i
        BY <1>7, <3>2 DEF Grows, Kept, Numbered
      <4> QED BY <4>1
    <3> QED BY <1>7, <3>1, <3>2 DEF Grows
  <2>2. r.before # NoRec /\ Get(db, id) # NoRec => Get(db, id).scope = r.before.scope
    BY <1>6, <1>7, SameScope
  <2> QED BY <1>3, <2>1, <2>2
<1>9. Kept(d, ks)
  BY <1>1, <1>3, <1>6, <1>8, PickKept
<1>10. d = Carried(db, rev.id, ws)
  BY <1>4 DEF d
<1> HIDE DEF r
<1> QED BY <1>2, <1>3, <1>4, <1>9, <1>10, BeginAhead

LEMMA CherryPickAhead ==
  ASSUME IInv, NEW p \in Procs, Kept(db, journal), cherryPickRevision(p)
  PROVE  Ahead(p)'
<1> PICK t \in DOMAIN journal :
      /\ journal[t].op = "put" => journal[t].after # NoRec
      /\ Begin(p, "cherry-pick", Rev("cherry-pick", journal[t].id, "human", journal[t].seq,
                                     Get(db, journal[t].id), NoRec),
               journal[t].op,
               IF journal[t].op = "put" THEN Put(journal[t].after) ELSE Delete)
  BY DEF cherryPickRevision
<1> DEFINE r == journal[t]
           id == r.id
           rev == Rev("cherry-pick", id, "human", r.seq, Get(db, id), NoRec)
           ws == IF r.op = "put" THEN Put(r.after) ELSE Delete
           d == Carried(db, id, ws)
           new == Rev("cherry-pick", id, "human", r.seq, Get(db, id), Get(d, id))
<1>1. /\ db \in Database /\ InPlace(db) /\ GoodJournal /\ id \in Ids
      /\ Get(db, id) \in Record \cup {NoRec}
      /\ r.op = "put" => r.after \in Record
      /\ r.seq \in Nat
  BY JournalRev, GetGood DEF IInv, GoodDb, Kept, GoodRec
<1>2. Begin(p, "cherry-pick", rev, r.op, ws)
  OBVIOUS
<1>3. /\ InPlace(d) /\ d \in Database
      /\ \A j \in Ids : j # id => Get(d, j) = Get(db, j)
      /\ ws \in Seq(Write) /\ Len(ws) <= 3
  <2> HIDE DEF r
  <2>1. CASE r.op # "put"
    <3>1. ws = Delete
      BY <2>1
    <3>2. /\ d \in Database
          /\ \A m \in Level, j \in Ids : d[m][j] = IF j = id THEN NoRec ELSE db[m][j]
      BY <1>1, <3>1, CarriedDelete
    <3> HIDE DEF d, ws
    <3> QED BY <1>1, <3>1, <3>2, DeleteShows, DeleteShort
  <2>2. CASE r.op = "put"
    <3>1. ws = Put(r.after) /\ r.after \in Record
      BY <1>1, <2>2
    <3>2. /\ d \in Database
          /\ \A m \in Level, j \in Ids :
               d[m][j] = IF m = owning(r.after.scope) /\ j = id THEN r.after ELSE db[m][j]
      BY <1>1, <3>1, CarriedPut
    <3> HIDE DEF d, ws
    <3>3. /\ InPlace(d)
          /\ \A j \in Ids : j # id => Get(d, j) = Get(db, j)
      BY <1>1, <3>1, <3>2, PutShows
    <3>4. Put(r.after) \in Seq(Write) /\ Len(Put(r.after)) <= 3
      BY <3>1, RecordFields, OwningLevel DEF Put, Write
    <3> QED BY <3>1, <3>2, <3>3, <3>4
  <2> QED BY <2>1, <2>2
<1> HIDE DEF d, ws
<1>4. NotedIn(d, journal, rev) = new /\ rev.id = id
  BY NotedRev DEF Rev
<1>5. Get(d, id) \in Record \cup {NoRec}
  BY <1>1, <1>3, GetLevel
<1>6. /\ new.id = id /\ new.op = "cherry-pick" /\ new.after = Get(d, id)
      /\ new.seq = Len(journal) + 1 /\ new \in Revision
  BY <1>1, <1>5 DEF Rev, Revision, Op, Provenance, GoodJournal
<1> HIDE DEF new, rev
<1>7. Kept(d, Append(journal, new))
  BY <1>1, <1>3, <1>6, PickKept
<1>8. d = Carried(db, rev.id, ws)
  BY <1>4 DEF d
<1> HIDE DEF r
<1> QED BY <1>2, <1>3, <1>4, <1>7, <1>8, BeginAhead

-----------------------------------------------------------------------------
(* The steps of a command change nothing of what it will leave. *)

LEMMA WriteAhead ==
  ASSUME IInv, NEW p \in Procs, Ahead(p), WriteStep(p)
  PROVE  Ahead(p)'
<1> DEFINE w == work[p]
           d == Carried(db, w.rev.id, w.todo)
<1>1. /\ pc[p] = "write" /\ db' = Written(db, w.rev.id, Head(w.todo))
      /\ work' = [work EXCEPT ![p].todo = Tail(w.todo)]
      /\ pc' = [pc EXCEPT ![p] = IF Len(w.todo) = 1 THEN "note" ELSE "write"]
      /\ UNCHANGED journal
  BY DEF WriteStep
<1>2. w \in Working /\ w.todo \in Seq(Write) /\ w.todo # <<>>
  BY <1>1, BusyWork DEF GoodWrites
<1>3. Len(w.todo) <= 3 /\ Kept(d, Append(journal, NotedIn(d, journal, w.rev)))
  BY <1>1 DEF Ahead
<1>4. work'[p].rev = w.rev /\ work'[p].todo = Tail(w.todo)
  BY <1>1, <1>2 DEF IInv, GoodWork, Working
<1>5. pc'[p] \in {"note", "write"} /\ (pc'[p] = "note" => Len(w.todo) = 1)
  BY <1>1 DEF IInv, GoodWork
<1>6. /\ Carried(db', w.rev.id, Tail(w.todo)) = d
      /\ Len(Tail(w.todo)) <= 3
      /\ Len(w.todo) = 1 => Tail(w.todo) = <<>>
  BY <1>1, <1>2, <1>3, CarriedStep
<1> HIDE DEF d, w
<1>7. Carried(db', work'[p].rev.id, work'[p].todo) = d
  BY <1>4, <1>6
<1> QED BY <1>1, <1>3, <1>4, <1>5, <1>6, <1>7 DEF Ahead

LEMMA NoteAhead ==
  ASSUME IInv, NEW p \in Procs, Ahead(p), Note(p)
  PROVE  Ahead(p)'
<1> DEFINE w == work[p]
<1>1. /\ pc[p] = "note" /\ work' = [work EXCEPT ![p].rev = Noted(w.rev)]
      /\ pc' = [pc EXCEPT ![p] = "append"] /\ UNCHANGED <<db, journal>>
  BY DEF Note
<1>2. w \in Working
  BY <1>1, BusyWork
<1>3. w.todo = <<>>
  BY <1>1 DEF Ahead
<1>4. Carried(db, w.rev.id, <<>>) = db
  BY DEF Carried, First, Rest
<1>5. Kept(db, Append(journal, NotedIn(db, journal, w.rev)))
  BY <1>1, <1>3, <1>4 DEF Ahead
<1>6. NotedIn(db, journal, w.rev) = Noted(w.rev)
  BY DEF NotedIn, Noted
<1>7. work'[p].rev = Noted(w.rev) /\ pc'[p] = "append"
  BY <1>1, <1>2 DEF IInv, GoodWork, Working
<1> HIDE DEF w
<1>8. Kept(db', Append(journal', work'[p].rev))
  BY <1>1, <1>5, <1>6, <1>7
<1> QED BY <1>7, <1>8 DEF Ahead

LEMMA AppendAhead ==
  ASSUME IInv, NEW p \in Procs, Ahead(p), appendRevision(p)
  PROVE  Ahead(p)'
<1>1. /\ pc[p] = "append" /\ journal' = Append(journal, work[p].rev) /\ UNCHANGED db
      /\ pc' = [pc EXCEPT ![p] = "idle"]
  BY DEF appendRevision, Done
<1>2. Kept(db', journal')
  BY <1>1 DEF Ahead
<1>3. pc'[p] = "idle"
  BY <1>1 DEF IInv, GoodWork
<1> QED BY <1>2, <1>3 DEF Ahead

(* The invariant of a process that is alone, until something fails. *)
Alike(p) == Unbroken => Ahead(p)

LEMMA InitAhead ==
  ASSUME NEW p \in Procs, Init
  PROVE  Alike(p)
<1>1. pc[p] = "idle" /\ db = EmptyDatabase /\ journal = <<>>
  BY DEF Init
<1>2. \A l \in Level, id \in Ids : db[l][id] = NoRec
  BY <1>1 DEF EmptyDatabase
<1>3. DOMAIN journal = {}
  BY <1>1
<1>4. InPlace(db) /\ OneCopy(db) /\ \A id \in Ids : Get(db, id) = NoRec
  BY <1>2, GetNone DEF InPlace, OneCopy
<1>5. /\ Numbered(journal) /\ (\A i \in DOMAIN journal : Formed(journal[i]))
      /\ Reverted(db, journal)
  BY <1>1, <1>3 DEF Numbered, Reverted
<1>6. \A id \in Ids : \A S : S \subseteq DOMAIN journal => SaysOf(journal, S, id, NoRec)
  BY <1>3 DEF SaysOf, Touching
<1>7. Standing(journal) = {}
  BY <1>3 DEF Standing
<1>8. Stacked(db, journal) /\ Current(db, journal)
  BY <1>3, <1>4, <1>6, <1>7 DEF Stacked, Current
<1>9. Kept(db, journal)
  BY <1>4, <1>5, <1>8 DEF Kept
<1> QED BY <1>1, <1>9 DEF Alike, Ahead

LEMMA StepAhead ==
  ASSUME NEW p, Alone(p), KeepsScope
  PROVE  IInv /\ IInv' /\ Alike(p) /\ [Next]_vars => Alike(p)'
<1> SUFFICES ASSUME IInv, IInv', Alike(p), [Next]_vars, Unbroken' PROVE Ahead(p)'
  BY DEF Alike
<1>1. p \in Procs
  BY DEF Alone
<1>2. CASE UNCHANGED vars
  <2>1. Unbroken /\ UNCHANGED <<db, journal, pc, work>>
    BY <1>2 DEF vars, Unbroken
  <2>2. Ahead(p)
    BY <2>1 DEF Alike
  <2> QED BY <2>1, <2>2 DEF Ahead
<1>3. CASE Next
  <2>1. \/ storeCommit(p) \/ storeRm(p) \/ storeMove(p)
        \/ undoLastStore(p) \/ revertRevision(p) \/ cherryPickRevision(p)
        \/ WriteStep(p) \/ WriteFails(p) \/ Note(p)
        \/ appendRevision(p) \/ AppendFails(p) \/ Crash(p)
    BY <1>3 DEF Next, Alone
  <2>2. ~WriteFails(p) /\ ~AppendFails(p) /\ ~Crash(p)
    BY BoundsAssumption DEF WriteFails, AppendFails, Crash, Unbroken, IInv, GoodBounds
  <2>3. ASSUME NEW command, NEW rev, NEW of, NEW writes, Begin(p, command, rev, of, writes)
        PROVE  pc[p] = "idle" /\ Unbroken
    BY <2>3 DEF Begin, Unbroken
  <2>4. CASE storeCommit(p) \/ storeRm(p) \/ storeMove(p)
             \/ undoLastStore(p) \/ revertRevision(p) \/ cherryPickRevision(p)
    <3>1. pc[p] = "idle" /\ Unbroken
      BY <2>3, <2>4 DEF storeCommit, storeRm, storeMove, undoLastStore, revertRevision,
                        cherryPickRevision
    <3>2. Kept(db, journal)
      BY <3>1 DEF Alike, Ahead
    <3> QED BY <1>1, <2>4, <3>2, CommitAhead, RmAhead, MoveAhead, UndoAhead, RevertAhead,
               CherryPickAhead
  <2>5. CASE WriteStep(p) \/ Note(p) \/ appendRevision(p)
    <3>1. Unbroken
      BY <2>5 DEF WriteStep, Note, appendRevision, Unbroken
    <3> QED BY <1>1, <2>5, <3>1, WriteAhead, NoteAhead, AppendAhead DEF Alike
  <2> QED BY <2>1, <2>2, <2>4, <2>5
<1> QED BY <1>2, <1>3

LEMMA AlikeHolds ==
  ASSUME NEW p, Alone(p), KeepsScope
  PROVE  Spec => []Alike(p)
<1>1. Init => Alike(p)
  BY InitAhead DEF Alone
<1>2. IInv /\ IInv' /\ Alike(p) /\ [Next]_vars => Alike(p)'
  BY StepAhead
<1> QED BY <1>1, <1>2, Invariance, PTL DEF Spec

(* What the revisions say is what the replay gives. *)
LEMMA SaysReplay ==
  ASSUME GoodJournal, NEW S, S \subseteq DOMAIN journal, NEW id, NEW v, SaysOf(journal, S, id, v)
  PROVE  v = Replay(S, id)
<1> DEFINE T == Touching(journal, S, id)
<1>1. T \subseteq Nat
  BY DEF Touching, GoodJournal
<1>2. {i \in S : journal[i].id = id} = T
  BY DEF Touching
<1>3. CASE T = {}
  BY <1>2, <1>3 DEF Replay, SaysOf
<1>4. CASE T # {}
  <2>1. PICK i \in T : (\A k \in T : k <= i) /\ v = journal[i].after
    BY <1>4 DEF SaysOf
  <2> DEFINE c == CHOOSE j \in T : \A k \in T : k <= j
  <2> HIDE DEF T
  <2>2. c \in T /\ \A k \in T : k <= c
    BY <2>1
  <2> HIDE DEF c
  <2>3. c = i
    <3>1. c <= i /\ i <= c /\ c \in Nat /\ i \in Nat
      BY <1>1, <2>1, <2>2
    <3> QED BY <3>1
  <2>4. Replay(S, id) = journal[c].after
    BY <1>2, <1>4 DEF Replay, c
  <2> QED BY <2>1, <2>3, <2>4
<1> QED BY <1>3, <1>4

(* Between two commands. *)
LEMMA QuietKept ==
  ASSUME NEW p, Alone(p), Alike(p), Undisturbed
  PROVE  Kept(db, journal)
  BY DEF Alone, Alike, Undisturbed, AllIdle, Unbroken, Ahead

LEMMA QuietIsReplay ==
  ASSUME NEW p, Alone(p), IInv, Alike(p)
  PROVE  LiveIsReplayOfNotUndone /\ CheckoutIsCurrent /\ RevertTakesEffect
<1> SUFFICES ASSUME Undisturbed
             PROVE  LiveIsReplayOfNotUndone /\ CheckoutIsCurrent /\ RevertTakesEffect
  BY DEF LiveIsReplayOfNotUndone, CheckoutIsCurrent, RevertTakesEffect
<1>1. Kept(db, journal) /\ GoodJournal
  BY QuietKept DEF IInv
<1>2. Standing(journal) = {i \in DOMAIN journal : NotUndone(i)}
  BY DEF Standing, Stands, NotUndone
<1>3. ASSUME Only({"put", "delete", "move", "undo"}), NEW id \in Ids
      PROVE  Get(db, id) = Replay(Standing(journal), id)
  <2>1. SaysOf(journal, Standing(journal), id, Get(db, id))
    BY <1>1, <1>3 DEF Only, OnlyOps, UndoOps, Kept, Stacked
  <2>2. Standing(journal) \subseteq DOMAIN journal
    BY DEF Standing
  <2> QED BY <1>1, <2>1, <2>2, SaysReplay
<1>4. LiveIsReplayOfNotUndone
  BY <1>2, <1>3 DEF LiveIsReplayOfNotUndone
<1>5. CheckoutIsCurrent
  <2>1. ASSUME Only({"put", "delete", "move"}), NEW id \in Ids
        PROVE  Get(db, id) = Replay(DOMAIN journal, id)
    <3>1. Standing(journal) = DOMAIN journal
      BY <2>1 DEF Only, Standing, Stands
    <3>2. Only({"put", "delete", "move", "undo"})
      BY <2>1 DEF Only
    <3> QED BY <1>3, <3>1, <3>2
  <2>2. ASSUME Only({"put", "delete", "revert", "cherry-pick"}), NEW id \in Ids
        PROVE  Get(db, id) = Replay(DOMAIN journal, id)
    <3>1. SaysOf(journal, DOMAIN journal, id, Get(db, id))
      BY <1>1, <2>2 DEF Only, OnlyOps, PickOps, Kept, Current
    <3> QED BY <1>1, <3>1, SaysReplay
  <2> QED BY <2>1, <2>2 DEF CheckoutIsCurrent
<1>6. RevertTakesEffect
  <2>1. \A id : ScopesOf(id) = ScopesIn(journal, id)
    BY DEF ScopesOf, ScopesIn
  <2> QED BY <1>1, <2>1 DEF RevertTakesEffect, Kept, Reverted
<1> QED BY <1>4, <1>5, <1>6

(* While commands run one after the other, and commits keep the scope a    *)
(* record has, the reader sees what the revisions that are not undone say, *)
(* for any records and any number of commands (undoLastStore).             *)
THEOREM LiveIsReplay ==
  ASSUME NEW p, Alone(p), KeepsScope
  PROVE  Spec => []LiveIsReplayOfNotUndone
  BY AlikeHolds, Invariance, QuietIsReplay, PTL

(* Under the same conditions a checkout of the latest revision is what the *)
(* reader sees, with moves or with reverts and cherry-picks, not with both *)
(* (checkoutState).                                                        *)
THEOREM CheckoutsAreCurrent ==
  ASSUME NEW p, Alone(p), KeepsScope
  PROVE  Spec => []CheckoutIsCurrent
  BY AlikeHolds, Invariance, QuietIsReplay, PTL

(* Under the same conditions a revert shows what the reverted change had   *)
(* replaced, when the record only ever had one scope (revertRevision).     *)
THEOREM RevertsTakeEffect ==
  ASSUME NEW p, Alone(p), KeepsScope
  PROVE  Spec => []RevertTakesEffect
  BY AlikeHolds, Invariance, QuietIsReplay, PTL

-----------------------------------------------------------------------------
(* StoreJournal implements UndoHistory.  Kept already says that what       *)
(* stands is a stack with the reader's view on top; so the view before and *)
(* after a command, and what the command is in the history, follow from    *)
(* the revision it will append.                                            *)

LEMMA SaysOne ==
  ASSUME NEW js, NEW S, S \subseteq Nat, NEW id, NEW v, NEW w,
         SaysOf(js, S, id, v), SaysOf(js, S, id, w)
  PROVE  v = w
<1>1. Touching(js, S, id) \subseteq Nat
  BY DEF Touching
<1>2. CASE Touching(js, S, id) = {}
  BY <1>2 DEF SaysOf
<1>3. CASE Touching(js, S, id) # {}
  <2>1. PICK i \in Touching(js, S, id) :
          (\A k \in Touching(js, S, id) : k <= i) /\ v = js[i].after
    BY <1>3 DEF SaysOf
  <2>2. PICK j \in Touching(js, S, id) :
          (\A k \in Touching(js, S, id) : k <= j) /\ w = js[j].after
    BY <1>3 DEF SaysOf
  <2>3. i <= j /\ j <= i /\ i \in Nat /\ j \in Nat
    BY <1>1, <2>1, <2>2
  <2>4. i = j
    BY <2>3
  <2> QED BY <2>1, <2>2, <2>4
<1> QED BY <1>2, <1>3

(* The view changes at the id of the change, from its before to its after. *)
LEMMA PushShows ==
  ASSUME NEW js, NEW ks, NEW r, Grows(js, ks, r), Numbered(js), Numbered(ks), r.op # "undo",
         NEW d, NEW e, Stacked(d, js), Stacked(e, ks)
  PROVE  /\ r.before = Get(d, r.id)
         /\ Get(e, r.id) = r.after
         /\ \A j \in Ids : j # r.id => Get(e, j) = Get(d, j)
<1> DEFINE n == Len(js) + 1
           S == Standing(js)
           T == Standing(ks)
<1>1. S \subseteq DOMAIN js /\ S \subseteq Nat /\ n \in Nat /\ \A k \in S : k < n
  BY DEF Standing, Grows
<1>2. T = S \cup {n}
  BY PushStands
<1>3. ks[n] = r /\ r.id \in Ids /\ T \subseteq Nat
  BY <1>1, <1>2 DEF Grows, Revision
<1>4. SaysOf(ks, T, r.id, r.after)
  <2>1. SaysOf(ks, S \cup {n}, r.id, r.after)
    BY <1>1, SaysLast
  <2> QED BY <1>2, <2>1
<1>5. Get(e, r.id) = r.after
  <2>1. SaysOf(ks, T, r.id, Get(e, r.id))
    BY <1>3 DEF Stacked
  <2> QED BY <1>3, <1>4, <2>1, SaysOne
<1>6. ASSUME NEW j \in Ids, j # r.id PROVE Get(e, j) = Get(d, j)
  <2>1. SaysOf(js, S, j, Get(d, j)) /\ SaysOf(ks, T, j, Get(e, j))
    BY DEF Stacked
  <2>2. SaysOf(ks, T, j, Get(d, j))
    BY <1>1, <1>2, <1>6, <2>1, SaysOthers
  <2> QED BY <1>3, <2>1, <2>2, SaysOne
<1>7. r.before = Get(d, r.id)
  <2>1. SaysOf(ks, {k \in T : k < n}, ks[n].id, ks[n].before)
    BY <1>2 DEF Stacked
  <2>2. {k \in T : k < n} = S
    BY <1>1, <1>2
  <2>3. SaysOf(js, S, r.id, Get(d, r.id))
    BY <1>3 DEF Stacked
  <2>4. SaysOf(ks, S, r.id, Get(d, r.id))
    BY <1>1, <2>3, SaysSame
  <2>5. SaysOf(ks, S, r.id, r.before)
    BY <1>3, <2>1, <2>2
  <2> HIDE DEF S
  <2> QED BY <1>1, <2>4, <2>5, SaysOne
<1> QED BY <1>5, <1>6, <1>7

(* Only the record of the change undone changes, to what it replaced. *)
LEMMA PopShows ==
  ASSUME NEW js, NEW ks, NEW r, Grows(js, ks, r), Numbered(js), r.op = "undo",
         NEW i \in Standing(js), \A k \in Standing(js) : k <= i,
         r.ref = i, js[i].id \in Ids, NEW d, NEW e, Stacked(d, js), Stacked(e, ks)
  PROVE  /\ Get(e, js[i].id) = js[i].before
         /\ \A j \in Ids : j # js[i].id => Get(e, j) = Get(d, j)
<1> DEFINE S == Standing(js)
           T == Standing(ks)
           id == js[i].id
<1>1. S \subseteq DOMAIN js /\ S \subseteq Nat /\ i \in Nat
  BY DEF Standing, Grows
<1>2. T = S \ {i}
  BY PopStands
<1>3. T = {k \in S : k < i} /\ T \subseteq DOMAIN js /\ T \subseteq Nat
  BY <1>1, <1>2
<1>4. Get(e, id) = js[i].before
  <2>1. SaysOf(js, {k \in S : k < i}, id, js[i].before)
    BY DEF Stacked
  <2>2. SaysOf(ks, T, id, js[i].before)
    BY <1>3, <2>1, SaysSame
  <2>3. SaysOf(ks, T, id, Get(e, id))
    BY DEF Stacked
  <2> HIDE DEF T
  <2> QED BY <1>3, <2>2, <2>3, SaysOne
<1>5. ASSUME NEW j \in Ids, j # id PROVE Get(e, j) = Get(d, j)
  <2>1. SaysOf(js, S, j, Get(d, j)) /\ SaysOf(ks, T, j, Get(e, j))
    BY DEF Stacked
  <2>2. Touching(js, T, j) = Touching(js, S, j)
    BY <1>2, <1>5 DEF Touching
  <2>3. SaysOf(js, T, j, Get(d, j))
    BY <2>1, <2>2 DEF SaysOf
  <2>4. SaysOf(ks, T, j, Get(d, j))
    BY <1>3, <2>3, SaysSame
  <2> HIDE DEF T
  <2> QED BY <1>3, <2>1, <2>4, SaysOne
<1> QED BY <1>4, <1>5

(* What the mapping is when p is the process that runs the commands. *)
LEMMA ReadyLedger ==
  ASSUME NEW p, Alone(p)
  PROVE  /\ Ready = IF pc[p] \in {"write", "note"}
                    THEN Carried(db, work[p].rev.id, work[p].todo) ELSE db
         /\ Ledger = IF pc[p] = "idle" THEN journal
                     ELSE Append(journal, IF pc[p] = "append" THEN work[p].rev
                                          ELSE NotedIn(Ready, journal, work[p].rev))
         /\ Ready' = IF pc'[p] \in {"write", "note"}
                     THEN Carried(db', work'[p].rev.id, work'[p].todo) ELSE db'
         /\ Ledger' = IF pc'[p] = "idle" THEN journal'
                      ELSE Append(journal', IF pc'[p] = "append" THEN work'[p].rev
                                            ELSE NotedIn(Ready', journal', work'[p].rev))
<1>1. Runner = p
  BY DEF Runner, Alone
<1>2. Ready = IF pc[p] \in {"write", "note"}
              THEN Carried(db, work[p].rev.id, work[p].todo) ELSE db
  BY <1>1 DEF Ready
<1>3. Ready' = IF pc'[p] \in {"write", "note"}
               THEN Carried(db', work'[p].rev.id, work'[p].todo) ELSE db'
  BY <1>1 DEF Ready
<1> QED BY <1>1, <1>2, <1>3 DEF Ledger, Busy

LEMMA LedgerKept ==
  ASSUME NEW p, Alone(p), IInv, Ahead(p)
  PROVE  Kept(Ready, Ledger)
<1>1. pc[p] \in {"idle", "write", "note", "append"}
  BY DEF Alone, IInv, GoodWork
<1> QED BY <1>1, ReadyLedger DEF Ahead

-----------------------------------------------------------------------------
(* What the steps of StoreJournal are in the history. *)

Shown(d) == [id \in Ids |-> Get(d, id)]

LEMMA PushIsChange ==
  ASSUME NEW r, Grows(Ledger, Ledger', r), Numbered(Ledger), Numbered(Ledger'), r.op # "undo",
         Stacked(Ready, Ledger), Stacked(Ready', Ledger'), Formed(r),
         Len(Ledger) + 1 \in 1..MaxRevs, r.op \in UndoOps
  PROVE  UH!Next
<1> DEFINE n == Len(Ledger) + 1
           S == Standing(Ledger)
<1>1. /\ r.before = Get(Ready, r.id)
      /\ Get(Ready', r.id) = r.after
      /\ \A j \in Ids : j # r.id => Get(Ready', j) = Get(Ready, j)
  BY PushShows
<1>2. Standing(Ledger') = S \cup {n}
  BY PushStands
<1>3. /\ r.id \in Ids /\ r.after \in Record \cup {NoRec}
      /\ r.after = NoRec => r.before # NoRec
  BY DEF Grows, Revision, Formed, UndoOps
<1>4. /\ \A k \in S : k < n /\ Ledger'[k] = Ledger[k]
      /\ Ledger'[n] = r /\ n \notin S
  BY DEF Grows, Standing
<1>5. Shown(Ready') = [Shown(Ready) EXCEPT ![r.id] = r.after]
  BY <1>1, <1>3 DEF Shown
<1>6. ChangesOf(Ledger') =
        [k \in S \cup {n} |-> IF k = n THEN [id |-> r.id, before |-> r.before, after |-> r.after]
                              ELSE ChangesOf(Ledger)[k]]
  BY <1>2, <1>4 DEF ChangesOf
<1>7. DOMAIN ChangesOf(Ledger) = S
  BY DEF ChangesOf
<1>8. Shown(Ready)[r.id] = r.before /\ Shown(Ready')[r.id] = r.after
  BY <1>1, <1>3 DEF Shown
<1>9. n \in 1..MaxRevs
  OBVIOUS
<1> HIDE DEF n, S
<1>10. UH!Change(r.id)
  <2>1. Shown(Ready') = [Shown(Ready) EXCEPT ![r.id] = Shown(Ready')[r.id]]
    BY <1>5, <1>8
  <2>2. \E now \in 1..MaxRevs :
          /\ \A k \in DOMAIN ChangesOf(Ledger) : k < now
          /\ ChangesOf(Ledger') =
               [k \in DOMAIN ChangesOf(Ledger) \cup {now} |->
                  IF k = now
                  THEN [id |-> r.id, before |-> Shown(Ready)[r.id], after |-> Shown(Ready')[r.id]]
                  ELSE ChangesOf(Ledger)[k]]
    BY <1>4, <1>6, <1>7, <1>8, <1>9
  <2>3. Shown(Ready')[r.id] = NoRec => Shown(Ready)[r.id] # NoRec
    BY <1>3, <1>8
  <2> QED BY <2>1, <2>2, <2>3 DEF UH!Change, Shown
<1> QED BY <1>3, <1>8, <1>10 DEF UH!Next, Shown

LEMMA PopIsUndo ==
  ASSUME NEW r, Grows(Ledger, Ledger', r), Numbered(Ledger), r.op = "undo",
         NEW i \in Standing(Ledger), \A k \in Standing(Ledger) : k <= i,
         r.ref = i, Ledger[i].id \in Ids, Stacked(Ready, Ledger), Stacked(Ready', Ledger')
  PROVE  UH!Next
<1> DEFINE S == Standing(Ledger)
           id == Ledger[i].id
           past == ChangesOf(Ledger)
<1>1. /\ Get(Ready', id) = Ledger[i].before
      /\ \A j \in Ids : j # id => Get(Ready', j) = Get(Ready, j)
  BY PopShows
<1>2. Standing(Ledger') = S \ {i}
  BY PopStands
<1>3. \A k \in S : Ledger'[k] = Ledger[k]
  BY DEF Grows, Standing
<1>4. DOMAIN past = S /\ past[i].id = id /\ past[i].before = Ledger[i].before
  BY DEF ChangesOf
<1>5. Shown(Ready') = [Shown(Ready) EXCEPT ![id] = Ledger[i].before]
  BY <1>1 DEF Shown
<1>6. ChangesOf(Ledger') = [k \in S \ {i} |-> past[k]]
  BY <1>2, <1>3 DEF ChangesOf
<1> HIDE DEF S, id, past
<1>7. UH!Undo
  BY <1>4, <1>5, <1>6 DEF UH!Undo, Shown, S, past
<1> QED BY <1>7 DEF UH!Next

(* The start of a command adds the revision it will append. *)
LEMMA BeginGrows ==
  ASSUME NEW p, Alone(p), IInv, IInv', Ahead(p), Ahead(p)', Plain',
         NEW command, NEW rev, NEW of, NEW writes, Begin(p, command, rev, of, writes)
  PROVE  /\ Ready = db /\ Ledger = journal /\ rev.op \in UndoOps
         /\ \E r : /\ Grows(journal, Ledger', r) /\ Formed(r)
                   /\ r.op = rev.op /\ r.id = rev.id /\ r.ref = rev.ref
         /\ Numbered(journal) /\ Numbered(Ledger')
         /\ Stacked(db, journal) /\ Stacked(Ready', Ledger')
         /\ Len(journal) + 1 \in 1..MaxRevs
<1> DEFINE r == NotedIn(Ready', journal, rev)
<1>1. /\ pc[p] = "idle" /\ UNCHANGED <<db, journal>> /\ Len(journal) < MaxRevs
      /\ pc' = [pc EXCEPT ![p] = IF writes = <<>> THEN "note" ELSE "write"]
      /\ work' = [work EXCEPT ![p] = [rev |-> rev, of |-> of, todo |-> writes]]
  BY DEF Begin
<1>2. p \in Procs /\ journal \in Seq(Revision) /\ Len(journal) \in Nat /\ MaxRevs \in Nat
  BY BoundsAssumption DEF Alone, IInv, GoodJournal
<1>3. pc'[p] \in {"note", "write"} /\ work'[p].rev = rev
  BY <1>1, <1>2 DEF IInv, GoodWork
<1>4. Ready = db /\ Ledger = journal
  BY <1>1, ReadyLedger
<1>5. Ledger' = Append(journal, r)
  BY <1>1, <1>3, ReadyLedger
<1>6. Kept(db, journal) /\ Kept(Ready', Ledger')
  <2>1. Kept(db, journal)
    BY <1>1 DEF Ahead
  <2>2. Kept(Ready', Append(journal', NotedIn(Ready', journal', work'[p].rev)))
    BY <1>3, ReadyLedger DEF Ahead
  <2> QED BY <1>1, <1>3, <1>5, <2>1, <2>2
<1>7. rev \in Revision
  BY <1>2, <1>3 DEF IInv, GoodWork, GoodRev, Working
<1>8. r.op = rev.op /\ r.id = rev.id /\ r.ref = rev.ref
  BY <1>7 DEF NotedIn, Revision
<1>9. /\ Len(Ledger') = Len(journal) + 1 /\ Ledger'[Len(journal) + 1] = r
      /\ DOMAIN Ledger' = 1..(Len(journal) + 1)
  <2> HIDE DEF r
  <2> QED BY <1>2, <1>5
<1>10. rev.op \in UndoOps
  <2>1. Len(journal) + 1 \in DOMAIN Ledger'
    BY <1>2, <1>9
  <2> HIDE DEF r
  <2> QED BY <1>8, <1>9, <2>1 DEF Plain
<1>11. r \in Revision
  <2>1. r = rev \/ r = [rev EXCEPT !.seq = Len(journal) + 1]
    BY <1>10 DEF NotedIn, UndoOps
  <2>2. \A n \in Nat : [rev EXCEPT !.seq = n] \in Revision
    BY <1>7 DEF Revision
  <2>3. Len(journal) + 1 \in Nat
    BY <1>2
  <2> QED BY <1>7, <2>1, <2>2, <2>3
<1> HIDE DEF r
<1>12. Grows(journal, Ledger', r)
  BY <1>2, <1>5, <1>11, JournalGrows
<1>13. OnlyOps(Ledger', UndoOps)
  BY DEF Plain, OnlyOps
<1>14. OnlyOps(journal, UndoOps)
  BY <1>12, <1>13, OpsGrow
<1>15. /\ Numbered(journal) /\ Numbered(Ledger') /\ Formed(r)
       /\ Stacked(db, journal) /\ Stacked(Ready', Ledger')
  BY <1>6, <1>9, <1>12, <1>13, <1>14 DEF Kept, Grows
<1>16. Len(journal) + 1 \in 1..MaxRevs
  BY <1>1, <1>2
<1> QED BY <1>4, <1>8, <1>10, <1>12, <1>15, <1>16

LEMMA BeginIsChange ==
  ASSUME NEW p, Alone(p), IInv, IInv', Ahead(p), Ahead(p)', Plain',
         NEW command, NEW rev, NEW of, NEW writes, Begin(p, command, rev, of, writes),
         rev.op # "undo"
  PROVE  UH!Next
<1>1. /\ Ready = db /\ Ledger = journal /\ rev.op \in UndoOps
      /\ Numbered(journal) /\ Numbered(Ledger')
      /\ Stacked(db, journal) /\ Stacked(Ready', Ledger')
      /\ Len(journal) + 1 \in 1..MaxRevs
  BY BeginGrows
<1>2. PICK r : Grows(journal, Ledger', r) /\ Formed(r) /\ r.op = rev.op
  BY BeginGrows
<1> QED BY <1>1, <1>2, PushIsChange

LEMMA UndoIsUndo ==
  ASSUME NEW p, Alone(p), IInv, IInv', Ahead(p), Ahead(p)', Plain', undoLastStore(p)
  PROVE  UH!Next
<1> PICK i \in DOMAIN journal :
      /\ NotUndone(i)
      /\ \A k \in DOMAIN journal : NotUndone(k) => k <= i
      /\ Begin(p, "undo", Rev("undo", journal[i].id, "human", journal[i].seq, NoRec, NoRec),
               journal[i].op, Restore(journal[i]))
  BY DEF undoLastStore
<1> DEFINE rev == Rev("undo", journal[i].id, "human", journal[i].seq, NoRec, NoRec)
<1>1. Begin(p, "undo", rev, journal[i].op, Restore(journal[i]))
  OBVIOUS
<1>2. i \in Standing(journal) /\ \A k \in Standing(journal) : k <= i
  BY DEF Standing, Stands, NotUndone
<1>3. rev.op = "undo" /\ rev.ref = journal[i].seq
  BY DEF Rev
<1> HIDE DEF rev
<1>4. /\ Ready = db /\ Ledger = journal /\ Numbered(journal)
      /\ Stacked(db, journal) /\ Stacked(Ready', Ledger')
  BY <1>1, BeginGrows
<1>5. PICK r : Grows(journal, Ledger', r) /\ r.op = rev.op /\ r.ref = rev.ref
  BY <1>1, BeginGrows
<1>6. journal[i].seq = i /\ journal[i].id \in Ids
  BY <1>4, JournalRev DEF IInv, Numbered
<1> QED BY <1>2, <1>3, <1>4, <1>5, <1>6, PopIsUndo

(* Only the start of a command is seen. *)
LEMMA CommandStutters ==
  ASSUME NEW p, Alone(p), IInv, Ahead(p), WriteStep(p) \/ Note(p) \/ appendRevision(p)
  PROVE  Ready' = Ready /\ Ledger' = Ledger
<1> DEFINE w == work[p]
           d == Carried(db, w.rev.id, w.todo)
<1>0. p \in Procs
  BY DEF Alone
<1>1. CASE WriteStep(p)
  <2>1. /\ pc[p] = "write" /\ db' = Written(db, w.rev.id, Head(w.todo))
        /\ work' = [work EXCEPT ![p].todo = Tail(w.todo)]
        /\ pc' = [pc EXCEPT ![p] = IF Len(w.todo) = 1 THEN "note" ELSE "write"]
        /\ UNCHANGED journal
    BY <1>1 DEF WriteStep
  <2>2. w \in Working /\ w.todo \in Seq(Write) /\ w.todo # <<>>
    BY <1>0, <2>1, BusyWork DEF GoodWrites
  <2>3. Len(w.todo) <= 3
    BY <2>1 DEF Ahead
  <2>4. work'[p].rev = w.rev /\ work'[p].todo = Tail(w.todo)
    BY <1>0, <2>1, <2>2 DEF IInv, GoodWork, Working
  <2>5. pc'[p] \in {"note", "write"}
    BY <1>0, <2>1 DEF IInv, GoodWork
  <2>6. Carried(db', w.rev.id, Tail(w.todo)) = d
    BY <2>1, <2>2, <2>3, CarriedStep
  <2> HIDE DEF d, w
  <2>7. Carried(db', work'[p].rev.id, work'[p].todo) = d
    BY <2>4, <2>6
  <2>8. Ready = d /\ Ready' = d
    BY <2>1, <2>5, <2>7, ReadyLedger DEF d, w
  <2>9. /\ Ledger = Append(journal, NotedIn(Ready, journal, w.rev))
        /\ Ledger' = Append(journal, NotedIn(Ready', journal, w.rev))
    BY <2>1, <2>4, <2>5, ReadyLedger DEF w
  <2> QED BY <2>8, <2>9
<1>2. CASE Note(p)
  <2>1. /\ pc[p] = "note" /\ work' = [work EXCEPT ![p].rev = Noted(w.rev)]
        /\ pc' = [pc EXCEPT ![p] = "append"] /\ UNCHANGED <<db, journal>>
    BY <1>2 DEF Note
  <2>2. w \in Working /\ w.todo = <<>>
    BY <1>0, <2>1, BusyWork DEF Ahead
  <2>3. Carried(db, w.rev.id, w.todo) = db
    BY <2>2 DEF Carried, First, Rest
  <2>4. NotedIn(db, journal, w.rev) = Noted(w.rev)
    BY DEF NotedIn, Noted
  <2>5. work'[p].rev = Noted(w.rev) /\ pc'[p] = "append"
    BY <1>0, <2>1, <2>2 DEF IInv, GoodWork, Working
  <2>6. Ready = db /\ Ready' = db
    BY <2>1, <2>3, <2>5, ReadyLedger
  <2>7. Ledger = Append(journal, Noted(w.rev))
    BY <2>1, <2>4, <2>6, ReadyLedger
  <2>8. Ledger' = Append(journal, Noted(w.rev))
    BY <2>1, <2>5, ReadyLedger
  <2> QED BY <2>6, <2>7, <2>8
<1>3. CASE appendRevision(p)
  <2>1. /\ pc[p] = "append" /\ journal' = Append(journal, w.rev) /\ UNCHANGED db
        /\ pc' = [pc EXCEPT ![p] = "idle"]
    BY <1>3 DEF appendRevision, Done
  <2>2. pc'[p] = "idle"
    BY <1>0, <2>1 DEF IInv, GoodWork
  <2> QED BY <2>1, <2>2, ReadyLedger
<1> QED BY <1>1, <1>2, <1>3

LEMMA HistoryInit ==
  ASSUME NEW p, Alone(p), Init
  PROVE  UH!Init
<1>1. pc[p] = "idle" /\ db = EmptyDatabase /\ journal = <<>>
  BY DEF Init, Alone
<1>2. Ready = db /\ Ledger = journal
  BY <1>1, ReadyLedger
<1>3. \A id \in Ids : Get(db, id) = NoRec
  <2>1. \A l \in Level, id \in Ids : db[l][id] = NoRec
    BY <1>1 DEF EmptyDatabase
  <2> QED BY <2>1, GetNone
<1>4. Standing(journal) = {}
  BY <1>1 DEF Standing
<1>5. ChangesOf(journal) = [n \in {} |-> NoRec]
  BY <1>4 DEF ChangesOf
<1> QED BY <1>2, <1>3, <1>5 DEF UH!Init

LEMMA HistoryStep ==
  ASSUME NEW p, Alone(p), IInv, IInv', Alike(p), Alike(p)', [Next]_vars
  PROVE  [Plain' => UH!Next]_(UH!histVars)
<1> SUFFICES ASSUME Plain', ~UNCHANGED UH!histVars PROVE UH!Next
  OBVIOUS
<1>1. Unbroken' /\ Ahead(p)'
  BY DEF Plain, Unbroken, Alike
<1>2. CASE UNCHANGED vars
  <2>1. Ready' = Ready /\ Ledger' = Ledger
    BY <1>2, ReadyLedger DEF vars
  <2> QED BY <2>1 DEF UH!histVars
<1>3. CASE Next
  <2>1. \/ storeCommit(p) \/ storeRm(p) \/ storeMove(p)
        \/ undoLastStore(p) \/ revertRevision(p) \/ cherryPickRevision(p)
        \/ WriteStep(p) \/ WriteFails(p) \/ Note(p)
        \/ appendRevision(p) \/ AppendFails(p) \/ Crash(p)
    BY <1>3 DEF Next, Alone
  <2>2. ~WriteFails(p) /\ ~AppendFails(p) /\ ~Crash(p)
    BY <1>1, BoundsAssumption DEF WriteFails, AppendFails, Crash, Unbroken, IInv, GoodBounds
  <2>3. UNCHANGED <<crashes, faults>>
    <3>1. ASSUME NEW command, NEW rev, NEW of, NEW writes, Begin(p, command, rev, of, writes)
          PROVE  UNCHANGED <<crashes, faults>>
      BY <3>1 DEF Begin
    <3>2. CASE storeCommit(p) \/ storeRm(p) \/ storeMove(p)
               \/ undoLastStore(p) \/ revertRevision(p) \/ cherryPickRevision(p)
      BY <3>1, <3>2 DEF storeCommit, storeRm, storeMove, undoLastStore, revertRevision,
                        cherryPickRevision
    <3>3. CASE WriteStep(p) \/ Note(p) \/ appendRevision(p)
      BY <3>3 DEF WriteStep, Note, appendRevision
    <3> QED BY <2>1, <2>2, <3>2, <3>3
  <2>4. Ahead(p)
    BY <1>1, <2>3 DEF Unbroken, Alike
  <2>5. CASE storeCommit(p)
    <3>1. PICK by, id, rec, before :
            Begin(p, "commit", Rev("put", id, by, 0, before, rec), "put", Put(rec))
      BY <2>5 DEF storeCommit
    <3>2. Rev("put", id, by, 0, before, rec).op # "undo"
      BY DEF Rev
    <3> QED BY <1>1, <2>4, <3>1, <3>2, BeginIsChange
  <2>6. CASE storeRm(p)
    <3>1. PICK id, before :
            Begin(p, "rm", Rev("delete", id, "human", 0, before, NoRec), "delete", Delete)
      BY <2>6 DEF storeRm
    <3>2. Rev("delete", id, "human", 0, before, NoRec).op # "undo"
      BY DEF Rev
    <3> QED BY <1>1, <2>4, <3>1, <3>2, BeginIsChange
  <2>7. CASE storeMove(p)
    <3>1. PICK id, cur, moved :
            Begin(p, "move", MoveRev(cur, moved, id), "move", MoveWrites(cur, moved))
      BY <2>7 DEF storeMove
    <3>2. MoveRev(cur, moved, id).op # "undo"
      BY DEF MoveRev, Rev
    <3> QED BY <1>1, <2>4, <3>1, <3>2, BeginIsChange
  <2>8. CASE undoLastStore(p)
    BY <1>1, <2>4, <2>8, UndoIsUndo
  <2>9. CASE revertRevision(p)
    <3>1. PICK id, ref, before, of, writes :
            Begin(p, "revert", Rev("revert", id, "human", ref, before, NoRec), of, writes)
      BY <2>9 DEF revertRevision
    <3>2. Rev("revert", id, "human", ref, before, NoRec).op \notin UndoOps
      BY DEF Rev, UndoOps
    <3> QED BY <1>1, <2>4, <3>1, <3>2, BeginGrows
  <2>10. CASE cherryPickRevision(p)
    <3>1. PICK id, ref, before, of, writes :
            Begin(p, "cherry-pick", Rev("cherry-pick", id, "human", ref, before, NoRec), of, writes)
      BY <2>10 DEF cherryPickRevision
    <3>2. Rev("cherry-pick", id, "human", ref, before, NoRec).op \notin UndoOps
      BY DEF Rev, UndoOps
    <3> QED BY <1>1, <2>4, <3>1, <3>2, BeginGrows
  <2>11. CASE WriteStep(p) \/ Note(p) \/ appendRevision(p)
    <3>1. Ready' = Ready /\ Ledger' = Ledger
      BY <2>4, <2>11, CommandStutters
    <3> QED BY <3>1 DEF UH!histVars
  <2> QED BY <2>1, <2>2, <2>5, <2>6, <2>7, <2>8, <2>9, <2>10, <2>11
<1> QED BY <1>2, <1>3

(* Commands that run one after the other, and commits that keep the scope  *)
(* a record has, are changes and undos of a history, for any records and   *)
(* any number of commands, until one is killed or fails or is a revert or  *)
(* a cherry-pick (storehistory.go, cmd_store.go).                          *)
THEOREM HistoryRefinement ==
  ASSUME NEW p, Alone(p), KeepsScope
  PROVE  Spec => ImplementsHistory
<1>1. Init => UH!Init
  BY HistoryInit
<1>2. IInv /\ IInv' /\ Alike(p) /\ Alike(p)' /\ [Next]_vars => [Plain' => UH!Next]_(UH!histVars)
  BY HistoryStep
<1> QED BY <1>1, <1>2, Invariance, AlikeHolds, PTL DEF Spec, ImplementsHistory
=============================================================================
