---------------------------- MODULE StoreJournal ----------------------------
(***************************************************************************)
(* Store versioning (storehistory.go, commitmodel.go and the commands of   *)
(* cmd_store.go, cmd_gate.go and serve.go that change the store).  Every   *)
(* operation reads the store and, for the versioning operations, the       *)
(* journal; carries out its writes, one file at a time; and then appends   *)
(* one revision to .projx/store-history.jsonl.  Nothing locks the store or *)
(* the journal, so commands of several processes interleave between those  *)
(* steps, a process may be killed between them, and a write or the append  *)
(* may fail.                                                               *)
(*                                                                         *)
(* Simplifications: the reads at the start of a command are one step, and  *)
(* an append is a whole line or nothing.                                   *)
(***************************************************************************)
EXTENDS KnowledgeStore, FiniteSets

CONSTANTS
  Procs,         \* processes that run store commands
  Ops,           \* the commands they use, a subset of Command
  Actors,        \* who commits, a subset of Provenance
  CommitScopes,  \* the --scope values used by commits
  KeepsScope,    \* do commits name the scope the record already has?
  StatusFlags,   \* the --status values used; "kept" is no flag
  MaxRevs,       \* bound: revisions in the journal
  MaxCrashes,    \* bound: killed commands
  MaxFaults      \* bound: failing writes and appends

Command == {"commit", "rm", "move", "undo", "revert", "cherry-pick"}
Op == {"put", "delete", "move", "undo", "revert", "cherry-pick"}

ASSUME OpsAssumption == Ops \subseteq Command
ASSUME ActorsAssumption == Actors \subseteq Provenance
ASSUME ScopesAssumption == CommitScopes \subseteq Scope
ASSUME FlagsAssumption == StatusFlags \subseteq Status \cup {"kept"}
ASSUME BoundsAssumption == MaxRevs \in Nat /\ MaxCrashes \in Nat /\ MaxFaults \in Nat

VARIABLES
  db,       \* the files
  journal,  \* the revisions, in file order
  pc,       \* where each process is: idle, writing, noting, appending
  work,     \* the revision it prepares and the writes it has left
  crashes, faults

vars == <<db, journal, pc, work, crashes, faults>>

(* ref stands for undoOf and refSeq. *)
Revision == [seq : Nat, op : Op, id : Ids, by : Provenance, ref : Nat,
             before : Record \cup {NoRec}, after : Record \cup {NoRec}]
Idle == [todo |-> <<>>]
Working == [rev : Revision, of : Op, todo : Seq(Write)]

Init ==
  /\ db = EmptyDatabase
  /\ journal = <<>>
  /\ pc = [p \in Procs |-> "idle"]
  /\ work = [p \in Procs |-> Idle]
  /\ crashes = 0
  /\ faults = 0

-----------------------------------------------------------------------------
(* The commands: what each reads, checks and decides to write.             *)

(* Start a command: rev is what it will record (its seq and after may be  *)
(* filled in later), of the operation it undoes, writes what it will do.  *)
Begin(p, command, rev, of, writes) ==
  /\ command \in Ops
  /\ pc[p] = "idle"
  /\ Len(journal) < MaxRevs
  /\ work' = [work EXCEPT ![p] = [rev |-> rev, of |-> of, todo |-> writes]]
  /\ pc' = [pc EXCEPT ![p] = IF writes = <<>> THEN "note" ELSE "write"]
  /\ UNCHANGED <<db, journal, crashes, faults>>

Rev(op, id, by, ref, before, after) ==
  [seq |-> Len(journal) + 1, op |-> op, id |-> id, by |-> by, ref |-> ref,
   before |-> before, after |-> after]

(* The status of a committed record: the flag's, else the one it had, else *)
(* candidate for an agent and active for a human.                          *)
CommitStatus(by, before, flag) ==
  IF flag # "kept" THEN flag
  ELSE IF before # NoRec THEN before.status
  ELSE IF by = "agent" THEN "candidate" ELSE "active"

(* Mutant: the status an agent gives is not looked at. *)
AgentMayStatus(before, rec) == before # NoRec => ~Authoritative(before)
(* An agent may not replace what counts, nor write anything that would. *)
AgentMay(before, rec) ==
  /\ before # NoRec => ~Authoritative(before)
  /\ rec.status = "candidate"

storeCommit(p) ==
  \E by \in Actors, id \in Ids, body \in Bodies, scope \in CommitScopes, flag \in StatusFlags :
    LET before == Get(db, id)
        rec == [scope |-> scope, body |-> body, prov |-> by,
                status |-> CommitStatus(by, before, flag)]
    IN /\ KeepsScope /\ before # NoRec => scope = before.scope
       /\ by = "agent" => AgentMay(before, rec)
       /\ Begin(p, "commit", Rev("put", id, by, 0, before, rec), "put", Put(rec))

storeRm(p) ==
  \E id \in Ids :
    /\ Get(db, id) # NoRec
    /\ Begin(p, "rm", Rev("delete", id, "human", 0, Get(db, id), NoRec), "delete", Delete)

(* The new copy first, then the old one, unless both are in one file. *)
MoveWrites(cur, moved) ==
  Put(moved) \o (IF owning(cur.scope) = owning(moved.scope) THEN <<>>
                 ELSE <<[level |-> owning(cur.scope), rec |-> NoRec]>>)

MoveRevAfterCur(cur, moved, id) == Rev("move", id, "human", 0, cur, cur)
MoveRev(cur, moved, id) == Rev("move", id, "human", 0, cur, moved)

storeMove(p) ==
  \E id \in Ids, to \in Scope :
    LET cur == Get(db, id)
        moved == [cur EXCEPT !.scope = to]
    IN /\ cur # NoRec
       /\ cur.scope # to
       /\ to = "workspace" => HasSpace
       /\ Begin(p, "move", MoveRev(cur, moved, id), "move", MoveWrites(cur, moved))

-----------------------------------------------------------------------------
(* The versioning operations read the journal.                             *)

(* Revision i is not an undo and no undo names it. *)
NotUndone(i) ==
  /\ journal[i].op # "undo"
  /\ \A k \in DOMAIN journal : journal[k].op = "undo" => journal[k].ref # journal[i].seq

RestoreGeneric(r) == IF r.before = NoRec THEN Delete ELSE Put(r.before)
(* The inverse undo applies; a revert or a cherry-pick has none. *)
Restore(r) ==
  IF r.op = "put" /\ r.before = NoRec THEN Delete
  ELSE IF r.op = "move" THEN <<[level |-> owning(r.after.scope), rec |-> NoRec]>> \o Put(r.before)
  ELSE IF r.op \in {"put", "delete"} /\ r.before # NoRec THEN Put(r.before)
  ELSE <<>>

(* Undo the last revision that is not undone. *)
undoLastStore(p) ==
  \E i \in DOMAIN journal :
    LET r == journal[i]
    IN /\ NotUndone(i)
       /\ \A k \in DOMAIN journal : NotUndone(k) => k <= i
       /\ Begin(p, "undo", Rev("undo", r.id, "human", r.seq, NoRec, NoRec), r.op, Restore(r))

(* The first data revision with the number asked for. *)
IsTarget(i) ==
  /\ journal[i].op \in {"put", "delete"}
  /\ \A k \in DOMAIN journal : journal[k].seq = journal[i].seq => i <= k

RevertWritesUpdates(r) == IF r.before = NoRec THEN <<>> ELSE Put(r.before)
RevertWrites(r) == IF r.before = NoRec THEN Delete ELSE Put(r.before)

revertRevision(p) ==
  \E i \in DOMAIN journal :
    LET r == journal[i]
    IN /\ IsTarget(i)
       /\ r.op = "delete" => r.before # NoRec
       /\ Begin(p, "revert", Rev("revert", r.id, "human", r.seq, Get(db, r.id), NoRec),
                r.op, RevertWrites(r))

cherryPickRevision(p) ==
  \E i \in DOMAIN journal :
    LET r == journal[i]
    IN /\ IsTarget(i)
       /\ r.op = "put" => r.after # NoRec
       /\ Begin(p, "cherry-pick",
                Rev("cherry-pick", r.id, "human", r.seq, Get(db, r.id), NoRec),
                r.op, IF r.op = "put" THEN Put(r.after) ELSE Delete)

-----------------------------------------------------------------------------
(* Carrying a command out.                                                 *)

(* One write to one file. *)
WriteStep(p) ==
  LET w == work[p] IN
  /\ pc[p] = "write"
  /\ db' = Written(db, w.rev.id, Head(w.todo))
  /\ work' = [work EXCEPT ![p].todo = Tail(w.todo)]
  /\ pc' = [pc EXCEPT ![p] = IF Len(w.todo) = 1 THEN "note" ELSE "write"]
  /\ UNCHANGED <<journal, crashes, faults>>

(* A write fails.  Undo ignores it: the rest of a Delete is dropped, the    *)
(* second half of a move is still tried.  The others give up unrecorded.   *)
WriteFails(p) ==
  LET w == work[p]
      left == IF w.of = "move" THEN Tail(w.todo) ELSE <<>>
  IN /\ pc[p] = "write"
     /\ faults < MaxFaults
     /\ faults' = faults + 1
     /\ IF w.rev.op = "undo"
        THEN /\ work' = [work EXCEPT ![p].todo = left]
             /\ pc' = [pc EXCEPT ![p] = IF left = <<>> THEN "note" ELSE "write"]
        ELSE /\ work' = [work EXCEPT ![p] = Idle]
             /\ pc' = [pc EXCEPT ![p] = "idle"]
     /\ UNCHANGED <<db, journal, crashes>>

(* A put, delete or move counts the revisions only now; a revert or a      *)
(* cherry-pick looks at what it left; an undo has nothing to add.          *)
NotedIntended(rev) ==
  IF rev.op \in {"revert", "cherry-pick"} THEN [rev EXCEPT !.after = rev.before]
  ELSE IF rev.op = "undo" THEN rev ELSE [rev EXCEPT !.seq = Len(journal) + 1]
Noted(rev) ==
  IF rev.op \in {"revert", "cherry-pick"} THEN [rev EXCEPT !.after = Get(db, rev.id)]
  ELSE IF rev.op = "undo" THEN rev ELSE [rev EXCEPT !.seq = Len(journal) + 1]

Note(p) ==
  /\ pc[p] = "note"
  /\ work' = [work EXCEPT ![p].rev = Noted(@)]
  /\ pc' = [pc EXCEPT ![p] = "append"]
  /\ UNCHANGED <<db, journal, crashes, faults>>

Done(p) == pc' = [pc EXCEPT ![p] = "idle"] /\ work' = [work EXCEPT ![p] = Idle]

appendRevision(p) ==
  /\ pc[p] = "append"
  /\ journal' = Append(journal, work[p].rev)
  /\ Done(p)
  /\ UNCHANGED <<db, crashes, faults>>

(* The journal cannot be opened: the error is dropped. *)
AppendFails(p) ==
  /\ pc[p] = "append"
  /\ faults < MaxFaults
  /\ faults' = faults + 1
  /\ Done(p)
  /\ UNCHANGED <<db, journal, crashes>>

(* The process is killed in the middle of a command. *)
Crash(p) ==
  /\ pc[p] # "idle"
  /\ crashes < MaxCrashes
  /\ crashes' = crashes + 1
  /\ Done(p)
  /\ UNCHANGED <<db, journal, faults>>

Next ==
  \E p \in Procs :
    \/ storeCommit(p)
    \/ storeRm(p)
    \/ storeMove(p)
    \/ undoLastStore(p)
    \/ revertRevision(p)
    \/ cherryPickRevision(p)
    \/ WriteStep(p)
    \/ WriteFails(p)
    \/ Note(p)
    \/ appendRevision(p)
    \/ AppendFails(p)
    \/ Crash(p)

Spec == Init /\ [][Next]_vars

-----------------------------------------------------------------------------
(* Properties.                                                             *)

(* Every variable has its type: the files hold records or nothing, the     *)
(* journal holds revisions, and a busy process has a revision in hand.     *)
TypeOK ==
  /\ db \in Database
  /\ journal \in Seq(Revision)
  /\ pc \in [Procs -> {"idle", "write", "note", "append"}]
  /\ \A p \in Procs : IF pc[p] = "idle" THEN work[p] = Idle ELSE work[p] \in Working
  /\ DOMAIN work = Procs
  /\ crashes \in 0..MaxCrashes
  /\ faults \in 0..MaxFaults

AllIdle == \A p \in Procs : pc[p] = "idle"
Undisturbed == AllIdle /\ crashes = 0 /\ faults = 0

(* The record the journal gives an id when only the revisions in js count: *)
(* the after of the last of them.                                          *)
Replay(js, id) ==
  LET touching == {i \in js : journal[i].id = id}
  IN IF touching = {} THEN NoRec
     ELSE journal[CHOOSE i \in touching : \A k \in touching : k <= i].after

(* No operation but these was used so far. *)
Only(ops) == \A i \in DOMAIN journal : journal[i].op \in ops

(* What a reader sees is what the revisions that are not undone say: undo  *)
(* takes exactly one change back, whatever commits, removals, moves and    *)
(* undos came before it (undoLastStore and the Before and After it uses;   *)
(* it has no inverse for a revert or a cherry-pick).                       *)
LiveIsReplayOfNotUndone ==
  Undisturbed /\ Only({"put", "delete", "move", "undo"}) =>
    \A id \in Ids : Get(db, id) = Replay({i \in DOMAIN journal : NotUndone(i)}, id)

(* The historical view at the latest revision is the live view: checkout   *)
(* replays every revision by its After (checkoutState).  An undo records   *)
(* none, and a revert of a record that has moved leaves a second copy that *)
(* a later move uncovers, so neither is used.                              *)
CheckoutIsCurrent ==
  /\ Undisturbed
  /\ Only({"put", "delete", "move"}) \/ Only({"put", "delete", "revert", "cherry-pick"})
  => \A id \in Ids : Get(db, id) = Replay(DOMAIN journal, id)

(* The scopes a record was ever given. *)
ScopesOf(id) ==
  LET revs == {journal[i] : i \in {k \in DOMAIN journal : journal[k].id = id}}
      recs == {r.before : r \in revs} \cup {r.after : r \in revs}
  IN {rec.scope : rec \in recs \ {NoRec}}

(* Right after a revert the reader sees what the reverted change replaced, *)
(* as long as the record only ever had one scope (revertRevision).         *)
RevertTakesEffect ==
  /\ Undisturbed
  /\ journal # <<>> /\ journal[Len(journal)].op = "revert"
  /\ Cardinality(ScopesOf(journal[Len(journal)].id)) <= 1
  => \A i \in DOMAIN journal :
       journal[i].seq = journal[Len(journal)].ref =>
         Get(db, journal[i].id) = journal[i].before

(* Knowledge an agent asserted is a candidate wherever it is kept: in a    *)
(* file, in the journal (from where undo, revert and cherry-pick bring it  *)
(* back) or in the hands of a running command.  No interleaving, crash or  *)
(* failed write promotes it (storeCommit's agent guards).                  *)
Candidate(rec) == rec # NoRec /\ rec.prov = "agent" => rec.status = "candidate"
AgentKnowledgeIsCandidate ==
  /\ \A l \in Level, id \in Ids : Candidate(db[l][id])
  /\ \A i \in DOMAIN journal : Candidate(journal[i].before) /\ Candidate(journal[i].after)
  /\ \A p \in Procs : pc[p] # "idle" =>
       /\ Candidate(work[p].rev.before)
       /\ Candidate(work[p].rev.after)
       /\ \A i \in DOMAIN work[p].todo : Candidate(work[p].todo[i].rec)

(* Every copy in a file that no revision knows and no running command is   *)
(* about to record is the trace of a command that was killed or of a write *)
(* that failed: history is otherwise never lost (storehistory.go:3-6).     *)
Known(id, rec) ==
  \/ \E i \in DOMAIN journal : journal[i].id = id /\ rec \in {journal[i].before, journal[i].after}
  \/ \E p \in Procs : pc[p] # "idle" /\ work[p].rev.id = id
                      /\ rec \in {work[p].rev.before, work[p].rev.after}
HistoryCoversStore ==
  LET unknown == {c \in Level \X Ids :
                   db[c[1]][c[2]] # NoRec /\ ~Known(c[2], db[c[1]][c[2]])}
  IN Cardinality(unknown) <= crashes + faults
-----------------------------------------------------------------------------
(* One process implements UndoHistory.  A command decides all it will do   *)
(* when it begins, so it counts as done from there on.                     *)

(* Commands run one after the other: an idle process keeps nothing, so one *)
(* process stands for whoever runs them.                                   *)
Runner == CHOOSE p \in Procs : TRUE
Busy == pc[Runner] # "idle"

(* The files when the writes ws are done; no command has more than three. *)
Rest(ws) == IF ws = <<>> THEN <<>> ELSE Tail(ws)
First(d, id, ws) == IF ws = <<>> THEN d ELSE Written(d, id, Head(ws))
Carried(d, id, ws) ==
  First(First(First(d, id, ws), id, Rest(ws)), id, Rest(Rest(ws)))

(* The revision as it will be appended when the files are d. *)
NotedIn(d, js, rev) ==
  IF rev.op \in {"revert", "cherry-pick"} THEN [rev EXCEPT !.after = Get(d, rev.id)]
  ELSE IF rev.op = "undo" THEN rev ELSE [rev EXCEPT !.seq = Len(js) + 1]

(* The files and the journal as the running command leaves them. *)
Ready == IF pc[Runner] \in {"write", "note"}
         THEN Carried(db, work[Runner].rev.id, work[Runner].todo) ELSE db
Ledger == IF ~Busy THEN journal
          ELSE Append(journal, IF pc[Runner] = "append" THEN work[Runner].rev
                               ELSE NotedIn(Ready, journal, work[Runner].rev))

(* NotUndone, of any journal. *)
Stands(js, i) ==
  /\ js[i].op # "undo"
  /\ \A k \in DOMAIN js : js[k].op = "undo" => js[k].ref # js[i].seq
Standing(js) == {i \in DOMAIN js : Stands(js, i)}
ChangesOf(js) ==
  [i \in Standing(js) |-> [id |-> js[i].id, before |-> js[i].before, after |-> js[i].after]]

UH == INSTANCE UndoHistory WITH shown <- [id \in Ids |-> Get(Ready, id)],
                                past <- ChangesOf(Ledger), Times <- 1..MaxRevs

(* One process, whose commits keep the scope a record has; nothing was     *)
(* killed and nothing failed; and undo has no inverse for a revert or a    *)
(* cherry-pick.                                                            *)
UndoOps == {"put", "delete", "move", "undo"}
Plain ==
  /\ Procs = {Runner} /\ KeepsScope
  /\ crashes = 0 /\ faults = 0
  /\ \A i \in DOMAIN Ledger : Ledger[i].op \in UndoOps

(* Every command is one change of one record, or takes exactly the latest  *)
(* change back that is not taken back yet, for all who read the store; and *)
(* the journal knows that change with what it replaced (storehistory.go,   *)
(* and the commands of cmd_store.go that record through it).               *)
ImplementsHistory == UH!Init /\ [][Plain' => UH!Next]_(UH!histVars)
=============================================================================
