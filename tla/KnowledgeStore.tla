--------------------------- MODULE KnowledgeStore ---------------------------
(***************************************************************************)
(* The composed knowledge store (third_party/projx-store): one logical     *)
(* store over up to three SQLite files, the project's, an optional         *)
(* workspace's and the user's global one.  Reads compose the levels, the   *)
(* most specific one first; a write goes to the level that owns the        *)
(* record's scope; a delete removes the id from every level.  There is no  *)
(* transaction over two files, so an operation is a SEQUENCE of writes to  *)
(* single files; this module says which, StoreJournal carries them out.    *)
(*                                                                         *)
(* A record is reduced to what the callers branch on: its scope, a body,   *)
(* the effective lifecycle status ("" counts as active) and its            *)
(* provenance.  Keys, kinds, times and the other metadata travel with it   *)
(* unread.                                                                 *)
(***************************************************************************)
EXTENDS Naturals, Sequences

CONSTANTS
  Ids,       \* record identifiers
  Bodies,    \* what a record may say
  NoRec,     \* "no such record" (Get's false, a nil *Record)
  HasSpace   \* is the project inside a workspace?

Level == {"project", "workspace", "global"}
Scope == Level
Status == {"candidate", "active", "superseded", "rejected"}
Provenance == {"human", "agent"}

Record == [scope : Scope, body : Bodies, status : Status, prov : Provenance]

ASSUME NoRecAssumption == NoRec \notin Record
ASSUME HasSpaceAssumption == HasSpace \in BOOLEAN

(* Three maps, one per file.  The file of an absent workspace stays empty. *)
Database == [Level -> [Ids -> Record \cup {NoRec}]]
EmptyDatabase == [l \in Level |-> [id \in Ids |-> NoRec]]

(* A write to one file: an upsert, or a delete when rec is NoRec. *)
Write == [level : Level, rec : Record \cup {NoRec}]
Written(d, id, w) == [d EXCEPT ![w.level][id] = w.rec]

(* The levels that exist, the most specific first. *)
present == IF HasSpace THEN <<"project", "workspace", "global">>
                       ELSE <<"project", "global">>

(* The level a scope is kept at; without a workspace it falls back up. *)
owning(scope) == IF scope = "workspace" /\ ~HasSpace THEN "global" ELSE scope

(* What a reader sees: the copy at the most specific level. *)
Get(d, id) == IF d["project"][id] # NoRec THEN d["project"][id]
              ELSE IF d["workspace"][id] # NoRec THEN d["workspace"][id]
              ELSE d["global"][id]

(* The writes of Put and of Delete. *)
Put(rec) == <<[level |-> owning(rec.scope), rec |-> rec]>>
Delete == [i \in DOMAIN present |-> [level |-> present[i], rec |-> NoRec]]

Authoritative(rec) == rec.status = "active"
=============================================================================
