----------------------------- MODULE UndoHistory -----------------------------
(***************************************************************************)
(* What the versioning commands promise whoever uses them one at a time:   *)
(* a map from ids to records that one command changes at one id, in one    *)
(* step, and a history of the changes from which undo takes the latest     *)
(* away, leaving the map as that change found it.  Levels, copies, files,  *)
(* the numbers of revisions and the revisions of the undos are hidden.     *)
(***************************************************************************)
EXTENDS Naturals

CONSTANTS
  Ids, Record, NoRec,
  Times  \* numbers, when changes can be made

VARIABLES
  shown,  \* the record of each id, or NoRec
  past    \* past[n]: the change made at time n, of those not undone

histVars == <<shown, past>>

Init ==
  /\ shown = [id \in Ids |-> NoRec]
  /\ past = [n \in {} |-> NoRec]

(* The record of id becomes another, or goes, and no other record does;    *)
(* the history knows the old one and the new one.                          *)
Change(id) ==
  /\ shown'[id] = NoRec => shown[id] # NoRec
  /\ shown' = [shown EXCEPT ![id] = shown'[id]]
  /\ \E now \in Times :
       /\ \A n \in DOMAIN past : n < now
       /\ past' = [n \in DOMAIN past \cup {now} |->
                     IF n = now THEN [id |-> id, before |-> shown[id], after |-> shown'[id]]
                     ELSE past[n]]

(* The latest change is taken back. *)
Undo ==
  \E last \in DOMAIN past :
    /\ \A n \in DOMAIN past : n <= last
    /\ shown' = [shown EXCEPT ![past[last].id] = past[last].before]
    /\ past' = [n \in DOMAIN past \ {last} |-> past[n]]

Next ==
  \/ \E id \in Ids : shown'[id] \in Record \cup {NoRec} /\ Change(id)
  \/ Undo
=============================================================================
