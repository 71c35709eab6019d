--------------------------- MODULE MCStoreJournal ---------------------------
(* Small instances of StoreJournal. *)
EXTENDS StoreJournal, TLC

(* Bodies, ids and processes are only compared. *)
Symmetry == Permutations(Bodies) \cup Permutations(Ids) \cup Permutations(Procs)
=============================================================================
