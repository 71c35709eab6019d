--------------------------- MODULE MCDispatchRun ---------------------------
(***************************************************************************)
(* Small instances of DispatchRun: two steps are the fewest that have a    *)
(* "next" step after a failure, two hooks and two cancels the fewest that  *)
(* race with each other.                                                   *)
(***************************************************************************)
EXTENDS DispatchRun, TLC

\* Cancels and hooks are interchangeable (for the safety run only).
Interchangeable == Permutations(Cancels) \cup Permutations(Hooks)
=============================================================================
