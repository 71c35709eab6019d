---------------------------- MODULE RunLifecycle ----------------------------
(***************************************************************************)
(* What a background dispatch run promises whoever reads its manifest      *)
(* (dispatch status, the status dashboard, the lifecycle hook): a run is   *)
(* submitted, works, reaches at most one outcome, and once its label is    *)
(* terminal it never works again and never looks like it is running.       *)
(*                                                                         *)
(* The label of a concluded run may still flip between its outcome and     *)
(* "cancelled": a cancel that read the manifest before the run concluded   *)
(* and a hook that read it before the cancel both write what they read.    *)
(***************************************************************************)

VARIABLES
    phase,      \* the label the manifest shows
    outcome,    \* what the supervisor concluded, "none" until it did
    worker      \* whether a managed child is executing

absVars == <<phase, outcome, worker>>

Outcome  == {"done", "failed"}
Terminal == Outcome \cup {"cancelled"}

AbsTypeOK ==
    /\ phase \in {"absent", "running"} \cup Terminal
    /\ outcome \in Outcome \cup {"none"}
    /\ worker \in {"idle", "busy"}

AbsInit ==
    /\ phase = "absent"
    /\ outcome = "none"
    /\ worker = "idle"

Submit ==
    /\ phase = "absent"
    /\ phase' = "running"
    /\ UNCHANGED <<outcome, worker>>

BeginWork ==
    /\ phase = "running"
    /\ outcome = "none"
    /\ worker = "idle"
    /\ worker' = "busy"
    /\ UNCHANGED <<phase, outcome>>

\* A child ends by itself or is killed, under any label.
EndWork ==
    /\ worker = "busy"
    /\ worker' = "idle"
    /\ UNCHANGED <<phase, outcome>>

Conclude ==
    /\ phase = "running"
    /\ outcome = "none"
    /\ worker = "idle"
    /\ outcome' \in Outcome
    /\ UNCHANGED <<phase, worker>>

\* The label becomes terminal: the outcome, or a cancellation.
Label ==
    /\ phase # "absent"
    /\ phase' \in {outcome, "cancelled"} \cap Terminal
    /\ UNCHANGED <<outcome, worker>>

AbsNext == Submit \/ BeginWork \/ EndWork \/ Conclude \/ Label

AbsSpec == AbsInit /\ [][AbsNext]_absVars
=============================================================================
