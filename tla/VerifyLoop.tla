----------------------------- MODULE VerifyLoop -----------------------------
(***************************************************************************)
(* Verification: `verify' (cmd_verify.go, cmd_drift.go), which checks the  *)
(* declared boundaries, then the declared facts, then runs a build or test *)
(* command, and `verify-loop' (verifyloop.go), which runs an agent, checks *)
(* the boundaries and runs the agent again with what is still violated.    *)
(* Both look at a tree that people, agents and the build itself change     *)
(* between one check and the next.                                         *)
(*                                                                         *)
(* The tree is what the checks would find in it.                           *)
(***************************************************************************)
EXTENDS Naturals, FiniteSets

CONSTANTS
  Rules,      \* declared boundaries
  Facts,      \* declared facts
  OffLimits,  \* facts whose target the gate denies
  Systems,    \* build systems that may be at the root
  MaxIters,   \* --max
  MaxEdits    \* bound: edits by others

VARIABLES
  violated, drifted, broken,  \* the tree: rules, facts, and does it build?
  override, systems,          \* setting/verify-cmd, and what is at the root
  loop,     \* [pc, iters, feedback, remaining]
  verify,   \* [pc, behaviorOnly, noBuild, failed, gated]
  edits,
  moved     \* history: whose last check the tree has moved away from

tree == <<violated, drifted, broken>>
setup == <<override, systems>>
vars == <<tree, setup, loop, verify, edits, moved>>

Init ==
  /\ violated \in SUBSET Rules /\ drifted \in SUBSET Facts /\ broken \in BOOLEAN
  /\ override \in BOOLEAN /\ systems \in SUBSET Systems
  /\ loop = [pc |-> "idle", iters |-> 0, feedback |-> {}, remaining |-> {}]
  /\ verify = [pc |-> "idle", behaviorOnly |-> FALSE, noBuild |-> FALSE, failed |-> FALSE, gated |-> FALSE]
  /\ edits = 0 /\ moved = {}

(* Any part of the tree changes. *)
Changed ==
  /\ violated' \in SUBSET Rules /\ drifted' \in SUBSET Facts /\ broken' \in BOOLEAN
  /\ moved' = {"loop", "verify"}
Edit ==
  /\ edits < MaxEdits /\ edits' = edits + 1
  /\ Changed
  /\ UNCHANGED <<setup, loop, verify>>

(* runVerifyLoopCmd: at least one iteration. *)
LoopStarts ==
  /\ loop.pc = "idle"
  /\ loop' = [pc |-> "act", iters |-> 0, feedback |-> {}, remaining |-> {}]
  /\ UNCHANGED <<tree, setup, verify, edits, moved>>
(* The agent works on the task and what was fed back, and may break        *)
(* something else.  Its failure ends the loop.                             *)
RunAgent ==
  /\ loop.pc = "act"
  /\ Changed
  /\ \E l \in {"check", "error"} : loop' = [loop EXCEPT !.pc = l, !.iters = @ + 1]
  /\ UNCHANGED <<setup, verify, edits>>
CheckTrustsAgent ==
  /\ loop.pc = "check"
  /\ \/ /\ loop' = [loop EXCEPT !.remaining = violated \cap loop.feedback, !.feedback = violated,
             !.pc = IF violated \cap loop.feedback = {} THEN "clean" ELSE IF loop.iters >= MaxIters THEN "gaveup" ELSE "act"]
        /\ moved' = moved \ {"loop"}
     \/ loop' = [loop EXCEPT !.pc = "error"] /\ UNCHANGED moved
  /\ UNCHANGED <<tree, setup, verify, edits>>
(* verifyViolations: the check decides.  A tree that does not parse ends   *)
(* the loop.                                                               *)
Check ==
  /\ loop.pc = "check"
  /\ \/ /\ loop' = [loop EXCEPT !.remaining = violated, !.feedback = violated,
             !.pc = IF violated = {} THEN "clean" ELSE IF loop.iters >= MaxIters THEN "gaveup" ELSE "act"]
        /\ moved' = moved \ {"loop"}
     \/ loop' = [loop EXCEPT !.pc = "error"] /\ UNCHANGED moved
  /\ UNCHANGED <<tree, setup, verify, edits>>
LoopEnds ==
  /\ loop.pc \in {"clean", "gaveup", "error"}
  /\ loop' = [loop EXCEPT !.pc = "idle", !.iters = 0, !.feedback = {}, !.remaining = {}]
  /\ UNCHANGED <<tree, setup, verify, edits, moved>>

(* verify [--no-build] [--behavior-only] *)
VerifyStarts ==
  \E b, n \in BOOLEAN :
    /\ verify.pc = "idle"
    /\ verify' = [pc |-> IF b THEN "behavior" ELSE "boundaries", behaviorOnly |-> b, noBuild |-> n,
                  failed |-> FALSE, gated |-> FALSE]
    /\ moved' = moved \ {"verify"}
    /\ UNCHANGED <<tree, setup, loop, edits>>
(* A tree that does not parse ends the command with an error. *)
Boundaries ==
  /\ verify.pc = "boundaries"
  /\ \/ verify' = [verify EXCEPT !.failed = violated # {}, !.pc = "drift"]
     \/ verify' = [verify EXCEPT !.failed = TRUE, !.pc = "idle"]
  /\ UNCHANGED <<tree, setup, loop, edits, moved>>

checkDrift == drifted \ OffLimits # {}
(* Facts about off-limits targets are skipped. *)
Drift ==
  /\ verify.pc = "drift"
  /\ verify' = [verify EXCEPT !.failed = @ \/ checkDrift, !.pc = "behavior"]
  /\ UNCHANGED <<tree, setup, loop, edits, moved>>

(* verifyCommand: the setting, or that of the only build system there is.  *)
(* With none or several nothing is guessed.                                *)
verifyCommand == override \/ Cardinality(systems) = 1
(* The command is run, which may write into the tree, and its exit counts. *)
Behavior ==
  /\ verify.pc = "behavior"
  /\ IF verifyCommand /\ ~verify.noBuild
     THEN /\ verify' = [verify EXCEPT !.failed = @ \/ broken, !.gated = TRUE, !.pc = "verdict"]
          /\ \/ edits < MaxEdits /\ edits' = edits + 1 /\ Changed
             \/ UNCHANGED <<tree, edits, moved>>
     ELSE verify' = [verify EXCEPT !.pc = "verdict"] /\ UNCHANGED <<tree, edits, moved>>
  /\ UNCHANGED <<setup, loop>>
(* Exit 1, or "verify: OK". *)
VerifyEnds ==
  /\ verify.pc = "verdict"
  /\ verify' = [pc |-> "idle", behaviorOnly |-> FALSE, noBuild |-> FALSE, failed |-> FALSE, gated |-> FALSE]
  /\ UNCHANGED <<tree, setup, loop, edits, moved>>

Next ==
  \/ Edit
  \/ LoopStarts \/ RunAgent \/ Check \/ LoopEnds
  \/ VerifyStarts \/ Boundaries \/ Drift \/ Behavior \/ VerifyEnds
Spec == Init /\ [][Next]_vars
-----------------------------------------------------------------------------
(* verifyloop.go:47-49 "the *check* (not the agent's word) is what decides *)
(* success": a loop that ended clean leaves no boundary violated, and one  *)
(* that gave up names exactly what is, as long as nobody else has changed  *)
(* the tree since the check.                                               *)
CleanIsChecked ==
  /\ loop.pc = "clean" /\ "loop" \notin moved => violated = {}
  /\ loop.pc = "gaveup" /\ "loop" \notin moved => loop.remaining = violated /\ violated # {}

(* cmd_verify.go:16-20: a verify that says OK, over a tree that did not    *)
(* change meanwhile, ran with no part failing: a later part that passes    *)
(* never makes up for an earlier one.  (What is off-limits or has no       *)
(* command is not looked at.)                                              *)
OkMeansAll ==
  verify.pc = "verdict" /\ ~verify.failed /\ "verify" \notin moved =>
    /\ ~verify.behaviorOnly => violated = {} /\ drifted \subseteq OffLimits
    /\ verify.gated => ~broken

(* Whatever a verification says is true of the tree it looked at. *)
VerdictIsTrue == CleanIsChecked /\ OkMeansAll
=============================================================================
