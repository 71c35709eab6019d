---------------------------- MODULE GovernedTurn ----------------------------
(***************************************************************************)
(* The governed turn (cmd_governed_turn.go and its use in cmd_hook.go).    *)
(* The PreToolUse hook of a mutating tool call records the project roots   *)
(* it is about to change in a per-session file and refuses the call when   *)
(* that fails; the prompt hook records the recall in the same file; the    *)
(* Stop hook verifies every recorded root and, when all pass, clears the   *)
(* record.  Each hook is a process of its own that loads the file, changes *)
(* its copy and rewrites the file, which os.WriteFile truncates first.     *)
(*                                                                         *)
(* A root is unsafe when a tool left it in a state verifyAll rejects; the  *)
(* recorded paths and the prompt are carried with the roots.               *)
(***************************************************************************)
EXTENDS Naturals, FiniteSets

CONSTANTS
  Tools,       \* tool calls that may be under way together
  Roots,       \* project roots
  HomeRoots,   \* the user's home, among them, which is never governed
  MaxFaults    \* bound: killed hooks and saves that fail

VARIABLES
  turn,    \* the file: a governed turn, or cut short
  pc,      \* where each hook is
  mem,     \* what each hook will save
  target,  \* the root each tool call changes
  left,    \* the roots the Stop hook has yet to verify
  unsafe,  \* the roots that would not pass verification
  faults,
  disturbed  \* history: did two hooks or tools overlap, or was a hook
             \* killed inside WriteFile?

vars == <<turn, pc, mem, target, left, unsafe, faults, disturbed>>

Recall == "recall"   \* the SessionStart or UserPromptSubmit hook
Stop == "stop"       \* the Stop hook
Hooks == Tools \cup {Recall, Stop}
ToolsAssumption == Recall \notin Tools /\ Stop \notin Tools

NoRoot == "none"
Turn == [recalled : BOOLEAN, roots : SUBSET Roots]
Fresh == [recalled |-> FALSE, roots |-> {}]
Truncated == [recalled |-> FALSE, roots |-> {}, cut |-> TRUE]

(* A missing or truncated file is an empty turn. *)
loadGovernedTurn == IF turn = Truncated THEN Fresh ELSE turn

Init ==
  /\ turn = Fresh
  /\ pc = [h \in Hooks |-> "idle"]
  /\ mem = [h \in Hooks |-> Fresh]
  /\ target = [t \in Tools |-> NoRoot]
  /\ left = {}
  /\ unsafe = {}
  /\ faults = 0
  /\ disturbed = FALSE

(* A hook starts, whatever the others are doing. *)
Start(h) ==
  /\ pc[h] = "idle"
  /\ disturbed' = (disturbed \/ \E g \in Hooks : pc[g] # "idle")
Goto(h, l) == pc' = [pc EXCEPT ![h] = l]
Hold(h, t) == mem' = [mem EXCEPT ![h] = t]
(* The hook ends and lets go of its copy. *)
End(h) ==
  /\ Goto(h, "idle") /\ Hold(h, Fresh)
  /\ target' = [t \in Tools |-> IF t = h THEN NoRoot ELSE target[t]]

markGovernedRecallFresh ==
  /\ Start(Recall)
  /\ Hold(Recall, [Fresh EXCEPT !.recalled = TRUE])
  /\ Goto(Recall, "open")
  /\ UNCHANGED <<turn, target, left, unsafe, faults>>
(* markGovernedRecall *)
markGovernedRecall ==
  /\ Start(Recall)
  /\ Hold(Recall, [loadGovernedTurn EXCEPT !.recalled = TRUE])
  /\ Goto(Recall, "open")
  /\ UNCHANGED <<turn, target, left, unsafe, faults>>

(* The roots a call is answerable for: its own, unless it is the home. *)
mutationRoots(r) == {r} \ HomeRoots

(* markGovernedMutation: the roots recorded before are kept. *)
markGovernedMutation(t) ==
  \E r \in Roots :
    /\ Start(t)
    /\ target' = [target EXCEPT ![t] = r]
    /\ Hold(t, [loadGovernedTurn EXCEPT !.roots = @ \cup mutationRoots(r)])
    /\ Goto(t, "open")
    /\ UNCHANGED <<turn, left, unsafe, faults>>

(* saveGovernedTurn *)
OpenFile(h) ==
  /\ pc[h] = "open"
  /\ turn' = Truncated
  /\ Goto(h, "write")
  /\ UNCHANGED <<mem, target, left, unsafe, faults, disturbed>>

WriteFile(h) ==
  /\ pc[h] = "write"
  /\ turn' = mem[h]
  /\ IF h \in Tools
     THEN Goto(h, "run") /\ Hold(h, Fresh) /\ UNCHANGED target  \* the tool runs next
     ELSE End(h)                                                \* the turn is closed
  /\ UNCHANGED <<left, unsafe, faults, disturbed>>

(* The file cannot be opened: the call is refused, the turn stays open. *)
SaveFails(h) ==
  /\ pc[h] = "open"
  /\ faults < MaxFaults
  /\ faults' = faults + 1
  /\ End(h)
  /\ UNCHANGED <<turn, left, unsafe, disturbed>>

(* The tool changes its root, for better or worse. *)
ToolRun(t) ==
  /\ pc[t] = "run"
  /\ \/ unsafe' = unsafe \cup {target[t]}
     \/ unsafe' = unsafe \ {target[t]}
  /\ End(t)
  /\ UNCHANGED <<turn, left, faults, disturbed>>

(* closeGovernedTurn: nothing recorded, nothing to do; otherwise verify. *)
StopLoad ==
  /\ Start(Stop)
  /\ loadGovernedTurn.roots # {}
  /\ left' = loadGovernedTurn.roots \ HomeRoots
  /\ Hold(Stop, loadGovernedTurn)
  /\ Goto(Stop, "verify")
  /\ UNCHANGED <<turn, target, unsafe, faults>>

(* One root: a failure blocks the stop and the turn remains open. *)
StopVerify(r) ==
  /\ pc[Stop] = "verify"
  /\ r \in left
  /\ IF r \in unsafe
     THEN End(Stop) /\ left' = {}
     ELSE left' = left \ {r} /\ UNCHANGED <<pc, mem, target>>
  /\ UNCHANGED <<turn, unsafe, faults, disturbed>>

(* All passed: clear the roots and save. *)
StopClear ==
  /\ pc[Stop] = "verify"
  /\ left = {}
  /\ Hold(Stop, [mem[Stop] EXCEPT !.roots = {}])
  /\ Goto(Stop, "open")
  /\ UNCHANGED <<turn, target, left, unsafe, faults, disturbed>>

(* A hook is killed, by its deadline or with the harness. *)
Crash(h) ==
  /\ pc[h] \in {"open", "write", "verify"}
  /\ faults < MaxFaults
  /\ faults' = faults + 1
  /\ End(h)
  /\ left' = IF h = Stop THEN {} ELSE left
  /\ disturbed' = (disturbed \/ pc[h] = "write")
  /\ UNCHANGED <<turn, unsafe>>

Next ==
  \/ markGovernedRecall
  \/ \E t \in Tools : markGovernedMutation(t) \/ ToolRun(t)
  \/ \E h \in Hooks : OpenFile(h) \/ WriteFile(h) \/ SaveFails(h) \/ Crash(h)
  \/ StopLoad
  \/ \E r \in Roots : StopVerify(r)
  \/ StopClear

Spec == Init /\ [][Next]_vars

-----------------------------------------------------------------------------

(* No obligation is dropped: while hooks take turns and none is killed in  *)
(* the middle of a save, every governed root that would fail verification  *)
(* is recorded, and the next stop will look at it, whichever saves fail    *)
(* and whichever roots a stop already found safe (cmd_governed_turn.go).   *)
UnsafeIsOwed ==
  (\A h \in Hooks : pc[h] = "idle") /\ ~disturbed =>
    unsafe \ HomeRoots \subseteq loadGovernedTurn.roots

=============================================================================
