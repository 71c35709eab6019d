------------------------------ MODULE HookGate ------------------------------
(***************************************************************************)
(* The PreToolUse hook (cmd_hook.go, gatecheck.go) and the commands that   *)
(* change what it enforces while it runs (cmd_gate.go, cmd_mode.go).  A    *)
(* hook opens the store of the project its first target lies in; every     *)
(* check reads the store again, and a target in another project is judged  *)
(* by that project's store.  The order: store, self-authorisation,         *)
(* dispatcher-mode with its override, then the hard floor over every       *)
(* target and every word of a command.                                     *)
(*                                                                         *)
(* A path is <<project, name>>; a name alone is relative.  A rule is a     *)
(* path that is off limits; those of the user's own store are in "user"    *)
(* and apply everywhere.  The lease, the reconciliation and the turn are   *)
(* modelled in WorkflowRun, Reconciliation and GovernedTurn: here they may *)
(* refuse a call (Refused).  A grant is one use (OverrideGrant has more).  *)
(***************************************************************************)
EXTENDS Naturals, FiniteSets

CONSTANTS
  Hooks, Calls,  \* [tool, file, patch, operands, words, workdir, worker, claims]
  Projects, Home, Names,
  MaxChanges,    \* bound: commands that change rules, modes or grants
  MaxCalls       \* bound: tool calls

VARIABLES
  rules,       \* the gate rules of all stores
  mode,        \* dispatcher-mode of each project: "off", "soft", "hard"
  authority,   \* the projects where override authority is delegated
  grants,      \* the projects with an unused override of dispatcher-mode
  pc, hook,    \* per hook: where it is, and [call, left]
  stood,       \* per hook: the rules in force ever since it began
  changes, calls

stores == <<rules, mode, authority, grants>>
vars == <<stores, pc, hook, stood, changes, calls>>

None == "none"   \* no workdir; no file is <<>>
NoCall == [tool |-> None, file |-> <<>>, patch |-> {}, operands |-> {}, words |-> {},
           workdir |-> None, worker |-> FALSE, claims |-> FALSE]
NoWork == [call |-> NoCall, left |-> {}]

Init ==
  /\ rules = {} /\ mode = [r \in Projects |-> "off"] /\ authority = {} /\ grants = {}
  /\ pc = [h \in Hooks |-> "idle"] /\ hook = [h \in Hooks |-> NoWork]
  /\ stood = [h \in Hooks |-> {}]
  /\ changes = 0 /\ calls = 0

(* resolveHookPath: relative to the call's workdir, else to Home. *)
resolveHookPath(call, n) == <<IF call.workdir = None THEN Home ELSE call.workdir, n>>
(* What the hook takes the call's targets to be: the operands of commands  *)
(* it knows, the files of a patch, the directory a command runs in.        *)
hookTargetPaths(call) ==
  (IF call.file = <<>> THEN {} ELSE {call.file})
  \cup CASE call.tool = "apply_patch" -> {resolveHookPath(call, n) : n \in call.patch}
         [] call.tool = "exec_command" ->
              {resolveHookPath(call, n) : n \in call.operands}
              \cup (IF call.workdir = None THEN {} ELSE {<<call.workdir, "_">>})
         [] OTHER -> {}
isMutatingHookTool(call) == call.tool \in {"Edit", "apply_patch", "exec_command"}

(* targetStoreRoot of the file, or of the first target, or where it runs. *)
storeRoot(call) ==
  IF call.file # <<>> THEN call.file[1]
  ELSE IF hookTargetPaths(call) = {} THEN Home
  ELSE (CHOOSE p \in hookTargetPaths(call) : TRUE)[1]

(* gateDeniedPath: by the rules of the project the path lies in, or the user's. *)
gateDeniedPath(p) == p \in rules \/ <<"user", p[2]>> \in rules
(* bashHitsGate: any word of the command, by its own or its base name. *)
bashHitsGate(call) ==
  \E n \in call.operands \cup call.words : gateDeniedPath(<<storeRoot(call), n>>)

Goto(h, l) == pc' = [pc EXCEPT ![h] = l]
Work(h, field) == hook' = [hook EXCEPT ![h] = field]
End(h) == Goto(h, "idle") /\ Work(h, NoWork) /\ stood' = [stood EXCEPT ![h] = {}]

Begin(h, call) ==
  /\ pc[h] = "idle" /\ calls < MaxCalls
  /\ calls' = calls + 1
  /\ Goto(h, "open")
  /\ Work(h, [NoWork EXCEPT !.call = call])
  /\ stood' = [stood EXCEPT ![h] = rules]
  /\ UNCHANGED <<stores, changes>>

OpenStore(h) ==
  /\ pc[h] = "open"
  /\ Goto(h, "authorize")
  /\ UNCHANGED <<stores, hook, stood, changes, calls>>

(* A store that cannot be opened, an unfinished review, a lease that does  *)
(* not cover the call, a turn that cannot be saved: exit code 2.           *)
Refused(h) ==
  /\ pc[h] \in {"open", "authorize", "targets"}
  /\ End(h)
  /\ UNCHANGED <<stores, changes, calls>>

(* A command that grants itself authority is refused. *)
bashAttemptsSelfAuthorize(h) ==
  /\ pc[h] = "authorize"
  /\ IF hook[h].call.claims /\ storeRoot(hook[h].call) \notin authority
     THEN End(h) ELSE Goto(h, "dispatcher") /\ UNCHANGED <<hook, stood>>
  /\ UNCHANGED <<stores, changes, calls>>

Trunk(call) == isMutatingHookTool(call) /\ ~call.worker
DispatcherModeOn(h) ==
  /\ pc[h] = "dispatcher"
  /\ Goto(h, IF Trunk(hook[h].call) /\ mode[storeRoot(hook[h].call)] # "off" THEN "soft" ELSE "floor")
  /\ UNCHANGED <<stores, hook, stood, changes, calls>>
ConsumeOverridePasses(h) ==
  LET root == storeRoot(hook[h].call) IN
  /\ pc[h] = "soft"
  /\ IF mode[root] # "hard" /\ root \in grants
     THEN /\ grants' = grants \ {root}
          /\ Goto(h, "targets") /\ UNCHANGED <<hook, stood>>
     ELSE End(h) /\ UNCHANGED grants
  /\ UNCHANGED <<rules, mode, authority, changes, calls>>
(* dispatcher-mode: the trunk does not change files, a worker does; a soft *)
(* mode takes an override, which goes on to the hard floor.                *)
ConsumeOverride(h) ==
  LET root == storeRoot(hook[h].call) IN
  /\ pc[h] = "soft"
  /\ IF mode[root] # "hard" /\ root \in grants
     THEN /\ grants' = grants \ {root}
          /\ Goto(h, "floor") /\ UNCHANGED <<hook, stood>>
     ELSE End(h) /\ UNCHANGED grants
  /\ UNCHANGED <<rules, mode, authority, changes, calls>>

(* The hard floor: one target after the other, then the command's words. *)
Floor(h) ==
  /\ pc[h] = "floor"
  /\ Goto(h, "targets")
  /\ Work(h, [hook[h] EXCEPT !.left = hookTargetPaths(hook[h].call)])
  /\ UNCHANGED <<stores, stood, changes, calls>>
FloorTarget(h, p) ==
  /\ pc[h] = "targets" /\ p \in hook[h].left
  /\ IF gateDeniedPath(p) THEN End(h)
     ELSE Work(h, [hook[h] EXCEPT !.left = @ \ {p}]) /\ UNCHANGED <<pc, stood>>
  /\ UNCHANGED <<stores, changes, calls>>

(* Focus and turn are recorded; the call is allowed. *)
Allow(h) ==
  /\ pc[h] = "targets" /\ hook[h].left = {}
  /\ IF bashHitsGate(hook[h].call)
     THEN End(h)
     ELSE Goto(h, "allowed") /\ UNCHANGED <<hook, stood>>
  /\ UNCHANGED <<stores, changes, calls>>
ToolRuns(h) ==
  /\ pc[h] = "allowed"
  /\ End(h)
  /\ UNCHANGED <<stores, changes, calls>>

(* Meanwhile people change the rules. *)
Change == changes < MaxChanges /\ changes' = changes + 1
gateAdd(root, n) ==
  /\ Change /\ <<root, n>> \notin rules
  /\ rules' = rules \cup {<<root, n>>}
  /\ UNCHANGED <<mode, authority, grants, pc, hook, stood, calls>>
gateRm(root, n) ==
  /\ Change /\ <<root, n>> \in rules
  /\ rules' = rules \ {<<root, n>>}
  /\ stood' = [h \in Hooks |-> stood[h] \ {<<root, n>>}]
  /\ UNCHANGED <<mode, authority, grants, pc, hook, calls>>
(* mode dispatcher on|off, or a record that makes the rule hard. *)
modeCmd(root, m) ==
  /\ Change /\ mode[root] # m
  /\ mode' = [mode EXCEPT ![root] = m]
  /\ UNCHANGED <<rules, authority, grants, pc, hook, stood, calls>>
(* override dispatcher-mode, or the delegation of the authority to do it. *)
override(root) ==
  /\ Change
  /\ \/ root \notin grants /\ grants' = grants \cup {root} /\ UNCHANGED authority
     \/ root \notin authority /\ authority' = authority \cup {root} /\ UNCHANGED grants
  /\ UNCHANGED <<rules, mode, pc, hook, stood, calls>>

Next ==
  \/ \E h \in Hooks :
       \/ \E call \in Calls : Begin(h, call)
       \/ OpenStore(h) \/ Refused(h) \/ bashAttemptsSelfAuthorize(h)
       \/ DispatcherModeOn(h) \/ ConsumeOverride(h)
       \/ Floor(h) \/ Allow(h) \/ ToolRuns(h)
       \/ \E p \in Projects \X (Names \cup {"_"}) : FloorTarget(h, p)
  \/ \E root \in Projects \cup {"user"}, n \in Names : gateAdd(root, n) \/ gateRm(root, n)
  \/ \E root \in Projects : override(root) \/ \E m \in {"off", "soft", "hard"} : modeCmd(root, m)
Spec == Init /\ [][Next]_vars
-----------------------------------------------------------------------------
(* cmd_hook.go:398-400, 425-429: "an override past dispatcher-mode never   *)
(* bypasses the gate", the wall is not overridable.  An allowed call has   *)
(* no target that was off limits in its own project, or by the user, all   *)
(* the time since the hook began, and its command no word off limits in    *)
(* the project it is judged by, whoever adds and removes rules meanwhile.  *)
WallHolds ==
  \A h \in Hooks : pc[h] = "allowed" =>
    LET call == hook[h].call IN
    /\ \A p \in hookTargetPaths(call) : p \notin stood[h] /\ <<"user", p[2]>> \notin stood[h]
    /\ \A n \in call.operands \cup call.words : \A root \in {storeRoot(call), "user"} :
         <<root, n>> \notin stood[h]

=============================================================================
