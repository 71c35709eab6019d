----------------------------- MODULE AgentLaunch -----------------------------
(***************************************************************************)
(* Launching worker agents in one project (`agent run', cmd_agent.go;      *)
(* internal/jail, internal/broker, cmd_exec.go; agents.go for the launch   *)
(* without a jail).  Steps that a plan runs in parallel are launched in    *)
(* the same root, and all launches share two places there: the file        *)
(* .projx/agent-context.md, rewritten by each, and the directory           *)
(* .projx/jail of command shims, removed and rebuilt by each.  A shim is   *)
(* the engine under another name: it checks the command against the allow  *)
(* list in its own environment before it runs the real one.                *)
(*                                                                         *)
(* A context is known by the worker it was compiled for.  The engine file  *)
(* is executing, so a shim copied over a link to it is refused (Linux).    *)
(***************************************************************************)
EXTENDS Naturals, FiniteSets

CONSTANTS
  Workers,      \* worker launches
  Bins,         \* commands an agent may try
  Declared,     \* what setting/worker-allow, cage.json and --allow may add up to
  Languages,    \* the tools a detected language may add
  MaxFaults     \* bound: failing file operations, kills

VARIABLES
  ctx,          \* agent-context.md: "none", "cut" or whose
  jail, made,   \* the shims in the jail directory, and whether it is there
  pc, work,       \* per worker: where it is, and [allow, file, todo, cur, confined]
  told,         \* the context each started agent read
  ran,          \* history: the command each agent got to run last
  faults, overlapped

vars == <<ctx, jail, made, pc, work, told, ran, faults, overlapped>>

Engine == "projx-engine"
NoWork == [allow |-> {}, file |-> FALSE, todo |-> {}, cur |-> "none", confined |-> FALSE]
UnderWay(w) == pc[w] \notin {"idle", "ended"}

Init ==
  /\ ctx = "none" /\ jail = {} /\ made = FALSE
  /\ pc = [w \in Workers |-> "idle"] /\ work = [w \in Workers |-> NoWork]
  /\ told = [w \in Workers |-> "none"] /\ ran = [w \in Workers |-> {}]
  /\ faults = 0 /\ overlapped = FALSE

Goto(w, l) == pc' = [pc EXCEPT ![w] = l]
End(w) == Goto(w, "ended") /\ work' = [work EXCEPT ![w] = NoWork]
disk == <<ctx, jail, made>>
seen == <<told, ran>>
Forget(w) == told' = [told EXCEPT ![w] = "none"] /\ ran' = [ran EXCEPT ![w] = {}]

(* The allow list: the default, the declared floor, the flags and what the *)
(* detected languages add.                                                 *)
effectiveAllowBins(declared, langTools) == {"git", Engine} \cup declared \cup langTools

(* runAgentCmd: permissions and context are read from the store. *)
Begin(w) ==
  \E declared \in Declared, langTools \in Languages, cage \in BOOLEAN :
    /\ pc[w] = "idle"
    /\ work' = [work EXCEPT ![w].allow = effectiveAllowBins(declared, langTools), ![w].confined = cage]
    /\ overlapped' = (overlapped \/ \E v \in Workers : UnderWay(v))
    /\ Goto(w, "openctx")
    /\ UNCHANGED <<disk, seen, faults>>

(* writeAgentContextText: WriteFile truncates first. *)
OpenContext(w) ==
  /\ pc[w] = "openctx"
  /\ ctx' = "cut"
  /\ Goto(w, "writectx")
  /\ UNCHANGED <<jail, made, work, seen, faults, overlapped>>
(* No agent command on PATH: the launch ends here. *)
WriteContext(w) ==
  /\ pc[w] = "writectx"
  /\ ctx' = w
  /\ \/ End(w)
     \/ Goto(w, "remove") /\ work' = [work EXCEPT ![w].file = TRUE]
  /\ UNCHANGED <<jail, made, seen, faults, overlapped>>
(* A warning: the context still travels in the environment. *)
ContextFails(w) ==
  /\ pc[w] = "openctx" /\ faults < MaxFaults
  /\ faults' = faults + 1
  /\ Goto(w, "remove")
  /\ UNCHANGED <<disk, work, seen, overlapped>>

RemoveJail(w) ==
  /\ pc[w] = "remove"
  /\ jail' = {} /\ made' = FALSE
  /\ Goto(w, "mkdir")
  /\ UNCHANGED <<ctx, work, seen, faults, overlapped>>
MakeJailWithoutEngine(w) ==
  /\ pc[w] = "mkdir"
  /\ made' = TRUE
  /\ work' = [work EXCEPT ![w].todo = work[w].allow \ {Engine}]
  /\ Goto(w, "build")
  /\ UNCHANGED <<ctx, jail, seen, faults, overlapped>>
MakeJail(w) ==
  /\ pc[w] = "mkdir"
  /\ made' = TRUE
  /\ work' = [work EXCEPT ![w].todo = work[w].allow]
  /\ Goto(w, "build")
  /\ UNCHANGED <<ctx, jail, seen, faults, overlapped>>

(* jail.Build, linkOrCopy: a shim that is there is left alone. *)
Lstat(w) ==
  LET b == CHOOSE x \in work[w].todo : TRUE IN   \* in the order of the list
  /\ pc[w] = "build" /\ work[w].todo # {}
  /\ work' = [work EXCEPT ![w].todo = @ \ {b}, ![w].cur = b]
  /\ IF b \in jail THEN UNCHANGED pc ELSE Goto(w, "link")
  /\ UNCHANGED <<disk, seen, faults, overlapped>>
(* Beside another build the name may have appeared, or the directory gone: *)
(* link and copy fail, and with them the launch.                           *)
Link(w) ==
  /\ pc[w] = "link"
  /\ IF made /\ work[w].cur \notin jail
     THEN jail' = jail \cup {work[w].cur} /\ Goto(w, "build") /\ UNCHANGED work
     ELSE End(w) /\ UNCHANGED jail
  /\ UNCHANGED <<ctx, made, seen, faults, overlapped>>

(* The agent starts with the file's path and its own environment.  Under a *)
(* cage the launch may fail, and then it is not started without one.       *)
Launch(w) ==
  /\ pc[w] = "build" /\ work[w].todo = {}
  /\ \/ /\ told' = [told EXCEPT ![w] = IF work[w].file THEN ctx ELSE w]
        /\ Goto(w, "runs") /\ UNCHANGED work
     \/ work[w].confined /\ End(w) /\ UNCHANGED told
  /\ UNCHANGED <<disk, ran, faults, overlapped>>

(* RestrictiveBroker.checkExec *)
checkExec(w, b) == b \in work[w].allow
(* The agent's PATH is the jail: a name without a shim is not found; the   *)
(* engine's own name is its command line; any other is brokered.  On the   *)
(* real PATH it may be missing (127), or it runs.                          *)
runBrokeredExec(w, b) ==
  /\ pc[w] = "runs" /\ b \in jail
  /\ b = Engine \/ checkExec(w, b)   \* else 126
  /\ ran' = [ran EXCEPT ![w] = {b}]
  /\ UNCHANGED <<disk, pc, work, told, faults, overlapped>>

AgentExits(w) ==
  /\ pc[w] = "runs"
  /\ End(w) /\ Forget(w)
  /\ UNCHANGED <<disk, faults, overlapped>>
Killed(w) ==
  /\ UnderWay(w) /\ faults < MaxFaults
  /\ faults' = faults + 1
  /\ End(w) /\ Forget(w)
  /\ UNCHANGED <<disk, overlapped>>

Next ==
  \E w \in Workers :
    \/ Begin(w) \/ OpenContext(w) \/ WriteContext(w) \/ ContextFails(w)
    \/ RemoveJail(w) \/ MakeJail(w) \/ Lstat(w) \/ Link(w) \/ Launch(w) \/ AgentExits(w) \/ Killed(w)
    \/ \E b \in Bins : runBrokeredExec(w, b)
Spec == Init /\ [][Next]_vars
-----------------------------------------------------------------------------
(* cmd_exec.go:63-72: whichever launch rebuilt the jail an agent finds its *)
(* commands in, and however much more that launch allowed, an agent runs   *)
(* only what its own launch allowed.                                       *)
BrokeredIsAllowed == \A w \in Workers : ran[w] \subseteq work[w].allow

(* cmd_agent.go:97-99, 216-218: launches that do not overlap find exactly  *)
(* their own shims, with the engine among them, whatever a killed or wider *)
(* launch left behind; and their agent reads its own context.              *)
JailIsOwn ==
  ~overlapped => \A w \in Workers : pc[w] = "runs" => jail = work[w].allow /\ told[w] = w

(* cmd_agent.go:155-157: "so the worker's injected context is scoped to    *)
(* its step's ROLE + the task-sliced knowledge above".                     *)
OwnContext == \A w \in Workers : told[w] \in {"none", w}
=============================================================================
