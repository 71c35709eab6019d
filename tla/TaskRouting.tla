---------------------------- MODULE TaskRouting ----------------------------
(***************************************************************************)
(* One task from its request to its recorded outcome: the commands that    *)
(* change the routing settings (cmd_route.go, cmd_provider.go), the        *)
(* decision, the environment the agent is launched with by `dispatch` and  *)
(* by `run` (dispatch_run.go, cmd_run.go, agents.go), and the verdict on   *)
(* whether the step changed the repository (dispatch_run.go).              *)
(*                                                                         *)
(* Settings change before the decision only: nothing after it reads them.  *)
(***************************************************************************)
EXTENDS RouteDecide

CONSTANTS
    Tasks, Triages,    \* requests, and what the triage model may answer
    Overrides,         \* per-run options [provider, model, effort, native]
    File,              \* routing.json: a sequence of provider entries
    Catalogs,          \* what a refresh may have left
    Weights,           \* [classes -> [quality, cost]]
    Seeded,            \* the settings of a seeded store
    Pins,              \* tier names offered to pin and floor
    Policies,          \* <<scope, class, field, value>> offered to `policy set`
    Envs,              \* environments of the caller: [cmd, agent, model]
    Files,             \* files of the repository
    MaxCommands        \* bound on setting commands

ASSUME EnvsAssumption == \A e \in Envs : e = [cmd |-> e.cmd, agent |-> e.agent, model |-> e.model]
ASSUME OverridesAssumption == \A o \in Overrides : DOMAIN o = {"provider", "model", "effort", "native"}
ASSUME FileAssumption ==
    /\ Len(File) \in Nat /\ DOMAIN File = 1..Len(File)
    /\ \A i \in DOMAIN File : DOMAIN File[i] = DOMAIN NoProvider /\ File[i].weight \in Int
ASSUME WeightsAssumption ==
    \A c \in DOMAIN classRank : Weights[c].quality \in Int /\ Weights[c].cost \in Int
(* Names are ordered, and none is empty; keys are distinct in a catalog. *)
ASSUME CatalogsAssumption ==
    /\ \A n \in DOMAIN Alphabet : n # Unset /\ Alphabet[n] \in Int
    /\ \A m, n \in DOMAIN Alphabet : Alphabet[m] = Alphabet[n] => m = n
    /\ \A c \in Catalogs :
         /\ IsFiniteSet(c)
         /\ \A p \in c : /\ {p.provider, p.model, p.native} \subseteq DOMAIN Alphabet
                          /\ p.quality \in Int /\ p.cost \in Int
         /\ \A p, q \in c : Key(p) = Key(q) => p = q
ASSUME SettingsAssumption ==
    /\ DOMAIN Seeded = {"pin", "floor", "keywords", "tierCmd", "policy", "off"}
    /\ Unset \notin Seeded.off
    /\ CmdProvider[Unset] = Unset

VARIABLES
    settings, catalog, commands,
    via,       \* "none", "dispatch" or "run"
    task, env, \* the request, and the caller's environment
    dec,       \* the decision
    phase,     \* "asked", "decided", "running", "exited", "recorded"
    launched,  \* provider and model of the agent process
    head,      \* has a commit been made?
    dirty,     \* files that `git status` lists
    touched,   \* files whose content the step changed
    engine,    \* does `git status` list the engine's own run file?
    before,    \* fingerprint taken before the step
    outcome    \* [state, mutated]

route == <<settings, catalog, commands>>
request == <<via, task, env, dec>>
repo == <<head, dirty, touched, engine>>
vars == <<route, request, phase, launched, repo, before, outcome>>

Table == LoadConfig(File)
Unread == <<-1, {}>>
Pending == [state |-> "pending", mutated |-> Unset]
NoAgent == [provider |-> Unset, model |-> Unset]

Init ==
    /\ settings = Seeded /\ commands = 0
    /\ catalog \in Catalogs
    /\ via = "none" /\ task \in Tasks /\ env \in Envs
    /\ dec = Operation("none") /\ phase = "asked" /\ launched = NoAgent
    /\ head = 0 /\ dirty \in SUBSET Files /\ touched = {} /\ engine = FALSE
    /\ before = Unread /\ outcome = Pending
-----------------------------------------------------------------------------
(* Setting commands. *)
Command ==
    /\ phase = "asked" /\ commands < MaxCommands
    /\ commands' = commands + 1
    /\ UNCHANGED <<catalog, request, phase, launched, repo, before, outcome>>

runProviderCmd(p, enable) ==
    /\ Command
    /\ settings' = [settings EXCEPT !.off = IF enable THEN @ \ {p} ELSE @ \cup {p}]

\* `route pin' and `route floor': any known tier name; "" clears.
routeSetTier(tier) ==
    /\ Command
    /\ \/ settings' = [settings EXCEPT !.pin = tier]
       \/ settings' = [settings EXCEPT !.floor = tier]

\* An empty value deletes the field of that scope.
routePolicySet(scope, class, field, value) ==
    /\ Command
    /\ settings' = [settings EXCEPT !.policy =
           {x \in @ : <<x[1], x[2], x[3]>> # <<scope, class, field>>}
             \cup IF value = Unset THEN {} ELSE {<<scope, class, field, value>>}]

\* "all" leaves the efforts and the permission to cross providers.
routePolicyClear(scope, class, fields) ==
    /\ Command
    /\ settings' = [settings EXCEPT !.policy =
           {x \in @ : ~(x[1] = scope /\ x[2] = class /\ x[3] \in fields)}]
ClearedByAll == {"provider", "profile", "model", "cmd"}
-----------------------------------------------------------------------------
(* The decision. *)
Decision(triage) ==
    DecideWithStore(settings, task, Table, catalog,
                    Weights[RouteDecide(settings, task, triage).class], triage)

runDispatchCmd ==
    /\ phase = "asked"
    /\ \E triage \in Triages : dec' = Decision(triage)
    /\ via' = "dispatch" /\ phase' = "decided"
    /\ UNCHANGED <<route, task, env, launched, repo, before, outcome>>

\* A disabled provider is refused when the user names it.
runRunCmd(o) ==
    /\ phase = "asked"
    /\ \E triage \in Triages : \E d \in {Decision(triage)} :
             /\ d.kind = "agent" => o.provider = Unset \/ Enabled(settings, o.provider)
             /\ dec' = IF d.kind = "agent" THEN applyOverrides(o, d, catalog, Weights[d.class]) ELSE d
    /\ via' = "run" /\ phase' = "decided"
    /\ UNCHANGED <<route, task, env, launched, repo, before, outcome>>

(* The environment of the agent, built over the caller's. *)
dispatchEnvKeepsCmd(d, e) ==
    [cmd |-> Choose(d.cmd, e.cmd), agent |-> Choose(d.provider, e.agent), model |-> Choose(d.model, e.model)]
dispatchEnv(d, e) ==
    IF d.cmd # Unset THEN [e EXCEPT !.cmd = d.cmd]
    ELSE [cmd |-> Unset, agent |-> Choose(d.provider, e.agent), model |-> Choose(d.model, e.model)]
runEnv(d, e) ==
    IF d.cmd # Unset THEN [cmd |-> d.cmd, agent |-> Unset, model |-> Unset]
    ELSE [cmd |-> Unset, agent |-> Choose(d.provider, e.agent),
          model |-> Choose(Choose(d.model, d.profile), e.model)]

(* An explicit command wins, then the named agent, then claude. *)
resolveAgentArgv(e) ==
    IF e.cmd # Unset THEN [provider |-> CmdProvider[e.cmd], model |-> Unset]
    ELSE [provider |-> Choose(e.agent, "claude"), model |-> e.model]
-----------------------------------------------------------------------------
(* The step. *)
RunFile == ".projx/runs"
Status == dirty \cup IF engine THEN {RunFile} ELSE {}
dropEngineStateLinesNot(status) == status
dropEngineStateLines(status) == status \ {RunFile}
\* HEAD and the porcelain status; the content of a listed file is in neither.
gitFingerprint == <<head, dropEngineStateLines(Status)>>

\* The fingerprint is taken, the child started, and the manifest written again:
\* the run file is listed where the project does not ignore it.
runDispatchChild ==
    /\ phase = "decided"
    /\ before' \in {gitFingerprint, Unread}
    /\ launched' = IF dec.kind = "deterministic" THEN NoAgent
                   ELSE resolveAgentArgv(IF via = "dispatch" THEN dispatchEnv(dec, env) ELSE runEnv(dec, env))
    /\ engine' \in BOOLEAN
    /\ phase' = "running"
    /\ UNCHANGED <<route, request, head, dirty, touched, outcome>>

\* The agent edits a file, which `git status' then lists, or commits.
AgentEdits(f) ==
    /\ phase = "running" /\ dec.kind = "agent"
    /\ touched' = touched \cup {f} /\ dirty' = dirty \cup {f}
    /\ UNCHANGED <<route, request, phase, launched, head, engine, before, outcome>>
AgentCommits ==
    /\ phase = "running" /\ dec.kind = "agent" /\ dirty # {} /\ head = 0
    /\ head' = 1 /\ dirty' = {}
    /\ UNCHANGED <<route, request, phase, launched, touched, engine, before, outcome>>

ChildExits(ok) ==
    /\ phase = "running"
    /\ phase' = "exited"
    /\ outcome' = [outcome EXCEPT !.state = IF ok THEN "done" ELSE "failed"]
    /\ UNCHANGED <<route, request, launched, repo, before>>

mutationBetween(b, a) ==
    IF b = Unread \/ a = Unread THEN "unknown" ELSE IF b = a THEN "no" ELSE "yes"
RecordStep ==
    /\ phase = "exited"
    /\ \E after \in {gitFingerprint, Unread} :
         outcome' = [outcome EXCEPT !.mutated = mutationBetween(before, after)]
    /\ phase' = "recorded"
    /\ UNCHANGED <<route, request, launched, repo, before>>

stepOutcomeLabel ==
    IF outcome.state # "done" \/ outcome.mutated # "no" THEN outcome.state
    ELSE IF dec.kind = "agent" THEN "done (NO CHANGES)" ELSE "done (no changes)"

Next ==
    \/ \E p \in DOMAIN Alphabet : \E on \in BOOLEAN : p \in {q.provider : q \in Profiles} /\ runProviderCmd(p, on)
    \/ \E tier \in Pins \cup {Unset} : routeSetTier(tier)
    \/ \E x \in Policies : routePolicySet(x[1], x[2], x[3], x[4]) \/ routePolicyClear(x[1], x[2], ClearedByAll)
                             \/ routePolicyClear(x[1], x[2], {x[3]})
    \/ runDispatchCmd
    \/ \E o \in Overrides : runRunCmd(o)
    \/ runDispatchChild
    \/ \E f \in Files : AgentEdits(f)
    \/ AgentCommits
    \/ \E ok \in BOOLEAN : ChildExits(ok)
    \/ RecordStep

Spec == Init /\ [][Next]_vars
-----------------------------------------------------------------------------
(* Properties. *)
Decided == phase # "asked" /\ dec.kind = "agent"
Asked(field) ==
    Choose(storeRouteSetting(settings, field, dec.class), resolveProvider(settings, dec.class, Table)[field])

\* projx-store/routing.go:239-266: whatever keywords and triage say, a task is
\* never given less than the standing floor, nor less than deep reasoning when
\* it is risky, unless its author or a pin said so.
FloorHolds ==
    Decided /\ taskTierOverride(task) = Unset /\ ~validTier(settings.pin) =>
        /\ validTier(settings.floor) => rankOf(dec.class) >= rankOf(settings.floor)
        /\ IsRiskyTask(settings, task) => rankOf(dec.class) >= rankOf("deep-reasoning")

\* routing.go:504-506: after any sequence of setting commands, at any scope, what
\* is dispatched names no provider that is globally disabled, neither as the
\* provider nor through a legacy command.
GateHolds ==
    Decided /\ via = "dispatch" =>
        Enabled(settings, dec.provider) /\ Enabled(settings, CmdProvider[dec.cmd])

\* dispatch_run.go:398-441, cmd_run.go:190-228: the agent that starts is the one
\* that was decided, whatever the caller's own environment says, be it that of
\* another worker.
DecisionIsLaunched ==
    phase \in {"running", "exited", "recorded"} /\ dec.kind = "agent" =>
        IF dec.cmd # Unset THEN launched.provider = CmdProvider[dec.cmd]
        ELSE Meets(dec.provider, launched.provider) /\ Meets(dec.model, launched.model)

\* dispatch_run.go:538-551: a step that git could be asked about gets a bare
\* "done" only when it changed something: the engine's own writes during the
\* step do not count.
PlainDoneIsHonest ==
    phase = "recorded" /\ outcome.mutated # "unknown" /\ stepOutcomeLabel = "done" =>
        touched # {} \/ head = 1

=============================================================================
