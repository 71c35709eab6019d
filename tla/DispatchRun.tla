----------------------------- MODULE DispatchRun -----------------------------
(***************************************************************************)
(* One background dispatch run (dispatch_run.go): the launcher that writes *)
(* the manifest and spawns a detached supervisor, the supervisor that runs *)
(* the steps one after the other and gates the result, `dispatch cancel`   *)
(* commands, and the lifecycle hooks that surface a finished run once.     *)
(*                                                                         *)
(* All of them are separate OS processes that share nothing but the        *)
(* manifest file .projx/runs/<id>.json.  Each reads it into memory, edits  *)
(* its copy, and writes the copy back through ONE fixed temporary file     *)
(* name followed by a rename, with no lock.  A step of this module is one  *)
(* such read, write or rename, or one process event.                       *)
(***************************************************************************)
EXTENDS Naturals

CONSTANTS
    N,          \* number of steps of the run
    Sup,        \* the supervisor process
    Cancels,    \* `dispatch cancel` processes
    Hooks,      \* lifecycle-hook processes that surface finished runs
    Platforms,  \* the platforms considered, of "unix" and "windows"
    MaxFaults,  \* bound: manifest writes that fail
    MaxCrashes  \* bound: processes killed at an arbitrary point

ASSUME NAssumption == N \in Nat \ {0}
ASSUME ProcAssumption ==
    /\ Sup \notin Cancels \cup Hooks
    /\ Cancels \cap Hooks = {}
ASSUME PlatformAssumption == Platforms \subseteq {"unix", "windows"}
ASSUME BoundAssumption == MaxFaults \in Nat /\ MaxCrashes \in Nat

VARIABLES
    platform,   \* the build: how a process tree is terminated
    file,       \* the manifest on disk
    tmp,        \* the temporary file <id>.json.tmp
    mem,        \* mem[p]: the copy of the manifest process p holds
    pc,         \* pc[p]: where process p is
    renaming,   \* processes that wrote tmp and have not renamed it yet
    launcher,   \* the `dispatch --run` process
    agents,     \* the steps routed to an agent (the others are deterministic)
    cur,        \* the supervisor's loop index
    agentWork,  \* the supervisor's flag: some agent step was started
    child,      \* the managed child of the current step or of the gate
    surfaced,   \* history: how often the finished run was shown to a human
    faults, crashes

vars == <<platform, file, tmp, mem, pc, renaming, launcher, agents, cur, agentWork,
          child, surfaced, faults, crashes>>

Step     == 1 .. N
Procs    == {Sup} \cup Cancels \cup Hooks
Finished == {"done", "failed"}
Terminal == Finished \cup {"cancelled"}

Manifest ==
    [state    : {"absent", "running"} \cup Terminal,
     verify   : {"none", "passed", "failed", "skipped"},
     reported : BOOLEAN,
     claimed  : BOOLEAN,        \* the supervisor's PID is recorded
     step     : [Step -> {"pending", "running", "done", "failed", "cancelled"}]]

SupPC    == {"none", "load", "step", "spawn", "wait", "gate", "verify",
             "final", "exit", "gone"}
CancelPC == {"idle", "kill", "mark", "end"}
HookPC   == {"idle", "flip", "emit"}

\* A file that does not exist.
NoManifest ==
    [state |-> "absent", verify |-> "none", reported |-> FALSE,
     claimed |-> FALSE, step |-> [i \in Step |-> "pending"]]

SupAlive == pc[Sup] \notin {"none", "gone"}

-----------------------------------------------------------------------------
(* Writing the manifest.                                                   *)

\* writeDispatchManifest up to the rename: p's copy becomes m and goes to the
\* shared temporary name.  The write may fail; every caller but the launcher
\* and cancel ignores that.
WriteTmp(p, m) ==
    /\ p \notin renaming
    /\ mem' = [mem EXCEPT ![p] = m]
    /\ \/ /\ tmp' = m
          /\ renaming' = renaming \cup {p}
          /\ UNCHANGED faults
       \/ /\ faults < MaxFaults
          /\ faults' = faults + 1
          /\ UNCHANGED <<tmp, renaming>>

\* The rename.  It publishes whatever the temporary file holds NOW, and fails
\* when another process has renamed it away.
RenameTmp(p) ==
    /\ p \in renaming
    /\ renaming' = renaming \ {p}
    /\ file' = IF tmp.state = "absent" THEN file ELSE tmp
    /\ tmp' = NoManifest
    /\ UNCHANGED <<mem, pc, launcher, platform, agents, cur, agentWork, child,
                   surfaced, faults, crashes>>

At(p, here) == pc[p] = here /\ p \notin renaming
Goto(p, there) == pc' = [pc EXCEPT ![p] = there]

-----------------------------------------------------------------------------
(* The launcher.                                                           *)

LaunchWrite ==
    /\ launcher = "init"
    /\ launcher' = "written"
    /\ file' = [NoManifest EXCEPT !.state = "running"]
    /\ UNCHANGED <<tmp, mem, pc, renaming, platform, agents, cur, agentWork,
                   child, surfaced, faults, crashes>>

\* The launcher starts the supervisor and only READS the manifest afterwards
\* (waitForDispatchClaim).
LaunchStart ==
    /\ launcher = "written"
    /\ launcher' = "started"
    /\ Goto(Sup, "load")
    /\ UNCHANGED <<file, tmp, mem, renaming, platform, agents, cur, agentWork,
                   child, surfaced, faults, crashes>>

\* The log cannot be created or the process cannot be started: the launcher
\* exits and leaves the manifest it wrote.
LaunchFail ==
    /\ launcher \in {"init", "written"}
    /\ launcher' = "failed"
    /\ UNCHANGED <<file, tmp, mem, pc, renaming, platform, agents, cur,
                   agentWork, child, surfaced, faults, crashes>>

-----------------------------------------------------------------------------
(* The supervisor, runDispatchSupervise.                                   *)

\* Load the manifest and claim it with the supervisor's PID.
SupLoad ==
    /\ At(Sup, "load")
    /\ WriteTmp(Sup, [file EXCEPT !.claimed = TRUE])
    /\ Goto(Sup, "step")
    /\ UNCHANGED <<file, launcher, platform, agents, cur, agentWork, child,
                   surfaced, crashes>>

\* The supervisor cannot be contained or cannot read the manifest: it exits
\* without touching the file.
SupLoadFails ==
    /\ At(Sup, "load")
    /\ faults < MaxFaults
    /\ faults' = faults + 1
    /\ Goto(Sup, "gone")
    /\ UNCHANGED <<file, tmp, mem, renaming, launcher, platform, agents, cur,
                   agentWork, child, surfaced, crashes>>

SupBeginStep ==
    /\ At(Sup, "step")
    /\ WriteTmp(Sup, [mem[Sup] EXCEPT !.step[cur] = "running"])
    /\ Goto(Sup, "spawn")
    /\ UNCHANGED <<file, launcher, platform, agents, cur, agentWork, child,
                   surfaced, crashes>>

\* Mutant: a child that cannot be started is waited for all the same.
SupSpawnLosesError ==
    /\ At(Sup, "spawn")
    /\ agentWork' = (agentWork \/ cur \in agents)
    /\ \/ child' = "alive" /\ WriteTmp(Sup, mem[Sup])
       \/ child' = "none" /\ UNCHANGED <<tmp, mem, renaming, faults>>
    /\ Goto(Sup, "wait")
    /\ UNCHANGED <<file, launcher, platform, agents, cur, surfaced, crashes>>

\* The child is started and the started callback records its PID (a write);
\* or it cannot be started, which is the step's error.
SupSpawn ==
    /\ At(Sup, "spawn")
    /\ agentWork' = (agentWork \/ cur \in agents)
    /\ \/ child' = "alive" /\ WriteTmp(Sup, mem[Sup])
       \/ child' = "err" /\ UNCHANGED <<tmp, mem, renaming, faults>>
    /\ Goto(Sup, "wait")
    /\ UNCHANGED <<file, launcher, platform, agents, cur, surfaced, crashes>>

\* The child ended well: the step is done, on to the next or to the gate.
SupStepDone ==
    /\ At(Sup, "wait")
    /\ child = "ok"
    /\ child' = "none"
    /\ WriteTmp(Sup, [mem[Sup] EXCEPT !.step[cur] = "done"])
    /\ IF cur < N THEN cur' = cur + 1 /\ Goto(Sup, "step")
                  ELSE UNCHANGED cur /\ Goto(Sup, "gate")
    /\ UNCHANGED <<file, launcher, platform, agents, agentWork, surfaced,
                   crashes>>

\* Mutant: a failed step does not end the loop.
SupStepFailedGoesOn ==
    /\ At(Sup, "wait")
    /\ child = "err"
    /\ child' = "none"
    /\ WriteTmp(Sup, [mem[Sup] EXCEPT !.step[cur] = "failed"])
    /\ IF cur < N THEN cur' = cur + 1 /\ Goto(Sup, "step")
                  ELSE UNCHANGED cur /\ Goto(Sup, "gate")
    /\ UNCHANGED <<file, launcher, platform, agents, agentWork, surfaced,
                   crashes>>

\* The child failed: the step is failed and no further step is begun; the
\* verdict stays unset.
SupStepFailed ==
    /\ At(Sup, "wait")
    /\ child = "err"
    /\ child' = "none"
    /\ WriteTmp(Sup, [mem[Sup] EXCEPT !.step[cur] = "failed"])
    /\ Goto(Sup, "final")
    /\ UNCHANGED <<file, launcher, platform, agents, cur, agentWork, surfaced,
                   crashes>>

\* Every step succeeded.  Agent work is verified by a child of its own.
SupGate ==
    /\ At(Sup, "gate")
    /\ IF agentWork
       THEN /\ child' \in {"alive", "err"}
            /\ UNCHANGED mem
            /\ Goto(Sup, "verify")
       ELSE /\ mem' = [mem EXCEPT ![Sup].verify = "skipped"]
            /\ UNCHANGED child
            /\ Goto(Sup, "final")
    /\ UNCHANGED <<file, tmp, renaming, launcher, platform, agents, cur,
                   agentWork, surfaced, faults, crashes>>

SupVerdict ==
    /\ At(Sup, "verify")
    /\ child \in {"ok", "err"}
    /\ mem' = [mem EXCEPT ![Sup].verify = IF child = "ok" THEN "passed" ELSE "failed"]
    /\ child' = "none"
    /\ Goto(Sup, "final")
    /\ UNCHANGED <<file, tmp, renaming, launcher, platform, agents, cur,
                   agentWork, surfaced, faults, crashes>>

\* Mutant: the result of the gate is ignored.
SupFailedStepsOnly == \E i \in Step : mem[Sup].step[i] = "failed"

\* The supervisor's local `failed`: a step or the gate failed.
SupFailed ==
    mem[Sup].verify = "failed" \/ \E i \in Step : mem[Sup].step[i] = "failed"

SupFinish ==
    /\ At(Sup, "final")
    /\ WriteTmp(Sup, [mem[Sup] EXCEPT !.state = IF SupFailed THEN "failed" ELSE "done"])
    /\ Goto(Sup, "exit")
    /\ UNCHANGED <<file, launcher, platform, agents, cur, agentWork, child,
                   surfaced, crashes>>

SupExit ==
    /\ At(Sup, "exit")
    /\ Goto(Sup, "gone")
    /\ UNCHANGED <<file, tmp, mem, renaming, launcher, platform, agents, cur,
                   agentWork, child, surfaced, faults, crashes>>

-----------------------------------------------------------------------------
(* Managed children.                                                       *)

\* A child ends by itself.  Nobody reads the result of an orphan.
ChildExit ==
    /\ child = "alive"
    /\ child' \in IF SupAlive THEN {"ok", "err"} ELSE {"none"}
    /\ UNCHANGED <<file, tmp, mem, pc, renaming, launcher, platform, agents,
                   cur, agentWork, surfaced, faults, crashes>>

\* Mutant: only the children of agent runs watch their parent.
WatcherKillAgentsOnly ==
    /\ platform = "unix"
    /\ child = "alive"
    /\ ~SupAlive
    /\ agentWork
    /\ child' = "none"
    /\ UNCHANGED <<file, tmp, mem, pc, renaming, launcher, platform, agents,
                   cur, agentWork, surfaced, faults, crashes>>

\* Unix: the child's watcher sees that its parent changed and kills its own
\* process group.  It polls, so the child outlives its supervisor for a while.
WatcherKill ==
    /\ platform = "unix"
    /\ child = "alive"
    /\ ~SupAlive
    /\ child' = "none"
    /\ UNCHANGED <<file, tmp, mem, pc, renaming, launcher, platform, agents,
                   cur, agentWork, surfaced, faults, crashes>>

\* Mutant: no job object contains the child on Windows.
ChildAfterKillNoJob == IF child = "alive" THEN "alive" ELSE "none"

\* What becomes of the child when the supervisor dies: Windows closes the
\* job object with it, on Unix it is orphaned.
ChildAfterKill ==
    IF child = "alive" /\ platform = "unix" THEN "alive" ELSE "none"

-----------------------------------------------------------------------------
(* dispatch cancel, runDispatchCancel.                                     *)

\* The command reads the manifest and goes on only for a running, claimed run.
CancelRead(c) ==
    /\ At(c, "idle")
    /\ file.state = "running"
    /\ file.claimed
    /\ mem' = [mem EXCEPT ![c] = file]
    /\ Goto(c, "kill")
    /\ UNCHANGED <<file, tmp, renaming, launcher, platform, agents, cur,
                   agentWork, child, surfaced, faults, crashes>>

\* No such run, one that is not running, or one whose PID is still 0: the
\* command says so and changes nothing.
CancelRefused(c) ==
    /\ At(c, "idle")
    /\ file.state # "running" \/ ~file.claimed
    /\ UNCHANGED vars

\* Mutant: the supervisor is signalled but not waited for.
CancelKillUnixNoWait(c) ==
    /\ platform = "unix"
    /\ At(c, "kill")
    /\ Goto(c, "mark")
    /\ UNCHANGED <<file, tmp, mem, renaming, launcher, platform, agents, cur,
                   agentWork, child, surfaced, faults, crashes>>

\* terminateManagedTree on Unix: a supervisor that is already gone (ESRCH) is
\* not an error.
CancelKillUnix(c) ==
    /\ platform = "unix"
    /\ At(c, "kill")
    /\ IF SupAlive
       THEN /\ pc' = [pc EXCEPT ![c] = "mark", ![Sup] = "gone"]
            /\ renaming' = renaming \ {Sup}
            /\ child' = ChildAfterKill
       ELSE /\ Goto(c, "mark")
            /\ UNCHANGED <<renaming, child>>
    /\ UNCHANGED <<file, tmp, mem, launcher, platform, agents, cur, agentWork,
                   surfaced, faults, crashes>>

\* terminateManagedTree on Windows: a supervisor that is already gone is an
\* error and the command dies.
CancelKillWindows(c) ==
    /\ platform = "windows"
    /\ At(c, "kill")
    /\ IF SupAlive
       THEN /\ pc' = [pc EXCEPT ![c] = "mark", ![Sup] = "gone"]
            /\ renaming' = renaming \ {Sup}
            /\ child' = ChildAfterKill
            /\ UNCHANGED mem
       ELSE /\ Goto(c, "idle")
            /\ mem' = [mem EXCEPT ![c] = NoManifest]
            /\ UNCHANGED <<renaming, child>>
    /\ UNCHANGED <<file, tmp, launcher, platform, agents, cur, agentWork,
                   surfaced, faults, crashes>>

\* terminateManagedTree: the build takes one of the two files.
CancelKill(c) ==
    IF platform = "windows" THEN CancelKillWindows(c) ELSE CancelKillUnix(c)

\* Mutant: the steps are marked, the run is not.
markDispatchCancelledStepsOnly(m) ==
    [m EXCEPT !.step = [i \in Step |-> IF m.step[i] \in {"running", "pending"}
                                       THEN "cancelled" ELSE m.step[i]]]

markDispatchCancelled(m) ==
    [m EXCEPT !.state = "cancelled",
              !.step = [i \in Step |-> IF m.step[i] \in {"running", "pending"}
                                       THEN "cancelled" ELSE m.step[i]]]

\* The command marks the copy it read BEFORE it killed the supervisor.
CancelMark(c) ==
    /\ At(c, "mark")
    /\ WriteTmp(c, markDispatchCancelled(mem[c]))
    /\ Goto(c, "end")
    /\ UNCHANGED <<file, launcher, platform, agents, cur, agentWork, child,
                   surfaced, crashes>>

CancelEnd(c) ==
    /\ At(c, "end")
    /\ Goto(c, "idle")
    /\ mem' = [mem EXCEPT ![c] = NoManifest]
    /\ UNCHANGED <<file, tmp, renaming, launcher, platform, agents, cur,
                   agentWork, child, surfaced, faults, crashes>>

-----------------------------------------------------------------------------
(* The lifecycle hook, surfaceFinishedDispatches.                          *)

\* Mutant: failed runs are not picked up.
HookReadDoneOnly(h) ==
    /\ At(h, "idle")
    /\ file.state = "done"
    /\ ~file.reported
    /\ mem' = [mem EXCEPT ![h] = file]
    /\ Goto(h, "flip")
    /\ UNCHANGED <<file, tmp, renaming, launcher, platform, agents, cur,
                   agentWork, child, surfaced, faults, crashes>>

\* Read the manifests and compose the summary of a finished, unreported run.
HookRead(h) ==
    /\ At(h, "idle")
    /\ file.state \in Finished
    /\ ~file.reported
    /\ mem' = [mem EXCEPT ![h] = file]
    /\ Goto(h, "flip")
    /\ UNCHANGED <<file, tmp, renaming, launcher, platform, agents, cur,
                   agentWork, child, surfaced, faults, crashes>>

\* Mark the run reported in the copy and write the copy back.
HookFlip(h) ==
    /\ At(h, "flip")
    /\ WriteTmp(h, [mem[h] EXCEPT !.reported = TRUE])
    /\ Goto(h, "emit")
    /\ UNCHANGED <<file, launcher, platform, agents, cur, agentWork, child,
                   surfaced, crashes>>

\* The hook process prints the summary into the session context and exits.
HookEmit(h) ==
    /\ At(h, "emit")
    /\ surfaced' = surfaced + 1
    /\ mem' = [mem EXCEPT ![h] = NoManifest]
    /\ Goto(h, "idle")
    /\ UNCHANGED <<file, tmp, renaming, launcher, platform, agents, cur,
                   agentWork, child, faults, crashes>>

-----------------------------------------------------------------------------
\* A process is killed at an arbitrary point (a machine going down, a provider
\* timing the hook out, Ctrl-C on the cancel command).
Crash(p) ==
    /\ crashes < MaxCrashes
    /\ crashes' = crashes + 1
    /\ pc[p] \notin {"idle", "none", "gone"}
    /\ renaming' = renaming \ {p}
    /\ IF p = Sup
       THEN Goto(p, "gone") /\ child' = ChildAfterKill /\ UNCHANGED mem
       ELSE Goto(p, "idle") /\ UNCHANGED child /\ mem' = [mem EXCEPT ![p] = NoManifest]
    /\ UNCHANGED <<file, tmp, launcher, platform, agents, cur, agentWork,
                   surfaced, faults>>

-----------------------------------------------------------------------------
Init ==
    /\ platform \in Platforms
    /\ file = NoManifest
    /\ tmp = NoManifest
    /\ mem = [p \in Procs |-> NoManifest]
    /\ pc = [p \in Procs |-> IF p = Sup THEN "none" ELSE "idle"]
    /\ renaming = {}
    /\ launcher = "init"
    /\ agents \in SUBSET Step
    /\ cur = 1
    /\ agentWork = FALSE
    /\ child = "none"
    /\ surfaced = 0
    /\ faults = 0
    /\ crashes = 0

Launch == LaunchWrite \/ LaunchStart \/ LaunchFail

Supervise ==
    \/ SupLoad \/ SupLoadFails \/ SupBeginStep \/ SupSpawn
    \/ SupStepDone \/ SupStepFailed \/ SupGate \/ SupVerdict \/ SupFinish \/ SupExit
    \/ RenameTmp(Sup)

\* A cancel command that got past its checks.
CancelProceeds(c) ==
    \/ CancelKill(c) \/ CancelMark(c) \/ CancelEnd(c)
    \/ RenameTmp(c)

Cancel(c) == CancelRead(c) \/ CancelRefused(c) \/ CancelProceeds(c)

Hook(h) == HookRead(h) \/ HookFlip(h) \/ HookEmit(h) \/ RenameTmp(h)

Next ==
    \/ Launch
    \/ Supervise
    \/ ChildExit \/ WatcherKill
    \/ \E c \in Cancels : Cancel(c)
    \/ \E h \in Hooks : Hook(h)
    \/ \E p \in Procs : Crash(p)

Spec == Init /\ [][Next]_vars

\* Processes that are running are scheduled; sessions keep firing lifecycle
\* hooks.  Nothing is assumed of the children (an agent may run for ever) nor
\* of the user (a cancel need not be issued).
Fairness ==
    /\ WF_vars(Supervise)
    /\ WF_vars(WatcherKill)
    /\ \A c \in Cancels : WF_vars(CancelProceeds(c))
    /\ \A h \in Hooks : WF_vars(Hook(h))

FairSpec == Spec /\ Fairness

-----------------------------------------------------------------------------
(* Properties.                                                             *)

TypeOK ==
    /\ platform \in Platforms
    /\ file \in Manifest
    /\ tmp \in Manifest
    /\ mem \in [Procs -> Manifest]
    /\ pc \in [Procs -> SupPC \cup CancelPC \cup HookPC]
    /\ renaming \subseteq Procs
    /\ launcher \in {"init", "written", "started", "failed"}
    /\ agents \subseteq Step
    /\ cur \in Step
    /\ agentWork \in BOOLEAN
    /\ child \in {"none", "alive", "ok", "err"}
    /\ surfaced \in Nat
    /\ faults \in 0 .. MaxFaults
    /\ crashes \in 0 .. MaxCrashes

\* A manifest that says "done" is the truth, whoever wrote it last: every step
\* is done and agent work passed the verify gate (runDispatchSupervise).
Honest(m) ==
    m.state = "done" =>
        /\ \A i \in Step : m.step[i] = "done"
        /\ m.verify = IF agents = {} THEN "skipped" ELSE "passed"

DoneIsHonest == Honest(file)

\* A manifest that says "failed" shows why: the first failed step with
\* everything before it done and nothing after it begun and no verdict, or
\* all steps done and agent work that failed the gate.
Explained(m) ==
    m.state = "failed" =>
        \/ /\ \E i \in Step :
                /\ m.step[i] = "failed"
                /\ \A j \in Step : j < i => m.step[j] = "done"
                /\ \A j \in Step : j > i => m.step[j] = "pending"
           /\ m.verify = "none"
        \/ /\ \A i \in Step : m.step[i] = "done"
           /\ m.verify = "failed"
           /\ agents # {}

FailedIsExplained == Explained(file)

\* What a reader takes a final label for, in both directions: no stale or
\* borrowed copy, failed write or killed process makes a run look done or
\* failed that is not (dispatch_run.go:128, 346, 662).
LabelsAreTrue == DoneIsHonest /\ FailedIsExplained

\* No write of a stale copy takes a run whose label is terminal back to
\* "running" (the comment of startDetachedDispatch, lines 246-248).
NeverBackToRunning ==
    [][file.state \in Terminal => file'.state \in Terminal]_vars

\* No step and no gate is started once the manifest shows the run over.
NoLaunchAfterTerminal ==
    [][(child # "alive" /\ child' = "alive") => file.state = "running"]_vars

\* Every orphan dies: a managed child does not outlive its supervisor for ever
\* (startManagedParentWatcher).
OrphansDie == (child = "alive" /\ ~SupAlive) ~> (child # "alive")

\* A cancel that got past its checks ends the run, whatever its children do,
\* unless a process is killed.
CancelTakesEffect ==
    \A c \in Cancels : (pc[c] = "kill") ~> (file.state \in Terminal \/ crashes > 0)

\* A finished run reaches a human, unless a cancel relabels it first or the
\* hook is killed after it marked the run (surfaceFinishedDispatches).
FinishedIsSurfaced ==
    (file.state \in Finished) ~>
        (surfaced > 0 \/ file.state = "cancelled" \/ crashes > 0)

\* If its children always end, a started run ends, unless a process is killed.
RunConcludes ==
    ([]<>(child # "alive")) =>
        ((launcher = "started") ~> (file.state \in Terminal \/ crashes > 0))

\* The manifest follows the run's lifecycle as a reader understands it.
RL == INSTANCE RunLifecycle WITH
        phase   <- file.state,
        outcome <- IF mem[Sup].state \in Finished THEN mem[Sup].state ELSE "none",
        worker  <- IF child = "alive" THEN "busy" ELSE "idle"

ImplementsLifecycle == RL!AbsSpec

\* When terminateManagedTree has returned on Windows, no managed child of the
\* run is running, whoever else cancels it and whoever is killed
\* (managed_cancel_windows.go).  (On Unix each child leads a group of its own
\* and dies at the next tick of its watcher: OrphansDie.)
NoChildSurvivesCancel ==
    platform = "windows" => \A c \in Cancels : pc[c] \in {"mark", "end"} => child # "alive"
=============================================================================
