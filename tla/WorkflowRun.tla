----------------------------- MODULE WorkflowRun -----------------------------
(***************************************************************************)
(* A workflow run in the background (`workflow run --detach`): the         *)
(* launcher that writes the run manifest and starts a detached supervisor, *)
(* the supervisor that runs the waves of the plan, and the workers of a    *)
(* wave, which write files side by side under their leases.                *)
(*                                                                         *)
(* A wave of a manifest that is not parallel is one step, without a lease  *)
(* and without the comparison of trees.  Writing the run manifest is one   *)
(* step here; DispatchRun takes it apart.                                  *)
(***************************************************************************)
EXTENDS WorkflowPlan, FiniteSets

CONSTANTS
  Manifests,   \* the manifests that may be submitted
  Gated,       \* the steps for which resolveStepGate selects a gate
  MaxEscapes,  \* bound: writes no lease check sees
  MaxFaults    \* bound: failing writes of the run manifest and tree walks

ASSUME RunAssumption ==
  /\ \A m \in Manifests : Valid(m)
  /\ Gated \subseteq Steps
  /\ MaxEscapes \in Nat /\ MaxFaults \in Nat

VARIABLES
  plan,      \* the workflow manifest
  launcher,  \* the `workflow run --detach` process
  disk,      \* the run manifest under .projx/runs
  sup,       \* where the supervisor is
  mem,       \* the supervisor's copy of the run manifest
  batch,     \* the steps of the current wave
  failed,    \* the supervisor's flag
  child,     \* the worker of each step
  wrote,     \* files each worker changed
  wave,      \* history: the wave each step ran in
  passed,    \* history: the steps whose gate passed
  escapes, faults

launchVars == <<launcher, plan>>
supVars == <<sup, mem, batch, failed, wave, passed>>
workVars == <<child, wrote, escapes>>
vars == <<launchVars, disk, supVars, workVars, faults>>

RunManifest ==
  [state : {"absent", "running", "done", "failed"},
   claimed : BOOLEAN,    \* a PID is recorded
   verify : {"none", "passed", "failed", "skipped"},
   step : [Steps -> {"pending", "running", "done", "failed"}]]

Absent ==
  [state |-> "absent", claimed |-> FALSE, verify |-> "none",
   step |-> [s \in Steps |-> "pending"]]
Submitted == [Absent EXCEPT !.state = "running"]

Past == {s \in Steps : wave[s] # {}} \ batch

Init ==
  /\ plan \in Manifests
  /\ launcher = "write" /\ disk = Absent
  /\ sup = "none" /\ mem = Absent /\ batch = {} /\ failed = FALSE
  /\ child = [s \in Steps |-> "none"]
  /\ wrote = [s \in Steps |-> {}]
  /\ wave = [s \in Steps |-> {}] /\ passed = {}
  /\ escapes = 0 /\ faults = 0

Fault == faults < MaxFaults /\ faults' = faults + 1

(* The supervisor ignores that a write fails. *)
Save(m) == \/ disk' = m /\ UNCHANGED faults
           \/ Fault /\ UNCHANGED disk

-----------------------------------------------------------------------------
(* startDetachedWorkflow.                                                  *)

LaunchWrite ==
  /\ launcher = "write"
  /\ launcher' = "start"
  /\ disk' = Submitted
  /\ UNCHANGED <<plan, supVars, workVars, faults>>

(* The log cannot be created or the supervisor not be started.             *)
LaunchFails ==
  /\ launcher = "start"
  /\ launcher' = "gone"
  /\ UNCHANGED <<plan, disk, supVars, workVars, faults>>

LaunchStart ==
  /\ launcher = "start"
  /\ launcher' = "record"
  /\ sup' = "load"
  /\ UNCHANGED <<plan, disk, mem, batch, failed, wave, passed, workVars, faults>>

(* The launcher records the supervisor's PID in the copy it made before    *)
(* the start, and writes that copy.                                        *)
LaunchRecord ==
  /\ launcher = "record"
  /\ launcher' = "gone"
  /\ Save([Submitted EXCEPT !.claimed = TRUE])
  /\ UNCHANGED <<plan, supVars, workVars>>

-----------------------------------------------------------------------------
(* runWorkflowSupervise, runParallelWorkflowSupervise.                     *)

SupLoad ==
  /\ sup = "load"
  /\ sup' = "wave"
  /\ mem' = [disk EXCEPT !.claimed = TRUE]
  /\ Save(mem')
  /\ UNCHANGED <<launchVars, batch, failed, wave, passed, workVars>>

(* The supervisor cannot contain its children or read the run manifest. *)
SupLoadFails ==
  /\ sup = "load" /\ Fault
  /\ sup' = "ended"
  /\ UNCHANGED <<launchVars, disk, mem, batch, failed, wave, passed, workVars>>

(* The next wave: its steps are marked in memory.  A parallel wave starts  *)
(* with a walk over the tree; when that fails, so does the run.  The check *)
(* of the dependencies in the sequential loop finds nothing missing in a   *)
(* valid manifest and is left out.                                         *)
BeginWave ==
  LET next == NextBatch(plan, Past) IN
  /\ sup = "wave" /\ ~failed /\ Past # Steps
  /\ \/ /\ sup' = "announce"
        /\ batch' = next
        /\ mem' = [mem EXCEPT !.step =
                     [s \in Steps |-> IF s \in next THEN "running" ELSE @[s]]]
        /\ wave' = [s \in Steps |-> IF s \in next THEN next ELSE wave[s]]
        /\ child' = [s \in Steps |-> IF s \in next THEN "starting" ELSE child[s]]
        /\ UNCHANGED <<failed, faults>>
     \/ /\ plan.parallel /\ Fault
        /\ failed' = TRUE
        /\ UNCHANGED <<sup, batch, mem, wave, child>>
  /\ UNCHANGED <<launchVars, disk, passed, wrote, escapes>>

(* The write that shows the steps of the wave as running. *)
Announce ==
  /\ sup = "announce"
  /\ sup' = "run"
  /\ Save(mem)
  /\ UNCHANGED <<launchVars, mem, batch, failed, wave, passed, workVars>>

(* A worker starts, and in a parallel wave records its PID; or it cannot   *)
(* be started.  Parallel workers do not wait for the announcement.         *)
StartWorker(s) ==
  /\ child[s] = "starting"
  /\ plan.parallel \/ sup = "run"
  /\ \/ /\ child' = [child EXCEPT ![s] = "alive"]
        /\ IF plan.parallel THEN Save(mem) ELSE UNCHANGED <<disk, faults>>
     \/ /\ child' = [child EXCEPT ![s] = "err"]
        /\ UNCHANGED <<disk, faults>>
  /\ UNCHANGED <<launchVars, supVars, wrote, escapes>>

(* Mutant: the declarations of the whole workflow count for every wave. *)
UndeclaredAnywhere(m, steps) ==
  \E s \in steps : \E path \in wrote[s] :
    \A t \in Steps : ~Covers(m.writes[t], path)
(* workflowChangedPathsAllowed on what changed during the wave. *)
Undeclared(m, steps) ==
  \E s \in steps : \E path \in wrote[s] :
    \A t \in steps : ~Covers(m.writes[t], path)

(* A step's own error, then the wave's violation, then its gate. *)
StepResult(s, violation, passes) ==
  IF child[s] = "err" \/ violation \/ s \in Gated \ passes THEN "failed" ELSE "done"

(* Mutant: a step that fails by itself does not fail the run. *)
FailsRunByGate(result, violation) ==
  violation \/ \E s \in batch \cap Gated : result[s] = "failed"
FailsRun(result, violation) == \E s \in batch : result[s] = "failed"

WorkersEnded == \A s \in batch : child[s] \in {"ok", "err"}

(* After the last worker: compare the trees of a parallel wave, run the    *)
(* gates of the steps that succeeded, record every result in one write     *)
(* (which is not made to fail in the same step as a walk).                 *)
Settle ==
  /\ sup = "run" /\ WorkersEnded
  /\ \E walkFails \in BOOLEAN, passes \in SUBSET (Gated \cap batch) :
       LET violation == plan.parallel /\ (walkFails \/ Undeclared(plan, batch))
           result == [s \in Steps |-> IF s \in batch THEN StepResult(s, violation, passes)
                                                     ELSE mem.step[s]]
           gated == {s \in Gated \cap batch : child[s] # "err" /\ ~violation}
       IN
       /\ passes \subseteq gated
       /\ mem' = [mem EXCEPT !.step = result,
                             !.verify = IF gated \ passes # {} THEN "failed" ELSE @]
       /\ failed' = FailsRun(result, violation)
       /\ passed' = passed \cup passes
       /\ IF walkFails THEN plan.parallel /\ Fault /\ disk' = mem' ELSE Save(mem')
  /\ sup' = "wave"
  /\ batch' = {}
  /\ child' = [s \in Steps |-> IF child[s] \in {"ok", "err"} THEN "none" ELSE child[s]]
  /\ UNCHANGED <<launchVars, wave, wrote, escapes>>

(* Mutant: only a run that went through all its steps is finished. *)
StopsAtEnd == Past = Steps
Stops == failed \/ Past = Steps

Finish ==
  /\ sup = "wave" /\ Stops
  /\ sup' = "ended"
  /\ mem' = [mem EXCEPT !.state = IF failed THEN "failed" ELSE "done",
                        !.verify = IF failed THEN @
                                   ELSE IF Gated # {} THEN "passed" ELSE "skipped"]
  /\ Save(mem')
  /\ UNCHANGED <<launchVars, batch, failed, wave, passed, workVars>>

-----------------------------------------------------------------------------
(* Workers.                                                                *)

(* The hook lets a worker change the files of its lease. *)
WorkerWrites(s, path) ==
  /\ child[s] = "alive" /\ plan.parallel
  /\ LeaseAllows(plan.writes[s], path)
  /\ wrote' = [wrote EXCEPT ![s] = @ \cup {path}]
  /\ UNCHANGED <<launchVars, disk, supVars, child, escapes, faults>>

(* A deterministic step has no lease, and a harness may have a path to the *)
(* disk that its hook does not see.                                        *)
WorkerEscapes(s, path) ==
  /\ child[s] = "alive" /\ plan.parallel
  /\ escapes < MaxEscapes /\ escapes' = escapes + 1
  /\ wrote' = [wrote EXCEPT ![s] = @ \cup {path}]
  /\ UNCHANGED <<launchVars, disk, supVars, child, faults>>

WorkerEnds(s) ==
  /\ child[s] = "alive"
  /\ \E r \in {"ok", "err"} : child' = [child EXCEPT ![s] = r]
  /\ UNCHANGED <<launchVars, disk, supVars, wrote, escapes, faults>>

-----------------------------------------------------------------------------
Launch == LaunchWrite \/ LaunchFails \/ LaunchStart \/ LaunchRecord
Supervise ==
  \/ SupLoad \/ SupLoadFails \/ BeginWave \/ Announce \/ Settle \/ Finish
  \/ \E s \in Steps : StartWorker(s)
Work == \E s \in Steps :
  WorkerEnds(s) \/ \E path \in Paths : WorkerWrites(s, path) \/ WorkerEscapes(s, path)

Next == Launch \/ Supervise \/ Work

Spec == Init /\ [][Next]_vars
(* The supervisor's process is scheduled; nothing is assumed of the agents *)
(* nor of the launcher.                                                    *)
FairSpec == Spec /\ WF_vars(Supervise)

-----------------------------------------------------------------------------

(* A worker is only ever started after every step it depends on succeeded, *)
(* although the waves are computed as if no step could fail ("MUST have    *)
(* completed before this step runs", WorkflowStep.Deps).                   *)
DependenciesFirst ==
  \A s \in Steps : child[s] # "none" =>
    \A d \in plan.deps[s] : mem.step[d] = "done"

(* A run recorded as done did all its steps, every gate passed, and each   *)
(* file a parallel wave changed was declared by a step of that wave.       *)
DoneIsComplete ==
  disk.state = "done" => \A s \in Steps :
    /\ disk.step[s] = "done"
    /\ s \in Gated => s \in passed
    /\ plan.parallel => \A path \in wrote[s] :
         \E t \in wave[s] : Covers(plan.writes[t], path)

(* Two workers of a wave never change the same file, as long as no write   *)
(* gets past the lease hook.                                               *)
NoSharedWrites ==
  escapes = 0 =>
    \A s, t \in Steps : s # t /\ t \in wave[s] => wrote[s] \cap wrote[t] = {}

(* After a step failed no other step is started: a failed step or gate     *)
(* stops the workflow.                                                     *)
NothingStartsAfterFailure ==
  [][\A s \in Steps : mem.step[s] # "running" /\ mem'.step[s] = "running" =>
       \A t \in Steps : mem.step[t] # "failed"]_vars

(* The launcher, the supervisor and the workers do together what the run   *)
(* of a workflow promises: batches of ready steps that do not overlap,     *)
(* judged as a whole, none after a failure, and a verdict that is true,    *)
(* which the manifest shows unless the launcher's last write hides it.     *)
Outcome(m) == IF m.state \in {"done", "failed"} THEN m.state ELSE "none"
Covered(s) == {path \in Paths : plan.parallel => Covers(plan.writes[s], path)}
SideBySide(s, t) ==
  plan.parallel /\ ~workflowWritesOverlap(plan.writes[s], plan.writes[t])

PX == INSTANCE PlanExecution WITH
        Tasks    <- Steps,
        Files    <- Paths,
        after    <- [s \in Steps |-> plan.deps[s]],
        rivals   <- {p \in Steps \X Steps : ~SideBySide(p[1], p[2])},
        declared <- [s \in Steps |-> Covered(s)],
        status   <- mem.step,
        changed  <- wrote,
        verdict  <- Outcome(mem),
        shown    <- [verdict |-> Outcome(disk), status |-> disk.step],
        late     <- launcher # "gone"

ImplementsExecution == PX!AbsSpec

(* A run whose workers end is finished by its supervisor. *)
RunEnds ==
  []<>(\A s \in Steps : child[s] # "alive") => (sup = "load" ~> sup = "ended")

(* The manifest of a run that is over stays that of a run that is over.    *)
OutcomeStays ==
  [][disk.state \in {"done", "failed"} => disk'.state = disk.state]_vars
=============================================================================
