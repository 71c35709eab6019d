-------------------------- MODULE WorkflowRunProofs --------------------------
(***************************************************************************)
(* What a run recorded as done means, and that nothing starts after a      *)
(* failure, for any number of steps and any manifests, gates and faults.   *)
(* Nothing is needed there of how the waves are chosen: a wave is whatever *)
(* NextBatch says, and the supervisor's bookkeeping is right for all.      *)
(* That every step starts after its dependencies, and that the workers of  *)
(* a wave share no file, rest on what NextBatch says as well.              *)
(***************************************************************************)
EXTENDS WorkflowRun, WorkflowPlanProofs

TypeInv ==
  /\ disk \in RunManifest /\ mem \in RunManifest
  /\ failed \in BOOLEAN
  /\ child \in [Steps -> {"none", "starting", "alive", "ok", "err"}]
  /\ wrote = [s \in Steps |-> wrote[s]]
  /\ wave = [s \in Steps |-> wave[s]]

(* The supervisor's copy shows no failure that its flag does not know.     *)
FlagInv ==
  /\ sup \in {"none", "load", "announce", "run"} => ~failed
  /\ ~failed => \A s \in Steps : mem.step[s] # "failed"
(* A supervisor is started once. *)
StartInv == launcher \in {"write", "start"} => sup = "none"
(* Only a supervisor that has ended has written "done".                    *)
EndInv ==
  /\ sup # "ended" => mem.state # "done" /\ disk.state # "done"
  /\ sup \in {"none", "load"} => \A s \in Steps : disk.step[s] = "pending" /\ wave[s] = {}
(* Workers live between the announcement of their wave and its settlement. *)
WaveInv ==
  /\ sup \notin {"announce", "run"} => batch = {}
  /\ \A s \in Steps : IF s \in batch THEN wave[s] = batch ELSE child[s] = "none"
(* What was settled without a failure is complete.                         *)
Settled(s) ==
  /\ mem.step[s] = "done"
  /\ s \in Gated => s \in passed
  /\ plan.parallel => \A path \in wrote[s] : \E t \in wave[s] : Covers(plan.writes[t], path)
SettledInv == ~failed => \A s \in Past : Settled(s)

IInv == TypeInv /\ StartInv /\ FlagInv /\ EndInv /\ WaveInv /\ SettledInv /\ DoneIsComplete

LEMMA InitInv == Init => IInv
<1> SUFFICES ASSUME Init PROVE IInv
  OBVIOUS
<1>1. Absent \in RunManifest /\ Absent.state = "absent"
      /\ \A s \in Steps : Absent.step[s] = "pending"
  BY DEF Absent, RunManifest
<1> QED BY <1>1 DEF Init, IInv, TypeInv, StartInv, FlagInv, EndInv, WaveInv, SettledInv, Past, DoneIsComplete

(* What the launcher writes. *)
LEMMA SubmittedManifest ==
  ASSUME NEW b \in BOOLEAN
  PROVE  LET m == [Submitted EXCEPT !.claimed = b] IN
         /\ m \in RunManifest /\ m.state = "running"
         /\ \A s \in Steps : m.step[s] = "pending"
BY DEF Submitted, Absent, RunManifest

(* A step that leaves the supervisor and the workers alone, and writes     *)
(* nothing but a run that is not over.                                     *)
LEMMA DiskStep ==
  ASSUME IInv, UNCHANGED <<plan, supVars, workVars>>,
         launcher' \in {"write", "start"} => launcher \in {"write", "start"},
         disk' \in RunManifest, disk'.state # "done",
         sup \in {"none", "load"} => \A s \in Steps : disk'.step[s] = "pending"
  PROVE  IInv'
BY DEF IInv, TypeInv, StartInv, FlagInv, EndInv, WaveInv, SettledInv, Settled, Past, DoneIsComplete,
       supVars, workVars

LEMMA LaunchKeeps == IInv /\ Launch => IInv'
<1> SUFFICES ASSUME IInv, Launch PROVE IInv'
  OBVIOUS
<1> USE DEF IInv
<1>1. CASE LaunchWrite
  <2>1. /\ Submitted \in RunManifest /\ Submitted.state = "running"
        /\ \A s \in Steps : Submitted.step[s] = "pending"
    BY DEF Submitted, Absent, RunManifest
  <2> QED BY <1>1, <2>1, DiskStep DEF LaunchWrite
<1>2. CASE LaunchFails
  BY <1>2 DEF LaunchFails, TypeInv, StartInv, FlagInv, EndInv, WaveInv, SettledInv, Settled, Past,
              DoneIsComplete, supVars, workVars
<1>3. CASE LaunchStart
  <2>1. UNCHANGED <<plan, disk, mem, batch, failed, wave, passed, child, wrote>>
    BY <1>3 DEF LaunchStart, workVars
  <2>2. sup = "none" /\ sup' = "load" /\ launcher' = "record"
    BY <1>3 DEF LaunchStart, StartInv
  <2> QED BY <2>1, <2>2 DEF TypeInv, StartInv, FlagInv, EndInv, WaveInv, SettledInv, Settled,
                            Past, DoneIsComplete
<1>4. CASE LaunchRecord
  <2> DEFINE m == [Submitted EXCEPT !.claimed = TRUE]
  <2>1. m \in RunManifest /\ m.state = "running" /\ \A s \in Steps : m.step[s] = "pending"
    BY SubmittedManifest
  <2>2. CASE disk' = m
    BY <1>4, <2>1, <2>2, DiskStep DEF LaunchRecord
  <2>3. CASE disk' = disk
    BY <1>4, <2>3 DEF LaunchRecord, TypeInv, StartInv, FlagInv, EndInv, WaveInv, SettledInv, Settled, Past,
                      DoneIsComplete, supVars, workVars
  <2> QED BY <1>4, <2>2, <2>3 DEF LaunchRecord, Save
<1> QED BY <1>1, <1>2, <1>3, <1>4 DEF Launch

(* Steps of the supervisor. *)
LEMMA SupLoadKeeps == IInv /\ SupLoad => IInv'
<1> SUFFICES ASSUME IInv, SupLoad PROVE IInv'
  OBVIOUS
<1>1. /\ sup = "load" /\ sup' = "wave"
      /\ mem' \in RunManifest /\ mem'.state # "done"
      /\ \A s \in Steps : mem'.step[s] = "pending" /\ wave[s] = {}
      /\ batch = {} /\ ~failed /\ disk.state # "done"
      /\ UNCHANGED <<launcher, plan, batch, failed, wave, passed, child, wrote>>
  BY DEF IInv, TypeInv, FlagInv, EndInv, WaveInv, SupLoad, RunManifest, launchVars, workVars
<1>2. disk' = mem' \/ disk' = disk
  BY DEF SupLoad, Save
<1> QED BY <1>1, <1>2 DEF IInv, TypeInv, StartInv, FlagInv, EndInv, WaveInv, SettledInv, Settled,
                          Past, DoneIsComplete

LEMMA SupLoadFailsKeeps == IInv /\ SupLoadFails => IInv'
BY DEF IInv, TypeInv, StartInv, FlagInv, EndInv, WaveInv, SettledInv, Settled, Past, DoneIsComplete,
       SupLoadFails, launchVars, workVars

LEMMA BeginWaveKeeps == IInv /\ BeginWave => IInv'
<1> SUFFICES ASSUME IInv, BeginWave PROVE IInv'
  OBVIOUS
<1> DEFINE next == NextBatch(plan, Past)
<1>1. /\ sup = "wave" /\ ~failed /\ batch = {} /\ disk.state # "done" /\ mem.state # "done"
      /\ UNCHANGED <<launcher, plan, disk, passed, wrote>>
  BY DEF IInv, EndInv, WaveInv, BeginWave, launchVars
<1>2. CASE failed' = TRUE /\ UNCHANGED <<sup, batch, mem, wave, child>>
  BY <1>1, <1>2 DEF IInv, TypeInv, StartInv, FlagInv, EndInv, WaveInv, SettledInv, DoneIsComplete
<1>3. CASE ~(failed' = TRUE /\ UNCHANGED <<sup, batch, mem, wave, child>>)
  <2>1. /\ sup' = "announce" /\ batch' = next /\ failed' = failed
        /\ mem' = [mem EXCEPT !.step = [s \in Steps |-> IF s \in next THEN "running" ELSE @[s]]]
        /\ wave' = [s \in Steps |-> IF s \in next THEN next ELSE wave[s]]
        /\ child' = [s \in Steps |-> IF s \in next THEN "starting" ELSE child[s]]
    BY <1>3 DEF BeginWave
  <2> HIDE DEF next
  <2>2. /\ mem' \in RunManifest /\ mem'.state = mem.state
        /\ \A s \in Steps : mem'.step[s] = IF s \in next THEN "running" ELSE mem.step[s]
    BY <2>1 DEF IInv, TypeInv, RunManifest
  <2>3. TypeInv'
    BY <1>1, <2>1, <2>2 DEF IInv, TypeInv
  <2>4. StartInv' /\ FlagInv' /\ EndInv' /\ DoneIsComplete'
    BY <1>1, <2>1, <2>2 DEF IInv, StartInv, FlagInv, EndInv, DoneIsComplete
  <2>5. WaveInv'
    BY <1>1, <2>1 DEF IInv, WaveInv
  <2>6. SettledInv'
    <3> SUFFICES ASSUME NEW s \in Past' PROVE Settled(s)'
      BY DEF SettledInv
    <3>1. s \in Steps /\ s \notin next /\ wave'[s] = wave[s] /\ s \in Past
      BY <1>1, <2>1 DEF Past
    <3>2. Settled(s)
      BY <1>1, <3>1 DEF IInv, SettledInv
    <3> QED BY <1>1, <2>2, <3>1, <3>2 DEF Settled
  <2> QED BY <2>3, <2>4, <2>5, <2>6 DEF IInv
<1> QED BY <1>2, <1>3

(* The copy of a supervisor at work is not over. *)
LEMMA SaveKeeps ==
  ASSUME IInv, sup \in {"announce", "run"}, Save(mem), UNCHANGED <<launchVars, mem, batch, failed, wave, passed, wrote>>,
         sup' \in {"announce", "run"},
         child' \in [Steps -> {"none", "starting", "alive", "ok", "err"}],
         \A s \in Steps : s \notin batch => child'[s] = child[s]
  PROVE  IInv'
<1>1. disk' \in RunManifest /\ disk'.state # "done"
  BY DEF IInv, TypeInv, EndInv, Save
<1> QED BY <1>1 DEF IInv, TypeInv, StartInv, FlagInv, EndInv, WaveInv, SettledInv, Settled, Past,
                    DoneIsComplete, launchVars

LEMMA AnnounceKeeps == IInv /\ Announce => IInv'
<1> SUFFICES ASSUME IInv, Announce PROVE IInv'
  OBVIOUS
<1> QED BY SaveKeeps DEF Announce, workVars, IInv, TypeInv

LEMMA StartWorkerKeeps ==
  ASSUME IInv, NEW s \in Steps, StartWorker(s)
  PROVE  IInv'
<1>1. s \in batch /\ sup \in {"announce", "run"}
  BY DEF IInv, WaveInv, StartWorker
<1>2. /\ child' \in [Steps -> {"none", "starting", "alive", "ok", "err"}]
      /\ \A t \in Steps : t \notin batch => child'[t] = child[t]
      /\ UNCHANGED <<launchVars, sup, mem, batch, failed, wave, passed, wrote>>
  BY <1>1 DEF IInv, TypeInv, StartWorker, supVars
<1>3. CASE Save(mem)
  BY <1>1, <1>2, <1>3, SaveKeeps
<1>4. CASE disk' = disk
  BY <1>1, <1>2, <1>4 DEF IInv, TypeInv, StartInv, FlagInv, EndInv, WaveInv, SettledInv, Settled,
                          Past, DoneIsComplete, launchVars
<1> QED BY <1>3, <1>4 DEF StartWorker

(* When a wave is settled without a failure, its steps are complete.       *)
LEMMA SettleKeeps == IInv /\ Settle => IInv'
<1> SUFFICES ASSUME IInv, Settle PROVE IInv'
  OBVIOUS
<1>1. /\ sup = "run" /\ sup' = "wave" /\ batch' = {} /\ ~failed
      /\ mem.state # "done" /\ disk.state # "done" /\ WorkersEnded
      /\ child' = [s \in Steps |-> IF child[s] \in {"ok", "err"} THEN "none" ELSE child[s]]
      /\ UNCHANGED <<launcher, plan, wave, wrote>>
  BY DEF IInv, FlagInv, EndInv, Settle, launchVars
<1>2. PICK walkFails \in BOOLEAN, passes \in SUBSET (Gated \cap batch) :
       LET violation == plan.parallel /\ (walkFails \/ Undeclared(plan, batch))
           result == [s \in Steps |-> IF s \in batch THEN StepResult(s, violation, passes)
                                                     ELSE mem.step[s]]
           gated == {s \in Gated \cap batch : child[s] # "err" /\ ~violation}
       IN
       /\ passes \subseteq gated
       /\ mem' = [mem EXCEPT !.step = result,
                             !.verify = IF gated \ passes # {} THEN "failed" ELSE @]
       /\ failed' = FailsRun(result, violation)
       /\ passed' = passed \cup passes
       /\ IF walkFails THEN plan.parallel /\ Fault /\ disk' = mem' ELSE Save(mem')
  BY DEF Settle
<1> DEFINE violation == plan.parallel /\ (walkFails \/ Undeclared(plan, batch))
           result == [s \in Steps |-> IF s \in batch THEN StepResult(s, violation, passes)
                                                     ELSE mem.step[s]]
           gated == {s \in Gated \cap batch : child[s] # "err" /\ ~violation}
<1>3. /\ mem' = [mem EXCEPT !.step = result,
                            !.verify = IF gated \ passes # {} THEN "failed" ELSE @]
      /\ failed' = FailsRun(result, violation)
      /\ passed' = passed \cup passes
      /\ disk' = mem' \/ disk' = disk
  BY <1>2 DEF Save
<1>4. result \in [Steps -> {"pending", "running", "done", "failed"}]
  BY DEF IInv, TypeInv, RunManifest, StepResult
<1>5. \A s \in Steps : result[s] = IF s \in batch THEN StepResult(s, violation, passes) ELSE mem.step[s]
  OBVIOUS
<1>6. violation \in BOOLEAN /\ (~violation => ~plan.parallel \/ ~Undeclared(plan, batch))
  BY DEF Undeclared
<1> HIDE DEF violation, result, gated
<1>7. mem' \in RunManifest /\ mem'.state = mem.state /\ mem'.step = result
  BY <1>3, <1>4 DEF IInv, TypeInv, RunManifest
<1>8. TypeInv'
  <2>1. failed' \in BOOLEAN
    BY <1>3 DEF FailsRun
  <2>2. child' \in [Steps -> {"none", "starting", "alive", "ok", "err"}]
    BY <1>1 DEF IInv, TypeInv
  <2> QED BY <1>1, <1>3, <1>7, <2>1, <2>2 DEF IInv, TypeInv
<1>9. StartInv' /\ EndInv'
  BY <1>1, <1>3, <1>7 DEF IInv, StartInv, EndInv
<1>10. FlagInv'
  <2> SUFFICES ASSUME ~failed', NEW s \in Steps PROVE mem'.step[s] # "failed"
    BY <1>1 DEF FlagInv
  <2>1. CASE s \in batch
    BY <1>3, <1>7, <2>1 DEF FailsRun
  <2>2. CASE s \notin batch
    BY <1>1, <1>5, <1>7, <2>2 DEF IInv, FlagInv
  <2> QED BY <2>1, <2>2
<1>11. WaveInv'
  <2> SUFFICES ASSUME NEW s \in Steps PROVE child'[s] = "none"
    BY <1>1 DEF WaveInv
  <2> QED BY <1>1 DEF IInv, WaveInv, WorkersEnded
<1>12. SettledInv'
  <2> SUFFICES ASSUME ~failed', NEW s \in Past' PROVE Settled(s)'
    BY DEF SettledInv
  <2>0. s \in Steps /\ wave[s] # {}
    BY <1>1 DEF Past
  <2>1. CASE s \in batch
    <3>1. StepResult(s, violation, passes) # "failed"
      BY <1>3, <1>5, <2>0, <2>1 DEF FailsRun
    <3>2. ~violation /\ (s \in Gated => s \in passes) /\ result[s] = "done"
      BY <1>5, <2>0, <2>1, <3>1 DEF StepResult
    <3>3. wave[s] = batch
      BY <2>0, <2>1 DEF IInv, WaveInv
    <3>4. plan.parallel => \A path \in wrote[s] : \E t \in batch : Covers(plan.writes[t], path)
      BY <1>6, <2>1, <3>2 DEF Undeclared
    <3> QED BY <1>1, <1>3, <1>7, <3>2, <3>3, <3>4 DEF Settled
  <2>2. CASE s \notin batch
    <3>1. Settled(s)
      BY <1>1, <2>0, <2>2 DEF IInv, SettledInv, Past
    <3> QED BY <1>1, <1>3, <1>5, <1>7, <2>0, <2>2, <3>1 DEF Settled
  <2> QED BY <2>1, <2>2
<1>13. DoneIsComplete'
  BY <1>1, <1>3, <1>7 DEF DoneIsComplete
<1> QED BY <1>8, <1>9, <1>10, <1>11, <1>12, <1>13 DEF IInv

(* A run is recorded as done when every step is behind it.                 *)
LEMMA FinishKeeps == IInv /\ Finish => IInv'
<1> SUFFICES ASSUME IInv, Finish PROVE IInv'
  OBVIOUS
<1>1. /\ sup = "wave" /\ sup' = "ended" /\ Stops /\ disk.state # "done"
      /\ disk' = mem' \/ disk' = disk
      /\ UNCHANGED <<launcher, plan, batch, failed, wave, passed, child, wrote>>
  BY DEF IInv, EndInv, Finish, Save, launchVars, workVars
<1>2. /\ mem' \in RunManifest /\ mem'.step = mem.step
      /\ mem'.state = IF failed THEN "failed" ELSE "done"
  BY DEF IInv, TypeInv, RunManifest, Finish
<1>3. TypeInv' /\ StartInv' /\ FlagInv' /\ EndInv' /\ WaveInv' /\ SettledInv'
  BY <1>1, <1>2 DEF IInv, TypeInv, StartInv, FlagInv, EndInv, WaveInv, SettledInv, Settled, Past
<1>4. DoneIsComplete'
  <2>1. CASE failed \/ disk' = disk
    BY <1>1, <1>2, <2>1 DEF DoneIsComplete
  <2>2. CASE ~failed /\ disk' = mem'
    <3>1. \A s \in Steps : Settled(s)
      BY <1>1, <2>2 DEF IInv, SettledInv, Stops
    <3> QED BY <1>1, <1>2, <2>2, <3>1 DEF Settled, DoneIsComplete
  <2> QED BY <1>1, <2>1, <2>2
<1> QED BY <1>3, <1>4 DEF IInv

(* A worker that is alive belongs to the wave under way.                   *)
LEMMA WorkKeeps == IInv /\ Work => IInv'
<1> SUFFICES ASSUME IInv, NEW s \in Steps,
                    \/ WorkerEnds(s)
                    \/ \E path \in Paths : WorkerWrites(s, path) \/ WorkerEscapes(s, path)
             PROVE  IInv'
  BY DEF Work
<1>1. /\ s \in batch /\ sup \in {"announce", "run"} /\ disk.state # "done"
      /\ child' \in [Steps -> {"none", "starting", "alive", "ok", "err"}]
      /\ \A t \in Steps : t \notin batch => child'[t] = child[t] /\ wrote'[t] = wrote[t]
      /\ wrote' = [t \in Steps |-> wrote'[t]]
      /\ UNCHANGED <<launcher, plan, disk, sup, mem, batch, failed, wave, passed>>
  <2>1. child[s] = "alive"
    BY DEF WorkerEnds, WorkerWrites, WorkerEscapes
  <2>2. s \in batch /\ sup \in {"announce", "run"} /\ disk.state # "done"
    BY <2>1 DEF IInv, WaveInv, EndInv
  <2>3. CASE WorkerEnds(s)
    BY <2>2, <2>3 DEF IInv, TypeInv, WorkerEnds, launchVars, supVars
  <2>4. CASE \E path \in Paths : WorkerWrites(s, path) \/ WorkerEscapes(s, path)
    BY <2>2, <2>4 DEF IInv, TypeInv, WorkerWrites, WorkerEscapes, launchVars, supVars
  <2> QED BY <2>3, <2>4
<1> QED BY <1>1 DEF IInv, TypeInv, StartInv, FlagInv, EndInv, WaveInv, SettledInv, Settled, Past,
                    DoneIsComplete

LEMMA InvNext == IInv /\ [Next]_vars => IInv'
<1> SUFFICES ASSUME IInv, [Next]_vars PROVE IInv'
  OBVIOUS
<1>1. CASE Launch
  BY <1>1, LaunchKeeps
<1>2. CASE Supervise
  BY <1>2, SupLoadKeeps, SupLoadFailsKeeps, BeginWaveKeeps, AnnounceKeeps, SettleKeeps,
     FinishKeeps, StartWorkerKeeps DEF Supervise
<1>3. CASE Work
  BY <1>3, WorkKeeps
<1>4. CASE UNCHANGED vars
  BY <1>4 DEF vars, launchVars, supVars, workVars, IInv, TypeInv, StartInv, FlagInv, EndInv,
              WaveInv, SettledInv, Settled, Past, DoneIsComplete
<1> QED BY <1>1, <1>2, <1>3, <1>4 DEF Next
-----------------------------------------------------------------------------
(* The inductive invariant of launcher, supervisor and workers.            *)
THEOREM Invariance == Spec => []IInv
BY InitInv, InvNext, PTL DEF Spec

(* cmd_workflow.go: a run recorded as done did all its steps, every gate   *)
(* passed, and what a parallel wave changed was declared by it.            *)
THEOREM DoneComplete == Spec => []DoneIsComplete
<1>1. IInv => DoneIsComplete
  BY DEF IInv
<1> QED BY <1>1, Invariance, PTL

(* cmd_workflow.go: a failed step or gate stops the workflow.              *)
THEOREM NothingAfterFailure == Spec => NothingStartsAfterFailure
<1> DEFINE Stays ==
      \A s \in Steps : mem.step[s] # "running" /\ mem'.step[s] = "running" =>
        \A t \in Steps : mem.step[t] # "failed"
<1>1. IInv /\ [Next]_vars => [Stays]_vars
  <2> SUFFICES ASSUME IInv, Next PROVE Stays
    OBVIOUS
  <2>1. CASE ~failed
    BY <2>1 DEF IInv, FlagInv
  <2>2. CASE failed
    <3>1. sup \notin {"load", "announce", "run"}
      BY <2>2 DEF IInv, FlagInv
    <3>2. CASE Supervise
      <4>1. mem'.step = mem.step
        <5>1. CASE Finish
          BY <5>1 DEF Finish, IInv, TypeInv, RunManifest
        <5>2. ASSUME NEW s \in Steps, StartWorker(s) PROVE mem' = mem
          BY <5>2 DEF StartWorker, supVars
        <5>3. CASE BeginWave
          BY <2>2, <5>3 DEF BeginWave
        <5> QED BY <3>1, <3>2, <5>1, <5>2, <5>3 DEF Supervise, SupLoad, SupLoadFails, Announce, Settle
      <4> QED BY <4>1
    <3>3. CASE Launch \/ Work
      BY <3>3 DEF Launch, LaunchWrite, LaunchFails, LaunchStart, LaunchRecord,
                  Work, WorkerEnds, WorkerWrites, WorkerEscapes, supVars
    <3> QED BY <3>2, <3>3 DEF Next
  <2> QED BY <2>1, <2>2
<1> QED BY <1>1, Invariance, PTL DEF Spec, NothingStartsAfterFailure

-----------------------------------------------------------------------------
(* What the choice of the waves adds: every dependency of the wave under   *)
(* way is behind the supervisor, and no two declarations of a wave overlap.*)
ReadyInv == plan \in Manifests /\ \A s \in batch : plan.deps[s] \subseteq Past
ApartInv ==
  plan.parallel => \A s \in Steps : \A t \in wave[s] :
    s # t => ~workflowWritesOverlap(plan.writes[s], plan.writes[t])
(* A worker writes in a parallel wave, and what its lease allows. *)
LeaseInv ==
  /\ escapes \in Nat
  /\ \A s \in Steps : wrote[s] # {} => plan.parallel
  /\ escapes = 0 => \A s \in Steps : \A path \in wrote[s] :
       path \in Paths /\ LeaseAllows(plan.writes[s], path)

ChoiceInv == ReadyInv /\ ApartInv /\ LeaseInv

LEMMA ChoiceInit == Init => ChoiceInv
BY DEF Init, ChoiceInv, ReadyInv, ApartInv, LeaseInv

(* A step that begins no wave and writes no file. *)
LEMMA ChoiceStays ==
  ASSUME IInv, ChoiceInv, UNCHANGED <<plan, wave, wrote, escapes>>,
         batch' = batch \/ batch' = {}
  PROVE  ChoiceInv'
<1>1. ReadyInv' BY DEF ChoiceInv, ReadyInv, Past
<1>2. ApartInv' /\ LeaseInv' BY DEF ChoiceInv, ApartInv, LeaseInv
<1> QED BY <1>1, <1>2 DEF ChoiceInv

(* A wave takes steps that wait for nothing that is not behind it. *)
LEMMA BeginWaveChooses == IInv /\ ChoiceInv /\ BeginWave => ChoiceInv'
<1> SUFFICES ASSUME IInv, ChoiceInv, BeginWave PROVE ChoiceInv'
  OBVIOUS
<1> DEFINE next == NextBatch(plan, Past)
<1>1. batch = {} /\ UNCHANGED <<plan, wrote, escapes>>
  BY DEF IInv, WaveInv, BeginWave, launchVars
<1>2. CASE UNCHANGED <<batch, wave>>
  BY <1>1, <1>2, ChoiceStays
<1>3. CASE ~UNCHANGED <<batch, wave>>
  <2>1. /\ batch' = next
        /\ wave' = [s \in Steps |-> IF s \in next THEN next ELSE wave[s]]
    BY <1>3 DEF BeginWave
  <2>2. /\ next \subseteq Steps \ Past
        /\ IF plan.parallel
           THEN \A s \in next :
                  /\ plan.deps[s] \subseteq Past
                  /\ \A t \in next : s # t => ~workflowWritesOverlap(plan.writes[s], plan.writes[t])
           ELSE \A s \in next : next = {s} /\ 1..(s - 1) \subseteq Past
    BY NextBatchSound
  <2> HIDE DEF next
  <2>3. Past' = Past
    BY <1>1, <2>1, <2>2 DEF Past
  <2>4. ReadyInv'
    <3>1. plan \in Manifests /\ Valid(plan)
      BY RunAssumption DEF ChoiceInv, ReadyInv
    <3>2. \A s \in next : plan.deps[s] \subseteq Past
      BY <2>2, <3>1 DEF Valid
    <3> QED BY <1>1, <2>1, <2>3, <3>1, <3>2 DEF ReadyInv
  <2>5. ApartInv'
    BY <1>1, <2>1, <2>2 DEF ChoiceInv, ApartInv
  <2>6. LeaseInv'
    BY <1>1 DEF ChoiceInv, LeaseInv
  <2> QED BY <2>4, <2>5, <2>6 DEF ChoiceInv
<1> QED BY <1>2, <1>3

(* A worker writes what its lease allows, unless it escapes the hook.      *)
LEMMA WorkChooses ==
  ASSUME IInv, ChoiceInv, NEW s \in Steps, NEW path \in Paths,
         WorkerWrites(s, path) \/ WorkerEscapes(s, path)
  PROVE  ChoiceInv'
<1>1. /\ UNCHANGED <<plan, batch, wave>> /\ plan.parallel
      /\ wrote' = [wrote EXCEPT ![s] = @ \cup {path}]
  BY DEF WorkerWrites, WorkerEscapes, launchVars, supVars
<1>2. ReadyInv' /\ ApartInv'
  BY <1>1 DEF ChoiceInv, ReadyInv, ApartInv, Past
<1>3. \A t \in Steps : wrote'[t] = IF t = s THEN wrote[t] \cup {path} ELSE wrote[t]
  BY <1>1 DEF IInv, TypeInv
<1>4. CASE WorkerWrites(s, path)
  <2>1. LeaseAllows(plan.writes[s], path) /\ escapes' = escapes
    BY <1>4 DEF WorkerWrites
  <2> QED BY <1>1, <1>2, <1>3, <2>1 DEF ChoiceInv, LeaseInv
<1>5. CASE WorkerEscapes(s, path)
  <2>1. escapes' = escapes + 1
    BY <1>5 DEF WorkerEscapes
  <2> QED BY <1>1, <1>2, <1>3, <2>1 DEF ChoiceInv, LeaseInv
<1> QED BY <1>4, <1>5

LEMMA ChoiceNext == IInv /\ ChoiceInv /\ [Next]_vars => ChoiceInv'
<1> SUFFICES ASSUME IInv, ChoiceInv, [Next]_vars PROVE ChoiceInv'
  OBVIOUS
<1>1. CASE Launch
  BY <1>1, ChoiceStays DEF Launch, LaunchWrite, LaunchFails, LaunchStart, LaunchRecord, supVars, workVars
<1>2. CASE Supervise
  <2>1. CASE BeginWave
    BY <2>1, BeginWaveChooses
  <2>2. CASE SupLoad \/ SupLoadFails \/ Announce \/ Settle \/ Finish
    BY <2>2, ChoiceStays DEF SupLoad, SupLoadFails, Announce, Settle, Finish, launchVars, workVars
  <2>3. ASSUME NEW s \in Steps, StartWorker(s) PROVE ChoiceInv'
    BY <2>3, ChoiceStays DEF StartWorker, launchVars, supVars
  <2> QED BY <1>2, <2>1, <2>2, <2>3 DEF Supervise
<1>3. CASE Work
  <2>1. ASSUME NEW s \in Steps, WorkerEnds(s) PROVE ChoiceInv'
    BY <2>1, ChoiceStays DEF WorkerEnds, launchVars, supVars
  <2> QED BY <1>3, <2>1, WorkChooses DEF Work
<1>4. CASE UNCHANGED vars
  BY <1>4, ChoiceStays DEF vars, launchVars, supVars, workVars
<1> QED BY <1>1, <1>2, <1>3, <1>4 DEF Next

LEMMA ChoiceInvariance == Spec => []ChoiceInv
<1>1. Init => ChoiceInv
  BY ChoiceInit
<1>2. IInv /\ ChoiceInv /\ [Next]_vars => ChoiceInv'
  BY ChoiceNext
<1> QED BY <1>1, <1>2, Invariance, PTL DEF Spec

(* workflow_schedule.go: a worker is started when every step it depends on *)
(* has succeeded, however the waves before it went.                        *)
THEOREM DependenciesAreFirst == Spec => []DependenciesFirst
<1>1. IInv /\ ChoiceInv => DependenciesFirst
  <2> SUFFICES ASSUME IInv, ChoiceInv, NEW s \in Steps, child[s] # "none", NEW d \in plan.deps[s]
               PROVE  mem.step[d] = "done"
    BY DEF DependenciesFirst
  <2>1. s \in batch /\ ~failed
    BY DEF IInv, WaveInv, FlagInv
  <2>2. d \in Past
    BY <2>1 DEF ChoiceInv, ReadyInv
  <2> QED BY <2>1, <2>2 DEF IInv, SettledInv, Settled
<1> QED BY <1>1, Invariance, ChoiceInvariance, PTL

(* workflow_lease.go: as long as no write gets past the lease hook, no two *)
(* workers of a wave change the same file.  No declaration may have a star *)
(* inside a name: with one the schedule lets two steps share files.        *)
THEOREM NoFileIsShared ==
  ASSUME NEW Name, Paths \subseteq Seq(Name),
         \A m \in Manifests : \A s \in Steps : WholeNames(Name, m.writes[s])
  PROVE  Spec => []NoSharedWrites
<1>1. IInv /\ ChoiceInv => NoSharedWrites
  <2> SUFFICES ASSUME IInv, ChoiceInv, escapes = 0, NEW s \in Steps, NEW t \in Steps,
                      s # t, t \in wave[s], NEW path \in wrote[s] \cap wrote[t]
               PROVE  FALSE
    BY DEF NoSharedWrites
  <2>1. /\ plan.parallel /\ path \in Seq(Name)
        /\ LeaseAllows(plan.writes[s], path) /\ LeaseAllows(plan.writes[t], path)
    BY DEF ChoiceInv, LeaseInv
  <2>2. WholeNames(Name, plan.writes[s]) /\ WholeNames(Name, plan.writes[t])
    BY DEF ChoiceInv, ReadyInv
  <2>3. workflowWritesOverlap(plan.writes[s], plan.writes[t])
    BY <2>1, <2>2, SharedFileOverlaps
  <2> QED BY <2>1, <2>3 DEF ChoiceInv, ApartInv
<1> QED BY <1>1, Invariance, ChoiceInvariance, PTL

-----------------------------------------------------------------------------
(* The refinement of PlanExecution.  What the abstract run says of the     *)
(* status of its tasks, the supervisor keeps in three places, its copy of  *)
(* the manifest, its wave and its flag.                                    *)
ViewInv ==
  /\ batch \subseteq Steps
  /\ \A s \in Steps : s \in batch <=> mem.step[s] = "running"
  /\ \A s \in Steps : wave[s] = {} <=> mem.step[s] = "pending"
  /\ sup # "ended" => Outcome(mem) = "none" /\ Outcome(disk) = "none"
  /\ failed => \E s \in Steps : mem.step[s] # "done"
  /\ \A s \in Steps : wrote[s] \subseteq Paths

LEMMA ViewInit == Init => ViewInv
BY DEF Init, ViewInv, Absent, Outcome

(* Only the outcome and the results of the steps matter of a manifest.     *)
LEMMA OutcomeSame ==
  ASSUME NEW m, NEW l, l.state = m.state
  PROVE  Outcome(l) = Outcome(m)
BY DEF Outcome

(* A step that changes no wave and no result.                              *)
LEMMA ViewStays ==
  ASSUME IInv, ViewInv, UNCHANGED <<batch, wave, failed>>, mem'.step = mem.step,
         sup' # "ended" => /\ sup # "ended"
                           /\ Outcome(mem') = "none" /\ Outcome(disk') = "none",
         \A s \in Steps : wrote'[s] \subseteq Paths
  PROVE  ViewInv'
BY DEF ViewInv, Outcome

(* What a settled wave leaves behind.                                      *)
LEMMA SettlesBatch ==
  ASSUME IInv, batch \subseteq Steps, Settle
  PROVE  \E good \in SUBSET batch, passes \in SUBSET (Gated \cap batch) :
           /\ mem'.state = mem.state
           /\ mem'.step = [s \in Steps |-> IF s \in good THEN "done"
                                           ELSE IF s \in batch THEN "failed"
                                           ELSE mem.step[s]]
           /\ failed' = (\E s \in batch : s \notin good)
           /\ passed' = passed \cup passes
           /\ good \cap Gated \subseteq passes
           /\ good \cup passes # {} => ~plan.parallel \/ ~Undeclared(plan, batch)
           /\ disk' = disk \/ disk' = mem'
<1>2. PICK walkFails \in BOOLEAN, passes \in SUBSET (Gated \cap batch) :
       LET violation == plan.parallel /\ (walkFails \/ Undeclared(plan, batch))
           result == [s \in Steps |-> IF s \in batch THEN StepResult(s, violation, passes)
                                                     ELSE mem.step[s]]
           gated == {s \in Gated \cap batch : child[s] # "err" /\ ~violation}
       IN
       /\ passes \subseteq gated
       /\ mem' = [mem EXCEPT !.step = result,
                             !.verify = IF gated \ passes # {} THEN "failed" ELSE @]
       /\ failed' = FailsRun(result, violation)
       /\ passed' = passed \cup passes
       /\ IF walkFails THEN plan.parallel /\ Fault /\ disk' = mem' ELSE Save(mem')
  BY DEF Settle
<1> DEFINE violation == plan.parallel /\ (walkFails \/ Undeclared(plan, batch))
           result == [s \in Steps |-> IF s \in batch THEN StepResult(s, violation, passes)
                                                     ELSE mem.step[s]]
           gated == {s \in Gated \cap batch : child[s] # "err" /\ ~violation}
           good == {s \in batch : s \in Steps /\ StepResult(s, violation, passes) = "done"}
<1>3. /\ mem' = [mem EXCEPT !.step = result,
                            !.verify = IF gated \ passes # {} THEN "failed" ELSE @]
      /\ failed' = FailsRun(result, violation)
      /\ passed' = passed \cup passes
      /\ disk' = mem' \/ disk' = disk
      /\ passes \subseteq gated
  BY <1>2 DEF Save
<1>4. \A s \in batch : StepResult(s, violation, passes) \in {"done", "failed"}
  BY DEF StepResult
<1>5. result = [s \in Steps |-> IF s \in good THEN "done"
                                ELSE IF s \in batch THEN "failed"
                                ELSE mem.step[s]]
  BY <1>4
<1>6. good \cap Gated \subseteq passes
  BY DEF StepResult
<1>7. good \cup passes # {} => ~violation
  BY <1>3 DEF StepResult
<1>8. ~violation => ~plan.parallel \/ ~Undeclared(plan, batch)
  OBVIOUS
<1>9. FailsRun(result, violation) = (\E s \in batch : s \notin good)
  <2>1. \A s \in batch : result[s] = IF s \in good THEN "done" ELSE "failed"
    BY <1>5
  <2> QED BY <2>1 DEF FailsRun
<1>10. result \in [Steps -> {"pending", "running", "done", "failed"}]
  BY <1>4 DEF IInv, TypeInv, RunManifest
<1> HIDE DEF violation, result, gated, good
<1>11. mem'.state = mem.state /\ mem'.step = result
  BY <1>3, <1>10 DEF IInv, TypeInv, RunManifest
<1>12. good \in SUBSET batch
  BY DEF good
<1> QED BY <1>3, <1>5, <1>6, <1>7, <1>8, <1>9, <1>11, <1>12

LEMMA ViewBeginWave == IInv /\ ViewInv /\ BeginWave => ViewInv'
<1> SUFFICES ASSUME IInv, ViewInv, BeginWave PROVE ViewInv'
  OBVIOUS
<1> DEFINE next == NextBatch(plan, Past)
<1>1. /\ sup = "wave" /\ ~failed /\ batch = {} /\ Past # Steps
      /\ Outcome(mem) = "none" /\ Outcome(disk) = "none"
      /\ UNCHANGED <<disk, wrote>>
  BY DEF IInv, WaveInv, ViewInv, BeginWave
<1>2. CASE failed' = TRUE /\ UNCHANGED <<sup, batch, mem, wave, child>>
  <2>1. PICK s \in Steps : wave[s] = {}
    BY <1>1 DEF Past
  <2>2. mem.step[s] # "done"
    BY <2>1 DEF ViewInv
  <2> QED BY <1>1, <1>2, <2>2 DEF ViewInv, Outcome
<1>3. CASE ~(failed' = TRUE /\ UNCHANGED <<sup, batch, mem, wave, child>>)
  <2>1. /\ batch' = next /\ failed' = failed
        /\ mem' = [mem EXCEPT !.step = [s \in Steps |-> IF s \in next THEN "running" ELSE @[s]]]
        /\ wave' = [s \in Steps |-> IF s \in next THEN next ELSE wave[s]]
    BY <1>3 DEF BeginWave
  <2>2. next \subseteq Steps \ Past
    BY NextBatchSound
  <2> HIDE DEF next
  <2>3. /\ mem'.state = mem.state
        /\ \A s \in Steps : mem'.step[s] = IF s \in next THEN "running" ELSE mem.step[s]
    BY <2>1 DEF IInv, TypeInv, RunManifest
  <2>4. \A s \in Steps : s \in batch' <=> mem'.step[s] = "running"
    BY <1>1, <2>1, <2>3 DEF ViewInv
  <2>5. \A s \in Steps : wave'[s] = {} <=> mem'.step[s] = "pending"
    BY <2>1, <2>3 DEF ViewInv
  <2>6. Outcome(mem') = "none"
    BY <1>1, <2>3 DEF Outcome
  <2> QED BY <1>1, <2>1, <2>2, <2>4, <2>5, <2>6 DEF ViewInv, Outcome
<1> QED BY <1>2, <1>3

LEMMA ViewSettle == IInv /\ ViewInv /\ Settle => ViewInv'
<1> SUFFICES ASSUME IInv, ViewInv, Settle PROVE ViewInv'
  OBVIOUS
<1>1. batch \subseteq Steps
  BY DEF ViewInv
<1>2. PICK good \in SUBSET batch, passes \in SUBSET (Gated \cap batch) :
           /\ mem'.state = mem.state
           /\ mem'.step = [s \in Steps |-> IF s \in good THEN "done"
                                           ELSE IF s \in batch THEN "failed"
                                           ELSE mem.step[s]]
           /\ failed' = (\E s \in batch : s \notin good)
           /\ disk' = disk \/ disk' = mem'
  BY <1>1, SettlesBatch
<1>3. /\ sup = "run" /\ batch' = {} /\ UNCHANGED <<wave, wrote>>
  BY DEF Settle
<1>4. \A s \in Steps : mem'.step[s] = IF s \in good THEN "done"
                                      ELSE IF s \in batch THEN "failed" ELSE mem.step[s]
  BY <1>2
<1>5. \A s \in Steps : mem'.step[s] # "running" /\ (wave'[s] = {} <=> mem'.step[s] = "pending")
  <2>1. \A s \in batch : wave[s] # {}
    BY <1>1 DEF IInv, WaveInv
  <2> QED BY <1>3, <1>4, <2>1 DEF ViewInv
<1>6. failed' => \E s \in Steps : mem'.step[s] # "done"
  BY <1>1, <1>2, <1>4
<1>7. Outcome(mem') = "none" /\ Outcome(disk') = "none"
  BY <1>2, <1>3 DEF ViewInv, Outcome
<1> QED BY <1>3, <1>5, <1>6, <1>7 DEF ViewInv, Outcome

LEMMA ViewNext == IInv /\ ViewInv /\ [Next]_vars => ViewInv'
<1> SUFFICES ASSUME IInv, ViewInv, [Next]_vars PROVE ViewInv'
  OBVIOUS
<1> USE DEF launchVars, supVars, workVars
<1>1. CASE Launch
  <2>1. UNCHANGED <<mem, batch, wave, failed, wrote>> /\ sup' \in {sup, "load"}
    BY <1>1 DEF Launch, LaunchWrite, LaunchFails, LaunchStart, LaunchRecord
  <2>2. sup' = "ended" => sup = "ended"
    BY <2>1
  <2>3. sup' = sup \/ sup # "ended"
    BY <1>1 DEF Launch, LaunchWrite, LaunchFails, LaunchStart, LaunchRecord, IInv, StartInv
  <2>4. disk' = disk \/ Outcome(disk') = "none"
    BY <1>1 DEF Launch, LaunchWrite, LaunchFails, LaunchStart, LaunchRecord, Save, Submitted, Absent, Outcome
  <2> QED BY <2>1, <2>2, <2>3, <2>4, ViewStays DEF ViewInv
<1>2. CASE SupLoad
  <2>1. /\ sup = "load" /\ UNCHANGED <<batch, wave, failed, wrote>>
        /\ mem' = [disk EXCEPT !.claimed = TRUE] /\ disk' \in {disk, mem'}
    BY <1>2 DEF SupLoad, Save
  <2>2. mem'.state = disk.state /\ mem'.step = disk.step
    BY <2>1 DEF IInv, TypeInv, RunManifest
  <2>3. batch = {} /\ \A s \in Steps : disk.step[s] = "pending" /\ wave[s] = {}
    BY <2>1 DEF IInv, WaveInv, EndInv
  <2>4. ~failed /\ Outcome(disk) = "none"
    BY <2>1 DEF IInv, FlagInv, ViewInv
  <2> QED BY <2>1, <2>2, <2>3, <2>4 DEF ViewInv, Outcome
<1>3. CASE SupLoadFails \/ Announce \/ (\E s \in Steps : StartWorker(s)) \/ UNCHANGED vars
  <2>1. UNCHANGED <<mem, batch, wave, failed, wrote>> /\ disk' \in {disk, mem}
    BY <1>3 DEF SupLoadFails, Announce, StartWorker, Save, vars
  <2>2. sup' # "ended" => sup # "ended"
    BY <1>3 DEF SupLoadFails, Announce, StartWorker, vars
  <2> QED BY <2>1, <2>2, ViewStays DEF ViewInv
<1>4. CASE BeginWave
  BY <1>4, ViewBeginWave
<1>5. CASE Settle
  BY <1>5, ViewSettle
<1>6. CASE Finish
  <2>1. sup' = "ended" /\ UNCHANGED <<batch, wave, failed, wrote>>
    BY <1>6 DEF Finish
  <2>2. mem'.step = mem.step
    BY <1>6 DEF Finish, IInv, TypeInv, RunManifest
  <2> QED BY <2>1, <2>2, ViewStays DEF ViewInv
<1>7. CASE Work
  <2>1. UNCHANGED <<mem, disk, sup, batch, wave, failed>>
    BY <1>7 DEF Work, WorkerEnds, WorkerWrites, WorkerEscapes
  <2>2. \A s \in Steps : wrote'[s] \subseteq Paths
    BY <1>7 DEF Work, WorkerEnds, WorkerWrites, WorkerEscapes, ViewInv, IInv, TypeInv
  <2> QED BY <2>1, <2>2, ViewStays DEF ViewInv
<1> QED BY <1>1, <1>2, <1>3, <1>4, <1>5, <1>6, <1>7 DEF Next, Supervise

(* The plan never changes, so neither do the orders it gives.              *)
LEMMA GivenStays == [Next]_vars => UNCHANGED PX!given
<1> SUFFICES ASSUME [Next]_vars PROVE UNCHANGED PX!given
  OBVIOUS
<1>1. plan' = plan
  BY DEF Next, Launch, LaunchWrite, LaunchFails, LaunchStart, LaunchRecord,
         Supervise, SupLoad, SupLoadFails, BeginWave, Announce, Settle, Finish, StartWorker,
         Work, WorkerEnds, WorkerWrites, WorkerEscapes, vars, launchVars
<1> QED BY <1>1 DEF PX!given, Covered, SideBySide

(* The manifest is left alone or brought up to date.                       *)
LEMMA Shows ==
  ASSUME disk' = disk \/ disk' = mem', launcher' # "gone" => launcher # "gone"
  PROVE  PX!Show
BY DEF PX!Show, PX!Now, Outcome

(* A step of the supervisor or a worker is whatever it is to the plan.     *)
LEMMA ActRefines ==
  ASSUME UNCHANGED PX!given, disk' = disk \/ disk' = mem', launcher' = launcher,
         \/ \E B \in SUBSET Steps : PX!Begin(B)
         \/ \E s \in Steps, path \in Paths : PX!Change(s, path)
         \/ \E good, passes \in SUBSET Steps : PX!Settle(good, passes)
         \/ PX!Conclude
         \/ UNCHANGED PX!work
  PROVE  PX!AbsNext
BY Shows DEF PX!AbsNext

LEMMA WorkSame ==
  ASSUME mem'.step = mem.step, Outcome(mem') = Outcome(mem), UNCHANGED <<wrote, passed>>
  PROVE  UNCHANGED PX!work
BY DEF PX!work, Outcome

(* A wave is a batch of ready tasks that may run side by side.             *)
LEMMA BeginWaveRefines ==
  ASSUME IInv, ChoiceInv, ViewInv, BeginWave
  PROVE  (\E B \in SUBSET Steps : PX!Begin(B)) \/ UNCHANGED PX!work
<1> DEFINE next == NextBatch(plan, Past)
<1>1. /\ sup = "wave" /\ ~failed /\ batch = {} /\ Outcome(mem) = "none"
      /\ UNCHANGED <<wrote, passed>>
  BY DEF IInv, WaveInv, ViewInv, BeginWave
<1>2. CASE mem' = mem
  BY <1>1, <1>2, WorkSame
<1>3. CASE mem' = [mem EXCEPT !.step = [s \in Steps |-> IF s \in next THEN "running" ELSE @[s]]]
  <2>1. /\ next \subseteq Steps \ Past
        /\ IF plan.parallel
           THEN \A s \in next :
                  /\ plan.deps[s] \subseteq Past
                  /\ \A t \in next : s # t => ~workflowWritesOverlap(plan.writes[s], plan.writes[t])
           ELSE \A s \in next : next = {s} /\ 1..(s - 1) \subseteq Past
    BY NextBatchSound
  <2>2. Valid(plan)
    BY RunAssumption DEF ChoiceInv, ReadyInv
  <2> HIDE DEF next
  <2>3. /\ mem'.state = mem.state
        /\ mem'.step = [s \in Steps |-> IF s \in next THEN "running" ELSE mem.step[s]]
    BY <1>3 DEF IInv, TypeInv, RunManifest
  <2>4. PX!In("running") = {} /\ PX!In("failed") = {}
    BY <1>1 DEF PX!In, ViewInv, IInv, FlagInv
  <2>5. next \subseteq PX!In("pending")
    BY <1>1, <2>1 DEF PX!In, ViewInv, Past
  <2>6. Past \subseteq PX!In("done")
    BY <1>1 DEF PX!In, IInv, SettledInv, Settled, Past
  <2>7. \A t \in next : plan.deps[t] \subseteq PX!In("done")
    <3>1. \A t \in next : plan.deps[t] \subseteq Past
      BY <2>1, <2>2 DEF Valid
    <3> QED BY <2>6, <3>1
  <2>8. \A t, u \in next : t # u => SideBySide(t, u)
    BY <2>1 DEF SideBySide
  <2>9. PX!Begin(next)
    <3>1. \A t \in next : [s \in Steps |-> plan.deps[s]][t] \subseteq PX!In("done")
      BY <2>1, <2>7
    <3>2. \A t, u \in next : t # u =>
            <<t, u>> \notin {p \in Steps \X Steps : ~SideBySide(p[1], p[2])}
      BY <2>8
    <3>3. UNCHANGED <<wrote, passed>> /\ Outcome(mem') = Outcome(mem)
      BY <1>1, <2>3 DEF Outcome
    <3> QED BY <1>1, <2>3, <2>4, <2>5, <3>1, <3>2, <3>3 DEF PX!Begin, Outcome
  <2> QED BY <2>1, <2>9
<1> QED BY <1>2, <1>3 DEF BeginWave

(* The supervisor's comparison of trees and its gates judge the batch.     *)
LEMMA SettleRefines ==
  ASSUME IInv, ViewInv, Settle
  PROVE  \E good, passes \in SUBSET Steps : PX!Settle(good, passes)
<1>1. batch \subseteq Steps /\ PX!In("running") = batch
  BY DEF ViewInv, PX!In
<1>2. PICK good \in SUBSET batch, passes \in SUBSET (Gated \cap batch) :
           /\ mem'.state = mem.state
           /\ mem'.step = [s \in Steps |-> IF s \in good THEN "done"
                                           ELSE IF s \in batch THEN "failed"
                                           ELSE mem.step[s]]
           /\ passed' = passed \cup passes
           /\ good \cap Gated \subseteq passes
           /\ good \cup passes # {} => ~plan.parallel \/ ~Undeclared(plan, batch)
  BY <1>1, SettlesBatch
<1>3. UNCHANGED wrote /\ Outcome(mem') = Outcome(mem)
  BY <1>2 DEF Settle, Outcome
<1>4. mem'.step = [s \in Steps |-> IF s \in good THEN "done"
                                   ELSE IF mem.step[s] = "running" THEN "failed"
                                   ELSE mem.step[s]]
  <2>1. \A s \in Steps : s \in batch <=> mem.step[s] = "running"
    BY DEF ViewInv
  <2> QED BY <1>2, <2>1
<1>5. good \cup passes # {} => PX!Clean
  <2> SUFFICES ASSUME ~plan.parallel \/ ~Undeclared(plan, batch),
                      NEW s \in batch, NEW path \in wrote[s]
               PROVE  \E t \in batch : path \in Covered(t)
    BY <1>1, <1>2 DEF PX!Clean
  <2>1. path \in Paths
    BY <1>1 DEF ViewInv
  <2>2. plan.parallel => \E t \in batch : Covers(plan.writes[t], path)
    BY DEF Undeclared
  <2> QED BY <2>1, <2>2 DEF Covered
<1>6. PX!Settle(good, passes)
  BY <1>1, <1>2, <1>3, <1>4, <1>5 DEF PX!Settle, Outcome
<1> QED BY <1>1, <1>2, <1>6

(* The supervisor's flag tells whether every step is done.                 *)
LEMMA FinishRefines ==
  ASSUME IInv, ViewInv, Finish
  PROVE  PX!Conclude
<1>1. /\ sup = "wave" /\ batch = {} /\ Outcome(mem) = "none" /\ Stops
      /\ UNCHANGED <<wrote, passed>>
  BY DEF IInv, WaveInv, ViewInv, Finish, workVars
<1>2. mem'.step = mem.step /\ Outcome(mem') = IF failed THEN "failed" ELSE "done"
  BY DEF IInv, TypeInv, RunManifest, Finish, Outcome
<1>3. PX!In("running") = {}
  BY <1>1 DEF PX!In, ViewInv
<1>4. PX!In("done") = Steps <=> ~failed
  <2>1. CASE failed
    BY <2>1 DEF PX!In, ViewInv
  <2>2. CASE ~failed
    BY <1>1, <2>2 DEF PX!In, Stops, IInv, SettledInv, Settled
  <2> QED BY <2>1, <2>2
<1> QED BY <1>1, <1>2, <1>3, <1>4 DEF PX!Conclude, Outcome

(* A worker that changes a file is a worker of the wave under way.         *)
LEMMA WorkRefines ==
  ASSUME IInv, ViewInv, Work
  PROVE  (\E s \in Steps, path \in Paths : PX!Change(s, path)) \/ UNCHANGED PX!work
<1>1. UNCHANGED <<mem, passed>>
  BY DEF Work, WorkerEnds, WorkerWrites, WorkerEscapes, supVars
<1>2. CASE wrote' = wrote
  BY <1>1, <1>2, WorkSame
<1>3. ASSUME NEW s \in Steps, NEW path \in Paths, WorkerWrites(s, path) \/ WorkerEscapes(s, path)
      PROVE  PX!Change(s, path)
  <2>1. child[s] = "alive" /\ wrote' = [wrote EXCEPT ![s] = @ \cup {path}]
    BY <1>3 DEF WorkerWrites, WorkerEscapes
  <2>2. mem.step[s] = "running"
    BY <2>1 DEF IInv, WaveInv, ViewInv
  <2> QED BY <1>1, <2>1, <2>2 DEF PX!Change, Outcome
<1> QED BY <1>2, <1>3 DEF Work, WorkerEnds

(* The launcher writes the submitted run, at the end for the last time.    *)
LEMMA LaunchRefines ==
  ASSUME IInv, ViewInv, Launch, UNCHANGED PX!given
  PROVE  PX!AbsNext
<1>1. UNCHANGED PX!work
  <2>1. UNCHANGED <<mem, wrote, passed>>
    BY DEF Launch, LaunchWrite, LaunchFails, LaunchStart, LaunchRecord, supVars, workVars
  <2> QED BY <2>1, WorkSame
<1>2. \A b \in BOOLEAN : LET m == [Submitted EXCEPT !.claimed = b] IN
        Outcome(m) = "none" /\ m.step = [s \in Steps |-> "pending"]
  BY DEF Submitted, Absent, Outcome
<1>3. PX!Show
  <2>1. CASE disk' = disk
    BY <2>1, Shows DEF Launch, LaunchWrite, LaunchFails, LaunchStart, LaunchRecord
  <2>2. CASE LaunchWrite
    <3>1. sup = "none" /\ disk' = Submitted /\ UNCHANGED mem
      BY <2>2 DEF LaunchWrite, IInv, StartInv, supVars
    <3>2. Outcome(disk) = "none" /\ disk.step = [s \in Steps |-> "pending"]
      BY <3>1 DEF ViewInv, IInv, TypeInv, EndInv, RunManifest
    <3>3. Outcome(disk') = "none" /\ disk'.step = [s \in Steps |-> "pending"]
      BY <3>1 DEF Submitted, Absent, Outcome
    <3> QED BY <2>2, <3>2, <3>3 DEF PX!Show, LaunchWrite, Outcome
  <2>3. CASE LaunchRecord /\ disk' # disk
    <3>1. disk' = [Submitted EXCEPT !.claimed = TRUE]
      BY <2>3 DEF LaunchRecord, Save
    <3>2. Outcome(disk') = "none" /\ disk'.step = [s \in Steps |-> "pending"]
      BY <1>2, <3>1
    <3> QED BY <2>3, <3>2 DEF PX!Show, PX!Fresh, LaunchRecord, Outcome
  <2> QED BY <2>1, <2>2, <2>3 DEF Launch, LaunchFails, LaunchStart
<1> QED BY <1>1, <1>3 DEF PX!AbsNext

(* Every step of the processes is a step of the plan or a stutter.         *)
LEMMA StepRefines ==
  IInv /\ ChoiceInv /\ ViewInv /\ [Next]_vars => [PX!AbsNext]_(PX!absVars)
<1> SUFFICES ASSUME IInv, ChoiceInv, ViewInv, [Next]_vars
             PROVE  PX!AbsNext \/ UNCHANGED PX!absVars
  OBVIOUS
<1> USE DEF launchVars, supVars, workVars
<1>0. UNCHANGED PX!given
  BY GivenStays
<1>1. CASE Launch
  BY <1>0, <1>1, LaunchRefines
<1>2. CASE SupLoad
  <2>1. /\ sup = "load" /\ UNCHANGED <<launcher, wrote, passed>>
        /\ mem' = [disk EXCEPT !.claimed = TRUE] /\ disk' \in {disk, mem'}
    BY <1>2 DEF SupLoad, Save
  <2>2. mem'.state = disk.state /\ mem'.step = disk.step
    BY <2>1 DEF IInv, TypeInv, RunManifest
  <2>3. \A s \in Steps : disk.step[s] = "pending" /\ mem.step[s] = "pending"
    BY <2>1 DEF IInv, EndInv, ViewInv
  <2>4. mem'.step = mem.step
    BY <2>2, <2>3 DEF IInv, TypeInv, RunManifest
  <2>5. Outcome(mem') = Outcome(mem)
    BY <2>1, <2>2 DEF ViewInv, Outcome
  <2> QED BY <1>0, <2>1, <2>4, <2>5, WorkSame, ActRefines
<1>3. CASE SupLoadFails \/ Announce \/ (\E s \in Steps : StartWorker(s))
  <2>1. UNCHANGED <<launcher, mem, wrote, passed>> /\ disk' \in {disk, mem}
    BY <1>3 DEF SupLoadFails, Announce, StartWorker, Save
  <2> QED BY <1>0, <2>1, WorkSame, ActRefines
<1>4. CASE BeginWave
  BY <1>0, <1>4, BeginWaveRefines, ActRefines DEF BeginWave
<1>5. CASE Settle
  <2>1. launcher' = launcher /\ (disk' = disk \/ disk' = mem')
    BY <1>5 DEF Settle, Save
  <2> QED BY <1>0, <1>5, <2>1, SettleRefines, ActRefines
<1>6. CASE Finish
  <2>1. launcher' = launcher /\ (disk' = disk \/ disk' = mem')
    BY <1>6 DEF Finish, Save
  <2> QED BY <1>0, <1>6, <2>1, FinishRefines, ActRefines
<1>7. CASE Work
  <2>1. UNCHANGED <<launcher, disk>>
    BY <1>7 DEF Work, WorkerEnds, WorkerWrites, WorkerEscapes
  <2> QED BY <1>0, <1>7, <2>1, WorkRefines, ActRefines
<1>8. CASE UNCHANGED vars
  <2>1. UNCHANGED <<launcher, disk, mem, wrote, passed>>
    BY <1>8 DEF vars
  <2> QED BY <1>0, <2>1, WorkSame, ActRefines
<1> QED BY <1>1, <1>2, <1>3, <1>4, <1>5, <1>6, <1>7, <1>8 DEF Next, Supervise

(* The launcher, the supervisor and the workers of a detached run do what  *)
(* the run of a workflow promises, for every valid manifest and any number *)
(* of steps, gates, lost writes and failing tree walks (cmd_workflow.go).  *)
THEOREM Refinement == Spec => ImplementsExecution
<1>1. Init => PX!AbsInit
  <2> SUFFICES ASSUME Init PROVE PX!AbsInit
    OBVIOUS
  <2>1. plan \in Manifests /\ Valid(plan)
    BY RunAssumption DEF Init
  <2>2. \A s \in Steps : plan.deps[s] \in SUBSET Steps
    <3>1. \A s \in 1..N : 1..(s - 1) \subseteq 1..N
      BY NAssumption
    <3> QED BY <2>1, <3>1 DEF Valid, Steps
  <2>3. [s \in Steps |-> plan.deps[s]] \in [Steps -> SUBSET Steps]
    BY <2>2
  <2>4. {p \in Steps \X Steps : ~SideBySide(p[1], p[2])} \subseteq Steps \X Steps
    OBVIOUS
  <2>5. [s \in Steps |-> Covered(s)] \in [Steps -> SUBSET Paths]
    BY DEF Covered
  <2>6. Outcome(mem) = "none" /\ Outcome(disk) = "none"
    BY DEF Init, Absent, Outcome
  <2> QED BY <2>3, <2>4, <2>5, <2>6 DEF Init, Absent, PX!AbsInit, PX!Fresh
<1>2. Init => ViewInv
  BY ViewInit
<1>3. IInv /\ ViewInv /\ [Next]_vars => ViewInv'
  BY ViewNext
<1> QED BY <1>1, <1>2, <1>3, StepRefines, Invariance, ChoiceInvariance, PTL
        DEF Spec, ImplementsExecution, PX!AbsSpec
=============================================================================
