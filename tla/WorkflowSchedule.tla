-------------------------- MODULE WorkflowSchedule --------------------------
(***************************************************************************)
(* Loading a manifest and computing its waves (loadWorkflowManifest,       *)
(* workflowBatches), for every manifest over the given write declarations: *)
(* one step per check and one per wave.                                    *)
(***************************************************************************)
EXTENDS WorkflowPlan, FiniteSets

CONSTANT WriteSets   \* the write declarations steps choose from

VARIABLES manifest, phase, batches
vars == <<manifest, phase, batches>>

Init ==
  /\ manifest \in Manifest(WriteSets)
  /\ phase = "load"
  /\ batches = <<>>

Scheduled == UNION ToSet(batches)

Load ==
  /\ phase = "load"
  /\ phase' = IF Valid(manifest) THEN "plan" ELSE "rejected"
  /\ UNCHANGED <<manifest, batches>>

Wave ==
  LET batch == NextBatch(manifest, Scheduled) IN
  /\ phase = "plan"
  /\ IF Scheduled = Steps
     THEN phase' = "planned" /\ UNCHANGED batches
     ELSE IF batch = {}
     THEN phase' = "deadlock" /\ UNCHANGED batches
     ELSE phase' = "plan" /\ batches' = Append(batches, batch)
  /\ UNCHANGED manifest

Next == Load \/ Wave

Spec == Init /\ [][Next]_vars

-----------------------------------------------------------------------------

(* Two steps that run together cannot write the same file: no path is      *)
(* within the leases of both ("concurrency is allowed only when ProjX can  *)
(* prove two declarations are disjoint", workflow_schedule.go:87-88).      *)
WavesAreDisjoint ==
  manifest.parallel =>
    \A k \in DOMAIN batches : \A s, t \in batches[k] :
      s # t => \A path \in Paths :
        ~(LeaseAllows(manifest.writes[s], path) /\ LeaseAllows(manifest.writes[t], path))

=============================================================================
