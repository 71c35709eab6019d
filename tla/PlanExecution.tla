---------------------------- MODULE PlanExecution ----------------------------
(***************************************************************************)
(* What the run of a workflow promises its author and whoever reads its    *)
(* manifest, whatever processes it is made of: the steps are executed in   *)
(* batches of steps that are ready and may run side by side; a batch is    *)
(* judged as a whole when all its steps have ended; after a failure there  *)
(* is no further batch; and the verdict is "done" exactly when every step  *)
(* is done.                                                                *)
(*                                                                         *)
(* What the manifest shows lags behind, and may fall back once to the      *)
(* submitted run, when the launcher writes the copy it made at the start.  *)
(***************************************************************************)
CONSTANTS
  Tasks,   \* the steps of the workflow
  Gated,   \* the tasks with a gate
  Files    \* what tasks change

VARIABLES
  after,     \* after[t]: the tasks that must be done before t starts
  rivals,    \* pairs of tasks that may not run at the same time
  declared,  \* declared[t]: the files t may change
  status,    \* status[t]: where the task is
  changed,   \* changed[t]: the files it changed
  passed,    \* the tasks whose gate passed
  verdict,   \* what the run concluded, "none" until it did
  shown,     \* what the manifest shows of verdict and status
  late       \* whether the launcher may still write

given == <<after, rivals, declared>>
work == <<status, changed, passed, verdict>>
absVars == <<given, work, shown, late>>

In(state) == {t \in Tasks : status[t] = state}

Now == [verdict |-> verdict, status |-> status]
Fresh == [verdict |-> "none", status |-> [t \in Tasks |-> "pending"]]

AbsInit ==
  /\ after \in [Tasks -> SUBSET Tasks]
  /\ rivals \subseteq Tasks \X Tasks
  /\ declared \in [Tasks -> SUBSET Files]
  /\ status = [t \in Tasks |-> "pending"]
  /\ changed = [t \in Tasks |-> {}]
  /\ passed = {}
  /\ verdict = "none"
  /\ shown = Fresh
  /\ late = TRUE

Begin(batch) ==
  /\ verdict = "none" /\ In("running") = {} /\ In("failed") = {}
  /\ batch \subseteq In("pending")
  /\ \A t \in batch : after[t] \subseteq In("done")
  /\ \A t, u \in batch : t # u => <<t, u>> \notin rivals
  /\ status' = [t \in Tasks |-> IF t \in batch THEN "running" ELSE status[t]]
  /\ UNCHANGED <<changed, passed, verdict>>

Change(t, file) ==
  /\ status[t] = "running"
  /\ changed' = [changed EXCEPT ![t] = @ \cup {file}]
  /\ UNCHANGED <<status, passed, verdict>>

(* Nothing was changed but what the batch declared. *)
Clean ==
  \A t \in In("running") : changed[t] \subseteq UNION {declared[u] : u \in In("running")}

(* One undeclared file fails the whole batch, before any gate. *)
Settle(good, passes) ==
  /\ good \subseteq In("running") /\ passes \subseteq In("running") \cap Gated
  /\ good \cup passes # {} => Clean
  /\ good \cap Gated \subseteq passes
  /\ status' = [t \in Tasks |-> IF t \in good THEN "done"
                                ELSE IF status[t] = "running" THEN "failed"
                                ELSE status[t]]
  /\ passed' = passed \cup passes
  /\ UNCHANGED <<changed, verdict>>

(* At the end of the batches, after a failure, or when the run gives up    *)
(* between two of them.                                                    *)
Conclude ==
  /\ verdict = "none" /\ In("running") = {}
  /\ verdict' = IF In("done") = Tasks THEN "done" ELSE "failed"
  /\ UNCHANGED <<status, changed, passed>>

(* The manifest stays as it is, follows, or falls back. *)
Show ==
  /\ late' => late
  /\ \/ shown' \in {shown, Now'}
     \/ late /\ ~late' /\ shown' = Fresh

AbsNext ==
  /\ \/ \E batch \in SUBSET Tasks : Begin(batch)
     \/ \E t \in Tasks, file \in Files : Change(t, file)
     \/ \E good, passes \in SUBSET Tasks : Settle(good, passes)
     \/ Conclude
     \/ UNCHANGED work
  /\ Show
  /\ UNCHANGED given

AbsSpec == AbsInit /\ [][AbsNext]_absVars
=============================================================================
