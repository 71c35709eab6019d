------------------------------- MODULE Parts -------------------------------
(***************************************************************************)
(* Ten parts that share no file: each keeps its own under the project or   *)
(* the user's directory, and is asked here the one thing it must never do. *)
(* `part' is the one that runs; the variables of the others stay as they   *)
(* began.                                                                  *)
(***************************************************************************)
EXTENDS WorkflowPlan

CONSTANTS
  Processes, MaxFaults, MaxEdits,   \* of several parts
  \* SessionContext, Reconciliation, ModelCatalog
  Roots, Home, Repos, Records, Cap, Budget, MaxClock, Parallel,
  Subjects, MaxCadences, MaxScans,
  Profiles, Alphabet, MaxRefreshes, MaxTTLs,
  \* AgentLaunch, SecretStore, VerifyLoop
  Workers, Bins, Declared, Languages,
  Codenames, MaxKeys, MaxCommands,
  BoundaryRules, Facts, OffLimits, Systems, MaxIters, Setups,
  \* HookGate, WorkflowSchedule
  GateHooks, Calls, Projects, HomeProject, Targets, MaxChanges, MaxCalls,
  PathNames, WriteSets,
  \* KnowledgeSync, ManagedRuntime
  Machines, Bodies, Ids, Requests, Stamps, MaxWrites, MaxSent, MaxMerges,
  Installers, Cleaners, Versions, FileCount, MaxInstalls

VARIABLES
  part,
  \* SessionContext, Reconciliation, ModelCatalog
  clock, updated, cp, shown, spc, smem, sfaults, sspoiled,
  issues, known, file, tmp, rpc, rmem, passed, ticks, scans, rfaults, rspoiled,
  catalog, config, cpc, cmem, reported, curated, bounds, cspoiled,
  \* AgentLaunch, SecretStore, VerifyLoop
  ctx, jail, made, apc, work, told, ran, afaults, overlapped,
  key, sealed, xpc, job, lacked, acked, keys, runs, xfaults, raced,
  violated, drifted, broken, override, systems, loop, verify, edits, moved,
  \* HookGate, WorkflowSchedule
  rules, mode, authority, grants, gpc, hook, stood, changes, calls,
  manifest, phase, batches,
  \* KnowledgeSync, ManagedRuntime
  store, sent, request, seen, review, kspoiled, writes, merges, kfaults,
  dir, binary, mpc, mjob, temp, stale, active, mraced, mruns, mfaults

Session == INSTANCE SessionContext WITH
  pc <- spc, mem <- smem, faults <- sfaults, spoiled <- sspoiled
Reconcile == INSTANCE Reconciliation WITH
  Procs <- Processes, Records <- Subjects, MaxTicks <- MaxCadences,
  pc <- rpc, mem <- rmem, faults <- rfaults, spoiled <- rspoiled
Catalog == INSTANCE ModelCatalog WITH
  MaxRuns <- MaxRefreshes, MaxTicks <- MaxTTLs,
  pc <- cpc, mem <- cmem, spoiled <- cspoiled
Agent == INSTANCE AgentLaunch WITH pc <- apc, faults <- afaults
Secret == INSTANCE SecretStore WITH
  Procs <- Processes, Names <- Codenames, MaxRuns <- MaxCommands,
  pc <- xpc, faults <- xfaults
Verify == INSTANCE VerifyLoop WITH Rules <- BoundaryRules
Gate == INSTANCE HookGate WITH
  Hooks <- GateHooks, Home <- HomeProject, Names <- Targets, pc <- gpc
Waves == INSTANCE WorkflowSchedule
Sync == INSTANCE KnowledgeSync WITH spoiled <- kspoiled, faults <- kfaults
Runtime == INSTANCE ManagedRuntime WITH
  MaxRuns <- MaxInstalls,
  file <- binary, pc <- mpc, job <- mjob, raced <- mraced, runs <- mruns, faults <- mfaults

ASSUME PartsAssumption ==
  /\ Session!HomeAssumption /\ Catalog!ProfilesAssumption
  /\ Sync!StampsAssumption /\ Runtime!CountAssumption

(* Paths and the stems of write declarations are made of names, and a      *)
(* wildcard is a whole element (its star stands for a name).  The engine   *)
(* does not ask for this; without it two steps of a wave may share a path. *)
WholeElements ==
  /\ Paths \subseteq Seq(PathNames)
  /\ \A w \in WriteSets : \A p \in w : p.form # "names" /\ p.stem \in Seq(PathNames)
-----------------------------------------------------------------------------
sessionVars == <<clock, updated, cp, shown, spc, smem, sfaults, sspoiled>>
reconcileVars == <<issues, known, file, tmp, rpc, rmem, passed, ticks, scans, rfaults, rspoiled>>
catalogVars == <<catalog, config, cpc, cmem, reported, curated, bounds, cspoiled>>
agentVars == <<ctx, jail, made, apc, work, told, ran, afaults, overlapped>>
secretVars == <<key, sealed, xpc, job, lacked, acked, keys, runs, xfaults, raced>>
verifyVars == <<violated, drifted, broken, override, systems, loop, verify, edits, moved>>
gateVars == <<rules, mode, authority, grants, gpc, hook, stood, changes, calls>>
wavesVars == <<manifest, phase, batches>>
syncVars == <<store, sent, request, seen, review, kspoiled, writes, merges, kfaults>>
runtimeVars == <<dir, binary, mpc, mjob, temp, stale, active, mraced, mruns, mfaults>>
vars == <<part, sessionVars, reconcileVars, catalogVars, agentVars, secretVars,
          verifyVars, gateVars, wavesVars, syncVars, runtimeVars>>

Init ==
  /\ part \in {"session", "reconcile", "catalog", "agent", "secret", "verify",
               "gate", "waves", "sync", "runtime"}
  /\ Session!Init /\ Reconcile!Init /\ Catalog!Init
  /\ Agent!Init /\ Secret!Init /\ Gate!Init
  /\ Verify!Init /\ Sync!Init /\ Runtime!Init
  /\ part = "verify" => Verify!setup \in Setups
  /\ part # "verify" => Verify!tree = <<{}, {}, FALSE>> /\ Verify!setup = <<FALSE, {}>>
  /\ IF part = "waves" THEN Waves!Init
     ELSE phase = "load" /\ batches = <<>>
          /\ manifest = [parallel |-> FALSE, deps |-> [s \in Steps |-> {}], writes |-> [s \in Steps |-> {}]]

RunSession ==
  /\ part = "session" /\ Session!Next
  /\ UNCHANGED <<part, reconcileVars, catalogVars, agentVars, secretVars, verifyVars,
                 gateVars, wavesVars, syncVars, runtimeVars>>
RunReconcile ==
  /\ part = "reconcile" /\ Reconcile!Next
  /\ UNCHANGED <<part, sessionVars, catalogVars, agentVars, secretVars, verifyVars,
                 gateVars, wavesVars, syncVars, runtimeVars>>
RunCatalog ==
  /\ part = "catalog" /\ Catalog!Next
  /\ UNCHANGED <<part, sessionVars, reconcileVars, agentVars, secretVars, verifyVars,
                 gateVars, wavesVars, syncVars, runtimeVars>>
RunAgent ==
  /\ part = "agent" /\ Agent!Next
  /\ UNCHANGED <<part, sessionVars, reconcileVars, catalogVars, secretVars, verifyVars,
                 gateVars, wavesVars, syncVars, runtimeVars>>
RunSecret ==
  /\ part = "secret" /\ Secret!Next
  /\ UNCHANGED <<part, sessionVars, reconcileVars, catalogVars, agentVars, verifyVars,
                 gateVars, wavesVars, syncVars, runtimeVars>>
RunVerify ==
  /\ part = "verify" /\ Verify!Next
  /\ UNCHANGED <<part, sessionVars, reconcileVars, catalogVars, agentVars, secretVars,
                 gateVars, wavesVars, syncVars, runtimeVars>>
RunGate ==
  /\ part = "gate" /\ Gate!Next
  /\ UNCHANGED <<part, sessionVars, reconcileVars, catalogVars, agentVars, secretVars,
                 verifyVars, wavesVars, syncVars, runtimeVars>>
RunWaves ==
  /\ part = "waves" /\ Waves!Next
  /\ UNCHANGED <<part, sessionVars, reconcileVars, catalogVars, agentVars, secretVars,
                 verifyVars, gateVars, syncVars, runtimeVars>>
RunSync ==
  /\ part = "sync" /\ Sync!Next
  /\ UNCHANGED <<part, sessionVars, reconcileVars, catalogVars, agentVars, secretVars,
                 verifyVars, gateVars, wavesVars, runtimeVars>>
RunRuntime ==
  /\ part = "runtime" /\ Runtime!Next
  /\ UNCHANGED <<part, sessionVars, reconcileVars, catalogVars, agentVars, secretVars,
                 verifyVars, gateVars, wavesVars, syncVars>>

Next ==
  \/ RunSession \/ RunReconcile \/ RunCatalog \/ RunAgent \/ RunSecret
  \/ RunVerify \/ RunGate \/ RunWaves \/ RunSync \/ RunRuntime
Spec == Init /\ [][Next]_vars
-----------------------------------------------------------------------------
(* preamble.go:590, 619: a record that a prompt leaves out as known is in  *)
(* the agent's context in its current version, unless a reset was raced or *)
(* not saved, a text was cut to the budget, or a prompt hook was killed    *)
(* before it printed.                                                      *)
SuppressedWasShown == part = "session" => Session!SuppressedWasShown

(* cmd_reconcile.go:139-180: while processes take turns and the disk does  *)
(* not refuse, no call passes against an issue older than the cadence,     *)
(* whoever is killed between truncating, removing and renaming the files.  *)
OldIssuesBlock == part = "reconcile" => Reconcile!OldIssuesBlock

(* catalog.go:216-262: the usable profiles are what each provider said     *)
(* last, whichever providers were away at later refreshes, and a curated   *)
(* quality stays through every refresh.                                    *)
LastKnownGood == part = "catalog" => Catalog!LastKnownGood

(* cmd_agent.go:97-99, 216-218: launches that do not overlap find exactly  *)
(* their own shims, with the engine among them, and their own context,     *)
(* whatever a killed or wider launch left behind; and whoever rebuilt the  *)
(* jail an agent runs in, it gets to run only what its launch allowed.     *)
JailIsOwn == part = "agent" => Agent!JailIsOwn /\ Agent!BrokeredIsAllowed

(* secrets.go:60-74, 139-165: one key opens everything that is kept,       *)
(* whatever sets overlap and whoever is killed in the middle of a write,   *)
(* and no shim goes without, unless two made the first key at once; and    *)
(* what a command set stays until it is removed, unless two wrote at once. *)
SecretsAreKept == part = "secret" => Secret!SealedIsReadable /\ Secret!SetIsKept

(* verifyloop.go:47-49, cmd_verify.go:16-20: "clean" leaves no boundary    *)
(* violated, giving up names exactly what is, and "verify: OK" ran with no *)
(* part failing, as long as nobody else changed the tree since.            *)
VerdictIsTrue == part = "verify" => Verify!VerdictIsTrue

(* cmd_hook.go:425-429: the hard floor is not overridable.  An allowed     *)
(* call has no target and no word that was off limits all the time since   *)
(* its hook began, whoever changes rules, modes and grants meanwhile.      *)
WallHolds == part = "gate" => Gate!WallHolds

(* workflow_schedule.go:87-88: no path is within the leases of two steps   *)
(* that run together, when wildcards are whole path elements.              *)
WavesAreDisjoint == part = "waves" => Waves!WavesAreDisjoint

(* serve_knowledge.go:3-8, merge.go:56-63: a machine holds the newest      *)
(* version of a record that it was given, in whatever order and however    *)
(* often exports come and whichever puts fail, or a report told a human,   *)
(* unless somebody took the record back, wrote it with a clock that is     *)
(* behind, or changed it during a merge.                                   *)
NewestIsKept == part = "sync" => Sync!NewestIsKept

(* managed_binary.go:39-42, 164-167: a runtime that hooks were told to run *)
(* keeps all its files, whole, whichever installers copy at once or are    *)
(* killed, unless it was cleaned up while it was being installed.          *)
RuntimeIsWhole == part = "runtime" => Runtime!RuntimeIsWhole
=============================================================================
