------------------------------ MODULE HookFiles ------------------------------
(***************************************************************************)
(* Three files that hooks keep under .projx and share with commands,       *)
(* detached workers and each other: the override grants, the obligations   *)
(* of the turn and the lock of the map refresh.  They have nothing in      *)
(* common: `part' is the one that is looked at, the variables of the       *)
(* others stay as they began.                                              *)
(***************************************************************************)
EXTENDS Naturals

CONSTANTS
  \* OverrideGrant
  Cmds, CallHooks, Rules, Consulted, MaxTtl, MaxGrants, MaxCalls, MaxCrashes, MaxFaults,
  \* MapRefreshLock
  Schedulers, MaxWorkers, MaxKills,
  \* GovernedTurn
  Tools, Roots, HomeRoots, MaxFailures

VARIABLES
  part,
  file, log, pc, mem, issued, spent, ran, calls, crashes, faults, overlapped,
  lock, rpc, mine, worker, made, kills, roverlapped, overran,
  turn, tpc, tmem, target, left, unsafe, tfaults, disturbed

Override == INSTANCE OverrideGrant WITH Hooks <- CallHooks
Refresh == INSTANCE MapRefreshLock WITH
  MaxCrashes <- MaxKills, pc <- rpc, crashes <- kills, overlapped <- roverlapped
Turn == INSTANCE GovernedTurn WITH
  MaxFaults <- MaxFailures, pc <- tpc, mem <- tmem, faults <- tfaults

ASSUME HookFilesAssumption ==
  Override!ConstantsAssumption /\ Refresh!WorkersAssumption /\ Turn!ToolsAssumption

overrideVars == <<file, log, pc, mem, issued, spent, ran, calls, crashes, faults, overlapped>>
refreshVars == <<lock, rpc, mine, worker, made, kills, roverlapped, overran>>
turnVars == <<turn, tpc, tmem, target, left, unsafe, tfaults, disturbed>>
vars == <<part, overrideVars, refreshVars, turnVars>>

Init ==
  /\ part \in {"override", "refresh", "turn"}
  /\ Override!Init /\ Refresh!Init /\ Turn!Init

OverrideStep == part = "override" /\ Override!Next /\ UNCHANGED <<part, refreshVars, turnVars>>
OfRefresh(A) == part = "refresh" /\ A /\ UNCHANGED <<part, overrideVars, turnVars>>
TurnStep == part = "turn" /\ Turn!Next /\ UNCHANGED <<part, overrideVars, refreshVars>>
Next == OverrideStep \/ OfRefresh(Refresh!Next) \/ TurnStep

(* MapRefreshLock!FairSpec: hooks and workers run on and time passes. *)
Proceeds(s) ==
  \/ Refresh!RemoveStale(s) \/ Refresh!CreateLock(s) \/ Refresh!CreateFails(s)
  \/ Refresh!StartWorker(s) \/ Refresh!StartFails(s)
Fairness ==
  /\ \A s \in Schedulers : WF_vars(OfRefresh(Proceeds(s)))
  /\ \A n \in Refresh!WorkerId : WF_vars(OfRefresh(Refresh!WorkerEnds(n)))
  /\ WF_vars(OfRefresh(Refresh!LockAges))
Spec == Init /\ [][Next]_vars /\ Fairness

(* While processes take turns, a grant lets no more calls through than it  *)
(* was given uses, one more for each save that failed, whoever is killed   *)
(* and whatever file is cut short in between (consumeOverride).            *)
OveruseIsPerFault == Override!OveruseIsPerFault

(* No verification that is owed is dropped, while hooks take turns and     *)
(* none is killed in the middle of a save, whichever saves fail and        *)
(* whichever roots a stop found safe (markGovernedMutation,                *)
(* closeGovernedTurn).                                                     *)
UnsafeIsOwed == Turn!UnsafeIsOwed

(* At most one worker synchronises the map at a time, unless it was late   *)
(* or two sessions took over a stale lock ("the one explicitly detached    *)
(* maintenance worker", map_refresh.go:26-27).                             *)
OneWorker == Refresh!OneWorker

(* No lock is for ever: as long as sessions keep starting, a lock goes     *)
(* again, by its worker, its scheduler or, after a kill, by the next       *)
(* session that finds it stale.                                            *)
LockIsNotForEver == Refresh!LockIsNotForEver
=============================================================================
