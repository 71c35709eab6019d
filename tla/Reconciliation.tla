--------------------------- MODULE Reconciliation ---------------------------
(***************************************************************************)
(* The cached scan of the store for knowledge to review                    *)
(* (cmd_reconcile.go) and the tool calls it stops (cmd_hook.go).  A hook   *)
(* uses .projx/reconciliation.json while it is younger than the cadence of *)
(* 15 minutes; otherwise it scans, writes reconciliation.json.tmp, removes *)
(* the old file and renames the new one into its place.  All processes     *)
(* share the name of the temporary file.                                   *)
(*                                                                         *)
(* An issue is known by the record it is about, and a call by the record   *)
(* that concerns its target.  "Cut" is a file truncated by os.WriteFile.   *)
(***************************************************************************)
EXTENDS Naturals, FiniteSets

CONSTANTS
  Procs,     \* hooks and `reconcile' commands under way
  Records,   \* what issues may be about
  MaxTicks,  \* bound: cadences that pass
  MaxScans,  \* bound: scans
  MaxFaults  \* bound: killed processes and failing file operations

VARIABLES
  issues, known,  \* the issues there are, and since before the last cadence
  file, tmp,      \* the checkpoint and its temporary file
  pc, mem,        \* per process: where it is, its target and its scan
  passed,         \* history: calls let through against a known issue
  ticks, scans, faults,
  spoiled         \* history: were two processes at work together, or did the
                  \* disk refuse a step?

rec == <<issues, known>>
disk == <<file, tmp>>
bounds == <<ticks, scans, faults>>
vars == <<rec, disk, pc, mem, passed, bounds, spoiled>>

None == [state |-> "none", found |-> {}, age |-> 0]
Cut == [None EXCEPT !.state = "cut"]
NoWork == [target |-> "none", cp |-> None]

Init ==
  /\ issues = {} /\ known = {}
  /\ file = None /\ tmp = None
  /\ pc = [p \in Procs |-> "idle"] /\ mem = [p \in Procs |-> NoWork]
  /\ passed = {} /\ ticks = 0 /\ scans = 0 /\ faults = 0 /\ spoiled = FALSE

Goto(p, l) == pc' = [pc EXCEPT ![p] = l]
End(p) == Goto(p, "idle") /\ mem' = [mem EXCEPT ![p] = NoWork]

(* The store changes, and time passes: no process takes a cadence. *)
IssueRises(r) ==
  /\ r \notin issues
  /\ issues' = issues \cup {r}
  /\ UNCHANGED <<known, disk, pc, mem, passed, bounds, spoiled>>
IssueSettled(r) ==
  /\ r \in issues
  /\ issues' = issues \ {r} /\ known' = known \ {r}
  /\ UNCHANGED <<disk, pc, mem, passed, bounds, spoiled>>
CadencePasses ==
  /\ ticks < MaxTicks /\ \A p \in Procs : pc[p] = "idle"
  /\ ticks' = ticks + 1
  /\ known' = issues
  /\ file' = IF file.state = "whole" THEN [file EXCEPT !.age = 1] ELSE file
  /\ UNCHANGED <<issues, tmp, pc, mem, passed, scans, faults, spoiled>>

(* What a call does with the issues it was given. *)
Judge(target, found) ==
  passed' = IF target \notin found \cup {"none"} THEN passed \cup ({target} \cap known) ELSE passed

UsableAtAnyAge(cp) == cp.state = "whole"
(* The file can be read and is younger than the cadence. *)
Usable(cp) == cp.state = "whole" /\ cp.age = 0

(* A hook with a target, or a forced `reconcile' without one. *)
refreshReconciliation(p, target) ==
  /\ pc[p] = "idle"
  /\ spoiled' = (spoiled \/ \E q \in Procs : pc[q] # "idle")
  /\ IF Usable(file) /\ target # "none"
     THEN Judge(target, file.found) /\ UNCHANGED <<pc, mem, scans>>
     ELSE /\ scans < MaxScans /\ scans' = scans + 1
          /\ mem' = [mem EXCEPT ![p] = [target |-> target,
                       cp |-> [state |-> "whole", found |-> issues, age |-> 0]]]
          /\ Goto(p, "open")
          /\ UNCHANGED passed
  /\ UNCHANGED <<rec, disk, ticks, faults>>

OpenTmp(p) ==
  /\ pc[p] = "open"
  /\ tmp' = Cut
  /\ Goto(p, "write")
  /\ UNCHANGED <<rec, file, mem, passed, bounds, spoiled>>
WriteTmp(p) ==
  /\ pc[p] = "write"
  /\ tmp' = mem[p].cp
  /\ Goto(p, "remove")
  /\ UNCHANGED <<rec, file, mem, passed, bounds, spoiled>>
RemoveFile(p) ==
  /\ pc[p] = "remove"
  /\ file' = None
  /\ Goto(p, "rename")
  /\ UNCHANGED <<rec, tmp, mem, passed, bounds, spoiled>>
(* Without a temporary file the rename fails, and the scan is not used. *)
RenameTmp(p) ==
  /\ pc[p] = "rename"
  /\ IF tmp = None THEN UNCHANGED file ELSE file' = tmp
  /\ Judge(mem[p].target, IF tmp = None THEN {} ELSE mem[p].cp.found)
  /\ tmp' = None
  /\ End(p)
  /\ UNCHANGED <<rec, bounds, spoiled>>

(* The disk refuses: what is left of the temporary file is removed.  A     *)
(* hook that has no scan lets the call through.                            *)
StepFails(p) ==
  /\ pc[p] \in {"open", "write", "remove"} /\ faults < MaxFaults
  /\ faults' = faults + 1
  /\ tmp' = IF pc[p] = "remove" THEN None ELSE tmp
  /\ Judge(mem[p].target, {})
  /\ spoiled' = TRUE
  /\ End(p)
  /\ UNCHANGED <<rec, file, ticks, scans>>
Killed(p) ==
  /\ pc[p] # "idle" /\ faults < MaxFaults
  /\ faults' = faults + 1
  /\ End(p)
  /\ UNCHANGED <<rec, disk, passed, ticks, scans, spoiled>>

Next ==
  \/ \E r \in Records : IssueRises(r) \/ IssueSettled(r)
  \/ CadencePasses
  \/ \E p \in Procs :
       \/ \E target \in Records \cup {"none"} : refreshReconciliation(p, target)
       \/ OpenTmp(p) \/ WriteTmp(p) \/ RemoveFile(p) \/ RenameTmp(p) \/ StepFails(p) \/ Killed(p)
Spec == Init /\ [][Next]_vars
-----------------------------------------------------------------------------
(* cmd_reconcile.go:139-180, cmd_hook.go:387-391: while processes take     *)
(* turns and the disk does not refuse, no call passes against an issue     *)
(* that is older than the cadence, whoever is killed between truncating,   *)
(* removing and renaming the files.                                        *)
OldIssuesBlock == ~spoiled => passed = {}

=============================================================================
