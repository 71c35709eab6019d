--------------------------- MODULE ManagedRuntime ---------------------------
(***************************************************************************)
(* The managed runtimes under ~/.projx/bin (managed_binary.go): one        *)
(* directory per version, named by the digest of its files, which `init'   *)
(* and the bootstraps fill and put into hooks and aliases, and which       *)
(* `models cleanup --apply' removes when it is a day old and incomplete.   *)
(* Every file is copied to a temporary file of its own and renamed; no     *)
(* lock keeps installers and cleanups apart.                               *)
(***************************************************************************)
EXTENDS Naturals

CONSTANTS
  Installers, Cleaners,
  Versions,
  FileCount,  \* the files of a runtime, in the order they are copied
  MaxRuns, MaxFaults  \* bounds: installs and cleanups, kills and failing copies

CountAssumption == FileCount \in Nat \ {0}

VARIABLES
  dir,      \* per version: "none", "fresh" or "old" (a day and more)
  file,     \* per version and file: "none", "cut" or "whole"
  pc, job,  \* per installer: where it is, and [version, copy]
  temp,     \* per installer: does its temporary file exist?
  stale,    \* per cleaner: the versions it has still to remove
  active,   \* history: the versions installers returned, for hooks to run
  raced,    \* history: the versions that were installed and removed at once
  runs, faults

vars == <<dir, file, pc, job, temp, stale, active, raced, runs, faults>>

Files == 1..FileCount
NoWork == [version |-> "none", copy |-> 0]
Init ==
  /\ dir = [v \in Versions |-> "none"] /\ file = [v \in Versions |-> [f \in Files |-> "none"]]
  /\ pc = [p \in Installers |-> "idle"] /\ job = [p \in Installers |-> NoWork]
  /\ temp = [p \in Installers |-> FALSE]
  /\ stale = [c \in Cleaners |-> {}]
  /\ active = {} /\ raced = {}
  /\ runs = 0 /\ faults = 0

Goto(p, l) == pc' = [pc EXCEPT ![p] = l]
End(p) == Goto(p, "idle") /\ job' = [job EXCEPT ![p] = NoWork]
Exists(v, f) == file[v][f] # "none"
Complete(v) == \A f \in Files : Exists(v, f)
Judged(v) == \E c \in Cleaners : v \in stale[c]

(* provisionManagedRuntimeFrom: a complete directory is taken as it is. *)
Provision(p, v) ==
  /\ pc[p] = "idle" /\ runs < MaxRuns
  /\ runs' = runs + 1
  /\ IF Complete(v)
     THEN /\ active' = active \cup {v}
          /\ UNCHANGED <<dir, pc, job>>
     ELSE /\ dir' = [dir EXCEPT ![v] = IF @ = "none" THEN "fresh" ELSE @]
          /\ job' = [job EXCEPT ![p] = [version |-> v, copy |-> 1]]
          /\ Goto(p, "copy")
          /\ UNCHANGED active
  /\ raced' = raced \cup {w \in {v} : Judged(w)}
  /\ UNCHANGED <<file, temp, stale, faults>>

(* copyImmutable: nothing to do for a file that is there; otherwise a      *)
(* temporary file in the same directory, which makes the directory new.    *)
Done(p) == job[p].copy = FileCount
CopyNext(p) ==
  IF Done(p) THEN Goto(p, "copied") /\ UNCHANGED job
  ELSE job' = [job EXCEPT ![p].copy = @ + 1] /\ Goto(p, "copy")
(* The copy goes straight to the place of the file. *)
CreateInPlace(p, v) ==
  /\ pc[p] = "copy" /\ v = job[p].version
  /\ IF Exists(v, job[p].copy) THEN CopyNext(p) /\ UNCHANGED <<dir, file, temp>>
     ELSE IF dir[v] = "none" THEN End(p) /\ UNCHANGED <<dir, file, temp>>
     ELSE /\ dir' = [dir EXCEPT ![v] = "fresh"]
          /\ file' = [file EXCEPT ![v][job[p].copy] = "cut"]
          /\ temp' = [temp EXCEPT ![p] = TRUE]
          /\ Goto(p, "rename") /\ UNCHANGED job
  /\ UNCHANGED <<stale, active, raced, runs, faults>>
CreateTemp(p, v) ==
  /\ pc[p] = "copy" /\ v = job[p].version
  /\ IF Exists(v, job[p].copy) THEN CopyNext(p) /\ UNCHANGED <<dir, temp>>
     ELSE IF dir[v] = "none" THEN End(p) /\ UNCHANGED <<dir, temp>>
     ELSE /\ dir' = [dir EXCEPT ![v] = "fresh"]
          /\ temp' = [temp EXCEPT ![p] = TRUE]
          /\ Goto(p, "rename") /\ UNCHANGED job
  /\ UNCHANGED <<file, stale, active, raced, runs, faults>>
(* A copy that fails leaves through the deferred Remove. *)
CopyFails(p) ==
  /\ pc[p] = "rename" /\ faults < MaxFaults
  /\ faults' = faults + 1
  /\ temp' = [temp EXCEPT ![p] = FALSE]
  /\ dir' = [dir EXCEPT ![job[p].version] = IF @ = "none" THEN @ ELSE "fresh"]
  /\ End(p)
  /\ UNCHANGED <<file, stale, active, raced, runs>>
(* The rename fails when a cleanup took the file, which is an error unless *)
(* somebody else's copy is there.                                          *)
Rename(p, v) ==
  /\ pc[p] = "rename" /\ v = job[p].version
  /\ IF temp[p]
     THEN /\ file' = [file EXCEPT ![v][job[p].copy] = "whole"]
          /\ dir' = [dir EXCEPT ![v] = "fresh"]
          /\ CopyNext(p)
     ELSE /\ IF Exists(v, job[p].copy) THEN CopyNext(p) ELSE End(p)
          /\ UNCHANGED <<file, dir>>
  /\ temp' = [temp EXCEPT ![p] = FALSE]
  /\ UNCHANGED <<stale, active, raced, runs, faults>>
(* The paths of the runtime go into hooks, aliases and settings. *)
Activate(p) ==
  /\ pc[p] = "copied"
  /\ active' = active \cup {job[p].version}
  /\ End(p)
  /\ UNCHANGED <<dir, file, temp, stale, raced, runs, faults>>

(* staleManagedArtifacts: directories a day old that lack a file. *)
Incomplete(v) == dir[v] = "old" /\ ~Complete(v)
Scan(c) ==
  /\ stale[c] = {} /\ runs < MaxRuns
  /\ \E found \in {{v \in Versions : Incomplete(v)}} :
       found # {} /\ stale' = [stale EXCEPT ![c] = found]
  /\ runs' = runs + 1
  /\ raced' = raced \cup {v \in Versions : Incomplete(v) /\ \E p \in Installers : job[p].version = v}
  /\ UNCHANGED <<dir, file, pc, job, temp, active, faults>>
(* cleanupStaleManagedArtifacts: RemoveAll, which takes one file after the *)
(* other, the temporary ones of installers included.                       *)
RemoveFile(c, v, f) ==
  /\ v \in stale[c] /\ Exists(v, f)
  /\ file' = [file EXCEPT ![v][f] = "none"]
  /\ dir' = [dir EXCEPT ![v] = "fresh"]
  /\ UNCHANGED <<pc, job, temp, stale, active, raced, runs, faults>>
RemoveDir(c, v) ==
  /\ v \in stale[c] /\ \A f \in Files : ~Exists(v, f)
  /\ dir' = [dir EXCEPT ![v] = "none"]
  /\ temp' = [p \in Installers |-> temp[p] /\ job[p].version # v]
  /\ stale' = [stale EXCEPT ![c] = @ \ {v}]
  /\ UNCHANGED <<file, pc, job, active, raced, runs, faults>>

(* An installer or a cleanup is killed; a day passes. *)
Killed(p) ==
  /\ pc[p] # "idle" /\ faults < MaxFaults
  /\ faults' = faults + 1
  /\ temp' = [temp EXCEPT ![p] = FALSE]
  /\ End(p)
  /\ UNCHANGED <<dir, file, stale, active, raced, runs>>
CleanupKilled(c) ==
  /\ stale[c] # {} /\ faults < MaxFaults
  /\ faults' = faults + 1
  /\ stale' = [stale EXCEPT ![c] = {}]
  /\ UNCHANGED <<dir, file, pc, job, temp, active, raced, runs>>
DayPasses(v) ==
  /\ dir[v] = "fresh"
  /\ dir' = [dir EXCEPT ![v] = "old"]
  /\ UNCHANGED <<file, pc, job, temp, stale, active, raced, runs, faults>>

Next ==
  \/ \E p \in Installers :
       \/ \E v \in Versions : Provision(p, v) \/ CreateTemp(p, v) \/ Rename(p, v)
       \/ CopyFails(p) \/ Activate(p) \/ Killed(p)
  \/ \E c \in Cleaners :
       \/ Scan(c) \/ CleanupKilled(c)
       \/ \E v \in Versions : RemoveDir(c, v) \/ \E f \in Files : RemoveFile(c, v, f)
  \/ \E v \in Versions : DayPasses(v)
Spec == Init /\ [][Next]_vars
-----------------------------------------------------------------------------
(* No file has half of its content; an installer under way has a version   *)
(* and the number of the file it copies.                                   *)
TypeOK ==
  /\ dir \in [Versions -> {"none", "fresh", "old"}]
  /\ file \in [Versions -> [Files -> {"none", "whole"}]]
  /\ pc \in [Installers -> {"idle", "copy", "rename", "copied"}]
  /\ job \in [Installers -> [version : Versions \cup {"none"}, copy : 0..FileCount]]
  /\ \A p \in Installers : pc[p] # "idle" => job[p].version \in Versions /\ job[p].copy \in Files
  /\ temp \in [Installers -> BOOLEAN]
  /\ stale \in [Cleaners -> SUBSET Versions]
  /\ active \subseteq Versions /\ raced \subseteq Versions

(* managed_binary.go:39-42, 164-167: a runtime that hooks were told to run *)
(* has all its files, whole, whichever installers copy at once, fail or    *)
(* are killed in the middle, and whatever is cleaned up later; only a      *)
(* cleanup during the installation of the same version may take it away.   *)
RuntimeIsWhole ==
  \A v \in active \ raced, f \in Files : file[v][f] = "whole"
=============================================================================
