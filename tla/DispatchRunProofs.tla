-------------------------- MODULE DispatchRunProofs --------------------------
(***************************************************************************)
(* Theorems about DispatchRun for every number of steps, of cancel         *)
(* commands and of hooks, and for both platforms.                          *)
(***************************************************************************)
EXTENDS DispatchRun, TLAPS

USE NAssumption, ProcAssumption, PlatformAssumption, BoundAssumption

-----------------------------------------------------------------------------
(* Manifests.                                                              *)

\* The manifest that is not there is a manifest.
LEMMA NoManifestType == NoManifest \in Manifest
  BY DEF NoManifest, Manifest, Terminal, Finished

\* Editing a manifest the way the program does gives a manifest.
LEMMA EditType ==
    ASSUME NEW m \in Manifest
    PROVE  /\ [m EXCEPT !.claimed = TRUE] \in Manifest
           /\ [m EXCEPT !.reported = TRUE] \in Manifest
           /\ \A s \in {"running", "done", "failed"} : [m EXCEPT !.state = s] \in Manifest
           /\ \A v \in {"passed", "failed", "skipped"} : [m EXCEPT !.verify = v] \in Manifest
           /\ \A i \in Step, s \in {"running", "done", "failed"} :
                  [m EXCEPT !.step[i] = s] \in Manifest
           /\ markDispatchCancelled(m) \in Manifest
  BY DEF Manifest, Terminal, Finished, markDispatchCancelled

\* What a write does to the variables it touches.
LEMMA WriteTmpType ==
    ASSUME TypeOK, NEW p \in Procs, NEW m \in Manifest, WriteTmp(p, m)
    PROVE  /\ mem' \in [Procs -> Manifest]
           /\ tmp' \in Manifest
           /\ renaming' \subseteq Procs
           /\ faults' \in 0 .. MaxFaults
  BY DEF TypeOK, WriteTmp

-----------------------------------------------------------------------------
(* Type correctness.                                                       *)

LEMMA InitType == Init => TypeOK
<1> SUFFICES ASSUME Init PROVE TypeOK
  OBVIOUS
<1>1. pc \in [Procs -> SupPC \cup CancelPC \cup HookPC]
  BY DEF Init, SupPC, CancelPC, HookPC
<1>2. cur \in Step /\ faults \in 0 .. MaxFaults /\ crashes \in 0 .. MaxCrashes
  BY DEF Init, Step
<1>3. mem \in [Procs -> Manifest]
  BY NoManifestType DEF Init
<1> QED BY <1>1, <1>2, <1>3, NoManifestType DEF Init, TypeOK

LEMMA NextType == TypeOK /\ [Next]_vars => TypeOK'
<1> SUFFICES ASSUME TypeOK, [Next]_vars
             PROVE  TypeOK'
  OBVIOUS
<1> USE DEF SupPC, CancelPC, HookPC
<1>a. Sup \in Procs /\ Cancels \subseteq Procs /\ Hooks \subseteq Procs
  BY DEF Procs
<1>1. CASE Launch
  <2>1. [NoManifest EXCEPT !.state = "running"] \in Manifest
    BY NoManifestType, EditType
  <2> QED BY <1>1, <1>a, <2>1 DEF Launch, LaunchWrite, LaunchStart, LaunchFail, Goto, TypeOK
<1>2. CASE SupLoad
  <2>1. [file EXCEPT !.claimed = TRUE] \in Manifest
    BY EditType DEF TypeOK
  <2> QED BY <1>2, <1>a, <2>1, WriteTmpType DEF SupLoad, Goto, TypeOK
<1>3. CASE SupLoadFails
  BY <1>3, <1>a DEF SupLoadFails, Goto, TypeOK
<1>4. CASE SupBeginStep
  <2>1. [mem[Sup] EXCEPT !.step[cur] = "running"] \in Manifest
    BY <1>a, EditType DEF TypeOK
  <2> QED BY <1>4, <1>a, <2>1, WriteTmpType DEF SupBeginStep, Goto, TypeOK
<1>5. CASE SupSpawn
  <2>1. mem[Sup] \in Manifest
    BY <1>a DEF TypeOK
  <2>2. agentWork' \in BOOLEAN
    BY <1>5 DEF SupSpawn, TypeOK
  <2> QED BY <1>5, <1>a, <2>1, <2>2, WriteTmpType DEF SupSpawn, Goto, TypeOK
<1>6. CASE SupStepDone
  <2>1. [mem[Sup] EXCEPT !.step[cur] = "done"] \in Manifest
    BY <1>a, EditType DEF TypeOK
  <2>2. cur' \in Step
    BY <1>6 DEF SupStepDone, TypeOK, Step
  <2> QED BY <1>6, <1>a, <2>1, <2>2, WriteTmpType DEF SupStepDone, Goto, TypeOK
<1>7. CASE SupStepFailed
  <2>1. [mem[Sup] EXCEPT !.step[cur] = "failed"] \in Manifest
    BY <1>a, EditType DEF TypeOK
  <2> QED BY <1>7, <1>a, <2>1, WriteTmpType DEF SupStepFailed, Goto, TypeOK
<1>8. CASE SupGate
  <2>1. [mem EXCEPT ![Sup].verify = "skipped"] \in [Procs -> Manifest]
    BY <1>a, EditType DEF TypeOK
  <2> QED BY <1>8, <1>a, <2>1 DEF SupGate, Goto, TypeOK
<1>9. CASE SupVerdict
  <2>1. mem' \in [Procs -> Manifest]
    BY <1>9, <1>a, EditType DEF SupVerdict, TypeOK
  <2> QED BY <1>9, <1>a, <2>1 DEF SupVerdict, Goto, TypeOK
<1>10. CASE SupFinish
  <2>1. [mem[Sup] EXCEPT !.state = IF SupFailed THEN "failed" ELSE "done"] \in Manifest
    BY <1>a, EditType DEF TypeOK
  <2> QED BY <1>10, <1>a, <2>1, WriteTmpType DEF SupFinish, Goto, TypeOK
<1>11. CASE SupExit
  BY <1>11, <1>a DEF SupExit, Goto, TypeOK
<1>12. CASE ChildExit \/ WatcherKill
  BY <1>12 DEF ChildExit, WatcherKill, TypeOK
<1>13. ASSUME NEW p \in Procs, RenameTmp(p)
       PROVE  TypeOK'
  BY <1>13, NoManifestType DEF RenameTmp, TypeOK
<1>14. ASSUME NEW c \in Cancels, CancelRead(c) \/ CancelRefused(c) \/ CancelEnd(c)
       PROVE  TypeOK'
  BY <1>14, <1>a, NoManifestType DEF CancelRead, CancelRefused, CancelEnd, Goto, TypeOK, vars
<1>15. ASSUME NEW c \in Cancels, CancelKill(c)
       PROVE  TypeOK'
  BY <1>15, <1>a, NoManifestType
  DEF CancelKill, CancelKillUnix, CancelKillWindows, ChildAfterKill, Goto, TypeOK
<1>16. ASSUME NEW c \in Cancels, CancelMark(c)
       PROVE  TypeOK'
  <2>1. markDispatchCancelled(mem[c]) \in Manifest
    BY <1>a, EditType DEF TypeOK
  <2> QED BY <1>16, <1>a, <2>1, WriteTmpType DEF CancelMark, Goto, TypeOK
<1>17. ASSUME NEW h \in Hooks, HookRead(h) \/ HookEmit(h)
       PROVE  TypeOK'
  BY <1>17, <1>a, NoManifestType DEF HookRead, HookEmit, Goto, TypeOK
<1>18. ASSUME NEW h \in Hooks, HookFlip(h)
       PROVE  TypeOK'
  <2>1. [mem[h] EXCEPT !.reported = TRUE] \in Manifest
    BY <1>a, EditType DEF TypeOK
  <2> QED BY <1>18, <1>a, <2>1, WriteTmpType DEF HookFlip, Goto, TypeOK
<1>19. ASSUME NEW p \in Procs, Crash(p)
       PROVE  TypeOK'
  BY <1>19, <1>a, NoManifestType DEF Crash, ChildAfterKill, Goto, TypeOK
<1>20. CASE UNCHANGED vars
  BY <1>20 DEF vars, TypeOK
<1> QED
  BY <1>a, <1>1, <1>2, <1>3, <1>4, <1>5, <1>6, <1>7, <1>8, <1>9, <1>10, <1>11,
     <1>12, <1>13, <1>14, <1>15, <1>16, <1>17, <1>18, <1>19, <1>20
  DEF Next, Supervise, Cancel, CancelProceeds, Hook

\* Every variable keeps its type.
THEOREM TypeCorrect == Spec => []TypeOK
  BY InitType, NextType, PTL DEF Spec

-----------------------------------------------------------------------------
(* The inductive invariant.                                                *)
(*                                                                         *)
(* The safety properties speak of the file, but what the file will hold    *)
(* next is decided by copies other processes took earlier.  So the         *)
(* invariant says of EVERY copy (the file, the temporary file, each        *)
(* process's memory) what is wanted of the file, ties the supervisor's     *)
(* copy to its place in the loop, and says who may still write: while the  *)
(* supervisor can write, no cancel has passed its kill and no hook is      *)
(* active.                                                                 *)

\* What each process may be doing, and who can have a rename pending.
ProcessInv ==
    /\ pc[Sup] \in SupPC
    /\ \A c \in Cancels : pc[c] \in CancelPC
    /\ \A h \in Hooks : pc[h] \in HookPC
    /\ Sup \in renaming => pc[Sup] \notin {"none", "load", "gone"}
    /\ \A c \in Cancels : c \in renaming => pc[c] = "end"
    /\ \A h \in Hooks : h \in renaming => pc[h] = "emit"

\* Until the supervisor claims the run, the file is as the launcher wrote it.
LaunchInv ==
    /\ launcher = "init" => file.state = "absent"
    /\ launcher = "written" => file.state = "running"
    /\ launcher # "started" => pc[Sup] = "none"
    /\ pc[Sup] \in {"none", "load"} =>
          /\ ~file.claimed
          /\ cur = 1
          /\ ~agentWork
          /\ child = "none"
          /\ file.verify = "none"
          /\ \A i \in Step : file.step[i] = "pending"
    /\ pc[Sup] # "none" => file.state # "absent"

\* A cancel past its kill has outlived the supervisor, and holds a copy that
\* was running when it was read.
CancelInv ==
    \A c \in Cancels :
        /\ pc[c] # "idle" => pc[Sup] \notin {"none", "load"}
        /\ pc[c] \in {"mark", "end"} => pc[Sup] = "gone"
        /\ pc[c] \in {"kill", "mark"} => mem[c].state = "running"

HookInv == \A h \in Hooks : pc[h] # "idle" => mem[h].state \in Finished

\* The supervisor has not finished writing, or has not begun.
SupOwnsFile ==
    \/ pc[Sup] \in {"none", "load", "step", "spawn", "wait", "gate", "verify", "final"}
    \/ Sup \in renaming

OwnerInv ==
    /\ SupOwnsFile =>
          /\ file.state \in {"absent", "running"}
          /\ \A c \in Cancels : pc[c] \in {"idle", "kill"}
          /\ \A h \in Hooks : pc[h] = "idle"
    /\ (Sup \in renaming /\ pc[Sup] # "exit") => tmp.state = "running"
    /\ \A p \in Cancels \cup Hooks : p \in renaming => tmp.state \in Terminal \cup {"absent"}

\* The copies all tell the truth.
Good(m) == Honest(m) /\ Explained(m)

CopiesInv ==
    /\ Good(file)
    /\ Good(tmp)
    /\ \A p \in Procs : Good(mem[p])

\* The supervisor's copy at each place of its loop.
DoneBelow(m, k)   == \A i \in Step : i < k => m.step[i] = "done"
PendingAbove(m, k) == \A i \in Step : i > k => m.step[i] = "pending"
AllDone(m)        == \A i \in Step : m.step[i] = "done"

SupInv ==
    LET m == mem[Sup] IN
    /\ pc[Sup] \in {"none", "load"} => m.state = "absent"
    /\ pc[Sup] \in {"step", "spawn", "wait", "gate", "verify", "final"} => m.state = "running"
    /\ pc[Sup] \in {"step", "spawn", "wait"} =>
          /\ DoneBelow(m, cur)
          /\ PendingAbove(m, cur)
          /\ m.verify = "none"
    /\ pc[Sup] = "step" => m.step[cur] = "pending"
    /\ pc[Sup] \in {"spawn", "wait"} => m.step[cur] = "running"
    /\ pc[Sup] \in {"step", "spawn"} => agentWork = (\E i \in agents : i < cur)
    /\ pc[Sup] = "wait" => agentWork = (\E i \in agents : i <= cur)
    /\ pc[Sup] \in {"gate", "verify"} => AllDone(m) /\ m.verify = "none"
    /\ pc[Sup] = "gate" => agentWork = (agents # {})
    /\ pc[Sup] = "verify" => agents # {}
    /\ pc[Sup] = "final" =>
          \/ AllDone(m) /\ m.verify = "skipped" /\ agents = {}
          \/ AllDone(m) /\ m.verify \in {"passed", "failed"} /\ agents # {}
          \/ /\ DoneBelow(m, cur)
             /\ PendingAbove(m, cur)
             /\ m.step[cur] = "failed"
             /\ m.verify = "none"

IInv ==
    /\ TypeOK
    /\ ProcessInv
    /\ LaunchInv
    /\ CancelInv
    /\ HookInv
    /\ OwnerInv
    /\ CopiesInv
    /\ SupInv

\* The initial states satisfy it.
LEMMA InitInv == Init => IInv
<1> SUFFICES ASSUME Init PROVE IInv
  OBVIOUS
<1>1. TypeOK
  BY InitType
<1>2. ProcessInv /\ CancelInv /\ HookInv
  BY DEF Init, ProcessInv, CancelInv, HookInv, SupPC, CancelPC, HookPC, Procs
<1>3. LaunchInv /\ OwnerInv
  BY DEF Init, LaunchInv, OwnerInv, SupOwnsFile, NoManifest, Procs
<1>4. CopiesInv
  BY DEF Init, CopiesInv, Good, Honest, Explained, NoManifest, Procs
<1>5. SupInv
  BY DEF Init, SupInv, Procs, NoManifest
<1> QED BY <1>1, <1>2, <1>3, <1>4, <1>5 DEF IInv

\* The processes are pairwise distinct.
LEMMA Distinct ==
    /\ Sup \in Procs /\ Cancels \subseteq Procs /\ Hooks \subseteq Procs
    /\ \A c \in Cancels : c # Sup /\ c \notin Hooks
    /\ \A h \in Hooks : h # Sup /\ h \notin Cancels
  BY DEF Procs

\* Places and pending renames stay consistent.
LEMMA ProcessNext == IInv /\ [Next]_vars => ProcessInv'
<1> SUFFICES ASSUME IInv, [Next]_vars PROVE ProcessInv'
  OBVIOUS
<1> USE Distinct DEF ProcessInv, SupPC, CancelPC, HookPC, At, Goto
<1>a. TypeOK /\ ProcessInv
  BY DEF IInv
<1>1. CASE Launch
  BY <1>1, <1>a DEF Launch, LaunchWrite, LaunchStart, LaunchFail, IInv, LaunchInv, TypeOK
<1>2. CASE SupLoad \/ SupBeginStep \/ SupSpawn \/ SupStepDone \/ SupStepFailed \/ SupFinish
  BY <1>2, <1>a DEF SupLoad, SupBeginStep, SupSpawn, SupStepDone, SupStepFailed, SupFinish,
     WriteTmp, TypeOK
<1>3. CASE SupLoadFails \/ SupGate \/ SupVerdict \/ SupExit
  BY <1>3, <1>a DEF SupLoadFails, SupGate, SupVerdict, SupExit, TypeOK
<1>4. CASE ChildExit \/ WatcherKill \/ UNCHANGED vars
  BY <1>4, <1>a DEF ChildExit, WatcherKill, vars
<1>5. ASSUME NEW p \in Procs, RenameTmp(p) PROVE ProcessInv'
  BY <1>5, <1>a DEF RenameTmp
<1>6. ASSUME NEW c \in Cancels, Cancel(c), ~RenameTmp(c) PROVE ProcessInv'
  BY <1>6, <1>a DEF Cancel, CancelProceeds, CancelRead, CancelRefused, CancelKill, CancelKillUnix,
     CancelKillWindows, CancelMark, CancelEnd, WriteTmp, TypeOK, vars
<1>7. ASSUME NEW h \in Hooks, Hook(h), ~RenameTmp(h) PROVE ProcessInv'
  BY <1>7, <1>a DEF Hook, HookRead, HookFlip, HookEmit, WriteTmp, TypeOK
<1>8. ASSUME NEW p \in Procs, Crash(p) PROVE ProcessInv'
  BY <1>8, <1>a DEF Crash, TypeOK, Procs
<1> QED
  BY <1>1, <1>2, <1>3, <1>4, <1>5, <1>6, <1>7, <1>8 DEF Next, Supervise, Cancel, CancelProceeds, Hook

\* The file is the launcher's until the supervisor claims it.
LEMMA LaunchNext == IInv /\ [Next]_vars => LaunchInv'
<1> SUFFICES ASSUME IInv, [Next]_vars PROVE LaunchInv'
  OBVIOUS
<1> USE Distinct DEF LaunchInv, At, Goto
<1>a. TypeOK /\ ProcessInv /\ LaunchInv /\ CancelInv /\ OwnerInv
  BY DEF IInv
<1>1. CASE Launch
  BY <1>1, <1>a DEF Launch, LaunchWrite, LaunchStart, LaunchFail, TypeOK, NoManifest
<1>2. CASE SupLoad \/ SupBeginStep \/ SupSpawn \/ SupStepDone \/ SupStepFailed \/ SupFinish
  BY <1>2, <1>a DEF SupLoad, SupBeginStep, SupSpawn, SupStepDone, SupStepFailed, SupFinish, TypeOK
<1>3. CASE SupLoadFails \/ SupGate \/ SupVerdict \/ SupExit
  BY <1>3, <1>a DEF SupLoadFails, SupGate, SupVerdict, SupExit, TypeOK
<1>4. CASE ChildExit \/ WatcherKill \/ UNCHANGED vars
  BY <1>4, <1>a DEF ChildExit, WatcherKill, vars
<1>5. ASSUME NEW p \in Procs, RenameTmp(p) PROVE LaunchInv'
  <2>1. pc[Sup] \notin {"none", "load"}
    BY <1>5, <1>a DEF RenameTmp, ProcessInv, CancelInv, OwnerInv, SupOwnsFile, Procs
  <2> QED BY <1>5, <1>a, <2>1 DEF RenameTmp
<1>6. ASSUME NEW c \in Cancels, Cancel(c), ~RenameTmp(c) PROVE LaunchInv'
  BY <1>6, <1>a DEF Cancel, CancelProceeds, CancelRead, CancelRefused, CancelKill, CancelKillUnix,
     CancelKillWindows, CancelMark, CancelEnd, SupAlive, ChildAfterKill, CancelInv, TypeOK, vars
<1>7. ASSUME NEW h \in Hooks, Hook(h), ~RenameTmp(h) PROVE LaunchInv'
  BY <1>7, <1>a DEF Hook, HookRead, HookFlip, HookEmit, TypeOK
<1>8. ASSUME NEW p \in Procs, Crash(p) PROVE LaunchInv'
  BY <1>8, <1>a DEF Crash, TypeOK, Procs, ChildAfterKill
<1> QED
  BY <1>1, <1>2, <1>3, <1>4, <1>5, <1>6, <1>7, <1>8 DEF Next, Supervise, Cancel, CancelProceeds, Hook

\* A cancel past its kill outlives the supervisor.
LEMMA CancelNext == IInv /\ [Next]_vars => CancelInv'
<1> SUFFICES ASSUME IInv, [Next]_vars PROVE CancelInv'
  OBVIOUS
<1> USE Distinct DEF CancelInv, At, Goto
<1>a. TypeOK /\ ProcessInv /\ LaunchInv /\ CancelInv
  BY DEF IInv
<1>1. CASE Launch
  BY <1>1, <1>a DEF Launch, LaunchWrite, LaunchStart, LaunchFail, LaunchInv, TypeOK
<1>2. CASE SupLoad \/ SupBeginStep \/ SupSpawn \/ SupStepDone \/ SupStepFailed \/ SupFinish
  BY <1>2, <1>a DEF SupLoad, SupBeginStep, SupSpawn, SupStepDone, SupStepFailed, SupFinish,
     WriteTmp, TypeOK
<1>3. CASE SupLoadFails \/ SupGate \/ SupVerdict \/ SupExit
  BY <1>3, <1>a DEF SupLoadFails, SupGate, SupVerdict, SupExit, TypeOK
<1>4. CASE ChildExit \/ WatcherKill \/ UNCHANGED vars
  BY <1>4, <1>a DEF ChildExit, WatcherKill, vars
<1>5. ASSUME NEW p \in Procs, RenameTmp(p) PROVE CancelInv'
  BY <1>5, <1>a DEF RenameTmp
<1>6. ASSUME NEW c \in Cancels, Cancel(c), ~RenameTmp(c) PROVE CancelInv'
  <2> USE DEF TypeOK, ProcessInv
  <2>1. CASE CancelRead(c) \/ CancelRefused(c)
    BY <2>1, <1>a DEF CancelRead, CancelRefused, LaunchInv, vars
  <2>2. CASE CancelKill(c)
    BY <2>2, <1>a DEF CancelKill, CancelKillUnix, CancelKillWindows, SupAlive
  <2>3. CASE CancelMark(c) \/ CancelEnd(c)
    BY <2>3, <1>a DEF CancelMark, CancelEnd, WriteTmp
  <2> QED BY <1>6, <2>1, <2>2, <2>3 DEF Cancel, CancelProceeds
<1>7. ASSUME NEW h \in Hooks, Hook(h), ~RenameTmp(h) PROVE CancelInv'
  BY <1>7, <1>a DEF Hook, HookRead, HookFlip, HookEmit, WriteTmp, TypeOK
<1>8. ASSUME NEW p \in Procs, Crash(p) PROVE CancelInv'
  BY <1>8, <1>a DEF Crash, TypeOK, Procs
<1> QED
  BY <1>1, <1>2, <1>3, <1>4, <1>5, <1>6, <1>7, <1>8 DEF Next, Supervise, Cancel, CancelProceeds, Hook

\* A hook past its read holds a finished run.
LEMMA HookNext == IInv /\ [Next]_vars => HookInv'
<1> SUFFICES ASSUME IInv, [Next]_vars PROVE HookInv'
  OBVIOUS
<1> USE Distinct DEF HookInv, At, Goto
<1>a. TypeOK /\ HookInv
  BY DEF IInv
<1>1. CASE Launch
  BY <1>1, <1>a DEF Launch, LaunchWrite, LaunchStart, LaunchFail, TypeOK
<1>2. CASE SupLoad \/ SupBeginStep \/ SupSpawn \/ SupStepDone \/ SupStepFailed \/ SupFinish
  BY <1>2, <1>a DEF SupLoad, SupBeginStep, SupSpawn, SupStepDone, SupStepFailed, SupFinish,
     WriteTmp, TypeOK
<1>3. CASE SupLoadFails \/ SupGate \/ SupVerdict \/ SupExit
  BY <1>3, <1>a DEF SupLoadFails, SupGate, SupVerdict, SupExit, TypeOK
<1>4. CASE ChildExit \/ WatcherKill \/ UNCHANGED vars
  BY <1>4, <1>a DEF ChildExit, WatcherKill, vars
<1>5. ASSUME NEW p \in Procs, RenameTmp(p) PROVE HookInv'
  BY <1>5, <1>a DEF RenameTmp
<1>6. ASSUME NEW c \in Cancels, Cancel(c), ~RenameTmp(c) PROVE HookInv'
  BY <1>6, <1>a DEF Cancel, CancelProceeds, CancelRead, CancelRefused, CancelKill, CancelKillUnix,
     CancelKillWindows, CancelMark, CancelEnd, WriteTmp, TypeOK, vars
<1>7. ASSUME NEW h \in Hooks, Hook(h), ~RenameTmp(h) PROVE HookInv'
  <2>1. CASE HookRead(h) \/ HookEmit(h)
    BY <2>1, <1>a DEF HookRead, HookEmit, TypeOK
  <2>2. CASE HookFlip(h)
    <3>1. mem[h] \in Manifest /\ mem[h].state \in Finished
      BY <2>2, <1>a DEF HookFlip, TypeOK
    <3>2. [mem[h] EXCEPT !.reported = TRUE].state = mem[h].state
      BY <3>1 DEF Manifest
    <3> QED BY <2>2, <1>a, <3>1, <3>2 DEF HookFlip, WriteTmp, TypeOK
  <2> QED BY <1>7, <2>1, <2>2 DEF Hook
<1>8. ASSUME NEW p \in Procs, Crash(p) PROVE HookInv'
  BY <1>8, <1>a DEF Crash, TypeOK, Procs
<1> QED
  BY <1>1, <1>2, <1>3, <1>4, <1>5, <1>6, <1>7, <1>8 DEF Next, Supervise, Cancel, CancelProceeds, Hook

\* While the supervisor can write, nobody else is past the point of writing.
LEMMA OwnerNext == IInv /\ [Next]_vars => OwnerInv'
<1> SUFFICES ASSUME IInv, [Next]_vars PROVE OwnerInv'
  OBVIOUS
<1> USE Distinct DEF OwnerInv, SupOwnsFile, At, Goto
<1>a. TypeOK /\ ProcessInv /\ LaunchInv /\ CancelInv /\ HookInv /\ OwnerInv
  BY DEF IInv
<1>b. \A p \in Cancels \cup Hooks : SupOwnsFile => p \notin renaming
  BY <1>a DEF ProcessInv
<1>1. CASE Launch
  BY <1>1, <1>a DEF Launch, LaunchWrite, LaunchStart, LaunchFail, LaunchInv, ProcessInv, TypeOK, NoManifest
<1>2. CASE SupLoad \/ SupBeginStep \/ SupSpawn \/ SupStepDone \/ SupStepFailed
  <2>1. \A m \in Manifest : m.state = "running" /\ WriteTmp(Sup, m) =>
            tmp'.state = "running" \/ renaming' = renaming
    BY DEF WriteTmp
  <2>2. /\ file' = file
        /\ pc[Sup] \in {"load", "step", "spawn", "wait"}
        /\ Sup \notin renaming
        /\ pc' \in [Procs -> SupPC \cup CancelPC \cup HookPC]
        /\ pc'[Sup] \in {"step", "spawn", "wait", "gate", "final"}
        /\ \A p \in Procs \ {Sup} : pc'[p] = pc[p]
    BY <1>2, <1>a DEF SupLoad, SupBeginStep, SupSpawn, SupStepDone, SupStepFailed, TypeOK,
       SupPC, CancelPC, HookPC
  <2>3. /\ renaming' \in {renaming, renaming \cup {Sup}}
        /\ Sup \in renaming' => tmp'.state = "running"
    <3>1. mem[Sup] \in Manifest /\ file \in Manifest /\ cur \in Step
      BY <1>a DEF TypeOK
    <3>2. CASE SupLoad
      <4>1. [file EXCEPT !.claimed = TRUE].state = "running"
        BY <3>1, <3>2, <1>a DEF SupLoad, LaunchInv, Manifest
      <4> QED BY <3>2, <4>1, <2>2 DEF SupLoad, WriteTmp
    <3>3. CASE SupSpawn
      <4>1. mem[Sup].state = "running"
        BY <3>3, <1>a DEF SupSpawn, IInv, SupInv
      <4> QED BY <3>3, <4>1, <2>2 DEF SupSpawn, WriteTmp
    <3>4. CASE SupBeginStep \/ SupStepDone \/ SupStepFailed
      <4>1. mem[Sup].state = "running"
        BY <3>4, <1>a DEF SupBeginStep, SupStepDone, SupStepFailed, IInv, SupInv
      <4>2. \A x : [mem[Sup] EXCEPT !.step[cur] = x].state = "running"
        BY <3>1, <4>1 DEF Manifest
      <4> QED BY <3>4, <4>2, <2>2 DEF SupBeginStep, SupStepDone, SupStepFailed, WriteTmp
    <3> QED BY <1>2, <3>2, <3>3, <3>4
  <2>4. SupOwnsFile
    BY <2>2
  <2> QED BY <1>a, <1>b, <2>2, <2>3, <2>4
<1>3. CASE SupFinish
  <2>1. SupOwnsFile
    BY <1>3 DEF SupFinish
  <2> QED BY <1>3, <1>a, <1>b, <2>1 DEF SupFinish, WriteTmp, TypeOK
<1>4. CASE SupLoadFails \/ SupGate \/ SupVerdict \/ SupExit
  BY <1>4, <1>a DEF SupLoadFails, SupGate, SupVerdict, SupExit, TypeOK
<1>5. CASE ChildExit \/ WatcherKill \/ UNCHANGED vars
  BY <1>5, <1>a DEF ChildExit, WatcherKill, vars
<1>6. CASE RenameTmp(Sup)
  <2>1. file'.state \in {"absent", "running"} \/ pc[Sup] = "exit"
    BY <1>6, <1>a DEF RenameTmp
  <2>2. SupOwnsFile
    BY <1>6 DEF RenameTmp
  <2> QED BY <1>6, <1>a, <1>b, <2>1, <2>2 DEF RenameTmp, NoManifest
<1>7. ASSUME NEW p \in Cancels \cup Hooks, RenameTmp(p) PROVE OwnerInv'
  <2>1. ~SupOwnsFile
    BY <1>7, <1>b DEF RenameTmp
  <2>2. Sup \notin renaming'
    BY <1>7, <2>1 DEF RenameTmp
  <2> QED BY <1>7, <1>a, <2>1, <2>2 DEF RenameTmp, NoManifest
<1>8. ASSUME NEW c \in Cancels, Cancel(c), ~RenameTmp(c) PROVE OwnerInv'
  <2> USE DEF TypeOK, ProcessInv
  <2>1. CASE CancelRead(c) \/ CancelRefused(c)
    BY <2>1, <1>a DEF CancelRead, CancelRefused, vars
  <2>2. CASE CancelKill(c)
    BY <2>2, <1>a DEF CancelKill, CancelKillUnix, CancelKillWindows, SupAlive, CancelInv
  <2>3. CASE CancelMark(c)
    <3>1. mem[c] \in Manifest /\ markDispatchCancelled(mem[c]).state = "cancelled"
      BY <1>a DEF markDispatchCancelled, Manifest
    <3>2. pc[Sup] = "gone" /\ Sup \notin renaming
      BY <2>3, <1>a DEF CancelMark, CancelInv
    <3> QED BY <2>3, <1>a, <3>1, <3>2 DEF CancelMark, WriteTmp, Terminal
  <2>4. CASE CancelEnd(c)
    BY <2>4, <1>a DEF CancelEnd, CancelInv
  <2> QED BY <1>8, <2>1, <2>2, <2>3, <2>4 DEF Cancel, CancelProceeds
<1>9. ASSUME NEW h \in Hooks, Hook(h), ~RenameTmp(h) PROVE OwnerInv'
  <2> USE DEF TypeOK, ProcessInv
  <2>1. ~SupOwnsFile /\ Sup \notin renaming
    BY <1>9, <1>a DEF Hook, HookRead, HookFlip, HookEmit, Finished
  <2>2. CASE HookRead(h) \/ HookEmit(h)
    BY <2>1, <2>2, <1>a DEF HookRead, HookEmit
  <2>3. CASE HookFlip(h)
    <3>1. [mem[h] EXCEPT !.reported = TRUE].state \in Finished
      BY <2>3, <1>a DEF HookFlip, HookInv, Manifest
    <3> QED BY <2>1, <2>3, <1>a, <3>1 DEF HookFlip, WriteTmp, Terminal
  <2> QED BY <1>9, <2>2, <2>3 DEF Hook
<1>10. ASSUME NEW p \in Procs, Crash(p) PROVE OwnerInv'
  <2>1. CASE p = Sup
    BY <1>10, <2>1, <1>a DEF Crash, TypeOK
  <2>2. CASE p # Sup
    BY <1>10, <2>2, <1>a DEF Crash, TypeOK, ProcessInv, Procs
  <2> QED BY <2>1, <2>2
<1> QED
  BY <1>1, <1>2, <1>3, <1>4, <1>5, <1>6, <1>7, <1>8, <1>9, <1>10
  DEF Next, Supervise, Cancel, CancelProceeds, Hook

\* The supervisor's copy fits its place in the loop.
LEMMA SupNext == IInv /\ [Next]_vars => SupInv'
<1> SUFFICES ASSUME IInv, [Next]_vars PROVE SupInv'
  OBVIOUS
<1> USE Distinct DEF SupInv, DoneBelow, PendingAbove, AllDone, At, Goto
<1>a. TypeOK /\ ProcessInv /\ LaunchInv /\ SupInv
  BY DEF IInv
<1>b. mem[Sup] \in Manifest /\ cur \in Step /\ agents \subseteq Step
  BY <1>a DEF TypeOK
<1>1. CASE Launch
  BY <1>1, <1>a DEF Launch, LaunchWrite, LaunchStart, LaunchFail, LaunchInv, TypeOK
<1>2. CASE SupLoad
  <2> DEFINE m == [file EXCEPT !.claimed = TRUE]
  <2>1. /\ m.state = "running" /\ m.verify = "none"
        /\ \A i \in Step : m.step[i] = "pending"
    <3>1. file.state = "running" /\ file \in Manifest
      BY <1>2, <1>a DEF SupLoad, LaunchInv, IInv, OwnerInv, SupOwnsFile, TypeOK
    <3> QED BY <1>2, <1>a, <3>1 DEF SupLoad, LaunchInv, Manifest
  <2>2. mem'[Sup] = m /\ pc'[Sup] = "step" /\ cur' = 1 /\ agents' = agents /\ agentWork' = FALSE
    BY <1>2, <1>a DEF SupLoad, WriteTmp, TypeOK, LaunchInv
  <2>3. 1 \in Step /\ \A i \in Step : ~(i < 1)
    BY DEF Step
  <2> HIDE DEF m
  <2>4. DoneBelow(m, 1) /\ PendingAbove(m, 1) /\ m.step[1] = "pending"
    BY <2>1, <2>3
  <2>5. ~(\E i \in agents : i < 1)
    BY <2>3, <1>b
  <2> QED BY <2>1, <2>2, <2>4, <2>5
<1>3. CASE SupBeginStep
  <2> DEFINE m == [mem[Sup] EXCEPT !.step[cur] = "running"]
  <2>1. /\ m.state = mem[Sup].state /\ m.verify = mem[Sup].verify
        /\ m.step[cur] = "running"
        /\ \A i \in Step : i # cur => m.step[i] = mem[Sup].step[i]
    BY <1>b DEF Manifest
  <2>2. mem'[Sup] = m /\ pc'[Sup] = "spawn" /\ cur' = cur /\ agents' = agents /\ agentWork' = agentWork
    BY <1>3, <1>a DEF SupBeginStep, WriteTmp, TypeOK
  <2>3. /\ mem[Sup].state = "running" /\ mem[Sup].verify = "none"
        /\ DoneBelow(mem[Sup], cur) /\ PendingAbove(mem[Sup], cur)
        /\ agentWork = (\E i \in agents : i < cur)
    BY <1>3, <1>a DEF SupBeginStep
  <2> HIDE DEF m
  <2>4. DoneBelow(m, cur) /\ PendingAbove(m, cur)
    BY <1>b, <2>1, <2>3 DEF Step
  <2> QED BY <2>1, <2>2, <2>3, <2>4
<1>4. CASE SupSpawn
  <2>1. mem'[Sup] = mem[Sup] /\ pc'[Sup] = "wait" /\ cur' = cur /\ agents' = agents
    BY <1>4, <1>a DEF SupSpawn, WriteTmp, TypeOK
  <2>2. agentWork' = (\E i \in agents : i <= cur)
    <3>1. \A i \in agents : i <= cur <=> (i < cur \/ i = cur)
      BY <1>b DEF Step
    <3>2. agentWork = (\E i \in agents : i < cur)
      BY <1>4, <1>a DEF SupSpawn
    <3>3. agentWork' = (agentWork \/ cur \in agents)
      BY <1>4 DEF SupSpawn
    <3> QED BY <3>1, <3>2, <3>3
  <2> QED BY <1>4, <1>a, <2>1, <2>2 DEF SupSpawn
<1>5. CASE SupStepDone
  <2> DEFINE m == [mem[Sup] EXCEPT !.step[cur] = "done"]
  <2>1. /\ m.state = mem[Sup].state /\ m.verify = mem[Sup].verify
        /\ m.step[cur] = "done"
        /\ \A i \in Step : i # cur => m.step[i] = mem[Sup].step[i]
    BY <1>b DEF Manifest
  <2>2. mem'[Sup] = m /\ agents' = agents /\ agentWork' = agentWork
    BY <1>5, <1>a DEF SupStepDone, WriteTmp, TypeOK
  <2>3. CASE cur < N
    <3>1. cur' = cur + 1 /\ pc'[Sup] = "step"
      BY <1>5, <2>3, <1>a DEF SupStepDone, TypeOK
    <3>2. cur + 1 \in Step
      BY <2>3, <1>b DEF Step
    <3> HIDE DEF m
    <3> QED BY <1>5, <1>a, <1>b, <2>1, <2>2, <3>1, <3>2 DEF SupStepDone, Step
  <2>4. CASE ~(cur < N)
    <3>1. cur' = cur /\ pc'[Sup] = "gate"
      BY <1>5, <2>4, <1>a DEF SupStepDone, TypeOK
    <3>2. cur = N /\ \A i \in Step : i <= N
      BY <2>4, <1>b DEF Step
    <3> HIDE DEF m
    <3>3. AllDone(m) /\ m.state = "running" /\ m.verify = "none"
      BY <1>5, <1>a, <1>b, <2>1, <3>2 DEF SupStepDone, Step
    <3>4. agentWork = (agents # {})
      BY <1>5, <1>a, <1>b, <3>2 DEF SupStepDone
    <3> QED BY <2>2, <3>1, <3>3, <3>4
  <2> QED BY <2>3, <2>4
<1>6. CASE SupStepFailed
  <2> DEFINE m == [mem[Sup] EXCEPT !.step[cur] = "failed"]
  <2>1. /\ m.state = mem[Sup].state /\ m.verify = mem[Sup].verify
        /\ m.step[cur] = "failed"
        /\ \A i \in Step : i # cur => m.step[i] = mem[Sup].step[i]
    BY <1>b DEF Manifest
  <2>2. mem'[Sup] = m /\ pc'[Sup] = "final" /\ cur' = cur /\ agents' = agents
    BY <1>6, <1>a DEF SupStepFailed, WriteTmp, TypeOK
  <2> HIDE DEF m
  <2> QED BY <1>6, <1>a, <1>b, <2>1, <2>2 DEF SupStepFailed, Step
<1>7. CASE SupGate
  <2>1. CASE agentWork
    BY <1>7, <2>1, <1>a DEF SupGate, TypeOK
  <2>2. CASE ~agentWork
    <3> DEFINE m == [mem[Sup] EXCEPT !.verify = "skipped"]
    <3>1. m.state = mem[Sup].state /\ m.step = mem[Sup].step /\ m.verify = "skipped"
      BY <1>b DEF Manifest
    <3>2. mem'[Sup] = m /\ pc'[Sup] = "final" /\ agents' = agents
      BY <1>7, <2>2, <1>a DEF SupGate, TypeOK
    <3> HIDE DEF m
    <3> QED BY <1>7, <2>2, <1>a, <3>1, <3>2 DEF SupGate
  <2> QED BY <2>1, <2>2
<1>8. CASE SupVerdict
  <2> DEFINE m == [mem[Sup] EXCEPT !.verify = IF child = "ok" THEN "passed" ELSE "failed"]
  <2>1. m.state = mem[Sup].state /\ m.step = mem[Sup].step /\ m.verify \in {"passed", "failed"}
    BY <1>b DEF Manifest
  <2>2. mem'[Sup] = m /\ pc'[Sup] = "final" /\ agents' = agents
    BY <1>8, <1>a DEF SupVerdict, TypeOK
  <2> HIDE DEF m
  <2> QED BY <1>8, <1>a, <2>1, <2>2 DEF SupVerdict
<1>9. CASE SupFinish \/ SupLoadFails \/ SupExit
  <2>1. pc'[Sup] \in {"exit", "gone"}
    BY <1>9, <1>a DEF SupFinish, SupLoadFails, SupExit, TypeOK
  <2> QED BY <2>1
<1>10. CASE ChildExit \/ WatcherKill \/ UNCHANGED vars
  BY <1>10, <1>a DEF ChildExit, WatcherKill, vars
<1>11. ASSUME NEW p \in Procs, RenameTmp(p) PROVE SupInv'
  BY <1>11, <1>a DEF RenameTmp
<1>12. ASSUME NEW c \in Cancels, Cancel(c), ~RenameTmp(c) PROVE SupInv'
  <2>1. /\ mem'[Sup] = mem[Sup] /\ cur' = cur /\ agents' = agents /\ agentWork' = agentWork
        /\ pc'[Sup] \in {pc[Sup], "gone"}
    BY <1>12, <1>a DEF Cancel, CancelProceeds, CancelRead, CancelRefused, CancelKill, CancelKillUnix,
       CancelKillWindows, CancelMark, CancelEnd, WriteTmp, TypeOK, vars
  <2> QED BY <2>1, <1>a
<1>13. ASSUME NEW h \in Hooks, Hook(h), ~RenameTmp(h) PROVE SupInv'
  <2>1. /\ mem'[Sup] = mem[Sup] /\ cur' = cur /\ agents' = agents /\ agentWork' = agentWork
        /\ pc'[Sup] = pc[Sup]
    BY <1>13, <1>a DEF Hook, HookRead, HookFlip, HookEmit, WriteTmp, TypeOK
  <2> QED BY <2>1, <1>a
<1>14. ASSUME NEW p \in Procs, Crash(p) PROVE SupInv'
  <2>1. /\ mem'[Sup] = mem[Sup] /\ cur' = cur /\ agents' = agents /\ agentWork' = agentWork
        /\ pc'[Sup] \in {pc[Sup], "gone"}
    BY <1>14, <1>a DEF Crash, TypeOK
  <2> QED BY <2>1, <1>a
<1> QED
  BY <1>1, <1>2, <1>3, <1>4, <1>5, <1>6, <1>7, <1>8, <1>9, <1>10, <1>11, <1>12, <1>13, <1>14
  DEF Next, Supervise, Cancel, CancelProceeds, Hook

-----------------------------------------------------------------------------
(* Every copy of the manifest tells the truth.                             *)

\* A copy that shows no outcome claims nothing.
LEMMA GoodUnfinished ==
    ASSUME NEW m, m.state \notin Finished
    PROVE  Good(m)
  BY DEF Good, Honest, Explained, Finished

\* Editing what the outcome does not depend on keeps a copy good.
LEMMA GoodReported ==
    ASSUME NEW m \in Manifest, Good(m)
    PROVE  Good([m EXCEPT !.reported = TRUE])
  BY DEF Good, Honest, Explained, Manifest

\* The label the supervisor gives a run follows from its copy.
LEMMA GoodFinish ==
    ASSUME TypeOK, SupInv, pc[Sup] = "final"
    PROVE  Good([mem[Sup] EXCEPT !.state = IF SupFailed THEN "failed" ELSE "done"])
<1> DEFINE m == mem[Sup]
           f == [m EXCEPT !.state = IF SupFailed THEN "failed" ELSE "done"]
<1> SUFFICES Good(f)
  OBVIOUS
<1>1. m \in Manifest /\ cur \in Step
  BY Distinct DEF TypeOK
<1>2. /\ f.state = IF SupFailed THEN "failed" ELSE "done"
      /\ f.step = m.step /\ f.verify = m.verify
  BY <1>1 DEF Manifest
<1>3. SupFailed <=> (m.verify = "failed" \/ \E i \in Step : m.step[i] = "failed")
  BY DEF SupFailed
<1>4. \/ AllDone(m) /\ m.verify = "skipped" /\ agents = {}
      \/ AllDone(m) /\ m.verify \in {"passed", "failed"} /\ agents # {}
      \/ /\ DoneBelow(m, cur)
         /\ PendingAbove(m, cur)
         /\ m.step[cur] = "failed"
         /\ m.verify = "none"
  BY DEF SupInv
<1> HIDE DEF m, f
<1>5. CASE AllDone(m) /\ m.verify = "skipped" /\ agents = {}
  BY <1>2, <1>3, <1>5 DEF Good, Honest, Explained, AllDone
<1>6. CASE AllDone(m) /\ m.verify \in {"passed", "failed"} /\ agents # {}
  BY <1>2, <1>3, <1>6 DEF Good, Honest, Explained, AllDone
<1>7. CASE /\ DoneBelow(m, cur)
           /\ PendingAbove(m, cur)
           /\ m.step[cur] = "failed"
           /\ m.verify = "none"
  BY <1>1, <1>2, <1>3, <1>7 DEF Good, Honest, Explained, DoneBelow, PendingAbove
<1> QED BY <1>4, <1>5, <1>6, <1>7

\* A write keeps the copies good if what it writes is good.
LEMMA GoodWrite ==
    ASSUME TypeOK, CopiesInv, NEW p \in Procs, NEW m, Good(m),
           WriteTmp(p, m), file' = file, agents' = agents
    PROVE  CopiesInv'
  BY DEF CopiesInv, Good, Honest, Explained, WriteTmp, TypeOK

LEMMA CopiesNext == IInv /\ [Next]_vars => CopiesInv'
<1> SUFFICES ASSUME IInv, [Next]_vars PROVE CopiesInv'
  OBVIOUS
<1> USE Distinct
<1>a. TypeOK /\ LaunchInv /\ OwnerInv /\ SupInv /\ CopiesInv
  BY DEF IInv
<1>b. /\ Good(NoManifest)
      /\ Good([NoManifest EXCEPT !.state = "running"])
  BY GoodUnfinished DEF NoManifest, Finished
<1>c. /\ mem[Sup] \in Manifest /\ file \in Manifest
      /\ \A x, i : [mem[Sup] EXCEPT !.step[i] = x].state = mem[Sup].state
      /\ \A v : [mem[Sup] EXCEPT !.verify = v].state = mem[Sup].state
      /\ [file EXCEPT !.claimed = TRUE].state = file.state
  BY <1>a DEF TypeOK, Manifest
<1>1. CASE Launch
  <2>1. [NoManifest EXCEPT !.state = "running"].state = "running"
    BY DEF NoManifest
  <2>2. CASE LaunchWrite
    BY <2>1, <2>2, <1>a DEF LaunchWrite, CopiesInv, Good, Honest, Explained
  <2>3. CASE LaunchStart \/ LaunchFail
    BY <2>3, <1>a DEF LaunchStart, LaunchFail, CopiesInv, Good, Honest, Explained
  <2> QED BY <1>1, <2>2, <2>3 DEF Launch
<1>2. CASE SupLoad
  <2>1. file.state = "running"
    BY <1>2, <1>a DEF SupLoad, At, LaunchInv, OwnerInv, SupOwnsFile
  <2>2. Good([file EXCEPT !.claimed = TRUE])
    BY <1>c, <2>1, GoodUnfinished DEF Finished
  <2> QED BY <1>2, <1>a, <2>2, GoodWrite DEF SupLoad
<1>3. CASE SupBeginStep \/ SupStepDone \/ SupStepFailed
  <2>1. mem[Sup].state = "running"
    BY <1>3, <1>a DEF SupBeginStep, SupStepDone, SupStepFailed, At, SupInv
  <2>2. \A x : Good([mem[Sup] EXCEPT !.step[cur] = x])
    BY <1>c, <2>1, GoodUnfinished DEF Finished
  <2> QED BY <1>3, <1>a, <2>2, GoodWrite DEF SupBeginStep, SupStepDone, SupStepFailed
<1>4. CASE SupSpawn
  <2>1. Good(mem[Sup])
    BY <1>a DEF CopiesInv
  <2>2. CASE WriteTmp(Sup, mem[Sup])
    BY <1>4, <1>a, <2>1, <2>2, GoodWrite DEF SupSpawn
  <2>3. CASE UNCHANGED <<tmp, mem, renaming, faults>>
    BY <1>4, <1>a, <2>3 DEF SupSpawn, CopiesInv, Good, Honest, Explained
  <2> QED BY <1>4, <2>2, <2>3 DEF SupSpawn
<1>5. CASE SupGate \/ SupVerdict
  <2>1. mem[Sup].state = "running"
    BY <1>5, <1>a DEF SupGate, SupVerdict, At, SupInv
  <2>2. Good(mem'[Sup])
    <3>1. mem'[Sup] = mem[Sup] \/ \E v : mem'[Sup] = [mem[Sup] EXCEPT !.verify = v]
      BY <1>5, <1>a DEF SupGate, SupVerdict, TypeOK
    <3>2. mem'[Sup].state = "running"
      BY <1>c, <2>1, <3>1
    <3> QED BY <3>2, GoodUnfinished DEF Finished
  <2>3. \A p \in Procs : Good(mem'[p])
    BY <1>5, <1>a, <2>2 DEF SupGate, SupVerdict, CopiesInv, TypeOK
  <2> QED BY <1>5, <1>a, <2>3 DEF SupGate, SupVerdict, CopiesInv, Good, Honest, Explained
<1>6. CASE SupFinish
  BY <1>6, <1>a, GoodFinish, GoodWrite DEF SupFinish, At
<1>7. CASE SupLoadFails \/ SupExit \/ ChildExit \/ WatcherKill \/ UNCHANGED vars
  BY <1>7, <1>a DEF SupLoadFails, SupExit, ChildExit, WatcherKill, vars, CopiesInv, Good, Honest, Explained
<1>8. ASSUME NEW p \in Procs, RenameTmp(p) PROVE CopiesInv'
  BY <1>8, <1>a, <1>b DEF RenameTmp, CopiesInv, Good, Honest, Explained
<1>9. ASSUME NEW c \in Cancels, Cancel(c), ~RenameTmp(c) PROVE CopiesInv'
  <2>1. CASE CancelMark(c)
    <3>1. mem[c] \in Manifest
      BY <1>a DEF TypeOK
    <3>2. Good(markDispatchCancelled(mem[c]))
      BY <3>1, GoodUnfinished DEF markDispatchCancelled, Manifest, Finished
    <3> QED BY <2>1, <1>a, <3>2, GoodWrite DEF CancelMark
  <2>2. CASE CancelRead(c) \/ CancelRefused(c) \/ CancelKill(c) \/ CancelEnd(c)
    <3>1. /\ file' = file /\ tmp' = tmp /\ agents' = agents
          /\ \A p \in Procs : mem'[p] \in {mem[p], file, NoManifest}
      BY <2>2, <1>a DEF CancelRead, CancelRefused, CancelKill, CancelKillUnix, CancelKillWindows, CancelEnd,
         TypeOK, vars
    <3> QED BY <3>1, <1>a, <1>b DEF CopiesInv, Good, Honest, Explained
  <2> QED BY <1>9, <2>1, <2>2 DEF Cancel, CancelProceeds
<1>10. ASSUME NEW h \in Hooks, Hook(h), ~RenameTmp(h) PROVE CopiesInv'
  <2>1. CASE HookFlip(h)
    <3>1. Good([mem[h] EXCEPT !.reported = TRUE])
      BY <1>a, GoodReported DEF CopiesInv, TypeOK
    <3> QED BY <2>1, <1>a, <3>1, GoodWrite DEF HookFlip
  <2>2. CASE HookRead(h) \/ HookEmit(h)
    <3>1. /\ file' = file /\ tmp' = tmp /\ agents' = agents
          /\ \A p \in Procs : mem'[p] \in {mem[p], file, NoManifest}
      BY <2>2, <1>a DEF HookRead, HookEmit, TypeOK
    <3> QED BY <3>1, <1>a, <1>b DEF CopiesInv, Good, Honest, Explained
  <2> QED BY <1>10, <2>1, <2>2 DEF Hook
<1>11. ASSUME NEW p \in Procs, Crash(p) PROVE CopiesInv'
  <2>1. /\ file' = file /\ tmp' = tmp /\ agents' = agents
        /\ \A q \in Procs : mem'[q] \in {mem[q], NoManifest}
    BY <1>11, <1>a DEF Crash, TypeOK
  <2> QED BY <2>1, <1>a, <1>b DEF CopiesInv, Good, Honest, Explained
<1> QED
  BY <1>1, <1>2, <1>3, <1>4, <1>5, <1>6, <1>7, <1>8, <1>9, <1>10, <1>11
  DEF Next, Supervise, Cancel, CancelProceeds, Hook

-----------------------------------------------------------------------------
(* Theorems.                                                               *)

LEMMA NextInv == IInv /\ [Next]_vars => IInv'
  BY NextType, ProcessNext, LaunchNext, CancelNext, HookNext, OwnerNext, CopiesNext, SupNext DEF IInv

\* The invariant is inductive, so it always holds.
THEOREM Invariance == Spec => []IInv
  BY InitInv, NextInv, PTL DEF Spec

\* A manifest that says done is the truth, for every number of processes and
\* steps and whatever writes fail and processes die.
THEOREM DoneHonest == Spec => []DoneIsHonest
<1>1. IInv => DoneIsHonest
  BY DEF IInv, CopiesInv, Good, DoneIsHonest
<1> QED BY <1>1, Invariance, PTL

\* A manifest that says failed shows why.
THEOREM FailedExplained == Spec => []FailedIsExplained
<1>1. IInv => FailedIsExplained
  BY DEF IInv, CopiesInv, Good, FailedIsExplained
<1> QED BY <1>1, Invariance, PTL

\* Both: final labels are true.
THEOREM LabelsTrue == Spec => []LabelsAreTrue
<1>1. DoneIsHonest /\ FailedIsExplained => LabelsAreTrue
  BY DEF LabelsAreTrue
<1> QED BY <1>1, DoneHonest, FailedExplained, PTL

\* Only the supervisor writes "running", and it does not once the file shows
\* a terminal label.
THEOREM NeverBack == Spec => NeverBackToRunning
<1>1. IInv /\ [Next]_vars => [file.state \in Terminal => file'.state \in Terminal]_vars
  <2> SUFFICES ASSUME IInv, [Next]_vars, file.state \in Terminal, file' # file
               PROVE  file'.state \in Terminal
    OBVIOUS
  <2>1. PICK p \in Procs : RenameTmp(p)
    <3>1. ~LaunchWrite
      BY DEF IInv, LaunchInv, LaunchWrite, Terminal, Finished
    <3> QED BY <3>1, Distinct DEF Next, Launch, Supervise, Cancel, CancelProceeds, Hook, vars,
         LaunchStart, LaunchFail, SupLoad, SupLoadFails, SupBeginStep, SupSpawn, SupStepDone,
         SupStepFailed, SupGate, SupVerdict, SupFinish, SupExit, ChildExit, WatcherKill,
         CancelRead, CancelRefused, CancelKill, CancelKillUnix, CancelKillWindows, CancelMark, CancelEnd,
         HookRead, HookFlip, HookEmit, Crash
  <2>2. ~SupOwnsFile
    BY DEF IInv, OwnerInv, Terminal, Finished
  <2>3. p \in Cancels \cup Hooks
    BY <2>1, <2>2 DEF RenameTmp, SupOwnsFile, Procs
  <2> QED BY <2>1, <2>3 DEF IInv, OwnerInv, RenameTmp
<1> QED BY <1>1, Invariance, PTL DEF Spec, NeverBackToRunning

\* No child is started once the manifest shows the run over.
THEOREM NoLaunch == Spec => NoLaunchAfterTerminal
<1>1. IInv /\ [Next]_vars =>
        [(child # "alive" /\ child' = "alive") => file.state = "running"]_vars
  <2> SUFFICES ASSUME IInv, [Next]_vars, child # "alive", child' = "alive"
               PROVE  file.state = "running"
    OBVIOUS
  <2>1. SupSpawn \/ SupGate
    BY DEF Next, Launch, Supervise, Cancel, CancelProceeds, Hook, vars, RenameTmp,
       LaunchWrite, LaunchStart, LaunchFail, SupLoad, SupLoadFails, SupBeginStep, SupStepDone,
       SupStepFailed, SupVerdict, SupFinish, SupExit, ChildExit, WatcherKill, ChildAfterKill,
       CancelRead, CancelRefused, CancelKill, CancelKillUnix, CancelKillWindows, CancelMark, CancelEnd,
       HookRead, HookFlip, HookEmit, Crash
  <2>2. pc[Sup] \in {"spawn", "gate"}
    BY <2>1 DEF SupSpawn, SupGate, At
  <2> QED BY <2>2 DEF IInv, OwnerInv, SupOwnsFile, LaunchInv
<1> QED BY <1>1, Invariance, PTL DEF Spec, NoLaunchAfterTerminal

-----------------------------------------------------------------------------
(* The processes over the manifest implement the run's lifecycle.          *)

\* Between two children nothing runs, and every finished copy shows the
\* outcome the supervisor reached.
ShowsOutcome(m) == m.state \in Finished => m.state = mem[Sup].state

OutcomeInv ==
    /\ pc[Sup] \in {"none", "load", "step", "spawn", "gate", "final", "exit"} => child # "alive"
    /\ ShowsOutcome(file)
    /\ ShowsOutcome(tmp)
    /\ \A p \in Procs : ShowsOutcome(mem[p])

LEMMA OutcomeNext == IInv /\ OutcomeInv /\ [Next]_vars => OutcomeInv'
<1> SUFFICES ASSUME IInv, OutcomeInv, [Next]_vars PROVE OutcomeInv'
  OBVIOUS
<1> USE Distinct
<1>a. TypeOK /\ ProcessInv /\ LaunchInv /\ OwnerInv /\ SupInv
  BY DEF IInv
<1>c. /\ mem[Sup] \in Manifest /\ file \in Manifest
      /\ [file EXCEPT !.claimed = TRUE].state = file.state
  BY <1>a DEF TypeOK, Manifest
<1>1. CASE Launch
  <2>1. [NoManifest EXCEPT !.state = "running"].state = "running"
    BY DEF NoManifest
  <2> QED BY <1>1, <2>1, <1>a DEF Launch, LaunchWrite, LaunchStart, LaunchFail, OutcomeInv,
       ShowsOutcome, Goto, TypeOK, LaunchInv, Finished
<1>2. CASE SupLoad
  <2>1. file.state = "running" /\ mem[Sup].state = "absent" /\ child # "alive"
    BY <1>2, <1>a DEF SupLoad, At, LaunchInv, OwnerInv, SupOwnsFile, SupInv
  <2>2. mem'[Sup] = [file EXCEPT !.claimed = TRUE]
    BY <1>2, <1>a DEF SupLoad, WriteTmp, TypeOK
  <2> QED BY <1>2, <1>a, <1>c, <2>1, <2>2 DEF SupLoad, WriteTmp, OutcomeInv, ShowsOutcome, Finished, TypeOK
<1>3. CASE SupBeginStep \/ SupSpawn \/ SupStepDone \/ SupStepFailed
  <2>1. mem[Sup].state = "running"
    BY <1>3, <1>a DEF SupBeginStep, SupSpawn, SupStepDone, SupStepFailed, At, SupInv
  <2>2. \/ mem'[Sup] = mem[Sup]
        \/ \E x : mem'[Sup] = [mem[Sup] EXCEPT !.step[cur] = x]
    <3>1. CASE SupSpawn
      BY <3>1, <1>a DEF SupSpawn, WriteTmp, TypeOK
    <3>2. CASE SupBeginStep \/ SupStepDone \/ SupStepFailed
      BY <3>2, <1>a DEF SupBeginStep, SupStepDone, SupStepFailed, WriteTmp, TypeOK
    <3> QED BY <1>3, <3>1, <3>2
  <2>20. mem'[Sup].state = "running"
    <3>1. ASSUME NEW x, mem'[Sup] = [mem[Sup] EXCEPT !.step[cur] = x]
          PROVE  mem'[Sup].state = "running"
      <4>1. mem[Sup] \in Manifest
        BY <1>c
      <4>2. [mem[Sup] EXCEPT !.step[cur] = x].state = mem[Sup].state
        BY <4>1 DEF Manifest
      <4> QED BY <2>1, <3>1, <4>2
    <3> QED BY <2>1, <2>2, <3>1
  <2>3. \A p \in Procs : p # Sup => mem'[p] = mem[p]
    BY <1>3, <1>a DEF SupBeginStep, SupSpawn, SupStepDone, SupStepFailed, WriteTmp, TypeOK
  <2>4. file' = file /\ (tmp' = tmp \/ tmp' = mem'[Sup])
    <3>1. CASE SupSpawn
      BY <3>1, <1>a DEF SupSpawn, WriteTmp, TypeOK
    <3>2. CASE SupBeginStep \/ SupStepDone \/ SupStepFailed
      BY <3>2, <1>a DEF SupBeginStep, SupStepDone, SupStepFailed, WriteTmp, TypeOK
    <3> QED BY <1>3, <3>1, <3>2
  <2>5. pc'[Sup] \in {"none", "load", "step", "spawn", "gate", "final", "exit"} => child' # "alive"
    BY <1>3, <1>a DEF SupBeginStep, SupSpawn, SupStepDone, SupStepFailed, At, Goto, TypeOK, OutcomeInv
  <2> QED BY <2>1, <2>20, <2>3, <2>4, <2>5 DEF OutcomeInv, ShowsOutcome, Finished
<1>4. CASE SupGate \/ SupVerdict
  <2>1. mem[Sup].state = "running"
    BY <1>4, <1>a DEF SupGate, SupVerdict, At, SupInv
  <2>2. \/ mem'[Sup] = mem[Sup]
        \/ \E v : mem'[Sup] = [mem[Sup] EXCEPT !.verify = v]
    BY <1>4, <1>a DEF SupGate, SupVerdict, TypeOK
  <2>20. mem'[Sup].state = "running"
    <3>1. ASSUME NEW x, mem'[Sup] = [mem[Sup] EXCEPT !.verify = x]
          PROVE  mem'[Sup].state = "running"
      <4>1. mem[Sup] \in Manifest
        BY <1>c
      <4>2. [mem[Sup] EXCEPT !.verify = x].state = mem[Sup].state
        BY <4>1 DEF Manifest
      <4> QED BY <2>1, <3>1, <4>2
    <3> QED BY <2>1, <2>2, <3>1
  <2>3. \A p \in Procs : p # Sup => mem'[p] = mem[p]
    BY <1>4, <1>a DEF SupGate, SupVerdict, TypeOK
  <2>4. file' = file /\ tmp' = tmp
    BY <1>4 DEF SupGate, SupVerdict
  <2>5. pc'[Sup] \in {"none", "load", "step", "spawn", "gate", "final", "exit"} => child' # "alive"
    BY <1>4, <1>a DEF SupGate, SupVerdict, At, Goto, TypeOK, OutcomeInv
  <2> QED BY <2>1, <2>20, <2>3, <2>4, <2>5 DEF OutcomeInv, ShowsOutcome, Finished
<1>5. CASE SupFinish
  <2> DEFINE f == [mem[Sup] EXCEPT !.state = IF SupFailed THEN "failed" ELSE "done"]
  <2>1. mem[Sup].state = "running" /\ child # "alive"
    BY <1>5, <1>a DEF SupFinish, At, SupInv, OutcomeInv
  <2>2. mem' = [mem EXCEPT ![Sup] = f] /\ tmp' \in {tmp, f} /\ file' = file /\ child' = child
    BY <1>5 DEF SupFinish, WriteTmp
  <2> HIDE DEF f
  <2> QED BY <1>a, <2>1, <2>2 DEF OutcomeInv, ShowsOutcome, Finished, TypeOK
<1>6. CASE SupLoadFails \/ SupExit \/ UNCHANGED vars
  BY <1>6, <1>a DEF SupLoadFails, SupExit, vars, Goto, OutcomeInv, ShowsOutcome, TypeOK
<1>7. CASE ChildExit \/ WatcherKill
  <2>1. /\ child' # "alive" /\ mem' = mem /\ file' = file /\ tmp' = tmp
    BY <1>7 DEF ChildExit, WatcherKill
  <2> QED BY <2>1 DEF OutcomeInv, ShowsOutcome
<1>8. ASSUME NEW p \in Procs, RenameTmp(p) PROVE OutcomeInv'
  BY <1>8 DEF RenameTmp, OutcomeInv, ShowsOutcome, NoManifest, Finished
<1>9. ASSUME NEW c \in Cancels, Cancel(c), ~RenameTmp(c) PROVE OutcomeInv'
  <2>1. CASE CancelMark(c)
    <3>1. mem[c] \in Manifest
      BY <1>a DEF TypeOK
    <3>2. markDispatchCancelled(mem[c]).state = "cancelled"
      BY <3>1 DEF markDispatchCancelled, Manifest
    <3> QED BY <2>1, <1>a, <3>2 DEF CancelMark, WriteTmp, Goto, OutcomeInv, ShowsOutcome, Finished, TypeOK
  <2>2. CASE CancelRead(c) \/ CancelRefused(c) \/ CancelKill(c) \/ CancelEnd(c)
    <3>1. /\ file' = file /\ tmp' = tmp /\ mem'[Sup] = mem[Sup]
          /\ \A p \in Procs : mem'[p] \in {mem[p], file, NoManifest}
      BY <2>2, <1>a DEF CancelRead, CancelRefused, CancelKill, CancelKillUnix, CancelKillWindows, CancelEnd,
         TypeOK, vars
    <3>2. pc'[Sup] \in {pc[Sup], "gone"} /\ (child' = "alive" => child = "alive")
      BY <2>2, <1>a DEF CancelRead, CancelRefused, CancelKill, CancelKillUnix, CancelKillWindows, CancelEnd,
         ChildAfterKill, Goto, TypeOK, vars
    <3>3. NoManifest.state \notin Finished
      BY DEF NoManifest, Finished
    <3> QED BY <3>1, <3>2, <3>3 DEF OutcomeInv, ShowsOutcome
  <2> QED BY <1>9, <2>1, <2>2 DEF Cancel, CancelProceeds
<1>10. ASSUME NEW h \in Hooks, Hook(h), ~RenameTmp(h) PROVE OutcomeInv'
  <2>1. CASE HookFlip(h)
    <3>1. mem[h] \in Manifest
      BY <1>a DEF TypeOK
    <3>2. [mem[h] EXCEPT !.reported = TRUE].state = mem[h].state
      BY <3>1 DEF Manifest
    <3> QED BY <2>1, <1>a, <3>2 DEF HookFlip, WriteTmp, Goto, OutcomeInv, ShowsOutcome, TypeOK
  <2>2. CASE HookRead(h) \/ HookEmit(h)
    <3>1. /\ file' = file /\ tmp' = tmp /\ mem'[Sup] = mem[Sup] /\ child' = child
          /\ \A p \in Procs : mem'[p] \in {mem[p], file, NoManifest}
          /\ pc'[Sup] = pc[Sup]
      BY <2>2, <1>a DEF HookRead, HookEmit, Goto, TypeOK
    <3>2. NoManifest.state \notin Finished
      BY DEF NoManifest, Finished
    <3> QED BY <3>1, <3>2 DEF OutcomeInv, ShowsOutcome
  <2> QED BY <1>10, <2>1, <2>2 DEF Hook
<1>11. ASSUME NEW p \in Procs, Crash(p) PROVE OutcomeInv'
  <2>1. /\ file' = file /\ tmp' = tmp /\ mem'[Sup] = mem[Sup]
        /\ \A q \in Procs : mem'[q] \in {mem[q], NoManifest}
        /\ pc'[Sup] \in {pc[Sup], "gone"} /\ (child' = "alive" => child = "alive")
    BY <1>11, <1>a DEF Crash, ChildAfterKill, Goto, TypeOK
  <2>2. NoManifest.state \notin Finished
    BY DEF NoManifest, Finished
  <2> QED BY <2>1, <2>2 DEF OutcomeInv, ShowsOutcome
<1> QED
  BY <1>1, <1>2, <1>3, <1>4, <1>5, <1>6, <1>7, <1>8, <1>9, <1>10, <1>11
  DEF Next, Supervise, Cancel, CancelProceeds, Hook

LEMMA OutcomeInit == Init => OutcomeInv
  BY DEF Init, OutcomeInv, ShowsOutcome, NoManifest, Finished

\* On Windows the job object closes with the supervisor.
JobInv == platform = "windows" /\ pc[Sup] = "gone" => child # "alive"

\* The supervisor ends with no child running, or takes its child with it.
LEMMA JobNext == IInv /\ OutcomeInv /\ JobInv /\ [Next]_vars => JobInv'
<1> SUFFICES ASSUME IInv, OutcomeInv, JobInv, [Next]_vars PROVE JobInv'
  OBVIOUS
<1> USE Distinct DEF JobInv, At, Goto
<1>a. TypeOK /\ LaunchInv /\ OutcomeInv
  BY DEF IInv
<1>1. CASE Launch
  BY <1>1, <1>a DEF Launch, LaunchWrite, LaunchStart, LaunchFail, TypeOK
<1>2. CASE SupLoad \/ SupBeginStep \/ SupSpawn \/ SupStepDone \/ SupStepFailed
           \/ SupGate \/ SupVerdict \/ SupFinish
  BY <1>2, <1>a DEF SupLoad, SupBeginStep, SupSpawn, SupStepDone, SupStepFailed, SupGate,
     SupVerdict, SupFinish, TypeOK
<1>3. CASE SupLoadFails \/ SupExit
  BY <1>3, <1>a DEF SupLoadFails, SupExit, OutcomeInv, TypeOK
<1>4. CASE ChildExit \/ WatcherKill \/ UNCHANGED vars
  BY <1>4 DEF ChildExit, WatcherKill, vars
<1>5. ASSUME NEW p \in Procs, RenameTmp(p) PROVE JobInv'
  BY <1>5 DEF RenameTmp
<1>6. ASSUME NEW c \in Cancels, Cancel(c), ~RenameTmp(c) PROVE JobInv'
  BY <1>6, <1>a DEF Cancel, CancelProceeds, CancelRead, CancelRefused, CancelKill, CancelKillUnix,
     CancelKillWindows, CancelMark, CancelEnd, ChildAfterKill, TypeOK, vars
<1>7. ASSUME NEW h \in Hooks, Hook(h), ~RenameTmp(h) PROVE JobInv'
  BY <1>7, <1>a DEF Hook, HookRead, HookFlip, HookEmit, TypeOK
<1>8. ASSUME NEW p \in Procs, Crash(p) PROVE JobInv'
  BY <1>8, <1>a DEF Crash, TypeOK, ChildAfterKill
<1> QED
  BY <1>1, <1>2, <1>3, <1>4, <1>5, <1>6, <1>7, <1>8 DEF Next, Supervise, Cancel, CancelProceeds, Hook

\* When a cancel's terminateManagedTree has returned on Windows no managed child
\* of the run is running, whoever else cancels it and whoever is killed
\* (managed_cancel_windows.go).
THEOREM NoChildIsLeft == Spec => []NoChildSurvivesCancel
<1>1. Init => IInv /\ OutcomeInv /\ JobInv
  BY InitInv, OutcomeInit DEF Init, JobInv
<1>2. (IInv /\ OutcomeInv /\ JobInv) /\ [Next]_vars => (IInv /\ OutcomeInv /\ JobInv)'
  BY NextInv, OutcomeNext, JobNext
<1>3. IInv /\ JobInv => NoChildSurvivesCancel
  BY DEF IInv, CancelInv, JobInv, NoChildSurvivesCancel
<1> QED BY <1>1, <1>2, <1>3, PTL DEF Spec

\* The abstract run's outcome and worker, as the refinement mapping defines them.
RunOutcome == IF mem[Sup].state \in Finished THEN mem[Sup].state ELSE "none"
RunWorker  == IF child = "alive" THEN "busy" ELSE "idle"

\* Steps that keep the label, the outcome and whether a child runs are stutters.
LEMMA Stutter ==
    ASSUME file'.state = file.state, mem'[Sup].state = mem[Sup].state,
           (child' = "alive") = (child = "alive")
    PROVE  UNCHANGED RL!absVars
  BY DEF RL!absVars

\* The end of a child is EndWork.
LEMMA ChildEnds ==
    ASSUME file'.state = file.state, mem'[Sup].state = mem[Sup].state,
           child' = "alive" => child = "alive"
    PROVE  [RL!AbsNext]_(RL!absVars)
<1>1. CASE (child' = "alive") = (child = "alive")
  BY <1>1, Stutter
<1>2. CASE child = "alive" /\ child' # "alive"
  BY <1>2 DEF RL!AbsNext, RL!EndWork
<1> QED BY <1>1, <1>2

\* Every step of the run maps to a step of its lifecycle or to a stutter.
LEMMA StepRefines == IInv /\ OutcomeInv /\ [Next]_vars => [RL!AbsNext]_(RL!absVars)
<1> SUFFICES ASSUME IInv, OutcomeInv, [Next]_vars PROVE [RL!AbsNext]_(RL!absVars)
  OBVIOUS
<1> USE Distinct
<1>a. TypeOK /\ ProcessInv /\ LaunchInv /\ OwnerInv /\ SupInv /\ CancelInv
  BY DEF IInv
<1>c. /\ mem[Sup] \in Manifest /\ file \in Manifest
      /\ [file EXCEPT !.claimed = TRUE].state = file.state
  BY <1>a DEF TypeOK, Manifest
<1>1. CASE LaunchWrite
  <2>1. file.state = "absent" /\ file'.state = "running"
    BY <1>1, <1>a DEF LaunchWrite, LaunchInv, NoManifest
  <2> QED BY <1>1, <2>1 DEF LaunchWrite, RL!AbsNext, RL!Submit
<1>2. CASE LaunchStart \/ LaunchFail \/ SupLoadFails \/ SupExit \/ UNCHANGED vars
  BY <1>2, Stutter DEF LaunchStart, LaunchFail, SupLoadFails, SupExit, vars
<1>3. CASE SupLoad
  <2>1. file.state = "running" /\ mem[Sup].state = "absent"
    BY <1>3, <1>a DEF SupLoad, At, LaunchInv, OwnerInv, SupOwnsFile, SupInv
  <2>2. mem'[Sup] = [file EXCEPT !.claimed = TRUE] /\ file' = file /\ child' = child
    BY <1>3, <1>a DEF SupLoad, WriteTmp, TypeOK
  <2> QED BY <1>c, <2>1, <2>2 DEF RL!absVars, Finished
<1>4. CASE SupBeginStep \/ SupStepDone \/ SupStepFailed
  <2>1. \E x : mem'[Sup] = [mem[Sup] EXCEPT !.step[cur] = x]
    BY <1>4, <1>a DEF SupBeginStep, SupStepDone, SupStepFailed, WriteTmp, TypeOK
  <2>2. file' = file /\ (child' = "alive") = (child = "alive")
    BY <1>4 DEF SupBeginStep, SupStepDone, SupStepFailed
  <2>3. mem'[Sup].state = mem[Sup].state
    <3>1. PICK x : mem'[Sup] = [mem[Sup] EXCEPT !.step[cur] = x]
      BY <2>1
    <3>2. [mem[Sup] EXCEPT !.step[cur] = x].state = mem[Sup].state
      BY <1>c DEF Manifest
    <3> QED BY <3>1, <3>2
  <2> QED BY <2>2, <2>3, Stutter
<1>5. CASE SupSpawn \/ SupGate
  <2>1. mem[Sup].state = "running" /\ child # "alive" /\ file.state = "running"
    BY <1>5, <1>a DEF SupSpawn, SupGate, At, SupInv, OutcomeInv, OwnerInv, SupOwnsFile, LaunchInv
  <2>2. \/ mem'[Sup] = mem[Sup]
        \/ \E v : mem'[Sup] = [mem[Sup] EXCEPT !.verify = v]
    BY <1>5, <1>a DEF SupSpawn, SupGate, WriteTmp, TypeOK
  <2>3. mem'[Sup].state = "running"
    <3>1. CASE SupSpawn
      BY <2>1, <3>1, <1>a DEF SupSpawn, WriteTmp, TypeOK
    <3>2. ASSUME NEW x, mem'[Sup] = [mem[Sup] EXCEPT !.verify = x]
          PROVE  mem'[Sup].state = "running"
      <4>1. [mem[Sup] EXCEPT !.verify = x].state = mem[Sup].state
        BY <1>c DEF Manifest
      <4> QED BY <2>1, <3>2, <4>1
    <3> QED BY <2>1, <2>2, <3>1, <3>2
  <2>4. file' = file
    BY <1>5 DEF SupSpawn, SupGate
  <2>5. CASE child' = "alive"
    BY <2>1, <2>3, <2>4, <2>5 DEF RL!AbsNext, RL!BeginWork, Finished
  <2>6. CASE child' # "alive"
    BY <2>1, <2>3, <2>4, <2>6, Stutter
  <2> QED BY <2>5, <2>6
<1>6. CASE SupVerdict
  <2>1. \E v : mem'[Sup] = [mem[Sup] EXCEPT !.verify = v]
    BY <1>6, <1>a DEF SupVerdict, TypeOK
  <2>2. file' = file /\ (child' = "alive") = (child = "alive")
    BY <1>6 DEF SupVerdict
  <2>3. mem'[Sup].state = mem[Sup].state
    <3>1. PICK x : mem'[Sup] = [mem[Sup] EXCEPT !.verify = x]
      BY <2>1
    <3>2. [mem[Sup] EXCEPT !.verify = x].state = mem[Sup].state
      BY <1>c DEF Manifest
    <3> QED BY <3>1, <3>2
  <2> QED BY <2>2, <2>3, Stutter
<1>7. CASE SupFinish
  <2>1. mem[Sup].state = "running" /\ child # "alive" /\ file.state = "running"
    BY <1>7, <1>a DEF SupFinish, At, SupInv, OutcomeInv, OwnerInv, SupOwnsFile, LaunchInv
  <2>2. PICK v \in Finished : mem'[Sup] = [mem[Sup] EXCEPT !.state = v]
    BY <1>7, <1>a DEF SupFinish, WriteTmp, TypeOK, Finished
  <2>3. file' = file /\ child' = child
    BY <1>7 DEF SupFinish
  <2>4. mem'[Sup].state \in Finished
    <3>1. [mem[Sup] EXCEPT !.state = v].state = v
      BY <1>c DEF Manifest
    <3> QED BY <2>2, <3>1
  <2> QED BY <2>1, <2>3, <2>4 DEF RL!AbsNext, RL!Conclude, RL!Outcome, Finished
<1>8. CASE ChildExit \/ WatcherKill
  BY <1>8, ChildEnds DEF ChildExit, WatcherKill
<1>9. ASSUME NEW p \in Procs, RenameTmp(p) PROVE [RL!AbsNext]_(RL!absVars)
  <2>1. mem' = mem /\ child' = child /\ file' = IF tmp.state = "absent" THEN file ELSE tmp
    BY <1>9 DEF RenameTmp
  <2>2. file.state # "absent"
    <3>1. CASE p = Sup
      BY <1>9, <3>1, <1>a DEF RenameTmp, ProcessInv, LaunchInv
    <3>2. CASE p \in Cancels
      BY <1>9, <3>2, <1>a DEF RenameTmp, ProcessInv, CancelInv, LaunchInv
    <3>3. CASE p \in Hooks
      BY <1>9, <3>3, <1>a DEF RenameTmp, ProcessInv, OwnerInv, SupOwnsFile, LaunchInv
    <3> QED BY <3>1, <3>2, <3>3 DEF Procs
  <2>3. \/ file'.state = file.state
        \/ tmp.state \in Terminal /\ file' = tmp
    <3>1. CASE p = Sup
      <4>1. file.state = "running"
        BY <1>9, <3>1, <2>2, <1>a DEF RenameTmp, OwnerInv, SupOwnsFile
      <4>2. tmp.state \in {"absent", "running"} \cup Terminal
        BY <1>a DEF TypeOK, Manifest
      <4> QED BY <2>1, <4>1, <4>2
    <3>2. CASE p \in Cancels \cup Hooks
      BY <1>9, <3>2, <2>1, <1>a DEF RenameTmp, OwnerInv
    <3> QED BY <3>1, <3>2 DEF Procs
  <2>4. CASE file'.state = file.state
    BY <2>1, <2>4, Stutter
  <2>5. CASE tmp.state \in Terminal /\ file' = tmp
    <3>1. file'.state \in {RunOutcome, "cancelled"} \cap Terminal
      BY <2>5 DEF OutcomeInv, ShowsOutcome, RunOutcome, Terminal, Finished
    <3> QED BY <2>1, <2>2, <3>1
        DEF RL!AbsNext, RL!Label, RL!Terminal, RL!Outcome, RunOutcome, Terminal, Finished
  <2> QED BY <2>3, <2>4, <2>5
<1>10. ASSUME NEW c \in Cancels, Cancel(c), ~RenameTmp(c) PROVE [RL!AbsNext]_(RL!absVars)
  <2>1. file' = file /\ mem'[Sup] = mem[Sup] /\ (child' = "alive" => child = "alive")
    BY <1>10, <1>a DEF Cancel, CancelProceeds, CancelRead, CancelRefused, CancelKill, CancelKillUnix,
       CancelKillWindows, CancelMark, CancelEnd, WriteTmp, ChildAfterKill, TypeOK, vars
  <2> QED BY <2>1, ChildEnds
<1>11. ASSUME NEW h \in Hooks, Hook(h), ~RenameTmp(h) PROVE [RL!AbsNext]_(RL!absVars)
  <2>1. file' = file /\ mem'[Sup] = mem[Sup] /\ child' = child
    BY <1>11, <1>a DEF Hook, HookRead, HookFlip, HookEmit, WriteTmp, TypeOK
  <2> QED BY <2>1, Stutter
<1>12. ASSUME NEW p \in Procs, Crash(p) PROVE [RL!AbsNext]_(RL!absVars)
  <2>1. file' = file /\ mem'[Sup] = mem[Sup] /\ (child' = "alive" => child = "alive")
    BY <1>12, <1>a DEF Crash, ChildAfterKill, TypeOK
  <2> QED BY <2>1, ChildEnds
<1> QED
  BY <1>1, <1>2, <1>3, <1>4, <1>5, <1>6, <1>7, <1>8, <1>9, <1>10, <1>11, <1>12
  DEF Next, Launch, Supervise, Cancel, CancelProceeds, Hook

\* The launcher, the supervisor, the cancels and the hooks together do what the
\* run's lifecycle promises, whatever order their reads and writes come in.
THEOREM Refinement == Spec => ImplementsLifecycle
<1>1. Init => RL!AbsInit
  BY DEF Init, NoManifest, Finished, Procs, RL!AbsInit
<1>2. Init => IInv /\ OutcomeInv
  BY InitInv, OutcomeInit
<1>3. (IInv /\ OutcomeInv) /\ [Next]_vars => (IInv /\ OutcomeInv)'
  BY NextInv, OutcomeNext
<1> QED BY <1>1, <1>2, <1>3, StepRefines, PTL DEF Spec, ImplementsLifecycle, RL!AbsSpec
=============================================================================
