--------------------------- MODULE MapRefreshLock ---------------------------
(***************************************************************************)
(* The lock that keeps background code-map refreshes apart                 *)
(* (map_refresh.go).  Every SessionStart tries to schedule a refresh: it   *)
(* looks for .projx/map-refresh.lock, leaves a lock younger than ten       *)
(* minutes alone, removes an older one, creates the lock exclusively and   *)
(* starts a detached worker, which synchronises the map and removes the    *)
(* lock when it returns.  A killed worker leaves its lock to age.          *)
(*                                                                         *)
(* Simplifications: time is only the lock's being fresh or stale; the lock *)
(* carries, for the properties, the number of the worker it was made for.  *)
(***************************************************************************)
EXTENDS Naturals

CONSTANTS
  Schedulers,  \* SessionStart hooks under way together
  MaxWorkers,  \* bound: locks created
  MaxCrashes   \* bound: killed workers and schedulers

WorkersAssumption == MaxWorkers \in Nat

VARIABLES
  lock,     \* the lock file: none, or whose and how old
  pc, mine, \* where each scheduler is, and the number of the lock it made
  worker,   \* the workers, by number: none yet, syncing, done, killed
  made,     \* locks created
  crashes,
  overlapped, \* history: were two schedulers ever at work together?
  overran     \* history: did a worker take longer than ten minutes?

vars == <<lock, pc, mine, worker, made, crashes, overlapped, overran>>

WorkerId == 1..MaxWorkers
Lock == [of : WorkerId, age : {"fresh", "stale"}]
NoLock == [of |-> 0, age |-> "none"]

Init ==
  /\ lock = NoLock
  /\ pc = [s \in Schedulers |-> "idle"]
  /\ mine = [s \in Schedulers |-> 0]
  /\ worker = [n \in WorkerId |-> "none"]
  /\ made = 0
  /\ crashes = 0
  /\ overlapped = FALSE
  /\ overran = FALSE

Goto(s, l) == pc' = [pc EXCEPT ![s] = l]

(* A session starts, whatever the others are doing. *)
Start(s) ==
  /\ pc[s] = "idle"
  /\ overlapped' = (overlapped \/ \E t \in Schedulers : pc[t] # "idle")

StatLockAnyAge(s) ==
  /\ Start(s)
  /\ made < MaxWorkers
  /\ Goto(s, IF lock = NoLock THEN "create" ELSE "idle")
  /\ UNCHANGED <<lock, mine, worker, made, crashes, overran>>
(* Stat: a fresh lock is left alone, an old one will be removed. *)
StatLock(s) ==
  /\ Start(s)
  /\ made < MaxWorkers
  /\ Goto(s, CASE lock = NoLock -> "create"
               [] lock.age = "stale" -> "remove"
               [] OTHER -> "idle")   \* existing-lock
  /\ UNCHANGED <<lock, mine, worker, made, crashes, overran>>

RemoveStale(s) ==
  /\ pc[s] = "remove"
  /\ lock' = NoLock
  /\ Goto(s, "create")
  /\ UNCHANGED <<mine, worker, made, crashes, overlapped, overran>>

CreateNumbersBefore(s) ==
  /\ pc[s] = "create"
  /\ IF lock = NoLock
     THEN /\ made < MaxWorkers
          /\ made' = made + 1
          /\ lock' = [of |-> made, age |-> "fresh"]
          /\ mine' = [mine EXCEPT ![s] = made + 1]
          /\ Goto(s, "start")
     ELSE Goto(s, "idle") /\ UNCHANGED <<lock, mine, made>>
  /\ UNCHANGED <<worker, crashes, overlapped, overran>>
CreateTruncates(s) ==
  /\ pc[s] = "create"
  /\ made < MaxWorkers
  /\ made' = made + 1
  /\ lock' = [of |-> made + 1, age |-> "fresh"]
  /\ mine' = [mine EXCEPT ![s] = made + 1]
  /\ Goto(s, "start")
  /\ UNCHANGED <<worker, crashes, overlapped, overran>>
(* O_CREATE|O_EXCL: one of several creators wins; the others lost a race. *)
CreateLock(s) ==
  /\ pc[s] = "create"
  /\ IF lock = NoLock
     THEN /\ made < MaxWorkers
          /\ made' = made + 1
          /\ lock' = [of |-> made + 1, age |-> "fresh"]
          /\ mine' = [mine EXCEPT ![s] = made + 1]
          /\ Goto(s, "start")
     ELSE Goto(s, "idle") /\ UNCHANGED <<lock, mine, made>>   \* lock-race
  /\ UNCHANGED <<worker, crashes, overlapped, overran>>

(* The directory or the file cannot be made. *)
CreateFails(s) ==
  /\ pc[s] = "create"
  /\ Goto(s, "idle")
  /\ UNCHANGED <<lock, mine, worker, made, crashes, overlapped, overran>>

StartWorker(s) ==
  /\ pc[s] = "start"
  /\ worker' = [worker EXCEPT ![mine[s]] = "syncing"]
  /\ mine' = [mine EXCEPT ![s] = 0]
  /\ Goto(s, "idle")
  /\ UNCHANGED <<lock, made, crashes, overlapped, overran>>

(* The worker cannot be started: the lock goes again. *)
StartFails(s) ==
  /\ pc[s] = "start"
  /\ lock' = NoLock
  /\ mine' = [mine EXCEPT ![s] = 0]
  /\ Goto(s, "idle")
  /\ UNCHANGED <<worker, made, crashes, overlapped, overran>>

(* The worker returns, from a full or a failed sync, and removes the lock. *)
WorkerEnds(n) ==
  /\ worker[n] = "syncing"
  /\ worker' = [worker EXCEPT ![n] = "done"]
  /\ lock' = NoLock
  /\ UNCHANGED <<pc, mine, made, crashes, overlapped, overran>>

WorkerKilled(n) ==
  /\ worker[n] = "syncing"
  /\ crashes < MaxCrashes
  /\ crashes' = crashes + 1
  /\ worker' = [worker EXCEPT ![n] = "killed"]
  /\ UNCHANGED <<lock, pc, mine, made, overlapped, overran>>

SchedulerKilled(s) ==
  /\ pc[s] # "idle"
  /\ crashes < MaxCrashes
  /\ crashes' = crashes + 1
  /\ mine' = [mine EXCEPT ![s] = 0]
  /\ Goto(s, "idle")
  /\ UNCHANGED <<lock, worker, made, overlapped, overran>>

(* Ten minutes pass.  A scheduler is far quicker than that; a worker that  *)
(* still runs then is late.                                                *)
LockAges ==
  /\ lock.age = "fresh"
  /\ \A s \in Schedulers : mine[s] # lock.of
  /\ lock' = [lock EXCEPT !.age = "stale"]
  /\ overran' = (overran \/ worker[lock.of] = "syncing")
  /\ UNCHANGED <<pc, mine, worker, made, crashes, overlapped>>

Next ==
  \/ \E s \in Schedulers :
       \/ StatLock(s)
       \/ RemoveStale(s)
       \/ CreateLock(s)
       \/ CreateFails(s)
       \/ StartWorker(s)
       \/ StartFails(s)
       \/ SchedulerKilled(s)
  \/ \E n \in WorkerId : WorkerEnds(n) \/ WorkerKilled(n)
  \/ LockAges

Spec == Init /\ [][Next]_vars

(* Hooks and workers run on and time passes; nothing says that a session   *)
(* ever starts again, that is StatLock.                                    *)
FairSpec ==
  /\ Spec
  /\ \A s \in Schedulers :
       WF_vars(RemoveStale(s) \/ CreateLock(s) \/ CreateFails(s) \/ StartWorker(s) \/ StartFails(s))
  /\ \A n \in WorkerId : WF_vars(WorkerEnds(n))
  /\ WF_vars(LockAges)

-----------------------------------------------------------------------------

(* No worker was late, and whoever was killed, sessions started one after  *)
(* the other.  (A takeover of a stale lock is not safe from a second one.) *)
Orderly == ~overran /\ (crashes = 0 \/ ~overlapped)

(* At most one worker synchronises the map at a time ("the one explicitly  *)
(* detached maintenance worker", map_refresh.go:26-27).                    *)
OneWorker ==
  Orderly => \A m, n \in WorkerId : worker[m] = "syncing" /\ worker[n] = "syncing" => m = n

(* No lock is for ever: as long as sessions keep starting, a lock goes     *)
(* again, by its worker, by its scheduler or, after a kill, by the next    *)
(* session that finds it stale; the map is not locked out of refreshes.    *)
SessionsKeepStarting == \A s \in Schedulers : WF_vars(StatLock(s))
LockIsNotForEver ==
  SessionsKeepStarting => (lock # NoLock ~> lock = NoLock \/ made = MaxWorkers)
=============================================================================
