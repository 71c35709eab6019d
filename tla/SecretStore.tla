----------------------------- MODULE SecretStore -----------------------------
(***************************************************************************)
(* The sealed secrets (internal/secrets, cmd_secret.go, the injection in   *)
(* cmd_exec.go and the confined launches).  Two files: the key, generated  *)
(* by whoever opens the store and finds no key of 32 bytes, and the sealed *)
(* values.  Every command opens the store: it reads (or makes) the key,    *)
(* then the values; `set' and `rm' rewrite the values from their copy.     *)
(* Both files are written by os.WriteFile, which truncates first, and no   *)
(* lock keeps commands apart.                                              *)
(*                                                                         *)
(* A key is a number, a sealed value the key it was sealed with (0: none). *)
(***************************************************************************)
EXTENDS Naturals, FiniteSets

CONSTANTS
  Procs,     \* commands and shims under way together
  Names,     \* codenames
  MaxKeys,   \* bound: keys generated
  MaxRuns,   \* bound: commands
  MaxFaults  \* bound: kills

VARIABLES
  key,       \* the key file: 0 none or cut, or a key
  sealed,    \* store.json: "cut", or what each name is sealed with
  pc, job,   \* per process: where it is, and [op, name, key, sealed]
  lacked,    \* history: did a command run without secrets that were there?
  acked,     \* history: the names set and not removed since, as commands said
  keys, runs, faults,
  raced      \* history: "key": two at once made a key; "set": two wrote at once

vars == <<key, sealed, pc, job, lacked, acked, keys, runs, faults, raced>>
bounds == <<keys, runs, faults>>

Nothing == [n \in Names |-> 0]
Cut == [n \in {} |-> 0]
NoWork == [op |-> "none", name |-> "none", key |-> 0, sealed |-> Nothing]
AnyName == CHOOSE n \in Names : TRUE

Init ==
  /\ key = 0 /\ sealed = Nothing
  /\ pc = [p \in Procs |-> "idle"] /\ job = [p \in Procs |-> NoWork]
  /\ lacked = FALSE /\ acked = {}
  /\ keys = 0 /\ runs = 0 /\ faults = 0 /\ raced = {}

Goto(p, l) == pc' = [pc EXCEPT ![p] = l]
End(p) == Goto(p, "idle") /\ job' = [job EXCEPT ![p] = NoWork]
Others(p, where) == \E q \in Procs \ {p} : pc[q] \in where
MakesKey == {"openkey", "writekey"}
Writes == {"loaded", "openstore", "writestore"}

(* secrets.Open, loadOrCreateKey: a key that is there is used for ever. *)
Open(p, op, name) ==
  /\ pc[p] = "idle" /\ runs < MaxRuns
  /\ runs' = runs + 1
  /\ IF key # 0
     THEN /\ job' = [job EXCEPT ![p] = [NoWork EXCEPT !.op = op, !.name = name, !.key = key]]
          /\ Goto(p, "load")
          /\ UNCHANGED <<keys, raced>>
     ELSE /\ keys < MaxKeys /\ keys' = keys + 1
          /\ job' = [job EXCEPT ![p] = [NoWork EXCEPT !.op = op, !.name = name, !.key = keys + 1]]
          /\ Goto(p, "openkey")
          /\ raced' = raced \cup IF Others(p, MakesKey) THEN {"key"} ELSE {}
  /\ UNCHANGED <<key, sealed, lacked, acked, faults>>
OpenKey(p) ==
  /\ pc[p] = "openkey"
  /\ key' = 0
  /\ Goto(p, "writekey")
  /\ UNCHANGED <<sealed, job, lacked, acked, bounds, raced>>
WriteKey(p) ==
  /\ pc[p] = "writekey"
  /\ key' = job[p].key
  /\ Goto(p, "load")
  /\ UNCHANGED <<sealed, job, lacked, acked, bounds, raced>>

LoadLenient(p) ==
  /\ pc[p] = "load"
  /\ job' = [job EXCEPT ![p].sealed = IF sealed = Cut THEN Nothing ELSE sealed]
  /\ Goto(p, "loaded")
  /\ raced' = raced \cup IF Others(p, Writes) THEN {"set"} ELSE {}
  /\ UNCHANGED <<key, sealed, lacked, acked, bounds>>
(* loadStore: no file is an empty store, one that does not parse is fatal. *)
LoadStore(p) ==
  /\ pc[p] = "load"
  /\ IF sealed = Cut
     THEN End(p) /\ UNCHANGED raced
     ELSE /\ job' = [job EXCEPT ![p].sealed = sealed]
          /\ Goto(p, "loaded")
          /\ raced' = raced \cup IF Others(p, Writes) THEN {"set"} ELSE {}
  /\ UNCHANGED <<key, sealed, lacked, acked, bounds>>

(* Set and Delete change the copy; `rm' of an unknown name is an error. *)
Set(p) ==
  /\ pc[p] = "loaded" /\ job[p].op = "set"
  /\ job' = [job EXCEPT ![p].sealed[job[p].name] = job[p].key]
  /\ Goto(p, "openstore")
  /\ UNCHANGED <<key, sealed, lacked, acked, bounds, raced>>
Delete(p) ==
  /\ pc[p] = "loaded" /\ job[p].op = "rm"
  /\ IF job[p].sealed[job[p].name] = 0 THEN End(p)
     ELSE /\ job' = [job EXCEPT ![p].sealed[job[p].name] = 0]
          /\ Goto(p, "openstore")
  /\ UNCHANGED <<key, sealed, lacked, acked, bounds, raced>>
(* persist *)
OpenStore(p) ==
  /\ pc[p] = "openstore"
  /\ sealed' = Cut
  /\ Goto(p, "writestore")
  /\ UNCHANGED <<key, job, lacked, acked, bounds, raced>>
WriteStore(p) ==
  /\ pc[p] = "writestore"
  /\ sealed' = job[p].sealed
  /\ acked' = IF job[p].op = "set" THEN acked \cup {job[p].name} ELSE acked \ {job[p].name}
  /\ End(p)
  /\ UNCHANGED <<key, lacked, bounds, raced>>

(* Resolve, in a shim or a confined launch: every value, or none when one  *)
(* cannot be decrypted; the command runs in either case.                   *)
Resolve(p) ==
  /\ pc[p] = "loaded" /\ job[p].op = "exec"
  /\ lacked' = (lacked \/ \E n \in Names : job[p].sealed[n] \notin {0, job[p].key})
  /\ End(p)
  /\ UNCHANGED <<key, sealed, acked, bounds, raced>>

(* A process is killed. *)
Killed(p) ==
  /\ pc[p] # "idle" /\ faults < MaxFaults
  /\ faults' = faults + 1
  /\ End(p)
  /\ UNCHANGED <<key, sealed, lacked, acked, keys, runs, raced>>

Next ==
  \E p \in Procs :
    \/ \E n \in Names : Open(p, "set", n) \/ Open(p, "rm", n)
    \/ Open(p, "exec", AnyName)
    \/ OpenKey(p) \/ WriteKey(p) \/ LoadStore(p)
    \/ Set(p) \/ Delete(p) \/ OpenStore(p) \/ WriteStore(p) \/ Resolve(p) \/ Killed(p)
Spec == Init /\ [][Next]_vars
-----------------------------------------------------------------------------
(* secrets.go:60-74, 139-165: one key opens everything.  Unless two        *)
(* commands made the first key at once, every value in the file was sealed *)
(* with the key in the file, whatever sets overlap and whoever is killed   *)
(* in the middle of writing either file, and no shim goes without.         *)
SealedIsReadable ==
  "key" \notin raced => ~lacked /\ \A n \in DOMAIN sealed : sealed[n] \in {0, key}

(* cmd_secret.go:33-50 "secret <CODENAME> set": what a command said is set *)
(* stays in the file until it is removed, while no two commands rewrite it *)
(* at once; a write that was cut short stops every later command instead   *)
(* of losing the other names.                                              *)
SetIsKept == raced = {} /\ sealed # Cut => acked \subseteq {n \in Names : sealed[n] # 0}
=============================================================================
