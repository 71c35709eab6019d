---------------------------- MODULE OverrideGrant ----------------------------
(***************************************************************************)
(* Overrides of soft rules (cmd_override.go and its use in cmd_hook.go).   *)
(* The command `override <rule>` writes a grant of some uses into          *)
(* .projx/overrides.json and then logs it; the PreToolUse hook of a tool   *)
(* call that a soft rule denies spends one use of a grant to let the call  *)
(* through, after which the hard floor may still refuse it.  Every writer  *)
(* loads the whole file, changes its copy and rewrites the file with       *)
(* os.WriteFile, which truncates before it writes; a reader that finds a   *)
(* truncated file sees no grants.                                          *)
(*                                                                         *)
(* A grant is known by its number n, the n-th override command; spent and  *)
(* ran count the uses taken and the calls let through under it (the hard   *)
(* floor may deny a call whose use is spent).  Expiry is never set by the  *)
(* command and is left out.                                                *)
(***************************************************************************)
EXTENDS Naturals, Sequences

CONSTANTS
  Cmds,       \* processes that run the override command
  Hooks,      \* processes that run PreToolUse hooks
  Rules,      \* the soft rules: what may be granted
  Consulted,  \* those a hook enforces (dispatcher-mode)
  MaxTtl,     \* bound: uses of a grant
  MaxGrants,  \* bound: override commands
  MaxCalls,   \* bound: tool calls
  MaxCrashes, \* bound: killed processes
  MaxFaults   \* bound: failing file operations

(* Each process is a command or a hook, and hooks enforce soft rules.      *)
ConstantsAssumption ==
  /\ Cmds \cap Hooks = {} /\ Consulted \subseteq Rules
  /\ MaxGrants \in Nat /\ MaxTtl \in Nat /\ MaxFaults \in Nat

VARIABLES
  file,     \* overrides.json: the truncated file, or a grant (or none) per rule
  log,      \* the grants in override-log.jsonl
  pc, mem,  \* per process: where it is, the map it will write, its grant
  issued,     \* the grants asked for so far, in order
  spent, ran, \* uses taken and calls let through, per grant
  calls, crashes, faults,
  overlapped  \* history: were two processes ever at work together?

vars == <<file, log, pc, mem, issued, spent, ran, calls, crashes, faults, overlapped>>

Procs == Cmds \cup Hooks
GrantId == 1..MaxGrants
Grant == [n : GrantId, uses : 1..MaxTtl]
NoGrant == [n |-> 0, uses |-> 0]
Grants == [Rules -> Grant \cup {NoGrant}]
None == [r \in Rules |-> NoGrant]
Truncated == [r \in {} |-> NoGrant]
Idle == [map |-> None, n |-> 0]

(* A missing, truncated or corrupt file holds no grants. *)
loadOverrideGrants == IF file = Truncated THEN None ELSE file

Init ==
  /\ file = None
  /\ log = {}
  /\ pc = [p \in Procs |-> "idle"]
  /\ mem = [p \in Procs |-> Idle]
  /\ issued = <<>>
  /\ spent = [n \in GrantId |-> 0]
  /\ ran = [n \in GrantId |-> 0]
  /\ calls = 0
  /\ crashes = 0
  /\ faults = 0
  /\ overlapped = FALSE

(* A process starts, whatever the others are doing. *)
Start(p) ==
  /\ pc[p] = "idle"
  /\ overlapped' = (overlapped \/ \E q \in Procs : pc[q] # "idle")
Goto(p, l) == pc' = [pc EXCEPT ![p] = l]
End(p) == Goto(p, "idle") /\ mem' = [mem EXCEPT ![p] = Idle]

(* The grant of a rule, beside those of the other rules. *)
Granted(map, rule, g) == [map EXCEPT ![rule] = g]

AtLeastOne(ttl) == IF ttl < 1 THEN 1 ELSE ttl

(* override <rule> --ttl N: load the grants and put the new one in. *)
runOverrideCmd(c) ==
  \E rule \in Rules, ttl \in 0..MaxTtl :
    LET n == Len(issued) + 1
        uses == AtLeastOne(ttl)
    IN /\ Start(c)
       /\ n <= MaxGrants
       /\ issued' = Append(issued, [rule |-> rule, uses |-> uses])
       /\ mem' = [mem EXCEPT ![c] = [n |-> n,
                    map |-> Granted(loadOverrideGrants, rule, [n |-> n, uses |-> uses])]]
       /\ Goto(c, "open")
       /\ UNCHANGED <<file, log, spent, ran, calls, crashes, faults>>

(* saveOverrideGrants: WriteFile opens (and truncates), then writes. *)
OpenFile(p) ==
  /\ pc[p] = "open"
  /\ file' = Truncated
  /\ Goto(p, "write")
  /\ UNCHANGED <<log, mem, issued, spent, ran, calls, crashes, faults, overlapped>>

WriteFile(p) ==
  /\ pc[p] = "write"
  /\ file' = mem[p].map
  /\ Goto(p, IF p \in Cmds THEN "log" ELSE "judge")
  /\ UNCHANGED <<log, mem, issued, spent, ran, calls, crashes, faults, overlapped>>

(* The file cannot be opened: the command dies, the hook lets it pass. *)
SaveFails(p) ==
  /\ pc[p] = "open"
  /\ faults < MaxFaults
  /\ faults' = faults + 1
  /\ IF p \in Cmds THEN End(p) ELSE Goto(p, "judge") /\ UNCHANGED mem
  /\ UNCHANGED <<file, log, issued, spent, ran, calls, crashes, overlapped>>

(* The audit entry, best effort. *)
appendOverrideLog(c) ==
  /\ pc[c] = "log"
  /\ \/ log' = log \cup {mem[c].n} /\ UNCHANGED faults
     \/ faults < MaxFaults /\ faults' = faults + 1 /\ UNCHANGED log
  /\ End(c)
  /\ UNCHANGED <<file, issued, spent, ran, calls, crashes, overlapped>>

(* What is left of a grant after one use; a spent one is dropped. *)
SpentKept(g) == IF g.uses <= 0 THEN NoGrant ELSE g
Spent(g) == IF g.uses <= 1 THEN NoGrant ELSE [g EXCEPT !.uses = @ - 1]

(* A tool call meets a soft rule: without a grant it is denied. *)
consumeOverride(h) ==
  \E rule \in Consulted :
    LET g == loadOverrideGrants IN
    /\ Start(h)
    /\ calls < MaxCalls
    /\ calls' = calls + 1
    /\ IF g[rule] = NoGrant
       THEN UNCHANGED <<pc, mem, spent>>
       ELSE /\ spent' = [spent EXCEPT ![g[rule].n] = @ + 1]
            /\ mem' = [mem EXCEPT ![h] = [map |-> [g EXCEPT ![rule] = Spent(@)], n |-> g[rule].n]]
            /\ Goto(h, "open")
    /\ UNCHANGED <<file, log, issued, ran, crashes, faults>>

(* The rest of the PreToolUse pipeline: the hard floor may still deny. *)
Judge(h) ==
  /\ pc[h] = "judge"
  /\ \/ ran' = [ran EXCEPT ![mem[h].n] = @ + 1]
     \/ UNCHANGED ran
  /\ End(h)
  /\ UNCHANGED <<file, log, issued, spent, calls, crashes, faults, overlapped>>

(* A process is killed (hooks have a deadline). *)
Crash(p) ==
  /\ pc[p] # "idle"
  /\ crashes < MaxCrashes
  /\ crashes' = crashes + 1
  /\ End(p)
  /\ UNCHANGED <<file, log, issued, spent, ran, calls, faults, overlapped>>

Next ==
  \/ \E c \in Cmds : runOverrideCmd(c) \/ appendOverrideLog(c)
  \/ \E h \in Hooks : consumeOverride(h) \/ Judge(h)
  \/ \E p \in Procs : OpenFile(p) \/ WriteFile(p) \/ SaveFails(p) \/ Crash(p)

Spec == Init /\ [][Next]_vars

-----------------------------------------------------------------------------

(* While processes take turns, a grant lets no more calls through than it  *)
(* was given uses, one more for each save that failed (the grant is still  *)
(* in the file, at the next save its use is taken), whoever is killed and  *)
(* whatever file is cut short in between (consumeOverride).                *)
OveruseIsPerFault ==
  ~overlapped => \A n \in DOMAIN issued : ran[n] <= issued[n].uses + faults

=============================================================================
