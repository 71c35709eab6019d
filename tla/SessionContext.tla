--------------------------- MODULE SessionContext ---------------------------
(***************************************************************************)
(* What a session was already shown (cmd_context_session.go and its use in *)
(* cmd_hook.go, context_budget.go).  A prompt hook injects the relevant    *)
(* records of the active project that the session's checkpoint does not    *)
(* list in their current version, and lists them; the PreCompact hook      *)
(* empties the checkpoint because the agent forgets what it was shown.     *)
(* Each hook loads the checkpoint of one root, changes its copy and writes *)
(* the file again; os.WriteFile truncates it first.                        *)
(*                                                                         *)
(* Records are numbers: their order is that of the injected text.  The law *)
(* is sent with every prompt and left out.                                 *)
(***************************************************************************)
EXTENDS Naturals, FiniteSets, FiniteSetsExt

CONSTANTS
  Roots,     \* projects a prompt may be about
  Home,      \* the one the session runs in
  Repos,     \* what the focus may be on
  Records,   \* a set of numbers: the reference records of each project
  Cap,       \* most records one prompt injects
  Budget,    \* most records the automatic context has room for
  MaxClock,  \* bound: commits to the stores
  Parallel,  \* bound: hooks at work together
  MaxFaults  \* bound: killed hooks and failed saves

HomeAssumption == Home \in Roots

VARIABLES
  clock, updated,  \* commits so far, and UpdatedAt of each record (0: absent)
  cp,              \* the checkpoint file of each root
  shown,           \* the versions in the agent's context
  pc, mem,         \* per hook: where it is, and [root, cp, text] it works on
  faults,
  spoiled          \* history: what kept the checkpoint from being exact

store == <<clock, updated>>
vars == <<store, cp, shown, pc, mem, faults, spoiled>>

Hooks == {"start", "prompt", "tool", "compact"}
Nothing == [r \in Records |-> 0]
Fresh == [seen |-> Nothing, needFloor |-> FALSE, focus |-> "none"]
Truncated == [Fresh EXCEPT !.focus = "cut"]
NoWork == [root |-> Home, cp |-> Fresh, text |-> Nothing]

(* A missing or cut file is a fresh session. *)
Load(root) == IF cp[root] = Truncated THEN Fresh ELSE cp[root]

Init ==
  /\ clock = 0 /\ updated = [d \in Roots |-> Nothing]
  /\ cp = [d \in Roots |-> Fresh]
  /\ shown = [d \in Roots |-> Nothing]
  /\ pc = [h \in Hooks |-> "idle"] /\ mem = [h \in Hooks |-> NoWork]
  /\ faults = 0 /\ spoiled = {}

Goto(h, l) == pc' = [pc EXCEPT ![h] = l]
End(h) == Goto(h, "idle") /\ mem' = [mem EXCEPT ![h] = NoWork]
Resets == {"start", "compact"}
(* A hook starts, whatever the others are doing; a reset that another hook *)
(* runs beside may be undone by it.                                        *)
Start(h) ==
  LET others == {g \in Hooks : pc[g] # "idle"} IN
  /\ pc[h] = "idle" /\ Cardinality(others) < Parallel
  /\ spoiled' = spoiled \cup (IF others # {} THEN {"overlap"} ELSE {})
                  \cup (IF (others \cup {h}) \cap Resets # {} /\ others # {} THEN {"raced"} ELSE {})
(* It will write its copy of the checkpoint of a root. *)
Work(h, root, c, text) ==
  /\ mem' = [mem EXCEPT ![h] = [root |-> root, cp |-> c, text |-> text]]
  /\ Goto(h, "open")

StoreCommit(root, r) ==
  /\ clock < MaxClock
  /\ clock' = clock + 1
  /\ updated' = [updated EXCEPT ![root][r] = clock + 1]
  /\ UNCHANGED <<cp, shown, pc, mem, faults, spoiled>>

(* SessionStart: a new context and a fresh checkpoint, for Home only. *)
SessionStart ==
  /\ Start("start")
  /\ Work("start", Home, Fresh, Nothing)
  /\ UNCHANGED <<store, cp, shown, faults>>

(* PreCompact: the focus survives. *)
PreCompact ==
  /\ Start("compact")
  /\ Work("compact", Home, [Fresh EXCEPT !.needFloor = TRUE, !.focus = Load(Home).focus], Nothing)
  /\ UNCHANGED <<store, cp, shown, faults>>

SeenAll(seen, root, kept, relevant) ==
  [r \in Records |-> IF r \in relevant THEN updated[root][r] ELSE seen[r]]
(* The records injected are marked, and no others (AgentContextDelta). *)
SeenKept(seen, root, kept, relevant) ==
  [r \in Records |-> IF r \in kept THEN updated[root][r] ELSE seen[r]]

(* UserPromptSubmit, about any project: what is new or changed among the   *)
(* relevant records, or all of them after a compaction, up to the cap.     *)
UserPromptSubmit(root) ==
  \E relevant \in SUBSET Records :
    LET c == Load(root)
        seen == IF c.needFloor THEN Nothing ELSE c.seen
        new == {r \in relevant : updated[root][r] # seen[r]}
    IN \E kept \in kSubset(Min({Cap, Cardinality(new)}), new) :
         /\ Start("prompt")
         /\ Work("prompt", root,
              [c EXCEPT !.needFloor = FALSE, !.seen = SeenKept(seen, root, kept, relevant)],
              [r \in Records |-> IF r \in kept THEN updated[root][r] ELSE 0])
         /\ UNCHANGED <<store, cp, shown, faults>>

(* PreToolUse: a file of another repository moves the focus. *)
AutoFocus(repo) ==
  /\ Load(Home).focus # repo
  /\ Start("tool")
  /\ Work("tool", Home, [Load(Home) EXCEPT !.focus = repo], Nothing)
  /\ UNCHANGED <<store, cp, shown, faults>>

OpenFile(h) ==
  /\ pc[h] = "open"
  /\ cp' = [cp EXCEPT ![mem[h].root] = Truncated]
  /\ Goto(h, "write")
  /\ UNCHANGED <<store, shown, mem, faults, spoiled>>
WriteFile(h) ==
  /\ pc[h] = "write"
  /\ cp' = [cp EXCEPT ![mem[h].root] = mem[h].cp]
  /\ IF h = "tool" THEN End(h) ELSE Goto(h, "emit") /\ UNCHANGED mem
  /\ UNCHANGED <<store, shown, faults, spoiled>>

(* The head and the tail of a text that is too long survive. *)
budgetAutomaticHookContext(text) ==
  LET sent == {r \in Records : text[r] # 0}
      half == Budget \div 2
      near(r) == \/ Cardinality({q \in sent : q < r}) < half
                 \/ Cardinality({q \in sent : q > r}) < Budget - half
  IN  IF Cardinality(sent) <= Budget THEN sent ELSE {r \in sent : near(r)}
(* The hook prints: the agent is shown the text, or starts from nothing. *)
Emit(h) ==
  /\ pc[h] = "emit"
  /\ LET sent == budgetAutomaticHookContext(mem[h].text) IN
     IF h \in Resets THEN shown' = [d \in Roots |-> Nothing] /\ UNCHANGED spoiled
     ELSE /\ shown' = [shown EXCEPT ![mem[h].root] =
                         [r \in Records |-> IF r \in sent THEN mem[h].text[r] ELSE @[r]]]
          /\ spoiled' = spoiled \cup
               IF \E r \in Records \ sent : mem[h].text[r] # 0 THEN {"clipped"} ELSE {}
  /\ End(h)
  /\ UNCHANGED <<store, cp, faults>>

(* Save is best effort; the hook goes on. *)
SaveFails(h) ==
  /\ pc[h] = "open" /\ faults < MaxFaults
  /\ faults' = faults + 1
  /\ IF h = "tool" THEN End(h) ELSE Goto(h, "emit") /\ UNCHANGED mem
  /\ spoiled' = spoiled \cup IF h \in Resets THEN {"unsaved"} ELSE {}
  /\ UNCHANGED <<store, cp, shown>>
(* A hook is killed; the compaction itself goes on without it. *)
Crash(h) ==
  /\ pc[h] # "idle" /\ faults < MaxFaults
  /\ faults' = faults + 1
  /\ shown' = IF h \in Resets THEN [d \in Roots |-> Nothing] ELSE shown
  /\ spoiled' = spoiled \cup
       CASE h \in Resets /\ pc[h] = "open" -> {"unsaved"}
         [] h = "prompt" /\ pc[h] = "emit" -> {"unsent"}
         [] OTHER -> {}
  /\ End(h)
  /\ UNCHANGED <<store, cp>>

Next ==
  \/ \E d \in Roots, r \in Records : StoreCommit(d, r)
  \/ SessionStart \/ PreCompact
  \/ \E d \in Roots : UserPromptSubmit(d)
  \/ \E repo \in Repos : AutoFocus(repo)
  \/ \E h \in Hooks : OpenFile(h) \/ WriteFile(h) \/ Emit(h) \/ SaveFails(h) \/ Crash(h)
Spec == Init /\ [][Next]_vars
-----------------------------------------------------------------------------
Listed(root) == {r \in Records : updated[root][r] # 0 /\ Load(root).seen[r] = updated[root][r]}
InContext(root) == \A r \in Listed(root) : shown[root][r] = updated[root][r]
Settled == \A h \in Resets \cup {"prompt"} : pc[h] = "idle"

(* preamble.go:590, 619: a record of the session's project that a prompt   *)
(* leaves out as known is in the agent's context in its current version,   *)
(* whatever tool hooks run beside the prompt, whichever saves fail and     *)
(* whoever is killed, unless a reset was raced or not saved, a text was    *)
(* cut to the budget, or a prompt hook was killed before it printed.       *)
SuppressedWasShown == Settled /\ spoiled \subseteq {"overlap"} => InContext(Home)

=============================================================================
