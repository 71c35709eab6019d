---------------------------- MODULE ModelCatalog ----------------------------
(***************************************************************************)
(* The project's model catalog and the Codex defaults chosen from it       *)
(* (cmd_models.go, internal/routing/catalog_store.go).  Routing refreshes  *)
(* a catalog that is too old, `models refresh' refreshes it at once and    *)
(* `models apply' writes one profile into .codex/config.toml.  Each loads  *)
(* the catalog, asks the provider command lines, which takes long, and     *)
(* replaces the whole file by a rename; nothing is locked.  A user may     *)
(* edit the file in between: curate a quality, or break the JSON.          *)
(*                                                                         *)
(* A profile's curated quality is 2, the provider's own 1.  The config is  *)
(* its two selectors and whether its other keys (the MCP server) are there.*)
(***************************************************************************)
EXTENDS CatalogSelect, Sequences

CONSTANTS MaxRuns, MaxTicks, MaxEdits, MaxFaults   \* bounds: processes, TTLs, edits, kills or failing saves

VARIABLES
  catalog,     \* the file: [state, profiles, old]
  config,      \* .codex/config.toml: [state, model, native, others]
  pc, mem,     \* per process: where it is; the profiles and selection it holds
  reported,    \* what each provider last reported to a process that saved it
  curated,     \* the keys whose quality the user set
  bounds,      \* [runs, ticks, edits, faults]
  spoiled      \* history: two at work together, broken JSON, a cut config

vars == <<catalog, config, pc, mem, reported, curated, bounds, spoiled>>

Procs == {"ensure", "refresh", "apply"}
Providers == {"codex", "claude"}
(* A provider may report one profile of a model at a native effort. *)
Models == {p.model : p \in Profiles}
Natives == {p.native : p \in Profiles}
ProfilesAssumption ==
  /\ Profiles \subseteq [provider : Providers, model : Models, native : Natives,
                        quality : Nat, cost : Nat, usable : BOOLEAN]
  /\ \A p, q \in Profiles : Key(p) = Key(q) => p = q

Missing == [state |-> "none", profiles |-> {}, old |-> FALSE]
NoWork == [profiles |-> {}, heard |-> {}, asked |-> {}, pick |-> {}]

Init ==
  /\ catalog = Missing
  /\ config = [state |-> "whole", model |-> "", native |-> "", others |-> TRUE]
  /\ pc = [p \in Procs |-> "idle"] /\ mem = [p \in Procs |-> NoWork]
  /\ reported = {} /\ curated = {}
  /\ bounds = [runs |-> 0, ticks |-> 0, edits |-> 0, faults |-> 0]
  /\ spoiled = {}

Goto(p, l) == pc' = [pc EXCEPT ![p] = l]
End(p) == Goto(p, "idle") /\ mem' = [mem EXCEPT ![p] = NoWork]
Alone(p) == \A q \in Procs \ {p} : pc[q] = "idle"
(* Somebody acts, whatever the others are doing. *)
Acts(p, why) == spoiled' = spoiled \cup why \cup IF Alone(p) THEN {} ELSE {"overlap"}
Start(p) ==
  /\ pc[p] = "idle" /\ bounds.runs < MaxRuns
  /\ bounds' = [bounds EXCEPT !.runs = @ + 1]
  /\ Acts(p, {})

(* A missing file is an empty catalog; one that cannot be read too, for    *)
(* whom the error is not fatal.                                            *)
LoadCatalog == IF catalog.state = "whole" THEN catalog.profiles ELSE {}
Readable == catalog.state # "broken"

(* ensureModelCatalogFresh: nothing to do for a young catalog. *)
ensureModelCatalogFresh ==
  /\ Start("ensure")
  /\ ~(catalog.state = "whole" /\ LoadCatalog # {} /\ ~catalog.old)
  /\ mem' = [mem EXCEPT !["ensure"] = [NoWork EXCEPT !.profiles = LoadCatalog]]
  /\ Goto("ensure", "codex")
  /\ UNCHANGED <<catalog, config, reported, curated>>

(* models refresh: an unreadable catalog is fatal. *)
modelsRefresh ==
  /\ Start("refresh") /\ Readable
  /\ mem' = [mem EXCEPT !["refresh"] = [NoWork EXCEPT !.profiles = LoadCatalog]]
  /\ Goto("refresh", "codex")
  /\ UNCHANGED <<catalog, config, reported, curated>>

Discover(p, provider) ==
  \/ \E fresh \in (SUBSET {q \in Profiles : q.provider = provider}) \ {{}} :
       mem' = [mem EXCEPT ![p].profiles = MergeProviderProfiles(@, fresh, provider),
                          ![p].heard = @ \cup fresh, ![p].asked = @ \cup {provider}]
  \/ UNCHANGED mem   \* not installed, not logged in, unreadable answer
discoverCodexProfiles(p) ==
  /\ pc[p] = "codex"
  /\ Discover(p, "codex")
  /\ Goto(p, "claude")
  /\ UNCHANGED <<catalog, config, reported, curated, bounds, spoiled>>
(* Nobody refreshed: the command dies.  ensure saves what it has, if any.  *)
discoverClaudeProfiles(p) ==
  /\ pc[p] = "claude"
  /\ Discover(p, "claude")
  /\ Goto(p, IF IF p = "refresh" THEN mem'[p].asked # {} ELSE mem'[p].profiles # {}
             THEN "save" ELSE "idle")
  /\ UNCHANGED <<catalog, config, reported, curated, bounds, spoiled>>

(* SaveCatalog: a temporary file of its own, renamed into place. *)
SaveCatalog(p) ==
  /\ pc[p] = "save"
  /\ catalog' = [state |-> "whole", profiles |-> mem[p].profiles, old |-> FALSE]
  /\ reported' = {q \in reported : q.provider \notin mem[p].asked} \cup mem[p].heard
  /\ IF p = "apply" THEN Goto(p, "find") /\ UNCHANGED mem ELSE End(p)
  /\ UNCHANGED <<config, curated, bounds, spoiled>>

(* models apply: an empty catalog is first filled from Codex alone. *)
modelsApply ==
  /\ Start("apply") /\ Readable
  /\ IF LoadCatalog # {}
     THEN mem' = [mem EXCEPT !["apply"].profiles = LoadCatalog] /\ Goto("apply", "find")
     ELSE \E fresh \in (SUBSET {q \in Profiles : q.provider = "codex"}) \ {{}} :
            /\ mem' = [mem EXCEPT !["apply"] = [NoWork EXCEPT
                          !.profiles = {[q EXCEPT !.usable = TRUE] : q \in fresh},
                          !.heard = fresh, !.asked = {"codex"}]]
            /\ Goto("apply", "save")
  /\ UNCHANGED <<catalog, config, reported, curated>>

Preferred == [low |-> <<"low", "minimal", "none">>, medium |-> <<"medium">>,
              high |-> <<"high", "xhigh">>, ultra |-> <<"ultra", "max", "adaptive-high", "adaptive">>]
(* The set of the profile found: the native level itself, else the closest *)
(* one of the neutral band.                                                *)
findCodexProfile(profiles, model, effort) ==
  LET usable == {p \in profiles : p.provider = "codex" /\ p.model = model /\ p.usable}
      native(n) == {p \in usable : p.native = n}
      order == Preferred[NormalizeEffort(effort)]
      found == {i \in DOMAIN order : native(order[i]) # {}}
  IN  IF native(effort) # {} THEN native(effort)
      ELSE IF found # {} THEN native(order[Min(found)]) ELSE {}

(* The config is read, unless no profile fits or it is not valid TOML. *)
ReadConfig(model, effort) ==
  LET found == findCodexProfile(mem["apply"].profiles, model, effort) IN
  /\ pc["apply"] = "find"
  /\ IF found = {} THEN End("apply")
     ELSE \E q \in found :
            /\ mem' = [mem EXCEPT !["apply"].pick =
                         {[state |-> "whole", model |-> q.model, native |-> q.native, others |-> config.others]}]
            /\ Goto("apply", "open")
  /\ UNCHANGED <<catalog, config, reported, curated, bounds, spoiled>>

OpenConfig ==
  /\ pc["apply"] = "open"
  /\ config' = [state |-> "cut", model |-> "", native |-> "", others |-> FALSE]
  /\ Goto("apply", "write")
  /\ UNCHANGED <<catalog, mem, reported, curated, bounds, spoiled>>
WriteConfig ==
  /\ pc["apply"] = "write"
  /\ config' \in mem["apply"].pick
  /\ End("apply")
  /\ UNCHANGED <<catalog, reported, curated, bounds, spoiled>>

(* Killed, or the disk refuses the save: what was there stays. *)
Fails(p) ==
  /\ pc[p] # "idle" /\ bounds.faults < MaxFaults
  /\ bounds' = [bounds EXCEPT !.faults = @ + 1]
  /\ End(p)
  /\ spoiled' = spoiled \cup IF pc[p] = "write" THEN {"cut"} ELSE {}
  /\ UNCHANGED <<catalog, config, reported, curated>>

TTLPasses ==
  /\ bounds.ticks < MaxTicks /\ catalog.state = "whole" /\ ~catalog.old
  /\ bounds' = [bounds EXCEPT !.ticks = @ + 1]
  /\ catalog' = [catalog EXCEPT !.old = TRUE]
  /\ UNCHANGED <<config, pc, mem, reported, curated, spoiled>>
(* The user curates a profile, or leaves invalid JSON behind. *)
Edit ==
  /\ bounds.edits < MaxEdits /\ catalog.state = "whole"
  /\ bounds' = [bounds EXCEPT !.edits = @ + 1]
  /\ \/ \E q \in catalog.profiles :
          /\ catalog' = [catalog EXCEPT !.profiles = (@ \ {q}) \cup {[q EXCEPT !.quality = 2]}]
          /\ curated' = curated \cup {Key(q)}
          /\ Acts("editor", {})
     \/ /\ catalog' = [Missing EXCEPT !.state = "broken"]
        /\ Acts("editor", {"broken"})
        /\ UNCHANGED curated
  /\ UNCHANGED <<config, pc, mem, reported>>

Next ==
  \/ ensureModelCatalogFresh \/ modelsRefresh \/ modelsApply
  \/ \E p \in Procs : discoverCodexProfiles(p) \/ discoverClaudeProfiles(p) \/ SaveCatalog(p) \/ Fails(p)
  \/ \E p \in Profiles : \E effort \in {"low", "high", p.native} : ReadConfig(p.model, effort)
  \/ OpenConfig \/ WriteConfig
  \/ TTLPasses \/ Edit
Spec == Init /\ [][Next]_vars
-----------------------------------------------------------------------------
(* cmd_models.go:136-138, catalog.go:216-262: while processes take turns   *)
(* and the file is not broken by hand, the usable profiles are what each   *)
(* provider said last, whichever providers were away at later refreshes,   *)
(* and a curated quality stays through every refresh, retired or not.      *)
LastKnownGood ==
  catalog.state = "whole" /\ spoiled \subseteq {"cut"} =>
    /\ {Key(p) : p \in {q \in catalog.profiles : q.usable}} = Keys(reported)
    /\ \A k \in curated : \E p \in catalog.profiles : Key(p) = k /\ p.quality = 2

=============================================================================
