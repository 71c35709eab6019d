---------------------------- MODULE RouteDecide ----------------------------
(***************************************************************************)
(* internal/routing/routing.go and the decider of projx-store/routing.go:  *)
(* from a task, the routing settings of the store, the routing.json table  *)
(* and the catalog to a decision.                                          *)
(*                                                                         *)
(* A task is [lead, rest, asks]: the signals of its leading clause (up to  *)
(* the first full stop, colon, semicolon, line break or dash), those of    *)
(* the rest, and whether it asks for a change at all, which the code can   *)
(* only guess.  A signal stands for the words of one keyword list.         *)
(*                                                                         *)
(* Settings are one record [pin, floor, keywords, tierCmd, policy, off]:   *)
(* policy is a set of <<scope, class, field, value>>, off the set of the   *)
(* providers that the global scope disables.                               *)
(***************************************************************************)
EXTENDS CatalogSelect, Sequences, SequencesExt

CONSTANTS CmdProvider   \* [commands -> the provider they name, or ""]

classRank == [c \in {"cheap-fast", "default", "deep-reasoning", "elevate"} |->
                CASE c = "cheap-fast" -> 0 [] c = "default" -> 1
                  [] c = "deep-reasoning" -> 2 [] c = "elevate" -> 3]
validTier(c) == c \in DOMAIN classRank
rankOf(c) == IF validTier(c) THEN classRank[c] ELSE 1
(* The automatic escalation never reaches "elevate". *)
escalate(c) == CHOOSE t \in DOMAIN classRank : classRank[t] = IF rankOf(c) >= 1 THEN 2 ELSE 1

Signals(t) == t.lead \cup t.rest
(* Words of the store replace the built-in list of a class or of "risk". *)
Matches(s, t, list) ==
    Signals(t) \cap (IF s.keywords[list] # {} THEN s.keywords[list] ELSE {list}) # {}
IsRiskyTask(s, t) == Matches(s, t, "risk")
(* Deep before cheap before standard; "" for no match. *)
ClassifyStore(s, t) ==
    IF Matches(s, t, "deep-reasoning") THEN "deep-reasoning"
    ELSE IF Matches(s, t, "cheap-fast") THEN "cheap-fast"
    ELSE IF Matches(s, t, "default") THEN "default" ELSE Unset
taskTierOverride(t) ==
    IF "@cheap" \in Signals(t) THEN "cheap-fast"
    ELSE IF "@default" \in Signals(t) THEN "default"
    ELSE IF "@deep" \in Signals(t) THEN "deep-reasoning"
    ELSE IF "@elevate" \in Signals(t) THEN "elevate" ELSE Unset

riskFloorReplaces(s, t) == IF IsRiskyTask(s, t) THEN "deep-reasoning" ELSE s.floor
(* A risky task raises the floor and never lowers a higher one. *)
riskFloor(s, t) ==
    IF IsRiskyTask(s, t) /\ rankOf("deep-reasoning") > rankOf(s.floor) THEN "deep-reasoning" ELSE s.floor
(* The ladder: override, pin, keywords, triage, default; the last three    *)
(* raised to the floor.  A triage answer is [class, sure], class "" for    *)
(* none.                                                                   *)
RouteDecide(s, t, triage) ==
    LET floor == riskFloor(s, t)
        raised(c) == IF validTier(floor) /\ rankOf(c) < rankOf(floor) THEN floor ELSE c
        at(c, source) == [class |-> c, cmd |-> s.tierCmd[c], source |-> source]
        override == taskTierOverride(t)
        keyword == ClassifyStore(s, t)
    IN  IF override # Unset THEN at(override, "override")
        ELSE IF validTier(s.pin) THEN at(s.pin, "pin")
        ELSE IF keyword # Unset THEN at(raised(keyword), "keyword")
        ELSE IF validTier(triage.class)
               THEN at(raised(IF triage.sure THEN triage.class ELSE escalate(triage.class)), "triage")
        ELSE at(raised("default"), "default")
-----------------------------------------------------------------------------
(* A class without any entry; an entry of the default table adds its class. *)
NoProvider == [class |-> Unset, provider |-> Unset, profile |-> Unset, model |-> Unset, effort |-> Unset,
               native |-> Unset, cmd |-> Unset, cross |-> Unset, weight |-> 0]

(* DefaultConfig with the entries of the file, at their places in it: an   *)
(* entry of a class replaces the default one, a later one competes with it. *)
LoadConfig(file) ==
    [c \in DOMAIN classRank |->
        LET listed == {i \in DOMAIN file : file[i].class = c}
        IN  IF listed = {} /\ c # "elevate" THEN [i \in {1} |-> [NoProvider EXCEPT !.class = c]]
            ELSE [i \in listed |-> file[i]]]

Enabled(s, name) == name \notin s.off

(* The first entry of the highest score among the enabled ones. *)
resolveProvider(s, class, table) ==
    LET entries == table[class]
        on == {i \in DOMAIN entries : Enabled(s, entries[i].provider)}
        best == {i \in on : \A j \in on : entries[j].weight <= entries[i].weight}
    IN  IF on = {} THEN NoProvider ELSE entries[Min(best)]

(* A policy field: the most specific scope that sets it. *)
storeRouteSetting(s, field, class) ==
    LET at(scope) == {x \in s.policy : x[1] = scope /\ x[2] = class /\ x[3] = field}
        set == {scope \in {"project", "workspace", "global"} : at(scope) # {}}
        nearest == IF "project" \in set THEN "project" ELSE IF "workspace" \in set THEN "workspace" ELSE "global"
    IN  IF set = {} THEN Unset ELSE (CHOOSE x \in at(nearest) : TRUE)[4]
PolicyFields == {"provider", "profile", "model", "effort", "native", "cmd", "cross"}

defaultEffortForClass(class) ==
    CASE class = "cheap-fast" -> "low" [] class = "default" -> "medium"
      [] class = "deep-reasoning" -> "high" [] class = "elevate" -> "ultra"

(* An entry takes over the chosen profile, if there is one. *)
withProfile(p, requested, chosen) ==
    IF chosen = {} THEN [p |-> p, selection |-> Unset]
    ELSE LET q == CHOOSE q \in chosen : TRUE
         IN  [p |-> [p EXCEPT !.provider = q.provider, !.model = q.model,
                              !.effort = NormalizeEffort(q.native), !.native = q.native],
              selection |-> CatalogSelectionReason(requested, q)]

RefusedNever(s, p) == FALSE
(* The policy asks for a provider that is disabled. *)
Refused(s, p) == ~Enabled(s, p.provider)
resolveProviderPolicy(s, class, table, catalog, weights) ==
    LET entry == resolveProvider(s, class, table)
        set == [f \in DOMAIN entry |->
                  IF f \in PolicyFields /\ storeRouteSetting(s, f, class) # Unset
                    THEN storeRouteSetting(s, f, class) ELSE entry[f]]
        asked == IF set.effort = Unset /\ set.native = Unset
                   THEN [set EXCEPT !.effort = defaultEffortForClass(class)] ELSE set
        requested == IF Refused(s, asked) THEN [asked EXCEPT !.provider = Unset, !.profile = Unset, !.model = Unset,
                                                 !.native = Unset, !.cmd = Unset] ELSE asked
        p == IF Refused(s, asked) THEN entry ELSE asked
        enabled == {q \in catalog : Enabled(s, q.provider)}
    IN  withProfile(p, requested, SelectCatalogProfile(enabled, requested, weights))

agentDecision(s, rd, r) ==
    LET cmd == IF rd.cmd # Unset THEN rd.cmd ELSE r.p.cmd
    IN  [kind |-> "agent", op |-> Unset, class |-> rd.class, source |-> rd.source,
         cmd |-> IF Enabled(s, CmdProvider[cmd]) THEN cmd ELSE Unset,
         provider |-> r.p.provider, profile |-> r.p.profile, model |-> r.p.model,
         effort |-> r.p.effort, native |-> r.p.native, selection |-> r.selection]
decideAgent(s, t, table, catalog, weights, triage) ==
    LET rd == RouteDecide(s, t, triage)
    IN  agentDecision(s, rd, resolveProviderPolicy(s, rd.class, table, catalog, weights))

(* A verb that asks for a change, in the leading clause. *)
isMutationTask(t) == "verb" \in t.lead

Operation(op) == [kind |-> "deterministic", op |-> op, class |-> Unset, source |-> Unset, cmd |-> Unset,
                  provider |-> Unset, profile |-> Unset, model |-> Unset, effort |-> Unset,
                  native |-> Unset, selection |-> Unset]
readOperation(t) ==
    IF "verify" \in Signals(t) THEN "verify"
    ELSE IF "history" \in Signals(t) THEN "store log"
    ELSE IF "listing" \in Signals(t) THEN "store list" ELSE Unset
(* Read-only requests are answered by an operation of the engine, unless   *)
(* the task asks for a change.                                             *)
DecideWithStore(s, t, table, catalog, weights, triage) ==
    LET read == readOperation(t)
    IN  IF isMutationTask(t) \/ read = Unset THEN decideAgent(s, t, table, catalog, weights, triage)
        ELSE Operation(read)

(* The per-run options of `run`: they bypass the legacy command, and the   *)
(* catalog they choose from is the whole one.                              *)
Choose(first, then) == IF first # Unset THEN first ELSE then
applyOverrides(o, d, catalog, weights) ==
    LET asked == [f \in DOMAIN d |-> IF f \in DOMAIN o THEN Choose(o[f], d[f]) ELSE d[f]]
        req == [f \in DOMAIN o \cup {"cross"} |-> IF f = "cross" THEN Unset ELSE asked[f]]
        with(chosen) ==
            IF chosen = {} THEN [asked EXCEPT !.cmd = Unset]
            ELSE LET q == CHOOSE q \in chosen : TRUE
                 IN  [asked EXCEPT !.cmd = Unset, !.provider = q.provider, !.model = q.model,
                                   !.native = q.native, !.effort = NormalizeEffort(q.native),
                                   !.selection = CatalogSelectionReason(req, q)]
    IN  IF \A f \in DOMAIN o : o[f] = Unset THEN d ELSE with(SelectCatalogProfile(catalog, req, weights))
=============================================================================
