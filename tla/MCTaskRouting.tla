--------------------------- MODULE MCTaskRouting ---------------------------
(* Two providers with a low and a high profile each, of equal scores.      *)
EXTENDS TaskRouting

Profile(p, m, e, q, c) ==
    [provider |-> p, model |-> m, native |-> e, quality |-> q, cost |-> c, usable |-> TRUE]
MCProfiles == {Profile("codex", "sol", "high", 4, 3), Profile("codex", "luna", "low", 2, 1),
               Profile("claude", "opus", "high", 4, 3), Profile("claude", "haiku", "low", 2, 1)}
MCCatalogs == {MCProfiles, {}}
MCAlphabet == [claude |-> 1, codex |-> 2, haiku |-> 3, high |-> 4, low |-> 5, luna |-> 6, opus |-> 7, sol |-> 8]
MCWeights == [c \in DOMAIN classRank |-> [quality |-> 1, cost |-> IF c = "cheap-fast" THEN 2 ELSE 0]]
MCCmdProvider == "" :> "" @@ "codex exec" :> "codex" @@ "claude -p" :> "claude" @@ "wrapper" :> ""

Request(lead, rest, asks) == [lead |-> lead, rest |-> rest, asks |-> asks]
MCTasks == {Request({"verb"}, {"verify", "deep-reasoning"}, TRUE), Request({}, {"verb", "verify"}, TRUE),
            Request({"history"}, {"listing"}, FALSE), Request({}, {}, FALSE),
            Request({"cheap-fast", "risk"}, {}, TRUE), Request({"@cheap"}, {"risk"}, TRUE)}
NoTriage == [class |-> "", sure |-> FALSE]
MCTriages == {NoTriage, [class |-> "cheap-fast", sure |-> TRUE], [class |-> "cheap-fast", sure |-> FALSE]}
Option(p, m, e) == [provider |-> p, model |-> m, effort |-> e, native |-> ""]
MCOverrides == {Option("", "", ""), Option("claude", "", ""), Option("", "opus", "high")}
Entry(c, p, w) == [NoProvider EXCEPT !.class = c, !.provider = p, !.weight = w]
MCFile == <<Entry("deep-reasoning", "claude", 1), Entry("deep-reasoning", "codex", 2),
            Entry("cheap-fast", "claude", 1)>>

MCSeeded == [pin |-> "", floor |-> "", off |-> {}, policy |-> {},
             keywords |-> [l \in DOMAIN classRank \cup {"risk"} |-> {}],
             tierCmd |-> [c \in DOMAIN classRank |-> IF c = "cheap-fast" THEN "claude -p" ELSE ""]]
MCPolicies == {<<"project", "deep-reasoning", "provider", "claude">>,
               <<"global", "deep-reasoning", "provider", "codex">>,
               <<"project", "deep-reasoning", "cross", "true">>,
               <<"workspace", "default", "cmd", "codex exec">>}
MCEnvs == {[cmd |-> "", agent |-> "", model |-> ""],
           [cmd |-> "claude -p", agent |-> "claude", model |-> "opus"]}
=============================================================================
