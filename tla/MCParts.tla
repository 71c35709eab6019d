------------------------------ MODULE MCParts ------------------------------
(* Small instances of the ten parts.                                       *)
EXTENDS Parts

(* Two efforts of one model and a model of another provider. *)
Reported(provider, model, native) ==
  [provider |-> provider, model |-> model, native |-> native,
   quality |-> 1, cost |-> 1, usable |-> FALSE]
MCProfiles ==
  {Reported("codex", "m", "high"), Reported("codex", "m", "xhigh"), Reported("claude", "s", "low")}
MCAlphabet == [x \in {"codex"} |-> 1]

(* A command that was set, and one or several build systems at the root.   *)
MCSetups == {<<TRUE, {}>>, <<FALSE, {"go"}>>, <<FALSE, {"go", "rust"}>>}

(* A file by its path; a patch and a known command that run elsewhere; a   *)
(* command with a path the hook does not take for a target.                *)
Call == [tool |-> "Read", file |-> <<>>, patch |-> {}, operands |-> {}, words |-> {},
         workdir |-> "none", worker |-> FALSE, claims |-> FALSE]
MCCalls ==
  {[Call EXCEPT !.tool = "Edit", !.file = <<"a", "x">>],
   [Call EXCEPT !.tool = "apply_patch", !.file = <<"a", "y">>, !.patch = {"x"}, !.workdir = "b"],
   [Call EXCEPT !.tool = "exec_command", !.operands = {"x"}, !.workdir = "b", !.worker = TRUE],
   [Call EXCEPT !.tool = "exec_command", !.words = {"x"}, !.claims = TRUE]}

(* Three steps over files and directories whose names begin each other. *)
MCPaths == {<<x>> : x \in PathNames} \cup {<<x, y>> : x, y \in PathNames}
MCBegins == {<<x, x>> : x \in PathNames} \cup {<<"a", "ab">>}
File(s) == [form |-> "file", stem |-> s]
Children(s) == [form |-> "children", stem |-> s]
Tree(s) == [form |-> "tree", stem |-> s]
MCWriteSets ==
  {{}, {File(<<"a", "c">>)}, {Children(<<"a">>)}, {File(<<"c">>), Tree(<<"ab">>)}}

(* The instance is one that the disjointness of waves is meant for. *)
ASSUME WholeElementsAssumption == WholeElements
=============================================================================
