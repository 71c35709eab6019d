------------------------- MODULE MCWorkflowSchedule -------------------------
(* Small repositories and write declarations for WorkflowSchedule.         *)
EXTENDS WorkflowSchedule

Names == {"a", "ab", "c"}
MCBegins == {<<x, x>> : x \in Names} \cup {<<"a", "ab">>}
MCPaths == {<<x>> : x \in Names} \cup {<<x, y>> : x, y \in Names}

File(s) == [form |-> "file", stem |-> s]
Tree(s) == [form |-> "tree", stem |-> s]
NamesLike(s) == [form |-> "names", stem |-> s]

(* Declarations of which one has its wildcard inside a name. *)
NameWrites ==
  {{File(<<"ab">>)}, {Tree(<<"ab">>)}, {NamesLike(<<"a">>)}, {File(<<"c">>)}}
=============================================================================
