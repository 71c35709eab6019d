---------------------------- MODULE MCWorkflowRun ----------------------------
(* Small workflows for WorkflowRun: three steps, of which the third waits  *)
(* for the first.                                                          *)
EXTENDS WorkflowRun

MCPaths == {<<"a">>, <<"d", "x">>, <<"d", "y">>}
MCBegins == {<<x, x>> : x \in {"a", "d", "x", "y"}}

A == [form |-> "file", stem |-> <<"a">>]
X == [form |-> "file", stem |-> <<"d", "x">>]
D == [form |-> "children", stem |-> <<"d">>]

Chain == <<{}, {}, {1}>>
(* Apart: steps 1 and 2 share a wave.  Nested: the directory of step 2     *)
(* holds the file of step 1, so they take turns.                           *)
Apart == [parallel |-> TRUE, deps |-> Chain, writes |-> <<{A}, {D}, {A}>>]
Nested == [parallel |-> TRUE, deps |-> Chain, writes |-> <<{X}, {D}, {A}>>]
Sequential == [parallel |-> FALSE, deps |-> Chain, writes |-> <<{}, {D}, {}>>]

MCManifests == {Apart, Nested, Sequential}
=============================================================================
