---------------------------- MODULE MCAgentLaunch ----------------------------
(* Two steps of one plan launched in the same project: the default allow   *)
(* list with one declared and one detected tool, and nothing that fails.   *)
EXTENDS AgentLaunch

MCDeclared == {{}, {"go"}}
MCLanguages == {{}, {"cargo"}}
=============================================================================
