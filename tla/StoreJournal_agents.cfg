SPECIFICATION Spec
CONSTANTS
  a = a
  x = x
  p1 = p1
  p2 = p2
  NoRec = NoRec
  Ids = {a}
  Bodies = {x}
  HasSpace = FALSE
  Procs = {p1, p2}
  Ops = {"commit", "rm", "move", "undo", "revert", "cherry-pick"}
  Actors = {"human", "agent"}
  CommitScopes = {"project"}
  KeepsScope = FALSE
  StatusFlags = {"kept", "active"}
  MaxRevs = 2
  MaxCrashes = 1
  MaxFaults = 1
SYMMETRY Symmetry
INVARIANTS
  AgentKnowledgeIsCandidate
  HistoryCoversStore
\* After MaxRevs revisions nothing more is asked of the store.
CHECK_DEADLOCK FALSE
