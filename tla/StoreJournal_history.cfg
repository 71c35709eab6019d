SPECIFICATION Spec
CONSTANTS
  a = a
  b = b
  x = x
  y = y
  p1 = p1
  NoRec = NoRec
  Ids = {a, b}
  Bodies = {x, y}
  HasSpace = TRUE
  Procs = {p1}
  Ops = {"commit", "rm", "move", "undo", "revert", "cherry-pick"}
  Actors = {"human", "agent"}
  CommitScopes = {"project", "workspace", "global"}
  KeepsScope = TRUE
  StatusFlags = {"kept"}
  MaxRevs = 4
  MaxCrashes = 0
  MaxFaults = 0
SYMMETRY Symmetry
INVARIANTS
  CheckoutIsCurrent
  RevertTakesEffect
PROPERTY
  ImplementsHistory
\* After MaxRevs revisions nothing more is asked of the store.
CHECK_DEADLOCK FALSE
