SPECIFICATION FairSpec
CONSTANTS
  r1 = r1  r2 = r2  dir = dir  file = file  ui = ui
  Requesters = {r1, r2}
  Subjects = {dir, file}
  Subject <- MCSubject
  Want <- MCWant
  Covers <- MCCovers
  Decisions <- MCDecisions
  Kept <- MCKept
  Clients = {ui}
  Buffer = 1
  MaxRuns = 1
  MaxRows = 2
INVARIANTS StreamConverges 
PROPERTIES FailsClosed RequestsEnd
