CONSTANTS
  ui = ui
  worker = worker
  other = other
  here = here
  there = there
  Thread <- MCThread
  Process <- MCProcess
  ProcessOf <- MCProcessOf
  MaxSaves = 3
  MaxTroubles = 1
SPECIFICATION Spec
INVARIANTS
  TypeOK
  NeverTorn
  SavesAreKept
