SPECIFICATION CustodySpec
CONSTANTS
  Attachment  = {f1}
  Client      = {c1}
  Scanner     = {w1, w2}
  Sweeper     = {s1, s2}
  MaxFiles    = 1
  MaxReceives = 2
  MaxFaults   = 1
  MaxMoves    = 3
  None        = None
INVARIANTS
  CustodyInv
  RedactionLeavesOnlyStrays
PROPERTIES
  ConfirmedFilesAreScanned
  EligibleCasesGetRedacted
CHECK_DEADLOCK FALSE
