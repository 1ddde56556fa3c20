SPECIFICATION Spec
CONSTANTS
  StepKey = {"review", "finance", "route", "gate", "loop", "missing"}
  User <- MCUser
  Pool = {"team"}
  Submitter = "ann"
  Strategy = {"manager", "group", "boss", "head"}
  Condition = {"over"}
  Nobody = "nobody"
  Always = "always"
  MaxLevel = 2
  MaxAutomaticSteps = 3
  Definition <- RequestDefinition
  MaxVersion = 2
  Values = {"small", "large"}
  FactsOf <- MCFactsOf
  Directories <- RequestDirectories
  PoolMembers <- MCPoolMembers
  MaxTasks = 3
  MaxRowVersion = 4
  Client = {c1, c2}
  NoValues = NoValues
  Bodies <- RequestBodies
  Sweeper = {}
  Unreliable = {}
SYMMETRY ClientSymmetry
CHECK_DEADLOCK FALSE
INVARIANTS
  WorkMatchesTheCase
PROPERTIES
  TerminalIsFinal
  DecisionMovesItsCase
  ClaimIsExclusive
