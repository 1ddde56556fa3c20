SPECIFICATION Spec
CONSTANTS
  StepKey = {"review", "finance", "route", "gate", "loop", "missing"}
  User <- MCUser
  Pool = {"team"}
  Submitter = "ann"
  Strategy = {"manager", "group", "boss", "head"}
  Condition = {"over"}
  Nobody = "nobody"
  Always = "always"
  MaxLevel = 2
  MaxAutomaticSteps = 3
  Definition <- OverlapDefinition
  MaxVersion = 1
  Values = {"small"}
  FactsOf <- SweepFactsOf
  Directories <- SweepDirectories
  PoolMembers <- MCPoolMembers
  MaxTasks = 3
  MaxRowVersion = 4
  Client = {c1}
  NoValues = NoValues
  Bodies <- ReturnBodies
  Sweeper = {s1, s2}
  Unreliable = {s1, s2}
SYMMETRY SweeperSymmetry
CHECK_DEADLOCK FALSE
INVARIANTS
  IInv
  ActiveCaseHasWork
  LiveTimerHasOpenTask
PROPERTIES
  ImplementsContract
  FreshEscalationIsNew
