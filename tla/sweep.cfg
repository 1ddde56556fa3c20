SPECIFICATION FairSpec
CONSTANTS
  StepKey = {"review", "finance", "route", "gate", "loop", "missing"}
  User <- MCUser
  Pool = {"team"}
  Submitter = "ann"
  Strategy = {"manager", "group", "boss", "head"}
  Condition = {"over"}
  Nobody = "nobody"
  Always = "always"
  MaxLevel = 2
  MaxAutomaticSteps = 3
  Definition <- SweepDefinition
  MaxVersion = 1
  Values = {"small"}
  FactsOf <- SweepFactsOf
  Directories <- SweepDirectories
  PoolMembers <- MCPoolMembers
  MaxTasks = 3
  MaxRowVersion = 4
  Client = {c1}
  NoValues = NoValues
  Bodies <- ReturnBodies
  Sweeper = {s1}
  Unreliable = {}
CHECK_DEADLOCK FALSE
INVARIANTS
  EscalationLevelsDistinct
PROPERTIES
  DueTimerIsTaken
