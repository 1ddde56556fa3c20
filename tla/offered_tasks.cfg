SPECIFICATION QueueSpec
CONSTANTS
  User      = {ann, ben}
  Pool      = {team, admins}
  Governing = {admins}
  Case      = {c1}
  Submitter <- MCSubmitter
  DueDate   = {1, 2}
  PageSize  = 1
  MaxTasks  = 2
  MaxMoves  = 1
  Nobody    = Nobody
INVARIANTS
  OfferedTasksCanBeOpened
CHECK_DEADLOCK FALSE
