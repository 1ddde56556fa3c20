SPECIFICATION MCSpec
CONSTANTS
  Person      = {ann, ben}
  Founder     = ann
  Invitation  = {i1, i2}
  Group       = {g1, g2}
  Delegation  = {d1}
  Client      = {c1, c2}
  MaxRequests = 5
  Keep        = Keep
  None        = None
  DayLength   = 4
  WeekLength  = 3
  MaxDaysSearched = 9
  Week        <- MCWeek
  DefaultWeek <- MCDefault
  Holiday     = {3, 4}
  Created     = {6, 8, 10}
  Duration    = {0, 1, 3}
  NoDeadline  = NoDeadline
  Account     = {"a1", "a2", "a3", "a4"}
  Profile     <- MCProfile
  Domain      = {"x", "y"}
  Browser     = {c1, c2}
  Tenancy     = {"o1", "o2"}
  MaxAttempts = 2
  MaxChanges  = 2
  Nothing     = Nothing
  User        = {"reader"}
  Pool        = {"team"}
  Governing   = {}
  Case        = {"case"}
  Submitter   <- MCSubmitter
  DueDate     = {1, 2}
  PageSize    = 1
  MaxTasks    = 3
  MaxMoves    = 1
  Nobody      = Nobody
  Filing      = {"f1", "f2"}
  Approver    = {"al"}
  Requester   = "req"
  Runs        <- MCRuns
  FirstRuns   <- MCFirstRuns
  SuppressBelow = 2
  MaxInstant  = 6
  Bucket      = {2}
  MaxRaised   = 1
CONSTRAINT Bounds
SYMMETRY MCSymmetry
INVARIANTS
  OrganisationInv
  SerialChangesKeepAnOwner
  DeadlineIsTheLastWorkingMinute
  SignInInv
  QueueInv
  ReportsInv
CHECK_DEADLOCK FALSE
