SPECIFICATION MCSpec
CONSTANTS
  Page      = {p1, p2}
  StepKeys  <- MCStepKeys
  FieldKeys <- MCFieldKeys
  DecisionAction = {"approve", "complete"}
  Defaults  <- MCDefaults
  Terminal  = {"$completed"}
  Drafts    <- MCDrafts
  MaxRules  = 2
  MaxEdits  = 2
  MaxClicks = 2
  MaxFaults = 1
  Tenant    = {"o1", "o2"}
  Template  = {1, 2}
  SystemLibrary <- MCLibrary
  Process   = {1, 2, 3}
  DocumentId  = {1, 2, 3, 4}
  Content   <- MCContent
  Desk      = {p1, p2}
  MaxWork   = 4
  Absent    = Absent
  FormPage  = {p1, p2}
  FormField <- MCFormField
  FileField <- MCFileField
  Form      <- MCForm
  Answer    <- MCAnswer
  RuleCondition <- MCRuleCondition
  Roles     <- MCRoles
  Department <- Standard
  MaxFormClicks = 2
  MaxFormFaults = 1
  StepKey   <- MCStepKey
  Condition <- MCCondition
  Strategy  <- MCStrategy
  Pool      <- MCPool
  User      <- MCUser
  Submitter = "submitter"
  Manager   = "manager"
  Nobody    = "nobody"
  Always    = Absent
  Unanswered = Absent
  Amount    <- MCAmount
  MaxLevel  = 2
  MaxAutomaticSteps = 20
CONSTRAINT Bounds
SYMMETRY PageSymmetry
INVARIANTS
  PublishedWorkflowsRun
  CleanMeansSaved
  LibraryInv
  TemplatesHoldWhatWasShown
  SubmissionsAreSound
  UnusableNeverMatches
  SimulationsRunTheTemplates
CHECK_DEADLOCK FALSE
