SPECIFICATION Spec
CONSTANTS
  Client       = {p, q, r}
  Fragile      = {}
  Content      = {first, second}
  Bootstrap    = first
  Case         = {k1, k2}
  NoCase       = NoCase
  NotPublished = NotPublished
  MaxVersions  = 3
  first  = first
  second = second
SYMMETRY ClientSymmetry
INVARIANTS
  IInv
  OnlyNewestIsDraft
  ReferencesAreHandedOutOnce
  PinnedDocumentsVerify
PROPERTIES
  PublishedRowsAreFixed
CHECK_DEADLOCK FALSE
