SPECIFICATION FairSpec
CONSTANTS
  Client       = {p, q}
  Fragile      = {p, q}
  Content      = {first, second}
  Bootstrap    = first
  Case         = {k1}
  NoCase       = NoCase
  NotPublished = NotPublished
  MaxVersions  = 3
  first  = first
  second = second
PROPERTIES
  RequestsEnd
  ImplementsLog
CHECK_DEADLOCK FALSE
