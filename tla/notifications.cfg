SPECIFICATION FairSpec
CONSTANTS
  Event       = {"created"}
  Person      = {"ann", "ben"}
  Worker      = {w1, w2}
  Slow        = {w1}
  Payloads   <- MCPayloads
  Pool        = "pool"
  Gone        = {"ben"}
  MaxReceives = 2
  Choices     = {{}, {"inApp"}}
  MaxEdits    = 1
  Request     = {r1}
  None        = None
INVARIANTS
  DeliveryInv
  RepeatsAreExcused
  NobodyIsPassedOver
  LinksDecideOnce
PROPERTIES
  MessagesLeaveTheQueue
CHECK_DEADLOCK FALSE
