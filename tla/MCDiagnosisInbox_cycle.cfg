SPECIFICATION Spec
CONSTANTS
  h1 = h1
  h2 = h2
  b1 = b1
  b2 = b2
  e1 = e1
  e2 = e2
  i1 = i1
  i2 = i2
  x1 = x1
  p1 = p1
  p2 = p2
  p3 = p3
  p4 = p4
  p5 = p5
  Handler = {h1, h2}
  Batch = {b1, b2}
  Event = {e1, e2}
  Item = {i1, i2, x1}
  Payload = {p1, p2, p3, p4, p5}
  EventOf <- MCEventOf
  BatchOf <- MCBatchOf
  Listings <- MCListings
  Invalid <- MCInvalid
  Promotable <- MCPromotable
  IdOrder <- MCIdOrder
  ResultOrder <- MCResultOrder
  Nobody = nobody
  Nothing = nothing
  MaxVersions = 2
  MaxRequests = 3
  MaxFailures = 1
SYMMETRY Symmetry
INVARIANTS NoCircularWait PromotedIsAccepted OnlyExplainedClashes
PROPERTY ImplementsDelivery
CHECK_DEADLOCK FALSE
