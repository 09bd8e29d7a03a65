\* Two requests, a hosted page and the kernel beside them, callbacks repeated
\* for ever.
SPECIFICATION FairBridgeSpec
CONSTANTS
  m1 = m1
  m2 = m2
  c1 = c1
  c2 = c2
  a1 = a1
  a2 = a2
  v1 = v1
  None = None
  Mandates = {m1}
  Checkouts = {c1}
  Variants = {v1}
  Attempts = {a1}
  Workers = {w1}
  MandateFor <- OneMandateFor
  CheckoutFor <- SoleCheckoutFor
  Quantity <- OneQuantity
  InitialStock <- OneUnit
  MandateFrom <- FromStart
  MandateUntil <- ForLong
  CheckoutUntil <- ForLongQuotes
  Permitted = {c1}
  MaxHolds = 1
  MaxNow = 0
  AbandonIsQuiet = TRUE
  Desks = {r1, r2}
  Payments = {p1}
  MayRefund = FALSE
INVARIANTS
  InteractiveIsSound
PROPERTIES
  OverIsForever
  EvidenceFollows
CHECK_DEADLOCK FALSE
