\* Two buyers, one unit on the shelf, and a first quote that lapses while
\* sessions wait: preparation against admission, outcome and cancellation.
SPECIFICATION Spec
CONSTANTS
  m1 = m1
  m2 = m2
  c1 = c1
  c2 = c2
  a1 = a1
  a2 = a2
  v1 = v1
  None = None
  Mandates = {m1, m2}
  Checkouts = {c1, c2}
  Variants = {v1}
  Attempts = {a1, a2}
  Workers = {w1, w2}
  MandateFor <- OwnMandateFor
  CheckoutFor <- TwoCheckoutFor
  Quantity <- TwoQuantity
  InitialStock <- OneUnit
  MandateFrom <- FromStart
  MandateUntil <- ForLong
  CheckoutUntil <- FirstQuoteLapses
  Permitted = {c1, c2}
  MaxHolds = 1
  MaxNow = 1
  AbandonIsQuiet = TRUE
INVARIANTS
  NoOversell
CHECK_DEADLOCK FALSE
