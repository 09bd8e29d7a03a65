\* Two quotes under one mandate, and operators who abandon at any moment: the
\* single purchase rule across checkouts, and what outcomes rest on.
SPECIFICATION Spec
CONSTANTS
  m1 = m1
  m2 = m2
  c1 = c1
  c2 = c2
  a1 = a1
  a2 = a2
  v1 = v1
  None = None
  Mandates = {m1}
  Checkouts = {c1, c2}
  Variants = {v1}
  Attempts = {a1, a2}
  Workers = {w1, w2}
  MandateFor <- SharedMandateFor
  CheckoutFor <- TwoCheckoutFor
  Quantity <- TwoQuantity
  InitialStock <- TwoUnits
  MandateFrom <- FromStart
  MandateUntil <- ForLong
  CheckoutUntil <- QuotesLapse
  Permitted = {c1, c2}
  MaxHolds = 1
  MaxNow = 1
  AbandonIsQuiet = FALSE
INVARIANTS
  SingleUse
  OutcomeHasEvidence
  ChargedTwiceOnlyAfterGivingUp
CHECK_DEADLOCK FALSE
