\* A sweep of one payment at a time beside rivals, in a crowd and jammed.
SPECIFICATION MCSpec
CONSTANTS
  m1 = m1
  m2 = m2
  c1 = c1
  c2 = c2
  a1 = a1
  a2 = a2
  a3 = a3
  v1 = v1
  None = None
  Mandates = {m1, m2}
  Checkouts = {c1, c2}
  Variants = {v1}
  Attempts = {a1, a2, a3}
  Workers = {w1, sweeper}
  Sweeper = sweeper
  Limit = 1
  MandateFor <- MandatesFor
  CheckoutFor <- CheckoutsFor
  Quantity <- OneEach
  InitialStock <- TwoUnits
  MandateFrom <- FromStart
  MandateUntil <- ForLong
  CheckoutUntil <- ForLongQuotes
  Permitted = {c1, c2}
  MaxHolds = 1
  MaxNow = 0
  AbandonIsQuiet = FALSE
INVARIANT
  ReportIsEarned
PROPERTY
  SweepSettles
CHECK_DEADLOCK FALSE
