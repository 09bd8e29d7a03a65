\* Operators may abandon while an admission of the same quote decides.
SPECIFICATION Spec
CONSTANTS
  m1 = m1
  m2 = m2
  c1 = c1
  c2 = c2
  a1 = a1
  a2 = a2
  v1 = v1
  None = None
  Mandates = {m1}
  Checkouts = {c1}
  Variants = {v1}
  Attempts = {a1, a2}
  Workers = {w1, w2}
  MandateFor <- OneMandateFor
  CheckoutFor <- OneCheckoutFor
  Quantity <- OneQuantity
  InitialStock <- OneUnit
  MandateFrom <- FromStart
  MandateUntil <- ForLong
  CheckoutUntil <- QuotesLapse
  Permitted = {c1}
  MaxHolds = 2
  MaxNow = 1
  AbandonIsQuiet = FALSE
INVARIANTS
  OpenPaymentIsPayable
CHECK_DEADLOCK FALSE
