\* One quote, two payment identities, two sessions: admission against
\* admission, late answers, reconciliation, cancellation, revocation, crashes,
\* and the invariant the proofs use.
SPECIFICATION Spec
CONSTANTS
  m1 = m1
  m2 = m2
  c1 = c1
  c2 = c2
  a1 = a1
  a2 = a2
  v1 = v1
  None = None
  Mandates = {m1}
  Checkouts = {c1}
  Variants = {v1}
  Attempts = {a1, a2}
  Workers = {w1, w2}
  MandateFor <- OneMandateFor
  CheckoutFor <- OneCheckoutFor
  Quantity <- OneQuantity
  InitialStock <- OneUnit
  MandateFrom <- FromStart
  MandateUntil <- ForLong
  CheckoutUntil <- QuotesLapse
  Permitted = {c1}
  MaxHolds = 2
  MaxNow = 1
  AbandonIsQuiet = TRUE
INVARIANTS
  SaleIsWhole
  HoldsFollowPayments
  IInv
PROPERTIES
  DatabaseNeverRefuses
  AdmittedUnderAuthority
  ImplementsOnePurchase
CHECK_DEADLOCK FALSE
