--------------------------- MODULE MCPaymentKernel ---------------------------
(***************************************************************************)
(* Small shops for TLC.  One quote with two payment identities is where    *)
(* admissions, outcomes, abandonment and retries race; two quotes share    *)
(* either a mandate or the last unit of a variant.                         *)
(***************************************************************************)
EXTENDS PaymentSchema, TLC

CONSTANTS m1, m2, c1, c2, a1, a2, v1

\* One mandate, one quote, two idempotency keys.
OneMandateFor == c1 :> m1
OneCheckoutFor == a1 :> c1 @@ a2 :> c1
OneQuantity == c1 :> (v1 :> 1)

\* Two quotes under one mandate.
SharedMandateFor == c1 :> m1 @@ c2 :> m1
TwoCheckoutFor == a1 :> c1 @@ a2 :> c2
TwoQuantity == c1 :> (v1 :> 1) @@ c2 :> (v1 :> 1)

\* Two buyers and one unit.
OwnMandateFor == c1 :> m1 @@ c2 :> m2

OneUnit == v1 :> 1
TwoUnits == v1 :> 2

\* Windows: mandates are valid from the start unless their run says otherwise,
\* and a quote may lapse while a session waits for the shelf.
FromStart == [m \in Mandates |-> 0]
ForLong == [m \in Mandates |-> MaxNow + 1]
ForLongQuotes == [c \in Checkouts |-> MaxNow + 1]
QuotesLapse == [c \in Checkouts |-> MaxNow]
FirstQuoteLapses == [c \in Checkouts |-> IF c = c1 THEN 1 ELSE MaxNow + 1]
=============================================================================
