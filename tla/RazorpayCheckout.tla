--------------------------- MODULE RazorpayCheckout ---------------------------
(***************************************************************************)
(* The interactive bridge beside the payment kernel.  An admitted attempt  *)
(* is given a Razorpay order, a customer pays it on a page Razorpay hosts, *)
(* and a signed callback makes the kernel record the outcome.  Every       *)
(* request is a few transactions with a network call between them, and the *)
(* kernel runs on meanwhile: nothing in it knows that a binding exists.    *)
(*                                                                         *)
(* The row of razorpay_checkout is locked without refreshing the object a  *)
(* session has already loaded, so a request decides by the status it read  *)
(* first, and what it writes then meets the trigger of the table.          *)
(***************************************************************************)
EXTENDS PaymentKernel

CONSTANTS
    Desks,       \* requests of the interactive routes
    Payments,    \* payments customers make on the hosted page
    MayRefund    \* whether a captured payment can be refunded at Razorpay

ASSUME BridgeAssumption == None \notin Payments /\ MayRefund \in BOOLEAN

VARIABLES
    binding,     \* status of the razorpay_checkout row of each attempt
    confirmedBy, \* its provider_payment_id
    order,       \* whether Razorpay has an order under the attempt's receipt
    payment,     \* what Razorpay says of each payment on the order of an attempt
    desk         \* what each request is in the middle of

bridge == <<binding, confirmedBy, order, payment, desk>>
allvars == <<vars, bridge>>

NoRequest == [pc |-> "idle", attempt |-> None, payment |-> None, conflict |-> FALSE]
PaymentStates == {"NONE", "authorized", "captured", "failed", "refunded"}
BindingStates == {"NONE", "PREPARING", "AWAITING_PAYMENT", "CONFIRMED"}
Requests == [pc : {"idle", "eligible", "ordering", "binding", "fetching", "applying",
                   "confirming", "broken"},
             attempt : Attempts \cup {None}, payment : Payments \cup {None}, conflict : BOOLEAN]

Turn(r, s) == desk' = [desk EXCEPT ![r] = s]

-----------------------------------------------------------------------------
(***************************************************************************)
(* Preparation: an order for an admitted attempt.                          *)
(***************************************************************************)

\* The status that decides is read without a lock.
CheckEligible(r, a) ==
    /\ desk[r] = NoRequest
    /\ attempt[a] = "ADMITTED"
    /\ Turn(r, [NoRequest EXCEPT !.pc = "eligible", !.attempt = a])
    /\ UNCHANGED <<vars, binding, confirmedBy, order, payment>>

\* Lock the attempt, find or create the binding, commit.  A binding that has its
\* order already is the answer.
ReserveBinding(r) ==
    LET a == desk[r].attempt
        found == binding[a]
    IN /\ desk[r].pc = "eligible"
       /\ binding' = [binding EXCEPT ![a] = IF found = "NONE" THEN "PREPARING" ELSE found]
       /\ Turn(r, IF found \in {"NONE", "PREPARING"}
                  THEN [desk[r] EXCEPT !.pc = "ordering"]
                  ELSE NoRequest)
       /\ UNCHANGED <<vars, confirmedBy, order, payment>>

\* Create the order, or find the one under this receipt.  The gateway may act and
\* lose its answer, or not answer at all; a receipt never has two orders.
ObtainOrder(r) ==
    LET a == desk[r].attempt
    IN /\ desk[r].pc = "ordering"
       /\ \E exists \in {order[a], TRUE}, answered \in BOOLEAN :
            /\ answered => exists
            /\ order' = [order EXCEPT ![a] = exists]
            /\ Turn(r, IF answered THEN [desk[r] EXCEPT !.pc = "binding"] ELSE NoRequest)
       /\ UNCHANGED <<vars, binding, confirmedBy, payment>>

\* What razorpay_checkout_guard lets a bind_order, or a mark_confirmed, write.
MayBind(status) == status = "PREPARING"
MayConfirm(status) == status = "AWAITING_PAYMENT"

\* The row is locked and the object in the session is used: it was read before
\* the call, so it never has an order.  The update meets the row as it is now.
BindOrder(r) ==
    LET a == desk[r].attempt
    IN /\ desk[r].pc = "binding"
       /\ \/ /\ MayBind(binding[a])
             /\ binding' = [binding EXCEPT ![a] = "AWAITING_PAYMENT"]
             /\ Turn(r, NoRequest)
          \/ /\ ~ MayBind(binding[a])
             /\ Turn(r, [desk[r] EXCEPT !.pc = "broken"])
             /\ UNCHANGED binding
       /\ UNCHANGED <<vars, confirmedBy, order, payment>>

-----------------------------------------------------------------------------
(***************************************************************************)
(* The customer and Razorpay.                                              *)
(***************************************************************************)

\* A payment on an order that is shown to the customer: authorized or refused, then
\* captured, and perhaps refunded.  An order is captured once.
CustomerPays(a, p) ==
    /\ binding[a] \in {"AWAITING_PAYMENT", "CONFIRMED"}
    /\ \/ payment[a][p] = "NONE" /\ payment' = [payment EXCEPT ![a][p] = "authorized"]
       \/ payment[a][p] \in {"NONE", "authorized"} /\ payment' = [payment EXCEPT ![a][p] = "failed"]
       \/ /\ payment[a][p] = "authorized"
          /\ \A q \in Payments : payment[a][q] \notin {"captured", "refunded"}
          /\ payment' = [payment EXCEPT ![a][p] = "captured"]
       \/ /\ MayRefund
          /\ payment[a][p] = "captured"
          /\ payment' = [payment EXCEPT ![a][p] = "refunded"]
    /\ UNCHANGED <<vars, binding, confirmedBy, order, desk>>

Captured(a, p) == payment[a][p] \in {"captured", "refunded"}

-----------------------------------------------------------------------------
(***************************************************************************)
(* Verification of a signed callback.                                      *)
(***************************************************************************)

\* Fault: whatever the attempt was, a provider operation is outstanding now.
ExternallyDispatchedAgain(status) == "IN_FLIGHT"

\* What a provider operation performed by somebody else makes of an attempt.
ExternallyDispatched(status) == IF status = "ADMITTED" THEN "IN_FLIGHT" ELSE status

\* Fault: a settled payment has nothing left to verify.
VerifiableUntilSettled(a, p) ==
    /\ attempt[a] \notin Terminal
    /\ binding[a] = "AWAITING_PAYMENT"
    /\ payment[a][p] \in {"authorized", "captured", "refunded"}

\* A binding with an order and no confirmation, and a callback that is authentic: one
\* is signed for a payment that went through on the page.
Verifiable(a, p) ==
    /\ binding[a] = "AWAITING_PAYMENT"
    /\ payment[a][p] \in {"authorized", "captured", "refunded"}

\* Load the binding; unless it is confirmed, commit that a provider operation
\* exists.
BeginVerify(r, a, p) ==
    /\ desk[r] = NoRequest
    /\ Verifiable(a, p)
    /\ attempt' = [attempt EXCEPT ![a] = ExternallyDispatched(@)]
    /\ Turn(r, [NoRequest EXCEPT !.pc = "fetching", !.attempt = a, !.payment = p])
    /\ UNCHANGED <<mandate, checkout, hold, stock, by, bound, conflicted, provider, session, now,
                   binding, confirmedBy, order, payment>>

\* Only a captured payment is a success.
Observed(state) == state = "captured"

\* Ask Razorpay about the payment, with no transaction open.
FetchPayment(r) ==
    /\ desk[r].pc = "fetching"
    /\ Observed(payment[desk[r].attempt][desk[r].payment])
    /\ Turn(r, [desk[r] EXCEPT !.pc = "applying"])
    /\ UNCHANGED <<vars, binding, confirmedBy, order, payment>>

\* No success to apply: not captured, captured and given back, or no answer.
FetchNothing(r) ==
    /\ desk[r].pc = "fetching"
    /\ Turn(r, NoRequest)
    /\ UNCHANGED <<vars, binding, confirmedBy, order, payment>>

\* The outcome goes through the machinery a dispatch uses.  If a repository raises,
\* the request fails and nothing was written.
ApplyObservation(r) ==
    LET a == desk[r].attempt
    IN /\ desk[r].pc = "applying"
       /\ RecordDefinitive(a, "SUCCEEDED", "INTERACTIVE")
       /\ Turn(r, IF attempt[a] \in Dispatched /\ ~ Recordable(a, "SUCCEEDED")
                  THEN [desk[r] EXCEPT !.pc = "broken"]
                  ELSE [desk[r] EXCEPT !.pc = "confirming", !.conflict = attempt[a] = "FAILED"])
       /\ UNCHANGED <<provider, session, now, binding, confirmedBy, order, payment>>

\* Fault: the kernel's answer is not looked at.
StandsAnyway(r) == r \in Desks

\* The kernel did not find the payment settled the other way.
Stands(r) == ~ desk[r].conflict

\* The payment the outcome was applied for.
Evidence(r) == desk[r].payment

\* Write the evidence, after the outcome and only when it stands.  The status that
\* decides is the one read before the outcome was asked for.
Confirm(r) ==
    LET a == desk[r].attempt
    IN /\ desk[r].pc = "confirming"
       /\ \/ /\ Stands(r) /\ MayConfirm(binding[a])
             /\ binding' = [binding EXCEPT ![a] = "CONFIRMED"]
             /\ confirmedBy' = [confirmedBy EXCEPT ![a] = Evidence(r)]
             /\ Turn(r, NoRequest)
          \/ /\ Stands(r) /\ ~ MayConfirm(binding[a])
             /\ Turn(r, [desk[r] EXCEPT !.pc = "broken"])
             /\ UNCHANGED <<binding, confirmedBy>>
          \/ /\ ~ Stands(r)
             /\ Turn(r, NoRequest)
             /\ UNCHANGED <<binding, confirmedBy>>
       /\ UNCHANGED <<vars, order, payment>>

-----------------------------------------------------------------------------
\* A request dies at any point, or its caller is told that it failed.
RequestEnds(r) ==
    /\ desk[r] # NoRequest
    /\ Turn(r, NoRequest)
    /\ UNCHANGED <<vars, binding, confirmedBy, order, payment>>

BridgeInit == /\ binding = [a \in Attempts |-> "NONE"]
              /\ confirmedBy = [a \in Attempts |-> None]
              /\ order = [a \in Attempts |-> FALSE]
              /\ payment = [a \in Attempts |-> [p \in Payments |-> "NONE"]]
              /\ desk = [r \in Desks |-> NoRequest]

DeskStep(r) ==
    \/ \E a \in Attempts : CheckEligible(r, a)
    \/ ReserveBinding(r)
    \/ ObtainOrder(r)
    \/ BindOrder(r)
    \/ \E a \in Attempts, p \in Payments : BeginVerify(r, a, p)
    \/ FetchPayment(r)
    \/ FetchNothing(r)
    \/ ApplyObservation(r)
    \/ Confirm(r)

BridgeNextWithoutCrash ==
    \/ NextWithoutCrash /\ UNCHANGED bridge
    \/ \E r \in Desks : DeskStep(r)
    \/ \E a \in Attempts, p \in Payments : CustomerPays(a, p)

BridgeNext ==
    \/ BridgeNextWithoutCrash
    \/ \E w \in Workers : WorkerCrash(w) /\ UNCHANGED bridge
    \/ \E r \in Desks : RequestEnds(r)

BridgeSpec == Init /\ BridgeInit /\ [][BridgeNext]_allvars

-----------------------------------------------------------------------------
(***************************************************************************)
(* Fairness: a customer whose payment went through sends the callback      *)
(* again and again, and neither the gateway nor the process fails at the   *)
(* same point every time.  Requests may still die anywhere.                *)
(***************************************************************************)
BridgeFairness ==
    /\ SF_allvars(\E r \in Desks, a \in Attempts, p \in Payments :
                     BeginVerify(r, a, p) /\ Captured(a, p))
    /\ SF_allvars(\E r \in Desks : FetchPayment(r))
    /\ SF_allvars(\E r \in Desks : ApplyObservation(r))
    /\ SF_allvars(\E r \in Desks : Confirm(r))
    /\ WF_allvars(\E r \in Desks : RequestEnds(r))

FairBridgeSpec == BridgeSpec /\ BridgeFairness

-----------------------------------------------------------------------------
(***************************************************************************)
(* Properties.                                                             *)
(***************************************************************************)

\* The type invariant: statuses the columns allow, a payment identifier exactly on a
\* confirmed binding, an order behind every binding that is past PREPARING.
BridgeTypeOK ==
    /\ binding \in [Attempts -> BindingStates]
    /\ confirmedBy \in [Attempts -> Payments \cup {None}]
    /\ order \in [Attempts -> BOOLEAN]
    /\ payment \in [Attempts -> [Payments -> PaymentStates]]
    /\ desk \in [Desks -> Requests]
    /\ \A a \in Attempts :
         /\ binding[a] = "CONFIRMED" <=> confirmedBy[a] # None
         /\ binding[a] \in {"AWAITING_PAYMENT", "CONFIRMED"} => order[a]

\* A confirmed binding never says what the authoritative row denies: the payment
\* succeeded, and the Razorpay payment it names was captured.
ConfirmedIsSettled ==
    \A a \in Attempts : binding[a] = "CONFIRMED" =>
        /\ attempt[a] = "SUCCEEDED"
        /\ Captured(a, confirmedBy[a])

\* "Razorpay's own record of the payment decides what happened": an interactive
\* success is backed by a capture, however many payments were tried on the order.
InteractiveSuccessWasCaptured ==
    \A a \in Attempts : by[a] = "INTERACTIVE" =>
        attempt[a] = "SUCCEEDED" /\ \E p \in Payments : Captured(a, p)

\* The binding, the row and the gateway tell one story.
InteractiveIsSound == BridgeTypeOK /\ ConfirmedIsSettled /\ InteractiveSuccessWasCaptured

\* The header of payments/execution.py: "found in ADMITTED   the provider was
\* certainly never called. Safe to dispatch".
AdmittedMeansUncharged ==
    \A a \in Attempts : attempt[a] = "ADMITTED" =>
        charges[a] = 0 /\ \A p \in Payments : ~ Captured(a, p)

\* "A concurrent preparation that got there first is not an error", of _bind: with
\* nothing verified yet, no request ends in an error of the database.
LoserIsAnswered ==
    \A r \in Desks : desk[r].pc = "broken" => desk[r].payment # None

\* "Running the verification again heals it", of _confirm: the binding of a payment
\* that succeeded interactively is confirmed in the end, wherever requests died.
EvidenceFollows ==
    \A a \in Attempts : by[a] = "INTERACTIVE" ~> binding[a] = "CONFIRMED"

-----------------------------------------------------------------------------
(***************************************************************************)
(* The inductive invariant behind InteractiveIsSound and OverIsForever.    *)
(* The kernel's own does not hold here: an attempt is dispatched without a *)
(* call, and succeeds without a word of the kernel's provider.             *)
(***************************************************************************)

\* Every row and session has its type, an attempt names its reservation, and the
\* provider of the kernel is called for nothing that was not dispatched.
RowsKnown ==
    /\ checkout \in [Checkouts -> {"OPEN", "CANCELLED", "PAID"}]
    /\ hold \in [Checkouts -> [Slots -> Holding \cup {"NONE", "RELEASED", "CONSUMED"}]]
    /\ attempt \in [Attempts -> Open \cup Terminal \cup {"NONE"}]
    /\ by \in [Attempts -> {"NONE", "EXECUTION", "RECONCILIATION", "NEVER_EXECUTED", "OPERATOR",
                            "INTERACTIVE"}]
    /\ bound \in [Attempts -> Slots \cup {0}]
    /\ call \in [Attempts -> {"NONE", "SENT", "ORPHANED", "CLOSED"} \cup Answers]
    /\ session \in [Workers -> Sessions]
    /\ now \in Nat
    /\ \A a \in Attempts : /\ attempt[a] = "NONE" <=> bound[a] = 0
                           /\ attempt[a] \in {"NONE", "ADMITTED"} => call[a] = "NONE"

\* What a session of the kernel knows, although interactive requests resolve
\* payments beside it.
SessionStands(w) ==
    LET s == session[w]
        held == hold[s.checkout][s.slot] IN
    /\ Locking(w) => s.checkout \in Checkouts
    /\ s.pc \in {"admitting", "deciding"} =>
         /\ s.attempt \in Attempts
         /\ CheckoutFor[s.attempt] = s.checkout
         /\ attempt[s.attempt] = "NONE"
    /\ s.pc = "deciding" =>
         /\ s.slot \in Slots
         /\ s.seen \in Holding
         /\ s.seen = "ACTIVE" => held = "ACTIVE"
         /\ s.seen = "COMMITTED" => held \notin {"NONE", "ACTIVE"}
    /\ s.pc \in {"asking", "answered"} => s.attempt \in Attempts
    /\ s.pc = "answered" => s.answer # "NONE"
SessionsStand == \A w \in Workers : SessionStands(w)

\* What an interactive request knows, although the kernel resolves payments beside it.
RequestsKnow ==
    \A r \in Desks :
        LET d == desk[r] IN
        /\ d.pc # "idle" => d.attempt \in Attempts
        /\ d.pc = "binding" => order[d.attempt]
        /\ d.pc \in {"fetching", "applying", "confirming"} => d.payment \in Payments
        /\ d.pc \in {"applying", "confirming"} => Captured(d.attempt, d.payment)
        /\ d.pc = "confirming" /\ ~ d.conflict => attempt[d.attempt] = "SUCCEEDED"

KernelInv == RowsKnown /\ SessionsStand /\ MandateLocked /\ SingleUse /\ BoundHolds

BridgeInv == KernelInv /\ RequestsKnow /\ InteractiveIsSound
=============================================================================
