---------------------------- MODULE PaymentSchema ----------------------------
(***************************************************************************)
(* The tables under the payment kernel as the migrations leave them: what  *)
(* a CHECK, a foreign key or a unique index refuses of a row, and what a   *)
(* trigger refuses of an update.  The kernel knows none of it, so that a   *)
(* write the database would refuse can happen here, and be seen.           *)
(*                                                                         *)
(* Ownership and money are columns no operation assigns; an identity has   *)
(* its quote and its mandate from constants.  Timestamps follow the status *)
(* in the assignment that writes it, and what an UNKNOWN was learned from  *)
(* is not kept.                                                            *)
(***************************************************************************)
EXTENDS PaymentKernel

MandateStatuses == {"ACTIVE", "REVOKED"}
CheckoutStatuses == {"OPEN", "CANCELLED", "PAID"}
ReservationStatuses == {"ACTIVE", "COMMITTED", "RELEASED", "CONSUMED"}
PaymentAttemptStatuses == {"ADMITTED", "IN_FLIGHT", "SUCCEEDED", "FAILED", "UNKNOWN"}
OutcomeSources == {"EXECUTION", "RECONCILIATION", "OPERATOR", "INTERACTIVE"}

\* The column outcome_source: an absence the provider guaranteed was learned by a query.
OutcomeSource(a) == IF by[a] = "NEVER_EXECUTED" THEN "RECONCILIATION" ELSE by[a]

-----------------------------------------------------------------------------
(***************************************************************************)
(* What holds of every row.                                                *)
(***************************************************************************)

MandateTable == \A m \in Mandates : mandate[m] \in MandateStatuses

CheckoutTable == \A c \in Checkouts : checkout[c] \in CheckoutStatuses

VariantTable == \A v \in Variants : stock[v] >= 0

ReservationTable == \A c \in Checkouts, s \in Slots :
    hold[c][s] \in ReservationStatuses \cup {"NONE"}

\* uq_inventory_reservation_active_checkout
OneHoldPerCheckout == \A c \in Checkouts : \A s, t \in HeldRows(c) : s = t

\* The CHECKs of payment_attempt, and its foreign key to a hold for the same quote.
PaymentTable == \A a \in Attempts : attempt[a] # "NONE" =>
    /\ attempt[a] \in PaymentAttemptStatuses
    /\ attempt[a] \in Terminal => OutcomeSource(a) \in OutcomeSources
    /\ attempt[a] \in {"ADMITTED", "IN_FLIGHT"} => by[a] = "NONE"
    /\ bound[a] \in Slots
    /\ hold[CheckoutFor[a]][bound[a]] # "NONE"

\* uq_payment_attempt_mandate_open, _mandate_succeeded and _checkout_succeeded
OnePaymentPerMandate ==
    \A a, b \in Attempts :
        \/ a = b
        \/ /\ MandateOf(a) = MandateOf(b) =>
                /\ ~ (attempt[a] \in Open /\ attempt[b] \in Open)
                /\ ~ (attempt[a] = "SUCCEEDED" /\ attempt[b] = "SUCCEEDED")
           /\ CheckoutFor[a] = CheckoutFor[b] =>
                ~ (attempt[a] = "SUCCEEDED" /\ attempt[b] = "SUCCEEDED")

Tables == /\ MandateTable
          /\ CheckoutTable
          /\ VariantTable
          /\ ReservationTable
          /\ OneHoldPerCheckout
          /\ PaymentTable
          /\ OnePaymentPerMandate

-----------------------------------------------------------------------------
(***************************************************************************)
(* What a write may do.  Each guard lists the transitions it lets through  *)
(* and refuses the rest; a row that stays as it is was not written.        *)
(***************************************************************************)

MandateGuard == \A m \in Mandates : mandate'[m] # mandate[m] =>
    <<mandate[m], mandate'[m]>> = <<"ACTIVE", "REVOKED">>

CheckoutGuard == \A c \in Checkouts : checkout'[c] # checkout[c] =>
    <<checkout[c], checkout'[c]>> \in {"OPEN"} \X {"CANCELLED", "PAID"}

\* A row is inserted ACTIVE and before it lapses (expires_at > created_at); then it is committed, and given
\* back or sold.
ReservationGuard == \A c \in Checkouts, s \in Slots : hold'[c][s] # hold[c][s] =>
    \/ hold[c][s] = "NONE" /\ hold'[c][s] = "ACTIVE" /\ now < HoldUntil(c)
    \/ <<hold[c][s], hold'[c][s]>> \in {<<"ACTIVE", "COMMITTED">>, <<"ACTIVE", "RELEASED">>,
                                       <<"COMMITTED", "RELEASED">>, <<"COMMITTED", "CONSUMED">>}

\* A row is inserted ADMITTED; then it is dispatched, and answered.  The hold it was
\* admitted against never changes, nor does anything of an answered one.
PaymentGuard == \A a \in Attempts :
    /\ attempt'[a] # attempt[a] =>
         <<attempt[a], attempt'[a]>> \in
            {<<"NONE", "ADMITTED">>, <<"ADMITTED", "IN_FLIGHT">>, <<"IN_FLIGHT", "UNKNOWN">>}
            \cup Dispatched \X Terminal
    /\ attempt[a] # "NONE" => bound'[a] = bound[a]
    /\ attempt[a] \in Terminal => by'[a] = by[a]

Guards == MandateGuard /\ CheckoutGuard /\ ReservationGuard /\ PaymentGuard

-----------------------------------------------------------------------------
(***************************************************************************)
(* Going back: the migration that created payment_attempt is undone only   *)
(* while no row holds what the schema before it cannot say.                *)
(***************************************************************************)

\* _require_reversible: an attempt that is merely ADMITTED does not refuse.
Reversible ==
    /\ \A c \in Checkouts : checkout[c] # "PAID"
    /\ \A c \in Checkouts, s \in Slots : hold[c][s] \notin {"COMMITTED", "CONSUMED"}
    /\ \A a \in Attempts : attempt[a] \in {"NONE", "ADMITTED"}

-----------------------------------------------------------------------------
(***************************************************************************)
(* Properties.                                                             *)
(***************************************************************************)

\* "The database is the only layer that cannot be bypassed" (payments/models.py),
\* and nothing tries: whatever is interleaved, a service never writes what a
\* trigger, a CHECK, a foreign key or a partial unique index refuses, so no request
\* ends in a database error the services do not translate.
DatabaseNeverRefuses == [][Guards /\ Tables']_vars

\* The migration expects that dropping an ADMITTED attempt "loses an authorization
\* rather than a movement of money", and that such an attempt "arrives here beside a
\* COMMITTED reservation and the second check refuses anyway": where the downgrade
\* goes ahead there is no attempt to drop, and nobody was ever charged.
ReversalDropsNoPayment == Reversible => \A a \in Attempts : attempt[a] = "NONE" /\ charges[a] = 0

\* Why: until some payment has an answer, only cancelling gives a hold back, and a
\* quote with a payment in it is not cancelled.
QuietUntilAnswered ==
    \/ \E a \in Attempts : attempt[a] \in Terminal
    \/ /\ \A c \in Checkouts, s \in Slots :
            hold[c][s] \in {"RELEASED", "CONSUMED"} => checkout[c] = "CANCELLED"
       /\ \A a \in Attempts : attempt[a] \in Open => checkout[CheckoutFor[a]] = "OPEN"
=============================================================================
