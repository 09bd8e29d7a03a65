---------------------------- MODULE PaymentKernel ----------------------------
(***************************************************************************)
(* The payment kernel of agentrank: execution preparation, payment         *)
(* admission, dispatch to a payment provider, the recording of outcomes,   *)
(* reconciliation, operator abandonment, cancellation and revocation, over *)
(* the rows of spending_mandate, checkout_session, inventory_reservation,  *)
(* variant and payment_attempt.                                            *)
(*                                                                         *)
(* One TLA+ step is the part of a transaction that nobody can observe      *)
(* half done: it ends where another transaction may act, at a commit or at *)
(* a lock that may have to be waited for.  The row locks are not state of  *)
(* their own: a session that holds one is recognisable from its program    *)
(* counter, and a step that needs a lock is not enabled while another      *)
(* session holds it.  Partial unique indexes, CHECKs and triggers back the *)
(* checks up in the database; no action reads them, so what holds here     *)
(* holds by the code's own checks and locks.  PaymentSchema states them.   *)
(***************************************************************************)
EXTENDS Integers, FiniteSets, FiniteSetsExt

CONSTANTS
    Mandates,       \* spending mandates
    Checkouts,      \* checkout sessions, the priced quotes
    Variants,       \* catalog variants, the shelf
    Attempts,       \* payment identities: a checkout and an idempotency key
    Workers,        \* database sessions of requests and reconciliation sweeps
    None,           \* absence of a checkout or an attempt
    MandateFor,     \* the mandate a checkout was quoted against
    CheckoutFor,    \* the checkout an identity is scoped by
    Quantity,       \* units of each variant on the lines of a checkout
    InitialStock,   \* variant.inventory_quantity when the model starts
    MandateFrom, MandateUntil,  \* validity window of a mandate
    CheckoutUntil,  \* expiry of a quote
    Permitted,      \* quotes whose money, quantity and intent checks pass
    MaxHolds,       \* bound: reservation rows a checkout can have
    MaxNow,         \* bound: the last instant of the clock
    AbandonIsQuiet  \* whether operators abandon only between admissions

ASSUME NoneAssumption == None \notin Checkouts \cup Attempts
ASSUME ShopAssumption ==
    /\ MandateFor \in [Checkouts -> Mandates]
    /\ CheckoutFor \in [Attempts -> Checkouts]
    /\ Quantity \in [Checkouts -> [Variants -> Nat]]
    /\ InitialStock \in [Variants -> Nat]
    /\ Permitted \subseteq Checkouts
ASSUME FiniteAssumption == IsFiniteSet(Checkouts)
ASSUME ClockAssumption ==
    /\ MandateFrom \in [Mandates -> Nat]
    /\ MandateUntil \in [Mandates -> Nat]
    /\ CheckoutUntil \in [Checkouts -> Nat]
    /\ MaxNow \in Nat
ASSUME BoundAssumption == MaxHolds \in Nat /\ AbandonIsQuiet \in BOOLEAN

VARIABLES
    mandate,    \* status of each mandate
    checkout,   \* status of each checkout
    hold,       \* status of each reservation row of each checkout
    stock,      \* variant.inventory_quantity
    attempt,    \* status of each payment attempt
    by,         \* who resolved it: outcome_source, and why when never executed
    bound,      \* the reservation row an attempt was admitted against, or 0
    conflicted, \* whether payment.outcome_conflict was appended
    call,       \* the one provider call of a dispatch, and its answer
    ledger,     \* what the provider has on record under the identity
    charges,    \* how often the provider moved money for the identity
    asked,      \* whether the provider was ever queried about it
    session,    \* what each database session is in the middle of
    now         \* the clock

rows == <<mandate, checkout, hold, stock, attempt, by, bound, conflicted>>
provider == <<call, ledger, charges, asked>>
vars == <<rows, provider, session, now>>

Slots == 1 .. MaxHolds
Holding == {"ACTIVE", "COMMITTED"}
Open == {"ADMITTED", "IN_FLIGHT", "UNKNOWN"}
Dispatched == {"IN_FLIGHT", "UNKNOWN"}
Terminal == {"SUCCEEDED", "FAILED"}
Answers == {"SUCCEEDED", "FAILED", "UNKNOWN"}

MandateOf(a) == MandateFor[CheckoutFor[a]]

Idle == [pc |-> "idle", checkout |-> None, attempt |-> None, at |-> 0,
         slot |-> 0, seen |-> "NONE", answer |-> "NONE"]
Sessions == [pc : {"idle", "preparing", "admitting", "deciding", "asking", "answered"},
             checkout : Checkouts \cup {None}, attempt : Attempts \cup {None},
             at : Nat, slot : Nat, seen : Holding \cup {"NONE"},
             answer : Answers \cup {"NEVER_EXECUTED", "NONE"}]

Become(w, s) == session' = [session EXCEPT ![w] = s]

-----------------------------------------------------------------------------
(***************************************************************************)
(* Row locks.  Preparation and admission lock the mandate, then the        *)
(* checkout; admission still holds the variant rows while it decides.      *)
(***************************************************************************)
\* Fault: the transaction is committed before it decides.
LockingUntilTheShelf(w) == session[w].pc \in {"preparing", "admitting"}

Locking(w) == session[w].pc \in {"preparing", "admitting", "deciding"}
MandateFree(m) == \A w \in Workers : Locking(w) => MandateFor[session[w].checkout] # m
CheckoutFree(c) == \A w \in Workers : Locking(w) => session[w].checkout # c

Shares(c, d) == \E v \in Variants : Quantity[c][v] > 0 /\ Quantity[d][v] > 0

\* Fault: the variant rows are read but not locked.
ShelfUnlocked(c) == c \in Checkouts

ShelfFree(c) == \A w \in Workers :
    session[w].pc = "deciding" => ~ Shares(c, session[w].checkout)

(***************************************************************************)
(* The financial gate and the intent gate.  Only the statuses and the      *)
(* clock can move after the quote is written; the rest is Permitted.       *)
(***************************************************************************)
MandateValid(m, at) == /\ mandate[m] = "ACTIVE"
                       /\ MandateFrom[m] <= at
                       /\ at < MandateUntil[m]

CheckoutAllowed(c, at) == /\ MandateValid(MandateFor[c], at)
                          /\ checkout[c] = "OPEN"
                          /\ at < CheckoutUntil[c]

Authorized(c, at) == CheckoutAllowed(c, at) /\ c \in Permitted

HoldUntil(c) == IF CheckoutUntil[c] <= MandateUntil[MandateFor[c]]
                THEN CheckoutUntil[c] ELSE MandateUntil[MandateFor[c]]

Effective(c, s, at) == \/ hold[c][s] = "COMMITTED"
                       \/ hold[c][s] = "ACTIVE" /\ at < HoldUntil(c)

HeldRows(c) == {s \in Slots : hold[c][s] \in Holding}
FreeRows(c) == {s \in Slots : hold[c][s] = "NONE"}

\* The reservation lines for a variant: the units each reservation row is for.
Units(v) == [row \in Checkouts \X Slots |-> Quantity[row[1]][v]]
EffectiveRows(at) == {row \in Checkouts \X Slots : Effective(row[1], row[2], at)}
Reserved(v, at) == SumFunctionOnSet(Units(v), EffectiveRows(at))

Available(c, at) == \A v \in Variants : Quantity[c][v] + Reserved(v, at) <= stock[v]

\* Take a hold unless the checkout has one or the shelf is short of units.
Reserve(c, at) == IF HeldRows(c) = {} /\ FreeRows(c) # {} /\ Available(c, at)
                  THEN [hold EXCEPT ![c][Min(FreeRows(c))] = "ACTIVE"]
                  ELSE hold

\* Bind a hold to a payment, by the status it was read with.
CommitToPayment(c, s, seen) ==
    IF seen = "ACTIVE" THEN [hold EXCEPT ![c][s] = "COMMITTED"] ELSE hold

\* Take the units off the shelf, and never more than there are.
ConsumeStock(c) ==
    [v \in Variants |-> IF Quantity[c][v] <= stock[v] THEN stock[v] - Quantity[c][v] ELSE 0]

-----------------------------------------------------------------------------
(***************************************************************************)
(* Preparation: make a checkout execution ready by holding its stock.      *)
(***************************************************************************)

\* Lock the mandate and the checkout and decide both gates.  A refusal writes
\* nothing, so a session that is refused here never started.
BeginPrepare(w, c) ==
    /\ session[w] = Idle
    /\ MandateFree(MandateFor[c])
    /\ Authorized(c, now)
    /\ Become(w, [Idle EXCEPT !.pc = "preparing", !.checkout = c, !.at = now])
    /\ UNCHANGED <<rows, provider, now>>

\* The variant locks came, perhaps late: the gate is decided again at this
\* instant, and what is already held is counted at the first one.
FinishPrepare(w) ==
    LET c == session[w].checkout
    IN /\ session[w].pc = "preparing"
       /\ ShelfFree(c)
       /\ hold' = IF Authorized(c, now) THEN Reserve(c, session[w].at) ELSE hold
       /\ Become(w, Idle)
       /\ UNCHANGED <<mandate, checkout, stock, attempt, by, bound, conflicted, provider, now>>

-----------------------------------------------------------------------------
(***************************************************************************)
(* Admission: decide whether a payment may happen and record the decision. *)
(***************************************************************************)

\* As above.  An identity that already has an attempt is answered with it and
\* writes nothing, whatever the gates say.
BeginAdmit(w, a) ==
    LET c == CheckoutFor[a] IN
    /\ session[w] = Idle
    /\ MandateFree(MandateFor[c])
    /\ attempt[a] = "NONE"
    /\ Authorized(c, now)
    /\ Become(w, [Idle EXCEPT !.pc = "admitting", !.checkout = c, !.attempt = a, !.at = now])
    /\ UNCHANGED <<rows, provider, now>>

\* The variant locks, the gate again, and the checkout's hold, which is read
\* without locking the reservation row.
ReadHold(w) ==
    LET c == session[w].checkout
        found == {s \in HeldRows(c) : /\ Effective(c, s, session[w].at)
                                      /\ Effective(c, s, now)}
    IN /\ session[w].pc = "admitting"
       /\ ShelfFree(c)
       /\ IF Authorized(c, now) /\ found # {}
          THEN \E s \in found :
                 Become(w, [session[w] EXCEPT !.pc = "deciding", !.slot = s,
                                              !.seen = hold[c][s]])
          ELSE Become(w, Idle)
       /\ UNCHANGED <<rows, provider, now>>

\* Fault: an unknown outcome is taken for no outcome.
ClaimedUnlessUnknown(m) == \E b \in Attempts :
    MandateOf(b) = m /\ attempt[b] \in {"ADMITTED", "IN_FLIGHT"}

\* Whether a payment may be consuming the mandate.
Claimed(m) == \E b \in Attempts : MandateOf(b) = m /\ attempt[b] \in Open

\* Fault: only this quote is looked at.
AlreadySettledHere(c) == \E b \in Attempts : CheckoutFor[b] = c /\ attempt[b] = "SUCCEEDED"

\* Whether a payment has consumed the mandate, through this quote or another.
AlreadySettled(c) == \E b \in Attempts : MandateOf(b) = MandateFor[c] /\ attempt[b] = "SUCCEEDED"

\* No attempt has consumed or is consuming the mandate: write the attempt and
\* bind the hold, as it was read.  A hold read as COMMITTED is left alone.
Decide(w) ==
    LET c == session[w].checkout
        a == session[w].attempt
        s == session[w].slot
        refused == AlreadySettled(c) \/ Claimed(MandateFor[c])
    IN /\ session[w].pc = "deciding"
       /\ attempt' = IF refused THEN attempt ELSE [attempt EXCEPT ![a] = "ADMITTED"]
       /\ bound' = IF refused THEN bound ELSE [bound EXCEPT ![a] = s]
       /\ hold' = IF refused THEN hold ELSE CommitToPayment(c, s, session[w].seen)
       /\ Become(w, Idle)
       /\ UNCHANGED <<mandate, checkout, stock, by, conflicted, provider, now>>

-----------------------------------------------------------------------------
(***************************************************************************)
(* Dispatch: commit the mark, call the provider holding nothing, record.   *)
(***************************************************************************)

\* Fault: an unknown outcome may be sent again.
DispatchableAgain(a) == attempt[a] \in {"ADMITTED", "UNKNOWN"}

\* Every other state has an answer already, or may have one arriving.
Dispatchable(a) == attempt[a] = "ADMITTED"

Dispatch(a) ==
    /\ Dispatchable(a)
    /\ attempt' = [attempt EXCEPT ![a] = "IN_FLIGHT"]
    /\ call' = [call EXCEPT ![a] = "SENT"]
    /\ UNCHANGED <<mandate, checkout, hold, stock, by, bound, conflicted,
                   ledger, charges, asked, session, now>>

\* What the provider can do with the call: charge, decline, charge and lose the
\* response, or neither record nor answer.
ProviderOutcomes == {[ledger |-> "SUCCEEDED", answer |-> "SUCCEEDED"],
                     [ledger |-> "FAILED", answer |-> "FAILED"],
                     [ledger |-> "SUCCEEDED", answer |-> "UNKNOWN"],
                     [ledger |-> "NONE", answer |-> "UNKNOWN"]}

\* The call arrives; its caller may have died meanwhile.  An identity already on
\* the ledger is answered from it.
ProviderExecute(a, o) ==
    /\ call[a] \in {"SENT", "ORPHANED"}
    /\ ledger[a] = "NONE" \/ o = [ledger |-> ledger[a], answer |-> ledger[a]]
    /\ ledger' = [ledger EXCEPT ![a] = o.ledger]
    /\ charges' = [charges EXCEPT ![a] =
                     IF ledger[a] = "NONE" /\ o.ledger = "SUCCEEDED" THEN @ + 1 ELSE @]
    /\ call' = [call EXCEPT ![a] = IF @ = "SENT" THEN o.answer ELSE "CLOSED"]
    /\ UNCHANGED <<rows, asked, session, now>>

\* The process that dispatched dies before it could record an answer.
CallerCrash(a) ==
    /\ call[a] \in {"SENT"} \cup Answers
    /\ call' = [call EXCEPT ![a] = IF @ = "SENT" THEN "ORPHANED" ELSE "CLOSED"]
    /\ UNCHANGED <<rows, ledger, charges, asked, session, now>>

-----------------------------------------------------------------------------
(***************************************************************************)
(* Outcomes: one transaction under the mandate, checkout, variant (for a   *)
(* success), reservation and attempt locks.                                *)
(***************************************************************************)

OutcomeLocksFree(a, outcome) ==
    /\ MandateFree(MandateOf(a))
    /\ CheckoutFree(CheckoutFor[a])
    /\ outcome = "SUCCEEDED" => ShelfFree(CheckoutFor[a])

\* mark_paid accepts an OPEN or PAID quote, consume a COMMITTED or CONSUMED hold,
\* release anything that is not CONSUMED; otherwise a ValueError undoes the lot.
Recordable(a, outcome) ==
    LET held == hold[CheckoutFor[a]][bound[a]] IN
    IF outcome = "SUCCEEDED"
    THEN checkout[CheckoutFor[a]] \in {"OPEN", "PAID"} /\ held \in {"COMMITTED", "CONSUMED"}
    ELSE held # "CONSUMED"

\* Fault: the hold is consumed and the shelf forgotten.
MarkSucceededUnsold(a, source) ==
    /\ attempt' = [attempt EXCEPT ![a] = "SUCCEEDED"]
    /\ by' = [by EXCEPT ![a] = source]
    /\ checkout' = [checkout EXCEPT ![CheckoutFor[a]] = "PAID"]
    /\ hold' = [hold EXCEPT ![CheckoutFor[a]][bound[a]] = "CONSUMED"]
    /\ UNCHANGED stock

\* Money moved: the attempt, the quote, the hold and the stock move with it.
MarkSucceeded(a, source) ==
    LET c == CheckoutFor[a]
    IN /\ attempt' = [attempt EXCEPT ![a] = "SUCCEEDED"]
       /\ by' = [by EXCEPT ![a] = source]
       /\ checkout' = [checkout EXCEPT ![c] = "PAID"]
       /\ hold' = [hold EXCEPT ![c][bound[a]] = "CONSUMED"]
       /\ stock' = IF hold[c][bound[a]] = "COMMITTED" THEN ConsumeStock(c) ELSE stock

\* Fault: the hold is given back only by the dispatch that was declined.
MarkFailedKeepsHold(a, source) ==
    /\ attempt' = [attempt EXCEPT ![a] = "FAILED"]
    /\ by' = [by EXCEPT ![a] = source]
    /\ hold' = IF source = "EXECUTION"
               THEN [hold EXCEPT ![CheckoutFor[a]][bound[a]] = "RELEASED"] ELSE hold
    /\ UNCHANGED <<checkout, stock>>

\* No money moved: the hold goes back and the quote stays open.
MarkFailed(a, source) ==
    /\ attempt' = [attempt EXCEPT ![a] = "FAILED"]
    /\ by' = [by EXCEPT ![a] = source]
    /\ hold' = [hold EXCEPT ![CheckoutFor[a]][bound[a]] = "RELEASED"]
    /\ UNCHANGED <<checkout, stock>>

\* A definitive answer.  Whatever committed first stands; a contradiction is
\* only put on record.
RecordDefinitive(a, outcome, source) ==
    /\ OutcomeLocksFree(a, outcome)
    /\ \/ /\ attempt[a] \in Dispatched
          /\ Recordable(a, outcome)
          /\ IF outcome = "SUCCEEDED" THEN MarkSucceeded(a, source) ELSE MarkFailed(a, source)
          /\ UNCHANGED conflicted
       \/ /\ attempt[a] \in Terminal \ {outcome}
          /\ conflicted' = [conflicted EXCEPT ![a] = TRUE]
          /\ UNCHANGED <<attempt, by, checkout, hold, stock>>
       \/ /\ \/ attempt[a] = outcome
             \/ attempt[a] \in Dispatched /\ ~ Recordable(a, outcome)
          /\ UNCHANGED <<attempt, by, checkout, hold, stock, conflicted>>
    /\ UNCHANGED <<mandate, bound>>

\* Fault: the status is not read again after the provider call.
RecordUnknownBlindly(a) ==
    /\ attempt' = [attempt EXCEPT ![a] = "UNKNOWN"]
    /\ UNCHANGED <<mandate, checkout, hold, stock, by, bound, conflicted>>

\* An indefinite answer: only the attempt row, and only from IN_FLIGHT.
RecordUnknown(a) ==
    /\ attempt' = [attempt EXCEPT ![a] = IF @ = "IN_FLIGHT" THEN "UNKNOWN" ELSE @]
    /\ UNCHANGED <<mandate, checkout, hold, stock, by, bound, conflicted>>

RecordOutcome(a, answer, source) ==
    IF answer = "UNKNOWN" THEN RecordUnknown(a) ELSE RecordDefinitive(a, answer, source)

\* The caller of dispatch records what it was told.
RecordExecution(a) ==
    /\ call[a] \in Answers
    /\ RecordOutcome(a, call[a], "EXECUTION")
    /\ call' = [call EXCEPT ![a] = "CLOSED"]
    /\ UNCHANGED <<ledger, charges, asked, session, now>>

-----------------------------------------------------------------------------
(***************************************************************************)
(* Reconciliation: read the attempt unlocked, ask holding nothing, record. *)
(***************************************************************************)

Reconcilable(a) == attempt[a] \in Dispatched

Ask(w, a) ==
    /\ session[w] = Idle
    /\ Reconcilable(a)
    /\ Become(w, [Idle EXCEPT !.pc = "asking", !.attempt = a])
    /\ UNCHANGED <<rows, provider, now>>

\* The provider answers from its ledger.  With nothing on record it says so, or
\* guarantees that the dispatch can no longer execute, which ends a call still
\* on its way.
Query(w, answer) ==
    LET a == session[w].attempt IN
    /\ session[w].pc = "asking"
    /\ answer \in IF ledger[a] # "NONE" THEN {ledger[a]} ELSE {"UNKNOWN", "NEVER_EXECUTED"}
    /\ asked' = [asked EXCEPT ![a] = TRUE]
    /\ call' = [call EXCEPT ![a] = IF answer = "NEVER_EXECUTED" /\ @ \in {"SENT", "ORPHANED"}
                                   THEN "CLOSED" ELSE @]
    /\ Become(w, [session[w] EXCEPT !.pc = "answered", !.answer = answer])
    /\ UNCHANGED <<rows, ledger, charges, now>>

\* Fault: a provider that has nothing on record yet has declined.
FromQueryAbsentIsFailure(answer) ==
    [outcome |-> IF answer = "SUCCEEDED" THEN answer ELSE "FAILED", source |-> "RECONCILIATION"]

\* An empty record is no failure; a guarantee that nothing ran is one.
FromQuery(answer) ==
    IF answer = "NEVER_EXECUTED"
    THEN [outcome |-> "FAILED", source |-> "NEVER_EXECUTED"]
    ELSE [outcome |-> answer, source |-> "RECONCILIATION"]

RecordReconciliation(w) ==
    LET result == FromQuery(session[w].answer)
    IN /\ session[w].pc = "answered"
       /\ RecordOutcome(session[w].attempt, result.outcome, result.source)
       /\ Become(w, Idle)
       /\ UNCHANGED <<provider, now>>

-----------------------------------------------------------------------------
(***************************************************************************)
(* Operators, buyers, crashes and the clock.                               *)
(***************************************************************************)

\* Abandonment locks the reservation and the attempt and nothing above them.
Abandon(a) ==
    LET c == CheckoutFor[a] IN
    /\ attempt[a] = "UNKNOWN"
    /\ hold[c][bound[a]] # "CONSUMED"
    /\ AbandonIsQuiet =>
         \A w \in Workers : session[w].pc = "deciding" => session[w].checkout # c
    /\ MarkFailed(a, "OPERATOR")
    /\ UNCHANGED <<mandate, bound, conflicted, provider, session, now>>

\* A paid quote, or one whose payment is unresolved, cannot be withdrawn.
Cancellable(c) ==
    /\ checkout[c] # "PAID"
    /\ \A a \in Attempts : CheckoutFor[a] = c => attempt[a] \notin Open

\* Cancelling again gives back a hold that outlived its quote.
Cancel(c) ==
    /\ CheckoutFree(c)
    /\ Cancellable(c)
    /\ checkout' = [checkout EXCEPT ![c] = "CANCELLED"]
    /\ hold' = [hold EXCEPT ![c] =
                  [s \in Slots |-> IF s \in HeldRows(c) THEN "RELEASED" ELSE @[s]]]
    /\ UNCHANGED <<mandate, stock, attempt, by, bound, conflicted, provider, session, now>>

Revoke(m) ==
    /\ MandateFree(m)
    /\ mandate' = [mandate EXCEPT ![m] = "REVOKED"]
    /\ UNCHANGED <<checkout, hold, stock, attempt, by, bound, conflicted, provider, session, now>>

\* A request or a sweep dies; its transaction is rolled back.
WorkerCrash(w) ==
    /\ session[w] # Idle
    /\ Become(w, Idle)
    /\ UNCHANGED <<rows, provider, now>>

Tick == /\ now < MaxNow
        /\ now' = now + 1
        /\ UNCHANGED <<rows, provider, session>>

Init == /\ mandate = [m \in Mandates |-> "ACTIVE"]
        /\ checkout = [c \in Checkouts |-> "OPEN"]
        /\ hold = [c \in Checkouts |-> [s \in Slots |-> "NONE"]]
        /\ stock = InitialStock
        /\ attempt = [a \in Attempts |-> "NONE"]
        /\ by = [a \in Attempts |-> "NONE"]
        /\ bound = [a \in Attempts |-> 0]
        /\ conflicted = [a \in Attempts |-> FALSE]
        /\ call = [a \in Attempts |-> "NONE"]
        /\ ledger = [a \in Attempts |-> "NONE"]
        /\ charges = [a \in Attempts |-> 0]
        /\ asked = [a \in Attempts |-> FALSE]
        /\ session = [w \in Workers |-> Idle]
        /\ now = 0

WorkerStep(w) ==
    \/ \E c \in Checkouts : BeginPrepare(w, c)
    \/ FinishPrepare(w)
    \/ \E a \in Attempts : BeginAdmit(w, a) \/ Ask(w, a)
    \/ ReadHold(w)
    \/ Decide(w)
    \/ \E answer \in Answers \cup {"NEVER_EXECUTED"} : Query(w, answer)
    \/ RecordReconciliation(w)

PaymentStep(a) ==
    \/ Dispatch(a)
    \/ \E o \in ProviderOutcomes : ProviderExecute(a, o)
    \/ CallerCrash(a)
    \/ RecordExecution(a)
    \/ Abandon(a)

NextWithoutCrash ==
        \/ \E w \in Workers : WorkerStep(w)
        \/ \E a \in Attempts : PaymentStep(a)
        \/ \E c \in Checkouts : Cancel(c)
        \/ \E m \in Mandates : Revoke(m)
        \/ Tick

Next == NextWithoutCrash \/ \E w \in Workers : WorkerCrash(w)

Spec == Init /\ [][Next]_vars

-----------------------------------------------------------------------------
(***************************************************************************)
(* Properties.                                                             *)
(***************************************************************************)

\* Every row holds a status its column allows, an attempt names the reservation it
\* was admitted against, and a resolved one says how its outcome was learned.
RowsTyped ==
    /\ mandate \in [Mandates -> {"ACTIVE", "REVOKED"}]
    /\ checkout \in [Checkouts -> {"OPEN", "CANCELLED", "PAID"}]
    /\ hold \in [Checkouts -> [Slots -> Holding \cup {"NONE", "RELEASED", "CONSUMED"}]]
    /\ stock \in [Variants -> Nat]
    /\ attempt \in [Attempts -> Open \cup Terminal \cup {"NONE"}]
    /\ by \in [Attempts -> {"NONE", "EXECUTION", "RECONCILIATION", "NEVER_EXECUTED", "OPERATOR"}]
    /\ bound \in [Attempts -> Slots \cup {0}]
    /\ conflicted \in [Attempts -> BOOLEAN]
    /\ \A a \in Attempts : /\ attempt[a] = "NONE" <=> bound[a] = 0
                           /\ attempt[a] \in Terminal <=> by[a] # "NONE"

ProviderTyped ==
    /\ call \in [Attempts -> {"NONE", "SENT", "ORPHANED", "CLOSED"} \cup Answers]
    /\ ledger \in [Attempts -> {"NONE"} \cup Terminal]
    /\ charges \in [Attempts -> Nat]
    /\ asked \in [Attempts -> BOOLEAN]

\* The type invariant: the rows, the provider's side, the sessions and the clock.
TypeOK == /\ RowsTyped
          /\ ProviderTyped
          /\ session \in [Workers -> Sessions]
          /\ now \in 0 .. MaxNow

\* The single purchase rule of payments/admission.py: a mandate never has two
\* payments that are unresolved or succeeded, whatever requests, sweeps,
\* abandonments and crashes are interleaved.
SingleUse ==
    \A a, b \in Attempts :
        /\ MandateOf(a) = MandateOf(b)
        /\ attempt[a] \in Open \cup {"SUCCEEDED"}
        /\ attempt[b] \in Open \cup {"SUCCEEDED"}
        => a = b

ConsumedRows == {row \in Checkouts \X Slots : hold[row[1]][row[2]] = "CONSUMED"}
PaidIsBought == \A c \in Checkouts :
    checkout[c] = "PAID" <=> \E a \in Attempts : CheckoutFor[a] = c /\ attempt[a] = "SUCCEEDED"
ConsumedIsBought == \A c \in Checkouts, s \in Slots :
    hold[c][s] = "CONSUMED" <=> \E a \in Attempts : /\ CheckoutFor[a] = c
                                                   /\ bound[a] = s
                                                   /\ attempt[a] = "SUCCEEDED"
ShelfIsWhole == \A v \in Variants :
    stock[v] + SumFunctionOnSet(Units(v), ConsumedRows) = InitialStock[v]

\* The "five things happen or none of them do" of _record_success, seen from the
\* outside: a quote is PAID exactly when one of its payments SUCCEEDED, a hold is
\* CONSUMED exactly when the payment bound to it SUCCEEDED, and the units missing
\* from the shelf are the units of the consumed holds.
SaleIsWhole == PaidIsBought /\ ConsumedIsBought /\ ShelfIsWhole

\* An unresolved payment can still be recorded as a success: its quote is open
\* and the stock it was admitted against is still committed to it.  What
\* commit_to_payment and _require_cancellable are for.
OpenPaymentIsPayable ==
    \A a \in Attempts : attempt[a] \in Open =>
        /\ checkout[CheckoutFor[a]] = "OPEN"
        /\ hold[CheckoutFor[a]][bound[a]] = "COMMITTED"

\* Stock is committed only to a payment that is still unresolved, and a checkout
\* never has two holds: no outcome, refusal or crash leaves units off the shelf
\* that nothing will ever sell or give back.
CommittedHoldIsSpokenFor ==
    \A c \in Checkouts :
        /\ \A s \in Slots : hold[c][s] = "COMMITTED" =>
             \E a \in Attempts : CheckoutFor[a] = c /\ bound[a] = s /\ attempt[a] \in Open
        /\ \A s, t \in HeldRows(c) : s = t

\* Holds and payments agree, from either side.
HoldsFollowPayments == OpenPaymentIsPayable /\ CommittedHoldIsSpokenFor

\* What is held at this instant is on the shelf: the promise of reserve and of the
\* two instants at which admission requires the hold to be effective.
NoOversell == \A v \in Variants : Reserved(v, now) <= stock[v]

\* No outcome is invented.  A success is on the provider's ledger, a decline too,
\* and a payment closed as never executed has not been and will not be charged.
OutcomeHasEvidence ==
    \A a \in Attempts :
        /\ attempt[a] = "SUCCEEDED" => ledger[a] = "SUCCEEDED"
        /\ attempt[a] = "FAILED" /\ by[a] \in {"EXECUTION", "RECONCILIATION"} => ledger[a] = "FAILED"
        /\ by[a] = "NEVER_EXECUTED" => ledger[a] = "NONE" /\ call[a] \notin {"SENT", "ORPHANED"}

\* Money moves twice under one mandate only after an operator gave a payment up
\* while its outcome was unknown, the residual risk payments/recovery.py names.
ChargedTwiceOnlyAfterGivingUp ==
    /\ \A a \in Attempts : charges[a] <= 1
    /\ \A a, b \in Attempts :
         /\ a # b
         /\ MandateOf(a) = MandateOf(b)
         /\ charges[a] > 0
         /\ charges[b] > 0
         => "OPERATOR" \in {by[a], by[b]}

\* Of the two disagreements _record_conflict provides for only one can happen: a
\* payment an operator gave up that turns out to have been charged.
ConflictIsARevival ==
    \A a \in Attempts : conflicted[a] =>
        /\ attempt[a] = "FAILED"
        /\ by[a] = "OPERATOR"
        /\ charges[a] > 0

\* The order the docstring of payments/recovery.py states: "Only UNKNOWN is
\* eligible, so the provider has been asked at least once before anybody gives up
\* on it".
AbandonedWasAsked == \A a \in Attempts : by[a] = "OPERATOR" => asked[a]

ResolvedStays == \A a \in Attempts : attempt[a] \in Terminal =>
    attempt'[a] = attempt[a] /\ by'[a] = by[a] /\ bound'[a] = bound[a]
HoldsStay == \A c \in Checkouts, s \in Slots :
    /\ hold[c][s] \in {"RELEASED", "CONSUMED"} => hold'[c][s] = hold[c][s]
    /\ hold[c][s] = "COMMITTED" => hold'[c][s] # "ACTIVE"
SentOnce == \A a \in Attempts : call[a] \notin {"NONE", "SENT"} => call'[a] # "SENT"
PaidStays == \A c \in Checkouts : checkout[c] = "PAID" => checkout'[c] = "PAID"
AuthorityStands == \A a \in Attempts : attempt[a] = "NONE" /\ attempt'[a] = "ADMITTED" =>
    mandate[MandateOf(a)] = "ACTIVE" /\ checkout[CheckoutFor[a]] = "OPEN"

\* What is over stays over: a resolved payment, a released or consumed hold and a
\* paid quote never change again, a committed hold never becomes a plain one, and a
\* provider that was asked to execute an identity is never asked again, however late
\* an answer arrives and whoever resumes, reconciles or crashes.
OverIsForever == [][ResolvedStays /\ HoldsStay /\ SentOnce /\ PaidStays]_vars

\* A payment is admitted only while its mandate is active and its quote open at
\* the moment the admission commits, not merely when it was first looked at.
AdmittedUnderAuthority == [][AuthorityStands]_vars

\* The kernel keeps the promise of OnePurchase: every step is a claim, an end or a
\* purchase of the abstract specification, or changes nothing a buyer or a
\* merchant can see of it.
Purchase == INSTANCE OnePurchase WITH
    claims <- [m \in Mandates |-> {a \in Attempts : MandateOf(a) = m /\ attempt[a] \in Open}],
    ended <- {a \in Attempts : attempt[a] \in Terminal},
    paid <- {c \in Checkouts : checkout[c] = "PAID"}
ImplementsOnePurchase == Purchase!Spec

-----------------------------------------------------------------------------
(***************************************************************************)
(* The inductive invariant.  PaymentInv is what SingleUse,                 *)
(* OutcomeHasEvidence, ChargedTwiceOnlyAfterGivingUp and ConflictIsARevival*)
(* need, and is inductive by itself.                                       *)
(***************************************************************************)

\* What a session in the middle of an operation knows for certain.
SessionKnows ==
    \A w \in Workers :
        LET s == session[w] IN
        /\ Locking(w) => s.checkout \in Checkouts
        /\ s.pc \in {"admitting", "deciding"} =>
             /\ s.attempt \in Attempts
             /\ CheckoutFor[s.attempt] = s.checkout
             /\ attempt[s.attempt] = "NONE"
        /\ s.pc = "deciding" => s.slot \in Slots
        /\ s.pc \in {"asking", "answered"} =>
             /\ s.attempt \in Attempts
             /\ attempt[s.attempt] \in Dispatched \cup Terminal
        /\ s.pc = "answered" =>
             /\ s.answer # "NONE"
             /\ s.answer \in Terminal => ledger[s.attempt] = s.answer
             /\ s.answer = "NEVER_EXECUTED" =>
                  ledger[s.attempt] = "NONE" /\ call[s.attempt] \notin {"SENT", "ORPHANED"}

\* One session at a time decides under a mandate.
MandateLocked ==
    \A w, u \in Workers :
        /\ Locking(w)
        /\ Locking(u)
        /\ MandateFor[session[w].checkout] = MandateFor[session[u].checkout]
        => w = u

\* The wire, the ledger and the attempt agree.
CallKnows ==
    \A a \in Attempts :
        /\ attempt[a] \in {"NONE", "ADMITTED"} <=> call[a] = "NONE"
        /\ call[a] = "NONE" => ledger[a] = "NONE"
        /\ call[a] \in Terminal => ledger[a] = call[a]
        /\ charges[a] = IF ledger[a] = "SUCCEEDED" THEN 1 ELSE 0

PaymentInv == /\ TypeOK
              /\ SessionKnows
              /\ MandateLocked
              /\ CallKnows
              /\ SingleUse
              /\ OutcomeHasEvidence
              /\ ConflictIsARevival

-----------------------------------------------------------------------------
(***************************************************************************)
(* What has to be added for SaleIsWhole, HoldsFollowPayments, NoOversell,  *)
(* the action properties and the refinement.                               *)
(***************************************************************************)

\* What a session decides upon has not moved since it was read: the mandate and
\* the quote are locked, and nothing but an abandonment reaches the hold.
DecidersKnow ==
    \A w \in Workers :
        LET s == session[w]
            held == hold[s.checkout][s.slot] IN
        /\ s.at <= now
        /\ s.pc = "deciding" =>
             /\ mandate[MandateFor[s.checkout]] = "ACTIVE"
             /\ checkout[s.checkout] = "OPEN"
             /\ s.seen \in Holding
             /\ s.seen = "ACTIVE" => held = "ACTIVE"
             /\ s.seen = "COMMITTED" => held \notin {"NONE", "ACTIVE"}
             /\ s.seen = "COMMITTED" /\ AbandonIsQuiet => held = "COMMITTED"

\* A hold a payment was admitted against is no longer a plain one.
BoundHolds ==
    \A a \in Attempts : bound[a] # 0 => hold[CheckoutFor[a]][bound[a]] \notin {"NONE", "ACTIVE"}

\* The shelf covers what is effective now and the holds of those who are deciding,
\* which may have lapsed since they were read and come back as committed.
Deciding == {w \in Workers : session[w].pc = "deciding" /\ session[w].seen = "ACTIVE"}
DecidingRows == {<<session[w].checkout, session[w].slot>> : w \in Deciding}
PledgedRows == EffectiveRows(now) \cup DecidingRows
StockCoversPledges == \A v \in Variants : SumFunctionOnSet(Units(v), PledgedRows) <= stock[v]

SaleInv == /\ DecidersKnow
           /\ BoundHolds
           /\ StockCoversPledges
           /\ SaleIsWhole
           /\ AbandonIsQuiet => HoldsFollowPayments

IInv == PaymentInv /\ SaleInv
=============================================================================
