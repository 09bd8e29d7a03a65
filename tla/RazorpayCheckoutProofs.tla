----------------------- MODULE RazorpayCheckoutProofs -----------------------
(***************************************************************************)
(* Proofs about the interactive bridge beside the payment kernel, for any  *)
(* number of quotes, identities, sessions, requests and hosted payments.   *)
(***************************************************************************)
EXTENDS RazorpayCheckout, SumFacts

\* Who resolves a payment in the kernel, and beside it.
KernelSources == {"EXECUTION", "RECONCILIATION", "NEVER_EXECUTED", "OPERATOR"}
Sources == KernelSources \cup {"INTERACTIVE"}

-----------------------------------------------------------------------------
(***************************************************************************)
(* What a step can write to quotes, holds and attempts.                    *)
(***************************************************************************)

\* A mark on a payment on its way, or nothing at all.
Marking ==
    /\ UNCHANGED <<checkout, hold, bound, by>>
    /\ attempt' \in [Attempts -> Open \cup Terminal \cup {"NONE"}]
    /\ \A a \in Attempts : \/ attempt'[a] = attempt[a]
                           \/ attempt[a] \in Open /\ attempt'[a] \in Dispatched

Reserving ==
    /\ UNCHANGED <<checkout, bound, by, attempt>>
    /\ \E c \in Checkouts, s \in Slots : /\ hold[c][s] = "NONE"
                                         /\ hold' = [hold EXCEPT ![c][s] = "ACTIVE"]

Admitting(w) == Decide(w) /\ ~ AlreadySettled(session[w].checkout)
                          /\ ~ Claimed(MandateFor[session[w].checkout])

Resolving(a, source) ==
    /\ attempt[a] \in Dispatched
    /\ \/ Recordable(a, "SUCCEEDED") /\ MarkSucceeded(a, source)
       \/ Recordable(a, "FAILED") /\ MarkFailed(a, source)
    /\ UNCHANGED bound

Writing(sources) ==
    \/ Marking
    \/ Reserving
    \/ \E w \in Workers : Admitting(w)
    \/ \E a \in Attempts, source \in sources : Resolving(a, source)
    \/ \E c \in Checkouts : Cancel(c)

LEMMA RecordingWrites ==
  ASSUME KernelInv, NEW a \in Attempts, NEW outcome \in Terminal, NEW source, RecordDefinitive(a, outcome, source)
  PROVE  Marking \/ Resolving(a, source)
<1>1. CASE UNCHANGED <<attempt, by, checkout, hold, bound>>
  BY <1>1 DEF Marking, KernelInv, RowsKnown
<1>2. CASE attempt[a] \in Dispatched /\ Recordable(a, "SUCCEEDED")
           /\ MarkSucceeded(a, source) /\ UNCHANGED bound
  BY <1>2 DEF Resolving
<1>3. CASE attempt[a] \in Dispatched /\ Recordable(a, "FAILED")
           /\ MarkFailed(a, source) /\ UNCHANGED bound
  BY <1>3 DEF Resolving
<1> QED
  BY <1>1, <1>2, <1>3 DEF RecordDefinitive, Terminal

LEMMA UnknownWrites ==
  ASSUME KernelInv, NEW a \in Attempts, RecordUnknown(a)
  PROVE  Marking
  BY DEF RecordUnknown, Marking, Open, Dispatched, KernelInv, RowsKnown

LEMMA WorkerWrites ==
  ASSUME KernelInv, NEW w \in Workers, WorkerStep(w)
  PROVE  Writing(KernelSources)
<1>0. UNCHANGED rows => Marking
  BY DEF rows, Marking, KernelInv, RowsKnown
<1>1. ASSUME FinishPrepare(w) PROVE Marking \/ Reserving
  <2> DEFINE c == session[w].checkout
             t == Min(FreeRows(c))
  <2>1. UNCHANGED <<checkout, bound, by, attempt>> /\ c \in Checkouts
    BY <1>1 DEF FinishPrepare, KernelInv, SessionsStand, SessionStands, Locking
  <2>2. CASE UNCHANGED hold
    BY <2>1, <2>2 DEF Marking, KernelInv, RowsKnown
  <2>3. CASE FreeRows(c) # {} /\ hold' = [hold EXCEPT ![c][t] = "ACTIVE"]
    <3>1. FreeRows(c) \in SUBSET Nat
      BY DEF FreeRows, Slots
    <3>2. t \in FreeRows(c)
      BY <2>3, <3>1, SmallestNumber DEF Min
    <3> QED
      BY <2>1, <2>3, <3>2 DEF Reserving, FreeRows
  <2> QED
    BY <1>1, <2>2, <2>3 DEF FinishPrepare, Reserve
<1>2. ASSUME Decide(w) PROVE Marking \/ Admitting(w)
  BY <1>2 DEF Decide, Admitting, Marking, KernelInv, RowsKnown
<1>3. ASSUME RecordReconciliation(w)
      PROVE  Marking \/ \E a \in Attempts, source \in KernelSources : Resolving(a, source)
  <2> DEFINE a == session[w].attempt
             result == FromQuery(session[w].answer)
  <2>1. /\ a \in Attempts /\ session[w] \in Sessions
        /\ RecordOutcome(a, result.outcome, result.source)
    BY <1>3 DEF RecordReconciliation, KernelInv, SessionsStand, SessionStands, RowsKnown
  <2>2. result.source \in KernelSources
    BY DEF FromQuery, KernelSources
  <2>3. CASE result.outcome = "UNKNOWN"
    BY <2>1, <2>3, UnknownWrites DEF RecordOutcome
  <2>4. CASE result.outcome \in Terminal
    <3>1. RecordDefinitive(a, result.outcome, result.source)
      BY <2>1, <2>4 DEF RecordOutcome, Terminal
    <3> HIDE DEF a, result
    <3> QED
      BY <2>1, <2>2, <2>4, <3>1, RecordingWrites
  <2>5. result.outcome \in Terminal \cup {"UNKNOWN"}
    BY <1>3, <2>1 DEF RecordReconciliation, KernelInv, SessionsStand, SessionStands, FromQuery,
                      Sessions, Answers, Terminal
  <2> QED
    BY <2>3, <2>4, <2>5
<1> QED
  BY <1>0, <1>1, <1>2, <1>3 DEF WorkerStep, BeginPrepare, BeginAdmit, Ask, ReadHold, Query, Writing

LEMMA PaymentWrites ==
  ASSUME KernelInv, NEW a \in Attempts, PaymentStep(a)
  PROVE  Writing(KernelSources)
<1>0. UNCHANGED rows => Marking
  BY DEF rows, Marking, KernelInv, RowsKnown
<1>1. ASSUME Dispatch(a) PROVE Marking
  BY <1>1 DEF Dispatch, Dispatchable, Marking, Open, Dispatched, KernelInv, RowsKnown
<1>2. ASSUME Abandon(a) PROVE Resolving(a, "OPERATOR")
  BY <1>2 DEF Abandon, Resolving, Recordable, Dispatched
<1>3. ASSUME RecordExecution(a) PROVE Marking \/ Resolving(a, "EXECUTION")
  <2>1. call[a] \in Answers /\ RecordOutcome(a, call[a], "EXECUTION")
    BY <1>3 DEF RecordExecution
  <2>2. CASE call[a] = "UNKNOWN"
    BY <2>1, <2>2, UnknownWrites DEF RecordOutcome
  <2>3. CASE call[a] \in Terminal
    <3>1. RecordDefinitive(a, call[a], "EXECUTION")
      BY <2>1, <2>3 DEF RecordOutcome, Terminal
    <3> QED
      BY <2>3, <3>1, RecordingWrites
  <2> QED
    BY <2>1, <2>2, <2>3 DEF Answers, Terminal
<1> QED
  BY <1>0, <1>1, <1>2, <1>3 DEF PaymentStep, ProviderExecute, CallerCrash, Writing, KernelSources

LEMMA KernelWrites ==
  ASSUME KernelInv, [Next]_vars
  PROVE  Writing(KernelSources)
<1>0. UNCHANGED rows => Marking
  BY DEF rows, Marking, KernelInv, RowsKnown
<1>1. ASSUME NEW m \in Mandates, Revoke(m) PROVE Marking
  BY <1>1 DEF Revoke, Marking, KernelInv, RowsKnown
<1> QED
  BY <1>0, <1>1, WorkerWrites, PaymentWrites DEF Next, NextWithoutCrash, Tick, WorkerCrash, vars, Writing
-----------------------------------------------------------------------------
(***************************************************************************)
(* What each of those writes keeps.  Locks matter to an admission and to   *)
(* a cancellation; a resolution meets no hold another session relies upon. *)
(***************************************************************************)

RowsTypedNext ==
    /\ checkout' \in [Checkouts -> {"OPEN", "CANCELLED", "PAID"}]
    /\ hold' \in [Checkouts -> [Slots -> Holding \cup {"NONE", "RELEASED", "CONSUMED"}]]
    /\ attempt' \in [Attempts -> Open \cup Terminal \cup {"NONE"}]
    /\ by' \in [Attempts -> {"NONE"} \cup Sources]
    /\ bound' \in [Attempts -> Slots \cup {0}]
    /\ \A a \in Attempts : attempt'[a] = "NONE" <=> bound'[a] = 0

\* What a session that stays in the middle of its operation relies upon.
Undisturbed(u) ==
    LET s == session[u] IN
    /\ s.pc \in {"admitting", "deciding"} => attempt'[s.attempt] = "NONE"
    /\ s.pc = "deciding" =>
         \/ hold'[s.checkout][s.slot] = hold[s.checkout][s.slot]
         \/ s.seen # "ACTIVE" /\ hold'[s.checkout][s.slot] \notin {"NONE", "ACTIVE"}

\* Nothing goes back to where its provider was not called yet.
Undispatched == \A a \in Attempts :
    attempt'[a] \in {"NONE", "ADMITTED"} => attempt[a] \in {"NONE", "ADMITTED"}

Kept ==
    /\ RowsTypedNext
    /\ Undispatched
    /\ SingleUse'
    /\ BoundHolds'
    /\ ResolvedStays /\ HoldsStay /\ PaidStays

LEMMA MarkingKeeps ==
  ASSUME KernelInv, Marking
  PROVE  /\ Kept
         /\ \A u \in Workers : Undisturbed(u)
<1>1. RowsTypedNext
  BY DEF Marking, RowsTypedNext, KernelInv, RowsKnown, Sources, KernelSources, Open, Dispatched
<1>2. SingleUse'
  BY DEF Marking, KernelInv, SingleUse, Open, Dispatched
<1>3. BoundHolds' /\ ResolvedStays /\ HoldsStay /\ PaidStays
  BY DEF Marking, KernelInv, BoundHolds, ResolvedStays, HoldsStay, PaidStays, Open, Terminal
<1>4. \A u \in Workers : Undisturbed(u)
  BY DEF Marking, KernelInv, SessionsStand, SessionStands, Undisturbed, Open
<1>5. Undispatched
  BY DEF Marking, Undispatched, Dispatched
<1> QED
  BY <1>1, <1>2, <1>3, <1>4, <1>5 DEF Kept

LEMMA ReservingKeeps ==
  ASSUME KernelInv, Reserving
  PROVE  /\ Kept
         /\ \A u \in Workers : Undisturbed(u)
<1>0. PICK c \in Checkouts, s \in Slots : hold[c][s] = "NONE" /\ hold' = [hold EXCEPT ![c][s] = "ACTIVE"]
  BY DEF Reserving
<1>1. RowsTypedNext
  BY <1>0 DEF Reserving, RowsTypedNext, KernelInv, RowsKnown, Sources, KernelSources, Holding
<1>2. \A d \in Checkouts, t \in Slots :
         hold'[d][t] = IF d = c /\ t = s THEN "ACTIVE" ELSE hold[d][t]
  BY <1>0 DEF KernelInv, RowsKnown
<1>3. SingleUse' /\ ResolvedStays /\ PaidStays /\ Undispatched
  BY DEF Reserving, KernelInv, SingleUse, ResolvedStays, PaidStays, Undispatched
<1>4. HoldsStay
  BY <1>0, <1>2 DEF HoldsStay
<1>5. BoundHolds'
  <2>1. \A a \in Attempts : CheckoutFor[a] \in Checkouts /\ bound[a] \in Slots \cup {0}
    BY ShopAssumption DEF KernelInv, RowsKnown
  <2>2. 0 \notin Slots
    BY DEF Slots
  <2> QED
    BY <1>0, <1>2, <2>1, <2>2 DEF Reserving, KernelInv, BoundHolds
<1>6. \A u \in Workers : Undisturbed(u)
  BY <1>0, <1>2 DEF Reserving, KernelInv, SessionsStand, SessionStands, Undisturbed, Locking, Holding
<1> QED
  BY <1>1, <1>3, <1>4, <1>5, <1>6 DEF Kept

LEMMA AdmittingKeeps ==
  ASSUME KernelInv, NEW w \in Workers, Admitting(w)
  PROVE  /\ Kept
         /\ \A u \in Workers \ {w} : Undisturbed(u)
         /\ attempt'[session[w].attempt] = "ADMITTED"
         /\ session' = [session EXCEPT ![w] = Idle]
<1> DEFINE c == session[w].checkout
           a == session[w].attempt
           s == session[w].slot
<1>0. /\ session[w].pc = "deciding"
      /\ a \in Attempts /\ c \in Checkouts /\ s \in Slots
      /\ CheckoutFor[a] = c
      /\ attempt[a] = "NONE" /\ bound[a] = 0
      /\ session[w].seen \in Holding
      /\ session[w].seen = "ACTIVE" => hold[c][s] = "ACTIVE"
      /\ session[w].seen = "COMMITTED" => hold[c][s] \notin {"NONE", "ACTIVE"}
      /\ 0 \notin Slots
  BY DEF KernelInv, RowsKnown, SessionsStand, SessionStands, Admitting, Decide, Locking, Slots
<1>1. /\ attempt' = [attempt EXCEPT ![a] = "ADMITTED"]
      /\ bound' = [bound EXCEPT ![a] = s]
      /\ hold' = CommitToPayment(c, s, session[w].seen)
      /\ UNCHANGED <<checkout, by>>
      /\ session' = [session EXCEPT ![w] = Idle]
  BY DEF Admitting, Decide, Become
<1>2. /\ \A b \in Attempts : attempt'[b] = IF b = a THEN "ADMITTED" ELSE attempt[b]
      /\ \A b \in Attempts : bound'[b] = IF b = a THEN s ELSE bound[b]
  BY <1>0, <1>1 DEF KernelInv, RowsKnown
<1>3. \A d \in Checkouts, t \in Slots :
         hold'[d][t] = IF d = c /\ t = s /\ hold[c][s] = "ACTIVE" THEN "COMMITTED" ELSE hold[d][t]
  BY <1>0, <1>1 DEF CommitToPayment, Holding, KernelInv, RowsKnown
<1>4. RowsTypedNext
  <2>1. hold' \in [Checkouts -> [Slots -> Holding \cup {"NONE", "RELEASED", "CONSUMED"}]]
    BY <1>0, <1>1 DEF CommitToPayment, Holding, KernelInv, RowsKnown
  <2> QED
    BY <1>0, <1>1, <2>1 DEF RowsTypedNext, KernelInv, RowsKnown, Sources, KernelSources, Open
<1>5. SingleUse'
  <2>1. \A b \in Attempts : MandateOf(b) = MandateOf(a) => attempt[b] \notin Open \cup {"SUCCEEDED"}
    BY <1>0 DEF Admitting, AlreadySettled, Claimed, MandateOf
  <2> QED
    BY <1>0, <1>2, <2>1 DEF KernelInv, SingleUse, MandateOf
<1>6. BoundHolds'
  <2>1. \A b \in Attempts : CheckoutFor[b] \in Checkouts /\ bound[b] \in Slots \cup {0}
    BY ShopAssumption DEF KernelInv, RowsKnown
  <2> QED
    BY <1>0, <1>2, <1>3, <2>1 DEF KernelInv, BoundHolds, Holding
<1>7. ResolvedStays /\ HoldsStay /\ PaidStays /\ Undispatched
  BY <1>0, <1>1, <1>2, <1>3 DEF ResolvedStays, HoldsStay, PaidStays, Undispatched, Terminal
<1>8. ASSUME NEW u \in Workers \ {w} PROVE Undisturbed(u)
  <2> SUFFICES ASSUME session[u].pc \in {"admitting", "deciding"} PROVE Undisturbed(u)
    BY DEF Undisturbed
  <2>1. /\ session[u].checkout \in Checkouts /\ session[u].attempt \in Attempts
        /\ CheckoutFor[session[u].attempt] = session[u].checkout
        /\ attempt[session[u].attempt] = "NONE"
        /\ session[u].pc = "deciding" => session[u].slot \in Slots
    BY DEF KernelInv, SessionsStand, SessionStands, Locking
  <2>2. session[u].checkout # c
    BY <1>0 DEF KernelInv, MandateLocked, Locking
  <2>3. session[u].attempt # a
    BY <1>0, <2>1, <2>2
  <2> QED
    BY <1>2, <1>3, <2>1, <2>2, <2>3 DEF Undisturbed
<1> QED
  BY <1>0, <1>1, <1>2, <1>4, <1>5, <1>6, <1>7, <1>8 DEF Kept
LEMMA ResolvingKeeps ==
  ASSUME KernelInv, NEW a \in Attempts, NEW source \in Sources, Resolving(a, source)
  PROVE  /\ Kept
         /\ \A u \in Workers : Undisturbed(u)
         /\ \A b \in Attempts : b # a => attempt'[b] = attempt[b] /\ by'[b] = by[b]
         /\ attempt'[a] \in Terminal /\ by'[a] = source
<1> DEFINE c == CheckoutFor[a]
           s == bound[a]
<1>0. /\ attempt[a] \in Dispatched /\ bound' = bound
      /\ c \in Checkouts /\ s \in Slots /\ s # 0
      /\ hold[c][s] \notin {"NONE", "ACTIVE"}
  <2>1. c \in Checkouts /\ s \in Slots \cup {0} /\ s # 0
    BY ShopAssumption DEF Resolving, KernelInv, RowsKnown, Dispatched
  <2> QED
    BY <2>1 DEF Resolving, KernelInv, BoundHolds
<1>1. PICK status \in Terminal, h \in {"CONSUMED", "RELEASED"} :
        /\ attempt' = [attempt EXCEPT ![a] = status]
        /\ by' = [by EXCEPT ![a] = source]
        /\ hold' = [hold EXCEPT ![c][s] = h]
        /\ checkout' \in {checkout, [checkout EXCEPT ![c] = "PAID"]}
        /\ hold[c][s] = "CONSUMED" => h = "CONSUMED"
        /\ hold[c][s] = "RELEASED" => h = "RELEASED"
  BY DEF Resolving, MarkSucceeded, MarkFailed, Recordable, Terminal
<1>2. /\ \A b \in Attempts : attempt'[b] = IF b = a THEN status ELSE attempt[b]
      /\ \A b \in Attempts : by'[b] = IF b = a THEN source ELSE by[b]
      /\ \A d \in Checkouts, t \in Slots :
           hold'[d][t] = IF d = c /\ t = s THEN h ELSE hold[d][t]
      /\ \A d \in Checkouts : checkout[d] = "PAID" => checkout'[d] = "PAID"
  BY <1>0, <1>1 DEF KernelInv, RowsKnown
<1>3. RowsTypedNext
  <2>1. hold' \in [Checkouts -> [Slots -> Holding \cup {"NONE", "RELEASED", "CONSUMED"}]]
    BY <1>0, <1>1 DEF KernelInv, RowsKnown
  <2>2. /\ attempt' \in [Attempts -> Open \cup Terminal \cup {"NONE"}]
        /\ by' \in [Attempts -> {"NONE"} \cup Sources]
        /\ checkout' \in [Checkouts -> {"OPEN", "CANCELLED", "PAID"}]
    BY <1>0, <1>1 DEF KernelInv, RowsKnown, Sources, KernelSources
  <2>3. \A b \in Attempts : attempt'[b] = "NONE" <=> bound'[b] = 0
    BY <1>0, <1>2 DEF KernelInv, RowsKnown, Terminal
  <2> QED
    BY <1>0, <2>1, <2>2, <2>3 DEF RowsTypedNext, KernelInv, RowsKnown
<1>4. SingleUse'
  BY <1>0, <1>2 DEF KernelInv, SingleUse, Dispatched, Open, Terminal
<1>5. BoundHolds'
  <2>1. \A b \in Attempts : CheckoutFor[b] \in Checkouts /\ bound[b] \in Slots \cup {0}
    BY ShopAssumption DEF KernelInv, RowsKnown
  <2> QED
    BY <1>0, <1>2, <2>1 DEF KernelInv, BoundHolds
<1>6. ResolvedStays /\ HoldsStay /\ PaidStays /\ Undispatched
  BY <1>0, <1>1, <1>2 DEF ResolvedStays, HoldsStay, PaidStays, Undispatched, Terminal, Dispatched
<1>7. ASSUME NEW u \in Workers PROVE Undisturbed(u)
  <2> SUFFICES ASSUME session[u].pc \in {"admitting", "deciding"} PROVE Undisturbed(u)
    BY DEF Undisturbed
  <2>1. /\ session[u].checkout \in Checkouts /\ session[u].attempt \in Attempts
        /\ attempt[session[u].attempt] = "NONE"
        /\ session[u].pc = "deciding" =>
             /\ session[u].slot \in Slots
             /\ session[u].seen = "ACTIVE" => hold[session[u].checkout][session[u].slot] = "ACTIVE"
    BY DEF KernelInv, SessionsStand, SessionStands, Locking
  <2> QED
    BY <1>0, <1>2, <2>1 DEF Undisturbed, Dispatched
<1> QED
  BY <1>2, <1>3, <1>4, <1>5, <1>6, <1>7 DEF Kept

LEMMA CancellingKeeps ==
  ASSUME KernelInv, NEW c \in Checkouts, Cancel(c)
  PROVE  /\ Kept
         /\ \A u \in Workers : Undisturbed(u)
<1>1. /\ \A d \in Checkouts, t \in Slots :
           hold'[d][t] = IF d = c /\ hold[c][t] \in Holding THEN "RELEASED" ELSE hold[d][t]
      /\ \A d \in Checkouts : checkout[d] = "PAID" => checkout'[d] = "PAID"
      /\ UNCHANGED <<attempt, by, bound>>
  BY DEF Cancel, Cancellable, HeldRows, KernelInv, RowsKnown
<1>2. RowsTypedNext
  <2>1. hold' \in [Checkouts -> [Slots -> Holding \cup {"NONE", "RELEASED", "CONSUMED"}]]
    BY DEF Cancel, KernelInv, RowsKnown
  <2>2. checkout' \in [Checkouts -> {"OPEN", "CANCELLED", "PAID"}]
    BY DEF Cancel, KernelInv, RowsKnown
  <2> QED
    BY <1>1, <2>1, <2>2 DEF RowsTypedNext, KernelInv, RowsKnown, Sources, KernelSources
<1>3. SingleUse' /\ ResolvedStays /\ Undispatched
  BY <1>1 DEF KernelInv, SingleUse, ResolvedStays, Undispatched
<1>4. HoldsStay /\ PaidStays
  BY <1>1 DEF HoldsStay, PaidStays, Holding
<1>5. BoundHolds'
  <2>1. \A b \in Attempts : CheckoutFor[b] \in Checkouts /\ bound[b] \in Slots \cup {0}
    BY ShopAssumption DEF KernelInv, RowsKnown
  <2>2. 0 \notin Slots
    BY DEF Slots
  <2> QED
    BY <1>1, <2>1, <2>2 DEF KernelInv, BoundHolds, Holding
<1>6. ASSUME NEW u \in Workers PROVE Undisturbed(u)
  <2> SUFFICES ASSUME session[u].pc \in {"admitting", "deciding"} PROVE Undisturbed(u)
    BY DEF Undisturbed
  <2>1. /\ session[u].checkout \in Checkouts /\ session[u].attempt \in Attempts
        /\ attempt[session[u].attempt] = "NONE"
        /\ session[u].pc = "deciding" => session[u].slot \in Slots
        /\ session[u].checkout # c
    BY DEF KernelInv, SessionsStand, SessionStands, Locking, Cancel, CheckoutFree
  <2> QED
    BY <1>1, <2>1 DEF Undisturbed
<1> QED
  BY <1>2, <1>3, <1>4, <1>5, <1>6 DEF Kept

\* A payment that is resolved stays so, and one that becomes resolved was on its way
\* and says by whom.
ResolvedBy(sources) ==
    \A a \in Attempts :
        \/ attempt'[a] = attempt[a] /\ by'[a] = by[a]
        \/ attempt[a] \notin Terminal /\ by'[a] = by[a]
        \/ attempt[a] \in Dispatched /\ by'[a] \in sources

LEMMA WritingKeeps ==
  ASSUME KernelInv, NEW sources \in SUBSET Sources, Writing(sources)
  PROVE  /\ Kept
         /\ ResolvedBy(sources)
         /\ \A u \in Workers : session'[u] = session[u] => Undisturbed(u)
<1>1. CASE Marking
  BY <1>1, MarkingKeeps DEF ResolvedBy, Marking, Open, Terminal
<1>2. CASE Reserving
  BY <1>2, ReservingKeeps DEF ResolvedBy, Reserving
<1>3. ASSUME NEW w \in Workers, Admitting(w)
      PROVE  /\ Kept
             /\ ResolvedBy(sources)
             /\ \A u \in Workers : session'[u] = session[u] => Undisturbed(u)
  <2>1. /\ Kept
        /\ \A u \in Workers \ {w} : Undisturbed(u)
        /\ session' = [session EXCEPT ![w] = Idle]
    BY <1>3, AdmittingKeeps
  <2>2. session'[w] # session[w]
    BY <1>3, <2>1 DEF Admitting, Decide, Idle, KernelInv, RowsKnown
  <2>3. ResolvedBy(sources)
    <3>1. session[w].attempt \in Attempts /\ attempt[session[w].attempt] = "NONE"
      BY <1>3 DEF Admitting, Decide, KernelInv, SessionsStand, SessionStands
    <3> QED
      BY <1>3, <3>1 DEF Admitting, Decide, ResolvedBy, KernelInv, RowsKnown, Terminal
  <2> QED
    BY <2>1, <2>2, <2>3
<1>4. ASSUME NEW a \in Attempts, NEW source \in sources, Resolving(a, source)
      PROVE  /\ Kept
             /\ ResolvedBy(sources)
             /\ \A u \in Workers : Undisturbed(u)
  <2>1. source \in Sources /\ attempt[a] \in Dispatched
    BY <1>4 DEF Resolving
  <2> QED
    BY <1>4, <2>1, ResolvingKeeps DEF ResolvedBy
<1>5. ASSUME NEW c \in Checkouts, Cancel(c)
      PROVE  /\ Kept
             /\ ResolvedBy(sources)
             /\ \A u \in Workers : Undisturbed(u)
  BY <1>5, CancellingKeeps DEF ResolvedBy, Cancel
<1> QED
  BY <1>1, <1>2, <1>3, <1>4, <1>5, MarkingKeeps, ReservingKeeps DEF Writing
-----------------------------------------------------------------------------
(***************************************************************************)
(* The sessions of the kernel, its calls and its clock.                    *)
(***************************************************************************)

\* A session that moves knows what it has to; one that does not is as it was.
SessionsMove ==
    /\ session' \in [Workers -> Sessions]
    /\ \A u \in Workers : session'[u] = session[u] \/ SessionStands(u)'
    /\ MandateLocked'

LEMMA IdleStands ==
  ASSUME NEW w \in Workers, session'[w] = Idle
  PROVE  SessionStands(w)'
  BY DEF SessionStands, Idle, Locking

LEMMA SessionUnmoved == ASSUME KernelInv, UNCHANGED session PROVE SessionsMove
  BY DEF KernelInv, RowsKnown, MandateLocked, Locking, SessionsMove

LEMMA SessionEnds ==
  ASSUME KernelInv, NEW w \in Workers, Become(w, Idle)
  PROVE  SessionsMove
<1>1. Idle \in Sessions
  BY DEF Idle, Sessions
<1>2. /\ session' \in [Workers -> Sessions]
      /\ \A u \in Workers : session'[u] = IF u = w THEN Idle ELSE session[u]
  BY <1>1 DEF Become, KernelInv, RowsKnown
<1>3. MandateLocked'
  BY <1>2 DEF KernelInv, MandateLocked, Locking, Idle
<1> QED
  BY <1>2, <1>3, IdleStands DEF SessionsMove

LEMMA OneMoreLocks ==
  ASSUME MandateLocked, NEW w \in Workers, NEW s,
         \A u \in Workers : session'[u] = IF u = w THEN s ELSE session[u],
         MandateFree(MandateFor[s.checkout])
  PROVE  MandateLocked'
<1> SUFFICES ASSUME NEW u \in Workers, NEW x \in Workers, Locking(u)', Locking(x)',
                    MandateFor[session'[u].checkout] = MandateFor[session'[x].checkout]
             PROVE  u = x
  BY DEF MandateLocked
<1>1. CASE u = w /\ x # w
  BY <1>1 DEF MandateFree, Locking
<1>2. CASE u # w /\ x = w
  BY <1>2 DEF MandateFree, Locking
<1>3. CASE u # w /\ x # w
  BY <1>3 DEF MandateLocked, Locking
<1> QED
  BY <1>1, <1>2, <1>3

LEMMA WorkerSessions ==
  ASSUME KernelInv, NEW w \in Workers, WorkerStep(w)
  PROVE  SessionsMove
<1>0. /\ session \in [Workers -> Sessions] /\ session[w] \in Sessions /\ now \in Nat
      /\ SessionStands(w)
  BY DEF KernelInv, RowsKnown, SessionsStand
<1>1. ASSUME NEW c \in Checkouts, BeginPrepare(w, c) PROVE SessionsMove
  <2> DEFINE s == [Idle EXCEPT !.pc = "preparing", !.checkout = c, !.at = now]
  <2>1. s \in Sessions
    BY <1>0 DEF Idle, Sessions
  <2>2. /\ session' \in [Workers -> Sessions]
        /\ \A u \in Workers : session'[u] = IF u = w THEN s ELSE session[u]
    BY <1>0, <1>1, <2>1 DEF BeginPrepare, Become
  <2>3. SessionStands(w)'
    BY <2>2 DEF SessionStands, Idle, Locking
  <2>4. MandateLocked'
    <3>1. s.pc = "preparing" /\ s.checkout = c /\ MandateFree(MandateFor[c])
      BY <1>1 DEF BeginPrepare, Idle
    <3> QED
      BY <2>2, <3>1, OneMoreLocks DEF KernelInv
  <2> QED
    BY <2>2, <2>3, <2>4 DEF SessionsMove
<1>2. ASSUME NEW a \in Attempts, BeginAdmit(w, a) PROVE SessionsMove
  <2> DEFINE s == [Idle EXCEPT !.pc = "admitting", !.checkout = CheckoutFor[a],
                               !.attempt = a, !.at = now]
  <2>1. s \in Sessions /\ CheckoutFor[a] \in Checkouts
    BY <1>0, ShopAssumption DEF Idle, Sessions
  <2>2. /\ session' \in [Workers -> Sessions]
        /\ \A u \in Workers : session'[u] = IF u = w THEN s ELSE session[u]
    BY <1>0, <1>2, <2>1 DEF BeginAdmit, Become
  <2>3. SessionStands(w)'
    BY <1>2, <2>1, <2>2 DEF BeginAdmit, rows, SessionStands, Idle, Locking
  <2>4. MandateLocked'
    <3>1. s.pc = "admitting" /\ s.checkout = CheckoutFor[a] /\ MandateFree(MandateFor[CheckoutFor[a]])
      BY <1>2 DEF BeginAdmit, Idle
    <3> QED
      BY <2>2, <3>1, OneMoreLocks DEF KernelInv
  <2> QED
    BY <2>2, <2>3, <2>4 DEF SessionsMove
<1>3. ASSUME ReadHold(w) PROVE SessionsMove
  <2>1. CASE Become(w, Idle)
    BY <2>1, SessionEnds
  <2>2. ASSUME NEW t \in HeldRows(session[w].checkout),
               Become(w, [session[w] EXCEPT !.pc = "deciding", !.slot = t,
                                            !.seen = hold[session[w].checkout][t]])
        PROVE  SessionsMove
    <3> DEFINE s == [session[w] EXCEPT !.pc = "deciding", !.slot = t,
                                       !.seen = hold[session[w].checkout][t]]
    <3>1. /\ t \in Nat /\ t \in Slots /\ hold[session[w].checkout][t] \in Holding
          /\ session[w].pc = "admitting"
      <4>1. session[w].pc = "admitting"
        BY <1>3 DEF ReadHold
      <4>2. t \in Slots /\ hold[session[w].checkout][t] \in Holding
        BY DEF HeldRows
      <4> QED
        BY <4>1, <4>2, BoundAssumption DEF Slots
    <3>2. s \in Sessions
      BY <1>0, <3>1 DEF Sessions
    <3>3. /\ session' \in [Workers -> Sessions]
          /\ \A u \in Workers : session'[u] = IF u = w THEN s ELSE session[u]
      BY <1>0, <2>2, <3>2 DEF Become
    <3>4. SessionStands(w)'
      BY <1>0, <1>3, <3>1, <3>3 DEF ReadHold, rows, SessionStands, Sessions, Locking, Holding
    <3>5. MandateLocked'
      <4>1. s.pc = "deciding" /\ s.checkout = session[w].checkout
        BY <1>0 DEF Sessions
      <4>2. \A u \in Workers : /\ Locking(u)' <=> Locking(u)
                               /\ session'[u].checkout = session[u].checkout
        BY <3>1, <3>3, <4>1 DEF Locking
      <4> QED
        BY <4>2 DEF KernelInv, MandateLocked
    <3> QED
      BY <3>3, <3>4, <3>5 DEF SessionsMove
  <2> QED
    BY <1>3, <2>1, <2>2 DEF ReadHold
<1>4. ASSUME NEW a \in Attempts, Ask(w, a) PROVE SessionsMove
  <2> DEFINE s == [Idle EXCEPT !.pc = "asking", !.attempt = a]
  <2>1. s \in Sessions
    BY DEF Idle, Sessions
  <2>2. /\ session' \in [Workers -> Sessions]
        /\ \A u \in Workers : session'[u] = IF u = w THEN s ELSE session[u]
    BY <1>0, <1>4, <2>1 DEF Ask, Become
  <2>3. SessionStands(w)'
    BY <2>2 DEF SessionStands, Idle, Locking
  <2>4. MandateLocked'
    BY <2>2 DEF KernelInv, MandateLocked, Locking, Idle
  <2> QED
    BY <2>2, <2>3, <2>4 DEF SessionsMove
<1>5. ASSUME NEW answer \in Answers \cup {"NEVER_EXECUTED"}, Query(w, answer) PROVE SessionsMove
  <2> DEFINE s == [session[w] EXCEPT !.pc = "answered", !.answer = answer]
  <2>1. s \in Sessions /\ session[w].pc = "asking" /\ answer # "NONE"
    BY <1>0, <1>5 DEF Sessions, Query, Answers
  <2>2. /\ session' \in [Workers -> Sessions]
        /\ \A u \in Workers : session'[u] = IF u = w THEN s ELSE session[u]
    BY <1>0, <1>5, <2>1 DEF Query, Become
  <2>3. SessionStands(w)'
    BY <1>0, <2>1, <2>2 DEF SessionStands, Sessions, Locking
  <2>4. MandateLocked'
    BY <1>0, <2>1, <2>2 DEF KernelInv, MandateLocked, Locking, Sessions
  <2> QED
    BY <2>2, <2>3, <2>4 DEF SessionsMove
<1>6. Become(w, Idle) => SessionsMove
  BY SessionEnds
<1> QED
  BY <1>1, <1>2, <1>3, <1>4, <1>5, <1>6 DEF WorkerStep, FinishPrepare, Decide, RecordReconciliation

\* A call is made once, for a payment that is dispatched by it.
CallsMove ==
    /\ call' \in [Attempts -> {"NONE", "SENT", "ORPHANED", "CLOSED"} \cup Answers]
    /\ SentOnce
    /\ \A a \in Attempts : call'[a] = "NONE" \/ call[a] # "NONE" \/ attempt'[a] = "IN_FLIGHT"

LEMMA CallUnmoved == ASSUME KernelInv, UNCHANGED call PROVE CallsMove
  BY DEF KernelInv, RowsKnown, CallsMove, SentOnce

LEMMA CallsOfPayment ==
  ASSUME KernelInv, NEW a \in Attempts, PaymentStep(a)
  PROVE  CallsMove
<1>0. call \in [Attempts -> {"NONE", "SENT", "ORPHANED", "CLOSED"} \cup Answers]
  BY DEF KernelInv, RowsKnown
<1>1. ASSUME Dispatch(a) PROVE CallsMove
  BY <1>0, <1>1 DEF Dispatch, Dispatchable, KernelInv, RowsKnown, CallsMove, SentOnce
<1>2. ASSUME NEW o \in ProviderOutcomes, ProviderExecute(a, o) PROVE CallsMove
  BY <1>0, <1>2 DEF ProviderExecute, ProviderOutcomes, CallsMove, SentOnce, Answers
<1>3. ASSUME CallerCrash(a) PROVE CallsMove
  BY <1>0, <1>3 DEF CallerCrash, CallsMove, SentOnce, Answers
<1>4. ASSUME RecordExecution(a) PROVE CallsMove
  BY <1>0, <1>4 DEF RecordExecution, CallsMove, SentOnce, Answers
<1>5. ASSUME Abandon(a) PROVE CallsMove
  BY <1>5, CallUnmoved DEF Abandon, provider
<1> QED
  BY <1>1, <1>2, <1>3, <1>4, <1>5 DEF PaymentStep

LEMMA CallsOfWorker ==
  ASSUME KernelInv, NEW w \in Workers, WorkerStep(w)
  PROVE  CallsMove
<1>1. ASSUME NEW answer, Query(w, answer) PROVE CallsMove
  <2>1. /\ call \in [Attempts -> {"NONE", "SENT", "ORPHANED", "CLOSED"} \cup Answers]
        /\ session[w].attempt \in Attempts
    BY <1>1 DEF Query, KernelInv, RowsKnown, SessionsStand, SessionStands
  <2> QED
    BY <1>1, <2>1 DEF Query, CallsMove, SentOnce
<1> QED
  BY <1>1, CallUnmoved DEF WorkerStep, BeginPrepare, FinishPrepare, BeginAdmit, Ask, ReadHold, Decide,
                           RecordReconciliation, provider

-----------------------------------------------------------------------------
(***************************************************************************)
(* Any step of the kernel, and any step of the bridge.                     *)
(***************************************************************************)

LEMMA KernelMoves ==
  ASSUME KernelInv, [Next]_vars
  PROVE  SessionsMove /\ CallsMove /\ now' \in Nat
<1>0. now \in Nat
  BY DEF KernelInv, RowsKnown
<1>1. ASSUME NEW w \in Workers, WorkerStep(w) PROVE SessionsMove /\ CallsMove /\ now' \in Nat
  <2>1. UNCHANGED now
    BY <1>1 DEF WorkerStep, BeginPrepare, FinishPrepare, BeginAdmit, Ask, ReadHold, Decide, Query,
                RecordReconciliation
  <2> QED
    BY <1>0, <1>1, <2>1, WorkerSessions, CallsOfWorker
<1>2. ASSUME NEW a \in Attempts, PaymentStep(a) PROVE SessionsMove /\ CallsMove /\ now' \in Nat
  <2>1. UNCHANGED <<session, now>>
    BY <1>2 DEF PaymentStep, Dispatch, ProviderExecute, CallerCrash, RecordExecution, Abandon
  <2> QED
    BY <1>0, <1>2, <2>1, SessionUnmoved, CallsOfPayment
<1>3. ASSUME NEW w \in Workers, WorkerCrash(w) PROVE SessionsMove /\ CallsMove /\ now' \in Nat
  BY <1>0, <1>3, SessionEnds, CallUnmoved DEF WorkerCrash, provider
<1>4. ASSUME UNCHANGED <<provider, session, now>> PROVE SessionsMove /\ CallsMove /\ now' \in Nat
  BY <1>0, <1>4, SessionUnmoved, CallUnmoved DEF provider
<1>5. ASSUME Tick PROVE SessionsMove /\ CallsMove /\ now' \in Nat
  BY <1>0, <1>5, SessionUnmoved, CallUnmoved DEF Tick, provider
<1> QED
  BY <1>1, <1>2, <1>3, <1>4, <1>5 DEF Next, NextWithoutCrash, Cancel, Revoke, vars

\* Whoever writes, the kernel's part of the invariant stands.
LEMMA KernelStands ==
  ASSUME KernelInv, NEW sources \in SUBSET Sources, Writing(sources),
         SessionsMove, CallsMove, now' \in Nat
  PROVE  KernelInv'
<1>1. Kept /\ \A u \in Workers : session'[u] = session[u] => Undisturbed(u)
  BY WritingKeeps
<1>2. RowsKnown'
  <2>1. \A a \in Attempts : attempt'[a] \in {"NONE", "ADMITTED"} => call'[a] = "NONE"
    BY <1>1 DEF Kept, Undispatched, CallsMove, KernelInv, RowsKnown
  <2> QED
    BY <1>1, <2>1 DEF Kept, RowsTypedNext, SessionsMove, CallsMove, RowsKnown, Sources, KernelSources
<1>3. SessionsStand'
  <2> SUFFICES ASSUME NEW u \in Workers, session'[u] = session[u] PROVE SessionStands(u)'
    BY DEF SessionsMove, SessionsStand
  <2>1. Undisturbed(u) /\ SessionStands(u)
    BY <1>1 DEF KernelInv, SessionsStand
  <2> QED
    BY <2>1 DEF SessionStands, Undisturbed, Locking
<1> QED
  BY <1>1, <1>2, <1>3 DEF Kept, SessionsMove, KernelInv
-----------------------------------------------------------------------------
(***************************************************************************)
(* The requests and the rows of the bridge.                                *)
(***************************************************************************)

\* What a step writes that is no business of the kernel keeps what requests, rows and
\* Razorpay know of each other: it is about the payment of one binding.
BridgeKnows == RequestsKnow /\ InteractiveIsSound

\* A step of the kernel moves no binding, and resolves nothing in the bridge's name.
LEMMA BridgeStands ==
  ASSUME BridgeInv, Kept, ResolvedBy(KernelSources), UNCHANGED bridge
  PROVE  BridgeKnows'
<1>1. BridgeTypeOK'
  BY DEF BridgeInv, InteractiveIsSound, BridgeTypeOK, bridge
<1>2. \A a \in Attempts : attempt[a] = "SUCCEEDED" => attempt'[a] = "SUCCEEDED"
  BY DEF Kept, ResolvedStays, Terminal
<1>3. \A a \in Attempts, p \in Payments : Captured(a, p)' <=> Captured(a, p)
  BY DEF Captured, bridge
<1>4. ConfirmedIsSettled'
  BY <1>2 DEF BridgeInv, InteractiveIsSound, ConfirmedIsSettled, Captured, bridge
<1>5. InteractiveSuccessWasCaptured'
  <2> SUFFICES ASSUME NEW a \in Attempts, by'[a] = "INTERACTIVE"
               PROVE  attempt'[a] = "SUCCEEDED" /\ \E p \in Payments : Captured(a, p)'
    BY DEF InteractiveSuccessWasCaptured
  <2>1. by[a] = "INTERACTIVE"
    BY DEF ResolvedBy, KernelSources
  <2> QED
    BY <1>2, <1>3, <2>1 DEF BridgeInv, InteractiveIsSound, InteractiveSuccessWasCaptured
<1>6. RequestsKnow'
  BY <1>2 DEF BridgeInv, RequestsKnow, Captured, bridge
<1> QED
  BY <1>1, <1>4, <1>5, <1>6 DEF BridgeKnows, InteractiveIsSound

LEMMA KernelStepKeeps ==
  ASSUME BridgeInv, [Next]_vars, UNCHANGED bridge
  PROVE  BridgeInv'
<1>1. KernelInv /\ KernelSources \in SUBSET Sources
  BY DEF BridgeInv, Sources
<1>2. Writing(KernelSources) /\ SessionsMove /\ CallsMove /\ now' \in Nat
  BY <1>1, KernelWrites, KernelMoves
<1>3. KernelInv' /\ Kept /\ ResolvedBy(KernelSources)
  BY <1>1, <1>2, KernelStands, WritingKeeps
<1> QED
  BY <1>3, BridgeStands DEF BridgeInv, BridgeKnows

\* A step that leaves the kernel alone leaves what it knows.
LEMMA KernelUnmoved ==
  ASSUME KernelInv, UNCHANGED vars
  PROVE  KernelInv' /\ Kept
<1>1. [Next]_vars /\ KernelSources \in SUBSET Sources
  BY DEF Sources
<1> QED
  BY <1>1, KernelWrites, KernelMoves, KernelStands, WritingKeeps

\* A request can be put in the middle of anything it may be in.
LEMMA TurnTyped ==
  ASSUME desk \in [Desks -> Requests], NEW r \in Desks, NEW s \in Requests, Turn(r, s)
  PROVE  /\ desk' \in [Desks -> Requests]
         /\ \A q \in Desks : desk'[q] = IF q = r THEN s ELSE desk[q]
  BY DEF Turn

\* What one request knows.
Knows(d) ==
    /\ d.pc # "idle" => d.attempt \in Attempts
    /\ d.pc = "binding" => order[d.attempt]
    /\ d.pc \in {"fetching", "applying", "confirming"} => d.payment \in Payments
    /\ d.pc \in {"applying", "confirming"} => Captured(d.attempt, d.payment)
    /\ d.pc = "confirming" /\ ~ d.conflict => attempt[d.attempt] = "SUCCEEDED"

\* What was known of an attempt, an order and a payment stays so.
KnownStays ==
    /\ \A a \in Attempts : order[a] => order'[a]
    /\ \A a \in Attempts, p \in Payments : Captured(a, p) => Captured(a, p)'
    /\ \A a \in Attempts : attempt[a] = "SUCCEEDED" => attempt'[a] = "SUCCEEDED"

LEMMA RequestsGoOn ==
  ASSUME RequestsKnow, KnownStays, NEW r \in Desks,
         \A q \in Desks : q # r => desk'[q] = desk[q],
         Knows(desk[r])' 
  PROVE  RequestsKnow'
<1> SUFFICES ASSUME NEW q \in Desks PROVE Knows(desk[q])'
  BY DEF RequestsKnow, Knows
<1>1. CASE q # r
  <2>1. Knows(desk[q]) /\ desk'[q] = desk[q]
    BY <1>1 DEF RequestsKnow, Knows
  <2> QED
    BY <2>1 DEF Knows, KnownStays
<1> QED
  BY <1>1
LEMMA NoRequestTyped == NoRequest \in Requests
  BY DEF NoRequest, Requests

\* Bindings that stand, of payments that stand.
LEMMA SettledStays ==
  ASSUME BridgeInv, KnownStays, UNCHANGED <<by, confirmedBy>>,
         \A a \in Attempts : binding'[a] = "CONFIRMED" => binding[a] = "CONFIRMED"
  PROVE  ConfirmedIsSettled' /\ InteractiveSuccessWasCaptured'
<1>1. ConfirmedIsSettled'
  <2> SUFFICES ASSUME NEW a \in Attempts, binding'[a] = "CONFIRMED"
               PROVE  (attempt[a] = "SUCCEEDED" /\ Captured(a, confirmedBy[a]))'
    BY DEF ConfirmedIsSettled, Captured
  <2>1. binding[a] = "CONFIRMED" /\ attempt[a] = "SUCCEEDED" /\ Captured(a, confirmedBy[a])
    BY DEF BridgeInv, InteractiveIsSound, ConfirmedIsSettled
  <2>2. confirmedBy[a] \in Payments
    BY <2>1 DEF BridgeInv, InteractiveIsSound, BridgeTypeOK
  <2> QED
    BY <2>1, <2>2 DEF KnownStays, Captured
<1>2. InteractiveSuccessWasCaptured'
  BY DEF BridgeInv, InteractiveIsSound, InteractiveSuccessWasCaptured, KnownStays, Captured
<1> QED
  BY <1>1, <1>2

\* A request moves, and a binding perhaps with it; the kernel and Razorpay do not.
LEMMA RequestStepKeeps ==
  ASSUME BridgeInv, UNCHANGED <<vars, confirmedBy, payment>>, NEW r \in Desks,
         \A a \in Attempts : order[a] => order'[a],
         \A a \in Attempts : binding'[a] = "CONFIRMED" => binding[a] = "CONFIRMED",
         BridgeTypeOK', \A q \in Desks : q # r => desk'[q] = desk[q], Knows(desk[r])'
  PROVE  BridgeInv'
<1>1. KernelInv' /\ UNCHANGED <<attempt, by>>
  BY KernelUnmoved DEF BridgeInv, vars, rows
<1>2. KnownStays
  BY <1>1 DEF KnownStays, Captured
<1>3. ConfirmedIsSettled' /\ InteractiveSuccessWasCaptured'
  BY <1>1, <1>2, SettledStays
<1>4. RequestsKnow'
  BY <1>2, RequestsGoOn DEF BridgeInv
<1> QED
  BY <1>1, <1>3, <1>4 DEF BridgeInv, InteractiveIsSound

LEMMA RequestEndsKeeps ==
  ASSUME BridgeInv, NEW r \in Desks, Turn(r, NoRequest),
         UNCHANGED <<vars, confirmedBy, payment, order, binding>>
  PROVE  BridgeInv'
<1>1. /\ desk' \in [Desks -> Requests]
      /\ \A q \in Desks : desk'[q] = IF q = r THEN NoRequest ELSE desk[q]
  BY TurnTyped, NoRequestTyped DEF BridgeInv, InteractiveIsSound, BridgeTypeOK
<1>2. BridgeTypeOK'
  BY <1>1 DEF BridgeInv, InteractiveIsSound, BridgeTypeOK
<1>3. Knows(desk[r])'
  BY <1>1 DEF Knows, NoRequest
<1> QED
  BY <1>1, <1>2, <1>3, RequestStepKeeps

-----------------------------------------------------------------------------
(***************************************************************************)
(* Preparation.                                                            *)
(***************************************************************************)

LEMMA CheckEligibleKeeps ==
  ASSUME BridgeInv, NEW r \in Desks, NEW a \in Attempts, CheckEligible(r, a)
  PROVE  BridgeInv'
<1> DEFINE s == [NoRequest EXCEPT !.pc = "eligible", !.attempt = a]
<1>1. s \in Requests /\ s.pc = "eligible" /\ s.attempt = a
  BY DEF NoRequest, Requests
<1>2. /\ Turn(r, s)
      /\ UNCHANGED <<vars, binding, confirmedBy, order, payment>>
  BY DEF CheckEligible
<1> HIDE DEF s
<1>3. /\ desk' \in [Desks -> Requests]
      /\ \A q \in Desks : desk'[q] = IF q = r THEN s ELSE desk[q]
  BY <1>1, <1>2, TurnTyped DEF BridgeInv, InteractiveIsSound, BridgeTypeOK
<1>4. BridgeTypeOK'
  BY <1>2, <1>3 DEF BridgeInv, InteractiveIsSound, BridgeTypeOK
<1>5. Knows(desk[r])'
  BY <1>1, <1>3 DEF Knows
<1> QED
  BY <1>2, <1>3, <1>4, <1>5, RequestStepKeeps

LEMMA ReserveBindingKeeps ==
  ASSUME BridgeInv, NEW r \in Desks, ReserveBinding(r)
  PROVE  BridgeInv'
<1> DEFINE a == desk[r].attempt
           s == IF binding[a] \in {"NONE", "PREPARING"}
                THEN [desk[r] EXCEPT !.pc = "ordering"] ELSE NoRequest
<1>1. desk[r] \in Requests /\ a \in Attempts /\ binding \in [Attempts -> BindingStates]
  BY DEF ReserveBinding, BridgeInv, RequestsKnow, InteractiveIsSound, BridgeTypeOK
<1>2. /\ s \in Requests
      /\ s.pc \in {"ordering", "idle"}
      /\ s.pc = "ordering" => s.attempt \in Attempts
  BY <1>1, NoRequestTyped DEF Requests, NoRequest
<1>3. /\ Turn(r, s)
      /\ binding' = [binding EXCEPT ![a] = IF binding[a] = "NONE" THEN "PREPARING" ELSE binding[a]]
      /\ UNCHANGED <<vars, confirmedBy, order, payment>>
  BY DEF ReserveBinding
<1> HIDE DEF s
<1>4. /\ desk' \in [Desks -> Requests]
      /\ \A q \in Desks : desk'[q] = IF q = r THEN s ELSE desk[q]
  BY <1>2, <1>3, TurnTyped DEF BridgeInv, InteractiveIsSound, BridgeTypeOK
<1>5. /\ binding' \in [Attempts -> BindingStates]
      /\ \A b \in Attempts : /\ binding'[b] = "CONFIRMED" <=> binding[b] = "CONFIRMED"
                             /\ binding'[b] = "AWAITING_PAYMENT" => binding[b] = "AWAITING_PAYMENT"
  BY <1>1, <1>3 DEF BindingStates
<1>6. BridgeTypeOK'
  BY <1>3, <1>4, <1>5 DEF BridgeInv, InteractiveIsSound, BridgeTypeOK
<1>7. Knows(desk[r])'
  BY <1>2, <1>4 DEF Knows
<1> QED
  BY <1>3, <1>4, <1>5, <1>6, <1>7, RequestStepKeeps

LEMMA ObtainOrderKeeps ==
  ASSUME BridgeInv, NEW r \in Desks, ObtainOrder(r)
  PROVE  BridgeInv'
<1> DEFINE a == desk[r].attempt
<1>1. desk[r] \in Requests /\ a \in Attempts /\ order \in [Attempts -> BOOLEAN]
  BY DEF ObtainOrder, BridgeInv, RequestsKnow, InteractiveIsSound, BridgeTypeOK
<1>2. PICK exists \in {order[a], TRUE}, answered \in BOOLEAN :
        /\ answered => exists
        /\ order' = [order EXCEPT ![a] = exists]
        /\ Turn(r, IF answered THEN [desk[r] EXCEPT !.pc = "binding"] ELSE NoRequest)
  BY DEF ObtainOrder
<1> DEFINE s == IF answered THEN [desk[r] EXCEPT !.pc = "binding"] ELSE NoRequest
<1>3. /\ order' \in [Attempts -> BOOLEAN]
      /\ \A b \in Attempts : order[b] => order'[b]
      /\ answered => order'[a]
  BY <1>1, <1>2
<1>4. /\ s \in Requests
      /\ s.pc \in {"binding", "idle"}
      /\ s.pc = "binding" => s.attempt = a /\ answered
  BY <1>1, NoRequestTyped DEF Requests, NoRequest
<1>5. Turn(r, s) /\ UNCHANGED <<vars, binding, confirmedBy, payment>>
  BY <1>2 DEF ObtainOrder
<1> HIDE DEF s
<1>6. /\ desk' \in [Desks -> Requests]
      /\ \A q \in Desks : desk'[q] = IF q = r THEN s ELSE desk[q]
  BY <1>4, <1>5, TurnTyped DEF BridgeInv, InteractiveIsSound, BridgeTypeOK
<1>7. BridgeTypeOK'
  BY <1>3, <1>5, <1>6 DEF BridgeInv, InteractiveIsSound, BridgeTypeOK
<1>8. Knows(desk[r])'
  BY <1>1, <1>3, <1>4, <1>6 DEF Knows
<1> QED
  BY <1>3, <1>5, <1>6, <1>7, <1>8, RequestStepKeeps

LEMMA BindOrderKeeps ==
  ASSUME BridgeInv, NEW r \in Desks, BindOrder(r)
  PROVE  BridgeInv'
<1> DEFINE a == desk[r].attempt
<1>1. /\ desk[r] \in Requests /\ a \in Attempts /\ binding \in [Attempts -> BindingStates]
      /\ order[a]
  BY DEF BindOrder, BridgeInv, RequestsKnow, InteractiveIsSound, BridgeTypeOK
<1>2. UNCHANGED <<vars, confirmedBy, order, payment>>
  BY DEF BindOrder
<1>3. PICK s \in {NoRequest, [desk[r] EXCEPT !.pc = "broken"]} :
        /\ Turn(r, s)
        /\ \/ MayBind(binding[a]) /\ binding' = [binding EXCEPT ![a] = "AWAITING_PAYMENT"]
           \/ UNCHANGED binding
  BY DEF BindOrder
<1>4. /\ s \in Requests
      /\ s.pc \in {"broken", "idle"}
      /\ s.pc = "broken" => s.attempt \in Attempts
  BY <1>1, NoRequestTyped DEF Requests, NoRequest
<1>5. /\ desk' \in [Desks -> Requests]
      /\ \A q \in Desks : desk'[q] = IF q = r THEN s ELSE desk[q]
  BY <1>3, <1>4, TurnTyped DEF BridgeInv, InteractiveIsSound, BridgeTypeOK
<1>6. /\ binding' \in [Attempts -> BindingStates]
      /\ \A b \in Attempts : /\ binding'[b] = "CONFIRMED" <=> binding[b] = "CONFIRMED"
                             /\ binding'[b] = "AWAITING_PAYMENT" => binding[b] = "AWAITING_PAYMENT" \/ b = a
  BY <1>1, <1>3 DEF BindingStates, MayBind
<1>7. BridgeTypeOK'
  BY <1>1, <1>2, <1>5, <1>6 DEF BridgeInv, InteractiveIsSound, BridgeTypeOK
<1>8. Knows(desk[r])'
  BY <1>4, <1>5 DEF Knows
<1> QED
  BY <1>2, <1>5, <1>6, <1>7, <1>8, RequestStepKeeps
-----------------------------------------------------------------------------
(***************************************************************************)
(* The customer, and verification.                                         *)
(***************************************************************************)

LEMMA CustomerPaysKeeps ==
  ASSUME BridgeInv, NEW a \in Attempts, NEW p \in Payments, CustomerPays(a, p)
  PROVE  BridgeInv'
<1>1. KernelInv' /\ UNCHANGED <<attempt, by, binding, confirmedBy, order, desk>>
  BY KernelUnmoved DEF CustomerPays, BridgeInv, vars, rows
<1>2. payment \in [Attempts -> [Payments -> PaymentStates]]
  BY DEF BridgeInv, InteractiveIsSound, BridgeTypeOK
<1>3. PICK state \in PaymentStates :
        /\ payment' = [payment EXCEPT ![a][p] = state]
        /\ Captured(a, p) => state \in {"captured", "refunded"}
  BY DEF CustomerPays, PaymentStates, Captured
<1>4. /\ payment' \in [Attempts -> [Payments -> PaymentStates]]
      /\ \A b \in Attempts, q \in Payments :
           payment'[b][q] = IF b = a /\ q = p THEN state ELSE payment[b][q]
  BY <1>2, <1>3
<1>5. KnownStays
  BY <1>1, <1>3, <1>4 DEF KnownStays, Captured
<1>6. BridgeTypeOK'
  BY <1>1, <1>4 DEF BridgeInv, InteractiveIsSound, BridgeTypeOK
<1>7. RequestsKnow'
  BY <1>1, <1>5 DEF BridgeInv, RequestsKnow, KnownStays, Captured
<1> QED
  BY <1>1, <1>5, <1>6, <1>7, SettledStays DEF BridgeInv, InteractiveIsSound

\* Verification of a callback commits that an operation exists: a mark on the payment.
LEMMA BeginVerifyMarks ==
  ASSUME KernelInv, NEW r \in Desks, NEW a \in Attempts, NEW p \in Payments, BeginVerify(r, a, p)
  PROVE  Marking /\ UNCHANGED <<by, call, session, now>>
<1>1. /\ attempt' = [attempt EXCEPT ![a] = ExternallyDispatched(attempt[a])]
      /\ UNCHANGED <<checkout, hold, bound, by, call, session, now>>
  BY DEF BeginVerify, provider
<1>2. \/ ExternallyDispatched(attempt[a]) = attempt[a]
      \/ attempt[a] \in Open /\ ExternallyDispatched(attempt[a]) \in Dispatched
  BY DEF ExternallyDispatched, Open, Dispatched
<1>3. attempt \in [Attempts -> Open \cup Terminal \cup {"NONE"}]
  BY DEF KernelInv, RowsKnown
<1> HIDE DEF ExternallyDispatched
<1> QED
  BY <1>1, <1>2, <1>3 DEF Marking, Open, Dispatched

\* The outcome Razorpay reports goes through the machinery of the kernel.
LEMMA ApplyObservationWrites ==
  ASSUME BridgeInv, NEW r \in Desks, ApplyObservation(r)
  PROVE  /\ desk[r].attempt \in Attempts
         /\ Marking \/ Resolving(desk[r].attempt, "INTERACTIVE")
         /\ UNCHANGED <<call, session, now>>
<1>1. /\ desk[r].attempt \in Attempts
      /\ RecordDefinitive(desk[r].attempt, "SUCCEEDED", "INTERACTIVE")
      /\ UNCHANGED <<call, session, now>>
  BY DEF ApplyObservation, BridgeInv, RequestsKnow, provider
<1>2. "SUCCEEDED" \in Terminal
  BY DEF Terminal
<1> QED
  BY <1>1, <1>2, RecordingWrites DEF BridgeInv

LEMMA BridgeWrites ==
  ASSUME BridgeInv, [BridgeNext]_allvars
  PROVE  Writing(Sources) /\ SessionsMove /\ CallsMove /\ now' \in Nat
<1>0. KernelInv /\ now \in Nat
  BY DEF BridgeInv, KernelInv, RowsKnown
<1>1. CASE [Next]_vars
  BY <1>0, <1>1, KernelWrites, KernelMoves DEF Writing, Sources
<1>2. ASSUME NEW r \in Desks, NEW a \in Attempts, NEW p \in Payments, BeginVerify(r, a, p)
      PROVE  Writing(Sources) /\ SessionsMove /\ CallsMove /\ now' \in Nat
  BY <1>0, <1>2, BeginVerifyMarks, SessionUnmoved, CallUnmoved DEF Writing
<1>3. ASSUME NEW r \in Desks, ApplyObservation(r)
      PROVE  Writing(Sources) /\ SessionsMove /\ CallsMove /\ now' \in Nat
  <2>1. Writing(Sources)
    BY <1>3, ApplyObservationWrites DEF Writing, Sources
  <2> QED
    BY <1>0, <1>3, <2>1, ApplyObservationWrites, SessionUnmoved, CallUnmoved
<1> QED
  BY <1>1, <1>2, <1>3 DEF BridgeNext, BridgeNextWithoutCrash, DeskStep, CustomerPays, CheckEligible,
                          ReserveBinding, ObtainOrder, BindOrder, FetchPayment, FetchNothing, Confirm,
                          RequestEnds, Next, allvars

\* What is over in the kernel is over beside the bridge too.
LEMMA BridgeKeepsKernel ==
  ASSUME BridgeInv, [BridgeNext]_allvars
  PROVE  KernelInv' /\ Kept /\ SentOnce
<1>1. KernelInv /\ Sources \in SUBSET Sources
  BY DEF BridgeInv
<1>2. Writing(Sources) /\ SessionsMove /\ CallsMove /\ now' \in Nat
  BY BridgeWrites
<1> QED
  BY <1>1, <1>2, KernelStands, WritingKeeps DEF CallsMove

\* Captures, orders and successes stay, beside the bridge as in it.
LEMMA SuccessesStay ==
  ASSUME Kept, UNCHANGED <<order, payment>>
  PROVE  KnownStays
  BY DEF Kept, ResolvedStays, Terminal, KnownStays, Captured

LEMMA BeginVerifyKeeps ==
  ASSUME BridgeInv, NEW r \in Desks, NEW a \in Attempts, NEW p \in Payments, BeginVerify(r, a, p)
  PROVE  BridgeInv'
<1> DEFINE s == [NoRequest EXCEPT !.pc = "fetching", !.attempt = a, !.payment = p]
<1>1. s \in Requests /\ s.pc = "fetching" /\ s.attempt = a /\ s.payment = p
  BY DEF NoRequest, Requests
<1>2. Turn(r, s) /\ UNCHANGED <<by, binding, confirmedBy, order, payment>>
  BY DEF BeginVerify
<1> HIDE DEF s
<1>3. KernelInv' /\ Kept
  BY BridgeKeepsKernel DEF BridgeNext, BridgeNextWithoutCrash, DeskStep
<1>4. KnownStays
  BY <1>2, <1>3, SuccessesStay
<1>5. /\ desk' \in [Desks -> Requests]
      /\ \A q \in Desks : desk'[q] = IF q = r THEN s ELSE desk[q]
  BY <1>1, <1>2, TurnTyped DEF BridgeInv, InteractiveIsSound, BridgeTypeOK
<1>6. BridgeTypeOK'
  BY <1>2, <1>5 DEF BridgeInv, InteractiveIsSound, BridgeTypeOK
<1>7. Knows(desk[r])'
  BY <1>1, <1>5 DEF Knows
<1>8. RequestsKnow'
  BY <1>4, <1>5, <1>7, RequestsGoOn DEF BridgeInv
<1> QED
  BY <1>2, <1>3, <1>4, <1>6, <1>8, SettledStays DEF BridgeInv, InteractiveIsSound

LEMMA FetchPaymentKeeps ==
  ASSUME BridgeInv, NEW r \in Desks, FetchPayment(r)
  PROVE  BridgeInv'
<1> DEFINE s == [desk[r] EXCEPT !.pc = "applying"]
<1>1. /\ desk[r] \in Requests /\ desk[r].attempt \in Attempts /\ desk[r].payment \in Payments
      /\ Captured(desk[r].attempt, desk[r].payment)
  BY DEF FetchPayment, Observed, Captured, BridgeInv, RequestsKnow, InteractiveIsSound, BridgeTypeOK
<1>2. /\ s \in Requests /\ s.pc = "applying"
      /\ s.attempt = desk[r].attempt /\ s.payment = desk[r].payment
  BY <1>1 DEF Requests
<1>3. Turn(r, s) /\ UNCHANGED <<vars, binding, confirmedBy, order, payment>>
  BY DEF FetchPayment
<1> HIDE DEF s
<1>4. /\ desk' \in [Desks -> Requests]
      /\ \A q \in Desks : desk'[q] = IF q = r THEN s ELSE desk[q]
  BY <1>2, <1>3, TurnTyped DEF BridgeInv, InteractiveIsSound, BridgeTypeOK
<1>5. BridgeTypeOK'
  BY <1>3, <1>4 DEF BridgeInv, InteractiveIsSound, BridgeTypeOK
<1>6. Knows(desk[r])'
  BY <1>1, <1>2, <1>3, <1>4 DEF Knows, Captured
<1> QED
  BY <1>3, <1>4, <1>5, <1>6, RequestStepKeeps

\* Only a capture resolves a payment here, and only as a success.
LEMMA ApplyObservationKeeps ==
  ASSUME BridgeInv, NEW r \in Desks, ApplyObservation(r)
  PROVE  BridgeInv'
<1> DEFINE a == desk[r].attempt
           p == desk[r].payment
           broken == attempt[a] \in Dispatched /\ ~ Recordable(a, "SUCCEEDED")
           s == IF broken THEN [desk[r] EXCEPT !.pc = "broken"]
                ELSE [desk[r] EXCEPT !.pc = "confirming", !.conflict = attempt[a] = "FAILED"]
<1>1. /\ desk[r] \in Requests /\ a \in Attempts /\ p \in Payments /\ Captured(a, p)
      /\ attempt \in [Attempts -> Open \cup Terminal \cup {"NONE"}]
  BY DEF ApplyObservation, BridgeInv, RequestsKnow, InteractiveIsSound, BridgeTypeOK, KernelInv, RowsKnown
<1>2. /\ s \in Requests /\ s.attempt = a /\ s.payment = p
      /\ s.pc \in {"broken", "confirming"}
      /\ s.pc = "confirming" => ~ broken /\ s.conflict = (attempt[a] = "FAILED")
  BY <1>1 DEF Requests
<1>3. /\ Turn(r, s) /\ UNCHANGED <<binding, confirmedBy, order, payment>>
      /\ RecordDefinitive(a, "SUCCEEDED", "INTERACTIVE")
  BY DEF ApplyObservation
<1>4. KernelInv' /\ Kept
  BY BridgeKeepsKernel DEF BridgeNext, BridgeNextWithoutCrash, DeskStep
<1>5. KnownStays
  BY <1>3, <1>4, SuccessesStay
<1>6. \/ by' = by
      \/ attempt'[a] = "SUCCEEDED" /\ \A b \in Attempts : b # a => by'[b] = by[b]
  BY <1>1, <1>3 DEF RecordDefinitive, MarkSucceeded, BridgeInv, KernelInv, RowsKnown
<1>7. s.pc = "confirming" /\ ~ s.conflict => attempt'[a] = "SUCCEEDED"
  <2> SUFFICES ASSUME ~ broken, attempt[a] # "FAILED" PROVE attempt'[a] = "SUCCEEDED"
    BY <1>2
  <2>1. CASE attempt[a] \in Dispatched
    BY <1>1, <1>3, <2>1 DEF RecordDefinitive, MarkSucceeded, Dispatched, Terminal
  <2>2. CASE attempt[a] \notin Dispatched
    BY <1>3, <2>2 DEF RecordDefinitive, Terminal
  <2> QED
    BY <2>1, <2>2
<1> HIDE DEF s, a, p
<1>8. /\ desk' \in [Desks -> Requests]
      /\ \A q \in Desks : desk'[q] = IF q = r THEN s ELSE desk[q]
  BY <1>2, <1>3, TurnTyped DEF BridgeInv, InteractiveIsSound, BridgeTypeOK
<1>9. BridgeTypeOK'
  BY <1>3, <1>8 DEF BridgeInv, InteractiveIsSound, BridgeTypeOK
<1>10. Knows(desk[r])'
  BY <1>1, <1>2, <1>3, <1>7, <1>8 DEF Knows, Captured
<1>11. RequestsKnow'
  BY <1>5, <1>8, <1>10, RequestsGoOn DEF BridgeInv
<1>12. ConfirmedIsSettled'
  BY <1>3, <1>5 DEF BridgeInv, InteractiveIsSound, ConfirmedIsSettled, KnownStays, Captured
<1>13. InteractiveSuccessWasCaptured'
  <2> SUFFICES ASSUME NEW b \in Attempts, by'[b] = "INTERACTIVE"
               PROVE  attempt'[b] = "SUCCEEDED" /\ \E q \in Payments : Captured(b, q)'
    BY DEF InteractiveSuccessWasCaptured
  <2>1. CASE by[b] = "INTERACTIVE"
    BY <1>5, <2>1 DEF BridgeInv, InteractiveIsSound, InteractiveSuccessWasCaptured, KnownStays
  <2>2. CASE by[b] # "INTERACTIVE"
    <3>1. b = a /\ attempt'[a] = "SUCCEEDED"
      BY <1>6, <2>2
    <3> QED
      BY <1>1, <1>5, <3>1 DEF KnownStays
  <2> QED
    BY <2>1, <2>2
<1> QED
  BY <1>4, <1>9, <1>11, <1>12, <1>13 DEF BridgeInv, InteractiveIsSound

\* The evidence is written for a payment that succeeded, and was captured.
LEMMA ConfirmKeeps ==
  ASSUME BridgeInv, NEW r \in Desks, Confirm(r)
  PROVE  BridgeInv'
<1> DEFINE a == desk[r].attempt
           p == desk[r].payment
<1>1. /\ desk[r] \in Requests /\ a \in Attempts /\ p \in Payments /\ Captured(a, p)
      /\ ~ desk[r].conflict => attempt[a] = "SUCCEEDED"
      /\ binding \in [Attempts -> BindingStates]
      /\ confirmedBy \in [Attempts -> Payments \cup {None}]
      /\ desk \in [Desks -> Requests]
  BY DEF Confirm, BridgeInv, RequestsKnow, InteractiveIsSound, BridgeTypeOK
<1>2. UNCHANGED <<vars, order, payment>>
  BY DEF Confirm
<1>3. CASE Turn(r, NoRequest) /\ UNCHANGED <<binding, confirmedBy>>
  BY <1>2, <1>3, RequestEndsKeeps
<1>4. CASE Turn(r, [desk[r] EXCEPT !.pc = "broken"]) /\ UNCHANGED <<binding, confirmedBy>>
  <2> DEFINE s == [desk[r] EXCEPT !.pc = "broken"]
  <2>1. s \in Requests /\ s.pc = "broken" /\ s.attempt = a /\ Turn(r, s)
    BY <1>1, <1>4 DEF Requests
  <2> HIDE DEF s
  <2>2. /\ desk' \in [Desks -> Requests]
        /\ \A q \in Desks : desk'[q] = IF q = r THEN s ELSE desk[q]
    BY <1>1, <2>1, TurnTyped
  <2>3. BridgeTypeOK'
    BY <1>2, <1>4, <2>2 DEF BridgeInv, InteractiveIsSound, BridgeTypeOK
  <2>4. Knows(desk[r])'
    BY <1>1, <2>1, <2>2 DEF Knows
  <2> QED
    BY <1>2, <1>4, <2>2, <2>3, <2>4, RequestStepKeeps
<1>5. CASE /\ Stands(r) /\ MayConfirm(binding[a]) /\ Turn(r, NoRequest)
           /\ binding' = [binding EXCEPT ![a] = "CONFIRMED"]
           /\ confirmedBy' = [confirmedBy EXCEPT ![a] = p]
  <2>1. KernelInv' /\ Kept /\ UNCHANGED <<attempt, by>>
    BY <1>2, KernelUnmoved DEF BridgeInv, vars, rows
  <2>2. KnownStays
    BY <1>2, <2>1, SuccessesStay
  <2>3. /\ desk' \in [Desks -> Requests]
        /\ \A q \in Desks : desk'[q] = IF q = r THEN NoRequest ELSE desk[q]
    BY <1>1, <1>5, TurnTyped, NoRequestTyped
  <2>4. /\ attempt[a] = "SUCCEEDED" /\ binding[a] = "AWAITING_PAYMENT" /\ p # None
        /\ \A b \in Attempts : binding'[b] = IF b = a THEN "CONFIRMED" ELSE binding[b]
        /\ \A b \in Attempts : confirmedBy'[b] = IF b = a THEN p ELSE confirmedBy[b]
        /\ binding' \in [Attempts -> BindingStates]
        /\ confirmedBy' \in [Attempts -> Payments \cup {None}]
    BY <1>1, <1>5, BridgeAssumption DEF Stands, MayConfirm, BindingStates
  <2> HIDE DEF a, p
  <2>5. BridgeTypeOK'
    BY <1>2, <2>3, <2>4 DEF BridgeInv, InteractiveIsSound, BridgeTypeOK
  <2>6. Knows(desk[r])'
    BY <2>3 DEF Knows, NoRequest
  <2>7. RequestsKnow'
    BY <2>2, <2>3, <2>6, RequestsGoOn DEF BridgeInv
  <2>8. ConfirmedIsSettled'
    BY <1>1, <1>2, <2>1, <2>4 DEF BridgeInv, InteractiveIsSound, ConfirmedIsSettled, Captured
  <2>9. InteractiveSuccessWasCaptured'
    BY <1>2, <2>1 DEF BridgeInv, InteractiveIsSound, InteractiveSuccessWasCaptured, Captured
  <2> QED
    BY <2>1, <2>5, <2>7, <2>8, <2>9 DEF BridgeInv, InteractiveIsSound
<1> QED
  BY <1>3, <1>4, <1>5 DEF Confirm, Evidence
-----------------------------------------------------------------------------
(***************************************************************************)
(* The theorems.                                                           *)
(***************************************************************************)

LEMMA BridgeStarts == ASSUME Init, BridgeInit PROVE BridgeInv
<1>1. KernelInv
  BY DEF Init, KernelInv, RowsKnown, SessionsStand, SessionStands, MandateLocked, SingleUse, BoundHolds,
         Locking, Idle, Sessions, Open, Holding
<1>2. RequestsKnow /\ ConfirmedIsSettled /\ InteractiveSuccessWasCaptured
  BY DEF Init, BridgeInit, NoRequest, RequestsKnow, ConfirmedIsSettled, InteractiveSuccessWasCaptured
<1>3. BridgeTypeOK
  BY NoRequestTyped DEF BridgeInit, BridgeTypeOK, BindingStates, PaymentStates
<1> QED
  BY <1>1, <1>2, <1>3 DEF BridgeInv, InteractiveIsSound

LEMMA BridgeNextKeeps == ASSUME BridgeInv, [BridgeNext]_allvars PROVE BridgeInv'
<1>1. CASE [Next]_vars /\ UNCHANGED bridge
  BY <1>1, KernelStepKeeps
<1>2. ASSUME NEW r \in Desks, DeskStep(r) \/ RequestEnds(r) PROVE BridgeInv'
  <2>1. CASE FetchNothing(r) \/ RequestEnds(r)
    BY <2>1, RequestEndsKeeps DEF FetchNothing, RequestEnds
  <2> QED
    BY <1>2, <2>1, CheckEligibleKeeps, ReserveBindingKeeps, ObtainOrderKeeps, BindOrderKeeps,
       BeginVerifyKeeps, FetchPaymentKeeps, ApplyObservationKeeps, ConfirmKeeps DEF DeskStep
<1> QED
  BY <1>1, <1>2, CustomerPaysKeeps DEF BridgeNext, BridgeNextWithoutCrash, Next, allvars

\* What prepare, verify and reconcile of razorpay_checkout.py rely on between their
\* transactions is kept by every one of them and by every session of the kernel beside them.
THEOREM BridgeInvariant == BridgeSpec => []BridgeInv
<1>1. Init /\ BridgeInit => BridgeInv
  BY BridgeStarts
<1>2. BridgeInv /\ [BridgeNext]_allvars => BridgeInv'
  BY BridgeNextKeeps
<1> QED
  BY <1>1, <1>2, PTL DEF BridgeSpec

\* A confirmed binding names a captured payment of a purchase that succeeded, and an
\* interactive success is backed by a capture, although record_interactive_execution
\* and the confirmation after it are two transactions with the kernel in between.
THEOREM InteractiveSound == BridgeSpec => []InteractiveIsSound
<1>1. BridgeInv => InteractiveIsSound
  BY DEF BridgeInv
<1> QED
  BY <1>1, BridgeInvariant, PTL

\* A mandate has one open or successful payment although a second path, which knows
\* nothing of the sessions of the kernel, dispatches and settles attempts.
THEOREM BridgeBuysOnce == BridgeSpec => []SingleUse
<1>1. BridgeInv => SingleUse
  BY DEF BridgeInv, KernelInv
<1> QED
  BY <1>1, BridgeInvariant, PTL

\* What reconciliation, a dispatch, an operator or a callback resolved stays resolved
\* the way it was, and a provider that was called is never called again, with the
\* bridge settling payments beside the kernel.
THEOREM BridgeOverForGood == BridgeSpec => OverIsForever
<1>1. BridgeInv /\ [BridgeNext]_allvars => [ResolvedStays /\ HoldsStay /\ SentOnce /\ PaidStays]_vars
  BY BridgeKeepsKernel DEF Kept
<1> QED
  BY <1>1, BridgeInvariant, PTL DEF BridgeSpec, OverIsForever
=============================================================================
