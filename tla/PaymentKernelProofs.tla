------------------------- MODULE PaymentKernelProofs -------------------------
(***************************************************************************)
(* Proofs about the payment kernel for every set of mandates, checkouts,   *)
(* payment identities and sessions, and about the sweep over unresolved    *)
(* payments that uses it.                                                  *)
(***************************************************************************)
EXTENDS ReconciliationSweep, PaymentSchema, SumFacts

LEMMA InitPaymentInv == Init => PaymentInv
<1> SUFFICES ASSUME Init PROVE PaymentInv
  OBVIOUS
<1>1. TypeOK
  <2>1. RowsTyped
    BY ShopAssumption DEF Init, RowsTyped, Open, Terminal, Holding, Slots
  <2>2. ProviderTyped
    BY DEF Init, ProviderTyped, Terminal, Answers
  <2> QED
    BY <2>1, <2>2, ClockAssumption DEF Init, TypeOK, Idle, Sessions
<1>2. SessionKnows /\ MandateLocked
  BY DEF Init, SessionKnows, MandateLocked, Idle, Locking
<1>3. CallKnows /\ OutcomeHasEvidence /\ ConflictIsARevival
  BY DEF Init, CallKnows, OutcomeHasEvidence, ConflictIsARevival, Terminal
<1>4. SingleUse
  BY DEF Init, SingleUse, Open
<1> QED
  BY <1>1, <1>2, <1>3, <1>4 DEF PaymentInv

-----------------------------------------------------------------------------
(***************************************************************************)
(* Sessions.                                                               *)
(***************************************************************************)

\* A session can be put in the middle of any operation.
LEMMA BecomeTyped ==
  ASSUME session \in [Workers -> Sessions], NEW w \in Workers, NEW s \in Sessions, Become(w, s)
  PROVE  session' \in [Workers -> Sessions]
  BY DEF Become

LEMMA IdleTyped == Idle \in Sessions
  BY DEF Idle, Sessions

\* What holds of the rows and of the provider survives a step of a session that
\* writes neither.
LEMMA SessionStepFrame ==
  ASSUME PaymentInv, UNCHANGED <<rows, provider, now>>, session' \in [Workers -> Sessions]
  PROVE  TypeOK' /\ CallKnows' /\ SingleUse' /\ OutcomeHasEvidence' /\ ConflictIsARevival'
<1>1. TypeOK'
  BY DEF PaymentInv, TypeOK, RowsTyped, ProviderTyped, rows, provider
<1>2. CallKnows' /\ SingleUse' /\ OutcomeHasEvidence' /\ ConflictIsARevival'
  BY DEF PaymentInv, CallKnows, SingleUse, OutcomeHasEvidence, ConflictIsARevival, rows, provider
<1> QED
  BY <1>1, <1>2

\* A session that ends knows nothing and holds no lock.
LEMMA SessionEndKeeps ==
  ASSUME PaymentInv, NEW w \in Workers, Become(w, Idle),
         UNCHANGED <<attempt, call, ledger>>
  PROVE  SessionKnows' /\ MandateLocked' /\ session' \in [Workers -> Sessions]
<1>1. session' \in [Workers -> Sessions]
  BY BecomeTyped, IdleTyped DEF PaymentInv, TypeOK
<1>2. SessionKnows'
  BY DEF PaymentInv, TypeOK, SessionKnows, Become, Idle, Locking
<1>3. MandateLocked'
  BY DEF PaymentInv, TypeOK, MandateLocked, Become, Idle, Locking
<1> QED
  BY <1>1, <1>2, <1>3

-----------------------------------------------------------------------------
(***************************************************************************)
(* Preparation and admission.                                              *)
(***************************************************************************)

LEMMA BeginPrepareKeeps ==
  ASSUME PaymentInv, NEW w \in Workers, NEW c \in Checkouts, BeginPrepare(w, c)
  PROVE  PaymentInv'
<1> DEFINE s == [Idle EXCEPT !.pc = "preparing", !.checkout = c, !.at = now]
<1>1. s \in Sessions
  <2>1. now \in Nat
    BY DEF PaymentInv, TypeOK
  <2> QED
    BY <2>1 DEF Idle, Sessions
<1>2. session' \in [Workers -> Sessions]
  BY <1>1, BecomeTyped DEF PaymentInv, TypeOK, BeginPrepare
<1>3. SessionKnows'
  BY DEF PaymentInv, TypeOK, SessionKnows, BeginPrepare, Become, Idle, rows, provider, Locking
<1>4. MandateLocked'
  BY DEF PaymentInv, TypeOK, MandateLocked, MandateFree, BeginPrepare, Become, Idle, Locking
<1> QED
  BY <1>2, <1>3, <1>4, SessionStepFrame DEF BeginPrepare, PaymentInv

LEMMA FinishPrepareKeeps ==
  ASSUME PaymentInv, NEW w \in Workers, FinishPrepare(w)
  PROVE  PaymentInv'
<1>1. SessionKnows' /\ MandateLocked' /\ session' \in [Workers -> Sessions]
  BY SessionEndKeeps DEF FinishPrepare, provider
<1>2. RowsTyped'
  <2>1. hold' \in [Checkouts -> [Slots -> Holding \cup {"NONE", "RELEASED", "CONSUMED"}]]
    BY DEF PaymentInv, TypeOK, RowsTyped, FinishPrepare, Reserve, Holding
  <2> QED
    BY <2>1 DEF PaymentInv, TypeOK, RowsTyped, FinishPrepare
<1>3. TypeOK'
  BY <1>1, <1>2 DEF PaymentInv, TypeOK, ProviderTyped, FinishPrepare, provider
<1>4. CallKnows' /\ SingleUse' /\ OutcomeHasEvidence' /\ ConflictIsARevival'
  BY DEF PaymentInv, CallKnows, SingleUse, OutcomeHasEvidence, ConflictIsARevival, FinishPrepare, provider
<1> QED
  BY <1>1, <1>3, <1>4 DEF PaymentInv

LEMMA BeginAdmitKeeps ==
  ASSUME PaymentInv, NEW w \in Workers, NEW a \in Attempts, BeginAdmit(w, a)
  PROVE  PaymentInv'
<1> DEFINE s == [Idle EXCEPT !.pc = "admitting", !.checkout = CheckoutFor[a],
                             !.attempt = a, !.at = now]
<1>1. s \in Sessions
  <2>1. now \in Nat /\ CheckoutFor[a] \in Checkouts
    BY ShopAssumption, ClockAssumption DEF PaymentInv, TypeOK
  <2> QED
    BY <2>1 DEF Idle, Sessions
<1>2. session' \in [Workers -> Sessions]
  BY <1>1, BecomeTyped DEF PaymentInv, TypeOK, BeginAdmit
<1>3. SessionKnows'
  BY ShopAssumption
  DEF PaymentInv, TypeOK, SessionKnows, BeginAdmit, Become, Idle, rows, provider, Locking
<1>4. MandateLocked'
  BY DEF PaymentInv, TypeOK, MandateLocked, MandateFree, BeginAdmit, Become, Idle, Locking
<1> QED
  BY <1>2, <1>3, <1>4, SessionStepFrame DEF BeginAdmit, PaymentInv

LEMMA ReadHoldKeeps ==
  ASSUME PaymentInv, NEW w \in Workers, ReadHold(w)
  PROVE  PaymentInv'
<1>1. CASE Become(w, Idle)
  BY <1>1, SessionEndKeeps, SessionStepFrame DEF ReadHold, PaymentInv, rows, provider
<1>2. ASSUME NEW t \in HeldRows(session[w].checkout),
             Become(w, [session[w] EXCEPT !.pc = "deciding", !.slot = t,
                                          !.seen = hold[session[w].checkout][t]])
      PROVE  PaymentInv'
  <2> DEFINE s == [session[w] EXCEPT !.pc = "deciding", !.slot = t,
                                     !.seen = hold[session[w].checkout][t]]
  <2>0. session[w] \in Sessions /\ session[w].pc = "admitting"
    BY DEF PaymentInv, TypeOK, ReadHold
  <2>1. t \in Nat /\ t \in Slots /\ hold[session[w].checkout][t] \in Holding
    BY DEF HeldRows, Slots
  <2>2. s \in Sessions
    BY <2>0, <2>1 DEF Sessions
  <2>3. session' \in [Workers -> Sessions]
    BY <1>2, <2>2, BecomeTyped DEF PaymentInv, TypeOK
  <2>4. SessionKnows'
    BY <1>2, <2>0, <2>1 DEF PaymentInv, TypeOK, SessionKnows, ReadHold, Become, Sessions, Locking, rows, provider
  <2>5. MandateLocked'
    BY <1>2, <2>0 DEF PaymentInv, TypeOK, MandateLocked, Become, Sessions, Locking
  <2> QED
    BY <2>3, <2>4, <2>5, SessionStepFrame DEF ReadHold, PaymentInv
<1> QED
  BY <1>1, <1>2 DEF ReadHold

\* The attempt Decide writes is the only live one of its mandate.
LEMMA DecideKeeps ==
  ASSUME PaymentInv, NEW w \in Workers, Decide(w)
  PROVE  PaymentInv'
<1> DEFINE c == session[w].checkout
           a == session[w].attempt
           s == session[w].slot
           refused == AlreadySettled(c) \/ Claimed(MandateFor[c])
<1>0. /\ session[w].pc = "deciding"
      /\ a \in Attempts /\ c \in Checkouts /\ s \in Slots
      /\ CheckoutFor[a] = c
      /\ attempt[a] = "NONE" /\ by[a] = "NONE" /\ call[a] = "NONE" /\ bound[a] = 0
  BY DEF PaymentInv, TypeOK, RowsTyped, SessionKnows, CallKnows, Decide, Locking, Terminal
<1>1. CASE refused
  <2>1. UNCHANGED <<attempt, bound, hold>>
    BY <1>1 DEF Decide
  <2>2. UNCHANGED <<rows, provider, now>> /\ Become(w, Idle)
    BY <2>1 DEF Decide, rows, provider
  <2> QED
    BY <2>2, SessionEndKeeps, SessionStepFrame DEF PaymentInv, rows, provider
<1>2. CASE ~ refused
  <2>1. /\ attempt' = [attempt EXCEPT ![a] = "ADMITTED"]
        /\ bound' = [bound EXCEPT ![a] = s]
        /\ UNCHANGED <<mandate, checkout, stock, by, conflicted, provider, now>>
    BY <1>2 DEF Decide
  <2>2. hold' \in [Checkouts -> [Slots -> Holding \cup {"NONE", "RELEASED", "CONSUMED"}]]
    BY <1>0 DEF PaymentInv, TypeOK, RowsTyped, Decide, CommitToPayment, Holding
  <2>3. RowsTyped'
    BY <1>0, <2>1, <2>2 DEF PaymentInv, TypeOK, RowsTyped, Open, Terminal, Slots
  <2>4. session' \in [Workers -> Sessions]
    BY BecomeTyped, IdleTyped DEF PaymentInv, TypeOK, Decide
  <2>5. TypeOK'
    BY <2>1, <2>3, <2>4 DEF PaymentInv, TypeOK, ProviderTyped, provider
  <2>6. \A u \in Workers : u # w /\ Locking(u) =>
             MandateFor[session[u].checkout] # MandateFor[c]
    BY <1>0 DEF PaymentInv, MandateLocked, Locking
  <2>7. SessionKnows'
    <3> SUFFICES ASSUME NEW u \in Workers, u # w
                 PROVE  LET t == session[u] IN
                        /\ Locking(u) => t.checkout \in Checkouts
                        /\ t.pc \in {"admitting", "deciding"} =>
                             /\ t.attempt \in Attempts
                             /\ CheckoutFor[t.attempt] = t.checkout
                             /\ attempt'[t.attempt] = "NONE"
                        /\ t.pc = "deciding" => t.slot \in Slots
                        /\ t.pc \in {"asking", "answered"} =>
                             /\ t.attempt \in Attempts
                             /\ attempt'[t.attempt] \in Dispatched \cup Terminal
                        /\ t.pc = "answered" =>
                             /\ t.answer # "NONE"
                             /\ t.answer \in Terminal => ledger[t.attempt] = t.answer
                             /\ t.answer = "NEVER_EXECUTED" =>
                                  /\ ledger[t.attempt] = "NONE"
                                  /\ call[t.attempt] \notin {"SENT", "ORPHANED"}
      BY <2>1 DEF PaymentInv, TypeOK, Decide, Become, Idle, SessionKnows, Locking, provider
    <3>1. session[u].pc \in {"admitting", "deciding", "asking", "answered"} => session[u].attempt # a
      BY <1>0, <2>6 DEF PaymentInv, SessionKnows, Locking, Dispatched, Terminal
    <3> QED
      BY <1>0, <2>1, <3>1 DEF PaymentInv, TypeOK, RowsTyped, SessionKnows
  <2>8. MandateLocked'
    BY DEF PaymentInv, TypeOK, MandateLocked, Decide, Become, Idle, Locking
  <2>9. CallKnows'
    BY <1>0, <2>1 DEF PaymentInv, TypeOK, RowsTyped, CallKnows, provider
  <2>10. SingleUse'
    <3>1. \A b \in Attempts : MandateOf(b) = MandateOf(a) =>
              attempt[b] \notin Open \cup {"SUCCEEDED"}
      BY <1>0, <1>2 DEF AlreadySettled, Claimed, MandateOf
    <3> QED
      BY <1>0, <2>1, <3>1 DEF PaymentInv, TypeOK, RowsTyped, SingleUse, MandateOf
  <2>11. OutcomeHasEvidence' /\ ConflictIsARevival'
    BY <1>0, <2>1 DEF PaymentInv, TypeOK, RowsTyped, OutcomeHasEvidence, ConflictIsARevival, provider
  <2> QED
    BY <2>5, <2>7, <2>8, <2>9, <2>10, <2>11 DEF PaymentInv
<1> QED
  BY <1>1, <1>2

-----------------------------------------------------------------------------
(***************************************************************************)
(* Dispatch and the provider.                                              *)
(***************************************************************************)

LEMMA DispatchKeeps ==
  ASSUME PaymentInv, NEW a \in Attempts, Dispatch(a)
  PROVE  PaymentInv'
<1>0. attempt[a] = "ADMITTED" /\ call[a] = "NONE" /\ ledger[a] = "NONE"
  BY DEF PaymentInv, CallKnows, Dispatch, Dispatchable
<1>1. RowsTyped'
  BY <1>0 DEF PaymentInv, TypeOK, RowsTyped, Dispatch, Open, Terminal
<1>2. TypeOK'
  BY <1>1 DEF PaymentInv, TypeOK, ProviderTyped, Dispatch
<1>3. SessionKnows'
  BY <1>0 DEF PaymentInv, TypeOK, RowsTyped, ProviderTyped, SessionKnows, Dispatch, Locking, Dispatched, Terminal
<1>4. MandateLocked'
  BY DEF PaymentInv, MandateLocked, Dispatch, Locking
<1>5. CallKnows'
  BY <1>0 DEF PaymentInv, TypeOK, RowsTyped, ProviderTyped, CallKnows, Dispatch, Terminal
<1>6. SingleUse'
  BY <1>0 DEF PaymentInv, TypeOK, RowsTyped, SingleUse, Dispatch, Open
<1>7. OutcomeHasEvidence' /\ ConflictIsARevival'
  BY <1>0 DEF PaymentInv, TypeOK, RowsTyped, ProviderTyped, OutcomeHasEvidence, ConflictIsARevival, Dispatch, Terminal
<1> QED
  BY <1>2, <1>3, <1>4, <1>5, <1>6, <1>7 DEF PaymentInv

LEMMA ProviderExecuteKeeps ==
  ASSUME PaymentInv, NEW a \in Attempts, NEW o \in ProviderOutcomes, ProviderExecute(a, o)
  PROVE  PaymentInv'
<1>0. /\ o.ledger \in {"NONE", "SUCCEEDED", "FAILED"} /\ o.answer \in Answers
      /\ o.answer \in Terminal => o.ledger = o.answer
      /\ ledger[a] = "NONE" \/ o.ledger = ledger[a]
      /\ call[a] \in {"SENT", "ORPHANED"}
      /\ attempt[a] \notin {"NONE", "ADMITTED"}
  BY DEF PaymentInv, CallKnows, ProviderOutcomes, ProviderExecute, Answers, Terminal
<1>1. TypeOK'
  <2>1. ProviderTyped'
    BY <1>0 DEF PaymentInv, TypeOK, ProviderTyped, ProviderExecute, Terminal
  <2> QED
    BY <2>1 DEF PaymentInv, TypeOK, RowsTyped, ProviderExecute, rows
<1>2. SessionKnows'
  BY <1>0 DEF PaymentInv, TypeOK, ProviderTyped, SessionKnows, ProviderExecute, rows, Locking, Terminal
<1>3. MandateLocked' /\ SingleUse'
  BY DEF PaymentInv, MandateLocked, SingleUse, ProviderExecute, Locking, rows
<1>4. CallKnows'
  BY <1>0 DEF PaymentInv, TypeOK, ProviderTyped, CallKnows, ProviderExecute, rows, Answers, Terminal
<1>5. OutcomeHasEvidence'
  BY <1>0 DEF PaymentInv, TypeOK, ProviderTyped, OutcomeHasEvidence, ProviderExecute, rows, Terminal
<1>6. ConflictIsARevival'
  BY <1>0 DEF PaymentInv, TypeOK, ProviderTyped, ConflictIsARevival, ProviderExecute, rows
<1> QED
  BY <1>1, <1>2, <1>3, <1>4, <1>5, <1>6 DEF PaymentInv

LEMMA CallerCrashKeeps ==
  ASSUME PaymentInv, NEW a \in Attempts, CallerCrash(a)
  PROVE  PaymentInv'
<1>1. TypeOK'
  BY DEF PaymentInv, TypeOK, RowsTyped, ProviderTyped, CallerCrash, rows
<1>2. SessionKnows' /\ MandateLocked' /\ SingleUse'
  BY DEF PaymentInv, TypeOK, ProviderTyped, SessionKnows, MandateLocked, SingleUse, CallerCrash, rows, Locking, Answers
<1>3. CallKnows' /\ OutcomeHasEvidence' /\ ConflictIsARevival'
  BY DEF PaymentInv, TypeOK, ProviderTyped, CallKnows, OutcomeHasEvidence, ConflictIsARevival, CallerCrash, rows, Answers, Terminal
<1> QED
  BY <1>1, <1>2, <1>3 DEF PaymentInv

-----------------------------------------------------------------------------
(***************************************************************************)
(* Outcomes.                                                               *)
(***************************************************************************)

\* An outcome only ever moves a dispatched payment on, and a call only ends.
MovesOn == \A b \in Attempts :
    \/ attempt'[b] = attempt[b]
    \/ attempt[b] \in Dispatched /\ attempt'[b] \in Dispatched \cup Terminal
CallsEnd == \A b \in Attempts :
    \/ call'[b] = call[b]
    \/ call[b] # "NONE" /\ call'[b] = "CLOSED"

\* What entitles somebody to record an outcome.
Evidence(a, outcome, source) ==
    \/ /\ outcome = "SUCCEEDED" /\ ledger[a] = "SUCCEEDED"
       /\ source \in {"EXECUTION", "RECONCILIATION"}
    \/ /\ outcome = "FAILED" /\ ledger[a] = "FAILED"
       /\ source \in {"EXECUTION", "RECONCILIATION"}
    \/ /\ outcome = "FAILED" /\ source = "NEVER_EXECUTED"
       /\ ledger[a] = "NONE" /\ call[a] \notin {"SENT", "ORPHANED"}

\* The part of the invariant an outcome is about.
Settled == RowsTyped /\ SingleUse /\ OutcomeHasEvidence /\ ConflictIsARevival

LEMMA SessionsSurvive ==
  ASSUME PaymentInv, MovesOn, CallsEnd, UNCHANGED <<session, ledger>>
  PROVE  SessionKnows' /\ MandateLocked'
<1>1. SessionKnows'
  BY DEF PaymentInv, SessionKnows, MovesOn, CallsEnd, Locking, Dispatched, Terminal
<1>2. MandateLocked'
  BY DEF PaymentInv, MandateLocked, Locking
<1> QED
  BY <1>1, <1>2

LEMMA SessionEnds ==
  ASSUME PaymentInv, NEW w \in Workers, Become(w, Idle), MovesOn, CallsEnd, UNCHANGED ledger
  PROVE  SessionKnows' /\ MandateLocked' /\ session' \in [Workers -> Sessions]
<1>1. session' \in [Workers -> Sessions]
  BY BecomeTyped, IdleTyped DEF PaymentInv, TypeOK
<1>2. SessionKnows'
  BY DEF PaymentInv, TypeOK, SessionKnows, Become, Idle, Locking, MovesOn, CallsEnd, Dispatched, Terminal
<1>3. MandateLocked'
  BY DEF PaymentInv, TypeOK, MandateLocked, Become, Idle, Locking
<1> QED
  BY <1>1, <1>2, <1>3

LEMMA CallsSurvive ==
  ASSUME PaymentInv, MovesOn, CallsEnd, UNCHANGED <<ledger, charges>>
  PROVE  CallKnows'
  BY DEF PaymentInv, CallKnows, MovesOn, CallsEnd, Dispatched, Terminal

LEMMA RecordDefinitiveKeeps ==
  ASSUME PaymentInv, NEW a \in Attempts, NEW outcome \in Terminal, NEW source,
         Evidence(a, outcome, source), CallsEnd, UNCHANGED <<ledger, charges>>,
         RecordDefinitive(a, outcome, source)
  PROVE  Settled' /\ MovesOn
<1>0. /\ source \in {"EXECUTION", "RECONCILIATION", "NEVER_EXECUTED"}
      /\ CheckoutFor[a] \in Checkouts
  BY ShopAssumption DEF Evidence
<1>1. CASE /\ attempt[a] \in Dispatched
           /\ outcome = "SUCCEEDED"
           /\ MarkSucceeded(a, source)
           /\ UNCHANGED <<conflicted, mandate, bound>>
  <2>1. stock' \in [Variants -> Nat]
    <3>1. stock \in [Variants -> Nat] /\ Quantity[CheckoutFor[a]] \in [Variants -> Nat]
      BY <1>0, ShopAssumption DEF PaymentInv, TypeOK, RowsTyped
    <3>2. ConsumeStock(CheckoutFor[a]) \in [Variants -> Nat]
      BY <3>1 DEF ConsumeStock
    <3> QED
      BY <1>1, <3>1, <3>2 DEF MarkSucceeded
  <2>2. hold' \in [Checkouts -> [Slots -> Holding \cup {"NONE", "RELEASED", "CONSUMED"}]]
    BY <1>0, <1>1 DEF PaymentInv, TypeOK, RowsTyped, MarkSucceeded
  <2>3. RowsTyped'
    BY <1>0, <1>1, <2>1, <2>2 DEF PaymentInv, TypeOK, RowsTyped, MarkSucceeded, Dispatched, Open, Terminal
  <2>4. MovesOn
    BY <1>1 DEF PaymentInv, TypeOK, RowsTyped, MarkSucceeded, MovesOn, Terminal
  <2>5. SingleUse'
    BY <1>1 DEF PaymentInv, TypeOK, RowsTyped, MarkSucceeded, SingleUse, Dispatched, Open
  <2>6. OutcomeHasEvidence' /\ ConflictIsARevival'
    BY <1>0, <1>1 DEF PaymentInv, TypeOK, RowsTyped, MarkSucceeded, OutcomeHasEvidence, ConflictIsARevival,
                 Evidence, CallsEnd, Dispatched
  <2> QED
    BY <2>3, <2>4, <2>5, <2>6 DEF Settled
<1>2. CASE /\ attempt[a] \in Dispatched
           /\ outcome = "FAILED"
           /\ MarkFailed(a, source)
           /\ UNCHANGED <<conflicted, mandate, bound>>
  <2>1. hold' \in [Checkouts -> [Slots -> Holding \cup {"NONE", "RELEASED", "CONSUMED"}]]
    BY <1>0, <1>2 DEF PaymentInv, TypeOK, RowsTyped, MarkFailed
  <2>2. RowsTyped'
    BY <1>0, <1>2, <2>1 DEF PaymentInv, TypeOK, RowsTyped, MarkFailed, Dispatched, Open, Terminal
  <2>3. MovesOn
    BY <1>2 DEF PaymentInv, TypeOK, RowsTyped, MarkFailed, MovesOn, Terminal
  <2>4. SingleUse'
    BY <1>2 DEF PaymentInv, TypeOK, RowsTyped, MarkFailed, SingleUse, Open
  <2>5. OutcomeHasEvidence' /\ ConflictIsARevival'
    BY <1>0, <1>2 DEF PaymentInv, TypeOK, RowsTyped, MarkFailed, OutcomeHasEvidence, ConflictIsARevival,
                 Evidence, CallsEnd, Dispatched
  <2> QED
    BY <2>2, <2>3, <2>4, <2>5 DEF Settled
<1>3. CASE /\ attempt[a] \in Terminal \ {outcome}
           /\ conflicted' = [conflicted EXCEPT ![a] = TRUE]
           /\ UNCHANGED <<attempt, by, checkout, hold, stock, mandate, bound>>
  <2>1. RowsTyped' /\ MovesOn /\ SingleUse'
    BY <1>3 DEF PaymentInv, TypeOK, RowsTyped, MovesOn, SingleUse
  <2>2. OutcomeHasEvidence'
    BY <1>3 DEF PaymentInv, OutcomeHasEvidence, CallsEnd
  <2>3. attempt[a] = "FAILED" /\ by[a] = "OPERATOR" /\ charges[a] > 0
    BY <1>3 DEF PaymentInv, TypeOK, RowsTyped, OutcomeHasEvidence, CallKnows, Evidence, Terminal
  <2>4. ConflictIsARevival'
    BY <1>3, <2>3 DEF PaymentInv, TypeOK, RowsTyped, ConflictIsARevival
  <2> QED
    BY <2>1, <2>2, <2>4 DEF Settled
<1>4. CASE UNCHANGED <<attempt, by, checkout, hold, stock, conflicted, mandate, bound>>
  <2>1. RowsTyped' /\ MovesOn /\ SingleUse' /\ ConflictIsARevival'
    BY <1>4 DEF PaymentInv, TypeOK, RowsTyped, MovesOn, SingleUse, ConflictIsARevival
  <2>2. OutcomeHasEvidence'
    BY <1>4 DEF PaymentInv, OutcomeHasEvidence, CallsEnd
  <2> QED
    BY <2>1, <2>2 DEF Settled
<1> QED
  BY <1>1, <1>2, <1>3, <1>4 DEF RecordDefinitive, Terminal

LEMMA RecordUnknownKeeps ==
  ASSUME PaymentInv, NEW a \in Attempts, CallsEnd, UNCHANGED <<ledger, charges>>, RecordUnknown(a)
  PROVE  Settled' /\ MovesOn
<1>1. RowsTyped' /\ MovesOn /\ SingleUse'
  BY DEF PaymentInv, TypeOK, RowsTyped, RecordUnknown, MovesOn, SingleUse, Dispatched, Open, Terminal
<1>2. OutcomeHasEvidence' /\ ConflictIsARevival'
  BY DEF PaymentInv, TypeOK, RowsTyped, RecordUnknown, OutcomeHasEvidence, ConflictIsARevival, CallsEnd
<1> QED
  BY <1>1, <1>2 DEF Settled

LEMMA RecordExecutionKeeps ==
  ASSUME PaymentInv, NEW a \in Attempts, RecordExecution(a)
  PROVE  PaymentInv'
<1>0. /\ call[a] \in Answers
      /\ call' = [call EXCEPT ![a] = "CLOSED"]
      /\ UNCHANGED <<ledger, charges, asked, session, now>>
  BY DEF RecordExecution
<1>1. CallsEnd /\ ProviderTyped'
  BY <1>0 DEF PaymentInv, TypeOK, ProviderTyped, CallsEnd, Answers
<1>2. ASSUME call[a] = "UNKNOWN" PROVE Settled' /\ MovesOn
  <2>1. RecordUnknown(a)
    BY <1>2 DEF RecordExecution, RecordOutcome
  <2> QED
    BY <1>0, <1>1, <2>1, RecordUnknownKeeps
<1>3. ASSUME call[a] \in Terminal PROVE Settled' /\ MovesOn
  <2>1. Evidence(a, call[a], "EXECUTION")
    BY <1>3 DEF PaymentInv, CallKnows, Evidence, Terminal
  <2>2. RecordDefinitive(a, call[a], "EXECUTION")
    BY <1>3 DEF RecordExecution, RecordOutcome, Terminal
  <2> QED
    BY <1>0, <1>1, <1>3, <2>1, <2>2, RecordDefinitiveKeeps
<1>4. Settled' /\ MovesOn
  BY <1>0, <1>2, <1>3 DEF Answers, Terminal
<1>5. SessionKnows' /\ MandateLocked' /\ CallKnows'
  BY <1>0, <1>1, <1>4, SessionsSurvive, CallsSurvive
<1> QED
  BY <1>0, <1>1, <1>4, <1>5 DEF PaymentInv, TypeOK, Settled

-----------------------------------------------------------------------------
(***************************************************************************)
(* Reconciliation.                                                         *)
(***************************************************************************)

LEMMA AskKeeps ==
  ASSUME PaymentInv, NEW w \in Workers, NEW a \in Attempts, Ask(w, a)
  PROVE  PaymentInv'
<1> DEFINE s == [Idle EXCEPT !.pc = "asking", !.attempt = a]
<1>1. s \in Sessions
  BY DEF Idle, Sessions
<1>2. session' \in [Workers -> Sessions]
  BY <1>1, BecomeTyped DEF PaymentInv, TypeOK, Ask
<1>3. SessionKnows'
  BY DEF PaymentInv, TypeOK, SessionKnows, Ask, Reconcilable, Become, Idle, rows, provider, Locking
<1>4. MandateLocked'
  BY DEF PaymentInv, TypeOK, MandateLocked, Ask, Become, Idle, Locking
<1> QED
  BY <1>2, <1>3, <1>4, SessionStepFrame DEF Ask, PaymentInv

LEMMA QueryKeeps ==
  ASSUME PaymentInv, NEW w \in Workers, NEW answer \in Answers \cup {"NEVER_EXECUTED"}, Query(w, answer)
  PROVE  PaymentInv'
<1> DEFINE a == session[w].attempt
           s == [session[w] EXCEPT !.pc = "answered", !.answer = answer]
<1>0. /\ session[w] \in Sessions /\ session[w].pc = "asking"
      /\ a \in Attempts /\ attempt[a] \in Dispatched \cup Terminal
      /\ call[a] # "NONE"
  BY DEF PaymentInv, TypeOK, SessionKnows, CallKnows, Query, Dispatched, Terminal
<1>1. s \in Sessions
  BY <1>0 DEF Sessions
<1>2. session' \in [Workers -> Sessions]
  BY <1>1, BecomeTyped DEF PaymentInv, TypeOK, Query
<1>3. /\ answer # "NONE"
      /\ answer \in Terminal => ledger[a] = answer
      /\ answer = "NEVER_EXECUTED" => ledger[a] = "NONE" /\ call'[a] \notin {"SENT", "ORPHANED"}
  BY <1>0 DEF PaymentInv, TypeOK, ProviderTyped, Query, Answers, Terminal
<1>4. CallsEnd /\ MovesOn
  BY <1>0 DEF PaymentInv, TypeOK, ProviderTyped, Query, CallsEnd, MovesOn, rows
<1>5. SessionKnows'
  BY <1>0, <1>3, <1>4 DEF PaymentInv, TypeOK, SessionKnows, Query, Become, Sessions, Locking, CallsEnd, rows
<1>6. MandateLocked'
  BY <1>0 DEF PaymentInv, TypeOK, MandateLocked, Query, Become, Sessions, Locking
<1>7. CallKnows'
  BY <1>4, CallsSurvive DEF Query
<1>8. TypeOK'
  BY <1>0, <1>2 DEF PaymentInv, TypeOK, RowsTyped, ProviderTyped, Query, rows
<1>9. SingleUse' /\ ConflictIsARevival'
  BY DEF PaymentInv, SingleUse, ConflictIsARevival, Query, rows
<1>10. OutcomeHasEvidence'
  BY <1>4 DEF PaymentInv, OutcomeHasEvidence, Query, CallsEnd, rows
<1> QED
  BY <1>5, <1>6, <1>7, <1>8, <1>9, <1>10 DEF PaymentInv

LEMMA RecordReconciliationKeeps ==
  ASSUME PaymentInv, NEW w \in Workers, RecordReconciliation(w)
  PROVE  PaymentInv'
<1> DEFINE a == session[w].attempt
           answer == session[w].answer
<1>0. /\ session[w] \in Sessions
      /\ a \in Attempts
      /\ answer \in Answers \cup {"NEVER_EXECUTED"}
      /\ answer \in Terminal => ledger[a] = answer
      /\ answer = "NEVER_EXECUTED" => ledger[a] = "NONE" /\ call[a] \notin {"SENT", "ORPHANED"}
      /\ Become(w, Idle)
      /\ UNCHANGED <<call, ledger, charges, asked, now>>
  BY DEF PaymentInv, TypeOK, SessionKnows, RecordReconciliation, Sessions, provider
<1>1. CallsEnd
  BY <1>0 DEF CallsEnd
<1>2. ASSUME answer = "UNKNOWN" PROVE Settled' /\ MovesOn
  <2>1. RecordUnknown(a)
    BY <1>2 DEF RecordReconciliation, FromQuery, RecordOutcome
  <2> QED
    BY <1>0, <1>1, <2>1, RecordUnknownKeeps
<1>3. ASSUME answer \in Terminal PROVE Settled' /\ MovesOn
  <2>1. Evidence(a, answer, "RECONCILIATION")
    BY <1>0, <1>3 DEF Evidence, Terminal
  <2>2. RecordDefinitive(a, answer, "RECONCILIATION")
    BY <1>3 DEF RecordReconciliation, FromQuery, RecordOutcome, Terminal
  <2> QED
    BY <1>0, <1>1, <1>3, <2>1, <2>2, RecordDefinitiveKeeps
<1>4. ASSUME answer = "NEVER_EXECUTED" PROVE Settled' /\ MovesOn
  <2>1. Evidence(a, "FAILED", "NEVER_EXECUTED")
    BY <1>0, <1>4 DEF Evidence
  <2>2. RecordDefinitive(a, "FAILED", "NEVER_EXECUTED")
    BY <1>4 DEF RecordReconciliation, FromQuery, RecordOutcome
  <2>3. "FAILED" \in Terminal
    BY DEF Terminal
  <2> QED
    BY <1>0, <1>1, <2>1, <2>2, <2>3, RecordDefinitiveKeeps
<1>5. Settled' /\ MovesOn
  BY <1>0, <1>2, <1>3, <1>4 DEF Answers, Terminal
<1>6. SessionKnows' /\ MandateLocked' /\ session' \in [Workers -> Sessions] /\ CallKnows'
  BY <1>0, <1>1, <1>5, SessionEnds, CallsSurvive
<1> QED
  BY <1>0, <1>5, <1>6 DEF PaymentInv, TypeOK, ProviderTyped, Settled

-----------------------------------------------------------------------------
(***************************************************************************)
(* Operators, buyers, crashes and the clock.                               *)
(***************************************************************************)

LEMMA AbandonKeeps ==
  ASSUME PaymentInv, NEW a \in Attempts, Abandon(a)
  PROVE  PaymentInv'
<1>0. /\ attempt[a] = "UNKNOWN" /\ CheckoutFor[a] \in Checkouts
      /\ MarkFailed(a, "OPERATOR")
      /\ UNCHANGED <<mandate, bound, conflicted, provider, session, now>>
      /\ UNCHANGED <<call, ledger, charges, asked>>
  BY ShopAssumption DEF Abandon, provider
<1>1. MovesOn /\ CallsEnd
  BY <1>0 DEF PaymentInv, TypeOK, RowsTyped, MarkFailed, MovesOn, CallsEnd, Dispatched, Terminal
<1>2. hold' \in [Checkouts -> [Slots -> Holding \cup {"NONE", "RELEASED", "CONSUMED"}]]
  BY <1>0 DEF PaymentInv, TypeOK, RowsTyped, MarkFailed
<1>3. TypeOK'
  <2>1. RowsTyped'
    BY <1>0, <1>2 DEF PaymentInv, TypeOK, RowsTyped, MarkFailed, Open, Terminal
  <2> QED
    BY <1>0, <2>1 DEF PaymentInv, TypeOK, ProviderTyped, provider
<1>4. SessionKnows' /\ MandateLocked' /\ CallKnows'
  BY <1>0, <1>1, SessionsSurvive, CallsSurvive
<1>5. SingleUse'
  BY <1>0 DEF PaymentInv, TypeOK, RowsTyped, MarkFailed, SingleUse, Open
<1>6. OutcomeHasEvidence' /\ ConflictIsARevival'
  BY <1>0 DEF PaymentInv, TypeOK, RowsTyped, MarkFailed, OutcomeHasEvidence, ConflictIsARevival
<1> QED
  BY <1>3, <1>4, <1>5, <1>6 DEF PaymentInv

\* Cancelling, revoking and the clock touch no payment, no call and no session.
LEMMA BystandersKeep ==
  ASSUME PaymentInv, RowsTyped', now' \in 0 .. MaxNow,
         UNCHANGED <<attempt, by, bound, conflicted, call, ledger, charges, asked, session>>
  PROVE  PaymentInv'
<1>1. TypeOK'
  BY DEF PaymentInv, TypeOK, ProviderTyped
<1>2. SessionKnows' /\ MandateLocked'
  BY DEF PaymentInv, SessionKnows, MandateLocked, Locking
<1>3. CallKnows' /\ SingleUse' /\ OutcomeHasEvidence' /\ ConflictIsARevival'
  BY DEF PaymentInv, CallKnows, SingleUse, OutcomeHasEvidence, ConflictIsARevival
<1> QED
  BY <1>1, <1>2, <1>3 DEF PaymentInv

LEMMA CancelKeeps ==
  ASSUME PaymentInv, NEW c \in Checkouts, Cancel(c)
  PROVE  PaymentInv'
<1>1. hold' \in [Checkouts -> [Slots -> Holding \cup {"NONE", "RELEASED", "CONSUMED"}]]
  BY DEF PaymentInv, TypeOK, RowsTyped, Cancel
<1>2. RowsTyped'
  BY <1>1 DEF PaymentInv, TypeOK, RowsTyped, Cancel
<1> QED
  BY <1>2, BystandersKeep DEF PaymentInv, TypeOK, Cancel, provider

LEMMA RevokeKeeps ==
  ASSUME PaymentInv, NEW m \in Mandates, Revoke(m)
  PROVE  PaymentInv'
<1>1. RowsTyped'
  BY DEF PaymentInv, TypeOK, RowsTyped, Revoke
<1> QED
  BY <1>1, BystandersKeep DEF PaymentInv, TypeOK, Revoke, provider

LEMMA TickKeeps == ASSUME PaymentInv, Tick PROVE PaymentInv'
<1>1. RowsTyped' /\ now' \in 0 .. MaxNow
  BY ClockAssumption DEF PaymentInv, TypeOK, RowsTyped, Tick, rows
<1> QED
  BY <1>1, BystandersKeep DEF Tick, rows, provider

LEMMA WorkerCrashKeeps ==
  ASSUME PaymentInv, NEW w \in Workers, WorkerCrash(w)
  PROVE  PaymentInv'
  BY SessionEndKeeps, SessionStepFrame DEF WorkerCrash, PaymentInv, rows, provider

LEMMA StutterKeeps == ASSUME PaymentInv, UNCHANGED vars PROVE PaymentInv'
<1>1. RowsTyped' /\ now' \in 0 .. MaxNow
  BY DEF PaymentInv, TypeOK, RowsTyped, vars, rows
<1> QED
  BY <1>1, BystandersKeep DEF vars, rows, provider

-----------------------------------------------------------------------------
(***************************************************************************)
(* The theorems.                                                           *)
(***************************************************************************)

LEMMA NextKeeps == PaymentInv /\ [Next]_vars => PaymentInv'
<1> SUFFICES ASSUME PaymentInv, [Next]_vars PROVE PaymentInv'
  OBVIOUS
<1>1. ASSUME NEW w \in Workers, WorkerStep(w) PROVE PaymentInv'
  BY <1>1, BeginPrepareKeeps, FinishPrepareKeeps, BeginAdmitKeeps, AskKeeps, ReadHoldKeeps,
     DecideKeeps, QueryKeeps, RecordReconciliationKeeps DEF WorkerStep
<1>2. ASSUME NEW a \in Attempts, PaymentStep(a) PROVE PaymentInv'
  BY <1>2, DispatchKeeps, ProviderExecuteKeeps, CallerCrashKeeps, RecordExecutionKeeps,
     AbandonKeeps DEF PaymentStep
<1>3. CASE UNCHANGED vars
  BY <1>3, StutterKeeps
<1> QED
  BY <1>1, <1>2, <1>3, CancelKeeps, RevokeKeeps, TickKeeps, WorkerCrashKeeps
  DEF Next, NextWithoutCrash

\* The inductive invariant holds in every state of every execution.
THEOREM PaymentInvariance == Spec => []PaymentInv
<1>1. Init => PaymentInv
  BY InitPaymentInv
<1>2. PaymentInv /\ [Next]_vars => PaymentInv'
  BY NextKeeps
<1> QED
  BY <1>1, <1>2, PTL DEF Spec

\* Every row, call and session keeps its type: payments/models.py and the
\* statuses its constraints allow.
THEOREM TypeCorrectness == Spec => []TypeOK
<1>1. PaymentInv => TypeOK
  BY DEF PaymentInv
<1> QED
  BY <1>1, PaymentInvariance, PTL

\* admit_payment never lets a mandate have two payments that are unresolved or
\* succeeded, however many requests, sweeps, operators and crashes there are.
THEOREM SinglePurchase == Spec => []SingleUse
<1>1. PaymentInv => SingleUse
  BY DEF PaymentInv
<1> QED
  BY <1>1, PaymentInvariance, PTL

\* _record_success, _record_failure and _from_query never record an outcome the
\* provider does not stand behind.
THEOREM Evidenced == Spec => []OutcomeHasEvidence
<1>1. PaymentInv => OutcomeHasEvidence
  BY DEF PaymentInv
<1> QED
  BY <1>1, PaymentInvariance, PTL

\* A provider is made to move money at most once per payment, and twice per
\* mandate only if abandon_payment_attempt gave one of the two payments up.
THEOREM NoSecondCharge == Spec => []ChargedTwiceOnlyAfterGivingUp
<1>1. PaymentInv => ChargedTwiceOnlyAfterGivingUp
  <2> SUFFICES ASSUME PaymentInv PROVE ChargedTwiceOnlyAfterGivingUp
    OBVIOUS
  <2>1. \A a \in Attempts : charges[a] <= 1 /\ (charges[a] > 0 => ledger[a] = "SUCCEEDED")
    BY DEF PaymentInv, CallKnows
  <2>2. ASSUME NEW a \in Attempts, charges[a] > 0, by[a] # "OPERATOR"
        PROVE  attempt[a] \in Open \cup {"SUCCEEDED"}
    BY <2>1, <2>2 DEF PaymentInv, TypeOK, RowsTyped, CallKnows, OutcomeHasEvidence, Open, Terminal
  <2> QED
    BY <2>1, <2>2 DEF PaymentInv, SingleUse, ChargedTwiceOnlyAfterGivingUp
<1> QED
  BY <1>1, PaymentInvariance, PTL

\* _record_conflict is only ever reached by a payment an operator gave up and the
\* provider had charged.
THEOREM OnlyRevivalsConflict == Spec => []ConflictIsARevival
<1>1. PaymentInv => ConflictIsARevival
  BY DEF PaymentInv
<1> QED
  BY <1>1, PaymentInvariance, PTL

-----------------------------------------------------------------------------
(***************************************************************************)
(* What is sold: sales are whole, holds follow payments, the shelf is      *)
(* never oversold, what is over stays over, and every step is a step of    *)
(* OnePurchase.                                                            *)
(***************************************************************************)

Rows == Checkouts \X Slots

LEMMA RowsAreFinite == \A S \in SUBSET Rows : IsFiniteSet(S)
<1>1. IsFiniteSet(Slots)
  BY BoundAssumption, FS_Interval DEF Slots
<1>2. IsFiniteSet(Rows)
  BY <1>1, FiniteAssumption, FS_Product DEF Rows
<1> QED
  BY <1>2, FS_Subset

LEMMA UnitsTyped ==
  ASSUME NEW v \in Variants
  PROVE  /\ Units(v) \in [Rows -> Nat]
         /\ \A c \in Checkouts, s \in Slots : Units(v)[<<c, s>>] = Quantity[c][v]
  BY ShopAssumption DEF Units, Rows

LEMMA PledgedRowsAreRows == PaymentInv => PledgedRows \in SUBSET Rows
  BY DEF PaymentInv, SessionKnows, PledgedRows, EffectiveRows, DecidingRows, Deciding, Locking, Rows

\* What only the rows of one side count for.
LEMMA UnitsAtMost ==
  ASSUME NEW v \in Variants, NEW S \in SUBSET Rows, NEW T \in SUBSET Rows,
         \A row \in T \ S : Quantity[row[1]][v] = 0
  PROVE  SumFunctionOnSet(Units(v), T) <= SumFunctionOnSet(Units(v), S)
<1>1. \A row \in T \ S : Units(v)[row] = 0
  BY DEF Units, Rows
<1> QED
  BY <1>1, UnitsTyped, RowsAreFinite, SumAtMost

LEMMA UnitsSumTyped ==
  ASSUME NEW v \in Variants, NEW S \in SUBSET Rows
  PROVE  SumFunctionOnSet(Units(v), S) \in Nat
  BY UnitsTyped, RowsAreFinite, SumType

LEMMA UnitsAdd ==
  ASSUME NEW v \in Variants, NEW S \in SUBSET Rows,
         NEW c \in Checkouts, NEW s \in Slots, <<c, s>> \notin S
  PROVE  SumFunctionOnSet(Units(v), S \cup {<<c, s>>}) =
           Quantity[c][v] + SumFunctionOnSet(Units(v), S)
<1> DEFINE q == Units(v)
           row == <<c, s>>
<1>1. row \in Rows /\ IsFiniteSet(S) /\ q \in [Rows -> Nat] /\ q[row] = Quantity[c][v]
  BY UnitsTyped, RowsAreFinite DEF Rows
<1> HIDE DEF q, row
<1>2. row \notin S
  BY DEF row
<1>3. SumFunctionOnSet(q, S \cup {row}) = q[row] + SumFunctionOnSet(q, S)
  BY <1>1, <1>2, SumAdd
<1> QED
  BY <1>1, <1>3 DEF q, row

LEMMA UnitsRemove ==
  ASSUME NEW v \in Variants, NEW S \in SUBSET Rows,
         NEW c \in Checkouts, NEW s \in Slots, <<c, s>> \in S
  PROVE  SumFunctionOnSet(Units(v), S) =
           Quantity[c][v] + SumFunctionOnSet(Units(v), S \ {<<c, s>>})
<1> DEFINE q == Units(v)
           row == <<c, s>>
<1>1. row \in S /\ IsFiniteSet(S) /\ q \in [Rows -> Nat] /\ q[row] = Quantity[c][v]
  BY UnitsTyped, RowsAreFinite
<1> HIDE DEF q, row
<1>2. SumFunctionOnSet(q, S) = q[row] + SumFunctionOnSet(q, S \ {row})
  BY <1>1, SumRemove
<1> QED
  BY <1>1, <1>2 DEF q, row

USE NoneAssumption, ShopAssumption, FiniteAssumption, ClockAssumption, BoundAssumption

-----------------------------------------------------------------------------
(***************************************************************************)
(* Steps that move no row but those of one attempt.                        *)
(***************************************************************************)

\* No payment is opened, resolved or bound.
SameStanding == \A a \in Attempts :
    /\ attempt'[a] \in Open <=> attempt[a] \in Open
    /\ attempt'[a] = "SUCCEEDED" <=> attempt[a] = "SUCCEEDED"

\* No session begins to decide.
NobodyDecides == \A w \in Workers :
    \/ session'[w] = session[w]
    \/ session'[w].pc # "deciding" /\ session'[w].at <= now

\* No sale is made or undone.
LEMMA SameSales ==
  ASSUME SaleIsWhole, UNCHANGED stock,
         \A c \in Checkouts : checkout'[c] = "PAID" <=> checkout[c] = "PAID",
         \A c \in Checkouts, s \in Slots : hold'[c][s] = "CONSUMED" <=> hold[c][s] = "CONSUMED",
         \A a \in Attempts : /\ attempt'[a] = "SUCCEEDED" <=> attempt[a] = "SUCCEEDED"
                             /\ attempt[a] = "SUCCEEDED" => bound'[a] = bound[a]
  PROVE  SaleIsWhole'
<1>1. PaidIsBought'
  BY DEF SaleIsWhole, PaidIsBought
<1>2. ConsumedIsBought'
  <2> SUFFICES ASSUME NEW c \in Checkouts, NEW s \in Slots
               PROVE  hold'[c][s] = "CONSUMED" <=>
                        \E a \in Attempts : CheckoutFor[a] = c /\ bound'[a] = s /\ attempt'[a] = "SUCCEEDED"
    BY DEF ConsumedIsBought
  <2>1. hold[c][s] = "CONSUMED" <=>
          \E a \in Attempts : CheckoutFor[a] = c /\ bound[a] = s /\ attempt[a] = "SUCCEEDED"
    BY DEF SaleIsWhole, ConsumedIsBought
  <2>2. \A a \in Attempts : bound'[a] = s /\ attempt'[a] = "SUCCEEDED" <=>
                            bound[a] = s /\ attempt[a] = "SUCCEEDED"
    OBVIOUS
  <2> QED
    BY <2>1, <2>2
<1>3. ConsumedRows' = ConsumedRows
  BY DEF ConsumedRows
<1>4. ShelfIsWhole'
  BY <1>3 DEF SaleIsWhole, ShelfIsWhole
<1> QED
  BY <1>1, <1>2, <1>4 DEF SaleIsWhole

LEMMA RowsStand ==
  ASSUME SaleInv, UNCHANGED <<checkout, hold, stock, bound>>, SameStanding
  PROVE  BoundHolds' /\ SaleIsWhole' /\ (AbandonIsQuiet => HoldsFollowPayments')
<1>1. BoundHolds'
  BY DEF SaleInv, BoundHolds
<1>2. SaleIsWhole'
  BY SameSales DEF SaleInv, SameStanding
<1>3. ASSUME AbandonIsQuiet PROVE HoldsFollowPayments'
  BY <1>3 DEF SaleInv, HoldsFollowPayments, OpenPaymentIsPayable, CommittedHoldIsSpokenFor, HeldRows,
              SameStanding
<1> QED
  BY <1>1, <1>2, <1>3

\* The shelf covers what was pledged, and less.
LEMMA PledgesShrink ==
  ASSUME PaymentInv, SaleInv, UNCHANGED stock, PledgedRows' \in SUBSET PledgedRows
  PROVE  StockCoversPledges'
<1> SUFFICES ASSUME NEW v \in Variants
             PROVE  SumFunctionOnSet(Units(v), PledgedRows') <= stock[v]
  BY DEF StockCoversPledges
<1>1. PledgedRows \in SUBSET Rows
  BY PledgedRowsAreRows
<1>2. SumFunctionOnSet(Units(v), PledgedRows') <= SumFunctionOnSet(Units(v), PledgedRows)
  BY <1>1, UnitsAtMost
<1>3. SumFunctionOnSet(Units(v), PledgedRows) <= stock[v]
  BY DEF SaleInv, StockCoversPledges
<1>4. /\ SumFunctionOnSet(Units(v), PledgedRows') \in Nat
      /\ SumFunctionOnSet(Units(v), PledgedRows) \in Nat
      /\ stock[v] \in Nat
  BY <1>1, UnitsSumTyped DEF PaymentInv, TypeOK, RowsTyped
<1> QED
  BY <1>2, <1>3, <1>4

\* What a payment was promised is on the shelf.
LEMMA UnitsAreThere ==
  ASSUME PaymentInv, SaleInv, NEW c \in Checkouts, NEW s \in Slots, hold[c][s] = "COMMITTED"
  PROVE  \A v \in Variants : Quantity[c][v] <= stock[v]
<1> SUFFICES ASSUME NEW v \in Variants PROVE Quantity[c][v] <= stock[v]
  OBVIOUS
<1>1. <<c, s>> \in PledgedRows /\ PledgedRows \in SUBSET Rows
  BY PledgedRowsAreRows DEF PledgedRows, EffectiveRows, Effective
<1>2. Quantity[c][v] \in Nat /\ stock[v] \in Nat
  BY DEF PaymentInv, TypeOK, RowsTyped
<1>3. SumFunctionOnSet(Units(v), PledgedRows) <= stock[v]
  BY DEF SaleInv, StockCoversPledges
<1>4. SumFunctionOnSet(Units(v), PledgedRows \ {<<c, s>>}) \in Nat
  BY <1>1, UnitsSumTyped
<1>5. SumFunctionOnSet(Units(v), PledgedRows) =
        Quantity[c][v] + SumFunctionOnSet(Units(v), PledgedRows \ {<<c, s>>})
  <2> HIDE ShopAssumption, ClockAssumption, BoundAssumption
  <2> QED
    BY <1>1, UnitsRemove
<1> QED
  BY <1>2, <1>3, <1>4, <1>5

\* Time only makes holds lapse.
LEMMA LapseOnly ==
  ASSUME NEW t \in Nat, NEW u \in Nat, t <= u
  PROVE  EffectiveRows(u) \subseteq EffectiveRows(t)
<1>1. \A c \in Checkouts : HoldUntil(c) \in Nat
  BY DEF HoldUntil
<1> QED
  BY <1>1 DEF EffectiveRows, Effective

\* What u is deciding upon does not move under it; only an abandonment may reach
\* a hold that was read as committed already.
Undisturbed(u) ==
    LET x == session[u] IN
    /\ mandate'[MandateFor[x.checkout]] = mandate[MandateFor[x.checkout]]
    /\ checkout'[x.checkout] = checkout[x.checkout]
    /\ \/ hold'[x.checkout][x.slot] = hold[x.checkout][x.slot]
       \/ /\ ~ AbandonIsQuiet
          /\ x.seen # "ACTIVE"
          /\ hold'[x.checkout][x.slot] \notin {"NONE", "ACTIVE"}

LEMMA DecidersStand ==
  ASSUME PaymentInv, PaymentInv', SaleInv, now <= now', NobodyDecides,
         \A u \in Workers : session[u].pc = "deciding" /\ session'[u] = session[u] => Undisturbed(u)
  PROVE  DecidersKnow'
<1> SUFFICES ASSUME NEW u \in Workers
             PROVE  LET x == session'[u]
                        held == hold'[x.checkout][x.slot] IN
                    /\ x.at <= now'
                    /\ x.pc = "deciding" =>
                         /\ mandate'[MandateFor[x.checkout]] = "ACTIVE"
                         /\ checkout'[x.checkout] = "OPEN"
                         /\ x.seen \in Holding
                         /\ x.seen = "ACTIVE" => held = "ACTIVE"
                         /\ x.seen = "COMMITTED" => held \notin {"NONE", "ACTIVE"}
                         /\ x.seen = "COMMITTED" /\ AbandonIsQuiet => held = "COMMITTED"
  BY DEF DecidersKnow
<1>0. session'[u].at <= now => session'[u].at <= now'
  <2>1. now \in Nat /\ now' \in Nat /\ session'[u].at \in Nat
    BY DEF PaymentInv, TypeOK, Sessions
  <2> QED
    BY <2>1
<1>1. CASE session'[u].pc # "deciding" /\ session'[u].at <= now
  BY <1>0, <1>1
<1>2. CASE session'[u] = session[u]
  <2>1. CASE session[u].pc # "deciding"
    BY <1>0, <1>2, <2>1 DEF SaleInv, DecidersKnow
  <2>2. CASE session[u].pc = "deciding"
    <3>1. Undisturbed(u)
      BY <1>2, <2>2
    <3> QED
      BY <1>0, <1>2, <2>2, <3>1 DEF SaleInv, DecidersKnow, Undisturbed
  <2> QED
    BY <2>1, <2>2
<1> QED
  BY <1>1, <1>2 DEF NobodyDecides

\* Steps that leave the rows alone: preparing, admitting and asking begin, calls
\* come and go, sessions end, time passes.
LEMMA QuietStepKeeps ==
  ASSUME PaymentInv, PaymentInv', SaleInv,
         UNCHANGED <<mandate, checkout, hold, stock, bound>>, SameStanding, NobodyDecides,
         now <= now'
  PROVE  SaleInv'
<1>0. now \in Nat /\ now' \in Nat
  BY DEF PaymentInv, TypeOK
<1>1. DecidersKnow'
  BY <1>0, DecidersStand DEF Undisturbed
<1>2. EffectiveRows(now') \subseteq EffectiveRows(now)
  BY <1>0, LapseOnly
<1>3. EffectiveRows(now)' = EffectiveRows(now')
  BY DEF EffectiveRows, Effective
<1>4. DecidingRows' \subseteq DecidingRows
  BY DEF DecidingRows, Deciding, NobodyDecides
<1>5. StockCoversPledges'
  BY <1>2, <1>3, <1>4, PledgesShrink DEF PledgedRows
<1> QED
  BY <1>1, <1>5, RowsStand DEF SaleInv

-----------------------------------------------------------------------------
(***************************************************************************)
(* The hold an admission reads.                                            *)
(***************************************************************************)

LEMMA ReadHoldSells ==
  ASSUME PaymentInv, PaymentInv', SaleInv, NEW w \in Workers, ReadHold(w)
  PROVE  SaleInv'
<1> DEFINE c == session[w].checkout
<1>0. /\ UNCHANGED <<mandate, checkout, hold, stock, attempt, bound, now>>
      /\ now \in Nat
      /\ session[w] \in Sessions /\ session[w].pc = "admitting" /\ session[w].at <= now
      /\ c \in Checkouts
  <2>1. UNCHANGED <<mandate, checkout, hold, stock, attempt, bound, now>> /\ session[w].pc = "admitting"
    BY DEF ReadHold, rows
  <2>2. now \in Nat /\ session[w] \in Sessions /\ session[w].at <= now
    BY DEF PaymentInv, TypeOK, SaleInv, DecidersKnow
  <2> QED
    BY <2>1, <2>2 DEF PaymentInv, SessionKnows, Locking
<1>1. SameStanding
  BY <1>0 DEF SameStanding
<1>2. CASE Become(w, Idle)
  <2>1. NobodyDecides
    BY <1>0, <1>2 DEF NobodyDecides, Become, Idle, PaymentInv, TypeOK
  <2> QED
    BY <1>0, <1>1, <2>1, QuietStepKeeps
<1>3. ASSUME NEW t \in HeldRows(c), Authorized(c, now), Effective(c, t, now),
             Become(w, [session[w] EXCEPT !.pc = "deciding", !.slot = t, !.seen = hold[c][t]])
      PROVE  SaleInv'
  <2>1. /\ \A u \in Workers \ {w} : session'[u] = session[u]
        /\ session'[w].at = session[w].at /\ session'[w].checkout = c
        /\ session'[w].slot = t /\ session'[w].seen = hold[c][t]
    BY <1>0, <1>3 DEF Become, PaymentInv, TypeOK, Sessions
  <2>2. /\ hold[c][t] \in Holding /\ t \in Slots
        /\ mandate[MandateFor[c]] = "ACTIVE" /\ checkout[c] = "OPEN"
    BY <1>3 DEF HeldRows, Authorized, CheckoutAllowed, MandateValid
  <2>3. DecidersKnow'
    BY <1>0, <2>1, <2>2 DEF DecidersKnow, SaleInv, Holding
  <2>4. DecidingRows' \subseteq DecidingRows \cup {<<c, t>>}
    BY <2>1 DEF DecidingRows, Deciding
  <2>5. <<c, t>> \in EffectiveRows(now)
    BY <1>0, <1>3, <2>2 DEF EffectiveRows
  <2>6. EffectiveRows(now)' = EffectiveRows(now)
    BY <1>0 DEF EffectiveRows, Effective
  <2>7. StockCoversPledges'
    BY <1>0, <2>4, <2>5, <2>6, PledgesShrink DEF PledgedRows
  <2> QED
    BY <1>0, <1>1, <2>3, <2>7, RowsStand DEF SaleInv
<1> QED
  BY <1>2, <1>3 DEF ReadHold

-----------------------------------------------------------------------------
(***************************************************************************)
(* Preparation takes units nobody else counts on.                          *)
(***************************************************************************)

LEMMA FinishPrepareSells ==
  ASSUME PaymentInv, PaymentInv', SaleInv, NEW w \in Workers, FinishPrepare(w)
  PROVE  SaleInv'
<1> DEFINE c == session[w].checkout
           at == session[w].at
           t == Min(FreeRows(c))
<1>0. /\ UNCHANGED <<mandate, checkout, stock, attempt, bound, now>>
      /\ now \in Nat /\ at \in Nat /\ at <= now
      /\ session[w].pc = "preparing" /\ c \in Checkouts
      /\ ShelfFree(c)
  BY DEF FinishPrepare, PaymentInv, TypeOK, SessionKnows, Sessions, Locking, SaleInv, DecidersKnow
<1>1. SameStanding /\ NobodyDecides
  BY <1>0 DEF FinishPrepare, SameStanding, NobodyDecides, Become, Idle, PaymentInv, TypeOK
<1>2. CASE UNCHANGED hold
  BY <1>0, <1>1, <1>2, QuietStepKeeps
<1>3. CASE /\ HeldRows(c) = {} /\ FreeRows(c) # {} /\ Available(c, at)
           /\ hold' = [hold EXCEPT ![c][t] = "ACTIVE"]
  <2>1. t \in FreeRows(c)
    <3>1. FreeRows(c) \in SUBSET Nat
      BY DEF FreeRows, Slots
    <3> QED
      BY <1>3, <3>1, SmallestNumber DEF Min
  <2>2. /\ t \in Slots /\ hold[c][t] = "NONE"
        /\ \A d \in Checkouts, s \in Slots :
             hold'[d][s] = IF d = c /\ s = t THEN "ACTIVE" ELSE hold[d][s]
    BY <1>0, <1>3, <2>1 DEF FreeRows, PaymentInv, TypeOK, RowsTyped
  <2>3. DecidersKnow'
    <3>1. \A u \in Workers : session'[u].pc = "deciding" =>
             session'[u] = session[u] /\ session[u].checkout \in Checkouts /\ session[u].slot \in Slots
      BY <1>1 DEF NobodyDecides, PaymentInv, SessionKnows, Locking
    <3>2. \A u \in Workers : session'[u] = session[u] /\ session[u].pc = "deciding" => Undisturbed(u)
      <4> SUFFICES ASSUME NEW u \in Workers, session'[u] = session[u], session[u].pc = "deciding"
                   PROVE  Undisturbed(u)
        OBVIOUS
      <4> DEFINE x == session[u]
      <4>1. x.checkout \in Checkouts /\ x.slot \in Slots
        BY <3>1
      <4>2. hold[x.checkout][x.slot] # "NONE"
        BY DEF SaleInv, DecidersKnow, Holding
      <4> QED
        BY <1>0, <2>2, <4>1, <4>2 DEF Undisturbed
    <3> QED
      BY <1>0, <1>1, <3>2, DecidersStand
  <2>4. BoundHolds'
    <3>1. \A a \in Attempts : bound[a] \in Slots \cup {0} /\ CheckoutFor[a] \in Checkouts
      BY DEF PaymentInv, TypeOK, RowsTyped
    <3> QED
      BY <1>0, <2>2, <3>1 DEF SaleInv, BoundHolds
  <2>5. SaleIsWhole'
    <3>1. \A d \in Checkouts, s \in Slots : hold'[d][s] = "CONSUMED" <=> hold[d][s] = "CONSUMED"
      BY <2>2
    <3> QED
      BY <1>0, <3>1, SameSales DEF SaleInv
  <2>6. StockCoversPledges'
    <3> SUFFICES ASSUME NEW v \in Variants
                 PROVE  SumFunctionOnSet(Units(v), PledgedRows') <= stock[v]
      BY <1>0 DEF StockCoversPledges
    <3>1. EffectiveRows(now)' \subseteq EffectiveRows(now) \cup {<<c, t>>}
      BY <1>0, <2>2 DEF EffectiveRows, Effective
    <3>2. DecidingRows' \subseteq DecidingRows
      BY <1>1 DEF DecidingRows, Deciding, NobodyDecides
    <3>3. PledgedRows' \subseteq PledgedRows \cup {<<c, t>>}
      BY <1>0, <3>1, <3>2 DEF PledgedRows
    <3>4. /\ PledgedRows \in SUBSET Rows /\ PledgedRows' \in SUBSET Rows
          /\ <<c, t>> \in Rows /\ EffectiveRows(at) \in SUBSET Rows
      BY <1>0, <2>2, <3>3, PledgedRowsAreRows DEF Rows, EffectiveRows
    <3>5. stock[v] \in Nat /\ Quantity[c][v] \in Nat
      BY <1>0 DEF PaymentInv, TypeOK, RowsTyped
    <3>6. CASE Quantity[c][v] = 0
      <4>0. \A row \in PledgedRows' \ PledgedRows : Quantity[row[1]][v] = 0
        BY <3>3, <3>6
      <4>1. SumFunctionOnSet(Units(v), PledgedRows') <= SumFunctionOnSet(Units(v), PledgedRows)
        BY <3>4, <4>0, UnitsAtMost
      <4>2. SumFunctionOnSet(Units(v), PledgedRows) <= stock[v]
        BY DEF SaleInv, StockCoversPledges
      <4>3. SumFunctionOnSet(Units(v), PledgedRows') \in Nat /\ SumFunctionOnSet(Units(v), PledgedRows) \in Nat
        BY <3>4, UnitsSumTyped
      <4> QED
        BY <3>5, <4>1, <4>2, <4>3
    <3>7. CASE Quantity[c][v] > 0
      <4>1. \A row \in DecidingRows : Quantity[row[1]][v] = 0
        <5> SUFFICES ASSUME NEW u \in Workers, session[u].pc = "deciding"
                     PROVE  Quantity[session[u].checkout][v] = 0
          BY DEF DecidingRows, Deciding
        <5>1. session[u].checkout \in Checkouts
          BY DEF PaymentInv, SessionKnows, Locking
        <5>2. ~ Shares(c, session[u].checkout)
          BY <1>0 DEF ShelfFree
        <5> QED
          BY <3>7, <5>1, <5>2 DEF Shares
      <4>2. EffectiveRows(now) \subseteq EffectiveRows(at)
        BY <1>0, LapseOnly
      <4>3. <<c, t>> \notin EffectiveRows(at)
        BY <2>2 DEF EffectiveRows, Effective
      <4> DEFINE S == EffectiveRows(at) \cup {<<c, t>>}
      <4>4. S \in SUBSET Rows
        BY <3>4
      <4>5. \A row \in PledgedRows' \ S : Quantity[row[1]][v] = 0
        BY <3>3, <4>1, <4>2 DEF PledgedRows
      <4>6. SumFunctionOnSet(Units(v), PledgedRows') <= SumFunctionOnSet(Units(v), S)
        BY <3>4, <4>4, <4>5, UnitsAtMost
      <4>7. SumFunctionOnSet(Units(v), S) =
              Quantity[c][v] + SumFunctionOnSet(Units(v), EffectiveRows(at))
        BY <1>0, <2>2, <3>4, <4>3, UnitsAdd
      <4>8. Quantity[c][v] + SumFunctionOnSet(Units(v), EffectiveRows(at)) <= stock[v]
        BY <1>3 DEF Available, Reserved
      <4> HIDE DEF S
      <4>9. /\ SumFunctionOnSet(Units(v), PledgedRows') \in Nat
            /\ SumFunctionOnSet(Units(v), EffectiveRows(at)) \in Nat
        BY <3>4, UnitsSumTyped
      <4> QED
        BY <3>5, <4>6, <4>7, <4>8, <4>9
    <3> QED
      BY <3>5, <3>6, <3>7
  <2>7. ASSUME AbandonIsQuiet PROVE HoldsFollowPayments'
    <3>1. OpenPaymentIsPayable'
      BY <1>0, <2>2, <2>7 DEF SaleInv, HoldsFollowPayments, OpenPaymentIsPayable, PaymentInv, TypeOK, RowsTyped, Open
    <3>2. CommittedHoldIsSpokenFor'
      BY <1>0, <1>3, <2>2, <2>7 DEF SaleInv, HoldsFollowPayments, CommittedHoldIsSpokenFor, HeldRows, Holding
    <3> QED
      BY <3>1, <3>2 DEF HoldsFollowPayments
  <2> QED
    BY <2>3, <2>4, <2>5, <2>6, <2>7 DEF SaleInv
<1> QED
  BY <1>2, <1>3 DEF FinishPrepare, Reserve

-----------------------------------------------------------------------------
(***************************************************************************)
(* Admission binds the hold it read.                                       *)
(***************************************************************************)

LEMMA DecideSells ==
  ASSUME PaymentInv, PaymentInv', SaleInv, NEW w \in Workers, Decide(w)
  PROVE  SaleInv'
<1> DEFINE c == session[w].checkout
           a == session[w].attempt
           s == session[w].slot
           refused == AlreadySettled(c) \/ Claimed(MandateFor[c])
<1>0. /\ session[w].pc = "deciding"
      /\ a \in Attempts /\ c \in Checkouts /\ s \in Slots
      /\ CheckoutFor[a] = c
      /\ attempt[a] = "NONE" /\ bound[a] = 0
      /\ now \in Nat
      /\ UNCHANGED <<mandate, checkout, stock, now>>
  BY DEF PaymentInv, TypeOK, RowsTyped, SessionKnows, Decide, Locking
<1>1. NobodyDecides
  BY <1>0 DEF Decide, NobodyDecides, Become, Idle, PaymentInv, TypeOK
<1>2. CASE refused
  <2>1. UNCHANGED <<attempt, bound, hold>>
    BY <1>2 DEF Decide
  <2>2. SameStanding
    BY <2>1 DEF SameStanding
  <2> QED
    BY <1>0, <1>1, <2>1, <2>2, QuietStepKeeps
<1>3. CASE ~ refused
  <2>1. /\ \A b \in Attempts : attempt'[b] = IF b = a THEN "ADMITTED" ELSE attempt[b]
        /\ \A b \in Attempts : bound'[b] = IF b = a THEN s ELSE bound[b]
        /\ hold' = CommitToPayment(c, s, session[w].seen)
    BY <1>0, <1>3 DEF Decide, PaymentInv, TypeOK, RowsTyped
  <2>2. /\ session[w].seen \in Holding
        /\ checkout[c] = "OPEN"
        /\ session[w].seen = "ACTIVE" => hold[c][s] = "ACTIVE"
        /\ session[w].seen = "COMMITTED" => hold[c][s] \notin {"NONE", "ACTIVE"}
        /\ session[w].seen = "COMMITTED" /\ AbandonIsQuiet => hold[c][s] = "COMMITTED"
    BY <1>0 DEF SaleInv, DecidersKnow
  <2>3. \A d \in Checkouts, t \in Slots :
           hold'[d][t] = IF d = c /\ t = s /\ hold[c][s] = "ACTIVE" THEN "COMMITTED" ELSE hold[d][t]
    BY <1>0, <2>1, <2>2 DEF CommitToPayment, Holding, PaymentInv, TypeOK, RowsTyped
  <2>4. \A b \in Attempts : MandateOf(b) = MandateFor[c] => attempt[b] \notin Open \cup {"SUCCEEDED"}
    BY <1>3 DEF AlreadySettled, Claimed
  <2>5. \A b \in Attempts : bound[b] \in Slots \cup {0} /\ CheckoutFor[b] \in Checkouts
    BY DEF PaymentInv, TypeOK, RowsTyped
  <2>6. DecidersKnow'
    <3>1. \A u \in Workers : session'[u] = session[u] /\ session[u].pc = "deciding" => Undisturbed(u)
      <4> SUFFICES ASSUME NEW u \in Workers, session'[u] = session[u], session[u].pc = "deciding"
                   PROVE  Undisturbed(u)
        OBVIOUS
      <4>1. session[u].checkout \in Checkouts /\ session[u].slot \in Slots
        BY DEF PaymentInv, SessionKnows, Locking
      <4>2. u # w
        BY <1>0 DEF Decide, Become, Idle, PaymentInv, TypeOK
      <4>3. session[u].checkout # c
        BY <1>0, <4>2 DEF PaymentInv, MandateLocked, Locking
      <4> QED
        BY <1>0, <2>3, <4>1, <4>3 DEF Undisturbed
    <3> QED
      BY <1>0, <1>1, <3>1, DecidersStand
  <2>7. BoundHolds'
    BY <1>0, <2>1, <2>2, <2>3, <2>5 DEF SaleInv, BoundHolds, Holding
  <2>8. SaleIsWhole'
    <3>1. \A b \in Attempts : /\ attempt'[b] = "SUCCEEDED" <=> attempt[b] = "SUCCEEDED"
                              /\ attempt[b] = "SUCCEEDED" => bound'[b] = bound[b]
      BY <1>0, <2>1
    <3>2. \A d \in Checkouts, t \in Slots : hold'[d][t] = "CONSUMED" <=> hold[d][t] = "CONSUMED"
      BY <2>3
    <3> QED
      BY <1>0, <3>1, <3>2, SameSales DEF SaleInv
  <2>9. StockCoversPledges'
    <3>1. EffectiveRows(now)' \subseteq PledgedRows
      <4>1. \A d \in Checkouts, t \in Slots :
              <<d, t>> \in EffectiveRows(now)' =>
                \/ <<d, t>> \in EffectiveRows(now)
                \/ d = c /\ t = s /\ hold[c][s] = "ACTIVE"
        BY <1>0, <2>3 DEF EffectiveRows, Effective
      <4>2. hold[c][s] = "ACTIVE" => <<c, s>> \in DecidingRows
        BY <1>0, <2>2 DEF DecidingRows, Deciding, Holding
      <4>3. \A row \in EffectiveRows(now)' : \E d \in Checkouts, t \in Slots : row = <<d, t>>
        BY DEF EffectiveRows
      <4> SUFFICES ASSUME NEW row \in EffectiveRows(now)' PROVE row \in PledgedRows
        OBVIOUS
      <4>4. PICK d \in Checkouts, t \in Slots : row = <<d, t>>
        BY <4>3
      <4> QED
        BY <4>1, <4>2, <4>4 DEF PledgedRows
    <3>2. DecidingRows' \subseteq DecidingRows
      BY <1>1 DEF DecidingRows, Deciding, NobodyDecides
    <3> QED
      BY <1>0, <3>1, <3>2, PledgesShrink DEF PledgedRows
  <2>10. ASSUME AbandonIsQuiet PROVE HoldsFollowPayments'
    <3>1. OpenPaymentIsPayable'
      BY <1>0, <2>1, <2>2, <2>3, <2>5, <2>10
      DEF SaleInv, HoldsFollowPayments, OpenPaymentIsPayable, Holding, PaymentInv, TypeOK, RowsTyped, Open
    <3>2. ASSUME NEW d \in Checkouts, NEW t \in Slots, hold'[d][t] = "COMMITTED"
          PROVE  \E b \in Attempts : CheckoutFor[b] = d /\ bound'[b] = t /\ attempt'[b] \in Open
      <4>1. CASE d = c /\ t = s /\ hold[c][s] = "ACTIVE"
        BY <1>0, <2>1, <4>1 DEF Open
      <4>2. CASE hold[d][t] = "COMMITTED"
        <5>1. PICK b \in Attempts : CheckoutFor[b] = d /\ bound[b] = t /\ attempt[b] \in Open
          BY <2>10, <4>2 DEF SaleInv, HoldsFollowPayments, CommittedHoldIsSpokenFor
        <5>2. b # a
          BY <1>0, <5>1 DEF Open
        <5> QED
          BY <2>1, <5>1, <5>2
      <4> QED
        BY <2>3, <3>2, <4>1, <4>2
    <3>3. \A d \in Checkouts : HeldRows(d)' = HeldRows(d)
      BY <2>3 DEF HeldRows, Holding
    <3> QED
      BY <2>10, <3>1, <3>2, <3>3 DEF SaleInv, HoldsFollowPayments, CommittedHoldIsSpokenFor
  <2> QED
    BY <2>6, <2>7, <2>8, <2>9, <2>10 DEF SaleInv
<1> QED
  BY <1>2, <1>3

-----------------------------------------------------------------------------
(***************************************************************************)
(* Outcomes.                                                               *)
(***************************************************************************)

\* The hold of a payment whose success can be recorded is still committed: only
\* another success could have consumed it, and there is none.
LEMMA BoundSlot ==
  ASSUME PaymentInv, SaleInv, NEW a \in Attempts, attempt[a] \in Dispatched
  PROVE  /\ CheckoutFor[a] \in Checkouts /\ bound[a] \in Slots
         /\ hold[CheckoutFor[a]][bound[a]] \notin {"NONE", "ACTIVE", "CONSUMED"}
<1>1. CheckoutFor[a] \in Checkouts /\ bound[a] \in Slots /\ bound[a] # 0
  BY DEF PaymentInv, TypeOK, RowsTyped, Dispatched, Slots
<1>2. hold[CheckoutFor[a]][bound[a]] # "CONSUMED"
  <2> SUFFICES ASSUME hold[CheckoutFor[a]][bound[a]] = "CONSUMED" PROVE FALSE
    OBVIOUS
  <2>1. PICK b \in Attempts : CheckoutFor[b] = CheckoutFor[a] /\ attempt[b] = "SUCCEEDED"
    BY <1>1 DEF SaleInv, SaleIsWhole, ConsumedIsBought
  <2>2. a = b
    BY <2>1 DEF PaymentInv, SingleUse, MandateOf, Dispatched, Open
  <2> QED
    BY <2>1, <2>2 DEF Dispatched
<1> QED
  BY <1>1, <1>2 DEF SaleInv, BoundHolds

LEMMA MarkSucceededSells ==
  ASSUME PaymentInv, PaymentInv', SaleInv, NobodyDecides, UNCHANGED <<mandate, bound, now>>,
         NEW a \in Attempts, NEW source,
         attempt[a] \in Dispatched, OutcomeLocksFree(a, "SUCCEEDED"), Recordable(a, "SUCCEEDED"),
         MarkSucceeded(a, source)
  PROVE  SaleInv'
<1> DEFINE c == CheckoutFor[a]
           s == bound[a]
           row == <<c, s>>
<1>0. /\ c \in Checkouts /\ s \in Slots /\ row \in Rows
      /\ hold[c][s] = "COMMITTED"
      /\ now \in Nat
      /\ CheckoutFree(c)
  BY BoundSlot DEF Recordable, OutcomeLocksFree, PaymentInv, TypeOK, Rows
<1>1. /\ \A b \in Attempts : attempt'[b] = IF b = a THEN "SUCCEEDED" ELSE attempt[b]
      /\ \A d \in Checkouts : checkout'[d] = IF d = c THEN "PAID" ELSE checkout[d]
      /\ \A d \in Checkouts, t \in Slots :
           hold'[d][t] = IF d = c /\ t = s THEN "CONSUMED" ELSE hold[d][t]
      /\ stock' = ConsumeStock(c)
  BY <1>0 DEF MarkSucceeded, PaymentInv, TypeOK, RowsTyped
<1>2. \A b \in Attempts : b # a /\ attempt[b] \in Open \cup {"SUCCEEDED"} => CheckoutFor[b] # c
  BY DEF PaymentInv, SingleUse, MandateOf, Dispatched, Open
<1>3. PledgedRows \in SUBSET Rows /\ row \in PledgedRows /\ PledgedRows' \subseteq PledgedRows \ {row}
  <2>1. EffectiveRows(now)' \subseteq EffectiveRows(now) \ {row}
    BY <1>0, <1>1 DEF EffectiveRows, Effective
  <2>2. DecidingRows' \subseteq DecidingRows
    BY DEF DecidingRows, Deciding, NobodyDecides
  <2>3. row \notin DecidingRows
    BY <1>0 DEF DecidingRows, Deciding, CheckoutFree, Locking
  <2>4. row \in EffectiveRows(now)
    BY <1>0 DEF EffectiveRows, Effective
  <2> QED
    BY <2>1, <2>2, <2>3, <2>4, PledgedRowsAreRows DEF PledgedRows
<1>4. ASSUME NEW v \in Variants
      PROVE  /\ Quantity[c][v] + SumFunctionOnSet(Units(v), PledgedRows \ {row}) <= stock[v]
             /\ Quantity[c][v] \in Nat /\ stock[v] \in Nat
             /\ SumFunctionOnSet(Units(v), PledgedRows \ {row}) \in Nat
             /\ stock'[v] = stock[v] - Quantity[c][v]
  <2>1. Quantity[c][v] \in Nat /\ stock[v] \in Nat
    BY <1>0 DEF PaymentInv, TypeOK, RowsTyped
  <2>2. SumFunctionOnSet(Units(v), PledgedRows) =
          Quantity[c][v] + SumFunctionOnSet(Units(v), PledgedRows \ {row})
    <3> HIDE ShopAssumption, ClockAssumption, BoundAssumption DEF c, s
    <3>1. PledgedRows \in SUBSET Rows /\ <<c, s>> \in PledgedRows /\ c \in Checkouts /\ s \in Slots
      BY <1>0, <1>3
    <3> QED
      BY <3>1, UnitsRemove
  <2>3. SumFunctionOnSet(Units(v), PledgedRows) <= stock[v]
    BY DEF SaleInv, StockCoversPledges
  <2>4. SumFunctionOnSet(Units(v), PledgedRows \ {row}) \in Nat
    BY <1>3, UnitsSumTyped
  <2>5. Quantity[c][v] <= stock[v]
    BY <2>1, <2>2, <2>3, <2>4
  <2> QED
    BY <1>1, <2>1, <2>2, <2>3, <2>4, <2>5 DEF ConsumeStock
<1>5. DecidersKnow'
  <2>1. \A u \in Workers : session'[u] = session[u] /\ session[u].pc = "deciding" => Undisturbed(u)
    <3> SUFFICES ASSUME NEW u \in Workers, session[u].pc = "deciding" PROVE Undisturbed(u)
      OBVIOUS
    <3>1. session[u].checkout \in Checkouts /\ session[u].slot \in Slots /\ session[u].checkout # c
      BY <1>0 DEF PaymentInv, SessionKnows, Locking, CheckoutFree
    <3> QED
      BY <1>1, <3>1 DEF Undisturbed
  <2> QED
    BY <1>0, <2>1, DecidersStand
<1>6. BoundHolds'
  <2>1. \A b \in Attempts : bound[b] \in Slots \cup {0} /\ CheckoutFor[b] \in Checkouts
    BY DEF PaymentInv, TypeOK, RowsTyped
  <2> QED
    BY <1>1, <2>1 DEF SaleInv, BoundHolds
<1>7. SaleIsWhole'
  <2>0. \A b \in Attempts : CheckoutFor[b] # c => attempt'[b] = attempt[b]
    BY <1>1
  <2>1. PaidIsBought'
    <3> SUFFICES ASSUME NEW d \in Checkouts
                 PROVE  checkout'[d] = "PAID" <=>
                          \E b \in Attempts : CheckoutFor[b] = d /\ attempt'[b] = "SUCCEEDED"
      BY DEF PaidIsBought
    <3>1. CASE d = c
      BY <1>0, <1>1, <3>1
    <3>2. CASE d # c
      <4>1. checkout[d] = "PAID" <=> \E b \in Attempts : CheckoutFor[b] = d /\ attempt[b] = "SUCCEEDED"
        BY DEF SaleInv, SaleIsWhole, PaidIsBought
      <4>2. \A b \in Attempts : CheckoutFor[b] = d => attempt'[b] = attempt[b]
        BY <2>0, <3>2
      <4> QED
        BY <1>1, <3>2, <4>1, <4>2
    <3> QED
      BY <3>1, <3>2
  <2>2. ConsumedIsBought'
    <3> SUFFICES ASSUME NEW d \in Checkouts, NEW t \in Slots
                 PROVE  hold'[d][t] = "CONSUMED" <=>
                          \E b \in Attempts : CheckoutFor[b] = d /\ bound[b] = t /\ attempt'[b] = "SUCCEEDED"
      BY DEF ConsumedIsBought
    <3>1. hold[d][t] = "CONSUMED" <=>
            \E b \in Attempts : CheckoutFor[b] = d /\ bound[b] = t /\ attempt[b] = "SUCCEEDED"
      BY DEF SaleInv, SaleIsWhole, ConsumedIsBought
    <3>2. CASE d = c /\ t = s
      BY <1>0, <1>1, <3>2
    <3>3. CASE d # c
      BY <1>1, <2>0, <3>1, <3>3
    <3>4. CASE d = c /\ t # s
      <4>1. hold'[d][t] = hold[d][t]
        BY <1>1, <3>4
      <4>2. \A b \in Attempts : bound[b] = t => attempt'[b] = attempt[b]
        BY <1>1, <3>4
      <4> QED
        BY <3>1, <4>1, <4>2
    <3> QED
      BY <3>2, <3>3, <3>4
  <2>3. ShelfIsWhole'
    <3> SUFFICES ASSUME NEW v \in Variants
                 PROVE  stock'[v] + SumFunctionOnSet(Units(v), ConsumedRows') = InitialStock[v]
      BY DEF ShelfIsWhole
    <3>1. ConsumedRows \in SUBSET Rows /\ row \notin ConsumedRows
      BY <1>0 DEF ConsumedRows, Rows
    <3>2. ConsumedRows' = ConsumedRows \cup {row}
      BY <1>0, <1>1 DEF ConsumedRows
    <3>3. SumFunctionOnSet(Units(v), ConsumedRows') =
            Quantity[c][v] + SumFunctionOnSet(Units(v), ConsumedRows)
      BY <1>0, <3>1, <3>2, UnitsAdd
    <3>4. stock[v] + SumFunctionOnSet(Units(v), ConsumedRows) = InitialStock[v]
      BY DEF SaleInv, SaleIsWhole, ShelfIsWhole
    <3>5. SumFunctionOnSet(Units(v), ConsumedRows) \in Nat
      BY <3>1, UnitsSumTyped
    <3> QED
      BY <1>4, <3>3, <3>4, <3>5
  <2> QED
    BY <2>1, <2>2, <2>3 DEF SaleIsWhole
<1>8. StockCoversPledges'
  <2> SUFFICES ASSUME NEW v \in Variants
               PROVE  SumFunctionOnSet(Units(v), PledgedRows') <= stock'[v]
    BY DEF StockCoversPledges
  <2>1. /\ PledgedRows' \in SUBSET (PledgedRows \ {row})
        /\ PledgedRows \ {row} \in SUBSET Rows /\ PledgedRows' \in SUBSET Rows
    BY <1>3
  <2>2. SumFunctionOnSet(Units(v), PledgedRows') <= SumFunctionOnSet(Units(v), PledgedRows \ {row})
    BY <2>1, UnitsAtMost
  <2>3. SumFunctionOnSet(Units(v), PledgedRows') \in Nat
    BY <2>1, UnitsSumTyped
  <2> QED
    BY <1>4, <2>2, <2>3
<1>9. ASSUME AbandonIsQuiet PROVE HoldsFollowPayments'
  <2>1. OpenPaymentIsPayable'
    BY <1>1, <1>2, <1>9
    DEF SaleInv, HoldsFollowPayments, OpenPaymentIsPayable, PaymentInv, TypeOK, RowsTyped, Open
  <2>2. ASSUME NEW d \in Checkouts, NEW t \in Slots, hold'[d][t] = "COMMITTED"
        PROVE  \E b \in Attempts : CheckoutFor[b] = d /\ bound'[b] = t /\ attempt'[b] \in Open
    <3>1. PICK b \in Attempts : CheckoutFor[b] = d /\ bound[b] = t /\ attempt[b] \in Open
      BY <1>1, <1>9, <2>2 DEF SaleInv, HoldsFollowPayments, CommittedHoldIsSpokenFor
    <3>2. b # a
      BY <1>1, <2>2, <3>1
    <3> QED
      BY <1>1, <3>1, <3>2
  <2>3. \A d \in Checkouts : HeldRows(d)' \subseteq HeldRows(d)
    BY <1>1 DEF HeldRows, Holding
  <2> QED
    BY <1>9, <2>1, <2>2, <2>3 DEF SaleInv, HoldsFollowPayments, CommittedHoldIsSpokenFor
<1> QED
  BY <1>5, <1>6, <1>7, <1>8, <1>9 DEF SaleInv

LEMMA MarkFailedSells ==
  ASSUME PaymentInv, PaymentInv', SaleInv, NobodyDecides, UNCHANGED <<mandate, bound, now>>,
         NEW a \in Attempts, NEW source, attempt[a] \in Dispatched,
         AbandonIsQuiet => \A u \in Workers : session[u].pc = "deciding" =>
                             session[u].checkout # CheckoutFor[a],
         MarkFailed(a, source)
  PROVE  SaleInv'
<1> DEFINE c == CheckoutFor[a]
           s == bound[a]
<1>0. /\ c \in Checkouts /\ s \in Slots /\ now \in Nat
      /\ hold[c][s] \notin {"NONE", "ACTIVE", "CONSUMED"}
  BY BoundSlot DEF PaymentInv, TypeOK
<1>1. /\ \A b \in Attempts : attempt'[b] = IF b = a THEN "FAILED" ELSE attempt[b]
      /\ \A d \in Checkouts, t \in Slots :
           hold'[d][t] = IF d = c /\ t = s THEN "RELEASED" ELSE hold[d][t]
      /\ UNCHANGED <<checkout, stock>>
  BY <1>0 DEF MarkFailed, PaymentInv, TypeOK, RowsTyped
<1>2. DecidersKnow'
  <2>1. \A u \in Workers : session'[u] = session[u] /\ session[u].pc = "deciding" => Undisturbed(u)
    <3> SUFFICES ASSUME NEW u \in Workers, session[u].pc = "deciding" PROVE Undisturbed(u)
      OBVIOUS
    <3>1. session[u].checkout \in Checkouts /\ session[u].slot \in Slots
      BY DEF PaymentInv, SessionKnows, Locking
    <3>2. CASE session[u].checkout # c \/ session[u].slot # s
      BY <1>1, <3>1, <3>2 DEF Undisturbed
    <3>3. CASE session[u].checkout = c /\ session[u].slot = s
      <4>1. ~ AbandonIsQuiet /\ session[u].seen # "ACTIVE"
        BY <1>0, <3>3 DEF SaleInv, DecidersKnow
      <4> QED
        BY <1>0, <1>1, <3>3, <4>1 DEF Undisturbed
    <3> QED
      BY <3>2, <3>3
  <2> QED
    BY <1>0, <2>1, DecidersStand
<1>3. BoundHolds'
  <2>1. \A b \in Attempts : bound[b] \in Slots \cup {0} /\ CheckoutFor[b] \in Checkouts
    BY DEF PaymentInv, TypeOK, RowsTyped
  <2> QED
    BY <1>1, <2>1 DEF SaleInv, BoundHolds
<1>4. SaleIsWhole'
  <2>1. \A b \in Attempts : attempt'[b] = "SUCCEEDED" <=> attempt[b] = "SUCCEEDED"
    BY <1>1 DEF Dispatched
  <2>2. \A d \in Checkouts, t \in Slots : hold'[d][t] = "CONSUMED" <=> hold[d][t] = "CONSUMED"
    BY <1>0, <1>1
  <2> QED
    BY <1>1, <2>1, <2>2, SameSales DEF SaleInv
<1>5. StockCoversPledges'
  <2>1. EffectiveRows(now)' \subseteq EffectiveRows(now)
    BY <1>1 DEF EffectiveRows, Effective
  <2>2. DecidingRows' \subseteq DecidingRows
    BY DEF DecidingRows, Deciding, NobodyDecides
  <2> QED
    BY <1>1, <2>1, <2>2, PledgesShrink DEF PledgedRows
<1>6. ASSUME AbandonIsQuiet PROVE HoldsFollowPayments'
  <2>1. \A b \in Attempts : b # a /\ attempt[b] \in Open => CheckoutFor[b] # c
    BY DEF PaymentInv, SingleUse, MandateOf, Dispatched, Open
  <2>2. OpenPaymentIsPayable'
    BY <1>1, <1>6, <2>1
    DEF SaleInv, HoldsFollowPayments, OpenPaymentIsPayable, PaymentInv, TypeOK, RowsTyped, Open
  <2>3. ASSUME NEW d \in Checkouts, NEW t \in Slots, hold'[d][t] = "COMMITTED"
        PROVE  \E b \in Attempts : CheckoutFor[b] = d /\ bound'[b] = t /\ attempt'[b] \in Open
    <3>1. PICK b \in Attempts : CheckoutFor[b] = d /\ bound[b] = t /\ attempt[b] \in Open
      BY <1>1, <1>6, <2>3 DEF SaleInv, HoldsFollowPayments, CommittedHoldIsSpokenFor
    <3>2. b # a
      BY <1>1, <2>3, <3>1
    <3> QED
      BY <1>1, <3>1, <3>2
  <2>4. \A d \in Checkouts : HeldRows(d)' \subseteq HeldRows(d)
    BY <1>1 DEF HeldRows, Holding
  <2> QED
    BY <1>6, <2>2, <2>3, <2>4 DEF SaleInv, HoldsFollowPayments, CommittedHoldIsSpokenFor
<1> QED
  BY <1>2, <1>3, <1>4, <1>5, <1>6 DEF SaleInv

LEMMA RecordDefinitiveSells ==
  ASSUME PaymentInv, PaymentInv', SaleInv, NobodyDecides, UNCHANGED now,
         NEW a \in Attempts, NEW outcome \in Terminal, NEW source,
         RecordDefinitive(a, outcome, source)
  PROVE  SaleInv'
<1>0. now \in Nat /\ UNCHANGED <<mandate, bound>> /\ OutcomeLocksFree(a, outcome)
  BY DEF PaymentInv, TypeOK, RecordDefinitive
<1>1. CASE attempt[a] \in Dispatched /\ outcome = "SUCCEEDED" /\ Recordable(a, outcome) /\ MarkSucceeded(a, source)
  BY <1>0, <1>1, MarkSucceededSells
<1>2. CASE attempt[a] \in Dispatched /\ MarkFailed(a, source)
  <2>1. \A u \in Workers : session[u].pc = "deciding" => session[u].checkout # CheckoutFor[a]
    BY <1>0 DEF OutcomeLocksFree, CheckoutFree, Locking
  <2> QED
    BY <1>0, <1>2, <2>1, MarkFailedSells
<1>3. CASE UNCHANGED <<attempt, checkout, hold, stock>>
  <2>1. SameStanding
    BY <1>3 DEF SameStanding
  <2> QED
    BY <1>0, <1>3, <2>1, QuietStepKeeps
<1> QED
  BY <1>1, <1>2, <1>3 DEF RecordDefinitive, Terminal

LEMMA RecordOutcomeSells ==
  ASSUME PaymentInv, PaymentInv', SaleInv, NobodyDecides, UNCHANGED now,
         NEW a \in Attempts, NEW answer \in Answers, NEW source,
         RecordOutcome(a, answer, source)
  PROVE  SaleInv'
<1>1. CASE answer = "UNKNOWN"
  <2>1. UNCHANGED <<mandate, checkout, hold, stock, bound>> /\ SameStanding
    BY <1>1 DEF RecordOutcome, RecordUnknown, SameStanding, Open, PaymentInv, TypeOK, RowsTyped
  <2>2. now \in Nat
    BY DEF PaymentInv, TypeOK
  <2> QED
    BY <2>1, <2>2, QuietStepKeeps
<1>2. CASE answer # "UNKNOWN"
  <2>1. answer \in Terminal /\ RecordDefinitive(a, answer, source)
    BY <1>2 DEF RecordOutcome, Answers, Terminal
  <2> QED
    BY <2>1, RecordDefinitiveSells
<1> QED
  BY <1>1, <1>2

-----------------------------------------------------------------------------
(***************************************************************************)
(* Operators and buyers.                                                   *)
(***************************************************************************)

LEMMA AbandonSells ==
  ASSUME PaymentInv, PaymentInv', SaleInv, NEW a \in Attempts, Abandon(a)
  PROVE  SaleInv'
<1>1. /\ attempt[a] \in Dispatched /\ MarkFailed(a, "OPERATOR")
      /\ UNCHANGED <<mandate, bound, now, session>>
  BY DEF Abandon, Dispatched
<1>2. NobodyDecides
  BY <1>1 DEF NobodyDecides
<1>3. AbandonIsQuiet => \A u \in Workers : session[u].pc = "deciding" =>
                          session[u].checkout # CheckoutFor[a]
  BY DEF Abandon
<1> QED
  BY <1>1, <1>2, <1>3, MarkFailedSells

LEMMA CancelSells ==
  ASSUME PaymentInv, PaymentInv', SaleInv, NEW c \in Checkouts, Cancel(c)
  PROVE  SaleInv'
<1>0. /\ now \in Nat /\ CheckoutFree(c) /\ Cancellable(c)
      /\ UNCHANGED <<mandate, stock, attempt, bound, session, now>>
  BY DEF Cancel, PaymentInv, TypeOK
<1>1. /\ \A d \in Checkouts : checkout'[d] = IF d = c THEN "CANCELLED" ELSE checkout[d]
      /\ \A d \in Checkouts, t \in Slots :
           hold'[d][t] = IF d = c /\ hold[c][t] \in Holding THEN "RELEASED" ELSE hold[d][t]
  BY DEF Cancel, HeldRows, PaymentInv, TypeOK, RowsTyped
<1>2. DecidersKnow'
  <2>1. \A u \in Workers : session'[u] = session[u] /\ session[u].pc = "deciding" => Undisturbed(u)
    <3> SUFFICES ASSUME NEW u \in Workers, session[u].pc = "deciding" PROVE Undisturbed(u)
      OBVIOUS
    <3>1. session[u].checkout \in Checkouts /\ session[u].slot \in Slots /\ session[u].checkout # c
      BY <1>0 DEF PaymentInv, SessionKnows, Locking, CheckoutFree
    <3> QED
      BY <1>0, <1>1, <3>1 DEF Undisturbed
  <2> QED
    BY <1>0, <2>1, DecidersStand DEF NobodyDecides
<1>3. BoundHolds'
  <2>1. \A b \in Attempts : bound[b] \in Slots \cup {0} /\ CheckoutFor[b] \in Checkouts
    BY DEF PaymentInv, TypeOK, RowsTyped
  <2> QED
    BY <1>0, <1>1, <2>1 DEF SaleInv, BoundHolds
<1>4. SaleIsWhole'
  <2>1. \A d \in Checkouts : checkout'[d] = "PAID" <=> checkout[d] = "PAID"
    BY <1>0, <1>1 DEF Cancellable
  <2>2. \A d \in Checkouts, t \in Slots : hold'[d][t] = "CONSUMED" <=> hold[d][t] = "CONSUMED"
    BY <1>1 DEF Holding
  <2> QED
    BY <1>0, <2>1, <2>2, SameSales DEF SaleInv
<1>5. StockCoversPledges'
  <2>1. EffectiveRows(now)' \subseteq EffectiveRows(now)
    BY <1>0, <1>1 DEF EffectiveRows, Effective
  <2>2. DecidingRows' \subseteq DecidingRows
    BY <1>0 DEF DecidingRows, Deciding
  <2> QED
    BY <1>0, <2>1, <2>2, PledgesShrink DEF PledgedRows
<1>6. ASSUME AbandonIsQuiet PROVE HoldsFollowPayments'
  <2>1. \A b \in Attempts : attempt[b] \in Open => CheckoutFor[b] # c
    BY <1>0 DEF Cancellable
  <2>2. OpenPaymentIsPayable'
    BY <1>0, <1>1, <1>6, <2>1
    DEF SaleInv, HoldsFollowPayments, OpenPaymentIsPayable, PaymentInv, TypeOK, RowsTyped, Open
  <2>3. \A d \in Checkouts, t \in Slots : hold'[d][t] = "COMMITTED" => hold[d][t] = "COMMITTED"
    BY <1>1
  <2>4. \A d \in Checkouts : HeldRows(d)' \subseteq HeldRows(d)
    BY <1>1 DEF HeldRows, Holding
  <2> QED
    BY <1>0, <1>6, <2>2, <2>3, <2>4 DEF SaleInv, HoldsFollowPayments, CommittedHoldIsSpokenFor
<1> QED
  BY <1>2, <1>3, <1>4, <1>5, <1>6 DEF SaleInv

LEMMA RevokeSells ==
  ASSUME PaymentInv, PaymentInv', SaleInv, NEW m \in Mandates, Revoke(m)
  PROVE  SaleInv'
<1>0. /\ now \in Nat /\ MandateFree(m)
      /\ UNCHANGED <<checkout, hold, stock, attempt, bound, session, now>>
      /\ \A n \in Mandates : n # m => mandate'[n] = mandate[n]
  BY DEF Revoke, PaymentInv, TypeOK, RowsTyped
<1>1. DecidersKnow'
  <2>1. \A u \in Workers : session'[u] = session[u] /\ session[u].pc = "deciding" => Undisturbed(u)
    <3> SUFFICES ASSUME NEW u \in Workers, session[u].pc = "deciding" PROVE Undisturbed(u)
      OBVIOUS
    <3>1. session[u].checkout \in Checkouts /\ MandateFor[session[u].checkout] # m
      BY <1>0 DEF PaymentInv, SessionKnows, Locking, MandateFree
    <3> QED
      BY <1>0, <3>1 DEF Undisturbed
  <2> QED
    BY <1>0, <2>1, DecidersStand DEF NobodyDecides
<1>2. PledgedRows' = PledgedRows
  BY <1>0 DEF PledgedRows, EffectiveRows, Effective, DecidingRows, Deciding
<1>3. StockCoversPledges'
  BY <1>0, <1>2, PledgesShrink
<1> QED
  BY <1>0, <1>1, <1>3, RowsStand DEF SaleInv, SameStanding

-----------------------------------------------------------------------------
(***************************************************************************)
(* The invariant.                                                          *)
(***************************************************************************)

LEMMA InitSaleInv == Init => SaleInv
<1> SUFFICES ASSUME Init PROVE SaleInv
  OBVIOUS
<1>1. DecidersKnow /\ BoundHolds
  BY DEF Init, DecidersKnow, BoundHolds, Idle
<1>2. SaleIsWhole
  <2>1. PaidIsBought /\ ConsumedIsBought
    BY DEF Init, PaidIsBought, ConsumedIsBought
  <2>2. ConsumedRows = {}
    BY DEF Init, ConsumedRows
  <2>3. ShelfIsWhole
    BY <2>2, SumEmpty DEF Init, ShelfIsWhole
  <2> QED
    BY <2>1, <2>3 DEF SaleIsWhole
<1>3. StockCoversPledges
  <2>1. PledgedRows = {}
    BY DEF Init, PledgedRows, EffectiveRows, Effective, DecidingRows, Deciding, Idle
  <2> QED
    BY <2>1, SumEmpty DEF Init, StockCoversPledges
<1>4. HoldsFollowPayments
  BY DEF Init, HoldsFollowPayments, OpenPaymentIsPayable, CommittedHoldIsSpokenFor, HeldRows, Open, Holding
<1> QED
  BY <1>1, <1>2, <1>3, <1>4 DEF SaleInv

LEMMA WorkerStepSells ==
  ASSUME PaymentInv, PaymentInv', SaleInv, NEW w \in Workers, WorkerStep(w)
  PROVE  SaleInv'
<1>0. now \in Nat /\ session[w] \in Sessions /\ session[w].at <= now
  BY DEF PaymentInv, TypeOK, SaleInv, DecidersKnow
<1>1. ASSUME NEW s, s.pc # "deciding", s.at <= now, Become(w, s), UNCHANGED <<rows, now>>
      PROVE  SaleInv'
  <2>1. NobodyDecides
    BY <1>1 DEF NobodyDecides, Become, PaymentInv, TypeOK
  <2>2. SameStanding /\ UNCHANGED <<mandate, checkout, hold, stock, bound, now>>
    BY <1>1 DEF SameStanding, rows
  <2> QED
    BY <1>0, <2>1, <2>2, QuietStepKeeps
<1>2. ASSUME NEW c \in Checkouts, BeginPrepare(w, c) PROVE SaleInv'
  <2> DEFINE s == [Idle EXCEPT !.pc = "preparing", !.checkout = c, !.at = now]
  <2>1. s.pc # "deciding" /\ s.at <= now
    BY <1>0 DEF Idle
  <2>2. Become(w, s) /\ UNCHANGED <<rows, now>>
    BY <1>2 DEF BeginPrepare
  <2> HIDE DEF s
  <2> QED
    BY <1>1, <2>1, <2>2
<1>3. ASSUME NEW a \in Attempts, BeginAdmit(w, a) PROVE SaleInv'
  <2> DEFINE s == [Idle EXCEPT !.pc = "admitting", !.checkout = CheckoutFor[a],
                               !.attempt = a, !.at = now]
  <2>1. s.pc # "deciding" /\ s.at <= now
    BY <1>0 DEF Idle
  <2>2. Become(w, s) /\ UNCHANGED <<rows, now>>
    BY <1>3 DEF BeginAdmit
  <2> HIDE DEF s
  <2> QED
    BY <1>1, <2>1, <2>2
<1>4. ASSUME NEW a \in Attempts, Ask(w, a) PROVE SaleInv'
  <2> DEFINE s == [Idle EXCEPT !.pc = "asking", !.attempt = a]
  <2>1. s.pc # "deciding" /\ s.at <= now
    BY <1>0 DEF Idle
  <2>2. Become(w, s) /\ UNCHANGED <<rows, now>>
    BY <1>4 DEF Ask
  <2> HIDE DEF s
  <2> QED
    BY <1>1, <2>1, <2>2
<1>5. ASSUME NEW answer, Query(w, answer) PROVE SaleInv'
  <2> DEFINE s == [session[w] EXCEPT !.pc = "answered", !.answer = answer]
  <2>1. s.pc # "deciding" /\ s.at <= now
    BY <1>0 DEF Sessions
  <2>2. Become(w, s) /\ UNCHANGED <<rows, now>>
    BY <1>5 DEF Query
  <2> HIDE DEF s
  <2> QED
    BY <1>1, <2>1, <2>2
<1>6. ASSUME RecordReconciliation(w) PROVE SaleInv'
  <2>1. NobodyDecides /\ UNCHANGED now
    BY <1>0, <1>6 DEF RecordReconciliation, NobodyDecides, Become, Idle, PaymentInv, TypeOK
  <2>2. session[w].attempt \in Attempts /\ session[w].answer \in Answers \cup {"NEVER_EXECUTED"}
    BY <1>0, <1>6 DEF RecordReconciliation, PaymentInv, SessionKnows, Sessions
  <2> DEFINE result == FromQuery(session[w].answer)
  <2>3. result.outcome \in Answers
    BY <2>2 DEF FromQuery, Answers
  <2>4. RecordOutcome(session[w].attempt, result.outcome, result.source)
    BY <1>6 DEF RecordReconciliation
  <2> HIDE DEF result
  <2> QED
    BY <2>1, <2>2, <2>3, <2>4, RecordOutcomeSells
<1> QED
  BY <1>2, <1>3, <1>4, <1>5, <1>6, FinishPrepareSells, ReadHoldSells, DecideSells DEF WorkerStep

LEMMA PaymentStepSells ==
  ASSUME PaymentInv, PaymentInv', SaleInv, NEW a \in Attempts, PaymentStep(a)
  PROVE  SaleInv'
<1>0. now \in Nat
  BY DEF PaymentInv, TypeOK
<1>1. ASSUME UNCHANGED <<mandate, checkout, hold, stock, bound, session, now>>, SameStanding
      PROVE  SaleInv'
  BY <1>0, <1>1, QuietStepKeeps DEF NobodyDecides
<1>2. ASSUME Dispatch(a) PROVE SaleInv'
  <2>1. SameStanding
    BY <1>2 DEF Dispatch, Dispatchable, SameStanding, Open, PaymentInv, TypeOK, RowsTyped
  <2> QED
    BY <1>1, <1>2, <2>1 DEF Dispatch
<1>3. ASSUME NEW o, ProviderExecute(a, o) PROVE SaleInv'
  BY <1>1, <1>3 DEF ProviderExecute, rows, SameStanding
<1>4. ASSUME CallerCrash(a) PROVE SaleInv'
  BY <1>1, <1>4 DEF CallerCrash, rows, SameStanding
<1>5. ASSUME RecordExecution(a) PROVE SaleInv'
  <2>1. NobodyDecides /\ UNCHANGED now /\ call[a] \in Answers
        /\ RecordOutcome(a, call[a], "EXECUTION")
    BY <1>5 DEF RecordExecution, NobodyDecides
  <2> QED
    BY <2>1, RecordOutcomeSells
<1> QED
  BY <1>2, <1>3, <1>4, <1>5, AbandonSells DEF PaymentStep

LEMMA NextSells == PaymentInv /\ PaymentInv' /\ SaleInv /\ [Next]_vars => SaleInv'
<1> SUFFICES ASSUME PaymentInv, PaymentInv', SaleInv, [Next]_vars PROVE SaleInv'
  OBVIOUS
<1>0. now \in Nat
  BY DEF PaymentInv, TypeOK
<1>1. ASSUME UNCHANGED <<rows, session>>, now <= now' PROVE SaleInv'
  BY <1>1, QuietStepKeeps DEF rows, SameStanding, NobodyDecides
<1>2. CASE Tick
  BY <1>0, <1>1, <1>2 DEF Tick
<1>3. CASE UNCHANGED vars
  BY <1>0, <1>1, <1>3 DEF vars
<1>4. ASSUME NEW w \in Workers, WorkerCrash(w) PROVE SaleInv'
  <2>1. NobodyDecides /\ SameStanding /\ UNCHANGED <<mandate, checkout, hold, stock, bound, now>>
    BY <1>0, <1>4 DEF WorkerCrash, NobodyDecides, SameStanding, Become, Idle, rows, PaymentInv, TypeOK
  <2> QED
    BY <1>0, <2>1, QuietStepKeeps
<1> QED
  BY <1>2, <1>3, <1>4, WorkerStepSells, PaymentStepSells, CancelSells, RevokeSells
  DEF Next, NextWithoutCrash

\* The whole inductive invariant of the kernel holds in every state of every
\* execution.
THEOREM Invariance == Spec => []IInv
<1>1. Init => IInv
  BY InitPaymentInv, InitSaleInv DEF IInv
<1>2. IInv /\ [Next]_vars => IInv'
  BY NextKeeps, NextSells DEF IInv
<1> QED
  BY <1>1, <1>2, PTL DEF Spec

\* _record_success does all of its five writes or none: a quote is PAID, a hold
\* CONSUMED and units off the shelf exactly for the payments that SUCCEEDED.
THEOREM WholeSales == Spec => []SaleIsWhole
<1>1. IInv => SaleIsWhole
  BY DEF IInv, SaleInv
<1> QED
  BY <1>1, Invariance, PTL

\* commit_to_payment, _record_failure and cancel_checkout keep holds and payments
\* together, provided that nobody abandons a payment in the middle of an admission
\* for its quote; without that the property fails.
THEOREM HoldsFollow == ASSUME AbandonIsQuiet PROVE Spec => []HoldsFollowPayments
<1>1. IInv => HoldsFollowPayments
  BY DEF IInv, SaleInv
<1> QED
  BY <1>1, Invariance, PTL

\* reserve and the two instants of an admission never let effective holds exceed
\* the stock, whatever lapses, waits or is sold meanwhile.
THEOREM ShelfNeverOversold == Spec => []NoOversell
<1>1. IInv => NoOversell
  <2> SUFFICES ASSUME IInv, NEW v \in Variants PROVE Reserved(v, now) <= stock[v]
    BY DEF NoOversell
  <2>1. /\ PledgedRows \in SUBSET Rows /\ EffectiveRows(now) \in SUBSET PledgedRows
        /\ EffectiveRows(now) \in SUBSET Rows
    BY PledgedRowsAreRows DEF IInv, PledgedRows
  <2>2. SumFunctionOnSet(Units(v), EffectiveRows(now)) <= SumFunctionOnSet(Units(v), PledgedRows)
    BY <2>1, UnitsAtMost
  <2>3. SumFunctionOnSet(Units(v), PledgedRows) <= stock[v]
    BY DEF IInv, SaleInv, StockCoversPledges
  <2>4. /\ SumFunctionOnSet(Units(v), EffectiveRows(now)) \in Nat
        /\ SumFunctionOnSet(Units(v), PledgedRows) \in Nat
        /\ stock[v] \in Nat
    BY <2>1, UnitsSumTyped DEF IInv, PaymentInv, TypeOK, RowsTyped
  <2> QED
    BY <2>2, <2>3, <2>4 DEF Reserved
<1> QED
  BY <1>1, Invariance, PTL

-----------------------------------------------------------------------------
(***************************************************************************)
(* What a step can do to the rows a buyer and a merchant see.              *)
(***************************************************************************)

\* A mark on a payment on its way, or nothing at all.
Bookkeeping ==
    /\ UNCHANGED <<checkout, hold, stock, bound, by>>
    /\ \A a \in Attempts :
         \/ attempt'[a] = attempt[a]
         \/ <<attempt[a], attempt'[a]>> \in {<<"ADMITTED", "IN_FLIGHT">>, <<"IN_FLIGHT", "UNKNOWN">>}

\* A hold for a quote that has none, and has not lapsed.
Reserving ==
    /\ UNCHANGED <<checkout, stock, bound, by, attempt>>
    /\ \E c \in Checkouts :
         /\ HeldRows(c) = {}
         /\ now < HoldUntil(c)
         /\ \E t \in FreeRows(c) : \A d \in Checkouts, s \in Slots :
              hold'[d][s] = IF d = c /\ s = t THEN "ACTIVE" ELSE hold[d][s]

Admitting(w) == Decide(w) /\ ~ AlreadySettled(session[w].checkout)
                          /\ ~ Claimed(MandateFor[session[w].checkout])

Succeeding(a) ==
    /\ attempt[a] \in Dispatched
    /\ Recordable(a, "SUCCEEDED")
    /\ \E source : MarkSucceeded(a, source)
    /\ UNCHANGED bound

Failing(a) ==
    /\ attempt[a] \in Dispatched
    /\ \E source : MarkFailed(a, source)
    /\ UNCHANGED bound

LEMMA Effects ==
  ASSUME PaymentInv, SaleInv, [Next]_vars
  PROVE  \/ Bookkeeping
         \/ Reserving
         \/ \E w \in Workers : Admitting(w)
         \/ \E a \in Attempts : Succeeding(a) \/ Failing(a)
         \/ \E c \in Checkouts : Cancel(c)
<1>1. UNCHANGED rows => Bookkeeping
  BY DEF rows, Bookkeeping
<1>2. ASSUME NEW w \in Workers, FinishPrepare(w) PROVE Bookkeeping \/ Reserving
  <2> DEFINE c == session[w].checkout
             t == Min(FreeRows(c))
  <2>1. UNCHANGED <<checkout, stock, bound, by, attempt>> /\ c \in Checkouts
    BY <1>2 DEF FinishPrepare, PaymentInv, SessionKnows, Locking
  <2>2. CASE UNCHANGED hold
    BY <2>1, <2>2 DEF Bookkeeping
  <2>3. CASE /\ Authorized(c, now)
             /\ HeldRows(c) = {} /\ FreeRows(c) # {}
             /\ hold' = [hold EXCEPT ![c][t] = "ACTIVE"]
    <3>1. FreeRows(c) \in SUBSET Nat
      BY DEF FreeRows, Slots
    <3>2. t \in FreeRows(c)
      BY <2>3, <3>1, SmallestNumber DEF Min
    <3>3. now < HoldUntil(c)
      BY <2>3 DEF Authorized, CheckoutAllowed, MandateValid, HoldUntil
    <3>4. \A d \in Checkouts, s \in Slots :
            hold'[d][s] = IF d = c /\ s = t THEN "ACTIVE" ELSE hold[d][s]
      BY <2>1, <2>3 DEF PaymentInv, TypeOK, RowsTyped
    <3> HIDE DEF t
    <3> QED
      BY <2>1, <2>3, <3>2, <3>3, <3>4 DEF Reserving
  <2> QED
    BY <1>2, <2>2, <2>3 DEF FinishPrepare, Reserve
<1>3. ASSUME NEW w \in Workers, Decide(w) PROVE Bookkeeping \/ Admitting(w)
  BY <1>3 DEF Decide, Admitting, Bookkeeping
<1>4. ASSUME NEW a \in Attempts, NEW outcome, NEW source, RecordDefinitive(a, outcome, source)
      PROVE  Bookkeeping \/ Succeeding(a) \/ Failing(a)
  <2>1. CASE UNCHANGED <<attempt, by, checkout, hold, stock, bound>>
    BY <2>1 DEF Bookkeeping
  <2>2. CASE attempt[a] \in Dispatched /\ Recordable(a, outcome) /\ outcome = "SUCCEEDED"
             /\ MarkSucceeded(a, source) /\ UNCHANGED bound
    BY <2>2 DEF Succeeding
  <2>3. CASE attempt[a] \in Dispatched /\ MarkFailed(a, source) /\ UNCHANGED bound
    BY <2>3 DEF Failing
  <2> QED
    BY <1>4, <2>1, <2>2, <2>3 DEF RecordDefinitive
<1>5. ASSUME NEW a \in Attempts, RecordUnknown(a) PROVE Bookkeeping
  BY <1>5 DEF RecordUnknown, Bookkeeping, Open, Dispatched, PaymentInv, TypeOK, RowsTyped
<1>6. ASSUME NEW a \in Attempts, NEW answer, NEW source, RecordOutcome(a, answer, source)
      PROVE  Bookkeeping \/ Succeeding(a) \/ Failing(a)
  BY <1>4, <1>5, <1>6 DEF RecordOutcome
<1>7. ASSUME NEW w \in Workers, RecordReconciliation(w)
      PROVE  Bookkeeping \/ \E a \in Attempts : Succeeding(a) \/ Failing(a)
  <2>1. session[w].attempt \in Attempts
    BY <1>7 DEF RecordReconciliation, PaymentInv, SessionKnows
  <2> QED
    BY <1>6, <1>7, <2>1 DEF RecordReconciliation
<1>8. ASSUME NEW w \in Workers, WorkerStep(w)
      PROVE  \/ Bookkeeping \/ Reserving \/ Admitting(w)
             \/ \E a \in Attempts : Succeeding(a) \/ Failing(a)
  BY <1>1, <1>2, <1>3, <1>7, <1>8 DEF WorkerStep, BeginPrepare, BeginAdmit, Ask, ReadHold, Query
<1>9. ASSUME NEW a \in Attempts, PaymentStep(a)
      PROVE  Bookkeeping \/ Succeeding(a) \/ Failing(a)
  <2>1. ASSUME Dispatch(a) PROVE Bookkeeping
    BY <2>1 DEF Dispatch, Dispatchable, Bookkeeping, Open, Dispatched, PaymentInv, TypeOK, RowsTyped
  <2>2. ASSUME Abandon(a) PROVE Failing(a)
    BY <2>2 DEF Abandon, Failing, Dispatched
  <2> QED
    BY <1>1, <1>6, <1>9, <2>1, <2>2 DEF PaymentStep, ProviderExecute, CallerCrash, RecordExecution
<1>10. ASSUME NEW m \in Mandates, Revoke(m) PROVE Bookkeeping
  BY <1>10 DEF Revoke, Bookkeeping
<1> QED
  BY <1>1, <1>8, <1>9, <1>10 DEF Next, NextWithoutCrash, Tick, WorkerCrash, vars

-----------------------------------------------------------------------------
(***************************************************************************)
(* What is over stays over.                                                *)
(***************************************************************************)

\* What an admission and a resolution write, row by row.
LEMMA AdmittingWrites ==
  ASSUME PaymentInv, SaleInv, NEW w \in Workers, Admitting(w)
  PROVE  LET a == session[w].attempt
             c == session[w].checkout
         IN
         /\ a \in Attempts /\ CheckoutFor[a] = c
         /\ attempt[a] = "NONE"
         /\ mandate[MandateFor[c]] = "ACTIVE" /\ checkout[c] = "OPEN"
         /\ \A b \in Attempts : MandateOf(b) = MandateFor[c] => attempt[b] \notin Open \cup {"SUCCEEDED"}
         /\ \A b \in Attempts : attempt'[b] = IF b = a THEN "ADMITTED" ELSE attempt[b]
         /\ \A b \in Attempts : b # a => bound'[b] = bound[b]
         /\ UNCHANGED <<checkout, stock, by>>
         /\ \A d \in Checkouts, t \in Slots : hold'[d][t] # hold[d][t] =>
              hold[d][t] = "ACTIVE" /\ hold'[d][t] = "COMMITTED"
<1> DEFINE a == session[w].attempt
           c == session[w].checkout
           s == session[w].slot
<1>1. /\ session[w].pc = "deciding"
      /\ a \in Attempts /\ c \in Checkouts /\ s \in Slots
      /\ CheckoutFor[a] = c /\ attempt[a] = "NONE"
  BY DEF PaymentInv, SessionKnows, Admitting, Decide, Locking
<1>2. /\ mandate[MandateFor[c]] = "ACTIVE" /\ checkout[c] = "OPEN"
      /\ session[w].seen = "ACTIVE" => hold[c][s] = "ACTIVE"
  BY <1>1 DEF SaleInv, DecidersKnow
<1>3. \A b \in Attempts : MandateOf(b) = MandateFor[c] => attempt[b] \notin Open \cup {"SUCCEEDED"}
  BY DEF Admitting, AlreadySettled, Claimed
<1>4. /\ \A b \in Attempts : attempt'[b] = IF b = a THEN "ADMITTED" ELSE attempt[b]
      /\ \A b \in Attempts : b # a => bound'[b] = bound[b]
      /\ UNCHANGED <<checkout, stock, by>>
      /\ hold' = CommitToPayment(c, s, session[w].seen)
  BY <1>1 DEF Admitting, Decide, PaymentInv, TypeOK, RowsTyped
<1>5. \A d \in Checkouts, t \in Slots : hold'[d][t] # hold[d][t] =>
        hold[d][t] = "ACTIVE" /\ hold'[d][t] = "COMMITTED"
  BY <1>1, <1>2, <1>4 DEF CommitToPayment, PaymentInv, TypeOK, RowsTyped
<1> QED
  BY <1>1, <1>2, <1>3, <1>4, <1>5

LEMMA SucceedingWrites ==
  ASSUME PaymentInv, SaleInv, NEW a \in Attempts, Succeeding(a)
  PROVE  LET c == CheckoutFor[a] IN
         /\ c \in Checkouts /\ attempt[a] \in Dispatched
         /\ \A b \in Attempts : attempt'[b] = IF b = a THEN "SUCCEEDED" ELSE attempt[b]
         /\ \A b \in Attempts : b # a => by'[b] = by[b]
         /\ \A d \in Checkouts : checkout'[d] = IF d = c THEN "PAID" ELSE checkout[d]
         /\ \A d \in Checkouts, t \in Slots : hold'[d][t] # hold[d][t] =>
              hold[d][t] = "COMMITTED" /\ hold'[d][t] = "CONSUMED"
         /\ \A v \in Variants : Quantity[c][v] <= stock[v]
         /\ stock' = [v \in Variants |-> stock[v] - Quantity[c][v]]
         /\ UNCHANGED bound
<1> DEFINE c == CheckoutFor[a]
           s == bound[a]
<1>1. /\ attempt[a] \in Dispatched /\ Recordable(a, "SUCCEEDED") /\ UNCHANGED bound
      /\ \E source : MarkSucceeded(a, source)
  BY DEF Succeeding
<1>2. c \in Checkouts /\ s \in Slots /\ hold[c][s] = "COMMITTED"
  BY <1>1, BoundSlot DEF Recordable
<1>3. /\ \A b \in Attempts : attempt'[b] = IF b = a THEN "SUCCEEDED" ELSE attempt[b]
      /\ \A b \in Attempts : b # a => by'[b] = by[b]
      /\ \A d \in Checkouts : checkout'[d] = IF d = c THEN "PAID" ELSE checkout[d]
      /\ stock' = ConsumeStock(c)
  BY <1>1, <1>2 DEF MarkSucceeded, PaymentInv, TypeOK, RowsTyped
<1>4. \A d \in Checkouts, t \in Slots : hold'[d][t] = IF d = c /\ t = s THEN "CONSUMED" ELSE hold[d][t]
  BY <1>1, <1>2 DEF MarkSucceeded, PaymentInv, TypeOK, RowsTyped
<1>5. \A v \in Variants : Quantity[c][v] <= stock[v]
  BY <1>2, UnitsAreThere
<1>6. stock' = [v \in Variants |-> stock[v] - Quantity[c][v]]
  BY <1>3, <1>5 DEF ConsumeStock
<1> QED
  BY <1>1, <1>2, <1>3, <1>4, <1>5, <1>6

LEMMA FailingWrites ==
  ASSUME PaymentInv, SaleInv, NEW a \in Attempts, Failing(a)
  PROVE  /\ CheckoutFor[a] \in Checkouts /\ attempt[a] \in Dispatched
         /\ \A b \in Attempts : attempt'[b] = IF b = a THEN "FAILED" ELSE attempt[b]
         /\ \A b \in Attempts : b # a => by'[b] = by[b]
         /\ \A d \in Checkouts, t \in Slots : hold'[d][t] # hold[d][t] =>
              hold[d][t] # "CONSUMED" /\ hold'[d][t] = "RELEASED"
         /\ UNCHANGED <<bound, checkout, stock>>
<1> DEFINE c == CheckoutFor[a]
           s == bound[a]
<1>1. attempt[a] \in Dispatched /\ UNCHANGED bound /\ \E source : MarkFailed(a, source)
  BY DEF Failing
<1>2. c \in Checkouts /\ s \in Slots /\ hold[c][s] \notin {"NONE", "ACTIVE", "CONSUMED"}
  BY <1>1, BoundSlot
<1>3. /\ \A b \in Attempts : attempt'[b] = IF b = a THEN "FAILED" ELSE attempt[b]
      /\ \A b \in Attempts : b # a => by'[b] = by[b]
      /\ UNCHANGED <<checkout, stock>>
  BY <1>1, <1>2 DEF MarkFailed, PaymentInv, TypeOK, RowsTyped
<1>4. \A d \in Checkouts, t \in Slots : hold'[d][t] = IF d = c /\ t = s THEN "RELEASED" ELSE hold[d][t]
  BY <1>1, <1>2 DEF MarkFailed, PaymentInv, TypeOK, RowsTyped
<1> QED
  BY <1>1, <1>2, <1>3, <1>4

LEMMA StepsStayOver ==
  ASSUME PaymentInv, SaleInv, [Next]_vars
  PROVE  ResolvedStays /\ HoldsStay /\ PaidStays /\ AuthorityStands
<1>1. CASE Bookkeeping
  BY <1>1 DEF Bookkeeping, ResolvedStays, HoldsStay, PaidStays, AuthorityStands, Open, Dispatched, Terminal
<1>2. CASE Reserving
  BY <1>2 DEF Reserving, FreeRows, ResolvedStays, HoldsStay, PaidStays, AuthorityStands
<1>3. ASSUME NEW w \in Workers, Admitting(w)
      PROVE  ResolvedStays /\ HoldsStay /\ PaidStays /\ AuthorityStands
  <2> DEFINE a == session[w].attempt
             c == session[w].checkout
  <2>1. /\ a \in Attempts /\ CheckoutFor[a] = c
        /\ attempt[a] = "NONE"
        /\ mandate[MandateFor[c]] = "ACTIVE" /\ checkout[c] = "OPEN"
        /\ \A b \in Attempts : attempt'[b] = IF b = a THEN "ADMITTED" ELSE attempt[b]
        /\ \A b \in Attempts : b # a => bound'[b] = bound[b]
        /\ UNCHANGED <<checkout, stock, by>>
        /\ \A d \in Checkouts, t \in Slots : hold'[d][t] # hold[d][t] =>
             hold[d][t] = "ACTIVE" /\ hold'[d][t] = "COMMITTED"
    BY <1>3, AdmittingWrites
  <2> HIDE DEF a, c
  <2>2. ResolvedStays
    BY <2>1 DEF ResolvedStays, Terminal
  <2>3. HoldsStay
    BY <2>1 DEF HoldsStay
  <2>4. AuthorityStands
    BY <2>1 DEF AuthorityStands, MandateOf
  <2> QED
    BY <2>1, <2>2, <2>3, <2>4 DEF PaidStays
<1>4. ASSUME NEW a \in Attempts, Succeeding(a)
      PROVE  ResolvedStays /\ HoldsStay /\ PaidStays /\ AuthorityStands
  <2> DEFINE c == CheckoutFor[a]
  <2>1. /\ c \in Checkouts /\ attempt[a] \in Dispatched
        /\ \A b \in Attempts : attempt'[b] = IF b = a THEN "SUCCEEDED" ELSE attempt[b]
        /\ \A b \in Attempts : b # a => by'[b] = by[b]
        /\ \A d \in Checkouts : checkout'[d] = IF d = c THEN "PAID" ELSE checkout[d]
        /\ \A d \in Checkouts, t \in Slots : hold'[d][t] # hold[d][t] =>
             hold[d][t] = "COMMITTED" /\ hold'[d][t] = "CONSUMED"
        /\ UNCHANGED bound
    BY <1>4, SucceedingWrites
  <2> HIDE DEF c
  <2>2. ResolvedStays
    BY <2>1 DEF ResolvedStays, Dispatched, Terminal
  <2>3. HoldsStay
    BY <2>1 DEF HoldsStay
  <2>4. AuthorityStands
    BY <2>1 DEF AuthorityStands, Dispatched
  <2> QED
    BY <2>1, <2>2, <2>3, <2>4 DEF PaidStays
<1>5. ASSUME NEW a \in Attempts, Failing(a)
      PROVE  ResolvedStays /\ HoldsStay /\ PaidStays /\ AuthorityStands
  <2>1. /\ attempt[a] \in Dispatched
        /\ \A b \in Attempts : attempt'[b] = IF b = a THEN "FAILED" ELSE attempt[b]
        /\ \A b \in Attempts : b # a => by'[b] = by[b]
        /\ \A d \in Checkouts, t \in Slots : hold'[d][t] # hold[d][t] =>
             hold[d][t] # "CONSUMED" /\ hold'[d][t] = "RELEASED"
        /\ UNCHANGED <<bound, checkout, stock>>
    BY <1>5, FailingWrites
  <2>2. ResolvedStays
    BY <2>1 DEF ResolvedStays, Dispatched, Terminal
  <2>3. HoldsStay
    BY <2>1 DEF HoldsStay
  <2>4. AuthorityStands
    BY <2>1 DEF AuthorityStands, Dispatched
  <2> QED
    BY <2>1, <2>2, <2>3, <2>4 DEF PaidStays
<1>6. ASSUME NEW c \in Checkouts, Cancel(c)
      PROVE  ResolvedStays /\ HoldsStay /\ PaidStays /\ AuthorityStands
  BY <1>6 DEF Cancel, Cancellable, HeldRows, Holding, ResolvedStays, HoldsStay, PaidStays, AuthorityStands,
              PaymentInv, TypeOK, RowsTyped
<1> QED
  BY <1>1, <1>2, <1>3, <1>4, <1>5, <1>6, Effects

LEMMA StepsSendOnce ==
  ASSUME PaymentInv, [Next]_vars
  PROVE  SentOnce
<1>1. ASSUME NEW a \in Attempts, PaymentStep(a) PROVE SentOnce
  <2>1. ASSUME Dispatch(a) PROVE SentOnce
    BY <2>1 DEF Dispatch, Dispatchable, SentOnce, PaymentInv, CallKnows, TypeOK, ProviderTyped
  <2>2. ASSUME NEW o \in ProviderOutcomes, ProviderExecute(a, o) PROVE SentOnce
    BY <2>2 DEF ProviderExecute, ProviderOutcomes, SentOnce, PaymentInv, TypeOK, ProviderTyped
  <2>3. ASSUME CallerCrash(a) PROVE SentOnce
    BY <2>3 DEF CallerCrash, SentOnce, PaymentInv, TypeOK, ProviderTyped
  <2>4. ASSUME RecordExecution(a) PROVE SentOnce
    BY <2>4 DEF RecordExecution, SentOnce, PaymentInv, TypeOK, ProviderTyped
  <2>5. ASSUME Abandon(a) PROVE SentOnce
    BY <2>5 DEF Abandon, provider, SentOnce
  <2> QED
    BY <1>1, <2>1, <2>2, <2>3, <2>4, <2>5 DEF PaymentStep
<1>2. UNCHANGED call => SentOnce
  BY DEF SentOnce
<1>3. ASSUME NEW w \in Workers, NEW answer, Query(w, answer) PROVE SentOnce
  <2>1. session[w].attempt \in Attempts
    BY <1>3 DEF Query, PaymentInv, SessionKnows
  <2> QED
    BY <1>3, <2>1 DEF Query, SentOnce, PaymentInv, TypeOK, ProviderTyped
<1>4. ASSUME NEW w \in Workers, WorkerStep(w) PROVE SentOnce
  BY <1>2, <1>3, <1>4 DEF WorkerStep, BeginPrepare, FinishPrepare, BeginAdmit, Ask, ReadHold, Decide,
                          RecordReconciliation, provider
<1> QED
  BY <1>1, <1>2, <1>4 DEF Next, NextWithoutCrash, Cancel, Revoke, Tick, WorkerCrash, provider, vars

\* A resolved payment, a given back or sold hold, a sent call and a paid quote never
\* change again: _record, _dispatchable and _require_cancellable refuse it.
THEOREM OverForGood == Spec => OverIsForever
<1>1. IInv /\ [Next]_vars => [ResolvedStays /\ HoldsStay /\ SentOnce /\ PaidStays]_vars
  BY StepsStayOver, StepsSendOnce DEF IInv
<1> QED
  BY <1>1, Invariance, PTL DEF Spec, OverIsForever

\* admit_payment writes an attempt only while its mandate is ACTIVE and its quote
\* OPEN, whoever revokes or cancels while it waits for the variant locks.
THEOREM AdmissionsAreAuthorised == Spec => AdmittedUnderAuthority
<1>1. IInv /\ [Next]_vars => [AuthorityStands]_vars
  BY StepsStayOver DEF IInv
<1> QED
  BY <1>1, Invariance, PTL DEF Spec, AdmittedUnderAuthority

-----------------------------------------------------------------------------
(***************************************************************************)
(* The kernel implements OnePurchase.                                      *)
(***************************************************************************)

claims == [m \in Mandates |-> {a \in Attempts : MandateOf(a) = m /\ attempt[a] \in Open}]
ended == {a \in Attempts : attempt[a] \in Terminal}
paid == {c \in Checkouts : checkout[c] = "PAID"}

\* A step after which every payment is as unresolved or as over as it was, and
\* every quote as paid, is no step of OnePurchase.
LEMMA StutterOfPurchase ==
  ASSUME UNCHANGED stock,
         \A a \in Attempts : /\ attempt'[a] \in Open <=> attempt[a] \in Open
                             /\ attempt'[a] \in Terminal <=> attempt[a] \in Terminal,
         \A c \in Checkouts : checkout'[c] = "PAID" <=> checkout[c] = "PAID"
  PROVE  UNCHANGED <<claims, ended, paid, stock>>
<1>1. UNCHANGED claims
  BY DEF claims, MandateOf
<1>2. UNCHANGED ended
  BY DEF ended
<1>3. UNCHANGED paid
  BY DEF paid
<1> QED
  BY <1>1, <1>2, <1>3

LEMMA AdmittingClaims ==
  ASSUME PaymentInv, SaleInv, NEW w \in Workers, Admitting(w)
  PROVE  \E a \in Attempts : Purchase!Claim(a)
<1> DEFINE a == session[w].attempt
           c == session[w].checkout
<1>1. /\ a \in Attempts /\ CheckoutFor[a] = c
      /\ attempt[a] = "NONE"
      /\ \A b \in Attempts : MandateOf(b) = MandateFor[c] => attempt[b] \notin Open \cup {"SUCCEEDED"}
      /\ \A b \in Attempts : attempt'[b] = IF b = a THEN "ADMITTED" ELSE attempt[b]
      /\ UNCHANGED <<checkout, stock>>
  BY AdmittingWrites
<1> HIDE DEF a, c
<1> DEFINE m == MandateFor[CheckoutFor[a]]
<1>2. a \notin ended
  BY <1>1 DEF ended, Terminal
<1>3. m \in Mandates /\ claims[m] = {}
  BY <1>1 DEF claims
<1>4. \A d \in paid : MandateFor[d] # m
  <2> SUFFICES ASSUME NEW d \in Checkouts, checkout[d] = "PAID" PROVE MandateFor[d] # m
    BY DEF paid
  <2>1. PICK b \in Attempts : CheckoutFor[b] = d /\ attempt[b] = "SUCCEEDED"
    BY DEF SaleInv, SaleIsWhole, PaidIsBought
  <2> QED
    BY <1>1, <2>1 DEF MandateOf
<1>5. claims' = [claims EXCEPT ![m] = {a}]
  <2>1. \A k \in Mandates :
          {b \in Attempts : MandateOf(b) = k /\ attempt'[b] \in Open} =
            IF k = m THEN {a} ELSE {b \in Attempts : MandateOf(b) = k /\ attempt[b] \in Open}
    BY <1>1 DEF MandateOf, Open
  <2> QED
    BY <1>3, <2>1 DEF claims, MandateOf
<1>6. UNCHANGED <<ended, paid, stock>>
  BY <1>1 DEF ended, paid, Terminal
<1> QED
  BY <1>1, <1>2, <1>3, <1>4, <1>5, <1>6 DEF Purchase!Claim, claims, ended, paid

\* A payment that was on its way and is over is withdrawn from its mandate's claims.
LEMMA ResolvingEnds ==
  ASSUME PaymentInv, NEW a \in Attempts, NEW outcome \in Terminal, attempt[a] \in Dispatched,
         \A b \in Attempts : attempt'[b] = IF b = a THEN outcome ELSE attempt[b]
  PROVE  Purchase!End(a)
<1> DEFINE m == MandateFor[CheckoutFor[a]]
<1>1. m \in Mandates /\ a \in claims[m]
  BY DEF claims, MandateOf, Open, Dispatched
<1>2. claims' = [claims EXCEPT ![m] = @ \ {a}]
  <2>1. \A k \in Mandates :
          {b \in Attempts : MandateOf(b) = k /\ attempt'[b] \in Open} =
            IF k = m THEN {b \in Attempts : MandateOf(b) = k /\ attempt[b] \in Open} \ {a}
            ELSE {b \in Attempts : MandateOf(b) = k /\ attempt[b] \in Open}
    BY DEF MandateOf, Open, Terminal
  <2>2. \A k \in Mandates : claims'[k] = IF k = m THEN claims[k] \ {a} ELSE claims[k]
    BY <2>1 DEF claims, MandateOf
  <2>3. claims = [k \in Mandates |-> claims[k]] /\ claims' = [k \in Mandates |-> claims'[k]]
    BY DEF claims
  <2> HIDE DEF claims
  <2> QED
    BY <1>1, <2>2, <2>3
<1>3. ended' = ended \cup {a}
  BY DEF ended
<1> QED
  BY <1>1, <1>2, <1>3 DEF Purchase!End, claims, ended

LEMMA StepsOfPurchase ==
  ASSUME PaymentInv, SaleInv, [Next]_vars
  PROVE  [Purchase!Next]_(Purchase!vars)
<1>1. ASSUME UNCHANGED <<claims, ended, paid, stock>> PROVE UNCHANGED Purchase!vars
  BY <1>1 DEF Purchase!vars, claims, ended, paid
<1>2. CASE Bookkeeping
  BY <1>1, <1>2, StutterOfPurchase DEF Bookkeeping, Open, Dispatched, Terminal
<1>3. CASE Reserving
  BY <1>1, <1>3, StutterOfPurchase DEF Reserving
<1>4. ASSUME NEW c \in Checkouts, Cancel(c) PROVE UNCHANGED Purchase!vars
  BY <1>1, <1>4, StutterOfPurchase DEF Cancel, Cancellable, PaymentInv, TypeOK, RowsTyped
<1>5. ASSUME NEW w \in Workers, Admitting(w) PROVE Purchase!Next
  BY <1>5, AdmittingClaims DEF Purchase!Next
<1>6. ASSUME NEW a \in Attempts, Succeeding(a) PROVE Purchase!Next
  <2> DEFINE c == CheckoutFor[a]
  <2>1. /\ c \in Checkouts /\ attempt[a] \in Dispatched
        /\ \A b \in Attempts : attempt'[b] = IF b = a THEN "SUCCEEDED" ELSE attempt[b]
        /\ \A d \in Checkouts : checkout'[d] = IF d = c THEN "PAID" ELSE checkout[d]
        /\ \A v \in Variants : Quantity[c][v] <= stock[v]
        /\ stock' = [v \in Variants |-> stock[v] - Quantity[c][v]]
    BY <1>6, SucceedingWrites
  <2>2. Purchase!End(a)
    BY <2>1, ResolvingEnds DEF Terminal
  <2>3. paid' = paid \cup {c}
    BY <2>1 DEF paid
  <2>4. Purchase!Buy(a)
    BY <2>1, <2>2, <2>3 DEF Purchase!Buy, paid
  <2> QED
    BY <2>4 DEF Purchase!Next
<1>7. ASSUME NEW a \in Attempts, Failing(a) PROVE Purchase!Next
  <2>1. /\ attempt[a] \in Dispatched
        /\ \A b \in Attempts : attempt'[b] = IF b = a THEN "FAILED" ELSE attempt[b]
        /\ UNCHANGED <<checkout, stock>>
    BY <1>7, FailingWrites
  <2>2. Purchase!End(a)
    BY <2>1, ResolvingEnds DEF Terminal
  <2>3. Purchase!Drop(a)
    BY <2>1, <2>2 DEF Purchase!Drop
  <2> QED
    BY <2>3 DEF Purchase!Next
<1> QED
  BY <1>2, <1>3, <1>4, <1>5, <1>6, <1>7, Effects

\* Seen from the outside, whatever the requests, sweeps, operators, crashes and
\* answers do is one claim, one end or one purchase at a time.
THEOREM KernelImplementsOnePurchase == Spec => ImplementsOnePurchase
<1>1. Init => Purchase!Init
  BY DEF Init, Purchase!Init, Open, Terminal, MandateOf
<1>2. IInv /\ [Next]_vars => [Purchase!Next]_(Purchase!vars)
  BY StepsOfPurchase DEF IInv
<1> QED
  BY <1>1, <1>2, Invariance, PTL DEF Spec, ImplementsOnePurchase, Purchase!Spec

-----------------------------------------------------------------------------
(***************************************************************************)
(* The sweep over unresolved payments: its steps are the kernel's, and     *)
(* what it reports is what it did.                                         *)
(***************************************************************************)

\* The entry whose turn it is, is one of those left, at the first of their places.
LEMMA TurnIsLeft ==
  ASSUME NEW w \in Workers, OrderKnows, LeftKnows(w), Sweeping(w)
  PROVE  /\ Turn(w) \in sweep[w].left /\ Turn(w).at \in DOMAIN order /\ Turn(w).status \in Open
         /\ Listed(w) \in Attempts
<1> DEFINE P == {t.at : t \in sweep[w].left}
<1>1. \A i \in DOMAIN order : i \in Nat /\ order[i] \in Attempts
  BY DEF OrderKnows
<1>0. sweep[w].left \in SUBSET [at : DOMAIN order, status : Open]
  BY DEF LeftKnows
<1>2. P \in SUBSET Nat /\ P # {}
  BY <1>0, <1>1 DEF Sweeping
<1>3. PICK k \in P : \A i \in P : k <= i
  BY <1>2, SmallestNumber
<1>4. PICK t \in sweep[w].left : t.at = k
  BY <1>3
<1>5. \A u \in sweep[w].left : t.at <= u.at
  BY <1>3, <1>4
<1>6. Turn(w) \in sweep[w].left
  BY <1>4, <1>5 DEF Turn
<1>7. Turn(w).at \in DOMAIN order /\ Turn(w).status \in Open
  BY <1>0, <1>6
<1> QED
  BY <1>1, <1>6, <1>7 DEF Listed

\* Whatever a sweep, an operator, a buyer or a payment does is a step of the kernel.
LEMMA SweepStepsAreKernels ==
  ASSUME OrderKnows, \A w \in Workers : LeftKnows(w), [SweepNext]_sweepVars
  PROVE  [Next]_vars
<1>1. UNCHANGED sweepVars => UNCHANGED vars
  BY DEF sweepVars
<1>2. ASSUME NEW w \in Workers, List(w) \/ Skip(w) \/ Refuse(w) \/ FindResolved(w) PROVE UNCHANGED vars
  BY <1>2 DEF List, Skip, Refuse, FindResolved, WithoutAsking
<1>3. ASSUME NEW w \in Workers, AskNext(w) PROVE WorkerStep(w)
  BY <1>3, TurnIsLeft DEF AskNext, WorkerStep
<1>4. ASSUME NEW w \in Workers, QueryNext(w) \/ RecordNext(w) PROVE WorkerStep(w)
  BY <1>4 DEF QueryNext, RecordNext, WorkerStep
<1>5. ASSUME NEW w \in Workers, Die(w) PROVE WorkerCrash(w) \/ UNCHANGED vars
  BY <1>5 DEF Die
<1>6. ASSUME NEW w \in Others, AskOne(w) \/ BuyerStep(w) PROVE WorkerStep(w) /\ w \in Workers
  BY <1>6 DEF AskOne, BuyerStep, WorkerStep, Others
<1>7. CASE KernelStep
  BY <1>6, <1>7 DEF KernelStep, Next, NextWithoutCrash
<1> QED
  BY <1>1, <1>2, <1>3, <1>4, <1>5, <1>6, <1>7
  DEF SweepNext, SweepStep, Next, NextWithoutCrash

\* A payment that was admitted stays on record.
LEMMA NeverForgotten ==
  ASSUME PaymentInv, SaleInv, [Next]_vars
  PROVE  \A a \in Attempts : attempt[a] # "NONE" => attempt'[a] # "NONE"
<1>1. CASE Bookkeeping
  BY <1>1 DEF Bookkeeping, Dispatched
<1>2. CASE Reserving
  BY <1>2 DEF Reserving
<1>3. ASSUME NEW w \in Workers, Admitting(w), NEW a \in Attempts, attempt[a] # "NONE"
      PROVE  attempt'[a] # "NONE"
  BY <1>3, AdmittingWrites
<1>4. ASSUME NEW b \in Attempts, Succeeding(b), NEW a \in Attempts, attempt[a] # "NONE"
      PROVE  attempt'[a] # "NONE"
  BY <1>4, SucceedingWrites
<1>5. ASSUME NEW b \in Attempts, Failing(b), NEW a \in Attempts, attempt[a] # "NONE"
      PROVE  attempt'[a] # "NONE"
  BY <1>5, FailingWrites
<1>6. ASSUME NEW c \in Checkouts, Cancel(c) PROVE UNCHANGED attempt
  BY <1>6 DEF Cancel
<1> QED
  BY <1>1, <1>2, <1>3, <1>4, <1>5, <1>6, Effects

\* A provider that was asked has been asked.
LEMMA AskedStands ==
  ASSUME PaymentInv, [Next]_vars
  PROVE  \A a \in Attempts : asked[a] => asked'[a]
<1>1. ASSUME NEW w \in Workers, WorkerStep(w) PROVE \A a \in Attempts : asked[a] => asked'[a]
  BY <1>1 DEF WorkerStep, BeginPrepare, FinishPrepare, BeginAdmit, Ask, ReadHold, Decide, Query,
     RecordReconciliation, provider, PaymentInv, TypeOK, ProviderTyped
<1>2. ASSUME NEW b \in Attempts, PaymentStep(b) PROVE UNCHANGED asked
  BY <1>2 DEF PaymentStep, Dispatch, ProviderExecute, CallerCrash, RecordExecution, Abandon, provider
<1> QED
  BY <1>1, <1>2 DEF Next, NextWithoutCrash, Cancel, Revoke, Tick, WorkerCrash, provider, vars

LEMMA InitSweepInv == SweepInit => SweepInv
<1> SUFFICES ASSUME SweepInit PROVE SweepInv
  OBVIOUS
<1>1. IInv
  BY InitPaymentInv, InitSaleInv DEF IInv, SweepInit
<1>2. OrderKnows
  BY DEF SweepInit, OrderKnows
<1>3. DOMAIN sweep = Workers /\ \A w \in Workers : LeftKnows(w)
  BY DEF SweepInit, LeftKnows, Sweeping, NoSweep, Init, Idle
<1>4. ClaimsKnow
  BY DEF SweepInit, ClaimsKnow
<1>5. ReportIsEarned
  BY DEF SweepInit, ReportIsEarned, Nothing
<1> QED
  BY <1>1, <1>2, <1>3, <1>4, <1>5 DEF SweepInv

\* The list outlives a step that leaves it alone.
LEMMA ListStands ==
  ASSUME SweepInv, [Next]_vars, UNCHANGED order
  PROVE  OrderKnows'
<1>1. \A i \in DOMAIN order : order[i] \in Attempts
  BY DEF SweepInv, OrderKnows
<1> QED
  BY <1>1, NeverForgotten DEF SweepInv, IInv, OrderKnows

\* A payment is put on record at the end of the list, and nowhere else.
LEMMA OthersKeepList ==
  ASSUME SweepInv, [Next]_vars, OrderOfAdmission
  PROVE  /\ OrderKnows'
         /\ \A i \in DOMAIN order : i \in DOMAIN order' /\ order'[i] = order[i]
<1>1. CASE order' = order
  BY <1>1, ListStands
<1>2. CASE Admitted # {} /\ order' = Append(order, CHOOSE a \in Admitted : TRUE)
  <2> DEFINE a == CHOOSE b \in Admitted : TRUE
             n == Len(order)
  <2>1. a \in Attempts /\ attempt[a] = "NONE" /\ attempt'[a] = "ADMITTED"
    BY <1>2 DEF Admitted
  <2>2. order \in Seq(Attempts) /\ order' = Append(order, a) /\ n \in Nat
    BY <1>2 DEF SweepInv, OrderKnows
  <2> HIDE DEF a, n
  <2>3. /\ order' \in Seq(Attempts) /\ DOMAIN order = 1 .. n /\ DOMAIN order' = 1 .. n + 1
        /\ \A i \in 1 .. n : order'[i] = order[i]
        /\ order'[n + 1] = a
    BY <2>1, <2>2 DEF n
  <2>4. \A i \in 1 .. n : order[i] \in Attempts /\ attempt[order[i]] # "NONE"
    <3>1. \A i \in 1 .. n : attempt[order[i]] # "NONE"
      BY <2>3 DEF SweepInv, OrderKnows
    <3>2. \A i \in 1 .. n : order[i] \in Attempts
      BY <2>2, <2>3
    <3> QED
      BY <3>1, <3>2
  <2>5. \A i \in 1 .. n : attempt'[order[i]] # "NONE" /\ order[i] # a
    BY <2>1, <2>4, NeverForgotten DEF SweepInv, IInv
  <2>6. \A i, j \in 1 .. n : order[i] = order[j] => i = j
    BY <2>3 DEF SweepInv, OrderKnows
  <2>7. \A i \in 1 .. n + 1 : i \in 1 .. n \/ i = n + 1
    BY <2>2
  <2>8. \A i, j \in DOMAIN order' : order'[i] = order'[j] => i = j
    BY <2>3, <2>5, <2>6, <2>7
  <2>9. \A i \in DOMAIN order' : attempt'[order'[i]] # "NONE"
    BY <2>1, <2>3, <2>5, <2>7
  <2> QED
    BY <2>2, <2>3, <2>8, <2>9 DEF OrderKnows
<1> QED
  BY <1>1, <1>2 DEF OrderOfAdmission

\* A worker whose session and whose sweep are left alone knows what it knew.
LEMMA SweepStands ==
  ASSUME SweepInv, [Next]_vars, NEW v \in Workers,
         session'[v] = session[v], sweep'[v] = sweep[v],
         \A i \in DOMAIN order : i \in DOMAIN order' /\ order'[i] = order[i]
  PROVE  LeftKnows(v)'
<1>1. /\ Sweeping(v)' <=> Sweeping(v)
      /\ Turn(v)' = Turn(v)
  BY DEF Sweeping, Turn
<1>2. Sweeping(v) => Listed(v)' = Listed(v)
  BY <1>1, TurnIsLeft DEF SweepInv, Listed
<1>3. session[v].pc = "answered" => session[v].attempt \in Attempts
  BY DEF SweepInv, IInv, PaymentInv, SessionKnows
<1>4. session[v].pc = "answered" => asked'[session[v].attempt]
  BY <1>3, AskedStands DEF SweepInv, IInv, LeftKnows
<1>5. sweep'[v] \in [left : SUBSET [at : DOMAIN order', status : Open], record : {"NONE", "ABSENT", "PRESENT"}]
  <2>1. sweep[v] \in [left : SUBSET [at : DOMAIN order, status : Open], record : {"NONE", "ABSENT", "PRESENT"}]
    BY DEF SweepInv, LeftKnows
  <2>2. DOMAIN order \subseteq DOMAIN order'
    OBVIOUS
  <2>3. [at : DOMAIN order, status : Open] \subseteq [at : DOMAIN order', status : Open]
    BY <2>2
  <2> QED
    BY <2>1, <2>3
<1>6. /\ \A t, u \in sweep[v].left : t.at = u.at => t = u
      /\ Sweeping(v) => /\ session[v].pc \in {"idle", "asking", "answered"}
                        /\ session[v].pc # "idle" => session[v].attempt = Listed(v)
  BY DEF SweepInv, LeftKnows
<1> QED
  BY <1>1, <1>2, <1>4, <1>5, <1>6 DEF LeftKnows

\* A step of one worker's sweep touches no other session, no other sweep and not the list.
LEMMA SweepsAreApart ==
  ASSUME SweepInv, NEW w \in Workers, SweepStep(w) \/ Die(w) \/ AskOne(w)
  PROVE  /\ UNCHANGED order /\ DOMAIN sweep' = Workers
         /\ \A v \in Workers : v # w => session'[v] = session[v] /\ sweep'[v] = sweep[v]
<1>0. session \in [Workers -> Sessions] /\ DOMAIN sweep = Workers
  BY DEF SweepInv, IInv, PaymentInv, TypeOK
<1>1. CASE List(w)
  BY <1>0, <1>1 DEF List, vars
<1>2. CASE Skip(w) \/ Refuse(w) \/ FindResolved(w)
  BY <1>0, <1>2 DEF Skip, Refuse, FindResolved, WithoutAsking, Advance, vars
<1>3. CASE AskNext(w) \/ AskOne(w)
  BY <1>0, <1>3 DEF AskNext, AskOne, Ask, Become
<1>4. CASE QueryNext(w)
  BY <1>0, <1>4 DEF QueryNext, Query, Become
<1>5. CASE RecordNext(w)
  BY <1>0, <1>5 DEF RecordNext, RecordReconciliation, Become, Advance
<1>6. CASE Die(w)
  BY <1>0, <1>6 DEF Die, WorkerCrash, Become, vars
<1> QED
  BY <1>1, <1>2, <1>3, <1>4, <1>5, <1>6 DEF SweepStep

\* What is left once a turn is over, or once the whole sweep is.
LEMMA TurnEnds ==
  ASSUME SweepInv, NEW w \in Workers, UNCHANGED order, session'[w].pc = "idle",
         \/ Sweeping(w) /\ Advance(w)
         \/ sweep' = [sweep EXCEPT ![w] = NoSweep]
  PROVE  LeftKnows(w)'
<1>1. /\ DOMAIN sweep = Workers
      /\ sweep[w].left \in SUBSET [at : DOMAIN order, status : Open]
      /\ \A t, u \in sweep[w].left : t.at = u.at => t = u
  BY DEF SweepInv, LeftKnows
<1>2. sweep'[w] = [left |-> {}, record |-> "NONE"] \/ sweep'[w] = [left |-> sweep[w].left \ {Turn(w)}, record |-> "NONE"]
  BY <1>1 DEF Advance, NoSweep
<1> QED
  BY <1>1, <1>2 DEF LeftKnows, Sweeping

\* The worker that takes a step of its sweep.
LEMMA SweeperKnows ==
  ASSUME SweepInv, [Next]_vars, NEW w \in Workers, SweepStep(w) \/ Die(w) \/ AskOne(w)
  PROVE  LeftKnows(w)'
<1>0. /\ session \in [Workers -> Sessions] /\ session[w] \in Sessions /\ DOMAIN sweep = Workers
      /\ asked \in [Attempts -> BOOLEAN]
      /\ sweep[w] \in [left : SUBSET [at : DOMAIN order, status : Open], record : {"NONE", "ABSENT", "PRESENT"}]
      /\ \A t, u \in sweep[w].left : t.at = u.at => t = u
      /\ Sweeping(w) /\ session[w].pc # "idle" => session[w].attempt = Listed(w)
      /\ LeftKnows(w)
  BY DEF SweepInv, IInv, PaymentInv, TypeOK, ProviderTyped, LeftKnows
<1>a. Idle.pc = "idle"
  BY DEF Idle
<1>1. CASE List(w)
  <2>1. /\ sweep'[w] = [sweep[w] EXCEPT !.left = Listing]
        /\ session'[w].pc = "idle" /\ UNCHANGED order
    BY <1>0, <1>1, <1>a DEF List, vars
  <2>2. \A i \in Oldest : i \in DOMAIN order /\ attempt[order[i]] \in Open
    BY DEF Oldest, Unresolved
  <2>3. Listing \in SUBSET [at : DOMAIN order, status : Open]
    BY <2>2 DEF Listing
  <2>4. \A t, u \in Listing : t.at = u.at => t = u
    BY DEF Listing
  <2>5. sweep'[w].left = Listing
        /\ sweep'[w] \in [left : SUBSET [at : DOMAIN order, status : Open], record : {"NONE", "ABSENT", "PRESENT"}]
    BY <1>0, <2>1, <2>3
  <2> QED
    BY <2>1, <2>4, <2>5 DEF LeftKnows
<1>2. CASE Skip(w) \/ Refuse(w) \/ FindResolved(w)
  <2>1. /\ Sweeping(w) /\ Advance(w)
        /\ session'[w].pc = "idle" /\ UNCHANGED order
    BY <1>0, <1>2, <1>a DEF Skip, Refuse, FindResolved, WithoutAsking, vars
  <2> QED
    BY <2>1, TurnEnds
<1>3. CASE AskNext(w) \/ AskOne(w)
  <2>1. UNCHANGED <<order, sweep>>
    BY <1>3 DEF AskNext, AskOne
  <2>2. PICK a : Ask(w, a) /\ (Sweeping(w) => a = Listed(w))
    BY <1>3 DEF AskNext, AskOne
  <2>3. session'[w].pc = "asking" /\ session'[w].attempt = a
    BY <1>0, <2>2 DEF Ask, Become, Idle
  <2> QED
    BY <1>0, <2>1, <2>2, <2>3 DEF LeftKnows, Sweeping, Listed, Turn
<1>4. CASE QueryNext(w)
  <2>1. PICK answer, record :
             /\ Query(w, answer)
             /\ record \in Records(session[w].attempt, answer)
             /\ sweep' = [sweep EXCEPT ![w].record = record]
    BY <1>4 DEF QueryNext
  <2>2. /\ session[w].pc = "asking" /\ UNCHANGED order
        /\ session' = [session EXCEPT ![w] = [session[w] EXCEPT !.pc = "answered", !.answer = answer]]
    BY <1>4, <2>1 DEF QueryNext, Query, Become
  <2>3. session'[w].pc = "answered" /\ session'[w].attempt = session[w].attempt
    BY <1>0, <2>2 DEF Sessions
  <2>4. session[w].attempt \in Attempts
    BY <2>2 DEF SweepInv, IInv, PaymentInv, SessionKnows
  <2>5. asked'[session[w].attempt]
    BY <1>0, <2>1, <2>4 DEF Query
  <2>6. record \in {"NONE", "ABSENT", "PRESENT"}
    BY <2>1 DEF Records
  <2>7. /\ sweep'[w].left = sweep[w].left
        /\ sweep'[w] \in [left : SUBSET [at : DOMAIN order, status : Open], record : {"NONE", "ABSENT", "PRESENT"}]
    BY <1>0, <2>1, <2>6
  <2> QED
    BY <1>0, <2>2, <2>3, <2>5, <2>7 DEF LeftKnows, Sweeping, Listed, Turn
<1>5. CASE RecordNext(w)
  <2>1. session'[w].pc = "idle" /\ UNCHANGED order
    BY <1>0, <1>5, <1>a DEF RecordNext, RecordReconciliation, Become
  <2>2. \/ Sweeping(w) /\ Advance(w)
        \/ sweep' = [sweep EXCEPT ![w] = NoSweep]
    BY <1>5 DEF RecordNext
  <2> QED
    BY <2>1, <2>2, TurnEnds
<1>6. CASE Die(w)
  <2>1. session'[w].pc = "idle" /\ UNCHANGED order /\ sweep' = [sweep EXCEPT ![w] = NoSweep]
    BY <1>0, <1>6, <1>a DEF Die, WorkerCrash, Become, vars
  <2> QED
    BY <2>1, TurnEnds
<1> QED
  BY <1>1, <1>2, <1>3, <1>4, <1>5, <1>6 DEF SweepStep

\* What everybody else does starts no sweep and answers none.
LEMMA OthersKeep ==
  ASSUME SweepInv, [Next]_vars, KernelStep
  PROVE  OrderKnows' /\ DOMAIN sweep' = Workers /\ \A v \in Workers : LeftKnows(v)'
<1>1. /\ OrderKnows'
      /\ \A i \in DOMAIN order : i \in DOMAIN order' /\ order'[i] = order[i]
      /\ UNCHANGED sweep
  BY OthersKeepList DEF KernelStep, Beside
<1>2. ASSUME NEW v \in Workers PROVE LeftKnows(v)'
  <2>0. session \in [Workers -> Sessions]
    BY DEF SweepInv, IInv, PaymentInv, TypeOK
  <2>1. CASE session'[v] = session[v]
    BY <1>1, <2>1, SweepStands
  <2>2. ASSUME NEW w \in Others, ~Sweeping(w), BuyerStep(w), session'[v] # session[v]
        PROVE  LeftKnows(v)'
    <3>1. /\ v = w
          /\ session'[v].pc \notin {"asking", "answered"}
      <4>1. session[w] \in Sessions /\ w \in Workers
        BY <2>0 DEF Others
      <4>2. /\ session'[w].pc \notin {"asking", "answered"}
            /\ \A u \in Workers : u # w => session'[u] = session[u]
        <5>1. CASE \E c \in Checkouts : BeginPrepare(w, c)
          BY <2>0, <4>1, <5>1 DEF BeginPrepare, Become, Idle
        <5>2. CASE \E a \in Attempts : BeginAdmit(w, a)
          BY <2>0, <4>1, <5>2 DEF BeginAdmit, Become, Idle
        <5>3. CASE ReadHold(w)
          <6>1. CASE session' = [session EXCEPT ![w] = Idle]
            BY <2>0, <4>1, <6>1 DEF Idle
          <6>2. ASSUME NEW k, NEW seen,
                       session' = [session EXCEPT ![w] = [session[w] EXCEPT !.pc = "deciding", !.slot = k, !.seen = seen]]
                PROVE  /\ session'[w].pc \notin {"asking", "answered"}
                       /\ \A u \in Workers : u # w => session'[u] = session[u]
            BY <2>0, <4>1, <6>2 DEF Sessions
          <6> QED
            BY <5>3, <6>1, <6>2 DEF ReadHold, Become
        <5>4. CASE FinishPrepare(w) \/ Decide(w)
          BY <2>0, <4>1, <5>4 DEF FinishPrepare, Decide, Become, Idle
        <5> QED
          BY <2>2, <5>1, <5>2, <5>3, <5>4 DEF BuyerStep
      <4> QED
        BY <2>2, <4>1, <4>2
    <3>2. ~Sweeping(v)'
      BY <1>1, <2>2, <3>1 DEF Sweeping
    <3>3. sweep'[v].left = {} /\ sweep'[v].record \in {"NONE", "ABSENT", "PRESENT"}
          /\ sweep'[v] \in [left : SUBSET [at : DOMAIN order', status : Open], record : {"NONE", "ABSENT", "PRESENT"}]
      <4>1. sweep[v] \in [left : SUBSET [at : DOMAIN order, status : Open], record : {"NONE", "ABSENT", "PRESENT"}]
        BY DEF SweepInv, LeftKnows
      <4> QED
        BY <1>1, <2>2, <3>1, <4>1 DEF Sweeping
    <3> QED
      BY <3>1, <3>2, <3>3 DEF LeftKnows
  <2>3. ASSUME NEW a \in Attempts, PaymentStep(a) PROVE UNCHANGED session
    BY <2>3 DEF PaymentStep, Dispatch, ProviderExecute, CallerCrash, RecordExecution, Abandon
  <2> QED
    BY <2>1, <2>2, <2>3 DEF KernelStep, Cancel, Revoke, Tick
<1> QED
  BY <1>1, <1>2 DEF SweepInv

\* A claim stands: what it is of stays resolved, and by whom.
LEMMA ClaimsStand ==
  ASSUME SweepInv, [Next]_vars
  PROVE  \A a \in Attempts : by[a] \in {"RECONCILIATION", "NEVER_EXECUTED"} =>
             /\ attempt[a] \in Terminal
             /\ by'[a] = by[a]
<1>1. ResolvedStays
  BY StepsStayOver DEF SweepInv, IInv
<1> QED
  BY <1>1 DEF ResolvedStays, SweepInv, IInv, PaymentInv, TypeOK, RowsTyped

\* What a step that claims nothing leaves of the claims.
LEMMA NothingClaimed ==
  ASSUME SweepInv, [Next]_vars, UNCHANGED claimed
  PROVE  ClaimsKnow'
BY ClaimsStand DEF SweepInv, ClaimsKnow

\* A step that tells nobody anything.
LEMMA NothingTold ==
  ASSUME SweepInv, [Next]_vars, TellNothing
  PROVE  ClaimsKnow' /\ ReportIsEarned'
<1>1. ClaimsKnow'
  BY NothingClaimed DEF TellNothing
<1>2. told'.result = "NONE"
  BY DEF TellNothing, Nothing
<1>3. \A a \in Attempts : claimed'[a] <= 1 /\ (claimed'[a] = 1 => by'[a] \in {"RECONCILIATION", "NEVER_EXECUTED"})
  BY <1>1 DEF ClaimsKnow
<1> QED
  BY <1>1, <1>2, <1>3 DEF ReportIsEarned

\* A turn that ends without asking the provider says what the rows say.
LEMMA TurnWithoutAsking ==
  ASSUME SweepInv, [Next]_vars, NEW w \in Workers, Skip(w) \/ Refuse(w) \/ FindResolved(w)
  PROVE  ClaimsKnow' /\ ReportIsEarned'
<1>1. UNCHANGED attempt
  BY DEF Skip, Refuse, FindResolved, WithoutAsking, vars, rows
<1>2. PICK result, after :
         /\ Tell(Listed(w), result, after)
         /\ result \in {"SKIPPED_NOT_DISPATCHED", "REFUSED", "ALREADY_TERMINAL"}
         /\ result = "ALREADY_TERMINAL" => after = attempt[Listed(w)] /\ after \in Terminal
  BY DEF Skip, Refuse, FindResolved, WithoutAsking
<1>3. told' = [attempt |-> Listed(w), after |-> after, result |-> result] /\ UNCHANGED claimed
  BY <1>2 DEF Tell, Resolving
<1>4. ClaimsKnow'
  BY <1>3, NothingClaimed
<1>5. told'.attempt = Listed(w) /\ told'.after = after /\ told'.result = result
  BY <1>3
<1>6. \A a \in Attempts : claimed'[a] <= 1 /\ (claimed'[a] = 1 => by'[a] \in {"RECONCILIATION", "NEVER_EXECUTED"})
  BY <1>4 DEF ClaimsKnow
<1> HIDE DEF Terminal
<1> QED
  BY <1>1, <1>2, <1>4, <1>5, <1>6 DEF ReportIsEarned

\* What a reconciliation does to the row, and what classify says of it.
LEMMA ClassificationIsEarned ==
  ASSUME IInv, IInv', [Next]_vars, NEW w \in Workers, RecordReconciliation(w), LeftKnows(w),
         ~Raises(session[w].attempt, FromQuery(session[w].answer).outcome)
  PROVE  LET a == session[w].attempt
             result == Classify(a, FromQuery(session[w].answer), sweep[w].record) IN
         /\ a \in Attempts
         /\ result \in {"RESOLVED_SUCCESS", "RESOLVED_FAILURE", "PROVIDER_NEVER_EXECUTED", "OUTCOME_CONFLICT",
                        "ALREADY_TERMINAL", "PROVIDER_ABSENT", "STILL_UNRESOLVED"}
         /\ result \in Resolving => attempt[a] \notin Terminal
         /\ result \in {"RESOLVED_SUCCESS", "RESOLVED_FAILURE"} => by'[a] = "RECONCILIATION" /\ attempt'[a] \in Terminal
         /\ result = "PROVIDER_NEVER_EXECUTED" => by'[a] = "NEVER_EXECUTED"
         /\ result = "OUTCOME_CONFLICT" => conflicted'[a]
         /\ result = "ALREADY_TERMINAL" => attempt'[a] \in Terminal
         /\ result \in {"PROVIDER_ABSENT", "STILL_UNRESOLVED"} => asked'[a] /\ attempt'[a] = "UNKNOWN"
<1> DEFINE a == session[w].attempt
           found == FromQuery(session[w].answer)
           result == Classify(a, found, sweep[w].record)
<1>0. /\ session[w].pc = "answered"
      /\ attempt \in [Attempts -> Open \cup Terminal \cup {"NONE"}]
      /\ by \in [Attempts -> {"NONE", "EXECUTION", "RECONCILIATION", "NEVER_EXECUTED", "OPERATOR"}]
      /\ conflicted \in [Attempts -> BOOLEAN]
  BY DEF RecordReconciliation, IInv, PaymentInv, TypeOK, RowsTyped
<1>1. /\ a \in Attempts /\ attempt[a] \in Dispatched \cup Terminal
      /\ session[w].answer \in Answers \cup {"NEVER_EXECUTED"}
  BY <1>0 DEF IInv, PaymentInv, TypeOK, SessionKnows, Sessions
<1>a. asked'[a]
  BY <1>0 DEF RecordReconciliation, LeftKnows, provider
<1>2. /\ found.outcome \in Answers
      /\ found.source \in {"RECONCILIATION", "NEVER_EXECUTED"}
      /\ found.outcome = "SUCCEEDED" => found.source = "RECONCILIATION"
  BY <1>1 DEF FromQuery, Answers
<1>3. RecordOutcome(a, found.outcome, found.source)
  BY DEF RecordReconciliation
<1>4. CASE attempt[a] \in Terminal
  <2>1. UNCHANGED attempt
    BY <1>0, <1>1, <1>3, <1>4 DEF RecordOutcome, RecordUnknown, RecordDefinitive, Terminal, Dispatched
  <2>2. CASE found.outcome \in Terminal \ {attempt[a]}
    <3>1. conflicted'[a]
      BY <1>0, <1>1, <1>3, <1>4, <2>2 DEF RecordOutcome, RecordDefinitive, Terminal, Dispatched
    <3>2. result = "OUTCOME_CONFLICT"
      BY <1>4, <2>2 DEF Classify
    <3> QED
      BY <1>1, <3>1, <3>2 DEF Resolving
  <2>3. CASE found.outcome \notin Terminal \ {attempt[a]}
    <3>1. result = "ALREADY_TERMINAL"
      BY <1>4, <2>3 DEF Classify
    <3> QED
      BY <1>1, <1>4, <2>1, <3>1 DEF Resolving
  <2> QED
    BY <2>2, <2>3
<1>5. CASE attempt[a] \in Dispatched
  <2>0. attempt[a] \notin Terminal
    BY <1>5 DEF Dispatched, Terminal
  <2>1. CASE found.outcome = "UNKNOWN"
    <3>1. attempt'[a] = "UNKNOWN"
      BY <1>0, <1>1, <1>3, <1>5, <2>1 DEF RecordOutcome, RecordUnknown, Dispatched
    <3>2. result \in {"PROVIDER_ABSENT", "STILL_UNRESOLVED"}
      BY <2>0, <3>1 DEF Classify
    <3> QED
      BY <1>1, <1>a, <2>0, <3>1, <3>2 DEF Resolving
  <2>2. CASE found.outcome \in Terminal
    <3>1. attempt'[a] = found.outcome /\ by'[a] = found.source
      <4>1. Recordable(a, found.outcome)
        BY <1>5, <2>2 DEF Raises
      <4> QED
        BY <1>0, <1>1, <1>3, <1>5, <2>0, <2>2, <4>1
        DEF RecordOutcome, RecordDefinitive, MarkSucceeded, MarkFailed, Terminal, Dispatched
    <3>2. CASE found.outcome = "SUCCEEDED"
      <4>1. result = "RESOLVED_SUCCESS"
        BY <2>0, <3>1, <3>2 DEF Classify
      <4> QED
        BY <1>1, <1>2, <2>0, <3>1, <3>2, <4>1 DEF Terminal
    <3>3. CASE found.outcome = "FAILED" /\ found.source = "NEVER_EXECUTED"
      <4>1. result = "PROVIDER_NEVER_EXECUTED"
        BY <2>0, <3>1, <3>3 DEF Classify
      <4> QED
        BY <1>1, <2>0, <3>1, <3>3, <4>1
    <3>4. CASE found.outcome = "FAILED" /\ found.source = "RECONCILIATION"
      <4>1. result = "RESOLVED_FAILURE"
        BY <2>0, <3>1, <3>4 DEF Classify
      <4> QED
        BY <1>1, <2>0, <3>1, <3>4, <4>1 DEF Terminal
    <3> QED
      BY <1>2, <2>2, <3>2, <3>3, <3>4 DEF Terminal
  <2> QED
    BY <1>2, <2>1, <2>2 DEF Answers, Terminal
<1> QED
  BY <1>1, <1>4, <1>5

\* A turn that asked says what its own recording did; when that raises, nothing is said.
LEMMA RecordNextTells ==
  ASSUME SweepInv, IInv', [Next]_vars, NEW w \in Workers, RecordNext(w)
  PROVE  ClaimsKnow' /\ ReportIsEarned'
<1> DEFINE a == session[w].attempt
           found == FromQuery(session[w].answer)
           result == Classify(a, found, sweep[w].record)
<1>1. CASE Raises(a, found.outcome)
  <2>1. told' = [attempt |-> a, after |-> attempt'[a], result |-> "RAISED"] /\ UNCHANGED claimed
    BY <1>1 DEF RecordNext, Tell, Resolving
  <2>2. told'.result = "RAISED"
    BY <2>1
  <2>3. ClaimsKnow'
    BY <2>1, NothingClaimed
  <2>4. \A b \in Attempts : claimed'[b] <= 1 /\ (claimed'[b] = 1 => by'[b] \in {"RECONCILIATION", "NEVER_EXECUTED"})
    BY <2>3 DEF ClaimsKnow
  <2> QED
    BY <2>2, <2>3, <2>4 DEF ReportIsEarned
<1>2. CASE ~Raises(a, found.outcome)
  <2>1. RecordReconciliation(w) /\ Tell(a, result, attempt'[a])
    BY <1>2 DEF RecordNext
  <2>2. LeftKnows(w)
    BY DEF SweepInv
  <2>3. /\ a \in Attempts
        /\ result \in Resolving => attempt[a] \notin Terminal
        /\ result \in {"RESOLVED_SUCCESS", "RESOLVED_FAILURE"} => by'[a] = "RECONCILIATION" /\ attempt'[a] \in Terminal
        /\ result = "PROVIDER_NEVER_EXECUTED" => by'[a] = "NEVER_EXECUTED"
        /\ result = "OUTCOME_CONFLICT" => conflicted'[a]
        /\ result = "ALREADY_TERMINAL" => attempt'[a] \in Terminal
        /\ result \in {"PROVIDER_ABSENT", "STILL_UNRESOLVED"} => asked'[a] /\ attempt'[a] = "UNKNOWN"
    BY <1>2, <2>1, <2>2, ClassificationIsEarned DEF SweepInv
  <2>4. told' = [attempt |-> a, after |-> attempt'[a], result |-> result]
        /\ claimed' = IF result \in Resolving THEN [claimed EXCEPT ![a] = @ + 1] ELSE claimed
    BY <2>1 DEF Tell
  <2>5. /\ charges'[a] = IF ledger'[a] = "SUCCEEDED" THEN 1 ELSE 0
        /\ attempt'[a] = "SUCCEEDED" => ledger'[a] = "SUCCEEDED"
        /\ attempt'[a] = "FAILED" /\ by'[a] = "RECONCILIATION" => ledger'[a] = "FAILED"
        /\ by'[a] = "NEVER_EXECUTED" => ledger'[a] = "NONE"
        /\ conflicted'[a] => attempt'[a] = "FAILED" /\ charges'[a] > 0
    BY <2>3 DEF IInv, PaymentInv, CallKnows, OutcomeHasEvidence, ConflictIsARevival
  <2> HIDE DEF a, result
  <2>6. ClaimsKnow'
    <3>1. CASE result \notin Resolving
      BY <2>4, <3>1, NothingClaimed
    <3>2. CASE result \in Resolving
      <4>1. claimed \in [Attempts -> 0 .. 1] /\ claimed' = [claimed EXCEPT ![a] = claimed[a] + 1]
        BY <2>4, <3>2 DEF SweepInv, ClaimsKnow
      <4>2. claimed[a] = 0
        BY <2>3, <3>2, <4>1, ClaimsStand DEF SweepInv, ClaimsKnow
      <4>3. by'[a] \in {"RECONCILIATION", "NEVER_EXECUTED"}
        BY <2>3, <3>2 DEF Resolving
      <4>4. claimed' \in [Attempts -> 0 .. 1]
        BY <2>3, <4>1, <4>2
      <4>5. \A b \in Attempts : claimed[b] = 1 => by'[b] \in {"RECONCILIATION", "NEVER_EXECUTED"}
        BY ClaimsStand DEF SweepInv, ClaimsKnow
      <4> QED
        BY <4>1, <4>3, <4>4, <4>5 DEF ClaimsKnow
    <3> QED
      BY <3>1, <3>2
  <2>7. told'.attempt = a /\ told'.after = attempt'[a] /\ told'.result = result
    BY <2>4
  <2>8. \A b \in Attempts : claimed'[b] <= 1 /\ (claimed'[b] = 1 => by'[b] \in {"RECONCILIATION", "NEVER_EXECUTED"})
    BY <2>6 DEF ClaimsKnow
  <2>9. /\ result \in {"RESOLVED_SUCCESS", "RESOLVED_FAILURE"} => ledger'[a] = attempt'[a]
        /\ result = "PROVIDER_NEVER_EXECUTED" => charges'[a] = 0
        /\ result = "OUTCOME_CONFLICT" => attempt'[a] # ledger'[a]
    BY <2>3, <2>5 DEF Terminal
  <2> QED
    BY <2>3, <2>6, <2>7, <2>8, <2>9 DEF ReportIsEarned
<1> QED
  BY <1>1, <1>2

LEMMA SweepKeeps == SweepInv /\ [SweepNext]_sweepVars => SweepInv' /\ [Next]_vars
<1> SUFFICES ASSUME SweepInv, [SweepNext]_sweepVars PROVE SweepInv' /\ [Next]_vars
  OBVIOUS
<1>1. [Next]_vars
  BY SweepStepsAreKernels DEF SweepInv
<1>2. IInv'
  BY <1>1, NextKeeps, NextSells DEF SweepInv, IInv
<1>3. CASE UNCHANGED sweepVars
  <2>1. UNCHANGED <<vars, order, sweep, told, claimed>>
    BY <1>3 DEF sweepVars
  <2>2. OrderKnows'
    BY <1>1, <2>1, ListStands
  <2>3. UNCHANGED <<session, asked, attempt, by, ledger, charges, conflicted>>
    BY <2>1 DEF vars, rows, provider
  <2>4. ASSUME NEW v \in Workers PROVE LeftKnows(v)'
    BY <1>1, <2>1, <2>3, SweepStands
  <2>5. ReportIsEarned'
    BY <2>1, <2>3 DEF SweepInv, ReportIsEarned
  <2>6. ClaimsKnow'
    BY <1>1, <2>1, NothingClaimed
  <2> QED
    BY <1>2, <2>1, <2>2, <2>4, <2>5, <2>6 DEF SweepInv
<1>4. CASE KernelStep
  BY <1>1, <1>2, <1>4, OthersKeep, NothingTold DEF SweepInv, KernelStep, Beside
<1>5. ASSUME NEW w \in Workers, SweepStep(w) \/ Die(w) \/ AskOne(w)
      PROVE  SweepInv'
  <2>1. /\ UNCHANGED order /\ DOMAIN sweep' = Workers
        /\ \A v \in Workers : v # w => session'[v] = session[v] /\ sweep'[v] = sweep[v]
    BY <1>5, SweepsAreApart
  <2>2. OrderKnows'
    BY <1>1, <2>1, ListStands
  <2>3. LeftKnows(w)'
    BY <1>1, <1>5, SweeperKnows
  <2>4. ASSUME NEW v \in Workers PROVE LeftKnows(v)'
    BY <1>1, <2>1, <2>3, SweepStands
  <2>5. ClaimsKnow' /\ ReportIsEarned'
    <3>1. CASE Skip(w) \/ Refuse(w) \/ FindResolved(w)
      BY <1>1, <3>1, TurnWithoutAsking
    <3>2. CASE RecordNext(w)
      BY <1>1, <1>2, <3>2, RecordNextTells
    <3>3. CASE List(w) \/ AskNext(w) \/ AskOne(w) \/ QueryNext(w) \/ Die(w)
      BY <1>1, <3>3, NothingTold DEF List, AskNext, AskOne, QueryNext, Die
    <3> QED
      BY <1>5, <3>1, <3>2, <3>3 DEF SweepStep
  <2> QED
    BY <1>2, <2>1, <2>2, <2>4, <2>5 DEF SweepInv
<1> QED
  BY <1>1, <1>3, <1>4, <1>5 DEF SweepNext, Others

LEMMA SweepInvariance == SweepSpec => []SweepInv /\ [][Next]_vars
<1>1. SweepInit => SweepInv
  BY InitSweepInv
<1> QED
  BY <1>1, SweepKeeps, PTL DEF SweepSpec

\* reconcile_unresolved, beside buyers, late answers and operators, is the kernel: every theorem
\* about Spec holds while a sweep runs.
THEOREM SweepIsKernel == SweepSpec => Spec
<1>1. SweepInit => Init
  BY DEF SweepInit
<1> QED
  BY <1>1, SweepInvariance, PTL DEF SweepSpec, Spec

\* _sweep_one and classify report what their own call did and nothing that others did, however
\* the rows moved since they were listed and whoever sweeps or reconciles the same payments: of
\* all the reports there ever are, one at most claims to have resolved a payment.
THEOREM ReportsAreEarned == SweepSpec => []ReportIsEarned
<1>1. SweepInv => ReportIsEarned
  BY DEF SweepInv
<1> QED
  BY <1>1, SweepInvariance, PTL

-----------------------------------------------------------------------------
(***************************************************************************)
(* The tables under the kernel.                                            *)
(***************************************************************************)

LEMMA MandatesOnlyRevoked ==
  ASSUME PaymentInv, [Next]_vars
  PROVE  MandateGuard
<1>1. ASSUME UNCHANGED mandate PROVE MandateGuard
  BY <1>1 DEF MandateGuard
<1>2. ASSUME NEW m \in Mandates, Revoke(m) PROVE MandateGuard
  BY <1>2 DEF Revoke, MandateGuard, PaymentInv, TypeOK, RowsTyped
<1>3. ASSUME NEW w \in Workers, WorkerStep(w) PROVE UNCHANGED mandate
  BY <1>3 DEF WorkerStep, BeginPrepare, FinishPrepare, BeginAdmit, Ask, ReadHold, Decide, Query,
              RecordReconciliation, RecordOutcome, RecordUnknown, RecordDefinitive, rows
<1>4. ASSUME NEW a \in Attempts, PaymentStep(a) PROVE UNCHANGED mandate
  BY <1>4 DEF PaymentStep, Dispatch, ProviderExecute, CallerCrash, RecordExecution, Abandon,
              RecordOutcome, RecordUnknown, RecordDefinitive, rows
<1> QED
  BY <1>1, <1>2, <1>3, <1>4 DEF Next, NextWithoutCrash, Cancel, Tick, WorkerCrash, rows, vars

\* What each kind of step writes is what the triggers let through.
LEMMA StepsPassGuards ==
  ASSUME PaymentInv, SaleInv, [Next]_vars
  PROVE  CheckoutGuard /\ ReservationGuard /\ PaymentGuard
<1>1. CASE Bookkeeping
  BY <1>1 DEF Bookkeeping, CheckoutGuard, ReservationGuard, PaymentGuard
<1>2. CASE Reserving
  BY <1>2 DEF Reserving, FreeRows, CheckoutGuard, ReservationGuard, PaymentGuard
<1>3. ASSUME NEW w \in Workers, Admitting(w)
      PROVE  CheckoutGuard /\ ReservationGuard /\ PaymentGuard
  <2> DEFINE a == session[w].attempt
             c == session[w].checkout
  <2>1. /\ attempt[a] = "NONE"
        /\ \A b \in Attempts : attempt'[b] = IF b = a THEN "ADMITTED" ELSE attempt[b]
        /\ \A b \in Attempts : b # a => bound'[b] = bound[b]
        /\ UNCHANGED <<checkout, stock, by>>
        /\ \A d \in Checkouts, t \in Slots : hold'[d][t] # hold[d][t] =>
             hold[d][t] = "ACTIVE" /\ hold'[d][t] = "COMMITTED"
    BY <1>3, AdmittingWrites
  <2> HIDE DEF a, c
  <2> QED
    BY <2>1 DEF CheckoutGuard, ReservationGuard, PaymentGuard
<1>4. ASSUME NEW a \in Attempts, Succeeding(a)
      PROVE  CheckoutGuard /\ ReservationGuard /\ PaymentGuard
  <2> DEFINE c == CheckoutFor[a]
  <2>1. /\ c \in Checkouts /\ attempt[a] \in Dispatched
        /\ \A b \in Attempts : attempt'[b] = IF b = a THEN "SUCCEEDED" ELSE attempt[b]
        /\ \A b \in Attempts : b # a => by'[b] = by[b]
        /\ \A d \in Checkouts : checkout'[d] = IF d = c THEN "PAID" ELSE checkout[d]
        /\ \A d \in Checkouts, t \in Slots : hold'[d][t] # hold[d][t] =>
             hold[d][t] = "COMMITTED" /\ hold'[d][t] = "CONSUMED"
        /\ UNCHANGED bound
    BY <1>4, SucceedingWrites
  <2>2. checkout[c] \in {"OPEN", "PAID"}
    BY <1>4 DEF Succeeding, Recordable
  <2> HIDE DEF c
  <2>3. CheckoutGuard
    BY <2>1, <2>2 DEF CheckoutGuard
  <2> QED
    BY <2>1, <2>3 DEF ReservationGuard, PaymentGuard, Dispatched, Terminal
<1>5. ASSUME NEW a \in Attempts, Failing(a)
      PROVE  CheckoutGuard /\ ReservationGuard /\ PaymentGuard
  <2>1. /\ attempt[a] \in Dispatched
        /\ \A b \in Attempts : attempt'[b] = IF b = a THEN "FAILED" ELSE attempt[b]
        /\ \A b \in Attempts : b # a => by'[b] = by[b]
        /\ \A d \in Checkouts, t \in Slots : hold'[d][t] # hold[d][t] =>
             hold[d][t] # "CONSUMED" /\ hold'[d][t] = "RELEASED"
        /\ UNCHANGED <<bound, checkout, stock>>
    BY <1>5, FailingWrites
  <2>2. \A d \in Checkouts, t \in Slots : hold'[d][t] # hold[d][t] => hold[d][t] \in {"ACTIVE", "COMMITTED"}
    <3>1. CheckoutFor[a] \in Checkouts /\ bound[a] \in Slots
          /\ hold[CheckoutFor[a]][bound[a]] \notin {"NONE", "ACTIVE", "CONSUMED"}
      BY <1>5, BoundSlot DEF Failing
    <3> QED
      BY <1>5, <2>1, <3>1 DEF Failing, MarkFailed, PaymentInv, TypeOK, RowsTyped, Holding
  <2> QED
    BY <2>1, <2>2 DEF CheckoutGuard, ReservationGuard, PaymentGuard, Dispatched, Terminal
<1>6. ASSUME NEW c \in Checkouts, Cancel(c)
      PROVE  CheckoutGuard /\ ReservationGuard /\ PaymentGuard
  BY <1>6 DEF Cancel, Cancellable, HeldRows, Holding, CheckoutGuard, ReservationGuard, PaymentGuard,
              PaymentInv, TypeOK, RowsTyped
<1> QED
  BY <1>1, <1>2, <1>3, <1>4, <1>5, <1>6, Effects

\* A hold is inserted only for a quote that has none, and no other write makes one of
\* what is none.
LEMMA OneHoldStands ==
  ASSUME PaymentInv, SaleInv, OneHoldPerCheckout, [Next]_vars
  PROVE  OneHoldPerCheckout'
<1>1. CASE Reserving
  <2>0. PICK c \in Checkouts :
          /\ HeldRows(c) = {}
          /\ \E t \in FreeRows(c) : \A d \in Checkouts, s \in Slots :
               hold'[d][s] = IF d = c /\ s = t THEN "ACTIVE" ELSE hold[d][s]
    BY <1>1 DEF Reserving
  <2>1. PICK t \in FreeRows(c) : \A d \in Checkouts, s \in Slots :
          hold'[d][s] = IF d = c /\ s = t THEN "ACTIVE" ELSE hold[d][s]
    BY <2>0
  <2>2. HeldRows(c)' = {t}
    BY <2>0, <2>1 DEF HeldRows, FreeRows, Holding
  <2>3. \A d \in Checkouts : d # c => HeldRows(d)' = HeldRows(d)
    BY <2>1 DEF HeldRows
  <2> QED
    BY <2>2, <2>3 DEF OneHoldPerCheckout
<1>2. CASE \A d \in Checkouts, s \in Slots : hold'[d][s] # hold[d][s] => hold[d][s] \in Holding
  <2>1. \A d \in Checkouts : HeldRows(d)' \subseteq HeldRows(d)
    BY <1>2 DEF HeldRows
  <2> QED
    BY <2>1 DEF OneHoldPerCheckout
<1>3. ReservationGuard
  BY StepsPassGuards
<1>4. Reserving \/ \A d \in Checkouts, s \in Slots : hold'[d][s] # hold[d][s] => hold[d][s] # "NONE"
  <2>1. ASSUME NEW w \in Workers, Admitting(w)
        PROVE  \A d \in Checkouts, s \in Slots : hold'[d][s] # hold[d][s] => hold[d][s] # "NONE"
    BY <2>1, AdmittingWrites
  <2>2. ASSUME NEW a \in Attempts, Succeeding(a)
        PROVE  \A d \in Checkouts, s \in Slots : hold'[d][s] # hold[d][s] => hold[d][s] # "NONE"
    BY <2>2, SucceedingWrites
  <2>3. ASSUME NEW a \in Attempts, Failing(a)
        PROVE  \A d \in Checkouts, s \in Slots : hold'[d][s] # hold[d][s] => hold[d][s] # "NONE"
    <3>1. CheckoutFor[a] \in Checkouts /\ bound[a] \in Slots
          /\ hold[CheckoutFor[a]][bound[a]] \notin {"NONE", "ACTIVE", "CONSUMED"}
      BY <2>3, BoundSlot DEF Failing
    <3> QED
      BY <2>3, <3>1 DEF Failing, MarkFailed, PaymentInv, TypeOK, RowsTyped
  <2>4. ASSUME NEW c \in Checkouts, Cancel(c)
        PROVE  \A d \in Checkouts, s \in Slots : hold'[d][s] # hold[d][s] => hold[d][s] # "NONE"
    BY <2>4 DEF Cancel, HeldRows, Holding, PaymentInv, TypeOK, RowsTyped
  <2> QED
    BY <2>1, <2>2, <2>3, <2>4, Effects DEF Bookkeeping
<1> QED
  BY <1>1, <1>2, <1>3, <1>4 DEF ReservationGuard, Holding

\* The rest of the tables is what the inductive invariant knows of the rows.
LEMMA RowsFitTables ==
  ASSUME IInv, OneHoldPerCheckout
  PROVE  Tables
<1>1. MandateTable /\ CheckoutTable /\ VariantTable /\ ReservationTable
  BY DEF IInv, PaymentInv, TypeOK, RowsTyped, MandateTable, CheckoutTable, VariantTable, ReservationTable,
         MandateStatuses, CheckoutStatuses, ReservationStatuses, Holding
<1>2. PaymentTable
  BY DEF IInv, PaymentInv, SaleInv, TypeOK, RowsTyped, BoundHolds, PaymentTable, PaymentAttemptStatuses,
         OutcomeSources, OutcomeSource, Open, Terminal
<1>3. OnePaymentPerMandate
  BY DEF IInv, PaymentInv, SingleUse, OnePaymentPerMandate, MandateOf
<1> QED
  BY <1>1, <1>2, <1>3 DEF Tables

LEMMA TablesInvariance == Spec => [](IInv /\ OneHoldPerCheckout)
<1>1. Init => OneHoldPerCheckout
  BY DEF Init, OneHoldPerCheckout, HeldRows, Holding
<1>2. IInv /\ OneHoldPerCheckout /\ [Next]_vars => OneHoldPerCheckout'
  BY OneHoldStands DEF IInv
<1> QED
  BY <1>1, <1>2, Invariance, PTL DEF Spec

\* However requests, sweeps, operators, crashes and late answers are interleaved, the
\* services' own checks and locks never let through a write that the triggers, the
\* CHECKs, the foreign key of an attempt or the partial unique indexes of the payment
\* migrations refuse.
THEOREM ServicesAreNeverRefused == Spec => DatabaseNeverRefuses
<1>1. IInv /\ OneHoldPerCheckout => Tables
  BY RowsFitTables
<1>2. IInv /\ [Next]_vars => Guards
  BY MandatesOnlyRevoked, StepsPassGuards DEF Guards, IInv
<1>3. IInv /\ Tables' /\ [Next]_vars => [Guards /\ Tables']_vars
  BY <1>2
<1> QED
  BY <1>1, <1>3, TablesInvariance, PTL DEF Spec, DatabaseNeverRefuses

\* A payment is admitted into an OPEN quote, a quote with a payment in it is not
\* cancelled, and whatever else gives a hold back writes an answer.
LEMMA QuietStands ==
  ASSUME PaymentInv, SaleInv, QuietUntilAnswered, [Next]_vars
  PROVE  QuietUntilAnswered'
<1>0. /\ \A a \in Attempts : CheckoutFor[a] \in Checkouts
      /\ PaymentGuard
  BY StepsPassGuards DEF PaymentInv, TypeOK, RowsTyped
<1>1. CASE \E a \in Attempts : attempt[a] \in Terminal
  BY <1>0, <1>1 DEF QuietUntilAnswered, PaymentGuard, Dispatched, Terminal
<1>2. CASE \A a \in Attempts : attempt[a] \notin Terminal
  <2>1. CASE Bookkeeping
    BY <1>0, <1>2, <2>1 DEF Bookkeeping, QuietUntilAnswered, Open
  <2>2. CASE Reserving
    BY <1>0, <1>2, <2>2 DEF Reserving, FreeRows, QuietUntilAnswered
  <2>3. ASSUME NEW w \in Workers, Admitting(w) PROVE QuietUntilAnswered'
    <3>1. LET a == session[w].attempt IN
            /\ checkout[CheckoutFor[a]] = "OPEN"
            /\ \A b \in Attempts : attempt'[b] = IF b = a THEN "ADMITTED" ELSE attempt[b]
            /\ UNCHANGED checkout
            /\ \A d \in Checkouts, t \in Slots : hold'[d][t] # hold[d][t] => hold'[d][t] = "COMMITTED"
      BY <2>3, AdmittingWrites
    <3> QED
      BY <1>0, <1>2, <3>1 DEF QuietUntilAnswered
  <2>4. ASSUME NEW a \in Attempts, Succeeding(a) \/ Failing(a) PROVE QuietUntilAnswered'
    <3>1. attempt'[a] \in Terminal
      BY <2>4, SucceedingWrites, FailingWrites DEF Terminal
    <3> QED
      BY <3>1 DEF QuietUntilAnswered, Terminal
  <2>5. ASSUME NEW c \in Checkouts, Cancel(c) PROVE QuietUntilAnswered'
    BY <1>0, <1>2, <2>5 DEF Cancel, Cancellable, QuietUntilAnswered, PaymentInv, TypeOK, RowsTyped
  <2> QED
    BY <2>1, <2>2, <2>3, <2>4, <2>5, Effects
<1> QED
  BY <1>1, <1>2

\* Whatever happened before, a database whose payment migration can still be undone
\* holds no attempt and has charged nobody: the refusal that looks at holds covers
\* the attempts the refusal that looks at attempts lets through.
THEOREM NothingIsLostGoingBack == Spec => []ReversalDropsNoPayment
<1>1. Init => QuietUntilAnswered
  BY DEF Init, QuietUntilAnswered, Open
<1>2. IInv /\ QuietUntilAnswered /\ [Next]_vars => QuietUntilAnswered'
  BY QuietStands DEF IInv
<1>3. IInv /\ QuietUntilAnswered => ReversalDropsNoPayment
  <2> SUFFICES ASSUME IInv, QuietUntilAnswered, Reversible, NEW a \in Attempts
               PROVE  attempt[a] = "NONE" /\ charges[a] = 0
    BY DEF ReversalDropsNoPayment
  <2>1. attempt[a] \in {"NONE", "ADMITTED"} /\ CheckoutFor[a] \in Checkouts
    BY DEF Reversible, IInv, PaymentInv, TypeOK, RowsTyped
  <2>2. attempt[a] # "ADMITTED"
    <3> SUFFICES ASSUME attempt[a] = "ADMITTED" PROVE FALSE
      OBVIOUS
    <3>1. bound[a] \in Slots /\ bound[a] # 0
      BY DEF IInv, PaymentInv, TypeOK, RowsTyped, Slots
    <3>2. hold[CheckoutFor[a]][bound[a]] \in {"COMMITTED", "RELEASED", "CONSUMED"}
      BY <2>1, <3>1 DEF IInv, PaymentInv, SaleInv, TypeOK, RowsTyped, BoundHolds, Holding
    <3>3. checkout[CheckoutFor[a]] = "OPEN" /\ hold[CheckoutFor[a]][bound[a]] = "COMMITTED"
      BY <2>1, <3>1, <3>2 DEF Reversible, QuietUntilAnswered, Open, Terminal
    <3> QED
      BY <2>1, <3>1, <3>3 DEF Reversible
  <2>3. charges[a] = 0
    BY <2>1 DEF IInv, PaymentInv, CallKnows
  <2> QED
    BY <2>1, <2>2, <2>3
<1> QED
  BY <1>1, <1>2, <1>3, Invariance, PTL DEF Spec
=============================================================================
