------------------------- MODULE ReconciliationSweep -------------------------
(***************************************************************************)
(* The operator's sweep over unresolved payments: reconcile_unresolved     *)
(* (payments/service.py) lists the oldest of them up to a limit, skips the *)
(* ones nobody dispatched and reconciles the others one at a time, beside  *)
(* the whole kernel: buyers pay, cancel and revoke, dispatches answer      *)
(* late, operators give payments up or reconcile one by hand, and others   *)
(* sweep the same list at the same time.                                   *)
(***************************************************************************)
EXTENDS PaymentKernel, Sequences

CONSTANTS
    Sweeper,    \* the operator that sweeps again and again, and does nothing else
    Limit       \* how many payments one sweep takes

ASSUME SweepAssumption == Sweeper \in Workers /\ Limit \in Nat \ {0}

VARIABLES
    order,   \* the attempts in the order they were admitted
    sweep,   \* by worker: what its sweep has left, by place in `order`, and what the provider had on
             \* record when it last asked
    told,    \* what the step just taken told an operator, or Nothing
    claimed  \* how many reports claim to have resolved a payment

sweepVars == <<vars, order, sweep, told, claimed>>
Others == Workers \ {Sweeper}

NoSweep == [left |-> {}, record |-> "NONE"]
Nothing == [attempt |-> None, after |-> "NONE", result |-> "NONE"]
SweepInit ==
    /\ Init
    /\ order = <<>> /\ sweep = [w \in Workers |-> NoSweep]
    /\ told = Nothing /\ claimed = [a \in Attempts |-> 0]

-----------------------------------------------------------------------------
(* The work list.                                                          *)

\* Fault: only unknown outcomes are listed.
UnresolvedIfUnknown == {i \in DOMAIN order : attempt[order[i]] = "UNKNOWN"}
Unresolved == {i \in DOMAIN order : attempt[order[i]] \in Open}

\* list_unresolved: a snapshot of the oldest.
Oldest == {i \in Unresolved : Cardinality({j \in Unresolved : j < i}) < Limit}
Listing == {[at |-> i, status |-> attempt[order[i]]] : i \in Oldest}

Sweeping(w) == sweep[w].left # {}
TellNothing == told' = Nothing /\ UNCHANGED claimed
List(w) ==
    /\ session[w] = Idle /\ ~Sweeping(w) /\ Unresolved # {}
    /\ sweep' = [sweep EXCEPT ![w].left = Listing]
    /\ TellNothing
    /\ UNCHANGED <<vars, order>>

-----------------------------------------------------------------------------
(* _sweep_one, and the reconciliation of a single payment.                 *)

Turn(w) == CHOOSE t \in sweep[w].left : \A u \in sweep[w].left : t.at <= u.at
Listed(w) == order[Turn(w).at]
Resolving == {"RESOLVED_SUCCESS", "RESOLVED_FAILURE", "PROVIDER_NEVER_EXECUTED"}
Tell(a, result, after) ==
    /\ told' = [attempt |-> a, after |-> after, result |-> result]
    /\ claimed' = IF result \in Resolving THEN [claimed EXCEPT ![a] = @ + 1] ELSE claimed
Advance(w) == sweep' = [sweep EXCEPT ![w] = [NoSweep EXCEPT !.left = sweep[w].left \ {Turn(w)}]]

\* A turn that is over before the provider was asked.
WithoutAsking(w, result, after) ==
    /\ session[w] = Idle
    /\ Tell(Listed(w), result, after)
    /\ Advance(w)
    /\ UNCHANGED <<vars, order>>

\* Nobody dispatched it when it was listed: finishing it would be a payment.
Skip(w) ==
    /\ Sweeping(w) /\ Turn(w).status = "ADMITTED"
    /\ WithoutAsking(w, "SKIPPED_NOT_DISPATCHED", "ADMITTED")

\* The guard comes first: a benchmark run may own the merchant's world by now, and then nothing is
\* read back.
Refuse(w) ==
    /\ Sweeping(w) /\ Turn(w).status # "ADMITTED"
    /\ WithoutAsking(w, "REFUSED", "NONE")

\* Resolved since it was listed: the provider is not asked.
FindResolved(w) ==
    /\ Sweeping(w) /\ Turn(w).status # "ADMITTED"
    /\ attempt[Listed(w)] \in Terminal
    /\ WithoutAsking(w, "ALREADY_TERMINAL", attempt[Listed(w)])

AskNext(w) ==
    /\ Sweeping(w) /\ Turn(w).status # "ADMITTED"
    /\ Ask(w, Listed(w))
    /\ TellNothing
    /\ UNCHANGED <<order, sweep>>

\* An operator, or a request of the run that owns the world, reconciles one payment.
AskOne(w) ==
    /\ ~Sweeping(w)
    /\ \E a \in Attempts : Ask(w, a)
    /\ TellNothing
    /\ UNCHANGED <<order, sweep>>

\* Whether there is anything on record.  A provider that has the call and has not decided it may
\* say so instead of having nothing.
Records(a, answer) ==
    IF answer # "UNKNOWN" THEN {"NONE"}
    ELSE {"ABSENT"} \cup IF call[a] \in {"SENT", "ORPHANED"} THEN {"PRESENT"} ELSE {}
QueryNext(w) ==
    /\ \E answer \in Answers \cup {"NEVER_EXECUTED"} :
         /\ Query(w, answer)
         /\ \E record \in Records(session[w].attempt, answer) :
              sweep' = [sweep EXCEPT ![w].record = record]
    /\ TellNothing
    /\ UNCHANGED order

\* Fault: a resolved payment is always this call's doing.
ClassifyByStatus(a, found, record) ==
    IF attempt'[a] = "SUCCEEDED" THEN "RESOLVED_SUCCESS"
    ELSE IF attempt'[a] = "FAILED" THEN "RESOLVED_FAILURE" ELSE "STILL_UNRESOLVED"
\* classify: what this call changed, whose answer stands, and what there is to wait for.
Classify(a, found, record) ==
    IF attempt[a] \in Terminal
    THEN IF found.outcome \in Terminal \ {attempt[a]} THEN "OUTCOME_CONFLICT" ELSE "ALREADY_TERMINAL"
    ELSE IF attempt'[a] = "SUCCEEDED" THEN "RESOLVED_SUCCESS"
    ELSE IF attempt'[a] = "FAILED" /\ found.source = "NEVER_EXECUTED" THEN "PROVIDER_NEVER_EXECUTED"
    ELSE IF attempt'[a] = "FAILED" THEN "RESOLVED_FAILURE"
    ELSE IF record = "ABSENT" THEN "PROVIDER_ABSENT" ELSE "STILL_UNRESOLVED"

\* A row that contradicts the answer raises what no sweep catches: the rest of the batch is lost.
Raises(a, outcome) ==
    outcome \in Terminal /\ attempt[a] \in Dispatched /\ ~Recordable(a, outcome)
RecordNext(w) ==
    LET a == session[w].attempt
        found == FromQuery(session[w].answer)
    IN /\ RecordReconciliation(w)
       /\ IF Raises(a, found.outcome)
          THEN Tell(a, "RAISED", attempt'[a]) /\ sweep' = [sweep EXCEPT ![w] = NoSweep]
          ELSE /\ Tell(a, Classify(a, found, sweep[w].record), attempt'[a])
               /\ IF Sweeping(w) THEN Advance(w) ELSE sweep' = [sweep EXCEPT ![w] = NoSweep]
       /\ UNCHANGED order

\* The process dies, in the middle of an item or between two.
Die(w) ==
    /\ WorkerCrash(w) \/ (session[w] = Idle /\ Sweeping(w) /\ UNCHANGED vars)
    /\ sweep' = [sweep EXCEPT ![w] = NoSweep]
    /\ TellNothing
    /\ UNCHANGED order

SweepStep(w) ==
    List(w) \/ Skip(w) \/ Refuse(w) \/ FindResolved(w) \/ AskNext(w) \/ QueryNext(w) \/ RecordNext(w)

-----------------------------------------------------------------------------
(* Everybody else.                                                         *)

BuyerStep(w) ==
    \/ \E c \in Checkouts : BeginPrepare(w, c)
    \/ FinishPrepare(w)
    \/ \E a \in Attempts : BeginAdmit(w, a)
    \/ ReadHold(w)
    \/ Decide(w)

Admitted == {a \in Attempts : attempt[a] = "NONE" /\ attempt'[a] = "ADMITTED"}
\* A transaction admits one payment at most.
OrderOfAdmission ==
    order' = IF Admitted = {} THEN order ELSE Append(order, CHOOSE a \in Admitted : TRUE)
Beside == OrderOfAdmission /\ TellNothing /\ UNCHANGED sweep

\* Every other step of the kernel.
KernelStep ==
    /\ \/ \E w \in Others : ~Sweeping(w) /\ BuyerStep(w)
       \/ \E a \in Attempts : PaymentStep(a)
       \/ \E c \in Checkouts : Cancel(c)
       \/ \E m \in Mandates : Revoke(m)
       \/ Tick
    /\ Beside

SweepNext ==
    \/ \E w \in Workers : SweepStep(w) \/ Die(w)
    \/ \E w \in Others : AskOne(w)
    \/ KernelStep

(* One operator sweeps again and again and in the end without dying, waits *)
(* for a lock no longer than others hold it, a provider that was called    *)
(* does something, and a transaction ends.  Nothing makes anybody pay,     *)
(* resume, abandon or reconcile beside it.                                 *)
SweepFairness ==
    /\ <>[][~Die(Sweeper)]_sweepVars
    /\ WF_sweepVars(List(Sweeper))
    /\ WF_sweepVars(Skip(Sweeper) \/ FindResolved(Sweeper) \/ AskNext(Sweeper) \/ QueryNext(Sweeper))
    /\ SF_sweepVars(RecordNext(Sweeper))
    /\ \A w \in Others : WF_sweepVars((FinishPrepare(w) \/ ReadHold(w) \/ Decide(w)) /\ Beside)
    /\ \A a \in Attempts : WF_sweepVars((\E o \in ProviderOutcomes : ProviderExecute(a, o)) /\ Beside)

SweepSpec == SweepInit /\ [][SweepNext]_sweepVars /\ SweepFairness

-----------------------------------------------------------------------------
(* Properties.                                                             *)

\* As many older payments are unresolved as a sweep takes.
Crowded(a) ==
    Cardinality({i \in DOMAIN order :
        /\ attempt[order[i]] \in Open
        /\ \E j \in DOMAIN order : i < j /\ order[j] = a}) >= Limit

\* It, or an older payment, is one whose row contradicts what the provider has on record.
Jammed(a) ==
    \E i, j \in DOMAIN order : i <= j /\ order[j] = a /\ Raises(order[i], ledger[order[i]])

\* A dispatched payment whose outcome is on the provider's ledger is resolved in the end, even if
\* the process that dispatched it died and others reconcile it too: the sweep gets to it unless
\* older payments fill every sweep for good, one of them or it ends every sweep it is in, or
\* benchmark runs own the merchant's world again and again (payments/service.py:277, payments/repository.py:324).
SweepSettles ==
    \/ []<><<Refuse(Sweeper)>>_sweepVars
    \/ \A a \in Attempts :
         attempt[a] \in Dispatched /\ ledger[a] # "NONE"
             ~> (attempt[a] \in Terminal \/ []Crowded(a) \/ []Jammed(a))

\* What an operator is told is what this call did, though the rows moved between the listing and
\* each turn and others reconciled the same payments: a resolution is claimed only by the call
\* whose own answer resolved the payment, and so by one report at most; a conflict only when the
\* row that was left standing says otherwise, and no answer of a provider that was not asked.
ReportIsEarned ==
    /\ LET a == told.attempt IN
       /\ told.result \in {"RESOLVED_SUCCESS", "RESOLVED_FAILURE"} =>
             by[a] = "RECONCILIATION" /\ attempt[a] = told.after /\ ledger[a] = told.after
       /\ told.result = "PROVIDER_NEVER_EXECUTED" => by[a] = "NEVER_EXECUTED" /\ charges[a] = 0
       /\ told.result = "OUTCOME_CONFLICT" => conflicted[a] /\ attempt[a] # ledger[a]
       /\ told.result = "ALREADY_TERMINAL" => attempt[a] = told.after /\ attempt[a] \in Terminal
       /\ told.result \in {"PROVIDER_ABSENT", "STILL_UNRESOLVED"} => asked[a] /\ attempt[a] = "UNKNOWN"
    /\ \A a \in Attempts :
         claimed[a] <= 1 /\ (claimed[a] = 1 => by[a] \in {"RECONCILIATION", "NEVER_EXECUTED"})

-----------------------------------------------------------------------------
(* The inductive invariant, beside the kernel's.                           *)

\* A payment is listed once, and once it was admitted it stays on record.
OrderKnows ==
    /\ order \in Seq(Attempts)
    /\ \A i \in DOMAIN order : attempt[order[i]] # "NONE"
    /\ \A i, j \in DOMAIN order : order[i] = order[j] => i = j

\* What is left of a sweep are places of the list, and each comes once; the payment it asks about
\* is the one whose turn it is, and whoever has an answer has asked.
LeftKnows(w) ==
    /\ sweep[w] \in [left : SUBSET [at : DOMAIN order, status : Open],
                    record : {"NONE", "ABSENT", "PRESENT"}]
    /\ \A t, u \in sweep[w].left : t.at = u.at => t = u
    /\ Sweeping(w) =>
         /\ session[w].pc \in {"idle", "asking", "answered"}
         /\ session[w].pc # "idle" => session[w].attempt = Listed(w)
    /\ session[w].pc = "answered" => asked[session[w].attempt]

\* A claim is of what a reconciliation resolved, and there is one.
ClaimsKnow ==
    /\ claimed \in [Attempts -> 0 .. 1]
    /\ \A a \in Attempts : claimed[a] = 1 => by[a] \in {"RECONCILIATION", "NEVER_EXECUTED"}

SweepInv == /\ IInv
            /\ OrderKnows
            /\ DOMAIN sweep = Workers /\ \A w \in Workers : LeftKnows(w)
            /\ ClaimsKnow
            /\ ReportIsEarned

=============================================================================
