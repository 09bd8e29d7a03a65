-------------------------- MODULE ProviderGovernance --------------------------
(***************************************************************************)
(* What may be spent at one model provider.  A run reserves a permit for   *)
(* each mission before it starts a worker process that can spend it; the   *)
(* worker counts its own requests, and the run settles the permit from     *)
(* what it can establish about the worker's end (benchmark/permits.py,     *)
(* capacity.py, isolation.py, worker.py, llm.py).  Runs of launches and    *)
(* runs an operator started share the provider, its policy and its window. *)
(***************************************************************************)
EXTENDS Naturals, FiniteSets, Functions

CONSTANTS
    Runs,           \* runs that call the provider
    MissionCount,   \* missions of the suite
    MaxTurns,       \* model turns of one mission
    Multiplier,     \* requests per turn the policy allows one mission
    RetryPercent,   \* what a launch may spend above one request per turn
    ThrottleLimit,  \* requests one turn may make before throttling ends it
    Keys,           \* provider credentials the executor rotates through
    Policies,       \* what the operator may set: [enabled, cap, concurrent]
    Window,         \* how long a permit counts after the tick that opened it
    MaxNow,         \* bound of the clock
    MaxFaults,      \* bound of what goes wrong with processes and settlements
    None

Missions == 1..MissionCount

ASSUME GovernanceAssumption ==
    /\ None \notin Runs
    /\ MissionCount \in Nat \ {0} /\ MaxTurns \in Nat \ {0}
    /\ Multiplier \in Nat \ {0} /\ RetryPercent \in Nat
    /\ ThrottleLimit \in Nat \ {0} /\ Keys \in Nat \ {0} /\ Window \in Nat
    /\ Policies \subseteq [enabled : BOOLEAN, cap : Nat, concurrent : Nat \ {0}]
    /\ IsFiniteSet(Policies) /\ IsFiniteSet(Runs)
    /\ MaxNow \in Nat /\ MaxFaults \in Nat

VARIABLES
    now,        \* the database's clock
    policy,     \* the row of the provider
    launch,     \* status of each launch; DIRECT for a run without one
    holder,     \* the run inside the provider's advisory lock, or None
    permit,     \* the row of each run and mission
    exec,       \* what each run's process is doing
    worker,     \* the worker process of each run
    sent,       \* requests that reached the provider, by run and mission
    faults      \* faults so far

\* Runs an operator started have no launch.
OperatorRuns == {r \in Runs : launch[r] = "DIRECT"}
LaunchRuns == Runs \ OperatorRuns

vars == <<now, policy, launch, holder, permit, exec, worker, sent, faults>>

-----------------------------------------------------------------------------
(* The budget a launch freezes.                                            *)

Least(S) == CHOOSE x \in S : \A y \in S : x <= y
Most(S) == CHOOSE x \in S : \A y \in S : x >= y

\* One request per turn and mission, the retry allowance above it rounded up;
\* one mission may take a multiple of its turns, and never more than all.
FrozenBudget(missions, turns, multiplier, percent) ==
    LET base == missions * turns
        total == Most({(base * (100 + percent) + 99) \div 100, base})
    IN [total |-> total,
        mission |-> Least({Most({turns * multiplier, turns}), total})]

Budget == FrozenBudget(MissionCount, MaxTurns, Multiplier, RetryPercent)

-----------------------------------------------------------------------------
(* Permits.                                                                *)

PermitStates == {"RESERVED", "RECONCILED", "ASSUMED_SPENT", "RELEASED"}
NoPermit == [state |-> "NONE", granted |-> 0, consumed |-> 0, opened |-> 0]

\* What a permit costs: the generated column charged_requests.
Charge(p) ==
    CASE p.state = "RECONCILED" -> p.consumed
      [] p.state \in {"RESERVED", "ASSUMED_SPENT"} -> p.granted
      [] OTHER -> 0

Charges == [k \in Runs \X Missions |-> Charge(permit[k[1]][k[2]])]

ChargeOver(S) == SumFunctionOnSet(Charges, S)

\* Everything a run is charged, whatever its age.
RunCharge(r) == ChargeOver({r} \X Missions)

\* What the provider is charged for permits opened since the window began, at
\* the clock of the transaction that asks.
Counted(at) == {k \in Runs \X Missions : permit[k[1]][k[2]].opened + Window >= at}
WindowCharge(at) == ChargeOver(Counted(at))

\* Runs without a launch that have an open permit.
OpenOperatorRuns ==
    {r \in OperatorRuns : \E m \in Missions : permit[r][m].state = "RESERVED"}

\* What runs against the provider now, the launch being admitted left out.
Executing(excluded) ==
    Cardinality({r \in LaunchRuns \ {excluded} : launch[r] = "EXECUTING"})
        + Cardinality(OpenOperatorRuns)

\* Why the provider takes no new launch, in the order the code asks.
WaitReason(excluded, at) ==
    IF ~policy.enabled THEN "PROVIDER_PAUSED"
    ELSE IF Executing(excluded) >= policy.concurrent THEN "PROVIDER_CAPACITY_OCCUPIED"
    ELSE IF WindowCharge(at) >= policy.cap THEN "PROVIDER_WINDOW_CAP_REACHED"
    ELSE "NONE"

-----------------------------------------------------------------------------
Idle == [pc |-> "IDLE", mission |-> 1, since |-> 0, offer |-> 0, left |-> 0,
         spent |-> 0, tried |-> 0, why |-> "NONE"]
NoWorker == [fate |-> "NONE", attempts |-> 0, turn |-> 1, throttled |-> 0, reached |-> FALSE]

\* A worker that has ended: what it is known to have sent, and whether it ever
\* reached the merchant.
Ended(w, fate) == [NoWorker EXCEPT !.fate = fate, !.attempts = w.attempts, !.reached = w.reached]

Init ==
    /\ now = 0
    /\ policy \in Policies
    /\ launch \in [Runs -> {"QUEUED", "DIRECT"}]
    /\ holder = None
    /\ permit = [r \in Runs |-> [m \in Missions |-> NoPermit]]
    /\ exec = [r \in Runs |-> [Idle EXCEPT !.pc = IF launch[r] = "QUEUED" THEN "IDLE" ELSE "READY"]]
    /\ worker = [r \in Runs |-> NoWorker]
    /\ sent = [r \in Runs |-> [m \in Missions |-> 0]]
    /\ faults = 0

Mission(r) == exec[r].mission
Mine(r) == permit[r][Mission(r)]

Tick ==
    /\ now < MaxNow
    /\ now' = now + 1
    /\ UNCHANGED <<policy, launch, holder, permit, exec, worker, sent, faults>>

\* The operator sets the policy of the provider.  The row is locked, the
\* advisory lock of the provider is not taken.
SetPolicy ==
    /\ policy' \in Policies \ {policy}
    /\ UNCHANGED <<now, launch, holder, permit, exec, worker, sent, faults>>

-----------------------------------------------------------------------------
(* Binding a launch, and reserving for a mission.                          *)

\* The advisory lock is held until the transaction that took it ends.
LockIsFree == holder = None

\* A dispatcher binds its launch: the gate, under the lock, before the
\* transaction that makes it EXECUTING commits.  A refusal leaves it queued.
AdmitLaunch(r) ==
    /\ exec[r].pc = "IDLE" /\ launch[r] = "QUEUED" /\ LockIsFree
    /\ WaitReason(r, now) = "NONE"
    /\ holder' = r
    /\ exec' = [exec EXCEPT ![r].pc = "BINDING"]
    /\ UNCHANGED <<now, policy, launch, permit, worker, sent, faults>>

Bind(r) ==
    /\ exec[r].pc = "BINDING"
    /\ launch' = [launch EXCEPT ![r] = "EXECUTING"]
    /\ holder' = None
    /\ exec' = [exec EXCEPT ![r].pc = "READY"]
    /\ UNCHANGED <<now, policy, permit, worker, sent, faults>>

\* The transaction of a reservation begins, and with it the clock it reads,
\* before it waits for the lock.
Arrive(r) ==
    /\ exec[r].pc = "READY"
    /\ exec' = [exec EXCEPT ![r].pc = "WAITING", ![r].since = now]
    /\ UNCHANGED <<now, policy, launch, holder, permit, worker, sent, faults>>

\* A mission needs one request per model turn, from the launch and from the
\* window.
Refusal(r) ==
    IF ~policy.enabled THEN "PROVIDER_PAUSED"
    ELSE IF Budget.total < RunCharge(r) + MaxTurns THEN "LAUNCH_BUDGET_EXHAUSTED"
    ELSE IF policy.cap < WindowCharge(exec[r].since) + MaxTurns THEN "PROVIDER_WINDOW_CAP_REACHED"
    ELSE "NONE"

\* Fault: the grant forgets what the window has left.
GrantOfLaunch(r) == Least({Budget.mission, Budget.total - RunCharge(r)})

\* The smallest of what the mission may take and what launch and window have
\* left.
Grant(r) ==
    Least({Budget.mission, Budget.total - RunCharge(r),
           policy.cap - WindowCharge(exec[r].since)})

\* Governance refuses: the run is given up, and its launch fails.
Halt(r) ==
    /\ exec[r].pc = "WAITING" /\ LockIsFree
    /\ Refusal(r) # "NONE"
    /\ exec' = [exec EXCEPT ![r] = [Idle EXCEPT !.pc = "OVER", !.why = Refusal(r)]]
    /\ launch' = [launch EXCEPT ![r] = IF r \in LaunchRuns THEN "FAILED" ELSE @]
    /\ UNCHANGED <<now, policy, holder, permit, worker, sent, faults>>

\* The grant is decided on what the rows say under the lock.
Reckon(r) ==
    /\ exec[r].pc = "WAITING" /\ LockIsFree
    /\ Refusal(r) = "NONE"
    /\ holder' = r
    /\ exec' = [exec EXCEPT ![r].pc = "RECKONED", ![r].offer = Grant(r)]
    /\ UNCHANGED <<now, policy, launch, permit, worker, sent, faults>>

\* The permit is committed before any process can spend it.  A mission is
\* admitted once and its attempt is always the first, so its key is new.
Reserve(r) ==
    /\ exec[r].pc = "RECKONED"
    /\ permit' = [permit EXCEPT ![r][Mission(r)] =
                    [state |-> "RESERVED", granted |-> exec[r].offer, consumed |-> 0,
                     opened |-> exec[r].since]]
    /\ holder' = IF holder = r THEN None ELSE holder
    /\ exec' = [exec EXCEPT ![r] = [Idle EXCEPT !.pc = "ADMITTED", !.mission = Mission(r),
                                               !.left = exec[r].offer]]
    /\ UNCHANGED <<now, policy, launch, worker, sent, faults>>

-----------------------------------------------------------------------------
(* Settling a permit.  Only one that is open may move, and once.           *)

\* What the processes of a mission spent between them.
Consumed(r) == exec[r].spent + worker[r].attempts

Settled(p, kind, consumed) ==
    IF p.state # "RESERVED" THEN p
    ELSE CASE kind = "RECONCILE" ->
                 [p EXCEPT !.state = "RECONCILED", !.consumed = Least({consumed, p.granted})]
           [] kind = "ASSUME" -> [p EXCEPT !.state = "ASSUMED_SPENT"]
           [] OTHER -> [p EXCEPT !.state = "RELEASED"]

\* The run forgets its grant first, so a settlement whose transaction fails is
\* not tried again and the permit stays open.
Settle(r, kind, consumed) ==
    /\ \/ /\ permit' = [permit EXCEPT ![r][Mission(r)] = Settled(@, kind, consumed)]
          /\ faults' = faults
       \/ /\ faults < MaxFaults
          /\ faults' = faults + 1
          /\ permit' = permit
    /\ exec' = [exec EXCEPT ![r] = [Idle EXCEPT !.pc = "RECORDED", !.mission = Mission(r)]]
    /\ worker' = [worker EXCEPT ![r] = NoWorker]
    /\ UNCHANGED <<now, policy, launch, holder, sent>>

-----------------------------------------------------------------------------
(* The worker process.                                                     *)

\* A process is started, and is handed what is left of the grant.
Spawn(r) ==
    /\ exec[r].pc = "ADMITTED"
    /\ exec' = [exec EXCEPT ![r].pc = "WORKING", ![r].tried = @ + 1]
    /\ worker' = [worker EXCEPT ![r] = [NoWorker EXCEPT !.fate = "RUNNING"]]
    /\ UNCHANGED <<now, policy, launch, holder, permit, sent, faults>>

\* No worker reads the mission: its mandate cannot be provisioned, the process
\* cannot be started, or it refuses its environment or its request.
Unstarted(r) ==
    /\ exec[r].pc = "ADMITTED"
    /\ Settle(r, "RELEASE", 0)

\* The worker's own count stops it before the request, not after.
HasAllowance(r) == worker[r].attempts < exec[r].left

Asks(r) == worker[r].fate = "RUNNING" /\ exec[r].pc \in {"WORKING", "DEAD"}

Answered(r, answer) ==
    /\ Asks(r) /\ HasAllowance(r)
    /\ sent' = [sent EXCEPT ![r][Mission(r)] = @ + 1]
    /\ worker' = [worker EXCEPT ![r] = [answer EXCEPT !.attempts = @ + 1]]
    /\ UNCHANGED <<now, policy, launch, holder, permit, exec, faults>>

\* The model calls tools, which may reach the merchant; another turn follows
\* unless this was the last.
CallTools(r) ==
    \E touched \in BOOLEAN :
        Answered(r, IF worker[r].turn = MaxTurns THEN Ended(worker[r], "REPORTED")
                    ELSE [worker[r] EXCEPT !.reached = @ \/ touched, !.turn = @ + 1,
                                           !.throttled = 0])

\* The model pays, abstains, refuses or ends without structure.
Finish(r) == Answered(r, Ended(worker[r], "REPORTED"))

\* The provider asks for patience: the same turn asks again, a few times.
Throttle(r) ==
    /\ worker[r].throttled + 1 < ThrottleLimit
    /\ Answered(r, [worker[r] EXCEPT !.throttled = @ + 1])

\* The provider fails, answers nonsense, or has throttled too long.
Unavailable(r) == Answered(r, Ended(worker[r], "UNAVAILABLE"))

\* The worker stops at the limit of its grant and reports nothing.
Exhaust(r) ==
    /\ Asks(r) /\ ~HasAllowance(r)
    /\ worker' = [worker EXCEPT ![r] = Ended(worker[r], "EXHAUSTED")]
    /\ UNCHANGED <<now, policy, launch, holder, permit, exec, sent, faults>>

\* The worker dies, is killed at its deadline, or reports what nobody can read.
Crash(r) ==
    /\ Asks(r)
    /\ worker' = [worker EXCEPT ![r] = Ended(worker[r], "CRASHED")]
    /\ UNCHANGED <<now, policy, launch, holder, permit, exec, sent, faults>>

-----------------------------------------------------------------------------
(* What the run makes of the worker's end.                                 *)

\* Another credential may be tried only where the merchant was never reached,
\* and only on what is left of the grant.
MayRotate(r) ==
    /\ worker[r].fate = "UNAVAILABLE" /\ ~worker[r].reached
    /\ exec[r].tried < Keys
    /\ Consumed(r) < Mine(r).granted

\* Fault: the next process is handed the whole grant again.
LeftAfterRotation(r) == Mine(r).granted

Left(r) == Mine(r).granted - Consumed(r)

Rotate(r) ==
    /\ exec[r].pc = "WORKING" /\ MayRotate(r)
    /\ exec' = [exec EXCEPT ![r].pc = "ADMITTED", ![r].spent = Consumed(r), ![r].left = Left(r)]
    /\ worker' = [worker EXCEPT ![r] = NoWorker]
    /\ UNCHANGED <<now, policy, launch, holder, permit, sent, faults>>

Collect(r) ==
    /\ exec[r].pc = "WORKING"
    /\ \/ /\ worker[r].fate \in {"REPORTED", "UNAVAILABLE"} /\ ~MayRotate(r)
          /\ Settle(r, "RECONCILE", Consumed(r))
       \/ /\ worker[r].fate = "EXHAUSTED"
          /\ Settle(r, "RECONCILE", Mine(r).granted)
       \/ /\ worker[r].fate = "CRASHED"
          /\ Settle(r, "ASSUME", 0)

\* The mission is recorded; the next begins, or the run completes.
NextMission(r) ==
    /\ exec[r].pc = "RECORDED"
    /\ IF Mission(r) < MissionCount
       THEN /\ exec' = [exec EXCEPT ![r].pc = "READY", ![r].mission = @ + 1]
            /\ launch' = launch
       ELSE /\ exec' = [exec EXCEPT ![r] = [Idle EXCEPT !.pc = "OVER"]]
            /\ launch' = [launch EXCEPT ![r] = IF r \in LaunchRuns THEN "COMPLETED" ELSE @]
    /\ UNCHANGED <<now, policy, holder, permit, worker, sent, faults>>

\* The process of the run dies, or its mission cannot be begun after the
\* reservation.  Its transaction is rolled back, a worker it started lives on.
Die(r) ==
    /\ exec[r].pc \notin {"IDLE", "OVER", "DEAD"} /\ faults < MaxFaults
    /\ faults' = faults + 1
    /\ exec' = [exec EXCEPT ![r].pc = "DEAD", ![r].since = 0, ![r].offer = 0]
    /\ holder' = IF holder = r THEN None ELSE holder
    /\ UNCHANGED <<now, policy, launch, permit, worker, sent>>

\* The operator aborts the dead run and settles its launch.  Nothing settles
\* its permit.
OperatorSettles(r) ==
    /\ exec[r].pc = "DEAD" /\ launch[r] = "EXECUTING"
    /\ launch' = [launch EXCEPT ![r] = "FAILED"]
    /\ UNCHANGED <<now, policy, holder, permit, exec, worker, sent, faults>>

-----------------------------------------------------------------------------
Process(r) ==
    \/ AdmitLaunch(r) \/ Bind(r) \/ Arrive(r) \/ Halt(r) \/ Reckon(r) \/ Reserve(r)
    \/ Spawn(r) \/ Unstarted(r) \/ Rotate(r) \/ Collect(r) \/ NextMission(r)

Work(r) ==
    \/ CallTools(r) \/ Finish(r) \/ Throttle(r) \/ Unavailable(r) \/ Exhaust(r) \/ Crash(r)

Next ==
    \/ Tick \/ SetPolicy
    \/ \E r \in Runs : Process(r) \/ Work(r) \/ Die(r) \/ OperatorSettles(r)

Spec == Init /\ [][Next]_vars

-----------------------------------------------------------------------------
(* Properties.                                                             *)

\* Each row and each process is in a state the code writes.
GovernanceTypeOK ==
    /\ now \in 0..MaxNow /\ holder \in Runs \cup {None} /\ faults \in 0..MaxFaults
    /\ launch \in [Runs -> {"DIRECT", "QUEUED", "EXECUTING", "COMPLETED", "FAILED"}]
    /\ \A r \in Runs : \A m \in Missions :
        /\ permit[r][m].state \in PermitStates \cup {"NONE"}
        /\ permit[r][m].state # "NONE" => permit[r][m].granted \in 1..Budget.mission
        /\ permit[r][m].consumed <= permit[r][m].granted

\* A permit that was given back when a worker had spent some of it: a second
\* process that never started releases what the first consumed
\* (benchmark/isolation.py, _spawn under _attempted).
ReleasedAfterSpending(r, m) == permit[r][m].state = "RELEASED" /\ sent[r][m] > 0

\* Nothing reaches the provider that no permit covers.  Across the processes of
\* a mission, whatever killed them and whichever credential they used, the
\* requests stay within the grant; and what a settled permit is charged covers
\* them, but for a permit released after an earlier process spent.
SpendingIsCovered ==
    \A r \in Runs : \A m \in Missions :
        /\ sent[r][m] <= permit[r][m].granted
        /\ sent[r][m] <= Charge(permit[r][m]) \/ ReleasedAfterSpending(r, m)

\* The promise of capacity.py and permits.py: RELEASED is written only where no
\* provider call could have been made.
ReleasedMeansUnspent ==
    \A r \in Runs : \A m \in Missions : ~ReleasedAfterSpending(r, m)

LargestCap == Most({p.cap : p \in Policies})
Concurrency == Most({p.concurrent : p \in Policies})

\* In no window of the clock are runs granted more than the operator ever
\* allowed, although a transaction reads the clock before it waits for the lock
\* and operator and launch runs reserve at the same time.
InForce(t) ==
    {k \in Counted(t) : permit[k[1]][k[2]].opened <= t}
WindowIsKept == \A t \in 0..now : ChargeOver(InForce(t)) <= LargestCap

\* No more launches execute than the provider takes at once, whoever binds.
LaunchesShareProvider ==
    Cardinality({r \in LaunchRuns : launch[r] = "EXECUTING" /\ exec[r].pc # "DEAD"}) <= Concurrency

\* The provider never carries more than was allowed of it, in requests or in launches.
ProviderIsShared == WindowIsKept /\ LaunchesShareProvider

\* A launch never spends more than it froze, and is refused a mission for its
\* budget only if another mission took more than one request per turn.
BudgetIsHonest ==
    \A r \in Runs :
        /\ RunCharge(r) <= Budget.total
        /\ exec[r].why = "LAUNCH_BUDGET_EXHAUSTED" =>
              \E m \in Missions : Charge(permit[r][m]) > MaxTurns

\* What was spent was granted, what was granted is charged, and what is charged fits the budget.
SpendingIsAccounted == GovernanceTypeOK /\ SpendingIsCovered /\ BudgetIsHonest

-----------------------------------------------------------------------------
(***************************************************************************)
(* The inductive invariant behind SpendingIsAccounted and                  *)
(* ProviderIsShared.                                                       *)
(***************************************************************************)

Stages == {"IDLE", "BINDING", "READY", "WAITING", "RECKONED", "ADMITTED", "WORKING",
           "RECORDED", "OVER", "DEAD"}
BeforePermit == {"IDLE", "BINDING", "READY", "WAITING", "RECKONED"}
Fates == {"NONE", "RUNNING", "REPORTED", "UNAVAILABLE", "EXHAUSTED", "CRASHED"}
Reasons == {"NONE", "PROVIDER_PAUSED", "LAUNCH_BUDGET_EXHAUSTED", "PROVIDER_WINDOW_CAP_REACHED"}

PermitRows == [state : PermitStates \cup {"NONE"}, granted : Nat, consumed : Nat, opened : Nat]
ExecRows == [pc : Stages, mission : Missions, since : Nat, offer : Nat, left : Nat,
             spent : Nat, tried : Nat, why : Reasons]
WorkerRows == [fate : Fates, attempts : Nat, turn : Nat, throttled : Nat, reached : BOOLEAN]

FieldsOK ==
    /\ now \in 0..MaxNow /\ faults \in 0..MaxFaults
    /\ policy \in Policies /\ holder \in Runs \cup {None}
    /\ launch \in [Runs -> {"DIRECT", "QUEUED", "EXECUTING", "COMPLETED", "FAILED"}]
    /\ permit \in [Runs -> [Missions -> PermitRows]]
    /\ exec \in [Runs -> ExecRows]
    /\ worker \in [Runs -> WorkerRows]
    /\ sent \in [Runs -> [Missions -> Nat]]

\* What a row of the permits says, and what was sent under it.
PermitStands(p, requests, at) ==
    /\ p.state = "NONE" => p = NoPermit
    /\ p.state # "NONE" => p.granted \in 1..Budget.mission
    /\ p.consumed <= p.granted /\ p.opened <= at
    /\ requests <= p.granted
    /\ requests <= Charge(p) \/ p.state = "RELEASED"

PermitsKnow == \A r \in Runs : \A m \in Missions : PermitStands(permit[r][m], sent[r][m], now)

\* A run has no permit ahead of its mission, and a worker only under an open one,
\* of which it has sent no more than it was handed.
ProcessStands(r) ==
    /\ \A k \in Missions :
         exec[r].pc # "OVER" /\ (k > Mission(r) \/ (k = Mission(r) /\ exec[r].pc \in BeforePermit))
           => permit[r][k] = NoPermit
    /\ exec[r].pc \notin {"WORKING", "DEAD"} => worker[r] = NoWorker
    /\ exec[r].pc \in {"ADMITTED", "WORKING"} \/ worker[r].fate = "RUNNING" =>
         /\ Mine(r).state = "RESERVED"
         /\ Mine(r).granted = exec[r].spent + exec[r].left
         /\ sent[r][Mission(r)] = Consumed(r)
         /\ worker[r].attempts <= exec[r].left
    /\ exec[r].since <= now
    /\ exec[r].why # "NONE" => exec[r].pc = "OVER"

ProcessesKnow == \A r \in Runs : ProcessStands(r)

ExecutingLaunches == {r \in Runs : launch[r] = "EXECUTING"}

\* What the holder of the provider's lock found out holds until it writes.
HolderStands(r) ==
    /\ exec[r].pc \in {"BINDING", "RECKONED"} => holder = r
    /\ exec[r].pc = "BINDING" => Cardinality(ExecutingLaunches) + 1 <= Concurrency
    /\ exec[r].pc = "RECKONED" =>
         /\ exec[r].offer \in 1..Budget.mission
         /\ RunCharge(r) + exec[r].offer <= Budget.total
         /\ \A t \in 0..now : t = exec[r].since => WindowCharge(t) + exec[r].offer <= LargestCap

HolderKnows == \A r \in Runs : HolderStands(r)

IInv == /\ FieldsOK
        /\ PermitsKnow
        /\ ProcessesKnow
        /\ HolderKnows
        /\ WindowIsKept
        /\ Cardinality(ExecutingLaunches) <= Concurrency
        /\ BudgetIsHonest

=============================================================================
