# A verification development for agentrank

agentrank (a Python API under `src/apps/api/src/agentrank_api`, a web console under `src/apps/web`) lets
AI buyers shop at a merchant under a spending mandate, measures how well they do, tells the merchant why,
and compiles the merchant's catalog into a representation they do better with. Two things must not be
wrong: the part that sells (a mandate buys once, the stock a buyer was promised is there, and a provider
that loses an answer never becomes a second charge) and the part that judges (a verdict, a figure and a
finding say what the rows say). The modules beside this file cover both. Paths below are relative to
`src/apps/api/src/agentrank_api/` unless they begin with `src/`.

## The system: components, their state, their operations

| Component | State it keeps | Operations that change it | What makes it correct |
|---|---|---|---|
| Mandates (`mandates/`) | `spending_mandate`: status, validity window, ceilings | create, revoke | nothing is admitted under a revoked or lapsed mandate |
| Intent constraints (`constraints/`) | one frozen set of rules per mandate | state once | what is paid for is what was stated |
| Checkouts (`checkout/`) | `checkout_session`: OPEN, CANCELLED or PAID, expiry, priced lines | quote, cancel, mark paid | a paid quote and a quote with an unresolved payment cannot be withdrawn |
| Gates (`checkout/*authorization.py`) | none | pure decisions, taken under locks | decided at the accounting instant and again when nothing can block any more |
| Inventory (`inventory/`) | reservations and their lines, `variant.inventory_quantity` | reserve, commit to a payment, release, consume | what is held at any instant is on the shelf |
| Payments (`payments/`) | `payment_attempt`: ADMITTED, IN_FLIGHT, UNKNOWN, SUCCEEDED, FAILED | admit, dispatch, record, reconcile, abandon, resume, sweep | one purchase per mandate, no second charge, no invented outcome |
| Provider (`payments/provider.py`, `fake.py`) | a ledger by payment identity | execute, query | the same identity is charged at most once; an absence may be final |
| Razorpay (`razorpay/`) | `razorpay_checkout`: the order an attempt is bound to | prepare, bind, verify, confirm | an attempt is charged through one channel only |
| Credentials (`auth/`, `benchmark/endpoint.py`) | API keys, console sessions | issue, revoke, authenticate, open, close, purge | nobody acts with a key that stopped working |
| Launch queue (`benchmark/launch.py`, `dispatch.py`) | `evaluation_launch` rows | request, claim, bind, settle, cancel, withdraw | one launch runs once and always ends |
| Provider governance (`benchmark/permits.py`, `capacity.py`) | policy, permits, the window | reserve, reconcile, assume spent, release | what is charged never exceeds the window |
| Isolated worker (`benchmark/isolation.py`, `worker.py`, `llm.py`, `agent_trace.py`) | one process per mission and its evidence | spawn, shop, call, exit, retry | the evidence is whole and the merchant meets one buyer |
| Runs (`benchmark/runner.py`, `environment.py`, `mutation.py`) | runs, missions, the claimed world | start, record, complete, abort, claim, reset | one run at a time has a merchant's world to itself |
| Measurement (`benchmark/tools.py`, `substantiation.py`, `evaluation.py`, `metrics.py`) | the evaluation of a mission | watch, substantiate, evaluate, sum up | a verdict follows from rows, not from what the buyer says |
| Experiments (`benchmark/experiment.py`, `diagnostics/comparison.py`) | samples in declared order | next treatment, bind a run | arms alternate as declared; a conclusion needs complete pairs |
| Diagnostics (`diagnostics/`) | none | readings of runs that may still move | a merchant is blamed for what it published |
| Sources (`representation/`) | frozen source snapshots, published representations | intake, publish | no edit overwrites evidence its page did not show |
| Importer (`importer/`) | imports and their drafts | target, retrieve, extract, draft, confirm | every page is answered for, no value is made up |
| Compiler (`compiler/`) | runs, candidates, reviews | compile, review, publish | what is published is what was reviewed |
| Workspaces (`workspace/`) | an isolated world and a suite per source | preflight, bootstrap | the generated answer key is true of the frozen catalog |
| Audit (`audit/`) | append only events | append | written in the transaction it describes |
| Routes, command line, web console | none | translate requests | |

They interact through rows of one PostgreSQL database (READ COMMITTED, row locks in the order of
`locking.py`, advisory locks of the provider and of a merchant's world), through network calls made with no
transaction open (payment providers, model providers, a merchant's pages), and through operating system
processes (dispatchers, one worker per mission, commands). No threads share state: what interleaves are
transactions, network calls, processes that die, and the clock.

What is hard: a decision taken before a lock was waited for may not hold after it; objects stay in a
session over commits and a `FOR UPDATE` select does not always refresh them; a provider may act and lose
its answer; operators act outside the buyers' protocol; reports are read statement by statement while
their rows move; and three parts of the code read one stated requirement independently of each other.
`PROJECT.json` lists each hazard at the line where it bites, with the properties that would catch it.

## The modules

| Module | What it is |
|---|---|
| `PaymentKernel` | mandates, quotes, holds, stock, attempts, the provider, database sessions and the clock, with one action per step of a transaction that others can see |
| `OnePurchase` | what the kernel promises: a mandate is claimed by one payment at a time, and a purchase takes its units off the shelf in the same step |
| `PaymentSchema` | the tables under the kernel: what a CHECK, an index, a foreign key or a trigger refuses, and what a downgrade does |
| `ReconciliationSweep` | the bounded sweep over unresolved payments, over the kernel |
| `PaymentKernelProofs` | the theorems about the kernel, its tables and its sweep, the refinement of `OnePurchase` among them |
| `RazorpayCheckout`, `RazorpayCheckoutProofs` | the interactive bridge, over the kernel |
| `EvaluationLaunches`, `EvaluationLaunchesProofs` | one merchant's evaluations: launches, runs, the world a run owns, dispatchers, the operator and ordinary callers |
| `ProviderGovernance`, `ProviderGovernanceProofs` | permits, the window and the budget, with the workers that spend them |
| `CatalogConsole`, `CatalogConsoleProofs` | one merchant's console: sources, imports, compilations, reviews, publications, setups, launches |
| `AccessKeys`, `AccessKeysProofs` | keys, browser sessions, the keys of a run, and the guard of a running world |
| `ConstraintRules` | values, their comparison, what a statement becomes, and when an entry of a catalog meets it; operators only |
| `StatedRequirements` | the reference buyer and an agent under the gates, in a catalog that moves |
| `GeneratedSuite` | the projection of a source and the suite generated from it |
| `BuyerEvidence` | the loop of a model buyer, the evidence it leaves, and the trusted side that reads it |
| `MissionMeasurement` | one mission from its calls to its verdict and the figures of its run |
| `RunDiagnosis` | the reading of a run and the findings |
| `CompilerExperiments` | the samples of an experiment and the two comparisons of runs |
| `DecisionsProofs` | the theorems about the evidence, the measurement, the diagnosis, the experiments, the requirements a buyer states, the import and the suite |
| `SiteImport` | one import of a merchant's pages |
| `SumFacts` | lemmas about sums over finite sets and about least and greatest numbers, for the proofs of the stock, the holds, the provider's window, the demand of findings and the total of a quote |
| `MC...` | the root modules of the runs: `MCDecisions` holds the seven subsystems that judge, one at a time; it extends the seven modules that `DecisionsProofs` is about |

### PaymentKernel: how state and actions correspond to the code

Rows are functions of their identity: `mandate`, `checkout`, `hold` (the reservation rows of each quote,
in the order they are created), `stock`, `attempt`, with `by` for `outcome_source` and `bound` for
`reservation_id`. The provider's side is `ledger` and `charges`; `call` is the one provider call a dispatch
makes, from SENT to the answer the caller has in hand, ORPHANED when the caller died before the answer.

A row lock is not a variable. A transaction that must be able to hold a lock while it waits for another
has a program counter in `session`, and a step that needs a lock is disabled while another session has it:

* preparation (`checkout/execution.py` `prepare_execution`) is `BeginPrepare` (mandate and checkout locked,
  gate decided) and `FinishPrepare` (variant locks, gate again, hold taken);
* admission (`payments/admission.py`) is `BeginAdmit`, `ReadHold` (the unlocked read of the reservation)
  and `Decide` (identity, single purchase, insert, commit the hold by the status it was read with);
* dispatch (`payments/execution.py`) is `Dispatch` (the mark, committed before the call), `ProviderExecute`,
  `CallerCrash`, and `RecordExecution`;
* reconciliation is `Ask`, `Query` and `RecordReconciliation`; resumption (`PaymentService.resume`) is
  `Dispatch` for an admitted attempt and `Ask` for the others, so it has no action of its own;
* recording an outcome is one step, because the locks it takes exclude every step that could see it half
  done: `MarkSucceeded` is the attempt, the quote, the hold and the stock together. `Recordable` is when
  none of the repositories raises; otherwise the transaction is rolled back and nothing happened;
* `Abandon`, `Cancel`, `Revoke` are one transaction each; `WorkerCrash` rolls a session back.

Amounts, ceilings and intent verdicts are the constant `Permitted`, because quote lines and mandate
ceilings are immutable once written; how they are decided is `StatedRequirements`. Audit events are left
out except the outcome conflict. No action reads the unique indexes and the update triggers of the
migrations: what holds of the kernel holds by the services' own checks and locks.

### PaymentSchema

Has no action. `Tables` is what the CHECKs, the partial unique indexes and the foreign key of an attempt to
its hold demand of the rows (`src/migrations/versions/20260821_*.py`, as the later migrations widen them),
`Guards` what the four triggers let an update do, `Reversible` when the migration that created the payments
agrees to be undone. Because the kernel knows nothing of them, a step could write what they refuse, and
`DatabaseNeverRefuses` says that none does.

### ReconciliationSweep

Extends the kernel with the order in which attempts were admitted and with a `sweep` of every worker:
`List` takes the snapshot of the oldest unresolved up to `Limit`, as the set of their places in that order
with the status each was read with; `Turn` is the least of what is left. Each item is skipped, refused
because a benchmark run owns the world (at any moment: whose it is is not state here), found resolved, or
asked about by the kernel's own steps. Beside it others sweep the same list, reconcile one payment by hand
(`AskOne`), and take every other step of the kernel. A row that contradicts the provider's answer raises
what no sweep catches and ends the batch (`Raises`). `told` is what the last step told an operator and
`claimed` counts the reports that claim a resolution; both are history, and no step reads them.

### RazorpayCheckout

Extends the kernel with rows (`binding`, `confirmedBy`), Razorpay's side (`order`, `payment`), and `desk`,
what each request of the interactive routes is in the middle of. A step of the kernel leaves all of it
alone: nothing in the kernel knows that a binding exists.

* preparation (`razorpay/service.py`) is `CheckEligible` (an unlocked read), `ReserveBinding`, `ObtainOrder`
  (a network call that may act and lose its answer) and `BindOrder`;
* verification (`razorpay/verification.py`) is `BeginVerify` (load the binding, record an external
  dispatch), `FetchPayment` or `FetchNothing`, `ApplyObservation` (the kernel's own recording of an outcome)
  and `Confirm` (the evidence, a transaction of its own);
* the row of a binding is locked by a statement that does not refresh the object the session already has
  (`razorpay/repository.py`), so what decides in `BindOrder` and `Confirm` is the status read first and what
  the update meets is the row as it is. `MayBind` and `MayConfirm` are the trigger that refuses; a request it
  refuses is `broken`, an error of the database that nothing translates.

Callbacks are authentic: a signature is never forged, and names a payment of the order.

### EvaluationLaunches

One merchant, because every exclusion in the code is per merchant. `launch` and `run` are rows, `shelf` is
who the world was last reset for, `dispatcher` is a process of `benchmark dispatch`, and `request` is a change
to the world that has been allowed and not committed.

* `RequestLaunch` and `Withdraw` (`benchmark/launch.py`) are one transaction under the advisory lock of the
  world; `CancelQueued`, `AbortRun` and `SettleForTerminalRun` are the operator's;
* a dispatcher (`benchmark/dispatch.py`) goes through `Claim`, `PrepareWorld` and `StartRun`
  (`start_suite`), `BindRun`, then for every mission `ResetWorld`, `StartMission`, `RecordMission`, then
  `CompleteRun` and `SettleCompleted`. A claim with its plan is one step, because its row lock is held
  throughout; between `Claim` and `BindRun` no lock is held, and that is where the others act;
* capacity halts it in `HaltAtBind` or `HaltRun`; what follows is `AbortHalted`, `ReadHalted` (an unlocked
  read) and `SettleHalted`, which decides by that read. `Die` is a process that ends anywhere;
* `CheckRequest` and `CommitRequest` are the two sides of `benchmark/mutation.py`: the active run is read
  without a lock, and the change commits later.

A dispatcher's session keeps its objects over commits (`expire_on_commit` is off) and a `FOR UPDATE` select
does not refresh them, so the run stays RUNNING to it whatever an operator did. The checks that read it
therefore never refuse, and are not in the model; what refuses is `RunGuard` and `LaunchGuard`, the triggers
of the tables, and the process ends. That is why these triggers decide something here and nothing in the
kernel, whose locks do refresh.

### ProviderGovernance

`policy` is the operator's row, `permit` the row of each run and mission, `exec` what a run's process is
doing, `worker` its worker process with the allowance it was handed, `sent` the requests that did reach the
provider, which no row knows. `holder` is the advisory lock of the provider: a reservation is taken, and its
grant computed from the window and from the budget of the launch, in several steps under it. A mission is
carried out by up to `Keys` worker processes; what is `Left` for the next one comes from what the trusted
side can establish about the one before. A permit ends reconciled, assumed spent, released, or settled by an
operator, and a process may die holding any.

### CatalogConsole

`line`, `compiled`, `published`, `setups` and `launches` are rows in the order they were written, `claim` the
lock of the merchant's world, `tab` what a browser page showed when it was loaded and `op` what each request
is in the middle of. Submission, retrieval, confirmation, compilation and bootstrap take several steps with
other transactions between them; review, publication, withdrawal and dispatch are one transaction each. The
blockers of a setup (`workspace/service.py`) are read under the claim, the source they are about under
another lock.

### AccessKeys

A request authenticates in one transaction and acts in another, so `act` holds what it was admitted with.
A revocation reads its key without a lock and writes later; `Guard` is the trigger that refuses the second
write. The clock makes browser sessions lapse, `PurgeSelect` and `PurgeDelete` are the two statements of the
purge, and `Execute`, `IssueForRun` and `CloseEndpoint` are the executor that issues itself a key for a run.

### ConstraintRules, StatedRequirements and GeneratedSuite

`ConstraintRules` is the vocabulary: a value with its type, `Compare` (a value of another type cannot be
read, which is not the same as being unequal), `LookupAttribute` (the exact name, or the only one that
differs in case), `SemanticSpecs` (categories fold into one rule), `Assess` (the reference buyer's question)
and `Qualifies` (the oracle's). Text is a value with its normal form in the constant `Normal`; a value is
the set of its members, and the rules stored are a set, because nothing that reads them asks for an order.
What a brief states keeps its order, which decides what is reported first.

`StatedRequirements` lets two buyers use it: the reference executor (`Search`, `Open` per product,
`BuyNothing` or `AuthorizeSpending`, `StateRequirements`, `Quote`, `Prepare`, `Pay`) and an agent that
authorizes and quotes what it likes and may state twice. The merchant moves one variant at any moment, and
may revoke.

`GeneratedSuite` projects a source line by line (`ProjectCatalog`, with every refusal in its order) and
builds the suite (`GenerateSuite`): eight families propose briefs for each category and currency, the
catalog is asked for the answer (`Agrees`), and the missions are drawn in turn up to the budget. The two
are single functions of the code, so they are two actions; the work is in the operators. The lists of the
code are sets here, and the places on them are counted: what is sorted is ordered by a relation (`Precedes`,
`Sooner`), and what a list is cut off at is the number of those that come before. A brief has its category
at the first place and its fact at the second.

### BuyerEvidence, MissionMeasurement, RunDiagnosis, CompilerExperiments, SiteImport

* `BuyerEvidence`: `buyer` is the loop of `LLMBuyer` with its turns, retries and allowance, `log` the
  evidence with its limit of events, `host` the trusted side with its second credential. A process may be
  killed at every step.
* `MissionMeasurement`: the buyer is free, and so is its report. Rows (`quotes`, `attempts`) move by what
  it calls; `standing` says of each quote whether the gates have allowed it, whether it holds its stock and
  whether it is closed (paid, expired or without a mandate), so that a payment is admitted only on a quote
  that is held while a preparation that was denied holds nothing. `PreparationLost` takes the hold and loses
  the answer, `AskedAgain` is a payment under a key that has its attempt, answered with what the gates say
  now. `evidence` keeps the last answers that leave no row; `Finish` substantiates, evaluates and adds the
  mission to the run, an executor that raised counting as the buyer's fault where no call failed before.
* `RunDiagnosis`: `LoadRun`, `ReadTraces`, `ReadVariants` and `VerifyAndReport` are the statements of one
  reading, while missions finish, the run ends and the catalog moves. The rules of `diagnostics/mission.py`
  with their precedence, and the grouping of `findings.py`.
* `CompilerExperiments`: `NextTreatment` and `BindRun` are two transactions with the start of a run between
  them. An experiment and a comparison are read run first, missions after. `compare_show` reads an
  experiment twice in one session: `ShowExperiment` begins the pass its figures are made of, `Diagnose` the
  one its conclusion is drawn from. The second sees the samples as the first did, for the session still
  holds them, and the status of a run either as it now is or as the session still holds it (`StatusRead`).
* `SiteImport`: pages are taken in order under the byte budget, the page limit, the redirects and the
  deadline; `ExtractProduct` reads variants, offers, stock and amounts of minor units out of what a page
  publishes, with each refusal of the code. The variants of a product are a function of their places among
  the entries of its node, and the loop over them is what it stops at: `Described` are the entries up to
  the first that cannot be described, `Readable` those of them up to the first that clashes with one before.

### Fault operators

A definition whose comment begins with "Fault:" is a plausible mistake in the definition after it (a
dropped guard, a lock not taken, a field forgotten). Nothing uses it; it is there so that each property can
be shown to fail when the code is wrong in that way. `PROJECT.json` pairs them under "mutants".

## What is checked

All runs are exhaustive over their bounds. Deadlock is not checked in any of them: when every payment is
over, every launch settled or every report given, the system has nothing left to do. Symmetry is used where
the permuted values are interchangeable and no temporal formula with fairness is checked: runs in
`governance`, requests in `console`, keys, browser
sessions, processes and runs in `access`, operators in
`decisions`.

| Run | Instance | Question |
|---|---|---|
| `race` | one mandate, one quote, two idempotency keys, two sessions, one unit, clock 0..1 | does every interleaving of every operation keep the kernel's promises and stay within its tables, is `IInv` an invariant, and is it `OnePurchase`? |
| `shelf` | two buyers with a quote each, one unit, the first quote lapses | is what is held always on the shelf? |
| `shared_mandate` | two quotes under one mandate, abandonment in the middle of an admission allowed | does the mandate buy once, does every outcome have evidence, when is money charged twice? |
| `sweep` | a batch of one, in three scenarios: a rival operator, two buyers, an abandonment inside an admission | does the sweep reach a payment the provider has on record, and does each report say what its own call did? |
| `bridge` | one identity, two interactive requests, one hosted payment | is what is confirmed settled and captured, is what is over over, and does the evidence follow the outcome wherever a request died? |
| `launches` | two evaluations of two missions, two dispatchers, one ordinary caller, one fault | do settlements tell the truth, is a world one run's, does a queued launch end? |
| `governance` | two runs, of launches or operators, two missions, two credentials, one fault, one turn of the window | is every request covered and charged, is no window overdrawn, do launches share the provider? |
| `console` | two requests in flight, two documents, an import, one stale page, an operator | is no evidence overwritten unseen, what is published reviewed, and a launch measured on the world it was requested for? |
| `access` | two keys, two browser sessions, two runs, two processes, clock 0..2 | is a key revoked once, does what stopped working stay out, who changes the merchant? |
| `decisions` | seven subsystems, one at a time | is what is judged, diagnosed, compared, imported, generated and bought what the rows say? |
| `abandon_race` | as `race`, abandonment at any moment | a payment can be admitted against a hold that was given back (finding) |
| `bypass` | one mission with two quotes, every call answered | a purchase that passed the gates, prepared again once it is paid, is marked as made past them (finding) |

### The bounds, and why they are enough

Two attempts are the smallest number that can disagree, and the locks are per mandate and per quote, so a
third session adds only another party that waits: two keys on one quote, two quotes on one mandate, and
two mandates on one shelf are the three ways attempts share anything. `MaxHolds` 2 lets a quote lose a
hold to a failed payment and take a second one. One tick of the clock is one lapse, which can fall before,
between or after any two steps. A batch of one is the smallest the older payment can fill. The sweep is
explored in three scenarios that share nothing: "rivals" is one payment and a second operator that sweeps,
reconciles, cancels and revokes; "crowd" two payments, of which the older can fill every batch; "jam" two
payments for one quote with `AbandonIsQuiet = FALSE`, where finding 1 leaves a payment that ends every sweep
it is in. Each escape of `SweepSettles` is needed: without any one of them TLC refutes it.

Every race of the bridge is between two requests or between a request and the kernel: two desks and one
attempt have them all. Refunds are off (`MayRefund`): with them `EvidenceFollows` fails as it should,
because a payment given back before its evidence was written is no longer captured.

For the launches, two dispatchers are what can be stale about one another, two launches let a second
evaluation begin while a dispatcher still drives the first, two missions give a reset in the middle of a
run, and one fault (a death, a capacity halt, or the abort of a run that is being driven) is what each known
race needs. Five runs never run out. For the provider, two runs are a sum that can exceed the window, two
credentials a mission with a second process, two policies an operator who tightens the limit under running
permits. In the console every race is between one request and a later writer; `odd` is a document with
doubts, unreadable for the benchmark, and `plain` one without.

`decisions` enumerates inputs rather than interleavings: catalogs, briefs, verdicts, pages and sources are
chosen so that each guard of the code is taken and refused, alone and beside the one that precedes it. Its
seven parts share no row, so `focus` lets one move while the others stay where they begin. Experiments are
explored twice, each time within the constraint `Bounds`: "order" lets two operators and a launch that
completes race over two pairs whose runs all end alike, and "reading" lets one experiment or two runs be
read while they move, carried out by one command at a time, its first pair or its last run ending in every
way, outages among them, once the second pair has begun. Where `compare_show` reads it twice only the first
run ends in every way and only the last may be aborted: what moves between its readings is the second pair.
A provider that recovers and an oracle that disagrees tell only launches apart, so two compared runs end in
every pair of ways and an experiment's first run alone recovers. A mission with a second quote has no fault
but the harness's. Quotes have one line or two, and three variants stand for what can be wrong with a line.

### What the properties say

* `SingleUse`, `SaleIsWhole`, `NoOversell`, `OutcomeHasEvidence`, `ChargedTwiceOnlyAfterGivingUp`: the
  promises of the kernel. `HoldsFollowPayments`: an unresolved payment can still be recorded as a success,
  and no unit stays off the shelf for a payment that is over; it holds while no operator abandons in the
  middle of an admission (`AbandonIsQuiet`). `AdmittedUnderAuthority`: what a step may never do.
  `DatabaseNeverRefuses`: the services never rely on the database to stop them. `ImplementsOnePurchase`: the
  refinement. `OverIsForever` is checked where a second channel could break it, in `bridge`.
* `SweepSettles`: a dispatched payment the provider has on record is resolved, unless older ones fill every
  batch for good, one that cannot be recorded ends every batch, or runs own the world again and again.
  `ReportIsEarned`: what an operator is told is what that call did, and of all reports one at most claims a
  resolution, though two operators ask about one payment at once.
* `InteractiveIsSound`, `EvidenceFollows`: the binding, the attempt and Razorpay tell one story, and a
  verification that died half way is completed by the next one.
* `LaunchAgreesWithRun`, `HistoryIsFrozen`: a launch says what its run says, for ever, whichever of two stale
  processes wrote it. `ShelfIsKept`: nobody resets a world under a mission, and a stray change is one request
  wide. `NobodyWalksAway`, `QueuedEnds`: an operator is needed only after a fault.
* `SpendingIsAccounted`: what reached the provider is covered by a grant and charged, and a launch stays in
  its budget. `ProviderIsShared`: no window is granted more than the policies allow, and launches run side by
  side only as far as they allow.
* `NoLostEdit`, `ImportIsItsSource`, `PublishedIsReviewed`, `LaunchMeasuresOneWorld`: the console.
* `RevokedOnce`, `ChangesAreAuthorised`, `OutIsOut`: the keys.
* `EvidenceIsWhole`, `MerchantMeetsOneBuyer`: the evidence always ends with how the loop ended, within its
  limit, and a mission is tried again only if the merchant never saw it.
* `VerdictIsRight`, `FiguresAreHonest`: against a statement of success, escape and demand that shares
  nothing with the evaluator.
* `DiagnosisIsSound`: a merchant is blamed only with something to repair, an outage never becomes its fault,
  demand is counted once.
* `SamplesInOrder`, `ConclusionIsEarned`: arms alternate as declared under two operators and a dying
  command; a conclusion is about runs that completed, under the same pins, as they finally were. Two launches
  are at parity exactly if every mission ended alike and they count alike what was unsafe, what the oracle
  said otherwise and the missions the provider failed, recovered throttles included; the pairs of an
  experiment are not held to the last two, only to no mission having been ended by the provider. And the
  figures `compare_show` prints beside a conclusion do not contradict it: what they count as completed is
  what the conclusion counts, and once they count every sample they show no other models and, at parity, as
  many purchases in both arms. A run that completes between the two readings is missing from the figures and
  counted by the conclusion; the property allows that, because the code does.
* `BoughtAsStated`, `ReadersAgree`: nothing is paid for beyond the statement, whoever authorized more; and
  while nothing moves, the buyer, the gate and the oracle agree about every brief.
* `SuiteIsTrue`: every generated mission is answered by the reference buyer as its key says, at its worth;
  the gate accepts every brief; no family is drawn twice while another waits.
* `ImportIsSound`: a confirmable draft has no identity twice, no amount that was not published, and every
  page is imported, reported or past a limit that was reported.

### Fairness

`SweepFairness` is about one operator, who sweeps again and again and in the end without dying; a provider
that was called does something, a transaction that was begun ends, and an answer gets recorded in the end
(strong fairness, because the locks it waits for come and go). Nothing makes anybody else sweep or
reconcile, and nobody has to pay, resume, cancel or abandon. The code has no scheduler for the sweep: that a
person repeats it is what its docstring asks for, and what the property is conditional on.

`FairBridgeSpec` assumes a customer whose payment was captured presents the callback again and again, and
that neither the gateway nor the process fails at the same point every time. The fairness is that of any
desk, not of each.

`FairSpec` of the launches assumes that somebody goes on invoking `benchmark dispatch` (each invocation
takes one launch) and that a process which is alive takes its next step (weak fairness: no step of a
dispatcher is disabled by another party except for the length of a transaction). Nothing is assumed of the
merchant, the operator or the callers. The other runs check safety and assume no fairness.

### Findings

1. `abandon_race`. Admission reads the hold without locking it and later binds it by the status it read; an
   abandonment that commits in between leaves an ADMITTED payment whose reservation is RELEASED. A charge
   of that payment can never be recorded: consuming the hold raises, and the sweep that meets it stops.
   (The run `sweep` has it happen, in "jam", and `SweepSettles` has an escape for it.)
2. `bypass`. The evidence of a mission keeps its last authorization, whatever it decided about. A buyer
   that pays its quote and then prepares it again, or asks for the payment again under its own key, is
   answered with a denial, because the quote is paid; the payment both gates allowed is then marked
   ENFORCEMENT_BYPASSED and unsafe, which `benchmark/failures.py` calls unreachable. A second quote that is
   denied after the first was paid does the same. No call is lost in the run, none is refused for the
   buyer's own doing, and nothing was paid without a hold.

### Statements of the repository that the models refute

Each is a definition no run lists. Adding it to the named configuration, as an INVARIANT or, for
`QueuedMeansNothingRan`, a PROPERTY, makes TLC print how the statement fails.

| Definition | Configuration | The statement, and what happens |
|---|---|---|
| `AbandonedWasAsked` | `MCRace` | `payments/recovery.py`: only a queried payment is UNKNOWN. A dispatch whose call was not answered is too. |
| `LoserIsAnswered` | `MCBridge` | `razorpay/service.py`: a preparation that loses is not an error. It writes from a stale object and the trigger refuses it. |
| `AdmittedMeansUncharged` | `MCBridge` | `payments/execution.py`: ADMITTED was never charged. An interactive order stays ADMITTED after its customer paid, until verified. |
| `QueuedMeansNothingRan` | `MCLaunches` | `benchmark/dispatch.py`: QUEUED means nothing ran. The reset between two missions raises the same conflict. |
| `ReleasedMeansUnspent` | `MCGovernance` | `benchmark/permits.py`: a released permit was never spent. An earlier process of the mission may have spent before one that never started. |
| `RevokeIsIdempotent` | `MCAccess` | `auth/service.py:197`: a second revocation is answered. Of two at once, one ends in an error of the database. |
| `AllowanceIsOurs` | `MCDecisions` | `benchmark/isolation.py:744`: a spent allowance is the harness's fault. The evidence of an earlier process is read first. |
| `UnknownMeansUnreported` | `MCDecisions` | `benchmark/permits.py:201`: unknown usage carried no counts. The sanitizer redacts keys that contain "token", counts among them. |
| `NamesComeFromThePin` | `MCDecisions` | `diagnostics/service.py:776`: names are quoted only from the pinned catalog. Rows are read before the pin is verified. |
| `NoPriceIsChosen` | `MCDecisions` | `importer/draft.py:18`: two prices are never resolved by choosing. Of two nodes under one "@id" the second is never read. |
| `MoneyIsNeverTheReason` | `MCDecisions` | `workspace/generation.py:675, 703, 726`: more money would not help. It does where one category is spelled in two cases: the group is one spelling, the constraint is met by both. |
| `FactIsShown` | `MCDecisions` | `workspace/generation.py:608`: the buyer has to find the fact in prose. The line whose prose shows it may be the one out of stock. |
| `BothAreMeasured` | `MCDecisions` | `workspace/definitions.py:113`: a small budget still measures declining. With a cheapest price of one minor unit and a budget of two, it holds two purchases. |

Two more, seen while modelling: a brief that states one attribute twice with one operator passes the
definition of a suite and raises in the harness; and a brief without a category or an attribute is always
denied at the gate, which the code says of itself.

## What is proved

The theorems hold for every value of the constants that satisfies the named assumption of their module:
any number of mandates, quotes, identities, sessions, launches, dispatchers, requests, keys and processes,
any quantities, any clock. What the assumptions ask is that `None` names nothing, that bounds and amounts
are naturals, that a quote belongs to a mandate and an identity to a quote, and that what is summed is
finite: quotes (`FiniteAssumption`), policies and runs (`GovernanceAssumption`). Of the subsystems that
judge: the events of a process fit its log (`EventsFit`, which the frozen configuration satisfies), an
experiment has some number of pairs (`CountAssumption`), a verdict is terminal and gives reasons of the
evaluator's list of precedence (`VerdictsAssumption`), and a quote has a line, its lines are of variants of
the catalog, and the earlier missions of a run were measured as this one is (`MeasurementAssumption`);
money and stock are naturals, a brief wants at least one and its constraints are of the kinds a buyer may
state (`ShelfAssumption`, `BriefsAssumption`, `CatalogsAssumption`, `MandatesAssumption`); a page has some
size, an answer, and prices that are a whole number of some part of a unit (`PagesAssumption`), and the
limits of an import are naturals, those of its bytes and of a product's variants not zero
(`LimitsOfImport`); and a source is a list of lines whose prices are naturals, a count of stock being a
natural or not published (`SourcesAssumption`), the groups and the facts in use are lists
(`VocabularyAssumption`), the assumed stock and the budget naturals (`ConfigurationsAssumption`), and several
units, the missions of a family and the members of a value at least one (`SuiteLimitsAssumption`).

| Property | Theorem | In |
|---|---|---|
| `SingleUse`, `OutcomeHasEvidence`, `ChargedTwiceOnlyAfterGivingUp`, `TypeOK`, `ConflictIsARevival` | `SinglePurchase`, `Evidenced`, `NoSecondCharge`, `TypeCorrectness`, `OnlyRevivalsConflict` | `PaymentKernelProofs` |
| `IInv`, `SaleIsWhole`, `HoldsFollowPayments`, `NoOversell` | `Invariance`, `WholeSales`, `HoldsFollow`, `ShelfNeverOversold` | `PaymentKernelProofs` |
| `OverIsForever`, `AdmittedUnderAuthority`, `ImplementsOnePurchase` | `OverForGood`, `AdmissionsAreAuthorised`, `KernelImplementsOnePurchase` | `PaymentKernelProofs` |
| `DatabaseNeverRefuses`, `ReversalDropsNoPayment` | `ServicesAreNeverRefused`, `NothingIsLostGoingBack` | `PaymentKernelProofs` |
| `ReportIsEarned`; a sweep is a behaviour of the kernel | `ReportsAreEarned`; `SweepIsKernel` | `PaymentKernelProofs` |
| `InteractiveIsSound`, `SingleUse` and `OverIsForever` of the bridge | `InteractiveSound`, `BridgeBuysOnce`, `BridgeOverForGood` | `RazorpayCheckoutProofs` |
| `LaunchAgreesWithRun`, `ShelfIsKept`, `NobodyWalksAway`, `HistoryIsFrozen` | `LaunchesAgree`, `ShelfKept`, `RunsAreDriven`, `HistoryFrozen` | `EvaluationLaunchesProofs` |
| `SpendingIsAccounted`, `ProviderIsShared` | `SpendingAccounted`, `ProviderShared` | `ProviderGovernanceProofs` |
| `NoLostEdit`, `ImportIsItsSource`, `PublishedIsReviewed`, `LaunchMeasuresOneWorld` | `EditsSeen`, `ImportsKept`, `PublicationsReviewed`, `LaunchesMeasureOneWorld` | `CatalogConsoleProofs` |
| `RevokedOnce`, `ChangesAreAuthorised`, `OutIsOut` | `OneRevocation`, `AuthorisedChanges`, `OutForGood` | `AccessKeysProofs` |
| `EvidenceIsWhole`, `MerchantMeetsOneBuyer` | `NothingIsDropped`, `OneBuyerPerMission` | `DecisionsProofs` |
| `VerdictIsRight`, `FiguresAreHonest` | `VerdictsAreRight`, `FiguresAreKept` | `DecisionsProofs` |
| `DiagnosisIsSound` | `DiagnosesAreSound` | `DecisionsProofs` |
| `SamplesInOrder`, `ConclusionIsEarned` | `SamplesAreInOrder`, `ConclusionsAreEarned` | `DecisionsProofs` |
| `BoughtAsStated`, `ReadersAgree` | `NothingUnstatedIsPaid`, `ThreeReadersAgree` | `DecisionsProofs` |
| `ImportIsSound` | `ImportsAreSound` | `DecisionsProofs` |
| `SuiteIsTrue` | `SuitesAreTrue` | `DecisionsProofs` |

`HoldsFollow` carries the hypothesis `AbandonIsQuiet`, a constant: without it the property is false, which
is what `abandon_race` shows. `ThreeReadersAgree` carries the hypothesis that one search shows the whole
catalog, `Len(Shelf) <= SearchLimit`: a merchant with more listed products than `MAX_SEARCH_LIMIT` has some
that the oracle counts and the executor, which searches once, never sees.

### The arguments

No property is inductive alone. Each component's module ends with the inductive invariant the proofs use;
that of the kernel is a property of `race`, the others were checked by TLC under the configurations of
their runs by adding them as an INVARIANT, which anybody can repeat, and are listed by no run because
the theorems state more.

The kernel (`IInv` is `PaymentInv` and `SaleInv`):

* `SingleUse` needs `MandateLocked`, that one session at a time decides under a mandate: two sessions that
  both saw no open payment would both insert one.
* `OutcomeHasEvidence` needs `SessionKnows`, that a session which holds an answer holds one the ledger
  still supports, and `CallKnows`, that the wire and the ledger agree with the attempt. The final absence
  is the delicate case: a session may hold NEVER_EXECUTED only while no call is on its way.
* `ChargedTwiceOnlyAfterGivingUp` follows without further induction: a charge is a SUCCEEDED ledger entry
  (`CallKnows`), two of them cannot both be unresolved or succeeded (`SingleUse`), and one that failed other
  than by an operator has a ledger that is not SUCCEEDED (`OutcomeHasEvidence`).
* `SaleIsWhole` needs `DecidersKnow` (the mandate, the quote and the hold a session decides upon are as it
  read them, but for an abandonment) and `BoundHolds` (a hold a payment was admitted against is no longer a
  plain one), or a failed payment could give back a hold that another payment counts on.
* `NoOversell` is about the holds effective now, and is not inductive: a hold that lapses stops counting,
  its units may be promised to somebody else, and the admission that read it before would count it again as
  committed. `StockCoversPledges` counts the holds of those who are deciding too, lapsed or not; the
  preparation that could promise the units again is the one the mandate's and the variants' locks order.
* `ImplementsOnePurchase` takes the mapping of `PaymentKernel` (claims are unresolved attempts, purchases
  succeeded ones) through `IInv`: admission is a claim, success a purchase, failure an end, the rest a
  stutter.
* `DatabaseNeverRefuses` takes every step through `Effects`, the five kinds of write there are, each of
  which makes only transitions the triggers list. `IInv` is what the tables ask, but for one hold per quote,
  which is inductive beside it and does not need `AbandonIsQuiet`.
* `ReversalDropsNoPayment` needs `QuietUntilAnswered`: until some payment has an answer only a cancellation
  gives a hold back, and a quote with a payment in it is not cancelled, so that an ADMITTED attempt whose
  hold is no longer COMMITTED has a settled one beside it.
* `ReportIsEarned`: every step of a sweep is a step of the kernel, or leaves its variables alone, so the
  sweep inherits whatever is proved of it. `OrderKnows` (an attempt is listed once), `LeftKnows` of each
  worker (each place comes once, the item being asked about is the one whose turn it is, whoever has an
  answer has asked) and `ClaimsKnow` make `SweepInv`. Only a call that found the payment unresolved and left
  it resolved claims it; the resolution and its author stay, so whoever loses the lock finds it over.

The bridge rests on less than the kernel's invariant, because that does not hold beside it: an attempt is
dispatched without a call, and succeeds without a word of the kernel's provider. `KernelInv` keeps what
survives. The steps of both are reduced to five kinds of `Writing` (a mark, a reservation, an admission, a
resolution, a cancellation), and each is shown to keep `KernelInv` and what is over, whoever makes it.
`RequestsKnow` is what a request may still count on after the network call it waited for: captured stays
captured, and an attempt it saw succeed stays a success.

* Launches: a dispatcher counts on its run after any number of other processes acted (`DispatcherStands`);
  two dispatchers never have one run, so of two stale writers one is refused by the trigger.
* The provider: `HolderStands` says that what the holder of the advisory lock reckoned still fits the window
  and the launch's budget when it writes, because nobody else grants meanwhile, and `WindowIsKept` quantifies
  over every window there is, so that a turn of the clock needs no case of its own.
* The console: whoever builds or requests holds the merchant's claim (`OperationStands`), so what a plan was
  shown is what it measures when the launch is written.
* The keys: what a process was admitted with still stands or is caught by the trigger (`ProcessKnows`), and
  a row selected for a purge cannot be opened again before it is deleted (`PurgeKnows`).
* The evidence: the event limit is met turn by turn. `MostEvents` is what a process may have recorded where
  it stands, and the assumption `EventsFit` is exactly what makes the last event of the last turn fit.
* The measurement (`MeasurementInv`): a quote was of sellable lines when it was made, an attempt names a
  quote there is, and a verdict is the evaluator's of rows that are still there. What the evaluator says is
  then compared, case by case, with a statement of success that shares nothing with it; the total of a quote
  is a sum, and a line that costs too much alone makes the sum too large.
* The diagnosis (`DiagnosisInv`): rows are read before traces and traces before the catalog, so a report
  mixes instants; but a mission that was over when its row was read is over for good, and that is all a
  finding may rest on. Precedence puts what excuses the merchant first, every reason of the evaluator has a
  code with a rank, and the demand of the findings is a sum over fibres, each mission in one.
* The experiments (`ExperimentInv`): one run executes at a time and it is the latest, a command that was
  handed a sample still has the first free one (`CommandsKnow`), and what a reader has of a run is what the
  run is once it was read as completed (`ReaderKnows`, `TrueOf`), though rows were read one by one. So the
  second pass of `compare_show` finds a run its first found completed just as it found it (`SecondPass`),
  be it read afresh or held; if the first found all of them completed, the figures are of the very facts the
  conclusion is drawn from.
* The requirements (`StatedInv`): a brief is turned into rules once, while the mandate is within its limits
  (`Bounded`), and a mandate only ever loses its authority; so whatever the buyer says or quotes afterwards,
  a line that passes the gate is one the statement asks for (`GateIsTheStatement`). For `ReadersAgree`,
  `StillInv` adds what the executor knows while nothing moves: the hits it opened are what it took them for
  (`Browsed`), and it authorized, stated and quoted from them (`Undisturbed`). Then three lemmas about the
  operators: folding the categories loses nothing (`FreshIsEnough`), executor and oracle ask the same of an
  entry (`ExecutorAndOracle`), and the gate passes what the executor takes (`GatePasses`).
* The import (`ImportInv`): what a product is by itself (`WholeProduct`) is settled when its page is read,
  and is an argument about the operators: a loop that nothing stopped read every entry (`ReadWhole`), no two
  variants it read share a SKU (`ReadApart`), the identifiers taken keep one meaning (`ReadKnows`), and an
  amount that was not refused is the published one (`MinorIsExact`). Across pages, every identifier in the
  draft is one that was taken (`Identified`), the bytes spent are the sum of those recorded, and products
  come in the order of their pages (`ProductsInOrder`): without that, a page whose product was cut off could
  come before the page that the truncation names, and would go unanswered.
* The suite (`SuiteInv`): the catalog is what the source projects to and the suite what is drawn from it, so
  all is said about operators. A projected line is for sale (`WholeShop`), so executor and oracle ask the same
  of it (`ExecutorAndOracle` again, for any brief) and an agreed mission is what its key says (`AgreedIsTrue`).
  For the draw, the order of a family's candidates leaves no two undecided (`CandidatesAreOrdered`), so no two
  of its missions have one place and a family that has any has a first (`ResolvedIs`); whatever is sooner than
  that first is sooner than a second of any family, so where the second was drawn the first was
  (`DrawIsFair`).

`SumFacts` proves, by least counterexamples, what the others need of sums over finite sets.

## What is only model-checked, and why

* Liveness (`SweepSettles`, `EvidenceFollows`, `QueuedEnds`): the proof system has neither fairness nor
  ENABLED.
* `AbandonedWasAsked` and the other statements of the table of refuted ones are refuted by TLC alone.

## The plan

The order in which this was built: the kernel with its abstract specification, the bridge, the launches,
the sweep, the provider's governance, the keys, the console, the subsystems that judge, and the tables under
the kernel. Every invariant and every action property of the passing runs is proved. What is left: the tables
under the launches, the permits and the experiments, as `PaymentSchema` does for the kernel.

## What is not modelled

What a language model decides, prompts and wire formats, the parsing of HTML and resolution of addresses,
rendering, argument parsing and printing, the HTTP routes, the web console, and of the migrations what is
neither in `PaymentSchema` nor a trigger that decides something in the module that meets it. The audit trail, except where an
event carries meaning of its own. Ranking of search hits, and pricing of a quote's lines, are arithmetic
over rows read in one transaction. That the lock order cannot deadlock is not checked. Views that only read
(listings, usage reports, summaries of a workspace, the overview of diagnostics) change nothing and are left
out. That a provider forgets an operation after its retention (`payments/fake.py`) is left out because no
operation is sent twice (`SentOnce` of `OverIsForever`), and which products a
search of a larger catalog leaves out is abstracted, since everything said of it assumes one search shows
all. `PROJECT.json` says of each component which part is modelled and why the rest is not.
