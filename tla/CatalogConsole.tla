---------------------------- MODULE CatalogConsole ----------------------------
(***************************************************************************)
(* What one merchant does in the console, from source evidence to a queued *)
(* evaluation: submit a source document or import one from the storefront, *)
(* compile it, review what the compiler doubts, publish a representation,  *)
(* build an evaluation setup and request an evaluation of it.              *)
(*                                                                         *)
(* Three locks order the writers of a merchant: the source line, the       *)
(* publication line and the claim on the merchant's world.  None of them   *)
(* covers another: a setup is built, and an evaluation planned, from       *)
(* documents other transactions go on replacing, and a browser tab acts on *)
(* what was current when it was loaded.  Retrieval and compilation run     *)
(* outside any transaction.  A session that dies keeps what it committed.  *)
(*                                                                         *)
(* A snapshot is its position in the source line (write_order): version    *)
(* numbers label snapshots and order nothing.  There is one compiler       *)
(* configuration and one workspace configuration.                          *)
(***************************************************************************)
EXTENDS Naturals, Sequences, FiniteSets

CONSTANTS
    Sessions,     \* requests in flight
    Documents,    \* source evidence
    Doubtful,     \* evidence with a candidate that requires review
    Garbled,      \* evidence whose doubtful candidate requires a correction
    Unreadable,   \* evidence the compiler cannot extract
    Buildable,    \* evidence a world and its missions can be generated from
    Contradicts,  \* pairs <<represented, sold>> whose facts disagree
    Keys,         \* request keys of submissions
    Imports,      \* request keys of imports
    Fixtures,     \* evidence an operator publishes
    Drafts,       \* what a storefront's pages may yield: a document, or nothing
    MaxSnapshots, \* bound on the source line
    MaxLaunches,  \* bound on launches
    MaxRuns,      \* bound on benchmark runs
    None

ASSUME ConsoleAssumption ==
    /\ Garbled \subseteq Doubtful /\ Doubtful \subseteq Documents
    /\ Unreadable \subseteq Documents /\ Buildable \subseteq Documents
    /\ Fixtures \subseteq Documents /\ Drafts \subseteq Documents \cup {None}
    /\ Contradicts \subseteq Documents \X Documents
    /\ MaxSnapshots \in Nat /\ MaxLaunches \in Nat /\ MaxRuns \in Nat
    /\ None \notin Sessions \cup Documents \cup Keys \cup Imports \cup Nat
    /\ Keys \cap Imports = {}

VARIABLES
    line,        \* the source snapshots of the merchant, in write order
    submission,  \* what each submission key was answered with
    imported,    \* the row of each import
    compiled,    \* the compiler run of each snapshot, with its review
    published,   \* the published representations, in write order
    setups,      \* the evaluation workspaces: the snapshot each was built from
    foreign,     \* whether an operator registered a world of their own
    launches,    \* the evaluation launches
    run,         \* the executing benchmark run, and the setups with a completed one
    claim,       \* who holds the claim on the merchant's world
    tab,         \* what the merchant's page showed when it was loaded
    op           \* what each session is in the middle of

sources == <<line, submission, imported>>
artifacts == <<compiled, published>>
evaluations == <<setups, foreign, launches, run, claim>>
vars == <<sources, artifacts, evaluations, tab, op>>

Snapshots == 1..MaxSnapshots
SubmissionKeys == Keys \cup Imports

Unanswered == [snapshot |-> 0, created |-> FALSE, base |-> None]
NoImport == [stored |-> FALSE, draft |-> None, snapshot |-> 0]
NoRun == [status |-> "ABSENT", review |-> None, published |-> 0]
NoTab == [base |-> 0, plan |-> None]
Idle == [pc |-> "idle"]

Decisions == {"ACCEPT", "REJECT", "CORRECT"}

Init ==
    /\ line = <<>>
    /\ submission = [k \in SubmissionKeys |-> Unanswered]
    /\ imported = [i \in Imports |-> NoImport]
    /\ compiled = [n \in Snapshots |-> NoRun]
    /\ published = <<>>
    /\ setups = <<>>
    /\ foreign = FALSE
    /\ launches = <<>>
    /\ run = [launch |-> 0, setup |-> None, done |-> {}, started |-> 0]
    /\ claim = None
    /\ tab = NoTab
    /\ op = [s \in Sessions |-> Idle]

Current == Len(line)

-----------------------------------------------------------------------------
(***************************************************************************)
(* The source line.  Its lock is held from the read of the current         *)
(* snapshot to the commit, so each write of it is one step.                *)
(***************************************************************************)

\* Fault: an edit is stored whatever the page it was made on showed.
BaseIsCurrentUnchecked(base) == TRUE

\* _require_base: an edit names the snapshot it was made on, or none.
BaseIsCurrent(base) == base = None \/ base = Current

\* What storing doc under key does to the line: evidence equal to the current
\* snapshot answers with it and creates nothing.
Store(key, doc, base) ==
    LET same == Current > 0 /\ line[Current] = doc IN
    /\ submission[key] = Unanswered
    /\ BaseIsCurrent(base)
    /\ same \/ Current < MaxSnapshots
    /\ line' = IF same THEN line ELSE Append(line, doc)
    /\ submission' = [submission EXCEPT ![key] =
                         [snapshot |-> Len(line'), created |-> ~same, base |-> base]]

\* MerchantSourceIntakeService.submit.  A key already answered changes nothing.
Submit ==
    /\ \E key \in Keys, doc \in Documents, base \in {None, tab.base} :
         /\ base # 0
         /\ Store(key, doc, base)
    /\ UNCHANGED <<imported, artifacts, evaluations, tab, op>>

\* The operator stores any version of any document, and names no base.
PublishSource ==
    /\ Current < MaxSnapshots
    /\ \E doc \in Fixtures : line' = Append(line, doc)
    /\ UNCHANGED <<submission, imported, artifacts, evaluations, tab, op>>

\* A page is loaded, this one or that of a plan: what it shows stays while others
\* write.
ShowSource ==
    /\ tab.base # Current
    /\ tab' = [base |-> Current, plan |-> None]
    /\ UNCHANGED <<sources, artifacts, evaluations, op>>

-----------------------------------------------------------------------------
(***************************************************************************)
(* Imports.  Pages are retrieved outside any transaction; the draft is     *)
(* stored, or given up because another request stored one under this key.  *)
(***************************************************************************)

Retrieve(s) ==
    /\ op[s] = Idle
    /\ \E i \in Imports :
         /\ imported[i] = NoImport
         /\ op' = [op EXCEPT ![s] = [pc |-> "retrieving", import |-> i]]
    /\ UNCHANGED <<sources, artifacts, evaluations, tab>>

\* An import cut by its deadline, or without a product, has nothing to confirm.
StoreDraft(s) ==
    /\ op[s].pc = "retrieving"
    /\ LET i == op[s].import IN
         IF imported[i] # NoImport
         THEN UNCHANGED imported
         ELSE \E draft \in Drafts :
                imported' = [imported EXCEPT ![i].stored = TRUE, ![i].draft = draft]
    /\ op' = [op EXCEPT ![s] = Idle]
    /\ UNCHANGED <<line, submission, artifacts, evaluations, tab>>

\* blockers_for.
Confirmable(i) == imported[i].draft # None

\* confirm: one transaction stores the draft under the key of this import, unless
\* an earlier confirmation did, and another links it.
Confirm(s) ==
    /\ op[s] = Idle
    /\ \E i \in Imports :
         /\ imported[i] # NoImport
         /\ \/ submission[i] # Unanswered /\ UNCHANGED <<line, submission>>
            \/ Confirmable(i) /\ Store(i, imported[i].draft, None)
         /\ op' = [op EXCEPT ![s] = [pc |-> "linking", import |-> i]]
    /\ UNCHANGED <<imported, artifacts, evaluations, tab>>

\* Fault: a confirmation links the merchant's current source.
LinkedToCurrent(i) == Current

Linked(i) == submission[i].snapshot

\* _link: conditional on nothing being linked yet.
Link(s) ==
    /\ op[s].pc = "linking"
    /\ LET i == op[s].import IN
         imported' = IF imported[i].snapshot = 0
                     THEN [imported EXCEPT ![i].snapshot = Linked(i)] ELSE imported
    /\ op' = [op EXCEPT ![s] = Idle]
    /\ UNCHANGED <<line, submission, artifacts, evaluations, tab>>

-----------------------------------------------------------------------------
(***************************************************************************)
(* Compilation, review and publication of one snapshot.                    *)
(***************************************************************************)

\* The compiler run of a snapshot is looked up, then computed outside any
\* transaction.
Compile(s) ==
    /\ op[s] = Idle
    /\ \E n \in 1..Current :
         /\ compiled[n] = NoRun
         /\ op' = [op EXCEPT ![s] = [pc |-> "compiling", source |-> n]]
    /\ UNCHANGED <<sources, artifacts, evaluations, tab>>

\* The unique index on (snapshot, configuration) keeps the first run.
StoreRun(s) ==
    /\ op[s].pc = "compiling"
    /\ LET n == op[s].source IN
         compiled' = IF compiled[n] # NoRun THEN compiled
                     ELSE [compiled EXCEPT ![n].status =
                             IF line[n] \in Unreadable THEN "FAILED" ELSE "COMPLETED"]
    /\ op' = [op EXCEPT ![s] = Idle]
    /\ UNCHANGED <<sources, published, evaluations, tab>>

NeedsReview(n) == line[n] \in Doubtful

\* A review is final, and closed once its run is published.
ReviewIsOpen(n, decision) == compiled[n].review = None /\ compiled[n].published = 0

\* review, under the lock of the compiler run.
Review ==
    /\ \E n \in 1..Current, decision \in Decisions :
         /\ compiled[n].status = "COMPLETED" /\ NeedsReview(n)
         /\ ReviewIsOpen(n, decision)
         /\ decision = "ACCEPT" => line[n] \notin Garbled
         /\ compiled' = [compiled EXCEPT ![n].review = decision]
    /\ UNCHANGED <<sources, published, evaluations, tab, op>>

\* Fault: candidates nobody reviewed are published.
ResolvedUnchecked(n) == TRUE

Resolved(n) == NeedsReview(n) => compiled[n].review # None

\* publish, under the lock of the publication line and of the compiler run: the
\* representation holds what the reviews made of the candidates.
Publish ==
    /\ \E n \in 1..Current :
         /\ compiled[n].status = "COMPLETED" /\ compiled[n].published = 0
         /\ Resolved(n)
         /\ published' = Append(published, [source |-> n, review |-> compiled[n].review])
         /\ compiled' = [compiled EXCEPT ![n].published = Len(published')]
    /\ UNCHANGED <<sources, evaluations, tab, op>>

-----------------------------------------------------------------------------
(***************************************************************************)
(* The evaluation setup.  The claim on the merchant's world is held from   *)
(* the checks to the commit; the source line is not.                       *)
(***************************************************************************)

Setup == Len(setups)
Pending == {l \in DOMAIN launches : launches[l].status \in {"QUEUED", "EXECUTING"}}
ClaimIsFree == claim = None

\* Fault: a setup is built under an evaluation that waits for its worker.
StateBlockedByRun == foreign \/ run.launch # 0

\* _state_blockers: an operator's world, a pending evaluation, an executing run.
StateBlocked == foreign \/ Pending # {} \/ run.setup # None

\* bootstrap, up to the writes: the page's source must still be current, and a
\* snapshot that has its setup is answered with it.
ReadForSetup(s) ==
    /\ op[s] = Idle /\ ClaimIsFree
    /\ Current > 0 /\ tab.base = Current
    /\ \A w \in DOMAIN setups : setups[w] # Current
    /\ ~StateBlocked
    /\ line[Current] \in Buildable
    /\ claim' = s
    /\ op' = [op EXCEPT ![s] = [pc |-> "building", source |-> Current]]
    /\ UNCHANGED <<sources, artifacts, setups, foreign, launches, run, tab>>

\* World, suite and workspace are committed together.
CommitSetup(s) ==
    /\ op[s].pc = "building"
    /\ setups' = Append(setups, op[s].source)
    /\ claim' = None
    /\ op' = [op EXCEPT ![s] = Idle]
    /\ UNCHANGED <<sources, artifacts, foreign, launches, run, tab>>

\* BenchmarkEnvironmentService.register, by an operator with a fixture of their own.
RegisterWorld ==
    /\ ClaimIsFree /\ ~foreign
    /\ foreign' = TRUE
    /\ UNCHANGED <<sources, artifacts, setups, launches, run, claim, tab, op>>

-----------------------------------------------------------------------------
(***************************************************************************)
(* Evaluations.                                                            *)
(***************************************************************************)

\* _purpose: a first evaluation measures the source.
Purpose == IF published # <<>> \/ run.done # {} THEN "REEVALUATION" ELSE "INITIAL"

\* _evaluated_source: the snapshot the setup was built from, or the current one.
EvaluatedSource == IF Setup = 0 THEN Current ELSE setups[Setup]

\* plan: what an evaluation requested now would measure, and on what.  Setup 0 is
\* the world and suite of an operator.
Plan ==
    [purpose |-> Purpose,
     representation |-> Len(published),
     source |-> IF Purpose = "INITIAL" THEN EvaluatedSource
                ELSE IF published = <<>> THEN 0 ELSE published[Len(published)].source,
     setup |-> Setup,
     baseline |-> Purpose = "REEVALUATION" /\ Setup \in run.done,
     newer |-> Setup # 0 /\ setups[Setup] # Current]

\* _grounding_blocker: the representation states nothing the setup's world denies.
Grounded(plan) ==
    plan.purpose = "REEVALUATION" /\ plan.setup # 0 =>
      <<line[plan.source], line[setups[plan.setup]]>> \notin Contradicts

\* The blockers of a plan.
Launchable(plan) ==
    /\ plan.source # 0
    /\ plan.purpose = "REEVALUATION" => plan.representation # 0 /\ Grounded(plan)
    /\ plan.setup # 0 \/ foreign
    /\ Pending = {} /\ run.setup = None

\* _identity: what the digest of a plan covers.
Identity(plan) == plan

ShowPlan ==
    /\ Launchable(Plan) /\ tab.plan # Plan
    /\ tab' = [base |-> 0, plan |-> Plan]
    /\ UNCHANGED <<sources, artifacts, evaluations, op>>

\* request, up to the insert: the plan is made again and must be the one shown.
ReadForLaunch(s) ==
    /\ op[s] = Idle /\ ClaimIsFree
    /\ Len(launches) < MaxLaunches
    /\ tab.plan # None
    /\ Launchable(Plan)
    /\ Plan.purpose = tab.plan.purpose
    /\ Plan.purpose = "REEVALUATION" => Plan.representation = tab.plan.representation
    /\ Identity(Plan) = Identity(tab.plan)
    /\ claim' = s
    /\ op' = [op EXCEPT ![s] = [pc |-> "requesting", plan |-> Plan, shown |-> tab.plan]]
    /\ tab' = NoTab
    /\ UNCHANGED <<sources, artifacts, setups, foreign, launches, run>>

\* The launch freezes the plan; shown is what the merchant had agreed to.
CommitLaunch(s) ==
    /\ op[s].pc = "requesting"
    /\ launches' = Append(launches,
         [status |-> "QUEUED", plan |-> op[s].plan, shown |-> op[s].shown])
    /\ claim' = None
    /\ op' = [op EXCEPT ![s] = Idle]
    /\ UNCHANGED <<sources, artifacts, setups, foreign, run, tab>>

\* withdraw, under the claim.
Withdraw ==
    /\ ClaimIsFree /\ run.setup = None
    /\ \E l \in DOMAIN launches :
         /\ launches[l].status = "QUEUED"
         /\ launches' = [launches EXCEPT ![l].status = "FAILED"]
    /\ UNCHANGED <<sources, artifacts, setups, foreign, run, claim, tab, op>>

\* A dispatcher of the launch's world starts its run.  EvaluationLaunches has the
\* steps of a dispatch.
Dispatch ==
    /\ ClaimIsFree /\ run.setup = None /\ run.started < MaxRuns
    /\ \E l \in DOMAIN launches :
         /\ launches[l].status = "QUEUED"
         /\ launches' = [launches EXCEPT ![l].status = "EXECUTING"]
         /\ run' = [run EXCEPT !.launch = l, !.setup = launches[l].plan.setup, !.started = @ + 1]
    /\ UNCHANGED <<sources, artifacts, setups, foreign, claim, tab, op>>

\* An operator runs the benchmark against a world of the merchant.
OperatorRun ==
    /\ ClaimIsFree /\ run.setup = None /\ run.started < MaxRuns
    /\ \E w \in DOMAIN setups \cup (IF foreign THEN {0} ELSE {}) :
         run' = [run EXCEPT !.setup = w, !.started = @ + 1]
    /\ UNCHANGED <<sources, artifacts, setups, foreign, launches, claim, tab, op>>

\* The run completes or is aborted, and its launch is settled from it.
EndRun ==
    /\ run.setup # None
    /\ \E completed \in BOOLEAN :
         /\ run' = [run EXCEPT !.launch = 0, !.setup = None,
                                !.done = IF completed THEN @ \cup {run.setup} ELSE @]
         /\ launches' = IF run.launch = 0 THEN launches
                        ELSE [launches EXCEPT ![run.launch].status =
                                IF completed THEN "COMPLETED" ELSE "FAILED"]
    /\ UNCHANGED <<sources, artifacts, setups, foreign, claim, tab, op>>

\* A request dies: its transaction is rolled back and its locks are released.
Die(s) ==
    /\ op[s] # Idle
    /\ op' = [op EXCEPT ![s] = Idle]
    /\ claim' = IF claim = s THEN None ELSE claim
    /\ UNCHANGED <<sources, artifacts, setups, foreign, launches, run, tab>>

SessionStep(s) ==
    \/ Retrieve(s) \/ StoreDraft(s) \/ Confirm(s) \/ Link(s)
    \/ Compile(s) \/ StoreRun(s)
    \/ ReadForSetup(s) \/ CommitSetup(s)
    \/ ReadForLaunch(s) \/ CommitLaunch(s)
    \/ Die(s)

Next ==
    \/ \E s \in Sessions : SessionStep(s)
    \/ ShowSource \/ ShowPlan \/ Submit
    \/ PublishSource \/ Review \/ Publish
    \/ RegisterWorld \/ Withdraw \/ Dispatch \/ OperatorRun \/ EndRun

Spec == Init /\ [][Next]_vars

-----------------------------------------------------------------------------
\* An edit follows the snapshot the merchant was looking at, or repeats it, however
\* many requests, imports and operators write the line (intake.py, _require_base and
\* the lock of the source line).
NoLostEdit ==
    \A k \in Keys :
      LET answer == submission[k] IN
      answer.base # None =>
        answer.snapshot = IF answer.created THEN answer.base + 1 ELSE answer.base

\* A confirmed import names the snapshot that holds its own draft, whichever of
\* several confirmations stored and linked it, and whichever of them died between
\* the two (importer/service.py, confirm and _link).
ImportIsItsSource ==
    \A i \in Imports :
      /\ imported[i].snapshot # 0 =>
           /\ imported[i].snapshot = submission[i].snapshot
           /\ line[imported[i].snapshot] = imported[i].draft
      /\ submission[i] # Unanswered => Confirmable(i)

\* What is published holds the final decision of every review its candidates
\* required, and a snapshot is published once (compiler/service.py, review and
\* publish).
PublishedIsReviewed ==
    /\ \A p \in DOMAIN published :
         LET n == published[p].source IN
         /\ published[p].review = compiled[n].review
         /\ NeedsReview(n) => published[p].review # None
         /\ compiled[n].published = p
    /\ \A p, q \in DOMAIN published : published[p].source = published[q].source => p = q

\* While an evaluation waits or runs, the setup it froze is the merchant's newest,
\* what it measures belongs to that setup, and both are what the merchant was shown
\* (benchmark/launch.py request and plan against workspace/service.py bootstrap).
LaunchMeasuresOneWorld ==
    \A l \in Pending :
      LET plan == launches[l].plan IN
      /\ plan = launches[l].shown
      /\ plan.setup = Setup
      /\ plan.setup # 0 =>
           IF plan.purpose = "INITIAL"
           THEN plan.source = setups[plan.setup]
           ELSE <<line[plan.source], line[setups[plan.setup]]>> \notin Contradicts

-----------------------------------------------------------------------------
(***************************************************************************)
(* The inductive invariant behind the properties above.                    *)
(***************************************************************************)

Purposes == {"INITIAL", "REEVALUATION"}
LaunchStates == {"QUEUED", "EXECUTING", "COMPLETED", "FAILED"}

Plans == [purpose : Purposes, representation : Nat, source : Nat, setup : Nat,
          baseline : BOOLEAN, newer : BOOLEAN]
Answers == [snapshot : Nat, created : BOOLEAN, base : Nat \cup {None}]
ImportRows == [stored : BOOLEAN, draft : Documents \cup {None}, snapshot : Nat]
CompilerRuns == [status : {"ABSENT", "FAILED", "COMPLETED"}, review : Decisions \cup {None},
                 published : Nat]
Publications == [source : Nat, review : Decisions \cup {None}]
LaunchRows == [status : LaunchStates, plan : Plans, shown : Plans]
RunRows == [launch : Nat, setup : Nat \cup {None}, done : SUBSET Nat, started : Nat]

OnImport == [pc : {"retrieving", "linking"}, import : Imports]
OnSource == [pc : {"compiling", "building"}, source : Nat]
OnPlan == [pc : {"requesting"}, plan : Plans, shown : Plans]
Operations == {Idle} \cup OnImport \cup OnSource \cup OnPlan

FieldsOK ==
    /\ line \in Seq(Documents) /\ Len(line) <= MaxSnapshots
    /\ submission \in [SubmissionKeys -> Answers]
    /\ imported \in [Imports -> ImportRows]
    /\ compiled \in [Snapshots -> CompilerRuns]
    /\ published \in Seq(Publications) /\ setups \in Seq(Nat) /\ launches \in Seq(LaunchRows)
    /\ run \in RunRows /\ run.launch <= Len(launches)
    /\ foreign \in BOOLEAN /\ claim \in Sessions \cup {None}
    /\ tab \in [base : Nat, plan : Plans \cup {None}]
    /\ op \in [Sessions -> Operations]

\* What was answered is on the line, and holds what was confirmed.
SubmissionsStand ==
    /\ \A k \in SubmissionKeys : submission[k] # Unanswered => submission[k].snapshot \in 1..Current
    /\ \A i \in Imports :
         /\ submission[i] # Unanswered =>
              Confirmable(i) /\ line[submission[i].snapshot] = imported[i].draft
         /\ imported[i].snapshot # 0 =>
              submission[i] # Unanswered /\ imported[i].snapshot = submission[i].snapshot

\* What is published, and what a setup was built from, is on the line.
SourcesKnown ==
    /\ \A p \in DOMAIN published : published[p].source \in 1..Current
    /\ \A w \in DOMAIN setups : setups[w] \in 1..Current

\* A plan as it was shown, of the merchant's newest setup.
Measures(plan, shown) ==
    /\ plan = shown /\ plan.setup = Setup /\ plan.source \in 1..Current
    /\ plan.setup # 0 =>
         IF plan.purpose = "INITIAL"
         THEN plan.source = setups[plan.setup]
         ELSE <<line[plan.source], line[setups[plan.setup]]>> \notin Contradicts

\* What a session knows between its two transactions: who builds or requests holds
\* the claim, so nothing it read of the world moves.
OperationStands(s) ==
    /\ op[s].pc = "linking" => submission[op[s].import] # Unanswered
    /\ op[s].pc \in {"compiling", "building"} => op[s].source \in 1..Current
    /\ op[s].pc \in {"building", "requesting"} => claim = s
    /\ op[s].pc = "building" => Pending = {}
    /\ op[s].pc = "requesting" => Measures(op[s].plan, op[s].shown)

LaunchesStand == \A l \in Pending : Measures(launches[l].plan, launches[l].shown)

IInv == /\ FieldsOK
        /\ NoLostEdit
        /\ SubmissionsStand
        /\ SourcesKnown
        /\ PublishedIsReviewed
        /\ \A s \in Sessions : OperationStands(s)
        /\ LaunchesStand

=============================================================================
