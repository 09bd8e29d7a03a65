-------------------------- MODULE EvaluationLaunches --------------------------
(***************************************************************************)
(* The evaluations of one merchant: launches a merchant queues, benchmark  *)
(* runs that own the merchant's world, and dispatchers that claim a        *)
(* launch, start a run for it, bind one to the other and execute the       *)
(* missions.  A claim holds no lock once the dispatcher has read what it   *)
(* needs, so merchant, operator and other dispatchers act in between.      *)
(*                                                                         *)
(* Everything about a merchant is exclusive to that merchant (the advisory *)
(* lock of its world, its one pending launch, its one executing run), so   *)
(* one merchant is the whole system.  The sessions of a dispatcher keep    *)
(* the objects they loaded until a rollback: the run it started stays      *)
(* RUNNING to it whatever the row says, and its writes then meet the       *)
(* triggers of the tables, which end the process with a database error.    *)
(***************************************************************************)
EXTENDS Naturals, FiniteSets

CONSTANTS
    Launches,     \* evaluations the merchant may request
    Runs,         \* benchmark runs that may be started
    Dispatchers,  \* processes executing `benchmark dispatch`
    Visitors,     \* ordinary callers that change the merchant's world
    Missions,     \* how many missions a suite has
    MaxFaults,    \* bound on deaths, capacity halts and aborts of a live run
    None

ASSUME LaunchAssumption ==
    /\ Missions \in Nat \ {0}
    /\ MaxFaults \in Nat
    /\ None \notin Launches \cup Runs \cup {"ordinary"}
    /\ "ordinary" \notin Runs
    /\ Dispatchers \cap Visitors = {}

VARIABLES
    launch,      \* the row of each launch: its status and the run it is bound to
    run,         \* the row of each run: its status, its missions begun and recorded
    shelf,       \* whose mission the world was last reset for, and who strayed into it
    dispatcher,  \* what each dispatcher is in the middle of
    request,     \* the mutation each caller was allowed and has not committed
    faults       \* how many faults have happened

vars == <<launch, run, shelf, dispatcher, request, faults>>

Callers == Dispatchers \cup Visitors

LaunchStates == {"ABSENT", "QUEUED", "EXECUTING", "COMPLETED", "FAILED"}
RunStates == {"ABSENT", "RUNNING", "COMPLETED", "ABORTED"}
Steps == {"idle", "claimed", "prepared", "started", "lost", "ready", "reset",
          "mission", "settling", "halted", "reporting", "failing"}

NoLaunch == [status |-> "ABSENT", run |-> None]
NoRun == [status |-> "ABSENT", begun |-> 0, recorded |-> 0]
Idle == [pc |-> "idle", launch |-> None, run |-> None, seen |-> "ABSENT", said |-> "nothing"]

Settled(l) == launch[l].status \in {"COMPLETED", "FAILED"}
Terminal(r) == run[r].status \in {"COMPLETED", "ABORTED"}

\* The runs executing against this merchant.
Active == {r \in Runs : run[r].status = "RUNNING"}

\* The launches holding the merchant's one pending slot.
Pending == {l \in Launches : launch[l].status \in {"QUEUED", "EXECUTING"}}

\* Fault: the launch row without its trigger.
LaunchGuardDropped(old, new) == TRUE

\* benchmark_evaluation_launch_guard: what the database lets a launch become.
LaunchGuard(old, new) ==
    /\ <<old.status, new.status>> \in
         {<<"QUEUED", "EXECUTING">>, <<"QUEUED", "FAILED">>,
          <<"EXECUTING", "COMPLETED">>, <<"EXECUTING", "FAILED">>}
    /\ new.status = "COMPLETED" => run[new.run].status = "COMPLETED"
    /\ new.status = "FAILED" /\ new.run # None => run[new.run].status = "ABORTED"

\* Fault: the rows of runs and missions without theirs.
RunGuardDropped(r) == TRUE

\* benchmark_run_guard and benchmark_mission_run_guard: a finished run and its
\* missions are frozen.
RunGuard(r) == ~Terminal(r)

Init ==
    /\ launch = [l \in Launches |-> NoLaunch]
    /\ run = [r \in Runs |-> NoRun]
    /\ shelf = [owner |-> None, strays |-> [c \in Callers |-> 0]]
    /\ dispatcher = [w \in Dispatchers |-> Idle]
    /\ request = [c \in Callers |-> None]
    /\ faults = 0

-----------------------------------------------------------------------------
(***************************************************************************)
(* The merchant.  Both hold the advisory lock of the world, which starting *)
(* a run takes as well.                                                    *)
(***************************************************************************)

RequestLaunch(l) ==
    /\ launch[l] = NoLaunch
    /\ Pending = {} /\ Active = {}
    /\ launch' = [launch EXCEPT ![l].status = "QUEUED"]
    /\ UNCHANGED <<run, shelf, dispatcher, request, faults>>

Withdraw(l) ==
    /\ launch[l].status = "QUEUED"
    /\ Active = {}
    /\ launch' = [launch EXCEPT ![l].status = "FAILED"]
    /\ UNCHANGED <<run, shelf, dispatcher, request, faults>>

-----------------------------------------------------------------------------
(***************************************************************************)
(* The operator.                                                           *)
(***************************************************************************)

CancelQueued(l) ==
    /\ launch[l].status = "QUEUED"
    /\ launch' = [launch EXCEPT ![l].status = "FAILED"]
    /\ UNCHANGED <<run, shelf, dispatcher, request, faults>>

Driven(r) == \E w \in Dispatchers : dispatcher[w].run = r

\* A run its process is still driving may be aborted too: that is a fault of the
\* operator, and bounded as one.
AbortRun(r) ==
    /\ run[r].status = "RUNNING"
    /\ Driven(r) => faults < MaxFaults
    /\ run' = [run EXCEPT ![r].status = "ABORTED"]
    /\ faults' = IF Driven(r) THEN faults + 1 ELSE faults
    /\ UNCHANGED <<launch, shelf, dispatcher, request>>

\* The second transaction of `benchmark abort`, and the whole of `benchmark settle`.
SettleForTerminalRun(r) ==
    /\ Terminal(r)
    /\ \E l \in Launches :
         /\ launch[l].run = r /\ launch[l].status = "EXECUTING"
         /\ launch' = [launch EXCEPT ![l].status =
                         IF run[r].status = "COMPLETED" THEN "COMPLETED" ELSE "FAILED"]
    /\ UNCHANGED <<run, shelf, dispatcher, request, faults>>

-----------------------------------------------------------------------------
(***************************************************************************)
(* A dispatcher, up to the launch it executes.                             *)
(***************************************************************************)

At(w, pc) == dispatcher[w].pc = pc
Become(w, d) == dispatcher' = [dispatcher EXCEPT ![w] = d]
GoTo(w, pc) == Become(w, [dispatcher[w] EXCEPT !.pc = pc])

\* The process is over: an answer, or an exception nobody catches.
Leave(w) == Become(w, Idle)
SayQueued(w) == Become(w, [Idle EXCEPT !.said = "queued"])

\* Claim, read the plan under the row's lock, release it.  What is early seen of
\* the provider's capacity only ends the process sooner.
Claim(w, l) ==
    /\ At(w, "idle")
    /\ launch[l].status = "QUEUED"
    /\ Become(w, [Idle EXCEPT !.pc = "claimed", !.launch = l])
    /\ UNCHANGED <<launch, run, shelf, request, faults>>

\* The plan cannot be carried out by any worker: settled under the same lock.
RefuseLaunch(w, l) ==
    /\ At(w, "idle")
    /\ launch[l].status = "QUEUED"
    /\ launch' = [launch EXCEPT ![l].status = "FAILED"]
    /\ UNCHANGED <<run, shelf, dispatcher, request, faults>>

\* Fault: a reset that does not ask who owns the world.
WorldIsFreeAlways(r) == TRUE

\* A world may be reset by nobody but the run that is executing in it.
WorldIsFree(r) == Active \subseteq {r}

\* start_suite, first transaction: reset the world.
PrepareWorld(w) ==
    /\ At(w, "claimed")
    /\ IF WorldIsFree(None)
         THEN /\ shelf' = [shelf EXCEPT !.owner = None]
              /\ GoTo(w, "prepared")
         ELSE SayQueued(w) /\ UNCHANGED shelf
    /\ UNCHANGED <<launch, run, request, faults>>

Unused == {r \in Runs : run[r] = NoRun}
NextRun == CHOOSE r \in Unused : TRUE

\* Fault: the launch it is started for is in its way.
MayStartUnlessPending == Active = {} /\ Pending = {}

\* _require_unclaimed, and the index behind it.
MayStart == Active = {}

\* start_suite, second transaction: start_run.  A stray is counted per run.
StartRun(w) ==
    /\ At(w, "prepared")
    /\ IF MayStart
         THEN /\ Unused # {}
              /\ run' = [run EXCEPT ![NextRun].status = "RUNNING"]
              /\ shelf' = [shelf EXCEPT !.strays = [c \in Callers |-> 0]]
              /\ Become(w, [dispatcher[w] EXCEPT !.pc = "started", !.run = NextRun])
         ELSE SayQueued(w) /\ UNCHANGED <<run, shelf>>
    /\ UNCHANGED <<launch, request, faults>>

\* bind_run, when the provider has capacity.  The run is not looked at.
BindRun(w) ==
    LET l == dispatcher[w].launch
    IN /\ At(w, "started")
       /\ IF launch[l].status = "QUEUED"
            THEN /\ launch' = [launch EXCEPT ![l] = [status |-> "EXECUTING",
                                                    run |-> dispatcher[w].run]]
                 /\ GoTo(w, "ready")
            ELSE GoTo(w, "lost") /\ UNCHANGED launch
       /\ UNCHANGED <<run, shelf, request, faults>>

\* The last capacity gate refuses inside bind_run.
HaltAtBind(w) ==
    /\ At(w, "started")
    /\ launch[dispatcher[w].launch].status = "QUEUED"
    /\ faults < MaxFaults
    /\ faults' = faults + 1
    /\ GoTo(w, "halted")
    /\ UNCHANGED <<launch, run, shelf, request>>

Aborted(r) == IF RunGuard(r) THEN [run EXCEPT ![r].status = "ABORTED"] ELSE run

\* Fault: the loser leaves its run as it is.
LoseRunKept(w) ==
    /\ At(w, "lost")
    /\ Leave(w)
    /\ UNCHANGED <<launch, run, shelf, request, faults>>

\* Somebody settled the launch first: abort the run nothing names.
LoseRun(w) ==
    /\ At(w, "lost")
    /\ run' = Aborted(dispatcher[w].run)
    /\ Leave(w)
    /\ UNCHANGED <<launch, shelf, request, faults>>

-----------------------------------------------------------------------------
(***************************************************************************)
(* A dispatcher, executing the missions of the run it bound.               *)
(***************************************************************************)

MissionsLeft(w) == run[dispatcher[w].run].recorded < Missions

\* Between missions, or inside one, execution governance may stop the run.
HaltRun(w) ==
    /\ At(w, "mission") \/ (At(w, "ready") /\ MissionsLeft(w))
    /\ faults < MaxFaults
    /\ faults' = faults + 1
    /\ GoTo(w, "halted")
    /\ UNCHANGED <<launch, run, shelf, request>>

\* prepare(for_run).  Refused when another run executes, with the very conflict
\* that a start is refused with, and answered in the same words.
ResetWorld(w) ==
    LET r == dispatcher[w].run
    IN /\ At(w, "ready") /\ MissionsLeft(w)
       /\ IF WorldIsFree(r)
            THEN /\ shelf' = [shelf EXCEPT !.owner = r]
                 /\ GoTo(w, "reset")
            ELSE SayQueued(w) /\ UNCHANGED shelf
       /\ UNCHANGED <<launch, run, request, faults>>

StartMission(w) ==
    LET r == dispatcher[w].run
    IN /\ At(w, "reset")
       /\ IF RunGuard(r)
            THEN /\ run' = [run EXCEPT ![r].begun = @ + 1]
                 /\ GoTo(w, "mission")
            ELSE Leave(w) /\ UNCHANGED run
       /\ UNCHANGED <<launch, shelf, request, faults>>

RecordMission(w) ==
    LET r == dispatcher[w].run
    IN /\ At(w, "mission")
       /\ IF RunGuard(r)
            THEN /\ run' = [run EXCEPT ![r].recorded = @ + 1]
                 /\ GoTo(w, "ready")
            ELSE Leave(w) /\ UNCHANGED run
       /\ UNCHANGED <<launch, shelf, request, faults>>

CompleteRun(w) ==
    LET r == dispatcher[w].run
    IN /\ At(w, "ready") /\ ~MissionsLeft(w)
       /\ IF RunGuard(r)
            THEN /\ run' = [run EXCEPT ![r].status = "COMPLETED"]
                 /\ GoTo(w, "settling")
            ELSE Leave(w) /\ UNCHANGED run
       /\ UNCHANGED <<launch, shelf, request, faults>>

\* A write of the launch's status: refused by the trigger, or committed.
Write(l, status) ==
    LET new == [launch[l] EXCEPT !.status = status]
    IN launch' = IF LaunchGuard(launch[l], new) THEN [launch EXCEPT ![l] = new] ELSE launch

\* The session still holds the EXECUTING launch it bound.
SettleCompleted(w) ==
    /\ At(w, "settling")
    /\ Write(dispatcher[w].launch, "COMPLETED")
    /\ Leave(w)
    /\ UNCHANGED <<run, shelf, request, faults>>

\* Roll back, which refreshes everything, and abort the run: an aborted one is a
\* conflict nobody catches.
AbortHalted(w) ==
    LET r == dispatcher[w].run
    IN /\ At(w, "halted")
       /\ IF RunGuard(r)
            THEN run' = Aborted(r) /\ GoTo(w, "reporting")
            ELSE Leave(w) /\ UNCHANGED run
       /\ UNCHANGED <<launch, shelf, request, faults>>

\* _halted reads the launch without a lock ...
ReadHalted(w) ==
    LET seen == launch[dispatcher[w].launch].status
    IN /\ At(w, "reporting")
       /\ IF seen = "QUEUED"
            THEN SayQueued(w)
            ELSE Become(w, [dispatcher[w] EXCEPT !.pc = "failing", !.seen = seen])
       /\ UNCHANGED <<launch, run, shelf, request, faults>>

\* ... and settle_failed decides by what was read.
SettleHalted(w) ==
    /\ At(w, "failing")
    /\ IF dispatcher[w].seen = "EXECUTING"
         THEN Write(dispatcher[w].launch, "FAILED")
         ELSE UNCHANGED launch
    /\ Leave(w)
    /\ UNCHANGED <<run, shelf, request, faults>>

Die(w) ==
    /\ ~At(w, "idle")
    /\ faults < MaxFaults
    /\ faults' = faults + 1
    /\ Leave(w)
    /\ request' = [request EXCEPT ![w] = None]
    /\ UNCHANGED <<launch, run, shelf>>

-----------------------------------------------------------------------------
(***************************************************************************)
(* Changes to the world.  A request is allowed by an unlocked read of the  *)
(* active run and changes the world in later transactions.                 *)
(***************************************************************************)

Capability(c) == IF c \in Visitors THEN "ordinary" ELSE dispatcher[c].run

\* require_allowed: the bound run itself, or anybody while no run executes.
Allowed(capability) ==
    IF capability = "ordinary" THEN Active = {} ELSE capability \in Active

CheckRequest(c) ==
    /\ request[c] = None
    /\ c \in Dispatchers => At(c, "mission")
    /\ Allowed(Capability(c))
    /\ request' = [request EXCEPT ![c] = Capability(c)]
    /\ UNCHANGED <<launch, run, shelf, dispatcher, faults>>

\* A stray: a change to a world that a run the caller does not act for owns.
Strays(c) == Active # {} /\ request[c] \notin Active

CommitRequest(c) ==
    /\ request[c] # None
    /\ request' = [request EXCEPT ![c] = None]
    /\ shelf' = IF Strays(c) /\ shelf.strays[c] < 2
                  THEN [shelf EXCEPT !.strays[c] = @ + 1] ELSE shelf
    /\ UNCHANGED <<launch, run, dispatcher, faults>>

-----------------------------------------------------------------------------

Dispatch(w) ==
    \/ \E l \in Launches : Claim(w, l)
    \/ PrepareWorld(w) \/ StartRun(w) \/ BindRun(w) \/ LoseRun(w)
    \/ ResetWorld(w) \/ StartMission(w) \/ RecordMission(w)
    \/ CompleteRun(w) \/ SettleCompleted(w)
    \/ AbortHalted(w) \/ ReadHalted(w) \/ SettleHalted(w)

Next ==
    \/ \E l \in Launches : RequestLaunch(l) \/ Withdraw(l) \/ CancelQueued(l)
    \/ \E r \in Runs : AbortRun(r) \/ SettleForTerminalRun(r)
    \/ \E w \in Dispatchers :
         \/ Dispatch(w) \/ HaltAtBind(w) \/ HaltRun(w) \/ Die(w)
         \/ \E l \in Launches : RefuseLaunch(w, l)
    \/ \E c \in Callers : CheckRequest(c) \/ CommitRequest(c)

Spec == Init /\ [][Next]_vars

\* Somebody keeps running `benchmark dispatch`, and a process that lives goes on.
\* Nothing is promised of merchants, operators or callers.
FairSpec == Spec /\ \A w \in Dispatchers : WF_vars(Dispatch(w))

-----------------------------------------------------------------------------
(***************************************************************************)
(* Properties.                                                             *)
(***************************************************************************)

\* Every row, and every dispatcher, is one the schema and the code know.
LaunchTypeOK ==
    /\ launch \in [Launches -> [status : LaunchStates, run : Runs \cup {None}]]
    /\ run \in [Runs -> [status : RunStates, begun : 0..Missions, recorded : 0..Missions]]
    /\ shelf \in [owner : Runs \cup {None}, strays : [Callers -> 0..2]]
    /\ dispatcher \in [Dispatchers -> [pc : Steps, launch : Launches \cup {None},
                                       run : Runs \cup {None}, seen : LaunchStates,
                                       said : {"nothing", "queued"}]]
    /\ request \in [Callers -> Runs \cup {None, "ordinary"}]
    /\ faults \in 0..MaxFaults

\* What a settled launch says of its run is true: whichever of two dispatchers, the
\* merchant and the operator settled it, and whatever stale row they decided by.
SettledAgrees ==
    \A l \in Launches :
      /\ launch[l].status = "COMPLETED" =>
           launch[l].run # None /\ run[launch[l].run].recorded = Missions
      /\ launch[l].status = "FAILED" /\ launch[l].run # None =>
           run[launch[l].run].status = "ABORTED"

\* Nothing is executed for a launch that was withdrawn, cancelled or refused: a run
\* in which a mission has begun is the run of exactly one launch.
ExecutedIsBound ==
    \A r \in Runs : run[r].begun > 0 =>
      Cardinality({l \in Launches : launch[l].run = r}) = 1

\* Launches and runs agree, settled or not.
LaunchAgreesWithRun == LaunchTypeOK /\ SettledAgrees /\ ExecutedIsBound

\* A run owns the world alone: while one of its missions executes nobody else has
\* reset the shelf underneath it.
OwnerKeepsShelf ==
    \A w \in Dispatchers :
      At(w, "mission") /\ run[dispatcher[w].run].status = "RUNNING" =>
        shelf.owner = dispatcher[w].run

\* The unlocked check is a gap one request wide: no caller changes the world of
\* another's run twice, not even a buyer that outlived its own run.
StraysOnce == \A c \in Callers : shelf.strays[c] <= 1

\* Nobody changes the world of a run that executes, but for that one request.
ShelfIsKept == OwnerKeepsShelf /\ StraysOnce

\* No dispatcher walks away from the run it started: while there was no fault, a
\* run that executes, and a launch that does, has a process behind it.
NobodyWalksAway ==
    faults = 0 =>
      /\ \A r \in Active : Driven(r)
      /\ \A l \in Launches : launch[l].status = "EXECUTING" => Driven(launch[l].run)

\* The evidence of a finished run, and the settlement of a launch, stay as they are,
\* although the dispatcher's session goes on believing the run is RUNNING.
HistoryStays ==
    /\ \A r \in Runs : Terminal(r) => run'[r] = run[r]
    /\ \A l \in Launches : Settled(l) => launch'[l] = launch[l]
HistoryIsFrozen == [][HistoryStays]_vars

\* A queued launch is settled in the end, or it waits for an operator: for a run
\* to abort that no process drives, or for a settlement only `benchmark settle`
\* makes.
AwaitsOperator ==
    \/ \E r \in Active : ~Driven(r)
    \/ \E l \in Launches : launch[l].status = "EXECUTING" /\ ~Driven(launch[l].run)
QueuedEnds ==
    \A l \in Launches : launch[l].status = "QUEUED" ~> Settled(l) \/ AwaitsOperator

\* "The launch has executed nothing then": when a dispatcher answers that its launch
\* is still queued, no mission of the run it started has begun.
QueuedMeansNothingRan ==
    [][\A w \in Dispatchers :
         dispatcher[w].run # None /\ dispatcher'[w].said = "queued" =>
           run[dispatcher[w].run].begun = 0]_vars

-----------------------------------------------------------------------------
(***************************************************************************)
(* The inductive invariant behind LaunchAgreesWithRun, ShelfIsKept,        *)
(* NobodyWalksAway and HistoryIsFrozen.                                    *)
(***************************************************************************)

\* A launch names a run from the moment it executes, no two launches the same one,
\* and it is settled only as that run ended.
LaunchKnows ==
    /\ \A l \in Launches :
         /\ launch[l].status \in {"ABSENT", "QUEUED"} => launch[l].run = None
         /\ launch[l].status \in {"EXECUTING", "COMPLETED"} => launch[l].run # None
         /\ launch[l].run # None => run[launch[l].run].status # "ABSENT"
         /\ launch[l].status = "COMPLETED" => run[launch[l].run].status = "COMPLETED"
         /\ launch[l].status = "FAILED" /\ launch[l].run # None =>
              run[launch[l].run].status = "ABORTED"
    /\ \A l, k \in Launches : launch[l].run # None /\ launch[l].run = launch[k].run => l = k

\* One run executes at a time; what it begins is begun for a launch.
RunKnows ==
    /\ \A r \in Runs :
         /\ run[r].status = "ABSENT" => run[r] = NoRun
         /\ run[r].status = "COMPLETED" => run[r].recorded = Missions
         /\ run[r].begun > 0 => \E l \in Launches : launch[l].run = r
    /\ \A r, s \in Active : r = s

\* What a dispatcher may count on after its claim, whatever merchant, operator and
\* other dispatchers did since.
DispatcherStands(w) ==
    LET d == dispatcher[w]
        mine == run[d.run] IN
    /\ d.run = None <=> d.pc \in {"idle", "claimed", "prepared"}
    /\ d.pc # "idle" => d.launch # None
    /\ d.run # None => mine.status # "ABSENT"
    /\ d.pc \in {"started", "lost"} =>
         mine.begun = 0 /\ mine.recorded = 0 /\ \A l \in Launches : launch[l].run # d.run
    /\ d.pc \in {"ready", "reset", "mission", "settling"} => launch[d.launch].run = d.run
    /\ d.pc \in {"ready", "reset"} => mine.begun = mine.recorded
    /\ d.pc = "reset" => mine.recorded < Missions
    /\ d.pc = "mission" => mine.begun = mine.recorded + 1
    /\ d.pc = "settling" => mine.status = "COMPLETED"
    /\ d.pc \in {"reset", "mission"} /\ mine.status = "RUNNING" => shelf.owner = d.run
    /\ d.pc \in {"halted", "reporting", "failing"} => faults > 0
    /\ d.pc \in {"started", "lost", "ready", "reset", "mission"} /\ faults = 0 =>
         mine.status = "RUNNING"

DispatcherKnows ==
    /\ \A w \in Dispatchers : DispatcherStands(w)
    /\ \A w, u \in Dispatchers :
         dispatcher[w].run # None /\ dispatcher[w].run = dispatcher[u].run => w = u

\* A caller that strayed into the world of the run that executes holds no request
\* that could stray again.
StrayKnows ==
    \A c \in Callers :
      /\ shelf.strays[c] <= 1
      /\ Active # {} /\ shelf.strays[c] = 1 => request[c] = None \/ request[c] \in Active

IInv == /\ LaunchTypeOK
        /\ LaunchKnows
        /\ RunKnows
        /\ DispatcherKnows
        /\ StrayKnows
        /\ NobodyWalksAway

=============================================================================
