-------------------------- MODULE CompilerExperiments --------------------------
(***************************************************************************)
(* Two ways to compare runs.  A compiler impact experiment                 *)
(* (benchmark/experiment.py) declares its samples beforehand, alternating  *)
(* which arm of a pair opens it; an operator carries them out one command  *)
(* at a time (cli/benchmark.py compare_run), beside other operators and    *)
(* other runs of the same environment.  The reading of an experiment       *)
(* (diagnostics/experiment.py) and the before and after of two runs        *)
(* (diagnostics/comparison.py) are taken row by row while runs execute;    *)
(* the operator's own view of an experiment (compare_show) reads its rows  *)
(* for its figures and then once more for its conclusion.                  *)
(*                                                                         *)
(* A run is its status, what it delivered to the buyer, its pins (suite,   *)
(* catalog, evaluator and buyer in one value) and how its missions ended:  *)
(* their outcome, whether it was unsafe, whether the oracle disagreed with *)
(* it, the model that answered, and whether the provider failed them on    *)
(* the way, for good or not.  Demand follows the status of a mission and   *)
(* is left out.                                                            *)
(***************************************************************************)
EXTENDS Integers, Sequences, FiniteSets, FiniteSetsExt

CONSTANTS
    Pairs,      \* sample_count of the experiment
    Length,     \* missions of a run
    Operators,  \* processes that may execute compare_run
    MaxRuns,    \* bound on the runs of the environment
    Pins,       \* what a run may be pinned to
    Endings     \* how a mission may end: its outcome, safety, oracle, model and provider

VARIABLES
    pins,    \* what a run started now is pinned to
    run,     \* benchmark_run rows of the environment, in the order they started
    sample,  \* compiler_impact_sample.run_id by execution ordinal, 0 for NULL
    op,      \* [Operators -> a compare_run command and what it holds]
    reader   \* one reading and the rows it has seen

experimentVars == <<pins, run, sample, op, reader>>

Samples == 1..(2 * Pairs)
PairOf(n) == (n + 1) \div 2
Missions == 1..Length
Pending == [status |-> "PENDING", reason |-> "none", unsafe |-> FALSE, disagrees |-> FALSE,
            model |-> "none", provider |-> "fine"]
Off == [pc |-> "off", sample |-> 0, run |-> 0]
NoReading == [of |-> "none"]

\* create: the pairs are counterbalanced.  _validate_sample_identity derives the same.
ArmOf(n) ==
    LET opensRaw == PairOf(n) % 2 = 1
    IN IF (n % 2 = 1) = opensRaw THEN "RAW" ELSE "COMPILED"

ExperimentInit ==
    /\ pins \in Pins /\ run = <<>> /\ sample = [n \in Samples |-> 0]
    /\ op = [o \in Operators |-> Off] /\ reader = NoReading

-----------------------------------------------------------------------------
(* Runs.  One run of an environment executes at a time: a partial unique   *)
(* index refuses the second.                                               *)

Quiet == \A r \in DOMAIN run : run[r].status # "RUNNING"
StartedRun(arm, by) ==
    [status |-> "RUNNING", arm |-> arm, pins |-> pins, by |-> by,
     ends |-> [i \in Missions |-> Pending]]

\* A launch, or another command, runs the environment for itself.
StartElsewhere(arm) ==
    /\ Quiet /\ Len(run) < MaxRuns
    /\ run' = Append(run, StartedRun(arm, "launch"))
    /\ UNCHANGED <<pins, sample, op, reader>>

Executed(r) ==
    /\ run[r].status = "RUNNING"
    /\ run[r].by # "launch" =>
          \E o \in Operators : op[o].pc = "executing" /\ op[o].run = r
EndMission(r, i, e) ==
    /\ Executed(r) /\ run[r].ends[i] = Pending /\ \A j \in 1..(i - 1) : run[r].ends[j] # Pending
    /\ run' = [run EXCEPT ![r].ends[i] = e]
    /\ UNCHANGED <<pins, sample, op, reader>>
Complete(r) ==
    /\ Executed(r) /\ \A i \in Missions : run[r].ends[i] # Pending
    /\ run' = [run EXCEPT ![r].status = "COMPLETED"]
    /\ op' = [o \in Operators |-> IF op[o].run = r THEN Off ELSE op[o]]
    /\ UNCHANGED <<pins, sample, reader>>
\* The operator's way out of a run nothing carries on.
Abort(r) ==
    /\ run[r].status = "RUNNING" /\ run' = [run EXCEPT ![r].status = "ABORTED"]
    /\ UNCHANGED <<pins, sample, op, reader>>
\* Another catalog, evaluator or buyer is deployed between two runs.
Redeploy ==
    /\ pins' \in Pins \ {pins} /\ UNCHANGED <<run, sample, op, reader>>

-----------------------------------------------------------------------------
(* compare_run.                                                            *)

Unbound == {n \in Samples : sample[n] = 0}
\* The row lock of next_treatment lasts until the command's transaction ends, which is when its
\* run is committed.
Locked(n) == \E o \in Operators : op[o].pc = "treated" /\ op[o].sample = n
\* Fault: the raw arm of every pair runs first, as experiments once did.
NextOfRawFirst ==
    LET raw == {n \in Unbound : ArmOf(n) = "RAW"}
    IN Min(IF raw = {} THEN Unbound ELSE raw)
\* next_treatment
NextSample == Min(Unbound)
NextTreatment(o) ==
    /\ op[o] = Off /\ Unbound # {} /\ ~Locked(NextSample)
    /\ op' = [op EXCEPT ![o] = [pc |-> "treated", sample |-> NextSample, run |-> 0]]
    /\ UNCHANGED <<pins, run, sample, reader>>

StartSample(o) ==
    /\ op[o].pc = "treated" /\ Len(run) < MaxRuns
    /\ IF Quiet
       THEN /\ run' = Append(run, StartedRun(ArmOf(op[o].sample), o))
            /\ op' = [op EXCEPT ![o].pc = "started", ![o].run = Len(run) + 1]
       ELSE op' = [op EXCEPT ![o] = Off] /\ UNCHANGED run
    /\ UNCHANGED <<pins, sample, reader>>

\* bind_run: the sample is still free, the run still runs as declared and is pinned like the
\* runs bound before it.
Bindable(n, r) ==
    /\ sample[n] = 0 /\ run[r].status = "RUNNING" /\ run[r].arm = ArmOf(n)
    /\ \A m \in Samples : sample[m] # 0 => run[sample[m]].pins = run[r].pins
BindRun(o) ==
    /\ op[o].pc = "started" /\ ~Locked(op[o].sample)
    /\ IF Bindable(op[o].sample, op[o].run)
       THEN /\ sample' = [sample EXCEPT ![op[o].sample] = op[o].run]
            /\ op' = [op EXCEPT ![o].pc = "executing"]
       ELSE op' = [op EXCEPT ![o] = Off] /\ UNCHANGED sample
    /\ UNCHANGED <<pins, run, reader>>

\* The command dies, or finds its run aborted; the run stays as it is.
Stop(o) ==
    /\ op[o] # Off /\ op' = [op EXCEPT ![o] = Off]
    /\ UNCHANGED <<pins, run, sample, reader>>

-----------------------------------------------------------------------------
(* What a run contributes.  F is what was read: by sample for an           *)
(* experiment, <<baseline, candidate>> for two runs.                       *)

NoFacts == [status |-> "none", arm |-> "none", pins |-> "none",
            ends |-> [i \in Missions |-> Pending]]
\* Fault: a run that was aborted is over as well.
Over(f) == f.status \in {"COMPLETED", "ABORTED"}
Completed(f) == f.status = "COMPLETED"
\* A provider that throttled a mission may recover; one that is out ends it.
ProviderErrors(f) == Cardinality({i \in Missions : f.ends[i].provider # "fine"})
Outages(f) == Cardinality({i \in Missions : f.ends[i].provider = "outage"})
Models(f) == {f.ends[i].model : i \in Missions} \ {"none"}
Unsafe(f) == Cardinality({i \in Missions : f.ends[i].unsafe})
Disagreements(f) == Cardinality({i \in Missions : f.ends[i].disagrees})
MissionOutcome(e) == <<e.status, e.reason>>
Differs(f, g) == {i \in Missions : MissionOutcome(f.ends[i]) # MissionOutcome(g.ends[i])}
Tally(f, status) == Cardinality({i \in Missions : f.ends[i].status = status})

Statuses == {"SUCCEEDED", "ABSTAINED", "FAILED", "ERRORED"}

-----------------------------------------------------------------------------
(* diagnostics/experiment.py.                                              *)

OfArm(F, arm) == {n \in DOMAIN F : ArmOf(n) = arm}
\* What each sample counts.
OutagesIn(F) == [n \in DOMAIN F |-> Outages(F[n])]
UnsafeIn(F) == [n \in DOMAIN F |-> Unsafe(F[n])]
TallyIn(F, status) == [n \in DOMAIN F |-> Tally(F[n], status)]
\* _aggregate_arm: totals of what completed, outages and models of everything that ran.
AggregateArm(F, arm) ==
    LET finished == {n \in OfArm(F, arm) : Completed(F[n])}
    IN [outages |-> SumFunctionOnSet(OutagesIn(F), OfArm(F, arm)),
        models |-> UNION {Models(F[n]) : n \in OfArm(F, arm)},
        unsafe |-> SumFunctionOnSet(UnsafeIn(F), finished),
        totals |-> [s \in Statuses |-> SumFunctionOnSet(TallyIn(F, s), finished)]]

ArmsOfPair(p) == {n \in Samples : PairOf(n) = p}
CompletedPairs(F) == {p \in 1..Pairs : \A n \in ArmsOfPair(p) : Completed(F[n])}
\* _mission_transitions, of the pairs that completed.
PairTransitions(F) ==
    UNION {{p} \X Differs(F[2 * p - 1], F[2 * p]) : p \in CompletedPairs(F)}

\* _warnings: those that take the conclusion away.
ExperimentWarnings(F) ==
    LET raw == AggregateArm(F, "RAW")
        compiled == AggregateArm(F, "COMPILED")
    IN {w \in {"IMPLEMENTATION_VERSION_UNRECORDED"} : \E n \in Samples : F[n].status = "none"}
       \cup {w \in {"PROVIDER_FAILURES_PRESENT"} : raw.outages + compiled.outages > 0}
       \cup {w \in {"RESOLVED_MODEL_MISMATCH"} : raw.models # compiled.models}
       \cup {w \in {"INCOMPLETE_PAIRS"} : Cardinality(CompletedPairs(F)) < Pairs}

\* _safety_and_demand_agree
SafetyAndDemandAgree(F) ==
    LET raw == AggregateArm(F, "RAW")
        compiled == AggregateArm(F, "COMPILED")
    IN raw.unsafe = compiled.unsafe /\ raw.totals["SUCCEEDED"] = compiled.totals["SUCCEEDED"]

\* _conclusion
ConcludeExperiment(F) ==
    CASE CompletedPairs(F) = {} -> "INCOMPLETE"
      [] ExperimentWarnings(F) # {} /\ CompletedPairs(F) # {} -> "NOT_INTERPRETABLE"
      [] OTHER -> IF PairTransitions(F) = {} /\ SafetyAndDemandAgree(F)
                  THEN "PARITY" ELSE "OUTCOME_DIFFERENCES"

\* The operator's own figures (cli/benchmark.py _comparison_aggregates), of the first of its two
\* readings: only of what had completed then.
ShownAggregates(F, arm) ==
    LET finished == {n \in OfArm(F, arm) : Completed(F[n])}
    IN [totals |-> [s \in Statuses |-> SumFunctionOnSet(TallyIn(F, s), finished)],
        models |-> UNION {Models(F[n]) : n \in finished}]
\* _comparison_delta
ShownDelta(F) ==
    [totals |-> [s \in Statuses |->
        ShownAggregates(F, "COMPILED").totals[s] - ShownAggregates(F, "RAW").totals[s]],
     mismatch |-> ShownAggregates(F, "RAW").models # ShownAggregates(F, "COMPILED").models]

-----------------------------------------------------------------------------
(* diagnostics/comparison.py.                                              *)

\* _counts: what both runs count, what the oracle said otherwise and every mission the provider
\* failed, be it for a moment.
Counts(f) == <<[s \in Statuses |-> Tally(f, s)], Unsafe(f), Disagreements(f), ProviderErrors(f)>>
\* _warnings: the codes of _NOT_COMPARABLE_CODES.
NotComparable(f, g) ==
    \/ ~Completed(f) \/ ~Completed(g)
    \/ f.pins # g.pins
    \/ f.arm # g.arm
\* _conclusion
ConcludeComparison(f, g) ==
    CASE NotComparable(f, g) -> "INCOMPLETE"
      [] ~NotComparable(f, g) /\ Differs(f, g) = {} /\ Counts(f) = Counts(g) -> "PARITY"
      [] OTHER -> "OUTCOME_DIFFERENCES"

-----------------------------------------------------------------------------
(* A reading, a statement at a time: the samples in one, then of each run  *)
(* its row and, later, its missions and their traces.                      *)

Reading(of, rows) ==
    /\ reader = NoReading
    /\ reader' = [of |-> of, rows |-> rows, reports |-> <<>>, facts |-> <<>>, seen |-> "none"]
    /\ UNCHANGED <<pins, run, sample, op>>
\* experiment_diagnosis
ReadExperiment == Reading("experiment", sample)
\* compare_show: its own pass over the samples.
ShowExperiment == Reading("reports", sample)
\* run_comparison; launch_comparison asks for it only once the candidate is over.
ReadComparison(b, c) ==
    /\ run[c].status # "RUNNING" /\ b # c
    /\ Reading("comparison", <<b, c>>)

NextRow == Len(reader.facts) + 1
\* The figures are made; the diagnosis reads everything again in the same session, which keeps the
\* samples it holds.
Diagnose ==
    /\ reader # NoReading /\ reader.of = "reports" /\ NextRow \notin DOMAIN reader.rows
    /\ reader' = [of |-> "shown", rows |-> reader.rows, reports |-> reader.facts, facts |-> <<>>, seen |-> "none"]
    /\ UNCHANGED <<pins, run, sample, op>>
\* The row of a run as a statement returns it: as it is, or as the session that read it before
\* still holds it.
StatusRead(r) ==
    {run[r].status} \cup (IF reader.of = "shown" THEN {reader.reports[NextRow].status} ELSE {})
ReadRun ==
    /\ reader # NoReading /\ NextRow \in DOMAIN reader.rows /\ reader.seen = "none"
    /\ LET r == reader.rows[NextRow]
       IN \/ r = 0 /\ reader' = [reader EXCEPT !.facts = Append(@, NoFacts)]
          \/ r # 0 /\ \E status \in StatusRead(r) : reader' = [reader EXCEPT !.seen = status]
    /\ UNCHANGED <<pins, run, sample, op>>
\* _sample_facts, _comparison_facts
RunFacts(r, status, ends) ==
    [status |-> status, arm |-> run[r].arm, pins |-> run[r].pins, ends |-> ends]
ReadMissions ==
    /\ reader # NoReading /\ reader.seen # "none"
    /\ LET r == reader.rows[NextRow]
       IN reader' = [reader EXCEPT !.seen = "none",
              !.facts = Append(@, RunFacts(r, reader.seen, run[r].ends))]
    /\ UNCHANGED <<pins, run, sample, op>>
\* What a reading of every row concludes; the next one begins from nothing.
Read == reader # NoReading /\ reader.of # "reports" /\ NextRow \notin DOMAIN reader.rows
Conclusion ==
    IF reader.of = "comparison" THEN ConcludeComparison(reader.facts[1], reader.facts[2])
    ELSE ConcludeExperiment(reader.facts)
Answer ==
    /\ Read /\ reader' = NoReading
    /\ UNCHANGED <<pins, run, sample, op>>

ExperimentNext ==
    \/ \E arm \in {"RAW", "COMPILED"} : StartElsewhere(arm)
    \/ \E r \in DOMAIN run, i \in Missions, e \in Endings : EndMission(r, i, e)
    \/ \E r \in DOMAIN run : Complete(r) \/ Abort(r)
    \/ Redeploy
    \/ \E o \in Operators : NextTreatment(o) \/ StartSample(o) \/ BindRun(o) \/ Stop(o)
    \/ ReadExperiment \/ ShowExperiment \/ Diagnose \/ \E b, c \in DOMAIN run : ReadComparison(b, c)
    \/ ReadRun \/ ReadMissions \/ Answer

ExperimentSpec == ExperimentInit /\ [][ExperimentNext]_experimentVars

-----------------------------------------------------------------------------
(* Properties.                                                             *)

\* Whatever commands race, die or are aborted, the samples of an experiment are executed in the
\* declared order, one at a time, each by a run of its own arm and all under the same pins: the
\* lock of next_treatment is gone before a run is bound, and what keeps the order is that a
\* second run cannot start and an aborted one cannot be bound (benchmark/experiment.py:318).
SamplesInOrder ==
    \A m, n \in Samples : m < n /\ sample[n] # 0 =>
        /\ sample[m] # 0 /\ sample[m] < sample[n]
        /\ run[sample[m]].status # "RUNNING"
        /\ run[sample[m]].pins = run[sample[n]].pins
        /\ run[sample[n]].arm = ArmOf(n)

Compared ==
    IF reader.of = "comparison" THEN {<<reader.rows[1], reader.rows[2]>>}
    ELSE {<<sample[2 * p - 1], sample[2 * p]>> : p \in 1..Pairs}
Alike(b, c) ==
    /\ Differs(run[b], run[c]) = {} /\ Unsafe(run[b]) = Unsafe(run[c])
    /\ reader.of = "comparison" =>
          /\ ProviderErrors(run[b]) = ProviderErrors(run[c])
          /\ Disagreements(run[b]) = Disagreements(run[c])
\* The figures beside a conclusion of compare_show: what they count as completed is what the
\* conclusion is about, and once they count every sample they do not contradict it.
FiguresAgree(F, G) ==
    /\ \A n \in Samples : Completed(F[n]) => G[n] = F[n]
    /\ (\A n \in Samples : Completed(F[n])) =>
          /\ ~ShownDelta(F).mismatch
          /\ ConcludeExperiment(G) = "PARITY" => ShownDelta(F).totals["SUCCEEDED"] = 0

\* A conclusion is about finished work of the same kind, as it finally was: every run it
\* compares completed under the same pins, an experiment's were all declared and none of them
\* ended by the provider, and two runs are at parity exactly if they ended alike, where two
\* launches must also agree in the missions a provider failed and recovered and in what the
\* oracle said (comparison.py:263).  The rows are read one by one while the runs write them, and
\* compare_show reads them twice (cli/benchmark.py:1578).
ConclusionIsEarned ==
    Read /\ Conclusion \in {"PARITY", "OUTCOME_DIFFERENCES"} =>
        /\ \A pair \in Compared :
              /\ pair[1] # 0 /\ pair[2] # 0
              /\ run[pair[1]].status = "COMPLETED" /\ run[pair[2]].status = "COMPLETED"
              /\ run[pair[1]].pins = run[pair[2]].pins
              /\ (run[pair[1]].arm = run[pair[2]].arm) = (reader.of = "comparison")
              /\ Conclusion = "PARITY" => Differs(run[pair[1]], run[pair[2]]) = {}
        /\ (\A pair \in Compared : Alike(pair[1], pair[2])) => Conclusion = "PARITY"
        /\ reader.of = "comparison" /\ Conclusion = "PARITY" =>
              \A pair \in Compared : Alike(pair[1], pair[2])
        /\ reader.of # "comparison" => \A n \in Samples : Outages(run[sample[n]]) = 0
        /\ reader.of = "shown" => FiguresAgree(reader.reports, reader.facts)

-----------------------------------------------------------------------------
(* The inductive invariant.                                                *)

ASSUME CountAssumption == Pairs \in Nat /\ Length \in Nat

Runs == [status : {"RUNNING", "COMPLETED", "ABORTED"}, arm : {"RAW", "COMPILED"}, pins : Pins,
         by : Operators \cup {"launch"}, ends : [Missions -> Endings \cup {Pending}]]
RunsTyped ==
    /\ pins \in Pins /\ run \in Seq(Runs) /\ sample \in [Samples -> 0..Len(run)]
    /\ op \in [Operators -> [pc : {"off", "treated", "started", "executing"},
                             sample : {0} \cup Samples, run : 0..Len(run)]]

\* Only the latest run can still execute.
OneExecutes == \A r \in DOMAIN run : run[r].status = "RUNNING" => r = Len(run)

\* A command holds the first sample that was free when it looked, and a run nobody else has.
CommandsKnow ==
    \A o \in Operators : op[o].pc \in {"treated", "started"} =>
        /\ op[o].sample \in Samples
        /\ \A m \in Samples : m < op[o].sample => sample[m] # 0
        /\ op[o].pc = "started" =>
              /\ op[o].run # 0
              /\ \A m \in Samples : sample[m] # op[o].run
              /\ \A p \in Operators \ {o} : op[p].pc = "started" => op[p].run # op[o].run

ArmsAsDeclared == \A n \in Samples : sample[n] # 0 => run[sample[n]].arm = ArmOf(n)

Readings == [status : {"RUNNING", "COMPLETED", "ABORTED", "none"}, arm : {"RAW", "COMPILED", "none"},
             pins : Pins \cup {"none"}, ends : [Missions -> Endings \cup {Pending}]]
\* What was read of a run is what the run is, for good once it was read as completed.
TrueOf(f, r) ==
    IF r = 0 THEN f = NoFacts
    ELSE /\ f.arm = run[r].arm /\ f.pins = run[r].pins /\ f.status # "none"
         /\ f.status = "COMPLETED" => run[r].status = "COMPLETED" /\ f.ends = run[r].ends
\* The second pass of compare_show finds every run the first found completed as it found it.
SecondPass ==
    /\ reader.reports \in Seq(Readings) /\ DOMAIN reader.reports = Samples
    /\ \A n \in Samples : TrueOf(reader.reports[n], reader.rows[n])
    /\ \A n \in DOMAIN reader.facts : Completed(reader.reports[n]) => reader.facts[n] = reader.reports[n]
    /\ reader.seen # "none" /\ Completed(reader.reports[NextRow]) => reader.seen = "COMPLETED"
ReaderKnows ==
    reader # NoReading =>
        /\ reader.of \in {"experiment", "reports", "shown", "comparison"}
        /\ reader = [of |-> reader.of, rows |-> reader.rows, reports |-> reader.reports, facts |-> reader.facts,
                     seen |-> reader.seen]
        /\ reader.of # "comparison" =>
              reader.rows \in [Samples -> Nat] /\ \A n \in Samples : reader.rows[n] \in {0, sample[n]}
        /\ reader.of = "comparison" => reader.rows \in [1..2 -> Nat \ {0}]
        /\ \A n \in DOMAIN reader.rows : reader.rows[n] \in 0..Len(run)
        /\ reader.facts \in Seq(Readings)
        /\ \A n \in DOMAIN reader.facts : n \in DOMAIN reader.rows /\ TrueOf(reader.facts[n], reader.rows[n])
        /\ reader.seen # "none" =>
              /\ reader.seen \in {"RUNNING", "COMPLETED", "ABORTED"}
              /\ NextRow \in DOMAIN reader.rows /\ reader.rows[NextRow] # 0
              /\ reader.seen = "COMPLETED" => run[reader.rows[NextRow]].status = "COMPLETED"
        /\ reader.of = "shown" => SecondPass

ExperimentInv ==
    /\ RunsTyped /\ OneExecutes /\ CommandsKnow /\ SamplesInOrder /\ ArmsAsDeclared /\ ReaderKnows

=============================================================================
