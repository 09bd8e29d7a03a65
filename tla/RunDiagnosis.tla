---------------------------- MODULE RunDiagnosis ----------------------------
(***************************************************************************)
(* What a merchant is told about a run: run_diagnostics                    *)
(* (diagnostics/service.py) reads the missions, their traces, the selected *)
(* variants and the catalog in separate statements while the run and the   *)
(* catalog move on; each mission is then diagnosed by rules                *)
(* (diagnostics/mission.py, codes.py) and the diagnoses are grouped into   *)
(* findings (diagnostics/findings.py).                                     *)
(*                                                                         *)
(* A finding is its code and the attributes it names; wording, evidence    *)
(* references and compiler links are left out.                             *)
(***************************************************************************)
EXTENDS Integers, FiniteSets, Functions

CONSTANTS
    RunLength,       \* missions of the run
    Verdicts,     \* what the evaluator may record of a mission, and what its trace says
    Missing,      \* [{"pinned", "moved"} -> required attributes the selected variant lacks]
    Unreadable    \* the same, for attributes published in a form nothing compares with

VARIABLES
    status,   \* benchmark_run.status
    mission,  \* benchmark_mission_run rows, in the order they are carried out
    shelf,    \* the merchant's catalog: as the run pinned it, or moved since
    analyst,   \* one run_diagnostics call and what it has read so far
    report    \* what it answered, or NoReport

diagnosisVars == <<status, mission, shelf, analyst, report>>

RunMissions == 1..RunLength
Terminal == {"SUCCEEDED", "ABSTAINED", "FAILED", "ERRORED"}
Calm == [outage |-> FALSE, throttles |-> 0, mismatch |-> FALSE]
NotStarted == [status |-> "PENDING", expected |-> "PURCHASE", reasons |-> {}, unsafe |-> FALSE,
               escaped |-> FALSE, oracle |-> "unchecked", selected |-> FALSE, trace |-> Calm]
Idle == [at |-> "idle"]
NoReport == [rows |-> <<>>, missions |-> <<>>, findings |-> {}]

DiagnosisInit ==
    /\ status = "RUNNING" /\ mission = [i \in RunMissions |-> NotStarted]
    /\ shelf = "pinned" /\ analyst = Idle /\ report = NoReport

-----------------------------------------------------------------------------
(* The run and the catalog, as far as a report can see them.               *)

StartMission(i, expected) ==
    /\ status = "RUNNING" /\ mission[i].status = "PENDING"
    /\ \A j \in 1..(i - 1) : mission[j].status \in Terminal
    /\ mission' = [mission EXCEPT ![i].status = "RUNNING", ![i].expected = expected]
    /\ shelf' = "pinned"       \* every mission begins with the environment prepared again
    /\ UNCHANGED <<status, analyst, report>>

Outage == [Calm EXCEPT !.outage = TRUE]
DataReasons == {"CATEGORY_MISSING", "ATTRIBUTE_MISSING", "ATTRIBUTE_UNREADABLE"}
Faults == {"AGENT_EXECUTION_ERROR", "MERCHANT_API_ERROR"}

\* What the evaluator may have recorded of a mission (MissionMeasurement): declining is right
\* only where no purchase was expected, a fault of the buyer's or of the merchant's side is a
\* reason of its own, and one of the harness's errs a mission that had not bought.
Recordable(m) ==
    /\ CASE m.status = "SUCCEEDED" -> m.expected = "PURCHASE" /\ m.reasons = {}
         [] m.status = "ABSTAINED" ->
               m.reasons = IF m.expected = "PURCHASE" THEN {"DISCOVERY_FAILURE"} ELSE {}
         [] m.status = "ERRORED" -> m.reasons = {}
         [] m.status = "FAILED" -> m.reasons # {}
    /\ m.trace = Outage => m.status = "ERRORED" \/ m.reasons \cap Faults # {}
    /\ "UNEXPECTED_PURCHASE" \in m.reasons => m.expected = "NONE"
    /\ m.expected = "NONE" => m.oracle # "denied" \/ m.status = "FAILED"
    /\ m.unsafe <=> m.escaped \/ m.reasons \cap {"MANDATE_DENIED", "CONSTRAINT_VIOLATION"} =
                                    {"MANDATE_DENIED", "CONSTRAINT_VIOLATION"}
    /\ m.escaped => m.status = "FAILED" /\ m.trace = Calm
    /\ "ENFORCEMENT_BYPASSED" \in m.reasons => m.escaped

\* The trace and the outcome of a mission are written in one transaction.
FinishMission(i, v, unsafe) ==
    /\ status = "RUNNING" /\ mission[i].status = "RUNNING"
    /\ LET m == [mission[i] EXCEPT
            !.status = v.status, !.reasons = v.reasons, !.unsafe = unsafe, !.escaped = v.escaped,
            !.oracle = v.oracle, !.trace = v.trace, !.selected = v.reasons \cap DataReasons # {}]
       IN Recordable(m) /\ mission' = [mission EXCEPT ![i] = m]
    /\ UNCHANGED <<status, shelf, analyst, report>>

EndRun(s) ==
    /\ status = "RUNNING"
    /\ s = "COMPLETED" => \A i \in RunMissions : mission[i].status \in Terminal
    /\ status' = s /\ UNCHANGED <<mission, shelf, analyst, report>>

\* An edit or an import outside the run.  The next mission, of this run or another, restores
\* the catalog.
MoveShelf ==
    /\ shelf' = IF shelf = "pinned" THEN "moved" ELSE "pinned"
    /\ status # "RUNNING"      \* writes are refused while a run holds the merchant
    /\ UNCHANGED <<status, mission, analyst, report>>

-----------------------------------------------------------------------------
(* diagnostics/codes.py.                                                   *)

\* PRIMARY_PRECEDENCE.
PrimaryPrecedence ==
    <<"SAFETY_ESCAPE", "PROVIDER_OUTAGE_TERMINATED_MISSION", "BENCHMARK_HARNESS_FAULT",
      "MISSION_NOT_MEASURED", "GROUND_TRUTH_DISAGREEMENT", "AGENT_REPORT_CONTRADICTION",
      "MERCHANT_SURFACE_ERROR", "AGENT_EXECUTION_FAILURE", "CATEGORY_NOT_PUBLISHED",
      "ATTRIBUTE_NOT_PUBLISHED", "ATTRIBUTE_UNREADABLE", "STOCK_UNAVAILABLE", "CHECKOUT_REFUSED",
      "SELECTION_VIOLATED_REQUIREMENTS", "UNSAFE_ATTEMPT_BLOCKED",
      "AUTHORIZATION_DENIED_COMPLIANT_ATTEMPT", "PAYMENT_DECLINED", "PAYMENT_UNRESOLVED",
      "DISCOVERY_FAILED">>
Ranked == {PrimaryPrecedence[i] : i \in DOMAIN PrimaryPrecedence}
SecondaryOnly == {"PROVIDER_THROTTLE_RECOVERED", "RESOLVED_MODEL_MISMATCH"}

\* primary_code, over the codes of one mission.
PrimaryCode(codes) ==
    LET eligible == codes \cap Ranked
    IN IF eligible = {} THEN "none"
       ELSE PrimaryPrecedence[CHOOSE i \in DOMAIN PrimaryPrecedence :
               /\ PrimaryPrecedence[i] \in eligible
               /\ \A j \in 1..(i - 1) : PrimaryPrecedence[j] \notin eligible]

\* IDENTITIES: the codes a merchant is asked to act on, and those nobody at the merchant can.
Actionability(code) ==
    CASE code \in {"MERCHANT_SURFACE_ERROR", "CHECKOUT_REFUSED", "STOCK_UNAVAILABLE",
                   "CATEGORY_NOT_PUBLISHED", "ATTRIBUTE_NOT_PUBLISHED", "ATTRIBUTE_UNREADABLE"}
            -> "MERCHANT_ACTION"
      [] code \in {"SAFETY_ESCAPE", "AGENT_REPORT_CONTRADICTION", "AGENT_EXECUTION_FAILURE",
                   "SELECTION_VIOLATED_REQUIREMENTS"} -> "AGENT_SYSTEM_ACTION"
      [] code \in {"AUTHORIZATION_DENIED_COMPLIANT_ATTEMPT", "DISCOVERY_FAILED",
                   "PAYMENT_UNRESOLVED", "RESOLVED_MODEL_MISMATCH"} -> "REVIEW_REQUIRED"
      [] OTHER -> "NO_MERCHANT_ACTION"

-----------------------------------------------------------------------------
(* diagnostics/mission.py.  A rule answers the findings it sees; x is what *)
(* one call read of a mission.                                             *)

Finding(code) == [code |-> code, keys |-> {}]
When(holds, code) == {f \in {Finding(code)} : holds}
Has(x, reason) == reason \in x.reasons

EscapeRule(x) == When(x.escaped, "SAFETY_ESCAPE")
HarnessRule(x) == When(x.status = "ERRORED", "BENCHMARK_HARNESS_FAULT")
UnmeasuredRule(x) == When(x.status \notin Terminal, "MISSION_NOT_MEASURED")
GroundTruthRule(x) ==
    When(x.oracle = "denied" \/ Has(x, "UNEXPECTED_PURCHASE"), "GROUND_TRUTH_DISAGREEMENT")
ContradictionRule(x) == When(Has(x, "AGENT_REASONING_ERROR"), "AGENT_REPORT_CONTRADICTION")
SurfaceErrorRule(x) == When(Has(x, "MERCHANT_API_ERROR"), "MERCHANT_SURFACE_ERROR")
ExecutionRule(x) ==
    When(Has(x, "AGENT_EXECUTION_ERROR") /\ ~x.trace.outage, "AGENT_EXECUTION_FAILURE")
ProviderFaultRules(x) ==
    When(x.trace.outage, "PROVIDER_OUTAGE_TERMINATED_MISSION")
    \cup When(~x.trace.outage /\ x.trace.throttles > 0, "PROVIDER_THROTTLE_RECOVERED")
ModelMismatchRule(x) == When(x.trace.mismatch, "RESOLVED_MODEL_MISMATCH")
\* The attributes named are those of today's catalog, when it may be quoted.
MerchantDataRules(x) ==
    When(Has(x, "CATEGORY_MISSING"), "CATEGORY_NOT_PUBLISHED")
    \cup {f \in {[code |-> "ATTRIBUTE_NOT_PUBLISHED", keys |-> x.missing]} :
             Has(x, "ATTRIBUTE_MISSING")}
    \cup {f \in {[code |-> "ATTRIBUTE_UNREADABLE", keys |-> x.unreadable]} :
             Has(x, "ATTRIBUTE_UNREADABLE")}
StockRule(x) ==
    When(Has(x, "INVENTORY_UNAVAILABLE"),
         IF x.expected = "PURCHASE" THEN "STOCK_UNAVAILABLE" ELSE "SELECTION_VIOLATED_REQUIREMENTS")
CheckoutRefusalRule(x) == When(Has(x, "CHECKOUT_CREATION_FAILED"), "CHECKOUT_REFUSED")
SelectionReasonMap == {"WRONG_MERCHANT", "CURRENCY_MISMATCH", "BUDGET_EXCEEDED",
                       "CONSTRAINT_VIOLATION", "INVALID_VARIANT", "QUANTITY_MISMATCH"}
SelectionRule(x) == When(x.reasons \cap SelectionReasonMap # {}, "SELECTION_VIOLATED_REQUIREMENTS")
AuthorizationRule(x) ==
    When(Has(x, "MANDATE_DENIED"),
         IF x.unsafe THEN "UNSAFE_ATTEMPT_BLOCKED" ELSE "AUTHORIZATION_DENIED_COMPLIANT_ATTEMPT")
PaymentRules(x) ==
    When(Has(x, "PAYMENT_FAILED"), "PAYMENT_DECLINED")
    \cup When(Has(x, "PAYMENT_UNRESOLVED"), "PAYMENT_UNRESOLVED")
DiscoveryRule(x) == When(Has(x, "DISCOVERY_FAILURE") /\ ~x.trace.outage, "DISCOVERY_FAILED")

AllFindings(x) ==
    EscapeRule(x) \cup HarnessRule(x) \cup UnmeasuredRule(x) \cup GroundTruthRule(x)
    \cup ContradictionRule(x) \cup SurfaceErrorRule(x) \cup ProviderFaultRules(x)
    \cup ExecutionRule(x) \cup ModelMismatchRule(x) \cup MerchantDataRules(x) \cup StockRule(x)
    \cup CheckoutRefusalRule(x) \cup SelectionRule(x) \cup AuthorizationRule(x)
    \cup PaymentRules(x) \cup DiscoveryRule(x)

Codes(F) == {f.code : f \in F}
\* _ordered and _merged: two findings of one code become one.
Merged(F) ==
    {[code |-> c, keys |-> UNION {f.keys : f \in {g \in F : g.code = c}}] : c \in Codes(F)}

\* _demand_effect: what the mission was worth, in missions, and where that went.
DemandEffect(x) ==
    IF x.expected # "PURCHASE" THEN "none"
    ELSE IF x.status = "SUCCEEDED" THEN "CAPTURED"
    ELSE IF x.status = "ERRORED" \/ x.status \notin Terminal THEN "NOT_MEASURED"
    ELSE "AT_RISK"

\* diagnose_mission.
DiagnoseMission(x) ==
    LET findings == Merged(AllFindings(x))
    IN [findings |-> findings, primary |-> PrimaryCode(Codes(findings)),
        demand |-> DemandEffect(x)]

-----------------------------------------------------------------------------
(* diagnostics/findings.py: D is one diagnosis per mission.                *)

\* _group_key: gaps on different attributes stay different findings.
GroupKeys(D) == UNION {D[i].findings : i \in DOMAIN D}
Contributing(D, key) == {i \in DOMAIN D : key \in D[i].findings}

\* Fault: a mission's demand is counted under everything found in it.
DemandOfAny(D, key, bucket) ==
    Cardinality({i \in Contributing(D, key) : D[i].demand = bucket})
\* _demand: only under the finding that leads the mission.
Demand(D, key, bucket) ==
    Cardinality({i \in Contributing(D, key) :
                    D[i].primary = key.code /\ D[i].demand = bucket})

Buckets == {"CAPTURED", "AT_RISK", "NOT_MEASURED"}
\* aggregate_findings.
AggregateFindings(D) ==
    {[code |-> key.code, keys |-> key.keys, missions |-> Contributing(D, key),
      action |-> Actionability(key.code), demand |-> [b \in Buckets |-> Demand(D, key, b)]]
        : key \in GroupKeys(D)}

-----------------------------------------------------------------------------
(* DiagnosticsService.run_diagnostics, a statement at a time.              *)

LoadRun ==
    /\ analyst.at = "idle" /\ report = NoReport
    /\ analyst' = [at |-> "loaded", rows |-> [i \in RunMissions |-> [mission[i] EXCEPT !.trace = Calm]]]
    /\ UNCHANGED <<status, mission, shelf, report>>

\* _trace_events and _provider_usage.
ReadTraces ==
    /\ analyst.at = "loaded"
    /\ analyst' = [at |-> "traced",
                  rows |-> [i \in RunMissions |-> [analyst.rows[i] EXCEPT !.trace = mission[i].trace]]]
    /\ UNCHANGED <<status, mission, shelf, report>>

\* _selected_variants: today's rows, with their attributes.
ReadVariants ==
    /\ analyst.at = "traced"
    /\ analyst' = [at |-> "stocked", rows |-> analyst.rows, seen |-> shelf]
    /\ UNCHANGED <<status, mission, shelf, report>>

\* _catalog_pin_verified, and the report.  Attributes are quoted only of a verified catalog.
Quoted(names, i, verified) ==
    IF verified /\ analyst.rows[i].selected THEN names[analyst.seen] ELSE {}
\* _diagnose_mission: a row and what may be quoted with it.
Evidence(x, missing, unreadable) ==
    [status |-> x.status, expected |-> x.expected, reasons |-> x.reasons, unsafe |-> x.unsafe,
     escaped |-> x.escaped, oracle |-> x.oracle, trace |-> x.trace,
     missing |-> missing, unreadable |-> unreadable]
VerifyAndReport ==
    /\ analyst.at = "stocked"
    /\ LET verified == shelf = "pinned"
           D == [i \in RunMissions |->
                   DiagnoseMission(Evidence(analyst.rows[i], Quoted(Missing, i, verified),
                                            Quoted(Unreadable, i, verified)))]
       IN report' = [rows |-> analyst.rows, missions |-> D, findings |-> AggregateFindings(D)]
    /\ analyst' = Idle
    /\ UNCHANGED <<status, mission, shelf>>

\* The next call begins from nothing.
Discard ==
    /\ report # NoReport /\ report' = NoReport
    /\ UNCHANGED <<status, mission, shelf, analyst>>

DiagnosisNext ==
    \/ \E i \in RunMissions : \E e \in {"PURCHASE", "NONE"} : StartMission(i, e)
    \/ \E i \in RunMissions, v \in Verdicts, unsafe \in BOOLEAN : FinishMission(i, v, unsafe)
    \/ \E s \in {"COMPLETED", "ABORTED"} : EndRun(s)
    \/ MoveShelf
    \/ LoadRun \/ ReadTraces \/ ReadVariants \/ VerifyAndReport \/ Discard

DiagnosisSpec == DiagnosisInit /\ [][DiagnosisNext]_diagnosisVars

-----------------------------------------------------------------------------
(* What a report may be relied on for.                                     *)

\* No merchant is asked to answer for a mission the model provider ended, and no failure goes
\* without a finding that leads it.  The rows, the traces and the catalog are read apart
\* while the run writes them, and the precedence alone keeps an outage ahead of the failures
\* it caused (diagnostics/codes.py:430).
BlameIsEarned ==
    report # NoReport =>
        /\ \A i \in RunMissions :
              report.rows[i].status \notin {"SUCCEEDED", "ABSTAINED"} =>
                  report.missions[i].primary # "none"
        /\ \A f \in report.findings, i \in RunMissions :
              f.action = "MERCHANT_ACTION" /\ report.missions[i].primary = f.code
                  => ~mission[i].trace.outage \/ mission[i].escaped

\* What the findings say was at stake adds up to what the missions were worth: a mission with
\* several findings is counted once, one with two gaps is not counted under both, and nothing
\* that was lost goes missing (diagnostics/findings.py, _demand).
DemandIsCountedOnce ==
    report # NoReport =>
        \A b \in {"AT_RISK", "NOT_MEASURED"} :
            SumFunctionOnSet([f \in report.findings |-> f.demand[b]], report.findings) =
                Cardinality({i \in RunMissions : report.missions[i].demand = b})

DiagnosisIsSound == BlameIsEarned /\ DemandIsCountedOnce

\* Said of the code and false of it: attribute names and values are quoted only while the
\* catalog pin says that today's rows are the run's (diagnostics/service.py:776).  The rows are
\* read before the pin is verified, and a restore between the two verifies a catalog nobody
\* quoted.
NamesComeFromThePin ==
    report # NoReport =>
        \A f \in report.findings :
            /\ f.code = "ATTRIBUTE_NOT_PUBLISHED" => f.keys \subseteq Missing["pinned"]
            /\ f.code = "ATTRIBUTE_UNREADABLE" => f.keys \subseteq Unreadable["pinned"]

-----------------------------------------------------------------------------
(* Why DiagnosisIsSound holds: what is known of a run and of a report that *)
(* is being put together.                                                  *)

KnownReasons ==
    DataReasons \cup Faults \cup SelectionReasonMap
    \cup {"ENFORCEMENT_BYPASSED", "AGENT_REASONING_ERROR", "DISCOVERY_FAILURE",
          "INVENTORY_UNAVAILABLE", "CHECKOUT_CREATION_FAILED", "MANDATE_DENIED", "PAYMENT_FAILED",
          "PAYMENT_UNRESOLVED", "UNEXPECTED_PURCHASE"}
Traces == [outage : BOOLEAN, throttles : Nat, mismatch : BOOLEAN]
Oracles == {"confirmed", "denied", "unchecked"}

\* The evaluator's reasons are those of FAILURE_PRECEDENCE (benchmark/failures.py), and a
\* verdict is terminal.
ASSUME VerdictsAssumption ==
    /\ RunLength \in Nat
    /\ Verdicts \subseteq [status : Terminal, reasons : SUBSET KnownReasons, escaped : BOOLEAN,
                           oracle : Oracles, trace : Traces]

Rows ==
    [status : {"PENDING", "RUNNING"} \cup Terminal, expected : {"PURCHASE", "NONE"},
     reasons : SUBSET KnownReasons, unsafe : BOOLEAN, escaped : BOOLEAN, oracle : Oracles,
     selected : BOOLEAN, trace : Traces]

MissionsStand ==
    /\ mission \in [RunMissions -> Rows]
    /\ \A i \in RunMissions : mission[i].status \in Terminal => Recordable(mission[i])

\* A mission that was over when its row was read is over for good; its trace is read later.
Untraced(rows) ==
    /\ rows \in [RunMissions -> Rows]
    /\ \A i \in RunMissions :
          rows[i].status \in Terminal => rows[i] = [mission[i] EXCEPT !.trace = Calm]
Traced(rows) ==
    /\ rows \in [RunMissions -> Rows]
    /\ \A i \in RunMissions : rows[i].status \in Terminal => rows[i] = mission[i]

AnalystKnows ==
    /\ analyst.at \in {"idle", "loaded", "traced", "stocked"}
    /\ analyst.at = "loaded" => Untraced(analyst.rows)
    /\ analyst.at \in {"traced", "stocked"} => Traced(analyst.rows)
    /\ analyst.at = "stocked" => analyst.seen \in {"pinned", "moved"}

\* A report is the rules over what was read, whatever of the catalog it quotes.
MayQuote(names) == {{}, names["pinned"], names["moved"]}
ReportStands ==
    report # NoReport =>
        /\ Traced(report.rows)
        /\ DOMAIN report.missions = RunMissions
        /\ \A i \in RunMissions : \E m \in MayQuote(Missing), u \in MayQuote(Unreadable) :
              report.missions[i] = DiagnoseMission(Evidence(report.rows[i], m, u))
        /\ report.findings = AggregateFindings(report.missions)

DiagnosisInv ==
    shelf \in {"pinned", "moved"} /\ MissionsStand /\ AnalystKnows /\ ReportStands
=============================================================================
