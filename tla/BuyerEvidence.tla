---------------------------- MODULE BuyerEvidence ----------------------------
(***************************************************************************)
(* What a model buyer leaves behind.  The bounded loop of LLMBuyer         *)
(* (benchmark/llm.py) runs in a worker process (benchmark/worker.py) and   *)
(* records its own runtime (benchmark/agent_trace.py); the trusted side    *)
(* (benchmark/isolation.py) starts the process, may start a second one     *)
(* with the next provider credential, and reads the fault of the mission   *)
(* from the server, from the recorded evidence and from the exit, in that  *)
(* order.  Diagnostics read the same evidence again (diagnostics/traces.py)*)
(*                                                                         *)
(* An event is its type; the evidence is how many events it holds, the     *)
(* last of them, how many failures of the provider, whether an event was   *)
(* dropped at the limit and whether every usage names its own response.    *)
(***************************************************************************)
EXTENDS Integers, Sequences, FiniteSets

CONSTANTS
    MaxTurns, MaxCalls,  \* AgentConfiguration.max_model_turns, max_tool_calls
    RetryLimit,          \* THROTTLE_RETRY_LIMIT
    MaxEvents,           \* agent_trace.MAX_EVENTS
    Keys,                \* provider credentials the deployment lists
    Granted              \* provider requests reserved for the mission

ASSUME LimitsAssumption ==
    /\ MaxTurns \in Nat \ {0} /\ MaxCalls \in Nat \ {0} /\ RetryLimit \in Nat \ {0}
    /\ Keys \in Nat \ {0} /\ Granted \in Nat \ {0} /\ MaxEvents \in Nat
\* 2 * 3 * 12 + 2 * 24 + 2 = 122 of 128 events for the defaults, the only limits the product
\* freezes; AgentConfiguration itself admits any positive limits.
ASSUME EventsFit == 2 * RetryLimit * MaxTurns + 2 * MaxCalls + 2 <= MaxEvents

VARIABLES
    buyer,  \* the worker process and the loop in it
    log,    \* AgentExecutionEvidence of that process
    host    \* IsolatedMissionExecutor, for one mission

vars == <<buyer, log, host>>

EmptyLog == [n |-> 0, last |-> "NONE", errors |-> 0, lost |-> 0, sound |-> TRUE,
             counted |-> FALSE, unknown |-> FALSE]
NoProcess == [pc |-> "none", turn |-> 1, attempt |-> 1, calls |-> 0, attempts |-> 0,
              shopped |-> FALSE, failure |-> "none"]

Init ==
    /\ buyer = NoProcess /\ log = EmptyLog
    /\ host = [pc |-> "spawn", tried |-> 0, spent |-> 0, evidence |-> EmptyLog,
               fault |-> "none", shoppers |-> 0]

-----------------------------------------------------------------------------
(* AgentExecutionEvidence.                                                 *)

\* add: an event past the limit is dropped.
Add(l, kind) ==
    IF l.n >= MaxEvents THEN [l EXCEPT !.lost = 1]
    ELSE [l EXCEPT !.n = l.n + 1, !.last = kind,
                   !.errors = l.errors + (IF kind = "PROVIDER_ERROR" THEN 1 ELSE 0)]
\* _sanitize keeps a credential out of the evidence by the name of its key.
SecretParts == {"authorization", "api_key", "token", "secret", "password"}
PartsOf(key) == IF key \in {"input_tokens", "output_tokens", "total_tokens"} THEN {"token"} ELSE {}
Sanitized(usage) == {key \in usage : PartsOf(key) \cap SecretParts = {}}
\* AgentEvidenceRepository.append: a count that is no longer an integer is stored as unknown.
Unknown(usage) == Sanitized(usage) \cap {"input_tokens", "output_tokens", "total_tokens"} = {}
\* A usage names the event add answered, dropped or not.
AddUsage(l, usage) ==
    [Add(l, "MODEL_RESPONSE") EXCEPT
        !.sound = l.sound /\ l.n < MaxEvents,
        !.counted = usage # {}, !.unknown = Unknown(usage)]

-----------------------------------------------------------------------------
(* LLMBuyer.  buyer.pc is where the loop stands; a process that ended says  *)
(* how: "reported", or the reason it left no report.                       *)

Step(b, l) == buyer' = b /\ log' = l /\ UNCHANGED host
At(pc) == buyer.pc = pc /\ host.pc = "watch"
Reported(l) == Step([buyer EXCEPT !.pc = "reported"], l)

\* The head of the loop.  The deadline may have passed at any turn.
NextTurn ==
    /\ At("turn") /\ buyer.turn <= MaxTurns
    /\ Step([buyer EXCEPT !.pc = "ask", !.attempt = 1], log)
\* The deadline, the turn budget, an unusable response, a refusal or an end without a decision.
GiveUp == (At("turn") \/ At("answered")) /\ Reported(Add(log, "AGENT_ABORT"))

\* ProviderRequestAllowance.require: nothing is recorded of a request that is not made.
Ask ==
    /\ At("ask") /\ buyer.attempts < Granted - host.spent
    /\ Step([buyer EXCEPT !.pc = "wait", !.attempts = buyer.attempts + 1],
            Add(log, "MODEL_REQUEST"))
Exhausted ==
    /\ At("ask") /\ buyer.attempts >= Granted - host.spent
    /\ Step([buyer EXCEPT !.pc = "allowance"], log)

Answered(usage) == At("wait") /\ Step([buyer EXCEPT !.pc = "answered"], AddUsage(log, usage))
HasCalls == At("answered") /\ Step([buyer EXCEPT !.pc = "tools"], log)

\* Fault: the wait before a retry is an event of its own.
ThrottledAndWaited == Add(Add(log, "PROVIDER_ERROR"), "PROVIDER_ERROR")
\* _throttled_respond: a throttle is waited out inside the deadline, at most RetryLimit times;
\* the last one is recorded by the retry and again by the loop that gives up on it.
ThrottledOnce == Add(log, "PROVIDER_ERROR")
Unavailable(l) == Reported(Add(Add(l, "PROVIDER_ERROR"), "AGENT_ABORT_UNAVAILABLE"))
Throttled ==
    /\ At("wait") /\ buyer.attempt < RetryLimit
    /\ Step([buyer EXCEPT !.pc = "ask", !.attempt = buyer.attempt + 1], ThrottledOnce)
ThrottledOut == At("wait") /\ Unavailable(ThrottledOnce)
ProviderFails == At("wait") /\ Unavailable(log)

\* One tool call: answered by the merchant, refused before it reaches the merchant, or met by a
\* 5xx, which the first time is what the server remembers the mission by.
OverBudget ==
    /\ At("tools") /\ buyer.calls = MaxCalls
    /\ Step([buyer EXCEPT !.pc = "reported"], Add(log, "AGENT_ABORT"))
ToolCall(answer) ==
    /\ At("tools") /\ buyer.calls < MaxCalls
    /\ LET asked == Add(log, "TOOL_CALL")
           b == [buyer EXCEPT !.calls = buyer.calls + 1,
                    !.shopped = buyer.shopped \/ answer # "malformed",
                    !.failure = IF buyer.failure = "none" /\ answer \in {"MERCHANT", "DATABASE"}
                                THEN answer ELSE buyer.failure]
       IN Step(b, Add(asked, IF answer = "result" THEN "TOOL_RESULT" ELSE "TOOL_ERROR"))
\* The abstain tool ends the mission with a result of its own.
Abstain ==
    /\ At("tools") /\ buyer.calls < MaxCalls
    /\ Step([buyer EXCEPT !.pc = "reported", !.calls = buyer.calls + 1],
            Add(Add(Add(log, "TOOL_CALL"), "TOOL_RESULT"), "AGENT_FINAL"))
EndOfCalls == At("tools") /\ Step([buyer EXCEPT !.pc = "turn", !.turn = buyer.turn + 1], log)

\* A process may fail, or stop answering and be killed, wherever it stands.
Working == host.pc = "watch" /\ buyer.pc \in {"turn", "ask", "wait", "answered", "tools"}
Crash(how) == Working /\ Step([buyer EXCEPT !.pc = how], log)

-----------------------------------------------------------------------------
(* IsolatedMissionExecutor.                                                *)

Host(h) == host' = h /\ UNCHANGED <<buyer, log>>
Spawn ==
    /\ host.pc = "spawn"
    /\ buyer' = [NoProcess EXCEPT !.pc = "turn"] /\ log' = EmptyLog
    /\ host' = [host EXCEPT !.pc = "watch", !.tried = host.tried + 1]
\* The process could not be started, or refused what it was started with (worker.main).
Unstarted ==
    /\ host.pc = "spawn"
    /\ host' = [host EXCEPT !.pc = "done", !.tried = host.tried + 1, !.fault = "HARNESS"]
    /\ buyer' = [NoProcess EXCEPT !.pc = "unstarted"] /\ log' = EmptyLog

\* _exited.
Origin(how) == IF how = "allowance" THEN "HARNESS" ELSE "AGENT"
Shoppers == host.shoppers + (IF buyer.shopped THEN 1 ELSE 0)
\* The process left no report: no evidence of it is read, and none that was read is dropped.
CollectNothing ==
    /\ host.pc = "watch" /\ buyer.pc \in {"allowance", "crashed", "killed"}
    /\ Host([host EXCEPT !.pc = "done", !.fault = Origin(buyer.pc), !.shoppers = Shoppers])

Delivered == log.sound \/ log.last = "MODEL_RESPONSE"   \* from_payload
GaveUpOnProvider(e) == e.last = "AGENT_ABORT_UNAVAILABLE"
\* Fault: a mission is tried again whatever its buyer did at the merchant.
UntouchedUnlessPaid == GaveUpOnProvider(log)
\* _untouched_provider_failure
UntouchedProviderFailure == ~buyer.shopped /\ GaveUpOnProvider(log)
\* _attempted: the mission is tried with the next credential only where nothing happened.
Collect ==
    /\ host.pc = "watch" /\ buyer.pc = "reported" /\ Delivered
    /\ LET spent == host.spent + buyer.attempts
           again == host.tried < Keys /\ Granted - spent >= 1 /\ UntouchedProviderFailure
       IN Host([host EXCEPT !.pc = IF again THEN "spawn" ELSE "done", !.spent = spent,
                            !.evidence = log, !.shoppers = Shoppers])
Refuse ==
    /\ host.pc = "watch" /\ buyer.pc = "reported" /\ ~Delivered
    /\ Host([host EXCEPT !.pc = "done", !.fault = "AGENT", !.shoppers = Shoppers])

\* fault: the server first, then the provider's failure the evidence shows, then the exit.
ProviderFault(e) == GaveUpOnProvider(e) /\ e.errors > 0
FaultOfMission ==
    CASE buyer.failure = "DATABASE" -> "HARNESS"
      [] buyer.failure = "MERCHANT" -> "MERCHANT"
      [] buyer.failure = "none" /\ ProviderFault(host.evidence) -> "AGENT"
      [] OTHER -> host.fault
\* The next mission: begin forgets the previous one's evidence and fault.
Begin ==
    /\ host.pc = "done" /\ buyer' = NoProcess /\ log' = EmptyLog
    /\ host' = [pc |-> "spawn", tried |-> 0, spent |-> 0, evidence |-> EmptyLog,
                fault |-> "none", shoppers |-> 0]

Buyer ==
    \/ NextTurn \/ Ask \/ Exhausted \/ HasCalls \/ Throttled \/ ThrottledOut
    \/ ProviderFails \/ GiveUp \/ OverBudget \/ Abstain \/ EndOfCalls
    \/ \E usage \in {{}, {"input_tokens", "output_tokens", "total_tokens"}} : Answered(usage)
    \/ \E answer \in {"result", "malformed", "MERCHANT", "DATABASE"} : ToolCall(answer)
    \/ \E how \in {"crashed", "killed"} : Crash(how)
Next == Buyer \/ Spawn \/ Unstarted \/ CollectNothing \/ Collect \/ Refuse \/ Begin

Spec == Init /\ [][Next]_vars

-----------------------------------------------------------------------------
(* Properties.                                                             *)

\* The event limit never costs a mission its evidence: no event is dropped, every usage names
\* its own response (two usages of one response are refused by the database, and the mission
\* with them), and the last event is how the loop ended, which is where fault() and
\* diagnostics both look for an outage.
EvidenceIsWhole ==
    /\ log.lost = 0 /\ log.sound
    /\ buyer.pc = "reported" => log.last \in {"AGENT_ABORT", "AGENT_ABORT_UNAVAILABLE",
                                              "AGENT_FINAL"}

\* A mission is tried again with another credential only if nothing of it happened: at most one
\* of its processes reached the merchant, so nothing is quoted, held or paid twice.
MerchantMeetsOneBuyer ==
    host.shoppers + (IF host.pc = "watch" /\ buyer.shopped THEN 1 ELSE 0) <= 1

\* Said of the code and false of it: a mission that stopped because it had spent its requests is
\* the harness's (isolation.py:744).  The evidence of an earlier process outlives it.
AllowanceIsOurs ==
    host.pc = "done" /\ buyer.pc = "allowance" /\ buyer.failure = "none"
        => FaultOfMission = "HARNESS"

\* Said of the code and false of it: the responses counted as of unknown usage are those that
\* carried no token counts (benchmark/permits.py:201).  Their keys hold the word token.
UnknownMeansUnreported ==
    host.evidence.n > 0 /\ host.evidence.unknown => ~host.evidence.counted
-----------------------------------------------------------------------------
(***************************************************************************)
(* The inductive invariant behind both.  The event limit is met turn by    *)
(* turn: a turn asks at most RetryLimit times, and asking is two events;   *)
(* so is a tool call; giving up on the provider leaves two more.           *)
(***************************************************************************)
Kinds == {"MODEL_REQUEST", "MODEL_RESPONSE", "PROVIDER_ERROR", "TOOL_CALL", "TOOL_RESULT",
          "TOOL_ERROR", "AGENT_ABORT", "AGENT_ABORT_UNAVAILABLE", "AGENT_FINAL"}
Logs == [n : Nat, last : Kinds \cup {"NONE"}, errors : Nat, lost : Nat, sound : BOOLEAN,
         counted : BOOLEAN, unknown : BOOLEAN]
Processes == [pc : {"none", "turn", "ask", "wait", "answered", "tools", "reported", "allowance",
                    "crashed", "killed", "unstarted"},
              turn : Nat \ {0}, attempt : Nat \ {0}, calls : Nat, attempts : Nat,
              shopped : BOOLEAN, failure : {"none", "MERCHANT", "DATABASE"}]
Hosts == [pc : {"spawn", "watch", "done"}, tried : Nat, spent : Nat, evidence : Logs,
          fault : {"none", "HARNESS", "AGENT"}, shoppers : Nat]

\* The events of the turns before this one.
Before(turn) == 2 * RetryLimit * (turn - 1)
\* The events a process may have recorded where it stands.
MostEvents ==
    Before(buyer.turn) + 2 * buyer.calls +
    (CASE buyer.pc = "ask" -> 2 * buyer.attempt - 2
       [] buyer.pc = "wait" -> 2 * buyer.attempt - 1
       [] buyer.pc \in {"answered", "tools"} -> 2 * RetryLimit
       [] OTHER -> 0)

WithinLimits ==
    buyer.pc \in {"turn", "ask", "wait", "answered", "tools"} =>
        /\ buyer.turn <= MaxTurns + (IF buyer.pc = "turn" THEN 1 ELSE 0)
        /\ buyer.attempt <= RetryLimit \/ buyer.pc = "turn"
        /\ buyer.calls <= MaxCalls
        /\ log.n <= MostEvents

\* A mission is given another process only while no process of it met the merchant.
UntouchedSoFar ==
    /\ host.pc \in {"spawn", "watch"} => host.shoppers = 0
    /\ host.shoppers <= 1

EvidenceInv ==
    /\ log \in Logs /\ buyer \in Processes /\ host \in Hosts
    /\ WithinLimits
    /\ EvidenceIsWhole
    /\ UntouchedSoFar
=============================================================================
