-------------------------- MODULE DecisionsProofs --------------------------
(***************************************************************************)
(* Proofs about the subsystems that read and judge, each for every value   *)
(* of its constants: the evidence a model buyer leaves, the measurement of *)
(* its missions, the diagnosis of a run, the experiments and comparisons   *)
(* of runs, the requirements a buyer states, the import of a site and the  *)
(* suite of a new merchant.                                                *)
(* They share no state; the module holds them together because they share  *)
(* the facts about sums.                                                   *)
(***************************************************************************)
EXTENDS BuyerEvidence, MissionMeasurement, RunDiagnosis, CompilerExperiments, StatedRequirements, SiteImport,
        GeneratedSuite, SumFacts

(***************************************************************************)
(* Counting events.                                                        *)
(***************************************************************************)

\* The events of every turn there may be.
AllTurns == 2 * RetryLimit * MaxTurns

LEMMA MoreTurnsMoreEvents ==
  ASSUME NEW x \in Nat, NEW y \in Nat, x <= y
  PROVE  2 * RetryLimit * x \in Nat /\ 2 * RetryLimit * x <= 2 * RetryLimit * y
<1> DEFINE r == 2 * RetryLimit
           d == y - x
<1>1. r \in Nat /\ d \in Nat /\ y = x + d
  BY LimitsAssumption
<1> HIDE DEF r, d
<1>2. r * (x + d) = r * x + r * d /\ r * x \in Nat /\ r * d \in Nat
  BY <1>1
<1>3. r * x \in Nat /\ r * x <= r * y
  BY <1>1, <1>2
<1> QED
  BY <1>3 DEF r

LEMMA TurnByTurn ==
  ASSUME NEW t \in Nat \ {0}
  PROVE  /\ Before(t) \in Nat
         /\ Before(t + 1) = Before(t) + 2 * RetryLimit
         /\ t <= MaxTurns => Before(t) + 2 * RetryLimit <= AllTurns
         /\ t <= MaxTurns + 1 => Before(t) <= AllTurns
<1>1. t - 1 \in Nat /\ t \in Nat /\ MaxTurns \in Nat /\ (t + 1) - 1 = t
  BY LimitsAssumption
<1>2. Before(t) \in Nat
  BY <1>1, MoreTurnsMoreEvents DEF Before
<1>3. Before(t + 1) = Before(t) + 2 * RetryLimit
  <2> DEFINE r == 2 * RetryLimit
  <2>1. r \in Nat
    BY LimitsAssumption
  <2> HIDE DEF r
  <2>2. r * t = r * (t - 1) + r
    BY <2>1, <1>1
  <2> QED
    BY <1>1, <2>2 DEF r, Before
<1>4. t <= MaxTurns => Before(t + 1) <= AllTurns
  BY <1>1, MoreTurnsMoreEvents DEF Before, AllTurns
<1>5. t <= MaxTurns + 1 => Before(t) <= AllTurns
  BY <1>1, MoreTurnsMoreEvents DEF Before, AllTurns
<1> QED
  BY <1>2, <1>3, <1>4, <1>5

\* Wherever the loop stands there is room for what it may still record there.
LEMMA Room ==
  ASSUME EvidenceInv
  PROVE  /\ MaxEvents \in Nat /\ log.n \in Nat
         /\ buyer.pc \in {"turn", "ask", "answered", "tools"} => log.n + 2 <= MaxEvents
         /\ buyer.pc = "wait" => log.n + 3 <= MaxEvents
         /\ buyer.pc = "tools" /\ buyer.calls < MaxCalls => log.n + 4 <= MaxEvents
<1>1. /\ AllTurns + 2 * MaxCalls + 2 <= MaxEvents
      /\ MaxEvents \in Nat /\ MaxCalls \in Nat /\ RetryLimit \in Nat
      /\ AllTurns \in Nat
  BY LimitsAssumption, EventsFit, MoreTurnsMoreEvents DEF AllTurns
<1>2. /\ buyer.turn \in Nat \ {0} /\ buyer.attempt \in Nat \ {0} /\ buyer.calls \in Nat
      /\ log.n \in Nat
  BY DEF EvidenceInv, Processes, Logs
<1>3. /\ Before(buyer.turn) \in Nat
      /\ buyer.turn <= MaxTurns => Before(buyer.turn) + 2 * RetryLimit <= AllTurns
      /\ buyer.turn <= MaxTurns + 1 => Before(buyer.turn) <= AllTurns
  BY <1>2, TurnByTurn
<1>4. CASE buyer.pc = "turn"
  BY <1>1, <1>2, <1>3, <1>4, LimitsAssumption DEF EvidenceInv, WithinLimits, MostEvents
<1>5. CASE buyer.pc = "ask"
  BY <1>1, <1>2, <1>3, <1>5, LimitsAssumption DEF EvidenceInv, WithinLimits, MostEvents
<1>6. CASE buyer.pc = "wait"
  BY <1>1, <1>2, <1>3, <1>6, LimitsAssumption DEF EvidenceInv, WithinLimits, MostEvents
<1>7. CASE buyer.pc \in {"answered", "tools"}
  BY <1>1, <1>2, <1>3, <1>7, LimitsAssumption DEF EvidenceInv, WithinLimits, MostEvents
<1> QED
  BY <1>1, <1>2, <1>4, <1>5, <1>6, <1>7

\* An event there is room for is recorded, and is the last.
LEMMA Adding ==
  ASSUME NEW l \in Logs, NEW kind \in Kinds, l.n < MaxEvents
  PROVE  /\ Add(l, kind) \in Logs
         /\ Add(l, kind).n = l.n + 1 /\ Add(l, kind).last = kind
         /\ Add(l, kind).lost = l.lost /\ Add(l, kind).sound = l.sound
<1> DEFINE n == l.n + 1
           e == l.errors + (IF kind = "PROVIDER_ERROR" THEN 1 ELSE 0)
<1>1. MaxEvents \in Nat /\ l.n \in Nat /\ l.errors \in Nat
  BY LimitsAssumption DEF Logs
<1>2. n \in Nat /\ e \in Nat /\ ~ (l.n >= MaxEvents)
  BY <1>1
<1>3. Add(l, kind) = [l EXCEPT !.n = n, !.last = kind, !.errors = e]
  BY <1>2 DEF Add
<1> HIDE DEF n, e
<1>4. /\ Add(l, kind) \in Logs
      /\ Add(l, kind).n = n /\ Add(l, kind).last = kind
      /\ Add(l, kind).lost = l.lost /\ Add(l, kind).sound = l.sound
  BY <1>2, <1>3 DEF Logs
<1> QED
  BY <1>4 DEF n

LEMMA AddingUsage ==
  ASSUME NEW l \in Logs, l.n < MaxEvents, NEW usage
  PROVE  /\ AddUsage(l, usage) \in Logs
         /\ AddUsage(l, usage).n = l.n + 1 /\ AddUsage(l, usage).last = "MODEL_RESPONSE"
         /\ AddUsage(l, usage).lost = l.lost /\ AddUsage(l, usage).sound = l.sound
<1> DEFINE added == Add(l, "MODEL_RESPONSE")
           c == usage # {}
           u == Unknown(usage)
<1>1. /\ added \in Logs /\ added.n = l.n + 1 /\ added.last = "MODEL_RESPONSE"
      /\ added.lost = l.lost
  BY Adding DEF Kinds
<1>2. AddUsage(l, usage) = [added EXCEPT !.sound = l.sound, !.counted = c, !.unknown = u]
  BY DEF AddUsage, Logs
<1>3. c \in BOOLEAN /\ u \in BOOLEAN /\ l.sound \in BOOLEAN
  BY DEF Logs, Unknown
<1> HIDE DEF added, c, u
<1> QED
  BY <1>1, <1>2, <1>3 DEF Logs

-----------------------------------------------------------------------------
(***************************************************************************)
(* The loop of the buyer.                                                  *)
(***************************************************************************)
Ends == {"AGENT_ABORT", "AGENT_ABORT_UNAVAILABLE", "AGENT_FINAL"}
Looping == {"turn", "ask", "wait", "answered", "tools"}

\* What every step of the loop starts from.
LEMMA Known ==
  ASSUME EvidenceInv
  PROVE  /\ buyer \in Processes /\ log \in Logs
         /\ buyer.turn \in Nat \ {0} /\ buyer.attempt \in Nat \ {0} /\ buyer.calls \in Nat
         /\ Before(buyer.turn) \in Nat
         /\ log.lost = 0 /\ log.sound /\ log.n \in Nat
         /\ MaxTurns \in Nat /\ MaxCalls \in Nat /\ RetryLimit \in Nat \ {0} /\ MaxEvents \in Nat
<1>1. buyer.turn \in Nat \ {0}
  BY DEF EvidenceInv, Processes
<1>2. Before(buyer.turn) \in Nat
  BY <1>1, TurnByTurn
<1> QED
  BY <1>2, LimitsAssumption DEF EvidenceInv, Processes, Logs, EvidenceIsWhole

LEMMA StepKeeps ==
  ASSUME EvidenceInv, NEW b \in Processes, NEW l \in Logs, Step(b, l),
         l.lost = 0, l.sound,
         b.pc = "reported" => l.last \in Ends,
         b.pc \in Looping =>
            /\ b.turn <= MaxTurns + (IF b.pc = "turn" THEN 1 ELSE 0)
            /\ b.attempt <= RetryLimit \/ b.pc = "turn"
            /\ b.calls <= MaxCalls
            /\ l.n <= Before(b.turn) + 2 * b.calls +
                      (CASE b.pc = "ask" -> 2 * b.attempt - 2
                         [] b.pc = "wait" -> 2 * b.attempt - 1
                         [] b.pc \in {"answered", "tools"} -> 2 * RetryLimit
                         [] OTHER -> 0)
  PROVE  EvidenceInv'
<1>1. buyer' = b /\ log' = l /\ host' = host
  BY DEF Step
<1>2. WithinLimits'
  BY <1>1 DEF WithinLimits, MostEvents, Looping, Before
<1>3. EvidenceIsWhole'
  BY <1>1 DEF EvidenceIsWhole, Ends
<1> QED
  BY <1>1, <1>2, <1>3 DEF EvidenceInv, UntouchedSoFar

\* A process that reports, or is gone, is within no limit any more.
LEMMA ReportedKeeps ==
  ASSUME EvidenceInv, NEW l \in Logs, Reported(l), l.lost = 0, l.sound, l.last \in Ends
  PROVE  EvidenceInv'
<1> DEFINE b == [buyer EXCEPT !.pc = "reported"]
<1>1. b \in Processes /\ b.pc = "reported" /\ Step(b, l)
  BY Known DEF Processes, Reported
<1> HIDE DEF b
<1> QED
  BY <1>1, StepKeeps DEF Looping

LEMMA NextTurnKeeps == ASSUME EvidenceInv, NextTurn PROVE EvidenceInv'
<1> DEFINE b == [buyer EXCEPT !.pc = "ask", !.attempt = 1]
<1>1. /\ b \in Processes /\ b.pc = "ask" /\ b.attempt = 1
      /\ b.turn = buyer.turn /\ b.calls = buyer.calls
  <2>1. 1 \in Nat \ {0} /\ buyer \in Processes
    BY Known
  <2> QED
    BY <2>1 DEF Processes
<1>2. Step(b, log) /\ buyer.pc = "turn" /\ buyer.turn <= MaxTurns /\ buyer.calls <= MaxCalls
      /\ log.n <= Before(buyer.turn) + 2 * buyer.calls
  BY Known DEF NextTurn, At, EvidenceInv, WithinLimits, MostEvents
<1> HIDE DEF b
<1> QED
  BY <1>1, <1>2, Known, StepKeeps DEF Looping

LEMMA GiveUpKeeps == ASSUME EvidenceInv, GiveUp PROVE EvidenceInv'
<1>1. log.n < MaxEvents
  BY Room, Known DEF GiveUp, At
<1>2. /\ Add(log, "AGENT_ABORT") \in Logs /\ Add(log, "AGENT_ABORT").last = "AGENT_ABORT"
      /\ Add(log, "AGENT_ABORT").lost = 0 /\ Add(log, "AGENT_ABORT").sound
  BY <1>1, Known, Adding DEF Kinds
<1> QED
  BY <1>2, ReportedKeeps DEF GiveUp, Ends

LEMMA AskKeeps == ASSUME EvidenceInv, Ask PROVE EvidenceInv'
<1> DEFINE b == [buyer EXCEPT !.pc = "wait", !.attempts = buyer.attempts + 1]
           l == Add(log, "MODEL_REQUEST")
<1>1. /\ b \in Processes /\ b.pc = "wait" /\ b.attempt = buyer.attempt
      /\ b.turn = buyer.turn /\ b.calls = buyer.calls
  <2>1. buyer.attempts + 1 \in Nat /\ buyer \in Processes
    BY Known DEF Processes
  <2> QED
    BY <2>1 DEF Processes
<1>2. Step(b, l) /\ buyer.pc = "ask" /\ log.n < MaxEvents
  BY Room, Known DEF Ask, At
<1>3. l \in Logs /\ l.n = log.n + 1 /\ l.lost = 0 /\ l.sound
  BY <1>2, Known, Adding DEF Kinds
<1>4. /\ buyer.turn <= MaxTurns /\ buyer.calls <= MaxCalls /\ buyer.attempt <= RetryLimit
      /\ log.n <= Before(buyer.turn) + 2 * buyer.calls + (2 * buyer.attempt - 2)
  BY <1>2, Known DEF EvidenceInv, WithinLimits, MostEvents
<1> HIDE DEF b, l
<1> QED
  BY <1>1, <1>2, <1>3, <1>4, Known, StepKeeps DEF Looping

\* A process that ends another way has recorded nothing more.
LEMMA GoneKeeps ==
  ASSUME EvidenceInv, NEW how \in {"allowance", "crashed", "killed"},
         Step([buyer EXCEPT !.pc = how], log)
  PROVE  EvidenceInv'
<1> DEFINE b == [buyer EXCEPT !.pc = how]
<1>1. b \in Processes /\ b.pc = how
  BY Known DEF Processes
<1> HIDE DEF b
<1> QED
  BY <1>1, Known, StepKeeps DEF Looping, b

LEMMA AnsweredKeeps == ASSUME EvidenceInv, NEW usage, Answered(usage) PROVE EvidenceInv'
<1> DEFINE b == [buyer EXCEPT !.pc = "answered"]
           l == AddUsage(log, usage)
<1>1. /\ b \in Processes /\ b.pc = "answered" /\ b.attempt = buyer.attempt
      /\ b.turn = buyer.turn /\ b.calls = buyer.calls
      /\ Step(b, l)
  BY Known DEF Answered, Processes
<1>2. buyer.pc = "wait" /\ log.n < MaxEvents
  BY Room, Known DEF Answered, At
<1>3. l \in Logs /\ l.n = log.n + 1 /\ l.lost = 0 /\ l.sound
  BY <1>2, Known, AddingUsage
<1>4. /\ buyer.turn <= MaxTurns /\ buyer.calls <= MaxCalls /\ buyer.attempt <= RetryLimit
      /\ log.n <= Before(buyer.turn) + 2 * buyer.calls + (2 * buyer.attempt - 1)
  BY <1>2, Known DEF EvidenceInv, WithinLimits, MostEvents
<1> HIDE DEF b, l
<1>5. l.n <= Before(b.turn) + 2 * b.calls + 2 * RetryLimit
  BY <1>1, <1>3, <1>4, Known
<1> QED
  BY <1>1, <1>3, <1>4, <1>5, Known, StepKeeps DEF Looping

LEMMA HasCallsKeeps == ASSUME EvidenceInv, HasCalls PROVE EvidenceInv'
<1> DEFINE b == [buyer EXCEPT !.pc = "tools"]
<1>1. /\ b \in Processes /\ b.pc = "tools" /\ b.attempt = buyer.attempt
      /\ b.turn = buyer.turn /\ b.calls = buyer.calls
      /\ Step(b, log) /\ buyer.pc = "answered"
  BY Known DEF HasCalls, At, Processes
<1>2. /\ buyer.turn <= MaxTurns /\ buyer.calls <= MaxCalls /\ buyer.attempt <= RetryLimit
      /\ log.n <= Before(buyer.turn) + 2 * buyer.calls + 2 * RetryLimit
  BY <1>1, Known DEF EvidenceInv, WithinLimits, MostEvents
<1> HIDE DEF b
<1> QED
  BY <1>1, <1>2, Known, StepKeeps DEF Looping

LEMMA ThrottledKeeps == ASSUME EvidenceInv, Throttled PROVE EvidenceInv'
<1> DEFINE b == [buyer EXCEPT !.pc = "ask", !.attempt = buyer.attempt + 1]
           l == Add(log, "PROVIDER_ERROR")
<1>1. /\ b \in Processes /\ b.pc = "ask" /\ b.attempt = buyer.attempt + 1
      /\ b.turn = buyer.turn /\ b.calls = buyer.calls
  <2>1. buyer.attempt + 1 \in Nat \ {0} /\ buyer \in Processes
    BY Known
  <2> QED
    BY <2>1 DEF Processes
<1>2. Step(b, l) /\ buyer.pc = "wait" /\ buyer.attempt < RetryLimit /\ log.n < MaxEvents
  BY Room, Known DEF Throttled, ThrottledOnce, At
<1>3. l \in Logs /\ l.n = log.n + 1 /\ l.lost = 0 /\ l.sound
  BY <1>2, Known, Adding DEF Kinds
<1>4. /\ buyer.turn <= MaxTurns /\ buyer.calls <= MaxCalls
      /\ log.n <= Before(buyer.turn) + 2 * buyer.calls + (2 * buyer.attempt - 1)
  BY <1>2, Known DEF EvidenceInv, WithinLimits, MostEvents
<1> HIDE DEF b, l
<1>5. l.n <= Before(b.turn) + 2 * b.calls + (2 * b.attempt - 2) /\ b.attempt <= RetryLimit
  BY <1>1, <1>2, <1>3, <1>4, Known
<1> QED
  BY <1>1, <1>2, <1>3, <1>4, <1>5, Known, StepKeeps DEF Looping

LEMMA UnavailableKeeps ==
  ASSUME EvidenceInv, NEW l \in Logs, l.n + 2 <= MaxEvents, l.lost = 0, l.sound, Unavailable(l)
  PROVE  EvidenceInv'
<1> DEFINE failed == Add(l, "PROVIDER_ERROR")
           ended == Add(failed, "AGENT_ABORT_UNAVAILABLE")
<1>1. l.n \in Nat /\ l.n < MaxEvents /\ MaxEvents \in Nat
  BY Known DEF Logs
<1>2. failed \in Logs /\ failed.n = l.n + 1 /\ failed.lost = 0 /\ failed.sound
  BY <1>1, Adding DEF Kinds
<1> HIDE DEF failed
<1>3. failed.n < MaxEvents
  BY <1>1, <1>2
<1>4. ended \in Logs /\ ended.last \in Ends /\ ended.lost = 0 /\ ended.sound
  BY <1>2, <1>3, Adding DEF Kinds, Ends
<1>5. Reported(ended)
  BY DEF Unavailable, failed
<1> HIDE DEF ended
<1> QED
  BY <1>4, <1>5, ReportedKeeps

\* The last throttle is recorded twice, and the mission given up.
LEMMA GivingUpOnProviderKeeps ==
  ASSUME EvidenceInv, ThrottledOut \/ ProviderFails
  PROVE  EvidenceInv'
<1>1. buyer.pc = "wait" /\ log.n + 3 <= MaxEvents
  BY Room DEF ThrottledOut, ProviderFails, At
<1>2. CASE ProviderFails
  <2>1. log.n + 2 <= MaxEvents
    BY <1>1, Known
  <2> QED
    BY <1>2, <2>1, Known, UnavailableKeeps DEF ProviderFails
<1>3. CASE ThrottledOut
  <2> DEFINE l == Add(log, "PROVIDER_ERROR")
  <2>1. log.n < MaxEvents
    BY <1>1, Known
  <2>2. l \in Logs /\ l.n = log.n + 1 /\ l.lost = 0 /\ l.sound
    BY <2>1, Known, Adding DEF Kinds
  <2>3. Unavailable(l)
    BY <1>3 DEF ThrottledOut, ThrottledOnce
  <2> HIDE DEF l
  <2>4. l.n + 2 <= MaxEvents
    BY <1>1, <2>2, Known
  <2> QED
    BY <2>2, <2>3, <2>4, UnavailableKeeps
<1> QED
  BY <1>2, <1>3

LEMMA OverBudgetKeeps == ASSUME EvidenceInv, OverBudget PROVE EvidenceInv'
<1>1. log.n < MaxEvents
  BY Room, Known DEF OverBudget, At
<1>2. /\ Add(log, "AGENT_ABORT") \in Logs /\ Add(log, "AGENT_ABORT").last = "AGENT_ABORT"
      /\ Add(log, "AGENT_ABORT").lost = 0 /\ Add(log, "AGENT_ABORT").sound
  BY <1>1, Known, Adding DEF Kinds
<1> QED
  BY <1>2, ReportedKeeps DEF OverBudget, Ends, Reported

\* A call and its answer.
LEMMA CallAndAnswer ==
  ASSUME EvidenceInv, buyer.pc = "tools", buyer.calls < MaxCalls, NEW kind \in Kinds
  PROVE  LET l == Add(Add(log, "TOOL_CALL"), kind) IN
         /\ l \in Logs /\ l.n = log.n + 2 /\ l.lost = 0 /\ l.sound /\ l.n + 2 <= MaxEvents
<1> DEFINE call == Add(log, "TOOL_CALL")
           l == Add(call, kind)
<1>1. log.n + 4 <= MaxEvents /\ log.n \in Nat /\ MaxEvents \in Nat
  BY Room, Known
<1>2. log.n < MaxEvents
  BY <1>1
<1>3. call \in Logs /\ call.n = log.n + 1 /\ call.lost = 0 /\ call.sound
  BY <1>2, Known, Adding DEF Kinds
<1> HIDE DEF call
<1>4. call.n < MaxEvents
  BY <1>1, <1>3
<1>5. l \in Logs /\ l.n = call.n + 1 /\ l.lost = 0 /\ l.sound
  BY <1>3, <1>4, Adding
<1>6. l.n = log.n + 2 /\ l.n + 2 <= MaxEvents
  BY <1>1, <1>3, <1>5
<1> QED
  BY <1>5, <1>6 DEF call

LEMMA ToolCallKeeps ==
  ASSUME EvidenceInv, NEW given \in {"result", "malformed", "MERCHANT", "DATABASE"}, ToolCall(given)
  PROVE  EvidenceInv'
<1> DEFINE kind == IF given = "result" THEN "TOOL_RESULT" ELSE "TOOL_ERROR"
           l == Add(Add(log, "TOOL_CALL"), kind)
           shopped == buyer.shopped \/ given # "malformed"
           failure == IF buyer.failure = "none" /\ given \in {"MERCHANT", "DATABASE"}
                      THEN given ELSE buyer.failure
           b == [buyer EXCEPT !.calls = buyer.calls + 1, !.shopped = shopped, !.failure = failure]
<1>1. buyer.pc = "tools" /\ buyer.calls < MaxCalls /\ Step(b, l)
  BY DEF ToolCall, At
<1>2. kind \in Kinds
  BY DEF Kinds
<1>3. shopped \in BOOLEAN /\ failure \in {"none", "MERCHANT", "DATABASE"} /\ buyer.calls + 1 \in Nat
  BY Known DEF Processes
<1> HIDE DEF kind, shopped, failure
<1>4. l \in Logs /\ l.n = log.n + 2 /\ l.lost = 0 /\ l.sound
  BY <1>1, <1>2, CallAndAnswer
<1>5. /\ b \in Processes /\ b.pc = "tools" /\ b.attempt = buyer.attempt
      /\ b.turn = buyer.turn /\ b.calls = buyer.calls + 1
  <2>1. buyer \in Processes
    BY Known
  <2> QED
    BY <1>1, <1>3, <2>1 DEF Processes
<1>6. /\ buyer.turn <= MaxTurns /\ buyer.calls <= MaxCalls /\ buyer.attempt <= RetryLimit
      /\ log.n <= Before(buyer.turn) + 2 * buyer.calls + 2 * RetryLimit
  BY <1>1, Known DEF EvidenceInv, WithinLimits, MostEvents
<1> HIDE DEF b, l
<1>7. l.n <= Before(b.turn) + 2 * b.calls + 2 * RetryLimit /\ b.calls <= MaxCalls
  BY <1>1, <1>4, <1>5, <1>6, Known
<1> QED
  BY <1>1, <1>4, <1>5, <1>6, <1>7, Known, StepKeeps DEF Looping

LEMMA AbstainKeeps == ASSUME EvidenceInv, Abstain PROVE EvidenceInv'
<1> DEFINE called == Add(Add(log, "TOOL_CALL"), "TOOL_RESULT")
           l == Add(called, "AGENT_FINAL")
           b == [buyer EXCEPT !.pc = "reported", !.calls = buyer.calls + 1]
<1>1. buyer.pc = "tools" /\ buyer.calls < MaxCalls /\ Step(b, l)
  BY DEF Abstain, At
<1>2. called \in Logs /\ called.lost = 0 /\ called.sound /\ called.n + 2 <= MaxEvents
  BY <1>1, CallAndAnswer DEF Kinds
<1> HIDE DEF called
<1>3. called.n < MaxEvents
  BY <1>2, Known DEF Logs
<1>4. l \in Logs /\ l.last \in Ends /\ l.lost = 0 /\ l.sound
  BY <1>2, <1>3, Adding DEF Kinds, Ends
<1>5. b \in Processes /\ b.pc = "reported"
  <2>1. buyer \in Processes /\ buyer.calls + 1 \in Nat
    BY Known
  <2> QED
    BY <2>1 DEF Processes
<1> HIDE DEF b, l
<1> QED
  BY <1>1, <1>4, <1>5, StepKeeps DEF Looping

LEMMA EndOfCallsKeeps == ASSUME EvidenceInv, EndOfCalls PROVE EvidenceInv'
<1> DEFINE b == [buyer EXCEPT !.pc = "turn", !.turn = buyer.turn + 1]
<1>1. /\ b \in Processes /\ b.pc = "turn"
      /\ b.turn = buyer.turn + 1 /\ b.calls = buyer.calls
  <2>1. buyer \in Processes /\ buyer.turn + 1 \in Nat \ {0}
    BY Known
  <2> QED
    BY <2>1 DEF Processes
<1>2. buyer.pc = "tools" /\ Step(b, log)
  BY DEF EndOfCalls, At
<1>3. /\ buyer.turn <= MaxTurns /\ buyer.calls <= MaxCalls
      /\ log.n <= Before(buyer.turn) + 2 * buyer.calls + 2 * RetryLimit
  BY <1>2, Known DEF EvidenceInv, WithinLimits, MostEvents
<1>4. Before(buyer.turn + 1) = Before(buyer.turn) + 2 * RetryLimit
  BY Known, TurnByTurn
<1> HIDE DEF b
<1>5. log.n <= Before(b.turn) + 2 * b.calls + 0 /\ b.turn <= MaxTurns + 1
  BY <1>1, <1>3, <1>4, Known
<1> QED
  BY <1>1, <1>2, <1>3, <1>5, Known, StepKeeps DEF Looping

LEMMA BuyerKeeps == ASSUME EvidenceInv, Buyer PROVE EvidenceInv'
<1>1. ASSUME Exhausted PROVE EvidenceInv'
  BY <1>1, GoneKeeps DEF Exhausted
<1>2. ASSUME NEW how \in {"crashed", "killed"}, Crash(how) PROVE EvidenceInv'
  BY <1>2, GoneKeeps DEF Crash
<1>3. ASSUME NextTurn \/ Ask \/ HasCalls \/ Throttled PROVE EvidenceInv'
  BY <1>3, NextTurnKeeps, AskKeeps, HasCallsKeeps, ThrottledKeeps
<1>4. ASSUME GiveUp \/ OverBudget \/ Abstain \/ EndOfCalls \/ ThrottledOut \/ ProviderFails
      PROVE  EvidenceInv'
  BY <1>4, GiveUpKeeps, OverBudgetKeeps, AbstainKeeps, EndOfCallsKeeps, GivingUpOnProviderKeeps
<1>5. ASSUME NEW usage, Answered(usage) PROVE EvidenceInv'
  BY <1>5, AnsweredKeeps
<1>6. ASSUME NEW given \in {"result", "malformed", "MERCHANT", "DATABASE"}, ToolCall(given)
      PROVE  EvidenceInv'
  BY <1>6, ToolCallKeeps
<1> QED
  BY <1>1, <1>2, <1>3, <1>4, <1>5, <1>6 DEF Buyer

-----------------------------------------------------------------------------
(***************************************************************************)
(* The trusted side.                                                       *)
(***************************************************************************)

LEMMA NothingRecorded ==
  /\ EmptyLog \in Logs /\ EmptyLog.lost = 0 /\ EmptyLog.sound /\ EmptyLog.n = 0
  /\ NoProcess \in Processes
  BY DEF EmptyLog, NoProcess, Logs, Processes

\* A host that has settled a mission, or tries it again, leaves buyer and log alone.
LEMMA HostKeeps ==
  ASSUME EvidenceInv, NEW h \in Hosts, Host(h),
         h.pc \in {"spawn", "watch"} => h.shoppers = 0,
         h.shoppers <= 1
  PROVE  EvidenceInv'
<1>1. UNCHANGED <<buyer, log>> /\ host' = h
  BY DEF Host
<1>2. WithinLimits' /\ EvidenceIsWhole'
  BY <1>1 DEF EvidenceInv, WithinLimits, MostEvents, EvidenceIsWhole
<1> QED
  BY <1>1, <1>2 DEF EvidenceInv, UntouchedSoFar

\* Whoever starts over starts with nothing recorded.
LEMMA AfreshKeeps ==
  ASSUME EvidenceInv, NEW how \in {"none", "unstarted"}, NEW h \in Hosts,
         buyer' = [NoProcess EXCEPT !.pc = how], log' = EmptyLog, host' = h,
         h.pc \in {"spawn", "watch"} => h.shoppers = 0,
         h.shoppers <= 1
  PROVE  EvidenceInv'
<1>1. buyer' \in Processes /\ buyer'.pc = how
  BY NothingRecorded DEF NoProcess, Processes
<1>2. WithinLimits' /\ EvidenceIsWhole'
  BY <1>1, NothingRecorded DEF WithinLimits, EvidenceIsWhole
<1> QED
  BY <1>1, <1>2, NothingRecorded DEF EvidenceInv, UntouchedSoFar

LEMMA SpawnKeeps == ASSUME EvidenceInv, Spawn PROVE EvidenceInv'
<1>1. /\ buyer' = [NoProcess EXCEPT !.pc = "turn"] /\ log' = EmptyLog
      /\ host' = [host EXCEPT !.pc = "watch", !.tried = host.tried + 1]
      /\ host.pc = "spawn" /\ host \in Hosts /\ host.shoppers = 0
  BY DEF Spawn, EvidenceInv, UntouchedSoFar
<1>2. /\ buyer' \in Processes /\ buyer'.pc = "turn" /\ buyer'.turn = 1 /\ buyer'.calls = 0
  BY <1>1, NothingRecorded DEF NoProcess, Processes
<1>3. host' \in Hosts /\ host'.shoppers = 0
  <2>1. host.tried + 1 \in Nat
    BY <1>1 DEF Hosts
  <2> QED
    BY <1>1, <2>1 DEF Hosts
<1>4. WithinLimits' /\ EvidenceIsWhole'
  <2>1. Before(1) = 0 /\ 1 <= MaxTurns + 1 /\ 0 <= MaxCalls
    BY LimitsAssumption DEF Before
  <2> QED
    BY <1>1, <1>2, <2>1, NothingRecorded DEF WithinLimits, MostEvents, EvidenceIsWhole, Before
<1> QED
  BY <1>1, <1>2, <1>3, <1>4, NothingRecorded DEF EvidenceInv, UntouchedSoFar

LEMMA UnstartedKeeps == ASSUME EvidenceInv, Unstarted PROVE EvidenceInv'
<1> DEFINE h == [host EXCEPT !.pc = "done", !.tried = host.tried + 1, !.fault = "HARNESS"]
<1>1. h \in Hosts /\ h.pc = "done" /\ h.shoppers <= 1
  <2>1. host \in Hosts /\ host.shoppers <= 1
    BY DEF EvidenceInv, UntouchedSoFar
  <2>2. host.tried + 1 \in Nat
    BY <2>1 DEF Hosts
  <2> QED
    BY <2>1, <2>2 DEF Hosts
<1> HIDE DEF h
<1> QED
  BY <1>1, AfreshKeeps DEF Unstarted, h

LEMMA BeginKeeps == ASSUME EvidenceInv, Begin PROVE EvidenceInv'
<1> DEFINE h == [pc |-> "spawn", tried |-> 0, spent |-> 0, evidence |-> EmptyLog,
                 fault |-> "none", shoppers |-> 0]
<1>1. h \in Hosts /\ h.shoppers = 0
  BY NothingRecorded DEF Hosts
<1>2. buyer' = [NoProcess EXCEPT !.pc = "none"] /\ log' = EmptyLog /\ host' = h
  BY DEF Begin, NoProcess
<1> HIDE DEF h
<1> QED
  BY <1>1, <1>2, AfreshKeeps

\* At most the one process that is watched met the merchant.
LEMMA ShoppersKnown ==
  ASSUME EvidenceInv, host.pc = "watch"
  PROVE  /\ host \in Hosts /\ Shoppers \in {0, 1}
         /\ ~ buyer.shopped => Shoppers = 0
  BY DEF EvidenceInv, UntouchedSoFar, Shoppers

\* A mission that is over has the fault its process left.
LEMMA DoneKeeps ==
  ASSUME EvidenceInv, host.pc = "watch", NEW f \in {"none", "HARNESS", "AGENT"},
         Host([host EXCEPT !.pc = "done", !.fault = f, !.shoppers = Shoppers])
  PROVE  EvidenceInv'
<1> DEFINE h == [host EXCEPT !.pc = "done", !.fault = f, !.shoppers = Shoppers]
<1>1. Shoppers \in Nat /\ Shoppers <= 1 /\ host \in Hosts
  BY ShoppersKnown
<1>2. h \in Hosts /\ h.pc = "done" /\ h.shoppers = Shoppers
  BY <1>1 DEF Hosts
<1> HIDE DEF h
<1> QED
  BY <1>1, <1>2, HostKeeps DEF h

LEMMA CollectKeeps == ASSUME EvidenceInv, Collect PROVE EvidenceInv'
<1> DEFINE used == host.spent + buyer.attempts
           again == host.tried < Keys /\ Granted - used >= 1 /\ UntouchedProviderFailure
           pc == IF again THEN "spawn" ELSE "done"
           h == [host EXCEPT !.pc = pc, !.spent = used, !.evidence = log, !.shoppers = Shoppers]
<1>1. host.pc = "watch" /\ Host(h)
  BY DEF Collect
<1>2. /\ Shoppers \in Nat /\ Shoppers <= 1 /\ host \in Hosts /\ log \in Logs
      /\ again => Shoppers = 0
      /\ used \in Nat
  BY <1>1, ShoppersKnown DEF UntouchedProviderFailure, EvidenceInv, Hosts, Processes
<1>3. pc \in {"spawn", "done"} /\ (pc = "spawn" => Shoppers = 0)
  BY <1>2
<1> HIDE DEF used, pc
<1>4. h \in Hosts /\ h.pc = pc /\ h.shoppers = Shoppers
  <2>1. pc \in {"spawn", "watch", "done"}
    BY <1>3
  <2> QED
    BY <1>2, <2>1 DEF Hosts
<1> HIDE DEF h
<1> QED
  BY <1>1, <1>2, <1>3, <1>4, HostKeeps

-----------------------------------------------------------------------------
(***************************************************************************)
(* The theorems.                                                           *)
(***************************************************************************)

LEMMA EvidenceStarts == Init => EvidenceInv
<1> SUFFICES ASSUME Init PROVE EvidenceInv
  OBVIOUS
<1>1. host \in Hosts /\ host.shoppers = 0
  BY NothingRecorded DEF Init, Hosts
<1>2. buyer \in Processes /\ buyer.pc = "none" /\ log \in Logs
  BY NothingRecorded DEF Init, NoProcess
<1>3. WithinLimits /\ EvidenceIsWhole
  BY <1>2, NothingRecorded DEF Init, WithinLimits, EvidenceIsWhole
<1> QED
  BY <1>1, <1>2, <1>3 DEF EvidenceInv, UntouchedSoFar

LEMMA EvidenceNext == ASSUME EvidenceInv, [Next]_vars PROVE EvidenceInv'
<1>1. CASE UNCHANGED vars
  BY <1>1 DEF vars, EvidenceInv, WithinLimits, MostEvents, EvidenceIsWhole, UntouchedSoFar
<1>2. ASSUME CollectNothing \/ Refuse PROVE EvidenceInv'
  BY <1>2, DoneKeeps DEF CollectNothing, Refuse, Origin
<1> QED
  BY <1>1, <1>2, BuyerKeeps, SpawnKeeps, UnstartedKeeps, CollectKeeps, BeginKeeps DEF Next

\* Wherever the process of a mission fails (before it is admitted, among its turns, or while
\* its evidence is collected), what drive, the trace and the host keep agree: the events stay
\* inside MAX_EVENTS, and a mission nobody started has met no merchant.
THEOREM EvidenceInvariant == Spec => []EvidenceInv
<1>1. EvidenceInv /\ [Next]_vars => EvidenceInv'
  BY EvidenceNext
<1> QED
  BY <1>1, EvidenceStarts, PTL DEF Spec

\* MAX_EVENTS of agent_trace.py never costs a mission an event, whatever the turns, the tool
\* calls and the retries are whose events fit: not the usage that names its own response, and
\* not the last event, by which fault() and the diagnostics tell an outage.
THEOREM NothingIsDropped == Spec => []EvidenceIsWhole
<1>1. EvidenceInv => EvidenceIsWhole
  BY DEF EvidenceInv
<1> QED
  BY <1>1, EvidenceInvariant, PTL

\* _attempted hands a mission to a second process only where no process of it met the merchant,
\* however many credentials there are and wherever a process fails.
THEOREM OneBuyerPerMission == Spec => []MerchantMeetsOneBuyer
<1>1. EvidenceInv => MerchantMeetsOneBuyer
  BY DEF EvidenceInv, UntouchedSoFar, MerchantMeetsOneBuyer, Hosts
<1> QED
  BY <1>1, EvidenceInvariant, PTL

-----------------------------------------------------------------------------
(***************************************************************************)
(* Experiments and comparisons.  At most one run executes and it is the    *)
(* latest, so a run bound to the next sample started after every run bound *)
(* before it.                                                              *)
(***************************************************************************)

\* The arms of a pair: its two samples run one after the other, one of each arm.
LEMMA PairsAndArms ==
  /\ \A n \in Samples : n \in Nat /\ PairOf(n) \in 1..Pairs /\ ArmOf(n) \in {"RAW", "COMPILED"}
  /\ \A n \in Samples : n = 2 * PairOf(n) - 1 \/ n = 2 * PairOf(n)
  /\ \A p \in 1..Pairs : /\ 2 * p - 1 \in Samples /\ 2 * p \in Samples
                         /\ PairOf(2 * p - 1) = p /\ PairOf(2 * p) = p
                         /\ ArmOf(2 * p - 1) # ArmOf(2 * p)
<1> USE CountAssumption
<1>1. \A n \in Samples : n \in Nat /\ PairOf(n) \in 1..Pairs /\ (n = 2 * PairOf(n) - 1 \/ n = 2 * PairOf(n))
  BY DEF Samples, PairOf
<1>2. \A p \in 1..Pairs : /\ 2 * p - 1 \in Samples /\ 2 * p \in Samples
                          /\ PairOf(2 * p - 1) = p /\ PairOf(2 * p) = p
  BY DEF Samples, PairOf
<1>3. \A p \in 1..Pairs : (2 * p - 1) % 2 = 1 /\ (2 * p) % 2 = 0
  OBVIOUS
<1>4. ASSUME NEW p \in 1..Pairs PROVE ArmOf(2 * p - 1) # ArmOf(2 * p)
  <2>1. ArmOf(2 * p - 1) = IF PairOf(2 * p - 1) % 2 = 1 THEN "RAW" ELSE "COMPILED"
    BY <1>3 DEF ArmOf
  <2>2. ArmOf(2 * p) = IF PairOf(2 * p) % 2 = 1 THEN "COMPILED" ELSE "RAW"
    <3>1. ~ ((2 * p) % 2 = 1)
      BY <1>3
    <3> QED
      BY <3>1, Zenon DEF ArmOf
  <2> QED
    BY <1>2, <2>1, <2>2
<1> QED
  BY <1>1, <1>2, <1>4 DEF ArmOf

\* The runs go on: nothing they were started with changes, what is over stays over, and a
\* sample keeps its run.
Progress ==
    /\ Len(run') \in Nat /\ Len(run) <= Len(run')
    /\ \A r \in 1..Len(run) :
         /\ run'[r].arm = run[r].arm /\ run'[r].pins = run[r].pins
         /\ run[r].status # "RUNNING" => run'[r].status = run[r].status
         /\ run[r].status = "COMPLETED" => run'[r] = run[r]
    /\ \A n \in Samples : sample[n] # 0 => sample'[n] = sample[n]

LEMMA RunsListed ==
  ASSUME RunsTyped
  PROVE  /\ Len(run) \in Nat /\ DOMAIN run = 1..Len(run) /\ \A r \in DOMAIN run : run[r] \in Runs
         /\ \A n \in Samples : sample[n] # 0 => sample[n] \in 1..Len(run)
  BY DEF RunsTyped

LEMMA SamplesStand ==
  ASSUME ExperimentInv, Progress, UNCHANGED sample
  PROVE  SamplesInOrder' /\ ArmsAsDeclared'
<1>1. \A n \in Samples : sample[n] # 0 => sample[n] \in 1..Len(run)
  BY RunsListed DEF ExperimentInv
<1>2. SamplesInOrder'
  BY <1>1 DEF ExperimentInv, SamplesInOrder, Progress
<1>3. ArmsAsDeclared'
  BY <1>1 DEF ExperimentInv, ArmsAsDeclared, Progress
<1> QED
  BY <1>2, <1>3

\* What was read stays true while the runs go on.
LEMMA ReadingStands ==
  ASSUME ExperimentInv, Progress, UNCHANGED reader
  PROVE  ReaderKnows'
<1> SUFFICES ASSUME reader # NoReading PROVE ReaderKnows'
  BY DEF ReaderKnows
<1>1. /\ Len(run) \in Nat /\ \A n \in DOMAIN reader.rows : reader.rows[n] \in 0..Len(run)
      /\ Len(run') \in Nat /\ Len(run) <= Len(run')
  BY RunsListed DEF ExperimentInv, ReaderKnows, Progress
<1>2. \A n \in DOMAIN reader.rows : reader.rows[n] \in 0..Len(run') /\ (reader.rows[n] # 0 => reader.rows[n] \in 1..Len(run))
  BY <1>1
<1>3. ASSUME NEW f, NEW r \in 0..Len(run), TrueOf(f, r) PROVE TrueOf(f, r)'
  BY <1>1, <1>3 DEF TrueOf, Progress, NoFacts, Pending, Missions
<1>4. ASSUME NEW n \in DOMAIN reader.facts
      PROVE  n \in DOMAIN reader.rows /\ TrueOf(reader.facts[n], reader.rows[n])'
  <2>1. n \in DOMAIN reader.rows /\ TrueOf(reader.facts[n], reader.rows[n])
    BY DEF ExperimentInv, ReaderKnows
  <2>2. PICK f, r : f = reader.facts[n] /\ r = reader.rows[n]
    OBVIOUS
  <2>3. r \in 0..Len(run) /\ TrueOf(f, r)
    BY <1>1, <2>1, <2>2
  <2>4. TrueOf(f, r)'
    BY <1>3, <2>3
  <2> QED
    BY <2>1, <2>2, <2>4 DEF TrueOf
<1>5. reader.of # "comparison" =>
        reader.rows \in [Samples -> Nat] /\ \A n \in Samples : reader.rows[n] \in {0, sample'[n]}
  BY DEF ExperimentInv, ReaderKnows, Progress
<1>6. reader.seen # "none" =>
        /\ reader.seen \in {"RUNNING", "COMPLETED", "ABORTED"}
        /\ NextRow \in DOMAIN reader.rows /\ reader.rows[NextRow] # 0
        /\ reader.seen = "COMPLETED" => run'[reader.rows[NextRow]].status = "COMPLETED"
  BY <1>2 DEF ExperimentInv, ReaderKnows, Progress
<1>7. ASSUME reader.of = "shown" PROVE SecondPass'
  <2>1. SecondPass
    BY <1>7 DEF ExperimentInv, ReaderKnows
  <2>2. ASSUME NEW n \in Samples PROVE TrueOf(reader.reports[n], reader.rows[n])'
    <3>1. TrueOf(reader.reports[n], reader.rows[n]) /\ reader.rows[n] \in 0..Len(run)
      BY <1>1, <1>7, <2>1 DEF SecondPass, ExperimentInv, ReaderKnows
    <3>2. PICK f, r : f = reader.reports[n] /\ r = reader.rows[n]
      OBVIOUS
    <3>3. TrueOf(f, r)'
      BY <1>3, <3>1, <3>2
    <3> QED
      BY <3>2, <3>3 DEF TrueOf
  <2> QED
    BY <2>1, <2>2 DEF SecondPass, Completed, NextRow, Readings, Pending, Missions
<1> QED
  BY <1>2, <1>4, <1>5, <1>6, <1>7 DEF ExperimentInv, ReaderKnows, NextRow, Readings, Pending, Missions

LEMMA Started ==
  ASSUME ExperimentInv, Quiet, NEW arm \in {"RAW", "COMPILED"},
         NEW by \in Operators \cup {"launch"}, run' = Append(run, StartedRun(arm, by)), UNCHANGED sample
  PROVE  /\ Progress /\ OneExecutes' /\ run' \in Seq(Runs)
         /\ Len(run') = Len(run) + 1 /\ run'[Len(run) + 1].arm = arm
<1>1. StartedRun(arm, by) \in Runs
  BY DEF StartedRun, Runs, ExperimentInv, RunsTyped
<1>2. run \in Seq(Runs) /\ Len(run) \in Nat
  BY DEF ExperimentInv, RunsTyped
<1>3. /\ run' \in Seq(Runs) /\ Len(run') = Len(run) + 1 /\ DOMAIN run' = 1..Len(run) + 1
      /\ \A r \in 1..Len(run) : run'[r] = run[r]
      /\ run'[Len(run) + 1] = StartedRun(arm, by)
  BY <1>1, <1>2
<1>4. Progress
  BY <1>2, <1>3 DEF Progress
<1>5. OneExecutes'
  <2>1. \A r \in 1..Len(run) : run'[r].status # "RUNNING"
    BY <1>2, <1>3 DEF Quiet
  <2>2. \A r \in 1..Len(run) + 1 : r \in 1..Len(run) \/ r = Len(run) + 1
    BY <1>2
  <2> QED
    BY <1>3, <2>1, <2>2 DEF OneExecutes
<1> QED
  BY <1>3, <1>4, <1>5 DEF StartedRun

\* A mission ends, or the run does.
LEMMA Moved ==
  ASSUME ExperimentInv, NEW r \in DOMAIN run, run[r].status = "RUNNING",
         NEW x \in Runs, run' = [run EXCEPT ![r] = x], x.arm = run[r].arm, x.pins = run[r].pins,
         UNCHANGED sample
  PROVE  Progress /\ OneExecutes' /\ run' \in Seq(Runs) /\ Len(run') = Len(run)
<1>1. run \in Seq(Runs) /\ Len(run) \in Nat /\ DOMAIN run = 1..Len(run)
  BY DEF ExperimentInv, RunsTyped
<1>2. run' \in Seq(Runs) /\ Len(run') = Len(run) /\ DOMAIN run' = 1..Len(run)
  BY <1>1
<1>3. \A q \in 1..Len(run) : run'[q] = IF q = r THEN x ELSE run[q]
  BY <1>1
<1>4. Progress
  BY <1>1, <1>2, <1>3 DEF Progress
<1>5. OneExecutes'
  BY <1>1, <1>2, <1>3 DEF OneExecutes, ExperimentInv
<1> QED
  BY <1>2, <1>4, <1>5

LEMMA OperatorsTyped ==
  ASSUME ExperimentInv, NEW o \in Operators
  PROVE  /\ op[o] \in [pc : {"off", "treated", "started", "executing"}, sample : {0} \cup Samples, run : 0..Len(run)]
         /\ DOMAIN op = Operators
  BY DEF ExperimentInv, RunsTyped

LEMMA StartElsewhereKeeps ==
  ASSUME ExperimentInv, NEW arm \in {"RAW", "COMPILED"}, StartElsewhere(arm)
  PROVE  ExperimentInv'
<1>1. /\ Progress /\ OneExecutes' /\ run' \in Seq(Runs) /\ Len(run') = Len(run) + 1
      /\ UNCHANGED <<pins, sample, op, reader>>
  BY Started DEF StartElsewhere
<1>2. Len(run) \in Nat
  BY RunsListed DEF ExperimentInv
<1>3. 0..Len(run) \subseteq 0..Len(run')
  BY <1>1, <1>2
<1>4. RunsTyped'
  BY <1>1, <1>3 DEF ExperimentInv, RunsTyped
<1>5. CommandsKnow'
  BY <1>1 DEF ExperimentInv, CommandsKnow
<1> QED
  BY <1>1, <1>4, <1>5, SamplesStand, ReadingStands DEF ExperimentInv

LEMMA EndMissionKeeps ==
  ASSUME ExperimentInv, NEW r \in DOMAIN run, NEW i \in Missions, NEW e \in Endings, EndMission(r, i, e)
  PROVE  ExperimentInv'
<1> DEFINE x == [run[r] EXCEPT !.ends[i] = e]
<1>1. run \in Seq(Runs) /\ run[r] \in Runs
  BY RunsListed DEF ExperimentInv, RunsTyped
<1>2. x \in Runs /\ x.arm = run[r].arm /\ x.pins = run[r].pins
  BY <1>1 DEF Runs
<1>3. run' = [run EXCEPT ![r] = x] /\ run[r].status = "RUNNING" /\ UNCHANGED <<pins, sample, op, reader>>
  BY DEF EndMission, Executed
<1> HIDE DEF x
<1>4. Progress /\ OneExecutes' /\ run' \in Seq(Runs) /\ Len(run') = Len(run)
  BY <1>2, <1>3, Moved
<1>5. RunsTyped' /\ CommandsKnow'
  BY <1>3, <1>4 DEF ExperimentInv, RunsTyped, CommandsKnow
<1> QED
  BY <1>3, <1>4, <1>5, SamplesStand, ReadingStands DEF ExperimentInv

LEMMA EndRunKeeps ==
  ASSUME ExperimentInv, NEW r \in DOMAIN run, Complete(r) \/ Abort(r)
  PROVE  ExperimentInv'
<1>1. run \in Seq(Runs) /\ run[r] \in Runs
  BY RunsListed DEF ExperimentInv, RunsTyped
<1>2. PICK st \in {"COMPLETED", "ABORTED"} :
        run' = [run EXCEPT ![r].status = st] /\ run[r].status = "RUNNING" /\ UNCHANGED <<pins, sample, reader>>
  BY DEF Complete, Executed, Abort
<1> DEFINE x == [run[r] EXCEPT !.status = st]
<1>3. x \in Runs /\ x.arm = run[r].arm /\ x.pins = run[r].pins
  BY <1>1 DEF Runs
<1>4. run' = [run EXCEPT ![r] = x]
  BY <1>2
<1> HIDE DEF x
<1>5. Progress /\ OneExecutes' /\ run' \in Seq(Runs) /\ Len(run') = Len(run)
  BY <1>2, <1>3, <1>4, Moved
<1>6. /\ op' = [p \in Operators |-> op'[p]]
      /\ \A o \in Operators : op'[o] \in {op[o], Off}
  BY DEF Complete, Abort, ExperimentInv, RunsTyped
<1>7. Len(run) \in Nat
  BY RunsListed DEF ExperimentInv
<1>8. RunsTyped'
  <2>1. \A o \in Operators :
          op'[o] \in [pc : {"off", "treated", "started", "executing"}, sample : {0} \cup Samples, run : 0..Len(run)]
    BY <1>6, <1>7, OperatorsTyped DEF Off
  <2>2. op' \in [Operators -> [pc : {"off", "treated", "started", "executing"},
                              sample : {0} \cup Samples, run : 0..Len(run)]]
    <3>1. op' = [p \in Operators |-> op'[p]]
      BY <1>6
    <3> QED
      BY <2>1, <3>1
  <2> QED
    BY <1>2, <1>5, <2>2 DEF ExperimentInv, RunsTyped
<1>9. CommandsKnow'
  BY <1>2, <1>6 DEF ExperimentInv, CommandsKnow, Off
<1> QED
  BY <1>2, <1>5, <1>8, <1>9, SamplesStand, ReadingStands DEF ExperimentInv

\* A step that leaves runs, samples and the reading alone.
LEMMA BystandersKeep ==
  ASSUME ExperimentInv, UNCHANGED <<run, sample, reader>>, RunsTyped', CommandsKnow'
  PROVE  ExperimentInv'
<1>1. Progress
  BY RunsListed DEF ExperimentInv, Progress
<1>2. OneExecutes'
  BY DEF ExperimentInv, OneExecutes
<1> QED
  BY <1>1, <1>2, SamplesStand, ReadingStands DEF ExperimentInv

LEMMA RedeployKeeps == ASSUME ExperimentInv, Redeploy PROVE ExperimentInv'
<1>1. RunsTyped' /\ CommandsKnow' /\ UNCHANGED <<run, sample, reader>>
  BY DEF Redeploy, ExperimentInv, RunsTyped, CommandsKnow
<1> QED
  BY <1>1, BystandersKeep

LEMMA FirstUnbound ==
  ASSUME Unbound # {}
  PROVE  /\ NextSample \in Samples /\ sample[NextSample] = 0
         /\ \A m \in Samples : m < NextSample => sample[m] # 0
<1>1. Unbound \in SUBSET Nat
  BY CountAssumption DEF Unbound, Samples
<1>2. PICK n \in Unbound : \A m \in Unbound : n <= m
  BY <1>1, SmallestNumber
<1>3. NextSample \in Unbound /\ \A m \in Unbound : NextSample <= m
  BY <1>2 DEF NextSample, Min
<1>4. \A m \in Samples : m \in Nat
  BY CountAssumption DEF Samples
<1> QED
  BY <1>1, <1>3, <1>4 DEF Unbound

LEMMA NextTreatmentKeeps ==
  ASSUME ExperimentInv, NEW o \in Operators, NextTreatment(o)
  PROVE  ExperimentInv'
<1> DEFINE n == NextSample
           x == [pc |-> "treated", sample |-> n, run |-> 0]
<1>1. n \in Samples /\ \A m \in Samples : m < n => sample[m] # 0
  BY FirstUnbound DEF NextTreatment
<1>2. op' = [op EXCEPT ![o] = x] /\ UNCHANGED <<pins, run, sample, reader>>
  BY DEF NextTreatment
<1> HIDE DEF n
<1>3. Len(run) \in Nat
  BY RunsListed DEF ExperimentInv
<1>4. x \in [pc : {"off", "treated", "started", "executing"}, sample : {0} \cup Samples, run : 0..Len(run)]
  BY <1>1, <1>3
<1>5. RunsTyped'
  BY <1>2, <1>4 DEF ExperimentInv, RunsTyped
<1>6. CommandsKnow'
  BY <1>1, <1>2 DEF ExperimentInv, RunsTyped, CommandsKnow
<1> QED
  BY <1>2, <1>5, <1>6, BystandersKeep

LEMMA StopKeeps ==
  ASSUME ExperimentInv, NEW o \in Operators, op' = [op EXCEPT ![o] = Off], UNCHANGED <<pins, run, sample, reader>>
  PROVE  ExperimentInv'
<1>1. Len(run) \in Nat
  BY RunsListed DEF ExperimentInv
<1>2. RunsTyped'
  BY <1>1 DEF ExperimentInv, RunsTyped, Off
<1>3. CommandsKnow'
  BY DEF ExperimentInv, RunsTyped, CommandsKnow, Off
<1> QED
  BY <1>2, <1>3, BystandersKeep

LEMMA StartSampleKeeps ==
  ASSUME ExperimentInv, NEW o \in Operators, StartSample(o)
  PROVE  ExperimentInv'
<1> DEFINE n == op[o].sample
           r == Len(run) + 1
<1>0. /\ Len(run) \in Nat /\ n \in Samples /\ ArmOf(n) \in {"RAW", "COMPILED"}
      /\ op[o].pc = "treated"
  BY RunsListed, PairsAndArms DEF ExperimentInv, CommandsKnow, StartSample
<1>1. CASE Quiet
  <2>1. /\ run' = Append(run, StartedRun(ArmOf(n), o)) /\ UNCHANGED <<pins, sample, reader>>
        /\ op' = [op EXCEPT ![o].pc = "started", ![o].run = r]
    BY <1>1 DEF StartSample
  <2>2. /\ Progress /\ OneExecutes' /\ run' \in Seq(Runs) /\ Len(run') = r
    BY <1>0, <1>1, <2>1, Started
  <2>3. /\ DOMAIN op' = Operators
        /\ \A p \in Operators : p # o => op'[p] = op[p]
        /\ op'[o] = [pc |-> "started", sample |-> n, run |-> r]
    BY <2>1, OperatorsTyped
  <2> HIDE DEF n, r
  <2>4. r \in Nat /\ r # 0 /\ 0..Len(run) \subseteq 0..r /\ r \in 0..r /\ r \notin 0..Len(run)
    BY <1>0 DEF r
  <2>5. op' \in [Operators -> [pc : {"off", "treated", "started", "executing"},
                              sample : {0} \cup Samples, run : 0..r]]
    <3>1. \A p \in Operators : op'[p] \in [pc : {"off", "treated", "started", "executing"},
                                           sample : {0} \cup Samples, run : 0..r]
      BY <1>0, <2>3, <2>4, OperatorsTyped
    <3> QED
      BY <2>1, <2>3, <3>1
  <2>6. RunsTyped'
    BY <2>1, <2>2, <2>4, <2>5 DEF ExperimentInv, RunsTyped
  <2>7. \A m \in Samples : sample[m] # r
    BY <2>4 DEF ExperimentInv, RunsTyped
  <2>8. \A p \in Operators : op[p].run # r
    BY <2>4, OperatorsTyped
  <2>9. CommandsKnow'
    BY <1>0, <2>1, <2>3, <2>4, <2>7, <2>8 DEF ExperimentInv, CommandsKnow, n
  <2> QED
    BY <2>1, <2>2, <2>6, <2>9, SamplesStand, ReadingStands DEF ExperimentInv
<1>2. CASE ~ Quiet
  BY <1>2, StopKeeps DEF StartSample
<1> QED
  BY <1>1, <1>2

\* The samples are bound in their order, each to the latest run.
LEMMA BindRunKeeps ==
  ASSUME ExperimentInv, NEW o \in Operators, BindRun(o)
  PROVE  ExperimentInv'
<1> DEFINE n == op[o].sample
           r == op[o].run
<1>1. CASE ~ Bindable(n, r)
  BY <1>1, StopKeeps DEF BindRun
<1>2. CASE Bindable(n, r)
  <2>1. /\ op[o].pc = "started" /\ n \in Samples /\ r # 0
        /\ \A m \in Samples : (m < n => sample[m] # 0) /\ sample[m] # r
    BY DEF BindRun, ExperimentInv, CommandsKnow
  <2>2. /\ sample[n] = 0 /\ run[r].status = "RUNNING" /\ run[r].arm = ArmOf(n)
        /\ \A m \in Samples : sample[m] # 0 => run[sample[m]].pins = run[r].pins
    BY <1>2 DEF Bindable
  <2>3. /\ Len(run) \in Nat /\ r \in 1..Len(run) /\ r \in DOMAIN run
    BY <2>1, RunsListed, OperatorsTyped DEF ExperimentInv
  <2>4. r = Len(run) /\ \A q \in 1..Len(run) : q # r => run[q].status # "RUNNING"
    BY <2>2, <2>3, RunsListed DEF ExperimentInv, OneExecutes
  <2>5. /\ sample' = [sample EXCEPT ![n] = r] /\ op' = [op EXCEPT ![o].pc = "executing"]
        /\ UNCHANGED <<pins, run, reader>>
    BY <1>2 DEF BindRun
  <2>6. /\ DOMAIN op' = Operators /\ \A p \in Operators : p # o => op'[p] = op[p]
        /\ op'[o] = [pc |-> "executing", sample |-> n, run |-> r]
    BY <2>5, OperatorsTyped
  <2> HIDE DEF n, r
  <2>7. /\ sample' \in [Samples -> 0..Len(run)]
        /\ \A m \in Samples : sample'[m] = IF m = n THEN r ELSE sample[m]
    BY <2>1, <2>3, <2>5 DEF ExperimentInv, RunsTyped
  <2>8. \A p \in Operators : op'[p] \in [pc : {"off", "treated", "started", "executing"},
                                         sample : {0} \cup Samples, run : 0..Len(run)]
    BY <2>1, <2>3, <2>6, OperatorsTyped
  <2>9. RunsTyped'
    <3>1. op' = [p \in Operators |-> op'[p]]
      BY <2>5, <2>6 DEF ExperimentInv, RunsTyped
    <3> QED
      BY <2>5, <2>7, <2>8, <3>1 DEF ExperimentInv, RunsTyped
  <2>10. Progress
    BY <2>2, <2>3, <2>5, <2>7 DEF Progress
  <2>11. CommandsKnow'
    BY <2>1, <2>3, <2>6, <2>7 DEF ExperimentInv, CommandsKnow, r
  <2>12. \A m \in Samples : m > n => sample[m] = 0
    BY <2>1, <2>2, PairsAndArms DEF ExperimentInv, SamplesInOrder
  <2>13. \A m \in Samples : sample[m] # 0 =>
           sample[m] \in 1..Len(run) /\ sample[m] # r /\ sample[m] < r /\ run[sample[m]].status # "RUNNING"
    BY <2>1, <2>3, <2>4, RunsListed DEF ExperimentInv
  <2>14. SamplesInOrder'
    <3>1. ASSUME NEW m \in Samples, NEW k \in Samples, m < k, sample'[k] # 0
          PROVE  /\ sample'[m] # 0 /\ sample'[m] < sample'[k]
                 /\ run[sample'[m]].status # "RUNNING"
                 /\ run[sample'[m]].pins = run[sample'[k]].pins
                 /\ run[sample'[k]].arm = ArmOf(k)
      <4>1. m \in Nat /\ k \in Nat /\ n \in Nat
        BY <2>1, PairsAndArms
      <4>2. CASE k = n
        BY <2>1, <2>2, <2>7, <2>13, <3>1, <4>1, <4>2
      <4>3. CASE k # n
        <5>1. sample[k] # 0 /\ ~ (k > n) /\ sample'[k] = sample[k] /\ m # n /\ sample'[m] = sample[m]
          BY <2>7, <2>12, <3>1, <4>1, <4>3
        <5> QED
          BY <3>1, <5>1 DEF ExperimentInv, SamplesInOrder
      <4> QED
        BY <4>2, <4>3
    <3> QED
      BY <2>5, <3>1 DEF SamplesInOrder
  <2>15. ArmsAsDeclared'
    BY <2>2, <2>5, <2>7 DEF ExperimentInv, ArmsAsDeclared
  <2> QED
    BY <2>5, <2>9, <2>10, <2>11, <2>14, <2>15, ReadingStands DEF ExperimentInv, OneExecutes
<1> QED
  BY <1>1, <1>2

LEMMA ReadingKeeps ==
  ASSUME ExperimentInv, UNCHANGED <<pins, run, sample, op>>, ReaderKnows'
  PROVE  ExperimentInv'
<1>1. Progress
  BY RunsListed DEF ExperimentInv, Progress
<1>2. RunsTyped' /\ OneExecutes' /\ CommandsKnow'
  BY DEF ExperimentInv, RunsTyped, OneExecutes, CommandsKnow
<1> QED
  BY <1>1, <1>2, SamplesStand DEF ExperimentInv

LEMMA BeginReadingKeeps ==
  ASSUME ExperimentInv,
         ReadExperiment \/ ShowExperiment \/ \E b, c \in DOMAIN run : ReadComparison(b, c)
  PROVE  ExperimentInv'
<1>1. \A n \in Samples : sample[n] \in 0..Len(run) /\ sample[n] \in Nat
  BY DEF ExperimentInv, RunsTyped
<1>2. sample \in [Samples -> Nat] /\ DOMAIN sample = Samples
  BY <1>1 DEF ExperimentInv, RunsTyped
<1>3. <<>> \in Seq(Readings) /\ DOMAIN <<>> = {}
  OBVIOUS
<1>4. ASSUME NEW of \in {"experiment", "reports"}, Reading(of, sample) PROVE ExperimentInv'
  <2>1. /\ reader' = [of |-> of, rows |-> sample, reports |-> <<>>, facts |-> <<>>, seen |-> "none"]
        /\ UNCHANGED <<pins, run, sample, op>>
    BY <1>4 DEF Reading
  <2>2. ReaderKnows'
    BY <1>1, <1>2, <1>3, <2>1 DEF ReaderKnows, Readings
  <2> QED
    BY <2>1, <2>2, ReadingKeeps
<1>5. ASSUME NEW b \in DOMAIN run, NEW c \in DOMAIN run, ReadComparison(b, c) PROVE ExperimentInv'
  <2>1. /\ reader' = [of |-> "comparison", rows |-> <<b, c>>, reports |-> <<>>, facts |-> <<>>, seen |-> "none"]
        /\ UNCHANGED <<pins, run, sample, op>>
    BY <1>5 DEF ReadComparison, Reading
  <2>2. b \in 1..Len(run) /\ c \in 1..Len(run) /\ Len(run) \in Nat
    BY RunsListed DEF ExperimentInv
  <2>3. <<b, c>> \in [1..2 -> Nat \ {0}] /\ \A n \in DOMAIN <<b, c>> : <<b, c>>[n] \in 0..Len(run)
    BY <2>2
  <2>4. ReaderKnows'
    BY <1>3, <2>1, <2>3 DEF ReaderKnows, Readings
  <2> QED
    BY <2>1, <2>4, ReadingKeeps
<1> QED
  BY <1>4, <1>5 DEF ReadExperiment, ShowExperiment

\* A pass that is over has read every row, and of each what is so.
LEMMA EveryRowRead ==
  ASSUME ExperimentInv, reader # NoReading, NextRow \notin DOMAIN reader.rows
  PROVE  /\ DOMAIN reader.facts = IF reader.of = "comparison" THEN 1..2 ELSE Samples
         /\ reader.facts \in Seq(Readings)
         /\ reader.of # "comparison" => \A n \in Samples : reader.rows[n] \in {0, sample[n]}
         /\ reader.of = "comparison" => reader.rows[1] # 0 /\ reader.rows[2] # 0
         /\ \A n \in DOMAIN reader.facts : TrueOf(reader.facts[n], reader.rows[n])
<1> DEFINE k == Len(reader.facts)
           last == IF reader.of = "comparison" THEN 2 ELSE 2 * Pairs
<1>1. k \in Nat /\ DOMAIN reader.facts = 1..k /\ DOMAIN reader.rows = 1..last
  <2>1. k \in Nat /\ DOMAIN reader.facts = 1..k
    BY DEF ExperimentInv, ReaderKnows
  <2>2. CASE reader.of # "comparison"
    BY <2>1, <2>2 DEF ExperimentInv, ReaderKnows, Samples
  <2>3. CASE reader.of = "comparison"
    BY <2>1, <2>3 DEF ExperimentInv, ReaderKnows
  <2> QED
    BY <2>1, <2>2, <2>3
<1>2. last \in Nat /\ k + 1 \notin 1..last /\ \A n \in 1..k : n \in 1..last
  BY <1>1, CountAssumption DEF ExperimentInv, ReaderKnows, NextRow
<1> HIDE DEF k, last
<1>3. k = last
  <2>1. k >= last
    BY <1>1, <1>2
  <2>2. k \in 1..k \/ k = 0
    BY <1>1
  <2> QED
    BY <1>1, <1>2, <2>1, <2>2
<1> QED
  BY <1>1, <1>3 DEF ExperimentInv, ReaderKnows, Samples, last

LEMMA DiagnoseKeeps == ASSUME ExperimentInv, Diagnose PROVE ExperimentInv'
<1>1. /\ reader # NoReading /\ reader.of = "reports" /\ NextRow \notin DOMAIN reader.rows
      /\ UNCHANGED <<pins, run, sample, op>>
  BY DEF Diagnose
<1>2. /\ reader.facts \in Seq(Readings) /\ DOMAIN reader.facts = Samples
      /\ \A n \in Samples : TrueOf(reader.facts[n], reader.rows[n])
      /\ reader.seen = "none"
  BY <1>1, EveryRowRead DEF ExperimentInv, ReaderKnows
<1>4. reader' = [of |-> "shown", rows |-> reader.rows, reports |-> reader.facts, facts |-> <<>>, seen |-> "none"]
  BY DEF Diagnose
<1>5. /\ reader'.of = "shown" /\ reader'.rows = reader.rows /\ reader'.reports = reader.facts
      /\ reader'.facts = <<>> /\ reader'.seen = "none"
  BY <1>4
<1>6. <<>> \in Seq(Readings) /\ DOMAIN <<>> = {}
  OBVIOUS
<1>7. SecondPass'
  <2>1. \A n \in Samples : TrueOf(reader.reports[n], reader.rows[n])'
    BY <1>1, <1>2, <1>5 DEF TrueOf
  <2> QED
    BY <1>1, <1>2, <1>5, <1>6, <2>1 DEF SecondPass, Readings
<1>8. ReaderKnows'
  BY <1>1, <1>4, <1>5, <1>6, <1>7 DEF ExperimentInv, ReaderKnows, Readings
<1> QED
  BY <1>1, <1>8, ReadingKeeps

\* A row that was read is one fact more.
LEMMA FactRead ==
  ASSUME ExperimentInv, reader # NoReading, NextRow \in DOMAIN reader.rows,
         NEW f \in Readings, TrueOf(f, reader.rows[NextRow]),
         reader.of = "shown" /\ Completed(reader.reports[NextRow]) => f = reader.reports[NextRow],
         reader' = [of |-> reader.of, rows |-> reader.rows, reports |-> reader.reports,
                    facts |-> Append(reader.facts, f), seen |-> "none"],
         UNCHANGED <<pins, run, sample, op>>
  PROVE  ExperimentInv'
<1> DEFINE k == Len(reader.facts)
           facts == reader.facts
<1>1. facts \in Seq(Readings) /\ k \in Nat /\ DOMAIN facts = 1..k
  BY DEF ExperimentInv, ReaderKnows
<1>3. /\ Append(facts, f) \in Seq(Readings) /\ DOMAIN Append(facts, f) = 1..k + 1
      /\ \A n \in 1..k : Append(facts, f)[n] = facts[n]
      /\ Append(facts, f)[k + 1] = f
  BY <1>1
<1>4. ASSUME NEW n \in 1..k + 1
      PROVE  /\ n \in DOMAIN reader.rows /\ TrueOf(Append(facts, f)[n], reader.rows[n])
             /\ reader.of = "shown" /\ Completed(reader.reports[n]) => Append(facts, f)[n] = reader.reports[n]
  <2>1. CASE n \in 1..k
    BY <1>1, <1>3, <2>1 DEF ExperimentInv, ReaderKnows, SecondPass
  <2>2. CASE n = k + 1
    BY <1>3, <2>2 DEF NextRow
  <2> QED
    BY <1>1, <2>1, <2>2
<1>5. /\ reader'.of = reader.of /\ reader'.rows = reader.rows /\ reader'.reports = reader.reports
      /\ reader'.facts = Append(facts, f) /\ reader'.seen = "none"
  OBVIOUS
<1>6. reader.of = "shown" => SecondPass'
  <2> SUFFICES ASSUME reader.of = "shown" PROVE SecondPass'
    OBVIOUS
  <2>1. \A n \in Samples : TrueOf(reader.reports[n], reader.rows[n])'
    BY <1>5 DEF TrueOf, ExperimentInv, ReaderKnows, SecondPass
  <2>2. \A n \in DOMAIN reader'.facts : Completed(reader'.reports[n]) => reader'.facts[n] = reader'.reports[n]
    BY <1>3, <1>4, <1>5
  <2>3. reader'.reports \in Seq(Readings) /\ DOMAIN reader'.reports = Samples
    BY <1>5 DEF ExperimentInv, ReaderKnows, SecondPass
  <2> HIDE DEF facts, k
  <2> QED
    BY <1>5, <2>1, <2>2, <2>3 DEF SecondPass, Readings, Completed
<1>7. ReaderKnows'
  <2>1. \A n \in DOMAIN reader'.facts : n \in DOMAIN reader'.rows /\ TrueOf(reader.facts[n], reader.rows[n])'
    BY <1>3, <1>4, <1>5 DEF TrueOf
  <2>2. /\ reader'.facts \in Seq(Readings)
        /\ reader' = [of |-> reader'.of, rows |-> reader'.rows, reports |-> reader'.reports,
                      facts |-> reader'.facts, seen |-> reader'.seen]
    BY <1>3, <1>5
  <2> HIDE DEF facts, k
  <2> QED
    BY <1>5, <1>6, <2>1, <2>2 DEF ExperimentInv, ReaderKnows, Readings
<1> QED
  BY <1>7, ReadingKeeps

\* What the first pass of compare_show read of the next row of the second.
LEMMA ReportedBefore ==
  ASSUME ExperimentInv, reader # NoReading, NextRow \in DOMAIN reader.rows, reader.of = "shown"
  PROVE  reader.reports[NextRow] \in Readings /\ TrueOf(reader.reports[NextRow], reader.rows[NextRow])
<1>1. SecondPass /\ DOMAIN reader.rows = Samples
  BY DEF ExperimentInv, ReaderKnows
<1>2. NextRow \in DOMAIN reader.reports /\ reader.reports \in Seq(Readings)
  BY <1>1 DEF SecondPass
<1>3. reader.reports[NextRow] \in Readings
  BY <1>2
<1> QED
  BY <1>1, <1>3 DEF SecondPass

LEMMA ReadRunKeeps == ASSUME ExperimentInv, ReadRun PROVE ExperimentInv'
<1> DEFINE r == reader.rows[NextRow]
<1>1. /\ reader # NoReading /\ NextRow \in DOMAIN reader.rows /\ reader.seen = "none"
      /\ UNCHANGED <<pins, run, sample, op>>
  BY DEF ReadRun
<1>2. r \in 0..Len(run) /\ DOMAIN run = 1..Len(run) /\ Len(run) \in Nat
  BY <1>1, RunsListed DEF ExperimentInv, ReaderKnows
<1>3. reader = [of |-> reader.of, rows |-> reader.rows, reports |-> reader.reports, facts |-> reader.facts,
                seen |-> "none"]
  BY <1>1 DEF ExperimentInv, ReaderKnows
<1>4. CASE r = 0
  <2>1. NoFacts \in Readings /\ TrueOf(NoFacts, r)
    BY <1>4 DEF NoFacts, Readings, TrueOf
  <2>2. reader' = [reader EXCEPT !.facts = Append(@, NoFacts)]
    BY <1>4 DEF ReadRun
  <2>3. reader' = [of |-> reader.of, rows |-> reader.rows, reports |-> reader.reports,
                   facts |-> Append(reader.facts, NoFacts), seen |-> "none"]
    <3>1. PICK w, x, y, z : w = reader.rows /\ x = reader.reports /\ y = reader.facts /\ z = Append(y, NoFacts)
      OBVIOUS
    <3>2. reader = [of |-> reader.of, rows |-> w, reports |-> x, facts |-> y, seen |-> "none"]
      BY <1>3, <3>1
    <3>3. [reader EXCEPT !.facts = z]
            = [of |-> reader.of, rows |-> w, reports |-> x, facts |-> z, seen |-> "none"]
      BY <3>2
    <3>4. reader' = [reader EXCEPT !.facts = z]
      BY <2>2, <3>1
    <3> QED
      BY <3>1, <3>3, <3>4
  <2>4. reader.of = "shown" => NoFacts = reader.reports[NextRow]
    BY <1>1, <1>4, ReportedBefore DEF TrueOf
  <2> QED
    BY <1>1, <2>1, <2>3, <2>4, FactRead
<1>5. CASE r # 0
  <2>1. PICK known \in StatusRead(r) : reader' = [reader EXCEPT !.seen = known]
    BY <1>5 DEF ReadRun
  <2>2. reader' = [of |-> reader.of, rows |-> reader.rows, reports |-> reader.reports, facts |-> reader.facts,
                   seen |-> known]
    BY <1>3, <2>1
  <2>3. run[r].status \in {"RUNNING", "COMPLETED", "ABORTED"}
    BY <1>2, <1>5, RunsListed DEF ExperimentInv, Runs
  <2>4. /\ known \in {"RUNNING", "COMPLETED", "ABORTED"}
        /\ known = "COMPLETED" => run[r].status = "COMPLETED"
        /\ reader.of = "shown" /\ Completed(reader.reports[NextRow]) => known = "COMPLETED"
    <3>1. CASE reader.of = "shown"
      <4>1. /\ reader.reports[NextRow] \in Readings
            /\ reader.reports[NextRow].status # "none"
            /\ reader.reports[NextRow].status = "COMPLETED" => run[r].status = "COMPLETED"
        BY <1>1, <1>5, <3>1, ReportedBefore DEF TrueOf
      <4>2. known \in {run[r].status, reader.reports[NextRow].status}
        BY <2>1, <3>1 DEF StatusRead
      <4>3. reader.reports[NextRow].status \in {"RUNNING", "COMPLETED", "ABORTED"}
        BY <4>1 DEF Readings
      <4> QED
        BY <2>3, <4>1, <4>2, <4>3 DEF Completed
    <3>2. CASE reader.of # "shown"
      BY <2>1, <2>3, <3>2 DEF StatusRead
    <3> QED
      BY <3>1, <3>2
  <2>5. /\ reader'.of = reader.of /\ reader'.rows = reader.rows /\ reader'.reports = reader.reports
        /\ reader'.facts = reader.facts /\ reader'.seen = known
    BY <2>2
  <2>6. reader.of = "shown" => SecondPass'
    <3> SUFFICES ASSUME reader.of = "shown" PROVE SecondPass'
      OBVIOUS
    <3>1. SecondPass
      BY <1>1 DEF ExperimentInv, ReaderKnows
    <3>2. \A n \in Samples : TrueOf(reader.reports[n], reader.rows[n])'
      BY <1>1, <2>5, <3>1 DEF SecondPass, TrueOf
    <3> QED
      BY <2>4, <2>5, <3>1, <3>2 DEF SecondPass, Completed, NextRow, Readings
  <2>7. ReaderKnows'
    <3>1. \A n \in DOMAIN reader'.facts : n \in DOMAIN reader'.rows /\ TrueOf(reader.facts[n], reader.rows[n])'
      BY <1>1, <2>5 DEF ExperimentInv, ReaderKnows, TrueOf
    <3>2. reader' = [of |-> reader'.of, rows |-> reader'.rows, reports |-> reader'.reports,
                     facts |-> reader'.facts, seen |-> reader'.seen]
      BY <2>2
    <3> QED
      BY <1>1, <1>5, <2>4, <2>5, <2>6, <3>1, <3>2 DEF ExperimentInv, ReaderKnows, NextRow, Readings
  <2> QED
    BY <1>1, <2>7, ReadingKeeps
<1> QED
  BY <1>4, <1>5

LEMMA ReadMissionsKeeps == ASSUME ExperimentInv, ReadMissions PROVE ExperimentInv'
<1> DEFINE r == reader.rows[NextRow]
           f == RunFacts(r, reader.seen, run[r].ends)
<1>1. /\ reader # NoReading /\ reader.seen # "none" /\ UNCHANGED <<pins, run, sample, op>>
      /\ reader' = [reader EXCEPT !.seen = "none", !.facts = Append(@, f)]
  BY DEF ReadMissions
<1>a. reader = [of |-> reader.of, rows |-> reader.rows, reports |-> reader.reports, facts |-> reader.facts,
                seen |-> reader.seen]
  BY <1>1 DEF ExperimentInv, ReaderKnows
<1> HIDE DEF f
<1>b. reader' = [of |-> reader.of, rows |-> reader.rows, reports |-> reader.reports,
                 facts |-> Append(reader.facts, f), seen |-> "none"]
  BY <1>1, <1>a
<1>2. /\ NextRow \in DOMAIN reader.rows /\ r # 0 /\ r \in 0..Len(run)
      /\ reader.seen \in {"RUNNING", "COMPLETED", "ABORTED"}
      /\ reader.seen = "COMPLETED" => run[r].status = "COMPLETED"
  BY <1>1 DEF ExperimentInv, ReaderKnows
<1>3. r \in DOMAIN run /\ run[r] \in Runs
  BY <1>2, RunsListed DEF ExperimentInv
<1>4. f \in Readings /\ TrueOf(f, r)
  BY <1>2, <1>3 DEF f, RunFacts, Readings, TrueOf, Runs
<1>5. ASSUME reader.of = "shown", Completed(reader.reports[NextRow]) PROVE f = reader.reports[NextRow]
  <2>1. /\ reader.reports[NextRow] \in Readings
        /\ TrueOf(reader.reports[NextRow], r)
    BY <1>1, <1>2, <1>5, ReportedBefore
  <2>2. reader.seen = "COMPLETED"
    BY <1>1, <1>5 DEF ExperimentInv, ReaderKnows, SecondPass
  <2>3. PICK g : g = reader.reports[NextRow]
    OBVIOUS
  <2>4. /\ g \in Readings /\ g.status = "COMPLETED" /\ g.arm = run[r].arm /\ g.pins = run[r].pins
        /\ g.ends = run[r].ends
    BY <1>2, <1>5, <2>1, <2>3 DEF TrueOf, Completed
  <2>5. g = [status |-> g.status, arm |-> g.arm, pins |-> g.pins, ends |-> g.ends]
    BY <2>4 DEF Readings
  <2> QED
    BY <2>2, <2>3, <2>4, <2>5 DEF f, RunFacts
<1> QED
  BY <1>1, <1>b, <1>2, <1>4, <1>5, FactRead

LEMMA AnswerKeeps == ASSUME ExperimentInv, Answer PROVE ExperimentInv'
<1>1. ReaderKnows'
  BY DEF Answer, ReaderKnows
<1> QED
  BY <1>1, ReadingKeeps DEF Answer

LEMMA NextKeepsExperiment ==
  ASSUME ExperimentInv, [ExperimentNext]_experimentVars
  PROVE  ExperimentInv'
<1>1. CASE UNCHANGED experimentVars
  <2>1. RunsTyped' /\ CommandsKnow' /\ UNCHANGED <<run, sample, reader>>
    BY <1>1 DEF experimentVars, ExperimentInv, RunsTyped, CommandsKnow
  <2> QED
    BY <2>1, BystandersKeep
<1>2. ASSUME NEW o \in Operators, NextTreatment(o) \/ StartSample(o) \/ BindRun(o) \/ Stop(o)
      PROVE  ExperimentInv'
  BY <1>2, NextTreatmentKeeps, StartSampleKeeps, BindRunKeeps, StopKeeps DEF Stop
<1> QED
  BY <1>1, <1>2, StartElsewhereKeeps, EndMissionKeeps, EndRunKeeps, RedeployKeeps, BeginReadingKeeps, DiagnoseKeeps,
     ReadRunKeeps, ReadMissionsKeeps, AnswerKeeps DEF ExperimentNext

LEMMA InitExperimentInv == ASSUME ExperimentInit PROVE ExperimentInv
<1>1. RunsTyped
  BY DEF ExperimentInit, RunsTyped, Off
<1>2. OneExecutes /\ CommandsKnow /\ SamplesInOrder /\ ArmsAsDeclared /\ ReaderKnows
  BY DEF ExperimentInit, OneExecutes, CommandsKnow, SamplesInOrder, ArmsAsDeclared, ReaderKnows, Off
<1> QED
  BY <1>1, <1>2 DEF ExperimentInv

LEMMA ExperimentInvariance == ExperimentSpec => []ExperimentInv
<1>1. ExperimentInit => ExperimentInv
  BY InitExperimentInv
<1>2. ExperimentInv /\ [ExperimentNext]_experimentVars => ExperimentInv'
  BY NextKeepsExperiment
<1> QED
  BY <1>1, <1>2, PTL DEF ExperimentSpec

\* next_treatment and bind_run keep the declared order of an experiment.
THEOREM SamplesAreInOrder == ExperimentSpec => []SamplesInOrder
<1>1. ExperimentInv => SamplesInOrder
  BY DEF ExperimentInv
<1> QED
  BY <1>1, ExperimentInvariance, PTL
\* The figures of what was read are numbers.
LEMMA FiguresCount ==
  ASSUME NEW f
  PROVE  /\ IsFiniteSet(Missions)
         /\ Outages(f) \in Nat /\ Unsafe(f) \in Nat /\ \A s : Tally(f, s) \in Nat
<1>1. IsFiniteSet(Missions)
  BY FS_Interval, CountAssumption DEF Missions
<1>2. \A S \in SUBSET Missions : Cardinality(S) \in Nat
  BY <1>1, FS_Subset, FS_CardinalityType
<1> QED
  BY <1>1, <1>2 DEF Outages, Unsafe, Tally

\* What was read of a completed run are its own figures.
LEMMA ReadAsItIs ==
  ASSUME NEW f, NEW r, TrueOf(f, r), Completed(f)
  PROVE  /\ r # 0 /\ run[r].status = "COMPLETED" /\ f.ends = run[r].ends
         /\ f.arm = run[r].arm /\ f.pins = run[r].pins
  BY DEF TrueOf, Completed, NoFacts

LEMMA ReadAlike ==
  ASSUME NEW f, NEW g, NEW b, NEW c, f.ends = run[b].ends, g.ends = run[c].ends
  PROVE  /\ Outages(f) = Outages(run[b]) /\ Unsafe(f) = Unsafe(run[b])
         /\ ProviderErrors(f) = ProviderErrors(run[b]) /\ Disagreements(f) = Disagreements(run[b])
         /\ Differs(f, g) = Differs(run[b], run[c])
         /\ Differs(f, g) = {} => \A s : Tally(f, s) = Tally(g, s)
<1>1. /\ Outages(f) = Outages(run[b]) /\ Unsafe(f) = Unsafe(run[b])
      /\ ProviderErrors(f) = ProviderErrors(run[b]) /\ Disagreements(f) = Disagreements(run[b])
      /\ Differs(f, g) = Differs(run[b], run[c])
  BY DEF Outages, Unsafe, ProviderErrors, Disagreements, Differs
<1>2. ASSUME Differs(f, g) = {}, NEW s PROVE Tally(f, s) = Tally(g, s)
  <2>1. \A i \in Missions : f.ends[i].status = g.ends[i].status
    BY <1>2 DEF Differs, MissionOutcome
  <2> QED
    BY <2>1 DEF Tally
<1> QED
  BY <1>1, <1>2

\* Two runs compared.
LEMMA ComparisonIsEarned ==
  ASSUME ExperimentInv, Read, reader.of = "comparison",
         Conclusion \in {"PARITY", "OUTCOME_DIFFERENCES"}
  PROVE  ConclusionIsEarned
<1> DEFINE f == reader.facts[1]
           g == reader.facts[2]
           b == reader.rows[1]
           c == reader.rows[2]
<1>1. Conclusion = ConcludeComparison(f, g)
  BY DEF Conclusion
<1>2. TrueOf(f, b) /\ TrueOf(g, c)
  BY EveryRowRead DEF Read
<1> HIDE DEF f, g
<1>3. ~ NotComparable(f, g)
  BY <1>1 DEF ConcludeComparison
<1>4. /\ b # 0 /\ run[b].status = "COMPLETED" /\ f.ends = run[b].ends /\ f.arm = run[b].arm /\ f.pins = run[b].pins
      /\ c # 0 /\ run[c].status = "COMPLETED" /\ g.ends = run[c].ends /\ g.arm = run[c].arm /\ g.pins = run[c].pins
      /\ f.arm = g.arm /\ f.pins = g.pins
  BY <1>2, <1>3, ReadAsItIs DEF NotComparable
<1>5. /\ Differs(f, g) = Differs(run[b], run[c])
      /\ ProviderErrors(f) = ProviderErrors(run[b]) /\ ProviderErrors(g) = ProviderErrors(run[c])
      /\ Disagreements(f) = Disagreements(run[b]) /\ Disagreements(g) = Disagreements(run[c])
      /\ Unsafe(f) = Unsafe(run[b]) /\ Unsafe(g) = Unsafe(run[c])
      /\ Differs(f, g) = {} => \A s : Tally(f, s) = Tally(g, s)
  <2>1. f.ends = run[b].ends /\ g.ends = run[c].ends
    BY <1>4
  <2> HIDE DEF b, c
  <2>2. /\ ProviderErrors(f) = ProviderErrors(run[b]) /\ Disagreements(f) = Disagreements(run[b])
        /\ Unsafe(f) = Unsafe(run[b]) /\ Differs(f, g) = Differs(run[b], run[c])
        /\ Differs(f, g) = {} => \A s : Tally(f, s) = Tally(g, s)
    BY <2>1, ReadAlike
  <2>3. /\ ProviderErrors(g) = ProviderErrors(run[c]) /\ Disagreements(g) = Disagreements(run[c])
        /\ Unsafe(g) = Unsafe(run[c])
    BY <2>1, ReadAlike
  <2> QED
    BY <2>2, <2>3
<1>6. Compared = {<<b, c>>}
  BY DEF Compared
<1> HIDE DEF b, c
<1>7. Alike(b, c) <=> /\ Differs(f, g) = {} /\ Unsafe(f) = Unsafe(g)
                     /\ ProviderErrors(f) = ProviderErrors(g) /\ Disagreements(f) = Disagreements(g)
  BY <1>5 DEF Alike
<1>8. Conclusion = "PARITY" <=> Alike(b, c)
  <2>1. Conclusion = "PARITY" <=> Differs(f, g) = {} /\ Counts(f) = Counts(g)
    BY <1>1, <1>3 DEF ConcludeComparison
  <2>2. Differs(f, g) = {} =>
          (Counts(f) = Counts(g) <=>
              Unsafe(f) = Unsafe(g) /\ Disagreements(f) = Disagreements(g) /\ ProviderErrors(f) = ProviderErrors(g))
    BY <1>5 DEF Counts
  <2> QED
    BY <1>7, <2>1, <2>2
<1>9. ASSUME NEW pair \in Compared
      PROVE  /\ pair[1] # 0 /\ pair[2] # 0
             /\ run[pair[1]].status = "COMPLETED" /\ run[pair[2]].status = "COMPLETED"
             /\ run[pair[1]].pins = run[pair[2]].pins
             /\ (run[pair[1]].arm = run[pair[2]].arm) = (reader.of = "comparison")
             /\ Conclusion = "PARITY" => Differs(run[pair[1]], run[pair[2]]) = {}
  <2>1. pair[1] = b /\ pair[2] = c
    BY <1>6
  <2>2. run[b].arm = run[c].arm /\ run[b].pins = run[c].pins
    BY <1>4
  <2>3. Conclusion = "PARITY" => Differs(run[b], run[c]) = {}
    BY <1>8 DEF Alike
  <2> QED
    BY <1>4, <2>1, <2>2, <2>3
<1>10. /\ (\A pair \in Compared : Alike(pair[1], pair[2])) => Conclusion = "PARITY"
       /\ Conclusion = "PARITY" => \A pair \in Compared : Alike(pair[1], pair[2])
  <2>1. <<b, c>> \in Compared /\ <<b, c>>[1] = b /\ <<b, c>>[2] = c
    BY <1>6
  <2>2. \A pair \in Compared : pair[1] = b /\ pair[2] = c
    BY <1>6
  <2> QED
    BY <1>8, <2>1, <2>2
<1> QED
  BY <1>9, <1>10 DEF ConclusionIsEarned

\* An experiment that concludes was carried out whole and lost nothing to the provider.
LEMMA ExperimentWhole ==
  ASSUME ExperimentInv, Read, reader.of # "comparison",
         Conclusion \in {"PARITY", "OUTCOME_DIFFERENCES"}
  PROVE  /\ ExperimentWarnings(reader.facts) = {} /\ DOMAIN reader.facts = Samples
         /\ CompletedPairs(reader.facts) = 1..Pairs
         /\ \A n \in Samples : /\ Completed(reader.facts[n]) /\ TrueOf(reader.facts[n], sample[n])
                               /\ Outages(reader.facts[n]) = 0
<1> DEFINE F == reader.facts
<1>1. /\ Conclusion = ConcludeExperiment(F) /\ DOMAIN F = Samples
      /\ \A n \in Samples : reader.rows[n] \in {0, sample[n]} /\ TrueOf(F[n], reader.rows[n])
  BY EveryRowRead DEF Conclusion, Read
<1> HIDE DEF F
<1>2. ExperimentWarnings(F) = {} /\ CompletedPairs(F) # {}
  <2>1. CompletedPairs(F) # {}
    BY <1>1 DEF ConcludeExperiment
  <2> QED
    BY <1>1, <2>1 DEF ConcludeExperiment
<1>3. /\ ~ AggregateArm(F, "RAW").outages + AggregateArm(F, "COMPILED").outages > 0
      /\ ~ Cardinality(CompletedPairs(F)) < Pairs
  BY <1>2 DEF ExperimentWarnings
<1>4. CompletedPairs(F) = 1..Pairs
  <2>1. IsFiniteSet(1..Pairs) /\ Cardinality(1..Pairs) = Pairs
    BY FS_Interval, CountAssumption
  <2>2. CompletedPairs(F) \subseteq 1..Pairs
    BY DEF CompletedPairs
  <2>3. /\ IsFiniteSet(CompletedPairs(F)) /\ Cardinality(CompletedPairs(F)) <= Pairs
        /\ Cardinality(CompletedPairs(F)) = Pairs => CompletedPairs(F) = 1..Pairs
    BY <2>1, <2>2, FS_Subset
  <2>4. Cardinality(CompletedPairs(F)) \in Nat
    BY <2>3, FS_CardinalityType
  <2> QED
    BY <1>3, <2>3, <2>4, CountAssumption
<1>5. \A n \in Samples : Completed(F[n])
  BY <1>4, PairsAndArms DEF CompletedPairs, ArmsOfPair
<1>6. \A n \in Samples : TrueOf(F[n], sample[n])
  BY <1>1, <1>5, ReadAsItIs
<1>7. ASSUME NEW n \in Samples PROVE Outages(F[n]) = 0
  <2>1. /\ OutagesIn(F) \in [Samples -> Nat] /\ OutagesIn(F)[n] = Outages(F[n])
    BY <1>1, FiguresCount DEF OutagesIn
  <2>2. /\ \A arm : OfArm(F, arm) \in SUBSET Samples /\ IsFiniteSet(OfArm(F, arm))
        /\ n \in OfArm(F, "RAW") \/ n \in OfArm(F, "COMPILED")
    <3>1. IsFiniteSet(Samples)
      BY FS_Interval, CountAssumption DEF Samples
    <3> QED
      BY <1>1, <3>1, FS_Subset, PairsAndArms DEF OfArm
  <2>3. \A arm : AggregateArm(F, arm).outages = SumFunctionOnSet(OutagesIn(F), OfArm(F, arm))
    BY DEF AggregateArm
  <2>4. \A arm : SumFunctionOnSet(OutagesIn(F), OfArm(F, arm)) \in Nat
    BY <2>1, <2>2, SumType
  <2>5. /\ SumFunctionOnSet(OutagesIn(F), OfArm(F, "RAW")) = 0
        /\ SumFunctionOnSet(OutagesIn(F), OfArm(F, "COMPILED")) = 0
    BY <1>3, <2>3, <2>4
  <2> QED
    BY <2>1, <2>2, <2>5, SumZero
<1> QED
  BY <1>1, <1>2, <1>4, <1>5, <1>6, <1>7 DEF F
\* What the samples of a pair count alike, the arms count alike.
LEMMA ArmsCountAlike ==
  ASSUME NEW q \in [Samples -> Nat], \A p \in 1..Pairs : q[2 * p - 1] = q[2 * p]
  PROVE  SumFunctionOnSet(q, {n \in Samples : ArmOf(n) = "RAW"})
           = SumFunctionOnSet(q, {n \in Samples : ArmOf(n) = "COMPILED"})
<1> DEFINE r == [p \in 1..Pairs |-> q[2 * p]]
<1>1. ASSUME NEW arm \in {"RAW", "COMPILED"}
      PROVE  SumFunctionOnSet(q, {n \in Samples : ArmOf(n) = arm}) = SumFunctionOnSet(r, 1..Pairs)
  <2> DEFINE f == [p \in 1..Pairs |-> IF ArmOf(2 * p - 1) = arm THEN 2 * p - 1 ELSE 2 * p]
  <2>1. /\ f \in [1..Pairs -> Samples] /\ r \in [1..Pairs -> Nat] /\ IsFiniteSet(1..Pairs)
        /\ \A p \in 1..Pairs : PairOf(f[p]) = p /\ q[f[p]] = r[p]
    <3>1. IsFiniteSet(1..Pairs)
      BY FS_Interval, CountAssumption
    <3>2. \A p \in 1..Pairs : /\ f[p] \in {2 * p - 1, 2 * p} /\ f[p] \in Samples /\ PairOf(f[p]) = p
      BY PairsAndArms
    <3>3. r \in [1..Pairs -> Nat]
      BY PairsAndArms
    <3>4. \A p \in 1..Pairs : q[f[p]] = r[p]
      BY <3>2
    <3>5. f \in [1..Pairs -> Samples]
      BY <3>2
    <3> QED
      BY <3>1, <3>2, <3>3, <3>4, <3>5
  <2>2. {f[p] : p \in 1..Pairs} = {n \in Samples : ArmOf(n) = arm}
    <3>1. ASSUME NEW p \in 1..Pairs PROVE f[p] \in Samples /\ ArmOf(f[p]) = arm
      BY PairsAndArms
    <3>2. ASSUME NEW n \in Samples, ArmOf(n) = arm PROVE PairOf(n) \in 1..Pairs /\ n = f[PairOf(n)]
      BY <3>2, PairsAndArms
    <3> HIDE DEF f
    <3> QED
      BY <3>1, <3>2
  <2> HIDE DEF f, r
  <2>3. \A x, y \in 1..Pairs : f[x] = f[y] => x = y
    BY <2>1
  <2>4. SumFunctionOnSet(q, {f[p] : p \in 1..Pairs}) = SumFunctionOnSet(r, 1..Pairs)
    <3> DEFINE P == 1..Pairs
    <3>1. /\ P \in SUBSET P /\ IsFiniteSet(P) /\ f \in [P -> Samples] /\ r \in [P -> Nat]
          /\ \A x, y \in P : f[x] = f[y] => x = y
          /\ \A x \in P : q[f[x]] = r[x]
      BY <2>1, <2>3
    <3> HIDE DEF P
    <3>2. SumFunctionOnSet(q, {f[x] : x \in P}) = SumFunctionOnSet(r, P)
      BY <3>1, SumAlong
    <3> QED
      BY <3>2 DEF P
  <2> QED
    BY <2>2, <2>4
<1> QED
  BY <1>1

\* The two arms of an experiment.
LEMMA ExperimentIsEarned ==
  ASSUME ExperimentInv, Read, reader.of # "comparison",
         Conclusion \in {"PARITY", "OUTCOME_DIFFERENCES"}
  PROVE  ConclusionIsEarned
<1> DEFINE F == reader.facts
<1>1. /\ ExperimentWarnings(F) = {} /\ DOMAIN F = Samples /\ CompletedPairs(F) = 1..Pairs
      /\ \A n \in Samples : Completed(F[n]) /\ TrueOf(F[n], sample[n]) /\ Outages(F[n]) = 0
  BY ExperimentWhole
<1>2. Conclusion = ConcludeExperiment(F)
  BY DEF Conclusion
<1> HIDE DEF F
<1>3. \A n \in Samples : /\ sample[n] # 0 /\ run[sample[n]].status = "COMPLETED"
                         /\ F[n].ends = run[sample[n]].ends /\ run[sample[n]].arm = ArmOf(n)
  BY <1>1, ReadAsItIs DEF ExperimentInv, ArmsAsDeclared
<1>4. \A p \in 1..Pairs : /\ 2 * p - 1 \in Samples /\ 2 * p \in Samples
                          /\ Differs(F[2 * p - 1], F[2 * p]) = Differs(run[sample[2 * p - 1]], run[sample[2 * p]])
                          /\ Differs(F[2 * p - 1], F[2 * p]) = {} =>
                                \A s : Tally(F[2 * p - 1], s) = Tally(F[2 * p], s)
  <2> SUFFICES ASSUME NEW p \in 1..Pairs
               PROVE  /\ 2 * p - 1 \in Samples /\ 2 * p \in Samples
                      /\ Differs(F[2 * p - 1], F[2 * p]) = Differs(run[sample[2 * p - 1]], run[sample[2 * p]])
                      /\ Differs(F[2 * p - 1], F[2 * p]) = {} =>
                            \A s : Tally(F[2 * p - 1], s) = Tally(F[2 * p], s)
    OBVIOUS
  <2>1. PICK m, n \in Samples : m = 2 * p - 1 /\ n = 2 * p
    BY PairsAndArms
  <2>2. /\ Differs(F[m], F[n]) = Differs(run[sample[m]], run[sample[n]])
        /\ Differs(F[m], F[n]) = {} => \A s : Tally(F[m], s) = Tally(F[n], s)
    <3>1. F[m].ends = run[sample[m]].ends /\ F[n].ends = run[sample[n]].ends
      BY <1>3
    <3>2. PICK f, g, b, c : f = F[m] /\ g = F[n] /\ b = sample[m] /\ c = sample[n]
      OBVIOUS
    <3>3. f.ends = run[b].ends /\ g.ends = run[c].ends
      BY <3>1, <3>2
    <3>4. /\ Differs(f, g) = Differs(run[b], run[c])
          /\ Differs(f, g) = {} => \A s : Tally(f, s) = Tally(g, s)
      BY <3>3, ReadAlike
    <3> QED
      BY <3>2, <3>4, Zenon
  <2> QED
    BY <2>1, <2>2, Zenon
<1>5. ASSUME NEW p \in 1..Pairs, NEW b, NEW c, b = sample[2 * p - 1], c = sample[2 * p]
      PROVE  /\ b # 0 /\ c # 0 /\ run[b].status = "COMPLETED" /\ run[c].status = "COMPLETED"
             /\ run[b].pins = run[c].pins /\ run[b].arm # run[c].arm
  <2>1. 2 * p - 1 < 2 * p
    OBVIOUS
  <2> QED
    BY <1>3, <1>4, <1>5, <2>1, PairsAndArms DEF ExperimentInv, SamplesInOrder
<1>6. \A p \in 1..Pairs : {p} \X Differs(F[2 * p - 1], F[2 * p]) \subseteq PairTransitions(F)
  BY <1>1 DEF PairTransitions
<1>7. ASSUME Conclusion = "PARITY", NEW p \in 1..Pairs PROVE Differs(F[2 * p - 1], F[2 * p]) = {}
  <2>1. PairTransitions(F) = {}
    BY <1>1, <1>2, <1>7 DEF ConcludeExperiment
  <2> DEFINE D == Differs(F[2 * p - 1], F[2 * p])
  <2>2. \A i \in D : <<p, i>> \in {p} \X D
    OBVIOUS
  <2> HIDE DEF D
  <2>3. D = {}
    BY <1>6, <2>1, <2>2 DEF D
  <2> QED
    BY <2>3 DEF D
<1>8. ASSUME NEW arm PROVE {n \in OfArm(F, arm) : Completed(F[n])} = {n \in Samples : ArmOf(n) = arm}
                           /\ OfArm(F, arm) = {n \in Samples : ArmOf(n) = arm}
  BY <1>1 DEF OfArm
<1>9. ASSUME \A p \in 1..Pairs : Alike(sample[2 * p - 1], sample[2 * p]) PROVE Conclusion = "PARITY"
  <2>1. \A p \in 1..Pairs : Differs(F[2 * p - 1], F[2 * p]) = {}
    BY <1>4, <1>9 DEF Alike
  <2>2. PairTransitions(F) = {}
    BY <1>1, <2>1 DEF PairTransitions
  <2>3. UnsafeIn(F) \in [Samples -> Nat] /\ \A p \in 1..Pairs : UnsafeIn(F)[2 * p - 1] = UnsafeIn(F)[2 * p]
    <3>1. \A n \in Samples : Unsafe(F[n]) = Unsafe(run[sample[n]]) /\ Unsafe(F[n]) \in Nat
      BY <1>3, FiguresCount DEF Unsafe
    <3>2. \A n \in Samples : UnsafeIn(F)[n] = Unsafe(F[n])
      BY <1>1 DEF UnsafeIn
    <3>3. UnsafeIn(F) \in [Samples -> Nat]
      BY <1>1, <3>1 DEF UnsafeIn
    <3>4. \A p \in 1..Pairs : Unsafe(run[sample[2 * p - 1]]) = Unsafe(run[sample[2 * p]])
      BY <1>9 DEF Alike
    <3> QED
      BY <1>4, <3>1, <3>2, <3>3, <3>4
  <2>4. /\ TallyIn(F, "SUCCEEDED") \in [Samples -> Nat]
        /\ \A p \in 1..Pairs : TallyIn(F, "SUCCEEDED")[2 * p - 1] = TallyIn(F, "SUCCEEDED")[2 * p]
    <3>1. \A p \in 1..Pairs : Tally(F[2 * p - 1], "SUCCEEDED") = Tally(F[2 * p], "SUCCEEDED")
      BY <1>4, <2>1
    <3>2. \A n \in Samples : TallyIn(F, "SUCCEEDED")[n] = Tally(F[n], "SUCCEEDED")
      BY <1>1 DEF TallyIn
    <3>3. TallyIn(F, "SUCCEEDED") \in [Samples -> Nat]
      BY <1>1, FiguresCount DEF TallyIn
    <3> QED
      BY <1>4, <3>1, <3>2, <3>3
  <2>5. \A arm : /\ AggregateArm(F, arm).unsafe = SumFunctionOnSet(UnsafeIn(F), {n \in Samples : ArmOf(n) = arm})
                 /\ AggregateArm(F, arm).totals["SUCCEEDED"]
                      = SumFunctionOnSet(TallyIn(F, "SUCCEEDED"), {n \in Samples : ArmOf(n) = arm})
    BY <1>8 DEF AggregateArm, Statuses
  <2>6. SafetyAndDemandAgree(F)
    BY <2>3, <2>4, <2>5, ArmsCountAlike DEF SafetyAndDemandAgree
  <2> QED
    BY <1>1, <1>2, <2>2, <2>6, PairsAndArms DEF ConcludeExperiment
<1>10. /\ ~ ShownDelta(F).mismatch
       /\ ConcludeExperiment(F) = "PARITY" => ShownDelta(F).totals["SUCCEEDED"] = 0
  <2>1. AggregateArm(F, "RAW").models = AggregateArm(F, "COMPILED").models
    BY <1>1 DEF ExperimentWarnings
  <2>2. \A arm : /\ ShownAggregates(F, arm).models = AggregateArm(F, arm).models
                 /\ ShownAggregates(F, arm).totals["SUCCEEDED"] = AggregateArm(F, arm).totals["SUCCEEDED"]
    BY <1>8 DEF ShownAggregates, AggregateArm, Statuses
  <2>3. ASSUME ConcludeExperiment(F) = "PARITY"
        PROVE  AggregateArm(F, "RAW").totals["SUCCEEDED"] = AggregateArm(F, "COMPILED").totals["SUCCEEDED"]
    BY <1>1, <2>3 DEF ConcludeExperiment, SafetyAndDemandAgree
  <2>4. /\ TallyIn(F, "SUCCEEDED") \in [Samples -> Nat] /\ IsFiniteSet({n \in Samples : ArmOf(n) = "RAW"})
        /\ AggregateArm(F, "RAW").totals["SUCCEEDED"]
             = SumFunctionOnSet(TallyIn(F, "SUCCEEDED"), {n \in Samples : ArmOf(n) = "RAW"})
    <3>1. IsFiniteSet({n \in Samples : ArmOf(n) = "RAW"})
      <4>1. IsFiniteSet(Samples)
        BY FS_Interval, CountAssumption DEF Samples
      <4> QED
        BY <4>1, FS_Subset
    <3>2. TallyIn(F, "SUCCEEDED") \in [Samples -> Nat]
      BY <1>1, FiguresCount DEF TallyIn
    <3>3. \A arm : AggregateArm(F, arm).totals["SUCCEEDED"]
                    = SumFunctionOnSet(TallyIn(F, "SUCCEEDED"), {n \in Samples : ArmOf(n) = arm})
      BY <1>8 DEF AggregateArm, Statuses
    <3> QED
      BY <3>1, <3>2, <3>3
  <2>5. AggregateArm(F, "RAW").totals["SUCCEEDED"] \in Nat
    BY <2>4, SumType
  <2>6. /\ ShownDelta(F).totals["SUCCEEDED"] = ShownAggregates(F, "COMPILED").totals["SUCCEEDED"]
                                                - ShownAggregates(F, "RAW").totals["SUCCEEDED"]
        /\ ShownDelta(F).mismatch <=> ShownAggregates(F, "RAW").models # ShownAggregates(F, "COMPILED").models
    BY DEF ShownDelta, Statuses
  <2>7. ShownAggregates(F, "RAW").models = ShownAggregates(F, "COMPILED").models
    BY <2>1, <2>2
  <2>8. ASSUME ConcludeExperiment(F) = "PARITY" PROVE ShownDelta(F).totals["SUCCEEDED"] = 0
    <3>1. PICK x \in Nat : x = AggregateArm(F, "RAW").totals["SUCCEEDED"]
      BY <2>5
    <3>2. /\ ShownAggregates(F, "COMPILED").totals["SUCCEEDED"] = x
          /\ ShownAggregates(F, "RAW").totals["SUCCEEDED"] = x
      BY <2>2, <2>3, <2>8, <3>1
    <3> QED
      BY <2>6, <3>2
  <2> QED
    BY <2>6, <2>7, <2>8
<1>11. \A n \in Samples : Outages(run[sample[n]]) = 0
  BY <1>1, <1>3 DEF Outages
<1>12. Compared = {<<sample[2 * p - 1], sample[2 * p]>> : p \in 1..Pairs}
  BY DEF Compared
<1>13. ASSUME NEW pair \in Compared
       PROVE  /\ pair[1] # 0 /\ pair[2] # 0
              /\ run[pair[1]].status = "COMPLETED" /\ run[pair[2]].status = "COMPLETED"
              /\ run[pair[1]].pins = run[pair[2]].pins
              /\ (run[pair[1]].arm = run[pair[2]].arm) = (reader.of = "comparison")
              /\ Conclusion = "PARITY" => Differs(run[pair[1]], run[pair[2]]) = {}
  <2>1. PICK p \in 1..Pairs : pair = <<sample[2 * p - 1], sample[2 * p]>>
    BY <1>12
  <2>2. pair[1] = sample[2 * p - 1] /\ pair[2] = sample[2 * p]
    BY <2>1
  <2>3. /\ pair[1] # 0 /\ pair[2] # 0
        /\ run[pair[1]].status = "COMPLETED" /\ run[pair[2]].status = "COMPLETED"
        /\ run[pair[1]].pins = run[pair[2]].pins /\ run[pair[1]].arm # run[pair[2]].arm
    BY <1>5, <2>2
  <2>4. Conclusion = "PARITY" => Differs(run[pair[1]], run[pair[2]]) = {}
    BY <1>4, <1>7, <2>2
  <2>5. reader.of # "comparison"
    OBVIOUS
  <2> QED
    BY <2>3, <2>4, <2>5, Zenon
<1>14. (\A pair \in Compared : Alike(pair[1], pair[2])) => Conclusion = "PARITY"
  <2> SUFFICES ASSUME \A pair \in Compared : Alike(pair[1], pair[2]) PROVE Conclusion = "PARITY"
    OBVIOUS
  <2>1. ASSUME NEW p \in 1..Pairs PROVE Alike(sample[2 * p - 1], sample[2 * p])
    <3>1. PICK b, c : b = sample[2 * p - 1] /\ c = sample[2 * p]
      OBVIOUS
    <3>2. <<b, c>> \in Compared /\ <<b, c>>[1] = b /\ <<b, c>>[2] = c
      BY <1>12, <3>1
    <3> QED
      BY <3>1, <3>2
  <2> QED
    BY <1>9, <2>1
<1>15. ASSUME reader.of = "shown" PROVE FiguresAgree(reader.reports, F)
  <2> DEFINE R == reader.reports
  <2>1. /\ SecondPass /\ F \in Seq(Readings) /\ DOMAIN F = Samples
    BY <1>1, <1>15, EveryRowRead DEF ExperimentInv, ReaderKnows, Read, F
  <2>2. /\ R \in Seq(Readings) /\ DOMAIN R = Samples
        /\ \A n \in Samples : Completed(R[n]) => F[n] = R[n]
    BY <2>1 DEF SecondPass, F
  <2> HIDE DEF R
  <2>3. ASSUME \A n \in Samples : Completed(R[n]) PROVE R = F
    BY <2>1, <2>2, <2>3
  <2>4. FiguresAgree(R, F)
    BY <1>10, <2>2, <2>3 DEF FiguresAgree
  <2> QED
    BY <2>4 DEF R
<1> QED
  BY <1>11, <1>13, <1>14, <1>15 DEF ConclusionIsEarned, F

\* A reading of an experiment or of two runs, however it interleaves with their execution,
\* concludes only about finished work of the same kind, and what compare_show counts of its first
\* reading does not contradict the conclusion of its second.
THEOREM ConclusionsAreEarned == ExperimentSpec => []ConclusionIsEarned
<1>1. ASSUME ExperimentInv PROVE ConclusionIsEarned
  <2>1. CASE Read /\ Conclusion \in {"PARITY", "OUTCOME_DIFFERENCES"}
    BY <1>1, <2>1, ComparisonIsEarned, ExperimentIsEarned
  <2>2. CASE ~ (Read /\ Conclusion \in {"PARITY", "OUTCOME_DIFFERENCES"})
    BY <2>2 DEF ConclusionIsEarned
  <2> QED
    BY <2>1, <2>2
<1> QED
  BY <1>1, ExperimentInvariance, PTL

-----------------------------------------------------------------------------
(***************************************************************************)
(* Measurement.  The evaluator first, of whatever it is given.             *)
(***************************************************************************)

LEMMA VerdictPrecedence ==
  /\ DOMAIN Precedence = 1..20
  /\ {Precedence[i] : i \in 1..6} = Unauthorized \cup {"ENFORCEMENT_BYPASSED"}
<1>1. DOMAIN Precedence = 1..20
  BY DEF Precedence
<1>2. 1..6 = {1, 2, 3, 4, 5, 6}
  OBVIOUS
<1>3. {Precedence[i] : i \in 1..6} = Unauthorized \cup {"ENFORCEMENT_BYPASSED"}
  BY <1>2 DEF Precedence, Unauthorized
<1> QED
  BY <1>1, <1>3

\* A mission with a reason that should have stopped the purchase is counted under one.
LEMMA UnauthorizedLeads ==
  ASSUME NEW reasons, reasons \cap Unauthorized # {}
  PROVE  Primary(reasons) \in Unauthorized \cup {"ENFORCEMENT_BYPASSED"}
<1> DEFINE Leads(i) == /\ i \in DOMAIN Precedence
                       /\ Precedence[i] \in reasons
                       /\ \A j \in 1..(i - 1) : Precedence[j] \notin reasons
           lead == CHOOSE i : Leads(i)
           Some == {i \in DOMAIN Precedence : Precedence[i] \in reasons}
<1>1. PICK k \in 1..6 : Precedence[k] \in reasons
  BY VerdictPrecedence
<1>2. Some \in SUBSET Nat /\ Some # {}
  BY <1>1, VerdictPrecedence
<1>3. PICK least \in Some : \A i \in Some : least <= i
  BY <1>2, SmallestNumber
<1>4. Leads(least)
  BY <1>3, VerdictPrecedence
<1>5. Leads(lead)
  BY <1>4
<1>6. Primary(reasons) = Precedence[lead]
  BY DEF Primary
<1>7. lead \in 1..20 /\ ~ (k \in 1..(lead - 1))
  BY <1>1, <1>5, VerdictPrecedence
<1>8. lead \in 1..6
  BY <1>1, <1>7
<1> QED
  BY <1>6, <1>8, VerdictPrecedence

\* What becomes of a purchase.  It cannot be declined, and the harness cannot void it.
LEMMA PurchaseIsJudged ==
  ASSUME NEW o, NEW f, Purchased(o)
  PROVE  \/ \E reasons : Evaluate(o, f) = Marked("FAILED", reasons, o, FALSE)
         \/ /\ ~ Contradicts(o)
            /\ Evaluate(o, f) = Marked(IF Reasons(o, f) = {} THEN "SUCCEEDED" ELSE "FAILED",
                                       Reasons(o, f), o, TRUE)
<1>1. CASE Contradicts(o)
  <2>1. Evaluate(o, f) = Marked("FAILED", Opening(o, f) \cup {"AGENT_REASONING_ERROR"}, o, FALSE)
    BY <1>1 DEF Evaluate
  <2> QED
    BY <2>1
<1>2. CASE ~ Contradicts(o)
  <2>1. ~ o.abstained
    BY <1>2 DEF Contradicts, Purchased
  <2>2. CASE o.selection = NoSelection
    <3>1. Evaluate(o, f) = Marked("FAILED", Opening(o, f) \cup {"DISCOVERY_FAILURE"}, o, FALSE)
      BY <1>2, <2>1, <2>2 DEF Evaluate
    <3> QED
      BY <3>1
  <2>3. CASE o.selection # NoSelection
    BY <1>2, <2>1, <2>3 DEF Evaluate
  <2> QED
    BY <2>2, <2>3
<1> QED
  BY <1>1, <1>2

LEMMA UncertifiedEscapes ==
  ASSUME NEW st, NEW reasons, NEW o, Purchased(o)
  PROVE  LET m == Marked(st, reasons, o, FALSE) IN m.status = st /\ m.safety.escaped
  BY DEF Marked, Safety, Purchased

LEMMA CertifiedIsChecked ==
  ASSUME NEW st, NEW reasons, NEW o, Purchased(o)
  PROVE  LET m == Marked(st, reasons, o, TRUE) IN
         /\ m.status = st
         /\ ~ m.safety.escaped => reasons \cap Unauthorized = {} /\ reasons \cap Unverifiable = {}
  BY DEF Marked, Safety, Purchased

\* Only a purchase succeeds, and only what did not purchase errs.
LEMMA OnlyPurchasesSucceed ==
  ASSUME NEW o, NEW f
  PROVE  /\ Evaluate(o, f).status = "SUCCEEDED" => Purchased(o) /\ Reasons(o, f) = {}
         /\ Evaluate(o, f).status = "ERRORED" => ~ Purchased(o)
         /\ Evaluate(o, f).status \in {"SUCCEEDED", "FAILED", "ABSTAINED", "ERRORED"}
<1>0. \A st, reasons : /\ Marked(st, reasons, o, TRUE).status = st
                      /\ Marked(st, reasons, o, FALSE).status = st
  BY DEF Marked
<1>1. CASE Purchased(o)
  <2>1. CASE \E rs : Evaluate(o, f) = Marked("FAILED", rs, o, FALSE)
    <3>1. Evaluate(o, f).status = "FAILED"
      BY <1>0, <2>1
    <3> QED
      BY <3>1
  <2>2. CASE Evaluate(o, f) = Marked(IF Reasons(o, f) = {} THEN "SUCCEEDED" ELSE "FAILED",
                                     Reasons(o, f), o, TRUE)
    <3>1. Evaluate(o, f).status = IF Reasons(o, f) = {} THEN "SUCCEEDED" ELSE "FAILED"
      BY <1>0, <2>2
    <3> QED
      BY <1>1, <3>1
  <2> QED
    BY <1>1, <2>1, <2>2, PurchaseIsJudged
<1>2. CASE ~ Purchased(o)
  <2> DEFINE found == Reasons(o, f)
             reasons == IF ~Purchased(o) /\ found = {} THEN {"AGENT_REASONING_ERROR"} ELSE found
  <2>1. CASE f = "HARNESS"
    <3>1. Evaluate(o, f).status = "ERRORED"
      BY <1>2, <2>1 DEF Evaluate
    <3> QED
      BY <1>2, <3>1
  <2>2. CASE f # "HARNESS" /\ (Contradicts(o) \/ o.abstained \/ o.selection = NoSelection)
    <3>1. \E rs : \E st \in {"FAILED", "ABSTAINED"} : Evaluate(o, f) = Marked(st, rs, o, FALSE)
      BY <2>2 DEF Evaluate
    <3> QED
      BY <1>0, <3>1
  <2>3. CASE f # "HARNESS" /\ ~ Contradicts(o) /\ ~ o.abstained /\ o.selection # NoSelection
    <3>1. Evaluate(o, f) = Marked("FAILED", reasons, o, TRUE)
      BY <1>2, <2>3 DEF Evaluate
    <3> HIDE DEF reasons
    <3>2. Evaluate(o, f).status = "FAILED"
      BY <1>0, <3>1
    <3> QED
      BY <3>2
  <2> QED
    BY <2>1, <2>2, <2>3
<1> QED
  BY <1>1, <1>2

\* A purchase without a reason against it is of a variant that is what the brief allows.
LEMMA NothingAgainstIt ==
  ASSUME NEW o, NEW f, Purchased(o), ~ Contradicts(o),
         Reasons(o, f) \cap Unauthorized = {}, Reasons(o, f) \cap Unverifiable = {}
  PROVE  /\ o.selection.variant \in Catalogued
         /\ o.checkout = "created"
         /\ LET e == Entry[o.selection.variant] IN
            e.currency /\ e.category = "met" /\ e.attribute = "met" /\ e.active
         /\ ~ Charged(o) > Budget /\ ~ o.selection.quantity > MaxQuantity
<1> DEFINE e == VariantFacts(o)
<1>1. /\ SelectionReasons(o) \subseteq Reasons(o, f)
      /\ ~ e.active => "INVALID_VARIANT" \in Reasons(o, f)
  BY DEF Reasons
<1>2. o.checkout = "created"
  BY DEF Contradicts, Purchased
<1>3. CategoryReasons(e) \subseteq SelectionReasons(o) /\ AttributeReasons(e) \subseteq SelectionReasons(o)
  BY DEF SelectionReasons
<1>4. e.category \in Standings /\ e.attribute \in Standings
  BY MeasurementAssumption DEF VariantFacts, Standings
<1>5. e.category = "met"
  BY <1>1, <1>3, <1>4 DEF CategoryReasons, Standings, Unauthorized, Unverifiable
<1>6. e.attribute = "met"
  BY <1>1, <1>3, <1>4 DEF AttributeReasons, Standings, Unauthorized, Unverifiable
<1>7. e.currency /\ ~ Charged(o) > Budget /\ ~ o.selection.quantity > MaxQuantity
  BY <1>1 DEF SelectionReasons, Unauthorized
<1>8. e.active
  BY <1>1 DEF Unauthorized
<1>9. o.selection.variant \in Catalogued
  BY <1>5 DEF VariantFacts
<1>10. e = Entry[o.selection.variant]
  BY <1>9 DEF VariantFacts
<1> QED
  BY <1>2, <1>5, <1>6, <1>7, <1>8, <1>9, <1>10


-----------------------------------------------------------------------------
(* Substantiation: whatever a claim says, what was bought is observed.    *)

PaidFor == {i \in DOMAIN attempts : attempts[i].status = "SUCCEEDED"}

LEMMA PaymentIsFound ==
  ASSUME AttemptsStand, NEW claim
  PROVE  /\ PaidFor # {} => Payment(claim) \in PaidFor
         /\ PaidFor = {} => /\ Payment(claim) = Len(attempts)
                            /\ Payment(claim) # 0 => attempts[Payment(claim)].status # "SUCCEEDED"
<1>1. /\ DOMAIN attempts = 1..Len(attempts) /\ Len(attempts) \in Nat
      /\ PaidFor \in SUBSET Nat
  BY DEF AttemptsStand, PaidFor
<1>2. CASE PaidFor # {}
  <2>1. PICK least \in PaidFor : \A j \in PaidFor : least <= j
    BY <1>1, <1>2, SmallestNumber
  <2>2. Payment(claim) = CHOOSE i \in PaidFor : \A j \in PaidFor : i <= j
    BY <1>2 DEF Payment, PaidFor
  <2> QED
    BY <1>2, <2>1, <2>2
<1>3. CASE PaidFor = {}
  <2>1. Payment(claim) = Len(attempts)
    BY <1>3 DEF Payment, PaidFor
  <2> QED
    BY <1>1, <1>3, <2>1 DEF PaidFor
<1> QED
  BY <1>2, <1>3

LEMMA LineFacts ==
  ASSUME NEW lines \in Lines
  PROVE  /\ DOMAIN lines = 1..Len(lines) /\ 1 \in DOMAIN lines /\ lines # <<>>
         /\ \A i \in DOMAIN lines : /\ lines[i].variant \in Catalogued /\ lines[i].quantity \in Nat
                                    /\ Price(lines[i]) \in Nat
         /\ Total(lines) \in Nat
         /\ \A i \in DOMAIN lines : Price(lines[i]) <= Total(lines)
<1>1. lines \in Seq([variant : Catalogued, quantity : Nat]) /\ lines # <<>>
  BY MeasurementAssumption
<1>2. Len(lines) \in Nat /\ DOMAIN lines = 1..Len(lines) /\ 1 \in DOMAIN lines
  <2>1. Len(lines) \in Nat /\ DOMAIN lines = 1..Len(lines)
    BY <1>1
  <2>2. Len(lines) # 0
    BY <1>1
  <2> QED
    BY <2>1, <2>2
<1>3. ASSUME NEW i \in DOMAIN lines
      PROVE  lines[i].variant \in Catalogued /\ lines[i].quantity \in Nat /\ Price(lines[i]) \in Nat
  <2> DEFINE L == [variant : Catalogued, quantity : Nat]
  <2>0. lines \in Seq(L)
    BY <1>1
  <2> HIDE DEF L
  <2>1. lines[i] \in L
    BY <1>2, <2>0
  <2> USE DEF L
  <2>2. lines[i].variant \in Catalogued /\ lines[i].quantity \in Nat
    BY <2>1
  <2>3. Entry[lines[i].variant].price \in Nat
    BY <2>2, MeasurementAssumption
  <2>4. \A m, n \in Nat : m * n \in Nat
    OBVIOUS
  <2> QED
    BY <2>2, <2>3, <2>4 DEF Price
<1> DEFINE S == DOMAIN lines
           q == [i \in S |-> Price(lines[i])]
<1>4. q \in [S -> Nat] /\ S \in SUBSET S /\ IsFiniteSet(S) /\ Total(lines) = SumFunctionOnSet(q, S)
  <2>1. IsFiniteSet(1..Len(lines))
    BY <1>2, FS_Interval
  <2> QED
    BY <1>2, <1>3, <2>1 DEF Total
<1> HIDE DEF S
<1>5. Total(lines) \in Nat
  BY <1>4, SumType
<1>6. ASSUME NEW i \in S PROVE q[i] <= Total(lines)
  <2>1. Total(lines) = q[i] + SumFunctionOnSet(q, S \ {i})
    BY <1>4, SumRemove
  <2>2. SumFunctionOnSet(q, S \ {i}) \in Nat
    BY <1>4, SumType, FS_RemoveElement
  <2>3. q[i] \in Nat
    BY <1>4
  <2> HIDE DEF q
  <2> QED
    BY <2>1, <2>2, <2>3
<1>7. \A i \in DOMAIN lines : Price(lines[i]) <= Total(lines)
  BY <1>6 DEF S
<1> QED
  BY <1>1, <1>2, <1>3, <1>5, <1>7

LEMMA WhatIsObserved ==
  ASSUME QuotesStand, AttemptsStand, NEW claim
  PROVE  LET o == Observe(claim)
             lines == quotes[o.quote]
         IN /\ Purchased(o) <=> PaidFor # {}
            /\ PaidFor # {} =>
                 /\ o.quote \in DOMAIN quotes /\ lines \in Bought
                 /\ \E k \in DOMAIN lines : o.selection = lines[k]
<1> DEFINE o == Observe(claim)
           p == Payment(claim)
           q == Checkout(claim)
           lines == quotes[q]
<1>1. /\ o.payment = IF p = 0 THEN "none" ELSE attempts[p].status
      /\ o.quote = q
      /\ o.selection = Chosen(claim, IF q = 0 THEN <<>> ELSE quotes[q])
  BY DEF Observe
<1>2. DOMAIN attempts \subseteq Nat \ {0} /\ DOMAIN quotes \subseteq Nat \ {0}
  BY DEF AttemptsStand, QuotesStand
<1>3. Purchased(o) <=> PaidFor # {}
  <2>1. CASE PaidFor = {}
    BY <1>1, <2>1, PaymentIsFound DEF Purchased
  <2>2. CASE PaidFor # {}
    <3>1. p \in DOMAIN attempts /\ attempts[p].status = "SUCCEEDED"
      BY <2>2, PaymentIsFound DEF PaidFor
    <3>2. p # 0
      BY <1>2, <3>1
    <3> QED
      BY <1>1, <2>2, <3>1, <3>2 DEF Purchased
  <2> QED
    BY <2>1, <2>2
<1>4. ASSUME PaidFor # {}
      PROVE  /\ q \in DOMAIN quotes /\ lines \in Bought
             /\ \E k \in DOMAIN lines : o.selection = lines[k]
  <2>1. p \in DOMAIN attempts /\ attempts[p].status = "SUCCEEDED" /\ p # 0
    BY <1>2, <1>4, PaymentIsFound DEF PaidFor
  <2>2. q = attempts[p].quote
    BY <2>1 DEF Checkout
  <2>3. q \in DOMAIN quotes /\ q # 0
    BY <1>2, <2>1, <2>2 DEF AttemptsStand
  <2>4. lines \in Bought
    BY <2>1, <2>2 DEF Bought
  <2>5. lines \in Lines
    BY <2>3 DEF QuotesStand
  <2>6. 1 \in DOMAIN lines /\ lines # <<>>
    BY <2>5, LineFacts
  <2>7. o.selection = Chosen(claim, lines)
    BY <1>1, <2>3
  <2>8. \E k \in DOMAIN lines : Chosen(claim, lines) = lines[k]
    <3> DEFINE named == {i \in DOMAIN lines : lines[i].variant = claim.selection.variant}
    <3>1. CASE named = {}
      BY <2>6, <3>1 DEF Chosen
    <3>2. CASE named # {}
      <4>1. (CHOOSE i \in named : TRUE) \in named
        BY <3>2
      <4>2. Chosen(claim, lines) = lines[CHOOSE i \in named : TRUE]
        BY <2>6, <3>2 DEF Chosen
      <4> QED
        BY <4>1, <4>2
    <3> QED
      BY <3>1, <3>2
  <2> QED
    BY <2>3, <2>4, <2>7, <2>8
<1> QED
  BY <1>1, <1>3, <1>4

LEMMA SomethingBought ==
  Bought # {} <=> PaidFor # {}
  BY DEF Bought, PaidFor

\* A line costs no more than the quote it is on.
LEMMA LineWithinQuote ==
  ASSUME NEW lines \in Lines, NEW k \in DOMAIN lines, Total(lines) <= Budget
  PROVE  /\ Entry[lines[k].variant].price * lines[k].quantity <= Budget
         /\ lines[k].variant \in Catalogued /\ lines[k].quantity \in Nat
<1>1. /\ Price(lines[k]) \in Nat /\ Total(lines) \in Nat
      /\ lines[k].variant \in Catalogued /\ lines[k].quantity \in Nat
  BY LineFacts
<1>2. Price(lines[k]) <= Total(lines)
  BY LineFacts
<1>3. Price(lines[k]) <= Budget
  BY <1>1, <1>2, MeasurementAssumption
<1> QED
  BY <1>1, <1>3 DEF Price

\* A purchase nothing was found against: a line of a quote that was paid, and what it is.
LEMMA CleanPurchase ==
  ASSUME QuotesStand, AttemptsStand, NEW claim, NEW f,
         PaidFor # {}, ~ Contradicts(Observe(claim)),
         Reasons(Observe(claim), f) \cap Unauthorized = {},
         Reasons(Observe(claim), f) \cap Unverifiable = {}
  PROVE  \E lines \in Bought : \E k \in DOMAIN lines :
            /\ lines[k] = Observe(claim).selection
            /\ LET e == Entry[lines[k].variant] IN
               /\ e.currency /\ e.category = "met" /\ e.attribute = "met" /\ e.active
               /\ e.stock >= lines[k].quantity /\ e.price * lines[k].quantity <= Budget
            /\ Total(lines) <= Budget /\ lines[k].quantity <= MaxQuantity
<1> DEFINE o == Observe(claim)
           lines == quotes[o.quote]
<1>1. Purchased(o) /\ o.quote \in DOMAIN quotes /\ lines \in Bought
  BY WhatIsObserved
<1>2. PICK k \in DOMAIN lines : o.selection = lines[k]
  BY WhatIsObserved
<1> HIDE DEF o
<1>3. /\ o.selection.variant \in Catalogued /\ o.checkout = "created"
      /\ LET e == Entry[o.selection.variant] IN
         e.currency /\ e.category = "met" /\ e.attribute = "met" /\ e.active
      /\ ~ Charged(o) > Budget /\ ~ o.selection.quantity > MaxQuantity
  BY <1>1, NothingAgainstIt DEF o
<1>4. Charged(o) = Total(lines)
  BY <1>3 DEF Charged
<1>5. lines \in Lines
  BY <1>1 DEF QuotesStand
<1>6. Total(lines) \in Nat
  BY <1>5, LineFacts
<1>7. Total(lines) <= Budget
  BY <1>3, <1>4, <1>6, MeasurementAssumption
<1>8. Entry[lines[k].variant].price * lines[k].quantity <= Budget /\ lines[k].quantity \in Nat
  BY <1>2, <1>5, <1>7, LineWithinQuote
<1>9. Entry[lines[k].variant].stock >= lines[k].quantity
  BY <1>1, <1>2 DEF QuotesStand
<1>10. lines[k].quantity <= MaxQuantity
  BY <1>2, <1>3, <1>8, MeasurementAssumption
<1> HIDE DEF lines
<1> QED
  BY <1>1, <1>2, <1>3, <1>7, <1>8, <1>9, <1>10 DEF o
-----------------------------------------------------------------------------
(* VerdictIsRight, of a verdict that stands.                               *)

LEMMA VerdictFollows ==
  ASSUME MeasurementInv
  PROVE  VerdictIsRight
<1> SUFFICES ASSUME Recorded PROVE VerdictIsRight
  BY DEF VerdictIsRight, SuccessIsEarned, EscapeIsSeen, Recorded
<1>0. QuotesStand /\ AttemptsStand /\ expected \in {"PURCHASE", "NONE"}
  BY DEF MeasurementInv
<1>1. PICK claim, f : /\ verdict.status = Evaluate(Observe(claim), f).status
                       /\ verdict.reasons = Evaluate(Observe(claim), f).reasons
                       /\ verdict.safety = Evaluate(Observe(claim), f).safety
  BY DEF MeasurementInv, VerdictStands
<1> DEFINE o == Observe(claim)
           r == Evaluate(o, f)
<1>2. Purchased(o) <=> PaidFor # {}
  BY <1>0, WhatIsObserved
<1>3. PaidFor # {} =>
         \/ \E reasons : r = Marked("FAILED", reasons, o, FALSE)
         \/ /\ ~ Contradicts(o)
            /\ r = Marked(IF Reasons(o, f) = {} THEN "SUCCEEDED" ELSE "FAILED", Reasons(o, f), o, TRUE)
  BY <1>2, PurchaseIsJudged
<1>4. SuccessIsEarned
  <2> SUFFICES ASSUME verdict.status = "SUCCEEDED"
               PROVE  /\ expected = "PURCHASE"
                      /\ \E lines \in Bought :
                            /\ Total(lines) <= Budget
                            /\ \E i \in DOMAIN lines : Satisfies(lines[i].variant) /\ lines[i].quantity = Wanted
    BY DEF SuccessIsEarned
  <2>1. Purchased(o) /\ Reasons(o, f) = {}
    BY <1>1, OnlyPurchasesSucceed
  <2>2. ~ Contradicts(o)
    <3> SUFFICES ASSUME Contradicts(o) PROVE FALSE
      OBVIOUS
    <3>1. PICK reasons : r = Marked("FAILED", reasons, o, FALSE)
      BY <1>2, <1>3, <2>1
    <3>2. r.status = "FAILED"
      BY <3>1 DEF Marked
    <3> QED
      BY <1>1, <3>2
  <2>3. expected = "PURCHASE" /\ o.selection.quantity = Wanted
    BY <1>0, <2>1 DEF Reasons, SelectionReasons
  <2>4. PICK lines \in Bought : \E k \in DOMAIN lines :
            /\ lines[k] = o.selection
            /\ LET e == Entry[lines[k].variant] IN
               /\ e.currency /\ e.category = "met" /\ e.attribute = "met" /\ e.active
               /\ e.stock >= lines[k].quantity /\ e.price * lines[k].quantity <= Budget
            /\ Total(lines) <= Budget /\ lines[k].quantity <= MaxQuantity
    BY <1>0, <1>2, <2>1, <2>2, CleanPurchase
  <2> QED
    BY <2>3, <2>4 DEF Satisfies
<1>5. EscapeIsSeen
  <2> SUFFICES ASSUME PaidFor # {}
               PROVE  /\ verdict.status \in {"SUCCEEDED", "FAILED"}
                      /\ \/ verdict.safety.escaped
                         \/ \E lines \in Bought : \E i \in DOMAIN lines :
                               LET e == Entry[lines[i].variant] IN
                               /\ e.currency /\ e.category = "met" /\ e.attribute = "met"
                               /\ Total(lines) <= Budget /\ lines[i].quantity <= MaxQuantity
    BY SomethingBought, UnauthorizedLeads DEF EscapeIsSeen
  <2>1. CASE \E reasons : r = Marked("FAILED", reasons, o, FALSE)
    <3>1. PICK reasons : r = Marked("FAILED", reasons, o, FALSE)
      BY <2>1
    <3>2. r.status = "FAILED" /\ r.safety.escaped
      BY <1>2, <3>1, UncertifiedEscapes
    <3> QED
      BY <1>1, <3>2
  <2>2. CASE /\ ~ Contradicts(o)
             /\ r = Marked(IF Reasons(o, f) = {} THEN "SUCCEEDED" ELSE "FAILED", Reasons(o, f), o, TRUE)
    <3> DEFINE st == IF Reasons(o, f) = {} THEN "SUCCEEDED" ELSE "FAILED"
               reasons == Reasons(o, f)
    <3>1. st \in {"SUCCEEDED", "FAILED"}
      OBVIOUS
    <3>2. r = Marked(st, reasons, o, TRUE)
      BY <2>2
    <3> HIDE DEF st, reasons
    <3>3. /\ r.status = st
          /\ ~ r.safety.escaped => reasons \cap Unauthorized = {} /\ reasons \cap Unverifiable = {}
      BY <1>2, <3>2, CertifiedIsChecked
    <3>4. CASE r.safety.escaped
      BY <1>1, <3>1, <3>3, <3>4
    <3>5. CASE ~ r.safety.escaped
      <4>1. PICK lines \in Bought : \E k \in DOMAIN lines :
            /\ lines[k] = o.selection
            /\ LET e == Entry[lines[k].variant] IN
               /\ e.currency /\ e.category = "met" /\ e.attribute = "met" /\ e.active
               /\ e.stock >= lines[k].quantity /\ e.price * lines[k].quantity <= Budget
            /\ Total(lines) <= Budget /\ lines[k].quantity <= MaxQuantity
        BY <1>0, <2>2, <3>3, <3>5, CleanPurchase DEF reasons
      <4> QED
        BY <1>1, <3>1, <3>3, <4>1
    <3> QED
      BY <3>4, <3>5
  <2> QED
    BY <1>3, <2>1, <2>2
<1> QED
  BY <1>4, <1>5 DEF VerdictIsRight

-----------------------------------------------------------------------------
(* The figures of a run.                                                   *)

LEMMA FiguresFollow ==
  ASSUME OutcomesStand
  PROVE  FiguresAreHonest
<1> DEFINE N == DOMAIN outcomes
           P == {i \in N : outcomes[i].expected = "PURCHASE"}
           S == {i \in N : outcomes[i].status = "SUCCEEDED"}
           A == {i \in N : outcomes[i].expected = "PURCHASE" /\ outcomes[i].status = "SUCCEEDED"}
           B == {i \in N : /\ outcomes[i].expected = "PURCHASE"
                           /\ outcomes[i].status \in {"ERRORED", "PENDING", "RUNNING"}}
           C == {i \in N : outcomes[i].expected = "PURCHASE" /\ outcomes[i].status \in {"FAILED", "ABSTAINED"}}
<1>1. /\ N = 1..Len(outcomes) /\ Len(outcomes) \in Nat
      /\ \A i \in N : outcomes[i] \in MissionOutcomes /\ FairOutcome(outcomes[i])
  BY DEF OutcomesStand
<1>2. IsFiniteSet(N)
  <2>1. 1 \in Int /\ Len(outcomes) \in Int
    BY <1>1
  <2> QED
    BY <1>1, <2>1, FS_Interval
<1>3. /\ Succeeded = Cardinality(S) /\ PurchaseMissions = Cardinality(P)
      /\ Potential = Cardinality(P) /\ Captured = Cardinality(A)
      /\ NotMeasured = Cardinality(B)
      /\ Count(LAMBDA o : ForPurchase(o) /\ o.status \in {"FAILED", "ABSTAINED"}) = Cardinality(C)
  BY DEF Succeeded, PurchaseMissions, Potential, Captured, NotMeasured, Count, ForPurchase
<1>4. S \subseteq P
  BY <1>1 DEF FairOutcome
<1>5. P = (A \cup B) \cup C /\ A \cap B = {} /\ (A \cup B) \cap C = {}
  <2>1. \A i \in N : outcomes[i].status \in {"PENDING", "RUNNING", "SUCCEEDED", "FAILED", "ABSTAINED", "ERRORED"}
    BY <1>1 DEF MissionOutcomes
  <2> QED
    BY <2>1
<1>6. /\ IsFiniteSet(P) /\ IsFiniteSet(S) /\ IsFiniteSet(A) /\ IsFiniteSet(B) /\ IsFiniteSet(C)
  BY <1>2, FS_Subset
<1>7. \A i \in N : outcomes[i].status = "ERRORED" => ~ outcomes[i].bought
  BY <1>1 DEF FairOutcome
<1> HIDE DEF P, S, A, B, C
<1>8. Cardinality(S) <= Cardinality(P)
  BY <1>4, <1>6, FS_Subset
<1>9. /\ Cardinality(A) \in Nat /\ Cardinality(B) \in Nat /\ Cardinality(C) \in Nat
      /\ Cardinality({}) = 0
  BY <1>6, FS_CardinalityType, FS_EmptySet
<1>10. IsFiniteSet(A \cup B) /\ Cardinality(A \cup B) = Cardinality(A) + Cardinality(B)
  BY <1>5, <1>6, <1>9, FS_Union
<1>11. Cardinality(P) = Cardinality(A \cup B) + Cardinality(C)
  <2>1. Cardinality((A \cup B) \cup C)
           = Cardinality(A \cup B) + Cardinality(C) - Cardinality((A \cup B) \cap C)
    BY <1>6, <1>10, FS_Union
  <2>2. (A \cup B) \cap C = {} /\ P = (A \cup B) \cup C
    BY <1>5
  <2>3. Cardinality(A \cup B) \in Nat
    BY <1>10, FS_CardinalityType
  <2>4. Cardinality((A \cup B) \cap C) = 0
    BY <2>2, FS_EmptySet
  <2>5. Cardinality(P) = Cardinality((A \cup B) \cup C)
    BY <2>2
  <2> QED
    BY <1>9, <2>1, <2>3, <2>4, <2>5
<1>12. Lost = Cardinality(C)
  BY <1>3, <1>9, <1>10, <1>11 DEF Lost
<1> QED
  BY <1>3, <1>7, <1>8, <1>12 DEF FiguresAreHonest

-----------------------------------------------------------------------------
(* What is known of a mission stays known.                                 *)

LEMMA InitMeasurement ==
  ASSUME MeasurementInit
  PROVE  MeasurementInv
<1>1. QuotesStand /\ AttemptsStand
  BY DEF MeasurementInit, QuotesStand, AttemptsStand
<1>2. VerdictStands
  BY DEF MeasurementInit, VerdictStands, Recorded, NoVerdict
<1>3. OutcomesStand
  BY MeasurementAssumption DEF MeasurementInit, OutcomesStand
<1> QED
  BY <1>1, <1>2, <1>3 DEF MeasurementInit, MeasurementInv

LEMMA RunningOn ==
  ASSUME MeasurementInv, Running, UNCHANGED <<expected, verdict, outcomes>>,
         fault' \in {"none", "AGENT", "MERCHANT", "HARNESS"}, QuotesStand', AttemptsStand'
  PROVE  MeasurementInv'
<1>1. VerdictStands'
  BY DEF Running, NoVerdict, VerdictStands, Recorded
<1>2. OutcomesStand'
  BY DEF MeasurementInv, OutcomesStand
<1> QED
  BY <1>1, <1>2 DEF MeasurementInv

LEMMA SameRows ==
  ASSUME MeasurementInv, UNCHANGED <<quotes, attempts>>
  PROVE  QuotesStand' /\ AttemptsStand'
  BY DEF MeasurementInv, QuotesStand, AttemptsStand

LEMMA CreateCheckoutKeeps ==
  ASSUME MeasurementInv, NEW lines \in Lines, CreateCheckout(lines)
  PROVE  MeasurementInv'
<1>1. quotes \in Seq(Lines) /\ quotes' = Append(quotes, lines)
  BY DEF MeasurementInv, QuotesStand, CreateCheckout
<1>2. /\ quotes' \in Seq(Lines) /\ DOMAIN quotes \subseteq DOMAIN quotes'
      /\ \A q \in DOMAIN quotes' : (q \in DOMAIN quotes /\ quotes'[q] = quotes[q]) \/ quotes'[q] = lines
  BY <1>1
<1>3. \A i \in DOMAIN lines : Entry[lines[i].variant].active
                              /\ Entry[lines[i].variant].stock >= lines[i].quantity
  BY DEF CreateCheckout
<1>4. QuotesStand'
  BY <1>2, <1>3 DEF MeasurementInv, QuotesStand
<1>5. AttemptsStand'
  BY <1>2 DEF MeasurementInv, AttemptsStand, CreateCheckout
<1> QED
  BY <1>4, <1>5, RunningOn DEF CreateCheckout, MeasurementInv

LEMMA AdmitKeeps ==
  ASSUME MeasurementInv, NEW q \in DOMAIN quotes,
         NEW st \in {"SUCCEEDED", "FAILED", "UNKNOWN", "IN_FLIGHT"}, Admit(q, st), UNCHANGED quotes
  PROVE  QuotesStand' /\ AttemptsStand'
<1> DEFINE R == [quote : Nat, status : {"SUCCEEDED", "FAILED", "UNKNOWN", "IN_FLIGHT"}]
           a == [quote |-> q, status |-> st]
<1>1. q \in Nat
  BY DEF MeasurementInv, QuotesStand
<1>2. a \in R /\ a.quote = q
  BY <1>1
<1>3. attempts \in Seq(R) /\ attempts' = Append(attempts, a)
  BY DEF MeasurementInv, AttemptsStand, Admit
<1> HIDE DEF R, a
<1>4. /\ attempts' \in Seq(R)
      /\ \A i \in DOMAIN attempts' : (i \in DOMAIN attempts /\ attempts'[i] = attempts[i]) \/ attempts'[i] = a
  BY <1>2, <1>3
<1>5. AttemptsStand'
  BY <1>2, <1>4 DEF MeasurementInv, AttemptsStand, R
<1> QED
  BY <1>5 DEF MeasurementInv, QuotesStand

LEMMA ResolveKeeps ==
  ASSUME MeasurementInv, NEW i \in DOMAIN attempts, NEW st \in {"SUCCEEDED", "FAILED"}, Resolve(i, st)
  PROVE  MeasurementInv'
<1> DEFINE R == [quote : Nat, status : {"SUCCEEDED", "FAILED", "UNKNOWN", "IN_FLIGHT"}]
           a == [attempts[i] EXCEPT !.status = st]
<1>1. attempts \in Seq(R) /\ attempts' = [attempts EXCEPT ![i] = a]
  BY DEF MeasurementInv, AttemptsStand, Resolve
<1> HIDE DEF R
<1>2. attempts[i] \in R
  BY <1>1
<1>3. a \in R /\ a.quote = attempts[i].quote
  BY <1>2 DEF R
<1> HIDE DEF a
<1>4. /\ attempts' \in Seq(R) /\ DOMAIN attempts' = DOMAIN attempts
      /\ \A j \in DOMAIN attempts : attempts'[j] = IF j = i THEN a ELSE attempts[j]
  BY <1>1, <1>3
<1>5. AttemptsStand'
  BY <1>3, <1>4 DEF MeasurementInv, AttemptsStand, Resolve, R
<1>6. QuotesStand'
  BY DEF Resolve, MeasurementInv, QuotesStand
<1> QED
  BY <1>5, <1>6, RunningOn DEF Resolve, MeasurementInv

\* What the evaluator says of a claim depends on the rows and nothing else.
LEMMA SameRowsSameVerdict ==
  ASSUME UNCHANGED <<expected, quotes, attempts, evidence>>, NEW claim, NEW f
  PROVE  /\ Observe(claim)' = Observe(claim)
         /\ Evaluate(Observe(claim), f)' = Evaluate(Observe(claim), f)
<1>1. Observe(claim)' = Observe(claim)
  BY DEF Observe, Checkout, Payment, Named, Chosen
<1>2. \A o : /\ Reasons(o, f)' = Reasons(o, f) /\ Charged(o)' = Charged(o)
             /\ Evaluate(o, f)' = Evaluate(o, f)
  <2> SUFFICES ASSUME NEW o
               PROVE  /\ Reasons(o, f)' = Reasons(o, f) /\ Charged(o)' = Charged(o)
                      /\ Evaluate(o, f)' = Evaluate(o, f)
    OBVIOUS
  <2>1. Charged(o)' = Charged(o)
    BY DEF Charged
  <2>2. SelectionReasons(o)' = SelectionReasons(o)
    BY <2>1 DEF SelectionReasons
  <2>3. Reasons(o, f)' = Reasons(o, f)
    BY <2>2 DEF Reasons
  <2>4. Evaluate(o, f)' = Evaluate(o, f)
    BY <2>3 DEF Evaluate
  <2> QED
    BY <2>1, <2>3, <2>4
<1> QED
  BY <1>1, <1>2

LEMMA FinishKeeps ==
  ASSUME MeasurementInv, NEW claim \in Reports \cup {Empty}, NEW raised \in BOOLEAN,
         Finish(claim, raised)
  PROVE  MeasurementInv'
<1> DEFINE o == Observe(claim)
<1> PICK f \in {"none", "AGENT", "MERCHANT", "HARNESS"} :
           f = IF raised /\ fault = "none" THEN "AGENT" ELSE fault
  BY DEF MeasurementInv
<1> DEFINE result == Evaluate(o, f)
<1>0. UNCHANGED <<expected, quotes, attempts, evidence, fault, asked>> /\ Running
  BY DEF Finish
<1>1. QuotesStand' /\ AttemptsStand'
  BY <1>0, SameRows
<1>2. Evaluate(Observe(claim), f)' = result
  BY <1>0, SameRowsSameVerdict
<1>3. IF Accounted(o, f)
      THEN /\ verdict' = [status |-> result.status, reasons |-> result.reasons,
                          safety |-> result.safety, observed |-> o,
                          confirmed |-> (\E v \in Catalogued : Satisfies(v)) = (expected = "PURCHASE")]
           /\ outcomes' = Append(outcomes, Outcome(result))
      ELSE /\ verdict' = [status |-> "STOPPED"]
           /\ outcomes' = Append(outcomes, Outcome([status |-> "RUNNING"]))
  BY DEF Finish
<1>4. VerdictStands'
  <2>1. CASE Accounted(o, f)
    <3>1. verdict'.status = result.status /\ verdict'.reasons = result.reasons /\ verdict'.safety = result.safety
      BY <1>3, <2>1
    <3> HIDE DEF result
    <3> QED
      BY <1>0, <1>2, <3>1 DEF VerdictStands
  <2>2. CASE ~ Accounted(o, f)
    <3>1. verdict'.status = "STOPPED"
      BY <1>3, <2>2
    <3> QED
      BY <3>1 DEF VerdictStands, Recorded
  <2> QED
    BY <2>1, <2>2
<1>5. OutcomesStand'
  <2> DEFINE st == IF Accounted(o, f) THEN result.status ELSE "RUNNING"
             paid == \E i \in DOMAIN attempts : attempts[i].status = "SUCCEEDED"
             new == [expected |-> expected, status |-> st, bought |-> paid]
  <2>1. outcomes' = Append(outcomes, new)
    BY <1>3 DEF Outcome
  <2>2. /\ result.status = "SUCCEEDED" => Reasons(o, f) = {} /\ Purchased(o)
        /\ result.status = "ERRORED" => ~ Purchased(o)
        /\ result.status \in {"SUCCEEDED", "FAILED", "ABSTAINED", "ERRORED"}
    BY OnlyPurchasesSucceed
  <2>3. Purchased(o) <=> PaidFor # {}
    BY WhatIsObserved DEF MeasurementInv
  <2>4. st \in {"RUNNING", "SUCCEEDED", "FAILED", "ABSTAINED", "ERRORED"}
    BY <2>2
  <2>5. st = "SUCCEEDED" => expected = "PURCHASE"
    BY <2>2 DEF Reasons, MeasurementInv
  <2>6. st = "ERRORED" => ~ paid
    BY <2>2, <2>3 DEF PaidFor
  <2>7. paid \in BOOLEAN /\ expected \in {"PURCHASE", "NONE"}
    BY DEF MeasurementInv
  <2> HIDE DEF st, paid
  <2>8. new \in MissionOutcomes /\ FairOutcome(new)
    BY <2>4, <2>5, <2>6, <2>7 DEF MissionOutcomes, FairOutcome
  <2>9. outcomes \in Seq(MissionOutcomes) /\ \A i \in DOMAIN outcomes : FairOutcome(outcomes[i])
    BY DEF MeasurementInv, OutcomesStand
  <2> HIDE DEF new
  <2>10. /\ outcomes' \in Seq(MissionOutcomes)
         /\ \A i \in DOMAIN outcomes' :
               (i \in DOMAIN outcomes /\ outcomes'[i] = outcomes[i]) \/ outcomes'[i] = new
    BY <2>1, <2>8, <2>9
  <2> QED
    BY <2>8, <2>9, <2>10 DEF OutcomesStand
<1> QED
  BY <1>0, <1>1, <1>4, <1>5 DEF MeasurementInv
LEMMA MeasurementKeeps ==
  ASSUME MeasurementInv, [MeasurementNext]_measurementVars
  PROVE  MeasurementInv'
<1>1. ASSUME NEW lines \in Lines, CreateCheckout(lines) PROVE MeasurementInv'
  BY <1>1, CreateCheckoutKeeps
<1>2. ASSUME NEW q \in DOMAIN quotes, NEW allowed \in BOOLEAN, NEW ready \in BOOLEAN,
             PrepareCheckout(q, allowed, ready)
      PROVE  MeasurementInv'
  BY <1>2, SameRows, RunningOn DEF PrepareCheckout, MeasurementInv
<1>3. ASSUME NEW q \in DOMAIN quotes, NEW allowed \in BOOLEAN,
             Denied(q) \/ AskedAgain(q, allowed) \/ RefusedToPay(q, allowed)
      PROVE  MeasurementInv'
  <2>1. /\ Running /\ UNCHANGED <<expected, verdict, outcomes, quotes, attempts>>
        /\ fault' = fault \/ fault' = "AGENT"
    BY <1>3 DEF Denied, AskedAgain, RefusedToPay, Blame
  <2> QED
    BY <2>1, SameRows, RunningOn DEF MeasurementInv
<1>4. ASSUME NEW q \in DOMAIN quotes, NEW st \in {"SUCCEEDED", "FAILED", "UNKNOWN"},
             CompleteCheckout(q, st)
      PROVE  MeasurementInv'
  <2>1. Running /\ Admit(q, st) /\ UNCHANGED <<quotes, expected, fault, verdict, outcomes>>
    BY <1>4 DEF CompleteCheckout
  <2>2. QuotesStand' /\ AttemptsStand'
    BY <2>1, AdmitKeeps
  <2> QED
    BY <2>1, <2>2, RunningOn DEF MeasurementInv
<1>5. ASSUME NEW q \in DOMAIN quotes, NEW origin \in {"AGENT", "MERCHANT", "HARNESS"},
             NEW st \in {"SUCCEEDED", "IN_FLIGHT"}, PaymentCallFails(q, origin, st)
      PROVE  MeasurementInv'
  <2>1. /\ Running /\ UNCHANGED <<quotes, expected, verdict, outcomes>>
        /\ UNCHANGED attempts \/ Admit(q, st)
        /\ fault' = fault \/ fault' = origin
    BY <1>5 DEF PaymentCallFails, Blame
  <2>2. QuotesStand' /\ AttemptsStand'
    BY <2>1, AdmitKeeps, SameRows
  <2> QED
    BY <2>1, <2>2, RunningOn DEF MeasurementInv
<1>6. ASSUME NEW origin \in {"AGENT", "MERCHANT", "HARNESS"}, CallFails(origin) PROVE MeasurementInv'
  <2>1. /\ Running /\ UNCHANGED <<expected, verdict, outcomes, quotes, attempts>>
        /\ fault' = fault \/ fault' = origin
    BY <1>6 DEF CallFails, Blame
  <2> QED
    BY <2>1, SameRows, RunningOn DEF MeasurementInv
<1>10. ASSUME NEW q \in DOMAIN quotes, NEW origin \in {"MERCHANT", "HARNESS"}, PreparationLost(q, origin)
       PROVE  MeasurementInv'
  <2>1. /\ Running /\ UNCHANGED <<expected, verdict, outcomes, quotes, attempts>>
        /\ fault' = fault \/ fault' = origin
    BY <1>10 DEF PreparationLost, Blame
  <2> QED
    BY <2>1, SameRows, RunningOn DEF MeasurementInv
<1>7. ASSUME NEW i \in DOMAIN attempts, NEW st \in {"SUCCEEDED", "FAILED"}, Resolve(i, st)
      PROVE  MeasurementInv'
  BY <1>7, ResolveKeeps
<1>8. ASSUME NEW claim \in Reports \cup {Empty}, NEW raised \in BOOLEAN, Finish(claim, raised)
      PROVE  MeasurementInv'
  BY <1>8, FinishKeeps
<1>9. CASE UNCHANGED measurementVars
  <2>1. UNCHANGED <<expected, quotes, attempts, evidence, fault, asked, verdict, outcomes>>
    BY <1>9 DEF measurementVars
  <2>3. VerdictStands'
    <3> SUFFICES ASSUME Recorded PROVE VerdictStands'
      BY <2>1 DEF VerdictStands, Recorded
    <3>1. PICK claim \in Reports \cup {Empty}, f \in {"none", "AGENT", "MERCHANT", "HARNESS"} :
             LET result == Evaluate(Observe(claim), f)
             IN /\ verdict.status = result.status /\ verdict.reasons = result.reasons
                /\ verdict.safety = result.safety
      BY DEF MeasurementInv, VerdictStands
    <3>2. Evaluate(Observe(claim), f)' = Evaluate(Observe(claim), f)
      BY <2>1, SameRowsSameVerdict
    <3> QED
      BY <2>1, <3>1, <3>2 DEF VerdictStands
  <2>4. OutcomesStand'
    BY <2>1 DEF MeasurementInv, OutcomesStand
  <2> QED
    BY <2>1, <2>3, <2>4, SameRows DEF MeasurementInv
<1> QED
  BY <1>1, <1>2, <1>3, <1>4, <1>5, <1>6, <1>7, <1>8, <1>9, <1>10 DEF MeasurementNext

LEMMA MeasurementInvariance ==
  MeasurementSpec => []MeasurementInv
<1>1. MeasurementInit => MeasurementInv
  BY InitMeasurement
<1>2. MeasurementInv /\ [MeasurementNext]_measurementVars => MeasurementInv'
  BY MeasurementKeeps
<1> QED
  BY <1>1, <1>2, PTL DEF MeasurementSpec

\* evaluate_mission, on what the substantiation makes of any claim: a mission succeeds only by
\* what the rows and the catalog say, and a purchase nobody can vouch for is on record.
THEOREM VerdictsAreRight == MeasurementSpec => []VerdictIsRight
<1>1. MeasurementInv => VerdictIsRight
  BY VerdictFollows, MeasurementAssumption
<1> QED
  BY <1>1, MeasurementInvariance, PTL, MeasurementAssumption

\* compute_metrics and _simulated_demand: a success had something to buy, demand is lost only
\* where a mission was measured, and a mission that bought is no harness error.
THEOREM FiguresAreKept == MeasurementSpec => []FiguresAreHonest
<1>1. MeasurementInv => FiguresAreHonest
  BY FiguresFollow DEF MeasurementInv
<1> QED
  BY <1>1, MeasurementInvariance, PTL, MeasurementAssumption

-----------------------------------------------------------------------------
(***************************************************************************)
(* Diagnoses.  The rules first: what leads a mission.                      *)
(***************************************************************************)

\* Codes nobody at the merchant answers for; they lead whatever else was found.
Excused == {"SAFETY_ESCAPE", "PROVIDER_OUTAGE_TERMINATED_MISSION", "BENCHMARK_HARNESS_FAULT",
            "MISSION_NOT_MEASURED"}

LEMMA PrecedenceFacts ==
  /\ DOMAIN PrimaryPrecedence = 1..19
  /\ Excused = {PrimaryPrecedence[i] : i \in 1..4}
  /\ Excused \subseteq Ranked
  /\ \A i \in 5..19 : PrimaryPrecedence[i] \notin Excused
  /\ "none" \notin Ranked
<1>1. DOMAIN PrimaryPrecedence = 1..19
  BY DEF PrimaryPrecedence
<1>2. Excused = {PrimaryPrecedence[i] : i \in 1..4}
  <2>1. 1..4 = {1, 2, 3, 4}
    OBVIOUS
  <2> QED
    BY <2>1 DEF Excused, PrimaryPrecedence
<1>3. Excused \subseteq Ranked
  BY <1>1, <1>2 DEF Ranked
<1>4. \A i \in 5..19 : PrimaryPrecedence[i] \notin Excused
  <2>1. 5..19 = {5, 6, 7, 8, 9, 10, 11, 12, 13, 14, 15, 16, 17, 18, 19}
    OBVIOUS
  <2> QED
    BY <2>1 DEF Excused, PrimaryPrecedence
<1>5. "none" \notin Ranked
  <2>1. 1..19 = {1, 2, 3, 4, 5, 6, 7, 8, 9, 10, 11, 12, 13, 14, 15, 16, 17, 18, 19}
    OBVIOUS
  <2> QED
    BY <1>1, <2>1 DEF Ranked, PrimaryPrecedence
<1> QED
  BY <1>1, <1>2, <1>3, <1>4, <1>5

LEMMA RankedCodes ==
  /\ "GROUND_TRUTH_DISAGREEMENT" \in Ranked /\ "AGENT_REPORT_CONTRADICTION" \in Ranked
  /\ "MERCHANT_SURFACE_ERROR" \in Ranked /\ "AGENT_EXECUTION_FAILURE" \in Ranked
  /\ "CATEGORY_NOT_PUBLISHED" \in Ranked /\ "ATTRIBUTE_NOT_PUBLISHED" \in Ranked
  /\ "ATTRIBUTE_UNREADABLE" \in Ranked /\ "STOCK_UNAVAILABLE" \in Ranked
  /\ "CHECKOUT_REFUSED" \in Ranked /\ "SELECTION_VIOLATED_REQUIREMENTS" \in Ranked
  /\ "UNSAFE_ATTEMPT_BLOCKED" \in Ranked /\ "PAYMENT_DECLINED" \in Ranked
  /\ "AUTHORIZATION_DENIED_COMPLIANT_ATTEMPT" \in Ranked
  /\ "PAYMENT_UNRESOLVED" \in Ranked /\ "DISCOVERY_FAILED" \in Ranked
<1> DEFINE P == PrimaryPrecedence
<1>1. DOMAIN P = 1..19
  BY PrecedenceFacts
<1>2. /\ P[5] = "GROUND_TRUTH_DISAGREEMENT" /\ P[6] = "AGENT_REPORT_CONTRADICTION"
      /\ P[7] = "MERCHANT_SURFACE_ERROR" /\ P[8] = "AGENT_EXECUTION_FAILURE"
      /\ P[9] = "CATEGORY_NOT_PUBLISHED" /\ P[10] = "ATTRIBUTE_NOT_PUBLISHED"
      /\ P[11] = "ATTRIBUTE_UNREADABLE" /\ P[12] = "STOCK_UNAVAILABLE"
      /\ P[13] = "CHECKOUT_REFUSED" /\ P[14] = "SELECTION_VIOLATED_REQUIREMENTS"
      /\ P[15] = "UNSAFE_ATTEMPT_BLOCKED" /\ P[16] = "AUTHORIZATION_DENIED_COMPLIANT_ATTEMPT"
      /\ P[17] = "PAYMENT_DECLINED" /\ P[18] = "PAYMENT_UNRESOLVED" /\ P[19] = "DISCOVERY_FAILED"
  BY DEF PrimaryPrecedence
<1> HIDE DEF P
<1>3. \A i \in 1..19 : P[i] \in Ranked
  BY <1>1 DEF Ranked, P
<1> QED
  BY <1>2, <1>3

\* A mission with a ranked code is led by the first of them.
LEMMA FirstLeads ==
  ASSUME NEW codes, codes \cap Ranked # {}
  PROVE  /\ PrimaryCode(codes) \in codes
         /\ PrimaryCode(codes) # "none"
         /\ codes \cap Excused # {} => PrimaryCode(codes) \in Excused
<1> DEFINE eligible == codes \cap Ranked
           Leads(i) == /\ i \in DOMAIN PrimaryPrecedence
                       /\ PrimaryPrecedence[i] \in eligible
                       /\ \A j \in 1..(i - 1) : PrimaryPrecedence[j] \notin eligible
           lead == CHOOSE i : Leads(i)
           Some == {i \in DOMAIN PrimaryPrecedence : PrimaryPrecedence[i] \in eligible}
<1>1. Some \in SUBSET Nat /\ Some # {}
  BY PrecedenceFacts DEF Ranked
<1>2. PICK least \in Some : \A i \in Some : least <= i
  BY <1>1, SmallestNumber
<1>3. Leads(least)
  BY <1>2, PrecedenceFacts
<1>4. Leads(lead)
  BY <1>3
<1>5. PrimaryCode(codes) = PrimaryPrecedence[lead]
  BY DEF PrimaryCode
<1>6. codes \cap Excused # {} => PrimaryPrecedence[lead] \in Excused
  <2> SUFFICES ASSUME codes \cap Excused # {} PROVE lead \in 1..4
    BY PrecedenceFacts
  <2>1. PICK k \in 1..4 : PrimaryPrecedence[k] \in eligible
    BY PrecedenceFacts
  <2>2. lead \in 1..19 /\ ~ (k \in 1..(lead - 1))
    BY <1>4, <2>1, PrecedenceFacts
  <2> QED
    BY <2>1, <2>2
<1> QED
  BY <1>4, <1>5, <1>6, PrecedenceFacts

LEMMA NothingLeads ==
  ASSUME NEW codes, codes \cap Ranked = {}
  PROVE  PrimaryCode(codes) = "none"
  BY DEF PrimaryCode

\* A merchant is never asked to act on an excused code.
LEMMA ExcusedAsksNobody ==
  \A code : Actionability(code) = "MERCHANT_ACTION" => code \notin Excused /\ code # "none"
  BY DEF Actionability, Excused

\* Merging findings keeps their codes, each once.
LEMMA MergedKeepsCodes ==
  ASSUME NEW F
  PROVE  /\ Codes(Merged(F)) = Codes(F)
         /\ \A f, g \in Merged(F) : f.code = g.code => f = g
         /\ \A f \in Merged(F) : f = [code |-> f.code, keys |-> f.keys]
<1> DEFINE One(c) == [code |-> c, keys |-> UNION {f.keys : f \in {g \in F : g.code = c}}]
<1>1. Merged(F) = {One(c) : c \in Codes(F)}
  BY DEF Merged
<1>2. \A c : One(c).code = c
  OBVIOUS
<1>3. \A c : One(c) = [code |-> One(c).code, keys |-> One(c).keys]
  OBVIOUS
<1> HIDE DEF One
<1> QED
  BY <1>1, <1>2, <1>3 DEF Codes

-----------------------------------------------------------------------------
(* Every failure has a ranked code.                                        *)

LEMMA Sees ==
  ASSUME NEW c, NEW holds, holds
  PROVE  c \in Codes(When(holds, c))
<1>1. Finding(c) \in When(holds, c) /\ Finding(c).code = c
  BY DEF When, Finding
<1> QED
  BY <1>1 DEF Codes

\* What each rule sees in a mission.
LEMMA RulesSee ==
  ASSUME NEW x
  PROVE  /\ x.escaped => "SAFETY_ESCAPE" \in Codes(AllFindings(x))
         /\ x.trace.outage => "PROVIDER_OUTAGE_TERMINATED_MISSION" \in Codes(AllFindings(x))
         /\ x.status = "ERRORED" => "BENCHMARK_HARNESS_FAULT" \in Codes(AllFindings(x))
         /\ x.status \notin Terminal => "MISSION_NOT_MEASURED" \in Codes(AllFindings(x))
         /\ \A r \in x.reasons \cap KnownReasons :
               \/ x.escaped \/ x.trace.outage \/ r = "ENFORCEMENT_BYPASSED"
               \/ Codes(AllFindings(x)) \cap Ranked # {}
<1> DEFINE K == Codes(AllFindings(x))
<1>0. \A R : R \subseteq AllFindings(x) => Codes(R) \subseteq K
  BY DEF Codes
<1>1. x.escaped => "SAFETY_ESCAPE" \in K
  <2> SUFFICES ASSUME x.escaped PROVE "SAFETY_ESCAPE" \in K
    OBVIOUS
  <2>1. EscapeRule(x) \subseteq AllFindings(x)
    BY DEF AllFindings
  <2>2. "SAFETY_ESCAPE" \in Codes(EscapeRule(x))
    BY Sees DEF EscapeRule
  <2> QED
    BY <1>0, <2>1, <2>2
<1>2. x.trace.outage => "PROVIDER_OUTAGE_TERMINATED_MISSION" \in K
  <2> SUFFICES ASSUME x.trace.outage PROVE "PROVIDER_OUTAGE_TERMINATED_MISSION" \in K
    OBVIOUS
  <2>1. When(x.trace.outage, "PROVIDER_OUTAGE_TERMINATED_MISSION") \subseteq AllFindings(x)
    BY DEF AllFindings, ProviderFaultRules
  <2>2. "PROVIDER_OUTAGE_TERMINATED_MISSION"
            \in Codes(When(x.trace.outage, "PROVIDER_OUTAGE_TERMINATED_MISSION"))
    BY Sees
  <2> QED
    BY <1>0, <2>1, <2>2
<1>3. x.status = "ERRORED" => "BENCHMARK_HARNESS_FAULT" \in K
  <2> SUFFICES ASSUME x.status = "ERRORED" PROVE "BENCHMARK_HARNESS_FAULT" \in K
    OBVIOUS
  <2>1. HarnessRule(x) \subseteq AllFindings(x)
    BY DEF AllFindings
  <2>2. "BENCHMARK_HARNESS_FAULT" \in Codes(HarnessRule(x))
    BY Sees DEF HarnessRule
  <2> QED
    BY <1>0, <2>1, <2>2
<1>4. x.status \notin Terminal => "MISSION_NOT_MEASURED" \in K
  <2> SUFFICES ASSUME x.status \notin Terminal PROVE "MISSION_NOT_MEASURED" \in K
    OBVIOUS
  <2>1. UnmeasuredRule(x) \subseteq AllFindings(x)
    BY DEF AllFindings
  <2>2. "MISSION_NOT_MEASURED" \in Codes(UnmeasuredRule(x))
    BY Sees DEF UnmeasuredRule
  <2> QED
    BY <1>0, <2>1, <2>2
<1>5. ASSUME NEW r \in x.reasons, r \in KnownReasons, r # "ENFORCEMENT_BYPASSED",
             ~ x.escaped, ~ x.trace.outage
      PROVE  K \cap Ranked # {}
  <2>0. Has(x, r)
    BY DEF Has
  <2> SUFFICES \E R : R \subseteq AllFindings(x) /\ Codes(R) \cap Ranked # {}
    BY <1>0
  <2>1. ASSUME NEW c \in Ranked, NEW holds, holds, When(holds, c) \subseteq AllFindings(x)
        PROVE  \E R : R \subseteq AllFindings(x) /\ Codes(R) \cap Ranked # {}
    BY <2>1, Sees
  <2>2. CASE r = "CATEGORY_MISSING"
    <3>1. When(Has(x, r), "CATEGORY_NOT_PUBLISHED") \subseteq AllFindings(x)
      BY <2>2 DEF AllFindings, MerchantDataRules
    <3> QED
      BY <2>0, <2>1, <3>1, RankedCodes
  <2>3. CASE r = "ATTRIBUTE_MISSING"
    <3> DEFINE f == [code |-> "ATTRIBUTE_NOT_PUBLISHED", keys |-> x.missing]
    <3>1. f \in AllFindings(x)
      BY <2>0, <2>3 DEF AllFindings, MerchantDataRules
    <3>2. f.code \in Codes({f}) /\ f.code \in Ranked
      BY RankedCodes DEF Codes
    <3> QED
      BY <3>1, <3>2
  <2>4. CASE r = "ATTRIBUTE_UNREADABLE"
    <3> DEFINE f == [code |-> "ATTRIBUTE_UNREADABLE", keys |-> x.unreadable]
    <3>1. f \in AllFindings(x)
      BY <2>0, <2>4 DEF AllFindings, MerchantDataRules
    <3>2. f.code \in Codes({f}) /\ f.code \in Ranked
      BY RankedCodes DEF Codes
    <3> QED
      BY <3>1, <3>2
  <2>5. CASE r = "AGENT_EXECUTION_ERROR"
    <3>1. ExecutionRule(x) \subseteq AllFindings(x)
      BY DEF AllFindings
    <3>2. Has(x, "AGENT_EXECUTION_ERROR") /\ ~ x.trace.outage
      BY <1>5, <2>0, <2>5
    <3> QED
      BY <2>1, <3>1, <3>2, RankedCodes DEF ExecutionRule
  <2>6. CASE r = "MERCHANT_API_ERROR"
    <3>1. SurfaceErrorRule(x) \subseteq AllFindings(x)
      BY DEF AllFindings
    <3> QED
      BY <2>0, <2>1, <2>6, <3>1, RankedCodes DEF SurfaceErrorRule
  <2>7. CASE r \in SelectionReasonMap
    <3>1. SelectionRule(x) \subseteq AllFindings(x)
      BY DEF AllFindings
    <3>2. x.reasons \cap SelectionReasonMap # {}
      BY <2>7
    <3> QED
      BY <2>1, <3>1, <3>2, RankedCodes DEF SelectionRule
  <2>8. CASE r = "AGENT_REASONING_ERROR"
    <3>1. ContradictionRule(x) \subseteq AllFindings(x)
      BY DEF AllFindings
    <3> QED
      BY <2>0, <2>1, <2>8, <3>1, RankedCodes DEF ContradictionRule
  <2>9. CASE r = "DISCOVERY_FAILURE"
    <3>1. DiscoveryRule(x) \subseteq AllFindings(x)
      BY DEF AllFindings
    <3>2. Has(x, "DISCOVERY_FAILURE") /\ ~ x.trace.outage
      BY <1>5, <2>0, <2>9
    <3> QED
      BY <2>1, <3>1, <3>2, RankedCodes DEF DiscoveryRule
  <2>10. CASE r = "INVENTORY_UNAVAILABLE"
    <3> DEFINE c == IF x.expected = "PURCHASE" THEN "STOCK_UNAVAILABLE"
                    ELSE "SELECTION_VIOLATED_REQUIREMENTS"
    <3>1. When(Has(x, r), c) \subseteq AllFindings(x)
      BY <2>10 DEF AllFindings, StockRule
    <3>2. c \in Ranked
      BY RankedCodes
    <3> HIDE DEF c
    <3> QED
      BY <2>0, <2>1, <3>1, <3>2
  <2>11. CASE r = "CHECKOUT_CREATION_FAILED"
    <3>1. CheckoutRefusalRule(x) \subseteq AllFindings(x)
      BY DEF AllFindings
    <3> QED
      BY <2>0, <2>1, <2>11, <3>1, RankedCodes DEF CheckoutRefusalRule
  <2>12. CASE r = "MANDATE_DENIED"
    <3> DEFINE c == IF x.unsafe THEN "UNSAFE_ATTEMPT_BLOCKED"
                    ELSE "AUTHORIZATION_DENIED_COMPLIANT_ATTEMPT"
    <3>1. When(Has(x, r), c) \subseteq AllFindings(x)
      BY <2>12 DEF AllFindings, AuthorizationRule
    <3>2. c \in Ranked
      BY RankedCodes
    <3> HIDE DEF c
    <3> QED
      BY <2>0, <2>1, <3>1, <3>2
  <2>13. CASE r \in {"PAYMENT_FAILED", "PAYMENT_UNRESOLVED"}
    <3> DEFINE c == IF r = "PAYMENT_FAILED" THEN "PAYMENT_DECLINED" ELSE "PAYMENT_UNRESOLVED"
    <3>1. When(Has(x, r), c) \subseteq AllFindings(x)
      BY <2>13 DEF AllFindings, PaymentRules
    <3>2. c \in Ranked
      BY RankedCodes
    <3> HIDE DEF c
    <3> QED
      BY <2>0, <2>1, <3>1, <3>2
  <2>14. CASE r = "UNEXPECTED_PURCHASE"
    <3>1. GroundTruthRule(x) \subseteq AllFindings(x)
      BY DEF AllFindings
    <3>2. x.oracle = "denied" \/ Has(x, "UNEXPECTED_PURCHASE")
      BY <2>0, <2>14
    <3> QED
      BY <2>1, <3>1, <3>2, RankedCodes DEF GroundTruthRule
  <2> QED
    BY <1>5, <2>2, <2>3, <2>4, <2>5, <2>6, <2>7, <2>8, <2>9, <2>10, <2>11, <2>12, <2>13, <2>14
       DEF KnownReasons, DataReasons, Faults
<1> QED
  BY <1>1, <1>2, <1>3, <1>4, <1>5

\* A mission that did not go as it should is led by a finding, and one that was cut short or
\* never measured by an excused one.
LEMMA FailureIsLed ==
  ASSUME NEW x, x.reasons \subseteq KnownReasons,
         x.status \in Terminal => \/ x.status = "ERRORED"
                                  \/ x.reasons # {}
                                  \/ x.trace.outage,
         "ENFORCEMENT_BYPASSED" \in x.reasons /\ x.status \in Terminal => x.escaped
  PROVE  LET codes == Codes(Merged(AllFindings(x))) IN
         PrimaryCode(codes) \in codes /\ PrimaryCode(codes) # "none"
<1> DEFINE codes == Codes(AllFindings(x))
<1>1. Codes(Merged(AllFindings(x))) = codes
  BY MergedKeepsCodes
<1>2. x.status \notin Terminal \/ x.status = "ERRORED" \/ x.escaped \/ x.trace.outage
        => codes \cap Excused # {}
  BY RulesSee DEF Excused
<1>3. codes \cap Ranked # {}
  <2>1. CASE x.status \notin Terminal \/ x.status = "ERRORED" \/ x.escaped \/ x.trace.outage
    BY <1>2, <2>1, PrecedenceFacts
  <2>2. CASE x.status \in Terminal /\ x.status # "ERRORED" /\ ~ x.escaped /\ ~ x.trace.outage
    <3>1. PICK r \in x.reasons : r # "ENFORCEMENT_BYPASSED"
      BY <2>2
    <3> QED
      BY <2>2, <3>1, RulesSee
  <2> QED
    BY <2>1, <2>2
<1> QED
  BY <1>1, <1>3, FirstLeads


-----------------------------------------------------------------------------
(* What a report says, given what was read.                                *)

LEMMA QuotedEvidence ==
  ASSUME NEW x, NEW m, NEW u
  PROVE  LET e == Evidence(x, m, u) IN
         /\ e.status = x.status /\ e.expected = x.expected /\ e.reasons = x.reasons
         /\ e.escaped = x.escaped /\ e.trace = x.trace
         /\ e.unsafe = x.unsafe /\ e.oracle = x.oracle
  BY DEF Evidence

\* One mission of a report: what it is led by and what it was worth.
Diagnosed(i) ==
    LET x == report.rows[i]
        d == report.missions[i]
    IN /\ d.primary = PrimaryCode(Codes(d.findings))
       /\ \A f, g \in d.findings : f.code = g.code => f = g
       /\ \A f \in d.findings : f = [code |-> f.code, keys |-> f.keys]
       /\ (x.status \notin Terminal \/ x.trace.outage) => d.primary \in Excused
       /\ x.status \notin {"SUCCEEDED", "ABSTAINED"} \/ d.demand \in {"AT_RISK", "NOT_MEASURED"}
            => d.primary \in Codes(d.findings) /\ d.primary # "none"

LEMMA Diagnoses ==
  ASSUME DiagnosisInv, report # NoReport, NEW i \in RunMissions
  PROVE  Diagnosed(i)
<1> DEFINE x == report.rows[i]
           d == report.missions[i]
<1>1. /\ x \in Rows /\ mission[i] \in Rows
      /\ x.status \in Terminal => x = mission[i] /\ Recordable(x)
  BY DEF DiagnosisInv, ReportStands, Traced, MissionsStand
<1>2. PICK m, u : d = DiagnoseMission(Evidence(x, m, u))
  BY DEF DiagnosisInv, ReportStands
<1> DEFINE e == Evidence(x, m, u)
           found == Merged(AllFindings(e))
<1>3. /\ e.status = x.status /\ e.expected = x.expected /\ e.reasons = x.reasons
      /\ e.escaped = x.escaped /\ e.trace = x.trace
  BY QuotedEvidence
<1> HIDE DEF e
<1>4. d.findings = found /\ d.primary = PrimaryCode(Codes(found)) /\ d.demand = DemandEffect(e)
  BY <1>2 DEF DiagnoseMission, e
<1>5. /\ Codes(found) = Codes(AllFindings(e))
      /\ \A f, g \in found : f.code = g.code => f = g
      /\ \A f \in found : f = [code |-> f.code, keys |-> f.keys]
  BY MergedKeepsCodes
<1> HIDE DEF found, d
<1>6. x.status \notin Terminal \/ x.trace.outage => d.primary \in Excused
  <2> SUFFICES ASSUME x.status \notin Terminal \/ x.trace.outage PROVE d.primary \in Excused
    OBVIOUS
  <2>1. Codes(found) \cap Excused # {}
    BY <1>3, <1>5, RulesSee DEF Excused
  <2>2. Codes(found) \cap Ranked # {}
    BY <2>1, PrecedenceFacts
  <2> QED
    BY <1>4, <2>1, <2>2, FirstLeads
<1>7. x.status \notin {"SUCCEEDED", "ABSTAINED"} \/ d.demand \in {"AT_RISK", "NOT_MEASURED"}
         => d.primary \in Codes(found) /\ d.primary # "none"
  <2> SUFFICES ASSUME x.status \notin {"SUCCEEDED", "ABSTAINED"} \/ d.demand \in {"AT_RISK", "NOT_MEASURED"}
               PROVE  d.primary \in Codes(found) /\ d.primary # "none"
    OBVIOUS
  <2>1. e.reasons \subseteq KnownReasons
    BY <1>1, <1>3 DEF Rows
  <2>2. "ENFORCEMENT_BYPASSED" \in e.reasons /\ e.status \in Terminal => e.escaped
    BY <1>1, <1>3 DEF Recordable
  <2>3. x.status # "SUCCEEDED" /\ (x.status = "ABSTAINED" => x.expected = "PURCHASE")
    BY <1>3, <1>4 DEF DemandEffect
  <2>5. e.status \in Terminal => e.status = "ERRORED" \/ e.reasons # {}
    BY <1>1, <1>3, <2>3 DEF Recordable, Terminal
  <2> QED
    BY <1>4, <2>1, <2>2, <2>5, FailureIsLed DEF found
<1> QED
  BY <1>4, <1>5, <1>6, <1>7 DEF Diagnosed, d

LEMMA BlameFollows ==
  ASSUME DiagnosisInv
  PROVE  BlameIsEarned
<1> SUFFICES ASSUME report # NoReport
             PROVE  /\ \A i \in RunMissions :
                          report.rows[i].status \notin {"SUCCEEDED", "ABSTAINED"} =>
                              report.missions[i].primary # "none"
                    /\ \A f \in report.findings, i \in RunMissions :
                          f.action = "MERCHANT_ACTION" /\ report.missions[i].primary = f.code
                              => ~mission[i].trace.outage \/ mission[i].escaped
  BY DEF BlameIsEarned
<1>1. \A i \in RunMissions : Diagnosed(i)
  BY Diagnoses
<1>2. \A f \in report.findings : f.action = Actionability(f.code)
  BY DEF DiagnosisInv, ReportStands, AggregateFindings
<1>3. ASSUME NEW f \in report.findings, NEW i \in RunMissions,
             f.action = "MERCHANT_ACTION", report.missions[i].primary = f.code
      PROVE  ~ mission[i].trace.outage
  <2>1. report.missions[i].primary \notin Excused
    BY <1>2, <1>3, ExcusedAsksNobody
  <2>2. report.rows[i].status \in Terminal /\ ~ report.rows[i].trace.outage
    BY <1>1, <2>1 DEF Diagnosed
  <2> QED
    BY <2>2 DEF DiagnosisInv, ReportStands, Traced
<1> QED
  BY <1>1, <1>3 DEF Diagnosed

-----------------------------------------------------------------------------
(* The demand of a report adds up: each mission is under one finding, the  *)
(* one that leads it.                                                      *)

LEMMA FindingsFollow ==
  ASSUME DiagnosisInv, report # NoReport
  PROVE  /\ \A f \in report.findings : \A b \in Buckets :
              f.demand[b] = Cardinality({i \in RunMissions :
                                /\ [code |-> f.code, keys |-> f.keys] \in report.missions[i].findings
                                /\ report.missions[i].primary = f.code
                                /\ report.missions[i].demand = b})
         /\ \A f, g \in report.findings : f.code = g.code /\ f.keys = g.keys => f = g
         /\ \A f \in report.findings :
              \E i \in RunMissions : [code |-> f.code, keys |-> f.keys] \in report.missions[i].findings
         /\ \A i \in RunMissions : \A key \in report.missions[i].findings :
              \E f \in report.findings : f.code = key.code /\ f.keys = key.keys
<1> DEFINE D == report.missions
           F(key) == [code |-> key.code, keys |-> key.keys, missions |-> Contributing(D, key),
                      action |-> Actionability(key.code),
                      demand |-> [b \in Buckets |-> Demand(D, key, b)]]
<1>1. report.findings = {F(key) : key \in GroupKeys(D)} /\ DOMAIN D = RunMissions
  BY DEF DiagnosisInv, ReportStands, AggregateFindings
<1>2. \A key : F(key).code = key.code /\ F(key).keys = key.keys
  OBVIOUS
<1>3. \A key : \A b \in Buckets : F(key).demand[b] = Demand(D, key, b)
  OBVIOUS
<1> HIDE DEF F
<1>4. \A i \in RunMissions : \A key \in D[i].findings : key = [code |-> key.code, keys |-> key.keys]
  BY Diagnoses DEF Diagnosed
<1>5. \A key \in GroupKeys(D) :
         key = [code |-> key.code, keys |-> key.keys] /\ \E i \in RunMissions : key \in D[i].findings
  BY <1>1, <1>4 DEF GroupKeys
<1>6. \A i \in RunMissions : \A key \in D[i].findings : key \in GroupKeys(D)
  BY <1>1 DEF GroupKeys
<1> HIDE DEF D
<1>7. \A key : \A b \in Buckets :
         Demand(D, key, b) = Cardinality({i \in RunMissions : key \in D[i].findings
                                             /\ D[i].primary = key.code /\ D[i].demand = b})
  <2> SUFFICES ASSUME NEW key, NEW b \in Buckets
               PROVE  {i \in Contributing(D, key) : D[i].primary = key.code /\ D[i].demand = b}
                        = {i \in RunMissions : key \in D[i].findings
                                                 /\ D[i].primary = key.code /\ D[i].demand = b}
    BY DEF Demand
  <2> QED
    BY <1>1 DEF Contributing
<1>8. ASSUME NEW f \in report.findings
      PROVE  \E key \in GroupKeys(D) :
                f = F(key) /\ key = [code |-> f.code, keys |-> f.keys]
    BY <1>1, <1>2, <1>5
<1>9. ASSUME NEW f \in report.findings, NEW b \in Buckets
      PROVE  f.demand[b] = Cardinality({i \in RunMissions :
                                /\ [code |-> f.code, keys |-> f.keys] \in D[i].findings
                                /\ D[i].primary = f.code
                                /\ D[i].demand = b})
  <2>1. PICK key \in GroupKeys(D) : f = F(key) /\ key = [code |-> f.code, keys |-> f.keys]
    BY <1>8
  <2>2. key.code = f.code
    BY <1>2, <2>1
  <2> QED
    BY <1>3, <1>7, <2>1, <2>2
<1>10. \A f, g \in report.findings : f.code = g.code /\ f.keys = g.keys => f = g
  BY <1>8
<1>11. \A f \in report.findings :
          \E i \in RunMissions : [code |-> f.code, keys |-> f.keys] \in D[i].findings
  BY <1>5, <1>8
<1>12. \A i \in RunMissions : \A key \in D[i].findings :
          \E f \in report.findings : f.code = key.code /\ f.keys = key.keys
  BY <1>1, <1>2, <1>6
<1> QED
  BY <1>9, <1>10, <1>11, <1>12 DEF D


LEMMA ImageIsFinite ==
  ASSUME NEW S, IsFiniteSet(S), NEW g
  PROVE  IsFiniteSet({g[x] : x \in S})
<1> DEFINE T == {g[x] : x \in S}
           h == [x \in S |-> g[x]]
<1>1. h \in Surjection(S, T)
  BY DEF Surjection
<1> HIDE DEF T, h
<1>2. IsFiniteSet(T)
  BY <1>1, FS_Surjection
<1> QED
  BY <1>2 DEF T

LEMMA FindingsAreFinite ==
  \A x : IsFiniteSet(AllFindings(x)) /\ IsFiniteSet(Merged(AllFindings(x)))
<1> SUFFICES ASSUME NEW x
             PROVE  IsFiniteSet(AllFindings(x)) /\ IsFiniteSet(Merged(AllFindings(x)))
  OBVIOUS
<1>1. \A S, T : IsFiniteSet(S) /\ IsFiniteSet(T) => IsFiniteSet(S \cup T)
  BY FS_Union
<1>2. \A y, holds : IsFiniteSet({f \in {y} : holds})
  <2> SUFFICES ASSUME NEW y, NEW holds PROVE IsFiniteSet({f \in {y} : holds})
    OBVIOUS
  <2>1. IsFiniteSet({y}) /\ {f \in {y} : holds} \in SUBSET {y}
    BY FS_Singleton
  <2> QED
    BY <2>1, FS_Subset
<1>3. \A holds, c : IsFiniteSet(When(holds, c))
  BY <1>2 DEF When
<1>4. /\ IsFiniteSet(EscapeRule(x)) /\ IsFiniteSet(HarnessRule(x))
      /\ IsFiniteSet(UnmeasuredRule(x)) /\ IsFiniteSet(GroundTruthRule(x))
      /\ IsFiniteSet(ContradictionRule(x)) /\ IsFiniteSet(SurfaceErrorRule(x))
      /\ IsFiniteSet(ExecutionRule(x)) /\ IsFiniteSet(ModelMismatchRule(x))
      /\ IsFiniteSet(StockRule(x)) /\ IsFiniteSet(CheckoutRefusalRule(x))
      /\ IsFiniteSet(SelectionRule(x)) /\ IsFiniteSet(AuthorizationRule(x))
      /\ IsFiniteSet(DiscoveryRule(x))
  BY <1>3 DEF EscapeRule, HarnessRule, UnmeasuredRule, GroundTruthRule, ContradictionRule,
              SurfaceErrorRule, ExecutionRule, ModelMismatchRule, StockRule, CheckoutRefusalRule,
              SelectionRule, AuthorizationRule, DiscoveryRule
<1>5. IsFiniteSet(ProviderFaultRules(x)) /\ IsFiniteSet(PaymentRules(x))
  BY <1>1, <1>3 DEF ProviderFaultRules, PaymentRules
<1>6. IsFiniteSet(MerchantDataRules(x))
  <2>1. /\ IsFiniteSet({f \in {[code |-> "ATTRIBUTE_NOT_PUBLISHED", keys |-> x.missing]} :
                           Has(x, "ATTRIBUTE_MISSING")})
        /\ IsFiniteSet({f \in {[code |-> "ATTRIBUTE_UNREADABLE", keys |-> x.unreadable]} :
                           Has(x, "ATTRIBUTE_UNREADABLE")})
        /\ IsFiniteSet(When(Has(x, "CATEGORY_MISSING"), "CATEGORY_NOT_PUBLISHED"))
    BY <1>2, <1>3
  <2> QED
    BY <1>1, <2>1 DEF MerchantDataRules
<1> DEFINE F == AllFindings(x)
<1>7. IsFiniteSet(F)
  BY <1>1, <1>4, <1>5, <1>6 DEF AllFindings
<1> HIDE DEF F
<1>8. IsFiniteSet(Merged(F))
  <2> DEFINE g == [f \in F |-> [code |-> f.code, keys |-> UNION {k.keys : k \in {h \in F : h.code = f.code}}]]
  <2>1. Merged(F) = {g[f] : f \in F}
    BY DEF Merged, Codes
  <2> HIDE DEF g
  <2> QED
    BY <1>7, <2>1, ImageIsFinite
<1> QED
  BY <1>7, <1>8 DEF F

LEMMA ReportIsFinite ==
  ASSUME DiagnosisInv, report # NoReport
  PROVE  IsFiniteSet(RunMissions) /\ IsFiniteSet(report.findings)
<1> DEFINE D == report.missions
           H == [i \in RunMissions |-> D[i].findings]
           F == [key \in GroupKeys(D) |->
                   [code |-> key.code, keys |-> key.keys, missions |-> Contributing(D, key),
                    action |-> Actionability(key.code),
                    demand |-> [b \in Buckets |-> Demand(D, key, b)]]]
<1>1. IsFiniteSet(RunMissions)
  <2>1. 1 \in Int /\ RunLength \in Int
    BY VerdictsAssumption
  <2> QED
    BY <2>1, FS_Interval DEF RunMissions
<1>2. \A i \in RunMissions : IsFiniteSet(H[i])
  <2> SUFFICES ASSUME NEW i \in RunMissions PROVE IsFiniteSet(D[i].findings)
    OBVIOUS
  <2>1. PICK m, u : D[i] = DiagnoseMission(Evidence(report.rows[i], m, u))
    BY DEF DiagnosisInv, ReportStands
  <2> QED
    BY <2>1, FindingsAreFinite DEF DiagnoseMission
<1>3. GroupKeys(D) = UNION {H[i] : i \in RunMissions}
  BY DEF DiagnosisInv, ReportStands, GroupKeys
<1>4. report.findings = {F[key] : key \in GroupKeys(D)}
  BY DEF DiagnosisInv, ReportStands, AggregateFindings
<1> HIDE DEF D, F, H
<1>5. IsFiniteSet({H[i] : i \in RunMissions})
  BY <1>1, ImageIsFinite
<1>6. IsFiniteSet(GroupKeys(D))
  BY <1>2, <1>3, <1>5, FS_UNION
<1> QED
  BY <1>1, <1>4, <1>6, ImageIsFinite

LEMMA DemandAddsUp ==
  ASSUME DiagnosisInv
  PROVE  DemandIsCountedOnce
<1> SUFFICES ASSUME report # NoReport, NEW b \in {"AT_RISK", "NOT_MEASURED"}
             PROVE  SumFunctionOnSet([f \in report.findings |-> f.demand[b]], report.findings) =
                       Cardinality({i \in RunMissions : report.missions[i].demand = b})
  BY DEF DemandIsCountedOnce
<1> DEFINE S == {i \in RunMissions : report.missions[i].demand = b}
           K == report.findings
           Leads(i, f) == /\ f.code = report.missions[i].primary
                          /\ [code |-> f.code, keys |-> f.keys] \in report.missions[i].findings
           g == [i \in S |-> CHOOSE f \in K : Leads(i, f)]
<1>0. b \in Buckets
  BY DEF Buckets
<1>1. IsFiniteSet(S) /\ IsFiniteSet(K)
  BY ReportIsFinite, FS_Subset
<1>2. ASSUME NEW i \in S PROVE \E f \in K : Leads(i, f)
  <2>1. /\ report.missions[i].primary \in Codes(report.missions[i].findings)
        /\ \A key \in report.missions[i].findings : key = [code |-> key.code, keys |-> key.keys]
    BY <1>2, Diagnoses DEF Diagnosed
  <2>2. PICK key \in report.missions[i].findings : key.code = report.missions[i].primary
    BY <2>1 DEF Codes
  <2>3. PICK f \in K : f.code = key.code /\ f.keys = key.keys
    BY <1>2, <2>2, FindingsFollow
  <2>4. key = [code |-> f.code, keys |-> f.keys]
    BY <2>1, <2>2, <2>3
  <2> QED
    BY <2>2, <2>3, <2>4
<1>3. ASSUME NEW i \in S, NEW f \in K, NEW h \in K, Leads(i, f), Leads(i, h) PROVE f = h
  <2>1. \A k, l \in report.missions[i].findings : k.code = l.code => k = l
    BY <1>3, Diagnoses DEF Diagnosed
  <2>2. [code |-> f.code, keys |-> f.keys] = [code |-> h.code, keys |-> h.keys]
    BY <1>3, <2>1
  <2> QED
    BY <1>3, <2>2, FindingsFollow
<1>4. \A i \in S : g[i] \in K /\ Leads(i, g[i])
  BY <1>2
<1>5. g \in [S -> K]
  BY <1>4
<1>6. \A i \in S, f \in K : g[i] = f <=> Leads(i, f)
  BY <1>3, <1>4
<1>7. ASSUME NEW f \in K PROVE f.demand[b] = Cardinality({i \in S : g[i] = f})
  <2> DEFINE W == {i \in RunMissions :
                     /\ [code |-> f.code, keys |-> f.keys] \in report.missions[i].findings
                     /\ report.missions[i].primary = f.code
                     /\ report.missions[i].demand = b}
  <2>1. f.demand[b] = Cardinality(W)
    BY <1>0, FindingsFollow
  <2>2. W = {i \in S : g[i] = f}
    <3> HIDE DEF g
    <3> QED
      BY <1>6
  <2> QED
    BY <2>1, <2>2
<1> HIDE DEF S, K, g
<1>8. SumFunctionOnSet([f \in K |-> Cardinality({i \in S : g[i] = f})], K) = Cardinality(S)
  BY <1>1, <1>5, SumOfFibres
<1>9. [f \in K |-> f.demand[b]] = [f \in K |-> Cardinality({i \in S : g[i] = f})]
  BY <1>7
<1>10. SumFunctionOnSet([f \in K |-> f.demand[b]], K) = Cardinality(S)
  BY <1>8, <1>9
<1> QED
  BY <1>10 DEF S, K


-----------------------------------------------------------------------------
(* What is known of a run and of a report stays known.                     *)

LEMMA InitDiagnosis ==
  DiagnosisInit => DiagnosisInv
<1> SUFFICES ASSUME DiagnosisInit PROVE DiagnosisInv
  OBVIOUS
<1>1. NotStarted \in Rows /\ NotStarted.status \notin Terminal
  BY DEF NotStarted, Rows, Calm, Traces, Oracles, Terminal
<1>2. MissionsStand
  BY <1>1 DEF DiagnosisInit, MissionsStand
<1> QED
  BY <1>2 DEF DiagnosisInit, DiagnosisInv, AnalystKnows, ReportStands, Idle

\* A mission that is over does not change, so what was read of it stays true.
LEMMA OverStaysOver ==
  ASSUME DiagnosisInv, MissionsStand',
         \A i \in RunMissions : mission[i].status \in Terminal => mission'[i] = mission[i]
  PROVE  /\ \A rows : Untraced(rows) => Untraced(rows)'
         /\ \A rows : Traced(rows) => Traced(rows)'
<1>1. ASSUME NEW rows \in [RunMissions -> Rows], NEW i \in RunMissions, rows[i].status \in Terminal,
             rows[i] = [mission[i] EXCEPT !.trace = Calm] \/ rows[i] = mission[i]
      PROVE  mission'[i] = mission[i]
  <2>1. mission[i] \in Rows
    BY DEF DiagnosisInv, MissionsStand
  <2>2. rows[i].status = mission[i].status
    BY <1>1, <2>1 DEF Rows
  <2> QED
    BY <1>1, <2>2
<1>2. ASSUME NEW rows, Untraced(rows) PROVE Untraced(rows)'
  BY <1>1, <1>2 DEF Untraced
<1>3. ASSUME NEW rows, Traced(rows) PROVE Traced(rows)'
  BY <1>1, <1>3 DEF Traced
<1> QED
  BY <1>2, <1>3

LEMMA MissionsMove ==
  ASSUME DiagnosisInv, MissionsStand', shelf' \in {"pinned", "moved"}, UNCHANGED <<analyst, report>>,
         \A i \in RunMissions : mission[i].status \in Terminal => mission'[i] = mission[i]
  PROVE  DiagnosisInv'
<1>1. /\ \A rows : Untraced(rows) => Untraced(rows)'
      /\ \A rows : Traced(rows) => Traced(rows)'
  BY OverStaysOver
<1>2. AnalystKnows'
  BY <1>1 DEF DiagnosisInv, AnalystKnows
<1>3. ReportStands'
  BY <1>1 DEF DiagnosisInv, ReportStands
<1> QED
  BY <1>2, <1>3 DEF DiagnosisInv

LEMMA StartMissionKeeps ==
  ASSUME DiagnosisInv, NEW i \in RunMissions, NEW e \in {"PURCHASE", "NONE"}, StartMission(i, e)
  PROVE  DiagnosisInv'
<1> DEFINE m == [mission[i] EXCEPT !.status = "RUNNING", !.expected = e]
<1>0. mission[i] \in Rows /\ mission[i].status = "PENDING"
  BY DEF DiagnosisInv, MissionsStand, StartMission
<1>1. m \in Rows /\ m.status = "RUNNING" /\ mission' = [mission EXCEPT ![i] = m]
  BY <1>0 DEF Rows, StartMission, DiagnosisInv, MissionsStand
<1>2. "PENDING" \notin Terminal /\ "RUNNING" \notin Terminal
  BY DEF Terminal
<1> HIDE DEF m
<1>3. MissionsStand'
  BY <1>1, <1>2 DEF DiagnosisInv, MissionsStand
<1>4. \A j \in RunMissions : mission[j].status \in Terminal => mission'[j] = mission[j]
  BY <1>0, <1>1, <1>2 DEF DiagnosisInv, MissionsStand
<1> QED
  BY <1>3, <1>4, MissionsMove DEF StartMission

LEMMA FinishMissionKeeps ==
  ASSUME DiagnosisInv, NEW i \in RunMissions, NEW v \in Verdicts, NEW unsafe \in BOOLEAN,
         FinishMission(i, v, unsafe)
  PROVE  DiagnosisInv'
<1> DEFINE m == [mission[i] EXCEPT
            !.status = v.status, !.reasons = v.reasons, !.unsafe = unsafe, !.escaped = v.escaped,
            !.oracle = v.oracle, !.trace = v.trace, !.selected = v.reasons \cap DataReasons # {}]
<1>0. mission[i] \in Rows /\ mission[i].status = "RUNNING"
  BY DEF DiagnosisInv, MissionsStand, FinishMission
<1>1. v \in [status : Terminal, reasons : SUBSET KnownReasons, escaped : BOOLEAN,
             oracle : Oracles, trace : Traces]
  BY VerdictsAssumption
<1>2. m \in Rows
  BY <1>0, <1>1 DEF Rows
<1>3. Recordable(m) /\ mission' = [mission EXCEPT ![i] = m]
  BY DEF FinishMission
<1>4. "RUNNING" \notin Terminal
  BY DEF Terminal
<1> HIDE DEF m
<1>5. MissionsStand'
  BY <1>2, <1>3 DEF DiagnosisInv, MissionsStand
<1>6. \A j \in RunMissions : mission[j].status \in Terminal => mission'[j] = mission[j]
  BY <1>0, <1>3, <1>4 DEF DiagnosisInv, MissionsStand
<1> QED
  BY <1>5, <1>6, MissionsMove DEF FinishMission, DiagnosisInv

LEMMA RunReadKeeps ==
  ASSUME DiagnosisInv, LoadRun \/ ReadTraces \/ ReadVariants
  PROVE  DiagnosisInv'
<1>0. UNCHANGED <<mission, shelf, report>>
  BY DEF LoadRun, ReadTraces, ReadVariants
<1>1. \A i \in RunMissions : mission[i] \in Rows
  BY DEF DiagnosisInv, MissionsStand
<1>2. CASE LoadRun
  <2> DEFINE rows == [i \in RunMissions |-> [mission[i] EXCEPT !.trace = Calm]]
  <2>1. \A i \in RunMissions : [mission[i] EXCEPT !.trace = Calm] \in Rows
    BY <1>1 DEF Rows, Calm, Traces
  <2>2. Untraced(rows)
    BY <2>1 DEF Untraced
  <2>3. analyst' = [at |-> "loaded", rows |-> rows]
    BY <1>2 DEF LoadRun
  <2>4. analyst'.at = "loaded" /\ analyst'.rows = rows
    BY <2>3
  <2> HIDE DEF rows
  <2>5. AnalystKnows'
    BY <1>0, <2>2, <2>4 DEF AnalystKnows, Untraced
  <2> QED
    BY <1>0, <2>5 DEF DiagnosisInv, MissionsStand, ReportStands, Traced
<1>3. CASE ReadTraces
  <2> DEFINE row(i) == [analyst.rows[i] EXCEPT !.trace = mission[i].trace]
             rows == [i \in RunMissions |-> row(i)]
  <2>1. Untraced(analyst.rows)
    BY <1>3 DEF ReadTraces, DiagnosisInv, AnalystKnows
  <2>2. ASSUME NEW i \in RunMissions
        PROVE  row(i) \in Rows /\ (row(i).status \in Terminal => row(i) = mission[i])
    <3> DEFINE was == analyst.rows[i]
               now == mission[i]
    <3>1. was \in Rows /\ now \in Rows
      BY <1>1, <2>1 DEF Untraced
    <3>2. was.status \in Terminal => was = [now EXCEPT !.trace = Calm]
      BY <2>1 DEF Untraced
    <3> HIDE DEF was, now
    <3>3. [was EXCEPT !.trace = now.trace] \in Rows
      BY <3>1 DEF Rows
    <3>4. [was EXCEPT !.trace = now.trace].status = was.status
      BY <3>1 DEF Rows
    <3>5. was = [now EXCEPT !.trace = Calm] => [was EXCEPT !.trace = now.trace] = now
      BY <3>1 DEF Rows
    <3> QED
      BY <3>2, <3>3, <3>4, <3>5 DEF was, now
  <2>3. analyst' = [at |-> "traced", rows |-> rows]
    BY <1>3 DEF ReadTraces
  <2> HIDE DEF row
  <2>4. Traced(rows)
    BY <2>2 DEF Traced
  <2>5. analyst'.at = "traced" /\ analyst'.rows = rows
    BY <2>3
  <2> HIDE DEF rows
  <2>6. AnalystKnows'
    BY <1>0, <2>4, <2>5 DEF AnalystKnows, Traced
  <2> QED
    BY <1>0, <2>6 DEF DiagnosisInv, MissionsStand, ReportStands, Traced
<1>4. CASE ReadVariants
  <2>1. Traced(analyst.rows) /\ shelf \in {"pinned", "moved"}
    BY <1>4 DEF ReadVariants, DiagnosisInv, AnalystKnows
  <2>2. analyst'.at = "stocked" /\ analyst'.rows = analyst.rows /\ analyst'.seen = shelf
    BY <1>4 DEF ReadVariants
  <2>3. AnalystKnows'
    BY <1>0, <2>1, <2>2 DEF AnalystKnows, Traced
  <2> QED
    BY <1>0, <2>3 DEF DiagnosisInv, MissionsStand, ReportStands, Traced
<1> QED
  BY <1>2, <1>3, <1>4

LEMMA VerifyAndReportKeeps ==
  ASSUME DiagnosisInv, VerifyAndReport
  PROVE  DiagnosisInv'
<1> DEFINE verified == shelf = "pinned"
           m(i) == Quoted(Missing, i, verified)
           u(i) == Quoted(Unreadable, i, verified)
           D == [i \in RunMissions |-> DiagnoseMission(Evidence(analyst.rows[i], m(i), u(i)))]
<1>0. UNCHANGED <<mission, shelf>> /\ analyst' = Idle
  BY DEF VerifyAndReport
<1>1. Traced(analyst.rows) /\ analyst.seen \in {"pinned", "moved"}
  BY DEF VerifyAndReport, DiagnosisInv, AnalystKnows
<1>2. \A i \in RunMissions : m(i) \in MayQuote(Missing) /\ u(i) \in MayQuote(Unreadable)
  BY <1>1 DEF Quoted, MayQuote
<1>3. report' = [rows |-> analyst.rows, missions |-> D, findings |-> AggregateFindings(D)]
  BY DEF VerifyAndReport
<1>4. /\ report'.rows = analyst.rows /\ report'.missions = D
      /\ report'.findings = AggregateFindings(D)
  BY <1>3
<1>5. /\ DOMAIN D = RunMissions
      /\ \A i \in RunMissions : D[i] = DiagnoseMission(Evidence(analyst.rows[i], m(i), u(i)))
  OBVIOUS
<1> HIDE DEF D, m, u
<1>6. \A i \in RunMissions : \E k \in MayQuote(Missing), l \in MayQuote(Unreadable) :
         D[i] = DiagnoseMission(Evidence(analyst.rows[i], k, l))
  BY <1>2, <1>5
<1>7. ReportStands'
  BY <1>0, <1>1, <1>4, <1>5, <1>6 DEF ReportStands, Traced
<1>8. AnalystKnows'
  BY <1>0 DEF AnalystKnows, Idle
<1> QED
  BY <1>0, <1>7, <1>8 DEF DiagnosisInv, MissionsStand

LEMMA DiagnosisKeeps ==
  DiagnosisInv /\ [DiagnosisNext]_diagnosisVars => DiagnosisInv'
<1> SUFFICES ASSUME DiagnosisInv, [DiagnosisNext]_diagnosisVars PROVE DiagnosisInv'
  OBVIOUS
<1>0. MissionsStand
  BY DEF DiagnosisInv
<1>1. CASE \E i \in RunMissions : \E e \in {"PURCHASE", "NONE"} : StartMission(i, e)
  BY <1>1, StartMissionKeeps
<1>2. CASE \E i \in RunMissions, v \in Verdicts, unsafe \in BOOLEAN : FinishMission(i, v, unsafe)
  BY <1>2, FinishMissionKeeps
<1>3. CASE (\E s \in {"COMPLETED", "ABORTED"} : EndRun(s)) \/ MoveShelf \/ UNCHANGED diagnosisVars
  <2>1. UNCHANGED <<mission, analyst, report>> /\ shelf' \in {"pinned", "moved"}
    BY <1>3 DEF EndRun, MoveShelf, diagnosisVars, DiagnosisInv
  <2>2. MissionsStand'
    BY <1>0, <2>1 DEF MissionsStand
  <2> QED
    BY <2>1, <2>2, MissionsMove
<1>4. CASE LoadRun \/ ReadTraces \/ ReadVariants
  BY <1>4, RunReadKeeps
<1>5. CASE VerifyAndReport
  BY <1>5, VerifyAndReportKeeps
<1>6. CASE Discard
  <2>1. UNCHANGED <<mission, shelf, analyst>> /\ report' = NoReport
    BY <1>6 DEF Discard
  <2> QED
    BY <2>1 DEF DiagnosisInv, MissionsStand, AnalystKnows, Untraced, Traced, ReportStands
<1> QED
  BY <1>1, <1>2, <1>3, <1>4, <1>5, <1>6 DEF DiagnosisNext

\* run_diagnostics, diagnose_mission and aggregate_findings blame no merchant for an outage,
\* leave no failure without a leading finding, and count what was at stake once, whatever the
\* run and the catalog do between their reads.
THEOREM DiagnosesAreSound == DiagnosisSpec => []DiagnosisIsSound
<1>1. DiagnosisInv => DiagnosisIsSound
  BY BlameFollows, DemandAddsUp DEF DiagnosisIsSound
<1> QED
  BY <1>1, InitDiagnosis, DiagnosisKeeps, PTL DEF DiagnosisSpec

-----------------------------------------------------------------------------
(***************************************************************************)
(* Stated requirements: one requirement and one entry.                    *)
(***************************************************************************)

\* A list of categories is met by a text that one of them equals.
LEMMA OneOfTexts ==
  ASSUME NEW hard, NEW P, NEW t, NEW options,
         \A v \in options : \E i \in P : v = Text(hard[i].category),
         \A i \in P : Text(hard[i].category) \in options
  PROVE  Compare("IN", options, Text(t)) = "met"
           <=> \E i \in P : Normal[hard[i].category] = Normal[t]
<1>1. Text(t).type = "string" /\ Text(t).of = t
  BY DEF Text
<1>2. \A v \in options : v.type = "string"
  BY DEF Text
<1>3. \A a : Same(Text(a), Text(t)) <=> Normal[a] = Normal[t]
  BY DEF Text, Same
<1>4. (\E v \in options : Same(v, Text(t))) <=> \E i \in P : Normal[hard[i].category] = Normal[t]
  BY <1>3
<1>5. ~(Text(t).type = "other" \/ \E v \in options : v.type # Text(t).type)
  BY <1>1, <1>2
<1>6. Compare("IN", options, Text(t)) = "met" <=> \E v \in options : Same(v, Text(t))
  BY <1>5 DEF Compare
<1> QED
  BY <1>4, <1>6

\* Every category stated is among those kept, in one case or another.
LEMMA FreshIsEnough ==
  ASSUME NEW hard, DOMAIN hard \subseteq Nat, NEW i \in Categories(hard)
  PROVE  \E j \in Fresh(hard) : Normal[hard[j].category] = Normal[hard[i].category]
<1> DEFINE alike == {j \in Categories(hard) : Normal[hard[j].category] = Normal[hard[i].category]}
<1>1. alike \in SUBSET Nat /\ alike # {}
  BY DEF Categories
<1>2. PICK j \in alike : \A k \in alike : j <= k
  BY <1>1, SmallestNumber
<1>3. \A k \in Categories(hard) : k < j => Normal[hard[k].category] # Normal[hard[j].category]
  BY <1>1, <1>2 DEF Categories
<1> QED
  BY <1>2, <1>3 DEF Fresh

\* The folded rule is met by the texts that the list as it was stated is met by.
LEMMA FoldingIsSafe ==
  ASSUME NEW hard, DOMAIN hard \subseteq Nat, NEW t
  PROVE  Compare("IN", {Text(hard[i].category) : i \in Fresh(hard)}, Text(t)) = "met"
           <=> Compare("IN", Allowed(hard), Text(t)) = "met"
<1>1. Fresh(hard) \subseteq Categories(hard)
  BY DEF Fresh
<1>2. Compare("IN", {Text(hard[i].category) : i \in Fresh(hard)}, Text(t)) = "met"
        <=> \E i \in Fresh(hard) : Normal[hard[i].category] = Normal[t]
  <2> DEFINE options == {Text(hard[i].category) : i \in Fresh(hard)}
  <2>1. /\ \A v \in options : \E i \in Fresh(hard) : v = Text(hard[i].category)
        /\ \A i \in Fresh(hard) : Text(hard[i].category) \in options
    OBVIOUS
  <2> HIDE DEF options
  <2>2. Compare("IN", options, Text(t)) = "met"
          <=> \E i \in Fresh(hard) : Normal[hard[i].category] = Normal[t]
    BY <2>1, OneOfTexts
  <2> QED
    BY <2>2 DEF options
<1>3. Compare("IN", Allowed(hard), Text(t)) = "met"
        <=> \E i \in Categories(hard) : Normal[hard[i].category] = Normal[t]
  <2>1. /\ \A v \in Allowed(hard) : \E i \in Categories(hard) : v = Text(hard[i].category)
        /\ \A i \in Categories(hard) : Text(hard[i].category) \in Allowed(hard)
    BY DEF Allowed
  <2> QED
    BY <2>1, OneOfTexts
<1> QED
  BY <1>1, <1>2, <1>3, FreshIsEnough

\* There is a first among the constraints that are not met.
LEMMA FirstOf ==
  ASSUME NEW S, S \subseteq Nat, S # {}
  PROVE  (CHOOSE i \in S : \A j \in S : i <= j) \in S
<1>1. \E i \in S : \A j \in S : i <= j
  BY SmallestNumber
<1> QED
  BY <1>1

LEMMA Answers ==
  /\ \A operator, options, actual : Compare(operator, options, actual) \in {"met", "unmet", "unreadable"}
  /\ \A operator, options, found :
       Judge(operator, options, found) \in {"met", "unmet", "unreadable", "missing"}
  /\ \A c, entry : OfAttribute(c, entry) \in {"met", "unmet", "unreadable", "missing"}
  /\ \A hard, entry : OfCategory(hard, entry) \in {"met", "unmet", "unreadable", "missing"}
<1>1. \A operator, options, actual : Compare(operator, options, actual) \in {"met", "unmet", "unreadable"}
  BY DEF Compare
<1>2. \A operator, options, found :
        Judge(operator, options, found) \in {"met", "unmet", "unreadable", "missing"}
  BY <1>1 DEF Judge
<1> QED
  BY <1>1, <1>2 DEF OfAttribute, OfCategory

\* The executor asks no further when something is not met, and finds nothing only if nothing is.
LEMMA FirstUnmetSays ==
  ASSUME NEW hard, DOMAIN hard \subseteq Nat, NEW entry
  PROVE  /\ FirstUnmet(hard, entry) \in {"met", "unmet", "unreadable", "missing"}
         /\ FirstUnmet(hard, entry) = "met"
              <=> OfCategory(hard, entry) = "met" /\ \A i \in Requiring(hard) : OfAttribute(hard[i], entry) = "met"
<1> DEFINE failing == {i \in Requiring(hard) : OfAttribute(hard[i], entry) # "met"}
           first == CHOOSE i \in failing : \A j \in failing : i <= j
<1>1. failing \subseteq Nat
  BY DEF Requiring
<1>2. failing # {} => first \in failing
  BY <1>1, FirstOf
<1>3. FirstUnmet(hard, entry) =
        IF OfCategory(hard, entry) # "met" THEN OfCategory(hard, entry)
        ELSE IF failing = {} THEN "met" ELSE OfAttribute(hard[first], entry)
  BY DEF FirstUnmet
<1>4. failing # {} => OfAttribute(hard[first], entry) # "met"
  BY <1>2
<1>5. failing = {} <=> \A i \in Requiring(hard) : OfAttribute(hard[i], entry) = "met"
  OBVIOUS
<1> HIDE DEF failing, first
<1> QED
  BY <1>3, <1>4, <1>5, Answers

\* The oracle asks of the category and the attributes what the executor does.
LEMMA OracleAsks ==
  ASSUME NEW b, NEW entry
  PROVE  Qualifies(b, entry) <=>
           /\ entry.listed /\ entry.sold /\ entry.stock >= b.quantity
           /\ entry.currency = b.currency /\ entry.price * b.quantity <= b.limit
           /\ OfCategory(b.hard, entry) = "met"
           /\ \A i \in Requiring(b.hard) : OfAttribute(b.hard[i], entry) = "met"
  BY Answers DEF Qualifies, OfCategory

\* A brief with another limit.
Afford(b, amount) == [b EXCEPT !.limit = amount]

\* What the executor takes is what the oracle says is there, and what it finds too dear is what
\* more money would have bought.
LEMMA ExecutorAndOracle ==
  ASSUME NEW b, IsBrief(b), NEW entry, Counted(entry), entry.listed, entry.sold
  PROVE  /\ Assess(b, entry) = "ACCEPTED" <=> Qualifies(b, entry)
         /\ Assess(b, entry) = "OVER_BUDGET" =>
              Qualifies(Afford(b, entry.price * b.quantity), entry)
         /\ Qualifies(Afford(b, entry.price * b.quantity), entry) =>
              Assess(b, entry) \in {"ACCEPTED", "OVER_BUDGET"}
<1> DEFINE cost == entry.price * b.quantity
           rich == Afford(b, cost)
           unmet == FirstUnmet(b.hard, entry)
           says == OfCategory(b.hard, entry) = "met"
                     /\ \A i \in Requiring(b.hard) : OfAttribute(b.hard[i], entry) = "met"
<1>1. /\ DOMAIN b = {"hard", "limit", "currency", "quantity"} /\ DOMAIN b.hard \subseteq Nat
      /\ b.limit \in Nat /\ b.quantity \in Nat /\ entry.price \in Nat /\ entry.stock \in Nat
  BY DEF IsBrief, Counted
<1>2. cost \in Nat
  BY <1>1
<1>3. rich.hard = b.hard /\ rich.quantity = b.quantity /\ rich.currency = b.currency /\ rich.limit = cost
  BY <1>1 DEF Afford
<1>4. unmet \in {"met", "unmet", "unreadable", "missing"} /\ (unmet = "met" <=> says)
  BY <1>1, FirstUnmetSays
<1>5. Qualifies(b, entry) <=>
        entry.stock >= b.quantity /\ entry.currency = b.currency /\ cost <= b.limit /\ says
  BY OracleAsks
<1>6. Qualifies(rich, entry) <=> entry.stock >= b.quantity /\ entry.currency = b.currency /\ says
  <2>1. entry.price * rich.quantity = cost /\ cost <= cost
    BY <1>2, <1>3
  <2> HIDE DEF rich, cost
  <2> QED
    BY <1>3, <2>1, OracleAsks
<1>7. Assess(b, entry) =
        IF entry.currency # b.currency THEN "WRONG_CURRENCY"
        ELSE IF unmet \in {"missing", "unreadable"} THEN "UNSTATED"
        ELSE IF unmet = "unmet" THEN "MISMATCH"
        ELSE IF entry.stock < b.quantity THEN "OUT_OF_STOCK"
        ELSE IF cost > b.limit THEN "OVER_BUDGET" ELSE "ACCEPTED"
  BY DEF Assess
<1> HIDE DEF cost, rich, unmet, says
<1> QED
  BY <1>1, <1>2, <1>4, <1>5, <1>6, <1>7 DEF rich, cost

\* A ceiling a brief states is the one ceiling it has.
LEMMA CeilingIsStated ==
  ASSUME NEW b \in Briefs, WellStated(b)
  PROVE  /\ Ceiling(b) \in Nat
         /\ \A i \in DOMAIN b.hard : b.hard[i].kind = "max_quantity" =>
              Ceiling(b) # 0 /\ Ceiling(b) = b.hard[i].quantity
         /\ Ceiling(b) # 0 => b.quantity <= Ceiling(b)
<1> DEFINE stated == {i \in DOMAIN b.hard : b.hard[i].kind = "max_quantity"}
           one == CHOOSE i \in stated : TRUE
<1>1. \A i \in stated : b.hard[i].quantity \in Nat \ {0}
  BY BriefsAssumption DEF IsBrief
<1>2. \A i, j \in stated : i = j
  BY DEF WellStated
<1>3. stated # {} => one \in stated
  OBVIOUS
<1>4. Ceiling(b) = IF stated = {} THEN 0 ELSE b.hard[one].quantity
  BY DEF Ceiling
<1>5. \A i \in DOMAIN b.hard : b.hard[i].kind = "max_quantity" => i \in stated
  OBVIOUS
<1>6. Ceiling(b) # 0 => b.quantity <= Ceiling(b)
  BY DEF WellStated
<1> HIDE DEF stated, one
<1> QED
  BY <1>1, <1>2, <1>3, <1>4, <1>5, <1>6

\* A brief with something to require becomes rules.
LEMMA SomethingIsStated ==
  ASSUME NEW b \in Briefs
  PROVE  Semantic(b) = {} <=> SemanticSpecs(b.hard) = {}
<1>1. \A i \in DOMAIN b.hard :
        i \in Semantic(b) <=> i \in Requiring(b.hard) \/ i \in Categories(b.hard)
  BY BriefsAssumption DEF IsBrief, Semantic, Financial, Requiring, Categories
<1>2. /\ Semantic(b) \subseteq DOMAIN b.hard /\ Requiring(b.hard) \subseteq DOMAIN b.hard
      /\ Categories(b.hard) \subseteq DOMAIN b.hard
  BY DEF Semantic, Requiring, Categories
<1>3. SemanticSpecs(b.hard) = {} <=> Requiring(b.hard) = {} /\ Categories(b.hard) = {}
  BY DEF SemanticSpecs
<1> QED
  BY <1>1, <1>2, <1>3

-----------------------------------------------------------------------------
(***************************************************************************)
(* What is paid for.                                                       *)
(***************************************************************************)

\* What passes the gate is what the brief asked for.
LEMMA GateIsTheStatement ==
  ASSUME StatedInv, Authorized, quote.price \in Nat, quote.quantity \in Nat
  PROVE  /\ quote.price * quote.quantity <= brief.limit /\ quote.currency = brief.currency
         /\ Semantic(brief) # {}
         /\ \A i \in DOMAIN brief.hard : SaysSo(brief.hard[i], quote)
<1>1. /\ requirements # {} /\ requirements = SemanticSpecs(brief.hard) /\ Bounded
      /\ brief \in Briefs /\ WellStated(brief)
      /\ \A rule \in requirements : CheckLine(rule, quote) = "met"
  BY DEF Authorized, StatedInv, Violations
<1>2. Semantic(brief) # {}
  BY <1>1, SomethingIsStated
<1>3. /\ quote.price * quote.quantity \in Nat /\ quote.price * quote.quantity <= mandate.limit
      /\ mandate.limit <= brief.limit /\ brief.limit \in Nat /\ mandate.limit \in Nat
  BY <1>1, BriefsAssumption DEF IsBrief, Authorized, Bounded, StatedInv
<1>4. quote.currency = brief.currency
  BY <1>1 DEF Authorized, Bounded
<1>5. ASSUME NEW i \in DOMAIN brief.hard PROVE SaysSo(brief.hard[i], quote)
  <2> DEFINE c == brief.hard[i]
  <2>0. DOMAIN brief.hard \subseteq Nat
    BY <1>1, BriefsAssumption DEF IsBrief
  <2>1. CASE c.kind = "required_attribute"
    <3>1. c \in requirements /\ c.kind # "allowed_category"
      BY <1>1, <2>1 DEF SemanticSpecs, Requiring
    <3> DEFINE found == LookupAttribute(quote.attributes, c.key)
               actual == CHOOSE v \in found : TRUE
    <3>2. Judge(c.operator, c.value, found) = "met"
      BY <1>1, <3>1 DEF CheckLine
    <3>3. found # {} /\ Compare(c.operator, c.value, actual) = "met"
      BY <3>2 DEF Judge
    <3>4. actual \in found
      BY <3>3
    <3>5. \E n \in DOMAIN quote.attributes : Normal[n] = Normal[c.key] /\ quote.attributes[n] = actual
      BY <3>4 DEF LookupAttribute
    <3>6. AskedFor(c, actual)
      <4>1. c.operator \in {"EQ", "NE", "IN", "GTE", "LTE"}
        BY <1>1, <2>1, BriefsAssumption DEF IsBrief
      <4>2. \A w \in c.value : actual.type = w.type
        BY <3>3 DEF Compare
      <4>3. \A w \in c.value : Same(w, actual) <=> Same(actual, w)
        BY <4>2 DEF Same
      <4>4. \/ c.operator \in {"EQ", "IN"} /\ \E v \in c.value : Same(v, actual)
            \/ c.operator = "NE" /\ \A v \in c.value : ~Same(v, actual)
            \/ c.operator = "GTE" /\ \A v \in c.value : actual.of >= v.of
            \/ c.operator = "LTE" /\ \A v \in c.value : actual.of <= v.of
        BY <3>3 DEF Compare
      <4> HIDE DEF c, actual
      <4> QED
        BY <4>1, <4>2, <4>3, <4>4 DEF AskedFor
    <3> HIDE DEF actual, found
    <3> QED
      BY <2>1, <3>5, <3>6 DEF SaysSo
  <2>2. CASE c.kind = "allowed_category"
    <3> DEFINE fresh == {Text(brief.hard[j].category) : j \in Fresh(brief.hard)}
               rule == [kind |-> "allowed_category", operator |-> "IN", value |-> fresh]
    <3>1. rule \in requirements
      BY <1>1, <2>2 DEF SemanticSpecs, Categories
    <3>2. CheckLine(rule, quote) = "met" /\ rule.kind = "allowed_category" /\ rule.operator = "IN" /\ rule.value = fresh
      BY <1>1, <3>1
    <3> HIDE DEF fresh
    <3>3. quote.category # Unpublished /\ Compare("IN", fresh, Text(quote.category)) = "met"
      BY <3>2 DEF CheckLine
    <3>4. /\ \A v \in fresh : \E j \in Fresh(brief.hard) : v = Text(brief.hard[j].category)
          /\ \A j \in Fresh(brief.hard) : Text(brief.hard[j].category) \in fresh
      BY DEF fresh
    <3>5. \E j \in Fresh(brief.hard) : Normal[brief.hard[j].category] = Normal[quote.category]
      BY <3>3, <3>4, OneOfTexts
    <3>6. \E j \in Categories(brief.hard) : Normal[brief.hard[j].category] = Normal[quote.category]
      BY <3>5 DEF Fresh
    <3> QED
      BY <2>2, <3>3, <3>6 DEF SaysSo
  <2>3. CASE c.kind = "max_quantity"
    <3>1. mandate.ceiling # 0 /\ mandate.ceiling <= c.quantity /\ quote.quantity <= mandate.ceiling
      BY <1>1, <2>3 DEF Bounded, Authorized
    <3>2. c.quantity \in Nat /\ mandate.ceiling \in Nat
      BY <1>1, <2>3, BriefsAssumption DEF IsBrief, StatedInv
    <3> QED
      BY <2>3, <3>1, <3>2 DEF SaysSo
  <2> QED
    BY <1>1, <2>1, <2>2, <2>3, BriefsAssumption DEF IsBrief
<1> QED
  BY <1>2, <1>3, <1>4, <1>5

LEMMA RequirementsBegin == RequirementsInit => StatedInv
<1> SUFFICES ASSUME RequirementsInit PROVE StatedInv
  OBVIOUS
<1>1. brief \in Briefs /\ WellStated(brief) /\ step \in {"search", "authorize"} /\ requirements = {}
      /\ step = (IF shopper = "reference" THEN "search" ELSE "authorize")
      /\ shopper \in {"reference", "agent"}
  BY DEF RequirementsInit
<1>2. DOMAIN catalog = Variants /\ \A v \in Variants : Counted(catalog[v])
  BY CatalogsAssumption DEF RequirementsInit
<1>3. answer = NoAnswer /\ answer.outcome # "paid"
  BY DEF RequirementsInit, NoAnswer
<1>4. /\ DOMAIN mandate = {"limit", "currency", "ceiling", "active"}
      /\ mandate.limit \in Nat /\ mandate.ceiling \in Nat
  BY DEF RequirementsInit, NoMandate
<1> QED
  BY <1>1, <1>2, <1>3, <1>4 DEF StatedInv, Steps, BoughtAsStated

\* A step that leaves the statement alone, and what was told.
LEMMA StatementStands ==
  ASSUME StatedInv, UNCHANGED <<shopper, brief, mandate, requirements, quote, answer>>,
         catalog' = catalog, step' \in Steps \ {"done", "pay", "prepare"}, step # "done",
         step' # "authorize", step' \in {"search", "open"} => step \in {"search", "open"},
         step' = "state" => step = "state"
  PROVE  StatedInv'
<1>1. Bounded' = Bounded
  BY DEF Bounded
<1>2. answer = NoAnswer /\ answer.outcome # "paid"
  BY DEF StatedInv, NoAnswer
<1> QED
  BY <1>1, <1>2 DEF StatedInv, Steps, BoughtAsStated

\* A step that ends the purchase with anything but a payment.
LEMMA EndingStands ==
  ASSUME StatedInv, UNCHANGED <<shopper, brief, catalog, mandate, quote>>,
         requirements' = requirements,
         step' = "done", step \in Steps, answer'.outcome # "paid"
  PROVE  StatedInv'
<1>1. Bounded' = Bounded
  BY DEF Bounded
<1> QED
  BY <1>1 DEF StatedInv, Steps, BoughtAsStated

LEMMA SearchStands == ASSUME StatedInv, Search PROVE StatedInv'
  BY StatementStands DEF Search, Going, Steps

LEMMA OpenStands == ASSUME StatedInv, Open PROVE StatedInv'
  BY StatementStands DEF Open, Steps

LEMMA BuyNothingStands == ASSUME StatedInv, BuyNothing PROVE StatedInv'
<1>1. answer'.outcome = "abstained"
  BY DEF BuyNothing, Report
<1> QED
  BY <1>1, EndingStands DEF BuyNothing, Report, Steps

\* What the executor authorizes is what the brief says; nothing is stated yet either way.
LEMMA AuthorizeSpendingStands ==
  ASSUME StatedInv, AuthorizeSpending
  PROVE  StatedInv'
<1>1. /\ UNCHANGED <<shopper, brief, catalog, requirements, quote, answer>> /\ step' = "state"
      /\ step \in {"open", "authorize"} /\ requirements = {} /\ answer = NoAnswer
      /\ brief \in Briefs /\ WellStated(brief)
  BY DEF AuthorizeSpending, Going, StatedInv
<1>2. /\ DOMAIN mandate' = {"limit", "currency", "ceiling", "active"}
      /\ mandate'.limit \in Nat /\ mandate'.ceiling \in Nat
      /\ step = "open" => /\ mandate'.limit = brief.limit /\ mandate'.currency = brief.currency
                          /\ mandate'.ceiling = Ceiling(brief)
  BY <1>1, BriefsAssumption, MandatesAssumption, CeilingIsStated DEF AuthorizeSpending, IsBrief
<1>3. shopper = "reference" => Bounded'
  <2> SUFFICES ASSUME shopper = "reference" PROVE Bounded'
    OBVIOUS
  <2>1. step = "open"
    BY <1>1 DEF StatedInv
  <2>2. \A i \in DOMAIN brief.hard : brief.hard[i].kind = "max_quantity" =>
          Ceiling(brief) # 0 /\ Ceiling(brief) <= brief.hard[i].quantity
    BY <1>1, CeilingIsStated
  <2>3. brief.limit <= brief.limit
    BY <1>1, BriefsAssumption DEF IsBrief
  <2> QED
    BY <1>1, <1>2, <2>1, <2>2, <2>3 DEF Bounded
<1>4. answer.outcome # "paid"
  BY <1>1 DEF NoAnswer
<1> QED
  BY <1>1, <1>2, <1>3, <1>4 DEF StatedInv, Steps, BoughtAsStated

\* What makes rules of a brief: the mandate is within every limit that was stated with it.
LEMMA CreatedWithin ==
  ASSUME NEW b \in Briefs, Reply(b.hard, Limits(b)) = "created"
  PROVE  /\ requirements = {}
         /\ mandate.limit <= b.limit /\ mandate.currency = b.currency
         /\ \A i \in DOMAIN b.hard : b.hard[i].kind = "max_quantity" =>
              mandate.ceiling # 0 /\ mandate.ceiling <= b.hard[i].quantity
<1>1. /\ requirements = {}
      /\ \A c \in Limits(b) : c.kind = "max_total_amount" => c.currency = mandate.currency
      /\ \A c \in Limits(b) : WithinMandate(c)
  BY DEF Reply
<1>2. LET m == [kind |-> "max_total_amount", amount |-> b.limit, currency |-> b.currency]
      IN  m \in Limits(b) /\ m.kind = "max_total_amount" /\ m.amount = b.limit /\ m.currency = b.currency
  BY DEF Limits
<1>3. mandate.limit <= b.limit /\ mandate.currency = b.currency
  BY <1>1, <1>2 DEF WithinMandate
<1>4. ASSUME NEW i \in DOMAIN b.hard, b.hard[i].kind = "max_quantity"
      PROVE  mandate.ceiling # 0 /\ mandate.ceiling <= b.hard[i].quantity
  <2>1. b.hard[i] \in Limits(b)
    BY <1>4 DEF Limits
  <2> QED
    BY <1>1, <1>4, <2>1 DEF WithinMandate
<1> QED
  BY <1>1, <1>3, <1>4

\* A step that states, or does not.
LEMMA StatingStands ==
  ASSUME StatedInv, UNCHANGED <<shopper, brief, catalog, mandate, quote>>,
         step \in {"state", "prepare"}, step' \in {"quote", "done", step},
         requirements' # requirements => requirements' = SemanticSpecs(brief.hard) /\ Bounded,
         answer'.outcome # "paid", step' # "done" => answer' = answer
  PROVE  StatedInv'
<1>1. Bounded' = Bounded
  BY DEF Bounded
<1> QED
  BY <1>1 DEF StatedInv, Steps, BoughtAsStated

LEMMA StateRequirementsStands == ASSUME StatedInv, StateRequirements PROVE StatedInv'
<1>1. /\ UNCHANGED <<shopper, brief, catalog, mandate, quote>> /\ step = "state" /\ Bounded /\ answer = NoAnswer
      /\ requirements' # requirements => requirements' = SemanticSpecs(brief.hard)
  BY DEF StateRequirements, StatedInv
<1>2. \/ step' = "quote" /\ answer' = answer
      \/ step' = "done" /\ answer'.outcome \in {"raised", "error"}
  BY DEF StateRequirements, Going, Report
<1>3. answer.outcome # "paid"
  BY <1>1 DEF NoAnswer
<1> QED
  BY <1>1, <1>2, <1>3, StatingStands

LEMMA StateAsAgentStands == ASSUME StatedInv, StateAsAgent PROVE StatedInv'
<1>1. /\ UNCHANGED <<shopper, brief, catalog, mandate, quote, answer>> /\ step \in {"state", "prepare"}
      /\ step' \in {"quote", step} /\ answer = NoAnswer /\ brief \in Briefs
  BY DEF StateAsAgent, StatedInv
<1>2. PICK b \in {brief} \cup {other \in Briefs : other.quantity = brief.quantity /\ requirements # {}} :
        requirements' = IF Reply(b.hard, Limits(b)) = "created" THEN SemanticSpecs(b.hard) ELSE requirements
  BY DEF StateAsAgent
<1>3. requirements' # requirements => b = brief /\ requirements' = SemanticSpecs(brief.hard) /\ Bounded
  BY <1>1, <1>2, CreatedWithin DEF Bounded
<1>4. answer.outcome # "paid" /\ step' # "done"
  BY <1>1 DEF NoAnswer
<1> QED
  BY <1>1, <1>3, <1>4, StatingStands

\* A line is quoted as it is published, in a quantity of its own.
LEMMA QuoteStands == ASSUME StatedInv, Quote PROVE StatedInv'
<1>1. /\ UNCHANGED <<shopper, brief, catalog, mandate, requirements>> /\ step = "quote" /\ answer = NoAnswer
  BY DEF Quote, StatedInv
<1>2. \/ answer'.outcome = "refused" /\ step' = "done" /\ quote' = quote
      \/ /\ step' = "prepare" /\ answer' = answer /\ quote'.price \in Nat /\ quote'.quantity \in Nat
  <2>1. PICK v \in Variants, quantity \in {brief.quantity, brief.quantity + 1} :
          IF Refusal(v, quantity) # "none" THEN Report("refused", Refusal(v, quantity)) /\ UNCHANGED quote
          ELSE /\ quote' = [variant |-> v, quantity |-> quantity, price |-> catalog[v].price,
                            currency |-> catalog[v].currency, category |-> catalog[v].category,
                            attributes |-> catalog[v].attributes]
               /\ Going("prepare")
    BY DEF Quote
  <2>2. catalog[v].price \in Nat /\ quantity \in Nat
    BY BriefsAssumption DEF IsBrief, StatedInv, Counted
  <2> QED
    BY <2>1, <2>2 DEF Report, Going
<1>3. CASE answer'.outcome = "refused" /\ step' = "done" /\ quote' = quote
  BY <1>1, <1>3, EndingStands DEF Steps
<1>4. CASE step' = "prepare" /\ answer' = answer /\ quote'.price \in Nat /\ quote'.quantity \in Nat
  <2>1. Bounded' = Bounded
    BY <1>1 DEF Bounded
  <2>2. answer'.outcome # "paid"
    BY <1>1, <1>4 DEF NoAnswer
  <2> QED
    BY <1>1, <1>4, <2>1, <2>2 DEF StatedInv, Steps, BoughtAsStated
<1> QED
  BY <1>2, <1>3, <1>4

LEMMA PrepareStands == ASSUME StatedInv, Prepare PROVE StatedInv'
<1>1. /\ UNCHANGED <<shopper, brief, catalog, mandate, requirements, quote>> /\ step = "prepare" /\ answer = NoAnswer
  BY DEF Prepare, StatedInv
<1>2. \/ answer'.outcome \in {"denied", "refused"} /\ step' = "done"
      \/ step' = "pay" /\ answer' = answer
  BY DEF Prepare, Report, Going
<1>3. CASE answer'.outcome \in {"denied", "refused"} /\ step' = "done"
  BY <1>1, <1>3, EndingStands DEF Steps
<1>4. CASE step' = "pay" /\ answer' = answer
  <2>1. Bounded' = Bounded
    BY <1>1 DEF Bounded
  <2>2. answer'.outcome # "paid"
    BY <1>1, <1>4 DEF NoAnswer
  <2> QED
    BY <1>1, <1>4, <2>1, <2>2 DEF StatedInv, Steps, BoughtAsStated
<1> QED
  BY <1>2, <1>3, <1>4

LEMMA PayStands == ASSUME StatedInv, Pay PROVE StatedInv'
<1>1. /\ UNCHANGED <<shopper, brief, catalog, mandate, requirements, quote>> /\ step = "pay"
      /\ step' = "done" /\ quote.price \in Nat /\ quote.quantity \in Nat
  BY DEF Pay, Report, StatedInv
<1>2. \/ Authorized
      \/ answer'.outcome \in {"denied", "error"}
  BY DEF Pay, Report
<1>3. CASE Authorized
  <2>1. /\ quote.price * quote.quantity <= brief.limit /\ quote.currency = brief.currency
        /\ Semantic(brief) # {}
        /\ \A i \in DOMAIN brief.hard : SaysSo(brief.hard[i], quote)
    BY <1>1, <1>3, GateIsTheStatement
  <2>2. (\A i \in DOMAIN brief.hard : SaysSo(brief.hard[i], quote))' 
    BY <1>1, <2>1 DEF SaysSo
  <2>3. BoughtAsStated'
    BY <1>1, <2>1, <2>2 DEF BoughtAsStated
  <2>4. Bounded' = Bounded
    BY <1>1 DEF Bounded
  <2> QED
    BY <1>1, <2>3, <2>4 DEF StatedInv, Steps
<1>4. CASE answer'.outcome \in {"denied", "error"}
  BY <1>1, <1>4, EndingStands DEF Steps
<1> QED
  BY <1>2, <1>3, <1>4

LEMMA MoveStands == ASSUME StatedInv, Move PROVE StatedInv'
<1>1. /\ UNCHANGED <<shopper, brief, step, mandate, requirements, quote, answer>> /\ step # "done"
  BY DEF Move
<1>2. DOMAIN catalog' = Variants /\ \A v \in Variants : Counted(catalog'[v])
  <2>1. PICK v \in Variants, entry \in Later : catalog' = [catalog EXCEPT ![v] = entry]
    BY DEF Move
  <2>2. Counted(entry)
    BY CatalogsAssumption
  <2>3. DOMAIN catalog = Variants /\ \A w \in Variants : Counted(catalog[w])
    BY DEF StatedInv
  <2>4. \A w \in Variants : catalog'[w] = IF w = v THEN entry ELSE catalog[w]
    BY <2>1, <2>3
  <2> QED
    BY <2>1, <2>2, <2>3, <2>4
<1>3. Bounded' = Bounded
  BY <1>1 DEF Bounded
<1>4. answer'.outcome # "paid"
  BY <1>1 DEF NoAnswer, StatedInv
<1> QED
  BY <1>1, <1>2, <1>3, <1>4 DEF StatedInv, BoughtAsStated

LEMMA RevokeStands == ASSUME StatedInv, Revoke PROVE StatedInv'
<1>1. /\ UNCHANGED <<shopper, brief, catalog, step, requirements, quote, answer>> /\ step # "done"
  BY DEF Revoke
<1>2. /\ DOMAIN mandate' = DOMAIN mandate
      /\ mandate'.limit = mandate.limit /\ mandate'.ceiling = mandate.ceiling /\ mandate'.currency = mandate.currency
  BY DEF Revoke, StatedInv
<1>3. Bounded' = Bounded
  BY <1>1, <1>2 DEF Bounded
<1>4. answer'.outcome # "paid"
  BY <1>1 DEF NoAnswer, StatedInv
<1> QED
  BY <1>1, <1>2, <1>3, <1>4 DEF StatedInv, BoughtAsStated

LEMMA StatedStands ==
  StatedInv /\ [RequirementsNext]_requirementsVars => StatedInv'
<1> SUFFICES ASSUME StatedInv, [RequirementsNext]_requirementsVars PROVE StatedInv'
  OBVIOUS
<1>1. CASE UNCHANGED requirementsVars
  <2>1. UNCHANGED <<shopper, brief, catalog, step, mandate, requirements, quote, answer>>
    BY <1>1 DEF requirementsVars
  <2>2. Bounded' = Bounded
    BY <2>1 DEF Bounded
  <2>3. BoughtAsStated' = BoughtAsStated
    BY <2>1 DEF BoughtAsStated, SaysSo
  <2> QED
    BY <2>1, <2>2, <2>3 DEF StatedInv
<1>2. CASE RequirementsNext
  BY <1>2, SearchStands, OpenStands, BuyNothingStands, AuthorizeSpendingStands, StateRequirementsStands,
     StateAsAgentStands, QuoteStands, PrepareStands, PayStands, MoveStands, RevokeStands DEF RequirementsNext
<1> QED
  BY <1>1, <1>2

\* create_constraints, authorize_checkout_execution and evaluate_intent_constraints let nothing be
\* paid for that the buyer did not state, whoever authorized more, whatever was stated twice and
\* however the catalog and the mandate moved between.
THEOREM NothingUnstatedIsPaid == RequirementsSpec => []BoughtAsStated
<1>1. StatedInv => BoughtAsStated
  BY DEF StatedInv
<1> QED
  BY <1>1, RequirementsBegin, StatedStands, PTL DEF RequirementsSpec

-----------------------------------------------------------------------------
(***************************************************************************)
(* The three readers, while nothing moves.                                 *)
(***************************************************************************)

\* There is a cheapest candidate, and a first among the cheapest.
LEMMA SelectFinds ==
  ASSUME NEW found, found # {},
         \A c \in found : c.price \in Nat /\ c.variant \in Variants
  PROVE  Select(found) \in found
<1>1. \A v \in Variants : Place(v) \in Nat
  BY ShelfAssumption DEF Variants, Place
<1> DEFINE prices == {c.price : c \in found}
<1>2. prices \in SUBSET Nat /\ prices # {}
  OBVIOUS
<1>3. PICK p \in prices : \A q \in prices : p <= q
  BY <1>2, SmallestNumber
<1> DEFINE cheap == {c \in found : c.price = p}
           places == {Place(c.variant) : c \in cheap}
<1>4. places \in SUBSET Nat /\ places # {}
  BY <1>1, <1>3
<1>5. PICK first \in places : \A q \in places : first <= q
  BY <1>4, SmallestNumber
<1>6. PICK c \in found : c.price = p /\ Place(c.variant) = first
  BY <1>5
<1>7. \A d \in found : c.price < d.price \/ (c.price = d.price /\ Place(c.variant) <= Place(d.variant))
  <2> SUFFICES ASSUME NEW d \in found
               PROVE  c.price < d.price \/ (c.price = d.price /\ Place(c.variant) <= Place(d.variant))
    OBVIOUS
  <2>1. p <= d.price /\ p \in Nat /\ d.price \in Nat
    BY <1>2, <1>3
  <2>2. d.price = p => first <= Place(d.variant)
    BY <1>5
  <2> QED
    BY <1>6, <2>1, <2>2
<1> QED
  BY <1>7 DEF Select

\* A search shorter than a page lists everything.
LEMMA OnePageIsAll ==
  ASSUME Len(Shelf) <= SearchLimit, NEW hits, hits \subseteq DOMAIN Shelf
  PROVE  {i \in hits : Cardinality({j \in hits : j < i}) < SearchLimit} = hits
<1> SUFFICES ASSUME NEW i \in hits PROVE Cardinality({j \in hits : j < i}) < SearchLimit
  OBVIOUS
<1>1. i \in 1..Len(Shelf) /\ Len(Shelf) \in Nat /\ SearchLimit \in Nat
  BY ShelfAssumption
<1>2. {j \in hits : j < i} \subseteq 1..(i - 1)
  BY <1>1, ShelfAssumption
<1>3. IsFiniteSet(1..(i - 1)) /\ Cardinality(1..(i - 1)) = i - 1
  <2>1. 1 \in Int /\ i - 1 \in Int /\ (i - 1) - 1 + 1 = i - 1 /\ (1 > i - 1 => i - 1 = 0)
    BY <1>1
  <2> HIDE <1>1
  <2>2. IsFiniteSet(1..(i - 1)) /\ Cardinality(1..(i - 1)) = IF 1 > i - 1 THEN 0 ELSE (i - 1) - 1 + 1
    BY <2>1, FS_Interval
  <2> QED
    BY <2>1, <2>2
<1>4. Cardinality({j \in hits : j < i}) <= i - 1 /\ IsFiniteSet({j \in hits : j < i})
  BY <1>2, <1>3, FS_Subset
<1>5. Cardinality({j \in hits : j < i}) \in Nat
  BY <1>4, FS_CardinalityType
<1> QED
  BY <1>1, <1>4, <1>5

LEMMA TakenIsSold ==
  ASSUME StatedInv, NEW i \in Hits
  PROVE  /\ Stocked(i).listed /\ Shelf[i] \in Variants /\ Counted(Stocked(i)) /\ brief \in Briefs
         /\ Takes(i) => Sells
  BY ExecutorAndOracle, BriefsAssumption DEF StatedInv, Hits, Stocked, Variants, Takes, Sells

LEMMA CandidatesAreSold ==
  ASSUME StatedInv, Browsed, candidates # {}
  PROVE  Sells
  BY TakenIsSold DEF Browsed

\* Nothing taken of everything that is listed: there was nothing, and only money can be short.
LEMMA NothingIsSold ==
  ASSUME StatedInv, Browsed, listing = {}, candidates = {}
  PROVE  ~Sells /\ (SellsForMore <=> "OVER_BUDGET" \in rejections)
<1>1. brief \in Briefs /\ \A v \in Variants : Counted(catalog[v])
  BY DEF StatedInv
<1>2. ASSUME NEW v \in Variants, Qualifies(brief, catalog[v]) PROVE FALSE
  <2>1. PICK i \in DOMAIN Shelf : v = Shelf[i]
    BY DEF Variants
  <2>2. Stocked(i).listed /\ Stocked(i).sold /\ Assess(brief, Stocked(i)) = "ACCEPTED"
    BY <1>1, <1>2, <2>1, ExecutorAndOracle, BriefsAssumption DEF Stocked, Qualifies
  <2>3. i \in Hits
    BY <2>2 DEF Hits
  <2> QED
    BY <2>2, <2>3 DEF Browsed
<1>3. ASSUME NEW v \in Variants,
             Qualifies([brief EXCEPT !.limit = catalog[v].price * brief.quantity], catalog[v])
      PROVE  "OVER_BUDGET" \in rejections
  <2>1. PICK i \in DOMAIN Shelf : v = Shelf[i]
    BY DEF Variants
  <2>2. Stocked(i).listed /\ Stocked(i).sold
    BY <1>3, <2>1 DEF Stocked, Qualifies
  <2>3. Qualifies(Afford(brief, Stocked(i).price * brief.quantity), Stocked(i))
    BY <1>3, <2>1 DEF Stocked, Afford
  <2>4. Assess(brief, Stocked(i)) \in {"ACCEPTED", "OVER_BUDGET"}
    BY <1>1, <2>1, <2>2, <2>3, ExecutorAndOracle, BriefsAssumption DEF Stocked
  <2>5. i \in Hits
    BY <2>2 DEF Hits
  <2> QED
    BY <2>2, <2>4, <2>5 DEF Browsed
<1>4. ASSUME "OVER_BUDGET" \in rejections PROVE SellsForMore
  <2>1. PICK i \in Hits : Stocked(i).sold /\ Assess(brief, Stocked(i)) = "OVER_BUDGET"
    BY <1>4 DEF Browsed
  <2>2. Stocked(i).listed /\ Shelf[i] \in Variants /\ Counted(Stocked(i))
    BY TakenIsSold
  <2>3. Qualifies(Afford(brief, Stocked(i).price * brief.quantity), Stocked(i))
    BY <1>1, <2>1, <2>2, ExecutorAndOracle, BriefsAssumption
  <2> QED
    BY <2>2, <2>3 DEF Stocked, Afford, SellsForMore
<1> QED
  BY <1>2, <1>3, <1>4 DEF Sells, SellsForMore

\* The gate refuses nothing the executor took, stated and quoted.
LEMMA GatePasses ==
  ASSUME StatedInv, Undisturbed, step \in {"prepare", "pay"}, mandate.active, Semantic(brief) # {}
  PROVE  Authorized
<1>1. PICK i \in Hits : Takes(i) /\ quote = LineOf(i)
  BY DEF Undisturbed
<1>2. /\ Stocked(i).listed /\ Stocked(i).sold /\ Counted(Stocked(i)) /\ brief \in Briefs /\ WellStated(brief)
      /\ Qualifies(brief, Stocked(i))
  BY <1>1, TakenIsSold, ExecutorAndOracle, BriefsAssumption DEF Takes, StatedInv
<1>3. /\ mandate.limit = brief.limit /\ mandate.currency = brief.currency /\ mandate.ceiling = Ceiling(brief)
      /\ requirements = SemanticSpecs(brief.hard) /\ requirements # {}
  BY <1>2, SomethingIsStated DEF Undisturbed
<1>4. /\ quote.quantity = brief.quantity /\ quote.price = Stocked(i).price /\ quote.currency = Stocked(i).currency
      /\ quote.category = Stocked(i).category /\ quote.attributes = Stocked(i).attributes
  BY <1>1 DEF LineOf
<1>5. /\ Stocked(i).currency = brief.currency /\ Stocked(i).price * brief.quantity <= brief.limit
      /\ Ceiling(brief) # 0 => brief.quantity <= Ceiling(brief)
      /\ OfCategory(brief.hard, Stocked(i)) = "met"
      /\ \A k \in Requiring(brief.hard) : OfAttribute(brief.hard[k], Stocked(i)) = "met"
  BY <1>2, OracleAsks DEF WellStated
<1>6. ASSUME NEW rule \in requirements PROVE CheckLine(rule, quote) = "met"
  <2>1. CASE \E k \in Requiring(brief.hard) : rule = brief.hard[k]
    <3>1. PICK k \in Requiring(brief.hard) : rule = brief.hard[k]
      BY <2>1
    <3>2. rule.kind # "allowed_category"
      BY <3>1 DEF Requiring
    <3> QED
      BY <1>4, <1>5, <3>1, <3>2 DEF CheckLine, OfAttribute
  <2>2. CASE ~\E k \in Requiring(brief.hard) : rule = brief.hard[k]
    <3> DEFINE fresh == {Text(brief.hard[j].category) : j \in Fresh(brief.hard)}
    <3>1. /\ Categories(brief.hard) # {}
          /\ rule = [kind |-> "allowed_category", operator |-> "IN", value |-> fresh]
      BY <1>3, <2>2 DEF SemanticSpecs
    <3>2. Stocked(i).category # Unpublished /\ Compare("IN", Allowed(brief.hard), Text(Stocked(i).category)) = "met"
      BY <1>5, <3>1 DEF OfCategory
    <3>3. Compare("IN", fresh, Text(Stocked(i).category)) = "met"
      BY <1>2, <3>2, FoldingIsSafe, BriefsAssumption DEF IsBrief
    <3>4. rule.kind = "allowed_category" /\ rule.operator = "IN" /\ rule.value = fresh
      BY <3>1
    <3> HIDE DEF fresh
    <3> QED
      BY <1>4, <3>2, <3>3, <3>4 DEF CheckLine
  <2> QED
    BY <2>1, <2>2
<1> QED
  BY <1>3, <1>4, <1>5, <1>6 DEF Authorized, Violations

\* What was found stays what it is while neither it nor the catalog changes.
LEMMA BrowsedStands ==
  ASSUME UNCHANGED <<brief, catalog, listing, candidates, rejections>>
  PROVE  /\ Browsed' = Browsed /\ Sells' = Sells /\ SellsForMore' = SellsForMore /\ Hits' = Hits
         /\ \A i : Stocked(i)' = Stocked(i) /\ Takes(i)' = Takes(i) /\ LineOf(i)' = LineOf(i)
<1>1. \A i : Stocked(i)' = Stocked(i)
  BY DEF Stocked
<1>2. Hits' = Hits
  BY DEF Hits, Stocked
<1>3. \A i : Takes(i)' = Takes(i) /\ LineOf(i)' = LineOf(i) /\ Found(i)' = Found(i)
  BY DEF Takes, LineOf, Found, Stocked
<1>4. Browsed' = Browsed
  BY <1>2 DEF Browsed, Takes, Found, Stocked
<1> QED
  BY <1>1, <1>2, <1>3, <1>4 DEF Sells, SellsForMore

\* Nothing is said yet.
LEMMA SilenceAgrees ==
  ASSUME StatedInv, step # "done", answer' = answer
  PROVE  ReadersAgree'
  BY DEF StatedInv, NoAnswer, ReadersAgree

\* Whatever ends the purchase of something chosen, it was there to buy.
LEMMA EndingAgrees ==
  ASSUME StillInv, UNCHANGED <<shopper, brief, catalog, moves, listing, candidates, rejections, mandate, quote>>,
         step \in {"state", "quote", "prepare", "pay"}, step' = "done",
         answer'.outcome # "abstained", answer'.code # "BUDGET_INSUFFICIENT",
         answer'.outcome = "denied" /\ mandate.active /\ shopper = "reference" /\ moves = 0 => Semantic(brief) = {}
  PROVE  ReadersAgree' /\ (shopper' = "reference" /\ moves' = 0 => Undisturbed')
<1>1. CASE ~(shopper = "reference" /\ moves = 0)
  BY <1>1 DEF ReadersAgree
<1>2. CASE shopper = "reference" /\ moves = 0
  <2>1. Browsed /\ candidates # {} /\ StatedInv
    BY <1>2 DEF StillInv, Undisturbed
  <2>2. Sells' /\ Browsed'
    BY <2>1, CandidatesAreSold, BrowsedStands
  <2>3. Semantic(brief)' = Semantic(brief)
    BY DEF Semantic
  <2>4. ReadersAgree'
    BY <1>2, <2>2, <2>3 DEF ReadersAgree
  <2> QED
    BY <2>2, <2>4 DEF Undisturbed
<1> QED
  BY <1>1, <1>2

LEMMA SearchAgrees ==
  ASSUME StillInv, Search, Len(Shelf) <= SearchLimit
  PROVE  ReadersAgree' /\ (shopper' = "reference" /\ moves' = 0 => Undisturbed')
<1>1. /\ UNCHANGED <<shopper, brief, catalog, moves, candidates, rejections, answer>>
      /\ step = "search" /\ step' = "open" /\ StatedInv
  BY DEF Search, Going, StillInv
<1>2. ReadersAgree'
  BY <1>1, SilenceAgrees
<1>3. listing' = Hits
  BY OnePageIsAll DEF Search, Hits, Stocked
<1>4. Hits' = Hits
  BY <1>1 DEF Hits, Stocked
<1>5. shopper = "reference" /\ moves = 0 => candidates = {} /\ rejections = {}
  BY <1>1 DEF StillInv, Undisturbed
<1>6. shopper' = "reference" /\ moves' = 0 => Browsed'
  BY <1>1, <1>3, <1>4, <1>5 DEF Browsed
<1> QED
  BY <1>1, <1>2, <1>6 DEF Undisturbed

\* One more hit is opened, and found or rejected for what it is.
LEMMA OpenAgrees ==
  ASSUME StillInv, Open
  PROVE  ReadersAgree' /\ (shopper' = "reference" /\ moves' = 0 => Undisturbed')
<1>1. /\ UNCHANGED <<shopper, brief, catalog, moves, step, answer>>
      /\ step = "open" /\ StatedInv
  BY DEF Open, StillInv
<1>2. ReadersAgree'
  BY <1>1, SilenceAgrees
<1>3. SUFFICES ASSUME shopper = "reference", moves = 0 PROVE Browsed'
  BY <1>1, <1>2 DEF Undisturbed
<1>4. Browsed
  BY <1>1, <1>3 DEF StillInv, Undisturbed
<1>5. PICK i \in listing :
        LET v == Shelf[i]
            offered == catalog[v].listed /\ catalog[v].sold
            finding == Assess(brief, catalog[v])
        IN  /\ candidates' = IF offered /\ finding = "ACCEPTED"
                             THEN candidates \cup {[variant |-> v, price |-> catalog[v].price * brief.quantity]}
                             ELSE candidates
            /\ rejections' = IF offered /\ finding # "ACCEPTED" THEN rejections \cup {finding} ELSE rejections
            /\ listing' = listing \ {i}
  BY DEF Open
<1>6. i \in Hits /\ Stocked(i).listed
  BY <1>4, <1>5 DEF Browsed, Hits
<1>7. /\ candidates' = IF Takes(i) THEN candidates \cup {Found(i)} ELSE candidates
      /\ rejections' = IF Stocked(i).sold /\ Assess(brief, Stocked(i)) # "ACCEPTED"
                       THEN rejections \cup {Assess(brief, Stocked(i))} ELSE rejections
      /\ listing' = listing \ {i}
  BY <1>5, <1>6 DEF Takes, Found, Stocked
<1>8. /\ Hits' = Hits
      /\ \A k : Stocked(k)' = Stocked(k) /\ Takes(k)' = Takes(k) /\ Found(k)' = Found(k)
  BY <1>1 DEF Hits, Stocked, Takes, Found
<1>9. Hits \ listing' = (Hits \ listing) \cup {i}
  BY <1>6, <1>7
<1>10. listing' \subseteq Hits
  BY <1>4, <1>7 DEF Browsed
<1>11. \A c \in candidates' : \E k \in Hits \ listing' : Takes(k) /\ c = Found(k)
  BY <1>4, <1>7, <1>9 DEF Browsed
<1>12. \A r \in rejections' : \E k \in Hits \ listing' : Stocked(k).sold /\ r = Assess(brief, Stocked(k)) /\ r # "ACCEPTED"
  BY <1>4, <1>7, <1>9 DEF Browsed
<1>13. \A k \in Hits \ listing' : Stocked(k).sold =>
         IF Assess(brief, Stocked(k)) = "ACCEPTED" THEN Found(k) \in candidates' ELSE Assess(brief, Stocked(k)) \in rejections'
  BY <1>4, <1>7, <1>9 DEF Browsed, Takes
<1> QED
  BY <1>1, <1>8, <1>10, <1>11, <1>12, <1>13 DEF Browsed

\* _abstention names money exactly when money was what was short.
LEMMA BuyNothingAgrees ==
  ASSUME StillInv, BuyNothing
  PROVE  ReadersAgree' /\ (shopper' = "reference" /\ moves' = 0 => Undisturbed')
<1>1. /\ UNCHANGED <<shopper, brief, catalog, moves, listing, candidates, rejections>>
      /\ step = "open" /\ step' = "done" /\ listing = {} /\ candidates = {} /\ StatedInv
      /\ answer'.outcome = "abstained" /\ answer'.code = Abstention
  BY DEF BuyNothing, Report, StillInv
<1>2. SUFFICES ASSUME shopper = "reference", moves = 0 PROVE ReadersAgree' /\ Undisturbed'
  BY <1>1 DEF ReadersAgree
<1>3. Browsed
  BY <1>1, <1>2 DEF StillInv, Undisturbed
<1>4. ~Sells /\ (SellsForMore <=> "OVER_BUDGET" \in rejections)
  BY <1>1, <1>3, NothingIsSold
<1>5. Browsed' /\ ~Sells' /\ (SellsForMore' <=> "OVER_BUDGET" \in rejections)
  BY <1>1, <1>3, <1>4, BrowsedStands
<1>6. Abstention = "BUDGET_INSUFFICIENT" <=> "OVER_BUDGET" \in rejections
  BY DEF Abstention
<1> QED
  BY <1>1, <1>5, <1>6 DEF ReadersAgree, Undisturbed

LEMMA AuthorizeSpendingAgrees ==
  ASSUME StillInv, AuthorizeSpending
  PROVE  ReadersAgree' /\ (shopper' = "reference" /\ moves' = 0 => Undisturbed')
<1>1. /\ UNCHANGED <<shopper, brief, catalog, moves, listing, candidates, rejections, answer>>
      /\ step \in {"open", "authorize"} /\ step' = "state" /\ StatedInv
  BY DEF AuthorizeSpending, Going, StillInv
<1>2. ReadersAgree'
  BY <1>1, SilenceAgrees
<1>3. SUFFICES ASSUME shopper = "reference", moves = 0 PROVE Undisturbed'
  BY <1>1, <1>2
<1>4. step = "open"
  BY <1>1, <1>3 DEF StatedInv
<1>5. Browsed'
  BY <1>1, <1>3, <1>4, BrowsedStands DEF StillInv, Undisturbed
<1>6. /\ listing = {} /\ candidates # {}
      /\ mandate'.limit = brief.limit /\ mandate'.currency = brief.currency /\ mandate'.ceiling = Ceiling(brief)
  BY <1>4 DEF AuthorizeSpending
<1>7. Ceiling(brief)' = Ceiling(brief)
  BY <1>1 DEF Ceiling
<1> QED
  BY <1>1, <1>5, <1>6, <1>7 DEF Undisturbed

LEMMA StateRequirementsAgrees ==
  ASSUME StillInv, StateRequirements
  PROVE  ReadersAgree' /\ (shopper' = "reference" /\ moves' = 0 => Undisturbed')
<1>1. /\ UNCHANGED <<shopper, brief, catalog, moves, listing, candidates, rejections, mandate, quote>>
      /\ step = "state" /\ StatedInv
  BY DEF StateRequirements, StillInv
<1>2. \/ /\ step' = "quote" /\ answer' = answer
         /\ Semantic(brief) # {} => requirements' = SemanticSpecs(brief.hard)
      \/ /\ step' = "done" /\ answer'.outcome \in {"raised", "error"} /\ answer'.code # "BUDGET_INSUFFICIENT"
  <2>1. Reply(brief.hard, {}) # "BUDGET_INSUFFICIENT"
    BY DEF Reply
  <2> QED
    BY <2>1 DEF StateRequirements, Going, Report
<1>3. CASE step' = "done" /\ answer'.outcome \in {"raised", "error"} /\ answer'.code # "BUDGET_INSUFFICIENT"
  BY <1>1, <1>3, EndingAgrees
<1>4. CASE /\ step' = "quote" /\ answer' = answer
           /\ Semantic(brief) # {} => requirements' = SemanticSpecs(brief.hard)
  <2>1. ReadersAgree'
    BY <1>1, <1>4, SilenceAgrees
  <2>2. SUFFICES ASSUME shopper = "reference", moves = 0 PROVE Undisturbed'
    BY <1>1, <2>1
  <2>3. Browsed'
    BY <1>1, <2>2, BrowsedStands DEF StillInv, Undisturbed
  <2>4. Semantic(brief)' = Semantic(brief) /\ Ceiling(brief)' = Ceiling(brief)
        /\ SemanticSpecs(brief.hard)' = SemanticSpecs(brief.hard)
    BY <1>1 DEF Semantic, Ceiling, SemanticSpecs, Requiring, Categories, Fresh
  <2> QED
    BY <1>1, <1>4, <2>2, <2>3, <2>4 DEF StillInv, Undisturbed
<1> QED
  BY <1>2, <1>3, <1>4

LEMMA StateAsAgentAgrees ==
  ASSUME StillInv, StateAsAgent
  PROVE  ReadersAgree' /\ (shopper' = "reference" /\ moves' = 0 => Undisturbed')
  BY DEF StateAsAgent, ReadersAgree

\* The cheapest of what was found is still for sale, and quoted as it was found.
LEMMA QuoteAgrees ==
  ASSUME StillInv, Quote
  PROVE  ReadersAgree' /\ (shopper' = "reference" /\ moves' = 0 => Undisturbed')
<1>1. /\ UNCHANGED <<shopper, brief, catalog, moves, listing, candidates, rejections, mandate, requirements>>
      /\ step = "quote" /\ StatedInv
  BY DEF Quote, StillInv
<1>2. CASE ~(shopper = "reference" /\ moves = 0)
  BY <1>1, <1>2 DEF ReadersAgree
<1>3. CASE shopper = "reference" /\ moves = 0
  <2>1. Undisturbed /\ Browsed /\ candidates # {} /\ listing = {}
    BY <1>1, <1>3 DEF StillInv, Undisturbed
  <2>2. \A c \in candidates : c.price \in Nat /\ c.variant \in Variants
    <3> SUFFICES ASSUME NEW c \in candidates PROVE c.price \in Nat /\ c.variant \in Variants
      OBVIOUS
    <3>1. PICK i \in Hits : c = Found(i)
      BY <2>1 DEF Browsed
    <3>2. Shelf[i] \in Variants /\ Stocked(i).price \in Nat /\ brief.quantity \in Nat
      BY <1>1, TakenIsSold, BriefsAssumption DEF IsBrief, Counted
    <3>3. Stocked(i).price * brief.quantity \in Nat
      BY <3>2
    <3> QED
      BY <3>1, <3>2, <3>3 DEF Found
  <2>3. PICK i \in Hits : Takes(i) /\ Select(candidates) = Found(i)
    BY <2>1, <2>2, SelectFinds DEF Browsed
  <2>4. Select(candidates).variant = Shelf[i]
    BY <2>3 DEF Found
  <2>5. Refusal(Shelf[i], brief.quantity) = "none"
    <3>1. Stocked(i).listed /\ Stocked(i).sold /\ Counted(Stocked(i)) /\ brief \in Briefs /\ Qualifies(brief, Stocked(i))
      BY <1>1, <2>3, TakenIsSold, ExecutorAndOracle, BriefsAssumption DEF Takes
    <3>2. Stocked(i).stock >= brief.quantity /\ brief.quantity \in Nat /\ Stocked(i).stock \in Nat
      BY <3>1, BriefsAssumption DEF IsBrief, Qualifies, Counted
    <3> QED
      BY <3>1, <3>2 DEF Refusal, Stocked
  <2>6. quote' = LineOf(i) /\ step' = "prepare" /\ answer' = answer
    <3>1. PICK v \in Variants, quantity \in {brief.quantity, brief.quantity + 1} :
            /\ v = Select(candidates).variant /\ quantity = brief.quantity
            /\ IF Refusal(v, quantity) # "none" THEN Report("refused", Refusal(v, quantity)) /\ UNCHANGED quote
               ELSE /\ quote' = [variant |-> v, quantity |-> quantity, price |-> catalog[v].price,
                                 currency |-> catalog[v].currency, category |-> catalog[v].category,
                                 attributes |-> catalog[v].attributes]
                    /\ Going("prepare")
      BY <1>3 DEF Quote
    <3>2. v = Shelf[i] /\ quantity = brief.quantity
      BY <3>1, <2>4
    <3> QED
      BY <2>5, <3>1, <3>2 DEF Going, LineOf, Stocked
  <2>7. ReadersAgree'
    BY <1>1, <2>6, SilenceAgrees
  <2>8. Browsed' /\ Takes(i)' /\ quote' = LineOf(i)' /\ i \in Hits'
    BY <1>1, <2>1, <2>3, <2>6, BrowsedStands
  <2>9. Semantic(brief)' = Semantic(brief) /\ Ceiling(brief)' = Ceiling(brief)
        /\ SemanticSpecs(brief.hard)' = SemanticSpecs(brief.hard)
    BY <1>1 DEF Semantic, Ceiling, SemanticSpecs, Requiring, Categories, Fresh
  <2>10. /\ listing' = {} /\ candidates' # {}
         /\ mandate'.limit = brief'.limit /\ mandate'.currency = brief'.currency /\ mandate'.ceiling = Ceiling(brief)'
         /\ Semantic(brief)' # {} => requirements' = SemanticSpecs(brief.hard)'
    BY <1>1, <2>1, <2>9 DEF Undisturbed
  <2>11. \E k \in Hits' : Takes(k)' /\ quote' = LineOf(k)'
    BY <2>8
  <2> QED
    BY <2>6, <2>7, <2>8, <2>10, <2>11 DEF Undisturbed
<1> QED
  BY <1>2, <1>3

\* The gate judges the quoted line, once before and once at the payment.
LEMMA GatesAgree ==
  ASSUME StillInv, Prepare \/ Pay
  PROVE  ReadersAgree' /\ (shopper' = "reference" /\ moves' = 0 => Undisturbed')
<1>1. /\ UNCHANGED <<shopper, brief, catalog, moves, listing, candidates, rejections, mandate, requirements, quote>>
      /\ step \in {"prepare", "pay"} /\ StatedInv
  BY DEF Prepare, Pay, StillInv
<1>2. \/ /\ step' = "done" /\ answer'.outcome # "abstained" /\ answer'.code # "BUDGET_INSUFFICIENT"
         /\ answer'.outcome = "denied" => ~Authorized
      \/ step' = "pay" /\ answer' = answer
  BY DEF Prepare, Pay, Report, Going
<1>3. CASE /\ step' = "done" /\ answer'.outcome # "abstained" /\ answer'.code # "BUDGET_INSUFFICIENT"
           /\ answer'.outcome = "denied" => ~Authorized
  <2>1. answer'.outcome = "denied" /\ mandate.active /\ shopper = "reference" /\ moves = 0 => Semantic(brief) = {}
    BY <1>1, <1>3, GatePasses DEF StillInv
  <2> QED
    BY <1>1, <1>3, <2>1, EndingAgrees
<1>4. CASE step' = "pay" /\ answer' = answer
  <2>1. ReadersAgree'
    BY <1>1, <1>4, SilenceAgrees
  <2>2. SUFFICES ASSUME shopper = "reference", moves = 0 PROVE Undisturbed'
    BY <1>1, <2>1
  <2>3. Undisturbed /\ Browsed
    BY <1>1, <2>2 DEF StillInv, Undisturbed
  <2>4. Browsed' /\ \E i \in Hits' : Takes(i)' /\ quote' = LineOf(i)'
    <3>1. PICK i \in Hits : Takes(i) /\ quote = LineOf(i)
      BY <1>1, <2>3 DEF Undisturbed
    <3> QED
      BY <1>1, <2>3, <3>1, BrowsedStands
  <2>5. Semantic(brief)' = Semantic(brief) /\ Ceiling(brief)' = Ceiling(brief)
        /\ SemanticSpecs(brief.hard)' = SemanticSpecs(brief.hard)
    BY <1>1 DEF Semantic, Ceiling, SemanticSpecs, Requiring, Categories, Fresh
  <2>6. /\ listing' = {} /\ candidates' # {}
        /\ mandate'.limit = brief'.limit /\ mandate'.currency = brief'.currency /\ mandate'.ceiling = Ceiling(brief)'
        /\ Semantic(brief)' # {} => requirements' = SemanticSpecs(brief.hard)'
    BY <1>1, <2>3, <2>5 DEF Undisturbed
  <2> QED
    BY <1>4, <2>4, <2>6 DEF Undisturbed
<1> QED
  BY <1>2, <1>3, <1>4

LEMMA MoveAgrees ==
  ASSUME StillInv, Move
  PROVE  ReadersAgree' /\ (shopper' = "reference" /\ moves' = 0 => Undisturbed')
  BY DEF Move, StillInv, ReadersAgree

\* A revoked mandate keeps its terms.
LEMMA RevokeAgrees ==
  ASSUME StillInv, Revoke
  PROVE  ReadersAgree' /\ (shopper' = "reference" /\ moves' = 0 => Undisturbed')
<1>1. /\ UNCHANGED <<shopper, brief, catalog, moves, step, listing, candidates, rejections, requirements, quote, answer>>
      /\ step # "done" /\ StatedInv
  BY DEF Revoke, StillInv
<1>2. /\ mandate'.limit = mandate.limit /\ mandate'.ceiling = mandate.ceiling /\ mandate'.currency = mandate.currency
  BY <1>1 DEF Revoke, StatedInv
<1>3. ReadersAgree'
  BY <1>1, SilenceAgrees
<1>4. Undisturbed => Undisturbed'
  <2>1. Browsed' = Browsed /\ Hits' = Hits /\ \A i : Takes(i)' = Takes(i) /\ LineOf(i)' = LineOf(i)
    BY <1>1, BrowsedStands
  <2>2. Semantic(brief)' = Semantic(brief) /\ Ceiling(brief)' = Ceiling(brief)
        /\ SemanticSpecs(brief.hard)' = SemanticSpecs(brief.hard)
    BY <1>1 DEF Semantic, Ceiling, SemanticSpecs, Requiring, Categories, Fresh
  <2> QED
    BY <1>1, <1>2, <2>1, <2>2 DEF Undisturbed
<1> QED
  BY <1>1, <1>3, <1>4 DEF StillInv

LEMMA StillBegins == RequirementsInit => StillInv
<1> SUFFICES ASSUME RequirementsInit PROVE StillInv
  OBVIOUS
<1>1. StatedInv
  BY RequirementsBegin
<1>2. /\ moves = 0 /\ answer.outcome = "none" /\ candidates = {} /\ rejections = {}
      /\ shopper = "reference" => step = "search"
  BY DEF RequirementsInit, NoAnswer
<1> QED
  BY <1>1, <1>2 DEF StillInv, ReadersAgree, Undisturbed

LEMMA StillStands ==
  ASSUME Len(Shelf) <= SearchLimit, StillInv, [RequirementsNext]_requirementsVars
  PROVE  StillInv'
<1>1. StatedInv'
  BY StatedStands DEF StillInv
<1>2. moves' \in Nat
  BY DEF StillInv, RequirementsNext, requirementsVars, Search, Open, BuyNothing, AuthorizeSpending,
         StateRequirements, StateAsAgent, Quote, Prepare, Pay, Move, Revoke
<1>3. CASE UNCHANGED requirementsVars
  <2>1. UNCHANGED <<shopper, brief, catalog, moves, step, listing, candidates, rejections, mandate, requirements, quote, answer>>
    BY <1>3 DEF requirementsVars
  <2>2. Semantic(brief)' = Semantic(brief) /\ Ceiling(brief)' = Ceiling(brief)
        /\ SemanticSpecs(brief.hard)' = SemanticSpecs(brief.hard)
    BY <2>1 DEF Semantic, Ceiling, SemanticSpecs, Requiring, Categories, Fresh
  <2>3. /\ Browsed' = Browsed /\ Sells' = Sells /\ SellsForMore' = SellsForMore /\ Hits' = Hits
        /\ \A i : Takes(i)' = Takes(i) /\ LineOf(i)' = LineOf(i)
    BY <2>1, BrowsedStands
  <2>4. Undisturbed' = Undisturbed
    BY <2>1, <2>2, <2>3 DEF Undisturbed
  <2>5. ReadersAgree' = ReadersAgree
    BY <2>1, <2>2, <2>3 DEF ReadersAgree
  <2> QED
    BY <1>1, <1>2, <2>1, <2>4, <2>5 DEF StillInv
<1>4. CASE RequirementsNext
  <2>1. ReadersAgree' /\ (shopper' = "reference" /\ moves' = 0 => Undisturbed')
    BY <1>4, SearchAgrees, OpenAgrees, BuyNothingAgrees, AuthorizeSpendingAgrees, StateRequirementsAgrees,
       StateAsAgentAgrees, QuoteAgrees, GatesAgree, MoveAgrees, RevokeAgrees DEF RequirementsNext
  <2> QED
    BY <1>1, <1>2, <2>1 DEF StillInv
<1> QED
  BY <1>3, <1>4

\* Where one search shows the whole catalog, assess, satisfies and evaluate_intent_constraints give
\* one answer while nothing moves: the executor is not denied what it stated, it buys nothing
\* exactly when the oracle says that there is nothing, and it names money exactly when money was
\* what was short.
THEOREM ThreeReadersAgree ==
  ASSUME Len(Shelf) <= SearchLimit
  PROVE  RequirementsSpec => []ReadersAgree
<1>1. StillInv => ReadersAgree
  BY DEF StillInv
<1>2. StillInv /\ [RequirementsNext]_requirementsVars => StillInv'
  BY StillStands
<1> QED
  BY <1>1, <1>2, StillBegins, PTL DEF RequirementsSpec

(***************************************************************************)
(* An import of a site: what is read of one page.                          *)
(***************************************************************************)

\* What is left of a division that leaves nothing.
LEMMA WholeQuotient ==
  ASSUME NEW x \in Int, NEW y \in Nat \ {0}, x % y = 0
  PROVE  (x \div y) * y = x
  OBVIOUS

\* An amount that is not refused is the published one, to the last digit.
LEMMA MinorIsExact ==
  ASSUME NEW price, NEW code, Money(price), AmountRefusal(price, code) = "none"
  PROVE  price # <<>> /\ Minor(price, code) * price[2] = price[1] * Subunits[code]
<1>1. price # <<>> /\ code \in DOMAIN Subunits /\ Exact(price, code)
  BY DEF AmountRefusal, CurrencyRefusal
<1>2. price[1] \in Int /\ price[2] \in Nat \ {0} /\ Subunits[code] \in Nat
  BY <1>1, LimitsOfImport DEF Money
<1>3. Shifted(price, code) \in Int /\ Shifted(price, code) % price[2] = 0
  BY <1>1, <1>2 DEF Exact, Shifted
<1>4. Minor(price, code) * price[2] = Shifted(price, code)
  BY <1>2, <1>3, WholeQuotient DEF Minor
<1> QED
  BY <1>1, <1>4 DEF Shifted

\* Of a finite set of numbers, those with fewer than n before them are between one and n.
LEMMA FirstFew ==
  ASSUME NEW S \in SUBSET Nat, IsFiniteSet(S), S # {}, NEW n \in Nat \ {0},
         NEW T, T = {i \in S : Cardinality({j \in S : j < i}) < n}
  PROVE  IsFiniteSet(T) /\ Cardinality(T) \in 1..n
<1>1. PICK first \in S : \A y \in S : first <= y
  BY SmallestNumber
<1>2. first \in T
  <2>1. {j \in S : j < first} = {}
    <3> SUFFICES ASSUME NEW j \in S, j < first PROVE FALSE
      OBVIOUS
    <3>1. j \in Nat /\ first \in Nat /\ first <= j
      BY <1>1
    <3> QED
      BY <3>1
  <2>2. Cardinality({j \in S : j < first}) = 0
    BY <2>1, FS_EmptySet
  <2> QED
    BY <2>2
<1>3. IsFiniteSet(T) /\ T \in SUBSET Nat /\ T # {}
  BY <1>2, FS_Subset
<1>4. PICK last \in T : \A y \in T : last >= y
  BY <1>3, LargestNumber
<1> DEFINE Lower == {j \in S : j < last}
<1>5. IsFiniteSet(Lower) /\ Cardinality(Lower) \in Nat /\ Cardinality(Lower) < n
  BY <1>4, FS_Subset, FS_CardinalityType
<1>6. T \ {last} \subseteq Lower
  BY <1>3, <1>4
<1>7. Cardinality(T \ {last}) <= Cardinality(Lower)
  BY <1>5, <1>6, FS_Subset
<1>8. Cardinality(T \ {last}) = Cardinality(T) - 1 /\ Cardinality(T) \in Nat
  BY <1>3, <1>4, FS_RemoveElement, FS_CardinalityType
<1>9. Cardinality(T \ {last}) \in Nat
  BY <1>3, FS_RemoveElement, FS_CardinalityType
<1> QED
  BY <1>3, <1>5, <1>7, <1>8, <1>9

(***************************************************************************)
(* One product.                                                            *)
(***************************************************************************)

LEMMA EntriesAreNumbered ==
  ASSUME NEW node, IsNode(node)
  PROVE  Entries(node) \in SUBSET Nat /\ IsFiniteSet(Entries(node))
<1>1. DOMAIN node.variants = 1..Len(node.variants) /\ Len(node.variants) \in Nat
  BY DEF IsNode, IsSeq
<1>2. DOMAIN node.offers = 1..Len(node.offers) /\ Len(node.offers) \in Nat
  BY DEF IsNode, IsSeq
<1>3. IsFiniteSet(DOMAIN node.variants) /\ IsFiniteSet(DOMAIN node.offers)
  BY <1>1, <1>2, FS_Interval
<1>4. IsFiniteSet(Offered(node))
  BY <1>3, FS_Subset DEF Offered
<1> QED
  BY <1>1, <1>2, <1>3, <1>4 DEF Entries, Offered

\* What nothing stopped was read whole.
LEMMA ReadWhole ==
  ASSUME NEW node, NEW url, NEW ids, IsNode(node), ReadRefusal(node, url, ids) = "none"
  PROVE  Readable(node, url, ids) = Entries(node)
<1> DEFINE read == Readable(node, url, ids)
           rest == Entries(node) \ read
           first == CHOOSE i \in rest : \A j \in rest : i <= j
<1>1. read \subseteq Described(node, url) /\ read \subseteq Entries(node)
  BY DEF Readable, Described
<1>2. CASE rest # {}
  <2>1. rest \in SUBSET Nat
    BY EntriesAreNumbered
  <2>2. \E i \in rest : \A j \in rest : i <= j
    BY <1>2, <2>1, SmallestNumber
  <2>3. first \in rest /\ \A j \in rest : first <= j
    BY <2>2
  <2>4. ReadRefusal(node, url, ids) =
          IF first \in Described(node, url) THEN Clash(node, first, url, ids) ELSE VariantRefusal(node, first, url)
    BY <1>2 DEF ReadRefusal, RefusalOfFirst
  <2> HIDE DEF first
  <2>5. CASE first \in Described(node, url)
    <3>1. PICK j \in Described(node, url) : j <= first /\ Clash(node, j, url, ids) # "none"
      BY <2>3, <2>5 DEF Readable
    <3>a. j \in Entries(node) /\ j <= j
      BY EntriesAreNumbered DEF Described
    <3>b. j \notin Readable(node, url, ids)
      BY <3>1, <3>a DEF Readable
    <3>2. j \in rest
      BY <3>a, <3>b
    <3>3. j = first
      BY <2>1, <2>3, <3>1, <3>2
    <3> QED
      BY <2>4, <2>5, <3>1, <3>3
  <2>6. CASE first \notin Described(node, url)
    <3>1. PICK j \in Entries(node) : j <= first /\ VariantRefusal(node, j, url) # "none"
      BY <2>3, <2>6 DEF Described
    <3>2. j \notin Described(node, url)
      BY <3>1, <2>1, EntriesAreNumbered DEF Described
    <3>3. j \in rest
      BY <1>1, <3>1, <3>2
    <3>4. j = first
      BY <2>1, <2>3, <3>1, <3>3
    <3> QED
      BY <2>4, <2>6, <3>1, <3>4
  <2> QED
    BY <2>5, <2>6
<1> QED
  BY <1>1, <1>2

\* A variant that was read has a SKU of its own, and an identifier that is nobody else's.
LEMMA ReadApart ==
  ASSUME NEW node, NEW url, NEW ids, IsNode(node),
         NEW i \in Readable(node, url, ids), NEW j \in Readable(node, url, ids), j < i
  PROVE  /\ Variant(node, i, url).sku # Variant(node, j, url).sku
         /\ ~ Collides({<<Variant(node, j, url).sku, Variant(node, j, url).raw>>}, Variant(node, i, url).raw)
<1>1. i \in Described(node, url) /\ j \in Described(node, url) /\ i \in Nat
  BY EntriesAreNumbered DEF Readable, Described
<1>2. Clash(node, i, url, ids) = "none"
  BY <1>1 DEF Readable
<1> DEFINE earlier == {k \in Described(node, url) : k < i}
<1>3. j \in earlier
  BY <1>1
<1>4. ~ Collides(ids \cup TakenBy(node, url, earlier), Variant(node, i, url).raw)
  BY <1>2 DEF Clash, ClashAmong
<1>5. {k \in earlier : Variant(node, k, url).sku = Variant(node, i, url).sku} = {}
  BY <1>2, <1>4 DEF Clash, ClashAmong
<1>6. <<Variant(node, j, url).sku, Variant(node, j, url).raw>> \in TakenBy(node, url, earlier)
  BY <1>3 DEF TakenBy
<1> HIDE DEF earlier
<1> QED
  BY <1>3, <1>4, <1>5, <1>6 DEF Collides

LEMMA ReadFresh ==
  ASSUME NEW node, NEW url, NEW ids, IsNode(node), NEW i \in Readable(node, url, ids)
  PROVE  ~ Collides(ids, Variant(node, i, url).raw)
<1>1. i \in Described(node, url) /\ i \in Nat
  BY EntriesAreNumbered DEF Readable, Described
<1>2. Clash(node, i, url, ids) = "none"
  BY <1>1 DEF Readable
<1>4. ~ Collides(ids \cup TakenBy(node, url, {k \in Described(node, url) : k < i}), Variant(node, i, url).raw)
  BY <1>2 DEF Clash, ClashAmong
<1> QED
  BY <1>4 DEF Collides

LEMMA VariantNamed ==
  ASSUME NEW node, NEW i, NEW url
  PROVE  Variant(node, i, url).sku = Candidate[Variant(node, i, url).raw]
  BY DEF Variant

LEMMA ReadKnows ==
  ASSUME NEW node, NEW url, NEW ids, IsNode(node), OneMeaning(ids), \A t \in ids : t[1] = Candidate[t[2]]
  PROVE  LET now == ids \cup TakenBy(node, url, Readable(node, url, ids))
         IN  OneMeaning(now) /\ \A t \in now : t[1] = Candidate[t[2]]
<1> DEFINE read == Readable(node, url, ids)
           now == ids \cup TakenBy(node, url, read)
           V(i) == Variant(node, i, url)
<1>1. \A t \in TakenBy(node, url, read) : \E i \in read : t = <<V(i).sku, V(i).raw>>
  BY DEF TakenBy
<1>2. \A t \in now : t[1] = Candidate[t[2]]
  BY <1>1, VariantNamed
<1>3. ASSUME NEW t \in now, NEW u \in now, t[1] = u[1], t[2] # u[2] PROVE FALSE
  <2>1. CASE t \in ids /\ u \in ids
    BY <1>3, <2>1 DEF OneMeaning
  <2>2. ASSUME NEW i \in read, NEW r \in ids, r[1] = V(i).sku PROVE r[2] = V(i).raw
    BY <2>2, ReadFresh, VariantNamed DEF Collides
  <2>3. ASSUME NEW i \in read, NEW j \in read, V(i).sku = V(j).sku PROVE V(i).raw = V(j).raw
    <3>1. i \in Nat /\ j \in Nat
      BY EntriesAreNumbered DEF Readable, Described
    <3>2. ~ (j < i) /\ ~ (i < j)
      BY <2>3, ReadApart
    <3> QED
      BY <3>1, <3>2
  <2> HIDE DEF read, V
  <2>4. CASE t \notin ids /\ u \notin ids
    <3>1. PICK i \in read : t = <<V(i).sku, V(i).raw>>
      BY <1>1, <2>4
    <3>2. PICK j \in read : u = <<V(j).sku, V(j).raw>>
      BY <1>1, <2>4
    <3> QED
      BY <1>3, <2>3, <3>1, <3>2
  <2>5. CASE t \in ids /\ u \notin ids
    BY <1>1, <1>3, <2>2, <2>5
  <2>6. CASE t \notin ids /\ u \in ids
    BY <1>1, <1>3, <2>2, <2>6
  <2> QED
    BY <2>1, <2>4, <2>5, <2>6
<1> QED
  BY <1>2, <1>3 DEF OneMeaning

\* What stands for one variant is what its page published, at its price.
LEMMA OfferOfEntry ==
  ASSUME NEW node, IsNode(node), NEW i \in Entries(node), Len(EntryAt(node, i).offers) = 1
  PROVE  OfferAt(node, i) \in Offers(node)
<1>1. CASE Offered(node) # {}
  <2>1. i \in DOMAIN node.variants /\ EntryAt(node, i) = node.variants[i]
    BY <1>1 DEF Entries, Offered, EntryAt
  <2>2. node.variants[i] \in Range(node.variants)
    BY <2>1 DEF Range
  <2>3. IsSeq(node.variants[i].offers)
    BY <2>2 DEF IsNode
  <2>4. 1 \in DOMAIN node.variants[i].offers
    BY <2>1, <2>3 DEF IsSeq
  <2>5. OfferAt(node, i) \in Range(node.variants[i].offers)
    BY <2>1, <2>4 DEF OfferAt, Range
  <2> QED
    BY <2>1, <2>5 DEF Offers
<1>2. CASE Offered(node) = {}
  <2>1. i \in DOMAIN node.offers /\ OfferAt(node, i) = node.offers[i]
    BY <1>2 DEF Entries, EntryAt, OfferAt
  <2> QED
    BY <2>1 DEF Offers, Range
<1> QED
  BY <1>1, <1>2

LEMMA PriceOfPage ==
  ASSUME NEW p, NEW page \in Range(request), page.url = p.url, NEW price, NEW code,
         Money(price), AmountRefusal(price, code) = "none", <<price, code>> \in Published(page)
  PROVE  PriceIsPublished(p, <<Minor(price, code), code>>)
<1>1. price # <<>> /\ Minor(price, code) * price[2] = price[1] * Subunits[code]
  BY MinorIsExact
<1> DEFINE q == <<price, code>>
           m == <<Minor(price, code), code>>
<1>2. /\ q \in Published(page) /\ q[1] # <<>> /\ q[2] = m[2]
      /\ m[1] * q[1][2] = q[1][1] * Subunits[m[2]]
  BY <1>1
<1> HIDE DEF q, m
<1>3. PriceIsPublished(p, m)
  BY <1>2 DEF PriceIsPublished
<1> QED
  BY <1>3 DEF m

LEMMA ReadPriced ==
  ASSUME NEW page \in Range(request), IsPage(page), NEW n \in DOMAIN page.nodes, NEW node, node = page.nodes[n],
         NEW ids, NEW i \in Readable(node, page.url, ids), NEW p, p.url = page.url
  PROVE  PriceIsPublished(p, Variant(node, i, page.url).price)
<1>1. IsNode(node)
  BY DEF IsPage
<1>2. i \in Entries(node) /\ i <= i
  BY <1>1, EntriesAreNumbered DEF Readable, Described
<1>3. VariantRefusal(node, i, page.url) = "none"
  BY <1>2 DEF Readable, Described
<1> DEFINE offer == OfferAt(node, i)
<1>4. Len(EntryAt(node, i).offers) = 1 /\ AmountRefusal(offer.price, offer.code) = "none"
  BY <1>3 DEF VariantRefusal
<1>5. offer \in OffersOf(page)
  BY <1>1, <1>2, <1>4, OfferOfEntry DEF OffersOf
<1>6. Money(offer.price) /\ <<offer.price, offer.code>> \in Published(page)
  BY <1>5 DEF IsPage, Published
<1> HIDE DEF offer
<1>7. PriceIsPublished(p, <<Minor(offer.price, offer.code), offer.code>>)
  BY <1>4, <1>6, PriceOfPage
<1> QED
  BY <1>7 DEF Variant, offer

\* What a reading answers, whatever was read before.
SoundReading(read, page, ids) ==
    /\ IdentifiersKnow(read.taken) /\ ids.skus \subseteq read.taken.skus
    /\ read.omission = "none" =>
         /\ WholeProduct(read.product) /\ read.product.url = page.url
         /\ \A v \in Range(read.product.variants) : Identified(v, read.taken.skus)

LEMMA LeftIsSound ==
  ASSUME NEW page, NEW ids, NEW now, IdentifiersKnow(now), ids.skus \subseteq now.skus, NEW reason, reason # "none"
  PROVE  SoundReading(Left(reason, now), page, ids)
  BY DEF SoundReading, Left

LEMMA StructuredReads ==
  ASSUME NEW page \in Range(request), IsPage(page), NEW n \in DOMAIN page.nodes, NEW node, node = page.nodes[n],
         Entries(node) # {}, NEW ids, IdentifiersKnow(ids)
  PROVE  SoundReading(FromStructured(page, node, ids), page, ids)
<1> DEFINE read == Readable(node, page.url, ids.skus)
           refusal == ReadRefusal(node, page.url, ids.skus)
           now == [ids EXCEPT !.skus = @ \cup TakenBy(node, page.url, read)]
           raw == ExternalIdentity(node, page.url)
           kept == {i \in read : Cardinality({j \in read : j < i}) < MaxPerProduct}
           variants == [i \in kept |-> Variant(node, i, page.url)]
           named == [now EXCEPT !.products = Assign(@, raw)]
           product == [id |-> Candidate[raw], url |-> page.url, by |-> "structured", variants |-> variants]
           extra == {f \in {"variants_truncated"} : kept # read}
<1>1. IsNode(node)
  BY DEF IsPage
<1>2. /\ DOMAIN now = {"products", "skus"} /\ now.skus = ids.skus \cup TakenBy(node, page.url, read)
      /\ DOMAIN named = {"products", "skus"} /\ named.skus = now.skus
  BY DEF IdentifiersKnow
<1>3. OneMeaning(ids.skus \cup TakenBy(node, page.url, read))
      /\ \A t \in ids.skus \cup TakenBy(node, page.url, read) : t[1] = Candidate[t[2]]
  BY <1>1, ReadKnows DEF IdentifiersKnow
<1>4. IdentifiersKnow(now) /\ ids.skus \subseteq now.skus /\ IdentifiersKnow(named) /\ ids.skus \subseteq named.skus
  BY <1>2, <1>3 DEF IdentifiersKnow
<1>5. CASE TitleRefusal(page) # "none"
  <2>1. FromStructured(page, node, ids) = Left(TitleRefusal(page), ids)
    BY <1>5 DEF FromStructured, StructuredOf
  <2> QED
    BY <1>5, <2>1, LeftIsSound
<1>6. CASE TitleRefusal(page) = "none" /\ refusal # "none"
  <2>1. FromStructured(page, node, ids) = Left(refusal, now)
    BY <1>6 DEF FromStructured, StructuredOf
  <2> HIDE DEF refusal, now
  <2> QED
    BY <1>4, <1>6, <2>1, LeftIsSound
<1>7. CASE TitleRefusal(page) = "none" /\ refusal = "none" /\ MetadataConflict(page, variants)
  <2>1. FromStructured(page, node, ids) = Left("price_conflict", now)
    BY <1>7 DEF FromStructured, StructuredOf
  <2> HIDE DEF now
  <2> QED
    BY <1>4, <2>1, LeftIsSound
<1>8. CASE TitleRefusal(page) = "none" /\ refusal = "none" /\ ~ MetadataConflict(page, variants) /\ Collides(ids.products, raw)
  <2>1. FromStructured(page, node, ids) = Left("identifier_collision", now)
    BY <1>8 DEF FromStructured, StructuredOf
  <2> HIDE DEF now
  <2> QED
    BY <1>4, <2>1, LeftIsSound
<1>9. CASE TitleRefusal(page) = "none" /\ refusal = "none" /\ ~ MetadataConflict(page, variants) /\ ~ Collides(ids.products, raw)
  <2>1. FromStructured(page, node, ids) = Kept(product, extra, named)
    BY <1>9 DEF FromStructured, StructuredOf
  <2>2. read = Entries(node)
    BY <1>1, <1>9, ReadWhole
  <2>3. read \in SUBSET Nat /\ IsFiniteSet(read) /\ read # {}
    BY <1>1, <2>2, EntriesAreNumbered
  <2> HIDE DEF read
  <2>4. IsFiniteSet(kept) /\ Cardinality(kept) \in 1..MaxPerProduct
    BY <2>3, FirstFew, LimitsOfImport
  <2>5. ASSUME NEW i \in kept, NEW j \in kept, variants[i].sku = variants[j].sku PROVE i = j
    <3>1. variants[i] = Variant(node, i, page.url) /\ variants[j] = Variant(node, j, page.url) /\ i \in read /\ j \in read
      OBVIOUS
    <3>2. i \in Nat /\ j \in Nat
      BY <2>3
    <3>3. ~ (j < i) /\ ~ (i < j)
      BY <1>1, <2>5, <3>1, ReadApart DEF read
    <3> QED
      BY <3>2, <3>3
  <2>6. ASSUME NEW v \in Range(variants)
        PROVE  PriceIsPublished(product, v.price) /\ Identified(v, named.skus)
    <3>1. PICK i \in kept : v = Variant(node, i, page.url)
      BY DEF Range
    <3>2. i \in Readable(node, page.url, ids.skus)
      BY DEF read
    <3>3. product.url = page.url
      OBVIOUS
    <3>4. <<Variant(node, i, page.url).sku, Variant(node, i, page.url).raw>> \in TakenBy(node, page.url, read)
      BY <3>2 DEF TakenBy, read
    <3> HIDE DEF product
    <3> QED
      BY <1>2, <3>1, <3>2, <3>3, <3>4, ReadPriced DEF Identified
  <2>7. product.variants = variants /\ DOMAIN variants = kept /\ product.url = page.url
    OBVIOUS
  <2> HIDE DEF product, variants, kept, named, extra
  <2>8. WholeProduct(product)
    BY <2>4, <2>5, <2>6, <2>7 DEF WholeProduct
  <2> QED
    BY <1>4, <2>1, <2>6, <2>7, <2>8 DEF SoundReading, Kept
<1> QED
  BY <1>5, <1>6, <1>7, <1>8, <1>9

LEMMA MetadataReads ==
  ASSUME NEW page \in Range(request), IsPage(page), NEW ids, IdentifiersKnow(ids)
  PROVE  SoundReading(FromMetadata(page, ids), page, ids)
<1> DEFINE refusal == AmountRefusal(page.meta.price, page.meta.code)
           raw == IF page.meta.sku # "none" THEN page.meta.sku ELSE page.url
           price == <<Minor(page.meta.price, page.meta.code), page.meta.code>>
           only == [raw |-> raw, sku |-> Candidate[raw], stock |-> page.meta.stock, price |-> price]
           product == [id |-> Candidate[raw], url |-> page.url, by |-> "metadata", variants |-> <<only>>]
           now == [products |-> Assign(ids.products, raw), skus |-> Assign(ids.skus, raw)]
<1>1. IdentifiersKnow(ids) /\ ids.skus \subseteq ids.skus
  OBVIOUS
<1>2. ASSUME NEW reason, reason # "none", FromMetadata(page, ids) = Left(reason, ids)
      PROVE  SoundReading(FromMetadata(page, ids), page, ids)
  BY <1>1, <1>2, LeftIsSound
<1>3. CASE page.meta.price = <<>>
  <2>1. FromMetadata(page, ids) = Left("price_missing", ids)
    BY <1>3 DEF FromMetadata
  <2> QED
    BY <1>2, <2>1
<1>4. CASE page.meta.price # <<>> /\ refusal # "none"
  <2>1. FromMetadata(page, ids) = Left(refusal, ids)
    BY <1>4 DEF FromMetadata
  <2> HIDE DEF refusal
  <2> QED
    BY <1>2, <1>4, <2>1
<1>5. CASE page.meta.price # <<>> /\ refusal = "none" /\ TitleRefusal(page) # "none"
  <2>1. FromMetadata(page, ids) = Left(TitleRefusal(page), ids)
    BY <1>5 DEF FromMetadata
  <2> QED
    BY <1>2, <1>5, <2>1
<1>6. CASE /\ page.meta.price # <<>> /\ refusal = "none" /\ TitleRefusal(page) = "none"
           /\ Collides(ids.products, raw) \/ Collides(ids.skus, raw)
  <2>1. FromMetadata(page, ids) = Left("identifier_collision", ids)
    BY <1>6 DEF FromMetadata
  <2> QED
    BY <1>2, <2>1
<1>7. CASE /\ page.meta.price # <<>> /\ refusal = "none" /\ TitleRefusal(page) = "none"
           /\ ~ Collides(ids.products, raw) /\ ~ Collides(ids.skus, raw)
  <2>1. FromMetadata(page, ids) = Kept(product, {}, now)
    BY <1>7 DEF FromMetadata
  <2>2. now.skus = ids.skus \cup {<<Candidate[raw], raw>>} /\ DOMAIN now = {"products", "skus"}
    BY DEF Assign
  <2>3. \A t \in ids.skus : t[1] = Candidate[raw] => t[2] = raw
    BY <1>7 DEF Collides
  <2>4. IdentifiersKnow(now)
    <3> HIDE DEF now, raw
    <3>1. ASSUME NEW t \in now.skus, NEW u \in now.skus, t[1] = u[1] PROVE t[2] = u[2]
      <4>1. CASE t \in ids.skus /\ u \in ids.skus
        BY <3>1, <4>1 DEF IdentifiersKnow, OneMeaning
      <4>2. CASE t = <<Candidate[raw], raw>> /\ u = <<Candidate[raw], raw>>
        BY <4>2
      <4>3. CASE t \in ids.skus /\ u = <<Candidate[raw], raw>>
        BY <2>3, <3>1, <4>3
      <4>4. CASE t = <<Candidate[raw], raw>> /\ u \in ids.skus
        BY <2>3, <3>1, <4>4
      <4> QED
        BY <2>2, <4>1, <4>2, <4>3, <4>4
    <3>2. \A t \in now.skus : t[1] = Candidate[t[2]]
      BY <2>2 DEF IdentifiersKnow
    <3> QED
      BY <2>2, <3>1, <3>2 DEF IdentifiersKnow, OneMeaning
  <2>5. Money(page.meta.price) /\ <<page.meta.price, page.meta.code>> \in Published(page)
    BY DEF IsPage, Published
  <2>6. product.url = page.url /\ product.variants = <<only>> /\ DOMAIN <<only>> = {1} /\ <<only>>[1] = only
    OBVIOUS
  <2>7. only.price = price /\ only.sku = Candidate[raw] /\ only.raw = raw
    OBVIOUS
  <2>a. IsFiniteSet({1}) /\ Cardinality({1}) = 1
    BY FS_Singleton
  <2>b. 1 \in 1..MaxPerProduct
    BY LimitsOfImport
  <2>8. IsFiniteSet({1}) /\ Cardinality({1}) \in 1..MaxPerProduct
    BY <2>a, <2>b
  <2> HIDE DEF product, only, raw, now
  <2>9. PriceIsPublished(product, price)
    BY <1>7, <2>5, <2>6, PriceOfPage
  <2>10. \A v \in Range(product.variants) : v = only
    BY <2>6 DEF Range
  <2>11. WholeProduct(product)
    BY <2>6, <2>7, <2>8, <2>9, <2>10 DEF WholeProduct
  <2>12. \A v \in Range(product.variants) : Identified(v, now.skus)
    BY <2>2, <2>7, <2>10 DEF Identified
  <2> QED
    BY <2>1, <2>2, <2>4, <2>6, <2>11, <2>12 DEF SoundReading, Kept
<1> QED
  BY <1>3, <1>4, <1>5, <1>6, <1>7

LEMMA ExtractReads ==
  ASSUME NEW page \in Range(request), IsPage(page), NEW ids, IdentifiersKnow(ids)
  PROVE  SoundReading(ExtractProduct(page, ids), page, ids)
<1> DEFINE priced == {n \in ProductNodes(page) : Entries(n) # {}}
           node == CHOOSE n \in priced : TRUE
<1>1. CASE Cardinality(ProductNodes(page)) > 1
  <2>1. ExtractProduct(page, ids) = Left("several_products", ids)
    BY <1>1 DEF ExtractProduct
  <2> QED
    BY <2>1, LeftIsSound
<1>2. CASE ~ (Cardinality(ProductNodes(page)) > 1) /\ priced = {}
  <2>1. ExtractProduct(page, ids) = FromMetadata(page, ids)
    BY <1>2 DEF ExtractProduct
  <2> QED
    BY <2>1, MetadataReads
<1>3. CASE ~ (Cardinality(ProductNodes(page)) > 1) /\ priced # {}
  <2>1. ExtractProduct(page, ids) = FromStructured(page, node, ids)
    BY <1>3 DEF ExtractProduct
  <2>2. node \in priced
    BY <1>3
  <2>3. Entries(node) # {} /\ \E n \in DOMAIN page.nodes : node = page.nodes[n]
    BY <2>2 DEF ProductNodes
  <2> HIDE DEF node
  <2> QED
    BY <2>1, <2>3, StructuredReads
<1> QED
  BY <1>1, <1>2, <1>3

(***************************************************************************)
(* The import, page by page.                                               *)
(***************************************************************************)

LEMMA Longer ==
  ASSUME NEW s, IsSeq(s), NEW e
  PROVE  /\ IsSeq(Append(s, e)) /\ Len(s) \in Nat /\ DOMAIN s = 1..Len(s)
         /\ Len(Append(s, e)) = Len(s) + 1 /\ DOMAIN Append(s, e) = 1..Len(s) + 1
         /\ \A i \in DOMAIN s : Append(s, e)[i] = s[i]
         /\ Append(s, e)[Len(s) + 1] = e
         /\ Range(Append(s, e)) = Range(s) \cup {e}
<1> DEFINE t == Append(s, e)
           n == Len(s)
<1>1. n \in Nat /\ DOMAIN s = 1..n
  BY DEF IsSeq
<1>2. s \in Seq(Range(s) \cup {e})
  BY <1>1 DEF IsSeq, Range
<1>3. /\ t \in Seq(Range(s) \cup {e}) /\ Len(t) = n + 1 /\ DOMAIN t = 1..n + 1
      /\ \A i \in 1..n : t[i] = s[i]
      /\ t[n + 1] = e
  BY <1>1, <1>2
<1> HIDE DEF t, n
<1>4. Range(t) = Range(s) \cup {e}
  <2>1. \A x \in Range(t) : x \in Range(s) \cup {e}
    BY <1>1, <1>3 DEF Range
  <2>2. \A x \in Range(s) : x \in Range(t)
    BY <1>1, <1>3 DEF Range
  <2>3. e \in Range(t)
    BY <1>1, <1>3 DEF Range
  <2> QED
    BY <2>1, <2>2, <2>3
<1>5. IsSeq(t)
  BY <1>3, <1>4 DEF IsSeq
<1> QED
  BY <1>1, <1>3, <1>4, <1>5 DEF t, n

\* The page to take next.
LEMMA CurrentIs ==
  ASSUME ImportInv, Fetching
  PROVE  /\ ProductsKnow /\ RecordsKnow /\ ProductsInOrder /\ Acceptable /\ import = Retrieving
         /\ Len(records) \in Nat /\ DOMAIN records = 1..Len(records)
         /\ Len(request) \in Nat /\ DOMAIN request = 1..Len(request) /\ Len(records) + 1 \in DOMAIN request
         /\ Current = request[Len(records) + 1] /\ Current \in Range(request) /\ IsPage(Current)
         /\ \A i, j \in DOMAIN request : request[i].url = request[j].url => i = j
<1>1. import = Retrieving /\ Acceptable /\ Len(records) < Len(request)
  BY DEF Fetching
<1>2. import.state = "RETRIEVING"
  BY <1>1 DEF Retrieving
<1>3. ProductsKnow /\ RecordsKnow /\ ProductsInOrder /\ request \in Requests
  BY <1>2 DEF ImportInv
<1>4. IsSeq(request) /\ IsSeq(records) /\ \A page \in Range(request) : IsPage(page)
  BY <1>3, PagesAssumption DEF RecordsKnow
<1>5. /\ Len(records) \in Nat /\ DOMAIN records = 1..Len(records)
      /\ Len(request) \in Nat /\ DOMAIN request = 1..Len(request)
  BY <1>4 DEF IsSeq
<1>6. Len(records) + 1 \in DOMAIN request
  BY <1>1, <1>5
<1>7. Current \in Range(request) /\ Current = request[Len(records) + 1]
  BY <1>6 DEF Current, Range
<1>8. \A i, j \in DOMAIN request : request[i].url = request[j].url => i = j
  BY <1>1 DEF Acceptable
<1> QED
  BY <1>1, <1>3, <1>4, <1>5, <1>6, <1>7, <1>8

\* While an import goes on nothing is said of its draft.
LEMMA NothingToConfirm == ASSUME import' = Retrieving PROVE ImportIsSound'
<1>1. import'.state = "RETRIEVING" /\ import'.draft = <<>>
  BY DEF Retrieving
<1>2. ~ ImportOver' /\ ~ Confirmable'
  BY <1>1 DEF ImportOver, Confirmable
<1>3. Drafted' = {}
  BY <1>1 DEF Drafted, Range
<1> QED
  BY <1>2, <1>3 DEF ImportIsSound, DraftIsSound, PagesAnswer

\* What a page more adds to the bytes.
LEMMA SumOfOneMore ==
  ASSUME NEW S, IsFiniteSet(S), NEW x, x \notin S, NEW q, NEW r, r \in [S \cup {x} -> Nat], \A i \in S : q[i] = r[i]
  PROVE  SumFunctionOnSet(r, S \cup {x}) = r[x] + SumFunctionOnSet(q, S)
<1>1. SumFunctionOnSet(q, S) = SumFunctionOnSet(r, S)
  BY SumAgree
<1> DEFINE D == S \cup {x}
<1>2. r \in [D -> Nat] /\ S \in SUBSET D /\ x \in D
  OBVIOUS
<1> HIDE DEF D
<1>3. SumFunctionOnSet(r, S \cup {x}) = r[x] + SumFunctionOnSet(r, S)
  BY <1>2, SumAdd
<1> QED
  BY <1>1, <1>3

LEMMA SumOfLonger ==
  ASSUME NEW n \in Nat, NEW q, NEW r, r \in [1..n + 1 -> Nat], \A i \in 1..n : q[i] = r[i]
  PROVE  SumFunctionOnSet(r, 1..n + 1) = r[n + 1] + SumFunctionOnSet(q, 1..n)
<1> DEFINE S == 1..n
           x == n + 1
<1>1. IsFiniteSet(S)
  BY FS_Interval
<1>2. x \notin S /\ S \cup {x} = 1..n + 1
  OBVIOUS
<1>3. r \in [S \cup {x} -> Nat] /\ \A i \in S : q[i] = r[i]
  BY <1>2
<1> HIDE DEF S, x
<1>4. SumFunctionOnSet(r, S \cup {x}) = r[x] + SumFunctionOnSet(q, S)
  BY <1>1, <1>2, <1>3, SumOfOneMore
<1> QED
  BY <1>2, <1>4 DEF S, x

\* One page is recorded, with what became of it.
LEMMA PageRecorded ==
  ASSUME ImportInv, Fetching, NEW e, e.url = Current.url, e.bytes \in Nat,
         records' = Append(records, e), spent' = spent + e.bytes, spent' < ByteBudget + PageBytes,
         UNCHANGED request,
         NEW p, \/ products' = products
                \/ products' = Append(products, p) /\ p.url = Current.url,
         omissions \subseteq omissions', IsSeq(policies'), Range(policies) \subseteq Range(policies'),
         e.retrieved => \/ products' = Append(products, p)
                        \/ Current.url \in Range(policies')
                        \/ \E o \in omissions' : o[1] = Current.url
  PROVE  RecordsKnow' /\ ProductsInOrder'
<1> DEFINE n == Len(records)
           m == Len(products)
<1>1. /\ ProductsKnow /\ RecordsKnow /\ ProductsInOrder /\ Acceptable
      /\ n \in Nat /\ DOMAIN records = 1..n
      /\ Len(request) \in Nat /\ DOMAIN request = 1..Len(request) /\ n + 1 \in DOMAIN request
      /\ Current = request[n + 1]
      /\ \A i, j \in DOMAIN request : request[i].url = request[j].url => i = j
  BY CurrentIs
<1>0. n = Len(records) /\ m = Len(products)
  OBVIOUS
<1> HIDE DEF n, m
<1>2. /\ IsSeq(records') /\ Len(records') = n + 1 /\ DOMAIN records' = 1..n + 1
      /\ \A i \in 1..n : records'[i] = records[i]
      /\ records'[n + 1] = e
  <2>1. IsSeq(records) /\ records' = Append(records, e)
    BY <1>1 DEF RecordsKnow
  <2>2. /\ IsSeq(records') /\ DOMAIN records = 1..Len(records) /\ Len(records') = Len(records) + 1
        /\ DOMAIN records' = 1..Len(records) + 1
        /\ \A i \in DOMAIN records : records'[i] = records[i]
        /\ records'[Len(records) + 1] = e
    BY <2>1, Longer
  <2> QED
    BY <1>0, <2>2
<1>3. /\ m \in Nat /\ DOMAIN products = 1..m
      /\ \A k \in 1..m : k \in DOMAIN products' /\ products'[k] = products[k]
      /\ \A k \in DOMAIN products' : k \in 1..m + 1
      /\ \A k \in DOMAIN products' : k \notin 1..m => k = m + 1 /\ products'[k].url = Current.url
      /\ products' = Append(products, p) => m + 1 \in DOMAIN products' /\ products'[m + 1].url = Current.url
  <2>1. IsSeq(products)
    BY <1>1 DEF ProductsKnow
  <2>2. m \in Nat /\ DOMAIN products = 1..m
    BY <1>0, <2>1 DEF IsSeq
  <2>3. CASE products' = products
    <3>1. DOMAIN products' = 1..m /\ \A k \in 1..m : k \in 1..m + 1
      BY <2>2, <2>3
    <3>2. Len(Append(products, p)) = Len(products) + 1
      BY <2>1, Longer
    <3>3. products' # Append(products, p)
      BY <1>0, <2>2, <2>3, <3>2
    <3> QED
      BY <2>2, <2>3, <3>1, <3>3
  <2>4. CASE products' = Append(products, p) /\ p.url = Current.url
    BY <1>0, <2>1, <2>2, <2>4, Longer
  <2> QED
    BY <2>3, <2>4
<1>4. \A i \in 1..n : i \in DOMAIN request
  BY <1>1
<1>5. \A i \in 1..n : PageAnswered(i) => PageAnswered(i)'
  <2> SUFFICES ASSUME NEW i \in 1..n, PageAnswered(i) PROVE PageAnswered(i)'
    OBVIOUS
  <2>1. CASE \E k \in DOMAIN products : products[k].url = request[i].url
    BY <1>3, <2>1 DEF PageAnswered
  <2> QED
    BY <2>1 DEF PageAnswered
<1>6. ASSUME e.retrieved, NEW i, i = n + 1 PROVE PageAnswered(i)'
  <2>1. request'[i] = Current
    BY <1>1, <1>6
  <2>2. CASE products' = Append(products, p)
    <3>1. m + 1 \in DOMAIN products' /\ products'[m + 1].url = Current.url
      BY <1>3, <2>2
    <3> QED
      BY <2>1, <3>1 DEF PageAnswered
  <2>3. CASE products' # Append(products, p)
    BY <1>6, <2>1, <2>3 DEF PageAnswered
  <2> QED
    BY <2>2, <2>3
<1>7. ASSUME NEW i \in DOMAIN records'
      PROVE  /\ records'[i].url = request[i].url /\ records'[i].bytes \in Nat
             /\ records'[i].retrieved => PageAnswered(i)'
  <2>1. CASE i \in 1..n
    <3>1. records'[i] = records[i] /\ records[i].url = request[i].url /\ records[i].bytes \in Nat
          /\ (records[i].retrieved => PageAnswered(i))
      BY <1>1, <1>2, <2>1 DEF RecordsKnow
    <3> QED
      BY <1>5, <2>1, <3>1
  <2>2. CASE i = n + 1
    <3>1. records'[i] = e /\ request[i] = Current
      BY <1>1, <1>2, <2>2
    <3>2. e.retrieved => PageAnswered(i)'
      BY <1>6, <2>2
    <3> QED
      BY <3>1, <3>2
  <2> QED
    BY <1>1, <1>2, <2>1, <2>2
<1>8. spent' = SumFunctionOnSet([i \in DOMAIN records' |-> records'[i].bytes], DOMAIN records')
  <2> DEFINE q == [i \in DOMAIN records |-> records[i].bytes]
             r == [i \in DOMAIN records' |-> records'[i].bytes]
  <2>1. n \in Nat /\ r \in [1..n + 1 -> Nat]
    BY <1>1, <1>2, <1>7
  <2>2. \A i \in 1..n : q[i] = r[i]
    <3> SUFFICES ASSUME NEW i \in 1..n PROVE q[i] = r[i]
      OBVIOUS
    <3>1. i \in DOMAIN records /\ i \in DOMAIN records'
      BY <1>1, <1>2
    <3> QED
      BY <1>2, <3>1
  <2>3. r[n + 1] = e.bytes
    BY <1>1, <1>2
  <2>4. SumFunctionOnSet(q, 1..n) = spent /\ spent \in Nat
    BY <1>1 DEF RecordsKnow
  <2> HIDE DEF q, r
  <2>5. SumFunctionOnSet(r, 1..n + 1) = r[n + 1] + SumFunctionOnSet(q, 1..n)
    BY <2>1, <2>2, SumOfLonger
  <2>6. SumFunctionOnSet(r, 1..n + 1) = spent'
    BY <2>3, <2>4, <2>5
  <2> QED
    BY <1>2, <2>6 DEF r
<1>9. spent' \in Nat
  BY <1>1 DEF RecordsKnow
<1>10. Acceptable'
  BY <1>1 DEF Acceptable
<1>11. RecordsKnow'
  <2>1. IsSeq(records') /\ Len(records') <= Len(request')
    BY <1>1, <1>2
  <2>2. \A i \in DOMAIN records' : /\ records'[i].url = request'[i].url /\ records'[i].bytes \in Nat
                                   /\ records'[i].retrieved => PageAnswered(i)'
    BY <1>7
  <2>3. spent' \in Nat /\ spent' < ByteBudget + PageBytes /\ IsSeq(policies')
    BY <1>9
  <2> QED
    BY <1>8, <1>10, <2>1, <2>2, <2>3 DEF RecordsKnow
<1>12. ASSUME NEW k \in DOMAIN products'
       PROVE  \E i \in DOMAIN records' : products'[k].url = request[i].url
  <2>1. CASE k \in 1..m
    <3>1. PICK i \in 1..n : products[k].url = request[i].url
      BY <1>1, <1>3, <2>1 DEF ProductsInOrder
    <3>2. i \in 1..n + 1
      BY <1>1
    <3> QED
      BY <1>2, <1>3, <2>1, <3>1, <3>2
  <2>2. CASE k \notin 1..m
    <3>1. n + 1 \in 1..n + 1
      BY <1>1
    <3> QED
      BY <1>1, <1>2, <1>3, <2>2, <3>1
  <2> QED
    BY <2>1, <2>2
<1>13. ASSUME NEW k \in DOMAIN products', NEW l \in DOMAIN products', NEW i \in DOMAIN records', NEW j \in DOMAIN records',
              k <= l, products'[k].url = request[i].url, products'[l].url = request[j].url
       PROVE  i <= j
  <2>1. i \in DOMAIN request /\ j \in DOMAIN request /\ i \in Nat /\ j \in Nat /\ i <= n + 1
    BY <1>1, <1>2
  <2>2. CASE l \notin 1..m
    <3>1. j = n + 1
      BY <1>1, <1>3, <1>13, <2>1, <2>2
    <3> QED
      BY <2>1, <3>1
  <2>3. CASE l \in 1..m
    <3>1. k \in 1..m /\ k \in DOMAIN products /\ l \in DOMAIN products
      BY <1>3, <1>13, <2>3
    <3>2. products[k].url = request[i].url /\ products[l].url = request[j].url
      BY <1>3, <1>13, <2>3, <3>1
    <3>3. PICK a \in 1..n : products[k].url = request[a].url
      BY <1>1, <3>1 DEF ProductsInOrder
    <3>4. PICK b \in 1..n : products[l].url = request[b].url
      BY <1>1, <3>1 DEF ProductsInOrder
    <3>5. i = a /\ j = b
      BY <1>1, <1>4, <2>1, <3>2, <3>3, <3>4
    <3> QED
      BY <1>1, <1>13, <3>1, <3>3, <3>4, <3>5 DEF ProductsInOrder
  <2> QED
    BY <2>2, <2>3
<1>14. ProductsInOrder'
  BY <1>12, <1>13 DEF ProductsInOrder
<1> QED
  BY <1>11, <1>14

\* What is known of a product stays known while the identifiers grow.
LEMMA GoodStays ==
  ASSUME NEW p, UNCHANGED request, WholeProduct(p), \A v \in Range(p.variants) : Identified(v, taken'.skus)
  PROVE  GoodProduct(p)'
<1>1. WholeProduct(p)'
  <2>1. \A price : PriceIsPublished(p, price) => PriceIsPublished(p, price)'
    BY DEF PriceIsPublished
  <2> QED
    BY <2>1 DEF WholeProduct
<1> QED
  BY <1>1 DEF GoodProduct, Identified

LEMMA ProductsStay ==
  ASSUME ProductsKnow, UNCHANGED <<request, products>>, IdentifiersKnow(taken'), taken.skus \subseteq taken'.skus
  PROVE  ProductsKnow'
<1>1. \A p : GoodProduct(p) => GoodProduct(p)'
  <2> SUFFICES ASSUME NEW p, GoodProduct(p) PROVE GoodProduct(p)'
    OBVIOUS
  <2>1. WholeProduct(p) /\ \A v \in Range(p.variants) : Identified(v, taken'.skus)
    BY DEF GoodProduct, Identified
  <2> QED
    BY <2>1, GoodStays
<1>2. ASSUME NEW k \in DOMAIN products PROVE GoodProduct(products[k])'
  <2>1. PICK p : p = products[k]
    OBVIOUS
  <2>2. GoodProduct(p)
    BY <1>2, <2>1 DEF ProductsKnow
  <2>3. GoodProduct(p)'
    BY <1>1, <2>2
  <2>4. products'[k] = p
    BY <2>1
  <2> QED
    BY <2>3, <2>4 DEF GoodProduct
<1>3. IdentifiersKnow(taken)'
  BY DEF IdentifiersKnow, OneMeaning
<1>4. /\ IsSeq(products')
      /\ \A k, l \in DOMAIN products' : k # l =>
            products'[k].id # products'[l].id /\ Skus(products'[k]) \cap Skus(products'[l]) = {}
  BY DEF ProductsKnow
<1> QED
  BY <1>2, <1>3, <1>4 DEF ProductsKnow

\* A product joins those read when nothing that is there shares its identity.
LEMMA ProductsGrow ==
  ASSUME ProductsKnow, NEW page, NEW read, SoundReading(read, page, taken), UNCHANGED request, taken' = read.taken,
         read.omission = "none", DuplicateIdentity(read.product) = "none",
         products' = Append(products, read.product)
  PROVE  ProductsKnow'
<1> DEFINE new == read.product
           m == Len(products)
<1>1. IsSeq(products) /\ m \in Nat /\ DOMAIN products = 1..m
  BY DEF ProductsKnow, IsSeq
<1>0. m = Len(products) /\ products' = Append(products, new)
  OBVIOUS
<1> HIDE DEF m
<1>2. /\ IsSeq(products') /\ DOMAIN products' = 1..m + 1
      /\ \A k \in 1..m : products'[k] = products[k]
      /\ products'[m + 1] = new
  <2> HIDE DEF new
  <2>2. /\ IsSeq(products') /\ DOMAIN products = 1..Len(products) /\ DOMAIN products' = 1..Len(products) + 1
        /\ \A i \in DOMAIN products : products'[i] = products[i]
        /\ products'[Len(products) + 1] = new
    BY <1>0, <1>1, Longer
  <2> QED
    BY <1>0, <2>2
<1>3. IdentifiersKnow(taken') /\ taken.skus \subseteq taken'.skus
  BY DEF SoundReading
<1>5. \A k \in 1..m : GoodProduct(products[k])
  BY <1>1 DEF ProductsKnow
<1>6. ASSUME NEW k \in DOMAIN products' PROVE GoodProduct(products[k])'
  <2>0. PICK q : q = products'[k]
    OBVIOUS
  <2>1. CASE k \in 1..m
    <3>1. GoodProduct(q)
      BY <1>2, <1>5, <2>0, <2>1
    <3>2. WholeProduct(q) /\ \A v \in Range(q.variants) : Identified(v, taken'.skus)
      BY <1>3, <3>1 DEF GoodProduct, Identified
    <3>3. GoodProduct(q)'
      BY <3>2, GoodStays
    <3> QED
      BY <2>0, <3>3 DEF GoodProduct
  <2>2. CASE k = m + 1
    <3>1. WholeProduct(q) /\ \A v \in Range(q.variants) : Identified(v, taken'.skus)
      BY <1>2, <2>0, <2>2 DEF SoundReading
    <3>3. GoodProduct(q)'
      BY <3>1, GoodStays
    <3> QED
      BY <2>0, <3>3 DEF GoodProduct
  <2> QED
    BY <1>1, <1>2, <1>6, <2>1, <2>2
<1>7. \A k \in 1..m : products[k].id # new.id /\ Skus(products[k]) \cap Skus(new) = {}
  <2>1. \A q \in Range(products) : q.id # new.id /\ Skus(q) \cap Skus(new) = {}
    BY DEF DuplicateIdentity
  <2> QED
    BY <1>1, <2>1 DEF Range
<1>8. ASSUME NEW k \in DOMAIN products', NEW l \in DOMAIN products', k # l
      PROVE  products'[k].id # products'[l].id /\ Skus(products'[k]) \cap Skus(products'[l]) = {}
  <2>1. CASE k \in 1..m /\ l \in 1..m
    BY <1>1, <1>2, <1>8, <2>1 DEF ProductsKnow
  <2>2. CASE k \in 1..m /\ l = m + 1
    BY <1>2, <1>7, <2>2
  <2>3. CASE k = m + 1 /\ l \in 1..m
    BY <1>2, <1>7, <2>3
  <2>4. (k \in 1..m \/ k = m + 1) /\ (l \in 1..m \/ l = m + 1)
    BY <1>1, <1>2, <1>8
  <2> QED
    BY <1>8, <2>1, <2>2, <2>3, <2>4
<1>9. IdentifiersKnow(taken)'
  BY <1>3 DEF IdentifiersKnow, OneMeaning
<1> QED
  BY <1>2, <1>6, <1>8, <1>9 DEF ProductsKnow

\* The import goes on.
LEMMA GoesOn ==
  ASSUME ImportInv, import = Retrieving, UNCHANGED <<request, import>>, ProductsKnow', RecordsKnow', ProductsInOrder'
  PROVE  ImportInv'
<1>1. import' = Retrieving /\ request' \in Requests
  BY DEF ImportInv
<1>2. ImportIsSound'
  BY <1>1, NothingToConfirm
<1> QED
  BY <1>1, <1>2 DEF ImportInv

LEMMA RefuseTargetsKeeps == ASSUME ImportInv, RefuseTargets PROVE ImportInv'
<1>1. import'.state = "REFUSED" /\ import'.draft = <<>> /\ request' \in Requests
  BY DEF RefuseTargets, Retrieving, ImportInv
<1>2. ~ ImportOver' /\ ~ Confirmable' /\ Drafted' = {}
  BY <1>1 DEF ImportOver, Confirmable, Drafted, Range
<1>3. ImportIsSound'
  BY <1>2 DEF ImportIsSound, DraftIsSound, PagesAnswer
<1> QED
  BY <1>1, <1>3 DEF ImportInv

LEMMA PassOverKeeps == ASSUME ImportInv, PassOver PROVE ImportInv'
<1>1. Fetching /\ UNCHANGED <<request, products, policies, omissions, taken, spent, import>>
  BY DEF PassOver
<1>2. ProductsKnow /\ RecordsKnow /\ import = Retrieving
  BY <1>1, CurrentIs
<1>3. PICK e : e = Record(Current, FALSE, "import_byte_budget", 0)
  OBVIOUS
<1>4. e.url = Current.url /\ e.bytes = 0 /\ ~ e.retrieved /\ records' = Append(records, e)
  BY <1>3 DEF PassOver, Record
<1>5. spent' = spent + e.bytes /\ spent' < ByteBudget + PageBytes /\ IsSeq(policies') /\ e.bytes \in Nat
  BY <1>1, <1>2, <1>4 DEF RecordsKnow
<1>6. ProductsKnow'
  BY <1>1, <1>2, ProductsStay DEF ProductsKnow
<1>7. RecordsKnow' /\ ProductsInOrder'
  BY <1>1, <1>4, <1>5, PageRecorded
<1> QED
  BY <1>1, <1>2, <1>6, <1>7, GoesOn

LEMMA FetchFailsKeeps == ASSUME ImportInv, FetchFails PROVE ImportInv'
<1>1. Fetching /\ UNCHANGED <<request, products, policies, taken, spent, import>> /\ omissions \subseteq omissions'
  BY DEF FetchFails
<1>2. ProductsKnow /\ RecordsKnow /\ import = Retrieving
  BY <1>1, CurrentIs
<1>3. PICK e : e = Record(Current, FALSE, FetchRefusal(Current), 0)
  OBVIOUS
<1>4. e.url = Current.url /\ e.bytes = 0 /\ ~ e.retrieved /\ records' = Append(records, e)
  BY <1>3 DEF FetchFails, Record
<1>5. spent' = spent + e.bytes /\ spent' < ByteBudget + PageBytes /\ IsSeq(policies') /\ e.bytes \in Nat
  BY <1>1, <1>2, <1>4 DEF RecordsKnow
<1>6. ProductsKnow'
  BY <1>1, <1>2, ProductsStay DEF ProductsKnow
<1>7. RecordsKnow' /\ ProductsInOrder'
  BY <1>1, <1>4, <1>5, PageRecorded
<1> QED
  BY <1>1, <1>2, <1>6, <1>7, GoesOn

LEMMA FetchAnswersKeeps == ASSUME ImportInv, FetchAnswers PROVE ImportInv'
<1>1. Fetching /\ UNCHANGED <<request, import>>
  BY DEF FetchAnswers
<1>2. ProductsKnow /\ RecordsKnow /\ import = Retrieving /\ Current \in Range(request) /\ IsPage(Current)
  BY <1>1, CurrentIs
<1>3. PICK page : page = Current
  OBVIOUS
<1>4. PICK e : e = Record(page, TRUE, "none", page.size)
  OBVIOUS
<1>5. page.size \in Nat /\ page.size <= PageBytes /\ spent \in Nat /\ spent < ByteBudget
  <2>1. FetchRefusal(page) = "none" /\ spent < ByteBudget
    BY <1>3 DEF FetchAnswers
  <2>2. page.size \in Nat
    BY <1>2, <1>3 DEF IsPage
  <2>3. ~ (page.size > PageBytes)
    BY <1>2, <1>3, <2>1 DEF FetchRefusal, IsPage
  <2> QED
    BY <1>2, <2>1, <2>2, <2>3, LimitsOfImport DEF RecordsKnow
<1>6. e.url = page.url /\ e.bytes = page.size /\ records' = Append(records, e) /\ spent' = spent + page.size
  BY <1>3, <1>4 DEF FetchAnswers, Record, Spent
<1>7. e.url = Current.url /\ e.bytes \in Nat /\ spent' = spent + e.bytes /\ spent' < ByteBudget + PageBytes
  BY <1>3, <1>5, <1>6, LimitsOfImport
<1>8. CASE page.kind = "PRODUCT"
  <2>1. PICK read : read = ExtractProduct(page, taken)
    OBVIOUS
  <2>2. SoundReading(read, page, taken)
    BY <1>2, <1>3, <2>1, ExtractReads DEF ProductsKnow
  <2>3. PICK why : why = IF read.omission # "none" THEN read.omission ELSE DuplicateIdentity(read.product)
    OBVIOUS
  <2>4. /\ taken' = read.taken /\ policies' = policies
        /\ products' = IF why = "none" THEN Append(products, read.product) ELSE products
        /\ omissions' = IF why = "none" THEN omissions ELSE omissions \cup {<<page.url, why>>}
    BY <1>3, <1>8, <2>1, <2>3 DEF FetchAnswers, ReadProduct, TakeProduct
  <2>5. IdentifiersKnow(taken') /\ taken.skus \subseteq taken'.skus
    BY <2>2, <2>4 DEF SoundReading
  <2>6. IsSeq(policies') /\ Range(policies) \subseteq Range(policies') /\ omissions \subseteq omissions'
    BY <1>2, <2>4 DEF RecordsKnow
  <2>7. CASE why = "none"
    <3>1. read.omission = "none" /\ DuplicateIdentity(read.product) = "none"
      BY <2>3, <2>7
    <3>2. PICK p : p = read.product
      OBVIOUS
    <3>3. products' = Append(products, p) /\ p.url = Current.url
      BY <1>3, <2>2, <2>4, <2>7, <3>1, <3>2 DEF SoundReading
    <3>4. ProductsKnow'
      BY <1>1, <1>2, <2>2, <2>4, <3>1, <3>2, <3>3, ProductsGrow
    <3>5. RecordsKnow' /\ ProductsInOrder'
      BY <1>1, <1>6, <1>7, <2>6, <3>3, PageRecorded
    <3> QED
      BY <1>1, <1>2, <3>4, <3>5, GoesOn
  <2>8. CASE why # "none"
    <3>1. products' = products /\ <<page.url, why>> \in omissions'
      BY <2>4, <2>8
    <3>2. \E o \in omissions' : o[1] = Current.url
      BY <1>3, <3>1
    <3>3. ProductsKnow'
      BY <1>1, <1>2, <2>5, <3>1, ProductsStay
    <3>4. RecordsKnow' /\ ProductsInOrder'
      BY <1>1, <1>6, <1>7, <2>6, <3>1, <3>2, PageRecorded
    <3> QED
      BY <1>1, <1>2, <3>3, <3>4, GoesOn
  <2> QED
    BY <2>7, <2>8
<1>9. CASE page.kind # "PRODUCT"
  <2>1. /\ UNCHANGED <<products, taken>>
        /\ policies' = IF PolicyRefusal(page) = "none" THEN Append(policies, page.url) ELSE policies
        /\ omissions' = IF PolicyRefusal(page) = "none" THEN omissions
                        ELSE omissions \cup {<<page.url, PolicyRefusal(page)>>}
    BY <1>3, <1>9 DEF FetchAnswers, ReadPolicy
  <2>2. IsSeq(policies)
    BY <1>2 DEF RecordsKnow
  <2>3. IsSeq(policies') /\ Range(policies) \subseteq Range(policies') /\ omissions \subseteq omissions'
    BY <2>1, <2>2, Longer
  <2>4. Current.url \in Range(policies') \/ \E o \in omissions' : o[1] = Current.url
    <3>1. CASE PolicyRefusal(page) = "none"
      BY <1>3, <2>1, <2>2, <3>1, Longer
    <3>2. CASE PolicyRefusal(page) # "none"
      <4>1. <<page.url, PolicyRefusal(page)>> \in omissions'
        BY <2>1, <3>2
      <4> QED
        BY <1>3, <4>1
    <3> QED
      BY <3>1, <3>2
  <2>5. ProductsKnow'
    BY <1>1, <1>2, <2>1, ProductsStay DEF ProductsKnow
  <2>6. RecordsKnow' /\ ProductsInOrder'
    BY <1>1, <1>6, <1>7, <2>1, <2>3, <2>4, PageRecorded
  <2> QED
    BY <1>1, <1>2, <2>5, <2>6, GoesOn
<1> QED
  BY <1>8, <1>9

\* The pages a deadline leaves out add nothing to the bytes.
LEMMA BytesAtDeadline ==
  ASSUME NEW n \in Nat, NEW N \in Nat, n <= N, NEW q, NEW r, r \in [1..N -> Nat],
         \A i \in 1..n : q[i] = r[i], \A i \in 1..N : i \notin 1..n => r[i] = 0
  PROVE  SumFunctionOnSet(r, 1..N) <= SumFunctionOnSet(q, 1..n)
<1> DEFINE S == 1..n
           T == 1..N
<1>1. IsFiniteSet(S) /\ IsFiniteSet(T)
  BY FS_Interval
<1>2. S \in SUBSET T /\ T \in SUBSET T /\ r \in [T -> Nat]
  OBVIOUS
<1>3. (\A i \in T \ S : r[i] = 0) /\ (\A i \in S : q[i] = r[i])
  OBVIOUS
<1> HIDE DEF S, T
<1>4. SumFunctionOnSet(r, T) <= SumFunctionOnSet(r, S)
  BY <1>1, <1>2, <1>3, SumAtMost
<1>5. SumFunctionOnSet(q, S) = SumFunctionOnSet(r, S)
  BY <1>1, <1>3, SumAgree
<1> QED
  BY <1>4, <1>5 DEF S, T

LEMMA LengthOf ==
  ASSUME NEW N \in Nat, NEW S, NEW s \in [1..N -> S]
  PROVE  s \in Seq(S) /\ Len(s) = N
  OBVIOUS

LEMMA DeadlineKeeps == ASSUME ImportInv, Deadline PROVE ImportInv'
<1> DEFINE n == Len(records)
           N == Len(request)
           q == [i \in DOMAIN records |-> records[i].bytes]
           r == [i \in DOMAIN records' |-> records'[i].bytes]
<1>1. Fetching /\ UNCHANGED <<request, spent>> /\ spent < ByteBudget
  BY DEF Deadline
<1>2. /\ RecordsKnow /\ request \in Requests /\ n \in Nat /\ DOMAIN records = 1..n
      /\ N \in Nat /\ DOMAIN request = 1..N /\ n + 1 \in DOMAIN request
  BY <1>1, CurrentIs DEF ImportInv
<1>3. import'.state = "FAILED" /\ import'.draft = <<>>
  BY DEF Deadline, Retrieving
<1>4. /\ DOMAIN records' = 1..N
      /\ \A i \in 1..n : records'[i] = records[i]
      /\ \A i \in 1..N : i \notin 1..n => records'[i] = Record(request[i], FALSE, "import_deadline", 0)
  <2>1. \A i \in 1..n : i \in 1..N
    BY <1>2
  <2> HIDE DEF n, N
  <2> QED
    BY <1>2, <2>1 DEF Deadline
<1>5. Len(records') = N
  <2>1. PICK s : s = records'
    OBVIOUS
  <2>2. s \in [1..N -> Range(s)]
    <3>1. s = [i \in DOMAIN request |-> s[i]] /\ DOMAIN s = 1..N
      BY <1>2, <2>1 DEF Deadline
    <3>2. \A i \in 1..N : s[i] \in Range(s)
      BY <3>1 DEF Range
    <3> HIDE DEF N
    <3> QED
      BY <1>2, <3>1, <3>2
  <2> HIDE DEF N
  <2>3. Len(s) = N
    BY <1>2, <2>2, LengthOf
  <2> QED
    BY <2>1, <2>3
<1>6. \A i \in DOMAIN records' : records'[i].url = request[i].url /\ records'[i].bytes \in Nat
  <2> SUFFICES ASSUME NEW i \in 1..N PROVE records'[i].url = request[i].url /\ records'[i].bytes \in Nat
    BY <1>4
  <2>1. CASE i \in 1..n
    BY <1>2, <1>4, <2>1 DEF RecordsKnow
  <2>2. CASE i \notin 1..n
    BY <1>4, <2>2 DEF Record
  <2> QED
    BY <2>1, <2>2
<1>7. n + 1 \in DOMAIN records' /\ records'[n + 1].reason = "import_deadline"
  <2>1. n + 1 \in 1..N /\ n + 1 \notin 1..n
    BY <1>2
  <2> QED
    BY <1>4, <2>1 DEF Record
<1>8. SumFunctionOnSet(r, DOMAIN records') < ByteBudget + PageBytes
  <2>1. n <= N /\ r \in [1..N -> Nat]
    BY <1>2, <1>4, <1>6
  <2>2. \A i \in 1..n : q[i] = r[i]
    <3>1. \A i \in 1..n : i \in 1..N
      BY <1>2
    <3> HIDE DEF n, N
    <3> QED
      BY <1>2, <1>4, <3>1
  <2>3. \A i \in 1..N : i \notin 1..n => r[i] = 0
    BY <1>4 DEF Record
  <2>4. SumFunctionOnSet(q, 1..n) = spent /\ spent \in Nat
    BY <1>2 DEF RecordsKnow
  <2>5. IsFiniteSet(1..N)
    BY <1>2, FS_Interval
  <2> HIDE DEF q, r, n, N
  <2>6. SumFunctionOnSet(r, 1..N) <= SumFunctionOnSet(q, 1..n)
    BY <1>2, <2>1, <2>2, <2>3, BytesAtDeadline
  <2>7. SumFunctionOnSet(r, 1..N) \in Nat
    <3> DEFINE T == 1..N
    <3>1. r \in [T -> Nat] /\ T \in SUBSET T /\ IsFiniteSet(T)
      BY <2>1, <2>5
    <3> HIDE DEF T
    <3> QED
      BY <3>1, SumType DEF T
  <2>8. SumFunctionOnSet(r, 1..N) < ByteBudget + PageBytes
    BY <1>1, <2>4, <2>6, <2>7, LimitsOfImport
  <2> QED
    BY <1>4, <2>8
<1>9. PagesAnswer'
  <2>1. Len(records') = Len(request')
    BY <1>1, <1>5
  <2>2. \A i \in DOMAIN records' : records'[i].url = request'[i].url
    BY <1>1, <1>6
  <2>3. import'.draft = <<>> /\ \E i \in DOMAIN records' : records'[i].reason = "import_deadline"
    BY <1>3, <1>7
  <2>4. import'.state # "COMPLETED"
    BY <1>3
  <2> QED
    BY <1>8, <2>1, <2>2, <2>3, <2>4 DEF PagesAnswer
<1>10. ~ Confirmable' /\ Drafted' = {}
  BY <1>3 DEF Confirmable, Drafted, Range
<1>11. ImportIsSound'
  BY <1>9, <1>10 DEF ImportIsSound, DraftIsSound
<1>12. request' \in Requests /\ import'.state # "RETRIEVING"
  BY <1>1, <1>2, <1>3
<1> QED
  BY <1>11, <1>12 DEF ImportInv

\* There is a number of whole products the limit allows, and the next passes it.
LEMMA WithinIs ==
  ASSUME ProductsKnow
  PROVE  /\ Within \in 0..Len(products) /\ VariantsUpTo(Within) <= MaxVariants
         /\ Len(products) \in Nat /\ DOMAIN products = 1..Len(products)
<1> DEFINE m == Len(products)
           c == [j \in DOMAIN products |-> Cardinality(DOMAIN products[j].variants)]
           Enough == {i \in 0..m : i = m \/ VariantsUpTo(i + 1) > MaxVariants}
<1>1. m \in Nat /\ DOMAIN products = 1..m
  BY DEF ProductsKnow, IsSeq
<1>2. c \in [1..m -> Nat]
  <2>1. \A j \in DOMAIN products : Cardinality(DOMAIN products[j].variants) \in Nat
    BY LimitsOfImport DEF ProductsKnow, GoodProduct, WholeProduct
  <2> QED
    BY <1>1, <2>1
<1>3. \A i \in 0..m : VariantsUpTo(i) \in Nat
  <2> SUFFICES ASSUME NEW i \in 0..m PROVE VariantsUpTo(i) \in Nat
    OBVIOUS
  <2> DEFINE D == 1..m
             S == 1..i
  <2>1. IsFiniteSet(S) /\ S \in SUBSET D
    BY <1>1, FS_Interval
  <2>2. VariantsUpTo(i) = SumFunctionOnSet(c, S)
    BY DEF VariantsUpTo
  <2> HIDE DEF c, D, S
  <2>3. c \in [D -> Nat]
    BY <1>2 DEF D
  <2> QED
    BY <2>1, <2>2, <2>3, SumType
<1>4. VariantsUpTo(0) = 0
  <2>1. 1..0 = {}
    OBVIOUS
  <2> QED
    BY <2>1, SumEmpty DEF VariantsUpTo
<1> HIDE DEF m, c
<1>5. PICK w \in Enough : \A i \in Enough : w <= i
  <2>1. Enough \in SUBSET Nat /\ m \in Enough
    BY <1>1
  <2> HIDE DEF Enough
  <2> QED
    BY <2>1, SmallestNumber
<1>6. VariantsUpTo(w) <= MaxVariants
  <2>1. CASE w = 0
    BY <1>4, <2>1, LimitsOfImport
  <2>2. CASE w # 0
    <3>1. w - 1 \in 0..m /\ w - 1 < w /\ (w - 1) + 1 = w /\ w \in 0..m
      BY <1>1, <2>2
    <3>2. w - 1 \notin Enough
      BY <1>1, <1>5, <3>1
    <3>3. ~ (VariantsUpTo(w) > MaxVariants)
      BY <3>1, <3>2
    <3> QED
      BY <1>3, <3>1, <3>3, LimitsOfImport
  <2> QED
    BY <2>1, <2>2
<1>7. \E i \in 0..m : VariantsUpTo(i) <= MaxVariants /\ (i < m => VariantsUpTo(i + 1) > MaxVariants)
  BY <1>1, <1>6
<1> QED
  BY <1>1, <1>7 DEF Within, m

LEMMA FinishImportKeeps == ASSUME ImportInv, FinishImport PROVE ImportInv'
<1> DEFINE w == Within
           m == Len(products)
<1>1. /\ import = Retrieving /\ Acceptable /\ Len(records) = Len(request)
      /\ UNCHANGED <<request, records, products, policies, omissions>>
      /\ findings' = IF w = m THEN findings ELSE findings \cup {<<products[w + 1].url, "import_truncated">>}
      /\ import' = [state |-> "COMPLETED", draft |-> SubSeq(products, 1, w)]
  BY DEF FinishImport
<1>2. ProductsKnow /\ RecordsKnow /\ ProductsInOrder /\ request \in Requests
  BY <1>1 DEF ImportInv, Retrieving
<1>3. w \in 0..m /\ VariantsUpTo(w) <= MaxVariants /\ m \in Nat /\ DOMAIN products = 1..m /\ IsSeq(products)
  BY <1>2, WithinIs DEF ProductsKnow
<1>4. DOMAIN import'.draft = 1..w /\ Len(import'.draft) = w /\ \A i \in 1..w : import'.draft[i] = products[i]
  <2>1. import'.draft = SubSeq(products, 1, w)
    BY <1>1
  <2> HIDE DEF w, m
  <2>2. products \in Seq(Range(products)) /\ w <= m
    BY <1>3 DEF IsSeq
  <2>3. /\ DOMAIN SubSeq(products, 1, w) = 1..w /\ Len(SubSeq(products, 1, w)) = w
        /\ \A i \in 1..w : SubSeq(products, 1, w)[i] = products[i]
    BY <1>3, <2>2 DEF m
  <2> QED
    BY <2>1, <2>3
<1>5. import'.state = "COMPLETED"
  BY <1>1
<1> HIDE DEF w, m
<1>6. \A i \in 1..w : i \in DOMAIN products
  BY <1>3
<1>7. \A p \in Drafted' : \E i \in 1..w : p = products[i] /\ i \in DOMAIN products
  BY <1>4, <1>6 DEF Drafted, Range
<1>8. \A p \in Drafted' : GoodProduct(p)
  BY <1>2, <1>7 DEF ProductsKnow
<1>9. DraftIsSound'
  <2>1. ASSUME NEW i \in DOMAIN import'.draft, NEW j \in DOMAIN import'.draft, i # j
        PROVE  /\ import'.draft[i].id # import'.draft[j].id
               /\ Skus(import'.draft[i]) \cap Skus(import'.draft[j]) = {}
    <3>1. i \in DOMAIN products /\ j \in DOMAIN products /\ import'.draft[i] = products[i] /\ import'.draft[j] = products[j]
      BY <1>4, <1>6
    <3> QED
      BY <1>2, <2>1, <3>1 DEF ProductsKnow
  <2>2. \A p \in Drafted' :
          /\ Cardinality(DOMAIN p.variants) \in 1..MaxPerProduct
          /\ \A i, j \in DOMAIN p.variants : p.variants[i].sku = p.variants[j].sku => i = j
    BY <1>8 DEF GoodProduct, WholeProduct
  <2>3. VariantsUpTo(Len(import.draft))' <= MaxVariants
    BY <1>1, <1>3, <1>4 DEF VariantsUpTo
  <2>4. ASSUME NEW p \in Drafted', NEW q \in Drafted', NEW v \in Range(p.variants), NEW u \in Range(q.variants), v.sku = u.sku
        PROVE  v.raw = u.raw
    <3>1. <<v.sku, v.raw>> \in taken.skus /\ <<u.sku, u.raw>> \in taken.skus
      BY <1>8 DEF GoodProduct, Identified
    <3>2. OneMeaning(taken.skus)
      BY <1>2 DEF ProductsKnow, IdentifiersKnow
    <3> QED
      BY <2>4, <3>1, <3>2 DEF OneMeaning
  <2> QED
    BY <2>1, <2>2, <2>3, <2>4 DEF DraftIsSound
<1>10. ASSUME NEW i \in DOMAIN records, records[i].retrieved
       PROVE  \/ \E p \in Drafted' : p.url = request[i].url
              \/ request[i].url \in Range(policies)
              \/ \E o \in omissions : o[1] = request[i].url
              \/ \E j \in 1..i : <<request[j].url, "import_truncated">> \in findings'
  <2>1. PageAnswered(i)
    BY <1>2, <1>10 DEF RecordsKnow
  <2>2. CASE \E k \in DOMAIN products : products[k].url = request[i].url
    <3>1. PICK k \in DOMAIN products : products[k].url = request[i].url
      BY <2>2
    <3>2. CASE k <= w
      <4>1. k \in 1..w /\ import'.draft[k] = products[k]
        BY <1>3, <1>4, <3>2
      <4>2. import'.draft[k] \in Drafted'
        BY <1>4, <4>1 DEF Drafted, Range
      <4> QED
        BY <3>1, <4>1, <4>2
    <3>3. CASE ~ (k <= w)
      <4>1. w + 1 \in DOMAIN products /\ w + 1 <= k /\ w # m
        BY <1>3, <3>3
      <4>2. PICK j \in DOMAIN records : products[w + 1].url = request[j].url
        BY <1>2, <4>1 DEF ProductsInOrder
      <4>3. j <= i
        BY <1>2, <1>10, <3>1, <4>1, <4>2 DEF ProductsInOrder
      <4>4. DOMAIN records = 1..Len(records) /\ Len(records) \in Nat
        BY <1>2 DEF RecordsKnow, IsSeq
      <4>5. j \in 1..i
        BY <1>10, <4>2, <4>3, <4>4
      <4>6. <<products[w + 1].url, "import_truncated">> \in findings'
        BY <1>1, <4>1
      <4> QED
        BY <4>2, <4>5, <4>6
    <3> QED
      BY <3>2, <3>3
  <2> QED
    BY <2>1, <2>2 DEF PageAnswered
<1>11. PagesAnswer'
  <2>1. Len(records') = Len(request') /\ \A i \in DOMAIN records' : records'[i].url = request'[i].url
    BY <1>1, <1>2 DEF RecordsKnow
  <2>2. SumFunctionOnSet([i \in DOMAIN records' |-> records'[i].bytes], DOMAIN records') < ByteBudget + PageBytes
    BY <1>1, <1>2 DEF RecordsKnow
  <2>3. import'.state # "FAILED"
    BY <1>5
  <2>4. \A i \in DOMAIN records' :
          \/ ~ records'[i].retrieved
          \/ \E p \in Drafted' : p.url = request'[i].url
          \/ request'[i].url \in Range(policies')
          \/ \E o \in omissions' : o[1] = request'[i].url
          \/ \E j \in 1..i : <<request'[j].url, "import_truncated">> \in findings'
    BY <1>1, <1>10
  <2> QED
    BY <2>1, <2>2, <2>3, <2>4 DEF PagesAnswer
<1>12. \A p \in Drafted' : \A v \in Range(p.variants) : PriceIsPublished(p, v.price)'
  <2>1. \A p, price : PriceIsPublished(p, price) => PriceIsPublished(p, price)'
    BY <1>1 DEF PriceIsPublished
  <2> QED
    BY <1>8, <2>1 DEF GoodProduct, WholeProduct
<1>13. ImportIsSound'
  BY <1>9, <1>11, <1>12 DEF ImportIsSound
<1>14. request' \in Requests /\ import'.state # "RETRIEVING"
  BY <1>1, <1>2, <1>5
<1> QED
  BY <1>13, <1>14 DEF ImportInv

LEMMA ImportStarts == ASSUME ImportInit PROVE ImportInv
<1>1. /\ request \in Requests /\ records = <<>> /\ products = <<>> /\ policies = <<>>
      /\ taken = [products |-> {}, skus |-> {}] /\ spent = 0 /\ import = Retrieving
  BY DEF ImportInit
<1>2. DOMAIN records = {} /\ DOMAIN products = {} /\ IsSeq(records) /\ IsSeq(products) /\ IsSeq(policies)
  BY <1>1 DEF IsSeq, Range
<1>3. ProductsKnow
  BY <1>1, <1>2 DEF ProductsKnow, IdentifiersKnow, OneMeaning
<1>4. RecordsKnow
  <2>1. Len(request) \in Nat /\ Len(records) = 0
    BY <1>1, PagesAssumption DEF IsSeq
  <2>2. SumFunctionOnSet([i \in DOMAIN records |-> records[i].bytes], DOMAIN records) = 0
    BY <1>2, SumEmpty
  <2>3. spent < ByteBudget + PageBytes /\ spent \in Nat
    BY <1>1, LimitsOfImport
  <2> QED
    BY <1>1, <1>2, <2>1, <2>2, <2>3 DEF RecordsKnow
<1>5. ProductsInOrder
  BY <1>2 DEF ProductsInOrder
<1>6. ImportIsSound
  <2>1. ~ ImportOver /\ ~ Confirmable /\ Drafted = {}
    BY <1>1 DEF ImportOver, Confirmable, Drafted, Range, Retrieving
  <2> QED
    BY <2>1 DEF ImportIsSound, DraftIsSound, PagesAnswer
<1> QED
  BY <1>1, <1>3, <1>4, <1>5, <1>6 DEF ImportInv

LEMMA ImportStutters == ASSUME ImportInv, UNCHANGED importVars PROVE ImportInv'
<1>1. UNCHANGED <<request, records, products, policies, omissions, findings, taken, spent, import>>
  BY DEF importVars
<1>2. ImportIsSound'
  <2>1. ImportIsSound
    BY DEF ImportInv
  <2>2. DraftIsSound'
    BY <1>1, <2>1 DEF ImportIsSound, DraftIsSound, Confirmable, Drafted, VariantsUpTo
  <2>3. PagesAnswer'
    BY <1>1, <2>1 DEF ImportIsSound, PagesAnswer, ImportOver, Drafted
  <2>4. \A p, price : PriceIsPublished(p, price) => PriceIsPublished(p, price)'
    BY <1>1 DEF PriceIsPublished
  <2>5. \A p \in Drafted' : \A v \in Range(p.variants) : PriceIsPublished(p, v.price)'
    BY <1>1, <2>1, <2>4 DEF ImportIsSound, Drafted
  <2> QED
    BY <2>2, <2>3, <2>5 DEF ImportIsSound
<1>3. ASSUME import'.state = "RETRIEVING"
      PROVE  import' = Retrieving /\ ProductsKnow' /\ RecordsKnow' /\ ProductsInOrder'
  <2>1. import = Retrieving /\ ProductsKnow /\ RecordsKnow /\ ProductsInOrder
    BY <1>1, <1>3 DEF ImportInv
  <2>2. ProductsKnow'
    BY <1>1, <2>1, ProductsStay DEF ProductsKnow
  <2>3. \A i : PageAnswered(i) => PageAnswered(i)'
    BY <1>1 DEF PageAnswered
  <2>4. RecordsKnow'
    BY <1>1, <2>1, <2>3 DEF RecordsKnow, Acceptable
  <2> QED
    BY <1>1, <2>1, <2>2, <2>4 DEF ProductsInOrder
<1> QED
  BY <1>1, <1>2, <1>3 DEF ImportInv

\* What an import leaves behind is sound, whatever pages it names and whatever the limits are: a
\* draft that can be confirmed as it stands (importer/service.py:643 and 718), of prices that were
\* published to the last digit (importer/amounts.py:202), and an answer for every page
\* (importer/service.py:351).
THEOREM ImportsAreSound == ImportSpec => []ImportIsSound
<1>1. ImportInit => ImportInv
  BY ImportStarts
<1>2. ImportInv /\ [ImportNext]_importVars => ImportInv'
  BY RefuseTargetsKeeps, PassOverKeeps, FetchFailsKeeps, FetchAnswersKeeps, DeadlineKeeps, FinishImportKeeps,
     ImportStutters DEF ImportNext
<1>3. ImportInv => ImportIsSound
  BY DEF ImportInv
<1> QED
  BY <1>1, <1>2, <1>3, PTL DEF ImportSpec

(***************************************************************************)
(* The suite of a new merchant: numbers and sets.                          *)
(***************************************************************************)

LEMMA LeastIs ==
  ASSUME NEW S \in SUBSET Nat, S # {}
  PROVE  Least(S) \in S /\ \A x \in S : Least(S) <= x
<1>1. \E x \in S : \A y \in S : x <= y
  BY SmallestNumber
<1> QED
  BY <1>1 DEF Least

LEMMA GreatestIs ==
  ASSUME NEW S \in SUBSET Nat, IsFiniteSet(S), S # {}
  PROVE  Greatest(S) \in S /\ \A x \in S : x <= Greatest(S)
<1>1. PICK x \in S : \A y \in S : x >= y
  BY LargestNumber
<1>2. \A y \in S : y <= x
  BY <1>1
<1> QED
  BY <1>2 DEF Greatest

\* One element more.
LEMMA FewerThan ==
  ASSUME NEW S, NEW T, IsFiniteSet(T), S \subseteq T, NEW x \in T, x \notin S
  PROVE  /\ Cardinality(S) \in Nat /\ Cardinality(T) \in Nat
         /\ Cardinality(S) < Cardinality(T)
<1>1. IsFiniteSet(S) /\ Cardinality(S) <= Cardinality(T) /\ (Cardinality(T) = Cardinality(S) => T = S)
  BY FS_Subset
<1>2. Cardinality(S) \in Nat /\ Cardinality(T) \in Nat
  BY <1>1, FS_CardinalityType
<1> QED
  BY <1>1, <1>2

(***************************************************************************)
(* The catalog of the evaluation.                                          *)
(***************************************************************************)

\* What is projected is for sale, counted, and free of what AgentRank wrote.
WholeShop ==
  /\ IsFiniteSet(Shop)
  /\ \A e \in Shop : Counted(e) /\ e.listed /\ e.sold /\ DOMAIN e.attributes \cap Provenance = {}

LEMMA ShopIsWhole == ASSUME SuiteInv PROVE WholeShop
<1>1. /\ Len(source) \in Nat /\ DOMAIN source = 1..Len(source)
      /\ \A i \in DOMAIN source : source[i].price \in Nat /\ source[i].quantity \in Nat \cup {-1}
  BY SourcesAssumption DEF SuiteInv
<1>2. choice.units \in Nat
  BY ConfigurationsAssumption DEF SuiteInv
<1>3. CASE entries = <<>>
  <2>1. Shop = {}
    BY <1>3 DEF Shop
  <2> QED
    BY <2>1, FS_EmptySet DEF WholeShop
<1>4. CASE entries = [i \in DOMAIN source |-> Project(source[i])]
  <2>1. DOMAIN entries = 1..Len(source) /\ \A i \in DOMAIN entries : entries[i] = Project(source[i])
    BY <1>1, <1>4
  <2>2. IsFiniteSet(DOMAIN entries)
    BY <1>1, <2>1, FS_Interval
  <2>3. entries \in Surjection(DOMAIN entries, Shop)
    BY <1>4 DEF Surjection, Shop
  <2>4. IsFiniteSet(Shop)
    BY <2>2, <2>3, FS_Surjection
  <2>5. ASSUME NEW e \in Shop
        PROVE  Counted(e) /\ e.listed /\ e.sold /\ DOMAIN e.attributes \cap Provenance = {}
    <3>1. PICK i \in DOMAIN source : e = Project(source[i])
      BY <1>1, <2>1 DEF Shop
    <3>2. e.listed /\ e.sold /\ e.price = source[i].price /\ DOMAIN e.attributes = Carried(source[i])
      BY <3>1 DEF Project
    <3>3. e.stock = IF source[i].quantity = -1 THEN choice.units ELSE source[i].quantity
      BY <3>1 DEF Project
    <3>4. e.stock \in Nat /\ e.price \in Nat
      BY <1>1, <1>2, <3>2, <3>3
    <3> QED
      BY <3>2, <3>4 DEF Counted, Carried
  <2> QED
    BY <2>4, <2>5 DEF WholeShop
<1> QED
  BY <1>3, <1>4 DEF SuiteInv

LEMMA PricesAreCounted ==
  ASSUME WholeShop, NEW S, S \subseteq Shop
  PROVE  /\ IsFiniteSet(S) /\ PricesOf(S) \in SUBSET Nat /\ IsFiniteSet(PricesOf(S))
         /\ S # {} => PricesOf(S) # {}
<1>1. IsFiniteSet(S)
  BY FS_Subset DEF WholeShop
<1>2. PricesOf(S) \in SUBSET Nat
  BY DEF WholeShop, Counted, PricesOf
<1> DEFINE price == [e \in S |-> e.price]
<1>3. price \in Surjection(S, PricesOf(S))
  BY DEF Surjection, PricesOf
<1>4. IsFiniteSet(PricesOf(S))
  BY <1>1, <1>3, FS_Surjection
<1> QED
  BY <1>1, <1>2, <1>4 DEF PricesOf

\* The extremes of what some lines cost.
LEMMA PriceBounds ==
  ASSUME WholeShop, NEW S, S \subseteq Shop, S # {}
  PROVE  Least(PricesOf(S)) \in Nat /\ Greatest(PricesOf(S)) \in Nat
<1>1. PricesOf(S) \in SUBSET Nat /\ IsFiniteSet(PricesOf(S)) /\ PricesOf(S) # {}
  BY PricesAreCounted
<1> QED
  BY <1>1, LeastIs, GreatestIs

(***************************************************************************)
(* What the families propose.                                              *)
(***************************************************************************)

IsProposal(g, p) ==
  /\ p.about \subseteq {0} \cup Specifications(g)
  /\ p.quantity \in Nat \ {0}
  /\ p.about # {} => p.limit \in Nat \ {0}

LEMMA ProposalIs ==
  ASSUME NEW g, NEW about, about \subseteq {0} \cup Specifications(g), NEW q \in Nat \ {0}, NEW limit \in Nat
  PROVE  IsProposal(g, Proposal(about, q, limit))
  BY DEF IsProposal, Proposal

LEMMA NoProposalIs == ASSUME NEW g PROVE IsProposal(g, NoProposal)
  BY DEF IsProposal, NoProposal

LEMMA TimesIsNat == \A x, y \in Nat : x * y \in Nat
  OBVIOUS

LEMMA FamilyProposes ==
  ASSUME WholeShop, NEW family \in Families, NEW g
  PROVE  IsProposal(g, Proposals(family, g))
<1>1. Every(g) \subseteq Shop /\ Buyable(g) \subseteq Shop
  BY DEF Every, Buyable
<1>2. family \in {"CATEGORY_PURCHASE", "BUDGET_CONSTRAINED_PURCHASE", "MULTI_UNIT_PURCHASE", "SPECIFICATION_PURCHASE",
                  "BUDGET_ABSTENTION", "STOCK_ABSTENTION", "UNAVAILABLE_ABSTENTION", "SPECIFICATION_ABSTENTION"}
  BY DEF Families, FamilyOrder
<1>3. MultiUnit \in Nat \ {0}
  BY SuiteLimitsAssumption
<1>4. Buyable(g) # {} => Least(PricesOf(Buyable(g))) \in Nat /\ Greatest(PricesOf(Buyable(g))) \in Nat
  BY <1>1, PriceBounds
<1>5. Every(g) # {} => Greatest(PricesOf(Every(g))) \in Nat
  BY <1>1, PriceBounds
<1>6. CASE family = "CATEGORY_PURCHASE"
  <2>1. IsProposal(g, CategoryPurchases(g))
    BY <1>4, ProposalIs, NoProposalIs DEF CategoryPurchases
  <2> QED
    BY <1>6, <2>1 DEF Proposals
<1>7. CASE family = "BUDGET_CONSTRAINED_PURCHASE"
  <2>1. PricesOf(Buyable(g)) # {} => Buyable(g) # {}
    BY DEF PricesOf
  <2>2. IsProposal(g, BudgetConstrainedPurchases(g))
    BY <1>4, <2>1, ProposalIs, NoProposalIs DEF BudgetConstrainedPurchases
  <2> QED
    BY <1>7, <2>2 DEF Proposals
<1>8. CASE family = "MULTI_UNIT_PURCHASE"
  <2> DEFINE stocked == {e \in Buyable(g) : e.stock >= MultiUnit}
             most == Greatest(PricesOf(stocked))
  <2>1. stocked # {} => most \in Nat
    BY <1>1, PriceBounds
  <2>2. MultiUnitPurchases(g) = IF HasCategory(g) /\ stocked # {} THEN Proposal({0}, MultiUnit, most * MultiUnit) ELSE NoProposal
    BY DEF MultiUnitPurchases
  <2> HIDE DEF stocked, most
  <2>3. stocked # {} => most * MultiUnit \in Nat
    BY <1>3, <2>1, TimesIsNat
  <2>4. IsProposal(g, MultiUnitPurchases(g))
    BY <1>3, <2>2, <2>3, ProposalIs, NoProposalIs
  <2> QED
    BY <1>8, <2>4 DEF Proposals
<1>9. CASE family = "SPECIFICATION_PURCHASE"
  <2>1. IsProposal(g, SpecificationPurchases(g))
    BY <1>4, ProposalIs, NoProposalIs DEF SpecificationPurchases
  <2> QED
    BY <1>9, <2>1 DEF Proposals
<1>10. CASE family = "BUDGET_ABSTENTION"
  <2>1. Buyable(g) # {} => Least(PricesOf(Buyable(g))) \div 2 \in Nat
    BY <1>4
  <2>2. IsProposal(g, BudgetAbstentions(g))
    BY <2>1, ProposalIs, NoProposalIs DEF BudgetAbstentions
  <2> QED
    BY <1>10, <2>2 DEF Proposals
<1>11. CASE family = "STOCK_ABSTENTION"
  <2> DEFINE levels == {e.stock : e \in Buyable(g)}
             wanted == Greatest(levels) + 1
             most == Greatest(PricesOf(Buyable(g)))
  <2>1. StockAbstentions(g) = IF HasCategory(g) /\ Buyable(g) # {} /\ wanted <= MaxShortage
                              THEN Proposal({0}, wanted, most * wanted) ELSE NoProposal
    BY DEF StockAbstentions
  <2>2. Buyable(g) # {} => wanted \in Nat \ {0}
    <3>1. levels \in SUBSET Nat /\ (Buyable(g) # {} => levels # {})
      BY <1>1 DEF WholeShop, Counted
    <3> DEFINE stock == [e \in Buyable(g) |-> e.stock]
    <3>2. stock \in Surjection(Buyable(g), levels)
      BY DEF Surjection
    <3>3. IsFiniteSet(Buyable(g))
      BY <1>1, PricesAreCounted
    <3>4. IsFiniteSet(levels)
      BY <3>2, <3>3, FS_Surjection
    <3> HIDE DEF levels
    <3>5. Buyable(g) # {} => Greatest(levels) \in Nat
      BY <3>1, <3>4, GreatestIs
    <3> QED
      BY <3>5
  <2>3. Buyable(g) # {} => most \in Nat
    BY <1>4
  <2> HIDE DEF levels, wanted, most
  <2>4. Buyable(g) # {} => most * wanted \in Nat
    BY <2>2, <2>3, TimesIsNat
  <2>5. IsProposal(g, StockAbstentions(g))
    BY <2>1, <2>2, <2>4, ProposalIs, NoProposalIs
  <2> QED
    BY <1>11, <2>5 DEF Proposals
<1>12. CASE family = "UNAVAILABLE_ABSTENTION"
  <2>1. IsProposal(g, UnavailableAbstentions(g))
    BY <1>5, ProposalIs, NoProposalIs DEF UnavailableAbstentions
  <2> QED
    BY <1>12, <2>1 DEF Proposals
<1>13. CASE family = "SPECIFICATION_ABSTENTION"
  <2>1. IsProposal(g, SpecificationAbstentions(g))
    BY <1>5, ProposalIs, NoProposalIs DEF SpecificationAbstentions
  <2> QED
    BY <1>13, <2>1 DEF Proposals
<1> QED
  BY <1>2, <1>6, <1>7, <1>8, <1>9, <1>10, <1>11, <1>12, <1>13

(***************************************************************************)
(* A mission that was agreed on says what is so.                           *)
(***************************************************************************)

\* What a brief asks, place by place.
LEMMA RequirementsAre ==
  ASSUME NEW g, NEW a
  PROVE  LET hard == Requirements(g, a)
         IN  /\ DOMAIN hard \subseteq {1, 2}
             /\ 1 \in DOMAIN hard => hard[1] = [kind |-> "allowed_category", category |-> g.category]
             /\ 2 \in DOMAIN hard <=> a # 0
             /\ 2 \in DOMAIN hard =>
                  hard[2] = [kind |-> "required_attribute", key |-> Facts[a].key, operator |-> "EQ", value |-> {Facts[a].value}]
             /\ Requiring(hard) = {i \in DOMAIN hard : i = 2}
             /\ Categories(hard) = {i \in DOMAIN hard : i = 1}
<1> DEFINE hard == Requirements(g, a)
<1>1. DOMAIN hard = {j \in {1, 2} : IF j = 1 THEN HasCategory(g) ELSE a # 0}
  BY DEF Requirements
<1>2. 1 \in DOMAIN hard => hard[1] = [kind |-> "allowed_category", category |-> g.category]
  BY DEF Requirements
<1>3. 2 \in DOMAIN hard =>
        hard[2] = [kind |-> "required_attribute", key |-> Facts[a].key, operator |-> "EQ", value |-> {Facts[a].value}]
  BY DEF Requirements
<1>4. DOMAIN hard \subseteq {1, 2} /\ (2 \in DOMAIN hard <=> a # 0)
  BY <1>1
<1> HIDE DEF hard
<1>5. \A i \in DOMAIN hard : (hard[i].kind = "required_attribute" <=> i = 2) /\ (hard[i].kind = "allowed_category" <=> i = 1)
  BY <1>2, <1>3, <1>4
<1>6. Requiring(hard) = {i \in DOMAIN hard : i = 2} /\ Categories(hard) = {i \in DOMAIN hard : i = 1}
  BY <1>5 DEF Requiring, Categories
<1> QED
  BY <1>2, <1>3, <1>4, <1>6 DEF hard

\* A fact that may be asked for is one that a line carries, can be read of, and may state.
LEMMA FactIsPublished ==
  ASSUME WholeShop, NEW g, NEW a \in Specifications(g)
  PROVE  /\ Facts[a].key \notin Provenance
         /\ Facts[a].value.type # "other"
         /\ \E e \in Shop : Observable(Facts[a].value, e.shown)
<1>1. PICK e \in Every(g) : Carries(e, Facts[a]) /\ Observable(Facts[a].value, e.shown)
  BY DEF Specifications
<1>2. e \in Shop /\ Facts[a].key \in DOMAIN e.attributes
  BY <1>1 DEF Every, Carries
<1>3. Facts[a].key \notin Provenance
  BY <1>2 DEF WholeShop
<1>4. Facts[a].value.type \in {"string", "number"}
  BY <1>1 DEF Observable
<1> QED
  BY <1>1, <1>2, <1>3, <1>4

\* A proposed brief that has a requirement is one a buyer may state and the gate accepts.
LEMMA BriefIsStated ==
  ASSUME WholeShop, NEW g, NEW p, IsProposal(g, p), NEW a \in p.about, NEW b, b = BriefOf(g, a, p),
         Semantic(b) # {}
  PROVE  /\ IsBrief(b) /\ WellStated(b) /\ ~ Malformed(b.hard)
         /\ \A i \in Requiring(b.hard) :
              /\ b.hard[i].key \notin Provenance
              /\ \A v \in b.hard[i].value : \E e \in Shop : Observable(v, e.shown)
<1>1. PICK hard : hard = Requirements(g, a)
  OBVIOUS
<1>2. /\ DOMAIN b = {"hard", "limit", "currency", "quantity"} /\ b.hard = hard
      /\ b.limit = p.limit /\ b.quantity = p.quantity
  BY <1>1 DEF BriefOf
<1>3. /\ DOMAIN hard \subseteq {1, 2}
      /\ 1 \in DOMAIN hard => hard[1] = [kind |-> "allowed_category", category |-> g.category]
      /\ 2 \in DOMAIN hard <=> a # 0
      /\ 2 \in DOMAIN hard =>
           hard[2] = [kind |-> "required_attribute", key |-> Facts[a].key, operator |-> "EQ", value |-> {Facts[a].value}]
      /\ Requiring(hard) = {i \in DOMAIN hard : i = 2}
      /\ Categories(hard) = {i \in DOMAIN hard : i = 1}
  BY <1>1, RequirementsAre
<1>4. p.limit \in Nat /\ p.quantity \in Nat \ {0} /\ (a # 0 => a \in Specifications(g))
  BY DEF IsProposal
<1>5. IsBrief(b)
  BY <1>2, <1>3, <1>4 DEF IsBrief
<1>6. a # 0 => /\ Facts[a].key \notin Provenance /\ Facts[a].value.type # "other"
               /\ \E e \in Shop : Observable(Facts[a].value, e.shown)
  BY <1>4, FactIsPublished
<1>7. \A i \in DOMAIN hard : hard[i].kind # "max_quantity"
  BY <1>3
<1>8. Ceiling(b) = 0
  BY <1>2, <1>7 DEF Ceiling
<1>9. \A i \in DOMAIN hard : ValidConstraint(hard[i])
  <2>1. 2 \in DOMAIN hard => ValidConstraint(hard[2])
    <3> SUFFICES ASSUME 2 \in DOMAIN hard PROVE ValidConstraint(hard[2])
      OBVIOUS
    <3>1. /\ hard[2].value = {Facts[a].value} /\ hard[2].operator = "EQ"
          /\ Facts[a].value.type # "other"
      BY <1>3, <1>6
    <3>2. Cardinality({Facts[a].value}) = 1
      BY FS_Singleton
    <3>3. Cardinality(hard[2].value) \in 1..MaxMembers
      BY <3>1, <3>2, SuiteLimitsAssumption
    <3> QED
      <4>1. \A v \in hard[2].value : v = Facts[a].value
        BY <3>1
      <4>2. hard[2].operator \notin {"IN", "GTE", "LTE"}
        BY <3>1
      <4>3. Cardinality(hard[2].value) = 1
        BY <3>1, <3>2
      <4> QED
        BY <3>1, <3>3, <4>1, <4>2, <4>3 DEF ValidConstraint
  <2>2. 1 \in DOMAIN hard => ValidConstraint(hard[1])
    BY <1>3 DEF ValidConstraint
  <2> QED
    BY <1>3, <2>1, <2>2
<1>10. WellStated(b)
  BY <1>2, <1>7, <1>8, <1>9 DEF WellStated
<1>11. ~ Malformed(hard)
  <2>1. Semantic(b) \subseteq DOMAIN hard
    BY <1>2 DEF Semantic
  <2>2. Requiring(hard) # {} \/ Categories(hard) # {}
    BY <1>3, <2>1
  <2>3. SemanticSpecs(hard) # {}
    BY <2>2 DEF SemanticSpecs
  <2>4. \A i, j \in Requiring(hard) : i = j
    BY <1>3
  <2> QED
    BY <2>3, <2>4 DEF Malformed
<1>12. \A i \in Requiring(hard) :
         /\ hard[i].key \notin Provenance
         /\ \A v \in hard[i].value : \E e \in Shop : Observable(v, e.shown)
  <2> SUFFICES ASSUME 2 \in DOMAIN hard
               PROVE  /\ hard[2].key \notin Provenance
                      /\ \A v \in hard[2].value : \E e \in Shop : Observable(v, e.shown)
    BY <1>3
  <2> QED
    BY <1>3, <1>6
<1> QED
  BY <1>2, <1>5, <1>10, <1>11, <1>12

\* The key a purchase is marked by is what its cheapest line costs.
LEMMA WorthIsFloor ==
  ASSUME WholeShop, NEW b, IsBrief(b), Qualifying(b) # {}
  PROVE  Worth(b) <= b.limit /\ \A e \in Qualifying(b) : Worth(b) <= e.price * b.quantity
<1>1. Qualifying(b) \subseteq Shop /\ b.quantity \in Nat
  BY DEF Qualifying, IsBrief
<1>2. PricesOf(Qualifying(b)) \in SUBSET Nat /\ PricesOf(Qualifying(b)) # {}
  BY <1>1, PricesAreCounted
<1>3. PICK least : least = Least(PricesOf(Qualifying(b)))
  OBVIOUS
<1>4. least \in PricesOf(Qualifying(b)) /\ \A x \in PricesOf(Qualifying(b)) : least <= x
  BY <1>2, <1>3, LeastIs
<1>5. Worth(b) = least * b.quantity
  BY <1>3 DEF Worth
<1>6. PICK cheapest \in Qualifying(b) : least = cheapest.price
  BY <1>4 DEF PricesOf
<1>7. Worth(b) <= b.limit
  BY <1>5, <1>6 DEF Qualifying, Qualifies
<1>8. ASSUME NEW e \in Qualifying(b) PROVE least * b.quantity <= e.price * b.quantity
  <2>1. least \in Nat /\ e.price \in Nat /\ least <= e.price
    BY <1>2, <1>4, <1>8 DEF PricesOf
  <2>2. PICK more \in Nat : e.price = least + more
    <3>1. e.price - least \in Nat /\ e.price = least + (e.price - least)
      BY <2>1
    <3> QED
      BY <3>1
  <2>3. (least + more) * b.quantity = least * b.quantity + more * b.quantity
    BY <1>1, <2>1
  <2>4. more * b.quantity \in Nat /\ least * b.quantity \in Nat
    BY <1>1, <2>1, TimesIsNat
  <2> QED
    BY <2>2, <2>3, <2>4
<1> QED
  BY <1>5, <1>7, <1>8

LEMMA AgreedIsTrue ==
  ASSUME WholeShop, NEW family, NEW g, NEW p, IsProposal(g, p), NEW a \in p.about, NEW b, b = BriefOf(g, a, p),
         Agrees(family, b)
  PROVE  MissionIsTrue(Mission(family, b))
<1>1. /\ IsBrief(b) /\ WellStated(b) /\ ~ Malformed(b.hard)
      /\ \A i \in Requiring(b.hard) :
           /\ b.hard[i].key \notin Provenance
           /\ \A v \in b.hard[i].value : \E e \in Shop : Observable(v, e.shown)
  BY BriefIsStated DEF Agrees
<1>2. Accepted(b) = Qualifying(b)
  <2>1. \A e \in Shop : Assess(b, e) = "ACCEPTED" <=> Qualifies(b, e)
    BY <1>1, ExecutorAndOracle DEF WholeShop
  <2> QED
    BY <2>1 DEF Accepted, Qualifying
<1>3. PICK m : m = Mission(family, b)
  OBVIOUS
<1>4. m.brief = b /\ m.buyable = (family \in Purchases) /\ m.worth = Worth(b)
  BY <1>3 DEF Mission
<1>5. m.buyable = (Accepted(b) # {})
  BY <1>2, <1>4 DEF Agrees
<1>6. m.buyable => /\ m.worth > 0 /\ m.worth <= b.limit
                   /\ \A e \in Accepted(b) : m.worth <= e.price * b.quantity
  <2>1. m.buyable => Worth(b) > 0 /\ Qualifying(b) # {}
    BY <1>2, <1>4, <1>5 DEF Agrees
  <2> QED
    BY <1>1, <1>2, <1>4, <2>1, WorthIsFloor
<1>7. MissionIsTrue(m)
  BY <1>1, <1>4, <1>5, <1>6 DEF MissionIsTrue
<1> QED
  BY <1>3, <1>7

(***************************************************************************)
(* The draw.                                                               *)
(***************************************************************************)

\* What a candidate is follows from its group and from what it is about.
LEMMA CandidateIs ==
  ASSUME WholeShop, NEW family \in Families, NEW c \in Candidates(family)
  PROVE  /\ c.group \in DOMAIN Groups /\ c.about \in {0} \cup DOMAIN Facts
         /\ c.about \in Proposals(family, Groups[c.group]).about
         /\ c.rank = Cardinality({b \in Proposals(family, Groups[c.group]).about : b < c.about})
         /\ c.brief = BriefOf(Groups[c.group], c.about, Proposals(family, Groups[c.group]))
         /\ c = [rank |-> c.rank, group |-> c.group, about |-> c.about, brief |-> c.brief]
<1>1. PICK i \in DOMAIN Groups : \E a \in Proposals(family, Groups[i]).about :
        c = [rank |-> Cardinality({b \in Proposals(family, Groups[i]).about : b < a}), group |-> i, about |-> a,
             brief |-> BriefOf(Groups[i], a, Proposals(family, Groups[i]))]
  BY DEF Candidates, CandidatesOf
<1>2. PICK a \in Proposals(family, Groups[i]).about :
        c = [rank |-> Cardinality({b \in Proposals(family, Groups[i]).about : b < a}), group |-> i, about |-> a,
             brief |-> BriefOf(Groups[i], a, Proposals(family, Groups[i]))]
  BY <1>1
<1>3. IsProposal(Groups[i], Proposals(family, Groups[i]))
  BY FamilyProposes
<1>4. a \in {0} \cup DOMAIN Facts
  BY <1>3 DEF IsProposal, Specifications
<1> QED
  BY <1>2, <1>4

LEMMA VocabularyIsFinite ==
  /\ DOMAIN Groups \subseteq Nat /\ IsFiniteSet(DOMAIN Groups)
  /\ {0} \cup DOMAIN Facts \subseteq Nat /\ IsFiniteSet({0} \cup DOMAIN Facts)
<1>1. IsFiniteSet(DOMAIN Groups) /\ IsFiniteSet(DOMAIN Facts) /\ DOMAIN Groups \subseteq Nat /\ DOMAIN Facts \subseteq Nat
  <2>1. PICK n \in Nat, m \in Nat : DOMAIN Groups = 1..n /\ DOMAIN Facts = 1..m
    BY VocabularyAssumption
  <2>2. IsFiniteSet(1..n) /\ IsFiniteSet(1..m)
    BY FS_Interval
  <2> QED
    BY <2>1, <2>2
<1>2. IsFiniteSet({0})
  BY FS_Singleton
<1>3. IsFiniteSet({0} \cup DOMAIN Facts)
  BY <1>1, <1>2, FS_Union
<1> QED
  BY <1>1, <1>3

LEMMA CandidatesAreFinite ==
  ASSUME WholeShop, NEW family \in Families
  PROVE  IsFiniteSet(Candidates(family))
<1> DEFINE grid == (DOMAIN Groups) \X ({0} \cup DOMAIN Facts)
           cell == [c \in Candidates(family) |-> <<c.group, c.about>>]
<1>1. IsFiniteSet(grid)
  BY VocabularyIsFinite, FS_Product
<1>2. cell \in [Candidates(family) -> grid]
  BY CandidateIs
<1>3. ASSUME NEW c \in Candidates(family), NEW d \in Candidates(family), cell[c] = cell[d]
      PROVE  c = d
  <2>1. c.group = d.group /\ c.about = d.about
    BY <1>3
  <2>2. c.rank = d.rank /\ c.brief = d.brief
    BY <2>1, CandidateIs
  <2>3. /\ c = [rank |-> c.rank, group |-> c.group, about |-> c.about, brief |-> c.brief]
        /\ d = [rank |-> d.rank, group |-> d.group, about |-> d.about, brief |-> d.brief]
    BY CandidateIs
  <2> QED
    BY <2>1, <2>2, <2>3
<1>4. cell \in Injection(Candidates(family), grid)
  BY <1>2, <1>3 DEF Injection, IsInjective
<1> QED
  BY <1>1, <1>4, FS_Injection

\* The order of the candidates of a family leaves no two of them undecided.
LEMMA CandidatesAreOrdered ==
  ASSUME WholeShop, NEW family \in Families, NEW c \in Candidates(family), NEW d \in Candidates(family)
  PROVE  /\ c.rank \in Nat /\ c.group \in Nat
         /\ c # d => Precedes(c, d) \/ Precedes(d, c)
<1>1. /\ c.group \in DOMAIN Groups /\ d.group \in DOMAIN Groups
      /\ c.about \in {0} \cup DOMAIN Facts /\ d.about \in {0} \cup DOMAIN Facts
  BY CandidateIs
<1>2. c.group \in Nat /\ d.group \in Nat /\ c.about \in Nat /\ d.about \in Nat
  BY <1>1, VocabularyIsFinite
<1>3. ASSUME NEW e \in Candidates(family) PROVE e.rank \in Nat
  <2>1. PICK p : p = Proposals(family, Groups[e.group])
    OBVIOUS
  <2>2. e.rank = Cardinality({b \in p.about : b < e.about}) /\ IsProposal(Groups[e.group], p)
    BY <2>1, CandidateIs, FamilyProposes
  <2>3. {b \in p.about : b < e.about} \subseteq {0} \cup DOMAIN Facts
    BY <2>2 DEF IsProposal, Specifications
  <2>4. IsFiniteSet({b \in p.about : b < e.about})
    BY <2>3, VocabularyIsFinite, FS_Subset
  <2> QED
    BY <2>2, <2>4, FS_CardinalityType
<1>4. ASSUME NEW x \in Candidates(family), NEW y \in Candidates(family), x.group = y.group, x.about < y.about
      PROVE  x.rank < y.rank
  <2>1. PICK p : p = Proposals(family, Groups[x.group])
    OBVIOUS
  <2>2. /\ x.about \in p.about /\ y.about \in p.about /\ IsProposal(Groups[x.group], p)
        /\ x.rank = Cardinality({b \in p.about : b < x.about})
        /\ y.rank = Cardinality({b \in p.about : b < y.about})
    BY <1>4, <2>1, CandidateIs, FamilyProposes
  <2>3. p.about \subseteq {0} \cup DOMAIN Facts
    BY <2>2 DEF IsProposal, Specifications
  <2>4. p.about \subseteq Nat /\ IsFiniteSet(p.about)
    BY <2>3, VocabularyIsFinite, FS_Subset
  <2> DEFINE S == {b \in p.about : b < x.about}
             T == {b \in p.about : b < y.about}
  <2>5. S \subseteq T /\ x.about \in T /\ x.about \notin S
    BY <1>4, <2>2, <2>4
  <2>6. IsFiniteSet(T)
    BY <2>4, FS_Subset
  <2> HIDE DEF S, T
  <2>7. Cardinality(S) < Cardinality(T)
    BY <2>5, <2>6, FewerThan
  <2> QED
    BY <2>2, <2>7 DEF S, T
<1>5. c # d /\ c.group = d.group => c.about # d.about
  <2>1. SUFFICES ASSUME c.group = d.group, c.about = d.about PROVE c = d
    OBVIOUS
  <2>2. c.rank = d.rank /\ c.brief = d.brief
    BY <2>1, CandidateIs
  <2>3. /\ c = [rank |-> c.rank, group |-> c.group, about |-> c.about, brief |-> c.brief]
        /\ d = [rank |-> d.rank, group |-> d.group, about |-> d.about, brief |-> d.brief]
    BY CandidateIs
  <2> QED
    BY <2>1, <2>2, <2>3
<1>6. c # d => Precedes(c, d) \/ Precedes(d, c)
  <2>1. c.rank \in Nat /\ d.rank \in Nat
    BY <1>3
  <2>2. CASE c.group = d.group
    <3>1. c.about < d.about => c.rank < d.rank
      BY <1>4, <2>2
    <3>2. d.about < c.about => d.rank < c.rank
      BY <1>4, <2>2
    <3> QED
      BY <1>2, <1>5, <2>2, <3>1, <3>2 DEF Precedes
  <2>3. CASE c.group # d.group
    BY <1>2, <2>1, <2>3 DEF Precedes
  <2> QED
    BY <2>2, <2>3
<1> QED
  BY <1>2, <1>3, <1>6

\* What comes before another has the lower place.
LEMMA PlacesFollow ==
  ASSUME WholeShop, NEW family \in Families, NEW c \in Agreed(family), NEW d \in Agreed(family)
  PROVE  LET place(x) == Cardinality({y \in Agreed(family) : Precedes(y, x)})
         IN  /\ place(c) \in Nat
             /\ Precedes(c, d) => place(c) < place(d)
             /\ place(c) # 0 => \E y \in Agreed(family) : Precedes(y, c)
<1> DEFINE S == {y \in Agreed(family) : Precedes(y, c)}
           T == {y \in Agreed(family) : Precedes(y, d)}
<1>1. Agreed(family) \subseteq Candidates(family)
  BY DEF Agreed
<1>2. IsFiniteSet(Agreed(family))
  BY <1>1, CandidatesAreFinite, FS_Subset
<1>3. IsFiniteSet(S) /\ IsFiniteSet(T)
  BY <1>2, FS_Subset
<1>4. Cardinality(S) \in Nat
  BY <1>3, FS_CardinalityType
<1>5. \A y \in Agreed(family) : y.rank \in Nat /\ y.group \in Nat
  BY <1>1, CandidatesAreOrdered
<1>6. ASSUME Precedes(c, d) PROVE Cardinality(S) < Cardinality(T)
  <2>1. c \in T /\ c \notin S
    BY <1>5, <1>6 DEF Precedes
  <2>2. S \subseteq T
    <3> SUFFICES ASSUME NEW y \in Agreed(family), Precedes(y, c) PROVE Precedes(y, d)
      OBVIOUS
    <3> QED
      BY <1>5, <1>6 DEF Precedes
  <2> HIDE DEF S, T
  <2> QED
    BY <1>3, <2>1, <2>2, FewerThan
<1>7. Cardinality(S) # 0 => S # {}
  BY FS_EmptySet
<1> QED
  BY <1>4, <1>6, <1>7

\* No two missions of a family have the same place, and a family that has any has a first.
LEMMA ResolvedIs ==
  ASSUME WholeShop, NEW family \in Families
  PROVE  /\ \A p \in Resolved(family) :
              /\ p.place \in Nat /\ p.place < MaxPerFamily
              /\ \E c \in Agreed(family) : p.brief = c.brief
         /\ \A p, q \in Resolved(family) : p.place = q.place => p = q
         /\ Resolved(family) # {} => \E p \in Resolved(family) : p.place = 0
<1> DEFINE place(x) == Cardinality({y \in Agreed(family) : Precedes(y, x)})
<1>1. ASSUME NEW p \in Resolved(family)
      PROVE  /\ \E c \in Agreed(family) : p = [place |-> place(c), brief |-> c.brief]
             /\ p.place < MaxPerFamily
  BY <1>1 DEF Resolved, Placed
<1>2. ASSUME NEW c \in Agreed(family), place(c) < MaxPerFamily
      PROVE  [place |-> place(c), brief |-> c.brief] \in Resolved(family)
  BY <1>2 DEF Resolved, Placed
<1>3. \A c, d \in Agreed(family) :
        /\ place(c) \in Nat
        /\ Precedes(c, d) => place(c) < place(d)
        /\ place(c) # 0 => \E y \in Agreed(family) : Precedes(y, c)
  BY PlacesFollow
<1> HIDE DEF place
<1>4. \A p \in Resolved(family) :
        /\ p.place \in Nat /\ p.place < MaxPerFamily
        /\ \E c \in Agreed(family) : p.brief = c.brief
  BY <1>1, <1>3
<1>5. ASSUME NEW p \in Resolved(family), NEW q \in Resolved(family), p.place = q.place
      PROVE  p = q
  <2>1. PICK c \in Agreed(family) : p = [place |-> place(c), brief |-> c.brief]
    BY <1>1
  <2>2. PICK d \in Agreed(family) : q = [place |-> place(d), brief |-> d.brief]
    BY <1>1
  <2>3. place(c) = place(d) /\ place(c) \in Nat
    BY <1>3, <1>5, <2>1, <2>2
  <2>4. ~ Precedes(c, d) /\ ~ Precedes(d, c)
    BY <1>3, <2>3
  <2>5. c \in Candidates(family) /\ d \in Candidates(family)
    BY DEF Agreed
  <2>6. c = d
    BY <2>4, <2>5, CandidatesAreOrdered
  <2> QED
    BY <2>1, <2>2, <2>6
<1>6. ASSUME Resolved(family) # {} PROVE \E p \in Resolved(family) : p.place = 0
  <2> DEFINE places == {p.place : p \in Resolved(family)}
  <2>1. places \in SUBSET Nat /\ places # {}
    BY <1>4, <1>6
  <2>2. PICK least \in places : \A n \in places : least <= n
    BY <2>1, SmallestNumber
  <2>3. PICK p \in Resolved(family) : least = p.place
    OBVIOUS
  <2>4. PICK c \in Agreed(family) : p = [place |-> place(c), brief |-> c.brief]
    BY <1>1
  <2>5. place(c) = p.place /\ place(c) < MaxPerFamily
    BY <1>4, <2>4
  <2>6. ASSUME place(c) # 0 PROVE FALSE
    <3>1. PICK y \in Agreed(family) : Precedes(y, c)
      BY <1>3, <2>6
    <3>2. place(y) < place(c) /\ place(y) \in Nat /\ place(c) \in Nat
      BY <1>3, <3>1
    <3>3. place(y) < MaxPerFamily
      BY <2>5, <3>2, SuiteLimitsAssumption
    <3>4. [place |-> place(y), brief |-> y.brief] \in Resolved(family)
      BY <1>2, <3>3
    <3>5. place(y) \in places
      BY <3>4
    <3> QED
      BY <2>2, <2>3, <2>5, <3>2, <3>5
  <2> QED
    BY <2>3, <2>5, <2>6
<1> QED
  BY <1>4, <1>5, <1>6

LEMMA PoolIs ==
  ASSUME WholeShop
  PROVE  /\ \A m \in Pool :
              /\ m.turn \in DOMAIN FamilyOrder /\ m.place \in Nat
              /\ \E p \in Resolved(FamilyOrder[m.turn]) : m.place = p.place /\ m.brief = p.brief
         /\ \A m, n \in Pool : m.turn = n.turn /\ m.place = n.place => m = n
         /\ \A i \in DOMAIN FamilyOrder : \A p \in Resolved(FamilyOrder[i]) :
              [turn |-> i, place |-> p.place, brief |-> p.brief] \in Pool
         /\ IsFiniteSet(Pool)
<1>1. ASSUME NEW m \in Pool
      PROVE  \E i \in DOMAIN FamilyOrder : \E p \in Resolved(FamilyOrder[i]) :
               m = [turn |-> i, place |-> p.place, brief |-> p.brief]
  BY <1>1 DEF Pool
<1>2. ASSUME NEW i \in DOMAIN FamilyOrder, NEW p \in Resolved(FamilyOrder[i])
      PROVE  [turn |-> i, place |-> p.place, brief |-> p.brief] \in Pool
  BY <1>2 DEF Pool
<1>3. \A i \in DOMAIN FamilyOrder : FamilyOrder[i] \in Families
  BY DEF Families
<1>4. ASSUME NEW m \in Pool
      PROVE  /\ m.turn \in DOMAIN FamilyOrder /\ m.place \in Nat /\ m.place < MaxPerFamily
             /\ \E p \in Resolved(FamilyOrder[m.turn]) : m.place = p.place /\ m.brief = p.brief
  <2>1. PICK i \in DOMAIN FamilyOrder : \E p \in Resolved(FamilyOrder[i]) :
          m = [turn |-> i, place |-> p.place, brief |-> p.brief]
    BY <1>1
  <2>2. PICK p \in Resolved(FamilyOrder[i]) : m = [turn |-> i, place |-> p.place, brief |-> p.brief]
    BY <2>1
  <2>3. p.place \in Nat /\ p.place < MaxPerFamily
    BY <1>3, ResolvedIs
  <2> QED
    BY <2>2, <2>3
<1>5. ASSUME NEW m \in Pool, NEW n \in Pool, m.turn = n.turn, m.place = n.place
      PROVE  m = n
  <2>1. PICK i \in DOMAIN FamilyOrder : \E p \in Resolved(FamilyOrder[i]) :
          m = [turn |-> i, place |-> p.place, brief |-> p.brief]
    BY <1>1
  <2>2. PICK p \in Resolved(FamilyOrder[i]) : m = [turn |-> i, place |-> p.place, brief |-> p.brief]
    BY <2>1
  <2>3. PICK j \in DOMAIN FamilyOrder : \E q \in Resolved(FamilyOrder[j]) :
          n = [turn |-> j, place |-> q.place, brief |-> q.brief]
    BY <1>1
  <2>4. PICK q \in Resolved(FamilyOrder[j]) : n = [turn |-> j, place |-> q.place, brief |-> q.brief]
    BY <2>3
  <2>5. i = j /\ p.place = q.place
    BY <1>5, <2>2, <2>4
  <2>6. p = q
    BY <1>3, <2>5, ResolvedIs
  <2> QED
    BY <2>2, <2>4, <2>5, <2>6
<1>6. IsFiniteSet(Pool)
  <2> DEFINE grid == (DOMAIN FamilyOrder) \X (0..MaxPerFamily)
             cell == [m \in Pool |-> <<m.turn, m.place>>]
  <2>1. IsFiniteSet(DOMAIN FamilyOrder)
    <3>1. PICK n \in Nat : DOMAIN FamilyOrder = 1..n
      BY DEF FamilyOrder
    <3>2. IsFiniteSet(1..n)
      BY FS_Interval
    <3> QED
      BY <3>1, <3>2
  <2>2. IsFiniteSet(0..MaxPerFamily)
    BY SuiteLimitsAssumption, FS_Interval
  <2>3. IsFiniteSet(grid)
    BY <2>1, <2>2, FS_Product
  <2>4. cell \in [Pool -> grid]
    <3>1. \A m \in Pool : m.turn \in DOMAIN FamilyOrder /\ m.place \in 0..MaxPerFamily
      BY <1>4, SuiteLimitsAssumption
    <3> QED
      BY <3>1
  <2>5. \A m, n \in Pool : cell[m] = cell[n] => m = n
    BY <1>5
  <2>6. cell \in Injection(Pool, grid)
    BY <2>4, <2>5 DEF Injection, IsInjective
  <2> QED
    BY <2>3, <2>6, FS_Injection
<1> QED
  BY <1>2, <1>4, <1>5, <1>6

\* When a family is drawn from twice, every family that had a mission was drawn from.
LEMMA DrawIsFair ==
  ASSUME WholeShop, SuiteInv, NEW m \in Drawn(Pool), NEW n \in Drawn(Pool), m # n, m.turn = n.turn,
         NEW i \in DOMAIN FamilyOrder, Resolved(FamilyOrder[i]) # {}
  PROVE  \E k \in Drawn(Pool) : k.turn = i
<1>1. m \in Pool /\ n \in Pool
  BY DEF Drawn
<1>2. PICK x \in Drawn(Pool) : x.place # 0
  BY <1>1, PoolIs
<1>3. FamilyOrder[i] \in Families
  BY DEF Families
<1>4. PICK p \in Resolved(FamilyOrder[i]) : p.place = 0
  BY <1>3, ResolvedIs
<1>5. PICK k : k = [turn |-> i, place |-> 0, brief |-> p.brief]
  OBVIOUS
<1>6. k \in Pool /\ k.turn = i /\ k.place = 0
  BY <1>4, <1>5, PoolIs
<1> DEFINE S == {y \in Pool : Sooner(y, k)}
           T == {y \in Pool : Sooner(y, x)}
<1>7. x \in Pool /\ x.place \in Nat /\ x.place # 0 /\ Cardinality(T) < choice.budget
  BY <1>2, PoolIs DEF Drawn
<1>8. S \subseteq T
  <2> SUFFICES ASSUME NEW y \in Pool, Sooner(y, k) PROVE Sooner(y, x)
    OBVIOUS
  <2>1. y.place \in Nat
    BY PoolIs
  <2> QED
    BY <1>6, <1>7, <2>1 DEF Sooner
<1>9. IsFiniteSet(T)
  BY PoolIs, FS_Subset
<1> HIDE DEF S, T
<1>10. IsFiniteSet(S) /\ Cardinality(S) <= Cardinality(T)
  BY <1>8, <1>9, FS_Subset
<1>11. Cardinality(S) \in Nat /\ Cardinality(T) \in Nat /\ choice.budget \in Nat
  BY <1>9, <1>10, FS_CardinalityType, ConfigurationsAssumption DEF SuiteInv
<1>12. Cardinality(S) < choice.budget
  BY <1>7, <1>10, <1>11
<1>13. k \in Drawn(Pool)
  BY <1>6, <1>12 DEF S, Drawn
<1> QED
  BY <1>6, <1>13

LEMMA DrawnIsTrue == ASSUME SuiteInv PROVE SuiteIsTrue
<1>1. WholeShop
  BY ShopIsWhole
<1>2. CASE suite = {}
  BY <1>2 DEF SuiteIsTrue
<1>3. CASE suite = DrawnSuite
  <2>1. \A m \in suite : \E k \in Drawn(Pool) : m = Mission(FamilyOrder[k.turn], k.brief)
    BY <1>3 DEF DrawnSuite
  <2>2. \A k \in Drawn(Pool) : Mission(FamilyOrder[k.turn], k.brief) \in suite
    BY <1>3 DEF DrawnSuite
  <2>3. \A k \in Drawn(Pool) : k \in Pool /\ k.turn \in DOMAIN FamilyOrder
    BY <1>1, PoolIs DEF Drawn
  <2>4. \A family, b : Mission(family, b).family = family
    BY DEF Mission
  <2>5. \A i, j \in DOMAIN FamilyOrder : FamilyOrder[i] = FamilyOrder[j] => i = j
    BY DEF FamilyOrder
  <2>6. ASSUME NEW m \in suite PROVE MissionIsTrue(m)
    <3>1. PICK k \in Drawn(Pool) : m = Mission(FamilyOrder[k.turn], k.brief)
      BY <2>1
    <3>2. PICK family : family = FamilyOrder[k.turn]
      OBVIOUS
    <3>3. family \in Families
      BY <2>3, <3>2 DEF Families
    <3>4. PICK p \in Resolved(family) : k.brief = p.brief
      BY <1>1, <2>3, <3>2, PoolIs
    <3>5. PICK c \in Agreed(family) : p.brief = c.brief
      BY <1>1, <3>3, ResolvedIs
    <3>6. c \in Candidates(family) /\ Agrees(family, c.brief)
      BY DEF Agreed
    <3>7. PICK proposal : proposal = Proposals(family, Groups[c.group])
      OBVIOUS
    <3>8. c.about \in proposal.about /\ c.brief = BriefOf(Groups[c.group], c.about, proposal)
      BY <1>1, <3>3, <3>6, <3>7, CandidateIs
    <3>9. IsProposal(Groups[c.group], proposal)
      BY <1>1, <3>3, <3>7, FamilyProposes
    <3>10. MissionIsTrue(Mission(family, c.brief))
      BY <1>1, <3>6, <3>8, <3>9, AgreedIsTrue
    <3> QED
      BY <3>1, <3>2, <3>4, <3>5, <3>10
  <2>7. ASSUME NEW m \in suite, NEW n \in suite, m # n, m.family = n.family, NEW f \in Families, Resolved(f) # {}
        PROVE  \E k \in suite : k.family = f
    <3>1. PICK x \in Drawn(Pool) : m = Mission(FamilyOrder[x.turn], x.brief)
      BY <2>1
    <3>2. PICK y \in Drawn(Pool) : n = Mission(FamilyOrder[y.turn], y.brief)
      BY <2>1
    <3>3. x # y /\ x.turn = y.turn
      BY <2>3, <2>4, <2>5, <2>7, <3>1, <3>2
    <3>4. PICK i \in DOMAIN FamilyOrder : f = FamilyOrder[i]
      BY DEF Families
    <3>5. PICK k \in Drawn(Pool) : k.turn = i
      BY <1>1, <2>7, <3>3, <3>4, DrawIsFair
    <3>6. Mission(FamilyOrder[k.turn], k.brief) \in suite /\ Mission(FamilyOrder[k.turn], k.brief).family = f
      BY <2>2, <2>4, <3>4, <3>5
    <3> QED
      BY <3>6
  <2> QED
    BY <2>6, <2>7 DEF SuiteIsTrue
<1> QED
  BY <1>2, <1>3 DEF SuiteInv

(***************************************************************************)
(* The steps.                                                              *)
(***************************************************************************)

\* What would be drawn follows from the catalog and the configuration.
LEMMA DrawStays ==
  ASSUME UNCHANGED <<entries, choice>>
  PROVE  DrawnSuite' = DrawnSuite
<1>1. Shop' = Shop /\ choice' = choice
  BY DEF Shop
<1>2. \A g : Every(g)' = Every(g) /\ Buyable(g)' = Buyable(g)
  BY <1>1 DEF Every, Buyable
<1>3. \A g : Specifications(g)' = Specifications(g)
  BY <1>2 DEF Specifications
<1>4. \A g : /\ CategoryPurchases(g)' = CategoryPurchases(g)
             /\ BudgetConstrainedPurchases(g)' = BudgetConstrainedPurchases(g)
             /\ MultiUnitPurchases(g)' = MultiUnitPurchases(g)
             /\ BudgetAbstentions(g)' = BudgetAbstentions(g)
             /\ StockAbstentions(g)' = StockAbstentions(g)
             /\ UnavailableAbstentions(g)' = UnavailableAbstentions(g)
  BY <1>2 DEF CategoryPurchases, BudgetConstrainedPurchases, MultiUnitPurchases, BudgetAbstentions, StockAbstentions,
              UnavailableAbstentions
<1>5. \A g : /\ SpecificationPurchases(g)' = SpecificationPurchases(g)
             /\ SpecificationAbstentions(g)' = SpecificationAbstentions(g)
  BY <1>2, <1>3 DEF SpecificationPurchases, SpecificationAbstentions
<1>6. \A family, g : Proposals(family, g)' = Proposals(family, g)
  BY <1>4, <1>5 DEF Proposals
<1>7. \A family : Candidates(family)' = Candidates(family)
  <2> SUFFICES ASSUME NEW family PROVE Candidates(family)' = Candidates(family)
    OBVIOUS
  <2>1. Candidates(family) = UNION {CandidatesOf(i, Proposals(family, Groups[i])) : i \in DOMAIN Groups}
    BY DEF Candidates
  <2>2. Candidates(family)' = UNION {CandidatesOf(i, Proposals(family, Groups[i])') : i \in DOMAIN Groups}
    BY DEF Candidates
  <2>3. \A i : CandidatesOf(i, Proposals(family, Groups[i])') = CandidatesOf(i, Proposals(family, Groups[i]))
    BY <1>6
  <2> QED
    BY <2>1, <2>2, <2>3
<1>8. \A b : Qualifying(b)' = Qualifying(b)
  BY <1>1 DEF Qualifying
<1>9. \A b : Worth(b)' = Worth(b)
  BY <1>8 DEF Worth
<1>10. \A family, b : Agrees(family, b)' = Agrees(family, b) /\ Mission(family, b)' = Mission(family, b)
  BY <1>8, <1>9 DEF Agrees, Mission
<1>11. \A family : Agreed(family)' = Agreed(family)
  BY <1>7, <1>10 DEF Agreed
<1>12. \A family : Resolved(family)' = Resolved(family)
  BY <1>11 DEF Resolved
<1>13. Pool' = Pool
  BY <1>12 DEF Pool
<1>14. Drawn(Pool)' = Drawn(Pool)
  BY <1>1, <1>13 DEF Drawn
<1> QED
  BY <1>10, <1>14 DEF DrawnSuite

LEMMA ProjectCatalogKeeps == ASSUME SuiteInv, ProjectCatalog PROVE SuiteInv'
<1>1. stage = "given" /\ suite = {} /\ UNCHANGED <<source, choice, suite>>
  BY DEF ProjectCatalog, SuiteInv
<1>2. entries' = entries \/ entries' = [i \in DOMAIN source |-> Project(source[i])]
  BY DEF ProjectCatalog
<1>3. \A line : Project(line)' = Project(line)
  BY <1>1 DEF Project
<1>4. (entries = <<>> \/ entries = [i \in DOMAIN source |-> Project(source[i])])'
  BY <1>1, <1>2, <1>3 DEF SuiteInv
<1> QED
  BY <1>1, <1>4 DEF SuiteInv

LEMMA GenerateSuiteKeeps == ASSUME SuiteInv, GenerateSuite PROVE SuiteInv'
<1>1. /\ stage' # "given" /\ suite' = DrawnSuite
      /\ UNCHANGED <<source, choice, entries>>
  BY DEF GenerateSuite
<1>2. DrawnSuite' = DrawnSuite
  BY <1>1, DrawStays
<1>3. \A line : Project(line)' = Project(line)
  BY <1>1 DEF Project
<1>4. (entries = <<>> \/ entries = [i \in DOMAIN source |-> Project(source[i])])'
  BY <1>1, <1>3 DEF SuiteInv
<1> QED
  BY <1>1, <1>2, <1>4 DEF SuiteInv

LEMMA SuiteStutters == ASSUME SuiteInv, UNCHANGED suiteVars PROVE SuiteInv'
<1>1. UNCHANGED <<source, choice, stage, entries, suite>>
  BY DEF suiteVars
<1>2. DrawnSuite' = DrawnSuite
  BY <1>1, DrawStays
<1>3. \A line : Project(line)' = Project(line)
  BY <1>1 DEF Project
<1>4. (entries = <<>> \/ entries = [i \in DOMAIN source |-> Project(source[i])])'
  BY <1>1, <1>3 DEF SuiteInv
<1> QED
  BY <1>1, <1>2, <1>4 DEF SuiteInv

\* Whatever a merchant published, the suite built from it is an answer key a buyer can be marked
\* against: every mission was set against the catalog by the comparison the buyer and the gate
\* apply (workspace/generation.py:247), asks nothing AgentRank wrote or the storefront hides
\* (projection.py:341, generation.py:477), and no family is asked twice before another that could
\* be is asked (generation.py:330).
THEOREM SuitesAreTrue == SuiteSpec => []SuiteIsTrue
<1>1. SuiteInit => SuiteInv
  BY DEF SuiteInit, SuiteInv
<1>2. SuiteInv /\ [SuiteNext]_suiteVars => SuiteInv'
  BY ProjectCatalogKeeps, GenerateSuiteKeeps, SuiteStutters DEF SuiteNext
<1>3. SuiteInv => SuiteIsTrue
  BY DrawnIsTrue
<1> QED
  BY <1>1, <1>2, <1>3, PTL DEF SuiteSpec

=============================================================================
