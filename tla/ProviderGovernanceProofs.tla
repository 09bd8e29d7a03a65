----------------------- MODULE ProviderGovernanceProofs -----------------------
(***************************************************************************)
(* Proofs about the provider: what is sent was granted, what was granted   *)
(* fits the launch's budget and every window of the clock, and no more     *)
(* launches execute than the provider takes.                               *)
(***************************************************************************)
EXTENDS ProviderGovernance, SumFacts

USE GovernanceAssumption

-----------------------------------------------------------------------------
(***************************************************************************)
(* Numbers: the least, the most, and the budget a launch freezes.          *)
(***************************************************************************)

LEMMA LeastIn == ASSUME NEW S \in SUBSET Nat, S # {}
                 PROVE  Least(S) \in S /\ \A y \in S : Least(S) <= y
<1>1. \E x \in S : \A y \in S : x <= y
  BY SmallestNumber
<1> QED
  BY <1>1 DEF Least

LEMMA MostIn == ASSUME NEW S \in SUBSET Nat, IsFiniteSet(S), S # {}
                PROVE  Most(S) \in S /\ \A y \in S : Most(S) >= y
<1>1. \E x \in S : \A y \in S : x >= y
  BY LargestNumber
<1> QED
  BY <1>1 DEF Most

LEMMA MostOfTwo == ASSUME NEW a \in Nat, NEW b \in Nat
                   PROVE  Most({a, b}) \in Nat /\ Most({a, b}) >= a /\ Most({a, b}) >= b
<1>1. IsFiniteSet({a, b})
  <2>1. IsFiniteSet({a}) /\ {a, b} = {a} \cup {b}
    BY FS_Singleton
  <2> QED
    BY <2>1, FS_AddElement
<1> QED
  BY <1>1, MostIn

\* A launch may spend one request per turn of every mission, and one mission may.
LEMMA BudgetFacts ==
  /\ Budget.total \in Nat /\ Budget.mission \in Nat
  /\ MissionCount * MaxTurns <= Budget.total
  /\ MaxTurns <= Budget.mission /\ Budget.mission <= Budget.total
<1> DEFINE base == MissionCount * MaxTurns
           allowed == (base * (100 + RetryPercent) + 99) \div 100
           total == Most({allowed, base})
           wide == Most({MaxTurns * Multiplier, MaxTurns})
<1>1. base \in Nat /\ MaxTurns <= base /\ MaxTurns * Multiplier \in Nat
  OBVIOUS
<1>2. allowed \in Nat
  <2>1. base * (100 + RetryPercent) \in Nat
    BY <1>1
  <2> HIDE DEF base
  <2> QED
    BY <2>1
<1>3. Budget = [total |-> total, mission |-> Least({wide, total})]
  BY DEF Budget, FrozenBudget
<1> HIDE DEF base, allowed
<1>4. total \in Nat /\ total >= base
  BY <1>1, <1>2, MostOfTwo
<1>5. wide \in Nat /\ wide >= MaxTurns
  BY <1>1, MostOfTwo
<1> HIDE DEF total, wide
<1>6. Least({wide, total}) \in {wide, total} /\ Least({wide, total}) <= total
  BY <1>4, <1>5, LeastIn
<1> QED
  BY <1>1, <1>3, <1>4, <1>5, <1>6 DEF base

\* No cap and no concurrency the operator sets is above the largest.
LEMMA PolicyFacts ==
  ASSUME NEW p \in Policies
  PROVE  /\ p.cap \in Nat /\ p.concurrent \in Nat /\ LargestCap \in Nat /\ Concurrency \in Nat
         /\ p.cap <= LargestCap /\ p.concurrent <= Concurrency
<1> DEFINE caps == {q.cap : q \in Policies}
           slots == {q.concurrent : q \in Policies}
<1>1. IsFiniteSet(caps) /\ IsFiniteSet(slots)
  <2>1. [q \in Policies |-> q.cap] \in Surjection(Policies, caps)
    BY DEF Surjection
  <2>2. [q \in Policies |-> q.concurrent] \in Surjection(Policies, slots)
    BY DEF Surjection
  <2> HIDE DEF caps, slots
  <2> QED
    BY <2>1, <2>2, FS_Surjection
<1>2. p.cap \in caps /\ p.concurrent \in slots /\ caps \subseteq Nat /\ slots \subseteq Nat
  OBVIOUS
<1> HIDE DEF caps, slots
<1>3. /\ Most(caps) \in caps /\ \A y \in caps : Most(caps) >= y
      /\ Most(slots) \in slots /\ \A y \in slots : Most(slots) >= y
  BY <1>1, <1>2, MostIn
<1> QED
  BY <1>2, <1>3 DEF caps, slots, LargestCap, Concurrency

-----------------------------------------------------------------------------
(***************************************************************************)
(* The charges of a table of permits.                                      *)
(***************************************************************************)

Tables == [Runs -> [Missions -> PermitRows]]
Slots == Runs \X Missions
ChargesOf(P) == [k \in Slots |-> Charge(P[k[1]][k[2]])]
CountedIn(P, t) == {k \in Slots : P[k[1]][k[2]].opened + Window >= t}
InForceIn(P, t) == {k \in CountedIn(P, t) : P[k[1]][k[2]].opened <= t}
RunTotal(P, r) == SumFunctionOnSet(ChargesOf(P), {r} \X Missions)
WindowTotal(P, t) == SumFunctionOnSet(ChargesOf(P), CountedIn(P, t))
ForceTotal(P, t) == SumFunctionOnSet(ChargesOf(P), InForceIn(P, t))

LEMMA Tabled ==
  /\ \A r : RunCharge(r) = RunTotal(permit, r)
  /\ \A r : RunCharge(r)' = RunTotal(permit', r)
  /\ \A t : WindowCharge(t) = WindowTotal(permit, t)
  /\ \A t : WindowCharge(t)' = WindowTotal(permit', t)
  /\ \A t : ChargeOver(InForce(t)) = ForceTotal(permit, t)
  /\ \A t : ChargeOver(InForce(t))' = ForceTotal(permit', t)
  BY DEF RunCharge, WindowCharge, ChargeOver, Counted, InForce, Charges, RunTotal, WindowTotal,
         ForceTotal, ChargesOf, CountedIn, InForceIn, Slots

LEMMA SlotsFinite ==
  /\ IsFiniteSet(Slots) /\ IsFiniteSet(Missions)
  /\ \A T \in SUBSET Slots : IsFiniteSet(T)
  /\ \A r \in Runs : {r} \X Missions \in SUBSET Slots /\ Cardinality({r} \X Missions) = MissionCount
<1>1. IsFiniteSet(Missions) /\ Cardinality(Missions) = MissionCount
  BY FS_Interval DEF Missions
<1>2. IsFiniteSet(Slots)
  BY <1>1, FS_Product DEF Slots
<1>3. \A T \in SUBSET Slots : IsFiniteSet(T)
  BY <1>2, FS_Subset
<1>4. ASSUME NEW r \in Runs PROVE Cardinality({r} \X Missions) = MissionCount
  <2>1. IsFiniteSet({r}) /\ Cardinality({r}) = 1
    BY FS_Singleton
  <2>2. Cardinality({r} \X Missions) = Cardinality({r}) * Cardinality(Missions)
    BY <1>1, <2>1, FS_Product
  <2> QED
    BY <1>1, <2>1, <2>2
<1> QED
  BY <1>1, <1>2, <1>3, <1>4 DEF Slots

LEMMA ChargeType ==
  ASSUME NEW p \in PermitRows
  PROVE  Charge(p) \in Nat
  BY DEF Charge, PermitRows

LEMMA ChargesType ==
  ASSUME NEW P \in Tables
  PROVE  /\ ChargesOf(P) \in [Slots -> Nat]
         /\ \A r \in Runs : \A m \in Missions : ChargesOf(P)[<<r, m>>] = Charge(P[r][m])
  BY ChargeType DEF ChargesOf, Slots, Tables

LEMMA TotalsType ==
  ASSUME NEW P \in Tables
  PROVE  /\ \A r \in Runs : RunTotal(P, r) \in Nat
         /\ \A t \in Nat : WindowTotal(P, t) \in Nat /\ ForceTotal(P, t) \in Nat
<1>1. \A T \in SUBSET Slots : SumFunctionOnSet(ChargesOf(P), T) \in Nat
  BY ChargesType, SlotsFinite, SumType
<1>2. \A t \in Nat : CountedIn(P, t) \in SUBSET Slots /\ InForceIn(P, t) \in SUBSET Slots
  BY DEF CountedIn, InForceIn
<1> QED
  BY <1>1, <1>2, SlotsFinite DEF RunTotal, WindowTotal, ForceTotal

\* Q is P but for the permit of r and m.
Differ(P, Q, r, m) ==
    \A s \in Runs : \A k \in Missions : <<s, k>> # <<r, m>> => Q[s][k] = P[s][k]

\* Settling a permit charges nobody more, in any window.
LEMMA SettlingChargesNoMore ==
  ASSUME NEW P \in Tables, NEW Q \in Tables, NEW r \in Runs, NEW m \in Missions,
         Differ(P, Q, r, m), Q[r][m].opened = P[r][m].opened, Charge(Q[r][m]) <= Charge(P[r][m])
  PROVE  /\ \A s \in Runs : RunTotal(Q, s) <= RunTotal(P, s)
         /\ \A t \in Nat : WindowTotal(Q, t) <= WindowTotal(P, t)
         /\ \A t \in Nat : ForceTotal(Q, t) <= ForceTotal(P, t)
<1> DEFINE p == ChargesOf(P)
           q == ChargesOf(Q)
           x == <<r, m>>
<1>1. /\ p \in [Slots -> Nat] /\ q \in [Slots -> Nat] /\ x \in Slots
      /\ q[x] <= p[x]
  BY ChargesType DEF Slots
<1>2. ASSUME NEW k \in Slots, k # x PROVE q[k] = p[k]
  BY <1>2 DEF Differ, Slots, ChargesOf
<1> HIDE DEF p, q, x
<1>3. ASSUME NEW T \in SUBSET Slots PROVE SumFunctionOnSet(q, T) <= SumFunctionOnSet(p, T)
  <2>1. IsFiniteSet(T)
    BY SlotsFinite
  <2>2. /\ x \in T => SumFunctionOnSet(q, T) + p[x] = SumFunctionOnSet(p, T) + q[x]
        /\ x \notin T => SumFunctionOnSet(q, T) = SumFunctionOnSet(p, T)
    BY <1>1, <1>2, <2>1, SumChange
  <2>3. SumFunctionOnSet(q, T) \in Nat /\ SumFunctionOnSet(p, T) \in Nat
    BY <1>1, <2>1, SumType
  <2>4. p[x] \in Nat /\ q[x] \in Nat
    BY <1>1
  <2> QED
    BY <1>1, <2>2, <2>3, <2>4
<1>4. \A s \in Runs : \A k \in Missions : Q[s][k].opened = P[s][k].opened
  BY DEF Differ
<1>5. \A t \in Nat : /\ CountedIn(Q, t) = CountedIn(P, t) /\ CountedIn(P, t) \in SUBSET Slots
                     /\ InForceIn(Q, t) = InForceIn(P, t) /\ InForceIn(P, t) \in SUBSET Slots
  BY <1>4 DEF CountedIn, InForceIn, Slots
<1> QED
  BY <1>3, <1>5, SlotsFinite DEF p, q, RunTotal, WindowTotal, ForceTotal

\* A new permit is charged to its run, and in the windows it is in force.
LEMMA ReservingCharges ==
  ASSUME NEW P \in Tables, NEW Q \in Tables, NEW r \in Runs, NEW m \in Missions,
         Differ(P, Q, r, m), P[r][m] = NoPermit, Q[r][m].state = "RESERVED",
         NEW cap \in Nat, NEW now0 \in Nat, Q[r][m].opened <= now0,
         \A t \in 0..now0 : ForceTotal(P, t) <= cap,
         WindowTotal(P, Q[r][m].opened) + Q[r][m].granted <= cap
  PROVE  /\ RunTotal(Q, r) = RunTotal(P, r) + Q[r][m].granted
         /\ \A s \in Runs : s # r => RunTotal(Q, s) = RunTotal(P, s)
         /\ \A t \in 0..now0 : ForceTotal(Q, t) <= cap
<1> DEFINE p == ChargesOf(P)
           q == ChargesOf(Q)
           x == <<r, m>>
           o == Q[r][m].opened
           c == Q[r][m].granted
<1>1. /\ p \in [Slots -> Nat] /\ q \in [Slots -> Nat] /\ x \in Slots
      /\ p[x] = 0 /\ q[x] = c /\ o \in Nat /\ c \in Nat
  <2>1. p \in [Slots -> Nat] /\ q \in [Slots -> Nat] /\ p[x] = Charge(P[r][m]) /\ q[x] = Charge(Q[r][m])
    BY ChargesType
  <2>2. Q[r][m] \in PermitRows
    BY DEF Tables
  <2> HIDE DEF p, q
  <2> QED
    BY <2>1, <2>2 DEF Slots, Charge, NoPermit, PermitRows
<1>2. ASSUME NEW k \in Slots, k # x PROVE q[k] = p[k]
  BY <1>2 DEF Differ, Slots, ChargesOf
<1> HIDE DEF p, q
<1>3. ASSUME NEW T \in SUBSET Slots
      PROVE  /\ SumFunctionOnSet(q, T) \in Nat /\ SumFunctionOnSet(p, T) \in Nat
             /\ x \in T => SumFunctionOnSet(q, T) = SumFunctionOnSet(p, T) + c
             /\ x \notin T => SumFunctionOnSet(q, T) = SumFunctionOnSet(p, T)
  <2> HIDE DEF x, c
  <2>1. IsFiniteSet(T)
    BY SlotsFinite
  <2>2. /\ x \in T => SumFunctionOnSet(q, T) + p[x] = SumFunctionOnSet(p, T) + q[x]
        /\ x \notin T => SumFunctionOnSet(q, T) = SumFunctionOnSet(p, T)
    BY <1>1, <1>2, <2>1, SumChange
  <2>3. SumFunctionOnSet(q, T) \in Nat /\ SumFunctionOnSet(p, T) \in Nat
    BY <1>1, <2>1, SumType
  <2> QED
    BY <1>1, <2>2, <2>3
<1>4. RunTotal(Q, r) = RunTotal(P, r) + c
  <2>1. x \in {r} \X Missions
    OBVIOUS
  <2> QED
    BY <1>3, <2>1, SlotsFinite DEF RunTotal, p, q
<1>5. \A s \in Runs : s # r => RunTotal(Q, s) = RunTotal(P, s)
  <2>1. \A s \in Runs : s # r => x \notin {s} \X Missions
    OBVIOUS
  <2> QED
    BY <1>3, <2>1, SlotsFinite DEF RunTotal, p, q
<1>6. ASSUME NEW t \in 0..now0 PROVE ForceTotal(Q, t) <= cap
  <2> DEFINE F == InForceIn(Q, t)
             G == F \ {x}
  <2>1. F \in SUBSET Slots /\ G \in SUBSET Slots /\ x \notin G
    BY DEF InForceIn, CountedIn
  <2>2. \A k \in G : Q[k[1]][k[2]] = P[k[1]][k[2]]
    BY <2>1 DEF Differ, Slots
  <2>3. CASE x \in F
    <3>1. o <= t
      BY <2>3 DEF InForceIn
    <3>2. G \subseteq CountedIn(P, o)
      <4>1. ASSUME NEW k \in G PROVE P[k[1]][k[2]].opened + Window >= o
        <5>1. Q[k[1]][k[2]].opened + Window >= t /\ k \in Slots
          BY <2>1 DEF InForceIn, CountedIn
        <5>2. P[k[1]][k[2]].opened \in Nat
          BY <5>1 DEF Tables, PermitRows, Slots
        <5> HIDE DEF o
        <5> QED
          BY <1>1, <2>2, <3>1, <5>1, <5>2
      <4> QED
        BY <2>1, <4>1 DEF CountedIn
    <3>3. F = G \cup {x}
      BY <2>3
    <3>4. SumFunctionOnSet(p, F) = SumFunctionOnSet(p, G)
      <4> HIDE DEF x, F, G
      <4>1. IsFiniteSet(G)
        BY <2>1, SlotsFinite
      <4>2. SumFunctionOnSet(p, G \cup {x}) = p[x] + SumFunctionOnSet(p, G)
        BY <1>1, <2>1, <4>1, SumAdd
      <4> QED
        BY <1>1, <1>3, <2>1, <3>3, <4>2
    <3>5. SumFunctionOnSet(p, G) <= SumFunctionOnSet(p, CountedIn(P, o))
      <4> HIDE DEF G, x
      <4>1. CountedIn(P, o) \in SUBSET Slots
        BY DEF CountedIn
      <4>2. IsFiniteSet(CountedIn(P, o))
        BY <4>1, SlotsFinite
      <4> QED
        BY <1>1, <3>2, <4>1, <4>2, SumMonotone
    <3>6. SumFunctionOnSet(p, CountedIn(P, o)) + c <= cap
      BY DEF WindowTotal, p
    <3>7. SumFunctionOnSet(q, F) = SumFunctionOnSet(p, F) + c
      BY <1>3, <2>1, <2>3
    <3>8. SumFunctionOnSet(p, CountedIn(P, o)) \in Nat
      <4>1. CountedIn(P, o) \in SUBSET Slots
        BY DEF CountedIn
      <4> QED
        BY <1>3, <4>1
    <3>9. SumFunctionOnSet(p, G) \in Nat
      BY <1>3, <2>1
    <3>10. ForceTotal(Q, t) = SumFunctionOnSet(q, F)
      BY DEF ForceTotal, q
    <3> HIDE DEF F, G, c, o
    <3> QED
      BY <1>1, <3>4, <3>5, <3>6, <3>7, <3>8, <3>9, <3>10
  <2>4. CASE x \notin F
    <3>1. F \subseteq InForceIn(P, t)
      BY <2>1, <2>2, <2>4 DEF InForceIn, CountedIn
    <3>2. InForceIn(P, t) \in SUBSET Slots /\ IsFiniteSet(InForceIn(P, t))
      BY SlotsFinite DEF InForceIn, CountedIn
    <3>3. SumFunctionOnSet(q, F) = SumFunctionOnSet(p, F)
      BY <1>3, <2>1, <2>4
    <3>4. SumFunctionOnSet(p, F) <= SumFunctionOnSet(p, InForceIn(P, t))
      <4> HIDE DEF F
      <4> QED BY <1>1, <3>1, <3>2, SumMonotone
    <3>5. ForceTotal(P, t) <= cap /\ ForceTotal(P, t) = SumFunctionOnSet(p, InForceIn(P, t))
          /\ ForceTotal(Q, t) = SumFunctionOnSet(q, F)
      BY DEF ForceTotal, p, q
    <3>6. SumFunctionOnSet(p, F) \in Nat /\ SumFunctionOnSet(p, InForceIn(P, t)) \in Nat
      BY <1>3, <2>1, <3>2
    <3> HIDE DEF F
    <3> QED
      BY <3>3, <3>4, <3>5, <3>6
  <2> QED
    BY <2>3, <2>4
<1> QED
  BY <1>4, <1>5, <1>6

-----------------------------------------------------------------------------
(***************************************************************************)
(* What a step of one run leaves as it is.                                 *)
(***************************************************************************)

LEMMA FieldsFacts ==
  ASSUME FieldsOK
  PROVE  /\ permit \in Tables /\ now \in Nat
         /\ \A r \in Runs : RunCharge(r) \in Nat
         /\ \A t \in Nat : WindowCharge(t) \in Nat
         /\ IsFiniteSet(ExecutingLaunches) /\ Cardinality(ExecutingLaunches) \in Nat
         /\ \A r \in Runs : /\ exec[r] \in ExecRows /\ worker[r] \in WorkerRows
                            /\ Mission(r) \in Missions /\ Mine(r) \in PermitRows
<1>1. permit \in Tables /\ now \in Nat
  BY DEF FieldsOK, Tables
<1>2. IsFiniteSet(ExecutingLaunches)
  BY FS_Subset DEF ExecutingLaunches
<1>3. \A r \in Runs : exec[r] \in ExecRows /\ worker[r] \in WorkerRows
  BY DEF FieldsOK
<1>4. \A r \in Runs : Mission(r) \in Missions
  BY <1>3 DEF ExecRows, Mission
<1>5. \A r \in Runs : Mine(r) \in PermitRows
  BY <1>1, <1>4 DEF Mine, Tables
<1> QED
  BY <1>1, <1>2, <1>3, <1>4, <1>5, Tabled, TotalsType, FS_CardinalityType

\* Only what is the run's own is written.
Own(r) ==
    /\ now' = now
    /\ \A s \in Runs : s # r => exec'[s] = exec[s] /\ worker'[s] = worker[s] /\ sent'[s] = sent[s]
    /\ \A k \in Missions : k # Mission(r) => sent'[r][k] = sent[r][k]
    /\ Differ(permit, permit', r, Mission(r))

LEMMA OthersStand ==
  ASSUME IInv, FieldsOK', NEW r \in Runs, Own(r), NEW s \in Runs, s # r
  PROVE  ProcessStands(s)'
<1>1. /\ exec'[s] = exec[s] /\ worker'[s] = worker[s] /\ sent'[s] = sent[s] /\ now' = now
      /\ \A k \in Missions : permit'[s][k] = permit[s][k]
  BY DEF Own, Differ
<1>2. ProcessStands(s) /\ exec[s].mission \in Missions
  BY FieldsFacts DEF IInv, ProcessesKnow, Mission
<1> QED
  BY <1>1, <1>2 DEF ProcessStands, Mission, Mine, Consumed

LEMMA PermitsStep ==
  ASSUME IInv, FieldsOK', NEW r \in Runs, Own(r),
         \A m \in Missions : m = Mission(r) => PermitStands(permit'[r][m], sent'[r][m], now)
  PROVE  PermitsKnow'
<1>1. ASSUME NEW s \in Runs, NEW m \in Missions PROVE PermitStands(permit'[s][m], sent'[s][m], now')
  <2>1. PermitStands(permit[s][m], sent[s][m], now) /\ now' = now
    BY DEF IInv, PermitsKnow, Own
  <2>2. CASE s = r /\ m = Mission(r)
    BY <2>1, <2>2
  <2>3. CASE ~ (s = r /\ m = Mission(r))
    BY <2>1, <2>3 DEF Own, Differ
  <2> QED
    BY <2>2, <2>3
<1> QED
  BY <1>1 DEF PermitsKnow

LEMMA StepKeeps ==
  ASSUME IInv, FieldsOK', NEW r \in Runs, Own(r),
         \A m \in Missions : m = Mission(r) => PermitStands(permit'[r][m], sent'[r][m], now),
         ProcessStands(r)', HolderStands(r)',
         \A s \in Runs : s # r /\ holder = s => holder' = s,
         Cardinality(ExecutingLaunches)' <= Concurrency,
         holder = r \/ Cardinality(ExecutingLaunches)' <= Cardinality(ExecutingLaunches),
         holder = r \/ \A t \in Nat : WindowCharge(t)' <= WindowCharge(t),
         \A s \in Runs : s # r => RunCharge(s)' <= RunCharge(s),
         RunCharge(r)' <= Budget.total,
         WindowIsKept',
         exec'[r].why = "LAUNCH_BUDGET_EXHAUSTED" =>
           \E m \in Missions : Charge(permit'[r][m]) > MaxTurns
  PROVE  IInv'
<1>1. now' = now /\ \A s \in Runs : s # r => exec'[s] = exec[s]
  BY DEF Own
<1>2. PermitsKnow'
  BY PermitsStep
<1>3. ProcessesKnow'
  BY OthersStand DEF ProcessesKnow
<1>4. ASSUME NEW s \in Runs, s # r PROVE HolderStands(s)'
  <2>1. HolderStands(s) /\ exec'[s] = exec[s]
    BY <1>1, <1>4 DEF IInv, HolderKnows
  <2>2. CASE exec[s].pc \notin {"BINDING", "RECKONED"}
    BY <2>1, <2>2 DEF HolderStands
  <2>3. CASE exec[s].pc \in {"BINDING", "RECKONED"}
    <3>1. holder = s /\ holder' = s /\ holder # r
      BY <1>4, <2>1, <2>3 DEF HolderStands
    <3>2. /\ Cardinality(ExecutingLaunches) \in Nat /\ Concurrency \in Nat
          /\ LargestCap \in Nat /\ Budget.total \in Nat
      BY FieldsFacts, BudgetFacts, PolicyFacts DEF IInv, FieldsOK
    <3>3. Cardinality(ExecutingLaunches)' \in Nat
      <4>1. IsFiniteSet({q \in Runs : launch'[q] = "EXECUTING"})
        BY FS_Subset
      <4> QED
        BY <4>1, FS_CardinalityType DEF ExecutingLaunches
    <3>4. CASE exec[s].pc = "BINDING"
      BY <2>1, <3>1, <3>2, <3>3, <3>4 DEF HolderStands
    <3>5. CASE exec[s].pc = "RECKONED"
      <4> DEFINE offer == exec[s].offer
      <4>1. permit' \in Tables /\ permit \in Tables /\ now \in Nat
        BY DEF FieldsOK, Tables, IInv
      <4>2. RunCharge(s)' \in Nat /\ RunCharge(s) \in Nat
            /\ \A t \in Nat : WindowCharge(t)' \in Nat /\ WindowCharge(t) \in Nat
        BY <4>1, Tabled, TotalsType
      <4>3. /\ offer \in 1..Budget.mission /\ offer \in Nat
            /\ RunCharge(s) + offer <= Budget.total
            /\ \A t \in 0..now : t = exec[s].since => WindowCharge(t) + offer <= LargestCap
        BY <2>1, <3>5, BudgetFacts DEF HolderStands
      <4>4. RunCharge(s)' <= RunCharge(s) /\ \A t \in Nat : WindowCharge(t)' <= WindowCharge(t)
        BY <1>4, <3>1
      <4> HIDE DEF offer
      <4>5. RunCharge(s)' + offer <= Budget.total
        BY <3>2, <4>2, <4>3, <4>4
      <4>6. ASSUME NEW t \in 0..now, t = exec[s].since
            PROVE  WindowCharge(t)' + offer <= LargestCap
        <5>1. t \in Nat
          BY <4>1
        <5>2. WindowCharge(t)' <= WindowCharge(t) /\ WindowCharge(t) + offer <= LargestCap
              /\ WindowCharge(t)' \in Nat /\ WindowCharge(t) \in Nat
          BY <4>2, <4>3, <4>4, <4>6, <5>1
        <5> QED
          BY <3>2, <4>3, <5>2
      <4> QED
        BY <1>1, <2>1, <3>1, <3>5, <4>3, <4>5, <4>6 DEF HolderStands, offer
    <3> QED
      BY <2>3, <3>4, <3>5
  <2> QED
    BY <2>2, <2>3
<1>5. HolderKnows'
  BY <1>4 DEF HolderKnows
<1>6. BudgetIsHonest'
  <2>1. ASSUME NEW s \in Runs, s # r
        PROVE  /\ RunCharge(s)' <= Budget.total
               /\ exec'[s].why = "LAUNCH_BUDGET_EXHAUSTED" =>
                     \E m \in Missions : Charge(permit'[s][m]) > MaxTurns
    <3>1. RunCharge(s) <= Budget.total /\ RunCharge(s)' <= RunCharge(s)
      BY <2>1 DEF IInv, BudgetIsHonest
    <3>2. RunCharge(s)' \in Nat /\ RunCharge(s) \in Nat
      <4>1. permit' \in Tables /\ permit \in Tables
        BY DEF FieldsOK, Tables, IInv
      <4> QED
        BY <4>1, Tabled, TotalsType
    <3>3. exec'[s] = exec[s] /\ \A m \in Missions : permit'[s][m] = permit[s][m]
      BY <2>1 DEF Own, Differ
    <3>4. exec[s].why = "LAUNCH_BUDGET_EXHAUSTED" => \E m \in Missions : Charge(permit[s][m]) > MaxTurns
      BY DEF IInv, BudgetIsHonest
    <3>5. RunCharge(s)' <= Budget.total
      BY <3>1, <3>2, BudgetFacts
    <3> QED
      BY <3>3, <3>4, <3>5
  <2> QED
    BY <2>1 DEF BudgetIsHonest
<1> QED
  BY <1>2, <1>3, <1>5, <1>6 DEF IInv

\* A step of a run that writes no permit.
LEMMA QuietKeeps ==
  ASSUME IInv, FieldsOK', NEW r \in Runs, UNCHANGED permit, Own(r),
         \A m \in Missions : m = Mission(r) => PermitStands(permit[r][m], sent'[r][m], now),
         ProcessStands(r)', HolderStands(r)',
         \A s \in Runs : s # r /\ holder = s => holder' = s,
         ExecutingLaunches' \subseteq ExecutingLaunches,
         exec'[r].why = "LAUNCH_BUDGET_EXHAUSTED" =>
           \/ exec[r].why = "LAUNCH_BUDGET_EXHAUSTED"
           \/ \E m \in Missions : Charge(permit[r][m]) > MaxTurns
  PROVE  IInv'
<1>1. /\ \A s \in Runs : RunCharge(s)' = RunCharge(s) /\ RunCharge(s) \in Nat
      /\ \A t \in Nat : WindowCharge(t)' = WindowCharge(t) /\ WindowCharge(t) \in Nat
      /\ \A t \in Nat : ChargeOver(InForce(t))' = ChargeOver(InForce(t))
  BY Tabled, FieldsFacts DEF IInv
<1>2. /\ Cardinality(ExecutingLaunches)' <= Cardinality(ExecutingLaunches)
      /\ Cardinality(ExecutingLaunches)' \in Nat /\ Cardinality(ExecutingLaunches) \in Nat
  <2>1. /\ IsFiniteSet(ExecutingLaunches) /\ IsFiniteSet(ExecutingLaunches')
        /\ Cardinality(ExecutingLaunches') <= Cardinality(ExecutingLaunches)
    BY FieldsFacts, FS_Subset DEF IInv
  <2> QED
    BY <2>1, FS_CardinalityType
<1>3. Cardinality(ExecutingLaunches)' <= Concurrency
  BY <1>2, PolicyFacts DEF IInv, FieldsOK
<1>4. WindowIsKept'
  <2>1. now' = now /\ now \in Nat
    BY DEF Own, IInv, FieldsOK
  <2> QED
    BY <1>1, <2>1 DEF IInv, WindowIsKept
<1>5. RunCharge(r)' <= Budget.total /\ \A s \in Runs : s # r => RunCharge(s)' <= RunCharge(s)
  BY <1>1 DEF IInv, BudgetIsHonest
<1>6. \A t \in Nat : WindowCharge(t)' <= WindowCharge(t)
  BY <1>1
<1>7. exec'[r].why = "LAUNCH_BUDGET_EXHAUSTED" =>
        \E m \in Missions : Charge(permit'[r][m]) > MaxTurns
  BY DEF IInv, BudgetIsHonest
<1>8. \A m \in Missions : m = Mission(r) => PermitStands(permit'[r][m], sent'[r][m], now)
  OBVIOUS
<1> QED
  BY <1>2, <1>3, <1>4, <1>5, <1>6, <1>7, <1>8, StepKeeps

LaunchTable == [Runs -> {"DIRECT", "QUEUED", "EXECUTING", "COMPLETED", "FAILED"}]

\* A step of a run that writes where it stands, and no more of its own.
LEMMA WritesExec ==
  ASSUME IInv, NEW r \in Runs, NEW x \in ExecRows, exec' = [exec EXCEPT ![r] = x],
         UNCHANGED <<now, policy, permit, worker, sent>>,
         launch' \in LaunchTable, holder' \in Runs \cup {None}, faults' \in 0..MaxFaults
  PROVE  FieldsOK' /\ Own(r) /\ exec'[r] = x
<1>1. exec \in [Runs -> ExecRows]
  BY DEF IInv, FieldsOK
<1>2. /\ exec' \in [Runs -> ExecRows] /\ exec'[r] = x
      /\ \A s \in Runs : s # r => exec'[s] = exec[s]
  BY <1>1
<1>3. FieldsOK'
  BY <1>2 DEF IInv, FieldsOK, LaunchTable
<1>4. Own(r)
  BY <1>2 DEF Own, Differ
<1> QED
  BY <1>2, <1>3, <1>4

\* What is known of one run.
LEMMA RunFacts ==
  ASSUME IInv, NEW r \in Runs
  PROVE  /\ exec[r] \in ExecRows /\ worker[r] \in WorkerRows
         /\ Mission(r) \in Missions /\ Mine(r) \in PermitRows
         /\ sent[r][Mission(r)] \in Nat
         /\ ProcessStands(r) /\ HolderStands(r)
         /\ \A m \in Missions : PermitStands(permit[r][m], sent[r][m], now)
         /\ Mine(r) = permit[r][Mission(r)]
         /\ launch \in LaunchTable /\ holder \in Runs \cup {None} /\ faults \in 0..MaxFaults
         /\ now \in Nat
<1>1. sent \in [Runs -> [Missions -> Nat]]
  BY DEF IInv, FieldsOK
<1> QED
  BY <1>1, FieldsFacts
  DEF IInv, ProcessesKnow, HolderKnows, PermitsKnow, Mine, FieldsOK, LaunchTable

-----------------------------------------------------------------------------
(***************************************************************************)
(* Binding a launch, and reserving for a mission.                          *)
(***************************************************************************)

LEMMA AdmitLaunchKeeps ==
  ASSUME IInv, NEW r \in Runs, AdmitLaunch(r)
  PROVE  IInv'
<1> DEFINE x == [exec[r] EXCEPT !.pc = "BINDING"]
<1>1. /\ exec[r].pc = "IDLE" /\ launch[r] = "QUEUED" /\ holder = None /\ WaitReason(r, now) = "NONE"
      /\ holder' = r /\ exec' = [exec EXCEPT ![r] = x]
      /\ UNCHANGED <<now, policy, launch, permit, worker, sent, faults>>
  BY DEF AdmitLaunch, LockIsFree
<1>2. x \in ExecRows /\ x.pc = "BINDING" /\ x.mission = Mission(r) /\ x.since = exec[r].since
      /\ x.why = exec[r].why
  BY RunFacts DEF ExecRows, Stages, Mission
<1> HIDE DEF x
<1>3. FieldsOK' /\ Own(r) /\ exec'[r] = x
  BY <1>1, <1>2, RunFacts, WritesExec
<1>4. ProcessStands(r)'
  BY <1>1, <1>2, <1>3, RunFacts DEF ProcessStands, Mission, Mine, BeforePermit, NoWorker
<1>5. Cardinality(ExecutingLaunches) + 1 <= Concurrency
  <2>1. {s \in LaunchRuns \ {r} : launch[s] = "EXECUTING"} = ExecutingLaunches
    BY <1>1 DEF LaunchRuns, OperatorRuns, ExecutingLaunches
  <2>2. IsFiniteSet(OpenOperatorRuns) /\ IsFiniteSet(ExecutingLaunches)
    BY FS_Subset DEF OpenOperatorRuns, OperatorRuns, ExecutingLaunches
  <2>3. Cardinality(OpenOperatorRuns) \in Nat /\ Cardinality(ExecutingLaunches) \in Nat
    BY <2>2, FS_CardinalityType
  <2>4. Executing(r) = Cardinality(ExecutingLaunches) + Cardinality(OpenOperatorRuns)
    BY <2>1 DEF Executing
  <2>5. ~ (Executing(r) >= policy.concurrent)
    BY <1>1 DEF WaitReason
  <2>6. policy.concurrent \in Nat /\ Concurrency \in Nat /\ policy.concurrent <= Concurrency
    BY PolicyFacts DEF IInv, FieldsOK
  <2> QED
    BY <2>3, <2>4, <2>5, <2>6
<1>6. ExecutingLaunches' = ExecutingLaunches
  BY <1>1 DEF ExecutingLaunches
<1>7. HolderStands(r)'
  BY <1>1, <1>2, <1>3, <1>5, <1>6 DEF HolderStands
<1> QED
  BY <1>1, <1>2, <1>3, <1>4, <1>6, <1>7, RunFacts, QuietKeeps

LEMMA BindKeeps ==
  ASSUME IInv, NEW r \in Runs, Bind(r)
  PROVE  IInv'
<1> DEFINE x == [exec[r] EXCEPT !.pc = "READY"]
<1>1. /\ exec[r].pc = "BINDING" /\ holder' = None /\ exec' = [exec EXCEPT ![r] = x]
      /\ launch' = [launch EXCEPT ![r] = "EXECUTING"]
      /\ UNCHANGED <<now, policy, permit, worker, sent, faults>>
  BY DEF Bind
<1>2. x \in ExecRows /\ x.pc = "READY" /\ x.mission = Mission(r) /\ x.since = exec[r].since
      /\ x.why = exec[r].why
  BY RunFacts DEF ExecRows, Stages, Mission
<1> HIDE DEF x
<1>3. launch' \in LaunchTable
  BY <1>1, RunFacts DEF LaunchTable
<1>4. FieldsOK' /\ Own(r) /\ exec'[r] = x
  BY <1>1, <1>2, <1>3, RunFacts, WritesExec
<1>5. ProcessStands(r)'
  BY <1>1, <1>2, <1>4, RunFacts DEF ProcessStands, Mission, Mine, BeforePermit, NoWorker
<1>6. HolderStands(r)'
  BY <1>2, <1>4 DEF HolderStands
<1>7. holder = r /\ Cardinality(ExecutingLaunches) + 1 <= Concurrency
  BY <1>1, RunFacts DEF HolderStands
<1>8. Cardinality(ExecutingLaunches)' <= Concurrency
  <2>1. ExecutingLaunches' = ExecutingLaunches \cup {r}
    BY <1>1, RunFacts DEF ExecutingLaunches, LaunchTable
  <2>2. IsFiniteSet(ExecutingLaunches) /\ Cardinality(ExecutingLaunches) \in Nat /\ Concurrency \in Nat
    BY FieldsFacts, PolicyFacts DEF IInv, FieldsOK
  <2>3. Cardinality(ExecutingLaunches \cup {r}) <= Cardinality(ExecutingLaunches) + 1
        /\ Cardinality(ExecutingLaunches \cup {r}) \in Nat
    <3>1. IsFiniteSet(ExecutingLaunches \cup {r})
      BY <2>2, FS_AddElement
    <3>2. \/ Cardinality(ExecutingLaunches \cup {r}) = Cardinality(ExecutingLaunches)
          \/ Cardinality(ExecutingLaunches \cup {r}) = Cardinality(ExecutingLaunches) + 1
      <4>1. CASE r \in ExecutingLaunches
        <5>1. ExecutingLaunches \cup {r} = ExecutingLaunches
          BY <4>1
        <5> QED
          BY <5>1
      <4>2. CASE r \notin ExecutingLaunches
        BY <2>2, <4>2, FS_AddElement
      <4> QED
        BY <4>1, <4>2
    <3> QED
      BY <2>2, <3>2
  <2> QED
    BY <1>7, <2>1, <2>2, <2>3
<1>9. /\ \A s \in Runs : RunCharge(s)' = RunCharge(s) /\ RunCharge(s) \in Nat
      /\ \A t \in Nat : ChargeOver(InForce(t))' = ChargeOver(InForce(t))
  BY <1>1, Tabled, FieldsFacts DEF IInv
<1>10. WindowIsKept' /\ RunCharge(r)' <= Budget.total
       /\ \A s \in Runs : s # r => RunCharge(s)' <= RunCharge(s)
  <2>1. now' = now /\ now \in Nat
    BY <1>1, RunFacts
  <2> QED
    BY <1>9, <2>1 DEF IInv, WindowIsKept, BudgetIsHonest
<1>11. \A m \in Missions : m = Mission(r) => PermitStands(permit'[r][m], sent'[r][m], now)
  BY <1>1, RunFacts
<1>12. exec'[r].why = "LAUNCH_BUDGET_EXHAUSTED" => \E m \in Missions : Charge(permit'[r][m]) > MaxTurns
  BY <1>1, <1>2, <1>4, RunFacts DEF ProcessStands
<1> QED
  BY <1>4, <1>5, <1>6, <1>7, <1>8, <1>10, <1>11, <1>12, StepKeeps

LEMMA ArriveKeeps ==
  ASSUME IInv, NEW r \in Runs, Arrive(r)
  PROVE  IInv'
<1> DEFINE x == [exec[r] EXCEPT !.pc = "WAITING", !.since = now]
<1>1. /\ exec[r].pc = "READY" /\ exec' = [exec EXCEPT ![r] = x]
      /\ UNCHANGED <<now, policy, launch, holder, permit, worker, sent, faults>>
  BY RunFacts DEF Arrive, ExecRows
<1>2. x \in ExecRows /\ x.pc = "WAITING" /\ x.mission = Mission(r) /\ x.since = now
      /\ x.why = exec[r].why
  BY RunFacts DEF ExecRows, Stages, Mission
<1> HIDE DEF x
<1>3. FieldsOK' /\ Own(r) /\ exec'[r] = x
  BY <1>1, <1>2, RunFacts, WritesExec
<1>4. ProcessStands(r)'
  BY <1>1, <1>2, <1>3, RunFacts DEF ProcessStands, Mission, Mine, BeforePermit, NoWorker
<1>5. HolderStands(r)'
  BY <1>2, <1>3 DEF HolderStands
<1>6. ExecutingLaunches' = ExecutingLaunches
  BY <1>1 DEF ExecutingLaunches
<1> QED
  BY <1>1, <1>2, <1>3, <1>4, <1>5, <1>6, RunFacts, QuietKeeps

LEMMA ReckonKeeps ==
  ASSUME IInv, NEW r \in Runs, Reckon(r)
  PROVE  IInv'
<1> DEFINE g == Grant(r)
           x == [exec[r] EXCEPT !.pc = "RECKONED", !.offer = g]
           c == RunCharge(r)
           u == WindowCharge(exec[r].since)
<1>1. /\ exec[r].pc = "WAITING" /\ holder = None /\ Refusal(r) = "NONE"
      /\ holder' = r /\ exec' = [exec EXCEPT ![r] = x]
      /\ UNCHANGED <<now, policy, launch, permit, worker, sent, faults>>
  BY RunFacts DEF Reckon, LockIsFree, ExecRows
<1>2. /\ c \in Nat /\ u \in Nat /\ exec[r].since \in 0..now
      /\ ~ (Budget.total < c + MaxTurns) /\ ~ (policy.cap < u + MaxTurns)
      /\ policy.cap \in Nat /\ policy.cap <= LargestCap /\ LargestCap \in Nat
  <2>1. exec[r].since \in Nat /\ exec[r].since <= now /\ now \in Nat
    BY RunFacts DEF ExecRows, ProcessStands
  <2>2. ~ (Budget.total < c + MaxTurns) /\ ~ (policy.cap < u + MaxTurns)
    BY <1>1 DEF Refusal
  <2> QED
    BY <2>1, <2>2, FieldsFacts, PolicyFacts DEF IInv, FieldsOK
<1>3. g = Least({Budget.mission, Budget.total - c, policy.cap - u})
  BY DEF Grant
<1> HIDE DEF g, c, u
<1>4. g \in 1..Budget.mission /\ c + g <= Budget.total /\ u + g <= LargestCap
  <2> DEFINE S == {Budget.mission, Budget.total - c, policy.cap - u}
  <2>1. /\ Budget.mission \in Nat /\ Budget.total \in Nat /\ Budget.mission >= 1
        /\ Budget.total - c \in Nat /\ Budget.total - c >= 1
        /\ policy.cap - u \in Nat /\ policy.cap - u >= 1
    BY <1>2, BudgetFacts
  <2>2. g \in S /\ g <= Budget.mission /\ g <= Budget.total - c /\ g <= policy.cap - u
    <3>1. S \in SUBSET Nat /\ S # {} /\ g = Least(S)
      BY <1>3, <2>1
    <3>2. g \in S /\ \A y \in S : g <= y
      <4> HIDE DEF S
      <4> QED
        BY <3>1, LeastIn
    <3> QED
      BY <3>2
  <2>3. g \in Nat /\ g >= 1
    BY <2>1, <2>2
  <2> HIDE DEF S
  <2> QED
    BY <1>2, <2>1, <2>2, <2>3
<1>5. x \in ExecRows /\ x.pc = "RECKONED" /\ x.mission = Mission(r) /\ x.since = exec[r].since
      /\ x.why = exec[r].why /\ x.offer = g
  <2>1. g \in Nat
    BY <1>4, BudgetFacts
  <2> QED
    BY <2>1, RunFacts DEF ExecRows, Stages, Mission
<1> HIDE DEF x
<1>6. FieldsOK' /\ Own(r) /\ exec'[r] = x
  BY <1>1, <1>5, RunFacts, WritesExec
<1>7. ProcessStands(r)'
  BY <1>1, <1>5, <1>6, RunFacts DEF ProcessStands, Mission, Mine, BeforePermit, NoWorker
<1>8. HolderStands(r)'
  <2>1. RunCharge(r)' = c /\ \A t : WindowCharge(t)' = WindowCharge(t)
    BY <1>1, Tabled DEF c
  <2>2. \A t \in 0..now : t = exec[r].since => WindowCharge(t) + g <= LargestCap
    BY <1>4 DEF u
  <2> QED
    BY <1>1, <1>4, <1>5, <1>6, <2>1, <2>2 DEF HolderStands
<1>9. ExecutingLaunches' = ExecutingLaunches
  BY <1>1 DEF ExecutingLaunches
<1> QED
  BY <1>1, <1>5, <1>6, <1>7, <1>8, <1>9, RunFacts, QuietKeeps

\* While the rows ahead have no permit, the budget covers a mission for each of them,
\* unless a mission before took more than a request per turn.
LEMMA BudgetCovers ==
  ASSUME IInv, NEW r \in Runs, exec[r].pc = "WAITING",
         \A m \in Missions : Charge(permit[r][m]) <= MaxTurns
  PROVE  RunCharge(r) + MaxTurns <= Budget.total
<1> DEFINE p == ChargesOf(permit)
           m == Mission(r)
           S == {r} \X Missions
           T == S \ {<<r, m>>}
<1>1. permit \in Tables /\ m \in Missions /\ permit[r][m] = NoPermit
  BY FieldsFacts, RunFacts DEF IInv, ProcessStands, BeforePermit
<1>2. /\ p \in [Slots -> Nat] /\ p[<<r, m>>] = 0
      /\ \A k \in S : p[k] <= MaxTurns
  <2>1. p \in [Slots -> Nat] /\ \A k \in Missions : p[<<r, k>>] = Charge(permit[r][k])
    BY <1>1, ChargesType
  <2>2. Charge(NoPermit) = 0
    BY DEF Charge, NoPermit
  <2> HIDE DEF p
  <2> QED
    BY <1>1, <2>1, <2>2
<1>3. S \in SUBSET Slots /\ IsFiniteSet(S) /\ Cardinality(S) = MissionCount /\ <<r, m>> \in S
  BY <1>1, SlotsFinite
<1>4. IsFiniteSet(T) /\ T \in SUBSET Slots /\ Cardinality(T) = MissionCount - 1
  BY <1>3, FS_RemoveElement
<1>5. RunCharge(r) = SumFunctionOnSet(p, S)
  BY Tabled DEF RunTotal
<1> HIDE DEF p, S
<1>6. SumFunctionOnSet(p, S) = p[<<r, m>>] + SumFunctionOnSet(p, T)
  BY <1>2, <1>3, SumRemove
<1>7. SumFunctionOnSet(p, T) \in Nat
  BY <1>2, <1>4, SumType
<1>8. SumFunctionOnSet(p, T) <= Cardinality(T) * MaxTurns
  <2>1. \A k \in T : p[k] <= MaxTurns
    BY <1>2
  <2> HIDE DEF T
  <2> QED
    BY <1>2, <1>4, <2>1, SumBound
<1>9. (MissionCount - 1) * MaxTurns + MaxTurns = MissionCount * MaxTurns
      /\ (MissionCount - 1) * MaxTurns \in Nat
  OBVIOUS
<1> HIDE DEF T
<1>10. SumFunctionOnSet(p, T) <= (MissionCount - 1) * MaxTurns
  BY <1>4, <1>8
<1>11. SumFunctionOnSet(p, T) + MaxTurns <= MissionCount * MaxTurns
  BY <1>7, <1>9, <1>10
<1>12. MissionCount * MaxTurns \in Nat
  OBVIOUS
<1> QED
  BY <1>2, <1>5, <1>6, <1>7, <1>11, <1>12, BudgetFacts

LEMMA HaltRunKeeps ==
  ASSUME IInv, NEW r \in Runs, Halt(r)
  PROVE  IInv'
<1> DEFINE x == [Idle EXCEPT !.pc = "OVER", !.why = Refusal(r)]
<1>1. /\ exec[r].pc = "WAITING" /\ Refusal(r) # "NONE"
      /\ exec' = [exec EXCEPT ![r] = x]
      /\ launch' = [launch EXCEPT ![r] = IF r \in LaunchRuns THEN "FAILED" ELSE @]
      /\ UNCHANGED <<now, policy, holder, permit, worker, sent, faults>>
  BY DEF Halt
<1>2. Refusal(r) \in Reasons
  BY DEF Refusal, Reasons
<1>3. x \in ExecRows /\ x.pc = "OVER" /\ x.mission = 1 /\ x.since = 0 /\ x.why = Refusal(r)
  <2> DEFINE y == [Idle EXCEPT !.pc = "OVER"]
  <2>1. y \in ExecRows /\ y.pc = "OVER" /\ y.mission = 1 /\ y.since = 0
    BY DEF Idle, ExecRows, Stages, Missions, Reasons
  <2>2. x = [y EXCEPT !.why = Refusal(r)]
    BY DEF Idle
  <2> HIDE DEF x, y
  <2> QED
    BY <1>2, <2>1, <2>2 DEF ExecRows
<1> HIDE DEF x
<1>4. launch' \in LaunchTable /\ ExecutingLaunches' \subseteq ExecutingLaunches
  BY <1>1, RunFacts DEF LaunchTable, ExecutingLaunches
<1>5. FieldsOK' /\ Own(r) /\ exec'[r] = x
  BY <1>1, <1>3, <1>4, RunFacts, WritesExec
<1>6. worker[r] = NoWorker
  BY <1>1, RunFacts DEF ProcessStands
<1>7. ProcessStands(r)'
  BY <1>1, <1>3, <1>5, <1>6, RunFacts DEF ProcessStands, NoWorker
<1>8. HolderStands(r)'
  BY <1>3, <1>5 DEF HolderStands
<1>9. x.why = "LAUNCH_BUDGET_EXHAUSTED" => \E m \in Missions : Charge(permit[r][m]) > MaxTurns
  <2> SUFFICES ASSUME Refusal(r) = "LAUNCH_BUDGET_EXHAUSTED",
                      ~ \E m \in Missions : Charge(permit[r][m]) > MaxTurns
               PROVE  FALSE
    BY <1>3
  <2>1. Budget.total < RunCharge(r) + MaxTurns
    BY DEF Refusal
  <2>2. \A m \in Missions : permit[r][m] \in PermitRows
    BY DEF IInv, FieldsOK
  <2>3. \A m \in Missions : Charge(permit[r][m]) <= MaxTurns
    BY <2>2, ChargeType
  <2>4. RunCharge(r) + MaxTurns <= Budget.total
    BY <1>1, <2>3, BudgetCovers
  <2>5. RunCharge(r) \in Nat /\ Budget.total \in Nat
    BY FieldsFacts, BudgetFacts DEF IInv
  <2> QED
    BY <2>1, <2>4, <2>5
<1> QED
  BY <1>1, <1>4, <1>5, <1>7, <1>8, <1>9, RunFacts, QuietKeeps

LEMMA ReserveKeeps ==
  ASSUME IInv, NEW r \in Runs, Reserve(r)
  PROVE  IInv'
<1> DEFINE m == Mission(r)
           g == exec[r].offer
           p == [state |-> "RESERVED", granted |-> g, consumed |-> 0, opened |-> exec[r].since]
           x == [Idle EXCEPT !.pc = "ADMITTED", !.mission = m, !.left = g]
<1>1. /\ exec[r].pc = "RECKONED" /\ permit' = [permit EXCEPT ![r][m] = p]
      /\ holder' = IF holder = r THEN None ELSE holder
      /\ exec' = [exec EXCEPT ![r] = x]
      /\ UNCHANGED <<now, policy, launch, worker, sent, faults>>
  BY DEF Reserve
<1>2. /\ m \in Missions /\ holder = r /\ g \in Nat /\ g \in 1..Budget.mission
      /\ exec[r].since \in 0..now /\ now \in Nat /\ permit[r][m] = NoPermit /\ worker[r] = NoWorker
      /\ RunCharge(r) + g <= Budget.total
      /\ \A t \in 0..now : t = exec[r].since => WindowCharge(t) + g <= LargestCap
  BY <1>1, RunFacts, BudgetFacts DEF ProcessStands, HolderStands, BeforePermit, ExecRows
<1>3. sent[r][m] = 0
  BY <1>2, RunFacts DEF PermitStands, NoPermit
<1>4. p \in PermitRows /\ p.state = "RESERVED" /\ p.granted = g /\ p.opened = exec[r].since
      /\ p.consumed = 0
  BY <1>2, RunFacts DEF PermitRows, PermitStates, ExecRows
<1>5. x \in ExecRows /\ x.pc = "ADMITTED" /\ x.mission = m /\ x.since = 0 /\ x.why = "NONE"
      /\ x.left = g /\ x.spent = 0
  BY <1>2 DEF Idle, ExecRows, Stages, Reasons
<1> HIDE DEF x, p, g, m
<1>6. /\ exec' \in [Runs -> ExecRows] /\ exec'[r] = x
      /\ \A s \in Runs : s # r => exec'[s] = exec[s]
  BY <1>1, <1>5 DEF IInv, FieldsOK
<1>7. /\ permit' \in [Runs -> [Missions -> PermitRows]] /\ permit'[r][m] = p
      /\ Differ(permit, permit', r, m) /\ permit \in Tables /\ permit' \in Tables
  <2>1. permit \in [Runs -> [Missions -> PermitRows]]
    BY DEF IInv, FieldsOK
  <2>2. permit[r] \in [Missions -> PermitRows] /\ [permit[r] EXCEPT ![m] = p] \in [Missions -> PermitRows]
    BY <1>2, <1>4, <2>1
  <2>3. permit' = [permit EXCEPT ![r] = [permit[r] EXCEPT ![m] = p]]
    BY <1>1
  <2> QED
    BY <1>2, <2>1, <2>2, <2>3 DEF Differ, Tables
<1>8. holder' \in Runs \cup {None}
  BY <1>1, RunFacts
<1>9. FieldsOK'
  BY <1>1, <1>6, <1>7, <1>8 DEF IInv, FieldsOK
<1>10. Own(r)
  BY <1>1, <1>6, <1>7 DEF Own, m
<1>11. ProcessStands(r)'
  <2>1. /\ Mission(r)' = m /\ Mine(r)' = p /\ worker'[r] = NoWorker /\ sent'[r][m] = 0
        /\ \A k \in Missions : k # m => permit'[r][k] = permit[r][k]
    BY <1>1, <1>2, <1>3, <1>5, <1>6, <1>7 DEF Mission, Mine, Differ
  <2>2. \A k \in Missions : k > m => permit[r][k] = NoPermit
    BY <1>1, RunFacts DEF ProcessStands, m
  <2>3. m \in Nat /\ \A k \in Missions : k \in Nat
    BY <1>2 DEF Missions
  <2> QED
    BY <1>1, <1>2, <1>4, <1>5, <1>6, <2>1, <2>2, <2>3
    DEF ProcessStands, Mission, Mine, Consumed, BeforePermit, NoWorker
<1>12. HolderStands(r)'
  BY <1>5, <1>6 DEF HolderStands
<1>13. /\ RunTotal(permit', r) = RunTotal(permit, r) + g
       /\ \A s \in Runs : s # r => RunTotal(permit', s) = RunTotal(permit, s)
       /\ \A t \in 0..now : ForceTotal(permit', t) <= LargestCap
  <2> DEFINE P == permit
             Q == permit'
             cap == LargestCap
             now0 == now
  <2>1. /\ P \in Tables /\ Q \in Tables /\ Differ(P, Q, r, m) /\ P[r][m] = NoPermit
        /\ Q[r][m] = p
    BY <1>2, <1>7
  <2>2. cap \in Nat /\ now0 \in Nat /\ p.opened <= now0
    BY <1>2, <1>4, PolicyFacts DEF IInv, FieldsOK
  <2>3. \A t \in 0..now0 : ForceTotal(P, t) <= cap
    BY Tabled DEF IInv, WindowIsKept
  <2>4. WindowTotal(P, p.opened) + p.granted <= cap
    BY <1>2, <1>4, Tabled
  <2>5. m \in Missions
    BY <1>2
  <2> HIDE DEF P, Q, cap, now0
  <2>6. /\ RunTotal(Q, r) = RunTotal(P, r) + p.granted
        /\ \A s \in Runs : s # r => RunTotal(Q, s) = RunTotal(P, s)
        /\ \A t \in 0..now0 : ForceTotal(Q, t) <= cap
    BY <1>4, <2>1, <2>2, <2>3, <2>4, <2>5, ReservingCharges
  <2> QED
    BY <1>4, <2>6 DEF P, Q, cap, now0
<1>14. WindowIsKept'
  BY <1>1, <1>13, Tabled DEF WindowIsKept
<1>15. /\ RunCharge(r)' <= Budget.total
       /\ \A s \in Runs : s # r => RunCharge(s)' <= RunCharge(s)
  BY <1>2, <1>13, Tabled, FieldsFacts DEF IInv
<1>16. Cardinality(ExecutingLaunches)' <= Concurrency
  BY <1>1 DEF IInv, ExecutingLaunches
<1>17. \A k \in Missions : k = Mission(r) => PermitStands(permit'[r][k], sent'[r][k], now)
  <2>1. /\ permit'[r][m] = p /\ sent'[r][m] = 0 /\ p.opened <= now /\ Charge(p) = g
        /\ p.granted \in 1..Budget.mission /\ g \in Nat
    BY <1>1, <1>2, <1>3, <1>4, <1>7 DEF Charge
  <2>2. PermitStands(p, 0, now)
    BY <1>4, <2>1 DEF PermitStands
  <2> QED
    BY <2>1, <2>2 DEF m
<1>18. /\ \A s \in Runs : s # r /\ holder = s => holder' = s
       /\ exec'[r].why # "LAUNCH_BUDGET_EXHAUSTED"
  BY <1>2, <1>5, <1>6
<1> QED
  BY <1>2, <1>9, <1>10, <1>11, <1>12, <1>14, <1>15, <1>16, <1>17, <1>18, StepKeeps

-----------------------------------------------------------------------------
(***************************************************************************)
(* Settling a permit.                                                      *)
(***************************************************************************)

\* However a mission is settled, what it is charged covers what it sent, unless the
\* permit is released; and it is charged no more than it was granted.
LEMMA SettleKeeps ==
  ASSUME IInv, NEW r \in Runs, NEW kind, NEW consumed \in Nat, Settle(r, kind, consumed),
         exec[r].pc \in {"ADMITTED", "WORKING"},
         kind \in {"RECONCILE", "ASSUME", "RELEASE"},
         kind = "RECONCILE" => consumed >= Consumed(r)
  PROVE  IInv'
<1> DEFINE m == Mission(r)
           x == [Idle EXCEPT !.pc = "RECORDED", !.mission = m]
           p == permit[r][m]
           q == IF permit' = permit THEN p ELSE Settled(p, kind, consumed)
<1>1. /\ permit' = permit \/ permit' = [permit EXCEPT ![r][m] = Settled(p, kind, consumed)]
      /\ faults' \in 0..MaxFaults
      /\ exec' = [exec EXCEPT ![r] = x] /\ worker' = [worker EXCEPT ![r] = NoWorker]
      /\ UNCHANGED <<now, policy, launch, holder, sent>>
  <2>1. \/ permit' = [permit EXCEPT ![r][m] = Settled(@, kind, consumed)]
        \/ permit' = permit
    BY DEF Settle
  <2>2. /\ permit \in [Runs -> [Missions -> PermitRows]] /\ m \in Missions
    BY RunFacts DEF IInv, FieldsOK
  <2>3. faults' \in 0..MaxFaults
    BY RunFacts DEF Settle
  <2> QED
    BY <2>1, <2>2, <2>3 DEF Settle
<1>2. /\ m \in Missions /\ p \in PermitRows /\ p.state = "RESERVED"
      /\ p.granted \in Nat /\ sent[r][m] = Consumed(r) /\ sent[r][m] <= p.granted
      /\ sent[r][m] \in Nat /\ PermitStands(p, sent[r][m], now)
      /\ p.granted \in 1..Budget.mission
  <2>1. /\ m \in Missions /\ p \in PermitRows /\ Mine(r) = p /\ sent[r][m] \in Nat
        /\ PermitStands(p, sent[r][m], now)
    BY RunFacts
  <2>2. p.state = "RESERVED" /\ sent[r][m] = Consumed(r)
    BY <2>1, RunFacts DEF ProcessStands
  <2>3. p.granted \in Nat
    BY <2>1 DEF PermitRows
  <2>4. sent[r][m] <= p.granted /\ p.granted \in 1..Budget.mission
    BY <2>1, <2>2 DEF PermitStands
  <2> QED
    BY <2>1, <2>2, <2>3, <2>4
<1>3. LET s == Settled(p, kind, consumed)
      IN  /\ s \in PermitRows /\ s.opened = p.opened /\ s.granted = p.granted
          /\ s.state \in {"RECONCILED", "ASSUMED_SPENT", "RELEASED"}
          /\ s.consumed <= s.granted /\ Charge(s) <= p.granted
          /\ s.state = "RELEASED" \/ sent[r][m] <= Charge(s)
  <2> HIDE DEF p, m
  <2> DEFINE s == Settled(p, kind, consumed)
             c == Least({consumed, p.granted})
  <2>1. /\ c \in Nat /\ c <= p.granted
        /\ kind = "RECONCILE" => sent[r][m] <= c
    <3>1. c \in {consumed, p.granted} /\ \A y \in {consumed, p.granted} : c <= y
      BY <1>2, LeastIn
    <3> HIDE DEF c
    <3> QED
      BY <1>2, <3>1
  <2> HIDE DEF c
  <2>2. CASE kind = "RECONCILE"
    <3>1. s = [p EXCEPT !.state = "RECONCILED", !.consumed = c]
      BY <1>2, <2>2 DEF Settled, c
    <3> HIDE DEF s
    <3>2. s.state = "RECONCILED" /\ s.consumed = c /\ s.granted = p.granted /\ s.opened = p.opened
          /\ s \in PermitRows
      BY <1>2, <2>1, <3>1 DEF PermitRows, PermitStates
    <3> QED
      BY <1>2, <2>1, <2>2, <3>2 DEF Charge, s
  <2>3. CASE kind = "ASSUME"
    <3>1. s = [p EXCEPT !.state = "ASSUMED_SPENT"]
      BY <1>2, <2>3 DEF Settled
    <3> HIDE DEF s
    <3>2. s.state = "ASSUMED_SPENT" /\ s.consumed = p.consumed /\ s.granted = p.granted
          /\ s.opened = p.opened /\ s \in PermitRows
      BY <1>2, <3>1 DEF PermitRows, PermitStates
    <3> QED
      BY <1>2, <3>2 DEF Charge, PermitStands, s
  <2>4. CASE kind = "RELEASE"
    <3>1. s = [p EXCEPT !.state = "RELEASED"]
      BY <1>2, <2>4 DEF Settled
    <3> HIDE DEF s
    <3>2. s.state = "RELEASED" /\ s.consumed = p.consumed /\ s.granted = p.granted
          /\ s.opened = p.opened /\ s \in PermitRows
      BY <1>2, <3>1 DEF PermitRows, PermitStates
    <3> QED
      BY <1>2, <3>2 DEF Charge, PermitStands, s
  <2> QED
    BY <2>2, <2>3, <2>4
<1>4. /\ q \in PermitRows /\ q.opened = p.opened /\ Charge(q) <= Charge(p)
      /\ PermitStands(q, sent[r][m], now)
  <2> DEFINE s == Settled(p, kind, consumed)
  <2>1. Charge(p) = p.granted
    BY <1>2 DEF Charge
  <2> HIDE DEF p, m
  <2>2. CASE permit' = permit
    BY <1>2, <2>1, <2>2
  <2>3. CASE permit' # permit
    <3>1. q = s
      BY <2>3
    <3> HIDE DEF s, q
    <3>2. PermitStands(s, sent[r][m], now)
      BY <1>2, <1>3 DEF PermitStands, s
    <3> QED
      BY <1>2, <1>3, <2>1, <3>1, <3>2 DEF s
  <2> QED
    BY <2>2, <2>3
<1>5. /\ permit' \in Tables /\ permit \in Tables /\ permit'[r][m] = q
      /\ Differ(permit, permit', r, m)
  <2>1. permit \in [Runs -> [Missions -> PermitRows]]
    BY DEF IInv, FieldsOK
  <2>2. CASE permit' = permit
    BY <2>1, <2>2 DEF Differ, Tables
  <2>3. CASE permit' # permit
    <3>1. permit' = [permit EXCEPT ![r][m] = q]
      BY <1>1, <2>3
    <3> HIDE DEF q, m, p
    <3>2. permit[r] \in [Missions -> PermitRows] /\ [permit[r] EXCEPT ![m] = q] \in [Missions -> PermitRows]
      BY <1>2, <1>4, <2>1
    <3>3. permit' = [permit EXCEPT ![r] = [permit[r] EXCEPT ![m] = q]]
      BY <3>1
    <3> QED
      BY <1>2, <1>4, <2>1, <3>2, <3>3 DEF Differ, Tables
  <2> QED
    BY <2>2, <2>3
<1>6. x \in ExecRows /\ x.pc = "RECORDED" /\ x.mission = m /\ x.since = 0 /\ x.why = "NONE"
  BY <1>2 DEF Idle, ExecRows, Stages, Reasons
<1> HIDE DEF m, x, p, q
<1>7. /\ exec' \in [Runs -> ExecRows] /\ exec'[r] = x
      /\ \A s \in Runs : s # r => exec'[s] = exec[s]
  BY <1>1, <1>6 DEF IInv, FieldsOK
<1>8. /\ worker' \in [Runs -> WorkerRows] /\ worker'[r] = NoWorker
      /\ \A s \in Runs : s # r => worker'[s] = worker[s]
  <2>1. NoWorker \in WorkerRows
    BY DEF NoWorker, WorkerRows, Fates
  <2> QED
    BY <1>1, <2>1 DEF IInv, FieldsOK
<1>9. FieldsOK'
  BY <1>1, <1>5, <1>7, <1>8 DEF IInv, FieldsOK, Tables
<1>10. Own(r)
  BY <1>1, <1>5, <1>7, <1>8 DEF Own, m
<1>11. ProcessStands(r)'
  <2>1. Mission(r)' = m /\ \A k \in Missions : k # m => permit'[r][k] = permit[r][k]
    BY <1>5, <1>6, <1>7 DEF Mission, Differ
  <2>2. \A k \in Missions : k > m => permit[r][k] = NoPermit
    BY RunFacts DEF ProcessStands, m
  <2>3. m \in Nat /\ now \in Nat /\ \A k \in Missions : k \in Nat
    BY <1>2, RunFacts DEF Missions
  <2> QED
    BY <1>1, <1>6, <1>7, <1>8, <2>1, <2>2, <2>3 DEF ProcessStands, BeforePermit, NoWorker
<1>12. HolderStands(r)'
  BY <1>6, <1>7 DEF HolderStands
<1>13. /\ \A s \in Runs : RunTotal(permit', s) <= RunTotal(permit, s)
       /\ \A t \in Nat : WindowTotal(permit', t) <= WindowTotal(permit, t)
       /\ \A t \in Nat : ForceTotal(permit', t) <= ForceTotal(permit, t)
  BY <1>2, <1>4, <1>5, SettlingChargesNoMore DEF p
<1>14. WindowIsKept'
  <2>1. now' = now /\ now \in Nat
    BY <1>1, RunFacts
  <2>2. \A t \in 0..now : ForceTotal(permit, t) <= LargestCap
    BY Tabled DEF IInv, WindowIsKept
  <2>3. \A t \in Nat : ForceTotal(permit', t) \in Nat /\ ForceTotal(permit, t) \in Nat
    BY <1>5, TotalsType
  <2>4. LargestCap \in Nat
    BY PolicyFacts DEF IInv, FieldsOK
  <2>5. \A t \in 0..now : ForceTotal(permit', t) <= LargestCap
    BY <1>13, <2>1, <2>2, <2>3, <2>4
  <2> QED
    BY <2>1, <2>5, Tabled DEF WindowIsKept
<1>15. /\ RunCharge(r)' <= Budget.total
       /\ \A s \in Runs : s # r => RunCharge(s)' <= RunCharge(s)
  <2>1. RunTotal(permit', r) \in Nat /\ RunTotal(permit, r) \in Nat
    BY <1>5, TotalsType
  <2>2. RunTotal(permit, r) <= Budget.total
    BY Tabled DEF IInv, BudgetIsHonest
  <2>3. RunTotal(permit', r) <= Budget.total
    BY <1>13, <2>1, <2>2, BudgetFacts
  <2> QED
    BY <1>13, <2>3, Tabled
<1>16. \A t \in Nat : WindowCharge(t)' <= WindowCharge(t)
  BY <1>13, Tabled
<1>17. /\ Cardinality(ExecutingLaunches)' <= Concurrency
       /\ Cardinality(ExecutingLaunches)' <= Cardinality(ExecutingLaunches)
  BY <1>1, FieldsFacts DEF IInv, ExecutingLaunches
<1>18. \A k \in Missions : k = Mission(r) => PermitStands(permit'[r][k], sent'[r][k], now)
  BY <1>1, <1>4, <1>5 DEF m
<1>19. /\ \A s \in Runs : s # r /\ holder = s => holder' = s
       /\ exec'[r].why # "LAUNCH_BUDGET_EXHAUSTED"
  BY <1>1, <1>6, <1>7
<1> QED
  BY <1>9, <1>10, <1>11, <1>12, <1>14, <1>15, <1>16, <1>17, <1>18, <1>19, StepKeeps

LEMMA UnstartedKeeps ==
  ASSUME IInv, NEW r \in Runs, Unstarted(r)
  PROVE  IInv'
  BY SettleKeeps DEF Unstarted

LEMMA CollectKeeps ==
  ASSUME IInv, NEW r \in Runs, Collect(r)
  PROVE  IInv'
<1>1. /\ exec[r].pc = "WORKING"
      /\ Consumed(r) \in Nat /\ Mine(r).granted \in Nat /\ Consumed(r) <= Mine(r).granted
  <2>1. exec[r].pc = "WORKING"
    BY DEF Collect
  <2>2. exec[r].spent \in Nat /\ exec[r].left \in Nat /\ worker[r].attempts \in Nat
    BY RunFacts DEF ExecRows, WorkerRows
  <2>3. Mine(r).granted = exec[r].spent + exec[r].left /\ worker[r].attempts <= exec[r].left
    BY <2>1, RunFacts DEF ProcessStands
  <2> QED
    BY <2>1, <2>2, <2>3 DEF Consumed
<1>2. CASE Settle(r, "RECONCILE", Consumed(r))
  BY <1>1, <1>2, SettleKeeps
<1>3. CASE Settle(r, "RECONCILE", Mine(r).granted)
  BY <1>1, <1>3, SettleKeeps
<1>4. CASE Settle(r, "ASSUME", 0)
  BY <1>1, <1>4, SettleKeeps
<1> QED
  BY <1>2, <1>3, <1>4 DEF Collect

-----------------------------------------------------------------------------
(***************************************************************************)
(* The worker process, and what the run makes of its end.                  *)
(***************************************************************************)

\* A step in the middle of a mission: the permit stays, and what was sent is counted.
LEMMA MissionStepKeeps ==
  ASSUME IInv, NEW r \in Runs, NEW x \in ExecRows, NEW w \in WorkerRows, NEW n \in Nat,
         exec' \in [Runs -> ExecRows], exec'[r] = x, \A s \in Runs : s # r => exec'[s] = exec[s],
         worker' \in [Runs -> WorkerRows], worker'[r] = w,
         \A s \in Runs : s # r => worker'[s] = worker[s],
         sent' \in [Runs -> [Missions -> Nat]], sent'[r][Mission(r)] = n,
         \A s \in Runs : s # r => sent'[s] = sent[s],
         \A k \in Missions : k # Mission(r) => sent'[r][k] = sent[r][k],
         UNCHANGED <<now, policy, launch, holder, permit, faults>>,
         exec[r].pc \in {"ADMITTED", "WORKING", "DEAD"},
         exec[r].pc = "DEAD" => worker[r].fate = "RUNNING",
         x.pc \in {"ADMITTED", "WORKING", "DEAD"},
         x.pc = "ADMITTED" => w = NoWorker,
         x.mission = Mission(r), x.since = exec[r].since, x.why = exec[r].why,
         Mine(r).granted = x.spent + x.left, n = x.spent + w.attempts, w.attempts <= x.left
  PROVE  IInv'
<1> DEFINE m == Mission(r)
<1>1. /\ m \in Missions /\ Mine(r).state = "RESERVED" /\ Mine(r) \in PermitRows
      /\ Mine(r) = permit[r][m] /\ PermitStands(Mine(r), sent[r][m], now)
      /\ ProcessStands(r) /\ now \in Nat
  BY RunFacts DEF ProcessStands
<1>2. x.spent \in Nat /\ x.left \in Nat /\ w.attempts \in Nat
  BY DEF ExecRows, WorkerRows
<1>3. n <= Mine(r).granted /\ Charge(Mine(r)) = Mine(r).granted
  BY <1>1, <1>2 DEF Charge
<1>4. PermitStands(Mine(r), n, now)
  BY <1>1, <1>3 DEF PermitStands
<1>5. FieldsOK'
  BY DEF IInv, FieldsOK
<1>6. Own(r)
  BY DEF Own, Differ
<1>7. ProcessStands(r)'
  <2>1. /\ Mission(r)' = m /\ Mine(r)' = Mine(r) /\ Consumed(r)' = n
    BY DEF Mission, Mine, Consumed
  <2>2. \A k \in Missions : k > m => permit[r][k] = NoPermit
    BY <1>1 DEF ProcessStands
  <2>3. m \in Nat /\ \A k \in Missions : k \in Nat
    BY <1>1 DEF Missions
  <2> HIDE DEF m
  <2>4. /\ x.pc # "OVER" /\ x.pc \notin BeforePermit
        /\ x.pc \notin {"WORKING", "DEAD"} => w = NoWorker
        /\ x.since <= now /\ (x.why # "NONE" => x.pc = "OVER")
    BY <1>1 DEF BeforePermit, ProcessStands
  <2> QED
    BY <1>1, <2>1, <2>2, <2>3, <2>4 DEF ProcessStands, m
<1>8. HolderStands(r)'
  BY DEF HolderStands
<1>9. ExecutingLaunches' = ExecutingLaunches
  BY DEF ExecutingLaunches
<1>10. \A k \in Missions : k = Mission(r) => PermitStands(permit[r][k], sent'[r][k], now)
  BY <1>1, <1>4
<1> QED
  BY <1>5, <1>6, <1>7, <1>8, <1>9, <1>10, QuietKeeps

\* What is counted while a mission runs.
LEMMA MissionFacts ==
  ASSUME IInv, NEW r \in Runs, exec[r].pc \in {"ADMITTED", "WORKING"} \/ worker[r].fate = "RUNNING"
  PROVE  /\ exec[r] \in ExecRows /\ exec[r].pc \in Stages /\ worker[r] \in WorkerRows
         /\ exec[r].spent \in Nat /\ exec[r].left \in Nat /\ worker[r].attempts \in Nat
         /\ Mine(r).granted = exec[r].spent + exec[r].left
         /\ sent[r][Mission(r)] = exec[r].spent + worker[r].attempts
         /\ worker[r].attempts <= exec[r].left
         /\ exec[r].mission = Mission(r) /\ Mission(r) \in Missions
         /\ exec \in [Runs -> ExecRows] /\ worker \in [Runs -> WorkerRows]
         /\ sent \in [Runs -> [Missions -> Nat]] /\ sent[r][Mission(r)] \in Nat
  BY RunFacts DEF ProcessStands, Mission, Consumed, ExecRows, WorkerRows, IInv, FieldsOK

LEMMA SpawnKeeps ==
  ASSUME IInv, NEW r \in Runs, Spawn(r)
  PROVE  IInv'
<1> DEFINE x == [exec[r] EXCEPT !.pc = "WORKING", !.tried = @ + 1]
           w == [NoWorker EXCEPT !.fate = "RUNNING"]
<1>1. /\ exec[r].pc = "ADMITTED" /\ worker' = [worker EXCEPT ![r] = w]
      /\ UNCHANGED <<now, policy, launch, holder, permit, sent, faults>>
      /\ worker[r] = NoWorker /\ worker[r].attempts = 0
  BY RunFacts DEF Spawn, ProcessStands, NoWorker
<1>2. exec' = [exec EXCEPT ![r] = x]
  BY <1>1, MissionFacts DEF Spawn, ExecRows
<1>3. /\ x \in ExecRows /\ x.pc = "WORKING" /\ x.mission = exec[r].mission /\ x.spent = exec[r].spent
      /\ x.left = exec[r].left /\ x.since = exec[r].since /\ x.why = exec[r].why
  <2> DEFINE y == [exec[r] EXCEPT !.pc = "WORKING"]
             tries == exec[r].tried + 1
  <2>1. /\ y \in ExecRows /\ y.pc = "WORKING" /\ y.mission = exec[r].mission /\ y.spent = exec[r].spent
        /\ y.left = exec[r].left /\ y.since = exec[r].since /\ y.why = exec[r].why
    BY RunFacts DEF ExecRows, Stages
  <2>2. tries \in Nat
    BY RunFacts DEF ExecRows
  <2>3. x = [y EXCEPT !.tried = tries]
    BY RunFacts DEF ExecRows
  <2> HIDE DEF x, y, tries
  <2> QED
    BY <2>1, <2>2, <2>3 DEF ExecRows
<1>4. w \in WorkerRows /\ w.attempts = 0
  BY DEF NoWorker, WorkerRows, Fates
<1> HIDE DEF x, w
<1>5. /\ exec' \in [Runs -> ExecRows] /\ exec'[r] = x /\ \A s \in Runs : s # r => exec'[s] = exec[s]
      /\ worker' \in [Runs -> WorkerRows] /\ worker'[r] = w
      /\ \A s \in Runs : s # r => worker'[s] = worker[s]
  BY <1>1, <1>2, <1>3, <1>4, MissionFacts
<1> DEFINE n == sent[r][Mission(r)]
<1>6. n \in Nat /\ sent'[r][Mission(r)] = n /\ sent' \in [Runs -> [Missions -> Nat]]
      /\ n = x.spent + w.attempts /\ Mine(r).granted = x.spent + x.left /\ w.attempts <= x.left
      /\ x.mission = Mission(r)
  BY <1>1, <1>3, <1>4, MissionFacts
<1> HIDE DEF n
<1> QED
  BY <1>1, <1>3, <1>4, <1>5, <1>6, MissionStepKeeps

LEMMA AnsweredKeeps ==
  ASSUME IInv, NEW r \in Runs, NEW answer \in WorkerRows, Answered(r, answer),
         answer.attempts = worker[r].attempts
  PROVE  IInv'
<1> DEFINE x == exec[r]
           w == [answer EXCEPT !.attempts = @ + 1]
           m == Mission(r)
           n == sent[r][m] + 1
<1>1. /\ worker[r].fate = "RUNNING" /\ exec[r].pc \in {"WORKING", "DEAD"}
      /\ worker[r].attempts < exec[r].left
      /\ sent' = [sent EXCEPT ![r][m] = @ + 1] /\ worker' = [worker EXCEPT ![r] = w]
      /\ UNCHANGED <<now, policy, launch, holder, permit, exec, faults>>
  BY DEF Answered, Asks, HasAllowance
<1>2. w \in WorkerRows /\ w.attempts = worker[r].attempts + 1
  BY DEF WorkerRows
<1> HIDE DEF w
<1>3. /\ worker' \in [Runs -> WorkerRows] /\ worker'[r] = w
      /\ \A s \in Runs : s # r => worker'[s] = worker[s]
  BY <1>1, <1>2, MissionFacts
<1>4. /\ sent' \in [Runs -> [Missions -> Nat]] /\ sent'[r][m] = n
      /\ \A s \in Runs : s # r => sent'[s] = sent[s]
      /\ \A k \in Missions : k # m => sent'[r][k] = sent[r][k]
  <2>1. m \in Missions /\ sent \in [Runs -> [Missions -> Nat]] /\ n \in Nat
    BY <1>1, MissionFacts
  <2>2. sent' = [sent EXCEPT ![r][m] = n]
    BY <1>1, <2>1
  <2> HIDE DEF m, n
  <2>3. sent[r] \in [Missions -> Nat] /\ [sent[r] EXCEPT ![m] = n] \in [Missions -> Nat]
    BY <2>1
  <2>4. sent' = [sent EXCEPT ![r] = [sent[r] EXCEPT ![m] = n]]
    BY <2>2
  <2> QED
    BY <2>1, <2>3, <2>4
<1>5. n = x.spent + w.attempts /\ w.attempts <= x.left /\ n \in Nat
  <2> DEFINE a == worker[r].attempts
             k == sent[r][m]
             l == exec[r].left
             e == exec[r].spent
  <2>1. a \in Nat /\ l \in Nat /\ e \in Nat /\ k \in Nat /\ k = e + a /\ a < l
    BY <1>1, MissionFacts
  <2>2. w.attempts = a + 1 /\ n = k + 1 /\ x.spent = e /\ x.left = l
    BY <1>2
  <2> HIDE DEF a, k, l, e, n, x
  <2> QED
    BY <2>1, <2>2
<1>6. /\ x \in ExecRows /\ x.mission = m /\ Mine(r).granted = x.spent + x.left
      /\ exec' \in [Runs -> ExecRows]
  BY <1>1, MissionFacts
<1> HIDE DEF n
<1> QED
  BY <1>1, <1>2, <1>3, <1>4, <1>5, <1>6, MissionStepKeeps

LEMMA EndedType ==
  ASSUME NEW w \in WorkerRows, NEW fate \in Fates
  PROVE  /\ Ended(w, fate) \in WorkerRows /\ Ended(w, fate).attempts = w.attempts
         /\ Ended(w, fate).fate = fate
  BY DEF Ended, NoWorker, WorkerRows, Fates

LEMMA WorkKeeps ==
  ASSUME IInv, NEW r \in Runs, Work(r)
  PROVE  IInv'
<1>1. worker[r] \in WorkerRows
  BY RunFacts
<1>2. \A fate \in Fates : /\ Ended(worker[r], fate) \in WorkerRows
                          /\ Ended(worker[r], fate).attempts = worker[r].attempts
  BY <1>1, EndedType
<1>3. CASE CallTools(r)
  <2>1. PICK touched \in BOOLEAN :
          Answered(r, IF worker[r].turn = MaxTurns THEN Ended(worker[r], "REPORTED")
                      ELSE [worker[r] EXCEPT !.reached = @ \/ touched, !.turn = @ + 1,
                                             !.throttled = 0])
    BY <1>3 DEF CallTools
  <2> DEFINE on == [worker[r] EXCEPT !.reached = @ \/ touched, !.turn = @ + 1, !.throttled = 0]
  <2>2. on \in WorkerRows /\ on.attempts = worker[r].attempts
    <3> DEFINE met == worker[r].reached \/ touched
               turns == worker[r].turn + 1
               y == [worker[r] EXCEPT !.reached = met]
               z == [y EXCEPT !.turn = turns]
    <3>1. met \in BOOLEAN /\ turns \in Nat
      BY <1>1 DEF WorkerRows
    <3>2. on = [z EXCEPT !.throttled = 0]
      BY <1>1 DEF WorkerRows
    <3> HIDE DEF on, met, turns
    <3>3. y \in WorkerRows /\ y.attempts = worker[r].attempts
      BY <1>1, <3>1 DEF WorkerRows
    <3> HIDE DEF y
    <3>4. z \in WorkerRows /\ z.attempts = worker[r].attempts
      BY <3>1, <3>3 DEF WorkerRows
    <3> HIDE DEF z
    <3> QED
      BY <3>2, <3>4 DEF WorkerRows
  <2> HIDE DEF on
  <2>3. "REPORTED" \in Fates
    BY DEF Fates
  <2>4. CASE worker[r].turn = MaxTurns
    BY <1>2, <2>1, <2>3, <2>4, AnsweredKeeps DEF on
  <2>5. CASE worker[r].turn # MaxTurns
    <3>1. Answered(r, on)
      BY <2>1, <2>5 DEF on
    <3> QED
      BY <2>2, <3>1, AnsweredKeeps
  <2> QED
    BY <2>4, <2>5
<1>4. CASE Finish(r) \/ Unavailable(r)
  BY <1>2, <1>4, AnsweredKeeps DEF Finish, Unavailable, Fates
<1>5. CASE Throttle(r)
  <2> DEFINE on == [worker[r] EXCEPT !.throttled = @ + 1]
  <2>1. on \in WorkerRows /\ on.attempts = worker[r].attempts
    BY <1>1 DEF WorkerRows
  <2>2. Answered(r, on)
    BY <1>5 DEF Throttle
  <2> HIDE DEF on
  <2> QED
    BY <2>1, <2>2, AnsweredKeeps
<1>6. ASSUME NEW fate \in Fates, Asks(r), worker' = [worker EXCEPT ![r] = Ended(worker[r], fate)],
             UNCHANGED <<now, policy, launch, holder, permit, exec, sent, faults>>
      PROVE  IInv'
  <2> DEFINE x == exec[r]
             w == Ended(worker[r], fate)
             n == sent[r][Mission(r)]
  <2>1. w \in WorkerRows /\ w.attempts = worker[r].attempts
    BY <1>2
  <2> HIDE DEF w
  <2>2. worker[r].fate = "RUNNING" /\ exec[r].pc \in {"WORKING", "DEAD"}
    BY <1>6 DEF Asks
  <2>3. /\ worker' \in [Runs -> WorkerRows] /\ worker'[r] = w
        /\ \A s \in Runs : s # r => worker'[s] = worker[s]
    BY <1>6, <2>1, <2>2, MissionFacts DEF w
  <2>4. /\ x \in ExecRows /\ x.mission = Mission(r) /\ Mine(r).granted = x.spent + x.left
        /\ exec' \in [Runs -> ExecRows] /\ sent' \in [Runs -> [Missions -> Nat]]
        /\ n \in Nat /\ sent'[r][Mission(r)] = n
        /\ n = x.spent + w.attempts /\ w.attempts <= x.left
    BY <1>6, <2>1, <2>2, MissionFacts
  <2> HIDE DEF n
  <2> QED
    BY <1>6, <2>1, <2>2, <2>3, <2>4, MissionStepKeeps
<1>7. CASE Exhaust(r) \/ Crash(r)
  BY <1>6, <1>7 DEF Exhaust, Crash, Fates
<1> QED
  BY <1>3, <1>4, <1>5, <1>7 DEF Work

LEMMA RotateKeeps ==
  ASSUME IInv, NEW r \in Runs, Rotate(r)
  PROVE  IInv'
<1> DEFINE c == Consumed(r)
           x == [exec[r] EXCEPT !.pc = "ADMITTED", !.spent = c, !.left = Left(r)]
           n == sent[r][Mission(r)]
           w == NoWorker
<1>1. /\ exec[r].pc = "WORKING" /\ c < Mine(r).granted
      /\ exec' = [exec EXCEPT ![r] = x] /\ worker' = [worker EXCEPT ![r] = w]
      /\ UNCHANGED <<now, policy, launch, holder, permit, sent, faults>>
  BY DEF Rotate, MayRotate
<1>2. /\ n \in Nat /\ n = c /\ c \in Nat /\ Left(r) = Mine(r).granted - c /\ Mine(r).granted \in Nat
      /\ Left(r) \in Nat /\ Mine(r).granted = c + Left(r)
  BY <1>1, MissionFacts DEF Left, Consumed
<1> DEFINE y == [exec[r] EXCEPT !.pc = "ADMITTED", !.spent = c]
<1> HIDE DEF c
<1>3. /\ y \in ExecRows /\ y.pc = "ADMITTED" /\ y.mission = exec[r].mission /\ y.spent = c
      /\ y.since = exec[r].since /\ y.why = exec[r].why
  BY <1>2, RunFacts DEF ExecRows, Stages
<1>4. x = [y EXCEPT !.left = Left(r)]
  BY RunFacts DEF ExecRows
<1> HIDE DEF x, y
<1>5. /\ x \in ExecRows /\ x.pc = "ADMITTED" /\ x.mission = Mission(r) /\ x.spent = c
      /\ x.left = Left(r) /\ x.since = exec[r].since /\ x.why = exec[r].why
  BY <1>2, <1>3, <1>4 DEF ExecRows, Mission
<1>6. w \in WorkerRows /\ w.attempts = 0
  BY DEF NoWorker, WorkerRows, Fates
<1>7. /\ exec' \in [Runs -> ExecRows] /\ exec'[r] = x /\ \A s \in Runs : s # r => exec'[s] = exec[s]
      /\ worker' \in [Runs -> WorkerRows] /\ worker'[r] = w
      /\ \A s \in Runs : s # r => worker'[s] = worker[s]
      /\ sent' \in [Runs -> [Missions -> Nat]] /\ sent'[r][Mission(r)] = n
  BY <1>1, <1>5, <1>6, MissionFacts
<1>8. n = x.spent + w.attempts /\ Mine(r).granted = x.spent + x.left /\ w.attempts <= x.left
  <2> DEFINE g == Mine(r).granted
             l == Left(r)
  <2>1. n = c /\ c \in Nat /\ l \in Nat /\ g = c + l
    BY <1>2
  <2>2. x.spent = c /\ x.left = l /\ w.attempts = 0
    BY <1>5, <1>6
  <2> HIDE DEF n, w, l, g
  <2>3. n = x.spent + w.attempts /\ g = x.spent + x.left /\ w.attempts <= x.left
    BY <2>1, <2>2
  <2> QED
    BY <2>3 DEF g
<1> HIDE DEF n
<1> QED
  BY <1>1, <1>2, <1>5, <1>6, <1>7, <1>8, MissionStepKeeps

LEMMA NextMissionKeeps ==
  ASSUME IInv, NEW r \in Runs, NextMission(r)
  PROVE  IInv'
<1> DEFINE m == Mission(r)
<1>1. /\ exec[r].pc = "RECORDED" /\ worker[r] = NoWorker
      /\ UNCHANGED <<now, policy, holder, permit, worker, sent, faults>>
      /\ m \in Missions /\ m = exec[r].mission /\ m \in Nat
      /\ \A k \in Missions : k \in Nat
      /\ \A k \in Missions : k > m => permit[r][k] = NoPermit
  BY RunFacts DEF NextMission, ProcessStands, Mission, Missions
<1>2. CASE m < MissionCount
  <2> DEFINE x == [exec[r] EXCEPT !.pc = "READY", !.mission = m + 1]
  <2>1. exec' = [exec EXCEPT ![r] = x] /\ UNCHANGED launch
    BY <1>1, <1>2, RunFacts DEF NextMission, ExecRows
  <2>2. /\ x \in ExecRows /\ x.pc = "READY" /\ x.mission = m + 1 /\ x.since = exec[r].since
        /\ x.why = exec[r].why
    <3>1. m + 1 \in Missions
      BY <1>1, <1>2 DEF Missions
    <3> HIDE DEF m
    <3> QED
      BY <3>1, RunFacts DEF ExecRows, Stages
  <2> HIDE DEF x
  <2>3. FieldsOK' /\ Own(r) /\ exec'[r] = x
    BY <1>1, <2>1, <2>2, RunFacts, WritesExec
  <2>4. ProcessStands(r)'
    <3>1. Mission(r)' = m + 1
      BY <2>2, <2>3 DEF Mission
    <3>2. ProcessStands(r) /\ worker'[r] = NoWorker /\ now' = now
      BY <1>1, RunFacts
    <3>3. \A k \in Missions : k > m + 1 \/ k = m + 1 => permit'[r][k] = NoPermit
      BY <1>1
    <3>4. exec[r].since <= now /\ exec[r].why = "NONE"
      BY <1>1, <3>2 DEF ProcessStands
    <3>5. NoWorker.fate # "RUNNING"
      BY DEF NoWorker
    <3> HIDE DEF m
    <3> QED
      BY <2>2, <2>3, <3>1, <3>2, <3>3, <3>4, <3>5 DEF ProcessStands
  <2>5. HolderStands(r)'
    BY <2>2, <2>3 DEF HolderStands
  <2>6. ExecutingLaunches' = ExecutingLaunches
    BY <2>1 DEF ExecutingLaunches
  <2> QED
    BY <1>1, <2>2, <2>3, <2>4, <2>5, <2>6, RunFacts, QuietKeeps
<1>3. CASE ~ (m < MissionCount)
  <2> DEFINE x == [Idle EXCEPT !.pc = "OVER"]
  <2>1. /\ exec' = [exec EXCEPT ![r] = x]
        /\ launch' = [launch EXCEPT ![r] = IF r \in LaunchRuns THEN "COMPLETED" ELSE @]
    BY <1>3 DEF NextMission
  <2>2. x \in ExecRows /\ x.pc = "OVER" /\ x.since = 0 /\ x.why = "NONE"
    BY DEF Idle, ExecRows, Stages, Missions, Reasons
  <2> HIDE DEF x
  <2>3. launch' \in LaunchTable /\ ExecutingLaunches' \subseteq ExecutingLaunches
    BY <2>1, RunFacts DEF LaunchTable, ExecutingLaunches
  <2>4. FieldsOK' /\ Own(r) /\ exec'[r] = x
    BY <1>1, <2>1, <2>2, <2>3, RunFacts, WritesExec
  <2>5. ProcessStands(r)'
    BY <1>1, <2>2, <2>4, RunFacts DEF ProcessStands, NoWorker
  <2>6. HolderStands(r)'
    BY <2>2, <2>4 DEF HolderStands
  <2> QED
    BY <1>1, <2>2, <2>3, <2>4, <2>5, <2>6, RunFacts, QuietKeeps
<1> QED
  BY <1>2, <1>3

LEMMA DieKeeps ==
  ASSUME IInv, NEW r \in Runs, Die(r)
  PROVE  IInv'
<1> DEFINE x == [exec[r] EXCEPT !.pc = "DEAD", !.since = 0, !.offer = 0]
<1>1. /\ exec[r].pc \notin {"IDLE", "OVER", "DEAD"} /\ faults' \in 0..MaxFaults
      /\ exec' = [exec EXCEPT ![r] = x]
      /\ holder' = IF holder = r THEN None ELSE holder
      /\ UNCHANGED <<now, policy, launch, permit, worker, sent>>
  <2>1. exec' = [exec EXCEPT ![r].pc = "DEAD", ![r].since = 0, ![r].offer = 0]
    BY DEF Die
  <2>2. exec \in [Runs -> ExecRows]
    BY DEF IInv, FieldsOK
  <2>3. exec' = [exec EXCEPT ![r] = x]
    BY <2>1, <2>2 DEF ExecRows
  <2>4. faults' \in 0..MaxFaults
    BY RunFacts DEF Die
  <2> HIDE DEF x
  <2> QED
    BY <2>3, <2>4 DEF Die
<1>2. /\ x \in ExecRows /\ x.pc = "DEAD" /\ x.mission = exec[r].mission /\ x.since = 0
      /\ x.why = exec[r].why /\ x.spent = exec[r].spent /\ x.left = exec[r].left
  BY RunFacts DEF ExecRows, Stages
<1> HIDE DEF x
<1>3. holder' \in Runs \cup {None}
  BY <1>1, RunFacts
<1>4. FieldsOK' /\ Own(r) /\ exec'[r] = x
  BY <1>1, <1>2, <1>3, RunFacts, WritesExec
<1>5. ProcessStands(r)'
  <2>1. /\ Mission(r)' = Mission(r) /\ Mine(r)' = Mine(r) /\ Consumed(r)' = Consumed(r)
    BY <1>1, <1>2, <1>4 DEF Mission, Mine, Consumed
  <2>2. /\ ProcessStands(r) /\ Mission(r) \in Nat /\ \A k \in Missions : k \in Nat
        /\ now \in Nat
    BY RunFacts DEF Missions
  <2>3. \A k \in Missions : k > Mission(r) => permit'[r][k] = NoPermit
    BY <1>1, <2>2 DEF ProcessStands
  <2>4. ~(exec'[r].pc \in BeforePermit) /\ exec'[r].pc = "DEAD"
    BY <1>2, <1>4 DEF BeforePermit
  <2>5. worker[r].fate = "RUNNING" =>
          /\ Mine(r).state = "RESERVED" /\ Mine(r).granted = exec[r].spent + exec[r].left
          /\ sent[r][Mission(r)] = Consumed(r) /\ worker[r].attempts <= exec[r].left
    BY <2>2 DEF ProcessStands
  <2>6. exec'[r].why = "NONE"
    BY <1>1, <1>2, <1>4, <2>2 DEF ProcessStands
  <2>7. \A k \in Missions :
          exec'[r].pc # "OVER" /\ (k > Mission(r)' \/ (k = Mission(r)' /\ exec'[r].pc \in BeforePermit))
            => permit'[r][k] = NoPermit
    BY <2>1, <2>3, <2>4
  <2>8. exec'[r].since <= now'
    BY <1>1, <1>2, <1>4, <2>2
  <2>9. worker'[r].fate = "RUNNING" =>
          /\ Mine(r)'.state = "RESERVED" /\ Mine(r)'.granted = exec'[r].spent + exec'[r].left
          /\ sent'[r][Mission(r)'] = Consumed(r)' /\ worker'[r].attempts <= exec'[r].left
    BY <1>1, <1>2, <1>4, <2>1, <2>5
  <2> QED
    BY <2>4, <2>6, <2>7, <2>8, <2>9 DEF ProcessStands
<1>6. HolderStands(r)'
  BY <1>2, <1>4 DEF HolderStands
<1>7. ExecutingLaunches' = ExecutingLaunches
  BY <1>1 DEF ExecutingLaunches
<1> QED
  BY <1>1, <1>2, <1>4, <1>5, <1>6, <1>7, RunFacts, QuietKeeps

LEMMA OperatorSettlesKeeps ==
  ASSUME IInv, NEW r \in Runs, OperatorSettles(r)
  PROVE  IInv'
<1>1. /\ launch' = [launch EXCEPT ![r] = "FAILED"] /\ exec[r].pc = "DEAD"
      /\ UNCHANGED <<now, policy, holder, permit, exec, worker, sent, faults>>
  BY DEF OperatorSettles
<1>2. launch' \in LaunchTable /\ ExecutingLaunches' \subseteq ExecutingLaunches
  BY <1>1, RunFacts DEF LaunchTable, ExecutingLaunches
<1>3. FieldsOK' /\ Own(r)
  BY <1>1, <1>2 DEF IInv, FieldsOK, LaunchTable, Own, Differ
<1>4. ProcessStands(r)' /\ HolderStands(r)'
  BY <1>1, RunFacts DEF ProcessStands, HolderStands, Mission, Mine, Consumed
<1> QED
  BY <1>1, <1>2, <1>3, <1>4, RunFacts, QuietKeeps

-----------------------------------------------------------------------------
(***************************************************************************)
(* The clock, the operator's policy, and the behaviours.                   *)
(***************************************************************************)

\* A tick opens no permit, and those it finds in force were in force before.
LEMMA TickKeeps ==
  ASSUME IInv, Tick
  PROVE  IInv'
<1>1. /\ now' = now + 1 /\ now' \in 0..MaxNow /\ now \in Nat /\ now' \in Nat
      /\ UNCHANGED <<policy, launch, holder, permit, exec, worker, sent, faults>>
  BY DEF Tick, IInv, FieldsOK
<1>2. FieldsOK'
  BY <1>1 DEF IInv, FieldsOK
<1>3. PermitsKnow'
  <2>1. ASSUME NEW r \in Runs, NEW m \in Missions PROVE PermitStands(permit[r][m], sent[r][m], now + 1)
    <3>1. PermitStands(permit[r][m], sent[r][m], now) /\ permit[r][m].opened \in Nat
      BY FieldsFacts DEF IInv, PermitsKnow, Tables, PermitRows
    <3> QED
      BY <1>1, <3>1 DEF PermitStands
  <2> QED
    BY <1>1, <2>1 DEF PermitsKnow
<1>4. ProcessesKnow'
  <2>1. ASSUME NEW r \in Runs PROVE ProcessStands(r)'
    <3>1. ProcessStands(r) /\ exec[r].since \in Nat
      BY FieldsFacts DEF IInv, ProcessesKnow, ExecRows
    <3> QED
      BY <1>1, <3>1 DEF ProcessStands, Mission, Mine, Consumed
  <2> QED
    BY <2>1 DEF ProcessesKnow
<1>5. /\ \A r \in Runs : RunCharge(r)' = RunCharge(r)
      /\ \A t \in Nat : WindowCharge(t)' = WindowCharge(t)
      /\ \A t \in Nat : ChargeOver(InForce(t))' = ChargeOver(InForce(t))
      /\ ExecutingLaunches' = ExecutingLaunches
  BY <1>1, Tabled DEF ExecutingLaunches
<1>6. HolderKnows'
  <2>1. ASSUME NEW r \in Runs PROVE HolderStands(r)'
    <3>1. HolderStands(r) /\ exec[r].since \in Nat /\ exec[r].since <= now
      BY FieldsFacts DEF IInv, HolderKnows, ProcessesKnow, ProcessStands, ExecRows
    <3>2. \A t \in 0..now' : t = exec[r].since => t \in 0..now /\ t \in Nat
      BY <1>1, <3>1
    <3> QED
      BY <1>1, <1>5, <3>1, <3>2 DEF HolderStands
  <2> QED
    BY <2>1 DEF HolderKnows
<1>7. WindowIsKept'
  <2>1. permit \in Tables
    BY FieldsFacts DEF IInv
  <2>2. \A t \in 0..now : ForceTotal(permit, t) <= LargestCap
    BY Tabled DEF IInv, WindowIsKept
  <2>3. InForceIn(permit, now + 1) \in SUBSET InForceIn(permit, now)
    <3>1. ASSUME NEW r \in Runs, NEW m \in Missions
          PROVE  permit[r][m].opened \in Nat /\ permit[r][m].opened <= now
      BY FieldsFacts DEF IInv, PermitsKnow, PermitStands, Tables, PermitRows
    <3>2. \A k \in Slots : /\ permit[k[1]][k[2]].opened \in Nat
                           /\ permit[k[1]][k[2]].opened <= now
      BY <3>1 DEF Slots
    <3> QED
      BY <1>1, <3>2 DEF InForceIn, CountedIn
  <2>4. InForceIn(permit, now) \in SUBSET Slots
    BY DEF InForceIn, CountedIn
  <2>5. ForceTotal(permit, now + 1) <= ForceTotal(permit, now)
    BY <2>1, <2>3, <2>4, ChargesType, SlotsFinite, SumMonotone DEF ForceTotal
  <2>6. /\ ForceTotal(permit, now + 1) \in Nat /\ ForceTotal(permit, now) \in Nat
        /\ LargestCap \in Nat /\ now \in 0..now
    BY <1>1, <2>1, TotalsType, PolicyFacts DEF IInv, FieldsOK
  <2>7. ForceTotal(permit, now + 1) <= LargestCap
    BY <2>2, <2>5, <2>6
  <2>8. \A t \in 0..now' : ForceTotal(permit', t) <= LargestCap
    BY <1>1, <2>2, <2>7
  <2> QED
    BY <2>8, Tabled DEF WindowIsKept
<1>8. BudgetIsHonest'
  BY <1>1, <1>5 DEF IInv, BudgetIsHonest
<1>9. Cardinality(ExecutingLaunches)' <= Concurrency
  BY <1>5 DEF IInv
<1> QED
  BY <1>2, <1>3, <1>4, <1>6, <1>7, <1>8, <1>9 DEF IInv

\* No conjunct but the fields' names the policy in force.
LEMMA SetPolicyKeeps ==
  ASSUME IInv, policy' \in Policies,
         UNCHANGED <<now, launch, holder, permit, exec, worker, sent, faults>>
  PROVE  IInv'
<1>1. FieldsOK'
  BY DEF IInv, FieldsOK
<1>2. PermitsKnow'
  BY DEF IInv, PermitsKnow
<1>3. ProcessesKnow'
  BY DEF IInv, ProcessesKnow, ProcessStands, Mission, Mine, Consumed
<1>4. /\ \A r \in Runs : RunCharge(r)' = RunCharge(r)
      /\ \A t : WindowCharge(t)' = WindowCharge(t)
      /\ \A t : ChargeOver(InForce(t))' = ChargeOver(InForce(t))
      /\ ExecutingLaunches' = ExecutingLaunches
  BY Tabled DEF ExecutingLaunches
<1>5. HolderKnows'
  BY <1>4 DEF IInv, HolderKnows, HolderStands
<1>6. WindowIsKept' /\ BudgetIsHonest' /\ Cardinality(ExecutingLaunches)' <= Concurrency
  BY <1>4 DEF IInv, WindowIsKept, BudgetIsHonest
<1> QED
  BY <1>1, <1>2, <1>3, <1>5, <1>6 DEF IInv

LEMMA InitIInv == Init => IInv
<1> SUFFICES ASSUME Init PROVE IInv
  OBVIOUS
<1>1. NoPermit \in PermitRows /\ NoWorker \in WorkerRows /\ NoWorker.fate = "NONE"
  BY DEF NoPermit, PermitRows, PermitStates, NoWorker, WorkerRows, Fates
<1>2. ASSUME NEW r \in Runs
      PROVE  /\ exec[r] \in ExecRows /\ exec[r].pc \in {"IDLE", "READY"} /\ exec[r].since = 0
             /\ exec[r].why = "NONE"
  <2> DEFINE x == [Idle EXCEPT !.pc = IF launch[r] = "QUEUED" THEN "IDLE" ELSE "READY"]
  <2>1. exec[r] = x
    BY DEF Init
  <2>2. 1 \in Missions
    BY DEF Missions
  <2> QED
    BY <2>1, <2>2 DEF Idle, ExecRows, Stages, Reasons
<1>3. FieldsOK
  BY <1>1, <1>2 DEF Init, FieldsOK
<1>4. PermitsKnow
  <2>1. PermitStands(NoPermit, 0, 0)
    BY DEF PermitStands, NoPermit, Charge
  <2> QED
    BY <2>1 DEF Init, PermitsKnow
<1>5. ProcessesKnow
  <2>1. ASSUME NEW r \in Runs PROVE ProcessStands(r)
    <3>1. /\ \A k \in Missions : permit[r][k] = NoPermit
          /\ worker[r] = NoWorker /\ now = 0
      BY DEF Init
    <3> QED
      BY <1>1, <1>2, <3>1 DEF ProcessStands
  <2> QED
    BY <2>1 DEF ProcessesKnow
<1>6. HolderKnows
  BY <1>2 DEF HolderKnows, HolderStands
<1>7. \A T \in SUBSET Slots : SumFunctionOnSet(ChargesOf(permit), T) = 0
  <2>1. ASSUME NEW T \in SUBSET Slots PROVE SumFunctionOnSet(ChargesOf(permit), T) = 0
    <3>1. ChargesOf(permit) \in [Slots -> Nat]
      BY <1>3, FieldsFacts, ChargesType
    <3>2. \A k \in T : ChargesOf(permit)[k] = 0
      BY DEF Init, ChargesOf, Slots, Charge, NoPermit
    <3>3. IsFiniteSet(T) /\ Cardinality(T) \in Nat
      BY SlotsFinite, FS_CardinalityType
    <3>4. SumFunctionOnSet(ChargesOf(permit), T) <= Cardinality(T) * 0
      <4>1. 0 \in Nat /\ \A k \in T : ChargesOf(permit)[k] <= 0
        BY <3>2
      <4> QED
        BY <3>1, <3>3, <4>1, SumBound
    <3>5. SumFunctionOnSet(ChargesOf(permit), T) \in Nat
      BY <3>1, <3>3, SumType
    <3> QED
      BY <3>3, <3>4, <3>5
  <2> QED
    BY <2>1
<1>8. LargestCap \in Nat /\ Concurrency \in Nat
  BY <1>3, PolicyFacts DEF FieldsOK
<1>9. WindowIsKept
  <2>1. \A t : InForceIn(permit, t) \in SUBSET Slots
    BY DEF InForceIn, CountedIn
  <2>2. \A t : ForceTotal(permit, t) = 0
    BY <1>7, <2>1 DEF ForceTotal
  <2> QED
    BY <1>8, <2>2, Tabled DEF WindowIsKept
<1>10. BudgetIsHonest
  <2>1. \A r \in Runs : RunTotal(permit, r) = 0
    BY <1>7, SlotsFinite DEF RunTotal
  <2> QED
    BY <1>2, <2>1, Tabled, BudgetFacts DEF BudgetIsHonest
<1>11. Cardinality(ExecutingLaunches) <= Concurrency
  <2>1. ExecutingLaunches = {}
    BY DEF Init, ExecutingLaunches
  <2> QED
    BY <1>8, <2>1, FS_EmptySet
<1> QED
  BY <1>3, <1>4, <1>5, <1>6, <1>9, <1>10, <1>11 DEF IInv

LEMMA NextKeeps == IInv /\ [Next]_vars => IInv'
<1> SUFFICES ASSUME IInv, [Next]_vars PROVE IInv'
  OBVIOUS
<1>1. CASE Tick
  BY <1>1, TickKeeps
<1>2. CASE SetPolicy
  BY <1>2, SetPolicyKeeps DEF SetPolicy
<1>3. ASSUME NEW r \in Runs, Process(r) PROVE IInv'
  BY <1>3, AdmitLaunchKeeps, BindKeeps, ArriveKeeps, HaltRunKeeps, ReckonKeeps, ReserveKeeps,
     SpawnKeeps, UnstartedKeeps, RotateKeeps, CollectKeeps, NextMissionKeeps DEF Process
<1>4. ASSUME NEW r \in Runs, Work(r) \/ Die(r) \/ OperatorSettles(r) PROVE IInv'
  BY <1>4, WorkKeeps, DieKeeps, OperatorSettlesKeeps
<1>5. CASE UNCHANGED vars
  <2>1. policy' \in Policies
    BY <1>5 DEF vars, IInv, FieldsOK
  <2> QED
    BY <1>5, <2>1, SetPolicyKeeps DEF vars
<1> QED
  BY <1>1, <1>2, <1>3, <1>4, <1>5 DEF Next

\* The inductive invariant: what each stage of a run knows of its permit, of its worker
\* and of the provider's lock.
LEMMA Invariance == Spec => []IInv
  BY InitIInv, NextKeeps, PTL DEF Spec

-----------------------------------------------------------------------------
(***************************************************************************)
(* The theorems.                                                           *)
(***************************************************************************)

LEMMA AccountedFromIInv == IInv => SpendingIsAccounted
<1> SUFFICES ASSUME IInv PROVE SpendingIsAccounted
  OBVIOUS
<1>1. ASSUME NEW r \in Runs, NEW m \in Missions
      PROVE  /\ permit[r][m] \in PermitRows /\ PermitStands(permit[r][m], sent[r][m], now)
             /\ sent[r][m] \in Nat /\ Charge(permit[r][m]) \in Nat
  BY ChargeType DEF IInv, FieldsOK, PermitsKnow
<1>2. GovernanceTypeOK
  BY <1>1 DEF GovernanceTypeOK, IInv, FieldsOK, PermitStands, PermitRows
<1>3. SpendingIsCovered
  <2>1. ASSUME NEW r \in Runs, NEW m \in Missions
        PROVE  /\ sent[r][m] <= permit[r][m].granted
               /\ sent[r][m] <= Charge(permit[r][m]) \/ ReleasedAfterSpending(r, m)
    BY <1>1 DEF PermitStands, ReleasedAfterSpending
  <2> QED
    BY <2>1 DEF SpendingIsCovered
<1> QED
  BY <1>2, <1>3 DEF SpendingIsAccounted, IInv

\* However the processes of a mission end and whichever credentials they use, what they
\* send was granted; what was granted is charged, but for a permit released after an
\* earlier process spent; and no run is charged more than its launch froze
\* (benchmark/permits.py, isolation.py, worker.py).
THEOREM SpendingAccounted == Spec => []SpendingIsAccounted
  BY Invariance, AccountedFromIInv, PTL

LEMMA SharedFromIInv == IInv => ProviderIsShared
<1> SUFFICES ASSUME IInv PROVE ProviderIsShared
  OBVIOUS
<1> DEFINE alive == {r \in LaunchRuns : launch[r] = "EXECUTING" /\ exec[r].pc # "DEAD"}
<1>1. alive \in SUBSET ExecutingLaunches
  BY DEF LaunchRuns, ExecutingLaunches
<1>2. IsFiniteSet(ExecutingLaunches)
  BY FieldsFacts DEF IInv
<1> HIDE DEF alive
<1>3. /\ Cardinality(alive) <= Cardinality(ExecutingLaunches)
      /\ Cardinality(alive) \in Nat /\ Cardinality(ExecutingLaunches) \in Nat
  BY <1>1, <1>2, FS_Subset, FS_CardinalityType
<1>4. Concurrency \in Nat /\ Cardinality(ExecutingLaunches) <= Concurrency
  BY PolicyFacts DEF IInv, FieldsOK
<1>5. Cardinality(alive) <= Concurrency
  BY <1>3, <1>4
<1> QED
  BY <1>5 DEF alive, LaunchesShareProvider, ProviderIsShared, IInv

\* However runs of launches and of operators interleave between reading the clock, waiting
\* for the provider's lock and writing, no window is granted more than the operator ever
\* allowed, and no more launches execute than the provider takes (benchmark/permits.py,
\* capacity.py).
THEOREM ProviderShared == Spec => []ProviderIsShared
  BY Invariance, SharedFromIInv, PTL

=============================================================================
