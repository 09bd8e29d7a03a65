----------------------- MODULE EvaluationLaunchesProofs -----------------------
(***************************************************************************)
(* Proofs about the evaluations of a merchant: launches and runs agree, a  *)
(* run owns the world while it executes, no dispatcher walks away from its *)
(* run, and what is finished is frozen.                                    *)
(***************************************************************************)
EXTENDS EvaluationLaunches, FiniteSetTheorems, TLAPS

USE LaunchAssumption

LaunchRows == [status : LaunchStates, run : Runs \cup {None}]
RunRows == [status : RunStates, begun : 0..Missions, recorded : 0..Missions]
DispatcherRows == [pc : Steps, launch : Launches \cup {None}, run : Runs \cup {None},
                   seen : LaunchStates, said : {"nothing", "queued"}]

LEMMA RowTypes ==
  LaunchTypeOK <=> /\ launch \in [Launches -> LaunchRows]
                   /\ run \in [Runs -> RunRows]
                   /\ shelf \in [owner : Runs \cup {None}, strays : [Callers -> 0..2]]
                   /\ dispatcher \in [Dispatchers -> DispatcherRows]
                   /\ request \in [Callers -> Runs \cup {None, "ordinary"}]
                   /\ faults \in 0..MaxFaults
  BY DEF LaunchTypeOK, LaunchRows, RunRows, DispatcherRows

-----------------------------------------------------------------------------
(***************************************************************************)
(* What one dispatcher does leaves the others where they are.              *)
(***************************************************************************)

\* Nothing but the run w drives, and a run nobody has started, is written.
Considerate(w) ==
    /\ \A u \in Dispatchers : u # w => dispatcher'[u] = dispatcher[u]
    /\ \A r \in Runs : r = dispatcher[w].run \/ run'[r] = run[r] \/ run[r] = NoRun
    /\ \A l \in Launches : \/ launch'[l].run = launch[l].run
                           \/ launch[l].run = None /\ launch'[l].run = dispatcher[w].run
    /\ shelf'.owner = shelf.owner \/ Active \subseteq {dispatcher[w].run}
    /\ faults <= faults'

LEMMA OthersStand ==
  ASSUME IInv, LaunchTypeOK', NEW w \in Dispatchers, Considerate(w),
         NEW u \in Dispatchers, u # w
  PROVE  DispatcherStands(u)'
<1> DEFINE d == dispatcher[u]
<1>1. /\ dispatcher'[u] = d
      /\ d \in DispatcherRows
      /\ DispatcherStands(u)
      /\ d.run # None => d.run # dispatcher[w].run
      /\ faults <= faults' /\ faults \in Nat /\ faults' \in Nat
  <2>1. dispatcher'[u] = d /\ faults <= faults'
    BY DEF Considerate
  <2>2. d \in DispatcherRows
    BY RowTypes DEF IInv
  <2>3. DispatcherStands(u) /\ (d.run # None => d.run # dispatcher[w].run)
    BY DEF IInv, DispatcherKnows
  <2>4. faults \in Nat /\ faults' \in Nat
    BY DEF IInv, LaunchTypeOK
  <2> QED
    BY <2>1, <2>2, <2>3, <2>4
<1>2. CASE d.run = None
  BY <1>1, <1>2 DEF DispatcherStands
<1>3. CASE d.run # None
  <2>1. d.run \in Runs /\ run[d.run].status # "ABSENT" /\ d.launch \in Launches
    BY <1>1, <1>3 DEF DispatcherStands, DispatcherRows
  <2>2. run'[d.run] = run[d.run]
    BY <1>1, <1>3, <2>1 DEF Considerate, NoRun
  <2>3. \A l \in Launches : launch[l].run # d.run => launch'[l].run # d.run
    BY <1>1, <1>3 DEF Considerate
  <2>4. launch[d.launch].run = d.run => launch'[d.launch].run = d.run
    BY <1>1, <1>3, <2>1 DEF Considerate
  <2>5. run[d.run].status = "RUNNING" => shelf'.owner = shelf.owner
    BY <1>1, <1>3, <2>1 DEF Considerate, Active
  <2> QED
    BY <1>1, <1>3, <2>2, <2>3, <2>4, <2>5 DEF DispatcherStands
<1> QED
  BY <1>2, <1>3

LEMMA DispatchersStep ==
  ASSUME IInv, LaunchTypeOK', NEW w \in Dispatchers, Considerate(w), DispatcherStands(w)',
         \/ dispatcher'[w].run \in {None, dispatcher[w].run}
         \/ dispatcher'[w].run \in Runs /\ run[dispatcher'[w].run] = NoRun
  PROVE  DispatcherKnows'
<1>1. \A u \in Dispatchers : DispatcherStands(u)'
  BY OthersStand
<1>2. ASSUME NEW v \in Dispatchers, NEW u \in Dispatchers,
             dispatcher'[v].run # None, dispatcher'[v].run = dispatcher'[u].run, v # u
      PROVE  FALSE
  <2>1. \A x \in Dispatchers : x # w => dispatcher'[x] = dispatcher[x]
    BY DEF Considerate
  <2>2. \A x, y \in Dispatchers :
          dispatcher[x].run # None /\ dispatcher[x].run = dispatcher[y].run => x = y
    BY DEF IInv, DispatcherKnows
  <2>3. \A x \in Dispatchers : dispatcher[x].run # None => run[dispatcher[x].run] # NoRun
    BY DEF IInv, DispatcherKnows, DispatcherStands, NoRun
  <2> QED
    BY <1>2, <2>1, <2>2, <2>3
<1> QED
  BY <1>1, <1>2 DEF DispatcherKnows

\* Runs and launches as they are leave what is known of them as it is.
LEMMA RowsStand ==
  ASSUME IInv, UNCHANGED <<launch, run>>
  PROVE  LaunchKnows' /\ RunKnows'
  BY DEF IInv, LaunchKnows, RunKnows, Active

LEMMA StraysStand ==
  ASSUME IInv, UNCHANGED <<shelf, request>>, Active' \in {Active, {}}
  PROVE  StrayKnows'
  BY DEF IInv, StrayKnows

\* Who is driven still is, unless it executes no longer, and what begins to execute is driven.
LEMMA StillDriven ==
  ASSUME IInv, faults' = 0 => faults = 0,
         \A r \in Runs : (\E u \in Dispatchers : dispatcher[u].run = r) =>
           \/ \E u \in Dispatchers : dispatcher'[u].run = r
           \/ /\ run'[r].status # "RUNNING"
              /\ \A l \in Launches : launch'[l].run = r => launch'[l].status # "EXECUTING",
         \A r \in Runs : run'[r].status = "RUNNING" =>
           run[r].status = "RUNNING" \/ \E u \in Dispatchers : dispatcher'[u].run = r,
         \A l \in Launches : launch'[l].status = "EXECUTING" =>
           \/ launch[l].status = "EXECUTING" /\ launch'[l].run = launch[l].run
           \/ \E u \in Dispatchers : dispatcher'[u].run = launch'[l].run
  PROVE  NobodyWalksAway'
<1>1. CASE faults' # 0
  BY <1>1 DEF NobodyWalksAway
<1>2. CASE faults' = 0
  <2>1. \A r \in Runs : run[r].status = "RUNNING" => \E u \in Dispatchers : dispatcher[u].run = r
    BY <1>2 DEF IInv, NobodyWalksAway, Active, Driven
  <2>2. \A l \in Launches : launch[l].status = "EXECUTING" =>
          launch[l].run \in Runs /\ \E u \in Dispatchers : dispatcher[u].run = launch[l].run
    BY <1>2 DEF IInv, NobodyWalksAway, Driven, LaunchTypeOK, LaunchKnows
  <2>3. \A r \in Active' : \E u \in Dispatchers : dispatcher'[u].run = r
    BY <2>1 DEF Active
  <2>4. \A l \in Launches : launch'[l].status = "EXECUTING" =>
          \E u \in Dispatchers : dispatcher'[u].run = launch'[l].run
    BY <2>2
  <2> QED
    BY <2>3, <2>4 DEF NobodyWalksAway, Driven
<1> QED
  BY <1>1, <1>2

-----------------------------------------------------------------------------
(***************************************************************************)
(* Merchant and operator.                                                  *)
(***************************************************************************)

\* A launch that waits is given another status, and still names no run.
Relabelled(l, status) ==
    /\ launch[l].status \in {"ABSENT", "QUEUED"} /\ status \in {"QUEUED", "FAILED"}
    /\ launch' = [launch EXCEPT ![l].status = status]
    /\ UNCHANGED <<run, shelf, dispatcher, request, faults>>

LEMMA RelabelledKeeps ==
  ASSUME IInv, NEW l \in Launches, NEW status, Relabelled(l, status)
  PROVE  IInv'
<1>1. LaunchTypeOK'
  BY DEF IInv, LaunchTypeOK, Relabelled, LaunchStates
<1>2. /\ launch'[l].status = status /\ launch'[l].run = None /\ launch[l].run = None
      /\ \A k \in Launches : k # l => launch'[k] = launch[k]
      /\ \A k \in Launches : launch'[k].run = launch[k].run
  BY DEF IInv, LaunchTypeOK, LaunchKnows, Relabelled
<1>3. UNCHANGED <<run, shelf, dispatcher, request, faults>> /\ status \in {"QUEUED", "FAILED"}
  BY DEF Relabelled
<1>4. LaunchKnows'
  BY <1>2, <1>3 DEF IInv, LaunchKnows
<1>5. RunKnows'
  BY <1>2, <1>3 DEF IInv, RunKnows, Active
<1>6. DispatcherKnows'
  BY <1>2, <1>3 DEF IInv, LaunchTypeOK, DispatcherKnows, DispatcherStands
<1>7. StrayKnows'
  BY <1>3 DEF IInv, StrayKnows, Active
<1>8. NobodyWalksAway'
  BY <1>2, <1>3 DEF IInv, NobodyWalksAway, Active, Driven
<1> QED
  BY <1>1, <1>4, <1>5, <1>6, <1>7, <1>8 DEF IInv

\* A launch that executes is settled as its run ended.
Settling(l, status) ==
    /\ launch[l].status = "EXECUTING"
    /\ \/ status = "COMPLETED" /\ run[launch[l].run].status = "COMPLETED"
       \/ status = "FAILED" /\ run[launch[l].run].status = "ABORTED"
    /\ launch' = [launch EXCEPT ![l].status = status]

LEMMA SettlingWrites ==
  ASSUME IInv, NEW l \in Launches, NEW status, Settling(l, status), UNCHANGED run
  PROVE  /\ launch' \in [Launches -> LaunchRows]
         /\ \A k \in Launches : launch'[k].run = launch[k].run
         /\ \A k \in Launches : launch'[k].status = "EXECUTING" => launch[k].status = "EXECUTING" /\ k # l
         /\ LaunchKnows'
         /\ RunKnows'
<1>1. launch' \in [Launches -> LaunchRows]
  BY DEF IInv, LaunchTypeOK, LaunchRows, Settling, LaunchStates
<1>2. /\ launch'[l].status = status
      /\ \A k \in Launches : k # l => launch'[k] = launch[k]
      /\ \A k \in Launches : launch'[k].run = launch[k].run
  BY DEF IInv, LaunchTypeOK, Settling
<1>3. LaunchKnows'
  BY <1>2 DEF IInv, LaunchKnows, Settling
<1>4. RunKnows'
  BY <1>2 DEF IInv, RunKnows, Active
<1> QED
  BY <1>1, <1>2, <1>3, <1>4 DEF Settling

LEMMA SettleForTerminalRunKeeps ==
  ASSUME IInv, NEW r \in Runs, SettleForTerminalRun(r)
  PROVE  IInv'
<1>1. PICK l \in Launches : \E status : Settling(l, status)
  BY DEF SettleForTerminalRun, Terminal, Settling
<1>2. UNCHANGED <<run, shelf, dispatcher, request, faults>>
  BY DEF SettleForTerminalRun
<1>3. /\ launch' \in [Launches -> LaunchRows]
      /\ \A k \in Launches : launch'[k].run = launch[k].run
      /\ \A k \in Launches : launch'[k].status = "EXECUTING" => launch[k].status = "EXECUTING"
      /\ LaunchKnows' /\ RunKnows'
  BY <1>1, <1>2, SettlingWrites
<1>4. LaunchTypeOK'
  BY <1>2, <1>3 DEF IInv, LaunchTypeOK, LaunchRows
<1>5. DispatcherKnows'
  BY <1>2, <1>3 DEF IInv, LaunchTypeOK, DispatcherKnows, DispatcherStands
<1>6. StrayKnows'
  BY <1>2 DEF IInv, StrayKnows, Active
<1>7. NobodyWalksAway'
  BY <1>2, <1>3 DEF IInv, NobodyWalksAway, Active, Driven
<1> QED
  BY <1>3, <1>4, <1>5, <1>6, <1>7 DEF IInv

LEMMA AbortRunKeeps ==
  ASSUME IInv, NEW r \in Runs, AbortRun(r)
  PROVE  IInv'
<1>1. LaunchTypeOK'
  BY DEF IInv, LaunchTypeOK, AbortRun, RunStates
<1>2. /\ run[r].status = "RUNNING" /\ run'[r].status = "ABORTED"
      /\ run'[r].begun = run[r].begun /\ run'[r].recorded = run[r].recorded
      /\ \A s \in Runs : s # r => run'[s] = run[s]
      /\ Driven(r) => faults' > 0
      /\ ~ Driven(r) => faults' = faults
      /\ faults \in Nat /\ (faults > 0 => faults' > 0)
      /\ UNCHANGED <<launch, shelf, dispatcher, request>>
  BY DEF IInv, LaunchTypeOK, AbortRun
<1>3. LaunchKnows'
  BY <1>2 DEF IInv, LaunchTypeOK, LaunchKnows
<1>4. Active' \subseteq Active /\ r \notin Active'
  BY <1>2 DEF Active
<1>5. RunKnows'
  BY <1>2, <1>4 DEF IInv, RunKnows, Active
<1>6. DispatcherKnows'
  <2>1. ASSUME NEW w \in Dispatchers PROVE DispatcherStands(w)'
    <3>1. DispatcherStands(w)
      BY DEF IInv, DispatcherKnows
    <3>2. CASE dispatcher[w].run = r
      BY <1>2, <3>1, <3>2 DEF DispatcherStands, Driven
    <3>3. CASE dispatcher[w].run \in Runs /\ dispatcher[w].run # r
      BY <1>2, <3>1, <3>3 DEF DispatcherStands
    <3>4. CASE dispatcher[w].run = None
      BY <1>2, <3>1, <3>4 DEF DispatcherStands
    <3> QED
      BY <3>2, <3>3, <3>4 DEF IInv, LaunchTypeOK
  <2> QED
    BY <1>2, <2>1 DEF IInv, DispatcherKnows
<1>7. StrayKnows'
  <2>1. Active' = {}
    BY <1>2, <1>4 DEF IInv, RunKnows, Active
  <2> QED
    BY <1>2, <2>1, StraysStand
<1>8. NobodyWalksAway'
  BY <1>2, <1>4 DEF IInv, NobodyWalksAway, Driven
<1> QED
  BY <1>1, <1>3, <1>5, <1>6, <1>7, <1>8 DEF IInv

-----------------------------------------------------------------------------
(***************************************************************************)
(* A dispatcher moves on, or leaves, and writes no row.                    *)
(***************************************************************************)

\* The process writes nothing of what others see.
Moves(w, d) ==
    /\ Become(w, d)
    /\ UNCHANGED <<launch, run, shelf>>
    /\ faults' \in 0..MaxFaults /\ faults <= faults'
    /\ \A c \in Callers : request'[c] \in {request[c], None}
    /\ request' \in [Callers -> Runs \cup {None, "ordinary"}]

LEMMA MovesKeep ==
  ASSUME IInv, NEW w \in Dispatchers, NEW d \in DispatcherRows, Moves(w, d),
         d.run \in {None, dispatcher[w].run},
         DispatcherStands(w)',
         faults' = 0 => \/ d.run = dispatcher[w].run
                        \/ /\ dispatcher[w].run \notin Active
                           /\ \A l \in Launches : launch[l].run = dispatcher[w].run =>
                                launch[l].status # "EXECUTING"
  PROVE  IInv'
<1>1. /\ dispatcher'[w] = d
      /\ \A u \in Dispatchers : u # w => dispatcher'[u] = dispatcher[u]
      /\ UNCHANGED <<launch, run, shelf>>
      /\ faults \in Nat /\ faults' \in Nat /\ faults <= faults'
  BY DEF IInv, LaunchTypeOK, Moves, Become
<1>2. LaunchTypeOK'
  BY <1>1 DEF IInv, LaunchTypeOK, Moves, Become, DispatcherRows
<1>3. LaunchKnows' /\ RunKnows'
  BY <1>1, RowsStand
<1>4. DispatcherKnows'
  BY <1>1, <1>2, DispatchersStep DEF Considerate
<1>5. StrayKnows'
  BY <1>1 DEF Moves, IInv, StrayKnows, Active
<1>6. NobodyWalksAway'
  <2>1. CASE faults' # 0
    BY <2>1 DEF NobodyWalksAway
  <2>2. CASE faults' = 0
    <3>1. faults = 0 /\ Active' = Active
      BY <1>1, <2>2 DEF Active
    <3>2. ASSUME NEW r \in Runs, Driven(r), r # dispatcher[w].run \/ d.run = dispatcher[w].run
          PROVE  \E u \in Dispatchers : dispatcher'[u].run = r
      BY <1>1, <3>2 DEF Driven
    <3>3. \A r \in Active : \E u \in Dispatchers : dispatcher'[u].run = r
      BY <2>2, <3>1, <3>2 DEF IInv, NobodyWalksAway, Active
    <3>4. ASSUME NEW l \in Launches, launch[l].status = "EXECUTING"
          PROVE  \E u \in Dispatchers : dispatcher'[u].run = launch[l].run
      <4>1. launch[l].run \in Runs
        BY <3>4 DEF IInv, LaunchTypeOK, LaunchKnows
      <4>2. Driven(launch[l].run)
        BY <3>1, <3>4 DEF IInv, NobodyWalksAway
      <4> QED
        BY <2>2, <3>2, <3>4, <4>1, <4>2
    <3> QED
      BY <1>1, <3>1, <3>3, <3>4 DEF NobodyWalksAway, Driven
  <2> QED
    BY <2>1, <2>2
<1> QED
  BY <1>2, <1>3, <1>4, <1>5, <1>6 DEF IInv

LEMMA DispatcherTyped ==
  ASSUME IInv, NEW w \in Dispatchers
  PROVE  /\ dispatcher[w] \in DispatcherRows
         /\ DispatcherStands(w)
         /\ Idle \in DispatcherRows
         /\ [Idle EXCEPT !.said = "queued"] \in DispatcherRows
         /\ \A pc \in Steps : [dispatcher[w] EXCEPT !.pc = pc] \in DispatcherRows
         /\ ~ At(w, "idle") => dispatcher[w].launch \in Launches
         /\ dispatcher[w].run # None => dispatcher[w].run \in Runs /\ run[dispatcher[w].run] \in RunRows
<1>1. dispatcher[w] \in DispatcherRows /\ DispatcherStands(w) /\ run \in [Runs -> RunRows]
  BY RowTypes DEF IInv, DispatcherKnows
<1>2. Idle \in DispatcherRows /\ [Idle EXCEPT !.said = "queued"] \in DispatcherRows
  BY DEF Idle, DispatcherRows, Steps, LaunchStates
<1>3. \A pc \in Steps : [dispatcher[w] EXCEPT !.pc = pc] \in DispatcherRows
  BY <1>1 DEF DispatcherRows
<1>4. /\ ~ At(w, "idle") => dispatcher[w].launch \in Launches
      /\ dispatcher[w].run # None => dispatcher[w].run \in Runs
  BY <1>1 DEF DispatcherRows, DispatcherStands, At
<1> QED
  BY <1>1, <1>2, <1>3, <1>4

LEMMA ClaimKeeps ==
  ASSUME IInv, NEW w \in Dispatchers, NEW l \in Launches, Claim(w, l)
  PROVE  IInv'
<1> DEFINE d == [Idle EXCEPT !.pc = "claimed", !.launch = l]
<1>1. d \in DispatcherRows /\ d.run = None /\ d.pc = "claimed" /\ d.launch = l
  BY DEF Idle, DispatcherRows, Steps, LaunchStates
<1>2. Moves(w, d) /\ dispatcher'[w] = d /\ dispatcher[w].run = None
  BY DispatcherTyped DEF Claim, Moves, Become, At, DispatcherStands, IInv, LaunchTypeOK
<1>3. DispatcherStands(w)'
  BY <1>1, <1>2 DEF DispatcherStands
<1> HIDE DEF d
<1> QED
  BY <1>1, <1>2, <1>3, MovesKeep

\* A process that leaves stands at the beginning again.
LEMMA Left == ASSUME NEW w \in Dispatchers, dispatcher' \in [Dispatchers -> DispatcherRows],
                     dispatcher'[w].pc = "idle", dispatcher'[w].run = None
              PROVE  DispatcherStands(w)'
  BY DEF DispatcherStands

LEMMA HaltKeeps ==
  ASSUME IInv, NEW w \in Dispatchers, HaltAtBind(w) \/ HaltRun(w)
  PROVE  IInv'
<1> DEFINE d == [dispatcher[w] EXCEPT !.pc = "halted"]
<1>1. d \in DispatcherRows /\ d.run = dispatcher[w].run /\ d.pc = "halted" /\ d.launch = dispatcher[w].launch
  <2>1. dispatcher[w] \in DispatcherRows /\ "halted" \in Steps
    BY DispatcherTyped DEF Steps
  <2> QED
    BY <2>1 DEF DispatcherRows
<1>2. /\ Moves(w, d) /\ dispatcher'[w] = d /\ faults' > 0
      /\ dispatcher[w].run # None /\ dispatcher[w].launch # None
      /\ run[dispatcher[w].run].status # "ABSENT"
  BY DispatcherTyped
  DEF HaltAtBind, HaltRun, Moves, GoTo, Become, At, DispatcherStands, IInv, LaunchTypeOK
<1>3. DispatcherStands(w)'
  BY <1>1, <1>2 DEF DispatcherStands, Moves
<1> HIDE DEF d
<1> QED
  BY <1>1, <1>2, <1>3, MovesKeep

LEMMA DieKeeps ==
  ASSUME IInv, NEW w \in Dispatchers, Die(w)
  PROVE  IInv'
<1>1. Idle \in DispatcherRows /\ Idle.run = None /\ Idle.pc = "idle"
  BY DispatcherTyped DEF Idle
<1>2. /\ Moves(w, Idle) /\ dispatcher'[w] = Idle /\ faults' > 0
      /\ dispatcher' \in [Dispatchers -> DispatcherRows]
  BY <1>1, RowTypes DEF Die, Moves, Leave, Become, IInv, LaunchTypeOK, Callers
<1>3. DispatcherStands(w)'
  BY <1>1, <1>2, Left
<1> QED
  BY <1>1, <1>2, <1>3, MovesKeep

LEMMA ReadHaltedKeeps ==
  ASSUME IInv, NEW w \in Dispatchers, ReadHalted(w)
  PROVE  IInv'
<1> DEFINE seen == launch[dispatcher[w].launch].status
           d == IF seen = "QUEUED" THEN [Idle EXCEPT !.said = "queued"]
                ELSE [dispatcher[w] EXCEPT !.pc = "failing", !.seen = seen]
<1>1. /\ At(w, "reporting") /\ dispatcher[w].launch \in Launches /\ dispatcher[w].run \in Runs
      /\ dispatcher[w] \in DispatcherRows /\ DispatcherStands(w)
      /\ faults > 0 /\ faults \in 0..MaxFaults
      /\ seen \in LaunchStates
  BY DispatcherTyped DEF ReadHalted, At, DispatcherStands, IInv, LaunchTypeOK
<1>2. /\ d \in DispatcherRows
      /\ \/ d.run = None /\ d.pc = "idle"
         \/ d.run = dispatcher[w].run /\ d.pc = "failing" /\ d.launch = dispatcher[w].launch
  <2>1. CASE seen = "QUEUED"
    BY <2>1, DispatcherTyped DEF Idle
  <2>2. CASE seen # "QUEUED"
    BY <1>1, <2>2 DEF DispatcherRows, Steps
  <2> QED
    BY <2>1, <2>2
<1>3. Moves(w, d) /\ dispatcher'[w] = d /\ faults' > 0
  BY <1>1 DEF ReadHalted, SayQueued, Moves, Become, IInv, LaunchTypeOK
<1> HIDE DEF d
<1>4. DispatcherStands(w)'
  BY <1>1, <1>2, <1>3 DEF DispatcherStands, Moves, At
<1> QED
  BY <1>2, <1>3, <1>4, MovesKeep

\* A process leaves, with or without the answer that its launch is queued.
LEMMA LeavingKeeps ==
  ASSUME IInv, NEW w \in Dispatchers, Leave(w) \/ SayQueued(w),
         UNCHANGED <<launch, run, shelf, request, faults>>,
         faults = 0 => /\ dispatcher[w].run \notin Active
                       /\ \A l \in Launches : launch[l].run = dispatcher[w].run =>
                            launch[l].status # "EXECUTING"
  PROVE  IInv'
<1>1. PICK d \in DispatcherRows : Become(w, d) /\ d.run = None /\ d.pc = "idle"
  <2>1. Idle.run = None /\ Idle.pc = "idle" /\ [Idle EXCEPT !.said = "queued"].run = None
        /\ [Idle EXCEPT !.said = "queued"].pc = "idle"
    BY DEF Idle
  <2> QED
    BY <2>1, DispatcherTyped DEF Leave, SayQueued
<1>2. /\ Moves(w, d) /\ dispatcher'[w] = d /\ faults' = faults
      /\ dispatcher' \in [Dispatchers -> DispatcherRows]
  BY <1>1, RowTypes DEF Moves, Become, IInv, LaunchTypeOK
<1>3. DispatcherStands(w)'
  BY <1>1, <1>2, Left
<1> QED
  BY <1>1, <1>2, <1>3, MovesKeep

-----------------------------------------------------------------------------
(***************************************************************************)
(* A dispatcher, up to the launch it executes.                             *)
(***************************************************************************)

LEMMA PrepareWorldKeeps ==
  ASSUME IInv, NEW w \in Dispatchers, PrepareWorld(w)
  PROVE  IInv'
<1> DEFINE d == [dispatcher[w] EXCEPT !.pc = "prepared"]
<1>1. /\ dispatcher[w].pc = "claimed" /\ dispatcher[w].run = None /\ dispatcher[w].launch # None
      /\ dispatcher[w] \in DispatcherRows
  BY DispatcherTyped DEF PrepareWorld, At, DispatcherStands
<1>2. CASE ~ WorldIsFree(None)
  <2>1. None \notin Active /\ \A l \in Launches : launch[l].run = None => launch[l].status # "EXECUTING"
    BY DEF Active, IInv, LaunchKnows
  <2> QED
    BY <1>1, <1>2, <2>1, LeavingKeeps DEF PrepareWorld
<1>3. CASE WorldIsFree(None)
  <2>1. /\ Active = {} /\ UNCHANGED <<launch, run, request, faults>>
        /\ shelf' = [shelf EXCEPT !.owner = None] /\ dispatcher' = [dispatcher EXCEPT ![w] = d]
    BY <1>3 DEF WorldIsFree, Active, PrepareWorld, GoTo, Become
  <2>2. d \in DispatcherRows /\ d.run = None /\ d.pc = "prepared" /\ d.launch = dispatcher[w].launch
    BY <1>1 DEF DispatcherRows, Steps
  <2> HIDE DEF d
  <2>3. LaunchTypeOK'
    BY <2>1, <2>2 DEF IInv, LaunchTypeOK, DispatcherRows
  <2>4. /\ dispatcher'[w] = d /\ shelf'.strays = shelf.strays
        /\ \A u \in Dispatchers : u # w => dispatcher'[u] = dispatcher[u]
    BY <2>1 DEF IInv, LaunchTypeOK
  <2>5. LaunchKnows' /\ RunKnows'
    BY <2>1, RowsStand
  <2>6. DispatcherKnows'
    <3>1. Considerate(w)
      BY <2>1, <2>4 DEF Considerate, IInv, LaunchTypeOK
    <3>2. DispatcherStands(w)'
      BY <1>1, <2>1, <2>2, <2>4 DEF DispatcherStands
    <3> QED
      BY <2>2, <2>3, <2>4, <3>1, <3>2, DispatchersStep
  <2>7. StrayKnows'
    BY <2>1, <2>4 DEF IInv, StrayKnows, Active
  <2>8. NobodyWalksAway'
    <3>1. \A u \in Dispatchers : dispatcher'[u].run = dispatcher[u].run
      BY <1>1, <2>2, <2>4
    <3> QED
      BY <2>1, <3>1, StillDriven
  <2> QED
    BY <2>3, <2>5, <2>6, <2>7, <2>8 DEF IInv
<1> QED
  BY <1>2, <1>3

LEMMA StartRunKeeps ==
  ASSUME IInv, NEW w \in Dispatchers, StartRun(w)
  PROVE  IInv'
<1>1. /\ dispatcher[w].pc = "prepared" /\ dispatcher[w].run = None /\ dispatcher[w].launch # None
      /\ dispatcher[w] \in DispatcherRows
  BY DispatcherTyped DEF StartRun, At, DispatcherStands
<1>2. CASE ~ MayStart
  <2>1. None \notin Active /\ \A l \in Launches : launch[l].run = None => launch[l].status # "EXECUTING"
    BY DEF Active, IInv, LaunchKnows
  <2> QED
    BY <1>1, <1>2, <2>1, LeavingKeeps DEF StartRun
<1>3. CASE MayStart
  <2> DEFINE r == NextRun
             d == [dispatcher[w] EXCEPT !.pc = "started", !.run = r]
  <2>1. r \in Runs /\ run[r] = NoRun
    BY <1>3 DEF StartRun, NextRun, Unused
  <2>2. /\ Active = {} /\ UNCHANGED <<launch, request, faults>>
        /\ run' = [run EXCEPT ![r].status = "RUNNING"]
        /\ shelf' = [shelf EXCEPT !.strays = [c \in Callers |-> 0]]
        /\ dispatcher' = [dispatcher EXCEPT ![w] = d]
    BY <1>3 DEF MayStart, StartRun, Become
  <2> HIDE DEF r
  <2>3. d \in DispatcherRows /\ d.run = r /\ d.pc = "started" /\ d.launch = dispatcher[w].launch
    BY <1>1, <2>1 DEF DispatcherRows, Steps
  <2> HIDE DEF d
  <2>4. LaunchTypeOK'
    <3>1. run \in [Runs -> RunRows] /\ dispatcher \in [Dispatchers -> DispatcherRows]
      BY RowTypes DEF IInv
    <3>2. run' \in [Runs -> RunRows]
      <4>1. [run[r] EXCEPT !.status = "RUNNING"] \in RunRows
        BY <2>1, <3>1 DEF RunRows, RunStates
      <4> QED
        BY <2>1, <2>2, <3>1, <4>1
    <3>3. dispatcher' \in [Dispatchers -> DispatcherRows]
      BY <2>2, <2>3, <3>1
    <3>4. shelf' \in [owner : Runs \cup {None}, strays : [Callers -> 0..2]]
      BY <2>2 DEF IInv, LaunchTypeOK
    <3> QED
      BY <2>2, <3>2, <3>3, <3>4 DEF IInv, LaunchTypeOK, RunRows, DispatcherRows
  <2>5. /\ dispatcher'[w] = d /\ shelf'.owner = shelf.owner
        /\ \A c \in Callers : shelf'.strays[c] = 0
        /\ \A u \in Dispatchers : u # w => dispatcher'[u] = dispatcher[u]
        /\ \A s \in Runs : s # r => run'[s] = run[s]
        /\ run'[r].status = "RUNNING" /\ run'[r].begun = 0 /\ run'[r].recorded = 0
    BY <2>1, <2>2 DEF IInv, LaunchTypeOK, NoRun
  <2>6. \A l \in Launches : launch[l].run # r
    BY <2>1 DEF IInv, LaunchKnows, NoRun
  <2>7. Active' = {r}
    BY <2>1, <2>2, <2>5 DEF Active
  <2>8. LaunchKnows'
    BY <2>2, <2>5, <2>6 DEF IInv, LaunchKnows, LaunchTypeOK
  <2>9. RunKnows'
    BY <2>2, <2>5, <2>7 DEF IInv, RunKnows
  <2>10. DispatcherKnows'
    <3>1. Considerate(w)
      BY <2>1, <2>2, <2>5 DEF Considerate, IInv, LaunchTypeOK
    <3>2. DispatcherStands(w)'
      BY <1>1, <2>1, <2>2, <2>3, <2>5, <2>6 DEF DispatcherStands
    <3> QED
      BY <2>1, <2>3, <2>4, <2>5, <3>1, <3>2, DispatchersStep
  <2>11. StrayKnows'
    BY <2>5 DEF StrayKnows
  <2>12. NobodyWalksAway'
    <3>1. dispatcher'[w].run = r
      BY <2>3, <2>5
    <3>2. \A u \in Dispatchers : dispatcher[u].run \in Runs => dispatcher'[u].run = dispatcher[u].run
      BY <1>1, <2>5
    <3> QED
      BY <2>2, <2>5, <3>1, <3>2, StillDriven
  <2> QED
    BY <2>4, <2>8, <2>9, <2>10, <2>11, <2>12 DEF IInv
<1> QED
  BY <1>2, <1>3

LEMMA BindRunKeeps ==
  ASSUME IInv, NEW w \in Dispatchers, BindRun(w)
  PROVE  IInv'
<1> DEFINE l == dispatcher[w].launch
           r == dispatcher[w].run
<1>1. /\ dispatcher[w].pc = "started" /\ l \in Launches /\ r \in Runs /\ r # None
      /\ run[r].status # "ABSENT" /\ run[r].begun = 0 /\ run[r].recorded = 0
      /\ \A k \in Launches : launch[k].run # r
      /\ faults = 0 => run[r].status = "RUNNING"
      /\ dispatcher[w] \in DispatcherRows
      /\ UNCHANGED <<run, shelf, request, faults>> /\ faults \in 0..MaxFaults
  BY DispatcherTyped DEF BindRun, At, DispatcherStands, DispatcherRows, IInv, LaunchTypeOK
<1>2. CASE launch[l].status # "QUEUED"
  <2> DEFINE d == [dispatcher[w] EXCEPT !.pc = "lost"]
  <2>1. d \in DispatcherRows /\ d.run = r /\ d.pc = "lost" /\ d.launch = l
    BY <1>1 DEF DispatcherRows, Steps
  <2>2. Moves(w, d) /\ dispatcher'[w] = d /\ UNCHANGED launch
    BY <1>1, <1>2 DEF BindRun, Moves, GoTo, Become, IInv, LaunchTypeOK
  <2>3. DispatcherStands(w)'
    BY <1>1, <2>1, <2>2 DEF DispatcherStands
  <2> HIDE DEF d
  <2> QED
    BY <2>1, <2>2, <2>3, MovesKeep
<1>3. CASE launch[l].status = "QUEUED"
  <2> DEFINE d == [dispatcher[w] EXCEPT !.pc = "ready"]
             bound == [status |-> "EXECUTING", run |-> r]
  <2>1. d \in DispatcherRows /\ d.run = r /\ d.pc = "ready" /\ d.launch = l
    BY <1>1 DEF DispatcherRows, Steps
  <2>2. launch' = [launch EXCEPT ![l] = bound] /\ dispatcher' = [dispatcher EXCEPT ![w] = d]
    BY <1>3 DEF BindRun, GoTo, Become
  <2>3. bound \in LaunchRows /\ bound.status = "EXECUTING" /\ bound.run = r
    BY <1>1 DEF LaunchRows, LaunchStates
  <2> HIDE DEF d, l, r, bound
  <2>4. LaunchTypeOK'
    BY <1>1, <2>1, <2>2, <2>3 DEF IInv, LaunchTypeOK, DispatcherRows, LaunchRows
  <2>5. /\ dispatcher'[w] = d /\ launch'[l] = bound /\ launch[l].run = None
        /\ \A u \in Dispatchers : u # w => dispatcher'[u] = dispatcher[u]
        /\ \A k \in Launches : k # l => launch'[k] = launch[k]
    BY <1>1, <1>3, <2>2 DEF IInv, LaunchTypeOK, LaunchKnows
  <2>6. LaunchKnows'
    BY <1>1, <2>3, <2>5 DEF IInv, LaunchKnows
  <2>7. RunKnows'
    BY <1>1, <2>3, <2>5 DEF IInv, RunKnows, Active
  <2>8. DispatcherKnows'
    <3>1. Considerate(w)
      BY <1>1, <2>3, <2>5 DEF Considerate, IInv, LaunchTypeOK, r
    <3>2. DispatcherStands(w)'
      BY <1>1, <2>1, <2>3, <2>5 DEF DispatcherStands
    <3> QED
      BY <2>1, <2>4, <2>5, <3>1, <3>2, DispatchersStep DEF r
  <2>9. StrayKnows'
    BY <1>1 DEF IInv, StrayKnows, Active
  <2>10. NobodyWalksAway'
    <3>1. \A u \in Dispatchers : dispatcher'[u].run = dispatcher[u].run
      BY <2>1, <2>5 DEF r
    <3>2. dispatcher'[w].run = r
      BY <2>1, <2>5
    <3> QED
      BY <1>1, <2>3, <2>5, <3>1, <3>2, StillDriven
  <2> QED
    BY <2>4, <2>6, <2>7, <2>8, <2>9, <2>10 DEF IInv
<1> QED
  BY <1>2, <1>3
-----------------------------------------------------------------------------
(***************************************************************************)
(* A dispatcher writes the row of the run it drives.                       *)
(***************************************************************************)

LEMMA DrivingKeeps ==
  ASSUME IInv, NEW w \in Dispatchers, NEW r \in Runs, dispatcher[w].run = r,
         NEW d \in DispatcherRows, Become(w, d), d.run \in {r, None},
         NEW row \in RunRows, run' = [run EXCEPT ![r] = row],
         UNCHANGED <<launch, shelf, request, faults>>,
         run[r].status = "RUNNING", row.status # "ABSENT",
         row.status = "COMPLETED" => row.recorded = Missions,
         row.begun > 0 => \E l \in Launches : launch[l].run = r,
         DispatcherStands(w)',
         faults = 0 => \/ d.run = r
                       \/ /\ row.status # "RUNNING"
                          /\ \A l \in Launches : launch[l].run # r
  PROVE  IInv'
<1>1. /\ run'[r] = row /\ dispatcher'[w] = d
      /\ \A s \in Runs : s # r => run'[s] = run[s]
      /\ \A u \in Dispatchers : u # w => dispatcher'[u] = dispatcher[u]
  BY DEF IInv, LaunchTypeOK, Become
<1>2. LaunchTypeOK'
  <2>1. run' \in [Runs -> RunRows] /\ dispatcher' \in [Dispatchers -> DispatcherRows]
    BY RowTypes DEF IInv, Become
  <2> QED
    BY <2>1 DEF IInv, LaunchTypeOK, RunRows, DispatcherRows
<1>3. LaunchKnows'
  BY <1>1 DEF IInv, LaunchTypeOK, LaunchKnows
<1>4. Active' \subseteq Active /\ Active = {r}
  BY <1>1 DEF IInv, RunKnows, Active
<1>5. RunKnows'
  BY <1>1, <1>4 DEF IInv, RunKnows
<1>6. DispatcherKnows'
  <2>1. Considerate(w)
    BY <1>1 DEF Considerate, IInv, LaunchTypeOK
  <2> QED
    BY <1>1, <1>2, <2>1, DispatchersStep
<1>7. StrayKnows'
  BY <1>4, StraysStand
<1>8. NobodyWalksAway'
  <2>1. CASE faults' # 0
    BY <2>1 DEF NobodyWalksAway
  <2>2. CASE faults' = 0
    <3>1. \A s \in Runs : s # r => \A u \in Dispatchers : dispatcher[u].run = s => dispatcher'[u].run = s
      BY <1>1
    <3>2. \/ dispatcher'[w].run = r
          \/ run'[r].status # "RUNNING" /\ \A l \in Launches : launch'[l].run # r
      BY <1>1, <2>2
    <3>3. \A s \in Runs : run'[s].status = "RUNNING" => run[s].status = "RUNNING"
      BY <1>1
    <3> QED
      BY <2>2, <3>1, <3>2, <3>3, StillDriven
  <2> QED
    BY <2>1, <2>2
<1> QED
  BY <1>2, <1>3, <1>5, <1>6, <1>7, <1>8 DEF IInv

\* What a dispatcher that has started a run drives.
LEMMA DriverTyped ==
  ASSUME IInv, NEW w \in Dispatchers, ~ (dispatcher[w].pc \in {"idle", "claimed", "prepared"})
  PROVE  /\ dispatcher[w].run \in Runs /\ dispatcher[w].launch \in Launches
         /\ run[dispatcher[w].run] \in RunRows
         /\ run[dispatcher[w].run].status \in {"RUNNING", "COMPLETED", "ABORTED"}
         /\ RunGuard(dispatcher[w].run) <=> run[dispatcher[w].run].status = "RUNNING"
<1>1. dispatcher[w].run # None /\ dispatcher[w].launch # None
      /\ run[dispatcher[w].run].status # "ABSENT"
  BY DispatcherTyped DEF DispatcherStands
<1>2. dispatcher[w].run \in Runs /\ dispatcher[w].launch \in Launches
      /\ run[dispatcher[w].run] \in RunRows
  BY <1>1, DispatcherTyped DEF At
<1>3. run[dispatcher[w].run].status \in RunStates
  BY <1>2 DEF RunRows
<1> QED
  BY <1>1, <1>2, <1>3 DEF RunGuard, Terminal, RunStates

\* A trigger that refuses a write ends a process whose run somebody aborted.
LEMMA RefusedKeeps ==
  ASSUME IInv, NEW w \in Dispatchers,
         dispatcher[w].pc \in {"ready", "reset", "mission", "halted"},
         ~ RunGuard(dispatcher[w].run), Leave(w),
         UNCHANGED <<launch, run, shelf, request, faults>>
  PROVE  IInv'
<1>1. faults # 0
  BY DriverTyped, DispatcherTyped DEF DispatcherStands, IInv, LaunchTypeOK
<1> QED
  BY <1>1, LeavingKeeps

LEMMA LoseRunKeeps ==
  ASSUME IInv, NEW w \in Dispatchers, LoseRun(w)
  PROVE  IInv'
<1> DEFINE r == dispatcher[w].run
           row == [run[r] EXCEPT !.status = "ABORTED"]
<1>1. dispatcher[w].pc = "lost" /\ Leave(w) /\ UNCHANGED <<launch, shelf, request, faults>>
  BY DEF LoseRun, At
<1>2. /\ r \in Runs /\ run[r] \in RunRows
      /\ run[r].begun = 0 /\ \A l \in Launches : launch[l].run # r
      /\ Idle \in DispatcherRows /\ Idle.run = None /\ Idle.pc = "idle"
  BY <1>1, DriverTyped, DispatcherTyped DEF DispatcherStands, Idle
<1>3. CASE ~ RunGuard(r)
  <2>1. UNCHANGED run /\ r \notin Active
    BY <1>1, <1>3, DriverTyped DEF LoseRun, Aborted, Active
  <2> QED
    BY <1>1, <1>2, <2>1, LeavingKeeps
<1>4. CASE RunGuard(r)
  <2>1. /\ row \in RunRows /\ row.status = "ABORTED" /\ row.begun = 0
        /\ run' = [run EXCEPT ![r] = row] /\ run[r].status = "RUNNING"
    BY <1>1, <1>2, <1>4, DriverTyped DEF LoseRun, Aborted, RunRows, RunStates
  <2>2. DispatcherStands(w)'
    <3>1. dispatcher' \in [Dispatchers -> DispatcherRows] /\ dispatcher'[w] = Idle
      BY <1>1, <1>2, RowTypes DEF Leave, Become, IInv
    <3> QED
      BY <1>2, <3>1, Left
  <2>3. Become(w, Idle)
    BY <1>1 DEF Leave
  <2>4. dispatcher[w].run = r /\ UNCHANGED <<launch, shelf, request, faults>>
    BY <1>1
  <2> HIDE DEF r, row
  <2>5. row.status # "ABSENT" /\ row.status # "COMPLETED" /\ row.status # "RUNNING" /\ ~ (row.begun > 0)
    BY <2>1
  <2> QED
    BY <1>2, <2>1, <2>2, <2>3, <2>4, <2>5, DrivingKeeps
<1> QED
  BY <1>3, <1>4
LEMMA StartMissionKeeps ==
  ASSUME IInv, NEW w \in Dispatchers, StartMission(w)
  PROVE  IInv'
<1> DEFINE r == dispatcher[w].run
           row == [run[r] EXCEPT !.begun = @ + 1]
           d == [dispatcher[w] EXCEPT !.pc = "mission"]
<1>1. /\ dispatcher[w].pc = "reset" /\ UNCHANGED <<launch, shelf, request, faults>>
      /\ r \in Runs /\ run[r] \in RunRows /\ dispatcher[w] \in DispatcherRows
      /\ dispatcher[w].launch \in Launches /\ launch[dispatcher[w].launch].run = r
      /\ run[r].begun = run[r].recorded /\ run[r].recorded < Missions
      /\ run[r].status = "RUNNING" => shelf.owner = r
  BY DriverTyped, DispatcherTyped DEF StartMission, At, DispatcherStands
<1>2. CASE ~ RunGuard(r)
  BY <1>1, <1>2, RefusedKeeps DEF StartMission
<1>3. CASE RunGuard(r)
  <2>1. /\ row \in RunRows /\ row.status = "RUNNING" /\ row.begun = row.recorded + 1
        /\ run' = [run EXCEPT ![r] = row] /\ run[r].status = "RUNNING"
    BY <1>1, <1>3, DriverTyped DEF StartMission, RunRows
  <2>2. d \in DispatcherRows /\ d.run = r /\ d.pc = "mission" /\ d.launch = dispatcher[w].launch
    BY <1>1 DEF DispatcherRows, Steps
  <2>3. Become(w, d)
    BY <1>3 DEF StartMission, GoTo
  <2>4. dispatcher'[w] = d /\ run'[r] = row
    BY <1>1, <2>1, <2>3 DEF Become, IInv, LaunchTypeOK
  <2>5. dispatcher[w].run = r
    OBVIOUS
  <2> HIDE DEF r, row, d
  <2>6. DispatcherStands(w)'
    BY <1>1, <2>1, <2>2, <2>4 DEF DispatcherStands
  <2>7. \E l \in Launches : launch[l].run = r
    BY <1>1
  <2> QED
    BY <1>1, <2>1, <2>2, <2>3, <2>5, <2>6, <2>7, DrivingKeeps
<1> QED
  BY <1>2, <1>3

LEMMA RecordMissionKeeps ==
  ASSUME IInv, NEW w \in Dispatchers, RecordMission(w)
  PROVE  IInv'
<1> DEFINE r == dispatcher[w].run
           row == [run[r] EXCEPT !.recorded = @ + 1]
           d == [dispatcher[w] EXCEPT !.pc = "ready"]
<1>1. /\ dispatcher[w].pc = "mission" /\ UNCHANGED <<launch, shelf, request, faults>>
      /\ r \in Runs /\ run[r] \in RunRows /\ dispatcher[w] \in DispatcherRows
      /\ dispatcher[w].launch \in Launches /\ launch[dispatcher[w].launch].run = r
      /\ run[r].begun = run[r].recorded + 1
  BY DriverTyped, DispatcherTyped DEF RecordMission, At, DispatcherStands
<1>2. CASE ~ RunGuard(r)
  BY <1>1, <1>2, RefusedKeeps DEF RecordMission
<1>3. CASE RunGuard(r)
  <2>1. /\ row \in RunRows /\ row.status = "RUNNING" /\ row.begun = row.recorded
        /\ run' = [run EXCEPT ![r] = row] /\ run[r].status = "RUNNING"
    BY <1>1, <1>3, DriverTyped DEF RecordMission, RunRows
  <2>2. d \in DispatcherRows /\ d.run = r /\ d.pc = "ready" /\ d.launch = dispatcher[w].launch
    BY <1>1 DEF DispatcherRows, Steps
  <2>3. Become(w, d)
    BY <1>3 DEF RecordMission, GoTo
  <2>4. dispatcher'[w] = d /\ run'[r] = row
    BY <1>1, <2>1, <2>3 DEF Become, IInv, LaunchTypeOK
  <2>5. dispatcher[w].run = r
    OBVIOUS
  <2> HIDE DEF r, row, d
  <2>6. DispatcherStands(w)'
    BY <1>1, <2>1, <2>2, <2>4 DEF DispatcherStands
  <2>7. \E l \in Launches : launch[l].run = r
    BY <1>1
  <2> QED
    BY <1>1, <2>1, <2>2, <2>3, <2>5, <2>6, <2>7, DrivingKeeps
<1> QED
  BY <1>2, <1>3

LEMMA CompleteRunKeeps ==
  ASSUME IInv, NEW w \in Dispatchers, CompleteRun(w)
  PROVE  IInv'
<1> DEFINE r == dispatcher[w].run
           row == [run[r] EXCEPT !.status = "COMPLETED"]
           d == [dispatcher[w] EXCEPT !.pc = "settling"]
<1>1. /\ dispatcher[w].pc = "ready" /\ UNCHANGED <<launch, shelf, request, faults>>
      /\ r \in Runs /\ run[r] \in RunRows /\ dispatcher[w] \in DispatcherRows
      /\ dispatcher[w].launch \in Launches /\ launch[dispatcher[w].launch].run = r
  BY DriverTyped, DispatcherTyped DEF CompleteRun, At, DispatcherStands
<1>2. CASE ~ RunGuard(r)
  BY <1>1, <1>2, RefusedKeeps DEF CompleteRun
<1>3. CASE RunGuard(r)
  <2>1. /\ row \in RunRows /\ row.status = "COMPLETED" /\ row.recorded = Missions
        /\ run' = [run EXCEPT ![r] = row] /\ run[r].status = "RUNNING"
    BY <1>1, <1>3, DriverTyped DEF CompleteRun, MissionsLeft, RunRows, RunStates
  <2>2. d \in DispatcherRows /\ d.run = r /\ d.pc = "settling" /\ d.launch = dispatcher[w].launch
    BY <1>1 DEF DispatcherRows, Steps
  <2>3. Become(w, d)
    BY <1>3 DEF CompleteRun, GoTo
  <2>4. dispatcher'[w] = d /\ run'[r] = row
    BY <1>1, <2>1, <2>3 DEF Become, IInv, LaunchTypeOK
  <2>5. dispatcher[w].run = r
    OBVIOUS
  <2> HIDE DEF r, row, d
  <2>6. DispatcherStands(w)'
    BY <1>1, <2>1, <2>2, <2>4 DEF DispatcherStands
  <2>7. \E l \in Launches : launch[l].run = r
    BY <1>1
  <2> QED
    BY <1>1, <2>1, <2>2, <2>3, <2>5, <2>6, <2>7, DrivingKeeps
<1> QED
  BY <1>2, <1>3

LEMMA AbortHaltedKeeps ==
  ASSUME IInv, NEW w \in Dispatchers, AbortHalted(w)
  PROVE  IInv'
<1> DEFINE r == dispatcher[w].run
           row == [run[r] EXCEPT !.status = "ABORTED"]
           d == [dispatcher[w] EXCEPT !.pc = "reporting"]
<1>1. /\ dispatcher[w].pc = "halted" /\ UNCHANGED <<launch, shelf, request, faults>>
      /\ r \in Runs /\ run[r] \in RunRows /\ dispatcher[w] \in DispatcherRows
      /\ dispatcher[w].launch \in Launches /\ faults > 0
  BY DriverTyped, DispatcherTyped DEF AbortHalted, At, DispatcherStands
<1>2. CASE ~ RunGuard(r)
  BY <1>1, <1>2, RefusedKeeps DEF AbortHalted
<1>3. CASE RunGuard(r)
  <2>1. /\ row \in RunRows /\ row.status = "ABORTED" /\ row.begun = run[r].begun
        /\ run' = [run EXCEPT ![r] = row] /\ run[r].status = "RUNNING"
    BY <1>1, <1>3, DriverTyped DEF AbortHalted, Aborted, RunRows, RunStates
  <2>2. d \in DispatcherRows /\ d.run = r /\ d.pc = "reporting" /\ d.launch = dispatcher[w].launch
    BY <1>1 DEF DispatcherRows, Steps
  <2>3. Become(w, d)
    BY <1>3 DEF AbortHalted, GoTo
  <2>4. dispatcher'[w] = d /\ run'[r] = row
    BY <1>1, <2>1, <2>3 DEF Become, IInv, LaunchTypeOK
  <2>5. dispatcher[w].run = r
    OBVIOUS
  <2>6. row.begun > 0 => \E l \in Launches : launch[l].run = r
    BY <1>1, <2>1 DEF IInv, RunKnows
  <2> HIDE DEF r, row, d
  <2>7. DispatcherStands(w)'
    BY <1>1, <2>1, <2>2, <2>4 DEF DispatcherStands
  <2> QED
    BY <1>1, <2>1, <2>2, <2>3, <2>5, <2>6, <2>7, DrivingKeeps
<1> QED
  BY <1>2, <1>3

LEMMA ResetWorldKeeps ==
  ASSUME IInv, NEW w \in Dispatchers, ResetWorld(w)
  PROVE  IInv'
<1> DEFINE r == dispatcher[w].run
           d == [dispatcher[w] EXCEPT !.pc = "reset"]
<1>1. /\ dispatcher[w].pc = "ready" /\ UNCHANGED <<launch, run, request, faults>>
      /\ r \in Runs /\ run[r] \in RunRows /\ dispatcher[w] \in DispatcherRows
      /\ dispatcher[w].launch \in Launches /\ launch[dispatcher[w].launch].run = r
      /\ run[r].begun = run[r].recorded /\ run[r].recorded < Missions
      /\ run[r].status # "ABSENT"
      /\ faults = 0 => run[r].status = "RUNNING"
  BY DriverTyped, DispatcherTyped DEF ResetWorld, MissionsLeft, At, DispatcherStands
<1>2. CASE ~ WorldIsFree(r)
  <2>1. faults # 0
    BY <1>1, <1>2 DEF WorldIsFree, Active, IInv, RunKnows
  <2> QED
    BY <1>1, <1>2, <2>1, LeavingKeeps DEF ResetWorld
<1>3. CASE WorldIsFree(r)
  <2>1. /\ Active \subseteq {r}
        /\ shelf' = [shelf EXCEPT !.owner = r] /\ dispatcher' = [dispatcher EXCEPT ![w] = d]
    BY <1>3 DEF WorldIsFree, ResetWorld, GoTo, Become
  <2>2. d \in DispatcherRows /\ d.run = r /\ d.pc = "reset" /\ d.launch = dispatcher[w].launch
    BY <1>1 DEF DispatcherRows, Steps
  <2>3. dispatcher[w].run = r
    OBVIOUS
  <2> HIDE DEF d, r
  <2>4. LaunchTypeOK'
    BY <1>1, <2>1, <2>2 DEF IInv, LaunchTypeOK, DispatcherRows
  <2>5. /\ dispatcher'[w] = d /\ shelf'.strays = shelf.strays /\ shelf'.owner = r
        /\ \A u \in Dispatchers : u # w => dispatcher'[u] = dispatcher[u]
    BY <2>1 DEF IInv, LaunchTypeOK
  <2>6. LaunchKnows' /\ RunKnows'
    BY <1>1, RowsStand
  <2>7. DispatcherKnows'
    <3>1. Considerate(w)
      BY <1>1, <2>1, <2>3, <2>5 DEF Considerate, IInv, LaunchTypeOK
    <3>2. DispatcherStands(w)'
      BY <1>1, <2>2, <2>5 DEF DispatcherStands
    <3> QED
      BY <2>2, <2>3, <2>4, <2>5, <3>1, <3>2, DispatchersStep
  <2>8. StrayKnows'
    BY <1>1, <2>5 DEF IInv, StrayKnows, Active
  <2>9. NobodyWalksAway'
    <3>1. \A u \in Dispatchers : dispatcher'[u].run = dispatcher[u].run
      BY <2>2, <2>3, <2>5
    <3> QED
      BY <1>1, <3>1, StillDriven
  <2> QED
    BY <2>4, <2>6, <2>7, <2>8, <2>9 DEF IInv
<1> QED
  BY <1>2, <1>3

-----------------------------------------------------------------------------
(***************************************************************************)
(* A dispatcher settles its launch and leaves.                             *)
(***************************************************************************)

\* Whatever row the process decided by, the trigger lets through no more than a
\* settlement that says how the run ended.
LEMMA WriteSettles ==
  ASSUME IInv, NEW l \in Launches, NEW status \in {"COMPLETED", "FAILED"}, Write(l, status),
         UNCHANGED run
  PROVE  /\ launch' \in [Launches -> LaunchRows]
         /\ \A k \in Launches : launch'[k].run = launch[k].run
         /\ \A k \in Launches : launch'[k].status = "EXECUTING" => launch[k].status = "EXECUTING"
         /\ LaunchKnows'
         /\ RunKnows'
<1> DEFINE new == [launch[l] EXCEPT !.status = status]
<1>1. launch[l] \in LaunchRows /\ new.status = status /\ new.run = launch[l].run
  BY RowTypes DEF IInv, LaunchRows
<1>2. CASE ~ LaunchGuard(launch[l], new)
  <2>1. UNCHANGED launch
    BY <1>2 DEF Write
  <2> QED
    BY <2>1, RowTypes, RowsStand DEF IInv
<1>3. CASE LaunchGuard(launch[l], new) /\ launch[l].status = "EXECUTING"
  <2>1. Settling(l, status)
    BY <1>1, <1>3 DEF Write, LaunchGuard, Settling, IInv, LaunchKnows
  <2> QED
    BY <2>1, SettlingWrites
<1>4. CASE LaunchGuard(launch[l], new) /\ launch[l].status # "EXECUTING"
  <2>1. /\ launch[l].status = "QUEUED" /\ status = "FAILED"
        /\ launch' = [launch EXCEPT ![l].status = status]
    BY <1>1, <1>4 DEF Write, LaunchGuard
  <2>2. launch[l].run = None
    BY <2>1 DEF IInv, LaunchKnows
  <2>3. /\ launch'[l].status = "FAILED" /\ launch' \in [Launches -> LaunchRows]
        /\ \A k \in Launches : k # l => launch'[k] = launch[k]
        /\ \A k \in Launches : launch'[k].run = launch[k].run
    BY <2>1 DEF IInv, LaunchTypeOK, LaunchRows, LaunchStates
  <2>4. LaunchKnows'
    BY <2>2, <2>3 DEF IInv, LaunchKnows
  <2>5. RunKnows'
    BY <2>3 DEF IInv, RunKnows, Active
  <2> QED
    BY <2>3, <2>4, <2>5
<1> QED
  BY <1>2, <1>3, <1>4

LEMMA LeavingSettledKeeps ==
  ASSUME IInv, NEW w \in Dispatchers, Leave(w), UNCHANGED <<run, shelf, request, faults>>,
         launch' \in [Launches -> LaunchRows],
         \A k \in Launches : launch'[k].run = launch[k].run,
         \A k \in Launches : launch'[k].status = "EXECUTING" => launch[k].status = "EXECUTING",
         LaunchKnows', RunKnows',
         faults = 0 => /\ dispatcher[w].run \notin Active
                       /\ \A k \in Launches : launch'[k].run = dispatcher[w].run =>
                            launch'[k].status # "EXECUTING"
  PROVE  IInv'
<1>1. /\ dispatcher'[w] = Idle /\ Idle \in DispatcherRows /\ Idle.run = None /\ Idle.pc = "idle"
      /\ \A u \in Dispatchers : u # w => dispatcher'[u] = dispatcher[u]
      /\ dispatcher' \in [Dispatchers -> DispatcherRows]
  BY DispatcherTyped, RowTypes DEF Leave, Become, IInv, Idle
<1>2. LaunchTypeOK'
  BY <1>1 DEF IInv, LaunchTypeOK, LaunchRows, DispatcherRows
<1>3. DispatcherKnows'
  <2>1. Considerate(w)
    BY <1>1 DEF Considerate, IInv, LaunchTypeOK
  <2>2. DispatcherStands(w)'
    BY <1>1, Left
  <2> QED
    BY <1>1, <1>2, <2>1, <2>2, DispatchersStep
<1>4. StrayKnows'
  BY StraysStand DEF Active
<1>5. NobodyWalksAway'
  <2>1. CASE faults' # 0
    BY <2>1 DEF NobodyWalksAway
  <2>2. CASE faults' = 0
    <3>1. \A r \in Runs : \A u \in Dispatchers : dispatcher[u].run = r =>
            \/ dispatcher'[u].run = r
            \/ /\ run'[r].status # "RUNNING"
               /\ \A k \in Launches : launch'[k].run = r => launch'[k].status # "EXECUTING"
      BY <1>1, <2>2 DEF Active
    <3> QED
      BY <2>2, <3>1, StillDriven
  <2> QED
    BY <2>1, <2>2
<1> QED
  BY <1>2, <1>3, <1>4, <1>5 DEF IInv

LEMMA SettleCompletedKeeps ==
  ASSUME IInv, NEW w \in Dispatchers, SettleCompleted(w)
  PROVE  IInv'
<1> DEFINE l == dispatcher[w].launch
           r == dispatcher[w].run
<1>1. /\ Leave(w) /\ UNCHANGED <<run, shelf, request, faults>> /\ Write(l, "COMPLETED")
      /\ l \in Launches /\ r \in Runs /\ launch[l].run = r /\ run[r].status = "COMPLETED"
  BY DriverTyped, DispatcherTyped DEF SettleCompleted, At, DispatcherStands
<1> HIDE DEF l, r
<1>2. /\ launch' \in [Launches -> LaunchRows]
      /\ \A k \in Launches : launch'[k].run = launch[k].run
      /\ \A k \in Launches : launch'[k].status = "EXECUTING" => launch[k].status = "EXECUTING"
      /\ LaunchKnows' /\ RunKnows'
  BY <1>1, WriteSettles
<1>3. r \notin Active /\ \A k \in Launches : launch'[k].run = r => launch'[k].status # "EXECUTING"
  <2>1. r \notin Active
    BY <1>1 DEF Active
  <2>2. \A k \in Launches : launch[k].run = r => k = l
    BY <1>1 DEF IInv, LaunchKnows
  <2>3. launch'[l].status # "EXECUTING"
    <3>1. CASE launch[l].status = "EXECUTING"
      <4>1. launch' = [launch EXCEPT ![l] = [launch[l] EXCEPT !.status = "COMPLETED"]]
        BY <1>1, <3>1, RowTypes DEF Write, LaunchGuard, IInv, LaunchRows
      <4> QED
        BY <1>1, <4>1, RowTypes DEF IInv, LaunchRows
    <3>2. CASE launch[l].status # "EXECUTING"
      BY <1>1, <1>2, <3>2
    <3> QED
      BY <3>1, <3>2
  <2> QED
    BY <1>2, <2>1, <2>2, <2>3
<1> QED
  BY <1>1, <1>2, <1>3, LeavingSettledKeeps DEF r

LEMMA SettleHaltedKeeps ==
  ASSUME IInv, NEW w \in Dispatchers, SettleHalted(w)
  PROVE  IInv'
<1>1. /\ Leave(w) /\ UNCHANGED <<run, shelf, request, faults>>
      /\ dispatcher[w].launch \in Launches /\ faults # 0
  BY DriverTyped, DispatcherTyped DEF SettleHalted, At, DispatcherStands, IInv, LaunchTypeOK
<1>2. CASE UNCHANGED launch
  BY <1>1, <1>2, LeavingKeeps
<1>3. CASE Write(dispatcher[w].launch, "FAILED")
  BY <1>1, <1>3, WriteSettles, LeavingSettledKeeps
<1> QED
  BY <1>2, <1>3 DEF SettleHalted

-----------------------------------------------------------------------------
(***************************************************************************)
(* Changes to the world.                                                   *)
(***************************************************************************)

LEMMA CheckRequestKeeps ==
  ASSUME IInv, NEW c \in Callers, CheckRequest(c)
  PROVE  IInv'
<1>1. /\ UNCHANGED <<launch, run, shelf, dispatcher, faults>>
      /\ request' = [request EXCEPT ![c] = Capability(c)]
      /\ Capability(c) \in Runs \cup {None, "ordinary"}
      /\ Active = {} \/ Capability(c) \in Active
  BY RowTypes DEF CheckRequest, Allowed, Capability, IInv, DispatcherRows, Callers
<1>2. LaunchTypeOK'
  BY <1>1 DEF IInv, LaunchTypeOK
<1>3. request'[c] = Capability(c) /\ \A b \in Callers : b # c => request'[b] = request[b]
  BY <1>1 DEF IInv, LaunchTypeOK
<1>4. LaunchKnows' /\ RunKnows'
  BY <1>1, RowsStand
<1>5. DispatcherKnows'
  BY <1>1 DEF IInv, DispatcherKnows, DispatcherStands
<1>6. StrayKnows'
  BY <1>1, <1>3 DEF IInv, StrayKnows, Active
<1>7. NobodyWalksAway'
  BY <1>1, StillDriven
<1> QED
  BY <1>2, <1>4, <1>5, <1>6, <1>7 DEF IInv

LEMMA CommitRequestKeeps ==
  ASSUME IInv, NEW c \in Callers, CommitRequest(c)
  PROVE  IInv'
<1>1. /\ UNCHANGED <<launch, run, dispatcher, faults>> /\ request' = [request EXCEPT ![c] = None]
      /\ request[c] # None
  BY DEF CommitRequest
<1>2. /\ request'[c] = None /\ \A b \in Callers : b # c => request'[b] = request[b]
      /\ request' \in [Callers -> Runs \cup {None, "ordinary"}]
  BY <1>1 DEF IInv, LaunchTypeOK
<1>3. /\ shelf'.owner = shelf.owner
      /\ shelf' \in [owner : Runs \cup {None}, strays : [Callers -> 0..2]]
      /\ \A b \in Callers : b # c => shelf'.strays[b] = shelf.strays[b]
      /\ shelf'.strays[c] <= 1
  <2>1. /\ shelf \in [owner : Runs \cup {None}, strays : [Callers -> 0..2]]
        /\ \A b \in Callers : shelf.strays[b] <= 1
    BY DEF IInv, LaunchTypeOK, StrayKnows
  <2>2. CASE ~ Strays(c)
    BY <2>1, <2>2 DEF CommitRequest
  <2>3. CASE Strays(c)
    <3>1. shelf.strays[c] = 0
      BY <1>1, <2>1, <2>3 DEF Strays, IInv, StrayKnows
    <3>2. shelf' = [shelf EXCEPT !.strays[c] = 1]
      BY <2>3, <3>1 DEF CommitRequest
    <3> QED
      BY <2>1, <3>2
  <2> QED
    BY <2>2, <2>3
<1>4. LaunchTypeOK'
  BY <1>1, <1>2, <1>3 DEF IInv, LaunchTypeOK
<1>5. LaunchKnows' /\ RunKnows'
  BY <1>1, RowsStand
<1>6. DispatcherKnows'
  BY <1>1, <1>3 DEF IInv, DispatcherKnows, DispatcherStands
<1>7. StrayKnows'
  BY <1>1, <1>2, <1>3 DEF IInv, StrayKnows, Active
<1>8. NobodyWalksAway'
  BY <1>1, StillDriven
<1> QED
  BY <1>4, <1>5, <1>6, <1>7, <1>8 DEF IInv
-----------------------------------------------------------------------------
(***************************************************************************)
(* Every behaviour.                                                        *)
(***************************************************************************)

LEMMA InitIInv == Init => IInv
<1> SUFFICES ASSUME Init PROVE IInv
  OBVIOUS
<1>1. LaunchTypeOK
  BY DEF Init, LaunchTypeOK, LaunchStates, RunStates, Steps, NoLaunch, NoRun, Idle
<1>2. Active = {}
  BY DEF Init, Active, NoRun
<1>3. LaunchKnows
  BY DEF Init, LaunchKnows, NoLaunch
<1>4. RunKnows
  BY <1>2 DEF Init, RunKnows, NoRun
<1>5. DispatcherKnows
  BY DEF Init, DispatcherKnows, DispatcherStands, Idle
<1>6. StrayKnows
  BY <1>2 DEF Init, StrayKnows
<1>7. NobodyWalksAway
  BY <1>2 DEF Init, NobodyWalksAway, NoLaunch
<1> QED
  BY <1>1, <1>3, <1>4, <1>5, <1>6, <1>7 DEF IInv

LEMMA NextKeeps == IInv /\ [Next]_vars => IInv'
<1> SUFFICES ASSUME IInv, [Next]_vars PROVE IInv'
  OBVIOUS
<1>1. CASE UNCHANGED vars
  BY <1>1 DEF vars, IInv, LaunchTypeOK, LaunchKnows, RunKnows, DispatcherKnows, DispatcherStands,
              StrayKnows, NobodyWalksAway, Active, Driven
<1>2. ASSUME NEW l \in Launches, RequestLaunch(l) \/ Withdraw(l) \/ CancelQueued(l)
      PROVE  IInv'
  <2>1. \E status : Relabelled(l, status)
    BY <1>2 DEF RequestLaunch, Withdraw, CancelQueued, Relabelled, NoLaunch
  <2> QED
    BY <2>1, RelabelledKeeps
<1>3. ASSUME NEW r \in Runs, AbortRun(r) \/ SettleForTerminalRun(r) PROVE IInv'
  BY <1>3, AbortRunKeeps, SettleForTerminalRunKeeps
<1>4. ASSUME NEW w \in Dispatchers, Dispatch(w) PROVE IInv'
  BY <1>4, ClaimKeeps, PrepareWorldKeeps, StartRunKeeps, BindRunKeeps, LoseRunKeeps,
     ResetWorldKeeps, StartMissionKeeps, RecordMissionKeeps, CompleteRunKeeps,
     SettleCompletedKeeps, AbortHaltedKeeps, ReadHaltedKeeps, SettleHaltedKeeps
  DEF Dispatch
<1>5. ASSUME NEW w \in Dispatchers, HaltAtBind(w) \/ HaltRun(w) \/ Die(w) PROVE IInv'
  BY <1>5, HaltKeeps, DieKeeps
<1>6. ASSUME NEW w \in Dispatchers, NEW l \in Launches, RefuseLaunch(w, l) PROVE IInv'
  <2>1. Relabelled(l, "FAILED")
    BY <1>6 DEF RefuseLaunch, Relabelled
  <2> QED
    BY <2>1, RelabelledKeeps
<1>7. ASSUME NEW c \in Callers, CheckRequest(c) \/ CommitRequest(c) PROVE IInv'
  BY <1>7, CheckRequestKeeps, CommitRequestKeeps
<1> QED
  BY <1>1, <1>2, <1>3, <1>4, <1>5, <1>6, <1>7 DEF Next

\* The inductive invariant holds in every behaviour.
LEMMA Invariance == Spec => []IInv
  BY InitIInv, NextKeeps, PTL DEF Spec

\* What a settled launch says of its run is true, and what executes, executes for one
\* launch: claim, start_run and bind_run take their locks one by one, and the
\* merchant, the operator and other dispatchers act in between.
THEOREM LaunchesAgree == Spec => []LaunchAgreesWithRun
<1>1. IInv => LaunchAgreesWithRun
  <2> SUFFICES ASSUME IInv PROVE LaunchAgreesWithRun
    OBVIOUS
  <2>1. SettledAgrees
    BY DEF IInv, LaunchTypeOK, LaunchKnows, RunKnows, SettledAgrees
  <2>2. ASSUME NEW r \in Runs, run[r].begun > 0
        PROVE  Cardinality({l \in Launches : launch[l].run = r}) = 1
    <3>1. PICK l \in Launches : launch[l].run = r
      BY <2>2 DEF IInv, RunKnows
    <3>2. {k \in Launches : launch[k].run = r} = {l}
      BY <3>1 DEF IInv, LaunchKnows
    <3> QED
      BY <3>2, FS_Singleton
  <2> QED
    BY <2>1, <2>2 DEF IInv, LaunchAgreesWithRun, ExecutedIsBound
<1> QED
  BY <1>1, Invariance, PTL

\* Nobody else resets the shelf under a mission, and of the callers whose permission
\* was read before the run started, none changes it twice.
THEOREM ShelfKept == Spec => []ShelfIsKept
<1>1. IInv => ShelfIsKept
  BY DEF IInv, DispatcherKnows, DispatcherStands, StrayKnows, ShelfIsKept, OwnerKeepsShelf,
         StraysOnce, At
<1> QED
  BY <1>1, Invariance, PTL

\* Without a fault a run that executes, and a launch that does, has a process behind
\* it: on every way out of a dispatch the run is aborted or the launch settled.
THEOREM RunsAreDriven == Spec => []NobodyWalksAway
  BY Invariance, PTL DEF IInv

\* The evidence of a finished run, and a settlement, are final: the triggers turn away
\* the writes of every session that still believes otherwise.
THEOREM HistoryFrozen == Spec => HistoryIsFrozen
<1>1. IInv /\ [Next]_vars => [HistoryStays]_vars
  <2> SUFFICES ASSUME IInv, [Next]_vars PROVE [HistoryStays]_vars
    OBVIOUS
  <2> USE DEF HistoryStays, Settled, Terminal
  <2>1. CASE UNCHANGED vars
    BY <2>1
  <2>2. ASSUME NEW l \in Launches, NEW status,
               launch[l].status \in {"ABSENT", "QUEUED", "EXECUTING"},
               launch' = [launch EXCEPT ![l].status = status] \/ UNCHANGED launch, UNCHANGED run
        PROVE  HistoryStays
    BY <2>2 DEF IInv, LaunchTypeOK
  <2>3. ASSUME NEW r \in Runs, ~ Terminal(r), UNCHANGED launch,
               \E row : run' = [run EXCEPT ![r] = row]
        PROVE  HistoryStays
    BY <2>3 DEF IInv, LaunchTypeOK
  <2>4. ASSUME NEW l \in Launches, RequestLaunch(l) \/ Withdraw(l) \/ CancelQueued(l)
        PROVE  HistoryStays
    BY <2>2, <2>4 DEF RequestLaunch, Withdraw, CancelQueued, NoLaunch
  <2>5. ASSUME NEW r \in Runs, AbortRun(r) PROVE HistoryStays
    <3>1. ~ Terminal(r) /\ UNCHANGED launch /\ run' = [run EXCEPT ![r] = [run[r] EXCEPT !.status = "ABORTED"]]
      BY <2>5 DEF AbortRun
    <3> QED
      BY <2>3, <3>1
  <2>6. ASSUME NEW r \in Runs, SettleForTerminalRun(r) PROVE HistoryStays
    BY <2>2, <2>6 DEF SettleForTerminalRun
  <2>7. ASSUME NEW w \in Dispatchers, NEW l \in Launches, Claim(w, l) \/ RefuseLaunch(w, l)
        PROVE  HistoryStays
    BY <2>2, <2>7 DEF Claim, RefuseLaunch
  <2>8. ASSUME NEW w \in Dispatchers, UNCHANGED <<launch, run>> PROVE HistoryStays
    BY <2>8
  <2>9. ASSUME NEW w \in Dispatchers, StartRun(w) PROVE HistoryStays
    <3>1. CASE MayStart
      <4>1. NextRun \in Runs /\ run[NextRun] = NoRun
        BY <2>9, <3>1 DEF StartRun, NextRun, Unused
      <4>2. ~ Terminal(NextRun) /\ UNCHANGED launch
            /\ run' = [run EXCEPT ![NextRun] = [run[NextRun] EXCEPT !.status = "RUNNING"]]
        BY <2>9, <3>1, <4>1 DEF StartRun, NoRun
      <4> QED
        BY <2>3, <4>1, <4>2
    <3>2. CASE ~ MayStart
      BY <2>9, <3>2 DEF StartRun
    <3> QED
      BY <3>1, <3>2
  <2>10. ASSUME NEW w \in Dispatchers, BindRun(w) PROVE HistoryStays
    <3>1. dispatcher[w].launch \in Launches
      BY <2>10, DispatcherTyped DEF BindRun, At
    <3> QED
      BY <2>10, <3>1 DEF BindRun, IInv, LaunchTypeOK
  <2>11. ASSUME NEW w \in Dispatchers,
                StartMission(w) \/ RecordMission(w) \/ CompleteRun(w) \/ AbortHalted(w) \/ LoseRun(w)
         PROVE  HistoryStays
    <3> DEFINE r == dispatcher[w].run
    <3>1. r \in Runs
      BY <2>11, DriverTyped DEF StartMission, RecordMission, CompleteRun, AbortHalted, LoseRun, At
    <3>2. CASE ~ RunGuard(r)
      BY <2>11, <3>2
      DEF StartMission, RecordMission, CompleteRun, AbortHalted, LoseRun, Aborted
    <3>3. CASE RunGuard(r)
      <4>1. UNCHANGED launch /\ \E row : run' = [run EXCEPT ![r] = row]
        BY <2>11, <3>3
        DEF StartMission, RecordMission, CompleteRun, AbortHalted, LoseRun, Aborted
      <4> QED
        BY <2>3, <3>1, <3>3, <4>1 DEF RunGuard
    <3> QED
      BY <3>2, <3>3
  <2>12. ASSUME NEW w \in Dispatchers, SettleCompleted(w) \/ SettleHalted(w) PROVE HistoryStays
    <3>1. dispatcher[w].launch \in Launches
      BY <2>12, DriverTyped DEF SettleCompleted, SettleHalted, At
    <3>2. ASSUME NEW l \in Launches, NEW status, Write(l, status), UNCHANGED run PROVE HistoryStays
      <4>1. launch[l] \in LaunchRows
        BY RowTypes DEF IInv
      <4> QED
        BY <2>2, <3>2, <4>1 DEF Write, LaunchGuard, LaunchRows
    <3> QED
      BY <2>12, <3>1, <3>2 DEF SettleCompleted, SettleHalted
  <2>13. ASSUME NEW w \in Dispatchers,
                \/ PrepareWorld(w) \/ ResetWorld(w) \/ ReadHalted(w)
                \/ HaltAtBind(w) \/ HaltRun(w) \/ Die(w)
         PROVE  HistoryStays
    BY <2>8, <2>13 DEF PrepareWorld, ResetWorld, ReadHalted, HaltAtBind, HaltRun, Die
  <2>14. ASSUME NEW c \in Callers, CheckRequest(c) \/ CommitRequest(c) PROVE HistoryStays
    BY <2>14 DEF CheckRequest, CommitRequest
  <2> QED
    BY <2>1, <2>4, <2>5, <2>6, <2>7, <2>9, <2>10, <2>11, <2>12, <2>13, <2>14 DEF Next, Dispatch
<1> QED
  BY <1>1, Invariance, PTL DEF Spec, HistoryIsFrozen
=============================================================================
