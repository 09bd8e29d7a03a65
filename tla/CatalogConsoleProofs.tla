------------------------- MODULE CatalogConsoleProofs -------------------------
(***************************************************************************)
(* Proofs about the merchant's console: whichever requests interleave, no  *)
(* edit overwrites what its page did not show, an import holds its own     *)
(* draft, a publication its final reviews, and a waiting evaluation the    *)
(* world it was requested for.                                             *)
(***************************************************************************)
EXTENDS CatalogConsole, TLAPS

-----------------------------------------------------------------------------
(***************************************************************************)
(* Rows in the order they were written, and rows changed in place.         *)
(***************************************************************************)

\* Q is P, perhaps with more at its end.
Grows(P, Q) == /\ Len(P) \in Nat /\ Len(Q) \in Nat /\ Len(P) <= Len(Q)
               /\ \A n \in 1..Len(P) : Q[n] = P[n]

LEMMA Appended ==
  ASSUME NEW S, NEW q \in Seq(S), NEW x \in S
  PROVE  /\ Append(q, x) \in Seq(S) /\ Len(Append(q, x)) = Len(q) + 1
         /\ Append(q, x)[Len(q) + 1] = x /\ Grows(q, Append(q, x))
         /\ DOMAIN q = 1..Len(q) /\ DOMAIN Append(q, x) = 1..(Len(q) + 1)
  BY DEF Grows

LEMMA Unmoved ==
  ASSUME NEW S, NEW q \in Seq(S)
  PROVE  Grows(q, q) /\ DOMAIN q = 1..Len(q) /\ Len(q) \in Nat
  BY DEF Grows

\* What the rows are, with the domains of those that grow.
LEMMA RowFacts ==
  ASSUME IInv
  PROVE  /\ line \in Seq(Documents) /\ Current \in Nat /\ Current <= MaxSnapshots
         /\ \A n \in 1..Current : line[n] \in Documents /\ n \in Snapshots
         /\ published \in Seq(Publications) /\ DOMAIN published = 1..Len(published)
         /\ Len(published) \in Nat
         /\ \A p \in DOMAIN published : /\ published[p] \in Publications
                                        /\ published[p].source \in 1..Current
         /\ setups \in Seq(Nat) /\ DOMAIN setups = 1..Setup /\ Setup \in Nat
         /\ \A w \in DOMAIN setups : setups[w] \in Nat /\ setups[w] \in 1..Current
         /\ launches \in Seq(LaunchRows) /\ DOMAIN launches = 1..Len(launches)
         /\ Len(launches) \in Nat
         /\ \A l \in DOMAIN launches : launches[l] \in LaunchRows
         /\ run \in RunRows /\ run.launch \in Nat /\ run.launch <= Len(launches)
         /\ \A s \in Sessions : op[s] \in Operations /\ OperationStands(s)
<1>1. FieldsOK /\ SourcesKnown /\ \A s \in Sessions : OperationStands(s)
  BY DEF IInv
<1>2. line \in Seq(Documents) /\ Current \in Nat /\ Current <= MaxSnapshots
      /\ \A n \in 1..Current : line[n] \in Documents /\ n \in Snapshots
  BY <1>1, ConsoleAssumption DEF FieldsOK, Current, Snapshots
<1>3. published \in Seq(Publications) /\ DOMAIN published = 1..Len(published)
      /\ Len(published) \in Nat /\ \A p \in DOMAIN published : published[p] \in Publications
  BY <1>1 DEF FieldsOK
<1>4. setups \in Seq(Nat) /\ DOMAIN setups = 1..Setup /\ Setup \in Nat
      /\ \A w \in DOMAIN setups : setups[w] \in Nat
  BY <1>1 DEF FieldsOK, Setup
<1>5. launches \in Seq(LaunchRows) /\ DOMAIN launches = 1..Len(launches)
      /\ Len(launches) \in Nat /\ \A l \in DOMAIN launches : launches[l] \in LaunchRows
  BY <1>1 DEF FieldsOK
<1>6. run \in RunRows /\ run.launch \in Nat /\ run.launch <= Len(launches)
  BY <1>1 DEF FieldsOK, RunRows
<1>7. \A s \in Sessions : op[s] \in Operations
  BY <1>1 DEF FieldsOK
<1> QED
  BY <1>1, <1>2, <1>3, <1>4, <1>5, <1>6, <1>7 DEF SourcesKnown

\* What a request is in the middle of, by where it stands.
LEMMA OperationFacts ==
  ASSUME NEW o \in Operations
  PROVE  /\ o.pc \in {"idle", "retrieving", "linking", "compiling", "building", "requesting"}
         /\ o.pc = "idle" => o = Idle
         /\ o.pc \in {"retrieving", "linking"} => o.import \in Imports
         /\ o.pc \in {"compiling", "building"} => o.source \in Nat
         /\ o.pc = "requesting" => o.plan \in Plans /\ o.shown \in Plans
         /\ Idle \in Operations
  BY DEF Operations, OnImport, OnSource, OnPlan, Idle

-----------------------------------------------------------------------------
(***************************************************************************)
(* What a step leaves as it is.                                            *)
(***************************************************************************)

\* A publication speaks of a snapshot as long as the line keeps it.
LEMMA PublicationsKept ==
  ASSUME IInv, Grows(line, line'), UNCHANGED artifacts
  PROVE  PublishedIsReviewed'
<1>1. \A n \in 1..Current : line'[n] = line[n]
  BY DEF Grows, Current
<1>2. UNCHANGED <<compiled, published>>
  BY DEF artifacts
<1> QED
  BY <1>1, <1>2, RowFacts DEF IInv, PublishedIsReviewed, NeedsReview

\* What a plan measures stays, as long as the setups do.
LEMMA MeasuresKept ==
  ASSUME IInv, Grows(line, line'), UNCHANGED setups, NEW plan, NEW shown, Measures(plan, shown),
         plan.setup \in Nat
  PROVE  Measures(plan, shown)'
<1>1. /\ \A n \in 1..Current : line'[n] = line[n]
      /\ Current' \in Nat /\ Current <= Current' /\ Current \in Nat
  BY DEF Grows, Current
<1>2. Setup' = Setup /\ plan.source \in 1..Current' /\ plan.source \in 1..Current
  BY <1>1 DEF Setup, Measures
<1>3. plan.setup # 0 => plan.setup \in DOMAIN setups
  BY RowFacts DEF Measures
<1>4. plan.setup # 0 => setups[plan.setup] \in 1..Current
  BY <1>3, RowFacts
<1> QED
  BY <1>1, <1>2, <1>4 DEF Measures

LEMMA LaunchesKept ==
  ASSUME IInv, Grows(line, line'), UNCHANGED <<setups, launches>>
  PROVE  LaunchesStand'
<1>1. \A l \in Pending : /\ Measures(launches[l].plan, launches[l].shown)
                         /\ launches[l].plan.setup \in Nat
  BY RowFacts DEF IInv, LaunchesStand, Pending, LaunchRows, Plans
<1>2. \A l \in Pending : Measures(launches[l].plan, launches[l].shown)'
  BY <1>1, MeasuresKept
<1>3. Pending' = Pending
  BY DEF Pending
<1> QED
  BY <1>2, <1>3 DEF LaunchesStand

LEMMA SourcesKnownKept ==
  ASSUME IInv, Grows(line, line'), UNCHANGED <<published, setups>>
  PROVE  SourcesKnown'
<1>1. Current' \in Nat /\ Current <= Current' /\ Current \in Nat
  BY DEF Grows, Current
<1> QED
  BY <1>1, RowFacts DEF SourcesKnown

\* A session in the middle of something is not disturbed by another, nor by its own
\* step that leaves it where it is.
LEMMA OperationKept ==
  ASSUME IInv, Grows(line, line'), UNCHANGED setups, Pending' \subseteq Pending,
         NEW s \in Sessions, op'[s] = op[s], claim = s => claim' = s,
         \A i \in Imports : submission[i] # Unanswered => submission'[i] # Unanswered
  PROVE  OperationStands(s)'
<1>1. /\ op[s] \in Operations /\ OperationStands(s)
      /\ Current' \in Nat /\ Current <= Current' /\ Current \in Nat
  BY RowFacts DEF Grows, Current
<1>2. op[s].pc = "linking" => op[s].import \in Imports
  BY <1>1, OperationFacts
<1>3. op[s].pc = "requesting" => Measures(op[s].plan, op[s].shown)'
  <2>1. op[s].pc = "requesting" => Measures(op[s].plan, op[s].shown) /\ op[s].plan.setup \in Nat
    BY <1>1, OperationFacts DEF OperationStands, Plans
  <2> QED
    BY <2>1, MeasuresKept
<1> QED
  BY <1>1, <1>2, <1>3 DEF OperationStands

\* A step of one session, or of none, that leaves the evaluations as they are.
LEMMA SessionsKept ==
  ASSUME IInv, Grows(line, line'), UNCHANGED <<setups, claim>>, Pending' \subseteq Pending,
         \A i \in Imports : submission[i] # Unanswered => submission'[i] # Unanswered,
         NEW acting,
         \A s \in Sessions : s # acting => op'[s] = op[s],
         \A s \in Sessions : s = acting => OperationStands(s)'
  PROVE  \A s \in Sessions : OperationStands(s)'
  BY OperationKept

\* Of the line, its answers and the imports.
LEMMA SubmissionsKept ==
  ASSUME IInv, UNCHANGED sources
  PROVE  SubmissionsStand' /\ NoLostEdit' /\ Grows(line, line')
         /\ \A i \in Imports : submission[i] # Unanswered => submission'[i] # Unanswered
<1>1. UNCHANGED <<line, submission, imported>>
  BY DEF sources
<1>2. Grows(line, line')
  BY <1>1, RowFacts, Unmoved
<1> QED
  BY <1>1, <1>2 DEF IInv, SubmissionsStand, NoLostEdit, Confirmable, Current

-----------------------------------------------------------------------------
(***************************************************************************)
(* Writing the line, and importing.                                        *)
(***************************************************************************)

\* What an answered submission leaves on the line.
LEMMA Stores ==
  ASSUME IInv, NEW key \in SubmissionKeys, NEW doc \in Documents, NEW base \in Nat \cup {None},
         Store(key, doc, base)
  PROVE  /\ line' \in Seq(Documents) /\ Len(line') <= MaxSnapshots /\ Grows(line, line')
         /\ submission' \in [SubmissionKeys -> Answers]
         /\ submission[key] = Unanswered
         /\ submission'[key].snapshot \in 1..Current' /\ line'[submission'[key].snapshot] = doc
         /\ \A k \in SubmissionKeys : k # key => submission'[k] = submission[k]
         /\ NoLostEdit'
<1> DEFINE same == Current > 0 /\ line[Current] = doc
           grown == IF same THEN line ELSE Append(line, doc)
           answer == [snapshot |-> Len(grown), created |-> ~same, base |-> base]
<1>1. /\ line' = grown /\ submission' = [submission EXCEPT ![key] = answer]
      /\ submission[key] = Unanswered /\ (base = None \/ base = Current)
      /\ same \/ Current < MaxSnapshots
  BY DEF Store, BaseIsCurrent
<1>2. /\ line \in Seq(Documents) /\ Current \in Nat /\ Current <= MaxSnapshots /\ MaxSnapshots \in Nat
      /\ submission \in [SubmissionKeys -> Answers] /\ Current = Len(line)
  BY RowFacts, ConsoleAssumption DEF IInv, FieldsOK, Current
<1> DEFINE n == Len(grown)
<1>3. /\ grown \in Seq(Documents) /\ n <= MaxSnapshots /\ Grows(line, grown)
      /\ n \in 1..n /\ grown[n] = doc /\ n = IF same THEN Current ELSE Current + 1
  <2>1. CASE same
    <3>1. grown = line
      BY <2>1
    <3> HIDE DEF grown
    <3> QED
      BY <1>2, <2>1, <3>1, Unmoved
  <2>2. CASE ~same
    <3>1. grown = Append(line, doc)
      BY <2>2
    <3> HIDE DEF grown
    <3>2. n = Current + 1 /\ grown \in Seq(Documents) /\ Grows(line, grown) /\ grown[n] = doc
      BY <1>2, <3>1, Appended
    <3> QED
      BY <1>1, <1>2, <2>2, <3>2
  <2> QED
    BY <2>1, <2>2
<1>4. Current' = n
  BY <1>1 DEF Current
<1>5. same \in BOOLEAN /\ (~same) \in BOOLEAN
  OBVIOUS
<1> HIDE DEF same, grown
<1>6. answer \in Answers
  BY <1>3, <1>5 DEF Answers
<1>7. /\ answer.snapshot = n /\ answer.base = base /\ answer.created = ~same
  OBVIOUS
<1> HIDE DEF answer
<1>8. /\ submission' \in [SubmissionKeys -> Answers] /\ submission'[key] = answer
      /\ \A k \in SubmissionKeys : k # key => submission'[k] = submission[k]
  BY <1>1, <1>2, <1>6
<1>9. NoLostEdit'
  <2>1. ASSUME NEW k \in Keys, submission'[k].base # None
        PROVE  submission'[k].snapshot =
                 IF submission'[k].created THEN submission'[k].base + 1 ELSE submission'[k].base
    <3>1. CASE k = key
      <4>1. base = Current /\ submission'[k] = answer
        BY <1>1, <1>7, <1>8, <2>1, <3>1
      <4>2. CASE same
        BY <1>3, <1>7, <4>1, <4>2
      <4>3. CASE ~same
        BY <1>3, <1>7, <4>1, <4>3
      <4> QED
        BY <4>2, <4>3
    <3>2. CASE k # key
      BY <1>8, <2>1, <3>2 DEF IInv, NoLostEdit, SubmissionKeys
    <3> QED
      BY <3>1, <3>2
  <2> QED
    BY <2>1 DEF NoLostEdit
<1> QED
  BY <1>1, <1>3, <1>4, <1>7, <1>8, <1>9

\* A step that stores a document, and moves one session or none.
LEMMA StoreKeeps ==
  ASSUME IInv, NEW key \in SubmissionKeys, NEW doc \in Documents, NEW base \in Nat \cup {None},
         Store(key, doc, base), key \in Imports => Confirmable(key) /\ doc = imported[key].draft,
         UNCHANGED <<imported, artifacts, evaluations, tab>>, op' \in [Sessions -> Operations],
         NEW acting, \A s \in Sessions : s # acting => op'[s] = op[s],
         \A s \in Sessions : s = acting /\ op'[s] # op[s] =>
           /\ op'[s].pc = "linking"
           /\ op'[s].import \in SubmissionKeys
           /\ op'[s].import = key
  PROVE  IInv'
<1>1. /\ UNCHANGED <<imported, compiled, published, setups, foreign, launches, run, claim, tab>>
      /\ UNCHANGED artifacts
  BY DEF artifacts, evaluations
<1>2. /\ line' \in Seq(Documents) /\ Len(line') <= MaxSnapshots /\ Grows(line, line')
      /\ submission' \in [SubmissionKeys -> Answers]
      /\ submission[key] = Unanswered
      /\ submission'[key].snapshot \in 1..Current' /\ line'[submission'[key].snapshot] = doc
      /\ \A k \in SubmissionKeys : k # key => submission'[k] = submission[k]
      /\ NoLostEdit'
  BY Stores
<1>3. /\ \A n \in 1..Current : line'[n] = line[n]
      /\ Current' \in Nat /\ Current <= Current' /\ Current \in Nat
  BY <1>2 DEF Grows, Current
<1>4. FieldsOK'
  BY <1>1, <1>2 DEF IInv, FieldsOK
<1>5. submission'[key] # Unanswered
  BY <1>2 DEF Unanswered
<1>6. SubmissionsStand'
  <2>1. ASSUME NEW k \in SubmissionKeys, submission'[k] # Unanswered
        PROVE  submission'[k].snapshot \in 1..Current'
    <3>1. CASE k = key
      BY <1>2, <3>1
    <3>2. CASE k # key
      BY <1>2, <1>3, <2>1, <3>2 DEF IInv, SubmissionsStand
    <3> QED
      BY <3>1, <3>2
  <2>2. ASSUME NEW i \in Imports
        PROVE  /\ submission'[i] # Unanswered =>
                    Confirmable(i) /\ line'[submission'[i].snapshot] = imported[i].draft
               /\ imported[i].snapshot # 0 =>
                    submission'[i] # Unanswered /\ imported[i].snapshot = submission'[i].snapshot
    <3>1. i \in SubmissionKeys
      BY DEF SubmissionKeys
    <3>2. CASE i = key
      BY <1>2, <1>5, <3>2 DEF IInv, SubmissionsStand
    <3>3. CASE i # key
      <4>1. submission'[i] = submission[i]
        BY <1>2, <3>1, <3>3
      <4>2. submission[i] # Unanswered => submission[i].snapshot \in 1..Current
        BY <3>1 DEF IInv, SubmissionsStand
      <4> QED
        BY <1>3, <4>1, <4>2 DEF IInv, SubmissionsStand
    <3> QED
      BY <3>2, <3>3
  <2> QED
    BY <1>1, <2>1, <2>2 DEF SubmissionsStand, Confirmable
<1>7. \A i \in Imports : submission[i] # Unanswered => submission'[i] # Unanswered
  BY <1>2 DEF SubmissionKeys
<1>8. \A s \in Sessions : OperationStands(s)'
  <2>1. ASSUME NEW s \in Sessions PROVE OperationStands(s)'
    <3>1. CASE op'[s] = op[s]
      BY <1>1, <1>2, <1>7, <3>1, OperationKept DEF Pending
    <3>2. CASE op'[s] # op[s]
      BY <1>5, <3>2 DEF OperationStands
    <3> QED
      BY <3>1, <3>2
  <2> QED
    BY <2>1
<1> QED
  BY <1>1, <1>2, <1>4, <1>6, <1>8, PublicationsKept, LaunchesKept, SourcesKnownKept DEF IInv

LEMMA SubmitKeeps ==
  ASSUME IInv, Submit
  PROVE  IInv'
<1>1. PICK key \in Keys, doc \in Documents, base \in {None, tab.base} : Store(key, doc, base)
  BY DEF Submit
<1>2. key \in SubmissionKeys /\ key \notin Imports /\ base \in Nat \cup {None}
  BY ConsoleAssumption DEF SubmissionKeys, IInv, FieldsOK
<1>3. UNCHANGED <<imported, artifacts, evaluations, tab>> /\ UNCHANGED op
  BY DEF Submit
<1>4. op' \in [Sessions -> Operations]
  BY <1>3 DEF IInv, FieldsOK
<1> QED
  BY <1>1, <1>2, <1>3, <1>4, StoreKeeps

LEMMA PublishSourceKeeps ==
  ASSUME IInv, PublishSource
  PROVE  IInv'
<1>1. PICK doc \in Fixtures : line' = Append(line, doc)
  BY DEF PublishSource
<1>2. /\ Current < MaxSnapshots /\ UNCHANGED <<submission, imported>> /\ UNCHANGED artifacts
      /\ UNCHANGED <<compiled, published, setups, foreign, launches, run, claim, tab, op>>
  BY DEF PublishSource, artifacts, evaluations
<1>3. /\ line' \in Seq(Documents) /\ Len(line') = Len(line) + 1 /\ Grows(line, line')
  BY <1>1, RowFacts, Appended, ConsoleAssumption
<1>4. /\ \A n \in 1..Current : line'[n] = line[n]
      /\ Current' \in Nat /\ Current <= Current' /\ Current \in Nat /\ Len(line') <= MaxSnapshots
  BY <1>2, <1>3, ConsoleAssumption DEF Grows, Current
<1>5. FieldsOK'
  BY <1>2, <1>3, <1>4 DEF IInv, FieldsOK
<1>6. SubmissionsStand' /\ NoLostEdit'
  BY <1>2, <1>4 DEF IInv, SubmissionsStand, Confirmable, NoLostEdit, SubmissionKeys
<1>7. \A s \in Sessions : OperationStands(s)'
  BY <1>2, <1>3, OperationKept DEF Pending
<1> QED
  BY <1>2, <1>3, <1>5, <1>6, <1>7, PublicationsKept, LaunchesKept, SourcesKnownKept DEF IInv

\* A step that writes nothing but where a session stands, and what the page shows.
LEMMA QuietKeeps ==
  ASSUME IInv, UNCHANGED <<sources, artifacts, evaluations>>,
         tab' \in [base : Nat, plan : Plans \cup {None}],
         op' \in [Sessions -> Operations], NEW acting,
         \A s \in Sessions : s # acting => op'[s] = op[s],
         \A s \in Sessions : s = acting => OperationStands(s)'
  PROVE  IInv'
<1>1. UNCHANGED <<line, submission, imported, compiled, published, setups, foreign, launches, run,
                  claim>>
  BY DEF sources, artifacts, evaluations
<1>2. FieldsOK'
  BY <1>1 DEF IInv, FieldsOK
<1>3. SubmissionsStand' /\ NoLostEdit' /\ Grows(line, line')
      /\ \A i \in Imports : submission[i] # Unanswered => submission'[i] # Unanswered
  BY SubmissionsKept
<1>4. \A s \in Sessions : OperationStands(s)'
  BY <1>1, <1>3, SessionsKept DEF Pending
<1> QED
  BY <1>1, <1>2, <1>3, <1>4, PublicationsKept, LaunchesKept, SourcesKnownKept DEF IInv

LEMMA IdleStands ==
  ASSUME NEW s \in Sessions, op'[s] = Idle
  PROVE  OperationStands(s)'
  BY DEF OperationStands, Idle

LEMMA RetrieveKeeps ==
  ASSUME IInv, NEW s \in Sessions, Retrieve(s)
  PROVE  IInv'
<1>1. PICK i \in Imports : op' = [op EXCEPT ![s] = [pc |-> "retrieving", import |-> i]]
  BY DEF Retrieve
<1> DEFINE o == [pc |-> "retrieving", import |-> i]
<1>2. o \in Operations /\ o.pc = "retrieving"
  BY DEF Operations, OnImport
<1> HIDE DEF o
<1>3. /\ op' \in [Sessions -> Operations] /\ op'[s] = o
      /\ \A q \in Sessions : q # s => op'[q] = op[q]
  BY <1>1, <1>2 DEF IInv, FieldsOK, o
<1>4. OperationStands(s)'
  BY <1>2, <1>3 DEF OperationStands
<1>5. UNCHANGED <<sources, artifacts, evaluations>> /\ tab' \in [base : Nat, plan : Plans \cup {None}]
  BY DEF Retrieve, IInv, FieldsOK
<1> QED
  BY <1>3, <1>4, <1>5, QuietKeeps

LEMMA ConfirmKeeps ==
  ASSUME IInv, NEW s \in Sessions, Confirm(s)
  PROVE  IInv'
<1>1. PICK i \in Imports :
        /\ imported[i] # NoImport
        /\ \/ submission[i] # Unanswered /\ UNCHANGED <<line, submission>>
           \/ Confirmable(i) /\ Store(i, imported[i].draft, None)
        /\ op' = [op EXCEPT ![s] = [pc |-> "linking", import |-> i]]
  BY DEF Confirm
<1> DEFINE o == [pc |-> "linking", import |-> i]
<1>2. o \in Operations /\ o.pc = "linking" /\ o.import = i
  BY DEF Operations, OnImport
<1> HIDE DEF o
<1>3. /\ op' \in [Sessions -> Operations] /\ op'[s] = o
      /\ \A q \in Sessions : q # s => op'[q] = op[q]
  BY <1>1, <1>2 DEF IInv, FieldsOK, o
<1>4. /\ UNCHANGED <<imported, artifacts, evaluations, tab>> /\ UNCHANGED <<artifacts, evaluations>>
      /\ tab' \in [base : Nat, plan : Plans \cup {None}] /\ UNCHANGED imported
  BY DEF Confirm, IInv, FieldsOK
<1>5. CASE submission[i] # Unanswered /\ UNCHANGED <<line, submission>>
  <2>1. UNCHANGED sources
    BY <1>4, <1>5 DEF sources
  <2>2. OperationStands(s)'
    BY <1>2, <1>3, <1>5 DEF OperationStands
  <2> QED
    BY <1>3, <1>4, <2>1, <2>2, QuietKeeps
<1>6. CASE Confirmable(i) /\ Store(i, imported[i].draft, None)
  <2>1. i \in SubmissionKeys /\ imported[i].draft \in Documents /\ None \in Nat \cup {None}
    BY <1>6 DEF SubmissionKeys, Confirmable, IInv, FieldsOK, ImportRows
  <2> DEFINE doc == imported[i].draft
  <2>2. doc \in Documents /\ doc = imported[i].draft /\ Store(i, doc, None)
    BY <1>6, <2>1
  <2> HIDE DEF doc
  <2>3. i \in Imports => Confirmable(i) /\ doc = imported[i].draft
    BY <1>6, <2>2
  <2>4. \A q \in Sessions : q = s /\ op'[q] # op[q] =>
          /\ op'[q].pc = "linking"
          /\ op'[q].import \in SubmissionKeys
          /\ op'[q].import = i
    BY <1>2, <1>3, <2>1
  <2>5. UNCHANGED <<imported, artifacts, evaluations, tab>>
    BY <1>4
  <2> QED
    BY <1>3, <2>1, <2>2, <2>3, <2>4, <2>5, StoreKeeps
<1> QED
  BY <1>1, <1>5, <1>6

\* A step that writes the row of an import, and ends the session's business with it.
LEMMA ImportKeeps ==
  ASSUME IInv, NEW s \in Sessions, op' = [op EXCEPT ![s] = Idle],
         UNCHANGED <<line, submission, artifacts, evaluations, tab>>,
         imported' \in [Imports -> ImportRows],
         \A i \in Imports :
           /\ submission[i] # Unanswered =>
                imported'[i].draft # None /\ line[submission[i].snapshot] = imported'[i].draft
           /\ imported'[i].snapshot # 0 =>
                submission[i] # Unanswered /\ imported'[i].snapshot = submission[i].snapshot
  PROVE  IInv'
<1>1. UNCHANGED <<line, submission, compiled, published, setups, foreign, launches, run, claim, tab>>
  BY DEF artifacts, evaluations
<1>2. /\ op' \in [Sessions -> Operations] /\ op'[s] = Idle
      /\ \A q \in Sessions : q # s => op'[q] = op[q]
  BY OperationFacts DEF IInv, FieldsOK, Operations
<1>3. FieldsOK'
  BY <1>1, <1>2 DEF IInv, FieldsOK
<1>4. Grows(line, line')
  BY <1>1, RowFacts, Unmoved
<1>5. SubmissionsStand' /\ NoLostEdit'
  BY <1>1 DEF IInv, SubmissionsStand, NoLostEdit, Confirmable, Current
<1>6. \A q \in Sessions : OperationStands(q)'
  BY <1>1, <1>2, <1>4, IdleStands, SessionsKept DEF Pending
<1> QED
  BY <1>1, <1>3, <1>4, <1>5, <1>6, PublicationsKept, LaunchesKept, SourcesKnownKept DEF IInv

LEMMA StoreDraftKeeps ==
  ASSUME IInv, NEW s \in Sessions, StoreDraft(s)
  PROVE  IInv'
<1> DEFINE i == op[s].import
<1>1. /\ op[s].pc = "retrieving" /\ i \in Imports
      /\ op' = [op EXCEPT ![s] = Idle]
      /\ UNCHANGED <<line, submission, artifacts, evaluations, tab>>
  BY RowFacts, OperationFacts DEF StoreDraft
<1>2. imported \in [Imports -> ImportRows]
  BY DEF IInv, FieldsOK
<1>3. CASE imported[i] # NoImport
  <2>1. imported' = imported
    BY <1>3 DEF StoreDraft
  <2> QED
    BY <1>1, <1>2, <2>1, ImportKeeps DEF IInv, SubmissionsStand, Confirmable
<1>4. CASE imported[i] = NoImport
  <2>1. PICK draft \in Drafts : imported' = [imported EXCEPT ![i].stored = TRUE, ![i].draft = draft]
    BY <1>4 DEF StoreDraft
  <2> DEFINE row == [imported[i] EXCEPT !.stored = TRUE, !.draft = draft]
  <2>2. draft \in Documents \cup {None}
    BY ConsoleAssumption
  <2>3. row \in ImportRows /\ row.snapshot = 0
    <3> DEFINE y == [imported[i] EXCEPT !.stored = TRUE]
    <3>1. y \in ImportRows /\ y.snapshot = 0
      <4>1. imported[i] \in ImportRows /\ imported[i].snapshot = 0
        BY <1>1, <1>2, <1>4 DEF NoImport
      <4> HIDE DEF i
      <4> QED
        BY <4>1 DEF ImportRows
    <3>2. row = [y EXCEPT !.draft = draft]
      BY <1>4 DEF NoImport
    <3> HIDE DEF y, row
    <3> QED
      BY <2>2, <3>1, <3>2 DEF ImportRows
  <2>4. imported' = [imported EXCEPT ![i] = row]
    BY <1>1, <1>2, <2>1 DEF ImportRows
  <2> HIDE DEF row, i
  <2>5. submission[i] = Unanswered
    BY <1>1, <1>4 DEF IInv, SubmissionsStand, Confirmable, NoImport
  <2>6. /\ imported' \in [Imports -> ImportRows] /\ imported'[i] = row
        /\ \A k \in Imports : k # i => imported'[k] = imported[k]
    BY <1>1, <1>2, <2>3, <2>4
  <2>7. \A k \in Imports :
          /\ submission[k] # Unanswered =>
               imported'[k].draft # None /\ line[submission[k].snapshot] = imported'[k].draft
          /\ imported'[k].snapshot # 0 =>
               submission[k] # Unanswered /\ imported'[k].snapshot = submission[k].snapshot
    BY <2>3, <2>5, <2>6 DEF IInv, SubmissionsStand, Confirmable
  <2> QED
    BY <1>1, <2>6, <2>7, ImportKeeps
<1> QED
  BY <1>3, <1>4

LEMMA LinkKeeps ==
  ASSUME IInv, NEW s \in Sessions, Link(s)
  PROVE  IInv'
<1> DEFINE i == op[s].import
           snap == submission[i].snapshot
<1>1. /\ i \in Imports /\ submission[i] # Unanswered
      /\ op' = [op EXCEPT ![s] = Idle]
      /\ UNCHANGED <<line, submission, artifacts, evaluations, tab>>
      /\ imported' = IF imported[i].snapshot = 0
                     THEN [imported EXCEPT ![i].snapshot = snap] ELSE imported
  BY RowFacts, OperationFacts DEF Link, OperationStands, Linked
<1>2. imported \in [Imports -> ImportRows]
  BY DEF IInv, FieldsOK
<1>3. CASE imported[i].snapshot # 0
  <2>1. imported' = imported
    BY <1>1, <1>3
  <2> QED
    BY <1>1, <1>2, <2>1, ImportKeeps DEF IInv, SubmissionsStand, Confirmable
<1>4. CASE imported[i].snapshot = 0
  <2> DEFINE row == [imported[i] EXCEPT !.snapshot = snap]
  <2>1. snap \in Nat
    BY <1>1 DEF IInv, FieldsOK, SubmissionKeys, Answers
  <2>2. row \in ImportRows /\ row.snapshot = snap /\ row.draft = imported[i].draft
    <3> HIDE DEF snap
    <3> QED
      BY <1>1, <1>2, <2>1 DEF ImportRows
  <2>3. imported' = [imported EXCEPT ![i] = row]
    BY <1>1, <1>2, <1>4 DEF ImportRows
  <2> HIDE DEF row
  <2>4. /\ imported' \in [Imports -> ImportRows] /\ imported'[i] = row
        /\ \A k \in Imports : k # i => imported'[k] = imported[k]
    BY <1>1, <1>2, <2>2, <2>3
  <2>5. \A k \in Imports :
          /\ submission[k] # Unanswered =>
               imported'[k].draft # None /\ line[submission[k].snapshot] = imported'[k].draft
          /\ imported'[k].snapshot # 0 =>
               submission[k] # Unanswered /\ imported'[k].snapshot = submission[k].snapshot
    BY <1>1, <2>2, <2>4 DEF IInv, SubmissionsStand, Confirmable
  <2> QED
    BY <1>1, <2>4, <2>5, ImportKeeps
<1> QED
  BY <1>3, <1>4

-----------------------------------------------------------------------------
(***************************************************************************)
(* Compilation, review and publication.                                    *)
(***************************************************************************)

LEMMA CompileKeeps ==
  ASSUME IInv, NEW s \in Sessions, Compile(s)
  PROVE  IInv'
<1>1. PICK n \in 1..Current : op' = [op EXCEPT ![s] = [pc |-> "compiling", source |-> n]]
  BY DEF Compile
<1> DEFINE o == [pc |-> "compiling", source |-> n]
<1>2. n \in Nat
  BY RowFacts
<1>3. o \in Operations /\ o.pc = "compiling" /\ o.source = n
  BY <1>2 DEF Operations, OnSource
<1> HIDE DEF o
<1>4. /\ op' \in [Sessions -> Operations] /\ op'[s] = o
      /\ \A q \in Sessions : q # s => op'[q] = op[q]
  BY <1>1, <1>3 DEF IInv, FieldsOK, o
<1>5. UNCHANGED <<sources, artifacts, evaluations>> /\ tab' \in [base : Nat, plan : Plans \cup {None}]
  BY DEF Compile, IInv, FieldsOK
<1>6. OperationStands(s)'
  <2>1. Current' = Current
    BY <1>5 DEF sources, Current
  <2> QED
    BY <1>3, <1>4, <2>1 DEF OperationStands
<1> QED
  BY <1>4, <1>5, <1>6, QuietKeeps

\* A step that writes the compiler's rows; a session may end its business with it.
LEMMA ArtifactKeeps ==
  ASSUME IInv, UNCHANGED <<sources, evaluations, tab>>,
         op' \in [Sessions -> Operations], \A s \in Sessions : op'[s] = op[s] \/ op'[s] = Idle,
         compiled' \in [Snapshots -> CompilerRuns], published' \in Seq(Publications),
         \A p \in DOMAIN published' : published'[p].source \in 1..Current,
         PublishedIsReviewed'
  PROVE  IInv'
<1>1. UNCHANGED <<line, submission, imported, setups, foreign, launches, run, claim, tab>>
  BY DEF sources, evaluations
<1>2. FieldsOK'
  BY <1>1 DEF IInv, FieldsOK
<1>3. SubmissionsStand' /\ NoLostEdit' /\ Grows(line, line')
      /\ \A i \in Imports : submission[i] # Unanswered => submission'[i] # Unanswered
  BY SubmissionsKept
<1>4. \A s \in Sessions : OperationStands(s)'
  BY <1>1, <1>3, OperationKept, IdleStands DEF Pending
<1>5. SourcesKnown'
  BY <1>1, RowFacts DEF SourcesKnown, Current
<1> QED
  BY <1>1, <1>2, <1>3, <1>4, <1>5, LaunchesKept DEF IInv

LEMMA StoreRunKeeps ==
  ASSUME IInv, NEW s \in Sessions, StoreRun(s)
  PROVE  IInv'
<1> DEFINE n == op[s].source
           status == IF line[n] \in Unreadable THEN "FAILED" ELSE "COMPLETED"
           row == [compiled[n] EXCEPT !.status = status]
<1>1. /\ op' = [op EXCEPT ![s] = Idle] /\ UNCHANGED <<sources, published, evaluations, tab>>
      /\ n \in 1..Current /\ n \in Snapshots
      /\ compiled' = IF compiled[n] # NoRun THEN compiled ELSE [compiled EXCEPT ![n].status = status]
  BY RowFacts DEF StoreRun, OperationStands
<1>2. compiled \in [Snapshots -> CompilerRuns] /\ status \in {"FAILED", "COMPLETED"}
  BY DEF IInv, FieldsOK
<1>3. /\ op' \in [Sessions -> Operations] /\ \A q \in Sessions : op'[q] = op[q] \/ op'[q] = Idle
  BY <1>1, OperationFacts DEF IInv, FieldsOK, Operations
<1>4. compiled[n].published \in Nat /\ compiled[n] \in CompilerRuns
  BY <1>1, <1>2 DEF CompilerRuns
<1> HIDE DEF status, n
<1>5. /\ compiled' \in [Snapshots -> CompilerRuns]
      /\ \A k \in Snapshots : /\ compiled'[k].review = compiled[k].review
                              /\ compiled'[k].published = compiled[k].published
  <2>1. CASE compiled[n] # NoRun
    BY <1>1, <1>2, <2>1
  <2>2. CASE compiled[n] = NoRun
    <3>1. row \in CompilerRuns /\ row.review = compiled[n].review /\ row.published = compiled[n].published
      BY <1>2, <1>4 DEF CompilerRuns
    <3>2. compiled' = [compiled EXCEPT ![n] = row]
      BY <1>1, <2>2
    <3> HIDE DEF row
    <3> QED
      BY <1>1, <1>2, <3>1, <3>2
  <2> QED
    BY <2>1, <2>2
<1>6. published' = published /\ line' = line
  BY <1>1 DEF sources
<1>7. \A p \in DOMAIN published : published[p].source \in 1..Current /\ published[p].source \in Snapshots
  BY RowFacts
<1>8. PublishedIsReviewed'
  BY <1>5, <1>6, <1>7 DEF IInv, PublishedIsReviewed, NeedsReview
<1>9. published' \in Seq(Publications) /\ UNCHANGED <<sources, evaluations, tab>>
  BY <1>1, <1>6, RowFacts
<1> QED
  BY <1>3, <1>5, <1>6, <1>7, <1>8, <1>9, ArtifactKeeps

LEMMA ReviewKeeps ==
  ASSUME IInv, Review
  PROVE  IInv'
<1>1. PICK n \in 1..Current, decision \in Decisions :
        /\ compiled[n].review = None /\ compiled[n].published = 0
        /\ compiled' = [compiled EXCEPT ![n].review = decision]
  BY DEF Review, ReviewIsOpen
<1> DEFINE row == [compiled[n] EXCEPT !.review = decision]
<1>2. compiled \in [Snapshots -> CompilerRuns] /\ n \in Snapshots
  BY RowFacts DEF IInv, FieldsOK
<1>3. row \in CompilerRuns /\ row.published = 0
  BY <1>1, <1>2 DEF CompilerRuns
<1>4. compiled' = [compiled EXCEPT ![n] = row]
  BY <1>1
<1> HIDE DEF row
<1>5. /\ compiled' \in [Snapshots -> CompilerRuns] /\ \A k \in Snapshots : k # n => compiled'[k] = compiled[k]
  BY <1>2, <1>3, <1>4
<1>6. UNCHANGED <<sources, evaluations, tab>> /\ published' = published /\ op' = op /\ line' = line
  BY DEF Review, sources
<1>7. \A p \in DOMAIN published : /\ published[p].source \in 1..Current
                                  /\ published[p].source \in Snapshots /\ p \in 1..Len(published)
  BY RowFacts
<1>8. \A p \in DOMAIN published : published[p].source # n
  BY <1>1, <1>7 DEF IInv, PublishedIsReviewed
<1>9. PublishedIsReviewed'
  BY <1>5, <1>6, <1>7, <1>8 DEF IInv, PublishedIsReviewed, NeedsReview
<1>10. /\ published' \in Seq(Publications) /\ op' \in [Sessions -> Operations]
       /\ \A s \in Sessions : op'[s] = op[s] \/ op'[s] = Idle
  BY <1>6, RowFacts DEF IInv, FieldsOK
<1> QED
  BY <1>5, <1>6, <1>7, <1>9, <1>10, ArtifactKeeps

LEMMA PublishKeeps ==
  ASSUME IInv, Publish
  PROVE  IInv'
<1>1. PICK n \in 1..Current :
        /\ compiled[n].published = 0 /\ Resolved(n)
        /\ published' = Append(published, [source |-> n, review |-> compiled[n].review])
        /\ compiled' = [compiled EXCEPT ![n].published = Len(published')]
  BY DEF Publish
<1> DEFINE made == [source |-> n, review |-> compiled[n].review]
           last == Len(published) + 1
           row == [compiled[n] EXCEPT !.published = last]
<1>2. /\ compiled \in [Snapshots -> CompilerRuns] /\ n \in Snapshots /\ n \in Nat
      /\ compiled[n] \in CompilerRuns /\ Len(published) \in Nat /\ last \in Nat
  BY RowFacts DEF IInv, FieldsOK
<1>3. made \in Publications /\ made.source = n /\ made.review = compiled[n].review
  BY <1>2 DEF Publications, CompilerRuns
<1> HIDE DEF made
<1>4. published' = Append(published, made)
  BY <1>1 DEF made
<1>5. /\ published' \in Seq(Publications) /\ Len(published') = last /\ published'[last] = made
      /\ DOMAIN published' = 1..last /\ DOMAIN published = 1..Len(published)
      /\ \A p \in DOMAIN published : published'[p] = published[p]
  BY <1>3, <1>4, RowFacts, Appended DEF Grows
<1> HIDE DEF last
<1>6. row \in CompilerRuns /\ row.published = last /\ row.review = compiled[n].review
  BY <1>2 DEF CompilerRuns
<1>7. compiled' = [compiled EXCEPT ![n] = row]
  BY <1>1, <1>5
<1> HIDE DEF row
<1>8. /\ compiled' \in [Snapshots -> CompilerRuns] /\ compiled'[n] = row
      /\ \A k \in Snapshots : k # n => compiled'[k] = compiled[k]
  BY <1>2, <1>6, <1>7
<1>9. UNCHANGED <<sources, evaluations, tab>> /\ op' = op /\ line' = line
  BY DEF Publish, sources
<1>10. \A p \in DOMAIN published : /\ published[p].source \in 1..Current
                                   /\ published[p].source \in Snapshots /\ p \in 1..Len(published)
                                   /\ published[p].source # n
  BY <1>1, RowFacts DEF IInv, PublishedIsReviewed
<1>11. \A p \in DOMAIN published' : p = last \/ p \in DOMAIN published
  BY <1>2, <1>5 DEF last
<1>12. \A p \in DOMAIN published' :
         /\ published'[p].review = compiled'[published'[p].source].review
         /\ line'[published'[p].source] \in Doubtful => published'[p].review # None
         /\ compiled'[published'[p].source].published = p
  <2>1. NeedsReview(n) => made.review # None
    BY <1>1, <1>3 DEF Resolved
  <2>2. ASSUME NEW p \in DOMAIN published'
        PROVE  /\ published'[p].review = compiled'[published'[p].source].review
               /\ line'[published'[p].source] \in Doubtful => published'[p].review # None
               /\ compiled'[published'[p].source].published = p
    <3>1. CASE p = last
      BY <1>3, <1>5, <1>6, <1>8, <1>9, <2>1, <3>1 DEF NeedsReview
    <3>2. CASE p \in DOMAIN published
      BY <1>5, <1>8, <1>9, <1>10, <3>2 DEF IInv, PublishedIsReviewed, NeedsReview
    <3> QED
      BY <1>11, <3>1, <3>2
  <2> QED
    BY <2>2
<1>13. \A p, q \in DOMAIN published' : published'[p].source = published'[q].source => p = q
  BY <1>12
<1>14. PublishedIsReviewed'
  BY <1>12, <1>13 DEF PublishedIsReviewed, NeedsReview
<1>15. \A p \in DOMAIN published' : published'[p].source \in 1..Current
  BY <1>3, <1>5, <1>10, <1>11
<1>16. /\ op' \in [Sessions -> Operations] /\ \A s \in Sessions : op'[s] = op[s] \/ op'[s] = Idle
  BY <1>9 DEF IInv, FieldsOK
<1> QED
  BY <1>5, <1>8, <1>9, <1>14, <1>15, <1>16, ArtifactKeeps

-----------------------------------------------------------------------------
(***************************************************************************)
(* Setups and evaluations.                                                 *)
(***************************************************************************)

\* A plan is of the merchant's newest setup, and what it measures is on the line.
LEMMA PlanFacts ==
  ASSUME IInv
  PROVE  /\ Plan \in Plans
         /\ Launchable(Plan) => Measures(Plan, Plan)
<1> DEFINE source == IF Purpose = "INITIAL" THEN EvaluatedSource
                     ELSE IF published = <<>> THEN 0 ELSE published[Len(published)].source
<1>1. Purpose \in Purposes
  BY DEF Purpose, Purposes
<1>2. Setup # 0 => Setup \in DOMAIN setups /\ setups[Setup] \in 1..Current
  BY RowFacts
<1>3. EvaluatedSource \in 0..Current
  BY <1>2, RowFacts DEF EvaluatedSource
<1>4. published # <<>> => Len(published) \in DOMAIN published
  BY RowFacts
<1>5. source \in 0..Current /\ Current \in Nat /\ Setup \in Nat /\ Len(published) \in Nat
  BY <1>3, <1>4, RowFacts
<1>6. /\ Plan = [purpose |-> Purpose, representation |-> Len(published), source |-> source,
                 setup |-> Setup, baseline |-> Purpose = "REEVALUATION" /\ Setup \in run.done,
                 newer |-> Setup # 0 /\ setups[Setup] # Current]
  BY DEF Plan
<1> HIDE DEF source
<1>7. Plan \in Plans /\ Plan.setup = Setup /\ Plan.source = source /\ Plan.purpose = Purpose
  BY <1>1, <1>5, <1>6 DEF Plans
<1>8. ASSUME Launchable(Plan) PROVE Measures(Plan, Plan)
  <2>1. source \in 1..Current
    BY <1>5, <1>7, <1>8 DEF Launchable
  <2>2. CASE Purpose = "INITIAL"
    <3>1. Setup # 0 => source = setups[Setup]
      BY <2>2 DEF source, EvaluatedSource
    <3> QED
      BY <1>7, <2>1, <2>2, <3>1 DEF Measures
  <2>3. CASE Purpose = "REEVALUATION"
    BY <1>7, <1>8, <2>1, <2>3 DEF Measures, Launchable, Grounded
  <2> QED
    BY <1>1, <2>2, <2>3 DEF Purposes
<1> QED
  BY <1>7, <1>8

\* A step of the evaluations.
LEMMA EvaluationKeeps ==
  ASSUME IInv, UNCHANGED <<sources, artifacts>>,
         setups' \in Seq(Nat), \A w \in DOMAIN setups' : setups'[w] \in 1..Current,
         launches' \in Seq(LaunchRows), run' \in RunRows, run'.launch <= Len(launches'),
         foreign' \in BOOLEAN, claim' \in Sessions \cup {None},
         tab' \in [base : Nat, plan : Plans \cup {None}], op' \in [Sessions -> Operations],
         \A s \in Sessions : OperationStands(s)',
         LaunchesStand'
  PROVE  IInv'
<1>1. UNCHANGED <<line, submission, imported, compiled, published>> /\ Current' = Current
  BY DEF sources, artifacts, Current
<1>2. FieldsOK'
  BY <1>1 DEF IInv, FieldsOK
<1>3. SubmissionsStand' /\ NoLostEdit' /\ Grows(line, line')
  BY SubmissionsKept
<1>4. SourcesKnown'
  BY <1>1, RowFacts DEF SourcesKnown
<1> QED
  BY <1>2, <1>3, <1>4, PublicationsKept DEF IInv

\* A step that builds no setup and leaves no more launches pending.
LEMMA LaunchStepKeeps ==
  ASSUME IInv, UNCHANGED <<sources, artifacts, setups>>,
         launches' \in Seq(LaunchRows), Pending' \subseteq Pending,
         \A l \in Pending' : /\ launches'[l].plan = launches[l].plan
                             /\ launches'[l].shown = launches[l].shown,
         run' \in RunRows, run'.launch <= Len(launches'),
         foreign' \in BOOLEAN, claim' \in Sessions \cup {None}, UNCHANGED tab,
         op' \in [Sessions -> Operations],
         \A s \in Sessions : op'[s] = Idle \/ (op'[s] = op[s] /\ (claim = s => claim' = s))
  PROVE  IInv'
<1>1. /\ setups' = setups /\ UNCHANGED <<sources, artifacts>> /\ line' = line
  BY DEF sources
<1>2. /\ setups' \in Seq(Nat) /\ \A w \in DOMAIN setups' : setups'[w] \in 1..Current
      /\ tab' \in [base : Nat, plan : Plans \cup {None}]
  BY <1>1, RowFacts DEF IInv, FieldsOK
<1>3. /\ Grows(line, line')
      /\ \A i \in Imports : submission[i] # Unanswered => submission'[i] # Unanswered
  BY <1>1, SubmissionsKept
<1>4. \A s \in Sessions : OperationStands(s)'
  BY <1>1, <1>3, OperationKept, IdleStands
<1>5. LaunchesStand'
  <2>1. ASSUME NEW l \in Pending', NEW plan, NEW shown,
               plan = launches'[l].plan, shown = launches'[l].shown
        PROVE  Measures(plan, shown)'
    <3>1. Measures(plan, shown) /\ plan.setup \in Nat
      BY <2>1, RowFacts DEF IInv, LaunchesStand, Pending, LaunchRows, Plans
    <3> QED
      BY <1>1, <1>3, <3>1, MeasuresKept
  <2> QED
    BY <2>1 DEF LaunchesStand
<1> QED
  BY <1>1, <1>2, <1>4, <1>5, EvaluationKeeps

\* A launch that changes its status and nothing else.
LEMMA StatusChange ==
  ASSUME IInv, NEW l \in DOMAIN launches, NEW status \in LaunchStates,
         launches' = [launches EXCEPT ![l].status = status],
         status \in {"QUEUED", "EXECUTING"} => l \in Pending
  PROVE  /\ launches' \in Seq(LaunchRows) /\ Pending' \subseteq Pending
         /\ Len(launches') = Len(launches)
         /\ \A k \in Pending' : /\ launches'[k].plan = launches[k].plan
                                /\ launches'[k].shown = launches[k].shown
<1> DEFINE row == [launches[l] EXCEPT !.status = status]
<1>1. launches \in Seq(LaunchRows) /\ l \in 1..Len(launches) /\ launches[l] \in LaunchRows
  BY RowFacts
<1>2. launches' = [launches EXCEPT ![l] = row]
  OBVIOUS
<1>3. /\ row \in LaunchRows /\ row.plan = launches[l].plan /\ row.shown = launches[l].shown
      /\ row.status = status
  BY <1>1 DEF LaunchRows
<1> HIDE DEF row
<1>4. /\ launches' \in Seq(LaunchRows) /\ DOMAIN launches' = DOMAIN launches
      /\ Len(launches') = Len(launches) /\ launches'[l] = row
      /\ \A k \in DOMAIN launches : k # l => launches'[k] = launches[k]
  BY <1>1, <1>2, <1>3
<1> QED
  BY <1>3, <1>4 DEF Pending

\* A step that only moves the run and a launch's status.
LEMMA WithdrawKeeps ==
  ASSUME IInv, Withdraw
  PROVE  IInv'
<1>1. PICK l \in DOMAIN launches : launches' = [launches EXCEPT ![l].status = "FAILED"]
  BY DEF Withdraw
<1>2. UNCHANGED <<sources, artifacts, setups>> /\ UNCHANGED <<foreign, run, claim, tab, op>>
      /\ UNCHANGED tab
  BY DEF Withdraw
<1> DEFINE failed == "FAILED"
<1>3. failed \in LaunchStates /\ failed \notin {"QUEUED", "EXECUTING"}
  BY DEF LaunchStates
<1>4. launches' = [launches EXCEPT ![l].status = failed]
  BY <1>1
<1> HIDE DEF failed
<1>5. /\ launches' \in Seq(LaunchRows) /\ Pending' \subseteq Pending
      /\ Len(launches') = Len(launches)
      /\ \A k \in Pending' : /\ launches'[k].plan = launches[k].plan
                             /\ launches'[k].shown = launches[k].shown
  BY <1>3, <1>4, StatusChange
<1>6. /\ run' \in RunRows /\ run'.launch <= Len(launches') /\ foreign' \in BOOLEAN
      /\ claim' \in Sessions \cup {None} /\ op' \in [Sessions -> Operations]
      /\ \A s \in Sessions : op'[s] = op[s] /\ (claim = s => claim' = s)
  BY <1>2, <1>5 DEF IInv, FieldsOK
<1> QED
  BY <1>2, <1>5, <1>6, LaunchStepKeeps

LEMMA DispatchKeeps ==
  ASSUME IInv, Dispatch
  PROVE  IInv'
<1>1. PICK l \in DOMAIN launches :
        /\ launches[l].status = "QUEUED"
        /\ launches' = [launches EXCEPT ![l].status = "EXECUTING"]
        /\ run' = [run EXCEPT !.launch = l, !.setup = launches[l].plan.setup, !.started = @ + 1]
  BY DEF Dispatch
<1>2. UNCHANGED <<sources, artifacts, setups>> /\ UNCHANGED <<foreign, claim, tab, op>>
      /\ UNCHANGED tab
  BY DEF Dispatch
<1>3. /\ launches' \in Seq(LaunchRows) /\ Pending' \subseteq Pending
      /\ Len(launches') = Len(launches)
      /\ \A k \in Pending' : /\ launches'[k].plan = launches[k].plan
                             /\ launches'[k].shown = launches[k].shown
  <2>1. l \in Pending /\ "EXECUTING" \in LaunchStates
    BY <1>1 DEF Pending, LaunchStates
  <2> QED
    BY <1>1, <2>1, StatusChange
<1> DEFINE w == launches[l].plan.setup
           begun == run.started + 1
<1>4. /\ w \in Nat /\ begun \in Nat /\ l \in Nat /\ l <= Len(launches) /\ run \in RunRows
  <2>1. launches[l] \in LaunchRows /\ l \in 1..Len(launches) /\ Len(launches) \in Nat
    BY RowFacts
  <2>2. launches[l].plan \in Plans
    BY <2>1 DEF LaunchRows
  <2>3. w \in Nat
    BY <2>2 DEF Plans
  <2>4. run \in RunRows /\ begun \in Nat
    BY RowFacts DEF RunRows
  <2> QED
    BY <2>1, <2>3, <2>4
<1>5. run' \in RunRows /\ run'.launch = l
  <2> DEFINE y == [run EXCEPT !.launch = l]
             z == [y EXCEPT !.setup = w]
  <2>1. run' = [z EXCEPT !.started = begun]
    BY <1>1, <1>4 DEF RunRows
  <2> HIDE DEF w, begun
  <2>2. y \in RunRows /\ y.launch = l
    BY <1>4 DEF RunRows
  <2> HIDE DEF y
  <2>3. z \in RunRows /\ z.launch = l
    BY <1>4, <2>2 DEF RunRows
  <2> HIDE DEF z
  <2> QED
    BY <1>4, <2>1, <2>3 DEF RunRows
<1>6. /\ run'.launch <= Len(launches') /\ foreign' \in BOOLEAN
      /\ claim' \in Sessions \cup {None} /\ op' \in [Sessions -> Operations]
      /\ \A s \in Sessions : op'[s] = op[s] /\ (claim = s => claim' = s)
  BY <1>2, <1>3, <1>4, <1>5 DEF IInv, FieldsOK
<1> QED
  BY <1>2, <1>3, <1>5, <1>6, LaunchStepKeeps

LEMMA OperatorRunKeeps ==
  ASSUME IInv, OperatorRun
  PROVE  IInv'
<1>1. PICK w \in DOMAIN setups \cup {0} : run' = [run EXCEPT !.setup = w, !.started = @ + 1]
  BY DEF OperatorRun
<1>2. /\ UNCHANGED <<sources, artifacts, setups>> /\ UNCHANGED <<foreign, launches, claim, tab, op>>
      /\ UNCHANGED tab /\ UNCHANGED launches
  BY DEF OperatorRun
<1> DEFINE begun == run.started + 1
<1>3. w \in Nat /\ begun \in Nat /\ run \in RunRows
  BY RowFacts DEF RunRows
<1>4. run' \in RunRows /\ run'.launch = run.launch
  <2> DEFINE z == [run EXCEPT !.setup = w]
  <2>1. run' = [z EXCEPT !.started = begun]
    BY <1>1, <1>3 DEF RunRows
  <2> HIDE DEF begun
  <2>2. z \in RunRows /\ z.launch = run.launch
    BY <1>3 DEF RunRows
  <2> HIDE DEF z
  <2> QED
    BY <1>3, <2>1, <2>2 DEF RunRows
<1>5. /\ launches' \in Seq(LaunchRows) /\ Pending' \subseteq Pending
      /\ \A k \in Pending' : /\ launches'[k].plan = launches[k].plan
                             /\ launches'[k].shown = launches[k].shown
  BY <1>2, RowFacts DEF Pending
<1>6. /\ run'.launch <= Len(launches') /\ foreign' \in BOOLEAN
      /\ claim' \in Sessions \cup {None} /\ op' \in [Sessions -> Operations]
      /\ \A s \in Sessions : op'[s] = op[s] /\ (claim = s => claim' = s)
  BY <1>2, <1>4 DEF IInv, FieldsOK
<1> QED
  BY <1>2, <1>4, <1>5, <1>6, LaunchStepKeeps

LEMMA EndRunKeeps ==
  ASSUME IInv, EndRun
  PROVE  IInv'
<1>1. PICK completed \in BOOLEAN :
        /\ run' = [run EXCEPT !.launch = 0, !.setup = None,
                              !.done = IF completed THEN @ \cup {run.setup} ELSE @]
        /\ launches' = IF run.launch = 0 THEN launches
                       ELSE [launches EXCEPT ![run.launch].status =
                               IF completed THEN "COMPLETED" ELSE "FAILED"]
  BY DEF EndRun
<1>2. /\ UNCHANGED <<sources, artifacts, setups>> /\ UNCHANGED <<foreign, claim, tab, op>>
      /\ UNCHANGED tab /\ run.setup # None
  BY DEF EndRun
<1> DEFINE done == IF completed THEN run.done \cup {run.setup} ELSE run.done
           status == IF completed THEN "COMPLETED" ELSE "FAILED"
           k == run.launch
<1>3. done \in SUBSET Nat /\ run \in RunRows
  BY <1>2, RowFacts DEF RunRows
<1>4. run' \in RunRows /\ run'.launch = 0
  <2> DEFINE y == [run EXCEPT !.launch = 0]
             z == [y EXCEPT !.setup = None]
  <2>1. run' = [z EXCEPT !.done = done]
    BY <1>1, <1>3 DEF RunRows
  <2> HIDE DEF done
  <2>2. y \in RunRows /\ y.launch = 0
    BY <1>3 DEF RunRows
  <2> HIDE DEF y
  <2>3. z \in RunRows /\ z.launch = 0
    BY <2>2 DEF RunRows
  <2> HIDE DEF z
  <2> QED
    BY <1>3, <2>1, <2>3 DEF RunRows
<1>5. /\ launches' \in Seq(LaunchRows) /\ Pending' \subseteq Pending
      /\ Len(launches') \in Nat
      /\ \A l \in Pending' : /\ launches'[l].plan = launches[l].plan
                             /\ launches'[l].shown = launches[l].shown
  <2>1. CASE k = 0
    <3>1. launches' = launches
      BY <1>1, <2>1
    <3> QED
      BY <3>1, RowFacts DEF Pending
  <2>2. CASE k # 0
    <3>1. k \in DOMAIN launches
      BY <2>2, RowFacts
    <3>2. status \in LaunchStates /\ status \notin {"QUEUED", "EXECUTING"}
      BY DEF LaunchStates
    <3>3. launches' = [launches EXCEPT ![k].status = status]
      BY <1>1, <2>2
    <3> HIDE DEF status, k
    <3>4. /\ launches' \in Seq(LaunchRows) /\ Pending' \subseteq Pending
          /\ Len(launches') = Len(launches)
          /\ \A l \in Pending' : /\ launches'[l].plan = launches[l].plan
                                 /\ launches'[l].shown = launches[l].shown
      BY <3>1, <3>2, <3>3, StatusChange
    <3> QED
      BY <3>4, RowFacts
  <2> QED
    BY <2>1, <2>2
<1>6. /\ run'.launch <= Len(launches') /\ foreign' \in BOOLEAN
      /\ claim' \in Sessions \cup {None} /\ op' \in [Sessions -> Operations]
      /\ \A s \in Sessions : op'[s] = op[s] /\ (claim = s => claim' = s)
  BY <1>2, <1>4, <1>5 DEF IInv, FieldsOK
<1> QED
  BY <1>2, <1>4, <1>5, <1>6, LaunchStepKeeps

\* A step that moves neither launches nor runs, and no session but to where it began.
LEMMA AsideKeeps ==
  ASSUME IInv, UNCHANGED <<sources, artifacts, setups, launches, run, tab>>,
         foreign' \in BOOLEAN, claim' \in Sessions \cup {None},
         op' \in [Sessions -> Operations],
         \A s \in Sessions : op'[s] = Idle \/ (op'[s] = op[s] /\ (claim = s => claim' = s))
  PROVE  IInv'
<1>1. /\ launches' \in Seq(LaunchRows) /\ Pending' \subseteq Pending
      /\ \A l \in Pending' : /\ launches'[l].plan = launches[l].plan
                             /\ launches'[l].shown = launches[l].shown
      /\ run' \in RunRows /\ run'.launch <= Len(launches')
      /\ UNCHANGED <<sources, artifacts, setups>> /\ UNCHANGED tab
  BY RowFacts DEF Pending
<1> QED
  BY <1>1, LaunchStepKeeps

LEMMA RegisterWorldKeeps ==
  ASSUME IInv, RegisterWorld
  PROVE  IInv'
<1>1. /\ UNCHANGED <<sources, artifacts, setups, launches, run, tab>>
      /\ foreign' \in BOOLEAN /\ claim' = claim /\ op' = op
  BY DEF RegisterWorld
<1>2. claim' \in Sessions \cup {None} /\ op' \in [Sessions -> Operations]
  BY <1>1 DEF IInv, FieldsOK
<1> QED
  BY <1>1, <1>2, AsideKeeps

LEMMA DieKeeps ==
  ASSUME IInv, NEW s \in Sessions, Die(s)
  PROVE  IInv'
<1>1. /\ UNCHANGED <<sources, artifacts, setups, launches, run, tab>> /\ UNCHANGED foreign
      /\ op' = [op EXCEPT ![s] = Idle] /\ claim' = IF claim = s THEN None ELSE claim
  BY DEF Die
<1>2. /\ op' \in [Sessions -> Operations] /\ op'[s] = Idle
      /\ \A q \in Sessions : q # s => op'[q] = op[q]
      /\ foreign' \in BOOLEAN /\ claim' \in Sessions \cup {None}
  BY <1>1, OperationFacts DEF IInv, FieldsOK, Operations
<1>3. \A q \in Sessions : op'[q] = Idle \/ (op'[q] = op[q] /\ (claim = q => claim' = q))
  BY <1>1, <1>2
<1> QED
  BY <1>1, <1>2, <1>3, AsideKeeps

LEMMA ShowSourceKeeps ==
  ASSUME IInv, ShowSource
  PROVE  IInv'
<1>1. /\ UNCHANGED <<sources, artifacts, evaluations>> /\ op' = op
      /\ tab' = [base |-> Current, plan |-> None]
  BY DEF ShowSource
<1>2. /\ tab' \in [base : Nat, plan : Plans \cup {None}] /\ op' \in [Sessions -> Operations]
  BY <1>1, RowFacts DEF IInv, FieldsOK
<1>3. /\ \A s \in Sessions : s # None => op'[s] = op[s]
      /\ \A s \in Sessions : s = None => OperationStands(s)'
  BY <1>1, ConsoleAssumption
<1> QED
  BY <1>1, <1>2, <1>3, QuietKeeps

LEMMA ShowPlanKeeps ==
  ASSUME IInv, ShowPlan
  PROVE  IInv'
<1>1. /\ UNCHANGED <<sources, artifacts, evaluations>> /\ op' = op
      /\ tab' = [base |-> 0, plan |-> Plan]
  BY DEF ShowPlan
<1>2. /\ tab' \in [base : Nat, plan : Plans \cup {None}] /\ op' \in [Sessions -> Operations]
  BY <1>1, PlanFacts DEF IInv, FieldsOK
<1>3. /\ \A s \in Sessions : s # None => op'[s] = op[s]
      /\ \A s \in Sessions : s = None => OperationStands(s)'
  BY <1>1, ConsoleAssumption
<1> QED
  BY <1>1, <1>2, <1>3, QuietKeeps

\* Taking the claim: nobody else builds or requests.
LEMMA ClaimKeeps ==
  ASSUME IInv, NEW s \in Sessions, NEW o \in Operations, claim = None, claim' = s,
         op' = [op EXCEPT ![s] = o],
         UNCHANGED <<sources, artifacts, setups, foreign, launches, run>>,
         tab' \in [base : Nat, plan : Plans \cup {None}],
         OperationStands(s)'
  PROVE  IInv'
<1>1. /\ op' \in [Sessions -> Operations] /\ op'[s] = o
      /\ \A q \in Sessions : q # s => op'[q] = op[q]
  BY DEF IInv, FieldsOK
<1>2. /\ setups' = setups /\ launches' = launches /\ run' = run /\ foreign' = foreign /\ line' = line
      /\ UNCHANGED <<sources, artifacts>>
  BY DEF sources
<1>3. /\ Grows(line, line')
      /\ \A i \in Imports : submission[i] # Unanswered => submission'[i] # Unanswered
  BY <1>2, SubmissionsKept
<1>4. \A q \in Sessions : OperationStands(q)'
  <2>1. ASSUME NEW q \in Sessions, q # s PROVE OperationStands(q)'
    <3>1. claim # q
      BY ConsoleAssumption
    <3> QED
      BY <1>1, <1>2, <1>3, <2>1, <3>1, OperationKept DEF Pending
  <2> QED
    BY <2>1
<1>5. /\ setups' \in Seq(Nat) /\ \A w \in DOMAIN setups' : setups'[w] \in 1..Current
      /\ launches' \in Seq(LaunchRows) /\ run' \in RunRows /\ run'.launch <= Len(launches')
      /\ foreign' \in BOOLEAN /\ claim' \in Sessions \cup {None}
  BY <1>2, RowFacts DEF IInv, FieldsOK
<1>6. LaunchesStand'
  BY <1>2, <1>3, LaunchesKept
<1> QED
  BY <1>1, <1>2, <1>4, <1>5, <1>6, EvaluationKeeps

LEMMA ReadForSetupKeeps ==
  ASSUME IInv, NEW s \in Sessions, ReadForSetup(s)
  PROVE  IInv'
<1> DEFINE o == [pc |-> "building", source |-> Current]
<1>1. /\ claim = None /\ claim' = s /\ op' = [op EXCEPT ![s] = o] /\ Pending = {} /\ Current > 0
      /\ UNCHANGED <<sources, artifacts, setups, foreign, launches, run, tab>>
  BY DEF ReadForSetup, ClaimIsFree, StateBlocked
<1>2. o \in Operations /\ o.pc = "building" /\ o.source = Current /\ Current \in 1..Current
  BY <1>1, RowFacts DEF Operations, OnSource
<1> HIDE DEF o
<1>3. op'[s] = o /\ Current' = Current /\ Pending' = {}
  BY <1>1 DEF IInv, FieldsOK, sources, Current, Pending
<1>4. OperationStands(s)'
  BY <1>1, <1>2, <1>3 DEF OperationStands
<1>5. /\ UNCHANGED <<sources, artifacts, setups, foreign, launches, run>>
      /\ tab' \in [base : Nat, plan : Plans \cup {None}]
  BY <1>1 DEF IInv, FieldsOK
<1> QED
  BY <1>1, <1>2, <1>4, <1>5, ClaimKeeps

LEMMA ReadForLaunchKeeps ==
  ASSUME IInv, NEW s \in Sessions, ReadForLaunch(s)
  PROVE  IInv'
<1> DEFINE o == [pc |-> "requesting", plan |-> Plan, shown |-> Plan]
<1>1. /\ claim = None /\ claim' = s /\ op' = [op EXCEPT ![s] = o] /\ Launchable(Plan)
      /\ UNCHANGED <<sources, artifacts, setups, foreign, launches, run>> /\ tab' = NoTab
  BY DEF ReadForLaunch, ClaimIsFree, Identity
<1>2. Plan \in Plans /\ Measures(Plan, Plan)
  BY <1>1, PlanFacts
<1>3. \E p \in Plans : p = Plan
  BY <1>2
<1>4. PICK p \in Plans : p = Plan
  BY <1>3
<1>5. o = [pc |-> "requesting", plan |-> p, shown |-> p] /\ Measures(p, p) /\ p.setup \in Nat
  BY <1>2, <1>4 DEF Plans
<1>6. o \in Operations /\ o.pc = "requesting" /\ o.plan = p /\ o.shown = p
  BY <1>5 DEF Operations, OnPlan
<1> HIDE DEF o
<1>7. op'[s] = o
  BY <1>1 DEF IInv, FieldsOK
<1>8. Grows(line, line') /\ UNCHANGED setups
  BY <1>1, SubmissionsKept
<1>9. Measures(p, p)'
  BY <1>5, <1>8, MeasuresKept
<1>10. OperationStands(s)'
  BY <1>1, <1>6, <1>7, <1>9 DEF OperationStands
<1>11. tab' \in [base : Nat, plan : Plans \cup {None}]
  BY <1>1 DEF NoTab
<1> QED
  BY <1>1, <1>6, <1>10, <1>11, ClaimKeeps

\* While one session holds the claim, no other builds or requests, so the setups and the
\* launches may move under it.
LEMMA OthersStand ==
  ASSUME IInv, NEW s \in Sessions, claim = s, UNCHANGED <<sources>>,
         \A q \in Sessions : q # s => op'[q] = op[q],
         NEW q \in Sessions, q # s
  PROVE  OperationStands(q)'
<1>1. op[q] \in Operations /\ OperationStands(q)
  BY RowFacts
<1>2. op[q].pc \notin {"building", "requesting"}
  BY <1>1 DEF OperationStands
<1>3. op'[q] = op[q] /\ submission' = submission /\ Current' = Current
  BY DEF sources, Current
<1> QED
  BY <1>1, <1>2, <1>3 DEF OperationStands

LEMMA CommitSetupKeeps ==
  ASSUME IInv, NEW s \in Sessions, CommitSetup(s)
  PROVE  IInv'
<1> DEFINE n == op[s].source
<1>1. /\ claim = s /\ n \in 1..Current /\ n \in Nat /\ Pending = {}
      /\ setups' = Append(setups, n) /\ claim' = None /\ op' = [op EXCEPT ![s] = Idle]
      /\ UNCHANGED <<sources, artifacts, foreign, launches, run, tab>> /\ UNCHANGED sources
  BY RowFacts DEF CommitSetup, OperationStands
<1> HIDE DEF n
<1>2. /\ setups' \in Seq(Nat) /\ \A w \in DOMAIN setups' : setups'[w] \in 1..Current
  <2>1. /\ setups' \in Seq(Nat) /\ setups'[Setup + 1] = n /\ DOMAIN setups' = 1..(Setup + 1)
        /\ \A w \in 1..Setup : setups'[w] = setups[w]
    BY <1>1, RowFacts, Appended DEF Grows, Setup
  <2>2. \A w \in 1..(Setup + 1) : w = Setup + 1 \/ w \in 1..Setup
    <3>1. Setup \in Nat
      BY RowFacts
    <3> QED
      BY <3>1
  <2> QED
    BY <1>1, <2>1, <2>2, RowFacts
<1>3. /\ op' \in [Sessions -> Operations] /\ op'[s] = Idle
      /\ \A q \in Sessions : q # s => op'[q] = op[q]
  BY <1>1, OperationFacts DEF IInv, FieldsOK, Operations
<1>4. \A q \in Sessions : OperationStands(q)'
  BY <1>1, <1>3, OthersStand, IdleStands
<1>5. LaunchesStand'
  BY <1>1 DEF LaunchesStand, Pending
<1>6. /\ launches' \in Seq(LaunchRows) /\ run' \in RunRows /\ run'.launch <= Len(launches')
      /\ foreign' \in BOOLEAN /\ claim' \in Sessions \cup {None}
      /\ tab' \in [base : Nat, plan : Plans \cup {None}] /\ UNCHANGED <<sources, artifacts>>
  BY <1>1 DEF IInv, FieldsOK
<1> QED
  BY <1>2, <1>3, <1>4, <1>5, <1>6, EvaluationKeeps

LEMMA CommitLaunchKeeps ==
  ASSUME IInv, NEW s \in Sessions, CommitLaunch(s)
  PROVE  IInv'
<1>1. /\ claim = s /\ op[s].plan \in Plans /\ op[s].shown \in Plans
      /\ Measures(op[s].plan, op[s].shown)
  BY RowFacts, OperationFacts DEF CommitLaunch, OperationStands
<1>2. PICK plan \in Plans, shown \in Plans : plan = op[s].plan /\ shown = op[s].shown
  BY <1>1
<1> DEFINE row == [status |-> "QUEUED", plan |-> plan, shown |-> shown]
<1>3. /\ launches' = Append(launches, row) /\ claim' = None /\ op' = [op EXCEPT ![s] = Idle]
      /\ UNCHANGED <<sources, artifacts, setups, foreign, run, tab>>
      /\ UNCHANGED sources /\ UNCHANGED setups
  BY <1>2 DEF CommitLaunch
<1>4. row \in LaunchRows /\ row.plan = plan /\ row.shown = shown
  BY DEF LaunchRows, LaunchStates
<1> HIDE DEF row
<1> DEFINE last == Len(launches) + 1
<1>5. /\ launches' \in Seq(LaunchRows) /\ launches'[last] = row /\ DOMAIN launches' = 1..last
      /\ Len(launches') = last /\ DOMAIN launches = 1..Len(launches) /\ Len(launches) \in Nat
      /\ \A l \in 1..Len(launches) : launches'[l] = launches[l]
  BY <1>3, <1>4, RowFacts, Appended DEF Grows
<1>6. \A l \in Pending' : l = last \/ (l \in Pending /\ launches'[l] = launches[l])
  BY <1>5 DEF Pending
<1>7. Grows(line, line')
  BY <1>3, SubmissionsKept
<1>8. LaunchesStand'
  <2>1. ASSUME NEW l \in Pending', NEW p, NEW q, p = launches'[l].plan, q = launches'[l].shown
        PROVE  Measures(p, q)'
    <3>1. Measures(p, q) /\ p.setup \in Nat
      <4>1. CASE l = last
        <5>1. p = plan /\ q = shown
          BY <1>4, <1>5, <2>1, <4>1
        <5>2. plan.setup \in Nat
          BY DEF Plans
        <5> QED
          BY <1>1, <1>2, <5>1, <5>2
      <4>2. CASE l \in Pending /\ launches'[l] = launches[l]
        BY <2>1, <4>2, RowFacts DEF IInv, LaunchesStand, Pending, LaunchRows, Plans
      <4> QED
        BY <1>6, <4>1, <4>2
    <3> QED
      BY <1>3, <1>7, <3>1, MeasuresKept
  <2> QED
    BY <2>1 DEF LaunchesStand
<1>9. /\ op' \in [Sessions -> Operations] /\ op'[s] = Idle
      /\ \A q \in Sessions : q # s => op'[q] = op[q]
  BY <1>3, OperationFacts DEF IInv, FieldsOK, Operations
<1>10. \A q \in Sessions : OperationStands(q)'
  BY <1>1, <1>3, <1>9, OthersStand, IdleStands
<1>11. /\ setups' \in Seq(Nat) /\ \A w \in DOMAIN setups' : setups'[w] \in 1..Current
  BY <1>3, RowFacts
<1>12. /\ run' \in RunRows /\ run'.launch <= Len(launches')
       /\ foreign' \in BOOLEAN /\ claim' \in Sessions \cup {None}
       /\ tab' \in [base : Nat, plan : Plans \cup {None}] /\ UNCHANGED <<sources, artifacts>>
  <2>1. run' = run /\ run.launch \in Nat /\ run.launch <= Len(launches) /\ run \in RunRows
    BY <1>3, RowFacts
  <2> QED
    BY <1>3, <1>5, <2>1 DEF IInv, FieldsOK
<1> QED
  BY <1>5, <1>8, <1>9, <1>10, <1>11, <1>12, EvaluationKeeps

-----------------------------------------------------------------------------
(***************************************************************************)
(* The behaviours, and the theorems.                                       *)
(***************************************************************************)

LEMMA InitIInv == Init => IInv
<1> SUFFICES ASSUME Init PROVE IInv
  OBVIOUS
<1>1. /\ line = <<>> /\ submission = [k \in SubmissionKeys |-> Unanswered]
      /\ imported = [i \in Imports |-> NoImport] /\ compiled = [n \in Snapshots |-> NoRun]
      /\ published = <<>> /\ setups = <<>> /\ foreign = FALSE /\ launches = <<>>
      /\ claim = None /\ tab = [base |-> 0, plan |-> None] /\ op = [s \in Sessions |-> Idle]
  BY DEF Init, NoTab
<1>2. run \in RunRows /\ run.launch = 0
  BY DEF Init, RunRows
<1>3. /\ Unanswered \in Answers /\ NoImport \in ImportRows /\ NoRun \in CompilerRuns
      /\ Idle \in Operations
  BY DEF Unanswered, Answers, NoImport, ImportRows, NoRun, CompilerRuns, Operations
<1>4. /\ \A S : <<>> \in Seq(S) /\ DOMAIN <<>> = {} /\ Len(<<>>) = 0
  OBVIOUS
<1>5. FieldsOK
  <2>1. /\ line \in Seq(Documents) /\ Len(line) = 0 /\ published \in Seq(Publications)
        /\ setups \in Seq(Nat) /\ launches \in Seq(LaunchRows) /\ Len(launches) = 0
    BY <1>1, <1>4
  <2>2. /\ submission \in [SubmissionKeys -> Answers] /\ imported \in [Imports -> ImportRows]
        /\ compiled \in [Snapshots -> CompilerRuns] /\ op \in [Sessions -> Operations]
    BY <1>1, <1>3
  <2>3. /\ foreign \in BOOLEAN /\ claim \in Sessions \cup {None}
        /\ tab \in [base : Nat, plan : Plans \cup {None}]
    BY <1>1
  <2> QED
    BY <1>2, <2>1, <2>2, <2>3, ConsoleAssumption DEF FieldsOK
<1>6. NoLostEdit /\ SubmissionsStand
  BY <1>1, ConsoleAssumption
  DEF NoLostEdit, SubmissionsStand, Unanswered, NoImport, SubmissionKeys
<1>7. SourcesKnown /\ PublishedIsReviewed /\ LaunchesStand
  BY <1>1, <1>4 DEF SourcesKnown, PublishedIsReviewed, LaunchesStand, Pending
<1>8. \A s \in Sessions : OperationStands(s)
  BY <1>1 DEF OperationStands, Idle
<1> QED
  BY <1>5, <1>6, <1>7, <1>8 DEF IInv

LEMMA StutterKeeps ==
  ASSUME IInv, UNCHANGED vars
  PROVE  IInv'
<1>1. /\ UNCHANGED <<sources, artifacts, setups, launches, run, tab>>
      /\ UNCHANGED <<foreign, claim, op>>
  BY DEF vars, evaluations
<1>2. /\ foreign' \in BOOLEAN /\ claim' \in Sessions \cup {None} /\ op' \in [Sessions -> Operations]
      /\ \A s \in Sessions : op'[s] = op[s] /\ (claim = s => claim' = s)
  BY <1>1 DEF IInv, FieldsOK
<1> QED
  BY <1>1, <1>2, AsideKeeps

LEMMA NextKeeps == IInv /\ [Next]_vars => IInv'
<1> SUFFICES ASSUME IInv, [Next]_vars PROVE IInv'
  OBVIOUS
<1>1. ASSUME NEW s \in Sessions, SessionStep(s) PROVE IInv'
  BY <1>1, RetrieveKeeps, StoreDraftKeeps, ConfirmKeeps, LinkKeeps, CompileKeeps, StoreRunKeeps,
     ReadForSetupKeeps, CommitSetupKeeps, ReadForLaunchKeeps, CommitLaunchKeeps, DieKeeps
  DEF SessionStep
<1>2. CASE ShowSource \/ ShowPlan \/ Submit
  BY <1>2, ShowSourceKeeps, ShowPlanKeeps, SubmitKeeps
<1>3. CASE PublishSource \/ Review \/ Publish
  BY <1>3, PublishSourceKeeps, ReviewKeeps, PublishKeeps
<1>4. CASE RegisterWorld \/ Withdraw \/ Dispatch \/ OperatorRun \/ EndRun
  BY <1>4, RegisterWorldKeeps, WithdrawKeeps, DispatchKeeps, OperatorRunKeeps, EndRunKeeps
<1>5. CASE UNCHANGED vars
  BY <1>5, StutterKeeps
<1> QED
  BY <1>1, <1>2, <1>3, <1>4, <1>5 DEF Next

\* The inductive invariant: what is on the line, and what each request knows between its
\* two transactions.
LEMMA Invariance == Spec => []IInv
  BY InitIInv, NextKeeps, PTL DEF Spec

\* However many requests, imports and operators write the line, an edit follows the
\* snapshot its page showed, or repeats it (representation/intake.py).
THEOREM EditsSeen == Spec => []NoLostEdit
<1>1. IInv => NoLostEdit
  BY DEF IInv
<1> QED
  BY <1>1, Invariance, PTL

LEMMA ImportFromIInv == IInv => ImportIsItsSource
<1> SUFFICES ASSUME IInv, NEW i \in Imports
             PROVE  /\ imported[i].snapshot # 0 =>
                         /\ imported[i].snapshot = submission[i].snapshot
                         /\ line[imported[i].snapshot] = imported[i].draft
                    /\ submission[i] # Unanswered => Confirmable(i)
  BY DEF ImportIsItsSource
<1> QED
  BY DEF IInv, SubmissionsStand

\* An import that was confirmed, however often and whoever died between storing and
\* linking, names the snapshot that holds its own draft (importer/service.py).
THEOREM ImportsKept == Spec => []ImportIsItsSource
  BY Invariance, ImportFromIInv, PTL

\* What is published holds the final review of what required one, and a snapshot is
\* published once (compiler/service.py).
THEOREM PublicationsReviewed == Spec => []PublishedIsReviewed
<1>1. IInv => PublishedIsReviewed
  BY DEF IInv
<1> QED
  BY <1>1, Invariance, PTL

LEMMA LaunchesFromIInv == IInv => LaunchMeasuresOneWorld
  BY DEF IInv, LaunchesStand, Measures, LaunchMeasuresOneWorld

\* While an evaluation waits or runs, its setup is the merchant's newest, what it measures
\* belongs to it, and both are what the merchant was shown (benchmark/launch.py,
\* workspace/service.py).
THEOREM LaunchesMeasureOneWorld == Spec => []LaunchMeasuresOneWorld
  BY Invariance, LaunchesFromIInv, PTL

=============================================================================
