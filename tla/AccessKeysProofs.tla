-------------------------- MODULE AccessKeysProofs --------------------------
(***************************************************************************)
(* Proofs about the keys and sessions of a merchant: a key is revoked once *)
(* and on record, every change had the authority of its key, and a browser *)
(* session that is out stays out.                                          *)
(***************************************************************************)
EXTENDS AccessKeys, TLAPS

USE AccessAssumption

-----------------------------------------------------------------------------
(***************************************************************************)
(* The rows of keys.                                                       *)
(***************************************************************************)

\* A key is written by whoever issues it, once, and by whoever revokes it.
KeyWritten(k) ==
    \/ key'[k] = key[k]
    \/ key[k].state = "none" /\ key'[k].state = "active" /\ key'[k].run \in Runs \cup {NoRun}
    \/ Live(k) /\ key'[k] = [key[k] EXCEPT !.state = "revoked"]

LEMMA KeyWrites == ASSUME IInv, [Next]_vars PROVE \A k \in Keys : KeyWritten(k)
<1> USE DEF IInv, AccessTypeOK
<1>1. UNCHANGED key => \A k \in Keys : KeyWritten(k)
  BY DEF KeyWritten
<1>2. ASSUME NEW k \in Keys, Issue(k) PROVE \A l \in Keys : KeyWritten(l)
  BY <1>2 DEF Issue, KeyWritten
<1>3. ASSUME NEW p \in Processes, NEW k \in Keys, IssueForRun(p, k) PROVE \A l \in Keys : KeyWritten(l)
  BY <1>3 DEF IssueForRun, KeyWritten
<1>4. ASSUME NEW p \in Processes, WriteRevocation(p) PROVE \A l \in Keys : KeyWritten(l)
  <2>1. act[p].key \in Keys
    BY <1>4 DEF WriteRevocation, ProcessKnows
  <2> QED
    BY <1>4, <2>1 DEF WriteRevocation, Guard, KeyWritten
<1> QED
  BY <1>1, <1>2, <1>3, <1>4
  DEF Next, Tick, RevokeForMerchant, StartRun, EndRun, SignOut, Change, CloseEndpoint, PurgeDelete,
      Die, PresentKey, ReadToRevoke, PresentSession, OpenSession, Execute, PurgeSelect, vars

\* Who puts a process where it is.
LEMMA ProcessWrites ==
  ASSUME IInv, [Next]_vars, NEW p \in Processes, act'[p] # act[p]
  PROVE  \/ act'[p].at \notin {"admitted", "purging"}
         \/ act'[p].at = "admitted" /\ Live(act'[p].key)
         \/ act'[p].at = "purging" /\ act[p] = Idle /\ \E age \in Ages : PurgeSelect(p, age)
<1> DEFINE Elsewhere(q, a) == Enter(q, a) /\ a.at \notin {"admitted", "purging"}
<1>1. act \in [Processes -> [at : {"idle", "admitted", "executing", "revoking", "purging"},
                             key : Keys \cup {NoKey}, run : Runs \cup {NoRun},
                             via : Verifiers \cup {NoSession}, live : BOOLEAN,
                             doomed : SUBSET (Verifiers \X Nat)]]
  BY DEF IInv, AccessTypeOK
<1>2. ASSUME NEW q \in Processes, NEW a, Elsewhere(q, a)
      PROVE  act'[p].at \notin {"admitted", "purging"}
  <2>1. q = p /\ act'[p] = a
    BY <1>1, <1>2 DEF Enter
  <2> QED
    BY <1>2, <2>1
<1>3. ASSUME NEW q \in Processes, Leave(q) PROVE Elsewhere(q, Idle)
  BY <1>3 DEF Leave, Idle
<1>4. ASSUME NEW q \in Processes, NEW k \in Keys, IssueForRun(q, k)
      PROVE  Elsewhere(q, [act[q] EXCEPT !.key = k])
  BY <1>1, <1>4 DEF IssueForRun
<1>5. ASSUME NEW q \in Processes, NEW r \in Runs, Execute(q, r)
      PROVE  Elsewhere(q, [Idle EXCEPT !.at = "executing", !.run = r])
  BY <1>5 DEF Execute, Idle
<1>6. ASSUME NEW q \in Processes, CloseEndpoint(q)
      PROVE  Elsewhere(q, [Idle EXCEPT !.at = "revoking", !.key = act[q].key, !.live = TRUE])
  BY <1>6 DEF CloseEndpoint, Idle
<1>7. ASSUME NEW q \in Processes, NEW k \in Keys, ReadToRevoke(q, k)
      PROVE  Elsewhere(q, [Idle EXCEPT !.at = "revoking", !.key = k, !.live = Live(k)])
  BY <1>7 DEF ReadToRevoke, Idle
<1>8. ASSUME NEW q \in Processes, NEW a, Enter(q, a) PROVE q = p
  BY <1>1, <1>8 DEF Enter
<1>9. ASSUME NEW q \in Processes, NEW k \in Keys, PresentKey(q, k)
      PROVE  act'[p].at = "admitted" /\ Live(act'[p].key)
  <2>1. q = p
    BY <1>8, <1>9 DEF PresentKey
  <2> QED
    BY <1>1, <1>9, <2>1 DEF PresentKey, Enter, Idle
<1>10. ASSUME NEW q \in Processes, NEW v \in Verifiers, PresentSession(q, v)
       PROVE  act'[p].at = "admitted" /\ Live(act'[p].key)
  <2>1. q = p
    BY <1>8, <1>10 DEF PresentSession
  <2> QED
    BY <1>1, <1>10, <2>1 DEF PresentSession, Enter, Idle, Open
<1>11. ASSUME NEW q \in Processes, NEW age \in Ages, PurgeSelect(q, age)
       PROVE  q = p /\ act'[p].at = "purging" /\ act[p] = Idle
  <2>1. q = p
    BY <1>8, <1>11 DEF PurgeSelect
  <2> QED
    BY <1>1, <1>11, <2>1 DEF PurgeSelect, Enter, Idle
<1>12. ASSUME NEW q \in Processes,
              SignOut(q) \/ Change(q) \/ WriteRevocation(q) \/ PurgeDelete(q) \/ Die(q)
                \/ \E v \in Verifiers : OpenSession(q, v)
       PROVE  Leave(q)
  BY <1>12 DEF SignOut, Change, WriteRevocation, PurgeDelete, Die, OpenSession
<1> HIDE DEF Elsewhere
<1> QED
  BY <1>2, <1>3, <1>4, <1>5, <1>6, <1>7, <1>9, <1>10, <1>11, <1>12
  DEF Next, Tick, RevokeForMerchant, Issue, StartRun, EndRun, vars

LEMMA TimeGoesOn == ASSUME now \in Nat, [Next]_vars PROVE now' \in Nat /\ now <= now'
<1>1. CASE Tick
  BY <1>1 DEF Tick
<1>2. CASE UNCHANGED now
  BY <1>2
<1> QED
  BY <1>1, <1>2
  DEF Next, RevokeForMerchant, Issue, StartRun, EndRun, SignOut, Change, CloseEndpoint,
      WriteRevocation, PurgeDelete, Die, PresentKey, IssueForRun, ReadToRevoke, PresentSession,
      OpenSession, Execute, PurgeSelect, vars

\* The authority of a key stands, and a dead key stays dead.
LEMMA AuthorityStands ==
  ASSUME IInv, [Next]_vars
  PROVE  /\ \A k, r : Stands(k, r) => Stands(k, r)'
         /\ \A k \in Keys : key[k].state # "none" => key'[k].state # "none" /\ (Live(k)' => Live(k))
  BY KeyWrites DEF KeyWritten, Stands, Live, IInv, AccessTypeOK

-----------------------------------------------------------------------------
(***************************************************************************)
(* The invariant.                                                          *)
(***************************************************************************)

LEMMA InitIInv == Init => IInv
  BY DEF Init, IInv, AccessTypeOK, ProcessKnows, SessionKnows, PurgeKnows, ChangesStand, RevokedOnce,
         Idle, NoRow, Stands, Open

LEMMA TypesStep == ASSUME IInv, [Next]_vars PROVE AccessTypeOK'
<1> USE DEF IInv, AccessTypeOK
<1>1. CASE UNCHANGED vars
  BY <1>1 DEF vars
<1>2. CASE Tick
  BY <1>2 DEF Tick
<1> DEFINE Row == [state : {"none", "open", "closed"}, key : Keys \cup {NoKey},
                   expires : Nat, closed : Nat]
<1>3. CASE RevokeForMerchant
  <2>1. \A row \in Row : [row EXCEPT !.state = "closed", !.closed = now] \in Row
    <3> HIDE DEF IInv
    <3>1. now \in Nat
      BY DEF IInv
    <3> QED
      BY <3>1
  <2>2. session' \in [Verifiers -> Row]
    BY <1>3, <2>1 DEF RevokeForMerchant
  <2> QED
    BY <1>3, <2>2 DEF RevokeForMerchant
<1>0. ASSUME NEW p \in Processes, Leave(p), session' \in [Verifiers -> Row],
             UNCHANGED <<now, key, revocations, run, changes>>
      PROVE  AccessTypeOK'
  BY <1>0 DEF Leave, Enter, Idle
<1>4. ASSUME NEW k \in Keys, Issue(k) PROVE AccessTypeOK'
  BY <1>4 DEF Issue
<1>5. ASSUME NEW r \in Runs, StartRun(r) \/ EndRun(r) PROVE AccessTypeOK'
  BY <1>5 DEF StartRun, EndRun
<1>6. ASSUME NEW p \in Processes, SignOut(p) PROVE AccessTypeOK'
  BY <1>6 DEF SignOut, Leave, Enter, Idle
<1>7. ASSUME NEW p \in Processes, Change(p) PROVE AccessTypeOK'
  <2>1. act[p].key \in Keys /\ act[p].run \in Runs \cup {NoRun}
    BY <1>7 DEF Change, ProcessKnows, Stands
  <2>2. changes' \in SUBSET (Keys \X (Runs \cup {NoRun}))
    BY <1>7, <2>1 DEF Change, Allowed
  <2> QED
    BY <1>7, <2>2 DEF Change, Leave, Enter, Idle
<1>8. ASSUME NEW p \in Processes, CloseEndpoint(p) \/ Die(p) PROVE AccessTypeOK'
  <2>1. CASE CloseEndpoint(p)
    BY <2>1 DEF CloseEndpoint, Enter, Idle
  <2>2. CASE Die(p)
    BY <2>2 DEF Die, Leave, Enter, Idle
  <2> QED
    BY <1>8, <2>1, <2>2
<1>9. ASSUME NEW p \in Processes, WriteRevocation(p) PROVE AccessTypeOK'
  BY <1>9 DEF WriteRevocation, ProcessKnows, Leave, Enter, Idle
<1>10. ASSUME NEW p \in Processes, PurgeDelete(p) PROVE AccessTypeOK'
  <2>1. NoRow \in Row /\ \A v \in Verifiers : session[v] \in Row
    BY DEF NoRow
  <2>2. session' \in [Verifiers -> Row]
    <3> HIDE DEF Row
    <3> QED
      BY <1>10, <2>1 DEF PurgeDelete
  <2>3. Leave(p) /\ UNCHANGED <<now, key, revocations, run, changes>>
    BY <1>10 DEF PurgeDelete
  <2> HIDE DEF Row, IInv, AccessTypeOK
  <2> QED
    BY <2>2, <2>3, <1>0
<1>11. ASSUME NEW p \in Processes, NEW k \in Keys, PresentKey(p, k) PROVE AccessTypeOK'
  BY <1>11 DEF PresentKey, Enter, Idle
<1>12. ASSUME NEW p \in Processes, NEW k \in Keys, IssueForRun(p, k) PROVE AccessTypeOK'
  <2>1. [state |-> "active", run |-> act[p].run] \in
          [state : {"none", "active", "revoked"}, run : Runs \cup {NoRun}]
    OBVIOUS
  <2>2. key' \in [Keys -> [state : {"none", "active", "revoked"}, run : Runs \cup {NoRun}]]
    BY <1>12, <2>1 DEF IssueForRun
  <2>3. UNCHANGED <<now, revocations, session, run, changes>>
    BY <1>12 DEF IssueForRun
  <2> DEFINE Act == [at : {"idle", "admitted", "executing", "revoking", "purging"},
                     key : Keys \cup {NoKey}, run : Runs \cup {NoRun},
                     via : Verifiers \cup {NoSession}, live : BOOLEAN,
                     doomed : SUBSET (Verifiers \X Nat)]
  <2>4. act' \in [Processes -> Act]
    <3>1. act \in [Processes -> Act]
      OBVIOUS
    <3>2. act' = [act EXCEPT ![p] = [act[p] EXCEPT !.key = k]]
      BY <1>12 DEF IssueForRun, Enter
    <3> HIDE DEF IInv, AccessTypeOK
    <3>3. [act[p] EXCEPT !.key = k] \in Act
      BY <3>1
    <3> HIDE DEF Act
    <3> QED
      BY <3>1, <3>2, <3>3
  <2> QED
    BY <2>2, <2>3, <2>4
<1>13. ASSUME NEW p \in Processes, NEW k \in Keys, ReadToRevoke(p, k) PROVE AccessTypeOK'
  <2>1. Live(k) \in BOOLEAN
    BY DEF Live
  <2> QED
    BY <1>13, <2>1 DEF ReadToRevoke, Enter, Idle
<1>14. ASSUME NEW p \in Processes, NEW v \in Verifiers, PresentSession(p, v) PROVE AccessTypeOK'
  BY <1>14 DEF PresentSession, Enter, Idle
<1>15. ASSUME NEW p \in Processes, NEW v \in Verifiers, OpenSession(p, v) PROVE AccessTypeOK'
  <2>1. act[p].key \in Keys
    BY <1>15 DEF OpenSession, MayOpen, ProcessKnows, Stands
  <2>2. [state |-> "open", key |-> act[p].key, expires |-> now + Lifetime, closed |-> 0] \in Row
    BY <2>1
  <2>3. session' \in [Verifiers -> Row]
    BY <1>15, <2>2 DEF OpenSession
  <2>4. Leave(p) /\ UNCHANGED <<now, key, revocations, run, changes>>
    BY <1>15 DEF OpenSession
  <2> HIDE DEF Row, IInv, AccessTypeOK
  <2> QED
    BY <2>3, <2>4, <1>0
<1>16. ASSUME NEW p \in Processes, NEW r \in Runs, Execute(p, r) PROVE AccessTypeOK'
  BY <1>16 DEF Execute, Enter, Idle
<1>17. ASSUME NEW p \in Processes, NEW age \in Ages, PurgeSelect(p, age) PROVE AccessTypeOK'
  <2>1. PICK D \in Doomed(Settled(age)) :
          Enter(p, [Idle EXCEPT !.at = "purging", !.doomed = {<<v, session[v].expires>> : v \in D}])
    BY <1>17 DEF PurgeSelect
  <2>2. {<<v, session[v].expires>> : v \in D} \in SUBSET (Verifiers \X Nat)
    BY DEF Doomed, Settled
  <2> QED
    BY <1>17, <2>1, <2>2 DEF PurgeSelect, Enter, Idle
<1> QED
  BY <1>1, <1>2, <1>3, <1>4, <1>5, <1>6, <1>7, <1>8, <1>9, <1>10, <1>11, <1>12, <1>13, <1>14, <1>15,
     <1>16, <1>17 DEF Next

LEMMA ProcessesStep == ASSUME IInv, [Next]_vars PROVE ProcessKnows'
<1> USE DEF IInv, AccessTypeOK
<1>0. /\ \A k, r : Stands(k, r) => Stands(k, r)'
      /\ \A k \in Keys : key[k].state # "none" => key'[k].state # "none"
  BY AuthorityStands
<1> DEFINE Knows(p) ==
      /\ act[p].at = "admitted" => Stands(act[p].key, act[p].run)
      /\ act[p].at = "executing" => act[p].key = NoKey \/ Stands(act[p].key, act[p].run)
      /\ act[p].at = "revoking" => act[p].key \in Keys /\ key[act[p].key].state # "none"
<1>1. ASSUME NEW q \in Processes, act'[q] = act[q] PROVE Knows(q)'
  <2>1. Knows(q)
    BY DEF ProcessKnows
  <2>2. \A k, r : Stands(k, r)' <=> k \in Keys /\ key'[k].state # "none" /\ key'[k].run = r
    BY DEF Stands
  <2> QED
    BY <1>0, <1>1, <2>1, <2>2 DEF Stands
<1>2. ASSUME NEW p \in Processes, NEW a, Enter(p, a), Knows(p)' PROVE ProcessKnows'
  <2>1. \A q \in Processes : q # p => act'[q] = act[q]
    BY <1>2 DEF Enter
  <2> QED
    BY <1>1, <1>2, <2>1 DEF ProcessKnows
<1>3. ASSUME UNCHANGED act PROVE ProcessKnows'
  BY <1>1, <1>3 DEF ProcessKnows
<1>4. ASSUME NEW p \in Processes, Leave(p) PROVE ProcessKnows'
  <2>1. Enter(p, Idle) /\ act'[p] = Idle
    BY <1>4 DEF Leave, Enter
  <2> QED
    BY <1>2, <2>1 DEF Idle
<1>5. ASSUME NEW p \in Processes, CloseEndpoint(p) PROVE ProcessKnows'
  <2>1. Enter(p, [Idle EXCEPT !.at = "revoking", !.key = act[p].key, !.live = TRUE])
    BY <1>5 DEF CloseEndpoint
  <2>2. act'[p].at = "revoking" /\ act'[p].key = act[p].key
    BY <2>1 DEF Enter, Idle
  <2>3. Stands(act[p].key, act[p].run)
    BY <1>5 DEF CloseEndpoint, ProcessKnows
  <2> QED
    BY <1>0, <1>2, <2>1, <2>2, <2>3 DEF Stands
<1>6. ASSUME NEW p \in Processes, NEW k \in Keys, PresentKey(p, k) PROVE ProcessKnows'
  <2>1. Enter(p, [Idle EXCEPT !.at = "admitted", !.key = k, !.run = key[k].run])
    BY <1>6 DEF PresentKey
  <2>2. act'[p].at = "admitted" /\ act'[p].key = k /\ act'[p].run = key[k].run
    BY <2>1 DEF Enter, Idle
  <2>3. Stands(k, key[k].run)
    BY <1>6 DEF PresentKey, Live, Stands
  <2> QED
    BY <1>0, <1>2, <2>1, <2>2, <2>3
<1>7. ASSUME NEW p \in Processes, NEW k \in Keys, IssueForRun(p, k) PROVE ProcessKnows'
  <2>1. Enter(p, [act[p] EXCEPT !.key = k]) /\ act[p].at = "executing"
        /\ key' = [key EXCEPT ![k] = [state |-> "active", run |-> act[p].run]]
    BY <1>7 DEF IssueForRun
  <2>2. act'[p].at = "executing" /\ act'[p].key = k /\ act'[p].run = act[p].run
    BY <2>1 DEF Enter
  <2>3. Stands(k, act[p].run)'
    BY <2>1, <2>2 DEF Stands
  <2> QED
    BY <1>2, <2>1, <2>2, <2>3
<1>8. ASSUME NEW p \in Processes, NEW k \in Keys, ReadToRevoke(p, k) PROVE ProcessKnows'
  <2>1. Enter(p, [Idle EXCEPT !.at = "revoking", !.key = k, !.live = Live(k)]) /\ key[k].state # "none"
    BY <1>8 DEF ReadToRevoke
  <2>2. act'[p].at = "revoking" /\ act'[p].key = k
    BY <2>1 DEF Enter, Idle
  <2> QED
    BY <1>0, <1>2, <2>1, <2>2
<1>9. ASSUME NEW p \in Processes, NEW v \in Verifiers, PresentSession(p, v) PROVE ProcessKnows'
  <2>1. Enter(p, [Idle EXCEPT !.at = "admitted", !.key = session[v].key, !.via = v]) /\ Open(v)
    BY <1>9 DEF PresentSession
  <2>2. act'[p].at = "admitted" /\ act'[p].key = session[v].key /\ act'[p].run = NoRun
    BY <2>1 DEF Enter, Idle
  <2>3. Stands(session[v].key, NoRun)
    BY <2>1 DEF Open, SessionKnows
  <2> QED
    BY <1>0, <1>2, <2>1, <2>2, <2>3
<1>10. ASSUME NEW p \in Processes, NEW r \in Runs, Execute(p, r) PROVE ProcessKnows'
  <2>1. Enter(p, [Idle EXCEPT !.at = "executing", !.run = r])
    BY <1>10 DEF Execute
  <2>2. act'[p].at = "executing" /\ act'[p].key = NoKey
    BY <2>1 DEF Enter, Idle
  <2> QED
    BY <1>2, <2>1, <2>2
<1>11. ASSUME NEW p \in Processes, NEW age \in Ages, PurgeSelect(p, age) PROVE ProcessKnows'
  <2>1. PICK D : Enter(p, [Idle EXCEPT !.at = "purging", !.doomed = D])
    BY <1>11 DEF PurgeSelect
  <2>2. act'[p].at = "purging"
    BY <2>1 DEF Enter, Idle
  <2> QED
    BY <1>2, <2>1, <2>2
<1> QED
  BY <1>3, <1>4, <1>5, <1>6, <1>7, <1>8, <1>9, <1>10, <1>11
  DEF Next, Tick, RevokeForMerchant, Issue, StartRun, EndRun, SignOut, Change, WriteRevocation,
      PurgeDelete, Die, OpenSession, vars

LEMMA SessionsStep == ASSUME IInv, [Next]_vars PROVE SessionKnows'
<1> USE DEF IInv, AccessTypeOK
<1> DEFINE Knows(v) == session[v].state # "none" =>
             /\ Stands(session[v].key, NoRun)
             /\ session[v].expires <= now + Lifetime
             /\ session[v].state = "closed" => session[v].expires <= session[v].closed + Lifetime
<1>0. /\ \A k, r : Stands(k, r) => Stands(k, r)'
      /\ \A k, r : Stands(k, r)' <=> k \in Keys /\ key'[k].state # "none" /\ key'[k].run = r
      /\ now' \in Nat /\ now <= now'
  BY AuthorityStands, TimeGoesOn DEF Stands
<1>1. ASSUME NEW v \in Verifiers, session'[v] = session[v] PROVE Knows(v)'
  <2>1. Knows(v)
    BY DEF SessionKnows
  <2> QED
    BY <1>0, <1>1, <2>1
<1>2. ASSUME NEW v \in Verifiers, session[v].state = "open", UNCHANGED now,
             session'[v] = [session[v] EXCEPT !.state = "closed", !.closed = now]
      PROVE  Knows(v)'
  <2>1. Knows(v)
    BY DEF SessionKnows
  <2>2. /\ session'[v].key = session[v].key /\ session'[v].expires = session[v].expires
        /\ session'[v].closed = now
    BY <1>2
  <2> QED
    BY <1>0, <1>2, <2>1, <2>2
<1>3. ASSUME NEW v \in Verifiers, session'[v] = NoRow PROVE Knows(v)'
  BY <1>3 DEF NoRow
<1>4. CASE RevokeForMerchant
  BY <1>1, <1>2, <1>4 DEF RevokeForMerchant, SessionKnows
<1>5. ASSUME NEW p \in Processes, SignOut(p) PROVE SessionKnows'
  <2> DEFINE u == act[p].via
  <2>1. u \in Verifiers /\ UNCHANGED now
    BY <1>5 DEF SignOut
  <2>2. session' = IF session[u].state = "open"
                   THEN [session EXCEPT ![u].state = "closed", ![u].closed = now] ELSE session
    BY <1>5 DEF SignOut
  <2> HIDE DEF u
  <2>3. \A v \in Verifiers : \/ session'[v] = session[v]
                             \/ /\ session[v].state = "open"
                                /\ session'[v] = [session[v] EXCEPT !.state = "closed", !.closed = now]
    BY <2>1, <2>2
  <2> QED
    BY <1>1, <1>2, <2>1, <2>3 DEF SessionKnows
<1>6. ASSUME NEW p \in Processes, NEW u \in Verifiers, OpenSession(p, u) PROVE SessionKnows'
  <2>1. Stands(act[p].key, NoRun)
    BY <1>6 DEF OpenSession, MayOpen, ProcessKnows
  <2>2. /\ \A v \in Verifiers : v # u => session'[v] = session[v]
        /\ \/ session'[u] = session[u]
           \/ session'[u] = [state |-> "open", key |-> act[p].key, expires |-> now + Lifetime,
                             closed |-> 0]
        /\ UNCHANGED now
    BY <1>6 DEF OpenSession
  <2>3. Knows(u)'
    <3>1. CASE session'[u] = session[u]
      BY <1>1, <3>1
    <3>2. CASE session'[u] = [state |-> "open", key |-> act[p].key, expires |-> now + Lifetime,
                              closed |-> 0]
      BY <1>0, <2>1, <2>2, <3>2
    <3> QED
      BY <2>2, <3>1, <3>2
  <2> QED
    BY <1>1, <2>2, <2>3 DEF SessionKnows
<1>7. ASSUME NEW p \in Processes, PurgeDelete(p) PROVE SessionKnows'
  BY <1>1, <1>3, <1>7 DEF PurgeDelete, SessionKnows
<1>8. ASSUME UNCHANGED session PROVE SessionKnows'
  BY <1>1, <1>8 DEF SessionKnows
<1> QED
  BY <1>4, <1>5, <1>6, <1>7, <1>8
  DEF Next, Tick, Issue, StartRun, EndRun, Change, CloseEndpoint, WriteRevocation, Die, PresentKey,
      IssueForRun, ReadToRevoke, PresentSession, Execute, PurgeSelect, vars

-----------------------------------------------------------------------------
(***************************************************************************)
(* Sessions that are out.                                                  *)
(***************************************************************************)

\* A row was there before or is new, and a new one expires a lifetime from now.
LEMMA SessionWrites ==
  ASSUME IInv, [Next]_vars, NEW v \in Verifiers, Open(v)'
  PROVE  \/ /\ Open(v)
            /\ session'[v] = session[v]
         \/ /\ session[v].state = "none"
            /\ session'[v].expires = now + Lifetime
<1> USE DEF IInv, AccessTypeOK
<1>0. Open(v)' <=> session'[v].state = "open" /\ session'[v].expires > now'
                 /\ key'[session'[v].key].state = "active"
  BY DEF Open, Live
<1>1. CASE session'[v] = session[v]
  <2>1. Stands(session[v].key, NoRun)
    BY <1>0, <1>1 DEF SessionKnows
  <2>2. Live(session[v].key)
    BY <1>0, <1>1, <2>1, AuthorityStands DEF Stands, Live, Open
  <2>3. now <= now' /\ now' \in Nat
    BY TimeGoesOn
  <2> QED
    BY <1>0, <1>1, <2>2, <2>3 DEF Open
<1>2. CASE session'[v] # session[v]
  <2>1. CASE RevokeForMerchant
    BY <1>0, <1>2, <2>1 DEF RevokeForMerchant
  <2>2. ASSUME NEW p \in Processes, SignOut(p) PROVE FALSE
    <3>1. act[p].via \in Verifiers
      BY <2>2 DEF SignOut
    <3> QED
      BY <1>0, <1>2, <2>2, <3>1 DEF SignOut
  <2>3. ASSUME NEW p \in Processes, NEW u \in Verifiers, OpenSession(p, u)
        PROVE  session[v].state = "none" /\ session'[v].expires = now + Lifetime
    BY <1>2, <2>3 DEF OpenSession
  <2>4. ASSUME NEW p \in Processes, PurgeDelete(p) PROVE FALSE
    BY <1>0, <1>2, <2>4 DEF PurgeDelete, NoRow
  <2> QED
    BY <1>2, <2>1, <2>2, <2>3, <2>4
    DEF Next, Tick, Issue, StartRun, EndRun, Change, CloseEndpoint, WriteRevocation, Die, PresentKey,
        IssueForRun, ReadToRevoke, PresentSession, Execute, PurgeSelect, vars
<1> QED
  BY <1>1, <1>2

LEMMA PurgesStep == ASSUME IInv, [Next]_vars PROVE PurgeKnows'
<1> USE DEF IInv, AccessTypeOK
<1> DEFINE Clear(row) == row[2] < now + Lifetime /\ (Open(row[1]) => session[row[1]].expires # row[2])
<1>0. now' \in Nat /\ now <= now'
  BY TimeGoesOn
<1>1. ASSUME NEW row \in Verifiers \X Nat, Clear(row) PROVE Clear(row)'
  <2>1. row[2] < now' + Lifetime
    BY <1>0, <1>1
  <2>2. ASSUME Open(row[1])' PROVE session'[row[1]].expires # row[2]
    BY <1>1, <2>2, SessionWrites
  <2> QED
    BY <2>1, <2>2
<1>2. ASSUME NEW p \in Processes, act'[p] = act[p], act[p].at = "purging", NEW row \in act[p].doomed
      PROVE  Clear(row)'
  <2>1. row \in Verifiers \X Nat /\ Clear(row)
    BY <1>2 DEF PurgeKnows
  <2> QED
    BY <1>1, <2>1
<1>3. ASSUME NEW p \in Processes, NEW age \in Ages, PurgeSelect(p, age), NEW row \in act'[p].doomed
      PROVE  Clear(row)'
  <2>1. PICK D \in Doomed(Settled(age)) :
          Enter(p, [Idle EXCEPT !.at = "purging", !.doomed = {<<v, session[v].expires>> : v \in D}])
    BY <1>3 DEF PurgeSelect
  <2>2. PICK v \in D : row = <<v, session[v].expires>>
    BY <1>3, <2>1 DEF Enter, Idle
  <2>3. v \in Verifiers /\ v \in Settled(age)
    BY DEF Doomed, Settled
  <2>4. age \in Int /\ age >= 0
    BY <1>3 DEF PurgeSelect, Retention
  <2>5. \/ session[v].state # "none" /\ session[v].expires < now
        \/ session[v].state = "closed" /\ session[v].closed < now
    BY <2>3, <2>4 DEF Settled
  <2>6. session[v].expires < now + Lifetime
    BY <2>3, <2>5 DEF SessionKnows
  <2>7. ~ Open(v)
    BY <2>3, <2>5 DEF Open
  <2> QED
    BY <1>1, <2>2, <2>3, <2>6, <2>7
<1>4. ASSUME NEW p \in Processes, act'[p].at = "purging", act[p].at # "purging"
      PROVE  \E age \in Ages : PurgeSelect(p, age)
  BY <1>4, ProcessWrites
<1>5. ASSUME NEW p \in Processes, act'[p].at = "purging", act[p].at = "purging"
      PROVE  act'[p] = act[p]
  BY <1>5, ProcessWrites DEF Idle
<1> QED
  BY <1>2, <1>3, <1>4, <1>5 DEF PurgeKnows

-----------------------------------------------------------------------------

LEMMA ChangesStep == ASSUME IInv, [Next]_vars PROVE ChangesStand'
<1> USE DEF IInv, AccessTypeOK
<1>0. \A k, r : Stands(k, r) => Stands(k, r)'
  BY AuthorityStands
<1>1. UNCHANGED changes => ChangesStand'
  <2>1. \A k, r : Stands(k, r)' <=> k \in Keys /\ key'[k].state # "none" /\ key'[k].run = r
    BY DEF Stands
  <2> QED
    BY <1>0, <2>1 DEF ChangesStand, Stands
<1>2. ASSUME NEW p \in Processes, Change(p) PROVE ChangesStand'
  <2>1. changes' = changes \/ (changes' = changes \cup {<<act[p].key, act[p].run>>})
    BY <1>2 DEF Change, Allowed
  <2>2. Stands(act[p].key, act[p].run)
    BY <1>2 DEF Change, ProcessKnows
  <2>3. UNCHANGED key
    BY <1>2 DEF Change
  <2> QED
    BY <2>1, <2>2, <2>3 DEF ChangesStand, Stands
<1> QED
  BY <1>1, <1>2
  DEF Next, Tick, RevokeForMerchant, Issue, StartRun, EndRun, SignOut, CloseEndpoint,
      WriteRevocation, PurgeDelete, Die, PresentKey, IssueForRun, ReadToRevoke, PresentSession,
      OpenSession, Execute, PurgeSelect, vars

LEMMA RevocationsStep == ASSUME IInv, [Next]_vars PROVE RevokedOnce'
<1> USE DEF IInv, AccessTypeOK, RevokedOnce
<1>1. CASE UNCHANGED <<key, revocations>>
  BY <1>1
<1>2. ASSUME NEW k \in Keys, Issue(k) PROVE RevokedOnce'
  BY <1>2 DEF Issue
<1>3. ASSUME NEW p \in Processes, NEW k \in Keys, IssueForRun(p, k) PROVE RevokedOnce'
  BY <1>3 DEF IssueForRun
<1>4. ASSUME NEW p \in Processes, WriteRevocation(p) PROVE RevokedOnce'
  <2>1. act[p].key \in Keys
    BY <1>4 DEF WriteRevocation, ProcessKnows
  <2> QED
    BY <1>4, <2>1 DEF WriteRevocation, Guard, Live
<1> QED
  BY <1>1, <1>2, <1>3, <1>4
  DEF Next, Tick, RevokeForMerchant, StartRun, EndRun, SignOut, Change, CloseEndpoint, PurgeDelete,
      Die, PresentKey, ReadToRevoke, PresentSession, OpenSession, Execute, PurgeSelect, vars

LEMMA Invariance == Spec => []IInv
<1>1. IInv /\ [Next]_vars => IInv'
  BY TypesStep, ProcessesStep, SessionsStep, PurgesStep, ChangesStep, RevocationsStep DEF IInv
<1> QED
  BY <1>1, InitIInv, PTL DEF Spec

-----------------------------------------------------------------------------
(***************************************************************************)
(* The theorems.                                                           *)
(***************************************************************************)

\* revoke and merchant_api_credential_guard: however many commands and endpoints race
\* to a key, one of them revokes it and one event says so.
THEOREM OneRevocation == Spec => []RevokedOnce
<1>1. IInv => RevokedOnce
  BY DEF IInv
<1> QED
  BY <1>1, Invariance, PTL

\* require_allowed: a merchant's world is changed with the authority of the key behind
\* the request and no more, whatever was revoked, started or ended since it was read.
THEOREM AuthorisedChanges == Spec => []ChangesAreAuthorised
<1>1. IInv => ChangesAreAuthorised
  BY DEF IInv, ChangesStand, ChangesAreAuthorised, Stands
<1> QED
  BY <1>1, Invariance, PTL

LEMMA StepsStayOut == ASSUME IInv, [Next]_vars PROVE OutStays
<1> USE DEF IInv, AccessTypeOK
<1>1. ASSUME NEW v \in Verifiers, session[v].state # "none", Open(v)' PROVE Open(v)
  BY <1>1, SessionWrites
<1>2. ASSUME NEW v \in Verifiers, Open(v) PROVE session'[v].state # "none"
  <2>1. session[v].state = "open"
    BY <1>2 DEF Open
  <2>2. ASSUME NEW p \in Processes, PurgeDelete(p) PROVE session'[v] = session[v]
    <3>1. <<v, session[v].expires>> \notin act[p].doomed
      BY <1>2, <2>2 DEF PurgeDelete, PurgeKnows
    <3> QED
      BY <2>2, <3>1 DEF PurgeDelete
  <2>3. ASSUME RevokeForMerchant PROVE session'[v].state # "none"
    BY <2>1, <2>3 DEF RevokeForMerchant
  <2>4. ASSUME NEW p \in Processes, SignOut(p) PROVE session'[v].state # "none"
    <3>1. act[p].via \in Verifiers
      BY <2>4 DEF SignOut
    <3> QED
      BY <2>1, <2>4, <3>1 DEF SignOut
  <2>5. ASSUME NEW p \in Processes, NEW u \in Verifiers, OpenSession(p, u)
        PROVE  session'[v].state # "none"
    BY <2>1, <2>5 DEF OpenSession
  <2> QED
    BY <2>1, <2>2, <2>3, <2>4, <2>5
    DEF Next, Tick, Issue, StartRun, EndRun, Change, CloseEndpoint, WriteRevocation, Die, PresentKey,
        IssueForRun, ReadToRevoke, PresentSession, Execute, PurgeSelect, vars
<1>3. ASSUME NEW p \in Processes, act[p] = Idle, act'[p].at = "admitted" PROVE Live(act'[p].key)
  BY <1>3, ProcessWrites DEF Idle
<1> QED
  BY <1>1, <1>2, <1>3 DEF OutStays

\* _open and purge_settled: a session that was signed out, has expired or stands on a
\* revoked key never works again, and no purge takes one that works.
THEOREM OutForGood == Spec => OutIsOut
<1>1. IInv /\ [Next]_vars => [OutStays]_vars
  BY StepsStayOut
<1> QED
  BY <1>1, Invariance, PTL DEF Spec, OutIsOut
=============================================================================
