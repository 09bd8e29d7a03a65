----------------------------- MODULE AccessKeys -----------------------------
(***************************************************************************)
(* Who may act for a merchant: its API keys (auth/service.py), the browser *)
(* sessions opened with them (auth/console.py), the keys a benchmark       *)
(* runner issues itself for the length of one run (benchmark/endpoint.py), *)
(* and the guard that keeps everyone else out of a running world           *)
(* (benchmark/mutation.py).                                                *)
(*                                                                         *)
(* A request authenticates in one transaction and acts in another, so      *)
(* anything may happen between the two.  A revocation reads its key        *)
(* without a lock and writes it afterwards; the trigger on the table is    *)
(* what stops a second write.  Secrets, labels and tokens are left out: a  *)
(* key or a verifier is presented by whoever holds it.                     *)
(***************************************************************************)
EXTENDS Integers, FiniteSets

CONSTANTS
    Keys,            \* merchant API keys that may be issued
    Verifiers,       \* browser session verifiers that may be registered
    Runs,            \* benchmark runs of the merchant
    Processes,       \* requests, commands and executors in flight
    NoRun, NoKey, NoSession,
    Lifetime,        \* SESSION_LIFETIME in ticks
    Ages,            \* values an operator may give older_than, negative ones too
    PurgeLimit,      \* rows one purge may delete
    MaxTime          \* bound on the clock

ASSUME AccessAssumption ==
    /\ Lifetime \in Nat \ {0} /\ PurgeLimit \in Nat \ {0} /\ MaxTime \in Nat
    /\ Ages \subseteq Int
    /\ NoRun \notin Runs /\ NoKey \notin Keys /\ NoSession \notin Verifiers

VARIABLES
    now,        \* the database clock
    key,        \* merchant_api_credential: state and the run it is bound to
    revocations,\* credential.revoked events in the audit trail, per key
    session,    \* merchant_console_session
    run,        \* benchmark_run.status
    act,        \* what each process holds between two of its transactions
    changes,    \* <<key, active run>> of every change made to the merchant
    raised      \* keys a revocation of which ended in a database error

vars == <<now, key, revocations, session, run, act, changes, raised>>

Idle == [at |-> "idle", key |-> NoKey, run |-> NoRun, via |-> NoSession, live |-> FALSE, doomed |-> {}]
NoRow == [state |-> "none", key |-> NoKey, expires |-> 0, closed |-> 0]

Init ==
    /\ now = 0
    /\ key = [k \in Keys |-> [state |-> "none", run |-> NoRun]]
    /\ revocations = [k \in Keys |-> 0]
    /\ session = [v \in Verifiers |-> NoRow]
    /\ run = [r \in Runs |-> "PENDING"]
    /\ act = [p \in Processes |-> Idle]
    /\ changes = {} /\ raised = {}

-----------------------------------------------------------------------------
Active == {r \in Runs : run[r] = "RUNNING"}
ActiveRun == IF Active = {} THEN NoRun ELSE CHOOSE r \in Active : TRUE

\* get_active: the condition is in the query, so nothing is cached.
Live(k) == key[k].state = "active"

\* Fault: the read of a session does not join its key.
OpenWithoutKey(v) == session[v].state = "open" /\ session[v].expires > now
\* _open: unrevoked, unexpired, and opened with a key that is still active.
Open(v) == session[v].state = "open" /\ session[v].expires > now /\ Live(session[v].key)

Enter(p, a) == act' = [act EXCEPT ![p] = a]
Leave(p) == Enter(p, Idle)

\* issue: one transaction inserts the row and its event.
Issue(k) ==
    /\ key[k].state = "none"
    /\ key' = [key EXCEPT ![k] = [state |-> "active", run |-> NoRun]]
    /\ UNCHANGED <<now, revocations, session, run, act, changes, raised>>

\* _principal for an API key: what the request carries on is identifiers, never the row.
PresentKey(p, k) ==
    /\ act[p] = Idle /\ Live(k)
    /\ Enter(p, [Idle EXCEPT !.at = "admitted", !.key = k, !.run = key[k].run])
    /\ UNCHANGED <<now, key, revocations, session, run, changes, raised>>

\* _principal for a session verifier: a session never carries a run's capability.
PresentSession(p, v) ==
    /\ act[p] = Idle /\ Open(v)
    /\ Enter(p, [Idle EXCEPT !.at = "admitted", !.key = session[v].key, !.via = v])
    /\ UNCHANGED <<now, key, revocations, session, run, changes, raised>>

\* Fault: the route asks for a key and forgets whose.
MayOpenByAnyKey(a) == a.at = "admitted" /\ a.via = NoSession
\* require_operator_key: not a session, and not a benchmark executor's key.
MayOpen(a) == a.at = "admitted" /\ a.via = NoSession /\ a.run = NoRun

\* POST /console/sessions: the key is not read again, it may be revoked by now.
\* A verifier already registered meets the unique index and is a conflict.
OpenSession(p, v) ==
    /\ MayOpen(act[p])
    /\ session' = IF session[v].state = "none"
                  THEN [session EXCEPT ![v] = [state |-> "open", key |-> act[p].key,
                                               expires |-> now + Lifetime, closed |-> 0]]
                  ELSE session
    /\ Leave(p)
    /\ UNCHANGED <<now, key, revocations, run, changes, raised>>

\* DELETE /console/sessions/current: locked, and false for one already closed.
SignOut(p) ==
    /\ act[p].at = "admitted" /\ act[p].via # NoSession
    /\ LET v == act[p].via IN
       session' = IF session[v].state = "open"
                  THEN [session EXCEPT ![v].state = "closed", ![v].closed = now]
                  ELSE session
    /\ Leave(p)
    /\ UNCHANGED <<now, key, revocations, run, changes, raised>>

\* require_allowed: an ordinary caller needs an idle world, a bound one its own run.
Allowed(capability) == capability = ActiveRun

\* A command on the merchant: one request, guarded, then done.
Change(p) ==
    /\ act[p].at = "admitted"
    /\ changes' = IF Allowed(act[p].run) THEN changes \cup {<<act[p].key, ActiveRun>>} ELSE changes
    /\ Leave(p)
    /\ UNCHANGED <<now, key, revocations, session, run, raised>>

-----------------------------------------------------------------------------
\* A run takes the merchant's world; only one can.
StartRun(r) ==
    /\ run[r] = "PENDING" /\ Active = {}
    /\ run' = [run EXCEPT ![r] = "RUNNING"]
    /\ UNCHANGED <<now, key, revocations, session, act, changes, raised>>

\* The executor of a run loads it; its session keeps the object across commits.
Execute(p, r) ==
    /\ act[p] = Idle /\ run[r] = "RUNNING"
    /\ Enter(p, [Idle EXCEPT !.at = "executing", !.run = r])
    /\ UNCHANGED <<now, key, revocations, session, run, changes, raised>>

\* issue_for_benchmark: require_active locks the row and reads the object the session
\* already holds, so the status it sees is the loaded one.
IssueForRun(p, k) ==
    /\ act[p].at = "executing" /\ act[p].key = NoKey
    /\ key[k].state = "none"
    /\ key' = [key EXCEPT ![k] = [state |-> "active", run |-> act[p].run]]
    /\ Enter(p, [act[p] EXCEPT !.key = k])
    /\ UNCHANGED <<now, revocations, session, run, changes, raised>>

\* The run completes, or an operator aborts it while its executor is still at work.
EndRun(r) ==
    /\ run[r] = "RUNNING"
    /\ run' = [run EXCEPT ![r] = "ENDED"]
    /\ UNCHANGED <<now, key, revocations, session, act, changes, raised>>

\* The end of issued_benchmark_credential: revoke, with the object the session created.
CloseEndpoint(p) ==
    /\ act[p].at = "executing" /\ act[p].key # NoKey
    /\ Enter(p, [Idle EXCEPT !.at = "revoking", !.key = act[p].key, !.live = TRUE])
    /\ UNCHANGED <<now, key, revocations, session, run, changes, raised>>

\* credentials revoke: the key is read, unlocked, by a session that never saw it.
ReadToRevoke(p, k) ==
    /\ act[p] = Idle /\ key[k].state # "none"
    /\ Enter(p, [Idle EXCEPT !.at = "revoking", !.key = k, !.live = Live(k)])
    /\ UNCHANGED <<now, key, revocations, session, run, changes, raised>>

\* Fault: the table has no trigger, so the later write stands.
GuardAbsent(k) == TRUE
\* merchant_api_credential_guard: revoked_at is written once.
Guard(k) == Live(k)

\* repository.revoke and the event, in one transaction.  A key the process read as
\* revoked is left alone; a write the trigger refuses rolls everything back.
WriteRevocation(p) ==
    /\ act[p].at = "revoking"
    /\ LET k == act[p].key IN
       \/ /\ ~act[p].live
          /\ UNCHANGED <<key, revocations, raised>>
       \/ /\ act[p].live /\ Guard(k)
          /\ key' = [key EXCEPT ![k].state = "revoked"]
          /\ revocations' = [revocations EXCEPT ![k] = @ + 1]
          /\ UNCHANGED raised
       \/ /\ act[p].live /\ ~Guard(k)
          /\ raised' = raised \cup {k}
          /\ UNCHANGED <<key, revocations>>
    /\ Leave(p)
    /\ UNCHANGED <<now, session, run, changes>>

\* credentials revoke-sessions: every open row of the merchant, locked.
RevokeForMerchant ==
    /\ \E v \in Verifiers : session[v].state = "open"
    /\ session' = [v \in Verifiers |->
                     IF session[v].state = "open"
                     THEN [session[v] EXCEPT !.state = "closed", !.closed = now] ELSE session[v]]
    /\ UNCHANGED <<now, key, revocations, run, act, changes, raised>>

\* purge_settled refuses a negative retention, which would reach sessions still open.
Retention(age) == age >= 0

Settled(age) ==
    {v \in Verifiers : \/ session[v].state # "none" /\ session[v].expires < now - age
                       \/ session[v].state = "closed" /\ session[v].closed < now - age}

\* The oldest rows that fit the limit, by expiry.
Doomed(S) ==
    {D \in SUBSET S :
        /\ Cardinality(D) <= PurgeLimit
        /\ Cardinality(D) = PurgeLimit \/ D = S
        /\ \A v \in D, w \in S \ D : session[v].expires <= session[w].expires}

PurgeSelect(p, age) ==
    /\ act[p] = Idle
    /\ Retention(age) /\ Settled(age) # {}
    /\ \E D \in Doomed(Settled(age)) :
          Enter(p, [Idle EXCEPT !.at = "purging", !.doomed = {<<v, session[v].expires>> : v \in D}])
    /\ UNCHANGED <<now, key, revocations, session, run, changes, raised>>

\* Rows go by their id; a verifier registered again since is another row, expiring later.
PurgeDelete(p) ==
    /\ act[p].at = "purging"
    /\ session' = [v \in Verifiers |-> IF <<v, session[v].expires>> \in act[p].doomed THEN NoRow ELSE session[v]]
    /\ Leave(p)
    /\ UNCHANGED <<now, key, revocations, run, changes, raised>>

\* A process stops between two transactions; what it committed stays.
Die(p) ==
    /\ act[p] # Idle
    /\ Leave(p)
    /\ UNCHANGED <<now, key, revocations, session, run, changes, raised>>

Tick ==
    /\ now < MaxTime
    /\ now' = now + 1
    /\ UNCHANGED <<key, revocations, session, run, act, changes, raised>>

Next ==
    \/ Tick \/ RevokeForMerchant
    \/ \E k \in Keys : Issue(k)
    \/ \E r \in Runs : StartRun(r) \/ EndRun(r)
    \/ \E p \in Processes :
          \/ SignOut(p) \/ Change(p) \/ CloseEndpoint(p) \/ WriteRevocation(p)
          \/ PurgeDelete(p) \/ Die(p)
          \/ \E k \in Keys : PresentKey(p, k) \/ IssueForRun(p, k) \/ ReadToRevoke(p, k)
          \/ \E v \in Verifiers : PresentSession(p, v) \/ OpenSession(p, v)
          \/ \E r \in Runs : Execute(p, r)
          \/ \E age \in Ages : PurgeSelect(p, age)

Spec == Init /\ [][Next]_vars

-----------------------------------------------------------------------------
\* A key that is revoked was revoked by exactly one command, however many raced to it, and
\* the audit trail says so once (auth/repository.py:104, and the trigger behind it).
RevokedOnce ==
    \A k \in Keys : revocations[k] = IF key[k].state = "revoked" THEN 1 ELSE 0

\* Whatever changed the merchant did so with no more authority than the key behind it: an
\* operator's key, or a session it opened, while no run owned the world, and a run's own key
\* while that run did.  A buyer that could open a browser session would shed its run.
ChangesAreAuthorised == \A c \in changes : c[2] = key[c[1]].run

\* Out is out.  A session that was refused once is never admitted again - whether it was signed
\* out, expired, or opened by a request that was still in flight when its key was revoked -
\* and a purge takes no session that still works.
OutStays ==
    /\ \A v \in Verifiers :
         session[v].state # "none" /\ session'[v].state # "none" /\ Open(v)' => Open(v)
    /\ \A v \in Verifiers : Open(v) => session'[v].state # "none"
    /\ \A p \in Processes : act[p] = Idle /\ act'[p].at = "admitted" => Live(act'[p].key)
OutIsOut == [][OutStays]_vars

\* "Idempotent. Revoking an already revoked credential returns it unchanged and appends nothing"
\* (auth/service.py:197): no revocation ends in an error.
RevokeIsIdempotent == raised = {}

-----------------------------------------------------------------------------
(***************************************************************************)
(* The inductive invariant behind RevokedOnce, ChangesAreAuthorised and    *)
(* OutIsOut.                                                               *)
(***************************************************************************)

\* Every row and every process is one the schema and the code know.
AccessTypeOK ==
    /\ now \in Nat
    /\ key \in [Keys -> [state : {"none", "active", "revoked"}, run : Runs \cup {NoRun}]]
    /\ revocations \in [Keys -> Nat]
    /\ session \in [Verifiers -> [state : {"none", "open", "closed"}, key : Keys \cup {NoKey},
                                  expires : Nat, closed : Nat]]
    /\ run \in [Runs -> {"PENDING", "RUNNING", "ENDED"}]
    /\ act \in [Processes -> [at : {"idle", "admitted", "executing", "revoking", "purging"},
                              key : Keys \cup {NoKey}, run : Runs \cup {NoRun},
                              via : Verifiers \cup {NoSession}, live : BOOLEAN,
                              doomed : SUBSET (Verifiers \X Nat)]]
    /\ changes \in SUBSET (Keys \X (Runs \cup {NoRun}))

\* The authority behind a key is fixed with its row.
Stands(k, r) == k \in Keys /\ key[k].state # "none" /\ key[k].run = r

\* What each process holds between two transactions is still so, however old it is.
ProcessKnows ==
    \A p \in Processes :
        /\ act[p].at = "admitted" => Stands(act[p].key, act[p].run)
        /\ act[p].at = "executing" => act[p].key = NoKey \/ Stands(act[p].key, act[p].run)
        /\ act[p].at = "revoking" => act[p].key \in Keys /\ key[act[p].key].state # "none"

\* A browser session stands on an operator's key, and is closed no earlier than it was
\* opened.
SessionKnows ==
    \A v \in Verifiers : session[v].state # "none" =>
        /\ Stands(session[v].key, NoRun)
        /\ session[v].expires <= now + Lifetime
        /\ session[v].state = "closed" => session[v].expires <= session[v].closed + Lifetime

\* A row selected for a purge is settled still, and its verifier cannot be registered
\* again with the same expiry.
PurgeKnows ==
    \A p \in Processes : act[p].at = "purging" => \A row \in act[p].doomed :
        /\ row[2] < now + Lifetime
        /\ Open(row[1]) => session[row[1]].expires # row[2]

ChangesStand == \A c \in changes : Stands(c[1], c[2])

IInv == AccessTypeOK /\ ProcessKnows /\ SessionKnows /\ PurgeKnows /\ ChangesStand /\ RevokedOnce
=============================================================================
