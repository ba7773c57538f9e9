------------------------------- MODULE Login -------------------------------
(***************************************************************************)
(* OPAQUE login (auth_api) with the accounts table, the login flows and    *)
(* the sessions in Redis, and the failure counter of rate_limit.           *)
(*                                                                         *)
(* Every Redis command and every SQL statement is a step of its own: a     *)
(* handler awaits each of them, and may be cut off at any await by an      *)
(* error of Redis or Postgres, a lost client or a restart of the server.   *)
(* The OPAQUE library is external: a finalization is right or wrong, and   *)
(* never right for a username that has no account.                         *)
(***************************************************************************)
EXTENDS Integers

CONSTANTS Usernames,     \* names as sent by clients
          AccountIds,    \* identifiers accounts may get
          Flows,         \* identifiers login flows may get, each used once
          Handlers,      \* concurrent requests
          None,          \* absence of a value
          MaxFailures    \* MAX_FAILURES

Flow == [user : Usernames, acct : {None} \cup AccountIds]

ASSUME LoginConstants ==
  /\ None \notin AccountIds \cup Usernames \cup Flows \cup Flow
  /\ MaxFailures \in Nat \ {0}

VARIABLES
  account,     \* account[u]: identifier of the account of username u, or None
  flows,       \* flows[f]: what Redis holds under login:<f>, or None
  failures,    \* failures[u]: the counter rl:login:<u>, 0 when there is no key
  ttl,         \* ttl[u]: the counter of u has an expiry
  sessions,    \* live sessions, each named after the flow it was issued for
  handler,     \* handler[h]: where request h is and what it has read
  used,        \* identifiers of flows already drawn
  outcomes,    \* history: outcomes[f], sessions issued and failures counted for f
  proofs,      \* history: the right finalizations
  cut          \* history: a request was cut off between two of its steps

vars == <<account, flows, failures, ttl, sessions, handler, used, outcomes, proofs, cut>>

Steps == {"idle", "unlocked", "known", "failing", "expiring", "resetting", "minting"}

Request == [pc : Steps, user : {None} \cup Usernames, acct : {None} \cup AccountIds,
            flow : {None} \cup Flows]

Idle == [pc |-> "idle", user |-> None, acct |-> None, flow |-> None]

TypeOK ==
  /\ account \in [Usernames -> {None} \cup AccountIds]
  /\ flows \in [Flows -> {None} \cup Flow]
  /\ failures \in [Usernames -> Nat]
  /\ ttl \in [Usernames -> BOOLEAN]
  /\ sessions \subseteq [flow : Flows, acct : AccountIds]
  /\ handler \in [Handlers -> Request]
  /\ used \subseteq Flows
  /\ outcomes \in [Flows -> Nat]
  /\ proofs \subseteq [flow : Flows, user : Usernames]
  /\ cut \in BOOLEAN

Init ==
  /\ account = [u \in Usernames |-> None]
  /\ flows = [f \in Flows |-> None]
  /\ failures = [u \in Usernames |-> 0]
  /\ ttl = [u \in Usernames |-> FALSE]
  /\ sessions = {}
  /\ handler = [h \in Handlers |-> Idle]
  /\ used = {}
  /\ outcomes = [f \in Flows |-> 0]
  /\ proofs = {}
  /\ cut = FALSE

At(h, pc) == handler[h].pc = pc

Move(h, pc) == handler' = [handler EXCEPT ![h].pc = pc]

Answer(h) == handler' = [handler EXCEPT ![h] = Idle]

-----------------------------------------------------------------------------
(* register_finish                                                         *)

\* insert_account: the username is unique, and the identifier is a fresh one.
InsertAccount(u, id) ==
  /\ account[u] = None
  /\ \A v \in Usernames : account[v] # id
  /\ account' = [account EXCEPT ![u] = id]

\* The unique constraint on the username decides, whatever register_start said:
\* any other INSERT for u fails and is answered 409.
Register(u, id) ==
  /\ InsertAccount(u, id)
  /\ UNCHANGED <<flows, failures, ttl, sessions, handler, used, outcomes, proofs, cut>>

-----------------------------------------------------------------------------
(* login_start                                                             *)

Locked(u) == failures[u] >= MaxFailures

\* locked_for: 429 leaves everything as it is.
StartUnlocked(h, u) ==
  /\ At(h, "idle")
  /\ ~Locked(u)
  /\ handler' = [handler EXCEPT ![h] = [Idle EXCEPT !.pc = "unlocked", !.user = u]]
  /\ UNCHANGED <<account, flows, failures, ttl, sessions, used, outcomes, proofs, cut>>

\* None for an unknown username.
AccountCredentials(u) == account[u]

\* account_credentials; an unknown username goes on with a made-up answer.
StartKnown(h) ==
  /\ At(h, "unlocked")
  /\ handler' = [handler EXCEPT ![h] = [@ EXCEPT !.pc = "known", !.acct = AccountCredentials(handler[h].user)]]
  /\ UNCHANGED <<account, flows, failures, ttl, sessions, used, outcomes, proofs, cut>>

\* store_login_flow under a fresh identifier.
StartStore(h, f) ==
  /\ At(h, "known")
  /\ f \notin used
  /\ used' = used \cup {f}
  /\ flows' = [flows EXCEPT ![f] = [user |-> handler[h].user, acct |-> handler[h].acct]]
  /\ Answer(h)
  /\ UNCHANGED <<account, failures, ttl, sessions, outcomes, proofs, cut>>

-----------------------------------------------------------------------------
(* login_finish                                                            *)

\* Wrong on purpose: GET where the code has GETDEL.
Kept(f) == flows

\* take_login_flow: GETDEL.
Taken(f) == [flows EXCEPT ![f] = None]

\* Wrong on purpose: the result of the finalization is not looked at.
FinishTakeUnchecked(h, f, right) ==
  /\ At(h, "idle")
  /\ flows[f] # None /\ flows[f].acct # None
  /\ flows' = Taken(f)
  /\ handler' = [handler EXCEPT ![h] =
       [pc |-> "resetting", user |-> flows[f].user, acct |-> flows[f].acct, flow |-> f]]
  /\ proofs' = IF right THEN proofs \cup {[flow |-> f, user |-> flows[f].user]} ELSE proofs
  /\ UNCHANGED <<account, failures, ttl, sessions, used, outcomes, cut>>

\* The flow is taken and the finalization checked.  No flow: 401.
FinishTake(h, f, right) ==
  /\ At(h, "idle")
  /\ flows[f] # None
  /\ right => flows[f].acct # None
  /\ flows' = Taken(f)
  /\ handler' = [handler EXCEPT ![h] =
       [pc |-> IF right THEN "resetting" ELSE "failing",
        user |-> flows[f].user, acct |-> flows[f].acct, flow |-> f]]
  /\ proofs' = IF right THEN proofs \cup {[flow |-> f, user |-> flows[f].user]} ELSE proofs
  /\ UNCHANGED <<account, failures, ttl, sessions, used, outcomes, cut>>

Decide(h) == outcomes' = [outcomes EXCEPT ![handler[h].flow] = @ + 1]

\* Wrong on purpose: the failure is counted and the expiry never set.
FinishFailNoExpiry(h) ==
  /\ At(h, "failing")
  /\ failures' = [failures EXCEPT ![handler[h].user] = @ + 1]
  /\ Decide(h)
  /\ Answer(h)
  /\ UNCHANGED <<account, flows, ttl, sessions, used, proofs, cut>>

\* Wrong on purpose: the flow is put back for another try at the password.
FinishFailPutBack(h) ==
  /\ At(h, "failing")
  /\ failures' = [failures EXCEPT ![handler[h].user] = @ + 1]
  /\ flows' = [flows EXCEPT ![handler[h].flow] = [user |-> handler[h].user, acct |-> handler[h].acct]]
  /\ Decide(h)
  /\ Move(h, "expiring")
  /\ UNCHANGED <<account, ttl, sessions, used, proofs, cut>>

\* record_failure, INCR: an expiry already set is kept.
FinishFail(h) ==
  /\ At(h, "failing")
  /\ failures' = [failures EXCEPT ![handler[h].user] = @ + 1]
  /\ Decide(h)
  /\ Move(h, "expiring")
  /\ UNCHANGED <<account, flows, ttl, sessions, used, proofs, cut>>

\* record_failure, EXPIRE, then 401.  Without a key EXPIRE does nothing.
FinishExpire(h) ==
  /\ At(h, "expiring")
  /\ ttl' = [ttl EXCEPT ![handler[h].user] = failures[handler[h].user] > 0]
  /\ Answer(h)
  /\ UNCHANGED <<account, flows, failures, sessions, used, outcomes, proofs, cut>>

\* reset: DEL.
FinishReset(h) ==
  /\ At(h, "resetting")
  /\ failures' = [failures EXCEPT ![handler[h].user] = 0]
  /\ ttl' = [ttl EXCEPT ![handler[h].user] = FALSE]
  /\ Move(h, "minting")
  /\ UNCHANGED <<account, flows, sessions, used, outcomes, proofs, cut>>

\* create_session, then 200.
FinishMint(h) ==
  /\ At(h, "minting")
  /\ sessions' = sessions \cup {[flow |-> handler[h].flow, acct |-> handler[h].acct]}
  /\ Decide(h)
  /\ Answer(h)
  /\ UNCHANGED <<account, flows, failures, ttl, used, proofs, cut>>

-----------------------------------------------------------------------------
(* Time and failures.                                                      *)

\* 500, client gone, or restart of the server: what was written stays.
CutOff(h) ==
  /\ ~At(h, "idle")
  /\ Answer(h)
  /\ cut' = TRUE
  /\ UNCHANGED <<account, flows, failures, ttl, sessions, used, outcomes, proofs>>

FlowLapse(f) ==
  /\ flows[f] # None
  /\ flows' = [flows EXCEPT ![f] = None]
  /\ UNCHANGED <<account, failures, ttl, sessions, handler, used, outcomes, proofs, cut>>

\* WINDOW_SECS after the last EXPIRE of the key.
CounterLapse(u) ==
  /\ ttl[u]
  /\ failures' = [failures EXCEPT ![u] = 0]
  /\ ttl' = [ttl EXCEPT ![u] = FALSE]
  /\ UNCHANGED <<account, flows, sessions, handler, used, outcomes, proofs, cut>>

SessionLapse(s) ==
  /\ sessions' = sessions \ {s}
  /\ UNCHANGED <<account, flows, failures, ttl, handler, used, outcomes, proofs, cut>>

Next ==
  \/ \E u \in Usernames :
       \/ \E id \in AccountIds : Register(u, id)
       \/ CounterLapse(u)
  \/ \E h \in Handlers :
       \/ \E u \in Usernames : StartUnlocked(h, u)
       \/ StartKnown(h)
       \/ \E f \in Flows : StartStore(h, f)
       \/ \E f \in Flows, right \in BOOLEAN : FinishTake(h, f, right)
       \/ FinishFail(h) \/ FinishExpire(h) \/ FinishReset(h) \/ FinishMint(h)
       \/ CutOff(h)
  \/ \E f \in Flows : FlowLapse(f)
  \/ \E s \in sessions : SessionLapse(s)

Spec == Init /\ [][Next]_vars

\* Redis lets an expiry run out, and a request that is not cut off goes on.
Fairness ==
  /\ \A u \in Usernames : WF_vars(CounterLapse(u))
  /\ \A h \in Handlers : WF_vars(FinishExpire(h))

FairSpec == Spec /\ Fairness

-----------------------------------------------------------------------------
(* Properties.                                                             *)

\* A login flow has one outcome at most, one session issued or one failure
\* counted, however many requests finish it at the same time (take_login_flow).
FlowOnce == \A f \in Flows : outcomes[f] <= 1

\* A session gives access to the account of the username whose finalization was
\* right, as it was when the flow started and still is: registrations, expiries
\* and other logins in between change nothing to it (login_finish, create_session).
SessionProved ==
  \A s \in sessions : \E p \in proofs : p.flow = s.flow /\ account[p.user] = s.acct

\* A failure counter without expiry is about to get one, unless a request was
\* cut off between its INCR and its EXPIRE (record_failure).
CounterOwned ==
  \A u \in Usernames :
    failures[u] > 0 /\ ~ttl[u] => cut \/ \E h \in Handlers : At(h, "expiring") /\ handler[h].user = u

\* Requests that hold a flow and have not decided its outcome.
Holds(h, f) == handler[h].flow = f /\ handler[h].pc \in {"failing", "resetting", "minting"}

LiveFlows == {f \in Flows : flows[f] # None \/ \E h \in Handlers : Holds(h, f)}

SpentFlows == {f \in Flows : outcomes[f] > 0}

\* A login flow is a single-use token: however the requests that finish it
\* interleave, fail or are cut off, a flow taken or lost is never finished again
\* (take_login_flow and the identifiers drawn by login_start).
O == INSTANCE OneShot WITH Tokens <- Flows, drawn <- used, live <- LiveFlows, spent <- SpentFlows
FlowIsOneShot == O!Spec

\* If no request is cut off, a locked username does not stay locked for ever:
\* the lock delays the owner of the account, it does not shut the account.
LockEndsUncut == [](~cut) => \A u \in Usernames : Locked(u) ~> ~Locked(u)

-----------------------------------------------------------------------------
(* The inductive invariant the proofs use.                                 *)

\* A flow is stored, or held by one request, or decided, never two of these.
FlowInv ==
  \A f \in Flows :
    /\ outcomes[f] <= 1
    /\ flows[f] # None => outcomes[f] = 0 /\ f \in used
    /\ f \notin used => outcomes[f] = 0
    /\ \A h \in Handlers : Holds(h, f) =>
         /\ flows[f] = None /\ outcomes[f] = 0 /\ f \in used
         /\ \A g \in Handlers : Holds(g, f) => g = h

\* The account a flow or a request stands for is the one of its username, and a
\* request on its way to a session has a right finalization behind it.
OwnerInv ==
  /\ \A f \in Flows :
       flows[f] # None /\ flows[f].acct # None => account[flows[f].user] = flows[f].acct
  /\ \A h \in Handlers :
       /\ ~At(h, "idle") => handler[h].user # None
       /\ handler[h].acct # None => account[handler[h].user] = handler[h].acct
       /\ handler[h].pc \in {"failing", "resetting", "minting"} => handler[h].flow # None
       /\ handler[h].pc \in {"resetting", "minting"} =>
            /\ handler[h].acct # None
            /\ [flow |-> handler[h].flow, user |-> handler[h].user] \in proofs

Inv == TypeOK /\ FlowInv /\ OwnerInv /\ CounterOwned /\ SessionProved

-----------------------------------------------------------------------------
(* What the code's own comments say, and the code does not do.             *)

\* rate_limit.rs, line 21, the window is how long a lock lasts: a lock ends.
LockEnds == \A u \in Usernames : Locked(u) ~> ~Locked(u)
=============================================================================
