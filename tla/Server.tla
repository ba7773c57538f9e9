------------------------------- MODULE Server -------------------------------
(***************************************************************************)
(* The life of the server's processes: configuration, migrations, serving, *)
(* graceful stop (main, config, lib), and within a process the lazily      *)
(* opened Redis connection all requests share (AppState), with the two     *)
(* handlers that tell a failing dependency from an answer: the readiness   *)
(* probe (health) and the session check (AuthAccount).                     *)
(*                                                                         *)
(* sqlx, tokio, axum and redis are external: the advisory lock under which *)
(* migrations run, the cell that lets one initialisation run at a time and *)
(* the graceful shutdown are modelled as main, lib and state use them.     *)
(***************************************************************************)
EXTENDS Integers

CONSTANTS Processes,      \* instances of the server, restarted any number of times
          Requests,       \* concurrent requests
          ServerOf,       \* ServerOf[r]: the process request r is sent to
          Secrets,        \* OPAQUE server secrets
          Environments,   \* environments a deployment may give its processes
          Migrations,     \* number of migrations
          None            \* absence of a value

\* RG_OPAQUE_SETUP_FILE and RG_OPAQUE_SETUP: unset, or what they lead to once
\* readable; anything that is not a secret does not decode.
ASSUME ServerConstants ==
  /\ None \notin Processes \cup Secrets
  /\ ServerOf \in [Requests -> Processes]
  /\ Migrations \in Nat
  /\ \A e \in Environments : {"file", "inline"} = DOMAIN e

VARIABLES
  env,         \* the environment of the deployment, which nobody changes
  schema,      \* number of migrations applied to the database
  migrator,    \* the process that holds the migration lock, or None
  proc,        \* proc[p]: where process p is and the secret it has loaded
  managers,    \* managers[p]: Redis connection managers opened since p serves
  req,         \* req[r]: the request r and where its handler is
  up,          \* the dependencies that are reachable
  trusted      \* history: the secrets accounts may have been registered under

vars == <<env, schema, migrator, proc, managers, req, up, trusted>>

Dependencies == {"postgres", "redis"}

\* A member's token is live, a stranger's is not, an anonymous request has none.
Kinds == {"probe", "member", "stranger", "anonymous"}

\* `seen`, history: dependencies reachable at some moment since a probe came.
Request == [pc : {"idle", "acquire", "select", "redis", "opening", "command", "working",
                  "answering", "open"},
            kind : Kinds, seen : SUBSET Dependencies,
            answer : {"none", "200", "400", "401", "500", "503"}]

Idle == [pc |-> "idle", kind |-> "stranger", seen |-> {}, answer |-> "none"]

Seeing(kind) == IF kind = "probe" THEN up ELSE {}

Off == [pc |-> "off", secret |-> None]

TypeOK ==
  /\ env \in Environments
  /\ schema \in 0..Migrations
  /\ migrator \in {None} \cup Processes
  /\ proc \in [Processes -> [pc : {"off", "waiting", "migrating", "binding", "serving", "draining"},
                             secret : {None} \cup Secrets]]
  /\ managers \in [Processes -> Nat]
  /\ req \in [Requests -> Request]
  /\ up \subseteq Dependencies
  /\ trusted \subseteq Secrets

Init ==
  /\ env \in Environments
  /\ schema = 0
  /\ migrator = None
  /\ proc = [p \in Processes |-> Off]
  /\ managers = [p \in Processes |-> 0]
  /\ req = [r \in Requests |-> Idle]
  /\ up = Dependencies
  /\ trusted = {}

Is(p, pc) == proc[p].pc = pc

Go(p, pc) == proc' = [proc EXCEPT ![p].pc = pc]

At(r, pc) == req[r].pc = pc

processVars == <<env, schema, migrator, proc, trusted>>

-----------------------------------------------------------------------------
(* Boot.                                                                   *)

\* decode_setup: None when the base64 is invalid or empty.
DecodeSetup(content) == IF content \in Secrets THEN content ELSE None

\* Wrong on purpose: an unreadable file is skipped and the other variable used.
LoadOpaqueSetupOrInline(readable) ==
  IF env.file # None /\ readable THEN DecodeSetup(env.file) ELSE DecodeSetup(env.inline)

\* load_opaque_setup: the file has priority, and no error falls back to anything.
LoadOpaqueSetup(readable) ==
  IF env.file # None THEN (IF readable THEN DecodeSetup(env.file) ELSE None)
                     ELSE DecodeSetup(env.inline)

\* Config::from_env; on an error the process exits at once.
ReadConfig(p, readable) ==
  /\ Is(p, "off")
  /\ LoadOpaqueSetup(readable) # None
  /\ proc' = [proc EXCEPT ![p] = [pc |-> "waiting", secret |-> LoadOpaqueSetup(readable)]]
  /\ UNCHANGED <<env, schema, migrator, managers, req, up, trusted>>

\* Wrong on purpose: a process does not wait for the migrations of another.
MigrateUnlessOther(p) ==
  /\ Is(p, "waiting")
  /\ "postgres" \in up
  /\ IF migrator = None THEN migrator' = p /\ Go(p, "migrating")
                        ELSE Go(p, "binding") /\ UNCHANGED migrator
  /\ UNCHANGED <<env, schema, managers, req, up, trusted>>

\* run_migrations: migrate!().run takes its lock, waiting for it if need be.
MigrateLock(p) ==
  /\ Is(p, "waiting")
  /\ "postgres" \in up
  /\ migrator = None
  /\ migrator' = p
  /\ Go(p, "migrating")
  /\ UNCHANGED <<env, schema, managers, req, up, trusted>>

\* One migration that is missing is applied, in a transaction of its own.
MigrateOne(p) ==
  /\ Is(p, "migrating")
  /\ "postgres" \in up
  /\ schema < Migrations
  /\ schema' = schema + 1
  /\ UNCHANGED <<env, migrator, proc, managers, req, up, trusted>>

MigrateDone(p) ==
  /\ Is(p, "migrating")
  /\ schema = Migrations
  /\ migrator' = None
  /\ Go(p, "binding")
  /\ UNCHANGED <<env, schema, managers, req, up, trusted>>

\* AppState::connect opens nothing; the router is built, the socket bound, served.
Listen(p) ==
  /\ Is(p, "binding")
  /\ managers' = [managers EXCEPT ![p] = 0]
  /\ Go(p, "serving")
  /\ trusted' = trusted \cup {proc[p].secret}
  /\ UNCHANGED <<env, schema, migrator, req, up>>

-----------------------------------------------------------------------------
(* Stop.                                                                   *)

\* shutdown_signal returns: no request is accepted any more.
AskStop(p) ==
  /\ Is(p, "serving")
  /\ Go(p, "draining")
  /\ UNCHANGED <<env, schema, migrator, managers, req, up, trusted>>

\* Everything process p was doing is over; its migration lock is released.
Gone(p) ==
  /\ proc' = [proc EXCEPT ![p] = Off]
  /\ migrator' = IF migrator = p THEN None ELSE migrator
  /\ req' = [r \in Requests |-> IF ServerOf[r] = p THEN Idle ELSE req[r]]
  /\ UNCHANGED <<env, schema, managers, up, trusted>>

\* An upgraded WebSocket is a task of its own, which the server does not wait for.
InFlight(r) == req[r].pc \notin {"idle", "open"}

\* Wrong on purpose: the server waits for WebSockets too.
ExitAfterSockets(p) ==
  /\ Is(p, "draining")
  /\ \A r \in Requests : ServerOf[r] = p => At(r, "idle")
  /\ Gone(p)

\* serve returns once the requests in progress are answered.
Exit(p) ==
  /\ Is(p, "draining")
  /\ \A r \in Requests : ServerOf[r] = p => ~InFlight(r)
  /\ Gone(p)

\* An error of the boot, or a crash at any time.
Die(p) == ~Is(p, "off") /\ Gone(p)

-----------------------------------------------------------------------------
(* Requests.  A handler that fails or ends answers; axum then writes it.   *)

Step(r, pc) == req' = [req EXCEPT ![r].pc = pc]

Answer(r, status) ==
  req' = [req EXCEPT ![r] = [@ EXCEPT !.pc = "answering", !.answer = status]]

\* The probe begins in Postgres, any other handler with the session check.
Arrive(r, kind) ==
  /\ At(r, "idle")
  /\ Is(ServerOf[r], "serving")
  /\ req' = [req EXCEPT ![r] = [pc |-> IF kind = "probe" THEN "acquire" ELSE "redis",
                                kind |-> kind, seen |-> Seeing(kind), answer |-> "none"]]
  /\ UNCHANGED <<processVars, managers, up>>

\* AuthAccount, no usable bearer header: refused without a look at Redis.
ArriveAnonymous(r) ==
  /\ At(r, "idle")
  /\ Is(ServerOf[r], "serving")
  /\ req' = [req EXCEPT ![r] = [pc |-> "answering", kind |-> "anonymous", seen |-> {},
                                answer |-> "401"]]
  /\ UNCHANGED <<processVars, managers, up>>

\* readyz takes a connection of the pool, which gives up after a while: 503.
ProbeAcquire(r) ==
  /\ At(r, "acquire")
  /\ \/ "postgres" \in up /\ Step(r, "select")
     \/ Answer(r, "503")
  /\ UNCHANGED <<processVars, managers, up>>

\* readyz, SELECT 1: for as long as Postgres takes.  A failure is 503.
ProbeSelect(r) ==
  /\ At(r, "select")
  /\ \/ "postgres" \in up /\ Step(r, "redis")
     \/ Answer(r, "503")
  /\ UNCHANGED <<processVars, managers, up>>

\* Wrong on purpose: a probe takes the open connection for a reachable Redis.
RedisSharedSuffices(r) ==
  /\ At(r, "redis")
  /\ managers[ServerOf[r]] > 0
  /\ IF req[r].kind = "probe" THEN Answer(r, "200") ELSE Step(r, "command")
  /\ UNCHANGED <<processVars, managers, up>>

\* AppState::redis, when another request has opened the connection.
RedisShared(r) ==
  /\ At(r, "redis")
  /\ managers[ServerOf[r]] > 0
  /\ Step(r, "command")
  /\ UNCHANGED <<processVars, managers, up>>

\* Wrong on purpose: look, then open, without the cell in between.
RedisOpenUnguarded(r) ==
  /\ At(r, "redis")
  /\ managers[ServerOf[r]] = 0
  /\ Step(r, "opening")
  /\ UNCHANGED <<processVars, managers, up>>

\* The cell is empty and no request is filling it: this one tries.
RedisOpen(r) ==
  /\ At(r, "redis")
  /\ managers[ServerOf[r]] = 0
  /\ \A q \in Requests : ServerOf[q] = ServerOf[r] => ~At(q, "opening")
  /\ Step(r, "opening")
  /\ UNCHANGED <<processVars, managers, up>>

RedisOpened(r) ==
  /\ At(r, "opening")
  /\ "redis" \in up
  /\ managers' = [managers EXCEPT ![ServerOf[r]] = @ + 1]
  /\ Step(r, "command")
  /\ UNCHANGED <<processVars, up>>

\* Wrong on purpose: a session that cannot be read is taken for one that is not.
RedisErrorRefuses(r) == IF req[r].kind = "probe" THEN "503" ELSE "401"

\* What a handler makes of an error of Redis.
RedisError(r) == IF req[r].kind = "probe" THEN "503" ELSE "500"

\* Wrong on purpose: the request tries again until Redis is back.
RedisRetried(r) ==
  /\ At(r, "opening")
  /\ Step(r, "opening")
  /\ UNCHANGED <<processVars, managers, up>>

\* The error is for this request alone: the next one in line tries for itself.
RedisNotOpened(r) ==
  /\ At(r, "opening")
  /\ Answer(r, RedisError(r))
  /\ UNCHANGED <<processVars, managers, up>>

\* readyz, PING; the connection may have been lost since it was opened.
Ping(r) ==
  /\ At(r, "command")
  /\ req[r].kind = "probe"
  /\ \/ "redis" \in up /\ Answer(r, "200")
     \/ Answer(r, RedisError(r))

\* session_account, GET: a member has a session, a stranger none or an expired one.
SessionAccount(r) == req[r].kind = "member"

\* AuthAccount, from the GET on: the handler goes on for a member only.
Authenticate(r) ==
  /\ At(r, "command")
  /\ req[r].kind # "probe"
  /\ \/ "redis" \in up /\ SessionAccount(r) /\ Step(r, "working")
     \/ "redis" \in up /\ ~SessionAccount(r) /\ Answer(r, "401")
     \/ Answer(r, RedisError(r))

RedisCommand(r) ==
  /\ Ping(r) \/ Authenticate(r)
  /\ UNCHANGED <<processVars, managers, up>>

\* The handler behind AuthAccount: its body is read, its statements executed, for
\* as long as the client and Postgres take.  What they do is in the other modules;
\* here it succeeds, refuses, fails, or turns into a WebSocket.
Handle(r) ==
  /\ At(r, "working")
  /\ \/ \E status \in {"200", "400", "500"} : Answer(r, status)
     \/ Step(r, "open")
  /\ UNCHANGED <<processVars, managers, up>>

\* The answer is sent, a WebSocket closed, or the client gone, whatever the
\* handler was waiting for: it is dropped there.
Leave(r) ==
  /\ ~At(r, "idle")
  /\ req' = [req EXCEPT ![r] = Idle]
  /\ UNCHANGED <<processVars, managers, up>>

\* Postgres or Redis becomes unreachable, or reachable again.
Flip(d) ==
  /\ up' = IF d \in up THEN up \ {d} ELSE up \cup {d}
  /\ req' = [r \in Requests |-> IF req[r].kind = "probe" THEN [req[r] EXCEPT !.seen = @ \cup up']
                                                         ELSE req[r]]
  /\ UNCHANGED <<processVars, managers>>

Next ==
  \/ \E p \in Processes :
       \/ \E readable \in BOOLEAN : ReadConfig(p, readable)
       \/ MigrateLock(p) \/ MigrateOne(p) \/ MigrateDone(p) \/ Listen(p)
       \/ AskStop(p) \/ Exit(p) \/ Die(p)
  \/ \E r \in Requests :
       \/ \E kind \in Kinds \ {"anonymous"} : Arrive(r, kind)
       \/ ArriveAnonymous(r) \/ ProbeAcquire(r) \/ ProbeSelect(r)
       \/ RedisShared(r) \/ RedisOpen(r) \/ RedisOpened(r) \/ RedisNotOpened(r) \/ RedisCommand(r)
       \/ Handle(r) \/ Leave(r)
  \/ \E d \in Dependencies : Flip(d)

Spec == Init /\ [][Next]_vars

(* The waits the code bounds: the pool gives up on a connection, and so do the *)
(* connection manager and its commands.  The cell hands the initialisation to  *)
(* its waiters in turn (strong fairness), and axum returns once it has drained.*)
(* Nothing bounds a statement once sent, the reading of a body nor the sending *)
(* of an answer, so nothing is assumed of ProbeSelect, Handle and Leave; nor   *)
(* of boots, signals and dependencies.                                         *)
Fairness ==
  /\ \A p \in Processes : WF_vars(Exit(p))
  /\ \A r \in Requests :
       /\ WF_vars(ProbeAcquire(r))
       /\ WF_vars(RedisShared(r))
       /\ SF_vars(RedisOpen(r))
       /\ WF_vars(RedisOpened(r) \/ RedisNotOpened(r))
       /\ WF_vars(RedisCommand(r))

FairSpec == Spec /\ Fairness

-----------------------------------------------------------------------------
(* Properties.                                                             *)

\* Whatever boots, restarts and unreadable moments of the secret file: no two
\* processes ever serve with different OPAQUE secrets, or the accounts registered
\* under one could not log in under the other (config, lines 61-64).
OneSecret == \A s, t \in trusted : s = t

\* No process takes requests before the schema is complete, even if another one
\* was migrating when it started, or died half-way (run, lines 43-62).
ServesMigrated ==
  \A p \in Processes : proc[p].pc \in {"binding", "serving", "draining"} => schema = Migrations

\* The requests of a process share one connection manager, however many find
\* none, fail to open it or leave while they are opening it (AppState::redis).
OneManager == \A p \in Processes : managers[p] <= 1

\* A process that says it is ready has reached both dependencies since it was
\* asked: the connection of an earlier request does not count (readyz).
ReadyMeansReached ==
  \A r \in Requests : req[r].kind = "probe" /\ req[r].answer = "200" => req[r].seen = Dependencies

\* 401 tells a client to throw its session away: a live session never gets it,
\* whatever Redis does meanwhile (AuthAccount).
RefusedMeansUnknown == \A r \in Requests : req[r].kind = "member" => req[r].answer # "401"

\* Waits the code bounds, and waits it leaves to Postgres and to the client.
Bounded(r) == req[r].pc \in {"acquire", "redis", "opening", "command"}
Unbounded(r) == req[r].pc \in {"select", "working", "answering"}

\* No request waits for ever for a connection of the pool, for its turn at opening
\* the Redis connection, nor for Redis: whatever is down, whoever was opening it
\* fails or leaves, and even if every other request hangs in a statement, a body
\* or a client that does not read (AppState::redis, readyz, AuthAccount).
WaitsEnd == \A r \in Requests : Bounded(r) ~> ~Bounded(r)

\* A process that was asked to stop and never does is kept by one request, for
\* ever in a statement, in its body or in the sending of its answer: never by a
\* WebSocket, by a request that has ended, nor by one that waits for Redis or the
\* pool (run, lines 59-62; the drain itself has no deadline).
StopsUnlessHeld ==
  \A p \in Processes :
    <>[]Is(p, "draining") => \E r \in Requests : ServerOf[r] = p /\ <>[]Unbounded(r)

-----------------------------------------------------------------------------
(* The inductive invariant the proofs use.                                 *)

\* Every process loads the same secret, and it is the one accounts rest on.
Configured == IF env.file # None THEN env.file ELSE env.inline

SecretInv ==
  /\ trusted \subseteq {Configured}
  /\ \A p \in Processes : Is(p, "off") \/ (proc[p].secret = Configured /\ Configured \in Secrets)

MigratorInv == \A p \in Processes : Is(p, "migrating") => migrator = p

\* The cell: while a request is filling it, it is empty and nobody else is.
CellInv ==
  \A r \in Requests : At(r, "opening") =>
    /\ managers[ServerOf[r]] = 0
    /\ \A q \in Requests : At(q, "opening") /\ ServerOf[q] = ServerOf[r] => q = r

\* How far a probe has come shows what it has reached, a request that has not
\* decided has no answer yet, and a handler works for a member only.
ProgressInv ==
  \A r \in Requests :
    /\ ~At(r, "answering") => req[r].answer = "none"
    /\ req[r].kind = "probe" => up \subseteq req[r].seen
    /\ req[r].kind = "probe" /\ req[r].pc \in {"select", "redis", "opening", "command"}
         => "postgres" \in req[r].seen
    /\ At(r, "working") => req[r].kind = "member"

Inv ==
  /\ TypeOK /\ SecretInv /\ MigratorInv /\ ServesMigrated /\ CellInv /\ OneManager
  /\ ProgressInv /\ ReadyMeansReached /\ RefusedMeansUnknown
=============================================================================
