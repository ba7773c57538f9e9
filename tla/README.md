# Formal verification of realm-guard-server

TLA+ specifications of realm-guard-server (the Axum server that stores and relays
end-to-end encrypted CRDT deltas), the TLC configurations that model-check them on
small instances, and TLAPS proofs for every value of their constants. Paths below are
relative to the root of the repository.

## 1. The system

| Component | State it keeps | Operations | Where |
|---|---|---|---|
| Delta log | table `deltas`: rows `(seq, account, payload)`, `seq` a bigserial | `append`, `since`, `latest_seq` | `src/deltas.rs`, `migrations/0006` |
| Snapshots | table `snapshots`: one `(payload, covers_seq)` per account | `put` (upsert, purge, in one transaction), `get`, `covers_seq` | `src/snapshots.rs`, `migrations/0007` |
| Sync API | none of its own | `push`, `pull`, `put_snapshot`, `get_snapshot` | `src/sync_api.rs` |
| Wake-up | one Redis subscription per WebSocket | `publish_nudge`, `ws`, `handle` | `src/sync_ws.rs` |
| Registration and login | table `accounts`; `login:<flow>` in Redis | `register_start/finish`, `login_start/finish`, `me` | `src/auth_api.rs`, `src/accounts.rs` |
| Rate limit | counter `rl:login:<username>` in Redis, with an expiry | `locked_for`, `record_failure`, `reset` | `src/rate_limit.rs` |
| Sessions | `session:<token>` in Redis | `create_session`, `session_account` | `src/sessions.rs` |
| Device registry | table `devices` | `register`, `list`, `rename`, `revoke` | `src/devices.rs`, `src/devices_api.rs` |
| Login by device key | `devauth:<pk>` in Redis | `challenge`, `verify` | `src/device_auth_api.rs` |
| Pairing mailbox | `pairing:<id>` in Redis | `deposit`, `fetch` | `src/pairing_api.rs` |
| Vault keys | table `vault_keys` | `store`, `fetch` | `src/vault_api.rs`, `src/vault_keys.rs` |
| Shared state | Postgres pool of 10, one lazily opened Redis connection | `connect`, `redis`, `redis_pubsub` | `src/state.rs` |
| Configuration | the environment of the process | `from_env`, `load_opaque_setup`, `decode_setup` | `src/config.rs` |
| Boot, routing, shutdown | the schema, the process | `run_migrations`, `run`, `build_app`, `shutdown_signal` | `src/main.rs`, `src/lib.rs` |
| Health probes | none | `healthz`, `readyz` | `src/health.rs` |
| Observability | counters, a histogram, the gauge of open WebSockets | | `src/observability.rs` |

How they interact. Every handler is a task of its own that awaits Postgres (through the
pool) and Redis; handlers share nothing else, but for the Redis connection of their
process, which the first of them to need it opens for all. `push` calls `deltas::append`, then
publishes on the channel of the account; the WebSocket handlers subscribed to it forward
the number to their device, which pulls. `pull` reads `snapshots` and `deltas`;
`put_snapshot` reads both, then runs the transaction of `snapshots::put`. `login_start`
and `login_finish` use the counter, the accounts table, the login flow and the sessions
in that order; `verify` uses the challenge, the device registry and the sessions.

What is hard here:

* **No handler is atomic.** Each statement or Redis command sees the world as it is at
  that moment. Only `snapshots::put` opens a transaction.
* **Numbers are drawn before they are visible.** `seq` is drawn outside any transaction.
* **Anything may be cut off.** The client goes away, Redis or Postgres answers an error,
  the server restarts: what was written stays, the rest does not happen, and a statement
  already sent goes on alone.
* **Processes overlap.** Two instances may boot, migrate and serve at the same time, and
  die at any point; dependencies come and go under the requests in progress.
* **Wake-ups may all be lost.** Correctness has to come from polling.

What makes each part correct: no committed delta is lost or skipped, and a device that
cannot be served from its cursor is told so (sync); the covered prefix never shrinks and
never passes the rows that exist (snapshots); a flow, a challenge, a pairing blob and a
failure count once (login, device keys, pairing); a session belongs to the account whose
proof was given; a lock ends; a wrapped vault key comes with its own salt; an account
lists the names it chose; all processes serve under one OPAQUE secret and a complete schema,
share one Redis connection each, tell an outage from a refusal, and stop when asked, but
for a request whose client or statement never ends.

## 2. The modules

| Module | Role | Code |
|---|---|---|
| `Journal` | abstract specification: rows, a floor per account, atomic append and compaction | what `deltas` and `snapshots` promise |
| `DeltaLog` | the two tables, statement by statement, with row locks and the pool | `deltas.rs`, `snapshots.rs`, `state.rs` |
| `DeltaLogProofs` | theorems about `DeltaLog` | |
| `Nudge` | WebSocket handlers and lossy publications | `sync_ws.rs` |
| `Sync` | the handlers of `/sync` and the devices; extends `DeltaLog`, instantiates `Nudge` | `sync_api.rs` |
| `SyncProofs` | theorems about `Sync`, resting on those about `DeltaLog` | |
| `Replica` | abstract specification: per account a set of published deltas, which its devices write, receive and follow with a position | what the `/sync` endpoints promise |
| `ReplicaProofs` | `Sync` implements `Replica`, and `DeltaLog` within it; no delta crosses accounts | |
| `Login`, `LoginProofs` | registration, login, counter, flows, sessions | `auth_api.rs`, `accounts.rs`, `rate_limit.rs`, `sessions.rs` |
| `DeviceAuth`, `DeviceAuthProofs` | registry and login by device key | `devices.rs`, `devices_api.rs`, `device_auth_api.rs` |
| `Relay`, `RelayProofs` | pairing boxes and vault keys | `pairing_api.rs`, `vault_api.rs`, `vault_keys.rs` |
| `Server`, `ServerProofs` | processes from boot to stop, and what their requests share | `config.rs`, `lib.rs`, `main.rs`, `state.rs`, `health.rs`, `AuthAccount`, `session_account` |
| `OneShot` | abstract specification of a single-use token: drawn once, live until lost or spent, never back | what `GETDEL` is for in `sessions.rs`, `device_auth_api.rs`, `pairing_api.rs` |
| `ContractProofs` | what `Journal`, `OneShot` and `Replica` give to whoever relies on them | |
| `MC*` | symmetry sets and the functions the configurations use | |

### DeltaLog

`log[a]` is the set of committed numbers of account `a`, `inserting` the rows of INSERT
statements that have drawn a number and not committed, `snap[a]` the committed snapshot
row. `tx[t]` is the transaction of task `t`, whose `stage` says how far `put` has run:
`begun` (line 31), `upserted` (34-47), `purged` (55-61), and the commit of line 63, which
makes both writes visible at once. The row lock is `RowLocked`: from the upsert to the end
of the transaction nobody else writes the snapshot row (before the first snapshot, nobody
else inserts its key). The comparison of the upsert therefore reads the committed row, as
READ COMMITTED does once the wait for the lock is over. The DELETE removes the rows it saw
when it started (`doomed`), not those that commit later. `SnapAbort` is an error, a
dropped handler or a crash, at any stage.

`committed` is a history variable: every number that ever committed.

### Sync

`req[d]` is the program counter of the handler of device `d` and what it has read.

| Handler | Actions |
|---|---|
| `push` | `Push` (the number is drawn), `Inserted` / `NotInserted` (with or without a handler waiting), `PushNudge` |
| `pull` | `PullCheck` (`covers_seq`, 410), `PullPage` (`since`), `PullLatest` (`latest_seq`, 200 and the device merges) |
| `put_snapshot` | `PutLatest`, `PutCovered` (400, or BEGIN), `PutStatement`, `PutEnd` (409, 200, 500) |
| `get_snapshot` | `GetSnapshot` |
| any | `Fail`: 500, client gone, restart |

The devices are not in this repository: they are modelled from how the server's
documentation and tests use it. A device moves its cursor to the last number of a page, or to the
`covers_seq` of the snapshot after a 410; it publishes what it has merged, up to its
cursor, or further by at most `Overclaim`; never up to a number below 0, which
`put_snapshot` answers with 400. A delta is its number, and the payload of a
snapshot the set of deltas merged into it. Devices ask for pages of `Limit` rows, any
integer, which `NormalizeLimit` clamps. Size limits and base64 are left out.

`anomalies` is a history variable: which of three named races has happened. *late*: a row
committed after one of its account with a greater number. *torn*: a page was read although
the snapshot had overtaken the cursor since the check. *overclaim*: a device claimed more
than its cursor. The invariants say what holds as long as none has; the violation runs
show that with the first two it does not hold, see section 5.

`Sync` implements `Replica` under `published` = `committed`, `have` = `merged`,
`position` = `cursor` and `whole` = no race so far: drawing a number in `push` is `Write`,
the commit of its row `Publish`, the answer of `pull` or `get_snapshot` `Deliver`;
everything else stutters. After a race `Replica` still forbids deliveries from another
account and cursors that go back or pass what was committed; it no longer says that
nothing is left out.

### Nudge

A publication reaches any subset of the subscribers, perhaps none. A handler is `closed`,
`opening` (upgraded, not yet subscribed) or `open`; however it ends, what it had not sent
is lost.

### Login

One action per Redis command or SQL statement. `login_start` is `StartUnlocked` (the GET of
`locked_for`; the 429 changes nothing), `StartKnown`, `StartStore`; `login_finish` is
`FinishTake` (GETDEL, then the check of the finalization, which is local), then either
`FinishFail` (INCR) and `FinishExpire` (EXPIRE) or `FinishReset` (DEL) and `FinishMint`
(SET). `CutOff` ends a request at any await. `ttl[u]` tells a counter with an expiry from
one without. OPAQUE is external: a finalization is right or wrong, never right for a
username without account. `outcomes`, `proofs` and `cut` are history variables. A flow is
a token of `OneShot`: live while it is stored or held by a request that has not decided,
spent with its session or its counted failure.

### DeviceAuth

`verify` is `VerifyTake` (GETDEL and the signature), `VerifyFind` (the lookup) and
`VerifyMint` (SET). A signature is the nonce it was made for. `active`, on a request and on
the session it gets, is a history variable: at some moment since the request began, the
device was registered and not revoked. `tried` and `issued` count the requests that took
a challenge and the sessions it led to; a challenge is a token of `OneShot`. `Register`
and `Rename` give a device a name, which carries, as history, the account that chose it;
`Listed` is the `WHERE` of `list`. `Rename` finds a device by its identifier, which stands
for its key, and by its account. Names are those `validate_name` lets through; formats of
keys and identifiers are left out.

### Relay

A request is three steps: it begins (`Deposit`, `Fetch`, `Store`, `FetchKey`), its one
command is executed (`DepositSet`: SET EX; `FetchTake`: GETDEL; `StoreUpsert`: INSERT ON
CONFLICT; `FetchGet`: SELECT), it is answered (`Confirm`, `Deliver`). `Leave` is a client
that goes away while its command is under way: the command may still be executed, before
or after the retry of the client, and `CutOff` ends what is left. `BoxLapse` is the expiry
of a box. Each write carries a blob of its own, which lets `before` (history: v was
told of before w was sent) order the writes. A blob is told of (`told`) by the answer to
its write or by that of a read, and `ReadsCurrent` forbids to read it once a write sent
after that is known. It does not order writes under way at the same time, and neither does
the code: a store that was given up may be executed after a later one was acknowledged and
read, and readers then get the older key again, until the next store. The session that `deposit`, `store` and
the fetch of a key ask for, the charset of `pairing_id` and base64 are left out. A pairing blob is
a token of `OneShot`, spent when a fetch is answered with it.

### Server

`proc[p]` goes from `off` through `ReadConfig`, `MigrateLock`, `MigrateOne` (one
transaction per migration), `MigrateDone` and `Listen` to `serving`, then `AskStop` (the
signal) to `draining` and `Exit`. `Die` is an error of the boot or a crash at any point:
the process and its requests are gone, Postgres releases the migration lock, the
migrations done stay. The environment is the one of the deployment, the same for all
processes; a file is readable or not at each boot. A variable leads to a secret, or to
something that does not decode. `trusted` is a history variable: the secrets processes
have served under, which accounts may rest on.

A request is a readiness probe or carries a session token that is live (`member`), one
that is not (`stranger`), or no usable one (`anonymous`, refused by `ArriveAnonymous`
before any look at Redis). `AppState::redis` is `RedisShared` (the connection is there), `RedisOpen`
(the cell is empty and nobody is filling it), then `RedisOpened` or `RedisNotOpened`;
`managers` counts the connection managers opened. `readyz` is `ProbeAcquire` (a connection
of the pool), `ProbeSelect` (the statement), the Redis connection, `Ping`; any other
handler begins with the Redis connection and `Authenticate`, then `Handle` stands for its
body and its statements, which are in the other modules: it answers 200, 400 or 500, or
becomes a WebSocket. A command may fail even when Redis is reachable. `Leave` is the end
of the answer or of the WebSocket, and drops a request wherever it is when the client
goes, the one filling the cell included. `seen` is a history variable:
the dependencies that were reachable at some moment since the probe came.

sqlx, tokio, axum and redis are external: that migrations run under one lock, that a cell
lets one initialisation run at a time and passes the turn on when it fails or is dropped,
that the server accepts nothing once it drains and does not wait for upgraded connections.

## 3. What the runs check

| Run | Properties | Bounds |
|---|---|---|
| `DeltaLog` | `LogInv`, `CommittedKept`, `CoversMonotone`, `ImplementsJournal`, `PutEnds` | 2 accounts, 2 publishing tasks, 2 numbers, 3 connections |
| `Sync_safety` | `SyncInv`, `NoGap`, `NothingLost`, `HonestClaimAccepted` | 2 devices of one account, 3 numbers, pages of 1 |
| `Sync_nudge` | `CoverIsReal`, `NudgeVisible`, `Isolated` | 2 accounts with a device each, one WebSocket, 2 numbers, `Overclaim` 1 |
| `Sync_liveness` | `LatestTrusted`, `CursorMonotone`, `ImplementsReplica`, `Converges` | 2 devices of one account, one of them a poller, 2 numbers, pages of 0 rows asked for |
| `Login` | `Inv`, `FlowOnce`, `SessionProved`, `CounterOwned`, `FlowIsOneShot`, `LockEndsUncut` | 2 usernames, 1 account, 2 requests, 3 flows, lock at 2 failures |
| `DeviceAuth` | `Inv`, `ChallengeOnce`, `SessionOwned`, `RevokedRefused`, `NameOwned`, `ChallengeIsOneShot` | 2 accounts, 2 keys, 2 names, 3 challenges, 2 requests |
| `Server` | `Inv`, `OneSecret`, `ServesMigrated`, `OneManager`, `ReadyMeansReached`, `RefusedMeansUnknown`, `WaitsEnd`, `StopsUnlessHeld` | 2 processes, 2 requests to one of them, 4 environments, 2 migrations |
| `Relay` | `Inv`, `ReadsCurrent`, `KeyWithItsSalt`, `BlobIsOneShot` | 1 box, 1 account, 3 blobs, 2 requests |
| `Sync_late`, `Sync_torn`, `Sync_masked`, `Login_lock` | one claim of the documentation each, violated | as the run they are named after |

Why these bounds. The races of this server are between two actors: two publications, two
inserts, a pull and a publication, two requests for one flow. Two numbers are enough to
commit out of order; the third puts a row between a compaction and the next page. Pages of
one row make every pull end before the log does. Three connections for two transactions
and an INSERT let every pair overlap and make the pool run out. Two failures lock a
username with one flow left. In `Relay`, three blobs are an acknowledged write, the write
that replaces it and one that is given up; places do not interact. In `Login`, one
username has an account and the other none. In `Server`, both requests go to one process,
where they meet in the cell, while the other boots, migrates and stops beside it; the
environments are those in which a wrong choice of secret would show, and one in which
nothing boots; two migrations leave a state half-way. `MaxSeq` bounds the numbers drawn and the sets of flows,
challenges and blobs bound how many are drawn; nothing else is bounded, and the proofs lift all of
them for the safety properties.

Deadlock is checked in every run but those of `Login`: once a username is locked for good
and the flows are used up, every request is refused, and the refusals change nothing.

## 4. Fairness

* `LogFairness` (`PutEnds`): a statement sent to Postgres ends, and a row lock goes to its
  waiters in turn, so a waiter that can proceed again and again does (strong fairness on
  the upsert). Aborts, INSERTs and the arrival of requests are not assumed, and neither is
  a connection after BEGIN: `put` never asks for a second one, which is why the property
  holds.
* `SyncFairness` (`Converges`): a device that keeps polling gets each of its statements
  answered, even if now and then one fails (strong fairness). It covers only the
  `Pollers`: the other devices may stop in the middle of anything, nudges may all be lost,
  and nobody has to push or publish. `sync_ws.rs` lines 11-13 promise exactly this.
* `Server.Fairness` (`WaitsEnd`, `StopsUnlessHeld`): only what has a timeout ends. The
  pool gives up on a connection (`PgPoolOptions` of `src/state.rs` lines 44-47 leaves the
  default of sqlx), and the connection manager of redis and its commands have timeouts of
  their own; the cell serves its waiters in turn, so a request that finds it free again
  and again gets it (strong fairness of `RedisOpen`); axum returns once it has drained.
  Nothing bounds a statement once sent, the reading of a body nor the sending of an
  answer: `build_app` has no timeout layer and the pool no statement timeout. So nothing
  is assumed of `ProbeSelect`, `Handle` and `Leave`, a request may hang there for ever, and
  the drain of a stopping process, which has no deadline, with it. `WaitsEnd` says that
  nobody hangs anywhere else, `StopsUnlessHeld` that nothing else holds a stop, WebSockets
  in particular. Nothing is assumed of boots, signals nor dependencies either.
* `Login.Fairness`: Redis lets an expiry run out, and EXPIRE follows INCR unless the
  request is cut off.

## 5. Where the code and its documentation disagree

* `Sync_late`: `seq` is called a monotone cursor (`src/deltas.rs` line 4), and rows may
  become visible out of order. A pull that returns 2 before 1 commits moves the cursor
  past 1 for good.
* `Sync_torn`: a cursor the snapshot has overtaken is promised a 410 (`src/sync_api.rs`
  lines 135-138, `tests/auth_flow.rs` line 639). The check and the page are two statements.
* `Sync_masked`: a snapshot is bounded so as not to mask deltas to come
  (`src/sync_api.rs` lines 190-191). The bound is the greatest *committed* number.
* `Login_lock`: the window is said to be how long a lock lasts (`src/rate_limit.rs`
  line 21). Requests cut off between INCR and EXPIRE leave a counter without expiry, and
  once it is at the limit no further request sets one.

`NoGap`, `NothingLost`, `LatestTrusted` and `LockEndsUncut` say that nothing else goes
wrong: without those races, or without a cut, the promise holds. `LatestTrusted` is about
`src/sync_api.rs` line 61, a device knows from `latest` whether pages are left: `latest` is
the greatest number still in the table, 0 once all is compacted, and the promise holds but
for a snapshot that has passed the cursor, which the next pull answers with 410.

## 6. What is proved

All proofs are for any sets of accounts, devices, handlers, usernames, flows, keys and
challenges, any page size, pool size, overclaim and failure limit, under the named
assumptions `DeltaLogConstants`, `SyncConstants`, `LoginConstants`,
`DeviceAuthConstants`, `RelayConstants` and `ServerConstants` (typing of the constants, and `None` being none of the values it
stands in for).

**DeltaLog.** `LogInvariant`, `NothingPurgedUncovered`, `CoversNeverRegresses` and
`LogImplementsJournal`. The invariant `LogInv` is what the row lock gives: `OneWriter` (two
transactions never hold the row of one account), hence `WriterAhead` (the comparison of
the upsert still holds at commit), and `DoomedCovered` (what the DELETE has found is under
the new cover). `DrawnOnce` makes `Journal`'s fresh numbers fresh. Without `WriterAhead`,
`CoversMonotone` is not inductive: nothing would tell that another publication did not
commit between the comparison and the commit. The refinement maps `rows`, `floor` and
`ever` to `log`, the covers of `snap`, and `committed`; all actions but `InsertCommit` and
`SnapCommit` stutter.

**Sync.** `SyncInvariant` and from it `NoGapUnlessRace`, `NothingLostUnlessRace`,
`CoverAlwaysReal`, `HonestClaimNeverRefused`, `NudgeNeverEarly`, `LatestIsTrusted`. The
invariant adds to
`LogInv`: `ReachInv` (every number in a handler's hands is at or below a committed row of
its account), `QuietInv` (while no race has happened, snapshots, cursors, pages in progress
and transactions in progress have no hole) and `NudgeInv`. The argument of `QuietInv` is
that a row that does not come late commits above everything committed, hence by `ReachInv`
above all that any handler has read; so what was whole stays whole. `HonestClaimAccepted`
is part of the induction, since the compaction between the two reads of `put_snapshot` is
admitted only because cover and log together never fall. `CursorNeverBack`, an action
property, needs `CursorInv` besides, proved inductive next to `SyncInv`: a device told 410
is below the snapshot, which never shrinks (`CoversNeverRegresses`), and pulls nothing
until it has read it; a page lies above the cursor.

**Sync and its abstractions** (`ReplicaProofs`). `AccountsIsolated` and
`SyncImplementsReplica` need a third inductive part, `ProvenanceInv`: what a device has
bears numbers already drawn, and what is committed, in a snapshot, or in a statement on its
way there was written by a device of its account. `Isolated` alone is not inductive:
nothing would tell that the payload a device is about to publish, or a row about to
commit, is its account's. In the refinement, `CommitPublishes` uses that a row which is not
late is above all committed ones (numbers are drawn once), `PullDelivers` that a page is
above the cursor (`CursorInv`) and has no hole (`QuietInv`), `SnapshotDelivers` that
a device told 410 is below the snapshot. `SyncImplementsLog` says that the handlers call
`append` and `put` only as `DeltaLog` allows, so that `SyncImplementsJournal`, the
atomic journal under the handlers, follows from the theorems about the tables alone.

**The abstract specifications** (`ContractProofs`). `JournalLosesNothing`,
`TokensNeverBack` and `ReplicaKeepsItsPromise` prove what each of the three gives
to those who rely on it: no number is lost but under the floor; a token has its effect
once at most and never comes back; a device misses nothing below its position while the
promise is whole. They assume of the constants that numbers are naturals (positive for
`Replica`) and that every device has an account, which `Sync` and `DeltaLog` give them.

**Login.** `Invariant`, and from it `FlowUsedOnce`, `SessionsProved`, `CountersOwned`. A
flow is stored, or held by one request, or decided (`FlowInv`); the account of a flow is
still that of its username (`OwnerInv`, accounts are never changed or deleted).
`FlowImplementsOneShot` follows from `FlowInv`: the step that decides finds the flow live
and leaves it neither stored nor held.

**DeviceAuth.** `Invariant`, and from it `ChallengeUsedOnce`, `SessionsOwned`,
`RevokedGetNothing`, `NamesOwned`, along the same lines: a nonce is stored, or held, or spent; and
`ChallengeImplementsOneShot`.

**Relay.** `Invariant`, and from it `ReadsAreCurrent`, `KeysWithTheirSalt`,
`BlobImplementsOneShot`. The heart is `HeldInv`: what a place holds was not told of
before any write executed since was sent. A write executed late keeps it because nobody
was told of it yet, neither by its own answer nor by that of a read, so nothing can have been
sent after that. `Overwriting` therefore counts what a read in progress carries: its
answer may still tell of it. `HolderInv` gives each blob one writer and, out of a box,
one reader.

**Server.** `Invariant`, and from it `OneSecretEver`, `SchemaBeforeService`,
`OneManagerEach`, `ReadinessIsFresh`, `LiveSessionsKept`. `SecretInv` says that a process
that runs has the one secret the environment gives (`Configured`), whatever it could read
at other boots; `MigratorInv` that who migrates holds the lock; `CellInv` that a request
filling the cell is alone and the cell empty, without which `OneManager` is not
inductive; `ProgressInv` that how far a probe has come tells what it has reached, and that
only a member gets as far as a handler, without which `Handle` could answer a probe.

A note for whoever extends the modules: tlapm 1.4.5 proves false statements from an EXCEPT
that updates one argument twice (`[f EXCEPT ![x].a = 1, ![x].b = 2]`). No module has one:
they nest, as `Answer` of `Server` does.

Model-checked only: the liveness properties (`PutEnds`, `Converges`, `LockEndsUncut`,
`WaitsEnd`, `StopsUnlessHeld`),
since liveness under fairness is beyond the prover, and the four disagreements.

## 7. Not modelled

* The OPAQUE protocol, Ed25519 and the CRDT merge are in `realm-guard-core`, another
  repository. Size limits and encodings carry no state.
* Authentication as a guard: `AuthAccount` is modelled in `Server`; the other modules take
  the session of a request as valid. It is read once, before the handler begins, and no
  handler looks at it again, so a session that expires later changes nothing to a request.
* Observability: counters and a histogram that nothing in the server reads, whose names and
  formats are what matters (the tests of `src/observability.rs` pin them). The gauge of
  WebSockets is decremented by a guard when the handler is dropped, however it ends: right
  by construction. The token of `/metrics` compares two strings.
* `healthz`, `me`, `register_start` and `generate-setup` change nothing; Sentry, tracing and
  the crypto provider have no effect on the rest.

## 8. Plan

Done: `Journal`, `DeltaLog`, `Nudge`, `Sync`, `Login`, `DeviceAuth`, `Relay`, `Server`,
`OneShot`, `Replica`, the refinements, and the proofs of all their safety properties. Left:

1. The enrolment of a device: `Relay` and `DeviceAuth` composed, from the pairing blob to
   the first session of the new device, with the source that retries.
2. A run of `Sync` with three numbers under fairness, which today takes too long.
