------------------------------ MODULE DeltaLog ------------------------------
(***************************************************************************)
(* The tables `deltas` and `snapshots` and the functions that write them:  *)
(* deltas::append and snapshots::put, statement by statement, as Postgres  *)
(* runs them at READ COMMITTED on the connections of one pool.             *)
(*                                                                         *)
(* A delta is known by its `seq`.  `seq` is a bigserial: the number is     *)
(* drawn when the INSERT starts, outside any transaction, and the row only *)
(* becomes visible when the statement commits, so two inserts that overlap *)
(* may become visible in the opposite order of their numbers.              *)
(***************************************************************************)
EXTENDS Integers, FiniteSets

CONSTANTS Accounts,   \* accounts
          Tasks,      \* concurrent request handlers that may publish a snapshot
          Blobs,      \* snapshot payloads, opaque to the server
          None,       \* absence of a row or of a value
          MaxSeq,     \* bound: how many numbers the model draws from the bigserial
          PoolSize    \* connections of the Postgres pool (DB_MAX_CONNECTIONS)

Seqs == 1..MaxSeq

SnapshotRow == [covers : 0..MaxSeq, payload : Blobs]

ASSUME DeltaLogConstants ==
  /\ MaxSeq \in Nat
  /\ PoolSize \in Nat \ {0}
  /\ None \notin Accounts
  /\ None \notin SnapshotRow

VARIABLES
  seqGen,      \* last number drawn from the bigserial
  inserting,   \* rows of INSERT statements still running
  log,         \* log[a]: numbers of the committed rows of account a
  snap,        \* snap[a]: committed snapshot row of account a, or None
  tx,          \* tx[t]: the snapshot transaction task t has open
  committed    \* history: committed[a], every number ever committed for a

logVars == <<seqGen, inserting, log, snap, tx, committed>>

Row == [acct : Accounts, seq : Seqs]

Stages == {"none", "begun", "upserted", "purged"}

\* `doomed`: the rows the DELETE of the transaction has found.
Tx == [stage : Stages, acct : Accounts \cup {None}, covers : 0..MaxSeq,
       payload : {None} \cup Blobs, doomed : SUBSET Seqs]

NoTx == [stage |-> "none", acct |-> None, covers |-> 0, payload |-> None, doomed |-> {}]

LogTypeOK ==
  /\ seqGen \in 0..MaxSeq
  /\ inserting \subseteq Row
  /\ log \in [Accounts -> SUBSET Seqs]
  /\ snap \in [Accounts -> {None} \cup SnapshotRow]
  /\ tx \in [Tasks -> Tx]
  /\ committed \in [Accounts -> SUBSET Seqs]

LogInit ==
  /\ seqGen = 0
  /\ inserting = {}
  /\ log = [a \in Accounts |-> {}]
  /\ snap = [a \in Accounts |-> None]
  /\ tx = [t \in Tasks |-> NoTx]
  /\ committed = [a \in Accounts |-> {}]

-----------------------------------------------------------------------------
(* The pool and the single-statement reads.                                *)

OpenTx == {t \in Tasks : tx[t].stage # "none"}

\* A statement outside a transaction, and BEGIN, need a connection of the pool.
FreeConnection == Cardinality(inserting) + Cardinality(OpenTx) < PoolSize

\* snapshots::covers_seq
CoversSeq(a) == IF snap[a] = None THEN 0 ELSE snap[a].covers

Floor == [a \in Accounts |-> CoversSeq(a)]

\* deltas::latest_seq, 0 when no row is left
IsLatest(m, a) == m \in log[a] \cup {0} /\ \A s \in log[a] : s <= m

\* Wrong on purpose: the WHERE lacks the cursor.
AfterNothing(a, since) == log[a]

\* deltas::since: the lowest `limit` rows strictly above the cursor.
After(a, since) == {s \in log[a] : s > since}

\* Wrong on purpose: LIMIT without ORDER BY.
IsPageUnordered(page, a, since, limit) ==
  /\ page \subseteq After(a, since)
  /\ \/ Cardinality(page) = limit
     \/ Cardinality(page) < limit /\ page = After(a, since)

IsPage(page, a, since, limit) ==
  /\ page \subseteq After(a, since)
  /\ \A p \in page, s \in After(a, since) : s < p => s \in page
  /\ \/ Cardinality(page) = limit
     \/ Cardinality(page) < limit /\ page = After(a, since)

-----------------------------------------------------------------------------
(* deltas::append                                                          *)

\* The INSERT draws its number and runs.
InsertStart(a) ==
  /\ seqGen < MaxSeq
  /\ FreeConnection
  /\ seqGen' = seqGen + 1
  /\ inserting' = inserting \cup {[acct |-> a, seq |-> seqGen + 1]}
  /\ UNCHANGED <<log, snap, tx, committed>>

\* The statement commits, whether or not its caller is still there.
InsertCommit(r) ==
  /\ r \in inserting
  /\ inserting' = inserting \ {r}
  /\ log' = [log EXCEPT ![r.acct] = @ \cup {r.seq}]
  /\ committed' = [committed EXCEPT ![r.acct] = @ \cup {r.seq}]
  /\ UNCHANGED <<seqGen, snap, tx>>

\* The statement fails, or its connection or the database goes down: the
\* number stays drawn.
InsertAbort(r) ==
  /\ r \in inserting
  /\ inserting' = inserting \ {r}
  /\ UNCHANGED <<seqGen, log, snap, tx, committed>>

-----------------------------------------------------------------------------
(* snapshots::put                                                          *)

SnapBegin(t, a, c, blob) ==
  /\ tx[t].stage = "none"
  /\ FreeConnection
  /\ tx' = [tx EXCEPT ![t] = [stage |-> "begun", acct |-> a, covers |-> c,
                              payload |-> blob, doomed |-> {}]]
  /\ UNCHANGED <<seqGen, inserting, log, snap, committed>>

\* Wrong on purpose: the write does not wait for the transaction ahead of it.
RowNeverLocked(a) == FALSE

\* The row (or, before the first snapshot, its unique key) is held by the
\* transaction that wrote it last and has not ended.
RowLocked(a) == \E t \in Tasks : tx[t].stage \in {"upserted", "purged"} /\ tx[t].acct = a

\* Wrong on purpose: the ON CONFLICT has no WHERE.
NeverRegresses(a, c) == FALSE

\* The WHERE of the ON CONFLICT: refuse a snapshot older than the one in place.
Regresses(a, c) == CoversSeq(a) > c

SnapUpsert(t) ==
  /\ tx[t].stage = "begun"
  /\ ~RowLocked(tx[t].acct)
  /\ ~Regresses(tx[t].acct, tx[t].covers)
  /\ tx' = [tx EXCEPT ![t].stage = "upserted"]
  /\ UNCHANGED <<seqGen, inserting, log, snap, committed>>

\* No row touched: roll back and return None.
SnapRegress(t) ==
  /\ tx[t].stage = "begun"
  /\ ~RowLocked(tx[t].acct)
  /\ Regresses(tx[t].acct, tx[t].covers)
  /\ tx' = [tx EXCEPT ![t] = NoTx]
  /\ UNCHANGED <<seqGen, inserting, log, snap, committed>>

\* Wrong on purpose: the DELETE forgets the bound on `seq`.
CoveredAll(a, c) == log[a]

\* The rows the DELETE sees when it starts; one that commits later is not among them.
Covered(a, c) == {s \in log[a] : s <= c}

\* Wrong on purpose: the DELETE takes a second connection from the pool instead
\* of running on the one of the transaction.
SnapPurgeFromPool(t) ==
  /\ tx[t].stage = "upserted"
  /\ FreeConnection
  /\ tx' = [tx EXCEPT ![t] = [@ EXCEPT !.stage = "purged",
                                       !.doomed = Covered(tx[t].acct, tx[t].covers)]]
  /\ UNCHANGED <<seqGen, inserting, log, snap, committed>>

SnapPurge(t) ==
  /\ tx[t].stage = "upserted"
  /\ tx' = [tx EXCEPT ![t] = [@ EXCEPT !.stage = "purged",
                                       !.doomed = Covered(tx[t].acct, tx[t].covers)]]
  /\ UNCHANGED <<seqGen, inserting, log, snap, committed>>

\* Wrong on purpose: the upsert is not part of the transaction that purges.
SnapCommitPurgeOnly(t) ==
  LET a == tx[t].acct IN
  /\ tx[t].stage = "purged"
  /\ log' = [log EXCEPT ![a] = @ \ tx[t].doomed]
  /\ tx' = [tx EXCEPT ![t] = NoTx]
  /\ UNCHANGED <<seqGen, inserting, snap, committed>>

\* Wrong on purpose: the SET list of the upsert lacks `payload`.
SnapCommitOldPayload(t) ==
  LET a == tx[t].acct
      kept == IF snap[a] = None THEN tx[t].payload ELSE snap[a].payload IN
  /\ tx[t].stage = "purged"
  /\ snap' = [snap EXCEPT ![a] = [covers |-> tx[t].covers, payload |-> kept]]
  /\ log' = [log EXCEPT ![a] = @ \ tx[t].doomed]
  /\ tx' = [tx EXCEPT ![t] = NoTx]
  /\ UNCHANGED <<seqGen, inserting, committed>>

SnapCommit(t) ==
  LET a == tx[t].acct IN
  /\ tx[t].stage = "purged"
  /\ snap' = [snap EXCEPT ![a] = [covers |-> tx[t].covers, payload |-> tx[t].payload]]
  /\ log' = [log EXCEPT ![a] = @ \ tx[t].doomed]
  /\ tx' = [tx EXCEPT ![t] = NoTx]
  /\ UNCHANGED <<seqGen, inserting, committed>>

\* Error, client gone, server or database crash: Postgres rolls back.
SnapAbort(t) ==
  /\ tx[t].stage # "none"
  /\ tx' = [tx EXCEPT ![t] = NoTx]
  /\ UNCHANGED <<seqGen, inserting, log, snap, committed>>

-----------------------------------------------------------------------------
LogNext ==
  \/ \E a \in Accounts : InsertStart(a)
  \/ \E r \in inserting : InsertCommit(r) \/ InsertAbort(r)
  \/ \E t \in Tasks :
       \/ \E a \in Accounts, c \in 0..MaxSeq, blob \in Blobs : SnapBegin(t, a, c, blob)
       \/ SnapUpsert(t) \/ SnapRegress(t) \/ SnapPurge(t) \/ SnapCommit(t) \/ SnapAbort(t)

LogSpec == LogInit /\ [][LogNext]_logVars

-----------------------------------------------------------------------------
(* Fairness: a statement sent to Postgres ends, and the row lock goes to   *)
(* its waiters in turn, so none of them is overtaken for ever.  Nothing is *)
(* assumed of aborts, nor of requests that have not begun.                 *)

SnapWrite(t) == SnapUpsert(t) \/ SnapRegress(t)

LogFairness ==
  \A t \in Tasks :
    /\ SF_logVars(SnapWrite(t))
    /\ WF_logVars(SnapPurge(t))
    /\ WF_logVars(SnapCommit(t))

FairLogSpec == LogSpec /\ LogFairness

-----------------------------------------------------------------------------
(* Properties.                                                             *)

\* A delta that committed is still in the table, or the snapshot in place says
\* it covers it: no sequence of appends, publications, refusals, aborts and
\* crashes loses a row otherwise (snapshots::put, module comment lines 3-5).
CommittedKept == \A a \in Accounts : committed[a] \subseteq log[a] \cup 1..CoversSeq(a)

\* Whatever the interleaving of the publications of an account, the covered
\* prefix never shrinks: an older snapshot never replaces a newer one
\* (snapshots::put, the WHERE of the upsert and the row lock it holds).
CoversMonotone == [][\A a \in Accounts : Floor[a] <= Floor'[a]]_logVars

\* The statements of append and put implement the atomic journal: a purge is
\* seen together with the snapshot that replaces the purged rows, and a row is
\* appended once under a fresh number.
J == INSTANCE Journal WITH Numbers <- Seqs, rows <- log, floor <- Floor, ever <- committed
ImplementsJournal == J!Spec

\* A publication never waits for ever, for the row lock or for a connection
\* (snapshots::put runs its four statements on the one connection it holds).
PutEnds == \A t \in Tasks : tx[t].stage # "none" ~> tx[t].stage = "none"

-----------------------------------------------------------------------------
(* The inductive invariant the proofs use.                                 *)

\* A number is drawn once: not by two rows in flight, not again after it is
\* in a table.
DrawnOnce ==
  /\ \A r \in inserting : r.seq <= seqGen
  /\ \A a \in Accounts : \A s \in committed[a] : s <= seqGen
  /\ \A r, q \in inserting : r.seq = q.seq => r = q
  /\ \A r \in inserting, a \in Accounts : r.seq \notin committed[a]

\* Two transactions never hold the snapshot row of one account.
OneWriter ==
  \A t, u \in Tasks :
    /\ tx[t].stage \in {"upserted", "purged"}
    /\ tx[u].stage \in {"upserted", "purged"}
    /\ tx[t].acct = tx[u].acct
    => t = u

\* The comparison made by the upsert still holds when the transaction commits.
WriterAhead ==
  \A t \in Tasks : tx[t].stage \in {"upserted", "purged"} => CoversSeq(tx[t].acct) <= tx[t].covers

RowsCommitted == \A a \in Accounts : log[a] \subseteq committed[a]

DoomedCovered == \A t \in Tasks : \A s \in tx[t].doomed : s <= tx[t].covers

TxWhole ==
  \A t \in Tasks : tx[t].stage # "none" => tx[t].acct \in Accounts /\ tx[t].payload \in Blobs

\* What a publication relies on while it runs, for every interleaving of
\* snapshots::put with itself and with deltas::append.
LogInv ==
  /\ LogTypeOK /\ TxWhole
  /\ DrawnOnce /\ RowsCommitted
  /\ OneWriter /\ WriterAhead /\ DoomedCovered
=============================================================================
