--------------------------- MODULE DeltaLogProofs ---------------------------
(***************************************************************************)
(* Proofs about DeltaLog, for any sets of accounts, concurrent             *)
(* publications and payloads, any number of rows and any size of the pool. *)
(***************************************************************************)
EXTENDS DeltaLog, TLAPS

\* The floor a snapshot row stands for is a number of the model.
LEMMA FloorTyped ==
  ASSUME LogTypeOK, NEW a \in Accounts
  PROVE  CoversSeq(a) \in 0..MaxSeq
<1>1. snap[a] \in {None} \cup SnapshotRow
  BY DEF LogTypeOK
<1>2. CASE snap[a] = None
  BY <1>2, DeltaLogConstants DEF CoversSeq
<1>3. CASE snap[a] \in SnapshotRow
  BY <1>3, DeltaLogConstants DEF CoversSeq, SnapshotRow
<1>. QED
  BY <1>1, <1>2, <1>3

\* A step that leaves the table of snapshots alone leaves every floor alone.
LEMMA FloorStable ==
  ASSUME UNCHANGED snap
  PROVE  \A a \in Accounts : Floor'[a] = CoversSeq(a)
  BY DEF Floor, CoversSeq

\* A committed publication moves the floor of its account to what it covers,
\* never backwards, and no other floor.
LEMMA FloorOfCommit ==
  ASSUME LogTypeOK, TxWhole, WriterAhead, NEW t \in Tasks, SnapCommit(t)
  PROVE  /\ tx[t].acct \in Accounts
         /\ \A a \in Accounts :
              IF a = tx[t].acct THEN /\ CoversSeq(a) <= tx[t].covers
                                    /\ Floor'[a] = tx[t].covers
                               ELSE Floor'[a] = CoversSeq(a)
<1>. DEFINE row == [covers |-> tx[t].covers, payload |-> tx[t].payload]
<1>1. /\ tx[t].stage = "purged"
      /\ tx[t].acct \in Accounts
      /\ tx[t].payload \in Blobs
      /\ tx[t].covers \in 0..MaxSeq
  BY DEF LogTypeOK, TxWhole, SnapCommit, Tx
<1>2. row \in SnapshotRow /\ row # None /\ row.covers = tx[t].covers
  BY <1>1, DeltaLogConstants DEF SnapshotRow
<1>3. snap' = [snap EXCEPT ![tx[t].acct] = row] /\ snap \in [Accounts -> {None} \cup SnapshotRow]
  BY DEF SnapCommit, LogTypeOK
<1>4. ASSUME NEW a \in Accounts, a = tx[t].acct
      PROVE  CoversSeq(a) <= tx[t].covers /\ Floor'[a] = tx[t].covers
  <2>1. CoversSeq(a) <= tx[t].covers
    BY <1>1, <1>4 DEF WriterAhead
  <2>2. snap'[a] = row
    BY <1>3, <1>4
  <2>. HIDE DEF row
  <2>. QED
    BY <1>2, <2>1, <2>2 DEF Floor, CoversSeq
<1>5. ASSUME NEW a \in Accounts, a # tx[t].acct
      PROVE  Floor'[a] = CoversSeq(a)
  BY <1>3, <1>5 DEF Floor, CoversSeq
<1>. QED
  BY <1>1, <1>4, <1>5

-----------------------------------------------------------------------------
(* Type correctness.                                                       *)

LEMMA NoTxTyped == NoTx \in Tx /\ NoTx.stage = "none" /\ NoTx.doomed = {}
  BY DeltaLogConstants DEF NoTx, Tx, Stages

LEMMA TypeInit == LogInit => LogTypeOK
  BY NoTxTyped, DeltaLogConstants DEF LogInit, LogTypeOK

LEMMA TypeStep ==
  ASSUME LogTypeOK, TxWhole, LogNext
  PROVE  LogTypeOK'
<1>. USE DEF LogTypeOK
<1>1. ASSUME NEW a \in Accounts, InsertStart(a) PROVE LogTypeOK'
  BY <1>1, DeltaLogConstants DEF InsertStart, Row, Seqs
<1>2. ASSUME NEW r \in inserting, InsertCommit(r) PROVE LogTypeOK'
  BY <1>2 DEF InsertCommit, Row
<1>3. ASSUME NEW r \in inserting, InsertAbort(r) PROVE LogTypeOK'
  BY <1>3 DEF InsertAbort
<1>4. ASSUME NEW t \in Tasks, NEW a \in Accounts, NEW c \in 0..MaxSeq, NEW blob \in Blobs,
             SnapBegin(t, a, c, blob)
      PROVE  LogTypeOK'
  BY <1>4 DEF SnapBegin, Tx, Stages
<1>5. ASSUME NEW t \in Tasks, SnapUpsert(t) PROVE LogTypeOK'
  BY <1>5 DEF SnapUpsert, Tx, Stages
<1>6. ASSUME NEW t \in Tasks, SnapRegress(t) \/ SnapAbort(t) PROVE LogTypeOK'
  BY <1>6, NoTxTyped DEF SnapRegress, SnapAbort
<1>7. ASSUME NEW t \in Tasks, SnapPurge(t) PROVE LogTypeOK'
  <2>. DEFINE new == [tx[t] EXCEPT !.stage = "purged",
                                 !.doomed = Covered(tx[t].acct, tx[t].covers)]
  <2>1. Covered(tx[t].acct, tx[t].covers) \subseteq Seqs
    BY <1>7 DEF SnapPurge, Covered, TxWhole
  <2>2. new \in Tx
    BY <2>1 DEF Tx, Stages
  <2>. HIDE DEF new
  <2>3. tx' = [tx EXCEPT ![t] = new]
    BY <1>7 DEF SnapPurge, new
  <2>. QED
    BY <1>7, <2>2, <2>3 DEF SnapPurge
<1>8. ASSUME NEW t \in Tasks, SnapCommit(t) PROVE LogTypeOK'
  <2>. DEFINE row == [covers |-> tx[t].covers, payload |-> tx[t].payload]
  <2>1. tx[t].acct \in Accounts /\ row \in SnapshotRow
    BY <1>8 DEF SnapCommit, TxWhole, SnapshotRow, Tx
  <2>. HIDE DEF row
  <2>2. snap' = [snap EXCEPT ![tx[t].acct] = row]
    BY <1>8 DEF SnapCommit, row
  <2>3. tx' \in [Tasks -> Tx]
    BY <1>8, NoTxTyped DEF SnapCommit
  <2>4. log' \in [Accounts -> SUBSET Seqs]
    BY <1>8, <2>1 DEF SnapCommit
  <2>. QED
    BY <1>8, <2>1, <2>2, <2>3, <2>4 DEF SnapCommit
<1>. QED
  BY <1>1, <1>2, <1>3, <1>4, <1>5, <1>6, <1>7, <1>8 DEF LogNext

-----------------------------------------------------------------------------
(* The inductive invariant, one lemma per part.                            *)

LEMMA TxWholeStep ==
  ASSUME LogTypeOK, TxWhole, LogNext
  PROVE  TxWhole'
<1>. USE DEF LogTypeOK, TxWhole
<1>1. ASSUME tx' = tx PROVE TxWhole'
  BY <1>1
<1>2. ASSUME NEW t \in Tasks, NEW a \in Accounts, NEW c \in 0..MaxSeq, NEW blob \in Blobs,
             SnapBegin(t, a, c, blob)
      PROVE  TxWhole'
  BY <1>2 DEF SnapBegin
<1>3. ASSUME NEW t \in Tasks, SnapUpsert(t) PROVE TxWhole'
  BY <1>3 DEF SnapUpsert, Tx
<1>4. ASSUME NEW t \in Tasks, SnapPurge(t) PROVE TxWhole'
  BY <1>4 DEF SnapPurge, Tx
<1>5. ASSUME NEW t \in Tasks, tx' = [tx EXCEPT ![t] = NoTx] PROVE TxWhole'
  BY <1>5, NoTxTyped
<1>. QED
  BY <1>1, <1>2, <1>3, <1>4, <1>5
  DEF LogNext, InsertStart, InsertCommit, InsertAbort, SnapRegress, SnapCommit, SnapAbort

LEMMA DrawnOnceStep ==
  ASSUME LogTypeOK, DrawnOnce, LogNext
  PROVE  DrawnOnce'
<1>. USE DeltaLogConstants DEF LogTypeOK, DrawnOnce, Row, Seqs
<1>1. ASSUME UNCHANGED <<seqGen, inserting, committed>> PROVE DrawnOnce'
  BY <1>1
<1>2. ASSUME NEW a \in Accounts, InsertStart(a) PROVE DrawnOnce'
  BY <1>2 DEF InsertStart
<1>3. ASSUME NEW r \in inserting, InsertCommit(r) PROVE DrawnOnce'
  <2>1. \A a \in Accounts : committed'[a] \subseteq committed[a] \cup {r.seq}
    BY <1>3 DEF InsertCommit
  <2>. QED
    BY <1>3, <2>1 DEF InsertCommit
<1>4. ASSUME NEW r \in inserting, InsertAbort(r) PROVE DrawnOnce'
  BY <1>4 DEF InsertAbort
<1>. QED
  BY <1>1, <1>2, <1>3, <1>4
  DEF LogNext, SnapBegin, SnapUpsert, SnapRegress, SnapPurge, SnapCommit, SnapAbort

\* The row lock: the transaction that writes finds no other that has written.
LEMMA OneWriterStep ==
  ASSUME LogTypeOK, OneWriter, LogNext
  PROVE  OneWriter'
<1>. USE DEF LogTypeOK, OneWriter
<1>1. ASSUME tx' = tx PROVE OneWriter'
  BY <1>1
<1>2. ASSUME NEW t \in Tasks, NEW a \in Accounts, NEW c \in 0..MaxSeq, NEW blob \in Blobs,
             SnapBegin(t, a, c, blob)
      PROVE  OneWriter'
  BY <1>2 DEF SnapBegin
<1>3. ASSUME NEW t \in Tasks, SnapUpsert(t) PROVE OneWriter'
  BY <1>3 DEF SnapUpsert, RowLocked, Tx
<1>4. ASSUME NEW t \in Tasks, SnapPurge(t) PROVE OneWriter'
  BY <1>4 DEF SnapPurge, Tx
<1>5. ASSUME NEW t \in Tasks, tx' = [tx EXCEPT ![t] = NoTx] PROVE OneWriter'
  BY <1>5, NoTxTyped
<1>. QED
  BY <1>1, <1>2, <1>3, <1>4, <1>5
  DEF LogNext, InsertStart, InsertCommit, InsertAbort, SnapRegress, SnapCommit, SnapAbort

\* What the upsert compared cannot change before its transaction ends, because
\* only a transaction that holds the row commits another floor.
LEMMA WriterAheadStep ==
  ASSUME LogTypeOK, TxWhole, OneWriter, WriterAhead, LogNext
  PROVE  WriterAhead'
<1>. USE DEF LogTypeOK, TxWhole, WriterAhead
<1>. SUFFICES ASSUME NEW u \in Tasks, tx'[u].stage \in {"upserted", "purged"}
             PROVE  Floor'[tx'[u].acct] <= tx'[u].covers /\ tx'[u].acct \in Accounts
  BY DEF Floor, CoversSeq
<1>0. TxWhole' /\ LogTypeOK'
  BY TxWholeStep, TypeStep
<1>. tx'[u].acct \in Accounts /\ tx'[u].covers \in 0..MaxSeq
  BY <1>0 DEF Tx
<1>1. ASSUME tx'[u] = tx[u], UNCHANGED snap
      PROVE  Floor'[tx'[u].acct] <= tx'[u].covers
  BY <1>1, FloorStable
<1>2. ASSUME NEW t \in Tasks, NEW a \in Accounts, NEW c \in 0..MaxSeq, NEW blob \in Blobs,
             SnapBegin(t, a, c, blob)
      PROVE  Floor'[tx'[u].acct] <= tx'[u].covers
  BY <1>1, <1>2 DEF SnapBegin
<1>3. ASSUME NEW t \in Tasks, SnapUpsert(t)
      PROVE  Floor'[tx'[u].acct] <= tx'[u].covers
  <2>1. CASE u = t
    <3>1. tx'[u].acct = tx[t].acct /\ tx'[u].covers = tx[t].covers
      BY <1>3, <2>1 DEF SnapUpsert, Tx
    <3>2. CoversSeq(tx[t].acct) <= tx[t].covers
      BY <1>3, <3>1, FloorTyped DEF SnapUpsert, Regresses, Tx
    <3>. QED
      BY <1>3, <3>1, <3>2, FloorStable DEF SnapUpsert
  <2>2. CASE u # t
    BY <1>1, <1>3, <2>2 DEF SnapUpsert
  <2>. QED
    BY <2>1, <2>2
<1>4. ASSUME NEW t \in Tasks, SnapPurge(t)
      PROVE  Floor'[tx'[u].acct] <= tx'[u].covers
  <2>1. CASE u = t
    <3>1. tx'[u].acct = tx[t].acct /\ tx'[u].covers = tx[t].covers
      BY <1>4, <2>1 DEF SnapPurge, Tx
    <3>. QED
      BY <1>4, <3>1, FloorStable DEF SnapPurge
  <2>2. CASE u # t
    BY <1>1, <1>4, <2>2 DEF SnapPurge
  <2>. QED
    BY <2>1, <2>2
<1>5. ASSUME NEW t \in Tasks, SnapRegress(t) \/ SnapAbort(t)
      PROVE  Floor'[tx'[u].acct] <= tx'[u].covers
  BY <1>1, <1>5, NoTxTyped DEF SnapRegress, SnapAbort
<1>6. ASSUME NEW t \in Tasks, SnapCommit(t)
      PROVE  Floor'[tx'[u].acct] <= tx'[u].covers
  <2>1. u # t /\ tx'[u] = tx[u]
    BY <1>6, NoTxTyped DEF SnapCommit
  <2>2. tx[u].acct # tx[t].acct
    BY <1>6, <2>1 DEF OneWriter, SnapCommit
  <2>3. Floor'[tx[u].acct] = CoversSeq(tx[u].acct)
    BY <1>6, <2>1, <2>2, FloorOfCommit
  <2>. QED
    BY <2>1, <2>3
<1>. QED
  BY <1>1, <1>2, <1>3, <1>4, <1>5, <1>6 DEF LogNext, InsertStart, InsertCommit, InsertAbort

LEMMA DoomedCoveredStep ==
  ASSUME LogTypeOK, DoomedCovered, LogNext
  PROVE  DoomedCovered'
<1>. USE DEF LogTypeOK, DoomedCovered
<1>1. ASSUME tx' = tx PROVE DoomedCovered'
  BY <1>1
<1>2. ASSUME NEW t \in Tasks, NEW a \in Accounts, NEW c \in 0..MaxSeq, NEW blob \in Blobs,
             SnapBegin(t, a, c, blob)
      PROVE  DoomedCovered'
  BY <1>2 DEF SnapBegin
<1>3. ASSUME NEW t \in Tasks, SnapUpsert(t) PROVE DoomedCovered'
  BY <1>3 DEF SnapUpsert, Tx
<1>4. ASSUME NEW t \in Tasks, SnapPurge(t) PROVE DoomedCovered'
  BY <1>4 DEF SnapPurge, Tx, Covered
<1>5. ASSUME NEW t \in Tasks, tx' = [tx EXCEPT ![t] = NoTx] PROVE DoomedCovered'
  BY <1>5, NoTxTyped
<1>. QED
  BY <1>1, <1>2, <1>3, <1>4, <1>5
  DEF LogNext, InsertStart, InsertCommit, InsertAbort, SnapRegress, SnapCommit, SnapAbort

LEMMA RowsCommittedStep ==
  ASSUME LogTypeOK, RowsCommitted, LogNext
  PROVE  RowsCommitted'
<1>. USE DEF LogTypeOK, RowsCommitted
<1>1. ASSUME UNCHANGED <<log, committed>> PROVE RowsCommitted'
  BY <1>1
<1>2. ASSUME NEW r \in inserting, InsertCommit(r) PROVE RowsCommitted'
  BY <1>2 DEF InsertCommit
<1>3. ASSUME NEW t \in Tasks, SnapCommit(t) PROVE RowsCommitted'
  BY <1>3 DEF SnapCommit
<1>. QED
  BY <1>1, <1>2, <1>3
  DEF LogNext, InsertStart, InsertAbort, SnapBegin, SnapUpsert, SnapRegress, SnapPurge, SnapAbort

LEMMA LogInvInit == LogInit => LogInv
<1>1. LogInit => TxWhole /\ OneWriter /\ WriterAhead /\ DoomedCovered
  BY NoTxTyped DEF LogInit, TxWhole, OneWriter, WriterAhead, DoomedCovered
<1>2. LogInit => DrawnOnce /\ RowsCommitted
  BY DEF LogInit, DrawnOnce, RowsCommitted
<1>. QED
  BY <1>1, <1>2, TypeInit DEF LogInv

LEMMA LogInvStep ==
  ASSUME LogInv, LogNext
  PROVE  LogInv'
  BY TypeStep, TxWholeStep, DrawnOnceStep, OneWriterStep, WriterAheadStep, DoomedCoveredStep,
     RowsCommittedStep
  DEF LogInv

LEMMA LogInvStutter ==
  ASSUME LogInv, UNCHANGED logVars
  PROVE  LogInv'
  BY DEF LogInv, logVars, LogTypeOK, TxWhole, DrawnOnce, OneWriter, WriterAhead, CoversSeq,
         DoomedCovered, RowsCommitted

\* What snapshots::put relies on while it runs holds in every reachable state,
\* for any number of publications and appends in flight.
THEOREM LogInvariant == LogSpec => []LogInv
<1>1. LogInv /\ [LogNext]_logVars => LogInv'
  BY LogInvStep, LogInvStutter
<1>. QED
  BY LogInvInit, <1>1, PTL DEF LogSpec

-----------------------------------------------------------------------------
(* What the component promises.                                            *)

\* No step lowers the floor of any account.
LEMMA FloorStep ==
  ASSUME LogInv, LogNext, NEW a \in Accounts
  PROVE  CoversSeq(a) <= Floor'[a]
<1>. LogTypeOK /\ TxWhole /\ WriterAhead /\ CoversSeq(a) \in 0..MaxSeq
  BY FloorTyped DEF LogInv
<1>1. ASSUME UNCHANGED snap PROVE CoversSeq(a) <= Floor'[a]
  BY <1>1, FloorStable
<1>2. ASSUME NEW t \in Tasks, SnapCommit(t) PROVE CoversSeq(a) <= Floor'[a]
  BY <1>2, FloorOfCommit
<1>. QED
  BY <1>1, <1>2
  DEF LogNext, InsertStart, InsertCommit, InsertAbort, SnapBegin, SnapUpsert, SnapRegress,
      SnapPurge, SnapAbort

\* A step keeps every committed row in the table or under the snapshot.
LEMMA KeptStep ==
  ASSUME LogInv, CommittedKept, LogNext
  PROVE  CommittedKept'
<1>. USE DEF LogInv, LogTypeOK, CommittedKept
<1>. SUFFICES ASSUME NEW a \in Accounts, NEW s \in committed'[a], s \notin log'[a]
             PROVE  s \in 1..Floor'[a]
  BY DEF Floor, CoversSeq
<1>0. LogTypeOK' /\ CoversSeq(a) \in 0..MaxSeq /\ CoversSeq(a) <= Floor'[a] /\ Floor'[a] \in Int
  <2>1. LogTypeOK'
    BY TypeStep
  <2>2. snap'[a] = None \/ snap'[a].covers \in 0..MaxSeq
    BY <2>1 DEF SnapshotRow
  <2>3. Floor'[a] \in Int
    BY <2>2, DeltaLogConstants DEF Floor, CoversSeq
  <2>. QED
    BY <2>1, <2>3, FloorTyped, FloorStep
<1>. s \in Seqs
  BY <1>0
<1>1. ASSUME s \in committed[a], s \notin log[a] PROVE s \in 1..Floor'[a]
  BY <1>0, <1>1
<1>2. ASSUME UNCHANGED <<log, committed>> PROVE s \in 1..Floor'[a]
  BY <1>1, <1>2
<1>3. ASSUME NEW r \in inserting, InsertCommit(r) PROVE s \in 1..Floor'[a]
  BY <1>1, <1>3 DEF InsertCommit, Row
<1>4. ASSUME NEW t \in Tasks, SnapCommit(t) PROVE s \in 1..Floor'[a]
  <2>1. committed' = committed /\ log' = [log EXCEPT ![tx[t].acct] = @ \ tx[t].doomed]
    BY <1>4 DEF SnapCommit
  <2>2. CASE s \notin log[a]
    BY <1>1, <2>1, <2>2
  <2>3. CASE s \in log[a]
    <3>1. a = tx[t].acct /\ s \in tx[t].doomed
      BY <2>1, <2>3
    <3>2. s <= tx[t].covers /\ Floor'[a] = tx[t].covers
      BY <1>4, <3>1, FloorOfCommit DEF DoomedCovered
    <3>. QED
      BY <3>2 DEF Seqs, Tx
  <2>. QED
    BY <2>2, <2>3
<1>. QED
  BY <1>2, <1>3, <1>4
  DEF LogNext, InsertStart, InsertAbort, SnapBegin, SnapUpsert, SnapRegress, SnapPurge, SnapAbort

\* No committed delta is ever lost by the server: it is in the table, or at or
\* below what the committed snapshot of its account covers.
THEOREM NothingPurgedUncovered == LogSpec => []CommittedKept
<1>1. LogInit => CommittedKept
  BY DEF LogInit, CommittedKept
<1>2. LogInv /\ CommittedKept /\ [LogNext]_logVars => CommittedKept'
  <2>1. ASSUME CommittedKept, UNCHANGED logVars PROVE CommittedKept'
    BY <2>1 DEF CommittedKept, logVars, CoversSeq
  <2>. QED
    BY <2>1, KeptStep
<1>. QED
  BY <1>1, <1>2, LogInvariant, PTL DEF LogSpec

\* The covered prefix of an account never shrinks.
THEOREM CoversNeverRegresses == LogSpec => CoversMonotone
<1>1. LogInv /\ [LogNext]_logVars => [\A a \in Accounts : Floor[a] <= Floor'[a]]_logVars
  BY FloorStep DEF Floor
<1>. QED
  BY <1>1, LogInvariant, PTL DEF LogSpec, CoversMonotone

-----------------------------------------------------------------------------
(* The statements of append and put implement the journal.                 *)

LEMMA JournalInit == LogInit => J!Init
  BY DEF LogInit, J!Init, Floor, CoversSeq

LEMMA JournalStep ==
  ASSUME LogInv, LogNext
  PROVE  J!Next \/ UNCHANGED J!vars
<1>. USE DEF LogInv, LogTypeOK
<1>1. ASSUME UNCHANGED <<log, snap, committed>> PROVE UNCHANGED J!vars
  BY <1>1 DEF J!vars, Floor, CoversSeq
<1>2. ASSUME NEW r \in inserting, InsertCommit(r) PROVE J!Next
  <2>1. r.acct \in Accounts /\ r.seq \in Seqs
    BY DEF Row
  <2>2. J!Append(r.acct, r.seq)
    BY <1>2 DEF InsertCommit, J!Append, DrawnOnce, Floor, CoversSeq
  <2>. QED
    BY <2>1, <2>2 DEF J!Next
<1>3. ASSUME NEW t \in Tasks, SnapCommit(t) PROVE J!Next
  <2>. DEFINE a == tx[t].acct
              n == tx[t].covers
              dropped == log[a] \cap tx[t].doomed
  <2>1. a \in Accounts /\ n \in Seqs \cup {0} /\ CoversSeq(a) <= n
    BY <1>3, FloorOfCommit DEF Seqs, Tx
  <2>2. Floor' = [Floor EXCEPT ![a] = n]
    BY <1>3, FloorOfCommit DEF Floor
  <2>3. log' = [log EXCEPT ![a] = @ \ dropped]
    BY <1>3 DEF SnapCommit
  <2>4. \A k \in dropped : k <= n
    BY DEF DoomedCovered
  <2>5. J!Compact(a, n, dropped)
    BY <1>3, <2>1, <2>2, <2>3, <2>4 DEF J!Compact, SnapCommit, Floor
  <2>. QED
    BY <2>1, <2>5 DEF J!Next
<1>. QED
  BY <1>1, <1>2, <1>3
  DEF LogNext, InsertStart, InsertAbort, SnapBegin, SnapUpsert, SnapRegress, SnapPurge, SnapAbort

\* deltas::append and snapshots::put, statement by statement and in any
\* interleaving, implement the atomic journal.
THEOREM LogImplementsJournal == LogSpec => ImplementsJournal
<1>1. LogInv /\ [LogNext]_logVars => [J!Next]_J!vars
  <2>1. ASSUME UNCHANGED logVars PROVE UNCHANGED J!vars
    BY <2>1 DEF logVars, J!vars, Floor, CoversSeq
  <2>. QED
    BY <2>1, JournalStep
<1>. QED
  BY <1>1, JournalInit, LogInvariant, PTL DEF LogSpec, ImplementsJournal, J!Spec
=============================================================================
