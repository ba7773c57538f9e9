----------------------------- MODULE SyncProofs -----------------------------
(***************************************************************************)
(* Proofs about Sync, for any number of accounts, devices and rows, any    *)
(* page size, pool size and claim of the devices.                          *)
(***************************************************************************)
EXTENDS Sync, DeltaLogProofs

\* What the steps of Sync do to the tables is a step of DeltaLog.
LEMMA SyncLog ==
  ASSUME SyncTypeOK, SyncNext
  PROVE  LogNext \/ UNCHANGED logVars
<1>. USE SyncConstants DEF LogNext, Devices
<1>1. ASSUME NEW r \in inserting, Inserted(r) \/ NotInserted(r)
      PROVE  LogNext
  BY <1>1 DEF Inserted, NotInserted
<1>2. ASSUME NEW d \in Devices, Push(d)
      PROVE  LogNext
  BY <1>2 DEF Push
<1>3. ASSUME NEW d \in Devices, PutCovered(d)
      PROVE  LogNext \/ UNCHANGED logVars
  <2>1. req[d].covers \in 0..MaxSeq /\ merged[d] \in Blobs /\ AccountOf[d] \in Accounts
    BY DEF SyncTypeOK, Request
  <2>. QED
    BY <1>3, <2>1 DEF PutCovered
<1>4. ASSUME NEW d \in Devices, PutStatement(d) \/ PutEnd(d)
      PROVE  LogNext
  BY <1>4 DEF PutStatement, PutEnd
<1>5. ASSUME NEW d \in Devices, Fail(d)
      PROVE  LogNext \/ UNCHANGED logVars
  BY <1>5 DEF Fail
<1>. QED
  BY <1>1, <1>2, <1>3, <1>4, <1>5
  DEF SyncNext, PushNudge, PullCheck, PullPage, PullLatest, PutLatest, GetSnapshot, SocketStep

-----------------------------------------------------------------------------
(* Type correctness.                                                       *)

LEMMA IdleTyped ==
  Idle \in Request /\ Idle.page = {} /\ Idle.latest = 0 /\ Idle.pc = "idle"
  BY DeltaLogConstants DEF Idle, Request, Steps

LEMMA SyncTypeInit == SyncInit => SyncTypeOK
  BY TypeInit, IdleTyped, DeltaLogConstants, SyncConstants
  DEF SyncInit, SyncTypeOK, N!NudgeInit, N!NudgeTypeOK

LEMMA NudgeTypeStep ==
  ASSUME LogInv, SyncTypeOK, NudgeInv, SyncNext
  PROVE  N!NudgeTypeOK'
<1>. USE DEF SyncTypeOK, N!NudgeTypeOK
<1>1. ASSUME UNCHANGED <<ws, inbox, heard>> PROVE N!NudgeTypeOK'
  BY <1>1
<1>2. ASSUME NEW d \in Devices, PushNudge(d) PROVE N!NudgeTypeOK'
  <2>1. req[d].seq \in Seqs
    BY <1>2, SyncConstants DEF PushNudge, NudgeInv, LogTypeOK
  <2>. QED
    BY <1>2, <2>1 DEF PushNudge, N!Publish
<1>3. ASSUME NEW d \in Sockets, SocketStep(d) PROVE N!NudgeTypeOK'
  BY <1>3 DEF SocketStep, N!Socket, N!WsUpgrade, N!WsSubscribe, N!WsClose, N!Forward
<1>. QED
  BY <1>1, <1>2, <1>3
  DEF SyncNext, Inserted, NotInserted, Push, PullCheck, PullPage, PullLatest, PutLatest,
      PutCovered, PutStatement, PutEnd, GetSnapshot, Fail

LEMMA RequestTypeStep ==
  ASSUME LogInv, SyncTypeOK, SyncNext
  PROVE  req' \in [Devices -> Request]
<1>. USE SyncConstants, DeltaLogConstants, IdleTyped DEF SyncTypeOK
<1>1. ASSUME UNCHANGED req PROVE req' \in [Devices -> Request]
  BY <1>1
<1>2. ASSUME NEW d \in Devices, Answer(d) PROVE req' \in [Devices -> Request]
  BY <1>2 DEF Answer
<1>3. ASSUME NEW d \in Devices, Push(d) PROVE req' \in [Devices -> Request]
  <2>. DEFINE q == [Idle EXCEPT !.pc = "inserting", !.seq = seqGen + 1]
  <2>1. seqGen + 1 \in 0..MaxSeq
    BY <1>3 DEF Push, InsertStart, LogTypeOK
  <2>2. q \in Request
    BY <2>1 DEF Request, Steps, Idle
  <2>. HIDE DEF q
  <2>3. req' = [req EXCEPT ![d] = q]
    BY <1>3 DEF Push, q
  <2>. QED
    BY <2>2, <2>3
<1>4. ASSUME NEW r \in inserting, Inserted(r) \/ NotInserted(r)
      PROVE  req' \in [Devices -> Request]
  BY <1>4 DEF Inserted, NotInserted, Request, Steps
<1>5. ASSUME NEW d \in Devices, PullCheck(d) PROVE req' \in [Devices -> Request]
  <2>. DEFINE q == [Idle EXCEPT !.pc = "page"]
  <2>1. q \in Request
    BY DEF Request, Steps, Idle
  <2>. HIDE DEF q
  <2>2. req' = [req EXCEPT ![d] = q] \/ UNCHANGED req
    BY <1>5 DEF PullCheck, q
  <2>. QED
    BY <2>1, <2>2
<1>6. ASSUME NEW d \in Devices, PullPage(d) PROVE req' \in [Devices -> Request]
  <2>1. PICK page \in SUBSET log[AccountOf[d]] :
          req' = [req EXCEPT ![d] = [Idle EXCEPT !.pc = "latest", !.page = page]]
    BY <1>6 DEF PullPage
  <2>. DEFINE q == [Idle EXCEPT !.pc = "latest", !.page = page]
  <2>2. q \in Request
    BY DEF LogTypeOK, Request, Steps, Idle
  <2>. HIDE DEF q
  <2>3. req' = [req EXCEPT ![d] = q]
    BY <2>1 DEF q
  <2>. QED
    BY <2>2, <2>3
<1>7. ASSUME NEW d \in Devices, PutLatest(d) PROVE req' \in [Devices -> Request]
  <2>1. PICK c \in cursor[d]..(cursor[d] + Overclaim), m \in log[AccountOf[d]] \cup {0} :
          /\ c <= MaxSeq
          /\ req' = [req EXCEPT ![d] = [Idle EXCEPT !.pc = "covered", !.covers = c, !.latest = m]]
    BY <1>7 DEF PutLatest
  <2>2. c \in 0..MaxSeq /\ m \in 0..MaxSeq
    BY <2>1 DEF LogTypeOK, Seqs
  <2>. DEFINE q == [Idle EXCEPT !.pc = "covered", !.covers = c, !.latest = m]
  <2>3. q \in Request
    BY <2>2 DEF Request, Steps, Idle
  <2>. HIDE DEF q
  <2>4. req' = [req EXCEPT ![d] = q]
    BY <2>1 DEF q
  <2>. QED
    BY <2>3, <2>4
<1>8. ASSUME NEW d \in Devices, PutCovered(d) PROVE req' \in [Devices -> Request]
  <2>. DEFINE q == [req[d] EXCEPT !.pc = "putting"]
  <2>1. q \in Request
    BY DEF Request, Steps
  <2>. HIDE DEF q
  <2>2. req' = [req EXCEPT ![d] = q] \/ Answer(d)
    BY <1>8 DEF PutCovered, q
  <2>. QED
    BY <1>2, <2>1, <2>2
<1>. QED
  BY <1>1, <1>2, <1>3, <1>4, <1>5, <1>6, <1>7, <1>8
  DEF SyncNext, PushNudge, PullLatest, PutStatement, PutEnd, GetSnapshot, Fail, SocketStep

LEMMA SyncTypeStep ==
  ASSUME LogInv, SyncTypeOK, NudgeInv, SyncNext
  PROVE  SyncTypeOK'
<1>. USE SyncConstants, DeltaLogConstants DEF SyncTypeOK
<1>1. LogTypeOK'
  BY SyncLog, TypeStep, LogInvStutter DEF LogInv
<1>2. /\ cursor' \in [Devices -> 0..MaxSeq]
      /\ merged' \in [Devices -> SUBSET Seqs]
      /\ gone' \in [Devices -> BOOLEAN]
      /\ anomalies' \subseteq {"late", "torn", "overclaim"}
  <2>1. ASSUME UNCHANGED clientVars
        PROVE  /\ cursor' \in [Devices -> 0..MaxSeq]
               /\ merged' \in [Devices -> SUBSET Seqs]
               /\ gone' \in [Devices -> BOOLEAN]
    BY <2>1 DEF clientVars
  <2>2. ASSUME NEW d \in Devices, Push(d)
        PROVE  merged' \in [Devices -> SUBSET Seqs] /\ UNCHANGED <<cursor, gone, anomalies>>
    BY <2>2 DEF Push, InsertStart, LogTypeOK, Seqs
  <2>3. ASSUME NEW d \in Devices, PullCheck(d)
        PROVE  gone' \in [Devices -> BOOLEAN] /\ UNCHANGED <<cursor, merged, anomalies>>
    BY <2>3 DEF PullCheck
  <2>4. ASSUME NEW d \in Devices, PullLatest(d)
        PROVE  /\ cursor' \in [Devices -> 0..MaxSeq]
               /\ merged' \in [Devices -> SUBSET Seqs]
               /\ UNCHANGED <<gone, anomalies>>
    BY <2>4 DEF PullLatest, Request, Seqs
  <2>5. ASSUME NEW d \in Devices, GetSnapshot(d)
        PROVE  /\ cursor' \in [Devices -> 0..MaxSeq]
               /\ merged' \in [Devices -> SUBSET Seqs]
               /\ gone' \in [Devices -> BOOLEAN]
               /\ UNCHANGED anomalies
    <3>1. snap[AccountOf[d]] \in SnapshotRow
      BY <2>5 DEF GetSnapshot, LogTypeOK
    <3>. QED
      BY <2>5, <3>1 DEF GetSnapshot, SnapshotRow
  <2>. QED
    BY <2>1, <2>2, <2>3, <2>4, <2>5
    DEF SyncNext, Inserted, NotInserted, PushNudge, PullPage, PutLatest, PutCovered,
        PutStatement, PutEnd, Fail, SocketStep
<1>. QED
  BY <1>1, <1>2, NudgeTypeStep, RequestTypeStep

-----------------------------------------------------------------------------
(* Rows only get committed; without a late one, they commit above every    *)
(* number somebody works with.                                             *)

LEMMA CommittedGrows ==
  ASSUME SyncInv, SyncNext
  PROVE  \A a \in Accounts : committed[a] \subseteq committed'[a]
<1>1. ASSUME NEW r \in inserting, InsertCommit(r)
      PROVE  \A a \in Accounts : committed[a] \subseteq committed'[a]
  BY <1>1 DEF InsertCommit, SyncInv, SyncTypeOK, LogTypeOK
<1>. QED
  BY <1>1, SyncLog
  DEF SyncInv, logVars, LogNext, InsertStart, InsertAbort, SnapBegin, SnapUpsert, SnapRegress,
      SnapPurge, SnapCommit, SnapAbort

LEMMA ReachedKept ==
  ASSUME SyncInv, SyncNext, NEW a \in Accounts, NEW c, Reached(a, c)
  PROVE  Reached(a, c)'
  BY CommittedGrows DEF Reached

LEMMA AnomaliesKept ==
  ASSUME SyncNext
  PROVE  anomalies \subseteq anomalies'
  BY DEF SyncNext, Inserted, NotInserted, Push, PushNudge, PullCheck, PullPage, PullLatest,
         PutLatest, PutCovered, PutStatement, PutEnd, GetSnapshot, Fail, SocketStep

\* No row that commits now is at or below c, when c is reached and no row is late.
LEMMA NoLateRow ==
  ASSUME SyncInv, SyncNext, anomalies' = {}, NEW a \in Accounts, NEW c \in 0..MaxSeq,
         Reached(a, c)
  PROVE  committed'[a] \cap 1..c = committed[a] \cap 1..c
<1>1. ASSUME NEW r \in inserting, Inserted(r)
      PROVE  committed'[a] \cap 1..c = committed[a] \cap 1..c
  <2>1. ~Late(r)
    BY <1>1 DEF Inserted
  <2>2. r.acct \in Accounts /\ r.seq \in Seqs /\ committed \in [Accounts -> SUBSET Seqs]
    BY DEF SyncInv, SyncTypeOK, LogTypeOK, Row
  <2>3. committed' = [committed EXCEPT ![r.acct] = @ \cup {r.seq}]
    BY <1>1 DEF Inserted, InsertCommit
  <2>4. r.acct = a => c < r.seq
    BY <2>1, <2>2 DEF Late, Reached, Seqs, SyncInv, LogInv, DrawnOnce
  <2>. QED
    BY <2>2, <2>3, <2>4 DEF Seqs
<1>2. ASSUME UNCHANGED committed
      PROVE  committed'[a] \cap 1..c = committed[a] \cap 1..c
  BY <1>2
<1>. QED
  BY <1>1, <1>2
  DEF SyncNext, NotInserted, Push, PushNudge, PullCheck, PullPage, PullLatest, PutLatest,
      PutCovered, PutStatement, PutEnd, GetSnapshot, Fail, SocketStep, logVars, InsertStart,
      InsertAbort, SnapBegin, SnapUpsert, SnapRegress, SnapPurge, SnapCommit, SnapAbort

-----------------------------------------------------------------------------
(* The inductive invariant, one lemma per part.                            *)

\* A number of the account that is in the table, or 0, is reached.
LEMMA RowReached ==
  ASSUME SyncInv, NEW a \in Accounts, NEW m \in log[a] \cup {0}
  PROVE  Reached(a, m)
  BY DEF Reached, SyncInv, LogInv, RowsCommitted, LogTypeOK, Seqs

LEMMA CoverIsRealStep ==
  ASSUME SyncInv, SyncNext
  PROVE  CoverIsReal'
<1>. USE SyncConstants DEF Devices
<1>. SUFFICES ASSUME NEW a \in Accounts PROVE Reached(a, Floor[a])'
  BY DEF CoverIsReal, Floor
<1>1. ASSUME UNCHANGED snap PROVE Reached(a, Floor[a])'
  <2>1. Reached(a, CoversSeq(a))
    BY DEF SyncInv, ReachInv, CoverIsReal
  <2>2. Reached(a, CoversSeq(a)) => Reached(a, Floor[a])'
    BY <1>1, CommittedGrows, FloorStable DEF Reached
  <2>. QED
    BY <2>1, <2>2
<1>2. ASSUME NEW d \in Devices, SnapCommit(d) PROVE Reached(a, Floor[a])'
  <2>1. LogTypeOK /\ TxWhole /\ WriterAhead
    BY DEF SyncInv, LogInv
  <2>2. Reached(tx[d].acct, tx[d].covers)
    BY <1>2 DEF SyncInv, ReachInv, SnapCommit
  <2>3. CASE a = tx[d].acct
    <3>1. Floor'[a] = tx[d].covers
      BY <1>2, <2>1, <2>3, FloorOfCommit
    <3>. QED
      BY <2>2, <2>3, <3>1, CommittedGrows DEF Reached
  <2>4. CASE a # tx[d].acct
    <3>1. Floor'[a] = CoversSeq(a)
      BY <1>2, <2>1, <2>4, FloorOfCommit
    <3>2. Reached(a, CoversSeq(a))
      BY DEF SyncInv, ReachInv, CoverIsReal
    <3>. QED
      BY <3>1, <3>2, CommittedGrows DEF Reached
  <2>. QED
    BY <2>3, <2>4
<1>3. LogNext \/ UNCHANGED logVars
  BY SyncLog DEF SyncInv
<1>. QED
  BY <1>1, <1>2, <1>3
  DEF LogNext, logVars, InsertStart, InsertCommit, InsertAbort, SnapBegin, SnapUpsert,
      SnapRegress, SnapPurge, SnapAbort

LEMMA CursorReachedStep ==
  ASSUME SyncInv, SyncNext, NEW d \in Devices
  PROVE  Reached(AccountOf[d], cursor[d])'
<1>. USE SyncConstants DEF Devices
<1>. DEFINE a == AccountOf[d]
<1>0. a \in Accounts /\ Reached(a, cursor[d])
  BY DEF SyncInv, ReachInv
<1>1. ASSUME NEW c, cursor'[d] = c, Reached(a, c) PROVE Reached(a, cursor[d])'
  BY <1>0, <1>1, CommittedGrows DEF Reached
<1>2. ASSUME NEW e \in Devices, PullLatest(e) PROVE Reached(a, cursor[d])'
  <2>1. PICK c \in req[e].page \cup {cursor[e]} : cursor' = [cursor EXCEPT ![e] = c]
    BY <1>2 DEF PullLatest
  <2>2. d = e => Reached(a, c)
    BY <1>0, <2>1 DEF Reached, SyncInv, ReachInv, SyncTypeOK, LogTypeOK, Seqs
  <2>. QED
    BY <1>0, <1>1, <2>1, <2>2 DEF SyncInv, SyncTypeOK
<1>3. ASSUME NEW e \in Devices, GetSnapshot(e) PROVE Reached(a, cursor[d])'
  <2>1. cursor' = [cursor EXCEPT ![e] = CoversSeq(AccountOf[e])]
    BY <1>3 DEF GetSnapshot, CoversSeq
  <2>2. Reached(a, CoversSeq(a))
    BY <1>0 DEF SyncInv, ReachInv, CoverIsReal
  <2>. QED
    BY <1>0, <1>1, <2>1, <2>2 DEF SyncInv, SyncTypeOK
<1>4. ASSUME cursor' = cursor PROVE Reached(a, cursor[d])'
  BY <1>0, <1>1, <1>4
<1>. QED
  BY <1>2, <1>3, <1>4
  DEF SyncNext, Inserted, NotInserted, Push, PushNudge, PullCheck, PullPage, PutLatest,
      PutCovered, PutStatement, PutEnd, Fail, SocketStep, clientVars

\* What a step does to the request of device d.
LEMMA RequestStep ==
  ASSUME SyncInv, SyncNext, NEW d \in Devices
  PROVE  \/ req'[d] = req[d]
         \/ req'[d] = Idle
         \/ Push(d)
         \/ /\ \E r \in inserting : Inserted(r) /\ d \in Awaiting(r)
            /\ req'[d] = [req[d] EXCEPT !.pc = "nudging"]
         \/ PullCheck(d) /\ req'[d] = [Idle EXCEPT !.pc = "page"]
         \/ PullPage(d)
         \/ PutLatest(d)
         \/ PutCovered(d) /\ req'[d] = [req[d] EXCEPT !.pc = "putting"]
<1>. req \in [Devices -> Request]
  BY DEF SyncInv, SyncTypeOK
<1>1. ASSUME NEW r \in inserting, Inserted(r)
      PROVE  \/ req'[d] = req[d]
             \/ d \in Awaiting(r) /\ req'[d] = [req[d] EXCEPT !.pc = "nudging"]
  BY <1>1 DEF Inserted
<1>2. ASSUME NEW r \in inserting, NotInserted(r) PROVE req'[d] = req[d] \/ req'[d] = Idle
  BY <1>2 DEF NotInserted
<1>3. ASSUME NEW e \in Devices, Answer(e) \/ UNCHANGED req
      PROVE  req'[d] = req[d] \/ req'[d] = Idle
  BY <1>3 DEF Answer
<1>4. ASSUME NEW e \in Devices, Push(e) \/ PullPage(e) \/ PutLatest(e), e # d
      PROVE  req'[d] = req[d]
  BY <1>4 DEF Push, PullPage, PutLatest
<1>5. ASSUME NEW e \in Devices, PullCheck(e)
      PROVE  \/ req'[d] = req[d]
             \/ e = d /\ req'[d] = [Idle EXCEPT !.pc = "page"]
  BY <1>5 DEF PullCheck
<1>6. ASSUME NEW e \in Devices, PutCovered(e)
      PROVE  \/ req'[d] = req[d]
             \/ req'[d] = Idle
             \/ e = d /\ req'[d] = [req[d] EXCEPT !.pc = "putting"]
  BY <1>6 DEF PutCovered, Answer
<1>. QED
  BY <1>1, <1>2, <1>3, <1>4, <1>5, <1>6
  DEF SyncNext, PushNudge, PullLatest, PutStatement, PutEnd, GetSnapshot, Fail, SocketStep

LEMMA RequestReachedStep ==
  ASSUME SyncInv, SyncNext, NEW d \in Devices
  PROVE  /\ Reached(AccountOf[d], req[d].latest)'
         /\ req'[d].page \subseteq committed'[AccountOf[d]]
<1>. USE SyncConstants DEF Devices
<1>. DEFINE a == AccountOf[d]
<1>0. /\ a \in Accounts
      /\ Reached(a, req[d].latest)
      /\ req[d].page \subseteq committed[a]
      /\ committed[a] \subseteq committed'[a]
      /\ req[d] \in Request
      /\ log[a] \subseteq committed[a]
  BY CommittedGrows DEF SyncInv, ReachInv, SyncTypeOK, LogInv, RowsCommitted
<1>1. ASSUME req'[d].latest = req[d].latest, req'[d].page = req[d].page
      PROVE  Reached(a, req[d].latest)' /\ req'[d].page \subseteq committed'[a]
  BY <1>0, <1>1 DEF Reached
<1>2. ASSUME req'[d].latest = 0, req'[d].page \subseteq log[a]
      PROVE  Reached(a, req[d].latest)' /\ req'[d].page \subseteq committed'[a]
  BY <1>0, <1>2 DEF Reached
<1>3. Push(d) => req'[d].latest = 0 /\ req'[d].page = {}
  BY IdleTyped DEF Push, Idle, SyncInv, SyncTypeOK
<1>4. PullPage(d) => req'[d].latest = 0 /\ req'[d].page \subseteq log[a]
  BY IdleTyped DEF PullPage, Idle, SyncInv, SyncTypeOK
<1>5. ASSUME PutLatest(d) PROVE Reached(a, req[d].latest)' /\ req'[d].page \subseteq committed'[a]
  <2>1. req'[d].latest \in log[a] \cup {0} /\ req'[d].page = {}
    BY <1>5 DEF PutLatest, Idle, SyncInv, SyncTypeOK
  <2>2. Reached(a, req'[d].latest)
    BY <1>0, <2>1, RowReached
  <2>. QED
    BY <1>0, <2>1, <2>2 DEF Reached
<1>6. ASSUME req'[d] = [req[d] EXCEPT !.pc = "nudging"] \/ req'[d] = [req[d] EXCEPT !.pc = "putting"]
      PROVE  req'[d].latest = req[d].latest /\ req'[d].page = req[d].page
  BY <1>0, <1>6 DEF Request
<1>7. ASSUME req'[d] = Idle \/ req'[d] = [Idle EXCEPT !.pc = "page"]
      PROVE  req'[d].latest = 0 /\ req'[d].page = {}
  BY <1>7 DEF Idle
<1>. QED
  BY <1>1, <1>2, <1>3, <1>4, <1>5, <1>6, <1>7, RequestStep

\* What a step does to the transaction of device d.
LEMMA TxStep ==
  ASSUME SyncInv, SyncNext, NEW d \in Devices, tx'[d].stage # "none"
  PROVE  \/ /\ tx[d].stage # "none"
            /\ tx'[d].acct = tx[d].acct
            /\ tx'[d].covers = tx[d].covers
            /\ tx'[d].payload = tx[d].payload
         \/ /\ PutCovered(d)
            /\ req[d].pc = "covered"
            /\ ~TooFar(req[d].covers, req[d].latest, CoversSeq(AccountOf[d]))
            /\ tx'[d].acct = AccountOf[d]
            /\ tx'[d].covers = req[d].covers
            /\ tx'[d].payload = merged[d]
<1>. USE DEF Devices
<1>. tx \in [Tasks -> Tx]
  BY DEF SyncInv, SyncTypeOK, LogTypeOK
<1>. DEFINE Same == /\ tx[d].stage # "none"
                   /\ tx'[d].acct = tx[d].acct
                   /\ tx'[d].covers = tx[d].covers
                   /\ tx'[d].payload = tx[d].payload
<1>1. ASSUME tx' = tx PROVE Same
  BY <1>1
<1>2. ASSUME NEW e \in Devices, SnapUpsert(e) \/ SnapPurge(e) PROVE Same
  <2>1. CASE e # d
    BY <1>2, <2>1 DEF SnapUpsert, SnapPurge
  <2>2. CASE SnapUpsert(d)
    BY <2>2 DEF SnapUpsert, Tx
  <2>3. CASE SnapPurge(d)
    BY <2>3 DEF SnapPurge, Tx
  <2>. QED
    BY <1>2, <2>1, <2>2, <2>3
<1>3. ASSUME NEW e \in Devices, tx' = [tx EXCEPT ![e] = NoTx] PROVE Same
  BY <1>3, NoTxTyped
<1>4. ASSUME NEW e \in Devices, PutCovered(e), e # d PROVE Same
  BY <1>4 DEF PutCovered, SnapBegin, logVars
<1>5. ASSUME PutCovered(d), ~Same
      PROVE  /\ req[d].pc = "covered"
             /\ ~TooFar(req[d].covers, req[d].latest, CoversSeq(AccountOf[d]))
             /\ tx'[d].acct = AccountOf[d]
             /\ tx'[d].covers = req[d].covers
             /\ tx'[d].payload = merged[d]
  BY <1>5 DEF PutCovered, SnapBegin, logVars
<1>. HIDE DEF Same
<1>6. Same \/ PutCovered(d)
  BY <1>1, <1>2, <1>3, <1>4
  DEF SyncNext, Inserted, NotInserted, InsertCommit, InsertAbort, Push, InsertStart, PushNudge,
      PullCheck, PullPage, PullLatest, PutLatest, PutStatement, PutEnd, SnapRegress, SnapCommit,
      SnapAbort, GetSnapshot, Fail, SocketStep, logVars
<1>. QED
  BY <1>5, <1>6 DEF Same

LEMMA ReachInvStep ==
  ASSUME SyncInv, SyncNext
  PROVE  ReachInv'
<1>. USE SyncConstants DEF Devices
<1>1. ASSUME NEW d \in Devices, tx'[d].stage # "none"
      PROVE  tx'[d].acct = AccountOf[d] /\ Reached(AccountOf[d], tx[d].covers)'
  <2>. DEFINE a == AccountOf[d]
  <2>1. a \in Accounts /\ committed[a] \subseteq committed'[a]
    BY CommittedGrows
  <2>2. CASE /\ tx[d].stage # "none"
             /\ tx'[d].acct = tx[d].acct
             /\ tx'[d].covers = tx[d].covers
    BY <2>1, <2>2 DEF SyncInv, ReachInv, Reached
  <2>3. CASE /\ ~TooFar(req[d].covers, req[d].latest, CoversSeq(a))
             /\ tx'[d].acct = a
             /\ tx'[d].covers = req[d].covers
    <3>1. Reached(a, req[d].latest) /\ Reached(a, CoversSeq(a))
      BY <2>1 DEF SyncInv, ReachInv, CoverIsReal
    <3>2. /\ req[d].covers \in 0..MaxSeq
          /\ req[d].latest \in 0..MaxSeq
          /\ CoversSeq(a) \in 0..MaxSeq
          /\ committed[a] \subseteq Seqs
      BY <2>1, FloorTyped DEF SyncInv, SyncTypeOK, LogTypeOK, Request
    <3>3. Reached(a, req[d].covers)
      BY <2>3, <3>1, <3>2 DEF TooFar, Reached, Seqs
    <3>. QED
      BY <2>1, <2>3, <3>3 DEF Reached
  <2>. QED
    BY <1>1, <2>2, <2>3, TxStep
<1>. QED
  BY <1>1, CoverIsRealStep, CursorReachedStep, RequestReachedStep DEF ReachInv

\* What a step does to the cursor and the content of device d.
LEMMA ClientStep ==
  ASSUME SyncInv, SyncNext, NEW d \in Devices
  PROVE  \/ cursor'[d] = cursor[d] /\ merged[d] \subseteq merged'[d]
         \/ PullLatest(d) /\ req[d].pc = "latest"
         \/ GetSnapshot(d) /\ req[d].pc = "idle"
<1>. cursor \in [Devices -> 0..MaxSeq] /\ merged \in [Devices -> SUBSET Seqs]
  BY DEF SyncInv, SyncTypeOK
<1>. DEFINE Grows == cursor'[d] = cursor[d] /\ merged[d] \subseteq merged'[d]
<1>1. ASSUME UNCHANGED <<cursor, merged>> PROVE Grows
  BY <1>1
<1>2. ASSUME NEW e \in Devices, Push(e) PROVE Grows
  BY <1>2 DEF Push
<1>3. ASSUME NEW e \in Devices, PullLatest(e) PROVE Grows \/ e = d
  BY <1>3 DEF PullLatest
<1>4. ASSUME NEW e \in Devices, GetSnapshot(e) PROVE Grows \/ e = d
  BY <1>4 DEF GetSnapshot
<1>5. /\ PullLatest(d) => req[d].pc = "latest"
      /\ GetSnapshot(d) => req[d].pc = "idle"
  BY DEF PullLatest, GetSnapshot
<1>. HIDE DEF Grows
<1>6. Grows \/ PullLatest(d) \/ GetSnapshot(d)
  BY <1>1, <1>2, <1>3, <1>4
  DEF SyncNext, Inserted, NotInserted, PushNudge, PullCheck, PullPage, PutLatest, PutCovered,
      PutStatement, PutEnd, Fail, SocketStep, clientVars
<1>. QED
  BY <1>5, <1>6 DEF Grows

LEMMA HonestClaimStep ==
  ASSUME SyncInv, SyncNext
  PROVE  HonestClaimAccepted'
<1>. USE SyncConstants DEF Devices
<1>. SUFFICES ASSUME NEW d \in Devices, req'[d].pc = "covered", req'[d].covers <= cursor'[d]
             PROVE  ~TooFar(req'[d].covers, req'[d].latest, Floor'[AccountOf[d]])
  BY DEF HonestClaimAccepted, TooFar, Floor
<1>. DEFINE a == AccountOf[d]
<1>0. /\ a \in Accounts
      /\ req \in [Devices -> Request]
      /\ CoversSeq(a) \in 0..MaxSeq
      /\ CoversSeq(a) <= Floor'[a]
      /\ Floor'[a] \in Int
  <2>1. SyncTypeOK'
    BY SyncTypeStep DEF SyncInv
  <2>2. snap'[a] = None \/ snap'[a].covers \in 0..MaxSeq
    BY <2>1 DEF SyncTypeOK, LogTypeOK, SnapshotRow
  <2>3. Floor'[a] \in Int
    BY <2>2, DeltaLogConstants DEF Floor, CoversSeq
  <2>4. CoversSeq(a) <= Floor'[a]
    <3>1. CASE LogNext
      BY <3>1, FloorStep DEF SyncInv
    <3>2. CASE UNCHANGED logVars
      BY <3>2, FloorStable, FloorTyped DEF logVars, SyncInv, SyncTypeOK
    <3>. QED
      BY <3>1, <3>2, SyncLog DEF SyncInv
  <2>. QED
    BY <2>3, <2>4, FloorTyped DEF SyncInv, SyncTypeOK
<1>1. CASE req'[d] = req[d]
  <2>1. cursor'[d] = cursor[d]
    BY <1>1, ClientStep
  <2>. QED
    BY <1>0, <1>1, <2>1 DEF SyncInv, HonestClaimAccepted, TooFar, Request
<1>2. CASE PutLatest(d)
  <2>1. PICK c \in cursor[d]..(cursor[d] + Overclaim), m \in log[a] \cup {0} :
          /\ c <= MaxSeq
          /\ IsLatest(m, a)
          /\ req' = [req EXCEPT ![d] = [Idle EXCEPT !.pc = "covered", !.covers = c, !.latest = m]]
    BY <1>2 DEF PutLatest
  <2>2. req'[d].covers = c /\ req'[d].latest = m /\ cursor'[d] = cursor[d]
    BY <1>0, <1>2, <2>1 DEF Idle, PutLatest, clientVars
  <2>3. Reached(a, cursor[d]) /\ committed[a] \subseteq log[a] \cup 1..CoversSeq(a)
    BY <1>0 DEF SyncInv, ReachInv, CommittedKept
  <2>4. c <= m \/ c <= CoversSeq(a)
    BY <1>0, <2>1, <2>2, <2>3 DEF Reached, IsLatest, SyncInv, SyncTypeOK, LogTypeOK, Seqs
  <2>. QED
    BY <1>0, <2>1, <2>2, <2>4 DEF TooFar, SyncInv, SyncTypeOK, LogTypeOK, Seqs
<1>3. /\ Idle.pc # "covered"
      /\ [Idle EXCEPT !.pc = "page"].pc # "covered"
      /\ [req[d] EXCEPT !.pc = "nudging"].pc # "covered"
      /\ [req[d] EXCEPT !.pc = "putting"].pc # "covered"
  BY <1>0 DEF Idle, Request
<1>4. ~Push(d) /\ ~PullPage(d)
  BY <1>0 DEF Push, PullPage, Idle
<1>. QED
  BY <1>1, <1>2, <1>3, <1>4, RequestStep

\* A content that is complete up to a reached number stays so while no row is late.
LEMMA WholeKept ==
  ASSUME SyncInv, SyncNext, anomalies' = {}, NEW a \in Accounts, NEW c \in 0..MaxSeq,
         Reached(a, c), NEW content, Whole(a, c, content)
  PROVE  committed'[a] \cap 1..c \subseteq content
  BY NoLateRow DEF Whole

LEMMA SnapshotWholeStep ==
  ASSUME SyncInv, SyncNext, anomalies' = {}, NEW a \in Accounts
  PROVE  SnapshotWhole(a)'
<1>. USE SyncConstants DEF Devices
<1>0. /\ anomalies = {} /\ QuietInv
      /\ LogTypeOK /\ TxWhole /\ WriterAhead
      /\ CoversSeq(a) \in 0..MaxSeq
      /\ Reached(a, CoversSeq(a))
  BY AnomaliesKept, FloorTyped DEF SyncInv, LogInv, ReachInv, CoverIsReal
<1>. SUFFICES ASSUME snap'[a] # None
             PROVE  committed'[a] \cap 1..Floor'[a] \subseteq snap'[a].payload
  BY DEF SnapshotWhole, Whole, Floor
<1>1. ASSUME snap'[a] = snap[a]
      PROVE  committed'[a] \cap 1..Floor'[a] \subseteq snap'[a].payload
  <2>1. Floor'[a] = CoversSeq(a)
    BY <1>1 DEF Floor, CoversSeq
  <2>2. Whole(a, CoversSeq(a), snap[a].payload)
    BY <1>0, <1>1 DEF QuietInv, SnapshotWhole
  <2>. QED
    BY <1>0, <1>1, <2>1, <2>2, WholeKept
<1>2. ASSUME NEW d \in Devices, SnapCommit(d), a = tx[d].acct
      PROVE  committed'[a] \cap 1..Floor'[a] \subseteq snap'[a].payload
  <2>1. Floor'[a] = tx[d].covers /\ committed' = committed /\ snap'[a].payload = tx[d].payload
    BY <1>0, <1>2, FloorOfCommit DEF SnapCommit, LogTypeOK
  <2>2. a = AccountOf[d] /\ Whole(a, tx[d].covers, tx[d].payload)
    BY <1>0, <1>2 DEF SnapCommit, QuietInv, SyncInv, ReachInv
  <2>. QED
    BY <2>1, <2>2 DEF Whole
<1>3. ASSUME NEW d \in Devices, SnapCommit(d), a # tx[d].acct PROVE snap'[a] = snap[a]
  BY <1>0, <1>3 DEF SnapCommit, LogTypeOK
<1>4. LogNext \/ UNCHANGED logVars
  BY SyncLog DEF SyncInv
<1>. QED
  BY <1>1, <1>2, <1>3, <1>4
  DEF LogNext, logVars, InsertStart, InsertCommit, InsertAbort, SnapBegin, SnapUpsert,
      SnapRegress, SnapPurge, SnapAbort

LEMMA GapFreeStep ==
  ASSUME SyncInv, SyncNext, anomalies' = {}, NEW d \in Devices
  PROVE  GapFree(d)'
<1>. USE SyncConstants DEF Devices
<1>. DEFINE a == AccountOf[d]
<1>0. /\ anomalies = {} /\ QuietInv
      /\ a \in Accounts
      /\ cursor \in [Devices -> 0..MaxSeq]
      /\ merged \in [Devices -> SUBSET Seqs]
      /\ committed[a] \subseteq Seqs
      /\ Reached(a, cursor[d])
  BY AnomaliesKept DEF SyncInv, ReachInv, SyncTypeOK, LogTypeOK
<1>. Whole(a, cursor[d], merged[d])
  BY <1>0 DEF QuietInv, GapFree
<1>. SUFFICES committed'[a] \cap 1..cursor'[d] \subseteq merged'[d]
  BY DEF GapFree, Whole
<1>1. CASE cursor'[d] = cursor[d] /\ merged[d] \subseteq merged'[d]
  BY <1>0, <1>1, WholeKept
<1>2. CASE PullLatest(d) /\ req[d].pc = "latest"
  <2>1. PICK c \in req[d].page \cup {cursor[d]} : cursor' = [cursor EXCEPT ![d] = c]
    BY <1>2 DEF PullLatest
  <2>2. merged'[d] = merged[d] \cup req[d].page /\ committed' = committed
    BY <1>0, <1>2 DEF PullLatest, logVars
  <2>3. PageWhole(d)
    BY <1>0, <1>2 DEF QuietInv
  <2>. QED
    BY <1>0, <2>1, <2>2, <2>3 DEF PageWhole, Whole, Seqs
<1>3. CASE GetSnapshot(d)
  <2>1. /\ cursor'[d] = CoversSeq(a)
        /\ snap[a].payload \subseteq merged'[d]
        /\ snap[a] # None
        /\ committed' = committed
    BY <1>0, <1>3 DEF GetSnapshot, CoversSeq, logVars
  <2>2. Whole(a, CoversSeq(a), snap[a].payload)
    BY <1>0, <2>1 DEF QuietInv, SnapshotWhole
  <2>. QED
    BY <2>1, <2>2 DEF Whole
<1>. QED
  BY <1>1, <1>2, <1>3, ClientStep

\* Where a handler is after a step tells which step it was.
LEMMA StepOfPc ==
  ASSUME SyncInv, SyncNext, NEW d \in Devices, req'[d] # req[d]
  PROVE  /\ req'[d].pc = "latest" => PullPage(d)
         /\ req'[d].pc = "covered" => PutLatest(d)
         /\ req'[d].pc = "inserting" => Push(d)
         /\ req'[d].pc = "nudging" =>
              /\ \E r \in inserting : Inserted(r) /\ d \in Awaiting(r)
              /\ req'[d].seq = req[d].seq
<1>. req \in [Devices -> Request]
  BY DEF SyncInv, SyncTypeOK
<1>1. /\ Idle.pc = "idle"
      /\ [Idle EXCEPT !.pc = "page"].pc = "page"
      /\ [req[d] EXCEPT !.pc = "nudging"].pc = "nudging"
      /\ [req[d] EXCEPT !.pc = "nudging"].seq = req[d].seq
      /\ [req[d] EXCEPT !.pc = "putting"].pc = "putting"
  BY DEF Idle, Request
<1>2. /\ Push(d) => req'[d].pc = "inserting"
      /\ PullPage(d) => req'[d].pc = "latest"
      /\ PutLatest(d) => req'[d].pc = "covered"
  BY DEF Push, PullPage, PutLatest, Idle
<1>. QED
  BY <1>1, <1>2, RequestStep

LEMMA PageWholeStep ==
  ASSUME SyncInv, SyncNext, anomalies' = {}, NEW d \in Devices, req'[d].pc = "latest"
  PROVE  PageWhole(d)'
<1>. USE SyncConstants DEF Devices
<1>. DEFINE a == AccountOf[d]
<1>0. /\ anomalies = {} /\ QuietInv
      /\ a \in Accounts
      /\ req \in [Devices -> Request]
      /\ cursor \in [Devices -> 0..MaxSeq]
      /\ log[a] \subseteq committed[a] /\ committed[a] \subseteq Seqs
      /\ CoversSeq(a) \in 0..MaxSeq
  BY AnomaliesKept, FloorTyped
  DEF SyncInv, SyncTypeOK, LogInv, RowsCommitted, LogTypeOK
<1>. SUFFICES ASSUME NEW p \in req'[d].page, NEW s \in committed'[a], cursor'[d] < s, s <= p
             PROVE  s \in req'[d].page
  BY DEF PageWhole
<1>1. CASE req'[d] = req[d]
  <2>1. cursor'[d] = cursor[d] /\ PageWhole(d)
    <3>1. ~PullLatest(d)
      BY <1>0, <1>1 DEF PullLatest, Answer, Idle
    <3>. QED
      BY <1>0, <1>1, <3>1, ClientStep DEF QuietInv
  <2>2. p \in committed[a] /\ p \in Seqs /\ Reached(a, p)
    BY <1>0, <1>1 DEF SyncInv, ReachInv, Reached, Seqs
  <2>3. committed'[a] \cap 1..p = committed[a] \cap 1..p
    BY <1>0, <2>2, NoLateRow DEF Seqs
  <2>4. s \in 1..p
    <3>1. s \in Seqs
      BY <1>0, SyncTypeStep DEF SyncInv, SyncTypeOK, LogTypeOK
    <3>. QED
      BY <2>2, <3>1 DEF Seqs
  <2>. QED
    BY <1>1, <2>1, <2>3, <2>4 DEF PageWhole
<1>2. CASE PullPage(d)
  <2>1. PICK page \in SUBSET log[a] :
          /\ IsPage(page, a, cursor[d], NormalizeLimit(Limit))
          /\ req' = [req EXCEPT ![d] = [Idle EXCEPT !.pc = "latest", !.page = page]]
    BY <1>2 DEF PullPage
  <2>2. /\ req'[d].page = page
        /\ cursor' = cursor
        /\ committed' = committed
        /\ ~TooOld(CoversSeq(a), cursor[d])
    BY <1>0, <1>2, <2>1 DEF PullPage, Idle, logVars, clientVars
  <2>3. s \in After(a, cursor[d])
    BY <1>0, <2>2 DEF TooOld, After, SyncInv, CommittedKept, Seqs
  <2>. QED
    BY <1>0, <2>1, <2>2, <2>3 DEF IsPage, Seqs
<1>. QED
  BY <1>1, <1>2, StepOfPc

LEMMA QuietInvStep ==
  ASSUME SyncInv, SyncNext
  PROVE  QuietInv'
<1>. USE SyncConstants DEF Devices
<1>. SUFFICES ASSUME anomalies' = {}
             PROVE  /\ \A a \in Accounts : SnapshotWhole(a)'
                    /\ \A d \in Devices :
                         /\ GapFree(d)'
                         /\ req'[d].pc = "latest" => PageWhole(d)'
                         /\ req'[d].pc = "covered" => req'[d].covers <= cursor'[d]
                         /\ tx'[d].stage # "none" => Whole(AccountOf[d], tx[d].covers, tx[d].payload)'
  BY DEF QuietInv
<1>0. anomalies = {} /\ QuietInv
  BY AnomaliesKept DEF SyncInv
<1>1. ASSUME NEW d \in Devices, req'[d].pc = "covered"
      PROVE  req'[d].covers <= cursor'[d]
  <2>1. CASE req'[d] = req[d]
    BY <1>0, <1>1, <2>1, ClientStep DEF QuietInv
  <2>2. CASE PutLatest(d)
    <3>1. PICK c \in cursor[d]..(cursor[d] + Overclaim), m \in log[AccountOf[d]] \cup {0} :
            /\ req' = [req EXCEPT ![d] = [Idle EXCEPT !.pc = "covered", !.covers = c, !.latest = m]]
            /\ anomalies' = anomalies \cup (IF c > cursor[d] THEN {"overclaim"} ELSE {})
      BY <2>2 DEF PutLatest
    <3>2. req'[d].covers = c /\ cursor' = cursor /\ ~(c > cursor[d])
      BY <2>2, <3>1 DEF PutLatest, clientVars, Idle, SyncInv, SyncTypeOK
    <3>. QED
      BY <3>1, <3>2 DEF SyncInv, SyncTypeOK
  <2>. QED
    BY <1>1, <2>1, <2>2, StepOfPc
<1>2. ASSUME NEW d \in Devices, tx'[d].stage # "none"
      PROVE  Whole(AccountOf[d], tx[d].covers, tx[d].payload)'
  <2>. DEFINE a == AccountOf[d]
  <2>. SUFFICES committed'[a] \cap 1..tx'[d].covers \subseteq tx'[d].payload
    BY DEF Whole
  <2>1. CASE /\ tx[d].stage # "none"
             /\ tx'[d].covers = tx[d].covers
             /\ tx'[d].payload = tx[d].payload
    <3>1. Whole(a, tx[d].covers, tx[d].payload) /\ Reached(a, tx[d].covers)
      BY <1>0, <2>1 DEF QuietInv, SyncInv, ReachInv
    <3>2. tx[d].covers \in 0..MaxSeq
      BY DEF SyncInv, SyncTypeOK, LogTypeOK, Tx
    <3>. QED
      BY <2>1, <3>1, <3>2, WholeKept
  <2>2. CASE /\ PutCovered(d)
             /\ req[d].pc = "covered"
             /\ tx'[d].covers = req[d].covers
             /\ tx'[d].payload = merged[d]
    <3>1. /\ req[d].covers <= cursor[d]
          /\ Whole(a, cursor[d], merged[d])
          /\ committed' = committed
          /\ req[d].covers \in 0..MaxSeq
          /\ cursor[d] \in 0..MaxSeq
      BY <1>0, <2>2
      DEF QuietInv, GapFree, PutCovered, SnapBegin, logVars, SyncInv, SyncTypeOK, Request
    <3>. QED
      BY <2>2, <3>1 DEF Whole
  <2>. QED
    BY <1>2, <2>1, <2>2, TxStep
<1>. QED
  BY <1>1, <1>2, SnapshotWholeStep, GapFreeStep, PageWholeStep

LEMMA NudgeInvStep ==
  ASSUME SyncInv, SyncNext
  PROVE  NudgeInv'
<1>. USE SyncConstants DEF Devices
<1>0. /\ req \in [Devices -> Request]
      /\ seqGen \in 0..MaxSeq /\ inserting \subseteq Row
      /\ committed \in [Accounts -> SUBSET Seqs]
      /\ seqGen <= seqGen'
      /\ LogNext \/ UNCHANGED logVars
  <2>1. LogNext \/ UNCHANGED logVars
    BY SyncLog DEF SyncInv
  <2>2. seqGen \in 0..MaxSeq
    BY DEF SyncInv, LogInv, LogTypeOK
  <2>3. seqGen' = seqGen \/ seqGen' = seqGen + 1
    BY <2>1 DEF LogNext, logVars, InsertStart, InsertCommit, InsertAbort, SnapBegin, SnapUpsert,
        SnapRegress, SnapPurge, SnapCommit, SnapAbort
  <2>. QED
    BY <2>1, <2>2, <2>3 DEF SyncInv, SyncTypeOK, LogInv, LogTypeOK
<1>1. ASSUME NEW d \in Devices, req'[d].pc = "inserting"
      PROVE  /\ req'[d].seq <= seqGen'
             /\ \A r \in inserting' : r.seq = req'[d].seq => r.acct = AccountOf[d]
  <2>1. CASE req'[d] = req[d]
    <3>1. req[d].seq <= seqGen /\ req[d].seq \in 0..MaxSeq /\ req[d].seq # seqGen + 1
      BY <1>0, <1>1, <2>1 DEF SyncInv, NudgeInv, Request
    <3>2. \A r \in inserting' : r \in inserting \/ r.seq = seqGen + 1
      <4>1. ASSUME NEW a \in Accounts, InsertStart(a)
            PROVE  inserting' = inserting \cup {[acct |-> a, seq |-> seqGen + 1]}
        BY <4>1 DEF InsertStart
      <4>2. ASSUME NEW r \in inserting, InsertCommit(r) \/ InsertAbort(r)
            PROVE  inserting' \subseteq inserting
        BY <4>2 DEF InsertCommit, InsertAbort
      <4>3. CASE UNCHANGED inserting
        BY <4>3
      <4>4. \/ \E a \in Accounts : InsertStart(a)
            \/ \E r \in inserting : InsertCommit(r) \/ InsertAbort(r)
            \/ UNCHANGED inserting
        BY <1>0 DEF LogNext, logVars, SnapBegin, SnapUpsert, SnapRegress,
          SnapPurge, SnapCommit, SnapAbort
      <4>. QED
        BY <4>1, <4>2, <4>3, <4>4
    <3>3. seqGen' \in Int
      BY SyncTypeStep DEF SyncInv, SyncTypeOK, LogTypeOK
    <3>. QED
      BY <1>0, <1>1, <2>1, <3>1, <3>2, <3>3 DEF SyncInv, NudgeInv
  <2>2. CASE Push(d)
    <3>1. req'[d].seq = seqGen + 1 /\ seqGen' = seqGen + 1
      BY <1>0, <2>2 DEF Push, InsertStart, Idle
    <3>2. inserting' = inserting \cup {[acct |-> AccountOf[d], seq |-> seqGen + 1]}
      BY <2>2 DEF Push, InsertStart
    <3>3. \A r \in inserting : r.seq # seqGen + 1
      BY <1>0 DEF SyncInv, LogInv, DrawnOnce, Row, Seqs
    <3>. QED
      BY <1>0, <3>1, <3>2, <3>3
  <2>. QED
    BY <1>1, <2>1, <2>2, StepOfPc
<1>2. ASSUME NEW d \in Devices, req'[d].pc = "nudging"
      PROVE  req'[d].seq \in committed'[AccountOf[d]]
  <2>1. CASE req'[d] = req[d]
    BY <1>2, <2>1, CommittedGrows DEF SyncInv, NudgeInv
  <2>2. ASSUME NEW r \in inserting, Inserted(r), d \in Awaiting(r), req'[d].seq = req[d].seq
        PROVE  req'[d].seq \in committed'[AccountOf[d]]
    BY <1>0, <2>2 DEF Inserted, InsertCommit, Awaiting, SyncInv, NudgeInv, Row
  <2>. QED
    BY <1>2, <2>1, <2>2, StepOfPc
<1>3. ASSUME NEW d \in Sockets
      PROVE  inbox'[d] \cup heard'[d] \subseteq committed'[AccountOf[d]]
  <2>0. /\ inbox[d] \cup heard[d] \subseteq committed[AccountOf[d]]
        /\ committed[AccountOf[d]] \subseteq committed'[AccountOf[d]]
        /\ inbox \in [Sockets -> SUBSET Seqs]
        /\ heard \in [Sockets -> SUBSET Seqs]
    BY CommittedGrows DEF SyncInv, NudgeInv, SyncTypeOK, N!NudgeTypeOK
  <2>1. ASSUME UNCHANGED <<ws, inbox, heard>>
        PROVE  inbox'[d] \cup heard'[d] \subseteq committed'[AccountOf[d]]
    BY <2>0, <2>1
  <2>2. ASSUME NEW e \in Devices, PushNudge(e)
        PROVE  inbox'[d] \cup heard'[d] \subseteq committed'[AccountOf[d]]
    <3>1. req[e].seq \in committed[AccountOf[e]]
      BY <2>2 DEF PushNudge, SyncInv, NudgeInv
    <3>2. PICK reached \in SUBSET N!Subscribers(AccountOf[e]) :
            inbox' = [u \in Sockets |-> IF u \in reached THEN inbox[u] \cup {req[e].seq}
                                                        ELSE inbox[u]]
      BY <2>2 DEF PushNudge, N!Publish
    <3>3. d \in reached => AccountOf[d] = AccountOf[e]
      BY <3>2 DEF N!Subscribers
    <3>. QED
      BY <2>0, <2>2, <3>1, <3>2, <3>3 DEF PushNudge, N!Publish
  <2>3. ASSUME NEW e \in Sockets, SocketStep(e)
        PROVE  inbox'[d] \cup heard'[d] \subseteq committed'[AccountOf[d]]
    <3>1. inbox'[d] \cup heard'[d] \subseteq inbox[d] \cup heard[d]
      BY <2>0, <2>3 DEF SocketStep, N!Socket, N!WsUpgrade, N!WsSubscribe, N!WsClose, N!Forward
    <3>. QED
      BY <2>0, <3>1
  <2>. QED
    BY <2>1, <2>2, <2>3
    DEF SyncNext, Inserted, NotInserted, Push, PullCheck, PullPage, PullLatest, PutLatest,
        PutCovered, PutStatement, PutEnd, GetSnapshot, Fail
<1>. QED
  BY <1>1, <1>2, <1>3 DEF NudgeInv

-----------------------------------------------------------------------------
(* The theorems.                                                           *)

LEMMA SyncInvInit == SyncInit => SyncInv
<1>1. SyncInit => LogInv /\ CommittedKept
  BY LogInvInit DEF SyncInit, LogInit, CommittedKept
<1>2. SyncInit => ReachInv /\ NudgeInv
  BY IdleTyped, NoTxTyped, SyncConstants
  DEF SyncInit, LogInit, N!NudgeInit, ReachInv, NudgeInv, CoverIsReal, Reached, CoversSeq, Devices
<1>3. SyncInit => HonestClaimAccepted
  BY IdleTyped DEF SyncInit, HonestClaimAccepted
<1>4. SyncInit => QuietInv
  BY IdleTyped, NoTxTyped, SyncConstants
  DEF SyncInit, LogInit, QuietInv, SnapshotWhole, GapFree, Whole, Devices
<1>. QED
  BY <1>1, <1>2, <1>3, <1>4, SyncTypeInit DEF SyncInv

LEMMA SyncInvStep ==
  ASSUME SyncInv, SyncNext
  PROVE  SyncInv'
<1>1. LogInv' /\ CommittedKept'
  <2>1. CASE LogNext
    BY <2>1, LogInvStep, KeptStep DEF SyncInv
  <2>2. CASE UNCHANGED logVars
    BY <2>2, LogInvStutter DEF SyncInv, CommittedKept, CoversSeq, logVars
  <2>. QED
    BY <2>1, <2>2, SyncLog DEF SyncInv
<1>2. SyncTypeOK'
  BY SyncTypeStep DEF SyncInv
<1>. QED
  BY <1>1, <1>2, ReachInvStep, HonestClaimStep, QuietInvStep, NudgeInvStep DEF SyncInv

LEMMA SyncInvStutter ==
  ASSUME SyncInv, UNCHANGED syncVars
  PROVE  SyncInv'
<1>. USE DEF syncVars, clientVars
<1>1. LogInv' /\ CommittedKept'
  BY LogInvStutter DEF SyncInv, CommittedKept, CoversSeq, logVars
<1>2. SyncTypeOK'
  BY DEF SyncInv, SyncTypeOK, LogTypeOK, N!NudgeTypeOK, logVars
<1>3. ReachInv' /\ HonestClaimAccepted' /\ NudgeInv'
  BY DEF SyncInv, ReachInv, CoverIsReal, Reached, CoversSeq, HonestClaimAccepted, TooFar,
         NudgeInv, logVars
<1>4. QuietInv'
  BY DEF SyncInv, QuietInv, SnapshotWhole, GapFree, Whole, PageWhole, CoversSeq, logVars
<1>. QED
  BY <1>1, <1>2, <1>3, <1>4 DEF SyncInv

\* What the handlers of /sync rely on between their awaits holds in every
\* reachable state, for any number of devices, accounts and rows.
THEOREM SyncInvariant == SyncSpec => []SyncInv
<1>1. SyncInv /\ [SyncNext]_syncVars => SyncInv'
  BY SyncInvStep, SyncInvStutter
<1>. QED
  BY SyncInvInit, <1>1, PTL DEF SyncSpec

\* The races of `anomalies` are the only ways for a device to miss a delta at or
\* below its cursor.
THEOREM NoGapUnlessRace == SyncSpec => []NoGap
<1>1. SyncInv => NoGap
  BY DEF SyncInv, QuietInv, NoGap
<1>. QED
  BY <1>1, SyncInvariant, PTL

\* Without those races, the snapshot and the table together still hold every
\* delta ever committed: no publication destroys the only copy of one.
THEOREM NothingLostUnlessRace == SyncSpec => []NothingLost
<1>1. SyncInv => NothingLost
  <2>. SUFFICES ASSUME SyncInv, anomalies = {}, NEW a \in Accounts
               PROVE  committed[a] \subseteq
                        log[a] \cup (IF snap[a] = None THEN {} ELSE snap[a].payload)
    BY DEF NothingLost
  <2>1. /\ committed[a] \subseteq log[a] \cup 1..CoversSeq(a)
        /\ snap[a] # None => Whole(a, CoversSeq(a), snap[a].payload)
    BY DEF SyncInv, CommittedKept, QuietInv, SnapshotWhole
  <2>2. CASE snap[a] = None
    BY <2>1, <2>2 DEF CoversSeq
  <2>3. CASE snap[a] # None
    BY <2>1, <2>3 DEF Whole
  <2>. QED
    BY <2>2, <2>3
<1>. QED
  BY <1>1, SyncInvariant, PTL

\* Whatever devices claim, no snapshot covers further than the committed rows.
THEOREM CoverAlwaysReal == SyncSpec => []CoverIsReal
<1>1. SyncInv => CoverIsReal
  BY DEF SyncInv, ReachInv
<1>. QED
  BY <1>1, SyncInvariant, PTL

\* A device that claims what it pulled is never answered 400.
THEOREM HonestClaimNeverRefused == SyncSpec => []HonestClaimAccepted
<1>1. SyncInv => HonestClaimAccepted
  BY DEF SyncInv
<1>. QED
  BY <1>1, SyncInvariant, PTL

\* A nudge is about a delta of the device's account that a pull can find.
THEOREM NudgeNeverEarly == SyncSpec => []NudgeVisible
<1>1. SyncInv => NudgeVisible
  BY SyncConstants DEF SyncInv, NudgeInv, CommittedKept, NudgeVisible, Devices
<1>. QED
  BY <1>1, SyncInvariant, PTL

\* A device that stops at `latest` has every committed delta, or its next pull is
\* answered 410.
THEOREM LatestIsTrusted == SyncSpec => []LatestTrusted
<1>. USE SyncConstants DEF Devices
<1>1. SyncInv => LatestTrusted
  <2>. SUFFICES ASSUME SyncInv, anomalies = {}, NEW d \in Devices, NEW m \in 0..MaxSeq,
                      NEW c \in 0..MaxSeq, req[d].pc = "latest",
                      c \in req[d].page \cup {cursor[d]}, IsLatest(m, AccountOf[d]), m <= c,
                      ~TooOld(CoversSeq(AccountOf[d]), c),
                      NEW s \in committed[AccountOf[d]], s \notin req[d].page
               PROVE  s \in merged[d]
    BY DEF LatestTrusted
  <2>. DEFINE a == AccountOf[d]
  <2>1. /\ a \in Accounts
        /\ GapFree(d) /\ PageWhole(d)
        /\ s \in log[a] \cup 1..CoversSeq(a)
        /\ s \in Seqs
        /\ cursor[d] \in 0..MaxSeq
        /\ CoversSeq(a) \in 0..MaxSeq
    BY FloorTyped DEF SyncInv, QuietInv, CommittedKept, SyncTypeOK, LogTypeOK, LogInv
  <2>2. s <= c
    BY <2>1 DEF IsLatest, TooOld, Seqs
  <2>3. CASE s <= cursor[d]
    BY <2>1, <2>3 DEF GapFree, Whole, Seqs
  <2>4. CASE cursor[d] < s
    BY <2>1, <2>2, <2>4 DEF PageWhole, Seqs
  <2>. QED
    BY <2>1, <2>3, <2>4 DEF Seqs
<1>. QED
  BY <1>1, SyncInvariant, PTL

-----------------------------------------------------------------------------
(* A cursor only grows.                                                    *)

LEMMA FloorGrows ==
  ASSUME SyncInv, SyncNext, NEW a \in Accounts
  PROVE  CoversSeq(a) <= Floor'[a] /\ CoversSeq(a) \in 0..MaxSeq /\ Floor'[a] \in 0..MaxSeq
<1>1. LogTypeOK /\ LogTypeOK'
  BY SyncTypeStep DEF SyncInv, SyncTypeOK
<1>2. CoversSeq(a) \in 0..MaxSeq /\ Floor'[a] \in 0..MaxSeq
  BY <1>1, FloorTyped, DeltaLogConstants DEF Floor, CoversSeq, LogTypeOK, SnapshotRow
<1>3. CASE LogNext
  BY <1>2, <1>3, FloorStep DEF SyncInv
<1>4. CASE UNCHANGED logVars
  BY <1>2, <1>4, FloorStable DEF logVars
<1>. QED
  BY <1>2, <1>3, <1>4, SyncLog DEF SyncInv

LEMMA CursorStep ==
  ASSUME SyncInv, CursorInv, SyncNext, NEW d \in Devices
  PROVE  cursor[d] <= cursor'[d]
<1>. USE SyncConstants DEF Devices
<1>0. cursor \in [Devices -> 0..MaxSeq]
  BY DEF SyncInv, SyncTypeOK
<1>1. CASE PullLatest(d)
  <2>1. PICK c \in req[d].page \cup {cursor[d]} : cursor' = [cursor EXCEPT ![d] = c]
    BY <1>1 DEF PullLatest
  <2>2. \A p \in req[d].page : cursor[d] < p
    BY <1>1 DEF PullLatest, CursorInv
  <2>3. cursor'[d] = c /\ req[d].page \subseteq Seqs
    BY <1>0, <2>1 DEF SyncInv, SyncTypeOK, Request
  <2>. QED
    BY <1>0, <2>1, <2>2, <2>3 DEF Seqs
<1>2. CASE GetSnapshot(d)
  <2>1. cursor'[d] = CoversSeq(AccountOf[d]) /\ gone[d]
    BY <1>0, <1>2 DEF GetSnapshot, CoversSeq
  <2>. QED
    BY <1>0, <2>1, FloorGrows DEF CursorInv, TooOld
<1>. QED
  BY <1>0, <1>1, <1>2, ClientStep

\* How a device comes to be told 410, and how it leaves that state.
LEMMA GoneStep ==
  ASSUME SyncInv, SyncNext, NEW d \in Devices, gone'[d]
  PROVE  /\ cursor'[d] = cursor[d] \/ PullLatest(d)
         /\ \/ gone[d]
            \/ /\ PullCheck(d) /\ req'[d] = req[d] /\ req[d].pc = "idle"
               /\ TooOld(CoversSeq(AccountOf[d]), cursor[d])
<1>. gone \in [Devices -> BOOLEAN] /\ cursor \in [Devices -> 0..MaxSeq]
  BY DEF SyncInv, SyncTypeOK
<1>1. ~GetSnapshot(d)
  BY DEF GetSnapshot
<1>2. ASSUME NEW e \in Devices, PullCheck(e)
      PROVE  gone[d] \/ (e = d /\ req'[d] = req[d] /\ req[d].pc = "idle"
                          /\ TooOld(CoversSeq(AccountOf[d]), cursor[d]))
  BY <1>2 DEF PullCheck
<1>3. ASSUME NEW e \in Devices, GetSnapshot(e) PROVE gone[d]
  BY <1>3 DEF GetSnapshot
<1>4. ASSUME UNCHANGED gone PROVE gone[d]
  BY <1>4
<1>. QED
  BY <1>1, <1>2, <1>3, <1>4, ClientStep
  DEF SyncNext, Inserted, NotInserted, Push, PushNudge, PullPage, PullLatest, PutLatest,
      PutCovered, PutStatement, PutEnd, Fail, SocketStep, clientVars

\* A device is asked for a page only when it was not told 410.
LEMMA PageStep ==
  ASSUME SyncInv, SyncNext, NEW d \in Devices, gone[d], gone'[d],
         req[d].pc \notin {"page", "latest"}
  PROVE  req'[d].pc \notin {"page", "latest"}
<1>. req \in [Devices -> Request]
  BY DEF SyncInv, SyncTypeOK
<1>1. ~PullCheck(d) /\ ~PullPage(d)
  BY DEF PullCheck, PullPage
<1>2. /\ Idle.pc = "idle"
      /\ [req[d] EXCEPT !.pc = "nudging"].pc = "nudging"
      /\ [req[d] EXCEPT !.pc = "putting"].pc = "putting"
  BY DEF Idle, Request
<1>3. Push(d) => req'[d].pc = "inserting"
  BY DEF Push, Idle
<1>4. PutLatest(d) => req'[d].pc = "covered"
  BY DEF PutLatest, Idle
<1>. QED
  BY <1>1, <1>2, <1>3, <1>4, RequestStep

LEMMA CursorInvStep ==
  ASSUME SyncInv, CursorInv, SyncNext
  PROVE  CursorInv'
<1>. USE SyncConstants DEF Devices
<1>. SUFFICES ASSUME NEW d \in Devices
             PROVE  /\ gone'[d] => /\ Floor'[AccountOf[d]] > cursor'[d]
                                   /\ req'[d].pc \notin {"page", "latest"}
                    /\ req'[d].pc = "latest" => \A p \in req'[d].page : cursor'[d] < p
  BY DEF CursorInv, TooOld, Floor
<1>. DEFINE a == AccountOf[d]
<1>0. /\ a \in Accounts
      /\ req \in [Devices -> Request]
      /\ cursor \in [Devices -> 0..MaxSeq]
      /\ CoversSeq(a) <= Floor'[a] /\ CoversSeq(a) \in 0..MaxSeq /\ Floor'[a] \in 0..MaxSeq
  BY FloorGrows DEF SyncInv, SyncTypeOK
<1>1. ASSUME gone'[d]
      PROVE  Floor'[a] > cursor'[d] /\ req'[d].pc \notin {"page", "latest"}
  <2>1. TooOld(CoversSeq(a), cursor[d]) /\ req[d].pc \notin {"page", "latest"}
    BY <1>1, GoneStep DEF CursorInv
  <2>2. cursor'[d] = cursor[d]
    BY <1>1, <2>1, GoneStep DEF PullLatest
  <2>3. req'[d].pc \notin {"page", "latest"}
    <3>1. CASE req'[d] = req[d]
      BY <2>1, <3>1
    <3>2. CASE gone[d]
      BY <1>1, <2>1, <3>2, PageStep
    <3>. QED
      BY <1>1, <3>1, <3>2, GoneStep
  <2>. QED
    BY <1>0, <2>1, <2>2, <2>3 DEF TooOld
<1>2. ASSUME req'[d].pc = "latest", NEW p \in req'[d].page PROVE cursor'[d] < p
  <2>1. CASE req'[d] = req[d]
    <3>1. cursor'[d] = cursor[d]
      BY <1>2, <2>1, ClientStep, IdleTyped, <1>0 DEF PullLatest, Answer
    <3>. QED
      BY <1>2, <2>1, <3>1 DEF CursorInv
  <2>2. CASE PullPage(d)
    <3>1. PICK page \in SUBSET log[a] :
            /\ IsPage(page, a, cursor[d], NormalizeLimit(Limit))
            /\ req' = [req EXCEPT ![d] = [Idle EXCEPT !.pc = "latest", !.page = page]]
      BY <2>2 DEF PullPage
    <3>2. req'[d].page = page /\ cursor' = cursor
      BY <1>0, <2>2, <3>1 DEF PullPage, Idle, clientVars
    <3>. QED
      BY <1>2, <3>1, <3>2 DEF IsPage, After
  <2>. QED
    BY <1>2, <2>1, <2>2, StepOfPc
<1>. QED
  BY <1>1, <1>2

LEMMA CursorInvariant == SyncSpec => []CursorInv
<1>1. SyncInit => CursorInv
  BY IdleTyped DEF SyncInit, CursorInv
<1>2. SyncInv /\ CursorInv /\ [SyncNext]_syncVars => CursorInv'
  <2>1. CursorInv /\ UNCHANGED syncVars => CursorInv'
    BY DEF CursorInv, syncVars, logVars, clientVars, CoversSeq
  <2>. QED
    BY <2>1, CursorInvStep
<1>. QED
  BY <1>1, <1>2, SyncInvariant, PTL DEF SyncSpec

\* No page and no snapshot moves a cursor back.
THEOREM CursorNeverBack == SyncSpec => CursorMonotone
<1>1. SyncInv /\ CursorInv /\ [SyncNext]_syncVars
        => [\A d \in Devices : cursor[d] <= cursor'[d]]_syncVars
  BY CursorStep
<1>. QED
  BY <1>1, CursorInvariant, SyncInvariant, PTL DEF SyncSpec, CursorMonotone
=============================================================================
