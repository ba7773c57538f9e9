--------------------------- MODULE ReplicaProofs ---------------------------
(***************************************************************************)
(* Proofs that the handlers of /sync implement Replica, that no delta      *)
(* crosses from one account to another, and that Sync as a whole implements*)
(* the tables it is built on; for any devices, accounts, rows and claims.  *)
(***************************************************************************)
EXTENDS SyncProofs

-----------------------------------------------------------------------------
(* Where the deltas of a device come from.                                 *)

\* A device only ever adds to what it has: a number just drawn, or deltas that
\* devices of its account wrote.
LEMMA MergedStep ==
  ASSUME SyncInv, ProvenanceInv, SyncNext
  PROVE  \/ UNCHANGED merged
         \/ \E d \in Devices, got \in SUBSET Seqs :
              /\ merged' = [merged EXCEPT ![d] = @ \cup got]
              /\ \/ Push(d) /\ got = {seqGen + 1}
                 \/ /\ PullLatest(d) \/ GetSnapshot(d)
                    /\ got \subseteq R!WrittenIn(AccountOf[d])
<1>. USE SyncConstants DEF Devices
<1>. DEFINE Adds(d, got) == merged' = [merged EXCEPT ![d] = @ \cup got]
<1>1. ASSUME NEW d \in Devices, Push(d)
      PROVE  {seqGen + 1} \in SUBSET Seqs /\ Adds(d, {seqGen + 1})
  <2>1. seqGen + 1 \in Seqs
    BY <1>1, DeltaLogConstants DEF Push, InsertStart, Seqs, SyncInv, SyncTypeOK, LogTypeOK
  <2>. QED
    BY <1>1, <2>1 DEF Push
<1>2. ASSUME NEW d \in Devices, PullLatest(d)
      PROVE  \E got \in SUBSET Seqs : Adds(d, got) /\ got \subseteq R!WrittenIn(AccountOf[d])
  <2>1. req[d].page \subseteq committed[AccountOf[d]] /\ req[d].page \in SUBSET Seqs
    BY DEF SyncInv, ReachInv, SyncTypeOK, Request
  <2>2. committed[AccountOf[d]] \subseteq R!WrittenIn(AccountOf[d])
    BY DEF ProvenanceInv
  <2>3. Adds(d, req[d].page)
    BY <1>2 DEF PullLatest
  <2>. HIDE DEF Adds
  <2>. QED
    BY <2>1, <2>2, <2>3
<1>3. ASSUME NEW d \in Devices, GetSnapshot(d)
      PROVE  \E got \in SUBSET Seqs : Adds(d, got) /\ got \subseteq R!WrittenIn(AccountOf[d])
  <2>. DEFINE a == AccountOf[d]
  <2>1. snap[a] # None /\ snap[a] \in {None} \cup SnapshotRow /\ a \in Accounts
    BY <1>3 DEF GetSnapshot, SyncInv, SyncTypeOK, LogTypeOK
  <2>2. snap[a].payload \in SUBSET Seqs
    BY <2>1 DEF SnapshotRow
  <2>3. snap[a].payload \subseteq R!WrittenIn(a)
    BY <2>1 DEF ProvenanceInv
  <2>4. Adds(d, snap[a].payload)
    BY <1>3 DEF GetSnapshot
  <2>. HIDE DEF Adds
  <2>. QED
    BY <2>2, <2>3, <2>4
<1>. HIDE DEF Adds
<1>4. \/ UNCHANGED merged
      \/ \E d \in Devices : Push(d) \/ PullLatest(d) \/ GetSnapshot(d)
  BY DEF SyncNext, Inserted, NotInserted, PushNudge, PullCheck, PullPage, PutLatest, PutCovered,
         PutStatement, PutEnd, Fail, SocketStep, clientVars
<1>. QED
  BY <1>1, <1>2, <1>3, <1>4 DEF Adds

\* What an account has written is never lost to its devices.
LEMMA WrittenGrows ==
  ASSUME SyncInv, ProvenanceInv, SyncNext, NEW a \in Accounts
  PROVE  R!WrittenIn(a) \subseteq R!WrittenIn(a)'
<1>1. merged \in [Devices -> SUBSET Seqs]
  BY DEF SyncInv, SyncTypeOK
<1>2. \A d \in Devices : merged[d] \subseteq merged'[d]
  BY <1>1, MergedStep
<1>. QED
  BY <1>2 DEF R!WrittenIn

\* Two accounts never wrote under the same number.
LEMMA WrittenApart ==
  ASSUME ProvenanceInv, NEW a \in Accounts, NEW b \in Accounts, a # b
  PROVE  R!WrittenIn(a) \cap R!WrittenIn(b) = {}
  BY DEF ProvenanceInv, Isolated, R!WrittenIn

LEMMA IsolatedStep ==
  ASSUME SyncInv, ProvenanceInv, SyncNext
  PROVE  Isolated' /\ \A d \in Devices : \A s \in merged'[d] : s <= seqGen'
<1>. USE SyncConstants DEF Devices
<1>0. /\ merged \in [Devices -> SUBSET Seqs]
      /\ seqGen \in 0..MaxSeq /\ seqGen' \in Int /\ seqGen <= seqGen'
      /\ Isolated /\ \A d \in Devices : \A s \in merged[d] : s <= seqGen
  <2>1. seqGen' = seqGen \/ seqGen' = seqGen + 1
    BY SyncLog DEF SyncInv, LogNext, logVars, InsertStart, InsertCommit, InsertAbort, SnapBegin,
      SnapUpsert, SnapRegress, SnapPurge, SnapCommit, SnapAbort
  <2>. QED
    BY <2>1 DEF SyncInv, SyncTypeOK, LogTypeOK, ProvenanceInv
<1>1. CASE UNCHANGED merged
  BY <1>0, <1>1 DEF Isolated, Seqs
<1>2. ASSUME NEW d \in Devices, Push(d), merged' = [merged EXCEPT ![d] = @ \cup {seqGen + 1}]
      PROVE  Isolated' /\ \A e \in Devices : \A s \in merged'[e] : s <= seqGen'
  <2>1. seqGen' = seqGen + 1
    BY <1>2 DEF Push, InsertStart
  <2>2. \A e \in Devices : seqGen + 1 \notin merged[e]
    BY <1>0
  <2>. QED
    BY <1>0, <1>2, <2>1, <2>2 DEF Isolated, Seqs
<1>3. ASSUME NEW d \in Devices, NEW got \in SUBSET Seqs, got \subseteq R!WrittenIn(AccountOf[d]),
             merged' = [merged EXCEPT ![d] = @ \cup got]
      PROVE  Isolated' /\ \A e \in Devices : \A s \in merged'[e] : s <= seqGen'
  <2>1. \A s \in got : s <= seqGen
    BY <1>0, <1>3 DEF R!WrittenIn
  <2>2. ASSUME NEW e \in Devices, AccountOf[e] # AccountOf[d] PROVE got \cap merged[e] = {}
    BY <1>0, <1>3, <2>2 DEF Isolated, R!WrittenIn
  <2>. QED
    BY <1>0, <1>3, <2>1, <2>2 DEF Isolated, Seqs
<1>. QED
  BY <1>1, <1>2, <1>3, MergedStep

\* A number in the table, in a snapshot or on its way there was written by a
\* device of the account.
LEMMA OriginStep ==
  ASSUME SyncInv, ProvenanceInv, SyncNext
  PROVE  /\ \A r \in inserting' : r.seq \in R!WrittenIn(r.acct)'
         /\ \A a \in Accounts :
              /\ committed'[a] \subseteq R!WrittenIn(a)'
              /\ snap'[a] # None => snap'[a].payload \subseteq R!WrittenIn(a)'
<1>. USE SyncConstants DEF Devices
<1>0. /\ LogNext \/ UNCHANGED logVars
      /\ LogTypeOK /\ TxWhole
      /\ inserting \subseteq Row
  BY SyncLog DEF SyncInv, SyncTypeOK, LogInv, LogTypeOK
<1>1. ASSUME NEW r \in inserting' PROVE r.seq \in R!WrittenIn(r.acct)'
  <2>1. CASE r \in inserting
    <3>1. r.acct \in Accounts
      BY <1>0, <2>1 DEF Row
    <3>2. r.seq \in R!WrittenIn(r.acct)
      BY <2>1 DEF ProvenanceInv
    <3>. QED
      BY <3>1, <3>2, WrittenGrows
  <2>2. ASSUME NEW d \in Devices, Push(d), r \notin inserting PROVE r.seq \in R!WrittenIn(r.acct)'
    <3>1. r = [acct |-> AccountOf[d], seq |-> seqGen + 1]
      BY <1>1, <2>2 DEF Push, InsertStart
    <3>2. seqGen + 1 \in merged'[d]
      BY <2>2 DEF Push, SyncInv, SyncTypeOK
    <3>3. seqGen + 1 \in Seqs
      BY <1>0, <2>2, DeltaLogConstants DEF Push, InsertStart, LogTypeOK, Seqs
    <3>. QED
      BY <3>1, <3>2, <3>3 DEF R!WrittenIn
  <2>3. r \in inserting \/ \E d \in Devices : Push(d)
    BY DEF SyncNext, Inserted, InsertCommit, NotInserted, InsertAbort, PushNudge, PullCheck,
           PullPage, PullLatest, PutLatest, PutCovered, SnapBegin, PutStatement, SnapUpsert,
           SnapPurge, PutEnd, SnapRegress, SnapCommit, SnapAbort, GetSnapshot, Fail, SocketStep,
           logVars
  <2>. QED
    BY <2>1, <2>2, <2>3
<1>2. ASSUME NEW a \in Accounts PROVE committed'[a] \subseteq R!WrittenIn(a)'
  <2>1. committed[a] \subseteq R!WrittenIn(a) /\ R!WrittenIn(a) \subseteq R!WrittenIn(a)'
    BY WrittenGrows DEF ProvenanceInv
  <2>2. ASSUME NEW r \in inserting, InsertCommit(r) PROVE committed'[a] \subseteq R!WrittenIn(a)'
    <3>1. r.acct = a => r.seq \in R!WrittenIn(a)
      BY DEF ProvenanceInv
    <3>. QED
      BY <1>0, <2>1, <2>2, <3>1 DEF InsertCommit, LogTypeOK
  <2>3. CASE UNCHANGED committed
    BY <2>1, <2>3
  <2>. QED
    BY <1>0, <2>2, <2>3
    DEF LogNext, logVars, InsertStart, InsertAbort, SnapBegin, SnapUpsert, SnapRegress,
        SnapPurge, SnapCommit, SnapAbort
<1>3. ASSUME NEW a \in Accounts, snap'[a] # None
      PROVE  snap'[a].payload \subseteq R!WrittenIn(a)'
  <2>1. R!WrittenIn(a) \subseteq R!WrittenIn(a)'
    BY WrittenGrows
  <2>2. CASE snap'[a] = snap[a]
    BY <1>3, <2>1, <2>2 DEF ProvenanceInv
  <2>3. ASSUME NEW d \in Devices, SnapCommit(d), a = tx[d].acct
        PROVE  snap'[a].payload \subseteq R!WrittenIn(a)'
    <3>1. snap'[a].payload = tx[d].payload /\ a = AccountOf[d] /\ tx[d].stage # "none"
      BY <1>0, <2>3 DEF SnapCommit, LogTypeOK, SyncInv, ReachInv
    <3>2. tx[d].payload \subseteq R!WrittenIn(a)
      BY <3>1 DEF ProvenanceInv
    <3>. QED
      BY <2>1, <3>1, <3>2
  <2>4. ASSUME NEW d \in Devices, SnapCommit(d), a # tx[d].acct PROVE snap'[a] = snap[a]
    BY <1>0, <2>4 DEF SnapCommit, LogTypeOK
  <2>. QED
    BY <1>0, <2>2, <2>3, <2>4
    DEF LogNext, logVars, InsertStart, InsertCommit, InsertAbort, SnapBegin, SnapUpsert,
        SnapRegress, SnapPurge, SnapAbort
<1>. QED
  BY <1>1, <1>2, <1>3

LEMMA ProvenanceStep ==
  ASSUME SyncInv, ProvenanceInv, SyncNext
  PROVE  ProvenanceInv'
<1>. USE SyncConstants DEF Devices
<1>1. ASSUME NEW d \in Devices, tx'[d].stage # "none"
      PROVE  tx'[d].payload \subseteq R!WrittenIn(AccountOf[d])'
  <2>1. R!WrittenIn(AccountOf[d]) \subseteq R!WrittenIn(AccountOf[d])'
    BY WrittenGrows
  <2>2. CASE tx[d].stage # "none" /\ tx'[d].payload = tx[d].payload
    BY <2>1, <2>2 DEF ProvenanceInv
  <2>3. CASE tx'[d].payload = merged[d]
    <3>1. merged[d] \subseteq R!WrittenIn(AccountOf[d])
      BY DEF R!WrittenIn, SyncInv, SyncTypeOK
    <3>. QED
      BY <2>1, <2>3, <3>1
  <2>. QED
    BY <1>1, <2>2, <2>3, TxStep
<1>. QED
  BY <1>1, IsolatedStep, OriginStep DEF ProvenanceInv

LEMMA ProvenanceStutter ==
  ASSUME ProvenanceInv, UNCHANGED syncVars
  PROVE  ProvenanceInv'
  BY DEF ProvenanceInv, Isolated, R!WrittenIn, syncVars, logVars, clientVars

LEMMA ProvenanceInvariant == SyncSpec => []ProvenanceInv
<1>1. SyncInit => ProvenanceInv
  BY NoTxTyped, SyncConstants DEF SyncInit, LogInit, ProvenanceInv, Isolated, R!WrittenIn, Devices
<1>2. SyncInv /\ ProvenanceInv /\ [SyncNext]_syncVars => ProvenanceInv'
  BY ProvenanceStep, ProvenanceStutter
<1>. QED
  BY <1>1, <1>2, SyncInvariant, PTL DEF SyncSpec

\* No device ever has a delta of another account, whatever pages, snapshots and
\* republications it has been through.
THEOREM AccountsIsolated == SyncSpec => []Isolated
<1>1. ProvenanceInv => Isolated
  BY DEF ProvenanceInv
<1>. QED
  BY <1>1, ProvenanceInvariant, PTL

-----------------------------------------------------------------------------
(* The handlers implement Replica: one lemma per kind of step.             *)

LEMMA ReplicaInit == SyncInit => R!Init
  BY SyncConstants DEF SyncInit, LogInit, R!Init, Devices

\* A promise broken once stays broken.
LEMMA WholeOnce ==
  ASSUME SyncTypeOK, SyncNext
  PROVE  (anomalies = {})' \in {anomalies = {}, FALSE}
  BY AnomaliesKept

\* Drawing a number in push is writing a delta that no device has.
LEMMA PushWrites ==
  ASSUME SyncInv, ProvenanceInv, NEW d \in Devices, Push(d)
  PROVE  \E n \in Seqs : R!Write(d, n)
<1>1. seqGen \in 0..MaxSeq /\ seqGen + 1 \in Seqs
  BY DeltaLogConstants DEF Push, InsertStart, Seqs, SyncInv, SyncTypeOK, LogTypeOK
<1>2. \A e \in Devices : seqGen + 1 \notin merged[e]
  BY <1>1 DEF ProvenanceInv
<1>3. R!Write(d, seqGen + 1)
  BY <1>2 DEF R!Write, Push, InsertStart
<1>. QED
  BY <1>1, <1>3

\* A row that commits is published: it was written in its account, and above all
\* that was published as long as no row has been late.
LEMMA CommitPublishes ==
  ASSUME SyncInv, ProvenanceInv, NEW r \in inserting, Inserted(r)
  PROVE  \E a \in Accounts, n \in Seqs : R!Publish(a, n)
<1>1. r.acct \in Accounts /\ r.seq \in Seqs /\ committed[r.acct] \subseteq Seqs
  BY DEF SyncInv, SyncTypeOK, LogTypeOK, Row
<1>2. r.seq \in R!WrittenIn(r.acct)
  BY DEF ProvenanceInv
<1>3. ASSUME anomalies' = {}, NEW s \in committed[r.acct] PROVE s < r.seq
  <2>1. ~Late(r)
    BY <1>3 DEF Inserted
  <2>2. s # r.seq
    BY <1>1 DEF SyncInv, LogInv, DrawnOnce
  <2>. QED
    BY <1>1, <2>1, <2>2 DEF Late, Seqs
<1>4. R!Publish(r.acct, r.seq)
  BY <1>2, <1>3 DEF R!Publish, Inserted, InsertCommit, clientVars
<1>. QED
  BY <1>1, <1>4

\* A page that is merged is a delivery: of rows of the account, all of those the
\* cursor moves past unless a race has happened.
LEMMA PullDelivers ==
  ASSUME SyncInv, ProvenanceInv, CursorInv, NEW d \in Devices, PullLatest(d)
  PROVE  \E got \in SUBSET Seqs, p \in Seqs \cup {0} : R!Deliver(d, got, p)
<1>. USE SyncConstants DEF Devices
<1>. DEFINE a == AccountOf[d]
            got == req[d].page
<1>1. PICK c \in got \cup {cursor[d]} :
        /\ \A p \in got : p <= c
        /\ cursor' = [cursor EXCEPT ![d] = c]
  BY DEF PullLatest
<1>2. /\ a \in Accounts /\ cursor[d] \in 0..MaxSeq
      /\ got \in SUBSET Seqs
      /\ committed[a] \subseteq Seqs
      /\ got \subseteq committed[a]
      /\ committed[a] \subseteq R!WrittenIn(a)
  BY DEF SyncInv, SyncTypeOK, LogTypeOK, Request, ReachInv, ProvenanceInv
<1>3. c \in Seqs \cup {0}
  BY <1>1, <1>2 DEF Seqs
<1>4. c # cursor[d] => cursor[d] < c /\ \E s \in committed[a] : c <= s
  <2>1. \A p \in got : cursor[d] < p
    BY DEF PullLatest, CursorInv
  <2>. QED
    BY <1>1, <1>2, <2>1 DEF Seqs
<1>5. ASSUME anomalies' = {}, NEW s \in committed[a], cursor[d] < s, s <= c
      PROVE  s \in got
  <2>1. PageWhole(d) /\ c # cursor[d]
    BY <1>2, <1>5 DEF PullLatest, SyncInv, QuietInv, Seqs
  <2>. QED
    BY <1>1, <1>5, <2>1 DEF PageWhole
<1>6. /\ merged' = [merged EXCEPT ![d] = @ \cup got]
      /\ UNCHANGED committed
  BY DEF PullLatest, logVars
<1>7. R!Deliver(d, got, c)
  <2>. HIDE DEF got
  <2>. QED
    BY <1>1, <1>2, <1>4, <1>5, <1>6 DEF R!Deliver
<1>. QED
  BY <1>2, <1>3, <1>7

\* So is the snapshot, whose payload holds all it covers unless a race happened.
LEMMA SnapshotDelivers ==
  ASSUME SyncInv, ProvenanceInv, CursorInv, NEW d \in Devices, GetSnapshot(d)
  PROVE  \E got \in SUBSET Seqs, p \in Seqs \cup {0} : R!Deliver(d, got, p)
<1>. USE SyncConstants DEF Devices
<1>. DEFINE a == AccountOf[d]
            got == snap[a].payload
            c == CoversSeq(a)
<1>1. /\ a \in Accounts /\ snap[a] # None
      /\ cursor[d] \in 0..MaxSeq /\ c \in 0..MaxSeq
      /\ committed[a] \subseteq Seqs
  BY FloorTyped DEF SyncInv, SyncTypeOK, LogTypeOK, GetSnapshot
<1>2. got \in SUBSET Seqs /\ c \in Seqs \cup {0}
  BY <1>1 DEF SyncInv, SyncTypeOK, LogTypeOK, SnapshotRow, Seqs
<1>3. got \subseteq R!WrittenIn(a)
  BY <1>1 DEF ProvenanceInv
<1>4. cursor[d] < c
  BY <1>1 DEF GetSnapshot, CursorInv, TooOld
<1>5. \E s \in committed[a] : c <= s
  BY <1>1, <1>4 DEF SyncInv, ReachInv, CoverIsReal, Reached
<1>6. ASSUME anomalies' = {}, NEW s \in committed[a], cursor[d] < s, s <= c
      PROVE  s \in got
  <2>1. Whole(a, c, got)
    BY <1>1, <1>6 DEF GetSnapshot, SyncInv, QuietInv, SnapshotWhole
  <2>. QED
    BY <1>1, <1>6, <2>1 DEF Whole, Seqs
<1>7. /\ merged' = [merged EXCEPT ![d] = @ \cup got]
      /\ cursor' = [cursor EXCEPT ![d] = c]
      /\ UNCHANGED committed
  BY <1>1 DEF GetSnapshot, CoversSeq, logVars
<1>8. R!Deliver(d, got, c)
  <2>. HIDE DEF got, c
  <2>. QED
    BY <1>3, <1>4, <1>5, <1>6, <1>7 DEF R!Deliver
<1>. QED
  BY <1>2, <1>8

LEMMA ReplicaStep ==
  ASSUME SyncInv, ProvenanceInv, CursorInv, SyncNext
  PROVE  R!Next
<1>. DEFINE Quiet == UNCHANGED <<committed, merged, cursor>>
<1>1. \/ \E r \in inserting : Inserted(r)
      \/ \E d \in Devices : Push(d) \/ PullLatest(d) \/ GetSnapshot(d)
      \/ Quiet
  <2>1. ASSUME NEW d \in Devices, PutCovered(d) PROVE Quiet
    BY <2>1 DEF PutCovered, SnapBegin, clientVars, logVars
  <2>2. ASSUME NEW d \in Devices, PutStatement(d) PROVE Quiet
    BY <2>2 DEF PutStatement, SnapUpsert, SnapPurge, clientVars
  <2>3. ASSUME NEW d \in Devices, PutEnd(d) PROVE Quiet
    BY <2>3 DEF PutEnd, SnapRegress, SnapCommit, SnapAbort, clientVars
  <2>4. ASSUME NEW d \in Devices, Fail(d) PROVE Quiet
    BY <2>4 DEF Fail, SnapAbort, clientVars, logVars
  <2>. QED
    BY <2>1, <2>2, <2>3, <2>4
    DEF SyncNext, NotInserted, InsertAbort, PushNudge, PullCheck, PullPage, PutLatest, SocketStep,
        clientVars, logVars
<1>2. \/ \E a \in Accounts, n \in Seqs : R!Publish(a, n)
      \/ \E d \in Devices, n \in Seqs : R!Write(d, n)
      \/ \E d \in Devices, got \in SUBSET Seqs, p \in Seqs \cup {0} : R!Deliver(d, got, p)
      \/ Quiet
  <2>. HIDE DEF Quiet
  <2>. QED
    BY <1>1, CommitPublishes, PushWrites, PullDelivers, SnapshotDelivers
<1>3. (anomalies = {})' \in {anomalies = {}, FALSE}
  BY WholeOnce DEF SyncInv
<1>. QED
  BY <1>2, <1>3 DEF R!Next

\* The handlers of /sync, statement by statement and in any interleaving,
\* implement the replicated sets of deltas: no step but the named races ever
\* leaves a hole, and none ever crosses an account or moves a cursor back.
THEOREM SyncImplementsReplica == SyncSpec => ImplementsReplica
<1>1. SyncInv /\ ProvenanceInv /\ CursorInv /\ [SyncNext]_syncVars => [R!Next]_R!vars
  <2>1. ASSUME UNCHANGED syncVars PROVE UNCHANGED R!vars
    BY <2>1 DEF syncVars, logVars, clientVars, R!vars
  <2>. QED
    BY <2>1, ReplicaStep
<1>. QED
  BY <1>1, ReplicaInit, SyncInvariant, ProvenanceInvariant, CursorInvariant, PTL
  DEF SyncSpec, ImplementsReplica, R!Spec

-----------------------------------------------------------------------------
(* The handlers use the tables as the tables are meant to be used.         *)

\* Whatever the handlers and their devices do, the tables go through a behaviour
\* of DeltaLog: a handler calls append and put with what they accept.
THEOREM SyncImplementsLog == SyncSpec => LogSpec
<1>1. SyncInit => LogInit
  BY DEF SyncInit
<1>2. SyncInv /\ [SyncNext]_syncVars => [LogNext]_logVars
  <2>1. UNCHANGED syncVars => UNCHANGED logVars
    BY DEF syncVars
  <2>. QED
    BY <2>1, SyncLog DEF SyncInv
<1>. QED
  BY <1>1, <1>2, SyncInvariant, PTL DEF SyncSpec, LogSpec

\* So all that is proved of the tables alone holds of them under the handlers:
\* they are an atomic journal to every device, and no floor ever goes down.
THEOREM SyncImplementsJournal == SyncSpec => ImplementsJournal /\ CoversMonotone
  BY SyncImplementsLog, LogImplementsJournal, CoversNeverRegresses
=============================================================================
