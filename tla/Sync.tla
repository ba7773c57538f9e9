-------------------------------- MODULE Sync --------------------------------
(***************************************************************************)
(* The /sync endpoints (sync_api) with the tables they use (DeltaLog), the *)
(* wake-up channel (Nudge) and the devices that call them.                 *)
(*                                                                         *)
(* A handler awaits several statements, each of which sees the database as *)
(* it is at that moment: between two awaits anything may commit.  A device *)
(* has one request at a time, so the handler is known by its device.  The  *)
(* device is the one the server's docs describe: it moves its cursor only  *)
(* by pulling pages or reading the snapshot, and publishes what it merged. *)
(*                                                                         *)
(* The content of a delta is identified with its number, and a snapshot    *)
(* with the set of deltas merged into it.                                  *)
(***************************************************************************)
EXTENDS DeltaLog

CONSTANTS AccountOf,   \* AccountOf[d]: account of the session device d holds
          Sockets,     \* devices that may open a WebSocket
          Pollers,     \* devices that keep polling; the others may vanish at any time
          Limit,       \* page size the devices ask for, of any sign
          Overclaim    \* by how much a device may exceed its cursor in a publication

Devices == Tasks

ASSUME SyncConstants ==
  /\ AccountOf \in [Devices -> Accounts]
  /\ Sockets \subseteq Devices
  /\ Pollers \subseteq Devices
  /\ Limit \in Int
  /\ Overclaim \in Nat
  /\ Blobs = SUBSET Seqs

VARIABLES
  req,         \* req[d]: where the handler of d's request is and what it read
  cursor,      \* cursor[d]: cursor of device d
  merged,      \* merged[d]: deltas device d has merged, its own included
  gone,        \* gone[d]: d was answered 410 and has to fetch the snapshot
  ws, inbox, heard,
  anomalies    \* history: the races that have happened

clientVars == <<cursor, merged, gone>>
syncVars == <<logVars, req, clientVars, ws, inbox, heard, anomalies>>

N == INSTANCE Nudge WITH Devices <- Sockets, Numbers <- Seqs

Steps == {"idle", "inserting", "nudging", "page", "latest", "covered", "putting"}

Request == [pc : Steps, seq : 0..MaxSeq, page : SUBSET Seqs, covers : 0..MaxSeq,
            latest : 0..MaxSeq]

Idle == [pc |-> "idle", seq |-> 0, page |-> {}, covers |-> 0, latest |-> 0]

SyncTypeOK ==
  /\ LogTypeOK
  /\ N!NudgeTypeOK
  /\ req \in [Devices -> Request]
  /\ cursor \in [Devices -> 0..MaxSeq]
  /\ merged \in [Devices -> SUBSET Seqs]
  /\ gone \in [Devices -> BOOLEAN]
  /\ anomalies \subseteq {"late", "torn", "overclaim"}

SyncInit ==
  /\ LogInit
  /\ N!NudgeInit
  /\ req = [d \in Devices |-> Idle]
  /\ cursor = [d \in Devices |-> 0]
  /\ merged = [d \in Devices |-> {}]
  /\ gone = [d \in Devices |-> FALSE]
  /\ anomalies = {}

\* The handler answers: its device may send another request.
Answer(d) == req' = [req EXCEPT ![d] = Idle]

-----------------------------------------------------------------------------
(* push                                                                    *)

Push(d) ==
  /\ req[d].pc = "idle"
  /\ InsertStart(AccountOf[d])
  /\ req' = [req EXCEPT ![d] = [Idle EXCEPT !.pc = "inserting", !.seq = seqGen + 1]]
  /\ merged' = [merged EXCEPT ![d] = @ \cup {seqGen + 1}]
  /\ UNCHANGED <<cursor, gone, ws, inbox, heard, anomalies>>

\* The devices whose handler awaits the INSERT of row r: one, or none any more.
Awaiting(r) == {d \in Devices : req[d].pc = "inserting" /\ req[d].seq = r.seq}

\* A row becomes visible after one with a greater number.
Late(r) == \E s \in committed[r.acct] : s > r.seq

Inserted(r) ==
  /\ InsertCommit(r)
  /\ req' = [d \in Devices |-> IF d \in Awaiting(r) THEN [req[d] EXCEPT !.pc = "nudging"]
                                                    ELSE req[d]]
  /\ anomalies' = anomalies \cup (IF Late(r) THEN {"late"} ELSE {})
  /\ UNCHANGED <<clientVars, ws, inbox, heard>>

\* 500
NotInserted(r) ==
  /\ InsertAbort(r)
  /\ req' = [d \in Devices |-> IF d \in Awaiting(r) THEN Idle ELSE req[d]]
  /\ UNCHANGED <<clientVars, ws, inbox, heard, anomalies>>

\* Wrong on purpose: the wake-up does not wait for the INSERT.
PushNudgeEarly(d) ==
  /\ req[d].pc \in {"inserting", "nudging"}
  /\ N!Publish(AccountOf[d], req[d].seq)
  /\ Answer(d)
  /\ UNCHANGED <<logVars, clientVars, anomalies>>

\* publish_nudge, then 201.
PushNudge(d) ==
  /\ req[d].pc = "nudging"
  /\ N!Publish(AccountOf[d], req[d].seq)
  /\ Answer(d)
  /\ UNCHANGED <<logVars, clientVars, anomalies>>

-----------------------------------------------------------------------------
(* pull                                                                    *)

\* Wrong on purpose: never 410.
NeverTooOld(covers, since) == FALSE

\* 410: rows above the cursor may have been compacted.
TooOld(covers, since) == covers > since

\* Wrong on purpose: the page size is taken as the device asks.
LimitAsAsked(asked) == asked

\* normalize_limit: at least one row, at most MAX_LIMIT.
NormalizeLimit(asked) == IF asked < 1 THEN 1 ELSE IF asked > 1000 THEN 1000 ELSE asked

PullCheck(d) ==
  /\ req[d].pc = "idle"
  /\ ~gone[d]
  /\ FreeConnection
  /\ IF TooOld(CoversSeq(AccountOf[d]), cursor[d])
     THEN gone' = [gone EXCEPT ![d] = TRUE] /\ UNCHANGED req
     ELSE req' = [req EXCEPT ![d] = [Idle EXCEPT !.pc = "page"]] /\ UNCHANGED gone
  /\ UNCHANGED <<logVars, cursor, merged, ws, inbox, heard, anomalies>>

\* Wrong on purpose: the WHERE lacks the account.
PullPageOfAll(d) ==
  /\ req[d].pc = "page"
  /\ FreeConnection
  /\ \E page \in SUBSET UNION {log[a] : a \in Accounts} :
       /\ \A p \in page : p > cursor[d]
       /\ req' = [req EXCEPT ![d] = [Idle EXCEPT !.pc = "latest", !.page = page]]
  /\ UNCHANGED <<logVars, clientVars, ws, inbox, heard, anomalies>>

PullPage(d) ==
  /\ req[d].pc = "page"
  /\ FreeConnection
  /\ \E page \in SUBSET log[AccountOf[d]] :
       /\ IsPage(page, AccountOf[d], cursor[d], NormalizeLimit(Limit))
       /\ req' = [req EXCEPT ![d] = [Idle EXCEPT !.pc = "latest", !.page = page]]
  /\ anomalies' = anomalies \cup
       (IF TooOld(CoversSeq(AccountOf[d]), cursor[d]) THEN {"torn"} ELSE {})
  /\ UNCHANGED <<logVars, clientVars, ws, inbox, heard>>

\* latest_seq is read, 200 is sent, and the device merges the page.  The device
\* polls again whatever `latest` says, so `latest` moves nothing here.
PullLatest(d) ==
  /\ req[d].pc = "latest"
  /\ FreeConnection
  /\ \E c \in req[d].page \cup {cursor[d]} :
       /\ \A p \in req[d].page : p <= c
       /\ cursor' = [cursor EXCEPT ![d] = c]
  /\ merged' = [merged EXCEPT ![d] = @ \cup req[d].page]
  /\ Answer(d)
  /\ UNCHANGED <<logVars, gone, ws, inbox, heard, anomalies>>

-----------------------------------------------------------------------------
(* put_snapshot, get_snapshot                                              *)

\* The request arrives with the declared covers_seq; latest_seq is read first.  A
\* claim below 0 is answered 400 before that, and no device makes one.
PutLatest(d) ==
  /\ req[d].pc = "idle"
  /\ tx[d].stage = "none"
  /\ FreeConnection
  /\ \E c \in cursor[d]..(cursor[d] + Overclaim), m \in log[AccountOf[d]] \cup {0} :
       /\ c <= MaxSeq
       /\ IsLatest(m, AccountOf[d])
       /\ req' = [req EXCEPT ![d] = [Idle EXCEPT !.pc = "covered", !.covers = c, !.latest = m]]
       /\ anomalies' = anomalies \cup (IF c > cursor[d] THEN {"overclaim"} ELSE {})
  /\ UNCHANGED <<logVars, clientVars, ws, inbox, heard>>

\* Wrong on purpose: no bound on what a snapshot may claim to cover.
NeverTooFar(c, latest, covered) == FALSE

\* Wrong on purpose: only the rows still in the table count.
TooFarFromRows(c, latest, covered) == c > latest

\* 400: the snapshot claims to cover rows that do not exist.
TooFar(c, latest, covered) == c > latest /\ c > covered

\* Then covers_seq is read, and the claim is refused or the transaction begins.
PutCovered(d) ==
  LET a == AccountOf[d] IN
  /\ req[d].pc = "covered"
  /\ IF TooFar(req[d].covers, req[d].latest, CoversSeq(a))
     THEN FreeConnection /\ Answer(d) /\ UNCHANGED logVars
     ELSE /\ SnapBegin(d, a, req[d].covers, merged[d])
          /\ req' = [req EXCEPT ![d].pc = "putting"]
  /\ UNCHANGED <<clientVars, ws, inbox, heard, anomalies>>

\* A statement of the transaction that leaves the handler waiting for the next.
PutStatement(d) ==
  /\ SnapUpsert(d) \/ SnapPurge(d)
  /\ UNCHANGED <<req, clientVars, ws, inbox, heard, anomalies>>

\* 409, or 200; 500 when the transaction fails.  Nobody may be waiting any more.
PutEnd(d) ==
  /\ SnapRegress(d) \/ SnapCommit(d) \/ SnapAbort(d)
  /\ IF req[d].pc = "putting" THEN Answer(d) ELSE UNCHANGED req
  /\ UNCHANGED <<clientVars, ws, inbox, heard, anomalies>>

\* Wrong on purpose: the answer carries latest_seq where the code has covers_seq.
GetSnapshotAtLatest(d) ==
  LET a == AccountOf[d] IN
  /\ req[d].pc = "idle"
  /\ gone[d]
  /\ FreeConnection
  /\ snap[a] # None
  /\ merged' = [merged EXCEPT ![d] = @ \cup snap[a].payload]
  /\ \E m \in log[a] \cup {0} : IsLatest(m, a) /\ cursor' = [cursor EXCEPT ![d] = m]
  /\ gone' = [gone EXCEPT ![d] = FALSE]
  /\ UNCHANGED <<logVars, req, ws, inbox, heard, anomalies>>

\* The device that was answered 410 starts again from the snapshot.
GetSnapshot(d) ==
  LET a == AccountOf[d] IN
  /\ req[d].pc = "idle"
  /\ gone[d]
  /\ FreeConnection
  /\ snap[a] # None
  /\ merged' = [merged EXCEPT ![d] = @ \cup snap[a].payload]
  /\ cursor' = [cursor EXCEPT ![d] = snap[a].covers]
  /\ gone' = [gone EXCEPT ![d] = FALSE]
  /\ UNCHANGED <<logVars, req, ws, inbox, heard, anomalies>>

-----------------------------------------------------------------------------
\* The request fails at one of its awaits, or its answer is lost: 500, client
\* gone, restart of the server.  An INSERT already sent goes on without it; so
\* does the transaction if its COMMIT was sent, otherwise it is rolled back.
Fail(d) ==
  /\ req[d].pc # "idle"
  /\ IF tx[d].stage \in {"begun", "upserted"} THEN SnapAbort(d) ELSE UNCHANGED logVars
  /\ Answer(d)
  /\ UNCHANGED <<clientVars, ws, inbox, heard, anomalies>>

SocketStep(d) == N!Socket(d) /\ UNCHANGED <<logVars, req, clientVars, anomalies>>

SyncNext ==
  \/ \E r \in inserting : Inserted(r) \/ NotInserted(r)
  \/ \E d \in Devices :
       \/ Push(d) \/ PushNudge(d)
       \/ PullCheck(d) \/ PullPage(d) \/ PullLatest(d)
       \/ PutLatest(d) \/ PutCovered(d) \/ PutStatement(d) \/ PutEnd(d)
       \/ GetSnapshot(d)
       \/ Fail(d)
  \/ \E d \in Sockets : SocketStep(d)

SyncSpec == SyncInit /\ [][SyncNext]_syncVars

-----------------------------------------------------------------------------
(* Fairness: a request a device keeps sending is answered in the end, each *)
(* of its statements included, and a poller polls even when no nudge comes *)
(* (sync_ws, lines 11-13).  Nothing is assumed of the other devices, of    *)
(* nudges and sockets, nor that a poller ever pushes or publishes.         *)

SyncFairness ==
  \A d \in Pollers :
    /\ SF_syncVars(PullCheck(d))
    /\ SF_syncVars(PullPage(d))
    /\ SF_syncVars(PullLatest(d))
    /\ SF_syncVars(GetSnapshot(d))
    /\ WF_syncVars(PushNudge(d))
    /\ WF_syncVars(PutCovered(d))
    /\ SF_syncVars(PutStatement(d))
    /\ SF_syncVars(PutEnd(d))
    /\ WF_syncVars(\E r \in inserting : d \in Awaiting(r) /\ (Inserted(r) \/ NotInserted(r)))

FairSyncSpec == SyncSpec /\ SyncFairness

-----------------------------------------------------------------------------
(* Properties.                                                             *)

\* Row s of account a, or nothing: c stands at or below a committed row.
Reached(a, c) == c = 0 \/ \E s \in committed[a] : c <= s

\* A snapshot never covers further than the rows that have committed, whatever a
\* device claims (put_snapshot, lines 190-204).  A number below them that is still
\* being inserted may be covered all the same: that is NothingMasked.
CoverIsReal == \A a \in Accounts : Reached(a, CoversSeq(a))

\* A device that publishes what it pulled is not refused for claiming too much,
\* even if another device compacts the log between the two reads of
\* put_snapshot (lines 193-201).
HonestClaimAccepted ==
  \A d \in Devices :
    req[d].pc = "covered" /\ req[d].covers <= cursor[d]
    => ~TooFar(req[d].covers, req[d].latest, CoversSeq(AccountOf[d]))

\* A content that stands for rows 1..c of account a lacks none that committed.
Whole(a, c, content) == committed[a] \cap 1..c \subseteq content

\* When none of the races in `anomalies` has happened, a device has merged every
\* committed delta at or below its cursor, whatever was pushed, compacted or
\* lost between the statements of its pulls.
GapFree(d) == Whole(AccountOf[d], cursor[d], merged[d])

NoGap == anomalies = {} => \A d \in Devices : GapFree(d)

\* PullResp, line 61, a device knows from `latest` whether there is more to pull:
\* outside those races, if it is not above the cursor the page gives, the device
\* has every committed delta, however much was compacted since the page was read,
\* or the snapshot has passed it and its next pull is answered 410.
LatestTrusted ==
  anomalies = {} =>
    \A d \in Devices, m \in 0..MaxSeq, c \in 0..MaxSeq :
      LET a == AccountOf[d]
          page == req[d].page
      IN  /\ req[d].pc = "latest"
          /\ c \in page \cup {cursor[d]} /\ \A p \in page : p <= c
          /\ IsLatest(m, a) /\ m <= c
          => committed[a] \subseteq merged[d] \cup page \/ TooOld(CoversSeq(a), c)

\* A cursor never goes back, on a page or on a snapshot: a device told 410 is
\* given a snapshot at or above where it stood, whoever republished or restarted
\* in between (pull, lines 151-157; get_snapshot).
CursorMonotone == [][\A d \in Devices : cursor[d] <= cursor'[d]]_syncVars

\* No delta reaches a device of another account, in a page, in a snapshot or
\* through what a device republishes (the account every statement filters on).
Isolated ==
  \A d, e \in Devices : AccountOf[d] # AccountOf[e] => merged[d] \cap merged[e] = {}

\* The handlers implement the replicated sets of deltas they promise: deliveries
\* stay in the account, move the cursor forward and, until one of the races
\* happens, leave out nothing they move it past (push, pull, get_snapshot).
R == INSTANCE Replica WITH Numbers <- Seqs, published <- committed, have <- merged,
       position <- cursor, whole <- anomalies = {}
ImplementsReplica == R!Spec

\* The same for a snapshot: its payload holds every delta it covers.
SnapshotWhole(a) == snap[a] # None => Whole(a, CoversSeq(a), snap[a].payload)

\* End to end: when none of those races has happened, a device that starts from
\* nothing gets every committed delta from the snapshot and the table.
NothingLost ==
  anomalies = {} =>
    \A a \in Accounts :
      committed[a] \subseteq log[a] \cup (IF snap[a] = None THEN {} ELSE snap[a].payload)

\* A nudge a device hears is about its own account, and a pull made on hearing
\* it finds the delta, or a snapshot that covers it (push, lines 127-129).
NudgeVisible ==
  \A d \in Sockets : \A s \in inbox[d] \cup heard[d] :
    s \in log[AccountOf[d]] \/ s <= CoversSeq(AccountOf[d])

\* Nudges may all be lost: a device that polls ends up with every committed
\* delta of its account (sync_ws, lines 11-13), compactions included.
Converges ==
  \A d \in Pollers :
    <>[](anomalies = {} => committed[AccountOf[d]] \subseteq merged[d])

-----------------------------------------------------------------------------
(* The inductive invariant the proofs use.                                 *)

\* Every number a handler or a device works with is one of its own account and
\* not above a committed row, whichever statements it has run so far.
ReachInv ==
  /\ CoverIsReal
  /\ \A d \in Devices :
       /\ Reached(AccountOf[d], cursor[d])
       /\ Reached(AccountOf[d], req[d].latest)
       /\ req[d].page \subseteq committed[AccountOf[d]]
       /\ tx[d].stage # "none" => /\ tx[d].acct = AccountOf[d]
                                  /\ Reached(AccountOf[d], tx[d].covers)

\* A page read by a pull in progress has no hole above the cursor.
PageWhole(d) ==
  \A p \in req[d].page, s \in committed[AccountOf[d]] :
    cursor[d] < s /\ s <= p => s \in req[d].page

\* What makes a pull, a publication and a snapshot complete as long as none of
\* the races has happened: rows commit above all that was read before.
QuietInv ==
  anomalies = {} =>
    /\ \A a \in Accounts : SnapshotWhole(a)
    /\ \A d \in Devices :
         /\ GapFree(d)
         /\ req[d].pc = "latest" => PageWhole(d)
         /\ req[d].pc = "covered" => req[d].covers <= cursor[d]
         /\ tx[d].stage # "none" => Whole(AccountOf[d], tx[d].covers, tx[d].payload)

\* A handler that publishes a nudge has seen its row commit.
NudgeInv ==
  /\ \A d \in Devices :
       /\ req[d].pc = "inserting" =>
            /\ req[d].seq <= seqGen
            /\ \A r \in inserting : r.seq = req[d].seq => r.acct = AccountOf[d]
       /\ req[d].pc = "nudging" => req[d].seq \in committed[AccountOf[d]]
  /\ \A d \in Sockets : inbox[d] \cup heard[d] \subseteq committed[AccountOf[d]]

\* What every statement of every handler relies on, for all their interleavings.
SyncInv ==
  LogInv /\ SyncTypeOK /\ CommittedKept /\ ReachInv /\ HonestClaimAccepted /\ QuietInv /\ NudgeInv

\* What makes a cursor only grow, next to SyncInv: a device told 410 is below the
\* snapshot and pulls nothing until it has read it, and a page is above the cursor.
CursorInv ==
  \A d \in Devices :
    /\ gone[d] => TooOld(CoversSeq(AccountOf[d]), cursor[d]) /\ req[d].pc \notin {"page", "latest"}
    /\ req[d].pc = "latest" => \A p \in req[d].page : cursor[d] < p

\* Where the deltas an account works with come from: its own devices, under
\* numbers that were drawn, wherever a statement has put them since.
ProvenanceInv ==
  /\ Isolated
  /\ \A d \in Devices : \A s \in merged[d] : s <= seqGen
  /\ \A r \in inserting : r.seq \in R!WrittenIn(r.acct)
  /\ \A a \in Accounts :
       /\ committed[a] \subseteq R!WrittenIn(a)
       /\ snap[a] # None => snap[a].payload \subseteq R!WrittenIn(a)
  /\ \A d \in Devices :
       tx[d].stage # "none" => tx[d].payload \subseteq R!WrittenIn(AccountOf[d])

-----------------------------------------------------------------------------
(* What the code's own comments and tests say, and the code does not do.   *)

\* deltas.rs, line 4, `seq` is a monotone catch-up cursor: rows that become
\* visible out of order do not make a device skip one.
CursorCatchesUp == anomalies \subseteq {"late"} => \A d \in Devices : GapFree(d)

\* sync_api.rs, lines 135-138: a device whose cursor the snapshot has overtaken
\* is told so, it never misses compacted rows in silence.
CompactionIsLoud == anomalies \subseteq {"torn"} => \A d \in Devices : GapFree(d)

\* sync_api.rs, lines 190-191: a snapshot that claims no more than the log does
\* not mask deltas to come.
NothingMasked ==
  \A r \in inserting : "overclaim" \notin anomalies => CoversSeq(r.acct) < r.seq
=============================================================================
