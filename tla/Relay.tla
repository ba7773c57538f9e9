-------------------------------- MODULE Relay --------------------------------
(***************************************************************************)
(* The two stores through which the devices of an account hand each other  *)
(* a sealed vault key: the pairing boxes in Redis (pairing_api), emptied   *)
(* by whoever fetches them, and the rows of vault_keys in Postgres         *)
(* (vault_api), one per account.                                           *)
(*                                                                         *)
(* A request is three steps: it starts, its command is executed, it is     *)
(* answered.  A command already sent outlives its client: what a client    *)
(* has given up may still be written, or be taken out of the box.          *)
(* Blobs are opaque; each write carries one of its own, and the salt that  *)
(* goes with a wrapped key is named after it.                              *)
(***************************************************************************)
EXTENDS Integers

CONSTANTS Boxes,      \* pairing_id
          Accounts,   \* accounts
          Blobs,      \* what writes carry, each sent once
          Handlers,   \* concurrent requests
          None        \* absence of a value

Places == Boxes \cup Accounts

Row == [wrapped : Blobs, salt : Blobs]

ASSUME RelayConstants == None \notin Places \cup Blobs \cup Row /\ Boxes \cap Accounts = {}

VARIABLES
  box,         \* box[x]: what Redis holds under pairing:<x>, or None
  vault,       \* vault[a]: the row of account a, or None
  handler,     \* handler[h]: where request h is and what it carries
  sentTo,      \* history: sentTo[b], the place a write of b is for, or None
  told,        \* history: blobs an answer has told of, to a write or to a read
  before,      \* history: <<v, w>>, v was told of before w was sent
  delivered    \* history: delivered[b], number of fetches answered with b

vars == <<box, vault, handler, sentTo, told, before, delivered>>

\* `salt` matters to vault_keys only.  `known`, history: what was told of when
\* the request began.
Request == [pc : {"idle", "writing", "written", "reading", "read"}, place : {None} \cup Places,
            blob : {None} \cup Blobs, salt : {None} \cup Blobs, gone : BOOLEAN,
            known : SUBSET Blobs]

Idle == [pc |-> "idle", place |-> None, blob |-> None, salt |-> None, gone |-> FALSE, known |-> {}]

TypeOK ==
  /\ box \in [Boxes -> {None} \cup Blobs]
  /\ vault \in [Accounts -> {None} \cup Row]
  /\ handler \in [Handlers -> Request]
  /\ sentTo \in [Blobs -> {None} \cup Places]
  /\ told \subseteq Blobs
  /\ before \subseteq Blobs \X Blobs
  /\ delivered \in [Blobs -> Nat]

Init ==
  /\ box = [x \in Boxes |-> None]
  /\ vault = [a \in Accounts |-> None]
  /\ handler = [h \in Handlers |-> Idle]
  /\ sentTo = [b \in Blobs |-> None]
  /\ told = {}
  /\ before = {}
  /\ delivered = [b \in Blobs |-> 0]

At(h, pc) == handler[h].pc = pc

Move(h, pc) == handler' = [handler EXCEPT ![h].pc = pc]

Answer(h) == handler' = [handler EXCEPT ![h] = Idle]

Begin(h, pc, p, b) ==
  /\ At(h, "idle")
  /\ handler' = [handler EXCEPT ![h] =
       [pc |-> pc, place |-> p, blob |-> b, salt |-> b, gone |-> FALSE, known |-> told]]

Write(h, p, b) ==
  /\ sentTo[b] = None
  /\ sentTo' = [sentTo EXCEPT ![b] = p]
  /\ before' = before \cup (told \X {b})
  /\ Begin(h, "writing", p, b)
  /\ UNCHANGED <<box, vault, told, delivered>>

Read(h, p) ==
  /\ Begin(h, "reading", p, None)
  /\ UNCHANGED <<box, vault, sentTo, told, before, delivered>>

Got(h, b, s) == handler' = [handler EXCEPT ![h] = [@ EXCEPT !.pc = "read", !.blob = b, !.salt = s]]

-----------------------------------------------------------------------------
(* pairing_api                                                             *)

\* deposit, up to its SET EX.
Deposit(h, x, b) == Write(h, x, b)

\* Wrong on purpose: SET EX NX, the first deposit stays.
DepositSetIfAbsent(h) ==
  /\ At(h, "writing")
  /\ handler[h].place \in Boxes
  /\ box' = IF box[handler[h].place] = None THEN [box EXCEPT ![handler[h].place] = handler[h].blob]
                                           ELSE box
  /\ Move(h, "written")
  /\ UNCHANGED <<vault, sentTo, told, before, delivered>>

\* deposit, SET EX: replaces what the box holds.
DepositSet(h) ==
  /\ At(h, "writing")
  /\ handler[h].place \in Boxes
  /\ box' = [box EXCEPT ![handler[h].place] = handler[h].blob]
  /\ Move(h, "written")
  /\ UNCHANGED <<vault, sentTo, told, before, delivered>>

\* fetch, up to its GETDEL: no session is asked for.
Fetch(h, x) == Read(h, x)

\* Wrong on purpose: GET where the code has GETDEL.
Kept(x) == box

\* GETDEL
Emptied(x) == [box EXCEPT ![x] = None]

\* fetch, GETDEL.
FetchTake(h) ==
  /\ At(h, "reading")
  /\ handler[h].place \in Boxes
  /\ box' = Emptied(handler[h].place)
  /\ Got(h, box[handler[h].place], None)
  /\ UNCHANGED <<vault, sentTo, told, before, delivered>>

\* PAIRING_TTL_SECS after the last deposit.
BoxLapse(x) ==
  /\ box[x] # None
  /\ box' = [box EXCEPT ![x] = None]
  /\ UNCHANGED <<vault, handler, sentTo, told, before, delivered>>

-----------------------------------------------------------------------------
(* vault_api, vault_keys                                                   *)

\* store, up to its statement.
Store(h, a, b) == Write(h, a, b)

\* Wrong on purpose: ON CONFLICT leaves the salt alone.
UpsertKeyOnly(a, b, s) ==
  [vault EXCEPT ![a] = IF @ = None THEN [wrapped |-> b, salt |-> s] ELSE [@ EXCEPT !.wrapped = b]]

\* upsert: the last to be executed stays.
Upsert(a, b, s) == [vault EXCEPT ![a] = [wrapped |-> b, salt |-> s]]

\* store, the statement.
StoreUpsert(h) ==
  /\ At(h, "writing")
  /\ handler[h].place \in Accounts
  /\ vault' = Upsert(handler[h].place, handler[h].blob, handler[h].salt)
  /\ Move(h, "written")
  /\ UNCHANGED <<box, sentTo, told, before, delivered>>

\* fetch, up to its statement.
FetchKey(h, a) == Read(h, a)

\* get, one SELECT for the key and its salt.
FetchGet(h) ==
  /\ At(h, "reading")
  /\ handler[h].place \in Accounts
  /\ LET row == vault[handler[h].place]
     IN IF row = None THEN Got(h, None, None) ELSE Got(h, row.wrapped, row.salt)
  /\ UNCHANGED <<box, vault, sentTo, told, before, delivered>>

-----------------------------------------------------------------------------
(* The end of a request.                                                   *)

\* 204
Confirm(h) ==
  /\ At(h, "written")
  /\ ~handler[h].gone
  /\ told' = told \cup {handler[h].blob}
  /\ Answer(h)
  /\ UNCHANGED <<box, vault, sentTo, before, delivered>>

\* 200 with the blob, or 404.
Deliver(h) ==
  /\ At(h, "read")
  /\ ~handler[h].gone
  /\ delivered' = IF handler[h].blob = None \/ handler[h].place \notin Boxes THEN delivered
                  ELSE [delivered EXCEPT ![handler[h].blob] = @ + 1]
  /\ told' = told \cup ({handler[h].blob} \ {None})
  /\ Answer(h)
  /\ UNCHANGED <<box, vault, sentTo, before>>

\* The client goes away; its command is on its way.
Leave(h) ==
  /\ ~At(h, "idle")
  /\ ~handler[h].gone
  /\ handler' = [handler EXCEPT ![h].gone = TRUE]
  /\ UNCHANGED <<box, vault, sentTo, told, before, delivered>>

\* 500, nobody to answer to, or restart of the server.
CutOff(h) ==
  /\ ~At(h, "idle")
  /\ Answer(h)
  /\ UNCHANGED <<box, vault, sentTo, told, before, delivered>>

Next ==
  \/ \E h \in Handlers :
       \/ \E x \in Boxes : Fetch(h, x) \/ \E b \in Blobs : Deposit(h, x, b)
       \/ \E a \in Accounts : FetchKey(h, a) \/ \E b \in Blobs : Store(h, a, b)
       \/ DepositSet(h) \/ FetchTake(h) \/ StoreUpsert(h) \/ FetchGet(h)
       \/ Confirm(h) \/ Deliver(h) \/ Leave(h) \/ CutOff(h)
  \/ \E x \in Boxes : BoxLapse(x)

Spec == Init /\ [][Next]_vars

-----------------------------------------------------------------------------
(* Properties.                                                             *)

\* A read answers with what was written to its own place, and never with
\* something that was overwritten for good: known, from the answer to its write
\* or to an earlier read, before a write was sent that was itself known when the
\* read began (deposit overwrites, upsert).  It says nothing of a write that was
\* still under way when the later one was sent: the code orders the two as they
\* are executed, and one given up and executed late puts its older key back.
ReadsCurrent ==
  \A h \in Handlers : At(h, "read") /\ handler[h].blob # None =>
    /\ sentTo[handler[h].blob] = handler[h].place
    /\ \A w \in handler[h].known :
         sentTo[w] = handler[h].place => <<handler[h].blob, w>> \notin before

\* A vault key comes with its own salt, and one that was acknowledged or
\* read is never answered 404 again: the key cannot be unwrapped with the salt of another one
\* (upsert and get are one statement each).
KeyWithItsSalt ==
  \A h \in Handlers : At(h, "read") /\ handler[h].place \in Accounts =>
    /\ handler[h].blob = handler[h].salt
    /\ handler[h].blob = None => \A w \in handler[h].known : sentTo[w] # handler[h].place

PairingBlobs == {b \in Blobs : sentTo[b] \in Boxes}

LiveBlobs ==
  {b \in PairingBlobs : \/ \E x \in Boxes : box[x] = b
                        \/ \E h \in Handlers : handler[h].blob = b /\ handler[h].pc \in {"writing", "read"}}

\* A pairing blob is a single-use token: fetches that race, deposits executed
\* late, expiries and lost answers never deliver a blob twice, nor bring back
\* one that was overwritten (fetch, GETDEL).
O == INSTANCE OneShot WITH Tokens <- Blobs, drawn <- PairingBlobs, live <- LiveBlobs,
       spent <- {b \in Blobs : delivered[b] > 0}
BlobIsOneShot == O!Spec

-----------------------------------------------------------------------------
(* The inductive invariant the proofs use.                                 *)

\* Blobs that were executed, of which an answer tells or is about to.
Overwriting ==
  told \cup {b \in Blobs : \E h \in Handlers : handler[h].pc \in {"written", "read"} /\ handler[h].blob = b}

\* What a place holds was sent to it, and before no write executed since.
HeldInv ==
  /\ \A x \in Boxes : box[x] # None =>
       /\ sentTo[box[x]] = x
       /\ delivered[box[x]] = 0
       /\ \A w \in Overwriting : sentTo[w] = x => <<box[x], w>> \notin before
  /\ \A a \in Accounts : vault[a] # None =>
       /\ sentTo[vault[a].wrapped] = a
       /\ vault[a].salt = vault[a].wrapped
       /\ \A w \in Overwriting : sentTo[w] = a => <<vault[a].wrapped, w>> \notin before
  /\ \A w \in Overwriting : sentTo[w] \in Accounts => vault[sentTo[w]] # None

\* A write has its blob to itself, and a blob read out of a box is nowhere else.
HolderInv ==
  \A h \in Handlers :
    /\ At(h, "idle") => handler[h] = Idle
    /\ ~At(h, "idle") => handler[h].place \in Places
    /\ handler[h].known \subseteq told
    /\ handler[h].pc \in {"writing", "written"} =>
         /\ handler[h].blob \in Blobs
         /\ handler[h].salt = handler[h].blob
         /\ sentTo[handler[h].blob] = handler[h].place
         /\ \A g \in Handlers : handler[g].blob = handler[h].blob /\ handler[g].pc \in {"writing", "written"}
              => g = h
    /\ At(h, "writing") =>
         /\ handler[h].blob \notin told
         /\ delivered[handler[h].blob] = 0
         /\ \A x \in Boxes : box[x] # handler[h].blob
         /\ \A a \in Accounts : vault[a] # None => vault[a].wrapped # handler[h].blob
         /\ \A g \in Handlers : At(g, "read") => handler[g].blob # handler[h].blob
    /\ At(h, "read") /\ handler[h].place \in Boxes /\ handler[h].blob # None =>
         /\ sentTo[handler[h].blob] = handler[h].place
         /\ delivered[handler[h].blob] = 0
         /\ \A x \in Boxes : box[x] # handler[h].blob
         /\ \A g \in Handlers : At(g, "read") /\ handler[g].blob = handler[h].blob => g = h

\* Nothing is known of a blob that was not sent.
HistoryInv ==
  /\ \A b \in Blobs : sentTo[b] = None => b \notin told /\ delivered[b] = 0
  /\ \A v, w \in Blobs : <<v, w>> \in before => v \in told /\ v # w /\ sentTo[w] # None
  /\ \A b \in Blobs : delivered[b] <= 1

Inv == TypeOK /\ HistoryInv /\ HolderInv /\ HeldInv /\ ReadsCurrent /\ KeyWithItsSalt
=============================================================================
