----------------------------- MODULE DeviceAuth -----------------------------
(***************************************************************************)
(* The registry of devices (devices, devices_api) and the login by device  *)
(* key (device_auth_api): a challenge in Redis, its signature, the lookup  *)
(* of the device in Postgres, and the session.                             *)
(*                                                                         *)
(* A device is known by its public key: `id` is drawn once, when the row   *)
(* is inserted, and rows are never deleted.  Signatures are external: one  *)
(* is the nonce it was made for.                                           *)
(***************************************************************************)
EXTENDS Integers

CONSTANTS Accounts,   \* accounts
          Keys,       \* public keys of devices
          Texts,      \* names a device may be given, once trimmed and checked
          Nonces,     \* challenges the server may draw, each drawn once
          Handlers,   \* concurrent verify requests
          None        \* absence of a value

\* A name and, as history, the account that chose it.
Name == [text : Texts, by : Accounts]

ASSUME DeviceAuthConstants == None \notin Accounts \cup Keys \cup Nonces \cup Name

VARIABLES
  owner,       \* owner[k]: account of the row of key k, None when there is no row
  revoked,     \* revoked[k]: revoked_at of that row is set
  name,        \* name[k]: the name of that row, or None
  challenge,   \* challenge[k]: what Redis holds under devauth:<k>, or None
  drawnFor,    \* history: drawnFor[n], the key nonce n was drawn for, or None
  verifier,    \* verifier[h]: where request h is and what it has read
  sessions,    \* live sessions and what they were issued for
  tried,       \* history: tried[n], number of requests that took nonce n
  issued       \* history: issued[n], number of sessions issued for nonce n

vars == <<owner, revoked, name, challenge, drawnFor, verifier, sessions, tried, issued>>

\* `active`, history: the device was registered and not revoked at some moment
\* since the request began.
Request == [pc : {"idle", "signed", "found"}, key : {None} \cup Keys,
            nonce : {None} \cup Nonces, acct : {None} \cup Accounts, active : BOOLEAN]

Idle == [pc |-> "idle", key |-> None, nonce |-> None, acct |-> None, active |-> FALSE]

TypeOK ==
  /\ owner \in [Keys -> {None} \cup Accounts]
  /\ revoked \in [Keys -> BOOLEAN]
  /\ name \in [Keys -> {None} \cup Name]
  /\ challenge \in [Keys -> {None} \cup Nonces]
  /\ drawnFor \in [Nonces -> {None} \cup Keys]
  /\ verifier \in [Handlers -> Request]
  /\ sessions \subseteq [key : Keys, nonce : Nonces, acct : Accounts, active : BOOLEAN]
  /\ tried \in [Nonces -> Nat]
  /\ issued \in [Nonces -> Nat]

Init ==
  /\ owner = [k \in Keys |-> None]
  /\ revoked = [k \in Keys |-> FALSE]
  /\ name = [k \in Keys |-> None]
  /\ challenge = [k \in Keys |-> None]
  /\ drawnFor = [n \in Nonces |-> None]
  /\ verifier = [h \in Handlers |-> Idle]
  /\ sessions = {}
  /\ tried = [n \in Nonces |-> 0]
  /\ issued = [n \in Nonces |-> 0]

At(h, pc) == verifier[h].pc = pc

Answer(h) == verifier' = [verifier EXCEPT ![h] = Idle]

Active(k) == owner[k] # None /\ ~revoked[k]

-----------------------------------------------------------------------------
(* devices                                                                 *)

\* Wrong on purpose: a key is handed over to whoever registers it last.
TakeOver(a, k) == owner[k] # a \/ revoked[k]

\* The row to insert, or the WHERE of the ON CONFLICT: a key of another account
\* is left alone and answered 409.
MayRegister(a, k) == owner[k] = None \/ owner[k] = a

Called(a, t) == [text |-> t, by |-> a]

\* register: inserts the row, or renames it and lifts the revocation.
UpsertDevice(a, k, t) ==
  /\ MayRegister(a, k)
  /\ owner' = [owner EXCEPT ![k] = a]
  /\ revoked' = [revoked EXCEPT ![k] = FALSE]
  /\ name' = [name EXCEPT ![k] = Called(a, t)]

\* POST /devices
Register(a, k, t) ==
  /\ UpsertDevice(a, k, t)
  /\ verifier' = [h \in Handlers |-> IF verifier[h].key = k THEN [verifier[h] EXCEPT !.active = TRUE]
                                                          ELSE verifier[h]]
  /\ UNCHANGED <<challenge, drawnFor, sessions, tried, issued>>

\* list: what GET /devices shows, revoked devices included.
Listed(a) == {k \in Keys : owner[k] = a}

\* Wrong on purpose: the device is found by its id alone.
RenameAny(a, k, t) ==
  /\ owner[k] # None
  /\ name' = [name EXCEPT ![k] = Called(a, t)]
  /\ UNCHANGED <<owner, revoked, challenge, drawnFor, verifier, sessions, tried, issued>>

\* PATCH /devices/{id}: a device of the account, revoked or not, else 404.
Rename(a, k, t) ==
  /\ owner[k] = a
  /\ name' = [name EXCEPT ![k] = Called(a, t)]
  /\ UNCHANGED <<owner, revoked, challenge, drawnFor, verifier, sessions, tried, issued>>

\* revoke: only a row of the account, and not revoked yet.
RevokeDevice(a, k) ==
  /\ owner[k] = a
  /\ ~revoked[k]
  /\ revoked' = [revoked EXCEPT ![k] = TRUE]

\* DELETE /devices/{id}: an unknown device, or one already revoked, is answered 404.
Revoke(a, k) ==
  /\ RevokeDevice(a, k)
  /\ UNCHANGED <<owner, name, challenge, drawnFor, verifier, sessions, tried, issued>>

-----------------------------------------------------------------------------
(* device_auth_api                                                         *)

\* Wrong on purpose: one Redis key for every device.
ChallengeShared(k) == Keys

\* challenge_key
ChallengeKey(k) == {k}

\* challenge: anyone may ask; an earlier challenge of the same key is replaced.
Challenge(k, n) ==
  /\ drawnFor[n] = None
  /\ drawnFor' = [drawnFor EXCEPT ![n] = k]
  /\ challenge' = [j \in Keys |-> IF j \in ChallengeKey(k) THEN n ELSE challenge[j]]
  /\ UNCHANGED <<owner, revoked, name, verifier, sessions, tried, issued>>

\* Wrong on purpose: GET where the code has GETDEL.
Kept(k) == challenge

\* GETDEL
Taken(k) == [challenge EXCEPT ![k] = None]

Signed(k, n) == [pc |-> "signed", key |-> k, nonce |-> n, acct |-> None, active |-> Active(k)]

\* Wrong on purpose: the challenge is only taken once the signature is right.
VerifyTakeIfRight(h, k, signature) ==
  /\ At(h, "idle")
  /\ challenge[k] # None
  /\ tried' = [tried EXCEPT ![challenge[k]] = @ + 1]
  /\ IF signature = challenge[k]
     THEN challenge' = Taken(k) /\ verifier' = [verifier EXCEPT ![h] = Signed(k, signature)]
     ELSE UNCHANGED <<challenge, verifier>>
  /\ UNCHANGED <<owner, revoked, name, drawnFor, sessions, issued>>

\* verify, the challenge is taken whether or not the signature is one for it;
\* no challenge, or another signature: 401.
VerifyTake(h, k, signature) ==
  /\ At(h, "idle")
  /\ challenge[k] # None
  /\ challenge' = Taken(k)
  /\ tried' = [tried EXCEPT ![challenge[k]] = @ + 1]
  /\ verifier' = IF signature = challenge[k] THEN [verifier EXCEPT ![h] = Signed(k, signature)]
                                            ELSE verifier
  /\ UNCHANGED <<owner, revoked, name, drawnFor, sessions, issued>>

\* Wrong on purpose: the lookup ignores revoked_at.
FoundAnyway(k) == owner[k] # None

\* active_account_for_pk
Found(k) == owner[k] # None /\ ~revoked[k]

\* verify, the device is looked up; unknown or revoked: 401.
VerifyFind(h) ==
  /\ At(h, "signed")
  /\ IF Found(verifier[h].key)
     THEN verifier' = [verifier EXCEPT ![h] = [@ EXCEPT !.pc = "found", !.acct = owner[verifier[h].key]]]
     ELSE Answer(h)
  /\ UNCHANGED <<owner, revoked, name, challenge, drawnFor, sessions, tried, issued>>

\* verify, create_session, then 200.
VerifyMint(h) ==
  /\ At(h, "found")
  /\ sessions' = sessions \cup {[key |-> verifier[h].key, nonce |-> verifier[h].nonce,
                                 acct |-> verifier[h].acct, active |-> verifier[h].active]}
  /\ issued' = [issued EXCEPT ![verifier[h].nonce] = @ + 1]
  /\ Answer(h)
  /\ UNCHANGED <<owner, revoked, name, challenge, drawnFor, tried>>

\* 500, client gone, or restart of the server.
CutOff(h) ==
  /\ ~At(h, "idle")
  /\ Answer(h)
  /\ UNCHANGED <<owner, revoked, name, challenge, drawnFor, sessions, tried, issued>>

ChallengeLapse(k) ==
  /\ challenge[k] # None
  /\ challenge' = [challenge EXCEPT ![k] = None]
  /\ UNCHANGED <<owner, revoked, name, drawnFor, verifier, sessions, tried, issued>>

SessionLapse(s) ==
  /\ sessions' = sessions \ {s}
  /\ UNCHANGED <<owner, revoked, name, challenge, drawnFor, verifier, tried, issued>>

Next ==
  \/ \E k \in Keys :
       \/ \E a \in Accounts, t \in Texts : Register(a, k, t) \/ Rename(a, k, t)
       \/ \E a \in Accounts : Revoke(a, k)
       \/ \E n \in Nonces : Challenge(k, n)
       \/ \E h \in Handlers, n \in Nonces : VerifyTake(h, k, n)
       \/ ChallengeLapse(k)
  \/ \E h \in Handlers : VerifyFind(h) \/ VerifyMint(h) \/ CutOff(h)
  \/ \E s \in sessions : SessionLapse(s)

Spec == Init /\ [][Next]_vars

-----------------------------------------------------------------------------
(* Properties.                                                             *)

\* A challenge is answered once, rightly or wrongly, and is worth one session at
\* most, whatever requests answer it at the same time and whatever challenges
\* replaced it (verify, GETDEL before the signature is looked at).
ChallengeOnce == \A n \in Nonces : tried[n] <= 1 /\ issued[n] <= tried[n]

LiveNonces ==
  {n \in Nonces : \/ \E k \in Keys : challenge[k] = n
                  \/ \E h \in Handlers : verifier[h].nonce = n}

\* A challenge is a single-use token: once answered, overwritten, expired or
\* taken by a request that was refused or cut off, it is worth nothing any more
\* (verify takes it before it looks at the signature; challenge overwrites).
O == INSTANCE OneShot WITH Tokens <- Nonces,
       drawn <- {n \in Nonces : drawnFor[n] # None},
       live <- LiveNonces,
       spent <- {n \in Nonces : issued[n] > 0}
ChallengeIsOneShot == O!Spec

\* A session is on the account that registered the key, for a challenge drawn
\* for that very key: registrations by other accounts and challenges of other
\* keys in between change nothing to it.
SessionOwned ==
  \A s \in sessions : owner[s.key] = s.acct /\ drawnFor[s.nonce] = s.key

\* A request that begins once a device is revoked gets no session, unless the
\* device is registered again meanwhile.
RevokedRefused == \A s \in sessions : s.active

\* An account lists no name another account chose, even for a key both of them
\* tried to register, or rename, at the same time (devices::register, rename).
NameOwned == \A a \in Accounts : \A k \in Listed(a) : name[k] # None /\ name[k].by = a

-----------------------------------------------------------------------------
(* The inductive invariant the proofs use.                                 *)

\* A nonce is stored under its key, or held by one request, or spent.
NonceInv ==
  /\ \A k \in Keys : challenge[k] # None =>
       /\ drawnFor[challenge[k]] = k
       /\ tried[challenge[k]] = 0
       /\ \A h \in Handlers : verifier[h].nonce # challenge[k]
  /\ \A n \in Nonces : /\ tried[n] <= 1 /\ issued[n] <= tried[n]
                       /\ drawnFor[n] = None => tried[n] = 0
  /\ \A h \in Handlers : ~At(h, "idle") =>
       /\ verifier[h].key \in Keys /\ verifier[h].nonce \in Nonces
       /\ drawnFor[verifier[h].nonce] = verifier[h].key
       /\ tried[verifier[h].nonce] = 1 /\ issued[verifier[h].nonce] = 0
       /\ \A g \in Handlers : verifier[g].nonce = verifier[h].nonce => g = h
  /\ \A h \in Handlers : At(h, "idle") => verifier[h] = Idle

\* A request that is to issue a session has the owner of its key, and has seen
\* the device active.
FoundInv ==
  \A h \in Handlers :
    /\ ~At(h, "idle") /\ Active(verifier[h].key) => verifier[h].active
    /\ At(h, "found") =>
         /\ verifier[h].acct \in Accounts
         /\ owner[verifier[h].key] = verifier[h].acct
         /\ verifier[h].active

Inv == TypeOK /\ NonceInv /\ FoundInv /\ SessionOwned /\ RevokedRefused /\ NameOwned
=============================================================================
