-------------------------- MODULE DeviceAuthProofs --------------------------
(***************************************************************************)
(* Proofs about DeviceAuth, for any accounts, device keys, challenges and  *)
(* number of requests.                                                     *)
(***************************************************************************)
EXTENDS DeviceAuth, TLAPS

LEMMA IdleTyped ==
  /\ Idle \in Request
  /\ Idle.pc = "idle" /\ Idle.key = None /\ Idle.nonce = None
  BY DEF Idle, Request

LEMMA InitInv == Init => Inv
<1>. SUFFICES ASSUME Init PROVE Inv
  OBVIOUS
<1>. USE IdleTyped DEF Init, At
<1>1. TypeOK
  BY DEF TypeOK
<1>2. NonceInv
  BY DEF NonceInv
<1>3. FoundInv
  BY DEF FoundInv
<1>4. SessionOwned /\ RevokedRefused /\ NameOwned
  BY DeviceAuthConstants DEF SessionOwned, RevokedRefused, NameOwned, Listed
<1>. QED
  BY <1>1, <1>2, <1>3, <1>4 DEF Inv

\* What VerifyFind leaves of the request.
LEMMA FindStep ==
  ASSUME TypeOK, NEW h \in Handlers, VerifyFind(h)
  PROVE  \/ ~Found(verifier[h].key) /\ verifier'[h] = Idle
         \/ /\ Found(verifier[h].key)
            /\ verifier'[h].pc = "found"
            /\ verifier'[h].key = verifier[h].key
            /\ verifier'[h].nonce = verifier[h].nonce
            /\ verifier'[h].acct = owner[verifier[h].key]
            /\ verifier'[h].active = verifier[h].active
<1>. DEFINE q == [verifier[h] EXCEPT !.pc = "found", !.acct = owner[verifier[h].key]]
<1>1. verifier \in [Handlers -> Request] /\ verifier[h] \in Request
  BY DEF TypeOK
<1>2. CASE Found(verifier[h].key)
  <2>1. /\ q.pc = "found" /\ q.key = verifier[h].key /\ q.nonce = verifier[h].nonce
        /\ q.acct = owner[verifier[h].key] /\ q.active = verifier[h].active
    BY <1>1 DEF Request
  <2>2. verifier' = [verifier EXCEPT ![h] = q]
    BY <1>2 DEF VerifyFind
  <2>. HIDE DEF q
  <2>3. verifier'[h] = q
    BY <1>1, <2>2
  <2>. QED
    BY <1>2, <2>1, <2>3
<1>3. CASE ~Found(verifier[h].key)
  BY <1>1, <1>3 DEF VerifyFind, Answer
<1>. QED
  BY <1>2, <1>3

LEMMA TypeStep ==
  ASSUME TypeOK, NonceInv, FoundInv, Next
  PROVE  TypeOK'
<1>. USE IdleTyped DEF TypeOK
<1>1. ASSUME NEW k \in Keys, NEW a \in Accounts, NEW t \in Texts, Register(a, k, t) PROVE TypeOK'
  <2>1. \A h \in Handlers : [verifier[h] EXCEPT !.active = TRUE] \in Request
    BY DEF Request
  <2>. QED
    BY <1>1, <2>1 DEF Register, UpsertDevice, Called, Name
<1>10. ASSUME NEW k \in Keys, NEW a \in Accounts, NEW t \in Texts, Rename(a, k, t) PROVE TypeOK'
  BY <1>10 DEF Rename, Called, Name
<1>2. ASSUME NEW k \in Keys, NEW a \in Accounts, Revoke(a, k) PROVE TypeOK'
  BY <1>2 DEF Revoke, RevokeDevice
<1>3. ASSUME NEW k \in Keys, NEW n \in Nonces, Challenge(k, n) PROVE TypeOK'
  BY <1>3 DEF Challenge
<1>4. ASSUME NEW k \in Keys, NEW h \in Handlers, NEW n \in Nonces, VerifyTake(h, k, n) PROVE TypeOK'
  <2>1. Active(k) \in BOOLEAN
    BY Zenon DEF Active
  <2>2. Signed(k, n) \in Request
    BY <2>1 DEF Request, Signed
  <2>. QED
    BY <1>4, <2>2 DEF VerifyTake, Taken
<1>5. ASSUME NEW h \in Handlers, VerifyFind(h) PROVE TypeOK'
  <2>1. Found(verifier[h].key) => owner[verifier[h].key] \in Accounts
    BY <1>5 DEF VerifyFind, NonceInv, At, Found
  <2>2. CASE Found(verifier[h].key)
    <3>. DEFINE q == [verifier[h] EXCEPT !.pc = "found", !.acct = owner[verifier[h].key]]
    <3>1. q \in Request
      BY <2>1, <2>2 DEF Request
    <3>2. verifier' = [verifier EXCEPT ![h] = q]
      BY <1>5, <2>2 DEF VerifyFind
    <3>. HIDE DEF q
    <3>. QED
      BY <1>5, <3>1, <3>2 DEF VerifyFind
  <2>3. CASE ~Found(verifier[h].key)
    BY <1>5, <2>3 DEF VerifyFind, Answer
  <2>. QED
    BY <2>2, <2>3
<1>6. ASSUME NEW h \in Handlers, VerifyMint(h) PROVE TypeOK'
  <2>. DEFINE s == [key |-> verifier[h].key, nonce |-> verifier[h].nonce,
                    acct |-> verifier[h].acct, active |-> verifier[h].active]
  <2>1. /\ verifier[h].key \in Keys /\ verifier[h].nonce \in Nonces
        /\ verifier[h].acct \in Accounts /\ verifier[h].active \in BOOLEAN
    BY <1>6 DEF VerifyMint, NonceInv, FoundInv, At, Request
  <2>2. s \in [key : Keys, nonce : Nonces, acct : Accounts, active : BOOLEAN]
    BY <2>1
  <2>. HIDE DEF s
  <2>3. sessions' = sessions \cup {s}
    BY <1>6 DEF VerifyMint, s
  <2>. QED
    BY <1>6, <2>1, <2>2, <2>3 DEF VerifyMint, Answer
<1>7. ASSUME NEW h \in Handlers, CutOff(h) PROVE TypeOK'
  BY <1>7 DEF CutOff, Answer
<1>8. ASSUME NEW k \in Keys, ChallengeLapse(k) PROVE TypeOK'
  BY <1>8 DEF ChallengeLapse
<1>9. ASSUME NEW s \in sessions, SessionLapse(s) PROVE TypeOK'
  BY <1>9 DEF SessionLapse
<1>. QED
  BY <1>1, <1>2, <1>3, <1>4, <1>5, <1>6, <1>7, <1>8, <1>9, <1>10 DEF Next

\* A nonce goes from its key in Redis to one request, and from there to one
\* session: no step gives it back.
LEMMA NonceStep ==
  ASSUME TypeOK, NonceInv, Next
  PROVE  NonceInv'
<1>. USE IdleTyped, DeviceAuthConstants DEF TypeOK, NonceInv, At
<1>1. ASSUME UNCHANGED <<challenge, drawnFor, verifier, tried, issued>> PROVE NonceInv'
  BY <1>1
<1>2. ASSUME NEW k \in Keys, NEW a \in Accounts, NEW t \in Texts, Register(a, k, t) PROVE NonceInv'
  <2>1. \A h \in Handlers : /\ verifier'[h].pc = verifier[h].pc
                            /\ verifier'[h].key = verifier[h].key
                            /\ verifier'[h].nonce = verifier[h].nonce
    BY <1>2 DEF Register, UpsertDevice, Request
  <2>2. \A h \in Handlers : verifier[h].pc = "idle" => verifier'[h] = Idle
    BY <1>2 DEF Register, UpsertDevice, Request
  <2>. QED
    BY <1>2, <2>1, <2>2 DEF Register, UpsertDevice
<1>3. ASSUME NEW k \in Keys, NEW n \in Nonces, Challenge(k, n) PROVE NonceInv'
  <2>1. /\ drawnFor[n] = None
        /\ drawnFor' = [drawnFor EXCEPT ![n] = k]
        /\ \A j \in Keys : challenge'[j] = IF j = k THEN n ELSE challenge[j]
        /\ UNCHANGED <<verifier, tried, issued>>
    BY <1>3 DEF Challenge, ChallengeKey
  <2>2. \A j \in Keys : challenge[j] # n
    BY <2>1
  <2>3. \A h \in Handlers : verifier[h].nonce # n
    BY <2>1
  <2>4. tried[n] = 0 /\ n # None
    BY <2>1
  <2>5. \A j \in Keys : challenge'[j] # None =>
          /\ drawnFor'[challenge'[j]] = j
          /\ tried'[challenge'[j]] = 0
          /\ \A h \in Handlers : verifier'[h].nonce # challenge'[j]
    BY <2>1, <2>2, <2>3, <2>4
  <2>6. \A h \in Handlers : ~At(h, "idle") => drawnFor'[verifier[h].nonce] = verifier[h].key
    BY <2>1, <2>3
  <2>7. \A m \in Nonces : drawnFor'[m] = None => drawnFor[m] = None
    BY <2>1
  <2>. QED
    BY <2>1, <2>5, <2>6, <2>7
<1>4. ASSUME NEW k \in Keys, NEW h \in Handlers, NEW n \in Nonces, VerifyTake(h, k, n) PROVE NonceInv'
  <2>1. \A j \in Keys : j # k /\ challenge[j] # None => challenge[j] # challenge[k]
    BY <1>4 DEF VerifyTake
  <2>2. /\ challenge' = [challenge EXCEPT ![k] = None]
        /\ challenge[k] # None
        /\ verifier[h] = Idle
        /\ tried' = [tried EXCEPT ![challenge[k]] = @ + 1]
        /\ UNCHANGED <<drawnFor, issued>>
    BY <1>4 DEF VerifyTake, Taken
  <2>3. CASE n = challenge[k]
    <3>1. \A g \in Handlers : g # h => verifier'[g] = verifier[g]
      BY <1>4, <2>3 DEF VerifyTake
    <3>2. verifier'[h].pc = "signed" /\ verifier'[h].key = k /\ verifier'[h].nonce = n
      BY <1>4, <2>3 DEF VerifyTake, Signed
    <3>3. drawnFor[n] = k /\ tried[n] = 0 /\ issued[n] = 0
      BY <2>2, <2>3
    <3>5. tried' = [tried EXCEPT ![n] = 1]
      BY <2>2, <2>3, <3>3
    <3>4. \A g \in Handlers : verifier[g].nonce # n
      BY <2>2, <2>3
    <3>. QED
      BY <2>1, <2>2, <2>3, <3>1, <3>2, <3>3, <3>4, <3>5
  <2>4. CASE n # challenge[k]
    <3>. DEFINE m == challenge[k]
    <3>1. m \in Nonces /\ tried[m] = 0 /\ issued[m] = 0 /\ drawnFor[m] # None
      BY <2>2
    <3>2. \A g \in Handlers : verifier[g].nonce # m
      BY <2>2
    <3>3. tried' = [tried EXCEPT ![m] = 1] /\ UNCHANGED verifier
      BY <1>4, <2>2, <2>4, <3>1 DEF VerifyTake
    <3>. HIDE DEF m
    <3>4. \A j \in Keys : j # k /\ challenge[j] # None => challenge[j] # m
      BY <2>1 DEF m
    <3>. QED
      BY <2>2, <3>1, <3>2, <3>3, <3>4
  <2>. QED
    BY <2>3, <2>4
<1>5. ASSUME NEW h \in Handlers, VerifyFind(h) PROVE NonceInv'
  <2>1. /\ verifier[h].pc = "signed"
        /\ \A g \in Handlers : g # h => verifier'[g] = verifier[g]
        /\ UNCHANGED <<challenge, drawnFor, tried, issued>>
    BY <1>5 DEF VerifyFind, Answer
  <2>2. \/ verifier'[h] = Idle
        \/ /\ verifier'[h].pc = "found"
           /\ verifier'[h].key = verifier[h].key
           /\ verifier'[h].nonce = verifier[h].nonce
    BY <1>5, FindStep
  <2>3. CASE verifier'[h] = Idle
    BY <2>1, <2>3
  <2>4. CASE verifier'[h].pc = "found" /\ verifier'[h].key = verifier[h].key
             /\ verifier'[h].nonce = verifier[h].nonce
    BY <2>1, <2>4
  <2>. QED
    BY <2>2, <2>3, <2>4
<1>6. ASSUME NEW h \in Handlers, VerifyMint(h) PROVE NonceInv'
  BY <1>6 DEF VerifyMint, Answer, Request
<1>7. ASSUME NEW h \in Handlers, CutOff(h) PROVE NonceInv'
  BY <1>7 DEF CutOff, Answer
<1>8. ASSUME NEW k \in Keys, ChallengeLapse(k) PROVE NonceInv'
  BY <1>8 DEF ChallengeLapse
<1>. QED
  BY <1>1, <1>2, <1>3, <1>4, <1>5, <1>6, <1>7, <1>8 DEF Next, Rename, Revoke, RevokeDevice, SessionLapse

\* A key never changes hands, and what a request has read of it stays true but
\* for the revocation.
LEMMA FoundStep ==
  ASSUME TypeOK, NonceInv, FoundInv, Next
  PROVE  FoundInv'
<1>. USE IdleTyped, DeviceAuthConstants DEF TypeOK, FoundInv, At, Active
<1>1. ASSUME UNCHANGED <<owner, revoked, verifier>> PROVE FoundInv'
  BY <1>1
<1>2. ASSUME NEW k \in Keys, NEW a \in Accounts, NEW t \in Texts, Register(a, k, t) PROVE FoundInv'
  BY <1>2 DEF Register, UpsertDevice, MayRegister, Request, NonceInv
<1>3. ASSUME NEW k \in Keys, NEW a \in Accounts, Revoke(a, k) PROVE FoundInv'
  BY <1>3 DEF Revoke, RevokeDevice, NonceInv
<1>4. ASSUME NEW k \in Keys, NEW h \in Handlers, NEW n \in Nonces, VerifyTake(h, k, n) PROVE FoundInv'
  <2>1. /\ \A g \in Handlers : g # h => verifier'[g] = verifier[g]
        /\ UNCHANGED <<owner, revoked>>
    BY <1>4 DEF VerifyTake
  <2>2. CASE n = challenge[k]
    <3>1. verifier'[h] = Signed(k, n)
      BY <1>4, <2>2 DEF VerifyTake
    <3>2. verifier'[h].pc = "signed" /\ verifier'[h].key = k
      BY <3>1 DEF Signed
    <3>3. verifier'[h].active = (owner[k] # None /\ ~revoked[k])
      BY <3>1 DEF Signed
    <3>4. owner[k] # None /\ ~revoked[k] => verifier'[h].active
      BY <3>3, Zenon
    <3>. QED
      BY <2>1, <3>2, <3>4
  <2>3. CASE n # challenge[k]
    BY <1>4, <2>1, <2>3 DEF VerifyTake
  <2>. QED
    BY <2>2, <2>3
<1>5. ASSUME NEW h \in Handlers, VerifyFind(h) PROVE FoundInv'
  <2>1. verifier[h].key \in Keys
    BY <1>5 DEF VerifyFind, NonceInv
  <2>2. /\ \A g \in Handlers : g # h => verifier'[g] = verifier[g]
        /\ UNCHANGED <<owner, revoked>>
    BY <1>5 DEF VerifyFind, Answer
  <2>3. CASE Found(verifier[h].key)
    <3>1. /\ verifier'[h].key = verifier[h].key
          /\ verifier'[h].acct = owner[verifier[h].key]
          /\ verifier'[h].active = verifier[h].active
      BY <1>5, <2>3, FindStep
    <3>2. verifier[h].active /\ owner[verifier[h].key] \in Accounts
      BY <1>5, <2>1, <2>3 DEF VerifyFind, Found
    <3>. QED
      BY <2>1, <2>2, <3>1, <3>2
  <2>4. CASE ~Found(verifier[h].key)
    BY <1>5, <2>2, <2>4 DEF VerifyFind, Answer
  <2>. QED
    BY <2>3, <2>4
<1>6. ASSUME NEW h \in Handlers, VerifyMint(h) \/ CutOff(h) PROVE FoundInv'
  BY <1>6 DEF VerifyMint, CutOff, Answer
<1>. QED
  BY <1>1, <1>2, <1>3, <1>4, <1>5, <1>6 DEF Next, Rename, Challenge, ChallengeLapse, SessionLapse

LEMMA SessionStep ==
  ASSUME Inv, Next
  PROVE  SessionOwned' /\ RevokedRefused'
<1>. USE DeviceAuthConstants DEF Inv, TypeOK, SessionOwned, RevokedRefused
<1>1. ASSUME UNCHANGED <<owner, drawnFor>>, sessions' \subseteq sessions
      PROVE  SessionOwned' /\ RevokedRefused'
  BY <1>1
<1>2. ASSUME NEW k \in Keys, NEW a \in Accounts, NEW t \in Texts, Register(a, k, t)
      PROVE  SessionOwned' /\ RevokedRefused'
  BY <1>2 DEF Register, UpsertDevice, MayRegister
<1>3. ASSUME NEW k \in Keys, NEW n \in Nonces, Challenge(k, n)
      PROVE  SessionOwned' /\ RevokedRefused'
  BY <1>3 DEF Challenge
<1>4. ASSUME NEW h \in Handlers, VerifyMint(h)
      PROVE  SessionOwned' /\ RevokedRefused'
  <2>1. /\ owner[verifier[h].key] = verifier[h].acct
        /\ verifier[h].active
        /\ drawnFor[verifier[h].nonce] = verifier[h].key
    BY <1>4 DEF VerifyMint, FoundInv, NonceInv, At
  <2>. QED
    BY <1>4, <2>1 DEF VerifyMint
<1>. QED
  BY <1>1, <1>2, <1>3, <1>4
  DEF Next, Rename, Revoke, RevokeDevice, VerifyTake, VerifyFind, CutOff, ChallengeLapse, SessionLapse

LEMMA NameStep ==
  ASSUME Inv, Next
  PROVE  NameOwned'
<1>. USE DeviceAuthConstants DEF Inv, TypeOK, NameOwned, Listed
<1>1. ASSUME UNCHANGED <<owner, name>> PROVE NameOwned'
  BY <1>1
<1>2. ASSUME NEW k \in Keys, NEW a \in Accounts, NEW t \in Texts, Register(a, k, t) \/ Rename(a, k, t)
      PROVE  NameOwned'
  <2>1. /\ owner' = [owner EXCEPT ![k] = a]
        /\ name' = [name EXCEPT ![k] = Called(a, t)]
    BY <1>2 DEF Register, UpsertDevice, Rename
  <2>2. Called(a, t) # None /\ Called(a, t).by = a
    BY DEF Called, Name
  <2>. QED
    BY <2>1, <2>2
<1>. QED
  BY <1>1, <1>2
  DEF Next, Revoke, RevokeDevice, Challenge, VerifyTake, VerifyFind, VerifyMint, CutOff,
      ChallengeLapse, SessionLapse

\* Whatever requests, challenges, registrations, revocations and restarts
\* interleave, what a verify relies on between its steps stays true.
THEOREM Invariant == Spec => []Inv
<1>1. Init => Inv
  BY InitInv
<1>2. Inv /\ [Next]_vars => Inv'
  <2>1. ASSUME Inv, Next PROVE Inv'
    BY <2>1, TypeStep, NonceStep, FoundStep, SessionStep, NameStep DEF Inv
  <2>2. ASSUME Inv, UNCHANGED vars PROVE Inv'
    BY <2>2 DEF Inv, vars, TypeOK, NonceInv, FoundInv, SessionOwned, RevokedRefused,
                   NameOwned, Listed, At, Active
  <2>. QED
    BY <2>1, <2>2
<1>. QED
  BY <1>1, <1>2, PTL DEF Spec

\* A challenge is worth one session at most (device_auth_api::verify, GETDEL).
THEOREM ChallengeUsedOnce == Spec => []ChallengeOnce
<1>1. Inv => ChallengeOnce
  BY DEF Inv, TypeOK, NonceInv, ChallengeOnce
<1>. QED
  BY <1>1, Invariant, PTL

\* A session is on the account that owns the key that was challenged
\* (devices::register, active_account_for_pk).
THEOREM SessionsOwned == Spec => []SessionOwned
<1>1. Inv => SessionOwned
  BY DEF Inv
<1>. QED
  BY <1>1, Invariant, PTL

\* A device revoked before its request began, and not registered again since,
\* gets no session (active_account_for_pk).
THEOREM RevokedGetNothing == Spec => []RevokedRefused
<1>1. Inv => RevokedRefused
  BY DEF Inv
<1>. QED
  BY <1>1, Invariant, PTL

\* An account lists no name another account chose (devices::rename, register).
THEOREM NamesOwned == Spec => []NameOwned
<1>1. Inv => NameOwned
  BY DEF Inv
<1>. QED
  BY <1>1, Invariant, PTL

\* Every step is a step of a single-use token, or none: challenge draws one and
\* may push another out, the session spends it, anything else may lose it.
LEMMA OneShotStep ==
  ASSUME Inv, Next
  PROVE  O!Next
<1>1. ASSUME UNCHANGED <<drawnFor, issued>>, LiveNonces' \subseteq LiveNonces PROVE O!Next
  <2>1. PICK lost \in SUBSET LiveNonces : lost = LiveNonces \ LiveNonces'
    OBVIOUS
  <2>2. O!Lose(lost)
    BY <1>1, <2>1 DEF O!Lose
  <2>. QED
    BY <2>2 DEF O!Next
<1>. USE DeviceAuthConstants, IdleTyped DEF Inv, TypeOK, NonceInv, At
<1>2. ASSUME NEW k \in Keys, NEW n \in Nonces, Challenge(k, n) PROVE O!Next
  <2>1. /\ drawnFor[n] = None /\ drawnFor' = [drawnFor EXCEPT ![n] = k]
        /\ challenge' = [challenge EXCEPT ![k] = n]
        /\ UNCHANGED <<verifier, issued>>
    BY <1>2 DEF Challenge, ChallengeKey
  <2>2. PICK lost \in SUBSET LiveNonces : lost = LiveNonces \ LiveNonces'
    OBVIOUS
  <2>3. LiveNonces' \subseteq LiveNonces \cup {n} /\ n \in LiveNonces'
    BY <2>1 DEF LiveNonces
  <2>4. O!Draw(n, lost)
    BY <2>1, <2>2, <2>3 DEF O!Draw
  <2>. QED
    BY <2>2, <2>4 DEF O!Next
<1>3. ASSUME NEW k \in Keys, NEW h \in Handlers, NEW n \in Nonces, VerifyTake(h, k, n) PROVE O!Next
  <2>1. /\ UNCHANGED <<drawnFor, issued>>
        /\ \A j \in Keys : challenge'[j] = None \/ challenge'[j] = challenge[j]
        /\ \A g \in Handlers : g # h => verifier'[g] = verifier[g]
    BY <1>3 DEF VerifyTake, Taken
  <2>2. verifier'[h].nonce = verifier[h].nonce \/ verifier'[h].nonce = challenge[k]
    BY <1>3 DEF VerifyTake, Signed
  <2>3. LiveNonces' \subseteq LiveNonces
    BY <2>1, <2>2 DEF LiveNonces
  <2>. QED
    BY <1>1, <2>1, <2>3
<1>4. ASSUME NEW h \in Handlers, VerifyFind(h) \/ CutOff(h) PROVE O!Next
  <2>1. /\ UNCHANGED <<challenge, drawnFor, issued>>
        /\ \A g \in Handlers : g # h => verifier'[g] = verifier[g]
    BY <1>4 DEF VerifyFind, CutOff, Answer
  <2>2. verifier'[h].nonce \in {None, verifier[h].nonce}
    BY <1>4, FindStep DEF CutOff, Answer
  <2>3. LiveNonces' \subseteq LiveNonces
    BY <2>1, <2>2 DEF LiveNonces
  <2>. QED
    BY <1>1, <2>1, <2>3
<1>5. ASSUME NEW h \in Handlers, VerifyMint(h) PROVE O!Next
  <2>1. PICK n \in Nonces : n = verifier[h].nonce
    BY <1>5 DEF VerifyMint
  <2>2. /\ UNCHANGED <<challenge, drawnFor>>
        /\ issued' = [issued EXCEPT ![n] = @ + 1]
        /\ verifier'[h] = Idle
        /\ \A g \in Handlers : g # h => verifier'[g] = verifier[g]
    BY <1>5, <2>1 DEF VerifyMint, Answer
  <2>3. /\ issued[n] = 0
        /\ \A k \in Keys : challenge[k] # n
        /\ \A g \in Handlers : g # h => verifier[g].nonce # n
    BY <1>5, <2>1 DEF VerifyMint
  <2>4. n \in LiveNonces /\ LiveNonces' = LiveNonces \ {n}
    BY <2>1, <2>2, <2>3 DEF LiveNonces
  <2>5. {m \in Nonces : issued'[m] > 0} = {m \in Nonces : issued[m] > 0} \cup {n}
    BY <2>2, <2>3
  <2>6. O!Spend(n)
    BY <2>2, <2>4, <2>5 DEF O!Spend
  <2>. QED
    BY <2>4, <2>6 DEF O!Next
<1>6. ASSUME NEW k \in Keys, NEW a \in Accounts, NEW t \in Texts, Register(a, k, t) PROVE O!Next
  <2>1. /\ UNCHANGED <<challenge, drawnFor, issued>>
        /\ \A g \in Handlers : verifier'[g].nonce = verifier[g].nonce
    BY <1>6 DEF Register, UpsertDevice, Request
  <2>2. LiveNonces' \subseteq LiveNonces
    BY <2>1 DEF LiveNonces
  <2>. QED
    BY <1>1, <2>1, <2>2
<1>7. ASSUME NEW k \in Keys, ChallengeLapse(k) PROVE O!Next
  <2>1. /\ UNCHANGED <<verifier, drawnFor, issued>>
        /\ \A j \in Keys : challenge'[j] = None \/ challenge'[j] = challenge[j]
    BY <1>7 DEF ChallengeLapse
  <2>2. LiveNonces' \subseteq LiveNonces
    BY <2>1 DEF LiveNonces
  <2>. QED
    BY <1>1, <2>1, <2>2
<1>8. ASSUME UNCHANGED <<challenge, verifier, drawnFor, issued>> PROVE O!Next
  BY <1>1, <1>8 DEF LiveNonces
<1>. QED
  BY <1>2, <1>3, <1>4, <1>5, <1>6, <1>7, <1>8 DEF Next, Rename, Revoke, RevokeDevice, SessionLapse

\* A challenge is a single-use token, whatever answers, replaces or outlives it.
THEOREM ChallengeImplementsOneShot == Spec => ChallengeIsOneShot
<1>1. Init => O!Init
  BY DeviceAuthConstants, IdleTyped DEF Init, O!Init, LiveNonces, Idle
<1>2. Inv /\ [Next]_vars => [O!Next]_(O!vars)
  <2>1. ASSUME UNCHANGED vars PROVE UNCHANGED O!vars
    BY <2>1 DEF vars, O!vars, LiveNonces
  <2>. QED
    BY <2>1, OneShotStep
<1>. QED
  BY <1>1, <1>2, Invariant, PTL DEF Spec, O!Spec, ChallengeIsOneShot
=============================================================================
