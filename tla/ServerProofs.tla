---------------------------- MODULE ServerProofs ----------------------------
(***************************************************************************)
(* Proofs about Server, for any processes, requests, secrets, environments *)
(* and number of migrations.                                               *)
(***************************************************************************)
EXTENDS Server, TLAPS

\* A step of a request touches that request, and perhaps the manager, only.
RequestStep(r) ==
  \/ \E kind \in Kinds \ {"anonymous"} : Arrive(r, kind)
  \/ ArriveAnonymous(r) \/ ProbeAcquire(r) \/ ProbeSelect(r)
  \/ RedisShared(r) \/ RedisOpen(r) \/ RedisOpened(r) \/ RedisNotOpened(r) \/ RedisCommand(r)
  \/ Handle(r) \/ Leave(r)

\* What the requests rely on.
RequestInv == CellInv /\ OneManager /\ ProgressInv /\ ReadyMeansReached /\ RefusedMeansUnknown

LEMMA IdleTyped ==
  /\ Idle \in Request
  /\ Idle.pc = "idle" /\ Idle.kind = "stranger" /\ Idle.answer = "none"
  BY DEF Idle, Request, Kinds

LEMMA SecretTyped ==
  ASSUME NEW readable \in BOOLEAN, LoadOpaqueSetup(readable) # None
  PROVE  LoadOpaqueSetup(readable) \in Secrets /\ LoadOpaqueSetup(readable) = Configured
  BY DEF LoadOpaqueSetup, DecodeSetup, Configured

Pcs == {"idle", "acquire", "select", "redis", "opening", "command", "working", "answering", "open"}

LEMMA StepTyped ==
  ASSUME TypeOK, NEW r \in Requests, NEW pc \in Pcs, Step(r, pc)
  PROVE  req' \in [Requests -> Request]
<1>. DEFINE q == [req[r] EXCEPT !.pc = pc]
<1>1. req[r] \in Request
  BY DEF TypeOK
<1>2. q \in Request
  BY <1>1 DEF Request, Pcs
<1>3. req' = [req EXCEPT ![r] = q]
  BY DEF Step
<1>. HIDE DEF q
<1>. QED
  BY <1>2, <1>3 DEF TypeOK

LEMMA AnswerTyped ==
  ASSUME TypeOK, NEW r \in Requests, NEW status \in {"200", "400", "401", "500", "503"}, Answer(r, status)
  PROVE  req' \in [Requests -> Request]
<1>. DEFINE q == [req[r] EXCEPT !.pc = "answering", !.answer = status]
<1>1. req[r] \in Request
  BY DEF TypeOK
<1>2. q \in Request
  BY <1>1 DEF Request
<1>3. req' = [req EXCEPT ![r] = q]
  BY DEF Answer
<1>. HIDE DEF q
<1>. QED
  BY <1>2, <1>3 DEF TypeOK

LEMMA InitInv == Init => Inv
<1>. SUFFICES ASSUME Init PROVE Inv
  OBVIOUS
<1>. USE DEF Init
<1>1. TypeOK
  BY IdleTyped, ServerConstants DEF TypeOK, Off, Dependencies
<1>2. SecretInv /\ MigratorInv /\ ServesMigrated
  BY DEF SecretInv, MigratorInv, ServesMigrated, Is, Off
<1>3. CellInv /\ OneManager
  BY IdleTyped DEF CellInv, OneManager, At
<1>4. ProgressInv /\ ReadyMeansReached /\ RefusedMeansUnknown
  BY IdleTyped DEF ProgressInv, ReadyMeansReached, RefusedMeansUnknown, At
<1>. QED
  BY <1>1, <1>2, <1>3, <1>4 DEF Inv

LEMMA TypeStep ==
  ASSUME TypeOK, SecretInv, Next
  PROVE  TypeOK'
<1>. USE ServerConstants DEF TypeOK
<1>1. ASSUME NEW p \in Processes, NEW readable \in BOOLEAN, ReadConfig(p, readable) PROVE TypeOK'
  BY <1>1, SecretTyped DEF ReadConfig
<1>2. ASSUME NEW p \in Processes, MigrateLock(p) PROVE TypeOK'
  BY <1>2 DEF MigrateLock, Go
<1>3. ASSUME NEW p \in Processes, MigrateOne(p) PROVE TypeOK'
  BY <1>3 DEF MigrateOne
<1>4. ASSUME NEW p \in Processes, MigrateDone(p) PROVE TypeOK'
  BY <1>4 DEF MigrateDone, Go
<1>5. ASSUME NEW p \in Processes, Listen(p) PROVE TypeOK'
  BY <1>5 DEF Listen, Go, SecretInv, Is
<1>6. ASSUME NEW p \in Processes, AskStop(p) PROVE TypeOK'
  BY <1>6 DEF AskStop, Go
<1>7. ASSUME NEW p \in Processes, Gone(p) PROVE TypeOK'
  <2>1. req' \in [Requests -> Request]
    BY <1>7, IdleTyped DEF Gone
  <2>. QED
    BY <1>7, <2>1 DEF Gone, Off
<1>8. ASSUME NEW r \in Requests, NEW kind \in Kinds \ {"anonymous"}, Arrive(r, kind)
      PROVE  TypeOK'
  BY <1>8 DEF Arrive, Request, Seeing, processVars
<1>9. ASSUME NEW r \in Requests, ArriveAnonymous(r) PROVE TypeOK'
  BY <1>9 DEF ArriveAnonymous, Request, Kinds, processVars
<1>17. ASSUME NEW r \in Requests, ProbeAcquire(r) \/ ProbeSelect(r) PROVE TypeOK'
  BY <1>17, StepTyped, AnswerTyped DEF ProbeAcquire, ProbeSelect, processVars, Pcs
<1>10. ASSUME NEW r \in Requests, RedisShared(r) PROVE TypeOK'
  BY <1>10, StepTyped DEF RedisShared, processVars, Pcs
<1>11. ASSUME NEW r \in Requests, RedisOpen(r) PROVE TypeOK'
  BY <1>11, StepTyped DEF RedisOpen, processVars, Pcs
<1>12. ASSUME NEW r \in Requests, RedisOpened(r) PROVE TypeOK'
  BY <1>12, StepTyped DEF RedisOpened, processVars, Pcs
<1>13. ASSUME NEW r \in Requests, RedisNotOpened(r) PROVE TypeOK'
  BY <1>13, AnswerTyped DEF RedisNotOpened, RedisError, processVars
<1>14. ASSUME NEW r \in Requests, RedisCommand(r) PROVE TypeOK'
  BY <1>14, StepTyped, AnswerTyped DEF RedisCommand, Ping, Authenticate, RedisError, processVars, Pcs
<1>18. ASSUME NEW r \in Requests, Handle(r) PROVE TypeOK'
  BY <1>18, StepTyped, AnswerTyped DEF Handle, processVars, Pcs
<1>15. ASSUME NEW r \in Requests, Leave(r) PROVE TypeOK'
  BY <1>15, IdleTyped DEF Leave, processVars
<1>16. ASSUME NEW d \in Dependencies, Flip(d) PROVE TypeOK'
  <2>1. up' \subseteq Dependencies
    BY <1>16 DEF Flip
  <2>2. ASSUME NEW r \in Requests PROVE [req[r] EXCEPT !.seen = @ \cup up'] \in Request
    BY <2>1 DEF Request
  <2>. QED
    BY <1>16, <2>1, <2>2 DEF Flip, processVars
<1>. QED
  BY <1>1, <1>2, <1>3, <1>4, <1>5, <1>6, <1>7, <1>8, <1>9, <1>10, <1>11, <1>12, <1>13, <1>14,
     <1>15, <1>16, <1>17, <1>18 DEF Next, Exit, Die

\* The environment never changes, so every boot loads the same secret.
LEMMA SecretStep ==
  ASSUME TypeOK, SecretInv, Next
  PROVE  SecretInv'
<1>. USE DEF TypeOK, SecretInv, Is, Configured
<1>1. ASSUME UNCHANGED processVars PROVE SecretInv'
  BY <1>1 DEF processVars
<1>2. ASSUME NEW p \in Processes, NEW readable \in BOOLEAN, ReadConfig(p, readable) PROVE SecretInv'
  BY <1>2, SecretTyped DEF ReadConfig
<1>3. ASSUME NEW p \in Processes, MigrateLock(p) \/ MigrateOne(p) \/ MigrateDone(p) \/ AskStop(p)
      PROVE  SecretInv'
  BY <1>3 DEF MigrateLock, MigrateOne, MigrateDone, AskStop, Go
<1>4. ASSUME NEW p \in Processes, Listen(p) PROVE SecretInv'
  BY <1>4 DEF Listen, Go
<1>5. ASSUME NEW p \in Processes, Gone(p) PROVE SecretInv'
  BY <1>5 DEF Gone, Off
<1>6. ASSUME NEW r \in Requests, RequestStep(r) PROVE UNCHANGED processVars
  BY <1>6 DEF RequestStep, Arrive, ArriveAnonymous, ProbeAcquire, ProbeSelect, RedisShared, RedisOpen,
              RedisOpened, RedisNotOpened, RedisCommand, Ping, Authenticate, Handle, Leave
<1>7. ASSUME NEW d \in Dependencies, Flip(d) PROVE UNCHANGED processVars
  BY <1>7 DEF Flip
<1>. QED
  BY <1>1, <1>2, <1>3, <1>4, <1>5, <1>6, <1>7 DEF Next, Exit, Die, RequestStep

\* A process leaves the lock with a complete schema, and a schema only grows.
LEMMA SchemaStep ==
  ASSUME TypeOK, MigratorInv, ServesMigrated, Next
  PROVE  MigratorInv' /\ ServesMigrated'
<1>. USE ServerConstants DEF TypeOK, MigratorInv, ServesMigrated, Is
<1>1. ASSUME UNCHANGED processVars PROVE MigratorInv' /\ ServesMigrated'
  BY <1>1 DEF processVars
<1>2. ASSUME NEW p \in Processes, NEW readable \in BOOLEAN, ReadConfig(p, readable)
      PROVE  MigratorInv' /\ ServesMigrated'
  BY <1>2 DEF ReadConfig
<1>3. ASSUME NEW p \in Processes, MigrateLock(p) PROVE MigratorInv' /\ ServesMigrated'
  BY <1>3 DEF MigrateLock, Go
<1>4. ASSUME NEW p \in Processes, MigrateOne(p) PROVE MigratorInv' /\ ServesMigrated'
  BY <1>4 DEF MigrateOne
<1>5. ASSUME NEW p \in Processes, MigrateDone(p) PROVE MigratorInv' /\ ServesMigrated'
  BY <1>5 DEF MigrateDone, Go
<1>6. ASSUME NEW p \in Processes, Listen(p) \/ AskStop(p) PROVE MigratorInv' /\ ServesMigrated'
  BY <1>6 DEF Listen, AskStop, Go
<1>7. ASSUME NEW p \in Processes, Gone(p) PROVE MigratorInv' /\ ServesMigrated'
  BY <1>7 DEF Gone, Off
<1>8. ASSUME NEW r \in Requests, RequestStep(r) PROVE UNCHANGED processVars
  BY <1>8 DEF RequestStep, Arrive, ArriveAnonymous, ProbeAcquire, ProbeSelect, RedisShared, RedisOpen,
              RedisOpened, RedisNotOpened, RedisCommand, Ping, Authenticate, Handle, Leave
<1>9. ASSUME NEW d \in Dependencies, Flip(d) PROVE UNCHANGED processVars
  BY <1>9 DEF Flip
<1>. QED
  BY <1>1, <1>2, <1>3, <1>4, <1>5, <1>6, <1>7, <1>8, <1>9 DEF Next, Exit, Die, RequestStep

\* The cell is filled by one request at a time, and only while it is empty; a
\* probe has been through both dependencies before it says ready.
LEMMA RequestInvStep ==
  ASSUME TypeOK, RequestInv, Next
  PROVE  RequestInv'
<1>. USE IdleTyped, ServerConstants
     DEF TypeOK, RequestInv, CellInv, OneManager, ProgressInv, ReadyMeansReached,
         RefusedMeansUnknown, At
<1>1. ASSUME UNCHANGED <<req, managers, up>> PROVE RequestInv'
  BY <1>1
<1>2. ASSUME NEW p \in Processes, Listen(p) PROVE RequestInv'
  BY <1>2 DEF Listen
<1>3. ASSUME NEW p \in Processes, Gone(p) PROVE RequestInv'
  <2>1. \A r \in Requests : req'[r] = Idle \/ req'[r] = req[r]
    BY <1>3 DEF Gone
  <2>. QED
    BY <1>3, <2>1 DEF Gone
<1>4. ASSUME NEW r \in Requests, NEW kind \in Kinds \ {"anonymous"}, Arrive(r, kind)
      PROVE  RequestInv'
  BY <1>4 DEF Arrive, Seeing, processVars
<1>15. ASSUME NEW r \in Requests, ArriveAnonymous(r) PROVE RequestInv'
  BY <1>15 DEF ArriveAnonymous, processVars
<1>16. ASSUME NEW r \in Requests, ProbeAcquire(r) PROVE RequestInv'
  <2>1. CASE "postgres" \in up /\ Step(r, "select")
    BY <1>16, <2>1 DEF ProbeAcquire, Step, Request
  <2>2. CASE Answer(r, "503")
    BY <1>16, <2>2 DEF ProbeAcquire, Answer, Request
  <2>. QED
    BY <1>16, <2>1, <2>2 DEF ProbeAcquire
<1>5. ASSUME NEW r \in Requests, ProbeSelect(r) PROVE RequestInv'
  <2>1. CASE "postgres" \in up /\ Step(r, "redis")
    BY <1>5, <2>1 DEF ProbeSelect, Step, Request
  <2>2. CASE Answer(r, "503")
    BY <1>5, <2>2 DEF ProbeSelect, Answer, Request
  <2>. QED
    BY <1>5, <2>1, <2>2 DEF ProbeSelect
<1>6. ASSUME NEW r \in Requests, RedisShared(r) PROVE RequestInv'
  BY <1>6 DEF RedisShared, Step, Request
<1>7. ASSUME NEW r \in Requests, RedisOpen(r) PROVE RequestInv'
  BY <1>7 DEF RedisOpen, Step, Request
<1>8. ASSUME NEW r \in Requests, RedisOpened(r) PROVE RequestInv'
  BY <1>8 DEF RedisOpened, Step, Request
<1>9. ASSUME NEW r \in Requests, RedisNotOpened(r) PROVE RequestInv'
  BY <1>9 DEF RedisNotOpened, RedisError, Answer, Request
<1>10. ASSUME NEW r \in Requests, RedisCommand(r) PROVE RequestInv'
  <2>1. CASE "redis" \in up /\ req[r].kind \in {"stranger", "anonymous"} /\ Answer(r, "401")
    BY <1>10, <2>1 DEF RedisCommand, Ping, Authenticate, Answer, Request
  <2>2. CASE "redis" \in up /\ req[r].kind = "probe" /\ Answer(r, "200")
    <3>1. req[r].seen = Dependencies
      BY <1>10, <2>2 DEF RedisCommand, Ping, Authenticate, Request, Dependencies
    <3>. QED
      BY <1>10, <2>2, <3>1 DEF RedisCommand, Ping, Authenticate, Answer, Request
  <2>3. CASE req[r].kind = "member" /\ Step(r, "working")
    BY <1>10, <2>3 DEF RedisCommand, Ping, Authenticate, Step, Request
  <2>4. CASE Answer(r, RedisError(r))
    BY <1>10, <2>4 DEF RedisCommand, Ping, Authenticate, RedisError, Answer, Request
  <2>. QED
    BY <1>10, <2>1, <2>2, <2>3, <2>4 DEF RedisCommand, Ping, Authenticate, SessionAccount, Request, Kinds
<1>17. ASSUME NEW r \in Requests, Handle(r) PROVE RequestInv'
  <2>1. CASE \E status \in {"200", "400", "500"} : Answer(r, status)
    BY <1>17, <2>1 DEF Handle, Answer, Request
  <2>2. CASE Step(r, "open")
    BY <1>17, <2>2 DEF Handle, Step, Request
  <2>. QED
    BY <1>17, <2>1, <2>2 DEF Handle
<1>11. ASSUME NEW r \in Requests, Leave(r) PROVE RequestInv'
  BY <1>11 DEF Leave
<1>12. ASSUME NEW d \in Dependencies, Flip(d) PROVE RequestInv'
  BY <1>12 DEF Flip, Request
<1>13. ASSUME NEW p \in Processes, NEW readable \in BOOLEAN, ReadConfig(p, readable)
       PROVE  UNCHANGED <<req, managers, up>>
  BY <1>13 DEF ReadConfig
<1>14. ASSUME NEW p \in Processes, MigrateLock(p) \/ MigrateOne(p) \/ MigrateDone(p) \/ AskStop(p)
       PROVE  UNCHANGED <<req, managers, up>>
  BY <1>14 DEF MigrateLock, MigrateOne, MigrateDone, AskStop
<1>. QED
  BY <1>1, <1>2, <1>3, <1>4, <1>5, <1>6, <1>7, <1>8, <1>9, <1>10, <1>11, <1>12, <1>13, <1>14,
     <1>15, <1>16, <1>17 DEF Next, Exit, Die

\* Everything the processes and their requests rely on holds for any number of
\* them, whatever boots, stops, crashes and outages.
THEOREM Invariant == Spec => []Inv
<1>1. Inv /\ [Next]_vars => Inv'
  <2>. SUFFICES ASSUME Inv, [Next]_vars PROVE Inv'
    OBVIOUS
  <2>1. CASE Next
    BY <2>1, TypeStep, SecretStep, SchemaStep, RequestInvStep DEF Inv, RequestInv
  <2>2. CASE UNCHANGED vars
    BY <2>2 DEF vars, Inv, TypeOK, SecretInv, MigratorInv, ServesMigrated, CellInv, OneManager,
                ProgressInv, ReadyMeansReached, RefusedMeansUnknown, At, Is, Configured
  <2>. QED
    BY <2>1, <2>2
<1>. QED
  BY <1>1, InitInv, PTL DEF Spec

\* No two processes ever serve with different OPAQUE secrets.
THEOREM OneSecretEver == Spec => []OneSecret
<1>1. Inv => OneSecret
  BY DEF Inv, SecretInv, OneSecret
<1>. QED
  BY <1>1, Invariant, PTL

\* No process takes requests before the schema is complete.
THEOREM SchemaBeforeService == Spec => []ServesMigrated
<1>1. Inv => ServesMigrated
  BY DEF Inv
<1>. QED
  BY <1>1, Invariant, PTL

\* A process opens one Redis connection manager at most while it serves.
THEOREM OneManagerEach == Spec => []OneManager
<1>1. Inv => OneManager
  BY DEF Inv
<1>. QED
  BY <1>1, Invariant, PTL

\* A probe answered 200 has reached Postgres and Redis since it was asked.
THEOREM ReadinessIsFresh == Spec => []ReadyMeansReached
<1>1. Inv => ReadyMeansReached
  BY DEF Inv
<1>. QED
  BY <1>1, Invariant, PTL

\* A request with a live session is never answered 401.
THEOREM LiveSessionsKept == Spec => []RefusedMeansUnknown
<1>1. Inv => RefusedMeansUnknown
  BY DEF Inv
<1>. QED
  BY <1>1, Invariant, PTL
=============================================================================
