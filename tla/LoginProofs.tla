---------------------------- MODULE LoginProofs ----------------------------
(***************************************************************************)
(* Proofs about Login, for any usernames, number of requests, flows and    *)
(* failure limit.                                                          *)
(***************************************************************************)
EXTENDS Login, TLAPS

LEMMA IdleTyped == Idle \in Request /\ Idle.pc = "idle" /\ Idle.flow = None /\ Idle.acct = None
  BY DEF Idle, Request, Steps

LEMMA InitInv == Init => Inv
<1>. SUFFICES ASSUME Init PROVE Inv
  OBVIOUS
<1>. USE DEF Init
<1>1. TypeOK
  BY IdleTyped DEF TypeOK
<1>2. FlowInv
  BY IdleTyped DEF FlowInv, Holds
<1>3. OwnerInv
  BY IdleTyped DEF OwnerInv, At
<1>4. CounterOwned /\ SessionProved
  BY DEF CounterOwned, SessionProved
<1>. QED
  BY <1>1, <1>2, <1>3, <1>4 DEF Inv

LEMMA TypeStep ==
  ASSUME TypeOK, OwnerInv, Next
  PROVE  TypeOK'
<1>. USE IdleTyped DEF TypeOK
<1>1. ASSUME NEW u \in Usernames, NEW id \in AccountIds, Register(u, id) PROVE TypeOK'
  BY <1>1 DEF Register, InsertAccount
<1>2. ASSUME NEW u \in Usernames, CounterLapse(u) PROVE TypeOK'
  BY <1>2 DEF CounterLapse
<1>3. ASSUME NEW h \in Handlers, NEW u \in Usernames, StartUnlocked(h, u) PROVE TypeOK'
  BY <1>3 DEF StartUnlocked, Request, Steps, Idle
<1>4. ASSUME NEW h \in Handlers, StartKnown(h) PROVE TypeOK'
  BY <1>4 DEF StartKnown, AccountCredentials, Request, Steps, OwnerInv, At
<1>5. ASSUME NEW h \in Handlers, NEW f \in Flows, StartStore(h, f) PROVE TypeOK'
  <2>. DEFINE flow == [user |-> handler[h].user, acct |-> handler[h].acct]
  <2>1. handler[h].user \in Usernames /\ handler[h].acct \in {None} \cup AccountIds
    BY <1>5 DEF StartStore, Request, OwnerInv, At
  <2>2. flow \in Flow
    BY <2>1 DEF Flow
  <2>. HIDE DEF flow
  <2>3. flows' = [flows EXCEPT ![f] = flow]
    BY <1>5 DEF StartStore, flow
  <2>. QED
    BY <1>5, <2>2, <2>3 DEF StartStore, Answer
<1>6. ASSUME NEW h \in Handlers, NEW f \in Flows, NEW right \in BOOLEAN, FinishTake(h, f, right)
      PROVE  TypeOK'
  <2>. DEFINE q == [pc |-> IF right THEN "resetting" ELSE "failing",
                   user |-> flows[f].user, acct |-> flows[f].acct, flow |-> f]
  <2>1. flows[f] \in Flow
    BY <1>6 DEF FinishTake
  <2>2. q \in Request
    BY <2>1 DEF Flow, Request, Steps
  <2>. HIDE DEF q
  <2>3. handler' = [handler EXCEPT ![h] = q]
    BY <1>6 DEF FinishTake, q
  <2>4. proofs' \subseteq [flow : Flows, user : Usernames]
    BY <1>6, <2>1 DEF FinishTake, Flow
  <2>. QED
    BY <1>6, <2>2, <2>3, <2>4 DEF FinishTake, Taken
<1>7. ASSUME NEW h \in Handlers, FinishFail(h) PROVE TypeOK'
  <2>1. handler[h].user \in Usernames /\ handler[h].flow \in Flows
    BY <1>7 DEF FinishFail, Request, OwnerInv, At
  <2>2. handler' \in [Handlers -> Request]
    BY <1>7 DEF FinishFail, Move, Request, Steps
  <2>. QED
    BY <1>7, <2>1, <2>2 DEF FinishFail, Decide
<1>8. ASSUME NEW h \in Handlers, FinishExpire(h) PROVE TypeOK'
  <2>. DEFINE b == failures[handler[h].user] > 0
  <2>1. b \in BOOLEAN
    OBVIOUS
  <2>. HIDE DEF b
  <2>2. ttl' = [ttl EXCEPT ![handler[h].user] = b]
    BY <1>8 DEF FinishExpire, b
  <2>. QED
    BY <1>8, <2>1, <2>2 DEF FinishExpire, Answer
<1>9. ASSUME NEW h \in Handlers, FinishReset(h) PROVE TypeOK'
  BY <1>9 DEF FinishReset, Move, Request, Steps
<1>10. ASSUME NEW h \in Handlers, FinishMint(h) PROVE TypeOK'
  <2>1. handler[h].flow \in Flows /\ handler[h].acct \in AccountIds
    BY <1>10 DEF FinishMint, Request, OwnerInv, At
  <2>. QED
    BY <1>10, <2>1 DEF FinishMint, Decide, Answer
<1>11. ASSUME NEW h \in Handlers, CutOff(h) PROVE TypeOK'
  BY <1>11 DEF CutOff, Answer
<1>12. ASSUME NEW f \in Flows, FlowLapse(f) PROVE TypeOK'
  BY <1>12 DEF FlowLapse
<1>13. ASSUME NEW s \in sessions, SessionLapse(s) PROVE TypeOK'
  BY <1>13 DEF SessionLapse
<1>. QED
  BY <1>1, <1>2, <1>3, <1>4, <1>5, <1>6, <1>7, <1>8, <1>9, <1>10, <1>11, <1>12, <1>13 DEF Next

\* A flow is stored, then held, then decided: no step gives it back.
LEMMA FlowStep ==
  ASSUME TypeOK, OwnerInv, FlowInv, Next
  PROVE  FlowInv'
<1>. USE IdleTyped, LoginConstants DEF TypeOK, FlowInv, Holds
<1>1. ASSUME UNCHANGED <<flows, handler, used, outcomes>> PROVE FlowInv'
  BY <1>1
<1>2. ASSUME NEW h \in Handlers, NEW u \in Usernames, StartUnlocked(h, u) PROVE FlowInv'
  BY <1>2 DEF StartUnlocked, Idle
<1>3. ASSUME NEW h \in Handlers, StartKnown(h) PROVE FlowInv'
  BY <1>3 DEF StartKnown, AccountCredentials, Request
<1>4. ASSUME NEW h \in Handlers, NEW f \in Flows, StartStore(h, f) PROVE FlowInv'
  BY <1>4 DEF StartStore, Answer
<1>5. ASSUME NEW h \in Handlers, NEW f \in Flows, NEW right \in BOOLEAN, FinishTake(h, f, right)
      PROVE  FlowInv'
  BY <1>5 DEF FinishTake, Taken
<1>6. ASSUME NEW h \in Handlers, FinishFail(h) PROVE FlowInv'
  <2>1. handler[h].flow \in Flows /\ Holds(h, handler[h].flow)
    BY <1>6 DEF FinishFail, At, OwnerInv, Request
  <2>. QED
    BY <1>6, <2>1 DEF FinishFail, At, Decide, Move, Request
<1>7. ASSUME NEW h \in Handlers, FinishMint(h) PROVE FlowInv'
  <2>1. handler[h].flow \in Flows /\ Holds(h, handler[h].flow)
    BY <1>7 DEF FinishMint, At, OwnerInv, Request
  <2>. QED
    BY <1>7, <2>1 DEF FinishMint, At, Decide, Answer, Request
<1>8. ASSUME NEW h \in Handlers, FinishReset(h) PROVE FlowInv'
  BY <1>8 DEF FinishReset, At, Move, Request
<1>9. ASSUME NEW h \in Handlers, FinishExpire(h) \/ CutOff(h) PROVE FlowInv'
  BY <1>9 DEF FinishExpire, CutOff, Answer
<1>10. ASSUME NEW f \in Flows, FlowLapse(f) PROVE FlowInv'
  BY <1>10 DEF FlowLapse
<1>. QED
  BY <1>1, <1>2, <1>3, <1>4, <1>5, <1>6, <1>7, <1>8, <1>9, <1>10
  DEF Next, Register, InsertAccount, CounterLapse, SessionLapse

LEMMA OwnerStep ==
  ASSUME TypeOK, OwnerInv, Next
  PROVE  OwnerInv'
<1>. USE IdleTyped, LoginConstants DEF TypeOK, OwnerInv, At
<1>1. ASSUME UNCHANGED <<account, flows, handler, proofs>> PROVE OwnerInv'
  BY <1>1
<1>2. ASSUME NEW u \in Usernames, NEW id \in AccountIds, Register(u, id) PROVE OwnerInv'
  BY <1>2 DEF Register, InsertAccount, Flow, Request
<1>3. ASSUME NEW h \in Handlers, NEW u \in Usernames, StartUnlocked(h, u) PROVE OwnerInv'
  BY <1>3 DEF StartUnlocked, Idle
<1>4. ASSUME NEW h \in Handlers, StartKnown(h) PROVE OwnerInv'
  BY <1>4 DEF StartKnown, AccountCredentials, Request
<1>5. ASSUME NEW h \in Handlers, NEW f \in Flows, StartStore(h, f) PROVE OwnerInv'
  BY <1>5 DEF StartStore, Answer
<1>6. ASSUME NEW h \in Handlers, NEW f \in Flows, NEW right \in BOOLEAN, FinishTake(h, f, right)
      PROVE  OwnerInv'
  BY <1>6 DEF FinishTake, Taken, Flow
<1>7. ASSUME NEW h \in Handlers, FinishFail(h) \/ FinishReset(h) PROVE OwnerInv'
  BY <1>7 DEF FinishFail, FinishReset, Move, Request
<1>8. ASSUME NEW h \in Handlers, FinishExpire(h) \/ FinishMint(h) \/ CutOff(h) PROVE OwnerInv'
  BY <1>8 DEF FinishExpire, FinishMint, CutOff, Answer
<1>9. ASSUME NEW f \in Flows, FlowLapse(f) PROVE OwnerInv'
  BY <1>9 DEF FlowLapse
<1>. QED
  BY <1>1, <1>2, <1>3, <1>4, <1>5, <1>6, <1>7, <1>8, <1>9 DEF Next, CounterLapse, SessionLapse

\* The INCR that creates the key is followed by an EXPIRE of the same request.
LEMMA CounterStep ==
  ASSUME TypeOK, OwnerInv, CounterOwned, Next
  PROVE  CounterOwned'
<1>. USE DEF TypeOK, CounterOwned, At
<1>1. ASSUME UNCHANGED <<failures, ttl, cut>>,
             \A h \in Handlers : handler[h].pc = "expiring" => handler'[h] = handler[h]
      PROVE  CounterOwned'
  BY <1>1
<1>2. ASSUME NEW h \in Handlers, NEW q, handler' = [handler EXCEPT ![h] = q], ~At(h, "expiring"),
             UNCHANGED <<failures, ttl, cut>>
      PROVE  CounterOwned'
  BY <1>1, <1>2
<1>3. ASSUME NEW u \in Usernames, CounterLapse(u) PROVE CounterOwned'
  BY <1>3 DEF CounterLapse
<1>4. ASSUME NEW h \in Handlers, FinishFail(h) PROVE CounterOwned'
  BY <1>4 DEF FinishFail, Move, Request
<1>5. ASSUME NEW h \in Handlers, FinishExpire(h) PROVE CounterOwned'
  BY <1>5 DEF FinishExpire, Answer, OwnerInv, Request
<1>6. ASSUME NEW h \in Handlers, FinishReset(h) PROVE CounterOwned'
  BY <1>6 DEF FinishReset, Move, Request
<1>7. ASSUME NEW h \in Handlers, CutOff(h) PROVE CounterOwned'
  BY <1>7 DEF CutOff
<1>8. ASSUME NEW h \in Handlers,
             \/ \E u \in Usernames : StartUnlocked(h, u)
             \/ StartKnown(h)
             \/ \E f \in Flows : StartStore(h, f)
             \/ \E f \in Flows, right \in BOOLEAN : FinishTake(h, f, right)
             \/ FinishMint(h)
      PROVE  CounterOwned'
  <2>1. ~At(h, "expiring") /\ UNCHANGED <<failures, ttl, cut>>
    BY <1>8 DEF StartUnlocked, StartKnown, StartStore, FinishTake, FinishMint
  <2>2. \E q : handler' = [handler EXCEPT ![h] = q]
    BY <1>8 DEF StartUnlocked, StartKnown, StartStore, FinishTake, FinishMint, Answer
  <2>. QED
    BY <1>2, <2>1, <2>2
<1>. QED
  BY <1>1, <1>3, <1>4, <1>5, <1>6, <1>7, <1>8 DEF Next, Register, InsertAccount, FlowLapse, SessionLapse

LEMMA SessionStep ==
  ASSUME TypeOK, OwnerInv, SessionProved, Next
  PROVE  SessionProved'
<1>. USE LoginConstants DEF TypeOK, SessionProved
<1>1. ASSUME UNCHANGED account, sessions' \subseteq sessions, proofs \subseteq proofs'
      PROVE  SessionProved'
  BY <1>1
<1>2. ASSUME NEW u \in Usernames, NEW id \in AccountIds, Register(u, id) PROVE SessionProved'
  BY <1>2 DEF Register, InsertAccount
<1>3. ASSUME NEW h \in Handlers, FinishMint(h) PROVE SessionProved'
  <2>1. /\ [flow |-> handler[h].flow, user |-> handler[h].user] \in proofs
        /\ account[handler[h].user] = handler[h].acct
    BY <1>3 DEF FinishMint, OwnerInv, At
  <2>. QED
    BY <1>3, <2>1 DEF FinishMint
<1>. QED
  BY <1>1, <1>2, <1>3
  DEF Next, CounterLapse, StartUnlocked, StartKnown, StartStore, FinishTake, FinishFail,
      FinishExpire, FinishReset, CutOff, FlowLapse, SessionLapse

\* What the requests rely on between their awaits holds in every reachable state.
THEOREM Invariant == Spec => []Inv
<1>1. Inv /\ [Next]_vars => Inv'
  <2>1. ASSUME Inv, Next PROVE Inv'
    BY <2>1, TypeStep, FlowStep, OwnerStep, CounterStep, SessionStep DEF Inv
  <2>2. ASSUME Inv, UNCHANGED vars PROVE Inv'
    BY <2>2
    DEF Inv, vars, TypeOK, FlowInv, OwnerInv, CounterOwned, SessionProved, Holds, At
  <2>. QED
    BY <2>1, <2>2
<1>. QED
  BY InitInv, <1>1, PTL DEF Spec

\* However many requests finish a flow at the same time, it has one outcome.
THEOREM FlowUsedOnce == Spec => []FlowOnce
<1>1. Inv => FlowOnce
  BY DEF Inv, FlowInv, FlowOnce
<1>. QED
  BY <1>1, Invariant, PTL

\* Every session was issued for a right finalization, to the account of its username.
THEOREM SessionsProved == Spec => []SessionProved
<1>1. Inv => SessionProved
  BY DEF Inv
<1>. QED
  BY <1>1, Invariant, PTL

\* A counter without expiry is the trace of a request cut off, never of an
\* interleaving.
THEOREM CountersOwned == Spec => []CounterOwned
<1>1. Inv => CounterOwned
  BY DEF Inv
<1>. QED
  BY <1>1, Invariant, PTL

\* Every step is a step of a single-use token, or none: login_start draws a flow,
\* the outcome of login_finish spends it, anything else may lose it.
LEMMA OneShotStep ==
  ASSUME Inv, Next
  PROVE  O!Next
<1>1. ASSUME UNCHANGED <<used, outcomes>>, LiveFlows' \subseteq LiveFlows PROVE O!Next
  <2>1. PICK lost \in SUBSET LiveFlows : lost = LiveFlows \ LiveFlows'
    OBVIOUS
  <2>2. O!Lose(lost)
    BY <1>1, <2>1 DEF O!Lose, SpentFlows
  <2>. QED
    BY <2>2 DEF O!Next
<1>. USE LoginConstants DEF Inv, TypeOK, LiveFlows, SpentFlows, Holds
<1>2. ASSUME NEW h \in Handlers, NEW u \in Usernames, StartUnlocked(h, u) PROVE O!Next
  <2>1. /\ handler'[h].pc = "unlocked"
        /\ \A g \in Handlers : g # h => handler'[g] = handler[g]
        /\ UNCHANGED <<flows, used, outcomes>>
    BY <1>2 DEF StartUnlocked, Idle
  <2>. QED
    BY <1>1, <2>1
<1>3. ASSUME NEW h \in Handlers, NEW f \in Flows, StartStore(h, f) PROVE O!Next
  <2>0. /\ [user |-> handler[h].user, acct |-> handler[h].acct] \in Flow
    BY <1>3 DEF StartStore, Flow, OwnerInv, Request, At
  <2>1. /\ f \notin used /\ used' = used \cup {f} /\ outcomes' = outcomes
        /\ flows'[f] # None /\ \A e \in Flows : e # f => flows'[e] = flows[e]
        /\ \A e \in Flows : ~Holds(h, e)
        /\ handler'[h] = Idle /\ \A g \in Handlers : g # h => handler'[g] = handler[g]
    BY <1>3, <2>0 DEF StartStore, Answer, At
  <2>2. LiveFlows' = (LiveFlows \ {}) \cup {f}
    BY <2>1, IdleTyped
  <2>3. O!Draw(f, {})
    BY <2>1, <2>2 DEF O!Draw
  <2>. QED
    BY <2>3 DEF O!Next
<1>4. ASSUME NEW h \in Handlers, NEW f \in Flows, NEW right \in BOOLEAN, FinishTake(h, f, right)
      PROVE  O!Next
  <2>1. /\ flows[f] # None /\ UNCHANGED <<used, outcomes>>
        /\ \A e \in Flows : flows'[e] = None \/ flows'[e] = flows[e]
        /\ handler'[h].flow = f /\ \A g \in Handlers : g # h => handler'[g] = handler[g]
    BY <1>4 DEF FinishTake, Taken
  <2>. QED
    BY <1>1, <2>1
<1>5. ASSUME NEW h \in Handlers, FinishFail(h) \/ FinishMint(h) PROVE O!Next
  <2>1. PICK c \in Flows : c = handler[h].flow
    BY <1>5 DEF FinishFail, FinishMint, OwnerInv, At, Request
  <2>2. Holds(h, c)
    BY <1>5, <2>1 DEF FinishFail, FinishMint, At
  <2>3. flows[c] = None /\ outcomes[c] = 0 /\ \A g \in Handlers : Holds(g, c) => g = h
    BY <2>2 DEF FlowInv
  <2>4. /\ UNCHANGED <<flows, used>> /\ outcomes' = [outcomes EXCEPT ![c] = 1]
        /\ ~Holds(h, c)' /\ \A f \in Flows : Holds(h, f)' => Holds(h, f)
        /\ \A g \in Handlers : g # h => handler'[g] = handler[g]
    BY <1>5, <2>1, <2>3, IdleTyped DEF FinishFail, FinishMint, Decide, Move, Answer, Request
  <2>5. LiveFlows' = LiveFlows \ {c} /\ c \in LiveFlows
    BY <2>2, <2>3, <2>4, <2>1
  <2>6. SpentFlows' = SpentFlows \cup {c}
    BY <2>3, <2>4
  <2>7. O!Spend(c)
    BY <2>4, <2>5, <2>6 DEF O!Spend
  <2>. QED
    BY <2>5, <2>7 DEF O!Next
<1>6. ASSUME NEW h \in Handlers, FinishReset(h) PROVE O!Next
  <2>1. /\ handler'[h].flow = handler[h].flow /\ handler[h].pc = "resetting"
        /\ \A g \in Handlers : g # h => handler'[g] = handler[g]
        /\ UNCHANGED <<flows, used, outcomes>>
    BY <1>6 DEF FinishReset, At, Move, Request
  <2>. QED
    BY <1>1, <2>1
<1>7. ASSUME NEW h \in Handlers, StartKnown(h) PROVE O!Next
  <2>1. /\ handler'[h].pc = "known"
        /\ \A g \in Handlers : g # h => handler'[g] = handler[g]
        /\ UNCHANGED <<flows, used, outcomes>>
    BY <1>7 DEF StartKnown, AccountCredentials, At, Request
  <2>. QED
    BY <1>1, <2>1
<1>8. ASSUME NEW h \in Handlers, FinishExpire(h) \/ CutOff(h) PROVE O!Next
  <2>1. /\ handler'[h] = Idle
        /\ \A g \in Handlers : g # h => handler'[g] = handler[g]
        /\ UNCHANGED <<flows, used, outcomes>>
    BY <1>8 DEF FinishExpire, CutOff, Answer
  <2>. QED
    BY <1>1, <2>1, IdleTyped
<1>9. ASSUME NEW f \in Flows, FlowLapse(f) PROVE O!Next
  <2>1. UNCHANGED <<handler, used, outcomes>> /\ \A e \in Flows : flows'[e] = None \/ flows'[e] = flows[e]
    BY <1>9 DEF FlowLapse
  <2>. QED
    BY <1>1, <2>1
<1>10. ASSUME UNCHANGED <<flows, handler, used, outcomes>> PROVE O!Next
  BY <1>1, <1>10
<1>. QED
  BY <1>2, <1>3, <1>4, <1>5, <1>6, <1>7, <1>8, <1>9, <1>10
  DEF Next, Register, InsertAccount, CounterLapse, SessionLapse

\* A login flow is a single-use token, whatever interleaves, fails or expires.
THEOREM FlowImplementsOneShot == Spec => FlowIsOneShot
<1>1. Init => O!Init
  BY IdleTyped DEF Init, O!Init, LiveFlows, SpentFlows, Holds
<1>2. Inv /\ [Next]_vars => [O!Next]_(O!vars)
  <2>1. ASSUME UNCHANGED vars PROVE UNCHANGED O!vars
    BY <2>1 DEF vars, O!vars, LiveFlows, SpentFlows, Holds
  <2>. QED
    BY <2>1, OneShotStep
<1>. QED
  BY <1>1, <1>2, Invariant, PTL DEF Spec, O!Spec, FlowIsOneShot
=============================================================================
