--------------------------- MODULE ContractProofs ---------------------------
(***************************************************************************)
(* What the abstract specifications give to those who rely on them, for    *)
(* any accounts, devices, numbers and tokens.  The other proof modules show*)
(* that the code implements Journal, OneShot and Replica; these theorems   *)
(* are what an implementation gets from it, and tell that none of the three*)
(* promises too little.                                                    *)
(***************************************************************************)
EXTENDS Integers, TLAPS

CONSTANTS Accounts, Devices, AccountOf, Numbers, Tokens

VARIABLES rows, floor, ever, drawn, live, spent, published, have, position, whole

J == INSTANCE Journal
O == INSTANCE OneShot
R == INSTANCE Replica

-----------------------------------------------------------------------------
(* Journal.                                                                *)

JournalTypeOK ==
  /\ rows \in [Accounts -> SUBSET Numbers]
  /\ ever \in [Accounts -> SUBSET Numbers]
  /\ floor \in [Accounts -> Nat]

\* Nothing appended is gone from the rows unless the floor stands for it, what is
\* in the rows was appended, and a number belongs to one account.
JournalInv ==
  /\ JournalTypeOK
  /\ \A a \in Accounts :
       /\ rows[a] \subseteq ever[a]
       /\ \A n \in ever[a] : n \in rows[a] \/ n <= floor[a]
  /\ \A a, b \in Accounts : a # b => ever[a] \cap ever[b] = {}

LEMMA JournalStep ==
  ASSUME Numbers \subseteq Nat, JournalInv, J!Next
  PROVE  JournalInv' /\ \A a \in Accounts : floor[a] <= floor'[a]
<1>. USE DEF JournalInv, JournalTypeOK
<1>1. ASSUME NEW a \in Accounts, NEW n \in Numbers, J!Append(a, n)
      PROVE  JournalInv' /\ \A b \in Accounts : floor[b] <= floor'[b]
  BY <1>1 DEF J!Append
<1>2. ASSUME NEW a \in Accounts, NEW n \in Numbers \cup {0}, NEW dropped \in SUBSET rows[a],
             J!Compact(a, n, dropped)
      PROVE  JournalInv' /\ \A b \in Accounts : floor[b] <= floor'[b]
  <2>1. /\ n \in Nat /\ floor[a] <= n
        /\ floor' = [floor EXCEPT ![a] = n]
        /\ rows' = [rows EXCEPT ![a] = @ \ dropped]
        /\ ever' = ever
        /\ \A k \in dropped : k <= n
    BY <1>2 DEF J!Compact
  <2>2. \A k \in ever[a] : k \in rows'[a] \/ k <= n
    BY <2>1
  <2>. QED
    BY <2>1, <2>2
<1>. QED
  BY <1>1, <1>2 DEF J!Next

\* Who appends to a journal finds every number again: in the rows, or at or below
\* a floor that never goes down.
THEOREM JournalLosesNothing ==
  ASSUME Numbers \subseteq Nat
  PROVE  J!Spec => []JournalInv /\ [][\A a \in Accounts : floor[a] <= floor'[a]]_(J!vars)
<1>1. J!Init => JournalInv
  BY DEF J!Init, JournalInv, JournalTypeOK
<1>2. JournalInv /\ [J!Next]_(J!vars) => JournalInv'
  BY JournalStep DEF J!vars, JournalInv, JournalTypeOK
<1>3. JournalInv /\ [J!Next]_(J!vars) => [\A a \in Accounts : floor[a] <= floor'[a]]_(J!vars)
  BY JournalStep
<1>. QED
  BY <1>1, <1>2, <1>3, PTL DEF J!Spec

-----------------------------------------------------------------------------
(* OneShot.                                                                *)

TokenInv == live \cup spent \subseteq drawn /\ live \cap spent = {}

\* A token that was drawn and is not live any more stays so, and has no effect it
\* did not have.
NeverBack == \A n \in drawn \ live : n \notin live' /\ (n \in spent' <=> n \in spent)

\* Who draws a token sees it take effect once at most: a token spent or lost is
\* worth nothing for ever.
THEOREM TokensNeverBack == O!Spec => []TokenInv /\ [][NeverBack]_(O!vars)
<1>1. O!Init => TokenInv
  BY DEF O!Init, TokenInv
<1>2. TokenInv /\ [O!Next]_(O!vars) => TokenInv'
  BY DEF TokenInv, O!Next, O!Draw, O!Lose, O!Spend, O!vars
<1>3. TokenInv /\ [O!Next]_(O!vars) => [NeverBack]_(O!vars)
  BY DEF TokenInv, NeverBack, O!Next, O!Draw, O!Lose, O!Spend, O!vars
<1>. QED
  BY <1>1, <1>2, <1>3, PTL DEF O!Spec

-----------------------------------------------------------------------------
(* Replica.                                                                *)

ReplicaTypeOK ==
  /\ published \in [Accounts -> SUBSET Numbers]
  /\ have \in [Devices -> SUBSET Numbers]
  /\ position \in [Devices -> Nat]
  /\ whole \in BOOLEAN

\* Published deltas were written in the account, no device has one of another
\* account, a position stands at or below a published delta and, while the
\* promise is whole, has nothing below it that its device lacks.
ReplicaInv ==
  /\ ReplicaTypeOK
  /\ \A a \in Accounts : published[a] \subseteq R!WrittenIn(a)
  /\ \A d, e \in Devices : AccountOf[d] # AccountOf[e] => have[d] \cap have[e] = {}
  /\ \A d \in Devices : position[d] = 0 \/ \E s \in published[AccountOf[d]] : position[d] <= s
  /\ whole => \A d \in Devices : \A s \in published[AccountOf[d]] : s <= position[d] => s \in have[d]

LEMMA ReplicaStep ==
  ASSUME Numbers \subseteq Nat \ {0}, AccountOf \in [Devices -> Accounts], ReplicaInv, R!Next
  PROVE  ReplicaInv' /\ \A d \in Devices : position[d] <= position'[d]
<1>. USE DEF ReplicaInv, ReplicaTypeOK
<1>0. whole' \in BOOLEAN /\ (whole' => whole)
  <2>1. whole' \in {whole, FALSE} /\ whole \in BOOLEAN
    BY DEF R!Next
  <2>2. whole' = whole \/ whole' = FALSE
    BY <2>1
  <2>. HIDE DEF ReplicaInv, ReplicaTypeOK
  <2>3. CASE whole' = whole
    BY <2>1, <2>3, Zenon
  <2>4. CASE whole' = FALSE
    BY <2>4
  <2>. QED
    BY <2>2, <2>3, <2>4, Zenon
<1>. DEFINE Goal == ReplicaInv' /\ \A d \in Devices : position[d] <= position'[d]
<1>1. ASSUME NEW d \in Devices, NEW n \in Numbers, R!Write(d, n) PROVE Goal
  <2>1. /\ have' = [have EXCEPT ![d] = @ \cup {n}]
        /\ \A e \in Devices : n \notin have[e]
        /\ UNCHANGED <<published, position>>
    BY <1>1 DEF R!Write
  <2>2. \A a \in Accounts : R!WrittenIn(a) \subseteq R!WrittenIn(a)'
    BY <2>1 DEF R!WrittenIn
  <2>. QED
    BY <1>0, <2>1, <2>2
<1>2. ASSUME NEW a \in Accounts, NEW n \in Numbers, R!Publish(a, n) PROVE Goal
  <2>1. /\ published' = [published EXCEPT ![a] = @ \cup {n}]
        /\ n \in R!WrittenIn(a)
        /\ whole' => \A s \in published[a] : s < n
        /\ UNCHANGED <<have, position>>
    BY <1>2 DEF R!Publish
  <2>2. \A b \in Accounts : R!WrittenIn(b)' = R!WrittenIn(b)
    BY <2>1 DEF R!WrittenIn
  <2>3. ASSUME NEW d \in Devices, AccountOf[d] = a, whole' PROVE position[d] < n
    BY <2>1, <2>3
  <2>. QED
    BY <1>0, <2>1, <2>2, <2>3
<1>3. ASSUME NEW d \in Devices, NEW got \in SUBSET Numbers, NEW p \in Numbers \cup {0},
             R!Deliver(d, got, p)
      PROVE  Goal
  <2>. DEFINE a == AccountOf[d]
  <2>1. /\ got \subseteq R!WrittenIn(a)
        /\ p # position[d] => position[d] < p /\ \E s \in published[a] : p <= s
        /\ whole' => \A s \in published[a] : position[d] < s /\ s <= p => s \in have[d] \cup got
        /\ have' = [have EXCEPT ![d] = @ \cup got]
        /\ position' = [position EXCEPT ![d] = p]
        /\ UNCHANGED published
    BY <1>3 DEF R!Deliver
  <2>2. \A b \in Accounts : R!WrittenIn(b) \subseteq R!WrittenIn(b)'
    BY <2>1 DEF R!WrittenIn
  <2>3. ASSUME NEW e \in Devices, AccountOf[e] # a PROVE got \cap have[e] = {}
    <3>1. \A n \in got : \E f \in Devices : AccountOf[f] = a /\ n \in have[f]
      BY <2>1 DEF R!WrittenIn
    <3>2. \A f \in Devices : AccountOf[f] = a => have[f] \cap have[e] = {}
      BY <2>3
    <3>. QED
      BY <3>1, <3>2
  <2>4. \A e, f \in Devices : AccountOf[e] # AccountOf[f] => have'[e] \cap have'[f] = {}
    BY <2>1, <2>3
  <2>5. ReplicaTypeOK' /\ position[d] <= p
    <3>1. p \in Nat /\ position[d] \in Nat
      OBVIOUS
    <3>2. position[d] <= p
      BY <2>1, <3>1
    <3>3. have' \in [Devices -> SUBSET Numbers] /\ position' \in [Devices -> Nat]
      BY <2>1, <3>1
    <3>. QED
      BY <1>0, <2>1, <3>2, <3>3
  <2>6. whole' => \A s \in published[a] : s <= p => s \in have'[d]
    BY <1>0, <2>1, <2>5
  <2>. QED
    BY <1>0, <2>1, <2>2, <2>4, <2>5, <2>6
<1>4. ASSUME UNCHANGED <<published, have, position>> PROVE Goal
  <2>1. \A b \in Accounts : R!WrittenIn(b)' = R!WrittenIn(b)
    BY <1>4 DEF R!WrittenIn
  <2>. QED
    BY <1>0, <1>4, <2>1
<1>. QED
  BY <1>1, <1>2, <1>3, <1>4 DEF R!Next

\* Who follows an account with a position misses nothing below it while the
\* promise is whole, never goes back and sees nothing of another account.
THEOREM ReplicaKeepsItsPromise ==
  ASSUME Numbers \subseteq Nat \ {0}, AccountOf \in [Devices -> Accounts]
  PROVE  R!Spec => []ReplicaInv /\ [][\A d \in Devices : position[d] <= position'[d]]_(R!vars)
<1>1. R!Init => ReplicaInv
  BY DEF R!Init, ReplicaInv, ReplicaTypeOK
<1>2. ReplicaInv /\ [R!Next]_(R!vars) => ReplicaInv'
  <2>1. ReplicaInv /\ UNCHANGED R!vars => ReplicaInv'
    BY DEF R!vars, R!WrittenIn, ReplicaInv, ReplicaTypeOK
  <2>. QED
    BY <2>1, ReplicaStep
<1>3. ReplicaInv /\ [R!Next]_(R!vars)
        => [\A d \in Devices : position[d] <= position'[d]]_(R!vars)
  BY ReplicaStep
<1>. QED
  BY <1>1, <1>2, <1>3, PTL DEF R!Spec
=============================================================================
