----------------------------- MODULE RelayProofs -----------------------------
(***************************************************************************)
(* Proofs about Relay, for any boxes, accounts, blobs and requests.        *)
(***************************************************************************)
EXTENDS Relay, TLAPS

LEMMA IdleTyped ==
  /\ Idle \in Request
  /\ Idle.pc = "idle" /\ Idle.blob = None /\ Idle.known = {}
  BY DEF Idle, Request

LEMMA InitInv == Init => Inv
<1>. SUFFICES ASSUME Init PROVE Inv
  OBVIOUS
<1>. USE IdleTyped DEF Init, At
<1>1. TypeOK
  BY DEF TypeOK
<1>2. HistoryInv /\ HolderInv
  BY DEF HistoryInv, HolderInv
<1>3. HeldInv
  BY DEF HeldInv, Overwriting
<1>4. ReadsCurrent /\ KeyWithItsSalt
  BY DEF ReadsCurrent, KeyWithItsSalt
<1>. QED
  BY <1>1, <1>2, <1>3, <1>4 DEF Inv

\* What a read does to the request that makes it.
LEMMA GotStep ==
  ASSUME TypeOK, NEW h \in Handlers, NEW b \in {None} \cup Blobs, NEW s \in {None} \cup Blobs,
         Got(h, b, s)
  PROVE  /\ handler' \in [Handlers -> Request]
         /\ handler'[h].pc = "read" /\ handler'[h].blob = b /\ handler'[h].salt = s
         /\ handler'[h].place = handler[h].place /\ handler'[h].known = handler[h].known
         /\ \A g \in Handlers : g # h => handler'[g] = handler[g]
<1>. DEFINE r == [handler[h] EXCEPT !.pc = "read", !.blob = b, !.salt = s]
<1>1. handler' = [handler EXCEPT ![h] = r]
  BY DEF Got
<1>2. /\ r \in Request
      /\ r.pc = "read" /\ r.blob = b /\ r.salt = s
      /\ r.place = handler[h].place /\ r.known = handler[h].known
  BY DEF TypeOK, Request
<1>. HIDE DEF r
<1>. QED
  BY <1>1, <1>2 DEF TypeOK

LEMMA TypeStep ==
  ASSUME Inv, Next
  PROVE  TypeOK'
<1>. USE IdleTyped, RelayConstants DEF Inv, TypeOK, Places
<1>1. ASSUME NEW h \in Handlers, NEW p \in Places, Read(h, p) PROVE TypeOK'
  BY <1>1 DEF Read, Begin, Request
<1>2. ASSUME NEW h \in Handlers, NEW p \in Places, NEW b \in Blobs, Write(h, p, b) PROVE TypeOK'
  BY <1>2 DEF Write, Begin, Request
<1>3. ASSUME NEW h \in Handlers, DepositSet(h) PROVE TypeOK'
  <2>1. handler[h].blob \in Blobs
    BY <1>3 DEF DepositSet, HolderInv, At
  <2>. QED
    BY <1>3, <2>1 DEF DepositSet, Move, Request
<1>4. ASSUME NEW h \in Handlers, FetchTake(h) PROVE TypeOK'
  BY <1>4, GotStep DEF FetchTake, Emptied
<1>5. ASSUME NEW h \in Handlers, StoreUpsert(h) PROVE TypeOK'
  <2>1. handler[h].blob \in Blobs /\ handler[h].salt \in Blobs
    BY <1>5 DEF StoreUpsert, HolderInv, At
  <2>2. [wrapped |-> handler[h].blob, salt |-> handler[h].salt] \in Row
    BY <2>1 DEF Row
  <2>3. vault' \in [Accounts -> {None} \cup Row]
    BY <1>5, <2>2 DEF StoreUpsert, Upsert
  <2>. QED
    BY <1>5, <2>3 DEF StoreUpsert, Move, Request
<1>6. ASSUME NEW h \in Handlers, FetchGet(h) PROVE TypeOK'
  <2>. DEFINE row == vault[handler[h].place]
  <2>1. row = None \/ (row.wrapped \in Blobs /\ row.salt \in Blobs)
    BY <1>6 DEF FetchGet, Row
  <2>2. CASE row = None
    BY <1>6, <2>2, GotStep DEF FetchGet
  <2>3. CASE row # None
    BY <1>6, <2>1, <2>3, GotStep DEF FetchGet
  <2>. QED
    BY <2>2, <2>3
<1>7. ASSUME NEW h \in Handlers, Confirm(h) PROVE TypeOK'
  <2>1. handler[h].blob \in Blobs
    BY <1>7 DEF Confirm, HolderInv, At
  <2>. QED
    BY <1>7, <2>1 DEF Confirm, Answer
<1>8. ASSUME NEW h \in Handlers, Deliver(h) PROVE TypeOK'
  BY <1>8 DEF Deliver, Answer, Request
<1>9. ASSUME NEW h \in Handlers, Leave(h) PROVE TypeOK'
  <2>. DEFINE r == [handler[h] EXCEPT !.gone = TRUE]
  <2>1. r \in Request
    BY DEF Request
  <2>2. handler' = [handler EXCEPT ![h] = r]
    BY <1>9 DEF Leave
  <2>. HIDE DEF r
  <2>. QED
    BY <1>9, <2>1, <2>2 DEF Leave
<1>11. ASSUME NEW h \in Handlers, CutOff(h) PROVE TypeOK'
  BY <1>11 DEF CutOff, Answer
<1>10. ASSUME NEW x \in Boxes, BoxLapse(x) PROVE TypeOK'
  BY <1>10 DEF BoxLapse
<1>. QED
  BY <1>1, <1>2, <1>3, <1>4, <1>5, <1>6, <1>7, <1>8, <1>9, <1>10, <1>11
  DEF Next, Fetch, Deposit, FetchKey, Store

\* A blob is told of after it was sent, and delivered once.
LEMMA HistoryStep ==
  ASSUME Inv, Next
  PROVE  HistoryInv'
<1>. USE RelayConstants DEF Inv, TypeOK, HistoryInv, Places
<1>1. ASSUME UNCHANGED <<sentTo, told, before, delivered>> PROVE HistoryInv'
  BY <1>1
<1>2. ASSUME NEW h \in Handlers, NEW p \in Places, NEW b \in Blobs, Write(h, p, b) PROVE HistoryInv'
  BY <1>2 DEF Write
<1>3. ASSUME NEW h \in Handlers, Confirm(h) PROVE HistoryInv'
  BY <1>3 DEF Confirm, HolderInv, At
<1>4. ASSUME NEW h \in Handlers, Deliver(h) PROVE HistoryInv'
  <2>. DEFINE b == handler[h].blob
  <2>1. b # None => b \in Blobs /\ sentTo[b] # None
    BY <1>4 DEF Deliver, HolderInv, ReadsCurrent, At, Request
  <2>2. b # None /\ handler[h].place \in Boxes => delivered[b] = 0
    BY <1>4 DEF Deliver, HolderInv, At
  <2>. QED
    BY <1>4, <2>1, <2>2 DEF Deliver
<1>. QED
  BY <1>1, <1>2, <1>3, <1>4
  DEF Next, Fetch, Deposit, FetchKey, Store, Read, DepositSet, FetchTake, StoreUpsert, FetchGet,
      Leave, CutOff, BoxLapse

\* A blob has one writer, and one reader once it is out of its box.
LEMMA HolderStep ==
  ASSUME Inv, Next
  PROVE  HolderInv'
<1>. USE IdleTyped, RelayConstants DEF Inv, TypeOK, HolderInv, At
<1>1. ASSUME NEW h \in Handlers, NEW p \in Places, Read(h, p) PROVE HolderInv'
  BY <1>1 DEF Read, Begin, Request
<1>2. ASSUME NEW h \in Handlers, NEW p \in Places, NEW b \in Blobs, Write(h, p, b) PROVE HolderInv'
  <2>1. /\ b \notin told /\ delivered[b] = 0
        /\ \A g \in Handlers : handler[g].pc \in {"writing", "written", "read"} => handler[g].blob # b
        /\ \A x \in Boxes : box[x] # b
        /\ \A a \in Accounts : vault[a] # None => vault[a].wrapped # b
    BY <1>2 DEF Write, HistoryInv, HeldInv, ReadsCurrent, Places
  <2>2. /\ handler'[h].pc = "writing" /\ handler'[h].place = p /\ handler'[h].blob = b
        /\ handler'[h].salt = b /\ handler'[h].known = told
        /\ \A g \in Handlers : g # h => handler'[g] = handler[g]
        /\ sentTo' = [sentTo EXCEPT ![b] = p]
        /\ UNCHANGED <<box, vault, told, delivered>>
    BY <1>2 DEF Write, Begin
  <2>. QED
    BY <2>1, <2>2
<1>3. ASSUME NEW h \in Handlers, DepositSet(h) PROVE HolderInv'
  BY <1>3 DEF DepositSet, Move, Request
<1>4. ASSUME NEW h \in Handlers, FetchTake(h) PROVE HolderInv'
  <2>. DEFINE x == handler[h].place
  <2>1. x \in Boxes /\ box' = [box EXCEPT ![x] = None] /\ UNCHANGED <<vault, sentTo, told, delivered>>
    BY <1>4 DEF FetchTake, Emptied
  <2>2. /\ handler'[h].pc = "read" /\ handler'[h].blob = box[x] /\ handler'[h].place = x
        /\ handler'[h].known = handler[h].known
        /\ \A g \in Handlers : g # h => handler'[g] = handler[g]
    BY <1>4, <2>1, GotStep DEF FetchTake
  <2>3. box[x] # None =>
          /\ sentTo[box[x]] = x /\ delivered[box[x]] = 0
          /\ \A y \in Boxes : y # x => box[y] # box[x]
    BY <2>1 DEF HeldInv
  <2>4. \A g \in Handlers : handler[g].pc = "writing" => handler[g].blob # box[x]
    BY <2>1
  <2>5. \A g \in Handlers : handler[g].pc = "read" /\ box[x] # None => handler[g].blob # box[x]
    BY <2>1, <2>3 DEF ReadsCurrent
  <2>6. handler[h].pc = "reading" /\ (box[x] = None \/ box[x] \in Blobs)
    BY <1>4, <2>1 DEF FetchTake
  <2>. HIDE DEF x
  <2>7. \A y \in Boxes : box'[y] = None \/ (y # x /\ box'[y] = box[y])
    BY <2>1
  <2>. QED
    BY <2>1, <2>2, <2>3, <2>4, <2>5, <2>6, <2>7 DEF Places
<1>5. ASSUME NEW h \in Handlers, StoreUpsert(h) PROVE HolderInv'
  <2>1. /\ handler'[h].pc = "written" /\ handler'[h].place = handler[h].place
        /\ handler'[h].blob = handler[h].blob /\ handler'[h].salt = handler[h].salt
        /\ handler'[h].known = handler[h].known
        /\ \A g \in Handlers : g # h => handler'[g] = handler[g]
        /\ UNCHANGED <<box, sentTo, told, delivered>>
    BY <1>5 DEF StoreUpsert, Move, Request
  <2>2. handler[h].place \in Accounts
    BY <1>5 DEF StoreUpsert
  <2>3. \A a \in Accounts : vault'[a] = vault[a] \/ vault'[a].wrapped = handler[h].blob
    BY <1>5, <2>2 DEF StoreUpsert, Upsert
  <2>. QED
    BY <1>5, <2>1, <2>2, <2>3 DEF StoreUpsert
<1>6. ASSUME NEW h \in Handlers, FetchGet(h) PROVE HolderInv'
  <2>. DEFINE row == vault[handler[h].place]
  <2>1. handler[h].place \in Accounts /\ UNCHANGED <<box, vault, sentTo, told, delivered>>
    BY <1>6 DEF FetchGet
  <2>2. /\ handler'[h].pc = "read" /\ handler'[h].place = handler[h].place
        /\ handler'[h].known = handler[h].known
        /\ handler'[h].blob = IF row = None THEN None ELSE row.wrapped
        /\ \A g \in Handlers : g # h => handler'[g] = handler[g]
    BY <1>6, <2>1, GotStep DEF FetchGet, Row
  <2>3. \A g \in Handlers : handler[g].pc = "writing" => handler[g].blob # handler'[h].blob
    BY <2>1, <2>2
  <2>4. handler'[h].blob # None => sentTo[handler'[h].blob] \notin Boxes
    BY <2>1, <2>2 DEF HeldInv
  <2>. HIDE DEF row
  <2>. QED
    BY <1>6, <2>1, <2>2, <2>3, <2>4 DEF FetchGet
<1>7. ASSUME NEW h \in Handlers, Confirm(h) PROVE HolderInv'
  BY <1>7 DEF Confirm, Answer
<1>8. ASSUME NEW h \in Handlers, Deliver(h) PROVE HolderInv'
  BY <1>8 DEF Deliver, Answer, Request
<1>9. ASSUME NEW h \in Handlers, Leave(h) PROVE HolderInv'
  BY <1>9 DEF Leave, Request
<1>11. ASSUME NEW h \in Handlers, CutOff(h) PROVE HolderInv'
  BY <1>11 DEF CutOff, Answer
<1>10. ASSUME NEW x \in Boxes, BoxLapse(x) PROVE HolderInv'
  BY <1>10 DEF BoxLapse
<1>. QED
  BY <1>1, <1>2, <1>3, <1>4, <1>5, <1>6, <1>7, <1>8, <1>9, <1>10, <1>11
  DEF Next, Fetch, Deposit, FetchKey, Store, Places

\* What a place holds is not older than a write that was executed since: a write
\* that is executed late was told of to nobody, so nothing was sent after that.
LEMMA HeldStep ==
  ASSUME Inv, Next
  PROVE  HeldInv'
<1>. USE IdleTyped, RelayConstants DEF Inv, TypeOK, HeldInv, Overwriting, At
<1>1. ASSUME UNCHANGED <<vault, sentTo, before>>, Overwriting' \subseteq Overwriting,
             \A x \in Boxes : box'[x] = None \/ box'[x] = box[x],
             \A x \in Boxes : box'[x] # None => delivered'[box[x]] = delivered[box[x]]
      PROVE  HeldInv'
  BY <1>1
<1>2. ASSUME NEW h \in Handlers, NEW p \in Places, Read(h, p) PROVE HeldInv'
  <2>1. UNCHANGED <<box, vault, sentTo, before, delivered>> /\ Overwriting' \subseteq Overwriting
    BY <1>2 DEF Read, Begin
  <2>. QED
    BY <1>1, <2>1
<1>3. ASSUME NEW h \in Handlers, NEW p \in Places, NEW b \in Blobs, Write(h, p, b) PROVE HeldInv'
  <2>1. /\ Overwriting' \subseteq Overwriting /\ b \notin Overwriting
        /\ UNCHANGED <<box, vault, delivered>>
        /\ sentTo' = [sentTo EXCEPT ![b] = p]
        /\ before' = before \cup (told \X {b})
    BY <1>3 DEF Write, Begin, HistoryInv, HolderInv, ReadsCurrent, Places
  <2>2. /\ \A x \in Boxes : box[x] # b
        /\ \A a \in Accounts : vault[a] # None => vault[a].wrapped # b
    BY <1>3 DEF Write, Places
  <2>3. \A v, w : <<v, w>> \in before' /\ w # b => <<v, w>> \in before
    BY <2>1
  <2>. HIDE DEF Overwriting
  <2>. QED
    BY <2>1, <2>2, <2>3 DEF Row
<1>4. ASSUME NEW h \in Handlers, DepositSet(h) PROVE HeldInv'
  <2>. DEFINE b == handler[h].blob
              x == handler[h].place
  <2>1. /\ x \in Boxes /\ b \in Blobs /\ sentTo[b] = x /\ b \notin told /\ delivered[b] = 0
        /\ box' = [box EXCEPT ![x] = b]
        /\ UNCHANGED <<vault, sentTo, before, delivered>>
    BY <1>4 DEF DepositSet, HolderInv
  <2>2. Overwriting' \subseteq Overwriting \cup {b}
    BY <1>4 DEF DepositSet, Move, Request
  <2>3. \A w \in Blobs : <<b, w>> \notin before
    BY <2>1 DEF HistoryInv
  <2>4. Overwriting \subseteq Blobs
    OBVIOUS
  <2>. HIDE DEF b, x, Overwriting
  <2>. QED
    BY <2>1, <2>2, <2>3, <2>4
<1>5. ASSUME NEW h \in Handlers, StoreUpsert(h) PROVE HeldInv'
  <2>. DEFINE b == handler[h].blob
              a == handler[h].place
  <2>1. /\ a \in Accounts /\ b \in Blobs /\ sentTo[b] = a /\ b \notin told
        /\ vault' = [vault EXCEPT ![a] = [wrapped |-> b, salt |-> b]]
        /\ UNCHANGED <<box, sentTo, before, delivered>>
    BY <1>5 DEF StoreUpsert, Upsert, HolderInv
  <2>2. Overwriting' \subseteq Overwriting \cup {b}
    BY <1>5 DEF StoreUpsert, Move, Request
  <2>3. \A w \in Blobs : <<b, w>> \notin before
    BY <2>1 DEF HistoryInv
  <2>4. Overwriting \subseteq Blobs
    OBVIOUS
  <2>5. vault'[a] # None /\ vault'[a].wrapped = b /\ vault'[a].salt = b
    BY <2>1 DEF Row
  <2>6. \A c \in Accounts : c # a => vault'[c] = vault[c]
    BY <2>1
  <2>. HIDE DEF b, a, Overwriting
  <2>. QED
    BY <2>1, <2>2, <2>3, <2>4, <2>5, <2>6
<1>6. ASSUME NEW h \in Handlers, FetchTake(h) PROVE HeldInv'
  <2>. DEFINE x == handler[h].place
              b == box[x]
  <2>1. /\ x \in Boxes /\ box' = [box EXCEPT ![x] = None]
        /\ UNCHANGED <<vault, sentTo, before, delivered>>
    BY <1>6 DEF FetchTake, Emptied
  <2>2. Overwriting' \subseteq Overwriting \cup ({b} \ {None})
    BY <1>6, <2>1, GotStep DEF FetchTake
  <2>3. b # None => sentTo[b] = x
    BY <2>1
  <2>. HIDE DEF b, x, Overwriting
  <2>. QED
    BY <2>1, <2>2, <2>3
<1>12. ASSUME NEW h \in Handlers, FetchGet(h) PROVE HeldInv'
  <2>. DEFINE a == handler[h].place
              b == IF vault[a] = None THEN None ELSE vault[a].wrapped
  <2>1. a \in Accounts /\ UNCHANGED <<box, vault, sentTo, before, delivered>>
    BY <1>12 DEF FetchGet
  <2>2. Overwriting' \subseteq Overwriting \cup ({b} \ {None})
    BY <1>12, <2>1, GotStep DEF FetchGet, Row
  <2>3. b # None => b \in Blobs /\ sentTo[b] = a /\ vault[a] # None /\ b = vault[a].wrapped
    BY <2>1 DEF Row
  <2>4. <<b, b>> \notin before
    BY <2>3 DEF HistoryInv
  <2>. HIDE DEF b, a, Overwriting
  <2>. QED
    BY <2>1, <2>2, <2>3, <2>4
<1>7. ASSUME NEW h \in Handlers, Confirm(h) PROVE HeldInv'
  <2>1. Overwriting' \subseteq Overwriting /\ UNCHANGED <<box, vault, sentTo, before, delivered>>
    BY <1>7 DEF Confirm, Answer, HolderInv
  <2>. QED
    BY <1>1, <2>1
<1>8. ASSUME NEW h \in Handlers, Deliver(h) PROVE HeldInv'
  <2>1. Overwriting' \subseteq Overwriting /\ UNCHANGED <<box, vault, sentTo, before>>
    BY <1>8 DEF Deliver, Answer, Request
  <2>2. \A x \in Boxes : box[x] # None => delivered'[box[x]] = delivered[box[x]]
    BY <1>8 DEF Deliver, HolderInv
  <2>. QED
    BY <1>1, <2>1, <2>2
<1>9. ASSUME NEW h \in Handlers, Leave(h) \/ CutOff(h) PROVE HeldInv'
  <2>1. Overwriting' \subseteq Overwriting /\ UNCHANGED <<box, vault, sentTo, before, delivered>>
    BY <1>9 DEF Leave, CutOff, Answer, Request
  <2>. QED
    BY <1>1, <2>1
<1>10. ASSUME NEW x \in Boxes, BoxLapse(x) PROVE HeldInv'
  <2>1. Overwriting' \subseteq Overwriting /\ UNCHANGED <<vault, sentTo, before, delivered>>
    BY <1>10 DEF BoxLapse
  <2>2. \A y \in Boxes : box'[y] = None \/ box'[y] = box[y]
    BY <1>10 DEF BoxLapse
  <2>. QED
    BY <1>1, <2>1, <2>2
<1>. QED
  BY <1>2, <1>3, <1>4, <1>5, <1>6, <1>7, <1>8, <1>9, <1>10, <1>12
  DEF Next, Fetch, Deposit, FetchKey, Store, Places

\* A read takes over what its place holds; later writes are not known to it.
LEMMA ReadStep ==
  ASSUME Inv, Next
  PROVE  ReadsCurrent' /\ KeyWithItsSalt'
<1>. USE IdleTyped, RelayConstants DEF Inv, TypeOK, ReadsCurrent, KeyWithItsSalt, At
<1>1. ASSUME UNCHANGED <<sentTo, before>>,
             \A g \in Handlers : handler'[g].pc = "read" =>
               /\ handler[g].pc = "read" /\ handler'[g].place = handler[g].place
               /\ handler'[g].blob = handler[g].blob /\ handler'[g].salt = handler[g].salt
               /\ handler'[g].known = handler[g].known
      PROVE  ReadsCurrent' /\ KeyWithItsSalt'
  BY <1>1
<1>2. ASSUME NEW h \in Handlers, NEW p \in Places, Read(h, p) PROVE ReadsCurrent' /\ KeyWithItsSalt'
  BY <1>1, <1>2 DEF Read, Begin
<1>3. ASSUME NEW h \in Handlers, NEW p \in Places, NEW b \in Blobs, Write(h, p, b)
      PROVE  ReadsCurrent' /\ KeyWithItsSalt'
  <2>1. /\ handler'[h].pc = "writing"
        /\ \A g \in Handlers : g # h => handler'[g] = handler[g]
        /\ sentTo' = [sentTo EXCEPT ![b] = p]
        /\ before' = before \cup (told \X {b})
    BY <1>3 DEF Write, Begin
  <2>2. \A v, w : <<v, w>> \in before' /\ w # b => <<v, w>> \in before
    BY <2>1
  <2>3. /\ b \notin told
        /\ \A g \in Handlers : handler[g].pc = "read" => handler[g].blob # b
    BY <1>3 DEF Write, HistoryInv, HolderInv
  <2>4. \A g \in Handlers : handler'[g].pc = "read" =>
          /\ handler'[g] = handler[g] /\ handler[g].blob # b
          /\ \A w \in handler[g].known : w # b /\ sentTo'[w] = sentTo[w]
    BY <2>1, <2>3 DEF HolderInv
  <2>5. \A g \in Handlers : handler'[g].pc = "read" /\ handler[g].blob # None =>
          sentTo'[handler[g].blob] = sentTo[handler[g].blob]
    BY <2>1, <2>4 DEF Request
  <2>6. ReadsCurrent'
    BY <2>2, <2>4, <2>5
  <2>7. KeyWithItsSalt'
    BY <2>4
  <2>. QED
    BY <2>6, <2>7
<1>4. ASSUME NEW h \in Handlers, FetchTake(h) PROVE ReadsCurrent' /\ KeyWithItsSalt'
  <2>. DEFINE x == handler[h].place
  <2>1. x \in Boxes /\ UNCHANGED <<sentTo, before>>
    BY <1>4 DEF FetchTake
  <2>2. /\ handler'[h].blob = box[x] /\ handler'[h].place = x /\ handler'[h].known = handler[h].known
        /\ \A g \in Handlers : g # h => handler'[g] = handler[g]
    BY <1>4, <2>1, GotStep DEF FetchTake
  <2>3. handler[h].known \subseteq Overwriting
    BY DEF HolderInv, Overwriting
  <2>. HIDE DEF x
  <2>. QED
    BY <2>1, <2>2, <2>3 DEF HeldInv
<1>5. ASSUME NEW h \in Handlers, FetchGet(h) PROVE ReadsCurrent' /\ KeyWithItsSalt'
  <2>. DEFINE a == handler[h].place
              row == vault[a]
  <2>1. a \in Accounts /\ UNCHANGED <<sentTo, before>>
    BY <1>5 DEF FetchGet
  <2>2. /\ handler'[h].blob = IF row = None THEN None ELSE row.wrapped
        /\ handler'[h].salt = IF row = None THEN None ELSE row.salt
        /\ handler'[h].place = a /\ handler'[h].known = handler[h].known
        /\ \A g \in Handlers : g # h => handler'[g] = handler[g]
    BY <1>5, <2>1, GotStep DEF FetchGet, Row
  <2>3. handler[h].known \subseteq Overwriting
    BY DEF HolderInv, Overwriting
  <2>4. row # None => row.wrapped # None
    BY <2>1 DEF Row
  <2>. HIDE DEF a
  <2>. QED
    BY <2>1, <2>2, <2>3, <2>4 DEF HeldInv
<1>6. ASSUME NEW h \in Handlers, DepositSet(h) \/ StoreUpsert(h) PROVE ReadsCurrent' /\ KeyWithItsSalt'
  BY <1>1, <1>6 DEF DepositSet, StoreUpsert, Move, Request
<1>7. ASSUME NEW h \in Handlers, Confirm(h) \/ Deliver(h) \/ CutOff(h)
      PROVE  ReadsCurrent' /\ KeyWithItsSalt'
  BY <1>1, <1>7 DEF Confirm, Deliver, CutOff, Answer
<1>8. ASSUME NEW h \in Handlers, Leave(h) PROVE ReadsCurrent' /\ KeyWithItsSalt'
  BY <1>1, <1>8 DEF Leave, Request
<1>9. ASSUME NEW x \in Boxes, BoxLapse(x) PROVE ReadsCurrent' /\ KeyWithItsSalt'
  BY <1>1, <1>9 DEF BoxLapse
<1>. QED
  BY <1>2, <1>3, <1>4, <1>5, <1>6, <1>7, <1>8, <1>9
  DEF Next, Fetch, Deposit, FetchKey, Store, Places

\* However reads, writes, answers and lost clients interleave, what a place holds
\* and what a read carries are what the properties need.
THEOREM Invariant == Spec => []Inv
<1>1. Inv /\ [Next]_vars => Inv'
  <2>1. ASSUME Inv, Next PROVE Inv'
    BY <2>1, TypeStep, HistoryStep, HolderStep, HeldStep, ReadStep DEF Inv
  <2>2. ASSUME Inv, UNCHANGED vars PROVE Inv'
    BY <2>2 DEF Inv, vars, TypeOK, HistoryInv, HolderInv, HeldInv, Overwriting, ReadsCurrent,
                KeyWithItsSalt, At
  <2>. QED
    BY <2>1, <2>2
<1>. QED
  BY InitInv, <1>1, PTL DEF Spec

\* No read answers with what a write known when it began had replaced for good.
THEOREM ReadsAreCurrent == Spec => []ReadsCurrent
<1>1. Inv => ReadsCurrent
  BY DEF Inv
<1>. QED
  BY <1>1, Invariant, PTL

\* A wrapped key is never read with the salt of another one.
THEOREM KeysWithTheirSalt == Spec => []KeyWithItsSalt
<1>1. Inv => KeyWithItsSalt
  BY DEF Inv
<1>. QED
  BY <1>1, Invariant, PTL

\* Every step of the relay is a step of a single-use token, or none: a deposit
\* draws a blob, a fetch that is answered spends it, anything else may lose some.
LEMMA OneShotStep ==
  ASSUME Inv, Next
  PROVE  O!Next \/ UNCHANGED O!vars
<1>. USE RelayConstants DEF Inv, TypeOK, At, Places, PairingBlobs
<1>. DEFINE spent == {b \in Blobs : delivered[b] > 0}
<1>1. ASSUME PairingBlobs' = PairingBlobs, UNCHANGED delivered, LiveBlobs' \subseteq LiveBlobs
      PROVE  O!Next
  <2>1. O!Lose(LiveBlobs \ LiveBlobs')
    BY <1>1 DEF O!Lose
  <2>. QED
    BY <2>1 DEF O!Next
<1>2. ASSUME NEW h \in Handlers, NEW x \in Boxes, NEW b \in Blobs, Deposit(h, x, b) PROVE O!Next
  <2>1. /\ sentTo[b] = None /\ sentTo' = [sentTo EXCEPT ![b] = x]
        /\ UNCHANGED <<box, delivered>>
        /\ handler[h].pc = "idle"
        /\ handler'[h].pc = "writing" /\ handler'[h].blob = b
        /\ \A g \in Handlers : g # h => handler'[g] = handler[g]
    BY <1>2 DEF Deposit, Write, Begin
  <2>2. PairingBlobs' = PairingBlobs \cup {b} /\ b \notin PairingBlobs
    BY <2>1
  <2>3. LiveBlobs' = (LiveBlobs \ {}) \cup {b}
    BY <2>1, <2>2 DEF LiveBlobs
  <2>4. O!Draw(b, {})
    BY <2>1, <2>2, <2>3 DEF O!Draw
  <2>. QED
    BY <2>4 DEF O!Next
<1>3. ASSUME NEW h \in Handlers, NEW a \in Accounts, NEW b \in Blobs, Store(h, a, b) PROVE O!Next
  <2>1. /\ sentTo[b] = None /\ sentTo' = [sentTo EXCEPT ![b] = a]
        /\ UNCHANGED <<box, delivered>>
        /\ handler'[h].pc = "writing" /\ handler'[h].blob = b
        /\ \A g \in Handlers : g # h => handler'[g] = handler[g]
    BY <1>3 DEF Store, Write, Begin
  <2>2. PairingBlobs' = PairingBlobs /\ b \notin PairingBlobs
    BY <2>1
  <2>3. LiveBlobs' \subseteq LiveBlobs
    BY <2>1, <2>2 DEF LiveBlobs
  <2>. QED
    BY <1>1, <2>1, <2>2, <2>3
<1>4. ASSUME NEW h \in Handlers, DepositSet(h) PROVE O!Next
  <2>1. UNCHANGED <<sentTo, delivered>>
    BY <1>4 DEF DepositSet
  <2>2. LiveBlobs' \subseteq LiveBlobs
    BY <1>4 DEF DepositSet, Move, Request, LiveBlobs
  <2>. QED
    BY <1>1, <2>1, <2>2
<1>5. ASSUME NEW h \in Handlers, FetchTake(h) PROVE O!Next
  <2>1. UNCHANGED <<sentTo, delivered>>
    BY <1>5 DEF FetchTake
  <2>2. /\ handler[h].place \in Boxes /\ handler'[h].blob = box[handler[h].place]
        /\ \A g \in Handlers : g # h => handler'[g] = handler[g]
        /\ \A x \in Boxes : box'[x] = None \/ box'[x] = box[x]
    BY <1>5, GotStep DEF FetchTake, Emptied
  <2>3. LiveBlobs' \subseteq LiveBlobs
    BY <2>1, <2>2 DEF LiveBlobs
  <2>. QED
    BY <1>1, <2>1, <2>3
<1>6. ASSUME NEW h \in Handlers, FetchGet(h) PROVE O!Next
  <2>1. UNCHANGED <<box, sentTo, delivered>>
    BY <1>6 DEF FetchGet
  <2>2. /\ handler'[h].blob \notin PairingBlobs
        /\ \A g \in Handlers : g # h => handler'[g] = handler[g]
    BY <1>6, GotStep DEF FetchGet, HeldInv, Row
  <2>3. LiveBlobs' \subseteq LiveBlobs
    BY <2>1, <2>2 DEF LiveBlobs
  <2>. QED
    BY <1>1, <2>1, <2>3
<1>7. ASSUME NEW h \in Handlers, Deliver(h) PROVE O!Next
  <2>. DEFINE b == handler[h].blob
  <2>1. UNCHANGED <<box, sentTo>>
    BY <1>7 DEF Deliver
  <2>2. LiveBlobs' \subseteq LiveBlobs
    BY <1>7, <2>1, IdleTyped DEF Deliver, Answer, LiveBlobs
  <2>3. CASE b = None \/ handler[h].place \notin Boxes
    BY <1>1, <1>7, <2>1, <2>2, <2>3 DEF Deliver
  <2>4. CASE b # None /\ handler[h].place \in Boxes
    <3>1. /\ b \in PairingBlobs /\ delivered[b] = 0
          /\ \A x \in Boxes : box[x] # b
          /\ \A g \in Handlers : g # h => ~(handler[g].blob = b /\ handler[g].pc \in {"writing", "read"})
      BY <1>7, <2>4 DEF Deliver, HolderInv, Request
    <3>2. delivered' = [delivered EXCEPT ![b] = 1]
      BY <1>7, <2>4, <3>1 DEF Deliver
    <3>3. PICK c \in Blobs : c = b
      BY <3>1
    <3>4. spent' = spent \cup {c}
      BY <3>1, <3>2, <3>3
    <3>5. c \in LiveBlobs
      BY <1>7, <3>1, <3>3 DEF Deliver, LiveBlobs
    <3>6. LiveBlobs' = LiveBlobs \ {c}
      BY <1>7, <2>1, <3>1, <3>3, IdleTyped DEF Deliver, Answer, LiveBlobs
    <3>7. O!Spend(c)
      BY <2>1, <3>4, <3>5, <3>6 DEF O!Spend
    <3>. QED
      BY <3>5, <3>7 DEF O!Next
  <2>. QED
    BY <2>3, <2>4
<1>8. ASSUME NEW h \in Handlers,
             StoreUpsert(h) \/ Confirm(h) \/ Leave(h) \/ CutOff(h) \/ \E p \in Places : Read(h, p)
      PROVE  O!Next
  <2>1. UNCHANGED <<box, sentTo, delivered>>
    BY <1>8 DEF StoreUpsert, Confirm, Leave, CutOff, Read
  <2>2. /\ handler'[h].pc \in {"writing", "read"} =>
             handler'[h].pc = handler[h].pc /\ handler'[h].blob = handler[h].blob
        /\ \A g \in Handlers : g # h => handler'[g] = handler[g]
    BY <1>8, IdleTyped DEF StoreUpsert, Confirm, Leave, CutOff, Read, Begin, Move, Answer, Request
  <2>3. LiveBlobs' \subseteq LiveBlobs
    BY <2>1, <2>2 DEF LiveBlobs
  <2>. QED
    BY <1>1, <2>1, <2>3
<1>9. ASSUME NEW x \in Boxes, BoxLapse(x) PROVE O!Next
  <2>1. UNCHANGED <<handler, sentTo, delivered>> /\ \A y \in Boxes : box'[y] = None \/ box'[y] = box[y]
    BY <1>9 DEF BoxLapse
  <2>2. LiveBlobs' \subseteq LiveBlobs
    BY <2>1 DEF LiveBlobs
  <2>. QED
    BY <1>1, <2>1, <2>2
<1>. QED
  BY <1>2, <1>3, <1>4, <1>5, <1>6, <1>7, <1>8, <1>9 DEF Next, Fetch, FetchKey

\* A pairing blob is delivered once at most, and never comes back.
THEOREM BlobImplementsOneShot == Spec => BlobIsOneShot
<1>1. Init => O!Init
  BY RelayConstants, IdleTyped DEF Init, O!Init, PairingBlobs, LiveBlobs, Places
<1>2. Inv /\ [Next]_vars => [O!Next]_(O!vars)
  <2>1. ASSUME Inv, Next PROVE O!Next \/ UNCHANGED O!vars
    BY <2>1, OneShotStep
  <2>2. ASSUME UNCHANGED vars PROVE UNCHANGED O!vars
    BY <2>2 DEF vars, O!vars, PairingBlobs, LiveBlobs
  <2>. QED
    BY <2>1, <2>2
<1>. QED
  BY <1>1, <1>2, Invariant, PTL DEF Spec, O!Spec, BlobIsOneShot
=============================================================================
