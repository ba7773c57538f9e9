------------------------------- MODULE Nudge -------------------------------
(***************************************************************************)
(* Real-time wake-up (sync_ws): one WebSocket handler per connected        *)
(* device, subscribed to the Redis channel of its account.  A nudge only   *)
(* carries the number of a new delta.  Redis pub/sub is fire-and-forget:   *)
(* any subscriber may miss any message.                                    *)
(***************************************************************************)
CONSTANTS Devices,     \* devices that may open a WebSocket
          AccountOf,   \* AccountOf[d]: the account of the session of device d
          Numbers      \* what a nudge may carry

VARIABLES ws,      \* ws[d]: the handler of d: "closed", "opening", "open"
          inbox,   \* inbox[d]: published to the subscription of d, not yet sent
          heard    \* heard[d]: nudges device d received

nudgeVars == <<ws, inbox, heard>>

NudgeTypeOK ==
  /\ ws \in [Devices -> {"closed", "opening", "open"}]
  /\ inbox \in [Devices -> SUBSET Numbers]
  /\ heard \in [Devices -> SUBSET Numbers]

NudgeInit ==
  /\ ws = [d \in Devices |-> "closed"]
  /\ inbox = [d \in Devices |-> {}]
  /\ heard = [d \in Devices |-> {}]

\* The upgrade is accepted for an authenticated device.
WsUpgrade(d) ==
  /\ ws[d] = "closed"
  /\ ws' = [ws EXCEPT ![d] = "opening"]
  /\ UNCHANGED <<inbox, heard>>

\* SUBSCRIBE succeeded: from here on publications reach the handler.
WsSubscribe(d) ==
  /\ ws[d] = "opening"
  /\ ws' = [ws EXCEPT ![d] = "open"]
  /\ UNCHANGED <<inbox, heard>>

\* Redis unavailable, client gone, send error or end of the subscription: the
\* handler returns and what it had not sent is lost with it.
WsClose(d) ==
  /\ ws[d] # "closed"
  /\ ws' = [ws EXCEPT ![d] = "closed"]
  /\ inbox' = [inbox EXCEPT ![d] = {}]
  /\ UNCHANGED heard

\* Who listens on channel(a).
Subscribers(a) == {d \in Devices : ws[d] = "open" /\ AccountOf[d] = a}

\* publish_nudge: reaches some of the subscribers, perhaps none of them.
Publish(a, n) ==
  /\ \E reached \in SUBSET Subscribers(a) :
       inbox' = [d \in Devices |-> IF d \in reached THEN inbox[d] \cup {n} ELSE inbox[d]]
  /\ UNCHANGED <<ws, heard>>

Forward(d) ==
  /\ ws[d] = "open"
  /\ \E n \in inbox[d] :
       /\ inbox' = [inbox EXCEPT ![d] = @ \ {n}]
       /\ heard' = [heard EXCEPT ![d] = @ \cup {n}]
  /\ UNCHANGED ws

Socket(d) == WsUpgrade(d) \/ WsSubscribe(d) \/ WsClose(d) \/ Forward(d)
=============================================================================
