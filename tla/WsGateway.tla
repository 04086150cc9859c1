------------------------------ MODULE WsGateway ------------------------------
(***************************************************************************)
(* The WebSocket server (apps/ws/src) and the browser's side of it         *)
(* (apps/web/src/hooks/useWebSocket.ts), for one page.  A connection can   *)
(* break with the server noticing or not; the page opens another one and   *)
(* sends its token and its subscriptions again.  Messages of a connection  *)
(* are delivered in order and their handlers started in order, but an      *)
(* authentication waits for validateSession while later messages are       *)
(* handled.  Messages without effect on this state (prices, fills, pings   *)
(* of the page) are left out.                                              *)
(***************************************************************************)
EXTENDS Integers, Sequences, SequencesExt

CONSTANTS
  Users,
  Public, Private,  \* channels anyone, and only authenticated sockets, may have
  MaxAttempts,      \* maxReconnectAttempts
  MaxSockets,       \* bound: connections opened in all
  MaxInbox,         \* bound: the page sends while fewer than this are under way
  Nobody

Channels == Public \cup Private

ASSUME ChannelAssumption ==
  /\ Public \cap Private = {}
  /\ Nobody \notin Users
  /\ MaxAttempts \in Nat /\ MaxSockets \in Nat /\ MaxInbox \in Nat

VARIABLES
  \* the page
  token,          \* the user whose token it has, or Nobody
  wanted,         \* subscriptions.current
  link,           \* "connecting", "open", or "given up"
  attempts,       \* reconnectAttempts.current
  socket,         \* the number of the connection it opened last
  \* the server, for each connection
  open,           \* readyState is OPEN
  inbox,          \* messages it has not handled yet
  validating,     \* users whose token it is waiting for validateSession about
  userId,
  subscriptions,
  isAlive

page == <<token, wanted, link, attempts, socket>>

server == <<open, inbox, validating, userId, subscriptions, isAlive>>

vars == <<page, server>>

Sockets == 1..MaxSockets

AuthWith(u) == [type |-> "auth", arg |-> u]

Ask(c) == [type |-> "subscribe", arg |-> c]

Release(c) == [type |-> "unsubscribe", arg |-> c]

Messages == {AuthWith(u) : u \in Users} \cup {Ask(c) : c \in Channels}
              \cup {Release(c) : c \in Channels}

TypeOK ==
  /\ token \in Users \cup {Nobody}
  /\ wanted \subseteq Channels
  /\ link \in {"connecting", "open", "given up"}
  /\ attempts \in 0..MaxAttempts
  /\ socket \in 0..MaxSockets
  /\ open \in [Sockets -> BOOLEAN]
  /\ inbox \in [Sockets -> Seq(Messages)]
  /\ validating \in [Sockets -> SUBSET Users]
  /\ userId \in [Sockets -> Users \cup {Nobody}]
  /\ subscriptions \in [Sockets -> SUBSET Channels]
  /\ isAlive \in [Sockets -> BOOLEAN]

Init ==
  /\ token = Nobody
  /\ wanted = {}
  /\ link = "connecting"
  /\ attempts = 0
  /\ socket = 0
  /\ open = [s \in Sockets |-> FALSE]
  /\ inbox = [s \in Sockets |-> <<>>]
  /\ validating = [s \in Sockets |-> {}]
  /\ userId = [s \in Sockets |-> Nobody]
  /\ subscriptions = [s \in Sockets |-> {}]
  /\ isAlive = [s \in Sockets |-> FALSE]

-----------------------------------------------------------------------------
(* The page *)

\* What send() does to the current connection: nothing unless it is open.
Sends(m) ==
  IF link = "open"
  THEN /\ Len(inbox[socket]) < MaxInbox
       /\ inbox' = [inbox EXCEPT ![socket] = Append(@, m)]
  ELSE inbox' = inbox

\* The token becomes available: "late auth".
Login(u) ==
  /\ token = Nobody
  /\ token' = u
  /\ Sends(AuthWith(u))
  /\ UNCHANGED <<wanted, link, attempts, socket, open, validating, userId,
                 subscriptions, isAlive>>

\* subscribe(): the page asks for private channels only when logged in.
Subscribe(c) ==
  /\ c \in Private => token # Nobody
  /\ wanted' = wanted \cup {c}
  /\ Sends(Ask(c))
  /\ UNCHANGED <<token, link, attempts, socket, open, validating, userId,
                 subscriptions, isAlive>>

\* unsubscribe()
Unsubscribe(c) ==
  /\ c \in wanted
  /\ wanted' = wanted \ {c}
  /\ Sends(Release(c))
  /\ UNCHANGED <<token, link, attempts, socket, open, validating, userId,
                 subscriptions, isAlive>>

\* Variant: only the token is sent again.
AuthOnly == IF token = Nobody THEN <<>> ELSE <<AuthWith(token)>>

\* What onopen sends: the token if there is one, then what was subscribed to.
Greeting ==
  (IF token = Nobody THEN <<>> ELSE <<AuthWith(token)>>)
    \o [i \in DOMAIN SetToSeq(wanted) |-> Ask(SetToSeq(wanted)[i])]

\* onopen, and handleConnection on the server.
Connect ==
  /\ link = "connecting"
  /\ socket < MaxSockets
  /\ socket' = socket + 1
  /\ link' = "open"
  /\ attempts' = 0
  /\ open' = [open EXCEPT ![socket'] = TRUE]
  /\ inbox' = [inbox EXCEPT ![socket'] = Greeting]
  /\ isAlive' = [isAlive EXCEPT ![socket'] = TRUE]
  /\ UNCHANGED <<token, wanted, validating, userId, subscriptions>>

\* onclose: another attempt is scheduled, or none is left.
Closed ==
  IF attempts < MaxAttempts
  THEN attempts' = attempts + 1 /\ link' = "connecting"
  ELSE attempts' = attempts /\ link' = "given up"

\* The page loses its connection; the server need not notice.
Lose ==
  /\ link = "open"
  /\ Closed
  /\ UNCHANGED <<token, wanted, socket, server>>

\* An attempt to connect fails.
ConnectFails ==
  /\ link = "connecting"
  /\ Closed
  /\ UNCHANGED <<token, wanted, socket, server>>

-----------------------------------------------------------------------------
(* The server *)

\* The connection s is there at both ends.
Connected(s) == link = "open" /\ socket = s /\ open[s]

\* What handling a message leaves of the connection's requests.
Take(s) ==
  /\ inbox[s] # <<>>
  /\ open[s]
  /\ inbox' = [inbox EXCEPT ![s] = Tail(@)]

\* handleAuth, up to its await.
StartAuth(s) ==
  /\ Take(s)
  /\ Head(inbox[s]).type = "auth"
  /\ validating' = [validating EXCEPT ![s] = @ \cup {Head(inbox[s]).arg}]
  /\ UNCHANGED <<page, open, userId, subscriptions, isAlive>>

\* ... and after it.  The session may have ended, or a store may have failed.
FinishAuth(s, u) ==
  /\ u \in validating[s]
  /\ validating' = [validating EXCEPT ![s] = @ \ {u}]
  /\ \E answer \in {u, userId[s]} : userId' = [userId EXCEPT ![s] = answer]
  /\ UNCHANGED <<page, open, inbox, subscriptions, isAlive>>

\* Variant: no return after the error.
AllowedAlways(s, c) == TRUE

Allowed(s, c) == c \in Private => userId[s] # Nobody

\* handleSubscribe: refused, with an error, unless it is allowed now.
HandleSubscribe(s) ==
  /\ Take(s)
  /\ Head(inbox[s]).type = "subscribe"
  /\ LET c == Head(inbox[s]).arg
     IN subscriptions' = [subscriptions EXCEPT ![s] =
                            IF Allowed(s, c) THEN @ \cup {c} ELSE @]
  /\ UNCHANGED <<page, open, validating, userId, isAlive>>

\* handleUnsubscribe
HandleUnsubscribe(s) ==
  /\ Take(s)
  /\ Head(inbox[s]).type = "unsubscribe"
  /\ subscriptions' = [subscriptions EXCEPT ![s] = @ \ {Head(inbox[s]).arg}]
  /\ UNCHANGED <<page, open, validating, userId, isAlive>>

\* The sockets in gone are closed: their state goes with them.
Drop(gone) ==
  /\ open' = [s \in Sockets |-> s \notin gone /\ open[s]]
  /\ inbox' = [s \in Sockets |-> IF s \in gone THEN <<>> ELSE inbox[s]]
  /\ validating' = [s \in Sockets |-> IF s \in gone THEN {} ELSE validating[s]]
  /\ userId' = [s \in Sockets |-> IF s \in gone THEN Nobody ELSE userId[s]]
  /\ subscriptions' = [s \in Sockets |-> IF s \in gone THEN {} ELSE subscriptions[s]]

\* The close event.
NoticeClose(s) ==
  /\ open[s]
  /\ ~Connected(s)
  /\ Drop({s})
  /\ isAlive' = [isAlive EXCEPT ![s] = FALSE]
  /\ UNCHANGED page

\* Variant: nobody is marked as not having answered.
BeatWithoutMark ==
  /\ \E s \in Sockets : open[s]
  /\ Drop({s \in Sockets : open[s] /\ ~isAlive[s]})
  /\ UNCHANGED <<page, isAlive>>

\* The 30 s heartbeat terminates who has not answered since the last one, and
\* pings the others.
Beat ==
  /\ \E s \in Sockets : open[s]
  /\ Drop({s \in Sockets : open[s] /\ ~isAlive[s]})
  /\ isAlive' = [s \in Sockets |-> FALSE]
  /\ UNCHANGED page

\* The browser answers a ping.
Pong(s) ==
  /\ Connected(s)
  /\ ~isAlive[s]
  /\ isAlive' = [isAlive EXCEPT ![s] = TRUE]
  /\ UNCHANGED <<page, open, inbox, validating, userId, subscriptions>>

\* The page learns that the server terminated its connection.
Terminated ==
  /\ link = "open"
  /\ ~open[socket]
  /\ Closed
  /\ UNCHANGED <<token, wanted, socket, server>>

Handle(s) ==
  \/ StartAuth(s)
  \/ HandleSubscribe(s)
  \/ HandleUnsubscribe(s)

Next ==
  \/ \E u \in Users : Login(u)
  \/ \E c \in Channels : Subscribe(c) \/ Unsubscribe(c)
  \/ Connect
  \/ Lose
  \/ ConnectFails
  \/ Terminated
  \/ Beat
  \/ \E s \in Sockets :
       \/ Handle(s)
       \/ \E u \in Users : FinishAuth(s, u)
       \/ NoticeClose(s)
       \/ Pong(s)

Spec == Init /\ [][Next]_vars

\* The server's event loop runs its handlers and its timer.
FairSpec ==
  /\ Spec
  /\ WF_vars(Beat)
  /\ \A s \in Sockets : WF_vars(Handle(s))

-----------------------------------------------------------------------------
\* Everything sent on the page's connection has been handled.
Settled ==
  /\ link = "open"
  /\ open[socket]
  /\ inbox[socket] = <<>>
  /\ validating[socket] = {}

\* Every variable has its type, and after any number of reconnections the server
\* sends the public channels the page wants, and nothing that it gave up.
\* (Private channels may be missing: the server handles a subscription that comes
\* right after the token while it still asks whose the token is, and refuses it.)
PublicChannelsFollow ==
  /\ TypeOK
  /\ Settled => /\ subscriptions[socket] \subseteq wanted
                /\ wanted \cap Public \subseteq subscriptions[socket]

\* A private channel is sent to a known user only, in whatever order the
\* authentications and the subscriptions of a connection come.
PrivateNeedsUser ==
  \A s \in Sockets : subscriptions[s] \cap Private # {} => userId[s] # Nobody

\* A connection the page has lost is terminated, though the server never hears
\* of it: the heartbeat finds out.
LostIsTerminated ==
  \A s \in Sockets : (open[s] /\ ~Connected(s)) ~> ~open[s]
=============================================================================
