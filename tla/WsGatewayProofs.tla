------------------------------ MODULE WsGatewayProofs ------------------------------
(***************************************************************************)
(* The theorems of WsGateway, for any channels, users and number of        *)
(* connections.  Private channels stay private because a subscription is   *)
(* granted to a known user only and a known user stays known.  The server  *)
(* follows the page because what is under way on the page's connection,    *)
(* handled after what it is subscribed to now, comes to what the page      *)
(* wants: every step of either side keeps that sum.                        *)
(***************************************************************************)
EXTENDS WsGateway, TLAPS, FiniteSetTheorems, SequenceTheorems

\* The types, and what they do not say: the page wants finitely many channels,
\* its open connection has a number, and connections to come are blank.
Typed ==
  /\ TypeOK
  /\ IsFiniteSet(wanted)
  /\ link = "open" => socket \in Sockets
  /\ \A s \in Sockets : s > socket => ~open[s] /\ subscriptions[s] = {}

\* A connection with the channels subs and the messages queue under way ends up
\* with channel c: c is asked for after the last time it is released.
EndsWith(queue, subs, c) ==
  \/ \E i \in DOMAIN queue :
       /\ queue[i] = Ask(c)
       /\ \A j \in DOMAIN queue : j > i => queue[j] # Release(c)
  \/ c \in subs /\ \A i \in DOMAIN queue : queue[i] # Release(c)

\* The page's connection ends up with wanted channels only, and with every public one.
Following ==
  link = "open" /\ open[socket] =>
    \A c \in Channels :
      /\ EndsWith(inbox[socket], subscriptions[socket], c) => c \in wanted
      /\ c \in wanted \cap Public => EndsWith(inbox[socket], subscriptions[socket], c)

IInv ==
  /\ Typed
  /\ PrivateNeedsUser
  /\ Following

-----------------------------------------------------------------------------
\* What the messages of a page look like.
LEMMA MessageFacts ==
  /\ \A u \in Users : AuthWith(u) \in Messages
  /\ \A c \in Channels : Ask(c) \in Messages /\ Release(c) \in Messages
  /\ \A u, c : AuthWith(u) # Ask(c) /\ AuthWith(u) # Release(c)
  /\ \A c, d : Ask(c) # Release(d) /\ (c # d => Ask(c) # Ask(d) /\ Release(c) # Release(d))
  /\ \A m \in Messages :
       /\ m.type = "auth" => m.arg \in Users /\ m = AuthWith(m.arg)
       /\ m.type = "subscribe" => m.arg \in Channels /\ m = Ask(m.arg)
       /\ m.type = "unsubscribe" => m.arg \in Channels /\ m = Release(m.arg)
<1>1. /\ \A u \in Users : AuthWith(u) \in Messages
      /\ \A c \in Channels : Ask(c) \in Messages /\ Release(c) \in Messages
  BY DEF Messages
<1>2. \A u : AuthWith(u).type = "auth" /\ AuthWith(u).arg = u
  BY DEF AuthWith
<1>3. \A c : Ask(c).type = "subscribe" /\ Ask(c).arg = c
  BY DEF Ask
<1>4. \A c : Release(c).type = "unsubscribe" /\ Release(c).arg = c
  BY DEF Release
<1>5. \A m \in Messages : \/ \E u \in Users : m = AuthWith(u)
                          \/ \E c \in Channels : m = Ask(c) \/ m = Release(c)
  BY DEF Messages
<1>6. /\ \A u, c : AuthWith(u) # Ask(c) /\ AuthWith(u) # Release(c)
      /\ \A c, d : Ask(c) # Release(d) /\ (c # d => Ask(c) # Ask(d) /\ Release(c) # Release(d))
  BY <1>2, <1>3, <1>4
<1>7. ASSUME NEW m \in Messages
      PROVE  /\ m.type = "auth" => m.arg \in Users /\ m = AuthWith(m.arg)
             /\ m.type = "subscribe" => m.arg \in Channels /\ m = Ask(m.arg)
             /\ m.type = "unsubscribe" => m.arg \in Channels /\ m = Release(m.arg)
  BY <1>2, <1>3, <1>4, <1>5
<1> QED
  BY <1>1, <1>6, <1>7

-----------------------------------------------------------------------------
\* One more message under way counts last.
LEMMA EndsWithAppended ==
  ASSUME NEW queue \in Seq(Messages), NEW m \in Messages, NEW subs, NEW c
  PROVE  /\ m = Ask(c) => EndsWith(Append(queue, m), subs, c)
         /\ m = Release(c) => ~EndsWith(Append(queue, m), subs, c)
         /\ m # Ask(c) /\ m # Release(c) =>
              (EndsWith(Append(queue, m), subs, c) <=> EndsWith(queue, subs, c))
<1> DEFINE longer == Append(queue, m)
<1>1. PICK n \in Nat : n = Len(queue)
  BY LenProperties
<1>2. /\ DOMAIN queue = 1..n /\ DOMAIN longer = 1..n + 1
      /\ \A i \in 1..n : longer[i] = queue[i]
      /\ longer[n + 1] = m
  BY <1>1, LenProperties, AppendProperties
<1> HIDE DEF longer
<1>3. CASE m = Ask(c)
  <2>1. longer[n + 1] = Ask(c) /\ n + 1 \in DOMAIN longer
    BY <1>2, <1>3
  <2>2. ~(\E j \in DOMAIN longer : j > n + 1)
    BY <1>2
  <2>3. EndsWith(longer, subs, c)
    BY <2>1, <2>2 DEF EndsWith
  <2> QED
    BY <1>3, <2>3, MessageFacts DEF longer
<1>4. CASE m = Release(c)
  <2>1. longer[n + 1] = Release(c) /\ n + 1 \in DOMAIN longer
    BY <1>2, <1>4
  <2>2. \A i \in DOMAIN longer : longer[i] = Ask(c) => n + 1 > i
    BY <1>2, <1>4, MessageFacts
  <2>3. ~EndsWith(longer, subs, c)
    BY <2>1, <2>2 DEF EndsWith
  <2> QED
    BY <1>4, <2>3, MessageFacts DEF longer
<1>5. CASE m # Ask(c) /\ m # Release(c)
  <2>1. ASSUME EndsWith(queue, subs, c) PROVE EndsWith(longer, subs, c)
    <3>1. CASE \E i \in DOMAIN queue :
                 /\ queue[i] = Ask(c)
                 /\ \A j \in DOMAIN queue : j > i => queue[j] # Release(c)
      <4>1. PICK i \in 1..n : /\ queue[i] = Ask(c)
                              /\ \A j \in 1..n : j > i => queue[j] # Release(c)
        BY <1>2, <3>1
      <4>2. i \in 1..n + 1 /\ longer[i] = Ask(c)
        BY <1>2, <4>1
      <4>3. \A j \in 1..n + 1 : j > i => longer[j] # Release(c)
        BY <1>2, <1>5, <4>1
      <4> QED
        BY <1>2, <4>2, <4>3 DEF EndsWith
    <3>2. CASE c \in subs /\ \A i \in DOMAIN queue : queue[i] # Release(c)
      <4>1. \A i \in 1..n + 1 : longer[i] # Release(c)
        BY <1>2, <1>5, <3>2
      <4> QED
        BY <1>2, <3>2, <4>1 DEF EndsWith
    <3> QED
      BY <2>1, <3>1, <3>2 DEF EndsWith
  <2>2. ASSUME EndsWith(longer, subs, c) PROVE EndsWith(queue, subs, c)
    <3>1. CASE \E i \in DOMAIN longer :
                 /\ longer[i] = Ask(c)
                 /\ \A j \in DOMAIN longer : j > i => longer[j] # Release(c)
      <4>1. PICK i \in 1..n + 1 : /\ longer[i] = Ask(c)
                                  /\ \A j \in 1..n + 1 : j > i => longer[j] # Release(c)
        BY <1>2, <3>1
      <4>2. i \in 1..n /\ queue[i] = Ask(c)
        BY <1>2, <1>5, <4>1
      <4>3. \A j \in 1..n : j > i => queue[j] # Release(c)
        BY <1>2, <4>1
      <4> QED
        BY <1>2, <4>2, <4>3 DEF EndsWith
    <3>2. CASE c \in subs /\ \A i \in DOMAIN longer : longer[i] # Release(c)
      <4>1. \A i \in 1..n : queue[i] # Release(c)
        BY <1>2, <3>2
      <4> QED
        BY <1>2, <3>2, <4>1 DEF EndsWith
    <3> QED
      BY <2>2, <3>1, <3>2 DEF EndsWith
  <2> QED
    BY <1>5, <2>1, <2>2 DEF longer
<1> QED
  BY <1>3, <1>4, <1>5

\* The first message under way counts as if it had been handled before the rest.
LEMMA EndsWithTaken ==
  ASSUME NEW queue \in Seq(Messages), queue # <<>>, NEW subs, NEW left, NEW c
  PROVE  /\ (c \in left => Head(queue) = Ask(c) \/ (Head(queue) # Release(c) /\ c \in subs))
              => (EndsWith(Tail(queue), left, c) => EndsWith(queue, subs, c))
         /\ (Head(queue) = Ask(c) \/ (Head(queue) # Release(c) /\ c \in subs) => c \in left)
              => (EndsWith(queue, subs, c) => EndsWith(Tail(queue), left, c))
<1> DEFINE rest == Tail(queue)
<1>1. PICK n \in Nat : n = Len(rest)
  BY HeadTailProperties, LenProperties
<1>2. /\ DOMAIN rest = 1..n /\ DOMAIN queue = 1..n + 1
      /\ \A i \in 1..n : rest[i] = queue[i + 1]
      /\ Head(queue) = queue[1]
  <2>1. Len(queue) = n + 1 /\ rest \in Seq(Messages)
    BY <1>1, HeadTailProperties, LenProperties
  <2>2. DOMAIN rest = 1..n /\ DOMAIN queue = 1..n + 1
    BY <1>1, <2>1, LenProperties
  <2>3. \A i \in 1..n : rest[i] = queue[i + 1]
    BY <1>1, HeadTailProperties
  <2>4. Head(queue) = queue[1]
    BY <2>1, HeadTailProperties
  <2> QED
    BY <2>2, <2>3, <2>4
<1> HIDE DEF rest
<1>3. \A i \in 1..n + 1 : i = 1 \/ (i - 1 \in 1..n /\ queue[i] = rest[i - 1])
  BY <1>2
<1>4. ASSUME c \in left => queue[1] = Ask(c) \/ (queue[1] # Release(c) /\ c \in subs),
             EndsWith(rest, left, c)
      PROVE  EndsWith(queue, subs, c)
  <2>1. CASE \E i \in DOMAIN rest :
               /\ rest[i] = Ask(c)
               /\ \A j \in DOMAIN rest : j > i => rest[j] # Release(c)
    <3>1. PICK i \in 1..n : /\ rest[i] = Ask(c)
                            /\ \A j \in 1..n : j > i => rest[j] # Release(c)
      BY <1>2, <2>1
    <3>2. i + 1 \in 1..n + 1 /\ queue[i + 1] = Ask(c)
      BY <1>2, <3>1
    <3>3. \A j \in 1..n + 1 : j > i + 1 => queue[j] # Release(c)
      <4>1. \A j \in 1..n + 1 : j > i + 1 => j - 1 \in 1..n /\ j - 1 > i
        OBVIOUS
      <4>2. \A j \in 1..n + 1 : j > i + 1 => queue[j] = rest[j - 1]
        BY <1>3
      <4> QED
        BY <3>1, <4>1, <4>2
    <3> QED
      BY <1>2, <3>2, <3>3 DEF EndsWith
  <2>2. CASE c \in left /\ \A i \in DOMAIN rest : rest[i] # Release(c)
    <3>1. CASE queue[1] = Ask(c)
      <4>1. \A j \in 1..n + 1 : j > 1 => queue[j] # Release(c)
        <5>1. \A j \in 1..n + 1 : j > 1 => j - 1 \in 1..n /\ queue[j] = rest[j - 1]
          BY <1>3
        <5> QED
          BY <1>2, <2>2, <5>1
      <4>2. 1 \in 1..n + 1
        OBVIOUS
      <4> QED
        BY <1>2, <3>1, <4>1, <4>2 DEF EndsWith
    <3>2. CASE queue[1] # Release(c) /\ c \in subs
      <4>1. \A j \in 1..n + 1 : queue[j] # Release(c)
        BY <1>2, <1>3, <2>2, <3>2
      <4> QED
        BY <1>2, <3>2, <4>1 DEF EndsWith
    <3> QED
      BY <1>4, <2>2, <3>1, <3>2
  <2> QED
    BY <1>4, <2>1, <2>2 DEF EndsWith
<1>5. ASSUME queue[1] = Ask(c) \/ (queue[1] # Release(c) /\ c \in subs) => c \in left,
             EndsWith(queue, subs, c)
      PROVE  EndsWith(rest, left, c)
  <2>1. CASE \E i \in DOMAIN queue :
               /\ queue[i] = Ask(c)
               /\ \A j \in DOMAIN queue : j > i => queue[j] # Release(c)
    <3>1. PICK i \in 1..n + 1 : /\ queue[i] = Ask(c)
                                /\ \A j \in 1..n + 1 : j > i => queue[j] # Release(c)
      BY <1>2, <2>1
    <3>2. \A j \in 1..n : j + 1 \in 1..n + 1 /\ rest[j] = queue[j + 1]
      BY <1>2
    <3>3. CASE i = 1
      <4>1. \A j \in 1..n : rest[j] # Release(c)
        BY <3>1, <3>2, <3>3
      <4> QED
        BY <1>2, <1>5, <3>1, <3>3, <4>1 DEF EndsWith
    <3>4. CASE i # 1
      <4>1. i - 1 \in 1..n /\ rest[i - 1] = Ask(c)
        BY <1>3, <3>1, <3>4
      <4>2. \A j \in 1..n : j > i - 1 => rest[j] # Release(c)
        BY <3>1, <3>2
      <4> QED
        BY <1>2, <4>1, <4>2 DEF EndsWith
    <3> QED
      BY <3>3, <3>4
  <2>2. CASE c \in subs /\ \A i \in DOMAIN queue : queue[i] # Release(c)
    <3>1. \A i \in 1..n : i + 1 \in 1..n + 1 /\ rest[i] # Release(c)
      BY <1>2, <2>2
    <3>2. 1 \in 1..n + 1
      OBVIOUS
    <3>3. queue[1] # Release(c)
      BY <1>2, <2>2, <3>2
    <3> QED
      BY <1>2, <1>5, <2>2, <3>1, <3>3 DEF EndsWith
  <2> QED
    BY <1>5, <2>1, <2>2 DEF EndsWith
<1> QED
  BY <1>2, <1>4, <1>5 DEF rest

\* What is sent on opening are messages, and they ask for what is wanted.
LEMMA GreetingFacts ==
  ASSUME Typed
  PROVE  /\ Greeting \in Seq(Messages)
         /\ \A c \in Channels : EndsWith(Greeting, {}, c) <=> c \in wanted
<1> DEFINE list == SetToSeq(wanted)
           asks == [i \in DOMAIN list |-> Ask(list[i])]
           first == IF token = Nobody THEN <<>> ELSE <<AuthWith(token)>>
<1>1. PICK n \in Nat : n = Cardinality(wanted)
  BY FS_CardinalityType DEF Typed
<1>2. /\ list \in [1..n -> wanted]
      /\ \A i, j \in 1..n : list[i] = list[j] => i = j
  <2>1. ExistsBijection(1..n, wanted)
    BY <1>1, FS_CardinalityType DEF Typed
  <2>2. \E f \in [1..n -> wanted] : IsInjective(f)
    BY <2>1 DEF ExistsBijection, Bijection, Injection
  <2>3. list \in [1..n -> wanted] /\ IsInjective(list)
    BY <1>1, <2>2 DEF SetToSeq
  <2> QED
    BY <2>3 DEF IsInjective
<1> HIDE DEF list
<1>3. \A c \in wanted : \E i \in 1..n : list[i] = c
  <2>1. IsFiniteSet(1..n) /\ Cardinality(1..n) = n
    BY FS_Interval
  <2>2. list \in Injection(1..n, wanted)
    BY <1>2 DEF Injection, IsInjective
  <2>3. list \in Surjection(1..n, wanted)
    BY <1>1, <2>1, <2>2, FS_Injection DEF Typed
  <2> QED
    BY <2>3 DEF Surjection
<1>4. asks \in [1..n -> Messages] /\ \A i \in 1..n : asks[i] = Ask(list[i])
  BY <1>2, MessageFacts DEF Typed, TypeOK
<1>5. asks \in Seq(Messages) /\ Len(asks) = n
  BY <1>4, SeqDef
<1>6. first \in Seq(Messages)
  <2>1. CASE token = Nobody
    BY <2>1, EmptySeq
  <2>2. CASE token # Nobody
    <3>1. AuthWith(token) \in Messages
      BY <2>2, MessageFacts DEF Typed, TypeOK
    <3> QED
      BY <2>2, <3>1
  <2> QED
    BY <2>1, <2>2
<1>7. \A i \in DOMAIN first : \A c : first[i] # Ask(c) /\ first[i] # Release(c)
  BY MessageFacts
<1> HIDE DEF asks, first
<1>8. PICK k \in Nat : k = Len(first) /\ DOMAIN first = 1..k
  BY <1>6, LenProperties
<1>9. Greeting = first \o asks
  BY DEF Greeting, first, asks, list
<1>10. /\ Greeting \in Seq(Messages) /\ DOMAIN Greeting = 1..k + n
       /\ \A i \in 1..k + n : Greeting[i] = IF i <= k THEN first[i] ELSE asks[i - k]
  BY <1>5, <1>6, <1>8, <1>9, ConcatProperties, LenProperties
<1>11. \A i \in 1..k + n : i <= k => \A c : Greeting[i] # Ask(c) /\ Greeting[i] # Release(c)
  BY <1>7, <1>8, <1>10
<1>12. \A i \in 1..k + n : ~(i <= k) => i - k \in 1..n /\ Greeting[i] = Ask(list[i - k])
  BY <1>4, <1>10
<1>13. \A i \in 1..k + n : \A c : Greeting[i] # Release(c)
  BY <1>11, <1>12, MessageFacts
<1>14. ASSUME NEW c \in Channels, EndsWith(Greeting, {}, c) PROVE c \in wanted
  <2>1. PICK i \in 1..k + n : Greeting[i] = Ask(c)
    BY <1>10, <1>14 DEF EndsWith
  <2>2. i - k \in 1..n /\ Ask(list[i - k]) = Ask(c)
    BY <1>11, <1>12, <2>1
  <2> QED
    BY <1>2, <2>2, MessageFacts
<1>15. ASSUME NEW c \in wanted PROVE EndsWith(Greeting, {}, c)
  <2>1. PICK i \in 1..n : list[i] = c
    BY <1>3
  <2>2. i + k \in 1..k + n /\ Greeting[i + k] = Ask(c)
    BY <1>12, <2>1
  <2> QED
    BY <1>10, <1>13, <2>2 DEF EndsWith
<1> QED
  BY <1>10, <1>14, <1>15

-----------------------------------------------------------------------------
\* Initially nothing is wanted and nothing is subscribed to.
LEMMA InitIInv == Init => IInv
<1> SUFFICES ASSUME Init PROVE IInv
  OBVIOUS
<1> USE ChannelAssumption, FS_EmptySet DEF ChannelAssumption, Init
<1>1. Typed
  BY DEF Typed, TypeOK
<1>2. PrivateNeedsUser
  BY DEF PrivateNeedsUser
<1>3. Following
  BY DEF Following
<1> QED
  BY <1>1, <1>2, <1>3 DEF IInv

\* A message on the page's connection counts last, if the connection is open.
LEMMA SendStep ==
  ASSUME IInv, NEW m \in Messages, Sends(m), wanted' \in SUBSET Channels,
         UNCHANGED <<link, socket, open, subscriptions>>,
         \A c \in Channels : /\ m = Ask(c) => c \in wanted'
                             /\ m = Release(c) => c \notin wanted'
                             /\ m # Ask(c) /\ m # Release(c) => (c \in wanted' <=> c \in wanted)
  PROVE  inbox' \in [Sockets -> Seq(Messages)] /\ Following'
<1>1. inbox \in [Sockets -> Seq(Messages)]
  BY DEF IInv, Typed, TypeOK
<1>2. CASE link = "open"
  <2>1. socket \in Sockets
    BY <1>2 DEF IInv, Typed
  <2>2. PICK queue \in Seq(Messages) : queue = inbox[socket]
    BY <1>1, <2>1
  <2>3. inbox' = [inbox EXCEPT ![socket] = Append(queue, m)]
    BY <1>2, <2>2 DEF Sends
  <2>4. Append(queue, m) \in Seq(Messages)
    BY AppendProperties
  <2>5. inbox' \in [Sockets -> Seq(Messages)] /\ inbox'[socket] = Append(queue, m)
    BY <1>1, <2>1, <2>3, <2>4
  <2>6. Following'
    <3> SUFFICES ASSUME open[socket], NEW c \in Channels
                 PROVE  /\ EndsWith(Append(queue, m), subscriptions[socket], c) => c \in wanted'
                        /\ c \in wanted' \cap Public =>
                             EndsWith(Append(queue, m), subscriptions[socket], c)
      BY <2>5 DEF Following
    <3>1. /\ EndsWith(queue, subscriptions[socket], c) => c \in wanted
          /\ c \in wanted \cap Public => EndsWith(queue, subscriptions[socket], c)
      BY <1>2, <2>2 DEF IInv, Following
    <3> QED
      BY <3>1, EndsWithAppended
  <2> QED
    BY <2>5, <2>6
<1>3. CASE link # "open"
  BY <1>1, <1>3 DEF Sends, Following
<1> QED
  BY <1>2, <1>3

\* Trying to connect again.
LEMMA ClosedStep ==
  ASSUME TypeOK, Closed
  PROVE  link' \in {"connecting", "given up"} /\ attempts' \in 0..MaxAttempts
<1>1. attempts \in Nat /\ MaxAttempts \in Nat /\ attempts <= MaxAttempts
  <2>1. attempts \in 0..MaxAttempts
    BY DEF TypeOK
  <2>2. MaxAttempts \in Nat
    BY ChannelAssumption DEF ChannelAssumption
  <2> QED
    BY ONLY <2>1, <2>2
<1>2. CASE attempts < MaxAttempts
  BY <1>1, <1>2 DEF Closed
<1>3. CASE ~(attempts < MaxAttempts)
  <2>1. attempts' = attempts /\ link' = "given up"
    BY <1>3 DEF Closed
  <2> QED
    BY <2>1 DEF TypeOK
<1> QED
  BY <1>2, <1>3

\* What the page does keeps the invariant.
LEMMA PageStep ==
  ASSUME IInv,
         \/ \E u \in Users : Login(u)
         \/ \E c \in Channels : Subscribe(c) \/ Unsubscribe(c)
         \/ Connect \/ Lose \/ ConnectFails \/ Terminated
  PROVE  IInv'
<1> USE ChannelAssumption DEF ChannelAssumption, IInv
<1>1. ASSUME NEW u \in Users, Login(u) PROVE IInv'
  <2>1. inbox' \in [Sockets -> Seq(Messages)] /\ Following'
    <3>1. AuthWith(u) \in Messages /\ wanted' \in SUBSET Channels
      BY <1>1, MessageFacts DEF Login, Typed, TypeOK
    <3>2. \A c \in Channels : AuthWith(u) # Ask(c) /\ AuthWith(u) # Release(c)
      BY MessageFacts
    <3>3. Sends(AuthWith(u)) /\ UNCHANGED <<wanted, link, socket, open, subscriptions>>
      BY <1>1 DEF Login
    <3> QED
      BY <3>1, <3>2, <3>3, SendStep
  <2>2. Typed'
    BY <1>1, <2>1 DEF Login, Typed, TypeOK
  <2>3. PrivateNeedsUser'
    BY <1>1 DEF Login, PrivateNeedsUser
  <2> QED
    BY <2>1, <2>2, <2>3
<1>2. ASSUME NEW c \in Channels, Subscribe(c) PROVE IInv'
  <2>1. inbox' \in [Sockets -> Seq(Messages)] /\ Following'
    <3>1. Ask(c) \in Messages /\ wanted' \in SUBSET Channels
      BY <1>2, MessageFacts DEF Subscribe, Typed, TypeOK
    <3>2. \A d \in Channels : Ask(c) # Release(d) /\ (c # d => Ask(c) # Ask(d))
      BY MessageFacts
    <3>3. /\ Sends(Ask(c)) /\ UNCHANGED <<link, socket, open, subscriptions>>
          /\ wanted' = wanted \cup {c}
      BY <1>2 DEF Subscribe
    <3> QED
      BY <3>1, <3>2, <3>3, SendStep
  <2>2. IsFiniteSet(wanted')
    BY <1>2, FS_AddElement DEF Subscribe, Typed
  <2>3. Typed'
    BY <1>2, <2>1, <2>2 DEF Subscribe, Typed, TypeOK
  <2>4. PrivateNeedsUser'
    BY <1>2 DEF Subscribe, PrivateNeedsUser
  <2> QED
    BY <2>1, <2>3, <2>4
<1>3. ASSUME NEW c \in Channels, Unsubscribe(c) PROVE IInv'
  <2>1. inbox' \in [Sockets -> Seq(Messages)] /\ Following'
    <3>1. Release(c) \in Messages /\ wanted' \in SUBSET Channels
      BY <1>3, MessageFacts DEF Unsubscribe, Typed, TypeOK
    <3>2. \A d \in Channels : Ask(d) # Release(c) /\ (c # d => Release(c) # Release(d))
      BY MessageFacts
    <3>3. /\ Sends(Release(c)) /\ UNCHANGED <<link, socket, open, subscriptions>>
          /\ wanted' = wanted \ {c}
      BY <1>3 DEF Unsubscribe
    <3> QED
      BY <3>1, <3>2, <3>3, SendStep
  <2>2. IsFiniteSet(wanted')
    BY <1>3, FS_RemoveElement DEF Unsubscribe, Typed
  <2>3. Typed'
    BY <1>3, <2>1, <2>2 DEF Unsubscribe, Typed, TypeOK
  <2>4. PrivateNeedsUser'
    BY <1>3 DEF Unsubscribe, PrivateNeedsUser
  <2> QED
    BY <2>1, <2>3, <2>4
<1>4. CASE Connect
  <2>1. socket' \in Sockets /\ socket' = socket + 1 /\ socket \in Nat
    BY <1>4 DEF Connect, Typed, TypeOK, Sockets
  <2>2. inbox' \in [Sockets -> Seq(Messages)] /\ inbox'[socket'] = Greeting
    BY <1>4, <2>1, GreetingFacts DEF Connect, Typed, TypeOK
  <2>3. subscriptions'[socket'] = {} /\ wanted' = wanted
    BY <1>4, <2>1 DEF Connect, Typed
  <2>4. Following'
    BY <2>2, <2>3, GreetingFacts DEF Following
  <2>5. TypeOK'
    BY <1>4, <2>1, <2>2 DEF Connect, Typed, TypeOK, Sockets
  <2>6. \A s \in Sockets : s > socket' => ~open'[s] /\ subscriptions'[s] = {}
    BY <1>4, <2>1 DEF Connect, Typed, Sockets
  <2>7. Typed'
    BY <1>4, <2>1, <2>5, <2>6 DEF Connect, Typed
  <2>8. PrivateNeedsUser'
    BY <1>4 DEF Connect, PrivateNeedsUser
  <2> QED
    BY <2>4, <2>7, <2>8
<1>5. CASE Lose \/ ConnectFails \/ Terminated
  <2>1. Closed /\ UNCHANGED <<token, wanted, socket, server>>
    BY <1>5 DEF Lose, ConnectFails, Terminated
  <2>2. link' \in {"connecting", "given up"} /\ attempts' \in 0..MaxAttempts
    BY <2>1, ClosedStep DEF Typed
  <2>3. Typed'
    BY <2>1, <2>2 DEF server, Typed, TypeOK
  <2>4. PrivateNeedsUser' /\ Following'
    BY <2>1, <2>2 DEF server, PrivateNeedsUser, Following
  <2> QED
    BY <2>3, <2>4
<1> QED
  BY <1>1, <1>2, <1>3, <1>4, <1>5

-----------------------------------------------------------------------------
\* Sockets that are closed lose their user and their channels together.
LEMMA DropStep ==
  ASSUME IInv, NEW gone \in SUBSET Sockets, Drop(gone), UNCHANGED page,
         isAlive' \in [Sockets -> BOOLEAN]
  PROVE  IInv'
<1> USE DEF IInv, Drop, page
<1>1. Typed'
  <2>1. <<>> \in Seq(Messages)
    BY EmptySeq
  <2> QED
    BY <2>1 DEF Typed, TypeOK
<1>2. PrivateNeedsUser'
  BY DEF PrivateNeedsUser
<1>3. Following'
  <2> SUFFICES ASSUME link = "open", open'[socket] PROVE Following'
    BY DEF Following
  <2>1. socket \in Sockets
    BY DEF Typed
  <2>2. open[socket] /\ socket \notin gone
    BY <2>1
  <2>3. inbox'[socket] = inbox[socket] /\ subscriptions'[socket] = subscriptions[socket]
    BY <2>1, <2>2
  <2> QED
    BY <2>2, <2>3 DEF Following
<1> QED
  BY <1>1, <1>2, <1>3

\* The invariant survives the handling of a message if the channels that are left
\* to the connection s are those of the page that the message stands for.
LEMMA TakeStep ==
  ASSUME IInv, NEW s \in Sockets, Take(s), UNCHANGED <<page, open>>,
         subscriptions' \in [Sockets -> SUBSET Channels],
         \A r \in Sockets \ {s} : subscriptions'[r] = subscriptions[r],
         \A c \in Channels :
           /\ c \in subscriptions'[s] =>
                \/ Head(inbox[s]) = Ask(c)
                \/ Head(inbox[s]) # Release(c) /\ c \in subscriptions[s]
           /\ c \in Public =>
                ((\/ Head(inbox[s]) = Ask(c)
                  \/ Head(inbox[s]) # Release(c) /\ c \in subscriptions[s])
                   => c \in subscriptions'[s])
  PROVE  Following'
<1> SUFFICES ASSUME link = "open", open[socket] PROVE Following'
  BY DEF Following, page
<1>1. socket \in Sockets /\ inbox \in [Sockets -> Seq(Messages)]
  BY DEF IInv, Typed, TypeOK
<1>2. /\ inbox' = [inbox EXCEPT ![s] = Tail(inbox[s])] /\ inbox[s] # <<>>
      /\ link' = link /\ open' = open /\ socket' = socket /\ wanted' = wanted
  BY DEF Take, page
<1>3. \A c \in Channels :
        /\ EndsWith(inbox[socket], subscriptions[socket], c) => c \in wanted
        /\ c \in wanted \cap Public => EndsWith(inbox[socket], subscriptions[socket], c)
  BY DEF IInv, Following
<1>4. CASE s # socket
  BY <1>1, <1>2, <1>3, <1>4 DEF Following
<1>5. CASE s = socket
  <2>1. PICK queue \in Seq(Messages), subs \in SUBSET Channels, left \in SUBSET Channels :
          queue = inbox[s] /\ subs = subscriptions[s] /\ left = subscriptions'[s]
    BY <1>1 DEF IInv, Typed, TypeOK
  <2>2. queue # <<>> /\ inbox'[socket] = Tail(queue)
    BY <1>1, <1>2, <1>5, <2>1
  <2>3. ASSUME NEW c \in Channels
        PROVE  /\ EndsWith(Tail(queue), left, c) => c \in wanted
               /\ c \in wanted \cap Public => EndsWith(Tail(queue), left, c)
    <3>1. /\ EndsWith(queue, subs, c) => c \in wanted
          /\ c \in wanted \cap Public => EndsWith(queue, subs, c)
      BY <1>3, <1>5, <2>1
    <3>2. /\ c \in left => \/ Head(queue) = Ask(c)
                           \/ Head(queue) # Release(c) /\ c \in subs
          /\ c \in Public => ((\/ Head(queue) = Ask(c)
                               \/ Head(queue) # Release(c) /\ c \in subs) => c \in left)
      BY <2>1
    <3> QED
      BY <2>2, <3>1, <3>2, EndsWithTaken
  <2> QED
    BY <1>2, <1>5, <2>1, <2>2, <2>3 DEF Following
<1> QED
  BY <1>4, <1>5

\* A subscription is granted to a known user, and a known user stays known.
LEMMA ServerStep ==
  ASSUME IInv, NEW s \in Sockets,
         Handle(s) \/ (\E u \in Users : FinishAuth(s, u)) \/ Pong(s)
  PROVE  IInv'
<1> USE ChannelAssumption DEF ChannelAssumption, IInv
<1>1. ASSUME Take(s)
      PROVE  /\ inbox' \in [Sockets -> Seq(Messages)]
             /\ Head(inbox[s]) \in Messages
  BY <1>1, HeadTailProperties DEF Take, Typed, TypeOK
<1>2. subscriptions \in [Sockets -> SUBSET Channels]
  BY DEF Typed, TypeOK
<1>3. ASSUME open[s] PROVE ~(s > socket)
  BY <1>3 DEF Typed
<1>4. CASE StartAuth(s)
  <2>1. /\ Head(inbox[s]).arg \in Users /\ inbox' \in [Sockets -> Seq(Messages)]
        /\ Head(inbox[s]) = AuthWith(Head(inbox[s]).arg)
    BY <1>1, <1>4, MessageFacts DEF StartAuth
  <2>2. \A c \in Channels : Head(inbox[s]) # Ask(c) /\ Head(inbox[s]) # Release(c)
    BY <2>1, MessageFacts
  <2>3. Take(s) /\ UNCHANGED <<page, open, subscriptions>>
    BY <1>4 DEF StartAuth
  <2>4. Following'
    BY <1>2, <2>2, <2>3, TakeStep
  <2>5. Typed' /\ PrivateNeedsUser'
    BY <1>4, <2>1 DEF StartAuth, page, Typed, TypeOK, PrivateNeedsUser
  <2> QED
    BY <2>4, <2>5
<1>5. CASE HandleSubscribe(s)
  <2>1. PICK c \in Channels : c = Head(inbox[s]).arg /\ Head(inbox[s]) = Ask(c)
    BY <1>1, <1>5, MessageFacts DEF HandleSubscribe
  <2>2. /\ Take(s) /\ UNCHANGED <<page, open, userId>> /\ open[s]
        /\ subscriptions' = [subscriptions EXCEPT ![s] =
                               IF Allowed(s, c) THEN subscriptions[s] \cup {c}
                               ELSE subscriptions[s]]
    BY <1>5, <2>1 DEF HandleSubscribe, Take
  <2>3. /\ subscriptions' \in [Sockets -> SUBSET Channels]
        /\ \A r \in Sockets \ {s} : subscriptions'[r] = subscriptions[r]
        /\ subscriptions'[s] = IF Allowed(s, c) THEN subscriptions[s] \cup {c}
                               ELSE subscriptions[s]
    BY <1>2, <2>2
  <2>4. c \in Public => Allowed(s, c)
    BY DEF Allowed
  <2>5. \A d \in Channels : (Ask(c) = Ask(d) <=> c = d) /\ Ask(c) # Release(d)
    BY MessageFacts
  <2>6. Following'
    BY <2>1, <2>2, <2>3, <2>4, <2>5, TakeStep
  <2>7. Typed'
    <3>1. inbox' \in [Sockets -> Seq(Messages)]
      BY <1>1, <2>2
    <3>2. UNCHANGED <<page, open, validating, userId, isAlive>>
      BY <1>5 DEF HandleSubscribe
    <3>3. \A r \in Sockets : r > socket => subscriptions'[r] = {}
      BY <1>3, <2>2, <2>3 DEF Typed
    <3> QED
      BY <2>3, <3>1, <3>2, <3>3 DEF page, Typed, TypeOK
  <2>8. PrivateNeedsUser'
    BY <2>2, <2>3 DEF Allowed, PrivateNeedsUser
  <2> QED
    BY <2>6, <2>7, <2>8
<1>6. CASE HandleUnsubscribe(s)
  <2>1. PICK c \in Channels : c = Head(inbox[s]).arg /\ Head(inbox[s]) = Release(c)
    BY <1>1, <1>6, MessageFacts DEF HandleUnsubscribe
  <2>2. /\ Take(s) /\ UNCHANGED <<page, open, userId>>
        /\ subscriptions' = [subscriptions EXCEPT ![s] = subscriptions[s] \ {c}]
    BY <1>6, <2>1 DEF HandleUnsubscribe
  <2>3. /\ subscriptions' \in [Sockets -> SUBSET Channels]
        /\ \A r \in Sockets \ {s} : subscriptions'[r] = subscriptions[r]
        /\ subscriptions'[s] = subscriptions[s] \ {c}
    BY <1>2, <2>2
  <2>4. \A d \in Channels : (Release(c) = Release(d) <=> c = d) /\ Release(c) # Ask(d)
    BY MessageFacts
  <2>5. Following'
    BY <2>1, <2>2, <2>3, <2>4, TakeStep
  <2>6. Typed'
    <3>1. inbox' \in [Sockets -> Seq(Messages)]
      BY <1>1, <2>2
    <3>2. UNCHANGED <<page, open, validating, userId, isAlive>>
      BY <1>6 DEF HandleUnsubscribe
    <3>3. \A r \in Sockets : r > socket => subscriptions'[r] = {}
      BY <2>3 DEF Typed
    <3> QED
      BY <2>3, <3>1, <3>2, <3>3 DEF page, Typed, TypeOK
  <2>7. PrivateNeedsUser'
    BY <2>2, <2>3 DEF PrivateNeedsUser
  <2> QED
    BY <2>5, <2>6, <2>7
<1>7. ASSUME NEW u \in Users, FinishAuth(s, u) PROVE IInv'
  <2>1. PICK answer \in {u, userId[s]} : userId' = [userId EXCEPT ![s] = answer]
    BY <1>7 DEF FinishAuth
  <2>2. /\ answer \in Users \cup {Nobody} /\ (userId[s] # Nobody => answer # Nobody)
        /\ validating' \in [Sockets -> SUBSET Users]
        /\ UNCHANGED <<page, open, inbox, subscriptions, isAlive>>
    BY <1>7 DEF FinishAuth, Typed, TypeOK
  <2>3. Typed'
    BY <2>1, <2>2 DEF page, Typed, TypeOK
  <2>4. PrivateNeedsUser'
    BY <2>1, <2>2 DEF Typed, TypeOK, PrivateNeedsUser
  <2>5. Following'
    BY <2>2 DEF page, Following
  <2> QED
    BY <2>3, <2>4, <2>5
<1>8. CASE Pong(s)
  BY <1>8 DEF Pong, page, Typed, TypeOK, PrivateNeedsUser, Following
<1> QED
  BY <1>4, <1>5, <1>6, <1>7, <1>8 DEF Handle

\* Every step keeps the invariant.
LEMMA Inductive == IInv /\ [Next]_vars => IInv'
<1> SUFFICES ASSUME IInv, [Next]_vars PROVE IInv'
  OBVIOUS
<1>1. CASE \/ \E u \in Users : Login(u)
           \/ \E c \in Channels : Subscribe(c) \/ Unsubscribe(c)
           \/ Connect \/ Lose \/ ConnectFails \/ Terminated
  BY <1>1, PageStep
<1>2. CASE Beat
  BY <1>2, DropStep DEF Beat
<1>3. ASSUME NEW s \in Sockets, NoticeClose(s) PROVE IInv'
  <2>1. isAlive' \in [Sockets -> BOOLEAN]
    BY <1>3 DEF NoticeClose, IInv, Typed, TypeOK
  <2> QED
    BY <1>3, <2>1, DropStep DEF NoticeClose
<1>4. CASE UNCHANGED vars
  BY <1>4 DEF vars, page, server, IInv, Typed, TypeOK, PrivateNeedsUser, Following
<1> QED
  BY <1>1, <1>2, <1>3, <1>4, ServerStep DEF Next

LEMMA Invariance == Spec => []IInv
<1> QED
  BY InitIInv, Inductive, PTL DEF Spec

-----------------------------------------------------------------------------
\* Private channels are sent to known users only, whatever a page sends in
\* whatever order, and however its connections come and go.
THEOREM PrivateStaysPrivate == Spec => []PrivateNeedsUser
<1>1. IInv => PrivateNeedsUser
  BY DEF IInv
<1> QED
  BY <1>1, Invariance, PTL

\* Every variable has its type, and once all that a page has sent on its open
\* connection is handled the server sends it the public channels it wants, and
\* nothing that it does not want.
THEOREM SubscriptionsFollow == Spec => []PublicChannelsFollow
<1>1. IInv => PublicChannelsFollow
  <2> SUFFICES ASSUME IInv, Settled
               PROVE  /\ subscriptions[socket] \subseteq wanted
                      /\ wanted \cap Public \subseteq subscriptions[socket]
    BY DEF IInv, Typed, PublicChannelsFollow
  <2>1. DOMAIN inbox[socket] = {} /\ link = "open" /\ open[socket]
    BY DEF Settled
  <2>2. \A c : EndsWith(inbox[socket], subscriptions[socket], c)
                <=> c \in subscriptions[socket]
    BY <2>1 DEF EndsWith
  <2>3. subscriptions[socket] \subseteq Channels
    BY <2>1 DEF IInv, Typed, TypeOK
  <2>4. Public \subseteq Channels
    BY DEF Channels
  <2> QED
    BY <2>1, <2>2, <2>3, <2>4 DEF IInv, Following
<1> QED
  BY <1>1, Invariance, PTL
=============================================================================
