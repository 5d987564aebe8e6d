------------------------------ MODULE ChatRelay ------------------------------
(***************************************************************************)
(* The requests of lobby clients and their way through the broker:         *)
(* readJsonPacket, dispatch and the handlers (lobbyAcceptorReceiver.cpp,   *)
(* nh_lobby.cpp, nh_chat.cpp), the broker's answers (brokerConnector.cpp,  *)
(* connectorHandler.cpp) and what writes them to a client (lobbyUser.cpp). *)
(*                                                                         *)
(* It composes with two other modules: LobbyUserManager.tla shows how the  *)
(* registry behaves under its threads and BrokerConnector.tla how m_user   *)
(* does; here looking up a user is one step, and so is losing the link.    *)
(***************************************************************************)
EXTENDS Naturals, Sequences, FiniteSets

CONSTANTS
  MaxId,      \* bound on s_identitySeed, whatever the traffic
  IdLimit,    \* 2^32: what sendMsg keeps of an identity
  Indices,    \* server numbers the broker gives out
  MaxQueue,   \* bound on the packets under way in each direction
  MaxUsers,   \* bound on the clients there are at a time
  Traffics,   \* what may be sent in a behaviour; each has
              \*   kinds: "short", "login", "chat" by clients, "says" by the broker
              \*          of its own accord
              \*   lengths: of a JSON text
              \*   seqOk: whether a packetSequenceNum is readable
              \*   ids, links: bounds on the identities and the links
  Growth,     \* how much longer a JSON text gets by being read and written again
  Added,      \* what sendMsg adds to a chat
  Members,    \* what isOnline, SendJsonPacket and FastWriter add for a client
  LobbyMax,   \* LOBBY_PROTOCOL::PT_JSON::MAX_BODY_SIZE
  BrokerMax   \* BROKER_PROTOCOL::PT_JSON::MAX_BODY_SIZE

ASSUME IdAssumption == MaxId \in Nat /\ IdLimit \in Nat \ {0}

ASSUME TrafficAssumption ==
  \A t \in Traffics : t.lengths \subseteq Nat /\ t.seqOk \subseteq BOOLEAN

\* The two limits leave room for a text of the broker written again: an escape
\* such as \u001f takes six characters, and the limits are 4000 and 30000.
ASSUME SizeAssumption ==
  /\ Growth \in Nat \ {0} /\ Added \in Nat /\ LobbyMax \in Nat /\ BrokerMax \in Nat
  /\ Members \in Nat
  /\ Growth * BrokerMax + Members + 1 <= LobbyMax

VARIABLES
  traffic,    \* which of Traffics this behaviour has
  nextId,     \* s_identitySeed
  users,      \* identities in m_users
  req,        \* the chat each connection's strand is working on, if any
  reserved,   \* connections that closeReserve was called for
  link,       \* m_user: "none" (nullptr), "up" or "gone" (a deleted user)
  gen,        \* the number of the link
  given,      \* the number the broker gave this server on this link, or 0
  idx,        \* g_idx4Broker
  authed,     \* the answer to /auth has been handled on this link
  toBroker,   \* packets under way to the broker
  toLobby,    \* packets under way from it
  fault       \* "none", "freed", "threw", or whose packet ran over its array

vars == <<traffic, nextId, users, req, reserved, link, gen, given, idx, authed,
          toBroker, toLobby, fault>>

sessionVars == <<nextId, users, reserved>>
linkVars    == <<link, gen, given, idx, authed>>
wireVars    == <<toBroker, toLobby>>

NoReq == [type |-> "none"]
Idle(c) == c \in users /\ req[c] = NoReq

---------------------------------------------------------------------------
(* Writing a JSON value that was read: a number such as 0.1 comes back with *)
(* all its digits, a character as an escape.                                *)

Serialized(n) == {n, Growth * n}

\* ConnectorUser::SendJsonPacket copies the text into the packet untested.
\* With no user nothing is sent; a link that ended left a deleted one.
SendToBroker(p, n) ==
  /\ Len(toBroker) < MaxQueue
  /\ toBroker' = IF link = "up" /\ n <= BrokerMax
                 THEN Append(toBroker, [p EXCEPT !.len = n]) ELSE toBroker
  /\ fault' = IF link = "gone" THEN "freed"
              ELSE IF link = "up" /\ n > BrokerMax THEN "broker" ELSE fault

\* User::SendJsonPacket copies text and terminator before it tests their size.
ClientFault(m, to) ==
  IF to # {} /\ m.seqOk /\ \E n \in Serialized(m.len) : n + Members + 1 > LobbyMax
  THEN "client" ELSE fault

---------------------------------------------------------------------------
(* Clients.                                                                *)

\* onAccept: a connection has its identity from the seed, and is registered.
Accept ==
  /\ nextId < traffic.ids /\ Cardinality(users) < MaxUsers
  /\ users' = users \union {nextId}
  /\ nextId' = nextId + 1
  /\ UNCHANGED <<req, reserved, linkVars, wireVars, fault>>

\* onClose: the broker is told, and the user is gone.
Close(c) ==
  /\ Idle(c)
  /\ SendToBroker([type |-> "logout", len |-> 0], Added)
  /\ users' = users \ {c}
  /\ reserved' = reserved \ {c}
  /\ UNCHANGED <<nextId, req, linkVars, toLobby>>

\* readJsonPacket: a part too short for its header ends the session.
ReadShort(c) ==
  /\ "short" \in traffic.kinds /\ Idle(c)
  /\ reserved' = reserved \union {c}
  /\ UNCHANGED <<nextId, users, req, linkVars, wireVars, fault>>

\* A body that is empty, too long, cut or no JSON, and a URL nobody handles: the
\* packet is dropped and the session goes on.  So it does when the handler
\* throws: a member of another kind than expected, or a socket that is down.
ReadDropped(c) ==
  Idle(c) /\ UNCHANGED <<sessionVars, req, linkVars, wireVars, fault>>

\* login with a version other than the configured one: answered, then closed.
\* An answer needs a readable packetSequenceNum: without one SendJsonPacket
\* throws, and dispatch catches that before closeReserve is reached.
LoginRefused(c, seqOk) ==
  reserved' = IF seqOk THEN reserved \union {c} ELSE reserved

\* With the right version nothing is answered: what follows is commented out.
Login(c, sameVersion, seqOk) ==
  /\ "login" \in traffic.kinds /\ Idle(c)
  /\ IF sameVersion THEN UNCHANGED reserved ELSE LoginRefused(c, seqOk)
  /\ UNCHANGED <<nextId, users, req, linkVars, wireVars, fault>>

\* What sendMsg passes on of an identity.
Identity32(c) == c % IdLimit

\* sendMsg, up to the value of g_idx4Broker: the text is not empty, and a private
\* one names somebody (without that sendMsg returns: ReadDropped).  stamp is the
\* model's: on which answered link.
ChatStamp(c, n, seqOk) ==
  /\ "chat" \in traffic.kinds /\ Idle(c) /\ n <= LobbyMax
  /\ req' = [req EXCEPT ![c] =
       [type |-> "chat", identity |-> Identity32(c), svr |-> idx,
        len |-> n, seqOk |-> seqOk, stamp |-> IF authed THEN gen ELSE 0]]
  /\ UNCHANGED <<sessionVars, linkVars, wireVars, fault>>

\* ... and BrokerConnector::sendJsonPacket: by now the link may be another one.
ChatSend(c) ==
  /\ req[c] # NoReq
  /\ \E n \in Serialized(req[c].len) : SendToBroker(req[c], n + Added)
  /\ req' = [req EXCEPT ![c] = NoReq]
  /\ UNCHANGED <<sessionVars, linkVars, toLobby>>

---------------------------------------------------------------------------
(* The link.                                                               *)

\* onConnect: a new user, and /auth goes out.  The connection takes an identity.
LinkUp ==
  /\ link # "up" /\ gen < traffic.links /\ nextId < traffic.ids
  /\ link' = "up" /\ gen' = gen + 1
  /\ given' = 0 /\ authed' = FALSE
  /\ nextId' = nextId + 1
  /\ toBroker' = <<[type |-> "auth", len |-> 0]>>
  /\ toLobby' = <<>>
  /\ UNCHANGED <<users, req, reserved, idx, fault>>

\* onClose deletes the user; g_idx4Broker stays.
LinkDown ==
  /\ link = "up"
  /\ link' = "gone"
  /\ given' = 0 /\ authed' = FALSE
  /\ toBroker' = <<>> /\ toLobby' = <<>>
  /\ UNCHANGED <<sessionVars, req, gen, idx, fault>>

---------------------------------------------------------------------------
(* The broker, as the lobby's handlers expect it.                          *)

Reply(s) ==
  /\ Len(toLobby) + Len(s) <= MaxQueue
  /\ toLobby' = toLobby \o s
  /\ UNCHANGED <<sessionVars, req, link, gen, idx, authed, fault>>

\* /auth is answered with a number for this server ...
BrokerAuth(i) ==
  /\ toBroker # <<>> /\ Head(toBroker).type = "auth"
  /\ toBroker' = Tail(toBroker)
  /\ given' = i
  /\ Reply(<<[type |-> "auth", svr |-> i, len |-> 0]>>)

\* ... a chat is acknowledged, with the identity it came with, or it is not ...
BrokerChat(ack) ==
  /\ toBroker # <<>> /\ Head(toBroker).type # "auth"
  /\ toBroker' = Tail(toBroker)
  /\ Head(toBroker).type = "logout" => ~ack
  /\ Reply(IF ack THEN <<[Head(toBroker) EXCEPT !.type = "ack"]>> ELSE <<>>)
  /\ UNCHANGED given

\* ... and what the users of other servers say comes in.
BrokerSays(chan, n, seqOk) ==
  /\ "says" \in traffic.kinds /\ link = "up"
  /\ Reply(<<[type |-> chan, len |-> n, seqOk |-> seqOk]>>)
  /\ UNCHANGED <<toBroker, given>>

---------------------------------------------------------------------------
(* What the broker sends, handled in the strand of its connection.         *)

\* Mutant: the size is not tested.
TooLongNever(m) == FALSE
TooLong(m) == m.len > BrokerMax

\* The next packet; the link's strand does not touch clients' strands.
Receive(m) ==
  /\ toLobby # <<>> /\ m = Head(toLobby)
  /\ toLobby' = Tail(toLobby)
  /\ UNCHANGED <<sessionVars, req, link, gen, given, toBroker>>

\* A body that is too long (or cut, or no JSON, or with a URL nobody handles, or
\* /loginedUser, whose handler looks the user up and does nothing with it).
HandleDropped(m) ==
  /\ Receive(m) /\ TooLong(m)
  /\ UNCHANGED <<idx, authed, fault>>

\* Mutant: the number of the first link is kept.
StoreIndexOnce(m) == idx' = IF idx = 0 THEN m.svr ELSE idx
StoreIndex(m) == idx' = m.svr

HandleAuth(m) ==
  /\ Receive(m) /\ ~TooLong(m) /\ m.type = "auth"
  /\ StoreIndex(m)
  /\ authed' = TRUE
  /\ UNCHANGED fault

\* chatSendMsg (and isOnline): to the user registered under the identity.  An
\* unreadable packetSequenceNum throws, which dispatch catches.
HandleAck(m) ==
  LET to == {m.identity} \intersect users IN
  /\ Receive(m) /\ ~TooLong(m) /\ m.type = "ack"
  /\ fault' = ClientFault(m, to)
  /\ UNCHANGED <<idx, authed>>

\* chatReceiveMsg: 1 goes to everyone, and to nobody if the first one throws; 2
\* to the user entered under the account, and nothing enters any.
HandleSays(m) ==
  /\ Receive(m) /\ ~TooLong(m) /\ m.type \in {"all", "private"}
  /\ fault' = ClientFault(m, IF m.type = "all" THEN users ELSE {})
  /\ UNCHANGED <<idx, authed>>

\* A part shorter than the broker's header: read throws where nothing catches.
HandleShort ==
  /\ link = "up"
  /\ fault' = "threw"
  /\ UNCHANGED <<sessionVars, req, linkVars, wireVars>>

---------------------------------------------------------------------------
Init ==
  /\ traffic \in Traffics
  /\ nextId = 1 /\ users = {}
  /\ req = [c \in 1 .. MaxId |-> NoReq]
  /\ reserved = {}
  /\ link = "none" /\ gen = 0 /\ given = 0 /\ idx = 0 /\ authed = FALSE
  /\ toBroker = <<>> /\ toLobby = <<>>
  /\ fault = "none"

Client(c) ==
  \/ Close(c)
  \/ ReadShort(c)
  \/ ReadDropped(c)
  \/ \E same \in BOOLEAN, seqOk \in traffic.seqOk : Login(c, same, seqOk)
  \/ \E n \in traffic.lengths, seqOk \in traffic.seqOk : ChatStamp(c, n, seqOk)
  \/ ChatSend(c)

TheBroker ==
  \/ \E i \in Indices : BrokerAuth(i)
  \/ \E ack \in BOOLEAN : BrokerChat(ack)
  \/ \E chan \in {"all", "private"}, n \in traffic.lengths,
       seqOk \in traffic.seqOk : BrokerSays(chan, n, seqOk)

Handle ==
  \/ HandleShort
  \/ \E m \in {toLobby[k] : k \in DOMAIN toLobby} :
       HandleDropped(m) \/ HandleAuth(m) \/ HandleAck(m) \/ HandleSays(m)

\* A fault ends what is known.
Next ==
  /\ fault = "none" /\ UNCHANGED traffic
  /\ \/ Accept
     \/ \E c \in 1 .. MaxId : Client(c)
     \/ LinkUp
     \/ LinkDown
     \/ TheBroker
     \/ Handle

Spec == Init /\ [][Next]_vars

---------------------------------------------------------------------------
\* A chat carries the number that the broker gave this server on the link it is
\* sent on, unless it was stamped before the answer to /auth was handled there:
\* g_idx4Broker outlives the link it is from.
IndexOfThisLink ==
  \A k \in DOMAIN toBroker :
    toBroker[k].type = "chat" /\ toBroker[k].stamp = gen
      => toBroker[k].svr = given

\* The room of a packet to a client is not exceeded by anything the broker sends,
\* even written again at its longest: SendJsonPacket copies before it tests, and
\* only the broker's smaller limit, tested on the way in, keeps that in bounds.
ClientPacketFits == fault # "client"
=============================================================================
