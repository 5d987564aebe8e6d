--------------------------- MODULE ChatRelayProofs ---------------------------
(***************************************************************************)
(* What holds of ChatRelay for any number of clients, identities, links    *)
(* and packets under way, and for any sizes within SizeAssumption.         *)
(***************************************************************************)
EXTENDS ChatRelay, TLAPS

\* What a chat and its acknowledgement carry.
Carries(type) ==
  [type : {type}, identity : Nat, svr : Indices \cup {0}, len : Nat, seqOk : BOOLEAN,
   stamp : Nat]
Chats == Carries("chat")
Acks  == Carries("ack")

\* The packets to the broker and from it.
BrokerPackets == [type : {"auth", "logout"}, len : Nat] \cup Chats
LobbyPackets  == [type : {"auth"}, svr : Indices, len : Nat] \cup Acks
                   \cup [type : {"all", "private"}, len : Nat, seqOk : BOOLEAN]

\* The values of the variables.
TypeOK ==
  /\ traffic \in Traffics
  /\ nextId \in Nat \ {0} /\ users \in SUBSET Nat /\ reserved \in SUBSET Nat
  /\ req \in [1 .. MaxId -> Chats \cup {NoReq}]
  /\ link \in {"none", "up", "gone"} /\ gen \in Nat
  /\ given \in Indices \cup {0} /\ idx \in Indices \cup {0} /\ authed \in BOOLEAN
  /\ toBroker \in Seq(BrokerPackets) /\ toLobby \in Seq(LobbyPackets)
  /\ fault \in {"none", "freed", "threw", "broker", "client"}

\* Packets are under way, and an answer to /auth is handled, only on a link
\* that is up, and such a link has a number.
WiresOfLink ==
  /\ link # "up" => toBroker = <<>> /\ toLobby = <<>> /\ ~authed
  /\ link = "up" => gen > 0

\* There is one /auth per link and it goes first: while it is under way nothing
\* has been answered, and its answer is the number given on this link.
AuthOfLink ==
  /\ \A k \in DOMAIN toBroker : toBroker[k].type = "auth" =>
       /\ k = 1 /\ ~authed
       /\ \A j \in DOMAIN toLobby : toLobby[j].type # "auth"
  /\ \A j \in DOMAIN toLobby : toLobby[j].type = "auth" => toLobby[j].svr = given
  /\ authed => idx = given

\* A chat stamped on this link has its number.
Stamped(m) ==
  /\ m.stamp <= gen
  /\ link = "up" /\ m.stamp = gen => authed /\ m.svr = given

StampsOfLink ==
  /\ \A c \in 1 .. MaxId : req[c] # NoReq => Stamped(req[c])
  /\ \A k \in DOMAIN toBroker : toBroker[k].type = "chat" => Stamped(toBroker[k])

Inv == /\ TypeOK /\ WiresOfLink /\ AuthOfLink /\ StampsOfLink
       /\ ClientPacketFits

----------------------------------------------------------------------------
(* Queues. *)

\* What is in a queue after a packet was appended.
LEMMA Appended ==
  ASSUME NEW S, NEW q \in Seq(S), NEW e \in S
  PROVE  /\ Append(q, e) \in Seq(S)
         /\ \A k \in DOMAIN Append(q, e) :
              \/ k \in DOMAIN q /\ Append(q, e)[k] = q[k]
              \/ k = Len(q) + 1 /\ Append(q, e)[k] = e
  OBVIOUS

\* Concatenating one packet is appending it.
LEMMA Concatenated ==
  ASSUME NEW S, NEW q \in Seq(S), NEW e \in S
  PROVE  /\ q \o <<e>> \in Seq(S)
         /\ \A k \in DOMAIN (q \o <<e>>) :
              \/ k \in DOMAIN q /\ (q \o <<e>>)[k] = q[k]
              \/ k = Len(q) + 1 /\ (q \o <<e>>)[k] = e
  OBVIOUS

\* What is in a queue after its first packet was taken.
LEMMA Taken ==
  ASSUME NEW S, NEW q \in Seq(S), q # <<>>
  PROVE  /\ 1 \in DOMAIN q /\ Head(q) = q[1] /\ Head(q) \in S
         /\ Tail(q) \in Seq(S)
         /\ \A k \in DOMAIN Tail(q) : k \in Nat \ {0} /\ k + 1 \in DOMAIN q /\ Tail(q)[k] = q[k + 1]
  OBVIOUS

\* What is kept of an identity is a number.
LEMMA IdentityKept ==
  ASSUME NEW c \in Nat
  PROVE  Identity32(c) \in Nat
  BY IdAssumption DEF Identity32

\* A text no longer than the broker's limit, written again, fits the room of a
\* packet to a client with its terminator.
LEMMA WrittenAgainFits ==
  ASSUME NEW l \in Nat, l <= BrokerMax, NEW n \in Serialized(l)
  PROVE  n \in Nat /\ n + Members + 1 <= LobbyMax
<1>1. Growth * l <= Growth * BrokerMax /\ BrokerMax <= Growth * BrokerMax
  BY SizeAssumption
<1>. QED  BY <1>1, SizeAssumption DEF Serialized

----------------------------------------------------------------------------
(* Sending and what it keeps. *)

\* SendJsonPacket to the broker keeps the queue's packets in their order, and
\* adds the packet only on a link that is up; it never writes to a client.
LEMMA SentToBroker ==
  ASSUME Inv, NEW p, NEW n, SendToBroker(p, n), fault = "none",
         n <= BrokerMax => [p EXCEPT !.len = n] \in BrokerPackets
  PROVE  /\ toBroker' \in Seq(BrokerPackets)
         /\ fault' \in {"none", "freed", "broker"}
         /\ link # "up" => toBroker' = toBroker
         /\ \A k \in DOMAIN toBroker' :
              \/ k \in DOMAIN toBroker /\ toBroker'[k] = toBroker[k]
              \/ /\ n <= BrokerMax /\ link = "up"
                 /\ toBroker'[k] = [p EXCEPT !.len = n]
<1>1. toBroker \in Seq(BrokerPackets)
  BY DEF Inv, TypeOK
<1>2. CASE link = "up" /\ n <= BrokerMax
  <2>1. toBroker' = Append(toBroker, [p EXCEPT !.len = n])
    BY <1>2 DEF SendToBroker
  <2>2. \A k \in DOMAIN toBroker' :
              \/ k \in DOMAIN toBroker /\ toBroker'[k] = toBroker[k]
              \/ toBroker'[k] = [p EXCEPT !.len = n]
    BY <1>1, <1>2, <2>1, Appended
  <2>3. toBroker' \in Seq(BrokerPackets)
    BY <1>1, <1>2, <2>1, Appended
  <2>. QED
    BY <1>2, <2>2, <2>3 DEF SendToBroker
<1>3. CASE ~(link = "up" /\ n <= BrokerMax)
  BY <1>1, <1>3 DEF SendToBroker
<1>. QED  BY <1>2, <1>3

\* A chat with another length is still a chat, with the same stamp.
LEMMA ChatOfLength ==
  ASSUME NEW p \in Chats, NEW n \in Nat
  PROVE  LET m == [p EXCEPT !.len = n] IN
         /\ m \in Chats /\ m \in BrokerPackets
         /\ m.type = "chat" /\ m.stamp = p.stamp /\ m.svr = p.svr
  BY DEF Chats, Carries, BrokerPackets

\* The broker answers a chat with what it carried.
LEMMA AckOfChat ==
  ASSUME NEW p \in Chats
  PROVE  LET m == [p EXCEPT !.type = "ack"] IN
         m \in Acks /\ m \in LobbyPackets /\ m.type = "ack"
  BY DEF Chats, Acks, Carries, LobbyPackets

\* What a packet to the broker is, by its type.
LEMMA BrokerPacketTypes ==
  ASSUME NEW p \in BrokerPackets
  PROVE  /\ p.type \in {"auth", "logout", "chat"}
         /\ p.type = "chat" <=> p \in Chats
         /\ p.len \in Nat
  BY DEF Chats, Carries, BrokerPackets

\* What a packet from the broker is, by its type.
LEMMA LobbyPacketTypes ==
  ASSUME NEW p \in LobbyPackets
  PROVE  /\ p.type \in {"auth", "ack", "all", "private"} /\ p.len \in Nat
         /\ p.type = "auth" => p.svr \in Indices
         /\ p.type = "ack" => p \in Acks
         /\ p.type # "auth" => p.seqOk \in BOOLEAN
  BY DEF Acks, Carries, LobbyPackets

----------------------------------------------------------------------------
(* One lemma per group of actions: each keeps Inv. *)

\* onAccept, readJsonPacket without a chat, login, and a part of the broker's
\* too short for its header: neither requests nor packets change.
LEMMA SessionStep ==
  ASSUME Inv, fault = "none", UNCHANGED traffic,
         \/ Accept \/ HandleShort
         \/ \E c \in 1 .. MaxId :
              \/ ReadShort(c) \/ ReadDropped(c)
              \/ \E same \in BOOLEAN, seqOk \in traffic.seqOk : Login(c, same, seqOk)
  PROVE  Inv'
<1>1. TypeOK'
  <2>1. CASE Accept
    BY <2>1 DEF Inv, TypeOK, Accept, linkVars, wireVars
  <2>2. CASE HandleShort
    BY <2>2 DEF Inv, TypeOK, HandleShort, sessionVars, linkVars, wireVars
  <2>3. ASSUME NEW c \in 1 .. MaxId,
               ReadShort(c) \/ ReadDropped(c)
                 \/ \E same \in BOOLEAN, seqOk \in traffic.seqOk : Login(c, same, seqOk)
        PROVE  TypeOK'
    <3>1. /\ reserved' \in {reserved, reserved \union {c}} /\ c \in users
          /\ UNCHANGED <<nextId, users, req, linkVars, wireVars, fault>>
      BY <2>3 DEF ReadShort, ReadDropped, Login, LoginRefused, Idle, sessionVars
    <3>. QED
      BY <3>1 DEF Inv, TypeOK, linkVars, wireVars
  <2>. QED  BY <2>1, <2>2, <2>3
<1>2. UNCHANGED <<req, linkVars, wireVars>> /\ fault' \in {"none", "threw"}
  BY DEF Accept, HandleShort, ReadShort, ReadDropped, Login
<1>. QED
  BY <1>1, <1>2 DEF Inv, WiresOfLink, AuthOfLink, StampsOfLink, Stamped, ClientPacketFits,
                    linkVars, wireVars

\* onClose tells the broker, with a packet that is neither /auth nor a chat.
LEMMA CloseStep ==
  ASSUME Inv, fault = "none", UNCHANGED traffic, NEW c \in 1 .. MaxId, Close(c)
  PROVE  Inv'
<1> DEFINE p == [type |-> "logout", len |-> 0]
           m == [p EXCEPT !.len = Added]
<1>1. m \in BrokerPackets /\ m.type = "logout"
  BY SizeAssumption DEF BrokerPackets
<1>2. /\ toBroker' \in Seq(BrokerPackets) /\ fault' \in {"none", "freed", "broker"}
      /\ link # "up" => toBroker' = toBroker
      /\ \A k \in DOMAIN toBroker' :
           \/ k \in DOMAIN toBroker /\ toBroker'[k] = toBroker[k]
           \/ toBroker'[k] = m
  BY <1>1, SentToBroker DEF Close
<1>3. UNCHANGED <<nextId, req, linkVars, toLobby>> /\ users' \subseteq users
      /\ reserved' \subseteq reserved
  BY DEF Close
<1> HIDE DEF m
<1>4. TypeOK'
  BY <1>2, <1>3 DEF Inv, TypeOK, linkVars
<1>5. WiresOfLink'
  BY <1>2, <1>3 DEF Inv, WiresOfLink, linkVars
<1>6. AuthOfLink'
  BY <1>1, <1>2, <1>3 DEF Inv, AuthOfLink, linkVars
<1>7. StampsOfLink'
  BY <1>1, <1>2, <1>3 DEF Inv, StampsOfLink, Stamped, linkVars
<1>. QED
  BY <1>2, <1>3, <1>4, <1>5, <1>6, <1>7 DEF Inv, ClientPacketFits

\* sendMsg up to g_idx4Broker: on an answered link its value is the number given.
LEMMA ChatStampStep ==
  ASSUME Inv, fault = "none", UNCHANGED traffic, NEW c \in 1 .. MaxId,
         NEW n \in traffic.lengths, NEW seqOk \in traffic.seqOk, ChatStamp(c, n, seqOk)
  PROVE  Inv'
<1> DEFINE m == [type |-> "chat", identity |-> Identity32(c), svr |-> idx,
                 len |-> n, seqOk |-> seqOk, stamp |-> IF authed THEN gen ELSE 0]
<1>1. c \in Nat /\ n \in Nat /\ seqOk \in BOOLEAN
  BY TrafficAssumption, IdAssumption DEF Inv, TypeOK
<1>2. m \in Chats
  <2>1. (IF authed THEN gen ELSE 0) \in Nat
    BY DEF Inv, TypeOK
  <2>. QED
    BY <1>1, <2>1, IdentityKept DEF Inv, TypeOK, Chats, Carries
<1>3. Stamped(m)
  BY DEF Inv, TypeOK, WiresOfLink, AuthOfLink, Stamped
<1>4. /\ req' = [req EXCEPT ![c] = m]
      /\ UNCHANGED <<sessionVars, linkVars, wireVars, fault>>
  BY DEF ChatStamp
<1> HIDE DEF m
<1>5. TypeOK'
  BY <1>2, <1>4 DEF Inv, TypeOK, sessionVars, linkVars, wireVars
<1>6. StampsOfLink'
  <2>1. ASSUME NEW d \in 1 .. MaxId, req'[d] # NoReq PROVE Stamped(req'[d])
    BY <1>3, <1>4, <2>1 DEF Inv, TypeOK, StampsOfLink
  <2>. QED
    BY <1>4, <2>1 DEF Inv, StampsOfLink, Stamped, linkVars, wireVars
<1>. QED
  BY <1>4, <1>5, <1>6 DEF Inv, WiresOfLink, AuthOfLink, ClientPacketFits,
                          linkVars, wireVars

\* BrokerConnector::sendJsonPacket: the chat goes out on the link there is by now,
\* with the stamp of the one it was written for.
LEMMA ChatSendStep ==
  ASSUME Inv, fault = "none", UNCHANGED traffic, NEW c \in 1 .. MaxId, ChatSend(c)
  PROVE  Inv'
<1>1. req[c] \in Chats /\ Stamped(req[c])
  BY DEF ChatSend, Inv, TypeOK, StampsOfLink
<1>2. PICK n \in Serialized(req[c].len) : SendToBroker(req[c], n + Added)
  BY DEF ChatSend
<1> DEFINE m == [req[c] EXCEPT !.len = n + Added]
<1>3. n + Added \in Nat
  <2>1. req[c].len \in Nat
    BY <1>1 DEF Chats, Carries
  <2>. QED
    BY <2>1, <1>2, SizeAssumption DEF Serialized
<1>4. m \in BrokerPackets /\ m.type = "chat" /\ m.stamp = req[c].stamp /\ m.svr = req[c].svr
  BY <1>1, <1>3, ChatOfLength
<1>5. /\ toBroker' \in Seq(BrokerPackets) /\ fault' \in {"none", "freed", "broker"}
      /\ link # "up" => toBroker' = toBroker
      /\ \A k \in DOMAIN toBroker' :
           \/ k \in DOMAIN toBroker /\ toBroker'[k] = toBroker[k]
           \/ toBroker'[k] = m
  BY <1>2, <1>4, SentToBroker
<1>6. /\ req' = [req EXCEPT ![c] = NoReq]
      /\ UNCHANGED <<sessionVars, linkVars, toLobby>>
  BY DEF ChatSend
<1>7. Stamped(m)
  BY <1>1, <1>4 DEF Stamped
<1> HIDE DEF m
<1>8. TypeOK'
  BY <1>5, <1>6 DEF Inv, TypeOK, sessionVars, linkVars
<1>9. WiresOfLink'
  BY <1>5, <1>6 DEF Inv, WiresOfLink, linkVars
<1>10. AuthOfLink'
  BY <1>4, <1>5, <1>6 DEF Inv, AuthOfLink, linkVars
<1>11. StampsOfLink'
  <2>1. \A d \in 1 .. MaxId : req'[d] # NoReq => req'[d] = req[d]
    BY <1>6 DEF Inv, TypeOK
  <2>. QED
    BY <1>5, <1>6, <1>7, <2>1 DEF Inv, StampsOfLink, Stamped, linkVars
<1>. QED
  BY <1>5, <1>6, <1>8, <1>9, <1>10, <1>11 DEF Inv, ClientPacketFits

\* onConnect: a new link has only its /auth under way, and a number that no chat
\* was stamped with.
LEMMA LinkUpStep ==
  ASSUME Inv, fault = "none", UNCHANGED traffic, LinkUp
  PROVE  Inv'
<1> DEFINE a == [type |-> "auth", len |-> 0]
<1>1. a \in BrokerPackets /\ a.type = "auth"
  BY DEF BrokerPackets
<1>2. /\ link' = "up" /\ gen' = gen + 1 /\ given' = 0 /\ authed' = FALSE
      /\ nextId' = nextId + 1 /\ toBroker' = <<a>> /\ toLobby' = <<>>
      /\ UNCHANGED <<users, req, reserved, idx, fault>>
  BY DEF LinkUp
<1> HIDE DEF a
<1>3. TypeOK'
  <2>1. toBroker' \in Seq(BrokerPackets) /\ toLobby' \in Seq(LobbyPackets)
    BY <1>1, <1>2
  <2>2. gen' \in Nat /\ nextId' \in Nat \ {0} /\ link' \in {"none", "up", "gone"}
    BY <1>2 DEF Inv, TypeOK
  <2>3. authed' \in BOOLEAN
    BY <1>2
  <2>. QED
    BY <1>2, <2>1, <2>2, <2>3 DEF Inv, TypeOK
<1>4. WiresOfLink' /\ AuthOfLink'
  BY <1>1, <1>2 DEF Inv, TypeOK, WiresOfLink, AuthOfLink
<1>5. StampsOfLink'
  <2>1. ASSUME NEW c \in 1 .. MaxId, (req[c] # NoReq)' PROVE Stamped(req[c])'
    <3>1. req'[c] = req[c] /\ req[c].stamp \in Nat /\ req[c].stamp <= gen
      BY <1>2, <2>1 DEF Inv, TypeOK, StampsOfLink, Stamped, Chats, Carries
    <3>. QED
      BY <1>2, <3>1 DEF Inv, TypeOK, Stamped
  <2>. QED
    BY <1>1, <1>2, <2>1 DEF StampsOfLink
<1>. QED
  BY <1>2, <1>3, <1>4, <1>5 DEF Inv, ClientPacketFits

\* onClose of the link: nothing is under way any more.
LEMMA LinkDownStep ==
  ASSUME Inv, fault = "none", UNCHANGED traffic, LinkDown
  PROVE  Inv'
<1>1. /\ link' = "gone" /\ given' = 0 /\ authed' = FALSE
      /\ toBroker' = <<>> /\ toLobby' = <<>>
      /\ UNCHANGED <<sessionVars, req, gen, idx, fault>>
  BY DEF LinkDown
<1>2. TypeOK'
  <2>1. toBroker' \in Seq(BrokerPackets) /\ toLobby' \in Seq(LobbyPackets)
    BY <1>1
  <2>2. authed' \in BOOLEAN
    BY <1>1
  <2>. QED
    BY <1>1, <2>1, <2>2 DEF Inv, TypeOK, sessionVars
<1>3. WiresOfLink' /\ AuthOfLink'
  BY <1>1 DEF WiresOfLink, AuthOfLink
<1>4. StampsOfLink'
  BY <1>1 DEF Inv, StampsOfLink, Stamped
<1>. QED
  BY <1>1, <1>2, <1>3, <1>4 DEF Inv, ClientPacketFits

\* The broker answers /auth: it was the only one, nobody had its answer, and no
\* chat is stamped with the link yet.
LEMMA BrokerAuthStep ==
  ASSUME Inv, fault = "none", UNCHANGED traffic, NEW i \in Indices, BrokerAuth(i)
  PROVE  Inv'
<1> DEFINE a == [type |-> "auth", svr |-> i, len |-> 0]
<1>1. a \in LobbyPackets /\ a.type = "auth" /\ a.svr = i
  BY DEF LobbyPackets
<1>2. /\ toBroker # <<>> /\ Head(toBroker).type = "auth"
      /\ toBroker' = Tail(toBroker) /\ given' = i /\ toLobby' = toLobby \o <<a>>
      /\ UNCHANGED <<sessionVars, req, link, gen, idx, authed, fault>>
  BY DEF BrokerAuth, Reply
<1> HIDE DEF a
<1>3. /\ toBroker' \in Seq(BrokerPackets)
      /\ 1 \in DOMAIN toBroker /\ toBroker[1].type = "auth"
      /\ \A k \in DOMAIN toBroker' :
           k \in Nat \ {0} /\ k + 1 \in DOMAIN toBroker /\ toBroker'[k] = toBroker[k + 1]
  BY <1>2, Taken DEF Inv, TypeOK
<1>4. /\ toLobby' \in Seq(LobbyPackets)
      /\ \A k \in DOMAIN toLobby' :
           \/ k \in DOMAIN toLobby /\ toLobby'[k] = toLobby[k]
           \/ toLobby'[k] = a
  BY <1>1, <1>2, Concatenated DEF Inv, TypeOK
<1>5. link = "up" /\ ~authed /\ \A j \in DOMAIN toLobby : toLobby[j].type # "auth"
  BY <1>2, <1>3 DEF Inv, TypeOK, WiresOfLink, AuthOfLink
<1>6. TypeOK'
  BY <1>2, <1>3, <1>4 DEF Inv, TypeOK, sessionVars
<1>7. WiresOfLink'
  BY <1>2, <1>5 DEF Inv, WiresOfLink
<1>8. AuthOfLink'
  BY <1>1, <1>2, <1>3, <1>4, <1>5 DEF Inv, AuthOfLink
<1>9. StampsOfLink'
  BY <1>2, <1>3, <1>5 DEF Inv, StampsOfLink, Stamped
<1>. QED
  BY <1>2, <1>6, <1>7, <1>8, <1>9 DEF Inv, ClientPacketFits

\* The broker takes a chat or a logout, and may acknowledge a chat.
LEMMA BrokerChatStep ==
  ASSUME Inv, fault = "none", UNCHANGED traffic, NEW ack \in BOOLEAN, BrokerChat(ack)
  PROVE  Inv'
<1>1. /\ toBroker # <<>> /\ Head(toBroker).type # "auth"
      /\ toBroker' = Tail(toBroker)
      /\ UNCHANGED <<sessionVars, req, link, gen, idx, authed, fault, given>>
  BY DEF BrokerChat, Reply
<1>2. /\ toBroker' \in Seq(BrokerPackets) /\ Head(toBroker) \in BrokerPackets
      /\ 1 \in DOMAIN toBroker
      /\ \A k \in DOMAIN toBroker' :
           k \in Nat \ {0} /\ k + 1 \in DOMAIN toBroker /\ toBroker'[k] = toBroker[k + 1]
  BY <1>1, Taken DEF Inv, TypeOK
<1>3. /\ toLobby' \in Seq(LobbyPackets)
      /\ \A k \in DOMAIN toLobby' :
           \/ k \in DOMAIN toLobby /\ toLobby'[k] = toLobby[k]
           \/ toLobby'[k].type = "ack"
  <2>1. CASE ack
    <3> DEFINE m == [Head(toBroker) EXCEPT !.type = "ack"]
    <3>1. Head(toBroker) \in Chats
      BY <1>1, <1>2, <2>1, BrokerPacketTypes DEF BrokerChat
    <3>2. m \in LobbyPackets /\ m.type = "ack" /\ toLobby' = toLobby \o <<m>>
      BY <2>1, <3>1, AckOfChat DEF BrokerChat, Reply
    <3> HIDE DEF m
    <3>. QED
      BY <3>2, Concatenated DEF Inv, TypeOK
  <2>2. CASE ~ack
    <3>1. toLobby' = toLobby \o <<>>
      BY <2>2 DEF BrokerChat, Reply
    <3>2. toLobby' = toLobby
      BY <3>1 DEF Inv, TypeOK
    <3>. QED  BY <3>2 DEF Inv, TypeOK
  <2>. QED  BY <2>1, <2>2
<1>4. link = "up"
  BY <1>1 DEF Inv, TypeOK, WiresOfLink
<1>5. TypeOK'
  BY <1>1, <1>2, <1>3 DEF Inv, TypeOK, sessionVars
<1>6. WiresOfLink'
  BY <1>1, <1>4 DEF Inv, WiresOfLink
<1>7. AuthOfLink'
  BY <1>1, <1>2, <1>3 DEF Inv, AuthOfLink
<1>8. StampsOfLink'
  BY <1>1, <1>2 DEF Inv, StampsOfLink, Stamped
<1>. QED
  BY <1>1, <1>5, <1>6, <1>7, <1>8 DEF Inv, ClientPacketFits

\* What others say is no answer to anything.
LEMMA BrokerSaysStep ==
  ASSUME Inv, fault = "none", UNCHANGED traffic, NEW chan \in {"all", "private"},
         NEW n \in traffic.lengths, NEW seqOk \in traffic.seqOk, BrokerSays(chan, n, seqOk)
  PROVE  Inv'
<1> DEFINE m == [type |-> chan, len |-> n, seqOk |-> seqOk]
<1>1. m \in LobbyPackets /\ m.type # "auth"
  BY TrafficAssumption DEF Inv, TypeOK, LobbyPackets
<1>2. /\ link = "up" /\ toLobby' = toLobby \o <<m>>
      /\ UNCHANGED <<sessionVars, req, link, gen, idx, authed, fault, toBroker, given>>
  BY DEF BrokerSays, Reply
<1> HIDE DEF m
<1>3. /\ toLobby' \in Seq(LobbyPackets)
      /\ \A k \in DOMAIN toLobby' :
           \/ k \in DOMAIN toLobby /\ toLobby'[k] = toLobby[k]
           \/ toLobby'[k] = m
  BY <1>1, <1>2, Concatenated DEF Inv, TypeOK
<1>4. TypeOK'
  BY <1>2, <1>3 DEF Inv, TypeOK, sessionVars
<1>5. WiresOfLink' /\ StampsOfLink'
  BY <1>2 DEF Inv, WiresOfLink, StampsOfLink, Stamped
<1>6. AuthOfLink'
  BY <1>1, <1>2, <1>3 DEF Inv, AuthOfLink
<1>. QED
  BY <1>2, <1>4, <1>5, <1>6 DEF Inv, ClientPacketFits

\* The connector's strand takes the next packet: what is left is what was under
\* way, and the packet taken is of this link.
LEMMA Received ==
  ASSUME Inv, UNCHANGED traffic, NEW m, Receive(m)
  PROVE  /\ m \in LobbyPackets /\ link = "up"
         /\ m.type = "auth" => m.svr = given
         /\ toLobby' \in Seq(LobbyPackets)
         /\ \A k \in DOMAIN toLobby' :
              \E j \in DOMAIN toLobby : toLobby'[k] = toLobby[j]
         /\ UNCHANGED <<nextId, users, reserved, req, link, gen, given, toBroker>>
<1>1. toLobby # <<>> /\ m = Head(toLobby) /\ toLobby' = Tail(toLobby)
  BY DEF Receive
<1>2. /\ 1 \in DOMAIN toLobby /\ m = toLobby[1] /\ m \in LobbyPackets
      /\ toLobby' \in Seq(LobbyPackets)
      /\ \A k \in DOMAIN toLobby' : k + 1 \in DOMAIN toLobby /\ toLobby'[k] = toLobby[k + 1]
  BY <1>1, Taken DEF Inv, TypeOK
<1>3. link = "up" /\ (m.type = "auth" => m.svr = given)
  BY <1>1, <1>2 DEF Inv, TypeOK, WiresOfLink, AuthOfLink
<1>4. UNCHANGED <<nextId, users, reserved, req, link, gen, given, toBroker>>
  BY DEF Receive, sessionVars
<1>. QED  BY <1>2, <1>3, <1>4

\* A handler that leaves the answer to /auth alone keeps what is said of links.
LEMMA HandledKeepsLink ==
  ASSUME Inv, UNCHANGED traffic, NEW m, Receive(m), UNCHANGED <<idx, authed>>
  PROVE  (WiresOfLink /\ AuthOfLink /\ StampsOfLink)'
<1>1. WiresOfLink'
  BY Received DEF Inv, WiresOfLink
<1>2. AuthOfLink'
  BY Received DEF Inv, AuthOfLink
<1>3. StampsOfLink'
  BY Received DEF Inv, StampsOfLink, Stamped
<1>. QED  BY <1>1, <1>2, <1>3

\* What the broker sent and readJsonPacket let through does not overrun a
\* client's packet.
LEMMA NoClientFault ==
  ASSUME NEW m, m.len \in Nat, ~TooLong(m), NEW to, fault = "none"
  PROVE  ClientFault(m, to) = "none"
<1>1. m.len <= BrokerMax
  BY SizeAssumption DEF TooLong
<1>2. \A n \in Serialized(m.len) : n + Members + 1 <= LobbyMax /\ n \in Nat
  BY <1>1, WrittenAgainFits
<1>. QED  BY <1>2, SizeAssumption DEF ClientFault

\* A packet that is dropped changes nothing else.
LEMMA HandleDroppedStep ==
  ASSUME Inv, fault = "none", UNCHANGED traffic, NEW m, HandleDropped(m)
  PROVE  Inv'
<1>1. Receive(m) /\ UNCHANGED <<idx, authed, fault>>
  BY DEF HandleDropped
<1>2. TypeOK'
  BY <1>1, Received DEF Inv, TypeOK
<1>. QED
  BY <1>1, <1>2, HandledKeepsLink DEF Inv, ClientPacketFits

\* The handler of /auth stores the number that the broker gave on this link.
LEMMA HandleAuthStep ==
  ASSUME Inv, fault = "none", UNCHANGED traffic, NEW m, HandleAuth(m)
  PROVE  Inv'
<1>1. /\ Receive(m) /\ m.type = "auth" /\ idx' = m.svr /\ authed' = TRUE
      /\ UNCHANGED fault
  BY DEF HandleAuth, StoreIndex
<1>2. /\ m \in LobbyPackets /\ link = "up" /\ m.svr = given
      /\ toLobby' \in Seq(LobbyPackets)
      /\ \A k \in DOMAIN toLobby' :
           \E j \in DOMAIN toLobby : toLobby'[k] = toLobby[j]
      /\ UNCHANGED <<nextId, users, reserved, req, link, gen, given, toBroker>>
  BY <1>1, Received
<1>3. idx' = given /\ idx' \in Indices
  BY <1>1, <1>2, LobbyPacketTypes
<1>4. PICK j \in DOMAIN toLobby : toLobby[j].type = "auth"
  BY <1>1, Taken DEF Receive, Inv, TypeOK
<1>5. TypeOK'
  <2>1. authed' \in BOOLEAN
    BY <1>1
  <2>. QED
    BY <1>1, <1>2, <1>3, <2>1 DEF Inv, TypeOK
<1>6. WiresOfLink'
  BY <1>2 DEF Inv, WiresOfLink
<1>7. AuthOfLink'
  BY <1>2, <1>3, <1>4 DEF Inv, AuthOfLink
<1>8. StampsOfLink'
  BY <1>1, <1>2 DEF Inv, StampsOfLink, Stamped
<1>. QED
  BY <1>1, <1>5, <1>6, <1>7, <1>8 DEF Inv, ClientPacketFits

\* chatSendMsg writes to the user registered under the identity that came back.
LEMMA HandleAckStep ==
  ASSUME Inv, fault = "none", UNCHANGED traffic, NEW m, HandleAck(m)
  PROVE  Inv'
<1>1. /\ Receive(m) /\ ~TooLong(m) /\ m.type = "ack"
      /\ fault' = ClientFault(m, {m.identity} \intersect users)
      /\ UNCHANGED <<idx, authed>>
  BY DEF HandleAck
<1>2. m \in LobbyPackets
  BY <1>1, Received
<1>3. m.len \in Nat
  BY <1>2, LobbyPacketTypes
<1>4. fault' = "none"
  BY <1>1, <1>3, NoClientFault
<1>5. TypeOK'
  BY <1>1, <1>4, Received DEF Inv, TypeOK
<1>. QED
  BY <1>1, <1>4, <1>5, HandledKeepsLink DEF Inv, ClientPacketFits

\* chatReceiveMsg writes to everyone or to nobody.
LEMMA HandleSaysStep ==
  ASSUME Inv, fault = "none", UNCHANGED traffic, NEW m, HandleSays(m)
  PROVE  Inv'
<1>1. /\ Receive(m) /\ ~TooLong(m)
      /\ fault' = ClientFault(m, IF m.type = "all" THEN users ELSE {})
      /\ UNCHANGED <<idx, authed>>
  BY DEF HandleSays
<1>2. m \in LobbyPackets
  BY <1>1, Received
<1>3. m.len \in Nat
  BY <1>2, LobbyPacketTypes
<1>4. fault' = "none"
  BY <1>1, <1>3, NoClientFault
<1>5. TypeOK'
  BY <1>1, <1>4, Received DEF Inv, TypeOK
<1>. QED
  BY <1>1, <1>4, <1>5, HandledKeepsLink DEF Inv, ClientPacketFits

----------------------------------------------------------------------------
(* The theorems. *)

\* Every step keeps Inv.
LEMMA NextStep == Inv /\ [Next]_vars => Inv'
<1> SUFFICES ASSUME Inv, [Next]_vars PROVE Inv'
  OBVIOUS
<1>1. CASE UNCHANGED vars
  BY <1>1 DEF vars, Inv, TypeOK, WiresOfLink, AuthOfLink, StampsOfLink, Stamped, ClientPacketFits
<1>2. CASE Next
  <2> USE <1>2
  <2>1. fault = "none" /\ UNCHANGED traffic
    BY DEF Next
  <2>2. CASE Accept
    BY <2>1, <2>2, SessionStep
  <2>3. ASSUME NEW c \in 1 .. MaxId, Client(c) PROVE Inv'
    BY <2>1, <2>3, SessionStep, CloseStep, ChatStampStep, ChatSendStep DEF Client
  <2>4. CASE LinkUp \/ LinkDown
    BY <2>1, <2>4, LinkUpStep, LinkDownStep
  <2>5. CASE TheBroker
    BY <2>1, <2>5, BrokerAuthStep, BrokerChatStep, BrokerSaysStep DEF TheBroker
  <2>6. CASE Handle
    BY <2>1, <2>6, SessionStep, HandleDroppedStep, HandleAuthStep, HandleAckStep,
       HandleSaysStep DEF Handle
  <2>. QED  BY <2>2, <2>3, <2>4, <2>5, <2>6 DEF Next
<1>. QED  BY <1>1, <1>2

\* Nothing is under way at the start.
LEMMA InitInv == Init => Inv
<1> SUFFICES ASSUME Init PROVE Inv
  OBVIOUS
<1>1. authed \in BOOLEAN
  BY DEF Init
<1>3. toBroker \in Seq(BrokerPackets) /\ toLobby \in Seq(LobbyPackets)
  BY DEF Init
<1>4. TypeOK
  BY <1>1, <1>3 DEF Init, TypeOK
<1>5. WiresOfLink /\ AuthOfLink /\ StampsOfLink /\ ClientPacketFits
  BY DEF Init, WiresOfLink, AuthOfLink, StampsOfLink, ClientPacketFits
<1>. QED  BY <1>4, <1>5 DEF Inv

\* The inductive invariant: the packets under way, the numbers they carry and the
\* answer to /auth are of the link there is.
THEOREM RelayInvariant == Spec => []Inv
  BY InitInv, NextStep, PTL DEF Spec

\* A chat stamped with g_idx4Broker after the answer to /auth was handled and sent
\* on the same link carries the number the broker gave on that link.
THEOREM IndexIsOfLink == Spec => []IndexOfThisLink
<1>1. Inv => IndexOfThisLink
  BY DEF Inv, TypeOK, WiresOfLink, StampsOfLink, Stamped, IndexOfThisLink
<1>. QED  BY <1>1, RelayInvariant, PTL

\* User::SendJsonPacket, which copies before it tests, never overruns the packet
\* with what the broker sends.
THEOREM ClientPacketsFit == Spec => []ClientPacketFits
  BY RelayInvariant, PTL DEF Inv
==============================================================================
