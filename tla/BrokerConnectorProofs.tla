----------------------- MODULE BrokerConnectorProofs -----------------------
(***************************************************************************)
(* Proofs about BrokerConnector.tla, for any number of connection objects   *)
(* and of threads that send.                                               *)
(***************************************************************************)
EXTENDS BrokerConnector, TLAPS

Trying == {"untag", "endpoint", "create"}
Timing == {"expire", "wait"}
Telling == {"user", "settag", "greet"}

IsUp(c) == phase[c] \in {"open", "lost"}

\* Where each thread can be, and which connection it then works with.
PcInv ==
  /\ \A c \in Conns : pc[c] \in Trying \union Timing \union {"idle"}
  /\ pc[Main] \in Trying \union Timing \union {"idle"}
  /\ pc[Svc] \in Trying \union Timing \union Telling \union {"idle"}
  /\ \A s \in Senders : pc[s] \in {"idle", "use"}
  /\ pc[Main] # "untag" /\ pc[Svc] # "untag"
  /\ pc[Svc] \in Telling => work[Svc] \in Conns
  /\ \A s \in Senders : pc[s] = "use" => work[s] \in Conns

\* A connection whose strand is in onClose is closed; the one that is announced
\* is the only one that can be up.
PhaseInv ==
  /\ \A c \in Conns : pc[c] \in Trying => phase[c] = "closed"
  /\ pc[Svc] \in Telling => \A c \in Conns : IsUp(c) => c = work[Svc]
  /\ resolver = "failed" => dead

\* How far onConnect has come, if its connection did not end meanwhile.
StageInv ==
  fault = "none" =>
    /\ pc[Svc] \in {"settag", "greet"} => user = work[Svc]
    /\ pc[Svc] \in {"settag", "greet"} /\ IsUp(work[Svc]) =>
         heap[work[Svc]] = "live"
    /\ pc[Svc] = "greet" /\ IsUp(work[Svc]) => tag[work[Svc]]

IInv ==
  /\ TypeOK
  /\ PcInv
  /\ PhaseInv
  /\ OneLink
  /\ StageInv
  /\ LinkHasUser
  /\ UpdateNotLost
  /\ DoubleDeleteOnlyInWindow

\* Before main connects there is one link to be made, and nothing else.
LEMMA InitInv == Init => IInv
<1> SUFFICES ASSUME Init PROVE IInv
  OBVIOUS
<1> USE LinkAssumption DEF Threads
<1>1. TypeOK
  BY DEF Init, TypeOK
<1>2. PcInv /\ PhaseInv /\ StageInv
  BY DEF Init, PcInv, PhaseInv, StageInv, Trying, Timing, Telling, IsUp
<1>3. Links = {Main}
  BY DEF Init, Links
<1>4. OneLink
  BY <1>3 DEF Init, OneLink
<1>5. LinkHasUser /\ UpdateNotLost /\ DoubleDeleteOnlyInWindow
  BY DEF Init, LinkHasUser, UpdateNotLost, DoubleDeleteOnlyInWindow
<1> QED BY <1>1, <1>2, <1>4, <1>5 DEF IInv

\* Whoever is on the way to a link is the only one, and there is no link dead.
LEMMA OnlyOne ==
  ASSUME IInv, NEW x, x \in Links
  PROVE  Links = {x} /\ ~dead
BY DEF IInv, OneLink

\* setEndPoint: the thread goes on to make a connection, or gives up.
LEMMA SetEndPointStep ==
  ASSUME IInv, fault = "none", NEW t \in Threads, SetEndPoint(t)
  PROVE  IInv'
<1> USE LinkAssumption DEF Threads, SetEndPoint, GiveUp, Goto, userVars, timerVars
<1>1. t \in Links /\ t \notin Senders
  BY DEF IInv, PcInv, Links
<1>2. Links = {t} /\ ~dead
  BY <1>1, OnlyOne
<1>3. TypeOK'
  BY DEF IInv, TypeOK
<1>4. PcInv'
  BY <1>1 DEF IInv, TypeOK, PcInv, Trying, Timing, Telling
<1>5. PhaseInv'
  BY <1>2 DEF IInv, TypeOK, PcInv, PhaseInv, Trying, Timing, Telling, IsUp
<1>6. OneLink'
  <2>1. CASE resolver' = "found"
    <3>1. Links' = Links
      BY <2>1 DEF IInv, TypeOK, Links
    <3> QED BY <2>1, <3>1, <1>2 DEF OneLink
  <2>2. CASE resolver' # "found"
    <3>1. Links' = Links \ {t}
      BY <2>2, <1>2 DEF IInv, TypeOK, Links, PhaseInv, Trying
    <3> QED BY <2>2, <3>1, <1>2 DEF OneLink
  <2> QED BY <2>1, <2>2
<1>7. StageInv' /\ LinkHasUser'
  BY DEF IInv, TypeOK, PcInv, StageInv, LinkHasUser, Announcing, IsUp
<1>8. UpdateNotLost' /\ DoubleDeleteOnlyInWindow'
  BY DEF IInv, TypeOK, UpdateNotLost, DoubleDeleteOnlyInWindow
<1> QED BY <1>3, <1>4, <1>5, <1>6, <1>7, <1>8 DEF IInv

\* createConnectSession and async_connect: the new connection takes the place of
\* the thread that made it.
LEMMA CreateStep ==
  ASSUME IInv, fault = "none", NEW t \in Threads, Create(t)
  PROVE  IInv'
<1> USE LinkAssumption DEF Threads, Goto, timerVars
<1>1. PICK c \in Conns :
        /\ Fresh(c)
        /\ phase' = [phase EXCEPT ![c] = "connecting"]
        /\ heap' = [heap EXCEPT ![c] = "none"]
        /\ tag' = [tag EXCEPT ![c] = FALSE]
  BY DEF Create
<1>2. /\ pc[t] = "create" /\ pc' = [pc EXCEPT ![t] = "expire"]
      /\ work' = [work EXCEPT ![t] = Nobody]
      /\ UNCHANGED <<resolver, user, armed, fired, dead, fault>>
  BY DEF Create
<1>3. t \in Links /\ t \notin Senders /\ t # c
  BY <1>1, <1>2 DEF IInv, PcInv, Links, Fresh
<1>4. Links = {t} /\ ~dead
  BY <1>3, OnlyOne
<1>5. TypeOK'
  BY <1>1, <1>2 DEF IInv, TypeOK
<1>6. PcInv'
  BY <1>2, <1>3 DEF IInv, TypeOK, PcInv, Trying, Timing, Telling
<1>7. \A d \in Conns : IsUp(d)' <=> IsUp(d) /\ d # c
  BY <1>1 DEF IInv, TypeOK, IsUp
<1>8. ~\E d \in Conns : IsUp(d) /\ d # t
  BY <1>4 DEF Links, IsUp
<1>9. PhaseInv'
  BY <1>1, <1>2, <1>3, <1>7 DEF IInv, TypeOK, PcInv, PhaseInv, Trying, Telling, Fresh
<1>10. OneLink'
  <2>1. Links' = {c}
    BY <1>1, <1>2, <1>3, <1>4 DEF IInv, TypeOK, PhaseInv, PcInv, Links, Fresh, Trying
  <2> QED BY <2>1, <1>2, <1>4 DEF OneLink
<1>11. \A d \in Conns : ~IsUp(d)
  BY <1>2, <1>8 DEF IInv, PhaseInv, Trying, IsUp
<1>12. StageInv' /\ LinkHasUser'
  BY <1>1, <1>2, <1>3, <1>7, <1>11
  DEF IInv, TypeOK, PcInv, StageInv, LinkHasUser, IsUp, Trying, Telling
<1>13. UpdateNotLost' /\ DoubleDeleteOnlyInWindow'
  BY <1>2 DEF IInv, TypeOK, UpdateNotLost, DoubleDeleteOnlyInWindow
<1> QED BY <1>5, <1>6, <1>9, <1>10, <1>12, <1>13 DEF IInv

\* The attempt could not be started: there is no link any more, for good.
LEMMA CreateThrowsStep ==
  ASSUME IInv, fault = "none", NEW t \in Threads, CreateThrows(t)
  PROVE  IInv'
<1> USE LinkAssumption DEF Threads, CreateThrows, GiveUp, Goto, userVars, timerVars
<1>1. t \in Links /\ t \notin Senders
  BY DEF IInv, PcInv, Links
<1>2. Links = {t} /\ ~dead
  BY <1>1, OnlyOne
<1>3. TypeOK'
  BY DEF IInv, TypeOK
<1>4. PcInv'
  BY <1>1 DEF IInv, TypeOK, PcInv, Trying, Timing, Telling
<1>5. PhaseInv'
  BY <1>2 DEF IInv, TypeOK, PcInv, PhaseInv, Trying, Timing, Telling, IsUp
<1>6. OneLink'
  <2>1. Links' = Links \ {t}
    BY <1>2 DEF IInv, TypeOK, Links, PhaseInv, Trying
  <2> QED BY <2>1, <1>2 DEF OneLink
<1>7. StageInv' /\ LinkHasUser'
  BY DEF IInv, TypeOK, PcInv, StageInv, LinkHasUser, Announcing, IsUp
<1>8. UpdateNotLost' /\ DoubleDeleteOnlyInWindow'
  BY DEF IInv, TypeOK, UpdateNotLost, DoubleDeleteOnlyInWindow
<1> QED BY <1>3, <1>4, <1>5, <1>6, <1>7, <1>8 DEF IInv

\* The steps that only concern the update timer leave the link alone.
LEMMA TimerSteps ==
  ASSUME IInv, fault = "none",
         TimerFires \/ UpdateHandler \/ \E t \in Threads : Expire(t) \/ Wait(t)
  PROVE  IInv'
<1> USE LinkAssumption DEF Threads, userVars, timerVars, Goto
<1>1. CASE TimerFires
  BY <1>1 DEF TimerFires, IInv, TypeOK, PcInv, PhaseInv, OneLink, Links, StageInv,
     LinkHasUser, Announcing, UpdateNotLost, DoubleDeleteOnlyInWindow, IsUp
<1>2. ASSUME NEW t \in Threads, (UpdateHandler /\ t = Svc) \/ Expire(t) \/ Wait(t)
      PROVE  IInv'
  <2> USE DEF UpdateHandler, Expire, AbandonWaits, Wait
  <2>1. t \notin Senders /\ pc[t] \notin Trying \union Telling
    BY <1>2 DEF IInv, PcInv, Trying, Telling
  <2>2. /\ pc' = [pc EXCEPT ![t] = pc'[t]]
        /\ pc'[t] \in {"idle", "expire", "wait"}
        /\ UNCHANGED <<resolver, phase, user, heap, tag, work, dead, fault>>
    BY <1>2 DEF IInv, TypeOK
  <2>3. TypeOK'
    BY <1>2, <2>2 DEF IInv, TypeOK
  <2>4. PcInv' /\ PhaseInv'
    BY <2>1, <2>2 DEF IInv, TypeOK, PcInv, PhaseInv, Trying, Timing, Telling, IsUp
  <2>5. Links' = Links
    BY <2>1, <2>2 DEF IInv, TypeOK, Links, Trying
  <2>6. OneLink'
    BY <2>2, <2>5 DEF IInv, OneLink
  <2>7. StageInv' /\ LinkHasUser' /\ DoubleDeleteOnlyInWindow'
    BY <2>1, <2>2 DEF IInv, TypeOK, StageInv, LinkHasUser, Announcing, IsUp, Telling,
       DoubleDeleteOnlyInWindow
  <2>8. UpdateNotLost'
    BY <1>2, <2>2 DEF IInv, TypeOK, UpdateNotLost
  <2> QED BY <2>3, <2>4, <2>6, <2>7, <2>8 DEF IInv
<1> QED BY <1>1, <1>2

\* connect_handler with an error: the strand takes the connection's place.
LEMMA ConnectFailsStep ==
  ASSUME IInv, fault = "none", NEW c \in Conns, ConnectFails(c)
  PROVE  IInv'
<1> USE LinkAssumption DEF Threads, ConnectFails, Goto, userVars, timerVars
<1>1. c \in Links
  BY DEF Links
<1>2. Links = {c} /\ ~dead
  BY <1>1, OnlyOne
<1>3. TypeOK'
  BY DEF IInv, TypeOK
<1>4. PcInv'
  BY DEF IInv, TypeOK, PcInv, Trying, Timing, Telling
<1>5. PhaseInv'
  BY <1>2 DEF IInv, TypeOK, PcInv, PhaseInv, Trying, Telling, IsUp
<1>6. OneLink'
  <2>1. Links' = {Svc}
    BY <1>2 DEF IInv, TypeOK, PhaseInv, Links, Trying
  <2> QED BY <2>1, <1>2 DEF OneLink
<1>7. StageInv' /\ LinkHasUser'
  BY DEF IInv, TypeOK, StageInv, LinkHasUser, Announcing, IsUp
<1>8. UpdateNotLost' /\ DoubleDeleteOnlyInWindow'
  BY DEF IInv, TypeOK, UpdateNotLost, DoubleDeleteOnlyInWindow
<1> QED BY <1>3, <1>4, <1>5, <1>6, <1>7, <1>8 DEF IInv

\* connect_handler without: the connection is up, and its onConnect under way.
LEMMA ConnectedStep ==
  ASSUME IInv, fault = "none", NEW c \in Conns, Connected(c)
  PROVE  IInv'
<1> USE LinkAssumption DEF Threads, Connected, Goto, userVars, timerVars
<1>1. c \in Links
  BY DEF Links
<1>2. Links = {c} /\ ~dead
  BY <1>1, OnlyOne
<1>3. TypeOK'
  BY DEF IInv, TypeOK
<1>4. PcInv'
  BY DEF IInv, TypeOK, PcInv, Trying, Timing, Telling
<1>5. \A d \in Conns : IsUp(d)' <=> d = c
  BY <1>2 DEF IInv, TypeOK, Links, IsUp
<1>6. PhaseInv'
  BY <1>2, <1>5 DEF IInv, TypeOK, PcInv, PhaseInv, Trying, Telling
<1>7. OneLink'
  <2>1. Links' = Links
    BY <1>2 DEF IInv, TypeOK, Links
  <2> QED BY <2>1, <1>2 DEF OneLink
<1>8. StageInv' /\ LinkHasUser'
  BY <1>5 DEF IInv, TypeOK, StageInv, LinkHasUser, Announcing, IsUp
<1>9. UpdateNotLost' /\ DoubleDeleteOnlyInWindow'
  BY DEF IInv, TypeOK, UpdateNotLost, DoubleDeleteOnlyInWindow
<1> QED BY <1>3, <1>4, <1>6, <1>7, <1>8, <1>9 DEF IInv

\* onConnect: the user is made and stored, the connection tagged, the broker
\* greeted; the connection may have ended at any point of it.
LEMMA OnConnectStep ==
  ASSUME IInv, fault = "none", OnConnect
  PROVE  IInv'
<1> USE LinkAssumption DEF Threads, Goto, userVars, timerVars
<1>1. /\ pc[Svc] \in Telling /\ work[Svc] \in Conns
      /\ pc' = [pc EXCEPT ![Svc] = pc'[Svc]]
      /\ pc'[Svc] \in {"settag", "greet", "idle"}
      /\ UNCHANGED <<resolver, phase, armed, fired, dead>>
  BY DEF OnConnect, OnConnectUser, OnConnectTag, OnConnectGreet, IInv, TypeOK,
     PcInv, Telling
<1>2. \A c \in Conns : IsUp(c)' <=> IsUp(c)
  BY <1>1 DEF IsUp
<1>3. TypeOK'
  <2> USE <1>1 DEF IInv, TypeOK
  <2>1. CASE OnConnectUser
    BY <2>1 DEF OnConnectUser, StoreUser
  <2>2. CASE OnConnectTag
    BY <2>2 DEF OnConnectTag
  <2>3. CASE OnConnectGreet
    BY <2>3 DEF OnConnectGreet
  <2> QED BY <2>1, <2>2, <2>3 DEF OnConnect
<1>4. PcInv'
  BY <1>1 DEF OnConnect, OnConnectUser, OnConnectTag, OnConnectGreet, IInv, TypeOK,
     PcInv, Trying, Timing, Telling
<1>5. PhaseInv'
  BY <1>1, <1>2 DEF OnConnect, OnConnectUser, OnConnectTag, OnConnectGreet, IInv,
     TypeOK, PhaseInv, Trying, Telling
<1>6. OneLink'
  <2>1. Links' = Links
    BY <1>1 DEF IInv, TypeOK, Links, Telling
  <2> QED BY <1>1, <2>1 DEF IInv, OneLink
<1>7. StageInv' /\ LinkHasUser'
  <2> USE <1>1, <1>2 DEF IInv, TypeOK, PhaseInv, StageInv, LinkHasUser, Announcing,
          IsUp, Telling
  <2>1. CASE OnConnectUser
    BY <2>1 DEF OnConnectUser, StoreUser
  <2>2. CASE OnConnectTag
    BY <2>2 DEF OnConnectTag
  <2>3. CASE OnConnectGreet
    BY <2>3 DEF OnConnectGreet
  <2> QED BY <2>1, <2>2, <2>3 DEF OnConnect
<1>8. UpdateNotLost'
  BY <1>1 DEF IInv, TypeOK, UpdateNotLost, Telling
<1>9. DoubleDeleteOnlyInWindow'
  BY DEF OnConnect, OnConnectUser, OnConnectTag, OnConnectGreet,
     DoubleDeleteOnlyInWindow
<1> QED BY <1>3, <1>4, <1>5, <1>6, <1>7, <1>8, <1>9 DEF IInv

\* The socket goes down: the connection keeps its place and its user.
LEMMA LoseStep ==
  ASSUME IInv, fault = "none", NEW c \in Conns, Lose(c)
  PROVE  IInv'
<1> USE LinkAssumption DEF Threads, Lose, userVars, timerVars
<1>1. \A d \in Conns : IsUp(d)' <=> IsUp(d)
  BY DEF IInv, TypeOK, IsUp
<1>2. TypeOK' /\ PcInv'
  BY DEF IInv, TypeOK, PcInv
<1>3. PhaseInv'
  BY <1>1 DEF IInv, TypeOK, PhaseInv, Trying
<1>4. Links' = Links
  BY DEF IInv, TypeOK, Links
<1>5. OneLink'
  BY <1>4 DEF IInv, OneLink
<1>6. StageInv' /\ LinkHasUser'
  BY <1>1 DEF IInv, TypeOK, PcInv, StageInv, LinkHasUser, Announcing, IsUp, Telling
<1>7. UpdateNotLost' /\ DoubleDeleteOnlyInWindow'
  BY DEF IInv, TypeOK, UpdateNotLost, DoubleDeleteOnlyInWindow
<1> QED BY <1>2, <1>3, <1>5, <1>6, <1>7 DEF IInv

\* onClose deletes the user of its own connection, or onConnect has not yet
\* stored it; its strand takes the connection's place.
LEMMA OnCloseStep ==
  ASSUME IInv, fault = "none", NEW c \in Conns, OnClose(c)
  PROVE  IInv'
<1> USE LinkAssumption DEF Threads, OnClose, Goto, timerVars
<1>1. c \in Links
  BY DEF Links
<1>2. Links = {c} /\ ~dead
  BY <1>1, OnlyOne
<1>3. TypeOK'
  BY DEF IInv, TypeOK
<1>4. PcInv'
  BY DEF IInv, TypeOK, PcInv, Trying, Timing, Telling
<1>5. \A d \in Conns : ~IsUp(d)'
  BY <1>2 DEF IInv, TypeOK, Links, IsUp
<1>6. PhaseInv'
  BY <1>5 DEF IInv, TypeOK, PhaseInv, Trying, Telling
<1>7. OneLink'
  <2>1. Links' = Links
    BY <1>2 DEF IInv, TypeOK, Links
  <2> QED BY <2>1, <1>2 DEF OneLink
<1>8. LinkHasUser' /\ StageInv'
  BY <1>5 DEF IInv, TypeOK, PcInv, LinkHasUser, StageInv, IsUp, Telling
<1>9. UpdateNotLost'
  BY DEF IInv, TypeOK, UpdateNotLost
<1>10. DoubleDeleteOnlyInWindow'
  <2>1. SUFFICES ASSUME user # Nobody, heap[user] = "freed"
                 PROVE  pc[Svc] = "user" /\ work[Svc] = c
    BY DEF IInv, TypeOK, DoubleDeleteOnlyInWindow
  <2>2. Announcing(c)
    BY <2>1 DEF IInv, LinkHasUser
  <2> QED BY <2>1, <2>2 DEF IInv, StageInv, Announcing, IsUp
<1> QED BY <1>3, <1>4, <1>6, <1>7, <1>8, <1>9, <1>10 DEF IInv

\* The tag of a closed connection is cleared.
LEMMA OnCloseTagStep ==
  ASSUME IInv, fault = "none", NEW c \in Conns, OnCloseTag(c)
  PROVE  IInv'
<1> USE LinkAssumption DEF Threads, OnCloseTag, Reconnect, Goto, timerVars
<1>1. c \in Links
  BY DEF Links
<1>2. Links = {c} /\ ~dead
  BY <1>1, OnlyOne
<1>3. TypeOK'
  BY DEF IInv, TypeOK
<1>4. PcInv'
  BY DEF IInv, TypeOK, PcInv, Trying, Timing, Telling
<1>5. PhaseInv'
  BY <1>2 DEF IInv, TypeOK, PhaseInv, Trying, Telling, IsUp
<1>6. OneLink'
  <2>1. Links' = Links
    BY DEF IInv, TypeOK, Links
  <2> QED BY <2>1 DEF IInv, OneLink
<1>7. LinkHasUser' /\ StageInv'
  BY DEF IInv, TypeOK, PcInv, PhaseInv, LinkHasUser, StageInv, Announcing, IsUp,
     Telling, Trying
<1>8. UpdateNotLost' /\ DoubleDeleteOnlyInWindow'
  BY DEF IInv, TypeOK, UpdateNotLost, DoubleDeleteOnlyInWindow
<1> QED BY <1>3, <1>4, <1>5, <1>6, <1>7, <1>8 DEF IInv

\* A sender only reads.
LEMMA SendSteps ==
  ASSUME IInv, fault = "none", NEW s \in Senders, SendLoad(s) \/ SendUse(s)
  PROVE  IInv'
<1> USE LinkAssumption DEF Threads, SendLoad, SendUse, Goto, userVars, timerVars
<1>1. /\ pc' = [pc EXCEPT ![s] = pc'[s]] /\ pc'[s] \in {"use", "idle"}
      /\ pc[s] \in {"use", "idle"}
      /\ \A t \in Threads : t # s => work'[t] = work[t]
      /\ fault' \in {"none", "freed"}
      /\ UNCHANGED <<resolver, phase, user, heap, tag, armed, fired, dead>>
  BY DEF IInv, TypeOK
<1>2. TypeOK' /\ PcInv'
  BY DEF IInv, TypeOK, PcInv, Trying, Timing, Telling
<1>3. PhaseInv'
  BY <1>1 DEF IInv, TypeOK, PhaseInv, IsUp
<1>4. Links' = Links
  BY <1>1 DEF IInv, TypeOK, Links
<1>5. OneLink'
  BY <1>1, <1>4 DEF IInv, OneLink
<1>6. LinkHasUser' /\ StageInv'
  BY <1>1 DEF IInv, TypeOK, LinkHasUser, StageInv, Announcing, IsUp
<1>7. UpdateNotLost' /\ DoubleDeleteOnlyInWindow'
  BY <1>1 DEF IInv, TypeOK, UpdateNotLost, DoubleDeleteOnlyInWindow
<1> QED BY <1>2, <1>3, <1>5, <1>6, <1>7 DEF IInv

\* Every step of the program preserves the invariant.
LEMMA NextInv == IInv /\ [Next]_vars => IInv'
<1> SUFFICES ASSUME IInv, [Next]_vars PROVE IInv'
  OBVIOUS
<1>1. CASE UNCHANGED vars
  BY <1>1 DEF vars, IInv, TypeOK, PcInv, PhaseInv, OneLink, Links, StageInv, IsUp,
     LinkHasUser, Announcing, UpdateNotLost, DoubleDeleteOnlyInWindow
<1>2. CASE Next
  BY <1>2, SetEndPointStep, CreateStep, CreateThrowsStep, TimerSteps,
     ConnectFailsStep, ConnectedStep, OnConnectStep, LoseStep, OnCloseStep,
     OnCloseTagStep, SendSteps
  DEF Next, TryConnect, ConnectHandler
<1> QED BY <1>1, <1>2

\* The inductive invariant holds throughout.
THEOREM LinkInvariance == Spec => []IInv
BY InitInv, NextInv, PTL DEF Spec

\* The state of the connector keeps its types for any number of threads and
\* connections: m_user is a connection's user or none, the waits on _updater are
\* counted by naturals.
THEOREM LinkTypeCorrect == Spec => []TypeOK
<1>1. IInv => TypeOK
  BY DEF IInv
<1> QED BY <1>1, LinkInvariance, PTL

\* tryConnect, connect_handler and onClose keep exactly one attempt or link, for
\* any number of connection objects and threads.
THEOREM LinkIsOne == Spec => []OneLink
<1>1. IInv => OneLink
  BY DEF IInv
<1> QED BY <1>1, LinkInvariance, PTL

\* After onConnect m_user is the live user of the open link, up to onClose.
THEOREM LinkKeepsUser == Spec => []LinkHasUser
<1>1. IInv => LinkHasUser
  BY DEF IInv
<1> QED BY <1>1, LinkInvariance, PTL

\* onClose deletes a deleted user only between start_connect and onConnect.
THEOREM DoubleDeleteWindow == Spec => []DoubleDeleteOnlyInWindow
<1>1. IInv => DoubleDeleteOnlyInWindow
  BY DEF IInv
<1> QED BY <1>1, LinkInvariance, PTL

\* The assertion in setEndPoint does not fail.
THEOREM EndpointsAreLeft == Spec => []EndpointsLeft
<1>1. IInv => EndpointsLeft
  <2> SUFFICES ASSUME IInv, NEW t \in Threads, pc[t] = "endpoint"
               PROVE  resolver # "failed"
    BY DEF EndpointsLeft
  <2>1. t \in Links
    BY DEF Links
  <2> QED BY <2>1, OnlyOne DEF IInv, PhaseInv
<1> QED BY <1>1, LinkInvariance, PTL

\* expireTimerReady and update_handler never lose the update timer.
THEOREM UpdatesAreKept == Spec => []UpdateNotLost
<1>1. IInv => UpdateNotLost
  BY DEF IInv
<1> QED BY <1>1, LinkInvariance, PTL
=============================================================================
