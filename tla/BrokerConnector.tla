-------------------------- MODULE BrokerConnector --------------------------
(***************************************************************************)
(* The link to the broker: net/netServiceConnector.cpp, which connects, the *)
(* update timer of net/netServiceImpl.cpp, and lobbysvr/brokerConnector.cpp,*)
(* which keeps m_user, the one object every thread sends through, and       *)
(* connects again when the link ends.                                       *)
(*                                                                         *)
(* connect_handler and update_handler run in the service's strand, onClose  *)
(* in the strand of the connection that ends: nothing orders the two.       *)
(* Connection.tla shows what is assumed of a connection: after it started,  *)
(* onClose is called at most once, and never if its socket goes down first. *)
(***************************************************************************)
EXTENDS Naturals

CONSTANTS
  Conns,     \* connection objects; one is used again when nothing points at it
  Senders,   \* threads that call sendJsonPacket: the strands of lobby users
  Main,      \* the thread that starts the services
  Svc,       \* the strand of the connector service
  Nobody,    \* nullptr
  MaxFired   \* bound on the update handlers that wait in the strand

Threads == Conns \union Senders \union {Main, Svc}

ASSUME LinkAssumption ==
  /\ Main # Svc /\ {Main, Svc} \intersect (Conns \union Senders) = {}
  /\ Conns \intersect Senders = {}
  /\ Nobody \notin Threads
ASSUME FiredAssumption == MaxFired \in Nat \ {0}

VARIABLES
  resolver,  \* m_resolver and *m_endpoint_iter: "none", "found" or "failed"
  phase,     \* what became of each connection
  user,      \* the connection whose ConnectorUser m_user points at, or Nobody
  heap,      \* the ConnectorUser of each connection: "none", "live", "freed"
  tag,       \* TRUE while _tag of the connection points at its ConnectorUser
  armed,     \* outstanding waits on _updater
  fired,     \* expired waits whose update_handler is queued in the strand
  pc,        \* what each thread is doing
  work,      \* the connection each thread is working with, or Nobody
  dead,      \* an attempt could not be started: nobody will try again
  fault      \* "none", "freed" (a deleted user was used) or "double" (deleted)

vars == <<resolver, phase, user, heap, tag, armed, fired, pc, work, dead, fault>>

userVars  == <<user, heap, tag>>
timerVars == <<armed, fired>>

Goto(t, l) == pc' = [pc EXCEPT ![t] = l]

---------------------------------------------------------------------------
(* tryConnect by thread t, up to its return.  Every caller asks for one     *)
(* session and no further thread.                                          *)

\* Mutant: an attempt that cannot be started is tried again.
GiveUpNever(t) == dead' = FALSE /\ Goto(t, "endpoint")
GiveUp(t) == dead' = TRUE /\ Goto(t, "idle")

\* setEndPoint resolves once, and returns what that gave ever after.
SetEndPoint(t) ==
  /\ pc[t] = "endpoint"
  /\ resolver' \in IF resolver = "none" THEN {"found", "failed"} ELSE {resolver}
  /\ IF resolver' = "found" THEN Goto(t, "create") /\ UNCHANGED dead ELSE GiveUp(t)
  /\ UNCHANGED <<phase, userVars, timerVars, work, fault>>

\* Nothing refers to the object c: a new connection may be made in its place.
\* (A user of c that onConnect stored too late and nobody deleted goes with it.)
Fresh(c) ==
  /\ phase[c] \in {"unused", "failed", "closed"}
  /\ user # c /\ pc[c] = "idle"
  /\ \A t \in Threads : work[t] # c

\* createConnectSession and async_connect ...
Create(t) ==
  /\ pc[t] = "create"
  /\ \E c \in Conns :
       /\ Fresh(c)
       /\ phase' = [phase EXCEPT ![c] = "connecting"]
       /\ heap' = [heap EXCEPT ![c] = "none"]
       /\ tag' = [tag EXCEPT ![c] = FALSE]
  /\ Goto(t, "expire")
  /\ work' = [work EXCEPT ![t] = Nobody]
  /\ UNCHANGED <<resolver, user, timerVars, dead, fault>>

\* ... of which each may throw: connectImplement logs it and returns.
CreateThrows(t) ==
  /\ pc[t] = "create"
  /\ GiveUp(t)
  /\ work' = [work EXCEPT ![t] = Nobody]
  /\ UNCHANGED <<resolver, phase, userVars, timerVars, fault>>

\* Mutant: one wait is abandoned, there or not.
AbandonOne == armed' = armed - 1
AbandonWaits == armed' = 0

\* expireTimerReady, and the end of update_handler: expires_from_now abandons
\* the waits there are, async_wait adds one.  Another thread may come between.
Expire(t) ==
  /\ pc[t] = "expire"
  /\ AbandonWaits
  /\ Goto(t, "wait")
  /\ UNCHANGED <<resolver, phase, userVars, fired, work, dead, fault>>

\* Mutant: no wait follows.
WaitNot(t) ==
  /\ pc[t] = "wait"
  /\ Goto(t, "idle")
  /\ UNCHANGED <<resolver, phase, userVars, timerVars, work, dead, fault>>

Wait(t) ==
  /\ pc[t] = "wait"
  /\ armed' = armed + 1
  /\ Goto(t, "idle")
  /\ UNCHANGED <<resolver, phase, userVars, fired, work, dead, fault>>

---------------------------------------------------------------------------
(* The service's strand: connect_handler and update_handler.                *)

\* Mutant: nobody is told.
ConnectFailsQuietly(c) ==
  /\ pc[Svc] = "idle" /\ phase[c] = "connecting"
  /\ phase' = [phase EXCEPT ![c] = "failed"]
  /\ UNCHANGED <<resolver, userVars, timerVars, pc, work, dead, fault>>

\* async_connect failed: close the socket, onConnectFailed tries again.  (That
\* the socket is not open cannot happen: nothing closes it before.)
ConnectFails(c) ==
  /\ pc[Svc] = "idle" /\ phase[c] = "connecting"
  /\ phase' = [phase EXCEPT ![c] = "failed"]
  /\ Goto(Svc, "endpoint")
  /\ UNCHANGED <<resolver, userVars, timerVars, work, dead, fault>>

\* Connected: start_connect lets the connection's own strand run ...
Connected(c) ==
  /\ pc[Svc] = "idle" /\ phase[c] = "connecting"
  /\ phase' = [phase EXCEPT ![c] = "open"]
  /\ work' = [work EXCEPT ![Svc] = c]
  /\ Goto(Svc, "user")
  /\ UNCHANGED <<resolver, userVars, timerVars, dead, fault>>

\* Mutant: m_user is kept if there is one.
StoreOnce(c) == user' = IF user = Nobody THEN c ELSE user
StoreUser(c) == user' = c

\* ... before onConnect makes the user and stores it in m_user,
OnConnectUser ==
  LET c == work[Svc] IN
  /\ pc[Svc] = "user"
  /\ heap' = [heap EXCEPT ![c] = "live"]
  /\ StoreUser(c)
  /\ Goto(Svc, "settag")
  /\ UNCHANGED <<resolver, phase, tag, timerVars, work, dead, fault>>

\* tags the connection
OnConnectTag ==
  /\ pc[Svc] = "settag"
  /\ tag' = [tag EXCEPT ![work[Svc]] = TRUE]
  /\ Goto(Svc, "greet")
  /\ UNCHANGED <<resolver, phase, user, heap, timerVars, work, dead, fault>>

\* and sends "/auth" through m_user.
OnConnectGreet ==
  /\ pc[Svc] = "greet"
  /\ fault' = IF heap[user] = "live" THEN "none" ELSE "freed"
  /\ work' = [work EXCEPT ![Svc] = Nobody]
  /\ Goto(Svc, "idle")
  /\ UNCHANGED <<resolver, phase, userVars, timerVars, dead>>

\* An outstanding wait expires: cancelling does not reach its handler any more.
TimerFires ==
  /\ armed > 0 /\ fired < MaxFired
  /\ armed' = armed - 1
  /\ fired' = fired + 1
  /\ UNCHANGED <<resolver, phase, userVars, pc, work, dead, fault>>

\* update_handler: onUpdate does nothing for the broker, then the timer is set
\* again.
UpdateHandler ==
  /\ pc[Svc] = "idle" /\ fired > 0
  /\ fired' = fired - 1
  /\ Goto(Svc, "expire")
  /\ UNCHANGED <<resolver, phase, userVars, armed, work, dead, fault>>

---------------------------------------------------------------------------
(* The strand of a connection.                                             *)

\* The socket goes down: close() fails, onClose is not called.
Lose(c) ==
  /\ phase[c] = "open"
  /\ phase' = [phase EXCEPT ![c] = "lost"]
  /\ UNCHANGED <<resolver, userVars, timerVars, pc, work, dead, fault>>

\* onClose: m_user is deleted, whosever it is, and keeps its value ...
OnClose(c) ==
  /\ phase[c] = "open" /\ pc[c] = "idle"
  /\ phase' = [phase EXCEPT ![c] = "closed"]
  /\ heap' = [d \in Conns |-> IF d = user THEN "freed" ELSE heap[d]]
  /\ fault' = IF user # Nobody /\ heap[user] = "freed" THEN "double" ELSE "none"
  /\ Goto(c, "untag")
  /\ UNCHANGED <<resolver, user, tag, timerVars, work, dead>>

\* Mutant: nobody connects again.
RestNow(c) == Goto(c, "idle")
Reconnect(c) == Goto(c, "endpoint")

\* ... the tag is cleared, and tryConnect called.
OnCloseTag(c) ==
  /\ pc[c] = "untag"
  /\ tag' = [tag EXCEPT ![c] = FALSE]
  /\ Reconnect(c)
  /\ UNCHANGED <<resolver, phase, user, heap, timerVars, work, dead, fault>>

---------------------------------------------------------------------------
(* sendJsonPacket, on the thread of a lobby user that leaves.  m_user never *)
(* becomes null again, so that testing and reading it are one step.        *)

SendLoad(s) ==
  /\ pc[s] = "idle" /\ user # Nobody
  /\ work' = [work EXCEPT ![s] = user]
  /\ Goto(s, "use")
  /\ UNCHANGED <<resolver, phase, userVars, timerVars, dead, fault>>

SendUse(s) ==
  /\ pc[s] = "use"
  /\ fault' = IF heap[work[s]] = "live" THEN "none" ELSE "freed"
  /\ work' = [work EXCEPT ![s] = Nobody]
  /\ Goto(s, "idle")
  /\ UNCHANGED <<resolver, phase, userVars, timerVars, dead>>

---------------------------------------------------------------------------
Init ==
  /\ resolver = "none"
  /\ phase = [c \in Conns |-> "unused"]
  /\ user = Nobody
  /\ heap = [c \in Conns |-> "none"]
  /\ tag = [c \in Conns |-> FALSE]
  /\ armed = 0 /\ fired = 0
  /\ pc = [t \in Threads |-> IF t = Main THEN "endpoint" ELSE "idle"]
  /\ work = [t \in Threads |-> Nobody]
  /\ dead = FALSE
  /\ fault = "none"

TryConnect(t) ==
  \/ SetEndPoint(t)
  \/ Create(t)
  \/ CreateThrows(t)
  \/ Expire(t)
  \/ Wait(t)

OnConnect == OnConnectUser \/ OnConnectTag \/ OnConnectGreet

ConnectHandler == \E c \in Conns : ConnectFails(c) \/ Connected(c)

Next ==
  /\ fault = "none"
  /\ \/ \E t \in Threads : TryConnect(t)
     \/ ConnectHandler
     \/ OnConnect
     \/ TimerFires
     \/ UpdateHandler
     \/ \E c \in Conns : Lose(c) \/ OnClose(c) \/ OnCloseTag(c)
     \/ \E s \in Senders : SendLoad(s) \/ SendUse(s)

Spec == Init /\ [][Next]_vars

\* Threads go on with what they are doing, the kernel reports how connecting
\* ended and that a timer expired.  Strong fairness of connect_handler: the
\* strand is a queue, update_handler cannot overtake it for ever.
Alive(A) == fault = "none" /\ A

Fairness ==
  /\ \A t \in Threads : WF_vars(Alive(TryConnect(t)))
  /\ SF_vars(Alive(ConnectHandler))
  /\ WF_vars(Alive(OnConnect))
  /\ WF_vars(Alive(TimerFires))
  /\ WF_vars(Alive(UpdateHandler))
  /\ \A c \in Conns : WF_vars(Alive(OnCloseTag(c)))
  /\ \A s \in Senders : WF_vars(Alive(SendUse(s)))

FairSpec == Spec /\ Fairness

---------------------------------------------------------------------------
\* Every variable has its type.
TypeOK ==
  /\ resolver \in {"none", "found", "failed"}
  /\ phase \in [Conns -> {"unused", "connecting", "failed", "open", "lost",
                          "closed"}]
  /\ user \in Conns \union {Nobody}
  /\ heap \in [Conns -> {"none", "live", "freed"}]
  /\ tag \in [Conns -> BOOLEAN]
  /\ armed \in Nat /\ fired \in Nat
  /\ pc \in [Threads -> {"idle", "endpoint", "create", "expire", "wait", "user",
                         "settag", "greet", "untag", "use"}]
  /\ work \in [Threads -> Conns \union {Nobody}]
  /\ dead \in BOOLEAN
  /\ fault \in {"none", "freed", "double"}

\* Who sees to it that there is a link: a connection that is being made or was
\* made and not closed, or a thread on its way to making one.
Links ==
  {c \in Conns : phase[c] \in {"connecting", "open", "lost"}} \union
  {t \in Threads : pc[t] \in {"untag", "endpoint", "create"}}

\* The link is neither doubled nor abandoned, whatever the order in which
\* attempts fail, connections end and the threads of both run: there is exactly
\* one attempt or connection, or none once an attempt could not be started.  (A
\* connection whose socket went down without onClose keeps its place.)
OneLink ==
  /\ \A x, y \in Links : x = y
  /\ Links = {} <=> dead

\* connect_handler is inside onConnect for connection c.
Announcing(c) == pc[Svc] \in {"user", "settag", "greet"} /\ work[Svc] = c

\* Once onConnect has returned, m_user is the live user of the open link and
\* the link carries its tag, up to onClose.
LinkHasUser ==
  \A c \in Conns :
    fault = "none" /\ phase[c] \in {"open", "lost"} /\ ~Announcing(c) =>
      user = c /\ heap[c] = "live" /\ tag[c]

\* m_user is deleted twice only if the connection ends after start_connect and
\* before onConnect has stored its user.
DoubleDeleteOnlyInWindow ==
  fault = "double" => pc[Svc] = "user" /\ phase[work[Svc]] = "closed"

\* assert(false && "There are no more endpoints to try. Shut down the client.")
\* is never reached: nobody tries again after the one resolve has failed.
EndpointsLeft == \A t \in Threads : pc[t] = "endpoint" => resolver # "failed"

\* From the first attempt on the update timer is set, expired or about to be
\* set, although each new attempt and each update abandon the waits they find,
\* on two strands.
UpdateNotLost ==
  (\E c \in Conns : phase[c] # "unused") =>
    armed + fired > 0 \/ \E t \in Threads : pc[t] \in {"expire", "wait"}

Up == \E c \in Conns : phase[c] \in {"open", "lost"}

\* Once a link stays up, updates never cease.  (While attempts fail one after
\* the other, each puts the update off.)
UpdatesGoOn ==
  <>[](fault = "none" /\ Up) => []<><<UpdateHandler>>_vars

\* As long as there is no link attempts are made and end, without end.
KeepsTrying ==
  []<>(Up \/ dead \/ fault # "none" \/ pc[Svc] = "endpoint")
=============================================================================
