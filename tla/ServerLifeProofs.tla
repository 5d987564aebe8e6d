-------------------------- MODULE ServerLifeProofs --------------------------
(***************************************************************************)
(* What holds of ServerLife for any number of workers, with or without the *)
(* keyboard function, and whether or not accepts may fail.                 *)
(***************************************************************************)
EXTENDS ServerLife, TLAPS

NoSocket == {"none", "unresolved", "unopened"}
Listens  == {"listening", "elsewhere", "broken"}

\* The values of the variables.
TypeOK ==
    /\ setting \in [activate : BOOLEAN, tick : BOOLEAN, workers : SUBSET Workers]
    /\ main \in {"regist", "open", "workers", "runService", "serving", "join", "ended"}
    /\ handlers \in SUBSET All
    /\ sock \in [st : NoSocket \cup Listens, addr : {"none", AddressOfEmpty}]
    /\ accept \in {"none", "pending", "ok", "failed"}
    /\ deaf \in BOOLEAN
    /\ session \in BOOLEAN
    /\ timer \in {"none", "armed", "due"}
    /\ work \in [obj : BOOLEAN, hour : {"none", "armed", "due"}]
    /\ stopped \in BOOLEAN
    /\ thr \in [Workers -> {"none", "running", "returned"}]
    /\ spare \in {"none", "running", "returned"}
    /\ waiter \in {"none", "waiting", "called"}
    /\ esc \in BOOLEAN
    /\ ticks \in {0, 1}
    /\ fault \in {"none", "null", "setup", "assert", "threw"}

\* The accept operation belongs to a socket that acceptWait has opened, and to
\* none before; it is missing when an accept has failed, and where onAccept threw.
AcceptOfSocket ==
    /\ main \in {"regist", "open"} => sock.st \in NoSocket
    /\ sock.st \in NoSocket => accept = "none" /\ ~deaf /\ ~session
    /\ sock.st \in Listens =>
          /\ accept = "none" => deaf \/ fault = "threw"
          /\ deaf => accept = "none"

\* setWork's object keeps the io_service busy from runService on, and its timer
\* never runs without it.
WorkHeld ==
    /\ main = "serving" => work.obj
    /\ work.hour # "none" => work.obj

\* Nobody runs the io_service before addWorkerThreads, and nobody leaves it
\* before it is stopped.
RunFromWorkersOn ==
    /\ main \in {"regist", "open"} => spare = "none" /\ \A w \in Workers : thr[w] = "none"
    /\ main \in {"join", "ended"} => stopped

\* The io_service has handlers to call only after the service was constructed,
\* which cloned the acceptor's callbacks.
HandlersSet ==
    /\ handlers \in {{}, AcceptorHandlers}
    /\ (main \in {"open", "workers"} \/ accept # "none" \/ timer # "none" \/ session)
          => handlers = AcceptorHandlers

\* No callback that is called is null.
NoNullHandler == fault # "null"

\* The io_service stops by ESC, or because the accept failed with no session left.
StopHasCause == stopped => esc \/ (deaf /\ accept = "none" /\ ~session)

\* Nobody is left inside io_service::run when the process ends.
EndedMeansJoined == main = "ended" => Joined

Inv == /\ TypeOK /\ AcceptOfSocket /\ WorkHeld /\ RunFromWorkersOn /\ HandlersSet
       /\ NoNullHandler /\ StopHasCause /\ EndedMeansJoined

----------------------------------------------------------------------------
(* One lemma per action: it keeps Inv. *)

\* registAcceptorReceiver: either nothing is created, or a service with all the
\* acceptor's callbacks.
LEMMA RegistStep ==
  ASSUME Inv, Regist
  PROVE  Inv'
<1>1. TypeOK'
  <2>1. CASE setting.activate
    BY <2>1 DEF Inv, TypeOK, AcceptorHandlers, All, Regist, CreateAcceptor, NewService,
       Called, Clone
  <2>2. CASE ~setting.activate
    BY <2>2 DEF Inv, TypeOK, Regist
  <2>. QED  BY <2>1, <2>2
<1>2. AcceptOfSocket'
  BY DEF Inv, TypeOK, Alive, AcceptOfSocket, NoSocket, Regist, CreateAcceptor, NewService,
     Called, Clone
<1>3. HandlersSet'
  BY DEF Inv, TypeOK, HandlersSet, AcceptorHandlers, All, Regist, CreateAcceptor,
     NewService, Called, Clone
<1>4. NoNullHandler'
  BY DEF Inv, TypeOK, NoNullHandler, AcceptorHandlers, All, Alive, Regist,
     CreateAcceptor, NewService, Called, Clone
<1>5. (WorkHeld /\ StopHasCause /\ EndedMeansJoined)'
  BY DEF Inv, TypeOK, WorkHeld, StopHasCause, EndedMeansJoined, Joined, Regist,
     CreateAcceptor, NewService, Called, Clone
<1>r. RunFromWorkersOn'
  BY DEF Inv, TypeOK, RunFromWorkersOn, Regist, CreateAcceptor, NewService,
     Called, Clone
<1>. QED  BY <1>1, <1>2, <1>3, <1>4, <1>5, <1>r DEF Inv

\* acceptWait gives the socket its first accept, or fails without a socket.
LEMMA OpenSocketStep ==
  ASSUME Inv, NEW o \in Listens \cup {"unresolved", "unopened"}, OpenSocket(o)
  PROVE  Inv'
<1>1. TypeOK'
  BY DEF Inv, TypeOK, NoSocket, Listens, OpenSocket, AddressOfEmpty
<1>2. AcceptOfSocket'
  BY DEF Inv, TypeOK, AcceptOfSocket, NoSocket, Listens, OpenSocket, AddressOfEmpty
<1>3. HandlersSet'
  BY DEF Inv, TypeOK, HandlersSet, OpenSocket, AddressOfEmpty
<1>4. NoNullHandler'
  BY DEF Inv, TypeOK, NoNullHandler, OpenSocket, AddressOfEmpty, Alive
<1>5. StopHasCause'
  BY DEF Inv, TypeOK, StopHasCause, AcceptOfSocket, NoSocket, OpenSocket, AddressOfEmpty
<1>6. (WorkHeld /\ EndedMeansJoined)'
  BY DEF Inv, TypeOK, WorkHeld, EndedMeansJoined, Joined, OpenSocket, AddressOfEmpty
<1>r. RunFromWorkersOn'
  BY DEF Inv, TypeOK, RunFromWorkersOn, OpenSocket
<1>. QED  BY <1>1, <1>2, <1>3, <1>4, <1>5, <1>6, <1>r DEF Inv

\* expireTimerReady arms the timer of a service that has its callbacks.
LEMMA ArmTimerStep ==
  ASSUME Inv, ArmTimer
  PROVE  Inv'
<1>1. TypeOK'
  BY DEF Inv, TypeOK, ArmTimer
<1>2. AcceptOfSocket'
  BY DEF Inv, TypeOK, AcceptOfSocket, ArmTimer
<1>3. HandlersSet'
  BY DEF Inv, TypeOK, HandlersSet, ArmTimer
<1>4. (WorkHeld /\ NoNullHandler /\ StopHasCause /\ EndedMeansJoined)'
  BY DEF Inv, TypeOK, WorkHeld, NoNullHandler, StopHasCause, EndedMeansJoined, Joined,
     ArmTimer
<1>r. RunFromWorkersOn'
  BY DEF Inv, TypeOK, RunFromWorkersOn, ArmTimer
<1>. QED  BY <1>1, <1>2, <1>3, <1>4, <1>r DEF Inv

\* runService sets the work before the main thread serves.
LEMMA RunServiceStep ==
  ASSUME Inv, RunService
  PROVE  Inv'
<1>1. TypeOK'
  <2>1. TheWork \in [obj : BOOLEAN, hour : {"none", "armed", "due"}]
    BY DEF TheWork
  <2>. QED
    BY <2>1 DEF Inv, TypeOK, RunService
<1>2. WorkHeld'
  BY DEF Inv, TypeOK, WorkHeld, RunService, TheWork
<1>3. HandlersSet'
  BY DEF Inv, TypeOK, HandlersSet, RunService, TheWork
<1>4. NoNullHandler'
  BY DEF Inv, TypeOK, NoNullHandler, RunService, TheWork, Alive
<1>5. EndedMeansJoined'
  BY DEF Inv, TypeOK, EndedMeansJoined, Joined, RunService, TheWork
<1>6. (AcceptOfSocket /\ StopHasCause)'
  BY DEF Inv, TypeOK, Alive, AcceptOfSocket, StopHasCause, RunService, TheWork
<1>r. RunFromWorkersOn'
  BY DEF Inv, TypeOK, RunFromWorkersOn, RunService
<1>. QED  BY <1>1, <1>2, <1>3, <1>4, <1>5, <1>6, <1>r DEF Inv

\* The main thread leaves io_service::run.
LEMMA MainReturnsStep ==
  ASSUME Inv, MainReturns
  PROVE  Inv'
<1>1. TypeOK'
  BY DEF Inv, TypeOK, MainReturns
<1>2. WorkHeld'
  BY DEF Inv, TypeOK, WorkHeld, MainReturns
<1>3. (AcceptOfSocket /\ HandlersSet /\ NoNullHandler /\ StopHasCause /\ EndedMeansJoined)'
  BY DEF Inv, TypeOK, AcceptOfSocket, HandlersSet, NoNullHandler, StopHasCause,
     EndedMeansJoined, Joined, MainReturns
<1>r. RunFromWorkersOn'
  BY DEF Inv, TypeOK, RunFromWorkersOn, MainReturns
<1>. QED  BY <1>1, <1>2, <1>3, <1>r DEF Inv

\* The main thread ends when all others have been joined.
LEMMA JoinStep ==
  ASSUME Inv, Join
  PROVE  Inv'
<1>1. TypeOK'
  BY DEF Inv, TypeOK, Join
<1>2. EndedMeansJoined'
  BY DEF Inv, TypeOK, EndedMeansJoined, Joined, Join
<1>3. (AcceptOfSocket /\ WorkHeld /\ HandlersSet /\ NoNullHandler /\ StopHasCause)'
  BY DEF Inv, TypeOK, AcceptOfSocket, WorkHeld, HandlersSet, NoNullHandler,
     StopHasCause, Join
<1>r. RunFromWorkersOn'
  BY DEF Inv, TypeOK, RunFromWorkersOn, Join
<1>. QED  BY <1>1, <1>2, <1>3, <1>r DEF Inv

\* addWorkerThreads starts a thread while the main thread is far from its end.
LEMMA AddWorkerStep ==
  ASSUME Inv, NEW w \in setting.workers, AddWorker(w)
  PROVE  Inv'
<1>1. TypeOK'
  BY DEF Inv, TypeOK, AddWorker
<1>2. EndedMeansJoined'
  BY DEF Inv, TypeOK, EndedMeansJoined, Joined, AddWorker
<1>3. (AcceptOfSocket /\ WorkHeld /\ HandlersSet /\ NoNullHandler /\ StopHasCause)'
  BY DEF Inv, TypeOK, AcceptOfSocket, WorkHeld, HandlersSet, NoNullHandler,
     StopHasCause, AddWorker
<1>r. RunFromWorkersOn'
  BY DEF Inv, TypeOK, RunFromWorkersOn, AddWorker
<1>. QED  BY <1>1, <1>2, <1>3, <1>r DEF Inv

\* A worker leaves io_service::run.
LEMMA WorkerReturnsStep ==
  ASSUME Inv, NEW w \in setting.workers, WorkerReturns(w)
  PROVE  Inv'
<1>1. TypeOK'
  BY DEF Inv, TypeOK, WorkerReturns
<1>2. EndedMeansJoined'
  BY DEF Inv, TypeOK, EndedMeansJoined, Joined, WorkerReturns
<1>3. (AcceptOfSocket /\ WorkHeld /\ HandlersSet /\ NoNullHandler /\ StopHasCause)'
  BY DEF Inv, TypeOK, AcceptOfSocket, WorkHeld, HandlersSet, NoNullHandler,
     StopHasCause, WorkerReturns
<1>r. RunFromWorkersOn'
  BY DEF Inv, TypeOK, RunFromWorkersOn, WorkerReturns
<1>. QED  BY <1>1, <1>2, <1>3, <1>r DEF Inv

\* The thread that runService started leaves io_service::run.
LEMMA SpareReturnsStep ==
  ASSUME Inv, SpareReturns
  PROVE  Inv'
<1>1. TypeOK'
  BY DEF Inv, TypeOK, SpareReturns
<1>2. EndedMeansJoined'
  BY DEF Inv, TypeOK, EndedMeansJoined, Joined, SpareReturns
<1>3. (AcceptOfSocket /\ WorkHeld /\ HandlersSet /\ NoNullHandler /\ StopHasCause)'
  BY DEF Inv, TypeOK, AcceptOfSocket, WorkHeld, HandlersSet, NoNullHandler,
     StopHasCause, SpareReturns
<1>r. RunFromWorkersOn'
  BY DEF Inv, TypeOK, RunFromWorkersOn, SpareReturns
<1>. QED  BY <1>1, <1>2, <1>3, <1>r DEF Inv

\* waitServiceStart calls back and changes nothing else.
LEMMA PostServiceStartStep ==
  ASSUME Inv, PostServiceStart
  PROVE  Inv'
<1>1. TypeOK'
  BY DEF Inv, TypeOK, PostServiceStart
<1>2. (AcceptOfSocket /\ WorkHeld /\ HandlersSet /\ NoNullHandler /\ StopHasCause
         /\ EndedMeansJoined)'
  BY DEF Inv, TypeOK, AcceptOfSocket, WorkHeld, HandlersSet, NoNullHandler,
     StopHasCause, EndedMeansJoined, Joined, PostServiceStart
<1>r. RunFromWorkersOn'
  BY DEF Inv, TypeOK, RunFromWorkersOn, PostServiceStart
<1>. QED  BY <1>1, <1>2, <1>r DEF Inv

\* A pending accept completes with a client.
LEMMA ClientComesStep ==
  ASSUME Inv, ClientComes
  PROVE  Inv'
<1>1. TypeOK'
  BY DEF Inv, TypeOK, ClientComes
<1>2. AcceptOfSocket'
  BY DEF Inv, TypeOK, AcceptOfSocket, Listens, ClientComes
<1>3. StopHasCause'
  BY DEF Inv, TypeOK, StopHasCause, ClientComes
<1>4. (WorkHeld /\ HandlersSet /\ NoNullHandler /\ EndedMeansJoined)'
  BY DEF Inv, TypeOK, WorkHeld, HandlersSet, NoNullHandler, EndedMeansJoined, Joined,
     ClientComes
<1>r. RunFromWorkersOn'
  BY DEF Inv, TypeOK, RunFromWorkersOn, ClientComes
<1>. QED  BY <1>1, <1>2, <1>3, <1>4, <1>r DEF Inv

\* A pending accept completes with an error.
LEMMA AcceptFailsStep ==
  ASSUME Inv, AcceptFails
  PROVE  Inv'
<1>1. TypeOK'
  BY DEF Inv, TypeOK, AcceptFails
<1>2. AcceptOfSocket'
  BY DEF Inv, TypeOK, AcceptOfSocket, Listens, AcceptFails
<1>3. StopHasCause'
  BY DEF Inv, TypeOK, StopHasCause, AcceptFails
<1>4. (WorkHeld /\ HandlersSet /\ NoNullHandler /\ EndedMeansJoined)'
  BY DEF Inv, TypeOK, WorkHeld, HandlersSet, NoNullHandler, EndedMeansJoined, Joined,
     AcceptFails
<1>r. RunFromWorkersOn'
  BY DEF Inv, TypeOK, RunFromWorkersOn, AcceptFails
<1>. QED  BY <1>1, <1>2, <1>3, <1>4, <1>r DEF Inv

\* The update timer expires.
LEMMA TimerExpiresStep ==
  ASSUME Inv, TimerExpires
  PROVE  Inv'
<1>1. TypeOK'
  BY DEF Inv, TypeOK, TimerExpires
<1>2. HandlersSet'
  BY DEF Inv, TypeOK, HandlersSet, TimerExpires
<1>3. (AcceptOfSocket /\ WorkHeld /\ NoNullHandler /\ StopHasCause /\ EndedMeansJoined)'
  BY DEF Inv, TypeOK, AcceptOfSocket, WorkHeld, NoNullHandler, StopHasCause,
     EndedMeansJoined, Joined, TimerExpires
<1>r. RunFromWorkersOn'
  BY DEF Inv, TypeOK, RunFromWorkersOn, TimerExpires
<1>. QED  BY <1>1, <1>2, <1>3, <1>r DEF Inv

\* accept_handler arms the next accept, or none from a failure on; the io_service
\* stops under it only if nothing is left, which takes a failed accept.
LEMMA AcceptHandlerStep ==
  ASSUME Inv, AcceptHandler
  PROVE  Inv'
<1>1. TypeOK'
  BY DEF Inv, TypeOK, AcceptHandler, Called, Outstanding
<1>2. AcceptOfSocket'
  BY DEF Inv, TypeOK, AcceptOfSocket, NoSocket, Listens, AcceptHandler,
     Called, Outstanding
<1>3. HandlersSet'
  BY DEF Inv, TypeOK, HandlersSet, AcceptHandler, Called, Outstanding
<1>4. NoNullHandler'
  BY DEF Inv, TypeOK, NoNullHandler, HandlersSet, AcceptorHandlers, All, Alive,
     AcceptHandler, Called, Outstanding
<1>5. StopHasCause'
  BY DEF Inv, TypeOK, StopHasCause, AcceptHandler, Called, Outstanding
<1>6. (WorkHeld /\ EndedMeansJoined)'
  BY DEF Inv, TypeOK, WorkHeld, EndedMeansJoined, Joined, AcceptHandler,
     Called, Outstanding
<1>r. RunFromWorkersOn'
  BY DEF Inv, TypeOK, RunFromWorkersOn, AcceptHandler, Called, Outstanding
<1>. QED  BY <1>1, <1>2, <1>3, <1>4, <1>5, <1>6, <1>r DEF Inv

\* onAccept throws: nothing but the accept that is not armed again changes.
LEMMA AcceptThrowsStep ==
  ASSUME Inv, AcceptThrows
  PROVE  Inv'
<1>1. TypeOK'
  BY DEF Inv, TypeOK, AcceptThrows
<1>2. AcceptOfSocket'
  BY DEF Inv, TypeOK, AcceptOfSocket, NoSocket, Listens, AcceptThrows
<1>3. StopHasCause'
  BY DEF Inv, TypeOK, StopHasCause, AcceptThrows
<1>4. (WorkHeld /\ RunFromWorkersOn /\ HandlersSet /\ NoNullHandler /\ EndedMeansJoined)'
  BY DEF Inv, TypeOK, WorkHeld, RunFromWorkersOn, HandlersSet, NoNullHandler,
     EndedMeansJoined, Joined, AcceptThrows
<1>. QED  BY <1>1, <1>2, <1>3, <1>4 DEF Inv

\* A session ends: the io_service stops under it only if the accept is gone too,
\* which takes a failed one.
LEMMA SessionEndsStep ==
  ASSUME Inv, NEW left \in BOOLEAN, NEW throws \in BOOLEAN, SessionEnds(left, throws)
  PROVE  Inv'
<1>1. TypeOK'
  BY DEF Inv, TypeOK, SessionEnds, Called, Outstanding
<1>2. NoNullHandler' /\ (fault' = "none" \/ fault' = "threw")
  BY DEF Inv, NoNullHandler, HandlersSet, AcceptorHandlers, All, Alive, SessionEnds, Called
<1>3. AcceptOfSocket'
  BY <1>2 DEF Inv, TypeOK, AcceptOfSocket, Alive, SessionEnds
<1>4. StopHasCause'
  <2>1. sock.st \in Listens
    BY DEF Inv, TypeOK, AcceptOfSocket, SessionEnds
  <2>2. accept = "none" => deaf
    BY <2>1, Zenon DEF Inv, AcceptOfSocket, Alive, SessionEnds
  <2>3. stopped' => accept = "none" /\ ~session'
    BY Zenon DEF SessionEnds, Outstanding
  <2>. QED
    BY <2>2, <2>3 DEF StopHasCause, SessionEnds
<1>5. HandlersSet'
  BY DEF Inv, TypeOK, HandlersSet, SessionEnds
<1>6. (WorkHeld /\ RunFromWorkersOn /\ EndedMeansJoined)'
  BY DEF Inv, TypeOK, WorkHeld, RunFromWorkersOn, EndedMeansJoined, Joined, SessionEnds,
     Outstanding
<1>. QED  BY <1>1, <1>2, <1>3, <1>4, <1>5, <1>6 DEF Inv

\* update_handler arms its timer again, so the io_service never stops under it.
LEMMA UpdateHandlerStep ==
  ASSUME Inv, UpdateHandler
  PROVE  Inv'
<1>1. TypeOK'
  BY DEF Inv, TypeOK, UpdateHandler, NextTimer, Called, Outstanding
<1>2. HandlersSet'
  BY DEF Inv, TypeOK, HandlersSet, UpdateHandler, NextTimer, Called, Outstanding
<1>3. NoNullHandler'
  BY DEF Inv, TypeOK, NoNullHandler, HandlersSet, AcceptorHandlers, All, UpdateHandler,
     NextTimer, Called, Outstanding, Alive
<1>4. StopHasCause'
  BY DEF Inv, TypeOK, StopHasCause, UpdateHandler, NextTimer, Called, Outstanding
<1>5. (AcceptOfSocket /\ WorkHeld /\ EndedMeansJoined)'
  BY DEF Inv, TypeOK, Alive, AcceptOfSocket, WorkHeld, EndedMeansJoined, Joined, UpdateHandler,
     NextTimer, Called, Outstanding
<1>r. RunFromWorkersOn'
  BY DEF Inv, TypeOK, RunFromWorkersOn, UpdateHandler, Called, Outstanding
<1>. QED  BY <1>1, <1>2, <1>3, <1>4, <1>5, <1>r DEF Inv

\* The one-hour timer of setWork expires while the work object is still there.
LEMMA HourHandlerStep ==
  ASSUME Inv, HourHandler
  PROVE  Inv'
<1>1. TypeOK'
  BY DEF Inv, TypeOK, HourHandler, Outstanding
<1>2. WorkHeld'
  BY DEF Inv, TypeOK, WorkHeld, HourHandler, Outstanding
<1>3. StopHasCause'
  BY DEF Inv, TypeOK, StopHasCause, WorkHeld, HourHandler, Outstanding
<1>4. (AcceptOfSocket /\ HandlersSet /\ NoNullHandler /\ EndedMeansJoined)'
  BY DEF Inv, TypeOK, AcceptOfSocket, HandlersSet, NoNullHandler, EndedMeansJoined,
     Joined, HourHandler, Outstanding
<1>r. RunFromWorkersOn'
  BY DEF Inv, TypeOK, RunFromWorkersOn, HourHandler
<1>. QED  BY <1>1, <1>2, <1>3, <1>4, <1>r DEF Inv

\* ESC is the cause of the stop it brings about.
LEMMA EscapeStep ==
  ASSUME Inv, Escape
  PROVE  Inv'
<1>1. TypeOK'
  BY DEF Inv, TypeOK, Escape
<1>2. StopHasCause'
  BY DEF Inv, TypeOK, StopHasCause, Escape
<1>3. (AcceptOfSocket /\ WorkHeld /\ HandlersSet /\ NoNullHandler /\ EndedMeansJoined)'
  BY DEF Inv, TypeOK, AcceptOfSocket, WorkHeld, HandlersSet, NoNullHandler,
     EndedMeansJoined, Joined, Escape
<1>r. RunFromWorkersOn'
  BY DEF Inv, TypeOK, RunFromWorkersOn, Escape
<1>. QED  BY <1>1, <1>2, <1>3, <1>r DEF Inv

\* Every step keeps Inv.
LEMMA NextStep == Inv /\ [Next]_vars => Inv'
<1> SUFFICES ASSUME Inv, [Next]_vars PROVE Inv'
  OBVIOUS
<1>1. CASE MainStep
  <2>1. ASSUME NEW o \in {"listening", "elsewhere", "broken", "unresolved", "unopened"},
               OpenSocket(o)
        PROVE  Inv'
    BY <2>1, OpenSocketStep DEF Listens
  <2>. QED
    BY <1>1, <2>1, RegistStep, ArmTimerStep, RunServiceStep, MainReturnsStep, JoinStep
    DEF MainStep
<1>2. CASE Worker
  BY <1>2, AddWorkerStep, WorkerReturnsStep DEF Worker
<1>3. CASE UNCHANGED vars
  BY <1>3 DEF vars, Inv, TypeOK, AcceptOfSocket, WorkHeld, RunFromWorkersOn, HandlersSet,
              NoNullHandler, StopHasCause, EndedMeansJoined, Joined
<1>. QED
  BY <1>1, <1>2, <1>3, SpareReturnsStep, PostServiceStartStep, ClientComesStep,
     AcceptFailsStep, TimerExpiresStep, AcceptHandlerStep, AcceptThrowsStep,
     UpdateHandlerStep, HourHandlerStep, EscapeStep, SessionEndsStep
  DEF Next

\* Before registAcceptorReceiver nothing is there.
LEMMA InitInv == Init => Inv
<1>1. NoWork \in [obj : BOOLEAN, hour : {"none", "armed", "due"}]
  BY DEF NoWork
<1>2. Init => TypeOK
  <2>1. Init => sock \in [st : NoSocket \cup Listens, addr : {"none", AddressOfEmpty}]
    BY DEF Init, NoSocket
  <2>2. Init => thr \in [Workers -> {"none", "running", "returned"}]
    BY DEF Init
  <2>. QED
    BY <1>1, <2>1, <2>2 DEF Init, TypeOK
<1>3. Init => AcceptOfSocket /\ WorkHeld /\ RunFromWorkersOn /\ HandlersSet
  BY DEF Init, NoWork, AcceptOfSocket, WorkHeld, RunFromWorkersOn, HandlersSet, NoSocket, Listens
<1>4. Init => NoNullHandler /\ StopHasCause /\ EndedMeansJoined
  BY DEF Init, NoNullHandler, StopHasCause, EndedMeansJoined
<1>. QED  BY <1>2, <1>3, <1>4 DEF Inv

----------------------------------------------------------------------------
(* The theorems. *)

\* The inductive invariant holds: Inv names what each part says of the code.
THEOREM LifeInvariant == Spec => []Inv
  BY InitInv, NextStep, PTL DEF Spec

\* The io_service runs out of work by itself only between addWorkerThreads and
\* setWork, after a failed accept and without a session: from setWork on the work
\* object keeps it running whatever handlers return, and only ESC stops it.
THEOREM OnlyEscape == Spec => OnlyEscapeStops
<1>1. Inv /\ [Next]_vars => [(~stopped /\ stopped' /\ ~esc')
          => main \in {"workers", "runService"} /\ deaf' /\ ~session']_vars
  <2> SUFFICES ASSUME Inv, Next, ~stopped, stopped', ~esc'
               PROVE  main \in {"workers", "runService"} /\ deaf' /\ ~session'
    OBVIOUS
  <2>1. deaf' /\ ~session'
    BY NextStep DEF Inv, StopHasCause
  <2>2. ~MainStep /\ ~Worker
    BY DEF MainStep, Regist, ArmTimer, RunService, MainReturns, Join, OpenSocket,
           Worker, AddWorker, WorkerReturns
  <2>3. ~SpareReturns /\ ~PostServiceStart /\ ~ClientComes /\ ~AcceptFails /\ ~TimerExpires
    BY DEF SpareReturns, PostServiceStart, ClientComes, AcceptFails, TimerExpires
  <2>4. ~Escape /\ ~AcceptThrows
    BY DEF Escape, AcceptThrows
  <2>5. main # "serving"
    <3> SUFFICES ASSUME main = "serving" PROVE FALSE
      OBVIOUS
    <3>1. work.obj
      BY DEF Inv, WorkHeld
    <3>2. ~AcceptHandler /\ ~UpdateHandler /\ ~HourHandler
      BY <3>1 DEF Inv, TypeOK, AcceptHandler, UpdateHandler, HourHandler, Outstanding
    <3>3. ~\E left, throws \in BOOLEAN : SessionEnds(left, throws)
      BY <3>1 DEF SessionEnds, Outstanding
    <3>. QED
      BY <2>2, <2>3, <2>4, <3>2, <3>3 DEF Next
  <2>6. Running
    BY <2>2, <2>3, <2>4 DEF Next, AcceptHandler, UpdateHandler, HourHandler, SessionEnds
  <2>7. main \notin {"regist", "open", "join", "ended"}
    BY <2>5, <2>6 DEF Inv, TypeOK, RunFromWorkersOn, Running
  <2>. QED
    BY <2>1, <2>5, <2>7 DEF Inv, TypeOK
<1>. QED  BY <1>1, LifeInvariant, PTL DEF Spec, OnlyEscapeStops

\* The callbacks that EventReceiver::clone copies are all that the acceptor's
\* handlers ever call: no null function is called, in any order of threads.
THEOREM NoNullCallback == Spec => []NoNullHandler
  BY LifeInvariant, PTL DEF Inv

\* The io_service, which is never reset, is stopped by ESC or because an accept
\* failed and no session was left, and by nothing else.
THEOREM StopsWithCause == Spec => []StopHasCause
  BY LifeInvariant, PTL DEF Inv

\* NetService::run returns to main() only after every thread has left the
\* io_service.
THEOREM JoinedAtEnd == Spec => []EndedMeansJoined
  BY LifeInvariant, PTL DEF Inv

=============================================================================
