----------------------------- MODULE ServerLife -----------------------------
(***************************************************************************)
(* The life of the server process: main.cpp registers the acceptor         *)
(* (eventReceiver.h), NetServiceAcceptor::acceptWait opens the socket and  *)
(* arms the first accept, the worker threads start before the timer is     *)
(* armed and before NetService::runService puts work into the io_service,  *)
(* then everybody runs until the io_service stops.                         *)
(*                                                                         *)
(* boost::asio (external): run() returns once the io_service is stopped;   *)
(* it stops by stop() or when the last outstanding operation has been      *)
(* handled, and it is never reset.  Handlers of the acceptor share one     *)
(* strand, so each is one step of whichever thread runs it.  The kernel    *)
(* (external): a socket that could not be bound listens on another port.   *)
(***************************************************************************)
EXTENDS Naturals

CONSTANTS Workers,       \* the worker threads there may be
          Keyboard,      \* the keyboard function of the test interface is started
          AcceptMayFail  \* an accept on a listening socket may fail

ASSUME LifeAssumption == Keyboard \in BOOLEAN /\ AcceptMayFail \in BOOLEAN

VARIABLES setting,   \* the configuration: activate, tick, and the workers (or none)
          main,      \* where the main thread is
          handlers,  \* the callbacks set in the service's _eventReceiver
          sock,      \* the acceptor socket: its state and address
          accept,    \* the accept operation: "none", "pending", "ok", "failed"
          deaf,      \* ghost: an accept has failed
          session,   \* a client that was accepted is still there
          timer,     \* the update timer: "none", "armed", "due"
          work,      \* the io_service::work object and the one-hour timer
          stopped,   \* the io_service is stopped
          thr,       \* the worker threads
          spare,     \* the thread runService starts when there is no worker
          waiter,    \* the waitServiceStart thread
          esc,       \* ghost: processKey has seen ESC
          ticks,     \* parity of the updates handled
          fault

vars == <<setting, main, handlers, sock, accept, deaf, session, timer, work, stopped, thr,
          spare, waiter, esc, ticks, fault>>

NoWork == [obj |-> FALSE, hour |-> "none"]
Alive == fault = "none"

\* Some thread is inside io_service::run.
Running == \/ main = "serving" \/ spare = "running"
           \/ \E w \in setting.workers : thr[w] = "running"

\* Operations outstanding, given the state of each: an open session reads.
Outstanding(a, s, t, wk) ==
    a # "none" \/ s \/ t # "none" \/ wk.obj \/ wk.hour \in {"armed", "due"}

----------------------------------------------------------------------------
(* The handlers a service calls *)

All == {"onAccept", "onAcceptFailed", "onConnect", "onConnectFailed", "onClose",
        "onCloseFailed", "onExpiredSession", "onUpdate", "noHandler", "initHandler"}

\* EventReceiverAcceptorRegister sets the acceptor's handlers only.
AcceptorHandlers == All \ {"onConnect", "onConnectFailed"}

\* Mutant: clone misses one member.
CloneShort(from) == from \ {"onUpdate"}

\* EventReceiver::clone copies them into the service, one by one.
Clone(from) == from \cap All

\* Callback h of the callbacks hs is called: a null function ends the process.
Called(h, hs) == fault' = IF h \in hs THEN "none" ELSE "null"

\* NetServiceImpl's constructor copies the handlers and calls one of them.
NewService == handlers' = Clone(AcceptorHandlers) /\ Called("initHandler", handlers')

----------------------------------------------------------------------------
(* registAcceptorReceiver, acceptWait *)

\* A new service, on which acceptWait is called.
CreateAcceptor == NewService /\ main' = "open"

\* Not activated: no acceptor.
Regist ==
    /\ Alive /\ main = "regist"
    /\ IF setting.activate THEN CreateAcceptor
       ELSE main' = "runService" /\ UNCHANGED <<handlers, fault>>
    /\ UNCHANGED <<setting, sock, accept, deaf, session, timer, work, stopped, thr, spare,
                   waiter, esc, ticks>>

\* The address an empty addr stands for.
AddressOfEmpty == "0.0.0.0"

\* acceptWait: resolve, open, bind, listen; the errors of bind and listen are
\* logged, set_option on a socket that could not be opened throws.
OpenSocket(outcome) ==
    /\ Alive /\ main = "open"
    /\ sock' = [st |-> outcome, addr |-> AddressOfEmpty]
    /\ IF outcome \in {"unresolved", "unopened"}
       THEN fault' = "setup" /\ UNCHANGED <<main, accept>>
       ELSE main' = "workers" /\ accept' = "pending" /\ UNCHANGED fault
    /\ UNCHANGED <<setting, handlers, deaf, session, timer, work, stopped, thr, spare,
                   waiter, esc, ticks>>

\* addWorkerThreads: one after the other, each already runs.
AddWorker(w) ==
    /\ Alive /\ main = "workers" /\ thr[w] = "none"
    /\ thr' = [thr EXCEPT ![w] = "running"]
    /\ UNCHANGED <<setting, main, handlers, sock, accept, deaf, session, timer, work,
                   stopped, spare, waiter, esc, ticks, fault>>

\* expireTimerReady.
ArmTimer ==
    /\ Alive /\ main = "workers" /\ \A w \in setting.workers : thr[w] # "none"
    /\ timer' = IF setting.tick THEN "armed" ELSE "none"
    /\ main' = "runService"
    /\ UNCHANGED <<setting, handlers, sock, accept, deaf, session, work, stopped, thr,
                   spare, waiter, esc, ticks, fault>>

----------------------------------------------------------------------------
(* runService and run *)

\* Mutant: only the timer of one hour keeps the io_service busy.
TheWorkTimerOnly == [obj |-> FALSE, hour |-> "armed"]

\* setWork: a work object and an insurance timer of one hour.
TheWork == [obj |-> TRUE, hour |-> "armed"]

\* runService finds the io_service of an acceptor (or fails its assertion),
\* sets the work, starts a thread if there is none, and the waiter.
RunService ==
    /\ Alive /\ main = "runService"
    /\ IF ~setting.activate THEN fault' = "assert" /\ UNCHANGED <<main, work, spare, waiter>>
       ELSE /\ work' = TheWork
            /\ spare' = IF setting.workers = {} THEN "running" ELSE spare
            /\ waiter' = "waiting"
            /\ main' = "serving" /\ UNCHANGED fault
    /\ UNCHANGED <<setting, handlers, sock, accept, deaf, session, timer, stopped, thr, esc,
                   ticks>>

\* waitServiceStart looks every 30 ms for an io_service that is not stopped.
PostServiceStart ==
    /\ Alive /\ waiter = "waiting" /\ ~stopped
    /\ waiter' = "called"
    /\ UNCHANGED <<setting, main, handlers, sock, accept, deaf, session, timer, work,
                   stopped, thr, spare, esc, ticks, fault>>

\* A stopped io_service lets every thread out of run().
WorkerReturns(w) ==
    /\ Alive /\ stopped /\ thr[w] = "running"
    /\ thr' = [thr EXCEPT ![w] = "returned"]
    /\ UNCHANGED <<setting, main, handlers, sock, accept, deaf, session, timer, work,
                   stopped, spare, waiter, esc, ticks, fault>>

SpareReturns ==
    /\ Alive /\ stopped /\ spare = "running" /\ spare' = "returned"
    /\ UNCHANGED <<setting, main, handlers, sock, accept, deaf, session, timer, work,
                   stopped, thr, waiter, esc, ticks, fault>>

MainReturns ==
    /\ Alive /\ stopped /\ main = "serving" /\ main' = "join"
    /\ UNCHANGED <<setting, handlers, sock, accept, deaf, session, timer, work, stopped,
                   thr, spare, waiter, esc, ticks, fault>>

\* Mutant: run ends without joining.
JoinedAlways == TRUE

Joined == spare # "running" /\ \A w \in setting.workers : thr[w] = "returned"

Join ==
    /\ Alive /\ main = "join" /\ Joined
    /\ main' = "ended"
    /\ UNCHANGED <<setting, handlers, sock, accept, deaf, session, timer, work, stopped,
                   thr, spare, waiter, esc, ticks, fault>>

----------------------------------------------------------------------------
(* What the kernel completes, and the handlers *)

\* A client, on a socket that listens where clients look for it.
ClientComes ==
    /\ Alive /\ accept = "pending" /\ sock.st = "listening" /\ accept' = "ok"
    /\ UNCHANGED <<setting, main, handlers, sock, deaf, session, timer, work, stopped, thr,
                   spare, waiter, esc, ticks, fault>>

\* An accept that fails: a socket that does not listen, or no descriptor left.
AcceptFails ==
    /\ Alive /\ accept = "pending" /\ accept' = "failed"
    /\ sock.st = "broken" \/ AcceptMayFail
    /\ UNCHANGED <<setting, main, handlers, sock, deaf, session, timer, work, stopped, thr,
                   spare, waiter, esc, ticks, fault>>

TimerExpires ==
    /\ Alive /\ timer = "armed" /\ timer' = "due"
    /\ UNCHANGED <<setting, main, handlers, sock, accept, deaf, session, work, stopped, thr,
                   spare, waiter, esc, ticks, fault>>

\* onAccept throws when the client is gone again (remote_endpoint): nothing
\* catches it, the process ends and the next accept is not armed.
AcceptThrows ==
    /\ Alive /\ Running /\ ~stopped /\ accept = "ok"
    /\ fault' = "threw" /\ accept' = "none"
    /\ UNCHANGED <<setting, main, handlers, sock, deaf, session, timer, work, stopped, thr,
                   spare, waiter, esc, ticks>>

\* accept_handler: the next accept is armed only without an error.
AcceptHandler ==
    /\ Alive /\ Running /\ ~stopped /\ accept \in {"ok", "failed"}
    /\ IF accept = "ok" THEN Called("onAccept", handlers) ELSE UNCHANGED fault
    /\ accept' = IF accept = "ok" THEN "pending" ELSE "none"
    /\ session' = (session \/ accept = "ok")
    /\ deaf' = (deaf \/ accept = "failed")
    /\ stopped' = ~Outstanding(accept', session', timer, work)
    /\ UNCHANGED <<setting, main, handlers, sock, timer, work, thr, spare, waiter, esc, ticks>>

\* The last session of some, or one of more, closes (module Connection): onClose
\* is called, and throws like onAccept.
SessionEnds(left, throws) ==
    /\ Alive /\ Running /\ ~stopped /\ session
    /\ IF throws THEN fault' = "threw" ELSE Called("onClose", handlers)
    /\ session' = left
    /\ stopped' = ~Outstanding(accept, session', timer, work)
    /\ UNCHANGED <<setting, main, handlers, sock, accept, deaf, timer, work, thr, spare, waiter,
                   esc, ticks>>

\* Mutant: the update handler does not arm the timer again.
NextTimerNone == "none"

NextTimer == "armed"

\* update_handler.
UpdateHandler ==
    /\ Alive /\ Running /\ ~stopped /\ timer = "due"
    /\ Called("onUpdate", handlers)
    /\ timer' = NextTimer /\ ticks' = 1 - ticks
    /\ stopped' = ~Outstanding(accept, session, timer', work)
    /\ UNCHANGED <<setting, main, handlers, sock, accept, deaf, session, work, thr, spare,
                   waiter, esc>>

\* The insurance timer of setWork does nothing when it expires.
HourHandler ==
    /\ Alive /\ Running /\ ~stopped /\ work.hour = "armed"
    /\ work' = [work EXCEPT !.hour = "none"]
    /\ stopped' = ~Outstanding(accept, session, timer, work')
    /\ UNCHANGED <<setting, main, handlers, sock, accept, deaf, session, timer, thr, spare,
                   waiter, esc, ticks, fault>>

\* Mutant: ESC takes the work away and waits for the io_service to run out of it.
EscapeByWork ==
    /\ Alive /\ Keyboard /\ main # "ended" /\ ~stopped
    /\ work' = NoWork /\ esc' = TRUE /\ stopped' = ~Outstanding(accept, session, timer, NoWork)
    /\ UNCHANGED <<setting, main, handlers, sock, accept, deaf, session, timer, thr, spare,
                   waiter, ticks, fault>>

\* keyEventHandler::processKey: ESC stops the io_service.
Escape ==
    /\ Alive /\ Keyboard /\ main # "ended" /\ ~stopped
    /\ stopped' = TRUE /\ esc' = TRUE
    /\ UNCHANGED <<setting, main, handlers, sock, accept, deaf, session, timer, work, thr,
                   spare, waiter, ticks, fault>>

----------------------------------------------------------------------------
Init ==
    /\ setting \in [activate : BOOLEAN, tick : BOOLEAN, workers : SUBSET Workers]
    /\ main = "regist" /\ handlers = {}
    /\ sock = [st |-> "none", addr |-> "none"]
    /\ accept = "none" /\ deaf = FALSE /\ session = FALSE /\ timer = "none" /\ work = NoWork
    /\ stopped = FALSE /\ thr = [w \in Workers |-> "none"] /\ spare = "none"
    /\ waiter = "none" /\ esc = FALSE /\ ticks = 0 /\ fault = "none"

Worker == \E w \in setting.workers : AddWorker(w) \/ WorkerReturns(w)

MainStep == Regist \/ ArmTimer \/ RunService \/ MainReturns \/ Join
    \/ \E o \in {"listening", "elsewhere", "broken", "unresolved", "unopened"} : OpenSocket(o)

Next == \/ MainStep \/ Worker \/ SpareReturns \/ PostServiceStart
        \/ ClientComes \/ AcceptFails \/ TimerExpires
        \/ AcceptHandler \/ AcceptThrows \/ UpdateHandler \/ HourHandler \/ Escape
        \/ \E left, throws \in BOOLEAN : SessionEnds(left, throws)

\* Threads make progress and timers expire; clients and keys need not come, and
\* sessions need not end.
Fairness ==
    /\ WF_vars(MainStep) /\ WF_vars(Worker) /\ WF_vars(SpareReturns)
    /\ WF_vars(PostServiceStart) /\ WF_vars(TimerExpires)
    /\ WF_vars(AcceptHandler \/ AcceptThrows) /\ WF_vars(UpdateHandler)

Spec == Init /\ [][Next]_vars /\ Fairness

----------------------------------------------------------------------------
\* But for ESC, the io_service stops only between addWorkerThreads and setWork,
\* and only after an accept that failed, with every session gone: once the work
\* is set, whatever fails and whoever leaves, it runs on.  (An exception that
\* leaves a handler is no stop; it ends the process where it is.)
OnlyEscapeStops ==
    [][(~stopped /\ stopped' /\ ~esc')
          => main \in {"workers", "runService"} /\ deaf' /\ ~session']_vars

\* What ends the process otherwise: start-up fails, by an exception or an
\* assertion, or onAccept or onClose throws on a client that is gone.  A null
\* callback is no excuse (clone and the register classes leave out only those
\* never called).
Excused == fault \in {"setup", "assert", "threw"}

\* The update of the users goes on as long as the server runs, whatever became
\* of accepting.
TicksGoOn ==
    \A n \in {0, 1} :
        (setting.tick /\ main = "serving" /\ ticks = n) ~> (ticks # n \/ stopped \/ Excused)

\* ESC ends the process: every thread leaves run and is joined.
EscapeEnds ==
    esc ~> \/ main = "ended" /\ ~\E w \in setting.workers : thr[w] = "running"
           \/ Excused

\* The server goes on until it is told to end, or a callback's exception ends it;
\* told to, it ends.
RunsAndEnds == TicksGoOn /\ EscapeEnds
=============================================================================
