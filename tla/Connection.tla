---------------------------- MODULE Connection ----------------------------
(***************************************************************************)
(* One server-side connection (net/connectionImpl.cpp) from the moment its *)
(* socket is accepted: the acceptor thread that announces and starts it,   *)
(* the strand that serialises its handlers, the two timers, the TCP state  *)
(* that decides which socket calls fail, and the lobby's callbacks         *)
(* (lobbysvr/lobbyAcceptorReceiver.cpp).                                   *)
(*                                                                         *)
(* A "batch" is what one async_read_some returned: one MessageBuffer.      *)
(* Batches are numbered from 1 in the order they are read.                 *)
(***************************************************************************)
EXTENDS Integers, Sequences

CONSTANTS
  MaxBatches,   \* bound on the batches the peer sends
  MaxSends,     \* bound on the packets sent to the peer
  KeepAlive     \* TRUE iff keep_alive_ms is not 0

ASSUME BoundsAssumption == MaxBatches \in Nat /\ MaxSends \in Nat \ {0}
ASSUME KeepAliveAssumption == KeepAlive \in BOOLEAN

VARIABLES
  acc,      \* progress of the acceptor thread in accept_handler
  status,   \* _status
  tcp,      \* kernel socket: [up, peerFin, shutRecv, finSent]
  msg,      \* number of the batch _msg will hold, 0 before start_accept
  reading,  \* TRUE while an async_read_some into _msg is outstanding
  nread,    \* batches read so far
  strand,   \* handlers queued in _strand, oldest first
  posted,   \* close handlers posted to _ios that are not yet in the strand
  armed,    \* timers with an async_wait outstanding
  fired,    \* expired timers whose handler is not yet in the strand
  writes,   \* outstanding async_write operations
  nsent,    \* async_write operations started
  pending,  \* _readHandlerPending
  retry,    \* _postRetryCount
  early,    \* closing() was called before start_accept set the status
  tag,      \* TRUE while _tag points at the lobby's User
  run,      \* number of dispatch handlers run: parsed or dropped
  last,     \* last batch given to the parser, 0 if none
  parsed,   \* number of batches given to the parser
  closes,   \* number of onClose callbacks
  fault     \* "none", "threw" or "freed": the process is lost

vars == <<acc, status, tcp, msg, reading, nread, strand, posted, armed, fired,
          writes, nsent, pending, retry, early, tag, run, last, parsed, closes,
          fault>>

readVars  == <<msg, reading, nread>>
sendVars  == <<writes, nsent>>
timerVars == <<armed, fired>>
countVars == <<pending, retry, early>>
userVars  == <<tag, closes>>
parseVars == <<run, last, parsed>>

RetryLimit == 5

Timers == {"keep", "reserve"}

\* A handler bound with boost::bind: what runs, the error code and the batch.
Read(ec)    == [op |-> "read",     ec |-> ec,   batch |-> 0]
Dispatch(b) == [op |-> "dispatch", ec |-> "ok", batch |-> b]
Write(ec)   == [op |-> "write",    ec |-> ec,   batch |-> 0]
Timer(t)    == [op |-> t,          ec |-> "ok", batch |-> 0]
CloseOp     == [op |-> "close",    ec |-> "ok", batch |-> 0]

Post(h) == strand' = Append(strand, h)

Queued(op) == \E i \in 1..Len(strand) : strand[i].op = op

---------------------------------------------------------------------------
(* The steps the handlers are made of, each after a form of it that a slip  *)
(* in the code would give (used to see the properties fail).               *)

AlwaysOpen == TRUE
IsOpen     == status = "open"

KeepBuffer == UNCHANGED msg
NewBuffer  == msg' = msg + 1

ReadNoMore    == UNCHANGED reading
AsyncReadSome == reading' = TRUE

DecNothing == UNCHANGED pending
IncPending == pending' = pending + 1
DecPending == pending' = pending - 1

PostNothing == UNCHANGED posted
PostClose   == posted' = posted + 1

ReserveNothing == UNCHANGED armed
CloseReserve   == armed' = armed \union {"reserve"}

CancelKeepTimer == armed' = armed \ {"keep"}
CancelTimers    == armed' = {}

\* renewExpireTime: re-arming abandons the wait that was outstanding.
RenewExpireTime == armed' = IF KeepAlive THEN armed \union {"keep"} ELSE armed

KeepUser   == UNCHANGED tag
DeleteUser == tag' = FALSE

---------------------------------------------------------------------------
(* The kernel socket.  A connection that was reset, or on which both sides *)
(* have sent FIN, is down: shutdown() and getpeername() fail with ENOTCONN.*)

Established ==
  [up |-> TRUE, peerFin |-> FALSE, shutRecv |-> FALSE, finSent |-> FALSE]

ShutdownRecv == [tcp EXCEPT !.shutRecv = TRUE]
ShutdownSend == [tcp EXCEPT !.finSent = TRUE]
ShutdownBoth == [tcp EXCEPT !.shutRecv = TRUE, !.finSent = TRUE]

\* The peer closes its side.
PeerFin ==
  /\ acc # "listen" /\ tcp.up /\ ~tcp.peerFin
  /\ tcp' = [tcp EXCEPT !.peerFin = TRUE]
  /\ UNCHANGED <<acc, status, readVars, strand, posted, timerVars, sendVars,
                 countVars, userVars, parseVars, fault>>

\* The connection is reset or times out in the kernel, or the last FIN is
\* acknowledged.
GoDown ==
  /\ acc # "listen" /\ tcp.up
  /\ tcp' = [tcp EXCEPT !.up = FALSE]
  /\ UNCHANGED <<acc, status, readVars, strand, posted, timerVars, sendVars,
                 countVars, userVars, parseVars, fault>>

\* Connection objects are counted: the acceptor, the User, every operation and
\* every handler hold one, except the timers' handlers, bound to a raw this.
Referenced ==
  \/ acc # "done"
  \/ tag
  \/ reading
  \/ writes > 0
  \/ posted > 0
  \/ \E i \in 1..Len(strand) : strand[i].op \notin Timers

---------------------------------------------------------------------------
(* The acceptor thread.                                                    *)

\* async_accept completes: accept_handler is entered.
Accepted ==
  /\ acc = "listen"
  /\ acc' = "accepted"
  /\ UNCHANGED <<status, tcp, readVars, strand, posted, timerVars, sendVars,
                 countVars, userVars, parseVars, fault>>

\* LobbyAcceptorReceiver::onAccept: remote_endpoint() throws if the socket is
\* down already, otherwise addUser tags the connection and greets the peer.
OnAccept ==
  /\ acc = "accepted"
  /\ \/ /\ ~tcp.up
        /\ fault' = "threw"
        /\ UNCHANGED <<acc, sendVars, tag>>
     \/ /\ tcp.up
        /\ acc' = "added"
        /\ tag' = TRUE
        /\ writes' = writes + 1
        /\ nsent' = nsent + 1
        /\ UNCHANGED fault
  /\ UNCHANGED <<status, tcp, readVars, strand, posted, timerVars, countVars,
                 closes, parseVars>>

\* start_accept up to the first async_read_some ...
StartRead ==
  /\ acc = "added"
  /\ acc' = "reading"
  /\ NewBuffer
  /\ AsyncReadSome
  /\ UNCHANGED <<status, tcp, nread, strand, posted, timerVars, sendVars,
                 countVars, userVars, parseVars, fault>>

\* ... then _status = open: a read handler may have run in between ...
StartOpen ==
  /\ acc = "reading"
  /\ acc' = "opened"
  /\ status' = "open"
  /\ UNCHANGED <<tcp, readVars, strand, posted, timerVars, sendVars, countVars,
                 userVars, parseVars, fault>>

\* ... and the keep-alive timer last.
StartRenew ==
  /\ acc = "opened"
  /\ acc' = "done"
  /\ RenewExpireTime
  /\ UNCHANGED <<status, tcp, readVars, strand, posted, fired, sendVars,
                 countVars, userVars, parseVars, fault>>

---------------------------------------------------------------------------
(* Completions on their way into the strand.                               *)

\* The outstanding read completes: with data, with end of file once the peer
\* (or this side) has shut the direction down, or with an error.
ReadCompletes(ec) ==
  /\ reading
  /\ CASE ec = "ok"    -> tcp.up /\ ~tcp.shutRecv /\ nread < MaxBatches
       [] ec = "eof"   -> tcp.peerFin \/ tcp.shutRecv
       [] ec = "reset" -> ~tcp.up
  /\ reading' = FALSE
  /\ Post(Read(ec))
  /\ UNCHANGED <<acc, status, tcp, msg, nread, posted, timerVars, sendVars,
                 countVars, userVars, parseVars, fault>>

\* An outstanding write completes; it fails only on a socket that is down or
\* was shut down for sending.
WriteCompletes(ec) ==
  /\ writes > 0
  /\ ec = "err" => ~tcp.up \/ tcp.finSent
  /\ writes' = writes - 1
  /\ Post(Write(ec))
  /\ UNCHANGED <<acc, status, tcp, readVars, posted, timerVars, nsent,
                 countVars, userVars, parseVars, fault>>

\* A timer of a live connection expires: from here on cancel() does not reach
\* its handler.
TimerFires(t) ==
  /\ t \in armed /\ Referenced
  /\ armed' = armed \ {t}
  /\ fired' = [fired EXCEPT ![t] = @ + 1]
  /\ UNCHANGED <<acc, status, tcp, readVars, strand, posted, sendVars,
                 countVars, userVars, parseVars, fault>>

TimerQueues(t) ==
  /\ fired[t] > 0
  /\ fired' = [fired EXCEPT ![t] = @ - 1]
  /\ Post(Timer(t))
  /\ UNCHANGED <<acc, status, tcp, readVars, posted, armed, sendVars,
                 countVars, userVars, parseVars, fault>>

\* The close that closing() posted through the io_service.
CloseQueues ==
  /\ posted > 0
  /\ posted' = posted - 1
  /\ Post(CloseOp)
  /\ UNCHANGED <<acc, status, tcp, readVars, timerVars, sendVars, countVars,
                 userVars, parseVars, fault>>

\* Another thread sends to the user (sendPacket): broadcasts, broker replies.
Send ==
  /\ tag /\ nsent < MaxSends
  /\ writes' = writes + 1
  /\ nsent' = nsent + 1
  /\ UNCHANGED <<acc, status, tcp, readVars, strand, posted, timerVars,
                 countVars, userVars, parseVars, fault>>

---------------------------------------------------------------------------
(* The handlers.  The strand runs the oldest one; h is that handler.       *)

Running(op) == strand # <<>> /\ Head(strand).op = op

\* closing(what): effective only while open and while shutdown() succeeds.
Closing(shutdown) ==
  /\ tcp' = IF tcp.up THEN shutdown ELSE tcp
  /\ early' = (early \/ acc \notin {"opened", "done"})
  /\ \/ /\ tcp.up /\ IsOpen
        /\ status' = "closing"
        /\ CancelTimers
        /\ PostClose
     \/ /\ ~(tcp.up /\ IsOpen)
        /\ UNCHANGED <<status, armed, posted>>

\* read_handler without error: hand the buffer to the strand, read on.
ReadHandler ==
  /\ Running("read") /\ Head(strand).ec = "ok"
  /\ nread' = nread + 1
  /\ NewBuffer
  /\ IncPending
  /\ strand' = Append(Tail(strand), Dispatch(msg))
  /\ AsyncReadSome
  /\ RenewExpireTime
  /\ UNCHANGED <<acc, status, tcp, posted, fired, sendVars, retry, early,
                 userVars, parseVars, fault>>

\* read_handler with an error other than eof while dispatches are pending:
\* posts itself again, at most RetryLimit times.
RetriesForever == Head(strand).ec # "eof" /\ pending > 0
Retries == Head(strand).ec # "eof" /\ pending > 0 /\ retry < RetryLimit

ReadErrorRetry ==
  /\ Running("read") /\ Head(strand).ec # "ok" /\ Retries
  /\ retry' = retry + 1
  /\ strand' = Append(Tail(strand), Head(strand))
  /\ UNCHANGED <<acc, status, tcp, readVars, posted, timerVars, sendVars,
                 pending, early, userVars, parseVars, fault>>

ReadErrorClosing ==
  /\ Running("read") /\ Head(strand).ec # "ok" /\ ~Retries
  /\ retry' = IF Head(strand).ec # "eof" /\ pending > 0 THEN retry + 1 ELSE retry
  /\ strand' = Tail(strand)
  /\ Closing(ShutdownRecv)
  /\ UNCHANGED <<acc, readVars, fired, sendVars, pending, userVars, parseVars,
                 fault>>

\* write_handler.
WriteHandler ==
  /\ Running("write")
  /\ strand' = Tail(strand)
  /\ \/ /\ Head(strand).ec = "ok"
        /\ RenewExpireTime
        /\ UNCHANGED <<status, tcp, posted, early>>
     \/ /\ Head(strand).ec # "ok"
        /\ Closing(ShutdownSend)
  /\ UNCHANGED <<acc, readVars, fired, sendVars, pending, retry, userVars,
                 parseVars, fault>>

\* MessageProcedure::dispatch on a connection that is not open: the batch is
\* dropped and _readHandlerPending keeps counting it.
DispatchDrop ==
  /\ Running("dispatch") /\ ~IsOpen
  /\ strand' = Tail(strand)
  /\ run' = run + 1
  /\ UNCHANGED <<acc, status, tcp, readVars, posted, timerVars, sendVars,
                 countVars, userVars, last, parsed, fault>>

\* dispatch otherwise: the parser runs the lobby's handlers, which may reserve
\* a close (reserve), and may answer the peer (sends packets).
DispatchParse(reserve, sends) ==
  /\ Running("dispatch") /\ IsOpen
  /\ nsent + sends <= MaxSends
  /\ strand' = Tail(strand)
  /\ run' = run + 1
  /\ last' = Head(strand).batch
  /\ parsed' = parsed + 1
  /\ IF reserve THEN CloseReserve ELSE UNCHANGED armed
  /\ writes' = writes + sends
  /\ nsent' = nsent + sends
  /\ DecPending
  /\ UNCHANGED <<acc, status, tcp, readVars, posted, fired, retry, early,
                 userVars, fault>>

\* The parser may throw on a batch that starts in the middle of a packet
\* (PacketParser.tla); nothing between it and io_service::run catches that.
DispatchThrows ==
  /\ Running("dispatch") /\ IsOpen
  /\ fault' = "threw"
  /\ UNCHANGED <<acc, status, tcp, readVars, strand, posted, timerVars,
                 sendVars, countVars, userVars, parseVars>>

\* A timer's handler that runs on a destroyed connection reads freed memory.
TimerOnFreed ==
  /\ strand # <<>> /\ Head(strand).op \in Timers /\ ~Referenced
  /\ fault' = "freed"
  /\ UNCHANGED <<acc, status, tcp, readVars, strand, posted, timerVars,
                 sendVars, countVars, userVars, parseVars>>

\* onExpireTime: onExpiredSession asks for remote_endpoint(), which throws on a
\* socket that is down, then reserves a close.
OnExpireTime ==
  /\ Running("keep") /\ Referenced
  /\ strand' = Tail(strand)
  /\ \/ /\ ~IsOpen
        /\ UNCHANGED <<armed, fault>>
     \/ /\ IsOpen /\ tcp.up
        /\ CloseReserve
        /\ UNCHANGED fault
     \/ /\ IsOpen /\ ~tcp.up
        /\ fault' = "threw"
        /\ UNCHANGED armed
  /\ UNCHANGED <<acc, status, tcp, readVars, posted, fired, sendVars, countVars,
                 userVars, parseVars>>

\* close(): only a shutdown that succeeds ends the session.  onClose asks for
\* remote_endpoint() before deleteUser; the peer's FIN, sent before the shutdown,
\* or a reset can have taken the socket down by then, and the call throws.
CloseSession ==
  \/ /\ ~tcp.up
     /\ UNCHANGED <<status, armed, tcp, closes, tag, fault>>
  \/ /\ tcp.up
     /\ status' = "close"
     /\ CancelTimers
     /\ closes' = closes + 1
     /\ \/ /\ tcp' = ShutdownBoth
           /\ DeleteUser
           /\ UNCHANGED fault
        \/ /\ tcp' = [ShutdownBoth EXCEPT !.up = FALSE]
           /\ fault' = "threw"
           /\ UNCHANGED tag

OnCloseReserveTime ==
  /\ Running("reserve") /\ Referenced
  /\ strand' = Tail(strand)
  /\ \/ IsOpen /\ CloseSession
     \/ ~IsOpen /\ UNCHANGED <<status, armed, tcp, closes, tag, fault>>
  /\ UNCHANGED <<acc, readVars, posted, fired, sendVars, countVars, parseVars>>

RunClose ==
  /\ Running("close")
  /\ strand' = Tail(strand)
  /\ CloseSession
  /\ UNCHANGED <<acc, readVars, posted, fired, sendVars, countVars, parseVars>>

---------------------------------------------------------------------------
Init ==
  /\ acc = "listen"
  /\ status = "close"
  /\ tcp = Established
  /\ msg = 0 /\ reading = FALSE /\ nread = 0
  /\ strand = <<>>
  /\ posted = 0
  /\ armed = IF KeepAlive THEN {"keep"} ELSE {}
  /\ fired = [t \in Timers |-> 0]
  /\ writes = 0 /\ nsent = 0
  /\ pending = 0 /\ retry = 0 /\ early = FALSE
  /\ tag = FALSE
  /\ run = 0 /\ last = 0 /\ parsed = 0
  /\ closes = 0
  /\ fault = "none"

Acceptor == Accepted \/ OnAccept \/ StartRead \/ StartOpen \/ StartRenew

Handler ==
  \/ ReadHandler
  \/ ReadErrorRetry
  \/ ReadErrorClosing
  \/ WriteHandler
  \/ DispatchDrop
  \/ \E reserve \in BOOLEAN, sends \in 0..1 : DispatchParse(reserve, sends)
  \/ DispatchThrows
  \/ TimerOnFreed
  \/ OnExpireTime
  \/ OnCloseReserveTime
  \/ RunClose

Network == PeerFin \/ GoDown

Completion ==
  \/ \E ec \in {"ok", "eof", "reset"} : ReadCompletes(ec)
  \/ \E ec \in {"ok", "err"} : WriteCompletes(ec)
  \/ \E t \in Timers : TimerFires(t) \/ TimerQueues(t)
  \/ CloseQueues

Next ==
  /\ fault = "none"
  /\ Acceptor \/ Handler \/ Network \/ Completion \/ Send

Spec == Init /\ [][Next]_vars

\* The io_service's threads run every handler that is ready, the acceptor's
\* included; the kernel reports failures and expired timers.  Nothing obliges
\* the peer to send, to hang up or to fail.
Alive(A) == fault = "none" /\ A

Fairness ==
  /\ WF_vars(Alive(Acceptor))
  /\ WF_vars(Alive(Handler))
  /\ WF_vars(Alive(ReadCompletes("eof")))
  /\ WF_vars(Alive(ReadCompletes("reset")))
  /\ WF_vars(Alive(\E ec \in {"ok", "err"} : WriteCompletes(ec)))
  /\ \A t \in Timers : /\ WF_vars(Alive(TimerFires(t)))
                       /\ WF_vars(Alive(TimerQueues(t)))
  /\ WF_vars(Alive(CloseQueues))

FairSpec == Spec /\ Fairness

---------------------------------------------------------------------------
Handlers ==
  [op : {"read", "dispatch", "write", "close"} \union Timers,
   ec : {"ok", "eof", "reset", "err"},
   batch : 0..MaxBatches]

\* Every variable has its type; the unsigned counters stay within their bounds.
TypeOK ==
  /\ acc \in {"listen", "accepted", "added", "reading", "opened", "done"}
  /\ status \in {"open", "closing", "close"}
  /\ tcp \in [up : BOOLEAN, peerFin : BOOLEAN, shutRecv : BOOLEAN,
              finSent : BOOLEAN]
  /\ msg \in 0..(MaxBatches + 1) /\ reading \in BOOLEAN /\ nread \in 0..MaxBatches
  /\ strand \in Seq(Handlers)
  /\ posted \in Nat
  /\ armed \in SUBSET Timers
  /\ fired \in [Timers -> Nat]
  /\ writes \in Nat /\ nsent \in 0..MaxSends
  /\ pending \in 0..MaxBatches
  /\ retry \in 0..(RetryLimit + 1)
  /\ early \in BOOLEAN /\ tag \in BOOLEAN
  /\ run \in 0..MaxBatches /\ last \in 0..MaxBatches /\ parsed \in 0..MaxBatches
  /\ closes \in Nat
  /\ fault \in {"none", "threw", "freed"}

\* The lobby hears of the end of a session at most once, although the close
\* posted by closing() and the reserved close race each other.
CloseOnce == closes <= 1

\* The User exists exactly from onAccept to onClose: no batch is ever parsed,
\* and no timer ever acts, on an open connection without its User, and the
\* session that was closed has none.  (A process that died is excepted.)
UserLifetime ==
  fault = "none" =>
    tag <=> acc \notin {"listen", "accepted"} /\ closes = 0

\* _readHandlerPending means what its users read from it: batches read and not
\* parsed.  A retry of a failed read therefore only ever happens after a batch
\* was dropped, and never has a queued dispatch to wait for.
RetryOnlyAfterDrop ==
  /\ retry > 0 => parsed < run
  /\ Running("read") /\ Head(strand).ec # "ok" => ~Queued("dispatch")

\* The kernel never writes into a buffer that waits to be parsed, and there is
\* one reader: an outstanding read excludes a queued read handler.
BufferExclusive ==
  /\ \A i \in 1..Len(strand) : strand[i].op = "dispatch" => strand[i].batch < msg
  /\ reading => ~Queued("read")

\* An open connection loses its reader only when the socket is down, or when
\* the read handler called closing() in start_accept's window, before
\* _status = open (closing() then shut the socket and changed nothing else).
DeafOnlyByRace ==
  status = "open" => reading \/ Queued("read") \/ ~tcp.up \/ early

\* A reserved close runs down only on an open connection: whatever ends the
\* session first (closing(), close()) also cancels it, and nothing reserves a
\* close afterwards.  A handler of that timer which runs on a freed connection
\* had therefore expired before the session ended.
ReservedOnlyWhileOpen == "reserve" \in armed => status = "open"

S == INSTANCE Session WITH
       phase <- IF acc \notin {"opened", "done"} THEN "idle"
                ELSE IF status = "close" THEN "closed" ELSE status,
       last <- last

\* The connection implements the session the lobby relies on: it opens once,
\* closes once, and hands batches over in order without a hole.
ImplementsSession == S!SessionSpec

\* A connection that began closing tells the lobby, unless the socket goes
\* down first: close() then fails and the User stays.
ClosingCompletes ==
  status = "closing" ~> closes = 1 \/ ~tcp.up \/ fault # "none"

\* The peer's hang-up ends the open session, unless the socket goes down or the
\* hang-up was handled in start_accept's window.
HangupNoticed ==
  tcp.peerFin /\ status = "open"
    ~> status # "open" \/ ~tcp.up \/ early \/ fault # "none"

\* With a keep-alive time a session that falls silent ends, even one that has
\* lost its reader.
SilenceExpires ==
  KeepAlive /\ status = "open" ~> status # "open" \/ ~tcp.up \/ fault # "none"
===========================================================================
