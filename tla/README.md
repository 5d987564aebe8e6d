# A TLA+ model of the lobby server

The server under `lobbysvr/` is a game lobby on top of a small asynchronous network
library, `net/`, written with boost::asio. This directory models the parts of it that
are hard to test: the life of a connection under several io threads, the registry of
users under a reader/writer lock, the link to the broker, the requests that go through
it, the message buffer, the packet parsers, the start and end of the process, the
watchdog console, and the two database clients. TLC checks the models on small
instances; TLAPS proves every safety property the passing runs check, for every value of
the constants; liveness is model-checked only.

## 1. The system

| Part | Source | State | Operations | Hard because |
|---|---|---|---|---|
| Connection | `net/connectionImpl.cpp`, `messageProcedure.cpp` | `_status`, `_msg`, `_strand`, two timers, `_readHandlerPending`, `_postRetryCount`, `_tag` | `start_accept`, `read_handler`, `write_handler`, `dispatch`, `closing`, `close`, `closeReserve`, timer handlers, `send*` | callbacks on any io thread, two independent ways to close, sockets that fail at any moment |
| Registry | `lobbysvr/lobbyUserManager.cpp` | `m_users`, `m_nodeToUserMap`, `m_mtx_users`, each connection's tag and `User` | `addUser`, `deleteUser`, `userLogined`, `userLogout`, `processUser(2)`, `sendPacketFromBroker*` | `User` objects are deleted while other threads look for them |
| Message buffer | `net/messageBuffer.cpp` | flat array, read and write position | `write`, `read`, `readAll`, `arrange`, copy | positions and bytes move under the caller |
| Packet parsers | `lobbysvr/packetParserJson.cpp`, `net/packetParserSimple.cpp` | the loop's `readStartFromMainKey`, `total_size`, the cipher's state | one loop over a batch | TCP cuts the stream anywhere; unsigned countdown; `do ... while(true)` |
| Acceptor | `net/netServiceAcceptor.cpp` | the connection being accepted | `acceptWait`, `accept_handler` | announces and starts a connection outside its strand |
| Lobby callbacks | `lobbysvr/lobbyAcceptorReceiver.cpp` | none of its own | `onAccept`, `onClose`, `onExpiredSession`, `readJsonPacket`, `recvHeartBeat`, `dispatch` | `remote_endpoint()` throws on a dead socket |
| Connector to the broker | `net/netServiceConnector.cpp`, `lobbysvr/brokerConnector.cpp` | `m_user`, the update timer | connect, reconnect, `onConnect`, `onClose` | a raw user pointer shared with other threads |
| Service life cycle | `net/netService.cpp`, `netServiceImpl.cpp`, `eventReceiver.h`, `lobbysvr/main.cpp` | io_service, its work object and threads, the callbacks, the update timer | registration, `acceptWait`, `addWorkerThreads`, `runService`, `run` | threads run before the service is complete; a failed accept is not repeated |
| Lobby requests | `lobbysvr/nh_lobby.cpp`, `nh_chat.cpp`, `lobbyUser.cpp`, `connectorHandler.cpp`, `connectorUser.cpp` | `g_idx4Broker`, packets under way | login, chat, the broker's answers | answers come back by a number, after the asker or the link may be gone |
| Console and watchdog | `net/test_interface.cpp`, `.h`, `lobbysvr/watchDogHandler.cpp`, `keyEventHandler.cpp` | function flags, one `recv_cmd` per session | `start`, `watchDogSession`, `processKey` | lines cut from a stream |
| MySQL client | `lobbysvr/mysql+++/mysql+++.h` | `my_conn`, its mutex; a result's rows and cursor; bound variables | `open`, `close`, `query`, `mquery`, `exec`, `result::*`, iterators, `prepared_stmt::*` | results are read lazily and without the mutex, as are some calls of the connection; one cursor for everybody; two-pass fetch |
| ODBC client | `net/mssqlConsumer.cpp`, `.h` | environment, connection, statement, bindings, indicators | `Open`, `Close`, `Execute*`, `Bind`, `Fetch`, `MoreResults`, ... | bindings that outlive their variables, losses seen only by a return code |
| Singletons, flags, memory pool, logging, crash dumps, utilities | `singleton.h`, `flagChecker.h`, `logger*.cpp`, ... | their own | their own | little; not modelled (section 5) |

How they meet: the acceptor makes a connection, the io thread that accepts calls
`onAccept` (which adds the `User` to the registry) and then `start_accept`. From there
on the connection's handlers run in its strand. A read hands its buffer to the strand as
a *dispatch*, which runs the message procedure, which runs the parser, which calls the
lobby's handlers; those answer, reserve a close, or go through the registry to other
connections. `close()` calls `onClose`, which deletes the `User`. The broker's
connection has a strand of its own, from which it sends to users it finds in the
registry. A chat goes to the broker with the number the broker gave this server and the
identity of the connection; the acknowledgement comes back with that identity. All of
this runs on the worker threads and the main thread inside one `io_service`, from
`runService` until something stops it; the watchdog has threads of its own. The database
clients are used by nothing in the lobby itself: `mysql+++` by the example
`_test_mysqlcpp.cpp`, `mssqlConsumer` by programs on Windows.

What makes each part correct: a session opens once and closes once, with the `User`
alive exactly in between; batches are parsed in order; a hang-up is noticed; an entry of
the registry always leads to a live `User` for whoever holds the lock; the buffer is a
queue of bytes that stays in its array; the parsers hand over exactly the packets that
were sent, and end; a chat carries the number of the link it goes over, and an answer
fits its packet; the server updates until it is told to stop, and then ends; a command
typed is handled, once; a row read is a row of one's own query, at its place, with its
values; a statement's outcome is reported.

`PROJECT.json` lists, under "hazards", the places where each of these could go wrong, by
line.

## 2. The modules

| Module | What it is |
|---|---|
| `Session` | abstract: what the transport promises the lobby about one connection |
| `Connection` | one accepted connection with its strand, timers, socket and callbacks; implements `Session` |
| `ConnectionProofs` | lemmas on queues of handlers, inductive invariant, safety theorems, refinement |
| `LobbyUserManager`, `MCLobbyUserManager` | the registry under its threads |
| `LobbyUserManagerProofs` | inductive invariant, safety theorems |
| `BrokerConnector`, `MCBrokerConnector` | connecting to the broker, connecting again, `m_user`, the update timer |
| `BrokerConnectorProofs` | inductive invariant, safety theorems |
| `MessageBuffer` | the byte queue |
| `PacketParser` | the eight parser loops, as one loop with a record of their differences |
| `MCPacketParser` | the program's parsers, and `MessageBuffer` beside them, for TLC |
| `PacketParserProofs` | lemmas on flattened sequences; inductive invariants and safety theorems of the parsers and of the message buffer |
| `ChatRelay`, `MCChatRelay` | the requests of clients, their way to the broker and back |
| `ChatRelayProofs` | inductive invariant, safety theorems |
| `ServerLife` | start-up, threads, accepting, updates and end of the process |
| `ServerLifeProofs` | inductive invariant, safety theorems |
| `Watchdog` | the functions of the test interface and one console session |
| `MySqlClient` | `connection`, `result` and `prepared_stmt` under several threads |
| `MySqlClientProofs` | inductive invariant, safety theorems |
| `MySqlRows` | a result that has been read: cursor, conversions, `each()`, iterators |
| `MySqlBind` | the variables bound to a prepared statement |
| `MySqlFormat` | the text of a query, formatted in rounds |
| `SqlConsumer` | the ODBC environment and one consumer |
| `MCSequential` | `SqlConsumer`, `MySqlRows`, `MySqlBind`, `MySqlFormat` and `Watchdog` side by side, for TLC |
| `SequentialProofs` | invariants and theorems of those, each by itself and side by side |

Every definition that models code has its lines in `PROJECT.json`, "map". Some short
operators come twice, the first time in a form that a slip of the code would give
(`KeepBuffer` before `NewBuffer`): the mutated form replaces the other to see that a
property notices.

### Connection

*State.* `status`, `pending`, `retry`, `tag` are the members of that name (`_status`,
`_readHandlerPending`, `_postRetryCount`, `_tag`). `msg` is the number of the batch that
`_msg` is to receive: a batch is what one `async_read_some` delivers, numbered in order,
so that a lost, repeated or overtaken one shows. `strand` is the queue of handlers in
`_strand`. `reading`, `writes`, `armed`, `fired` and `posted` are operations and
handlers on their way: outstanding in the kernel or the timer queue, or posted to the
`io_service` and not yet in the strand. `acc` is the position of the accepting thread in
`accept_handler`, which is not in the strand. `tcp` is the kernel's side of the socket.

*Actions.* One per handler (`ReadHandler`, `ReadErrorRetry`, `ReadErrorClosing`,
`WriteHandler`, `DispatchDrop`, `DispatchParse`, `OnExpireTime`, `OnCloseReserveTime`,
`RunClose`), each with everything the handler does; `accept_handler` in the steps other
threads can see between (`OnAccept`, `StartRead`, `StartOpen`, `StartRenew`);
completions (`ReadCompletes`, `WriteCompletes`, `TimerFires`, `TimerQueues`,
`CloseQueues`) and the network (`PeerFin`, `GoDown`).

*Atomicity.* Handlers of one strand never overlap, and what they touch is touched
elsewhere only by the accepting thread, which writes `_status` once (140), arms the
timer once (142) and is modelled step by step. A handler reads `_status` once before it
acts on it (`closing` tests and sets it next to each other, `close` sets it); the
accepting thread's write of `open` in the middle of a handler has the effect of the same
write just before or just after that handler: before its test, or after its last access.
`shutdown()` in `closing` precedes the test and neither affects the other.

*External: asio and the kernel.* A strand runs its handlers one at a time, in the order
they came. A completion, an expired timer or a posted handler enters the strand some
time later, in any order with the others. `cancel()` and re-arming abandon a wait, but
do not reach a timer that has expired: `fired` counts handlers of that kind.
`shutdown()` and `getpeername()` (behind `remote_endpoint()`) fail exactly when the TCP
connection is down. A read completes with data while the connection is up and not shut
down for receiving; with "eof", which stands for every code that `read_handler` treats
as the end of the stream, once either side has shut that direction; with "reset", for
every other error, when the connection is down. A write may succeed in any state, as the
kernel buffers; it fails only on a socket that is down or was shut down for sending.
Setting the options of a socket (`start_accept`, 130-131) does not fail, as on Linux,
for which the server is built. A connection object lives while something refers to it;
the timers' handlers hold a raw `this` and do not count.

*Faults.* An exception out of a handler leaves `io_service::run` and nothing catches it;
a timer handler on a destroyed connection reads freed memory. The model stops there:
`fault` is "threw" or "freed". Both are what the code does (`OnAccept`, `OnExpireTime`,
`CloseSession` where `remote_endpoint()` throws; `DispatchThrows` where the parser does;
`TimerOnFreed`), so that no property excludes them; every property says what holds up to
that moment.

### LobbyUserManager

Threads are the acceptor's strand, one strand per connection and the broker's; `pc` and
`target` say where each is and with which connection. The lock is boost's
`shared_mutex`: one writer or many readers, and a writer that waits (`waiting`) keeps
new readers out. `deleteUser` is split where another thread that does not hold the lock
can look: before the lock, at the erase and `delete`, and at `setTag(nullptr)`.
`sendPacketFromBroker` and `..._byUserIDX` look up under the lock, give it back, test
the tag, read it again and use it: three separate steps. `heap` tells a `User` that is
alive from one that was deleted. `ZeroIdx` is `User::m_userIDX`, 0 throughout: nothing
in the program sets it, so `deleteUser` always erases account 0, whoever leaves. `users`
is a set, as an identity leads to one connection and is never given twice (an atomic
counter).

What is assumed of a connection (added once, then deleted at most once, in its own
strand, after `onAccept` returned) is `Connection`'s `UserLifetime` and `CloseOnce`.

### BrokerConnector

The connector's handlers run in the service's strand (`Svc`), `onClose` in the strand of
the connection that ended, `sendJsonPacket` on the threads of lobby users that leave
(`Senders`), the first `tryConnect` in the main thread; `pc` says where each is.
`tryConnect` is the same four steps in whichever thread calls it: `SetEndPoint`,
`Create` (or `CreateThrows`), `Expire`, `Wait`. `onConnect` and `onClose` are split
where the other strand can come between: `m_user` is written, the tag set, `m_user`
used; `m_user` deleted, the tag cleared, `tryConnect`. What a connection does between is
left to `Connection`: here it is open, is closed with `onClose`, or is lost, its socket
being down, without. Waits on `_updater` are counted, as two threads can each add one
after both have abandoned what was there; an expired wait (`fired`) is out of reach of a
cancel. `MaxFired` bounds those that wait for the strand. Every caller asks for one
session, so that `connect_handler`'s branch for more is not taken;
`m_receiverEventClosed` is never set; nothing closes a socket that is connecting, so
that `connect_handler` does not meet one that is not open. A connection object is used
again once nothing refers to it, which keeps the state space finite without a bound on
attempts. The connector is compiled in with `USE_CONNECTOR_FOR_BROKER`
(`lobbysvr/main.cpp:141`); without it `m_user` stays null.

### MessageBuffer

Bytes are numbered as they are written; `unread` is the queue a reader should see. `mem`
is longer than the array, so that a write past the end is a state and not an error of
the model. With `AnyOrder = FALSE` writes happen only while nothing was read, which is
how the program uses every buffer: `read_handler` and the parsers fill a fresh one,
`sendPacket` writes header and body, and only then is it read. The copy constructor
(`Copy`) takes as many bytes as are unread, but from the start of the array; no caller
copies a buffer, and only one that has not been read from is copied right.

### PacketParser

A packet is a main key, then parts, each a part key and a body. A key is a cell; of a
body the first cell is the byte of the packet code, the second the three bytes behind
it, each further one four bytes. A part that a peer sends is its code byte, the number
in the three bytes behind it and its size. `lead` and `fragment` are the ends of a
stream cut elsewhere. `_parser`'s eight versions share the loop and differ in whether
marks are checked, in the width of the code, in whether a cipher is used and in which
codes are known. The code is a `uint8_t` in `packetParser_notUseEncTest` alone and an
`int32_t` in the others (`PacketCode`). Each action is one way through one turn of the
loop. `Word` is 2^32 scaled down, for `total_size`.

Left out: cuts inside a key or a body cell; bodies that look like a key; lengths that do
not belong to what follows them, with which `total_size` can pass below zero and wrap;
what ciphers compute. No component of the lobby registers a cipher, and the call that
marks a connection as synchronised is commented out (`userManagerBasis.cpp:35`), so that
`synced` after a key exchange is left open.

### ChatRelay

What `Connection`, `LobbyUserManager` and `BrokerConnector` show of the parts is taken
for granted here: a request is handled in its connection's strand, looking up a user is
one step, so is losing the link. What is left open is what lies between: `sendMsg` reads
`g_idx4Broker` (`ChatStamp`) and writes to the link (`ChatSend`) in two steps, with the
link lost and made again in between; packets queue in both directions; clients leave
while an answer is under way. `link` distinguishes no `m_user` at all (nothing is sent)
from one that was deleted ("gone", which `sendJsonPacket` then uses: fault "freed"). A
JSON text is its length: read and written again it may grow (`Serialized`, a factor
`Growth`), and `SendJsonPacket` copies it into a packet of `LobbyMax` or `BrokerMax`
bytes; `Added` and `Members` are the bytes of the members that are put in on the way to
the broker and to a client. The broker is external, and does what the lobby's handlers
expect of it: it answers `/auth` with a number, acknowledges chats with the identity
they came with, and passes on what others say. `login` beyond the test of the version is
commented out in the code, and `userLogined` has no caller, so that a private message
never finds its account. `traffic` is chosen at the start: which requests there are and
how long their texts.

### ServerLife

`main` is where the main thread is, from `registAcceptorReceiver` (`Regist`,
`CreateAcceptor`, which clones the callbacks one by one) through `acceptWait`
(`OpenSocket`, with each way it can fail), the worker threads, each of which runs at
once, and the timer, to `runService` and `run`. `accept` and `timer` are the two
operations a service keeps outstanding; `work` is the work object and the timer of one
hour that `setWork` arms. The `io_service` (external) stops by `stop()` or when a
handler leaves nothing outstanding; it is never reset. A socket whose `bind` failed,
which is only logged, listens "elsewhere". `session` says that a client that was
accepted is still there, whose reads keep the `io_service` busy. `onAccept` throws when
the client is gone again (`AcceptThrows`), and so may `onClose` (`SessionEnds`): nothing
catches it and the process ends (fault "threw"), without another accept. `setting` is
what the configuration leaves open: the workers, the update timer, whether there is an
acceptor at all. ESC comes from the keyboard function, which is compiled on Windows and
commented out in `main.cpp:49`; it is kept as the only caller of a stop.

### Watchdog

`start` adds up `FuncValue` of the functions asked for. One session is modelled, as
sessions share nothing. What is typed is a sequence of letters, line ends and Ctrl + C,
chosen at the start; `Read(n)` is one turn of the loop with a piece of any size, and
everything the loop does with it. `Rest` and `Commands` are what remains in `recv_cmd`
and what is handled: one command per turn, two characters erased for any line end,
everything dropped when the text begins with one.

### MySqlClient, MySqlRows, MySqlBind, MySqlFormat

`MySqlClient` has the steps of two threads on one `connection`. `lib` is the client
library's state of a handle (external): ready, a result set waiting, a result set being
read by a thread, a prepared statement's rows waiting, lost, freed. `open` is split as
it is in the code: the test of `my_conn`, the ping, the close, the connect. `query`
sends under the mutex and gives an unread result; `fetch` (of a first call that needs
rows) and `free` touch the handle without it. So do `set_server_option`,
`last_insert_id`, `affected_rows`, `error_code` and `error_message` (`RawBegin`,
`RawEnd`). Two threads that are inside the library on one handle are a fault ("race"),
and so is a `fetch` whose `mysql_store_result` gives nothing, because nothing waits or
the transfer fails. `of` numbers queries, so that rows of another query show. The move
constructor and assignment are actions, as `mquery` fills a vector.

`MySqlRows` has the cursor `current_row_itr` that `seek`, `next`, `each()` and every
iterator move. A field is empty, a word, or a number and what follows it: nothing, a
fraction ("62.5") or other text ("1981-07-18"). `Readable` and `ValueOf` are the
conversions, which read the number a text starts with and drop the rest, with `int` and
`long` of `IntW` and `LongW` bits and a float of `RealW` bits of precision. `MySqlBind`
has one parameter and one column of each of the four wrapper classes, and follows
`pre_execute`, `pre_fetch`, `post_fetch` and the second fetch of strings. A column may
hold a number that its variable has no room for: the library stores what is left of it
and answers MYSQL_DATA_TRUNCATED, which `fetch` takes for success (line 1312).
`MySqlFormat` is the loop of `format_string_vargs`; a `va_list` that was used up gives a
text of any length.

### SqlConsumer

`env` and what `Open` and `Close` do with the statics, then one consumer made and
destroyed again and again: `con` is its `DBConnection`, `cursor` the result set the
driver holds open, `bound` and `nBind` the columns bound and `m_nBind`, `ind` which
column each indicator of the class tells of. `last` is the last call with what it
returned and what the driver had answered. `Execute`, `ExecuteInsertUnique` and
`ExecuteNoData` differ in what they do with a result set and with an error; lines
164-208 of `Execute` are behind a return on every path and are not modelled. The driver
is external; a lost connection is named by 08S01 or by another state, which the code
does not take for a loss.

## 3. The runs

| Run | Instance | Checks |
|---|---|---|
| `connection` | 3 batches, 2 packets sent, no keep-alive, fair | `TypeOK`, `CloseOnce`, `UserLifetime`, `RetryOnlyAfterDrop`, `BufferExclusive`, `DeafOnlyByRace`, `ImplementsSession`, `ClosingCompletes`, `HangupNoticed` |
| `connection_keepalive` | 1 batch, 1 packet, keep-alive, fair | `ReservedOnlyWhileOpen`, `SilenceExpires` |
| `registry` | 2 connections, 1 account, fair | `LockedUseIsLive`, `RegistryComplete`, `StaleOnlyWhileClosing`, `WritersFinish` |
| `link_safety` | 3 connection objects (symmetric), 1 sender, 2 expired waits | `OneLink`, `LinkHasUser`, `DoubleDeleteOnlyInWindow`, `EndpointsLeft`, `UpdateNotLost` |
| `link_live` | 3 connection objects, 1 expired wait, fair | `UpdatesGoOn`, `KeepsTrying` |
| `buffer_any` | 7 bytes of room, 11 written, calls in any order | `NoOverrun` (violated) |
| `format_any` | a buffer of 8, texts to 20, all arguments | `SubstitutedWhole` (violated) |
| `parser` | parsers and buffer side by side, below | |
| - parsers | all eight, 2 packets of 2 parts out of 5 (PT_JSON without and with a sequence number, PT_HEARTBEAT of one byte and of four, another code), fair | `ParsesWholePackets`, `NeverThrows`, `ParserEnds` |
| - buffer | 7 bytes of room, 11 written, the program's calls | `FirstInFirstOut` |
| `relay` | two kinds of traffic: chats over 2 links with identities to 6 of which 4 fit; every request and packet with texts of 640, 4000 and 30000 bytes; 2 clients at a time | `IndexOfThisLink`, `ClientPacketFits` |
| `server_run` | 0 to 2 workers, sessions that end or throw, fair | `OnlyEscapeStops`, `RunsAndEnds` (`TicksGoOn`, `EscapeEnds`) |
| `mysql` | 2 threads, 2 results, 2 handles, 3 statements with and without a result set | `ResultsKeepApart` (`RowsAreOwn`, `RaceOnlyUnlocked`), `ConnectionUsable` (`HandleNotClosed`, `NothingLeftWaiting`) |
| `sequential` | five components side by side, below | |
| - consumer | 2 columns of 2 kinds, 2 connections, 2 result sets | `ConsumerKeepsUp` (`BindingsCounted`, `IndicatorOfLastColumn`, `ColumnsKnown`, `LossIsTold`) |
| - rows | up to 2 rows read as `int`, one row read as every type with numbers around the limits of both widths and of a float's precision; numbers followed by a fraction or text read as `int`, float and string | `TextAndRowsWhole`: `ReadersKeepApart` (`IteratorShowsItsRow`, `EachInOrder`, `OptionalOfThisRow`) |
| - bindings | variables of 2 values, columns of numbers of 3, 1 row per execution | `VariablesFollow` (`ParamsAsHeld`, `RowIntoVariables`, `EndDamagesOnlyStrings`) |
| - text | a buffer of 8, texts to 20 | `TextAndRowsWhole`: `WholeText` |
| - console | 4 tokens typed, telnet and raw line ends, a buffer of 7 | `ConsoleServes` (`AskedAreStarted`, `NothingLost`, `NoLagWithoutBurst`, `ClosedToldUnlessError`) |

`sequential` (module `MCSequential`) puts the components that one thread uses at a time
into one run. They share no state and each behaviour is one of a single component
(`part`), so that its states are the sum of theirs, not the product. Properties in
parentheses are the parts of the one before them.

*What they show.* A connection closes once although the posted close and the reserved
one race; its `User` lives exactly from `onAccept` to `onClose`; batches reach the
parser in order, and a hole is possible only in front of the first one (batches
dispatched before `_status` became open are dropped). An open connection whose socket is
up keeps its reader with one exception: a hang-up handled between the first
`async_read_some` and `_status = open` finds the status not open, and `closing()` then
has no effect. Such a connection stays open until a keep-alive timer ends it, and
`chase_lobby.xml` sets none (`keep_alive_ms = 0`); `SilenceExpires` shows that with one
it does end. `_readHandlerPending` is not decremented for a dropped batch, so that the
retry of a failed read happens only when it has nothing to wait for. In the registry, no
use under the lock meets a deleted `User`; use without the lock can, and only in a
connection that is in or past the end of `deleteUser`. There is always exactly one
attempt or link to the broker, although two strands start attempts. It is given up in
two cases: an attempt that could not be started (`dead`) is not repeated, and a link
whose socket is reset keeps its place without `onClose` ("lost"). From the end of
`onConnect` to `onClose`, `m_user` is the user of that link; outside, a sender can meet
a deleted one. A connection that ends between `start_connect` and `onConnect` makes
`onClose` delete the user of the link before a second time, and this is the only way.
While attempts fail one after the other, each puts the next update off. Of whole packets
every part is handled, up to the first that its parser does not understand. What it
understands depends on the width of the code: where that is an `int32_t`, a heartbeat of
one byte (`lobby_protocol.h`) is no known code, and neither is PT_JSON with a sequence
number. No cut makes a parser with marks throw; those without cannot tell where they
are, so that for them the properties speak of batches that start with a packet.

A timer's handler holds a raw `this`, and one that had expired can run on a freed
connection (`TimerOnFreed`). `ReservedOnlyWhileOpen` narrows this down for the reserved
close: it never runs down on a connection whose session has ended. The keep-alive timer
has no such property: a write that completes after the close arms it again.

`sendMsg` keeps 32 bits of the asker's identity, so that above them an acknowledgement
may reach another (a hazard without a property: below them the identity is simply copied
there and back). A chat that was stamped after `/auth` was answered carries the number
of its link, and one stamped earlier may carry the old one. No packet of the broker
overruns the array of a client's packet, although `SendJsonPacket` tests the size after
the copy: the broker's limit times the growth is below the lobby's. The other direction
has no such margin: a client's text of more than the broker's 4000 bytes runs over the
broker packet on the stack (fault "broker", at which the model stops). A client told
that its version is refused is closed; one whose `packetSequenceNum` cannot be read is
neither told nor closed.

An accept that fails is the last one, while updates go on for ever, unless `onAccept` or
`onClose` throws, which ends the process. Once `runService` has set the work only ESC
stops the `io_service`, and then every thread is joined; before, an accept that fails
lets the workers run out of operations once no session is left, and the `io_service`
stays stopped. On the console, what is typed with CR LF is handled completely and in
order unless a piece of the stream ends between CR and LF; a command waits for the next
bytes only when several came together.

Rows that are read belong to the query of their result, unless a statement without a
result set gave one: its unread `result`, read or freed later, takes or drops what waits
on the connection by then; of two threads that meet on the handle one is in a call that
takes no mutex, a lazy call of `result` or one of the five of `connection`; no result
set is left waiting on a connection. An iterator shows its own row however the shared
cursor was moved; `each()` gives every row once if its callback leaves the cursor alone.
A field read as an integer gives the number its text starts with, exactly or not at all,
but unsigned types wrap; that the text goes on behind it (62.54, a date) is not told. A
float is the nearest the type has. An empty optional number is sent as 0 or as an
earlier value, never as NULL; a number too wide for its bound variable is there without
its high bits although `fetch` returned true; a fetch that finds the end damages the
bound strings. The ODBC consumer writes through no forgotten binding, and reports a lost
connection unless a cursor is open or the driver names the loss by another state than
08S01. (A consumer that is destroyed leaves its connection behind; this is listed as a
hazard and has no property.)

*Bounds.* Three batches allow one to be in the parser, one in the strand and one in the
kernel, and a drop before and after a parse; two packets allow the greeting and one more
write, so that a failing write can meet a failing read. The retry limit is the code's
own 5. With keep-alive every read and write re-arms a timer whose expired handler can be
queued: one batch and one packet already give two expired handlers. Two connections are
one that is deleted and one that is added or processes it, while the broker walks the
registry; the theorems hold for any number. Three connection objects are one that
`m_user` or a sender still points at, one whose strand is still in `tryConnect` and one
that is connecting or up. Eleven bytes through seven make `arrange` move bytes that
overlap. Two packets of two parts contain every transition of the parser's loop, with
one packet more than a restart at a main key needs; the five parts are known and unknown
codes, with bodies below and above the four bytes of an `int32_t`. Identities run past
the bits kept by two, so that a truncated identity of one client is another's, and the
links take identities too; two links are an old one and a new one. 640 bytes is a text
that still fits the broker's packet when it has grown and a header was added, 4000 and
30000 are the limits themselves. Two workers are one that handles and one that waits;
with none the thread of `runService` is started. Four tokens are two lines, or a line
and what interrupts it, and every cut of them; a buffer of 7 is filled by the longest.
Two threads and two results are enough for a result to be overtaken by the other's query
and to be moved; three statements for rows that a result without a result set takes, or
drops, from a query after it; two handles for `open` on an open connection. Three bits
for `int` and four for `long` keep the two limits apart, with a number between and one
above both; with 5 bits of precision 17 has no half of its own and 5 has. A column of up
to 2 is one more than the variable has room for. Texts of 7, 8, 16 and 17 meet the sizes
of the buffer in each round.

*Deadlock* is not checked where the system may stop: a connection's life ends, a parser
returns, the registry's connections are all closed or the process is lost; a console
session ends, `MaxId`, `MaxQueries` or `MaxConns` is used up, or a fault ends what is
known. The buffer's runs check it.

*Fairness.* Weak fairness of the handlers, of the accepting thread and of posted closes:
the `io_service`'s threads take any handler that is ready. Of failures and expired
timers: the kernel reports them. Of writes: they end, with or without success. None of
data, hang-ups, resets, sends or of which answer the lobby gives: nothing makes a peer
or a user act. For the link, weak fairness of every thread's next step and of timers,
and strong fairness of `connect_handler`, as the strand is a queue in which updates
cannot overtake it for ever; none of success in connecting, of loss or of close. In the
registry, functions that were entered run to their end; no thread has to call one. In
the parser, the loop goes on. In `ServerLife` the main thread, the workers and the
waiter go on, timers expire and handlers that are ready run while some thread is inside
`run`; no client has to come, no accept to fail and nobody to press a key.

*Findings.* Two places where the code and what is said of it part have a run of their
own:

- `MessageBuffer::write` raises "buffer overrun in MessageBuffer"
  (`net/messageBuffer.cpp:102`) to keep a write inside the array, but its test, line
  100, compares `size() + count` with the capacity, not what is left behind the write
  position. After a read that did not call `arrange`, a write that passes the test can
  reach past the end. `buffer_any` shows it. The program's own calls write only to
  buffers nobody has read from, where the two are the same.
- `query`, `mquery`, `exec` and `prepared_stmt` are to "execute query with printf-style
  substitutions" (`mysql+++.h:881`). `format_string_vargs` takes a text for whole when
  it needed no more than the buffer's size (line 79), but the terminator takes the last
  place: a text of exactly 256 characters loses its last one. `format_any` shows it. A
  longer text with arguments is formatted again with a `va_list` that the first call
  used up; `WholeText` names both cases and holds of all others.

*Other places* where the code and a text about it part, seen while modelling; the models
do what the code does, and the properties above say what holds all the same:

- "addr. null string is localhost." (`lobbysvr/main.cpp:74`): `acceptWait` listens on
  0.0.0.0 (`AddressOfEmpty` in `ServerLife`).
- The console's help says Ctrl + C closes the socket
  (`lobbysvr/watchDogHandler.cpp:30`): only if it is read alone (`ReadCtrlC`, `Read` in
  `Watchdog`).
- `open()` is to "close the old one if already open" (`mysql+++.h:772`): it takes a
  refused ping for a closed connection and overwrites the handle.
- "return number of fields" (`mysql+++.h:436`): moving a `result` leaves out
  `num_fields`.
- "unsuccessful/no-result queries will return an empty container"
  (`_test_mysqlcpp.cpp:121`): `fetch` asks a null result set for its fields.
- `Open` logs "Connected to DB." (`net/mssqlConsumer.cpp:51`) without an environment, as
  the test of its return code (line 32) is never true (`OpenNoHandle`).

## 4. The proofs

Assumptions: the constants are what the code gives them (`BoundsAssumption`,
`KeepAliveAssumption`, `ThreadsAssumption`, `LinkAssumption`, `BufferAssumption`, ...);
nothing bounds the number of batches, packets, parts, commands, connections, threads,
results, columns or rows, or the capacity. Six say more than a type. `WordAssumption`
(`PacketParser`): a packet is shorter than 2^32, so that the `unsigned` countdown starts
from its true size; a packet lies in one message buffer, of 32768 bytes
(`messageBuffer.h:25`). `KnownAssumption`: the codes a parser knows fit the code byte,
as those of `lobby_protocol.h` do. `SizeAssumption` (`ChatRelay`): the broker's packet
size times the growth of a text that is read and written again, plus the members added
and one, is at most the lobby's (6 * 4000 + 100 + 1 and 30000 in the code; the members
are about 45 bytes). `TrafficAssumption`: the lengths of texts are natural numbers.
`WidthAssumption` (`MCSequential`): an `int` is not wider than a `long`; that 2^LongW is
then a multiple of 2^IntW, and that powers are numbers, is stated with it, as the
provers know nothing of powers. `ReadersAssumption`: the numbers of fields lie where a
float has at least every second half, which is where `Rounded` is the rounding to the
nearest.

*ConnectionProofs.* None of the properties is inductive. `IInv` joins: `SendInv`,
nothing is sent before the greeting; `ReaderInv`, there is one reader, either an
outstanding read or one queued read handler, and it has retries left; `OrderInv`, the
queued dispatches are exactly the batches `run+1 .. nread`, oldest first, and all of
them stand ahead of the read handler; `CountInv`, `pending` is the number of batches
read minus those parsed, on an open connection the last batch parsed is the last one
run, and a positive `retry` follows a drop; `CloseInv`, at most one close is posted or
queued, only while closing, and `closes` agrees with `status`; `DeafInv`, who has
started and is open reads or has a reason not to; with `TypeOK` and `UserLifetime`. The
lemmas on queues say how each fact about the queue survives an append and the removal of
the head. There is one lemma per action or group of actions that change the same
variables. Theorems: `TypeCorrect`, `ClosedOnce`, `UserLives`, `RetriesAreAfterDrops`,
`BuffersAreExclusive`, `DeafnessIsTheRace`, `ReservesEndWithTheSession` (inductive by
itself), and `Refinement`: `Spec => ImplementsSession`, every step being a step of
`Session` or a stutter. The order of the strand is what makes `Deliver` hold: the batch
at the head is `run+1`, and once a batch was parsed the status was open, so that none is
dropped before the connection stops being open.

*LobbyUserManagerProofs.* `IInv` adds to `TypeOK` the lock's discipline (`LockInv`: who
is at a location that needs the lock holds it, and a writer excludes readers), which
locations a thread can be at (`PcInv`), the state of a `User` as a function of where its
connection is (`UserInv`), and what a thread's `target` may be at each of its locations
(`TargetInv`). Theorems: `RegistryTypeCorrect`, `LockedUse`, `RegistryIsComplete`,
`StaleWindow`, for any number of connections and accounts.

*BrokerConnectorProofs.* `OneLink` is nearly inductive, `LinkHasUser` is not: `IInv`
adds where threads can be (`PcInv`), that a strand in `onClose` has a closed connection
and that the connection being announced is the only one that can be up (`PhaseInv`), and
how far `onConnect` has come (`StageInv`). Each step that starts or ends an attempt
replaces the one member of `Links` by another. Theorems: `LinkTypeCorrect`, `LinkIsOne`,
`LinkKeepsUser`, `DoubleDeleteWindow`, `EndpointsAreLeft`, `UpdatesAreKept`.

*PacketParserProofs*, the sequences. The properties of the parsers and of the console
speak of a sequence flattened from any number of pieces. The library's `FlattenSeq` is a
recursive function; that the function exists (`FlatExists`), what it is for one piece
more (`FlatStep`), and that each piece lies at its offset in the whole (`FlatPieces`,
`FlattenPiece`) are proved without an induction theorem: the numbers a claim fails for
have a least one (`LeastNumber`), which is not the first and whose predecessor gives a
contradiction.

*PacketParserProofs*, the parsers. Neither of the two safety properties is inductive.
`ParserInv` says of a batch that begins with a packet (`WholeInv`) where the loop is:
`Reading(k, j)`, behind k packets and j parts of the next, what is left to read is the
batch behind that offset, `total_size` is what is left of the packet counting its main
key, and the codes handled and the key exchanges are as many as the parts behind
(`LoopInv`); the codes handled are those of all parts in order, after the key exchange
(`HandledInv`); and once the loop has returned, what its result implies (`EndInv`). A
turn moves from (k, j) to (k, j + 1), or to (k + 1, 0) when the countdown is at zero,
which is where the size in the header has to be the sum of the parts; at the end of the
last packet what is left is the fragment, which is too short for a key or for its
packet. Of a batch that begins in mid-packet (`MidInv`) the cell read first is none with
the mark of a main key, so that a parser with marks reads no further. Theorems:
`WholePacketsParsed`, `ParserNeverThrows`, for the eight parsers and any packets, parts,
sizes and cuts between cells.

*PacketParserProofs*, the buffer. `BufferInv`: positions in order and inside the array,
`mem` a function on its domain, the queue equal to what lies between the positions. With
`AnyOrder` FALSE: `ReadsInOrder`. A step of the run is one of a parser or of the buffer
(`OneMoves`), so that all three hold of the run (`ParsersAndBuffer`).

*ServerLifeProofs.* `Inv` joins `TypeOK` with `AcceptOfSocket` (an accept or a session
belongs to a socket that `acceptWait` opened, and the accept is missing there only when
one has failed or `onAccept` threw), `WorkHeld` (while the main thread serves the work
object is there, and its timer never runs without it), `RunFromWorkersOn` (nobody is
inside `run` before `addWorkerThreads`, and nobody leaves it before it is stopped),
`HandlersSet` (there is something for the `io_service` to call only once all the
acceptor's callbacks are copied), `NoNullHandler`, `StopHasCause` and
`EndedMeansJoined`. `OnlyEscapeStops` is an action property: that a handler leaves
nothing outstanding while the main thread serves is excluded by `WorkHeld`, and before
by the accept or the session that is outstanding. Theorems: `LifeInvariant`,
`OnlyEscape`, `NoNullCallback`, `StopsWithCause`, `JoinedAtEnd`.

*ChatRelayProofs.* The properties speak of packets on the wire to the broker and of what
is sent to clients, the invariant of all that is under way. `WiresOfLink`: packets are
under way only on a link that is up, since losing one empties both wires. `AuthOfLink`:
there is one `/auth` per link and it goes first, so that its answer, and `g_idx4Broker`
once it was handled, are this link's number. `StampsOfLink`: a chat stamped on this link
has its number, whether it still waits in a handler or is on the wire. With
`SizeAssumption` a text that fitted the broker's packet still fits the lobby's when it
has grown. Theorems: `RelayInvariant`, `IndexIsOfLink`, `ClientPacketsFit`.

*MySqlClientProofs.* `ResultsKeepApart` and `ConnectionUsable` do not say whose set
waits on a handle, and are not inductive. `Inv` adds: `MutexKept` (`mquery`, and nothing
else, holds the mutex from one step to the next), `ObjectsKept` (an unread `result` has
the handle and the number of its query, and no two have the same number), `ReadersKept`
(who reads rows from a handle is in `fetch` for a result of that handle, in `mquery`, or
in a call of `connection` without the mutex on that handle), `SetsKept` (without
statements that have no result set, what waits on the handle of an unread result is that
result's own) and `WaitingKept` (what waits is a result's or that of the `mquery` on
that handle). Who meets a call that holds the mutex is therefore in a call without it
(`RaceIsUnlocked`). Theorems: `ClientInvariant`, `ResultsStayApart`,
`ConnectionStaysUsable`, for any threads, results and handles and any number of
statements.

*SequentialProofs.* Each component has its invariant and its theorem, and a step of the
run is a step of one and a stutter of the others (`OneAtATime`). The consumer's
`ConsumerInv` adds to `ConsumerKeepsUp` the types and that an environment that is still
known exists, without which `Close` would give back one too many. That an indicator
shows the last column of its kind needs a largest bound column: `LargestColumn`, from
the library's theorem on well-founded orders. The text's `FormatInv` says which buffer a
second turn has. The bindings' `BindInv` says that the copy in an optional number's
wrapper is 0 or a value of an earlier execute; `NarrowedFacts` says what is left of a
number that is too wide. The rows' `RowsInv`: an iterator has no tuple or the one of its
row, `each()` is one row past those it has shown or in the callback for the last, an
optional that was reset is empty until it is read; `ReadExactly`, with `Congruent` and
`RoundedNearest`, says that the conversions of a number wrap or round and do nothing
else to it. The console's `ConsoleInv` joins: in what is typed an LF follows every CR
(`Paired`, of the tokens put together); the lines of the commands handled, what
`recv_cmd` keeps and what is to come make what was typed, and the lines end with an LF
(`LineInv`); no LF is kept until two lines came in one piece (`NoLagWithoutBurst`); the
bits add up to the functions asked for, as long as each is asked for once (`StartInv`);
a session is closed once, and why (`SessionInv`). A turn takes the first CR or LF of
what is kept and read; that it is a CR with its LF behind it (`TurnText`) is where the
cases that `ConsoleServes` names are needed. What `FlattenSeq` makes of one line more is
`FlattenAppend`, from the same lemmas as in `PacketParserProofs`. Theorems:
`ConsumerIsConsistent`, `TextIsWhole`, `ValuesFollow`, `ReadersStayApart`,
`ConsoleIsServed`, `SideBySide`, `SequentialVariables`.

*Only model-checked*: the liveness properties (`ClosingCompletes`, `HangupNoticed`,
`SilenceExpires`, `WritersFinish`, `UpdatesGoOn`, `KeepsTrying`, `ParserEnds`,
`RunsAndEnds`), which need fairness and `ENABLED`, out of the prover's reach.

## 5. Not modelled, and the plan

What could follow:

1. `Connection` and `LobbyUserManager` composed: many connections with their strands on
   one registry, with `UserLifetime` no longer assumed.

Left out, and why:

- Singletons, `flag_checker`, the memory pool: the singletons are first used before the
  threads start, the pool has a mutex around each operation, and `flag_checker` has no
  user.
- Logging, crash dumps, time and string utilities, XML configuration: I/O and library
  calls. `polyfill/optional.hpp` and `datetime.hpp` are copies of library classes or
  value types.
- The bytes on the wire: `sendPacket` hands the kernel a buffer on its own stack (hazard
  at `connectionImpl.cpp:194`); what is sent depends on the moment the kernel copies it,
  which a model without bytes cannot show.
- Code without a caller: the blocking `connect()`, `runService(ios)`,
  `addWorkerThreads(count)`, `recvHeartBeat`; the first three are the modelled code with
  other arguments.
- The values in columns of the ODBC client: `Bind(float*)` binds an integer, which one
  test would show.
