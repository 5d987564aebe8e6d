----------------------------- MODULE MySqlClient -----------------------------
(***************************************************************************)
(* daotk::mysql::connection, result and prepared_stmt                      *)
(* (src/lobbysvr/mysql+++/mysql+++.h): one connection object used by       *)
(* several threads, the result objects query() and mquery() return, and a  *)
(* prepared statement.  A result is lazy: query() sends the statement      *)
(* under the mutex, the rows stay on the wire until the result is first    *)
(* asked for something or destroyed, and neither takes the mutex.  Nor do  *)
(* the connection's set_server_option, last_insert_id, affected_rows,      *)
(* error_code and error_message.                                           *)
(*                                                                         *)
(* The client library (external) allows one thing at a time per MYSQL      *)
(* handle: a command is refused while a result set waits (error 2014),     *)
(* mysql_store_result returns NULL when none waits or its transfer fails.  *)
(* A call that fails without changing anything is a stuttering step.  The  *)
(* model stops at a fault: a NULL MYSQL handle used ("unopened") or a      *)
(* closed one ("freed"), a NULL result set asked for its fields ("noset"), *)
(* a call on a handle on which another thread is still in one ("race").    *)
(***************************************************************************)
EXTENDS Naturals

CONSTANTS Handles,      \* what mysql_init may return, each once
          Results,      \* the result objects a program may hold
          Threads,
          QueryStmts,   \* kinds of statement given to query() and mquery()
          MaxQueries,   \* bound on the statements sent
          NRows,        \* rows of a prepared statement's result
          NoHandle, NoThread

ASSUME ClientAssumption ==
    /\ QueryStmts \subseteq {"select", "update"}
    /\ MaxQueries \in Nat /\ NRows \in Nat \ {0}
    /\ NoHandle \notin Handles /\ NoThread \notin Threads

VARIABLES my_conn,   \* connection::my_conn
          lib,       \* per handle: what waits on it, of which query, who is in a call on it
          mutex,     \* connection::mutex, the thread that holds it
          res,       \* the result objects
          stmt,      \* the prepared statement: its handle and the rows left
          pc,        \* where a thread is inside a call of several steps
          arg,       \* the result, or the handle, that call is about
          queries,   \* statements sent so far
          setless,   \* ghost: query() was given a statement without a result set
          fault

vars == <<my_conn, lib, mutex, res, stmt, pc, arg, queries, setless, fault>>

\* of, rows: the query that made it and the one its rows are from.
NoResult == [state |-> "none", conn |-> NoHandle, of |-> 0, rows |-> 0, fields |-> FALSE]
Unread(h, q) == [NoResult EXCEPT !.state = "unread", !.conn = h, !.of = q]
AnyResult == CHOOSE r \in Results : TRUE

----------------------------------------------------------------------------
(* The client library. *)

Open == {"ready", "result", "stmt"}

\* What is wrong with a call of the library on handle h, in the library state L.
Trouble(L, h) == CASE h = NoHandle             -> "unopened"
                   [] h # NoHandle /\ L[h].st = "freed" -> "freed"
                   [] h # NoHandle /\ L[h].reader # NoThread -> "race"
                   [] OTHER                    -> "none"

\* mysql_real_query accepted: a statement with a result set leaves it waiting.
Sent(L, h, kind, q) == [L EXCEPT ![h].st = IF kind = "select" THEN "result" ELSE "ready",
                                 ![h].of = q]

\* mysql_use_result and mysql_free_result: a waiting result set is dropped.
Dropped(L, h) == [L EXCEPT ![h].st = IF @ = "result" THEN "ready" ELSE @]

----------------------------------------------------------------------------
Crash(why) ==
    /\ fault' = why
    /\ UNCHANGED <<my_conn, lib, mutex, res, stmt, pc, arg, queries>>

\* A fault in a call of thread t that does not take the mutex.
CrashUnlocked(t, why) ==
    /\ fault' = why /\ pc' = [pc EXCEPT ![t] = "unlocked"]
    /\ UNCHANGED <<my_conn, lib, mutex, res, stmt, arg, queries>>

Idle(t) == fault = "none" /\ pc[t] = "idle"
Free(t) == mutex \in {NoThread, t}

Goto(t, where) == pc' = [pc EXCEPT ![t] = where]

(* connection::is_open, close and open *)

\* open, is_open: my_conn is read before the mutex is taken.
OpenCheck(t) ==
    /\ Idle(t)
    /\ Goto(t, IF my_conn = NoHandle THEN "connect" ELSE "ping")
    /\ UNCHANGED <<my_conn, lib, mutex, res, stmt, arg, queries, fault>>

\* is_open: mysql_ping under the mutex finds the server there or gone, and is
\* refused while something waits on the handle.
OpenPing(t) ==
    /\ fault = "none" /\ pc[t] = "ping" /\ Free(t)
    /\ IF Trouble(lib, my_conn) # "none" THEN Crash(Trouble(lib, my_conn))
       ELSE /\ \/ lib[my_conn].st = "ready" /\ Goto(t, "close") /\ UNCHANGED lib
               \/ /\ lib[my_conn].st = "ready" /\ Goto(t, "connect")
                  /\ lib' = [lib EXCEPT ![my_conn].st = "lost"]
               \/ lib[my_conn].st # "ready" /\ Goto(t, "connect") /\ UNCHANGED lib
            /\ UNCHANGED <<my_conn, mutex, res, stmt, arg, queries, fault>>

\* close: mysql_close also cuts the prepared statement off its connection.
CloseHandle ==
    /\ IF my_conn = NoHandle THEN UNCHANGED <<my_conn, lib, stmt>>
       ELSE /\ lib' = [lib EXCEPT ![my_conn] =
                          [st |-> "freed", of |-> 0, reader |-> NoThread]]
            /\ my_conn' = NoHandle
            /\ stmt' = IF stmt.conn = my_conn THEN [conn |-> NoHandle, left |-> 0]
                     ELSE stmt
    /\ UNCHANGED <<mutex, res, arg, queries>>

Close(t, from, to) ==
    /\ fault = "none" /\ pc[t] = from /\ Free(t)
    /\ IF my_conn # NoHandle /\ lib[my_conn].reader # NoThread THEN Crash("race")
       ELSE CloseHandle /\ Goto(t, to) /\ UNCHANGED fault

\* open: mysql_init and mysql_real_connect give a handle that overwrites the
\* one that was there.
Connected(h) ==
    /\ lib[h].st = "none"
    /\ my_conn' = h
    /\ lib' = [lib EXCEPT ![h].st = "ready"]

\* Mutant: a handle that failed to connect is closed and kept.
NotConnectedKept(h) ==
    /\ lib[h].st = "none"
    /\ my_conn' = h
    /\ lib' = [lib EXCEPT ![h].st = "freed"]

\* open: the connect fails, the new handle is closed again.
NotConnected(h) ==
    /\ lib[h].st = "none"
    /\ my_conn' = NoHandle
    /\ lib' = [lib EXCEPT ![h].st = "freed"]

OpenConnect(t) ==
    /\ fault = "none" /\ pc[t] = "connect" /\ Free(t)
    /\ \E h \in Handles : Connected(h) \/ NotConnected(h)
    /\ Goto(t, "idle")
    /\ UNCHANGED <<mutex, res, stmt, arg, queries, fault>>

----------------------------------------------------------------------------
(* The calls of connection without the mutex. *)

\* set_server_option, last_insert_id, affected_rows, error_code, error_message:
\* into the library with my_conn as it is ...
RawBegin(t) ==
    /\ Idle(t)
    /\ IF Trouble(lib, my_conn) # "none" THEN CrashUnlocked(t, Trouble(lib, my_conn))
       ELSE /\ lib' = [lib EXCEPT ![my_conn].reader = t]
            /\ Goto(t, "raw") /\ arg' = [arg EXCEPT ![t] = my_conn]
            /\ UNCHANGED <<my_conn, mutex, res, stmt, queries, fault>>

\* ... and out: the option is set on a handle on which nothing waits, refused on
\* another, and leaves both as they were.
RawEnd(t) ==
    /\ fault = "none" /\ pc[t] = "raw"
    /\ lib' = [lib EXCEPT ![arg[t]].reader = NoThread]
    /\ Goto(t, "idle") /\ arg' = [arg EXCEPT ![t] = AnyResult]
    /\ UNCHANGED <<my_conn, mutex, res, stmt, queries, fault>>

----------------------------------------------------------------------------
(* result::free, also run by the destructor and by a move assignment. *)

\* Mutant: free forgets the rows that still wait on the connection.
AfterFreeForgetful(L, r) == L

\* The library state after result r has been freed: mysql_use_result takes
\* whatever waits on the handle of a result that was not read.
AfterFree(L, r) == IF res[r].state = "unread" THEN Dropped(L, res[r].conn) ELSE L

FreeTrouble(r) == IF res[r].state = "unread" THEN Trouble(lib, res[r].conn) ELSE "none"

\* No other thread works on the object r: a result is owned by one thread.
Owned(r) == \A u \in Threads : pc[u] = "fetch" => arg[u] # r

FreeResult(t, r) ==
    /\ Idle(t) /\ res[r].state # "none"
    /\ Owned(r)
    /\ IF FreeTrouble(r) # "none" THEN CrashUnlocked(t, FreeTrouble(r))
       ELSE /\ lib' = AfterFree(lib, r)
            /\ res' = [res EXCEPT ![r] = NoResult]
            /\ UNCHANGED <<my_conn, mutex, stmt, pc, arg, queries, fault>>

\* Mutant: the move assignment takes over the connection and not the rows.
MovedKeepingRows(r, new) ==
    IF res[r].state = "read" THEN [res[r] EXCEPT !.of = new.of] ELSE new

\* What r holds after it took over the result new; num_fields is not among it.
Moved(r, new) == [new EXCEPT !.fields = FALSE]

\* r = std::move(s): what r held is freed, s is left empty.
MoveAssign(t, r, s) ==
    /\ Idle(t) /\ r # s /\ Owned(r) /\ Owned(s)
    /\ res[s].state # "none"
    /\ IF FreeTrouble(r) # "none" THEN CrashUnlocked(t, FreeTrouble(r))
       ELSE /\ lib' = AfterFree(lib, r)
            /\ res' = [res EXCEPT ![r] = Moved(r, res[s]), ![s] = NoResult]
            /\ UNCHANGED <<my_conn, mutex, stmt, pc, arg, queries, fault>>

----------------------------------------------------------------------------
(* connection::query, exec and mquery: a command sent under the mutex. *)

\* mysql_real_query; a command the library refuses throws and changes nothing.
Send(t, kind) ==
    /\ Idle(t) /\ Free(t)
    /\ Trouble(lib, my_conn) = "none"
    /\ lib[my_conn].st = "ready" /\ queries < MaxQueries
    /\ lib' = Sent(lib, my_conn, kind, queries + 1)
    /\ queries' = queries + 1

\* ... on a handle that is not there, or that a result is being read from.
SendBroken(t) ==
    /\ Idle(t) /\ Free(t)
    /\ Trouble(lib, my_conn) # "none"
    /\ Crash(Trouble(lib, my_conn))

\* The result object returned by query() has read nothing yet.
Query(t, r, kind) ==
    /\ Send(t, kind) /\ res[r].state = "none" /\ Owned(r)
    /\ res' = [res EXCEPT ![r] = Unread(my_conn, queries + 1)]
    /\ setless' = (setless \/ kind # "select")
    /\ UNCHANGED <<my_conn, mutex, stmt, pc, arg, fault>>

\* exec: drops the result set of its statement under the same lock.
Exec(t) ==
    /\ Idle(t) /\ Free(t)
    /\ Trouble(lib, my_conn) = "none"
    /\ lib[my_conn].st = "ready" /\ queries < MaxQueries
    /\ lib' = Dropped(Sent(lib, my_conn, "select", queries + 1), my_conn)
    /\ queries' = queries + 1
    /\ UNCHANGED <<my_conn, mutex, res, stmt, pc, arg, fault>>

\* Mutant: mquery does not hold the mutex while it fetches.
MqueryBeginUnlocked(t, kind) ==
    /\ Send(t, kind)
    /\ Goto(t, "mquery")
    /\ UNCHANGED <<my_conn, mutex, res, stmt, arg, fault>>

\* mquery: takes the mutex, sends, and fetches one result set after the other.
MqueryBegin(t, kind) ==
    /\ Send(t, kind)
    /\ mutex' = t
    /\ Goto(t, "mquery")
    /\ UNCHANGED <<my_conn, res, stmt, arg, fault>>

----------------------------------------------------------------------------
(* result::fetch: mysql_store_result marks the handle ready and then reads
   the rows.  When it returns NULL the fields are asked for all the same. *)

Stored(t, h, where, r) ==
    /\ Trouble(lib, h) = "none" /\ lib[h].st = "result"
    /\ lib' = [lib EXCEPT ![h].st = "ready", ![h].reader = t]
    /\ Goto(t, where) /\ arg' = [arg EXCEPT ![t] = r]
    /\ UNCHANGED <<my_conn, mutex, res, stmt, queries, fault>>

\* No handle to ask, or NULL: nothing waits, or the transfer fails.
StoreTrouble(h) == IF Trouble(lib, h) # "none" THEN Trouble(lib, h) ELSE "noset"

\* check_condition of count, eof, seek, fetch, ... on a result not read yet.
FetchBegin(t, r) ==
    /\ Idle(t) /\ res[r].state # "read"
    /\ Owned(r)
    /\ \/ Stored(t, res[r].conn, "fetch", r)
       \/ CrashUnlocked(t, StoreTrouble(res[r].conn))

FetchEnd(t) ==
    /\ fault = "none" /\ pc[t] = "fetch"
    /\ LET r == arg[t]
           h == res[r].conn
       IN /\ res' = [res EXCEPT ![r] = [@ EXCEPT !.state = "read", !.rows = lib[h].of,
                                                 !.fields = TRUE]]
          /\ lib' = [lib EXCEPT ![h].reader = NoThread]
    /\ Goto(t, "idle") /\ arg' = [arg EXCEPT ![t] = AnyResult]
    /\ UNCHANGED <<my_conn, mutex, stmt, queries, fault>>

\* mquery: a result{my_conn, true} for the result set at hand ...
MqueryFetch(t) ==
    /\ fault = "none" /\ pc[t] = "mquery"
    /\ Stored(t, my_conn, "mfetch", arg[t]) \/ Crash(StoreTrouble(my_conn))

\* ... pushed into the vector by a move, which leaves num_fields behind; then
\* mysql_next_result finds another result set or ends the call.
MqueryPush(t, r, kind) ==
    /\ fault = "none" /\ pc[t] = "mfetch" /\ res[r].state = "none"
    /\ LET q == lib[my_conn].of
           done == [lib EXCEPT ![my_conn].reader = NoThread]
       IN /\ res' = [res EXCEPT ![r] = [state |-> "read", conn |-> my_conn, of |-> q,
                                        rows |-> q, fields |-> FALSE]]
          /\ \/ /\ queries < MaxQueries
                /\ queries' = queries + 1
                /\ lib' = Sent(done, my_conn, kind, queries + 1)
                /\ Goto(t, "mquery") /\ UNCHANGED mutex
             \/ /\ lib' = done /\ UNCHANGED queries
                /\ Goto(t, "idle") /\ mutex' = NoThread
    /\ UNCHANGED <<my_conn, stmt, arg, fault>>

----------------------------------------------------------------------------
(* prepared_stmt: every call holds the connection's mutex. *)

StmtPrepare(t) ==
    /\ Idle(t) /\ Free(t) /\ stmt.conn = NoHandle
    /\ Trouble(lib, my_conn) = "none" /\ lib[my_conn].st = "ready"
    /\ stmt' = [conn |-> my_conn, left |-> 0]
    /\ UNCHANGED <<my_conn, lib, mutex, res, pc, arg, queries, fault>>

\* execute, also again: the rows of the execution before are dropped.
StmtExecute(t) ==
    /\ Idle(t) /\ Free(t) /\ stmt.conn # NoHandle
    /\ IF lib[stmt.conn].reader # NoThread THEN Crash("race")
       ELSE /\ lib[stmt.conn].st \in {"ready", "stmt"}
            /\ lib' = [lib EXCEPT ![stmt.conn].st = "stmt"]
            /\ stmt' = [stmt EXCEPT !.left = NRows]
            /\ UNCHANGED <<my_conn, mutex, res, pc, arg, queries, fault>>

\* fetch: the call after the last row finds the end and frees the connection.
StmtFetch(t) ==
    /\ Idle(t) /\ Free(t) /\ stmt.conn # NoHandle
    /\ lib[stmt.conn].st = "stmt"
    /\ IF lib[stmt.conn].reader # NoThread THEN Crash("race")
       ELSE /\ IF stmt.left = 0
               THEN lib' = [lib EXCEPT ![stmt.conn].st = "ready"] /\ UNCHANGED stmt
               ELSE stmt' = [stmt EXCEPT !.left = @ - 1] /\ UNCHANGED lib
            /\ UNCHANGED <<my_conn, mutex, res, pc, arg, queries, fault>>

\* The destructor: mysql_stmt_close drops the rows that are left.
StmtClose(t) ==
    /\ Idle(t) /\ Free(t) /\ stmt.conn # NoHandle
    /\ IF lib[stmt.conn].reader # NoThread THEN Crash("race")
       ELSE /\ lib' = [lib EXCEPT ![stmt.conn].st = IF @ = "stmt" THEN "ready" ELSE @]
            /\ stmt' = [conn |-> NoHandle, left |-> 0]
            /\ UNCHANGED <<my_conn, mutex, res, pc, arg, queries, fault>>

----------------------------------------------------------------------------
Init ==
    /\ my_conn = NoHandle
    /\ lib = [h \in Handles |-> [st |-> "none", of |-> 0, reader |-> NoThread]]
    /\ mutex = NoThread
    /\ res = [r \in Results |-> NoResult]
    /\ stmt = [conn |-> NoHandle, left |-> 0]
    /\ pc = [t \in Threads |-> "idle"]
    /\ arg = [t \in Threads |-> AnyResult]
    /\ queries = 0 /\ setless = FALSE
    /\ fault = "none"

Call(t) ==
    \/ OpenCheck(t) \/ OpenPing(t) \/ OpenConnect(t)
    \/ Close(t, "close", "connect") \/ Close(t, "idle", "idle")
    \/ RawBegin(t) \/ RawEnd(t)
    \/ SendBroken(t) \/ Exec(t) \/ FetchEnd(t) \/ MqueryFetch(t)
    \/ StmtPrepare(t) \/ StmtExecute(t) \/ StmtFetch(t) \/ StmtClose(t)
    \/ \E kind \in QueryStmts : MqueryBegin(t, kind)
    \/ \E r \in Results :
          \/ FreeResult(t, r) \/ FetchBegin(t, r)
          \/ \E s \in Results : MoveAssign(t, r, s)
          \/ \E kind \in QueryStmts : MqueryPush(t, r, kind)

Next ==
    \E t \in Threads :
        \/ Call(t) /\ UNCHANGED setless
        \/ \E r \in Results, kind \in QueryStmts : Query(t, r, kind)

Spec == Init /\ [][Next]_vars

----------------------------------------------------------------------------
\* A result that has been read holds the rows of the query that made it, and
\* not those of a query sent later on the same connection: result::fetch takes
\* and result::free drops whatever waits on the handle.  It holds as long as
\* query() is given only statements with a result set; the result of another
\* one takes or drops the rows of a later query.
RowsAreOwn ==
    ~setless => \A r \in Results : res[r].state = "read" => res[r].rows = res[r].of

\* The calls that take the mutex never meet each other on a handle, mquery with
\* its many steps included: of two threads that meet in the library one is in a
\* call without the mutex.  Those are the lazy fetch and free of a result, and
\* the connection's set_server_option, last_insert_id, affected_rows, error_code
\* and error_message.
RaceOnlyUnlocked ==
    fault = "race" => \E t \in Threads : pc[t] \in {"fetch", "raw", "unlocked"}

\* Threads that share a connection get results of their own: no rows of another
\* query, and no meeting on the handle but in a call without the mutex.
ResultsKeepApart == RowsAreOwn /\ RaceOnlyUnlocked

\* A result set that waits on a connection belongs to a result object that
\* will take it or drop it, or to the mquery at work: otherwise every later
\* command on the connection is refused for ever (free, exec, mquery).
NothingLeftWaiting ==
    fault = "none" =>
        \A h \in Handles : lib[h].st = "result" =>
            \/ \E r \in Results : /\ res[r].state = "unread" /\ res[r].conn = h
                                  /\ res[r].of = lib[h].of
            \/ \E t \in Threads : pc[t] = "mquery"

\* open and close leave my_conn null or on a handle that is not closed, whatever
\* fails in between.
HandleNotClosed == my_conn # NoHandle => lib[my_conn].st \in Open \cup {"lost"}

\* Whatever was called and failed, the connection can be used again.
ConnectionUsable == HandleNotClosed /\ NothingLeftWaiting
=============================================================================
