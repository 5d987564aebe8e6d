------------------------- MODULE MySqlClientProofs -------------------------
(***************************************************************************)
(* What holds of MySqlClient for any threads, handles, result objects and  *)
(* number of statements.                                                   *)
(***************************************************************************)
EXTENDS MySqlClient, TLAPS

MaybeHandle == Handles \cup {NoHandle}
Unclosed    == Open \cup {"lost"}

LibState  == [st : Unclosed \cup {"none", "freed"}, of : Nat, reader : Threads \cup {NoThread}]
ResObject == [state : {"none", "unread", "read"}, conn : MaybeHandle, of : Nat, rows : Nat,
              fields : BOOLEAN]

\* Where a thread may be.
Places == {"idle", "ping", "close", "connect", "raw", "fetch", "mquery", "mfetch", "unlocked"}

\* The values of the variables.
TypeOK ==
    /\ my_conn \in MaybeHandle
    /\ lib \in [Handles -> LibState]
    /\ mutex \in Threads \cup {NoThread}
    /\ res \in [Results -> ResObject]
    /\ stmt \in [conn : MaybeHandle, left : Nat]
    /\ pc \in [Threads -> Places]
    /\ arg \in [Threads -> Results \cup {AnyResult} \cup Handles]
    /\ queries \in Nat /\ setless \in BOOLEAN
    /\ fault \in {"none", "unopened", "freed", "race", "noset"}

IsUnread(r) == res[r].state = "unread"

\* An empty result object has no connection, one that was not read has the
\* connection and the number of its query, and no two have the same.
ObjectsKept ==
    /\ \A r \in Results : res[r].state = "none" => res[r].conn = NoHandle
    /\ \A r \in Results : IsUnread(r) => /\ res[r].conn \in Handles /\ res[r].of <= queries
                                         /\ lib[res[r].conn].st # "none"
    /\ \A r, s \in Results : IsUnread(r) /\ IsUnread(s) /\ res[r].of = res[s].of => r = s

\* mquery, and nothing else, holds the mutex from one step to the next.
MutexKept ==
    \A t \in Threads : /\ pc[t] \in {"mquery", "mfetch"} => mutex = t /\ my_conn \in Handles
                       /\ mutex = t => pc[t] \in {"mquery", "mfetch"}

\* A thread in a call on a handle is in fetch, for the result it is about, in
\* mquery, or in a call that takes no mutex.
ReadersKept ==
    /\ \A h \in Handles : lib[h].reader # NoThread =>
          \/ pc[lib[h].reader] = "fetch" /\ lib[h].st = "ready" /\ res[arg[lib[h].reader]].conn = h
          \/ pc[lib[h].reader] = "mfetch" /\ lib[h].st = "ready" /\ my_conn = h
          \/ pc[lib[h].reader] = "raw" /\ lib[h].st # "none" /\ arg[lib[h].reader] = h
    /\ \A t \in Threads : pc[t] = "fetch" =>
          arg[t] \in Results /\ IsUnread(arg[t]) /\ lib[res[arg[t]].conn].reader = t
    /\ \A t \in Threads : pc[t] = "mfetch" => lib[my_conn].reader = t
    /\ \A t \in Threads : pc[t] = "raw" => arg[t] \in Handles /\ lib[arg[t]].reader = t

\* As long as query() is given statements with a result set, what waits on the
\* handle of a result that was not read is that result's, or it is being read.
SetsKept ==
    ~setless =>
      /\ \A r \in Results : IsUnread(r) /\ lib[res[r].conn].st # "freed" =>
            /\ lib[res[r].conn].of = res[r].of
            /\ \/ lib[res[r].conn].st = "result"
               \/ \E t \in Threads : pc[t] = "fetch" /\ arg[t] = r
      /\ \A t \in Threads, r \in Results :
            pc[t] = "mquery" /\ IsUnread(r) => res[r].conn # my_conn

\* What waits on a handle is a result's or that of the mquery on that handle.
WaitingKept ==
    fault = "none" =>
        \A h \in Handles : lib[h].st = "result" =>
            \/ \E r \in Results : IsUnread(r) /\ res[r].conn = h /\ res[r].of = lib[h].of
            \/ my_conn = h /\ \E t \in Threads : pc[t] = "mquery"

Inv == /\ TypeOK /\ ObjectsKept /\ MutexKept /\ ReadersKept /\ SetsKept /\ WaitingKept
       /\ HandleNotClosed /\ RowsAreOwn /\ RaceOnlyUnlocked

USE DEF Places

----------------------------------------------------------------------------
(* The client library. *)

\* A call goes through on a handle that is there, open and not read from.
LEMMA TroubleMeans ==
    ASSUME TypeOK, NEW h \in MaybeHandle
    PROVE  /\ Trouble(lib, h) \in {"none", "unopened", "freed", "race"}
           /\ Trouble(lib, h) = "none" =>
                h \in Handles /\ lib[h].st # "freed" /\ lib[h].reader = NoThread
           /\ Trouble(lib, h) = "race" => h \in Handles /\ lib[h].reader \in Threads
  BY ClientAssumption DEF TypeOK, Trouble, MaybeHandle, LibState

\* L is the library state with st, of and reader for handle h, and lib otherwise.
LibWith(L, h, st, of, reader) ==
    /\ L \in [Handles -> LibState]
    /\ L[h].st = st /\ L[h].of = of /\ L[h].reader = reader
    /\ \A g \in Handles : g # h => L[g] = lib[g]

\* The state of a handle is assigned ...
LEMMA WithState ==
    ASSUME TypeOK, NEW h \in Handles, NEW s \in Unclosed \cup {"none", "freed"}
    PROVE  LibWith([lib EXCEPT ![h].st = s], h, s, lib[h].of, lib[h].reader)
  BY DEF TypeOK, LibState, LibWith

\* ... with the query that it is about ...
LEMMA WithQuery ==
    ASSUME TypeOK, NEW h \in Handles, NEW s \in Unclosed \cup {"none", "freed"}, NEW q \in Nat
    PROVE  LibWith([lib EXCEPT ![h].st = s, ![h].of = q], h, s, q, lib[h].reader)
  BY DEF TypeOK, LibState, LibWith

\* ... with the thread that reads the rows ...
LEMMA WithReader ==
    ASSUME TypeOK, NEW h \in Handles, NEW s \in Unclosed \cup {"none", "freed"},
           NEW t \in Threads
    PROVE  LibWith([lib EXCEPT ![h].st = s, ![h].reader = t], h, s, lib[h].of, t)
  BY DEF TypeOK, LibState, LibWith

\* ... or that has read them.
LEMMA WithoutReader ==
    ASSUME TypeOK, NEW h \in Handles
    PROVE  LibWith([lib EXCEPT ![h].reader = NoThread], h, lib[h].st, lib[h].of, NoThread)
  BY DEF TypeOK, LibState, LibWith

\* What a handle holds.
LEMMA LibTypes ==
    ASSUME TypeOK, NEW h \in Handles
    PROVE  /\ lib[h].st \in Unclosed \cup {"none", "freed"} /\ lib[h].of \in Nat
           /\ lib[h].reader \in Threads \cup {NoThread}
  BY DEF TypeOK, LibState

\* What a result object holds.
LEMMA ResTypes ==
    ASSUME TypeOK, NEW r \in Results
    PROVE  /\ res[r].state \in {"none", "unread", "read"} /\ res[r].conn \in MaybeHandle
           /\ res[r].of \in Nat /\ res[r].rows \in Nat /\ res[r].fields \in BOOLEAN
  BY DEF TypeOK, ResObject

\* A result object assigned, and the others as they were.
LEMMA ResAssigned ==
    ASSUME TypeOK, NEW r \in Results, NEW o \in ResObject
    PROVE  /\ [res EXCEPT ![r] = o] \in [Results -> ResObject]
           /\ [res EXCEPT ![r] = o][r] = o
           /\ \A s \in Results : s # r => [res EXCEPT ![r] = o][s] = res[s]
  BY DEF TypeOK

\* The library after a statement was sent, and after a set was dropped.
LEMMA SentWith ==
    ASSUME TypeOK, NEW h \in Handles, NEW kind, NEW q \in Nat
    PROVE  LibWith(Sent(lib, h, kind, q), h, IF kind = "select" THEN "result" ELSE "ready", q,
                   lib[h].reader)
  BY WithQuery DEF Sent, Unclosed, Open

LEMMA DroppedWith ==
    ASSUME TypeOK, NEW h \in Handles
    PROVE  LibWith(Dropped(lib, h), h, IF lib[h].st = "result" THEN "ready" ELSE lib[h].st,
                   lib[h].of, lib[h].reader)
  BY DEF Dropped, Unclosed, Open, TypeOK, LibState, LibWith

----------------------------------------------------------------------------
(* The actions: each keeps Inv. *)

\* Where a thread is while it has no part in reading rows.
Quiet == {"idle", "ping", "close", "connect"}

\* A thread that is elsewhere and could take the mutex finds mquery nowhere.
LEMMA MutexFree ==
    ASSUME Inv, NEW t \in Threads, pc[t] \in Quiet, Free(t)
    PROVE  mutex = NoThread /\ \A u \in Threads : pc[u] \notin {"mquery", "mfetch"}
  BY ClientAssumption DEF Inv, MutexKept, Free, Quiet

\* The model stops at a fault; a race is one with a call without the mutex.
LEMMA CrashStep ==
    ASSUME Inv, fault = "none", UNCHANGED setless, NEW why, Crash(why),
           why \in {"unopened", "freed", "race", "noset"},
           why = "race" => \E t \in Threads : pc[t] \in {"fetch", "raw", "unlocked"}
    PROVE  Inv'
<1>1. UNCHANGED <<my_conn, lib, mutex, res, stmt, pc, arg, queries>> /\ fault' = why
  BY DEF Crash
<1>2. RaceOnlyUnlocked' /\ WaitingKept'
  BY <1>1 DEF RaceOnlyUnlocked, WaitingKept, IsUnread
<1>. QED
  BY <1>1, <1>2 DEF Inv, TypeOK, ObjectsKept, MutexKept, ReadersKept, SetsKept, RowsAreOwn,
                    HandleNotClosed, IsUnread

\* A call without the mutex may meet any other.
LEMMA CrashUnlockedStep ==
    ASSUME Inv, fault = "none", UNCHANGED setless, NEW t \in Threads, pc[t] = "idle",
           NEW why, CrashUnlocked(t, why), why \in {"unopened", "freed", "race", "noset"}
    PROVE  Inv'
<1>1. /\ UNCHANGED <<my_conn, lib, mutex, res, stmt, arg, queries>> /\ fault' = why
      /\ pc' \in [Threads -> Places] /\ pc'[t] = "unlocked"
      /\ \A u \in Threads : u # t => pc'[u] = pc[u]
  BY DEF CrashUnlocked, Inv, TypeOK
<1>2. RaceOnlyUnlocked' /\ WaitingKept'
  BY <1>1 DEF RaceOnlyUnlocked, WaitingKept
<1>3. TypeOK'
  BY <1>1 DEF Inv, TypeOK
<1>4. MutexKept'
  BY <1>1 DEF Inv, MutexKept
<1>5. ReadersKept'
  BY <1>1, LibTypes DEF Inv, ReadersKept, IsUnread
<1>6. SetsKept'
  BY <1>1 DEF Inv, SetsKept, IsUnread
<1>7. ObjectsKept' /\ RowsAreOwn' /\ HandleNotClosed'
  BY <1>1 DEF Inv, ObjectsKept, RowsAreOwn, HandleNotClosed, IsUnread
<1>. QED  BY <1>2, <1>3, <1>4, <1>5, <1>6, <1>7 DEF Inv

\* A call under the mutex that meets another thread meets a call without it.
LEMMA RaceIsUnlocked ==
    ASSUME Inv, NEW t \in Threads, pc[t] \in Quiet, Free(t),
           NEW h \in Handles, lib[h].reader \in Threads
    PROVE  \E u \in Threads : pc[u] \in {"fetch", "raw", "unlocked"}
  BY MutexFree, ClientAssumption DEF Inv, ReadersKept

\* No result that was not read is on a handle that has been found idle.
LEMMA IdleHandleHasNoUnread ==
    ASSUME Inv, ~setless, NEW h \in Handles, lib[h].reader = NoThread,
           lib[h].st \notin {"result", "freed"}
    PROVE  \A r \in Results : IsUnread(r) => res[r].conn # h
  BY ClientAssumption DEF Inv, TypeOK, ReadersKept, SetsKept

\* open up to the connect, exec and the calls of a prepared statement: under the
\* mutex, on a handle on which nothing waits for a result object, or on none.
LEMMA QuietStep ==
    ASSUME Inv, fault = "none", NEW t \in Threads, pc[t] \in Quiet,
           NEW where \in Quiet, pc' = [pc EXCEPT ![t] = where],
           UNCHANGED <<my_conn, mutex, res, arg, setless, fault>>,
           stmt' \in [conn : MaybeHandle, left : Nat], queries' \in {queries, queries + 1},
           \/ UNCHANGED lib
           \/ \E h \in Handles, s \in Unclosed \ {"result"}, q \in Nat :
                 /\ lib[h].reader = NoThread /\ lib[h].st \in Unclosed \ {"result"}
                 /\ LibWith(lib', h, s, q, NoThread)
    PROVE  Inv'
<1>1. /\ pc' \in [Threads -> Places]
      /\ pc'[t] \in Quiet /\ \A u \in Threads : u # t => pc'[u] = pc[u]
  BY DEF Inv, TypeOK, Quiet
<1>2. queries' \in Nat /\ queries' >= queries
  BY DEF Inv, TypeOK
<1>3. CASE UNCHANGED lib
  <2>1. TypeOK'
    BY <1>1, <1>2, <1>3 DEF Inv, TypeOK
  <2>2. ObjectsKept' /\ HandleNotClosed' /\ RowsAreOwn'
    BY <1>2, <1>3, ResTypes DEF Inv, TypeOK, ObjectsKept, HandleNotClosed, RowsAreOwn, IsUnread
  <2>3. MutexKept'
    BY <1>1 DEF Inv, MutexKept, Quiet
  <2>4. ReadersKept'
    BY <1>1, <1>3, LibTypes DEF Inv, ReadersKept, Quiet, IsUnread
  <2>5. SetsKept'
    BY <1>1, <1>3 DEF Inv, SetsKept, Quiet, IsUnread
  <2>6. WaitingKept' /\ RaceOnlyUnlocked'
    BY <1>1, <1>3 DEF Inv, WaitingKept, RaceOnlyUnlocked, Quiet, IsUnread
  <2>. QED  BY <2>1, <2>2, <2>3, <2>4, <2>5, <2>6 DEF Inv
<1>4. ASSUME NEW h \in Handles, NEW s \in Unclosed \ {"result"}, NEW q \in Nat,
             lib[h].reader = NoThread, lib[h].st \in Unclosed \ {"result"},
             LibWith(lib', h, s, q, NoThread)
      PROVE  Inv'
  <2>1. /\ lib' \in [Handles -> LibState]
        /\ lib'[h].st = s /\ lib'[h].of = q /\ lib'[h].reader = NoThread
        /\ \A g \in Handles : g # h => lib'[g] = lib[g]
    BY <1>4 DEF LibWith
  <2>2. s \notin {"none", "freed", "result"} /\ lib[h].st \notin {"none", "freed", "result"}
    BY <1>4 DEF Unclosed, Open
  <2>3. TypeOK'
    BY <1>1, <1>2, <2>1 DEF Inv, TypeOK
  <2>4. ObjectsKept'
    BY <1>2, <2>1, <2>2, ResTypes DEF Inv, TypeOK, ObjectsKept, IsUnread
  <2>5. HandleNotClosed' /\ RowsAreOwn'
    BY <2>1 DEF Inv, TypeOK, HandleNotClosed, RowsAreOwn, Unclosed, MaybeHandle
  <2>6. MutexKept'
    BY <1>1 DEF Inv, MutexKept, Quiet
  <2>7. ReadersKept'
    BY <1>1, <1>4, <2>1, LibTypes, ClientAssumption
    DEF Inv, TypeOK, MutexKept, ObjectsKept, ReadersKept, Quiet, IsUnread
  <2>8. SetsKept'
    <3>1. ~setless => \A r \in Results : IsUnread(r) => res[r].conn # h
      BY <1>4, <2>2, IdleHandleHasNoUnread
    <3>. QED
      BY <1>1, <2>1, <3>1 DEF Inv, ObjectsKept, SetsKept, Quiet, IsUnread
  <2>9. WaitingKept'
    BY <1>1, <2>1, <2>2 DEF Inv, WaitingKept, Quiet, IsUnread
  <2>10. RaceOnlyUnlocked'
    BY DEF RaceOnlyUnlocked
  <2>. QED  BY <2>3, <2>4, <2>5, <2>6, <2>7, <2>8, <2>9, <2>10 DEF Inv
<1>. QED  BY <1>3, <1>4

\* open, is_open: my_conn is read without the mutex.
LEMMA OpenCheckStep ==
    ASSUME Inv, UNCHANGED setless, NEW t \in Threads, OpenCheck(t)
    PROVE  Inv'
<1>1. /\ fault = "none" /\ pc[t] \in Quiet
      /\ \E where \in Quiet : pc' = [pc EXCEPT ![t] = where]
      /\ UNCHANGED <<my_conn, lib, mutex, res, stmt, arg, queries, fault>>
  BY DEF OpenCheck, Idle, Goto, Quiet
<1>. QED  BY <1>1, QuietStep DEF Inv, TypeOK

\* is_open: the ping crashes on a handle that another thread closed meanwhile or
\* reads from, and otherwise at most finds the connection lost.
LEMMA OpenPingStep ==
    ASSUME Inv, UNCHANGED setless, NEW t \in Threads, OpenPing(t)
    PROVE  Inv'
<1>1. fault = "none" /\ pc[t] \in Quiet /\ Free(t) /\ my_conn \in MaybeHandle
  BY DEF OpenPing, Quiet, Inv, TypeOK
<1>2. CASE Trouble(lib, my_conn) # "none"
  <2>1. Crash(Trouble(lib, my_conn))
    BY <1>2 DEF OpenPing
  <2>. QED
    BY <1>1, <1>2, <2>1, TroubleMeans, RaceIsUnlocked, CrashStep DEF Inv
<1>3. CASE Trouble(lib, my_conn) = "none"
  <2>1. my_conn \in Handles /\ lib[my_conn].reader = NoThread
    BY <1>1, <1>3, TroubleMeans DEF Inv
  <2>2. /\ \E where \in Quiet : pc' = [pc EXCEPT ![t] = where]
        /\ UNCHANGED <<my_conn, mutex, res, stmt, arg, queries, fault>>
        /\ \/ UNCHANGED lib
           \/ lib[my_conn].st = "ready" /\ lib' = [lib EXCEPT ![my_conn].st = "lost"]
    BY <1>3 DEF OpenPing, Goto, Quiet
  <2>3. CASE lib[my_conn].st = "ready" /\ lib' = [lib EXCEPT ![my_conn].st = "lost"]
    <3>1. LibWith(lib', my_conn, "lost", lib[my_conn].of, NoThread)
      BY <2>1, <2>3, WithState DEF Inv, Unclosed
    <3>2. lib[my_conn].st \in Unclosed \ {"result"} /\ "lost" \in Unclosed \ {"result"}
      BY <2>3 DEF Unclosed, Open
    <3>3. lib[my_conn].of \in Nat
      BY <2>1, LibTypes DEF Inv
    <3>. QED
      BY <1>1, <2>1, <2>2, <3>1, <3>2, <3>3, QuietStep DEF Inv, TypeOK
  <2>. QED
    BY <1>1, <2>2, <2>3, QuietStep DEF Inv, TypeOK
<1>. QED  BY <1>2, <1>3

\* exec drops the result set of its statement before it lets the mutex go.
LEMMA ExecStep ==
    ASSUME Inv, UNCHANGED setless, NEW t \in Threads, Exec(t)
    PROVE  Inv'
<1>1. /\ fault = "none" /\ pc[t] = "idle" /\ Trouble(lib, my_conn) = "none"
      /\ lib[my_conn].st = "ready" /\ queries' = queries + 1
      /\ lib' = Dropped(Sent(lib, my_conn, "select", queries + 1), my_conn)
      /\ UNCHANGED <<my_conn, mutex, res, stmt, pc, arg, fault>>
  BY DEF Exec, Idle
<1>2. my_conn \in Handles /\ lib[my_conn].reader = NoThread
  BY <1>1, TroubleMeans DEF Inv, TypeOK
<1>3. LibWith(lib', my_conn, "ready", queries + 1, NoThread)
  <2>1. queries + 1 \in Nat
    BY DEF Inv, TypeOK
  <2>. QED
    BY <1>1, <1>2, <2>1 DEF Inv, TypeOK, LibState, LibWith, Sent, Dropped, Unclosed, Open
<1>4. "ready" \in Unclosed \ {"result"} /\ queries + 1 \in Nat
  BY DEF Unclosed, Open, Inv, TypeOK
<1>5. /\ pc' = [pc EXCEPT ![t] = "idle"] /\ "idle" \in Quiet /\ pc[t] \in Quiet
      /\ stmt' \in [conn : MaybeHandle, left : Nat]
  BY <1>1 DEF Inv, TypeOK, Quiet
<1>. QED
  BY <1>1, <1>2, <1>3, <1>4, <1>5, QuietStep

\* prepared_stmt: the calls hold the mutex, and touch a handle only when no result
\* set of a query waits there.
LEMMA StmtStep ==
    ASSUME Inv, UNCHANGED setless, NEW t \in Threads,
           StmtPrepare(t) \/ StmtExecute(t) \/ StmtFetch(t) \/ StmtClose(t)
    PROVE  Inv'
<1>1. /\ fault = "none" /\ pc[t] = "idle" /\ pc[t] \in Quiet /\ Free(t)
      /\ pc = [pc EXCEPT ![t] = "idle"]
  BY DEF StmtPrepare, StmtExecute, StmtFetch, StmtClose, Idle, Quiet, Inv, TypeOK
<1>2. "idle" \in Quiet /\ "ready" \in Unclosed \ {"result"} /\ "stmt" \in Unclosed \ {"result"}
  BY DEF Quiet, Unclosed, Open
<1>3. CASE StmtPrepare(t)
  <2>1. UNCHANGED <<my_conn, lib, mutex, res, pc, arg, queries, fault>>
        /\ stmt' \in [conn : MaybeHandle, left : Nat]
    BY <1>3 DEF StmtPrepare, Inv, TypeOK
  <2>. QED  BY <1>1, <1>2, <2>1, QuietStep
<1>4. CASE stmt.conn # NoHandle
  <2>1. stmt.conn \in Handles /\ lib[stmt.conn].of \in Nat
    BY <1>4, LibTypes DEF Inv, TypeOK, MaybeHandle
  <2>2. CASE Crash("race") /\ lib[stmt.conn].reader # NoThread
    <3>1. lib[stmt.conn].reader \in Threads
      BY <2>1, <2>2, LibTypes DEF Inv
    <3>. QED  BY <1>1, <2>1, <2>2, <3>1, RaceIsUnlocked, CrashStep
  <2>3. ASSUME NEW s \in Unclosed \ {"result"}, lib' = [lib EXCEPT ![stmt.conn].st = s],
               lib[stmt.conn].reader = NoThread, lib[stmt.conn].st \in Unclosed \ {"result"},
               stmt' \in [conn : MaybeHandle, left : Nat],
               UNCHANGED <<my_conn, mutex, res, pc, arg, queries, fault>>
        PROVE  Inv'
    <3>1. LibWith(lib', stmt.conn, s, lib[stmt.conn].of, NoThread)
      BY <2>1, <2>3, WithState DEF Inv
    <3>. QED  BY <1>1, <1>2, <2>1, <2>3, <3>1, QuietStep
  <2>4. ASSUME UNCHANGED <<my_conn, lib, mutex, res, pc, arg, queries, fault>>,
               stmt' \in [conn : MaybeHandle, left : Nat]
        PROVE  Inv'
    BY <1>1, <1>2, <2>4, QuietStep
  <2>5. CASE StmtExecute(t)
    <3>1. [stmt EXCEPT !.left = NRows] \in [conn : MaybeHandle, left : Nat]
      BY ClientAssumption DEF Inv, TypeOK
    <3>. QED
      BY <1>2, <2>2, <2>3, <2>5, <3>1 DEF StmtExecute
  <2>6. CASE StmtFetch(t)
    <3>1. stmt.left # 0 => [stmt EXCEPT !.left = @ - 1] \in [conn : MaybeHandle, left : Nat]
      BY DEF Inv, TypeOK
    <3>2. lib[stmt.conn].st = "stmt" /\ lib[stmt.conn].st \in Unclosed \ {"result"}
      BY <1>2, <2>6 DEF StmtFetch
    <3>3. stmt \in [conn : MaybeHandle, left : Nat]
      BY DEF Inv, TypeOK
    <3>4. CASE lib[stmt.conn].reader # NoThread
      BY <2>2, <2>6, <3>4 DEF StmtFetch
    <3>5. CASE lib[stmt.conn].reader = NoThread
      BY <1>2, <2>3, <2>4, <2>6, <3>1, <3>2, <3>3, <3>5 DEF StmtFetch
    <3>. QED  BY <3>4, <3>5
  <2>7. CASE StmtClose(t)
    <3>1. [conn |-> NoHandle, left |-> 0] \in [conn : MaybeHandle, left : Nat]
      BY DEF MaybeHandle
    <3>2. CASE lib[stmt.conn].reader # NoThread
      BY <2>2, <2>7, <3>2 DEF StmtClose
    <3>3. CASE lib[stmt.conn].reader = NoThread /\ lib[stmt.conn].st = "stmt"
      <4>1. lib' = [lib EXCEPT ![stmt.conn].st = "ready"]
        BY <2>1, <2>7, <3>3 DEF StmtClose, Inv, TypeOK, LibState
      <4>. QED
        BY <1>2, <2>3, <2>7, <3>1, <3>3, <4>1 DEF StmtClose
    <3>4. CASE lib[stmt.conn].reader = NoThread /\ lib[stmt.conn].st # "stmt"
      <4>1. lib' = lib
        BY <2>1, <2>7, <3>4 DEF StmtClose, Inv, TypeOK, LibState
      <4>. QED
        BY <2>4, <2>7, <3>1, <3>4, <4>1 DEF StmtClose
    <3>. QED  BY <3>2, <3>3, <3>4
  <2>. QED  BY <1>3, <1>4, <2>5, <2>6, <2>7
<1>. QED
  BY <1>3, <1>4 DEF StmtExecute, StmtFetch, StmtClose

\* close: the handle goes only if nobody reads from it, and my_conn with it.
LEMMA CloseStep ==
    ASSUME Inv, UNCHANGED setless, NEW t \in Threads, NEW from \in Quiet, NEW to \in Quiet,
           Close(t, from, to)
    PROVE  Inv'
<1>1. fault = "none" /\ pc[t] \in Quiet /\ Free(t)
  BY DEF Close
<1>2. CASE my_conn = NoHandle
  <2>1. UNCHANGED <<my_conn, lib, mutex, res, stmt, arg, queries, fault>>
        /\ pc' = [pc EXCEPT ![t] = to]
    BY <1>2 DEF Close, CloseHandle, Goto
  <2>. QED  BY <1>1, <2>1, QuietStep DEF Inv, TypeOK
<1>3. CASE my_conn # NoHandle /\ lib[my_conn].reader # NoThread
  <2>1. my_conn \in Handles /\ lib[my_conn].reader \in Threads
    BY <1>3, LibTypes DEF Inv, TypeOK, MaybeHandle
  <2>2. Crash("race")
    BY <1>3 DEF Close
  <2>. QED  BY <1>1, <2>1, <2>2, RaceIsUnlocked, CrashStep
<1>4. CASE my_conn # NoHandle /\ lib[my_conn].reader = NoThread
  <2> DEFINE h == my_conn
  <2>1. h \in Handles
    BY <1>4 DEF Inv, TypeOK, MaybeHandle
  <2>2. /\ my_conn' = NoHandle /\ pc' = [pc EXCEPT ![t] = to]
        /\ lib' = [lib EXCEPT ![h] = [st |-> "freed", of |-> 0, reader |-> NoThread]]
        /\ stmt' \in {stmt, [conn |-> NoHandle, left |-> 0]}
        /\ UNCHANGED <<mutex, res, arg, queries, fault>>
    BY <1>4 DEF Close, CloseHandle, Goto
  <2>3. /\ lib' \in [Handles -> LibState] /\ lib'[h].st = "freed" /\ lib'[h].reader = NoThread
        /\ \A g \in Handles : g # h => lib'[g] = lib[g]
    BY <2>1, <2>2 DEF Inv, TypeOK, LibState
  <2>4. /\ pc' \in [Threads -> Places]
        /\ pc'[t] \in Quiet /\ \A u \in Threads : u # t => pc'[u] = pc[u]
    BY <2>2 DEF Inv, TypeOK, Quiet
  <2>5. mutex = NoThread /\ \A u \in Threads : pc[u] \notin {"mquery", "mfetch"}
    BY <1>1, MutexFree
  <2>6. TypeOK'
    <3>1. stmt' \in [conn : MaybeHandle, left : Nat] /\ my_conn' \in MaybeHandle
      BY <2>2 DEF Inv, TypeOK, MaybeHandle
    <3>. QED  BY <2>2, <2>3, <2>4, <3>1 DEF Inv, TypeOK
  <2>7. ObjectsKept'
    BY <2>2, <2>3 DEF Inv, ObjectsKept, IsUnread
  <2>8. MutexKept'
    BY <2>2, <2>4, <2>5, ClientAssumption DEF MutexKept, Quiet
  <2>9. ReadersKept'
    BY <1>1, <1>4, <2>1, <2>2, <2>3, <2>4, <2>5, LibTypes, ClientAssumption
    DEF Inv, ObjectsKept, ReadersKept, Quiet, IsUnread
  <2>10. SetsKept'
    BY <1>1, <2>2, <2>3, <2>4, <2>5 DEF Inv, ObjectsKept, SetsKept, Quiet, IsUnread
  <2>11. WaitingKept'
    BY <2>2, <2>3, <2>4, <2>5 DEF Inv, WaitingKept, Quiet, IsUnread
  <2>12. HandleNotClosed' /\ RowsAreOwn' /\ RaceOnlyUnlocked'
    BY <1>1, <2>2 DEF Inv, HandleNotClosed, RowsAreOwn, RaceOnlyUnlocked
  <2>. QED
    BY <2>6, <2>7, <2>8, <2>9, <2>10, <2>11, <2>12 DEF Inv
<1>. QED  BY <1>2, <1>3, <1>4

\* open: a new handle, connected and taken over, or closed again and not.
LEMMA OpenConnectStep ==
    ASSUME Inv, UNCHANGED setless, NEW t \in Threads, OpenConnect(t)
    PROVE  Inv'
<1>1. fault = "none" /\ pc[t] \in Quiet /\ Free(t)
  BY DEF OpenConnect, Quiet
<1>2. PICK h \in Handles : Connected(h) \/ NotConnected(h)
  BY DEF OpenConnect
<1>3. PICK s \in {"ready", "freed"} :
        /\ lib[h].st = "none" /\ lib' = [lib EXCEPT ![h].st = s]
        /\ \/ s = "ready" /\ my_conn' = h
           \/ s = "freed" /\ my_conn' = NoHandle
  BY <1>2 DEF Connected, NotConnected
<1>4. UNCHANGED <<mutex, res, stmt, arg, queries, fault>> /\ pc' = [pc EXCEPT ![t] = "idle"]
  BY DEF OpenConnect, Goto
<1>5. /\ lib' \in [Handles -> LibState]
      /\ lib'[h].st = s /\ lib'[h].reader = lib[h].reader
      /\ \A g \in Handles : g # h => lib'[g] = lib[g]
  BY <1>3, WithState DEF Inv, LibWith, Unclosed, Open
<1>6. /\ pc' \in [Threads -> Places]
      /\ pc'[t] = "idle" /\ \A u \in Threads : u # t => pc'[u] = pc[u]
  BY <1>4 DEF Inv, TypeOK
<1>7. mutex = NoThread /\ \A u \in Threads : pc[u] \notin {"mquery", "mfetch"}
  BY <1>1, MutexFree
<1>8. lib[h].reader = NoThread /\ \A r \in Results : IsUnread(r) => res[r].conn # h
  BY <1>3 DEF Inv, ReadersKept, ObjectsKept
<1>9. TypeOK'
  <2>1. my_conn' \in MaybeHandle
    BY <1>3 DEF MaybeHandle
  <2>. QED  BY <1>4, <1>5, <1>6, <2>1 DEF Inv, TypeOK
<1>10. ObjectsKept'
  BY <1>4, <1>5, <1>8 DEF Inv, ObjectsKept, IsUnread
<1>11. MutexKept'
  BY <1>4, <1>6, <1>7, ClientAssumption DEF MutexKept
<1>12. ReadersKept'
  BY <1>1, <1>4, <1>5, <1>6, <1>7, <1>8, LibTypes, ClientAssumption
  DEF Inv, ObjectsKept, ReadersKept, Quiet, IsUnread
<1>13. SetsKept'
  BY <1>1, <1>4, <1>5, <1>6, <1>7, <1>8 DEF Inv, ObjectsKept, SetsKept, Quiet, IsUnread
<1>14. WaitingKept'
  BY <1>3, <1>4, <1>5, <1>7 DEF Inv, WaitingKept, IsUnread
<1>15. HandleNotClosed' /\ RowsAreOwn' /\ RaceOnlyUnlocked'
  BY <1>1, <1>3, <1>4, <1>5 DEF Inv, HandleNotClosed, RowsAreOwn, RaceOnlyUnlocked, Open
<1>. QED
  BY <1>9, <1>10, <1>11, <1>12, <1>13, <1>14, <1>15 DEF Inv

\* result::free drops what waits on the connection of a result that was not read,
\* which nobody else reads from, and leaves the other connections alone.
LEMMA AfterFreeMeans ==
    ASSUME Inv, NEW r \in Results, FreeTrouble(r) = "none", NEW L, L = AfterFree(lib, r)
    PROVE  /\ L \in [Handles -> LibState]
           /\ \A g \in Handles :
                /\ L[g].of = lib[g].of /\ L[g].reader = lib[g].reader
                /\ L[g].st = lib[g].st \/ (lib[g].st = "result" /\ L[g].st = "ready")
                /\ IsUnread(r) /\ res[r].conn = g =>
                      lib[g].reader = NoThread /\ L[g].st # "result"
                /\ ~(IsUnread(r) /\ res[r].conn = g) => L[g] = lib[g]
<1>1. CASE IsUnread(r)
  <2> DEFINE h == res[r].conn
  <2>1. h \in Handles /\ Trouble(lib, h) = "none" /\ L = Dropped(lib, h)
    BY <1>1 DEF FreeTrouble, AfterFree, IsUnread, Inv, ObjectsKept
  <2>2. lib[h].reader = NoThread
    BY <2>1, TroubleMeans DEF Inv, MaybeHandle
  <2>3. LibWith(L, h, IF lib[h].st = "result" THEN "ready" ELSE lib[h].st, lib[h].of,
                lib[h].reader)
    BY <2>1, DroppedWith DEF Inv
  <2>. QED  BY <1>1, <2>1, <2>2, <2>3 DEF LibWith
<1>2. CASE ~IsUnread(r)
  BY <1>2 DEF AfterFree, IsUnread, Inv, TypeOK
<1>. QED  BY <1>1, <1>2

\* A move takes all over but num_fields.
LEMMA MovedMeans ==
    ASSUME NEW r, NEW o \in ResObject
    PROVE  /\ Moved(r, o) \in ResObject
           /\ Moved(r, o).state = o.state /\ Moved(r, o).conn = o.conn
           /\ Moved(r, o).of = o.of /\ Moved(r, o).rows = o.rows
<1>1. FALSE \in BOOLEAN
  OBVIOUS
<1>. QED  BY <1>1 DEF Moved, ResObject

\* What free does to the connections keeps what is said of them, whatever the
\* result objects other than r become.
LEMMA FreedConnections ==
    ASSUME Inv, NEW r \in Results, FreeTrouble(r) = "none", lib' = AfterFree(lib, r),
           UNCHANGED <<my_conn, mutex, pc, fault>>
    PROVE  (HandleNotClosed /\ MutexKept)'
<1>1. HandleNotClosed'
  BY AfterFreeMeans DEF Inv, TypeOK, HandleNotClosed, MaybeHandle, Open
<1>2. MutexKept'
  BY DEF Inv, MutexKept
<1>. QED  BY <1>1, <1>2

\* result::free and the destructor.
LEMMA FreeResultStep ==
    ASSUME Inv, UNCHANGED setless, NEW t \in Threads, NEW r \in Results, FreeResult(t, r)
    PROVE  Inv'
<1>1. fault = "none" /\ \A u \in Threads : pc[u] = "fetch" => arg[u] # r
  BY DEF FreeResult, Idle, Owned
<1>2. CASE FreeTrouble(r) # "none"
  <2>1. /\ CrashUnlocked(t, FreeTrouble(r)) /\ pc[t] = "idle"
        /\ FreeTrouble(r) = Trouble(lib, res[r].conn)
    BY <1>2 DEF FreeResult, FreeTrouble, Idle
  <2>2. FreeTrouble(r) \in {"none", "unopened", "freed", "race"}
    BY <2>1, TroubleMeans, ResTypes DEF Inv
  <2>. QED  BY <1>1, <1>2, <2>1, <2>2, CrashUnlockedStep
<1>3. CASE FreeTrouble(r) = "none"
  <2>1. /\ lib' = AfterFree(lib, r) /\ res' = [res EXCEPT ![r] = NoResult]
        /\ UNCHANGED <<my_conn, mutex, stmt, pc, arg, queries, fault>>
    BY <1>3 DEF FreeResult
  <2>2. NoResult \in ResObject /\ NoResult.state = "none" /\ NoResult.conn = NoHandle
    BY DEF NoResult, ResObject, MaybeHandle
  <2>3. /\ res' \in [Results -> ResObject] /\ res'[r] = NoResult
        /\ \A s \in Results : s # r => res'[s] = res[s]
    BY <2>1, <2>2, ResAssigned DEF Inv
  <2>4. TypeOK'
    BY <1>3, <2>1, <2>3, AfterFreeMeans DEF Inv, TypeOK
  <2>5. ObjectsKept'
    BY <1>3, <2>1, <2>2, <2>3, AfterFreeMeans DEF Inv, ObjectsKept, IsUnread
  <2>6. ReadersKept'
    BY <1>1, <1>3, <2>1, <2>2, <2>3, AfterFreeMeans, LibTypes, ClientAssumption
    DEF Inv, ObjectsKept, MutexKept, ReadersKept, IsUnread
  <2>7. SetsKept'
    <3>1. ASSUME NEW s \in Results, IsUnread(s)', (lib[res[s].conn].st # "freed")', ~setless
          PROVE  /\ (lib[res[s].conn].of = res[s].of)'
                 /\ \/ (lib[res[s].conn].st = "result")'
                    \/ \E u \in Threads : (pc[u] = "fetch" /\ arg[u] = s)'
      <4>1. s # r /\ res'[s] = res[s] /\ IsUnread(s) /\ res[s].conn \in Handles
        BY <2>2, <2>3, <3>1 DEF IsUnread, Inv, ObjectsKept
      <4>2. CASE IsUnread(r) /\ res[r].conn = res[s].conn
        <5>1. lib[res[s].conn].st # "freed" /\ lib[res[s].conn].reader = NoThread
          BY <1>3, <2>1, <3>1, <4>1, <4>2, AfterFreeMeans
        <5>2. res[s].of = lib[res[s].conn].of /\ res[r].of = lib[res[s].conn].of
          BY <3>1, <4>1, <4>2, <5>1 DEF Inv, SetsKept
        <5>. QED  BY <4>1, <4>2, <5>2 DEF Inv, ObjectsKept
      <4>3. CASE ~(IsUnread(r) /\ res[r].conn = res[s].conn)
        <5>1. lib'[res[s].conn] = lib[res[s].conn]
          BY <1>3, <2>1, <4>1, <4>3, AfterFreeMeans
        <5>. QED  BY <2>1, <3>1, <4>1, <5>1 DEF Inv, SetsKept
      <4>. QED  BY <4>2, <4>3
    <3>2. ASSUME NEW u \in Threads, NEW s \in Results, (pc[u] = "mquery" /\ IsUnread(s))',
                 ~setless
          PROVE  (res[s].conn # my_conn)'
      BY <2>1, <2>2, <2>3, <3>2 DEF Inv, SetsKept, IsUnread
    <3>. QED  BY <2>1, <3>1, <3>2 DEF SetsKept
  <2>8. WaitingKept'
    BY <1>3, <2>1, <2>2, <2>3, AfterFreeMeans DEF Inv, WaitingKept, IsUnread
  <2>9. RowsAreOwn' /\ RaceOnlyUnlocked'
    BY <1>1, <2>1, <2>2, <2>3 DEF Inv, RowsAreOwn, RaceOnlyUnlocked
  <2>. QED
    BY <1>3, <2>1, <2>4, <2>5, <2>6, <2>7, <2>8, <2>9, FreedConnections DEF Inv
<1>. QED  BY <1>2, <1>3

\* r = std::move(s): r's set is dropped as by free, s's goes over to r.
LEMMA MoveAssignStep ==
    ASSUME Inv, UNCHANGED setless, NEW t \in Threads, NEW r \in Results, NEW s \in Results,
           MoveAssign(t, r, s)
    PROVE  Inv'
<1>1. /\ fault = "none" /\ r # s
      /\ \A u \in Threads : pc[u] = "fetch" => arg[u] # r /\ arg[u] # s
  BY DEF MoveAssign, Idle, Owned
<1>2. CASE FreeTrouble(r) # "none"
  <2>1. /\ CrashUnlocked(t, FreeTrouble(r)) /\ pc[t] = "idle"
        /\ FreeTrouble(r) = Trouble(lib, res[r].conn)
    BY <1>2 DEF MoveAssign, FreeTrouble, Idle
  <2>2. FreeTrouble(r) \in {"none", "unopened", "freed", "race"}
    BY <2>1, TroubleMeans, ResTypes DEF Inv
  <2>. QED  BY <1>1, <1>2, <2>1, <2>2, CrashUnlockedStep
<1>3. CASE FreeTrouble(r) = "none"
  <2>1. /\ lib' = AfterFree(lib, r)
        /\ res' = [res EXCEPT ![r] = Moved(r, res[s]), ![s] = NoResult]
        /\ UNCHANGED <<my_conn, mutex, stmt, pc, arg, queries, fault>>
    BY <1>3 DEF MoveAssign
  <2>2. NoResult \in ResObject /\ NoResult.state = "none" /\ NoResult.conn = NoHandle
    BY DEF NoResult, ResObject, MaybeHandle
  <2>3. /\ Moved(r, res[s]) \in ResObject
        /\ Moved(r, res[s]).state = res[s].state /\ Moved(r, res[s]).conn = res[s].conn
        /\ Moved(r, res[s]).of = res[s].of /\ Moved(r, res[s]).rows = res[s].rows
    BY MovedMeans DEF Inv, TypeOK
  <2>4. /\ res' \in [Results -> ResObject] /\ res'[s] = NoResult
        /\ res'[r].state = res[s].state /\ res'[r].conn = res[s].conn
        /\ res'[r].of = res[s].of /\ res'[r].rows = res[s].rows
        /\ \A q \in Results : q \notin {r, s} => res'[q] = res[q]
    BY <1>1, <2>1, <2>2, <2>3 DEF Inv, TypeOK
  <2>5. TypeOK'
    BY <1>3, <2>1, <2>4, AfterFreeMeans DEF Inv, TypeOK
  <2>6. ObjectsKept'
    BY <1>3, <2>1, <2>2, <2>4, AfterFreeMeans DEF Inv, ObjectsKept, IsUnread
  <2>7. ReadersKept'
    BY <1>1, <1>3, <2>1, <2>2, <2>4, AfterFreeMeans, LibTypes, ClientAssumption
    DEF Inv, ObjectsKept, MutexKept, ReadersKept, IsUnread
  <2>8. SetsKept'
    <3>1. ASSUME NEW p \in Results, IsUnread(p)', (lib[res[p].conn].st # "freed")', ~setless
          PROVE  /\ (lib[res[p].conn].of = res[p].of)'
                 /\ \/ (lib[res[p].conn].st = "result")'
                    \/ \E u \in Threads : (pc[u] = "fetch" /\ arg[u] = p)'
      <4>1. PICK q \in Results : /\ q # r /\ IsUnread(q) /\ res[q].conn \in Handles
                                 /\ res'[p].conn = res[q].conn /\ res'[p].of = res[q].of
                                 /\ p = q \/ q = s
        BY <1>1, <2>2, <2>4, <3>1 DEF IsUnread, Inv, ObjectsKept
      <4>2. CASE IsUnread(r) /\ res[r].conn = res[q].conn
        <5>1. lib[res[q].conn].st # "freed" /\ lib[res[q].conn].reader = NoThread
          BY <1>3, <2>1, <3>1, <4>1, <4>2, AfterFreeMeans
        <5>2. res[q].of = lib[res[q].conn].of /\ res[r].of = lib[res[q].conn].of
          BY <3>1, <4>1, <4>2, <5>1 DEF Inv, SetsKept
        <5>. QED  BY <4>1, <4>2, <5>2 DEF Inv, ObjectsKept
      <4>3. CASE ~(IsUnread(r) /\ res[r].conn = res[q].conn)
        <5>1. lib'[res[q].conn] = lib[res[q].conn]
          BY <1>3, <2>1, <4>1, <4>3, AfterFreeMeans
        <5>. QED  BY <1>1, <2>1, <3>1, <4>1, <5>1 DEF Inv, SetsKept
      <4>. QED  BY <4>2, <4>3
    <3>2. ASSUME NEW u \in Threads, NEW p \in Results, (pc[u] = "mquery" /\ IsUnread(p))',
                 ~setless
          PROVE  (res[p].conn # my_conn)'
      BY <2>1, <2>2, <2>4, <3>2 DEF Inv, SetsKept, IsUnread
    <3>. QED  BY <2>1, <3>1, <3>2 DEF SetsKept
  <2>9. WaitingKept'
    BY <1>3, <2>1, <2>2, <2>4, AfterFreeMeans DEF Inv, WaitingKept, IsUnread
  <2>10. RowsAreOwn' /\ RaceOnlyUnlocked'
    BY <1>1, <2>1, <2>2, <2>4 DEF Inv, RowsAreOwn, RaceOnlyUnlocked
  <2>. QED
    BY <1>3, <2>1, <2>5, <2>6, <2>7, <2>8, <2>9, <2>10, FreedConnections DEF Inv
<1>. QED  BY <1>2, <1>3

\* Sending needs a handle on which nothing waits and from which nobody reads.
LEMMA SendMeans ==
    ASSUME Inv, NEW t \in Threads, NEW kind, Send(t, kind)
    PROVE  /\ fault = "none" /\ pc[t] = "idle" /\ my_conn \in Handles
           /\ mutex = NoThread /\ \A u \in Threads : pc[u] \notin {"mquery", "mfetch"}
           /\ lib[my_conn].st = "ready" /\ lib[my_conn].reader = NoThread
           /\ ~setless => \A r \in Results : IsUnread(r) => res[r].conn # my_conn
           /\ queries' = queries + 1 /\ queries' \in Nat
           /\ LibWith(lib', my_conn, IF kind = "select" THEN "result" ELSE "ready",
                      queries + 1, NoThread)
<1>1. /\ fault = "none" /\ pc[t] = "idle" /\ Free(t) /\ Trouble(lib, my_conn) = "none"
      /\ lib[my_conn].st = "ready" /\ queries' = queries + 1
      /\ lib' = Sent(lib, my_conn, kind, queries + 1)
  BY DEF Send, Idle
<1>2. my_conn \in Handles /\ lib[my_conn].reader = NoThread
  BY <1>1, TroubleMeans DEF Inv, TypeOK
<1>3. mutex = NoThread /\ \A u \in Threads : pc[u] \notin {"mquery", "mfetch"}
  BY <1>1, MutexFree DEF Quiet
<1>4. ~setless => \A r \in Results : IsUnread(r) => res[r].conn # my_conn
  BY <1>1, <1>2, IdleHandleHasNoUnread
<1>5. queries + 1 \in Nat
  BY DEF Inv, TypeOK
<1>6. LibWith(lib', my_conn, IF kind = "select" THEN "result" ELSE "ready", queries + 1,
              NoThread)
  BY <1>1, <1>2, <1>5, SentWith DEF Inv
<1>. QED  BY <1>1, <1>2, <1>3, <1>4, <1>5, <1>6

\* query(): the new result is the only one on its connection whose set waits.
LEMMA QueryStep ==
    ASSUME Inv, NEW t \in Threads, NEW r \in Results, NEW kind \in QueryStmts,
           Query(t, r, kind)
    PROVE  Inv'
<1> DEFINE st == IF kind = "select" THEN "result" ELSE "ready"
           o == Unread(my_conn, queries + 1)
<1>1. /\ Send(t, kind) /\ res[r].state = "none"
      /\ res' = [res EXCEPT ![r] = o] /\ setless' = (setless \/ kind # "select")
      /\ UNCHANGED <<my_conn, mutex, stmt, pc, arg, fault>>
      /\ \A u \in Threads : pc[u] = "fetch" => arg[u] # r
  BY DEF Query, Owned
<1>2. /\ fault = "none" /\ my_conn \in Handles
      /\ \A u \in Threads : pc[u] \notin {"mquery", "mfetch"}
      /\ lib[my_conn].st = "ready" /\ lib[my_conn].reader = NoThread
      /\ ~setless => \A s \in Results : IsUnread(s) => res[s].conn # my_conn
      /\ queries' = queries + 1 /\ queries' \in Nat
  BY <1>1, SendMeans
<1>3. /\ lib' \in [Handles -> LibState]
      /\ lib'[my_conn].st = st /\ lib'[my_conn].of = queries + 1
      /\ lib'[my_conn].reader = NoThread
      /\ \A g \in Handles : g # my_conn => lib'[g] = lib[g]
  BY <1>1, SendMeans DEF LibWith
<1>4. /\ o \in ResObject /\ o.state = "unread" /\ o.conn = my_conn /\ o.of = queries + 1
  <2>1. NoResult \in ResObject
    BY DEF NoResult, ResObject, MaybeHandle
  <2>. QED
    BY <1>2, <2>1 DEF Unread, ResObject, MaybeHandle
<1>5. /\ res' \in [Results -> ResObject] /\ res'[r] = o
      /\ \A s \in Results : s # r => res'[s] = res[s]
  BY <1>1, <1>4, ResAssigned DEF Inv
<1>6. ~setless' => ~setless /\ st = "result"
  BY <1>1
<1>7. st \in {"result", "ready"}
  OBVIOUS
<1> HIDE DEF st, o
<1>8. TypeOK'
  <2>1. setless' \in BOOLEAN
    BY <1>1
  <2>. QED  BY <1>1, <1>2, <1>3, <1>5, <2>1 DEF Inv, TypeOK
<1>9. ObjectsKept'
  BY <1>2, <1>3, <1>4, <1>5, <1>7, ResTypes DEF Inv, TypeOK, ObjectsKept, IsUnread
<1>10. MutexKept' /\ HandleNotClosed'
  BY <1>1, <1>3, <1>7 DEF Inv, MutexKept, HandleNotClosed, Open
<1>11. ReadersKept'
  BY <1>1, <1>2, <1>3, <1>5, LibTypes, ClientAssumption
  DEF Inv, ObjectsKept, ReadersKept, IsUnread
<1>12. SetsKept'
  BY <1>1, <1>2, <1>3, <1>4, <1>5, <1>6 DEF Inv, ObjectsKept, SetsKept, IsUnread
<1>13. WaitingKept'
  BY <1>1, <1>2, <1>3, <1>4, <1>5 DEF Inv, WaitingKept, IsUnread
<1>14. RowsAreOwn' /\ RaceOnlyUnlocked'
  BY <1>1, <1>2, <1>4, <1>5, <1>6 DEF Inv, RowsAreOwn, RaceOnlyUnlocked
<1>. QED
  BY <1>8, <1>9, <1>10, <1>11, <1>12, <1>13, <1>14 DEF Inv

\* mquery takes the mutex with the connection's sets all its own.
LEMMA MqueryBeginStep ==
    ASSUME Inv, UNCHANGED setless, NEW t \in Threads, NEW kind \in QueryStmts,
           MqueryBegin(t, kind)
    PROVE  Inv'
<1> DEFINE st == IF kind = "select" THEN "result" ELSE "ready"
<1>1. /\ Send(t, kind) /\ mutex' = t /\ pc' = [pc EXCEPT ![t] = "mquery"]
      /\ UNCHANGED <<my_conn, res, stmt, arg, fault>>
  BY DEF MqueryBegin, Goto
<1>2. /\ fault = "none" /\ pc[t] = "idle" /\ my_conn \in Handles
      /\ \A u \in Threads : pc[u] \notin {"mquery", "mfetch"}
      /\ lib[my_conn].st = "ready" /\ lib[my_conn].reader = NoThread
      /\ ~setless => \A s \in Results : IsUnread(s) => res[s].conn # my_conn
      /\ queries' = queries + 1 /\ queries' \in Nat
  BY <1>1, SendMeans
<1>3. /\ lib' \in [Handles -> LibState]
      /\ lib'[my_conn].st = st /\ lib'[my_conn].reader = NoThread
      /\ \A g \in Handles : g # my_conn => lib'[g] = lib[g]
  BY <1>1, SendMeans DEF LibWith
<1>4. /\ pc' \in [Threads -> Places]
      /\ pc'[t] = "mquery" /\ \A u \in Threads : u # t => pc'[u] = pc[u]
  BY <1>1 DEF Inv, TypeOK
<1>5. st \in {"result", "ready"}
  OBVIOUS
<1> HIDE DEF st
<1>6. TypeOK'
  BY <1>1, <1>2, <1>3, <1>4 DEF Inv, TypeOK
<1>7. ObjectsKept'
  BY <1>1, <1>2, <1>3, <1>5, ResTypes DEF Inv, TypeOK, ObjectsKept, IsUnread
<1>8. MutexKept' /\ HandleNotClosed'
  BY <1>1, <1>2, <1>3, <1>4, <1>5 DEF MutexKept, HandleNotClosed, Open
<1>9. ReadersKept'
  BY <1>1, <1>2, <1>3, <1>4, LibTypes, ClientAssumption
  DEF Inv, ObjectsKept, ReadersKept, IsUnread
<1>10. SetsKept'
  BY <1>1, <1>2, <1>3, <1>4 DEF Inv, ObjectsKept, SetsKept, IsUnread
<1>11. WaitingKept'
  BY <1>1, <1>2, <1>3, <1>4 DEF Inv, WaitingKept, IsUnread
<1>12. RowsAreOwn' /\ RaceOnlyUnlocked'
  BY <1>1, <1>2 DEF Inv, RowsAreOwn, RaceOnlyUnlocked
<1>. QED
  BY <1>6, <1>7, <1>8, <1>9, <1>10, <1>11, <1>12 DEF Inv

\* What mysql_store_result may fail with.
LEMMA StoreTroubleMeans ==
    ASSUME Inv, NEW h \in MaybeHandle
    PROVE  /\ StoreTrouble(h) \in {"unopened", "freed", "race", "noset"}
           /\ StoreTrouble(h) = "race" => h \in Handles /\ lib[h].reader \in Threads
  BY TroubleMeans DEF StoreTrouble, Inv

\* The assignments of a store that goes through.
LEMMA StoreAssigns ==
    ASSUME Inv, NEW t \in Threads, NEW h \in MaybeHandle, NEW where, NEW r,
           Stored(t, h, where, r)
    PROVE  /\ h \in Handles /\ lib[h].st = "result" /\ lib[h].reader = NoThread
           /\ LibWith(lib', h, "ready", lib[h].of, t)
           /\ pc' = [pc EXCEPT ![t] = where] /\ arg' = [arg EXCEPT ![t] = r]
           /\ UNCHANGED <<my_conn, mutex, res, stmt, queries, fault>>
<1>1. h \in Handles /\ lib[h].st = "result" /\ lib[h].reader = NoThread
  BY TroubleMeans DEF Stored, Inv
<1>2. lib' = [lib EXCEPT ![h].st = "ready", ![h].reader = t]
  BY DEF Stored
<1>3. LibWith(lib', h, "ready", lib[h].of, t)
  BY <1>1, <1>2, WithReader DEF Inv, Unclosed, Open
<1>. QED
  BY <1>1, <1>3 DEF Stored, Goto

\* A result that was not read is asked for something.
LEMMA FetchBeginStep ==
    ASSUME Inv, UNCHANGED setless, NEW t \in Threads, NEW r \in Results, FetchBegin(t, r)
    PROVE  Inv'
<1> DEFINE h == res[r].conn
<1>1. /\ fault = "none" /\ pc[t] = "idle" /\ res[r].state # "read"
      /\ Stored(t, h, "fetch", r) \/ CrashUnlocked(t, StoreTrouble(h))
      /\ \A u \in Threads : pc[u] = "fetch" => arg[u] # r
  BY DEF FetchBegin, Idle, Owned
<1>2. h \in MaybeHandle /\ (h \in Handles => IsUnread(r))
  BY <1>1, ResTypes, ClientAssumption DEF Inv, ObjectsKept, IsUnread
<1>3. CASE CrashUnlocked(t, StoreTrouble(h))
  BY <1>1, <1>2, <1>3, StoreTroubleMeans, CrashUnlockedStep
<1>4. CASE Stored(t, h, "fetch", r)
  <2>0. h \in Handles /\ lib[h].st = "result" /\ lib[h].reader = NoThread
    BY <1>2, <1>4, StoreAssigns
  <2>1. /\ pc' = [pc EXCEPT ![t] = "fetch"] /\ arg' = [arg EXCEPT ![t] = r]
        /\ UNCHANGED <<my_conn, mutex, res, stmt, queries, fault>>
        /\ LibWith(lib', h, "ready", lib[h].of, t)
    BY <1>2, <1>4, StoreAssigns
  <2>2. /\ lib' \in [Handles -> LibState]
        /\ lib'[h].st = "ready" /\ lib'[h].of = lib[h].of /\ lib'[h].reader = t
        /\ \A g \in Handles : g # h => lib'[g] = lib[g]
    BY <2>1 DEF LibWith
  <2>3. /\ pc' \in [Threads -> Places]
        /\ arg' \in [Threads -> Results \cup {AnyResult} \cup Handles]
        /\ pc'[t] = "fetch" /\ arg'[t] = r
        /\ \A u \in Threads : u # t => pc'[u] = pc[u] /\ arg'[u] = arg[u]
    BY <2>1 DEF Inv, TypeOK
  <2>4. IsUnread(r)
    BY <1>2, <2>0
  <2> HIDE DEF h
  <2>5. TypeOK'
    BY <2>1, <2>2, <2>3 DEF Inv, TypeOK
  <2>6. ObjectsKept'
    BY <2>0, <2>1, <2>2 DEF Inv, ObjectsKept, IsUnread
  <2>7. MutexKept'
    BY <1>1, <2>1, <2>3 DEF Inv, MutexKept
  <2>8. HandleNotClosed' /\ RowsAreOwn' /\ RaceOnlyUnlocked'
    BY <1>1, <2>1, <2>2 DEF Inv, TypeOK, HandleNotClosed, RowsAreOwn, RaceOnlyUnlocked,
                            Open, MaybeHandle
  <2>9. ReadersKept'
    BY <1>1, <2>0, <2>1, <2>2, <2>3, <2>4, LibTypes, ClientAssumption
    DEF Inv, ObjectsKept, MutexKept, ReadersKept, IsUnread, h
  <2>10. SetsKept'
    <3>1. ASSUME NEW s \in Results, IsUnread(s)', (lib[res[s].conn].st # "freed")', ~setless
          PROVE  /\ (lib[res[s].conn].of = res[s].of)'
                 /\ \/ (lib[res[s].conn].st = "result")'
                    \/ \E u \in Threads : (pc[u] = "fetch" /\ arg[u] = s)'
      <4>1. IsUnread(s) /\ res'[s] = res[s] /\ res[s].conn \in Handles
        BY <2>1, <3>1 DEF IsUnread, Inv, ObjectsKept
      <4>2. CASE res[s].conn = h
        <5>1. res[s].of = lib[h].of /\ res[r].of = lib[h].of
          BY <2>0, <2>4, <3>1, <4>1, <4>2 DEF Inv, SetsKept, h
        <5>2. s = r
          BY <2>4, <4>1, <5>1 DEF Inv, ObjectsKept
        <5>. QED  BY <2>1, <2>2, <2>3, <4>1, <4>2, <5>1, <5>2
      <4>3. CASE res[s].conn # h
        BY <1>1, <2>1, <2>2, <2>3, <3>1, <4>1, <4>3 DEF Inv, SetsKept
      <4>. QED  BY <4>2, <4>3
    <3>2. ASSUME NEW u \in Threads, NEW s \in Results, (pc[u] = "mquery" /\ IsUnread(s))',
                 ~setless
          PROVE  (res[s].conn # my_conn)'
      BY <2>1, <2>3, <3>2 DEF Inv, SetsKept, IsUnread
    <3>. QED  BY <2>1, <3>1, <3>2 DEF SetsKept
  <2>11. WaitingKept'
    BY <1>1, <2>1, <2>2, <2>3 DEF Inv, WaitingKept, IsUnread
  <2>. QED
    BY <2>5, <2>6, <2>7, <2>8, <2>9, <2>10, <2>11 DEF Inv
<1>. QED  BY <1>1, <1>3, <1>4

\* The rows have been read: they are those of the query the handle was about all
\* the while, since nobody sends on a handle that is being read from.
LEMMA FetchEndStep ==
    ASSUME Inv, UNCHANGED setless, NEW t \in Threads, FetchEnd(t)
    PROVE  Inv'
<1> DEFINE r == arg[t]
           h == res[r].conn
           o == [res[r] EXCEPT !.state = "read", !.rows = lib[h].of, !.fields = TRUE]
<1>1. fault = "none" /\ pc[t] = "fetch"
  BY DEF FetchEnd
<1>2. /\ r \in Results /\ IsUnread(r) /\ h \in Handles
      /\ lib[h].reader = t /\ lib[h].st = "ready"
  BY <1>1, ClientAssumption DEF Inv, ReadersKept, ObjectsKept
<1>3. /\ res' = [res EXCEPT ![r] = o] /\ lib' = [lib EXCEPT ![h].reader = NoThread]
      /\ pc' = [pc EXCEPT ![t] = "idle"] /\ arg' = [arg EXCEPT ![t] = AnyResult]
      /\ UNCHANGED <<my_conn, mutex, stmt, queries, fault>>
  BY DEF FetchEnd, Goto
<1>4. /\ o \in ResObject /\ o.state = "read" /\ o.rows = lib[h].of /\ o.of = res[r].of
      /\ o.conn = h
  <2>1. res[r] \in ResObject /\ lib[h].of \in Nat
    BY <1>2, LibTypes DEF Inv, TypeOK
  <2>2. TRUE \in BOOLEAN
    OBVIOUS
  <2>. QED  BY <2>1, <2>2 DEF ResObject
<1>5. /\ res' \in [Results -> ResObject] /\ res'[r] = o
      /\ \A s \in Results : s # r => res'[s] = res[s]
  BY <1>2, <1>3, <1>4, ResAssigned DEF Inv
<1>6. /\ lib' \in [Handles -> LibState]
      /\ lib'[h].st = lib[h].st /\ lib'[h].of = lib[h].of /\ lib'[h].reader = NoThread
      /\ \A g \in Handles : g # h => lib'[g] = lib[g]
  BY <1>2, <1>3, WithoutReader DEF LibWith, Inv
<1>7. /\ pc' \in [Threads -> Places]
      /\ pc'[t] = "idle" /\ \A u \in Threads : u # t => pc'[u] = pc[u] /\ arg'[u] = arg[u]
      /\ arg' \in [Threads -> Results \cup {AnyResult} \cup Handles]
  BY <1>3 DEF Inv, TypeOK
<1>8. \A u \in Threads : u # t /\ pc[u] = "fetch" => arg[u] # r /\ res[arg[u]].conn # h
  BY <1>1, <1>2 DEF Inv, ReadersKept
<1> HIDE DEF o, h, r
<1>9. TypeOK'
  BY <1>3, <1>5, <1>6, <1>7 DEF Inv, TypeOK
<1>10. ObjectsKept'
  BY <1>3, <1>4, <1>5, <1>6 DEF Inv, ObjectsKept, IsUnread
<1>11. MutexKept'
  BY <1>1, <1>3, <1>7 DEF Inv, MutexKept
<1>12. HandleNotClosed' /\ RaceOnlyUnlocked'
  BY <1>1, <1>2, <1>3, <1>6 DEF Inv, TypeOK, HandleNotClosed, RaceOnlyUnlocked, MaybeHandle
<1>13. ReadersKept'
  BY <1>1, <1>2, <1>3, <1>4, <1>5, <1>6, <1>7, <1>8, LibTypes, ClientAssumption
  DEF Inv, ObjectsKept, MutexKept, ReadersKept, IsUnread
<1>14. SetsKept'
  <2>1. ASSUME NEW s \in Results, IsUnread(s)', (lib[res[s].conn].st # "freed")', ~setless
        PROVE  /\ (lib[res[s].conn].of = res[s].of)'
               /\ \/ (lib[res[s].conn].st = "result")'
                  \/ \E u \in Threads : (pc[u] = "fetch" /\ arg[u] = s)'
    <3>1. s # r /\ IsUnread(s) /\ res'[s] = res[s] /\ res[s].conn \in Handles
      BY <1>4, <1>5, <2>1 DEF IsUnread, Inv, ObjectsKept
    <3>2. lib'[res[s].conn].of = lib[res[s].conn].of /\ lib'[res[s].conn].st = lib[res[s].conn].st
      BY <1>6, <3>1
    <3>. QED
      BY <1>3, <1>7, <2>1, <3>1, <3>2 DEF Inv, SetsKept, r
  <2>2. ASSUME NEW u \in Threads, NEW s \in Results, (pc[u] = "mquery" /\ IsUnread(s))',
               ~setless
        PROVE  (res[s].conn # my_conn)'
    BY <1>3, <1>4, <1>5, <1>7, <2>2 DEF Inv, SetsKept, IsUnread
  <2>. QED  BY <2>1, <2>2 DEF SetsKept
<1>15. WaitingKept'
  BY <1>1, <1>2, <1>3, <1>5, <1>6, <1>7 DEF Inv, WaitingKept, IsUnread, r, h
<1>16. RowsAreOwn'
  <2>1. ~setless => lib[h].of = res[r].of
    BY <1>2 DEF Inv, SetsKept, h
  <2>. QED
    BY <1>4, <1>5, <2>1 DEF Inv, RowsAreOwn
<1>. QED
  BY <1>9, <1>10, <1>11, <1>12, <1>13, <1>14, <1>15, <1>16 DEF Inv

\* mquery takes the set at hand, under the mutex.
LEMMA MqueryFetchStep ==
    ASSUME Inv, UNCHANGED setless, NEW t \in Threads, MqueryFetch(t)
    PROVE  Inv'
<1> DEFINE h == my_conn
<1>1. /\ fault = "none" /\ pc[t] = "mquery" /\ mutex = t /\ h \in Handles
      /\ Stored(t, h, "mfetch", arg[t]) \/ Crash(StoreTrouble(h))
  BY DEF MqueryFetch, Inv, MutexKept
<1>2. lib[h].reader \in Threads => pc[lib[h].reader] \in {"fetch", "raw"}
  BY <1>1, ClientAssumption DEF Inv, ReadersKept, MutexKept
<1>3. CASE Crash(StoreTrouble(h))
  BY <1>1, <1>2, <1>3, StoreTroubleMeans, CrashStep DEF MaybeHandle
<1>4. CASE Stored(t, h, "mfetch", arg[t])
  <2>0. lib[h].st = "result" /\ lib[h].reader = NoThread
    BY <1>1, <1>4, StoreAssigns DEF MaybeHandle
  <2>1. /\ pc' = [pc EXCEPT ![t] = "mfetch"] /\ arg' = [arg EXCEPT ![t] = arg[t]]
        /\ UNCHANGED <<my_conn, mutex, res, stmt, queries, fault>>
        /\ LibWith(lib', h, "ready", lib[h].of, t)
    BY <1>1, <1>4, StoreAssigns DEF MaybeHandle
  <2>2. /\ lib' \in [Handles -> LibState]
        /\ lib'[h].st = "ready" /\ lib'[h].of = lib[h].of /\ lib'[h].reader = t
        /\ \A g \in Handles : g # h => lib'[g] = lib[g]
    BY <2>1 DEF LibWith
  <2>3. /\ pc' \in [Threads -> Places]
        /\ arg' = arg /\ pc'[t] = "mfetch"
        /\ \A u \in Threads : u # t => pc'[u] = pc[u] /\ pc[u] \notin {"mquery", "mfetch"}
    BY <1>1, <2>1 DEF Inv, TypeOK, MutexKept
  <2>4. TypeOK'
    BY <2>1, <2>2, <2>3 DEF Inv, TypeOK
  <2>5. ObjectsKept'
    BY <1>1, <2>1, <2>2 DEF Inv, ObjectsKept, IsUnread
  <2>6. MutexKept'
    BY <1>1, <2>1, <2>3 DEF Inv, MutexKept
  <2>7. HandleNotClosed' /\ RowsAreOwn' /\ RaceOnlyUnlocked'
    BY <1>1, <2>1, <2>2 DEF Inv, HandleNotClosed, RowsAreOwn, RaceOnlyUnlocked, Open
  <2>8. ReadersKept'
    BY <1>1, <2>0, <2>1, <2>2, <2>3, LibTypes, ClientAssumption
    DEF Inv, ObjectsKept, ReadersKept, IsUnread
  <2>9. SetsKept'
    BY <1>1, <2>1, <2>2, <2>3 DEF Inv, ObjectsKept, SetsKept, IsUnread
  <2>10. WaitingKept'
    BY <1>1, <2>1, <2>2, <2>3 DEF Inv, WaitingKept, IsUnread
  <2>. QED
    BY <2>4, <2>5, <2>6, <2>7, <2>8, <2>9, <2>10 DEF Inv
<1>. QED  BY <1>1, <1>3, <1>4

\* mquery hands the rows over, and goes on with the next statement or ends.
LEMMA MqueryPushStep ==
    ASSUME Inv, UNCHANGED setless, NEW t \in Threads, NEW r \in Results,
           NEW kind \in QueryStmts, MqueryPush(t, r, kind)
    PROVE  Inv'
<1> DEFINE h == my_conn
           q == lib[h].of
           done == [lib EXCEPT ![h].reader = NoThread]
           o == [state |-> "read", conn |-> h, of |-> q, rows |-> q, fields |-> FALSE]
<1>1. /\ fault = "none" /\ pc[t] = "mfetch" /\ res[r].state = "none"
      /\ res' = [res EXCEPT ![r] = o] /\ UNCHANGED <<my_conn, stmt, arg, fault>>
  BY DEF MqueryPush
<1>2. /\ h \in Handles /\ mutex = t /\ lib[h].reader = t /\ lib[h].st = "ready" /\ q \in Nat
      /\ \A u \in Threads : u # t => pc[u] \notin {"mquery", "mfetch"}
  BY <1>1, LibTypes, ClientAssumption DEF Inv, MutexKept, ReadersKept
<1>3. o \in ResObject /\ o.state = "read" /\ o.of = q /\ o.rows = q
  <2>1. FALSE \in BOOLEAN
    OBVIOUS
  <2>. QED  BY <1>2, <2>1 DEF ResObject, MaybeHandle
<1>4. /\ res' \in [Results -> ResObject] /\ res'[r] = o
      /\ \A s \in Results : s # r => res'[s] = res[s]
  BY <1>1, <1>3, ResAssigned DEF Inv
<1>5. PICK where \in {"mquery", "idle"}, st \in {"ready", "result"}, of \in Nat :
        /\ pc' = [pc EXCEPT ![t] = where] /\ LibWith(lib', h, st, of, NoThread)
        /\ where = "mquery" => mutex' = t
        /\ where = "idle" => mutex' = NoThread /\ st = "ready"
        /\ queries' \in Nat /\ queries' >= queries
  <2>1. LibWith(done, h, "ready", q, NoThread)
    BY <1>2, WithoutReader DEF Inv
  <2>2. CASE /\ queries' = queries + 1 /\ lib' = Sent(done, h, kind, queries + 1)
             /\ pc' = [pc EXCEPT ![t] = "mquery"] /\ UNCHANGED mutex
    <3>1. queries + 1 \in Nat /\ queries + 1 >= queries
      BY DEF Inv, TypeOK
    <3>2. LibWith(lib', h, IF kind = "select" THEN "result" ELSE "ready", queries + 1, NoThread)
      <4>1. /\ done \in [Handles -> LibState] /\ done[h].reader = NoThread
            /\ \A g \in Handles : g # h => done[g] = lib[g]
        BY <2>1 DEF LibWith
      <4> HIDE DEF done
      <4>. QED
        BY <1>2, <2>2, <3>1, <4>1 DEF LibWith, Sent, LibState, Unclosed, Open
    <3>3. (IF kind = "select" THEN "result" ELSE "ready") \in {"ready", "result"}
      OBVIOUS
    <3>. QED
      BY <1>2, <2>2, <3>1, <3>2, <3>3
  <2>3. CASE /\ lib' = done /\ UNCHANGED queries
             /\ pc' = [pc EXCEPT ![t] = "idle"] /\ mutex' = NoThread
    <3>1. queries' \in Nat /\ queries' >= queries
      BY <2>3 DEF Inv, TypeOK
    <3>. QED  BY <1>2, <2>1, <2>3, <3>1
  <2>. QED
    BY <2>2, <2>3 DEF MqueryPush, Goto
<1>6. /\ lib' \in [Handles -> LibState]
      /\ lib'[h].st = st /\ lib'[h].of = of /\ lib'[h].reader = NoThread
      /\ \A g \in Handles : g # h => lib'[g] = lib[g]
  BY <1>5 DEF LibWith
<1>7. /\ pc' \in [Threads -> Places]
      /\ pc'[t] = where /\ \A u \in Threads : u # t => pc'[u] = pc[u]
  BY <1>5 DEF Inv, TypeOK
<1>8. ~setless => \A s \in Results : IsUnread(s) => res[s].conn # h
  <2> SUFFICES ASSUME ~setless, NEW s \in Results, IsUnread(s), res[s].conn = h
               PROVE  FALSE
    OBVIOUS
  <2>1. PICK u \in Threads : pc[u] = "fetch" /\ arg[u] = s
    BY <1>2 DEF Inv, SetsKept
  <2>2. lib[h].reader = u
    BY <2>1 DEF Inv, ReadersKept
  <2>. QED  BY <1>1, <1>2, <2>1, <2>2
<1> HIDE DEF o, q, done
<1>9. TypeOK'
  <2>1. mutex' \in Threads \cup {NoThread}
    BY <1>5
  <2>. QED  BY <1>1, <1>4, <1>5, <1>6, <1>7, <2>1 DEF Inv, TypeOK
<1>10. ObjectsKept'
  BY <1>2, <1>3, <1>4, <1>5, <1>6, ResTypes DEF Inv, TypeOK, ObjectsKept, IsUnread
<1>11. MutexKept'
  BY <1>1, <1>2, <1>5, <1>7, ClientAssumption DEF Inv, MutexKept
<1>12. HandleNotClosed' /\ RaceOnlyUnlocked'
  BY <1>1, <1>2, <1>6 DEF HandleNotClosed, RaceOnlyUnlocked, Open
<1>13. ReadersKept'
  BY <1>1, <1>2, <1>4, <1>6, <1>7, LibTypes, ClientAssumption
  DEF Inv, ObjectsKept, ReadersKept, IsUnread
<1>14. SetsKept'
  BY <1>1, <1>2, <1>3, <1>4, <1>6, <1>7, <1>8 DEF Inv, ObjectsKept, SetsKept, IsUnread
<1>15. WaitingKept'
  BY <1>1, <1>2, <1>4, <1>5, <1>6, <1>7 DEF Inv, WaitingKept, IsUnread
<1>16. RowsAreOwn'
  BY <1>3, <1>4 DEF Inv, RowsAreOwn
<1>. QED
  BY <1>9, <1>10, <1>11, <1>12, <1>13, <1>14, <1>15, <1>16 DEF Inv

\* A call of the connection without the mutex goes into the library ...
LEMMA RawBeginStep ==
    ASSUME Inv, UNCHANGED setless, NEW t \in Threads, RawBegin(t)
    PROVE  Inv'
<1> DEFINE h == my_conn
<1>1. fault = "none" /\ pc[t] = "idle" /\ h \in MaybeHandle
  BY DEF RawBegin, Idle, Inv, TypeOK
<1>2. CASE Trouble(lib, h) # "none"
  <2>1. CrashUnlocked(t, Trouble(lib, h))
    BY <1>2 DEF RawBegin
  <2>. QED  BY <1>1, <1>2, <2>1, TroubleMeans, CrashUnlockedStep DEF Inv
<1>3. CASE Trouble(lib, h) = "none"
  <2>0. h \in Handles /\ lib[h].reader = NoThread
    BY <1>1, <1>3, TroubleMeans DEF Inv
  <2>1. h \in Handles /\ lib[h].reader = NoThread /\ lib[h].st # "none"
    BY <2>0, ClientAssumption DEF Inv, HandleNotClosed, Open
  <2>2. /\ lib' = [lib EXCEPT ![h].reader = t] /\ pc' = [pc EXCEPT ![t] = "raw"]
        /\ arg' = [arg EXCEPT ![t] = h] /\ UNCHANGED <<my_conn, mutex, res, stmt, queries, fault>>
    BY <1>3 DEF RawBegin, Goto
  <2>3. /\ lib' \in [Handles -> LibState]
        /\ lib'[h].st = lib[h].st /\ lib'[h].of = lib[h].of /\ lib'[h].reader = t
        /\ \A g \in Handles : g # h => lib'[g] = lib[g]
    BY <2>1, <2>2 DEF Inv, TypeOK, LibState
  <2>4. /\ pc' \in [Threads -> Places]
        /\ arg' \in [Threads -> Results \cup {AnyResult} \cup Handles]
        /\ pc'[t] = "raw" /\ arg'[t] = h
        /\ \A u \in Threads : u # t => pc'[u] = pc[u] /\ arg'[u] = arg[u]
    BY <2>1, <2>2 DEF Inv, TypeOK
  <2>. HIDE DEF h
  <2>5. /\ \A g \in Handles : lib'[g].st = lib[g].st /\ lib'[g].of = lib[g].of
        /\ \A u \in Threads : pc'[u] # pc[u] => pc[u] = "idle" /\ pc'[u] = "raw"
    BY <1>1, <2>3, <2>4
  <2>6. TypeOK'
    BY <2>2, <2>3, <2>4 DEF Inv, TypeOK
  <2>7. ObjectsKept' /\ RowsAreOwn'
    BY <2>2, <2>5 DEF Inv, ObjectsKept, RowsAreOwn, IsUnread
  <2>8. MutexKept'
    BY <1>1, <2>2, <2>4 DEF Inv, MutexKept
  <2>9. HandleNotClosed' /\ RaceOnlyUnlocked'
    BY <1>1, <2>2, <2>5 DEF Inv, TypeOK, HandleNotClosed, RaceOnlyUnlocked, MaybeHandle
  <2>10. ReadersKept'
    BY <1>1, <2>1, <2>2, <2>3, <2>4, LibTypes, ClientAssumption
    DEF Inv, TypeOK, ObjectsKept, MutexKept, ReadersKept, IsUnread
  <2>11. SetsKept'
    BY <1>1, <2>2, <2>4, <2>5 DEF Inv, ObjectsKept, SetsKept, IsUnread
  <2>12. WaitingKept'
    BY <1>1, <2>2, <2>4, <2>5 DEF Inv, WaitingKept, IsUnread
  <2>. QED
    BY <2>6, <2>7, <2>8, <2>9, <2>10, <2>11, <2>12 DEF Inv
<1>. QED  BY <1>2, <1>3

\* ... and comes out of it.
LEMMA RawEndStep ==
    ASSUME Inv, UNCHANGED setless, NEW t \in Threads, RawEnd(t)
    PROVE  Inv'
<1> DEFINE h == arg[t]
<1>1. fault = "none" /\ pc[t] = "raw" /\ h \in Handles /\ lib[h].reader = t
  BY DEF RawEnd, Inv, ReadersKept
<1>2. /\ lib' = [lib EXCEPT ![h].reader = NoThread] /\ pc' = [pc EXCEPT ![t] = "idle"]
      /\ arg' = [arg EXCEPT ![t] = AnyResult]
      /\ UNCHANGED <<my_conn, mutex, res, stmt, queries, fault>>
  BY DEF RawEnd, Goto
<1>3. /\ lib' \in [Handles -> LibState]
      /\ lib'[h].st = lib[h].st /\ lib'[h].of = lib[h].of /\ lib'[h].reader = NoThread
      /\ \A g \in Handles : g # h => lib'[g] = lib[g]
  BY <1>1, <1>2, WithoutReader DEF Inv, LibWith
<1>4. /\ pc' \in [Threads -> Places] /\ arg' \in [Threads -> Results \cup {AnyResult} \cup Handles]
      /\ pc'[t] = "idle" /\ \A u \in Threads : u # t => pc'[u] = pc[u] /\ arg'[u] = arg[u]
  BY <1>2 DEF Inv, TypeOK
<1>5. \A g \in Handles : g # h => lib[g].reader # t
  BY <1>1, ClientAssumption DEF Inv, ReadersKept
<1>. HIDE DEF h
<1>6. \A g \in Handles : lib'[g].st = lib[g].st /\ lib'[g].of = lib[g].of
  BY <1>3
<1>7. TypeOK'
  BY <1>2, <1>3, <1>4 DEF Inv, TypeOK
<1>8. ObjectsKept' /\ RowsAreOwn'
  BY <1>2, <1>6 DEF Inv, ObjectsKept, RowsAreOwn, IsUnread
<1>9. MutexKept'
  BY <1>1, <1>2, <1>4 DEF Inv, MutexKept
<1>10. HandleNotClosed' /\ RaceOnlyUnlocked'
  BY <1>1, <1>2, <1>6 DEF Inv, TypeOK, HandleNotClosed, RaceOnlyUnlocked, MaybeHandle
<1>11. ReadersKept'
  BY <1>1, <1>2, <1>3, <1>4, <1>5, LibTypes, ClientAssumption
  DEF Inv, TypeOK, ObjectsKept, MutexKept, ReadersKept, IsUnread
<1>12. SetsKept'
  BY <1>1, <1>2, <1>4, <1>6 DEF Inv, ObjectsKept, SetsKept, IsUnread
<1>13. WaitingKept'
  BY <1>1, <1>2, <1>4, <1>6 DEF Inv, WaitingKept, IsUnread
<1>. QED
  BY <1>7, <1>8, <1>9, <1>10, <1>11, <1>12, <1>13 DEF Inv

\* A command on a handle that is missing, closed or read from.
LEMMA SendBrokenStep ==
    ASSUME Inv, UNCHANGED setless, NEW t \in Threads, SendBroken(t)
    PROVE  Inv'
<1>1. /\ fault = "none" /\ pc[t] \in Quiet /\ Free(t) /\ my_conn \in MaybeHandle
      /\ Trouble(lib, my_conn) # "none" /\ Crash(Trouble(lib, my_conn))
  BY DEF SendBroken, Idle, Quiet, Inv, TypeOK
<1>. QED
  BY <1>1, TroubleMeans, RaceIsUnlocked, CrashStep DEF Inv

----------------------------------------------------------------------------
(* The theorems. *)

\* Every step keeps Inv.
LEMMA NextStep == Inv /\ [Next]_vars => Inv'
<1> SUFFICES ASSUME Inv, [Next]_vars PROVE Inv'
  OBVIOUS
<1>1. CASE UNCHANGED vars
  BY <1>1 DEF vars, Inv, TypeOK, ObjectsKept, MutexKept, ReadersKept, SetsKept, WaitingKept,
              HandleNotClosed, RowsAreOwn, RaceOnlyUnlocked, IsUnread
<1>2. ASSUME NEW t \in Threads, Call(t), UNCHANGED setless PROVE Inv'
  <2>1. ASSUME Close(t, "close", "connect") \/ Close(t, "idle", "idle") PROVE Inv'
    BY <1>2, <2>1, CloseStep DEF Quiet
  <2>2. ASSUME NEW kind \in QueryStmts, MqueryBegin(t, kind) PROVE Inv'
    BY <1>2, <2>2, MqueryBeginStep
  <2>3. ASSUME NEW r \in Results, FreeResult(t, r) \/ FetchBegin(t, r) PROVE Inv'
    BY <1>2, <2>3, FreeResultStep, FetchBeginStep
  <2>4. ASSUME NEW r \in Results, NEW s \in Results, MoveAssign(t, r, s) PROVE Inv'
    BY <1>2, <2>4, MoveAssignStep
  <2>5. ASSUME NEW r \in Results, NEW kind \in QueryStmts, MqueryPush(t, r, kind) PROVE Inv'
    BY <1>2, <2>5, MqueryPushStep
  <2>. QED
    BY <1>2, <2>1, <2>2, <2>3, <2>4, <2>5, OpenCheckStep, OpenPingStep, OpenConnectStep,
       RawBeginStep, RawEndStep, SendBrokenStep, ExecStep, FetchEndStep, MqueryFetchStep, StmtStep
    DEF Call
<1>. QED
  BY <1>1, <1>2, QueryStep DEF Next

\* No connection, no results, nobody at work.
LEMMA InitInv == Init => Inv
<1> SUFFICES ASSUME Init PROVE Inv
  OBVIOUS
<1>1. NoResult \in ResObject /\ NoResult.state = "none" /\ NoResult.conn = NoHandle
  BY DEF NoResult, ResObject, MaybeHandle
<1>2. TypeOK
  <2>1. setless \in BOOLEAN
    BY DEF Init
  <2>2. lib \in [Handles -> LibState]
    BY DEF Init, LibState
  <2>. QED
    BY <1>1, <2>1, <2>2 DEF Init, TypeOK, MaybeHandle
<1>3. ObjectsKept /\ SetsKept /\ RowsAreOwn
  BY <1>1 DEF Init, ObjectsKept, SetsKept, RowsAreOwn, IsUnread
<1>4. MutexKept /\ ReadersKept
  BY ClientAssumption DEF Init, MutexKept, ReadersKept
<1>5. WaitingKept /\ HandleNotClosed /\ RaceOnlyUnlocked
  BY DEF Init, WaitingKept, HandleNotClosed, RaceOnlyUnlocked
<1>. QED  BY <1>2, <1>3, <1>4, <1>5 DEF Inv

\* The inductive invariant: who holds the mutex, who is in a call on a handle and
\* for what, and whose set waits there.
THEOREM ClientInvariant == Spec => []Inv
  BY InitInv, NextStep, PTL DEF Spec

\* However many threads share a connection, a result that was read holds the rows
\* of its own query as long as query() gets statements with a result set, and of
\* two threads that meet on the handle one is in a call without the mutex.
THEOREM ResultsStayApart == Spec => []ResultsKeepApart
<1>1. Inv => ResultsKeepApart
  BY DEF Inv, ResultsKeepApart
<1>. QED  BY <1>1, ClientInvariant, PTL

\* Whatever fails in open, close, query, exec, mquery, fetch and free, my_conn is
\* null or not closed, and no result set is left waiting that nobody will take.
THEOREM ConnectionStaysUsable == Spec => []ConnectionUsable
<1>1. Inv => ConnectionUsable
  BY DEF Inv, WaitingKept, IsUnread, NothingLeftWaiting, ConnectionUsable
<1>. QED  BY <1>1, ClientInvariant, PTL
============================================================================
