---------------------------- MODULE SqlConsumer ----------------------------
(***************************************************************************)
(* MLN::MSSQL::DBConsumer and DBConnection (src/net/mssqlConsumer.cpp):    *)
(* the ODBC environment that Open and Close keep, and one consumer object, *)
(* constructed and destroyed again and again: its connection, statement,   *)
(* bound columns, indicators and result sets.                              *)
(*                                                                         *)
(* The driver (external) refuses a statement while a cursor is open        *)
(* (24000), answers SQL_INVALID_HANDLE, which is not SQL_ERROR, to a null  *)
(* handle, and does not free a handle that is connected or in use.  A      *)
(* value is left out; what is kept is which column an indicator tells of.  *)
(***************************************************************************)
EXTENDS Integers

CONSTANTS Kinds,      \* the kinds of variable a program binds
          MaxCols,    \* columns of a result set
          MaxConns,   \* bound on the connections made
          MaxSets     \* result sets of a statement

ASSUME ConsumerAssumption ==
    /\ {"int", "char"} \subseteq Kinds
    /\ Kinds \subseteq {"int", "char", "byte", "bigint", "float", "time"}
    /\ MaxCols \in Nat \ {0} /\ MaxConns \in Nat /\ MaxSets \in Nat \ {0}

VARIABLES henv,      \* g_henv is not null
          envs,      \* environment handles that exist
          conns,     \* connections that exist
          con,       \* the consumer: "none", "live", or "dead" without a statement
          link,      \* "up" or "lost": the network under the consumer's connection
          cursor,    \* the driver's: [open, cols, more]
          bound,     \* bound columns and the kind of their variable
          nBind,     \* m_nBind
          columns,   \* m_resultColumns
          ind,       \* the column each indicator was last written for
          last,      \* the last call on the consumer, what it returned, what it was answered
          shutdown   \* shutdownFunc has been called

env == <<henv, envs>>
stmt == <<cursor, bound, nBind, columns, ind>>
vars == <<env, conns, con, link, stmt, last, shutdown>>

\* Mutant: strings share the indicator of integers.
IndicatorShared(k) == IF k \in {"int", "char"} THEN "cbInt" ELSE "nInd"

\* The one indicator variable that all columns of a kind share.
Indicator(k) == CASE k = "int" -> "cbInt"       [] k = "char"  -> "cbChar"
                  [] k = "byte" -> "cbByte"     [] k = "bigint" -> "cbBigint"
                  [] k = "float" -> "nInd"      [] OTHER -> "cbTime"

NoCursor == [open |-> FALSE, cols |-> 0, more |-> 0]
NoIndicator == [i \in {Indicator(k) : k \in Kinds} |-> 0]
Call(name, returned, answer) == [call |-> name, ret |-> returned, answer |-> answer]

----------------------------------------------------------------------------
(* Open and Close *)

\* Open without an environment or a connection handle.  The test of the
\* environment's return code can not be true, so that the call goes on with a
\* null environment, every later call answers SQL_INVALID_HANDLE, and Open
\* reports success; a missing connection handle is noticed.
OpenNoHandle ==
    /\ henv' = FALSE
    /\ UNCHANGED <<envs, conns, con, link, stmt, last, shutdown>>

\* Open: connects, trying for ever, and frees the handle without having
\* disconnected it, which the driver refuses.
OpenConnects ==
    /\ conns < MaxConns
    /\ henv' = TRUE /\ envs' = envs + 1
    /\ conns' = conns + 1
    /\ UNCHANGED <<con, link, stmt, last, shutdown>>

\* Close: an environment with connections is not freed, but forgotten.
Close ==
    /\ henv /\ henv' = FALSE
    /\ envs' = IF conns = 0 THEN envs - 1 ELSE envs
    /\ UNCHANGED <<conns, con, link, stmt, last, shutdown>>

----------------------------------------------------------------------------
(* The constructors and the destructor *)

NewConsumer(state) ==
    /\ con = "none" /\ con' = state
    /\ link' = "up"
    /\ cursor' = NoCursor /\ bound' = [c \in {} |-> "int"]
    /\ nBind' = 0 /\ ind' = NoIndicator /\ columns' \in {0, MaxCols}
    /\ last' = Call("new", FALSE, "none")

\* DBConnection connects and allocates the statement.
Construct ==
    /\ NewConsumer("live")
    /\ henv /\ conns < MaxConns
    /\ conns' = conns + 1
    /\ UNCHANGED <<env, shutdown>>

\* The connect fails: shutdownFunc, no handle is left.
ConstructNoConnect ==
    /\ NewConsumer("dead")
    /\ henv /\ shutdown' = TRUE
    /\ UNCHANGED <<env, conns>>

\* There is no connection handle, which nobody is told: without an environment
\* every call answers SQL_INVALID_HANDLE, which goes unnoticed, and with one the
\* handle could not be allocated, which is logged.
ConstructNoHandle ==
    /\ NewConsumer("dead")
    /\ UNCHANGED <<env, conns, shutdown>>

\* The statement can not be allocated: the connection is freed while it is
\* connected, which the driver refuses, and forgotten.
ConstructNoStmt ==
    /\ NewConsumer("dead")
    /\ henv /\ conns < MaxConns
    /\ conns' = conns + 1
    /\ UNCHANGED <<env, shutdown>>

\* The destructor: the statement is unbound and closed, the DBConnection
\* stays behind.
Destruct ==
    /\ con # "none" /\ con' = "none"
    /\ cursor' = NoCursor /\ bound' = [c \in {} |-> "int"]
    /\ last' = Call("delete", TRUE, "none")
    /\ UNCHANGED <<env, conns, link, nBind, columns, ind, shutdown>>

----------------------------------------------------------------------------
(* Execute, ExecuteInsertUnique, ExecuteNoData *)

Executes == {"Execute", "InsertUnique", "NoData"}

\* The outcomes of SQLExecDirect on the statement.  A driver that misses its
\* server says so with 08S01 in the first record, or with another state of that
\* class, a timeout or any other error.
Outcomes == CASE con = "dead"   -> {"invalid"}
              [] con = "live" /\ cursor.open   -> {"24000"}
              [] con = "live" /\ ~cursor.open /\ link = "lost" -> {"08S01", "error"}
              [] OTHER -> {"success", "info", "no_data", "23000", "error"}

\* The statement ran: a result set waits unless it has no columns.
Ran(out) == out \in {"success", "info"}

\* Mutant: a lost connection is only logged.
ReportsLossSilently(out) == FALSE

\* 08S01 calls shutdownFunc.
ReportsLoss(out) == out = "08S01"

\* What last keeps of the outcome.
Answer(out) == IF out = "08S01" THEN out ELSE "other"

\* A statement longer than the buffer is refused before it is sent.
TooLong(name) ==
    /\ con # "none" /\ last' = Call(name, FALSE, "none")
    /\ UNCHANGED <<env, conns, con, link, stmt, shutdown>>

\* The statement is sent: what all three calls do with the outcome.
Send(out, cols, more) ==
    /\ con # "none" /\ out \in Outcomes
    /\ Ran(out) \/ (cols = 0 /\ more = 0)
    /\ cursor' = IF Ran(out) THEN [open |-> cols > 0, cols |-> cols, more |-> more]
                 ELSE cursor
    /\ shutdown' = (shutdown \/ ReportsLoss(out))
    /\ UNCHANGED <<env, conns, con, link, bound, nBind, ind>>

\* Execute alone asks for the number of columns, which may fail; a statement
\* that ran with a message is a failure.
Execute(out, cols, more) ==
    /\ Send(out, cols, more)
    /\ \/ out = "success" /\ columns' = cols /\ last' = Call("Execute", TRUE, Answer(out))
       \/ UNCHANGED columns /\ last' = Call("Execute", FALSE, Answer(out))

\* ExecuteInsertUnique tells a duplicate key from an error.
ExecuteInsertUnique(out, cols, more) ==
    /\ Send(out, cols, more) /\ UNCHANGED columns
    /\ last' = Call("InsertUnique", out \in {"success", "23000"}, Answer(out))

ExecuteNoData(out, cols, more) ==
    /\ Send(out, cols, more) /\ UNCHANGED columns
    /\ last' = Call("NoData", out = "success", Answer(out))

\* The server or the network goes away.
LinkLost ==
    /\ con = "live" /\ link' = "lost"
    /\ last' = Call("lost", FALSE, "none")
    /\ UNCHANGED <<env, conns, con, stmt, shutdown>>

----------------------------------------------------------------------------
(* Bind, Skip, UnBind, Reset *)

Bound(b, col, k) ==
    IF con = "live" THEN [c \in DOMAIN b \cup {col} |-> IF c = col THEN k ELSE b[c]] ELSE b

Bind(k) ==
    /\ con # "none" /\ nBind <= MaxCols
    /\ nBind' = nBind + 1
    /\ bound' = Bound(bound, nBind + 1, k)
    /\ last' = Call("Bind", TRUE, "none")
    /\ UNCHANGED <<env, conns, con, link, cursor, columns, ind, shutdown>>

Skip ==
    /\ con # "none" /\ nBind <= MaxCols
    /\ nBind' = nBind + 1
    /\ last' = Call("Skip", TRUE, "none")
    /\ UNCHANGED <<env, conns, con, link, cursor, bound, columns, ind, shutdown>>

\* Mutant: the columns stay bound, only the counter starts again.
UnboundKept == bound

Unbound == [c \in {} |-> "int"]

UnBind ==
    /\ con # "none" /\ nBind' = 0 /\ bound' = Unbound
    /\ last' = Call("UnBind", TRUE, "none")
    /\ UNCHANGED <<env, conns, con, link, cursor, columns, ind, shutdown>>

Reset ==
    /\ con # "none" /\ nBind' = 0 /\ bound' = Unbound /\ cursor' = NoCursor
    /\ last' = Call("Reset", TRUE, "none")
    /\ UNCHANGED <<env, conns, con, link, columns, ind, shutdown>>

----------------------------------------------------------------------------
(* Fetch, FetchResultCode, MoreResults *)

\* The indicators after a row: the columns are written in their order, so the
\* last column of a kind decides.
Written(b) ==
    [i \in DOMAIN ind |->
        LET of == {c \in DOMAIN b : c <= cursor.cols /\ Indicator(b[c]) = i}
        IN IF of = {} THEN ind[i] ELSE CHOOSE c \in of : \A d \in of : d <= c]

\* A row, with the columns of b bound.
FetchRow(name, b) ==
    /\ con = "live" /\ cursor.open /\ link = "up"
    /\ ind' = Written(b)
    /\ last' = Call(name, TRUE, "none")

\* No row, no cursor, an error: a lost connection is not reported here.
FetchNone(name) ==
    /\ last' = Call(name, FALSE, "none")
    /\ UNCHANGED ind

Fetch ==
    /\ con # "none"
    /\ FetchRow("Fetch", bound) \/ FetchNone("Fetch")
    /\ UNCHANGED <<env, conns, con, link, cursor, bound, nBind, columns, shutdown>>

\* FetchResultCode binds an int and a string and fetches.
FetchResultCode ==
    /\ con # "none" /\ nBind < MaxCols
    /\ nBind' = nBind + 2
    /\ bound' = Bound(Bound(bound, nBind + 1, "int"), nBind + 2, "char")
    /\ FetchRow("Fetch", bound') \/ FetchNone("Fetch")
    /\ UNCHANGED <<env, conns, con, link, cursor, columns, shutdown>>

\* Mutant: the number of columns is not asked for again.
ColumnsKept(cols) == columns

ColumnsOf(cols) == cols

\* MoreResults: unbinds in any case; the next result set (false all the same
\* when the driver has a message or does not tell the columns), or no more and
\* the cursor is closed.
MoreResults ==
    /\ con # "none" /\ nBind' = 0 /\ bound' = Unbound
    /\ \/ /\ con = "live" /\ link = "up" /\ cursor.more > 0
          /\ \E cols \in 0 .. MaxCols :
                /\ cursor' = [open |-> cols > 0, cols |-> cols, more |-> cursor.more - 1]
                /\ \/ columns' = ColumnsOf(cols) /\ last' = Call("MoreResults", TRUE, "none")
                   \/ UNCHANGED columns /\ last' = Call("MoreResults", FALSE, "none")
       \/ /\ cursor' = IF cursor.more > 0 THEN cursor ELSE NoCursor
          /\ cursor.more = 0 \/ link = "lost"
          /\ last' = Call("MoreResults", FALSE, "none") /\ UNCHANGED columns
    /\ UNCHANGED <<env, conns, con, link, ind, shutdown>>

----------------------------------------------------------------------------
Init ==
    /\ henv = FALSE /\ envs = 0 /\ conns = 0
    /\ con = "none" /\ link = "up"
    /\ cursor = NoCursor /\ bound = [c \in {} |-> "int"] /\ nBind = 0
    /\ columns = 0 /\ ind = NoIndicator
    /\ last = Call("none", FALSE, "none") /\ shutdown = FALSE

Next ==
    \/ OpenNoHandle \/ OpenConnects \/ Close
    \/ Construct \/ ConstructNoConnect \/ ConstructNoHandle \/ ConstructNoStmt \/ Destruct
    \/ \E name \in Executes : TooLong(name)
    \/ \E out \in Outcomes, cols \in 0 .. MaxCols, more \in 0 .. MaxSets - 1 :
          \/ Execute(out, cols, more) \/ ExecuteInsertUnique(out, cols, more)
          \/ ExecuteNoData(out, cols, more)
    \/ \E k \in Kinds : Bind(k)
    \/ Skip \/ UnBind \/ Reset \/ Fetch \/ FetchResultCode \/ MoreResults \/ LinkLost

Spec == Init /\ [][Next]_vars

----------------------------------------------------------------------------
\* The driver writes through no binding that m_nBind does not count: after a
\* Reset, an UnBind or a MoreResults nothing of the columns bound before is left.
BindingsCounted == DOMAIN bound \subseteq 1 .. nBind

\* A row tells of each kind of column only its last one: the indicator shows
\* the last bound column of the kind, never one of another kind.
IndicatorOfLastColumn ==
    (last.call = "Fetch" /\ last.ret) =>
        \A c \in DOMAIN bound : c <= cursor.cols =>
            \E d \in DOMAIN bound : /\ d >= c /\ bound[d] = bound[c]
                                    /\ ind[Indicator(bound[c])] = d

\* After Execute or MoreResults returned true, m_resultColumns is the number of
\* columns of the result set at hand.
ColumnsKnown ==
    (last.call \in {"Execute", "MoreResults"} /\ last.ret) => columns = cursor.cols

\* A statement sent over a lost connection fails and makes the application shut
\* down, whichever of the three calls sends it, unless a cursor was left open,
\* since the driver then refuses the statement before it needs the network, or
\* the driver names the loss by anything but 08S01.
LossIsTold ==
    (last.call \in Executes /\ last.answer # "none" /\ con = "live" /\ link = "lost") =>
        ~last.ret /\ (shutdown \/ cursor.open \/ last.answer # "08S01")

\* What a consumer's calls leave behind is in step with the statement at hand: its
\* counted bindings, the indicators after a row, the column count after a call
\* that asked for it, the loss of the connection.  (Execute keeps the bindings
\* made before it, and the other two calls the column count.)
ConsumerKeepsUp == BindingsCounted /\ IndicatorOfLastColumn /\ ColumnsKnown /\ LossIsTold
=============================================================================
