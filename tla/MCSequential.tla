---------------------------- MODULE MCSequential ----------------------------
(***************************************************************************)
(* The components that one thread uses at a time, checked side by side:     *)
(* the ODBC consumer (SqlConsumer), the rows of a MySQL result (MySqlRows), *)
(* the variables bound to a statement (MySqlBind), the text of a query      *)
(* (MySqlFormat) and a console session (Watchdog).  They share nothing:     *)
(* every behaviour is one of one component, the others stay where they      *)
(* start.                                                                   *)
(***************************************************************************)
EXTENDS SqlConsumer, Sequences

CONSTANTS IntW, LongW, RealW, Types, Magnitudes, MaxRows, MaxSeen,   \* of MySqlRows
          MaxVal, MaxColumn, NRows,                           \* of MySqlBind
          FirstSize, MaxText,                                 \* of MySqlFormat
          MaxTokens, MaxPiece                                 \* of Watchdog

\* An int is not wider than a long; that a power of 2 is a number, and one a
\* multiple of the other, are consequences that the provers do not find.
ASSUME WidthAssumption ==
    /\ IntW \in Nat \ {0} /\ LongW \in Nat \ {0} /\ IntW <= LongW
    /\ 2 ^ IntW \in Nat \ {0} /\ 2 ^ LongW \in Nat \ {0}
    /\ (2 ^ LongW) % (2 ^ IntW) = 0
    /\ RealW \in Nat /\ 2 ^ RealW \in Nat

\* The numbers stay where a float has at least every other half.
ASSUME ReadersAssumption ==
    /\ MaxRows \in Nat /\ MaxSeen \in Nat /\ Magnitudes \subseteq Nat
    /\ \A m \in Magnitudes : 2 * m + 1 <= 2 * 2 ^ RealW
    /\ MaxVal \in Nat /\ MaxColumn \in Nat /\ NRows \in Nat
    /\ FirstSize \in Nat \ {0} /\ MaxText \in Nat
    /\ MaxTokens \in Nat /\ MaxPiece \in Nat

VARIABLES
  part,                                                    \* the component at work
  rows, cur, type, plain, opt, fresh, it, each, seen, touched, rowsFault,
  pvar, rvar, pbound, rbound, pdata, left, ret, sent, past, row, bindFault,
  whole, args, round, size, text,
  flags, starts, started, typed, coming, session, recv_cmd, handled, closed,
  split, burst, why, consoleFault

R == INSTANCE MySqlRows WITH fault <- rowsFault
B == INSTANCE MySqlBind WITH fault <- bindFault
F == INSTANCE MySqlFormat WITH Start <- FirstSize, MaxLength <- MaxText
W == INSTANCE Watchdog WITH
       MaxLength <- MaxPiece, LineEnds <- {<<"CR", "LF">>, <<"LF">>},
       fault <- consoleFault

sqlVars     == vars
rowsVars    == <<rows, cur, type, plain, opt, fresh, it, each, seen, touched, rowsFault>>
bindVars    == <<pvar, rvar, pbound, rbound, pdata, left, ret, sent, past, row, bindFault>>
textVars    == <<whole, args, round, size, text>>
consoleVars == <<flags, starts, started, typed, coming, session, recv_cmd, handled, closed,
                 split, burst, why, consoleFault>>

allVars == <<part, sqlVars, rowsVars, bindVars, textVars, consoleVars>>

\* Two rows are read as int and differ little, one is read as every type and
\* holds every number; what follows a number is read as int, float and string.
RowsInit ==
  /\ R!Init
  /\ Len(rows) = 2 => type = "int" /\ \A k \in 1 .. 2 :
       rows[k] \in {R!Empty, R!Number(2, "none"), R!Number(-2, "none")}
  /\ (\E k \in 1 .. Len(rows) : rows[k].tail # "none") => type \in {"int", "real", "string"}

RowsIdle    == rows = <<>> /\ type = "int" /\ R!Init
FormatIdle  == whole = 0 /\ args = "none" /\ F!Init
ConsoleIdle == typed = <<>> /\ W!Init

MCInit ==
  /\ Init /\ B!Init
  /\ part \in {"consumer", "rows", "bind", "format", "console"}
  /\ IF part = "rows"    THEN RowsInit ELSE RowsIdle
  /\ IF part = "format"  THEN F!Init   ELSE FormatIdle
  /\ IF part = "console" THEN W!Init   ELSE ConsoleIdle

Consumer == /\ part = "consumer" /\ Next
            /\ UNCHANGED <<part, rowsVars, bindVars, textVars, consoleVars>>
Rows     == /\ part = "rows" /\ R!Next
            /\ UNCHANGED <<part, sqlVars, bindVars, textVars, consoleVars>>
Bindings == /\ part = "bind" /\ B!Next
            /\ UNCHANGED <<part, sqlVars, rowsVars, textVars, consoleVars>>
Text     == /\ part = "format" /\ F!Next
            /\ UNCHANGED <<part, sqlVars, rowsVars, bindVars, consoleVars>>
Console  == /\ part = "console" /\ W!Next
            /\ UNCHANGED <<part, sqlVars, rowsVars, bindVars, textVars>>

MCNext == Consumer \/ Rows \/ Bindings \/ Text \/ Console

MCSpec == MCInit /\ [][MCNext]_allVars

----------------------------------------------------------------------------
(* What the run checks, beside ConsumerKeepsUp of SqlConsumer. *)

\* mysql+++ hands over what it is given: format_string a text of less than 256
\* characters whole, and a result its rows to every reader, each field as far as
\* the reader's type can hold it (MySqlFormat, MySqlRows).
TextAndRowsWhole == F!WholeText /\ R!ReadersKeepApart

\* prepared_stmt: values pass between the bound variables and the server as they
\* are, execute by execute and row by row, but in the cases named (MySqlBind).
VariablesFollow == B!VariablesFollow

\* watchDogSession loses, delays and forgets nothing but in the cases named
\* (Watchdog).
ConsoleServes == W!ConsoleServes
=============================================================================
