------------------------------ MODULE MySqlBind ------------------------------
(***************************************************************************)
(* The variables bound to a prepared statement (mysql+++.h: my_bind,       *)
(* mysql_bind_set, prepared_stmt::execute and fetch).  The statement has   *)
(* one parameter and one column of each kind of binding.  A value is 0     *)
(* (the number 0, the empty string) or one of 1 .. MaxVal, which is what a *)
(* number variable's type has room for; a column of numbers holds up to    *)
(* MaxColumn.  An optional may hold none; a string may be damaged (resized *)
(* by pre_fetch to one character, or by post_fetch to zeros).              *)
(*                                                                         *)
(* The client library (external) reads a MYSQL_BIND: without an is_null    *)
(* pointer a parameter is never NULL, and a NULL column leaves the buffer  *)
(* as it was.  A number too large for the bound type is stored without its *)
(* high bits, and the fetch answers MYSQL_DATA_TRUNCATED instead of 0.     *)
(* The model stops at a wrapper that was never set ("null").               *)
(***************************************************************************)
EXTENDS Integers

CONSTANTS MaxVal,     \* the largest number of a variable's type
          MaxColumn,  \* the largest number of a column
          NRows       \* rows of an execution

VARIABLES pvar, rvar,     \* the bound variables of the parameters and the columns
          pbound, rbound, \* how many wrappers have been set
          pdata,          \* my_optional_number_bind::pdata of the parameter
          left,           \* rows not fetched, -1 before an execute
          ret,            \* what the last execute or fetch returned
          sent,           \* the parameters the server got, if the last call was execute
          past,           \* ghost: the numbers the optional held at an execute
          row,            \* the row of the last call, if that was fetch
          fault

vars == <<pvar, rvar, pbound, rbound, pdata, left, ret, sent, past, row, fault>>
params == <<pvar, pbound, pdata, past>>
columns == <<rvar, rbound>>

Wrappers == 1 .. 4   \* one of each class, in the order they are bound
number == 1
optnumber == 2
string == 3
optstring == 4
Optionals == {optnumber, optstring}
Strings == {string, optstring}

Null == -1   \* SQL NULL
Val(x) == [has |-> TRUE, v |-> x, damaged |-> FALSE]
Unset == [has |-> FALSE, v |-> 0, damaged |-> FALSE]
Damaged == [has |-> TRUE, v |-> 0, damaged |-> TRUE]

Held(k) == {Val(x) : x \in 0 .. MaxVal} \cup (IF k \in Optionals THEN {Unset} ELSE {})
Numbers == {Null} \cup 0 .. MaxColumn
Texts == {Null} \cup 0 .. MaxVal
Rows == {<<n, o, s, t>> : n \in Numbers, o \in Numbers, s \in Texts, t \in Texts}
Nothing == << >>

----------------------------------------------------------------------------
\* The caller assigns a parameter variable.
SetParam(k, x) ==
    /\ fault = "none" /\ pvar' = [pvar EXCEPT ![k] = x]
    /\ sent' = Nothing /\ row' = Nothing
    /\ UNCHANGED <<columns, pbound, pdata, left, ret, past, fault>>

\* bind_param and bind_result set the wrappers of the first n variables; a
\* new wrapper is value-initialised.  One variable too many throws out_of_range
\* when the others are set.
Bound(n, before) == IF n > 4 THEN 4 ELSE IF n > before THEN n ELSE before

BindParam(n) ==
    /\ fault = "none"
    /\ pbound' = Bound(n, pbound)
    /\ pdata' = IF n >= optnumber THEN 0 ELSE pdata
    /\ past' = IF n >= optnumber THEN {} ELSE past
    /\ sent' = Nothing /\ row' = Nothing
    /\ UNCHANGED <<columns, pvar, left, ret, fault>>

BindResult(n) ==
    /\ fault = "none"
    /\ rbound' = Bound(n, rbound)
    /\ sent' = Nothing /\ row' = Nothing
    /\ UNCHANGED <<params, rvar, left, ret, fault>>

----------------------------------------------------------------------------
(* execute *)

\* my_optional_number_bind::pre_execute copies a value, and keeps the one
\* before when the optional is empty.
NextPData == IF pvar[optnumber].has THEN pvar[optnumber].v ELSE pdata

\* Mutant: the parameter of an empty optional string has no is_null pointer.
ParamSentNoNull(k) == IF k = optnumber THEN NextPData ELSE pvar[k].v

\* What the server gets: is_null is set for strings only, so an empty optional
\* number is sent as whatever pdata holds.
ParamSent(k) ==
    CASE k = optnumber                   -> NextPData
      [] k # optnumber /\ ~pvar[k].has   -> Null
      [] OTHER                           -> pvar[k].v

Execute ==
    /\ fault = "none" /\ pbound = 4
    /\ pdata' = NextPData
    /\ sent' = [k \in Wrappers |-> ParamSent(k)]
    /\ row' = Nothing
    /\ past' = IF pvar[optnumber].has THEN past \cup {pvar[optnumber].v} ELSE past
    /\ left' = NRows /\ ret' = TRUE
    /\ UNCHANGED <<columns, pvar, pbound, fault>>

\* mysql_stmt_bind_param fails, and the rows of an earlier execution stay, or
\* mysql_stmt_execute does.
ExecuteFails ==
    /\ fault = "none" /\ pbound = 4
    /\ pdata' = NextPData
    /\ past' = IF pvar[optnumber].has THEN past \cup {pvar[optnumber].v} ELSE past
    /\ left' \in {-1, left} /\ ret' = FALSE
    /\ sent' = Nothing /\ row' = Nothing
    /\ UNCHANGED <<columns, pvar, pbound, fault>>

\* A wrapper that was never set is called.
Unbound ==
    /\ fault = "none" /\ (pbound < 4 \/ (rbound < 4 /\ left >= 0))
    /\ fault' = "null"
    /\ UNCHANGED <<params, columns, left, ret, sent, row>>

----------------------------------------------------------------------------
(* fetch *)

\* pre_fetch: strings are resized to one character to have a buffer; an
\* optional string is given one.
PreFetch == [k \in Wrappers |-> IF k \in Strings THEN Damaged ELSE rvar[k]]

\* What the library stores of the number x in a variable of the bound type.
Narrowed(x) == x % (MaxVal + 1)

\* Mutant: post_fetch does not reset an optional for a NULL column.
ColumnStoredStale(k, x) ==
    IF x = Null THEN (IF k = string THEN Val(0) ELSE rvar[k]) ELSE Val(Narrowed(x))

\* post_fetch and the refetch of a column with the value x; a plain number has
\* no is_null pointer and keeps what it was.
StoredNumber(x) == IF x = Null THEN rvar[number] ELSE Val(Narrowed(x))
StoredString(x) == IF x = Null THEN Val(0) ELSE Val(x)
StoredOptNumber(x) == IF x = Null THEN Unset ELSE Val(Narrowed(x))
StoredOptString(x) == IF x = Null THEN Unset ELSE Val(x)

ColumnStored(k, x) ==
    CASE k = number    -> StoredNumber(x)
      [] k = string    -> StoredString(x)
      [] k = optnumber -> StoredOptNumber(x)
      [] OTHER         -> StoredOptString(x)

\* The columns of row r; the refetch fails at the string column bad, if not 0,
\* and leaves that and the later ones resized.
PostFetch(r, bad) ==
    [k \in Wrappers |-> IF bad # 0 /\ k >= bad /\ k \in Strings /\ r[k] > 0
                     THEN Damaged ELSE ColumnStored(k, r[k])]

\* A row, whether or not a column was truncated: mysql_stmt_fetch_column is called
\* again for strings that are not empty; when it fails for column bad the call
\* gives up there.
Fetch(bad) ==
    /\ fault = "none" /\ rbound = 4 /\ left > 0
    /\ \E r \in Rows :
          /\ bad # 0 => r[bad] > 0
          /\ rvar' = PostFetch(r, bad)
          /\ row' = r
    /\ left' = left - 1 /\ ret' = (bad = 0)
    /\ sent' = Nothing
    /\ UNCHANGED <<params, rbound, fault>>

\* Mutant: pre_fetch gives every optional a value to read into.
FetchEndFilled ==
    /\ fault = "none" /\ rbound = 4
    /\ rvar' = [k \in Wrappers |-> IF k \in Strings THEN Damaged ELSE Val(0)]
    /\ ret' = FALSE /\ sent' = Nothing /\ row' = Nothing
    /\ UNCHANGED <<params, rbound, left, fault>>

\* No row, no executed statement, or an error: the preparation has happened all
\* the same.
FetchEnd ==
    /\ fault = "none" /\ rbound = 4
    /\ rvar' = PreFetch
    /\ ret' = FALSE /\ sent' = Nothing /\ row' = Nothing
    /\ UNCHANGED <<params, rbound, left, fault>>

----------------------------------------------------------------------------
Init ==
    /\ pvar = [k \in Wrappers |-> IF k \in Optionals THEN Unset ELSE Val(0)]
    /\ rvar = pvar
    /\ pbound = 0 /\ rbound = 0 /\ pdata = 0
    /\ left = -1 /\ ret = FALSE
    /\ sent = Nothing /\ row = Nothing /\ past = {}
    /\ fault = "none"

Next ==
    \/ \E k \in Wrappers : \E x \in Held(k) : SetParam(k, x)
    \/ \E n \in {1, 4, 5} : BindParam(n) \/ BindResult(n)
    \/ Execute \/ ExecuteFails \/ Unbound \/ FetchEnd
    \/ \E bad \in {0} \cup Strings : Fetch(bad)

Spec == Init /\ [][Next]_vars

----------------------------------------------------------------------------
\* What execute sends is what the variables held, NULL for an empty optional
\* string; but an empty optional number is never sent as NULL: the server gets
\* 0 or a number of an earlier execute of the same binding.
ParamsAsHeld ==
    sent # Nothing =>
        /\ \A k \in Wrappers : pvar[k].has => sent[k] = pvar[k].v
        /\ ~pvar[optstring].has => sent[optstring] = Null
        /\ ~pvar[optnumber].has => sent[optnumber] \in past \cup {0}

\* v is what is left of a number x that the variable's type has no room for.
Truncated(x, v) == x > MaxVal /\ v \in 0 .. MaxVal /\ (v - x) % (MaxVal + 1) = 0

\* After a fetch that returned true the variables show the row and nothing of
\* the row before it; only a plain number keeps its old value for a NULL, and a
\* number wider than its variable is there without its high bits, though fetch
\* returned true.
RowIntoVariables ==
    (ret' /\ row' # Nothing /\ left' # left) =>
        \A k \in Wrappers :
           \/ row'[k] # Null /\ rvar'[k] = Val(row'[k])
           \/ k \notin Strings /\ Truncated(row'[k], rvar'[k].v) /\ rvar'[k] = Val(rvar'[k].v)
           \/ row'[k] = Null /\ k \in Optionals /\ ~rvar'[k].has
           \/ row'[k] = Null /\ k = string /\ rvar'[k] = Val(0)
           \/ row'[k] = Null /\ k = number /\ rvar'[k] = rvar[k]

\* The fetch that finds the end, or an error, leaves the numbers of the last row
\* and damages every string, an empty optional string too, which holds a value
\* afterwards.
EndDamagesOnlyStrings ==
    (~ret' /\ left' = left /\ rvar' # rvar) =>
        \A k \in Wrappers : rvar'[k] = IF k \in Strings THEN Damaged ELSE rvar[k]

\* Values pass between the bound variables and the server as prepared_stmt
\* promises, from execute to execute and from row to row, but for the four
\* exceptions named: empty optional numbers, plain numbers at a NULL, numbers too
\* wide for their variable, strings after the end.
VariablesFollow == [][ParamsAsHeld' /\ RowIntoVariables /\ EndDamagesOnlyStrings]_vars
=============================================================================
