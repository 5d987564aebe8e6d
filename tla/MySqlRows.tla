------------------------------ MODULE MySqlRows ------------------------------
(***************************************************************************)
(* A result of daotk::mysql that has been read (mysql+++.h): its cursor    *)
(* current_row_itr, the get_value family that converts a field, fetch      *)
(* into caller variables, each(), and the iterators of as_container(),     *)
(* which all move the one cursor of the result.                            *)
(*                                                                         *)
(* A row has one field: empty (SQL NULL is stored as an empty string), a   *)
(* word, or the digits of a number n and what follows them: nothing, a     *)
(* fraction of one half ("62.5") or other text ("1981-07-18").  Int and    *)
(* long have IntW and LongW bits, a float RealW bits of precision; that a  *)
(* number is out of a float's range is left out.  The model stops at a     *)
(* fault: the cursor moved out of the rows, which vector iterators do not  *)
(* check.                                                                  *)
(***************************************************************************)
EXTENDS Integers, Sequences

CONSTANTS IntW, LongW,   \* widths of int and long
          RealW,         \* bits of precision of a float
          Types,         \* the types fields are read as
          Magnitudes,    \* of the numbers a field may hold
          MaxRows,
          MaxSeen        \* bound on the rows each() visits

Empty == [kind |-> "empty", n |-> 0, tail |-> "none"]
Word  == [kind |-> "word", n |-> 0, tail |-> "none"]
Number(n, t) == [kind |-> "number", n |-> n, tail |-> t]

Tails == {"none", "half", "text"}

Cells == {Empty, Word} \cup {Number(m, t) : m \in Magnitudes, t \in Tails}
                       \cup {Number(-m, t) : m \in Magnitudes, t \in Tails}

VARIABLES rows,    \* result::rows
          cur,     \* current_row_itr - rows.begin()
          type,    \* the type the caller reads the field as
          plain,   \* the caller's variable of that type
          opt,     \* the caller's optional of that type
          fresh,   \* ghost: "reset", then "read": opt reset and read at this row
          it,      \* two iterators: row_index and the cached data
          each,    \* where each() is: "idle", "loop", "callback", "eof", "break"
          seen,    \* the rows and the values each() gave its callback
          touched, \* ghost: the callback has moved the cursor
          fault

vars == <<rows, cur, type, plain, opt, fresh, it, each, seen, touched, fault>>

None == [has |-> FALSE, v |-> 0]
Some(x) == [has |-> TRUE, v |-> x]

----------------------------------------------------------------------------
(* get_value: std::stoi and its kin, a failure is caught and reported. *)

FitsSigned(n, w) == -(2 ^ (w - 1)) <= n /\ n < 2 ^ (w - 1)

\* stoul takes a sign: the magnitude must fit, the value wraps.
FitsUnsigned(n) == -(2 ^ LongW) < n /\ n < 2 ^ LongW

\* What stof reads of the text, in halves: the digits and the fraction.
Halves(c) == 2 * c.n + (IF c.tail # "half" THEN 0 ELSE IF c.n < 0 THEN -1 ELSE 1)

\* A float of m halves.  Up to 2^RealW it has them all; above that they are two
\* apart, and an odd number of them becomes the neighbour with the even mantissa.
Rounded(m) ==
    IF (-(2 ^ RealW) <= m /\ m <= 2 ^ RealW) \/ m % 2 = 0 THEN m
    ELSE IF m % 4 = 1 THEN m - 1 ELSE m + 1

\* The whole text, a number for each.
TextOf(c) ==
    4 * c.n + CASE c.kind = "word"   -> 3
                [] c.tail = "half"   -> 1
                [] c.tail = "text"   -> 2
                [] OTHER             -> 0

\* Mutant: int is read with stol and narrowed, as unsigned int is.
ReadableNarrowed(ty, c) == c.kind = "number" \/ (c.kind = "word" /\ ty = "string")

\* The text of a field can be read as a value of type ty: it starts with a number
\* that fits, whatever follows the number.
Readable(ty, c) ==
    /\ c.kind # "empty"
    /\ c.kind = "word" => ty = "string"
    /\ CASE ty \in {"bool", "int"}   -> FitsSigned(c.n, IntW)
         [] ty = "long"              -> FitsSigned(c.n, LongW)
         [] ty \in {"uint", "ulong"} -> FitsUnsigned(c.n)
         [] OTHER                    -> TRUE

\* The value it is read as: that of the digits it starts with; an unsigned int is
\* a narrowed unsigned long, a float takes the fraction too (counted in halves).
ValueOf(ty, c) ==
    CASE ty = "bool"  -> IF c.n = 0 THEN 0 ELSE 1
      [] ty = "uint"  -> (c.n % 2 ^ LongW) % 2 ^ IntW
      [] ty = "ulong" -> c.n % 2 ^ LongW
      [] ty = "real"  -> Rounded(Halves(c))
      [] ty \in {"int", "long"} -> c.n
      [] OTHER        -> TextOf(c)

\* get_field_data: past the last row there is no data.
CellAt(i) == IF i < Len(rows) THEN rows[i + 1] ELSE Empty

\* get_value into a variable: what it holds afterwards.
GetValue(i, old) == IF Readable(type, CellAt(i)) THEN ValueOf(type, CellAt(i)) ELSE old

\* Mutant: an optional takes the value whether or not the field could be read.
GetOptionalAlways(i, old) == Some(GetValue(i, 0))

\* get_value into an optional: an unreadable field leaves it as it was.
GetOptional(i, old) ==
    IF Readable(type, CellAt(i)) THEN Some(ValueOf(type, CellAt(i))) ELSE old

----------------------------------------------------------------------------
(* The cursor: seek, reset, next, prev. *)

\* The cursor moves to i, inside each()'s callback or outside it.
MoveTo(i) ==
    /\ cur' = i
    /\ fault' = IF i \in 0 .. Len(rows) THEN "none" ELSE "range"
    /\ fresh' = IF i = cur THEN fresh ELSE "no"
    /\ touched' = (touched \/ (each = "callback" /\ i # cur))

User == fault = "none" /\ each # "loop"

Seek(i) == User /\ MoveTo(i) /\ UNCHANGED <<rows, type, plain, opt, it, each, seen>>
Step(d) == User /\ MoveTo(cur + d) /\ UNCHANGED <<rows, type, plain, opt, it, each, seen>>

\* fetch(values...), get_value(value): into a plain variable ...
FetchPlain ==
    /\ User /\ plain' = GetValue(cur, plain)
    /\ UNCHANGED <<rows, cur, type, opt, fresh, it, each, seen, touched, fault>>

\* ... and into an optional.
FetchOpt ==
    /\ User /\ opt' = GetOptional(cur, opt)
    /\ fresh' = IF fresh = "reset" THEN "read" ELSE fresh
    /\ UNCHANGED <<rows, cur, type, plain, it, each, seen, touched, fault>>

\* The caller's weight.reset() before each row.
ResetOpt ==
    /\ User /\ opt' = None /\ fresh' = "reset"
    /\ UNCHANGED <<rows, cur, type, plain, it, each, seen, touched, fault>>

----------------------------------------------------------------------------
(* result_iterator *)

NoData == [set |-> FALSE, plain |-> 0, opt |-> None]

\* A new tuple, value-initialised, filled from row i.
TupleOf(i) == [set |-> TRUE, plain |-> GetValue(i, 0), opt |-> GetOptional(i, None)]

\* Mutant: set_index keeps the cached tuple.
SetIndexKeeping(x, i) == [x EXCEPT !.at = i]

\* set_index drops the tuple that was cached for the row before.
SetIndex(x, i) == [at |-> i, data |-> NoData]

\* ++, --, += and -=; + and - make a new iterator without data.
ItMove(k, i) ==
    /\ User /\ it' = [it EXCEPT ![k] = SetIndex(it[k], i)]
    /\ UNCHANGED <<rows, cur, type, plain, opt, fresh, each, seen, touched, fault>>

\* Copy and assignment share the tuple.
ItCopy(k, j) ==
    /\ User /\ it' = [it EXCEPT ![k] = it[j]]
    /\ UNCHANGED <<rows, cur, type, plain, opt, fresh, each, seen, touched, fault>>

\* * and ->: without data, seek the result's cursor and read the row.
ItDeref(k) ==
    /\ User /\ ~it[k].data.set
    /\ MoveTo(it[k].at)
    /\ it' = [it EXCEPT ![k].data = TupleOf(it[k].at)]
    /\ UNCHANGED <<rows, type, plain, opt, each, seen>>

----------------------------------------------------------------------------
(* each(): reset, then the callback for every row until it returns false. *)

EachBegin ==
    /\ fault = "none" /\ each \in {"idle", "eof", "break"}
    /\ each' = "loop" /\ cur' = 0 /\ seen' = << >> /\ touched' = FALSE
    /\ fresh' = IF cur = 0 THEN fresh ELSE "no"
    /\ UNCHANGED <<rows, type, plain, opt, it, fault>>

\* bind_and_call: the argument is an uninitialised variable for get_value, so
\* an unreadable field gives the callback an arbitrary value.
EachCall ==
    /\ fault = "none" /\ each = "loop" /\ cur < Len(rows) /\ Len(seen) < MaxSeen
    /\ \E garbage \in {-1, 7} :
          seen' = Append(seen, [row |-> cur, v |-> GetValue(cur, garbage)])
    /\ each' = "callback"
    /\ UNCHANGED <<rows, cur, type, plain, opt, fresh, it, touched, fault>>

EachEof ==
    /\ fault = "none" /\ each = "loop" /\ cur = Len(rows)
    /\ each' = "eof"
    /\ UNCHANGED <<rows, cur, type, plain, opt, fresh, it, seen, touched, fault>>

EachBreak ==
    /\ fault = "none" /\ each = "callback" /\ each' = "break"
    /\ UNCHANGED <<rows, cur, type, plain, opt, fresh, it, seen, touched, fault>>

\* Mutant: each forgets to move on when the field could not be read.
EachNextStuck ==
    /\ fault = "none" /\ each = "callback" /\ each' = "loop"
    /\ cur' = IF Readable(type, CellAt(cur)) THEN cur + 1 ELSE cur
    /\ fault' = IF cur' <= Len(rows) THEN "none" ELSE "range"
    /\ fresh' = "no"
    /\ UNCHANGED <<rows, type, plain, opt, it, seen, touched>>

EachNext ==
    /\ fault = "none" /\ each = "callback" /\ each' = "loop"
    /\ cur' = cur + 1
    /\ fault' = IF cur' <= Len(rows) THEN "none" ELSE "range"
    /\ fresh' = "no"
    /\ UNCHANGED <<rows, type, plain, opt, it, seen, touched>>

----------------------------------------------------------------------------
Init ==
    /\ rows \in UNION {[1 .. n -> Cells] : n \in 0 .. MaxRows}
    /\ type \in Types
    /\ cur = 0 /\ plain = 0 /\ opt = None /\ fresh = "no"
    /\ it = [k \in 1 .. 2 |-> [at |-> 0, data |-> NoData]]
    /\ each = "idle" /\ seen = << >> /\ touched = FALSE
    /\ fault = "none"

Next ==
    \/ \E i \in 0 .. MaxRows : Seek(i)
    \/ \E d \in {-1, 1} : Step(d)
    \/ FetchPlain \/ FetchOpt \/ ResetOpt
    \/ \E k \in 1 .. 2 : ItDeref(k) \/ \E i \in 0 .. MaxRows : ItMove(k, i)
    \/ ItCopy(1, 2)
    \/ EachBegin \/ EachCall \/ EachEof \/ EachBreak \/ EachNext

Spec == Init /\ [][Next]_vars

----------------------------------------------------------------------------
\* What an iterator shows is its own row, read into a new tuple, however the
\* iterator, its copies and the result's cursor were moved in between.
IteratorShowsItsRow ==
    fault = "none" => \A k \in 1 .. 2 : it[k].data.set => it[k].data = TupleOf(it[k].at)

\* v is the field c as a variable of the type holds it.  A string is all of the
\* text, a float its number, to the nearest that the type has.  An integer is the
\* number before anything else in the text, and nothing tells that something is
\* left of it: 62.54 is read as 62, a date as its year.  That number is read as it
\* is where the type has room for it; for the unsigned types alone v is only
\* congruent to it.
Exact(c, v) ==
    CASE type = "bool" -> (v = 0) = (c.n = 0)
      [] type = "int"  -> v = c.n /\ FitsSigned(c.n, IntW)
      [] type = "long" -> v = c.n /\ FitsSigned(c.n, LongW)
      [] type \in {"uint", "ulong"} -> v >= 0 /\ (v - c.n) % 2 ^ IntW = 0
      [] type = "real" -> IF -(2 ^ RealW) <= Halves(c) /\ Halves(c) <= 2 ^ RealW
                          THEN v = Halves(c)
                          ELSE v % 2 = 0 /\ v - Halves(c) \in {-1, 0, 1}
      [] OTHER -> v = TextOf(c)

\* each() gives its callback the rows in order, each once, all of them unless
\* the callback stops it, and never leaves them, as long as the callback leaves
\* the cursor alone (an iterator dereferenced in it already moves it); a field
\* that get_value accepts is given as far as its type can hold it (Exact).
EachInOrder ==
    (~touched /\ each \in {"loop", "callback", "eof"}) =>
        /\ each = "loop" => fault = "none"
        /\ \A k \in 1 .. Len(seen) :
              /\ seen[k].row = k - 1
              /\ Readable(type, rows[k]) => Exact(rows[k], seen[k].v)
        /\ each = "eof" => Len(seen) = Len(rows)

\* An optional that the caller resets before reading a row tells whether the
\* row has a value: nothing of an earlier row stays in it.
OptionalOfThisRow ==
    (fresh = "read" /\ fault = "none") =>
        opt = IF Readable(type, CellAt(cur)) THEN Some(ValueOf(type, CellAt(cur))) ELSE None

\* The three readers of a result, iterators, each() and fetch, share one cursor
\* and move it under each other; each still shows the rows that are its own.
ReadersKeepApart == IteratorShowsItsRow /\ EachInOrder /\ OptionalOfThisRow
=============================================================================
