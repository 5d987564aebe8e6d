----------------------------- MODULE MySqlFormat -----------------------------
(***************************************************************************)
(* format_string_vargs of mysql+++.h, which makes the text of every query, *)
(* mquery, exec and prepared_stmt with printf-style substitutions: it      *)
(* formats into a buffer of 256 characters and again into a larger one.    *)
(* A text is its length; Start scales the 256.  vsnprintf (external)       *)
(* writes at most size - 1 characters and returns the length of the whole  *)
(* text, or -1 when a character has no encoding.  A va_list is used up by  *)
(* the first call: a second call with the same one formats whatever lies   *)
(* behind the arguments (undefined behaviour), a text of any length.       *)
(***************************************************************************)
EXTENDS Integers

CONSTANTS Start,      \* the first buffer size, 256 in the code
          MaxLength   \* bound on the length of a text and on the buffer

VARIABLES whole,    \* the length of the text with its substitutions
          args,     \* what the substitutions are: "none", "some", "unencodable"
          round,    \* calls of vsnprintf so far
          size,     \* the buffer's
          text      \* the length and the source of the text returned

vars == <<whole, args, round, size, text>>

\* What this call of vsnprintf formats: the text, or garbage.
Formatted ==
    CASE args = "unencodable" -> {[len |-> -1, right |-> FALSE]}
      [] args = "none" \/ (args = "some" /\ round = 0) -> {[len |-> whole, right |-> TRUE]}
      [] OTHER -> {[len |-> n, right |-> FALSE] : n \in 0 .. MaxLength}

Grown(needed) == IF needed > 0 THEN needed + 1 ELSE size * 2

\* Mutant: the text is taken although it did not fit.
FitsAlways(needed) == TRUE

\* needed <= (int)size: one too many, the terminator takes the last place.
Fits(needed) == needed <= size /\ needed >= 0

\* One turn of the loop.
Format ==
    /\ text.len = MaxLength + 1 /\ size <= 2 * MaxLength
    /\ \E t \in Formatted :
          IF Fits(t.len)
          THEN /\ text' = [t EXCEPT !.len = IF t.len < size THEN t.len ELSE size - 1]
               /\ UNCHANGED size
          ELSE size' = Grown(t.len) /\ UNCHANGED text
    /\ round' = round + 1
    /\ UNCHANGED <<whole, args>>

Init ==
    /\ whole \in 0 .. MaxLength /\ args \in {"none", "some", "unencodable"}
    /\ round = 0 /\ size = Start
    /\ text = [len |-> MaxLength + 1, right |-> FALSE]

Next == Format

Spec == Init /\ [][Next]_vars

----------------------------------------------------------------------------
\* format_string_vargs has returned.
Done == text.len # MaxLength + 1

\* The text returned is the whole text with its substitutions ("execute query
\* with printf-style substitutions", mysql+++.h:881).
SubstitutedWhole ==
    (Done /\ args # "unencodable") => text = [len |-> whole, right |-> TRUE]

\* The text fills the first buffer but for the place of its terminator, which the
\* test of line 79 counts as room.
FillsBuffer == whole = Start

\* That holds of a text that fits the first buffer, and without arguments of one
\* that does not; but not of one that just fills the buffer, whose last character
\* is lost, nor of a longer one with arguments.
WholeText ==
    /\ args = "none" \/ (args = "some" /\ whole <= Start)
    /\ ~FillsBuffer
    => SubstitutedWhole
=============================================================================
