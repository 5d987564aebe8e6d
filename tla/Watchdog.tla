------------------------------ MODULE Watchdog ------------------------------
(***************************************************************************)
(* The watchdog console: TestIntarface::start and its function flags       *)
(* (test_interface.h), startWatchdogService, and one watchDogSession       *)
(* thread (test_interface.cpp), which cuts the bytes of a TCP stream into  *)
(* commands for watchDogHandler::inputLine.  Sessions share nothing, so    *)
(* one is enough.                                                          *)
(*                                                                         *)
(* A person types tokens: letters, a line end (CR LF of a telnet client or *)
(* LF of a raw one) and Ctrl + C; the network (external) delivers their    *)
(* bytes in pieces of any size.  A piece that fills the buffer leaves no   *)
(* terminating zero, and the C string appended runs past the array         *)
(* ("overread").  An exception outside the session's try ends the process  *)
(* ("terminate").                                                          *)
(***************************************************************************)
EXTENDS Naturals, Sequences, SequencesExt

CONSTANTS MaxTokens,   \* bound on what is typed
          MaxLength,   \* the size of the session's buffer, 4096 in the code
          LineEnds     \* the line ends typed: <<CR, LF>>, <<LF>>

CR == "CR"
LF == "LF"
CtrlC == "^C"
Tokens == {<<"a">>, <<"b">>, <<CtrlC>>} \cup LineEnds

VARIABLES flags,     \* m_usingFunctions
          starts,    \* the functions asked for, per call of start
          started,   \* the services started
          typed,     \* ghost: all that is typed
          coming,    \* the bytes not read yet
          session,   \* "none", "open", "ended"
          recv_cmd,
          handled,   \* the commands given to inputLine
          closed,    \* calls of watchdogClosedCallback
          split,     \* ghost: a piece ended between CR and LF
          burst,     \* ghost: a piece held more than one line end
          why,       \* how the session ended
          fault

vars == <<flags, starts, started, typed, coming, session, recv_cmd, handled, closed,
          split, burst, why, fault>>
stream == <<typed, coming, session, recv_cmd, handled, closed, split, burst, why>>

----------------------------------------------------------------------------
(* start: the functions are added up as bits. *)

Funcs == {1, 2}   \* wait_keyboardEvent, watchdog
watchdog == 2

\* Mutant: every function has the same value.
FuncValueSame(f) == 2

FuncValue(f) == 2 ^ f

IsUsing(n, f) == (n \div FuncValue(f)) % 2 = 1

\* addUsingFunc, function by function: adds, where a set of bits would be joined.
Added(n, list) == FoldLeft(LAMBDA sum, f : sum + FuncValue(f), n, list)

\* Every function that now counts as used is started, again if it has been.
Start(list) ==
    /\ fault = "none" /\ Len(starts) < 2
    /\ flags' = Added(flags, list)
    /\ started' = started \cup {f \in Funcs : IsUsing(flags', f)}
    /\ starts' = Append(starts, list)
    /\ UNCHANGED <<stream, fault>>

\* startWatchdogService: the thread binds the port, or its constructor throws
\* in a thread that catches nothing; likewise a failed accept.
ServiceThrows ==
    /\ fault = "none" /\ watchdog \in started
    /\ fault' = "terminate"
    /\ UNCHANGED <<flags, starts, started, stream>>

\* A console connects; the greeting is written at once.
Accept ==
    /\ fault = "none" /\ watchdog \in started /\ session = "none"
    /\ session' = "open"
    /\ UNCHANGED <<flags, starts, started, typed, coming, recv_cmd, handled, closed,
                   split, burst, why, fault>>

----------------------------------------------------------------------------
(* watchDogSession: one turn of its loop *)

Has(s, c) == \E i \in 1 .. Len(s) : s[i] = c
Several(s) == \E i, j \in 1 .. Len(s) : i < j /\ s[i] = LF /\ s[j] = LF

\* Mutant: a line end is seen only once something follows it.
FirstEndLate(s) == SelectInSeq(SubSeq(s, 1, Len(s) - 2), LAMBDA c : c \in {CR, LF})

\* find_first_of("\r\n"), counted from 1, 0 if there is none.
FirstEnd(s) == SelectInSeq(s, LAMBDA c : c \in {CR, LF})

\* erase(0, pos + 2): the line end counts as two characters, whatever it is.
Erased(s, pos) == SubSeq(s, pos + 2, Len(s))

\* Mutant: one character too many is erased.
RestEager(s) == SubSeq(s, FirstEnd(s) + 3, Len(s))

\* What stays in recv_cmd after this turn: all of it without a line end, none
\* of it when it begins with one.
Rest(s) == CASE FirstEnd(s) = 0 -> s
             [] FirstEnd(s) = 1 -> << >>
             [] OTHER           -> Erased(s, FirstEnd(s))

\* The command handled in this turn, one at most.
Commands(s) == IF FirstEnd(s) > 1 THEN <<SubSeq(s, 1, FirstEnd(s) - 1)>> ELSE << >>

Open == fault = "none" /\ session = "open"

\* Mutant: Ctrl + C ends the session without the callback.
ToldOnCtrlCNever == 0

\* Calls of watchdogClosedCallback when Ctrl + C ends the session.
ToldOnCtrlC == 1

\* Ctrl + C closes the session if it is read alone, and is a character of the
\* command otherwise (Read).
ReadCtrlC ==
    /\ Open /\ coming # << >> /\ Head(coming) = CtrlC
    /\ coming' = Tail(coming)
    /\ session' = "ended" /\ closed' = closed + ToldOnCtrlC /\ why' = "ctrl"
    /\ UNCHANGED <<flags, starts, started, typed, recv_cmd, handled, split, burst,
                   fault>>

\* n bytes are read, appended and looked through for one line end.
Read(n) ==
    /\ Open /\ n \in 1 .. Len(coming) /\ n <= MaxLength
    /\ LET piece == SubSeq(coming, 1, n)
           text == recv_cmd \o piece
       IN /\ ~(n = 1 /\ piece[1] = CtrlC)
          /\ coming' = SubSeq(coming, n + 1, Len(coming))
          /\ fault' = IF n = MaxLength THEN "overread" ELSE "none"
          /\ recv_cmd' = Rest(text)
          /\ handled' = handled \o Commands(text)
          /\ split' = (split \/ (Last(piece) = CR))
          /\ burst' = (burst \/ Several(piece))
    /\ UNCHANGED <<flags, starts, started, typed, session, closed, why>>

\* The console closes its side.
ReadEof ==
    /\ Open /\ coming = << >>
    /\ session' = "ended" /\ closed' = closed + 1 /\ why' = "eof"
    /\ UNCHANGED <<flags, starts, started, typed, coming, recv_cmd, handled, split, burst,
                   fault>>

\* A read or a write fails: caught, logged, and the callback is not called.
SessionThrows ==
    /\ Open /\ session' = "ended" /\ why' = "error"
    /\ UNCHANGED <<flags, starts, started, typed, coming, recv_cmd, handled, closed,
                   split, burst, fault>>

----------------------------------------------------------------------------
Init ==
    /\ flags = 0 /\ starts = << >> /\ started = {}
    /\ \E n \in 0 .. MaxTokens : \E s \in [1 .. n -> Tokens] : typed = FlattenSeq(s)
    /\ coming = typed /\ session = "none" /\ recv_cmd = << >> /\ handled = << >>
    /\ closed = 0 /\ split = FALSE /\ burst = FALSE /\ why = "no"
    /\ fault = "none"

Next ==
    \/ \E list \in {<<1>>, <<2>>, <<1, 2>>} : Start(list)
    \/ ServiceThrows \/ Accept
    \/ ReadCtrlC \/ ReadEof \/ SessionThrows
    \/ \E n \in 1 .. MaxLength : Read(n)

Spec == Init /\ [][Next]_vars

----------------------------------------------------------------------------
\* The functions one call of start asks for are the ones started (a second call
\* adds to the same number, and may start another function).
AskedAreStarted == Len(starts) = 1 => started = ToSet(starts[1])

\* Lines ended by CR LF, none of them empty.
Clean == /\ \A i \in 1 .. Len(typed) : typed[i] = LF => i > 2 /\ typed[i - 1] = CR
         /\ \A i \in 1 .. Len(typed) : typed[i] = CR => i > 1 /\ typed[i - 1] # LF

\* A telnet console loses nothing: the commands handled, the text waiting and
\* the bytes to come are what was typed, as long as no piece of the stream
\* ends between CR and LF (then the LF alone counts as an empty line, and
\* everything received with it is dropped).
NothingLost ==
    (Clean /\ ~split /\ fault = "none" /\ why # "ctrl") =>
        FlattenSeq([i \in 1 .. Len(handled) |-> handled[i] \o <<CR, LF>>])
            \o recv_cmd \o coming = typed

\* A complete command waits for the next bytes only if a piece brought more
\* than one: each turn of the loop handles one.
NoLagWithoutBurst ==
    (Clean /\ ~split /\ ~burst /\ fault = "none") => ~Has(recv_cmd, LF)

\* watchdogClosedCallback is called once for every session that ends, except
\* when it ends with an error.
ClosedToldUnlessError ==
    closed = IF session = "ended" /\ why # "error" THEN 1 ELSE 0

\* The console serves who typed: what was asked for is started, every command is
\* handled, without waiting and without loss, and the end is told, but for the
\* cases named.
ConsoleServes ==
    AskedAreStarted /\ NothingLost /\ NoLagWithoutBurst /\ ClosedToldUnlessError
=============================================================================
