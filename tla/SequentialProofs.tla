-------------------------- MODULE SequentialProofs --------------------------
(***************************************************************************)
(* Proofs about the components of MCSequential.tla: the ODBC consumer, the  *)
(* rows of a result, the bound variables, the text of a query and the       *)
(* console, each for every value of its constants, and for the run that     *)
(* puts them side by side.                                                  *)
(***************************************************************************)
EXTENDS MCSequential, SequenceTheorems, TLAPS

WF == INSTANCE WellFoundedInduction

----------------------------------------------------------------------------
(* The consumer: a largest column, and what Written makes of it *)

\* The order of the natural numbers as the library's theorem has it.
LEMMA LessInOrder ==
  ASSUME NEW x \in Nat, NEW y \in Nat, x < y
  PROVE  <<x, y>> \in WF!OpToRel(<, Nat)
  BY Zenon DEF WF!OpToRel

\* A set of natural numbers that is not empty has a least one.
LEMMA LeastNumber ==
  ASSUME NEW S \in SUBSET Nat, S # {}
  PROVE  \E x \in S : \A y \in S : x <= y
<1>1. PICK x \in S : \A y \in S : ~(<<y, x>> \in WF!OpToRel(<, Nat))
  BY WF!NatLessThanWellFounded, WF!WFMin, Zenon
<1>2. \A y \in S : y \in Nat /\ ~(y < x)
  BY <1>1, LessInOrder, Zenon
<1> QED BY <1>2

\* A set of column numbers that is not empty has a largest one.
LEMMA LargestColumn ==
  ASSUME NEW N \in Nat, NEW S \in SUBSET (1 .. N), S # {}
  PROVE  \E c \in S : \A d \in S : d <= c
<1> DEFINE T == {N - c : c \in S}
<1>1. T \subseteq Nat /\ T # {}
  <2>1. PICK c \in S : TRUE
    OBVIOUS
  <2>2. N - c \in T
    OBVIOUS
  <2>3. T \subseteq Nat
    OBVIOUS
  <2> QED BY <2>2, <2>3
<1> HIDE DEF T
<1>2. PICK x \in T : \A y \in T : x <= y
  <2>1. T \in SUBSET Nat
    BY <1>1
  <2> QED BY <1>1, <2>1, LeastNumber
<1>3. PICK c \in S : x = N - c
  BY <1>2 DEF T
<1>4. \A d \in S : N - d \in T
  BY DEF T
<1> QED BY <1>2, <1>3, <1>4

\* Two kinds of variable do not share an indicator.
LEMMA IndicatorsDiffer ==
  ASSUME NEW j \in Kinds, NEW k \in Kinds, Indicator(j) = Indicator(k)
  PROVE  j = k
  BY ConsumerAssumption DEF Indicator

----------------------------------------------------------------------------
(* The consumer: the inductive invariant *)

\* The calls that last names.
Calls == {"none", "new", "delete", "lost", "Bind", "Skip", "UnBind", "Reset", "Fetch",
          "MoreResults"} \cup Executes

Answers == {"none", "08S01", "other"}

\* The types of the consumer's state; what is bound has a kind and a number
\* that m_nBind counts.
ConsumerTypeOK ==
  /\ henv \in BOOLEAN /\ envs \in Nat /\ conns \in Nat
  /\ con \in {"none", "live", "dead"} /\ link \in {"up", "lost"}
  /\ cursor \in [open : BOOLEAN, cols : 0 .. MaxCols, more : Nat]
  /\ nBind \in Nat /\ columns \in 0 .. MaxCols
  /\ bound \in [DOMAIN bound -> Kinds]
  /\ ind \in [{Indicator(k) : k \in Kinds} -> Nat]
  /\ last \in [call : Calls, ret : BOOLEAN, answer : Answers] /\ shutdown \in BOOLEAN

\* An environment that g_henv still knows exists.
EnvironmentMade == henv => envs > 0

ConsumerInv ==
  /\ ConsumerTypeOK /\ EnvironmentMade
  /\ BindingsCounted /\ IndicatorOfLastColumn
  /\ ColumnsKnown /\ LossIsTold

USE DEF Call

\* A binding added to those there are.
LEMMA BoundFacts ==
  ASSUME NEW b, NEW n \in Nat, NEW k \in Kinds, b \in [DOMAIN b -> Kinds],
         DOMAIN b \subseteq 1 .. n
  PROVE  /\ Bound(b, n + 1, k) \in [DOMAIN Bound(b, n + 1, k) -> Kinds]
         /\ DOMAIN Bound(b, n + 1, k) \subseteq 1 .. (n + 1)
<1>1. CASE con = "live"
  BY <1>1 DEF Bound
<1>2. CASE con # "live"
  BY <1>2 DEF Bound
<1> QED BY <1>1, <1>2

\* After a row the indicator of a bound column is the last column of its kind.
LEMMA WrittenFacts ==
  ASSUME NEW b, NEW n \in Nat, b \in [DOMAIN b -> Kinds], DOMAIN b \subseteq 1 .. n,
         ConsumerTypeOK
  PROVE  /\ Written(b) \in [{Indicator(k) : k \in Kinds} -> Nat]
         /\ \A c \in DOMAIN b : c <= cursor.cols =>
               \E d \in DOMAIN b : /\ d >= c /\ b[d] = b[c]
                                   /\ Written(b)[Indicator(b[c])] = d
<1> DEFINE of(i) == {c \in DOMAIN b : c <= cursor.cols /\ Indicator(b[c]) = i}
           top(i) == CHOOSE c \in of(i) : \A d \in of(i) : d <= c
<1>1. \A i \in DOMAIN ind : of(i) # {} => top(i) \in of(i) /\ \A d \in of(i) : d <= top(i)
  <2> SUFFICES ASSUME NEW i \in DOMAIN ind, of(i) # {}
               PROVE  top(i) \in of(i) /\ \A d \in of(i) : d <= top(i)
    OBVIOUS
  <2>1. of(i) \in SUBSET (1 .. n)
    OBVIOUS
  <2> HIDE DEF of
  <2>2. \E c \in of(i) : \A d \in of(i) : d <= c
    BY <2>1, LargestColumn
  <2> QED BY <2>2
<1>2. DOMAIN ind = {Indicator(k) : k \in Kinds} /\ \A i \in DOMAIN ind : ind[i] \in Nat
  BY DEF ConsumerTypeOK
<1>3. Written(b) = [i \in DOMAIN ind |-> IF of(i) = {} THEN ind[i] ELSE top(i)]
  BY DEF Written
<1>4. \A i \in DOMAIN ind : of(i) \subseteq DOMAIN b /\ DOMAIN b \subseteq Nat
  OBVIOUS
<1>5. ASSUME NEW c \in DOMAIN b, c <= cursor.cols
      PROVE  \E d \in DOMAIN b : d >= c /\ b[d] = b[c] /\ Written(b)[Indicator(b[c])] = d
  <2>1. Indicator(b[c]) \in DOMAIN ind /\ b[c] \in Kinds /\ c \in of(Indicator(b[c]))
    BY <1>2, <1>5
  <2> DEFINE d == top(Indicator(b[c]))
  <2>2. d \in of(Indicator(b[c])) /\ c <= d
    BY <1>1, <2>1
  <2>3. d \in DOMAIN b /\ b[d] \in Kinds /\ Indicator(b[d]) = Indicator(b[c])
    BY <2>2
  <2>4. b[d] = b[c]
    BY <2>1, <2>3, IndicatorsDiffer
  <2>5. Written(b)[Indicator(b[c])] = d
    BY <1>3, <2>1
  <2> HIDE DEF d
  <2>6. c \in Nat /\ d \in Nat
    BY <2>3
  <2> QED BY <2>2, <2>3, <2>4, <2>5, <2>6
<1>6. Written(b) \in [{Indicator(k) : k \in Kinds} -> Nat]
  <2> HIDE DEF of, top
  <2>1. \A i \in DOMAIN ind : of(i) # {} => top(i) \in Nat
    BY <1>1, <1>4
  <2> QED BY <1>2, <1>3, <2>1
<1> QED BY <1>5, <1>6

\* Open and Close.
LEMMA EnvironmentStep ==
  ASSUME ConsumerInv, OpenNoHandle \/ OpenConnects \/ Close
  PROVE  ConsumerInv'
<1> USE DEF ConsumerInv, env, stmt
<1>1. UNCHANGED <<con, link, cursor, bound, nBind, columns, ind, last, shutdown>>
  BY DEF OpenNoHandle, OpenConnects, Close
<1>2. henv' \in BOOLEAN
  BY DEF OpenNoHandle, OpenConnects, Close
<1>3. envs' \in Nat /\ conns' \in Nat
  BY DEF OpenNoHandle, OpenConnects, Close, ConsumerTypeOK, EnvironmentMade
<1>4. ConsumerTypeOK'
  BY <1>1, <1>2, <1>3 DEF ConsumerTypeOK
<1>5. EnvironmentMade'
  BY DEF OpenNoHandle, OpenConnects, Close, ConsumerTypeOK, EnvironmentMade
<1>6. (BindingsCounted /\ IndicatorOfLastColumn /\ ColumnsKnown /\ LossIsTold)'
  BY <1>1 DEF BindingsCounted, IndicatorOfLastColumn, ColumnsKnown, LossIsTold
<1> QED BY <1>4, <1>5, <1>6

\* The constructors and the destructor.
LEMMA LifeStep ==
  ASSUME ConsumerInv,
         Construct \/ ConstructNoConnect \/ ConstructNoHandle \/ ConstructNoStmt \/ Destruct
  PROVE  ConsumerInv'
<1> USE DEF ConsumerInv, env, stmt
<1>1. /\ con' \in {"none", "live", "dead"} /\ link' \in {"up", "lost"}
      /\ cursor' = NoCursor /\ bound' = [c \in {} |-> "int"] /\ nBind' \in Nat
      /\ columns' \in 0 .. MaxCols
      /\ ind' \in {NoIndicator, ind}
      /\ last' \in {Call("new", FALSE, "none"), Call("delete", TRUE, "none")}
      /\ henv' = henv /\ envs' = envs
  BY ConsumerAssumption
     DEF Construct, ConstructNoConnect, ConstructNoHandle, ConstructNoStmt, Destruct, NewConsumer,
         ConsumerTypeOK
<1>2. conns' \in Nat /\ EnvironmentMade'
  BY DEF Construct, ConstructNoConnect, ConstructNoHandle, ConstructNoStmt, Destruct, NewConsumer,
         ConsumerTypeOK, EnvironmentMade
<1>3. shutdown' \in BOOLEAN
  BY DEF Construct, ConstructNoConnect, ConstructNoHandle, ConstructNoStmt, Destruct, ConsumerTypeOK
<1>4. ConsumerTypeOK'
  <2>1. FALSE \in BOOLEAN /\ TRUE \in BOOLEAN
    OBVIOUS
  <2>2. cursor' \in [open : BOOLEAN, cols : 0 .. MaxCols, more : Nat]
    BY <1>1, <2>1, ConsumerAssumption DEF NoCursor
  <2>3. last' \in [call : Calls, ret : BOOLEAN, answer : Answers]
    <3>1. CASE last' = Call("new", FALSE, "none")
      BY <2>1, <3>1 DEF Calls, Answers
    <3>2. CASE last' = Call("delete", TRUE, "none")
      BY <2>1, <3>2 DEF Calls, Answers
    <3> QED BY <1>1, <3>1, <3>2
  <2>4. ind' \in [{Indicator(k) : k \in Kinds} -> Nat]
    BY <1>1 DEF NoIndicator, ConsumerTypeOK
  <2>5. bound' \in [DOMAIN bound' -> Kinds]
    BY <1>1
  <2> QED BY <1>1, <1>2, <1>3, <2>2, <2>3, <2>4, <2>5 DEF ConsumerTypeOK
<1>5. (BindingsCounted /\ IndicatorOfLastColumn /\ ColumnsKnown /\ LossIsTold)'
  BY <1>1 DEF BindingsCounted, IndicatorOfLastColumn, ColumnsKnown, LossIsTold, Executes
<1> QED BY <1>2, <1>4, <1>5

\* The record of a call.
LEMMA CallFacts ==
  ASSUME NEW name \in Calls, NEW returned \in BOOLEAN, NEW was \in Answers
  PROVE  /\ Call(name, returned, was) \in [call : Calls, ret : BOOLEAN, answer : Answers]
         /\ Call(name, returned, was).call = name
         /\ Call(name, returned, was).ret = returned
         /\ Call(name, returned, was).answer = was
  OBVIOUS

\* A closed cursor.
LEMMA NoCursorType == NoCursor \in [open : BOOLEAN, cols : 0 .. MaxCols, more : Nat]
<1>1. FALSE \in BOOLEAN
  OBVIOUS
<1> QED BY <1>1, ConsumerAssumption DEF NoCursor

\* A statement that is refused before it is sent, a link that is lost.
LEMMA UnsentStep ==
  ASSUME ConsumerInv, (\E name \in Executes : TooLong(name)) \/ LinkLost
  PROVE  ConsumerInv'
<1> USE DEF ConsumerInv, env, stmt
<1>1. PICK name \in Executes \cup {"lost"} : last' = Call(name, FALSE, "none")
  BY DEF TooLong, LinkLost
<1>2. /\ UNCHANGED <<henv, envs, conns, con, cursor, bound, nBind, columns, ind, shutdown>>
      /\ link' \in {"up", "lost"}
  BY DEF TooLong, LinkLost, ConsumerTypeOK
<1>3. name \in Calls
  BY DEF Calls
<1>4. last' \in [call : Calls, ret : BOOLEAN, answer : Answers]
      /\ last'.call = name /\ last'.ret = FALSE /\ last'.answer = "none"
  <2>1. FALSE \in BOOLEAN /\ "none" \in Answers
    BY DEF Answers
  <2> QED BY <1>1, <1>3, <2>1, CallFacts
<1>5. ConsumerTypeOK' /\ EnvironmentMade'
  BY <1>2, <1>4 DEF ConsumerTypeOK, EnvironmentMade
<1>6. (BindingsCounted /\ IndicatorOfLastColumn /\ ColumnsKnown
         /\ LossIsTold)'
  BY <1>2, <1>4 DEF BindingsCounted, IndicatorOfLastColumn, ColumnsKnown,
                    LossIsTold
<1> QED BY <1>5, <1>6

\* A statement that is sent: the cursor it leaves, and the loss it reports.
LEMMA SendFacts ==
  ASSUME ConsumerTypeOK, NEW out, NEW cols \in 0 .. MaxCols, NEW more \in 0 .. MaxSets - 1,
         Send(out, cols, more)
  PROVE  /\ cursor' \in [open : BOOLEAN, cols : 0 .. MaxCols, more : Nat]
         /\ shutdown' \in BOOLEAN
         /\ out = "success" => cursor'.cols = cols
         /\ con = "live" /\ link = "lost" => shutdown' \/ cursor'.open \/ Answer(out) = "other"
         /\ con = "live" /\ link = "lost" => out \notin {"success", "23000"}
<1>1. (cols > 0) \in BOOLEAN /\ more \in Nat
  BY ConsumerAssumption
<1>2. CASE Ran(out)
  <2>1. cursor' = [open |-> cols > 0, cols |-> cols, more |-> more]
    BY <1>2 DEF Send
  <2>2. cursor' \in [open : BOOLEAN, cols : 0 .. MaxCols, more : Nat] /\ cursor'.cols = cols
    BY <1>1, <2>1
  <2>3. ~(con = "live" /\ link = "lost")
    BY <1>2 DEF Send, Outcomes, Ran
  <2>4. shutdown' \in BOOLEAN
    BY DEF Send, ReportsLoss, ConsumerTypeOK
  <2> QED BY <2>2, <2>3, <2>4
<1>3. CASE ~Ran(out)
  <2>1. cursor' = cursor
    BY <1>3 DEF Send
  <2>2. shutdown' \in BOOLEAN
    BY DEF Send, ReportsLoss, ConsumerTypeOK
  <2>3. ASSUME con = "live", link = "lost"
        PROVE  /\ shutdown' \/ cursor'.open \/ Answer(out) = "other"
               /\ out \notin {"success", "23000"}
    <3>1. cursor.open \/ out \in {"08S01", "error"}
      BY <2>3 DEF Send, Outcomes, ConsumerTypeOK
    <3>2. out \in {"24000", "08S01", "error"}
      BY <2>3 DEF Send, Outcomes, ConsumerTypeOK
    <3> QED BY <2>1, <3>1, <3>2 DEF Send, ReportsLoss, Answer
  <2> QED BY <1>3, <2>1, <2>2, <2>3 DEF Ran, ConsumerTypeOK
<1> QED BY <1>2, <1>3

\* Execute, ExecuteInsertUnique and ExecuteNoData.
LEMMA ExecuteStep ==
  ASSUME ConsumerInv, NEW out, NEW cols \in 0 .. MaxCols, NEW more \in 0 .. MaxSets - 1,
         \/ Execute(out, cols, more) \/ ExecuteInsertUnique(out, cols, more)
         \/ ExecuteNoData(out, cols, more)
  PROVE  ConsumerInv'
<1> USE DEF ConsumerInv, env
<1>1. Send(out, cols, more)
  BY DEF Execute, ExecuteInsertUnique, ExecuteNoData
<1>2. /\ UNCHANGED <<henv, envs, conns, con, link, bound, nBind, ind>>
  BY <1>1 DEF Send
<1>3. PICK name \in Executes, returned \in BOOLEAN : last' = Call(name, returned, Answer(out))
  <2>1. TRUE \in BOOLEAN /\ FALSE \in BOOLEAN /\ (out = "success") \in BOOLEAN
        /\ (out \in {"success", "23000"}) \in BOOLEAN
    OBVIOUS
  <2>2. CASE Execute(out, cols, more)
    BY <2>1, <2>2 DEF Execute, Executes
  <2>3. CASE ExecuteInsertUnique(out, cols, more)
    BY <2>1, <2>3 DEF ExecuteInsertUnique, Executes
  <2>4. CASE ExecuteNoData(out, cols, more)
    BY <2>1, <2>4 DEF ExecuteNoData, Executes
  <2> QED BY <2>2, <2>3, <2>4
<1>4. last' \in [call : Calls, ret : BOOLEAN, answer : Answers]
      /\ last'.call = name /\ last'.ret = returned /\ last'.answer = Answer(out)
  <2>1. Answer(out) \in Answers /\ name \in Calls
    BY DEF Answer, Answers, Calls
  <2> QED BY <1>3, <2>1, CallFacts
<1>5. /\ columns' \in 0 .. MaxCols
      /\ last'.call = "Execute" /\ last'.ret => out = "success" /\ columns' = cols
      /\ last'.ret => out \in {"success", "23000"}
  <2>1. CASE Execute(out, cols, more)
    BY <2>1 DEF Execute, ConsumerTypeOK
  <2>2. CASE ExecuteInsertUnique(out, cols, more)
    BY <2>2 DEF ExecuteInsertUnique, ConsumerTypeOK
  <2>3. CASE ExecuteNoData(out, cols, more)
    BY <2>3 DEF ExecuteNoData, ConsumerTypeOK
  <2> QED BY <2>1, <2>2, <2>3
<1>6. ConsumerTypeOK' /\ EnvironmentMade'
  BY <1>1, <1>2, <1>4, <1>5, SendFacts DEF ConsumerTypeOK, EnvironmentMade
<1>7. BindingsCounted' /\ IndicatorOfLastColumn'
  BY <1>2, <1>4 DEF BindingsCounted, IndicatorOfLastColumn, Executes
<1>8. ColumnsKnown' /\ LossIsTold'
  BY <1>1, <1>2, <1>4, <1>5, SendFacts DEF ColumnsKnown, LossIsTold, Executes
<1> QED BY <1>6, <1>7, <1>8

\* Bind, Skip, UnBind and Reset.
LEMMA BindStep ==
  ASSUME ConsumerInv, (\E k \in Kinds : Bind(k)) \/ Skip \/ UnBind \/ Reset
  PROVE  ConsumerInv'
<1> USE DEF ConsumerInv, env
<1>1. /\ UNCHANGED <<henv, envs, conns, con, link, columns, ind, shutdown>>
      /\ cursor' \in {cursor, NoCursor}
  BY DEF Bind, Skip, UnBind, Reset
<1>2. PICK name \in {"Bind", "Skip", "UnBind", "Reset"} : last' = Call(name, TRUE, "none")
  BY DEF Bind, Skip, UnBind, Reset
<1>3. last' \in [call : Calls, ret : BOOLEAN, answer : Answers] /\ last'.call = name
  <2>1. TRUE \in BOOLEAN /\ "none" \in Answers /\ name \in Calls
    BY DEF Calls, Answers
  <2> QED BY <1>2, <2>1, CallFacts
<1>4. nBind' \in Nat /\ bound' \in [DOMAIN bound' -> Kinds] /\ DOMAIN bound' \subseteq 1 .. nBind'
  <2>1. ASSUME NEW k \in Kinds, Bind(k)
        PROVE  /\ nBind' \in Nat /\ bound' \in [DOMAIN bound' -> Kinds]
               /\ DOMAIN bound' \subseteq 1 .. nBind'
    <3>1. nBind' = nBind + 1 /\ bound' = Bound(bound, nBind + 1, k)
      BY <2>1 DEF Bind
    <3>2. nBind \in Nat /\ bound \in [DOMAIN bound -> Kinds] /\ DOMAIN bound \subseteq 1 .. nBind
      BY DEF ConsumerTypeOK, BindingsCounted
    <3>3. /\ Bound(bound, nBind + 1, k) \in [DOMAIN Bound(bound, nBind + 1, k) -> Kinds]
          /\ DOMAIN Bound(bound, nBind + 1, k) \subseteq 1 .. (nBind + 1)
      BY <3>2, BoundFacts
    <3> QED BY <3>1, <3>2, <3>3
  <2>2. CASE Skip
    BY <2>2 DEF Skip, ConsumerTypeOK, BindingsCounted
  <2>3. CASE UnBind \/ Reset
    <3>1. nBind' = 0 /\ bound' = Unbound
      BY <2>3 DEF UnBind, Reset
    <3>2. Unbound \in [DOMAIN Unbound -> Kinds] /\ DOMAIN Unbound \subseteq 1 .. 0
      BY DEF Unbound
    <3> QED BY <3>1, <3>2
  <2> QED BY <2>1, <2>2, <2>3
<1>5. cursor' \in [open : BOOLEAN, cols : 0 .. MaxCols, more : Nat]
  <2>1. NoCursor \in [open : BOOLEAN, cols : 0 .. MaxCols, more : Nat]
    BY NoCursorType
  <2> QED BY <1>1, <2>1 DEF ConsumerTypeOK
<1>6. ConsumerTypeOK' /\ EnvironmentMade'
  BY <1>1, <1>3, <1>4, <1>5 DEF ConsumerTypeOK, EnvironmentMade
<1>7. (BindingsCounted /\ IndicatorOfLastColumn /\ ColumnsKnown
         /\ LossIsTold)'
  BY <1>1, <1>3, <1>4 DEF BindingsCounted, IndicatorOfLastColumn, ColumnsKnown,
                          LossIsTold, Executes
<1> QED BY <1>6, <1>7

\* Fetch and FetchResultCode, with the columns bound that a row is written into.
LEMMA RowStep ==
  ASSUME ConsumerInv, NEW n \in Nat, nBind' = n, bound' \in [DOMAIN bound' -> Kinds],
         DOMAIN bound' \subseteq 1 .. n,
         FetchRow("Fetch", bound') \/ FetchNone("Fetch"),
         UNCHANGED <<env, conns, con, link, cursor, columns, shutdown>>
  PROVE  ConsumerInv'
<1> USE DEF ConsumerInv, env
<1>1. PICK returned \in BOOLEAN : last' = Call("Fetch", returned, "none")
  <2>1. TRUE \in BOOLEAN /\ FALSE \in BOOLEAN
    OBVIOUS
  <2> QED BY <2>1 DEF FetchRow, FetchNone
<1>2. last' \in [call : Calls, ret : BOOLEAN, answer : Answers]
      /\ last'.call = "Fetch" /\ last'.ret = returned
  <2>1. "none" \in Answers /\ "Fetch" \in Calls
    BY DEF Calls, Answers
  <2> QED BY <1>1, <2>1, CallFacts
<1>3. /\ Written(bound') \in [{Indicator(k) : k \in Kinds} -> Nat]
      /\ \A c \in DOMAIN bound' : c <= cursor.cols =>
            \E d \in DOMAIN bound' : /\ d >= c /\ bound'[d] = bound'[c]
                                     /\ Written(bound')[Indicator(bound'[c])] = d
  BY WrittenFacts
<1>4. ind' \in [{Indicator(k) : k \in Kinds} -> Nat]
  BY <1>3 DEF FetchRow, FetchNone, ConsumerTypeOK
<1>5. ConsumerTypeOK' /\ EnvironmentMade'
  BY <1>2, <1>4 DEF ConsumerTypeOK, EnvironmentMade
<1>6. IndicatorOfLastColumn'
  <2>1. CASE FetchRow("Fetch", bound')
    <3>1. ind' = Written(bound')
      BY <2>1 DEF FetchRow
    <3> QED BY <1>3, <3>1 DEF IndicatorOfLastColumn
  <2>2. CASE FetchNone("Fetch")
    BY <2>2 DEF FetchNone, IndicatorOfLastColumn
  <2> QED BY <2>1, <2>2
<1>7. (BindingsCounted /\ ColumnsKnown /\ LossIsTold)'
  BY <1>2 DEF BindingsCounted, ColumnsKnown, LossIsTold, Executes
<1> QED BY <1>5, <1>6, <1>7

\* A fetch binds nothing, or an int and a string after what is bound.
LEMMA FetchStep ==
  ASSUME ConsumerInv, Fetch \/ FetchResultCode
  PROVE  ConsumerInv'
<1> USE DEF ConsumerInv
<1>1. nBind \in Nat /\ bound \in [DOMAIN bound -> Kinds] /\ DOMAIN bound \subseteq 1 .. nBind
  BY DEF ConsumerTypeOK, BindingsCounted
<1>2. CASE Fetch
  <2>1. /\ nBind' = nBind /\ bound' = bound
        /\ FetchRow("Fetch", bound') \/ FetchNone("Fetch")
        /\ UNCHANGED <<env, conns, con, link, cursor, columns, shutdown>>
    BY <1>2 DEF Fetch
  <2> QED BY <1>1, <2>1, RowStep
<1>3. CASE FetchResultCode
  <2> DEFINE b == Bound(bound, nBind + 1, "int")
             bb == Bound(b, (nBind + 1) + 1, "char")
  <2>1. /\ nBind' = (nBind + 1) + 1 /\ bound' = bb
        /\ FetchRow("Fetch", bound') \/ FetchNone("Fetch")
        /\ UNCHANGED <<env, conns, con, link, cursor, columns, shutdown>>
    <3>1. nBind + 2 = (nBind + 1) + 1
      BY <1>1
    <3> QED BY <1>3, <3>1 DEF FetchResultCode
  <2>2. b \in [DOMAIN b -> Kinds] /\ DOMAIN b \subseteq 1 .. (nBind + 1)
    BY <1>1, BoundFacts, ConsumerAssumption
  <2> HIDE DEF b
  <2>3. bb \in [DOMAIN bb -> Kinds] /\ DOMAIN bb \subseteq 1 .. ((nBind + 1) + 1)
    <3>1. nBind + 1 \in Nat /\ "char" \in Kinds
      BY <1>1, ConsumerAssumption
    <3> QED BY <2>2, <3>1, BoundFacts
  <2>4. (nBind + 1) + 1 \in Nat
    BY <1>1
  <2> HIDE DEF bb
  <2> QED BY <2>1, <2>3, <2>4, RowStep
<1> QED BY <1>2, <1>3

\* MoreResults.
LEMMA MoreResultsStep ==
  ASSUME ConsumerInv, MoreResults
  PROVE  ConsumerInv'
<1> USE DEF ConsumerInv, env
<1>1. /\ UNCHANGED <<henv, envs, conns, con, link, ind, shutdown>>
      /\ nBind' = 0 /\ bound' = Unbound
  BY DEF MoreResults
<1>2. PICK returned \in BOOLEAN : last' = Call("MoreResults", returned, "none")
  <2>1. TRUE \in BOOLEAN /\ FALSE \in BOOLEAN
    OBVIOUS
  <2> QED BY <2>1 DEF MoreResults
<1>3. last' \in [call : Calls, ret : BOOLEAN, answer : Answers]
      /\ last'.call = "MoreResults" /\ last'.ret = returned
  <2>1. "none" \in Answers /\ "MoreResults" \in Calls
    BY DEF Calls, Answers
  <2> QED BY <1>2, <2>1, CallFacts
<1>4. /\ cursor' \in [open : BOOLEAN, cols : 0 .. MaxCols, more : Nat]
      /\ columns' \in 0 .. MaxCols /\ (returned => columns' = cursor'.cols)
  <2>1. ASSUME cursor.more > 0, NEW cols \in 0 .. MaxCols,
               cursor' = [open |-> cols > 0, cols |-> cols, more |-> cursor.more - 1],
               \/ columns' = ColumnsOf(cols)
               \/ UNCHANGED columns /\ last' = Call("MoreResults", FALSE, "none")
        PROVE  /\ cursor' \in [open : BOOLEAN, cols : 0 .. MaxCols, more : Nat]
               /\ columns' \in 0 .. MaxCols /\ (returned => columns' = cursor'.cols)
    <3>1. (cols > 0) \in BOOLEAN /\ cursor.more - 1 \in Nat
      BY <2>1 DEF ConsumerTypeOK
    <3>2. cursor' \in [open : BOOLEAN, cols : 0 .. MaxCols, more : Nat] /\ cursor'.cols = cols
      BY <2>1, <3>1
    <3> QED BY <1>2, <2>1, <3>2 DEF ColumnsOf, ConsumerTypeOK
  <2>2. ASSUME cursor' \in {cursor, NoCursor}, last' = Call("MoreResults", FALSE, "none"),
               UNCHANGED columns
        PROVE  /\ cursor' \in [open : BOOLEAN, cols : 0 .. MaxCols, more : Nat]
               /\ columns' \in 0 .. MaxCols /\ (returned => columns' = cursor'.cols)
    BY <1>2, <2>2, NoCursorType DEF ConsumerTypeOK
  <2> QED BY <2>1, <2>2 DEF MoreResults
<1>5. bound' \in [DOMAIN bound' -> Kinds] /\ DOMAIN bound' \subseteq 1 .. nBind'
  BY <1>1 DEF Unbound
<1>6. ConsumerTypeOK' /\ EnvironmentMade'
  BY <1>1, <1>3, <1>4, <1>5 DEF ConsumerTypeOK, EnvironmentMade
<1>7. (BindingsCounted /\ IndicatorOfLastColumn /\ ColumnsKnown
         /\ LossIsTold)'
  BY <1>1, <1>3, <1>4, <1>5 DEF BindingsCounted, IndicatorOfLastColumn,
     ColumnsKnown, LossIsTold, Executes
<1> QED BY <1>6, <1>7

\* At the start nothing is bound, made or called.
LEMMA ConsumerStarts ==
  ASSUME Init
  PROVE  ConsumerInv
<1>1. FALSE \in BOOLEAN /\ "none" \in Calls /\ "none" \in Answers
  BY DEF Calls, Answers
<1>2. /\ last \in [call : Calls, ret : BOOLEAN, answer : Answers]
      /\ last.ret = FALSE /\ last.answer = "none"
  BY <1>1, CallFacts DEF Init
<1>3. ConsumerTypeOK
  <2>1. henv \in BOOLEAN /\ shutdown \in BOOLEAN
    BY <1>1 DEF Init
  <2>2. bound \in [DOMAIN bound -> Kinds] /\ ind \in [{Indicator(k) : k \in Kinds} -> Nat]
    BY DEF Init, NoIndicator
  <2>3. cursor \in [open : BOOLEAN, cols : 0 .. MaxCols, more : Nat]
    BY NoCursorType DEF Init
  <2>4. columns \in 0 .. MaxCols
    BY ConsumerAssumption DEF Init
  <2> QED BY <1>2, <2>1, <2>2, <2>3, <2>4 DEF Init, ConsumerTypeOK
<1> QED BY <1>2, <1>3 DEF Init, ConsumerInv, EnvironmentMade, BindingsCounted,
        IndicatorOfLastColumn, ColumnsKnown, LossIsTold

\* Every call keeps the invariant.
LEMMA ConsumerStep ==
  ASSUME ConsumerInv, [Next]_vars
  PROVE  ConsumerInv'
<1>1. CASE Next
  <2> USE <1>1
  <2>1. CASE OpenNoHandle \/ OpenConnects \/ Close
    BY <2>1, EnvironmentStep
  <2>2. CASE Construct \/ ConstructNoConnect \/ ConstructNoHandle \/ ConstructNoStmt \/ Destruct
    BY <2>2, LifeStep
  <2>3. CASE (\E name \in Executes : TooLong(name)) \/ LinkLost
    BY <2>3, UnsentStep
  <2>4. CASE \E out \in Outcomes, cols \in 0 .. MaxCols, more \in 0 .. MaxSets - 1 :
               \/ Execute(out, cols, more) \/ ExecuteInsertUnique(out, cols, more)
               \/ ExecuteNoData(out, cols, more)
    BY <2>4, ExecuteStep
  <2>5. CASE (\E k \in Kinds : Bind(k)) \/ Skip \/ UnBind \/ Reset
    BY <2>5, BindStep
  <2>6. CASE Fetch \/ FetchResultCode
    BY <2>6, FetchStep
  <2>7. CASE MoreResults
    BY <2>7, MoreResultsStep
  <2> QED BY <2>1, <2>2, <2>3, <2>4, <2>5, <2>6, <2>7 DEF Next
<1>2. CASE UNCHANGED vars
  BY <1>2 DEF vars, env, stmt, ConsumerInv, ConsumerTypeOK, EnvironmentMade,
     BindingsCounted, IndicatorOfLastColumn, ColumnsKnown, LossIsTold
<1> QED BY <1>1, <1>2

\* DBConsumer, for any kinds and numbers of columns, connections and result
\* sets: no binding outlives its count, every indicator tells of the last
\* column of its kind, the column count is that of the result set at hand, and
\* a lost connection is told unless a cursor or the driver's state hides it.
THEOREM ConsumerIsConsistent == Spec => []ConsumerKeepsUp
<1>1. Init => ConsumerInv
  BY ConsumerStarts
<1>2. ConsumerInv /\ [Next]_vars => ConsumerInv'
  BY ConsumerStep
<1>3. ConsumerInv => ConsumerKeepsUp
  BY DEF ConsumerInv, ConsumerKeepsUp
<1> QED BY <1>1, <1>2, <1>3, PTL DEF Spec

----------------------------------------------------------------------------
(* The text of a query *)

\* The first call has the first buffer; a text without arguments that did not
\* fit has a buffer with room for it and its terminator, one with arguments
\* that fits the first buffer is returned by the first call.
FormatInv ==
  /\ whole \in 0 .. MaxText /\ round \in Nat /\ size \in Nat
  /\ round = 0 => size = FirstSize /\ ~F!Done
  /\ args = "none" /\ round > 0 /\ ~F!Done => size > whole /\ whole > FirstSize
  /\ args = "some" /\ whole <= FirstSize /\ round > 0 => F!Done
  /\ F!WholeText

\* format_string_vargs begins with a buffer of 256 characters.
LEMMA FormatStarts ==
  ASSUME F!Init
  PROVE  FormatInv
  BY ReadersAssumption DEF F!Init, FormatInv, F!Done, F!WholeText, F!SubstitutedWhole

\* One turn of the loop: a text that fits is returned, without its last
\* character if it fills the buffer; one that does not enlarges the buffer.
LEMMA FormatStep ==
  ASSUME FormatInv, [F!Next]_F!vars
  PROVE  FormatInv'
<1>1. CASE F!Format
  <2>1. ~F!Done /\ whole' = whole /\ args' = args /\ round' = round + 1
    BY <1>1 DEF F!Format, F!Done
  <2>2. PICK t \in F!Formatted :
          IF F!Fits(t.len)
          THEN /\ text' = [t EXCEPT !.len = IF t.len < size THEN t.len ELSE size - 1]
               /\ UNCHANGED size
          ELSE size' = F!Grown(t.len) /\ UNCHANGED text
    BY <1>1 DEF F!Format
  <2>3. t \in [len : Int, right : BOOLEAN] /\ t.len <= MaxText
    <3>1. \A n \in Int : [len |-> n, right |-> TRUE] \in [len : Int, right : BOOLEAN]
      OBVIOUS
    <3>2. \A n \in Int : [len |-> n, right |-> FALSE] \in [len : Int, right : BOOLEAN]
      OBVIOUS
    <3>3. whole \in Int /\ -1 \in Int /\ 0 .. MaxText \subseteq Int
      BY ReadersAssumption DEF FormatInv
    <3>4. \/ t = [len |-> -1, right |-> FALSE] \/ t = [len |-> whole, right |-> TRUE]
          \/ \E n \in 0 .. MaxText : t = [len |-> n, right |-> FALSE]
      BY DEF F!Formatted
    <3>5. t \in [len : Int, right : BOOLEAN]
      BY <3>1, <3>2, <3>3, <3>4
    <3>6. t.len = -1 \/ t.len \in 0 .. MaxText
      BY <3>4 DEF FormatInv
    <3> QED BY <3>5, <3>6, ReadersAssumption
  <2>4. args = "none" \/ (args = "some" /\ round = 0) => t = [len |-> whole, right |-> TRUE]
    BY DEF F!Formatted
  <2>5. CASE F!Fits(t.len)
    <3>1. /\ size' = size
          /\ text' = [len |-> IF t.len < size THEN t.len ELSE size - 1, right |-> t.right]
      BY <2>2, <2>3, <2>5
    <3>2. text'.len # MaxText + 1
      BY <2>3, <2>5, <3>1, ReadersAssumption DEF F!Fits, FormatInv
    <3>3. F!WholeText'
      <4> SUFFICES ASSUME args = "none" \/ (args = "some" /\ whole <= FirstSize),
                          whole # FirstSize
                   PROVE  text' = [len |-> whole, right |-> TRUE]
        BY <2>1 DEF F!WholeText, F!SubstitutedWhole, F!FillsBuffer
      <4>1. t = [len |-> whole, right |-> TRUE]
        BY <2>1, <2>4 DEF FormatInv
      <4>2. (IF whole < size THEN whole ELSE size - 1) = whole
        BY <2>1, <2>5, <4>1, ReadersAssumption DEF FormatInv, F!Fits
      <4> QED BY <3>1, <4>1, <4>2
    <3> QED BY <2>1, <3>1, <3>2, <3>3 DEF FormatInv, F!Done
  <2>6. CASE ~F!Fits(t.len)
    <3>1. size' = F!Grown(t.len) /\ text' = text
      BY <2>2, <2>6
    <3>2. size' \in Nat
      BY <2>3, <3>1 DEF F!Grown, FormatInv
    <3>3. ~F!Done' /\ F!WholeText'
      BY <2>1, <3>1 DEF F!Done, F!WholeText, F!SubstitutedWhole
    <3>4. args = "none" => size' > whole /\ whole > FirstSize
      <4> SUFFICES ASSUME args = "none" PROVE size' > whole /\ whole > FirstSize
        OBVIOUS
      <4>1. t.len = whole
        BY <2>4
      <4>2. whole > size /\ size' = whole + 1
        BY <2>6, <3>1, <4>1 DEF F!Fits, F!Grown, FormatInv
      <4> QED BY <2>1, <4>2, ReadersAssumption DEF FormatInv
    <3>5. ~(args = "some" /\ whole <= FirstSize)
      BY <2>1, <2>4, <2>6, ReadersAssumption DEF FormatInv, F!Fits
    <3> QED BY <2>1, <3>1, <3>2, <3>3, <3>4, <3>5 DEF FormatInv
  <2> QED BY <2>5, <2>6
<1>2. CASE UNCHANGED F!vars
  BY <1>2 DEF F!vars, FormatInv, F!Done, F!WholeText, F!SubstitutedWhole, F!FillsBuffer
<1> QED BY <1>1, <1>2 DEF F!Next

\* format_string_vargs, for any first size of the buffer: a text that fits it,
\* and one without arguments of any length, is returned whole, unless it just
\* fills the first buffer.
THEOREM TextIsWhole == F!Spec => []F!WholeText
<1>1. F!Init => FormatInv
  BY FormatStarts
<1>2. FormatInv /\ [F!Next]_F!vars => FormatInv'
  BY FormatStep
<1>3. FormatInv => F!WholeText
  BY DEF FormatInv
<1> QED BY <1>1, <1>2, <1>3, PTL DEF F!Spec

----------------------------------------------------------------------------
(* Remainders *)

\* A number modulo l, and that modulo a divisor i of l, is congruent to the number.
LEMMA Congruent ==
  ASSUME NEW i \in Nat \ {0}, NEW l \in Nat \ {0}, l % i = 0, NEW n \in Int
  PROVE  (((n % l) % i) - n) % i = 0 /\ ((n % l) - n) % i = 0
<1> DEFINE q == l \div i
           a == n \div l
           r == n % l
           b == r \div i
           s == r % i
<1>1. q \in Int /\ l = i * q
  OBVIOUS
<1>2. a \in Int /\ r \in Int /\ n = (l * a) + r
  OBVIOUS
<1> HIDE DEF q, a, r
<1>3. b \in Int /\ s \in Int /\ r = (i * b) + s
  BY <1>2
<1> HIDE DEF b, s
<1>4. l * a = i * (q * a) /\ q * a \in Int
  BY <1>1, <1>2
<1>5. s - n = i * ((-b) - (q * a)) /\ r - n = i * (-(q * a))
  <2> DEFINE p == q * a
  <2>1. p \in Int /\ n = ((i * p) + (i * b)) + s /\ n = (i * p) + r
    BY <1>2, <1>3, <1>4
  <2> HIDE DEF p
  <2>2. i * ((-b) - p) = (-(i * b)) - (i * p) /\ i * (-p) = -(i * p)
    BY <1>3, <2>1
  <2>3. s - n = i * ((-b) - p) /\ r - n = i * (-p)
    BY <1>2, <1>3, <2>1, <2>2
  <2> QED BY <2>3 DEF p
<1>6. \A x \in Int : (i * x) % i = 0
  OBVIOUS
<1>7. ((-b) - (q * a)) \in Int /\ -(q * a) \in Int
  BY <1>3, <1>4
<1>8. (s - n) % i = 0 /\ (r - n) % i = 0
  BY <1>5, <1>6, <1>7
<1> QED BY <1>8 DEF r, s

----------------------------------------------------------------------------
(* The variables bound to a statement *)

\* Variables hold a value or none; what an optional number's wrapper holds is 0
\* or a number it was executed with; what was sent is what was held.
BindInv ==
  /\ left \in Int /\ ret \in BOOLEAN
  /\ DOMAIN pvar = B!Wrappers
  /\ pdata \in past \cup {0}
  /\ B!ParamsAsHeld

\* The wrappers, spelled out.
LEMMA WrapperFacts == B!Wrappers = {1, 2, 3, 4}
  BY DEF B!Wrappers

\* Nothing has been sent at the start.
LEMMA BindStarts ==
  ASSUME B!Init
  PROVE  BindInv
<1>1. FALSE \in BOOLEAN
  OBVIOUS
<1>2. left \in Int /\ pdata \in past \cup {0}
  BY DEF B!Init
<1>3. DOMAIN pvar = B!Wrappers
  BY DEF B!Init
<1>4. B!ParamsAsHeld
  BY DEF B!Init, B!ParamsAsHeld
<1>5. ret \in BOOLEAN
  BY <1>1 DEF B!Init
<1> QED BY <1>2, <1>3, <1>4, <1>5 DEF BindInv

\* An execution sends what the variables hold.
LEMMA ExecuteSends ==
  ASSUME BindInv, B!Execute
  PROVE  BindInv'
<1>1. /\ pdata' = B!NextPData /\ sent' = [k \in B!Wrappers |-> B!ParamSent(k)]
      /\ past' = (IF pvar[2].has THEN past \cup {pvar[2].v} ELSE past)
      /\ left' = NRows /\ ret' = TRUE /\ pvar' = pvar
  BY DEF B!Execute, B!optnumber
<1>2. B!NextPData \in past' \cup {0}
  BY <1>1 DEF BindInv, B!NextPData, B!optnumber
<1>3. \A k \in B!Wrappers : pvar[k].has => B!ParamSent(k) = pvar[k].v
  BY DEF B!ParamSent, B!NextPData, B!optnumber
<1>4. ~pvar[4].has => B!ParamSent(4) = B!Null
  BY DEF B!ParamSent, B!optnumber
<1>5. B!ParamSent(2) = B!NextPData
  BY DEF B!ParamSent, B!optnumber
<1>6. ret' \in BOOLEAN /\ left' \in Int
  BY <1>1, ReadersAssumption
<1> QED BY <1>1, <1>2, <1>3, <1>4, <1>5, <1>6, WrapperFacts
        DEF BindInv, B!ParamsAsHeld, B!optnumber, B!optstring

\* Every call keeps the invariant.
LEMMA BindingStep ==
  ASSUME BindInv, [B!Next]_B!vars
  PROVE  BindInv'
<1> USE DEF B!params, B!columns
<1>1. ASSUME NEW k \in B!Wrappers, NEW x, B!SetParam(k, x) PROVE BindInv'
  BY <1>1 DEF B!SetParam, BindInv, B!ParamsAsHeld
<1>2. ASSUME NEW n \in {1, 4, 5}, B!BindParam(n) PROVE BindInv'
  BY <1>2 DEF B!BindParam, BindInv, B!ParamsAsHeld
<1>3. ASSUME NEW n \in {1, 4, 5}, B!BindResult(n) PROVE BindInv'
  BY <1>3 DEF B!BindResult, BindInv, B!ParamsAsHeld
<1>4. CASE B!Execute
  BY <1>4, ExecuteSends
<1>5. CASE B!ExecuteFails
  <2>1. pdata' \in past' \cup {0}
    BY <1>5 DEF B!ExecuteFails, BindInv, B!NextPData
  <2>2. ret' \in BOOLEAN
    BY <1>5 DEF B!ExecuteFails
  <2> QED BY <1>5, <2>1, <2>2 DEF B!ExecuteFails, BindInv, B!ParamsAsHeld
<1>6. CASE B!Unbound
  BY <1>6 DEF B!Unbound, BindInv, B!ParamsAsHeld
<1>7. CASE B!FetchEnd
  <2>1. ret' \in BOOLEAN
    BY <1>7 DEF B!FetchEnd
  <2> QED BY <1>7, <2>1 DEF B!FetchEnd, BindInv, B!ParamsAsHeld
<1>8. ASSUME NEW bad, B!Fetch(bad) PROVE BindInv'
  <2>1. ret' \in BOOLEAN /\ left' \in Int
    BY <1>8 DEF B!Fetch, BindInv
  <2> QED BY <1>8, <2>1 DEF B!Fetch, BindInv, B!ParamsAsHeld
<1>9. CASE UNCHANGED B!vars
  BY <1>9 DEF B!vars, BindInv, B!ParamsAsHeld
<1> QED BY <1>1, <1>2, <1>3, <1>4, <1>5, <1>6, <1>7, <1>8, <1>9 DEF B!Next

\* A number that its variable has room for is stored as it is, another truncated.
LEMMA NarrowedFacts ==
  ASSUME NEW x \in Nat
  PROVE  /\ x <= MaxVal => B!Narrowed(x) = x
         /\ x > MaxVal => B!Truncated(x, B!Narrowed(x))
<1> DEFINE w == MaxVal + 1
<1>1. w \in Nat \ {0} /\ MaxVal \in Nat /\ MaxVal = w - 1
  BY ReadersAssumption
<1> HIDE DEF w
<1>2. \A y \in Int : y % w \in 0 .. (w - 1)
  BY <1>1
<1>3. x % w \in 0 .. MaxVal /\ (x <= MaxVal => x % w = x)
  BY <1>1, <1>2
<1>4. w % w = 0
  BY <1>1
<1>5. ((x % w) - x) % w = 0
  <2>1. x \in Int
    OBVIOUS
  <2> QED BY <1>1, <1>4, <2>1, Congruent
<1> QED BY <1>3, <1>5 DEF B!Narrowed, B!Truncated, w

\* What a step may do to the variables of the columns.
LEMMA ColumnsFollow ==
  ASSUME BindInv, B!Next
  PROVE  B!RowIntoVariables /\ B!EndDamagesOnlyStrings
<1> USE DEF B!params, B!columns
<1>1. ASSUME rvar' = rvar, left' = left \/ row' = B!Nothing
      PROVE  B!RowIntoVariables /\ B!EndDamagesOnlyStrings
  BY <1>1 DEF B!RowIntoVariables, B!EndDamagesOnlyStrings
<1>2. ASSUME NEW bad, B!Fetch(bad)
      PROVE  B!RowIntoVariables /\ B!EndDamagesOnlyStrings
  <2> PICK r \in B!Rows : rvar' = B!PostFetch(r, bad) /\ row' = r
    BY <1>2 DEF B!Fetch
  <2>1. left' # left
    BY <1>2 DEF B!Fetch, BindInv
  <2>2. B!EndDamagesOnlyStrings
    BY <2>1 DEF B!EndDamagesOnlyStrings
  <2>3. ASSUME ret' PROVE \A k \in B!Wrappers : rvar'[k] = B!ColumnStored(k, r[k])
    BY <1>2, <2>3 DEF B!Fetch, B!PostFetch
  <2>4. row' = r
    OBVIOUS
  <2>5. B!RowIntoVariables
    <3> SUFFICES ASSUME ret', NEW k \in B!Wrappers
                 PROVE  \/ r[k] # B!Null /\ rvar'[k] = B!Val(r[k])
                        \/ /\ k \notin B!Strings /\ B!Truncated(r[k], rvar'[k].v)
                           /\ rvar'[k] = B!Val(rvar'[k].v)
                        \/ r[k] = B!Null /\ k \in B!Optionals /\ ~rvar'[k].has
                        \/ r[k] = B!Null /\ k = B!string /\ rvar'[k] = B!Val(0)
                        \/ r[k] = B!Null /\ k = B!number /\ rvar'[k] = rvar[k]
      BY <2>4 DEF B!RowIntoVariables
    <3>1. rvar'[k] = B!ColumnStored(k, r[k])
      BY <2>3
    <3>2. ~B!Unset.has
      BY DEF B!Unset
    <3>3. \A x : B!Val(x).v = x
      BY DEF B!Val
    <3>4. r[k] = B!Null \/ r[k] \in Nat
      BY WrapperFacts DEF B!Rows, B!Numbers, B!Texts
    <3>5. CASE r[k] = B!Null
      BY <3>1, <3>2, <3>5, WrapperFacts
         DEF B!ColumnStored, B!StoredNumber, B!StoredString, B!StoredOptNumber,
             B!StoredOptString, B!number, B!string, B!optnumber, B!optstring, B!Optionals
    <3>6. CASE r[k] # B!Null /\ k \in B!Strings
      BY <3>1, <3>6
         DEF B!ColumnStored, B!StoredString, B!StoredOptString, B!Strings,
             B!number, B!string, B!optnumber, B!optstring
    <3>7. CASE r[k] # B!Null /\ k \notin B!Strings
      <4>1. rvar'[k] = B!Val(B!Narrowed(r[k]))
        BY <3>1, <3>7, WrapperFacts
           DEF B!ColumnStored, B!StoredNumber, B!StoredOptNumber, B!Strings,
               B!number, B!string, B!optnumber, B!optstring
      <4>2. r[k] <= MaxVal \/ r[k] > MaxVal
        BY <3>4, <3>7, ReadersAssumption
      <4>3. CASE r[k] <= MaxVal
        BY <3>4, <3>7, <4>1, <4>3, NarrowedFacts
      <4>4. CASE r[k] > MaxVal
        <5>1. rvar'[k].v = B!Narrowed(r[k])
          BY <3>3, <4>1
        <5> QED BY <3>4, <3>7, <4>1, <4>4, <5>1, NarrowedFacts
      <4> QED BY <4>2, <4>3, <4>4
    <3> QED BY <3>5, <3>6, <3>7
  <2> QED BY <2>2, <2>5
<1>3. CASE B!FetchEnd
  BY <1>3 DEF B!FetchEnd, B!PreFetch, B!RowIntoVariables, B!EndDamagesOnlyStrings
<1>4. ASSUME NEW k, NEW x, B!SetParam(k, x)
      PROVE  rvar' = rvar /\ (left' = left \/ row' = B!Nothing)
  BY <1>4 DEF B!SetParam
<1>5. ASSUME NEW n, B!BindParam(n) \/ B!BindResult(n)
      PROVE  rvar' = rvar /\ (left' = left \/ row' = B!Nothing)
  BY <1>5 DEF B!BindParam, B!BindResult
<1>6. CASE B!Execute \/ B!ExecuteFails \/ B!Unbound
  BY <1>1, <1>6 DEF B!Execute, B!ExecuteFails, B!Unbound
<1> QED BY <1>1, <1>2, <1>3, <1>4, <1>5, <1>6 DEF B!Next

\* prepared_stmt, for any values and rows: what execute sends is what the
\* variables held, a row read shows in the variables and nothing of an earlier
\* one does, the end damages strings alone, but for the cases VariablesFollow
\* names, a number too wide for its variable among them.
THEOREM ValuesFollow == B!Spec => B!VariablesFollow
<1>1. B!Init => BindInv
  BY BindStarts
<1>2. BindInv /\ [B!Next]_B!vars => BindInv'
  BY BindingStep
<1>3. BindInv /\ BindInv' /\ [B!Next]_B!vars
        => [B!ParamsAsHeld' /\ B!RowIntoVariables /\ B!EndDamagesOnlyStrings]_B!vars
  BY ColumnsFollow DEF BindInv
<1> QED BY <1>1, <1>2, <1>3, PTL DEF B!Spec, B!VariablesFollow

----------------------------------------------------------------------------
(* The rows of a result: conversions *)

\* A cell's number is an integer, and so are its halves and its text.
LEMMA CellFacts ==
  ASSUME NEW c \in R!Cells
  PROVE  c.n \in Int /\ R!Halves(c) \in Int /\ R!TextOf(c) \in Int
<1>1. c.n \in Int
  BY ReadersAssumption DEF R!Cells, R!Empty, R!Word, R!Number
<1> QED BY <1>1 DEF R!Halves, R!TextOf

\* A float has the halves it is given, or the nearest even number of them.
LEMMA RoundedNearest ==
  ASSUME NEW m \in Int
  PROVE  /\ R!Rounded(m) \in Int
         /\ -(2 ^ RealW) <= m /\ m <= 2 ^ RealW => R!Rounded(m) = m
         /\ ~(-(2 ^ RealW) <= m /\ m <= 2 ^ RealW) =>
              R!Rounded(m) % 2 = 0 /\ R!Rounded(m) - m \in {-1, 0, 1}
  BY WidthAssumption DEF R!Rounded

\* A field that can be read is read exactly, as far as its type can hold it.
LEMMA ReadExactly ==
  ASSUME NEW c \in R!Cells
  PROVE  /\ R!ValueOf(type, c) \in Int
         /\ R!Readable(type, c) => R!Exact(c, R!ValueOf(type, c))
<1> DEFINE n == c.n
           i == 2 ^ IntW
           l == 2 ^ LongW
<1>1. n \in Int
  BY CellFacts
<1>2. i \in Nat \ {0} /\ l \in Nat \ {0} /\ l % i = 0
  BY WidthAssumption
<1> HIDE DEF n, i, l
<1>3. /\ n % l \in Nat /\ (n % l) % i \in Nat
      /\ (((n % l) % i) - n) % i = 0 /\ ((n % l) - n) % i = 0
  <2>1. \A x \in Int, y \in Nat \ {0} : x % y \in Nat
    OBVIOUS
  <2>2. n % l \in Nat
    BY <1>1, <1>2, <2>1
  <2>3. (n % l) % i \in Nat
    BY <1>2, <2>1, <2>2
  <2>4. (((n % l) % i) - n) % i = 0 /\ ((n % l) - n) % i = 0
    BY <1>1, <1>2, Congruent
  <2> QED BY <2>2, <2>3, <2>4
<1>4. CASE type = "bool"
  BY <1>1, <1>4 DEF R!ValueOf, R!Exact, n
<1>5. CASE type \in {"int", "long"}
  BY <1>1, <1>5 DEF R!ValueOf, R!Exact, R!Readable, n
<1>6. CASE type = "uint"
  <2>1. R!ValueOf(type, c) = (n % l) % i
    BY <1>6 DEF R!ValueOf, n, i, l
  <2>2. R!Exact(c, (n % l) % i)
    BY <1>3, <1>6 DEF R!Exact, i, n
  <2> QED BY <1>3, <2>1, <2>2 DEF n
<1>7. CASE type = "ulong"
  <2>1. R!ValueOf(type, c) = n % l
    BY <1>7 DEF R!ValueOf, n, l
  <2>2. R!Exact(c, n % l)
    BY <1>3, <1>7 DEF R!Exact, i, n
  <2> QED BY <1>3, <2>1, <2>2 DEF n
<1>8. CASE type = "real"
  <2> DEFINE m == R!Halves(c)
  <2>1. R!ValueOf(type, c) = R!Rounded(m)
    BY <1>8 DEF R!ValueOf
  <2>2. m \in Int
    BY CellFacts
  <2>3. R!Rounded(m) \in Int
    BY <2>2, RoundedNearest
  <2>4. R!Exact(c, R!Rounded(m))
    BY <1>8, <2>2, RoundedNearest DEF R!Exact
  <2> QED BY <2>1, <2>3, <2>4
<1>9. CASE type \notin {"bool", "int", "long", "uint", "ulong", "real"}
  <2>1. R!TextOf(c) \in Int
    BY CellFacts
  <2> QED BY <1>1, <1>9, <2>1 DEF R!ValueOf, R!Exact, n
<1> QED BY <1>4, <1>5, <1>6, <1>7, <1>8, <1>9

----------------------------------------------------------------------------
(* The rows of a result: the inductive invariant *)

\* The rows, and a cursor that is on one of them or past the last, or the
\* model has stopped.
RowsTypeOK ==
  /\ rows \in Seq(R!Cells) /\ seen \in Seq([row : Int, v : Int])
  /\ cur \in Int /\ touched \in BOOLEAN
  /\ rowsFault = "none" => cur \in 0 .. Len(rows)
  /\ each \in {"idle", "loop", "callback", "eof", "break"}

\* An iterator has no tuple, or the one of its row.
IteratorInv ==
  it \in [1 .. 2 -> {[at |-> i, data |-> R!NoData] : i \in Nat}
                      \cup {[at |-> i, data |-> R!TupleOf(i)] : i \in Nat}]

\* While its callback leaves the cursor alone, each() is at the row after those
\* it has shown, or in the callback for the last of them.
EachInv ==
  ~touched =>
    /\ each = "loop" => rowsFault = "none" /\ cur = Len(seen)
    /\ each = "callback" => cur = Len(seen) - 1
    /\ each = "eof" => Len(seen) = Len(rows)
    /\ each \in {"loop", "callback", "eof"} =>
         /\ Len(seen) <= Len(rows)
         /\ \A k \in 1 .. Len(seen) :
               /\ seen[k].row = k - 1
               /\ R!Readable(type, rows[k]) => R!Exact(rows[k], seen[k].v)

\* An optional that was reset is empty until the row is read.
OptionalInv ==
  /\ fresh = "reset" => opt = R!None
  /\ R!OptionalOfThisRow

RowsInv == RowsTypeOK /\ IteratorInv /\ EachInv /\ OptionalInv

\* The invariant says that no reader sees another's row.
LEMMA RowsInvApart ==
  ASSUME RowsInv
  PROVE  R!ReadersKeepApart
<1> USE DEF RowsInv
<1>1. R!IteratorShowsItsRow
  <2> SUFFICES ASSUME NEW k \in 1 .. 2, it[k].data.set
               PROVE  it[k].data = R!TupleOf(it[k].at)
    BY DEF R!IteratorShowsItsRow
  <2>1. \/ \E i \in Nat : it[k] = [at |-> i, data |-> R!NoData]
        \/ \E i \in Nat : it[k] = [at |-> i, data |-> R!TupleOf(i)]
    BY DEF IteratorInv
  <2>2. ~R!NoData.set
    BY DEF R!NoData
  <2>3. CASE \E i \in Nat : it[k] = [at |-> i, data |-> R!NoData]
    <3>1. it[k].data = R!NoData
      BY <2>3
    <3> QED BY <2>2, <3>1
  <2>4. CASE \E i \in Nat : it[k] = [at |-> i, data |-> R!TupleOf(i)]
    <3>1. PICK i \in Nat : it[k] = [at |-> i, data |-> R!TupleOf(i)]
      BY <2>4
    <3>2. it[k].at = i /\ it[k].data = R!TupleOf(i)
      BY <3>1
    <3> QED BY <3>2
  <2> QED BY <2>1, <2>3, <2>4
<1>2. R!EachInOrder
  BY DEF R!EachInOrder, EachInv
<1> QED BY <1>1, <1>2 DEF R!ReadersKeepApart, OptionalInv

\* A result that was just read.
LEMMA RowsStart ==
  ASSUME R!Init
  PROVE  RowsInv
<1>1. rows \in Seq(R!Cells)
  <2>1. PICK n \in 0 .. MaxRows : rows \in [1 .. n -> R!Cells]
    BY DEF R!Init
  <2>2. n \in Nat
    BY ReadersAssumption
  <2> QED BY <2>1, <2>2
<1>2. seen \in Seq([row : Int, v : Int]) /\ Len(seen) = 0
  BY DEF R!Init
<1>3. touched \in BOOLEAN
  <2>1. FALSE \in BOOLEAN
    OBVIOUS
  <2> QED BY <2>1 DEF R!Init
<1>4. RowsTypeOK
  BY <1>1, <1>2, <1>3 DEF R!Init, RowsTypeOK
<1>5. IteratorInv
  BY DEF R!Init, IteratorInv
<1> QED BY <1>4, <1>5 DEF R!Init, RowsInv, EachInv, OptionalInv, R!OptionalOfThisRow

\* What depends on the rows and the type alone stays as it is.
LEMMA ValuesStay ==
  ASSUME UNCHANGED <<rows, type>>
  PROVE  /\ \A i \in Nat : R!TupleOf(i)' = R!TupleOf(i)
         /\ \A i : R!CellAt(i)' = R!CellAt(i)
         /\ \A c : R!Readable(type, c)' = R!Readable(type, c)
         /\ \A c : R!ValueOf(type, c)' = R!ValueOf(type, c)
         /\ \A c, v : R!Exact(c, v)' = R!Exact(c, v)
  BY DEF R!TupleOf, R!CellAt, R!GetValue, R!GetOptional, R!Readable, R!ValueOf, R!Exact

\* Iterators stay as they are.
LEMMA IteratorsStay ==
  ASSUME IteratorInv, UNCHANGED <<rows, type, it>>
  PROVE  IteratorInv'
<1>1. \A i \in Nat : R!TupleOf(i)' = R!TupleOf(i)
  BY ValuesStay
<1>2. R!NoData' = R!NoData
  BY DEF R!NoData, R!None
<1> QED BY <1>1, <1>2 DEF IteratorInv

\* What each() has shown stays shown.
LEMMA ShownStays ==
  ASSUME EachInv, UNCHANGED <<rows, type, seen, each>>, touched' \/ ~touched,
         ~touched' => cur' = cur /\ rowsFault' = rowsFault
  PROVE  EachInv'
  BY ValuesStay DEF EachInv

\* The user moves the cursor, directly or through an iterator.
LEMMA MoveStep ==
  ASSUME RowsInv, NEW i \in Int, R!User, R!MoveTo(i),
         UNCHANGED <<rows, type, opt, each, seen>>
  PROVE  RowsTypeOK' /\ EachInv' /\ OptionalInv'
<1> USE DEF RowsInv
<1>1. cur' = i /\ rowsFault = "none" /\ each # "loop" /\ cur \in 0 .. Len(rows)
      /\ rowsFault' = (IF i \in 0 .. Len(rows) THEN "none" ELSE "range")
  BY DEF R!MoveTo, R!User, RowsTypeOK
<1>2. touched' \in BOOLEAN
  BY DEF R!MoveTo, RowsTypeOK
<1>3. RowsTypeOK'
  BY <1>1, <1>2 DEF RowsTypeOK
<1>4. EachInv'
  BY <1>1, ValuesStay DEF EachInv, R!MoveTo
<1>5. OptionalInv'
  <2>1. CASE i = cur
    <3>1. fresh' = fresh /\ cur' = cur /\ rowsFault' = rowsFault
      BY <1>1, <2>1 DEF R!MoveTo
    <3> QED BY <3>1, ValuesStay DEF OptionalInv, R!OptionalOfThisRow, R!None, R!Some
  <2>2. CASE i # cur
    BY <2>2 DEF R!MoveTo, OptionalInv, R!OptionalOfThisRow
  <2> QED BY <2>1, <2>2
<1> QED BY <1>3, <1>4, <1>5

\* seek, reset, next and prev.
LEMMA CursorStep ==
  ASSUME RowsInv, (\E i \in 0 .. MaxRows : R!Seek(i)) \/ (\E d \in {-1, 1} : R!Step(d))
  PROVE  RowsInv'
<1>1. PICK i \in Int : /\ R!User /\ R!MoveTo(i)
                       /\ UNCHANGED <<rows, type, plain, opt, it, each, seen>>
  <2>1. CASE \E i \in 0 .. MaxRows : R!Seek(i)
    BY <2>1 DEF R!Seek
  <2>2. CASE \E d \in {-1, 1} : R!Step(d)
    <3>1. PICK d \in {-1, 1} : R!Step(d)
      BY <2>2
    <3>2. cur + d \in Int
      BY DEF RowsInv, RowsTypeOK
    <3> QED BY <3>1, <3>2 DEF R!Step
  <2> QED BY <2>1, <2>2
<1> QED BY <1>1, MoveStep, IteratorsStay DEF RowsInv

\* fetch and get_value into a plain variable or an optional.
LEMMA ReadStep ==
  ASSUME RowsInv, R!FetchPlain \/ R!FetchOpt \/ R!ResetOpt
  PROVE  RowsInv'
<1> USE DEF RowsInv
<1>1. UNCHANGED <<rows, cur, type, it, each, seen, touched, rowsFault>>
  BY DEF R!FetchPlain, R!FetchOpt, R!ResetOpt
<1>2. RowsTypeOK' /\ IteratorInv' /\ EachInv'
  BY <1>1, IteratorsStay, ShownStays DEF RowsTypeOK
<1>3. OptionalInv'
  <2>1. CASE R!FetchPlain
    BY <1>1, <2>1, ValuesStay DEF R!FetchPlain, OptionalInv, R!OptionalOfThisRow, R!None, R!Some
  <2>2. CASE R!FetchOpt
    <3>1. /\ opt' = R!GetOptional(cur, opt)
          /\ fresh' = (IF fresh = "reset" THEN "read" ELSE fresh) /\ rowsFault = "none"
      BY <2>2 DEF R!FetchOpt, R!User
    <3>2. opt' = IF R!Readable(type, R!CellAt(cur))
                 THEN R!Some(R!ValueOf(type, R!CellAt(cur))) ELSE opt
      BY <3>1 DEF R!GetOptional
    <3> QED BY <1>1, <3>1, <3>2, ValuesStay DEF OptionalInv, R!OptionalOfThisRow
  <2>3. CASE R!ResetOpt
    BY <2>3 DEF R!ResetOpt, OptionalInv, R!OptionalOfThisRow
  <2> QED BY <2>1, <2>2, <2>3
<1> QED BY <1>2, <1>3

\* An iterator moves, is copied or shows its row.
LEMMA IteratorStep ==
  ASSUME RowsInv,
         \/ \E k \in 1 .. 2 : R!ItDeref(k) \/ \E i \in 0 .. MaxRows : R!ItMove(k, i)
         \/ R!ItCopy(1, 2)
  PROVE  RowsInv'
<1> USE DEF RowsInv
<1> DEFINE Its == {[at |-> i, data |-> R!NoData] : i \in Nat}
                    \cup {[at |-> i, data |-> R!TupleOf(i)] : i \in Nat}
<1>1. it \in [1 .. 2 -> Its]
  BY DEF IteratorInv
<1>2. \A i \in Nat : /\ [at |-> i, data |-> R!NoData] \in Its
                    /\ [at |-> i, data |-> R!TupleOf(i)] \in Its
  OBVIOUS
<1>3. ASSUME UNCHANGED <<rows, type>>, it' \in [1 .. 2 -> Its] PROVE IteratorInv'
  <2>1. \A i \in Nat : R!TupleOf(i)' = R!TupleOf(i)
    BY <1>3, ValuesStay
  <2>2. R!NoData' = R!NoData
    BY DEF R!NoData, R!None
  <2> QED BY <1>3, <2>1, <2>2 DEF IteratorInv
<1>4. ASSUME NEW k \in 1 .. 2, R!ItDeref(k) PROVE RowsInv'
  <2>1. R!User /\ R!MoveTo(it[k].at) /\ UNCHANGED <<rows, type, plain, opt, each, seen>>
        /\ it' = [it EXCEPT ![k].data = R!TupleOf(it[k].at)]
    BY <1>4 DEF R!ItDeref
  <2>2. PICK i \in Nat : \/ it[k] = [at |-> i, data |-> R!NoData]
                         \/ it[k] = [at |-> i, data |-> R!TupleOf(i)]
    BY <1>1
  <2>3. it[k].at = i /\ [it[k] EXCEPT !.data = R!TupleOf(i)] = [at |-> i, data |-> R!TupleOf(i)]
    BY <2>2
  <2>4. it' = [it EXCEPT ![k] = [at |-> i, data |-> R!TupleOf(i)]]
    BY <2>1, <2>3
  <2>5. it' \in [1 .. 2 -> Its]
    <3> HIDE DEF Its
    <3> QED BY <1>1, <1>2, <2>4
  <2> HIDE DEF Its
  <2>6. IteratorInv'
    BY <1>3, <2>1, <2>5
  <2>7. R!MoveTo(i) /\ i \in Int
    BY <2>1, <2>3
  <2>8. RowsTypeOK' /\ EachInv' /\ OptionalInv'
    BY <2>1, <2>7, MoveStep
  <2> QED BY <2>6, <2>8
<1>5. ASSUME UNCHANGED <<rows, cur, type, plain, opt, fresh, each, seen, touched, rowsFault>>,
             it' \in [1 .. 2 -> Its]
      PROVE  RowsInv'
  <2>1. IteratorInv'
    BY <1>3, <1>5
  <2>2. RowsTypeOK' /\ EachInv'
    BY <1>5, ShownStays DEF RowsTypeOK
  <2>3. OptionalInv'
    BY <1>5, ValuesStay DEF OptionalInv, R!OptionalOfThisRow, R!None, R!Some
  <2> QED BY <2>1, <2>2, <2>3
<1>6. ASSUME NEW k \in 1 .. 2, NEW i \in 0 .. MaxRows, R!ItMove(k, i) PROVE RowsInv'
  <2>1. i \in Nat
    BY ReadersAssumption
  <2>2. it' = [it EXCEPT ![k] = [at |-> i, data |-> R!NoData]]
    BY <1>6 DEF R!ItMove, R!SetIndex
  <2>3. it' \in [1 .. 2 -> Its]
    <3> HIDE DEF Its
    <3> QED BY <1>1, <1>2, <2>1, <2>2
  <2> HIDE DEF Its
  <2> QED BY <1>5, <1>6, <2>3 DEF R!ItMove
<1>7. CASE R!ItCopy(1, 2)
  <2> HIDE DEF Its
  <2>1. it' \in [1 .. 2 -> Its]
    BY <1>1, <1>7 DEF R!ItCopy
  <2> QED BY <1>5, <1>7, <2>1 DEF R!ItCopy
<1> QED BY <1>4, <1>6, <1>7

\* each(): its beginning, its end and the way back from the callback.
LEMMA EachLoopStep ==
  ASSUME RowsInv, R!EachBegin \/ R!EachEof \/ R!EachBreak \/ R!EachNext
  PROVE  RowsInv'
<1> USE DEF RowsInv
<1>1. rowsFault = "none" /\ cur \in 0 .. Len(rows) /\ Len(rows) \in Nat /\ Len(seen) \in Nat
  BY DEF R!EachBegin, R!EachEof, R!EachBreak, R!EachNext, RowsTypeOK
<1>2. UNCHANGED <<rows, type, it, opt>>
  BY DEF R!EachBegin, R!EachEof, R!EachBreak, R!EachNext
<1>3. IteratorInv'
  BY <1>2, IteratorsStay
<1>4. CASE R!EachBegin
  <2>1. /\ each' = "loop" /\ cur' = 0 /\ seen' = << >> /\ touched' = FALSE
        /\ fresh' = (IF cur = 0 THEN fresh ELSE "no") /\ rowsFault' = rowsFault
    BY <1>4 DEF R!EachBegin
  <2>2. touched' \in BOOLEAN
    BY <2>1
  <2>3. seen' \in Seq([row : Int, v : Int]) /\ Len(seen') = 0
    BY <2>1
  <2>4. RowsTypeOK' /\ EachInv'
    BY <1>1, <1>2, <2>1, <2>2, <2>3 DEF RowsTypeOK, EachInv
  <2>5. OptionalInv'
    BY <1>1, <1>2, <2>1, ValuesStay DEF OptionalInv, R!OptionalOfThisRow, R!None, R!Some
  <2> QED BY <1>3, <2>4, <2>5
<1>5. CASE R!EachEof \/ R!EachBreak
  <2>1. /\ UNCHANGED <<cur, fresh, seen, touched, rowsFault>>
        /\ \/ each = "loop" /\ cur = Len(rows) /\ each' = "eof"
           \/ each' = "break"
    BY <1>5 DEF R!EachEof, R!EachBreak
  <2>2. RowsTypeOK'
    BY <1>2, <2>1 DEF RowsTypeOK
  <2>3. EachInv'
    BY <1>2, <2>1, ValuesStay DEF EachInv
  <2>4. OptionalInv'
    BY <1>2, <2>1, ValuesStay DEF OptionalInv, R!OptionalOfThisRow, R!None, R!Some
  <2> QED BY <1>3, <2>2, <2>3, <2>4
<1>6. CASE R!EachNext
  <2>1. /\ each = "callback" /\ each' = "loop" /\ cur' = cur + 1 /\ fresh' = "no"
        /\ rowsFault' = (IF cur' <= Len(rows) THEN "none" ELSE "range")
        /\ UNCHANGED <<seen, touched>>
    BY <1>6 DEF R!EachNext
  <2>2. RowsTypeOK'
    BY <1>1, <1>2, <2>1 DEF RowsTypeOK
  <2>3. EachInv'
    BY <1>1, <1>2, <2>1, ValuesStay DEF EachInv
  <2>4. OptionalInv'
    BY <2>1 DEF OptionalInv, R!OptionalOfThisRow
  <2> QED BY <1>3, <2>2, <2>3, <2>4
<1> QED BY <1>4, <1>5, <1>6

\* each() calls back: the row at the cursor is shown, exactly if it can be read.
LEMMA EachCallStep ==
  ASSUME RowsInv, R!EachCall
  PROVE  RowsInv'
<1> USE DEF RowsInv
<1>1. PICK garbage \in {-1, 7} :
        seen' = Append(seen, [row |-> cur, v |-> R!GetValue(cur, garbage)])
  BY DEF R!EachCall
<1>2. /\ rowsFault = "none" /\ each = "loop" /\ each' = "callback"
      /\ cur \in Nat /\ cur < Len(rows) /\ Len(rows) \in Nat /\ Len(seen) \in Nat
      /\ UNCHANGED <<rows, cur, type, opt, fresh, it, touched, rowsFault>>
  BY DEF R!EachCall, RowsTypeOK
<1> DEFINE c == rows[cur + 1]
           x == R!GetValue(cur, garbage)
<1>3. c \in R!Cells /\ R!CellAt(cur) = c
  BY <1>2 DEF RowsTypeOK, R!CellAt
<1>4. x \in Int /\ (R!Readable(type, c) => R!Exact(c, x))
  BY <1>3, ReadExactly DEF R!GetValue
<1> HIDE DEF x
<1>5. [row |-> cur, v |-> x] \in [row : Int, v : Int]
  BY <1>2, <1>4
<1>6. /\ seen' \in Seq([row : Int, v : Int]) /\ Len(seen') = Len(seen) + 1
      /\ \A k \in 1 .. Len(seen) : seen'[k] = seen[k]
      /\ seen'[Len(seen) + 1] = [row |-> cur, v |-> x]
  BY <1>1, <1>5 DEF RowsTypeOK, x
<1>7. RowsTypeOK'
  BY <1>2, <1>6 DEF RowsTypeOK
<1>8. IteratorInv'
  BY <1>2, IteratorsStay
<1>9. EachInv'
  <2> SUFFICES ASSUME ~touched
               PROVE  /\ cur = Len(seen') - 1 /\ Len(seen') <= Len(rows)
                      /\ \A k \in 1 .. Len(seen') :
                            /\ seen'[k].row = k - 1
                            /\ R!Readable(type, rows[k]) => R!Exact(rows[k], seen'[k].v)
    BY <1>2, ValuesStay DEF EachInv
  <2>1. /\ cur = Len(seen)
        /\ \A k \in 1 .. Len(seen) :
              /\ seen[k].row = k - 1
              /\ R!Readable(type, rows[k]) => R!Exact(rows[k], seen[k].v)
    BY <1>2 DEF EachInv
  <2>2. cur = Len(seen') - 1 /\ Len(seen') <= Len(rows)
    BY <1>2, <1>6, <2>1
  <2>3. /\ seen'[Len(seen) + 1].row = Len(seen)
        /\ R!Readable(type, rows[Len(seen) + 1])
             => R!Exact(rows[Len(seen) + 1], seen'[Len(seen) + 1].v)
    BY <1>4, <1>6, <2>1
  <2>4. ASSUME NEW k \in 1 .. Len(seen')
        PROVE  /\ seen'[k].row = k - 1
               /\ R!Readable(type, rows[k]) => R!Exact(rows[k], seen'[k].v)
    <3>1. CASE k \in 1 .. Len(seen)
      BY <1>6, <2>1, <3>1
    <3>2. CASE k = Len(seen) + 1
      BY <1>2, <2>3, <3>2
    <3> QED BY <1>2, <1>6, <3>1, <3>2
  <2> QED BY <2>2, <2>4
<1>10. OptionalInv'
  BY <1>2, ValuesStay DEF OptionalInv, R!OptionalOfThisRow, R!None, R!Some
<1> QED BY <1>7, <1>8, <1>9, <1>10

\* Every call keeps the invariant.
LEMMA RowsStep ==
  ASSUME RowsInv, [R!Next]_R!vars
  PROVE  RowsInv'
<1>1. CASE R!Next
  <2> USE <1>1
  <2>1. CASE (\E i \in 0 .. MaxRows : R!Seek(i)) \/ (\E d \in {-1, 1} : R!Step(d))
    BY <2>1, CursorStep
  <2>2. CASE R!FetchPlain \/ R!FetchOpt \/ R!ResetOpt
    BY <2>2, ReadStep
  <2>3. CASE \/ \E k \in 1 .. 2 : R!ItDeref(k) \/ \E i \in 0 .. MaxRows : R!ItMove(k, i)
             \/ R!ItCopy(1, 2)
    BY <2>3, IteratorStep
  <2>4. CASE R!EachBegin \/ R!EachEof \/ R!EachBreak \/ R!EachNext
    BY <2>4, EachLoopStep
  <2>5. CASE R!EachCall
    BY <2>5, EachCallStep
  <2> QED BY <2>1, <2>2, <2>3, <2>4, <2>5 DEF R!Next
<1>2. CASE UNCHANGED R!vars
  <2>1. UNCHANGED <<rows, cur, type, opt, fresh, it, each, seen, touched, rowsFault>>
    BY <1>2 DEF R!vars
  <2>2. RowsTypeOK' /\ IteratorInv' /\ EachInv'
    BY <2>1, IteratorsStay, ShownStays DEF RowsInv, RowsTypeOK
  <2>3. OptionalInv'
    BY <2>1, ValuesStay DEF RowsInv, OptionalInv, R!OptionalOfThisRow, R!None, R!Some
  <2> QED BY <2>2, <2>3 DEF RowsInv
<1> QED BY <1>1, <1>2

\* result, for any rows, types and widths: an iterator shows its own row, each()
\* the rows in order and exactly, an optional nothing of an earlier row, however
\* they move the one cursor under each other.
THEOREM ReadersStayApart == R!Spec => []R!ReadersKeepApart
<1>1. R!Init => RowsInv
  BY RowsStart
<1>2. RowsInv /\ [R!Next]_R!vars => RowsInv'
  BY RowsStep
<1>3. RowsInv => R!ReadersKeepApart
  BY RowsInvApart
<1> QED BY <1>1, <1>2, <1>3, PTL DEF R!Spec

----------------------------------------------------------------------------
(* The watchdog console, for any number of tokens and pieces of any length.  *)
(* Pieces put together, as in PacketParserProofs:                           *)

Chars == {"a", "b", "^C", "CR", "LF"}

\* The function FlattenSeq is made from: what the first i pieces make together.
Flat(seqs) ==
  LET flatten[i \in 1..Len(seqs)] ==
        IF i = 1 THEN seqs[i] ELSE flatten[i - 1] \o seqs[i]
  IN flatten

FlatOn(seqs, n, f) ==
  \A i \in 1..n : f[i] = IF i = 1 THEN seqs[i] ELSE f[i - 1] \o seqs[i]

\* A function that puts the first n pieces together exists.
LEMMA FlatExists ==
  ASSUME NEW T, NEW seqs \in Seq(Seq(T)), NEW n \in 0..Len(seqs)
  PROVE  \E f \in [1..n -> Seq(T)] : FlatOn(seqs, n, f)
<1> DEFINE P(m) == \E f \in [1..m -> Seq(T)] : FlatOn(seqs, m, f)
<1> DEFINE Bad == {m \in 0..Len(seqs) : ~P(m)}
<1> SUFFICES ASSUME Bad # {} PROVE FALSE
  OBVIOUS
<1>0. Len(seqs) \in Nat
  OBVIOUS
<1>1. PICK m \in Bad : \A y \in Bad : m <= y
  <2>1. Bad \in SUBSET Nat
    BY <1>0
  <2> HIDE DEF Bad
  <2> QED BY <2>1, LeastNumber
<1>2. m \in 0..Len(seqs) /\ ~P(m)
  OBVIOUS
<1>3. P(0)
  <2>1. [i \in 1..0 |-> <<>>] \in [1..0 -> Seq(T)]
    OBVIOUS
  <2>2. FlatOn(seqs, 0, [i \in 1..0 |-> <<>>])
    BY DEF FlatOn
  <2> QED BY <2>1, <2>2
<1>4. m \in 1..Len(seqs) /\ m - 1 \in 0..Len(seqs)
  <2> HIDE DEF P
  <2> QED BY <1>0, <1>2, <1>3
<1>5. P(m - 1)
  <2> HIDE DEF P
  <2>1. m - 1 \notin Bad
    <3> HIDE DEF Bad
    <3> QED BY <1>1, <1>4
  <2> QED BY <1>4, <2>1
<1>6. PICK g \in [1..(m - 1) -> Seq(T)] : FlatOn(seqs, m - 1, g)
  BY <1>5
<1> HIDE DEF Bad, P
<1> DEFINE f == [i \in 1..m |-> IF i = m THEN IF m = 1 THEN seqs[m] ELSE g[m - 1] \o seqs[m]
                                ELSE g[i]]
<1>7. seqs[m] \in Seq(T) /\ (m # 1 => g[m - 1] \in Seq(T))
  BY <1>4
<1>8. f \in [1..m -> Seq(T)]
  <2>1. m # 1 => g[m - 1] \o seqs[m] \in Seq(T)
    BY <1>7, ConcatProperties
  <2>2. \A i \in 1..m : i # m => i \in 1..(m - 1)
    BY <1>4
  <2> QED BY <1>4, <1>7, <2>1, <2>2
<1>9. FlatOn(seqs, m, f)
  <2> SUFFICES ASSUME NEW i \in 1..m
               PROVE  f[i] = IF i = 1 THEN seqs[i] ELSE f[i - 1] \o seqs[i]
    BY DEF FlatOn
  <2>1. CASE i = m
    BY <1>4, <2>1
  <2>2. CASE i # m
    <3>1. i \in 1..(m - 1) /\ f[i] = g[i] /\ (i # 1 => f[i - 1] = g[i - 1])
      BY <1>4, <2>2
    <3> QED BY <1>6, <3>1 DEF FlatOn
  <2> QED BY <2>1, <2>2
<1> QED BY <1>2, <1>8, <1>9 DEF P

\* Flat is such a function, and FlattenSeq its last value.
LEMMA FlatIs ==
  ASSUME NEW T, NEW seqs \in Seq(Seq(T))
  PROVE  /\ FlatOn(seqs, Len(seqs), Flat(seqs))
         /\ W!FlattenSeq(seqs) = IF Len(seqs) = 0 THEN <<>> ELSE Flat(seqs)[Len(seqs)]
<1>0. Len(seqs) \in Nat
  OBVIOUS
<1>1. PICK f \in [1..Len(seqs) -> Seq(T)] : FlatOn(seqs, Len(seqs), f)
  BY <1>0, FlatExists
<1>2. f = [i \in 1..Len(seqs) |-> IF i = 1 THEN seqs[i] ELSE f[i - 1] \o seqs[i]]
  BY <1>1 DEF FlatOn
<1>3. Flat(seqs) = [i \in 1..Len(seqs) |->
                      IF i = 1 THEN seqs[i] ELSE Flat(seqs)[i - 1] \o seqs[i]]
  BY <1>2, Zenon DEF Flat
<1>4. FlatOn(seqs, Len(seqs), Flat(seqs))
  BY <1>3 DEF FlatOn
<1>5. W!FlattenSeq(seqs) = IF Len(seqs) = 0 THEN seqs ELSE Flat(seqs)[Len(seqs)]
  BY Zenon DEF W!FlattenSeq, Flat
<1>6. Len(seqs) = 0 => seqs = <<>>
  OBVIOUS
<1> QED BY <1>4, <1>5, <1>6

\* What stands where in two sequences put together.
LEMMA ConcatFacts ==
  ASSUME NEW T, NEW s \in Seq(T), NEW t \in Seq(T)
  PROVE  /\ s \o t \in Seq(T)
         /\ Len(s) \in Nat /\ Len(t) \in Nat
         /\ Len(s \o t) = Len(s) + Len(t)
         /\ \A i \in 1..Len(s) : (s \o t)[i] = s[i]
         /\ \A i \in 1..Len(t) : (s \o t)[Len(s) + i] = t[i]
<1>1. Len(s) \in Nat /\ Len(t) \in Nat
  OBVIOUS
<1>2. s \o t \in Seq(T) /\ Len(s \o t) = Len(s) + Len(t)
  BY ConcatProperties
<1>3. ASSUME NEW i \in 1..Len(s) PROVE (s \o t)[i] = s[i]
  BY <1>1
<1>4. ASSUME NEW i \in 1..Len(t) PROVE (s \o t)[Len(s) + i] = t[i]
  BY <1>1
<1> QED BY <1>1, <1>2, <1>3, <1>4

\* The values of Flat are sequences, and so is what FlattenSeq makes.
LEMMA FlatTyped ==
  ASSUME NEW T, NEW seqs \in Seq(Seq(T))
  PROVE  /\ \A k \in 1..Len(seqs) : Flat(seqs)[k] \in Seq(T)
         /\ W!FlattenSeq(seqs) \in Seq(T)
<1>0. Len(seqs) \in Nat
  OBVIOUS
<1> DEFINE Bad == {k \in 1..Len(seqs) : Flat(seqs)[k] \notin Seq(T)}
<1>1. Bad = {}
  <2> SUFFICES ASSUME Bad # {} PROVE FALSE
    OBVIOUS
  <2>1. PICK k \in Bad : \A y \in Bad : k <= y
    <3>1. Bad \in SUBSET Nat
      BY <1>0
    <3> HIDE DEF Bad
    <3> QED BY <3>1, LeastNumber
  <2>2. k \in 1..Len(seqs) /\ Flat(seqs)[k] \notin Seq(T)
    OBVIOUS
  <2>3. Flat(seqs)[k] = IF k = 1 THEN seqs[k] ELSE Flat(seqs)[k - 1] \o seqs[k]
    BY <2>2, FlatIs DEF FlatOn
  <2>4. seqs[k] \in Seq(T)
    BY <2>2
  <2>5. k # 1
    BY <2>2, <2>3, <2>4
  <2>6. k - 1 \in 1..Len(seqs)
    BY <1>0, <2>2, <2>5
  <2>7. k - 1 \notin Bad
    <3> HIDE DEF Bad
    <3> QED BY <1>0, <2>1, <2>2
  <2>8. Flat(seqs)[k - 1] \in Seq(T)
    BY <2>6, <2>7
  <2> HIDE DEF Bad
  <2>9. Flat(seqs)[k - 1] \o seqs[k] \in Seq(T)
    BY <2>4, <2>8, ConcatProperties
  <2> QED BY <2>2, <2>3, <2>5, <2>9
<1>2. \A k \in 1..Len(seqs) : Flat(seqs)[k] \in Seq(T)
  BY <1>1
<1> HIDE DEF Bad
<1>3. W!FlattenSeq(seqs) = IF Len(seqs) = 0 THEN <<>> ELSE Flat(seqs)[Len(seqs)]
  BY FlatIs
<1>4. Len(seqs) # 0 => Len(seqs) \in 1..Len(seqs)
  BY <1>0
<1>5. <<>> \in Seq(T)
  OBVIOUS
<1> QED BY <1>2, <1>3, <1>4, <1>5

\* What FlattenSeq makes of one more piece.
LEMMA FlattenAppend ==
  ASSUME NEW T, NEW seqs \in Seq(Seq(T)), NEW x \in Seq(T)
  PROVE  W!FlattenSeq(Append(seqs, x)) = W!FlattenSeq(seqs) \o x
<1> DEFINE n == Len(seqs)
           more == Append(seqs, x)
<1>1. /\ n \in Nat /\ more \in Seq(Seq(T)) /\ Len(more) = n + 1
      /\ \A i \in 1..n : more[i] = seqs[i]
      /\ more[n + 1] = x
  BY AppendProperties
<1> DEFINE Bad == {k \in 1..n : Flat(more)[k] # Flat(seqs)[k]}
<1>2. Bad = {}
  <2> SUFFICES ASSUME Bad # {} PROVE FALSE
    OBVIOUS
  <2>1. PICK k \in Bad : \A y \in Bad : k <= y
    <3>1. Bad \in SUBSET Nat
      BY <1>1
    <3> HIDE DEF Bad
    <3> QED BY <3>1, LeastNumber
  <2>2. k \in 1..n /\ Flat(more)[k] # Flat(seqs)[k]
    OBVIOUS
  <2>3. k # 1 => k - 1 \in 1..n /\ Flat(more)[k - 1] = Flat(seqs)[k - 1]
    <3> SUFFICES ASSUME k # 1 PROVE k - 1 \in 1..n /\ Flat(more)[k - 1] = Flat(seqs)[k - 1]
      OBVIOUS
    <3>1. k - 1 \in 1..n
      BY <1>1, <2>2
    <3>2. k - 1 \notin Bad
      <4> HIDE DEF Bad
      <4> QED BY <1>1, <2>1, <2>2
    <3> QED BY <3>1, <3>2
  <2> HIDE DEF Bad, n, more
  <2>4. Flat(more)[k] = IF k = 1 THEN more[k] ELSE Flat(more)[k - 1] \o more[k]
    <3>1. k \in 1..Len(more)
      BY <1>1, <2>2
    <3> QED BY <1>1, <3>1, FlatIs DEF FlatOn
  <2>5. Flat(seqs)[k] = IF k = 1 THEN seqs[k] ELSE Flat(seqs)[k - 1] \o seqs[k]
    BY <2>2, FlatIs DEF FlatOn, n
  <2> QED BY <1>1, <2>2, <2>3, <2>4, <2>5
<1> HIDE DEF n, more
<1>3. W!FlattenSeq(more) = Flat(more)[n + 1]
  <2>1. W!FlattenSeq(more) = IF Len(more) = 0 THEN <<>> ELSE Flat(more)[Len(more)]
    BY <1>1, FlatIs
  <2> QED BY <1>1, <2>1
<1>4. Flat(more)[n + 1] = IF n + 1 = 1 THEN more[n + 1] ELSE Flat(more)[(n + 1) - 1] \o more[n + 1]
  <2>1. n + 1 \in 1..Len(more)
    BY <1>1
  <2> QED BY <1>1, <2>1, FlatIs DEF FlatOn
<1>5. CASE n = 0
  <2>1. W!FlattenSeq(seqs) = <<>>
    BY <1>5, FlatIs DEF n
  <2>2. W!FlattenSeq(more) = x
    BY <1>1, <1>3, <1>4, <1>5
  <2>3. <<>> \o x = x
    BY ConcatEmptySeq
  <2> QED BY <2>1, <2>2, <2>3 DEF more
<1>6. CASE n # 0
  <2>1. W!FlattenSeq(seqs) = Flat(seqs)[n]
    BY <1>6, FlatIs DEF n
  <2>2. n \in 1..n /\ (n + 1) - 1 = n /\ n + 1 # 1
    BY <1>1, <1>6
  <2>3. Flat(more)[n] = Flat(seqs)[n]
    BY <1>2, <2>2
  <2> QED BY <1>1, <1>3, <1>4, <2>1, <2>2, <2>3 DEF more
<1> QED BY <1>5, <1>6

----------------------------------------------------------------------------
(* start: the bits *)

\* The function Added is made from: the value of the functions asked for at
\* the places of a set.
BitSum(list) ==
  LET sum[s \in SUBSET (DOMAIN list)] ==
        IF s = {} THEN 0
        ELSE LET x == W!Max(s) IN sum[s \ {x}] + W!FuncValue(list[x])
  IN sum

\* addUsingFunc from no functions used gives the sum at every place.
LEMMA AddedIsBitSum ==
  ASSUME NEW list
  PROVE  W!Added(0, list) = BitSum(list)[DOMAIN list]
  BY Zenon DEF W!Added, W!FoldLeft, W!MapThenFoldSet, W!Max, BitSum

\* One function asked for.
LEMMA OneFunction ==
  ASSUME NEW f \in {1, 2}
  PROVE  W!Added(0, <<f>>) = W!FuncValue(f)
<1> DEFINE h == [s \in SUBSET {1} |-> IF s = {} THEN 0 ELSE W!FuncValue(f)]
<1>1. DOMAIN <<f>> = {1} /\ <<f>>[1] = f
  OBVIOUS
<1>2. W!FuncValue(f) \in Nat
  <2>1. W!FuncValue(1) = 2 /\ W!FuncValue(2) = 4
    BY DEF W!FuncValue
  <2> QED BY <2>1
<1>3. W!Max({1}) = 1
  BY DEF W!Max
<1>4. h = [s \in SUBSET (DOMAIN <<f>>) |->
             IF s = {} THEN 0
             ELSE LET x == W!Max(s) IN h[s \ {x}] + W!FuncValue(<<f>>[x])]
  <2> SUFFICES ASSUME NEW s \in SUBSET {1}
               PROVE  h[s] = IF s = {} THEN 0
                             ELSE h[s \ {W!Max(s)}] + W!FuncValue(<<f>>[W!Max(s)])
    BY <1>1, Zenon
  <2>1. CASE s = {}
    BY <2>1
  <2>2. CASE s = {1}
    <3>1. {1} \ {1} = {} /\ {} \in SUBSET {1} /\ {1} # {}
      OBVIOUS
    <3>2. h[{}] = 0 /\ h[{1}] = W!FuncValue(f)
      BY <3>1
    <3> HIDE DEF h
    <3> QED BY <1>1, <1>2, <1>3, <2>2, <3>1, <3>2
  <2> QED BY <2>1, <2>2
<1>5. BitSum(<<f>>) = [s \in SUBSET (DOMAIN <<f>>) |->
             IF s = {} THEN 0
             ELSE LET x == W!Max(s) IN BitSum(<<f>>)[s \ {x}] + W!FuncValue(<<f>>[x])]
  BY <1>4, Zenon DEF BitSum
<1> HIDE DEF h
<1>6. BitSum(<<f>>)[{}] = 0
  BY <1>1, <1>5
<1>7. BitSum(<<f>>)[{1}] = BitSum(<<f>>)[{1} \ {1}] + W!FuncValue(<<f>>[1])
  BY <1>1, <1>3, <1>5
<1>8. {1} \ {1} = {}
  OBVIOUS
<1>9. BitSum(<<f>>)[{1}] = W!FuncValue(f)
  BY <1>1, <1>2, <1>6, <1>7, <1>8
<1> QED BY <1>1, <1>9, AddedIsBitSum

\* Both.
LEMMA BothFunctions == W!Added(0, <<1, 2>>) = 6
<1> DEFINE l == <<1, 2>>
           h == [s \in SUBSET {1, 2} |-> (IF 1 \in s THEN 2 ELSE 0) + (IF 2 \in s THEN 4 ELSE 0)]
<1>1. DOMAIN l = {1, 2} /\ l[1] = 1 /\ l[2] = 2
  OBVIOUS
<1>2. W!FuncValue(1) = 2 /\ W!FuncValue(2) = 4
  BY DEF W!FuncValue
<1>3. W!Max({1}) = 1 /\ W!Max({2}) = 2 /\ W!Max({1, 2}) = 2
  BY DEF W!Max
<1> HIDE DEF l
<1>4. h = [s \in SUBSET (DOMAIN l) |->
             IF s = {} THEN 0 ELSE LET x == W!Max(s) IN h[s \ {x}] + W!FuncValue(l[x])]
  <2> SUFFICES ASSUME NEW s \in SUBSET {1, 2}
               PROVE  h[s] = IF s = {} THEN 0 ELSE h[s \ {W!Max(s)}] + W!FuncValue(l[W!Max(s)])
    BY <1>1, Zenon
  <2>0. /\ {1} \ {1} = {} /\ {2} \ {2} = {} /\ {1, 2} \ {2} = {1}
        /\ {1} # {} /\ {2} # {} /\ {1, 2} # {}
    OBVIOUS
  <2>a. h[{}] = 0 /\ h[{1}] = 2 /\ h[{2}] = 4 /\ h[{1, 2}] = 6
    OBVIOUS
  <2>b. s = {} \/ s = {1} \/ s = {2} \/ s = {1, 2}
    OBVIOUS
  <2> HIDE DEF h
  <2>1. CASE s = {}
    BY <2>a, <2>1
  <2>2. CASE s = {1}
    BY <1>1, <1>2, <1>3, <2>0, <2>a, <2>2
  <2>3. CASE s = {2}
    BY <1>1, <1>2, <1>3, <2>0, <2>a, <2>3
  <2>4. CASE s = {1, 2}
    BY <1>1, <1>2, <1>3, <2>0, <2>a, <2>4
  <2> QED BY <2>b, <2>1, <2>2, <2>3, <2>4
<1>5. BitSum(l) = [s \in SUBSET (DOMAIN l) |->
             IF s = {} THEN 0 ELSE LET x == W!Max(s) IN BitSum(l)[s \ {x}] + W!FuncValue(l[x])]
  BY <1>4, Zenon DEF BitSum
<1> HIDE DEF h
<1>6. /\ {1} \ {1} = {} /\ {1, 2} \ {2} = {1}
  OBVIOUS
<1>7. BitSum(l)[{}] = 0
  BY <1>1, <1>5
<1>8. BitSum(l)[{1}] = BitSum(l)[{1} \ {1}] + W!FuncValue(l[1])
  BY <1>1, <1>3, <1>5
<1>9. BitSum(l)[{1, 2}] = BitSum(l)[{1, 2} \ {2}] + W!FuncValue(l[2])
  BY <1>1, <1>3, <1>5
<1>10. BitSum(l)[{1, 2}] = 6
  BY <1>1, <1>2, <1>6, <1>7, <1>8, <1>9
<1> QED BY <1>1, <1>10, AddedIsBitSum DEF l

----------------------------------------------------------------------------
(* The text of a console *)

\* A CR is always followed by an LF.
Paired(s) == \A i \in 1..Len(s) : s[i] = "CR" => i < Len(s) /\ s[i + 1] = "LF"

\* Two texts in which it is, put together.
LEMMA PairedConcat ==
  ASSUME NEW s \in Seq(Chars), NEW t \in Seq(Chars), Paired(s), Paired(t)
  PROVE  Paired(s \o t)
<1>1. /\ Len(s) \in Nat /\ Len(t) \in Nat /\ Len(s \o t) = Len(s) + Len(t)
      /\ \A i \in 1..Len(s) : (s \o t)[i] = s[i]
      /\ \A i \in 1..Len(t) : (s \o t)[Len(s) + i] = t[i]
  BY ConcatFacts
<1> DEFINE a == Len(s)
           b == Len(t)
           u == s \o t
<1> HIDE DEF a, b, u
<1>2. /\ a \in Nat /\ b \in Nat /\ Len(u) = a + b
      /\ \A i \in 1..a : u[i] = s[i]
      /\ \A i \in 1..b : u[a + i] = t[i]
  BY <1>1 DEF a, b, u
<1> SUFFICES ASSUME NEW i \in 1..(a + b), u[i] = "CR"
             PROVE  i < a + b /\ u[i + 1] = "LF"
  BY <1>2 DEF Paired, u
<1>3. CASE i <= a
  <2>1. i \in 1..a /\ s[i] = "CR"
    BY <1>2, <1>3
  <2>2. i < a /\ s[i + 1] = "LF"
    BY <2>1 DEF Paired, a
  <2>3. i + 1 \in 1..a
    BY <1>2, <2>2
  <2> QED BY <1>2, <2>2, <2>3
<1>4. CASE i > a
  <2>1. i - a \in 1..b /\ a + (i - a) = i /\ a + ((i - a) + 1) = i + 1
    BY <1>2, <1>4
  <2>2. t[i - a] = "CR"
    BY <1>2, <2>1
  <2>3. i - a < b /\ t[(i - a) + 1] = "LF"
    BY <2>1, <2>2 DEF Paired, b
  <2>4. (i - a) + 1 \in 1..b
    BY <1>2, <2>1, <2>3
  <2>5. u[a + ((i - a) + 1)] = t[(i - a) + 1]
    BY <1>2, <2>4
  <2> QED BY <1>2, <2>1, <2>3, <2>5
<1> QED BY <1>2, <1>3, <1>4

\* Whatever tokens are typed, it is in what they make together.
LEMMA TypedIsPaired ==
  ASSUME NEW n \in Nat, NEW s \in [1..n -> W!Tokens]
  PROVE  W!FlattenSeq(s) \in Seq(Chars) /\ Paired(W!FlattenSeq(s))
<1>1. ASSUME NEW x \in W!Tokens PROVE x \in Seq(Chars) /\ Paired(x)
  <2>1. x \in {<<"a">>, <<"b">>, <<"^C">>, <<"CR", "LF">>, <<"LF">>}
    BY DEF W!Tokens, W!CtrlC
  <2>2. x \in Seq(Chars)
    <3>1. \A c \in Chars, d \in Chars : <<c>> \in Seq(Chars) /\ <<c, d>> \in Seq(Chars)
      OBVIOUS
    <3>2. "a" \in Chars /\ "b" \in Chars /\ "^C" \in Chars /\ "CR" \in Chars /\ "LF" \in Chars
      BY DEF Chars
    <3> QED BY <2>1, <3>1, <3>2, Zenon
  <2>3. Paired(x)
    BY <2>1 DEF Paired
  <2> QED BY <2>2, <2>3
<1>2. s \in Seq(Seq(Chars)) /\ Len(s) = n
  BY <1>1
<1>3. W!FlattenSeq(s) \in Seq(Chars)
  BY <1>2, FlatTyped
<1> DEFINE Bad == {k \in 1..n : ~Paired(Flat(s)[k])}
<1>4. Bad = {}
  <2> SUFFICES ASSUME Bad # {} PROVE FALSE
    OBVIOUS
  <2>1. PICK k \in Bad : \A y \in Bad : k <= y
    <3>1. Bad \in SUBSET Nat
      OBVIOUS
    <3> HIDE DEF Bad
    <3> QED BY <3>1, LeastNumber
  <2>2. k \in 1..n /\ ~Paired(Flat(s)[k])
    OBVIOUS
  <2>3. k # 1 => k - 1 \in 1..n /\ Paired(Flat(s)[k - 1])
    <3> SUFFICES ASSUME k # 1 PROVE k - 1 \in 1..n /\ Paired(Flat(s)[k - 1])
      OBVIOUS
    <3>1. k - 1 \in 1..n
      BY <2>2
    <3>2. k - 1 \notin Bad
      <4> HIDE DEF Bad
      <4> QED BY <2>1, <2>2
    <3> QED BY <3>1, <3>2
  <2> HIDE DEF Bad
  <2>4. Flat(s)[k] = IF k = 1 THEN s[k] ELSE Flat(s)[k - 1] \o s[k]
    BY <1>2, <2>2, FlatIs DEF FlatOn
  <2>5. s[k] \in Seq(Chars) /\ Paired(s[k])
    BY <1>1, <2>2
  <2>6. CASE k = 1
    BY <2>2, <2>4, <2>5, <2>6
  <2>7. CASE k # 1
    <3>1. Flat(s)[k - 1] \in Seq(Chars)
      <4>1. k - 1 \in 1..Len(s)
        BY <1>2, <2>3, <2>7
      <4> QED BY <1>2, <4>1, FlatTyped
    <3>2. Paired(Flat(s)[k - 1] \o s[k])
      BY <2>3, <2>5, <2>7, <3>1, PairedConcat
    <3> QED BY <2>2, <2>4, <2>7, <3>2
  <2> QED BY <2>6, <2>7
<1>5. Paired(W!FlattenSeq(s))
  <2>1. W!FlattenSeq(s) = IF Len(s) = 0 THEN <<>> ELSE Flat(s)[Len(s)]
    BY <1>2, FlatIs
  <2>2. CASE n = 0
    <3>1. W!FlattenSeq(s) = <<>> /\ Len(<<>>) = 0
      BY <1>2, <2>1, <2>2
    <3> QED BY <3>1 DEF Paired
  <2>3. CASE n # 0
    <3>1. n \in 1..n /\ W!FlattenSeq(s) = Flat(s)[n]
      BY <1>2, <2>1, <2>3
    <3> QED BY <1>4, <3>1
  <2> QED BY <2>2, <2>3
<1> QED BY <1>3, <1>5

\* FirstEnd is the place of the first CR or LF, or 0.
LEMMA FirstEndIs ==
  ASSUME NEW s \in Seq(Chars)
  PROVE  /\ W!FirstEnd(s) = 0 => \A i \in 1..Len(s) : s[i] # "CR" /\ s[i] # "LF"
         /\ W!FirstEnd(s) # 0 =>
              /\ W!FirstEnd(s) \in 1..Len(s)
              /\ s[W!FirstEnd(s)] = "CR" \/ s[W!FirstEnd(s)] = "LF"
              /\ \A i \in 1..Len(s) : i < W!FirstEnd(s) => s[i] # "CR" /\ s[i] # "LF"
<1> DEFINE I == {i \in 1..Len(s) : s[i] \in {"CR", "LF"}}
<1>1. W!FirstEnd(s) = IF I # {} THEN W!Min(I) ELSE 0
  BY Zenon DEF W!FirstEnd, W!SelectInSeq, W!Min, W!CR, W!LF
<1>2. Len(s) \in Nat /\ I \in SUBSET Nat /\ 0 \notin I
  OBVIOUS
<1>3. I # {} => W!Min(I) \in I /\ \A y \in I : W!Min(I) <= y
  <2> HIDE DEF I
  <2>1. I # {} => \E x \in I : \A y \in I : x <= y
    BY <1>2, LeastNumber
  <2> QED BY <2>1, Zenon DEF W!Min
<1>4. CASE I = {}
  BY <1>1, <1>4
<1>5. CASE I # {}
  <2>1. W!FirstEnd(s) \in I /\ \A y \in I : W!FirstEnd(s) <= y
    BY <1>1, <1>3, <1>5
  <2> DEFINE f == W!FirstEnd(s)
  <2>2. f # 0 /\ f \in 1..Len(s) /\ (s[f] = "CR" \/ s[f] = "LF")
    BY <1>2, <2>1
  <2>3. \A i \in 1..Len(s) : i < f => i \notin I
    <3> HIDE DEF I, f
    <3> QED BY <1>2, <2>1, <2>2 DEF f
  <2> QED BY <2>2, <2>3
<1> QED BY <1>4, <1>5

----------------------------------------------------------------------------
(* The inductive invariant of the console *)

LineEnd == <<"CR", "LF">>

\* The lines of the handled handled, as they were typed.
Lines == [i \in 1..Len(handled) |-> handled[i] \o LineEnd]
Done  == W!FlattenSeq(Lines)

ConsoleTypes ==
  /\ typed \in Seq(Chars) /\ Paired(typed)
  /\ coming \in Seq(Chars) /\ recv_cmd \in Seq(Chars) /\ handled \in Seq(Seq(Chars))
  /\ split \in BOOLEAN /\ burst \in BOOLEAN

\* What start may be asked for.
AskLists == {<<1>>, <<2>>, <<1, 2>>}

StartInv ==
  /\ Len(starts) \in Nat
  /\ starts \in Seq(AskLists)
  /\ Len(starts) = 0 => flags = 0 /\ started = {}
  /\ W!AskedAreStarted

SessionInv ==
  /\ session \in {"none", "open", "ended"}
  /\ session # "ended" => why = "no" /\ closed = 0
  /\ session = "ended" => closed = IF why = "error" THEN 0 ELSE 1

\* What is handled, kept and to come is what was typed, and what is kept begins
\* a line.
Line ==
  /\ (Done \o recv_cmd) \o coming = typed
  /\ Done # <<>> => Done[Len(Done)] = "LF"

LineInv == W!Clean /\ ~split /\ consoleFault = "none" /\ why # "ctrl" => Line

ConsoleInv ==
  ConsoleTypes /\ StartInv /\ SessionInv /\ LineInv /\ W!NoLagWithoutBurst

\* The lines of the handled are texts.
LEMMA DoneIs ==
  ASSUME handled \in Seq(Seq(Chars))
  PROVE  /\ Lines \in Seq(Seq(Chars)) /\ Len(Lines) = Len(handled)
         /\ Done \in Seq(Chars)
<1>1. LineEnd \in Seq(Chars)
  BY DEF LineEnd, Chars
<1>2. \A i \in 1..Len(handled) : handled[i] \o LineEnd \in Seq(Chars)
  <2> SUFFICES ASSUME NEW i \in 1..Len(handled) PROVE handled[i] \o LineEnd \in Seq(Chars)
    OBVIOUS
  <2>1. handled[i] \in Seq(Chars)
    OBVIOUS
  <2> QED BY <1>1, <2>1, ConcatProperties
<1>3. Lines \in Seq(Seq(Chars)) /\ Len(Lines) = Len(handled)
  BY <1>2 DEF Lines
<1>4. Done \in Seq(Chars)
  BY <1>3, FlatTyped DEF Done
<1> QED BY <1>3, <1>4

\* The one command of a turn and its line, in the text of that turn.
LEMMA TurnText ==
  ASSUME W!Clean, typed \in Seq(Chars), Paired(typed),
         NEW done \in Seq(Chars), NEW buf \in Seq(Chars), NEW after \in Seq(Chars),
         typed = (done \o buf) \o after,
         done # <<>> => done[Len(done)] = "LF",
         Len(buf) >= 1, buf[Len(buf)] # "CR"
  PROVE  /\ W!FirstEnd(buf) # 1
         /\ W!FirstEnd(buf) # 0 =>
              /\ W!FirstEnd(buf) \in Nat /\ W!FirstEnd(buf) > 1
              /\ W!FirstEnd(buf) + 1 <= Len(buf)
              /\ buf[W!FirstEnd(buf)] = "CR" /\ buf[W!FirstEnd(buf) + 1] = "LF"
<1> DEFINE d == Len(done)
           m == Len(buf)
           f == W!FirstEnd(buf)
<1>1. d \in Nat /\ m \in Nat /\ m >= 1 /\ Len(typed) \in Nat /\ d + m <= Len(typed)
  <2>1. /\ done \o buf \in Seq(Chars) /\ Len(done \o buf) = d + m /\ d \in Nat /\ m \in Nat
    BY ConcatFacts
  <2>2. Len(typed) = Len(done \o buf) + Len(after) /\ Len(after) \in Nat
    BY <2>1, ConcatFacts
  <2> QED BY <2>1, <2>2
<1>2. \A i \in 1..m : typed[d + i] = buf[i]
  <2> SUFFICES ASSUME NEW i \in 1..m PROVE typed[d + i] = buf[i]
    OBVIOUS
  <2>1. /\ done \o buf \in Seq(Chars) /\ Len(done \o buf) = d + m
        /\ (done \o buf)[d + i] = buf[i]
    BY ConcatFacts
  <2>2. d + i \in 1..Len(done \o buf)
    BY <1>1, <2>1
  <2>3. ((done \o buf) \o after)[d + i] = (done \o buf)[d + i]
    BY <2>1, <2>2, ConcatFacts
  <2> QED BY <2>1, <2>3
<1>3. d # 0 => typed[d] = "LF"
  <2> SUFFICES ASSUME d # 0 PROVE typed[d] = "LF"
    OBVIOUS
  <2>1. /\ done \o buf \in Seq(Chars) /\ Len(done \o buf) = d + m
        /\ \A i \in 1..d : (done \o buf)[i] = done[i]
    BY ConcatFacts
  <2>2. d \in 1..d /\ d \in 1..Len(done \o buf) /\ done # <<>>
    BY <1>1, <2>1
  <2>3. ((done \o buf) \o after)[d] = (done \o buf)[d]
    BY <2>1, <2>2, ConcatFacts
  <2> QED BY <2>1, <2>2, <2>3
<1>4. /\ \A i \in 1..Len(typed) : typed[i] = "LF" => i > 2 /\ typed[i - 1] = "CR"
      /\ \A i \in 1..Len(typed) : typed[i] = "CR" => i > 1 /\ typed[i - 1] # "LF"
  BY DEF W!Clean, W!CR, W!LF
<1>5. buf[1] # "CR" /\ buf[1] # "LF"
  <2>1. 1 \in 1..m /\ d + 1 \in 1..Len(typed) /\ (d + 1) - 1 = d
    BY <1>1
  <2>2. typed[d + 1] = buf[1]
    BY <1>2, <2>1
  <2>3. typed[d + 1] # "LF"
    <3> SUFFICES ASSUME typed[d + 1] = "LF" PROVE FALSE
      OBVIOUS
    <3>1. d + 1 > 2 /\ typed[(d + 1) - 1] = "CR"
      BY <1>4, <2>1
    <3> QED BY <1>1, <1>3, <2>1, <3>1
  <2>4. typed[d + 1] # "CR"
    <3> SUFFICES ASSUME typed[d + 1] = "CR" PROVE FALSE
      OBVIOUS
    <3>1. d + 1 > 1 /\ typed[(d + 1) - 1] # "LF"
      BY <1>4, <2>1
    <3> QED BY <1>1, <1>3, <2>1, <3>1
  <2> QED BY <2>2, <2>3, <2>4
<1>6. /\ f = 0 => \A i \in 1..m : buf[i] # "CR" /\ buf[i] # "LF"
      /\ f # 0 => /\ f \in 1..m
                  /\ buf[f] = "CR" \/ buf[f] = "LF"
                  /\ \A i \in 1..m : i < f => buf[i] # "CR" /\ buf[i] # "LF"
  BY FirstEndIs
<1> HIDE DEF d, m, f
<1>7. f # 1
  BY <1>5, <1>6
<1>8. ASSUME f # 0 PROVE f \in Nat /\ f > 1 /\ f + 1 <= m /\ buf[f] = "CR" /\ buf[f + 1] = "LF"
  <2>1. f \in 1..m /\ f > 1 /\ f - 1 \in 1..m /\ d + f \in 1..Len(typed)
        /\ (d + f) - 1 = d + (f - 1) /\ f - 1 < f
    <3>1. f \in 1..m
      BY <1>6, <1>8
    <3> DEFINE t == Len(typed)
    <3>2. t \in Nat /\ d + m <= t /\ d \in Nat /\ m \in Nat
      BY <1>1
    <3> HIDE DEF t
    <3>3. f \in 1..m /\ f > 1 /\ f - 1 \in 1..m /\ d + f \in 1..t
          /\ (d + f) - 1 = d + (f - 1) /\ f - 1 < f
      BY <1>7, <3>1, <3>2
    <3> QED BY <3>3 DEF t
  <2>2. typed[d + f] = buf[f] /\ typed[d + (f - 1)] = buf[f - 1]
    BY <1>2, <2>1
  <2>3. buf[f - 1] # "CR"
    BY <1>6, <1>8, <2>1
  <2>4. buf[f] # "LF"
    BY <1>4, <2>1, <2>2, <2>3
  <2>5. buf[f] = "CR"
    BY <1>6, <1>8, <2>4
  <2>6. f # m
    BY <2>5 DEF m
  <2>7. f + 1 \in 1..m /\ d + (f + 1) = (d + f) + 1
    BY <1>1, <2>1, <2>6
  <2>8. typed[(d + f) + 1] = "LF"
    BY <2>1, <2>2, <2>5 DEF Paired
  <2>9. buf[f + 1] = "LF"
    BY <1>2, <2>7, <2>8
  <2> QED BY <1>1, <2>1, <2>5, <2>7, <2>9
<1> QED BY <1>7, <1>8 DEF f, m

\* A text is its command, the line end and what follows.
LEMMA TextParts ==
  ASSUME NEW buf \in Seq(Chars), NEW f \in Nat, f > 1, f + 1 <= Len(buf),
         buf[f] = "CR", buf[f + 1] = "LF"
  PROVE  /\ SubSeq(buf, 1, f - 1) \in Seq(Chars)
         /\ SubSeq(buf, f + 2, Len(buf)) \in Seq(Chars)
         /\ Len(SubSeq(buf, f + 2, Len(buf))) = Len(buf) - (f + 1)
         /\ \A i \in 1..(Len(buf) - (f + 1)) :
              SubSeq(buf, f + 2, Len(buf))[i] = buf[f + 1 + i]
         /\ buf = (SubSeq(buf, 1, f - 1) \o LineEnd) \o SubSeq(buf, f + 2, Len(buf))
<1> DEFINE m == Len(buf)
           a == SubSeq(buf, 1, f - 1)
           c == SubSeq(buf, f + 2, m)
           b == SubSeq(buf, f, f + 1)
<1>1. m \in Nat
  OBVIOUS
<1>2. \A i \in 1..m : buf[i] \in Chars
  OBVIOUS
<1>3. /\ \A i \in 1..(f - 1) : buf[i] \in Chars
      /\ \A i \in (f + 2)..m : buf[i] \in Chars
      /\ \A i \in f..(f + 1) : buf[i] \in Chars
  BY <1>1, <1>2
<1>4. a \in Seq(Chars)
  BY <1>3, SubSeqProperties
<1>5. /\ c \in Seq(Chars) /\ Len(c) = (IF f + 2 <= m THEN m - (f + 2) + 1 ELSE 0)
      /\ \A i \in 1..(m - (f + 2) + 1) : c[i] = buf[f + 2 + i - 1]
  BY <1>1, <1>3, SubSeqProperties
<1>6. b = LineEnd
  <2>1. /\ b \in Seq(Chars) /\ Len(b) = (IF f <= f + 1 THEN f + 1 - f + 1 ELSE 0)
        /\ \A i \in 1..(f + 1 - f + 1) : b[i] = buf[f + i - 1]
    BY <1>3, SubSeqProperties
  <2>2. 1 \in 1..(f + 1 - f + 1) /\ 2 \in 1..(f + 1 - f + 1) /\ f + 1 - 1 = f /\ f + 2 - 1 = f + 1
    OBVIOUS
  <2>3. Len(b) = 2 /\ b[1] = "CR" /\ b[2] = "LF"
    <3> HIDE DEF b
    <3> QED BY <2>1, <2>2
  <2>4. LineEnd \in Seq(Chars) /\ Len(LineEnd) = 2 /\ LineEnd[1] = "CR" /\ LineEnd[2] = "LF"
    BY DEF LineEnd, Chars
  <2> HIDE DEF b
  <2>5. \A i \in 1..Len(b) : b[i] = LineEnd[i]
    BY <2>3, <2>4
  <2> QED BY <2>1, <2>3, <2>4, <2>5, SeqEqual
<1>7. buf = (a \o b) \o c
  <2>1. SubSeq(buf, 1, f - 1) \o SubSeq(buf, (f - 1) + 1, f + 1) = SubSeq(buf, 1, f + 1)
    <3>1. 1 \in 1..(m + 1) /\ f - 1 \in (1 - 1)..m /\ f + 1 \in (f - 1)..m
      BY <1>1
    <3> QED BY <3>1, ConcatAdjacentSubSeq
  <2>2. SubSeq(buf, 1, f + 1) \o SubSeq(buf, (f + 1) + 1, m) = SubSeq(buf, 1, m)
    <3>1. 1 \in 1..(m + 1) /\ f + 1 \in (1 - 1)..m /\ m \in (f + 1)..m
      BY <1>1
    <3> QED BY <3>1, ConcatAdjacentSubSeq
  <2>3. SubSeq(buf, 1, m) = buf
    BY SubSeqFull
  <2>4. (f - 1) + 1 = f /\ (f + 1) + 1 = f + 2
    OBVIOUS
  <2> QED BY <2>1, <2>2, <2>3, <2>4
<1> HIDE DEF a, b, c, m
<1>8. Len(c) = m - (f + 1)
  BY <1>1, <1>5 DEF m
<1>9. \A i \in 1..(m - (f + 1)) : c[i] = buf[f + 1 + i]
  <2> SUFFICES ASSUME NEW i \in 1..(m - (f + 1)) PROVE c[i] = buf[f + 1 + i]
    OBVIOUS
  <2>1. i \in 1..(m - (f + 2) + 1) /\ f + 2 + i - 1 = f + 1 + i
    BY <1>1
  <2> QED BY <1>5, <2>1
<1> QED BY <1>4, <1>5, <1>6, <1>7, <1>8, <1>9 DEF a, c, m

----------------------------------------------------------------------------
(* The steps of the console *)

\* What stands where in two texts put together.
LEMMA TextConcat ==
  ASSUME NEW s \in Seq(Chars), NEW t \in Seq(Chars)
  PROVE  /\ s \o t \in Seq(Chars)
         /\ Len(s) \in Nat /\ Len(t) \in Nat
         /\ Len(s \o t) = Len(s) + Len(t)
         /\ \A i \in 1..Len(s) : (s \o t)[i] = s[i]
         /\ \A i \in 1..Len(t) : (s \o t)[Len(s) + i] = t[i]
  BY ConcatFacts

\* Three texts are put together in either order.
LEMMA TextAssociative ==
  ASSUME NEW s \in Seq(Chars), NEW t \in Seq(Chars), NEW u \in Seq(Chars)
  PROVE  (s \o t) \o u = s \o (t \o u)
  BY ConcatAssociative

\* One line more.
LEMMA LineAdded ==
  ASSUME NEW lines \in Seq(Seq(Chars)), NEW x \in Seq(Chars)
  PROVE  /\ Append(lines, x) \in Seq(Seq(Chars)) /\ Len(Append(lines, x)) = Len(lines) + 1
         /\ \A i \in 1..Len(lines) : Append(lines, x)[i] = lines[i]
         /\ Append(lines, x)[Len(lines) + 1] = x
  BY AppendProperties

\* A piece read and what is still to come are what was to come.
LEMMA PieceRead ==
  ASSUME NEW c \in Seq(Chars), NEW n \in 1..Len(c)
  PROVE  /\ SubSeq(c, 1, n) \in Seq(Chars) /\ Len(SubSeq(c, 1, n)) = n
         /\ SubSeq(c, n + 1, Len(c)) \in Seq(Chars)
         /\ SubSeq(c, 1, n) \o SubSeq(c, n + 1, Len(c)) = c
<1>1. Len(c) \in Nat /\ n \in Nat
  OBVIOUS
<1>2. (\A i \in 1..n : c[i] \in Chars) /\ (\A i \in (n + 1)..Len(c) : c[i] \in Chars)
  BY <1>1
<1>3. SubSeq(c, 1, n) \in Seq(Chars) /\ Len(SubSeq(c, 1, n)) = (IF 1 <= n THEN n - 1 + 1 ELSE 0)
  BY <1>1, <1>2, SubSeqProperties
<1>4. SubSeq(c, n + 1, Len(c)) \in Seq(Chars)
  BY <1>1, <1>2, SubSeqProperties
<1>5. SubSeq(c, 1, n) \o SubSeq(c, n + 1, Len(c)) = SubSeq(c, 1, Len(c))
  <2>1. 1 \in 1..(Len(c) + 1) /\ n \in (1 - 1)..Len(c) /\ Len(c) \in n..Len(c)
    BY <1>1
  <2> QED BY <2>1, ConcatAdjacentSubSeq
<1>6. SubSeq(c, 1, Len(c)) = c
  BY SubSeqFull
<1>7. Len(SubSeq(c, 1, n)) = n
  BY <1>1, <1>3
<1> QED BY <1>3, <1>4, <1>5, <1>6, <1>7

\* A turn that handles a command adds its line to the lines done.
LEMMA DoneGrows ==
  ASSUME handled \in Seq(Seq(Chars)), NEW cmd \in Seq(Chars), handled' = handled \o <<cmd>>
  PROVE  handled' \in Seq(Seq(Chars)) /\ Done' = Done \o (cmd \o LineEnd)
<1>1. /\ handled' = Append(handled, cmd) /\ handled' \in Seq(Seq(Chars))
      /\ Len(handled') = Len(handled) + 1 /\ Len(handled) \in Nat
      /\ \A i \in 1..Len(handled) : handled'[i] = handled[i]
      /\ handled'[Len(handled) + 1] = cmd
  <2>1. handled' = Append(handled, cmd)
    BY AppendIsConcat
  <2> QED BY <2>1, AppendProperties
<1>2. LineEnd \in Seq(Chars)
  BY DEF LineEnd, Chars
<1>3. cmd \o LineEnd \in Seq(Chars)
  BY <1>2, ConcatProperties
<1>4. Lines' = Append(Lines, cmd \o LineEnd)
  <2> DEFINE k == Len(handled)
             more == Append(Lines, cmd \o LineEnd)
  <2>1. Lines \in Seq(Seq(Chars)) /\ Len(Lines) = k
    BY DoneIs
  <2>2. /\ more \in Seq(Seq(Chars)) /\ Len(more) = k + 1
        /\ \A i \in 1..k : more[i] = Lines[i]
        /\ more[k + 1] = cmd \o LineEnd
    <3>1. /\ more \in Seq(Seq(Chars)) /\ Len(more) = Len(Lines) + 1
          /\ \A i \in 1..Len(Lines) : more[i] = Lines[i]
          /\ more[Len(Lines) + 1] = cmd \o LineEnd
      BY <1>3, <2>1, LineAdded, Zenon
    <3> QED BY <2>1, <3>1, Zenon
  <2>3. Lines' = [i \in 1..(k + 1) |-> handled'[i] \o LineEnd]
    BY <1>1 DEF Lines
  <2>4. \A i \in 1..k : Lines[i] = handled[i] \o LineEnd
    BY DEF Lines
  <2>5. k \in Nat
    BY <1>1
  <2> HIDE DEF more
  <2>6. ASSUME NEW i \in 1..(k + 1) PROVE handled'[i] \o LineEnd = more[i]
    <3>1. CASE i = k + 1
      BY <1>1, <2>2, <3>1
    <3>2. CASE i # k + 1
      <4>1. i \in 1..k
        BY <2>5, <3>2
      <4> QED BY <1>1, <2>2, <2>4, <4>1
    <3> QED BY <3>1, <3>2
  <2>7. more = [i \in 1..(k + 1) |-> more[i]]
    BY <2>2
  <2>8. Lines' = more
    BY <2>3, <2>6, <2>7
  <2> QED BY <2>8 DEF more
<1>5. W!FlattenSeq(Append(Lines, cmd \o LineEnd)) = W!FlattenSeq(Lines) \o (cmd \o LineEnd)
  BY <1>3, DoneIs, FlattenAppend
<1> QED BY <1>1, <1>4, <1>5 DEF Done

\* One turn of the loop.
LEMMA ReadTurn ==
  ASSUME ConsoleInv, NEW n \in Nat, W!Read(n)
  PROVE  ConsoleTypes' /\ LineInv' /\ W!NoLagWithoutBurst'
<1> DEFINE piece == SubSeq(coming, 1, n)
           buf == recv_cmd \o piece
           f == W!FirstEnd(buf)
<1>1. /\ n \in 1..Len(coming) /\ consoleFault = "none" /\ session = "open"
      /\ coming' = SubSeq(coming, n + 1, Len(coming))
      /\ recv_cmd' = W!Rest(buf)
      /\ handled' = handled \o W!Commands(buf)
      /\ typed' = typed /\ why' = why
  BY Zenon DEF W!Read, W!Open
<1>2. /\ split' = (split \/ piece[Len(piece)] = "CR")
      /\ burst' = (burst \/ W!Several(piece))
  BY Zenon DEF W!Read, W!Last, W!CR
<1>3. /\ typed \in Seq(Chars) /\ Paired(typed) /\ coming \in Seq(Chars)
      /\ recv_cmd \in Seq(Chars) /\ handled \in Seq(Seq(Chars))
      /\ split \in BOOLEAN /\ burst \in BOOLEAN
  BY DEF ConsoleInv, ConsoleTypes
<1>4. /\ piece \in Seq(Chars) /\ Len(piece) = n /\ coming' \in Seq(Chars)
      /\ piece \o coming' = coming
  BY <1>1, <1>3, PieceRead
<1> HIDE DEF piece
<1>5. /\ buf \in Seq(Chars) /\ Len(recv_cmd) \in Nat
      /\ Len(buf) = Len(recv_cmd) + n
      /\ \A i \in 1..Len(recv_cmd) : buf[i] = recv_cmd[i]
      /\ \A i \in 1..n : buf[Len(recv_cmd) + i] = piece[i]
  <2>1. /\ buf \in Seq(Chars) /\ Len(recv_cmd) \in Nat
        /\ Len(buf) = Len(recv_cmd) + Len(piece)
        /\ \A i \in 1..Len(recv_cmd) : buf[i] = recv_cmd[i]
        /\ \A i \in 1..Len(piece) : buf[Len(recv_cmd) + i] = piece[i]
    BY <1>3, <1>4, TextConcat, Zenon
  <2> QED BY <1>4, <2>1, Zenon
<1> HIDE DEF buf
<1>6. n >= 1 /\ Len(buf) \in Nat /\ Len(buf) >= 1
  BY <1>1, <1>3, <1>5
<1>7. buf[Len(buf)] = piece[Len(piece)]
  <2>1. n \in 1..n
    BY <1>6
  <2> QED BY <1>4, <1>5, <2>1
<1>8. /\ W!Rest(buf) = IF f = 0 THEN buf ELSE IF f = 1 THEN <<>>
                        ELSE SubSeq(buf, f + 2, Len(buf))
      /\ W!Commands(buf) = IF f > 1 THEN <<SubSeq(buf, 1, f - 1)>> ELSE <<>>
  BY DEF W!Rest, W!Commands, W!Erased
<1>9. f \in Nat /\ f <= Len(buf)
  BY <1>5, <1>6, FirstEndIs
<1>10. split' \in BOOLEAN /\ burst' \in BOOLEAN /\ (~split' => ~split /\ piece[Len(piece)] # "CR")
       /\ (~burst' => ~burst /\ ~W!Several(piece))
  BY <1>2, <1>3
<1>11. ConsoleTypes'
  <2>1. recv_cmd' \in Seq(Chars)
    <3>1. \A i \in (f + 2)..Len(buf) : buf[i] \in Chars
      BY <1>5, <1>6, <1>9
    <3>2. SubSeq(buf, f + 2, Len(buf)) \in Seq(Chars)
      BY <1>6, <1>9, <3>1, SubSeqProperties
    <3>3. <<>> \in Seq(Chars)
      OBVIOUS
    <3> HIDE DEF f
    <3> QED BY <1>1, <1>5, <1>8, <3>2, <3>3
  <2>2. handled' \in Seq(Seq(Chars))
    <3>1. \A i \in 1..(f - 1) : buf[i] \in Chars
      BY <1>5, <1>6, <1>9
    <3>2. SubSeq(buf, 1, f - 1) \in Seq(Chars)
      BY <1>6, <1>9, <3>1, SubSeqProperties
    <3>3. CASE f > 1
      <4>1. handled' = handled \o <<SubSeq(buf, 1, f - 1)>>
        BY <1>1, <1>8, <3>3
      <4> QED BY <1>3, <3>2, <4>1, DoneGrows
    <3>4. CASE ~(f > 1)
      <4>1. handled' = handled \o <<>>
        BY <1>1, <1>8, <3>4
      <4> QED BY <1>3, <4>1, ConcatEmptySeq
    <3> QED BY <3>3, <3>4
  <2> QED BY <1>1, <1>3, <1>4, <1>10, <2>1, <2>2 DEF ConsoleTypes
<1>12. ASSUME W!Clean', ~split'
       PROVE  Line /\ W!Clean /\ ~split /\ typed = (Done \o buf) \o coming'
  <2>1. W!Clean /\ why # "ctrl" /\ ~split
    <3>1. W!Clean
      BY <1>1, <1>12 DEF W!Clean, W!CR, W!LF
    <3>2. why = "no"
      BY <1>1 DEF ConsoleInv, SessionInv
    <3> QED BY <1>10, <1>12, <3>1, <3>2
  <2>2. Line
    BY <1>1, <2>1 DEF ConsoleInv, LineInv
  <2>3. typed = (Done \o recv_cmd) \o coming /\ Done \in Seq(Chars)
    BY <1>3, <2>2, DoneIs DEF Line
  <2>4. Done \o recv_cmd \in Seq(Chars)
    BY <1>3, <2>3, ConcatProperties
  <2>5. ((Done \o recv_cmd) \o piece) \o coming' = (Done \o recv_cmd) \o (piece \o coming')
    BY <1>4, <2>4, TextAssociative, Zenon
  <2>6. (Done \o recv_cmd) \o piece = Done \o (recv_cmd \o piece)
    <3>1. Done \in Seq(Chars) /\ recv_cmd \in Seq(Chars) /\ piece \in Seq(Chars)
      BY <1>3, <1>4, <2>3
    <3> QED BY <3>1, TextAssociative, Zenon
  <2> QED BY <1>4, <2>1, <2>2, <2>3, <2>5, <2>6 DEF buf
<1>13. ASSUME W!Clean', ~split'
       PROVE  /\ f # 1
              /\ f # 0 => /\ f > 1 /\ f + 1 <= Len(buf)
                          /\ buf[f] = "CR" /\ buf[f + 1] = "LF"
  <2>1. /\ W!Clean /\ typed = (Done \o buf) \o coming' /\ Done \in Seq(Chars)
        /\ Done # <<>> => Done[Len(Done)] = "LF"
    BY <1>3, <1>12, <1>13, DoneIs DEF Line
  <2>2. buf[Len(buf)] # "CR"
    BY <1>7, <1>10, <1>13
  <2> QED BY <1>3, <1>4, <1>5, <1>6, <2>1, <2>2, TurnText
<1>14. LineInv'
  <2> SUFFICES ASSUME W!Clean', ~split' PROVE Line'
    BY DEF LineInv
  <2>1. Line /\ typed = (Done \o buf) \o coming'
    BY <1>12
  <2>2. Done \in Seq(Chars)
    BY <1>3, DoneIs
  <2>3. CASE f = 0
    <3>1. recv_cmd' = buf /\ handled' = handled \o <<>>
      BY <1>1, <1>8, <2>3
    <3>2. handled' = handled
      BY <1>3, <3>1, ConcatEmptySeq
    <3>3. Done' = Done
      BY <3>2 DEF Done, Lines
    <3> QED BY <1>1, <2>1, <3>1, <3>3 DEF Line
  <2>4. CASE f # 0
    <3> DEFINE cmd == SubSeq(buf, 1, f - 1)
               behind == SubSeq(buf, f + 2, Len(buf))
               line == cmd \o LineEnd
    <3>1. f > 1 /\ f + 1 <= Len(buf) /\ buf[f] = "CR" /\ buf[f + 1] = "LF"
      BY <1>13, <2>4
    <3>2. recv_cmd' = behind /\ handled' = handled \o <<cmd>>
      <4>1. f # 0 /\ f # 1 /\ f > 1
        BY <1>9, <3>1
      <4> HIDE DEF f
      <4> QED BY <1>1, <1>8, <4>1, Zenon
    <3>3. cmd \in Seq(Chars) /\ behind \in Seq(Chars) /\ buf = line \o behind
      BY <1>5, <1>9, <3>1, TextParts
    <3> HIDE DEF cmd, behind
    <3>4. Done' = Done \o line
      BY <1>3, <3>2, <3>3, DoneGrows
    <3>5. LineEnd \in Seq(Chars) /\ Len(LineEnd) = 2 /\ LineEnd[2] = "LF"
      BY DEF LineEnd, Chars
    <3>6. /\ line \in Seq(Chars) /\ Len(line) = Len(cmd) + 2 /\ Len(cmd) \in Nat
          /\ line[Len(cmd) + 2] = "LF"
      <4>1. /\ line \in Seq(Chars) /\ Len(line) = Len(cmd) + Len(LineEnd) /\ Len(cmd) \in Nat
            /\ \A i \in 1..Len(LineEnd) : line[Len(cmd) + i] = LineEnd[i]
        BY <3>3, <3>5, TextConcat, Zenon
      <4>2. 2 \in 1..Len(LineEnd)
        BY <3>5
      <4>3. line[Len(cmd) + 2] = "LF"
        BY <3>5, <4>1, <4>2
      <4> QED BY <3>5, <4>1, <4>3
    <3> HIDE DEF line
    <3>7. Done \o (line \o behind) = (Done \o line) \o behind
      BY <2>2, <3>3, <3>6, TextAssociative, Zenon
    <3>8. (Done' \o recv_cmd') \o coming' = typed'
      BY <1>1, <2>1, <3>2, <3>3, <3>4, <3>7
    <3>9. (Done \o line)[Len(Done \o line)] = "LF"
      <4>1. /\ Len(Done \o line) = Len(Done) + Len(line)
            /\ \A i \in 1..Len(line) : (Done \o line)[Len(Done) + i] = line[i]
        BY <2>2, <3>6, TextConcat, Zenon
      <4>2. Len(line) \in 1..Len(line) /\ line[Len(line)] = "LF"
        BY <3>6
      <4> QED BY <4>1, <4>2
    <3> QED BY <3>4, <3>8, <3>9 DEF Line
  <2> QED BY <2>3, <2>4
<1>15. W!NoLagWithoutBurst'
  <2> SUFFICES ASSUME W!Clean', ~split', ~burst', W!Has(recv_cmd, "LF")' PROVE FALSE
    BY DEF W!NoLagWithoutBurst, W!LF
  <2>1. ~burst /\ ~W!Several(piece) /\ W!Clean /\ ~split
    BY <1>10, <1>12
  <2>2. ~W!Has(recv_cmd, "LF")
    BY <1>1, <2>1 DEF ConsoleInv, W!NoLagWithoutBurst, W!LF
  <2>3. \A i \in 1..Len(recv_cmd) : recv_cmd[i] # "LF"
    BY <2>2 DEF W!Has
  <2>4. PICK i \in 1..Len(recv_cmd') : recv_cmd'[i] = "LF"
    BY DEF W!Has
  <2>5. CASE f = 0
    <3>1. recv_cmd' = buf
      BY <1>1, <1>8, <2>5
    <3> QED BY <1>5, <2>4, <2>5, <3>1, FirstEndIs
  <2>6. CASE f # 0
    <3> DEFINE behind == SubSeq(buf, f + 2, Len(buf))
               r == Len(recv_cmd)
    <3>1. f > 1 /\ f + 1 <= Len(buf) /\ buf[f] = "CR" /\ buf[f + 1] = "LF"
      BY <1>13, <2>6
    <3>2. recv_cmd' = behind
      <4>1. f # 0 /\ f # 1
        BY <1>9, <3>1
      <4> HIDE DEF f
      <4> QED BY <1>1, <1>8, <4>1, Zenon
    <3>3. /\ Len(behind) = Len(buf) - (f + 1)
          /\ \A k \in 1..(Len(buf) - (f + 1)) : behind[k] = buf[f + 1 + k]
      BY <1>5, <1>9, <3>1, TextParts
    <3> HIDE DEF behind, f, r
    <3>4. r \in Nat /\ Len(buf) = r + n
      BY <1>5 DEF r
    <3>5. i \in 1..(Len(buf) - (f + 1)) /\ buf[f + 1 + i] = "LF"
      BY <2>4, <3>2, <3>3
    <3>6. /\ f + 1 \in 1..(r + n) /\ f + 1 + i \in 1..(r + n) /\ i \in Nat /\ i >= 1
      BY <1>9, <3>1, <3>4, <3>5
    <3>7. ASSUME NEW k \in 1..(r + n), buf[k] = "LF"
          PROVE  k - r \in 1..n /\ piece[k - r] = "LF"
      <4>1. ~(k <= r)
        <5> SUFFICES ASSUME k <= r PROVE FALSE
          OBVIOUS
        <5>1. k \in 1..r
          BY <3>4
        <5> QED BY <1>5, <2>3, <3>7, <5>1 DEF r
      <4>2. k - r \in 1..n /\ r + (k - r) = k
        BY <3>4, <4>1
      <4>3. buf[r + (k - r)] = piece[k - r]
        BY <1>5, <4>2 DEF r
      <4> QED BY <3>7, <4>2, <4>3
    <3>8. /\ (f + 1) - r \in 1..n /\ piece[(f + 1) - r] = "LF"
          /\ (f + 1 + i) - r \in 1..n /\ piece[(f + 1 + i) - r] = "LF"
      BY <3>1, <3>5, <3>6, <3>7
    <3>9. (f + 1) - r < (f + 1 + i) - r
      BY <1>9, <3>4, <3>6
    <3>10. W!Several(piece)
      BY <1>4, <3>8, <3>9 DEF W!Several, W!LF
    <3> QED BY <2>1, <3>10
  <2> QED BY <2>5, <2>6
<1> QED BY <1>11, <1>14, <1>15

\* start asks for functions by adding their bits; asked for once, each is
\* started and no other.
LEMMA StartStep ==
  ASSUME StartInv, NEW list \in AskLists, W!Start(list)
  PROVE  StartInv'
<1>1. /\ flags' = W!Added(flags, list)
      /\ started' = started \cup {f \in {1, 2} : W!IsUsing(flags', f)}
      /\ starts' = Append(starts, list)
  BY Zenon DEF W!Start, W!Funcs
<1>2. /\ starts' \in Seq(AskLists) /\ Len(starts') = Len(starts) + 1
      /\ starts'[Len(starts) + 1] = list /\ Len(starts) \in Nat
  <2>1. starts \in Seq(AskLists) /\ Len(starts) \in Nat
    BY Zenon DEF StartInv
  <2>2. ASSUME NEW S, NEW s \in Seq(S), NEW x \in S
        PROVE  /\ Append(s, x) \in Seq(S) /\ Len(Append(s, x)) = Len(s) + 1
               /\ Append(s, x)[Len(s) + 1] = x
    BY <2>2, AppendProperties
  <2>3. /\ Append(starts, list) \in Seq(AskLists)
        /\ Len(Append(starts, list)) = Len(starts) + 1
        /\ Append(starts, list)[Len(starts) + 1] = list
    BY <2>1, <2>2
  <2> QED BY <1>1, <2>1, <2>3, Zenon
<1>3. Len(starts') \in Nat /\ Len(starts') # 0
  BY <1>2
<1>4. ASSUME Len(starts') = 1 PROVE started' = W!ToSet(starts'[1])
  <2>1. Len(starts) = 0 /\ starts'[1] = list
    <3> DEFINE n == Len(starts)
               m == Len(starts')
    <3>1. n \in Nat /\ m = n + 1 /\ m = 1
      BY <1>2, <1>4
    <3> HIDE DEF n, m
    <3>2. n = 0
      BY <3>1
    <3>3. Len(starts) = 0
      BY <3>2 DEF n
    <3> QED BY <1>2, <3>3
  <2>2. flags = 0 /\ started = {}
    BY <2>1, Zenon DEF StartInv
  <2>3. W!FuncValue(1) = 2 /\ W!FuncValue(2) = 4
    BY DEF W!FuncValue
  <2>4. CASE list = <<1>>
    <3>1. flags' = 2
      BY <1>1, <2>2, <2>3, <2>4, OneFunction, Zenon
    <3>2. W!IsUsing(2, 1) /\ ~W!IsUsing(2, 2)
      BY <2>3 DEF W!IsUsing
    <3>3. started' = {1}
      BY <1>1, <2>2, <3>1, <3>2
    <3>4. W!ToSet(<<1>>) = {1}
      BY DEF W!ToSet
    <3> QED BY <2>1, <2>4, <3>3, <3>4
  <2>5. CASE list = <<2>>
    <3>1. flags' = 4
      BY <1>1, <2>2, <2>3, <2>5, OneFunction, Zenon
    <3>2. ~W!IsUsing(4, 1) /\ W!IsUsing(4, 2)
      BY <2>3 DEF W!IsUsing
    <3>3. started' = {2}
      BY <1>1, <2>2, <3>1, <3>2
    <3>4. W!ToSet(<<2>>) = {2}
      BY DEF W!ToSet
    <3> QED BY <2>1, <2>5, <3>3, <3>4
  <2>6. CASE list = <<1, 2>>
    <3>1. flags' = 6
      BY <1>1, <2>2, <2>6, BothFunctions, Zenon
    <3>2. W!IsUsing(6, 1) /\ W!IsUsing(6, 2)
      BY <2>3 DEF W!IsUsing
    <3>3. started' = {1, 2}
      BY <1>1, <2>2, <3>1, <3>2
    <3>4. W!ToSet(<<1, 2>>) = {1, 2}
      BY DEF W!ToSet
    <3> QED BY <2>1, <2>6, <3>3, <3>4
  <2> QED BY <2>4, <2>5, <2>6 DEF AskLists
<1> QED BY <1>2, <1>3, <1>4 DEF StartInv, W!AskedAreStarted

\* The invariant holds at the start.
LEMMA ConsoleStart ==
  ASSUME W!Init
  PROVE  ConsoleInv
<1>1. PICK n \in 0..MaxTokens : \E s \in [1..n -> W!Tokens] : typed = W!FlattenSeq(s)
  BY Zenon DEF W!Init
<1>2. PICK s \in [1..n -> W!Tokens] : typed = W!FlattenSeq(s)
  BY <1>1
<1>3. n \in Nat
  BY ReadersAssumption
<1>4. typed \in Seq(Chars) /\ Paired(typed)
  BY <1>2, <1>3, TypedIsPaired
<1>5. /\ flags = 0 /\ starts = <<>> /\ started = {}
      /\ coming = typed /\ session = "none" /\ recv_cmd = <<>> /\ handled = <<>>
      /\ closed = 0 /\ split = FALSE /\ burst = FALSE /\ why = "no"
  BY Zenon DEF W!Init
<1>6. Len(<<>>) = 0 /\ <<>> \in Seq(Chars) /\ <<>> \in Seq(Seq(Chars))
      /\ <<>> \in Seq(AskLists)
  OBVIOUS
<1>7. ConsoleTypes
  BY <1>4, <1>5, <1>6 DEF ConsoleTypes
<1>8. StartInv
  BY <1>5, <1>6 DEF StartInv, W!AskedAreStarted
<1>9. SessionInv
  BY <1>5 DEF SessionInv
<1>10. Done = <<>>
  <2>1. Lines = <<>>
    BY <1>5, <1>6 DEF Lines
  <2>2. Lines \in Seq(Seq(Chars)) /\ Len(Lines) = 0
    BY <1>6, <2>1
  <2> QED BY <2>2, FlatIs DEF Done
<1>11. (Done \o recv_cmd) \o coming = typed
  BY <1>4, <1>5, <1>6, <1>10, ConcatEmptySeq
<1>12. LineInv
  BY <1>10, <1>11 DEF LineInv, Line
<1>13. W!NoLagWithoutBurst
  BY <1>5, <1>6 DEF W!NoLagWithoutBurst, W!Has
<1> QED BY <1>7, <1>8, <1>9, <1>12, <1>13 DEF ConsoleInv

\* Every step keeps it.
LEMMA ConsoleStep ==
  ASSUME ConsoleInv, [W!Next]_W!vars
  PROVE  ConsoleInv'
<1>0. ConsoleTypes /\ StartInv /\ SessionInv /\ LineInv /\ W!NoLagWithoutBurst
  BY DEF ConsoleInv
<1> DEFINE lineVars == <<typed, coming, recv_cmd, handled, split, burst>>
<1>1. ASSUME UNCHANGED lineVars, consoleFault' = "none" => consoleFault = "none",
             why' # "ctrl" => why # "ctrl"
      PROVE  ConsoleTypes' /\ LineInv' /\ W!NoLagWithoutBurst'
  <2>1. UNCHANGED Done
    BY <1>1 DEF Done, Lines
  <2>2. W!Clean' => W!Clean
    BY <1>1 DEF W!Clean, W!CR, W!LF
  <2>3. ConsoleTypes'
    BY <1>0, <1>1 DEF ConsoleTypes
  <2>4. LineInv'
    BY <1>0, <1>1, <2>1, <2>2 DEF LineInv, Line
  <2>5. W!NoLagWithoutBurst'
    BY <1>0, <1>1, <2>2 DEF W!NoLagWithoutBurst, W!Has, W!LF
  <2> QED BY <2>3, <2>4, <2>5
<1>2. ASSUME UNCHANGED <<flags, starts, started>> PROVE StartInv'
  BY <1>0, <1>2 DEF StartInv, W!AskedAreStarted, W!ToSet
<1>3. ASSUME UNCHANGED <<session, why, closed>> PROVE SessionInv'
  BY <1>0, <1>3 DEF SessionInv
<1>4. CASE \E list \in AskLists : W!Start(list)
  <2>1. PICK list \in AskLists : W!Start(list)
    BY <1>4
  <2>2. UNCHANGED lineVars /\ UNCHANGED <<session, why, closed, consoleFault>>
    BY <2>1, Zenon DEF W!Start, W!stream
  <2>3. StartInv'
    BY <1>0, <2>1, StartStep
  <2> QED BY <1>1, <1>3, <2>2, <2>3 DEF ConsoleInv
<1>5. CASE W!ServiceThrows
  <2>1. /\ UNCHANGED lineVars /\ UNCHANGED <<flags, starts, started, session, why, closed>>
        /\ consoleFault' = "terminate"
    BY <1>5, Zenon DEF W!ServiceThrows, W!stream
  <2> QED BY <1>1, <1>2, <1>3, <2>1 DEF ConsoleInv
<1>6. CASE W!Accept
  <2>1. /\ UNCHANGED lineVars /\ UNCHANGED <<flags, starts, started, why, closed, consoleFault>>
        /\ session = "none" /\ session' = "open"
    BY <1>6, Zenon DEF W!Accept
  <2>2. SessionInv'
    BY <1>0, <2>1 DEF SessionInv
  <2> QED BY <1>1, <1>2, <2>1, <2>2 DEF ConsoleInv
<1>7. CASE W!ReadCtrlC
  <2>1. /\ UNCHANGED <<typed, recv_cmd, handled, split, burst>>
        /\ UNCHANGED <<flags, starts, started, consoleFault>>
        /\ coming # <<>> /\ coming' = Tail(coming) /\ session = "open" /\ session' = "ended"
        /\ closed' = closed + 1 /\ why' = "ctrl"
    BY <1>7 DEF W!ReadCtrlC, W!Open, W!ToldOnCtrlC
  <2>2. SessionInv'
    BY <1>0, <2>1 DEF SessionInv
  <2>3. ConsoleTypes'
    <3>1. coming' \in Seq(Chars)
      BY <1>0, <2>1, HeadTailProperties DEF ConsoleTypes
    <3> QED BY <1>0, <2>1, <3>1 DEF ConsoleTypes
  <2>4. LineInv'
    BY <2>1 DEF LineInv
  <2>5. W!NoLagWithoutBurst'
    <3>1. W!Clean' => W!Clean
      BY <2>1 DEF W!Clean, W!CR, W!LF
    <3> QED BY <1>0, <2>1, <3>1 DEF W!NoLagWithoutBurst, W!Has, W!LF
  <2> QED BY <1>2, <2>1, <2>2, <2>3, <2>4, <2>5 DEF ConsoleInv
<1>8. CASE W!ReadEof
  <2>1. /\ UNCHANGED lineVars /\ UNCHANGED <<flags, starts, started, consoleFault>>
        /\ session = "open" /\ session' = "ended" /\ closed' = closed + 1 /\ why' = "eof"
    BY <1>8 DEF W!ReadEof, W!Open
  <2>2. SessionInv' /\ why # "ctrl"
    BY <1>0, <2>1 DEF SessionInv
  <2> QED BY <1>1, <1>2, <2>1, <2>2 DEF ConsoleInv
<1>9. CASE W!SessionThrows
  <2>1. /\ UNCHANGED lineVars /\ UNCHANGED <<flags, starts, started, consoleFault, closed>>
        /\ session = "open" /\ session' = "ended" /\ why' = "error"
    BY <1>9 DEF W!SessionThrows, W!Open
  <2>2. SessionInv' /\ why # "ctrl"
    BY <1>0, <2>1 DEF SessionInv
  <2> QED BY <1>1, <1>2, <2>1, <2>2 DEF ConsoleInv
<1>10. CASE \E n \in 1..MaxPiece : W!Read(n)
  <2>1. PICK n \in 1..MaxPiece : W!Read(n)
    BY <1>10
  <2>2. n \in Nat
    BY ReadersAssumption
  <2>3. UNCHANGED <<flags, starts, started, session, why, closed>>
    BY <2>1, Zenon DEF W!Read
  <2>4. ConsoleTypes' /\ LineInv' /\ W!NoLagWithoutBurst'
    BY <2>1, <2>2, ReadTurn
  <2> QED BY <1>2, <1>3, <2>3, <2>4 DEF ConsoleInv
<1>11. CASE UNCHANGED W!vars
  <2>1. /\ UNCHANGED lineVars
        /\ UNCHANGED <<flags, starts, started, session, why, closed, consoleFault>>
    BY <1>11, Zenon DEF W!vars
  <2> QED BY <1>1, <1>2, <1>3, <2>1 DEF ConsoleInv
<1> QED BY <1>4, <1>5, <1>6, <1>7, <1>8, <1>9, <1>10, <1>11 DEF W!Next, AskLists

\* What the run checks of the console follows from the invariant.
LEMMA ConsoleInvServes == ConsoleInv => ConsoleServes
<1> SUFFICES ASSUME ConsoleInv PROVE ConsoleServes
  OBVIOUS
<1>1. W!AskedAreStarted /\ W!NoLagWithoutBurst
  BY DEF ConsoleInv, StartInv
<1>2. W!ClosedToldUnlessError
  BY DEF ConsoleInv, SessionInv, W!ClosedToldUnlessError
<1>3. W!NothingLost
  <2>1. W!FlattenSeq([i \in 1..Len(handled) |-> handled[i] \o <<W!CR, W!LF>>]) = Done
    BY Zenon DEF Done, Lines, LineEnd, W!CR, W!LF
  <2> QED BY <2>1 DEF ConsoleInv, LineInv, Line, W!NothingLost
<1> QED BY <1>1, <1>2, <1>3 DEF ConsoleServes, W!ConsoleServes

\* The console serves who typed, whatever is typed, in whatever pieces it is
\* read, with any buffer: the functions asked for are started, a telnet console
\* loses no command and none waits, but for the cases named, and the end of a
\* session is told unless an error ended it.
THEOREM ConsoleIsServed == W!Spec => []ConsoleServes
<1>1. W!Init => ConsoleInv
  BY ConsoleStart
<1>2. ConsoleInv /\ [W!Next]_W!vars => ConsoleInv'
  BY ConsoleStep
<1>3. ConsoleInv => ConsoleServes
  BY ConsoleInvServes
<1> QED BY <1>1, <1>2, <1>3, PTL DEF W!Spec

----------------------------------------------------------------------------
(* Side by side, as the run has them *)

\* Every step of the run is a step of one component and leaves the others alone.
LEMMA OneAtATime ==
  ASSUME [MCNext]_allVars
  PROVE  /\ [Next]_vars /\ [R!Next]_R!vars /\ [F!Next]_F!vars /\ [B!Next]_B!vars
         /\ [W!Next]_W!vars
<1>1. CASE Consumer
  BY <1>1 DEF Consumer, rowsVars, bindVars, textVars, R!vars, F!vars, B!vars, consoleVars, W!vars
<1>2. CASE Rows
  BY <1>2 DEF Rows, sqlVars, bindVars, textVars, F!vars, B!vars, consoleVars, W!vars
<1>3. CASE Bindings
  BY <1>3 DEF Bindings, sqlVars, rowsVars, textVars, R!vars, F!vars, consoleVars, W!vars
<1>4. CASE Text
  BY <1>4 DEF Text, sqlVars, rowsVars, bindVars, R!vars, B!vars, consoleVars, W!vars
<1>5. CASE Console
  BY <1>5 DEF Console, sqlVars, rowsVars, bindVars, textVars, R!vars, F!vars, B!vars
<1>6. CASE UNCHANGED allVars
  BY <1>6 DEF allVars, sqlVars, rowsVars, bindVars, textVars, consoleVars, R!vars, F!vars, B!vars,
              W!vars
<1> QED BY <1>1, <1>2, <1>3, <1>4, <1>5, <1>6 DEF MCNext

SequentialInv == ConsumerInv /\ RowsInv /\ FormatInv /\ BindInv /\ ConsoleInv

\* The run starts each component as it starts by itself.
LEMMA SequentialStarts ==
  ASSUME MCInit
  PROVE  SequentialInv
<1>1. Init /\ B!Init /\ R!Init /\ F!Init /\ W!Init
  BY DEF MCInit, RowsInit, RowsIdle, FormatIdle, ConsoleIdle
<1> QED BY <1>1, ConsumerStarts, RowsStart, FormatStarts, BindStarts, ConsoleStart
     DEF SequentialInv

\* Every step of the run keeps the invariants of all.
LEMMA SequentialStep ==
  ASSUME SequentialInv, [MCNext]_allVars
  PROVE  SequentialInv'
  BY OneAtATime, ConsumerStep, RowsStep, FormatStep, BindingStep, ConsoleStep
     DEF SequentialInv

\* What the run checks of the text and the rows, of the consumer and of the
\* console, for every value of the constants.
THEOREM SideBySide == MCSpec => [](TextAndRowsWhole /\ ConsumerKeepsUp /\ ConsoleServes)
<1>1. MCInit => SequentialInv
  BY SequentialStarts
<1>2. SequentialInv /\ [MCNext]_allVars => SequentialInv'
  BY SequentialStep
<1>3. SequentialInv => TextAndRowsWhole /\ ConsumerKeepsUp /\ ConsoleServes
  BY RowsInvApart, ConsoleInvServes
     DEF SequentialInv, FormatInv, ConsumerInv, TextAndRowsWhole, ConsumerKeepsUp
<1> QED BY <1>1, <1>2, <1>3, PTL DEF MCSpec

\* What the run checks of the bound variables, for every value of the constants.
THEOREM SequentialVariables == MCSpec => VariablesFollow
<1>1. MCInit => SequentialInv
  BY SequentialStarts
<1>2. SequentialInv /\ [MCNext]_allVars => SequentialInv'
  BY SequentialStep
<1>3. SequentialInv /\ SequentialInv' /\ [MCNext]_allVars
        => [B!ParamsAsHeld' /\ B!RowIntoVariables /\ B!EndDamagesOnlyStrings]_B!vars
  BY OneAtATime, ColumnsFollow DEF SequentialInv, BindInv
<1> QED BY <1>1, <1>2, <1>3, PTL DEF MCSpec, VariablesFollow, B!VariablesFollow
=============================================================================
