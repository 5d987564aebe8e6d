------------------------- MODULE PacketParserProofs -------------------------
(***************************************************************************)
(* Proofs about the packet parsers (PacketParser.tla) and the message       *)
(* buffer that brings them their batches (MessageBuffer.tla), each for      *)
(* every value of its constants, and for the run that has both.             *)
(*                                                                         *)
(* A batch is flattened from any number of packets of any number of parts:  *)
(* the lemmas on FlattenSeq say where each piece lies in the whole.  A claim *)
(* about every number of pieces is proved by contradiction, from the least  *)
(* number it fails for.                                                    *)
(***************************************************************************)
EXTENDS MCPacketParser, SequenceTheorems, TLAPS

WF == INSTANCE WellFoundedInduction

----------------------------------------------------------------------------
(* Least numbers, and pieces put together *)

\* The order of the natural numbers as the library's theorem has it.
LEMMA LessInOrder ==
  ASSUME NEW x \in Nat, NEW y \in Nat, x < y
  PROVE  <<x, y>> \in WF!OpToRel(<, Nat)
  BY Zenon DEF WF!OpToRel

\* A set of natural numbers that is not empty has a least one: with it, a claim
\* about every number is proved from the least number it would fail for.
LEMMA LeastNumber ==
  ASSUME NEW S \in SUBSET Nat, S # {}
  PROVE  \E x \in S : \A y \in S : x <= y
<1>1. PICK x \in S : \A y \in S : ~(<<y, x>> \in WF!OpToRel(<, Nat))
  BY WF!NatLessThanWellFounded, WF!WFMin, Zenon
<1>2. \A y \in S : y \in Nat /\ ~(y < x)
  BY <1>1, LessInOrder, Zenon
<1> QED BY <1>2

\* The function FlattenSeq is made from: what the first i pieces make together.
Flat(seqs) ==
  LET flatten[i \in 1..Len(seqs)] ==
        IF i = 1 THEN seqs[i] ELSE flatten[i - 1] \o seqs[i]
  IN flatten

\* Where the piece behind the first k starts.
Offset(seqs, k) == IF k = 0 THEN 0 ELSE Len(Flat(seqs)[k])

FlatOn(seqs, n, f) ==
  \A i \in 1..n : f[i] = IF i = 1 THEN seqs[i] ELSE f[i - 1] \o seqs[i]

\* A function that puts the first n pieces together exists.
LEMMA FlatExists ==
  ASSUME NEW T, NEW seqs \in Seq(Seq(T)), NEW n \in 0..Len(seqs)
  PROVE  \E f \in [1..n -> Seq(T)] : FlatOn(seqs, n, f)
<1> DEFINE P(m) == \E f \in [1..m -> Seq(T)] : FlatOn(seqs, m, f)
<1> DEFINE Bad == {m \in 0..Len(seqs) : ~P(m)}
<1> SUFFICES ASSUME Bad # {} PROVE FALSE
  OBVIOUS
<1>0. Len(seqs) \in Nat
  OBVIOUS
<1>1. PICK m \in Bad : \A y \in Bad : m <= y
  <2>1. Bad \in SUBSET Nat
    BY <1>0
  <2> HIDE DEF Bad
  <2> QED BY <2>1, LeastNumber
<1>2. m \in 0..Len(seqs) /\ ~P(m)
  OBVIOUS
<1>3. P(0)
  <2>1. [i \in 1..0 |-> <<>>] \in [1..0 -> Seq(T)]
    OBVIOUS
  <2>2. FlatOn(seqs, 0, [i \in 1..0 |-> <<>>])
    BY DEF FlatOn
  <2> QED BY <2>1, <2>2
<1>4. m \in 1..Len(seqs) /\ m - 1 \in 0..Len(seqs)
  <2> HIDE DEF P
  <2> QED BY <1>0, <1>2, <1>3
<1>5. P(m - 1)
  <2> HIDE DEF P
  <2>1. m - 1 \notin Bad
    <3> HIDE DEF Bad
    <3> QED BY <1>1, <1>4
  <2> QED BY <1>4, <2>1
<1>6. PICK g \in [1..(m - 1) -> Seq(T)] : FlatOn(seqs, m - 1, g)
  BY <1>5
<1> HIDE DEF Bad, P
<1> DEFINE f == [i \in 1..m |-> IF i = m THEN IF m = 1 THEN seqs[m] ELSE g[m - 1] \o seqs[m]
                                ELSE g[i]]
<1>7. seqs[m] \in Seq(T) /\ (m # 1 => g[m - 1] \in Seq(T))
  BY <1>4
<1>8. f \in [1..m -> Seq(T)]
  <2>1. m # 1 => g[m - 1] \o seqs[m] \in Seq(T)
    BY <1>7, ConcatProperties
  <2>2. \A i \in 1..m : i # m => i \in 1..(m - 1)
    BY <1>4
  <2> QED BY <1>4, <1>7, <2>1, <2>2
<1>9. FlatOn(seqs, m, f)
  <2> SUFFICES ASSUME NEW i \in 1..m
               PROVE  f[i] = IF i = 1 THEN seqs[i] ELSE f[i - 1] \o seqs[i]
    BY DEF FlatOn
  <2>1. CASE i = m
    BY <1>4, <2>1
  <2>2. CASE i # m
    <3>1. i \in 1..(m - 1) /\ f[i] = g[i] /\ (i # 1 => f[i - 1] = g[i - 1])
      BY <1>4, <2>2
    <3> QED BY <1>6, <3>1 DEF FlatOn
  <2> QED BY <2>1, <2>2
<1> QED BY <1>2, <1>8, <1>9 DEF P

\* Flat is such a function, and FlattenSeq its last value.
LEMMA FlatIs ==
  ASSUME NEW T, NEW seqs \in Seq(Seq(T))
  PROVE  /\ FlatOn(seqs, Len(seqs), Flat(seqs))
         /\ FlattenSeq(seqs) = IF Len(seqs) = 0 THEN <<>> ELSE Flat(seqs)[Len(seqs)]
<1>0. Len(seqs) \in Nat
  OBVIOUS
<1>1. PICK f \in [1..Len(seqs) -> Seq(T)] : FlatOn(seqs, Len(seqs), f)
  BY <1>0, FlatExists
<1>2. f = [i \in 1..Len(seqs) |-> IF i = 1 THEN seqs[i] ELSE f[i - 1] \o seqs[i]]
  BY <1>1 DEF FlatOn
<1>3. Flat(seqs) = [i \in 1..Len(seqs) |->
                      IF i = 1 THEN seqs[i] ELSE Flat(seqs)[i - 1] \o seqs[i]]
  BY <1>2, Zenon DEF Flat
<1>4. FlatOn(seqs, Len(seqs), Flat(seqs))
  BY <1>3 DEF FlatOn
<1>5. FlattenSeq(seqs) = IF Len(seqs) = 0 THEN seqs ELSE Flat(seqs)[Len(seqs)]
  BY Zenon DEF FlattenSeq, Flat
<1>6. Len(seqs) = 0 => seqs = <<>>
  OBVIOUS
<1> QED BY <1>4, <1>5, <1>6

\* What stands where in two sequences put together.
LEMMA ConcatFacts ==
  ASSUME NEW T, NEW s \in Seq(T), NEW t \in Seq(T)
  PROVE  /\ s \o t \in Seq(T)
         /\ Len(s) \in Nat /\ Len(t) \in Nat
         /\ Len(s \o t) = Len(s) + Len(t)
         /\ \A i \in 1..Len(s) : (s \o t)[i] = s[i]
         /\ \A i \in 1..Len(t) : (s \o t)[Len(s) + i] = t[i]
<1>1. Len(s) \in Nat /\ Len(t) \in Nat
  OBVIOUS
<1>2. s \o t \in Seq(T) /\ Len(s \o t) = Len(s) + Len(t)
  BY ConcatProperties
<1>3. ASSUME NEW i \in 1..Len(s) PROVE (s \o t)[i] = s[i]
  BY <1>1
<1>4. ASSUME NEW i \in 1..Len(t) PROVE (s \o t)[Len(s) + i] = t[i]
  BY <1>1
<1> QED BY <1>1, <1>2, <1>3, <1>4

\* What Flat makes of the first m pieces holds each of them at its offset.
FlatHolds(seqs, m) ==
  \A k \in 1..m :
    /\ Offset(seqs, k - 1) + Len(seqs[k]) <= Offset(seqs, m)
    /\ \A i \in 1..Len(seqs[k]) : Flat(seqs)[m][Offset(seqs, k - 1) + i] = seqs[k][i]

\* The values of Flat are sequences, each longer by a piece than the one before.
LEMMA FlatStep ==
  ASSUME NEW T, NEW seqs \in Seq(Seq(T)), NEW m \in 1..Len(seqs),
         m # 1 => Flat(seqs)[m - 1] \in Seq(T)
  PROVE  /\ Flat(seqs)[m] \in Seq(T)
         /\ Offset(seqs, m - 1) \in Nat
         /\ Offset(seqs, m) = Offset(seqs, m - 1) + Len(seqs[m])
         /\ Len(Flat(seqs)[m]) = Offset(seqs, m)
         /\ \A i \in 1..Offset(seqs, m - 1) : Flat(seqs)[m][i] = Flat(seqs)[m - 1][i]
         /\ \A i \in 1..Len(seqs[m]) : Flat(seqs)[m][Offset(seqs, m - 1) + i] = seqs[m][i]
<1> DEFINE f == Flat(seqs)
<1>1. seqs[m] \in Seq(T) /\ Len(seqs[m]) \in Nat /\ m \in Nat
  OBVIOUS
<1>2. f[m] = IF m = 1 THEN seqs[m] ELSE f[m - 1] \o seqs[m]
  BY FlatIs DEF FlatOn
<1>3. CASE m = 1
  <2>1. Offset(seqs, m - 1) = 0 /\ Offset(seqs, m) = Len(f[m])
    BY <1>3 DEF Offset
  <2> HIDE DEF f
  <2>2. f[m] = seqs[m]
    BY <1>2, <1>3
  <2> QED BY <1>1, <2>1, <2>2 DEF f
<1>4. CASE m # 1
  <2>1. Offset(seqs, m - 1) = Len(f[m - 1]) /\ Offset(seqs, m) = Len(f[m])
    BY <1>4 DEF Offset
  <2>2. f[m - 1] \in Seq(T)
    BY <1>4
  <2> HIDE DEF f
  <2>3. f[m] = f[m - 1] \o seqs[m]
    BY <1>2, <1>4
  <2>4. /\ f[m] \in Seq(T)
        /\ Len(f[m]) = Len(f[m - 1]) + Len(seqs[m])
        /\ Len(f[m - 1]) \in Nat
        /\ \A i \in 1..Len(f[m - 1]) : f[m][i] = f[m - 1][i]
        /\ \A i \in 1..Len(seqs[m]) : f[m][Len(f[m - 1]) + i] = seqs[m][i]
    <3> DEFINE a == f[m - 1]
               b == seqs[m]
    <3>1. a \in Seq(T) /\ b \in Seq(T)
      BY <1>1, <2>2
    <3> HIDE DEF a, b
    <3>2. /\ a \o b \in Seq(T)
          /\ Len(a \o b) = Len(a) + Len(b)
          /\ Len(a) \in Nat
          /\ \A i \in 1..Len(a) : (a \o b)[i] = a[i]
          /\ \A i \in 1..Len(b) : (a \o b)[Len(a) + i] = b[i]
      BY <3>1, ConcatFacts
    <3>3. f[m] = a \o b
      BY <2>3 DEF a, b
    <3> QED BY <3>2, <3>3, Zenon DEF a, b
  <2> QED BY <2>1, <2>4 DEF f
<1> QED BY <1>3, <1>4

\* Every value of Flat holds its pieces.
LEMMA FlatPieces ==
  ASSUME NEW T, NEW seqs \in Seq(Seq(T)), NEW n \in 1..Len(seqs)
  PROVE  Flat(seqs)[n] \in Seq(T) /\ FlatHolds(seqs, n)
<1> DEFINE P(m) == Flat(seqs)[m] \in Seq(T) /\ FlatHolds(seqs, m)
<1> DEFINE Bad == {m \in 1..Len(seqs) : ~P(m)}
<1> SUFFICES ASSUME Bad # {} PROVE FALSE
  OBVIOUS
<1>0. Len(seqs) \in Nat
  OBVIOUS
<1>1. PICK m \in Bad : \A y \in Bad : m <= y
  <2>1. Bad \in SUBSET Nat
    BY <1>0
  <2> HIDE DEF Bad
  <2> QED BY <2>1, LeastNumber
<1>2. m \in 1..Len(seqs) /\ ~P(m)
  OBVIOUS
<1>3. m # 1 => m - 1 \in 1..Len(seqs) /\ P(m - 1)
  <2> HIDE DEF P
  <2>1. m # 1 => m - 1 \in 1..Len(seqs)
    BY <1>0, <1>2
  <2>2. m - 1 \notin Bad
    <3> HIDE DEF Bad
    <3> QED BY <1>0, <1>1, <1>2
  <2> QED BY <2>1, <2>2
<1> HIDE DEF Bad
<1>4. m # 1 => Flat(seqs)[m - 1] \in Seq(T) /\ FlatHolds(seqs, m - 1)
  BY <1>3
<1> HIDE DEF P
<1>5. /\ Flat(seqs)[m] \in Seq(T)
      /\ Offset(seqs, m - 1) \in Nat
      /\ Offset(seqs, m) = Offset(seqs, m - 1) + Len(seqs[m])
      /\ \A i \in 1..Offset(seqs, m - 1) : Flat(seqs)[m][i] = Flat(seqs)[m - 1][i]
      /\ \A i \in 1..Len(seqs[m]) : Flat(seqs)[m][Offset(seqs, m - 1) + i] = seqs[m][i]
  BY <1>2, <1>4, FlatStep
<1>6. FlatHolds(seqs, m)
  <2> SUFFICES ASSUME NEW k \in 1..m
               PROVE  /\ Offset(seqs, k - 1) + Len(seqs[k]) <= Offset(seqs, m)
                      /\ \A i \in 1..Len(seqs[k]) :
                           Flat(seqs)[m][Offset(seqs, k - 1) + i] = seqs[k][i]
    BY DEF FlatHolds
  <2>0. seqs[m] \in Seq(T) /\ Len(seqs[m]) \in Nat
    BY <1>2
  <2>1. CASE k = m
    BY <1>5, <2>0, <2>1
  <2>2. CASE k # m
    <3>1. m # 1 /\ k \in 1..(m - 1)
      BY <1>2, <2>2
    <3>2. /\ Offset(seqs, k - 1) + Len(seqs[k]) <= Offset(seqs, m - 1)
          /\ \A i \in 1..Len(seqs[k]) :
               Flat(seqs)[m - 1][Offset(seqs, k - 1) + i] = seqs[k][i]
      BY <1>4, <3>1 DEF FlatHolds
    <3>3. k \in 1..Len(seqs) /\ seqs[k] \in Seq(T) /\ Len(seqs[k]) \in Nat
      BY <1>2, <3>1
    <3>4. Offset(seqs, k - 1) \in Nat
      <4>1. CASE k = 1
        BY <4>1 DEF Offset
      <4>2. CASE k # 1
        <5>1. k - 1 \in 1..Len(seqs) /\ k - 1 < m
          BY <1>2, <3>1, <4>2
        <5>2. P(k - 1)
          <6>1. k - 1 \notin Bad
            BY <1>0, <1>1, <1>2, <5>1
          <6> QED BY <5>1, <6>1 DEF Bad
        <5> QED BY <3>1, <4>2, <5>2 DEF P, Offset
      <4> QED BY <4>1, <4>2
    <3>5. ASSUME NEW i \in 1..Len(seqs[k])
          PROVE  Flat(seqs)[m][Offset(seqs, k - 1) + i] = seqs[k][i]
      <4>1. Offset(seqs, k - 1) + i \in 1..Offset(seqs, m - 1)
        <5> DEFINE a == Offset(seqs, k - 1)
                   b == Offset(seqs, m - 1)
                   c == Len(seqs[k])
        <5>1. a \in Nat /\ b \in Nat /\ c \in Nat /\ i \in 1..c /\ a + c <= b
          BY <1>5, <3>2, <3>3, <3>4
        <5> HIDE DEF a, b, c
        <5>2. a + i \in 1..b
          BY <5>1
        <5> QED BY <5>2 DEF a, b
      <4> QED BY <1>5, <3>2, <4>1
    <3>6. Offset(seqs, k - 1) + Len(seqs[k]) <= Offset(seqs, m)
      BY <1>5, <2>0, <3>2, <3>3, <3>4
    <3> QED BY <3>5, <3>6
  <2> QED BY <2>1, <2>2
<1> QED BY <1>2, <1>5, <1>6 DEF P

\* FlattenSeq's result is a sequence as long as the last offset.
LEMMA FlattenIsSeq ==
  ASSUME NEW T, NEW seqs \in Seq(Seq(T))
  PROVE  /\ FlattenSeq(seqs) \in Seq(T)
         /\ Len(FlattenSeq(seqs)) = Offset(seqs, Len(seqs))
         /\ Offset(seqs, 0) = 0
         /\ \A k \in 0..Len(seqs) : Offset(seqs, k) \in Nat
<1>1. Len(seqs) \in Nat /\ Offset(seqs, 0) = 0
  BY DEF Offset
<1>2. \A k \in 0..Len(seqs) : Offset(seqs, k) \in Nat
  <2> SUFFICES ASSUME NEW k \in 0..Len(seqs) PROVE Offset(seqs, k) \in Nat
    OBVIOUS
  <2>1. CASE k = 0
    BY <2>1, <1>1
  <2>2. CASE k # 0
    <3>1. k \in 1..Len(seqs)
      BY <1>1, <2>2
    <3> QED BY <2>2, <3>1, FlatPieces DEF Offset
  <2> QED BY <2>1, <2>2
<1>3. CASE Len(seqs) = 0
  <2>1. FlattenSeq(seqs) = <<>>
    BY <1>3, FlatIs
  <2>2. <<>> \in Seq(T) /\ Len(<<>>) = 0
    OBVIOUS
  <2>3. Len(FlattenSeq(seqs)) = Offset(seqs, Len(seqs))
    BY <1>1, <1>3, <2>1, <2>2, Zenon
  <2> QED BY <1>1, <1>2, <2>1, <2>2, <2>3, Zenon
<1>4. CASE Len(seqs) # 0
  <2>1. Len(seqs) \in 1..Len(seqs)
    BY <1>1, <1>4
  <2>2. FlattenSeq(seqs) = Flat(seqs)[Len(seqs)]
    BY <1>4, FlatIs
  <2>3. Flat(seqs)[Len(seqs)] \in Seq(T)
    BY <2>1, FlatPieces
  <2>4. Offset(seqs, Len(seqs)) = Len(Flat(seqs)[Len(seqs)])
    BY <1>4 DEF Offset
  <2> QED BY <1>1, <1>2, <2>2, <2>3, <2>4
<1> QED BY <1>3, <1>4

\* The piece behind the first k stands at their offset, and ends at the next.
LEMMA FlattenPiece ==
  ASSUME NEW T, NEW seqs \in Seq(Seq(T)), NEW k \in Nat, k < Len(seqs)
  PROVE  /\ seqs[k + 1] \in Seq(T)
         /\ Offset(seqs, k + 1) = Offset(seqs, k) + Len(seqs[k + 1])
         /\ Offset(seqs, k + 1) <= Len(FlattenSeq(seqs))
         /\ \A i \in 1..Len(seqs[k + 1]) :
              FlattenSeq(seqs)[Offset(seqs, k) + i] = seqs[k + 1][i]
<1> DEFINE n == Len(seqs)
           m == k + 1
<1>1. n \in 1..n /\ m \in 1..n /\ m - 1 = k /\ seqs[m] \in Seq(T)
  OBVIOUS
<1>2. FlattenSeq(seqs) = Flat(seqs)[n] /\ Len(FlattenSeq(seqs)) = Offset(seqs, n)
  BY <1>1, FlatIs, FlattenIsSeq
<1>3. FlatHolds(seqs, n)
  BY <1>1, FlatPieces
<1>4. /\ Offset(seqs, m - 1) + Len(seqs[m]) <= Offset(seqs, n)
      /\ \A i \in 1..Len(seqs[m]) : Flat(seqs)[n][Offset(seqs, m - 1) + i] = seqs[m][i]
  BY <1>1, <1>3 DEF FlatHolds
<1>5. m # 1 => Flat(seqs)[m - 1] \in Seq(T)
  <2> SUFFICES ASSUME m # 1 PROVE Flat(seqs)[m - 1] \in Seq(T)
    OBVIOUS
  <2>1. m - 1 \in 1..n
    BY <1>1
  <2> HIDE DEF m, n
  <2> QED BY <2>1, FlatPieces DEF n
<1>6. Offset(seqs, m) = Offset(seqs, m - 1) + Len(seqs[m])
  <2> HIDE DEF m
  <2> QED BY <1>1, <1>5, FlatStep
<1> QED BY <1>1, <1>2, <1>4, <1>6

----------------------------------------------------------------------------
(* The cells of a packet *)

Inner   == [mark : {"part", "body"}, number : Nat]
Cells   == [mark : {"main", "part", "body"}, number : Nat]

Bodies(packet) == [i \in DOMAIN packet |-> PartCells(packet[i])]

\* A part is its key, which counts the cells behind it, and a body that begins
\* with the code and the three bytes behind it.
LEMMA PartIs ==
  ASSUME NEW p \in Parts
  PROVE  /\ PartCells(p) \in Seq(Inner)
         /\ p.size \in Nat /\ p.size >= 1 /\ p.code \in 1..255 /\ p.more \in Nat
         /\ Len(PartCells(p)) = p.size + 1
         /\ PartCells(p)[1] = Cell("part", p.size)
         /\ PartCells(p)[2] = Cell("body", p.code)
         /\ p.size > 1 => PartCells(p)[3] = Cell("body", p.more)
<1> DEFINE a == <<Cell("part", p.size), Cell("body", p.code)>>
           b == [i \in 1..(p.size - 1) |-> Cell("body", p.more)]
<1>1. p.size \in Nat /\ p.size >= 1 /\ p.code \in 1..255 /\ p.more \in Nat
  <2>1. p \in [code : 1..255, more : Nat, size : Nat \ {0}]
    BY BoundsAssumption
  <2> QED BY <2>1
<1>2. /\ Cell("part", p.size) \in Inner /\ Cell("body", p.code) \in Inner
      /\ Cell("body", p.more) \in Inner
  BY <1>1 DEF Cell, Inner
<1>3. a \in Seq(Inner) /\ Len(a) = 2 /\ a[1] = Cell("part", p.size) /\ a[2] = Cell("body", p.code)
  BY <1>2
<1>4. b \in Seq(Inner) /\ Len(b) = p.size - 1 /\ (p.size > 1 => b[1] = Cell("body", p.more))
  BY <1>1, <1>2
<1>5. PartCells(p) = a \o b
  BY DEF PartCells
<1> HIDE DEF a, b
<1>a. a \in Seq(Inner) /\ b \in Seq(Inner)
  BY <1>3, <1>4
<1>6. /\ a \o b \in Seq(Inner)
      /\ Len(a \o b) = Len(a) + Len(b)
      /\ \A i \in 1..Len(a) : (a \o b)[i] = a[i]
      /\ \A i \in 1..Len(b) : (a \o b)[Len(a) + i] = b[i]
  BY <1>a, ConcatFacts
<1>7. Len(a \o b) = p.size + 1
  BY <1>1, <1>3, <1>4, <1>6
<1>8. (a \o b)[1] = a[1] /\ (a \o b)[2] = a[2]
  BY <1>3, <1>6
<1>9. ASSUME p.size > 1 PROVE (a \o b)[3] = b[1]
  <2>1. 1 \in 1..Len(b) /\ Len(a) + 1 = 3
    BY <1>1, <1>3, <1>4, <1>9
  <2> QED BY <1>6, <2>1
<1> QED BY <1>1, <1>3, <1>4, <1>5, <1>6, <1>7, <1>8, <1>9

\* A packet is a sequence of one or more parts.
LEMMA PacketIs ==
  ASSUME NEW packet \in Packets
  PROVE  /\ Len(packet) \in Nat \ {0} /\ DOMAIN packet = 1..Len(packet)
         /\ packet \in Seq(Parts)
         /\ \A i \in 1..Len(packet) : packet[i] \in Parts
<1>1. PICK n \in 1..MaxParts : packet \in [1..n -> Parts]
  BY DEF Packets
<1> QED BY <1>1, BoundsAssumption

\* The bodies of a packet are sequences of cells, one for each part.
LEMMA BodiesAre ==
  ASSUME NEW packet \in Packets
  PROVE  /\ Bodies(packet) \in Seq(Seq(Inner))
         /\ Len(Bodies(packet)) = Len(packet)
         /\ \A i \in 1..Len(packet) : Bodies(packet)[i] = PartCells(packet[i])
<1>1. /\ Len(packet) \in Nat /\ DOMAIN packet = 1..Len(packet)
      /\ \A i \in 1..Len(packet) : packet[i] \in Parts
  BY PacketIs
<1>2. \A i \in 1..Len(packet) : PartCells(packet[i]) \in Seq(Inner)
  BY <1>1, PartIs
<1> QED BY <1>1, <1>2 DEF Bodies

\* Behind the main key of a frame, which counts them, are the cells of the parts.
LEMMA FrameIs ==
  ASSUME NEW packet \in Packets
  PROVE  LET size == Offset(Bodies(packet), Len(packet))
         IN /\ size \in Nat
            /\ Frame(packet) \in Seq(Cells)
            /\ Len(Frame(packet)) = size + 1
            /\ Frame(packet)[1] = Cell("main", size)
            /\ FlattenSeq(Bodies(packet)) \in Seq(Inner)
            /\ Len(FlattenSeq(Bodies(packet))) = size
            /\ \A i \in 1..size : Frame(packet)[i + 1] = FlattenSeq(Bodies(packet))[i]
<1> DEFINE size == Offset(Bodies(packet), Len(packet))
           parts == FlattenSeq(Bodies(packet))
           key == <<Cell("main", size)>>
<1>1. parts \in Seq(Inner) /\ Len(parts) = size /\ size \in Nat
  BY BodiesAre, PacketIs, FlattenIsSeq
<1>2. Frame(packet) = <<Cell("main", Len(parts))>> \o parts
  BY DEF Frame, Bodies
<1> HIDE DEF size, parts
<1>3. Inner \subseteq Cells
  BY DEF Inner, Cells
<1>4. parts \in Seq(Cells)
  BY <1>1, <1>3, SeqMonotonic
<1>5. Cell("main", size) \in Cells
  BY <1>1 DEF Cell, Cells
<1>6. key \in Seq(Cells) /\ Len(key) = 1 /\ key[1] = Cell("main", size)
  BY <1>5
<1>7. Frame(packet) = key \o parts
  BY <1>1, <1>2
<1> HIDE DEF key
<1>a. key \in Seq(Cells) /\ parts \in Seq(Cells)
  BY <1>4, <1>6
<1>8. /\ key \o parts \in Seq(Cells)
      /\ Len(key \o parts) = Len(key) + Len(parts)
      /\ \A i \in 1..Len(key) : (key \o parts)[i] = key[i]
      /\ \A i \in 1..Len(parts) : (key \o parts)[Len(key) + i] = parts[i]
  BY <1>a, ConcatFacts
<1>9. Len(key \o parts) = size + 1 /\ (key \o parts)[1] = Cell("main", size)
  BY <1>1, <1>6, <1>8
<1>10. \A i \in 1..size : (key \o parts)[i + 1] = parts[i]
  BY <1>1, <1>6, <1>8
<1> QED BY <1>1, <1>7, <1>8, <1>9, <1>10 DEF size, parts

\* Where the part behind the first j stands in a frame.
LEMMA PartAt ==
  ASSUME NEW packet \in Packets, NEW j \in Nat, j < Len(packet)
  PROVE  LET at == Offset(Bodies(packet), j)
             p == packet[j + 1]
         IN /\ at \in Nat
            /\ p \in Parts
            /\ Offset(Bodies(packet), j + 1) = at + p.size + 1
            /\ Offset(Bodies(packet), j + 1) <= Offset(Bodies(packet), Len(packet))
            /\ Frame(packet)[at + 2] = Cell("part", p.size)
            /\ Frame(packet)[at + 3] = Cell("body", p.code)
            /\ p.size > 1 => Frame(packet)[at + 4] = Cell("body", p.more)
<1> DEFINE at == Offset(Bodies(packet), j)
           next == Offset(Bodies(packet), j + 1)
           size == Offset(Bodies(packet), Len(packet))
           p == packet[j + 1]
           flat == FlattenSeq(Bodies(packet))
<1>1. /\ Len(packet) \in Nat /\ p \in Parts
      /\ j \in 0..Len(packet) /\ j + 1 \in 1..Len(packet)
  BY PacketIs
<1>2. /\ Bodies(packet) \in Seq(Seq(Inner)) /\ Len(Bodies(packet)) = Len(packet)
      /\ Bodies(packet)[j + 1] = PartCells(p)
  BY <1>1, BodiesAre
<1>3. at \in Nat
  BY <1>1, <1>2, FlattenIsSeq
<1>4. /\ next = at + Len(PartCells(p))
      /\ next <= Len(flat)
      /\ \A i \in 1..Len(PartCells(p)) : flat[at + i] = PartCells(p)[i]
  BY <1>2, FlattenPiece
<1>5. /\ size \in Nat /\ Len(flat) = size
      /\ \A i \in 1..size : Frame(packet)[i + 1] = flat[i]
  BY FrameIs
<1> HIDE DEF at, next, size, p, flat
<1>6. /\ p.size \in Nat /\ p.size >= 1 /\ Len(PartCells(p)) = p.size + 1
      /\ PartCells(p)[1] = Cell("part", p.size)
      /\ PartCells(p)[2] = Cell("body", p.code)
      /\ p.size > 1 => PartCells(p)[3] = Cell("body", p.more)
  BY <1>1, PartIs
<1>7. next = at + p.size + 1 /\ next <= size
  BY <1>3, <1>4, <1>5, <1>6
<1>8. /\ 1 \in 1..Len(PartCells(p)) /\ 2 \in 1..Len(PartCells(p))
      /\ at + 1 \in 1..size /\ at + 2 \in 1..size
      /\ (at + 1) + 1 = at + 2 /\ (at + 2) + 1 = at + 3
  <2> DEFINE m == p.size
             l == Len(PartCells(p))
  <2>1. m \in Nat /\ m >= 1 /\ l = m + 1
    BY <1>6, Zenon
  <2>2. at \in Nat /\ size \in Nat /\ next = at + m + 1 /\ next <= size
    BY <1>3, <1>5, <1>7, Zenon
  <2> HIDE DEF m, l
  <2>3. 1 \in 1..l /\ 2 \in 1..l
    BY <2>1
  <2>4. at + 1 \in 1..size /\ at + 2 \in 1..size
    BY <2>1, <2>2
  <2>5. (at + 1) + 1 = at + 2 /\ (at + 2) + 1 = at + 3
    BY <2>2
  <2> QED BY <2>3, <2>4, <2>5, Zenon DEF l
<1>9. flat[at + 1] = Cell("part", p.size) /\ flat[at + 2] = Cell("body", p.code)
  BY <1>4, <1>6, <1>8
<1>10. Frame(packet)[(at + 1) + 1] = flat[at + 1] /\ Frame(packet)[(at + 2) + 1] = flat[at + 2]
  BY <1>5, <1>8
<1>11. ASSUME p.size > 1 PROVE Frame(packet)[at + 4] = Cell("body", p.more)
  <2> DEFINE m == p.size
             l == Len(PartCells(p))
  <2>1. m \in Nat /\ m > 1 /\ l = m + 1
    BY <1>6, <1>11, Zenon
  <2>2. at \in Nat /\ size \in Nat /\ next = at + m + 1 /\ next <= size
    BY <1>3, <1>5, <1>7, Zenon
  <2> HIDE DEF m, l
  <2>3. 3 \in 1..l /\ at + 3 \in 1..size /\ (at + 3) + 1 = at + 4
    BY <2>1, <2>2
  <2>4. flat[at + 3] = PartCells(p)[3]
    BY <1>4, <2>3 DEF l
  <2>5. Frame(packet)[(at + 3) + 1] = flat[at + 3]
    BY <1>5, <2>3
  <2> QED BY <1>6, <1>11, <2>3, <2>4, <2>5
<1> QED BY <1>1, <1>3, <1>7, <1>8, <1>9, <1>10, <1>11 DEF at, next, size, p, flat

----------------------------------------------------------------------------
(* The inductive invariant of the parsers *)

Frames == [i \in DOMAIN packets |-> Frame(packets[i])]

\* Cells read when k packets and j parts of the next are.
Position(k, j) ==
  Offset(Frames, k) + (IF j = 0 THEN 0 ELSE Offset(Bodies(packets[k + 1]), j) + 1)

\* The loop is behind k packets and j parts of the next: total_size is what is
\* left of that packet, counting its main key.
Reading(k, j) ==
  /\ j # 0 => k < Len(packets) /\ j < Len(packets[k + 1])
  /\ rest = After(Batch, Position(k, j))
  /\ fromMain = (j = 0)
  /\ j # 0 => total = Offset(Bodies(packets[k + 1]), Len(packets[k + 1]))
                        - Offset(Bodies(packets[k + 1]), j) + 1
  /\ exchanges + Len(handled) = Offset(packets, k) + j

\* The batch: whole packets, and a cut packet before or behind them.
InputInv ==
  /\ parser \in Parsers
  /\ packets \in Seq(Packets)
  /\ lead = <<>> => \E p \in Packets : fragment \in Starts(p)
  /\ lead # <<>> => fragment = <<>> /\ \E p \in Packets : lead \in Ends(p)

\* What was handled are the codes of parts behind the key exchange, as they came.
HandledInv ==
  /\ exchanges \in Nat
  /\ handled \in Seq(Nat)
  /\ \A i \in 1..Len(handled) :
       Understood(AllParts[exchanges + i]) /\ handled[i] = AllParts[exchanges + i].code
  /\ exchanges + Len(handled) <= Len(AllParts)
  /\ ~Plain => handled = <<>>

LoopInv ==
  /\ unknown = 0
  /\ \E k \in 0..Len(packets), j \in Nat : Reading(k, j)

EndInv ==
  /\ result \in {"true", "false", "undecrypted"}
  /\ result = "true" =>
       rest = fragment /\ unknown = 0 /\ exchanges + Len(handled) = Len(AllParts)
  /\ result = "false" =>
       IF unknown = 0 THEN parser.cipher /\ handled = <<>>
       ELSE /\ exchanges + Len(handled) < Len(AllParts)
            /\ ~Understood(AllParts[exchanges + Len(handled) + 1])

\* Of a batch that starts with a packet.
WholeInv ==
  lead = <<>> => HandledInv /\ (IF result = "" THEN LoopInv ELSE EndInv)

\* Of a batch that starts in mid-packet, read by a parser that checks the marks.
MidInv ==
  parser.marked /\ lead # <<>> =>
    /\ handled = <<>> /\ unknown = 0
    /\ result # "threw"
    /\ result = "" => rest = Batch /\ fromMain = TRUE

ParserInv == InputInv /\ WholeInv /\ MidInv

----------------------------------------------------------------------------
(* Where the packets stand in the batch *)

\* What is left of a sequence when its first a elements are read.
LEMMA AfterIs ==
  ASSUME NEW T, NEW s \in Seq(T), NEW a \in Nat, a <= Len(s)
  PROVE  /\ After(s, a) \in Seq(T)
         /\ Len(After(s, a)) = Len(s) - a
         /\ \A i \in 1..(Len(s) - a) : After(s, a)[i] = s[a + i]
<1>1. Len(s) \in Nat
  OBVIOUS
<1>2. \A i \in (a + 1)..Len(s) : s[i] \in T
  BY <1>1
<1>3. /\ SubSeq(s, a + 1, Len(s)) \in Seq(T)
      /\ Len(SubSeq(s, a + 1, Len(s))) = IF a + 1 <= Len(s) THEN Len(s) - (a + 1) + 1 ELSE 0
      /\ \A i \in 1..(Len(s) - (a + 1) + 1) : SubSeq(s, a + 1, Len(s))[i] = s[a + 1 + i - 1]
  BY <1>1, <1>2, SubSeqProperties
<1>4. \A i \in 1..(Len(s) - a) : i \in 1..(Len(s) - (a + 1) + 1) /\ a + 1 + i - 1 = a + i
  BY <1>1
<1> QED BY <1>1, <1>3, <1>4 DEF After

\* Reading in two steps is reading in one.
LEMMA AfterAfter ==
  ASSUME NEW T, NEW s \in Seq(T), NEW a \in Nat, NEW b \in Nat, a + b <= Len(s)
  PROVE  After(After(s, a), b) = After(s, a + b)
<1> DEFINE t == After(s, a)
           u == After(t, b)
           v == After(s, a + b)
<1>1. Len(s) \in Nat /\ a <= Len(s)
  OBVIOUS
<1>2. t \in Seq(T) /\ Len(t) = Len(s) - a /\ \A i \in 1..(Len(s) - a) : t[i] = s[a + i]
  BY <1>1, AfterIs
<1>3. /\ v \in Seq(T) /\ Len(v) = Len(s) - (a + b)
      /\ \A i \in 1..(Len(s) - (a + b)) : v[i] = s[a + b + i]
  BY <1>1, AfterIs
<1> HIDE DEF t
<1>a. t \in Seq(T) /\ b <= Len(t)
  BY <1>1, <1>2
<1>4. u \in Seq(T) /\ Len(u) = Len(t) - b /\ \A i \in 1..(Len(t) - b) : u[i] = t[b + i]
  BY <1>a, AfterIs
<1> HIDE DEF u, v
<1>5. ASSUME NEW i \in 1..Len(u) PROVE u[i] = v[i]
  <2>1. /\ i \in 1..(Len(t) - b) /\ i \in 1..(Len(s) - (a + b))
        /\ b + i \in 1..(Len(s) - a) /\ a + (b + i) = a + b + i
    BY <1>1, <1>2, <1>4
  <2> QED BY <1>2, <1>3, <1>4, <2>1
<1>6. Len(u) = Len(v)
  BY <1>1, <1>2, <1>3, <1>4
<1>7. u = v
  BY <1>3, <1>4, <1>5, <1>6, SeqEqual
<1> QED BY <1>7 DEF t, u, v

\* The start of a packet that is cut is shorter than the packet and begins as
\* the packet does.
LEMMA StartIs ==
  ASSUME NEW p \in Packets, NEW f \in Starts(p)
  PROVE  /\ f \in Seq(Cells) /\ Len(f) < Len(Frame(p))
         /\ Len(f) >= 1 => f[1] = Frame(p)[1]
<1>1. Frame(p) \in Seq(Cells) /\ Len(Frame(p)) \in Nat
  BY FrameIs
<1>2. PICK n \in 0..(Len(Frame(p)) - 1) : f = SubSeq(Frame(p), 1, n)
  BY DEF Starts
<1>3. \A i \in 1..n : Frame(p)[i] \in Cells
  BY <1>1
<1>4. /\ SubSeq(Frame(p), 1, n) \in Seq(Cells)
      /\ Len(SubSeq(Frame(p), 1, n)) = IF 1 <= n THEN n - 1 + 1 ELSE 0
      /\ \A i \in 1..(n - 1 + 1) : SubSeq(Frame(p), 1, n)[i] = Frame(p)[1 + i - 1]
  BY <1>1, <1>3, SubSeqProperties
<1>5. Len(f) = n
  BY <1>1, <1>2, <1>4
<1>6. n >= 1 => f[1] = Frame(p)[1]
  BY <1>1, <1>2, <1>4
<1> QED BY <1>1, <1>2, <1>4, <1>5, <1>6

\* The frames of the batch.
LEMMA FramesAre ==
  ASSUME packets \in Seq(Packets)
  PROVE  /\ Frames \in Seq(Seq(Cells)) /\ Len(Frames) = Len(packets)
         /\ Len(packets) \in Nat
         /\ \A i \in 1..Len(packets) : packets[i] \in Packets /\ Frames[i] = Frame(packets[i])
<1>1. /\ Len(packets) \in Nat /\ DOMAIN packets = 1..Len(packets)
      /\ \A i \in 1..Len(packets) : packets[i] \in Packets
  OBVIOUS
<1>2. \A i \in 1..Len(packets) : Frame(packets[i]) \in Seq(Cells)
  BY <1>1, FrameIs
<1> QED BY <1>1, <1>2 DEF Frames

\* A batch that starts with a packet is its frames and the fragment.
LEMMA BatchIs ==
  ASSUME InputInv, lead = <<>>
  PROVE  /\ fragment \in Seq(Cells)
         /\ Batch \in Seq(Cells)
         /\ Offset(Frames, Len(packets)) \in Nat
         /\ Len(Batch) = Offset(Frames, Len(packets)) + Len(fragment)
         /\ \A i \in 1..Offset(Frames, Len(packets)) : Batch[i] = FlattenSeq(Frames)[i]
         /\ After(Batch, Offset(Frames, Len(packets))) = fragment
<1> DEFINE flat == FlattenSeq(Frames)
           size == Offset(Frames, Len(packets))
<1>1. fragment \in Seq(Cells)
  BY StartIs DEF InputInv
<1>2. flat \in Seq(Cells) /\ Len(flat) = size /\ size \in Nat
  BY FramesAre, FlattenIsSeq DEF InputInv
<1>3. Batch = flat \o fragment
  <2>1. Batch = (<<>> \o flat) \o fragment
    BY DEF Batch, Frames
  <2> HIDE DEF flat
  <2> QED BY <1>2, <2>1, ConcatEmptySeq
<1> HIDE DEF flat, size
<1>a. flat \in Seq(Cells) /\ fragment \in Seq(Cells)
  BY <1>1, <1>2
<1>b. /\ flat \o fragment \in Seq(Cells) /\ Len(fragment) \in Nat
      /\ Len(flat \o fragment) = Len(flat) + Len(fragment)
      /\ \A i \in 1..Len(flat) : (flat \o fragment)[i] = flat[i]
      /\ \A i \in 1..Len(fragment) : (flat \o fragment)[Len(flat) + i] = fragment[i]
  BY <1>a, ConcatFacts
<1>4. /\ Batch \in Seq(Cells) /\ Len(fragment) \in Nat
      /\ Len(Batch) = Len(flat) + Len(fragment)
      /\ \A i \in 1..Len(flat) : Batch[i] = flat[i]
      /\ \A i \in 1..Len(fragment) : Batch[Len(flat) + i] = fragment[i]
  BY <1>3, <1>b
<1>5. size <= Len(Batch) /\ Len(Batch) - size = Len(fragment)
  BY <1>2, <1>4
<1>c. Batch \in Seq(Cells) /\ size \in Nat /\ size <= Len(Batch)
  BY <1>2, <1>4, <1>5
<1>6. /\ After(Batch, size) \in Seq(Cells) /\ Len(After(Batch, size)) = Len(Batch) - size
      /\ \A i \in 1..(Len(Batch) - size) : After(Batch, size)[i] = Batch[size + i]
  BY <1>c, AfterIs
<1>7. \A i \in 1..Len(After(Batch, size)) : After(Batch, size)[i] = fragment[i]
  BY <1>2, <1>4, <1>5, <1>6
<1>8. After(Batch, size) = fragment
  BY <1>1, <1>5, <1>6, <1>7, SeqEqual
<1> QED BY <1>1, <1>2, <1>4, <1>8 DEF flat, size

\* Where the packet behind the first k stands in the batch.
LEMMA FrameAt ==
  ASSUME InputInv, lead = <<>>, NEW k \in Nat, k < Len(packets)
  PROVE  /\ packets[k + 1] \in Packets
         /\ Offset(Frames, k) \in Nat
         /\ Offset(Frames, k + 1) = Offset(Frames, k) + Len(Frame(packets[k + 1]))
         /\ Offset(Frames, k + 1) <= Len(Batch)
         /\ \A i \in 1..Len(Frame(packets[k + 1])) :
              Batch[Offset(Frames, k) + i] = Frame(packets[k + 1])[i]
<1> DEFINE flat == FlattenSeq(Frames)
           size == Offset(Frames, Len(packets))
           at == Offset(Frames, k)
           next == Offset(Frames, k + 1)
           frame == Frame(packets[k + 1])
<1>1. /\ Len(packets) \in Nat /\ packets[k + 1] \in Packets /\ Frames[k + 1] = frame
      /\ Frames \in Seq(Seq(Cells)) /\ Len(Frames) = Len(packets)
      /\ k \in 0..Len(packets)
  BY FramesAre DEF InputInv
<1>2. /\ size \in Nat /\ Len(flat) = size /\ at \in Nat
  BY <1>1, FlattenIsSeq
<1>3. /\ next = at + Len(frame) /\ next <= Len(flat) /\ Len(frame) \in Nat
      /\ \A i \in 1..Len(frame) : flat[at + i] = frame[i]
  BY <1>1, FlattenPiece
<1>4. /\ Len(Batch) = size + Len(fragment) /\ Len(fragment) \in Nat
      /\ \A i \in 1..size : Batch[i] = flat[i]
  BY BatchIs
<1> HIDE DEF flat, size, at, next, frame
<1>5. next <= Len(Batch)
  BY <1>2, <1>3, <1>4
<1>6. ASSUME NEW i \in 1..Len(frame) PROVE Batch[at + i] = frame[i]
  <2>1. at + i \in 1..size
    BY <1>2, <1>3
  <2> QED BY <1>3, <1>4, <2>1
<1> QED BY <1>1, <1>2, <1>3, <1>5, <1>6 DEF flat, size, at, next, frame

\* The parts of the batch, and where those of the packet behind the first k stand.
LEMMA PartsAt ==
  ASSUME packets \in Seq(Packets)
  PROVE  /\ AllParts \in Seq(Parts)
         /\ Len(AllParts) = Offset(packets, Len(packets))
         /\ Offset(packets, 0) = 0
         /\ \A k \in 0..Len(packets) : Offset(packets, k) \in Nat
         /\ \A k \in Nat : k < Len(packets) =>
              /\ Offset(packets, k + 1) = Offset(packets, k) + Len(packets[k + 1])
              /\ Offset(packets, k + 1) <= Len(AllParts)
              /\ \A i \in 1..Len(packets[k + 1]) :
                   AllParts[Offset(packets, k) + i] = packets[k + 1][i]
<1>1. /\ Len(packets) \in Nat
      /\ \A i \in 1..Len(packets) : packets[i] \in Packets
  OBVIOUS
<1>2. Packets \subseteq Seq(Parts)
  BY PacketIs
<1>3. packets \in Seq(Seq(Parts))
  BY <1>2, SeqMonotonic
<1>4. AllParts = FlattenSeq(packets)
  BY DEF AllParts
<1>5. /\ AllParts \in Seq(Parts)
      /\ Len(AllParts) = Offset(packets, Len(packets))
      /\ Offset(packets, 0) = 0
      /\ \A k \in 0..Len(packets) : Offset(packets, k) \in Nat
  BY <1>3, <1>4, FlattenIsSeq
<1>6. ASSUME NEW k \in Nat, k < Len(packets)
      PROVE  /\ Offset(packets, k + 1) = Offset(packets, k) + Len(packets[k + 1])
             /\ Offset(packets, k + 1) <= Len(AllParts)
             /\ \A i \in 1..Len(packets[k + 1]) :
                  AllParts[Offset(packets, k) + i] = packets[k + 1][i]
  BY <1>3, <1>4, <1>6, FlattenPiece
<1> QED BY <1>5, <1>6

----------------------------------------------------------------------------
(* One turn of the loop *)

\* Behind the last packet the fragment is left.
LEMMA FragmentLeft ==
  ASSUME InputInv, lead = <<>>, NEW j \in Nat, Reading(Len(packets), j)
  PROVE  /\ rest = fragment /\ fromMain = TRUE /\ j = 0
         /\ ~PacketHere
         /\ Readable(rest, HeaderCells) => Marked(rest[1], "main")
<1>0. Len(packets) \in Nat
  BY FramesAre DEF InputInv
<1>a. j = 0
  BY <1>0 DEF Reading
<1>1. j = 0 /\ fromMain = TRUE /\ rest = After(Batch, Position(Len(packets), 0))
  BY <1>a DEF Reading
<1>2. rest = fragment
  BY <1>1, BatchIs DEF Position
<1>3. PICK p \in Packets : fragment \in Starts(p)
  BY DEF InputInv
<1>4. /\ Len(fragment) \in Nat /\ Len(fragment) < Len(Frame(p))
      /\ Len(fragment) >= 1 => fragment[1] = Frame(p)[1]
  BY <1>3, StartIs
<1>5. PICK size \in Nat : Len(Frame(p)) = size + 1 /\ Frame(p)[1] = Cell("main", size)
  BY FrameIs
<1>6. Len(fragment) >= 2 => fragment[1].mark = "main" /\ fragment[1].number = size
  BY <1>4, <1>5 DEF Cell
<1>7. ~PacketHere
  BY <1>2, <1>4, <1>5, <1>6 DEF PacketHere, Readable, HeaderCells, MainSize, KeyCells
<1>8. Readable(rest, HeaderCells) => Marked(rest[1], "main")
  BY <1>2, <1>4, <1>6 DEF Readable, HeaderCells, Marked
<1> QED BY <1>1, <1>2, <1>7, <1>8

\* Before, the next part is here, key and body.
LEMMA PartIsHere ==
  ASSUME InputInv, lead = <<>>, NEW k \in Nat, k < Len(packets), NEW j \in Nat, Reading(k, j)
  PROVE  LET packet == packets[k + 1]
             p == packet[j + 1]
         IN /\ packet \in Packets /\ j < Len(packet) /\ p \in Parts
            /\ AtPart = After(Batch, Offset(Frames, k) + 1 + Offset(Bodies(packet), j))
            /\ AtPart[1] = Cell("part", p.size)
            /\ PacketCode \in parser.known <=> Understood(p)
            /\ Understood(p) => PacketCode = p.code
            /\ PartHere
            /\ TotalHere = Offset(Bodies(packet), Len(packet)) - Offset(Bodies(packet), j) + 1
            /\ fromMain => PacketHere
<1> DEFINE packet == packets[k + 1]
           p == packet[j + 1]
           start == Offset(Frames, k)
           at == Offset(Bodies(packet), j)
           size == Offset(Bodies(packet), Len(packet))
           frame == Frame(packet)
<1>1. /\ packet \in Packets /\ start \in Nat
      /\ start + Len(frame) <= Len(Batch)
      /\ \A i \in 1..Len(frame) : Batch[start + i] = frame[i]
  BY FrameAt
<1>2. Batch \in Seq(Cells) /\ Len(Batch) \in Nat
  BY BatchIs
<1>3. Len(packet) \in Nat /\ j < Len(packet)
  <2>1. Len(packet) \in Nat \ {0}
    BY <1>1, PacketIs
  <2> QED BY <2>1 DEF Reading
<1>4. size \in Nat /\ Len(frame) = size + 1 /\ frame[1] = Cell("main", size)
  BY <1>1, FrameIs
<1>5. /\ at \in Nat /\ p \in Parts /\ at + p.size + 1 <= size
      /\ frame[at + 2] = Cell("part", p.size) /\ frame[at + 3] = Cell("body", p.code)
      /\ p.size > 1 => frame[at + 4] = Cell("body", p.more)
  BY <1>1, <1>3, PartAt
<1>6. p.size \in Nat /\ p.size >= 1 /\ p.code \in 1..255 /\ p.more \in Nat
  BY <1>5, PartIs
<1>7. j = 0 => at = 0
  BY DEF Offset
<1>8. /\ rest = After(Batch, IF j = 0 THEN start ELSE start + (at + 1))
      /\ fromMain = (j = 0)
      /\ j # 0 => total = size - at + 1
  <2>1. /\ rest = After(Batch, Position(k, j))
        /\ fromMain = (j = 0) /\ (j # 0 => total = size - at + 1)
    BY Zenon DEF Reading
  <2>2. Position(k, j) = start + (IF j = 0 THEN 0 ELSE at + 1)
    BY Zenon DEF Position
  <2> HIDE DEF packet, p, start, at, size, frame
  <2>3. Position(k, j) = IF j = 0 THEN start ELSE start + (at + 1)
    <3>1. start \in Nat
      BY <1>1
    <3> QED BY <2>2, <3>1
  <2> QED BY <2>1, <2>3, Zenon
<1> HIDE DEF packet, p, start, at, size, frame
<1>9. /\ start + 1 + at \in Nat /\ start + 1 + at <= Len(Batch)
      /\ Len(Batch) - (start + 1 + at) >= p.size + 1
      /\ start <= Len(Batch)
      /\ Len(Batch) - start >= size + 1
      /\ size >= 2
  <2>1. start + size + 1 <= Len(Batch)
    BY <1>1, <1>4
  <2>2. at + p.size + 1 <= size
    BY <1>5
  <2>3. start \in Nat /\ size \in Nat /\ at \in Nat /\ p.size \in Nat /\ Len(Batch) \in Nat
    BY <1>1, <1>2, <1>4, <1>5, <1>6
  <2> DEFINE b == Len(Batch)
             n == p.size
  <2> HIDE DEF b, n
  <2>4. /\ start + size + 1 <= b /\ at + n + 1 <= size /\ n >= 1
        /\ start \in Nat /\ size \in Nat /\ at \in Nat /\ n \in Nat /\ b \in Nat
    BY <1>6, <2>1, <2>2, <2>3 DEF b, n
  <2>5. /\ start + 1 + at \in Nat /\ start + 1 + at <= b
        /\ b - (start + 1 + at) >= n + 1
        /\ start <= b
        /\ b - start >= size + 1
        /\ size >= 2
    BY <2>4
  <2> QED BY <2>5 DEF b, n
<1> DEFINE here == After(Batch, start + 1 + at)
<1>10. /\ here \in Seq(Cells) /\ Len(here) = Len(Batch) - (start + 1 + at)
       /\ \A i \in 1..(Len(Batch) - (start + 1 + at)) : here[i] = Batch[start + 1 + at + i]
  BY <1>2, <1>9, AfterIs
<1>11. here[1] = Cell("part", p.size) /\ here[2] = Cell("body", p.code)
  <2>1. /\ 1 \in 1..(Len(Batch) - (start + 1 + at)) /\ 2 \in 1..(Len(Batch) - (start + 1 + at))
        /\ start + 1 + at + 1 = start + (at + 2) /\ start + 1 + at + 2 = start + (at + 3)
        /\ at + 2 \in 1..Len(frame) /\ at + 3 \in 1..Len(frame)
    <3> DEFINE b == Len(Batch)
               n == p.size
               f == Len(frame)
    <3>1. /\ start \in Nat /\ size \in Nat /\ at \in Nat /\ n \in Nat /\ b \in Nat /\ n >= 1
          /\ f = size + 1 /\ at + n + 1 <= size /\ b - (start + 1 + at) >= n + 1
      BY <1>1, <1>2, <1>4, <1>5, <1>6, <1>9
    <3> HIDE DEF b, n, f
    <3>2. /\ 1 \in 1..(b - (start + 1 + at)) /\ 2 \in 1..(b - (start + 1 + at))
          /\ start + 1 + at + 1 = start + (at + 2) /\ start + 1 + at + 2 = start + (at + 3)
          /\ at + 2 \in 1..f /\ at + 3 \in 1..f
      BY <3>1
    <3> QED BY <3>2 DEF b, f
  <2> HIDE DEF here
  <2>2. here[1] = Batch[start + (at + 2)] /\ here[2] = Batch[start + (at + 3)]
    BY <1>10, <2>1
  <2> QED BY <1>1, <1>5, <2>1, <2>2
<1>12. fromMain => /\ j = 0 /\ at = 0 /\ rest = After(Batch, start)
                   /\ rest \in Seq(Cells) /\ Len(rest) = Len(Batch) - start
                   /\ rest[1] = Cell("main", size)
  <2> SUFFICES ASSUME fromMain
               PROVE  /\ j = 0 /\ at = 0 /\ rest = After(Batch, start)
                      /\ rest \in Seq(Cells) /\ Len(rest) = Len(Batch) - start
                      /\ rest[1] = Cell("main", size)
    OBVIOUS
  <2>1. j = 0 /\ at = 0 /\ rest = After(Batch, start)
    BY <1>7, <1>8
  <2>2. /\ rest \in Seq(Cells) /\ Len(rest) = Len(Batch) - start
        /\ \A i \in 1..(Len(Batch) - start) : rest[i] = Batch[start + i]
    <3>1. Batch \in Seq(Cells) /\ start \in Nat /\ start <= Len(Batch)
      BY <1>1, <1>2, <1>9
    <3> QED BY <2>1, <3>1, AfterIs
  <2>3. 1 \in 1..(Len(Batch) - start) /\ 1 \in 1..Len(frame)
    BY <1>1, <1>2, <1>4, <1>9
  <2>4. rest[1] = Cell("main", size)
    BY <1>1, <1>4, <2>2, <2>3
  <2> QED BY <2>1, <2>2, <2>4
<1>13. AtPart = here
  <2>1. CASE fromMain
    <3>1. After(rest, 1) = After(Batch, start + 1)
      BY <1>1, <1>2, <1>9, <1>12, <2>1, AfterAfter
    <3>2. start + 1 + at = start + 1
      BY <1>1, <1>12, <2>1
    <3> QED BY <2>1, <3>1, <3>2 DEF AtPart, KeyCells
  <2>2. CASE ~fromMain
    <3>1. start + (at + 1) = start + 1 + at
      BY <1>1, <1>5
    <3> QED BY <1>8, <2>2, <3>1 DEF AtPart
  <2> QED BY <2>1, <2>2
<1>14. fromMain => PacketHere
  <2>1. fromMain => rest[1].mark = "main" /\ rest[1].number = size
    BY <1>12 DEF Cell
  <2> QED BY <1>1, <1>2, <1>4, <1>9, <1>12, <2>1
          DEF PacketHere, Readable, HeaderCells, KeyCells, Marked, MainSize
<1>15. TotalHere = size - at + 1
  <2>1. CASE fromMain
    <3>1. rest[1].number = size /\ at = 0
      BY <1>12, <2>1 DEF Cell
    <3> QED BY <1>4, <2>1, <3>1 DEF TotalHere, MainSize, KeyCells
  <2>2. CASE ~fromMain
    BY <1>8, <2>2 DEF TotalHere
  <2> QED BY <2>1, <2>2
<1> HIDE DEF here
<1>16. AtPart[1].mark = "part" /\ AtPart[1].number = p.size /\ AtPart[2].number = p.code
  BY <1>11, <1>13 DEF Cell
<1>a. ASSUME p.size > 1 PROVE AtPart[3].number = p.more
  <2> DEFINE b == Len(Batch)
             n == p.size
             f == Len(frame)
  <2>1. /\ start \in Nat /\ size \in Nat /\ at \in Nat /\ n \in Nat /\ b \in Nat /\ n > 1
        /\ f = size + 1 /\ at + n + 1 <= size /\ b - (start + 1 + at) >= n + 1
    BY <1>1, <1>2, <1>4, <1>5, <1>6, <1>9, <1>a
  <2> HIDE DEF b, n, f
  <2>2. /\ 3 \in 1..(b - (start + 1 + at)) /\ start + 1 + at + 3 = start + (at + 4)
        /\ at + 4 \in 1..f
    BY <2>1
  <2>3. here[3] = Batch[start + (at + 4)]
    BY <1>10, <2>2 DEF b
  <2>4. here[3] = Cell("body", p.more)
    BY <1>1, <1>5, <1>a, <2>2, <2>3 DEF f
  <2> QED BY <1>13, <2>4 DEF Cell
<1>b. parser.wide \in BOOLEAN /\ parser.known \subseteq 1..255
  BY KnownAssumption DEF InputInv
<1>17. (PacketCode \in parser.known <=> Understood(p)) /\ (Understood(p) => PacketCode = p.code)
  <2> DEFINE n == p.size
             c == p.code
             e == p.more
  <2>1. n \in Nat /\ n >= 1 /\ c \in 1..255 /\ e \in Nat
    BY <1>6
  <2>2. PacketCode = IF parser.wide THEN (IF n < 2 THEN 0 ELSE c + 256 * e) ELSE c
    <3>1. CASE n < 2
      BY <1>6, <1>16, <3>1 DEF PacketCode
    <3>2. CASE ~(n < 2)
      <4>1. AtPart[3].number = e
        BY <1>6, <1>a, <3>2
      <4> QED BY <1>6, <1>16, <3>2, <4>1 DEF PacketCode, Byte
    <3> QED BY <3>1, <3>2
  <2>3. Understood(p) <=> c \in parser.known /\ (parser.wide => n > 1 /\ e = 0)
    BY DEF Understood
  <2> HIDE DEF n, c, e
  <2>4. (PacketCode \in parser.known <=> Understood(p)) /\ (Understood(p) => PacketCode = c)
    <3>1. CASE ~parser.wide
      <4>1. PacketCode = c
        BY <2>2, <3>1
      <4>2. Understood(p) <=> c \in parser.known
        BY <2>3, <3>1, Zenon
      <4> QED BY <4>1, <4>2, Zenon
    <3>2. CASE parser.wide /\ n < 2
      <4>1. PacketCode = 0 /\ ~(n > 1)
        BY <2>1, <2>2, <3>2
      <4>2. 0 \notin parser.known
        <5>1. 0 \notin 1..255
          OBVIOUS
        <5> QED BY <1>b, <5>1, Zenon
      <4>3. ~Understood(p)
        BY <2>3, <3>2, <4>1, Zenon
      <4> QED BY <4>1, <4>2, <4>3, Zenon
    <3>3. CASE parser.wide /\ ~(n < 2)
      <4>1. PacketCode = c + 256 * e
        BY <2>2, <3>3
      <4>2. CASE e = 0
        <5>1. PacketCode = c /\ n > 1
          BY <2>1, <3>3, <4>1, <4>2
        <5>2. Understood(p) <=> c \in parser.known
          BY <2>3, <4>2, <5>1, Zenon
        <5> QED BY <5>1, <5>2, Zenon
      <4>3. CASE e # 0
        <5>1. PacketCode > 255 /\ PacketCode \in Nat
          BY <2>1, <4>1, <4>3
        <5>2. PacketCode \notin 1..255
          BY <5>1
        <5>3. PacketCode \notin parser.known
          BY <1>b, <5>2, Zenon
        <5>4. ~Understood(p)
          BY <2>3, <3>3, <4>3, Zenon
        <5> QED BY <5>3, <5>4, Zenon
      <4> QED BY <4>2, <4>3
    <3> QED BY <3>1, <3>2, <3>3
  <2> QED BY <2>4 DEF c
<1>18. PartHere
  <2>1. Readable(AtPart, KeyCells)
    BY <1>2, <1>6, <1>9, <1>10, <1>13 DEF Readable, KeyCells
  <2>2. Marked(AtPart[1], "part")
    BY <1>16 DEF Marked
  <2>3. Len(AtPart) \in Nat /\ Len(AtPart) >= p.size + 1 /\ AtPart \in Seq(Cells)
    BY <1>9, <1>10, <1>13
  <2>4. Len(After(AtPart, 1)) = Len(AtPart) - 1
    BY <1>6, <2>3, AfterIs
  <2>5. Readable(After(AtPart, KeyCells), AtPart[1].number)
    BY <1>6, <1>16, <2>3, <2>4 DEF Readable, KeyCells
  <2> QED BY <1>14, <2>1, <2>2, <2>5 DEF PartHere
<1> QED BY <1>3, <1>1, <1>5, <1>11, <1>13, <1>14, <1>15, <1>17, <1>18
        DEF packet, p, start, at, size, here

\* A number below the modulus is its own remainder.
LEMMA SmallRemainder ==
  ASSUME NEW a \in Nat, NEW w \in Nat, a < w
  PROVE  a % w = a
  OBVIOUS

\* The part that is next is the one the handlers are owed.
LEMMA PartIsNext ==
  ASSUME InputInv, HandledInv, NEW k \in Nat, k < Len(packets), NEW j \in Nat, Reading(k, j),
         j < Len(packets[k + 1])
  PROVE  /\ exchanges + Len(handled) + 1 <= Len(AllParts)
         /\ AllParts[exchanges + Len(handled) + 1] = packets[k + 1][j + 1]
<1> DEFINE at == Offset(packets, k)
           m == Len(packets[k + 1])
<1>1. Len(packets) \in Nat /\ k \in 0..Len(packets) /\ packets[k + 1] \in Packets
  BY FramesAre DEF InputInv
<1>2. m \in Nat
  BY <1>1, PacketIs
<1>3. /\ at \in Nat /\ Len(AllParts) \in Nat
      /\ at + m <= Len(AllParts)
      /\ \A i \in 1..m : AllParts[at + i] = packets[k + 1][i]
  <2>1. packets \in Seq(Packets)
    BY DEF InputInv
  <2>2. /\ Offset(packets, k) \in Nat /\ AllParts \in Seq(Parts)
        /\ Offset(packets, k + 1) = Offset(packets, k) + Len(packets[k + 1])
        /\ Offset(packets, k + 1) <= Len(AllParts)
        /\ \A i \in 1..Len(packets[k + 1]) :
             AllParts[Offset(packets, k) + i] = packets[k + 1][i]
    BY <1>1, <2>1, PartsAt
  <2> QED BY <2>2
<1>4. exchanges + Len(handled) = at + j /\ j < m
  BY DEF Reading
<1> HIDE DEF at, m
<1>5. /\ at + j + 1 = at + (j + 1) /\ j + 1 \in 1..m /\ at + (j + 1) <= Len(AllParts)
  BY <1>2, <1>3, <1>4
<1> QED BY <1>3, <1>4, <1>5

\* A part taken brings the loop behind it: into the packet, or to the next one.
LEMMA PartTaken ==
  ASSUME InputInv, lead = <<>>, NEW k \in Nat, k < Len(packets), NEW j \in Nat, Reading(k, j),
         TakePart, UNCHANGED input,
         exchanges' + Len(handled') = exchanges + Len(handled) + 1
  PROVE  \E l \in 0..Len(packets'), i \in Nat : Reading(l, i)'
<1> DEFINE packet == packets[k + 1]
           p == packet[j + 1]
           start == Offset(Frames, k)
           at == Offset(Bodies(packet), j)
           next == Offset(Bodies(packet), j + 1)
           size == Offset(Bodies(packet), Len(packet))
           codes == Offset(packets, k)
<1>1. UNCHANGED <<packets, Batch, Frames>>
  BY DEF input, Batch, Frames
<1>2. /\ packet \in Packets /\ j < Len(packet) /\ p \in Parts
      /\ AtPart = After(Batch, start + 1 + at)
      /\ AtPart[1] = Cell("part", p.size)
      /\ TotalHere = size - at + 1
  BY PartIsHere
<1>a. AtPart[1].number = p.size
  BY <1>2 DEF Cell
<1>3. /\ start \in Nat /\ Offset(Frames, k + 1) = start + Len(Frame(packet))
      /\ Offset(Frames, k + 1) <= Len(Batch)
  BY FrameAt
<1>4. size \in Nat /\ Len(Frame(packet)) = size + 1
  BY <1>2, FrameIs
<1>5. at \in Nat /\ next = at + p.size + 1 /\ next <= size /\ Len(packet) \in Nat
  BY <1>2, PartAt, PacketIs
<1>6. p.size \in Nat /\ p.size >= 1
  BY <1>2, PartIs
<1>7. Batch \in Seq(Cells) /\ Len(Batch) \in Nat
  BY BatchIs
<1>8. Word \in Nat /\ size + 1 < Word
  BY <1>2, <1>4, WordAssumption
<1>9. codes \in Nat /\ Offset(packets, k + 1) = codes + Len(packet)
  <2>1. packets \in Seq(Packets)
    BY DEF InputInv
  <2>2. k \in 0..Len(packets)
    BY <2>1, FramesAre
  <2> QED BY <2>1, <2>2, PartsAt
<1>10. exchanges' + Len(handled') = codes + j + 1
  BY DEF Reading
<1>11. j + 1 # Len(packet) => j + 1 < Len(packet) /\ next < size
  <2> SUFFICES ASSUME j + 1 # Len(packet) PROVE j + 1 < Len(packet) /\ next < size
    OBVIOUS
  <2>1. j + 1 < Len(packet) /\ j + 1 \in Nat
    BY <1>2, <1>5
  <2>2. /\ packet[(j + 1) + 1] \in Parts
        /\ Offset(Bodies(packet), (j + 1) + 1) = next + packet[(j + 1) + 1].size + 1
        /\ Offset(Bodies(packet), (j + 1) + 1) <= size
    BY <1>2, <2>1, PartAt
  <2>3. packet[(j + 1) + 1].size \in Nat
    BY <2>2, PartIs
  <2>4. next \in Nat
    BY <1>5, <1>6
  <2>5. next < size
    <3> DEFINE n == packet[(j + 1) + 1].size
    <3>1. next + n + 1 <= size /\ n \in Nat
      BY <2>2, <2>3
    <3> HIDE DEF n, next, size
    <3> QED BY <1>4, <2>4, <3>1
  <2> QED BY <2>1, <2>5
<1>12. j + 1 = Len(packet) => next = size
  OBVIOUS
<1> HIDE DEF packet, p, start, at, next, size, codes
<1>b. next \in Nat
  BY <1>5, <1>6
<1>13. (TotalHere - (AtPart[1].number + KeyCells)) % Word = size - next + 1
  <2>1. TotalHere - (AtPart[1].number + KeyCells) = size - next + 1
    BY <1>a, <1>2, <1>4, <1>5, <1>6 DEF KeyCells
  <2>2. size - next + 1 \in Nat /\ size - next + 1 < Word
    BY <1>b, <1>4, <1>5, <1>8
  <2>3. (size - next + 1) % Word = size - next + 1
    BY <1>8, <2>2, SmallRemainder
  <2> QED BY <2>1, <2>3
<1>14. total' = size - next + 1 /\ fromMain' = (size - next + 1 = 1)
  BY <1>13 DEF TakePart, RestartsAt, KeyCells
<1>15. rest' = After(Batch, start + 1 + next)
  <2>1. rest' = After(After(Batch, start + 1 + at), 1 + p.size)
    BY <1>a, <1>2 DEF TakePart, KeyCells
  <2>2. /\ start + 1 + at \in Nat /\ 1 + p.size \in Nat
        /\ (start + 1 + at) + (1 + p.size) = start + 1 + next
        /\ start + 1 + next <= Len(Batch)
    <3> DEFINE n == p.size
               b == Len(Batch)
    <3>1. /\ start \in Nat /\ at \in Nat /\ n \in Nat /\ next \in Nat /\ b \in Nat
          /\ next = at + n + 1 /\ start + (size + 1) <= b /\ next <= size /\ size \in Nat
      BY <1>b, <1>3, <1>4, <1>5, <1>6, <1>7
    <3> HIDE DEF n, b
    <3>2. /\ start + 1 + at \in Nat /\ 1 + n \in Nat
          /\ (start + 1 + at) + (1 + n) = start + 1 + next
          /\ start + 1 + next <= b
      BY <3>1
    <3> QED BY <3>2 DEF n, b
  <2>3. After(After(Batch, start + 1 + at), 1 + p.size)
          = After(Batch, (start + 1 + at) + (1 + p.size))
    BY <1>7, <2>2, AfterAfter
  <2> QED BY <2>1, <2>2, <2>3
<1>16. CASE j + 1 = Len(packet)
  <2>1. start + 1 + next = Offset(Frames, k + 1)
    BY <1>3, <1>4, <1>12, <1>16
  <2>2. rest' = After(Batch, Position(k + 1, 0))
    <3>1. Offset(Frames, k + 1) \in Nat
      BY <1>3, <1>4
    <3> QED BY <1>15, <2>1, <3>1 DEF Position
  <2>3. Position(k + 1, 0)' = Position(k + 1, 0)
    BY <1>1 DEF Position
  <2>4. fromMain' = TRUE
    <3>1. size - next + 1 = 1
      BY <1>b, <1>4, <1>12, <1>16
    <3> QED BY <1>14, <3>1
  <2>5. exchanges' + Len(handled') = Offset(packets, k + 1) + 0
    BY <1>9, <1>10, <1>16
  <2>6. Reading(k + 1, 0)'
    BY <1>1, <2>2, <2>3, <2>4, <2>5 DEF Reading
  <2>7. k + 1 \in 0..Len(packets') /\ 0 \in Nat
    BY <1>1, FramesAre DEF InputInv
  <2> QED BY <2>6, <2>7
<1>17. CASE j + 1 # Len(packet)
  <2>1. rest' = After(Batch, Position(k, j + 1))
    <3>1. start + 1 + next = start + (next + 1)
      BY <1>b, <1>3
    <3> QED BY <1>15, <3>1 DEF Position, start, next, packet
  <2>2. Position(k, j + 1)' = Position(k, j + 1)
    BY <1>1 DEF Position
  <2>3. fromMain' = FALSE
    <3>1. size - next + 1 # 1
      BY <1>b, <1>4, <1>11, <1>17
    <3> QED BY <1>14, <3>1
  <2>4. exchanges' + Len(handled') = Offset(packets, k) + (j + 1)
    BY <1>9, <1>10 DEF codes
  <2>5. j + 1 < Len(packets[k + 1])
    BY <1>11, <1>17 DEF packet
  <2>6. total' = Offset(Bodies(packets[k + 1]), Len(packets[k + 1]))
                   - Offset(Bodies(packets[k + 1]), j + 1) + 1
    BY <1>14 DEF size, next, packet
  <2>7. Reading(k, j + 1)'
    <3>1. j + 1 # 0 /\ k < Len(packets)
      OBVIOUS
    <3>2. fromMain' = (j + 1 = 0)
      BY <2>3, <3>1, Zenon
    <3> QED BY <1>1, <2>1, <2>2, <2>4, <2>5, <2>6, <3>1, <3>2 DEF Reading
  <2>8. k \in 0..Len(packets') /\ j + 1 \in Nat
    BY <1>1, FramesAre DEF InputInv
  <2> QED BY <2>7, <2>8
<1> QED BY <1>16, <1>17

\* No step changes the batch.
LEMMA InputStays ==
  ASSUME [Next]_vars
  PROVE  UNCHANGED input /\ UNCHANGED AllParts
<1>1. UNCHANGED input
  BY DEF Next, StopsAtMain, StopsAtPart, Handle, NoHandler, CipherInit, DecryptFails,
         Return, vars
<1> QED BY <1>1 DEF input, AllParts

\* A step that leaves alone what was handled keeps what is said of it.
LEMMA HandledStays ==
  ASSUME HandledInv, UNCHANGED <<input, synced, exchanges, handled>>, UNCHANGED AllParts
  PROVE  HandledInv'
  BY DEF HandledInv, Plain, Understood, input

\* One turn on a batch that starts with a packet.
LEMMA WholeStep ==
  ASSUME InputInv, lead = <<>>, HandledInv, LoopInv, Next
  PROVE  HandledInv' /\ (IF result' = "" THEN LoopInv' ELSE EndInv')
<1>0. UNCHANGED <<input, AllParts>> /\ UNCHANGED <<parser, fragment>> /\ result = ""
  BY InputStays DEF Next, input
<1>a. Len(packets) \in Nat
  BY FramesAre DEF InputInv
<1>1. PICK k \in 0..Len(packets), j \in Nat : Reading(k, j)
  BY DEF LoopInv
<1>2. CASE k = Len(packets)
  <2>1. /\ rest = fragment /\ fromMain = TRUE /\ j = 0
        /\ ~PacketHere
        /\ Readable(rest, HeaderCells) => Marked(rest[1], "main")
    BY <1>1, <1>2, FragmentLeft
  <2>2. Return("true")
    BY <2>1 DEF Next, StopsAtMain, StopsAtPart, Handle, NoHandler, CipherInit, DecryptFails,
                TakePart, PartHere
  <2>3. HandledInv'
    BY <1>0, <2>2, HandledStays DEF Return
  <2>4. result' = "true" /\ rest' = fragment /\ unknown' = 0
    BY <2>1, <2>2 DEF Return, LoopInv
  <2>5. exchanges + Len(handled) = Len(AllParts)
    <3>1. exchanges + Len(handled) = Offset(packets, Len(packets)) + 0
      BY <1>1, <1>2, <2>1 DEF Reading
    <3>2. Len(AllParts) = Offset(packets, Len(packets)) /\ Len(AllParts) \in Nat
      BY PartsAt DEF InputInv
    <3> QED BY <3>1, <3>2
  <2>6. EndInv'
    BY <1>0, <2>2, <2>4, <2>5 DEF EndInv, Return
  <2> QED BY <2>3, <2>4, <2>6
<1>3. CASE k # Len(packets)
  <2>0. k \in Nat /\ k < Len(packets)
    BY <1>a, <1>3
  <2> DEFINE p == packets[k + 1][j + 1]
  <2>1. /\ j < Len(packets[k + 1]) /\ p \in Parts
        /\ PacketCode \in parser.known <=> Understood(p)
        /\ Understood(p) => PacketCode = p.code
        /\ PartHere
        /\ fromMain => PacketHere
    BY <1>1, <2>0, PartIsHere
  <2>2. /\ exchanges + Len(handled) + 1 <= Len(AllParts)
        /\ AllParts[exchanges + Len(handled) + 1] = p
    BY <1>1, <2>0, <2>1, PartIsNext
  <2>3. /\ exchanges \in Nat /\ Len(handled) \in Nat /\ handled \in Seq(Nat)
        /\ Len(AllParts) \in Nat /\ p.code \in Nat
    <3>1. AllParts \in Seq(Parts)
      BY PartsAt DEF InputInv
    <3>2. p.code \in Nat
      <4>1. p.code \in 1..255
        BY <2>1, PartIs, Zenon
      <4>2. \A c \in 1..255 : c \in Nat
        OBVIOUS
      <4> QED BY <4>1, <4>2, Zenon
    <3> QED BY <3>1, <3>2 DEF HandledInv
  <2> HIDE DEF p
  <2>4. ~StopsAtMain /\ ~StopsAtPart
    BY <2>1 DEF StopsAtMain, StopsAtPart, PartHere, PacketHere
  <2>5. CASE Handle
    <3>1. /\ TakePart /\ Plain /\ Understood(p) /\ handled' = Append(handled, p.code)
          /\ UNCHANGED <<input, synced, exchanges, unknown, result>>
      BY <2>1, <2>5 DEF Handle
    <3>2. /\ handled' \in Seq(Nat) /\ Len(handled') = Len(handled) + 1
          /\ \A i \in 1..Len(handled) : handled'[i] = handled[i]
          /\ handled'[Len(handled) + 1] = p.code
      BY <2>3, <3>1, AppendProperties
    <3>3. \A i \in 1..Len(handled') :
            Understood(AllParts[exchanges + i]) /\ handled'[i] = AllParts[exchanges + i].code
      <4> SUFFICES ASSUME NEW i \in 1..Len(handled')
                   PROVE  /\ Understood(AllParts[exchanges + i])
                          /\ handled'[i] = AllParts[exchanges + i].code
        OBVIOUS
      <4>1. CASE i = Len(handled) + 1
        <5>1. exchanges + i = exchanges + Len(handled) + 1
          BY <2>3, <4>1
        <5> QED BY <2>2, <3>1, <3>2, <4>1, <5>1
      <4>2. CASE i # Len(handled) + 1
        <5>1. i \in 1..Len(handled)
          BY <2>3, <3>2, <4>2
        <5> QED BY <3>2, <5>1 DEF HandledInv
      <4> QED BY <4>1, <4>2
    <3>4. exchanges' + Len(handled') = exchanges + Len(handled) + 1
      BY <2>3, <3>1, <3>2
    <3>5. HandledInv'
      <4>1. Plain'
        BY <1>0, <3>1 DEF Plain
      <4>2. exchanges' + Len(handled') <= Len(AllParts)
        BY <2>2, <3>4
      <4>3. parser' = parser /\ AllParts' = AllParts /\ exchanges' = exchanges
        BY <1>0, <3>1
      <4>4. (\A i \in 1..Len(handled) :
               Understood(AllParts[exchanges + i]) /\ handled[i] = AllParts[exchanges + i].code)'
        BY <3>3, <4>3 DEF Understood
      <4> QED BY <1>0, <2>3, <3>1, <3>2, <4>1, <4>2, <4>4 DEF HandledInv
    <3>6. LoopInv'
      <4>1. \E l \in 0..Len(packets'), i \in Nat : Reading(l, i)'
        BY <1>0, <1>1, <2>0, <3>1, <3>4, PartTaken
      <4> QED BY <3>1, <4>1 DEF LoopInv
    <3> QED BY <1>0, <3>1, <3>5, <3>6
  <2>6. CASE NoHandler
    <3>1. /\ ~Understood(p) /\ unknown' = 1 /\ result' = "false"
          /\ UNCHANGED <<input, synced, exchanges, handled>>
      BY <2>1, <2>6 DEF NoHandler, LoopInv
    <3>2. HandledInv'
      BY <1>0, <3>1, HandledStays
    <3>3. EndInv'
      <4>1. exchanges' = exchanges /\ handled' = handled /\ AllParts' = AllParts
        BY <1>0, <3>1
      <4>2. exchanges + Len(handled) < Len(AllParts)
        BY <2>2, <2>3
      <4>3. (~Understood(AllParts[exchanges + Len(handled) + 1]))'
        BY <1>0, <2>2, <3>1, <4>1 DEF Understood
      <4> QED BY <3>1, <4>1, <4>2, <4>3 DEF EndInv
    <3> QED BY <3>1, <3>2, <3>3
  <2>7. CASE CipherInit
    <3>0. ~Plain /\ handled = <<>>
      BY <2>7 DEF CipherInit, HandledInv
    <3>1. CASE /\ TakePart
               /\ exchanges' = exchanges + 1
               /\ UNCHANGED <<input, handled, unknown, result>>
      <4>1. exchanges' + Len(handled') = exchanges + Len(handled) + 1
        BY <2>3, <3>1
      <4>2. HandledInv'
        <5>1. exchanges' \in Nat /\ handled' = <<>> /\ Len(handled') = 0
          BY <2>3, <3>0, <3>1
        <5>2. exchanges' + Len(handled') <= Len(AllParts)
          BY <2>2, <4>1
        <5>3. handled' \in Seq(Nat)
          BY <2>3, <3>1
        <5>4. \A i \in 1..Len(handled') : FALSE
          BY <5>1
        <5> QED BY <1>0, <5>1, <5>2, <5>3, <5>4 DEF HandledInv
      <4>3. LoopInv'
        <5>1. \E l \in 0..Len(packets'), i \in Nat : Reading(l, i)'
          BY <1>0, <1>1, <2>0, <3>1, <4>1, PartTaken
        <5> QED BY <3>1, <5>1 DEF LoopInv
      <4> QED BY <1>0, <3>1, <4>2, <4>3
    <3>2. CASE Return("false")
      <4>1. HandledInv'
        BY <1>0, <3>2, HandledStays DEF Return
      <4>2. result' = "false" /\ unknown' = 0 /\ handled' = <<>> /\ parser'.cipher
        BY <1>0, <3>0, <3>2 DEF Return, LoopInv, Plain
      <4>3. EndInv'
        BY <4>2 DEF EndInv
      <4> QED BY <4>1, <4>2, <4>3
    <3> QED BY <2>7, <3>1, <3>2 DEF CipherInit
  <2>8. CASE DecryptFails
    <3>1. /\ result' = "undecrypted"
          /\ UNCHANGED <<input, synced, exchanges, handled>>
      BY <2>8 DEF DecryptFails
    <3>2. HandledInv'
      BY <1>0, <3>1, HandledStays
    <3>3. EndInv'
      BY <3>1 DEF EndInv
    <3> QED BY <3>1, <3>2, <3>3
  <2> QED BY <2>4, <2>5, <2>6, <2>7, <2>8 DEF Next
<1> QED BY <1>2, <1>3

\* A batch that starts in mid-packet does not start with a main key.
LEMMA MidIsNoMain ==
  ASSUME InputInv, lead # <<>>
  PROVE  Batch[1].mark # "main"
<1>1. PICK q \in Packets : lead \in Ends(q)
  BY DEF InputInv
<1> DEFINE flat == FlattenSeq(Bodies(q))
           size == Offset(Bodies(q), Len(q))
<1>2. /\ size \in Nat /\ Frame(q) \in Seq(Cells) /\ Len(Frame(q)) = size + 1
      /\ flat \in Seq(Inner) /\ Len(flat) = size
      /\ \A i \in 1..size : Frame(q)[i + 1] = flat[i]
  BY FrameIs
<1> HIDE DEF flat, size
<1>3. PICK n \in 2..Len(Frame(q)) : lead = SubSeq(Frame(q), n, Len(Frame(q)))
  BY <1>1 DEF Ends
<1>4. /\ lead \in Seq(Cells) /\ Len(lead) >= 1 /\ Len(lead) \in Nat
      /\ lead[1] = Frame(q)[n]
  <2>1. \A i \in n..Len(Frame(q)) : Frame(q)[i] \in Cells
    BY <1>2
  <2>2. /\ SubSeq(Frame(q), n, Len(Frame(q))) \in Seq(Cells)
        /\ Len(SubSeq(Frame(q), n, Len(Frame(q))))
             = IF n <= Len(Frame(q)) THEN Len(Frame(q)) - n + 1 ELSE 0
        /\ \A i \in 1..(Len(Frame(q)) - n + 1) :
             SubSeq(Frame(q), n, Len(Frame(q)))[i] = Frame(q)[n + i - 1]
    BY <1>2, <2>1, SubSeqProperties
  <2>3. 1 \in 1..(Len(Frame(q)) - n + 1) /\ n + 1 - 1 = n
    BY <1>2
  <2> QED BY <1>2, <1>3, <2>2, <2>3
<1>5. n - 1 \in 1..size /\ (n - 1) + 1 = n
  BY <1>2
<1>6. Frame(q)[n] = flat[n - 1] /\ flat[n - 1] \in Inner
  BY <1>2, <1>5
<1>7. lead[1].mark # "main"
  BY <1>4, <1>6 DEF Inner
<1>8. Batch[1] = lead[1]
  <2> DEFINE whole == FlattenSeq(Frames)
  <2>1. whole \in Seq(Cells)
    BY FramesAre, FlattenIsSeq DEF InputInv
  <2>2. Batch = (lead \o whole) \o fragment /\ fragment = <<>>
    BY DEF Batch, Frames, InputInv
  <2> HIDE DEF whole
  <2>3. lead \o whole \in Seq(Cells) /\ (lead \o whole)[1] = lead[1]
    BY <1>4, <2>1, ConcatFacts
  <2>4. Batch = lead \o whole
    BY <2>2, <2>3, ConcatEmptySeq
  <2> QED BY <2>3, <2>4
<1> QED BY <1>7, <1>8

\* One turn on a batch that starts in mid-packet, of a parser that checks marks.
LEMMA MidStep ==
  ASSUME InputInv, MidInv, parser.marked, lead # <<>>, Next
  PROVE  /\ handled' = <<>> /\ unknown' = 0
         /\ result' \in {"true", "false"}
<1>1. rest = Batch /\ fromMain = TRUE /\ handled = <<>> /\ unknown = 0
  BY DEF MidInv, Next
<1>2. ~Marked(rest[1], "main") /\ ~PacketHere
  BY <1>1, MidIsNoMain DEF Marked, PacketHere
<1>3. StopsAtMain
  BY <1>1, <1>2 DEF Next, StopsAtPart, Handle, NoHandler, CipherInit, DecryptFails,
                    TakePart, PartHere
<1> QED BY <1>1, <1>2, <1>3 DEF StopsAtMain, Return

\* The invariant holds at the start.
LEMMA ParserStart == Init => ParserInv
<1> SUFFICES ASSUME Init PROVE ParserInv
  OBVIOUS
<1>1. packets \in Seq(Packets)
  <2>1. PICK n \in 0..MaxPackets : packets \in [1..n -> Packets]
    BY DEF Init, SeqOf
  <2> QED BY <2>1, BoundsAssumption
<1>2. ASSUME NEW q \in Packets, NEW s \in Ends(q) PROVE s # <<>>
  <2>1. Frame(q) \in Seq(Cells) /\ Len(Frame(q)) \in Nat
    BY FrameIs
  <2>2. PICK n \in 2..Len(Frame(q)) : s = SubSeq(Frame(q), n, Len(Frame(q)))
    BY DEF Ends
  <2>3. \A i \in n..Len(Frame(q)) : Frame(q)[i] \in Cells
    BY <2>1
  <2>4. Len(s) = IF n <= Len(Frame(q)) THEN Len(Frame(q)) - n + 1 ELSE 0
    BY <2>1, <2>2, <2>3, SubSeqProperties
  <2>5. Len(s) # 0
    BY <2>1, <2>4
  <2> QED BY <2>5
<1>3. InputInv
  BY <1>1, <1>2 DEF Init, InputInv, CutPackets
<1>4. ASSUME lead = <<>> PROVE HandledInv /\ LoopInv
  <2>1. exchanges = 0 /\ handled = <<>> /\ Len(handled) = 0 /\ handled \in Seq(Nat)
    <3>1. exchanges = 0 /\ handled = <<>>
      BY DEF Init
    <3>2. <<>> \in Seq(Nat) /\ Len(<<>>) = 0
      OBVIOUS
    <3> QED BY <3>1, <3>2, Zenon
  <2>2. Len(AllParts) \in Nat /\ Offset(packets, 0) = 0
    BY <1>1, PartsAt
  <2>3. HandledInv
    BY <2>1, <2>2 DEF HandledInv
  <2>4. Batch \in Seq(Cells)
    BY <1>3, <1>4, BatchIs
  <2>5. After(Batch, 0) = Batch
    <3>1. After(Batch, 0) = SubSeq(Batch, 1, Len(Batch))
      BY DEF After
    <3> QED BY <2>4, <3>1, SubSeqFull
  <2>6. Position(0, 0) = 0
    BY DEF Position, Offset
  <2>7. rest = After(Batch, Position(0, 0)) /\ fromMain = TRUE
    BY <2>5, <2>6 DEF Init
  <2>8. Reading(0, 0)
    BY <2>1, <2>2, <2>7 DEF Reading
  <2>9. 0 \in 0..Len(packets)
    BY <1>1
  <2> QED BY <2>3, <2>8, <2>9 DEF LoopInv, Init
<1>5. MidInv
  BY DEF MidInv, Init
<1> QED BY <1>3, <1>4, <1>5 DEF ParserInv, WholeInv, Init

\* Every step keeps the invariant.
LEMMA ParserStep == ParserInv /\ [Next]_vars => ParserInv'
<1> SUFFICES ASSUME ParserInv, [Next]_vars PROVE ParserInv'
  OBVIOUS
<1>1. UNCHANGED input /\ UNCHANGED AllParts
  BY InputStays
<1>2. InputInv /\ InputInv'
  BY <1>1 DEF ParserInv, InputInv, input
<1>3. CASE UNCHANGED vars
  <2>1. UNCHANGED <<rest, fromMain, total, synced, exchanges, handled, unknown, result>>
    BY <1>3 DEF vars
  <2>2. UNCHANGED <<parser, lead, packets, fragment>>
    BY <1>1 DEF input
  <2>3. UNCHANGED <<Batch, Frames>>
    BY <2>2 DEF Batch, Frames
  <2>4. HandledInv => HandledInv'
    BY <1>1, <2>1, HandledStays
  <2>5. EndInv => EndInv'
    BY <1>1, <2>1, <2>2 DEF EndInv, Understood
  <2>6. \A k, j : Reading(k, j) => Reading(k, j)'
    BY <2>1, <2>2, <2>3 DEF Reading, Position
  <2>7. LoopInv => LoopInv'
    BY <2>1, <2>2, <2>6 DEF LoopInv
  <2>8. WholeInv'
    BY <2>1, <2>2, <2>4, <2>5, <2>7 DEF ParserInv, WholeInv
  <2>9. MidInv'
    BY <2>1, <2>2, <2>3 DEF ParserInv, MidInv
  <2> QED BY <1>2, <2>8, <2>9 DEF ParserInv
<1>4. CASE Next
  <2>1. result = "" /\ UNCHANGED <<parser, lead>>
    BY <1>1, <1>4 DEF Next, input
  <2>2. WholeInv'
    <3> SUFFICES ASSUME lead = <<>>
                 PROVE  HandledInv' /\ (IF result' = "" THEN LoopInv' ELSE EndInv')
      BY <2>1 DEF WholeInv
    <3>1. HandledInv /\ LoopInv
      BY <2>1 DEF ParserInv, WholeInv
    <3> QED BY <1>2, <1>4, <3>1, WholeStep
  <2>3. MidInv'
    <3> SUFFICES ASSUME parser.marked, lead # <<>> PROVE MidInv'
      BY <2>1 DEF MidInv
    <3>1. handled' = <<>> /\ unknown' = 0 /\ result' \in {"true", "false"}
      BY <1>2, <1>4, MidStep DEF ParserInv
    <3> QED BY <3>1 DEF MidInv
  <2> QED BY <1>2, <2>2, <2>3 DEF ParserInv
<1> QED BY <1>3, <1>4

\* Every state of the parsers satisfies the invariant.
LEMMA ParserInvariance == Spec => []ParserInv
  BY ParserStart, ParserStep, PTL DEF Spec

\* What HandledInv says of handled against what is owed.
LEMMA HandledIsOwed ==
  ASSUME HandledInv, AllParts \in Seq(Parts)
  PROVE  /\ Len(Owed) = Len(AllParts) - exchanges
         /\ Len(handled) <= Len(Owed)
         /\ \A i \in DOMAIN handled : Understood(Owed[i]) /\ handled[i] = Owed[i].code
         /\ exchanges + Len(handled) = Len(AllParts) => Len(handled) = Len(Owed)
         /\ exchanges + Len(handled) < Len(AllParts) =>
              /\ Len(handled) < Len(Owed)
              /\ Owed[Len(handled) + 1] = AllParts[exchanges + Len(handled) + 1]
<1> DEFINE all == Len(AllParts)
           n == Len(handled)
<1>1. all \in Nat
  OBVIOUS
<1>2. /\ exchanges \in Nat /\ handled \in Seq(Nat)
      /\ \A i \in 1..Len(handled) :
           Understood(AllParts[exchanges + i]) /\ handled[i] = AllParts[exchanges + i].code
      /\ exchanges + n <= all
  BY Zenon DEF HandledInv
<1>3. n \in Nat /\ DOMAIN handled = 1..n /\ exchanges <= all /\ n <= all - exchanges
  <2>1. n \in Nat /\ DOMAIN handled = 1..n
    BY <1>2
  <2> HIDE DEF n, all
  <2> QED BY <1>1, <1>2, <2>1
<1>4. /\ Len(Owed) = all - exchanges
      /\ \A i \in 1..(all - exchanges) : Owed[i] = AllParts[exchanges + i]
  <2>1. Owed = After(AllParts, exchanges)
    BY DEF Owed, After
  <2>2. exchanges \in Nat /\ exchanges <= Len(AllParts)
    BY <1>2, <1>3
  <2> QED BY <2>1, <2>2, AfterIs
<1> HIDE DEF n, all
<1>5. \A i \in 1..n : i \in 1..(all - exchanges)
  BY <1>1, <1>2, <1>3
<1>6. ASSUME NEW i \in 1..n PROVE Understood(Owed[i]) /\ handled[i] = Owed[i].code
  <2>1. Owed[i] = AllParts[exchanges + i]
    BY <1>4, <1>5
  <2>2. Understood(AllParts[exchanges + i]) /\ handled[i] = AllParts[exchanges + i].code
    BY <1>2 DEF n
  <2> QED BY <2>1, <2>2, Zenon
<1>7. exchanges + n = all => n = Len(Owed)
  BY <1>1, <1>2, <1>3, <1>4
<1>8. ASSUME exchanges + n < all
      PROVE  n < Len(Owed) /\ Owed[n + 1] = AllParts[exchanges + n + 1]
  <2>1. n + 1 \in 1..(all - exchanges) /\ exchanges + (n + 1) = exchanges + n + 1
    BY <1>1, <1>2, <1>3, <1>8
  <2>2. Owed[n + 1] = AllParts[exchanges + (n + 1)]
    BY <1>4, <2>1
  <2>3. n < Len(Owed)
    BY <1>1, <1>2, <1>3, <1>4, <1>8
  <2> QED BY <2>1, <2>2, <2>3
<1> QED BY <1>3, <1>4, <1>6, <1>7, <1>8 DEF n, all

\* ParsesWholePackets follows from the invariant.
LEMMA WholeFollows == ParserInv => ParsesWholePackets
<1> SUFFICES ASSUME ParserInv, result # "", lead = <<>>
             PROVE  ParsesWholePackets
  BY DEF ParsesWholePackets
<1>1. HandledInv /\ EndInv
  BY DEF ParserInv, WholeInv
<1>2. AllParts \in Seq(Parts)
  BY PartsAt DEF ParserInv, InputInv
<1>3. /\ Len(handled) <= Len(Owed)
      /\ \A i \in DOMAIN handled : Understood(Owed[i]) /\ handled[i] = Owed[i].code
      /\ exchanges + Len(handled) = Len(AllParts) => Len(handled) = Len(Owed)
      /\ exchanges + Len(handled) < Len(AllParts) =>
           /\ Len(handled) < Len(Owed)
           /\ Owed[Len(handled) + 1] = AllParts[exchanges + Len(handled) + 1]
  BY <1>1, <1>2, HandledIsOwed, Zenon
<1>4. result = "true" => Len(handled) = Len(Owed) /\ rest = fragment /\ unknown = 0
  BY <1>1, <1>3, Zenon DEF EndInv
<1>5. result = "false" =>
        IF unknown = 0 THEN parser.cipher /\ handled = <<>>
        ELSE Len(handled) < Len(Owed) /\ ~Understood(Owed[Len(handled) + 1])
  BY <1>1, <1>3, Zenon DEF EndInv
<1> QED BY <1>3, <1>4, <1>5, Zenon DEF ParsesWholePackets

\* So does NeverThrows.
LEMMA CutsFollow == ParserInv => NeverThrows
  BY DEF ParserInv, WholeInv, EndInv, MidInv, NeverThrows

\* A batch of whole packets and a fragment: for any packets, parts and sizes,
\* every part is handled once, in order and under the code its sender gave it, up
\* to the first one the parser does not understand, and the fragment is left.
THEOREM WholePacketsParsed == Spec => []ParsesWholePackets
  BY ParserInvariance, WholeFollows, PTL

\* No cut of a stream of packets of any size makes a read throw, where the keys
\* carry marks or the batch starts with a packet.
THEOREM ParserNeverThrows == Spec => []NeverThrows
  BY ParserInvariance, CutsFollow, PTL

----------------------------------------------------------------------------
(* The message buffer as this program uses it - a buffer that was read from *)
(* is not written to again - for every capacity.                            *)

\* The positions lie in the array and in order.
PositionsInv ==
  /\ rd \in Nat /\ wr \in Nat /\ nbytes \in Nat
  /\ rd <= wr /\ wr <= Capacity

\* The memory is a function on the array and what lies behind it.
MemoryInv == mem = [i \in 0..(2 * Capacity) |-> mem[i]]

\* The unread bytes are those between the positions.
QueueInv ==
  /\ unread \in Seq(Nat)
  /\ Len(unread) = wr - rd
  /\ \A i \in 1..Len(unread) : mem[rd + i - 1] = unread[i]

BufferInv == PositionsInv /\ MemoryInv /\ QueueInv

\* What a write leaves alone and what it adds.
LEMMA WriteStep ==
  ASSUME BufferInv, NEW count \in 0..Capacity, B!Write(count)
  PROVE  BufferInv'
<1> USE BufferAssumption
<1> DEFINE new == [i \in 1..count |-> nbytes + i]
<1>1. rd = 0 /\ wr + count <= Capacity /\ wr' = wr + count /\ rd' = rd
  BY DEF BufferInv, PositionsInv, B!Write, B!WriteAllowed, B!Size
<1>2. PositionsInv'
  BY <1>1 DEF BufferInv, PositionsInv, B!Write
<1>3. MemoryInv'
  BY DEF BufferInv, MemoryInv, B!Write
<1>4. new \in Seq(Nat) /\ Len(new) = count
  BY DEF BufferInv, PositionsInv
<1>5. /\ unread' = unread \o new
      /\ unread' \in Seq(Nat)
      /\ Len(unread') = wr' - rd'
  <2>1. unread' = unread \o new
    BY DEF B!Write
  <2> HIDE DEF new
  <2>2. unread \in Seq(Nat) /\ Len(unread) = wr - rd
    BY DEF BufferInv, QueueInv
  <2>3. unread \o new \in Seq(Nat) /\ Len(unread \o new) = Len(unread) + Len(new)
    BY <1>4, <2>2, ConcatProperties
  <2>4. Len(unread) + Len(new) = wr' - rd'
    BY <1>1, <1>4, <2>2 DEF BufferInv, PositionsInv
  <2> QED BY <2>1, <2>3, <2>4
<1>6. ASSUME NEW i \in 1..Len(unread') PROVE mem'[rd' + i - 1] = unread'[i]
  <2>1. rd' + i - 1 = i - 1 /\ i - 1 \in 0..(2 * Capacity) /\ i \in 1..(wr + count)
    BY <1>1, <1>5 DEF BufferInv, PositionsInv
  <2>2. DOMAIN mem = 0..(2 * Capacity)
    BY DEF BufferInv, MemoryInv
  <2>3. mem'[i - 1] = IF i - 1 \in wr..(wr + count - 1) THEN nbytes + 1 + ((i - 1) - wr)
                      ELSE mem[i - 1]
    BY <2>1, <2>2 DEF B!Write
  <2>4. CASE i <= wr
    BY <1>1, <1>4, <1>5, <2>1, <2>3, <2>4 DEF BufferInv, PositionsInv, QueueInv
  <2>5. CASE i > wr
    <3>1. i - wr \in 1..count /\ unread'[i] = new[i - wr]
      <4> HIDE DEF new
      <4>1. unread \in Seq(Nat) /\ Len(unread) = wr /\ i \in 1..(Len(unread) + Len(new))
        BY <1>1, <1>4, <2>1 DEF BufferInv, PositionsInv, QueueInv
      <4>2. (unread \o new)[i] = IF i <= Len(unread) THEN unread[i] ELSE new[i - Len(unread)]
        BY <1>4, <4>1, ConcatProperties
      <4>3. i - wr \in 1..count
        BY <1>1, <2>1, <2>5 DEF BufferInv, PositionsInv
      <4> QED BY <1>5, <2>1, <2>5, <4>1, <4>2, <4>3
    <3>2. new[i - wr] = nbytes + (i - wr)
      BY <3>1
    <3>3. mem'[i - 1] = nbytes + 1 + ((i - 1) - wr)
      BY <2>1, <2>3, <2>5 DEF BufferInv, PositionsInv
    <3> QED BY <2>1, <3>1, <3>2, <3>3 DEF BufferInv, PositionsInv
  <2> QED BY <2>1, <2>4, <2>5 DEF BufferInv, PositionsInv
<1> QED BY <1>2, <1>3, <1>5, <1>6 DEF BufferInv, QueueInv

\* arrange moves the unread bytes to the front; read then takes the first ones.
LEMMA ReadStep ==
  ASSUME BufferInv, NEW count \in 0..Capacity, B!Read(count)
  PROVE  BufferInv'
<1> USE BufferAssumption
<1> DEFINE b == IF B!RemainWriteSize < (Capacity \div 3) * 2 THEN B!Arrange
                ELSE [mem |-> mem, rd |-> rd, wr |-> wr]
<1>1. /\ b.rd \in Nat /\ b.wr \in Nat /\ b.wr - b.rd = wr - rd /\ b.wr <= Capacity
      /\ b.mem = [i \in 0..(2 * Capacity) |-> b.mem[i]]
      /\ \A i \in 1..Len(unread) : b.mem[b.rd + i - 1] = unread[i]
  <2>1. CASE b = [mem |-> mem, rd |-> rd, wr |-> wr]
    <3>1. b.mem = mem /\ b.rd = rd /\ b.wr = wr
      BY <2>1
    <3> HIDE DEF b
    <3>2. b.rd \in Nat /\ b.wr \in Nat /\ b.wr - b.rd = wr - rd /\ b.wr <= Capacity
      BY <3>1 DEF BufferInv, PositionsInv
    <3>3. /\ b.mem = [i \in 0..(2 * Capacity) |-> b.mem[i]]
          /\ \A i \in 1..Len(unread) : b.mem[b.rd + i - 1] = unread[i]
      BY <3>1 DEF BufferInv, MemoryInv, QueueInv
    <3> QED BY <3>2, <3>3
  <2>2. CASE b = B!Arrange
    <3>1. b.rd = 0 /\ b.wr = wr - rd
      BY <2>2 DEF B!Arrange, B!Size
    <3>2. b.mem = [i \in 0..(2 * Capacity) |-> IF i < wr - rd THEN mem[rd + i] ELSE mem[i]]
      BY <2>2 DEF B!Arrange, B!Size, BufferInv, MemoryInv
    <3>3. ASSUME NEW i \in 1..Len(unread) PROVE b.mem[b.rd + i - 1] = unread[i]
      <4> HIDE DEF b
      <4>0. i \in 1..(wr - rd)
        BY DEF BufferInv, QueueInv
      <4>1. /\ i - 1 \in 0..(2 * Capacity) /\ i - 1 < wr - rd
            /\ b.rd + i - 1 = i - 1 /\ rd + (i - 1) = rd + i - 1
        BY <3>1, <4>0 DEF BufferInv, PositionsInv
      <4>2. mem[rd + i - 1] = unread[i]
        BY DEF BufferInv, QueueInv
      <4> QED BY <3>2, <4>1, <4>2
    <3> HIDE DEF b
    <3>4. b.rd \in Nat /\ b.wr \in Nat /\ b.wr - b.rd = wr - rd /\ b.wr <= Capacity
      BY <3>1 DEF BufferInv, PositionsInv
    <3> QED BY <3>2, <3>3, <3>4
  <2> QED BY <2>1, <2>2
<1>2. /\ mem' = b.mem /\ rd' = b.rd + count /\ wr' = b.wr
      /\ count <= wr - rd
      /\ unread' = SubSeq(unread, count + 1, Len(unread)) /\ nbytes' = nbytes
  BY DEF B!Read, B!Readable, BufferInv, PositionsInv
<1> HIDE DEF b
<1>3. PositionsInv'
  BY <1>1, <1>2 DEF BufferInv, PositionsInv
<1>4. MemoryInv'
  BY <1>1, <1>2 DEF MemoryInv
<1>5. QueueInv'
  <2>1. unread \in Seq(Nat) /\ Len(unread) = wr - rd
    BY DEF BufferInv, QueueInv
  <2>2. /\ unread' \in Seq(Nat) /\ Len(unread') = Len(unread) - count
        /\ \A i \in 1..(Len(unread) - count) : unread'[i] = unread[count + i]
    BY <1>2, <2>1 DEF BufferInv, PositionsInv
  <2>3. ASSUME NEW i \in 1..Len(unread') PROVE mem'[rd' + i - 1] = unread'[i]
    <3>0. i \in 1..(Len(unread) - count) /\ Len(unread) \in Nat /\ count \in Nat
      BY <2>1, <2>2
    <3>1. count + i \in 1..Len(unread) /\ unread'[i] = unread[count + i]
      BY <2>2, <3>0
    <3>2. rd' + i - 1 = b.rd + (count + i) - 1
      BY <1>1, <1>2
    <3> QED BY <1>1, <1>2, <3>1, <3>2
  <2>4. Len(unread') = wr' - rd'
    <3>1. wr' - rd' = (b.wr - b.rd) - count
      BY <1>1, <1>2
    <3>2. Len(unread') = (wr - rd) - count
      BY <2>1, <2>2
    <3> QED BY <1>1, <3>1, <3>2
  <2> QED BY <2>2, <2>3, <2>4 DEF QueueInv
<1> QED BY <1>3, <1>4, <1>5 DEF BufferInv

\* It holds at the start.
LEMMA BufferStart == B!Init => BufferInv
  BY BufferAssumption DEF B!Init, BufferInv, PositionsInv, MemoryInv, QueueInv

\* Every step keeps it.
LEMMA BufferStep ==
  ASSUME BufferInv, [B!Next]_B!vars
  PROVE  BufferInv'
<1>1. CASE B!ReadAll
  BY <1>1, BufferAssumption DEF B!ReadAll, BufferInv, PositionsInv, MemoryInv, QueueInv
<1>2. CASE B!Copy
  <2>1. /\ rd = 0 /\ rd' = 0 /\ wr' = wr /\ nbytes' = nbytes /\ unread' = unread
        /\ mem' = [i \in 0..(2 * Capacity) |-> IF i < wr THEN mem[i] ELSE 0]
    BY <1>2 DEF B!Copy, B!Size, BufferInv, PositionsInv, MemoryInv
  <2>2. PositionsInv' /\ MemoryInv'
    BY <2>1 DEF BufferInv, PositionsInv, MemoryInv
  <2>3. ASSUME NEW i \in 1..Len(unread) PROVE mem'[rd' + i - 1] = unread[i]
    <3>1. /\ i - 1 \in 0..(2 * Capacity) /\ i - 1 < wr
          /\ rd' + i - 1 = i - 1 /\ rd + i - 1 = i - 1
      BY <2>1, BufferAssumption DEF BufferInv, PositionsInv, QueueInv
    <3>2. mem[i - 1] = unread[i]
      BY <3>1 DEF BufferInv, QueueInv
    <3> QED BY <2>1, <3>1, <3>2
  <2> QED BY <2>1, <2>2, <2>3 DEF BufferInv, QueueInv
<1>3. CASE UNCHANGED B!vars
  BY <1>3 DEF B!vars, BufferInv, PositionsInv, MemoryInv, QueueInv
<1> QED BY <1>1, <1>2, <1>3, WriteStep, ReadStep DEF B!Next

\* Of every state of the buffer follows what the run checks of it.
LEMMA BufferInvSafe == BufferInv => FirstInFirstOut
  BY DEF BufferInv, PositionsInv, QueueInv, FirstInFirstOut, B!FirstInFirstOut, B!Size

\* read returns the bytes in the order they were written, however often arrange
\* moved them.
THEOREM ReadsInOrder == B!Spec => []FirstInFirstOut
  BY BufferStart, BufferStep, BufferInvSafe, PTL DEF B!Spec

----------------------------------------------------------------------------
(* The parsers and the buffer, as the run has them *)

\* Every step of the run is a step of one and leaves the other alone.
LEMMA OneMoves ==
  ASSUME [MCNext]_allVars
  PROVE  [Next]_vars /\ [B!Next]_B!vars
  BY DEF MCNext, Parser, Buffer, allVars, bufferVars, B!vars

\* What the run checks of the parsers and of the buffer, for every value of the
\* constants.
THEOREM ParsersAndBuffer ==
  MCSpec => [](ParsesWholePackets /\ NeverThrows /\ FirstInFirstOut)
<1>1. MCInit => ParserInv /\ BufferInv
  BY ParserStart, BufferStart DEF MCInit
<1>2. ParserInv /\ BufferInv /\ [MCNext]_allVars => ParserInv' /\ BufferInv'
  BY OneMoves, ParserStep, BufferStep
<1>3. ParserInv /\ BufferInv
        => ParsesWholePackets /\ NeverThrows /\ FirstInFirstOut
  BY WholeFollows, CutsFollow, BufferInvSafe
<1> QED BY <1>1, <1>2, <1>3, PTL DEF MCSpec
=============================================================================
