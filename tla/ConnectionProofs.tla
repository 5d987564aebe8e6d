-------------------------- MODULE ConnectionProofs --------------------------
(***************************************************************************)
(* Proofs about Connection.tla, for every bound and with or without a keep- *)
(* alive time.  The inductive invariant IInv describes the strand: which    *)
(* handlers can be queued together, in which order, and what their presence *)
(* says about the status, the counters and the User.                       *)
(***************************************************************************)
EXTENDS Connection, TLAPS

----------------------------------------------------------------------------
(* What the queue of a strand can hold, and how queueing a handler behind   *)
(* the others and taking the oldest one change it.  A handler is a record   *)
(* with the fields op, ec and batch.                                        *)

\* No handler of kind op is queued; at most one is.
None(s, op) == \A i \in 1..Len(s) : s[i].op # op
AtMostOne(s, op) ==
  \A i, j \in 1..Len(s) : s[i].op = op /\ s[j].op = op => i = j

\* The dispatches queued are those of the batches lo + 1 to hi, in this order.
Window(s, lo, hi) ==
  /\ \A i \in 1..Len(s) : s[i].op = "dispatch" => s[i].batch \in (lo + 1)..hi
  /\ \A i, j \in 1..Len(s) :
       s[i].op = "dispatch" /\ s[j].op = "dispatch" /\ i < j =>
         s[i].batch < s[j].batch
  /\ \A n \in (lo + 1)..hi :
       \E i \in 1..Len(s) : s[i].op = "dispatch" /\ s[i].batch = n

\* Every dispatch is ahead of every read handler.
ReadBehind(s) ==
  \A i, j \in 1..Len(s) : s[i].op = "read" /\ s[j].op = "dispatch" => j < i

\* No read handler that brings data is queued.
NoData(s) == \A i \in 1..Len(s) : ~(s[i].op = "read" /\ s[i].ec = "ok")

\* A handler queued behind the others.
LEMMA AppendFacts ==
  ASSUME NEW Hs, NEW s \in Seq(Hs), NEW h \in Hs
  PROVE  /\ Append(s, h) \in Seq(Hs)
         /\ Len(s) \in Nat
         /\ Len(Append(s, h)) = Len(s) + 1
         /\ \A i \in 1..Len(s) : Append(s, h)[i] = s[i]
         /\ Append(s, h)[Len(s) + 1] = h
  OBVIOUS

\* The oldest handler taken.
LEMMA TailFacts ==
  ASSUME NEW Hs, NEW s \in Seq(Hs), s # <<>>
  PROVE  /\ Tail(s) \in Seq(Hs)
         /\ Len(s) \in Nat \ {0}
         /\ Len(Tail(s)) = Len(s) - 1
         /\ \A i \in 1..(Len(s) - 1) : Tail(s)[i] = s[i + 1]
         /\ Head(s) = s[1]
         /\ s[1] \in Hs
  OBVIOUS

\* A kind is absent from the longer queue iff it was and the new one is not it.
LEMMA NoneAppend ==
  ASSUME NEW Hs, NEW s \in Seq(Hs), NEW h \in Hs, NEW op
  PROVE  None(Append(s, h), op) <=> None(s, op) /\ h.op # op
<1> DEFINE t == Append(s, h)
<1>1. /\ Len(s) \in Nat
      /\ Len(t) = Len(s) + 1
      /\ \A i \in 1..Len(s) : t[i] = s[i]
      /\ t[Len(s) + 1] = h
  BY AppendFacts
<1> HIDE DEF t
<1>2. None(t, op) => None(s, op) /\ h.op # op
  BY <1>1 DEF None
<1>3. None(s, op) /\ h.op # op => None(t, op)
  <2> SUFFICES ASSUME None(s, op), h.op # op, NEW i \in 1..Len(t)
               PROVE  t[i].op # op
    BY DEF None
  <2>1. i \in 1..Len(s) \/ i = Len(s) + 1
    BY <1>1
  <2> QED BY <1>1, <2>1 DEF None
<1> QED BY <1>2, <1>3 DEF t

\* What is absent stays absent when the oldest is taken; what is queued stays
\* queued unless it was the oldest; of one there is none left once it was.
LEMMA NoneTail ==
  ASSUME NEW Hs, NEW s \in Seq(Hs), s # <<>>, NEW op
  PROVE  /\ None(s, op) => None(Tail(s), op)
         /\ Head(s).op # op /\ None(Tail(s), op) => None(s, op)
         /\ AtMostOne(s, op) /\ Head(s).op = op => None(Tail(s), op)
<1> DEFINE t == Tail(s)
<1>1. /\ Len(s) \in Nat \ {0}
      /\ Len(t) = Len(s) - 1
      /\ \A i \in 1..(Len(s) - 1) : t[i] = s[i + 1]
      /\ Head(s) = s[1]
  BY TailFacts
<1> HIDE DEF t
<1>2. \A i \in 1..Len(t) : i + 1 \in 1..Len(s) /\ i + 1 # 1 /\ t[i] = s[i + 1]
  BY <1>1
<1>3. 1 \in 1..Len(s)
  BY <1>1
<1>4. None(s, op) => None(t, op)
  BY <1>2 DEF None
<1>5. AtMostOne(s, op) /\ Head(s).op = op => None(t, op)
  BY <1>1, <1>2, <1>3 DEF None, AtMostOne
<1>6. Head(s).op # op /\ None(t, op) => None(s, op)
  <2> SUFFICES ASSUME Head(s).op # op, None(t, op), NEW i \in 1..Len(s)
               PROVE  s[i].op # op
    BY DEF None
  <2>1. i = 1 \/ (i - 1 \in 1..Len(t) /\ t[i - 1] = s[i])
    BY <1>1
  <2> QED BY <1>1, <2>1 DEF None
<1> QED BY <1>4, <1>5, <1>6 DEF t

\* One at most remains one at most.
LEMMA OneAppend ==
  ASSUME NEW Hs, NEW s \in Seq(Hs), NEW h \in Hs, NEW op,
         AtMostOne(s, op), None(s, op) \/ h.op # op
  PROVE  AtMostOne(Append(s, h), op)
<1> DEFINE t == Append(s, h)
<1>1. /\ Len(s) \in Nat
      /\ Len(t) = Len(s) + 1
      /\ \A i \in 1..Len(s) : t[i] = s[i]
      /\ t[Len(s) + 1] = h
  BY AppendFacts
<1> HIDE DEF t
<1> SUFFICES ASSUME NEW i \in 1..Len(t), NEW j \in 1..Len(t),
                    t[i].op = op, t[j].op = op
             PROVE  i = j
  BY DEF AtMostOne, t
<1>2. /\ i \in 1..Len(s) \/ i = Len(s) + 1
      /\ j \in 1..Len(s) \/ j = Len(s) + 1
  BY <1>1
<1> QED BY <1>1, <1>2 DEF AtMostOne, None

\* Taking the oldest leaves one at most.
LEMMA OneTail ==
  ASSUME NEW Hs, NEW s \in Seq(Hs), s # <<>>, NEW op, AtMostOne(s, op)
  PROVE  AtMostOne(Tail(s), op)
<1> DEFINE t == Tail(s)
<1>1. /\ Len(s) \in Nat \ {0}
      /\ Len(t) = Len(s) - 1
      /\ \A i \in 1..(Len(s) - 1) : t[i] = s[i + 1]
  BY TailFacts
<1> HIDE DEF t
<1> SUFFICES ASSUME NEW i \in 1..Len(t), NEW j \in 1..Len(t),
                    t[i].op = op, t[j].op = op
             PROVE  i = j
  BY DEF AtMostOne, t
<1>2. /\ i + 1 \in 1..Len(s) /\ s[i + 1].op = op
      /\ j + 1 \in 1..Len(s) /\ s[j + 1].op = op
  BY <1>1
<1>3. i + 1 = j + 1
  BY <1>2 DEF AtMostOne
<1> QED BY <1>3

\* Queueing a read handler of a kind that brings no data.
LEMMA NoDataAppend ==
  ASSUME NEW Hs, NEW s \in Seq(Hs), NEW h \in Hs, NoData(s),
         ~(h.op = "read" /\ h.ec = "ok")
  PROVE  NoData(Append(s, h))
<1> DEFINE t == Append(s, h)
<1>1. /\ Len(s) \in Nat
      /\ Len(t) = Len(s) + 1
      /\ \A i \in 1..Len(s) : t[i] = s[i]
      /\ t[Len(s) + 1] = h
  BY AppendFacts
<1> HIDE DEF t
<1>2. \A i \in 1..Len(t) : i \in 1..Len(s) \/ i = Len(s) + 1
  BY <1>1
<1>3. NoData(t)
  BY <1>1, <1>2 DEF NoData
<1> QED BY <1>3 DEF t

\* Taking the oldest handler brings no data in, and without read handlers there
\* is none.
LEMMA NoDataTail ==
  ASSUME NEW Hs, NEW s \in Seq(Hs)
  PROVE  /\ s # <<>> /\ NoData(s) => NoData(Tail(s))
         /\ None(s, "read") => NoData(s)
<1>1. None(s, "read") => NoData(s)
  BY DEF None, NoData
<1>2. ASSUME s # <<>>, NoData(s) PROVE NoData(Tail(s))
  <2> DEFINE t == Tail(s)
  <2>1. /\ Len(s) \in Nat \ {0}
        /\ Len(t) = Len(s) - 1
        /\ \A i \in 1..(Len(s) - 1) : t[i] = s[i + 1]
    BY <1>2, TailFacts
  <2> HIDE DEF t
  <2>2. \A i \in 1..Len(t) : i + 1 \in 1..Len(s) /\ t[i] = s[i + 1]
    BY <2>1
  <2>3. NoData(t)
    BY <1>2, <2>2 DEF NoData
  <2> QED BY <2>3 DEF t
<1> QED BY <1>1, <1>2

\* A dispatch may be queued while no read handler is; anything else always.
LEMMA BehindAppend ==
  ASSUME NEW Hs, NEW s \in Seq(Hs), NEW h \in Hs, ReadBehind(s),
         h.op # "dispatch" \/ None(s, "read")
  PROVE  ReadBehind(Append(s, h))
<1> DEFINE t == Append(s, h)
<1>1. /\ Len(s) \in Nat
      /\ Len(t) = Len(s) + 1
      /\ \A i \in 1..Len(s) : t[i] = s[i]
      /\ t[Len(s) + 1] = h
  BY AppendFacts
<1> HIDE DEF t
<1> SUFFICES ASSUME NEW i \in 1..Len(t), NEW j \in 1..Len(t),
                    t[i].op = "read", t[j].op = "dispatch"
             PROVE  j < i
  BY DEF ReadBehind, t
<1>2. CASE i \in 1..Len(s) /\ j \in 1..Len(s)
  BY <1>1, <1>2 DEF ReadBehind
<1>3. CASE i \in 1..Len(s) /\ j = Len(s) + 1
  BY <1>1, <1>3 DEF None
<1>4. CASE i = Len(s) + 1 /\ j \in 1..Len(s)
  BY <1>1, <1>4
<1>5. CASE i = Len(s) + 1 /\ j = Len(s) + 1
  BY <1>5
<1> QED BY <1>1, <1>2, <1>3, <1>4, <1>5

\* Taking the oldest keeps the order; when a read handler is the oldest, no
\* dispatch is queued.
LEMMA BehindTail ==
  ASSUME NEW Hs, NEW s \in Seq(Hs), s # <<>>, ReadBehind(s)
  PROVE  /\ ReadBehind(Tail(s))
         /\ Head(s).op = "read" => None(s, "dispatch")
<1> DEFINE t == Tail(s)
<1>1. /\ Len(s) \in Nat \ {0}
      /\ Len(t) = Len(s) - 1
      /\ \A i \in 1..(Len(s) - 1) : t[i] = s[i + 1]
      /\ Head(s) = s[1]
  BY TailFacts
<1> HIDE DEF t
<1>2. ReadBehind(t)
  <2> SUFFICES ASSUME NEW i \in 1..Len(t), NEW j \in 1..Len(t),
                      t[i].op = "read", t[j].op = "dispatch"
               PROVE  j < i
    BY DEF ReadBehind
  <2>1. /\ i + 1 \in 1..Len(s) /\ s[i + 1].op = "read"
        /\ j + 1 \in 1..Len(s) /\ s[j + 1].op = "dispatch"
    BY <1>1
  <2>2. j + 1 < i + 1
    BY <2>1 DEF ReadBehind
  <2> QED BY <2>2
<1>3. Head(s).op = "read" => None(s, "dispatch")
  <2> SUFFICES ASSUME s[1].op = "read", NEW j \in 1..Len(s), s[j].op = "dispatch"
               PROVE  FALSE
    BY <1>1 DEF None
  <2>1. 1 \in 1..Len(s)
    BY <1>1
  <2>2. j < 1
    BY <2>1 DEF ReadBehind
  <2> QED BY <2>2
<1> QED BY <1>2, <1>3 DEF t

\* Queueing the next batch widens the window; other handlers leave it alone.
LEMMA WindowAppend ==
  ASSUME NEW Hs, NEW s \in Seq(Hs), NEW h \in Hs, NEW lo \in Nat, NEW hi \in Nat,
         Window(s, lo, hi)
  PROVE  /\ h.op # "dispatch" => Window(Append(s, h), lo, hi)
         /\ h.op = "dispatch" /\ h.batch = hi + 1 /\ lo <= hi =>
              Window(Append(s, h), lo, hi + 1)
<1> DEFINE t == Append(s, h)
<1>1. /\ Len(s) \in Nat
      /\ Len(t) = Len(s) + 1
      /\ \A i \in 1..Len(s) : t[i] = s[i]
      /\ t[Len(s) + 1] = h
  BY AppendFacts
<1> HIDE DEF t
<1>2. /\ \A i \in 1..Len(t) : i \in 1..Len(s) \/ i = Len(s) + 1
      /\ \A i \in 1..Len(s) : i \in 1..Len(t) /\ i # Len(s) + 1
      /\ Len(s) + 1 \in 1..Len(t)
  BY <1>1
<1>3. ASSUME h.op # "dispatch" PROVE Window(t, lo, hi)
  BY <1>1, <1>2, <1>3 DEF Window
<1>4. ASSUME h.op = "dispatch", h.batch = hi + 1, lo <= hi
      PROVE  Window(t, lo, hi + 1)
  <2>1. \A i \in 1..Len(t) : t[i].op = "dispatch" => t[i].batch \in (lo + 1)..(hi + 1)
    BY <1>1, <1>2, <1>4 DEF Window
  <2>2. ASSUME NEW i \in 1..Len(t), NEW j \in 1..Len(t),
               t[i].op = "dispatch", t[j].op = "dispatch", i < j
        PROVE  t[i].batch < t[j].batch
    <3>1. i \in 1..Len(s)
      BY <1>1, <2>2
    <3>2. CASE j \in 1..Len(s)
      BY <1>1, <2>2, <3>1, <3>2 DEF Window
    <3>3. CASE j = Len(s) + 1
      <4>1. s[i].batch \in (lo + 1)..hi
        BY <1>1, <2>2, <3>1 DEF Window
      <4> QED BY <1>1, <1>4, <3>1, <3>3, <4>1
    <3> QED BY <1>2, <3>2, <3>3
  <2>3. ASSUME NEW n \in (lo + 1)..(hi + 1)
        PROVE  \E i \in 1..Len(t) : t[i].op = "dispatch" /\ t[i].batch = n
    <3>1. CASE n \in (lo + 1)..hi
      <4>1. PICK i \in 1..Len(s) : s[i].op = "dispatch" /\ s[i].batch = n
        BY <3>1 DEF Window
      <4> QED BY <1>1, <1>2, <4>1
    <3>2. CASE n = hi + 1
      BY <1>1, <1>2, <1>4, <3>2
    <3> QED BY <3>1, <3>2
  <2> QED BY <2>1, <2>2, <2>3 DEF Window
<1> QED BY <1>3, <1>4 DEF t

\* The oldest dispatch is that of the first batch of the window: taking it
\* narrows the window by one; taking another handler leaves it alone.  A window
\* with nothing queued is empty.
LEMMA WindowTail ==
  ASSUME NEW Hs, NEW s \in Seq(Hs), s # <<>>, NEW lo \in Nat, NEW hi \in Nat,
         Window(s, lo, hi)
  PROVE  /\ Head(s).op # "dispatch" => Window(Tail(s), lo, hi)
         /\ Head(s).op = "dispatch" =>
              /\ Head(s).batch = lo + 1
              /\ lo < hi
              /\ Window(Tail(s), lo + 1, hi)
<1> DEFINE t == Tail(s)
<1>1. /\ Len(s) \in Nat \ {0}
      /\ Len(t) = Len(s) - 1
      /\ \A i \in 1..(Len(s) - 1) : t[i] = s[i + 1]
      /\ Head(s) = s[1]
  BY TailFacts
<1> HIDE DEF t
<1>2. /\ 1 \in 1..Len(s)
      /\ \A i \in 1..Len(t) : i + 1 \in 1..Len(s) /\ t[i] = s[i + 1]
      /\ \A i \in 1..Len(s) : i = 1 \/ (i - 1 \in 1..Len(t) /\ t[i - 1] = s[i])
  BY <1>1
<1>3. \A i, j \in 1..Len(t) :
        t[i].op = "dispatch" /\ t[j].op = "dispatch" /\ i < j =>
          t[i].batch < t[j].batch
  <2> SUFFICES ASSUME NEW i \in 1..Len(t), NEW j \in 1..Len(t),
                      t[i].op = "dispatch", t[j].op = "dispatch", i < j
               PROVE  t[i].batch < t[j].batch
    OBVIOUS
  <2>1. i + 1 \in 1..Len(s) /\ t[i] = s[i + 1]
    BY <1>2
  <2>2. j + 1 \in 1..Len(s) /\ t[j] = s[j + 1]
    BY <1>2
  <2>3. i + 1 < j + 1
    BY <1>1
  <2> QED BY <2>1, <2>2, <2>3 DEF Window
<1>4. ASSUME Head(s).op # "dispatch" PROVE Window(t, lo, hi)
  <2>1. ASSUME NEW i \in 1..Len(t), t[i].op = "dispatch"
        PROVE  t[i].batch \in (lo + 1)..hi
    <3>1. i + 1 \in 1..Len(s) /\ t[i] = s[i + 1]
      BY <1>2
    <3> QED BY <2>1, <3>1 DEF Window
  <2>2. ASSUME NEW n \in (lo + 1)..hi
        PROVE  \E i \in 1..Len(t) : t[i].op = "dispatch" /\ t[i].batch = n
    <3>1. PICK i \in 1..Len(s) : s[i].op = "dispatch" /\ s[i].batch = n
      BY DEF Window
    <3> QED BY <1>1, <1>2, <1>4, <3>1
  <2> QED BY <1>3, <2>1, <2>2 DEF Window
<1>5. ASSUME Head(s).op = "dispatch"
      PROVE  Head(s).batch = lo + 1 /\ lo < hi /\ Window(t, lo + 1, hi)
  <2>1. s[1].op = "dispatch" /\ s[1].batch \in (lo + 1)..hi
    BY <1>1, <1>2, <1>5 DEF Window
  <2>2. lo < hi /\ lo + 1 \in (lo + 1)..hi
    BY <2>1
  <2>3. PICK k \in 1..Len(s) : s[k].op = "dispatch" /\ s[k].batch = lo + 1
    BY <2>2 DEF Window
  <2>4. k = 1
    <3> SUFFICES ASSUME k # 1 PROVE FALSE
      OBVIOUS
    <3>1. 1 < k
      BY <1>1
    <3>2. s[1].batch < s[k].batch
      BY <1>2, <2>1, <2>3, <3>1 DEF Window
    <3> QED BY <2>1, <2>3, <3>2
  <2>5. s[1].batch = lo + 1
    BY <2>3, <2>4
  <2>6. \A i \in 1..Len(t) : t[i].op = "dispatch" => t[i].batch \in ((lo + 1) + 1)..hi
    <3> SUFFICES ASSUME NEW i \in 1..Len(t), t[i].op = "dispatch"
                 PROVE  t[i].batch \in ((lo + 1) + 1)..hi
      OBVIOUS
    <3>1. i + 1 \in 1..Len(s) /\ s[i + 1].op = "dispatch" /\ t[i] = s[i + 1] /\ 1 < i + 1
      BY <1>2
    <3>2. s[i + 1].batch \in (lo + 1)..hi /\ s[1].batch < s[i + 1].batch
      BY <1>2, <2>1, <3>1 DEF Window
    <3> QED BY <2>5, <3>1, <3>2
  <2>7. ASSUME NEW n \in ((lo + 1) + 1)..hi
        PROVE  \E i \in 1..Len(t) : t[i].op = "dispatch" /\ t[i].batch = n
    <3>1. PICK i \in 1..Len(s) : s[i].op = "dispatch" /\ s[i].batch = n
      BY DEF Window
    <3>2. i # 1
      BY <2>5, <3>1
    <3> QED BY <1>2, <3>1, <3>2
  <2>8. Window(t, lo + 1, hi)
    BY <1>3, <2>6, <2>7 DEF Window
  <2> QED BY <1>1, <2>2, <2>5, <2>8
<1> QED BY <1>4, <1>5 DEF t

\* With no dispatch queued every batch of the window has been run.
LEMMA WindowEmpty ==
  ASSUME NEW s, NEW lo \in Nat, NEW hi \in Nat, Window(s, lo, hi),
         None(s, "dispatch"), lo <= hi
  PROVE  lo = hi
<1> SUFFICES ASSUME lo < hi PROVE FALSE
  OBVIOUS
<1>1. lo + 1 \in (lo + 1)..hi
  OBVIOUS
<1> QED BY <1>1 DEF Window, None

----------------------------------------------------------------------------
(* The inductive invariant *)

Starting == acc \in {"listen", "accepted", "added"}
Started  == acc \in {"opened", "done"}

\* There is one reader: an outstanding read or one queued read handler, and it
\* has retries left.
ReaderInv ==
  /\ AtMostOne(strand, "read")
  /\ reading => None(strand, "read")
  /\ reading \/ ~None(strand, "read") => retry <= RetryLimit
  /\ nread = MaxBatches => NoData(strand)
  /\ Starting => msg = 0 /\ nread = 0 /\ ~reading /\ None(strand, "read")
  /\ ~Starting => msg = nread + 1

\* The dispatches queued are those of the batches read and not yet run, oldest
\* first, and all of them are ahead of the read handler.
OrderInv ==
  /\ Window(strand, run, nread)
  /\ ReadBehind(strand)

\* Batches are read, then run, and parsed if the connection was open.
CountInv ==
  /\ parsed <= run /\ run <= nread
  /\ pending = nread - parsed
  /\ last <= run
  /\ ~Started => last = 0
  /\ status = "open" /\ last # 0 => last = run
  /\ retry > 0 => parsed < run

\* At most one close is under way, only while closing, and onClose ends it.
CloseInv ==
  /\ posted \in {0, 1}
  /\ AtMostOne(strand, "close")
  /\ ~None(strand, "close") => posted = 0 /\ status = "closing"
  /\ posted = 1 => status = "closing"
  /\ ~Started => status = "close" /\ closes = 0
  /\ Started => closes = IF status = "close" THEN 1 ELSE 0

\* Who has started and is open still reads, or has a reason not to.
DeafInv ==
  (acc = "reading" \/ Started) /\ (Started => status = "open") =>
    \/ reading
    \/ ~None(strand, "read")
    \/ ~tcp.up
    \/ early

\* Nothing is sent before the greeting.
SendInv == acc \in {"listen", "accepted"} => nsent = 0 /\ ~tag

IInv ==
  /\ TypeOK
  /\ SendInv
  /\ ReaderInv
  /\ OrderInv
  /\ CountInv
  /\ CloseInv
  /\ UserLifetime
  /\ DeafInv

---------------------------------------------------------------------------
(* What a step may rely on when it queues a handler or takes the oldest.    *)

\* The strand after a completion queued a handler.
LEMMA PutFacts ==
  ASSUME IInv, NEW h \in Handlers, h.op # "dispatch"
  PROVE  LET t == Append(strand, h) IN
         /\ t \in Seq(Handlers)
         /\ \A op : None(t, op) <=> None(strand, op) /\ h.op # op
         /\ None(strand, "read") \/ h.op # "read" => AtMostOne(t, "read")
         /\ None(strand, "close") \/ h.op # "close" => AtMostOne(t, "close")
         /\ ~(h.op = "read" /\ h.ec = "ok") /\ NoData(strand) => NoData(t)
         /\ Window(t, run, nread)
         /\ ReadBehind(t)
<1>1. /\ strand \in Seq(Handlers) /\ run \in Nat /\ nread \in Nat
      /\ AtMostOne(strand, "read") /\ AtMostOne(strand, "close")
      /\ Window(strand, run, nread) /\ ReadBehind(strand)
  BY BoundsAssumption DEF IInv, TypeOK, ReaderInv, OrderInv, CloseInv
<1> QED
  BY <1>1, AppendFacts, NoneAppend, OneAppend, NoDataAppend, WindowAppend,
     BehindAppend, Zenon

\* The strand after its oldest handler was taken.
LEMMA TakeFacts ==
  ASSUME IInv, strand # <<>>
  PROVE  LET t == Tail(strand)
             h == Head(strand)
         IN
         /\ t \in Seq(Handlers)
         /\ h \in Handlers
         /\ \A op : None(strand, op) => None(t, op)
         /\ \A op : h.op # op /\ None(t, op) => None(strand, op)
         /\ ~None(strand, h.op)
         /\ AtMostOne(t, "read") /\ AtMostOne(t, "close")
         /\ h.op = "read" => None(t, "read")
         /\ h.op = "close" => None(t, "close")
         /\ NoData(strand) => NoData(t)
         /\ h.op = "read" /\ h.ec = "ok" => ~NoData(strand)
         /\ ReadBehind(t)
         /\ h.op = "read" => None(strand, "dispatch") /\ run = nread
         /\ h.op # "dispatch" => Window(t, run, nread)
         /\ h.op = "dispatch" =>
              h.batch = run + 1 /\ run < nread /\ Window(t, run + 1, nread)
<1> DEFINE t == Tail(strand)
           h == Head(strand)
<1>1. /\ strand \in Seq(Handlers) /\ run \in Nat /\ nread \in Nat
      /\ run <= nread
      /\ AtMostOne(strand, "read") /\ AtMostOne(strand, "close")
      /\ Window(strand, run, nread) /\ ReadBehind(strand)
  BY BoundsAssumption DEF IInv, TypeOK, ReaderInv, OrderInv, CloseInv, CountInv
<1>2. /\ t \in Seq(Handlers) /\ h \in Handlers
      /\ 1 \in 1..Len(strand) /\ strand[1] = h
  BY <1>1, TailFacts
<1>3. ~None(strand, h.op) /\ (h.op = "read" /\ h.ec = "ok" => ~NoData(strand))
  BY <1>2 DEF None, NoData
<1>4. h.op = "read" => None(strand, "dispatch") /\ run = nread
  <2>1. h.op = "read" => None(strand, "dispatch")
    BY <1>1, BehindTail, Zenon
  <2> QED BY <1>1, <2>1, WindowEmpty
<1> QED
  BY <1>1, <1>2, <1>3, <1>4, NoneTail, OneTail, NoDataTail, BehindTail,
     WindowTail, Zenon

---------------------------------------------------------------------------
(* IInv is inductive: one step per action.                                 *)

\* The invariant holds of a connection that waits to be accepted.
LEMMA InitInv == Init => IInv
<1> SUFFICES ASSUME Init PROVE IInv
  OBVIOUS
<1> USE BoundsAssumption, KeepAliveAssumption
<1>1. strand = <<>> /\ Len(strand) = 0
  BY DEF Init
<1>2. /\ \A op : None(strand, op) /\ AtMostOne(strand, op)
      /\ NoData(strand) /\ ReadBehind(strand) /\ Window(strand, 0, 0)
  BY <1>1 DEF None, AtMostOne, NoData, ReadBehind, Window
<1>3. TypeOK
  <2>1. strand \in Seq(Handlers) /\ fired \in [Timers -> Nat] /\ armed \in SUBSET Timers
    BY DEF Init, Timers
  <2>2. tcp \in [up : BOOLEAN, peerFin : BOOLEAN, shutRecv : BOOLEAN, finSent : BOOLEAN]
    BY DEF Init, Established
  <2>3. /\ msg \in 0..(MaxBatches + 1) /\ nread \in 0..MaxBatches
        /\ posted \in Nat /\ writes \in Nat /\ nsent \in 0..MaxSends
        /\ pending \in 0..MaxBatches /\ retry \in 0..(RetryLimit + 1)
        /\ run \in 0..MaxBatches /\ last \in 0..MaxBatches
        /\ parsed \in 0..MaxBatches /\ closes \in Nat
    BY DEF Init, RetryLimit
  <2>4. /\ reading \in BOOLEAN /\ early \in BOOLEAN /\ tag \in BOOLEAN
        /\ acc = "listen" /\ status = "close" /\ fault = "none"
    BY DEF Init
  <2> QED BY <2>1, <2>2, <2>3, <2>4 DEF TypeOK
<1>4. ReaderInv /\ OrderInv /\ CountInv
  BY <1>2 DEF Init, ReaderInv, OrderInv, CountInv, Starting, Started, RetryLimit
<1>5. CloseInv /\ UserLifetime /\ DeafInv /\ SendInv
  BY <1>2 DEF Init, CloseInv, UserLifetime, DeafInv, SendInv, Started
<1> QED BY <1>3, <1>4, <1>5 DEF IInv

\* The acceptor thread.
LEMMA AcceptorStep == IInv /\ fault = "none" /\ Acceptor => IInv'
<1> SUFFICES ASSUME IInv, fault = "none", Acceptor PROVE IInv'
  OBVIOUS
<1> USE BoundsAssumption, KeepAliveAssumption
<1> USE DEF readVars, sendVars, timerVars, countVars, userVars, parseVars
<1>1. CASE Accepted
  <2>1. TypeOK'
    BY <1>1 DEF IInv, TypeOK, Accepted
  <2>2. (ReaderInv /\ OrderInv /\ CountInv)'
    BY <1>1 DEF IInv, ReaderInv, OrderInv, CountInv, Accepted, Starting, Started
  <2>3. (CloseInv /\ UserLifetime /\ DeafInv /\ SendInv)'
    BY <1>1 DEF IInv, CloseInv, UserLifetime, DeafInv, SendInv, Accepted, Started
  <2> QED BY <2>1, <2>2, <2>3 DEF IInv
<1>2. CASE OnAccept
  <2>1. TypeOK'
    <3>1. nsent' \in 0..MaxSends
      BY <1>2 DEF IInv, TypeOK, OnAccept, SendInv
    <3>2. writes' \in Nat
      BY <1>2 DEF IInv, TypeOK, OnAccept
    <3> QED BY <1>2, <3>1, <3>2 DEF IInv, TypeOK, OnAccept
  <2>2. (ReaderInv /\ OrderInv /\ CountInv)'
    BY <1>2 DEF IInv, ReaderInv, OrderInv, CountInv, OnAccept, Starting, Started
  <2>3. (CloseInv /\ UserLifetime /\ DeafInv /\ SendInv)'
    BY <1>2 DEF IInv, TypeOK, CloseInv, UserLifetime, DeafInv, SendInv, OnAccept, Started
  <2> QED BY <2>1, <2>2, <2>3 DEF IInv
<1>3. CASE StartRead
  <2>1. TypeOK'
    BY <1>3 DEF IInv, TypeOK, StartRead, NewBuffer, AsyncReadSome, ReaderInv, Starting
  <2>2. (ReaderInv /\ OrderInv /\ CountInv)'
    BY <1>3 DEF IInv, TypeOK, ReaderInv, OrderInv, CountInv, StartRead, NewBuffer,
                AsyncReadSome, Starting, Started, RetryLimit
  <2>3. (CloseInv /\ UserLifetime /\ DeafInv /\ SendInv)'
    BY <1>3 DEF IInv, CloseInv, UserLifetime, DeafInv, SendInv, StartRead, AsyncReadSome, Started
  <2> QED BY <2>1, <2>2, <2>3 DEF IInv
<1>4. CASE StartOpen
  <2>1. TypeOK'
    BY <1>4 DEF IInv, TypeOK, StartOpen
  <2>2. (ReaderInv /\ OrderInv /\ CountInv)'
    BY <1>4 DEF IInv, ReaderInv, OrderInv, CountInv, StartOpen, Starting, Started
  <2>3. (CloseInv /\ UserLifetime /\ DeafInv /\ SendInv)'
    BY <1>4 DEF IInv, CloseInv, UserLifetime, DeafInv, SendInv, StartOpen, Started
  <2> QED BY <2>1, <2>2, <2>3 DEF IInv
<1>5. CASE StartRenew
  <2>1. TypeOK'
    BY <1>5 DEF IInv, TypeOK, StartRenew, RenewExpireTime, Timers
  <2>2. (ReaderInv /\ OrderInv /\ CountInv)'
    BY <1>5 DEF IInv, ReaderInv, OrderInv, CountInv, StartRenew, Starting, Started
  <2>3. (CloseInv /\ UserLifetime /\ DeafInv /\ SendInv)'
    BY <1>5 DEF IInv, CloseInv, UserLifetime, DeafInv, SendInv, StartRenew, Started
  <2> QED BY <2>1, <2>2, <2>3 DEF IInv
<1> QED BY <1>1, <1>2, <1>3, <1>4, <1>5 DEF Acceptor

\* The peer, the kernel and the threads that send.
LEMMA NetworkStep == IInv /\ fault = "none" /\ (Network \/ Send) => IInv'
<1> SUFFICES ASSUME IInv, fault = "none", Network \/ Send PROVE IInv'
  OBVIOUS
<1> USE BoundsAssumption, KeepAliveAssumption
<1> USE DEF readVars, sendVars, timerVars, countVars, userVars, parseVars
<1>1. CASE Network
  <2>1. TypeOK'
    BY <1>1 DEF IInv, TypeOK, Network, PeerFin, GoDown
  <2>2. (ReaderInv /\ OrderInv /\ CountInv)'
    BY <1>1 DEF IInv, ReaderInv, OrderInv, CountInv, Network, PeerFin, GoDown,
                Starting, Started
  <2>3. (CloseInv /\ UserLifetime /\ SendInv)'
    BY <1>1 DEF IInv, CloseInv, UserLifetime, SendInv, Network, PeerFin, GoDown, Started
  <2>4. DeafInv'
    BY <1>1 DEF IInv, TypeOK, DeafInv, Network, PeerFin, GoDown, Started
  <2> QED BY <2>1, <2>2, <2>3, <2>4 DEF IInv
<1>2. CASE Send
  <2>1. TypeOK'
    BY <1>2 DEF IInv, TypeOK, Send
  <2>2. (ReaderInv /\ OrderInv /\ CountInv)'
    BY <1>2 DEF IInv, ReaderInv, OrderInv, CountInv, Send, Starting, Started
  <2>3. (CloseInv /\ UserLifetime /\ DeafInv /\ SendInv)'
    BY <1>2 DEF IInv, CloseInv, UserLifetime, DeafInv, SendInv, Send, Started
  <2> QED BY <2>1, <2>2, <2>3 DEF IInv
<1> QED BY <1>1, <1>2

\* Completions entering the strand.
LEMMA CompletionStep == IInv /\ fault = "none" /\ Completion => IInv'
<1> SUFFICES ASSUME IInv, fault = "none", Completion PROVE IInv'
  OBVIOUS
<1> USE BoundsAssumption, KeepAliveAssumption
<1> USE DEF readVars, sendVars, timerVars, countVars, userVars, parseVars
<1>1. ASSUME NEW ec \in {"ok", "eof", "reset"}, ReadCompletes(ec) PROVE IInv'
  <2> DEFINE h == Read(ec)
  <2>1. /\ h \in Handlers /\ h.op = "read" /\ h.ec = ec
        /\ strand' = Append(strand, h)
    BY <1>1 DEF Handlers, Read, ReadCompletes, Post
  <2> HIDE DEF h
  <2>2. reading /\ None(strand, "read") /\ acc \notin {"listen", "accepted", "added"}
    BY <1>1 DEF IInv, ReaderInv, ReadCompletes, Starting
  <2>3. /\ strand' \in Seq(Handlers)
        /\ \A op : None(strand', op) <=> None(strand, op) /\ "read" # op
        /\ AtMostOne(strand', "read")
        /\ AtMostOne(strand', "close")
        /\ ec # "ok" /\ NoData(strand) => NoData(strand')
        /\ Window(strand', run, nread)
        /\ ReadBehind(strand')
    BY <2>1, <2>2, PutFacts
  <2>4. ec = "ok" => nread < MaxBatches
    BY <1>1 DEF ReadCompletes
  <2>5. TypeOK'
    BY <1>1, <2>3 DEF IInv, TypeOK, ReadCompletes
  <2>6. (ReaderInv /\ OrderInv /\ CountInv)'
    BY <1>1, <2>2, <2>3, <2>4 DEF IInv, TypeOK, ReaderInv, OrderInv, CountInv,
       ReadCompletes, Starting, Started
  <2>7. (CloseInv /\ UserLifetime /\ DeafInv /\ SendInv)'
    BY <1>1, <2>3 DEF IInv, CloseInv, UserLifetime, DeafInv, SendInv, ReadCompletes, Started
  <2> QED BY <2>5, <2>6, <2>7 DEF IInv
<1>2. ASSUME NEW ec \in {"ok", "err"}, WriteCompletes(ec) PROVE IInv'
  <2> DEFINE h == Write(ec)
  <2>1. h \in Handlers /\ h.op = "write" /\ strand' = Append(strand, h)
    BY <1>2 DEF Handlers, Write, WriteCompletes, Post
  <2> HIDE DEF h
  <2>2. /\ strand' \in Seq(Handlers)
        /\ None(strand', "read") <=> None(strand, "read")
        /\ None(strand', "close") <=> None(strand, "close")
        /\ AtMostOne(strand', "read") /\ AtMostOne(strand', "close")
        /\ NoData(strand) => NoData(strand')
        /\ Window(strand', run, nread) /\ ReadBehind(strand')
    BY <2>1, PutFacts
  <2>3. TypeOK'
    BY <1>2, <2>2 DEF IInv, TypeOK, WriteCompletes
  <2>4. (ReaderInv /\ OrderInv /\ CountInv)'
    BY <1>2, <2>2 DEF IInv, ReaderInv, OrderInv, CountInv, WriteCompletes, Starting, Started
  <2>5. (CloseInv /\ UserLifetime /\ DeafInv /\ SendInv)'
    BY <1>2, <2>2 DEF IInv, CloseInv, UserLifetime, DeafInv, SendInv, WriteCompletes, Started
  <2> QED BY <2>3, <2>4, <2>5 DEF IInv
<1>3. ASSUME NEW t \in Timers, TimerFires(t) PROVE IInv'
  <2>1. TypeOK'
    BY <1>3 DEF IInv, TypeOK, TimerFires
  <2>2. (ReaderInv /\ OrderInv /\ CountInv)'
    BY <1>3 DEF IInv, ReaderInv, OrderInv, CountInv, TimerFires, Starting, Started
  <2>3. (CloseInv /\ UserLifetime /\ DeafInv /\ SendInv)'
    BY <1>3 DEF IInv, CloseInv, UserLifetime, DeafInv, SendInv, TimerFires, Started
  <2> QED BY <2>1, <2>2, <2>3 DEF IInv
<1>4. ASSUME NEW t \in Timers, TimerQueues(t) PROVE IInv'
  <2> DEFINE h == Timer(t)
  <2>1. h \in Handlers /\ h.op \in Timers /\ strand' = Append(strand, h)
    BY <1>4 DEF Handlers, Timer, TimerQueues, Post
  <2> HIDE DEF h
  <2>2. /\ strand' \in Seq(Handlers)
        /\ None(strand', "read") <=> None(strand, "read")
        /\ None(strand', "close") <=> None(strand, "close")
        /\ AtMostOne(strand', "read") /\ AtMostOne(strand', "close")
        /\ NoData(strand) => NoData(strand')
        /\ Window(strand', run, nread) /\ ReadBehind(strand')
    BY <2>1, PutFacts DEF Timers
  <2>3. TypeOK'
    BY <1>4, <2>2 DEF IInv, TypeOK, TimerQueues
  <2>4. (ReaderInv /\ OrderInv /\ CountInv)'
    BY <1>4, <2>2 DEF IInv, ReaderInv, OrderInv, CountInv, TimerQueues, Starting, Started
  <2>5. (CloseInv /\ UserLifetime /\ DeafInv /\ SendInv)'
    BY <1>4, <2>2 DEF IInv, CloseInv, UserLifetime, DeafInv, SendInv, TimerQueues, Started
  <2> QED BY <2>3, <2>4, <2>5 DEF IInv
<1>5. ASSUME CloseQueues PROVE IInv'
  <2>1. CloseOp \in Handlers /\ CloseOp.op = "close" /\ strand' = Append(strand, CloseOp)
    BY <1>5 DEF Handlers, CloseOp, CloseQueues, Post
  <2>2. posted = 1 /\ posted' = 0 /\ None(strand, "close")
    BY <1>5 DEF IInv, CloseInv, CloseQueues
  <2>3. /\ strand' \in Seq(Handlers)
        /\ None(strand', "read") <=> None(strand, "read")
        /\ AtMostOne(strand', "read") /\ AtMostOne(strand', "close")
        /\ NoData(strand) => NoData(strand')
        /\ Window(strand', run, nread) /\ ReadBehind(strand')
    BY <2>1, <2>2, PutFacts
  <2>4. TypeOK'
    BY <1>5, <2>2, <2>3 DEF IInv, TypeOK, CloseQueues
  <2>5. (ReaderInv /\ OrderInv /\ CountInv)'
    BY <1>5, <2>3 DEF IInv, ReaderInv, OrderInv, CountInv, CloseQueues, Starting, Started
  <2>6. (CloseInv /\ UserLifetime /\ DeafInv /\ SendInv)'
    BY <1>5, <2>2, <2>3 DEF IInv, CloseInv, UserLifetime, DeafInv, SendInv, CloseQueues, Started
  <2> QED BY <2>4, <2>5, <2>6 DEF IInv
<1> QED BY <1>1, <1>2, <1>3, <1>4, <1>5 DEF Completion

\* read_handler with data.
LEMMA ReadHandlerStep == IInv /\ fault = "none" /\ ReadHandler => IInv'
<1> SUFFICES ASSUME IInv, fault = "none", ReadHandler PROVE IInv'
  OBVIOUS
<1> USE BoundsAssumption, KeepAliveAssumption
<1> USE DEF readVars, sendVars, timerVars, countVars, userVars, parseVars
<1> DEFINE t == Tail(strand)
           h == Dispatch(msg)
<1>1. /\ strand # <<>> /\ Head(strand).op = "read" /\ Head(strand).ec = "ok"
      /\ strand' = Append(t, h)
  BY DEF ReadHandler, Running
<1>2. /\ t \in Seq(Handlers)
      /\ None(t, "read") /\ NoData(t) /\ ~NoData(strand)
      /\ ~None(strand, "read") /\ (None(strand, "close") => None(t, "close"))
      /\ AtMostOne(t, "read") /\ AtMostOne(t, "close")
      /\ ReadBehind(t) /\ Window(t, run, nread) /\ run = nread
  BY <1>1, TakeFacts, NoDataTail
<1>3. /\ nread \in Nat /\ nread < MaxBatches /\ msg = nread + 1
      /\ acc \notin {"listen", "accepted", "added"} /\ retry <= RetryLimit
  BY <1>2 DEF IInv, TypeOK, ReaderInv, Starting
<1>4. h \in Handlers /\ h.op = "dispatch" /\ h.batch = nread + 1
  BY <1>3 DEF Handlers, Dispatch, Timers
<1> HIDE DEF t, h
<1>5. /\ strand' \in Seq(Handlers)
      /\ None(strand', "read") /\ NoData(strand')
      /\ None(strand, "close") => None(strand', "close")
      /\ AtMostOne(strand', "read") /\ AtMostOne(strand', "close")
  BY <1>1, <1>2, <1>4, AppendFacts, NoneAppend, NoDataAppend, OneAppend
<1>6. Window(strand', run, nread + 1) /\ ReadBehind(strand')
  BY <1>1, <1>2, <1>3, <1>4, WindowAppend, BehindAppend
<1>7. TypeOK'
  BY <1>3, <1>5 DEF IInv, TypeOK, ReadHandler, NewBuffer, IncPending, AsyncReadSome,
     RenewExpireTime, CountInv, Timers
<1>8. (ReaderInv /\ OrderInv /\ CountInv)'
  BY <1>3, <1>5, <1>6 DEF IInv, TypeOK, ReaderInv, OrderInv, CountInv, ReadHandler,
     NewBuffer, IncPending, AsyncReadSome, Starting, Started
<1>9. (CloseInv /\ UserLifetime /\ DeafInv /\ SendInv)'
  BY <1>5 DEF IInv, CloseInv, UserLifetime, DeafInv, SendInv, ReadHandler,
     AsyncReadSome, Started
<1> QED BY <1>7, <1>8, <1>9 DEF IInv

\* read_handler with an error it retries: the handler goes to the end again.
LEMMA ReadErrorRetryStep == IInv /\ fault = "none" /\ ReadErrorRetry => IInv'
<1> SUFFICES ASSUME IInv, fault = "none", ReadErrorRetry PROVE IInv'
  OBVIOUS
<1> USE BoundsAssumption, KeepAliveAssumption
<1> USE DEF readVars, sendVars, timerVars, countVars, userVars, parseVars
<1> DEFINE t == Tail(strand)
           h == Head(strand)
<1>1. /\ strand # <<>> /\ h.op = "read" /\ h.ec # "ok"
      /\ strand' = Append(t, h)
  BY DEF ReadErrorRetry, Running
<1>2. /\ t \in Seq(Handlers) /\ h \in Handlers
      /\ None(t, "read") /\ NoData(t) /\ ~None(strand, "read")
      /\ None(strand, "close") => None(t, "close")
      /\ AtMostOne(t, "read") /\ AtMostOne(t, "close")
      /\ ReadBehind(t) /\ Window(t, run, nread) /\ run = nread
  BY <1>1, TakeFacts, NoDataTail
<1>3. /\ nread \in Nat /\ run \in Nat /\ ~reading
      /\ acc \notin {"listen", "accepted", "added"}
  BY <1>2 DEF IInv, TypeOK, ReaderInv, Starting
<1>4. /\ strand' \in Seq(Handlers)
      /\ NoData(strand') /\ ~None(strand', "read")
      /\ None(strand, "close") => None(strand', "close")
      /\ AtMostOne(strand', "read") /\ AtMostOne(strand', "close")
      /\ Window(strand', run, nread) /\ ReadBehind(strand')
  <2> HIDE DEF t, h
  <2>1. /\ strand' \in Seq(Handlers)
        /\ NoData(strand') /\ ~None(strand', "read")
        /\ None(strand, "close") => None(strand', "close")
    BY <1>1, <1>2, AppendFacts, NoneAppend, NoDataAppend
  <2>2. AtMostOne(strand', "read") /\ AtMostOne(strand', "close")
    BY <1>1, <1>2, OneAppend
  <2>3. Window(strand', run, nread) /\ ReadBehind(strand')
    BY <1>1, <1>2, <1>3, WindowAppend, BehindAppend
  <2> QED BY <2>1, <2>2, <2>3
<1>5. pending > 0 /\ retry < RetryLimit /\ retry' = retry + 1
  BY DEF ReadErrorRetry, Retries
<1>6. parsed < run
  BY <1>2, <1>5 DEF IInv, TypeOK, CountInv
<1>7. TypeOK'
  BY <1>4, <1>5 DEF IInv, TypeOK, ReadErrorRetry, RetryLimit
<1>8. (ReaderInv /\ OrderInv /\ CountInv)'
  BY <1>3, <1>4, <1>5, <1>6 DEF IInv, TypeOK, ReaderInv, OrderInv, CountInv,
     ReadErrorRetry, Starting, Started, RetryLimit
<1>9. (CloseInv /\ UserLifetime /\ DeafInv /\ SendInv)'
  BY <1>4 DEF IInv, CloseInv, UserLifetime, DeafInv, SendInv, ReadErrorRetry, Started
<1> QED BY <1>7, <1>8, <1>9 DEF IInv

\* read_handler with an error that ends the session.
LEMMA ReadErrorClosingStep == IInv /\ fault = "none" /\ ReadErrorClosing => IInv'
<1> SUFFICES ASSUME IInv, fault = "none", ReadErrorClosing PROVE IInv'
  OBVIOUS
<1> USE BoundsAssumption, KeepAliveAssumption
<1> USE DEF readVars, sendVars, timerVars, countVars, userVars, parseVars
<1>1. /\ strand # <<>> /\ Head(strand).op = "read" /\ Head(strand).ec # "ok"
      /\ strand' = Tail(strand)
  BY DEF ReadErrorClosing, Running
<1>2. /\ strand' \in Seq(Handlers)
      /\ None(strand', "read") /\ NoData(strand') /\ ~None(strand, "read")
      /\ None(strand, "close") <=> None(strand', "close")
      /\ AtMostOne(strand', "read") /\ AtMostOne(strand', "close")
      /\ ReadBehind(strand') /\ Window(strand', run, nread) /\ run = nread
  BY <1>1, TakeFacts, NoDataTail
<1>3. acc \notin {"listen", "accepted", "added"} /\ retry <= RetryLimit /\ ~reading
  BY <1>2 DEF IInv, ReaderInv, Starting
<1>4. tcp' \in [up : BOOLEAN, peerFin : BOOLEAN, shutRecv : BOOLEAN, finSent : BOOLEAN]
  BY DEF IInv, TypeOK, ReadErrorClosing, Closing, ShutdownRecv
<1>5. TypeOK'
  BY <1>2, <1>3, <1>4 DEF IInv, TypeOK, ReadErrorClosing, Closing, CancelTimers,
     PostClose, RetryLimit
<1>6. (ReaderInv /\ OrderInv /\ SendInv)'
  BY <1>2, <1>3 DEF IInv, ReaderInv, OrderInv, SendInv, ReadErrorClosing, Starting
<1>7. CountInv'
  BY <1>2 DEF IInv, TypeOK, CountInv, ReadErrorClosing, Closing, Started
<1>8. CloseInv'
  BY <1>2 DEF IInv, TypeOK, CloseInv, ReadErrorClosing, Closing, PostClose, IsOpen, Started
<1>9. UserLifetime'
  BY DEF IInv, UserLifetime, ReadErrorClosing
<1>10. DeafInv'
  BY <1>2 DEF IInv, TypeOK, DeafInv, ReadErrorClosing, Closing, IsOpen, ShutdownRecv, Started
<1> QED BY <1>5, <1>6, <1>7, <1>8, <1>9, <1>10 DEF IInv

\* write_handler.
LEMMA WriteHandlerStep == IInv /\ fault = "none" /\ WriteHandler => IInv'
<1> SUFFICES ASSUME IInv, fault = "none", WriteHandler PROVE IInv'
  OBVIOUS
<1> USE BoundsAssumption, KeepAliveAssumption
<1> USE DEF readVars, sendVars, timerVars, countVars, userVars, parseVars
<1>1. strand # <<>> /\ Head(strand).op = "write" /\ strand' = Tail(strand)
  BY DEF WriteHandler, Running
<1>2. /\ strand' \in Seq(Handlers)
      /\ None(strand', "read") <=> None(strand, "read")
      /\ None(strand', "close") <=> None(strand, "close")
      /\ NoData(strand) => NoData(strand')
      /\ AtMostOne(strand', "read") /\ AtMostOne(strand', "close")
      /\ ReadBehind(strand') /\ Window(strand', run, nread)
  BY <1>1, TakeFacts
<1>3. tcp' \in [up : BOOLEAN, peerFin : BOOLEAN, shutRecv : BOOLEAN, finSent : BOOLEAN]
  BY DEF IInv, TypeOK, WriteHandler, Closing, ShutdownSend
<1>4. TypeOK'
  <2>1. armed' \in SUBSET Timers
    BY DEF IInv, TypeOK, WriteHandler, Closing, CancelTimers, RenewExpireTime, Timers
  <2>2. status' \in {"open", "closing", "close"} /\ posted' \in Nat
    BY DEF IInv, TypeOK, WriteHandler, Closing, PostClose
  <2>3. early' \in BOOLEAN
    BY DEF IInv, TypeOK, WriteHandler, Closing
  <2> QED BY <1>2, <1>3, <2>1, <2>2, <2>3 DEF IInv, TypeOK, WriteHandler
<1>5. (ReaderInv /\ OrderInv /\ SendInv)'
  BY <1>2 DEF IInv, ReaderInv, OrderInv, SendInv, WriteHandler, Starting
<1>6. CountInv'
  BY DEF IInv, TypeOK, CountInv, WriteHandler, Closing, Started
<1>7. CloseInv'
  BY <1>2 DEF IInv, TypeOK, CloseInv, WriteHandler, Closing, PostClose, IsOpen, Started
<1>8. UserLifetime'
  BY DEF IInv, UserLifetime, WriteHandler
<1>9. DeafInv'
  BY <1>2 DEF IInv, TypeOK, DeafInv, WriteHandler, Closing, IsOpen, ShutdownSend, Started
<1> QED BY <1>4, <1>5, <1>6, <1>7, <1>8, <1>9 DEF IInv

\* MessageProcedure::dispatch, dropping the batch or parsing it.
LEMMA DispatchStep ==
  ASSUME IInv, fault = "none",
         \/ DispatchDrop
         \/ \E reserve \in BOOLEAN, sends \in 0..1 : DispatchParse(reserve, sends)
  PROVE  IInv'
<1> USE BoundsAssumption, KeepAliveAssumption
<1> USE DEF readVars, sendVars, timerVars, countVars, userVars, parseVars
<1>1. /\ strand # <<>> /\ Head(strand).op = "dispatch" /\ strand' = Tail(strand)
      /\ run' = run + 1
  BY DEF DispatchDrop, DispatchParse, Running
<1>2. /\ strand' \in Seq(Handlers)
      /\ None(strand', "read") <=> None(strand, "read")
      /\ None(strand', "close") <=> None(strand, "close")
      /\ NoData(strand) => NoData(strand')
      /\ AtMostOne(strand', "read") /\ AtMostOne(strand', "close")
      /\ ReadBehind(strand') /\ Window(strand', run + 1, nread)
      /\ Head(strand).batch = run + 1 /\ run < nread
  BY <1>1, TakeFacts
<1>3. run \in Nat /\ nread \in 0..MaxBatches /\ parsed \in Nat /\ parsed <= run
  BY DEF IInv, TypeOK, CountInv
<1>4. CASE DispatchDrop
  <2>1. TypeOK'
    BY <1>1, <1>2, <1>3, <1>4 DEF IInv, TypeOK, DispatchDrop
  <2>2. (ReaderInv /\ OrderInv /\ SendInv)'
    BY <1>1, <1>2, <1>4 DEF IInv, ReaderInv, OrderInv, SendInv, DispatchDrop, Starting
  <2>3. CountInv'
    BY <1>1, <1>2, <1>3, <1>4 DEF IInv, TypeOK, CountInv, DispatchDrop, IsOpen, Started
  <2>4. (CloseInv /\ UserLifetime /\ DeafInv)'
    BY <1>2, <1>4 DEF IInv, CloseInv, UserLifetime, DeafInv, DispatchDrop, Started
  <2> QED BY <2>1, <2>2, <2>3, <2>4 DEF IInv
<1>5. ASSUME NEW reserve \in BOOLEAN, NEW sends \in 0..1, DispatchParse(reserve, sends)
      PROVE  IInv'
  <2>1. parsed' = parsed + 1 /\ last' = run + 1 /\ pending' = pending - 1
    BY <1>2, <1>5 DEF DispatchParse, DecPending
  <2>2. TypeOK'
    <3>1. writes' \in Nat /\ nsent' \in 0..MaxSends
      BY <1>5 DEF IInv, TypeOK, DispatchParse
    <3>2. armed' \in SUBSET Timers
      BY <1>5 DEF IInv, TypeOK, DispatchParse, CloseReserve, Timers
    <3>3. pending' \in 0..MaxBatches
      BY <1>2, <1>3, <2>1 DEF IInv, TypeOK, CountInv
    <3> QED
      BY <1>1, <1>2, <1>3, <1>5, <2>1, <3>1, <3>2, <3>3 DEF IInv, TypeOK, DispatchParse
  <2>3. (ReaderInv /\ OrderInv)'
    BY <1>1, <1>2, <1>5 DEF IInv, ReaderInv, OrderInv, DispatchParse, Starting
  <2>4. CountInv'
    BY <1>1, <1>2, <1>3, <1>5, <2>1 DEF IInv, TypeOK, CountInv, CloseInv, DispatchParse,
       IsOpen, Started
  <2>5. (CloseInv /\ UserLifetime /\ DeafInv /\ SendInv)'
    BY <1>2, <1>5 DEF IInv, CloseInv, UserLifetime, DeafInv, SendInv, DispatchParse,
       IsOpen, Started
  <2> QED BY <2>2, <2>3, <2>4, <2>5 DEF IInv
<1> QED BY <1>4, <1>5

\* The handlers that end the process, and the keep-alive timer's.
LEMMA TimerStep ==
  ASSUME IInv, fault = "none", DispatchThrows \/ TimerOnFreed \/ OnExpireTime
  PROVE  IInv'
<1> USE BoundsAssumption, KeepAliveAssumption
<1> USE DEF readVars, sendVars, timerVars, countVars, userVars, parseVars
<1>1. CASE DispatchThrows \/ TimerOnFreed
  <2>1. TypeOK'
    BY <1>1 DEF IInv, TypeOK, DispatchThrows, TimerOnFreed
  <2>2. (ReaderInv /\ OrderInv /\ CountInv)'
    BY <1>1 DEF IInv, ReaderInv, OrderInv, CountInv, DispatchThrows, TimerOnFreed, Starting, Started
  <2>3. (CloseInv /\ UserLifetime /\ DeafInv /\ SendInv)'
    BY <1>1 DEF IInv, CloseInv, UserLifetime, DeafInv, SendInv, DispatchThrows, TimerOnFreed,
                   Started
  <2> QED BY <2>1, <2>2, <2>3 DEF IInv
<1>2. CASE OnExpireTime
  <2>1. strand # <<>> /\ Head(strand).op = "keep" /\ strand' = Tail(strand)
    BY <1>2 DEF OnExpireTime, Running
  <2>2. /\ strand' \in Seq(Handlers)
        /\ None(strand', "read") <=> None(strand, "read")
        /\ None(strand', "close") <=> None(strand, "close")
        /\ NoData(strand) => NoData(strand')
        /\ AtMostOne(strand', "read") /\ AtMostOne(strand', "close")
        /\ ReadBehind(strand') /\ Window(strand', run, nread)
    BY <2>1, TakeFacts
  <2>3. TypeOK'
    <3>1. armed' \in SUBSET Timers
      BY <1>2 DEF IInv, TypeOK, OnExpireTime, CloseReserve, Timers
    <3> QED BY <1>2, <2>2, <3>1 DEF IInv, TypeOK, OnExpireTime
  <2>4. (ReaderInv /\ OrderInv /\ CountInv)'
    BY <1>2, <2>2 DEF IInv, ReaderInv, OrderInv, CountInv, OnExpireTime, Starting, Started
  <2>5. (CloseInv /\ UserLifetime /\ DeafInv /\ SendInv)'
    BY <1>2, <2>2 DEF IInv, CloseInv, UserLifetime, DeafInv, SendInv, OnExpireTime, Started
  <2> QED BY <2>3, <2>4, <2>5 DEF IInv
<1> QED BY <1>1, <1>2

\* close(), reached from the reserve timer or from the close that closing()
\* posted.  Both find the session not yet closed: the timer tests for open, and
\* a queued close excludes every other status than closing.
LEMMA CloseStep ==
  ASSUME IInv, fault = "none", OnCloseReserveTime \/ RunClose
  PROVE  IInv'
<1> USE BoundsAssumption, KeepAliveAssumption
<1> USE DEF readVars, sendVars, timerVars, countVars, userVars, parseVars
<1>1. /\ strand # <<>> /\ Head(strand).op \in {"reserve", "close"}
      /\ strand' = Tail(strand)
  BY DEF OnCloseReserveTime, RunClose, Running
<1>2. /\ strand' \in Seq(Handlers)
      /\ None(strand', "read") <=> None(strand, "read")
      /\ None(strand, "close") => None(strand', "close")
      /\ Head(strand).op = "close" => None(strand', "close")
      /\ NoData(strand) => NoData(strand')
      /\ AtMostOne(strand', "read") /\ AtMostOne(strand', "close")
      /\ ReadBehind(strand') /\ Window(strand', run, nread)
      /\ ~None(strand, Head(strand).op)
  BY <1>1, TakeFacts
<1>3. /\ UNCHANGED <<acc, readVars, posted, fired, sendVars, countVars, parseVars>>
      /\ \/ /\ CloseSession
            /\ status \in {"open", "closing"} /\ Started
            /\ posted = 0 \/ None(strand', "close")
            /\ status = "open" \/ Head(strand).op = "close"
         \/ UNCHANGED <<status, armed, tcp, closes, tag, fault>>
  <2>1. CASE OnCloseReserveTime
    BY <2>1, <1>2 DEF OnCloseReserveTime, IsOpen, IInv, CloseInv, TypeOK
  <2>2. CASE RunClose
    <3>1. Head(strand).op = "close"
      BY <2>2 DEF RunClose, Running
    <3>2. status = "closing" /\ posted = 0
      BY <1>2, <3>1 DEF IInv, CloseInv
    <3> QED BY <1>2, <2>2, <3>1, <3>2 DEF RunClose, IInv, CloseInv
  <2> QED BY <2>1, <2>2
<1>4. TypeOK'
  <2>1. tcp' \in [up : BOOLEAN, peerFin : BOOLEAN, shutRecv : BOOLEAN, finSent : BOOLEAN]
    BY <1>3 DEF IInv, TypeOK, CloseSession, ShutdownBoth
  <2>2. /\ status' \in {"open", "closing", "close"}
        /\ closes' \in Nat /\ fault' \in {"none", "threw", "freed"}
    BY <1>3 DEF IInv, TypeOK, CloseSession
  <2>3. armed' \in SUBSET Timers
    BY <1>3 DEF IInv, TypeOK, CloseSession, CancelTimers
  <2>4. tag' \in BOOLEAN
    BY <1>3 DEF IInv, TypeOK, CloseSession, DeleteUser
  <2> QED BY <1>2, <1>3, <2>1, <2>2, <2>3, <2>4 DEF IInv, TypeOK
<1>5. (ReaderInv /\ OrderInv)'
  BY <1>2, <1>3 DEF IInv, ReaderInv, OrderInv, Starting
<1>6. (CountInv /\ SendInv)'
  BY <1>3 DEF IInv, CountInv, SendInv, CloseSession, DeleteUser, Started
<1>7. CloseInv'
  BY <1>2, <1>3 DEF IInv, TypeOK, CloseInv, CloseSession, Started
<1>8. UserLifetime'
  BY <1>3 DEF IInv, TypeOK, UserLifetime, CloseInv, CloseSession, DeleteUser, Started
<1>9. DeafInv'
  BY <1>2, <1>3 DEF IInv, DeafInv, CloseSession, Started
<1> QED BY <1>4, <1>5, <1>6, <1>7, <1>8, <1>9 DEF IInv

\* Every step, and stuttering, preserves the invariant.
LEMMA NextInv == IInv /\ [Next]_vars => IInv'
<1> SUFFICES ASSUME IInv, [Next]_vars PROVE IInv'
  OBVIOUS
<1>1. CASE Next
  <2>1. fault = "none" /\ (Acceptor \/ Handler \/ Network \/ Completion \/ Send)
    BY <1>1 DEF Next
  <2>2. CASE Handler
    BY <2>1, <2>2, ReadHandlerStep, ReadErrorRetryStep, ReadErrorClosingStep,
       WriteHandlerStep, DispatchStep, TimerStep, CloseStep DEF Handler
  <2> QED BY <2>1, <2>2, AcceptorStep, NetworkStep, CompletionStep
<1>2. CASE UNCHANGED vars
  <2> USE <1>2 DEF vars
  <2>1. TypeOK'
    BY DEF IInv, TypeOK
  <2>2. (ReaderInv /\ OrderInv /\ CountInv)'
    BY DEF IInv, ReaderInv, OrderInv, CountInv, Starting, Started
  <2>3. (CloseInv /\ UserLifetime /\ DeafInv /\ SendInv)'
    BY DEF IInv, CloseInv, UserLifetime, DeafInv, SendInv, Started
  <2> QED BY <2>1, <2>2, <2>3 DEF IInv
<1> QED BY <1>1, <1>2

\* IInv holds throughout every behaviour of a connection.
THEOREM Invariance == Spec => []IInv
  BY InitInv, NextInv, PTL DEF Spec

---------------------------------------------------------------------------
(* What follows from the invariant.                                        *)

\* The counters of connectionImpl stay in range for every number of batches and
\* packets: _readHandlerPending never goes below 0, although dispatch() is the
\* only place that decrements it and may return early, and _postRetryCount
\* never passes its limit by more than the last, failed try.
THEOREM TypeCorrect == Spec => []TypeOK
<1>1. IInv => TypeOK
  BY DEF IInv
<1> QED BY <1>1, Invariance, PTL

\* onClose is called at most once for a connection, whatever the order of the
\* close that closing() posted, the reserve timer and the read errors.
THEOREM ClosedOnce == Spec => []CloseOnce
<1>1. IInv => CloseOnce
  BY DEF IInv, TypeOK, CloseInv, CloseOnce
<1> QED BY <1>1, Invariance, PTL

\* The lobby's User lives exactly from onAccept to onClose.
THEOREM UserLives == Spec => []UserLifetime
<1>1. IInv => UserLifetime
  BY DEF IInv
<1> QED BY <1>1, Invariance, PTL

\* A failed read is retried only after a batch was dropped, and it has never a
\* queued dispatch to wait for: FIFO order put every dispatch in front of it.
THEOREM RetriesAreAfterDrops == Spec => []RetryOnlyAfterDrop
<1>1. ASSUME IInv PROVE RetryOnlyAfterDrop
  <2>1. retry > 0 => parsed < run
    BY <1>1 DEF IInv, CountInv
  <2>2. ASSUME Running("read") PROVE ~Queued("dispatch")
    <3>1. None(strand, "dispatch")
      BY <1>1, <2>2, TakeFacts DEF Running
    <3> QED BY <3>1 DEF None, Queued
  <2> QED BY <2>1, <2>2 DEF RetryOnlyAfterDrop
<1> QED BY <1>1, Invariance, PTL

\* The kernel never writes into a buffer that waits to be parsed, and there is
\* one reader.
THEOREM BuffersAreExclusive == Spec => []BufferExclusive
<1>1. ASSUME IInv PROVE BufferExclusive
  <2>1. reading => ~Queued("read")
    BY <1>1 DEF IInv, ReaderInv, None, Queued
  <2>2. ASSUME NEW i \in 1..Len(strand), strand[i].op = "dispatch"
        PROVE  strand[i].batch < msg
    <3>1. strand[i].batch \in (run + 1)..nread /\ run \in Nat /\ nread \in Nat
      BY <1>1, <2>2, BoundsAssumption DEF IInv, TypeOK, OrderInv, Window
    <3>2. msg = nread + 1
      BY <1>1, <3>1 DEF IInv, ReaderInv
    <3> QED BY <3>1, <3>2
  <2> QED BY <2>1, <2>2 DEF BufferExclusive
<1> QED BY <1>1, Invariance, PTL

\* An open connection keeps a reader, except on a socket that is down or after
\* closing() ran in start_accept's window.
THEOREM DeafnessIsTheRace == Spec => []DeafOnlyByRace
<1>1. ASSUME IInv PROVE DeafOnlyByRace
  <2>1. status = "open" => Started
    BY <1>1 DEF IInv, CloseInv
  <2>2. ~None(strand, "read") => Queued("read")
    BY DEF None, Queued
  <2> QED BY <1>1, <2>1, <2>2 DEF IInv, DeafInv, DeafOnlyByRace
<1> QED BY <1>1, Invariance, PTL

\* A reserved close runs down only on an open connection, whichever of
\* closing(), the reserved close and the posted close ends the session: the
\* property is inductive by itself, as each of them cancels the timers with the
\* change of _status and the lobby's handlers only run while it is open.
THEOREM ReservesEndWithTheSession == Spec => []ReservedOnlyWhileOpen
<1> USE DEF readVars, sendVars, timerVars, countVars, userVars, parseVars,
            ReservedOnlyWhileOpen
<1>1. Init => ReservedOnlyWhileOpen
  BY DEF Init
<1>2. ReservedOnlyWhileOpen /\ [Next]_vars => ReservedOnlyWhileOpen'
  <2> SUFFICES ASSUME ReservedOnlyWhileOpen, [Next]_vars
               PROVE  ReservedOnlyWhileOpen'
    OBVIOUS
  <2>1. CASE Acceptor
    BY <2>1 DEF Acceptor, Accepted, OnAccept, StartRead, StartOpen, StartRenew,
                RenewExpireTime
  <2>2. CASE ReadHandler \/ WriteHandler \/ ReadErrorRetry \/ ReadErrorClosing
    BY <2>2 DEF ReadHandler, WriteHandler, ReadErrorRetry, ReadErrorClosing, Closing,
                CancelTimers, RenewExpireTime
  <2>3. CASE DispatchDrop \/ DispatchThrows \/ TimerOnFreed
             \/ \E reserve \in BOOLEAN, sends \in 0..1 : DispatchParse(reserve, sends)
    BY <2>3 DEF DispatchDrop, DispatchThrows, TimerOnFreed, DispatchParse, CloseReserve,
                IsOpen
  <2>4. CASE OnExpireTime \/ OnCloseReserveTime \/ RunClose
    BY <2>4 DEF OnExpireTime, OnCloseReserveTime, RunClose, CloseSession, CancelTimers,
                CloseReserve, IsOpen
  <2>5. CASE Network \/ Completion \/ Send \/ UNCHANGED vars
    BY <2>5 DEF Network, Completion, Send, vars, PeerFin, GoDown, ReadCompletes,
                WriteCompletes, TimerFires, TimerQueues, CloseQueues
  <2> QED BY <2>1, <2>2, <2>3, <2>4, <2>5 DEF Next, Handler
<1> QED BY <1>1, <1>2, PTL DEF Spec

---------------------------------------------------------------------------
(* The connection implements Session.                                      *)

\* The phase of the session a connection's state stands for.
phaseBar ==
  IF acc \notin {"opened", "done"} THEN "idle"
  ELSE IF status = "close" THEN "closed" ELSE status

\* Steps that leave the phase and the last batch parsed alone are stutters.
LEMMA Stutters ==
  ASSUME UNCHANGED <<phaseBar, last>>
  PROVE  [S!Next]_(S!sessionVars)
BY DEF S!sessionVars, phaseBar

\* The acceptor opens the session once; it was never closed before that.
LEMMA AcceptorRefines ==
  ASSUME IInv, Acceptor
  PROVE  [S!Next]_(S!sessionVars)
<1> USE DEF readVars, sendVars, timerVars, countVars, userVars, parseVars
<1>1. CASE StartOpen
  BY <1>1 DEF StartOpen, S!Next, S!Open
<1>2. CASE Accepted \/ OnAccept \/ StartRead \/ StartRenew
  <2>1. UNCHANGED <<phaseBar, last>>
    BY <1>2 DEF Accepted, OnAccept, StartRead, StartRenew, phaseBar
  <2> QED BY <2>1, Stutters
<1> QED BY <1>1, <1>2 DEF Acceptor

\* closing() hangs an open session up, or is a stutter.
LEMMA ClosingRefines ==
  ASSUME IInv, NEW sd, Closing(sd), UNCHANGED <<acc, last>>
  PROVE  [S!Next]_(S!sessionVars)
<1>1. CASE tcp.up /\ IsOpen
  <2>1. status = "open" /\ status' = "closing" /\ Started
    BY <1>1 DEF Closing, IsOpen, IInv, CloseInv
  <2> QED BY <2>1 DEF Started, S!Next, S!Hang
<1>2. CASE ~(tcp.up /\ IsOpen)
  <2>1. UNCHANGED <<phaseBar, last>>
    BY <1>2 DEF Closing, phaseBar
  <2> QED BY <2>1, Stutters
<1> QED BY <1>1, <1>2

\* A handler hands the next batch over, hangs up, closes, or is a stutter.
LEMMA HandlerRefines ==
  ASSUME IInv, IInv', Handler
  PROVE  [S!Next]_(S!sessionVars)
<1> USE DEF readVars, sendVars, timerVars, countVars, userVars, parseVars
<1>1. CASE \/ ReadHandler \/ ReadErrorRetry \/ DispatchDrop \/ DispatchThrows
          \/ TimerOnFreed \/ OnExpireTime
  <2>1. UNCHANGED <<phaseBar, last>>
    BY <1>1 DEF ReadHandler, ReadErrorRetry, DispatchDrop, DispatchThrows, TimerOnFreed,
                OnExpireTime, phaseBar
  <2> QED BY <2>1, Stutters
<1>2. CASE ReadErrorClosing
  BY <1>2, ClosingRefines DEF ReadErrorClosing
<1>3. CASE WriteHandler
  <2>1. CASE Head(strand).ec = "ok"
    <3>1. UNCHANGED <<phaseBar, last>>
      BY <1>3, <2>1 DEF WriteHandler, phaseBar
    <3> QED BY <3>1, Stutters
  <2>2. CASE Head(strand).ec # "ok"
    BY <1>3, <2>2, ClosingRefines DEF WriteHandler
  <2> QED BY <2>1, <2>2
<1>4. ASSUME NEW reserve \in BOOLEAN, NEW sends \in 0..1, DispatchParse(reserve, sends)
      PROVE  [S!Next]_(S!sessionVars)
  <2>1. status = "open" /\ Started /\ UNCHANGED <<acc, status>>
    BY <1>4 DEF DispatchParse, IsOpen, IInv, CloseInv
  <2>2. last' = run + 1
    BY <1>4, TakeFacts DEF DispatchParse, Running
  <2>3. last \in Nat /\ run \in Nat /\ last <= run /\ (last # 0 => last = run)
    BY <2>1, BoundsAssumption DEF IInv, TypeOK, CountInv
  <2> QED BY <2>1, <2>2, <2>3 DEF Started, S!Next, S!Deliver
<1>5. CASE OnCloseReserveTime \/ RunClose
  <2>1. UNCHANGED <<acc, last>>
    BY <1>5 DEF OnCloseReserveTime, RunClose
  <2>2. CASE UNCHANGED status
    BY <2>1, <2>2, Stutters DEF phaseBar
  <2>3. CASE status' # status
    <3>1. status' = "close" /\ status \in {"open", "closing"}
      BY <1>5, <2>3 DEF OnCloseReserveTime, RunClose, CloseSession, IInv, TypeOK
    <3>2. Started
      BY <3>1 DEF IInv, CloseInv
    <3> QED BY <2>1, <3>1, <3>2 DEF Started, S!Next, S!Close
  <2> QED BY <2>2, <2>3
<1> QED BY <1>1, <1>2, <1>3, <1>4, <1>5 DEF Handler

\* Every step of a connection is a step of the session or a stutter.
LEMMA StepRefines ==
  ASSUME IInv, IInv', [Next]_vars
  PROVE  [S!Next]_(S!sessionVars)
<1> USE DEF readVars, sendVars, timerVars, countVars, userVars, parseVars
<1>1. CASE Network \/ Completion \/ Send \/ UNCHANGED vars
  <2>1. UNCHANGED <<acc, status, last>>
    BY <1>1 DEF Network, Completion, Send, vars, PeerFin, GoDown, ReadCompletes,
       WriteCompletes, TimerFires, TimerQueues, CloseQueues
  <2> QED BY <2>1, Stutters DEF phaseBar
<1> QED BY <1>1, AcceptorRefines, HandlerRefines DEF Next

\* The connection implements the session the lobby relies on (Session.tla): the
\* phases follow one another once, and the batches reach the parser in order,
\* with nothing missing between the first and the last.
THEOREM Refinement == Spec => ImplementsSession
<1>1. Init => S!Init
  BY DEF Init, S!Init
<1>2. IInv /\ IInv' /\ [Next]_vars => [S!Next]_(S!sessionVars)
  BY StepRefines
<1> QED BY <1>1, <1>2, Invariance, PTL DEF Spec, ImplementsSession, S!SessionSpec
=============================================================================
