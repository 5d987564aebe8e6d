--------------------------- MODULE MessageBuffer ---------------------------
(***************************************************************************)
(* net/messageBuffer.cpp: a flat array with a read and a write position.    *)
(* Bytes are numbered in the order they are written, so that a byte that is *)
(* lost, repeated or overtaken shows.  The memory behind the array is part  *)
(* of the model: what a write past the end would hit.                      *)
(***************************************************************************)
EXTENDS Naturals, Sequences

CONSTANTS
  Capacity,   \* MAX_BUFFER_SIZE
  MaxBytes,   \* bound on the bytes written in a behaviour
  AnyOrder    \* FALSE: only the calls this program makes

VARIABLES
  mem,      \* the array and what lies behind it
  rd, wr,   \* _read - _buffer and _write - _buffer
  nbytes,   \* bytes written so far
  unread    \* what a reader is owed: the numbers of the unread bytes

vars == <<mem, rd, wr, nbytes, unread>>

Size            == wr - rd
Readable(count) == rd + count <= wr
RemainWriteSize == Capacity - wr

\* Mutant of arrange: the positions move, the bytes do not.
ArrangePositions == [mem |-> mem, rd |-> 0, wr |-> Size]
Arrange ==
  [mem |-> [i \in DOMAIN mem |-> IF i < Size THEN mem[rd + i] ELSE mem[i]],
   rd |-> 0, wr |-> Size]

\* write(src, count) and write(count): refuses what exceeds the capacity.  The
\* program writes only to buffers that have not been read from: read_handler
\* and the parsers fill a new one, sendPacket puts a body behind the header.
WriteAllowed(count) ==
  /\ nbytes + count <= MaxBytes
  /\ ~(Capacity < Size + count)
  /\ AnyOrder \/ rd = 0

Write(count) ==
  /\ WriteAllowed(count)
  /\ mem' = [i \in DOMAIN mem |->
               IF i \in wr..(wr + count - 1) THEN nbytes + 1 + (i - wr)
               ELSE mem[i]]
  /\ wr' = wr + count
  /\ nbytes' = nbytes + count
  /\ unread' = unread \o [i \in 1..count |-> nbytes + i]
  /\ UNCHANGED rd

\* read(dst, count) and read(count): the room for writing is kept above two
\* thirds by moving the unread bytes to the front.
Read(count) ==
  /\ Readable(count)
  /\ LET b == IF RemainWriteSize < (Capacity \div 3) * 2 THEN Arrange
              ELSE [mem |-> mem, rd |-> rd, wr |-> wr]
     IN /\ mem' = b.mem
        /\ rd' = b.rd + count
        /\ wr' = b.wr
  /\ unread' = SubSeq(unread, count + 1, Len(unread))
  /\ UNCHANGED nbytes

\* readAll and clear.
ReadAll ==
  /\ rd' = 0 /\ wr' = 0
  /\ unread' = <<>>
  /\ UNCHANGED <<mem, nbytes>>

\* The copy constructor, seen from a holder that goes on with the copy: as many
\* bytes as are unread, but from the start of the array.  Nothing in this
\* program copies a buffer; only one that has not been read from is copied right.
Copy ==
  /\ AnyOrder \/ rd = 0
  /\ mem' = [i \in DOMAIN mem |-> IF i < Size THEN mem[i] ELSE 0]
  /\ rd' = 0 /\ wr' = Size
  /\ UNCHANGED <<nbytes, unread>>

Init ==
  /\ mem = [i \in 0..(2 * Capacity) |-> 0]
  /\ rd = 0 /\ wr = 0
  /\ nbytes = 0
  /\ unread = <<>>

Next ==
  \/ \E count \in 0..Capacity : Write(count) \/ Read(count)
  \/ ReadAll
  \/ Copy

Spec == Init /\ [][Next]_vars

---------------------------------------------------------------------------
\* read returns the bytes that were written, in order and once, however often
\* arrange has moved them.
FirstInFirstOut ==
  /\ Len(unread) = Size
  /\ \A i \in 1..Len(unread) : mem[rd + i - 1] = unread[i]

\* The guard of write, "buffer overrun in MessageBuffer", keeps every write
\* inside the array.
NoOverrun == wr <= Capacity
=============================================================================
