---------------------------- MODULE PacketParser ----------------------------
(***************************************************************************)
(* The packet parsers: lobbysvr/packetParserJson.cpp and                   *)
(* net/packetParserSimple.cpp.  All eight run the same loop over a batch    *)
(* and differ in whether the keys carry a mark, in how many bytes of a body  *)
(* they read as its code, in decryption and in which codes they know; a     *)
(* parser is a record of those differences.                                *)
(*                                                                         *)
(* A batch is a sequence of cells.  A packet is a main key, then one or     *)
(* more parts; a part is a part key and its body.  A key is a cell, whose   *)
(* number is the length that follows it.  Of a body the first cell is the   *)
(* code byte (TyPacketCode), the second the three bytes behind it, and each *)
(* further one is four bytes; a body of one cell is one too short for an    *)
(* int32_t.  Cuts inside a cell, and bodies that look like keys, are left   *)
(* out.                                                                    *)
(***************************************************************************)
EXTENDS Integers, SequencesExt

CONSTANTS
  Parsers,      \* the parsers under check
  Registered,   \* codes with a handler in the message procedure's tables
  Parts,        \* the parts peers send: code byte, the number in the three
                \* bytes behind it, and the size of the body in cells
  MaxParts,     \* most parts in a packet
  MaxPackets,   \* most whole packets in a batch
  Word          \* total_size is kept modulo this (2^32 in the code)

ASSUME BoundsAssumption ==
  /\ MaxParts \in Nat /\ MaxPackets \in Nat
  /\ Parts \subseteq [code : 1..255, more : Nat, size : Nat \ {0}]

\* Codes are the packet_value of lobby_protocol.h: they fit the byte.
ASSUME KnownAssumption ==
  \A q \in Parsers : q.wide \in BOOLEAN /\ q.known \subseteq 1..255

PT_JSON      == 1
PT_HEARTBEAT == 3

packetParser_notUseEncTest ==
  [marked |-> FALSE, wide |-> FALSE, cipher |-> FALSE,
   known |-> {PT_JSON, PT_HEARTBEAT}]
packetParser_brokerTest ==
  [marked |-> FALSE, wide |-> TRUE, cipher |-> FALSE, known |-> {PT_JSON}]
packetParser_notUseEnc ==
  [marked |-> TRUE, wide |-> TRUE, cipher |-> FALSE,
   known |-> {PT_JSON, PT_HEARTBEAT}]
packetParser_broker ==
  [marked |-> TRUE, wide |-> TRUE, cipher |-> FALSE, known |-> {PT_JSON}]
\* The five passes over the body undo the client's: the code comes out plain.
packetParser_xor ==
  [marked |-> TRUE, wide |-> TRUE, cipher |-> FALSE,
   known |-> {PT_JSON, PT_HEARTBEAT}]
\* Without a cipher handler this is simple_packetParser_notUseEnc.
packetParser ==
  [marked |-> TRUE, wide |-> TRUE, cipher |-> TRUE, known |-> Registered]
simple_packetParser ==
  [marked |-> TRUE, wide |-> TRUE, cipher |-> TRUE, known |-> Registered]
simple_packetParser_notUseEnc ==
  [marked |-> TRUE, wide |-> TRUE, cipher |-> FALSE, known |-> Registered]

---------------------------------------------------------------------------
(* The batches.                                                            *)

Cell(mark, number) == [mark |-> mark, number |-> number]

Packets == UNION {[1..n -> Parts] : n \in 1..MaxParts}

PartCells(p) ==
  <<Cell("part", p.size), Cell("body", p.code)>>
    \o [i \in 1..(p.size - 1) |-> Cell("body", p.more)]

\* facilitate writes both keys of a packet of one part; clients may send more
\* parts under a main key.
Frame(packet) ==
  LET parts == FlattenSeq([i \in DOMAIN packet |-> PartCells(packet[i])])
  IN <<Cell("main", Len(parts))>> \o parts

\* A packet lies in one message buffer, whose capacity is far below 2^32: the
\* size of any packet fits total_size.
ASSUME WordAssumption ==
  Word \in Nat /\ \A packet \in Packets : Len(Frame(packet)) < Word

\* The start of a packet whose rest is in the next read, and the rest of one
\* whose start was in the read before.
Starts(packet) == {SubSeq(Frame(packet), 1, n) : n \in 0..(Len(Frame(packet)) - 1)}
Ends(packet) ==
  {SubSeq(Frame(packet), n, Len(Frame(packet))) : n \in 2..Len(Frame(packet))}

\* Fragments are never looked into for their codes: one code will do.
CutPackets == {p \in Packets : \A i \in DOMAIN p : p[i].code = PT_JSON /\ p[i].more = 0}

VARIABLES
  parser,     \* the parser at work
  keyed,      \* the key exchange was done in an earlier batch
  lead,       \* the rest of a packet that started in the batch before
  packets,    \* the whole packets in the batch
  fragment,   \* cells of the incomplete packet behind them
  rest,       \* cells of the message buffer not yet read
  fromMain,   \* readStartFromMainKey
  total,      \* total_size
  synced,     \* isSyncEncryptionKey
  exchanges,  \* parts of this batch taken for the key exchange
  handled,    \* codes given to their handlers
  unknown,    \* calls of noHandler
  result      \* "", or how the parser ended: "true", "false", "threw" or
              \* "undecrypted" (it returns true then as well)

input == <<parser, keyed, lead, packets, fragment>>
vars  == <<input, rest, fromMain, total, synced, exchanges, handled, unknown,
           result>>

Batch ==
  lead \o FlattenSeq([i \in DOMAIN packets |-> Frame(packets[i])]) \o fragment

---------------------------------------------------------------------------
(* One turn of the loop, in the order of the code.                         *)

KeyCells    == 1
HeaderCells == 2

Readable(cells, n) == n <= Len(cells)
After(cells, n)    == SubSeq(cells, n + 1, Len(cells))

\* Mutant: continue where the code returns.
ContinueInstead(r) == UNCHANGED vars

Return(r) ==
  /\ result' = r
  /\ rest' = IF r = "false" THEN <<>> ELSE rest     \* readAll
  /\ UNCHANGED <<input, fromMain, total, synced, exchanges, handled, unknown>>

Marked(cell, mark) == parser.marked => cell.mark = mark

\* Mutant: the number of a packet's cells without its main key.
MainSizeShort(cell) == cell.number

\* What the main key announces, with the key itself.
MainSize(cell) == cell.number + KeyCells

\* Start of a packet: there is no header, or it is no header, or the packet is
\* not here to its end.
StopsAtMain ==
  /\ fromMain
  /\ \/ /\ ~Readable(rest, HeaderCells)
        /\ Return("true")
     \/ /\ Readable(rest, HeaderCells) /\ ~Marked(rest[1], "main")
        /\ Return("false")
     \/ /\ Readable(rest, HeaderCells) /\ Marked(rest[1], "main")
        /\ ~Readable(rest, MainSize(rest[1]))
        /\ Return("true")

PacketHere ==
  /\ Readable(rest, HeaderCells)
  /\ Marked(rest[1], "main")
  /\ Readable(rest, MainSize(rest[1]))

\* The cells from the part key on, and what is left of the announced size.
AtPart    == IF fromMain THEN After(rest, KeyCells) ELSE rest
TotalHere == IF fromMain THEN MainSize(rest[1]) ELSE total

\* The part key cannot be read, has no mark, or announces more than there is.
StopsAtPart ==
  /\ fromMain => PacketHere
  /\ \/ /\ ~Readable(AtPart, KeyCells)
        /\ Return("threw")
     \/ /\ Readable(AtPart, KeyCells)
        /\ \/ ~Marked(AtPart[1], "part")
           \/ ~Readable(After(AtPart, KeyCells), AtPart[1].number)
        /\ Return("false")

PartHere ==
  /\ fromMain => PacketHere
  /\ Readable(AtPart, KeyCells)
  /\ Marked(AtPart[1], "part")
  /\ Readable(After(AtPart, KeyCells), AtPart[1].number)

\* Mutant: waits for a remainder that never comes.
RestartsAtZero(size) == size = 0

\* The next turn starts a packet when only the main key's own size is left.
RestartsAt(size) == size = KeyCells

TakePart ==
  LET left == (TotalHere - (AtPart[1].number + KeyCells)) % Word IN
  /\ PartHere
  /\ rest' = After(AtPart, KeyCells + AtPart[1].number)
  /\ total' = left
  /\ fromMain' = RestartsAt(left)

Byte == 256

\* Mutant: every parser reads the code as a byte.
PacketCodeByte == IF AtPart[1].number = 0 THEN 0 ELSE AtPart[2].number

\* The code is a uint8_t in packetParser_notUseEncTest and an int32_t in the
\* others, which read the three bytes behind the code byte with it; it stays 0
\* when the body is too short.
PacketCode ==
  IF parser.wide
  THEN IF AtPart[1].number < 2 THEN 0 ELSE AtPart[2].number + Byte * AtPart[3].number
  ELSE IF AtPart[1].number = 0 THEN 0 ELSE AtPart[2].number

Plain == ~parser.cipher \/ synced

\* A body is handed to the handler of its code ...
Handle ==
  /\ Plain /\ TakePart
  /\ PacketCode \in parser.known
  /\ handled' = Append(handled, PacketCode)
  /\ UNCHANGED <<input, synced, exchanges, unknown, result>>

\* ... or noHandler is called and the batch given up.
NoHandler ==
  /\ Plain /\ PartHere
  /\ PacketCode \notin parser.known
  /\ unknown' = unknown + 1
  /\ rest' = <<>>
  /\ result' = "false"
  /\ UNCHANGED <<input, fromMain, total, synced, exchanges, handled>>

\* With a cipher every part is a key exchange until the init handler, which may
\* fail, marks the connection as synchronised; it is consumed without another
\* handler being called.
CipherInit ==
  /\ ~Plain
  /\ \/ /\ TakePart
        /\ synced' \in BOOLEAN
        /\ exchanges' = exchanges + 1
        /\ UNCHANGED <<input, handled, unknown, result>>
     \/ /\ PartHere
        /\ Return("false")

\* A body that decrypts to nothing ends the batch, what follows it included.
DecryptFails ==
  /\ parser.cipher /\ synced /\ TakePart
  /\ result' = "undecrypted"
  /\ UNCHANGED <<input, synced, exchanges, handled, unknown>>

\* Each read starts with a new buffer, so a batch starts wherever the one
\* before ended.
Init ==
  /\ parser \in Parsers
  /\ packets \in SeqOf(Packets, MaxPackets)
  /\ \/ /\ lead = <<>>
        /\ fragment \in UNION {Starts(p) : p \in CutPackets}
     \/ /\ lead \in UNION {Ends(p) : p \in CutPackets}
        /\ fragment = <<>>
  /\ rest = Batch
  /\ fromMain = TRUE
  /\ total = 0
  /\ keyed \in {FALSE, parser.cipher}
  /\ synced = keyed
  /\ exchanges = 0
  /\ handled = <<>>
  /\ unknown = 0
  /\ result = ""

Next ==
  /\ result = ""
  /\ \/ StopsAtMain
     \/ StopsAtPart
     \/ Handle
     \/ NoHandler
     \/ CipherInit
     \/ DecryptFails

Spec == Init /\ [][Next]_vars

\* The parser is a function that runs to its end in the strand's handler.
FairSpec == Spec /\ WF_vars(Next)

---------------------------------------------------------------------------
(* What the parser should do, said of the packets and not of their cells.  *)

AllParts == FlattenSeq(packets)

\* The parts that are not the key exchange.
Owed == SubSeq(AllParts, exchanges + 1, Len(AllParts))

\* What a parser takes for a code it knows.  Where it reads an int32_t that is
\* not a body of the code byte alone (PT_HEARTBEAT as lobby_protocol.h has it),
\* nor one with other bytes than zeros behind it (PT_JSON with a sequenceNo).
Understood(part) ==
  /\ part.code \in parser.known
  /\ parser.wide => part.size > 1 /\ part.more = 0

\* A batch made of whole packets and a fragment has every part of every whole
\* packet handled under its code, in order and once, up to the first part that
\* the parser does not understand; the fragment stays unread.  (A batch given
\* up in the key exchange or by the decryption excepted.)
ParsesWholePackets ==
  result # "" /\ lead = <<>> =>
    /\ Len(handled) <= Len(Owed)
    /\ \A i \in DOMAIN handled : Understood(Owed[i]) /\ handled[i] = Owed[i].code
    /\ result = "true" => Len(handled) = Len(Owed) /\ rest = fragment /\ unknown = 0
    /\ result = "false" =>
         IF unknown = 0 THEN parser.cipher /\ handled = <<>>
         ELSE Len(handled) < Len(Owed) /\ ~Understood(Owed[Len(handled) + 1])

\* No cut of a stream of well-formed packets makes a read throw out of the
\* handler, provided the keys carry marks or the batch starts with a packet.
NeverThrows == parser.marked \/ lead = <<>> => result # "threw"

\* The do-while(true) loop ends.
ParserEnds == <>(result # "")
=============================================================================
