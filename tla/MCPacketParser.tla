--------------------------- MODULE MCPacketParser ---------------------------
(***************************************************************************)
(* PacketParser with the program's parsers: those the lobby is built with,  *)
(* whose keys carry no marks, and those that check the marks.  Beside them  *)
(* the message buffer (MessageBuffer) that brings them their batches, under *)
(* the calls this program makes.  How the buffer is used does not depend on *)
(* what the bytes mean: it moves beside a parser with nothing to read.      *)
(***************************************************************************)
EXTENDS PacketParser

CONSTANTS Capacity, MaxBytes   \* of MessageBuffer

ASSUME BufferAssumption == Capacity \in Nat \ {0} /\ MaxBytes \in Nat

VARIABLES mem, rd, wr, nbytes, unread

B == INSTANCE MessageBuffer WITH AnyOrder <- FALSE

MCUnmarked == {packetParser_notUseEncTest, packetParser_brokerTest}
MCMarked   == {packetParser_notUseEnc, packetParser_broker, packetParser_xor,
               packetParser, simple_packetParser, simple_packetParser_notUseEnc}
MCParsers  == MCUnmarked \cup MCMarked

\* PT_JSON without and with a sequence number, PT_HEARTBEAT as it is declared
\* and filled up to an int32_t, and PT_AUTHKEY_REQ, which only registered
\* handlers may know.
MCParts ==
  {[code |-> PT_JSON, more |-> 0, size |-> 2],
   [code |-> PT_JSON, more |-> 1, size |-> 3],
   [code |-> PT_HEARTBEAT, more |-> 0, size |-> 1],
   [code |-> PT_HEARTBEAT, more |-> 0, size |-> 2],
   [code |-> 5, more |-> 0, size |-> 2]}

bufferVars == <<mem, rd, wr, nbytes, unread>>
allVars    == <<vars, bufferVars>>

NothingToRead == parser = packetParser_notUseEncTest /\ Batch = <<>>

Parser == Next /\ UNCHANGED bufferVars
Buffer == NothingToRead /\ B!Next /\ UNCHANGED vars

MCInit == Init /\ B!Init
MCNext == Parser \/ Buffer
MCSpec == MCInit /\ [][MCNext]_allVars

\* The fairness of PacketParser.
MCFairSpec == MCSpec /\ WF_vars(Next)

----------------------------------------------------------------------------
(* What the run checks, beside the properties of PacketParser. *)

\* read returns the bytes that were written, in order and once, however often
\* arrange has moved them (MessageBuffer).
FirstInFirstOut == B!FirstInFirstOut
=============================================================================
