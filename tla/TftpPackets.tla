---------------------------- MODULE TftpPackets ----------------------------
(***************************************************************************)
(* The datagrams of one TFTP transfer (hw1/tftp_server.c) as the read and  *)
(* write handlers and their clients see them.  A packet keeps the fields   *)
(* the code branches on, the opcode and the 16-bit block number, plus      *)
(* "seq": for DATA the payload, that is which 512-byte chunk of the file   *)
(* it carries; for ACK the chunk the sender meant.  No handler reads the   *)
(* seq of an ACK.                                                          *)
(***************************************************************************)
EXTENDS Naturals, Sequences

CONSTANTS
  NumBlocks,  \* DATA packets in the whole file; the last one is short
  BlockMod,   \* number of distinct block numbers, 2^16 in the code
  MaxLife     \* a datagram older than this many blocks is never delivered

ASSUME PacketAssumption ==
  /\ NumBlocks \in Nat \ {0}
  /\ BlockMod \in Nat /\ BlockMod > 1
  /\ MaxLife \in Nat /\ MaxLife <= BlockMod

(* Block numbers are uint16_t: they wrap. *)
Wire(i) == i % BlockMod
BlockNumber == 0 .. (BlockMod - 1)
NextBlock(b) == (b + 1) % BlockMod
PrevBlock(b) == (b + (BlockMod - 1)) % BlockMod

Packet == [op : {"DATA", "ACK", "ERROR"}, block : BlockNumber, seq : 0 .. NumBlocks]

Data(i) == [op |-> "DATA", block |-> Wire(i), seq |-> i]
Ack(b, i) == [op |-> "ACK", block |-> b, seq |-> i]
Error == [op |-> "ERROR", block |-> 0, seq |-> 0]

(* Fewer than DATA_SIZE bytes of payload: the last packet of the file. *)
Short(m) == m.seq = NumBlocks

(* UDP may lose, duplicate and reorder, but a datagram does not outlive    *)
(* the exchange of MaxLife further blocks.                                 *)
Fresh(m, current) == m.op = "ERROR" \/ current < m.seq + MaxLife
=============================================================================
