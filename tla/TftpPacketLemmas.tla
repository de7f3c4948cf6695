------------------------- MODULE TftpPacketLemmas -------------------------
(***************************************************************************)
(* Facts about 16-bit block numbers that wrap, for every BlockMod: two     *)
(* chunks less than a full cycle apart have different block numbers, and   *)
(* incrementing or decrementing the wire number is the same as taking the  *)
(* number of the next or the previous chunk.                               *)
(***************************************************************************)
EXTENDS TftpPackets, TLAPS

(* Dividing by BlockMod: the quotient and remainder that Wire stands for. *)
LEMMA WireDivides ==
  ASSUME NEW i \in Nat
  PROVE  /\ Wire(i) \in BlockNumber
         /\ i \div BlockMod \in Nat
         /\ i = BlockMod * (i \div BlockMod) + Wire(i)
  BY PacketAssumption DEF Wire, BlockNumber

LEMMA WireTyped == \A i \in Nat : Wire(i) \in BlockNumber
  BY WireDivides

(* Conversely, whatever has that form has that remainder. *)
LEMMA WireOfSum ==
  ASSUME NEW q \in Nat, NEW r \in BlockNumber
  PROVE  Wire(BlockMod * q + r) = r
  BY PacketAssumption DEF Wire, BlockNumber

(* Equal block numbers less than a cycle apart name the same chunk. *)
LEMMA WireInjective ==
  ASSUME NEW a \in Nat, NEW b \in Nat, a <= b, b - a < BlockMod, Wire(a) = Wire(b)
  PROVE  a = b
<1> DEFINE x == a \div BlockMod
           y == b \div BlockMod
<1>1. /\ x \in Nat /\ y \in Nat
      /\ a = BlockMod * x + Wire(a)
      /\ b = BlockMod * y + Wire(a)
  BY WireDivides
<1> HIDE DEF x, y
<1>2. BlockMod \in Nat /\ Wire(a) \in Nat
  BY PacketAssumption, WireDivides DEF BlockNumber
<1>3. CASE y = x
  BY <1>1, <1>2, <1>3
<1>4. CASE y > x
  <2>1. y >= x + 1
    BY <1>1, <1>4
  <2>2. BlockMod * y >= BlockMod * (x + 1)
    BY <1>1, <1>2, <2>1
  <2>3. BlockMod * (x + 1) = BlockMod * x + BlockMod
    BY <1>1, <1>2
  <2> QED
    BY <1>1, <1>2, <2>2, <2>3
<1>5. CASE y < x
  <2>1. BlockMod * y <= BlockMod * x
    BY <1>1, <1>2, <1>5
  <2> QED
    BY <1>1, <1>2, <2>1
<1> QED
  BY <1>1, <1>3, <1>4, <1>5

(* block_number++ moves to the number of the next chunk. *)
LEMMA NextBlockIsWire ==
  ASSUME NEW i \in Nat
  PROVE  NextBlock(Wire(i)) = Wire(i + 1)
<1> DEFINE x == i \div BlockMod
<1>1. x \in Nat /\ i = BlockMod * x + Wire(i) /\ Wire(i) \in BlockNumber
  BY WireDivides
<1> HIDE DEF x
<1>2. BlockMod \in Nat /\ BlockMod > 1
  BY PacketAssumption
<1>3. CASE Wire(i) + 1 < BlockMod
  <2>1. Wire(i) + 1 \in BlockNumber
    BY <1>1, <1>2, <1>3 DEF BlockNumber
  <2>2. i + 1 = BlockMod * x + (Wire(i) + 1)
    BY <1>1, <1>2 DEF BlockNumber
  <2>3. Wire(i + 1) = Wire(i) + 1
    BY <1>1, <2>1, <2>2, WireOfSum
  <2>4. (Wire(i) + 1) % BlockMod = Wire(i) + 1
    BY <1>2, <2>1 DEF BlockNumber
  <2> QED
    BY <2>3, <2>4 DEF NextBlock
<1>4. CASE Wire(i) + 1 = BlockMod
  <2>1. 0 \in BlockNumber /\ x + 1 \in Nat
    BY <1>1, <1>2 DEF BlockNumber
  <2>2. i + 1 = BlockMod * (x + 1) + 0
    BY <1>1, <1>2, <1>4 DEF BlockNumber
  <2>3. Wire(i + 1) = 0
    BY <2>1, <2>2, WireOfSum
  <2>4. BlockMod % BlockMod = 0
    BY <1>2
  <2> QED
    BY <1>4, <2>3, <2>4 DEF NextBlock
<1> QED
  BY <1>1, <1>2, <1>3, <1>4 DEF BlockNumber

(* block_number - 1, cut to 16 bits, is the number of the previous chunk. *)
LEMMA PrevBlockIsWire ==
  ASSUME NEW i \in Nat
  PROVE  PrevBlock(Wire(i + 1)) = Wire(i)
<1> DEFINE x == i \div BlockMod
<1>1. x \in Nat /\ i = BlockMod * x + Wire(i) /\ Wire(i) \in BlockNumber
  BY WireDivides
<1> HIDE DEF x
<1>2. BlockMod \in Nat /\ BlockMod > 1
  BY PacketAssumption
<1>3. CASE Wire(i) + 1 < BlockMod
  <2>1. Wire(i) + 1 \in BlockNumber
    BY <1>1, <1>2, <1>3 DEF BlockNumber
  <2>2. i + 1 = BlockMod * x + (Wire(i) + 1)
    BY <1>1, <1>2 DEF BlockNumber
  <2>3. Wire(i + 1) = Wire(i) + 1
    BY <1>1, <2>1, <2>2, WireOfSum
  <2>4. PrevBlock(Wire(i + 1)) = (BlockMod * 1 + Wire(i)) % BlockMod
    BY <1>1, <1>2, <2>3 DEF PrevBlock, BlockNumber
  <2> QED
    BY <1>1, <2>4, WireOfSum DEF Wire
<1>4. CASE Wire(i) + 1 = BlockMod
  <2>1. 0 \in BlockNumber /\ x + 1 \in Nat
    BY <1>1, <1>2 DEF BlockNumber
  <2>2. i + 1 = BlockMod * (x + 1) + 0
    BY <1>1, <1>2, <1>4 DEF BlockNumber
  <2>3. Wire(i + 1) = 0
    BY <2>1, <2>2, WireOfSum
  <2>4. (BlockMod - 1) % BlockMod = BlockMod - 1
    BY <1>2
  <2> QED
    BY <1>1, <1>2, <1>4, <2>3, <2>4 DEF PrevBlock, BlockNumber
<1> QED
  BY <1>1, <1>2, <1>3, <1>4 DEF BlockNumber

(* Without a wrap the wire number is the chunk's own number. *)
LEMMA WireSmall ==
  ASSUME NEW i \in Nat, i < BlockMod
  PROVE  Wire(i) = i
  BY PacketAssumption DEF Wire

(* The datagrams the handlers build are well formed. *)
LEMMA PacketsTyped ==
  /\ Error \in Packet /\ Error.op = "ERROR"
  /\ \A i \in 0 .. NumBlocks : Data(i) \in Packet
  /\ \A b \in BlockNumber, i \in 0 .. NumBlocks : Ack(b, i) \in Packet
<1>1. 0 \in BlockNumber /\ 0 \in 0 .. NumBlocks
  BY PacketAssumption DEF BlockNumber
<1>2. \A i \in 0 .. NumBlocks : Wire(i) \in BlockNumber
  BY WireTyped, PacketAssumption
<1> QED
  BY <1>1, <1>2 DEF Error, Data, Ack, Packet

=============================================================================
