-------------------------- MODULE TftpWriteProofs --------------------------
(***************************************************************************)
(* What TftpWrite guarantees for every file length, retry limit, number of *)
(* duplicates and width of the block number.                               *)
(*                                                                         *)
(* The argument: every DATA packet in flight carries a chunk the client    *)
(* has already sent, every ACK in flight names a chunk already stored, and *)
(* the two sides are at most one chunk apart.  A datagram that is still    *)
(* alive is therefore less than a cycle of block numbers away from the one *)
(* expected, so an equal block number means the same chunk.                *)
(***************************************************************************)
EXTENDS TftpWrite, TftpPacketLemmas

Waiting == spc \in {"armed", "recv"}

(* DATA in flight to the child was sent by the client and says so truly. *)
DataGenuine ==
  \A m \in toServer : m.op = "DATA" =>
    /\ m.seq \in 1 .. cseq
    /\ m.block = Wire(m.seq)

(* An ACK in flight to the client is for a chunk that is in the file. *)
AckGenuine ==
  \A m \in toClient : m.op = "ACK" =>
    /\ m.seq <= Len(file)
    /\ m.block = Wire(m.seq)

(* The two sides are in step: the client has sent what is stored and at    *)
(* most one chunk more.                                                    *)
LockStep == Len(file) <= cseq /\ cseq <= Len(file) + 1

(* What a child that is still waiting for DATA knows. *)
WaitingState ==
  Waiting => /\ block_number = Wire(Len(file) + 1)
             /\ Len(file) < NumBlocks
             /\ retransmit_count < MaxRetries
             /\ disk = "upload" /\ outcome = "none"

StartState ==
  spc = "start" => file = << >> /\ outcome = "none" /\ retransmit_count = 0

(* Once the last chunk is stored the child has returned and the file stays. *)
WholeState == Len(file) = NumBlocks => spc = "done" /\ disk = "upload"

ClientDone == cpc = "done" => Len(file) = NumBlocks

UploadInv ==
  /\ UploadTypeOK
  /\ PrefixWritten
  /\ DataGenuine /\ AckGenuine
  /\ LockStep
  /\ WaitingState /\ StartState /\ WholeState
  /\ CompleteIsWhole /\ ClientDone

-----------------------------------------------------------------------------
LEMMA UploadInvInit == UploadInit => UploadInv
<1> SUFFICES ASSUME UploadInit PROVE UploadInv
  OBVIOUS
<1> USE DEF UploadInit
<1>1. file = << >> /\ Len(file) = 0 /\ cseq = 0 /\ NumBlocks \in Nat \ {0}
  BY PacketAssumption
<1>2. UploadTypeOK
  <2>1. file \in Seq(1 .. NumBlocks)
    BY <1>1
  <2>2. 0 \in BlockNumber
    BY PacketAssumption DEF BlockNumber
  <2>3. retransmit_count \in 0 .. MaxRetries /\ ctries \in 0 .. ClientRetries /\ dups \in 0 .. MaxDups
    BY WriteAssumption
  <2>4. cseq \in 0 .. NumBlocks /\ toServer \subseteq Packet /\ toClient \subseteq Packet
    BY <1>1
  <2> QED
    BY <2>1, <2>2, <2>3, <2>4 DEF UploadTypeOK, Outcomes
<1>3. PrefixWritten
  BY <1>1 DEF PrefixWritten
<1>4. DataGenuine /\ AckGenuine
  BY DEF DataGenuine, AckGenuine
<1>5. LockStep /\ WaitingState /\ StartState /\ WholeState
  BY <1>1 DEF LockStep, WaitingState, Waiting, StartState, WholeState
<1>6. CompleteIsWhole /\ ClientDone
  BY DEF CompleteIsWhole, ClientDone
<1> QED
  BY <1>2, <1>3, <1>4, <1>5, <1>6 DEF UploadInv

(* A DATA packet the child receives is either the chunk it waits for or    *)
(* one it has stored, and its block number tells which.                    *)
LEMMA ReceivedData ==
  ASSUME UploadInv, NEW m, TakeDatagram(m), m.op = "DATA"
  PROVE  /\ m \in Packet
         /\ Len(file) \in Nat
         /\ m.seq \in 1 .. Len(file) + 1
         /\ m.block = Wire(m.seq)
         /\ m.block = block_number => m.seq = Len(file) + 1
         /\ m.seq = Len(file) + 1 => m.block = block_number
<1>1. m \in toServer /\ m \in Packet /\ spc = "recv" /\ Len(file) + 1 < m.seq + MaxLife
  BY DEF TakeDatagram, Fresh, UploadInv, UploadTypeOK
<1>2. Len(file) \in Nat /\ cseq \in Nat
  BY DEF UploadInv, UploadTypeOK
<1>3. m.seq \in 1 .. cseq /\ m.block = Wire(m.seq) /\ cseq <= Len(file) + 1
  BY <1>1 DEF UploadInv, DataGenuine, LockStep
<1>4. block_number = Wire(Len(file) + 1)
  BY <1>1 DEF UploadInv, WaitingState, Waiting
<1>5. ASSUME m.block = block_number PROVE m.seq = Len(file) + 1
  <2>1. m.seq \in Nat /\ m.seq <= Len(file) + 1 /\ (Len(file) + 1) - m.seq < BlockMod
    BY <1>1, <1>2, <1>3, PacketAssumption
  <2>2. Wire(m.seq) = Wire(Len(file) + 1) /\ Len(file) + 1 \in Nat
    BY <1>2, <1>3, <1>4, <1>5
  <2> HIDE <1>5
  <2> QED
    BY <2>1, <2>2, WireInjective
<1> QED
  BY <1>1, <1>2, <1>3, <1>4, <1>5

-----------------------------------------------------------------------------
LEMMA UploadInvNext == UploadInv /\ [UploadNext]_upload_vars => UploadInv'
<1> SUFFICES ASSUME UploadInv, [UploadNext]_upload_vars PROVE UploadInv'
  OBVIOUS
<1> USE PacketAssumption, WriteAssumption
<1>t. UploadTypeOK /\ Len(file) \in Nat /\ cseq \in Nat
  BY DEF UploadInv, UploadTypeOK
<1>1. CASE Reject
  <2> USE <1>1 DEF Reject, EndChild, Reply, client_vars
  <2>1. UploadTypeOK'
    BY PacketsTyped DEF UploadInv, UploadTypeOK, Outcomes
  <2>2. AckGenuine'
    BY PacketsTyped DEF UploadInv, AckGenuine
  <2>3. WholeState'
    BY DEF UploadInv, StartState, WholeState
  <2> QED
    BY <2>1, <2>2, <2>3
    DEF UploadInv, PrefixWritten, DataGenuine, LockStep, WaitingState, Waiting,
        StartState, CompleteIsWhole, ClientDone
<1>2. CASE AcceptUpload
  <2> USE <1>2 DEF AcceptUpload, Arm, Reply, client_vars
  <2>1. file = << >> /\ Len(file) = 0 /\ outcome = "none" /\ retransmit_count = 0
    BY DEF UploadInv, StartState
  <2>2. UploadTypeOK'
    <3>1. Wire(1) \in BlockNumber /\ Wire(0) = 0 /\ 0 \in BlockNumber
      BY WireTyped, WireSmall DEF BlockNumber
    <3>2. Ack(0, 0) \in Packet
      BY <3>1, PacketsTyped
    <3> QED
      BY <3>1, <3>2 DEF UploadInv, UploadTypeOK
  <2>3. AckGenuine'
    <3>1. Wire(0) = 0
      BY WireSmall
    <3> QED
      BY <3>1, <2>1 DEF UploadInv, AckGenuine, Ack
  <2>4. WaitingState'
    BY <2>1 DEF UploadInv, WaitingState, Waiting
  <2> QED
    BY <2>1, <2>2, <2>3, <2>4
    DEF UploadInv, PrefixWritten, DataGenuine, LockStep, StartState, WholeState,
        CompleteIsWhole, ClientDone
<1>3. CASE EnterRecv
  BY <1>3
  DEF EnterRecv, client_vars, UploadInv, UploadTypeOK, PrefixWritten, DataGenuine, AckGenuine,
      LockStep, WaitingState, Waiting, StartState, WholeState, CompleteIsWhole, ClientDone
<1>4. CASE AlarmMissed
  BY <1>4
  DEF AlarmMissed, client_vars, UploadInv, UploadTypeOK, PrefixWritten, DataGenuine, AckGenuine,
      LockStep, WaitingState, Waiting, StartState, WholeState, CompleteIsWhole, ClientDone
<1>5. CASE Timeout
  <2> USE <1>5 DEF Timeout, Reply, client_vars
  <2>1. /\ block_number = Wire(Len(file) + 1) /\ Len(file) < NumBlocks
        /\ retransmit_count < MaxRetries /\ disk = "upload" /\ outcome = "none"
    BY DEF UploadInv, WaitingState, Waiting
  <2>2. Repeat = Ack(Wire(Len(file)), Len(file)) /\ Repeat \in Packet
    <3>1. Repeat = Ack(Wire(Len(file)), Len(file))
      BY <2>1, <1>t, PrevBlockIsWire DEF Repeat
    <3>2. Wire(Len(file)) \in BlockNumber /\ Len(file) \in 0 .. NumBlocks
      BY <2>1, <1>t, WireTyped
    <3> QED
      BY <3>1, <3>2, PacketsTyped
  <2>3. UploadTypeOK'
    <3>1. retransmit_count' \in 0 .. MaxRetries /\ toClient' \subseteq Packet
      BY <2>1, <2>2, <1>t DEF UploadTypeOK
    <3> QED
      BY <3>1, <1>t DEF UploadTypeOK, EndChild, Arm, Outcomes
  <2>4. AckGenuine'
    BY <2>2, <1>t DEF UploadInv, AckGenuine, Ack
  <2>5. WaitingState'
    BY <2>1, <2>3, <1>t DEF WaitingState, Waiting, EndChild, Arm, UploadTypeOK
  <2>6. WholeState' /\ CompleteIsWhole' /\ StartState' /\ ClientDone'
    BY <2>1, <1>t
    DEF UploadInv, WholeState, CompleteIsWhole, StartState, ClientDone, EndChild, Arm
  <2> QED
    BY <2>3, <2>4, <2>5, <2>6 DEF UploadInv, PrefixWritten, DataGenuine, LockStep
<1>6. CASE RecvFails
  BY <1>6
  DEF RecvFails, EndChild, client_vars, UploadInv, UploadTypeOK, PrefixWritten, DataGenuine, AckGenuine,
      LockStep, WaitingState, Waiting, StartState, WholeState, CompleteIsWhole, ClientDone,
      Outcomes
<1>7. ASSUME NEW m \in toServer, RecvExpected(m) PROVE UploadInv'
  <2> USE <1>7 DEF RecvExpected, client_vars
  <2>1. TakeDatagram(m) /\ m.op = "DATA" /\ m.block = block_number
    OBVIOUS
  <2>2. /\ m \in Packet /\ m.seq = Len(file) + 1 /\ m.block = Wire(m.seq)
        /\ m.seq \in Nat /\ m.seq <= cseq
    BY <2>1, <1>t, ReceivedData DEF UploadInv, DataGenuine
  <2>3. /\ spc = "recv" /\ block_number = Wire(Len(file) + 1) /\ Len(file) < NumBlocks
        /\ retransmit_count < MaxRetries /\ disk = "upload" /\ outcome = "none"
    BY <2>1 DEF UploadInv, WaitingState, Waiting, TakeDatagram
  <2>4. /\ file' = Append(file, m.seq) /\ Len(file') = Len(file) + 1
        /\ file \in Seq(1 .. NumBlocks) /\ m.seq \in 1 .. NumBlocks
        /\ file' \in Seq(1 .. NumBlocks)
    BY <2>2, <2>3, <1>t DEF UploadTypeOK
  <2>5. /\ Ack(block_number, m.seq) \in Packet /\ toServer' \subseteq toServer
        /\ toClient' = toClient \cup {Ack(block_number, m.seq)}
        /\ dups' \in 0 .. MaxDups
    BY <2>1, <2>4, <1>t, PacketsTyped DEF UploadTypeOK, TakeDatagram, Consume, Reply
  <2>6. UploadTypeOK'
    <3>1. NextBlock(block_number) \in BlockNumber
      BY <2>3, <1>t, NextBlockIsWire, WireTyped
    <3>2. CASE Short(m)
      BY <3>2, <2>4, <2>5, <1>t DEF UploadTypeOK, EndChild, Outcomes
    <3>3. CASE ~Short(m)
      BY <3>3, <3>1, <2>4, <2>5, <1>t DEF UploadTypeOK, Arm
    <3> QED
      BY <3>2, <3>3
  <2>7. PrefixWritten'
    BY <2>2, <2>4, <1>t DEF UploadInv, PrefixWritten
  <2>8. DataGenuine'
    BY <2>5 DEF UploadInv, DataGenuine
  <2>9. AckGenuine'
    <3> DEFINE a == Ack(block_number, m.seq)
    <3>1. a.seq <= Len(file') /\ a.block = Wire(a.seq)
      BY <2>2, <2>3, <2>4, <1>t DEF Ack
    <3>2. \A k \in toClient : k.op = "ACK" => k.seq \in Nat /\ k.seq <= Len(file) /\ k.block = Wire(k.seq)
      BY <1>t DEF UploadInv, UploadTypeOK, AckGenuine, Packet
    <3> QED
      BY <3>1, <3>2, <2>4, <2>5, <1>t DEF AckGenuine
  <2>10. LockStep'
    BY <2>2, <2>4, <1>t DEF UploadInv, LockStep
  <2>11. CASE Short(m)
    <3> USE <2>11 DEF Short
    <3>1. Len(file') = NumBlocks /\ spc' = "done" /\ outcome' = "complete" /\ disk' = "upload"
      BY <2>2, <2>3, <2>4 DEF EndChild
    <3> QED
      BY <3>1, <2>6, <2>7, <2>8, <2>9, <2>10
      DEF UploadInv, WaitingState, Waiting, StartState, WholeState, CompleteIsWhole, ClientDone
  <2>12. CASE ~Short(m)
    <3> USE <2>12 DEF Short
    <3>1. /\ Len(file') < NumBlocks /\ spc' = "armed" /\ outcome' = "none"
          /\ disk' = "upload" /\ retransmit_count' = 0
      BY <2>2, <2>3, <2>4, <1>t DEF Arm
    <3>2. block_number' = Wire(Len(file') + 1)
      <4>1. block_number' = NextBlock(Wire(Len(file) + 1))
        BY <2>3 DEF Arm
      <4>2. Len(file) + 1 \in Nat
        BY <1>t
      <4> QED
        BY <4>1, <4>2, <2>4, NextBlockIsWire
    <3>3. ClientDone'
      BY <2>3, <1>t DEF UploadInv, ClientDone
    <3> QED
      BY <3>1, <3>2, <3>3, <2>4, <2>6, <2>7, <2>8, <2>9, <2>10, <1>t
      DEF UploadInv, WaitingState, Waiting, StartState, WholeState, CompleteIsWhole
  <2> QED
    BY <2>11, <2>12
<1>8. ASSUME NEW m \in toServer, RecvDuplicate(m) PROVE UploadInv'
  <2> USE <1>8 DEF RecvDuplicate, client_vars
  <2>1. TakeDatagram(m) /\ m.op = "DATA" /\ m.block < block_number
    OBVIOUS
  <2>2. m \in Packet /\ m.block = Wire(m.seq) /\ m.seq \in Nat /\ m.seq <= Len(file)
    <3>1. /\ m \in Packet /\ m.block = Wire(m.seq) /\ m.seq \in 1 .. Len(file) + 1
          /\ m.seq = Len(file) + 1 => m.block = block_number
      BY <2>1, ReceivedData
    <3>2. block_number \in Nat
      BY <1>t DEF UploadTypeOK, BlockNumber
    <3> QED
      BY <3>1, <3>2, <2>1, <1>t
  <2>3. /\ block_number = Wire(Len(file) + 1) /\ Len(file) < NumBlocks
        /\ disk = "upload" /\ outcome = "none"
    BY <2>1 DEF UploadInv, WaitingState, Waiting, TakeDatagram
  <2>4. /\ Ack(m.block, m.seq) \in Packet /\ toServer' \subseteq toServer
        /\ toClient' = toClient \cup {Ack(m.block, m.seq)}
        /\ dups' \in 0 .. MaxDups
    <3>1. m.block \in BlockNumber /\ m.seq \in 0 .. NumBlocks
      BY <2>2 DEF Packet
    <3> QED
      BY <2>1, <3>1, <1>t, PacketsTyped DEF UploadTypeOK, TakeDatagram, Consume, Reply
  <2>5. UploadTypeOK'
    BY <2>4, <1>t DEF UploadTypeOK, Arm
  <2>6. AckGenuine'
    BY <2>2, <2>4, <1>t DEF UploadInv, AckGenuine, Ack
  <2>7. DataGenuine'
    BY <2>4 DEF UploadInv, DataGenuine
  <2>8. WaitingState' /\ StartState' /\ WholeState' /\ CompleteIsWhole' /\ ClientDone'
    BY <2>3, <1>t
    DEF UploadInv, WaitingState, Waiting, Arm, StartState, WholeState, CompleteIsWhole, ClientDone
  <2> QED
    BY <2>5, <2>6, <2>7, <2>8 DEF UploadInv, PrefixWritten, LockStep
<1>9. ASSUME NEW m \in toServer, RecvRefused(m) PROVE UploadInv'
  <2> USE <1>9 DEF RecvRefused, client_vars
  <2>1. /\ spc = "recv" /\ toServer' \subseteq toServer /\ dups' \in 0 .. MaxDups
        /\ toClient' = toClient \cup {Error}
    BY <1>t DEF UploadTypeOK, TakeDatagram, Consume, Reply
  <2>2. Len(file) < NumBlocks /\ outcome' \in {"error", "unexpected"} /\ spc' = "done"
    BY <2>1 DEF UploadInv, WaitingState, Waiting, EndChild
  <2>3. UploadTypeOK'
    BY <2>1, <2>2, <1>t, PacketsTyped DEF UploadTypeOK, EndChild, Outcomes
  <2>4. DataGenuine' /\ AckGenuine'
    BY <2>1, PacketsTyped DEF UploadInv, DataGenuine, AckGenuine
  <2>5. WaitingState' /\ StartState' /\ WholeState' /\ CompleteIsWhole' /\ ClientDone'
    BY <2>2, <1>t
    DEF UploadInv, WaitingState, Waiting, StartState, WholeState, CompleteIsWhole, ClientDone
  <2> QED
    BY <2>3, <2>4, <2>5 DEF UploadInv, PrefixWritten, LockStep
<1>10. ASSUME NEW m \in toClient, ClientAck(m) PROVE UploadInv'
  <2> USE <1>10 DEF ClientAck, child_vars
  <2>1. /\ m.op = "ACK" /\ m.block = Wire(cseq) /\ m \in Packet
        /\ m.seq <= Len(file) /\ m.block = Wire(m.seq) /\ cseq < m.seq + MaxLife
    BY <1>t DEF UploadInv, UploadTypeOK, AckGenuine, ClientReceive, Fresh
  <2>2. m.seq \in Nat
    BY <2>1 DEF Packet
  <2>3. cseq = Len(file)
    <3>1. m.seq <= cseq /\ cseq - m.seq < BlockMod /\ Wire(m.seq) = Wire(cseq)
      BY <2>1, <2>2, <1>t DEF UploadInv, LockStep
    <3>2. m.seq = cseq
      BY <3>1, <2>2, <1>t, WireInjective
    <3> QED
      BY <3>2, <2>1, <1>t DEF UploadInv, LockStep
  <2>4. /\ toClient' \subseteq toClient /\ dups' \in 0 .. MaxDups
        /\ spc' = spc /\ mode' = mode /\ alarm' = alarm /\ block_number' = block_number
        /\ retransmit_count' = retransmit_count /\ file' = file /\ disk' = disk
        /\ outcome' = outcome /\ ctries' = 0
    BY <1>t DEF UploadTypeOK, ClientReceive, Consume
  <2>5. AckGenuine'
    BY <2>4 DEF UploadInv, AckGenuine
  <2>6. CASE cseq = NumBlocks
    <3>1. cpc' = "done" /\ cseq' = cseq /\ toServer' = toServer
      BY <2>6
    <3>2. UploadTypeOK'
      BY <3>1, <2>4, <1>t DEF UploadTypeOK
    <3> QED
      BY <3>1, <3>2, <2>3, <2>4, <2>5, <2>6
      DEF UploadInv, PrefixWritten, DataGenuine, LockStep, WaitingState, Waiting, StartState,
          WholeState, CompleteIsWhole, ClientDone
  <2>7. CASE cseq # NumBlocks
    <3>1. /\ cpc' = cpc /\ cseq' = cseq + 1 /\ cseq' \in 1 .. NumBlocks
          /\ toServer' = toServer \cup {Data(cseq')}
      BY <2>7, <1>t DEF UploadTypeOK
    <3>2. Data(cseq') \in Packet
      BY <3>1, PacketsTyped
    <3>3. UploadTypeOK'
      BY <3>1, <3>2, <2>4, <1>t DEF UploadTypeOK
    <3>4. DataGenuine'
      BY <3>1, <1>t DEF UploadInv, DataGenuine, Data
    <3>5. LockStep'
      BY <3>1, <2>3, <2>4, <1>t DEF LockStep
    <3> QED
      BY <3>1, <3>3, <3>4, <3>5, <2>4, <2>5
      DEF UploadInv, PrefixWritten, WaitingState, Waiting, StartState,
          WholeState, CompleteIsWhole, ClientDone
  <2> QED
    BY <2>6, <2>7
<1>11. ASSUME NEW m \in toClient, ClientIgnore(m) \/ ClientError(m) PROVE UploadInv'
  <2>1. /\ toClient' \subseteq toClient /\ dups' \in 0 .. MaxDups /\ toServer' = toServer
        /\ UNCHANGED child_vars /\ cseq' = cseq /\ ctries' = ctries
        /\ cpc' = cpc \/ cpc' = "gone"
    BY <1>11, <1>t DEF ClientIgnore, ClientError, ClientReceive, Consume, UploadTypeOK, client_vars
  <2> QED
    BY <2>1, <1>t
    DEF child_vars, UploadInv, UploadTypeOK, PrefixWritten, DataGenuine, AckGenuine,
        LockStep, WaitingState, Waiting, StartState, WholeState, CompleteIsWhole, ClientDone
<1>12. CASE ClientResend
  <2> USE <1>12 DEF ClientResend, child_vars
  <2>1. cseq \in 1 .. NumBlocks /\ Data(cseq) \in Packet
    BY <1>t, PacketsTyped DEF UploadTypeOK
  <2>2. UploadTypeOK'
    BY <2>1, <1>t DEF UploadTypeOK
  <2>3. DataGenuine'
    BY <2>1, <1>t DEF UploadInv, DataGenuine, Data
  <2> QED
    BY <2>2, <2>3
    DEF UploadInv, PrefixWritten, AckGenuine,
        LockStep, WaitingState, Waiting, StartState, WholeState, CompleteIsWhole, ClientDone
<1>13. CASE ClientStops
  <2> USE <1>13 DEF ClientStops, child_vars
  <2>1. UploadTypeOK' /\ DataGenuine'
    BY <1>t, PacketsTyped DEF UploadInv, UploadTypeOK, DataGenuine
  <2> QED
    BY <2>1
    DEF UploadInv, PrefixWritten, AckGenuine,
        LockStep, WaitingState, Waiting, StartState, WholeState, CompleteIsWhole, ClientDone
<1>14. CASE UNCHANGED upload_vars
  BY <1>14
  DEF upload_vars, child_vars, client_vars, UploadInv, UploadTypeOK, PrefixWritten, DataGenuine, AckGenuine,
      LockStep, WaitingState, Waiting, StartState, WholeState, CompleteIsWhole, ClientDone
<1> QED
  BY <1>1, <1>2, <1>3, <1>4, <1>5, <1>6, <1>7, <1>8, <1>9, <1>10, <1>11, <1>12, <1>13, <1>14
  DEF UploadNext, ServerNext, ClientNext

-----------------------------------------------------------------------------
THEOREM UploadInvariant == UploadSpec => []UploadInv
  BY UploadInvInit, UploadInvNext, PTL DEF UploadSpec

(* Every variable of the upload keeps its type; in particular the child    *)
(* never repeats an ACK more than MaxRetries times (handle_wrq, 192-216).  *)
THEOREM UploadTypes == UploadSpec => []UploadTypeOK
<1>1. UploadInv => UploadTypeOK
  BY DEF UploadInv
<1> QED
  BY <1>1, UploadInvariant, PTL

(* Whatever is lost, repeated or reordered, the file fwrite has built is a *)
(* prefix of the client's file, also when block numbers wrap.              *)
THEOREM UploadPrefix == UploadSpec => []PrefixWritten
<1>1. UploadInv => PrefixWritten
  BY DEF UploadInv
<1> QED
  BY <1>1, UploadInvariant, PTL

(* "File transfer completed" is only printed over the whole file.          *)
THEOREM UploadComplete == UploadSpec => []CompleteIsWhole
<1>1. UploadInv => CompleteIsWhole
  BY DEF UploadInv
<1> QED
  BY <1>1, UploadInvariant, PTL

(* A chunk whose ACK moved the client on is in the file, and a client that *)
(* has seen its last ACK can rely on the file being there.                 *)
THEOREM UploadAcked == UploadSpec => []AckedIsStored
<1>1. UploadInv => AckedIsStored
  BY DEF UploadInv, LockStep, ClientDone, WholeState, AckedIsStored
<1> QED
  BY <1>1, UploadInvariant, PTL

(* Until block numbers wrap, comparing them orders blocks rightly, so no   *)
(* repeated or late packet is ever taken for a block from the future.      *)
THEOREM UploadAborts == UploadSpec => []AbortOnlyAfterWrap
<1>1. UploadInit => AbortOnlyAfterWrap
  BY DEF UploadInit, AbortOnlyAfterWrap
<1>2. UploadInv /\ AbortOnlyAfterWrap /\ [UploadNext]_upload_vars => AbortOnlyAfterWrap'
  <2> SUFFICES ASSUME UploadInv, AbortOnlyAfterWrap, [UploadNext]_upload_vars, outcome' = "unexpected"
               PROVE  Len(file') >= BlockMod - 1
    BY DEF AbortOnlyAfterWrap
  <2>1. ASSUME NEW m \in toServer, RecvRefused(m) PROVE Len(file') >= BlockMod - 1
    <3>1. TakeDatagram(m) /\ spc = "recv" /\ file' = file
      BY <2>1 DEF RecvRefused, TakeDatagram
    <3>2. m.op = "DATA" /\ m.block > block_number
      BY <2>1 DEF RecvRefused, EndChild
    <3>3. m.block = Wire(m.seq) /\ m.seq \in 1 .. Len(file) + 1 /\ Len(file) \in Nat
      BY <3>1, <3>2, ReceivedData
    <3>4. block_number = Wire(Len(file) + 1)
      BY <3>1 DEF UploadInv, WaitingState, Waiting
    <3>5. ASSUME Len(file) < BlockMod - 1 PROVE FALSE
      <4>1. m.block = m.seq /\ block_number = Len(file) + 1
        BY <3>3, <3>4, <3>5, WireSmall, PacketAssumption
      <4> QED
        BY <3>2, <3>3, <4>1
    <3> QED
      BY <3>1, <3>3, <3>5, PacketAssumption
  <2>2. ASSUME NEW m \in toServer, RecvExpected(m) \/ RecvDuplicate(m) PROVE FALSE
    <3>1. outcome = "none"
      BY <2>2 DEF RecvExpected, RecvDuplicate, TakeDatagram, UploadInv, WaitingState, Waiting
    <3> QED
      BY <2>2, <3>1 DEF RecvExpected, RecvDuplicate, EndChild
  <2>3. CASE Reject \/ AcceptUpload \/ EnterRecv \/ AlarmMissed \/ Timeout \/ RecvFails
    BY <2>3
    DEF Reject, AcceptUpload, EnterRecv, AlarmMissed, Timeout, RecvFails, EndChild, AbortOnlyAfterWrap
  <2>4. CASE ClientNext \/ UNCHANGED upload_vars
    BY <2>4
    DEF ClientNext, ClientAck, ClientIgnore, ClientError, ClientReceive, ClientResend,
        ClientStops, upload_vars, child_vars, AbortOnlyAfterWrap
  <2> QED
    BY <2>1, <2>2, <2>3, <2>4 DEF UploadNext, ServerNext
<1> QED
  BY <1>1, <1>2, UploadInvariant, PTL DEF UploadSpec

(* access(filename) before fopen: a file that existed is left alone for    *)
(* the whole life of the child, the remove() of a timeout included.        *)
THEOREM UploadClobbersNothing == UploadSpec => NeverClobbers
<1>1. UploadInv /\ [UploadNext]_upload_vars => [disk = "other" => disk' = "other"]_upload_vars
  <2> SUFFICES ASSUME UploadInv, [UploadNext]_upload_vars, disk = "other"
               PROVE  disk' = "other"
    OBVIOUS
  <2>1. ~Waiting
    BY DEF UploadInv, WaitingState
  <2> QED
    BY <2>1
    DEF Waiting, UploadNext, ServerNext, Reject, AcceptUpload, EnterRecv, AlarmMissed, Timeout, RecvFails,
        RecvExpected, RecvDuplicate, RecvRefused, TakeDatagram, ClientNext, ClientAck, ClientIgnore,
        ClientError, ClientReceive, ClientResend, ClientStops, upload_vars, child_vars
<1> QED
  BY <1>1, UploadInvariant, PTL DEF UploadSpec, NeverClobbers

-----------------------------------------------------------------------------
LEMMA UploadStep == UploadInv /\ [UploadNext]_upload_vars => [Upload!TransferNext]_(Upload!transfer)
<1> SUFFICES ASSUME UploadInv, [UploadNext]_upload_vars
             PROVE  [Upload!TransferNext]_(Upload!transfer)
  OBVIOUS
<1> USE DEF Upload!TransferNext, Upload!Begin, Upload!Store, Upload!Fail, Upload!transfer
<1>1. CASE Reject
  BY <1>1 DEF Reject, EndChild, UploadStatus, UploadInv, StartState, Outcomes
<1>2. CASE AcceptUpload
  BY <1>2 DEF AcceptUpload, Arm, UploadStatus, UploadInv, StartState, Outcomes
<1>3. CASE EnterRecv \/ AlarmMissed
  BY <1>3 DEF EnterRecv, AlarmMissed, UploadStatus
<1>4. CASE Timeout
  <2>1. outcome = "none" /\ spc = "recv"
    BY <1>4 DEF Timeout, UploadInv, WaitingState, Waiting
  <2> QED
    BY <1>4, <2>1 DEF Timeout, EndChild, Arm, UploadStatus, Outcomes
<1>5. CASE RecvFails
  <2>1. outcome = "none" /\ spc = "recv"
    BY <1>5 DEF RecvFails, UploadInv, WaitingState, Waiting
  <2> QED
    BY <1>5, <2>1 DEF RecvFails, EndChild, UploadStatus, Outcomes
<1>6. ASSUME NEW m \in toServer, RecvExpected(m)
      PROVE  [Upload!TransferNext]_(Upload!transfer)
  <2>1. outcome = "none" /\ spc = "recv"
    BY <1>6 DEF RecvExpected, TakeDatagram, UploadInv, WaitingState, Waiting
  <2>2. m.seq = Len(file) + 1
    BY <1>6, ReceivedData DEF RecvExpected
  <2>3. file' = Append(file, Len(file) + 1)
    BY <1>6, <2>2 DEF RecvExpected
  <2>4. UploadStatus = "active"
    BY <2>1 DEF UploadStatus, Outcomes
  <2>5. UploadStatus' = IF Len(file) + 1 = NumBlocks THEN "whole" ELSE "active"
    <3>1. CASE Short(m)
      BY <1>6, <2>2, <3>1 DEF RecvExpected, Short, EndChild, UploadStatus, Outcomes
    <3>2. CASE ~Short(m)
      BY <1>6, <2>1, <2>2, <3>2 DEF RecvExpected, Short, Arm, UploadStatus, Outcomes
    <3> QED
      BY <3>1, <3>2
  <2> QED
    BY <2>3, <2>4, <2>5
<1>7. ASSUME NEW m \in toServer, RecvDuplicate(m) PROVE UNCHANGED Upload!transfer
  BY <1>7 DEF RecvDuplicate, Arm, TakeDatagram, UploadStatus
<1>8. ASSUME NEW m \in toServer, RecvRefused(m) PROVE Upload!Fail
  <2>1. outcome = "none" /\ spc = "recv"
    BY <1>8 DEF RecvRefused, TakeDatagram, UploadInv, WaitingState, Waiting
  <2> QED
    BY <1>8, <2>1 DEF RecvRefused, EndChild, UploadStatus, Outcomes
<1>9. CASE ClientNext \/ UNCHANGED upload_vars
  BY <1>9
  DEF ClientNext, ClientAck, ClientIgnore, ClientError, ClientReceive, ClientResend,
      ClientStops, upload_vars, child_vars, UploadStatus
<1> QED
  BY <1>1, <1>2, <1>3, <1>4, <1>5, <1>6, <1>7, <1>8, <1>9 DEF UploadNext, ServerNext

(* handle_wrq implements the abstract block transfer: each received packet *)
(* adds the next chunk, ends the transfer or changes nothing.              *)
THEOREM UploadImplements == UploadSpec => UploadIsTransfer
<1>1. UploadInit => Upload!TransferInit
  BY DEF UploadInit, Upload!TransferInit, UploadStatus, Outcomes
<1> QED
  BY <1>1, UploadStep, UploadInvariant, PTL DEF UploadSpec, UploadIsTransfer, Upload!TransferSpec
=============================================================================
