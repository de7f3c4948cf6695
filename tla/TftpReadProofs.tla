--------------------------- MODULE TftpReadProofs ---------------------------
(***************************************************************************)
(* What TftpRead guarantees for every file length, retry limit, number of  *)
(* duplicates and width of the block number.                               *)
(*                                                                         *)
(* The argument mirrors that of TftpWriteProofs with the roles exchanged:  *)
(* every DATA packet in flight carries a chunk the child has sent, every   *)
(* ACK in flight is for a chunk the client has stored, and the child is at *)
(* most one chunk ahead.  A datagram that is still alive is less than a    *)
(* cycle of block numbers away from the one expected, so the comparison of *)
(* 16-bit numbers in handle_rrq finds the right one.                       *)
(***************************************************************************)
EXTENDS TftpRead, TftpPacketLemmas

Waiting == spc \in {"armed", "recv"}

(* DATA in flight to the client is a chunk the child has sent.             *)
DataGenuine ==
  \A m \in toClient : m.op = "DATA" =>
    /\ m.seq \in 1 .. chunk
    /\ m.block = Wire(m.seq)

(* An ACK in flight to the child is for a chunk the client has stored.     *)
AckGenuine ==
  \A m \in toServer : m.op = "ACK" =>
    /\ m.seq <= Len(copy)
    /\ m.block = Wire(m.seq)

(* What a child that waits for an ACK knows.                               *)
WaitingState ==
  Waiting => /\ block_number = Wire(chunk) /\ chunk > 0
             /\ retransmit_count < MaxRetries
             /\ outcome = "none"

StartState ==
  spc = "start" => chunk = 0 /\ block_number = Wire(1) /\ outcome = "none"

ClientDone == cpc = "done" => Len(copy) = NumBlocks

(* Every chunk that has bytes is at the client when the child says that    *)
(* the transfer is complete.                                               *)
BytesReachClient == outcome = "complete" => Len(copy) >= Readable

DownloadInv ==
  /\ DownloadTypeOK
  /\ StopAndWait
  /\ DataGenuine /\ AckGenuine
  /\ WaitingState /\ StartState
  /\ ClientDone /\ BytesReachClient

-----------------------------------------------------------------------------
LEMMA ReadableTyped == Readable \in Nat /\ Readable <= NumBlocks /\ NumBlocks <= Readable + 1
  BY PacketAssumption, ReadAssumption DEF Readable

LEMMA DownloadInvInit == DownloadInit => DownloadInv
<1> SUFFICES ASSUME DownloadInit PROVE DownloadInv
  OBVIOUS
<1> USE PacketAssumption, ReadAssumption DEF DownloadInit
<1>1. copy = << >> /\ Len(copy) = 0 /\ copy \in Seq(1 .. NumBlocks)
  OBVIOUS
<1>2. Wire(1) \in BlockNumber
  BY WireTyped
<1>3. DownloadTypeOK
  <2>1. /\ chunk \in 0 .. NumBlocks /\ retransmit_count \in 0 .. MaxRetries
        /\ ctries \in 0 .. ClientRetries /\ dups \in 0 .. MaxDups
    OBVIOUS
  <2>2. toServer \subseteq Packet /\ toClient \subseteq Packet
    OBVIOUS
  <2> QED
    BY <1>1, <1>2, <2>1, <2>2 DEF DownloadTypeOK
<1> QED
  BY <1>1, <1>3
  DEF DownloadInv, StopAndWait, DataGenuine, AckGenuine, WaitingState, Waiting, StartState,
      ClientDone, BytesReachClient

(* The block the child sends carries the chunk's own number.               *)
LEMMA SentData ==
  ASSUME NEW k \in 0 .. NumBlocks
  PROVE  [Data(k) EXCEPT !.block = Wire(k)] = Data(k)
  BY DEF Data

(* An ACK with the number of the block just sent is for that chunk, which  *)
(* the client therefore has.                                               *)
LEMMA ReceivedAck ==
  ASSUME DownloadInv, NEW m, Receive(m), RightAck(m)
  PROVE  Len(copy) = chunk /\ chunk \in 1 .. NumBlocks /\ m.seq = chunk
<1>1. m \in toServer /\ m \in Packet /\ spc = "recv" /\ chunk < m.seq + MaxLife
  BY DEF Receive, Fresh, RightAck, DownloadInv, DownloadTypeOK
<1>2. Len(copy) \in Nat /\ chunk \in 0 .. NumBlocks /\ m.seq \in Nat /\ chunk > 0
  BY <1>1, PacketAssumption DEF DownloadInv, DownloadTypeOK, Packet, WaitingState, Waiting
<1>3. m.seq <= Len(copy) /\ m.block = Wire(m.seq) /\ Len(copy) <= chunk
  BY <1>1 DEF RightAck, DownloadInv, AckGenuine, StopAndWait
<1>4. Wire(m.seq) = Wire(chunk)
  BY <1>1, <1>3 DEF RightAck, DownloadInv, WaitingState, Waiting
<1>5. m.seq <= chunk /\ chunk - m.seq < BlockMod /\ chunk \in Nat
  BY <1>1, <1>2, <1>3, PacketAssumption
<1>6. m.seq = chunk
  BY <1>2, <1>4, <1>5, WireInjective
<1> QED
  BY <1>2, <1>3, <1>6

(* DATA that reaches the client is the chunk it waits for or one it has    *)
(* stored, and the block number tells which.                               *)
LEMMA ReceivedData ==
  ASSUME DownloadInv, NEW m, ClientReceive(m), m.op = "DATA"
  PROVE  /\ m \in Packet /\ m.seq \in 1 .. NumBlocks
         /\ m.seq <= Len(copy) + 1
         /\ m.block = Wire(m.seq)
         /\ m.block = Wire(Len(copy) + 1) => m.seq = Len(copy) + 1
<1>1. m \in toClient /\ m \in Packet /\ Len(copy) + 1 < m.seq + MaxLife
  BY DEF ClientReceive, Fresh, DownloadInv, DownloadTypeOK
<1>2. Len(copy) \in Nat /\ chunk \in 0 .. NumBlocks /\ NumBlocks \in Nat
  BY PacketAssumption DEF DownloadInv, DownloadTypeOK
<1>3. m.seq \in 1 .. chunk /\ m.block = Wire(m.seq) /\ chunk <= Len(copy) + 1
  BY <1>1 DEF DownloadInv, DataGenuine, StopAndWait
<1>4. m.seq \in Nat /\ m.seq <= Len(copy) + 1 /\ (Len(copy) + 1) - m.seq < BlockMod
  BY <1>1, <1>2, <1>3, PacketAssumption
<1>5. Wire(m.seq) = Wire(Len(copy) + 1) => m.seq = Len(copy) + 1
  BY <1>2, <1>4, WireInjective
<1> QED
  BY <1>1, <1>2, <1>3, <1>4, <1>5

-----------------------------------------------------------------------------
LEMMA DownloadInvNext == DownloadInv /\ [DownloadNext]_download_vars => DownloadInv'
<1> SUFFICES ASSUME DownloadInv, [DownloadNext]_download_vars PROVE DownloadInv'
  OBVIOUS
<1> USE PacketAssumption, ReadAssumption
<1>t. /\ DownloadTypeOK /\ StopAndWait /\ Len(copy) \in Nat /\ chunk \in 0 .. NumBlocks
      /\ chunk \in Nat /\ NumBlocks \in Nat
  BY DEF DownloadInv, DownloadTypeOK
<1>r. Readable \in Nat /\ Readable <= NumBlocks /\ NumBlocks <= Readable + 1
  BY ReadableTyped
(* The child sends chunk k, the one it sent before or the next, and waits. *)
<1>s. ASSUME NEW k \in 1 .. NumBlocks, Transmit(Wire(k), k), UNCHANGED <<servable, client_vars>>,
             Len(copy) <= k, k <= Len(copy) + 1, chunk <= k,
             outcome' = "none", retransmit_count' \in Nat, retransmit_count' < MaxRetries,
             toServer' \subseteq toServer, dups' \in 0 .. MaxDups
      PROVE  DownloadInv'
  <2> USE <1>s DEF Transmit, client_vars
  <2>1. Wire(k) \in BlockNumber /\ Data(k) \in Packet /\ [Data(k) EXCEPT !.block = Wire(k)] = Data(k)
    BY WireTyped, PacketsTyped, SentData
  <2> HIDE PacketAssumption, ReadAssumption
  <2>2. DownloadTypeOK'
    <3>1. toClient' \subseteq Packet /\ toServer' \subseteq Packet
      BY <2>1, <1>t DEF DownloadTypeOK
    <3>2. chunk' \in 0 .. NumBlocks /\ retransmit_count' \in 0 .. MaxRetries
      BY <1>t, ReadAssumption DEF DownloadTypeOK
    <3> QED
      BY <2>1, <1>t, <3>1, <3>2 DEF DownloadTypeOK
  <2>3. DataGenuine'
    BY <2>1, <1>t DEF DownloadInv, DataGenuine, Data
  <2> QED
    BY <2>2, <2>3, <1>t
    DEF DownloadInv, StopAndWait, AckGenuine, WaitingState, Waiting, StartState, ClientDone,
        BytesReachClient
(* The child ends without having sent anything but an ERROR.               *)
<1>f. ASSUME spc' = "done", chunk' = chunk, alarm' = FALSE, UNCHANGED <<servable, client_vars>>,
             outcome' \in {"rejected", "complete", "timeout", "exit"},
             outcome' = "complete" => Len(copy) >= Readable,
             block_number' \in BlockNumber, retransmit_count' \in 0 .. MaxRetries,
             toServer' \subseteq toServer, toClient' \subseteq toClient \cup {Error},
             dups' \in 0 .. MaxDups
      PROVE  DownloadInv'
  <2> USE <1>f DEF client_vars
  <2>1. DownloadTypeOK'
    BY <1>t, PacketsTyped DEF DownloadTypeOK
  <2>2. DataGenuine' /\ AckGenuine'
    BY PacketsTyped DEF DownloadInv, DataGenuine, AckGenuine
  <2>3. WaitingState' /\ StartState' /\ ClientDone' /\ BytesReachClient' /\ StopAndWait'
    BY <1>t DEF DownloadInv, StopAndWait, WaitingState, Waiting, StartState, ClientDone,
                BytesReachClient
  <2> QED
    BY <2>1, <2>2, <2>3 DEF DownloadInv
<1>1. CASE Reject
  <2>1. block_number \in BlockNumber /\ retransmit_count \in 0 .. MaxRetries /\ dups \in 0 .. MaxDups
    BY <1>t DEF DownloadTypeOK
  <2> QED
    BY <1>1, <1>f, <2>1 DEF Reject, EndChild
<1>2. CASE Start
  <2>1. /\ chunk = 0 /\ block_number = Wire(1) /\ outcome = "none" /\ Len(copy) = 0
        /\ dups \in 0 .. MaxDups
    BY <1>2, <1>t DEF Start, DownloadInv, StartState, StopAndWait, DownloadTypeOK
  <2>2. Transmit(Wire(1), 1) /\ retransmit_count' = 0 /\ outcome' = "none"
    BY <1>2, <2>1 DEF Start, ReadNext
  <2>3. UNCHANGED <<servable, client_vars>> /\ toServer' = toServer /\ dups' = dups
    BY <1>2 DEF Start
  <2> QED
    BY <2>1, <2>2, <2>3, <1>s
<1>3. CASE EnterRecv
  BY <1>3
  DEF EnterRecv, client_vars, DownloadInv, DownloadTypeOK, StopAndWait, DataGenuine, AckGenuine,
      WaitingState, Waiting, StartState, ClientDone, BytesReachClient
<1>4. CASE AlarmMissed
  BY <1>4
  DEF AlarmMissed, client_vars, DownloadInv, DownloadTypeOK, StopAndWait, DataGenuine, AckGenuine,
      WaitingState, Waiting, StartState, ClientDone, BytesReachClient
<1>5. CASE Timeout
  <2>1. /\ block_number = Wire(chunk) /\ chunk > 0 /\ retransmit_count < MaxRetries
        /\ outcome = "none" /\ dups \in 0 .. MaxDups /\ block_number \in BlockNumber
        /\ retransmit_count \in Nat
    BY <1>5, <1>t DEF Timeout, DownloadInv, WaitingState, Waiting, DownloadTypeOK
  <2>2. /\ retransmit_count' = retransmit_count + 1 /\ UNCHANGED <<servable, client_vars>>
        /\ toServer' = toServer /\ dups' = dups
    BY <1>5 DEF Timeout
  <2>3. CASE retransmit_count' = MaxRetries
    <3>1. GiveUp
      BY <1>5, <2>3 DEF Timeout
    <3>2. chunk > Readable => Len(copy) >= Readable
      BY <1>t, <1>r DEF StopAndWait
    <3>3. /\ spc' = "done" /\ chunk' = chunk /\ alarm' = FALSE /\ block_number' = block_number
          /\ toClient' = toClient /\ outcome' = IF chunk > Readable THEN "complete" ELSE "timeout"
      BY <3>1 DEF GiveUp, EndChild
    <3>4. outcome' \in {"rejected", "complete", "timeout", "exit"}
      BY <3>3
    <3>5. retransmit_count' \in 0 .. MaxRetries
      BY <2>3
    <3>6. outcome' = "complete" => Len(copy) >= Readable
      BY <3>2, <3>3
    <3> QED
      BY <3>3, <3>4, <3>5, <3>6, <2>1, <2>2, <1>f
  <2>4. CASE retransmit_count' # MaxRetries
    <3>1. Transmit(Wire(chunk), chunk) /\ outcome' = "none"
      BY <1>5, <2>1, <2>4 DEF Timeout, Resend
    <3> QED
      BY <3>1, <2>1, <2>2, <2>4, <1>s, <1>t DEF StopAndWait
  <2> QED
    BY <2>3, <2>4
<1>6. CASE RecvFails
  <2>1. block_number \in BlockNumber /\ retransmit_count \in 0 .. MaxRetries /\ dups \in 0 .. MaxDups
    BY <1>t DEF DownloadTypeOK
  <2> QED
    BY <1>6, <1>f, <2>1 DEF RecvFails, EndChild, client_vars
<1>c. ASSUME NEW m, Receive(m) 
      PROVE  /\ toServer' \subseteq toServer /\ dups' \in 0 .. MaxDups
             /\ UNCHANGED <<servable, client_vars>>
             /\ block_number = Wire(chunk) /\ chunk \in 1 .. NumBlocks /\ outcome = "none"
             /\ block_number \in BlockNumber
             /\ retransmit_count \in 0 .. MaxRetries /\ retransmit_count < MaxRetries
  BY <1>c, <1>t DEF Receive, Consume, DownloadTypeOK, DownloadInv, WaitingState, Waiting
<1>7. ASSUME NEW m \in toServer, RecvAck(m) PROVE DownloadInv'
  <2>1. Receive(m) /\ RightAck(m)
    BY <1>7 DEF RecvAck
  <2>2. Len(copy) = chunk
    BY <2>1, ReceivedAck
  <2>3. NextBlock(block_number) = Wire(chunk + 1) /\ Wire(chunk + 1) \in BlockNumber
    BY <2>1, <1>c, <1>t, NextBlockIsWire, WireTyped
  <2>4. CASE chunk = NumBlocks
    <3>1. /\ EndChild("complete") /\ UNCHANGED <<retransmit_count, toClient>>
          /\ block_number' \in {block_number, NextBlock(block_number)}
      BY <1>7, <2>4 DEF RecvAck
    <3> QED
      BY <3>1, <2>1, <2>2, <2>3, <2>4, <1>c, <1>f, <1>r DEF EndChild
  <2>5. CASE chunk # NumBlocks
    <3>1. ReadNext(Wire(chunk + 1), chunk)
      BY <1>7, <2>3, <2>5 DEF RecvAck
    <3>2. CASE chunk < Readable \/ chunk = 0
      BY <3>1, <3>2, <2>1, <2>2, <2>5, <1>c, <1>s, <1>t DEF ReadNext
    <3>3. CASE ~(chunk < Readable \/ chunk = 0)
      <4>1. /\ spc' = "done" /\ chunk' = chunk /\ alarm' = FALSE /\ outcome' = "complete"
            /\ block_number' = Wire(chunk + 1) /\ UNCHANGED <<toClient, retransmit_count>>
        BY <3>1, <3>3 DEF ReadNext, EndChild
      <4>2. Len(copy) >= Readable
        BY <3>3, <2>2, <1>t, <1>r
      <4> QED
        BY <4>1, <4>2, <2>1, <2>3, <1>c, <1>f
    <3> QED
      BY <3>2, <3>3
  <2> QED
    BY <2>4, <2>5
<1>8. ASSUME NEW m \in toServer, RecvOther(m) PROVE DownloadInv'
  <2>1. Receive(m) /\ Transmit(block_number, chunk) /\ UNCHANGED <<outcome, retransmit_count>>
    BY <1>8 DEF RecvOther, Resend
  <2> QED
    BY <2>1, <1>c, <1>s, <1>t DEF StopAndWait
<1>9. ASSUME NEW m \in toClient, ClientStores(m) PROVE DownloadInv'
  <2> USE <1>9 DEF ClientStores, SendAck, child_vars
  <2>1. ClientReceive(m) /\ m.op = "DATA" /\ m.block = Wire(Len(copy) + 1)
    OBVIOUS
  <2>2. /\ m \in Packet /\ m.seq = Len(copy) + 1 /\ m.seq \in 1 .. NumBlocks
        /\ m.block = Wire(m.seq) /\ m.block \in BlockNumber
    BY <2>1, ReceivedData DEF Packet
  <2>3. m.seq <= chunk
    BY <2>1, <1>t DEF ClientReceive, DownloadInv, DataGenuine
  <2>4. /\ copy' = Append(copy, m.seq) /\ Len(copy') = Len(copy) + 1
        /\ copy' \in Seq(1 .. NumBlocks)
    BY <2>2, <1>t DEF DownloadTypeOK
  <2>5. /\ Ack(m.block, m.seq) \in Packet /\ toClient' \subseteq toClient
        /\ toServer' = toServer \cup {Ack(m.block, m.seq)}
        /\ dups' \in 0 .. MaxDups /\ UNCHANGED child_vars
    BY <2>1, <2>2, <1>t, PacketsTyped DEF DownloadTypeOK, ClientReceive, Consume
  <2>6. DownloadTypeOK'
    BY <2>4, <2>5, <1>t DEF DownloadTypeOK
  <2>7. AckGenuine'
    <3>1. \A k \in toServer : k.op = "ACK" => k.seq \in Nat /\ k.seq <= Len(copy) /\ k.block = Wire(k.seq)
      BY <1>t DEF DownloadInv, DownloadTypeOK, AckGenuine, Packet
    <3> QED
      BY <3>1, <2>2, <2>4, <2>5, <1>t DEF AckGenuine, Ack
  <2>8. StopAndWait' /\ DataGenuine' /\ WaitingState' /\ StartState'
    BY <2>2, <2>3, <2>4, <2>5, <1>t
    DEF DownloadInv, StopAndWait, DataGenuine, WaitingState, Waiting, StartState
  <2>9. ClientDone' /\ BytesReachClient'
    BY <2>2, <2>4, <2>5, <1>t, <1>r DEF DownloadInv, ClientDone, BytesReachClient, Short
  <2> QED
    BY <2>6, <2>7, <2>8, <2>9 DEF DownloadInv
<1>10. ASSUME NEW m \in toClient, ClientRepeats(m) PROVE DownloadInv'
  <2> USE <1>10 DEF ClientRepeats, SendAck, child_vars, client_vars
  <2>1. ClientReceive(m) /\ m.op = "DATA" /\ (cpc = "done" \/ m.block # Wire(Len(copy) + 1))
    OBVIOUS
  <2>2. /\ m \in Packet /\ m.seq \in 1 .. NumBlocks /\ m.seq <= Len(copy) + 1
        /\ m.block = Wire(m.seq) /\ m.block \in BlockNumber
    BY <2>1, ReceivedData DEF Packet
  <2>3. m.seq <= Len(copy)
    <3>1. CASE cpc = "done"
      BY <3>1, <2>2 DEF DownloadInv, ClientDone
    <3>2. CASE m.block # Wire(Len(copy) + 1)
      BY <3>2, <2>2, <1>t
    <3> QED
      BY <3>1, <3>2, <2>1
  <2>4. /\ Ack(m.block, m.seq) \in Packet /\ toClient' \subseteq toClient
        /\ toServer' = toServer \cup {Ack(m.block, m.seq)}
        /\ dups' \in 0 .. MaxDups /\ UNCHANGED <<child_vars, client_vars>>
    BY <2>1, <2>2, <1>t, PacketsTyped DEF DownloadTypeOK, ClientReceive, Consume
  <2>5. DownloadTypeOK'
    BY <2>4, <1>t DEF DownloadTypeOK
  <2>6. AckGenuine' /\ DataGenuine'
    BY <2>2, <2>3, <2>4, <1>t DEF DownloadInv, AckGenuine, DataGenuine, Ack
  <2> QED
    BY <2>4, <2>5, <2>6
    DEF DownloadInv, StopAndWait, WaitingState, Waiting, StartState, ClientDone, BytesReachClient
<1>11. ASSUME NEW m \in toClient, ClientError(m) PROVE DownloadInv'
  <2>1. /\ toClient' \subseteq toClient /\ dups' \in 0 .. MaxDups /\ toServer' = toServer
        /\ UNCHANGED child_vars /\ copy' = copy /\ ctries' = ctries /\ cpc' = "gone"
    BY <1>11, <1>t DEF ClientError, ClientReceive, Consume, DownloadTypeOK
  <2> QED
    BY <2>1, <1>t
    DEF child_vars, DownloadInv, DownloadTypeOK, StopAndWait, DataGenuine, AckGenuine,
        WaitingState, Waiting, StartState, ClientDone, BytesReachClient
<1>12. CASE ClientResend
  <2> USE <1>12 DEF ClientResend, SendAck, child_vars
  <2>1. Len(copy) \in 0 .. NumBlocks /\ Wire(Len(copy)) \in BlockNumber
    BY <1>t, WireTyped DEF StopAndWait
  <2>2. Ack(Wire(Len(copy)), Len(copy)) \in Packet
    BY <2>1, PacketsTyped
  <2>3. DownloadTypeOK'
    BY <2>2, <1>t DEF DownloadTypeOK
  <2>4. AckGenuine'
    BY <2>1, <1>t DEF DownloadInv, AckGenuine, Ack
  <2> QED
    BY <2>3, <2>4
    DEF DownloadInv, StopAndWait, DataGenuine, WaitingState, Waiting, StartState, ClientDone,
        BytesReachClient
<1>13. CASE ClientStops
  <2> USE <1>13 DEF ClientStops, child_vars
  <2>1. DownloadTypeOK' /\ AckGenuine'
    BY <1>t, PacketsTyped DEF DownloadInv, DownloadTypeOK, AckGenuine
  <2> QED
    BY <2>1
    DEF DownloadInv, StopAndWait, DataGenuine, WaitingState, Waiting, StartState, ClientDone,
        BytesReachClient
<1>14. CASE UNCHANGED download_vars
  BY <1>14
  DEF download_vars, child_vars, client_vars, DownloadInv, DownloadTypeOK, StopAndWait, DataGenuine, AckGenuine,
      WaitingState, Waiting, StartState, ClientDone, BytesReachClient
<1> QED
  BY <1>1, <1>2, <1>3, <1>4, <1>5, <1>6, <1>7, <1>8, <1>9, <1>10, <1>11, <1>12, <1>13, <1>14
  DEF DownloadNext, ServerNext, ClientNext

-----------------------------------------------------------------------------
THEOREM DownloadInvariant == DownloadSpec => []DownloadInv
  BY DownloadInvInit, DownloadInvNext, PTL DEF DownloadSpec

(* Every variable of the download keeps its type; in particular the child  *)
(* never repeats a block more than MaxRetries times (handle_rrq, 336-352). *)
THEOREM DownloadTypes == DownloadSpec => []DownloadTypeOK
<1>1. DownloadInv => DownloadTypeOK
  BY DEF DownloadInv
<1> QED
  BY <1>1, DownloadInvariant, PTL

(* handle_rrq never runs ahead of its client by more than the chunk in its *)
(* buffer, whatever ACKs are lost, repeated or late, also across wraps of  *)
(* the block number.                                                       *)
THEOREM DownloadStopAndWait == DownloadSpec => []StopAndWait
<1>1. DownloadInv => StopAndWait
  BY DEF DownloadInv
<1> QED
  BY <1>1, DownloadInvariant, PTL

(* "File transfer completed" is only printed when every byte of the file   *)
(* is at the client, for files of every size.                              *)
THEOREM DownloadBytes == DownloadSpec => []BytesReachClient
<1>1. DownloadInv => BytesReachClient
  BY DEF DownloadInv
<1> QED
  BY <1>1, DownloadInvariant, PTL

(* If the file does not end with a full chunk, the client also knows that  *)
(* it has everything.  (Otherwise the empty packet that would tell it is   *)
(* never sent: see the run download_full_tail.)                            *)
THEOREM DownloadComplete ==
  ASSUME ~EmptyTail
  PROVE  DownloadSpec => []CompleteReachesClient
<1>1. DownloadInv => CompleteReachesClient
  <2> SUFFICES ASSUME DownloadInv, outcome = "complete" PROVE Len(copy) = NumBlocks
    BY DEF CompleteReachesClient
  <2>1. Len(copy) >= NumBlocks
    BY DEF DownloadInv, BytesReachClient, Readable
  <2>2. Len(copy) \in Nat /\ Len(copy) <= chunk /\ chunk \in 0 .. NumBlocks
    BY DEF DownloadInv, DownloadTypeOK, StopAndWait
  <2> QED
    BY <2>1, <2>2, PacketAssumption
<1> QED
  BY <1>1, DownloadInvariant, PTL

-----------------------------------------------------------------------------
(* What the child does leaves the transfer alone, but for its beginning.   *)
LEMMA DownloadServerStep ==
  ASSUME DownloadInv, ServerNext
  PROVE  Download!Begin \/ UNCHANGED Download!transfer
<1>1. UNCHANGED client_vars
  BY DEF ServerNext, Reject, Start, EnterRecv, AlarmMissed, Timeout, RecvFails, RecvAck,
         RecvOther, Receive
<1>2. spc' # "start"
  <2>1. ASSUME NEW m \in toServer, RecvAck(m) \/ RecvOther(m) PROVE spc' # "start"
    BY <2>1 DEF RecvAck, RecvOther, Receive, ReadNext, Resend, Transmit, EndChild
  <2>2. CASE Reject \/ Start \/ EnterRecv \/ AlarmMissed \/ Timeout \/ RecvFails
    BY <2>2 DEF Reject, Start, EnterRecv, AlarmMissed, Timeout, RecvFails, ReadNext, GiveUp,
                Resend, Transmit, EndChild
  <2> QED
    BY <2>1, <2>2 DEF ServerNext
<1> QED
  BY <1>1, <1>2 DEF client_vars, DownloadStatus, Download!Begin, Download!transfer

LEMMA DownloadStep == DownloadInv /\ [DownloadNext]_download_vars => [Download!TransferNext]_(Download!transfer)
<1> SUFFICES ASSUME DownloadInv, [DownloadNext]_download_vars
             PROVE  [Download!TransferNext]_(Download!transfer)
  OBVIOUS
<1> USE DEF Download!TransferNext
<1>1. CASE ServerNext
  BY <1>1, DownloadServerStep
<1>2. ASSUME NEW m \in toClient, ClientStores(m) PROVE Download!Store
  <2>1. ClientReceive(m) /\ m.op = "DATA" /\ m.block = Wire(Len(copy) + 1)
    BY <1>2 DEF ClientStores
  <2>2. m.seq = Len(copy) + 1
    BY <2>1, ReceivedData
  <2>3. spc # "start" /\ spc' = spc
    <3>1. m.seq \in 1 .. chunk /\ chunk \in Nat
      BY <2>1 DEF ClientReceive, DownloadInv, DownloadTypeOK, DataGenuine
    <3> QED
      BY <2>1, <3>1 DEF ClientReceive, child_vars, DownloadInv, StartState
  <2>4. /\ cpc = "waiting" /\ copy' = Append(copy, Len(copy) + 1)
        /\ cpc' = IF Len(copy) + 1 = NumBlocks THEN "done" ELSE "waiting"
    BY <1>2, <2>2 DEF ClientStores, Short
  <2> QED
    BY <2>3, <2>4 DEF DownloadStatus, Download!Store
<1>3. ASSUME NEW m \in toClient, ClientRepeats(m) PROVE UNCHANGED Download!transfer
  BY <1>3 DEF ClientRepeats, ClientReceive, child_vars, client_vars, DownloadStatus, Download!transfer
<1>4. ASSUME cpc = "waiting", cpc' = "gone", copy' = copy PROVE Download!Fail
  BY <1>4 DEF DownloadStatus, Download!Fail
<1>5. ASSUME NEW m \in toClient, ClientError(m) PROVE Download!Fail
  BY <1>4, <1>5 DEF ClientError
<1>6. CASE ClientStops
  BY <1>4, <1>6 DEF ClientStops
<1>7. CASE ClientResend \/ UNCHANGED download_vars
  BY <1>7 DEF ClientResend, download_vars, child_vars, client_vars, DownloadStatus, Download!transfer
<1> QED
  BY <1>1, <1>2, <1>3, <1>5, <1>6, <1>7 DEF DownloadNext, ClientNext

(* handle_rrq with its client implements the abstract block transfer: the  *)
(* copy at the client grows by exactly the next chunk, it is called whole  *)
(* exactly with the last, and then it never changes.                       *)
THEOREM DownloadImplements == DownloadSpec => DownloadIsTransfer
<1>1. DownloadInit => Download!TransferInit
  BY DEF DownloadInit, Download!TransferInit, DownloadStatus
<1> QED
  BY <1>1, DownloadStep, DownloadInvariant, PTL DEF DownloadSpec, DownloadIsTransfer, Download!TransferSpec
=============================================================================
