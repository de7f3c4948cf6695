------------------------------ MODULE TftpRead ------------------------------
(***************************************************************************)
(* One download: the child process running handle_rrq of                   *)
(* hw1/tftp_server.c, the client that fetches the file, and the UDP path   *)
(* between them.  The child's program counter is as in TftpWrite: "armed"  *)
(* between alarm(1) and recv, "recv" while blocked, "done" afterwards.     *)
(*                                                                         *)
(* A file of NumBlocks packets is read in NumBlocks pieces, unless its     *)
(* size is a multiple of 512: then the last packet carries no bytes and    *)
(* fread never returns it (EmptyTail).                                     *)
(***************************************************************************)
EXTENDS TftpPackets

CONSTANTS
  EmptyTail,     \* is the file's size a multiple of 512?
  MaxRetries,    \* timeouts of one block before the child gives up, 10 in the code
  ClientRetries, \* ACKs the client repeats unasked for one block
  MaxDups        \* datagrams the network duplicates

ASSUME ReadAssumption ==
  /\ EmptyTail \in BOOLEAN
  /\ MaxRetries \in Nat \ {0}
  /\ ClientRetries \in Nat
  /\ MaxDups \in Nat

VARIABLES
  servable,         \* does the request name octet mode and a readable file?
  spc,              \* program counter of the child
  alarm,            \* is a SIGALRM pending?
  block_number,     \* number of the block in send_buffer
  chunk,            \* chunk in send_buffer; 0 before the first
  retransmit_count,
  outcome,          \* the child's last words
  cpc,              \* client: "waiting", "done" or "gone"
  copy,             \* chunks the client has stored, in order
  ctries,           \* ACKs repeated since the last new chunk
  toServer, toClient, dups

child_vars == <<servable, spc, alarm, block_number, chunk, retransmit_count, outcome>>
client_vars == <<cpc, copy, ctries>>
download_vars == <<child_vars, client_vars, toServer, toClient, dups>>

(* Chunks that fread returns before it reports the end of the file. *)
Readable == IF EmptyTail THEN NumBlocks - 1 ELSE NumBlocks

DownloadTypeOK ==
  /\ servable \in BOOLEAN
  /\ spc \in {"start", "armed", "recv", "done"}
  /\ alarm \in BOOLEAN
  /\ block_number \in BlockNumber
  /\ chunk \in 0 .. NumBlocks
  /\ retransmit_count \in 0 .. MaxRetries
  /\ outcome \in {"none", "rejected", "complete", "timeout", "exit"}
  /\ cpc \in {"waiting", "done", "gone"}
  /\ copy \in Seq(1 .. NumBlocks)
  /\ ctries \in 0 .. ClientRetries
  /\ toServer \subseteq Packet
  /\ toClient \subseteq Packet
  /\ dups \in 0 .. MaxDups

DownloadInit ==
  /\ servable \in BOOLEAN
  /\ spc = "start" /\ alarm = FALSE
  /\ block_number = Wire(1) /\ chunk = 0 /\ retransmit_count = 0
  /\ outcome = "none"
  /\ cpc = "waiting" /\ copy = << >> /\ ctries = 0
  /\ toServer = {} /\ toClient = {} /\ dups = 0

-----------------------------------------------------------------------------
(* The network hands over m: the copy in flight is used up, or the network *)
(* had duplicated it.                                                      *)
Consume(net, m) ==
  \/ net' = net \ {m} /\ dups' = dups
  \/ net' = net /\ dups < MaxDups /\ dups' = dups + 1

(* send(send_buffer) and alarm(1), at the top of the retransmission loop.  *)
Transmit(b, k) ==
  /\ toClient' = toClient \cup {[Data(k) EXCEPT !.block = b]}
  /\ spc' = "armed" /\ alarm' = TRUE
  /\ block_number' = b /\ chunk' = k

EndChild(how) ==
  /\ spc' = "done" /\ alarm' = FALSE /\ outcome' = how
  /\ UNCHANGED chunk

(* A request that is answered with an ERROR packet. *)
Reject ==
  /\ spc = "start" /\ ~servable
  /\ EndChild("rejected")
  /\ toClient' = toClient \cup {Error}
  /\ UNCHANGED <<servable, block_number, retransmit_count, client_vars, toServer, dups>>

(* Top of the outer loop, with k full chunks sent and acknowledged: the    *)
(* next chunk goes out as block b; an empty file gets one empty packet;    *)
(* and at the end of any other file the child is finished.                 *)
ReadNext(b, k) ==
  IF k < Readable \/ k = 0
    THEN /\ Transmit(b, k + 1)
         /\ retransmit_count' = 0
         /\ UNCHANGED outcome
    ELSE /\ EndChild("complete") /\ block_number' = b
         /\ UNCHANGED <<toClient, retransmit_count>>

Start ==
  /\ spc = "start" /\ servable
  /\ ReadNext(block_number, 0)
  /\ UNCHANGED <<servable, client_vars, toServer, dups>>

EnterRecv ==
  /\ spc = "armed" /\ spc' = "recv"
  /\ UNCHANGED <<servable, alarm, block_number, chunk, retransmit_count, outcome>>
  /\ UNCHANGED <<client_vars, toServer, toClient, dups>>

(* The alarm goes off before recv is entered and interrupts nothing. *)
AlarmMissed ==
  /\ spc = "armed" /\ alarm
  /\ alarm' = FALSE
  /\ UNCHANGED <<servable, spc, block_number, chunk, retransmit_count, outcome>>
  /\ UNCHANGED <<client_vars, toServer, toClient, dups>>

(* Faulty: each repetition calls fread again. *)
ResendNextChunk ==
  /\ Transmit(block_number, IF chunk < Readable THEN chunk + 1 ELSE chunk)
  /\ UNCHANGED outcome

(* Another round of the retransmission loop. *)
Resend ==
  /\ Transmit(block_number, chunk)
  /\ UNCHANGED outcome

(* The empty packet of an empty file has no ACK within the limit: the      *)
(* child says so and then that the transfer is complete.                   *)
GiveUp ==
  /\ EndChild(IF chunk > Readable THEN "complete" ELSE "timeout")
  /\ UNCHANGED <<block_number, toClient>>

(* Faulty: the retry counter is only tested, never raised. *)
TimeoutUncounted ==
  /\ spc = "recv" /\ alarm
  /\ Resend
  /\ UNCHANGED <<retransmit_count, servable, client_vars, toServer, dups>>

(* recv is interrupted: send the block again, or give up. *)
Timeout ==
  /\ spc = "recv" /\ alarm
  /\ retransmit_count' = retransmit_count + 1
  /\ IF retransmit_count' = MaxRetries THEN GiveUp ELSE Resend
  /\ UNCHANGED <<servable, client_vars, toServer, dups>>

(* recv returns datagram m, and alarm(0) cancels the alarm. *)
Receive(m) ==
  /\ spc = "recv" /\ m \in toServer /\ Fresh(m, chunk)
  /\ Consume(toServer, m)
  /\ UNCHANGED <<servable, client_vars>>

(* Faulty: any ACK will do. *)
AnyAck(m) == m.op = "ACK"

RightAck(m) == m.op = "ACK" /\ m.block = block_number

(* The ACK of the block just sent: a short chunk, or the empty packet of   *)
(* an empty file, was the last; after a full chunk the loop reads on.      *)
RecvAck(m) ==
  /\ Receive(m) /\ RightAck(m)
  /\ IF chunk = NumBlocks
       THEN /\ EndChild("complete")
            /\ block_number' = IF chunk > Readable THEN block_number ELSE NextBlock(block_number)
            /\ UNCHANGED <<retransmit_count, toClient>>
       ELSE ReadNext(NextBlock(block_number), chunk)

(* Any other packet, an ERROR from the client included, starts another     *)
(* round of the loop: the block is sent again, and no retry is counted.    *)
RecvOther(m) ==
  /\ Receive(m) /\ ~RightAck(m)
  /\ Resend
  /\ UNCHANGED retransmit_count

(* recv fails, for instance because an ICMP error says the client's port   *)
(* is closed: err_sys ends the process.                                    *)
RecvFails ==
  /\ spc = "recv"
  /\ EndChild("exit")
  /\ UNCHANGED <<servable, block_number, retransmit_count>>
  /\ UNCHANGED <<client_vars, toServer, toClient, dups>>

ServerNext ==
  \/ Reject \/ Start \/ EnterRecv \/ AlarmMissed \/ Timeout \/ RecvFails
  \/ \E m \in toServer : RecvAck(m) \/ RecvOther(m)

-----------------------------------------------------------------------------
(* The client, outside the repository: the lock-step receiver of RFC 1350. *)
(* It acknowledges every DATA packet, and stays to do so when it is done.  *)

ClientReceive(m) ==
  /\ m \in toClient /\ Fresh(m, Len(copy) + 1)
  /\ Consume(toClient, m)
  /\ UNCHANGED child_vars

SendAck(b, i) == toServer' = toServer \cup {Ack(b, i)}

ClientStores(m) ==
  /\ cpc = "waiting" /\ ClientReceive(m)
  /\ m.op = "DATA" /\ m.block = Wire(Len(copy) + 1)
  /\ copy' = Append(copy, m.seq)
  /\ SendAck(m.block, m.seq)
  /\ cpc' = IF Short(m) THEN "done" ELSE "waiting"
  /\ ctries' = 0

ClientRepeats(m) ==
  /\ cpc # "gone" /\ ClientReceive(m)
  /\ m.op = "DATA" /\ (cpc = "done" \/ m.block # Wire(Len(copy) + 1))
  /\ SendAck(m.block, m.seq)
  /\ UNCHANGED client_vars

ClientError(m) ==
  /\ cpc = "waiting" /\ ClientReceive(m)
  /\ m.op = "ERROR" /\ cpc' = "gone"
  /\ UNCHANGED <<copy, ctries, toServer>>

ClientResend ==
  /\ cpc = "waiting" /\ copy # << >> /\ ctries < ClientRetries
  /\ ctries' = ctries + 1
  /\ SendAck(Wire(Len(copy)), Len(copy))
  /\ UNCHANGED <<child_vars, cpc, copy, toClient, dups>>

(* The client is interrupted: it says so with an ERROR, or just vanishes. *)
ClientStops ==
  /\ cpc = "waiting" /\ cpc' = "gone"
  /\ toServer' \in {toServer, toServer \cup {Error}}
  /\ UNCHANGED <<child_vars, copy, ctries, toClient, dups>>

ClientNext ==
  \/ ClientResend \/ ClientStops
  \/ \E m \in toClient : ClientStores(m) \/ ClientRepeats(m) \/ ClientError(m)

DownloadNext == ServerNext \/ ClientNext

DownloadSpec == DownloadInit /\ [][DownloadNext]_download_vars

(* The child is an ordinary process and its alarm clock runs; nothing is   *)
(* assumed of the network or of the client.                                *)
DownloadFair ==
  /\ DownloadSpec
  /\ WF_download_vars(Reject \/ Start) /\ WF_download_vars(EnterRecv) /\ WF_download_vars(Timeout)

-----------------------------------------------------------------------------
(* The child moves to a new chunk only when the client has stored the one  *)
(* before, however many stale ACKs arrive.                                 *)
StopAndWait == Len(copy) <= chunk /\ chunk <= Len(copy) + 1

(* "File transfer completed" is only reported of a file the client has in  *)
(* full.                                                                   *)
CompleteReachesClient == outcome = "complete" => Len(copy) = NumBlocks

(* Once begun the child ends, whatever its client does, if each alarm      *)
(* finds it inside recv.                                                   *)
AlarmKept == spc \in {"armed", "recv"} => alarm
ChildEnds == []AlarmKept => (spc # "start" ~> spc = "done")

(* The download is a block transfer whose receiver is the client. *)
DownloadStatus ==
  CASE cpc = "done" -> "whole"
    [] cpc = "gone" -> "failed"
    [] cpc = "waiting" -> IF spc = "start" THEN "idle" ELSE "active"

Download == INSTANCE BlockTransfer WITH Chunks <- NumBlocks, status <- DownloadStatus

DownloadIsTransfer == Download!TransferSpec
=============================================================================
