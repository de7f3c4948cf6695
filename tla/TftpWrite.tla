----------------------------- MODULE TftpWrite -----------------------------
(***************************************************************************)
(* One upload: the child process running handle_wrq of hw1/tftp_server.c,  *)
(* the client that sends the file, and the UDP path between them.          *)
(*                                                                         *)
(* The child is at "start" until it has answered the request, "armed"      *)
(* between alarm(1) and the recv that follows it, "recv" while blocked in  *)
(* that recv, and "done" when handle_wrq has returned or the process has   *)
(* exited.  The window between "armed" and "recv" is where a SIGALRM is    *)
(* taken without interrupting anything.                                    *)
(*                                                                         *)
(* The network is a set of datagrams in flight.  A datagram that is never  *)
(* received is lost; receiving may leave a copy behind (MaxDups times);    *)
(* any datagram in flight may be received next.                            *)
(***************************************************************************)
EXTENDS TftpPackets

CONSTANTS
  MaxRetries,    \* retransmissions before the child gives up, 10 in the code
  ClientRetries, \* retransmissions of one block by the client
  MaxDups        \* datagrams the network duplicates

ASSUME WriteAssumption ==
  /\ MaxRetries \in Nat \ {0}
  /\ ClientRetries \in Nat
  /\ MaxDups \in Nat

VARIABLES
  spc,              \* program counter of the child
  mode,             \* transfer mode named by the request
  alarm,            \* is a SIGALRM pending?
  block_number,     \* next block the child expects
  retransmit_count,
  file,             \* chunks fwritten, in order
  disk,             \* what the requested name denotes
  outcome,          \* how the child ended
  cpc,              \* client: "waiting", "done" or "gone"
  cseq,             \* last chunk the client has sent; 0 for the request
  ctries,           \* client retransmissions of that chunk
  toServer, toClient, dups

child_vars == <<spc, mode, alarm, block_number, retransmit_count, file, disk, outcome>>
client_vars == <<cpc, cseq, ctries>>
upload_vars == <<child_vars, client_vars, toServer, toClient, dups>>

Outcomes == {"none", "rejected", "complete", "timeout", "error", "unexpected", "exit"}

UploadTypeOK ==
  /\ spc \in {"start", "armed", "recv", "done"}
  /\ mode \in {"octet", "other"}
  /\ alarm \in BOOLEAN
  /\ block_number \in BlockNumber
  /\ retransmit_count \in 0 .. MaxRetries
  /\ file \in Seq(1 .. NumBlocks)
  /\ disk \in {"absent", "other", "upload"}
  /\ outcome \in Outcomes
  /\ cpc \in {"waiting", "done", "gone"}
  /\ cseq \in 0 .. NumBlocks
  /\ ctries \in 0 .. ClientRetries
  /\ toServer \subseteq Packet
  /\ toClient \subseteq Packet
  /\ dups \in 0 .. MaxDups

UploadInit ==
  /\ spc = "start" /\ mode \in {"octet", "other"}
  /\ alarm = FALSE
  /\ block_number = 0 /\ retransmit_count = 0
  /\ file = << >> /\ disk \in {"absent", "other"}
  /\ outcome = "none"
  /\ cpc = "waiting" /\ cseq = 0 /\ ctries = 0
  /\ toServer = {} /\ toClient = {} /\ dups = 0

-----------------------------------------------------------------------------
(* The network hands over m: the copy in flight is used up, or the network *)
(* had duplicated it.                                                      *)
Consume(net, m) ==
  \/ net' = net \ {m} /\ dups' = dups
  \/ net' = net /\ dups < MaxDups /\ dups' = dups + 1

Reply(m) == toClient' = toClient \cup {m}

(* Top of the receive loop: timeout_occured = 0; alarm(1). *)
Arm(b) == spc' = "armed" /\ alarm' = TRUE /\ block_number' = b

EndChild(how) ==
  /\ spc' = "done" /\ alarm' = FALSE /\ outcome' = how
  /\ UNCHANGED <<block_number, mode>>

(* A request the handler answers with an ERROR packet: not octet mode, the *)
(* file is already there, or fopen fails.                                  *)
Reject ==
  /\ spc = "start"
  /\ EndChild("rejected")
  /\ Reply(Error)
  /\ UNCHANGED <<retransmit_count, file, disk, client_vars, toServer, dups>>

(* access(filename) found nothing and fopen succeeded: the file exists     *)
(* from here on, ACK(0) goes out and the child waits for block 1.          *)
AcceptUpload ==
  /\ spc = "start" /\ mode = "octet" /\ disk = "absent"
  /\ disk' = "upload"
  /\ Reply(Ack(0, 0))
  /\ Arm(Wire(1))
  /\ UNCHANGED <<mode, retransmit_count, file, outcome, client_vars, toServer, dups>>

EnterRecv ==
  /\ spc = "armed" /\ spc' = "recv"
  /\ UNCHANGED <<mode, alarm, block_number, retransmit_count, file, disk, outcome>>
  /\ UNCHANGED <<client_vars, toServer, toClient, dups>>

(* The alarm goes off before recv is entered: sig_alrm runs, nothing is    *)
(* interrupted, and no alarm is left for the recv about to start.          *)
AlarmMissed ==
  /\ spc = "armed" /\ alarm
  /\ alarm' = FALSE
  /\ UNCHANGED <<spc, mode, block_number, retransmit_count, file, disk, outcome>>
  /\ UNCHANGED <<client_vars, toServer, toClient, dups>>

(* Faulty: repeats the ACK of the block it is still waiting for. *)
RepeatExpected == Ack(block_number, Len(file))

(* The ACK that a timeout sends again: htons(block_number - 1). *)
Repeat == Ack(PrevBlock(block_number), Len(file))

(* Faulty: the retry counter is only tested, never raised. *)
TimeoutUncounted ==
  /\ spc = "recv" /\ alarm
  /\ Reply(Repeat) /\ Arm(block_number)
  /\ UNCHANGED <<mode, retransmit_count, disk, outcome, file, client_vars, toServer, dups>>

(* recv is interrupted: repeat the previous ACK, and give up with the file *)
(* removed once MaxRetries repeats have gone unanswered.                   *)
Timeout ==
  /\ spc = "recv" /\ alarm
  /\ Reply(Repeat)
  /\ retransmit_count' = retransmit_count + 1
  /\ IF retransmit_count' = MaxRetries
       THEN EndChild("timeout") /\ disk' = "absent"
       ELSE Arm(block_number) /\ UNCHANGED <<mode, disk, outcome>>
  /\ UNCHANGED <<file, client_vars, toServer, dups>>

(* recv returns datagram m, and alarm(0) cancels the alarm. *)
TakeDatagram(m) ==
  /\ spc = "recv" /\ m \in toServer /\ Fresh(m, Len(file) + 1)
  /\ Consume(toServer, m)

RecvExpected(m) ==
  /\ TakeDatagram(m)
  /\ m.op = "DATA" /\ m.block = block_number
  /\ file' = Append(file, m.seq)
  /\ Reply(Ack(block_number, m.seq))
  /\ IF Short(m)
       THEN EndChild("complete") /\ UNCHANGED retransmit_count
       ELSE /\ Arm(NextBlock(block_number)) /\ retransmit_count' = 0
            /\ UNCHANGED <<mode, outcome>>
  /\ UNCHANGED <<disk, client_vars>>

(* Faulty: an older block is written to the file again. *)
RecvDuplicateWrites(m) ==
  /\ TakeDatagram(m)
  /\ m.op = "DATA" /\ m.block < block_number
  /\ file' = Append(file, m.seq)
  /\ Reply(Ack(m.block, m.seq))
  /\ Arm(block_number) /\ retransmit_count' = 0
  /\ UNCHANGED <<mode, disk, outcome, client_vars>>

(* An older block: its ACK may have been lost, so send it again. *)
RecvDuplicate(m) ==
  /\ TakeDatagram(m)
  /\ m.op = "DATA" /\ m.block < block_number
  /\ Reply(Ack(m.block, m.seq))
  /\ Arm(block_number) /\ retransmit_count' = 0
  /\ UNCHANGED <<mode, file, disk, outcome, client_vars>>

(* Faulty: any block but the expected one ends the transfer. *)
RecvRefusedOlder(m) ==
  /\ TakeDatagram(m)
  /\ \/ m.op # "DATA" /\ EndChild("error")
     \/ m.op = "DATA" /\ m.block # block_number /\ EndChild("unexpected")
  /\ Reply(Error)
  /\ UNCHANGED <<retransmit_count, file, disk, client_vars>>

(* A block number above the expected one, or a packet that is not DATA:    *)
(* answer with ERROR and stop, keeping what was written.                   *)
RecvRefused(m) ==
  /\ TakeDatagram(m)
  /\ \/ m.op # "DATA" /\ EndChild("error")
     \/ m.op = "DATA" /\ m.block > block_number /\ EndChild("unexpected")
  /\ Reply(Error)
  /\ UNCHANGED <<retransmit_count, file, disk, client_vars>>

(* recv fails, for instance because an ICMP error says the client's port   *)
(* is closed: err_sys ends the process there and then.                     *)
RecvFails ==
  /\ spc = "recv"
  /\ EndChild("exit")
  /\ UNCHANGED <<retransmit_count, file, disk, client_vars, toServer, toClient, dups>>

ServerNext ==
  \/ Reject \/ AcceptUpload \/ EnterRecv \/ AlarmMissed \/ Timeout \/ RecvFails
  \/ \E m \in toServer : RecvExpected(m) \/ RecvDuplicate(m) \/ RecvRefused(m)

-----------------------------------------------------------------------------
(* The client, outside the repository: the lock-step sender of RFC 1350.   *)

ClientReceive(m) ==
  /\ cpc = "waiting" /\ m \in toClient /\ Fresh(m, cseq)
  /\ Consume(toClient, m)
  /\ UNCHANGED child_vars

(* The ACK it waits for: send the next block, or finish after the last. *)
ClientAck(m) ==
  /\ ClientReceive(m)
  /\ m.op = "ACK" /\ m.block = Wire(cseq)
  /\ ctries' = 0
  /\ IF cseq = NumBlocks
       THEN cpc' = "done" /\ UNCHANGED <<cseq, toServer>>
       ELSE /\ cseq' = cseq + 1
            /\ toServer' = toServer \cup {Data(cseq + 1)}
            /\ UNCHANGED cpc

ClientIgnore(m) ==
  /\ ClientReceive(m)
  /\ m.op = "ACK" /\ m.block # Wire(cseq)
  /\ UNCHANGED <<client_vars, toServer>>

ClientError(m) ==
  /\ ClientReceive(m)
  /\ m.op = "ERROR" /\ cpc' = "gone"
  /\ UNCHANGED <<cseq, ctries, toServer>>

ClientResend ==
  /\ cpc = "waiting" /\ cseq > 0 /\ ctries < ClientRetries
  /\ ctries' = ctries + 1
  /\ toServer' = toServer \cup {Data(cseq)}
  /\ UNCHANGED <<child_vars, cpc, cseq, toClient, dups>>

(* The client is interrupted: it says so with an ERROR, or just vanishes. *)
ClientStops ==
  /\ cpc = "waiting" /\ cpc' = "gone"
  /\ toServer' \in {toServer, toServer \cup {Error}}
  /\ UNCHANGED <<child_vars, cseq, ctries, toClient, dups>>

ClientNext ==
  \/ ClientResend \/ ClientStops
  \/ \E m \in toClient : ClientAck(m) \/ ClientIgnore(m) \/ ClientError(m)

UploadNext == ServerNext \/ ClientNext

UploadSpec == UploadInit /\ [][UploadNext]_upload_vars

(* The child is an ordinary process and its alarm clock runs; nothing is   *)
(* assumed of the network or of the client.                                *)
UploadFair ==
  /\ UploadSpec
  /\ WF_upload_vars(Reject \/ AcceptUpload) /\ WF_upload_vars(EnterRecv) /\ WF_upload_vars(Timeout)

-----------------------------------------------------------------------------
(* The stored file is at every moment a prefix of the client's: no block   *)
(* is missing, repeated or out of order, whatever the network did.         *)
PrefixWritten == \A i \in 1 .. Len(file) : file[i] = i

(* The child reports "File transfer completed" only with the whole file.   *)
CompleteIsWhole == outcome = "complete" => Len(file) = NumBlocks

(* The client never moves past a block the child has not stored, and when  *)
(* it believes the upload finished the whole file is there and stays.      *)
AckedIsStored ==
  /\ cseq <= Len(file) + 1
  /\ cpc = "done" => Len(file) = NumBlocks /\ disk = "upload"

(* A client that keeps to the protocol can only make the child abort with  *)
(* "Unexpected block number" when block numbers have wrapped: until then   *)
(* no packet, however often repeated, is taken for one from the future.    *)
AbortOnlyAfterWrap == outcome = "unexpected" => Len(file) >= BlockMod - 1

(* A file that was there before the upload is never opened, written or     *)
(* removed by it.                                                          *)
NeverClobbers == [][disk = "other" => disk' = "other"]_upload_vars

(* Once begun the child ends, whatever its client does, if each alarm      *)
(* finds it inside recv.                                                   *)
AlarmKept == spc \in {"armed", "recv"} => alarm
ChildEnds == []AlarmKept => (spc # "start" ~> spc = "done")

(* The upload is a block transfer whose receiver is the child. *)
UploadStatus ==
  CASE outcome = "complete" -> "whole"
    [] outcome \in Outcomes \ {"none", "complete"} -> "failed"
    [] outcome = "none" -> IF spc = "start" THEN "idle" ELSE "active"

Upload == INSTANCE BlockTransfer WITH Chunks <- NumBlocks, copy <- file, status <- UploadStatus

UploadIsTransfer == Upload!TransferSpec
=============================================================================
