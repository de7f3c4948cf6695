--------------------------- MODULE MCDownloadEcho ---------------------------
(***************************************************************************)
(* A download that counts what the child of handle_rrq sends again, and    *)
(* why.  One datagram too many may have one block sent twice; the          *)
(* Sorcerer's Apprentice Syndrome is when the second copy draws a second   *)
(* ACK, which has the next block sent twice, and so on to the end of the   *)
(* file.                                                                   *)
(***************************************************************************)
EXTENDS TftpRead

VARIABLES
  echoes,   \* blocks sent again because of a packet that came in
  timeouts  \* blocks sent again because none came

SentAgain == spc = "recv" /\ spc' = "armed" /\ chunk' = chunk
Counted == retransmit_count' # retransmit_count

EchoInit == DownloadInit /\ echoes = 0 /\ timeouts = 0

EchoNext ==
  /\ DownloadNext
  /\ echoes' = IF SentAgain /\ ~Counted THEN echoes + 1 ELSE echoes
  /\ timeouts' = IF SentAgain /\ Counted THEN timeouts + 1 ELSE timeouts

EchoSpec == EchoInit /\ [][EchoNext]_<<download_vars, echoes, timeouts>>

(* What tftp_server.c:332-334 says of a wrong ACK, "ignore and wait for    *)
(* correct one or timeout.  This handles the Sorcerer's Apprentice         *)
(* Syndrome": a datagram that the network duplicated, a block that was     *)
(* sent again after a timeout, or the ERROR of a client that stops has at  *)
(* most one more block repeated, and the repetition goes no further.       *)
EchoDiesOut == echoes <= dups + timeouts + (IF cpc = "gone" THEN 1 ELSE 0)
=============================================================================
