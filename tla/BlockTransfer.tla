--------------------------- MODULE BlockTransfer ---------------------------
(***************************************************************************)
(* What a TFTP transfer promises, whichever way the file goes: the copy at *)
(* the receiver grows by exactly the next chunk of the file, it is called  *)
(* whole exactly when the last chunk is stored, and a transfer that is     *)
(* whole or given up never changes again.                                  *)
(***************************************************************************)
EXTENDS Naturals, Sequences

CONSTANT Chunks   \* chunks in the whole file

VARIABLES
  copy,     \* chunks stored at the receiver, in order
  status    \* "idle", "active", "whole" or "failed"

transfer == <<copy, status>>

TransferInit == copy = << >> /\ status = "idle"

Begin == status = "idle" /\ status' = "active" /\ UNCHANGED copy

Store ==
  /\ status = "active"
  /\ copy' = Append(copy, Len(copy) + 1)
  /\ status' = IF Len(copy) + 1 = Chunks THEN "whole" ELSE "active"

Fail == status \in {"idle", "active"} /\ status' = "failed" /\ UNCHANGED copy

TransferNext == Begin \/ Store \/ Fail

TransferSpec == TransferInit /\ [][TransferNext]_transfer
=============================================================================
