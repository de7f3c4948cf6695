------------------------------ MODULE MCParts ------------------------------
(***************************************************************************)
(* Six parts of the repository that share nothing, in one run: a behaviour *)
(* is one of TftpListener, TftpWrite, RouterTable, MessageBoard, FibServer *)
(* and RouteGuide, and the variables of the other five stay as they are.   *)
(***************************************************************************)
EXTENDS TftpListener, TftpWrite, MCRouterTable, MessageBoard, FibServer, RouteGuide

VARIABLE part

part_vars == <<part, vars, upload_vars, table_vars, board_vars, fib_vars, guide_vars>>

Parts == {"hw1", "upload", "hw3", "lab3", "lab4", "lab8"}

(* Every initial state of the part that runs, and one of each other.       *)
PartsInit ==
  /\ part \in Parts
  /\ Init /\ UploadInit /\ TableInit /\ BoardInit /\ FibInit /\ GuideInit
  /\ part # "hw1" => dir = [f \in Files |-> 0]
  /\ part # "upload" => mode = "octet" /\ disk = "absent"
  /\ part # "lab8" => \A c \in Readers : asked[c].id = 0

HW1 ==
  /\ part = "hw1" /\ Next
  /\ UNCHANGED <<part, upload_vars, table_vars, board_vars, fib_vars, guide_vars>>
HW1Upload ==
  /\ part = "upload" /\ UploadNext
  /\ UNCHANGED <<part, vars, table_vars, board_vars, fib_vars, guide_vars>>
HW3 ==
  /\ part = "hw3" /\ TableNext
  /\ UNCHANGED <<part, vars, upload_vars, board_vars, fib_vars, guide_vars>>
Lab3 ==
  /\ part = "lab3" /\ BoardNext
  /\ UNCHANGED <<part, vars, upload_vars, table_vars, fib_vars, guide_vars>>
Lab4 ==
  /\ part = "lab4" /\ FibNext
  /\ UNCHANGED <<part, vars, upload_vars, table_vars, board_vars, guide_vars>>
Lab8 ==
  /\ part = "lab8" /\ GuideNext
  /\ UNCHANGED <<part, vars, upload_vars, table_vars, board_vars, fib_vars>>

(* The fairness of each (UploadFair, BoardFair, FibFair), while it runs.   *)
PartsFair ==
  /\ WF_upload_vars(part = "upload" /\ EnterRecv) /\ WF_upload_vars(part = "upload" /\ Timeout)
  /\ WF_board_vars(part = "lab3" /\ BoardLoop)
  /\ \A c \in Clients :
       /\ WF_fib_vars(part = "lab4" /\ AcceptClient(c)) /\ WF_fib_vars(part = "lab4" /\ Handle(c))
       /\ \A i \in Workers : WF_fib_vars(part = "lab4" /\ Work(c, i))

PartsSpec == PartsInit /\ [][HW1 \/ HW1Upload \/ HW3 \/ Lab3 \/ Lab4 \/ Lab8]_part_vars /\ PartsFair
=============================================================================
