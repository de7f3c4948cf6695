-------------------------- MODULE MCQueueDownload --------------------------
(***************************************************************************)
(* The job queue of hw2 and one download of hw1, which share nothing, in   *)
(* one run: a behaviour is one of ChatQueue and TftpRead, and the          *)
(* variables of the other stay as they are.                                *)
(***************************************************************************)
EXTENDS ChatQueue, TftpRead

VARIABLE part

both_vars == <<part, vars, download_vars>>

(* Every initial state of the part that runs, and one of the other.        *)
BothInit ==
  /\ part \in {"hw1", "hw2"}
  /\ Init /\ DownloadInit
  /\ part = "hw2" => servable

HW2 == part = "hw2" /\ Next /\ UNCHANGED <<part, download_vars>>
HW1 == part = "hw1" /\ DownloadNext /\ UNCHANGED <<part, vars>>

(* A child that has ended stays as it is.                                  *)
ChildEnded == part = "hw1" /\ spc = "done" /\ UNCHANGED both_vars

(* The fairness of each (FairSpec, DownloadFair), while it runs.           *)
QueueFair ==
  /\ \A t \in Threads :
       /\ WF_vars(part = "hw2" /\ Push(t)) /\ WF_vars(part = "hw2" /\ Finish(t))
       /\ SF_vars(part = "hw2" /\ Lock(t))
  /\ \A w \in Workers : WF_vars(part = "hw2" /\ (Loop(w) \/ Pop(w)))
  /\ WF_vars(part = "hw2" /\ TryPop) /\ WF_vars(part = "hw2" /\ Close)
  /\ SF_vars(part = "hw2" /\ HandlerLock) /\ WF_vars(part = "hw2" /\ HandlerClose)
ChildFair ==
  /\ WF_download_vars(part = "hw1" /\ EnterRecv)
  /\ WF_download_vars(part = "hw1" /\ Timeout)

BothSpec == BothInit /\ [][HW1 \/ HW2 \/ ChildEnded]_both_vars /\ QueueFair /\ ChildFair
=============================================================================
