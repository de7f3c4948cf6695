------------------------------ MODULE FifoQueue ------------------------------
(***************************************************************************)
(* What the job queues of the chatroom server promise: jobs leave in the   *)
(* order they came in, each to one thread, and a job's memory is used      *)
(* again only when that thread has freed it.                               *)
(***************************************************************************)
EXTENDS Sequences

CONSTANTS Jobs, Threads, NoJob

VARIABLES
  queue,  \* jobs pushed and not yet popped
  taken   \* thread -> the job it has popped and not yet freed

vars == <<queue, taken>>

Queued == {queue[i] : i \in DOMAIN queue}
Taken == {taken[t] : t \in Threads}

Init == queue = << >> /\ taken = [t \in Threads |-> NoJob]

Put(j) ==
  /\ j \notin Queued \cup Taken
  /\ queue' = Append(queue, j)
  /\ UNCHANGED taken

Take(t) ==
  /\ queue # << >> /\ taken[t] = NoJob
  /\ taken' = [taken EXCEPT ![t] = Head(queue)]
  /\ queue' = Tail(queue)

Free(t) ==
  /\ taken[t] # NoJob
  /\ taken' = [taken EXCEPT ![t] = NoJob]
  /\ UNCHANGED queue

Next == (\E j \in Jobs : Put(j)) \/ \E t \in Threads : Take(t) \/ Free(t)

Spec == Init /\ [][Next]_vars
=============================================================================
