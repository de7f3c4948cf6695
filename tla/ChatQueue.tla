------------------------------ MODULE ChatQueue ------------------------------
(***************************************************************************)
(* The queue of hw2/chatroom_server.c, used for raw lines (main pushes,    *)
(* workers pop) and for broadcasts (workers push, main pops without        *)
(* waiting): a linked list of Job cells under a mutex with a condition     *)
(* variable.  The threads run as in the server: main polls, pushes and     *)
(* closes, producers push, workers loop on q_pop until the queue is        *)
(* closed.  SIGINT runs handle_signal on any one thread.                   *)
(*                                                                         *)
(* Every critical section is two steps, taking the mutex and the section   *)
(* itself, so that a signal can arrive while it is held.                   *)
(***************************************************************************)
EXTENDS Naturals, Sequences, FiniteSets

CONSTANTS
  Main,       \* the thread of the select loop
  Producers,  \* threads that call q_push
  Workers,    \* threads that call q_pop
  Jobs,       \* the Job cells malloc has to give
  Null        \* no cell, no thread

Threads == {Main} \cup Producers \cup Workers

ASSUME QueueAssumption ==
  /\ Main \notin Workers /\ Producers \cap Workers = {}
  /\ Null \notin Jobs \cup Threads
  /\ IsFiniteSet(Workers)

VARIABLES
  head, tail, closed,  \* the fields of Queue
  next,                \* the next field of every Job
  mtx,                 \* the thread that holds the mutex
  pc,                  \* where each thread is
  job,                 \* the Job cell each thread has in hand
  shutdown_flag,
  handler,             \* progress of handle_signal ...
  victim,              \* ... and the thread whose stack it runs on
  contents             \* history: the jobs pushed and not popped, in order

list == <<head, tail, next, contents>>
signal == <<shutdown_flag, handler, victim>>
vars == <<list, closed, mtx, pc, job, signal>>

(* Where a thread stands before it has the mutex, and after.               *)
Locked == [push |-> "pushing", pop |-> "popping", woken |-> "popping",
           try |-> "trying", close |-> "closing"]
Wanting == {"push", "pop", "woken", "try", "close"}
Inside == {"pushing", "popping", "trying", "closing"}

Free == Jobs \ ({contents[i] : i \in DOMAIN contents} \cup {job[t] : t \in Threads})

TypeOK ==
  /\ head \in Jobs \cup {Null} /\ tail \in Jobs \cup {Null}
  /\ next \in [Jobs -> Jobs \cup {Null}]
  /\ closed \in BOOLEAN /\ shutdown_flag \in BOOLEAN
  /\ mtx \in Threads \cup {Null}
  /\ pc \in [Threads -> {"run", "waiting", "holding", "join", "done"} \cup Wanting \cup Inside]
  /\ job \in [Threads -> Jobs \cup {Null}]
  /\ \A t \in Threads : (job[t] # Null) <=> pc[t] \in {"push", "pushing", "holding"}
  /\ handler \in {"off", "wants", "holds", "done"}
  /\ victim \in Threads \cup {Null}
  /\ contents \in Seq(Jobs)

Init ==
  /\ head = Null /\ tail = Null /\ closed = FALSE          \* q_init
  /\ next \in [Jobs -> {Null}]
  /\ mtx = Null
  /\ pc = [t \in Threads |-> "run"]
  /\ job = [t \in Threads |-> Null]
  /\ shutdown_flag = FALSE /\ handler = "off" /\ victim = Null
  /\ contents = << >>

-----------------------------------------------------------------------------
(* The return of main ends every thread; a thread under the signal handler *)
(* waits for it.                                                           *)
Up == pc[Main] # "done"
Runs(t) == Up /\ (handler \in {"off", "done"} \/ victim # t)

Goto(t, where) == pc' = [pc EXCEPT ![t] = where]

Waiting == {t \in Threads : pc[t] = "waiting"}

Lock(t) ==
  /\ Runs(t) /\ pc[t] \in Wanting /\ mtx = Null
  /\ mtx' = t
  /\ Goto(t, Locked[pc[t]])
  /\ UNCHANGED <<list, closed, job, signal>>

Unlock == mtx' = Null

(* pthread_cond_signal: one waiter, if there is any, leaves the condition  *)
(* variable; t goes on to where.                                           *)
Signal(t, where) ==
  IF Waiting = {} THEN Goto(t, where)
  ELSE \E w \in Waiting : pc' = [pc EXCEPT ![t] = where, ![w] = "woken"]

(* pthread_cond_broadcast: all of them do.                                 *)
Woken(p) == [t \in Threads |-> IF p[t] = "waiting" THEN "woken" ELSE p[t]]

(* POSIX lets a waiter wake up without having been signalled.              *)
SpuriousWakeup(w) ==
  /\ Runs(w) /\ pc[w] = "waiting"
  /\ Goto(w, "woken")
  /\ UNCHANGED <<list, closed, mtx, job, signal>>

-----------------------------------------------------------------------------
(* malloc and filling in a job, before q_push.                             *)
NewJob(t) ==
  /\ Runs(t) /\ t \in Producers /\ pc[t] = "run"
  /\ \E j \in Free : job' = [job EXCEPT ![t] = j]
  /\ Goto(t, "push")
  /\ UNCHANGED <<list, closed, mtx, signal>>

(* Faulty: the new job goes to the front. *)
LinkFront(j) ==
  /\ next' = [next EXCEPT ![j] = head]
  /\ head' = j
  /\ tail' = IF tail = Null THEN j ELSE tail

(* The list part of q_push.                                                *)
Link(j) ==
  /\ next' = IF tail = Null THEN [next EXCEPT ![j] = Null]
                            ELSE [next EXCEPT ![j] = Null, ![tail] = j]
  /\ head' = IF tail = Null THEN j ELSE head
  /\ tail' = j

(* Faulty: only a push onto an empty queue signals. *)
PushSignalsFirst(t) ==
  /\ Runs(t) /\ pc[t] = "pushing"
  /\ Link(job[t])
  /\ contents' = Append(contents, job[t])
  /\ job' = [job EXCEPT ![t] = Null]
  /\ IF head = Null THEN Signal(t, "run") ELSE Goto(t, "run")
  /\ Unlock
  /\ UNCHANGED <<closed, signal>>

(* Faulty: nobody is signalled. *)
PushSilent(t) ==
  /\ Runs(t) /\ pc[t] = "pushing"
  /\ Link(job[t])
  /\ contents' = Append(contents, job[t])
  /\ job' = [job EXCEPT ![t] = Null]
  /\ Goto(t, "run")
  /\ Unlock
  /\ UNCHANGED <<closed, signal>>

(* q_push with the mutex held.                                             *)
Push(t) ==
  /\ Runs(t) /\ pc[t] = "pushing"
  /\ Link(job[t])
  /\ contents' = Append(contents, job[t])
  /\ job' = [job EXCEPT ![t] = Null]
  /\ Signal(t, "run")
  /\ Unlock
  /\ UNCHANGED <<closed, signal>>

-----------------------------------------------------------------------------
Rest(s) == SubSeq(s, 2, Len(s))

(* Faulty: the tail is left behind when the list runs empty. *)
TakeHeadKeepsTail(t) ==
  /\ job' = [job EXCEPT ![t] = head]
  /\ head' = next[head]
  /\ contents' = Rest(contents)
  /\ Goto(t, "holding")
  /\ UNCHANGED <<tail, next, closed>>

(* The part q_pop and q_try_pop share once there is a job.                 *)
TakeHead(t) ==
  /\ job' = [job EXCEPT ![t] = head]
  /\ head' = next[head]
  /\ tail' = IF next[head] = Null THEN Null ELSE tail
  /\ contents' = Rest(contents)
  /\ Goto(t, "holding")
  /\ UNCHANGED <<next, closed>>

(* The loop of worker_thread: the flag, then q_pop.                        *)
Loop(w) ==
  /\ Runs(w) /\ w \in Workers /\ pc[w] = "run"
  /\ Goto(w, IF shutdown_flag THEN "done" ELSE "pop")
  /\ UNCHANGED <<list, closed, mtx, job, signal>>

(* q_pop with the mutex held, up to the wait or the return.                *)
Pop(w) ==
  /\ Runs(w) /\ pc[w] = "popping"
  /\ \/ /\ head = Null
        /\ Goto(w, IF closed THEN "done" ELSE "waiting")
        /\ UNCHANGED <<list, closed, job>>
     \/ head # Null /\ TakeHead(w)
  /\ Unlock
  /\ UNCHANGED signal

(* main starts a round of q_try_pop.                                       *)
Poll ==
  /\ Runs(Main) /\ pc[Main] = "run"
  /\ Goto(Main, "try")
  /\ UNCHANGED <<list, closed, mtx, job, signal>>

(* q_try_pop with the mutex held.                                          *)
TryPop ==
  /\ Runs(Main) /\ pc[Main] = "trying"
  /\ \/ /\ head = Null
        /\ Goto(Main, "run")
        /\ UNCHANGED <<list, closed, job>>
     \/ head # Null /\ TakeHead(Main)
  /\ Unlock
  /\ UNCHANGED signal

(* A popped job is processed or broadcast, and freed.                      *)
Finish(t) ==
  /\ Runs(t) /\ pc[t] = "holding"
  /\ job' = [job EXCEPT ![t] = Null]
  /\ Goto(t, "run")
  /\ UNCHANGED <<list, closed, mtx, signal>>

-----------------------------------------------------------------------------
(* main leaves the select loop, because of the flag or because select      *)
(* failed, and closes the queue if the handler has not.                    *)
LeaveLoop ==
  /\ Runs(Main) /\ pc[Main] = "run"
  /\ Goto(Main, IF closed THEN "join" ELSE "close")
  /\ UNCHANGED <<list, closed, mtx, job, signal>>

(* Faulty: q_close wakes one waiter only. *)
CloseSignals ==
  /\ Runs(Main) /\ pc[Main] = "closing"
  /\ closed' = TRUE
  /\ Signal(Main, "join")
  /\ Unlock
  /\ UNCHANGED <<list, job, signal>>

(* q_close with the mutex held, called by main.                            *)
Close ==
  /\ Runs(Main) /\ pc[Main] = "closing"
  /\ closed' = TRUE
  /\ pc' = [Woken(pc) EXCEPT ![Main] = "join"]
  /\ Unlock
  /\ UNCHANGED <<list, job, signal>>

(* pthread_join on every worker, and the end of main.                      *)
Join ==
  /\ Runs(Main) /\ pc[Main] = "join" /\ \A w \in Workers : pc[w] = "done"
  /\ Goto(Main, "done")
  /\ UNCHANGED <<list, closed, mtx, job, signal>>

(* SIGINT is delivered to a thread: handle_signal sets the flag and calls  *)
(* q_close.  Bound: it comes once (a second call would change nothing).    *)
Interrupt(t) ==
  /\ Up /\ handler = "off" /\ pc[t] # "done"
  /\ shutdown_flag' = TRUE /\ handler' = "wants" /\ victim' = t
  /\ UNCHANGED <<list, closed, mtx, pc, job>>

HandlerLock ==
  /\ Up /\ handler = "wants" /\ mtx = Null
  /\ mtx' = victim /\ handler' = "holds"
  /\ UNCHANGED <<list, closed, pc, job, shutdown_flag, victim>>

(* Faulty: the handler leaves the waiters asleep. *)
HandlerCloseSilent ==
  /\ Up /\ handler = "holds"
  /\ closed' = TRUE
  /\ handler' = "done"
  /\ Unlock
  /\ UNCHANGED <<list, pc, job, shutdown_flag, victim>>

(* q_close with the mutex held, called by the handler.                     *)
HandlerClose ==
  /\ Up /\ handler = "holds"
  /\ closed' = TRUE
  /\ pc' = Woken(pc)
  /\ handler' = "done"
  /\ Unlock
  /\ UNCHANGED <<list, job, shutdown_flag, victim>>

(* handle_signal waits for a mutex its own thread holds.                   *)
SelfDeadlock == handler = "wants" /\ mtx = victim

(* The program is over, or hangs in its handler.                           *)
Finished == (~Up \/ SelfDeadlock) /\ UNCHANGED vars

MainStep == Poll \/ TryPop \/ LeaveLoop \/ Close \/ Join
HandlerStep == HandlerLock \/ HandlerClose

Next ==
  \/ \E t \in Threads : Lock(t) \/ SpuriousWakeup(t) \/ NewJob(t) \/ Push(t) \/ Finish(t)
                          \/ Interrupt(t)
  \/ \E w \in Workers : Loop(w) \/ Pop(w)
  \/ MainStep \/ HandlerStep \/ Finished

Spec == Init /\ [][Next]_vars

(* The threads keep running, and a mutex that is free again and again is   *)
(* got in the end.  Nothing makes producers push or the loop of main end.  *)
FairSpec ==
  /\ Spec
  /\ \A t \in Threads : WF_vars(Push(t)) /\ WF_vars(Finish(t)) /\ SF_vars(Lock(t))
  /\ \A w \in Workers : WF_vars(Loop(w) \/ Pop(w))
  /\ WF_vars(TryPop) /\ WF_vars(Close)
  /\ SF_vars(HandlerLock) /\ WF_vars(HandlerClose)

-----------------------------------------------------------------------------
(* The list reached from head is what was pushed and not popped, in order. *)
Chain ==
  /\ contents = << >> => head = Null /\ tail = Null
  /\ contents # << >> => head = contents[1] /\ tail = contents[Len(contents)]
  /\ \A i \in DOMAIN contents :
       next[contents[i]] = IF i < Len(contents) THEN contents[i + 1] ELSE Null

(* No cell is in the list twice, or in the list and in a thread's hands,   *)
(* or in the hands of two threads.                                         *)
OneOwner ==
  /\ \A i, k \in DOMAIN contents : contents[i] = contents[k] => i = k
  /\ \A t \in Threads, i \in DOMAIN contents : job[t] # contents[i]
  /\ \A t, u \in Threads : job[t] = job[u] /\ job[t] # Null => t = u

(* The linked list is sound: nothing is lost, repeated or freed too early. *)
Linked == Chain /\ OneOwner

(* No wakeup is lost: while a worker sleeps, every job in the queue has a  *)
(* worker of its own that was woken and has yet to look.                   *)
NoneStranded ==
  (\E w \in Workers : pc[w] = "waiting") =>
    Len(contents) <= Cardinality({w \in Workers : pc[w] = "woken" \/ pc[w] = "popping"})

(* The linked list behaves as a FIFO queue that hands each job to one      *)
(* thread.                                                                 *)
Fifo == INSTANCE FifoQueue WITH
  queue <- contents, NoJob <- Null,
  taken <- [t \in Threads |-> IF pc[t] = "holding" THEN job[t] ELSE Null]
QueueIsFifo == Fifo!Spec

Queued(j) == \E i \in DOMAIN contents : contents[i] = j

(* A job that is queued before the close is taken, unless SIGINT told the  *)
(* workers to stop.                                                        *)
JobsTaken == \A j \in Jobs : Queued(j) /\ ~closed ~> shutdown_flag \/ ~Queued(j)

PoolDone == \A w \in Workers : pc[w] = "done"

(* After a close, by whom it may be, every worker returns, unless jobs     *)
(* keep coming: none sleeps on.                                            *)
CloseEndsPool ==
  []~SelfDeadlock /\ <>[](\A p \in Producers : pc[p] # "pushing") => (closed ~> PoolDone)

(* SIGINT ends the workers, unless it hits a thread inside a queue.        *)
InterruptEndsPool == []~SelfDeadlock => (shutdown_flag ~> PoolDone)
=============================================================================
