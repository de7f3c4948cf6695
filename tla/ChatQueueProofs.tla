--------------------------- MODULE ChatQueueProofs ---------------------------
(***************************************************************************)
(* Theorems about the queue of the chatroom server, for any number of      *)
(* producers, workers and jobs: its list is sound, no wakeup is lost, and  *)
(* it implements FifoQueue.                                                *)
(*                                                                         *)
(* The inductive invariant is TypeOK, Roles and Linked: a thread is only   *)
(* where its kind of thread can be, and the list is sound.                 *)
(***************************************************************************)
EXTENDS ChatQueue, FiniteSetTheorems, SequenceTheorems, TLAPS

(* Only workers wait or are woken: main never sleeps on a queue.           *)
Roles ==
  \A t \in Threads : pc[t] \in {"pop", "popping", "waiting", "woken"} => t \in Workers

QueueInv == TypeOK /\ Roles /\ Linked

Awake == {w \in Workers : pc[w] = "woken" \/ pc[w] = "popping"}

-----------------------------------------------------------------------------
(* What one signal does: the caller goes on, and if anybody waits, one     *)
(* waiter is woken.                                                        *)
LEMMA SignalFacts ==
  ASSUME TypeOK, NEW t \in Threads, NEW where, pc[t] # "waiting",
         Signal(t, where)
  PROVE  \/ Waiting = {} /\ pc' = [pc EXCEPT ![t] = where]
         \/ \E w \in Threads \ {t} :
              pc[w] = "waiting" /\ pc' = [pc EXCEPT ![t] = where, ![w] = "woken"]
<1>1. CASE Waiting = {}
  BY <1>1 DEF Signal, Goto
<1>2. CASE Waiting # {}
  <2>1. PICK w \in Waiting : pc' = [pc EXCEPT ![t] = where, ![w] = "woken"]
    BY <1>2 DEF Signal
  <2> QED
    BY <2>1 DEF Waiting
<1> QED
  BY <1>1, <1>2

(* What is left of a queue after its first job.                            *)
LEMMA RestFacts ==
  ASSUME NEW S, NEW s \in Seq(S), s # << >>
  PROVE  /\ Rest(s) = Tail(s)
         /\ Rest(s) \in Seq(S)
         /\ Len(Rest(s)) = Len(s) - 1
         /\ \A i \in 1 .. Len(Rest(s)) : Rest(s)[i] = s[i + 1]
BY HeadTailProperties, TailIsSubSeq DEF Rest

-----------------------------------------------------------------------------
LEMMA QueueTypesInit ==
  ASSUME Init
  PROVE  TypeOK /\ Roles
<1>1. next \in [Jobs -> Jobs \cup {Null}] /\ contents \in Seq(Jobs)
  BY DEF Init
<1>2. /\ pc \in [Threads -> {"run"}] /\ \A t \in Threads : pc[t] = "run"
      /\ job \in [Threads -> {Null}] /\ \A t \in Threads : job[t] = Null
  BY DEF Init
<1> QED
  BY <1>1, <1>2 DEF Init, TypeOK, Roles, Wanting, Inside

LEMMA TakeHeadTypes ==
  ASSUME TypeOK, Roles, NEW t \in Threads, pc[t] \in {"popping", "trying"},
         head # Null, TakeHead(t), mtx' = Null, UNCHANGED signal
  PROVE  TypeOK' /\ Roles'
<1>1. contents' \in Seq(Jobs)
  <2>1. CASE contents = << >>
    <3>1. Len(contents) = 0
      BY <2>1
    <3> QED
      BY <3>1, SubSeqEmpty DEF TakeHead, Rest
  <2>2. CASE contents # << >>
    BY <2>2, RestFacts DEF TakeHead, TypeOK
  <2> QED
    BY <2>1, <2>2
<1> QED
  BY <1>1 DEF TakeHead, Goto, TypeOK, Roles, signal, Wanting, Inside

LEMMA PushTypes ==
  ASSUME TypeOK, Roles, NEW t \in Threads, Push(t)
  PROVE  TypeOK' /\ Roles'
<1>1. job[t] \in Jobs
  BY DEF Push, TypeOK
<1>2. /\ contents' \in Seq(Jobs)
      /\ next' \in [Jobs -> Jobs \cup {Null}]
      /\ head' \in Jobs \cup {Null} /\ tail' \in Jobs \cup {Null}
  BY <1>1, AppendProperties DEF Push, Link, TypeOK
<1>3. \/ pc' = [pc EXCEPT ![t] = "run"]
      \/ \E w \in Threads \ {t} :
           pc[w] = "waiting" /\ pc' = [pc EXCEPT ![t] = "run", ![w] = "woken"]
  BY SignalFacts DEF Push
<1>4. pc[t] = "pushing" /\ job' = [job EXCEPT ![t] = Null]
  BY DEF Push
<1>5. UNCHANGED <<closed, shutdown_flag, handler, victim>> /\ mtx' = Null
  BY DEF Push, signal, Unlock
<1> QED
  BY <1>2, <1>3, <1>4, <1>5 DEF TypeOK, Roles, Wanting, Inside

LEMMA QueueTypesStep ==
  ASSUME TypeOK, Roles, [Next]_vars
  PROVE  TypeOK' /\ Roles'
<1> USE DEF Goto, list, signal
<1>0. Main \in Threads
  BY DEF Threads
<1>1. ASSUME NEW t \in Threads, Lock(t)
      PROVE  TypeOK' /\ Roles'
  BY <1>1 DEF Lock, Locked, TypeOK, Roles, Wanting, Inside
<1>2. ASSUME NEW t \in Threads, SpuriousWakeup(t)
      PROVE  TypeOK' /\ Roles'
  BY <1>2 DEF SpuriousWakeup, TypeOK, Roles, Wanting, Inside
<1>3. ASSUME NEW t \in Threads, NewJob(t)
      PROVE  TypeOK' /\ Roles'
  BY <1>3, QueueAssumption DEF NewJob, Free, TypeOK, Roles, Wanting, Inside
<1>4. ASSUME NEW t \in Threads, Push(t)
      PROVE  TypeOK' /\ Roles'
  BY <1>4, PushTypes
<1>5. ASSUME NEW t \in Threads, Finish(t)
      PROVE  TypeOK' /\ Roles'
  BY <1>5 DEF Finish, TypeOK, Roles, Wanting, Inside
<1>6. ASSUME NEW t \in Threads, Interrupt(t)
      PROVE  TypeOK' /\ Roles'
  BY <1>6 DEF Interrupt, TypeOK, Roles
<1>7. ASSUME NEW w \in Workers, Loop(w)
      PROVE  TypeOK' /\ Roles'
  BY <1>7 DEF Loop, TypeOK, Roles, Wanting, Inside, Threads
<1>8. ASSUME NEW w \in Workers, Pop(w)
      PROVE  TypeOK' /\ Roles'
  <2>1. w \in Threads /\ pc[w] = "popping" /\ mtx' = Null /\ UNCHANGED signal
    BY <1>8 DEF Pop, Unlock, Threads
  <2>2. CASE head = Null
    BY <1>8, <2>1, <2>2 DEF Pop, TypeOK, Roles, Wanting, Inside
  <2>3. CASE head # Null
    <3>1. TakeHead(w)
      BY <1>8, <2>3 DEF Pop
    <3> QED
      BY <2>1, <2>3, <3>1, TakeHeadTypes
  <2> QED
    BY <2>2, <2>3
<1>9. CASE Poll
  BY <1>0, <1>9 DEF Poll, TypeOK, Roles, Wanting, Inside
<1>10. CASE TryPop
  <2>1. pc[Main] = "trying" /\ mtx' = Null /\ UNCHANGED signal
    BY <1>10 DEF TryPop, Unlock
  <2>2. CASE head = Null
    BY <1>0, <1>10, <2>1, <2>2 DEF TryPop, TypeOK, Roles, Wanting, Inside
  <2>3. CASE head # Null
    <3>1. TakeHead(Main)
      BY <1>10, <2>3 DEF TryPop
    <3> QED
      BY <1>0, <2>1, <2>3, <3>1, TakeHeadTypes
  <2> QED
    BY <2>2, <2>3
<1>11. CASE LeaveLoop
  BY <1>0, <1>11 DEF LeaveLoop, TypeOK, Roles, Wanting, Inside
<1>12. CASE Close
  BY <1>0, <1>12 DEF Close, Woken, Unlock, TypeOK, Roles, Wanting, Inside
<1>13. CASE Join
  BY <1>0, <1>13 DEF Join, TypeOK, Roles, Wanting, Inside
<1>14. CASE HandlerLock
  BY <1>14 DEF HandlerLock, TypeOK, Roles
<1>15. CASE HandlerClose
  BY <1>15 DEF HandlerClose, Woken, Unlock, TypeOK, Roles, Wanting, Inside
<1>16. CASE UNCHANGED vars
  BY <1>16 DEF vars, TypeOK, Roles
<1> QED
  BY <1>1, <1>2, <1>3, <1>4, <1>5, <1>6, <1>7, <1>8, <1>9, <1>10, <1>11, <1>12, <1>13,
     <1>14, <1>15, <1>16
  DEF Next, MainStep, HandlerStep, Finished

-----------------------------------------------------------------------------
(* The steps that touch the list keep it sound.                            *)
LEMMA EmptyList ==
  ASSUME TypeOK, Chain
  PROVE  (contents = << >> <=> head = Null) /\ (contents = << >> <=> tail = Null)
<1>1. CASE contents = << >>
  BY <1>1 DEF Chain
<1>2. CASE contents # << >>
  <2>1. Len(contents) \in Nat \ {0}
    BY <1>2, EmptySeq, LenProperties DEF TypeOK
  <2>2. contents[1] \in Jobs /\ contents[Len(contents)] \in Jobs
    BY <2>1 DEF TypeOK
  <2> QED
    BY <1>2, <2>2, QueueAssumption DEF Chain
<1> QED
  BY <1>1, <1>2

LEMMA PushLinked ==
  ASSUME QueueInv, NEW t \in Threads, Push(t)
  PROVE  Linked'
<1> DEFINE j == job[t]
           n == Len(contents)
<1>1. /\ j \in Jobs /\ j # Null
      /\ contents \in Seq(Jobs) /\ n \in Nat
  BY QueueAssumption, LenProperties DEF Push, QueueInv, TypeOK
<1>2. /\ contents' = Append(contents, j)
      /\ job' = [job EXCEPT ![t] = Null]
      /\ job \in [Threads -> Jobs \cup {Null}]
      /\ next \in [Jobs -> Jobs \cup {Null}]
  BY DEF Push, QueueInv, TypeOK
<1>3. /\ contents' # << >> /\ Len(contents') = n + 1
      /\ \A i \in 1 .. n : contents'[i] = contents[i]
      /\ contents'[n + 1] = j
      /\ DOMAIN contents = 1 .. n /\ DOMAIN contents' = 1 .. n + 1
  <2>1. contents' \in Seq(Jobs)
    BY <1>1, <1>2, AppendProperties
  <2> QED
    BY <1>1, <1>2, <2>1, AppendProperties, LenProperties
<1>4. \A i \in 1 .. n : contents[i] \in Jobs /\ contents[i] # j
  BY <1>1, <1>3 DEF QueueInv, Linked, OneOwner
<1>5. OneOwner'
  <2>1. \A i, k \in DOMAIN contents' : contents'[i] = contents'[k] => i = k
    BY <1>1, <1>3, <1>4 DEF QueueInv, Linked, OneOwner
  <2>2. \A u \in Threads, i \in DOMAIN contents' : job'[u] # contents'[i]
    BY <1>1, <1>2, <1>3, <1>4, QueueAssumption DEF QueueInv, Linked, OneOwner
  <2>3. \A u, v \in Threads : job'[u] = job'[v] /\ job'[u] # Null => u = v
    BY <1>2 DEF QueueInv, Linked, OneOwner
  <2> QED
    BY <2>1, <2>2, <2>3 DEF OneOwner
<1>6. Chain'
  <2>1. CASE contents = << >>
    <3>1. n = 0 /\ head = Null /\ tail = Null
      BY <2>1 DEF QueueInv, Linked, Chain
    <3>2. head' = j /\ tail' = j /\ next' = [next EXCEPT ![j] = Null]
      BY <3>1 DEF Push, Link
    <3> QED
      BY <1>1, <1>2, <1>3, <3>1, <3>2 DEF Chain
  <2>2. CASE contents # << >>
    <3>1. n # 0 /\ tail # Null
      BY <1>1, <2>2, EmptySeq, EmptyList DEF QueueInv, Linked
    <3>2. /\ head = contents[1] /\ tail = contents[n]
          /\ \A i \in 1 .. n :
               next[contents[i]] = IF i < n THEN contents[i + 1] ELSE Null
      BY <1>3, <2>2 DEF QueueInv, Linked, Chain
    <3>3. head' = head /\ tail' = j /\ next' = [next EXCEPT ![j] = Null, ![tail] = j]
      BY <3>1 DEF Push, Link
    <3>4. /\ next'[j] = Null
          /\ \A i \in 1 .. n : next'[contents[i]] = IF i < n THEN contents[i + 1] ELSE j
      <4>1. \A i \in 1 .. n - 1 : contents[i] # contents[n]
        BY <1>1, <1>3, <3>1 DEF QueueInv, Linked, OneOwner
      <4> QED
        BY <1>1, <1>2, <1>4, <3>1, <3>2, <3>3, <4>1
    <3>5. head' = contents'[1] /\ tail' = contents'[n + 1]
      BY <1>1, <1>3, <3>1, <3>2, <3>3
    <3>6. \A i \in 1 .. n + 1 :
            next'[contents'[i]] = IF i < n + 1 THEN contents'[i + 1] ELSE Null
      <4> SUFFICES ASSUME NEW i \in 1 .. n + 1
                   PROVE  next'[contents'[i]] = IF i < n + 1 THEN contents'[i + 1] ELSE Null
        OBVIOUS
      <4>1. CASE i = n + 1
        BY <1>1, <1>3, <3>4, <4>1
      <4>2. CASE i = n
        BY <1>1, <1>3, <3>1, <3>4, <4>2
      <4>3. CASE i < n
        BY <1>1, <1>3, <3>4, <4>3
      <4> QED
        BY <1>1, <4>1, <4>2, <4>3
    <3> QED
      BY <1>3, <3>5, <3>6 DEF Chain
  <2> QED
    BY <2>1, <2>2
<1> QED
  BY <1>5, <1>6 DEF Linked

LEMMA TakeHeadLinked ==
  ASSUME QueueInv, NEW t \in Threads, head # Null, TakeHead(t)
  PROVE  Linked'
<1> DEFINE n == Len(contents)
<1>1. contents # << >> /\ contents \in Seq(Jobs) /\ n \in Nat \ {0}
  BY EmptyList, EmptySeq, LenProperties DEF QueueInv, Linked, TypeOK
<1>2. /\ Len(contents') = n - 1 /\ contents' \in Seq(Jobs)
      /\ \A i \in 1 .. n - 1 : contents'[i] = contents[i + 1]
      /\ DOMAIN contents = 1 .. n /\ DOMAIN contents' = 1 .. n - 1
  BY <1>1, RestFacts, LenProperties DEF TakeHead
<1>3. /\ head = contents[1] /\ tail = contents[n]
      /\ \A i \in 1 .. n : next[contents[i]] = IF i < n THEN contents[i + 1] ELSE Null
  BY <1>1, <1>2 DEF QueueInv, Linked, Chain
<1>4. /\ next' = next /\ head' = next[head]
      /\ tail' = IF next[head] = Null THEN Null ELSE tail
      /\ job' = [job EXCEPT ![t] = head]
      /\ job \in [Threads -> Jobs \cup {Null}]
  BY DEF TakeHead, QueueInv, TypeOK
<1>5. \A i \in 1 .. n : contents[i] \in Jobs /\ contents[i] # Null
  BY <1>1, QueueAssumption
<1>6. Chain'
  <2>1. CASE n = 1
    <3>1. contents' = << >>
      BY <1>2, <2>1, EmptySeq
    <3>2. next[head] = Null
      BY <1>3, <2>1
    <3> QED
      BY <1>2, <1>4, <2>1, <3>1, <3>2 DEF Chain
  <2>2. CASE n # 1
    <3>1. n - 1 \in Nat \ {0} /\ contents' # << >>
      BY <1>1, <1>2, <2>2
    <3>2. next[head] = contents[2] /\ contents[2] # Null
      <4>1. 1 \in 1 .. n /\ 2 \in 1 .. n /\ 1 < n /\ 1 + 1 = 2
        <5>1. \A m \in Nat \ {0} : m # 1 =>
                1 \in 1 .. m /\ 2 \in 1 .. m /\ 1 < m /\ 1 + 1 = 2
          OBVIOUS
        <5> QED
          BY <1>1, <2>2, <5>1
      <4>2. next[contents[1]] = contents[2]
        BY <1>3, <4>1
      <4>3. contents[2] # Null
        BY <1>5, <4>1
      <4> QED
        BY <1>3, <4>2, <4>3
    <3>3. head' = contents'[1] /\ tail' = contents'[n - 1]
      BY <1>2, <1>3, <1>4, <3>1, <3>2
    <3>4. \A i \in 1 .. n - 1 :
            next'[contents'[i]] = IF i < n - 1 THEN contents'[i + 1] ELSE Null
      BY <1>1, <1>2, <1>3, <1>4
    <3> QED
      BY <1>2, <3>1, <3>3, <3>4 DEF Chain
  <2> QED
    BY <2>1, <2>2
<1>7. OneOwner'
  <2>1. \A i, k \in 1 .. n : contents[i] = contents[k] => i = k
    BY <1>2 DEF QueueInv, Linked, OneOwner
  <2>2. \A u \in Threads, i \in 1 .. n : job[u] # contents[i]
    BY <1>2 DEF QueueInv, Linked, OneOwner
  <2>3. \A u, v \in Threads : job[u] = job[v] /\ job[u] # Null => u = v
    BY DEF QueueInv, Linked, OneOwner
  <2>4. \A i, k \in DOMAIN contents' : contents'[i] = contents'[k] => i = k
    BY <1>1, <1>2, <2>1
  <2>5. \A u \in Threads, i \in DOMAIN contents' : job'[u] # contents'[i]
    <3> SUFFICES ASSUME NEW u \in Threads, NEW i \in 1 .. n - 1
                 PROVE  job'[u] # contents[i + 1]
      BY <1>2
    <3>1. i + 1 \in 1 .. n /\ i + 1 # 1 /\ 1 \in 1 .. n
      BY <1>1
    <3> QED
      BY <1>3, <1>4, <2>1, <2>2, <3>1
  <2>6. \A u, v \in Threads : job'[u] = job'[v] /\ job'[u] # Null => u = v
    BY <1>1, <1>3, <1>4, <2>2, <2>3
  <2> QED
    BY <2>4, <2>5, <2>6 DEF OneOwner
<1> QED
  BY <1>6, <1>7 DEF Linked

LEMMA LinkedStep ==
  ASSUME QueueInv, [Next]_vars
  PROVE  Linked'
<1>0. Main \in Threads
  BY DEF Threads
<1>1. ASSUME UNCHANGED <<list, job>>
      PROVE  Linked'
  BY <1>1 DEF QueueInv, list, Linked, Chain, OneOwner
<1>2. ASSUME NEW t \in Threads, NewJob(t)
      PROVE  Linked'
  <2>1. PICK j \in Free : job' = [job EXCEPT ![t] = j]
    BY <1>2 DEF NewJob
  <2>2. /\ \A i \in DOMAIN contents : j # contents[i]
        /\ \A u \in Threads : j # job[u]
    BY DEF Free
  <2>3. UNCHANGED list /\ job \in [Threads -> Jobs \cup {Null}]
    BY <1>2 DEF NewJob, QueueInv, TypeOK
  <2> QED
    BY <2>1, <2>2, <2>3 DEF list, QueueInv, Linked, Chain, OneOwner
<1>3. ASSUME NEW t \in Threads, Push(t)
      PROVE  Linked'
  BY <1>3, PushLinked
<1>4. ASSUME NEW t \in Threads, Finish(t)
      PROVE  Linked'
  <2>1. \A i \in DOMAIN contents : contents[i] # Null
    BY QueueAssumption DEF QueueInv, TypeOK
  <2>2. job' = [job EXCEPT ![t] = Null] /\ job \in [Threads -> Jobs \cup {Null}] /\ UNCHANGED list
    BY <1>4 DEF Finish, QueueInv, TypeOK
  <2> QED
    BY <2>1, <2>2 DEF list, QueueInv, Linked, Chain, OneOwner
<1>5. ASSUME NEW t \in Threads, head # Null, TakeHead(t)
      PROVE  Linked'
  BY <1>5, TakeHeadLinked
<1>6. ASSUME NEW w \in Workers, Pop(w)
      PROVE  Linked'
  BY <1>1, <1>5, <1>6 DEF Pop, Threads
<1>7. CASE TryPop
  BY <1>0, <1>1, <1>5, <1>7 DEF TryPop
<1>8. ASSUME NEW t \in Threads, Lock(t) \/ SpuriousWakeup(t) \/ Interrupt(t)
      PROVE  Linked'
  BY <1>1, <1>8 DEF Lock, SpuriousWakeup, Interrupt
<1>9. ASSUME NEW w \in Workers, Loop(w)
      PROVE  Linked'
  BY <1>1, <1>9 DEF Loop
<1>10. CASE Poll \/ LeaveLoop \/ Close \/ Join \/ HandlerStep
  BY <1>1, <1>10 DEF Poll, LeaveLoop, Close, Join, HandlerStep, HandlerLock, HandlerClose
<1>11. CASE UNCHANGED vars
  BY <1>1, <1>11 DEF vars
<1> QED
  BY <1>2, <1>3, <1>4, <1>6, <1>7, <1>8, <1>9, <1>10, <1>11
  DEF Next, MainStep, HandlerStep, Finished

-----------------------------------------------------------------------------
(* QueueInv is inductive.                                                  *)
LEMMA QueueInvInit == Init => QueueInv
<1>1. Init => Linked
  BY DEF Init, Linked, Chain, OneOwner
<1> QED
  BY <1>1, QueueTypesInit DEF QueueInv

LEMMA QueueInvStep == QueueInv /\ [Next]_vars => QueueInv'
<1> SUFFICES ASSUME QueueInv, [Next]_vars
             PROVE  QueueInv'
  OBVIOUS
<1>1. TypeOK' /\ Roles'
  BY QueueTypesStep DEF QueueInv
<1>2. Linked'
  BY LinkedStep
<1> QED
  BY <1>1, <1>2 DEF QueueInv

LEMMA QueueInvAlways == Spec => []QueueInv
BY QueueInvInit, QueueInvStep, PTL DEF Spec

(* The fields of the queue, the job cells and the places of the threads    *)
(* keep their types; a thread has a job in hand only between malloc and    *)
(* q_push, and between a pop and free.                                     *)
THEOREM QueueTypes == Spec => []TypeOK
<1>1. QueueInv => TypeOK
  BY DEF QueueInv
<1> QED
  BY <1>1, QueueInvAlways, PTL

(* q_push, q_pop and q_try_pop keep the list sound: from head to tail it   *)
(* is what was pushed and not popped, and no job in it, or in the hands of *)
(* a thread, is anywhere else.                                             *)
THEOREM QueueLinked == Spec => []Linked
<1>1. QueueInv => Linked
  BY DEF QueueInv
<1> QED
  BY <1>1, QueueInvAlways, PTL

-----------------------------------------------------------------------------
(* The queue implements FifoQueue.                                         *)
Taken == [t \in Threads |-> IF pc[t] = "holding" THEN job[t] ELSE Null]

LEMMA PushIsPut ==
  ASSUME QueueInv, NEW t \in Threads, Push(t)
  PROVE  Fifo!Put(job[t]) /\ job[t] \in Jobs
<1>1. /\ pc[t] = "pushing" /\ pc = [u \in Threads |-> pc[u]]
      /\ job[t] \in Jobs /\ job[t] # Null
      /\ job' = [job EXCEPT ![t] = Null] /\ contents' = Append(contents, job[t])
      /\ job \in [Threads -> Jobs \cup {Null}]
  BY QueueAssumption DEF Push, QueueInv, TypeOK, Wanting, Inside
<1>2. job[t] \notin Fifo!Queued
  BY DEF Fifo!Queued, QueueInv, Linked, OneOwner
<1>3. job[t] \notin Fifo!Taken
  BY <1>1 DEF Fifo!Taken, QueueInv, Linked, OneOwner
<1>4. \/ pc' = [pc EXCEPT ![t] = "run"]
      \/ \E w \in Threads \ {t} :
           pc[w] = "waiting" /\ pc' = [pc EXCEPT ![t] = "run", ![w] = "woken"]
  BY <1>1, SignalFacts DEF Push, QueueInv
<1>5. Taken' = Taken
  BY <1>1, <1>4 DEF Taken
<1> QED
  BY <1>1, <1>2, <1>3, <1>5 DEF Fifo!Put, Taken

LEMMA TakeHeadIsTake ==
  ASSUME QueueInv, NEW t \in Threads, pc[t] \in {"popping", "trying"},
         head # Null, TakeHead(t)
  PROVE  Fifo!Take(t)
<1>1. contents # << >> /\ contents \in Seq(Jobs)
  BY EmptyList DEF QueueInv, Linked, TypeOK
<1>2. contents' = Tail(contents)
  BY <1>1, RestFacts DEF TakeHead
<1>3. head = Head(contents)
  BY <1>1 DEF QueueInv, Linked, Chain
<1>4. Taken[t] = Null
  BY DEF Taken
<1>5. Taken' = [Taken EXCEPT ![t] = Head(contents)]
  BY <1>3 DEF Taken, TakeHead, Goto, QueueInv, TypeOK
<1> QED
  BY <1>1, <1>2, <1>4, <1>5 DEF Fifo!Take, Taken

LEMMA FinishIsFree ==
  ASSUME QueueInv, NEW t \in Threads, Finish(t)
  PROVE  Fifo!Free(t)
<1>1. /\ pc[t] = "holding" /\ job[t] # Null
      /\ job' = [job EXCEPT ![t] = Null] /\ pc' = [pc EXCEPT ![t] = "run"]
      /\ contents' = contents
      /\ job \in [Threads -> Jobs \cup {Null}] /\ pc = [u \in Threads |-> pc[u]]
  BY DEF Finish, Goto, list, QueueInv, TypeOK, Wanting, Inside
<1>2. Taken[t] # Null
  BY <1>1 DEF Taken
<1>3. Taken' = [Taken EXCEPT ![t] = Null]
  BY <1>1 DEF Taken
<1> QED
  BY <1>1, <1>2, <1>3 DEF Fifo!Free, Taken

(* Every other step leaves the abstract queue alone.                       *)
LEMMA QueueStepMaps ==
  ASSUME QueueInv, [Next]_vars
  PROVE  [Fifo!Next]_(Fifo!vars)
<1>0. Main \in Threads
  BY DEF Threads
<1> DEFINE Stutter == UNCHANGED contents /\ Taken' = Taken
<1>1. Stutter => UNCHANGED Fifo!vars
  BY DEF Fifo!vars, Taken
<1>2. pc = [u \in Threads |-> pc[u]] /\ job \in [Threads -> Jobs \cup {Null}]
  BY DEF QueueInv, TypeOK, Wanting, Inside
<1>3. ASSUME NEW t \in Threads, NEW where, where # "holding", pc[t] # "holding",
             pc' = [pc EXCEPT ![t] = where], UNCHANGED <<contents, job>>
      PROVE  Stutter
  BY <1>2, <1>3 DEF Taken
<1>4. ASSUME NEW t \in Threads, Push(t)
      PROVE  [Fifo!Next]_(Fifo!vars)
  BY <1>4, PushIsPut DEF Fifo!Next
<1>5. ASSUME NEW t \in Threads, pc[t] \in {"popping", "trying"}, head # Null, TakeHead(t)
      PROVE  [Fifo!Next]_(Fifo!vars)
  BY <1>5, TakeHeadIsTake DEF Fifo!Next
<1>6. ASSUME NEW t \in Threads, Finish(t)
      PROVE  [Fifo!Next]_(Fifo!vars)
  BY <1>6, FinishIsFree DEF Fifo!Next
<1>7. ASSUME NEW t \in Threads, Lock(t)
      PROVE  Stutter
  <2>1. Locked[pc[t]] # "holding" /\ pc[t] # "holding"
    BY <1>7 DEF Lock, Locked, Wanting
  <2> QED
    BY <1>3, <1>7, <2>1 DEF Lock, Goto, list
<1>8. ASSUME NEW t \in Threads, SpuriousWakeup(t)
      PROVE  Stutter
  BY <1>3, <1>8 DEF SpuriousWakeup, Goto, list
<1>9. ASSUME NEW t \in Threads, NewJob(t)
      PROVE  Stutter
  BY <1>2, <1>9 DEF NewJob, Goto, list, Taken
<1>10. ASSUME NEW t \in Threads, Interrupt(t)
       PROVE  Stutter
  BY <1>10 DEF Interrupt, list, Taken
<1>11. ASSUME NEW w \in Workers, Loop(w)
       PROVE  Stutter
  BY <1>3, <1>11 DEF Loop, Goto, list, Threads
<1>12. ASSUME NEW w \in Workers, Pop(w)
       PROVE  [Fifo!Next]_(Fifo!vars)
  <2>1. w \in Threads /\ pc[w] = "popping"
    BY <1>12 DEF Pop, Threads
  <2>2. CASE head = Null
    <3>1. Stutter
      BY <1>3, <1>12, <2>1, <2>2 DEF Pop, Goto, list
    <3> QED
      BY <1>1, <3>1
  <2>3. CASE head # Null
    BY <1>5, <1>12, <2>1, <2>3 DEF Pop
  <2> QED
    BY <2>2, <2>3
<1>13. CASE TryPop
  <2>1. pc[Main] = "trying"
    BY <1>13 DEF TryPop
  <2>2. CASE head = Null
    <3>1. Stutter
      BY <1>0, <1>3, <1>13, <2>1, <2>2 DEF TryPop, Goto, list
    <3> QED
      BY <1>1, <3>1
  <2>3. CASE head # Null
    BY <1>0, <1>5, <1>13, <2>1, <2>3 DEF TryPop
  <2> QED
    BY <2>2, <2>3
<1>14. ASSUME Poll \/ LeaveLoop \/ Join
       PROVE  Stutter
  BY <1>0, <1>3, <1>14 DEF Poll, LeaveLoop, Join, Goto, list
<1>15. ASSUME Close
       PROVE  Stutter
  BY <1>0, <1>2, <1>15 DEF Close, Woken, list, Taken
<1>16. ASSUME HandlerLock
       PROVE  Stutter
  BY <1>16 DEF HandlerLock, list, Taken
<1>17. ASSUME HandlerClose
       PROVE  Stutter
  BY <1>2, <1>17 DEF HandlerClose, Woken, list, Taken
<1>18. ASSUME UNCHANGED vars
       PROVE  Stutter
  BY <1>18 DEF vars, list, Taken
<1> QED
  BY <1>1, <1>4, <1>6, <1>7, <1>8, <1>9, <1>10, <1>11, <1>12, <1>13, <1>14, <1>15, <1>16,
     <1>17, <1>18
  DEF Next, MainStep, HandlerStep, Finished

(* The linked list under its mutex is a FIFO queue: jobs leave in the      *)
(* order of their pushes, each to one thread, and a cell is used again     *)
(* only after its free.                                                    *)
THEOREM QueueImplements == Spec => QueueIsFifo
<1>1. Init => Fifo!Init
  BY DEF Init, Fifo!Init
<1>2. QueueInv /\ [Next]_vars => [Fifo!Next]_(Fifo!vars)
  BY QueueStepMaps
<1> QED
  BY <1>1, <1>2, QueueInvAlways, PTL DEF Spec, QueueIsFifo, Fifo!Spec

-----------------------------------------------------------------------------
(* No wakeup is lost.                                                      *)
Asleep == \E w \in Workers : pc[w] = "waiting"

LEMMA AwakeFinite ==
  /\ IsFiniteSet(Awake) /\ Cardinality(Awake) \in Nat
  /\ IsFiniteSet(Awake') /\ Cardinality(Awake') \in Nat
<1>1. IsFiniteSet(Workers) /\ Awake \in SUBSET Workers /\ Awake' \in SUBSET Workers
  BY QueueAssumption DEF Awake
<1> QED
  BY <1>1, FS_Subset, FS_CardinalityType

(* As long as the sleepers do not multiply, the queue does not grow and    *)
(* nobody awake falls asleep, nobody is stranded.                          *)
LEMMA StaysUnstranded ==
  ASSUME TypeOK, TypeOK', NoneStranded, Asleep' => Asleep,
         Len(contents') <= Len(contents), Awake \subseteq Awake'
  PROVE  NoneStranded'
<1>1. Cardinality(Awake) <= Cardinality(Awake')
  BY AwakeFinite, FS_Subset
<1>2. Len(contents) \in Nat /\ Len(contents') \in Nat
  BY LenProperties DEF TypeOK
<1>3. Asleep' => Len(contents) <= Cardinality(Awake)
  BY DEF NoneStranded, Asleep, Awake
<1>4. Asleep' => Len(contents') <= Cardinality(Awake')
  BY <1>1, <1>2, <1>3, AwakeFinite
<1> QED
  BY <1>4 DEF NoneStranded, Asleep, Awake

(* A push leaves nobody asleep, or wakes one worker for its job.           *)
LEMMA PushUnstranded ==
  ASSUME QueueInv, NoneStranded, NEW t \in Threads, Push(t)
  PROVE  NoneStranded'
<1>1. pc = [u \in Threads |-> pc[u]] /\ pc[t] = "pushing" /\ job[t] \in Jobs
  BY DEF Push, QueueInv, TypeOK
<1>2. CASE Waiting = {} /\ pc' = [pc EXCEPT ![t] = "run"]
  <2>1. ~Asleep'
    BY <1>1, <1>2 DEF Asleep, Waiting, Threads
  <2> QED
    BY <2>1 DEF NoneStranded, Asleep
<1>3. ASSUME NEW w \in Threads \ {t},
             pc[w] = "waiting", pc' = [pc EXCEPT ![t] = "run", ![w] = "woken"]
      PROVE  NoneStranded'
  <2>1. w \in Workers
    BY <1>3 DEF QueueInv, Roles
  <2>2. Len(contents') = Len(contents) + 1 /\ Len(contents) \in Nat
    BY <1>1, AppendProperties, LenProperties DEF Push, QueueInv, TypeOK
  <2>3. Awake' = Awake \cup {w} /\ w \notin Awake
    BY <1>1, <1>3, <2>1 DEF Awake, Threads
  <2>4. Cardinality(Awake') = Cardinality(Awake) + 1
    BY <2>3, AwakeFinite, FS_AddElement
  <2>5. Len(contents) <= Cardinality(Awake)
    BY <1>3, <2>1 DEF NoneStranded, Awake
  <2>6. Len(contents') <= Cardinality(Awake')
    BY <2>2, <2>4, <2>5, AwakeFinite
  <2> QED
    BY <2>6 DEF NoneStranded, Awake
<1> QED
  BY <1>1, <1>2, <1>3, SignalFacts DEF Push, QueueInv

(* A worker that pops takes its own job, or finds none for anybody.        *)
LEMMA PopUnstranded ==
  ASSUME QueueInv, NoneStranded, NEW w \in Workers, Pop(w)
  PROVE  NoneStranded'
<1>1. w \in Threads /\ pc = [u \in Threads |-> pc[u]] /\ pc[w] = "popping"
  BY DEF Pop, QueueInv, TypeOK, Threads
<1>2. CASE head = Null
  <2>1. contents' = << >>
    BY <1>2, EmptyList DEF Pop, list, QueueInv, Linked
  <2>2. Len(contents') = 0
    BY <2>1
  <2>3. Len(contents') <= Cardinality(Awake')
    BY <2>2, AwakeFinite
  <2> QED
    BY <2>3 DEF NoneStranded, Awake
<1>3. CASE head # Null
  <2>1. TakeHead(w) /\ pc' = [pc EXCEPT ![w] = "holding"]
    BY <1>3 DEF Pop, TakeHead, Goto
  <2>2. contents # << >> /\ contents \in Seq(Jobs)
    BY <1>3, EmptyList DEF QueueInv, Linked, TypeOK
  <2>3. Len(contents') = Len(contents) - 1 /\ Len(contents) \in Nat
    BY <2>1, <2>2, RestFacts, LenProperties DEF TakeHead
  <2>4. Awake' = Awake \ {w} /\ w \in Awake /\ (Asleep' => Asleep)
    BY <1>1, <2>1 DEF Awake, Asleep, Threads
  <2>5. Cardinality(Awake') = Cardinality(Awake) - 1
    BY <2>4, AwakeFinite, FS_RemoveElement
  <2>6. Asleep => Len(contents) <= Cardinality(Awake)
    BY DEF NoneStranded, Asleep, Awake
  <2>7. Asleep' => Len(contents') <= Cardinality(Awake')
    BY <2>3, <2>4, <2>5, <2>6, AwakeFinite
  <2> QED
    BY <2>7 DEF NoneStranded, Asleep, Awake
<1> QED
  BY <1>2, <1>3

LEMMA NoneStrandedStep ==
  ASSUME QueueInv, NoneStranded, [Next]_vars
  PROVE  NoneStranded'
<1>0. Main \in Threads /\ Main \notin Workers /\ Workers \subseteq Threads
  BY QueueAssumption DEF Threads
<1>1. TypeOK /\ TypeOK' /\ pc = [u \in Threads |-> pc[u]] /\ Len(contents) \in Nat
  BY QueueTypesStep, LenProperties DEF QueueInv, TypeOK
<1>2. ASSUME Asleep' => Asleep, contents' = contents, Awake \subseteq Awake'
      PROVE  NoneStranded'
  BY <1>1, <1>2, StaysUnstranded
<1>3. ASSUME NEW t \in Threads, NEW where, where # "waiting",
             pc[t] \notin {"woken", "popping"} \/ where \in {"woken", "popping"},
             pc' = [pc EXCEPT ![t] = where], contents' = contents
      PROVE  NoneStranded'
  <2>1. (Asleep' => Asleep) /\ Awake \subseteq Awake'
    BY <1>0, <1>1, <1>3 DEF Asleep, Awake
  <2> QED
    BY <1>2, <1>3, <2>1
<1>4. ASSUME NEW t \in Threads, Lock(t)
      PROVE  NoneStranded'
  <2>1. /\ Locked[pc[t]] # "waiting"
        /\ pc[t] \notin {"woken", "popping"} \/ Locked[pc[t]] = "popping"
    BY <1>4 DEF Lock, Locked, Wanting
  <2> QED
    BY <1>3, <1>4, <2>1 DEF Lock, Goto, list
<1>5. ASSUME NEW t \in Threads, SpuriousWakeup(t)
      PROVE  NoneStranded'
  BY <1>3, <1>5 DEF SpuriousWakeup, Goto, list
<1>6. ASSUME NEW t \in Threads, NewJob(t)
      PROVE  NoneStranded'
  BY <1>3, <1>6 DEF NewJob, Goto, list
<1>7. ASSUME NEW t \in Threads, Push(t)
      PROVE  NoneStranded'
  BY <1>7, PushUnstranded
<1>8. ASSUME NEW t \in Threads, Finish(t)
      PROVE  NoneStranded'
  BY <1>3, <1>8 DEF Finish, Goto, list
<1>9. ASSUME UNCHANGED <<pc, contents>>
      PROVE  NoneStranded'
  BY <1>2, <1>9 DEF Asleep, Awake
<1>10. ASSUME NEW t \in Threads, Interrupt(t)
       PROVE  NoneStranded'
  BY <1>9, <1>10 DEF Interrupt, list
<1>11. ASSUME NEW w \in Workers, Loop(w)
       PROVE  NoneStranded'
  BY <1>0, <1>3, <1>11 DEF Loop, Goto, list
<1>12. ASSUME NEW w \in Workers, Pop(w)
       PROVE  NoneStranded'
  BY <1>12, PopUnstranded
<1>13. ASSUME TryPop
       PROVE  NoneStranded'
  <2>1. pc[Main] = "trying"
    BY <1>13 DEF TryPop
  <2>2. CASE head = Null
    BY <1>0, <1>3, <1>13, <2>1, <2>2 DEF TryPop, Goto, list
  <2>3. CASE head # Null
    <3>1. TakeHead(Main) /\ pc' = [pc EXCEPT ![Main] = "holding"]
      BY <1>13, <2>3 DEF TryPop, TakeHead, Goto
    <3>2. contents # << >> /\ contents \in Seq(Jobs)
      BY <2>3, EmptyList DEF QueueInv, Linked, TypeOK
    <3>3. Len(contents') <= Len(contents)
      BY <1>1, <3>1, <3>2, RestFacts DEF TakeHead
    <3>4. (Asleep' => Asleep) /\ Awake \subseteq Awake'
      BY <1>0, <1>1, <2>1, <3>1 DEF Asleep, Awake
    <3> QED
      BY <1>1, <3>3, <3>4, StaysUnstranded
  <2> QED
    BY <2>2, <2>3
<1>14. ASSUME Poll \/ LeaveLoop \/ Join
       PROVE  NoneStranded'
  BY <1>0, <1>3, <1>14 DEF Poll, LeaveLoop, Join, Goto, list
<1>15. ASSUME Close \/ HandlerClose
       PROVE  NoneStranded'
  <2>1. pc' = Woken(pc) \/ pc' = [Woken(pc) EXCEPT ![Main] = "join"]
    BY <1>15 DEF Close, HandlerClose
  <2>2. ~Asleep'
    BY <1>0, <1>1, <2>1 DEF Woken, Asleep
  <2> QED
    BY <2>2 DEF NoneStranded, Asleep
<1>16. ASSUME HandlerLock
       PROVE  NoneStranded'
  BY <1>9, <1>16 DEF HandlerLock, list
<1>17. ASSUME UNCHANGED vars
       PROVE  NoneStranded'
  BY <1>9, <1>17 DEF vars, list
<1> QED
  BY <1>4, <1>5, <1>6, <1>7, <1>8, <1>10, <1>11, <1>12, <1>13, <1>14, <1>15, <1>16, <1>17
  DEF Next, MainStep, HandlerStep, Finished

(* No wakeup is lost, with any number of workers: a worker sleeps only     *)
(* while every queued job has a worker of its own that is about to look.   *)
THEOREM QueueNoneStranded == Spec => []NoneStranded
<1>1. Init => NoneStranded
  BY DEF Init, NoneStranded, Threads
<1>2. QueueInv /\ NoneStranded /\ [Next]_vars => NoneStranded'
  BY NoneStrandedStep
<1> QED
  BY <1>1, <1>2, QueueInvAlways, PTL DEF Spec

-----------------------------------------------------------------------------
(* The mutex belongs to whoever is inside a critical section: one thread,  *)
(* or the signal handler on the stack of its victim.                       *)
MutexHeld ==
  /\ \A t \in Threads : pc[t] \in Inside => mtx = t /\ handler # "holds"
  /\ mtx \in Threads => pc[mtx] \in Inside \/ handler = "holds"
  /\ handler = "holds" => mtx = victim
  /\ handler # "off" => victim \in Threads

LEMMA MutexStep ==
  ASSUME TypeOK, MutexHeld, [Next]_vars
  PROVE  MutexHeld'
<1>0. Main \in Threads /\ Workers \subseteq Threads /\ Null \notin Threads
  BY QueueAssumption DEF Threads
<1>t. pc = [u \in Threads |-> pc[u]] /\ mtx \in Threads \cup {Null}
  BY DEF TypeOK
(* A step outside the mutex: nobody comes in and nobody goes out.          *)
<1>1. ASSUME UNCHANGED <<mtx, handler, victim>>,
             \A u \in Threads : pc'[u] \in Inside <=> pc[u] \in Inside
      PROVE  MutexHeld'
  BY <1>1 DEF MutexHeld
(* The end of a critical section.                                          *)
<1>2. ASSUME NEW t \in Threads, pc[t] \in Inside, mtx' = Null, UNCHANGED <<handler, victim>>,
             pc'[t] \notin Inside, \A u \in Threads \ {t} : pc'[u] \in Inside => pc[u] \in Inside
      PROVE  MutexHeld'
  BY <1>0, <1>2 DEF MutexHeld
<1>3. ASSUME NEW t \in Threads, Lock(t) PROVE MutexHeld'
  <2>1. /\ mtx = Null /\ mtx' = t /\ UNCHANGED signal
        /\ pc[t] \in Wanting /\ pc' = [pc EXCEPT ![t] = Locked[pc[t]]]
    BY <1>3 DEF Lock, Goto
  <2>2. Locked[pc[t]] \in Inside
    BY <2>1 DEF Locked, Wanting, Inside
  <2>3. handler # "holds" /\ \A u \in Threads : pc[u] \notin Inside
    BY <1>0, <2>1 DEF MutexHeld
  <2> QED
    BY <1>t, <2>1, <2>2, <2>3 DEF MutexHeld, signal
<1>4. ASSUME NEW t \in Threads, SpuriousWakeup(t) \/ NewJob(t) \/ Finish(t) PROVE MutexHeld'
  BY <1>1, <1>4, <1>t DEF SpuriousWakeup, NewJob, Finish, Goto, signal, Inside
<1>5. ASSUME NEW t \in Threads, Push(t) PROVE MutexHeld'
  <2>1. pc[t] = "pushing" /\ Signal(t, "run") /\ mtx' = Null /\ UNCHANGED signal
    BY <1>5 DEF Push, Unlock
  <2>2. \/ pc' = [pc EXCEPT ![t] = "run"]
        \/ \E w \in Threads \ {t} : pc' = [pc EXCEPT ![t] = "run", ![w] = "woken"]
    BY <2>1, SignalFacts
  <2> QED
    BY <1>2, <1>t, <2>1, <2>2 DEF signal, Inside
<1>6. ASSUME NEW t \in Threads, Interrupt(t) PROVE MutexHeld'
  BY <1>6 DEF Interrupt, MutexHeld
<1>7. ASSUME NEW w \in Workers, Loop(w) PROVE MutexHeld'
  BY <1>0, <1>1, <1>7, <1>t DEF Loop, Goto, signal, Inside
<1>8. ASSUME NEW t \in Threads, pc[t] \in {"popping", "trying"}, mtx' = Null, UNCHANGED signal,
             \E where \in {"done", "waiting", "run", "holding"} : pc' = [pc EXCEPT ![t] = where]
      PROVE  MutexHeld'
  BY <1>2, <1>8, <1>t DEF signal, Inside
<1>9. ASSUME NEW w \in Workers, Pop(w) PROVE MutexHeld'
  BY <1>0, <1>8, <1>9 DEF Pop, TakeHead, Goto, Unlock
<1>10. CASE TryPop
  BY <1>0, <1>8, <1>10 DEF TryPop, TakeHead, Goto, Unlock
<1>11. CASE Poll \/ LeaveLoop \/ Join
  BY <1>0, <1>1, <1>11, <1>t DEF Poll, LeaveLoop, Join, Goto, signal, Inside
<1>12. CASE Close
  <2>1. pc[Main] = "closing" /\ mtx' = Null /\ UNCHANGED signal
    BY <1>12 DEF Close, Unlock
  <2>2. pc'[Main] = "join" /\ \A u \in Threads \ {Main} : pc'[u] \in {pc[u], "woken"}
    BY <1>0, <1>12 DEF Close, Woken
  <2> QED
    BY <1>0, <1>2, <2>1, <2>2 DEF signal, Inside
<1>13. CASE HandlerLock
  BY <1>0, <1>13 DEF HandlerLock, MutexHeld
<1>14. CASE HandlerClose
  <2>1. \A u \in Threads : pc'[u] \in {pc[u], "woken"}
    BY <1>14 DEF HandlerClose, Woken
  <2>2. \A u \in Threads : pc[u] \notin Inside
    BY <1>14 DEF HandlerClose, MutexHeld
  <2> QED
    BY <1>0, <1>14, <2>1, <2>2 DEF HandlerClose, Unlock, MutexHeld, Inside
<1>15. CASE UNCHANGED vars
  BY <1>1, <1>15 DEF vars, signal
<1> QED
  BY <1>3, <1>4, <1>5, <1>6, <1>7, <1>9, <1>10, <1>11, <1>12, <1>13, <1>14, <1>15
  DEF Next, MainStep, HandlerStep, Finished

(* Queue->mtx does what it is for: no two threads are inside q_push, q_pop,*)
(* q_try_pop or q_close at a time, and no thread is inside while the       *)
(* signal handler is.                                                      *)
THEOREM QueueMutex == Spec => []MutexHeld
<1>1. Init => MutexHeld
  BY QueueAssumption DEF Init, MutexHeld, Threads, Inside
<1>2. QueueInv => TypeOK
  BY DEF QueueInv
<1> QED
  BY <1>1, <1>2, MutexStep, QueueInvAlways, PTL DEF Spec

(* The price of calling q_close in a signal handler: when SIGINT hits the  *)
(* thread that holds the mutex (and only then), the handler waits for its  *)
(* own victim, and the queue stays as it is for ever.  No other thread     *)
(* gets it out of that, and none can push, pop or close any more.          *)
Frozen == SelfDeadlock /\ pc[victim] \in Inside

THEOREM QueueHangs ==
  Spec => /\ [](SelfDeadlock => Frozen)
          /\ [][SelfDeadlock => SelfDeadlock' /\ UNCHANGED <<list, closed, mtx>>]_vars
<1>1. MutexHeld => (SelfDeadlock => Frozen)
  BY DEF MutexHeld, SelfDeadlock, Frozen
<1>2. TypeOK /\ MutexHeld /\ [Next]_vars
        => [SelfDeadlock => SelfDeadlock' /\ UNCHANGED <<list, closed, mtx>>]_vars
  <2> SUFFICES ASSUME TypeOK, MutexHeld, Next, SelfDeadlock
               PROVE  SelfDeadlock' /\ UNCHANGED <<list, closed, mtx>>
    OBVIOUS
  <2>0. /\ victim \in Threads /\ mtx = victim /\ mtx # Null /\ handler = "wants" /\ ~Runs(victim)
        /\ Main \in Threads /\ Workers \subseteq Threads
    BY QueueAssumption DEF SelfDeadlock, MutexHeld, Runs, Threads
  <2>1. ASSUME NEW t \in Threads, Runs(t), pc[t] \in Inside PROVE FALSE
    BY <2>0, <2>1 DEF MutexHeld
  <2>2. ASSUME NEW t \in Threads, Lock(t) \/ Push(t) PROVE FALSE
    BY <2>0, <2>1, <2>2 DEF Lock, Push, Inside
  <2>3. ASSUME NEW w \in Workers, Pop(w) PROVE FALSE
    BY <2>0, <2>1, <2>3 DEF Pop, Inside
  <2>4. ASSUME TryPop \/ Close \/ HandlerStep PROVE FALSE
    BY <2>0, <2>1, <2>4 DEF TryPop, Close, HandlerStep, HandlerLock, HandlerClose, Inside
  <2>5. ASSUME NEW t \in Threads, Interrupt(t) PROVE FALSE
    BY <2>0, <2>5 DEF Interrupt
  <2>6. ASSUME UNCHANGED <<list, closed, mtx, signal>>
        PROVE  SelfDeadlock' /\ UNCHANGED <<list, closed, mtx>>
    BY <2>6 DEF SelfDeadlock, signal
  <2>7. ASSUME NEW t \in Threads, SpuriousWakeup(t) \/ NewJob(t) \/ Finish(t)
        PROVE  UNCHANGED <<list, closed, mtx, signal>>
    BY <2>7 DEF SpuriousWakeup, NewJob, Finish
  <2>8. ASSUME NEW w \in Workers, Loop(w) PROVE UNCHANGED <<list, closed, mtx, signal>>
    BY <2>8 DEF Loop
  <2>9. ASSUME Poll \/ LeaveLoop \/ Join \/ Finished PROVE UNCHANGED <<list, closed, mtx, signal>>
    BY <2>9 DEF Poll, LeaveLoop, Join, Finished, vars
  <2> QED
    BY <2>2, <2>3, <2>4, <2>5, <2>6, <2>7, <2>8, <2>9 DEF Next, MainStep
<1>3. QueueInv => TypeOK
  BY DEF QueueInv
<1> QED
  BY <1>1, <1>2, <1>3, QueueMutex, QueueInvAlways, PTL DEF Spec

(* After q_close nobody sleeps on the queue, whoever closed it, and nobody *)
(* goes to sleep: a worker looks at the flag and waits without letting go  *)
(* of the mutex in between.                                                *)
ClosedAwake == closed => Waiting = {}

THEOREM QueueClosedAwake == Spec => []ClosedAwake
<1>1. Init => ClosedAwake
  BY DEF Init, ClosedAwake
<1>2. TypeOK /\ ClosedAwake /\ [Next]_vars => ClosedAwake'
  <2> SUFFICES ASSUME TypeOK, ClosedAwake, [Next]_vars PROVE ClosedAwake'
    OBVIOUS
  <2>0. pc = [u \in Threads |-> pc[u]] /\ Main \in Threads /\ Workers \subseteq Threads
    BY DEF TypeOK, Threads
  <2>1. ASSUME closed' = closed, \A u \in Threads : pc'[u] = "waiting" => pc[u] = "waiting"
        PROVE  ClosedAwake'
    BY <2>1 DEF ClosedAwake, Waiting
  <2>2. ASSUME NEW t \in Threads, Lock(t) PROVE ClosedAwake'
    <3>1. Locked[pc[t]] # "waiting"
      BY <2>2 DEF Lock, Locked, Wanting
    <3> QED
      BY <2>0, <2>1, <2>2, <3>1 DEF Lock, Goto
  <2>3. ASSUME NEW t \in Threads, SpuriousWakeup(t) \/ NewJob(t) \/ Finish(t) \/ Interrupt(t)
        PROVE  ClosedAwake'
    BY <2>0, <2>1, <2>3 DEF SpuriousWakeup, NewJob, Finish, Interrupt, Goto
  <2>4. ASSUME NEW t \in Threads, Push(t) PROVE ClosedAwake'
    <3>1. closed' = closed /\ Signal(t, "run") /\ pc[t] # "waiting"
      BY <2>4 DEF Push
    <3>2. \/ pc' = [pc EXCEPT ![t] = "run"]
          \/ \E w \in Threads \ {t} : pc' = [pc EXCEPT ![t] = "run", ![w] = "woken"]
      BY <3>1, SignalFacts
    <3> QED
      BY <2>0, <2>1, <3>1, <3>2
  <2>5. ASSUME NEW w \in Workers, Loop(w) PROVE ClosedAwake'
    BY <2>0, <2>1, <2>5 DEF Loop, Goto
  <2>6. ASSUME NEW w \in Workers, Pop(w) PROVE ClosedAwake'
    <3>1. CASE closed
      BY <2>0, <2>1, <2>6, <3>1 DEF Pop, TakeHead, Goto
    <3>2. CASE ~closed
      BY <2>6, <3>2 DEF Pop, TakeHead, ClosedAwake, TypeOK
    <3> QED
      BY <3>1, <3>2
  <2>7. CASE TryPop
    BY <2>0, <2>1, <2>7 DEF TryPop, TakeHead, Goto
  <2>8. CASE Poll \/ LeaveLoop \/ Join
    BY <2>0, <2>1, <2>8 DEF Poll, LeaveLoop, Join, Goto
  <2>9. CASE Close \/ HandlerClose
    <3>1. pc' = Woken(pc) \/ pc' = [Woken(pc) EXCEPT ![Main] = "join"]
      BY <2>9 DEF Close, HandlerClose
    <3>2. \A u \in Threads : pc'[u] # "waiting"
      BY <2>0, <3>1 DEF Woken
    <3> QED
      BY <3>2 DEF ClosedAwake, Waiting
  <2>10. CASE HandlerLock \/ UNCHANGED vars
    BY <2>1, <2>10 DEF HandlerLock, vars
  <2> QED
    BY <2>2, <2>3, <2>4, <2>5, <2>6, <2>7, <2>8, <2>9, <2>10
    DEF Next, MainStep, HandlerStep, Finished
<1>3. QueueInv => TypeOK
  BY DEF QueueInv
<1> QED
  BY <1>1, <1>2, <1>3, QueueInvAlways, PTL DEF Spec
=============================================================================
