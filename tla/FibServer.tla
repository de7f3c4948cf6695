----------------------------- MODULE FibServer -----------------------------
(***************************************************************************)
(* The Fibonacci server of lab4/lab4.c.  Main makes a detached handler     *)
(* thread for every connection; the handler reads N, splits 1..N among     *)
(* num_threads worker threads, joins them in order and answers with the    *)
(* sum.  A worker writes only to its own fib_data_t, which nobody reads    *)
(* before it is joined, so what it computes is one step.                   *)
(***************************************************************************)
EXTENDS Integers

CONSTANTS
  Clients,
  num_threads,
  MaxN           \* bound: the largest number a client asks for

(* The instances in which the code computes what it means to: the text of  *)
(* the first 43 Fibonacci numbers, 247 characters, is the longest that     *)
(* fits into the 256 of a worker's result (a 44th does not), the lines of  *)
(* 99 threads into the 4096 of the response, and the sums into a long.     *)
(* Beyond them strcat writes past the end of an array, which no definition *)
(* here describes.                                                         *)
TextLimit == 43
LineLimit == 99

ASSUME FibAssumption == num_threads \in 1 .. LineLimit /\ MaxN \in 0 .. TextLimit

VARIABLES
  serving,           \* does the process run?  SIGPIPE ends it
  client, request,   \* what each client has done, and the number it sends
  handler,           \* handler threads: progress
  N, current_start,  \* handler: its number, where the next range starts
  made, joined,      \* handler: threads created, threads joined
  total_sum,         \* handler: the sum so far
  worker,            \* worker threads: progress
  start, end, sum    \* their fib_data_t: range and sum

clients == <<client, request>>
split == <<N, current_start, made>>
fib_data == <<start, end>>
fib_vars == <<serving, clients, handler, split, joined, total_sum, worker, fib_data, sum>>

Workers == 1 .. num_threads

(* fib.  For numbers up to TextLimit all sums are below 2^31.              *)
fib[n \in Nat] == IF n <= 2 THEN 1 ELSE fib[n - 1] + fib[n - 2]

FibInit ==
  /\ serving = TRUE
  /\ client = [c \in Clients |-> "connecting"] /\ request = [c \in Clients |-> 0]
  /\ handler = [c \in Clients |-> "none"]
  /\ N = [c \in Clients |-> 0] /\ current_start = [c \in Clients |-> 1]
  /\ made = [c \in Clients |-> 0] /\ joined = [c \in Clients |-> 0]
  /\ total_sum = [c \in Clients |-> 0]
  /\ worker = [c \in Clients |-> [i \in Workers |-> "none"]]
  /\ start = [c \in Clients |-> [i \in Workers |-> 1]]
  /\ end = [c \in Clients |-> [i \in Workers |-> 0]]
  /\ sum = [c \in Clients |-> [i \in Workers |-> 0]]

-----------------------------------------------------------------------------
(* A client sends a number (0 for anything atoi does not find positive) or *)
(* leaves, before or after.                                                *)
Threads == <<handler, split, joined, total_sum, worker, fib_data, sum>>

ClientSendsN(c, n) ==
  /\ serving /\ client[c] = "connected"
  /\ client' = [client EXCEPT ![c] = "sent"] /\ request' = [request EXCEPT ![c] = n]
  /\ UNCHANGED <<serving, Threads>>

ClientQuits(c) ==
  /\ serving /\ client[c] \in {"connected", "sent"}
  /\ client' = [client EXCEPT ![c] = "gone"]
  /\ UNCHANGED <<serving, request, Threads>>

(* main: accept the client and start its handler.  (Its number in the log, *)
(* counted under a mutex, is left out.)                                    *)
AcceptClient(c) ==
  /\ serving /\ client[c] = "connecting"
  /\ client' = [client EXCEPT ![c] = "connected"]
  /\ handler' = [handler EXCEPT ![c] = "reading"]
  /\ UNCHANGED <<serving, request, split, joined, total_sum, worker, fib_data, sum>>

(* client_handler: read N.  Without a positive one, or when the client has *)
(* reset the connection, it is closed.                                     *)
ReadN(c) ==
  /\ serving /\ handler[c] = "reading" /\ client[c] \in {"sent", "gone"}
  /\ \/ /\ request[c] > 0
        /\ N' = [N EXCEPT ![c] = request[c]] /\ handler' = [handler EXCEPT ![c] = "splitting"]
     \/ /\ request[c] = 0 \/ client[c] = "gone"
        /\ handler' = [handler EXCEPT ![c] = "closed"] /\ UNCHANGED N
  /\ UNCHANGED <<serving, clients, current_start, made, joined, total_sum, worker, fib_data, sum>>

(* Faulty: the remainder is given to the last thread and to the first ones. *)
ShareTooMuch(n, i) == (n \div num_threads) + (IF i <= n % num_threads \/ i = num_threads THEN 1 ELSE 0)

(* Numbers for thread i: the remainder goes to the first threads.          *)
Share(n, i) == (n \div num_threads) + (IF i <= n % num_threads THEN 1 ELSE 0)

(* Faulty: no thread is created for an empty range, but all are joined. *)
CreateNonEmpty(c) ==
  /\ serving /\ handler[c] = "splitting" /\ made[c] < num_threads
  /\ LET i == made[c] + 1
         next == current_start[c] + Share(N[c], i)
     IN  /\ worker' = [worker EXCEPT ![c][i] = IF current_start[c] < next THEN "running" ELSE "none"]
         /\ start' = [start EXCEPT ![c][i] = current_start[c]]
         /\ end' = [end EXCEPT ![c][i] = next - 1]
         /\ current_start' = [current_start EXCEPT ![c] = next]
         /\ made' = [made EXCEPT ![c] = i]
  /\ UNCHANGED <<serving, clients, handler, N, joined, total_sum, sum>>

(* One turn of the loop that splits the range and creates a thread.        *)
CreateWorker(c) ==
  /\ serving /\ handler[c] = "splitting" /\ made[c] < num_threads
  /\ LET i == made[c] + 1
         next == current_start[c] + Share(N[c], i)
     IN  /\ worker' = [worker EXCEPT ![c][i] = "running"]
         /\ start' = [start EXCEPT ![c][i] = current_start[c]]
         /\ end' = [end EXCEPT ![c][i] = next - 1]
         /\ current_start' = [current_start EXCEPT ![c] = next]
         /\ made' = [made EXCEPT ![c] = i]
  /\ UNCHANGED <<serving, clients, handler, N, joined, total_sum, sum>>

(* The loop of worker_thread over its range, which may be empty.           *)
RangeSum(first, last) ==
  LET total[n \in first - 1 .. last] == IF n = first - 1 THEN 0 ELSE total[n - 1] + fib[n]
  IN  total[last]

(* worker_thread: all of its loop, on data that nobody else looks at.      *)
Work(c, i) ==
  /\ serving /\ worker[c][i] = "running"
  /\ worker' = [worker EXCEPT ![c][i] = "finished"]
  /\ sum' = [sum EXCEPT ![c][i] = RangeSum(start[c][i], end[c][i])]
  /\ UNCHANGED <<serving, clients, handler, split, joined, total_sum, fib_data>>

(* Faulty: a thread is taken for finished when it has been created. *)
JoinAtOnce(c) ==
  /\ serving /\ handler[c] = "splitting" /\ made[c] = num_threads /\ joined[c] < num_threads
  /\ joined' = [joined EXCEPT ![c] = @ + 1]
  /\ total_sum' = [total_sum EXCEPT ![c] = @ + sum[c][joined[c] + 1]]
  /\ UNCHANGED <<serving, clients, handler, split, worker, fib_data, sum>>

(* pthread_join of the next thread, whose sum is added.                    *)
Join(c) ==
  /\ serving /\ handler[c] = "splitting" /\ made[c] = num_threads /\ joined[c] < num_threads
  /\ worker[c][joined[c] + 1] = "finished"
  /\ joined' = [joined EXCEPT ![c] = @ + 1]
  /\ total_sum' = [total_sum EXCEPT ![c] = @ + sum[c][joined[c] + 1]]
  /\ UNCHANGED <<serving, clients, handler, split, worker, fib_data, sum>>

(* The answer is written and the connection closed.  A client that has     *)
(* gone may have reset it: SIGPIPE then ends the server for everybody.     *)
Answer(c) ==
  /\ serving /\ handler[c] = "splitting" /\ joined[c] = num_threads
  /\ handler' = [handler EXCEPT ![c] = "answered"]
  /\ serving' \in IF client[c] = "gone" THEN BOOLEAN ELSE {TRUE}
  /\ UNCHANGED <<clients, split, joined, total_sum, worker, fib_data, sum>>

Handle(c) == ReadN(c) \/ CreateWorker(c) \/ Join(c) \/ Answer(c)

FibNext ==
  \E c \in Clients :
    \/ \E n \in 0 .. MaxN : ClientSendsN(c, n)
    \/ ClientQuits(c)
    \/ AcceptClient(c)
    \/ Handle(c)
    \/ \E i \in Workers : Work(c, i)

(* Every thread is scheduled; nothing is assumed of the clients.           *)
FibFair ==
  \A c \in Clients :
    /\ WF_fib_vars(AcceptClient(c)) /\ WF_fib_vars(Handle(c))
    /\ \A i \in Workers : WF_fib_vars(Work(c, i))

FibSpec == FibInit /\ [][FibNext]_fib_vars /\ FibFair

-----------------------------------------------------------------------------
Numbers(c, i) == start[c][i] .. end[c][i]

(* Once all threads are made, each of 1..N is computed by one of them and  *)
(* by no other, and nothing else is; so also when there are more threads   *)
(* than numbers.                                                           *)
RangesPartition ==
  \A c \in Clients : made[c] = num_threads =>
    /\ UNION {Numbers(c, i) : i \in Workers} = 1 .. N[c]
    /\ \A i, j \in Workers : i # j => Numbers(c, i) \cap Numbers(c, j) = {}

(* The sum in an answer is that of the first N Fibonacci numbers, which is *)
(* the (N+2)nd less one, in whatever order the threads of all clients ran  *)
(* (for N up to MaxN, hence at most TextLimit).                            *)
FibSumRight ==
  \A c \in Clients : handler[c] = "answered" => total_sum[c] = fib[N[c] + 2] - 1

(* Every client that sends a positive number and stays is answered, unless *)
(* another one has brought the server down.                                *)
FibAnswered ==
  \A c \in Clients :
    client[c] = "sent" /\ request[c] > 0 ~>
      handler[c] = "answered" \/ client[c] = "gone" \/ ~serving
=============================================================================
