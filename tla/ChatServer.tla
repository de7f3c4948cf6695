----------------------------- MODULE ChatServer -----------------------------
(***************************************************************************)
(* The chatroom server of hw2/chatroom_server.c: the select loop of main,  *)
(* which alone changes the client list, and the worker threads, which look *)
(* clients up in it.  The two queues are the FIFO queues ChatQueue         *)
(* implements.  clients_mtx is held for one step at a time; what a thread  *)
(* remembers from an earlier step may be stale.                            *)
(*                                                                         *)
(* A Client cell that was freed keeps its contents or holds what the       *)
(* allocator writes over its first fields, until malloc hands it out       *)
(* again.  A descriptor is the lowest one free, as POSIX has it.           *)
(* SIGINT runs handle_signal on any one thread (ChatQueue has what happens *)
(* when that thread is inside a queue).                                    *)
(***************************************************************************)
EXTENDS Naturals, Sequences, FiniteSets, SequencesExt

CONSTANTS
  Workers,
  max_clients,
  Cells,       \* the memory malloc has for Client structures
  Names,       \* lines that are valid user names
  Quit,        \* the line /quit
  MaxConns,    \* bound: connections that are ever made
  MaxLines,    \* bound: lines the peers send in all
  MaxSignals,  \* bound: 1 if SIGINT may come, else 0
  Null, NoName, Junk

ASSUME ServerAssumption ==
  /\ max_clients \in Nat \ {0} /\ MaxConns \in Nat /\ MaxLines \in Nat /\ MaxSignals \in 0 .. 1
  /\ IsFiniteSet(Workers) /\ IsFiniteSet(Cells) /\ Cardinality(Cells) >= max_clients
  /\ Null \notin Cells
  /\ Quit \notin Names /\ NoName \notin Names /\ Junk \notin Names \cup {NoName}

Conns == 1 .. MaxConns
Lines == [by : Conns, text : Names \cup {Quit}]

Fds == 1 .. max_clients + 1
BadFd == max_clients + 2       \* what a scribbled fd field holds
Listener == 0                  \* server_fd

VARIABLES
  status,           \* "ended" when main has returned, "killed" after SIGPIPE
  shutdown_flag,
  conn,             \* connection -> its state at the peer and in the kernel
  sent,             \* lines sent so far
  descs,            \* descriptor -> the connection it denotes, 0 if closed
  cells,            \* Client cells, live or free
  clients,          \* the list, newest first
  current_clients,
  job_queue, bcast_queue,
  at,               \* main: the step of the loop it is about to do
  watched,          \* main: what select was given
  ready,            \* main: what select returned
  rest,             \* main: the clients this scan has yet to look at
  pc, job, sender,  \* workers: progress, the job in hand, the client found
  quitted,          \* history: a /quit has been carried out
  raced             \* history: two workers have found one name free

kernel == <<conn, sent, descs>>
store == <<cells, clients, current_clients>>
queues == <<job_queue, bcast_queue>>
loop == <<shutdown_flag, at, watched, ready, rest>>
pool == <<pc, job, sender>>
history == <<quitted, raced>>
vars == <<status, kernel, store, queues, loop, pool, history>>

Jobs == [fd : Fds \cup {BadFd}, line : Lines]

TypeOK ==
  /\ status \in {"up", "ended", "killed"} /\ quitted \in BOOLEAN /\ raced \in BOOLEAN /\ shutdown_flag \in BOOLEAN
  /\ conn \in [Conns -> [st : {"none", "backlog", "accepted", "refused"}, gone : BOOLEAN,
                         unread : Seq(Lines)]]
  /\ sent \in 0 .. MaxLines
  /\ descs \in [Fds -> 0 .. MaxConns]
  /\ cells \in [Cells -> [live : BOOLEAN, fd : Fds \cup {BadFd},
                          name : Names \cup {NoName, Junk}, of : 0 .. MaxConns]]
  /\ clients \in Seq(Cells)
  /\ current_clients \in 0 .. max_clients
  /\ job_queue \in Seq(Jobs) /\ bcast_queue \in Seq(Jobs)
  /\ at \in {"select", "selecting", "accept", "scan", "drain", "cleanup", "join"}
  /\ watched \subseteq Fds \X Conns /\ ready \subseteq Fds \cup {Listener}
  /\ rest \in Seq(Cells)
  /\ pc \in [Workers -> {"pop", "popped", "found", "name", "done"}]
  /\ job \in [Workers -> Jobs \cup {Null}]
  /\ sender \in [Workers -> Cells \cup {Null}]

Init ==
  /\ status = "up" /\ shutdown_flag = FALSE /\ quitted = FALSE /\ raced = FALSE
  /\ conn = [c \in Conns |-> [st |-> "none", gone |-> FALSE, unread |-> << >>]]
  /\ sent = 0
  /\ descs = [f \in Fds |-> 0]
  /\ cells = [x \in Cells |-> [live |-> FALSE, fd |-> BadFd, name |-> Junk, of |-> 0]]
  /\ clients = << >> /\ current_clients = 0
  /\ job_queue = << >> /\ bcast_queue = << >>
  /\ at = "select" /\ watched = {} /\ ready = {} /\ rest = << >>
  /\ pc = [w \in Workers |-> "pop"]
  /\ job = [w \in Workers |-> Null] /\ sender = [w \in Workers |-> Null]

-----------------------------------------------------------------------------
Up == status = "up"
Listening == ~shutdown_flag /\ at \notin {"cleanup", "join"}

(* The peers.  Connections arrive in the order of their numbers.           *)
Peers == <<status, descs, store, queues, loop, pool, history>>

Connect(c) ==
  /\ Up /\ Listening /\ conn[c].st = "none" /\ (c > 1 => conn[c - 1].st # "none")
  /\ conn' = [conn EXCEPT ![c].st = "backlog"]
  /\ UNCHANGED <<sent, Peers>>

Send(c, text) ==
  /\ Up /\ ~conn[c].gone /\ sent < MaxLines
  /\ \E f \in Fds : descs[f] = c
  /\ conn' = [conn EXCEPT ![c].unread = Append(@, [by |-> c, text |-> text])]
  /\ sent' = sent + 1
  /\ UNCHANGED Peers

Disconnect(c) ==
  /\ Up /\ ~conn[c].gone /\ conn[c].st = "accepted"
  /\ conn' = [conn EXCEPT ![c].gone = TRUE]
  /\ UNCHANGED <<sent, Peers>>

-----------------------------------------------------------------------------
(* send() to descriptors in s: a peer that has gone may answer with a      *)
(* reset, and the next send raises SIGPIPE, which nobody handles.  (The    *)
(* welcome and "server full" are the first that is sent on a connection:   *)
(* no answer to an earlier one can have come, and they are left out.)      *)
SendTo(s) ==
  \/ UNCHANGED status
  \/ /\ \E f \in s \cap Fds : descs[f] # 0 /\ conn[descs[f]].gone
     /\ status' = "killed"

FdsOf(list) == {cells[list[i]].fd : i \in DOMAIN list}
Listed == {clients[i] : i \in DOMAIN clients}
Readable(c) == conn[c].unread # << >> \/ conn[c].gone
Backlog == {c \in Conns : conn[c].st = "backlog"}

Main(step) == Up /\ at = step

Seen == {w[1] : w \in {v \in watched : Readable(v[2])}}
          \cup (IF Backlog # {} THEN {Listener} ELSE {})

(* Faulty: the loop does not look at the flag. *)
SelectUnasked ==
  /\ Main("select")
  /\ IF \E f \in FdsOf(clients) : descs[f] = 0
       THEN at' = "cleanup" /\ UNCHANGED watched
       ELSE /\ watched' = {<<f, descs[f]>> : f \in FdsOf(clients)}
            /\ at' = "selecting"
  /\ UNCHANGED <<status, kernel, store, queues, shutdown_flag, ready, rest, pool, history>>

(* The top of the loop: the flag, then the sets are built and select is    *)
(* called.  A closed descriptor makes it fail with EBADF, and main leaves. *)
Select ==
  /\ Main("select")
  /\ IF shutdown_flag \/ \E f \in FdsOf(clients) : descs[f] = 0
       THEN at' = "cleanup" /\ UNCHANGED watched
       ELSE /\ watched' = {<<f, descs[f]>> : f \in FdsOf(clients)}
            /\ at' = "selecting"
  /\ UNCHANGED <<status, kernel, store, queues, shutdown_flag, ready, rest, pool, history>>

(* Faulty: select without a timeout. *)
SelectReturnsUntimed ==
  /\ Main("selecting")
  /\ Seen # {} /\ ready' = Seen
  /\ at' = "accept" /\ watched' = {}
  /\ UNCHANGED <<status, kernel, store, queues, shutdown_flag, rest, pool, history>>

(* select returns what is readable now, or nothing after its second.  It   *)
(* watches the connections it was given, even if a descriptor is closed    *)
(* meanwhile.                                                              *)
SelectReturns ==
  /\ Main("selecting")
  /\ ready' = Seen
  /\ at' = "accept" /\ watched' = {}
  /\ UNCHANGED <<status, kernel, store, queues, shutdown_flag, rest, pool, history>>

Unaccepted == [c \in Conns |-> IF conn[c].st = "backlog" THEN [conn[c] EXCEPT !.st = "refused"] ELSE conn[c]]

(* handle_signal: the flag is set, server_fd closed and -1, and the queues *)
(* closed.  If it runs on main inside select, that fails with EINTR and    *)
(* its sets stay as they were: everybody counts as readable.               *)
Interrupt ==
  /\ Up /\ Listening /\ MaxSignals = 1
  /\ shutdown_flag' = TRUE
  /\ conn' = Unaccepted
  /\ \/ UNCHANGED <<at, watched, ready>>
     \/ /\ at = "selecting"
        /\ ready' = {w[1] : w \in watched}
        /\ at' = "accept" /\ watched' = {}
  /\ UNCHANGED <<status, sent, descs, store, queues, rest, pool, history>>

Lowest(s) == CHOOSE x \in s : \A y \in s : x <= y

(* handle_new_connection, and the start of the scan.                       *)
NewClient ==
  IF Listener \notin ready \/ shutdown_flag THEN UNCHANGED <<status, kernel, store>>
  ELSE LET c == Lowest(Backlog) f == Lowest({g \in Fds : descs[g] = 0})
       IN  IF current_clients < max_clients
             THEN \E x \in {y \in Cells : ~cells[y].live} :
                    /\ cells' = [cells EXCEPT ![x] =
                                   [live |-> TRUE, fd |-> f, name |-> NoName, of |-> c]]
                    /\ clients' = <<x>> \o clients
                    /\ current_clients' = current_clients + 1
                    /\ descs' = [descs EXCEPT ![f] = c]
                    /\ conn' = [conn EXCEPT ![c].st = "accepted"]
                    /\ UNCHANGED <<status, sent>>
             ELSE /\ conn' = [conn EXCEPT ![c].st = "refused"]
                  /\ UNCHANGED <<status, sent, descs, store>>

Accept ==
  /\ Main("accept")
  /\ NewClient
  /\ at' = "scan" /\ rest' = clients'
  /\ UNCHANGED <<queues, shutdown_flag, watched, ready, pool, history>>

-----------------------------------------------------------------------------
Unlink(x) == clients' = RemoveFirst(clients, x)

Freed(x) ==
  \E left \in {cells[x], [cells[x] EXCEPT !.fd = BadFd, !.name = Junk]} :
    cells' = [cells EXCEPT ![x] = [left EXCEPT !.live = FALSE, !.of = 0]]

TellOthers(x) ==
  IF cells[x].name = NoName THEN UNCHANGED status
                            ELSE SendTo(FdsOf(clients) \ {cells[x].fd})

(* Faulty: the counter is forgotten. *)
RemoveUncounted(x) ==
  /\ Unlink(x)
  /\ descs' = [descs EXCEPT ![cells[x].fd] = 0]
  /\ Freed(x)
  /\ TellOthers(x)
  /\ UNCHANGED current_clients

(* Faulty: the descriptor is not closed. *)
RemoveUnclosed(x) ==
  /\ Unlink(x)
  /\ current_clients' = current_clients - 1
  /\ Freed(x)
  /\ TellOthers(x)
  /\ UNCHANGED descs

(* remove_client: unlink, close, free, and tell the others.                *)
RemoveClient(x) ==
  /\ Unlink(x)
  /\ current_clients' = current_clients - 1
  /\ descs' = [descs EXCEPT ![cells[x].fd] = 0]
  /\ Freed(x)
  /\ TellOthers(x)

(* Faulty: whether select found the client readable is not asked. *)
UnreadAll == DOMAIN rest

(* Places in the scan of clients that select found readable.               *)
Unread == {i \in DOMAIN rest : cells[rest[i]].fd \in ready}

(* handle_client_message.  recv fails on a closed descriptor, returns 0    *)
(* when the peer has gone, and otherwise blocks until there is something   *)
(* to read.                                                                *)
handle_client_message(x) ==
  LET f == cells[x].fd c == descs[f]
  IN  \/ /\ c # 0 => conn[c].unread = << >> /\ conn[c].gone
         /\ RemoveClient(x)
         /\ UNCHANGED <<conn, job_queue>>
      \/ /\ c # 0 /\ conn[c].unread # << >>
         /\ conn' = [conn EXCEPT ![c].unread = << >>]
         /\ \/ /\ job_queue' = job_queue \o
                    [i \in DOMAIN conn[c].unread |-> [fd |-> f, line |-> conn[c].unread[i]]]
               /\ UNCHANGED <<status, descs, store>>
            \/ RemoveClient(x) /\ UNCHANGED job_queue     \* the line buffer overflows

(* The scan comes to the next of them.                                     *)
Receive ==
  /\ Main("scan") /\ Unread # {}
  /\ handle_client_message(rest[Lowest(Unread)])
  /\ rest' = SubSeq(rest, Lowest(Unread) + 1, Len(rest))
  /\ UNCHANGED <<sent, bcast_queue, shutdown_flag, at, watched, ready, pool, history>>

ScanDone ==
  /\ Main("scan") /\ Unread = {}
  /\ at' = "drain" /\ rest' = << >> /\ ready' = {}
  /\ UNCHANGED <<status, kernel, store, queues, shutdown_flag, watched, pool, history>>

(* One turn of the loop over bcast_queue: everybody but the sender gets it. *)
Broadcast ==
  /\ Main("drain") /\ bcast_queue # << >>
  /\ SendTo(FdsOf(clients) \ {Head(bcast_queue).fd})
  /\ bcast_queue' = Tail(bcast_queue)
  /\ UNCHANGED <<kernel, store, job_queue, loop, pool, history>>

Drained ==
  /\ Main("drain") /\ bcast_queue = << >>
  /\ at' = "select"
  /\ UNCHANGED <<status, kernel, store, queues, shutdown_flag, watched, ready, rest, pool, history>>

(* After the loop: the sockets are closed, the cells freed, though workers *)
(* may still have pointers to them, and the queues closed.                 *)
Cleanup ==
  /\ Main("cleanup")
  /\ conn' = Unaccepted
  /\ descs' = [f \in Fds |-> IF f \in FdsOf(clients) THEN 0 ELSE descs[f]]
  /\ cells' = [x \in Cells |-> IF x \in Listed THEN [cells[x] EXCEPT !.live = FALSE, !.of = 0] ELSE cells[x]]
  /\ clients' = << >>
  /\ at' = "join"
  /\ UNCHANGED <<status, sent, current_clients, queues, shutdown_flag, watched, ready, rest, pool, history>>

(* pthread_join on every worker, and the end of main.                      *)
JoinWorkers ==
  /\ Main("join") /\ \A w \in Workers : pc[w] = "done"
  /\ status' = "ended"
  /\ UNCHANGED <<kernel, store, queues, loop, pool, history>>

-----------------------------------------------------------------------------
(* Faulty: the search ends before the last client of the list. *)
FindMissesLast(f) ==
  IF f \in FdsOf(Front(clients))
    THEN clients[Lowest({i \in DOMAIN Front(clients) : cells[clients[i]].fd = f})]
    ELSE Null

(* The first client in the list with descriptor f.                         *)
Find(f) ==
  IF f \in FdsOf(clients)
    THEN clients[Lowest({i \in DOMAIN clients : cells[clients[i]].fd = f})]
    ELSE Null

(* The job is freed; worker_thread goes on as long as the flag is not set. *)
Done(w) ==
  /\ pc' = [pc EXCEPT ![w] = IF shutdown_flag THEN "done" ELSE "pop"]
  /\ job' = [job EXCEPT ![w] = Null] /\ sender' = [sender EXCEPT ![w] = Null]

(* q_pop *)
TakeJob(w) ==
  /\ Up /\ pc[w] = "pop" /\ job_queue # << >>
  /\ job_queue' = Tail(job_queue)
  /\ pc' = [pc EXCEPT ![w] = "popped"]
  /\ job' = [job EXCEPT ![w] = Head(job_queue)]
  /\ UNCHANGED <<status, kernel, store, bcast_queue, loop, sender, history>>

(* The search at the start of process_message, under clients_mtx.          *)
FindSender(w) ==
  /\ Up /\ pc[w] = "popped"
  /\ LET x == Find(job[w].fd)
     IN  IF x = Null THEN Done(w)
         ELSE /\ pc' = [pc EXCEPT ![w] = "found"]
              /\ sender' = [sender EXCEPT ![w] = x]
              /\ UNCHANGED job
  /\ UNCHANGED <<status, kernel, store, queues, loop, history>>

(* The flag is set before q_pop is called, or the queue is closed and empty. *)
WorkerReturns(w) ==
  /\ Up /\ pc[w] = "pop"
  /\ shutdown_flag \/ (at = "join" /\ job_queue = << >>)
  /\ pc' = [pc EXCEPT ![w] = "done"]
  /\ UNCHANGED <<status, kernel, store, queues, loop, job, sender, history>>

Text(w) == job[w].line.text

(* Faulty: the client that came last is not looked at. *)
TakenBefore(name) == \E i \in DOMAIN clients \ {1} : cells[clients[i]].name = name

(* is_username_taken *)
Taken(name) == \E x \in Listed : cells[x].name = name

(* The sender has no name yet: the line is refused, or found to be free.   *)
(* clients_mtx is released before the name is set.                         *)
CheckName(w) ==
  /\ Up /\ pc[w] = "found" /\ cells[sender[w]].name = NoName
  /\ IF Text(w) \notin Names \/ Taken(Text(w))
       THEN Done(w) /\ SendTo({cells[sender[w]].fd}) /\ UNCHANGED raced
       ELSE /\ pc' = [pc EXCEPT ![w] = "name"]
            /\ raced' = (raced \/ \E v \in Workers : pc[v] = "name" /\ Text(v) = Text(w))
            /\ UNCHANGED <<status, job, sender>>
  /\ UNCHANGED <<kernel, store, queues, loop, quitted>>

Say(w) == bcast_queue' = Append(bcast_queue, [job[w] EXCEPT !.fd = cells[sender[w]].fd])

(* The name is written through the pointer found earlier, and announced.   *)
SetName(w) ==
  /\ Up /\ pc[w] = "name"
  /\ cells' = [cells EXCEPT ![sender[w]].name = Text(w)]
  /\ SendTo({cells[sender[w]].fd})
  /\ Say(w)
  /\ Done(w)
  /\ UNCHANGED <<kernel, clients, current_clients, job_queue, loop, history>>

(* A regular message or /me.  (/who changes nothing.)                      *)
Talk(w) ==
  /\ Up /\ pc[w] = "found" /\ cells[sender[w]].name # NoName /\ Text(w) # Quit
  /\ Say(w)
  /\ Done(w)
  /\ UNCHANGED <<status, kernel, store, job_queue, loop, history>>

(* /quit closes the descriptor and leaves the client in the list.          *)
QuitChat(w) ==
  /\ Up /\ pc[w] = "found" /\ cells[sender[w]].name # NoName /\ Text(w) = Quit
  /\ descs' = [f \in Fds |-> IF f = cells[sender[w]].fd THEN 0 ELSE descs[f]]
  /\ quitted' = TRUE
  /\ Done(w)
  /\ UNCHANGED <<raced, status, conn, sent, store, queues, loop>>

Over == ~Up /\ UNCHANGED vars

MainStep ==
  Select \/ SelectReturns \/ Accept \/ Receive \/ ScanDone \/ Broadcast \/ Drained \/ Cleanup \/ JoinWorkers
WorkerStep(w) == TakeJob(w) \/ FindSender(w) \/ WorkerReturns(w) \/ CheckName(w) \/ SetName(w) \/ Talk(w) \/ QuitChat(w)

Next ==
  \/ \E c \in Conns : Connect(c) \/ Disconnect(c) \/ \E t \in Names \cup {Quit} : Send(c, t)
  \/ MainStep \/ Interrupt
  \/ \E w \in Workers : WorkerStep(w)
  \/ Over

Spec == Init /\ [][Next]_vars

(* Every thread keeps running; peers do as they like.                      *)
FairSpec == Spec /\ WF_vars(MainStep) /\ \A w \in Workers : WF_vars(WorkerStep(w))

-----------------------------------------------------------------------------
(* The counter that admits clients agrees with the list, and the list      *)
(* holds each live cell once.                                              *)
CountMatches ==
  /\ at # "join" => current_clients = Len(clients)
  /\ Listed = {x \in Cells : cells[x].live} /\ Cardinality(Listed) = Len(clients)

(* Until somebody quits, the listed clients and the open descriptors       *)
(* correspond: none is closed under a client, none leaks, none is shared.  *)
DescriptorsOwned ==
  ~quitted =>
    /\ \A x \in Listed : descs[cells[x].fd] = cells[x].of /\ cells[x].of # 0
    /\ \A f \in Fds : descs[f] # 0 => \E x \in Listed : cells[x].fd = f

(* Until somebody quits, a line of a client that is connected is processed *)
(* for that client, whatever became of others and their descriptors.       *)
RightSender ==
  [][\A w \in Workers : pc[w] = "popped" /\ pc'[w] # "popped" /\ ~quitted =>
       \A x \in Listed : cells[x].of = job[w].line.by => sender'[w] = x]_vars

(* No two clients have the same name, also when one takes the memory or    *)
(* the name of one that left, unless two workers have found the name free  *)
(* before either of them gave it away.                                     *)
NamesUnique ==
  ~raced => \A x, y \in Listed :
    x # y /\ cells[x].name \in Names => cells[x].name # cells[y].name

(* Every line that was sent is dealt with, unless there was a /quit, or    *)
(* the server is shutting down.                                            *)
Pending(c) ==
  \/ conn[c].unread # << >>
  \/ \E i \in DOMAIN job_queue : job_queue[i].line.by = c
  \/ \E i \in DOMAIN bcast_queue : bcast_queue[i].line.by = c
  \/ \E w \in Workers : job[w] # Null /\ job[w].line.by = c
LinesFlow == \A c \in Conns : Pending(c) ~> ~Pending(c) \/ quitted \/ shutdown_flag \/ ~Up

(* main waits in recv for a client that has nothing to say.                *)
WaitsForPeer ==
  /\ at = "scan" /\ Unread # {}
  /\ LET c == descs[cells[rest[Lowest(Unread)]].fd] IN c # 0 /\ ~Readable(c)

(* main never waits in recv: until a /quit or SIGINT, the client the scan  *)
(* comes to has a line to be read or has closed, though others have been   *)
(* accepted and removed since select looked, and their descriptors given   *)
(* out again.                                                              *)
RecvNeverBlocks == ~quitted /\ ~shutdown_flag => ~WaitsForPeer

(* "Graceful shutdown": after SIGINT every thread and main return, in any  *)
(* state of the server and its clients, unless main waits in recv for a    *)
(* client that select has not found readable.                              *)
ShutdownEnds == shutdown_flag ~> ~Up \/ WaitsForPeer

(* "Basic command handling (/who, /me, /quit)": the server serves on.      *)
ServerKeepsServing == at # "cleanup" \/ shutdown_flag
=============================================================================
