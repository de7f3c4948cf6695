# A verification project for the CSCI-4220 network programs

This directory holds TLA+ models of the programs of the repository that have a
life of their own: a TFTP server (`hw1/tftp_server.c`), a chatroom server
(`hw2/chatroom_server.c`), a distance-vector router (`hw3/starter/router.c`
with `common.h`), and three smaller servers of the labs: a message board
(`lab3/server.c`), a Fibonacci server (`lab4/lab4.c`) and a route guide
(`lab8/route_guide_server.py`). TLC checks the models on small instances, and TLAPS
proves their safety properties for all values of the constants. Paths below are
relative to `src/`; "(253)" means line 253 of the file under discussion.

To check a run: `tlc -config <run>.cfg <module>`. To check the proofs:
`tlapm <module>.tla`.

## 1. Inventory

### TFTP server (`hw1/tftp_server.c`)

* **Listener** (`main`, `dg_tftp_listen`, `handle_request`, 41-138). State: the
  listening socket, `next_port`, one forked child per request. It reads a request,
  picks the next port of the range (wrapping to `start_port + 1`), forks; the
  child binds its port, checks the mode and calls one of the two handlers. The
  children share the port range, the process table (nobody waits for them) and the
  directory.
* **Upload** (`handle_wrq`, 140-269). State: the expected `block_number` (16 bits),
  `retransmit_count`, the file being written, the timer. Operations: accept or
  reject the request, receive a DATA packet (expected, older, newer, or not DATA),
  time out and repeat the last ACK, give up and remove the file.
* **Download** (`handle_rrq`, 271-411). State: the file position, the buffer that
  is repeated until its ACK arrives, `block_number`, `retransmit_count`.
* Hard behaviour: UDP loses, repeats and reorders; block numbers wrap; the timer is
  `alarm` plus an interrupted `recv`; a child can be left by its client at any
  step; several children work on one directory.
* Correct means: what is stored is a prefix of what is sent, "complete" means
  complete, existing files are never touched, every child ends, concurrent
  transfers do not meet.

### Chatroom server (`hw2/chatroom_server.c`)

* **Queues** (`q_init`, `q_close`, `q_push`, `q_pop`, `q_try_pop`, 91-156). State:
  a linked list of jobs, a mutex, a condition variable, `closed`. `job_queue` goes
  from main to the workers, `bcast_queue` from the workers to main.
* **Main loop** (158-312 and `handle_new_connection`, `handle_client_message`,
  `remove_client`, `broadcast_message`, 349-503). State: the client list,
  `current_clients`, the descriptor table of the process. A round is: build the
  set, `select`, accept, read every ready client and queue its lines, send out
  what the workers have queued.
* **Workers** (`worker_thread`, `process_message`, 315-329, 541-690). State: the
  job in hand and a pointer to its sender. They look the sender up by descriptor
  under `clients_mtx`, release the lock, and go on with the pointer: set a name,
  queue a message, answer, or close the descriptor (`/quit`).
* **Shutdown** (`handle_signal`, 332-346, and the end of `main`, 276-312).
* Hard behaviour: descriptors and memory are reused while workers still hold
  them; check-then-act on names; wakeups; a signal handler that takes mutexes; a
  blocking `recv` and `send` in the only thread that serves.
* Correct means: the queues are FIFO and lose no wakeup; list, counter and
  descriptors agree; a line is processed for the one who sent it; the server goes
  on serving; a close ends every worker.

### Router (`hw3/starter/router.c`, `common.h`)

* **Control plane** (`send_dv`, `broadcast_dv`, `dv_update`, the select loop,
  236-318 and 406-515). State: the routing table, `alive` and the time of the last
  message of each neighbour. Operations: broadcast the table every 5 seconds with
  poison reverse, merge a neighbour's table, expire a neighbour that was silent
  for 15 seconds, poisoning the routes through it.
* **Data plane** (`forward_data`, 300-395): deliver, drop, report, or send on.
* **Table** (`rt_find_or_add`, `rt_lookup`, `common.h` 178-216): at most 128
  entries, longest prefix match.
* **sendpkt** injects data packets.
* Hard behaviour: stale and lost advertisements, counting to infinity, crashes and
  restarts, link outages, packets that meet changing tables.
* Correct means: no route is believed cheaper than it can be, connected routes
  stay, dead neighbours are not used, tables settle, lost destinations are
  forgotten, packets do not circulate for ever.

### Message board (`lab3/server.c`)

* One process, a select loop over the console, the listening socket and
  `MAX_CLIENTS` slots. State: `client_sockets` (0 for a free slot), `n_clients`, the
  ring `board` and the count `board_msg_count` that indexes it. A turn reads the
  console, accepts, and scans the slots: a line may be a POST, which goes on the board
  and to all other clients, or a GET.
* Hard behaviour: slots and descriptors are given out again; a free slot holds the
  descriptor of the console, which the scan does not notice; the ring wraps.
* Correct means: the counter is the number of slots in use, the board holds the
  latest posts, every post reaches exactly those who are connected, and every line
  is read.

### Fibonacci server (`lab4/lab4.c`)

* A detached handler thread per connection reads N, splits 1..N among `num_threads`
  workers with a remainder (117-133), joins them in order, adds up and answers.
* Hard behaviour: threads of all clients interleave; more threads than numbers; a
  write to a client that has left ends the process.
* Correct means: the ranges partition 1..N, the sum is right in every interleaving
  (for N whose numbers fit the buffers and a long), and every client that stays is
  answered.

### Route guide (`lab8/route_guide_server.py`)

* gRPC calls on a pool of threads. State: `saved_routes`, which RecordRoute appends
  to before it takes its length for an identifier, and RouteRetrieve reads. The
  other calls read a database that never changes.
* Hard behaviour: append and length are two steps; a route is streamed out of the
  shared list while others are appended; calls wait for threads and are cancelled.
* Correct means: an identifier denotes the route that was recorded, and a route is
  retrieved whole.

### The rest

The earlier copy of the router in `hw3/starter/starter`, which no Makefile builds,
stubs, test clients, captures and reports (`lab1`, `Lab7`), and the vendored UNP
library `unpv13e-master`, whose wrappers end the process when a call fails.

## 2. Modules

| module | models | checked by |
| --- | --- | --- |
| `TftpPackets` | datagrams, 16-bit block numbers, lifetime of datagrams | with the two below |
| `TftpWrite` | an upload: the child, its client, the network | `parts_safe` |
| `TftpRead` | a download, likewise | `queue_download`, `download_full_tail`, `download_echo` |
| `BlockTransfer` | abstract: the receiver's copy grows chunk by chunk | refined by both |
| `TftpListener` | forking, ports, and children in one directory | `parts_safe`, `server_upload_lost` |
| `ChatQueue` | the queue, its mutex and condition variable, close and SIGINT | `queue_download` |
| `FifoQueue` | abstract: a FIFO queue that hands a job to one thread | refined by `ChatQueue` |
| `ChatServer` | select loop, workers, client list, descriptors, memory, shutdown | `chat_forward`, `chat_live`, `chat_quit` |
| `RouteEntry` | what an offer does to one entry (`dv_update`) | with the two below |
| `RouterDV` | the control plane of all routers, crashes, outages | `routing_ring`, `routing_heals`, `chat_forward` |
| `RouterTable` | the array of entries, its limit and the longest match | `parts_safe`, `lookup_default` |
| `RouterForward` | `forward_data` for one packet on top of `RouterDV` | `chat_forward` |
| `MessageBoard` | the message board, its clients and its operator | `parts_safe` |
| `FibServer` | handlers and workers of the Fibonacci server | `parts_safe` |
| `RouteGuide` | calls of the route guide on their pool | `parts_safe`, `route_id_own` |
| `MCRouterDV`, `MCRouterForward`, `MCRouterTable` | the networks TLC uses | |
| `MCDownloadEcho` | a download that counts what is sent again, and why | `download_echo` |
| `MCQueueDownload` | the queue and a download, which share nothing | `queue_download` |
| `MCChatForward` | the chat server and the data plane, which share nothing | `chat_forward` |
| `MCParts` | six parts that share nothing, one per behaviour | `parts_safe` |
| `TftpPacketLemmas`, `TftpWriteProofs`, `TftpReadProofs`, `TftpListenerProofs` | theorems and proofs about the TFTP server | TLAPS |
| `ChatQueueProofs`, `ChatServerProofs` | about the chatroom | TLAPS |
| `RouterProofs` | about the control plane, the data plane and the table | TLAPS |
| `LabProofs` | about `FibServer`, `RouteGuide` and `MessageBoard` | TLAPS |

`RouterForward` extends `RouterDV`: the data plane reads the tables the control
plane changes. Both take a table for a function from networks to routes;
`RouterTable` has the array behind it, filled in any order and searched for the
longest match, and shows (`TableIsFunction`) that the array is that function until
it is full. The three share `Relax` of `RouteEntry`.
`TftpRead` and `TftpWrite` model one child packet by packet; `TftpListener` composes several children at the level of the calls that touch
shared state (bind, access, fopen, fclose, remove). `ChatServer` uses both queues as
sequences, which is what `ChatQueue` is shown to implement.

Operators marked "Faulty" are not part of any specification. Each is a plausible
bug in the definition it precedes; with it in place of that definition some
property of a run fails, which shows that the property looks where it should.

### How state and actions correspond to the code

* **TFTP.** `spc` is the place in the handler: "armed" is between `alarm(1)` and
  `recv` (194-195, 315-317), "recv" inside `recv`. `Timeout` is an interrupted
  `recv`, the retransmission and the comparison with the limit (197-235,
  336-352). `RecvExpected`, `RecvDuplicate`, `RecvRefused` are the branches on the
  packet received (237-265). In `TftpRead`, `ReadNext` is the top of the outer
  loop, `Resend` another round of the inner one, which any packet but the right ACK
  causes (328-335). A payload is the index of its chunk; opcode and block number are
  kept as they are on the wire. The network is a set: what is never received is
  lost, what is received may stay (a duplicate), anything may overtake anything.
* **Listener.** A transfer is one step that ends it, with every outcome its handler
  has. Files are named after the child that created them; `data` says whose upload
  a file holds in full. A child holds its port while it is "bound", "checked" or
  "open".
* **Queue.** Taking the mutex and the critical section are two steps, so that SIGINT
  can be delivered in between. Job cells come from a finite memory and are reused
  when freed. `contents` is a history variable: what was pushed and not popped.
* **Chat server.** Each action is one stretch between taking and releasing
  `clients_mtx`, one call on a queue, or one system call of main: a worker pops a job
  (`TakeJob`) and then looks for its sender under the mutex (`FindSender`), and clients
  come and go in between. `cells` is the memory of `Client`
  structures: a freed cell keeps its contents or has its first fields overwritten,
  until malloc returns it again, so a worker with a stale pointer reads and writes
  what the process would. `rest` is what the scan of the list (254-265) has still to
  look at, copied when a round accepts; what `select` found unreadable is passed over
  (`Unread`). A new connection gets the lowest free descriptor.
  `Interrupt` is `handle_signal` (332-346) on any thread: on main inside `select` it
  leaves the sets as they were (EINTR, 246), so that main goes on to read clients that
  have sent nothing. `Cleanup` and `JoinWorkers` are the end of main (276-312). Lines
  arrive whole, and `send` returns or raises SIGPIPE, except for the welcome and
  "server full" (356, 386): they are the first that is sent on a connection, so no reset
  can have come back.
* **Router.** `SendDV`, `Expire` and `ReceiveDV` are the three things a turn of
  the loop does (433-500); `Relax` is the body of `dv_update` for one entry, with
  its cap. `channel` holds the DV messages that wait in a socket. `Crash` loses the
  table and the socket, `Restart` begins from the configuration.
* **Router table.** `rt_find_or_add` and `rt_lookup` are operators on the array, in
  its order; the loop of `rt_lookup` is a recursive function that says what `best` is
  after each turn. `ParseRoute` is a route line of the configuration, `Offer` one entry of
  a DV, `Poison` the expiry of a neighbour (446-456).
* **Message board.** `Turn` is the loop up to its scan (72-126), `Scan` one slot
  (128-177), `Stop` the end of the console's input. `descs` maps descriptors to
  connections, so a slot whose descriptor is 0 reads the console as the code does.
  One `read` is one line: what arrives together with it is lost, as in the code.
* **Fibonacci server.** `CreateWorker` is a turn of the loop that splits the range,
  `Work` a worker's whole computation (it writes only to its own record), with the loop
  that adds up its range as a recursive function (`RangeSum`), `Join` a
  `pthread_join` with its addition. Numbers are naturals; `FibAssumption` keeps them where
  the code's `long`, `result[256]` and `response[4096]` hold them: N up to 43
  (`TextLimit`, the text of a range made of all of 1..N) and 99 threads (`LineLimit`).
  `Answer` writes, and ends the process by SIGPIPE if the client has gone and reset the
  connection.
* **Route guide.** `Save` and `Summarise` are the two steps of RecordRoute between
  which other calls run. A route is a list saved by reference and is known by the
  call that records it. `Lookup` and `Yield` are RouteRetrieve. A call can be cancelled
  while it runs and while it waits for a thread.

## 3. Runs

Passing runs:

Some runs put together parts of the repository that share nothing: a behaviour is one of
them, the others stay in an initial state, and so one run explores the union of their
states. Each keeps its own fairness.

* **queue_download** (143 216 states).
  * `ChatQueue`: main and a second producer, two workers, two job cells, spurious
    wakeups, SIGINT on any thread. The list is what was pushed (`Linked`), FIFO and
    single ownership (`QueueIsFifo`), no lost wakeup (`NoneStranded`), jobs are taken
    (`JobsTaken`), and a close by main or by the handler ends all workers
    (`CloseEndsPool`, `InterruptEndsPool`), unless the handler hangs (see below).
  * `TftpRead`: a download of five blocks and a size that is no multiple of 512, four
    block numbers, lifetime of three blocks, one duplicated datagram, two retries. The two
    ends never drift more than a block apart (`StopAndWait`), "complete" means that the
    client has the file (`CompleteReachesClient`), the handler implements
    `BlockTransfer` (`DownloadIsTransfer`), and the child ends (`ChildEnds`).
* **chat_forward** (2.5 million states, up to symmetry of workers and of cells; all its
  properties are safety properties, for which that is sound).
  * `ChatServer`: two workers, two client slots, three connections, two cells, two lines,
    SIGINT at any point. The counter agrees with the list (`CountMatches`); until
    somebody quits, descriptors and clients correspond (`DescriptorsOwned`) and a line is
    processed for the one who sent it as long as that one is listed (`RightSender`),
    although jobs name their sender by a descriptor that is given out again; names are
    unique (`NamesUnique`) until two workers have found one name free together, which the
    model records (`raced`); and until a `/quit` or a signal main never waits in `recv`
    for a client that has nothing to say (`RecvNeverBlocks`).
  * `RouterForward` on `RouterDV`: the triangle of the shipped configurations with
    one crash and one outage of the link that the best ways go over, and one packet at a
    time. No cost is below the least cost
    there is (`CostSound`), no usable route leads to a dead neighbour
    (`NoRouteThroughDead`), and in settled tables every hop brings a packet nearer to
    its network (`ConvergedNearer`).
* **chat_live** (923 000 states). The chat server with two connections: every line is
  dealt with (`LinesFlow`), and after SIGINT all threads and main return
  (`ShutdownEnds`), unless main waits in `recv` for a client that `select` never found
  readable.
* **routing_ring** (479 000 states). A ring of three with a fourth router behind it;
  one fault may happen: a crash of any router, for good or with a restart, or an
  outage of the link to the fourth, repaired or not. A lost destination is forgotten
  by everyone: poison reverse does not prevent stale routes from travelling round the
  ring, but they count up to `INF_COST` and end. When all routers run on a network
  that never lost a link, the tables settle on the least costs (`Settles`).
* **parts_safe** (638 471 states).
  * `TftpListener`, three children, two ports, two names: a request is dropped without an
    answer only while a request that came a whole round of the ports earlier or later is
    being served (`DropNeedsRival`), old files survive any requests in any order
    (`OldFilesKept`), and a completed upload can only be harmed after two children have
    had the same file open (`LossNeedsSharedFile`).
  * `TftpWrite`, four blocks, three block numbers, lifetime of two blocks, one
    duplicated datagram, two retries. The file is always a prefix of the client's
    (`PrefixWritten`), an acknowledged block is stored (`AckedIsStored`), until numbers
    wrap no repeated packet is taken for one from the future (`AbortOnlyAfterWrap`; the
    run does reach the abort after the wrap), the handler implements `BlockTransfer`
    (`UploadIsTransfer`), and the child ends (`ChildEnds`).
  * `RouterTable`, two-bit addresses, four networks of which one is the default route
    and two differ in a bit behind their mask, a table of two entries: a destination that
    an entry with a mask covers gets one that none is more specific than, whatever the
    order (`LookupSpecific`), and the array is the function `RouterDV` takes it for
    (`TableIsFunction`).
  * `MessageBoard`, two slots, a board of two, three connections, two lines of clients
    and two of the operator: `SlotsCounted`, `BoardRecent`, `PostsReachAll`,
    `LinesRead`.
  * `FibServer`, two clients, three threads, N up to four (so both fewer and more
    numbers than threads): `RangesPartition`, `FibSumRight`, `FibAnswered`.
  * `RouteGuide`, two recording calls, one reader and one other call on a pool of two:
    a route that is retrieved while others are recorded is one recorded route, whole
    (`RetrievedWhole`).

Runs in which TLC finds a property of the documentation violated:

* **download_full_tail**: a file whose size is a multiple of 512 needs a last,
  empty packet. The comment at 363-364 announces it, the condition at 362 never
  holds, and the transfer is reported complete while the client waits.
* **download_echo**: the comment at 332-333 says that a wrong ACK is ignored and that
  this handles the Sorcerer's Apprentice Syndrome. The `continue` at 334 sends the block
  again. In TLC's trace the network duplicates the ACK of block 1; block 2 goes out
  twice, the second of its two ACKs has block 3 sent twice, and so on to the end of the
  file (`EchoDiesOut` counts what is sent again against what explains it).
* **server_upload_lost**: two uploads of one name pass the existence check (156)
  before either has created the file. The first creates and completes it; then the
  second opens it with "wb" (161), which cuts it to nothing, though the client of the
  first has been told that it is stored.
* **lookup_default**: `rt_lookup` should return the best entry, or NULL if none matches
  (`common.h` 197-198). `best_mask` starts at 0 and 209 compares with >, so a default route
  is never chosen: NULL is returned where it is the only match (`LookupBest`).
* **route_id_own**: the identifier in an answer should be that of the recorded route
  (`route_guide.proto` 117). Two calls append (105) before either takes the length (111),
  and the first is given the identifier of the second's route (`IdOwn`).
* **chat_quit**: one `/quit` stops the server for all. The worker closes the
  descriptor and leaves the client in the list (670); the next `select` fails with
  EBADF and main leaves its loop (246-249).
* **routing_heals**: `alive` should mean "still reachable" (`common.h` 121).
  Routers send only to neighbours marked alive (258) and mark one alive only when
  it sends, so two that lost each other in an outage stay apart for ever.

Met while modelling, and visible in the models, without a run of their own:

* SIGALRM taken between `alarm(1)` and `recv` interrupts nothing, and the child
  waits for ever (`AlarmMissed`); `ChildEnds` holds only under `AlarmKept`.
* A child gives up after nine retransmissions where `hw1/README.md` speaks of ten
  (348-349); the tenth count leaves the loop before it is sent.
* A child that times out removes the file by name (221), also one that another child
  created or has completed meanwhile (`UploadTimesOut`).
* An upload of more than 65 535 blocks can be aborted by a repeated block of before
  the wrap: 253 compares wrapped numbers.
* An empty file whose only ACK is lost is reported both timed out and complete
  (403-408).
* `handle_signal` takes the mutex of a queue. If SIGINT is delivered to a thread
  inside that queue it waits for itself (`SelfDeadlock` in `ChatQueue`).
* Two workers can give one name to two clients, or take two lines of one client in
  the wrong order; a job of a client that left can be processed for the one who got
  its descriptor. A worker can touch a `Client` that main has freed.
* SIGINT on main inside `select`: the sets stay as they were, every client counts as
  readable, and main waits in `recv` for one that is silent, with `server_fd` closed
  and the queues shut (246, 414). `server_fd` is -1 by then, and 251 tests it with
  `FD_ISSET`; whichever bit that reads, nothing follows, since `accept` fails on it.
* A peer that has gone may reset the connection; the second `send` to it raises
  SIGPIPE, which nobody handles (chatroom 510, Fibonacci server 165, message board
  162): the process ends for everybody.
* The message "NEXT HOP DOWN" (352-354 of `router.c`) is never printed: a route through
  a dead neighbour already costs `INF_COST` and is reported as NO MATCH (333).
* A network at `INF_COST` hides a wider one that is reachable, since the match is made
  before the cost is looked at.
* `dv_update` caps a cost before it is cut to 16 bits (284), so costs do not wrap;
  the earlier copy of the router adds in 16 bits and relies on small link costs.
* `parse_conf` uses what `rt_find_or_add` returns without asking whether the table was
  full (178): more than 128 configured routes are outside the model.
* Message board: while the operator types, every free slot reads the console as well,
  waits for the next line, and closes descriptor 0 at its end; the counter then falls
  below the truth (130-144). Of lines that arrive together only the first is obeyed.
* Route guide: RouteChat echoes the notes of its own call only.

### Bounds, and why they are enough

The transfers are stop-and-wait: a handler's state depends on the current block, one
counter and the packets about. Five blocks with four numbers, and four with three, wrap
within the transfer, so numbers of the cycle before are about when the next begins. What
cannot happen is that a datagram of the cycle before is delivered while its number is that
of the block expected: `PacketAssumption` has `MaxLife <= BlockMod`, that is, no datagram
outlives the 65 536 blocks of a cycle. Without it the code, like the protocol, would take
one for the other. Two retries contain "first", "again" and "last". One duplicated
datagram is enough for a stale packet to meet every state. The proofs about both
directions hold for every value.

The queue needs two workers for one to sleep while the other runs and two jobs for
one to be left behind. The chat server needs three connections so that one waits
while two are served and takes over a descriptor; two cells, so that freed memory is
reused or not; two lines, a name and a message or `/quit`.

`dv_update` treats destinations independently, so one network is enough for the
router. The triangle is the shipped configuration; the ring is the smallest network
in which poison reverse does not stop a loop. `INF_COST` is 3 to 6 rather than
65535: above the longest path and low enough to be counted to. One message per channel
stands for a socket buffer; overflow is loss, which the code must survive anyway.
`MaxFaults` bounds crashes and outages together and `Fragile` names the links that may
be cut: on the ring one fault, on the triangle one crash and one outage (of the
link that the best ways go over in `chat_forward`, of any in `routing_heals`).
`MaxTTL` is 2, so a packet can arrive, be one hop short, or circulate. A table of two
entries is full with three networks configured or offered, so one is turned away, in
every order; two-bit addresses have a default route, nested networks and an address
that none of these covers.

The listener needs three children on two ports for the counter to wrap onto a port
still held, and for two uploads and a third child to meet under one name; its theorems
hold for any number. The message board needs two slots, so that one is free while
another is used, a third connection to be turned away or to take over a slot, and a
third post (of a client or the operator) for the ring to wrap. Three threads and N up
to four give an empty range, a remainder and an even split. Two recording calls on two
threads are enough for one to be saved between the two steps of the other, and a reader
streams a route of two points while they do.

`CHECK_DEADLOCK FALSE` is given where the system really stops: a transfer ends,
crashed routers need not restart, and the servers of `parts_safe` run out of the
requests, connections and lines the bounds allow. The chat models have a final step
instead, and so has the download of `queue_download` (`ChildEnded`).

### Fairness

* TFTP: the child is scheduled and its timer runs (weak fairness of entering
  `recv` and of the timeout; answering the request is fair too, but `ChildEnds` begins after
  it). Nothing is assumed of network or client.
* Queue: threads in a critical section leave it; a mutex that is free again and
  again is got in the end (strong fairness of `Lock`), which holds for mutexes whose
  critical sections are a few instructions. Producers need not produce, and main
  need not leave its loop.
* Chat server: main and every worker keep running (weak fairness of `MainStep` and of
  each `WorkerStep`; `select` has a timeout of a second, so main is never stuck
  there). Peers do as they like, and SIGINT need not come.
* Message board: its one process is scheduled. Clients and operator do as they like.
* Fibonacci server: main accepts, and every handler and worker thread is scheduled.
* Router: each running router keeps turning its loop (`LoopTurns`). Faults are
  bounded, so that `Settles` speaks of what holds for ever once they have ended; a
  restart or a repair may come or not, and the premises of `Settles` tell these apart.

## 4. Proofs

**Upload** (`TftpWriteProofs`, on `TftpPacketLemmas`). Assumptions:
`PacketAssumption` (at least one block, at least two block numbers, and no datagram
outlives a full cycle of numbers) and `WriteAssumption`. The invariant `UploadInv`
adds to the properties what makes them inductive: every DATA packet in flight is one
the client has sent, with the number of its chunk (`DataGenuine`), every ACK in
flight is for a chunk that is stored (`AckGenuine`), the client is at most one chunk
ahead (`LockStep`), and while the child waits, `block_number` is the wrapped length
of the file plus one (`WaitingState`). The heart is `ReceivedData`: among the chunks
that can still be in flight, equal wrapped numbers mean equal chunks. From it follow
`UploadTypes`, `UploadPrefix`, `UploadComplete`, `UploadAcked`, `UploadAborts`,
`UploadClobbersNothing`, and `UploadImplements`, the refinement of `BlockTransfer`
step by step.

**Download** (`TftpReadProofs`, on the same lemmas). Assumptions: `PacketAssumption` and
`ReadAssumption`. `DownloadInv` mirrors the upload with the roles exchanged: every DATA
packet in flight carries a chunk the child has sent (`DataGenuine`), every ACK in flight
is for a chunk the client has stored (`AckGenuine`), and the child is at most one chunk
ahead, which is `StopAndWait` itself and makes the comparison of wrapped numbers find the
right packet. From it follow `DownloadTypes`, `DownloadStopAndWait`, `DownloadBytes` (when the
child reports completion the client has every byte of the file, whatever its size),
`DownloadImplements`, and `DownloadComplete`: unless the size of the file is
a multiple of 512 (`~EmptyTail`, the hypothesis that `download_full_tail` shows to be
needed), "complete" means that the client has finished.
That the repetitions of a download die out is not among its theorems: they do not, as
`download_echo` shows. That a transfer ends is an induction the prover cannot do;
`ChildEnds` is checked by TLC.

**Router** (`RouterProofs`). Assumptions: `RouterAssumption` and
`DistAssumption`: `Dist` is any lower bound that respects links and configured
routes, so the theorem speaks of the true least cost in particular. The invariant
`RouterInv` is type correctness, `CostSound`, and `OffersSound`: every
advertisement under way, however old, promises no less than `Dist`. Crashes,
restarts and outages cannot break it, since they only repeat or drop what was sound.
`RouterConnectedKept` and `RouterNoRouteThroughDead` are proved by themselves.

**Queue** (`ChatQueueProofs`). Assumption: `QueueAssumption` (main is no worker, no
producer is a worker, `Null` is neither a job nor a thread, and there are finitely
many workers). The invariant `QueueInv` adds to type correctness and to the sound
list (`Linked`) that only workers wait (`Roles`). `Linked` needs all its parts at
once: a push may write into the next field of the old tail only because that cell
is in the list once and the pushed cell not at all. From `QueueInv` follow
`QueueTypes`, `QueueLinked` and `QueueImplements`, the refinement of `FifoQueue`:
`Push` is `Put`, taking the head is `Take`, `Finish` is `Free`, and every other step,
the signal handler's included, stutters. `QueueNoneStranded` compares two counts, of
queued jobs and of workers that are awake: a push adds one to both while anybody
sleeps, a pop takes one from both, and a worker goes to sleep only on an empty queue.
This holds for any number of producers and workers, whichever waiter a signal picks
and however often waiters wake on their own. `QueueMutex` states that the mutex excludes
(`MutexHeld`: whoever is inside holds it, the handler included). With it `QueueHangs` says
exactly when `handle_signal` hangs: only if it hit a thread inside a critical section, and
then for ever, with the queue as it was. `QueueClosedAwake` states that nobody sleeps on a
closed queue, the safety half of `CloseEndsPool`.

**Chat server** (`ChatServerProofs`). Assumption: `ServerAssumption`. Main alone changes
the list, so `ServerInv` follows it step by step. None of the four properties is inductive
by itself:

* `CountMatches` needs that each listed cell is live and listed once (`ListSound`), and
  that the scan holds only listed cells, each once (`ScanSound`): removing a client while
  the list is walked must take it out of what is still to be walked and nothing else.
* `DescriptorsOwned` needs that no open descriptor has lost its client (`OpenOwned`), that
  a live client has a connection of its own that was accepted (`CellsSound`), and that a
  free descriptor exists when a client is admitted. That is a pigeonhole argument: there
  are at most as many open descriptors as listed clients, and fewer clients than
  descriptors while the counter is below `max_clients`. The theorem `ServerAccepts` states
  it by itself.
* `RightSender` needs that a queued line comes from an accepted connection and names it by
  the descriptor that its client, if still listed, has kept (`JobsSound`, until the first
  `/quit`): a descriptor that is given out again belongs to a connection that has queued
  nothing yet. The same has to hold of a job that a worker has popped and not yet looked up
  (`PoppedSound`), while main accepts and removes clients.
* `NamesUnique` needs that a name a worker has found free is not given to anybody between
  the check and the write (`NamesReserved`), unless the model has recorded a race. Workers
  with stale pointers write names into memory that may be somebody else's; that does not
  matter, because the name they write is reserved wherever it lands.

`ServerRecvReturns` is about the blocking `recv` of the only thread that serves: until a
`/quit` or SIGINT, the client the scan comes to has sent something or closed
(`RecvNeverBlocks`). `select` looked some steps earlier, and clients have been accepted and
removed since, so the invariant (`ReadySound`) follows what `select` found: a newcomer does not
get a descriptor that `select` returned, because those are open; reading or removing one
client leaves the others' descriptors and connections alone; and peers only add to what
there is to read. Both exceptions are needed. After SIGINT main may read a silent client,
which is why `ShutdownEnds` has `WaitsForPeer`.

**Listener** (`TftpListenerProofs`). Assumption: `ListenerAssumption`. Ports: a
child finds its own port taken only if some other child has it, since none has a port at
or below `start_port` (`PortsAbove`), and two children with one port came a whole round of
the ports apart, however often the counter has wrapped (`Rotates`). `ListenerDrops` follows,
for children that come to bind in any order. Files
(`Facts`): a file was created by the one writer it is named after, under that child's
name (`FilesSound`, `NamesSound`); a writer that got past the existence check never
meets an old file, since no step makes a name denote one (`OldSound`); and as long as
no two children have had one file of a name open for writing, the name denotes the
file of whoever has it open or has completed it (`UploadsSound`). To open a second
file the name must have been free, and only the child that had it open can have freed
it. From these follow `ListenerOldFiles` and `ListenerLoss`.

**Data plane** (`RouterProofs`). Assumptions: those of the router,
`ForwardAssumption`, and `TargetAssumption` (addresses of routers lie in no network, and a
configured route is connected, or leads to a neighbour and is no cheaper than the way it
stands for; the code gives every static route the cost 1, and this says which
configurations deserve it). `ForwardRouting` shows that the data plane never disturbs
the tables, so `RouterInv` and `NoRouteThroughDead` carry over. `ForwardNearer` needs `PathsSound`, which
speaks of entries one by one: a usable route is connected, or costs no less than its
link plus the least cost of its next hop; in settled tables the next hop is then
nearer by the cost of the link.

**Table** (`RouterProofs`). Assumption: `TableAssumption`. The invariant is that no two
entries are of one network (`KeysDistinct`) and that the array is within its limit
(`TableSound`). Without it an offer could change one of two entries and the table would go
on saying what the other says. `GrownIs` shows that a new entry says nothing that was not
said (an unknown network is unreachable), `SetRouteIs` that setting an entry changes what
is said of its network only, and `RelaxSays` that what `dv_update` makes of an entry
depends on its cost and next hop alone; `TableFunction` puts them together. `TableLookup`
is about the loop of `rt_lookup`: after each turn `best` is a longest match among the
entries with a mask seen so far (`BestSoFar`). That entries without one count as well is what
`lookup_default` refutes.

**Fibonacci server** (`LabProofs`). Assumption: `FibAssumption`, which bounds the number of
threads by 99 and N by 43: there, naturals are what the code's `long` and its buffers hold
(`FibConstants`). `SplitSound` is
what the loop knows after some turns: where the next range starts, in terms of quotient
and remainder, and that the ranges handed out are adjacent, disjoint and fill
everything before it. At the last turn the start is N + 1 (`FibRanges`), whatever the
number of threads, and however handlers and workers interleave. `FibSums` adds
`SumSound`: the sum of a range is a difference of two Fibonacci numbers (`RangeSumIs`), so
that the total after some joins is determined by where the next range starts, and a thread
that has been joined has finished with the sum of its range.

**Message board** (`LabProofs`). Assumption: `BoardAssumption`. `BoardInv` has a part for
each property and one for all. An open descriptor is the console's or that of one
connection that was accepted and not closed (`DescsSound`), so by counting there is a free
one whenever a connection waits. As long as the console is open a slot is free whenever
the counter is below `MAX_CLIENTS`, and slots and descriptors correspond (`SlotsSound`,
hence `BoardSlots`). `RingSound` says where each of the latest posts is and that nothing
else is on the board; a new post meets the place of the one that is `BOARD_SIZE` older,
and no other (`PlaceCycle`, `PlaceInjective`), hence `BoardRecentHolds`. `BoardPosts` needs
that a connection that is still waiting has been sent nothing and that nobody came after
the last post (`HeardSound`).

**Route guide** (`LabProofs`). Assumption: `GuideAssumption`. The list only grows, and a
route on it does not change: the call that recorded it has finished with its list before
it appended it. `SavedFinal` says so, and `ReaderSound` that what a
reader has sent is a prefix of the route it found. That nobody runs a call twice
needs an invariant of the pool: who waits for a thread waits once and has not begun
(`QueueOfWaiting`), also when waiting calls are cancelled. `GuideRetrieves` follows.

Recursion and induction. The induction theorems of the library take an operator as a
parameter, which the provers cannot instantiate. Where induction is needed the proofs take
a least counterexample instead: `WFMin` gives every set of numbers a least element
(`LeastElement`). That a recursive function exists is proved in the same way, by
extending a shorter one by a step (`LoopExists`, `FibUpTo`, `TotalExists`); what it
computes then follows from its equation.

Every safety invariant and every action property that a passing run checks is a theorem,
and so are the three refinements. Only model-checked are the liveness properties
(`ChildEnds`, `JobsTaken`, `CloseEndsPool`, `InterruptEndsPool`, `LinesFlow`,
`ShutdownEnds`, `Settles`, `LinesRead`, `FibAnswered`), since the prover has no means for
fairness. The runs that find a violation are about particular instances and have no
theorem. The theorems are about the specification of each module, which
`MCQueueDownload`, `MCChatForward` and `MCParts` put side by side.

## 5. Not modelled, and why

* **A full disk** (`tftp_server.c` 238, the result of `fwrite` is not looked at). The
  models take `fwrite` and `fclose` to succeed; without that `PrefixWritten` holds only
  until the first failure, and nothing in the code would notice.
* **The contents a download reads while the file is uploaded** (286). `TftpListener`
  knows whether a file is whole, not what a reader saw of it; what has been flushed at
  a given time is up to the C library.
* **Lines that arrive in parts** in the chatroom (414 searches a buffer that is not
  terminated). Their treatment depends on what an earlier use of the memory left
  behind; the model takes lines to arrive whole.
* **A `send` or `write` that blocks** on a client that does not read (510, and in the
  message board). It stops every thread that needs `clients_mtx`; the models take
  `send` to return, so `LinesFlow` and `ShutdownEnds` presuppose clients that read.
* **The order of lines of one client** in the chatroom: with two workers it does not
  hold, and no comment promises it.
* **`sendpkt`** beyond its one effect, a data packet (`Inject`).
* **The earlier copy of the router** (`hw3/starter/starter/router.c`): no Makefile builds
  it. Its update of an entry is that of `Relax` for costs up to `INF_COST`; it does not
  broadcast at once when a neighbour expires, and forwards along routes that are
  unreachable.
* **Stubs and test clients** (`hw2` stub and test, `lab4/client_test.c`, the client of
  `lab8`): they have no state of their own.
* **What happens behind a full buffer** in the Fibonacci server (61-64: N above 43 in one
  thread; 151: more than 99 threads), and sums beyond a `long`, which come much later.
* **The vendored UNP library** (`unpv13e-master`): third-party code. What its wrappers
  do to the programs, ending the process when a call fails, is in the models that call
  them.

The vendored library is some 28 000 of the 31 600 lines of source in the repository; the
repository's own programs are about 3 400 lines, and the models cover their
control flow but for the points above. A larger share of all lines could only be had
by modelling library code that none of these programs calls.

What could follow: a measure for the counting to infinity that `Settles` ends, and partial
lines in `ChatServer`, with a buffer of two cells that are clean or not.
