---------------------------- MODULE MessageBoard ----------------------------
(***************************************************************************)
(* The message board of lab3/server.c and its clients (lab3/client.c).     *)
(* One process turns a select loop over its console, the listening socket  *)
(* and MAX_CLIENTS slots.  A free slot holds 0, which is also the          *)
(* descriptor of the console, and the scan of the slots does not tell the  *)
(* two apart: once select has found the console readable, every free slot  *)
(* reads from it too, waits for the operator, and takes the end of the     *)
(* console's input for a client that left.                                 *)
(*                                                                         *)
(* What one read returns is taken for one line: lines that arrive together *)
(* are lost but for the first.  A post is known by its number.             *)
(***************************************************************************)
EXTENDS Integers, Sequences, FiniteSets, SequencesExt

CONSTANTS
  MAX_CLIENTS, BOARD_SIZE,
  MaxConns,     \* bound: connections that are ever made
  MaxSends,     \* bound: lines that clients send in all
  MaxTyped      \* bound: lines the operator types

ASSUME BoardAssumption ==
  /\ MAX_CLIENTS \in Nat \ {0} /\ BOARD_SIZE \in Nat \ {0}
  /\ MaxConns \in Nat /\ MaxSends \in Nat /\ MaxTyped \in Nat

(* What a line does: POST adds to the board.  GET, and every line that is  *)
(* no command, changes nothing.                                            *)
Commands == {"POST", "GET"}
Slots == 1 .. MAX_CLIENTS
Conns == 1 .. MaxConns

(* Descriptors: the console has 0, connections take the lowest one free.   *)
Fds == 0 .. MaxConns
Listener == -1
Closed == 0                \* values of descs besides connections
Console == MaxConns + 1

VARIABLES
  server,           \* "up", "stopped" by the operator or "killed" by SIGPIPE
  pending,          \* slots of this scan still to be read
  client_sockets, n_clients,
  board, board_msg_count,
  descs,            \* descriptor -> the connection it denotes
  peer,             \* connection -> its state and what it has sent
  sends,            \* lines clients have sent
  typed, keys,      \* lines the operator has typed, and those not yet read
  eof,              \* has the operator closed the console's input?
  posts,            \* history: who made each post
  since, got        \* history: posts made when c came, and those written to c

table == <<client_sockets, n_clients, descs>>
posted == <<board, board_msg_count, posts, got>>
operator == <<typed, keys, eof>>
board_vars == <<server, pending, table, posted, peer, sends, operator, since>>

BoardInit ==
  /\ server = "up" /\ pending = {}
  /\ client_sockets = [i \in Slots |-> 0] /\ n_clients = 0
  /\ board = [j \in 0 .. BOARD_SIZE - 1 |-> 0] /\ board_msg_count = 0
  /\ descs = [f \in Fds |-> IF f = 0 THEN Console ELSE Closed]
  /\ peer = [c \in Conns |-> [st |-> "none", unread |-> << >>]]
  /\ sends = 0 /\ typed = 0 /\ keys = << >> /\ eof = FALSE
  /\ posts = << >>
  /\ since = [c \in Conns |-> 0] /\ got = [c \in Conns |-> << >>]

-----------------------------------------------------------------------------
(* The clients, and the operator at the console.                           *)
Loop == <<server, pending, table, posted, since>>

PeerConnects(c) ==
  /\ server = "up" /\ peer[c].st = "none" /\ (c > 1 => peer[c - 1].st # "none")
  /\ peer' = [peer EXCEPT ![c].st = "backlog"]
  /\ UNCHANGED <<Loop, sends, operator>>

(* handle_user_input: a line is sent, or its end shuts the sending side.   *)
PeerSends(c, command) ==
  /\ server = "up" /\ peer[c].st = "open" /\ sends < MaxSends
  /\ peer' = [peer EXCEPT ![c].unread = Append(@, command)]
  /\ sends' = sends + 1
  /\ UNCHANGED <<Loop, operator>>

PeerLeaves(c, how) ==
  /\ server = "up" /\ peer[c].st = "open"
  /\ peer' = [peer EXCEPT ![c].st = how]
  /\ UNCHANGED <<Loop, sends, operator>>

(* Of what the operator can type only a POST has an effect.                *)
OperatorTypes ==
  /\ server = "up" /\ ~eof /\ typed < MaxTyped
  /\ typed' = typed + 1 /\ keys' = Append(keys, "POST")
  /\ UNCHANGED <<Loop, peer, sends, eof>>

OperatorEnds ==
  /\ server = "up" /\ ~eof
  /\ eof' = TRUE
  /\ UNCHANGED <<Loop, peer, sends, typed, keys>>

-----------------------------------------------------------------------------
(* What read(fd) can return; when none of the three holds it waits.        *)
ReadFails(fd) == descs[fd] = Closed

ReadEnds(fd) ==
  IF descs[fd] = Console
    THEN keys = << >> /\ eof
    ELSE \/ descs[fd] # Closed /\ peer[descs[fd]].st = "gone"
         \/ descs[fd] # Closed /\ peer[descs[fd]].st = "shut" /\ peer[descs[fd]].unread = << >>

Input(fd) == IF descs[fd] = Console THEN keys ELSE IF descs[fd] = Closed THEN << >> ELSE peer[descs[fd]].unread

ReadGets(fd) == Input(fd) # << >>

(* The console gives a line at a time, a socket all that has arrived.      *)
KeysAfter(fd) == IF descs[fd] = Console THEN Tail(keys) ELSE keys

PeerAfter(fd) ==
  IF descs[fd] \in Conns THEN [peer EXCEPT ![descs[fd]].unread = << >>] ELSE peer

Backlog == {c \in Conns : peer[c].st = "backlog"}

Watched == {Listener, 0} \cup {client_sockets[i] : i \in Slots}

Readable(fd) == IF fd = Listener THEN Backlog # {} ELSE ReadEnds(fd) \/ ReadGets(fd)

(* select; with a closed descriptor in the set it fails and the set stays. *)
Ready ==
  IF \E fd \in Watched \ {Listener} : descs[fd] = Closed
    THEN Watched
    ELSE {fd \in Watched : Readable(fd)}

Lowest(s) == CHOOSE x \in s : \A y \in s : x <= y

(* accept: the first free slot, or the door.  When the counter is below    *)
(* the truth there may be no slot, and the descriptor stays open unused.   *)
AcceptPeer(before) ==
  LET c == Lowest(Backlog)
      fd == Lowest({f \in Fds : descs[f] = Closed})
      free == {i \in Slots : client_sockets[i] = 0}
  IN  IF n_clients >= MAX_CLIENTS
        THEN peer' = [before EXCEPT ![c].st = "closed"] /\ UNCHANGED <<table, since>>
        ELSE /\ peer' = [before EXCEPT ![c].st = "open"]
             /\ descs' = [descs EXCEPT ![fd] = c]
             /\ since' = [since EXCEPT ![c] = board_msg_count]
             /\ IF free = {}
                  THEN UNCHANGED <<client_sockets, n_clients>>
                  ELSE /\ client_sockets' = [client_sockets EXCEPT ![Lowest(free)] = fd]
                       /\ n_clients' = n_clients + 1

AcceptIfReady(before) ==
  IF Listener \in Ready
    THEN Backlog # {} /\ AcceptPeer(before)
    ELSE peer' = before /\ UNCHANGED <<table, since>>

(* Faulty: as many slots are scanned as there are clients. *)
ScannedDense == 1 .. n_clients'

Scanned == Slots

SelectReturns == server = "up" /\ pending = {} /\ Ready # {}

(* The end of the console's input stops the server.                        *)
Stop ==
  /\ SelectReturns /\ 0 \in Ready /\ ReadEnds(0)
  /\ server' = "stopped"
  /\ UNCHANGED <<pending, table, posted, peer, sends, operator, since>>

(* The loop up to its scan: what the console gives is read and ignored, a  *)
(* connection is accepted, and the slots select found readable are next.   *)
Turn ==
  /\ SelectReturns
  /\ \/ 0 \notin Ready /\ AcceptIfReady(peer) /\ UNCHANGED keys
     \/ 0 \in Ready /\ ReadFails(0) /\ AcceptIfReady(peer) /\ UNCHANGED keys
     \/ 0 \in Ready /\ ReadGets(0) /\ keys' = KeysAfter(0) /\ AcceptIfReady(PeerAfter(0))
  /\ pending' = {i \in Scanned : client_sockets'[i] \in Ready}
  /\ UNCHANGED <<server, posted, sends, typed, eof>>

-----------------------------------------------------------------------------
(* Faulty: the slots are searched as if they were filled without gaps. *)
ListenersDense(fd) ==
  {descs[client_sockets[j]] : j \in {k \in Slots : k <= n_clients /\ client_sockets[k] \notin {0, fd}}}

(* The clients a post read from fd is written to. *)
Listeners(fd) ==
  {descs[client_sockets[j]] : j \in {k \in Slots : client_sockets[k] \notin {0, fd}}}

(* Faulty: a post beyond the first BOARD_SIZE replaces the one before it. *)
PlaceNext(count) == IF count < BOARD_SIZE THEN count ELSE (count + 1) % BOARD_SIZE

Place(count) == count % BOARD_SIZE

(* write() to a peer that has gone may be answered with a reset; SIGPIPE   *)
(* ends the process at the next.                                           *)
WriteTo(cs) ==
  \/ UNCHANGED server
  \/ (\E c \in cs : peer[c].st = "gone") /\ server' = "killed"

Post(fd) ==
  /\ board' = [board EXCEPT ![Place(board_msg_count)] = board_msg_count + 1]
  /\ board_msg_count' = board_msg_count + 1
  /\ posts' = Append(posts, descs[fd])
  /\ got' = [c \in Conns |-> IF c \in Listeners(fd) THEN Append(got[c], board_msg_count + 1) ELSE got[c]]
  /\ WriteTo(Listeners(fd))

(* A line was read from fd: a POST, or not.                                *)
Obey(fd, command) ==
  \/ command = "POST" /\ Post(fd)
  \/ command = "GET" /\ WriteTo({descs[fd]} \cap Conns) /\ UNCHANGED posted

(* Faulty: the slot is given up without counting. *)
DropUncounted(i) ==
  /\ client_sockets' = [client_sockets EXCEPT ![i] = 0]
  /\ descs' = [descs EXCEPT ![client_sockets[i]] = Closed]
  /\ peer' = [c \in Conns |-> IF c = descs[client_sockets[i]] THEN [peer[c] EXCEPT !.st = "closed"] ELSE peer[c]]
  /\ UNCHANGED n_clients

(* read returned nothing or failed: close, free the slot, count down.      *)
Drop(i) ==
  /\ client_sockets' = [client_sockets EXCEPT ![i] = 0]
  /\ descs' = [descs EXCEPT ![client_sockets[i]] = Closed]
  /\ peer' = [c \in Conns |-> IF c = descs[client_sockets[i]] THEN [peer[c] EXCEPT !.st = "closed"] ELSE peer[c]]
  /\ n_clients' = n_clients - 1

NextSlot == Lowest(pending)

(* The next slot of the scan, whose descriptor may be the console's.       *)
Scan ==
  /\ server = "up" /\ pending # {}
  /\ pending' = pending \ {NextSlot}
  /\ LET fd == client_sockets[NextSlot]
     IN  \/ /\ ReadGets(fd)
            /\ keys' = KeysAfter(fd) /\ peer' = PeerAfter(fd)
            /\ Obey(fd, Head(Input(fd)))
            /\ UNCHANGED table
         \/ /\ ReadEnds(fd) \/ ReadFails(fd)
            /\ Drop(NextSlot)
            /\ UNCHANGED <<server, posted, keys>>
  /\ UNCHANGED <<sends, typed, eof, since>>

BoardLoop == Stop \/ Turn \/ Scan

BoardNext ==
  \/ \E c \in Conns : \/ PeerConnects(c)
                      \/ \E command \in Commands : PeerSends(c, command)
                      \/ \E how \in {"shut", "gone"} : PeerLeaves(c, how)
  \/ OperatorTypes \/ OperatorEnds
  \/ BoardLoop

(* The process is scheduled; clients and operator do as they like.         *)
BoardFair == WF_board_vars(BoardLoop)

BoardSpec == BoardInit /\ [][BoardNext]_board_vars /\ BoardFair

-----------------------------------------------------------------------------
Seated == {i \in Slots : client_sockets[i] # 0}
Seat(c) == \E i \in Seated : descs[client_sockets[i]] = c

(* As long as no slot has closed the console, the counter that admits      *)
(* clients is the number of slots in use, each slot has an open descriptor *)
(* of its own, and every open connection has a slot.                       *)
SlotsCounted ==
  descs[0] = Console =>
    /\ n_clients = Cardinality(Seated)
    /\ \A i, j \in Seated : client_sockets[i] = client_sockets[j] => i = j
    /\ \A i \in Seated : descs[client_sockets[i]] \in Conns
    /\ \A f \in Fds \ {0} : descs[f] # Closed => Seat(descs[f])

(* The board holds exactly the BOARD_SIZE latest posts.                    *)
Least(a, b) == IF a < b THEN a ELSE b
BoardRecent ==
  /\ board_msg_count = Len(posts)
  /\ {board[j] : j \in DOMAIN board} \ {0} =
       (Len(posts) - Least(Len(posts), BOARD_SIZE) + 1) .. Len(posts)

(* A connected client has been sent every post that others made since it   *)
(* came, once and in the order of the board, also after others have left   *)
(* and their slots and descriptors were given out again.                   *)
PostsReachAll ==
  descs[0] = Console =>
    \A c \in Conns : Seat(c) =>
      /\ Range(got[c]) = {k \in 1 .. Len(posts) : k > since[c] /\ posts[k] # c}
      /\ \A i, j \in DOMAIN got[c] : i < j => got[c][i] < got[c][j]

(* While the operator types nothing, whatever a client sends is read.      *)
LinesRead ==
  \A c \in Conns :
    Seat(c) /\ peer[c].unread # << >> ~>
      peer[c].unread = << >> \/ peer[c].st = "closed" \/ server # "up" \/ typed > 0
=============================================================================
