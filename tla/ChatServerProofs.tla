-------------------------- MODULE ChatServerProofs --------------------------
(***************************************************************************)
(* Safety of the chatroom server for any number of workers, clients,       *)
(* connections and lines.                                                  *)
(*                                                                         *)
(* Main alone changes the list, so it can be followed step by step: each   *)
(* listed cell is live and listed once (ListSound), the scan only holds    *)
(* listed cells (ScanSound), and every open descriptor belongs to a listed *)
(* client (OpenOwned), which is why accept always finds one free.  Until   *)
(* the first /quit the converse holds as well (Owned).  A queued line      *)
(* names its sender by a descriptor; while that sender is listed, it has   *)
(* kept that descriptor, in the queue (JobsSound) and once it is popped    *)
(* (PoppedSound).  Workers may write through stale pointers, but only      *)
(* names, and each name is reserved for one worker from the check to the   *)
(* write (NamesReserved), unless two raced.                                *)
(***************************************************************************)
EXTENDS ChatServer, SequenceTheorems, FiniteSetTheorems, WellFoundedInduction, TLAPS

Elements(list) == {list[i] : i \in DOMAIN list}
Distinct(list) == \A i, j \in 1 .. Len(list) : list[i] = list[j] => i = j

(* The list holds exactly the live cells, each once, and the counter that  *)
(* admits clients is its length until main has torn it down.               *)
ListSound ==
  /\ Distinct(clients)
  /\ Listed = {x \in Cells : cells[x].live}
  /\ at # "join" => current_clients = Len(clients)

(* What the scan has still to look at is listed, and comes once.           *)
ScanSound ==
  /\ at # "scan" => rest = << >>
  /\ Distinct(rest)
  /\ \A i \in 1 .. Len(rest) : rest[i] \in Listed

(* When select has found the listening socket readable, a connection is    *)
(* waiting, unless SIGINT has closed the socket.                           *)
AcceptSound == at = "accept" /\ Listener \in ready /\ ~shutdown_flag => Backlog # {}

(* Each live client has a descriptor and a connection of its own, which    *)
(* was accepted.                                                           *)
CellsSound ==
  /\ \A x \in Listed : cells[x].fd \in Fds /\ cells[x].of \in Conns /\ conn[cells[x].of].st = "accepted"
  /\ \A x, y \in Listed : cells[x].of = cells[y].of => x = y

(* No open descriptor has lost its client.                                 *)
OpenOwned == \A f \in Fds : descs[f] # 0 => \E x \in Listed : cells[x].fd = f

(* Until a /quit no client has lost its descriptor.                        *)
Owned ==
  ~quitted =>
    /\ \A x \in Listed : descs[cells[x].fd] = cells[x].of
    /\ \A x, y \in Listed : cells[x].fd = cells[y].fd => x = y

(* Only accepted connections have sent something, and what arrives from    *)
(* one is its own.                                                         *)
LinesSound ==
  \A c \in Conns :
    /\ \A i \in 1 .. Len(conn[c].unread) : conn[c].unread[i].by = c
    /\ conn[c].unread # << >> => conn[c].st = "accepted"
    /\ \A f \in Fds : descs[f] = c => conn[c].st = "accepted"

(* A queued line comes from an accepted connection, and names it by the    *)
(* descriptor it still has if it is still there.                           *)
JobsSound ==
  \A i \in 1 .. Len(job_queue) : LET j == job_queue[i] IN
    /\ conn[j.line.by].st = "accepted"
    /\ ~quitted => \A x \in Listed : cells[x].of = j.line.by => cells[x].fd = j.fd

WorkersSound ==
  \A w \in Workers :
    /\ pc[w] \in {"popped", "found", "name"} => job[w] \in Jobs
    /\ pc[w] \in {"found", "name"} => sender[w] \in Cells
    /\ pc[w] = "name" => Text(w) \in Names

(* A name that a worker has found free stays free until it is given away.  *)
NamesReserved ==
  ~raced =>
    /\ \A w \in Workers : pc[w] = "name" => \A x \in Listed : cells[x].name # Text(w)
    /\ \A v, w \in Workers : pc[v] = "name" /\ pc[w] = "name" /\ Text(v) = Text(w) => v = w

ServerInv ==
  /\ TypeOK
  /\ ListSound /\ ScanSound /\ AcceptSound
  /\ CellsSound /\ OpenOwned /\ Owned
  /\ LinesSound /\ JobsSound
  /\ WorkersSound /\ NamesReserved /\ NamesUnique

-----------------------------------------------------------------------------
(* Sets of numbers have a least element, which Lowest picks.               *)
LEMMA LeastNumber ==
  ASSUME NEW T, T \subseteq Nat, T # {}
  PROVE  \E x \in T : \A y \in T : x <= y
<1> DEFINE R == OpToRel(<, Nat)
<1>1. IsWellFoundedOn(R, Nat)
  BY NatLessThanWellFounded
<1>2. \A x, y \in Nat : y < x => <<y, x>> \in R
  BY DEF OpToRel
<1> HIDE DEF R
<1>3. PICK x \in T : \A y \in T : ~ (<<y, x>> \in R)
  BY <1>1, WFMin
<1>4. \A y \in T : ~(y < x)
  BY <1>2, <1>3, Zenon
<1> QED
  BY <1>4

LEMMA LowestIs ==
  ASSUME NEW T, T \subseteq Nat, T # {}
  PROVE  Lowest(T) \in T /\ \A y \in T : Lowest(T) <= y
<1>1. \E x \in T : \A y \in T : x <= y
  BY LeastNumber
<1> QED
  BY <1>1 DEF Lowest

(* A sequence without repetitions has as many elements as places.          *)
LEMMA DistinctCounts ==
  ASSUME NEW S, NEW list \in Seq(S), Distinct(list)
  PROVE  IsFiniteSet(Elements(list)) /\ Cardinality(Elements(list)) = Len(list)
<1> DEFINE n == Len(list)
           T == {list[i] : i \in DOMAIN list}
           f == [i \in 1 .. n |-> list[i]]
<1>1. n \in Nat /\ DOMAIN list = 1 .. n
  OBVIOUS
<1>2. f \in Bijection(1 .. n, T)
  <2>1. f \in [1 .. n -> T] /\ \A i \in 1 .. n : f[i] = list[i]
    BY <1>1
  <2>2. \A i, j \in 1 .. n : f[i] = f[j] => i = j
    BY <1>1, <2>1 DEF Distinct
  <2>3. \A t \in T : \E i \in 1 .. n : f[i] = t
    BY <1>1, <2>1
  <2> HIDE DEF f, T
  <2> QED
    BY <2>1, <2>2, <2>3 DEF Bijection, Injection, Surjection, IsInjective
<1> HIDE DEF f
<1>3. IsFiniteSet(1 .. n) /\ Cardinality(1 .. n) = n
  BY <1>1, FS_Interval
<1>4. ExistsBijection(1 .. n, T)
  BY <1>2 DEF ExistsBijection
<1> QED
  BY <1>3, <1>4, FS_Bijection DEF Elements

(* RemoveAt takes out one place and keeps the order of the others.         *)
LEMMA RemoveAtIs ==
  ASSUME NEW S, NEW list \in Seq(S), NEW k \in 1 .. Len(list)
  PROVE  /\ RemoveAt(list, k) \in Seq(S) /\ Len(RemoveAt(list, k)) = Len(list) - 1
         /\ \A i \in 1 .. Len(list) - 1 :
              RemoveAt(list, k)[i] = IF i < k THEN list[i] ELSE list[i + 1]
<1>1. PICK n \in Nat : n = Len(list) /\ k \in Nat /\ 1 <= k /\ k <= n
  OBVIOUS
<1>2. \A i \in 1 .. n : list[i] \in S
  BY <1>1
<1>3. PICK front : front = SubSeq(list, 1, k - 1)
  OBVIOUS
<1>4. PICK back : back = SubSeq(list, k + 1, n)
  OBVIOUS
<1>5. front \in Seq(S) /\ Len(front) = k - 1 /\ \A i \in 1 .. k - 1 : front[i] = list[i]
  <2>1. /\ front \in Seq(S) /\ Len(front) = IF 1 <= k - 1 THEN (k - 1) - 1 + 1 ELSE 0
        /\ \A i \in 1 .. (k - 1) - 1 + 1 : front[i] = list[1 + i - 1]
    BY <1>1, <1>2, <1>3, SubSeqProperties
  <2> QED
    BY <1>1, <2>1
<1>6. back \in Seq(S) /\ Len(back) = n - k /\ \A i \in 1 .. n - k : back[i] = list[k + i]
  <2>1. /\ back \in Seq(S) /\ Len(back) = IF k + 1 <= n THEN n - (k + 1) + 1 ELSE 0
        /\ \A i \in 1 .. n - (k + 1) + 1 : back[i] = list[(k + 1) + i - 1]
    <3>1. \A i \in k + 1 .. n : list[i] \in S
      BY <1>1, <1>2
    <3> QED
      BY <1>1, <1>4, <3>1, SubSeqProperties
  <2>2. \A i \in 1 .. n - k : i \in 1 .. n - (k + 1) + 1 /\ (k + 1) + i - 1 = k + i
    BY <1>1
  <2> QED
    BY <1>1, <2>1, <2>2
<1>7. PICK left : left = front \o back
  OBVIOUS
<1>8. /\ left \in Seq(S) /\ Len(left) = Len(front) + Len(back)
      /\ \A i \in 1 .. Len(front) + Len(back) :
           left[i] = IF i <= Len(front) THEN front[i] ELSE back[i - Len(front)]
  BY <1>5, <1>6, <1>7, ConcatProperties
<1>9. Len(left) = n - 1
  BY <1>1, <1>5, <1>6, <1>8
<1>10. ASSUME NEW i \in 1 .. n - 1 PROVE left[i] = IF i < k THEN list[i] ELSE list[i + 1]
  <2>1. left[i] = IF i <= k - 1 THEN front[i] ELSE back[i - (k - 1)]
    BY <1>1, <1>5, <1>6, <1>8
  <2>2. CASE i < k
    BY <1>1, <1>5, <2>1, <2>2
  <2>3. CASE i >= k
    <3>1. i - (k - 1) \in 1 .. n - k /\ k + (i - (k - 1)) = i + 1 /\ ~(i <= k - 1)
      BY <1>1, <2>3
    <3>2. back[i - (k - 1)] = list[i + 1]
      BY <1>6, <3>1
    <3> QED
      BY <1>1, <2>1, <2>3, <3>1, <3>2
  <2> QED
    BY <1>1, <2>2, <2>3
<1>11. left = RemoveAt(list, k)
  BY <1>1, <1>3, <1>4, <1>7 DEF RemoveAt
<1> QED
  BY <1>1, <1>8, <1>9, <1>10, <1>11

(* Unlinking takes out one element and keeps the others.                   *)
LEMMA RemoveFirstIs ==
  ASSUME NEW list \in Seq(Cells), Distinct(list), NEW k \in 1 .. Len(list)
  PROVE  /\ RemoveFirst(list, list[k]) \in Seq(Cells) /\ Distinct(RemoveFirst(list, list[k]))
         /\ Len(RemoveFirst(list, list[k])) = Len(list) - 1
         /\ \A y : y \in Elements(RemoveFirst(list, list[k])) <=> y # list[k] /\ y \in Elements(list)
<1>1. PICK n \in Nat : n = Len(list) /\ DOMAIN list = 1 .. n /\ k \in Nat /\ 1 <= k /\ k <= n
  OBVIOUS
<1>2. {i \in 1 .. Len(list) : list[i] = list[k]} = {k}
  BY DEF Distinct
<1>3. SelectInSeq(list, LAMBDA v : v = list[k]) = k
  <2>1. SelectInSeq(list, LAMBDA v : v = list[k]) = Min({k})
    BY <1>2 DEF SelectInSeq
  <2> QED
    BY <2>1, <1>1 DEF Min
<1>4. RemoveFirst(list, list[k]) = RemoveAt(list, k)
  BY <1>3 DEF RemoveFirst
<1>5. PICK left : left = RemoveFirst(list, list[k])
  OBVIOUS
<1>7. /\ left \in Seq(Cells) /\ Len(left) = n - 1
      /\ \A i \in 1 .. n - 1 : left[i] = IF i < k THEN list[i] ELSE list[i + 1]
  BY <1>1, <1>4, <1>5, RemoveAtIs
<1>8. Distinct(left)
  <2> SUFFICES ASSUME NEW i \in 1 .. n - 1, NEW j \in 1 .. n - 1, left[i] = left[j] PROVE i = j
    BY <1>7 DEF Distinct
  <2>1. (IF i < k THEN i ELSE i + 1) = (IF j < k THEN j ELSE j + 1)
    BY <1>1, <1>7 DEF Distinct
  <2> QED
    BY <1>1, <2>1
<1>9. {left[i] : i \in DOMAIN left} = {list[i] : i \in DOMAIN list} \ {list[k]}
  <2>1. ASSUME NEW i \in 1 .. n - 1
        PROVE  left[i] \in {list[j] : j \in 1 .. n} \ {list[k]}
    BY <1>1, <1>7 DEF Distinct
  <2>2. ASSUME NEW j \in 1 .. n, list[j] # list[k]
        PROVE  list[j] \in {left[i] : i \in 1 .. n - 1}
    <3>1. CASE j < k
      BY <1>1, <1>7, <3>1
    <3>2. CASE j > k
      <4>1. j - 1 \in 1 .. n - 1 /\ left[j - 1] = list[j]
        BY <1>1, <1>7, <3>2
      <4> QED
        BY <4>1
    <3> QED
      BY <1>1, <2>2, <3>1, <3>2
  <2>3. DOMAIN left = 1 .. n - 1
    BY <1>1, <1>7
  <2>4. PICK A : A = {left[i] : i \in 1 .. n - 1}
    OBVIOUS
  <2>5. PICK B : B = {list[j] : j \in 1 .. n}
    OBVIOUS
  <2>6. \A y : y \in A => y \in B /\ y # list[k]
    BY <2>1, <2>4, <2>5, Zenon
  <2>7. \A y : y \in B /\ y # list[k] => y \in A
    BY <2>2, <2>4, <2>5, Zenon
  <2>8. A = B \ {list[k]}
    BY <2>6, <2>7
  <2> QED
    BY <1>1, <2>3, <2>4, <2>5, <2>8, Zenon
<1>10. Elements(left) = Elements(list) \ {list[k]}
  BY <1>9 DEF Elements
<1>11. \A y : y \in Elements(left) <=> y # list[k] /\ y \in Elements(list)
  BY <1>10
<1> QED
  BY <1>1, <1>5, <1>7, <1>8, <1>11

(* A new element at the front.                                             *)
LEMMA PushIs ==
  ASSUME NEW list \in Seq(Cells), Distinct(list), NEW x \in Cells,
         x \notin Elements(list),
         NEW longer, longer = <<x>> \o list
  PROVE  /\ longer \in Seq(Cells) /\ Distinct(longer)
         /\ Len(longer) = Len(list) + 1
         /\ \A y : y \in Elements(longer) <=> y = x \/ y \in Elements(list)
<1>1. PICK n \in Nat : n = Len(list) /\ DOMAIN list = 1 .. n
  OBVIOUS
<1>2. longer = <<x>> \o list
  OBVIOUS
<1>3. <<x>> \in Seq(Cells) /\ Len(<<x>>) = 1 /\ <<x>>[1] = x
  OBVIOUS
<1>4. /\ longer \in Seq(Cells) /\ Len(longer) = 1 + n
      /\ \A i \in 1 .. 1 + n : longer[i] = IF i <= 1 THEN <<x>>[i] ELSE list[i - 1]
  BY <1>1, <1>2, <1>3, ConcatProperties
<1>5. \A i \in 1 .. n + 1 : longer[i] = IF i = 1 THEN x ELSE list[i - 1]
  BY <1>1, <1>3, <1>4
<1>6. Distinct(longer)
  <2> SUFFICES ASSUME NEW i \in 1 .. n + 1, NEW j \in 1 .. n + 1, longer[i] = longer[j] PROVE i = j
    BY <1>1, <1>4 DEF Distinct
  <2>0. \A k \in 1 .. n + 1 : k # 1 => longer[k] # x
    <3>1. \A k \in 1 .. n + 1 : k # 1 => k - 1 \in 1 .. n /\ longer[k] = list[k - 1]
      BY <1>1, <1>5
    <3> QED
      BY <1>1, <3>1 DEF Elements
  <2>1. CASE i = 1 \/ j = 1
    <3>1. longer[1] = x
      BY <1>1, <1>5
    <3> QED
      BY <2>0, <2>1, <3>1
  <2>2. CASE i # 1 /\ j # 1
    <3>1. i - 1 \in 1 .. n /\ j - 1 \in 1 .. n /\ list[i - 1] = list[j - 1]
      BY <1>1, <1>5, <2>2
    <3>2. i - 1 = j - 1
      BY <1>1, <3>1 DEF Distinct
    <3> QED
      BY <1>1, <3>2
  <2> QED
    BY <2>1, <2>2
<1>7. {longer[i] : i \in DOMAIN longer} = {list[i] : i \in DOMAIN list} \cup {x}
  <2>1. DOMAIN longer = 1 .. n + 1
    BY <1>1, <1>4
  <2>2. \A i \in 1 .. n + 1 : longer[i] \in {list[j] : j \in 1 .. n} \cup {x}
    BY <1>1, <1>5
  <2>3. ASSUME NEW j \in 1 .. n PROVE list[j] \in {longer[i] : i \in 1 .. n + 1}
    <3>1. j + 1 \in 1 .. n + 1 /\ longer[j + 1] = list[j]
      BY <1>1, <1>5
    <3> QED
      BY <3>1
  <2>4. x \in {longer[i] : i \in 1 .. n + 1}
    <3>1. 1 \in 1 .. n + 1 /\ longer[1] = x
      BY <1>1, <1>5
    <3> QED
      BY <3>1
  <2>5. PICK A : A = {longer[i] : i \in 1 .. n + 1}
    OBVIOUS
  <2>6. PICK B : B = {list[j] : j \in 1 .. n}
    OBVIOUS
  <2>7. \A y : y \in A => y \in B \/ y = x
    BY <2>2, <2>5, <2>6, Zenon
  <2>8. \A y : y \in B \/ y = x => y \in A
    BY <2>3, <2>4, <2>5, <2>6, Zenon
  <2>9. A = B \cup {x}
    BY <2>7, <2>8
  <2> QED
    BY <1>1, <2>1, <2>5, <2>6, <2>9, Zenon
<1>8. longer \in Seq(Cells) /\ Len(longer) = Len(list) + 1
  BY <1>1, <1>4
<1> QED
  BY <1>6, <1>7, <1>8 DEF Elements

-----------------------------------------------------------------------------
ConnStates == [st : {"none", "backlog", "accepted", "refused"}, gone : BOOLEAN, unread : Seq(Lines)]
CellStates == [live : BOOLEAN, fd : Fds \cup {BadFd}, name : Names \cup {NoName, Junk}, of : 0 .. MaxConns]

LEMMA ServerInvInit == Init => ServerInv
<1> SUFFICES ASSUME Init PROVE ServerInv
  OBVIOUS
<1> USE ServerAssumption
<1>1. TypeOK
  <2>1. conn \in [Conns -> ConnStates] /\ cells \in [Cells -> CellStates] /\ descs \in [Fds -> 0 .. MaxConns]
    BY DEF Init, ConnStates, CellStates, Fds, BadFd
  <2>2. << >> \in Seq(Cells) /\ << >> \in Seq(Jobs)
    OBVIOUS
  <2>3. /\ pc \in [Workers -> {"pop", "popped", "found", "name", "done"}]
        /\ job \in [Workers -> Jobs \cup {Null}] /\ sender \in [Workers -> Cells \cup {Null}]
    BY DEF Init
  <2>4. sent \in 0 .. MaxLines /\ current_clients \in 0 .. max_clients
    BY DEF Init
  <2> QED
    BY <2>1, <2>2, <2>3, <2>4 DEF TypeOK, Init, ConnStates, CellStates
<1>2. Listed = {} /\ DOMAIN clients = {}
  BY DEF Init, Listed
<1>3. ListSound /\ ScanSound /\ AcceptSound /\ CellsSound
  BY <1>2 DEF Init, ListSound, ScanSound, AcceptSound, CellsSound, Distinct
<1>4. OpenOwned /\ Owned /\ LinesSound /\ JobsSound
  BY <1>2 DEF Init, OpenOwned, Owned, LinesSound, JobsSound, Conns
<1>5. WorkersSound /\ NamesReserved /\ NamesUnique
  BY <1>2 DEF Init, WorkersSound, NamesReserved, NamesUnique
<1> QED
  BY <1>1, <1>3, <1>4, <1>5 DEF ServerInv

LEMMA JobsTyped ==
  ASSUME TypeOK
  PROVE  \A i \in 1 .. Len(job_queue) :
           job_queue[i] \in Jobs /\ job_queue[i].line \in Lines /\ job_queue[i].line.by \in Conns
<1>1. \A i \in 1 .. Len(job_queue) : job_queue[i] \in Jobs
  BY DEF TypeOK
<1>2. \A j \in Jobs : j.line \in Lines
  BY DEF Jobs
<1>3. \A l \in Lines : l.by \in Conns
  BY DEF Lines
<1> QED
  BY <1>1, <1>2, <1>3

(* The peers and the kernel: what is accepted stays so, and only the       *)
(* owner of an open descriptor is heard.                                   *)
LEMMA PeersKeep ==
  ASSUME ServerInv, NEW c \in Conns, NEW t \in Names \cup {Quit},
         Connect(c) \/ Disconnect(c) \/ Send(c, t)
  PROVE  ServerInv'
<1>1. UNCHANGED <<status, descs, store, queues, loop, pool, history>>
  BY DEF Connect, Disconnect, Send, Peers
<1>2. /\ conn' \in [Conns -> ConnStates] /\ sent' \in 0 .. MaxLines
      /\ \A d \in Conns :
           /\ conn[d].st = "accepted" => conn'[d].st = "accepted"
           /\ conn[d].st = "backlog" => conn'[d].st = "backlog"
           /\ conn'[d].unread # conn[d].unread =>
                /\ conn'[d].unread = Append(conn[d].unread, [by |-> d, text |-> t])
                /\ \E f \in Fds : descs[f] = d
  <2>0. conn \in [Conns -> ConnStates] /\ sent \in 0 .. MaxLines
    BY DEF ServerInv, TypeOK, ConnStates
  <2>1. CASE Connect(c)
    BY <2>0, <2>1 DEF Connect, Peers, ConnStates
  <2>2. CASE Disconnect(c)
    BY <2>0, <2>2 DEF Disconnect, Peers, ConnStates
  <2>3. CASE Send(c, t)
    <3>1. [by |-> c, text |-> t] \in Lines
      BY DEF Lines
    <3>2. conn[c].unread \in Seq(Lines)
      BY <2>0 DEF ConnStates
    <3>3. Append(conn[c].unread, [by |-> c, text |-> t]) \in Seq(Lines)
      BY <3>1, <3>2, AppendProperties
    <3>4. sent' \in 0 .. MaxLines
      BY <2>0, <2>3, ServerAssumption DEF Send
    <3>5. conn' = [conn EXCEPT ![c].unread = Append(conn[c].unread, [by |-> c, text |-> t])]
      BY <2>3 DEF Send
    <3>6. \E f \in Fds : descs[f] = c
      BY <2>3 DEF Send
    <3> QED
      BY <2>0, <3>3, <3>4, <3>5, <3>6 DEF ConnStates
  <2> QED
    BY <2>1, <2>2, <2>3
<1>3. TypeOK'
  BY <1>1, <1>2 DEF ServerInv, TypeOK, ConnStates, store, queues, loop, pool, history
<1>11. \A d \in Conns : conn[d].st = "accepted" => conn'[d].st = "accepted"
  BY <1>2
<1>12. cells' = cells /\ clients' = clients /\ Listed' = Listed
  BY <1>1 DEF store, Listed
<1>4. ListSound' /\ ScanSound'
  BY <1>1 DEF ServerInv, ListSound, ScanSound, Listed, store, loop
<1>5. AcceptSound'
  BY <1>1, <1>2 DEF ServerInv, AcceptSound, Backlog, loop
<1>6. CellsSound'
  BY <1>11, <1>12 DEF ServerInv, CellsSound
<1>7. OpenOwned' /\ Owned'
  BY <1>1 DEF ServerInv, OpenOwned, Owned, Listed, store, history
<1>8. LinesSound'
  <2> SUFFICES ASSUME NEW d \in Conns
               PROVE  /\ \A i \in 1 .. Len(conn'[d].unread) : conn'[d].unread[i].by = d
                      /\ conn'[d].unread # << >> => conn'[d].st = "accepted"
                      /\ \A f \in Fds : descs'[f] = d => conn'[d].st = "accepted"
    BY DEF LinesSound
  <2>1. descs' = descs /\ conn[d].unread \in Seq(Lines)
    BY <1>1 DEF ServerInv, TypeOK
  <2>2. CASE conn'[d].unread = conn[d].unread
    BY <1>11, <2>1, <2>2 DEF ServerInv, LinesSound
  <2>3. CASE conn'[d].unread # conn[d].unread
    <3>1. \A i \in 1 .. Len(conn[d].unread) : conn[d].unread[i].by = d
      BY DEF ServerInv, LinesSound
    <3>2. conn'[d].st = "accepted"
      BY <1>2, <2>3 DEF ServerInv, LinesSound
    <3>3. conn'[d].unread = Append(conn[d].unread, [by |-> d, text |-> t])
      BY <1>2, <2>3
    <3>4. [by |-> d, text |-> t] \in Lines
      BY DEF Lines
    <3>5. \A i \in 1 .. Len(conn'[d].unread) : conn'[d].unread[i].by = d
      BY <2>1, <3>1, <3>3, <3>4, AppendProperties
    <3> QED
      BY <3>2, <3>5
  <2> QED
    BY <2>2, <2>3
<1>9. JobsSound'
  <2>1. \A i \in 1 .. Len(job_queue) : job_queue[i].line.by \in Conns
    BY JobsTyped DEF ServerInv
  <2>2. job_queue' = job_queue /\ quitted' = quitted
    BY <1>1 DEF queues, history
  <2> QED
    BY <1>11, <1>12, <2>1, <2>2 DEF ServerInv, JobsSound
<1>10. WorkersSound' /\ NamesReserved' /\ NamesUnique'
  BY <1>1 DEF ServerInv, WorkersSound, NamesReserved, NamesUnique, Text, Listed, pool, store, history
<1> QED
  BY <1>3, <1>4, <1>5, <1>6, <1>7, <1>8, <1>9, <1>10 DEF ServerInv

(* What a step of main that leaves clients and workers alone keeps.        *)
LEMMA LoopFrame ==
  ASSUME ServerInv, UNCHANGED <<descs, store, job_queue, pool, history>>,
         \A d \in Conns : /\ conn[d].st = "accepted" => conn'[d].st = "accepted"
                          /\ conn'[d].unread = conn[d].unread
  PROVE  /\ CellsSound' /\ OpenOwned' /\ Owned' /\ LinesSound' /\ JobsSound'
         /\ WorkersSound' /\ NamesReserved' /\ NamesUnique'
<1>1. \A d \in Conns : conn[d].st = "accepted" => conn'[d].st = "accepted"
  OBVIOUS
<1>2. cells' = cells /\ clients' = clients /\ Listed' = Listed /\ descs' = descs
  BY DEF store, Listed
<1>3. quitted' = quitted /\ raced' = raced /\ job_queue' = job_queue
  BY DEF history
<1>4. CellsSound'
  BY <1>1, <1>2 DEF ServerInv, CellsSound
<1>5. OpenOwned' /\ Owned'
  BY <1>2, <1>3 DEF ServerInv, OpenOwned, Owned
<1>6. LinesSound'
  BY <1>2 DEF ServerInv, LinesSound
<1>7. JobsSound'
  <2>1. \A i \in 1 .. Len(job_queue) : job_queue[i].line.by \in Conns
    BY JobsTyped DEF ServerInv
  <2> QED
    BY <1>1, <1>2, <1>3, <2>1 DEF ServerInv, JobsSound
<1>8. WorkersSound' /\ NamesReserved' /\ NamesUnique'
  BY <1>2, <1>3 DEF ServerInv, WorkersSound, NamesReserved, NamesUnique, Text, pool
<1> QED
  BY <1>4, <1>5, <1>6, <1>7, <1>8

LEMMA SelectKeeps ==
  ASSUME ServerInv, Select \/ SelectReturns
  PROVE  ServerInv'
<1>1. UNCHANGED <<status, kernel, store, queues, shutdown_flag, rest, pool, history>>
  BY DEF Select, SelectReturns
<1>2. UNCHANGED <<conn, sent, descs, cells, clients, current_clients, job_queue, bcast_queue, pc, job, sender, quitted, raced>>
  BY <1>1 DEF kernel, store, queues, pool, history
<1>3. at \in {"select", "selecting"} /\ at' \in {"cleanup", "selecting", "accept"}
  BY DEF Select, SelectReturns, Main
<1>4. watched' \subseteq Fds \X Conns /\ ready' \subseteq Fds \cup {Listener}
  <2>1. watched \subseteq Fds \X Conns /\ ready \subseteq Fds \cup {Listener} /\ descs \in [Fds -> 0 .. MaxConns]
    BY DEF ServerInv, TypeOK
  <2>2. CASE Select /\ UNCHANGED watched
    BY <2>1, <2>2 DEF Select
  <2>3. CASE Select /\ ~UNCHANGED watched
    <3>1. /\ watched' = {<<f, descs[f]>> : f \in FdsOf(clients)} /\ \A f \in FdsOf(clients) : descs[f] # 0
          /\ ready' = ready
      BY <2>3 DEF Select
    <3>2. \A f \in FdsOf(clients) : f \in Fds
      BY DEF ServerInv, CellsSound, Listed, FdsOf
    <3>3. \A f \in FdsOf(clients) : descs[f] \in Conns
      <4>1. MaxConns \in Nat
        BY ServerAssumption
      <4> QED
        BY <2>1, <3>1, <3>2, <4>1 DEF Conns
    <3> QED
      BY <2>1, <3>1, <3>2, <3>3
  <2>4. CASE SelectReturns
    <3>1. \A w \in watched : w[1] \in Fds
      BY <2>1
    <3> QED
      BY <2>4, <3>1 DEF SelectReturns, Seen
  <2> QED
    BY <2>2, <2>3, <2>4
<1>5. TypeOK'
  BY <1>1, <1>2, <1>3, <1>4 DEF ServerInv, TypeOK
<1>6. ListSound'
  BY <1>2, <1>3 DEF ServerInv, ListSound, Listed
<1>7. ScanSound'
  BY <1>1, <1>2, <1>3 DEF ServerInv, ScanSound, Listed
<1>8. AcceptSound'
  <2>1. CASE Select
    BY <1>3, <2>1 DEF Select, AcceptSound
  <2>2. CASE SelectReturns
    <3>1. Listener \in ready' => Backlog # {}
      <4>1. Listener \notin Fds
        BY ServerAssumption DEF Listener, Fds
      <4>2. watched \subseteq Fds \X Conns
        BY DEF ServerInv, TypeOK
      <4> QED
        BY <2>2, <4>1, <4>2 DEF SelectReturns, Seen
    <3> QED
      BY <1>2, <3>1 DEF AcceptSound, Backlog
  <2> QED
    BY <2>1, <2>2
<1>9. /\ CellsSound' /\ OpenOwned' /\ Owned' /\ LinesSound' /\ JobsSound'
      /\ WorkersSound' /\ NamesReserved' /\ NamesUnique'
  BY <1>1, <1>2, LoopFrame
<1> QED
  BY <1>5, <1>6, <1>7, <1>8, <1>9 DEF ServerInv

LEMMA InterruptKeeps ==
  ASSUME ServerInv, Interrupt
  PROVE  ServerInv'
<1>1. UNCHANGED <<status, sent, descs, store, queues, rest, pool, history>> /\ shutdown_flag' = TRUE
  BY DEF Interrupt
<1>2. UNCHANGED <<cells, clients, current_clients, job_queue, bcast_queue, pc, job, sender, quitted, raced>>
  BY <1>1 DEF store, queues, pool, history
<1>3. conn' \in [Conns -> ConnStates]
  <2>1. conn \in [Conns -> ConnStates]
    BY DEF ServerInv, TypeOK, ConnStates
  <2> QED
    BY <2>1 DEF Interrupt, Unaccepted, ConnStates
<1>4. \A d \in Conns : /\ conn[d].st = "accepted" => conn'[d].st = "accepted"
                       /\ conn'[d].unread = conn[d].unread
  <2>1. conn \in [Conns -> ConnStates]
    BY DEF ServerInv, TypeOK, ConnStates
  <2> QED
    BY <2>1 DEF Interrupt, Unaccepted, ConnStates
<1>5. at' = at \/ (at = "selecting" /\ at' = "accept")
  BY DEF Interrupt
<1>6. watched' \subseteq Fds \X Conns /\ ready' \subseteq Fds \cup {Listener}
  BY DEF Interrupt, ServerInv, TypeOK
<1>7. TypeOK'
  BY <1>1, <1>2, <1>3, <1>5, <1>6 DEF ServerInv, TypeOK, ConnStates
<1>8. ListSound' /\ ScanSound' /\ AcceptSound'
  BY <1>1, <1>2, <1>5 DEF ServerInv, ListSound, ScanSound, AcceptSound, Listed
<1>9. /\ CellsSound' /\ OpenOwned' /\ Owned' /\ LinesSound' /\ JobsSound'
      /\ WorkersSound' /\ NamesReserved' /\ NamesUnique'
  BY <1>1, <1>2, <1>4, LoopFrame
<1> QED
  BY <1>7, <1>8, <1>9 DEF ServerInv

(* The steps that only move main's place, drop the head of bcast_queue or  *)
(* end the process.                                                        *)
LEMMA LoopKeeps ==
  ASSUME ServerInv, ScanDone \/ Broadcast \/ Drained \/ JoinWorkers
  PROVE  ServerInv'
<1>1. UNCHANGED <<kernel, store, job_queue, shutdown_flag, watched, pool, history>>
  BY DEF ScanDone, Broadcast, Drained, JoinWorkers, loop, queues
<1>2. UNCHANGED <<conn, sent, descs, cells, clients, current_clients, pc, job, sender, quitted, raced>>
  BY <1>1 DEF kernel, store, pool, history
<1>3. /\ at' \in {"drain", "select", "join"} /\ (at = "join" <=> at' = "join")
      /\ rest' = << >> /\ ready' \in {ready, {}}
  BY DEF ScanDone, Broadcast, Drained, JoinWorkers, Main, loop, ServerInv, ScanSound
<1>4. status' \in {"up", "ended", "killed"} /\ bcast_queue' \in Seq(Jobs)
  <2>1. status \in {"up", "ended", "killed"} /\ bcast_queue \in Seq(Jobs)
    BY DEF ServerInv, TypeOK
  <2>2. bcast_queue # << >> => Tail(bcast_queue) \in Seq(Jobs)
    BY <2>1, HeadTailProperties
  <2> QED
    BY <2>1, <2>2 DEF ScanDone, Broadcast, Drained, JoinWorkers, SendTo, queues
<1>5. TypeOK'
  <2>1. rest' \in Seq(Cells) /\ ready' \subseteq Fds \cup {Listener}
    <3>1. rest \in Seq(Cells) /\ ready \subseteq Fds \cup {Listener}
      BY DEF ServerInv, TypeOK
    <3>2. << >> \in Seq(Cells)
      OBVIOUS
    <3> QED
      BY <1>3, <3>1, <3>2, Zenon
  <2> QED
    BY <1>1, <1>2, <1>3, <1>4, <2>1 DEF ServerInv, TypeOK
<1>6. ListSound' /\ AcceptSound'
  BY <1>2, <1>3 DEF ServerInv, ListSound, AcceptSound, Listed
<1>7. ScanSound'
  BY <1>2, <1>3 DEF ServerInv, ScanSound, Distinct, Listed
<1>8. /\ CellsSound' /\ OpenOwned' /\ Owned' /\ LinesSound' /\ JobsSound'
      /\ WorkersSound' /\ NamesReserved' /\ NamesUnique'
  BY <1>1, <1>2, LoopFrame
<1> QED
  BY <1>5, <1>6, <1>7, <1>8 DEF ServerInv

(* While the list is shorter than max_clients, a descriptor is free: each  *)
(* open one has a listed owner, and there is one more than clients.        *)
LEMMA DescriptorFree ==
  ASSUME TypeOK, OpenOwned, ListSound, at # "join", current_clients < max_clients
  PROVE  \E g \in Fds : descs[g] = 0
<1> SUFFICES ASSUME \A g \in Fds : descs[g] # 0 PROVE FALSE
  OBVIOUS
<1>1. clients \in Seq(Cells) /\ max_clients \in Nat
  BY ServerAssumption DEF TypeOK
<1>2. IsFiniteSet(Listed) /\ Cardinality(Listed) = Len(clients)
  BY <1>1, DistinctCounts DEF ListSound, Listed, Elements
<1>3. IsFiniteSet(Fds) /\ Cardinality(Fds) = max_clients + 1
  <2>1. 1 .. max_clients + 1 = Fds /\ max_clients + 1 \in Nat
    BY <1>1 DEF Fds
  <2> QED
    BY <2>1, <1>1, FS_Interval
<1>4. PICK owner : owner = [f \in Fds |-> CHOOSE x \in Listed : cells[x].fd = f]
  OBVIOUS
<1>5. \A f \in Fds : owner[f] \in Listed /\ cells[owner[f]].fd = f
  BY <1>4 DEF OpenOwned
<1>6. owner \in [Fds -> Listed]
  BY <1>4, <1>5
<1>7. Cardinality(Listed) < Cardinality(Fds)
  BY <1>1, <1>2, <1>3 DEF ListSound, TypeOK
<1>8. \E f, g \in Fds : f # g /\ owner[f] = owner[g]
  BY <1>2, <1>3, <1>6, <1>7, FS_PigeonHole
<1> QED
  BY <1>5, <1>8

(* accept and handle_new_connection: the connection that waited longest is *)
(* refused, or becomes a client with the lowest free descriptor.           *)
Refused(c) ==
  /\ conn[c].st = "backlog" /\ conn' = [conn EXCEPT ![c].st = "refused"]
  /\ UNCHANGED <<status, sent, descs, store>>

Admitted(x, f, c) ==
  /\ conn[c].st = "backlog" /\ descs[f] = 0 /\ current_clients < max_clients
  /\ ~cells[x].live
  /\ cells' = [cells EXCEPT ![x] = [live |-> TRUE, fd |-> f, name |-> NoName, of |-> c]]
  /\ clients' = <<x>> \o clients
  /\ current_clients' = current_clients + 1
  /\ descs' = [descs EXCEPT ![f] = c]
  /\ conn' = [conn EXCEPT ![c].st = "accepted"]
  /\ UNCHANGED <<status, sent>>

LEMMA AcceptIs ==
  ASSUME ServerInv, Accept
  PROVE  \/ UNCHANGED <<status, kernel, store>>
         \/ \E c \in Conns : Refused(c)
         \/ \E c \in Conns, x \in Cells, f \in Fds : Admitted(x, f, c)
<1> SUFFICES ASSUME ~UNCHANGED <<status, kernel, store>>
             PROVE  \/ \E c \in Conns : Refused(c)
                    \/ \E c \in Conns, x \in Cells, f \in Fds : Admitted(x, f, c)
  OBVIOUS
<1>1. at = "accept" /\ Listener \in ready /\ ~shutdown_flag
  BY DEF Accept, Main, NewClient
<1>2. PICK c \in Conns : c = Lowest(Backlog) /\ conn[c].st = "backlog"
  <2>1. Backlog # {} /\ Backlog \subseteq Nat
    BY <1>1 DEF ServerInv, AcceptSound, Backlog, Conns
  <2>2. Lowest(Backlog) \in Backlog
    BY <2>1, LowestIs
  <2> QED
    BY <2>2 DEF Backlog
<1>3. CASE ~(current_clients < max_clients)
  BY <1>1, <1>2, <1>3 DEF Accept, NewClient, Refused
<1>4. CASE current_clients < max_clients
  <2>1. PICK f \in Fds : f = Lowest({g \in Fds : descs[g] = 0}) /\ descs[f] = 0
    <3>1. \E g \in Fds : descs[g] = 0
      BY <1>1, <1>4, DescriptorFree DEF ServerInv
    <3>2. {g \in Fds : descs[g] = 0} \subseteq Nat
      BY ServerAssumption DEF Fds
    <3>3. Lowest({g \in Fds : descs[g] = 0}) \in {g \in Fds : descs[g] = 0}
      BY <3>1, <3>2, LowestIs
    <3> QED
      BY <3>3
  <2>2. PICK x \in Cells :
          /\ ~cells[x].live
          /\ cells' = [cells EXCEPT ![x] = [live |-> TRUE, fd |-> f, name |-> NoName, of |-> c]]
          /\ clients' = <<x>> \o clients
          /\ current_clients' = current_clients + 1
          /\ descs' = [descs EXCEPT ![f] = c]
          /\ conn' = [conn EXCEPT ![c].st = "accepted"]
          /\ UNCHANGED <<status, sent>>
    BY <1>1, <1>2, <1>4, <2>1 DEF Accept, NewClient
  <2>3. Admitted(x, f, c)
    BY <1>2, <1>4, <2>1, <2>2, Zenon DEF Admitted
  <2> QED
    BY <2>3
<1> QED
  BY <1>3, <1>4

LEMMA AcceptKeeps ==
  ASSUME ServerInv, Accept
  PROVE  ServerInv'
<1>1. UNCHANGED <<job_queue, bcast_queue, shutdown_flag, watched, ready, pc, job, sender, quitted, raced>>
  BY DEF Accept, queues, pool, history
<1>2. at = "accept" /\ at' = "scan" /\ rest' = clients'
  BY DEF Accept, Main
<1>3. AcceptSound'
  BY <1>2 DEF AcceptSound
<1>4. /\ conn \in [Conns -> ConnStates] /\ cells \in [Cells -> CellStates] /\ clients \in Seq(Cells)
      /\ descs \in [Fds -> 0 .. MaxConns] /\ current_clients \in 0 .. max_clients /\ sent \in 0 .. MaxLines
  BY DEF ServerInv, TypeOK, ConnStates, CellStates
<1>5. SUFFICES /\ conn' \in [Conns -> ConnStates] /\ cells' \in [Cells -> CellStates] /\ clients' \in Seq(Cells)
               /\ descs' \in [Fds -> 0 .. MaxConns] /\ current_clients' \in 0 .. max_clients
               /\ sent' \in 0 .. MaxLines /\ status' = status
               /\ ListSound' /\ CellsSound' /\ OpenOwned' /\ Owned' /\ LinesSound' /\ JobsSound'
               /\ WorkersSound' /\ NamesReserved' /\ NamesUnique'
  <2>1. TypeOK'
    BY <1>1, <1>2, <1>5 DEF ServerInv, TypeOK, ConnStates, CellStates
  <2>2. ScanSound'
    BY <1>2, <1>5 DEF ListSound, ScanSound, Listed
  <2> QED
    BY <1>3, <1>5, <2>1, <2>2 DEF ServerInv
<1>6. CASE UNCHANGED <<status, kernel, store>>
  <2>1. UNCHANGED <<status, conn, sent, descs, cells, clients, current_clients>>
    BY <1>6 DEF kernel, store
  <2>2. ListSound'
    BY <1>2, <2>1 DEF ServerInv, ListSound, Listed
  <2>3. UNCHANGED <<descs, store, job_queue, pool, history>>
    BY <1>1, <2>1 DEF store, pool, history
  <2> QED
    BY <1>4, <2>1, <2>2, <2>3, LoopFrame
<1>7. CASE ~UNCHANGED <<status, kernel, store>>
  <2>3. CASE \E c \in Conns : Refused(c)
    <3>0. PICK c \in Conns : Refused(c)
      BY <2>3
    <3>1. conn[c].st = "backlog" /\ conn' = [conn EXCEPT ![c].st = "refused"]
          /\ UNCHANGED <<status, sent, descs, store>>
      BY <3>0 DEF Refused
    <3>2. UNCHANGED <<cells, clients, current_clients>>
      BY <3>1 DEF store
    <3>3. conn' \in [Conns -> ConnStates]
      BY <1>4, <3>1 DEF ConnStates
    <3>4. \A d \in Conns : /\ conn[d].st = "accepted" => conn'[d].st = "accepted"
                           /\ conn'[d].unread = conn[d].unread
      BY <1>4, <3>1 DEF ConnStates
    <3>5. ListSound'
      BY <1>2, <3>2 DEF ServerInv, ListSound, Listed
    <3>6. UNCHANGED <<descs, store, job_queue, pool, history>>
      BY <1>1, <3>1 DEF pool, history
    <3> QED
      BY <1>4, <3>1, <3>2, <3>3, <3>4, <3>5, <3>6, LoopFrame
  <2>4. CASE \E c \in Conns, x \in Cells, f \in Fds : Admitted(x, f, c)
    <3>1. PICK c \in Conns, x \in Cells, f \in Fds : Admitted(x, f, c)
      BY <2>4
    <3>2. /\ conn[c].st = "backlog" /\ descs[f] = 0 /\ current_clients < max_clients
          /\ ~cells[x].live
          /\ cells' = [cells EXCEPT ![x] = [live |-> TRUE, fd |-> f, name |-> NoName, of |-> c]]
          /\ clients' = <<x>> \o clients
          /\ current_clients' = current_clients + 1
          /\ descs' = [descs EXCEPT ![f] = c]
          /\ conn' = [conn EXCEPT ![c].st = "accepted"]
          /\ UNCHANGED <<status, sent>>
      BY <3>1, Zenon DEF Admitted
    <3>3. x \notin Listed
      BY <3>2 DEF ServerInv, ListSound
    <3>4. /\ clients' \in Seq(Cells) /\ Distinct(clients') /\ Len(clients') = Len(clients) + 1
          /\ Listed' = Listed \cup {x}
      <4>1. clients \in Seq(Cells) /\ Distinct(clients)
        BY <1>4 DEF ServerInv, ListSound
      <4>2. x \in Cells /\ x \notin Elements(clients)
        BY <3>2, <3>3 DEF Listed, Elements
      <4>3. PICK longer : longer = <<x>> \o clients
        OBVIOUS
      <4>4. /\ longer \in Seq(Cells) /\ Distinct(longer) /\ Len(longer) = Len(clients) + 1
            /\ \A y : y \in Elements(longer) <=> y = x \/ y \in Elements(clients)
        <5>1. longer \in Seq(Cells) /\ Distinct(longer)
          BY <4>1, <4>2, <4>3, PushIs
        <5>2. Len(longer) = Len(clients) + 1
          BY <4>1, <4>2, <4>3, PushIs
        <5>3. \A y : y \in Elements(longer) <=> y = x \/ y \in Elements(clients)
          BY <4>1, <4>2, <4>3, PushIs
        <5> QED
          BY <5>1, <5>2, <5>3
      <4>5. clients' = longer /\ Listed = Elements(clients) /\ Listed' = Elements(longer)
        BY <3>2, <4>3 DEF Listed, Elements
      <4> QED
        BY <4>4, <4>5
    <3>5. Listed \subseteq Cells
      BY <1>4 DEF Listed
    <3>6. /\ cells'[x] = [live |-> TRUE, fd |-> f, name |-> NoName, of |-> c]
          /\ \A y \in Cells : y # x => cells'[y] = cells[y]
      BY <1>4, <3>2
    <3>7. descs'[f] = c /\ \A g \in Fds : g # f => descs'[g] = descs[g]
      BY <1>4, <3>2
    <3>8. /\ conn'[c].st = "accepted"
          /\ \A d \in Conns : conn'[d].unread = conn[d].unread /\ (d # c => conn'[d] = conn[d])
      BY <1>4, <3>2 DEF ConnStates
    <3>9. \A d \in Conns : conn[d].st = "accepted" => conn'[d].st = "accepted" /\ d # c
      BY <3>2, <3>8
    <3>10. c # 0 /\ c \in 0 .. MaxConns
      BY ServerAssumption DEF Conns
    <3>11. /\ conn' \in [Conns -> ConnStates] /\ cells' \in [Cells -> CellStates]
           /\ descs' \in [Fds -> 0 .. MaxConns] /\ current_clients' \in 0 .. max_clients
      <4>1. conn' \in [Conns -> ConnStates]
        BY <1>4, <3>2 DEF ConnStates
      <4>2. [live |-> TRUE, fd |-> f, name |-> NoName, of |-> c] \in CellStates
        BY <3>10 DEF CellStates
      <4>3. current_clients' \in 0 .. max_clients
        BY <1>4, <3>2, ServerAssumption
      <4> QED
        BY <1>4, <3>2, <3>10, <4>1, <4>2, <4>3
    <3>12. ListSound'
      <4>1. Listed' = {y \in Cells : cells'[y].live}
        BY <3>4, <3>5, <3>6 DEF ServerInv, ListSound
      <4>2. current_clients' = Len(clients')
        BY <1>2, <3>2, <3>4 DEF ServerInv, ListSound
      <4> QED
        BY <3>4, <4>1, <4>2 DEF ListSound
    <3>13. \A y \in Listed : y \in Cells /\ y # x /\ cells'[y] = cells[y] /\ cells[y].of # c
      BY <3>2, <3>3, <3>5, <3>6 DEF ServerInv, CellsSound
    <3>14. CellsSound'
      <4>1. ASSUME NEW y \in Listed' PROVE /\ cells'[y].fd \in Fds /\ cells'[y].of \in Conns
                                           /\ conn'[cells'[y].of].st = "accepted"
        BY <3>4, <3>6, <3>8, <3>9, <3>13 DEF ServerInv, CellsSound
      <4>2. ASSUME NEW y \in Listed', NEW z \in Listed', cells'[y].of = cells'[z].of PROVE y = z
        BY <3>4, <3>6, <3>13, <4>2 DEF ServerInv, CellsSound
      <4> QED
        BY <4>1, <4>2 DEF CellsSound
    <3>15. OpenOwned'
      BY <3>4, <3>6, <3>7, <3>13 DEF ServerInv, OpenOwned
    <3>16. Owned'
      <4> SUFFICES ASSUME ~quitted
                   PROVE  /\ \A y \in Listed' : descs'[cells'[y].fd] = cells'[y].of
                          /\ \A y, z \in Listed' : cells'[y].fd = cells'[z].fd => y = z
        BY <1>1 DEF Owned
      <4>1. \A y \in Listed : cells[y].fd \in Fds /\ descs[cells[y].fd] = cells[y].of /\ cells[y].of # 0
        BY ServerAssumption DEF ServerInv, Owned, CellsSound, Conns
      <4>2. \A y \in Listed : cells[y].fd # f
        BY <3>2, <4>1
      <4>3. \A y \in Listed' : descs'[cells'[y].fd] = cells'[y].of
        BY <3>4, <3>6, <3>7, <3>13, <4>1, <4>2
      <4>4. \A y, z \in Listed' : cells'[y].fd = cells'[z].fd => y = z
        BY <3>4, <3>6, <3>13, <4>2 DEF ServerInv, Owned
      <4> QED
        BY <4>3, <4>4
    <3>17. LinesSound'
      <4>1. \A d \in Conns : conn[d].unread # << >> => conn'[d].st = "accepted"
        BY <3>9 DEF ServerInv, LinesSound
      <4>2. \A d \in Conns : \A g \in Fds : descs'[g] = d => conn'[d].st = "accepted"
        BY <3>7, <3>8, <3>9 DEF ServerInv, LinesSound
      <4> QED
        BY <3>8, <4>1, <4>2 DEF ServerInv, LinesSound
    <3>18. JobsSound'
      <4> SUFFICES ASSUME NEW i \in 1 .. Len(job_queue)
                   PROVE  LET j == job_queue[i] IN
                          /\ conn'[j.line.by].st = "accepted"
                          /\ ~quitted => \A y \in Listed' : cells'[y].of = j.line.by => cells'[y].fd = j.fd
        BY <1>1 DEF JobsSound
      <4>1. job_queue[i].line.by \in Conns
        BY JobsTyped DEF ServerInv
      <4>2. conn[job_queue[i].line.by].st = "accepted"
        BY DEF ServerInv, JobsSound
      <4>3. job_queue[i].line.by # c /\ conn'[job_queue[i].line.by].st = "accepted"
        BY <3>9, <4>1, <4>2
      <4>4. ~quitted => \A y \in Listed : cells[y].of = job_queue[i].line.by => cells[y].fd = job_queue[i].fd
        BY DEF ServerInv, JobsSound
      <4> QED
        BY <3>4, <3>6, <3>13, <4>3, <4>4
    <3>19. WorkersSound'
      BY <1>1 DEF ServerInv, WorkersSound, Text
    <3>20. NoName \notin Names
      BY ServerAssumption
    <3>21. NamesReserved'
      <4> SUFFICES ASSUME ~raced
                   PROVE  /\ \A w \in Workers : pc[w] = "name" => \A y \in Listed' : cells'[y].name # Text(w)
                          /\ \A v, w \in Workers :
                               pc[v] = "name" /\ pc[w] = "name" /\ Text(v) = Text(w) => v = w
        BY <1>1 DEF NamesReserved, Text
      <4>1. \A w \in Workers : pc[w] = "name" => Text(w) \in Names
        BY DEF ServerInv, WorkersSound
      <4>2. \A w \in Workers : pc[w] = "name" => \A y \in Listed' : cells'[y].name # Text(w)
        BY <3>4, <3>6, <3>13, <3>20, <4>1 DEF ServerInv, NamesReserved
      <4> QED
        BY <4>2 DEF ServerInv, NamesReserved
    <3>22. NamesUnique'
      BY <1>1, <3>4, <3>6, <3>13, <3>20 DEF ServerInv, NamesUnique
    <3> QED
      BY <1>4, <3>2, <3>4, <3>11, <3>12, <3>14, <3>15, <3>16, <3>17, <3>18, <3>19, <3>21, <3>22
  <2> QED
    BY <1>7, <2>3, <2>4, AcceptIs
<1> QED
  BY <1>6, <1>7

(* The place of the scan moves on to clients it has not looked at.         *)
LEMMA ScanMoves ==
  ASSUME ServerInv, NEW k \in 1 .. Len(rest), NEW later, later = SubSeq(rest, k + 1, Len(rest))
  PROVE  /\ later \in Seq(Cells) /\ Distinct(later)
         /\ \A i \in 1 .. Len(later) : later[i] \in Listed /\ later[i] # rest[k]
<1>1. PICK n \in Nat : n = Len(rest) /\ k \in Nat /\ 1 <= k /\ k <= n /\ rest \in Seq(Cells)
  BY DEF ServerInv, TypeOK
<1>2. \A i \in k + 1 .. n : rest[i] \in Cells
  BY <1>1
<1>3. /\ later \in Seq(Cells) /\ Len(later) = IF k + 1 <= n THEN n - (k + 1) + 1 ELSE 0
      /\ \A i \in 1 .. n - (k + 1) + 1 : later[i] = rest[(k + 1) + i - 1]
  BY <1>1, <1>2, SubSeqProperties
<1>4. Len(later) = n - k
  BY <1>1, <1>3
<1>5. \A i \in 1 .. n - k : i \in 1 .. n - (k + 1) + 1 /\ (k + 1) + i - 1 = k + i /\ k + i \in 1 .. n /\ k + i # k
  BY <1>1
<1>6. \A i \in 1 .. n - k : later[i] = rest[k + i]
  BY <1>3, <1>5
<1>7. Distinct(later)
  <2> SUFFICES ASSUME NEW i \in 1 .. n - k, NEW j \in 1 .. n - k, later[i] = later[j] PROVE i = j
    BY <1>4 DEF Distinct
  <2>1. k + i = k + j
    BY <1>1, <1>5, <1>6 DEF ServerInv, ScanSound, Distinct
  <2> QED
    BY <1>1, <2>1
<1>8. \A i \in 1 .. n - k : later[i] \in Listed /\ later[i] # rest[k]
  BY <1>1, <1>5, <1>6 DEF ServerInv, ScanSound, Distinct
<1> QED
  BY <1>3, <1>4, <1>7, <1>8

(* Whoever is still to be looked at was so before.                         *)
LEMMA ScanKeeps ==
  ASSUME ServerInv, NEW k \in 1 .. Len(rest), NEW later, later = SubSeq(rest, k + 1, Len(rest))
  PROVE  \A i \in 1 .. Len(later) : \E j \in 1 .. Len(rest) : later[i] = rest[j]
<1>1. PICK n \in Nat : n = Len(rest) /\ k \in Nat /\ 1 <= k /\ k <= n /\ rest \in Seq(Cells)
  BY DEF ServerInv, TypeOK
<1>2. \A i \in k + 1 .. n : rest[i] \in Cells
  BY <1>1
<1>3. /\ later \in Seq(Cells) /\ Len(later) = IF k + 1 <= n THEN n - (k + 1) + 1 ELSE 0
      /\ \A i \in 1 .. n - (k + 1) + 1 : later[i] = rest[(k + 1) + i - 1]
  BY <1>1, <1>2, SubSeqProperties
<1>4. ASSUME NEW i \in 1 .. Len(later) PROVE \E j \in 1 .. n : later[i] = rest[j]
  <2>1. i \in 1 .. n - (k + 1) + 1 /\ (k + 1) + i - 1 \in 1 .. n
    BY <1>1, <1>3, <1>4
  <2> QED
    BY <1>3, <2>1
<1> QED
  BY <1>1, <1>4

(* remove_client takes one client, its descriptor and its cell away, and   *)
(* touches no other.                                                       *)
LEMMA RemoveKeeps ==
  ASSUME ServerInv, at = "scan", at' = "scan", NEW x \in Listed, RemoveClient(x),
         UNCHANGED <<job_queue, pool, history>>,
         \A d \in Conns : conn'[d].st = conn[d].st /\ conn'[d].unread \in {conn[d].unread, << >>}
  PROVE  /\ cells' \in [Cells -> CellStates] /\ clients' \in Seq(Cells) /\ descs' \in [Fds -> 0 .. MaxConns]
         /\ current_clients' \in 0 .. max_clients
         /\ Listed' = Listed \ {x}
         /\ ListSound' /\ CellsSound' /\ OpenOwned' /\ Owned' /\ LinesSound' /\ JobsSound'
         /\ WorkersSound' /\ NamesReserved' /\ NamesUnique'
<1>1. /\ cells \in [Cells -> CellStates] /\ clients \in Seq(Cells)
      /\ descs \in [Fds -> 0 .. MaxConns] /\ current_clients \in 0 .. max_clients
  BY DEF ServerInv, TypeOK, CellStates
<1>2. UNCHANGED <<job_queue, pc, job, sender, quitted, raced>>
  BY DEF pool, history
<1>3. PICK k \in 1 .. Len(clients) : x = clients[k]
  BY <1>1 DEF Listed
<1>4. /\ clients' \in Seq(Cells) /\ Distinct(clients') /\ Len(clients') = Len(clients) - 1
      /\ Listed' = Listed \ {x}
  <2>1. clients \in Seq(Cells) /\ Distinct(clients)
    BY <1>1 DEF ServerInv, ListSound
  <2>2. PICK left : left = RemoveFirst(clients, clients[k])
    OBVIOUS
  <2>3. /\ left \in Seq(Cells) /\ Distinct(left) /\ Len(left) = Len(clients) - 1
        /\ \A y : y \in Elements(left) <=> y # clients[k] /\ y \in Elements(clients)
    <3>1. /\ RemoveFirst(clients, clients[k]) \in Seq(Cells)
          /\ Distinct(RemoveFirst(clients, clients[k]))
          /\ Len(RemoveFirst(clients, clients[k])) = Len(clients) - 1
          /\ \A y : y \in Elements(RemoveFirst(clients, clients[k]))
                     <=> y # clients[k] /\ y \in Elements(clients)
      BY <2>1, RemoveFirstIs, Zenon
    <3> QED
      BY <2>2, <3>1
  <2>4. clients' = left /\ Listed = Elements(clients) /\ Listed' = Elements(left)
    BY <1>3, <2>2 DEF RemoveClient, Unlink, Listed, Elements
  <2>5. PICK A : A = Elements(clients)
    OBVIOUS
  <2>6. PICK B : B = Elements(left)
    OBVIOUS
  <2>7. \A y : y \in B <=> y # x /\ y \in A
    BY <1>3, <2>3, <2>5, <2>6, Zenon
  <2>8. B = A \ {x}
    BY <2>7
  <2> QED
    BY <2>3, <2>4, <2>5, <2>6, <2>8, Zenon
<1>5. x \in Cells /\ Listed \subseteq Cells /\ cells[x].fd \in Fds
  BY <1>1 DEF Listed, ServerInv, CellsSound
<1>6. /\ cells' \in [Cells -> CellStates] /\ ~cells'[x].live
      /\ \A y \in Cells : y # x => cells'[y] = cells[y]
  <2>1. PICK left \in {cells[x], [cells[x] EXCEPT !.fd = BadFd, !.name = Junk]} :
          cells' = [cells EXCEPT ![x] = [left EXCEPT !.live = FALSE, !.of = 0]]
    BY DEF RemoveClient, Freed
  <2>2. left \in CellStates
    <3>1. PICK old \in CellStates : old = cells[x]
      BY <1>1, <1>5
    <3>2. PICK scribbled : scribbled = [old EXCEPT !.fd = BadFd, !.name = Junk]
      OBVIOUS
    <3>3. scribbled \in CellStates
      BY <3>1, <3>2 DEF CellStates
    <3> QED
      BY <2>1, <3>1, <3>2, <3>3
  <2>3. 0 \in 0 .. MaxConns
    BY ServerAssumption
  <2>4. PICK freed : freed = [left EXCEPT !.live = FALSE, !.of = 0]
    OBVIOUS
  <2>5. freed \in CellStates /\ ~freed.live
    BY <2>2, <2>3, <2>4 DEF CellStates
  <2> QED
    BY <1>1, <1>5, <2>1, <2>4, <2>5
<1>7. /\ descs' \in [Fds -> 0 .. MaxConns] /\ descs'[cells[x].fd] = 0
      /\ \A f \in Fds : f # cells[x].fd => descs'[f] = descs[f]
  <2>1. descs' = [descs EXCEPT ![cells[x].fd] = 0] /\ 0 \in 0 .. MaxConns
    BY ServerAssumption DEF RemoveClient
  <2> QED
    BY <1>1, <1>5, <2>1
<1>8. ListSound' /\ current_clients' \in 0 .. max_clients
  <2>1. current_clients' = current_clients - 1 /\ current_clients = Len(clients)
    BY DEF RemoveClient, ServerInv, ListSound
  <2>2. current_clients' = Len(clients') /\ current_clients' \in 0 .. max_clients
    BY <1>1, <1>4, <2>1, ServerAssumption
  <2>3. Listed' = {y \in Cells : cells'[y].live}
    BY <1>4, <1>5, <1>6 DEF ServerInv, ListSound
  <2> QED
    BY <1>4, <2>2, <2>3 DEF ListSound
<1>9. \A y \in Listed' : y \in Listed /\ y \in Cells /\ y # x /\ cells'[y] = cells[y]
  BY <1>4, <1>5, <1>6
<1>10. CellsSound'
  BY <1>9 DEF ServerInv, CellsSound
<1>11. OpenOwned'
  <2> SUFFICES ASSUME NEW f \in Fds, descs'[f] # 0 PROVE \E y \in Listed' : cells'[y].fd = f
    BY DEF OpenOwned
  <2>1. f # cells[x].fd /\ descs[f] # 0
    BY <1>7
  <2>2. PICK y \in Listed : cells[y].fd = f
    BY <2>1 DEF ServerInv, OpenOwned
  <2>3. y # x /\ y \in Listed'
    BY <1>4, <2>1, <2>2
  <2> QED
    BY <1>9, <2>2, <2>3
<1>12. Owned'
  <2> SUFFICES ASSUME ~quitted
               PROVE  /\ \A y \in Listed' : descs'[cells'[y].fd] = cells'[y].of
                      /\ \A y, z \in Listed' : cells'[y].fd = cells'[z].fd => y = z
    BY <1>2 DEF Owned
  <2>1. \A y, z \in Listed : cells[y].fd = cells[z].fd => y = z
    BY DEF ServerInv, Owned
  <2>2. \A y \in Listed : cells[y].fd \in Fds /\ descs[cells[y].fd] = cells[y].of
    BY DEF ServerInv, Owned, CellsSound
  <2> QED
    BY <1>7, <1>9, <2>1, <2>2
<1>13. LinesSound'
  <2>1. \A f \in Fds : descs'[f] \in {descs[f], 0}
    BY <1>7
  <2>2. \A d \in Conns : d # 0
    BY DEF Conns
  <2> SUFFICES ASSUME NEW d \in Conns
               PROVE  /\ \A i \in 1 .. Len(conn'[d].unread) : conn'[d].unread[i].by = d
                      /\ conn'[d].unread # << >> => conn'[d].st = "accepted"
                      /\ \A f \in Fds : descs'[f] = d => conn'[d].st = "accepted"
    BY DEF LinesSound
  <2>3. \A f \in Fds : descs'[f] = d => conn'[d].st = "accepted"
    BY <2>1, <2>2 DEF ServerInv, LinesSound
  <2>4. CASE conn'[d].unread = << >>
    BY <2>3, <2>4
  <2>5. CASE conn'[d].unread = conn[d].unread
    BY <2>3, <2>5 DEF ServerInv, LinesSound
  <2> QED
    BY <2>4, <2>5
<1>14. JobsSound'
  <2>1. \A i \in 1 .. Len(job_queue) : job_queue[i].line.by \in Conns
    BY JobsTyped DEF ServerInv
  <2> QED
    BY <1>2, <1>9, <2>1 DEF ServerInv, JobsSound
<1>15. WorkersSound'
  BY <1>2 DEF ServerInv, WorkersSound, Text
<1>16. NamesReserved' /\ NamesUnique'
  BY <1>2, <1>9 DEF ServerInv, NamesReserved, NamesUnique, Text
<1> QED
  BY <1>4, <1>6, <1>7, <1>8, <1>10, <1>11, <1>12, <1>13, <1>14, <1>15, <1>16

(* The scan comes to x, the k-th of those it has still to look at, whose   *)
(* descriptor is f; recv fails or finds the peer gone, and x is removed,   *)
(* or there are lines, which are queued or too long.                       *)
Received(k, x, f, c) ==
  /\ k = Lowest(Unread) /\ x = rest[k] /\ f = cells[x].fd /\ c = descs[f]
  /\ rest' = SubSeq(rest, k + 1, Len(rest))
  /\ \/ /\ RemoveClient(x) /\ UNCHANGED <<conn, job_queue>>
     \/ /\ c # 0 /\ conn[c].unread # << >> /\ conn' = [conn EXCEPT ![c].unread = << >>]
        /\ RemoveClient(x) /\ UNCHANGED job_queue
     \/ /\ c # 0 /\ conn[c].unread # << >> /\ conn' = [conn EXCEPT ![c].unread = << >>]
        /\ job_queue' = job_queue \o
             [i \in DOMAIN conn[c].unread |-> [fd |-> f, line |-> conn[c].unread[i]]]
        /\ UNCHANGED <<status, descs, store>>

LEMMA ReceiveIs ==
  ASSUME ServerInv, Receive
  PROVE  \E k \in 1 .. Len(rest), x \in Listed, f \in Fds, c \in 0 .. MaxConns : Received(k, x, f, c)
<1>2. at = "scan" /\ Unread # {}
  BY DEF Receive, Main
<1>3. rest \in Seq(Cells)
  BY DEF ServerInv, TypeOK
<1>4. PICK k \in 1 .. Len(rest) : k = Lowest(Unread)
  <2>1. Unread \subseteq 1 .. Len(rest) /\ Unread \subseteq Nat
    BY <1>3 DEF Unread
  <2>2. Lowest(Unread) \in Unread
    BY <1>2, <2>1, LowestIs
  <2> QED
    BY <2>1, <2>2
<1>5. PICK x \in Listed : x = rest[k]
  BY DEF ServerInv, ScanSound
<1>6. PICK f \in Fds : f = cells[x].fd
  BY DEF ServerInv, CellsSound
<1>7. PICK c \in 0 .. MaxConns : c = descs[f]
  BY DEF ServerInv, TypeOK
<1>8. \/ /\ RemoveClient(x) /\ UNCHANGED <<conn, job_queue>>
      \/ /\ c # 0 /\ conn[c].unread # << >> /\ conn' = [conn EXCEPT ![c].unread = << >>]
         /\ RemoveClient(x) /\ UNCHANGED job_queue
      \/ /\ c # 0 /\ conn[c].unread # << >> /\ conn' = [conn EXCEPT ![c].unread = << >>]
         /\ job_queue' = job_queue \o
              [i \in DOMAIN conn[c].unread |-> [fd |-> f, line |-> conn[c].unread[i]]]
         /\ UNCHANGED <<status, descs, store>>
  <2>1. handle_client_message(x)
    BY <1>4, <1>5 DEF Receive
  <2> QED
    BY <1>6, <1>7, <2>1, Zenon DEF handle_client_message
<1>9. rest' = SubSeq(rest, k + 1, Len(rest))
  BY <1>4 DEF Receive
<1>10. Received(k, x, f, c)
  BY <1>4, <1>5, <1>6, <1>7, <1>8, <1>9, Zenon DEF Received
<1> QED
  BY <1>10

LEMMA ReceiveKeeps ==
  ASSUME ServerInv, Receive
  PROVE  ServerInv'
<1>1. /\ UNCHANGED <<sent, bcast_queue, shutdown_flag, at, watched, ready, pool, history>>
      /\ UNCHANGED <<pc, job, sender, quitted, raced>>
  BY DEF Receive, pool, history
<1>2. at = "scan" /\ at' = "scan" /\ Unread # {}
  BY <1>1 DEF Receive, Main
<1>3. rest \in Seq(Cells) /\ conn \in [Conns -> ConnStates] /\ cells \in [Cells -> CellStates]
  BY DEF ServerInv, TypeOK, ConnStates, CellStates
<1>4. PICK k \in 1 .. Len(rest), x \in Listed, f \in Fds, c \in 0 .. MaxConns : Received(k, x, f, c)
  BY ReceiveIs
<1>5. x = rest[k] /\ f = cells[x].fd /\ c = descs[f] /\ rest' = SubSeq(rest, k + 1, Len(rest))
  BY <1>4, Zenon DEF Received
<1>8. \/ /\ RemoveClient(x) /\ UNCHANGED <<conn, job_queue>>
      \/ /\ c # 0 /\ conn[c].unread # << >> /\ conn' = [conn EXCEPT ![c].unread = << >>]
         /\ RemoveClient(x) /\ UNCHANGED job_queue
      \/ /\ c # 0 /\ conn[c].unread # << >> /\ conn' = [conn EXCEPT ![c].unread = << >>]
         /\ job_queue' = job_queue \o
              [i \in DOMAIN conn[c].unread |-> [fd |-> f, line |-> conn[c].unread[i]]]
         /\ UNCHANGED <<status, descs, store>>
  BY <1>4, Zenon DEF Received
<1>9. c # 0 => c \in Conns
  BY ServerAssumption DEF Conns
<1>10. /\ conn' \in [Conns -> ConnStates]
       /\ \A d \in Conns : conn'[d].st = conn[d].st /\ conn'[d].unread \in {conn[d].unread, << >>}
  <2>1. CASE UNCHANGED conn
    BY <1>3, <2>1
  <2>2. CASE c # 0 /\ conn' = [conn EXCEPT ![c].unread = << >>]
    <3>1. << >> \in Seq(Lines)
      OBVIOUS
    <3> QED
      BY <1>3, <1>9, <2>2, <3>1 DEF ConnStates
  <2> QED
    BY <1>8, <2>1, <2>2
<1>11. AcceptSound'
  BY <1>2 DEF AcceptSound
<1>12. rest' \in Seq(Cells) /\ Distinct(rest')
       /\ \A i \in 1 .. Len(rest') : rest'[i] \in Listed /\ rest'[i] # x
  <2>1. PICK later : later = SubSeq(rest, k + 1, Len(rest))
    OBVIOUS
  <2>2. /\ later \in Seq(Cells) /\ Distinct(later)
        /\ \A i \in 1 .. Len(later) : later[i] \in Listed /\ later[i] # rest[k]
    BY <2>1, ScanMoves
  <2>3. rest' = later
    BY <1>5, <2>1
  <2> QED
    BY <1>5, <2>2, <2>3
<1>13. status' \in {"up", "ended", "killed"}
  <2>1. status \in {"up", "ended", "killed"}
    BY DEF ServerInv, TypeOK
  <2> QED
    BY <1>8, <2>1 DEF RemoveClient, TellOthers, SendTo
<1>14. SUFFICES /\ cells' \in [Cells -> CellStates] /\ clients' \in Seq(Cells) /\ descs' \in [Fds -> 0 .. MaxConns]
                /\ current_clients' \in 0 .. max_clients /\ job_queue' \in Seq(Jobs)
                /\ Listed \ {x} \subseteq Listed'
                /\ ListSound' /\ CellsSound' /\ OpenOwned' /\ Owned' /\ LinesSound' /\ JobsSound'
                /\ WorkersSound' /\ NamesReserved' /\ NamesUnique'
  <2>1. TypeOK'
    BY <1>1, <1>2, <1>10, <1>12, <1>13, <1>14 DEF ServerInv, TypeOK, ConnStates, CellStates
  <2>2. ScanSound'
    BY <1>2, <1>12, <1>14 DEF ScanSound
  <2> QED
    BY <1>11, <1>14, <2>1, <2>2 DEF ServerInv
<1>15. CASE RemoveClient(x) /\ UNCHANGED job_queue
  <2>1. job_queue' \in Seq(Jobs)
    BY <1>15 DEF ServerInv, TypeOK
  <2>2. UNCHANGED <<job_queue, pool, history>>
    BY <1>1, <1>15
  <2>3. /\ cells' \in [Cells -> CellStates] /\ clients' \in Seq(Cells) /\ descs' \in [Fds -> 0 .. MaxConns]
        /\ current_clients' \in 0 .. max_clients
        /\ Listed' = Listed \ {x}
        /\ ListSound' /\ CellsSound' /\ OpenOwned' /\ Owned' /\ LinesSound' /\ JobsSound'
        /\ WorkersSound' /\ NamesReserved' /\ NamesUnique'
    BY <1>2, <1>10, <1>15, <2>2, RemoveKeeps
  <2> QED
    BY <2>1, <2>3
<1>16. CASE ~(RemoveClient(x) /\ UNCHANGED job_queue)
  <2>1. /\ c \in Conns /\ conn' = [conn EXCEPT ![c].unread = << >>]
        /\ UNCHANGED <<status, descs, cells, clients, current_clients>>
    BY <1>8, <1>9, <1>16 DEF store
  <2>2. PICK new : /\ new = [i \in DOMAIN conn[c].unread |-> [fd |-> f, line |-> conn[c].unread[i]]]
                   /\ job_queue' = job_queue \o new
    BY <1>8, <1>16
  <2>3. conn[c].unread \in Seq(Lines) /\ job_queue \in Seq(Jobs)
    BY <1>3, <2>1 DEF ConnStates, ServerInv, TypeOK
  <2>4. /\ new \in Seq(Jobs)
        /\ \A i \in 1 .. Len(new) : new[i] \in Jobs /\ new[i].fd = f /\ new[i].line.by = c
    <3>1. PICK n \in Nat : n = Len(conn[c].unread) /\ DOMAIN conn[c].unread = 1 .. n
      BY <2>3
    <3>2. \A i \in 1 .. n : conn[c].unread[i] \in Lines /\ conn[c].unread[i].by = c
      BY <2>1, <2>3, <3>1 DEF ServerInv, LinesSound
    <3>3. \A i \in 1 .. n : new[i] = [fd |-> f, line |-> conn[c].unread[i]]
      BY <2>2, <3>1
    <3>4. \A i \in 1 .. n : new[i] \in Jobs /\ new[i].fd = f /\ new[i].line.by = c
      <4>1. f \in Fds
        OBVIOUS
      <4>2. \A l \in Lines : [fd |-> f, line |-> l] \in Jobs
        BY <4>1 DEF Jobs
      <4> SUFFICES ASSUME NEW i \in 1 .. n PROVE new[i] \in Jobs /\ new[i].fd = f /\ new[i].line.by = c
        OBVIOUS
      <4>3. PICK l \in Lines : l = conn[c].unread[i] /\ l.by = c
        BY <3>2
      <4>4. new[i] = [fd |-> f, line |-> l]
        BY <3>3, <4>3
      <4> QED
        BY <4>2, <4>3, <4>4
    <3>5. new = [i \in 1 .. n |-> new[i]]
      BY <2>2, <3>1
    <3>6. new \in [1 .. n -> Jobs]
      BY <3>4, <3>5
    <3>7. new \in Seq(Jobs)
      BY <3>1, <3>6, SeqDef
    <3>8. Len(new) = n
      BY <3>1, <3>6, <3>7
    <3> QED
      BY <3>4, <3>7, <3>8
  <2>5. /\ job_queue' \in Seq(Jobs) /\ Len(job_queue') = Len(job_queue) + Len(new)
        /\ \A i \in 1 .. Len(job_queue) + Len(new) :
             job_queue'[i] = IF i <= Len(job_queue) THEN job_queue[i] ELSE new[i - Len(job_queue)]
    BY <2>2, <2>3, <2>4, ConcatProperties
  <2>6. Listed' = Listed
    BY <2>1 DEF Listed
  <2>7. \A d \in Conns : conn[d].st = "accepted" => conn'[d].st = "accepted"
    BY <1>10
  <2>8. ListSound' /\ OpenOwned' /\ Owned'
    BY <1>1, <2>1, <2>6 DEF ServerInv, ListSound, OpenOwned, Owned
  <2>9. CellsSound'
    BY <2>1, <2>6, <2>7 DEF ServerInv, CellsSound
  <2>10. LinesSound'
    <3> SUFFICES ASSUME NEW d \in Conns
                 PROVE  /\ \A i \in 1 .. Len(conn'[d].unread) : conn'[d].unread[i].by = d
                        /\ conn'[d].unread # << >> => conn'[d].st = "accepted"
                        /\ \A g \in Fds : descs'[g] = d => conn'[d].st = "accepted"
      BY DEF LinesSound
    <3>1. CASE conn'[d].unread = << >>
      BY <2>1, <2>7, <3>1 DEF ServerInv, LinesSound
    <3>2. CASE conn'[d].unread = conn[d].unread
      BY <2>1, <2>7, <3>2 DEF ServerInv, LinesSound
    <3> QED
      BY <1>10, <3>1, <3>2
  <2>11. JobsSound'
    <3>1. ASSUME NEW j \in Jobs,
                 \/ \E i \in 1 .. Len(job_queue) : j = job_queue[i]
                 \/ j.fd = f /\ j.line.by = c
          PROVE  /\ conn'[j.line.by].st = "accepted"
                 /\ ~quitted => \A y \in Listed : cells[y].of = j.line.by => cells[y].fd = j.fd
      <4>1. CASE \E i \in 1 .. Len(job_queue) : j = job_queue[i]
        <5>1. j.line.by \in Conns
          BY <4>1, JobsTyped DEF ServerInv
        <5> QED
          BY <2>7, <4>1, <5>1 DEF ServerInv, JobsSound
      <4>2. CASE j.fd = f /\ j.line.by = c
        <5>1. conn'[c].st = "accepted"
          BY <1>5, <2>1, <2>7 DEF ServerInv, LinesSound
        <5>2. ~quitted => cells[x].of = c
          BY <1>5 DEF ServerInv, Owned
        <5>3. ~quitted => \A y \in Listed : cells[y].of = c => y = x
          BY <5>2 DEF ServerInv, CellsSound
        <5> QED
          BY <1>5, <4>2, <5>1, <5>3
      <4> QED
        BY <3>1, <4>1, <4>2
    <3>2. ASSUME NEW i \in 1 .. Len(job_queue')
          PROVE  /\ job_queue'[i] \in Jobs
                 /\ \/ \E k0 \in 1 .. Len(job_queue) : job_queue'[i] = job_queue[k0]
                    \/ job_queue'[i].fd = f /\ job_queue'[i].line.by = c
      <4>1. Len(job_queue) \in Nat /\ Len(new) \in Nat /\ i \in 1 .. Len(job_queue) + Len(new)
        BY <2>3, <2>4, <2>5
      <4>2. CASE i <= Len(job_queue)
        BY <2>3, <2>5, <4>1, <4>2
      <4>3. CASE i > Len(job_queue)
        <5>1. i - Len(job_queue) \in 1 .. Len(new) /\ job_queue'[i] = new[i - Len(job_queue)]
          BY <2>5, <4>1, <4>3
        <5> QED
          BY <2>4, <5>1
      <4> QED
        BY <4>1, <4>2, <4>3
    <3> QED
      BY <1>1, <2>1, <2>6, <3>1, <3>2 DEF JobsSound
  <2>12. WorkersSound' /\ NamesReserved' /\ NamesUnique'
    BY <1>1, <2>1, <2>6 DEF ServerInv, WorkersSound, NamesReserved, NamesUnique, Text
  <2>13. /\ cells' \in [Cells -> CellStates] /\ clients' \in Seq(Cells) /\ descs' \in [Fds -> 0 .. MaxConns]
         /\ current_clients' \in 0 .. max_clients
    BY <2>1 DEF ServerInv, TypeOK, CellStates
  <2> QED
    BY <2>5, <2>6, <2>8, <2>9, <2>10, <2>11, <2>12, <2>13
<1> QED
  BY <1>15, <1>16

(* After the loop nothing is listed, and every descriptor is closed.       *)
LEMMA CleanupKeeps ==
  ASSUME ServerInv, Cleanup
  PROVE  ServerInv'
<1>1. /\ UNCHANGED <<status, sent, current_clients, queues, shutdown_flag, watched, ready, rest, pool, history>>
      /\ UNCHANGED <<job_queue, bcast_queue, pc, job, sender, quitted, raced>>
  BY DEF Cleanup, queues, pool, history
<1>2. at = "cleanup" /\ at' = "join" /\ rest' = << >>
  BY DEF Cleanup, Main, ServerInv, ScanSound
<1>3. clients' = << >> /\ Listed' = {}
  <2>1. clients' = << >>
    BY DEF Cleanup
  <2>2. DOMAIN clients' = {}
    BY <2>1
  <2> QED
    BY <2>1, <2>2 DEF Listed
<1>4. conn \in [Conns -> ConnStates] /\ cells \in [Cells -> CellStates] /\ descs \in [Fds -> 0 .. MaxConns]
  BY DEF ServerInv, TypeOK, ConnStates, CellStates
<1>5. /\ conn' \in [Conns -> ConnStates]
      /\ \A d \in Conns : /\ conn[d].st = "accepted" => conn'[d].st = "accepted"
                          /\ conn'[d].unread = conn[d].unread
  BY <1>4 DEF Cleanup, Unaccepted, ConnStates
<1>6. 0 \in 0 .. MaxConns
  BY ServerAssumption
<1>7. cells' \in [Cells -> CellStates] /\ \A x \in Cells : ~cells'[x].live
  <2>1. \A x \in Cells : [cells[x] EXCEPT !.live = FALSE, !.of = 0] \in CellStates
    <3> SUFFICES ASSUME NEW x \in Cells PROVE [cells[x] EXCEPT !.live = FALSE, !.of = 0] \in CellStates
      OBVIOUS
    <3>1. PICK old \in CellStates : old = cells[x]
      BY <1>4
    <3>2. [old EXCEPT !.live = FALSE, !.of = 0] \in CellStates
      BY <1>6, <3>1 DEF CellStates
    <3> QED
      BY <3>1, <3>2
  <2>2. cells' = [x \in Cells |-> IF x \in Listed THEN [cells[x] EXCEPT !.live = FALSE, !.of = 0] ELSE cells[x]]
    BY DEF Cleanup
  <2>3. \A x \in Cells \ Listed : ~cells[x].live
    BY DEF ServerInv, ListSound
  <2>4. \A x \in Cells : cells[x] \in CellStates /\ ~[cells[x] EXCEPT !.live = FALSE, !.of = 0].live
    BY <1>4 DEF CellStates
  <2> QED
    BY <1>4, <2>1, <2>2, <2>3, <2>4
<1>8. descs' \in [Fds -> 0 .. MaxConns] /\ \A f \in Fds : descs'[f] = 0
  <2>1. descs' = [f \in Fds |-> IF f \in FdsOf(clients) THEN 0 ELSE descs[f]]
    BY DEF Cleanup
  <2>2. \A f \in Fds : descs[f] # 0 => f \in FdsOf(clients)
    BY DEF ServerInv, OpenOwned, Listed, FdsOf
  <2> QED
    BY <1>4, <1>6, <2>1, <2>2
<1>9. TypeOK'
  <2>1. clients' \in Seq(Cells)
    BY <1>3
  <2> QED
    BY <1>1, <1>2, <1>5, <1>7, <1>8, <2>1 DEF ServerInv, TypeOK, ConnStates, CellStates
<1>10. ListSound' /\ ScanSound' /\ AcceptSound' /\ CellsSound'
  BY <1>2, <1>3, <1>7 DEF ListSound, ScanSound, AcceptSound, CellsSound, Distinct
<1>11. OpenOwned' /\ Owned'
  BY <1>3, <1>8 DEF OpenOwned, Owned
<1>12. LinesSound'
  <2>1. \A d \in Conns : d # 0
    BY DEF Conns
  <2> QED
    BY <1>5, <1>8, <2>1 DEF ServerInv, LinesSound
<1>13. JobsSound'
  <2>1. \A i \in 1 .. Len(job_queue) : job_queue[i].line.by \in Conns
    BY JobsTyped DEF ServerInv
  <2>2. \A i \in 1 .. Len(job_queue) : conn'[job_queue[i].line.by].st = "accepted"
    BY <1>5, <2>1 DEF ServerInv, JobsSound
  <2> QED
    BY <1>1, <1>3, <2>2 DEF JobsSound
<1>14. WorkersSound' /\ NamesReserved' /\ NamesUnique'
  BY <1>1, <1>3 DEF ServerInv, WorkersSound, NamesReserved, NamesUnique, Text
<1> QED
  BY <1>9, <1>10, <1>11, <1>12, <1>13, <1>14 DEF ServerInv

-----------------------------------------------------------------------------
(* What a worker's step keeps of main's side: a worker writes nothing but  *)
(* a name, takes jobs from the front, and closes descriptors at /quit.     *)
LEMMA WorkerFrame ==
  ASSUME ServerInv, UNCHANGED <<conn, clients, current_clients, at, rest, ready, shutdown_flag>>,
         \A x \in Cells : cells'[x].live = cells[x].live /\ cells'[x].fd = cells[x].fd /\ cells'[x].of = cells[x].of,
         \A f \in Fds : descs'[f] \in {descs[f], 0},
         quitted' \/ (quitted' = quitted /\ descs' = descs),
         job_queue' = job_queue \/ (job_queue # << >> /\ job_queue' = Tail(job_queue))
  PROVE  /\ ListSound' /\ ScanSound' /\ AcceptSound' /\ CellsSound' /\ OpenOwned' /\ Owned'
         /\ LinesSound' /\ JobsSound'
<1>1. Listed' = Listed /\ Listed \subseteq Cells
  BY DEF Listed, ServerInv, TypeOK
<1>2. \A x \in Listed : cells'[x].live = cells[x].live /\ cells'[x].fd = cells[x].fd /\ cells'[x].of = cells[x].of
  BY <1>1
<1>3. ListSound'
  BY <1>1 DEF ServerInv, ListSound
<1>4. ScanSound' /\ AcceptSound'
  BY <1>1 DEF ServerInv, ScanSound, AcceptSound, Backlog
<1>5. CellsSound'
  BY <1>1, <1>2 DEF ServerInv, CellsSound
<1>6. OpenOwned'
  BY <1>1, <1>2 DEF ServerInv, OpenOwned
<1>7. Owned'
  BY <1>1, <1>2 DEF ServerInv, Owned
<1>8. LinesSound'
  <2>1. \A d \in Conns : d # 0
    BY DEF Conns
  <2> QED
    BY <2>1 DEF ServerInv, LinesSound
<1>9. JobsSound'
  <2>1. quitted \in BOOLEAN /\ quitted' \in BOOLEAN /\ job_queue \in Seq(Jobs)
    BY DEF ServerInv, TypeOK
  <2>2. \A i \in 1 .. Len(job_queue') : \E k \in 1 .. Len(job_queue) : job_queue'[i] = job_queue[k]
    <3>1. CASE job_queue' = job_queue
      BY <3>1
    <3>2. CASE job_queue # << >> /\ job_queue' = Tail(job_queue)
      <4>1. /\ Len(job_queue') = Len(job_queue) - 1
            /\ \A i \in 1 .. Len(job_queue') : job_queue'[i] = job_queue[i + 1]
        BY <2>1, <3>2, HeadTailProperties
      <4>2. Len(job_queue) \in Nat
        BY <2>1
      <4>3. \A i \in 1 .. Len(job_queue') : i + 1 \in 1 .. Len(job_queue)
        BY <4>1, <4>2
      <4> QED
        BY <4>1, <4>3
    <3> QED
      BY <3>1, <3>2
  <2> QED
    BY <1>1, <1>2, <2>2 DEF ServerInv, JobsSound
<1> QED
  BY <1>3, <1>4, <1>5, <1>6, <1>7, <1>8, <1>9

(* A worker that is done with its job.                                     *)
LEMMA DoneIs ==
  ASSUME ServerInv, NEW w \in Workers, Done(w)
  PROVE  /\ pc' \in [Workers -> {"pop", "popped", "found", "name", "done"}]
         /\ job' \in [Workers -> Jobs \cup {Null}] /\ sender' \in [Workers -> Cells \cup {Null}]
         /\ WorkersSound'
         /\ \A v \in Workers : pc'[v] = "name" => v # w /\ pc[v] = "name" /\ job'[v] = job[v]
<1>1. /\ pc \in [Workers -> {"pop", "popped", "found", "name", "done"}]
      /\ job \in [Workers -> Jobs \cup {Null}] /\ sender \in [Workers -> Cells \cup {Null}]
  BY DEF ServerInv, TypeOK
<1>2. /\ pc' = [pc EXCEPT ![w] = IF shutdown_flag THEN "done" ELSE "pop"]
      /\ job' = [job EXCEPT ![w] = Null] /\ sender' = [sender EXCEPT ![w] = Null]
  BY DEF Done
<1>3. \A v \in Workers : pc'[v] \in {"popped", "found", "name"} =>
        v # w /\ pc'[v] = pc[v] /\ job'[v] = job[v] /\ sender'[v] = sender[v]
  BY <1>1, <1>2
<1>4. WorkersSound'
  BY <1>3 DEF ServerInv, WorkersSound, Text
<1>5. /\ pc' \in [Workers -> {"pop", "popped", "found", "name", "done"}]
      /\ job' \in [Workers -> Jobs \cup {Null}] /\ sender' \in [Workers -> Cells \cup {Null}]
  BY <1>1, <1>2
<1> QED
  BY <1>3, <1>4, <1>5

(* The names when no cell is written and no worker has come to write one.  *)
LEMMA NamesFrame ==
  ASSUME ServerInv, UNCHANGED <<cells, clients, raced>>,
         \A v \in Workers : pc'[v] = "name" => pc[v] = "name" /\ job'[v] = job[v]
  PROVE  NamesReserved' /\ NamesUnique'
<1>1. Listed' = Listed
  BY DEF Listed
<1>2. NamesUnique'
  BY <1>1 DEF ServerInv, NamesUnique
<1>3. NamesReserved'
  BY <1>1 DEF ServerInv, NamesReserved, Text
<1> QED
  BY <1>2, <1>3

LEMMA FindIs ==
  ASSUME TypeOK, NEW f, f \in FdsOf(clients)
  PROVE  Find(f) \in Listed /\ cells[Find(f)].fd = f
<1>1. PICK T : T = {i \in DOMAIN clients : cells[clients[i]].fd = f}
  OBVIOUS
<1>2. T # {} /\ T \subseteq DOMAIN clients /\ T \subseteq Nat
  BY <1>1 DEF FdsOf, TypeOK
<1>3. Lowest(T) \in T
  BY <1>2, LowestIs
<1>4. Find(f) = clients[Lowest(T)]
  BY <1>1 DEF Find
<1> QED
  BY <1>1, <1>2, <1>3, <1>4 DEF Listed

LEMMA TakeJobKeeps ==
  ASSUME ServerInv, NEW w \in Workers, TakeJob(w)
  PROVE  ServerInv'
<1>1. /\ UNCHANGED <<status, kernel, store, bcast_queue, loop, sender, history>>
      /\ job_queue # << >> /\ job_queue' = Tail(job_queue)
  BY DEF TakeJob
<1>2. UNCHANGED <<conn, sent, descs, cells, clients, current_clients, shutdown_flag, at, watched, ready, rest, quitted, raced>>
  BY <1>1 DEF kernel, store, loop, history
<1>3. /\ ListSound' /\ ScanSound' /\ AcceptSound' /\ CellsSound' /\ OpenOwned' /\ Owned'
      /\ LinesSound' /\ JobsSound'
  BY <1>1, <1>2, WorkerFrame
<1>4. Head(job_queue) \in Jobs /\ job_queue' \in Seq(Jobs)
  BY <1>1, HeadTailProperties DEF ServerInv, TypeOK
<1>5. /\ pc \in [Workers -> {"pop", "popped", "found", "name", "done"}]
      /\ job \in [Workers -> Jobs \cup {Null}]
      /\ pc' = [pc EXCEPT ![w] = "popped"] /\ job' = [job EXCEPT ![w] = Head(job_queue)]
  BY DEF TakeJob, ServerInv, TypeOK
<1>6. /\ pc' \in [Workers -> {"pop", "popped", "found", "name", "done"}]
      /\ job' \in [Workers -> Jobs \cup {Null}]
      /\ \A v \in Workers : pc'[v] = "name" => pc[v] = "name" /\ job'[v] = job[v]
  BY <1>4, <1>5
<1>7. WorkersSound'
  BY <1>1, <1>4, <1>5 DEF ServerInv, WorkersSound, Text
<1>8. TypeOK'
  BY <1>1, <1>2, <1>4, <1>6 DEF ServerInv, TypeOK
<1>9. NamesReserved' /\ NamesUnique'
  BY <1>2, <1>6, NamesFrame
<1> QED
  BY <1>3, <1>7, <1>8, <1>9 DEF ServerInv

LEMMA FindSenderKeeps ==
  ASSUME ServerInv, NEW w \in Workers, FindSender(w)
  PROVE  ServerInv'
<1>1. UNCHANGED <<status, kernel, store, queues, loop, history>> /\ pc[w] = "popped"
  BY DEF FindSender
<1>2. /\ UNCHANGED <<conn, sent, descs, cells, clients, current_clients, shutdown_flag, at, watched, ready, rest>>
      /\ UNCHANGED <<quitted, raced, job_queue, bcast_queue>>
  BY <1>1 DEF kernel, store, loop, history, queues
<1>3. /\ ListSound' /\ ScanSound' /\ AcceptSound' /\ CellsSound' /\ OpenOwned' /\ Owned'
      /\ LinesSound' /\ JobsSound'
  BY <1>1, <1>2, WorkerFrame
<1>4. /\ pc' \in [Workers -> {"pop", "popped", "found", "name", "done"}]
      /\ job' \in [Workers -> Jobs \cup {Null}] /\ sender' \in [Workers -> Cells \cup {Null}]
      /\ WorkersSound'
      /\ \A v \in Workers : pc'[v] = "name" => pc[v] = "name" /\ job'[v] = job[v]
  <2>1. CASE Done(w)
    BY <2>1, DoneIs
  <2>2. CASE ~Done(w)
    <3>1. PICK x : x = Find(job[w].fd)
      OBVIOUS
    <3>2. /\ x # Null /\ pc' = [pc EXCEPT ![w] = "found"]
          /\ job' = job /\ sender' = [sender EXCEPT ![w] = x]
      BY <2>2, <3>1 DEF FindSender
    <3>3. x \in Cells
      <4>1. x \in Listed
        BY <3>1, <3>2, FindIs DEF Find, ServerInv
      <4> QED
        BY <4>1 DEF Listed, ServerInv, TypeOK
    <3>4. /\ pc \in [Workers -> {"pop", "popped", "found", "name", "done"}]
          /\ job \in [Workers -> Jobs \cup {Null}] /\ sender \in [Workers -> Cells \cup {Null}]
      BY DEF ServerInv, TypeOK
    <3>5. WorkersSound'
      BY <1>1, <3>2, <3>3, <3>4 DEF ServerInv, WorkersSound, Text
    <3> QED
      BY <3>2, <3>3, <3>4, <3>5
  <2> QED
    BY <2>1, <2>2
<1>5. TypeOK'
  BY <1>1, <1>2, <1>4 DEF ServerInv, TypeOK
<1>6. NamesReserved' /\ NamesUnique'
  BY <1>2, <1>4, NamesFrame
<1> QED
  BY <1>3, <1>4, <1>5, <1>6 DEF ServerInv

LEMMA WorkerReturnsKeeps ==
  ASSUME ServerInv, NEW w \in Workers, WorkerReturns(w)
  PROVE  ServerInv'
<1>1. UNCHANGED <<status, kernel, store, queues, loop, job, sender, history>>
  BY DEF WorkerReturns
<1>2. /\ UNCHANGED <<conn, sent, descs, cells, clients, current_clients, shutdown_flag, at, watched, ready, rest>>
      /\ UNCHANGED <<quitted, raced, job_queue, bcast_queue>>
  BY <1>1 DEF kernel, store, loop, history, queues
<1>3. /\ ListSound' /\ ScanSound' /\ AcceptSound' /\ CellsSound' /\ OpenOwned' /\ Owned'
      /\ LinesSound' /\ JobsSound'
  BY <1>1, <1>2, WorkerFrame
<1>4. /\ pc' \in [Workers -> {"pop", "popped", "found", "name", "done"}]
      /\ \A v \in Workers : pc'[v] \in {"popped", "found", "name"} => pc[v] = pc'[v] /\ job'[v] = job[v]
  BY <1>1 DEF WorkerReturns, ServerInv, TypeOK
<1>5. TypeOK'
  BY <1>1, <1>2, <1>4 DEF ServerInv, TypeOK
<1>6. WorkersSound'
  BY <1>1, <1>4 DEF ServerInv, WorkersSound, Text
<1>7. NamesReserved' /\ NamesUnique'
  BY <1>2, <1>4, NamesFrame
<1> QED
  BY <1>3, <1>5, <1>6, <1>7 DEF ServerInv

LEMMA CheckNameKeeps ==
  ASSUME ServerInv, NEW w \in Workers, CheckName(w)
  PROVE  ServerInv'
<1>1. UNCHANGED <<kernel, store, queues, loop, quitted>> /\ pc[w] = "found"
  BY DEF CheckName
<1>2. /\ UNCHANGED <<conn, sent, descs, cells, clients, current_clients, shutdown_flag, at, watched, ready, rest>>
      /\ UNCHANGED <<quitted, job_queue, bcast_queue>>
  BY <1>1 DEF kernel, store, loop, queues
<1>3. /\ ListSound' /\ ScanSound' /\ AcceptSound' /\ CellsSound' /\ OpenOwned' /\ Owned'
      /\ LinesSound' /\ JobsSound'
  BY <1>1, <1>2, WorkerFrame
<1>4. /\ pc \in [Workers -> {"pop", "popped", "found", "name", "done"}] /\ raced \in BOOLEAN
      /\ job \in [Workers -> Jobs \cup {Null}] /\ sender \in [Workers -> Cells \cup {Null}]
      /\ status \in {"up", "ended", "killed"}
  BY DEF ServerInv, TypeOK
<1>5. SUFFICES /\ pc' \in [Workers -> {"pop", "popped", "found", "name", "done"}] /\ raced' \in BOOLEAN
               /\ job' \in [Workers -> Jobs \cup {Null}] /\ sender' \in [Workers -> Cells \cup {Null}]
               /\ status' \in {"up", "ended", "killed"}
               /\ WorkersSound' /\ NamesReserved' /\ NamesUnique'
  <2>1. TypeOK'
    BY <1>2, <1>5 DEF ServerInv, TypeOK
  <2> QED
    BY <1>3, <1>5, <2>1 DEF ServerInv
<1>6. CASE Text(w) \notin Names \/ Taken(Text(w))
  <2>1. Done(w) /\ SendTo({cells[sender[w]].fd}) /\ UNCHANGED raced
    BY <1>6 DEF CheckName
  <2>2. /\ pc' \in [Workers -> {"pop", "popped", "found", "name", "done"}]
        /\ job' \in [Workers -> Jobs \cup {Null}] /\ sender' \in [Workers -> Cells \cup {Null}]
        /\ WorkersSound'
        /\ \A v \in Workers : pc'[v] = "name" => pc[v] = "name" /\ job'[v] = job[v]
    BY <2>1, DoneIs
  <2>3. NamesReserved' /\ NamesUnique'
    BY <1>2, <2>1, <2>2, NamesFrame
  <2>4. status' \in {"up", "ended", "killed"}
    BY <1>4, <2>1 DEF SendTo
  <2> QED
    BY <1>4, <2>1, <2>2, <2>3, <2>4
<1>7. CASE Text(w) \in Names /\ ~Taken(Text(w))
  <2>1. /\ pc' = [pc EXCEPT ![w] = "name"] /\ UNCHANGED <<status, job, sender>>
        /\ raced' = (raced \/ \E v \in Workers : pc[v] = "name" /\ Text(v) = Text(w))
    BY <1>7 DEF CheckName
  <2>2. pc' \in [Workers -> {"pop", "popped", "found", "name", "done"}] /\ raced' \in BOOLEAN
    BY <1>4, <2>1
  <2>3. \A v \in Workers : pc'[v] = IF v = w THEN "name" ELSE pc[v]
    BY <1>4, <2>1
  <2>4. WorkersSound'
    BY <1>1, <1>7, <2>1, <2>3 DEF ServerInv, WorkersSound, Text
  <2>5. Listed' = Listed
    BY <1>2 DEF Listed
  <2>6. NamesUnique'
    BY <1>2, <2>1, <2>5 DEF ServerInv, NamesUnique
  <2>7. NamesReserved'
    <3> SUFFICES ASSUME ~raced'
                 PROVE  /\ \A v \in Workers : pc'[v] = "name" => \A x \in Listed : cells[x].name # Text(v)
                        /\ \A u, v \in Workers :
                             pc'[u] = "name" /\ pc'[v] = "name" /\ Text(u) = Text(v) => u = v
      BY <1>2, <2>1, <2>5 DEF NamesReserved, Text
    <3>1. ~raced /\ \A v \in Workers : pc[v] = "name" => Text(v) # Text(w)
      BY <2>1
    <3>2. \A x \in Listed : cells[x].name # Text(w)
      BY <1>7 DEF Taken
    <3> QED
      BY <2>3, <3>1, <3>2 DEF ServerInv, NamesReserved
  <2> QED
    BY <1>4, <2>1, <2>2, <2>4, <2>6, <2>7
<1> QED
  BY <1>6, <1>7

LEMMA SayTyped ==
  ASSUME ServerInv, NEW w \in Workers, pc[w] \in {"found", "name"}, Say(w)
  PROVE  bcast_queue' \in Seq(Jobs)
<1>1. PICK j \in Jobs : j = job[w]
  BY DEF ServerInv, WorkersSound
<1>2. PICK f \in Fds \cup {BadFd} : f = cells[sender[w]].fd
  BY DEF ServerInv, WorkersSound, TypeOK
<1>3. PICK said : said = [j EXCEPT !.fd = f]
  OBVIOUS
<1>4. said \in Jobs
  BY <1>1, <1>2, <1>3 DEF Jobs
<1>5. bcast_queue' = Append(bcast_queue, said) /\ bcast_queue \in Seq(Jobs)
  BY <1>1, <1>2, <1>3 DEF Say, ServerInv, TypeOK
<1> QED
  BY <1>4, <1>5, AppendProperties

LEMMA SetNameKeeps ==
  ASSUME ServerInv, NEW w \in Workers, SetName(w)
  PROVE  ServerInv'
<1>1. /\ UNCHANGED <<kernel, clients, current_clients, job_queue, loop, history>>
      /\ pc[w] = "name" /\ SendTo({cells[sender[w]].fd}) /\ Say(w) /\ Done(w)
  BY DEF SetName
<1>2. /\ UNCHANGED <<conn, sent, descs, shutdown_flag, at, watched, ready, rest, quitted, raced>>
      /\ Listed' = Listed
  BY <1>1 DEF kernel, loop, history, Listed
<1>3. PICK x \in Cells : x = sender[w]
  BY <1>1 DEF ServerInv, WorkersSound
<1>4. PICK name \in Names : name = Text(w)
  BY <1>1 DEF ServerInv, WorkersSound
<1>5. cells \in [Cells -> CellStates] /\ cells' = [cells EXCEPT ![x].name = name]
  BY <1>3, <1>4 DEF SetName, ServerInv, TypeOK, CellStates
<1>6. /\ cells' \in [Cells -> CellStates] /\ cells'[x].name = name
      /\ \A y \in Cells : /\ cells'[y].live = cells[y].live /\ cells'[y].fd = cells[y].fd
                          /\ cells'[y].of = cells[y].of
                          /\ y # x => cells'[y].name = cells[y].name
  <2>1. PICK old \in CellStates : old = cells[x]
    BY <1>5
  <2>2. PICK new : new = [old EXCEPT !.name = name]
    OBVIOUS
  <2>3. new \in CellStates /\ new.name = name /\ new.live = old.live /\ new.fd = old.fd /\ new.of = old.of
    BY <1>4, <2>1, <2>2 DEF CellStates
  <2>4. cells' = [cells EXCEPT ![x] = new]
    BY <1>5, <2>1, <2>2
  <2> QED
    BY <1>5, <2>1, <2>3, <2>4
<1>7. /\ ListSound' /\ ScanSound' /\ AcceptSound' /\ CellsSound' /\ OpenOwned' /\ Owned'
      /\ LinesSound' /\ JobsSound'
  BY <1>1, <1>2, <1>6, WorkerFrame
<1>8. /\ pc' \in [Workers -> {"pop", "popped", "found", "name", "done"}]
      /\ job' \in [Workers -> Jobs \cup {Null}] /\ sender' \in [Workers -> Cells \cup {Null}]
      /\ WorkersSound'
      /\ \A v \in Workers : pc'[v] = "name" => v # w /\ pc[v] = "name" /\ job'[v] = job[v]
  BY <1>1, DoneIs
<1>9. TypeOK'
  <2>1. status' \in {"up", "ended", "killed"}
    BY <1>1 DEF SendTo, ServerInv, TypeOK
  <2>2. bcast_queue' \in Seq(Jobs)
    BY <1>1, SayTyped
  <2> QED
    BY <1>1, <1>2, <1>6, <1>8, <2>1, <2>2 DEF ServerInv, TypeOK, CellStates
<1>10. Listed \subseteq Cells
  BY DEF Listed, ServerInv, TypeOK
<1>11. NamesUnique'
  <2> SUFFICES ASSUME ~raced, NEW y \in Listed, NEW z \in Listed, y # z, cells'[y].name \in Names
               PROVE  cells'[y].name # cells'[z].name
    BY <1>2 DEF NamesUnique
  <2>1. \A u \in Listed : cells[u].name # name
    BY <1>1, <1>4 DEF ServerInv, NamesReserved
  <2>2. CASE x \in {y, z}
    BY <1>6, <1>10, <2>1, <2>2
  <2>3. CASE x \notin {y, z}
    BY <1>6, <1>10, <2>3 DEF ServerInv, NamesUnique
  <2> QED
    BY <2>2, <2>3
<1>12. NamesReserved'
  <2> SUFFICES ASSUME ~raced
               PROVE  /\ \A v \in Workers : pc'[v] = "name" => \A y \in Listed : cells'[y].name # job'[v].line.text
                      /\ \A u, v \in Workers :
                           pc'[u] = "name" /\ pc'[v] = "name" /\ job'[u].line.text = job'[v].line.text => u = v
    BY <1>2 DEF NamesReserved, Text
  <2>1. \A u, v \in Workers : pc[u] = "name" /\ pc[v] = "name" /\ job[u].line.text = job[v].line.text => u = v
    BY DEF ServerInv, NamesReserved, Text
  <2>2. \A v \in Workers : pc'[v] = "name" => job'[v].line.text # name
    BY <1>1, <1>4, <1>8, <2>1 DEF Text
  <2>3. \A v \in Workers : pc'[v] = "name" => \A y \in Listed : cells[y].name # job'[v].line.text
    BY <1>8 DEF ServerInv, NamesReserved, Text
  <2> QED
    BY <1>6, <1>8, <1>10, <2>1, <2>2, <2>3
<1> QED
  BY <1>7, <1>8, <1>9, <1>11, <1>12 DEF ServerInv

LEMMA TalkKeeps ==
  ASSUME ServerInv, NEW w \in Workers, Talk(w) \/ QuitChat(w)
  PROVE  ServerInv'
<1>1. /\ UNCHANGED <<status, conn, sent, store, job_queue, loop, raced>>
      /\ pc[w] = "found" /\ Done(w)
  BY DEF Talk, QuitChat, kernel, history, queues
<1>2. /\ UNCHANGED <<cells, clients, current_clients, shutdown_flag, at, watched, ready, rest>>
  BY <1>1 DEF store, loop
<1>3. /\ descs' \in [Fds -> 0 .. MaxConns] /\ \A f \in Fds : descs'[f] \in {descs[f], 0}
      /\ quitted' \in BOOLEAN /\ (quitted' \/ (quitted' = quitted /\ descs' = descs))
      /\ bcast_queue' \in Seq(Jobs)
  <2>1. descs \in [Fds -> 0 .. MaxConns] /\ quitted \in BOOLEAN /\ bcast_queue \in Seq(Jobs)
    BY DEF ServerInv, TypeOK
  <2>2. CASE Talk(w)
    <3>1. UNCHANGED <<descs, quitted>> /\ Say(w)
      BY <2>2 DEF Talk, kernel, history
    <3>2. bcast_queue' \in Seq(Jobs)
      BY <1>1, <3>1, SayTyped
    <3> QED
      BY <2>1, <3>1, <3>2
  <2>3. CASE QuitChat(w)
    <3>1. quitted' = TRUE /\ bcast_queue' = bcast_queue
      BY <2>3 DEF QuitChat, queues
    <3>2. descs' = [f \in Fds |-> IF f = cells[sender[w]].fd THEN 0 ELSE descs[f]]
      BY <2>3 DEF QuitChat
    <3>3. 0 \in 0 .. MaxConns
      BY ServerAssumption
    <3> QED
      BY <2>1, <3>1, <3>2, <3>3
  <2> QED
    BY <2>2, <2>3
<1>4. /\ ListSound' /\ ScanSound' /\ AcceptSound' /\ CellsSound' /\ OpenOwned' /\ Owned'
      /\ LinesSound' /\ JobsSound'
  BY <1>1, <1>2, <1>3, WorkerFrame
<1>5. /\ pc' \in [Workers -> {"pop", "popped", "found", "name", "done"}]
      /\ job' \in [Workers -> Jobs \cup {Null}] /\ sender' \in [Workers -> Cells \cup {Null}]
      /\ WorkersSound'
      /\ \A v \in Workers : pc'[v] = "name" => v # w /\ pc[v] = "name" /\ job'[v] = job[v]
  BY <1>1, DoneIs
<1>6. TypeOK'
  BY <1>1, <1>2, <1>3, <1>5 DEF ServerInv, TypeOK
<1>7. NamesReserved' /\ NamesUnique'
  BY <1>1, <1>2, <1>5, NamesFrame
<1> QED
  BY <1>4, <1>5, <1>6, <1>7 DEF ServerInv

LEMMA ServerInvNext == ServerInv /\ [Next]_vars => ServerInv'
<1> SUFFICES ASSUME ServerInv, [Next]_vars PROVE ServerInv'
  OBVIOUS
<1>1. ASSUME NEW c \in Conns, Connect(c) \/ Disconnect(c) \/ \E t \in Names \cup {Quit} : Send(c, t)
      PROVE  ServerInv'
  BY <1>1, PeersKeep
<1>2. CASE MainStep
  BY <1>2, SelectKeeps, AcceptKeeps, ReceiveKeeps, LoopKeeps, CleanupKeeps DEF MainStep
<1>3. CASE Interrupt
  BY <1>3, InterruptKeeps
<1>4. ASSUME NEW w \in Workers, WorkerStep(w) PROVE ServerInv'
  BY <1>4, TakeJobKeeps, FindSenderKeeps, WorkerReturnsKeeps, CheckNameKeeps, SetNameKeeps, TalkKeeps DEF WorkerStep
<1>5. CASE UNCHANGED vars
  <2>1. /\ UNCHANGED <<descs, store, job_queue, pool, history>>
        /\ UNCHANGED <<status, conn, sent, descs, cells, clients, current_clients, job_queue, bcast_queue>>
        /\ UNCHANGED <<shutdown_flag, at, watched, ready, rest, pc, job, sender, quitted, raced>>
    BY <1>5 DEF vars, kernel, store, queues, loop, pool, history
  <2>2. /\ CellsSound' /\ OpenOwned' /\ Owned' /\ LinesSound' /\ JobsSound'
        /\ WorkersSound' /\ NamesReserved' /\ NamesUnique'
    BY <2>1, LoopFrame
  <2>3. TypeOK'
    BY <2>1 DEF ServerInv, TypeOK
  <2>4. ListSound' /\ ScanSound' /\ AcceptSound'
    BY <2>1 DEF ServerInv, ListSound, ScanSound, AcceptSound, Listed, Backlog
  <2> QED
    BY <2>2, <2>3, <2>4 DEF ServerInv
<1> QED
  BY <1>1, <1>2, <1>3, <1>4, <1>5 DEF Next, Over

-----------------------------------------------------------------------------
(* Everything above holds in every reachable state.                        *)
THEOREM ServerInvariant == Spec => []ServerInv
<1> QED
  BY ServerInvInit, ServerInvNext, PTL DEF Spec

(* The variables of main, the workers and the kernel keep their types: no  *)
(* worker writes through a null sender, no client gets a descriptor that   *)
(* does not exist, and the counter stays between 0 and max_clients.        *)
THEOREM ServerTypes == Spec => []TypeOK
<1>1. ServerInv => TypeOK
  BY DEF ServerInv
<1> QED
  BY ServerInvariant, <1>1, PTL

(* current_clients, which admits and refuses newcomers, is the length of   *)
(* the list, and the list holds each live Client once.                     *)
THEOREM ServerCount == Spec => []CountMatches
<1>1. ServerInv => CountMatches
  <2> SUFFICES ASSUME ServerInv PROVE CountMatches
    OBVIOUS
  <2>1. clients \in Seq(Cells) /\ Distinct(clients)
    BY DEF ServerInv, TypeOK, ListSound
  <2>2. Cardinality(Listed) = Len(clients)
    BY <2>1, DistinctCounts DEF Listed, Elements
  <2> QED
    BY <2>2 DEF CountMatches, ServerInv, ListSound
<1> QED
  BY ServerInvariant, <1>1, PTL

(* Until the first /quit, list and descriptor table agree both ways.       *)
THEOREM ServerDescriptors == Spec => []DescriptorsOwned
<1>1. ServerInv => DescriptorsOwned
  <2>1. \A c \in Conns : c # 0
    BY DEF Conns
  <2> QED
    BY <2>1 DEF DescriptorsOwned, ServerInv, Owned, OpenOwned, CellsSound
<1> QED
  BY ServerInvariant, <1>1, PTL

(* While no two workers found the same name free, no two listed clients    *)
(* have one name.                                                          *)
THEOREM ServerNames == Spec => []NamesUnique
<1>1. ServerInv => NamesUnique
  BY DEF ServerInv
<1> QED
  BY ServerInvariant, <1>1, PTL

(* The listening socket is never accepted from without a connection        *)
(* waiting, so accept does not block; and each accepted client finds a     *)
(* free descriptor.                                                        *)
AcceptNeverBlocks ==
  at = "accept" /\ Listener \in ready /\ ~shutdown_flag =>
    /\ Backlog # {}
    /\ current_clients < max_clients => \E g \in Fds : descs[g] = 0

THEOREM ServerAccepts == Spec => []AcceptNeverBlocks
<1>1. ServerInv => AcceptNeverBlocks
  BY DescriptorFree DEF AcceptNeverBlocks, ServerInv, AcceptSound
<1> QED
  BY ServerInvariant, <1>1, PTL

(* What JobsSound says of queued lines holds of one that a worker has      *)
(* popped and whose sender it has yet to look up.                          *)
PoppedSound ==
  \A w \in Workers : pc[w] = "popped" =>
    /\ conn[job[w].line.by].st = "accepted"
    /\ ~quitted => \A x \in Listed : cells[x].of = job[w].line.by => cells[x].fd = job[w].fd

LEMMA PoppedTyped ==
  ASSUME ServerInv
  PROVE  \A w \in Workers : pc[w] = "popped" => job[w].line.by \in Conns
<1>1. \A w \in Workers : pc[w] = "popped" => job[w] \in Jobs
  BY DEF ServerInv, WorkersSound
<1>2. \A j \in Jobs : j.line \in Lines
  BY DEF Jobs
<1>3. \A l \in Lines : l.by \in Conns
  BY DEF Lines
<1> QED
  BY <1>1, <1>2, <1>3

(* It is kept by a step after which each client is an old one, or has a    *)
(* connection that was not accepted before.                                *)
LEMMA PoppedFrame ==
  ASSUME ServerInv, ServerInv', PoppedSound,
         \A c \in Conns : conn[c].st = "accepted" => conn'[c].st = "accepted",
         \A w \in Workers : pc'[w] = "popped" => pc[w] = "popped" /\ job'[w] = job[w],
         ~quitted' => ~quitted,
         \A x \in Cells : cells'[x].live =>
           \/ cells[x].live /\ cells'[x].fd = cells[x].fd /\ cells'[x].of = cells[x].of
           \/ conn[cells'[x].of].st # "accepted"
  PROVE  PoppedSound'
<1>1. Listed = {x \in Cells : cells[x].live} /\ Listed' = {x \in Cells : cells'[x].live}
  BY DEF ServerInv, ListSound
<1>2. \A w \in Workers : pc[w] = "popped" => job[w].line.by \in Conns
  BY PoppedTyped
<1>3. ASSUME NEW w \in Workers, pc'[w] = "popped"
      PROVE  /\ conn'[job'[w].line.by].st = "accepted"
             /\ ~quitted' => \A x \in Listed' : cells'[x].of = job'[w].line.by => cells'[x].fd = job'[w].fd
  <2>1. pc[w] = "popped" /\ job'[w] = job[w]
    BY <1>3
  <2>2. conn[job[w].line.by].st = "accepted"
    BY <2>1 DEF PoppedSound
  <2>3. conn'[job[w].line.by].st = "accepted"
    BY <1>2, <2>1, <2>2
  <2>4. ASSUME ~quitted', NEW x \in Listed', cells'[x].of = job[w].line.by
        PROVE  cells'[x].fd = job[w].fd
    <3>1. x \in Listed /\ cells'[x].fd = cells[x].fd /\ cells'[x].of = cells[x].of
      BY <1>1, <2>2, <2>4
    <3> QED
      BY <2>1, <2>4, <3>1 DEF PoppedSound
  <2> QED
    BY <2>1, <2>3, <2>4
<1> QED
  BY <1>3 DEF PoppedSound

LEMMA PoppedPeers ==
  ASSUME ServerInv, ServerInv', PoppedSound, NEW c \in Conns,
         Connect(c) \/ Disconnect(c) \/ \E t \in Names \cup {Quit} : Send(c, t)
  PROVE  PoppedSound'
<1>1. conn \in [Conns -> ConnStates]
  BY DEF ServerInv, TypeOK, ConnStates
<1>2. UNCHANGED <<cells, pc, job, quitted>>
  BY DEF Connect, Disconnect, Send, Peers, store, pool, history
<1>3. \A d \in Conns : conn[d].st = "accepted" => conn'[d].st = "accepted"
  <2>1. CASE Connect(c)
    BY <1>1, <2>1 DEF Connect, ConnStates
  <2>2. CASE Disconnect(c)
    BY <1>1, <2>2 DEF Disconnect, ConnStates
  <2>3. CASE \E t \in Names \cup {Quit} : Send(c, t)
    BY <1>1, <2>3 DEF Send, ConnStates
  <2> QED
    BY <2>1, <2>2, <2>3
<1>4. \A x \in Cells : cells'[x] = cells[x]
  BY <1>2
<1> QED
  BY <1>2, <1>3, <1>4, PoppedFrame

LEMMA PoppedMain ==
  ASSUME ServerInv, ServerInv', PoppedSound, MainStep \/ Interrupt
  PROVE  PoppedSound'
<1>1. conn \in [Conns -> ConnStates] /\ cells \in [Cells -> CellStates]
  BY DEF ServerInv, TypeOK, ConnStates, CellStates
<1>2. UNCHANGED <<pc, job, quitted>>
  BY Zenon DEF MainStep, Interrupt, Select, SelectReturns, Accept, Receive, ScanDone, Broadcast, Drained,
               Cleanup, JoinWorkers, pool, history
<1>3. CASE Select \/ SelectReturns \/ ScanDone \/ Broadcast \/ Drained \/ JoinWorkers
  <2>1. UNCHANGED <<conn, cells>>
    BY <1>3, Zenon DEF Select, SelectReturns, ScanDone, Broadcast, Drained, JoinWorkers, kernel, store
  <2>2. \A x \in Cells : cells'[x] = cells[x]
    BY <2>1
  <2> QED
    BY <1>2, <2>1, <2>2, PoppedFrame
<1>4. CASE Interrupt \/ Cleanup
  <2>1. /\ conn' = Unaccepted
        /\ cells' = cells \/ cells' = [x \in Cells |-> IF x \in Listed THEN [cells[x] EXCEPT !.live = FALSE, !.of = 0]
                                                                       ELSE cells[x]]
    BY <1>4 DEF Interrupt, Cleanup, store
  <2>2. \A c \in Conns : conn[c].st = "accepted" => conn'[c].st = "accepted"
    BY <1>1, <2>1 DEF Unaccepted, ConnStates
  <2>3. \A x \in Cells : cells'[x].live =>
          cells[x].live /\ cells'[x].fd = cells[x].fd /\ cells'[x].of = cells[x].of
    BY <1>1, <2>1 DEF CellStates
  <2> QED
    BY <1>2, <2>2, <2>3, PoppedFrame
<1>5. CASE Accept
  <2>1. CASE UNCHANGED <<status, kernel, store>>
    <3>1. UNCHANGED <<conn, cells>>
      BY <2>1 DEF kernel, store
    <3>2. \A x \in Cells : cells'[x] = cells[x]
      BY <3>1
    <3> QED
      BY <1>2, <3>1, <3>2, PoppedFrame
  <2>2. ASSUME NEW c \in Conns, Refused(c) PROVE PoppedSound'
    <3>1. /\ cells' = cells
          /\ \A d \in Conns : conn[d].st = "accepted" => conn'[d].st = "accepted"
      BY <1>1, <2>2 DEF Refused, ConnStates, store
    <3>2. \A x \in Cells : cells'[x] = cells[x]
      BY <3>1
    <3> QED
      BY <1>2, <3>1, <3>2, PoppedFrame
  <2>3. ASSUME NEW c \in Conns, NEW x \in Cells, NEW f \in Fds, Admitted(x, f, c) PROVE PoppedSound'
    <3>1. conn[c].st = "backlog" /\ \A d \in Conns : conn[d].st = "accepted" => conn'[d].st = "accepted"
      BY <1>1, <2>3 DEF Admitted, ConnStates
    <3>2. \A y \in Cells : IF y = x THEN cells'[y].of = c ELSE cells'[y] = cells[y]
      BY <1>1, <2>3 DEF Admitted
    <3>3. \A y \in Cells : cells'[y].live =>
            \/ cells[y].live /\ cells'[y].fd = cells[y].fd /\ cells'[y].of = cells[y].of
            \/ conn[cells'[y].of].st # "accepted"
      BY <3>1, <3>2
    <3> QED
      BY <1>2, <3>1, <3>3, PoppedFrame
  <2> QED
    BY <1>5, <2>1, <2>2, <2>3, AcceptIs
<1>6. CASE Receive
  <2>1. PICK k \in 1 .. Len(rest), x \in Listed, f \in Fds, c \in 0 .. MaxConns : Received(k, x, f, c)
    BY <1>6, ReceiveIs
  <2>2. \A d \in Conns : conn[d].st = "accepted" => conn'[d].st = "accepted"
    <3>1. conn' = conn \/ conn' = [conn EXCEPT ![c].unread = << >>]
      BY <2>1, Zenon DEF Received
    <3> QED
      BY <1>1, <3>1 DEF ConnStates
  <2>3. cells' = cells \/ Freed(x)
    BY <2>1 DEF Received, RemoveClient, store
  <2>4. \A y \in Cells : cells'[y].live =>
          cells[y].live /\ cells'[y].fd = cells[y].fd /\ cells'[y].of = cells[y].of
    <3>1. CASE cells' = cells
      BY <3>1
    <3>2. CASE Freed(x)
      <4>1. PICK dead : cells' = [cells EXCEPT ![x] = [dead EXCEPT !.live = FALSE, !.of = 0]]
        BY <3>2 DEF Freed
      <4>2. x \in Cells /\ cells'[x] = [dead EXCEPT !.live = FALSE, !.of = 0]
        BY <1>1, <4>1 DEF Listed, ServerInv, TypeOK
      <4>3. ~cells'[x].live
        <5>1. cells' \in [Cells -> CellStates]
          BY DEF ServerInv, TypeOK, CellStates
        <5> QED
          BY <3>2, <1>1, <4>2, <5>1 DEF Freed, CellStates
      <4>4. \A y \in Cells : y # x => cells'[y] = cells[y]
        BY <1>1, <4>1
      <4> QED
        BY <4>3, <4>4
    <3> QED
      BY <2>3, <3>1, <3>2
  <2> QED
    BY <1>2, <2>2, <2>4, PoppedFrame
<1> QED
  BY <1>3, <1>4, <1>5, <1>6 DEF MainStep

LEMMA PoppedWorkers ==
  ASSUME ServerInv, ServerInv', PoppedSound, NEW w \in Workers, WorkerStep(w)
  PROVE  PoppedSound'
<1>1. /\ pc \in [Workers -> {"pop", "popped", "found", "name", "done"}]
      /\ job \in [Workers -> Jobs \cup {Null}] /\ cells \in [Cells -> CellStates] /\ job_queue \in Seq(Jobs)
  BY DEF ServerInv, TypeOK, CellStates
<1>2. CASE TakeJob(w)
  <2>1. /\ job_queue # << >> /\ UNCHANGED <<conn, cells, clients, quitted>>
        /\ pc' = [pc EXCEPT ![w] = "popped"] /\ job' = [job EXCEPT ![w] = Head(job_queue)]
    BY <1>2 DEF TakeJob, kernel, store, history
  <2>2. Head(job_queue) = job_queue[1] /\ 1 \in 1 .. Len(job_queue)
    BY <1>1, <2>1
  <2>3. Listed' = Listed
    BY <2>1 DEF Listed
  <2>4. \A v \in Workers : IF v = w THEN job'[v] = job_queue[1]
                                     ELSE pc'[v] = pc[v] /\ job'[v] = job[v]
    BY <1>1, <2>1, <2>2
  <2>5. /\ conn[job_queue[1].line.by].st = "accepted"
        /\ ~quitted => \A x \in Listed : cells[x].of = job_queue[1].line.by => cells[x].fd = job_queue[1].fd
    BY <2>2 DEF ServerInv, JobsSound
  <2> QED
    BY <2>1, <2>3, <2>4, <2>5 DEF PoppedSound
<1>3. CASE ~TakeJob(w)
  <2>1. conn' = conn /\ (quitted' \/ quitted' = quitted)
    BY <1>3, Zenon DEF WorkerStep, FindSender, WorkerReturns, CheckName, SetName, Talk, QuitChat, kernel, history
  <2>2. \A v \in Workers : pc'[v] = "popped" => pc[v] = "popped" /\ job'[v] = job[v]
    <3>1. CASE Done(w)
      BY <1>1, <3>1 DEF Done
    <3>2. CASE ~Done(w)
      <4>1. \/ pc' = [pc EXCEPT ![w] = "found"] /\ job' = job
            \/ pc' = [pc EXCEPT ![w] = "name"] /\ job' = job
            \/ pc' = [pc EXCEPT ![w] = "done"] /\ job' = job
        BY <1>3, <3>2 DEF WorkerStep, FindSender, WorkerReturns, CheckName, SetName, Talk, QuitChat
      <4> QED
        BY <1>1, <4>1
    <3> QED
      BY <3>1, <3>2
  <2>3. cells' = cells \/ cells' = [cells EXCEPT ![sender[w]].name = Text(w)]
    BY <1>3, Zenon DEF WorkerStep, FindSender, WorkerReturns, CheckName, SetName, Talk, QuitChat, store
  <2>4. \A x \in Cells : cells'[x].live = cells[x].live /\ cells'[x].fd = cells[x].fd /\ cells'[x].of = cells[x].of
    <3>1. PICK y, name : cells' = cells \/ cells' = [cells EXCEPT ![y].name = name]
      BY <2>3
    <3> QED
      BY <1>1, <3>1 DEF CellStates
  <2> QED
    BY <2>1, <2>2, <2>4, PoppedFrame
<1> QED
  BY <1>2, <1>3

LEMMA PoppedAlways == Spec => [](ServerInv /\ PoppedSound)
<1>1. Init => PoppedSound
  BY DEF Init, PoppedSound
<1>2. ASSUME ServerInv, ServerInv', PoppedSound, [Next]_vars PROVE PoppedSound'
  <2>1. ASSUME NEW c \in Conns, Connect(c) \/ Disconnect(c) \/ \E t \in Names \cup {Quit} : Send(c, t)
        PROVE  PoppedSound'
    BY <1>2, <2>1, PoppedPeers
  <2>2. CASE MainStep \/ Interrupt
    BY <1>2, <2>2, PoppedMain
  <2>3. ASSUME NEW w \in Workers, WorkerStep(w) PROVE PoppedSound'
    BY <1>2, <2>3, PoppedWorkers
  <2>4. CASE UNCHANGED vars
    <3>1. UNCHANGED <<conn, cells, clients, pc, job, quitted>>
      BY <2>4 DEF vars, kernel, store, pool, history
    <3>2. Listed' = Listed
      BY <3>1 DEF Listed
    <3> QED
      BY <1>2, <3>1, <3>2 DEF PoppedSound
  <2> QED
    BY <1>2, <2>1, <2>2, <2>3, <2>4 DEF Next, Over
<1>3. ServerInv /\ ServerInv' /\ PoppedSound /\ [Next]_vars => PoppedSound'
  BY <1>2
<1> QED
  BY <1>1, <1>3, ServerInvariant, PTL DEF Spec

(* The worker that looks up the sender of a line finds its client and no   *)
(* other, if that is still there, until the first /quit.                   *)
THEOREM ServerRightSender == Spec => RightSender
<1>1. ASSUME ServerInv, PoppedSound, [Next]_vars, NEW w \in Workers,
             pc[w] = "popped", pc'[w] # "popped", ~quitted,
             NEW x \in Listed, cells[x].of = job[w].line.by
      PROVE  sender'[w] = x
  <2>1. /\ pc \in [Workers -> {"pop", "popped", "found", "name", "done"}]
        /\ sender \in [Workers -> Cells \cup {Null}]
    BY <1>1 DEF ServerInv, TypeOK
  <2>2. FindSender(w)
    <3>1. \A v \in Workers : v # w => ~WorkerStep(v)
      <4> SUFFICES ASSUME NEW v \in Workers, v # w, WorkerStep(v) PROVE pc'[w] = pc[w]
        BY <1>1
      <4>1. CASE Done(v)
        BY <2>1, <4>1 DEF Done
      <4>2. CASE ~Done(v)
        <5>1. \E where \in {"popped", "found", "name", "done"} : pc' = [pc EXCEPT ![v] = where]
          BY <4>2 DEF WorkerStep, TakeJob, FindSender, WorkerReturns, CheckName, SetName, Talk, QuitChat
        <5> QED
          BY <2>1, <5>1
      <4> QED
        BY <4>1, <4>2
    <3>2. pc' # pc
      BY <1>1
    <3>3. \A c \in Conns : ~Connect(c) /\ ~Disconnect(c) /\ \A t \in Names \cup {Quit} : ~Send(c, t)
      BY <3>2, Zenon DEF Connect, Disconnect, Send, Peers, pool
    <3>4. ~MainStep /\ ~Interrupt /\ ~Over /\ ~UNCHANGED vars
      BY <3>2, Zenon DEF MainStep, Interrupt, Over, Select, SelectReturns, Accept, Receive, ScanDone, Broadcast,
                         Drained, Cleanup, JoinWorkers, pool, vars
    <3>5. WorkerStep(w)
      BY <1>1, <3>1, <3>3, <3>4, Zenon DEF Next
    <3> QED
      BY <1>1, <3>5 DEF WorkerStep, TakeJob, WorkerReturns, CheckName, SetName, Talk, QuitChat
  <2>3. cells[x].fd = job[w].fd
    BY <1>1 DEF PoppedSound
  <2>4. PICK y \in Listed : y = Find(job[w].fd) /\ cells[y].fd = job[w].fd
    <3>1. job[w].fd \in FdsOf(clients)
      BY <2>3 DEF FdsOf, Listed
    <3> QED
      BY <1>1, <3>1, FindIs DEF ServerInv
  <2>5. y = x
    BY <1>1, <2>3, <2>4 DEF ServerInv, Owned
  <2>6. x # Null
    BY <1>1, ServerAssumption DEF Listed, ServerInv, TypeOK
  <2>7. sender' = [sender EXCEPT ![w] = x]
    BY <2>2, <2>4, <2>5, <2>6 DEF FindSender
  <2> QED
    BY <2>1, <2>7
<1>2. ServerInv /\ PoppedSound /\ [Next]_vars =>
        [\A w \in Workers : pc[w] = "popped" /\ pc'[w] # "popped" /\ ~quitted =>
           \A x \in Listed : cells[x].of = job[w].line.by => sender'[w] = x]_vars
  BY <1>1
<1> QED
  BY PoppedAlways, <1>2, PTL DEF Spec, RightSender

-----------------------------------------------------------------------------
(* A recv on descriptor f returns at once: its peer has sent a line or     *)
(* closed.                                                                 *)
Answers(f) == descs[f] # 0 /\ Readable(descs[f])

(* What select was given is what it watches, and what it has found         *)
(* readable stays so until main looks at it.                               *)
ReadySound ==
  ~quitted /\ ~shutdown_flag =>
    /\ at = "selecting" => \A v \in watched : descs[v[1]] = v[2]
    /\ at = "accept" => \A f \in ready \ {Listener} : Answers(f)
    /\ at = "scan" =>
         \A i \in 1 .. Len(rest) : cells[rest[i]].fd \in ready => Answers(cells[rest[i]].fd)

(* Nobody but main reads, and peers only add: what was readable still is.  *)
LEMMA ReadyFrame ==
  ASSUME ServerInv, ReadySound, UNCHANGED <<descs, watched, ready, rest, at>>,
         quitted' = quitted, shutdown_flag' = shutdown_flag,
         \A c \in Conns : Readable(c) => Readable(c)',
         \A x \in Cells : cells'[x].fd = cells[x].fd
  PROVE  ReadySound'
<1>1. descs \in [Fds -> 0 .. MaxConns] /\ ready \subseteq Fds \cup {Listener} /\ rest \in Seq(Cells)
  BY DEF ServerInv, TypeOK
<1>2. \A f \in Fds : Answers(f) => Answers(f)'
  BY <1>1, ServerAssumption DEF Answers, Conns
<1>3. \A i \in 1 .. Len(rest) : rest[i] \in Cells /\ cells[rest[i]].fd \in Fds
  BY <1>1 DEF ServerInv, ScanSound, CellsSound
<1>4. \A f \in ready \ {Listener} : f \in Fds
  BY <1>1
<1> QED
  BY <1>2, <1>3, <1>4 DEF ReadySound

LEMMA ReadyPeers ==
  ASSUME ServerInv, ReadySound, NEW c \in Conns,
         Connect(c) \/ Disconnect(c) \/ \E t \in Names \cup {Quit} : Send(c, t)
  PROVE  ReadySound'
<1>1. conn \in [Conns -> ConnStates]
  BY DEF ServerInv, TypeOK, ConnStates
<1>2. UNCHANGED <<descs, cells, watched, ready, rest, at, quitted, shutdown_flag>>
  BY DEF Connect, Disconnect, Send, Peers, store, loop, history
<1>3. ASSUME NEW d \in Conns, Readable(d) PROVE Readable(d)'
  <2>1. CASE Connect(c)
    BY <1>1, <1>3, <2>1 DEF Connect, Readable, ConnStates
  <2>2. CASE Disconnect(c)
    BY <1>1, <1>3, <2>2 DEF Disconnect, Readable, ConnStates
  <2>3. ASSUME NEW t \in Names \cup {Quit}, Send(c, t) PROVE Readable(d)'
    <3>1. PICK line \in Lines : conn' = [conn EXCEPT ![c].unread = Append(@, line)]
      BY <2>3 DEF Send, Lines
    <3>2. conn[c].unread \in Seq(Lines)
      BY <1>1 DEF ConnStates
    <3>3. Append(conn[c].unread, line) # << >>
      BY <3>2
    <3> QED
      BY <1>1, <1>3, <3>1, <3>3 DEF Readable, ConnStates
  <2> QED
    BY <2>1, <2>2, <2>3
<1> QED
  BY <1>2, <1>3, ReadyFrame

(* A newcomer gets a descriptor that select has not returned: those it has *)
(* returned are open.                                                      *)
LEMMA ReadyAccept ==
  ASSUME ServerInv, ReadySound, Accept
  PROVE  ReadySound'
<1>1. at = "accept" /\ at' = "scan" /\ rest' = clients' /\ UNCHANGED <<ready, quitted, shutdown_flag>>
  BY DEF Accept, Main, history
<1> SUFFICES ASSUME ~quitted, ~shutdown_flag, NEW i \in 1 .. Len(clients'),
                    cells'[clients'[i]].fd \in ready
             PROVE  Answers(cells[rest[i]].fd)'
  BY <1>1 DEF ReadySound
<1>t. /\ clients \in Seq(Cells) /\ conn \in [Conns -> ConnStates] /\ cells \in [Cells -> CellStates]
      /\ descs \in [Fds -> 0 .. MaxConns]
  BY DEF ServerInv, TypeOK, ConnStates, CellStates
<1>2. \A f \in Fds : f # Listener /\ (f \in ready => Answers(f))
  BY <1>1, ServerAssumption DEF ReadySound, Fds, Listener
<1>3. \A y \in Listed : y \in Cells /\ cells[y].fd \in Fds
  BY <1>t DEF Listed, ServerInv, CellsSound
(* Old clients keep their descriptors and connections.                     *)
<1>4. ASSUME clients'[i] \in Listed, cells'[clients'[i]] = cells[clients'[i]],
             descs'[cells[clients'[i]].fd] = descs[cells[clients'[i]].fd],
             \A d \in Conns : conn'[d].unread = conn[d].unread /\ conn'[d].gone = conn[d].gone
      PROVE  Answers(cells[rest[i]].fd)'
  <2>1. PICK y : y = clients'[i]
    OBVIOUS
  <2>2. PICK f : f = cells[y].fd
    OBVIOUS
  <2>3. f \in Fds /\ Answers(f) /\ descs'[f] = descs[f] /\ (cells[rest[i]].fd)' = f
    BY <1>1, <1>2, <1>3, <1>4, <2>1, <2>2
  <2>4. PICK d \in Conns : d = descs[f]
    BY <1>t, <2>3, ServerAssumption DEF Answers, Conns
  <2>5. d # 0 /\ Readable(d)
    BY <2>3, <2>4 DEF Answers
  <2>6. Readable(d)'
    BY <1>4, <2>5 DEF Readable
  <2>7. Answers(f)'
    BY <2>3, <2>4, <2>5, <2>6 DEF Answers
  <2> QED
    BY <2>3, <2>7 DEF Answers
<1>5. CASE UNCHANGED <<status, kernel, store>>
  <2>1. UNCHANGED <<conn, descs, cells, clients>>
    BY <1>5 DEF kernel, store
  <2>2. clients'[i] \in Listed
    BY <1>t, <2>1 DEF Listed
  <2> QED
    BY <1>3, <1>4, <2>1, <2>2
<1>6. CASE \E c \in Conns : Refused(c)
  <2>1. PICK c \in Conns : Refused(c)
    BY <1>6
  <2>2. UNCHANGED <<descs, cells, clients>> /\ conn' = [conn EXCEPT ![c].st = "refused"]
    BY <2>1 DEF Refused, store
  <2>3. \A d \in Conns : conn'[d].unread = conn[d].unread /\ conn'[d].gone = conn[d].gone
    BY <1>t, <2>2 DEF ConnStates
  <2>4. clients'[i] \in Listed
    BY <1>t, <2>2 DEF Listed
  <2> QED
    BY <1>3, <1>4, <2>2, <2>3, <2>4
<1>7. CASE \E c \in Conns, x \in Cells, f \in Fds : Admitted(x, f, c)
  <2>1. PICK c \in Conns, x \in Cells, f \in Fds : Admitted(x, f, c)
    BY <1>7
  <2>2. /\ descs[f] = 0 /\ ~cells[x].live /\ clients' = <<x>> \o clients
        /\ cells' = [cells EXCEPT ![x] = [live |-> TRUE, fd |-> f, name |-> NoName, of |-> c]]
        /\ descs' = [descs EXCEPT ![f] = c] /\ conn' = [conn EXCEPT ![c].st = "accepted"]
    BY <2>1, Zenon DEF Admitted
  <2>3. \A d \in Conns : conn'[d].unread = conn[d].unread /\ conn'[d].gone = conn[d].gone
    BY <1>t, <2>2 DEF ConnStates
  <2>4. cells'[x].fd = f /\ \A y \in Cells : y # x => cells'[y] = cells[y]
    BY <1>t, <2>2
  <2>5. \A g \in Fds : g # f => descs'[g] = descs[g]
    BY <1>t, <2>2
  <2>6. f \notin ready
    BY <1>2, <2>2 DEF Answers
  <2>7. clients'[i] = x \/ clients'[i] \in Listed
    <3>1. x \notin Elements(clients) /\ clients \in Seq(Cells) /\ Distinct(clients)
      BY <1>t, <2>2 DEF ServerInv, ListSound, Listed, Elements
    <3>2. PICK longer : longer = <<x>> \o clients
      OBVIOUS
    <3>3. /\ longer \in Seq(Cells)
          /\ \A y : y \in Elements(longer) <=> y = x \/ y \in Elements(clients)
      BY <3>1, <3>2, PushIs
    <3>4. longer[i] \in Elements(longer)
      BY <2>2, <3>2, <3>3 DEF Elements
    <3> QED
      BY <2>2, <3>2, <3>3, <3>4 DEF Elements, Listed
  <2>8. clients'[i] # x
    BY <2>4, <2>6
  <2>9. clients'[i] \in Listed /\ cells'[clients'[i]] = cells[clients'[i]]
    BY <1>3, <2>4, <2>7, <2>8
  <2>10. cells[clients'[i]].fd \in Fds /\ cells[clients'[i]].fd # f
    BY <1>3, <2>6, <2>9
  <2> QED
    BY <1>4, <2>3, <2>5, <2>9, <2>10
<1> QED
  BY <1>5, <1>6, <1>7, AcceptIs

(* select takes the connections of open descriptors, and returns those     *)
(* whose peers have done something.                                        *)
LEMMA ReadySelect ==
  ASSUME ServerInv, ReadySound, Select \/ SelectReturns
  PROVE  ReadySound'
<1>1. UNCHANGED <<conn, descs, quitted, shutdown_flag>>
  BY DEF Select, SelectReturns, kernel, history
<1>2. CASE Select
  <2>1. at' = "cleanup" \/ (at' = "selecting" /\ watched' = {<<f, descs[f]>> : f \in FdsOf(clients)})
    BY <1>2 DEF Select
  <2>2. ASSUME watched' = {<<f, descs[f]>> : f \in FdsOf(clients)}
        PROVE  \A v \in watched' : descs'[v[1]] = v[2]
    BY <1>1, <2>2
  <2> QED
    BY <2>1, <2>2 DEF ReadySound
<1>3. CASE SelectReturns
  <2>1. /\ at = "selecting" /\ at' = "accept" /\ ready' = Seen
        /\ watched \subseteq Fds \X Conns
    BY <1>3 DEF SelectReturns, Main, ServerInv, TypeOK
  <2> SUFFICES ASSUME ~quitted, ~shutdown_flag, NEW f \in Seen \ {Listener} PROVE Answers(f)'
    BY <1>1, <2>1 DEF ReadySound
  <2>2. PICK v \in watched : Readable(v[2]) /\ f = v[1]
    BY DEF Seen
  <2>3. v[2] \in Conns /\ descs[f] = v[2]
    BY <1>1, <2>1, <2>2 DEF ReadySound
  <2>4. v[2] # 0
    BY <2>3 DEF Conns
  <2> QED
    BY <1>1, <2>2, <2>3, <2>4 DEF Answers, Readable
<1> QED
  BY <1>2, <1>3

(* One client of the scan is read, or removed: the later ones have other   *)
(* descriptors and other connections.                                      *)
LEMMA ReadyReceive ==
  ASSUME ServerInv, ReadySound, Receive
  PROVE  ReadySound'
<1>1. at' = "scan" /\ UNCHANGED <<ready, quitted, shutdown_flag>>
  BY DEF Receive, Main, history
<1>2. PICK k \in 1 .. Len(rest), x \in Listed, f \in Fds, c \in 0 .. MaxConns : Received(k, x, f, c)
  BY ReceiveIs
<1>3. x = rest[k] /\ f = cells[x].fd /\ c = descs[f] /\ rest' = SubSeq(rest, k + 1, Len(rest))
  BY <1>2, Zenon DEF Received
<1>t. /\ rest \in Seq(Cells) /\ conn \in [Conns -> ConnStates] /\ cells \in [Cells -> CellStates]
      /\ descs \in [Fds -> 0 .. MaxConns] /\ Listed \subseteq Cells
  <2>1. TypeOK
    BY DEF ServerInv
  <2>2. rest \in Seq(Cells) /\ descs \in [Fds -> 0 .. MaxConns] /\ clients \in Seq(Cells)
    BY <2>1, Zenon DEF TypeOK
  <2>3. conn \in [Conns -> ConnStates] /\ cells \in [Cells -> CellStates]
    BY <2>1, Zenon DEF TypeOK, ConnStates, CellStates
  <2>4. Listed \subseteq Cells
    BY <2>2 DEF Listed
  <2> QED
    BY <2>2, <2>3, <2>4
<1>s. SUFFICES (~quitted /\ ~shutdown_flag =>
                 \A i \in 1 .. Len(rest) : cells[rest[i]].fd \in ready => Answers(cells[rest[i]].fd))'
  <2>1. at' # "selecting" /\ at' # "accept"
    BY <1>1
  <2> QED
    BY <2>1, Zenon DEF ReadySound
<1> SUFFICES ASSUME ~quitted, ~shutdown_flag, NEW i \in 1 .. Len(rest'), cells'[rest'[i]].fd \in ready
             PROVE  Answers(cells[rest[i]].fd)'
  BY <1>1, <1>s
<1>4. PICK y \in Listed \ {x} : y = rest'[i] /\ \E j \in 1 .. Len(rest) : y = rest[j]
  <2>1. PICK later : later = SubSeq(rest, k + 1, Len(rest))
    OBVIOUS
  <2>2. \A e \in 1 .. Len(later) : later[e] \in Listed /\ later[e] # rest[k]
    BY <2>1, ScanMoves
  <2>3. \A e \in 1 .. Len(later) : \E j \in 1 .. Len(rest) : later[e] = rest[j]
    BY <2>1, ScanKeeps
  <2>4. rest' = later
    BY <1>3, <2>1
  <2>5. i \in 1 .. Len(later) /\ rest'[i] = later[i]
    BY <2>4
  <2>6. later[i] \in Listed \ {x}
    BY <1>3, <2>2, <2>5
  <2> QED
    BY <2>3, <2>5, <2>6
(* What happened to x.                                                     *)
<1>5. \/ UNCHANGED <<cells, descs>>
      \/ /\ \A z \in Cells : z # x => cells'[z] = cells[z]
         /\ descs' = [descs EXCEPT ![f] = 0]
  <2>1. RemoveClient(x) \/ UNCHANGED <<descs, store>>
    BY <1>2, Zenon DEF Received
  <2>2. CASE RemoveClient(x)
    <3>1. descs' = [descs EXCEPT ![f] = 0]
      BY <1>3, <2>2 DEF RemoveClient
    <3>2. \E new : cells' = [cells EXCEPT ![x] = new]
      BY <2>2 DEF RemoveClient, Freed
    <3> QED
      BY <1>t, <3>1, <3>2
  <2> QED
    BY <2>1, <2>2 DEF store
<1>6. conn' = conn \/ (c \in Conns /\ conn' = [conn EXCEPT ![c].unread = << >>])
  <2>1. UNCHANGED conn \/ (c # 0 /\ conn' = [conn EXCEPT ![c].unread = << >>])
    BY <1>2, Zenon DEF Received
  <2> QED
    BY <2>1, ServerAssumption DEF Conns
(* What became of y.                                                       *)
<1>7. PICK g \in Fds : g = cells[y].fd
  BY DEF ServerInv, CellsSound
<1>8. cells'[y] = cells[y]
  BY <1>t, <1>5
<1>9. g # f
  BY <1>3, <1>7 DEF ServerInv, Owned
<1>10. descs'[g] = descs[g]
  BY <1>t, <1>5, <1>9
<1>11. Answers(g)
  <2>1. \A j \in 1 .. Len(rest) : cells[rest[j]].fd \in ready => Answers(cells[rest[j]].fd)
    BY DEF ReadySound, Receive, Main
  <2>2. g \in ready
    BY <1>4, <1>7, <1>8
  <2> QED
    BY <1>4, <1>7, <2>1, <2>2
<1>12. PICK d \in Conns : d = descs[g] /\ Readable(d)
  BY <1>t, <1>11, ServerAssumption DEF Answers, Conns
<1>13. d # c
  <2>1. d = cells[y].of /\ c = cells[x].of
    BY <1>3, <1>7, <1>12 DEF ServerInv, Owned
  <2> QED
    BY <2>1 DEF ServerInv, CellsSound
<1>14. conn'[d] = conn[d]
  BY <1>t, <1>6, <1>13
<1>15. d # 0 /\ Readable(d)'
  BY <1>12, <1>14 DEF Readable, Conns
<1>16. Answers(g)'
  BY <1>10, <1>12, <1>15 DEF Answers
<1> QED
  BY <1>4, <1>7, <1>8, <1>16 DEF Answers

(* The other steps of main leave the loop where nobody is ready, and after *)
(* SIGINT nothing is claimed.                                              *)
LEMMA ReadyLoop ==
  ASSUME ReadySound, ScanDone \/ Broadcast \/ Drained \/ Cleanup \/ JoinWorkers \/ Interrupt
  PROVE  ReadySound'
<1>1. \/ shutdown_flag'
      \/ at' \notin {"selecting", "accept", "scan"}
  BY DEF ScanDone, Broadcast, Drained, Cleanup, JoinWorkers, Interrupt, Main, loop
<1> QED
  BY <1>1 DEF ReadySound

(* Workers write names, and close descriptors only at /quit.               *)
LEMMA ReadyWorkers ==
  ASSUME ServerInv, ReadySound, NEW w \in Workers, WorkerStep(w)
  PROVE  ReadySound'
<1>t. cells \in [Cells -> CellStates]
  BY DEF ServerInv, TypeOK, CellStates
<1>1. CASE QuitChat(w)
  BY <1>1 DEF QuitChat, ReadySound
<1>2. CASE TakeJob(w) \/ FindSender(w) \/ WorkerReturns(w) \/ Talk(w) \/ CheckName(w)
  <2>1. UNCHANGED <<conn, descs, cells, watched, ready, rest, at, quitted, shutdown_flag>>
    BY <1>2 DEF TakeJob, FindSender, WorkerReturns, Talk, CheckName, kernel, store, loop, history
  <2>2. \A c \in Conns : Readable(c) => Readable(c)'
    BY <2>1 DEF Readable
  <2> QED
    BY <2>1, <2>2, ReadyFrame
<1>3. CASE SetName(w)
  <2>1. /\ UNCHANGED <<conn, descs, watched, ready, rest, at, quitted, shutdown_flag>>
        /\ cells' = [cells EXCEPT ![sender[w]].name = Text(w)]
    BY <1>3 DEF SetName, kernel, loop, history
  <2>2. \A c \in Conns : Readable(c) => Readable(c)'
    BY <2>1 DEF Readable
  <2>3. \A x \in Cells : cells'[x].fd = cells[x].fd
    BY <1>t, <2>1 DEF CellStates
  <2> QED
    BY <2>1, <2>2, <2>3, ReadyFrame
<1> QED
  BY <1>1, <1>2, <1>3 DEF WorkerStep

(* The scan comes to no client that recv would wait for, with any number   *)
(* of clients: each has a line or has closed since select looked, though   *)
(* others have come and gone (RecvNeverBlocks).                            *)
THEOREM ServerRecvReturns == Spec => []RecvNeverBlocks
<1>1. Init => ReadySound
  BY DEF Init, ReadySound
<1>2. ASSUME ServerInv, ReadySound, [Next]_vars PROVE ReadySound'
  <2>1. ASSUME NEW c \in Conns, Connect(c) \/ Disconnect(c) \/ \E t \in Names \cup {Quit} : Send(c, t)
        PROVE  ReadySound'
    BY <1>2, <2>1, ReadyPeers
  <2>2. CASE MainStep \/ Interrupt
    BY <1>2, <2>2, ReadySelect, ReadyAccept, ReadyReceive, ReadyLoop DEF MainStep
  <2>3. ASSUME NEW w \in Workers, WorkerStep(w) PROVE ReadySound'
    BY <1>2, <2>3, ReadyWorkers
  <2>4. CASE UNCHANGED vars
    <3>1. UNCHANGED <<conn, descs, cells, watched, ready, rest, at, quitted, shutdown_flag>>
      BY <2>4 DEF vars, kernel, store, loop, history
    <3>2. \A c \in Conns : Readable(c) => Readable(c)'
      BY <3>1 DEF Readable
    <3> QED
      BY <1>2, <3>1, <3>2, ReadyFrame
  <2> QED
    BY <1>2, <2>1, <2>2, <2>3, <2>4 DEF Next, Over
<1>3. ASSUME ServerInv, ReadySound PROVE RecvNeverBlocks
  <2> SUFFICES ASSUME ~quitted, ~shutdown_flag, at = "scan", Unread # {}
               PROVE  Answers(cells[rest[Lowest(Unread)]].fd)
    BY DEF RecvNeverBlocks, WaitsForPeer, Answers
  <2>1. rest \in Seq(Cells)
    BY <1>3 DEF ServerInv, TypeOK
  <2>2. Unread \subseteq 1 .. Len(rest) /\ Unread \subseteq Nat
    BY <2>1 DEF Unread
  <2>3. Lowest(Unread) \in Unread
    BY <2>2, LowestIs
  <2>4. Lowest(Unread) \in 1 .. Len(rest) /\ cells[rest[Lowest(Unread)]].fd \in ready
    BY <2>2, <2>3 DEF Unread
  <2> QED
    BY <1>3, <2>4 DEF ReadySound
<1>4. ServerInv /\ ReadySound /\ [Next]_vars => ReadySound'
  BY <1>2
<1>5. ServerInv /\ ReadySound => RecvNeverBlocks
  BY <1>3
<1> QED
  BY <1>1, <1>4, <1>5, ServerInvariant, PTL DEF Spec
=============================================================================
