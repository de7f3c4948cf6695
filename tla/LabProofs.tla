------------------------------ MODULE LabProofs ------------------------------
(***************************************************************************)
(* Safety of the lab servers: the Fibonacci server of lab4, the route      *)
(* guide of lab8 and the message board of lab3, for all their parameters.  *)
(***************************************************************************)
EXTENDS FibServer, RouteGuide, MessageBoard, SequenceTheorems, FiniteSetTheorems, WellFoundedInduction, TLAPS

-----------------------------------------------------------------------------
(* What the proofs need of the parameters of FibServer.                    *)
LEMMA FibConstants == num_threads \in Nat \ {0} /\ MaxN \in Nat
  BY FibAssumption DEF LineLimit, TextLimit

(* A set of numbers has a least one.                                       *)
LEMMA LeastElement ==
  ASSUME NEW T, T \subseteq Nat, T # {}
  PROVE  \E x \in T : \A y \in T : x <= y
<1> DEFINE R == OpToRel(<, Nat)
<1>1. IsWellFoundedOn(R, Nat)
  BY NatLessThanWellFounded
<1>2. \A x, y \in Nat : y < x => <<y, x>> \in R
  BY DEF OpToRel
<1> HIDE DEF R
<1>3. PICK x \in T : \A y \in T : ~ (<<y, x>> \in R)
  BY <1>1, WFMin
<1>4. \A y \in T : ~(y < x)
  BY <1>2, <1>3, Zenon
<1> QED
  BY <1>4

-----------------------------------------------------------------------------
(***************************************************************************)
(* The ranges of FibServer partition 1..N for every N, every number of     *)
(* threads and any number of clients.                                      *)
(***************************************************************************)
(* Types of what the split works on; the sums play no part in it.          *)
FibTypes ==
  /\ client \in [Clients -> {"connecting", "connected", "sent", "gone"}]
  /\ request \in [Clients -> 0 .. MaxN]
  /\ handler \in [Clients -> {"none", "reading", "splitting", "answered", "closed"}]
  /\ N \in [Clients -> Nat]
  /\ current_start \in [Clients -> Nat]
  /\ made \in [Clients -> 0 .. num_threads]
  /\ start \in [Clients -> [Workers -> Int]]
  /\ end \in [Clients -> [Workers -> Int]]

(* Extra numbers that went to the first k threads when r are left over.    *)
Extra(k, r) == IF k <= r THEN k ELSE r

(* What the loop knows after some turns: where the next range starts, and  *)
(* that those handed out are next to one another and end before it.        *)
SplitSound(c) ==
  /\ client[c] = "connecting" => handler[c] = "none"
  /\ handler[c] \in {"none", "reading"} => made[c] = 0
  /\ current_start[c] =
       made[c] * (N[c] \div num_threads) + Extra(made[c], (N[c] % num_threads)) + 1
  /\ UNION {Numbers(c, i) : i \in 1 .. made[c]} = 1 .. current_start[c] - 1
  /\ \A i, j \in 1 .. made[c] : i # j => Numbers(c, i) \cap Numbers(c, j) = {}

FibInv == FibTypes /\ \A c \in Clients : SplitSound(c)

-----------------------------------------------------------------------------
(* Dividing n among the threads leaves less than one number for each.      *)
LEMMA Division ==
  ASSUME NEW n \in Nat
  PROVE  /\ n \div num_threads \in Nat
         /\ (n % num_threads) \in 0 .. num_threads - 1
         /\ n = num_threads * (n \div num_threads) + (n % num_threads)
  BY FibConstants, SMTT(30)

(* What a thread gets is a natural number. *)
LEMMA ShareNat ==
  ASSUME NEW n \in Nat, NEW k \in Nat
  PROVE  Share(n, k) \in Nat
  BY Division, FibConstants DEF Share

(* One more thread takes the quotient, and one of the remainder if any is  *)
(* left.                                                                   *)
LEMMA NextStart ==
  ASSUME NEW n \in Nat, NEW k \in 0 .. num_threads - 1
  PROVE  k * (n \div num_threads) + Extra(k, (n % num_threads)) + 1 + Share(n, k + 1)
           = (k + 1) * (n \div num_threads) + Extra(k + 1, (n % num_threads)) + 1
  <1> DEFINE q == n \div num_threads
             r == n % num_threads
  <1>1. q \in Nat /\ r \in 0 .. num_threads - 1
    BY Division
  <1>2. num_threads \in Nat /\ k \in Nat
    BY FibConstants
  <1> HIDE DEF q, r
  <1>3. (k + 1) * q = k * q + q
    BY <1>1, <1>2
  <1>4. k * q \in Nat
    BY <1>1, <1>2
  <1>5. k * q + Extra(k, r) + 1 + (q + (IF k + 1 <= r THEN 1 ELSE 0)) = (k + 1) * q + Extra(k + 1, r) + 1
    BY <1>1, <1>2, <1>3, <1>4 DEF Extra
  <1> QED
    BY <1>5 DEF q, r, Share

(* Before the first turn nothing has been handed out.                      *)
LEMMA NoTurn ==
  ASSUME NEW n \in Nat
  PROVE  0 * (n \div num_threads) + Extra(0, (n % num_threads)) + 1 = 1
  <1>1. n \div num_threads \in Nat /\ (n % num_threads) \in 0 .. num_threads - 1
    BY Division
  <1>2. 0 * (n \div num_threads) = 0
    BY <1>1
  <1>3. Extra(0, (n % num_threads)) = 0
    BY <1>1, FibConstants DEF Extra
  <1> QED
    BY <1>2, <1>3
-----------------------------------------------------------------------------
(* Every step keeps the types. *)
LEMMA TypesKept == FibTypes /\ [FibNext]_fib_vars => FibTypes'
  <1> SUFFICES ASSUME FibTypes, [FibNext]_fib_vars
               PROVE  FibTypes'
    OBVIOUS
  <1> USE FibConstants DEF FibTypes, Workers
  <1>1. ASSUME NEW c \in Clients, NEW n \in 0 .. MaxN, ClientSendsN(c, n)
        PROVE  FibTypes'
    BY <1>1 DEF ClientSendsN, Threads, split, fib_data
  <1>2. ASSUME NEW c \in Clients, ClientQuits(c)
        PROVE  FibTypes'
    BY <1>2 DEF ClientQuits, Threads, split, fib_data
  <1>3. ASSUME NEW c \in Clients, AcceptClient(c)
        PROVE  FibTypes'
    BY <1>3 DEF AcceptClient, split, fib_data
  <1>4. ASSUME NEW c \in Clients, ReadN(c)
        PROVE  FibTypes'
    <2>1. CASE /\ request[c] > 0 /\ N' = [N EXCEPT ![c] = request[c]]
               /\ handler' = [handler EXCEPT ![c] = "splitting"]
      <3>1. request[c] \in Nat
        OBVIOUS
      <3> QED
        BY <1>4, <2>1, <3>1 DEF ReadN, clients, fib_data
    <2>2. CASE N' = N /\ handler' = [handler EXCEPT ![c] = "closed"]
      BY <1>4, <2>2 DEF ReadN, clients, fib_data
    <2> QED
      BY <1>4, <2>1, <2>2 DEF ReadN
  <1>5. ASSUME NEW c \in Clients, CreateWorker(c)
        PROVE  FibTypes'
    <2> DEFINE next == current_start[c] + Share(N[c], made[c] + 1)
    <2>1. made[c] + 1 \in Workers /\ N[c] \in Nat /\ current_start[c] \in Nat
      BY <1>5 DEF CreateWorker
    <2>2. next \in Nat
      <3>1. made[c] + 1 \in Nat
        BY <2>1
      <3>2. Share(N[c], made[c] + 1) \in Nat
        BY <2>1, <3>1, ShareNat
      <3> HIDE FibConstants DEF FibTypes, Workers
      <3> QED
        BY <2>1, <3>2
    <2>3. /\ start' = [start EXCEPT ![c][made[c] + 1] = current_start[c]]
          /\ end' = [end EXCEPT ![c][made[c] + 1] = next - 1]
          /\ current_start' = [current_start EXCEPT ![c] = next]
          /\ made' = [made EXCEPT ![c] = made[c] + 1]
          /\ UNCHANGED <<client, request, handler, N>>
      BY <1>5 DEF CreateWorker, clients
    <2>a. /\ start \in [Clients -> [Workers -> Int]] /\ end \in [Clients -> [Workers -> Int]]
          /\ current_start \in [Clients -> Nat]
      OBVIOUS
    <2> HIDE DEF next
    <2>4. start' \in [Clients -> [Workers -> Int]]
      <3> HIDE FibConstants DEF FibTypes, Workers
      <3>1. current_start[c] \in Int
        BY <2>1
      <3> QED
        BY <2>1, <2>3, <2>a, <3>1
    <2>5. end' \in [Clients -> [Workers -> Int]]
      <3> HIDE FibConstants DEF FibTypes, Workers
      <3>1. next - 1 \in Int
        BY <2>2
      <3> QED
        BY <2>1, <2>3, <2>a, <3>1
    <2>6. current_start' \in [Clients -> Nat]
      <3> HIDE FibConstants DEF FibTypes, Workers
      <3> QED
        BY <2>2, <2>3, <2>a
    <2>7. made' \in [Clients -> 0 .. num_threads]
      BY <2>1, <2>3
    <2> QED
      BY <2>3, <2>4, <2>5, <2>6, <2>7
  <1>6. ASSUME NEW c \in Clients, Join(c)
        PROVE  FibTypes'
    BY <1>6 DEF Join, clients, split, fib_data
  <1>7. ASSUME NEW c \in Clients, Answer(c)
        PROVE  FibTypes'
    BY <1>7 DEF Answer, clients, split, fib_data
  <1>8. ASSUME NEW c \in Clients, NEW i \in Workers, Work(c, i)
        PROVE  FibTypes'
    BY <1>8 DEF Work, clients, split, fib_data
  <1>9. CASE UNCHANGED fib_vars
    BY <1>9 DEF fib_vars, clients, split, fib_data
  <1> QED
    BY <1>1, <1>2, <1>3, <1>4, <1>5, <1>6, <1>7, <1>8, <1>9 DEF FibNext, Handle

(* A turn of the loop hands out the numbers right after those before.      *)
LEMMA TurnKeeps ==
  ASSUME FibTypes, NEW c \in Clients, SplitSound(c), CreateWorker(c)
  PROVE  SplitSound(c)'
  <1>1. /\ made[c] \in 0 .. num_threads - 1 /\ made[c] + 1 \in Workers
        /\ N[c] \in Nat /\ current_start[c] \in Nat
    BY FibConstants DEF CreateWorker, FibTypes, Workers
  <1> PICK k \in 0 .. num_threads - 1, n \in Nat, first \in Nat :
           k = made[c] /\ n = N[c] /\ first = current_start[c] /\ k + 1 \in Workers
    BY <1>1
  <1>1a. Share(n, k + 1) \in Nat
    <2>1. k + 1 \in Nat
      BY FibConstants
    <2> QED
      BY <2>1, ShareNat
  <1> PICK next \in Nat : next = first + Share(n, k + 1)
    BY <1>1a
  <1>2. /\ made'[c] = k + 1 /\ current_start'[c] = next /\ N'[c] = n
        /\ client'[c] = client[c] /\ handler'[c] = "splitting"
    BY DEF CreateWorker, FibTypes, clients
  <1>3. first <= next
    BY <1>1a
  <1>4. start'[c][k + 1] = first /\ end'[c][k + 1] = next - 1
    BY <1>1 DEF CreateWorker, FibTypes
  <1>5. \A i \in 1 .. k : start'[c][i] = start[c][i] /\ end'[c][i] = end[c][i]
    BY <1>1 DEF CreateWorker, FibTypes, Workers
  <1>6. Numbers(c, k + 1)' = first .. next - 1
    BY <1>4 DEF Numbers
  <1>7. \A i \in 1 .. k : Numbers(c, i)' = Numbers(c, i)
    BY <1>5 DEF Numbers
  <1>8. UNION {Numbers(c, i) : i \in 1 .. k} = 1 .. first - 1
    BY DEF SplitSound
  <1>9. next = (k + 1) * (n \div num_threads) + Extra(k + 1, (n % num_threads)) + 1
    BY <1>1, NextStart DEF SplitSound
  <1>10. first >= 1
    <2>1. k * (n \div num_threads) \in Nat
      BY <1>1, Division
    <2>2. Extra(k, (n % num_threads)) \in Nat
      BY <1>1, Division, FibConstants DEF Extra
    <2> QED
      BY <2>1, <2>2 DEF SplitSound
  <1>11. \A i, j \in 1 .. k : i # j => Numbers(c, i) \cap Numbers(c, j) = {}
    BY DEF SplitSound
  <1>12. 1 .. k + 1 = (1 .. k) \cup {k + 1}
    BY <1>1
  <1>13. UNION {Numbers(c, i)' : i \in 1 .. k + 1} = 1 .. next - 1
    <2>1. UNION {Numbers(c, i)' : i \in 1 .. k + 1} = (1 .. first - 1) \cup (first .. next - 1)
      <3>1. ASSUME NEW x \in UNION {Numbers(c, i)' : i \in 1 .. k + 1}
            PROVE  x \in 1 .. first - 1 \/ x \in first .. next - 1
        <4>1. PICK i \in 1 .. k + 1 : x \in Numbers(c, i)'
          OBVIOUS
        <4>2. CASE i = k + 1
          BY <1>6, <4>1, <4>2
        <4>3. CASE i \in 1 .. k
          <5>1. x \in Numbers(c, i)
            BY <1>7, <4>1, <4>3
          <5> QED
            BY <1>8, <4>3, <5>1
        <4> QED
          BY <1>12, <4>2, <4>3
      <3>2. ASSUME NEW x \in 1 .. first - 1
            PROVE  x \in UNION {Numbers(c, i)' : i \in 1 .. k + 1}
        <4>1. PICK i \in 1 .. k : x \in Numbers(c, i)
          BY <1>8
        <4>2. i \in 1 .. k + 1 /\ x \in Numbers(c, i)'
          BY <1>7, <1>12, <4>1
        <4> QED
          BY <4>2
      <3>3. ASSUME NEW x \in first .. next - 1
            PROVE  x \in UNION {Numbers(c, i)' : i \in 1 .. k + 1}
        <4>1. k + 1 \in 1 .. k + 1 /\ x \in Numbers(c, k + 1)'
          BY <1>6, <1>12, <3>3
        <4> QED
          BY <4>1
      <3> QED
        BY <3>1, <3>2, <3>3
    <2>2. (1 .. first - 1) \cup (first .. next - 1) = 1 .. next - 1
      BY <1>1, <1>3, <1>10
    <2> QED
      BY <2>1, <2>2
  <1>14. ASSUME NEW i \in 1 .. k + 1, NEW j \in 1 .. k + 1, i # j
         PROVE  Numbers(c, i)' \cap Numbers(c, j)' = {}
    <2>1. \A l \in 1 .. k : Numbers(c, l) \cap (first .. next - 1) = {}
      <3>1. \A l \in 1 .. k : Numbers(c, l) \subseteq 1 .. first - 1
        BY <1>8
      <3>2. (1 .. first - 1) \cap (first .. next - 1) = {}
        BY <1>1, <1>3
      <3> QED
        BY <3>1, <3>2
    <2>2. CASE i \in 1 .. k /\ j \in 1 .. k
      BY <2>2, <1>7, <1>11, <1>14
    <2>3. CASE i = k + 1 /\ j \in 1 .. k
      <3>1. Numbers(c, i)' = first .. next - 1 /\ Numbers(c, j)' = Numbers(c, j)
        BY <1>6, <1>7, <2>3
      <3> QED
        BY <2>1, <2>3, <3>1
    <2>4. CASE j = k + 1 /\ i \in 1 .. k
      <3>1. Numbers(c, j)' = first .. next - 1 /\ Numbers(c, i)' = Numbers(c, i)
        BY <1>6, <1>7, <2>4
      <3> QED
        BY <2>1, <2>4, <3>1
    <2> QED
      BY <1>12, <1>14, <2>2, <2>3, <2>4
  <1> QED
    <2>1. client[c] # "connecting"
      BY DEF CreateWorker, SplitSound
    <2> QED
      BY <2>1, <1>2, <1>9, <1>13, <1>14 DEF SplitSound

(* A step that leaves the split of a client alone keeps what it knows.     *)
LEMMA SplitAlone ==
  ASSUME FibTypes, NEW c \in Clients, SplitSound(c),
         made'[c] = made[c], current_start'[c] = current_start[c], N'[c] = N[c],
         start'[c] = start[c], end'[c] = end[c],
         client'[c] = "connecting" => handler'[c] = "none",
         handler'[c] \in {"none", "reading"} => made'[c] = 0
  PROVE  SplitSound(c)'
  <1>1. \A i : Numbers(c, i)' = Numbers(c, i)
    BY DEF Numbers
  <1> QED
    BY <1>1 DEF SplitSound

(* The invariant is kept: CreateWorker moves a split on, ReadN sets its    *)
(* number before the first turn, the other steps leave splits alone.       *)
LEMMA SplitKept == FibInv /\ [FibNext]_fib_vars => FibInv'
  <1> SUFFICES ASSUME FibInv, [FibNext]_fib_vars
               PROVE  FibInv'
    OBVIOUS
  <1>1. FibTypes /\ FibTypes'
    BY TypesKept DEF FibInv
  <1>2. ASSUME NEW c \in Clients
        PROVE  SplitSound(c)'
    <2>1. SplitSound(c)
      BY DEF FibInv
    <2>2. ASSUME NEW d \in Clients, CreateWorker(d)
          PROVE  SplitSound(c)'
      <3>1. CASE d = c
        BY <3>1, <1>1, <2>1, <2>2, TurnKeeps
      <3>2. CASE d # c
        <4>1. /\ made'[c] = made[c] /\ current_start'[c] = current_start[c] /\ N'[c] = N[c]
              /\ start'[c] = start[c] /\ end'[c] = end[c]
              /\ client'[c] = client[c] /\ handler'[c] = handler[c]
          BY <1>1, <2>2, <3>2 DEF CreateWorker, FibTypes, clients
        <4> QED
          BY <4>1, <1>1, <2>1, SplitAlone DEF SplitSound
      <3> QED
        BY <3>1, <3>2
    <2>3. ASSUME NEW d \in Clients, ReadN(d)
          PROVE  SplitSound(c)'
      <3>1. UNCHANGED <<client, made, current_start, start, end>>
        BY <2>3 DEF ReadN, clients, fib_data
      <3>2. CASE d # c
        <4>1. N'[c] = N[c] /\ handler'[c] = handler[c]
          BY <1>1, <2>3, <3>2 DEF ReadN, FibTypes
        <4> QED
          BY <3>1, <4>1, <1>1, <2>1, SplitAlone DEF SplitSound
      <3>3. CASE d = c
        <4>1. made[c] = 0 /\ client[c] # "connecting"
          BY <2>1, <2>3, <3>3 DEF ReadN, SplitSound
        <4>2. N[c] \in Nat /\ N'[c] \in Nat
          BY <1>1 DEF FibTypes
        <4>3. current_start[c] = 1
          BY <2>1, <4>1, <4>2, NoTurn DEF SplitSound
        <4>4. current_start'[c] = made'[c] * (N'[c] \div num_threads)
                                  + Extra(made'[c], (N'[c] % num_threads)) + 1
          BY <3>1, <4>1, <4>2, <4>3, NoTurn
        <4>5. \A i : Numbers(c, i)' = Numbers(c, i)
          BY <3>1 DEF Numbers
        <4> QED
          BY <2>1, <3>1, <4>1, <4>4, <4>5 DEF SplitSound
      <3> QED
        BY <3>2, <3>3
    <2>4. ASSUME UNCHANGED <<made, current_start, N, start, end>>,
                 client'[c] = "connecting" => handler'[c] = "none",
                 handler'[c] \in {"none", "reading"} => made'[c] = 0
          PROVE  SplitSound(c)'
      BY <1>1, <2>1, <2>4, SplitAlone
    <2>5. ASSUME NEW d \in Clients,
                 \/ \E n \in 0 .. MaxN : ClientSendsN(d, n)
                 \/ ClientQuits(d) \/ AcceptClient(d) \/ Join(d) \/ Answer(d)
                 \/ \E i \in Workers : Work(d, i)
          PROVE  SplitSound(c)'
      <3>1. UNCHANGED <<made, current_start, N, start, end>>
        BY <2>5 DEF ClientSendsN, ClientQuits, AcceptClient, Join, Answer, Work, Threads, split, fib_data
      <3>2. /\ client'[c] = "connecting" => handler'[c] = "none"
            /\ handler'[c] \in {"none", "reading"} => made[c] = 0
        <4>1. CASE c # d
          <5>1. client'[c] = client[c] /\ handler'[c] = handler[c]
            BY <1>1, <2>5, <4>1 DEF ClientSendsN, ClientQuits, AcceptClient, Join, Answer, Work,
                                    clients, Threads, FibTypes
          <5> QED
            BY <5>1, <2>1 DEF SplitSound
        <4>2. CASE c = d
          BY <1>1, <2>1, <2>5, <4>2 DEF ClientSendsN, ClientQuits, AcceptClient, Join, Answer, Work,
                                        clients, Threads, FibTypes, SplitSound
        <4> QED
          BY <4>1, <4>2
      <3> QED
        BY <2>4, <3>1, <3>2
    <2>6. CASE UNCHANGED fib_vars
      BY <2>1, <2>4, <2>6 DEF fib_vars, clients, split, fib_data, SplitSound
    <2> QED
      BY <2>2, <2>3, <2>5, <2>6 DEF FibNext, Handle
  <1> QED
    BY <1>1, <1>2 DEF FibInv

(* After the last turn the next range would start right after N.           *)
LEMMA SplitEnds ==
  ASSUME NEW c \in Clients, N[c] \in Nat, SplitSound(c), made[c] = num_threads
  PROVE  current_start[c] = N[c] + 1
  <1>1. PICK n \in Nat : n = N[c]
    OBVIOUS
  <1>2. Extra(num_threads, (n % num_threads)) = n % num_threads
    BY Division, FibConstants DEF Extra
  <1> QED
    BY <1>1, <1>2, Division DEF SplitSound

LEMMA SplitComplete == FibInv => RangesPartition
  <1> SUFFICES ASSUME FibInv, NEW c \in Clients, made[c] = num_threads
               PROVE  /\ UNION {Numbers(c, i) : i \in Workers} = 1 .. N[c]
                      /\ \A i, j \in Workers :
                           i # j => Numbers(c, i) \cap Numbers(c, j) = {}
    BY DEF RangesPartition
  <1>1. N[c] \in Nat /\ SplitSound(c)
    BY DEF FibInv, FibTypes
  <1>2. current_start[c] - 1 = N[c]
    BY <1>1, SplitEnds
  <1> QED
    BY <1>1, <1>2 DEF SplitSound, Workers

LEMMA SplitInit == FibInit => FibInv
  <1> SUFFICES ASSUME FibInit
               PROVE  FibInv
    OBVIOUS
  <1>1. FibTypes
    BY FibConstants DEF FibInit, FibTypes, Workers
  <1>2. \A c \in Clients : SplitSound(c)
    <2> TAKE c \in Clients
    <2>1. made[c] = 0 /\ current_start[c] = 1 /\ N[c] = 0 /\ handler[c] = "none"
      BY DEF FibInit
    <2> QED
      BY <2>1, NoTurn DEF SplitSound
  <1> QED
    BY <1>1, <1>2 DEF FibInv

(* For any number of threads, of clients and any numbers they ask for, the *)
(* ranges of a client's threads partition 1..N once all are made.          *)
THEOREM FibRanges == FibSpec => []RangesPartition
  BY SplitInit, SplitKept, SplitComplete, PTL DEF FibSpec

-----------------------------------------------------------------------------
(***************************************************************************)
(* The sums of FibServer.  fib is a function because the values up to n    *)
(* determine the next; the sum of a range is a difference of two of its    *)
(* values, and since ranges are next to one another the total of those     *)
(* joined is the difference to where the next one starts.                  *)
(***************************************************************************)
IsFib(f, n) == f = [i \in 0 .. n |-> IF i <= 2 THEN 1 ELSE f[i - 1] + f[i - 2]]

LEMMA FibUnique ==
  ASSUME NEW m \in Nat, NEW n \in Nat, NEW f, NEW g, IsFib(f, m), IsFib(g, n), NEW k \in Nat, k <= m, k <= n
  PROVE  f[k] = g[k]
<1> SUFFICES ASSUME f[k] # g[k] PROVE FALSE
  OBVIOUS
<1>1. PICK T : T = {i \in 0 .. k : f[i] # g[i]}
  OBVIOUS
<1>2. PICK i \in T : \A y \in T : i <= y
  <2>1. T \subseteq Nat /\ k \in T
    BY <1>1
  <2> QED
    BY <2>1, LeastElement
<1>3. i \in 0 .. k /\ f[i] # g[i]
  BY <1>1
<1>4. /\ f[i] = IF i <= 2 THEN 1 ELSE f[i - 1] + f[i - 2]
      /\ g[i] = IF i <= 2 THEN 1 ELSE g[i - 1] + g[i - 2]
  <2>1. i \in 0 .. m /\ i \in 0 .. n
    BY <1>3
  <2>2. f[i] = IF i <= 2 THEN 1 ELSE f[i - 1] + f[i - 2]
    BY <2>1, Zenon DEF IsFib
  <2>3. g[i] = IF i <= 2 THEN 1 ELSE g[i - 1] + g[i - 2]
    BY <2>1, Zenon DEF IsFib
  <2> QED
    BY <2>2, <2>3
<1>5. CASE i <= 2
  BY <1>3, <1>4, <1>5
<1>6. CASE i > 2
  <2>1. i - 1 \in 0 .. k /\ i - 2 \in 0 .. k /\ i - 1 \notin T /\ i - 2 \notin T
    BY <1>2, <1>3, <1>6
  <2>2. f[i - 1] = g[i - 1] /\ f[i - 2] = g[i - 2]
    BY <1>1, <2>1
  <2> QED
    BY <1>3, <1>4, <1>6, <2>2
<1> QED
  BY <1>3, <1>5, <1>6

LEMMA FibUpTo ==
  ASSUME NEW n \in Nat
  PROVE  \E f : IsFib(f, n)
<1> SUFFICES ASSUME ~ \E f : IsFib(f, n) PROVE FALSE
  OBVIOUS
<1>1. PICK T : T = {m \in Nat : ~ \E f : IsFib(f, m)}
  OBVIOUS
<1>2. PICK m \in T : \A y \in T : m <= y
  BY <1>1, LeastElement
<1>3. m \in Nat /\ ~ \E f : IsFib(f, m)
  BY <1>1
<1>4. CASE m = 0
  <2>1. IsFib([i \in 0 .. 0 |-> 1], 0)
    BY DEF IsFib
  <2> QED
    BY <1>3, <1>4, <2>1
<1>5. CASE m # 0
  <2>1. m - 1 \in Nat /\ m - 1 \notin T
    BY <1>2, <1>3, <1>5
  <2>2. PICK f : IsFib(f, m - 1)
    BY <1>1, <2>1
  <2>3. PICK g : g = [i \in 0 .. m |-> IF i = m THEN IF m <= 2 THEN 1 ELSE f[m - 1] + f[m - 2] ELSE f[i]]
    OBVIOUS
  <2>4. \A i \in 0 .. m - 1 : g[i] = f[i] /\ f[i] = IF i <= 2 THEN 1 ELSE f[i - 1] + f[i - 2]
    BY <1>3, <2>2, <2>3 DEF IsFib
  <2>5. \A i \in 0 .. m : g[i] = IF i <= 2 THEN 1 ELSE g[i - 1] + g[i - 2]
    <3> SUFFICES ASSUME NEW i \in 0 .. m
                 PROVE  g[i] = IF i <= 2 THEN 1 ELSE g[i - 1] + g[i - 2]
      OBVIOUS
    <3>1. i > 2 => i - 1 \in 0 .. m - 1 /\ i - 2 \in 0 .. m - 1
      BY <1>3
    <3>2. i > 2 => g[i - 1] = f[i - 1] /\ g[i - 2] = f[i - 2]
      BY <2>4, <3>1
    <3>3. CASE i = m
      <4>1. g[m] = IF m <= 2 THEN 1 ELSE f[m - 1] + f[m - 2]
        BY <1>3, <2>3
      <4> QED
        BY <1>3, <3>2, <3>3, <4>1
    <3>4. CASE i # m
      <4>1. i \in 0 .. m - 1
        BY <1>3, <3>4
      <4> QED
        BY <2>4, <3>2, <4>1
    <3> QED
      BY <3>3, <3>4
  <2>6. DOMAIN g = 0 .. m /\ g = [i \in DOMAIN g |-> g[i]]
    BY <2>3
  <2>7. IsFib(g, m)
    BY <2>5, <2>6 DEF IsFib
  <2> QED
    BY <1>3, <2>7
<1> QED
  BY <1>4, <1>5

LEMMA FibIs == fib = [n \in Nat |-> IF n <= 2 THEN 1 ELSE fib[n - 1] + fib[n - 2]]
<1>1. PICK upto : upto = [n \in Nat |-> CHOOSE f : IsFib(f, n)]
  OBVIOUS
<1>2. \A n \in Nat : IsFib(upto[n], n)
  BY <1>1, FibUpTo
<1>3. PICK all : all = [n \in Nat |-> upto[n][n]]
  OBVIOUS
<1>4. ASSUME NEW n \in Nat PROVE all[n] = IF n <= 2 THEN 1 ELSE all[n - 1] + all[n - 2]
  <2>1. all[n] = IF n <= 2 THEN 1 ELSE upto[n][n - 1] + upto[n][n - 2]
    <3>1. IsFib(upto[n], n) /\ all[n] = upto[n][n] /\ n \in 0 .. n
      BY <1>2, <1>3
    <3> QED
      BY <3>1 DEF IsFib
  <2>2. n > 2 => upto[n][n - 1] = all[n - 1] /\ upto[n][n - 2] = all[n - 2]
    <3> SUFFICES ASSUME n > 2 PROVE upto[n][n - 1] = all[n - 1] /\ upto[n][n - 2] = all[n - 2]
      OBVIOUS
    <3>1. n - 1 \in Nat /\ n - 2 \in Nat /\ n - 1 <= n /\ n - 2 <= n
      OBVIOUS
    <3>2. upto[n][n - 1] = upto[n - 1][n - 1]
      BY <1>2, <3>1, FibUnique
    <3>3. upto[n][n - 2] = upto[n - 2][n - 2]
      BY <1>2, <3>1, FibUnique
    <3> QED
      BY <1>3, <3>1, <3>2, <3>3
  <2> QED
    BY <2>1, <2>2
<1>5. all = [n \in Nat |-> IF n <= 2 THEN 1 ELSE all[n - 1] + all[n - 2]]
  BY <1>3, <1>4
<1> QED
  BY <1>5 DEF fib

LEMMA FibNumber ==
  ASSUME NEW n \in Nat
  PROVE  fib[n] \in Nat /\ fib[n] = IF n <= 2 THEN 1 ELSE fib[n - 1] + fib[n - 2]
<1>1. \A m \in Nat : fib[m] = IF m <= 2 THEN 1 ELSE fib[m - 1] + fib[m - 2]
  BY FibIs
<1>2. PICK T : T = {m \in Nat : fib[m] \notin Nat}
  OBVIOUS
<1>3. T = {}
  <2> SUFFICES ASSUME T # {} PROVE FALSE
    OBVIOUS
  <2>1. PICK m \in T : \A y \in T : m <= y
    BY <1>2, LeastElement
  <2>2. m \in Nat /\ fib[m] \notin Nat
    BY <1>2
  <2>3. m > 2
    BY <1>1, <2>2
  <2>4. m - 1 \in Nat /\ m - 2 \in Nat /\ m - 1 \notin T /\ m - 2 \notin T
    BY <2>1, <2>2, <2>3
  <2>5. fib[m - 1] \in Nat /\ fib[m - 2] \in Nat
    BY <1>2, <2>4
  <2> QED
    BY <1>1, <2>2, <2>3, <2>5
<1> QED
  BY <1>1, <1>2, <1>3

(* The loop of worker_thread: its function exists, and telescopes.         *)
IsTotal(f, first, last) ==
  f = [n \in first - 1 .. last |-> IF n = first - 1 THEN 0 ELSE f[n - 1] + fib[n]]

LEMMA TotalExists ==
  ASSUME NEW first \in Nat, NEW last \in Int, first > 0, last >= first - 1
  PROVE  \E f : IsTotal(f, first, last)
<1> SUFFICES ASSUME ~ \E f : IsTotal(f, first, last) PROVE FALSE
  OBVIOUS
<1>1. PICK T : T = {m \in Nat : m >= first - 1 /\ ~ \E f : IsTotal(f, first, m)}
  OBVIOUS
<1>2. PICK m \in T : \A y \in T : m <= y
  <2>1. T \subseteq Nat /\ last \in T
    BY <1>1
  <2> QED
    BY <2>1, LeastElement
<1>3. m \in Nat /\ m >= first - 1 /\ ~ \E f : IsTotal(f, first, m)
  BY <1>1
<1>4. CASE m = first - 1
  <2>1. IsTotal([n \in first - 1 .. m |-> 0], first, m)
    BY <1>4 DEF IsTotal
  <2> QED
    BY <1>3, <2>1
<1>5. CASE m # first - 1
  <2>1. m - 1 \in Nat /\ m - 1 >= first - 1 /\ m - 1 \notin T
    BY <1>2, <1>3, <1>5
  <2>2. PICK f : IsTotal(f, first, m - 1)
    BY <1>1, <2>1
  <2>3. PICK g : g = [n \in first - 1 .. m |-> IF n = m THEN f[m - 1] + fib[m] ELSE f[n]]
    OBVIOUS
  <2>4. \A n \in first - 1 .. m - 1 : g[n] = f[n] /\ f[n] = IF n = first - 1 THEN 0 ELSE f[n - 1] + fib[n]
    BY <1>3, <2>2, <2>3 DEF IsTotal
  <2>5. \A n \in first - 1 .. m : g[n] = IF n = first - 1 THEN 0 ELSE g[n - 1] + fib[n]
    <3> SUFFICES ASSUME NEW n \in first - 1 .. m
                 PROVE  g[n] = IF n = first - 1 THEN 0 ELSE g[n - 1] + fib[n]
      OBVIOUS
    <3>1. CASE n = m
      <4>1. m - 1 \in first - 1 .. m - 1 /\ m \in first - 1 .. m
        BY <1>3, <1>5, <2>1
      <4>2. g[m - 1] = f[m - 1] /\ g[m] = f[m - 1] + fib[m]
        BY <2>3, <2>4, <4>1
      <4> QED
        BY <1>5, <3>1, <4>2
    <3>2. CASE n # m
      <4>1. n \in first - 1 .. m - 1 /\ (n # first - 1 => n - 1 \in first - 1 .. m - 1)
        BY <1>3, <3>2
      <4> QED
        BY <2>4, <4>1
    <3> QED
      BY <3>1, <3>2
  <2>6. DOMAIN g = first - 1 .. m /\ g = [n \in DOMAIN g |-> g[n]]
    BY <2>3
  <2>7. IsTotal(g, first, m)
    BY <2>5, <2>6 DEF IsTotal
  <2> QED
    BY <1>3, <2>7
<1> QED
  BY <1>4, <1>5

LEMMA RangeSumIs ==
  ASSUME NEW first \in Nat, NEW last \in Int, first > 0, last >= first - 1
  PROVE  RangeSum(first, last) = fib[last + 2] - fib[first + 1]
<1>1. PICK f : f = CHOOSE g : IsTotal(g, first, last)
  OBVIOUS
<1>2. IsTotal(f, first, last)
  BY <1>1, TotalExists
<1>3. RangeSum(first, last) = f[last]
  BY <1>1 DEF RangeSum, IsTotal
<1>4. \A n \in first - 1 .. last : f[n] = IF n = first - 1 THEN 0 ELSE f[n - 1] + fib[n]
  BY <1>2 DEF IsTotal
<1>5. PICK T : T = {n \in first - 1 .. last : f[n] # fib[n + 2] - fib[first + 1]}
  OBVIOUS
<1>6. T = {}
  <2> SUFFICES ASSUME T # {} PROVE FALSE
    OBVIOUS
  <2>1. PICK n \in T : \A y \in T : n <= y
    <3>1. T \subseteq Nat
      BY <1>5
    <3> QED
      BY <3>1, LeastElement
  <2>2. n \in first - 1 .. last /\ f[n] # fib[n + 2] - fib[first + 1]
    BY <1>5
  <2>3. CASE n = first - 1
    <3>1. n + 2 = first + 1 /\ first + 1 \in Nat
      BY <2>3
    <3>2. fib[first + 1] \in Nat /\ f[n] = 0
      BY <1>4, <2>2, <2>3, <3>1, FibNumber
    <3> QED
      BY <2>2, <3>1, <3>2
  <2>4. CASE n # first - 1
    <3>1. n - 1 \in first - 1 .. last /\ n - 1 \notin T /\ (n - 1) + 2 = n + 1
      BY <2>1, <2>2, <2>4
    <3>2. f[n - 1] = fib[n + 1] - fib[first + 1] /\ f[n] = f[n - 1] + fib[n]
      BY <1>4, <1>5, <2>2, <2>4, <3>1
    <3>3. /\ n + 2 \in Nat /\ n + 1 \in Nat /\ n \in Nat /\ first + 1 \in Nat /\ n + 2 > 2
          /\ (n + 2) - 1 = n + 1 /\ (n + 2) - 2 = n
      BY <2>2, <2>4
    <3>4. fib[n + 2] = fib[n + 1] + fib[n] /\ fib[n + 1] \in Nat /\ fib[n] \in Nat /\ fib[first + 1] \in Nat
      BY <3>3, FibNumber
    <3> QED
      BY <2>2, <3>2, <3>4
  <2> QED
    BY <2>3, <2>4
<1>7. last \in first - 1 .. last
  OBVIOUS
<1> QED
  BY <1>3, <1>5, <1>6, <1>7

-----------------------------------------------------------------------------
(* Types of what the sums are made from.                                   *)
SumTypes ==
  /\ worker \in [Clients -> [Workers -> {"none", "running", "finished"}]]
  /\ sum \in [Clients -> [Workers -> Int]]
  /\ joined \in [Clients -> 0 .. num_threads]
  /\ total_sum \in [Clients -> Int]

(* Where the range of thread i starts, or will start.                      *)
Before(c, i) == IF i <= made[c] THEN start[c][i] ELSE current_start[c]

(* Ranges follow one another from 1 on; a finished thread has the sum of   *)
(* its range, and the total is that of all the numbers before the range of *)
(* the next thread to be joined.                                           *)
SumSound(c) ==
  /\ Before(c, 1) = 1
  /\ \A i \in 1 .. made[c] :
       /\ start[c][i] \in Nat \ {0} /\ end[c][i] >= start[c][i] - 1
       /\ Before(c, i + 1) = end[c][i] + 1
  /\ \A i \in Workers : i > made[c] => worker[c][i] = "none"
  /\ \A i \in Workers : worker[c][i] = "finished" => sum[c][i] = fib[end[c][i] + 2] - fib[start[c][i] + 1]
  /\ joined[c] > 0 => made[c] = num_threads
  /\ \A i \in 1 .. joined[c] : worker[c][i] = "finished"
  /\ total_sum[c] = fib[Before(c, joined[c] + 1) + 1] - 1
  /\ handler[c] = "answered" => joined[c] = num_threads

SumInv == SumTypes /\ \A c \in Clients : SumSound(c)

LEMMA SumInit == FibInit => SumInv
<1> SUFFICES ASSUME FibInit PROVE SumInv
  OBVIOUS
<1>1. num_threads \in Nat /\ num_threads > 0 /\ Workers = 1 .. num_threads
  BY FibConstants DEF Workers
<1>2. SumTypes
  BY <1>1 DEF FibInit, SumTypes
<1>3. fib[2] = 1
  BY FibNumber
<1>4. ASSUME NEW c \in Clients PROVE SumSound(c)
  <2>1. /\ made[c] = 0 /\ joined[c] = 0 /\ current_start[c] = 1 /\ total_sum[c] = 0
        /\ handler[c] = "none" /\ \A i \in Workers : worker[c][i] = "none"
    BY <1>4 DEF FibInit
  <2>2. Before(c, 1) = 1
    BY <2>1 DEF Before
  <2> QED
    BY <1>3, <2>1, <2>2 DEF SumSound
<1> QED
  BY <1>2, <1>4 DEF SumInv

LEMMA FibTypesOf ==
  ASSUME FibTypes, NEW c \in Clients
  PROVE  /\ N[c] \in Nat /\ current_start[c] \in Nat /\ made[c] \in 0 .. num_threads
         /\ start[c] \in [Workers -> Int] /\ end[c] \in [Workers -> Int]
  BY DEF FibTypes

(* A step that leaves the threads of a client alone.                       *)
LEMMA SumAlone ==
  ASSUME NEW c \in Clients, SumSound(c),
         made'[c] = made[c], current_start'[c] = current_start[c], start'[c] = start[c], end'[c] = end[c],
         worker'[c] = worker[c], sum'[c] = sum[c], joined'[c] = joined[c], total_sum'[c] = total_sum[c],
         handler'[c] = "answered" => handler[c] = "answered" \/ joined[c] = num_threads
  PROVE  SumSound(c)'
<1>1. \A i : Before(c, i)' = Before(c, i)
  BY DEF Before
<1> QED
  BY <1>1 DEF SumSound

LEMMA CreateSum ==
  ASSUME FibTypes, FibTypes', SumTypes, NEW c \in Clients, SumSound(c), CreateWorker(c)
  PROVE  SumSound(c)'
<1>1. num_threads \in Nat /\ num_threads > 0 /\ Workers = 1 .. num_threads
  BY FibConstants DEF Workers
<1>2. PICK m \in 0 .. num_threads - 1 : m = made[c]
  BY <1>1 DEF FibTypes, CreateWorker
<1>3. PICK next \in Nat : next = current_start[c] + Share(N[c], m + 1) /\ next >= current_start[c]
  <2>1. N[c] \in Nat /\ m + 1 \in Nat /\ current_start[c] \in Nat
    BY <1>1, <1>2, FibTypesOf
  <2>2. Share(N[c], m + 1) \in Nat
    BY <2>1, ShareNat
  <2> QED
    BY <2>1, <2>2
<1>4. m + 1 \in Workers /\ \A i \in Workers : i <= m \/ i = m + 1 \/ i > m + 1
  BY <1>1, <1>2
<1>5. /\ made'[c] = m + 1 /\ current_start'[c] = next
      /\ worker'[c] = [worker[c] EXCEPT ![m + 1] = "running"]
      /\ start'[c] = [start[c] EXCEPT ![m + 1] = current_start[c]]
      /\ end'[c] = [end[c] EXCEPT ![m + 1] = next - 1]
      /\ sum'[c] = sum[c] /\ joined'[c] = joined[c] /\ total_sum'[c] = total_sum[c] /\ handler'[c] = "splitting"
  BY <1>2, <1>3 DEF CreateWorker, FibTypes, SumTypes
<1>6. \A i \in Workers :
        /\ worker'[c][i] = IF i = m + 1 THEN "running" ELSE worker[c][i]
        /\ start'[c][i] = IF i = m + 1 THEN current_start[c] ELSE start[c][i]
        /\ end'[c][i] = IF i = m + 1 THEN next - 1 ELSE end[c][i]
  BY <1>5 DEF FibTypes, SumTypes
<1>7. joined[c] = 0
  BY <1>1, <1>2 DEF SumSound, SumTypes
<1>8. \A i \in 1 .. m + 1 : Before(c, i)' = Before(c, i)
  <2> TAKE i \in 1 .. m + 1
  <2>1. i \in Workers /\ i <= m + 1 /\ (i # m + 1 => i <= m)
    BY <1>1, <1>2
  <2> QED
    BY <1>2, <1>5, <1>6, <2>1 DEF Before
<1>9. Before(c, m + 2)' = next
  BY <1>2, <1>5 DEF Before
<1>10. current_start[c] \in Nat \ {0}
  <2>1. CASE m = 0
    <3>1. Before(c, 1) = current_start[c]
      BY <1>2, <2>1 DEF Before
    <3> QED
      BY <3>1 DEF SumSound
  <2>2. CASE m # 0
    <3>1. Before(c, m + 1) = current_start[c] /\ m \in 1 .. m
      BY <1>2, <2>2 DEF Before
    <3>2. start[c][m] \in Nat \ {0} /\ end[c][m] >= start[c][m] - 1 /\ current_start[c] = end[c][m] + 1
      BY <1>2, <3>1 DEF SumSound
    <3>3. end[c][m] \in Int
      <4>1. m \in Workers
        BY <1>1, <1>2, <2>2
      <4> QED
        BY <4>1, FibTypesOf
    <3> QED
      BY <3>2, <3>3
  <2> QED
    BY <2>1, <2>2
<1>11. ASSUME NEW i \in 1 .. m + 1
       PROVE  /\ start'[c][i] \in Nat \ {0} /\ end'[c][i] >= start'[c][i] - 1
              /\ Before(c, i + 1)' = end'[c][i] + 1
  <2>1. i \in Workers
    BY <1>1, <1>2
  <2>2. CASE i = m + 1
    <3>1. start'[c][i] = current_start[c] /\ end'[c][i] = next - 1 /\ i + 1 = m + 2
      BY <1>6, <2>1, <2>2
    <3> QED
      BY <1>3, <1>9, <1>10, <3>1
  <2>3. CASE i # m + 1
    <3>1. i \in 1 .. m /\ i + 1 \in 1 .. m + 1
      BY <1>2, <2>3
    <3>2. start'[c][i] = start[c][i] /\ end'[c][i] = end[c][i]
      BY <1>6, <2>1, <2>3
    <3> QED
      BY <1>2, <1>8, <3>1, <3>2 DEF SumSound
  <2> QED
    BY <2>2, <2>3
<1>12. 1 \in 1 .. m + 1
  BY <1>2
<1>13. /\ Before(c, 1)' = 1
       /\ \A i \in Workers : i > m + 1 => worker'[c][i] = "none"
       /\ \A i \in Workers : worker'[c][i] = "finished" =>
            sum'[c][i] = fib[end'[c][i] + 2] - fib[start'[c][i] + 1]
  <2>1. Before(c, 1)' = 1
    BY <1>8, <1>12 DEF SumSound
  <2>2. \A i \in Workers : i > m + 1 => worker'[c][i] = "none"
    BY <1>1, <1>2, <1>6 DEF SumSound
  <2>3. \A i \in Workers : worker'[c][i] = "finished" =>
          sum'[c][i] = fib[end'[c][i] + 2] - fib[start'[c][i] + 1]
    BY <1>5, <1>6 DEF SumSound
  <2> QED
    BY <2>1, <2>2, <2>3
<1>14. total_sum'[c] = fib[Before(c, joined[c] + 1)' + 1] - 1
  <2>1. Before(c, 1)' = Before(c, 1)
    BY <1>8, <1>12
  <2>2. Before(c, joined[c] + 1)' = Before(c, joined[c] + 1)
    BY <1>5, <1>7, <2>1 DEF Before
  <2> QED
    BY <1>5, <2>2 DEF SumSound
<1> QED
  BY <1>5, <1>7, <1>11, <1>13, <1>14 DEF SumSound

LEMMA WorkSum ==
  ASSUME FibTypes, SumTypes, NEW c \in Clients, SumSound(c), NEW i \in Workers, Work(c, i)
  PROVE  SumSound(c)'
<1>1. num_threads \in Nat /\ num_threads > 0 /\ Workers = 1 .. num_threads /\ made[c] \in 0 .. num_threads
  BY FibConstants DEF Workers, FibTypes
<1>2. i \in 1 .. made[c]
  BY <1>1 DEF SumSound, Work
<1>3. start[c][i] \in Nat /\ start[c][i] > 0 /\ end[c][i] \in Int /\ end[c][i] >= start[c][i] - 1
  BY <1>2 DEF SumSound, FibTypes
<1>4. RangeSum(start[c][i], end[c][i]) = fib[end[c][i] + 2] - fib[start[c][i] + 1]
  BY <1>3, RangeSumIs
<1>5. /\ UNCHANGED <<handler, joined, total_sum, N, current_start, made, start, end>>
      /\ \A j \in Workers : /\ worker'[c][j] = IF j = i THEN "finished" ELSE worker[c][j]
                            /\ sum'[c][j] = IF j = i THEN RangeSum(start[c][i], end[c][i]) ELSE sum[c][j]
  BY DEF Work, split, fib_data, SumTypes
<1>6. \A k : Before(c, k)' = Before(c, k)
  BY <1>5 DEF Before
<1>7. \A j \in Workers : j > made'[c] => worker'[c][j] = "none"
  BY <1>1, <1>2, <1>5 DEF SumSound
<1>8. \A j \in Workers : worker'[c][j] = "finished" => sum'[c][j] = fib[end'[c][j] + 2] - fib[start'[c][j] + 1]
  BY <1>4, <1>5 DEF SumSound
<1>9. \A j \in 1 .. joined'[c] : worker'[c][j] = "finished"
  <2>1. joined'[c] = joined[c] /\ \A j \in 1 .. joined[c] : j \in Workers /\ worker[c][j] = "finished"
    BY <1>1, <1>5 DEF SumSound, SumTypes
  <2> QED
    BY <1>5, <2>1
<1> QED
  BY <1>5, <1>6, <1>7, <1>8, <1>9 DEF SumSound

LEMMA JoinSum ==
  ASSUME FibTypes, SumTypes, NEW c \in Clients, SumSound(c), Join(c)
  PROVE  SumSound(c)' /\ total_sum'[c] \in Int
<1>1. num_threads \in Nat /\ num_threads > 0 /\ Workers = 1 .. num_threads
  BY FibConstants DEF Workers
<1>2. PICK k \in 0 .. num_threads - 1 : k = joined[c]
  BY <1>1 DEF SumTypes, Join
<1>3. k + 1 \in Workers /\ k + 1 \in 1 .. made[c] /\ made[c] = num_threads
  BY <1>1, <1>2 DEF Join
<1>4. /\ UNCHANGED <<handler, N, current_start, made, start, end, worker, sum>>
      /\ worker[c][k + 1] = "finished" /\ joined'[c] = k + 1
      /\ total_sum'[c] = total_sum[c] + sum[c][k + 1]
      /\ handler[c] = "splitting"
  BY <1>2 DEF Join, split, fib_data, SumTypes
<1>5. \A i : Before(c, i)' = Before(c, i)
  BY <1>4 DEF Before
<1>6. PICK first \in Nat, last \in Int :
        /\ first = start[c][k + 1] /\ last = end[c][k + 1] /\ first > 0 /\ last >= first - 1
        /\ Before(c, k + 1) = first /\ Before(c, (k + 1) + 1) = last + 1
  <2>1. start[c][k + 1] \in Nat \ {0} /\ end[c][k + 1] \in Int
    BY <1>3 DEF SumSound, FibTypes
  <2>2. end[c][k + 1] >= start[c][k + 1] - 1 /\ Before(c, (k + 1) + 1) = end[c][k + 1] + 1
    BY <1>3 DEF SumSound
  <2>3. Before(c, k + 1) = start[c][k + 1]
    BY <1>1, <1>2, <1>3 DEF Before
  <2> QED
    BY <2>1, <2>2, <2>3
<1>7. sum[c][k + 1] = fib[last + 2] - fib[first + 1]
  BY <1>3, <1>4, <1>6 DEF SumSound
<1>8. total_sum[c] = fib[first + 1] - 1
  BY <1>2, <1>6 DEF SumSound
<1>9. fib[first + 1] \in Nat /\ fib[last + 2] \in Nat
  <2>1. first + 1 \in Nat /\ last + 2 \in Nat
    BY <1>6
  <2> QED
    BY <2>1, FibNumber
<1>10. total_sum'[c] = fib[last + 2] - 1 /\ total_sum'[c] \in Int
  BY <1>4, <1>7, <1>8, <1>9
<1>11. total_sum'[c] = fib[Before(c, joined[c] + 1)' + 1] - 1
  <2>1. Before(c, (k + 1) + 1)' = last + 1 /\ (last + 1) + 1 = last + 2
    BY <1>5, <1>6
  <2>2. Before(c, joined[c] + 1)' = last + 1
    BY <1>4, <2>1 DEF Before
  <2> QED
    BY <1>10, <2>1, <2>2
<1>12. \A j \in 1 .. k + 1 : worker[c][j] = "finished"
  BY <1>2, <1>4 DEF SumSound
<1> QED
  BY <1>3, <1>4, <1>5, <1>10, <1>11, <1>12 DEF SumSound

LEMMA SumTypesKept ==
  ASSUME FibTypes, SumTypes, NEW c \in Clients, Handle(c) \/ \E i \in Workers : Work(c, i),
         Join(c) => total_sum'[c] \in Int,
         \A i \in Workers : Work(c, i) => RangeSum(start[c][i], end[c][i]) \in Int
  PROVE  SumTypes'
<1>1. CASE CreateWorker(c)
  BY <1>1 DEF CreateWorker, SumTypes
<1>2. CASE Join(c)
  <2>1. joined' = [joined EXCEPT ![c] = joined[c] + 1] /\ joined[c] < num_threads /\ joined[c] \in 0 .. num_threads
    BY <1>2 DEF Join, SumTypes
  <2>2. total_sum' = [total_sum EXCEPT ![c] = total_sum[c] + sum[c][joined[c] + 1]]
    BY <1>2 DEF Join
  <2>3. joined' \in [Clients -> 0 .. num_threads]
    BY <2>1, FibConstants DEF SumTypes
  <2>4. total_sum' = [total_sum EXCEPT ![c] = total_sum'[c]]
    BY <2>2 DEF SumTypes
  <2>5. total_sum' \in [Clients -> Int]
    BY <1>2, <2>4 DEF SumTypes
  <2> QED
    BY <1>2, <2>3, <2>5 DEF SumTypes, Join
<1>3. CASE ReadN(c) \/ Answer(c)
  BY <1>3 DEF ReadN, Answer, SumTypes
<1>4. CASE \E i \in Workers : Work(c, i)
  <2>1. PICK i \in Workers : Work(c, i)
    BY <1>4
  <2>2. PICK s \in Int : s = RangeSum(start[c][i], end[c][i])
    BY <2>1
  <2>3. sum' = [sum EXCEPT ![c][i] = s] /\ worker' = [worker EXCEPT ![c][i] = "finished"]
    BY <2>1, <2>2 DEF Work
  <2>4. sum' \in [Clients -> [Workers -> Int]] /\ worker' \in [Clients -> [Workers -> {"none", "running", "finished"}]]
    BY <2>3 DEF SumTypes
  <2> QED
    BY <2>1, <2>4 DEF Work, SumTypes
<1> QED
  BY <1>1, <1>2, <1>3, <1>4 DEF Handle

LEMMA SumKept == FibInv /\ SumInv /\ [FibNext]_fib_vars => SumInv'
<1> SUFFICES ASSUME FibInv, SumInv, [FibNext]_fib_vars PROVE SumInv'
  OBVIOUS
<1>1. FibTypes /\ FibTypes' /\ SumTypes
  BY TypesKept DEF FibInv, SumInv
<1>2. ASSUME NEW d \in Clients, Handle(d) \/ \E i \in Workers : Work(d, i) PROVE SumInv'
  <2>1. SumSound(d)
    BY DEF SumInv
  <2>2. ASSUME NEW c \in Clients PROVE SumSound(c)'
    <3>1. CASE c # d
      <4>1. /\ made'[c] = made[c] /\ current_start'[c] = current_start[c]
            /\ start'[c] = start[c] /\ end'[c] = end[c] /\ worker'[c] = worker[c] /\ sum'[c] = sum[c]
            /\ joined'[c] = joined[c] /\ total_sum'[c] = total_sum[c] /\ handler'[c] = handler[c]
        <5>1. CASE ReadN(d)
          BY <1>1, <3>1, <5>1 DEF ReadN, fib_data, FibTypes
        <5>2. CASE CreateWorker(d)
          BY <1>1, <3>1, <5>2 DEF CreateWorker, FibTypes, SumTypes
        <5>3. CASE Join(d)
          BY <1>1, <3>1, <5>3 DEF Join, split, fib_data, SumTypes
        <5>4. CASE Answer(d)
          BY <1>1, <3>1, <5>4 DEF Answer, split, fib_data, FibTypes
        <5>5. CASE \E i \in Workers : Work(d, i)
          BY <1>1, <3>1, <5>5 DEF Work, split, fib_data, SumTypes
        <5> QED
          BY <1>2, <5>1, <5>2, <5>3, <5>4, <5>5 DEF Handle
      <4> QED
        BY <4>1, SumAlone DEF SumInv
    <3>2. CASE c = d /\ CreateWorker(d)
      BY <1>1, <2>1, <3>2, CreateSum
    <3>3. CASE c = d /\ Join(d)
      BY <1>1, <2>1, <3>3, JoinSum
    <3>4. CASE c = d /\ \E i \in Workers : Work(d, i)
      BY <1>1, <2>1, <3>4, WorkSum
    <3>5. CASE c = d /\ (ReadN(d) \/ Answer(d))
      <4>1. UNCHANGED <<made, current_start, start, end, worker, sum, joined, total_sum>>
        BY <3>5 DEF ReadN, Answer, split, fib_data
      <4>2. handler'[c] = "answered" => joined[c] = num_threads
        BY <1>1, <3>5 DEF ReadN, Answer, FibTypes
      <4> QED
        BY <2>1, <3>5, <4>1, <4>2, SumAlone
    <3> QED
      BY <1>2, <3>1, <3>2, <3>3, <3>4, <3>5 DEF Handle
  <2>3. ASSUME NEW i \in Workers, Work(d, i) PROVE RangeSum(start[d][i], end[d][i]) \in Int
    <3>1. sum'[d][i] = RangeSum(start[d][i], end[d][i])
      BY <1>1, <2>3 DEF Work, SumTypes
    <3>2. i \in 1 .. made[d]
      <4>1. made[d] \in 0 .. num_threads /\ num_threads \in Nat /\ worker[d][i] = "running"
        BY <1>1, <2>3, FibConstants DEF FibTypes, Work
      <4> QED
        BY <2>1, <4>1 DEF SumSound, Workers
    <3>3. PICK first \in Nat, last \in Int :
            first = start[d][i] /\ last = end[d][i] /\ first > 0 /\ last >= first - 1
      BY <1>1, <2>1, <3>2 DEF SumSound, FibTypes
    <3>4. RangeSum(first, last) = fib[last + 2] - fib[first + 1]
      BY <3>3, RangeSumIs
    <3>5. fib[last + 2] \in Nat /\ fib[first + 1] \in Nat
      BY <3>3, FibNumber
    <3> QED
      BY <3>3, <3>4, <3>5
  <2>4. Join(d) => total_sum'[d] \in Int
    BY <1>1, <2>1, JoinSum
  <2>5. SumTypes'
    BY <1>1, <1>2, <2>3, <2>4, SumTypesKept
  <2> QED
    BY <2>2, <2>5 DEF SumInv
<1>3. ASSUME NEW d \in Clients,
             \/ \E n \in 0 .. MaxN : ClientSendsN(d, n)
             \/ ClientQuits(d) \/ AcceptClient(d)
      PROVE  SumInv'
  <2>1. UNCHANGED <<made, current_start, start, end, worker, sum, joined, total_sum>>
    BY <1>3 DEF ClientSendsN, ClientQuits, AcceptClient, Threads, split, fib_data
  <2>2. \A c \in Clients : handler'[c] = "answered" => handler[c] = "answered"
    BY <1>1, <1>3 DEF ClientSendsN, ClientQuits, AcceptClient, Threads, FibTypes
  <2>3. \A c \in Clients : SumSound(c)'
    BY <2>1, <2>2, SumAlone DEF SumInv
  <2> QED
    BY <1>1, <2>1, <2>3 DEF SumInv, SumTypes
<1>4. CASE UNCHANGED fib_vars
  <2>1. UNCHANGED <<made, current_start, start, end, worker, sum, joined, total_sum, handler>>
    BY <1>4 DEF fib_vars, split, fib_data
  <2>2. \A c \in Clients : SumSound(c)'
    BY <2>1, SumAlone DEF SumInv
  <2> QED
    BY <1>1, <2>1, <2>2 DEF SumInv, SumTypes
<1> QED
  BY <1>2, <1>3, <1>4 DEF FibNext

(* For any number of threads and clients and whatever they ask for, the    *)
(* sum in an answer is that of the first N Fibonacci numbers, in whatever  *)
(* order the threads ran.                                                  *)
THEOREM FibSums == FibSpec => []FibSumRight
<1>1. FibInv /\ SumInv => FibSumRight
  <2> SUFFICES ASSUME FibInv, SumInv, NEW c \in Clients, handler[c] = "answered"
               PROVE  total_sum[c] = fib[N[c] + 2] - 1
    BY DEF FibSumRight
  <2>1. SumSound(c) /\ SplitSound(c) /\ N[c] \in Nat /\ num_threads \in Nat /\ num_threads > 0
    BY FibConstants DEF SumInv, FibInv, FibTypes
  <2>2. joined[c] = num_threads /\ made[c] = num_threads
    BY <2>1 DEF SumSound
  <2>3. Before(c, num_threads + 1) = current_start[c]
    BY <2>1, <2>2 DEF Before
  <2>4. current_start[c] = N[c] + 1
    BY <2>1, <2>2, SplitEnds
  <2> QED
    BY <2>1, <2>2, <2>3, <2>4 DEF SumSound
<1>2. FibInit => FibInv /\ SumInv
  BY SumInit, SplitInit
<1> QED
  BY <1>1, <1>2, SplitKept, SumKept, PTL DEF FibSpec

-----------------------------------------------------------------------------
(***************************************************************************)
(* Retrieval in the route guide, for any number of calls and threads.      *)
(*                                                                         *)
(* A route is in the list only when its stream of points has ended         *)
(* (SavedFinal), so what a reader finds there grows no more.  That no call *)
(* runs twice needs an invariant of the pool (QueueOfWaiting): whoever     *)
(* waits for a thread waits once, and has not begun.                       *)
(***************************************************************************)
States == {"unsent", "waiting", "running", "streamed", "saved", "streaming", "done", "cancelled"}

GuideTypeOK ==
  /\ saved_routes \in Seq(Recorders)
  /\ waiting \in Seq(Calls)
  /\ call \in [Calls -> States]
  /\ route \in [Recorders -> Nat]
  /\ asked \in [Readers -> [id : Ids, found : Recorders \cup {NoRoute}, sent : Nat]]

QueueOfWaiting ==
  /\ \A i \in 1 .. Len(waiting) : call[waiting[i]] = "waiting"
  /\ \A i, j \in 1 .. Len(waiting) : waiting[i] = waiting[j] => i = j

(* The stream of points of r has ended and the route is in the list.       *)
Final(r) == r \in Recorders /\ call[r] \in {"saved", "done"}

SavedFinal == \A i \in 1 .. Len(saved_routes) : Final(saved_routes[i])

(* A reader finds a route once it runs, a final one, and ends its stream   *)
(* when it has sent as many points as that has.                            *)
ReaderSound(c) ==
  /\ call[c] \in {"unsent", "waiting", "running"} => asked[c].found = NoRoute /\ asked[c].sent = 0
  /\ (asked[c].found # NoRoute \/ call[c] = "streaming") => Final(asked[c].found)
  /\ call[c] = "done" /\ asked[c].found # NoRoute => asked[c].sent = route[asked[c].found]
  /\ call[c] = "streaming" => asked[c].sent <= route[asked[c].found]

GuideInv ==
  GuideTypeOK /\ QueueOfWaiting /\ SavedFinal /\ \A c \in Readers : ReaderSound(c)

-----------------------------------------------------------------------------
LEMMA GuideInvInit == GuideInit => GuideInv
<1> SUFFICES ASSUME GuideInit PROVE GuideInv
  OBVIOUS
<1>1. Recorders \subseteq Calls /\ Readers \subseteq Calls
  BY DEF Calls
<1>2. GuideTypeOK
  <2>1. /\ saved_routes \in Seq(Recorders) /\ waiting \in Seq(Calls) /\ call \in [Calls -> States]
        /\ route \in [Recorders -> Nat]
    BY DEF GuideInit, States
  <2>2. asked \in [Readers -> [id : Ids, found : Recorders \cup {NoRoute}, sent : Nat]]
    BY DEF GuideInit
  <2> QED
    BY <2>1, <2>2 DEF GuideTypeOK
<1>3. QueueOfWaiting /\ SavedFinal
  BY DEF GuideInit, QueueOfWaiting, SavedFinal
<1>4. \A c \in Readers : call[c] = "unsent" /\ asked[c].found = NoRoute /\ asked[c].sent = 0
  BY <1>1 DEF GuideInit
<1> QED
  BY <1>2, <1>3, <1>4 DEF GuideInv, ReaderSound

(* A step that changes only the progress of calls: final routes stay       *)
(* final, and no reader begins again, finds a route or ends its stream.    *)
LEMMA SoundKept ==
  ASSUME GuideInv, UNCHANGED <<saved_routes, route, asked>>,
         \A r \in Recorders : Final(r) => call'[r] \in {"saved", "done"},
         \A c \in Readers :
           \/ call'[c] = call[c]
           \/ call[c] \in {"unsent", "waiting"} /\ call'[c] \in {"waiting", "running"}
           \/ call'[c] = "cancelled"
  PROVE  SavedFinal' /\ \A c \in Readers : ReaderSound(c)'
<1>1. \A r \in Recorders : Final(r) => Final(r)'
  BY DEF Final
<1>2. SavedFinal'
  BY <1>1 DEF GuideInv, SavedFinal, Final
<1>3. ASSUME NEW c \in Readers PROVE ReaderSound(c)'
  <2>1. ReaderSound(c)
    BY DEF GuideInv
  <2>2. Final(asked[c].found) => Final(asked[c].found)'
    BY <1>1 DEF Final
  <2>3. asked' = asked /\ route' = route
    OBVIOUS
  <2> QED
    BY <2>1, <2>2, <2>3 DEF ReaderSound, Final
<1> QED
  BY <1>2, <1>3

(* A step of one call that runs leaves the queue of the pool as it was.    *)
LEMMA WaitingKept ==
  ASSUME GuideInv, NEW c \in Calls, call[c] # "waiting", NEW how,
         call' = [call EXCEPT ![c] = how], waiting' = waiting
  PROVE  QueueOfWaiting'
<1> SUFFICES ASSUME NEW i \in 1 .. Len(waiting) PROVE call'[waiting[i]] = "waiting"
  BY DEF GuideInv, QueueOfWaiting
<1>1. call[waiting[i]] = "waiting" /\ waiting[i] \in Calls
  BY DEF GuideInv, QueueOfWaiting, GuideTypeOK
<1> QED
  BY <1>1 DEF GuideInv, GuideTypeOK

(* Taking one call out of the queue leaves the others in it.               *)
LEMMA QueueWithout ==
  ASSUME GuideInv, NEW k \in 1 .. Len(waiting)
  PROVE  /\ RemoveAt(waiting, k) \in Seq(Calls)
         /\ Len(RemoveAt(waiting, k)) = Len(waiting) - 1
         /\ \A i \in 1 .. Len(waiting) - 1 :
              RemoveAt(waiting, k)[i] = waiting[IF i < k THEN i ELSE i + 1]
<1>1. waiting \in Seq(Calls) /\ Len(waiting) \in Nat
  BY DEF GuideInv, GuideTypeOK
<1> DEFINE s == SubSeq(waiting, 1, k - 1) t == SubSeq(waiting, k + 1, Len(waiting))
<1>2. s \in Seq(Calls) /\ Len(s) = k - 1 /\ \A i \in 1 .. k - 1 : s[i] = waiting[i]
  BY <1>1
<1>3. t \in Seq(Calls) /\ Len(t) = Len(waiting) - k /\ \A i \in 1 .. Len(waiting) - k : t[i] = waiting[k + i]
  BY <1>1
<1> HIDE DEF s, t
<1>4. /\ s \o t \in Seq(Calls) /\ Len(s \o t) = Len(waiting) - 1
      /\ \A i \in 1 .. Len(waiting) - 1 : (s \o t)[i] = IF i < k THEN s[i] ELSE t[i - k + 1]
  BY <1>1, <1>2, <1>3
<1>5. RemoveAt(waiting, k) = s \o t
  BY DEF RemoveAt, s, t
<1>6. ASSUME NEW i \in 1 .. Len(waiting) - 1
      PROVE  (s \o t)[i] = waiting[IF i < k THEN i ELSE i + 1]
  <2>1. CASE i < k
    BY <1>1, <1>2, <1>4, <2>1
  <2>2. CASE ~(i < k)
    <3>1. i - k + 1 \in 1 .. Len(waiting) - k /\ k + (i - k + 1) = i + 1
      BY <1>1, <2>2
    <3> QED
      BY <1>1, <1>3, <1>4, <2>2, <3>1
  <2> QED
    BY <2>1, <2>2
<1> QED
  BY <1>4, <1>5, <1>6

(* The call that leaves the queue is not in it any more.                   *)
LEMMA LeavesQueue ==
  ASSUME GuideInv, NEW k \in 1 .. Len(waiting), NEW how,
         call' = [call EXCEPT ![waiting[k]] = how],
         waiting' \in Seq(Calls), Len(waiting') = Len(waiting) - 1,
         \A i \in 1 .. Len(waiting) - 1 : waiting'[i] = waiting[IF i < k THEN i ELSE i + 1]
  PROVE  QueueOfWaiting'
<1>1. Len(waiting) \in Nat /\ QueueOfWaiting
  BY DEF GuideInv, GuideTypeOK
<1> DEFINE old(i) == IF i < k THEN i ELSE i + 1
<1>2. ASSUME NEW i \in 1 .. Len(waiting')
      PROVE  old(i) \in 1 .. Len(waiting) /\ old(i) # k /\ waiting'[i] = waiting[old(i)]
  BY <1>1
<1>3. \A i, j \in 1 .. Len(waiting') : old(i) = old(j) => i = j
  BY <1>1
<1> HIDE DEF old
<1>4. ASSUME NEW i \in 1 .. Len(waiting') PROVE call'[waiting'[i]] = "waiting"
  <2>1. waiting'[i] \in Calls /\ waiting'[i] # waiting[k] /\ call[waiting'[i]] = "waiting"
    BY <1>1, <1>2 DEF QueueOfWaiting, GuideInv, GuideTypeOK
  <2> QED
    BY <2>1 DEF GuideInv, GuideTypeOK
<1>5. ASSUME NEW i \in 1 .. Len(waiting'), NEW j \in 1 .. Len(waiting'), waiting'[i] = waiting'[j]
      PROVE  i = j
  BY <1>1, <1>2, <1>3, <1>5 DEF QueueOfWaiting
<1> QED
  BY <1>4, <1>5 DEF QueueOfWaiting

(* A reader's stream ends: it has found nothing, or sent all there is.     *)
LEMMA EndsSound ==
  ASSUME GuideInv, NEW c \in Readers, call' = [call EXCEPT ![c] = "done"],
         UNCHANGED <<saved_routes, route, asked>>, GuideTypeOK', QueueOfWaiting',
         asked[c].found # NoRoute => Final(asked[c].found) /\ asked[c].sent = route[asked[c].found]
  PROVE  GuideInv'
<1>1. c \in Calls /\ Readers \subseteq Calls /\ Recorders \subseteq Calls /\ c \notin Recorders
  BY GuideAssumption DEF Calls
<1>2. call'[c] = "done" /\ \A d \in Calls : d # c => call'[d] = call[d]
  BY <1>1 DEF GuideInv, GuideTypeOK
<1>3. \A r : Final(r) => Final(r)'
  BY <1>1, <1>2 DEF Final
<1>4. SavedFinal'
  BY <1>3 DEF GuideInv, SavedFinal, Final
<1>5. ASSUME NEW d \in Readers PROVE ReaderSound(d)'
  <2>1. ReaderSound(d) /\ asked' = asked /\ route' = route
    BY DEF GuideInv
  <2>2. CASE d = c
    BY <1>2, <1>3, <2>1, <2>2 DEF ReaderSound, Final
  <2>3. CASE d # c
    BY <1>1, <1>2, <1>3, <2>1, <2>3 DEF ReaderSound, Final
  <2> QED
    BY <2>2, <2>3
<1> QED
  BY <1>4, <1>5 DEF GuideInv

LEMMA GuideInvNext == GuideInv /\ [GuideNext]_guide_vars => GuideInv'
<1> SUFFICES ASSUME GuideInv, [GuideNext]_guide_vars PROVE GuideInv'
  OBVIOUS
<1>t. GuideTypeOK /\ QueueOfWaiting /\ SavedFinal /\ \A c \in Readers : ReaderSound(c)
  BY DEF GuideInv
<1>l. Len(waiting) \in Nat /\ Len(saved_routes) \in Nat
  BY <1>t DEF GuideTypeOK
<1>r. /\ Recorders \subseteq Calls /\ Readers \subseteq Calls
      /\ Recorders \cap Readers = {} /\ Others \cap (Recorders \cup Readers) = {}
  BY GuideAssumption DEF Calls
<1>1. ASSUME NEW c \in Calls, Request(c) PROVE GuideInv'
  <2>1. /\ call[c] = "unsent" /\ call' = [call EXCEPT ![c] = "waiting"]
        /\ waiting' = Append(waiting, c) /\ UNCHANGED <<saved_routes, route, asked>>
    BY <1>1 DEF Request
  <2>2. GuideTypeOK'
    BY <1>t, <2>1 DEF GuideTypeOK, States
  <2>3. ASSUME NEW i \in 1 .. Len(waiting')
        PROVE  \/ i \in 1 .. Len(waiting) /\ waiting'[i] = waiting[i] /\ waiting[i] # c /\ waiting[i] \in Calls
               \/ i = Len(waiting) + 1 /\ waiting'[i] = c
    BY <1>t, <2>1 DEF GuideTypeOK, QueueOfWaiting
  <2>4. \A i \in 1 .. Len(waiting') : call'[waiting'[i]] = "waiting"
    BY <1>t, <2>1, <2>3 DEF GuideTypeOK, QueueOfWaiting
  <2>5. \A i, j \in 1 .. Len(waiting') : waiting'[i] = waiting'[j] => i = j
    BY <1>t, <2>3 DEF QueueOfWaiting
  <2>6. \A d \in Calls : call'[d] = call[d] \/ (call[d] = "unsent" /\ call'[d] = "waiting")
    BY <1>t, <2>1 DEF GuideTypeOK
  <2>7. SavedFinal' /\ \A d \in Readers : ReaderSound(d)'
    BY <1>r, <2>1, <2>6, SoundKept DEF Final
  <2> QED
    BY <2>2, <2>4, <2>5, <2>7 DEF GuideInv, QueueOfWaiting
<1>2. ASSUME Dispatch PROVE GuideInv'
  <2>1. /\ waiting # << >> /\ call' = [call EXCEPT ![Head(waiting)] = "running"]
        /\ waiting' = Tail(waiting) /\ UNCHANGED <<saved_routes, route, asked>>
    BY <1>2 DEF Dispatch
  <2>2. Len(waiting) >= 1 /\ Head(waiting) = waiting[1] /\ waiting[1] \in Calls
    BY <1>t, <2>1 DEF GuideTypeOK
  <2>3. GuideTypeOK'
    BY <1>t, <2>1, <2>2 DEF GuideTypeOK, States
  <2>4. /\ waiting' \in Seq(Calls) /\ Len(waiting') = Len(waiting) - 1
        /\ \A i \in 1 .. Len(waiting) - 1 : waiting'[i] = waiting[IF i < 1 THEN i ELSE i + 1]
    BY <1>t, <2>1, <2>2 DEF GuideTypeOK
  <2>5. QueueOfWaiting'
    <3>1. 1 \in 1 .. Len(waiting) /\ call' = [call EXCEPT ![waiting[1]] = "running"]
      BY <1>l, <2>1, <2>2
    <3> QED
      BY <2>4, <3>1, LeavesQueue
  <2>6. call[waiting[1]] = "waiting"
    BY <1>l, <1>t, <2>2 DEF QueueOfWaiting
  <2>7. \A d \in Calls : call'[d] = call[d] \/ (call[d] = "waiting" /\ call'[d] = "running")
    BY <1>t, <2>1, <2>2, <2>6 DEF GuideTypeOK
  <2>8. SavedFinal' /\ \A d \in Readers : ReaderSound(d)'
    BY <1>r, <2>1, <2>7, SoundKept DEF Final
  <2> QED
    BY <2>3, <2>5, <2>8 DEF GuideInv
<1>3. ASSUME NEW c \in Calls, NEW how \in States, Ends(c, how), call[c] # "waiting",
             c \in Recorders => ~Final(c), c \in Readers => how = "cancelled"
      PROVE  GuideInv'
  <2>1. call' = [call EXCEPT ![c] = how] /\ UNCHANGED <<saved_routes, waiting, route, asked>>
    BY <1>3 DEF Ends
  <2>2. GuideTypeOK'
    BY <1>t, <2>1 DEF GuideTypeOK
  <2>3. QueueOfWaiting'
    BY <1>3, <2>1, WaitingKept
  <2>4. \A d \in Calls : d # c => call'[d] = call[d]
    BY <1>t, <2>1 DEF GuideTypeOK
  <2>5. call'[c] = how
    BY <1>t, <2>1 DEF GuideTypeOK
  <2>6. SavedFinal' /\ \A d \in Readers : ReaderSound(d)'
    BY <1>3, <1>r, <2>1, <2>4, <2>5, SoundKept DEF Final
  <2> QED
    BY <2>2, <2>3, <2>6 DEF GuideInv
<1>4. ASSUME NEW c \in Recorders, ReceivePoint(c) PROVE GuideInv'
  <2>1. /\ call[c] = "running" /\ route' = [route EXCEPT ![c] = @ + 1]
        /\ UNCHANGED <<saved_routes, waiting, call, asked>>
    BY <1>4 DEF ReceivePoint
  <2>2. GuideTypeOK'
    BY <1>t, <2>1 DEF GuideTypeOK
  <2>3. QueueOfWaiting' /\ SavedFinal'
    BY <1>t, <2>1 DEF QueueOfWaiting, SavedFinal, Final
  <2>4. ASSUME NEW d \in Readers PROVE ReaderSound(d)'
    <3>1. Final(asked[d].found) => asked[d].found # c
      BY <2>1 DEF Final
    <3>2. Final(asked[d].found) => route'[asked[d].found] = route[asked[d].found] /\ Final(asked[d].found)'
      BY <1>t, <2>1, <3>1 DEF Final, GuideTypeOK
    <3> QED
      BY <1>t, <2>1, <3>2 DEF ReaderSound
  <2> QED
    BY <2>2, <2>3, <2>4 DEF GuideInv
<1>5. ASSUME NEW c \in Recorders, Save(c) PROVE GuideInv'
  <2>1. /\ call[c] = "streamed" /\ call' = [call EXCEPT ![c] = "saved"]
        /\ saved_routes' = Append(saved_routes, c) /\ UNCHANGED <<waiting, route, asked>>
    BY <1>5 DEF Save
  <2>2. GuideTypeOK'
    <3>1. saved_routes' \in Seq(Recorders)
      BY <1>t, <2>1 DEF GuideTypeOK
    <3>2. call' \in [Calls -> States]
      BY <1>t, <2>1 DEF GuideTypeOK, States
    <3> QED
      BY <1>t, <2>1, <3>1, <3>2 DEF GuideTypeOK
  <2>3. QueueOfWaiting'
    BY <1>r, <2>1, WaitingKept
  <2>4. \A d \in Calls : d # c => call'[d] = call[d]
    BY <1>t, <2>1 DEF GuideTypeOK
  <2>5. call'[c] = "saved"
    BY <1>r, <1>t, <2>1 DEF GuideTypeOK
  <2>6. \A d \in Recorders : Final(d) => Final(d)'
    BY <1>r, <2>4, <2>5 DEF Final
  <2>7. ASSUME NEW i \in 1 .. Len(saved_routes')
        PROVE  saved_routes'[i] \in Recorders /\ call'[saved_routes'[i]] \in {"saved", "done"}
    <3>1. \/ i \in 1 .. Len(saved_routes) /\ saved_routes'[i] = saved_routes[i]
          \/ saved_routes'[i] = c
      BY <1>l, <1>t, <2>1 DEF GuideTypeOK
    <3>2. CASE i \in 1 .. Len(saved_routes) /\ saved_routes'[i] = saved_routes[i]
      <4>1. Final(saved_routes[i]) /\ saved_routes[i] \in Recorders
        BY <1>t, <3>2 DEF SavedFinal, Final
      <4>2. call'[saved_routes[i]] \in {"saved", "done"}
        BY <2>6, <4>1 DEF Final
      <4> QED
        BY <3>2, <4>1, <4>2 DEF Final
    <3>3. CASE saved_routes'[i] = c
      BY <2>5, <3>3 DEF Final
    <3> QED
      BY <3>1, <3>2, <3>3
  <2>8. ASSUME NEW d \in Readers PROVE ReaderSound(d)'
    <3>1. call'[d] = call[d]
      BY <1>r, <2>4
    <3>2. Final(asked[d].found) => Final(asked[d].found)'
      BY <2>1, <2>6 DEF Final
    <3> QED
      BY <1>t, <2>1, <3>1, <3>2 DEF ReaderSound, Final
  <2>9. SavedFinal'
    BY <2>7 DEF SavedFinal, Final
  <2> QED
    BY <2>2, <2>3, <2>8, <2>9 DEF GuideInv
<1>6. ASSUME NEW c \in Recorders, Summarise(c) PROVE GuideInv'
  <2>1. /\ call[c] = "saved" /\ call' = [call EXCEPT ![c] = "done"]
        /\ UNCHANGED <<saved_routes, waiting, route, asked>>
    BY <1>6 DEF Summarise
  <2>2. GuideTypeOK'
    BY <1>t, <2>1 DEF GuideTypeOK, States
  <2>3. QueueOfWaiting'
    BY <1>r, <2>1, WaitingKept
  <2>4. \A d \in Calls : d # c => call'[d] = call[d]
    BY <1>t, <2>1 DEF GuideTypeOK
  <2>5. call'[c] = "done"
    BY <1>r, <1>t, <2>1 DEF GuideTypeOK
  <2>6. SavedFinal' /\ \A d \in Readers : ReaderSound(d)'
    BY <1>r, <2>1, <2>4, <2>5, SoundKept DEF Final
  <2> QED
    BY <2>2, <2>3, <2>6 DEF GuideInv
<1>7. ASSUME NEW c \in Readers, Lookup(c) PROVE GuideInv'
  <2>1. /\ call[c] = "running" /\ UNCHANGED <<saved_routes, waiting, route>>
        /\ asked[c].found = NoRoute /\ c \in Calls
    BY <1>7, <1>r, <1>t DEF Lookup, ReaderSound
  <2>2. CASE 0 <= asked[c].id /\ asked[c].id < Len(saved_routes)
    <3>1. asked[c].id \in Int
      BY <1>t, GuideAssumption DEF GuideTypeOK
    <3>2. asked[c].id + 1 \in 1 .. Len(saved_routes)
      BY <1>l, <2>2, <3>1
    <3>3. PICK r \in Recorders : r = saved_routes[asked[c].id + 1] /\ Final(r)
      BY <1>t, <3>2 DEF SavedFinal, Final
    <3>4. asked' = [asked EXCEPT ![c].found = r] /\ call' = [call EXCEPT ![c] = "streaming"]
      BY <1>7, <2>2, <3>3 DEF Lookup
    <3>5. GuideTypeOK'
      BY <1>t, <2>1, <3>3, <3>4 DEF GuideTypeOK, States, Final
    <3>6. QueueOfWaiting'
      BY <2>1, <3>4, WaitingKept
    <3>7. \A d \in Calls : d # c => call'[d] = call[d]
      BY <1>t, <3>4 DEF GuideTypeOK
    <3>8. \A d \in Recorders : Final(d) => Final(d)'
      BY <1>r, <3>7 DEF Final
    <3>9. SavedFinal'
      BY <1>t, <2>1, <3>8 DEF SavedFinal, Final
    <3>10. ReaderSound(c)'
      <4>1. asked'[c].found = r /\ asked'[c].sent = asked[c].sent /\ call'[c] = "streaming"
        BY <1>t, <2>1, <3>4 DEF GuideTypeOK
      <4>2. Final(r)' /\ route'[r] \in Nat
        BY <1>t, <2>1, <3>3, <3>8 DEF GuideTypeOK
      <4>3. asked[c].sent = 0
        BY <1>t, <2>1 DEF ReaderSound
      <4> QED
        BY <4>1, <4>2, <4>3 DEF ReaderSound, Final
    <3>11. ASSUME NEW d \in Readers, d # c PROVE ReaderSound(d)'
      <4>1. asked'[d] = asked[d] /\ call'[d] = call[d]
        BY <1>r, <1>t, <3>4, <3>7, <3>11 DEF GuideTypeOK
      <4>2. Final(asked[d].found) => Final(asked[d].found)'
        BY <3>8, <4>1 DEF Final
      <4> QED
        BY <1>t, <2>1, <4>1, <4>2 DEF ReaderSound, Final
    <3> QED
      BY <3>5, <3>6, <3>9, <3>10, <3>11 DEF GuideInv
  <2>3. CASE ~(0 <= asked[c].id /\ asked[c].id < Len(saved_routes))
    <3>1. call' = [call EXCEPT ![c] = "done"] /\ asked' = asked
      BY <1>7, <2>3 DEF Lookup
    <3>2. GuideTypeOK' /\ QueueOfWaiting'
      BY <1>t, <2>1, <3>1, WaitingKept DEF GuideTypeOK, States
    <3>3. GuideInv'
      BY <1>r, <1>t, <2>1, <3>1, <3>2, EndsSound
    <3> QED
      BY <3>3
  <2> QED
    BY <2>2, <2>3
<1>8. ASSUME NEW c \in Readers, Yield(c) PROVE GuideInv'
  <2>1. /\ call[c] = "streaming" /\ UNCHANGED <<saved_routes, waiting, route>>
        /\ c \in Calls /\ Final(asked[c].found) /\ asked[c].sent <= route[asked[c].found]
        /\ asked[c].sent \in Nat /\ route[asked[c].found] \in Nat
    BY <1>8, <1>r, <1>t DEF Yield, ReaderSound, Final, GuideTypeOK
  <2>2. CASE asked[c].sent < route[asked[c].found]
    <3>1. asked' = [asked EXCEPT ![c].sent = @ + 1] /\ call' = call
      BY <1>8, <2>2 DEF Yield
    <3>2. GuideTypeOK' /\ QueueOfWaiting' /\ SavedFinal'
      <4>1. asked' \in [Readers -> [id : Ids, found : Recorders \cup {NoRoute}, sent : Nat]]
        <5>1. asked \in [Readers -> [id : Ids, found : Recorders \cup {NoRoute}, sent : Nat]]
          BY <1>t DEF GuideTypeOK
        <5>2. [asked[c] EXCEPT !.sent = @ + 1] \in [id : Ids, found : Recorders \cup {NoRoute}, sent : Nat]
          BY <5>1
        <5>3. asked' = [asked EXCEPT ![c] = [asked[c] EXCEPT !.sent = @ + 1]]
          BY <3>1, <5>1
        <5> QED
          BY <5>1, <5>2, <5>3
      <4>2. GuideTypeOK'
        BY <1>t, <2>1, <3>1, <4>1 DEF GuideTypeOK
      <4> QED
        BY <1>t, <2>1, <3>1, <4>2 DEF QueueOfWaiting, SavedFinal, Final
    <3>3. asked'[c].found = asked[c].found /\ asked'[c].sent = asked[c].sent + 1
      BY <1>t, <3>1 DEF GuideTypeOK
    <3>4. ReaderSound(c)'
      BY <1>t, <2>1, <2>2, <3>1, <3>3 DEF ReaderSound, Final
    <3>5. ASSUME NEW d \in Readers, d # c PROVE ReaderSound(d)'
      <4>1. asked'[d] = asked[d]
        BY <1>t, <3>1, <3>5 DEF GuideTypeOK
      <4> QED
        BY <1>t, <2>1, <3>1, <4>1 DEF ReaderSound, Final
    <3> QED
      BY <3>2, <3>4, <3>5 DEF GuideInv
  <2>3. CASE ~(asked[c].sent < route[asked[c].found])
    <3>1. call' = [call EXCEPT ![c] = "done"] /\ asked' = asked
      BY <1>8, <2>3 DEF Yield
    <3>2. GuideTypeOK' /\ QueueOfWaiting'
      BY <1>t, <2>1, <3>1, WaitingKept DEF GuideTypeOK, States
    <3>3. asked[c].sent = route[asked[c].found]
      BY <2>1, <2>3
    <3> QED
      BY <1>r, <1>t, <2>1, <3>1, <3>2, <3>3, EndsSound
  <2> QED
    BY <2>2, <2>3
<1>9. ASSUME NEW c \in Calls, Cancel(c) PROVE GuideInv'
  BY <1>3, <1>9, <1>r DEF Cancel, States, Final
<1>10. ASSUME NEW c \in Calls, CancelWaiting(c) PROVE GuideInv'
  <2>1. /\ call' = [call EXCEPT ![c] = "cancelled"] /\ UNCHANGED <<saved_routes, route, asked>>
        /\ \E i \in DOMAIN waiting : waiting[i] = c /\ waiting' = RemoveAt(waiting, i)
    BY <1>10 DEF CancelWaiting
  <2>2. PICK k \in 1 .. Len(waiting) : waiting[k] = c /\ waiting' = RemoveAt(waiting, k)
    BY <1>t, <2>1 DEF GuideTypeOK
  <2>3. /\ waiting' \in Seq(Calls) /\ Len(waiting') = Len(waiting) - 1
        /\ \A i \in 1 .. Len(waiting) - 1 : waiting'[i] = waiting[IF i < k THEN i ELSE i + 1]
    BY <2>2, QueueWithout
  <2>4. QueueOfWaiting'
    BY <2>1, <2>2, <2>3, LeavesQueue
  <2>5. call[c] = "waiting"
    BY <1>t, <2>2 DEF QueueOfWaiting
  <2>6. GuideTypeOK'
    BY <1>t, <2>1, <2>3 DEF GuideTypeOK, States
  <2>7. \A d \in Calls : call'[d] = call[d] \/ (call[d] = "waiting" /\ call'[d] = "cancelled")
    BY <1>t, <2>1, <2>5 DEF GuideTypeOK
  <2>8. SavedFinal' /\ \A d \in Readers : ReaderSound(d)'
    BY <1>r, <2>1, <2>7, SoundKept DEF Final
  <2> QED
    BY <2>4, <2>6, <2>8 DEF GuideInv
<1>11. ASSUME NEW c \in Calls, OtherEnds(c) PROVE GuideInv'
  BY <1>3, <1>11, <1>r DEF OtherEnds, States
<1>12. ASSUME NEW c \in Recorders, StreamEnds(c) PROVE GuideInv'
  BY <1>3, <1>12, <1>r DEF StreamEnds, States, Final
<1>13. CASE UNCHANGED guide_vars
  <2>1. UNCHANGED <<saved_routes, waiting, call, route, asked>>
    BY <1>13 DEF guide_vars
  <2>2. GuideTypeOK' /\ QueueOfWaiting'
    BY <1>t, <2>1 DEF GuideTypeOK, QueueOfWaiting
  <2>3. SavedFinal' /\ \A d \in Readers : ReaderSound(d)'
    BY <2>1, SoundKept DEF Final
  <2> QED
    BY <2>2, <2>3 DEF GuideInv
<1> QED
  BY <1>1, <1>2, <1>4, <1>5, <1>6, <1>7, <1>8, <1>9, <1>10, <1>11, <1>12, <1>13 DEF GuideNext, RecordRoute

(* However many RecordRoute calls run at the same time, a stream of points *)
(* that RouteRetrieve has ended is the whole of a recorded route.          *)
THEOREM GuideRetrieves == GuideSpec => []RetrievedWhole
<1>1. GuideInv => RetrievedWhole
  BY DEF GuideInv, ReaderSound, RetrievedWhole
<1> QED
  BY <1>1, GuideInvInit, GuideInvNext, PTL DEF GuideSpec

-----------------------------------------------------------------------------
(***************************************************************************)
(* The message board.  A slot's descriptor is open and its own as long as  *)
(* the console is (SlotsSound), because each open descriptor belongs to    *)
(* one connection (DescsSound) and accept finds both a descriptor and a    *)
(* slot free.  The ring holds each recent post in its place (RingSound),   *)
(* and who has a slot has heard the posts since it came (HeardSound).      *)
(***************************************************************************)
PeerStates == [st : {"none", "backlog", "open", "shut", "gone", "closed"}, unread : Seq(Commands)]

BoardTypes ==
  /\ pending \subseteq Slots
  /\ client_sockets \in [Slots -> Fds] /\ n_clients \in Int
  /\ board \in [0 .. BOARD_SIZE - 1 -> Nat] /\ board_msg_count \in Nat
  /\ descs \in [Fds -> 0 .. MaxConns + 1]
  /\ peer \in [Conns -> PeerStates]
  /\ posts \in Seq(Nat) /\ since \in [Conns -> Nat] /\ got \in [Conns -> Seq(Nat)]

(* An open descriptor is the console's, or that of one connection which    *)
(* was accepted and is not closed.                                         *)
DescsSound ==
  /\ \A f \in Fds : descs[f] = Console => f = 0
  /\ \A f, g \in Fds : descs[f] = descs[g] /\ descs[f] \in Conns => f = g
  /\ \A f \in Fds : descs[f] \in Conns => peer[descs[f]].st \in {"open", "shut", "gone"}

SlotsSound ==
  descs[0] = Console =>
    /\ n_clients = Cardinality(Seated)
    /\ \A i, j \in Seated : client_sockets[i] = client_sockets[j] => i = j
    /\ \A i \in Seated : descs[client_sockets[i]] \in Conns
    /\ \A f \in Fds \ {0} : descs[f] # Closed => \E i \in Seated : client_sockets[i] = f

(* Each of the BOARD_SIZE latest posts is in its place, and nothing else.  *)
RingSound ==
  /\ board_msg_count = Len(posts)
  /\ \A k \in 1 .. board_msg_count : k > board_msg_count - BOARD_SIZE => board[Place(k - 1)] = k
  /\ \A j \in 0 .. BOARD_SIZE - 1 : board[j] # 0 =>
       /\ board[j] \in 1 .. board_msg_count /\ board[j] > board_msg_count - BOARD_SIZE
       /\ j = Place(board[j] - 1)

HeardSound ==
  /\ \A c \in Conns : since[c] <= board_msg_count
  /\ \A c \in Conns : peer[c].st \in {"none", "backlog"} => got[c] = << >>
  /\ PostsReachAll

BoardInv == BoardTypes /\ DescsSound /\ SlotsSound /\ RingSound /\ HeardSound

-----------------------------------------------------------------------------
LEMMA BoardLowest ==
  ASSUME NEW T, T \subseteq Nat, T # {}
  PROVE  Lowest(T) \in T
  BY LeastElement DEF Lowest

(* Places of the ring: one cycle apart is the same place, less is not.     *)
LEMMA PlaceIs ==
  ASSUME NEW a \in Nat
  PROVE  /\ Place(a) \in 0 .. BOARD_SIZE - 1 /\ a \div BOARD_SIZE \in Nat
         /\ a = BOARD_SIZE * (a \div BOARD_SIZE) + Place(a)
  BY BoardAssumption, SMTT(30) DEF Place

LEMMA PlaceCycle ==
  ASSUME NEW a \in Nat
  PROVE  Place(a + BOARD_SIZE) = Place(a)
<1>1. PICK q \in Nat, r \in 0 .. BOARD_SIZE - 1 : q = a \div BOARD_SIZE /\ r = Place(a) /\ a = BOARD_SIZE * q + r
  BY PlaceIs
<1>2. a + BOARD_SIZE = BOARD_SIZE * (q + 1) + r
  BY <1>1, BoardAssumption
<1>3. (BOARD_SIZE * (q + 1) + r) % BOARD_SIZE = r
  BY <1>1, BoardAssumption, SMTT(30)
<1> QED
  BY <1>1, <1>2, <1>3 DEF Place

LEMMA PlaceInjective ==
  ASSUME NEW a \in Nat, NEW b \in Nat, a < b, b - a < BOARD_SIZE
  PROVE  Place(a) # Place(b)
<1> SUFFICES ASSUME Place(a) = Place(b) PROVE FALSE
  OBVIOUS
<1>1. PICK x \in Nat, y \in Nat, r \in Nat :
        /\ r = Place(a) /\ a = BOARD_SIZE * x + r /\ b = BOARD_SIZE * y + r
  BY PlaceIs
<1>2. BOARD_SIZE \in Nat /\ BOARD_SIZE > 0
  BY BoardAssumption
<1>3. CASE y <= x
  <2>1. BOARD_SIZE * y <= BOARD_SIZE * x
    BY <1>1, <1>2, <1>3
  <2> QED
    BY <1>1, <1>2, <2>1
<1>4. CASE y >= x + 1
  <2>1. BOARD_SIZE * y >= BOARD_SIZE * (x + 1)
    BY <1>1, <1>2, <1>4
  <2>2. BOARD_SIZE * (x + 1) = BOARD_SIZE * x + BOARD_SIZE
    BY <1>1, <1>2
  <2> QED
    BY <1>1, <1>2, <2>1, <2>2
<1> QED
  BY <1>1, <1>3, <1>4

LEMMA BoardInvInit == BoardInit => BoardInv
<1> SUFFICES ASSUME BoardInit PROVE BoardInv
  OBVIOUS
<1> USE BoardAssumption
<1>1. BoardTypes
  BY DEF BoardInit, BoardTypes, PeerStates, Fds, Console, Closed, Slots, Conns
<1>2. \A f \in Fds : descs[f] = IF f = 0 THEN Console ELSE Closed
  BY DEF BoardInit
<1>3. Console \notin Conns /\ Closed \notin Conns /\ Console # Closed
  BY DEF Console, Closed, Conns
<1>4. DescsSound
  BY <1>2, <1>3 DEF DescsSound
<1>5. Seated = {}
  BY DEF BoardInit, Seated
<1>6. SlotsSound
  <2>1. Cardinality({}) = 0
    BY FS_EmptySet
  <2> QED
    BY <1>2, <1>5, <2>1 DEF SlotsSound, BoardInit
<1>7. RingSound
  BY DEF RingSound, BoardInit
<1>8. HeardSound
  <2>1. PostsReachAll
    BY <1>5 DEF PostsReachAll, Seat
  <2> QED
    BY <2>1 DEF HeardSound, BoardInit
<1> QED
  BY <1>1, <1>4, <1>6, <1>7, <1>8 DEF BoardInv

-----------------------------------------------------------------------------
(* Steps that leave slots, descriptors and board alone, and neither close  *)
(* an accepted connection nor take one back.                               *)
LEMMA BoardFrame ==
  ASSUME BoardInv, UNCHANGED <<table, posted, since>>, pending' \subseteq Slots,
         peer' \in [Conns -> PeerStates],
         \A c \in Conns :
           /\ peer[c].st \in {"open", "shut", "gone"} => peer'[c].st \in {"open", "shut", "gone"}
           /\ peer'[c].st \in {"none", "backlog"} => peer[c].st \in {"none", "backlog"}
  PROVE  BoardInv'
<1>1. UNCHANGED <<client_sockets, n_clients, descs, board, board_msg_count, posts, got, since>>
  BY DEF table, posted
<1>2. BoardTypes'
  BY <1>1 DEF BoardInv, BoardTypes
<1>3. DescsSound'
  BY <1>1 DEF BoardInv, DescsSound
<1>4. Seated' = Seated
  BY <1>1 DEF Seated
<1>5. SlotsSound'
  BY <1>1, <1>4 DEF BoardInv, SlotsSound
<1>6. RingSound'
  BY <1>1 DEF BoardInv, RingSound
<1>7. PostsReachAll'
  BY <1>1, <1>4 DEF BoardInv, HeardSound, PostsReachAll, Seat
<1>8. HeardSound'
  BY <1>1, <1>7 DEF BoardInv, HeardSound
<1> QED
  BY <1>2, <1>3, <1>5, <1>6, <1>8 DEF BoardInv

LEMMA BoardPeersKeep ==
  ASSUME BoardInv, NEW c \in Conns, NEW command \in Commands, NEW how \in {"shut", "gone"},
         PeerConnects(c) \/ PeerSends(c, command) \/ PeerLeaves(c, how) \/ OperatorTypes \/ OperatorEnds
  PROVE  BoardInv'
<1>1. UNCHANGED <<table, posted, since, pending>>
  BY DEF PeerConnects, PeerSends, PeerLeaves, OperatorTypes, OperatorEnds, Loop
<1>2. peer \in [Conns -> PeerStates] /\ pending' \subseteq Slots
  BY <1>1 DEF BoardInv, BoardTypes
<1>3. CASE PeerConnects(c)
  <2>1. peer[c].st = "none" /\ peer' = [peer EXCEPT ![c].st = "backlog"]
    BY <1>3 DEF PeerConnects
  <2>2. peer' \in [Conns -> PeerStates]
    BY <1>2, <2>1 DEF PeerStates
  <2>3. \A d \in Conns : peer'[d].st = IF d = c THEN "backlog" ELSE peer[d].st
    BY <1>2, <2>1 DEF PeerStates
  <2> QED
    BY <1>1, <1>2, <2>1, <2>2, <2>3, BoardFrame
<1>4. CASE PeerSends(c, command)
  <2>1. peer' = [peer EXCEPT ![c].unread = Append(peer[c].unread, command)]
    BY <1>4 DEF PeerSends
  <2>2. peer[c].unread \in Seq(Commands)
    BY <1>2 DEF PeerStates
  <2>3. Append(peer[c].unread, command) \in Seq(Commands)
    BY <2>2, AppendProperties
  <2>4. peer' \in [Conns -> PeerStates]
    BY <1>2, <2>1, <2>3 DEF PeerStates
  <2>5. \A d \in Conns : peer'[d].st = peer[d].st
    BY <1>2, <2>1 DEF PeerStates
  <2> QED
    BY <1>1, <1>2, <2>4, <2>5, BoardFrame
<1>5. CASE PeerLeaves(c, how)
  <2>1. peer[c].st = "open" /\ peer' = [peer EXCEPT ![c].st = how]
    BY <1>5 DEF PeerLeaves
  <2>2. peer' \in [Conns -> PeerStates]
    BY <1>2, <2>1 DEF PeerStates
  <2>3. \A d \in Conns : peer'[d].st = IF d = c THEN how ELSE peer[d].st
    BY <1>2, <2>1 DEF PeerStates
  <2> QED
    BY <1>1, <1>2, <2>1, <2>2, <2>3, BoardFrame
<1>6. CASE OperatorTypes \/ OperatorEnds
  <2>1. UNCHANGED peer
    BY <1>6 DEF OperatorTypes, OperatorEnds
  <2> QED
    BY <1>1, <1>2, <2>1, BoardFrame
<1> QED
  BY <1>3, <1>4, <1>5, <1>6

(* What a read takes out of a socket does not change what it is.           *)
LEMMA PeerAfterIs ==
  ASSUME BoardTypes, NEW fd \in Fds
  PROVE  /\ PeerAfter(fd) \in [Conns -> PeerStates]
         /\ \A c \in Conns : PeerAfter(fd)[c].st = peer[c].st
<1>1. peer \in [Conns -> PeerStates]
  BY DEF BoardTypes
<1>2. CASE descs[fd] \in Conns
  <2>1. << >> \in Seq(Commands)
    OBVIOUS
  <2>2. PICK c \in Conns : c = descs[fd]
    BY <1>2
  <2>3. PICK after : after = [peer EXCEPT ![c].unread = << >>]
    OBVIOUS
  <2>4. after \in [Conns -> PeerStates] /\ \A d \in Conns : after[d].st = peer[d].st
    BY <1>1, <2>1, <2>3 DEF PeerStates
  <2>5. PeerAfter(fd) = after
    BY <1>2, <2>2, <2>3 DEF PeerAfter
  <2> QED
    BY <2>4, <2>5
<1>3. CASE descs[fd] \notin Conns
  BY <1>1, <1>3 DEF PeerAfter
<1> QED
  BY <1>2, <1>3

(* A connection that waits has no descriptor, so one is free.              *)
LEMMA BoardDescriptorFree ==
  ASSUME BoardTypes, DescsSound, NEW c \in Conns, peer[c].st = "backlog"
  PROVE  \E f \in Fds : descs[f] = Closed
<1> SUFFICES ASSUME \A f \in Fds : descs[f] # Closed PROVE FALSE
  OBVIOUS
<1>1. MaxConns \in Nat /\ Fds = 0 .. MaxConns /\ Conns = 1 .. MaxConns
  BY BoardAssumption DEF Fds, Conns
<1>2. PICK Taken : Taken = (1 .. MaxConns + 1) \ {c}
  OBVIOUS
<1>3. \A f \in Fds : descs[f] \in Taken
  <2>1. \A f \in Fds : descs[f] \in 0 .. MaxConns + 1 /\ descs[f] # 0
    BY DEF BoardTypes, Closed
  <2>2. \A f \in Fds : descs[f] # c
    BY DEF DescsSound
  <2> QED
    BY <1>1, <1>2, <2>1, <2>2
<1>4. descs \in [Fds -> Taken]
  BY <1>3 DEF BoardTypes
<1>5. IsFiniteSet(Taken) /\ Cardinality(Taken) = MaxConns
  <2>1. IsFiniteSet(1 .. MaxConns + 1) /\ Cardinality(1 .. MaxConns + 1) = MaxConns + 1
    BY <1>1, FS_Interval
  <2>2. c \in 1 .. MaxConns + 1
    BY <1>1
  <2>3. Cardinality(Taken) = Cardinality(1 .. MaxConns + 1) - 1 /\ IsFiniteSet(Taken)
    BY <1>2, <2>1, <2>2, FS_RemoveElement
  <2> QED
    BY <1>1, <2>1, <2>3
<1>6. IsFiniteSet(Fds) /\ Cardinality(Fds) = MaxConns + 1
  <2>1. IsFiniteSet(0 .. MaxConns) /\ Cardinality(0 .. MaxConns) = MaxConns - 0 + 1
    BY <1>1, FS_Interval
  <2> QED
    BY <1>1, <2>1
<1>7. PICK f \in Fds, g \in Fds : f # g /\ descs[f] = descs[g]
  <2>1. Cardinality(Taken) < Cardinality(Fds)
    BY <1>1, <1>5, <1>6
  <2> QED
    BY <1>4, <1>5, <1>6, <2>1, FS_PigeonHole
<1>8. descs[f] \in Conns \/ descs[f] = Console
  BY <1>1, <1>2, <1>3 DEF Console
<1> QED
  BY <1>7, <1>8 DEF DescsSound

(* accept: the connection gets a descriptor and a slot that were free, or  *)
(* is shown the door.                                                      *)
LEMMA AcceptPeerKeeps ==
  ASSUME BoardInv, NEW before \in [Conns -> PeerStates], \A c \in Conns : before[c].st = peer[c].st,
         Backlog # {}, AcceptPeer(before), UNCHANGED posted, pending' \subseteq Slots
  PROVE  BoardInv'
<1>1. UNCHANGED <<board, board_msg_count, posts, got>>
  BY DEF posted
<1>2. PICK c \in Conns : c = Lowest(Backlog) /\ peer[c].st = "backlog"
  <2>1. Backlog \subseteq Nat
    BY DEF Backlog, Conns
  <2>2. Lowest(Backlog) \in Backlog
    BY <2>1, BoardLowest
  <2> QED
    BY <2>2 DEF Backlog
<1>3. CASE n_clients >= MAX_CLIENTS
  <2>1. peer' = [before EXCEPT ![c].st = "closed"] /\ UNCHANGED <<table, since>>
    BY <1>2, <1>3 DEF AcceptPeer
  <2>2. peer' \in [Conns -> PeerStates]
    BY <2>1 DEF PeerStates
  <2>3. \A d \in Conns : peer'[d].st = IF d = c THEN "closed" ELSE peer[d].st
    BY <2>1 DEF PeerStates
  <2> QED
    BY <1>2, <2>1, <2>2, <2>3, BoardFrame
<1>4. CASE ~(n_clients >= MAX_CLIENTS)
  <2>1. PICK fd \in Fds : fd = Lowest({f \in Fds : descs[f] = Closed}) /\ descs[fd] = Closed
    <3>1. \E f \in Fds : descs[f] = Closed
      BY <1>2, BoardDescriptorFree DEF BoardInv
    <3>2. {f \in Fds : descs[f] = Closed} \subseteq Nat
      BY BoardAssumption DEF Fds
    <3>3. Lowest({f \in Fds : descs[f] = Closed}) \in {f \in Fds : descs[f] = Closed}
      BY <3>1, <3>2, BoardLowest
    <3> QED
      BY <3>3
  <2>2. PICK free : free = {i \in Slots : client_sockets[i] = 0}
    OBVIOUS
  <2>3. /\ peer' = [before EXCEPT ![c].st = "open"] /\ descs' = [descs EXCEPT ![fd] = c]
        /\ since' = [since EXCEPT ![c] = board_msg_count]
        /\ IF free = {}
             THEN UNCHANGED <<client_sockets, n_clients>>
             ELSE /\ client_sockets' = [client_sockets EXCEPT ![Lowest(free)] = fd]
                  /\ n_clients' = n_clients + 1
    BY <1>2, <1>4, <2>1, <2>2 DEF AcceptPeer
  <2>4. /\ client_sockets \in [Slots -> Fds] /\ descs \in [Fds -> 0 .. MaxConns + 1]
        /\ since \in [Conns -> Nat] /\ board_msg_count \in Nat /\ n_clients \in Int
    BY DEF BoardInv, BoardTypes
  <2>5. c \in 0 .. MaxConns + 1 /\ c # Closed /\ c # Console /\ Console # Closed
    BY BoardAssumption DEF Conns, Closed, Console
  <2>6. peer' \in [Conns -> PeerStates]
    BY <2>3 DEF PeerStates
  <2>7. \A d \in Conns : peer'[d].st = IF d = c THEN "open" ELSE peer[d].st
    BY <2>3 DEF PeerStates
  <2>8. descs' \in [Fds -> 0 .. MaxConns + 1] /\ \A f \in Fds : descs'[f] = IF f = fd THEN c ELSE descs[f]
    BY <2>3, <2>4, <2>5
  <2>9. since' \in [Conns -> Nat] /\ \A d \in Conns : since'[d] = IF d = c THEN board_msg_count ELSE since[d]
    BY <2>3, <2>4
  <2>10. free # {} => Lowest(free) \in free
    <3>1. free \subseteq Nat
      BY <2>2 DEF Slots
    <3> QED
      BY <3>1, BoardLowest
  <2>11. client_sockets' \in [Slots -> Fds] /\ n_clients' \in Int
    <3>1. CASE free = {}
      BY <2>3, <2>4, <3>1
    <3>2. CASE free # {}
      BY <2>3, <2>4, <3>2
    <3> QED
      BY <3>1, <3>2
  <2>12. BoardTypes'
    BY <1>1, <2>6, <2>8, <2>9, <2>11 DEF BoardInv, BoardTypes
  <2>13. \A f \in Fds : descs[f] # c
    BY <1>2 DEF BoardInv, DescsSound
  <2>14. DescsSound'
    <3>1. \A f \in Fds : descs'[f] = Console => f = 0
      BY <2>5, <2>8 DEF BoardInv, DescsSound
    <3>2. \A f, g \in Fds : descs'[f] = descs'[g] /\ descs'[f] \in Conns => f = g
      BY <2>8, <2>13 DEF BoardInv, DescsSound
    <3>3. \A f \in Fds : descs'[f] \in Conns => peer'[descs'[f]].st \in {"open", "shut", "gone"}
      BY <2>7, <2>8, <2>13 DEF BoardInv, DescsSound
    <3> QED
      BY <3>1, <3>2, <3>3 DEF DescsSound
  <2>15. RingSound'
    BY <1>1 DEF BoardInv, RingSound
  <2>16. 0 \in Fds
    BY BoardAssumption DEF Fds
  <2>17. ASSUME descs'[0] = Console
         PROVE  /\ descs[0] = Console /\ fd # 0
                /\ \E s \in Slots \ Seated :
                     /\ \A i \in Slots : client_sockets'[i] = IF i = s THEN fd ELSE client_sockets[i]
                     /\ Seated' = Seated \cup {s}
                /\ n_clients' = n_clients + 1
    <3>1. fd # 0 /\ descs[0] = Console
      BY <2>5, <2>8, <2>16, <2>17
    <3>2. n_clients = Cardinality(Seated) /\ n_clients < MAX_CLIENTS
      BY <1>4, <2>4, <3>1, BoardAssumption DEF BoardInv, SlotsSound
    <3>3. Seated # Slots
      <4>1. Slots = 1 .. MAX_CLIENTS /\ MAX_CLIENTS \in Nat
        BY BoardAssumption DEF Slots
      <4>2. Cardinality(Slots) = MAX_CLIENTS
        <5>1. Cardinality(1 .. MAX_CLIENTS) = IF 1 > MAX_CLIENTS THEN 0 ELSE MAX_CLIENTS - 1 + 1
          BY <4>1, FS_Interval
        <5> QED
          BY <4>1, <5>1
      <4> SUFFICES ASSUME Seated = Slots PROVE FALSE
        OBVIOUS
      <4>3. Cardinality(Seated) = MAX_CLIENTS
        BY <4>2
      <4> QED
        BY <3>2, <4>1, <4>3
    <3>4. free # {} /\ free = Slots \ Seated
      BY <2>2, <3>3 DEF Seated
    <3>5. PICK s \in Slots \ Seated : s = Lowest(free)
      BY <2>10, <3>4
    <3>6. client_sockets' = [client_sockets EXCEPT ![s] = fd] /\ n_clients' = n_clients + 1
      BY <2>3, <3>4, <3>5
    <3>7. \A i \in Slots : client_sockets'[i] = IF i = s THEN fd ELSE client_sockets[i]
      BY <2>4, <3>6
    <3>8. Seated' = Seated \cup {s}
      BY <3>1, <3>5, <3>7 DEF Seated
    <3> QED
      BY <3>1, <3>5, <3>6, <3>7, <3>8
  <2>18. SlotsSound'
    <3> SUFFICES ASSUME descs'[0] = Console
                 PROVE  /\ n_clients' = Cardinality(Seated')
                        /\ \A i, j \in Seated' : client_sockets'[i] = client_sockets'[j] => i = j
                        /\ \A i \in Seated' : descs'[client_sockets'[i]] \in Conns
                        /\ \A f \in Fds \ {0} : descs'[f] # Closed => \E i \in Seated' : client_sockets'[i] = f
      BY DEF SlotsSound
    <3>1. PICK s \in Slots \ Seated :
            /\ \A i \in Slots : client_sockets'[i] = IF i = s THEN fd ELSE client_sockets[i]
            /\ Seated' = Seated \cup {s}
      BY <2>17
    <3>2. descs[0] = Console /\ n_clients' = n_clients + 1
      BY <2>17
    <3>3. Seated \subseteq Slots /\ s \notin Seated /\ s \in Slots
      BY DEF Seated
    <3>4. /\ \A i \in Seated : client_sockets[i] \in Fds /\ descs[client_sockets[i]] \in Conns
          /\ \A i, j \in Seated : client_sockets[i] = client_sockets[j] => i = j
          /\ \A f \in Fds \ {0} : descs[f] # Closed => \E i \in Seated : client_sockets[i] = f
          /\ n_clients = Cardinality(Seated)
      BY <2>4, <3>2, <3>3 DEF BoardInv, SlotsSound
    <3>5. \A i \in Seated : client_sockets[i] # fd
      BY <2>1, <3>4, BoardAssumption DEF Closed, Conns
    <3>6. Cardinality(Seated') = Cardinality(Seated) + 1
      <4>1. Slots = 1 .. MAX_CLIENTS /\ MAX_CLIENTS \in Nat
        BY BoardAssumption DEF Slots
      <4>2. IsFiniteSet(Slots)
        BY <4>1, FS_Interval
      <4>3. IsFiniteSet(Seated)
        BY <3>3, <4>2, FS_Subset
      <4> QED
        BY <3>1, <3>3, <4>3, FS_AddElement
    <3>7. \A i, j \in Seated' : client_sockets'[i] = client_sockets'[j] => i = j
      <4>1. ASSUME NEW i \in Seated'
            PROVE  \/ i = s /\ client_sockets'[i] = fd
                   \/ i \in Seated /\ client_sockets'[i] = client_sockets[i]
        <5>1. CASE i = s
          BY <3>1, <3>3, <5>1
        <5>2. CASE i # s
          <6>1. i \in Seated /\ i \in Slots
            BY <3>1, <3>3, <5>2
          <6> QED
            BY <3>1, <5>2, <6>1
        <5> QED
          BY <5>1, <5>2
      <4>2. \A i, j \in Seated : client_sockets[i] = client_sockets[j] => i = j
        BY <3>4
      <4> SUFFICES ASSUME NEW i \in Seated', NEW j \in Seated', client_sockets'[i] = client_sockets'[j]
                   PROVE  i = j
        OBVIOUS
      <4>3. CASE i = s
        BY <3>5, <4>1, <4>3, Zenon
      <4>4. CASE i \in Seated /\ client_sockets'[i] = client_sockets[i]
        BY <3>5, <4>1, <4>2, <4>4, Zenon
      <4> QED
        BY <4>1, <4>3, <4>4
    <3>8. ASSUME NEW i \in Seated' PROVE descs'[client_sockets'[i]] \in Conns
      <4>1. CASE i = s
        <5>1. client_sockets'[i] = fd
          BY <3>1, <3>3, <4>1
        <5> QED
          BY <2>1, <2>8, <5>1
      <4>2. CASE i # s
        <5>1. i \in Seated /\ i \in Slots
          BY <3>1, <3>3, <4>2
        <5>2. client_sockets'[i] = client_sockets[i]
          BY <3>1, <4>2, <5>1
        <5>3. client_sockets[i] \in Fds /\ client_sockets[i] # fd /\ descs[client_sockets[i]] \in Conns
          BY <3>4, <3>5, <5>1
        <5> QED
          BY <2>8, <5>2, <5>3
      <4> QED
        BY <4>1, <4>2
    <3>9. \A f \in Fds \ {0} : descs'[f] # Closed => \E i \in Seated' : client_sockets'[i] = f
      BY <2>8, <3>1, <3>3, <3>4
    <3> QED
      BY <3>2, <3>4, <3>6, <3>7, <3>8, <3>9
  <2>19. PostsReachAll'
    <3> SUFFICES ASSUME descs'[0] = Console, NEW d \in Conns, Seat(d)'
                 PROVE  /\ Range(got[d]) = {k \in 1 .. Len(posts) : k > since'[d] /\ posts[k] # d}
                        /\ \A i, j \in DOMAIN got[d] : i < j => got[d][i] < got[d][j]
      BY <1>1 DEF PostsReachAll
    <3>1. CASE d = c
      <4>1. got[d] = << >> /\ since'[d] = board_msg_count
        BY <1>2, <2>9, <3>1 DEF BoardInv, HeardSound
      <4>2. Range(<< >>) = {} /\ DOMAIN << >> = {}
        BY DEF Range
      <4>3. {k \in 1 .. Len(posts) : k > since'[d] /\ posts[k] # d} = {}
        BY <2>4, <4>1 DEF BoardInv, RingSound
      <4> QED
        BY <4>1, <4>2, <4>3
    <3>2. CASE d # c
      <4>1. PICK s \in Slots \ Seated :
              /\ \A i \in Slots : client_sockets'[i] = IF i = s THEN fd ELSE client_sockets[i]
              /\ Seated' = Seated \cup {s}
        BY <2>17
      <4>2. PICK i \in Seated' : descs'[client_sockets'[i]] = d
        BY DEF Seat
      <4>3. i # s
        BY <2>8, <3>2, <4>1, <4>2
      <4>4. i \in Seated /\ i \in Slots /\ client_sockets'[i] = client_sockets[i] /\ client_sockets[i] \in Fds
        BY <2>4, <4>1, <4>2, <4>3 DEF Seated
      <4>5. descs[client_sockets[i]] = d
        BY <2>8, <3>2, <4>2, <4>4
      <4>6. Seat(d) /\ descs[0] = Console /\ since'[d] = since[d]
        BY <2>9, <2>17, <3>2, <4>4, <4>5 DEF Seat
      <4> QED
        BY <4>6 DEF BoardInv, HeardSound, PostsReachAll
    <3> QED
      BY <3>1, <3>2
  <2>20. HeardSound'
    <3>1. \A d \in Conns : since'[d] <= board_msg_count
      BY <2>4, <2>9 DEF BoardInv, HeardSound
    <3>2. \A d \in Conns : peer'[d].st \in {"none", "backlog"} => got[d] = << >>
      BY <2>7 DEF BoardInv, HeardSound
    <3> QED
      BY <1>1, <2>19, <3>1, <3>2 DEF HeardSound
  <2> QED
    BY <2>12, <2>14, <2>15, <2>18, <2>20 DEF BoardInv
<1> QED
  BY <1>3, <1>4

(* The loop up to its scan.                                                *)
LEMMA BoardTurnKeeps ==
  ASSUME BoardInv, Turn \/ Stop
  PROVE  BoardInv'
<1>1. peer \in [Conns -> PeerStates]
  BY DEF BoardInv, BoardTypes
<1>2. CASE Stop
  <2>1. UNCHANGED <<table, posted, since>> /\ peer' = peer /\ pending' = pending
    BY <1>2 DEF Stop
  <2>2. pending' \subseteq Slots
    BY <2>1 DEF BoardInv, BoardTypes
  <2> QED
    BY <1>1, <2>1, <2>2, BoardFrame
<1>3. CASE Turn
  <2>1. UNCHANGED posted /\ pending' \subseteq Slots
    BY <1>3 DEF Turn, Scanned
  <2>2. PICK before : before \in {peer, PeerAfter(0)} /\ AcceptIfReady(before)
    BY <1>3 DEF Turn
  <2>3. 0 \in Fds
    BY BoardAssumption DEF Fds
  <2>4. before \in [Conns -> PeerStates] /\ \A c \in Conns : before[c].st = peer[c].st
    BY <1>1, <2>2, <2>3, PeerAfterIs DEF BoardInv
  <2>5. CASE Listener \in Ready
    <3>1. Backlog # {} /\ AcceptPeer(before)
      BY <2>2, <2>5 DEF AcceptIfReady
    <3> QED
      BY <2>1, <2>4, <3>1, AcceptPeerKeeps
  <2>6. CASE Listener \notin Ready
    <3>1. peer' = before /\ UNCHANGED <<table, since>>
      BY <2>2, <2>6 DEF AcceptIfReady
    <3> QED
      BY <2>1, <2>4, <3>1, BoardFrame
  <2> QED
    BY <2>5, <2>6
<1> QED
  BY <1>2, <1>3

(* A post takes the place of the oldest and is written to everybody with a *)
(* slot but its author.                                                    *)
LEMMA PostKeeps ==
  ASSUME BoardInv, NEW fd \in Fds, descs[fd] # Closed, Post(fd), UNCHANGED <<table, since>>,
         peer' = PeerAfter(fd), pending' \subseteq Slots
  PROVE  BoardInv'
<1>1. UNCHANGED <<client_sockets, n_clients, descs, since>>
  BY DEF table
<1>2. PICK n \in Nat : n = board_msg_count /\ n = Len(posts)
  BY DEF BoardInv, BoardTypes, RingSound
<1>3. PICK by \in Nat : by = descs[fd]
  BY BoardAssumption DEF BoardInv, BoardTypes
<1>4. /\ board' = [board EXCEPT ![Place(n)] = n + 1] /\ board_msg_count' = n + 1
      /\ posts' = Append(posts, by)
      /\ got' = [c \in Conns |-> IF c \in Listeners(fd) THEN Append(got[c], n + 1) ELSE got[c]]
  BY <1>2, <1>3 DEF Post
<1>5. /\ board \in [0 .. BOARD_SIZE - 1 -> Nat] /\ posts \in Seq(Nat) /\ got \in [Conns -> Seq(Nat)]
      /\ client_sockets \in [Slots -> Fds] /\ since \in [Conns -> Nat]
  BY DEF BoardInv, BoardTypes
<1>6. peer' \in [Conns -> PeerStates] /\ \A c \in Conns : peer'[c].st = peer[c].st
  BY PeerAfterIs DEF BoardInv
<1>7. /\ posts' \in Seq(Nat) /\ Len(posts') = n + 1 /\ posts'[n + 1] = by
      /\ \A k \in 1 .. n : posts'[k] = posts[k]
  BY <1>2, <1>3, <1>4, <1>5, AppendProperties
<1>8. \A c \in Conns : /\ Append(got[c], n + 1) \in Seq(Nat)
                       /\ got'[c] = IF c \in Listeners(fd) THEN Append(got[c], n + 1) ELSE got[c]
  BY <1>4, <1>5, AppendProperties
<1>9. BoardTypes'
  <2>1. got' \in [Conns -> Seq(Nat)]
    BY <1>4, <1>5, <1>8
  <2>2. PICK place \in 0 .. BOARD_SIZE - 1 : place = Place(n)
    BY PlaceIs
  <2>3. n + 1 \in Nat /\ board' = [board EXCEPT ![place] = n + 1]
    BY <1>4, <2>2
  <2>4. board' \in [0 .. BOARD_SIZE - 1 -> Nat]
    BY <1>5, <2>3
  <2> QED
    BY <1>1, <1>4, <1>6, <1>7, <2>1, <2>3, <2>4 DEF BoardInv, BoardTypes
<1>10. DescsSound'
  BY <1>1, <1>6 DEF BoardInv, DescsSound
<1>11. Seated' = Seated
  BY <1>1 DEF Seated
<1>12. SlotsSound'
  BY <1>1, <1>11 DEF BoardInv, SlotsSound
<1>13. RingSound'
  <2>1. BOARD_SIZE \in Nat /\ BOARD_SIZE > 0
    BY BoardAssumption
  <2>2. Place(n) \in 0 .. BOARD_SIZE - 1
    BY PlaceIs
  <2>3. \A j \in 0 .. BOARD_SIZE - 1 : board'[j] = IF j = Place(n) THEN n + 1 ELSE board[j]
    BY <1>4, <1>5
  <2>4. ASSUME NEW k \in 1 .. n + 1, k > n + 1 - BOARD_SIZE PROVE board'[Place(k - 1)] = k
    <3>1. CASE k = n + 1
      <4>1. k - 1 = n
        BY <3>1
      <4> QED
        BY <2>2, <2>3, <3>1, <4>1
    <3>2. CASE k # n + 1
      <4>1. k \in 1 .. n /\ k > n - BOARD_SIZE /\ k - 1 \in Nat /\ k - 1 < n /\ n - (k - 1) < BOARD_SIZE
        BY <2>1, <2>4, <3>2
      <4>2. board[Place(k - 1)] = k
        BY <1>2, <4>1 DEF BoardInv, RingSound
      <4>3. Place(k - 1) # Place(n) /\ Place(k - 1) \in 0 .. BOARD_SIZE - 1
        BY <4>1, PlaceInjective, PlaceIs
      <4> QED
        BY <2>3, <4>2, <4>3
    <3> QED
      BY <3>1, <3>2
  <2>5. ASSUME NEW j \in 0 .. BOARD_SIZE - 1, board'[j] # 0
        PROVE  /\ board'[j] \in 1 .. n + 1 /\ board'[j] > n + 1 - BOARD_SIZE
               /\ j = Place(board'[j] - 1)
    <3>1. CASE j = Place(n)
      <4>1. board'[j] = n + 1 /\ (n + 1) - 1 = n
        BY <2>3, <3>1
      <4> QED
        BY <2>1, <3>1, <4>1
    <3>2. CASE j # Place(n)
      <4>1. PICK k \in Nat : k = board[j] /\ k = board'[j]
        BY <1>5, <2>3, <3>2
      <4>2. k \in 1 .. n /\ k > n - BOARD_SIZE /\ j = Place(k - 1)
        BY <1>2, <2>5, <4>1 DEF BoardInv, RingSound
      <4>3. k # n + 1 - BOARD_SIZE
        <5> SUFFICES ASSUME k = n + 1 - BOARD_SIZE PROVE FALSE
          OBVIOUS
        <5>1. k - 1 \in Nat /\ (k - 1) + BOARD_SIZE = n
          BY <2>1, <4>2
        <5>2. Place(n) = Place(k - 1)
          BY <5>1, PlaceCycle
        <5> QED
          BY <3>2, <4>2, <5>2
      <4> QED
        BY <2>1, <4>1, <4>2, <4>3
    <3> QED
      BY <3>1, <3>2
  <2>6. board_msg_count' = n + 1 /\ Len(posts') = n + 1
    BY <1>4, <1>7
  <2>7. \A k \in 1 .. board_msg_count' : k > board_msg_count' - BOARD_SIZE => board'[Place(k - 1)] = k
    BY <2>1, <2>4, <2>6
  <2>8. \A j \in 0 .. BOARD_SIZE - 1 : board'[j] # 0 =>
          /\ board'[j] \in 1 .. board_msg_count' /\ board'[j] > board_msg_count' - BOARD_SIZE
          /\ j = Place(board'[j] - 1)
    BY <2>1, <2>5, <2>6
  <2> QED
    BY <2>6, <2>7, <2>8 DEF RingSound
<1>14. \A c \in Conns : c \in Listeners(fd) => by # c /\ \E f \in Fds : descs[f] = c
  BY <1>3, <1>5 DEF Listeners, BoardInv, DescsSound
<1>15. PostsReachAll'
  <2> SUFFICES ASSUME descs[0] = Console, NEW c \in Conns, Seat(c)
               PROVE  /\ Range(got'[c]) = {k \in 1 .. Len(posts') : k > since[c] /\ posts'[k] # c}
                      /\ \A i, j \in DOMAIN got'[c] : i < j => got'[c][i] < got'[c][j]
    BY <1>1, <1>11 DEF PostsReachAll, Seat
  <2>1. /\ Range(got[c]) = {k \in 1 .. n : k > since[c] /\ posts[k] # c}
        /\ \A i, j \in DOMAIN got[c] : i < j => got[c][i] < got[c][j]
    BY <1>2 DEF BoardInv, HeardSound, PostsReachAll
  <2>2. since[c] \in Nat /\ since[c] <= n
    BY <1>2, <1>5 DEF BoardInv, HeardSound
  <2>3. c \in Listeners(fd) <=> c # by
    <3>1. PICK i \in Seated : descs[client_sockets[i]] = c
      BY DEF Seat
    <3>2. c # by => client_sockets[i] # fd
      BY <1>3, <3>1
    <3>3. i \in Slots /\ client_sockets[i] # 0
      BY DEF Seated
    <3>4. c # by => c \in Listeners(fd)
      BY <3>1, <3>2, <3>3 DEF Listeners
    <3> QED
      BY <1>14, <3>4
  <2>4. CASE c # by
    <3>1. PICK m \in Nat : m = Len(got[c]) /\ DOMAIN got[c] = 1 .. m
      BY <1>5
    <3>2. PICK heard : heard = got'[c] /\ heard = Append(got[c], n + 1)
      BY <1>8, <2>3, <2>4
    <3>3. /\ heard \in Seq(Nat) /\ Len(heard) = m + 1 /\ DOMAIN heard = 1 .. m + 1
          /\ heard[m + 1] = n + 1 /\ \A i \in 1 .. m : heard[i] = got[c][i]
      BY <1>5, <3>1, <3>2, AppendProperties
    <3>4. \A i \in 1 .. m : got[c][i] \in Range(got[c])
      BY <3>1 DEF Range
    <3>5. \A i \in 1 .. m : got[c][i] \in 1 .. n
      BY <2>1, <3>4
    <3>6. \A i, j \in 1 .. m + 1 : i < j => heard[i] < heard[j]
      <4> SUFFICES ASSUME NEW i \in 1 .. m + 1, NEW j \in 1 .. m + 1, i < j PROVE heard[i] < heard[j]
        OBVIOUS
      <4>1. CASE j = m + 1
        BY <3>3, <3>5, <4>1
      <4>2. CASE j # m + 1
        <5>1. i \in 1 .. m /\ j \in 1 .. m
          BY <4>2
        <5>2. got[c][i] < got[c][j]
          BY <2>1, <3>1, <5>1
        <5> QED
          BY <3>3, <5>1, <5>2
      <4> QED
        BY <4>1, <4>2
    <3>7. \A k : k \in Range(heard) <=> k = n + 1 \/ k \in Range(got[c])
      <4>1. ASSUME NEW i \in 1 .. m + 1 PROVE heard[i] = n + 1 \/ heard[i] \in Range(got[c])
        BY <3>3, <3>4
      <4>2. n + 1 \in Range(heard)
        <5>1. m + 1 \in DOMAIN heard
          BY <3>3
        <5> QED
          BY <3>3, <5>1 DEF Range
      <4>3. ASSUME NEW k \in Range(got[c]) PROVE k \in Range(heard)
        <5>1. PICK i \in 1 .. m : k = got[c][i]
          BY <3>1 DEF Range
        <5>2. i \in DOMAIN heard /\ heard[i] = k
          BY <3>3, <5>1
        <5> QED
          BY <5>2 DEF Range
      <4>4. ASSUME NEW k \in Range(heard) PROVE k = n + 1 \/ k \in Range(got[c])
        <5>1. PICK i \in 1 .. m + 1 : k = heard[i]
          BY <3>3 DEF Range
        <5> QED
          BY <4>1, <5>1
      <4> QED
        BY <4>2, <4>3, <4>4
    <3>8. Range(heard) = {k \in 1 .. n + 1 : k > since[c] /\ posts'[k] # c}
      <4>1. \A k \in 1 .. n + 1 : k = n + 1 \/ k \in 1 .. n
        OBVIOUS
      <4>2. n + 1 \in 1 .. n + 1 /\ n + 1 > since[c] /\ \A k \in 1 .. n : k \in 1 .. n + 1 /\ k # n + 1
        BY <2>2
      <4> QED
        BY <1>7, <2>1, <2>4, <3>7, <4>1, <4>2
    <3> QED
      BY <1>7, <3>2, <3>3, <3>6, <3>8
  <2>5. CASE c = by
    <3>1. got'[c] = got[c]
      BY <1>8, <2>3, <2>5
    <3>2. {k \in 1 .. n + 1 : k > since[c] /\ posts'[k] # c} = {k \in 1 .. n : k > since[c] /\ posts[k] # c}
      BY <1>7, <2>5
    <3> QED
      BY <1>7, <2>1, <3>1, <3>2
  <2> QED
    BY <2>4, <2>5
<1>16. HeardSound'
  <2>1. \A c \in Conns : since[c] <= n + 1
    BY <1>2, <1>5 DEF BoardInv, HeardSound
  <2>2. \A c \in Conns : peer'[c].st \in {"none", "backlog"} => got'[c] = << >>
    BY <1>6, <1>8, <1>14 DEF BoardInv, DescsSound, HeardSound
  <2> QED
    BY <1>1, <1>4, <1>15, <2>1, <2>2 DEF HeardSound
<1> QED
  BY <1>9, <1>10, <1>12, <1>13, <1>16 DEF BoardInv

(* A slot is given up with the descriptor it holds.                        *)
LEMMA DropKeeps ==
  ASSUME BoardInv, NEW s \in Slots, Drop(s), UNCHANGED <<posted, since>>, pending' \subseteq Slots
  PROVE  BoardInv'
<1>1. UNCHANGED <<board, board_msg_count, posts, got, since>>
  BY DEF posted
<1>2. /\ client_sockets \in [Slots -> Fds] /\ n_clients \in Int
      /\ descs \in [Fds -> 0 .. MaxConns + 1] /\ peer \in [Conns -> PeerStates]
  BY DEF BoardInv, BoardTypes
<1>3. PICK f \in Fds : f = client_sockets[s]
  BY <1>2
<1>4. MaxConns \in Nat /\ 0 \in Fds /\ 0 \notin Conns /\ Closed = 0 /\ Console # Closed /\ Console \notin Conns
  BY BoardAssumption DEF Fds, Conns, Closed, Console
<1>5. /\ client_sockets' = [client_sockets EXCEPT ![s] = 0] /\ descs' = [descs EXCEPT ![f] = 0]
      /\ peer' = [c \in Conns |-> IF c = descs[f] THEN [peer[c] EXCEPT !.st = "closed"] ELSE peer[c]]
      /\ n_clients' = n_clients - 1
  BY <1>3, <1>4 DEF Drop
<1>6. /\ \A j \in Slots : client_sockets'[j] = IF j = s THEN 0 ELSE client_sockets[j]
      /\ \A g \in Fds : descs'[g] = IF g = f THEN 0 ELSE descs[g]
  BY <1>2, <1>5
<1>7. ASSUME NEW c \in Conns
      PROVE  peer'[c] \in PeerStates /\ peer'[c].st = IF c = descs[f] THEN "closed" ELSE peer[c].st
  <2>1. peer[c] \in PeerStates /\ peer'[c] = IF c = descs[f] THEN [peer[c] EXCEPT !.st = "closed"] ELSE peer[c]
    BY <1>2, <1>5
  <2> QED
    BY <2>1 DEF PeerStates
<1>8. BoardTypes'
  <2>1. peer' \in [Conns -> PeerStates]
    BY <1>5, <1>7
  <2>2. /\ client_sockets' \in [Slots -> Fds] /\ n_clients' \in Int
        /\ descs' \in [Fds -> 0 .. MaxConns + 1]
    BY <1>2, <1>4, <1>5
  <2> QED
    BY <1>1, <2>1, <2>2 DEF BoardInv, BoardTypes
<1>9. DescsSound'
  <2>1. \A g \in Fds : descs'[g] = Console => g = 0
    BY <1>4, <1>6 DEF BoardInv, DescsSound
  <2>2. \A g, h \in Fds : descs'[g] = descs'[h] /\ descs'[g] \in Conns => g = h
    BY <1>4, <1>6 DEF BoardInv, DescsSound
  <2>3. ASSUME NEW g \in Fds, descs'[g] \in Conns PROVE peer'[descs'[g]].st \in {"open", "shut", "gone"}
    <3>1. g # f /\ descs'[g] = descs[g]
      BY <1>4, <1>6, <2>3
    <3>2. descs[g] # descs[f] /\ peer[descs[g]].st \in {"open", "shut", "gone"}
      BY <2>3, <3>1 DEF BoardInv, DescsSound
    <3> QED
      BY <1>7, <2>3, <3>1, <3>2
  <2> QED
    BY <2>1, <2>2, <2>3 DEF DescsSound, Console
<1>10. SlotsSound'
  <2> SUFFICES ASSUME descs'[0] = Console
               PROVE  /\ n_clients' = Cardinality(Seated')
                      /\ \A i, j \in Seated' : client_sockets'[i] = client_sockets'[j] => i = j
                      /\ \A i \in Seated' : descs'[client_sockets'[i]] \in Conns
                      /\ \A g \in Fds \ {0} : descs'[g] # Closed => \E i \in Seated' : client_sockets'[i] = g
    BY DEF SlotsSound, Console, Closed
  <2>1. f # 0 /\ descs[0] = Console
    BY <1>4, <1>6
  <2>2. /\ n_clients = Cardinality(Seated)
        /\ \A i, j \in Seated : client_sockets[i] = client_sockets[j] => i = j
        /\ \A i \in Seated : descs[client_sockets[i]] \in Conns
        /\ \A g \in Fds \ {0} : descs[g] # Closed => \E i \in Seated : client_sockets[i] = g
    BY <2>1 DEF BoardInv, SlotsSound
  <2>3. s \in Seated
    BY <1>3, <2>1 DEF Seated
  <2>4. Seated' = Seated \ {s}
    BY <1>6 DEF Seated
  <2>5. IsFiniteSet(Seated) /\ Seated \subseteq Slots
    <3>1. IsFiniteSet(Slots)
      BY BoardAssumption, FS_Interval DEF Slots
    <3> QED
      BY <3>1, FS_Subset DEF Seated
  <2>6. n_clients' = Cardinality(Seated')
    <3>1. Cardinality(Seated \ {s}) = Cardinality(Seated) - 1
      BY <2>3, <2>5, FS_RemoveElement
    <3> QED
      BY <1>5, <2>2, <2>4, <3>1
  <2>7. \A i \in Seated' : i \in Seated /\ i # s /\ client_sockets'[i] = client_sockets[i]
                           /\ client_sockets[i] \in Fds /\ client_sockets[i] # f
    BY <1>2, <1>3, <1>6, <2>2, <2>3, <2>4, <2>5
  <2>8. \A i \in Seated' : descs'[client_sockets'[i]] \in Conns
    BY <1>6, <2>2, <2>7
  <2>9. ASSUME NEW g \in Fds \ {0}, descs'[g] # Closed PROVE \E i \in Seated' : client_sockets'[i] = g
    <3>1. g # f /\ descs[g] # Closed
      BY <1>4, <1>6, <2>9
    <3>2. PICK i \in Seated : client_sockets[i] = g
      BY <2>2, <3>1
    <3>3. i \in Seated' /\ client_sockets'[i] = g
      BY <1>3, <1>6, <2>4, <2>5, <3>1, <3>2
    <3> QED
      BY <3>3
  <2> QED
    BY <2>2, <2>6, <2>7, <2>8, <2>9
<1>11. RingSound'
  BY <1>1 DEF BoardInv, RingSound
<1>12. PostsReachAll'
  <2> SUFFICES ASSUME descs'[0] = Console, NEW c \in Conns, Seat(c)'
               PROVE  /\ Range(got[c]) = {k \in 1 .. Len(posts) : k > since[c] /\ posts[k] # c}
                      /\ \A i, j \in DOMAIN got[c] : i < j => got[c][i] < got[c][j]
    BY <1>1 DEF PostsReachAll, Console
  <2>1. descs[0] = Console
    BY <1>4, <1>6
  <2>2. PICK i \in Slots : client_sockets'[i] # 0 /\ descs'[client_sockets'[i]] = c
    BY DEF Seat, Seated
  <2>3. i # s /\ client_sockets'[i] = client_sockets[i] /\ client_sockets[i] \in Fds
    BY <1>2, <1>6, <2>2
  <2>4. descs[client_sockets[i]] = c /\ i \in Seated
    BY <1>4, <1>6, <2>2, <2>3 DEF Seated
  <2> QED
    BY <2>1, <2>4 DEF BoardInv, HeardSound, PostsReachAll, Seat
<1>13. HeardSound'
  <2>1. \A c \in Conns : peer'[c].st \in {"none", "backlog"} => peer[c].st \in {"none", "backlog"}
    BY <1>7
  <2> QED
    BY <1>1, <1>12, <2>1 DEF BoardInv, HeardSound
<1> QED
  BY <1>8, <1>9, <1>10, <1>11, <1>13 DEF BoardInv

(* The scan reads a slot that is a slot, whatever its descriptor.          *)
LEMMA ScanKeeps ==
  ASSUME BoardInv, Scan
  PROVE  BoardInv'
<1>1. NextSlot \in pending
  <2>1. pending \subseteq Nat /\ pending # {}
    BY DEF BoardInv, BoardTypes, Slots, Scan
  <2> QED
    BY <2>1, BoardLowest DEF NextSlot
<1>2. PICK s \in Slots : s = NextSlot
  BY <1>1 DEF BoardInv, BoardTypes
<1>3. PICK fd \in Fds : fd = client_sockets[s]
  BY DEF BoardInv, BoardTypes
<1>4. pending' \subseteq Slots /\ UNCHANGED since
  BY DEF Scan, BoardInv, BoardTypes
<1>5. CASE ReadGets(fd) /\ peer' = PeerAfter(fd) /\ Obey(fd, Head(Input(fd))) /\ UNCHANGED table
  <2>1. CASE Post(fd)
    <3>1. descs[fd] # Closed
      <4>1. Closed # Console
        BY BoardAssumption DEF Closed, Console
      <4> QED
        BY <1>5, <4>1 DEF ReadGets, Input
    <3> QED
      BY <1>4, <1>5, <2>1, <3>1, PostKeeps
  <2>2. CASE UNCHANGED posted
    <3>1. PeerAfter(fd) \in [Conns -> PeerStates] /\ \A c \in Conns : PeerAfter(fd)[c].st = peer[c].st
      BY PeerAfterIs DEF BoardInv
    <3> QED
      BY <1>4, <1>5, <2>2, <3>1, BoardFrame
  <2> QED
    BY <1>5, <2>1, <2>2 DEF Obey
<1>6. CASE Drop(s) /\ UNCHANGED posted
  BY <1>4, <1>6, DropKeeps
<1> QED
  BY <1>2, <1>3, <1>5, <1>6 DEF Scan

LEMMA BoardInvNext == BoardInv /\ [BoardNext]_board_vars => BoardInv'
<1> SUFFICES ASSUME BoardInv, [BoardNext]_board_vars PROVE BoardInv'
  OBVIOUS
<1>1. ASSUME NEW c \in Conns,
             \/ PeerConnects(c)
             \/ \E command \in Commands : PeerSends(c, command)
             \/ \E how \in {"shut", "gone"} : PeerLeaves(c, how)
      PROVE  BoardInv'
  BY <1>1, BoardPeersKeep DEF Commands
<1>2. CASE OperatorTypes \/ OperatorEnds
  <2>1. UNCHANGED <<table, posted, since, pending, peer>>
    BY <1>2 DEF OperatorTypes, OperatorEnds, Loop
  <2>2. peer \in [Conns -> PeerStates] /\ pending' \subseteq Slots
    BY <2>1 DEF BoardInv, BoardTypes
  <2> QED
    BY <2>1, <2>2, BoardFrame
<1>3. CASE BoardLoop
  BY <1>3, BoardTurnKeeps, ScanKeeps DEF BoardLoop
<1>4. CASE UNCHANGED board_vars
  <2>1. UNCHANGED <<table, posted, since, pending, peer>>
    BY <1>4 DEF board_vars
  <2>2. peer \in [Conns -> PeerStates] /\ pending' \subseteq Slots
    BY <2>1 DEF BoardInv, BoardTypes
  <2> QED
    BY <2>1, <2>2, BoardFrame
<1> QED
  BY <1>1, <1>2, <1>3, <1>4 DEF BoardNext

-----------------------------------------------------------------------------
(* As long as the console is open, the counter that admits clients is the  *)
(* number of slots in use, each slot has an open descriptor of its own,    *)
(* and every open connection has a slot.                                   *)
THEOREM BoardSlots == BoardSpec => []SlotsCounted
<1>1. BoardInv => SlotsCounted
  <2> SUFFICES ASSUME BoardInv, descs[0] = Console,
                      NEW f \in Fds \ {0}, descs[f] # Closed
               PROVE  Seat(descs[f])
    BY DEF SlotsCounted, BoardInv, SlotsSound
  <2> QED
    BY DEF BoardInv, SlotsSound, Seat
<1> QED
  BY <1>1, BoardInvInit, BoardInvNext, PTL DEF BoardSpec

(* The board holds the BOARD_SIZE latest posts, wherever the ring is.      *)
THEOREM BoardRecentHolds == BoardSpec => []BoardRecent
<1>1. BoardInv => BoardRecent
  <2> SUFFICES ASSUME BoardInv PROVE BoardRecent
    OBVIOUS
  <2>1. PICK n \in Nat : n = board_msg_count /\ n = Len(posts)
    BY DEF BoardInv, BoardTypes, RingSound
  <2>2. BOARD_SIZE \in Nat /\ BOARD_SIZE > 0
    BY BoardAssumption
  <2>3. board \in [0 .. BOARD_SIZE - 1 -> Nat]
    BY DEF BoardInv, BoardTypes
  <2>4. \A k \in 1 .. n : k > n - BOARD_SIZE => board[Place(k - 1)] = k
    BY <2>1 DEF BoardInv, RingSound
  <2>5. \A j \in 0 .. BOARD_SIZE - 1 : board[j] # 0 => board[j] \in 1 .. n /\ board[j] > n - BOARD_SIZE
    BY <2>1 DEF BoardInv, RingSound
  <2>6. PICK low \in Int : /\ low = n - Least(n, BOARD_SIZE) + 1
                           /\ low >= 1 /\ low > n - BOARD_SIZE /\ (low = 1 \/ low = n - BOARD_SIZE + 1)
    <3>1. PICK least \in Nat : /\ least = Least(n, BOARD_SIZE) /\ least <= n /\ least <= BOARD_SIZE
                              /\ (least = n \/ least = BOARD_SIZE)
      BY <2>2 DEF Least
    <3>2. n - least + 1 \in Int /\ n - least + 1 >= 1 /\ n - least + 1 > n - BOARD_SIZE
      BY <2>2, <3>1
    <3>3. n - least + 1 = 1 \/ n - least + 1 = n - BOARD_SIZE + 1
      BY <2>2, <3>1
    <3> QED
      BY <3>1, <3>2, <3>3
  <2>7. ASSUME NEW j \in 0 .. BOARD_SIZE - 1, board[j] # 0 PROVE board[j] \in low .. n
    <3>1. PICK k \in 1 .. n : k = board[j] /\ k > n - BOARD_SIZE
      BY <2>5, <2>7
    <3>2. k \in low .. n
      BY <2>2, <2>6, <3>1
    <3> QED
      BY <3>1, <3>2
  <2>8. ASSUME NEW k \in low .. n PROVE k # 0 /\ \E j \in 0 .. BOARD_SIZE - 1 : board[j] = k
    <3>1. k \in 1 .. n /\ k > n - BOARD_SIZE /\ k - 1 \in Nat
      BY <2>2, <2>6
    <3>2. Place(k - 1) \in 0 .. BOARD_SIZE - 1
      BY <3>1, PlaceIs
    <3> QED
      BY <2>4, <3>1, <3>2
  <2>9. {board[j] : j \in DOMAIN board} \ {0} = low .. n
    <3>1. DOMAIN board = 0 .. BOARD_SIZE - 1
      BY <2>3
    <3> QED
      BY <2>7, <2>8, <3>1
  <2> QED
    BY <2>1, <2>6, <2>9 DEF BoardRecent
<1> QED
  BY <1>1, BoardInvInit, BoardInvNext, PTL DEF BoardSpec

(* Whoever has a slot has been sent what others posted since it came, once *)
(* and in the order of the board.                                          *)
THEOREM BoardPosts == BoardSpec => []PostsReachAll
<1>1. BoardInv => PostsReachAll
  BY DEF BoardInv, HeardSound
<1> QED
  BY <1>1, BoardInvInit, BoardInvNext, PTL DEF BoardSpec
=============================================================================
