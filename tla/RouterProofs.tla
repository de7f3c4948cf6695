---------------------------- MODULE RouterProofs ----------------------------
(***************************************************************************)
(* Safety of the distance-vector tables for every network of routers, link *)
(* costs, configuration and INF_COST, with any number of crashes, restarts *)
(* and outages.                                                            *)
(*                                                                         *)
(* The argument for CostSound: what a router advertises is its own cost or *)
(* INF_COST, so no message in any socket offers less than the sender's     *)
(* least cost, and adding the link cost keeps the sum above the least cost *)
(* of the receiver.                                                        *)
(***************************************************************************)
EXTENDS RouterForward, RouterTable, SequenceTheorems, WellFoundedInduction, TLAPS

(* Every DV in flight offers costs that the sender could at best have. *)
OffersSound ==
  \A a, b \in Router : \A i \in 1 .. Len(channel[a][b]) : \A n \in Net :
    channel[a][b][i][n] >= Dist[a][n]

RouterInv == DVTypeOK /\ CostSound /\ OffersSound

USE DEF Cost, Route, DV

-----------------------------------------------------------------------------
(* One relaxation step: the entry stays well formed, and it stays above    *)
(* any bound that the old entry and the offer respect.                     *)
LEMMA RelaxSound ==
  ASSUME NEW entry \in Route, NEW b \in Router, NEW cost \in Cost, NEW link \in Nat,
         NEW d \in Cost, d <= entry.cost, d <= link + cost
  PROVE  Relax(entry, b, cost, link) \in Route /\ Relax(entry, b, cost, link).cost >= d
<1> DEFINE new == IF link + cost > INF_COST THEN INF_COST ELSE link + cost
<1>1. INF_COST \in Nat /\ cost \in 0 .. INF_COST /\ d \in 0 .. INF_COST
  BY RouterAssumption
<1>2. new \in 0 .. INF_COST /\ new >= d
  BY <1>1
<1>3. entry.cost \in 0 .. INF_COST /\ entry.next_hop \in Router \cup {Direct}
  BY <1>1
<1>4. [entry EXCEPT !.cost = INF_COST] \in Route /\ [entry EXCEPT !.cost = INF_COST].cost = INF_COST
  BY <1>1
<1>5. [cost |-> new, next_hop |-> b] \in Route
  BY <1>2
<1>6. \/ Relax(entry, b, cost, link) = entry
      \/ Relax(entry, b, cost, link) = [entry EXCEPT !.cost = INF_COST]
      \/ Relax(entry, b, cost, link) = [cost |-> new, next_hop |-> b]
  BY DEF Relax
<1> HIDE DEF new
<1> QED
  BY <1>1, <1>2, <1>3, <1>4, <1>5, <1>6

(* A relaxation leaves a connected route alone. *)
LEMMA RelaxConnected ==
  ASSUME NEW b \in Router, NEW cost \in Cost, NEW link \in Nat
  PROVE  LET entry == [cost |-> 0, next_hop |-> Direct]
         IN  Relax(entry, b, cost, link) = entry
  BY RouterAssumption DEF Relax

(* Poisoning makes no route cheaper and turns none to another neighbour.   *)
LEMMA PoisonedSound ==
  ASSUME NEW table \in [Net -> Route], NEW b \in Router
  PROVE  /\ Poisoned(table, b) \in [Net -> Route]
         /\ \A n \in Net : Poisoned(table, b)[n].cost >= table[n].cost
         /\ \A n \in Net : table[n].next_hop # b => Poisoned(table, b)[n] = table[n]
         /\ \A n \in Net : Poisoned(table, b)[n].next_hop = table[n].next_hop
         /\ \A n \in Net : table[n].next_hop = b => Poisoned(table, b)[n].cost = INF_COST
<1>1. INF_COST \in Nat
  BY RouterAssumption
<1>2. ASSUME NEW n \in Net
      PROVE  LET e == [table[n] EXCEPT !.cost = INF_COST]
             IN  /\ e \in Route /\ e.cost = INF_COST /\ e.next_hop = table[n].next_hop
                 /\ table[n] \in Route /\ table[n].cost \in Nat /\ table[n].cost <= INF_COST
  <2>1. table[n] \in Route
    BY <1>2
  <2> QED
    BY <1>1, <2>1
<1>3. ASSUME NEW n \in Net
      PROVE  Poisoned(table, b)[n] = IF table[n].next_hop = b THEN [table[n] EXCEPT !.cost = INF_COST]
                                     ELSE table[n]
  BY DEF Poisoned
<1>4. Poisoned(table, b) \in [Net -> Route]
  BY <1>2 DEF Poisoned
<1>5. ASSUME NEW n \in Net, table[n].next_hop = b
      PROVE  /\ Poisoned(table, b)[n].cost = INF_COST /\ INF_COST >= table[n].cost
             /\ Poisoned(table, b)[n].next_hop = table[n].next_hop
  <2>1. Poisoned(table, b)[n] = [table[n] EXCEPT !.cost = INF_COST]
    BY <1>3, <1>5
  <2> QED
    BY <1>1, <1>2, <2>1
<1>6. ASSUME NEW n \in Net, table[n].next_hop # b
      PROVE  Poisoned(table, b)[n] = table[n] /\ table[n].cost >= table[n].cost
  <2>1. table[n].cost \in Nat
    BY <1>2
  <2>2. Poisoned(table, b)[n] = table[n]
    BY <1>3, <1>6
  <2> QED
    BY <2>1, <2>2
<1> QED
  BY <1>4, <1>5, <1>6

LEMMA AdvertSound ==
  ASSUME NEW table \in [Net -> Route], NEW b \in Router
  PROVE  /\ Advert(table, b) \in DV
         /\ \A n \in Net : Advert(table, b)[n] >= table[n].cost
  BY RouterAssumption DEF Advert

(* broadcast_dv puts at most one DV into each socket, and it is sound.     *)
LEMMA SentSound ==
  ASSUME DVTypeOK, OffersSound, NEW r \in Router, NEW table \in [Net -> Route], NEW living,
         \A n \in Net : table[n].cost >= Dist[r][n]
  PROVE  LET after == Sent(r, table, living)
         IN  /\ after \in [Router -> [Router -> Seq(DV)]]
             /\ \A a, b \in Router : \A i \in 1 .. Len(after[a][b]) : \A n \in Net :
                  after[a][b][i][n] >= Dist[a][n]
<1> DEFINE after == Sent(r, table, living)
<1>1. \A b \in Router : \/ after[r][b] = channel[r][b]
                        \/ after[r][b] = Append(channel[r][b], Advert(table, b))
  BY DEF Sent, DVTypeOK
<1>2. \A a \in Router \ {r} : after[a] = channel[a]
  BY DEF Sent, DVTypeOK
<1>3. \A b \in Router : after[r][b] \in Seq(DV)
  <2> TAKE b \in Router
  <2>1. channel[r][b] \in Seq(DV)
    BY DEF DVTypeOK
  <2>2. Advert(table, b) \in DV
    BY AdvertSound
  <2> HIDE DEF after, DV
  <2>3. Append(channel[r][b], Advert(table, b)) \in Seq(DV)
    BY <2>1, <2>2
  <2> QED
    BY <1>1, <2>1, <2>3
<1>4. after \in [Router -> [Router -> Seq(DV)]]
  <2>1. DOMAIN after = Router /\ DOMAIN after[r] = Router
    BY DEF Sent, DVTypeOK
  <2>2. after = [a \in Router |-> after[a]]
    BY <2>1 DEF Sent, DVTypeOK
  <2>3. after[r] \in [Router -> Seq(DV)]
    BY <1>3 DEF Sent, DVTypeOK
  <2> HIDE DEF after
  <2> QED
    BY <1>2, <2>2, <2>3 DEF DVTypeOK
<1>5. ASSUME NEW a \in Router, NEW b \in Router, NEW i \in 1 .. Len(after[a][b]), NEW n \in Net
      PROVE  after[a][b][i][n] >= Dist[a][n]
  <2> HIDE DEF after
  <2>1. CASE after[a][b] = channel[a][b]
    BY <1>5, <2>1 DEF OffersSound
  <2>2. CASE a = r /\ after[r][b] = Append(channel[r][b], Advert(table, b))
    <3>1. channel[r][b] \in Seq(DV) /\ Len(channel[r][b]) \in Nat
      <4> HIDE DEF DV
      <4> QED
        BY DEF DVTypeOK
    <3>2. CASE i = Len(channel[r][b]) + 1
      <4>1. after[a][b][i] = Advert(table, b)
        BY <2>2, <3>1, <3>2
      <4>2. Advert(table, b)[n] >= table[n].cost /\ Advert(table, b)[n] \in Nat
        <5>1. Advert(table, b) \in [Net -> 0 .. INF_COST] /\ Advert(table, b)[n] >= table[n].cost
          BY AdvertSound
        <5>2. 0 .. INF_COST \subseteq Nat
          BY RouterAssumption
        <5> QED
          BY <5>1, <5>2
      <4>3. table[n].cost \in Nat /\ Dist[r][n] \in Nat /\ table[n].cost >= Dist[r][n]
        BY RouterAssumption, DistAssumption
      <4>4. Advert(table, b)[n] >= Dist[r][n]
        BY <4>2, <4>3
      <4> QED
        BY <2>2, <4>1, <4>4
    <3>3. CASE i # Len(channel[r][b]) + 1
      <4>1. i \in 1 .. Len(channel[r][b]) /\ after[a][b][i] = channel[r][b][i]
        BY <2>2, <3>1, <3>3
      <4> QED
        BY <2>2, <4>1 DEF OffersSound
    <3> QED
      BY <3>2, <3>3
  <2> QED
    BY <1>1, <1>2, <2>1, <2>2
<1> QED
  BY <1>4, <1>5

-----------------------------------------------------------------------------
LEMMA RouterInvInit == DVInit => RouterInv
<1> SUFFICES ASSUME DVInit PROVE RouterInv
  OBVIOUS
<1>1. DVTypeOK
  BY RouterAssumption DEF DVInit, DVTypeOK
<1>2. CostSound
  <2>1. ASSUME NEW r \in Router, NEW n \in Net PROVE route[r][n].cost >= Dist[r][n]
    <3>1. Config[r][n] \in Route /\ Dist[r][n] \in 0 .. INF_COST /\ INF_COST \in Nat
      BY RouterAssumption, DistAssumption
    <3>2. Dist[r][n] <= Config[r][n].cost
      BY DistAssumption
    <3> QED
      BY <3>1, <3>2 DEF DVInit
  <2> QED
    BY <2>1 DEF CostSound
<1>3. OffersSound
  BY DEF DVInit, OffersSound
<1> QED
  BY <1>1, <1>2, <1>3 DEF RouterInv

(* Taking the oldest message out of one socket. *)
LEMMA ReceivedSound ==
  ASSUME DVTypeOK, OffersSound, NEW r \in Router, NEW b \in Router, channel[b][r] # << >>
  PROVE  LET after == [channel EXCEPT ![b][r] = Tail(@)]
         IN  /\ after \in [Router -> [Router -> Seq(DV)]]
             /\ \A x, y \in Router : \A i \in 1 .. Len(after[x][y]) : \A n \in Net :
                  after[x][y][i][n] >= Dist[x][n]
<1> DEFINE after == [channel EXCEPT ![b][r] = Tail(@)]
<1>1. /\ channel[b][r] \in Seq(DV) /\ Tail(channel[b][r]) \in Seq(DV)
      /\ Len(Tail(channel[b][r])) = Len(channel[b][r]) - 1 /\ Len(channel[b][r]) \in Nat
      /\ \A i \in 1 .. Len(channel[b][r]) - 1 : Tail(channel[b][r])[i] = channel[b][r][i + 1]
  <2>1. channel[b][r] \in Seq(DV)
    BY DEF DVTypeOK
  <2> HIDE DEF DV
  <2> QED
    BY <2>1
<1>2. after \in [Router -> [Router -> Seq(DV)]]
  <2> HIDE DEF DV
  <2> QED
    BY <1>1 DEF DVTypeOK
<1>3. ASSUME NEW x \in Router, NEW y \in Router, NEW i \in 1 .. Len(after[x][y]), NEW n \in Net
      PROVE  after[x][y][i][n] >= Dist[x][n]
  <2>1. CASE x = b /\ y = r
    <3>1. after[x][y] = Tail(channel[b][r])
      BY <2>1 DEF DVTypeOK
    <3>2. i + 1 \in 1 .. Len(channel[b][r]) /\ after[x][y][i] = channel[b][r][i + 1]
      <4> HIDE DEF after, DV
      <4>1. i \in 1 .. Len(channel[b][r]) - 1
        BY <1>1, <3>1
      <4> QED
        BY <1>1, <3>1, <4>1
    <3> QED
      BY <2>1, <3>2 DEF OffersSound
  <2>2. CASE ~(x = b /\ y = r)
    <3>1. after[x][y] = channel[x][y]
      BY <2>2 DEF DVTypeOK
    <3> QED
      BY <3>1 DEF OffersSound
  <2> QED
    BY <2>1, <2>2
<1> QED
  BY <1>2, <1>3

(* The table after a DV: each entry relaxed on its own. *)
LEMMA UpdatedSound ==
  ASSUME RouterInv, NEW r \in Router, NEW b \in Neighbor(r), channel[b][r] # << >>
  PROVE  LET table == [n \in Net |->
               Relax(route[r][n], b, Head(channel[b][r])[n], LinkCost[r][b])]
         IN  table \in [Net -> Route] /\ \A n \in Net : table[n].cost >= Dist[r][n]
<1> DEFINE dv == Head(channel[b][r])
<1>1. b \in Router /\ LinkCost[r][b] \in Nat
  BY RouterAssumption DEF Neighbor
<1>2. channel[b][r] \in Seq(DV) /\ Len(channel[b][r]) >= 1
  <2>1. channel[b][r] \in Seq(DV)
    BY <1>1 DEF RouterInv, DVTypeOK
  <2> HIDE DEF DV
  <2> QED
    BY <2>1
<1>3. dv \in DV /\ dv = channel[b][r][1]
  <2> HIDE DEF DV
  <2> QED
    BY <1>2
<1>4. \A n \in Net : dv[n] >= Dist[b][n]
  BY <1>1, <1>2, <1>3 DEF RouterInv, OffersSound
<1> HIDE DEF dv
<1>5. ASSUME NEW n \in Net
      PROVE  LET e == Relax(route[r][n], b, dv[n], LinkCost[r][b])
             IN  e \in Route /\ e.cost >= Dist[r][n]
  <2>1. /\ Dist[r][n] \in Cost /\ Dist[b][n] \in Cost /\ INF_COST \in Nat
        /\ Dist[r][n] <= LinkCost[r][b] + Dist[b][n]
    BY <1>1, DistAssumption, RouterAssumption
  <2>2. route[r][n] \in Route /\ route[r][n].cost >= Dist[r][n] /\ dv[n] \in Cost
    BY <1>3 DEF RouterInv, DVTypeOK, CostSound
  <2>3. Dist[r][n] <= LinkCost[r][b] + dv[n]
    <3>1. dv[n] \in 0 .. INF_COST /\ dv[n] >= Dist[b][n]
      BY <1>4, <2>2
    <3> QED
      BY <1>1, <2>1, <3>1
  <2>4. Dist[r][n] <= route[r][n].cost
    BY <2>1, <2>2
  <2> QED
    BY <1>1, <2>1, <2>2, <2>3, <2>4, RelaxSound
<1> QED
  BY <1>5 DEF dv

-----------------------------------------------------------------------------
LEMMA RouterInvNext == RouterInv /\ [DVNext]_dv_vars => RouterInv'
<1> SUFFICES ASSUME RouterInv, [DVNext]_dv_vars PROVE RouterInv'
  OBVIOUS
<1> USE RouterAssumption
<1>t. DVTypeOK /\ OffersSound
  BY DEF RouterInv
<1>1. ASSUME NEW r \in Router, SendDV(r) PROVE RouterInv'
  <2> USE <1>1 DEF SendDV
  <2>1. route[r] \in [Net -> Route] /\ \A n \in Net : route[r][n].cost >= Dist[r][n]
    BY <1>t DEF DVTypeOK, RouterInv, CostSound
  <2> DEFINE after == Sent(r, route[r], alive[r])
  <2>a. /\ after \in [Router -> [Router -> Seq(DV)]]
        /\ \A x, y \in Router : \A i \in 1 .. Len(after[x][y]) : \A n \in Net :
             after[x][y][i][n] >= Dist[x][n]
    BY <1>t, <2>1, SentSound
  <2>b. channel' = after
    OBVIOUS
  <2> HIDE DEF after
  <2>2. channel' \in [Router -> [Router -> Seq(DV)]] /\ OffersSound'
    BY <2>a, <2>b DEF OffersSound
  <2>3. DVTypeOK'
    BY <1>t, <2>2 DEF DVTypeOK
  <2> QED
    BY <2>2, <2>3 DEF RouterInv, CostSound
<1>2. ASSUME NEW r \in Router, NEW b \in Router, Expire(r, b) PROVE RouterInv'
  <2> DEFINE table == Poisoned(route[r], b)
  <2>1. route[r] \in [Net -> Route] /\ \A n \in Net : route[r][n].cost >= Dist[r][n]
    BY <1>t DEF DVTypeOK, RouterInv, CostSound
  <2>2. table \in [Net -> Route] /\ \A n \in Net : table[n].cost >= Dist[r][n]
    <3>1. table \in [Net -> Route] /\ \A n \in Net : table[n].cost >= route[r][n].cost
      BY <2>1, PoisonedSound
    <3>2. \A n \in Net : table[n].cost \in 0 .. INF_COST /\ route[r][n].cost \in 0 .. INF_COST
                         /\ Dist[r][n] \in 0 .. INF_COST
      BY <2>1, <3>1, DistAssumption
    <3> HIDE DEF table
    <3> QED
      BY <2>1, <3>1, <3>2
  <2> HIDE DEF table
  <2>3. /\ route' = [route EXCEPT ![r] = table]
        /\ channel' = IF table # route[r] THEN Sent(r, table, alive'[r]) ELSE channel
        /\ alive' = [alive EXCEPT ![r][b] = FALSE]
        /\ UNCHANGED <<up, cut, crashes, outages>>
    BY <1>2 DEF Expire, table
  <2>4. /\ Sent(r, table, alive'[r]) \in [Router -> [Router -> Seq(DV)]]
        /\ \A x, y \in Router : \A i \in 1 .. Len(Sent(r, table, alive'[r])[x][y]) : \A n \in Net :
             Sent(r, table, alive'[r])[x][y][i][n] >= Dist[x][n]
    BY <1>t, <2>2, SentSound
  <2>5. channel' \in [Router -> [Router -> Seq(DV)]] /\ OffersSound'
    <3>1. CASE channel' = channel
      BY <1>t, <3>1 DEF OffersSound, DVTypeOK
    <3>2. CASE channel' = Sent(r, table, alive'[r])
      BY <2>4, <3>2 DEF OffersSound
    <3> QED
      BY <2>3, <3>1, <3>2
  <2>6. DVTypeOK'
    BY <1>t, <2>2, <2>3, <2>5 DEF DVTypeOK
  <2>7. CostSound'
    BY <1>t, <2>2, <2>3 DEF DVTypeOK, RouterInv, CostSound
  <2> QED
    BY <2>5, <2>6, <2>7 DEF RouterInv
<1>3. ASSUME NEW r \in Router, NEW b \in Router, ReceiveDV(r, b) PROVE RouterInv'
  <2> DEFINE table == [n \in Net |->
               Relax(route[r][n], b, Head(channel[b][r])[n], LinkCost[r][b])]
  <2>1. b \in Neighbor(r) /\ channel[b][r] # << >>
    BY <1>3 DEF ReceiveDV
  <2>2. table \in [Net -> Route] /\ \A n \in Net : table[n].cost >= Dist[r][n]
    BY <2>1, UpdatedSound
  <2> HIDE DEF table
  <2>3. /\ route' = [route EXCEPT ![r] = table]
        /\ channel' = [channel EXCEPT ![b][r] = Tail(@)]
        /\ alive' = [alive EXCEPT ![r][b] = TRUE]
        /\ UNCHANGED <<up, cut, crashes, outages>>
    BY <1>3 DEF ReceiveDV, table
  <2>4. channel' \in [Router -> [Router -> Seq(DV)]] /\ OffersSound'
    BY <1>t, <2>1, <2>3, ReceivedSound DEF OffersSound
  <2>5. DVTypeOK'
    BY <1>t, <2>2, <2>3, <2>4 DEF DVTypeOK
  <2>6. CostSound'
    BY <1>t, <2>2, <2>3 DEF DVTypeOK, RouterInv, CostSound
  <2> QED
    BY <2>4, <2>5, <2>6 DEF RouterInv
<1>4. ASSUME NEW r \in Router, Crash(r) PROVE RouterInv'
  <2> USE <1>4 DEF Crash
  <2>1. \A n \in Net : Config[r][n].cost >= Dist[r][n]
    <3>1. ASSUME NEW n \in Net PROVE Config[r][n].cost >= Dist[r][n]
      <4>1. Config[r][n] \in Route /\ Dist[r][n] \in 0 .. INF_COST
        BY DistAssumption
      <4>2. Dist[r][n] <= Config[r][n].cost
        BY DistAssumption
      <4> QED
        BY <4>1, <4>2
    <3> QED
      BY <3>1
  <2>2. \A a, b \in Router : channel'[a][b] = IF b = r THEN << >> ELSE channel[a][b]
    BY <1>t DEF DVTypeOK
  <2>3. channel' \in [Router -> [Router -> Seq(DV)]]
    <3> HIDE DEF DV
    <3> QED
      BY <1>t DEF DVTypeOK
  <2>4. OffersSound'
    <3> HIDE <1>4 DEF Crash, DV
    <3>1. ASSUME NEW a \in Router, NEW b \in Router, NEW i \in 1 .. Len(channel'[a][b]), NEW n \in Net
          PROVE  channel'[a][b][i][n] >= Dist[a][n]
      <4>1. CASE b = r
        <5>1. channel'[a][b] = << >>
          BY <2>2, <4>1
        <5> QED
          BY <5>1
      <4>2. CASE b # r
        <5>1. channel'[a][b] = channel[a][b]
          BY <2>2, <4>2
        <5> QED
          BY <1>t, <5>1 DEF OffersSound
      <4> QED
        BY <4>1, <4>2
    <3> QED
      BY <3>1 DEF OffersSound
  <2>5. DVTypeOK'
    <3>1. crashes' \in 0 .. MaxCrashes
      BY <1>t DEF DVTypeOK
    <3> QED
      BY <1>t, <2>3, <3>1 DEF DVTypeOK
  <2>6. CostSound'
    BY <1>t, <2>1 DEF DVTypeOK, RouterInv, CostSound
  <2> QED
    BY <2>4, <2>5, <2>6 DEF RouterInv
<1>5. ASSUME NEW r \in Router, Restart(r) PROVE RouterInv'
  BY <1>5, <1>t DEF Restart, RouterInv, DVTypeOK, CostSound, OffersSound
<1>6. ASSUME NEW a \in Router, NEW b \in Router, LinkFails(a, b) \/ LinkHeals(a, b)
      PROVE  RouterInv'
  <2>1. cut' \subseteq Links /\ outages' \in 0 .. MaxOutages
    <3>1. cut \subseteq Links /\ outages \in 0 .. MaxOutages /\ {a, b} \in Links
      BY <1>t DEF DVTypeOK, Links
    <3>2. CASE LinkFails(a, b)
      <4>1. cut' = cut \cup {{a, b}} /\ outages' = outages + 1 /\ outages < MaxOutages
        BY <3>2 DEF LinkFails
      <4>2. outages' \in 0 .. MaxOutages
        BY <3>1, <4>1
      <4> QED
        BY <3>1, <4>1, <4>2
    <3>3. CASE LinkHeals(a, b)
      BY <3>1, <3>3 DEF LinkHeals
    <3> QED
      BY <1>6, <3>2, <3>3
  <2>2. UNCHANGED <<up, route, alive, channel, crashes>>
    BY <1>6 DEF LinkFails, LinkHeals
  <2> QED
    BY <1>t, <2>1, <2>2 DEF RouterInv, DVTypeOK, CostSound, OffersSound
<1>7. CASE UNCHANGED dv_vars
  BY <1>7, <1>t DEF dv_vars, RouterInv, DVTypeOK, CostSound, OffersSound
<1> QED
  BY <1>1, <1>2, <1>3, <1>4, <1>5, <1>6, <1>7 DEF DVNext, RouterNext, FaultNext

THEOREM RouterInvariant == DVSpec => []RouterInv
  BY RouterInvInit, RouterInvNext, PTL DEF DVSpec

(* Tables, liveness marks and DV messages keep their types; in particular  *)
(* no cost ever exceeds INF_COST, so the uint16_t of the table suffices.   *)
THEOREM RouterTypes == DVSpec => []DVTypeOK
<1>1. RouterInv => DVTypeOK
  BY DEF RouterInv
<1> QED
  BY <1>1, RouterInvariant, PTL

(* dv_update, poison reverse, neighbour timeouts and restarts never make a *)
(* router believe in a path cheaper than the cheapest there is.            *)
THEOREM RouterCostSound == DVSpec => []CostSound
<1>1. RouterInv => CostSound
  BY DEF RouterInv
<1> QED
  BY <1>1, RouterInvariant, PTL

-----------------------------------------------------------------------------
LEMMA ConnectedStep == DVTypeOK /\ ConnectedKept /\ [DVNext]_dv_vars => ConnectedKept'
<1> SUFFICES ASSUME DVTypeOK, ConnectedKept, [DVNext]_dv_vars,
                    NEW q \in Router, NEW n \in Net,
                    Config[q][n] = [cost |-> 0, next_hop |-> Direct]
             PROVE  route'[q][n] = Config[q][n]
  BY DEF ConnectedKept
<1>1. route[q][n] = [cost |-> 0, next_hop |-> Direct] /\ Config[q][n] = route[q][n]
  BY DEF ConnectedKept
<1>2. ASSUME NEW r \in Router, NEW b \in Router, Expire(r, b) PROVE route'[q][n] = route[q][n]
  <2>1. route[q][n].next_hop = Direct /\ b # Direct
    BY <1>1, RouterAssumption
  <2>2. CASE q = r
    <3>1. route'[q] = Poisoned(route[q], b)
      BY <1>2, <2>2 DEF Expire, DVTypeOK
    <3>2. Poisoned(route[q], b)[n] = route[q][n]
      BY <2>1 DEF Poisoned
    <3> QED
      BY <3>1, <3>2
  <2>3. CASE q # r
    BY <1>2, <2>3 DEF Expire, DVTypeOK
  <2> QED
    BY <2>2, <2>3
<1>3. ASSUME NEW r \in Router, NEW b \in Router, ReceiveDV(r, b) PROVE route'[q][n] = route[q][n]
  <2>1. b \in Neighbor(r) /\ LinkCost[r][b] \in Nat
    BY <1>3, RouterAssumption DEF ReceiveDV
  <2>2. Head(channel[b][r]) \in DV
    <3>1. channel[b][r] \in Seq(DV) /\ channel[b][r] # << >>
      BY <1>3 DEF ReceiveDV, DVTypeOK
    <3> HIDE DEF DV
    <3> QED
      BY <3>1
  <2>3. Head(channel[b][r])[n] \in Cost
    BY <2>2
  <2>4. CASE q = r
    <3>1. route'[q][n] = Relax(route[q][n], b, Head(channel[b][r])[n], LinkCost[r][b])
      BY <1>3, <2>4 DEF ReceiveDV, DVTypeOK
    <3> QED
      BY <1>1, <2>1, <2>3, <3>1, RelaxConnected
  <2>5. CASE q # r
    BY <1>3, <2>5 DEF ReceiveDV, DVTypeOK
  <2> QED
    BY <2>4, <2>5
<1>4. ASSUME NEW r \in Router, Crash(r) PROVE route'[q][n] = route[q][n]
  BY <1>1, <1>4 DEF Crash, DVTypeOK
<1>5. ASSUME UNCHANGED route PROVE route'[q][n] = route[q][n]
  BY <1>5
<1> QED
  BY <1>1, <1>2, <1>3, <1>4, <1>5
  DEF DVNext, RouterNext, FaultNext, SendDV, Restart, LinkFails, LinkHeals, dv_vars

(* Directly connected networks stay in the table at cost 0 whatever is     *)
(* advertised for them (the comparison in dv_update, 289).                 *)
THEOREM RouterConnectedKept == DVSpec => []ConnectedKept
<1>1. DVInit => ConnectedKept
  BY DEF DVInit, ConnectedKept
<1> QED
  BY <1>1, ConnectedStep, RouterTypes, PTL DEF DVSpec

LEMMA DeadStep == DVTypeOK /\ NoRouteThroughDead /\ [DVNext]_dv_vars => NoRouteThroughDead'
<1> SUFFICES ASSUME DVTypeOK, NoRouteThroughDead, [DVNext]_dv_vars,
                    NEW q \in Router, NEW n \in Net, NEW x \in Neighbor(q),
                    route'[q][n].next_hop = x, route'[q][n].cost < INF_COST
             PROVE  alive'[q][x]
  BY DEF NoRouteThroughDead
<1>0. x \in Router /\ (route[q][n].next_hop = x /\ route[q][n].cost < INF_COST => alive[q][x])
  BY RouterAssumption DEF NoRouteThroughDead, Neighbor
<1>1. ASSUME NEW r \in Router, NEW b \in Router, Expire(r, b) PROVE alive'[q][x]
  <2>2. CASE q = r
    <3>1. route[q] \in [Net -> Route] /\ route'[q] = Poisoned(route[q], b)
      BY <1>1, <2>2 DEF Expire, DVTypeOK
    <3>2. route[q][n] \in Route
      BY <3>1
    <3>3. CASE route[q][n].next_hop = b
      <4>1. Poisoned(route[q], b)[n] = [route[q][n] EXCEPT !.cost = INF_COST]
        BY <3>3 DEF Poisoned
      <4>2. route'[q][n].cost = INF_COST
        BY <3>1, <3>2, <4>1
      <4> QED
        BY <4>2, RouterAssumption
    <3>4. CASE route[q][n].next_hop # b
      <4>1. Poisoned(route[q], b)[n] = route[q][n]
        BY <3>4 DEF Poisoned
      <4>2. x # b /\ alive[q][x]
        BY <1>0, <3>1, <3>4, <4>1
      <4> QED
        BY <1>0, <1>1, <2>2, <4>2 DEF Expire, DVTypeOK
    <3> QED
      BY <3>3, <3>4
  <2>3. CASE q # r
    BY <1>0, <1>1, <2>3 DEF Expire, DVTypeOK
  <2> QED
    BY <2>2, <2>3
<1>2. ASSUME NEW r \in Router, NEW b \in Router, ReceiveDV(r, b) PROVE alive'[q][x]
  <2>1. CASE q = r
    <3>1. route'[q][n] = Relax(route[q][n], b, Head(channel[b][r])[n], LinkCost[r][b])
      BY <1>2, <2>1 DEF ReceiveDV, DVTypeOK
    <3>2. route[q][n] \in Route
      BY DEF DVTypeOK
    <3>3. route'[q][n] = route[q][n] \/ route'[q][n].next_hop = b \/ route'[q][n].cost = INF_COST
      BY <3>1, <3>2 DEF Relax
    <3>4. route'[q][n] = route[q][n] \/ x = b
      BY <3>3, RouterAssumption
    <3> QED
      BY <1>0, <1>2, <2>1, <3>4 DEF ReceiveDV, DVTypeOK
  <2>2. CASE q # r
    BY <1>0, <1>2, <2>2 DEF ReceiveDV, DVTypeOK
  <2> QED
    BY <2>1, <2>2
<1>3. ASSUME NEW r \in Router, Crash(r) PROVE alive'[q][x]
  BY <1>0, <1>3 DEF Crash, DVTypeOK
<1>4. ASSUME UNCHANGED <<route, alive>> PROVE alive'[q][x]
  BY <1>0, <1>4
<1> QED
  BY <1>1, <1>2, <1>3, <1>4
  DEF DVNext, RouterNext, FaultNext, SendDV, Restart, LinkFails, LinkHeals, dv_vars

(* A neighbour's timeout poisons every route through it, and only a DV     *)
(* from it, which revives it, brings one back; so forward_data never finds *)
(* a usable route to a dead next hop.                                      *)
THEOREM RouterNoRouteThroughDead == DVSpec => []NoRouteThroughDead
<1>1. DVInit => NoRouteThroughDead
  BY DEF DVInit, NoRouteThroughDead, Neighbor
<1> QED
  BY <1>1, DeadStep, RouterTypes, PTL DEF DVSpec

-----------------------------------------------------------------------------
(***************************************************************************)
(* Safety of the data plane for every network, every time to live and any  *)
(* number of crashes and outages.                                          *)
(*                                                                         *)
(* The control plane does not notice the packet (ForwardRouting), so what  *)
(* is shown of the tables above holds here.  ConvergedNearer needs   *)
(* one fact more, which only makes sense entry by entry (PathsSound): a    *)
(* usable route is connected, or no cheaper than its link and the least    *)
(* cost of its next hop together.  In converged tables the next hop is     *)
(* then nearer by at least the cost of the link.                           *)
(***************************************************************************)
PathsSound ==
  \A r \in Router, n \in Net : LET e == route[r][n] IN
    \/ e.cost = INF_COST
    \/ e = [cost |-> 0, next_hop |-> Direct]
    \/ e.next_hop \in Neighbor(r) /\ e.cost >= LinkCost[r][e.next_hop] + Dist[e.next_hop][n]

TablesInv == RouterInv /\ NoRouteThroughDead /\ PathsSound

-----------------------------------------------------------------------------
(* A relaxation keeps an entry sound if the offer is no less than the      *)
(* least cost of the neighbour that makes it.                              *)
LEMMA RelaxPath ==
  ASSUME NEW r \in Router, NEW n \in Net, NEW b \in Neighbor(r), NEW cost \in Cost,
         cost >= Dist[b][n], NEW entry \in Route,
         \/ entry.cost = INF_COST
         \/ entry = [cost |-> 0, next_hop |-> Direct]
         \/ /\ entry.next_hop \in Neighbor(r)
            /\ entry.cost >= LinkCost[r][entry.next_hop] + Dist[entry.next_hop][n],
         NEW e, e = Relax(entry, b, cost, LinkCost[r][b])
  PROVE  \/ e.cost = INF_COST
         \/ e = [cost |-> 0, next_hop |-> Direct]
         \/ e.next_hop \in Neighbor(r) /\ e.cost >= LinkCost[r][e.next_hop] + Dist[e.next_hop][n]
<1> DEFINE link == LinkCost[r][b]
           new == IF link + cost > INF_COST THEN INF_COST ELSE link + cost
<1>1. b \in Router /\ link \in Nat /\ INF_COST \in Nat /\ Dist[b][n] \in Nat /\ cost \in Nat
  BY RouterAssumption, DistAssumption DEF Neighbor, Cost
<1>2. \/ e = entry
      \/ e = [entry EXCEPT !.cost = INF_COST]
      \/ e = [cost |-> new, next_hop |-> b]
  BY DEF Relax
<1> HIDE DEF new
<1>3. CASE e = entry
  BY <1>3
<1>4. CASE e = [entry EXCEPT !.cost = INF_COST]
  <2>1. e.cost = INF_COST
    BY <1>4
  <2> QED
    BY <2>1
<1>5. CASE e = [cost |-> new, next_hop |-> b]
  <2>1. e.cost = new /\ e.next_hop = b
    BY <1>5
  <2>2. new = INF_COST \/ (new = link + cost /\ new >= link + Dist[b][n])
    BY <1>1 DEF new
  <2> QED
    BY <2>1, <2>2
<1> QED
  BY <1>2, <1>3, <1>4, <1>5

LEMMA PathsInit == DVInit => PathsSound
  BY TargetAssumption DEF DVInit, PathsSound

LEMMA PathsNext == RouterInv /\ PathsSound /\ [DVNext]_dv_vars => PathsSound'
<1> SUFFICES ASSUME RouterInv, PathsSound, [DVNext]_dv_vars, NEW q \in Router, NEW n \in Net
             PROVE  LET e == route'[q][n] IN
                      \/ e.cost = INF_COST
                      \/ e = [cost |-> 0, next_hop |-> Direct]
                      \/ /\ e.next_hop \in Neighbor(q)
                         /\ e.cost >= LinkCost[q][e.next_hop] + Dist[e.next_hop][n]
  BY DEF PathsSound
<1> DEFINE Good(e) == \/ e.cost = INF_COST
                      \/ e = [cost |-> 0, next_hop |-> Direct]
                      \/ /\ e.next_hop \in Neighbor(q)
                         /\ e.cost >= LinkCost[q][e.next_hop] + Dist[e.next_hop][n]
<1>t. DVTypeOK /\ OffersSound
  BY DEF RouterInv
<1>0. Good(route[q][n])
  BY DEF PathsSound
<1>1. ASSUME route'[q] = route[q] PROVE Good(route'[q][n])
  BY <1>0, <1>1
<1>2. ASSUME NEW r \in Router, NEW b \in Router, Expire(r, b) PROVE Good(route'[q][n])
  <2>1. CASE q = r
    <3>1. route'[q][n] = Poisoned(route[q], b)[n]
      BY <1>2, <1>t, <2>1 DEF Expire, DVTypeOK
    <3>2. Poisoned(route[q], b)[n] \in {route[q][n], [route[q][n] EXCEPT !.cost = INF_COST]}
      BY DEF Poisoned
    <3>3. [route[q][n] EXCEPT !.cost = INF_COST].cost = INF_COST
      BY <1>t DEF DVTypeOK
    <3> QED
      BY <1>0, <3>1, <3>2, <3>3
  <2>2. CASE q # r
    BY <1>1, <1>2, <2>2 DEF Expire
  <2> QED
    BY <2>1, <2>2
<1>3. ASSUME NEW r \in Router, NEW b \in Router, ReceiveDV(r, b) PROVE Good(route'[q][n])
  <2>1. CASE q = r
    <3> DEFINE offer == Head(channel[b][q])[n]
    <3>1. b \in Neighbor(q) /\ channel[b][q] # << >> /\ channel[b][q] \in Seq(DV)
      BY <1>3, <1>t, <2>1 DEF ReceiveDV, DVTypeOK
    <3>2. Len(channel[b][q]) \in Nat /\ Len(channel[b][q]) >= 1 /\ Head(channel[b][q]) = channel[b][q][1]
      BY <3>1
    <3>3. offer \in Cost
      BY <3>1 DEF DV
    <3>4. offer >= Dist[b][n]
      <4>1. 1 \in 1 .. Len(channel[b][q])
        BY <3>2
      <4> QED
        BY <1>t, <3>2, <4>1 DEF OffersSound
    <3>5. route'[q][n] = Relax(route[q][n], b, offer, LinkCost[q][b])
      BY <1>3, <1>t, <2>1 DEF ReceiveDV, DVTypeOK
    <3>6. route[q][n] \in Route
      BY <1>t DEF DVTypeOK
    <3> QED
      BY <1>0, <3>1, <3>3, <3>4, <3>5, <3>6, RelaxPath
  <2>2. CASE q # r
    BY <1>1, <1>3, <2>2 DEF ReceiveDV
  <2> QED
    BY <2>1, <2>2
<1>4. ASSUME NEW r \in Router, Crash(r) PROVE Good(route'[q][n])
  <2>1. CASE q = r
    <3>1. route'[q][n] = Config[q][n]
      BY <1>4, <1>t, <2>1 DEF Crash, DVTypeOK
    <3> QED
      BY <3>1, TargetAssumption
  <2>2. CASE q # r
    BY <1>1, <1>4, <2>2 DEF Crash
  <2> QED
    BY <2>1, <2>2
<1>5. CASE \E r \in Router : SendDV(r) \/ Restart(r)
  BY <1>1, <1>5 DEF SendDV, Restart
<1>6. CASE \E a, b \in Router : LinkFails(a, b) \/ LinkHeals(a, b)
  BY <1>1, <1>6 DEF LinkFails, LinkHeals
<1>7. CASE UNCHANGED dv_vars
  BY <1>1, <1>7 DEF dv_vars
<1> QED
  BY <1>2, <1>3, <1>4, <1>5, <1>6, <1>7 DEF DVNext, RouterNext, FaultNext

-----------------------------------------------------------------------------
(* Seen without its packet, the data plane is the control plane: every     *)
(* step of a router with traffic is a step of the routing protocol, or     *)
(* leaves the tables as they are.                                          *)
LEMMA ForwardStep == [ForwardNext]_allvars => [DVNext]_dv_vars
<1>1. ASSUME NEW r \in Router, Handle(r) PROVE UNCHANGED dv_vars
  BY <1>1 DEF Handle, DeliverConnected, DeliverSelf, DropTTL, NoMatch, SendOn, PacketEnds
<1>2. ASSUME NEW r \in Router, Control(r) PROVE DVNext
  BY <1>2 DEF Control, DVNext, FaultNext
<1>3. ASSUME NEW r \in Router, CrashHolding(r) PROVE DVNext
  BY <1>3 DEF CrashHolding, DVNext, FaultNext
<1>4. ASSUME NEW a \in Router, NEW b \in Router, LinkFails(a, b) \/ LinkHeals(a, b) PROVE DVNext
  BY <1>4 DEF DVNext, FaultNext
<1>5. ASSUME NEW r \in Router, NEW dst, NEW ttl, Inject(r, dst, ttl) PROVE UNCHANGED dv_vars
  BY <1>5 DEF Inject
<1>6. UNCHANGED allvars => UNCHANGED dv_vars
  BY DEF allvars
<1> QED
  BY <1>1, <1>2, <1>3, <1>4, <1>5, <1>6 DEF ForwardNext

(* Everything proved of the routing protocol therefore holds with packets  *)
(* about: forward_data only reads the tables.                              *)
THEOREM ForwardRouting == ForwardSpec => DVSpec
<1>1. ForwardInit => DVInit
  BY DEF ForwardInit
<1> QED
  BY <1>1, ForwardStep, PTL DEF ForwardSpec, DVSpec

LEMMA TablesSound == ForwardSpec => []TablesInv
<1>1. DVSpec => []PathsSound
  BY PathsInit, PathsNext, RouterInvariant, PTL DEF DVSpec
<1>2. RouterInv /\ NoRouteThroughDead /\ PathsSound => TablesInv
  BY DEF TablesInv
<1> QED
  BY <1>1, <1>2, RouterInvariant, RouterNoRouteThroughDead, ForwardRouting, PTL

-----------------------------------------------------------------------------
(* A router that sends the packet on, or loses it, keeps its type.         *)
LEMMA PacketStep == ForwardTypeOK /\ [ForwardNext]_allvars => ForwardTypeOK'
<1> SUFFICES ASSUME ForwardTypeOK, [ForwardNext]_allvars PROVE ForwardTypeOK'
  OBVIOUS
<1> USE ForwardAssumption DEF ForwardTypeOK
<1>1. ASSUME PacketEnds PROVE ForwardTypeOK'
  BY <1>1 DEF PacketEnds
<1>2. ASSUME NEW r \in Router, NEW dst \in Targets, NEW ttl \in 0 .. MaxTTL, Inject(r, dst, ttl)
      PROVE  ForwardTypeOK'
  BY <1>2 DEF Inject, DataPacket
<1>3. ASSUME NEW r \in Router, SendOn(r) PROVE ForwardTypeOK'
  <2> DEFINE b == Match(r).next_hop
             sent == [at |-> b, dst |-> packet.dst, ttl |-> packet.ttl - 1]
  <2>1. b \in Router /\ packet \in DataPacket /\ packet.ttl > 0
    BY <1>3 DEF SendOn, Usable, InTransit, Holds, Neighbor
  <2>2. packet.ttl - 1 \in 0 .. MaxTTL /\ packet.dst \in Targets
    BY <2>1 DEF DataPacket
  <2>3. sent \in DataPacket
    BY <2>1, <2>2 DEF DataPacket
  <2>4. packet' \in {sent, NoPacket}
    BY <1>3 DEF SendOn
  <2> QED
    BY <2>3, <2>4
<1>4. ASSUME NEW r \in Router, Handle(r) PROVE ForwardTypeOK'
  BY <1>1, <1>3, <1>4 DEF Handle, DeliverConnected, DeliverSelf, DropTTL, NoMatch
<1>5. ASSUME NEW r \in Router, CrashHolding(r) PROVE ForwardTypeOK'
  BY <1>5 DEF CrashHolding
<1>6. ASSUME UNCHANGED packet PROVE ForwardTypeOK'
  BY <1>6
<1>7. ASSUME NEW r \in Router, Control(r) PROVE ForwardTypeOK'
  BY <1>6, <1>7 DEF Control
<1>8. UNCHANGED allvars => UNCHANGED packet
  BY DEF allvars
<1> QED
  BY <1>2, <1>4, <1>5, <1>6, <1>7, <1>8 DEF ForwardNext

LEMMA PacketInvariant == ForwardSpec => []ForwardTypeOK
<1>1. ForwardInit => ForwardTypeOK
  BY DEF ForwardInit, ForwardTypeOK
<1> QED
  BY <1>1, PacketStep, PTL DEF ForwardSpec

-----------------------------------------------------------------------------
(* In a healthy network with converged tables each case of forward_data    *)
(* but delivery and sending is excluded, and what is sent arrives nearer.  *)
LEMMA HandleNearer ==
  ASSUME TablesInv, ForwardTypeOK, Healthy, NEW r \in Router, Handle(r),
         packet.dst \in Net, packet.ttl > 0, Dist[r][packet.dst] < INF_COST
  PROVE  \/ DeliverConnected(r)
         \/ /\ packet' # NoPacket
            /\ Dist[packet'.at][packet'.dst] < Dist[r][packet'.dst]
<1> DEFINE n == packet.dst
           e == route[r][n]
           b == e.next_hop
<1>1. packet \in DataPacket /\ packet # NoPacket /\ packet.ttl \in 0 .. MaxTTL /\ MaxTTL \in Nat
  BY ForwardAssumption DEF Handle, DeliverConnected, DeliverSelf, DropTTL, NoMatch, SendOn, Usable, InTransit,
     Holds, ForwardTypeOK, DataPacket
<1>2. Match(r) = e /\ e.cost = Dist[r][n] /\ e.cost < INF_COST
  BY DEF Match, Healthy, Converged
<1>3. e = [cost |-> 0, next_hop |-> Direct] \/ (b \in Neighbor(r) /\ e.cost >= LinkCost[r][b] + Dist[b][n])
  <2>1. INF_COST \in Nat /\ e.cost # INF_COST
    BY <1>2, RouterAssumption, DistAssumption DEF Cost
  <2> QED
    BY <2>1 DEF TablesInv, PathsSound
<1>4. n # r
  BY TargetAssumption
<1>5. ~DeliverSelf(r)
  BY <1>4 DEF DeliverSelf
<1>6. ~DropTTL(r)
  <2>1. packet.ttl # 0
    BY <1>1
  <2> QED
    BY <2>1 DEF DropTTL
<1>7. ~NoMatch(r)
  <2> SUFFICES ASSUME NoMatch(r) PROVE FALSE
    OBVIOUS
  <2>1. ~Connected(r) /\ (e.cost = INF_COST \/ b \notin Neighbor(r))
    BY <1>2 DEF NoMatch, InTransit
  <2>2. e.cost # INF_COST
    BY <1>2, RouterAssumption, DistAssumption DEF Cost
  <2>3. e = [cost |-> 0, next_hop |-> Direct]
    BY <1>3, <2>1, <2>2
  <2> QED
    BY <1>2, <2>1, <2>3 DEF Connected
<1>8. ASSUME SendOn(r)
      PROVE  packet' # NoPacket /\ Dist[packet'.at][packet'.dst] < Dist[r][packet'.dst]
  <2>1. b \in Neighbor(r)
    BY <1>2, <1>8 DEF SendOn, Usable
  <2>2. b \in Router /\ LinkCost[r][b] \in Nat /\ LinkCost[r][b] > 0 /\ b # Direct
    BY <2>1, RouterAssumption DEF Neighbor
  <2>3. e.cost >= LinkCost[r][b] + Dist[b][n]
    BY <1>3, <2>2
  <2>4. Dist[b][n] < Dist[r][n]
    <3>1. Dist[b][n] \in Nat /\ Dist[r][n] \in Nat
      BY <2>2, RouterAssumption, DistAssumption DEF Cost
    <3> QED
      BY <1>2, <2>2, <2>3, <3>1
  <2>5. alive[r][b]
    BY <1>2, <2>1 DEF TablesInv, NoRouteThroughDead
  <2>6. up[b] /\ {r, b} \notin cut
    BY <2>2 DEF Healthy
  <2>7. packet' = [at |-> b, dst |-> n, ttl |-> packet.ttl - 1]
    BY <1>2, <1>8, <2>5, <2>6 DEF SendOn
  <2>8. packet' \in DataPacket /\ packet'.at = b /\ packet'.dst = n
    BY <1>1, <2>2, <2>7 DEF DataPacket
  <2> QED
    BY <2>4, <2>8, TargetAssumption
<1> QED
  BY <1>5, <1>6, <1>7, <1>8 DEF Handle

(* Once the tables of a network have converged and while nothing is down,  *)
(* forward_data takes every packet strictly nearer to its network at every *)
(* hop, whatever the network: no loop is left.                             *)
THEOREM ForwardNearer == ForwardSpec => ConvergedNearer
<1>1. TablesInv /\ ForwardTypeOK /\ [ForwardNext]_allvars =>
        [\A r \in Router :
           /\ Healthy /\ Handle(r)
           /\ packet.dst \in Net /\ packet.ttl > 0 /\ Dist[r][packet.dst] < INF_COST
           => \/ DeliverConnected(r)
              \/ /\ packet' # NoPacket
                 /\ Dist[packet'.at][packet'.dst] < Dist[r][packet'.dst]]_allvars
  BY HandleNearer
<1> QED
  BY <1>1, TablesSound, PacketInvariant, PTL DEF ForwardSpec, ConvergedNearer

-----------------------------------------------------------------------------
(***************************************************************************)
(* The array behind a table (RouterTable), for any number of entries: no   *)
(* two are of one network, so that what it says of a network is what the   *)
(* one entry says.                                                         *)
(***************************************************************************)
NextHops == Neighbors \cup {NextHopNone}
TableEntry == [dest_net : Nat, mask : 0 .. ADDR_BITS, next_hop : NextHops, cost : 0 .. INF_COST]
IsOf(e, net, mask) == e.dest_net = net /\ e.mask = mask

KeysDistinct(table) ==
  \A i, j \in 1 .. Len(table) :
    table[i].dest_net = table[j].dest_net /\ table[i].mask = table[j].mask => i = j

TableSound(table) == table \in Seq(TableEntry) /\ Len(table) <= MAX_DEST /\ KeysDistinct(table)

TableInv == TableSound(routes)

(* What is said of a network that has no entry.                            *)
Unknown == [cost |-> INF_COST, next_hop |-> NextHopNone]

(* A set of numbers has a least one. *)
LEMMA LeastElement ==
  ASSUME NEW T, T \subseteq Nat, T # {}
  PROVE  \E x \in T : \A y \in T : x <= y
<1> DEFINE R == OpToRel(<, Nat)
<1>1. IsWellFoundedOn(R, Nat)
  BY NatLessThanWellFounded
<1>2. \A x, y \in Nat : y < x => <<y, x>> \in R
  BY DEF OpToRel
<1> HIDE DEF R
<1>3. PICK x \in T : \A y \in T : ~ (<<y, x>> \in R)
  BY <1>1, WFMin
<1>4. \A y \in T : ~(y < x)
  BY <1>2, <1>3, Zenon
<1> QED
  BY <1>4

(* The search of the array finds an entry of the network if there is one.  *)
LEMMA FindIs ==
  ASSUME NEW table \in Seq(TableEntry), NEW net, NEW mask
  PROVE  \/ /\ Find(table, net, mask) = 0
            /\ \A i \in 1 .. Len(table) : ~IsOf(table[i], net, mask)
         \/ /\ Find(table, net, mask) \in 1 .. Len(table)
            /\ IsOf(table[Find(table, net, mask)], net, mask)
<1>1. PICK T : T = {i \in 1 .. Len(table) : table[i].dest_net = net /\ table[i].mask = mask}
  OBVIOUS
<1>2. Find(table, net, mask) = IF T # {} THEN CHOOSE x \in T : \A y \in T : x <= y ELSE 0
  BY <1>1 DEF Find, SelectInSeq, Min
<1>3. CASE T = {}
  BY <1>1, <1>2, <1>3 DEF IsOf
<1>4. CASE T # {}
  <2>1. T \subseteq Nat
    BY <1>1
  <2>2. \E x \in T : \A y \in T : x <= y
    BY <1>4, <2>1, LeastElement
  <2>3. Find(table, net, mask) \in T
    BY <1>2, <1>4, <2>2
  <2> QED
    BY <1>1, <2>3 DEF IsOf
<1> QED
  BY <1>3, <1>4

(* What a table says of a network is what its entry says.                  *)
LEMMA SaysIs ==
  ASSUME NEW table \in Seq(TableEntry), KeysDistinct(table), NEW p
  PROVE  /\ (\A i \in 1 .. Len(table) : ~IsOf(table[i], p[1], p[2])) => Says(table, p) = Unknown
         /\ \A i \in 1 .. Len(table) : IsOf(table[i], p[1], p[2]) =>
              Says(table, p) = [cost |-> table[i].cost, next_hop |-> table[i].next_hop]
<1>1. PICK es : es = {e \in ToSet(table) : e.dest_net = p[1] /\ e.mask = p[2]}
  OBVIOUS
<1>2. Says(table, p) = IF es = {} THEN Unknown
                       ELSE [cost |-> (CHOOSE e \in es : TRUE).cost, next_hop |-> (CHOOSE e \in es : TRUE).next_hop]
  BY <1>1 DEF Says, Unknown
<1>3. \A e : e \in ToSet(table) <=> \E i \in 1 .. Len(table) : table[i] = e
  BY DEF ToSet
<1>4. ASSUME \A i \in 1 .. Len(table) : ~IsOf(table[i], p[1], p[2]) PROVE Says(table, p) = Unknown
  <2>1. es = {}
    BY <1>1, <1>3, <1>4 DEF IsOf
  <2> QED
    BY <1>2, <2>1
<1>5. ASSUME NEW i \in 1 .. Len(table), IsOf(table[i], p[1], p[2])
      PROVE  Says(table, p) = [cost |-> table[i].cost, next_hop |-> table[i].next_hop]
  <2>1. table[i] \in es
    BY <1>1, <1>3, <1>5 DEF IsOf
  <2>2. \A e \in es : e = table[i]
    BY <1>1, <1>3, <1>5 DEF IsOf, KeysDistinct
  <2>3. (CHOOSE e \in es : TRUE) = table[i]
    BY <2>1, <2>2
  <2> QED
    BY <1>2, <2>1, <2>3
<1> QED
  BY <1>4, <1>5

(* rt_find_or_add keeps the array sound and says nothing new: the entry it *)
(* adds is that of an unreachable network.                                 *)
LEMMA GrownIs ==
  ASSUME NEW table, TableSound(table), NEW p \in Nat \X (0 .. ADDR_BITS)
  PROVE  LET grown == rt_find_or_add(table, p[1], p[2])
             i == Find(grown, p[1], p[2])
         IN  /\ TableSound(grown)
             /\ \A q : Says(grown, q) = Says(table, q)
             /\ i = 0 => grown = table /\ Len(table) = MAX_DEST
             /\ i # 0 => i \in 1 .. Len(grown) /\ IsOf(grown[i], p[1], p[2])
<1>1. table \in Seq(TableEntry) /\ Len(table) <= MAX_DEST /\ KeysDistinct(table)
  BY DEF TableSound
<1>2. PICK new : new = [dest_net |-> p[1], mask |-> p[2], next_hop |-> NextHopNone, cost |-> INF_COST]
  OBVIOUS
<1>3. new \in TableEntry
  BY <1>2, TableAssumption DEF TableEntry, NextHops
<1>4. PICK grown : grown = rt_find_or_add(table, p[1], p[2])
  OBVIOUS
<1>5. MAX_DEST \in Nat
  BY TableAssumption
<1>6. CASE Find(table, p[1], p[2]) = 0 /\ Len(table) < MAX_DEST
  <2>1. grown = Append(table, new)
    BY <1>2, <1>4, <1>6 DEF rt_find_or_add
  <2>2. /\ grown \in Seq(TableEntry) /\ Len(grown) = Len(table) + 1 /\ grown[Len(table) + 1] = new
        /\ \A i \in 1 .. Len(table) : grown[i] = table[i]
    BY <1>1, <1>3, <2>1, AppendProperties
  <2>3. \A i \in 1 .. Len(table) : ~IsOf(table[i], p[1], p[2])
    BY <1>1, <1>6, FindIs
  <2>4. IsOf(new, p[1], p[2])
    BY <1>2 DEF IsOf
  <2>5. Len(table) \in Nat /\ \A i \in 1 .. Len(grown) : i = Len(table) + 1 \/ i \in 1 .. Len(table)
    BY <1>1, <2>2
  <2>6. KeysDistinct(grown)
    <3>1. \A i \in 1 .. Len(table) : ~(table[i].dest_net = new.dest_net /\ table[i].mask = new.mask)
      BY <2>3, <2>4 DEF IsOf
    <3>2. ASSUME NEW i \in 1 .. Len(grown), NEW j \in 1 .. Len(grown),
                 grown[i].dest_net = grown[j].dest_net, grown[i].mask = grown[j].mask
          PROVE  i = j
      <4>1. CASE i = Len(table) + 1
        BY <2>2, <2>5, <3>1, <3>2, <4>1
      <4>2. CASE i \in 1 .. Len(table) /\ j \in 1 .. Len(table)
        BY <1>1, <2>2, <3>2, <4>2 DEF KeysDistinct
      <4>3. CASE i \in 1 .. Len(table) /\ j = Len(table) + 1
        BY <2>2, <3>1, <3>2, <4>3
      <4> QED
        BY <2>5, <4>1, <4>2, <4>3
    <3> QED
      BY <3>2 DEF KeysDistinct
  <2>7. TableSound(grown)
    BY <1>5, <1>6, <2>2, <2>5, <2>6 DEF TableSound
  <2>8. ASSUME NEW q PROVE Says(grown, q) = Says(table, q)
    <3>1. CASE IsOf(new, q[1], q[2])
      <4>1. q[1] = p[1] /\ q[2] = p[2]
        BY <2>4, <3>1 DEF IsOf
      <4>2. Says(table, q) = Unknown
        BY <1>1, <2>3, <4>1, SaysIs
      <4>3. Len(table) + 1 \in 1 .. Len(grown)
        BY <2>2, <2>5
      <4>4. Says(grown, q) = [cost |-> new.cost, next_hop |-> new.next_hop]
        BY <2>2, <2>6, <3>1, <4>3, SaysIs
      <4> QED
        BY <1>2, <4>2, <4>4 DEF Unknown
    <3>2. CASE ~IsOf(new, q[1], q[2])
      <4>1. CASE \E i \in 1 .. Len(table) : IsOf(table[i], q[1], q[2])
        <5>1. PICK i \in 1 .. Len(table) : IsOf(table[i], q[1], q[2])
          BY <4>1
        <5>2. i \in 1 .. Len(grown) /\ grown[i] = table[i]
          BY <2>2, <2>5
        <5>3. Says(table, q) = [cost |-> table[i].cost, next_hop |-> table[i].next_hop]
          BY <1>1, <5>1, SaysIs
        <5>4. Says(grown, q) = [cost |-> table[i].cost, next_hop |-> table[i].next_hop]
          BY <2>2, <2>6, <5>1, <5>2, SaysIs
        <5> QED
          BY <5>3, <5>4
      <4>2. CASE \A i \in 1 .. Len(table) : ~IsOf(table[i], q[1], q[2])
        <5>1. \A i \in 1 .. Len(grown) : ~IsOf(grown[i], q[1], q[2])
          BY <2>2, <2>5, <3>2, <4>2
        <5> QED
          BY <1>1, <2>2, <2>6, <4>2, <5>1, SaysIs
      <4> QED
        BY <4>1, <4>2
    <3> QED
      BY <3>1, <3>2
  <2>9. Find(grown, p[1], p[2]) # 0
    <3>1. Len(table) + 1 \in 1 .. Len(grown) /\ IsOf(grown[Len(table) + 1], p[1], p[2])
      BY <2>2, <2>4, <2>5
    <3> QED
      BY <2>2, <3>1, FindIs
  <2> QED
    BY <1>4, <2>2, <2>7, <2>8, <2>9, FindIs
<1>7. CASE ~(Find(table, p[1], p[2]) = 0 /\ Len(table) < MAX_DEST)
  <2>1. grown = table
    BY <1>4, <1>7 DEF rt_find_or_add
  <2>2. Find(table, p[1], p[2]) = 0 => Len(table) = MAX_DEST
    BY <1>1, <1>5, <1>7
  <2> QED
    BY <1>1, <1>4, <2>1, <2>2, FindIs DEF TableSound
<1> QED
  BY <1>6, <1>7

(* Setting an entry changes what is said of its network and of no other.   *)
LEMMA SetRouteIs ==
  ASSUME NEW table, TableSound(table), NEW i \in 1 .. Len(table), NEW p,
         IsOf(table[i], p[1], p[2]), NEW new, new.cost \in 0 .. INF_COST, new.next_hop \in NextHops
  PROVE  /\ TableSound(SetRoute(table, i, new))
         /\ Says(SetRoute(table, i, new), p) = [cost |-> new.cost, next_hop |-> new.next_hop]
         /\ \A q : q[1] # p[1] \/ q[2] # p[2] => Says(SetRoute(table, i, new), q) = Says(table, q)
<1>1. table \in Seq(TableEntry) /\ Len(table) <= MAX_DEST /\ KeysDistinct(table)
  BY DEF TableSound
<1>2. PICK entry : entry = [dest_net |-> table[i].dest_net, mask |-> table[i].mask,
                            next_hop |-> new.next_hop, cost |-> new.cost]
  OBVIOUS
<1>3. entry \in TableEntry
  <2>1. table[i] \in TableEntry
    BY <1>1
  <2>2. table[i].dest_net \in Nat /\ table[i].mask \in 0 .. ADDR_BITS
    BY <2>1 DEF TableEntry
  <2> QED
    BY <1>2, <2>2 DEF TableEntry
<1>4. PICK set : set = SetRoute(table, i, new) /\ set = [table EXCEPT ![i] = entry]
  BY <1>2 DEF SetRoute
<1>5. set \in Seq(TableEntry) /\ Len(set) = Len(table)
  BY <1>1, <1>3, <1>4, ExceptSeq
<1>6. \A j \in 1 .. Len(table) : set[j] = IF j = i THEN entry ELSE table[j]
  BY <1>1, <1>4
<1>7. \A j \in 1 .. Len(table) : set[j].dest_net = table[j].dest_net /\ set[j].mask = table[j].mask
  BY <1>2, <1>6
<1>8. TableSound(set)
  BY <1>1, <1>5, <1>7 DEF TableSound, KeysDistinct
<1>9. Says(set, p) = [cost |-> new.cost, next_hop |-> new.next_hop]
  <2>1. IsOf(set[i], p[1], p[2])
    BY <1>7 DEF IsOf
  <2>2. Says(set, p) = [cost |-> entry.cost, next_hop |-> entry.next_hop]
    BY <1>5, <1>6, <1>8, <2>1, SaysIs DEF TableSound
  <2> QED
    BY <1>2, <2>2
<1>10. ASSUME NEW q, q[1] # p[1] \/ q[2] # p[2] PROVE Says(set, q) = Says(table, q)
  <2>1. CASE \E j \in 1 .. Len(table) : IsOf(table[j], q[1], q[2])
    <3>1. PICK j \in 1 .. Len(table) : IsOf(table[j], q[1], q[2])
      BY <2>1
    <3>2. j # i
      BY <1>10, <3>1 DEF IsOf
    <3>3. set[j] = table[j] /\ j \in 1 .. Len(set)
      BY <1>5, <1>6, <3>2
    <3>4. Says(table, q) = [cost |-> table[j].cost, next_hop |-> table[j].next_hop]
      BY <1>1, <3>1, SaysIs
    <3>5. Says(set, q) = [cost |-> table[j].cost, next_hop |-> table[j].next_hop]
      BY <1>5, <1>8, <3>1, <3>3, SaysIs DEF TableSound
    <3> QED
      BY <3>4, <3>5
  <2>2. CASE \A j \in 1 .. Len(table) : ~IsOf(table[j], q[1], q[2])
    <3>1. \A j \in 1 .. Len(set) : ~IsOf(set[j], q[1], q[2])
      BY <1>5, <1>7, <2>2 DEF IsOf
    <3> QED
      BY <1>1, <1>5, <1>8, <2>2, <3>1, SaysIs DEF TableSound
  <2> QED
    BY <2>1, <2>2
<1> QED
  BY <1>4, <1>8, <1>9, <1>10

(* What dv_update makes of an entry depends on its cost and next hop.      *)
LEMMA RelaxSays ==
  ASSUME NEW e \in TableEntry, NEW b \in Neighbors, NEW cost \in 0 .. INF_COST, NEW link \in Nat
  PROVE  LET new == Relax(e, b, cost, link)
         IN  /\ new.cost \in 0 .. INF_COST /\ new.next_hop \in NextHops
             /\ Relax([cost |-> e.cost, next_hop |-> e.next_hop], b, cost, link)
                  = [cost |-> new.cost, next_hop |-> new.next_hop]
<1>1. INF_COST \in Nat
  BY TableAssumption
<1>2. PICK sum \in 0 .. INF_COST : sum = IF link + cost > INF_COST THEN INF_COST ELSE link + cost
  BY <1>1
<1>3. e.cost \in 0 .. INF_COST /\ e.next_hop \in NextHops /\ b \in NextHops
  BY DEF TableEntry, NextHops
<1>4. PICK poisoned : poisoned = [e EXCEPT !.cost = INF_COST]
  OBVIOUS
<1>5. poisoned.cost = INF_COST /\ poisoned.next_hop = e.next_hop
  BY <1>4 DEF TableEntry
<1>6. PICK f : f = [cost |-> e.cost, next_hop |-> e.next_hop]
  OBVIOUS
<1>7. [f EXCEPT !.cost = INF_COST] = [cost |-> INF_COST, next_hop |-> e.next_hop]
  BY <1>6
<1>8. Relax(e, b, cost, link) =
        IF cost >= INF_COST
          THEN IF e.next_hop = b THEN poisoned ELSE e
          ELSE IF sum < e.cost \/ (e.next_hop = b /\ sum # e.cost) THEN [cost |-> sum, next_hop |-> b] ELSE e
  BY <1>2, <1>4 DEF Relax
<1>9. Relax(f, b, cost, link) =
        IF cost >= INF_COST
          THEN IF e.next_hop = b THEN [cost |-> INF_COST, next_hop |-> e.next_hop] ELSE f
          ELSE IF sum < e.cost \/ (e.next_hop = b /\ sum # e.cost) THEN [cost |-> sum, next_hop |-> b] ELSE f
  BY <1>2, <1>6, <1>7 DEF Relax
<1> QED
  BY <1>1, <1>3, <1>5, <1>6, <1>8, <1>9

-----------------------------------------------------------------------------
(* One entry of a DV, of the configuration, or a poisoning keeps the array *)
(* sound; an offer is taken as TableIsFunction says.                       *)
LEMMA OfferIs ==
  ASSUME TableSound(routes), NEW b \in Neighbors, NEW p \in Networks, NEW cost \in 0 .. INF_COST,
         Offer(b, p[1], p[2], cost)
  PROVE  /\ TableSound(routes')
         /\ \A q \in Networks \ {p} : Says(routes', q) = Says(routes, q)
         /\ \/ Says(routes', p) = Relax(Says(routes, p), b, cost, NbCost[b])
            \/ /\ Says(routes', p) = Says(routes, p)
               /\ Len(routes) = MAX_DEST /\ Find(routes, p[1], p[2]) = 0
<1>1. p \in Nat \X (0 .. ADDR_BITS) /\ NbCost[b] \in Nat
  BY TableAssumption
<1>2. PICK grown : grown = rt_find_or_add(routes, p[1], p[2])
  OBVIOUS
<1>3. PICK i : i = Find(grown, p[1], p[2])
  OBVIOUS
<1>4. /\ TableSound(grown) /\ \A q : Says(grown, q) = Says(routes, q)
      /\ i = 0 => grown = routes /\ Len(routes) = MAX_DEST
      /\ i # 0 => i \in 1 .. Len(grown) /\ IsOf(grown[i], p[1], p[2])
  BY <1>1, <1>2, <1>3, GrownIs
<1>5. routes' = IF i = 0 THEN routes ELSE SetRoute(grown, i, Relax(grown[i], b, cost, NbCost[b]))
  BY <1>2, <1>3 DEF Offer
<1>6. CASE i = 0
  BY <1>3, <1>4, <1>5, <1>6
<1>7. CASE i # 0
  <2>1. i \in 1 .. Len(grown) /\ grown \in Seq(TableEntry) /\ KeysDistinct(grown) /\ IsOf(grown[i], p[1], p[2])
    BY <1>4, <1>7 DEF TableSound
  <2>2. grown[i] \in TableEntry
    BY <2>1
  <2>3. PICK new : new = Relax(grown[i], b, cost, NbCost[b])
    OBVIOUS
  <2>4. /\ new.cost \in 0 .. INF_COST /\ new.next_hop \in NextHops
        /\ Relax([cost |-> grown[i].cost, next_hop |-> grown[i].next_hop], b, cost, NbCost[b])
             = [cost |-> new.cost, next_hop |-> new.next_hop]
    BY <1>1, <2>2, <2>3, RelaxSays
  <2>5. /\ TableSound(routes') /\ Says(routes', p) = [cost |-> new.cost, next_hop |-> new.next_hop]
        /\ \A q : q[1] # p[1] \/ q[2] # p[2] => Says(routes', q) = Says(grown, q)
    BY <1>4, <1>5, <1>7, <2>1, <2>3, <2>4, SetRouteIs
  <2>6. Says(grown, p) = [cost |-> grown[i].cost, next_hop |-> grown[i].next_hop]
    BY <2>1, SaysIs
  <2>7. Says(routes', p) = Relax(Says(routes, p), b, cost, NbCost[b])
    BY <1>4, <2>4, <2>5, <2>6
  <2>8. \A q \in Networks \ {p} : q[1] # p[1] \/ q[2] # p[2]
    BY TableAssumption
  <2> QED
    BY <1>4, <2>5, <2>7, <2>8
<1> QED
  BY <1>6, <1>7

LEMMA ParseRouteIs ==
  ASSUME TableSound(routes), NEW p \in Networks, NEW h \in NextHops, ParseRoute(p[1], p[2], h)
  PROVE  TableSound(routes')
<1>1. p \in Nat \X (0 .. ADDR_BITS) /\ 1 \in 0 .. INF_COST /\ 0 \in 0 .. INF_COST
  BY TableAssumption
<1>2. PICK grown : grown = rt_find_or_add(routes, p[1], p[2])
  OBVIOUS
<1>3. PICK i : i = Find(grown, p[1], p[2])
  OBVIOUS
<1>4. PICK new : new = [next_hop |-> h, cost |-> IF h = NextHopNone THEN 0 ELSE 1]
  OBVIOUS
<1>5. i > 0 /\ routes' = SetRoute(grown, i, new)
  BY <1>2, <1>3, <1>4 DEF ParseRoute
<1>6. TableSound(grown) /\ i \in 1 .. Len(grown) /\ IsOf(grown[i], p[1], p[2])
  BY <1>1, <1>2, <1>3, <1>5, GrownIs
<1>7. new.cost \in 0 .. INF_COST /\ new.next_hop \in NextHops
  BY <1>1, <1>4
<1> QED
  BY <1>5, <1>6, <1>7, SetRouteIs

LEMMA PoisonIs ==
  ASSUME TableSound(routes), NEW b \in Neighbors, Poison(b)
  PROVE  TableSound(routes')
<1>1. routes \in Seq(TableEntry) /\ Len(routes) <= MAX_DEST /\ KeysDistinct(routes)
  BY DEF TableSound
<1>2. routes' = [i \in 1 .. Len(routes) |->
                   IF routes[i].next_hop = b THEN [routes[i] EXCEPT !.cost = INF_COST] ELSE routes[i]]
  BY <1>1 DEF Poison
<1>3. ASSUME NEW i \in 1 .. Len(routes)
      PROVE  /\ routes'[i] \in TableEntry
             /\ routes'[i].dest_net = routes[i].dest_net /\ routes'[i].mask = routes[i].mask
  <2>1. routes[i] \in TableEntry /\ INF_COST \in 0 .. INF_COST
    BY <1>1, TableAssumption
  <2>2. routes'[i] = IF routes[i].next_hop = b THEN [routes[i] EXCEPT !.cost = INF_COST] ELSE routes[i]
    BY <1>2
  <2> QED
    BY <2>1, <2>2 DEF TableEntry
<1>4. routes' \in Seq(TableEntry) /\ Len(routes') = Len(routes)
  BY <1>1, <1>2, <1>3, IsASeq
<1> QED
  BY <1>1, <1>3, <1>4 DEF TableSound, KeysDistinct

LEMMA TableInvNext == TableInv /\ [TableNext]_table_vars => TableInv'
<1> SUFFICES ASSUME TableSound(routes), [TableNext]_table_vars PROVE TableSound(routes')
  BY DEF TableInv
<1>1. CASE \E p \in Networks : \E h \in Neighbors \cup {NextHopNone} : ParseRoute(p[1], p[2], h)
  BY <1>1, ParseRouteIs DEF NextHops
<1>2. CASE \E p \in Networks : \E b \in Neighbors, cost \in 0 .. INF_COST : Offer(b, p[1], p[2], cost)
  BY <1>2, OfferIs
<1>3. CASE \E b \in Neighbors : Poison(b)
  BY <1>3, PoisonIs
<1>4. CASE ParseEnds \/ UNCHANGED table_vars
  BY <1>4 DEF ParseEnds, table_vars
<1> QED
  BY <1>1, <1>2, <1>3, <1>4 DEF TableNext

LEMMA TableInvariant == TableSpec => []TableInv
<1>1. TableInit => TableInv
  BY TableAssumption DEF TableInit, TableInv, TableSound, KeysDistinct
<1> QED
  BY <1>1, TableInvNext, PTL DEF TableSpec

(* The array stands for a function from networks to routes, whatever is    *)
(* offered or configured: an offer changes what it says of its network as  *)
(* Relax says and of no other, and is lost only when the array is full of  *)
(* other networks.                                                         *)
THEOREM TableFunction == TableSpec => TableIsFunction
<1>1. TableInv /\ [TableNext]_table_vars =>
        [\A b \in Neighbors, p \in Networks, cost \in 0 .. INF_COST :
           Offer(b, p[1], p[2], cost) =>
             /\ \A q \in Networks \ {p} : Says(routes', q) = Says(routes, q)
             /\ \/ Says(routes', p) = Relax(Says(routes, p), b, cost, NbCost[b])
                \/ /\ Says(routes', p) = Says(routes, p)
                   /\ Len(routes) = MAX_DEST /\ Find(routes, p[1], p[2]) = 0]_table_vars
  BY OfferIs DEF TableInv
<1> QED
  BY <1>1, TableInvariant, PTL DEF TableSpec, TableIsFunction

-----------------------------------------------------------------------------
(***************************************************************************)
(* rt_lookup.  Its loop is a recursive function, which exists because a    *)
(* shorter one can always be extended by a turn; what holds after a turn   *)
(* is again the argument of a least counterexample.                        *)
(***************************************************************************)
Turned(table, dst, i, best) ==
  IF Matches(table[i], dst) /\ Longer(table[i], best) THEN table[i] ELSE best

IsLoop(f, table, dst, n) ==
  f = [i \in 0 .. n |-> IF i = 0 THEN NoEntry ELSE Turned(table, dst, i, f[i - 1])]

LEMMA LoopExists ==
  ASSUME NEW table, NEW dst, NEW n \in Nat
  PROVE  \E f : IsLoop(f, table, dst, n)
<1> SUFFICES ASSUME ~ \E f : IsLoop(f, table, dst, n) PROVE FALSE
  OBVIOUS
<1>1. PICK T : T = {m \in Nat : ~ \E f : IsLoop(f, table, dst, m)}
  OBVIOUS
<1>2. PICK m \in T : \A y \in T : m <= y
  BY <1>1, LeastElement
<1>3. m \in Nat /\ ~ \E f : IsLoop(f, table, dst, m)
  BY <1>1
<1>4. CASE m = 0
  <2>1. IsLoop([i \in 0 .. 0 |-> NoEntry], table, dst, 0)
    BY DEF IsLoop
  <2> QED
    BY <1>3, <1>4, <2>1
<1>5. CASE m # 0
  <2>1. m - 1 \in Nat /\ m - 1 \notin T
    BY <1>2, <1>3, <1>5
  <2>2. PICK f : IsLoop(f, table, dst, m - 1)
    BY <1>1, <2>1
  <2>3. PICK g : g = [i \in 0 .. m |-> IF i = m THEN Turned(table, dst, m, f[m - 1]) ELSE f[i]]
    OBVIOUS
  <2>4. \A i \in 0 .. m - 1 : g[i] = f[i] /\ f[i] = IF i = 0 THEN NoEntry ELSE Turned(table, dst, i, f[i - 1])
    BY <1>3, <2>2, <2>3 DEF IsLoop
  <2>5. \A i \in 0 .. m : g[i] = IF i = 0 THEN NoEntry ELSE Turned(table, dst, i, g[i - 1])
    <3> SUFFICES ASSUME NEW i \in 0 .. m
                 PROVE  g[i] = IF i = 0 THEN NoEntry ELSE Turned(table, dst, i, g[i - 1])
      OBVIOUS
    <3>1. CASE i = m
      <4>1. m - 1 \in 0 .. m - 1 /\ g[m - 1] = f[m - 1] /\ g[m] = Turned(table, dst, m, f[m - 1])
        BY <1>3, <1>5, <2>3, <2>4
      <4> QED
        BY <1>5, <3>1, <4>1
    <3>2. CASE i # m
      <4>1. i \in 0 .. m - 1 /\ (i # 0 => i - 1 \in 0 .. m - 1)
        BY <1>3, <3>2
      <4> QED
        BY <2>4, <4>1
    <3> QED
      BY <3>1, <3>2
  <2>6. DOMAIN g = 0 .. m /\ g = [i \in DOMAIN g |-> g[i]]
    BY <2>3
  <2>7. IsLoop(g, table, dst, m)
    BY <2>5, <2>6 DEF IsLoop
  <2> QED
    BY <1>3, <2>7
<1> QED
  BY <1>4, <1>5

LEMMA LookupIs ==
  ASSUME NEW table \in Seq(TableEntry), NEW dst
  PROVE  \E f : IsLoop(f, table, dst, Len(table)) /\ rt_lookup(table, dst) = f[Len(table)]
<1>1. Len(table) \in Nat
  OBVIOUS
<1>2. PICK f : f = CHOOSE g : IsLoop(g, table, dst, Len(table))
  OBVIOUS
<1>3. IsLoop(f, table, dst, Len(table))
  BY <1>1, <1>2, LoopExists
<1>4. rt_lookup(table, dst) = f[Len(table)]
  BY <1>2 DEF rt_lookup, IsLoop, Turned
<1> QED
  BY <1>3, <1>4

(* After each turn of the loop best is the longest match of those seen.    *)
BestSoFar(table, dst, best, n) ==
  \/ /\ best = NoEntry
     /\ \A i \in 1 .. n : Matches(table[i], dst) => table[i].mask = 0
  \/ /\ \E i \in 1 .. n : table[i] = best /\ Matches(best, dst) /\ best.mask > 0
     /\ \A i \in 1 .. n : Matches(table[i], dst) => table[i].mask <= best.mask

LEMMA LookupSound ==
  ASSUME NEW table \in Seq(TableEntry), NEW dst
  PROVE  BestSoFar(table, dst, rt_lookup(table, dst), Len(table))
<1>1. PICK n \in Nat : n = Len(table)
  OBVIOUS
<1>2. PICK f : IsLoop(f, table, dst, n) /\ rt_lookup(table, dst) = f[n]
  BY <1>1, LookupIs
<1>3. \A i \in 0 .. n : f[i] = IF i = 0 THEN NoEntry ELSE Turned(table, dst, i, f[i - 1])
  BY <1>2 DEF IsLoop
<1>4. \A i \in 1 .. n : table[i] \in TableEntry
  BY <1>1
<1> SUFFICES ASSUME ~BestSoFar(table, dst, f[n], n) PROVE FALSE
  BY <1>1, <1>2
<1>5. PICK T : T = {m \in 0 .. n : ~BestSoFar(table, dst, f[m], m)}
  OBVIOUS
<1>6. PICK m \in T : \A y \in T : m <= y
  <2>1. T \subseteq Nat /\ n \in T
    BY <1>1, <1>5
  <2> QED
    BY <2>1, LeastElement
<1>7. m \in 0 .. n /\ ~BestSoFar(table, dst, f[m], m)
  BY <1>5
<1>8. CASE m = 0
  BY <1>3, <1>7, <1>8 DEF BestSoFar
<1>9. CASE m # 0
  <2>1. m - 1 \in 0 .. n /\ m \in 1 .. n /\ m - 1 \notin T
    BY <1>1, <1>6, <1>7, <1>9
  <2>2. BestSoFar(table, dst, f[m - 1], m - 1)
    BY <1>5, <2>1
  <2>3. f[m] = Turned(table, dst, m, f[m - 1])
    BY <1>3, <1>7, <1>9
  <2>4. PICK best : best = f[m - 1]
    OBVIOUS
  <2>5. table[m].mask \in Nat /\ \A i \in 1 .. m - 1 : table[i].mask \in Nat
    BY <1>1, <1>4, <2>1 DEF TableEntry
  <2>6. best.mask \in Nat
    BY <2>2, <2>4, <2>5 DEF BestSoFar, NoEntry
  <2>7. \A i \in 1 .. m : i = m \/ i \in 1 .. m - 1
    BY <1>7
  <2>8. \A i \in 1 .. m - 1 : i \in 1 .. m
    BY <1>7
  <2>9. CASE Matches(table[m], dst) /\ table[m].mask > best.mask
    <3>1. f[m] = table[m]
      BY <2>3, <2>4, <2>9 DEF Turned, Longer
    <3>2. \A i \in 1 .. m - 1 : Matches(table[i], dst) => table[i].mask <= best.mask
      BY <2>2, <2>4, <2>5 DEF BestSoFar, NoEntry
    <3>3. \A i \in 1 .. m : Matches(table[i], dst) => table[i].mask <= table[m].mask
      BY <2>5, <2>6, <2>7, <2>9, <3>2
    <3>4. m \in 1 .. m /\ table[m].mask > 0
      BY <2>1, <2>5, <2>6, <2>9
    <3> QED
      BY <1>7, <2>9, <3>1, <3>3, <3>4 DEF BestSoFar
  <2>10. CASE ~(Matches(table[m], dst) /\ table[m].mask > best.mask)
    <3>1. f[m] = best
      BY <2>3, <2>4, <2>10 DEF Turned, Longer
    <3>2. Matches(table[m], dst) => table[m].mask <= best.mask
      BY <2>5, <2>6, <2>10
    <3>3. CASE best = NoEntry /\ \A i \in 1 .. m - 1 : Matches(table[i], dst) => table[i].mask = 0
      <4>1. Matches(table[m], dst) => table[m].mask = 0
        BY <2>5, <3>2, <3>3 DEF NoEntry
      <4> QED
        BY <1>7, <2>7, <3>1, <3>3, <4>1 DEF BestSoFar
    <3>4. CASE /\ \E i \in 1 .. m - 1 : table[i] = best /\ Matches(best, dst) /\ best.mask > 0
               /\ \A i \in 1 .. m - 1 : Matches(table[i], dst) => table[i].mask <= best.mask
      BY <1>7, <2>7, <2>8, <3>1, <3>2, <3>4 DEF BestSoFar
    <3> QED
      BY <2>2, <2>4, <3>3, <3>4 DEF BestSoFar
  <2> QED
    BY <2>9, <2>10
<1> QED
  BY <1>7, <1>8, <1>9

(* For any array of entries, in whatever order they were learned, a packet *)
(* that some entry with a mask covers follows a covering entry than which  *)
(* none is more specific.                                                  *)
THEOREM TableLookup == TableSpec => []LookupSpecific
<1>1. TableInv => LookupSpecific
  <2> SUFFICES ASSUME TableInv, NEW dst \in 0 .. 2^ADDR_BITS - 1,
                      NEW specific, specific = {e \in Covering(routes, dst) : e.mask > 0},
                      NEW found, found = rt_lookup(routes, dst), specific # {}
               PROVE  FoundBest(specific, found)
    BY DEF LookupSpecific
  <2>1. routes \in Seq(TableEntry)
    BY DEF TableInv, TableSound
  <2>2. PICK n \in Nat : n = Len(routes)
    BY <2>1
  <2>3. \A e : e \in specific <=> (\E i \in 1 .. n : routes[i] = e) /\ e.mask > 0 /\ Matches(e, dst)
    BY <2>1, <2>2 DEF Covering, ToSet
  <2>4. BestSoFar(routes, dst, found, n)
    BY <2>1, <2>2, LookupSound
  <2>5. ~(found = NoEntry /\ \A i \in 1 .. n : Matches(routes[i], dst) => routes[i].mask = 0)
    <3>1. PICK i \in 1 .. n : routes[i].mask > 0 /\ Matches(routes[i], dst)
      BY <2>3
    <3> QED
      BY <3>1
  <2>6. /\ \E i \in 1 .. n : routes[i] = found /\ Matches(found, dst) /\ found.mask > 0
        /\ \A i \in 1 .. n : Matches(routes[i], dst) => routes[i].mask <= found.mask
    BY <2>4, <2>5 DEF BestSoFar
  <2>7. found \in specific
    BY <2>3, <2>6
  <2>8. \A e \in specific : e.mask <= found.mask
    BY <2>3, <2>6
  <2> QED
    BY <2>7, <2>8 DEF FoundBest
<1> QED
  BY <1>1, TableInvariant, PTL DEF TableSpec
=============================================================================
