------------------------------ MODULE RouterDV ------------------------------
(***************************************************************************)
(* Distance-vector routing between router processes (hw3/starter/router.c  *)
(* and common.h).  Each router runs one select loop; a turn of the loop    *)
(* broadcasts, expires silent neighbours and handles one DV message, and   *)
(* since routers share nothing but their sockets each of these is an       *)
(* action of its own.                                                      *)
(*                                                                         *)
(* Time is abstracted to its effect: DEAD_INTERVAL_SEC covers three        *)
(* broadcast periods, so a neighbour is only found silent when it is down  *)
(* or the link to it is.  (One that is silent because it has marked us     *)
(* dead did so in an outage, and whether we find out before or after the   *)
(* link is back comes to the same.)  A destination that is missing from a  *)
(* table and one entered at INF_COST without a next hop are not told apart.*)
(***************************************************************************)
EXTENDS RouteEntry, Sequences, FiniteSets

CONSTANTS
  Router,
  Net,          \* destination networks (net and mask)
  Direct,       \* next hop 0.0.0.0: connected, or no next hop
  LinkCost,     \* cost of each link, 0 where two routers are not neighbours
  Config,       \* routes of each configuration file
  Dist,         \* the least cost at which a router can reach a network
  QueueLen,     \* DV messages of one sender held by a control socket
  MaxCrashes,   \* bounds the crashes and restarts of a run
  MaxOutages,   \* bounds the link outages of a run
  MaxFaults,    \* bounds both together
  Fragile       \* bound: the links that may be cut

Cost == 0 .. INF_COST
Route == [cost : Cost, next_hop : Router \cup {Direct}]
Neighbor(r) == {b \in Router : LinkCost[r][b] > 0}

ASSUME RouterAssumption ==
  /\ Direct \notin Router
  /\ INF_COST \in Nat \ {0}
  /\ LinkCost \in [Router -> [Router -> Nat]]
  /\ \A r \in Router : LinkCost[r][r] = 0
  /\ Config \in [Router -> [Net -> Route]]
  /\ QueueLen \in Nat \ {0} /\ MaxCrashes \in Nat /\ MaxOutages \in Nat
  /\ MaxFaults \in Nat

(* Dist is a lower bound that respects links and configured routes. *)
ASSUME DistAssumption ==
  /\ Dist \in [Router -> [Net -> Cost]]
  /\ \A r \in Router, n \in Net : Dist[r][n] <= Config[r][n].cost
  /\ \A r \in Router, n \in Net : \A b \in Neighbor(r) :
       Dist[r][n] <= LinkCost[r][b] + Dist[b][n]

VARIABLES
  up,        \* is the router process running?
  route,     \* routing tables
  alive,     \* which neighbours a router takes to be alive
  channel,   \* channel[a][b]: DV messages from a waiting in b's socket
  cut,       \* links that currently carry nothing
  crashes, outages

dv_vars == <<up, route, alive, channel, cut, crashes, outages>>

Links == {{a, b} : a, b \in Router} \* a link carries both directions
DV == [Net -> Cost]

DVTypeOK ==
  /\ up \in [Router -> BOOLEAN]
  /\ route \in [Router -> [Net -> Route]]
  /\ alive \in [Router -> [Router -> BOOLEAN]]
  /\ channel \in [Router -> [Router -> Seq(DV)]]
  /\ cut \subseteq Links
  /\ crashes \in 0 .. MaxCrashes
  /\ outages \in 0 .. MaxOutages

DVInit ==
  /\ up = [r \in Router |-> TRUE]
  /\ route = Config
  /\ alive = [r \in Router |-> [b \in Router |-> TRUE]]
  /\ channel = [a \in Router |-> [b \in Router |-> << >>]]
  /\ cut = {}
  /\ crashes = 0 /\ outages = 0

-----------------------------------------------------------------------------
(* send_dv: the whole table, with poison reverse towards b. *)
Advert(table, b) ==
  [n \in Net |-> IF table[n].next_hop = b THEN INF_COST ELSE table[n].cost]

(* broadcast_dv: one DV to every neighbour believed alive.  It is lost if  *)
(* the link or the receiver is down, or the receiver's buffer is full.     *)
Sent(r, table, living) ==
  [channel EXCEPT ![r] = [b \in Router |->
     IF /\ b \in Neighbor(r) /\ living[b]
        /\ up[b] /\ {r, b} \notin cut /\ Len(channel[r][b]) < QueueLen
       THEN Append(channel[r][b], Advert(table, b))
       ELSE channel[r][b]]]

SendDV(r) ==
  /\ up[r]
  /\ channel' = Sent(r, route[r], alive[r])
  /\ UNCHANGED <<up, route, alive, cut, crashes, outages>>

(* Faulty: the routes through the dead neighbour are left as they are. *)
NotPoisoned(table, b) == table

Poisoned(table, b) ==
  [n \in Net |-> IF table[n].next_hop = b THEN [table[n] EXCEPT !.cost = INF_COST] ELSE table[n]]

(* Nothing heard of b for DEAD_INTERVAL_SEC.  What waits in the socket     *)
(* does not count: the loop looks at its neighbours before it reads.       *)
Silent(r, b) == ~up[b] \/ {r, b} \in cut

(* Neighbour timeout: mark b dead, poison the routes through it and, if    *)
(* there were any, tell the other neighbours at once.                      *)
Expire(r, b) ==
  /\ up[r] /\ b \in Neighbor(r) /\ alive[r][b] /\ Silent(r, b)
  /\ alive' = [alive EXCEPT ![r][b] = FALSE]
  /\ LET table == Poisoned(route[r], b)
     IN  /\ route' = [route EXCEPT ![r] = table]
         /\ channel' = IF table # route[r] THEN Sent(r, table, alive'[r]) ELSE channel
  /\ UNCHANGED <<up, cut, crashes, outages>>

(* A DV of neighbour b is read: b is alive again, and the table follows.   *)
ReceiveDV(r, b) ==
  /\ up[r] /\ b \in Neighbor(r) /\ channel[b][r] # << >>
  /\ alive' = [alive EXCEPT ![r][b] = TRUE]
  /\ route' = [route EXCEPT ![r] =
       [n \in Net |-> Relax(route[r][n], b, Head(channel[b][r])[n], LinkCost[r][b])]]
  /\ channel' = [channel EXCEPT ![b][r] = Tail(@)]
  /\ UNCHANGED <<up, cut, crashes, outages>>

-----------------------------------------------------------------------------
(* SIGINT or a crash: the process, its table and what waited in its socket *)
(* are gone.                                                               *)
Crash(r) ==
  /\ up[r] /\ crashes < MaxCrashes /\ crashes + outages < MaxFaults
  /\ crashes' = crashes + 1
  /\ up' = [up EXCEPT ![r] = FALSE]
  /\ route' = [route EXCEPT ![r] = Config[r]]
  /\ alive' = [alive EXCEPT ![r] = [b \in Router |-> TRUE]]
  /\ channel' = [a \in Router |-> [channel[a] EXCEPT ![r] = << >>]]
  /\ UNCHANGED <<cut, outages>>

Restart(r) ==
  /\ ~up[r]
  /\ up' = [up EXCEPT ![r] = TRUE]
  /\ UNCHANGED <<route, alive, channel, cut, crashes, outages>>

LinkFails(a, b) ==
  /\ b \in Neighbor(a) /\ {a, b} \in Fragile \ cut
  /\ outages < MaxOutages /\ crashes + outages < MaxFaults
  /\ outages' = outages + 1
  /\ cut' = cut \cup {{a, b}}
  /\ UNCHANGED <<up, route, alive, channel, crashes>>

LinkHeals(a, b) ==
  /\ {a, b} \in cut
  /\ cut' = cut \ {{a, b}}
  /\ UNCHANGED <<up, route, alive, channel, crashes, outages>>

RouterNext(r) == SendDV(r) \/ \E b \in Router : Expire(r, b) \/ ReceiveDV(r, b)

FaultNext ==
  \/ \E r \in Router : Crash(r) \/ Restart(r)
  \/ \E a, b \in Router : LinkFails(a, b) \/ LinkHeals(a, b)

DVNext == (\E r \in Router : RouterNext(r)) \/ FaultNext

DVSpec == DVInit /\ [][DVNext]_dv_vars

(* The select loop keeps turning: a running router broadcasts every        *)
(* UPDATE_INTERVAL_SEC, reads what arrives and checks its neighbours.      *)
(* Nothing is assumed of crashed routers and cut links.                    *)
LoopTurns ==
  \A r \in Router :
    /\ WF_dv_vars(SendDV(r))
    /\ \A b \in Neighbor(r) : WF_dv_vars(Expire(r, b)) /\ WF_dv_vars(ReceiveDV(r, b))

DVFair == DVSpec /\ LoopTurns

-----------------------------------------------------------------------------
(* No router ever believes in a path cheaper than the cheapest there is,   *)
(* through any crashes, restarts, outages, lost and stale messages.        *)
CostSound == \A r \in Router, n \in Net : route[r][n].cost >= Dist[r][n]

(* A router never stops delivering to its own networks: no advertisement   *)
(* and no expiry touches a connected route.                                *)
ConnectedKept ==
  \A r \in Router, n \in Net :
    Config[r][n] = [cost |-> 0, next_hop |-> Direct] => route[r][n] = Config[r][n]

(* A usable route never leads to a neighbour that is marked dead.          *)
NoRouteThroughDead ==
  \A r \in Router, n \in Net : \A b \in Neighbor(r) :
    route[r][n].next_hop = b /\ route[r][n].cost < INF_COST => alive[r][b]

Converged == \A r \in Router, n \in Net : route[r][n].cost = Dist[r][n]

(* Every router connected to a network is down or cut off from all others. *)
HasNet(r, n) == Config[r][n].cost = 0
Gone(n) ==
  \A r \in Router : HasNet(r, n) => ~up[r] \/ \A b \in Neighbor(r) : {r, b} \in cut
Forgotten(n) == \A r \in Router : up[r] /\ ~HasNet(r, n) => route[r][n].cost = INF_COST

(* When faults have come to an end (the bounds see to that), tables settle *)
(* on what is true.  All come to know that a network is gone: counting up  *)
(* in a loop of stale routes ends at INF_COST.  And all least costs are    *)
(* found if every router is up and no link was ever cut.                   *)
Settles ==
  <>[](/\ \A n \in Net : Gone(n) => Forgotten(n)
       /\ (\A r \in Router : up[r]) /\ outages = 0 => Converged)

(* neighbor_t.alive is "True if neighbor is still reachable": neighbours   *)
(* that can reach each other for good do not stay marked dead.             *)
ReachableIsAlive ==
  \A r \in Router : \A b \in Neighbor(r) :
    []<>(up[r] /\ up[b] /\ {r, b} \notin cut => alive[r][b])
=============================================================================
