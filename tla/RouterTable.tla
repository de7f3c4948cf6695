---------------------------- MODULE RouterTable ----------------------------
(***************************************************************************)
(* The array behind the routing table of one router (hw3/starter/common.h):*)
(* rt_find_or_add, which keeps it, and rt_lookup, which finds the entry a  *)
(* packet follows.  RouterDV takes the table for a function from networks  *)
(* to routes; here neighbours may offer anything at any time.              *)
(*                                                                         *)
(* A network is an address and the length of its mask.  The address keeps  *)
(* the bits behind the mask that a configuration file may give it.         *)
(***************************************************************************)
EXTENDS RouteEntry, Sequences, SequencesExt

CONSTANTS
  ADDR_BITS,    \* bits of an address, 32 in the code
  Networks,     \* bound: the <<dest_net, mask>> that are configured or offered
  MAX_DEST,     \* entries the array holds
  Neighbors,    \* neighbours, and the cost of the link to each
  NbCost,
  NextHopNone   \* next hop 0.0.0.0

ASSUME TableAssumption ==
  /\ ADDR_BITS \in Nat /\ MAX_DEST \in Nat \ {0} /\ INF_COST \in Nat \ {0}
  /\ Networks \subseteq (0 .. 2^ADDR_BITS - 1) \X (0 .. ADDR_BITS)
  /\ NbCost \in [Neighbors -> Nat \ {0}] /\ NextHopNone \notin Neighbors

VARIABLES
  routes,       \* R->routes, as long as R->num_routes
  parsing       \* is the configuration file still being read?

table_vars == <<routes, parsing>>

TableInit == routes = << >> /\ parsing = TRUE

-----------------------------------------------------------------------------
(* Faulty: the mask is not part of the key. *)
FindByNet(table, net, mask) == SelectInSeq(table, LAMBDA e : e.dest_net = net)

(* Position of an entry, 0 if there is none.                               *)
Find(table, net, mask) ==
  SelectInSeq(table, LAMBDA e : e.dest_net = net /\ e.mask = mask)

(* rt_find_or_add: the table holds the entry, unless it is full.           *)
rt_find_or_add(table, net, mask) ==
  IF Find(table, net, mask) = 0 /\ Len(table) < MAX_DEST
    THEN Append(table, [dest_net |-> net, mask |-> mask, next_hop |-> NextHopNone, cost |-> INF_COST])
    ELSE table

(* The entry at place i takes a cost and a next hop.                       *)
SetRoute(table, i, new) ==
  [table EXCEPT ![i] = [dest_net |-> @.dest_net, mask |-> @.mask,
                        next_hop |-> new.next_hop, cost |-> new.cost]]

(* parse_conf, a route line: a later line for a network replaces an        *)
(* earlier one.  (Files with more networks than MAX_DEST are left out.)    *)
ParseRoute(net, mask, next_hop) ==
  /\ parsing
  /\ LET grown == rt_find_or_add(routes, net, mask)
         i == Find(grown, net, mask)
     IN  /\ i > 0
         /\ routes' = SetRoute(grown, i, [next_hop |-> next_hop,
                                          cost |-> IF next_hop = NextHopNone THEN 0 ELSE 1])
  /\ UNCHANGED parsing

ParseEnds == parsing /\ parsing' = FALSE /\ UNCHANGED routes

(* dv_update: one entry of a DV of neighbour b.  (The entries of a DV do   *)
(* not influence one another but for the room they take.)                  *)
Offer(b, net, mask, cost) ==
  /\ ~parsing
  /\ LET grown == rt_find_or_add(routes, net, mask)
         i == Find(grown, net, mask)
     IN  routes' = IF i = 0
                     THEN routes   \* no room for a new entry
                     ELSE SetRoute(grown, i, Relax(grown[i], b, cost, NbCost[b]))
  /\ UNCHANGED parsing

(* Neighbour b is silent: the entries through it stay, at INF_COST.        *)
Poison(b) ==
  /\ ~parsing
  /\ routes' = [i \in DOMAIN routes |->
       IF routes[i].next_hop = b THEN [routes[i] EXCEPT !.cost = INF_COST] ELSE routes[i]]
  /\ UNCHANGED parsing

TableNext ==
  \/ \E p \in Networks :
       \/ \E h \in Neighbors \cup {NextHopNone} : ParseRoute(p[1], p[2], h)
       \/ \E b \in Neighbors, cost \in 0 .. INF_COST : Offer(b, p[1], p[2], cost)
  \/ ParseEnds
  \/ \E b \in Neighbors : Poison(b)

TableSpec == TableInit /\ [][TableNext]_table_vars

-----------------------------------------------------------------------------
(* dst & mask = dest_net & mask                                            *)
Matches(e, dst) ==
  LET block == 2^(ADDR_BITS - e.mask) IN dst \div block = e.dest_net \div block

NoEntry == [mask |-> 0]

(* Faulty: a later match replaces an earlier one. *)
Better(e, best) == TRUE

Longer(e, best) == e.mask > best.mask

(* rt_lookup: best after each turn of the loop, from best_mask 0.          *)
rt_lookup(table, dst) ==
  LET best[i \in 0 .. Len(table)] ==
        IF i = 0 THEN NoEntry
        ELSE IF Matches(table[i], dst) /\ Longer(table[i], best[i - 1]) THEN table[i] ELSE best[i - 1]
  IN  best[Len(table)]

(* rt_lookup promises "the best route entry or NULL if no match".          *)
FoundBest(covering, found) ==
  IF covering = {}
    THEN found = NoEntry
    ELSE found \in covering /\ \A e \in covering : e.mask <= found.mask

Covering(table, dst) == {e \in ToSet(table) : Matches(e, dst)}

(* The promise, for every destination, once the configuration is read.     *)
LookupBest ==
  ~parsing =>
    \A dst \in 0 .. 2^ADDR_BITS - 1 : FoundBest(Covering(routes, dst), rt_lookup(routes, dst))

(* The promise as far as the code keeps it: whatever was learned in        *)
(* whatever order, a packet whose destination some entry with a mask       *)
(* covers follows a covering entry that none is more specific than, though *)
(* a full table has refused some networks.                                 *)
LookupSpecific ==
  \A dst \in 0 .. 2^ADDR_BITS - 1 :
    LET specific == {e \in Covering(routes, dst) : e.mask > 0}
    IN  specific # {} => FoundBest(specific, rt_lookup(routes, dst))

(* What a table says of a network, an unknown one being unreachable.       *)
Says(table, p) ==
  LET es == {e \in ToSet(table) : e.dest_net = p[1] /\ e.mask = p[2]}
      e == CHOOSE e \in es : TRUE
  IN  IF es = {} THEN [cost |-> INF_COST, next_hop |-> NextHopNone]
      ELSE [cost |-> e.cost, next_hop |-> e.next_hop]

(* The array is the function RouterDV takes it for: an offer changes what  *)
(* the table says of its network as Relax says and of no other, and is     *)
(* lost only when MAX_DEST other networks have been heard of.              *)
TableIsFunction ==
  [][\A b \in Neighbors, p \in Networks, cost \in 0 .. INF_COST :
       Offer(b, p[1], p[2], cost) =>
         /\ \A q \in Networks \ {p} : Says(routes', q) = Says(routes, q)
         /\ \/ Says(routes', p) = Relax(Says(routes, p), b, cost, NbCost[b])
            \/ /\ Says(routes', p) = Says(routes, p)
               /\ Len(routes) = MAX_DEST /\ Find(routes, p[1], p[2]) = 0]_table_vars
=============================================================================
