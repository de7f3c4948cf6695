--------------------------- MODULE RouterForward ---------------------------
(***************************************************************************)
(* The data plane on top of RouterDV: one data packet, injected by sendpkt *)
(* at some router, is handled by forward_data (hw3/starter/router.c) while *)
(* the routing tables change underneath it.  Packets do not influence one  *)
(* another or the tables, so one is enough.                                *)
(*                                                                         *)
(* A destination is an address in one of the networks, or the address of a *)
(* router itself, which no route covers.                                   *)
(***************************************************************************)
EXTENDS RouterDV

CONSTANTS
  Targets,   \* what packets are addressed to: networks and routers
  MaxTTL,
  NoPacket

ASSUME ForwardAssumption == MaxTTL \in Nat /\ Targets \subseteq Net \cup Router

VARIABLE
  packet   \* the packet and the router whose data socket holds it

allvars == <<dv_vars, packet>>

DataPacket == [at : Router, dst : Targets, ttl : 0 .. MaxTTL]

(* A static route is given the cost 1 whatever lies behind its next hop:   *)
(* it is taken to name a neighbour and to be no cheaper than the way it    *)
(* stands for.                                                             *)
ASSUME TargetAssumption ==
  /\ NoPacket \notin DataPacket /\ Net \cap Router = {}
  /\ \A r \in Router, n \in Net : LET e == Config[r][n] IN
       \/ e.cost = INF_COST
       \/ e = [cost |-> 0, next_hop |-> Direct]
       \/ e.next_hop \in Neighbor(r) /\ e.cost >= LinkCost[r][e.next_hop] + Dist[e.next_hop][n]

ForwardTypeOK == packet \in DataPacket \cup {NoPacket}

ForwardInit == DVInit /\ packet = NoPacket

-----------------------------------------------------------------------------
(* sendpkt: a new packet arrives at the data port of r. *)
Inject(r, dst, ttl) ==
  /\ packet = NoPacket /\ up[r]
  /\ packet' = [at |-> r, dst |-> dst, ttl |-> ttl]
  /\ UNCHANGED dv_vars

(* forward_data at the router that holds the packet *)
Holds(r) == packet # NoPacket /\ packet.at = r /\ up[r]

(* The longest match for the destination, an unknown one being unreachable. *)
Match(r) ==
  IF packet.dst \in Net THEN route[r][packet.dst] ELSE [cost |-> INF_COST, next_hop |-> Direct]

Connected(r) == Match(r).cost = 0 /\ Match(r).next_hop = Direct

(* The packet goes no further; a line of the log says why. *)
PacketEnds == packet' = NoPacket /\ UNCHANGED dv_vars

DeliverConnected(r) == Holds(r) /\ Connected(r) /\ PacketEnds

DeliverSelf(r) == Holds(r) /\ ~Connected(r) /\ packet.dst = r /\ PacketEnds

InTransit(r) == Holds(r) /\ ~Connected(r) /\ packet.dst # r

(* Faulty: a packet with one hop left is dropped. *)
DropTTLEarly(r) == InTransit(r) /\ packet.ttl <= 1 /\ PacketEnds

DropTTL(r) == InTransit(r) /\ packet.ttl = 0 /\ PacketEnds

NoMatch(r) ==
  /\ InTransit(r) /\ packet.ttl > 0
  /\ Match(r).cost = INF_COST \/ Match(r).next_hop \notin Neighbor(r)
  /\ PacketEnds

Usable(r) ==
  InTransit(r) /\ packet.ttl > 0 /\ Match(r).cost < INF_COST /\ Match(r).next_hop \in Neighbor(r)

(* A dead next hop is reported, and the packet dropped; otherwise sendto   *)
(* the next hop, where the datagram is lost if the link or the neighbour   *)
(* is down.                                                                *)
SendOn(r) ==
  LET b == Match(r).next_hop
  IN  /\ Usable(r)
      /\ packet' = IF alive[r][b] /\ up[b] /\ {r, b} \notin cut
                     THEN [at |-> b, dst |-> packet.dst, ttl |-> packet.ttl - 1]
                     ELSE NoPacket
      /\ UNCHANGED dv_vars

Handle(r) == DeliverConnected(r) \/ DeliverSelf(r) \/ DropTTL(r) \/ NoMatch(r) \/ SendOn(r)

(* The control plane moves on. *)
Control(r) == (RouterNext(r) \/ Restart(r)) /\ UNCHANGED packet

(* A crash takes the waiting packet with it. *)
CrashHolding(r) ==
  /\ Crash(r)
  /\ packet' = IF packet # NoPacket /\ packet.at = r THEN NoPacket ELSE packet

ForwardNext ==
  \/ \E r \in Router, dst \in Targets, ttl \in 0 .. MaxTTL : Inject(r, dst, ttl)
  \/ \E r \in Router : Handle(r) \/ Control(r) \/ CrashHolding(r)
  \/ \E a, b \in Router : (LinkFails(a, b) \/ LinkHeals(a, b)) /\ UNCHANGED packet

ForwardSpec == ForwardInit /\ [][ForwardNext]_allvars

-----------------------------------------------------------------------------
(* In converged tables, while nothing is down, every hop takes a packet    *)
(* strictly nearer to its network: it is delivered before its time to live *)
(* ends if that allows as many hops as there are other routers.            *)
Healthy == Converged /\ cut = {} /\ \A r \in Router : up[r]
ConvergedNearer ==
  [][\A r \in Router :
       /\ Healthy /\ Handle(r)
       /\ packet.dst \in Net /\ packet.ttl > 0 /\ Dist[r][packet.dst] < INF_COST
       => \/ DeliverConnected(r)
          \/ /\ packet' # NoPacket
             /\ Dist[packet'.at][packet'.dst] < Dist[r][packet'.dst]]_allvars
=============================================================================
