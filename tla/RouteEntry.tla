----------------------------- MODULE RouteEntry -----------------------------
(***************************************************************************)
(* What dv_update (hw3/starter/router.c) does to one routing table entry   *)
(* when a neighbour offers a cost for its destination.                     *)
(***************************************************************************)
EXTENDS Integers

CONSTANT INF_COST

(* Faulty: the cost of the link is not added. *)
RelaxFree(entry, b, cost, link) ==
  IF cost < entry.cost THEN [cost |-> cost, next_hop |-> b] ELSE entry

(* Faulty: an update from the current next hop only counts if it is better. *)
RelaxBetterOnly(entry, b, cost, link) ==
  IF cost < INF_COST /\ link + cost < entry.cost
    THEN [cost |-> link + cost, next_hop |-> b]
    ELSE entry

(* dv_update for one entry: b offers cost over a link. *)
Relax(entry, b, cost, link) ==
  LET new == IF link + cost > INF_COST THEN INF_COST ELSE link + cost
  IN  IF cost >= INF_COST
        THEN IF entry.next_hop = b THEN [entry EXCEPT !.cost = INF_COST] ELSE entry
        ELSE IF new < entry.cost \/ (entry.next_hop = b /\ new # entry.cost)
               THEN [cost |-> new, next_hop |-> b]
               ELSE entry
=============================================================================
