----------------------------- MODULE MCRouterDV -----------------------------
(***************************************************************************)
(* The network of hw3/starter/configs: three routers in a triangle, with   *)
(* costs 1 (r1-r2), 1 (r2-r3) and 3 (r1-r3).  dv_update treats each        *)
(* destination on its own, so one network, the one behind r3, is enough.   *)
(***************************************************************************)
EXTENDS RouterDV

TriangleCost ==
  << <<0, 1, 3>>,
     <<1, 0, 1>>,
     <<3, 1, 0>> >>

TriangleConfig ==
  [r \in 1 .. 3 |-> [n \in {30} |->
     [cost |-> IF r = 3 THEN 0 ELSE INF_COST, next_hop |-> 0]]]

TriangleDist == << [n \in {30} |-> 2], [n \in {30} |-> 1], [n \in {30} |-> 0] >>

TriangleLinks == {{1, 2}, {2, 3}, {1, 3}}

(* A ring of three routers with a fourth behind r3: when r4 goes, stale    *)
(* routes to its network can travel round the ring.                        *)
RingCost ==
  << <<0, 1, 1, 0>>,
     <<1, 0, 1, 0>>,
     <<1, 1, 0, 1>>,
     <<0, 0, 1, 0>> >>

RingConfig ==
  [r \in 1 .. 4 |-> [n \in {40} |->
     [cost |-> IF r = 4 THEN 0 ELSE INF_COST, next_hop |-> 0]]]

RingDist ==
  << [n \in {40} |-> 2], [n \in {40} |-> 2], [n \in {40} |-> 1],
     [n \in {40} |-> 0] >>

(* The link that only r4 is behind. *)
RingTail == {{3, 4}}
=============================================================================
