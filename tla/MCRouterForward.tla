-------------------------- MODULE MCRouterForward --------------------------
(* RouterForward on the triangle of hw3/starter/configs (see MCRouterDV).  *)
EXTENDS RouterForward

TriangleCost ==
  << <<0, 1, 3>>,
     <<1, 0, 1>>,
     <<3, 1, 0>> >>

TriangleConfig ==
  [r \in 1 .. 3 |-> [n \in {30} |->
     [cost |-> IF r = 3 THEN 0 ELSE INF_COST, next_hop |-> 0]]]

TriangleDist == << [n \in {30} |-> 2], [n \in {30} |-> 1], [n \in {30} |-> 0] >>

(* The link that the least costs of r1 and of r2 go over.                  *)
BestLink == {{2, 3}}
=============================================================================
