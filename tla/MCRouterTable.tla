--------------------------- MODULE MCRouterTable ---------------------------
(* RouterTable with two neighbours and networks of two-bit addresses.      *)
EXTENDS RouterTable

CONSTANTS near, far  \* the neighbours, at costs 1 and 2

(* The default route, one of two addresses, the same with a bit behind the *)
(* mask set, and a single address.                                         *)
NestedNetworks == {<<0, 0>>, <<0, 1>>, <<1, 1>>, <<0, 2>>}
NearAndFar == [b \in Neighbors |-> IF b = near THEN 1 ELSE 2]
=============================================================================
