--------------------------- MODULE MCChatForward ---------------------------
(***************************************************************************)
(* The chat server of hw2 and the data plane of hw3, which share nothing,  *)
(* in one run: a behaviour is one of ChatServer and RouterForward, and the *)
(* variables of the other stay as they are.                                *)
(***************************************************************************)
EXTENDS ChatServer, MCRouterForward, TLC

VARIABLE part

(* Workers differ in nothing but their name, and so do cells of memory.    *)
Symmetry == Permutations(Workers) \cup Permutations(Cells)

both_vars == <<part, vars, allvars>>

BothInit == part \in {"hw2", "hw3"} /\ Init /\ ForwardInit

HW2 == part = "hw2" /\ Next /\ UNCHANGED <<part, allvars>>
HW3 == part = "hw3" /\ ForwardNext /\ UNCHANGED <<part, vars>>

BothSpec == BothInit /\ [][HW2 \/ HW3]_both_vars
=============================================================================
