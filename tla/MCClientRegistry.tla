-------------------------- MODULE MCClientRegistry --------------------------
(* Instance of the client list for TLC: three sockets, so that a list has  *)
(* a first, a middle and a last node, three nodes, so that malloc fails    *)
(* and freed addresses come back, and one client address per socket.       *)
EXTENDS ClientRegistry, TLC

(* Addresses are interchangeable: the code never orders or compares them   *)
(* except for equality.                                                    *)
Symmetry == Permutations(Nodes) \cup Permutations(Clients)

=============================================================================
