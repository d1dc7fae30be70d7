---------------------------- MODULE MCChatServer ----------------------------
(* Instances of the server for TLC: two workers, as main starts.           *)
EXTENDS ChatServer, TLC

(* Workers run the same code, and socket numbers are only compared.        *)
Symmetry == Permutations(Workers) \cup Permutations(Fds)

=============================================================================
