---------------------------- MODULE MCOfflineMail ----------------------------
(* Instances of the offline messages for TLC.  Two sessions, which may log *)
(* in again under another uid; uids 1 and 11 share a table, while 0 (not   *)
(* logged in) and 2 have one of their own; two messages, so that one can   *)
(* arrive while the other is being drained.                                *)
EXTENDS OfflineMail, TLC

(* The workers run the same code.                                          *)
Symmetry == Permutations(Workers)

=============================================================================
