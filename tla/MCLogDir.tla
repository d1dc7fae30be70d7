------------------------------ MODULE MCLogDir ------------------------------
(* Instances of the log directories for TLC: years of two months, so that  *)
(* three months cross a year; two threads log, and one more asks for the   *)
(* time.                                                                   *)
EXTENDS LogDir, TLC

(* The threads run the same code.                                          *)
Symmetry == Permutations(Threads)

=============================================================================
