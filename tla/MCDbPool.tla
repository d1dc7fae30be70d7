------------------------------ MODULE MCDbPool ------------------------------
(* Instance of the connection pool for TLC.  Three threads, so that two    *)
(* can be in the pool while a third is between its steps; two normal       *)
(* connections and a limit of three, so that the pool drains, overflows    *)
(* into an extra connection and refuses.                                   *)
EXTENDS DbPool

=============================================================================
