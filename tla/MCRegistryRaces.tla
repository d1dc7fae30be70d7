-------------------------- MODULE MCRegistryRaces --------------------------
(* Instance for TLC: main, the heartbeat thread and one more thread, with  *)
(* four connections: the list then has nodes that are no neighbours, and   *)
(* main can append behind them.  Two threads delete, one appends, and each *)
(* of the two may walk instead.                                            *)
EXTENDS RegistryRaces

=============================================================================
