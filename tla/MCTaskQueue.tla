---------------------------- MODULE MCTaskQueue ----------------------------
(* Instance of the task list for TLC.  Two workers, as main starts; three  *)
(* addresses for four packets, so that freed tasks are reused and malloc   *)
(* runs out.                                                               *)
EXTENDS TaskQueue

=============================================================================
