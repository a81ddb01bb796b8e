---------------------------- MODULE MCPipeSched ----------------------------
(* A reader in the slot before its writer's: the parent reads, the child     *)
(* writes, as in the pipe1 test of usertests.c.                              *)
EXTENDS PipeSched, TLC

CONSTANTS w, r
MCSlot == (r :> 1) @@ (w :> 2)
============================================================================
