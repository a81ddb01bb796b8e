---------------------------- MODULE MCProcTable ----------------------------
(* ProcTable for TLC: the process that init starts, its children, and slots  *)
(* that are used again.                                                      *)
EXTENDS ProcTable
============================================================================
