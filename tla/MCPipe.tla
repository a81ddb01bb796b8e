------------------------------ MODULE MCPipe ------------------------------
(* One writer and one reader process, or several, for Pipe. *)
EXTENDS Pipe
===========================================================================
