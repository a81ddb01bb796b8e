---------------------------- MODULE ByteStream ----------------------------
(***************************************************************************)
(* What a pipe promises its users: a bounded first-in first-out stream of  *)
(* bytes with two ends.  Nothing is lost, duplicated or reordered, and at  *)
(* most Capacity bytes are in flight.  Pipe is shown to implement it.      *)
(***************************************************************************)
EXTENDS Naturals, Sequences

CONSTANTS Byte,       \* the values a byte can take
          Capacity    \* PIPESIZE

VARIABLES queue,      \* bytes written and not yet read, oldest first
          delivered,  \* the byte most recently handed to a reader
          readopen,   \* is the read end open
          writeopen   \* is the write end open

svars == <<queue, delivered, readopen, writeopen>>

StreamInit ==
  /\ queue = <<>>
  /\ delivered \in Byte
  /\ readopen = 1
  /\ writeopen = 1

\* A byte enters at the tail.  Only a holder of the write end can do this; the
\* read end may already be closed, in which case nobody will ever see it.
Put ==
  /\ writeopen = 1
  /\ Len(queue) < Capacity
  /\ \E b \in Byte : queue' = Append(queue, b)
  /\ UNCHANGED <<delivered, readopen, writeopen>>

\* The oldest byte leaves and is the one the reader gets.
Get ==
  /\ readopen = 1
  /\ queue # <<>>
  /\ delivered' = Head(queue)
  /\ queue' = Tail(queue)
  /\ UNCHANGED <<readopen, writeopen>>

CloseRead ==
  /\ readopen = 1
  /\ readopen' = 0
  /\ UNCHANGED <<queue, delivered, writeopen>>

CloseWrite ==
  /\ writeopen = 1
  /\ writeopen' = 0
  /\ UNCHANGED <<queue, delivered, readopen>>

StreamNext == Put \/ Get \/ CloseRead \/ CloseWrite

StreamSpec == StreamInit /\ [][StreamNext]_svars
===========================================================================
