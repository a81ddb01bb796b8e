------------------------------ MODULE MCSched ------------------------------
(* Small machines for Sched. *)
EXTENDS Sched

\* Arguments for setquota(): one that it rejects, a lower and a higher quota.
SomeQuotas == {-1, 1, 2}

\* All but the history.  No guard and no other variable depends on the history, so
\* two states that differ in it only have the same futures.
NoHistory == <<procvars, clock, cpuvars>>
============================================================================
