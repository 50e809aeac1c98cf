----------------------------- MODULE MCRateLimit -----------------------------
(* Two threads of one process; a process that has crashed is started again. *)
EXTENDS RateLimit

CONSTANTS p1, t1, t2

MCProcessOf == [t \in Thread |-> p1]
=============================================================================
