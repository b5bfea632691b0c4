--------------------------- MODULE MCBoundedQueue ---------------------------
EXTENDS BoundedQueue

CONSTANTS p1, p2, c1, c2, work, own

(* The tokens of a search: producers, and the thread that publishes, pass  *)
(* the token of the search's stop source; a worker of the pool passes the  *)
(* token of its own jthread.                                               *)
SearchTokens == [t \in Threads |-> IF t = c1 THEN own ELSE work]
=============================================================================
