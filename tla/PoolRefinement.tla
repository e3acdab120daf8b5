-------------------------- MODULE PoolRefinement --------------------------
(* ApiClient seen as a Pool: a call is inside while it holds a permit,     *)
(* which a waiter that was handed one does before it is resumed.           *)
EXTENDS ApiClient

P == INSTANCE Pool WITH inside <- Holders, line <- waiters

\* The calls to Pionex, with all their attempts, back-offs, cache hits and
\* errors, use the slots as the Pool says: no call overtakes one that waits,
\* no back-off keeps a place, no answer or exception leaves one unused.
ImplementsPool == P!Spec

===========================================================================
