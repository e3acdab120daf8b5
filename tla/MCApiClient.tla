---------------------------- MODULE MCApiClient ----------------------------
(* Instances of ApiClient for TLC. *)
EXTENDS PoolRefinement, TLC

\* Interchangeable slots for calls.
CallSymmetry == Permutations(Calls)

===========================================================================
