----------------------------- MODULE MCAdvisor -----------------------------
(* A small instance of the advisor's assessments. *)
EXTENDS LedgerRefinement, TLC

CONSTANTS t1, t2

OneSymbol == <<"BTC">>

===========================================================================
