-------------------------- MODULE LedgerRefinement --------------------------
(* Advisor seen as a Ledger: the days of the stored snapshots, those whose *)
(* snapshot was judged, and what the newest row of decision_logs says.     *)
EXTENDS Advisor

DaysStored == [s \in Watched |-> {x.at.day : x \in snaps[s]}]
DaysSpent == [s \in Watched |-> {d \in Days : judged[s][d] > 0}]

Said(v) ==
    IF v = None THEN None
    ELSE IF v.g2 # None /\ v.g2.from = Lost THEN "blind" ELSE v.action

L == INSTANCE Ledger WITH
        Listed <- Watched, Lossy <- Failures, day <- now.day,
        stored <- DaysStored, spent <- DaysSpent,
        newest <- [s \in Watched |-> Said(last[s])]

\* The runs of the daily check, the weekly assessment and /reconfigure, with
\* every await at which they interleave, every failing block and every
\* restart, implement the Ledger: a LAUNCH in the log always spent a snapshot
\* that no other verdict has judged or will judge.
ImplementsLedger == L!Spec

=============================================================================
