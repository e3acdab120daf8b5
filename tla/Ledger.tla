------------------------------- MODULE Ledger -------------------------------
(***************************************************************************)
(* What the reader of the decision log is promised of the assessments,     *)
(* without runs, gates, awaits and restarts: of each symbol at most one    *)
(* snapshot a day is entered, each can be spent on one verdict, and a      *)
(* LAUNCH spends one.  Verdicts may follow each other in any order; one    *)
(* that judged a snapshot its commit lost is blind, whatever it says.      *)
(***************************************************************************)
EXTENDS Naturals

CONSTANTS
    Listed,   \* the symbols that are assessed
    LastDay,  \* bound of the days
    Lossy,    \* commits may get lost
    None

VARIABLES
    day,      \* today
    stored,   \* by symbol, the days whose snapshot was entered
    spent,    \* by symbol, the days whose snapshot a verdict judged
    newest    \* by symbol, what the newest verdict says

vars == <<day, stored, spent, newest>>

Says == {"launch", "hold", "review"}

Init ==
    /\ day = 0
    /\ stored = [s \in Listed |-> {}]
    /\ spent = [s \in Listed |-> {}]
    /\ newest = [s \in Listed |-> None]

NewDay ==
    /\ day < LastDay
    /\ day' = day + 1
    /\ UNCHANGED <<stored, spent, newest>>

Enter(s) ==
    /\ day \notin stored[s]
    /\ stored' = [stored EXCEPT ![s] = @ \cup {day}]
    /\ UNCHANGED <<day, spent, newest>>

\* A verdict that spends a snapshot of its own.
Judge(s) ==
    \E d \in stored[s] \ spent[s], a \in Says :
        /\ spent' = [spent EXCEPT ![s] = @ \cup {d}]
        /\ newest' = [newest EXCEPT ![s] = a]
        /\ UNCHANGED <<day, stored>>

\* A verdict without one.
Decide(s) ==
    \E a \in (Says \ {"launch"}) \cup (IF Lossy THEN {"blind"} ELSE {}) :
        /\ newest' = [newest EXCEPT ![s] = a]
        /\ UNCHANGED <<day, stored, spent>>

Next == NewDay \/ \E s \in Listed : Enter(s) \/ Judge(s) \/ Decide(s)

Spec == Init /\ [][Next]_vars

=============================================================================
