------------------------------- MODULE Pool -------------------------------
(***************************************************************************)
(* What callers of the Pionex adapters are promised of the request slots,  *)
(* without attempts, caches, clocks and answers: a place is either taken   *)
(* at once or waited for in a line, and the line is served in its order.   *)
(* A place is free only while nobody waits.                                *)
(***************************************************************************)
EXTENDS Naturals, Sequences, FiniteSets

CONSTANTS Calls, Capacity

VARIABLES
    inside,   \* the calls that have a place
    line      \* the calls that wait for one, in the order they came

vars == <<inside, line>>

Waits(c) == \E i \in 1..Len(line) : line[i] = c
Full == Cardinality(inside) = Capacity

Init == inside = {} /\ line = <<>>

\* A call finds a place.
Enter(c) ==
    /\ c \notin inside /\ line = <<>> /\ ~Full
    /\ inside' = inside \cup {c}
    /\ UNCHANGED line

\* It finds none.
LineUp(c) ==
    /\ c \notin inside /\ ~Waits(c) /\ Full
    /\ line' = Append(line, c)
    /\ UNCHANGED inside

\* A call leaves, and nobody waits.
Leave(c) ==
    /\ c \in inside /\ line = <<>>
    /\ inside' = inside \ {c}
    /\ UNCHANGED line

\* A call leaves, and the first of the line takes its place.
HandOver(c) ==
    /\ c \in inside /\ line # <<>>
    /\ inside' = (inside \ {c}) \cup {Head(line)}
    /\ line' = Tail(line)

Next == \E c \in Calls : Enter(c) \/ LineUp(c) \/ Leave(c) \/ HandOver(c)

Spec == Init /\ [][Next]_vars

===========================================================================
