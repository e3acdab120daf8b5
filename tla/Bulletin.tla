------------------------------ MODULE Bulletin ------------------------------
(***************************************************************************)
(* What the owner of a monitored bot is promised of its status, without    *)
(* checks, timers, debouncing, alert types and snapshots: the row takes    *)
(* another status only right after it was announced in the chat.  An       *)
(* announcement may get lost, and one that is never stored (a failing      *)
(* UPDATE, the end of the process) has to be made again before the row     *)
(* takes any status.                                                       *)
(***************************************************************************)
CONSTANTS
    Statuses,   \* of a bot
    First,      \* the status of a new bot
    None

VARIABLES
    row,     \* the status the table shows
    chat,    \* the status the chat was told last
    news     \* the announcement that is about to be stored, or None

vars == <<row, chat, news>>

Init ==
    /\ row = First
    /\ chat = First
    /\ news = None

\* Another status is announced; the chat hears of it, or not.
Announce(s, heard) ==
    /\ news = None
    /\ s # row
    /\ news' = [status |-> s, heard |-> heard]
    /\ chat' = IF heard THEN s ELSE chat
    /\ UNCHANGED row

\* The status of the row is told again: the chat may have missed it.
Remind ==
    /\ news = None
    /\ chat' = row
    /\ UNCHANGED <<row, news>>

Store ==
    /\ news # None
    /\ row' = news.status
    /\ news' = None
    /\ UNCHANGED chat

Drop ==
    /\ news # None
    /\ news' = None
    /\ UNCHANGED <<row, chat>>

Next ==
    \/ \E s \in Statuses, heard \in BOOLEAN : Announce(s, heard)
    \/ Remind \/ Store \/ Drop

Spec == Init /\ [][Next]_vars

=============================================================================
