------------------------------- MODULE Fleet -------------------------------
(***************************************************************************)
(* What the bot lifecycle amounts to, without handlers, awaits, retries,   *)
(* swallowed failures or interleavings: a book of bots, the orders of the  *)
(* exchange and the symbols under watch.                                   *)
(*                                                                         *)
(* The book only grows: no command changes an entry, and the bots it adds  *)
(* name no order.  Orders are placed apart from the book, so the only ones *)
(* ever cancelled are those an open entry of an earlier release names.     *)
(***************************************************************************)
EXTENDS Naturals

CONSTANTS Symbols, Oids, Orders, None

VARIABLES
    up,       \* the process is running
    book,     \* the bots, each under its primary key
    orders,   \* the exchange's view of each order
    watched   \* the symbols the scheduler checks

vars == <<up, book, orders, watched>>

Entry == [oid : Oids, sym : Symbols, open : BOOLEAN, ext : Orders \cup {None}]

OpenBots == {e \in book : e.open}
HasOpen(s) == \E e \in OpenBots : e.sym = s

Init ==
    /\ up = FALSE
    /\ book \subseteq Entry
    /\ \A e, f \in book : e.oid = f.oid => e = f
    /\ \A e, f \in OpenBots : e.sym = f.sym => e = f
    /\ orders \in [Orders -> {"absent", "live", "finished", "cancelled"}]
    /\ watched = {}

\* A manual launch enters the bot of a symbol that has none.
Enter(s) ==
    /\ up /\ ~HasOpen(s)
    /\ \E o \in Oids :
          /\ \A e \in book : e.oid # o
          /\ book' = book \cup {[oid |-> o, sym |-> s, open |-> TRUE, ext |-> None]}
    /\ UNCHANGED <<up, orders, watched>>

\* An auto launch places an order.
Place(x) ==
    /\ up /\ orders[x] = "absent"
    /\ orders' = [orders EXCEPT ![x] = "live"]
    /\ UNCHANGED <<up, book, watched>>

\* A close cancels the order of an open bot, and of no other.
Cancel(x) ==
    /\ up /\ orders[x] = "live"
    /\ \E e \in OpenBots : e.ext = x
    /\ orders' = [orders EXCEPT ![x] = "cancelled"]
    /\ UNCHANGED <<up, book, watched>>

Finish(x) ==
    /\ orders[x] = "live"
    /\ orders' = [orders EXCEPT ![x] = "finished"]
    /\ UNCHANGED <<up, book, watched>>

\* Every launch starts the watch of its symbol, stored or not.
Watch(s) ==
    /\ up
    /\ watched' = watched \cup {s}
    /\ UNCHANGED <<up, book, orders>>

\* A close ends the watch of a symbol, whose bot is then still in the book.
Unwatch(s) ==
    /\ up /\ HasOpen(s)
    /\ watched' = watched \ {s}
    /\ UNCHANGED <<up, book, orders>>

Crash ==
    /\ up /\ up' = FALSE
    /\ watched' = {}
    /\ UNCHANGED <<book, orders>>

\* The start watches the symbols of the open bots, those and no others.
Start ==
    /\ ~up /\ up' = TRUE
    /\ watched' = {e.sym : e \in OpenBots}
    /\ UNCHANGED <<book, orders>>

Next ==
    \/ \E s \in Symbols : Enter(s) \/ Watch(s) \/ Unwatch(s)
    \/ \E x \in Orders : Place(x) \/ Cancel(x) \/ Finish(x)
    \/ Crash \/ Start

Spec == Init /\ [][Next]_vars

===========================================================================
