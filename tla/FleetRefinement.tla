-------------------------- MODULE FleetRefinement --------------------------
(* BotLifecycle seen as a Fleet: the lifecycle columns of the rows are the *)
(* book, and a symbol is watched when both of its jobs are scheduled.      *)
EXTENDS BotLifecycle

Entry(o, row) ==
    [oid |-> o, sym |-> row.sym, open |-> row.status \in OpenStatuses, ext |-> row.ext]

Book == {Entry(o, rows[o]) : o \in {p \in Oids : Stored(p)}}

WatchedSymbols == {s \in Symbols : Monitored(s)}

F == INSTANCE Fleet WITH book <- Book, watched <- WatchedSymbols

\* The commands, launches and jobs, with every await at which they interleave
\* and every failure they swallow, implement the Fleet: each of their steps
\* enters a bot, places or cancels an order or starts or ends a watch, as the
\* Fleet may, or changes nothing the Fleet sees.
ImplementsFleet == F!Spec

===========================================================================
