---------------------------- MODULE FleetProofs ----------------------------
(* BotLifecycle implements Fleet, for every set of symbols, rows, orders   *)
(* and tasks: the initial states map to initial states, and every step to  *)
(* a step of the Fleet or to a stutter.                                    *)
EXTENDS FleetRefinement, BotLifecycleProofs

---------------------------------------------------------------------------
(* The Fleet's reading of the table and of the scheduler *)

\* The fields of an entry.
LEMMA EntryFields ==
    ASSUME NEW o, NEW row
    PROVE  /\ Entry(o, row).oid = o
           /\ Entry(o, row).sym = row.sym
           /\ Entry(o, row).open <=> row.status \in OpenStatuses
           /\ Entry(o, row).ext = row.ext
BY DEF Entry

\* The open bots of the book are the open rows of the table.
LEMMA OpenBotsAreOpenRows ==
    F!OpenBots = {Entry(o, rows[o]) : o \in OpenRows(rows)}
<1>1. \A o \in Oids : Entry(o, rows[o]).open <=> rows[o].status \in OpenStatuses
  BY EntryFields
<1>2. \A e : e \in Book <=> \E o \in Oids : Stored(o) /\ e = Entry(o, rows[o])
  BY DEF Book
<1>3. \A e : e \in F!OpenBots <=> \E o \in OpenRows(rows) : e = Entry(o, rows[o])
  BY <1>1, <1>2 DEF F!OpenBots, OpenRows, Stored
<1>4. QED
  BY <1>3

\* A table whose lifecycle columns are the same gives the same book.
LEMMA SameRowsBook == ASSUME SameRows PROVE Book' = Book
<1>1. \A o \in Oids : Stored(o)' <=> Stored(o)
  BY DEF SameRows, Stored
<1>2. \A o \in Oids : Stored(o) => Entry(o, rows[o])' = Entry(o, rows[o])
  BY DEF SameRows, Entry
<1>3. QED
  BY <1>1, <1>2 DEF Book

\* A symbol is watched when its jobs are scheduled.
LEMMA SameJobsWatched == ASSUME UNCHANGED jobs PROVE WatchedSymbols' = WatchedSymbols
BY DEF WatchedSymbols, Monitored, JobsOf

---------------------------------------------------------------------------
(* The steps of a task *)

\* The INSERT of a launch enters a bot.
LEMMA InsertEnters ==
    ASSUME Half, up, NEW t \in Tasks, NEW o \in Oids, RowInserted(t, o)
    PROVE  F!Enter(tasks[t].sym)
<1> DEFINE s == tasks[t].sym
           b == NewBot(s, None)
<1>1. /\ rows' = [rows EXCEPT ![o] = b]
      /\ UNCHANGED <<up, jobs, orders>>
      /\ ~Stored(o)
      /\ Matching(s, OpenStatuses) = {}
      /\ b.sym = s /\ b.status = "running" /\ b.ext = None
  BY DEF RowInserted, InsertAllowed, NewBot, OpenStatuses
<1>2. ~F!HasOpen(s)
  BY <1>1, OpenBotsAreOpenRows DEF F!HasOpen, Matching, OpenRows, Entry, Stored
<1>3. \A e \in Book : e.oid # o
  BY <1>1 DEF Book, Entry
<1>4. Book' = Book \cup {[oid |-> o, sym |-> s, open |-> TRUE, ext |-> None]}
  <2>1. Stored(o)' /\ Entry(o, rows[o])' = [oid |-> o, sym |-> s, open |-> TRUE, ext |-> None]
    <3>1. rows'[o] = b /\ b \in Bot
      BY <1>1, NewBotType DEF Half, TypeOK, RowInserted
    <3>2. QED
      BY <1>1, <3>1, ConstantsOK DEF Stored, Entry, OpenStatuses
  <2>2. \A p \in Oids \ {o} : rows'[p] = rows[p]
    BY <1>1 DEF Half, TypeOK
  <2>3. \A p \in Oids \ {o} : /\ Stored(p)' <=> Stored(p)
                              /\ Entry(p, rows[p])' = Entry(p, rows[p])
    BY <2>2 DEF Stored, Entry
  <2>4. QED
    BY <1>1, <2>1, <2>3 DEF Book
<1>5. WatchedSymbols' = WatchedSymbols
  BY <1>1, SameJobsWatched
<1>6. QED
  BY <1>1, <1>2, <1>3, <1>4, <1>5 DEF F!Enter

\* on_launch starts a watch.
LEMMA ScheduleWatches ==
    ASSUME Half, up, NEW t \in Tasks, ScheduleMonitoring(t) PROVE F!Watch(tasks[t].sym)
<1>1. /\ jobs' = jobs \cup JobsOf(tasks[t].sym)
      /\ UNCHANGED <<up, rows, orders>>
      /\ tasks[t].sym \in Symbols
  BY DEF ScheduleMonitoring, Half, TaskOK
<1>2. WatchedSymbols' = WatchedSymbols \cup {tasks[t].sym}
  BY <1>1 DEF WatchedSymbols, Monitored, JobsOf
<1>3. QED
  BY <1>1, <1>2, UnchangedRows, SameRowsBook DEF F!Watch

\* on_close ends the watch of a symbol whose bot is still open: its row was
\* read open, and rows never change.
LEMMA UnscheduleUnwatches ==
    ASSUME Half, up, NEW t \in Tasks, UnscheduleMonitoring(t)
    PROVE  F!Unwatch(tasks[t].sym)
<1> DEFINE s == tasks[t].sym
           o == tasks[t].oid
<1>1. /\ jobs' = jobs \ JobsOf(s)
      /\ UNCHANGED <<up, rows, orders>>
      /\ tasks[t].pc = "onclose"
      /\ s \in Symbols
  BY DEF UnscheduleMonitoring, Half, TaskOK
<1>2. o \in OpenRows(rows) /\ rows[o].sym = s
  BY <1>1 DEF Half, TaskOK, Holding, OpenRows, Stored, Lifecycle
<1>3. F!HasOpen(s)
  BY <1>2, OpenBotsAreOpenRows, EntryFields DEF F!HasOpen
<1>4. WatchedSymbols' = WatchedSymbols \ {s}
  <2>1. \A r \in Symbols : Monitored(r)' <=> Monitored(r) /\ r # s
    <3>1. <<"hc", s>> \in JobsOf(s)
      BY DEF JobsOf, JobKinds
    <3>2. \A r \in Symbols : r # s => JobsOf(r) \cap JobsOf(s) = {}
      BY DEF JobsOf
    <3>3. QED
      BY <1>1, <3>1, <3>2 DEF Monitored
  <2>2. QED
    BY <2>1 DEF WatchedSymbols
<1>5. QED
  BY <1>1, <1>3, <1>4, UnchangedRows, SameRowsBook DEF F!Unwatch

\* Every other step leaves the book, places an order, or cancels one that an
\* open bot names.
LEMMA StepOnOrders ==
    ASSUME Half, up, NEW t \in Tasks, Step(t), SameRows, UNCHANGED <<up, jobs>>
    PROVE  UNCHANGED F!vars \/ \E x \in Orders : F!Place(x) \/ F!Cancel(x)
<1>1. Book' = Book /\ WatchedSymbols' = WatchedSymbols
  BY SameRowsBook, SameJobsWatched
<1>2. CASE UNCHANGED orders
  BY <1>1, <1>2 DEF F!vars
<1>3. ASSUME NEW x \in Orders, OrderCreated(x) PROVE F!Place(x)
  BY <1>1, <1>3 DEF OrderCreated, F!Place
<1>4. CASE OrderCancelled
  <2>1. PICK x \in Orders : /\ \E o \in OpenRows(rows) : rows[o].ext = x
                            /\ orders' = [orders EXCEPT ![x] = "cancelled"]
                            /\ orders[x] = "live"
    BY <1>4 DEF OrderCancelled
  <2>2. \E e \in F!OpenBots : e.ext = x
    BY <2>1, OpenBotsAreOpenRows, EntryFields
  <2>3. QED
    BY <1>1, <2>1, <2>2 DEF F!Cancel
<1>5. QED
  BY <1>2, <1>3, <1>4, StepOrders

\* All steps of a task.
LEMMA StepImplements ==
    ASSUME IInv, NEW t \in Tasks, Step(t) PROVE [F!Next]_F!vars
<1>1. Half /\ StepOK(t)
  BY EveryStepOK DEF IInv, Half
<1>2. (up /\ up' = up /\ tasks[t].sym \in Symbols) \/ tasks[t].pc = "idle"
  BY <1>1 DEF StepOK, Half, TaskOK
<1>3. CASE ScheduleMonitoring(t)
  BY <1>1, <1>3, ScheduleWatches DEF F!Next, StepOK, ScheduleMonitoring, Half, TaskOK
<1>4. CASE UnscheduleMonitoring(t)
  BY <1>1, <1>4, UnscheduleUnwatches DEF F!Next, StepOK, UnscheduleMonitoring, Half, TaskOK
<1>5. ASSUME NEW o \in Oids, RowInserted(t, o) PROVE F!Next
  BY <1>1, <1>5, InsertEnters DEF F!Next, StepOK, RowInserted
<1>6. CASE SameRows /\ UNCHANGED jobs
  BY <1>1, <1>6, StepOnOrders DEF F!Next, StepOK
<1>7. QED
  BY <1>1, <1>3, <1>4, <1>5, <1>6, StepRows, StepJobs

---------------------------------------------------------------------------
(* The theorem *)

\* The tables and orders left by an earlier run are a Fleet's.
LEMMA InitImplements == ASSUME Init PROVE F!Init
<1>1. /\ up = FALSE /\ jobs = {}
      /\ rows \in [Oids -> Bot \cup {None}]
      /\ OneOpenRow(rows)
      /\ orders \in [Orders -> {"absent", "live", "finished", "cancelled"}]
  BY DEF Init, OrderStates
<1>2. Book \subseteq F!Entry
  <2>1. ASSUME NEW o \in Oids, Stored(o) PROVE Entry(o, rows[o]) \in F!Entry
    BY <1>1, <2>1 DEF Entry, F!Entry, Stored, Bot
  <2>2. QED
    BY <2>1 DEF Book
<1>3. \A e, f \in Book : e.oid = f.oid => e = f
  BY DEF Book, Entry
<1>4. \A e, f \in F!OpenBots : e.sym = f.sym => e = f
  BY <1>1, OpenBotsAreOpenRows DEF OneOpenRow, Entry
<1>5. WatchedSymbols = {}
  BY <1>1 DEF WatchedSymbols, Monitored, JobsOf, JobKinds
<1>6. QED
  BY <1>1, <1>2, <1>3, <1>4, <1>5 DEF F!Init

\* A start watches the symbols of the open bots.
LEMMA StartImplements == ASSUME IInv, Start PROVE F!Start
<1>1. /\ ~up /\ up' = TRUE
      /\ jobs' = UNION {JobsOf(rows[o].sym) : o \in OpenRows(rows)}
      /\ UNCHANGED <<rows, orders>>
  BY DEF Start
<1>2. \A o \in OpenRows(rows) : rows[o].sym \in Symbols
  BY DEF IInv, TypeOK, OpenRows, Bot
<1>3. \A s \in Symbols : Monitored(s)' <=> \E o \in OpenRows(rows) : rows[o].sym = s
  <2> SUFFICES ASSUME NEW s \in Symbols
               PROVE  Monitored(s)' <=> \E o \in OpenRows(rows) : rows[o].sym = s
    OBVIOUS
  <2>1. <<"hc", s>> \in JobsOf(s)
    BY DEF JobsOf, JobKinds
  <2>2. \A r : <<"hc", s>> \in JobsOf(r) => r = s
    BY DEF JobsOf
  <2>3. QED
    BY <1>1, <2>1, <2>2 DEF Monitored
<1>4. WatchedSymbols' = {rows[o].sym : o \in OpenRows(rows)}
  BY <1>2, <1>3 DEF WatchedSymbols
<1>5. {e.sym : e \in F!OpenBots} = {rows[o].sym : o \in OpenRows(rows)}
  BY OpenBotsAreOpenRows, EntryFields
<1>6. QED
  BY <1>1, <1>4, <1>5, UnchangedRows, SameRowsBook DEF F!Start

\* Every step of the lifecycle is one of the Fleet's, or invisible to it.
LEMMA NextImplements == ASSUME IInv, [Next]_vars PROVE [F!Next]_F!vars
<1>1. CASE UNCHANGED <<up, rows, jobs, orders>>
  BY <1>1, UnchangedRows, SameRowsBook, SameJobsWatched DEF F!vars
<1>2. CASE \E t \in Tasks : Step(t)
  BY <1>2, StepImplements
<1>3. ASSUME NEW x \in Orders, OrderFinishes(x) PROVE F!Finish(x)
  BY <1>3, UnchangedRows, SameRowsBook, SameJobsWatched DEF OrderFinishes, F!Finish
<1>4. CASE Crash
  <2>1. WatchedSymbols' = {}
    BY <1>4 DEF Crash, WatchedSymbols, Monitored, JobsOf, JobKinds
  <2>2. QED
    BY <1>4, <2>1, UnchangedRows, SameRowsBook DEF Crash, F!Crash, F!Next
<1>5. CASE Start
  BY <1>5, StartImplements DEF F!Next
<1>6. QED
  BY <1>1, <1>2, <1>3, <1>4, <1>5 DEF Next, vars, StartHandler, StartJob, F!Next

\* The lifecycle implements the Fleet: whatever its handlers, jobs, retries,
\* failures, crashes and restarts do, an observer of the book, the orders and
\* the watched symbols sees a Fleet.
THEOREM Implementation == Spec => ImplementsFleet
<1>1. Init => F!Init
  BY InitImplements
<1>2. IInv /\ [Next]_vars => [F!Next]_F!vars
  BY NextImplements
<1>3. QED
  BY <1>1, <1>2, Inductive, PTL DEF Spec, ImplementsFleet, F!Spec

===========================================================================
