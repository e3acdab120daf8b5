------------------------ MODULE BotLifecycleProofs ------------------------
(* What holds of BotLifecycle for every set of symbols, rows, orders and   *)
(* tasks, for both settings of AutoPauseOnRed and with or without the      *)
(* closed_at default.                                                      *)
EXTENDS BotLifecycle, TLAPS

---------------------------------------------------------------------------
(* The inductive invariant *)

\* Awaits at which a task holds a copy of a stored row.
Holding == {"cancel", "save", "onclose", "fetch", "update", "notify"}

\* Awaits a task can be at once the exchange confirmed a cancellation.
Confirmed == {"save", "onclose", "notify", "ok"}

\* The copy a task works on still has the lifecycle columns of its row: what
\* was read before an await is not stale after it.
TaskOK(k) ==
    /\ k.pc # "idle" => k.sym \in Symbols
    /\ k.pc \in Holding =>
          /\ k.oid \in Oids
          /\ k.bot \in Bot
          /\ k.bot.sym = k.sym
          /\ k.bot.status \in OpenStatuses
          /\ Stored(k.oid)
          /\ Lifecycle(k.bot) = Lifecycle(rows[k.oid])
          /\ ~(k.bot.paused /\ k.bot.status = "running")
    /\ k.pc = "cancel" => k.bot.ext # None
    /\ k.pc = "persist" => k.bot = NewBot(k.sym, None)
    /\ k.confirmed =>
          /\ k.pc \in Confirmed
          /\ k.bot \in Bot
          /\ k.bot.ext \in Orders
          /\ orders[k.bot.ext] \in {"finished", "cancelled"}

\* External ids name orders that exist.
ExtKnown ==
    \A o \in Oids : Stored(o) /\ rows[o].ext # None => orders[rows[o].ext] # "absent"

IInv ==
    /\ TypeOK
    /\ \A t \in Tasks : TaskOK(tasks[t])
    /\ ExtKnown
    /\ OneOpenPerSymbol
    /\ PausedFlagAgrees
    /\ OrphansUnreachable
    /\ MonitoringCoverage
    /\ LiveOrdersWatched

---------------------------------------------------------------------------
(* What every step of a task does to the stores *)

RowsKept ==
    \A o \in Oids : Stored(o) =>
        rows'[o] \in Bot /\ Lifecycle(rows'[o]) = Lifecycle(rows[o])

OrdersKept ==
    \A x \in Orders :
        /\ orders[x] # "absent" => orders'[x] # "absent"
        /\ orders[x] \in {"finished", "cancelled"} => orders'[x] = orders[x]

\* rows, orders, placed keep their types and what tasks rely on.
StoresOK ==
    /\ rows' \in [Oids -> Bot \cup {None}]
    /\ orders' \in [Orders -> OrderStates]
    /\ placed' \in SUBSET Orders
    /\ RowsKept
    /\ OrdersKept

\* A step that leaves the stores alone is harmless to every other task.
LEMMA StoresUnchanged ==
    ASSUME TypeOK, UNCHANGED <<rows, orders, placed>> PROVE StoresOK
BY ConstantsOK DEF TypeOK, StoresOK, RowsKept, OrdersKept, Stored, Lifecycle

\* So is one that at most creates an order on the exchange.
LEMMA PlacingKeepsStores ==
    ASSUME TypeOK, UNCHANGED rows,
           UNCHANGED <<orders, placed>> \/ \E x \in Orders : OrderCreated(x)
    PROVE  StoresOK
BY ConstantsOK DEF TypeOK, StoresOK, RowsKept, OrdersKept, Stored, Lifecycle,
                   OrderCreated, OrderStates

\* So is one that cancels an order.
LEMMA CancellingKeepsStores ==
    ASSUME TypeOK, UNCHANGED <<rows, placed>>, NEW x \in Orders, MayCancel(x)
    PROVE  StoresOK
BY ConstantsOK DEF TypeOK, StoresOK, RowsKept, OrdersKept, Stored, Lifecycle,
                   MayCancel, OrderStates

\* An INSERT never touches a stored row.
LEMMA AddKeepsStores ==
    ASSUME TypeOK, UNCHANGED <<orders, placed>>, NEW o \in Oids, NEW b,
           Add(o, b), b \in Bot \/ Stored(o)
    PROVE  StoresOK
BY ConstantsOK DEF TypeOK, StoresOK, RowsKept, OrdersKept, Stored, Lifecycle,
                   Add, InsertAllowed

\* What a task holds survives any such step of another task.
LEMMA TaskKept ==
    ASSUME NEW k \in Task, TaskOK(k), StoresOK PROVE TaskOK(k)'
BY ConstantsOK DEF TaskOK, StoresOK, RowsKept, OrdersKept, Stored, Lifecycle, Task, Bot,
                   Holding

\* Where a step may take its task.
StepOK(t) ==
    /\ StoresOK
    /\ up /\ up' = up
    /\ jobs' \in SUBSET (JobKinds \X Symbols)
    /\ unscheduled' \in SUBSET (Symbols \X BOOLEAN)
    /\ \E k \in Task : Become(t, k) /\ TaskOK(k)'

\* Going to an await that holds nothing new keeps a task's invariant.
LEMMA GotoOK ==
    ASSUME TypeOK, NEW t \in Tasks, TaskOK(tasks[t]), tasks[t].pc # "idle", StoresOK,
           NEW c \in Pcs, Goto(t, c),
           c \in Holding => tasks[t].pc \in Holding,
           tasks[t].confirmed => c \in Confirmed,
           c \notin {"cancel", "persist"}
    PROVE  \E k \in Task : Become(t, k) /\ TaskOK(k)'
<1>1. tasks[t] \in Task
  BY DEF TypeOK
<1>2. PICK k \in Task : k = [tasks[t] EXCEPT !.pc = c]
  BY <1>1 DEF Task
<1>3. TaskOK(k)
  BY <1>1, <1>2 DEF Task, TaskOK, Holding
<1>4. TaskOK(k)'
  BY <1>3, TaskKept
<1>5. QED
  BY <1>2, <1>4 DEF Goto

---------------------------------------------------------------------------
(* Each await, one lemma per group of actions *)

\* Steps that only move a task to its next await.
LEMMA QuietStepOK ==
    ASSUME TypeOK, NEW t \in Tasks, TaskOK(tasks[t]),
           \/ FindNothing(t) \/ VerdictMissing(t) \/ PersistSwallowed(t)
           \/ FetchFailed(t) \/ NotifyPaused(t)
    PROVE  StepOK(t)
<1> USE DEF FindNothing, VerdictMissing, PersistSwallowed, FetchFailed, NotifyPaused
<1>1. tasks[t].pc # "idle" /\ UNCHANGED <<up, rows, jobs, orders, placed, unscheduled>>
  OBVIOUS
<1>2. \E c \in {"error", "onlaunch", "ok"} : Goto(t, c)
  OBVIOUS
<1>3. StoresOK
  BY <1>1, StoresUnchanged
<1>4. up
  BY <1>1 DEF TypeOK, Idle
<1>5. \E k \in Task : Become(t, k) /\ TaskOK(k)'
  BY <1>1, <1>2, <1>3, GotoOK DEF Pcs, Holding, Confirmed, TaskOK
<1>6. QED
  BY <1>1, <1>3, <1>4, <1>5 DEF StepOK, TypeOK

\* The lookup copies a row that is really open.
LEMMA FindBotOK ==
    ASSUME TypeOK, PausedFlagAgrees, NEW t \in Tasks, TaskOK(tasks[t]), FindBot(t)
    PROVE  StepOK(t)
<1>1. PICK o \in Matching(tasks[t].sym, FindStatuses(tasks[t].op)) :
          Become(t, [tasks[t] EXCEPT !.oid = o, !.bot = rows[o],
                                     !.pc = AfterFind(tasks[t].op, rows[o])])
  BY DEF FindBot
<1>2. /\ tasks[t].pc = "find"
      /\ UNCHANGED <<up, rows, jobs, orders, placed, unscheduled>>
  BY DEF FindBot
<1>3. /\ o \in Oids
      /\ rows[o] # None
      /\ rows[o] \in Bot
      /\ rows[o].sym = tasks[t].sym
      /\ rows[o].status \in OpenStatuses
      /\ rows[o].status = "running" => ~rows[o].paused
  <2>1. o \in Oids /\ rows[o] # None
    BY DEF Matching, Stored
  <2>2. rows[o] \in Bot
    BY <2>1 DEF TypeOK
  <2>3. rows[o].sym = tasks[t].sym /\ rows[o].status \in OpenStatuses
    BY <1>1 DEF Matching, FindStatuses, OpenStatuses
  <2>4. QED
    BY <2>1, <2>2, <2>3 DEF PausedFlagAgrees, PausedAgrees, OpenRows, OpenStatuses
<1>4. /\ AfterFind(tasks[t].op, rows[o]) \in {"error", "cancel", "fetch", "save"}
      /\ AfterFind(tasks[t].op, rows[o]) = "cancel" => rows[o].ext # None
  BY DEF AfterFind
<1>5. tasks[t] \in Task
  BY DEF TypeOK
<1>6. PICK k \in Task :
          k = [tasks[t] EXCEPT !.oid = o, !.bot = rows[o],
                               !.pc = AfterFind(tasks[t].op, rows[o])]
  BY <1>3, <1>4, <1>5 DEF Task, Pcs
<1>7. /\ k.pc = AfterFind(tasks[t].op, rows[o]) /\ k.oid = o /\ k.bot = rows[o]
      /\ k.sym = tasks[t].sym /\ k.confirmed = tasks[t].confirmed
  BY <1>5, <1>6 DEF Task
<1>8. TaskOK(k)
  BY <1>2, <1>3, <1>4, <1>7 DEF TaskOK, Stored, Holding, Confirmed
<1>9. QED
  BY <1>1, <1>2, <1>6, <1>8, StoresUnchanged, TaskKept DEF StepOK, TypeOK, Idle

\* The three outcomes of cancel_futures_grid.
LEMMA CancelOK ==
    ASSUME TypeOK, NEW t \in Tasks, TaskOK(tasks[t]),
           CancelAccepted(t) \/ CancelHttpError(t) \/ CancelAborted(t)
    PROVE  StepOK(t)
<1>1. /\ tasks[t].pc = "cancel"
      /\ UNCHANGED <<up, rows, jobs, placed, unscheduled>>
  BY DEF CancelAccepted, CancelHttpError, CancelAborted
<1>2. /\ tasks[t] \in Task
      /\ tasks[t].bot \in Bot
      /\ tasks[t].bot.ext \in Orders
      /\ ~tasks[t].confirmed
  BY <1>1, ConstantsOK DEF TypeOK, TaskOK, Holding, Confirmed, Task, Bot
<1>3. StoresOK
  BY <1>1, <1>2, CancellingKeepsStores
     DEF CancelAccepted, CancelHttpError, CancelAborted, MayCancel
<1>4. CASE CancelAccepted(t)
  <2>1. PICK k \in Task : k = [tasks[t] EXCEPT !.pc = "save", !.confirmed = TRUE]
    BY <1>2 DEF Task, Pcs
  <2>2. /\ k.pc = "save" /\ k.confirmed = TRUE /\ k.oid = tasks[t].oid
        /\ k.bot = tasks[t].bot /\ k.sym = tasks[t].sym
    BY <1>2, <2>1 DEF Task
  <2>3. orders'[k.bot.ext] = "cancelled"
    BY <1>2, <1>4, <2>2 DEF CancelAccepted, TypeOK
  <2>4. TaskOK([tasks[t] EXCEPT !.pc = "save"])
    BY <1>1, <1>2 DEF TaskOK, Holding, Task, Confirmed
  <2>5. PICK j \in Task : j = [tasks[t] EXCEPT !.pc = "save"]
    BY <1>2 DEF Task, Pcs
  <2>6. TaskOK(j)'
    BY <2>4, <2>5, <1>3, TaskKept
  <2>7. /\ j.pc = "save" /\ j.oid = k.oid /\ j.bot = k.bot /\ j.sym = k.sym
    BY <1>2, <2>2, <2>5 DEF Task
  <2>8. k.bot \in Bot /\ k.bot.ext \in Orders
    BY <1>2, <2>2
  <2>9. TaskOK(k)'
    BY <2>2, <2>3, <2>6, <2>7, <2>8 DEF TaskOK, Holding, Confirmed
  <2>10. QED
    BY <1>1, <1>3, <1>4, <2>1, <2>9 DEF StepOK, TypeOK, CancelAccepted, Idle
<1>5. CASE CancelHttpError(t) \/ CancelAborted(t)
  <2>1. \E c \in {"save", "error"} : Goto(t, c)
    BY <1>5 DEF CancelHttpError, CancelAborted
  <2>2. \E k \in Task : Become(t, k) /\ TaskOK(k)'
    BY <1>1, <1>2, <1>3, <2>1, GotoOK DEF Pcs, Holding
  <2>3. QED
    BY <1>1, <1>3, <2>2 DEF StepOK, TypeOK, Idle
<1>6. QED
  BY <1>4, <1>5

\* _save: an INSERT of a row whose key exists.
LEMMA SaveOK ==
    ASSUME TypeOK, NEW t \in Tasks, TaskOK(tasks[t]), Save(t)
    PROVE  StepOK(t)
<1>1. /\ tasks[t].pc = "save"
      /\ Add(tasks[t].oid, Changed(tasks[t].op, tasks[t].bot))
      /\ Goto(t, AfterSave(tasks[t].op))
      /\ UNCHANGED <<up, jobs, orders, placed, unscheduled>>
  BY DEF Save
<1>2. tasks[t].oid \in Oids /\ Stored(tasks[t].oid)
  BY <1>1 DEF TaskOK, Holding
<1>3. StoresOK
  BY <1>1, <1>2, AddKeepsStores
<1>4. AfterSave(tasks[t].op) \in {"onclose", "notify", "ok"}
  BY DEF AfterSave
<1>5. \E k \in Task : Become(t, k) /\ TaskOK(k)'
  BY <1>1, <1>3, <1>4, GotoOK DEF Pcs, Holding, Confirmed
<1>6. QED
  BY <1>1, <1>3, <1>5 DEF StepOK, TypeOK, Idle

\* The callbacks on_close and on_launch only touch the scheduler's jobs.
LEMMA CallbackOK ==
    ASSUME TypeOK, NEW t \in Tasks, TaskOK(tasks[t]),
           UnscheduleMonitoring(t) \/ ScheduleMonitoring(t)
    PROVE  StepOK(t)
<1>1. /\ tasks[t].pc \in {"onclose", "onlaunch"}
      /\ UNCHANGED <<up, rows, orders, placed>>
      /\ \E c \in {"ok", "error"} :
            Goto(t, c) /\ (tasks[t].pc = "onclose" => c = "ok")
  BY DEF UnscheduleMonitoring, ScheduleMonitoring
<1>2. StoresOK
  BY <1>1, StoresUnchanged
<1>3. \E k \in Task : Become(t, k) /\ TaskOK(k)'
  BY <1>1, <1>2, GotoOK DEF Pcs, Holding, Confirmed, TaskOK
<1>4. tasks[t].sym \in Symbols /\ up
  BY <1>1 DEF TaskOK, TypeOK, Idle
<1>5. /\ jobs' \in SUBSET (JobKinds \X Symbols)
      /\ unscheduled' \in SUBSET (Symbols \X BOOLEAN)
  <2>1. JobsOf(tasks[t].sym) \subseteq JobKinds \X Symbols
    BY <1>4 DEF JobsOf
  <2>2. /\ jobs \subseteq JobKinds \X Symbols /\ unscheduled \subseteq Symbols \X BOOLEAN
        /\ tasks[t].confirmed \in BOOLEAN
    BY DEF TypeOK, Task
  <2>3. CASE UnscheduleMonitoring(t)
    BY <1>4, <2>2, <2>3 DEF UnscheduleMonitoring
  <2>4. CASE ScheduleMonitoring(t)
    BY <2>1, <2>2, <2>4 DEF ScheduleMonitoring
  <2>5. QED
    BY <2>3, <2>4
<1>6. QED
  BY <1>1, <1>2, <1>3, <1>4, <1>5 DEF StepOK

\* A manual launch builds a well-formed row.
LEMMA NewBotType ==
    ASSUME NEW s \in Symbols PROVE NewBot(s, None) \in Bot
BY DEF NewBot, Bot, Statuses, OpenStatuses, HealthStatuses

\* Loading the verdict of a launch.
LEMMA LoadVerdictOK ==
    ASSUME TypeOK, NEW t \in Tasks, TaskOK(tasks[t]), LoadVerdict(t)
    PROVE  StepOK(t)
<1>1. /\ tasks[t].pc = "verdict"
      /\ UNCHANGED <<up, rows, jobs, orders, placed, unscheduled>>
  BY DEF LoadVerdict
<1>2. /\ tasks[t] \in Task
      /\ tasks[t].sym \in Symbols
      /\ ~tasks[t].confirmed
  BY <1>1 DEF TypeOK, TaskOK, Confirmed
<1>3. StoresOK
  BY <1>1, StoresUnchanged
<1>4. CASE tasks[t].op = "manual"
  <2>1. NewBot(tasks[t].sym, None) \in Bot
    BY <1>2, NewBotType
  <2>2. PICK k \in Task :
            k = [tasks[t] EXCEPT !.bot = NewBot(tasks[t].sym, None), !.pc = "persist"]
    BY <1>2, <2>1 DEF Task, Pcs
  <2>3. /\ k.pc = "persist" /\ k.bot = NewBot(k.sym, None)
        /\ k.sym = tasks[t].sym /\ ~k.confirmed
    BY <1>2, <2>2 DEF Task
  <2>4. TaskOK(k)
    BY <1>2, <2>3 DEF TaskOK, Holding
  <2>5. Become(t, k)
    BY <1>4, <2>2 DEF LoadVerdict
  <2>6. QED
    BY <1>1, <1>3, <2>4, <2>5, TaskKept DEF StepOK, TypeOK, Idle
<1>5. CASE tasks[t].op # "manual"
  <2>1. Goto(t, "place")
    BY <1>5 DEF LoadVerdict, Goto
  <2>2. \E k \in Task : Become(t, k) /\ TaskOK(k)'
    BY <1>1, <1>2, <1>3, <2>1, GotoOK DEF Pcs, Holding
  <2>3. QED
    BY <1>1, <1>3, <2>2 DEF StepOK, TypeOK, Idle
<1>6. QED
  BY <1>4, <1>5

\* The outcomes of one POST of place_grid.
LEMMA PlaceOK ==
    ASSUME TypeOK, NEW t \in Tasks, TaskOK(tasks[t]),
           PlaceAccepted(t) \/ PlaceRetried(t) \/ PlaceFailed(t)
    PROVE  StepOK(t)
<1>1. /\ tasks[t].pc = "place"
      /\ UNCHANGED <<up, rows, jobs, unscheduled>>
      /\ UNCHANGED <<orders, placed>> \/ \E x \in Orders : OrderCreated(x)
  BY DEF PlaceAccepted, PlaceRetried, PlaceFailed, MayCreateOrder
<1>2. /\ tasks[t] \in Task
      /\ tasks[t].sym \in Symbols
      /\ ~tasks[t].confirmed
  BY <1>1 DEF TypeOK, TaskOK, Confirmed
<1>3. StoresOK
  BY <1>1, PlacingKeepsStores
<1>4. CASE PlaceAccepted(t)
  <2>1. Become(t, [tasks[t] EXCEPT !.bot = NewBot(tasks[t].sym, None), !.pc = "error"])
    BY <1>4 DEF PlaceAccepted, ReturnedExternalId
  <2>2. NewBot(tasks[t].sym, None) \in Bot
    BY <1>2, NewBotType
  <2>3. PICK k \in Task :
            k = [tasks[t] EXCEPT !.bot = NewBot(tasks[t].sym, None), !.pc = "error"]
    BY <1>2, <2>2 DEF Task, Pcs
  <2>4. k.pc = "error" /\ k.sym = tasks[t].sym /\ ~k.confirmed
    BY <1>2, <2>3 DEF Task
  <2>5. TaskOK(k)
    BY <1>2, <2>4 DEF TaskOK, Holding
  <2>6. QED
    BY <1>1, <1>3, <2>1, <2>3, <2>5, TaskKept DEF StepOK, TypeOK, Idle
<1>5. CASE PlaceRetried(t)
  <2>1. /\ Become(t, [tasks[t] EXCEPT !.tries = @ + 1])
        /\ tasks[t].tries < MaxAttempts - 1
    BY <1>5 DEF PlaceRetried
  <2>2. tasks[t].tries + 1 \in 0..(MaxAttempts - 1)
    BY <1>2, <2>1 DEF Task, MaxAttempts
  <2>3. PICK k \in Task : k = [tasks[t] EXCEPT !.tries = @ + 1]
    BY <1>2, <2>2 DEF Task
  <2>4. k.pc = "place" /\ k.sym = tasks[t].sym /\ ~k.confirmed
    BY <1>1, <1>2, <2>3 DEF Task
  <2>5. TaskOK(k)
    BY <1>2, <2>4 DEF TaskOK, Holding
  <2>6. QED
    BY <1>1, <1>3, <2>1, <2>3, <2>5, TaskKept DEF StepOK, TypeOK, Idle
<1>6. CASE PlaceFailed(t)
  <2>1. Goto(t, "error")
    BY <1>6 DEF PlaceFailed
  <2>2. \E k \in Task : Become(t, k) /\ TaskOK(k)'
    BY <1>1, <1>2, <1>3, <2>1, GotoOK DEF Pcs, Holding
  <2>3. QED
    BY <1>1, <1>3, <2>2 DEF StepOK, TypeOK, Idle
<1>7. QED
  BY <1>4, <1>5, <1>6

\* persist_grid, when the database took the row.
LEMMA PersistFlushedOK ==
    ASSUME TypeOK, NEW t \in Tasks, TaskOK(tasks[t]), PersistFlushed(t)
    PROVE  StepOK(t)
<1>1. PICK o \in Oids :
          /\ Add(o, tasks[t].bot)
          /\ Become(t, [tasks[t] EXCEPT !.oid = o, !.pc = "onlaunch"])
  BY DEF PersistFlushed
<1>2. /\ tasks[t].pc = "persist"
      /\ UNCHANGED <<up, jobs, orders, placed, unscheduled>>
  BY DEF PersistFlushed
<1>3. /\ tasks[t] \in Task
      /\ tasks[t].sym \in Symbols
      /\ tasks[t].bot = NewBot(tasks[t].sym, None)
      /\ ~tasks[t].confirmed
  BY <1>2 DEF TypeOK, TaskOK, Confirmed
<1>4. StoresOK
  BY <1>1, <1>2, <1>3, NewBotType, AddKeepsStores
<1>5. PICK k \in Task : k = [tasks[t] EXCEPT !.oid = o, !.pc = "onlaunch"]
  BY <1>3 DEF Task, Pcs
<1>6. k.pc = "onlaunch" /\ k.sym = tasks[t].sym /\ ~k.confirmed
  BY <1>3, <1>5 DEF Task
<1>7. TaskOK(k)
  BY <1>3, <1>6 DEF TaskOK, Holding
<1>8. QED
  BY <1>1, <1>2, <1>4, <1>5, <1>7, TaskKept DEF StepOK, TypeOK, Idle

\* The health check's classification changes the copy's health only.
LEMMA ClassifyOK ==
    ASSUME TypeOK, NEW t \in Tasks, TaskOK(tasks[t]), Classify(t)
    PROVE  StepOK(t)
<1>1. PICK h \in HealthStatuses :
          Become(t, [tasks[t] EXCEPT !.bot = [@ EXCEPT !.health = h], !.pc = "update"])
  BY DEF Classify
<1>2. /\ tasks[t].pc = "fetch"
      /\ UNCHANGED <<up, rows, jobs, orders, placed, unscheduled>>
  BY DEF Classify
<1>3. /\ tasks[t] \in Task
      /\ tasks[t].bot \in Bot
      /\ ~tasks[t].confirmed
  BY <1>2 DEF TypeOK, TaskOK, Holding, Confirmed
<1>4. PICK b \in Bot : b = [tasks[t].bot EXCEPT !.health = h]
  BY <1>3 DEF Bot
<1>5. /\ Lifecycle(b) = Lifecycle(tasks[t].bot)
      /\ b.paused = tasks[t].bot.paused
      /\ b.status = tasks[t].bot.status
      /\ b.sym = tasks[t].bot.sym
  BY <1>3, <1>4 DEF Bot, Lifecycle
<1>6. PICK k \in Task : k = [tasks[t] EXCEPT !.bot = b, !.pc = "update"]
  BY <1>3 DEF Task, Pcs
<1>7. /\ k.pc = "update" /\ k.sym = tasks[t].sym /\ ~k.confirmed
      /\ k.oid = tasks[t].oid /\ k.bot = b
  BY <1>3, <1>6 DEF Task
<1>8. Become(t, k)
  BY <1>1, <1>4, <1>6
<1>9. TaskOK(k)
  BY <1>2, <1>5, <1>7 DEF TaskOK, Holding
<1>10. QED
  BY <1>2, <1>8, <1>9, StoresUnchanged, TaskKept DEF StepOK, TypeOK, Idle

\* The write of a health check leaves the lifecycle columns alone, and the
\* stale paused flag it writes still agrees with the status.
LEMMA UpdateRow ==
    ASSUME TypeOK, NEW t \in Tasks, TaskOK(tasks[t]), UpdateMonitoring(t),
           rows' # rows
    PROVE  /\ tasks[t].oid \in Oids
           /\ Stored(tasks[t].oid)
           /\ \A o \in Oids \ {tasks[t].oid} : rows'[o] = rows[o]
           /\ rows'[tasks[t].oid] \in Bot
           /\ rows'[tasks[t].oid].paused = tasks[t].bot.paused
           /\ Lifecycle(rows'[tasks[t].oid]) = Lifecycle(rows[tasks[t].oid])
           /\ rows' \in [Oids -> Bot \cup {None}]
<1> DEFINE o == tasks[t].oid
<1>1. /\ o \in Oids
      /\ Stored(o)
      /\ tasks[t].bot \in Bot
  BY DEF UpdateMonitoring, TaskOK, Holding
<1>2. rows[o] \in Bot
  BY <1>1 DEF TypeOK, Stored
<1>3. rows' = [rows EXCEPT ![o] = [rows[o] EXCEPT !.health = tasks[t].bot.health,
                                                  !.paused = tasks[t].bot.paused]]
  BY <1>1 DEF UpdateMonitoring, TypeOK
<1>4. PICK b \in Bot : b = [rows[o] EXCEPT !.health = tasks[t].bot.health,
                                           !.paused = tasks[t].bot.paused]
  BY <1>1, <1>2 DEF Bot
<1>5. b.paused = tasks[t].bot.paused /\ Lifecycle(b) = Lifecycle(rows[o])
  BY <1>2, <1>4 DEF Bot, Lifecycle
<1>6. QED
  BY <1>1, <1>3, <1>4, <1>5 DEF TypeOK

\* update_monitoring_fields.
LEMMA UpdateMonitoringOK ==
    ASSUME TypeOK, NEW t \in Tasks, TaskOK(tasks[t]), UpdateMonitoring(t)
    PROVE  StepOK(t)
<1>1. /\ tasks[t].pc = "update"
      /\ Goto(t, "ok")
      /\ UNCHANGED <<up, jobs, orders, placed, unscheduled>>
  BY DEF UpdateMonitoring
<1>2. StoresOK
  <2>1. CASE rows' = rows
    BY <1>1, <2>1, StoresUnchanged
  <2>2. CASE rows' # rows
    <3>1. RowsKept
      BY <2>2, UpdateRow DEF RowsKept, TypeOK, Stored
    <3>2. OrdersKept
      BY <1>1 DEF OrdersKept
    <3>3. QED
      BY <1>1, <2>2, <3>1, <3>2, UpdateRow DEF StoresOK, TypeOK
  <2>3. QED
    BY <2>1, <2>2
<1>3. \E k \in Task : Become(t, k) /\ TaskOK(k)'
  BY <1>1, <1>2, GotoOK DEF Pcs, Holding, Confirmed
<1>4. QED
  BY <1>1, <1>2, <1>3 DEF StepOK, TypeOK, Idle

\* evaluate_one picks a bot or ends.
LEMMA EvaluateOK ==
    ASSUME TypeOK, NEW t \in Tasks, TaskOK(tasks[t]), Evaluate(t)
    PROVE  StepOK(t)
<1>1. PICK c \in {"find", "ok"} : Become(t, [tasks[t] EXCEPT !.pc = c])
  BY DEF Evaluate, Matching, Goto
<1>2. /\ tasks[t].pc = "evaluate"
      /\ UNCHANGED <<up, rows, jobs, orders, placed, unscheduled>>
  BY DEF Evaluate
<1>3. tasks[t] \in Task /\ tasks[t].sym \in Symbols /\ ~tasks[t].confirmed
  BY <1>2 DEF TypeOK, TaskOK, Confirmed
<1>4. PICK k \in Task : k = [tasks[t] EXCEPT !.pc = c]
  BY <1>3 DEF Task, Pcs
<1>5. k.pc = c /\ k.sym = tasks[t].sym /\ ~k.confirmed
  BY <1>3, <1>4 DEF Task
<1>6. TaskOK(k)
  BY <1>3, <1>5 DEF TaskOK, Holding
<1>7. QED
  BY <1>1, <1>2, <1>4, <1>6, StoresUnchanged, TaskKept DEF StepOK, TypeOK, Idle

\* A task slot that is free holds nothing.
LEMMA IdleOK == Idle \in Task /\ TaskOK(Idle) /\ TaskOK(Idle)'
BY DEF Idle, Task, Pcs, TaskOK, Holding, MaxAttempts

\* A handler or job that returns frees its slot.
LEMMA ReturnOK ==
    ASSUME TypeOK, NEW t \in Tasks, Return(t) PROVE StepOK(t)
<1>1. /\ tasks[t].pc # "idle"
      /\ Become(t, Idle)
      /\ UNCHANGED <<up, rows, jobs, orders, placed, unscheduled>>
  BY DEF Return
<1>2. QED
  BY <1>1, IdleOK, StoresUnchanged DEF StepOK, TypeOK, Idle

\* Every step of a task, put together.
LEMMA EveryStepOK ==
    ASSUME TypeOK, PausedFlagAgrees, NEW t \in Tasks, TaskOK(tasks[t]), Step(t)
    PROVE  StepOK(t)
BY QuietStepOK, FindBotOK, CancelOK, SaveOK, CallbackOK, LoadVerdictOK, PlaceOK,
   PersistFlushedOK, ClassifyOK, UpdateMonitoringOK, EvaluateOK, ReturnOK DEF Step

---------------------------------------------------------------------------
(* The first half of the invariant: types and tasks *)

Half == TypeOK /\ \A t \in Tasks : TaskOK(tasks[t])

\* A task's step keeps types and the tasks' own invariant.
LEMMA StepHalf ==
    ASSUME Half, PausedFlagAgrees, NEW t \in Tasks, Step(t) PROVE Half'
<1>1. StepOK(t)
  BY EveryStepOK DEF Half
<1>2. PICK k \in Task : Become(t, k) /\ TaskOK(k)'
  BY <1>1 DEF StepOK
<1>3. tasks' \in [Tasks -> Task]
  BY <1>2 DEF Become, Half, TypeOK
<1>4. TypeOK'
  BY <1>1, <1>3 DEF StepOK, StoresOK, TypeOK, Half
<1>5. ASSUME NEW u \in Tasks PROVE TaskOK(tasks[u])'
  <2>1. CASE u = t
    <3>1. tasks'[u] = k
      BY <1>2, <2>1 DEF Become, Half, TypeOK
    <3>2. QED
      BY <1>2, <3>1 DEF TaskOK
  <2>2. CASE u # t
    <3>1. PICK j \in Task : j = tasks[u] /\ TaskOK(j)
      BY DEF Half, TypeOK
    <3>2. tasks'[u] = j
      BY <1>2, <2>2, <3>1 DEF Become, Half, TypeOK
    <3>3. TaskOK(j)'
      BY <1>1, <3>1, TaskKept DEF StepOK
    <3>4. QED
      BY <3>2, <3>3 DEF TaskOK
  <2>3. QED
    BY <2>1, <2>2
<1>6. QED
  BY <1>4, <1>5 DEF Half

\* So does the start of a handler or of a job.
LEMMA StartHandlerHalf ==
    ASSUME Half, NEW t \in Tasks, NEW op \in UserOps \cup JobKinds,
           NEW s \in Symbols, StartHandler(t, op, s)
    PROVE  Half'
<1>1. PICK c \in {"verdict", "evaluate", "find"} : c = FirstPc(op)
  BY DEF FirstPc
<1>2. PICK k \in Task : k = [Idle EXCEPT !.op = op, !.sym = s, !.pc = c]
  BY IdleOK DEF Task, Pcs
<1>3. /\ k.sym = s /\ k.pc = c
      /\ k.confirmed = FALSE
  BY <1>2, IdleOK DEF Idle, Task
<1>4. TaskOK(k)'
  BY <1>3 DEF TaskOK, Holding
<1>5. /\ Become(t, k) /\ up
      /\ UNCHANGED <<up, rows, jobs, orders, placed, unscheduled>>
  BY <1>1, <1>2 DEF StartHandler
<1>6. StoresOK
  BY <1>5, StoresUnchanged DEF Half
<1>7. TypeOK'
  BY <1>3, <1>5 DEF Become, Half, TypeOK
<1>8. ASSUME NEW u \in Tasks PROVE TaskOK(tasks[u])'
  <2>1. CASE u = t
    <3>1. tasks'[u] = k
      BY <1>5, <2>1 DEF Become, Half, TypeOK
    <3>2. QED
      BY <1>4, <3>1 DEF TaskOK
  <2>2. CASE u # t
    <3>1. PICK j \in Task : j = tasks[u] /\ TaskOK(j)
      BY DEF Half, TypeOK
    <3>2. tasks'[u] = j
      BY <1>5, <2>2, <3>1 DEF Become, Half, TypeOK
    <3>3. TaskOK(j)'
      BY <1>6, <3>1, TaskKept
    <3>4. QED
      BY <3>2, <3>3 DEF TaskOK
  <2>3. QED
    BY <2>1, <2>2
<1>9. QED
  BY <1>7, <1>8 DEF Half

\* So does an order that ends on the exchange by itself.
LEMMA OrderFinishesHalf ==
    ASSUME Half, NEW x \in Orders, OrderFinishes(x) PROVE Half' /\ OrdersKept
<1>1. /\ orders' = [orders EXCEPT ![x] = "finished"] /\ orders[x] = "live"
      /\ UNCHANGED <<up, rows, jobs, tasks, placed, unscheduled>>
  BY DEF OrderFinishes
<1>2. TypeOK' /\ OrdersKept
  BY <1>1 DEF Half, TypeOK, OrdersKept, OrderStates
<1>3. StoresOK
  BY <1>1, <1>2, ConstantsOK DEF StoresOK, RowsKept, Half, TypeOK, Lifecycle, Stored
<1>4. ASSUME NEW u \in Tasks PROVE TaskOK(tasks[u])'
  <2>1. PICK j \in Task : j = tasks[u] /\ TaskOK(j)
    BY DEF Half, TypeOK
  <2>2. TaskOK(j)' /\ tasks'[u] = j
    BY <1>1, <1>3, <2>1, TaskKept
  <2>3. QED
    BY <2>2 DEF TaskOK
<1>5. QED
  BY <1>2, <1>4 DEF Half

\* So does a crash.
LEMMA CrashHalf == ASSUME Half, Crash PROVE Half'
<1>1. TypeOK'
  BY IdleOK DEF Crash, Half, TypeOK
<1>2. \A u \in Tasks : tasks'[u] = Idle
  BY DEF Crash
<1>3. QED
  BY <1>1, <1>2, IdleOK DEF Half, TaskOK

\* So does a start of the process.
LEMMA StartHalf == ASSUME Half, Start PROVE Half'
<1>1. \A o \in OpenRows(rows) : JobsOf(rows[o].sym) \subseteq JobKinds \X Symbols
  BY DEF Half, TypeOK, OpenRows, JobsOf, Bot
<1>2. jobs' \in SUBSET (JobKinds \X Symbols)
  BY <1>1 DEF Start
<1>3. TypeOK'
  BY <1>2 DEF Start, Half, TypeOK
<1>4. QED
  BY <1>3 DEF Half, Start, TaskOK, Stored, Lifecycle, Holding

---------------------------------------------------------------------------
(* How the table can change *)

\* Same rows, same lifecycle columns; a paused flag only where it belongs.
SameRows ==
    \A o \in Oids :
        /\ Stored(o) = (rows'[o] # None)
        /\ Stored(o) => /\ Lifecycle(rows'[o]) = Lifecycle(rows[o])
                        /\ rows'[o].status = rows[o].status
                        /\ rows'[o].sym = rows[o].sym
                        /\ rows'[o].ext = rows[o].ext
                        /\ rows[o].status = "running" /\ rows'[o].paused => rows[o].paused

\* One new row, for a symbol without an open one, by a launch that is about
\* to schedule the jobs.
RowInserted(t, o) ==
    /\ InsertAllowed(o, NewBot(tasks[t].sym, None))
    /\ tasks[t].sym \in Symbols
    /\ tasks[t].pc # "onlaunch"
    /\ rows' = [rows EXCEPT ![o] = NewBot(tasks[t].sym, None)]
    /\ tasks'[t].pc = "onlaunch"
    /\ tasks'[t].oid = o
    /\ tasks'[t].sym = tasks[t].sym
    /\ UNCHANGED <<up, jobs, orders, placed, unscheduled>>

\* A step that writes no row keeps every row.
LEMMA UnchangedRows ==
    ASSUME UNCHANGED rows PROVE SameRows
BY DEF SameRows, Stored, Lifecycle

\* A save never changes the table: the key of the row it inserts exists.
LEMMA SaveChangesNothing ==
    ASSUME NEW t \in Tasks, TaskOK(tasks[t]), Save(t) PROVE UNCHANGED rows
BY DEF Save, Add, InsertAllowed, TaskOK, Holding

\* A task changes the table of launches in one way only: persist_grid adds a row.
LEMMA StepRows ==
    ASSUME Half, NEW t \in Tasks, Step(t)
    PROVE  SameRows \/ \E o \in Oids : RowInserted(t, o)
<1>1. TaskOK(tasks[t]) /\ tasks[t] \in Task /\ TypeOK
  BY DEF Half, TypeOK
<1>2. CASE Save(t)
  BY <1>1, <1>2, SaveChangesNothing, UnchangedRows
<1>3. CASE UpdateMonitoring(t)
  <2>1. CASE rows' = rows
    BY <2>1, UnchangedRows
  <2>2. CASE rows' # rows
    <3> DEFINE o == tasks[t].oid
    <3>1. /\ o \in Oids
          /\ Stored(o)
          /\ \A p \in Oids \ {o} : rows'[p] = rows[p]
          /\ rows'[o] \in Bot
          /\ rows'[o].paused = tasks[t].bot.paused
          /\ Lifecycle(rows'[o]) = Lifecycle(rows[o])
      BY <1>1, <1>3, <2>2, UpdateRow
    <3>2. /\ Lifecycle(tasks[t].bot) = Lifecycle(rows[o])
          /\ ~(tasks[t].bot.paused /\ tasks[t].bot.status = "running")
      BY <1>1, <1>3 DEF UpdateMonitoring, TaskOK, Holding
    <3>3. rows[o].status = "running" => ~rows'[o].paused
      BY <3>1, <3>2 DEF Lifecycle
    <3>4. rows'[o] # None
      BY <3>1, ConstantsOK
    <3>5. QED
      BY <3>1, <3>3, <3>4 DEF SameRows, Lifecycle, Stored
  <2>3. QED
    BY <2>1, <2>2
<1>4. CASE PersistFlushed(t)
  <2>1. PICK o \in Oids :
            /\ InsertAllowed(o, tasks[t].bot)
            /\ Add(o, tasks[t].bot)
            /\ Become(t, [tasks[t] EXCEPT !.oid = o, !.pc = "onlaunch"])
    BY <1>4 DEF PersistFlushed
  <2>2. /\ tasks[t].bot = NewBot(tasks[t].sym, None)
        /\ tasks[t].sym \in Symbols
        /\ tasks[t].pc # "onlaunch"
        /\ UNCHANGED <<up, jobs, orders, placed, unscheduled>>
    BY <1>1, <1>4 DEF PersistFlushed, TaskOK
  <2>3. tasks'[t] = [tasks[t] EXCEPT !.oid = o, !.pc = "onlaunch"]
    BY <2>1, <1>1 DEF Become, TypeOK
  <2>4. /\ tasks'[t].pc = "onlaunch" /\ tasks'[t].oid = o
        /\ tasks'[t].sym = tasks[t].sym
    BY <1>1, <2>3 DEF Task
  <2>5. QED
    BY <2>1, <2>2, <2>4, UnchangedRows DEF Add, RowInserted
<1>5. CASE ~(Save(t) \/ UpdateMonitoring(t) \/ PersistFlushed(t))
  <2>1. UNCHANGED rows
    BY <1>5 DEF Step, FindBot, FindNothing, CancelAccepted, CancelHttpError,
       CancelAborted, UnscheduleMonitoring, LoadVerdict, VerdictMissing,
       PlaceAccepted, PlaceRetried, PlaceFailed, PersistSwallowed,
       ScheduleMonitoring, Classify, FetchFailed, Evaluate, NotifyPaused, Return
  <2>2. QED
    BY <2>1, UnchangedRows
<1>6. QED
  BY <1>2, <1>3, <1>4, <1>5

---------------------------------------------------------------------------
(* The table and the orders *)

\* The table's invariants hold on while its rows do.
LEMMA SameRowsTable ==
    ASSUME SameRows, OneOpenPerSymbol, PausedFlagAgrees
    PROVE  OneOpenPerSymbol' /\ PausedFlagAgrees'
BY DEF SameRows, OneOpenPerSymbol, PausedFlagAgrees, OneOpenRow, PausedAgrees,
       OpenRows, OpenStatuses, Stored

\* They hold for a table with the new row as well: the index admits it.
LEMMA RowInsertedTable ==
    ASSUME Half, OneOpenPerSymbol, PausedFlagAgrees, NEW t \in Tasks,
           NEW o \in Oids, RowInserted(t, o)
    PROVE  OneOpenPerSymbol' /\ PausedFlagAgrees'
<1>1. /\ rows'[o] = NewBot(tasks[t].sym, None)
      /\ \A p \in Oids \ {o} : rows'[p] = rows[p]
  BY DEF RowInserted, Half, TypeOK
<1>2. \A p \in OpenRows(rows) : rows[p].sym # tasks[t].sym
  BY DEF RowInserted, InsertAllowed, NewBot, Matching, OpenRows, OpenStatuses, Stored
<1>3. PausedFlagAgrees'
  BY <1>1 DEF PausedFlagAgrees, PausedAgrees, OpenRows, NewBot
<1>4. OneOpenPerSymbol'
  BY <1>1, <1>2 DEF OneOpenPerSymbol, OneOpenRow, OpenRows, NewBot
<1>5. QED
  BY <1>3, <1>4

OrderCancelled ==
    \E x \in Orders : /\ Owned(x)
                      /\ \E o \in OpenRows(rows) : rows[o].ext = x
                      /\ orders' = [orders EXCEPT ![x] = "cancelled"]
                      /\ orders[x] = "live"

\* A task creates an order, cancels one, or leaves all orders alone.
LEMMA StepOrders ==
    ASSUME Half, NEW t \in Tasks, Step(t)
    PROVE  \/ UNCHANGED <<orders, placed>>
           \/ UNCHANGED rows /\ \E x \in Orders : OrderCreated(x)
           \/ UNCHANGED <<rows, placed>> /\ OrderCancelled
<1>1. TaskOK(tasks[t])
  BY DEF Half
<1>2. CASE CancelAccepted(t) \/ CancelHttpError(t) \/ CancelAborted(t)
  <2>1. tasks[t].pc = "cancel" /\ UNCHANGED <<rows, placed>>
    BY <1>2 DEF CancelAccepted, CancelHttpError, CancelAborted
  <2>2. /\ tasks[t].oid \in Oids
        /\ Stored(tasks[t].oid)
        /\ rows[tasks[t].oid].ext = tasks[t].bot.ext
        /\ tasks[t].bot.ext \in Orders
    BY <1>1, <2>1 DEF TaskOK, Holding, Lifecycle, Bot
  <2>3. /\ Owned(tasks[t].bot.ext)
        /\ \E o \in OpenRows(rows) : rows[o].ext = tasks[t].bot.ext
    BY <1>1, <2>1, <2>2 DEF Owned, OpenRows, TaskOK, Holding, Lifecycle, Stored
  <2>4. QED
    BY <1>2, <2>1, <2>2, <2>3
       DEF CancelAccepted, CancelHttpError, CancelAborted, MayCancel, OrderCancelled
<1>3. CASE PlaceAccepted(t) \/ PlaceRetried(t) \/ PlaceFailed(t)
  BY <1>3 DEF PlaceAccepted, PlaceRetried, PlaceFailed, MayCreateOrder
<1>4. CASE ~(\/ CancelAccepted(t) \/ CancelHttpError(t) \/ CancelAborted(t)
             \/ PlaceAccepted(t) \/ PlaceRetried(t) \/ PlaceFailed(t))
  BY <1>4 DEF Step, FindBot, FindNothing, Save, UnscheduleMonitoring, LoadVerdict,
     VerdictMissing, PersistFlushed, PersistSwallowed, ScheduleMonitoring, Classify,
     FetchFailed, UpdateMonitoring, Evaluate, NotifyPaused, Return
<1>5. QED
  BY <1>2, <1>3, <1>4

\* Rows own the same orders after a step: an inserted row owns none.
LEMMA StepOwned ==
    ASSUME Half, NEW t \in Tasks, Step(t)
    PROVE  \A o \in Oids : Stored(o)' /\ rows'[o].ext # None =>
               Stored(o) /\ rows'[o].ext = rows[o].ext
<1>1. CASE SameRows
  BY <1>1 DEF SameRows, Stored
<1>2. ASSUME NEW p \in Oids, RowInserted(t, p)
      PROVE \A o \in Oids : Stored(o)' /\ rows'[o].ext # None =>
                Stored(o) /\ rows'[o].ext = rows[o].ext
  BY <1>2 DEF RowInserted, NewBot, Stored, Half, TypeOK
<1>3. QED
  BY <1>1, <1>2, StepRows

\* No step lets a row or a task reach an order the system placed.
LEMMA StepOrphans ==
    ASSUME Half, ExtKnown, OrphansUnreachable, NEW t \in Tasks, Step(t), StepOK(t)
    PROVE  ExtKnown' /\ OrphansUnreachable'
<1>1. ExtKnown'
  <2>1. \A o \in Oids : Stored(o) /\ rows[o].ext # None => rows[o].ext \in Orders
    BY DEF Half, TypeOK, Stored, Bot
  <2>2. QED
    BY <2>1, StepOwned DEF ExtKnown, StepOK, StoresOK, OrdersKept
<1>2. \A x \in placed : ~Owned(x)'
  <2> SUFFICES ASSUME NEW x \in placed PROVE ~Owned(x)'
    OBVIOUS
  <2>1. x # None /\ ~Owned(x)
    BY ConstantsOK DEF OrphansUnreachable, Half, TypeOK
  <2>2. QED
    BY <2>1, StepOwned DEF Owned
<1>3. placed \subseteq Orders /\ orders \in [Orders -> OrderStates]
  BY DEF Half, TypeOK
<1>4. CASE UNCHANGED <<orders, placed>>
  <2>1. placed' = placed /\ orders' = orders
    BY <1>4
  <2>2. \A x \in placed' : ~Owned(x)' /\ orders'[x] \in {"live", "finished"}
    BY <1>2, <2>1 DEF OrphansUnreachable
  <2>3. QED
    BY <1>1, <2>2 DEF OrphansUnreachable
<1>5. ASSUME UNCHANGED rows, NEW y \in Orders, OrderCreated(y)
      PROVE OrphansUnreachable'
  <2>1. y # None /\ ~Owned(y)
    BY <1>5, ConstantsOK DEF Owned, ExtKnown, OrderCreated
  <2>2. ~Owned(y)'
    BY <2>1, <1>5 DEF Owned, Stored
  <2>3. /\ placed' = placed \cup {y}
        /\ orders'[y] = "live"
        /\ \A x \in placed : orders'[x] \in {"live", "finished"}
    BY <1>3, <1>5 DEF OrderCreated, OrphansUnreachable
  <2>4. \A x \in placed' : ~Owned(x)' /\ orders'[x] \in {"live", "finished"}
    BY <1>2, <2>2, <2>3
  <2>5. QED
    BY <2>4 DEF OrphansUnreachable
<1>6. CASE UNCHANGED <<rows, placed>> /\ OrderCancelled
  <2>1. PICK y \in Orders : Owned(y) /\ orders' = [orders EXCEPT ![y] = "cancelled"]
    BY <1>6 DEF OrderCancelled
  <2>2. placed' = placed /\ \A x \in placed : orders'[x] \in {"live", "finished"}
    BY <1>3, <1>6, <2>1 DEF OrphansUnreachable
  <2>3. \A x \in placed' : ~Owned(x)' /\ orders'[x] \in {"live", "finished"}
    BY <1>2, <2>2
  <2>4. QED
    BY <1>1, <2>3 DEF OrphansUnreachable
<1>7. QED
  BY <1>1, <1>4, <1>5, <1>6, StepOrders

---------------------------------------------------------------------------
(* Who monitors a row *)

Covered(o) ==
    Monitored(rows[o].sym) \/ Unscheduled(rows[o].sym) \/ Scheduling(o)

\* Only the two callbacks change the scheduler's jobs.
LEMMA StepJobs ==
    ASSUME NEW t \in Tasks, Step(t)
    PROVE  \/ ScheduleMonitoring(t)
           \/ UnscheduleMonitoring(t)
           \/ UNCHANGED <<jobs, unscheduled>> /\ tasks[t].pc # "onlaunch"
BY DEF Step, FindBot, FindNothing, CancelAccepted, CancelHttpError, CancelAborted,
   Save, LoadVerdict, VerdictMissing, PlaceAccepted, PlaceRetried, PlaceFailed,
   PersistFlushed, PersistSwallowed, Classify, FetchFailed, UpdateMonitoring,
   Evaluate, NotifyPaused, Return

\* A row that was covered stays covered: the two callbacks touch the jobs of
\* their own symbol only, and leave a reason behind.
LEMMA CoveredKept ==
    ASSUME Half, NEW t \in Tasks, Step(t), StepOK(t), NEW o \in Oids, Covered(o),
           rows'[o].sym = rows[o].sym
    PROVE  Covered(o)'
<1> DEFINE s == rows[o].sym
<1>1. \A u \in Tasks \ {t} : tasks'[u] = tasks[u]
  BY DEF StepOK, Become, Half, TypeOK
<1>2. CASE UNCHANGED <<jobs, unscheduled>> /\ tasks[t].pc # "onlaunch"
  <2>1. CASE Scheduling(o)
    BY <1>1, <1>2, <2>1 DEF Covered, Scheduling
  <2>2. CASE Monitored(s) \/ Unscheduled(s)
    BY <1>2, <2>2 DEF Covered, Monitored, JobsOf, Unscheduled
  <2>3. QED
    BY <2>1, <2>2 DEF Covered
<1>3. CASE ScheduleMonitoring(t)
  <2>1. /\ jobs' = jobs \cup JobsOf(tasks[t].sym)
        /\ unscheduled' = unscheduled \ ({tasks[t].sym} \X BOOLEAN)
    BY <1>3 DEF ScheduleMonitoring
  <2>2. CASE s = tasks[t].sym
    BY <2>1, <2>2 DEF Covered, Monitored, JobsOf
  <2>3. CASE s # tasks[t].sym /\ Scheduling(o)
    BY <1>1, <2>3 DEF Covered, Scheduling
  <2>4. CASE s # tasks[t].sym /\ (Monitored(s) \/ Unscheduled(s))
    BY <2>1, <2>4 DEF Covered, Monitored, JobsOf, Unscheduled
  <2>5. QED
    BY <2>2, <2>3, <2>4 DEF Covered
<1>4. CASE UnscheduleMonitoring(t)
  <2>1. /\ jobs' = jobs \ JobsOf(tasks[t].sym)
        /\ unscheduled' = unscheduled \cup {<<tasks[t].sym, tasks[t].confirmed>>}
        /\ tasks[t].pc # "onlaunch" /\ tasks[t].confirmed \in BOOLEAN
    BY <1>4 DEF UnscheduleMonitoring, Half, TypeOK, Task
  <2>2. CASE s = tasks[t].sym \/ Unscheduled(s)
    BY <2>1, <2>2 DEF Covered, Unscheduled
  <2>3. CASE Scheduling(o)
    BY <1>1, <2>1, <2>3 DEF Covered, Scheduling
  <2>4. CASE s # tasks[t].sym /\ Monitored(s)
    BY <2>1, <2>4 DEF Covered, Monitored, JobsOf
  <2>5. QED
    BY <2>2, <2>3, <2>4 DEF Covered
<1>5. QED
  BY <1>2, <1>3, <1>4, StepJobs

\* A task's step keeps every open bot of the running process monitored.
LEMMA StepCoverage ==
    ASSUME Half, MonitoringCoverage, NEW t \in Tasks, Step(t), StepOK(t)
    PROVE  MonitoringCoverage'
<1>1. \A o \in OpenRows(rows) : o \in Oids /\ Covered(o)
  BY DEF MonitoringCoverage, StepOK, Covered, OpenRows
<1>2. SUFFICES ASSUME NEW o \in OpenRows(rows') PROVE Covered(o)'
  BY DEF MonitoringCoverage, Covered
<1>3. o \in Oids /\ rows'[o] # None /\ rows'[o].status \in OpenStatuses
  BY DEF OpenRows
<1>4. CASE SameRows
  <2>1. o \in OpenRows(rows) /\ rows'[o].sym = rows[o].sym
    BY <1>3, <1>4 DEF SameRows, OpenRows, Stored
  <2>2. QED
    BY <1>1, <2>1, CoveredKept
<1>5. ASSUME NEW p \in Oids, RowInserted(t, p) PROVE Covered(o)'
  <2>1. rows' = [rows EXCEPT ![p] = NewBot(tasks[t].sym, None)]
    BY <1>5 DEF RowInserted
  <2>2. CASE o = p
    <3>1. rows'[o].sym = tasks[t].sym
      BY <1>3, <2>1, <2>2 DEF NewBot, Half, TypeOK
    <3>2. QED
      BY <1>5, <2>2, <3>1 DEF RowInserted, Covered, Scheduling
  <2>3. CASE o # p
    <3>1. rows'[o] = rows[o]
      BY <1>3, <2>1, <2>3 DEF Half, TypeOK
    <3>2. o \in OpenRows(rows)
      BY <1>3, <3>1 DEF OpenRows
    <3>3. QED
      BY <1>1, <1>3, <3>1, <3>2, CoveredKept
  <2>4. QED
    BY <2>2, <2>3
<1>6. QED
  BY <1>4, <1>5, StepRows

---------------------------------------------------------------------------
(* Who watches a live order *)

Guarded(o) ==
    Monitored(rows[o].sym) \/ Scheduling(o) \/ <<rows[o].sym, FALSE>> \in unscheduled

\* The row a close holds is the only open one of its symbol, so it removes
\* the jobs of no live order but one whose cancellation nobody confirmed.
LEMMA CloseHoldsTheRow ==
    ASSUME Half, OneOpenPerSymbol, NEW t \in Tasks, UnscheduleMonitoring(t),
           NEW o \in OpenRows(rows), rows[o].sym = tasks[t].sym, LiveOrderOf(o)
    PROVE  tasks[t].confirmed = FALSE
<1>1. /\ TaskOK(tasks[t]) /\ tasks[t].pc = "onclose" /\ tasks[t].confirmed \in BOOLEAN
  BY DEF UnscheduleMonitoring, Half, TypeOK, Task
<1>2. /\ tasks[t].oid \in OpenRows(rows)
      /\ rows[tasks[t].oid].sym = tasks[t].sym
      /\ rows[tasks[t].oid].ext = tasks[t].bot.ext
  BY <1>1 DEF TaskOK, Holding, Lifecycle, OpenRows, Stored
<1>3. tasks[t].oid = o
  BY <1>2 DEF OneOpenPerSymbol, OneOpenRow
<1> QED
  BY <1>1, <1>2, <1>3 DEF TaskOK, LiveOrderOf

\* A row whose live order was guarded stays so.
LEMMA GuardedKept ==
    ASSUME Half, OneOpenPerSymbol, ExtKnown, NEW t \in Tasks, Step(t), StepOK(t),
           NEW o \in OpenRows(rows), LiveOrderOf(o) => Guarded(o),
           rows'[o].sym = rows[o].sym, rows'[o].ext = rows[o].ext,
           LiveOrderOf(o)'
    PROVE  Guarded(o)'
<1> DEFINE s == rows[o].sym
<1>1. \A u \in Tasks \ {t} : tasks'[u] = tasks[u]
  BY DEF StepOK, Become, Half, TypeOK
<1>2. LiveOrderOf(o)
  <2>1. o \in Oids /\ Stored(o) /\ rows[o].ext # None /\ rows[o].ext \in Orders
    BY DEF OpenRows, LiveOrderOf, Half, TypeOK, Stored, Bot
  <2>2. orders[rows[o].ext] # "absent" /\ orders[rows[o].ext] \in OrderStates
    BY <2>1 DEF ExtKnown, Half, TypeOK
  <2>3. orders[rows[o].ext] \notin {"finished", "cancelled"}
    BY <2>1 DEF StepOK, StoresOK, OrdersKept, LiveOrderOf
  <2> QED
    BY <2>1, <2>2, <2>3 DEF LiveOrderOf, OrderStates
<1>3. Guarded(o)
  BY <1>2
<1>4. CASE UNCHANGED <<jobs, unscheduled>> /\ tasks[t].pc # "onlaunch"
  <2>1. CASE Scheduling(o)
    BY <1>1, <1>4, <2>1 DEF Guarded, Scheduling
  <2>2. CASE Monitored(s) \/ <<s, FALSE>> \in unscheduled
    BY <1>4, <2>2 DEF Guarded, Monitored, JobsOf
  <2> QED
    BY <1>3, <2>1, <2>2 DEF Guarded
<1>5. CASE ScheduleMonitoring(t)
  <2>1. /\ jobs' = jobs \cup JobsOf(tasks[t].sym)
        /\ unscheduled' = unscheduled \ ({tasks[t].sym} \X BOOLEAN)
    BY <1>5 DEF ScheduleMonitoring
  <2>2. CASE s = tasks[t].sym
    BY <2>1, <2>2 DEF Guarded, Monitored, JobsOf
  <2>3. CASE s # tasks[t].sym /\ Scheduling(o)
    BY <1>1, <2>3 DEF Guarded, Scheduling
  <2>4. CASE s # tasks[t].sym /\ (Monitored(s) \/ <<s, FALSE>> \in unscheduled)
    BY <2>1, <2>4 DEF Guarded, Monitored, JobsOf
  <2> QED
    BY <1>3, <2>2, <2>3, <2>4 DEF Guarded
<1>6. CASE UnscheduleMonitoring(t)
  <2>1. /\ jobs' = jobs \ JobsOf(tasks[t].sym)
        /\ unscheduled' = unscheduled \cup {<<tasks[t].sym, tasks[t].confirmed>>}
        /\ tasks[t].pc # "onlaunch"
    BY <1>6 DEF UnscheduleMonitoring
  <2>2. CASE s = tasks[t].sym
    BY <1>2, <1>6, <2>1, <2>2, CloseHoldsTheRow DEF Guarded
  <2>3. CASE <<s, FALSE>> \in unscheduled
    BY <2>1, <2>3 DEF Guarded
  <2>4. CASE Scheduling(o)
    BY <1>1, <2>1, <2>4 DEF Guarded, Scheduling
  <2>5. CASE s # tasks[t].sym /\ Monitored(s)
    <3>1. JobsOf(s) \cap JobsOf(tasks[t].sym) = {}
      BY <2>5 DEF JobsOf
    <3>2. JobsOf(s) \subseteq jobs'
      BY <2>1, <2>5, <3>1 DEF Monitored
    <3> QED
      BY <3>2 DEF Guarded, Monitored, JobsOf
  <2> QED
    BY <1>3, <2>2, <2>3, <2>4, <2>5 DEF Guarded
<1> QED
  BY <1>4, <1>5, <1>6, StepJobs

\* A task's step keeps every live order of an open row guarded.
LEMMA StepLive ==
    ASSUME Half, OneOpenPerSymbol, ExtKnown, LiveOrdersWatched,
           NEW t \in Tasks, Step(t), StepOK(t)
    PROVE  LiveOrdersWatched'
<1>1. \A o \in OpenRows(rows) : o \in Oids /\ (LiveOrderOf(o) => Guarded(o))
  BY DEF LiveOrdersWatched, StepOK, Guarded, OpenRows
<1>2. SUFFICES ASSUME NEW o \in OpenRows(rows'), LiveOrderOf(o)' PROVE Guarded(o)'
  BY DEF LiveOrdersWatched, Guarded
<1>3. o \in Oids /\ rows'[o] # None /\ rows'[o].status \in OpenStatuses
  BY DEF OpenRows
<1>4. CASE SameRows
  <2>1. o \in OpenRows(rows) /\ rows'[o].sym = rows[o].sym /\ rows'[o].ext = rows[o].ext
    BY <1>3, <1>4 DEF SameRows, OpenRows, Stored
  <2> QED
    BY <1>1, <1>2, <2>1, GuardedKept
<1>5. ASSUME NEW p \in Oids, RowInserted(t, p) PROVE Guarded(o)'
  <2>1. rows' = [rows EXCEPT ![p] = NewBot(tasks[t].sym, None)]
    BY <1>5 DEF RowInserted
  <2>2. o # p
    BY <1>2, <1>3, <2>1 DEF LiveOrderOf, NewBot, Half, TypeOK
  <2>3. rows'[o] = rows[o]
    BY <1>3, <2>1, <2>2 DEF Half, TypeOK
  <2>4. o \in OpenRows(rows)
    BY <1>3, <2>3 DEF OpenRows
  <2> QED
    BY <1>1, <1>2, <2>3, <2>4, GuardedKept
<1> QED
  BY <1>4, <1>5, StepRows

---------------------------------------------------------------------------
(* IInv is inductive *)

\* The tables and the scheduler start empty.
LEMMA InitIInv == ASSUME Init PROVE IInv
<1>1. TypeOK
  BY IdleOK DEF Init, TypeOK
<1>2. \A t \in Tasks : TaskOK(tasks[t])
  BY IdleOK DEF Init
<1>3. QED
  BY <1>1, <1>2 DEF Init, IInv, ExtKnown, OneOpenPerSymbol, PausedFlagAgrees,
     OrphansUnreachable, MonitoringCoverage, LiveOrdersWatched

\* The whole invariant, under a task's step.
LEMMA StepIInv == ASSUME IInv, NEW t \in Tasks, Step(t) PROVE IInv'
<1>1. Half /\ StepOK(t)
  BY EveryStepOK DEF IInv, Half
<1>2. Half'
  BY <1>1, StepHalf DEF IInv
<1>3. OneOpenPerSymbol' /\ PausedFlagAgrees'
  BY <1>1, StepRows, SameRowsTable, RowInsertedTable DEF IInv
<1>4. ExtKnown' /\ OrphansUnreachable'
  BY <1>1, StepOrphans DEF IInv
<1>5. MonitoringCoverage'
  BY <1>1, StepCoverage DEF IInv
<1>6. LiveOrdersWatched'
  BY <1>1, StepLive DEF IInv
<1>7. QED
  BY <1>2, <1>3, <1>4, <1>5, <1>6 DEF IInv, Half

\* Under the start of a handler or job.
LEMMA StartHandlerIInv ==
    ASSUME IInv, NEW t \in Tasks, NEW op \in UserOps \cup JobKinds,
           NEW s \in Symbols, StartHandler(t, op, s)
    PROVE  IInv'
<1>1. Half'
  BY StartHandlerHalf DEF IInv, Half
<1>2. /\ UNCHANGED <<up, rows, jobs, orders, placed, unscheduled>>
      /\ tasks[t].pc = "idle"
      /\ \A u \in Tasks \ {t} : tasks'[u] = tasks[u]
  BY DEF StartHandler, Become, IInv, TypeOK
<1>3. \A o \in Oids : Scheduling(o) => Scheduling(o)'
  BY <1>2 DEF Scheduling
<1>4. MonitoringCoverage' /\ LiveOrdersWatched'
  BY <1>2, <1>3 DEF IInv, MonitoringCoverage, LiveOrdersWatched, LiveOrderOf, OpenRows,
     Monitored, Unscheduled
<1>5. ExtKnown' /\ OneOpenPerSymbol' /\ PausedFlagAgrees' /\ OrphansUnreachable'
  BY <1>2 DEF IInv, ExtKnown, OneOpenPerSymbol, PausedFlagAgrees, OrphansUnreachable,
     OneOpenRow, PausedAgrees, OpenRows, Owned, Stored
<1>6. QED
  BY <1>1, <1>4, <1>5 DEF IInv, Half

\* Under an order's end on the exchange.
LEMMA OrderFinishesIInv ==
    ASSUME IInv, NEW x \in Orders, OrderFinishes(x) PROVE IInv'
<1>1. Half' /\ OrdersKept
  BY OrderFinishesHalf DEF IInv, Half
<1>2. /\ orders' = [orders EXCEPT ![x] = "finished"]
      /\ UNCHANGED <<up, rows, jobs, tasks, placed, unscheduled>>
  BY DEF OrderFinishes
<1>3. ExtKnown'
  <2>1. \A o \in Oids : Stored(o) /\ rows[o].ext # None => rows[o].ext \in Orders
    BY DEF IInv, TypeOK, Stored, Bot
  <2>2. QED
    BY <1>1, <1>2, <2>1 DEF IInv, ExtKnown, OrdersKept, Stored
<1>4. OrphansUnreachable'
  BY <1>2 DEF IInv, TypeOK, OrphansUnreachable, Owned, Stored
<1>5. OneOpenPerSymbol' /\ PausedFlagAgrees' /\ MonitoringCoverage'
  BY <1>2 DEF IInv, OneOpenPerSymbol, PausedFlagAgrees, MonitoringCoverage,
     OneOpenRow, PausedAgrees, OpenRows, Monitored, Scheduling, Unscheduled
<1>6. LiveOrdersWatched'
  <2>1. \A o \in OpenRows(rows) : LiveOrderOf(o)' => LiveOrderOf(o)
    BY <1>2 DEF LiveOrderOf, IInv, TypeOK
  <2> QED
    BY <1>2, <2>1 DEF IInv, LiveOrdersWatched, OpenRows, Monitored, Scheduling
<1>7. QED
  BY <1>1, <1>3, <1>4, <1>5, <1>6 DEF IInv, Half

\* Under a crash.
LEMMA CrashIInv == ASSUME IInv, Crash PROVE IInv'
<1>1. Half'
  BY CrashHalf DEF IInv, Half
<1>2. up' = FALSE /\ UNCHANGED <<rows, orders, placed>>
  BY DEF Crash
<1>3. QED
  BY <1>1, <1>2 DEF IInv, Half, ExtKnown, OneOpenPerSymbol, PausedFlagAgrees,
     OrphansUnreachable, MonitoringCoverage, LiveOrdersWatched, OneOpenRow,
     PausedAgrees, OpenRows, Owned, Stored

\* Under a start of the process, whose recovery schedules every open bot.
LEMMA StartIInv == ASSUME IInv, Start PROVE IInv'
<1>1. Half'
  BY StartHalf DEF IInv, Half
<1>2. UNCHANGED <<rows, orders, placed>>
  BY DEF Start
<1>3. \A o \in OpenRows(rows') : Monitored(rows[o].sym)'
  BY <1>2 DEF Start, Monitored
<1>4. MonitoringCoverage' /\ LiveOrdersWatched'
  BY <1>2, <1>3 DEF MonitoringCoverage, LiveOrdersWatched
<1>5. QED
  BY <1>1, <1>2, <1>4 DEF IInv, Half, ExtKnown, OneOpenPerSymbol, PausedFlagAgrees,
     OrphansUnreachable, OneOpenRow, PausedAgrees, OpenRows, Owned, Stored

\* Under every step of the system.
LEMMA NextIInv == ASSUME IInv, [Next]_vars PROVE IInv'
<1>1. CASE \E t \in Tasks, op \in UserOps, s \in Symbols : StartHandler(t, op, s)
  BY <1>1, StartHandlerIInv
<1>2. CASE \E t \in Tasks, kind \in JobKinds, s \in Symbols : StartJob(t, kind, s)
  BY <1>2, StartHandlerIInv DEF StartJob
<1>3. CASE \E t \in Tasks : Step(t)
  BY <1>3, StepIInv
<1>4. CASE \E x \in Orders : OrderFinishes(x)
  BY <1>4, OrderFinishesIInv
<1>5. CASE Crash
  BY <1>5, CrashIInv
<1>6. CASE Start
  BY <1>6, StartIInv
<1>7. CASE UNCHANGED vars
  <2>1. UNCHANGED <<up, rows, jobs, orders, tasks, placed, unscheduled>>
    BY <1>7 DEF vars
  <2>2. MonitoringCoverage' /\ LiveOrdersWatched'
    <3>1. /\ OpenRows(rows)' = OpenRows(rows)
          /\ \A o \in Oids : /\ LiveOrderOf(o)' <=> LiveOrderOf(o)
                             /\ Scheduling(o)' <=> Scheduling(o)
                             /\ Monitored(rows[o].sym)' <=> Monitored(rows[o].sym)
                             /\ Unscheduled(rows[o].sym)' <=> Unscheduled(rows[o].sym)
      BY <2>1 DEF OpenRows, LiveOrderOf, Scheduling, Monitored, Unscheduled
    <3>2. OpenRows(rows) \subseteq Oids
      BY DEF OpenRows
    <3> QED
      BY <2>1, <3>1, <3>2 DEF IInv, MonitoringCoverage, LiveOrdersWatched
  <2>3. QED
    BY <2>1, <2>2 DEF IInv, TypeOK, TaskOK, ExtKnown, OneOpenPerSymbol,
       PausedFlagAgrees, OrphansUnreachable, OneOpenRow, PausedAgrees, OpenRows,
       Owned, Stored
<1>8. QED
  BY <1>1, <1>2, <1>3, <1>4, <1>5, <1>6, <1>7 DEF Next

\* Everything below rests on this: IInv holds in every reachable state.
THEOREM Inductive == Spec => []IInv
<1>1. Init => IInv
  BY InitIInv
<1>2. IInv /\ [Next]_vars => IInv'
  BY NextIInv
<1>3. QED
  BY <1>1, <1>2, PTL DEF Spec

---------------------------------------------------------------------------
(* The theorems *)

\* Every variable keeps its type, and nothing in memory outlives a crash.
THEOREM TypeCorrect == Spec => []TypeOK
BY Inductive, PTL DEF IInv

\* Two launch buttons pressed at once never leave a symbol with two running
\* or paused rows: the INSERT checks what the handler read before its awaits.
THEOREM OneOpen == Spec => []OneOpenPerSymbol
BY Inductive, PTL DEF IInv

\* The paused flag a health check writes back after its awaits is never out
\* of date.
THEOREM PausedFlag == Spec => []PausedFlagAgrees
BY Inductive, PTL DEF IInv

\* A running or paused row is monitored by both jobs, was unscheduled by a
\* close, or is about to be scheduled by the launch that stored it.
THEOREM Coverage == Spec => []MonitoringCoverage
BY Inductive, PTL DEF IInv

\* No row ever names an order the auto launch placed, so no operation of the
\* program monitors or cancels it.
THEOREM Orphans == Spec => []OrphansUnreachable
BY Inductive, PTL DEF IInv

\* The jobs of a row whose order is live are never removed on the strength of
\* a confirmed cancellation: the close's copy of the row, its answer from the
\* exchange and the jobs it removes speak of the same order.
THEOREM LiveOrders == Spec => []LiveOrdersWatched
BY Inductive, PTL DEF IInv

\* What a step does to an existing row.
LEMMA NextKeepsRows ==
    ASSUME IInv, [Next]_vars, NEW o \in Oids, Stored(o)
    PROVE  rows'[o] # None /\ Lifecycle(rows'[o]) = Lifecycle(rows[o])
<1>1. CASE UNCHANGED rows
  BY <1>1 DEF Stored, Lifecycle
<1>2. ASSUME NEW t \in Tasks, Step(t)
      PROVE  rows'[o] # None /\ Lifecycle(rows'[o]) = Lifecycle(rows[o])
  BY <1>2, EveryStepOK, ConstantsOK DEF IInv, StepOK, StoresOK, RowsKept
<1>3. QED
  BY <1>1, <1>2 DEF Next, vars, StartHandler, StartJob, OrderFinishes, Crash, Start

\* Pause, resume, close, auto-pause and health checks, in any interleaving,
\* leave the lifecycle columns of every stored row as they were inserted.
THEOREM RowsNeverChange == Spec => RowsFrozen
<1>1. IInv /\ [Next]_vars =>
        [\A o \in Oids : Stored(o) =>
            rows'[o] # None /\ Lifecycle(rows'[o]) = Lifecycle(rows[o])]_vars
  BY NextKeepsRows
<1>2. QED
  BY <1>1, Inductive, PTL DEF Spec, RowsFrozen

\* With the schema as migrated no launch ever adds a row: the lifecycle
\* columns of the whole table are those of the initial state.
THEOREM TableNeverChanges == ASSUME ClosedAtDefault PROVE Spec => TableFrozen
<1>1. ASSUME IInv, [Next]_vars, NEW o \in Oids, ~Stored(o) PROVE rows'[o] = None
  <2>1. CASE UNCHANGED rows
    BY <1>1, <2>1 DEF Stored
  <2>2. ASSUME NEW t \in Tasks, Step(t) PROVE rows'[o] = None
    <3>1. Half
      BY <1>1 DEF IInv, Half
    <3>2. \A p \in Oids : ~RowInserted(t, p)
      BY DEF RowInserted, InsertAllowed, NewBot, ClosedAtSet, OpenStatuses
    <3>3. SameRows
      BY <2>2, <3>1, <3>2, StepRows
    <3>4. QED
      BY <1>1, <3>3 DEF SameRows, Stored
  <2>3. QED
    BY <1>1, <2>1, <2>2 DEF Next, vars, StartHandler, StartJob, OrderFinishes, Crash, Start
<1>2. IInv /\ [Next]_vars =>
        [\A o \in Oids : IF Stored(o)
            THEN rows'[o] # None /\ Lifecycle(rows'[o]) = Lifecycle(rows[o])
            ELSE rows'[o] = None]_vars
  BY <1>1, NextKeepsRows
<1>3. QED
  BY <1>2, Inductive, PTL DEF Spec, TableFrozen

---------------------------------------------------------------------------
(* Every handler and job runs down *)

\* The rank of every await.
LEMMA StepsFromIs ==
    /\ StepsFrom("idle") = 0 /\ StepsFrom("ok") = 1 /\ StepsFrom("error") = 1
    /\ StepsFrom("notify") = 2 /\ StepsFrom("onclose") = 2
    /\ StepsFrom("onlaunch") = 2 /\ StepsFrom("update") = 2
    /\ StepsFrom("save") = 3 /\ StepsFrom("persist") = 3 /\ StepsFrom("fetch") = 3
    /\ StepsFrom("cancel") = 4 /\ StepsFrom("find") = 5 /\ StepsFrom("evaluate") = 6
    /\ StepsFrom("place") = 6 /\ StepsFrom("verdict") = 7
BY DEF StepsFrom, MaxAttempts

\* Where a step takes task i: to an await of lower rank, into the first POST
\* of a launch, or from one POST to the next.
Nearer(i, k) ==
    \/ k.pc \in Pcs \ {"place"} /\ StepsFrom(k.pc) < StepsLeft(i)
    \/ i.pc = "verdict" /\ k.pc = "place" /\ k.tries \in 0..(MaxAttempts - 1)
    \/ /\ i.pc = "place" /\ k.pc = "place"
       /\ k.tries = i.tries + 1 /\ k.tries \in 0..(MaxAttempts - 1)

LEMMA StepsLeftOf ==
    ASSUME NEW i \in Task
    PROVE  /\ i.pc # "place" => StepsLeft(i) = StepsFrom(i.pc)
           /\ i.pc = "place" => StepsLeft(i) \in 4..6 /\ StepsLeft(i) = 6 - i.tries
BY StepsFromIs DEF StepsLeft, Task, MaxAttempts

LEMMA NearerIsLess ==
    ASSUME NEW i \in Task, NEW k, Nearer(i, k)
    PROVE  StepsLeft(k) \in 0..(StepsLeft(i) - 1)
<1>1. StepsLeft(i) \in Nat
  <2>1. StepsFrom(i.pc) \in Nat
    BY StepsFromIs DEF Task, Pcs
  <2>2. QED
    BY <2>1, StepsLeftOf
<1>2. CASE k.pc \in Pcs \ {"place"} /\ StepsFrom(k.pc) < StepsLeft(i)
  <2>1. StepsLeft(k) = StepsFrom(k.pc)
    BY <1>2 DEF StepsLeft
  <2>2. StepsFrom(k.pc) \in Nat
    BY <1>2, StepsFromIs DEF Pcs
  <2>3. QED
    BY <1>1, <1>2, <2>1, <2>2
<1>3. CASE k.pc = "place" /\ k.tries \in 0..(MaxAttempts - 1)
           /\ (i.pc = "verdict" \/ (i.pc = "place" /\ k.tries = i.tries + 1))
  <2>1. StepsLeft(k) = 6 - k.tries
    BY <1>3, StepsFromIs DEF StepsLeft
  <2>2. i.pc = "verdict" => StepsLeft(i) = 7
    BY StepsLeftOf, StepsFromIs
  <2>3. i.pc = "place" => StepsLeft(i) = 6 - i.tries /\ i.tries \in 0..2
    BY StepsLeftOf DEF Task, MaxAttempts
  <2>4. QED
    BY <1>3, <2>1, <2>2, <2>3 DEF MaxAttempts
<1>4. QED
  BY <1>2, <1>3 DEF Nearer

\* Going on to an await of lower rank is a step nearer to the end.
LEMMA Onward ==
    ASSUME NEW i \in Task, NEW k, k.pc \in Pcs \ {"place"},
           i.pc # "place", StepsFrom(k.pc) < StepsFrom(i.pc)
    PROVE  Nearer(i, k)
BY StepsLeftOf DEF Nearer

LEMMA GotoNearer ==
    ASSUME TypeOK, NEW t \in Tasks, NEW pc \in Pcs \ {"place"}, Goto(t, pc),
           StepsFrom(pc) < StepsLeft(tasks[t])
    PROVE  \E k : tasks' = [tasks EXCEPT ![t] = k] /\ Nearer(tasks[t], k)
<1>1. PICK k : k = [tasks[t] EXCEPT !.pc = pc]
  OBVIOUS
<1>2. k.pc = pc /\ tasks' = [tasks EXCEPT ![t] = k]
  BY <1>1 DEF Goto, Become, TypeOK, Task
<1>3. QED
  BY <1>2 DEF Nearer

\* The find of a row goes on to its save, its cancellation or its check.
LEMMA FindNearer ==
    ASSUME TypeOK, NEW t \in Tasks, FindBot(t)
    PROVE  \E k : tasks' = [tasks EXCEPT ![t] = k] /\ Nearer(tasks[t], k)
<1>0. PICK i : i = tasks[t]
  OBVIOUS
<1>1. i \in Task /\ i.pc = "find"
  BY <1>0 DEF TypeOK, FindBot
<1>2. PICK o \in Oids, pc \in {"error", "cancel", "fetch", "save"} :
          Become(t, [i EXCEPT !.oid = o, !.bot = rows[o], !.pc = pc])
  BY <1>0 DEF FindBot, AfterFind, Matching
<1>3. PICK k : k = [i EXCEPT !.oid = o, !.bot = rows[o], !.pc = pc]
  OBVIOUS
<1>4. k.pc = pc /\ tasks' = [tasks EXCEPT ![t] = k]
  BY <1>1, <1>2, <1>3 DEF Task, Become
<1>5. Nearer(i, k)
  BY <1>1, <1>4, Onward, StepsFromIs DEF Pcs
<1>6. QED
  BY <1>0, <1>4, <1>5

\* A confirmed cancellation goes on to the save.
LEMMA CancelNearer ==
    ASSUME TypeOK, NEW t \in Tasks, CancelAccepted(t)
    PROVE  \E k : tasks' = [tasks EXCEPT ![t] = k] /\ Nearer(tasks[t], k)
<1>1. tasks[t] \in Task /\ tasks[t].pc = "cancel"
  BY DEF TypeOK, CancelAccepted
<1>2. PICK k : k = [tasks[t] EXCEPT !.pc = "save", !.confirmed = TRUE]
  OBVIOUS
<1>3. k.pc = "save" /\ tasks' = [tasks EXCEPT ![t] = k]
  BY <1>1, <1>2 DEF Task, CancelAccepted, Become
<1>4. Nearer(tasks[t], k)
  BY <1>1, <1>3, Onward, StepsFromIs DEF Pcs
<1>5. QED
  BY <1>3, <1>4

\* A launch goes on to its INSERT or to its POST, and each POST is the last
\* or counted.
LEMMA LaunchNearer ==
    ASSUME TypeOK, NEW t \in Tasks,
           LoadVerdict(t) \/ PlaceAccepted(t) \/ PlaceRetried(t) \/ PersistFlushed(t)
    PROVE  \E k : tasks' = [tasks EXCEPT ![t] = k] /\ Nearer(tasks[t], k)
<1>0. PICK i : i = tasks[t]
  OBVIOUS
<1>1. i \in Task
  BY <1>0 DEF TypeOK
<1>2. CASE LoadVerdict(t) /\ i.op = "manual"
  <2>1. PICK k : k = [i EXCEPT !.bot = NewBot(i.sym, None), !.pc = "persist"]
    OBVIOUS
  <2>2. i.pc = "verdict" /\ k.pc = "persist" /\ tasks' = [tasks EXCEPT ![t] = k]
    BY <1>0, <1>1, <1>2, <2>1 DEF LoadVerdict, Task, Become
  <2>3. Nearer(i, k)
    BY <1>1, <2>2, Onward, StepsFromIs DEF Pcs
  <2>4. QED
    BY <1>0, <2>2, <2>3
<1>3. CASE LoadVerdict(t) /\ i.op # "manual"
  <2>1. PICK k : k = [i EXCEPT !.pc = "place"]
    OBVIOUS
  <2>2. /\ i.pc = "verdict" /\ k.pc = "place" /\ k.tries = i.tries
        /\ tasks' = [tasks EXCEPT ![t] = k]
    BY <1>0, <1>1, <1>3, <2>1 DEF LoadVerdict, Task, Become
  <2>3. Nearer(i, k)
    BY <1>1, <2>2 DEF Nearer, Task
  <2>4. QED
    BY <1>0, <2>2, <2>3
<1>4. CASE PlaceAccepted(t)
  <2>1. PICK x \in Orders, pc \in {"error", "persist"} :
            Become(t, [i EXCEPT !.bot = NewBot(i.sym, ReturnedExternalId(x)), !.pc = pc])
    BY <1>0, <1>4 DEF PlaceAccepted
  <2>2. PICK k : k = [i EXCEPT !.bot = NewBot(i.sym, ReturnedExternalId(x)), !.pc = pc]
    OBVIOUS
  <2>3. i.pc = "place" /\ k.pc = pc /\ tasks' = [tasks EXCEPT ![t] = k]
    BY <1>0, <1>1, <1>4, <2>1, <2>2 DEF PlaceAccepted, Task, Become
  <2>4. Nearer(i, k)
    BY <1>1, <2>3, StepsLeftOf, StepsFromIs DEF Nearer, Pcs
  <2>5. QED
    BY <1>0, <2>3, <2>4
<1>5. CASE PlaceRetried(t)
  <2>1. PICK k : k = [i EXCEPT !.tries = @ + 1]
    OBVIOUS
  <2>2. /\ i.pc = "place" /\ i.tries < MaxAttempts - 1
        /\ k.pc = "place" /\ k.tries = i.tries + 1
        /\ tasks' = [tasks EXCEPT ![t] = k]
    BY <1>0, <1>1, <1>5, <2>1 DEF PlaceRetried, Task, Become
  <2>3. Nearer(i, k)
    BY <1>1, <2>2 DEF Nearer, Task, MaxAttempts
  <2>4. QED
    BY <1>0, <2>2, <2>3
<1>6. CASE PersistFlushed(t)
  <2>1. PICK o \in Oids : Become(t, [i EXCEPT !.oid = o, !.pc = "onlaunch"])
    BY <1>0, <1>6 DEF PersistFlushed
  <2>2. PICK k : k = [i EXCEPT !.oid = o, !.pc = "onlaunch"]
    OBVIOUS
  <2>3. i.pc = "persist" /\ k.pc = "onlaunch" /\ tasks' = [tasks EXCEPT ![t] = k]
    BY <1>0, <1>1, <1>6, <2>1, <2>2 DEF PersistFlushed, Task, Become
  <2>4. Nearer(i, k)
    BY <1>1, <2>3, Onward, StepsFromIs DEF Pcs
  <2>5. QED
    BY <1>0, <2>3, <2>4
<1>7. QED
  BY <1>2, <1>3, <1>4, <1>5, <1>6

\* A check classified its bot, or a task ended.
LEMMA JobNearer ==
    ASSUME TypeOK, NEW t \in Tasks, Classify(t) \/ Return(t)
    PROVE  \E k : tasks' = [tasks EXCEPT ![t] = k] /\ Nearer(tasks[t], k)
<1>0. PICK i : i = tasks[t]
  OBVIOUS
<1>1. i \in Task
  BY <1>0 DEF TypeOK
<1>2. CASE Classify(t)
  <2>1. PICK h \in HealthStatuses :
            Become(t, [i EXCEPT !.bot = [@ EXCEPT !.health = h], !.pc = "update"])
    BY <1>0, <1>2 DEF Classify
  <2>2. PICK k : k = [i EXCEPT !.bot = [@ EXCEPT !.health = h], !.pc = "update"]
    OBVIOUS
  <2>3. i.pc = "fetch" /\ k.pc = "update" /\ tasks' = [tasks EXCEPT ![t] = k]
    BY <1>0, <1>1, <1>2, <2>1, <2>2 DEF Classify, Task, Become
  <2>4. Nearer(i, k)
    BY <1>1, <2>3, Onward, StepsFromIs DEF Pcs
  <2>5. QED
    BY <1>0, <2>3, <2>4
<1>3. CASE Return(t)
  <2>1. /\ i.pc \in {"ok", "error"} /\ Idle.pc = "idle"
        /\ tasks' = [tasks EXCEPT ![t] = Idle]
    BY <1>0, <1>3 DEF Return, Become, Idle
  <2>2. Nearer(i, Idle)
    BY <1>1, <2>1, Onward, StepsFromIs DEF Pcs
  <2>3. QED
    BY <1>0, <2>1, <2>2
<1>4. QED
  BY <1>2, <1>3

\* All other steps only move the task on.
LEMMA StepNearer ==
    ASSUME TypeOK, NEW t \in Tasks, Step(t)
    PROVE  \E k : tasks' = [tasks EXCEPT ![t] = k] /\ Nearer(tasks[t], k)
<1>1. tasks[t] \in Task
  BY DEF TypeOK
<1>2. CASE FindNothing(t) \/ CancelHttpError(t) \/ CancelAborted(t) \/ VerdictMissing(t)
           \/ PlaceFailed(t) \/ FetchFailed(t)
  <2>1. tasks[t].pc \in {"find", "evaluate", "cancel", "verdict", "place", "fetch"}
        /\ (Goto(t, "error") \/ (tasks[t].pc = "cancel" /\ Goto(t, "save")))
    BY <1>2 DEF FindNothing, CancelHttpError, CancelAborted, VerdictMissing, PlaceFailed,
       FetchFailed
  <2>2. StepsFrom("error") < StepsLeft(tasks[t])
        /\ (tasks[t].pc = "cancel" => StepsFrom("save") < StepsLeft(tasks[t]))
    BY <1>1, <2>1, StepsLeftOf, StepsFromIs
  <2>3. QED
    BY <2>1, <2>2, GotoNearer DEF Pcs
<1>3. CASE Save(t) \/ UnscheduleMonitoring(t) \/ PersistSwallowed(t)
           \/ ScheduleMonitoring(t) \/ UpdateMonitoring(t) \/ NotifyPaused(t)
  <2>1. PICK pc \in {"onclose", "notify", "onlaunch", "ok", "error"} :
            /\ Goto(t, pc)
            /\ \/ tasks[t].pc \in {"save", "persist"}
               \/ /\ pc \in {"ok", "error"}
                  /\ tasks[t].pc \in {"onclose", "onlaunch", "update", "notify"}
    BY <1>3 DEF Save, AfterSave, UnscheduleMonitoring, PersistSwallowed,
       ScheduleMonitoring, UpdateMonitoring, NotifyPaused
  <2>2. StepsFrom(pc) < StepsLeft(tasks[t])
    BY <1>1, <2>1, StepsLeftOf, StepsFromIs
  <2>3. QED
    BY <2>1, <2>2, GotoNearer DEF Pcs
<1>4. CASE Evaluate(t)
  <2>1. PICK pc \in {"find", "ok"} : Goto(t, pc) /\ tasks[t].pc = "evaluate"
    BY <1>4 DEF Evaluate
  <2>2. StepsFrom(pc) < StepsLeft(tasks[t])
    BY <1>1, <2>1, StepsLeftOf, StepsFromIs
  <2>3. QED
    BY <2>1, <2>2, GotoNearer DEF Pcs
<1>5. QED
  BY <1>2, <1>3, <1>4, FindNearer, CancelNearer, LaunchNearer, JobNearer DEF Step

\* No handler or job comes back to an await it has left, except to repeat a
\* POST, and that MaxAttempts - 1 times: only an await that never answers
\* keeps a task alive.
THEOREM TasksEnd == Spec => TasksRunDown
<1> DEFINE Down == \A t \in Tasks : tasks[t].pc # "idle" /\ tasks'[t] # tasks[t] =>
                       StepsLeft(tasks'[t]) \in 0..(StepsLeft(tasks[t]) - 1)
<1>1. ASSUME IInv, [Next]_vars PROVE [Down]_vars
  <2>1. TypeOK /\ \A t \in Tasks : tasks[t] \in Task
    BY <1>1 DEF IInv, TypeOK
  <2>2. CASE Crash
    <3>1. ASSUME NEW t \in Tasks, tasks[t].pc # "idle" PROVE Nearer(tasks[t], tasks'[t])
      <4>1. tasks'[t].pc = "idle" /\ tasks[t].pc \in Pcs \ {"idle"}
        BY <2>1, <2>2, <3>1 DEF Crash, Idle, Task
      <4>2. StepsLeft(tasks[t]) > 0
        BY <2>1, <4>1, StepsLeftOf, StepsFromIs DEF Pcs
      <4>3. QED
        BY <4>1, <4>2, StepsFromIs DEF Nearer, Pcs
    <3>2. QED
      BY <2>1, <3>1, NearerIsLess
  <2>3. ASSUME NEW u \in Tasks, Step(u) PROVE Down
    <3>1. PICK k : tasks' = [tasks EXCEPT ![u] = k] /\ Nearer(tasks[u], k)
      BY <2>1, <2>3, StepNearer
    <3>2. \A t \in Tasks : tasks'[t] = IF t = u THEN k ELSE tasks[t]
      BY <2>1, <3>1 DEF TypeOK
    <3>3. QED
      BY <2>1, <3>1, <3>2, NearerIsLess
  <2>4. ASSUME NEW u \in Tasks, NEW op, NEW s, StartHandler(u, op, s) PROVE Down
    <3>1. \A t \in Tasks : t # u => tasks'[t] = tasks[t]
      BY <2>1, <2>4 DEF StartHandler, Become, TypeOK
    <3>2. tasks[u].pc = "idle"
      BY <2>4 DEF StartHandler
    <3>3. QED
      BY <3>1, <3>2
  <2>5. CASE \/ \E x \in Orders : OrderFinishes(x)
             \/ Start
             \/ UNCHANGED vars
    BY <2>5 DEF OrderFinishes, Start, vars
  <2>6. QED
    BY <1>1, <2>2, <2>3, <2>4, <2>5 DEF Next, StartJob
<1>2. QED
  BY <1>1, Inductive, PTL DEF Spec, TasksRunDown

===========================================================================
