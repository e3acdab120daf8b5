--------------------------- MODULE BotLifecycle ---------------------------
(***************************************************************************)
(* The life of a grid bot between three stores that no transaction joins:  *)
(* the grid_launches table (rows), the Pionex exchange (orders) and the    *)
(* in-memory APScheduler job store (jobs).                                 *)
(*                                                                         *)
(* One asyncio loop runs every Telegram handler and every per-bot job, so  *)
(* code runs atomically from one await to the next.  A running handler or  *)
(* job is a task; its pc names the await it is suspended at, and each      *)
(* action below runs one task up to its next await.                        *)
(*                                                                         *)
(* Every database block is `async with provider() as repo`.  The provider  *)
(* rolls back on an exception and does not re-raise, so a failing block is *)
(* left silently and the handler goes on.                                  *)
(***************************************************************************)
EXTENDS Naturals

CONSTANTS
    Symbols,          \* trading pairs
    Oids,             \* primary keys of grid_launches
    Orders,           \* order ids the exchange can hand out
    Tasks,            \* slots for concurrently running handlers and jobs
    None,             \* Python's None
    ClosedAtDefault,  \* TRUE: closed_at has server_default now(), as migrated
    AutoPauseOnRed    \* auto_adjust_enabled and auto_pause_on_red

VARIABLES
    up,           \* the process is running and has recovered its jobs
    rows,         \* grid_launches, by primary key
    jobs,         \* scheduled per-bot jobs, pairs <<kind, symbol>>
    orders,       \* the exchange's view of each order
    tasks,        \* the running handlers and jobs
    placed,       \* history: orders placed by the auto-launch handler
    unscheduled   \* history: symbols whose jobs a close removed since start, and
                  \* whether the exchange had confirmed its cancellation

vars == <<up, rows, jobs, orders, tasks, placed, unscheduled>>

MaxAttempts == 3
OpenStatuses == {"running", "paused"}
Statuses == OpenStatuses \cup {"closed"}
HealthStatuses == {"GREEN", "YELLOW", "RED"}
OrderStates == {"absent", "live", "finished", "cancelled"}
JobKinds == {"hc", "aa"}
UserOps == {"pause", "resume", "close", "manual", "api"}
Pcs == {"idle", "find", "cancel", "save", "onclose", "verdict", "place",
        "persist", "onlaunch", "fetch", "update", "evaluate", "notify",
        "ok", "error"}

Bot == [sym : Symbols, status : Statuses, paused : BOOLEAN,
        ext : Orders \cup {None}, health : HealthStatuses]

Task == [op : UserOps \cup JobKinds \cup {None}, sym : Symbols \cup {None},
         pc : Pcs, oid : Oids \cup {None}, bot : Bot \cup {None},
         tries : 0..(MaxAttempts - 1), confirmed : BOOLEAN]

Idle == [op |-> None, sym |-> None, pc |-> "idle", oid |-> None, bot |-> None,
         tries |-> 0, confirmed |-> FALSE]

ASSUME ConstantsOK ==
    /\ None \notin Symbols \cup Oids \cup Orders \cup UserOps \cup JobKinds
    /\ None \notin Bot
    /\ ClosedAtDefault \in BOOLEAN
    /\ AutoPauseOnRed \in BOOLEAN

---------------------------------------------------------------------------
(* The table *)

Stored(o) == rows[o] # None
OpenRows(table) == {o \in Oids : table[o] # None /\ table[o].status \in OpenStatuses}
Matching(s, statuses) ==
    {o \in Oids : Stored(o) /\ rows[o].sym = s /\ rows[o].status \in statuses}

\* closed_at of an inserted row: the entity's value, or the column default
\* when the entity has none.
ClosedAtSet(b) == b.status = "closed" \/ ClosedAtDefault

\* Mutants of InsertAllowed: a save that updates an existing row, and a
\* schema without the unique index.
UpsertAllowed(o, b) ==
    /\ (b.status \in OpenStatuses) = ~ClosedAtSet(b)
    /\ b.status \in OpenStatuses => Matching(b.sym, OpenStatuses) \subseteq {o}

InsertUnindexed(o, b) ==
    ~Stored(o) /\ (b.status \in OpenStatuses) = ~ClosedAtSet(b)

\* What PostgreSQL demands of an INSERT: a new primary key, the check that
\* status and closed_at agree, and the partial unique index on open rows.
InsertAllowed(o, b) ==
    /\ ~Stored(o)
    /\ (b.status \in OpenStatuses) = ~ClosedAtSet(b)
    /\ b.status \in OpenStatuses => Matching(b.sym, OpenStatuses) = {}

\* repo.add inside the provider: always an INSERT; any failure is swallowed.
Add(o, b) ==
    \/ InsertAllowed(o, b) /\ rows' = [rows EXCEPT ![o] = b]
    \/ UNCHANGED rows

OneOpenRow(table) ==
    \A o, p \in OpenRows(table) : table[o].sym = table[p].sym => o = p

\* The code only ever writes paused_by_monitor together with the status.
PausedAgrees(table) ==
    \A o \in OpenRows(table) : table[o].paused => table[o].status = "paused"

---------------------------------------------------------------------------
(* Tasks *)

Become(t, task) == tasks' = [tasks EXCEPT ![t] = task]
Goto(t, pc) == Become(t, [tasks[t] EXCEPT !.pc = pc])
Running(op, s) == \E t \in Tasks : tasks[t].op = op /\ tasks[t].sym = s

JobsOf(s) == {<<kind, s>> : kind \in JobKinds}
Monitored(s) == JobsOf(s) \subseteq jobs

FirstPc(op) == IF op \in {"manual", "api"} THEN "verdict"
               ELSE IF op = "aa" THEN "evaluate" ELSE "find"

\* A Telegram command or button press; aiogram runs each as a task of its own.
StartHandler(t, op, s) ==
    /\ up
    /\ tasks[t].pc = "idle"
    /\ Become(t, [Idle EXCEPT !.op = op, !.sym = s, !.pc = FirstPc(op)])
    /\ UNCHANGED <<up, rows, jobs, orders, placed, unscheduled>>

\* An interval trigger fires; APScheduler never runs two instances of a job.
StartJob(t, kind, s) ==
    /\ <<kind, s>> \in jobs
    /\ ~Running(kind, s)
    /\ StartHandler(t, kind, s)

---------------------------------------------------------------------------
(* Pause, resume, close and the reads of the jobs *)

FindStatuses(op) ==
    CASE op \in {"pause", "aa"} -> {"running"}
      [] op = "resume" -> {"paused"}
      [] OTHER -> OpenStatuses

\* What the row that was read leads to: an id-less bot can be neither
\* closed nor checked.
AfterFind(op, b) ==
    CASE op = "close" -> IF b.ext = None THEN "error" ELSE "cancel"
      [] op = "hc" -> IF b.ext = None THEN "error" ELSE "fetch"
      [] OTHER -> "save"

FindBot(t) ==
    LET task == tasks[t] IN
    /\ task.pc = "find"
    /\ \E o \in Matching(task.sym, FindStatuses(task.op)) :
          Become(t, [task EXCEPT !.oid = o, !.bot = rows[o],
                                 !.pc = AfterFind(task.op, rows[o])])
    /\ UNCHANGED <<up, rows, jobs, orders, placed, unscheduled>>

\* No such row, or the read failed and the failure was swallowed.
FindNothing(t) ==
    /\ tasks[t].pc \in {"find", "evaluate"}
    /\ Goto(t, "error")
    /\ UNCHANGED <<up, rows, jobs, orders, placed, unscheduled>>

\* The order may have been cancelled although the answer was an error.
MayCancel(x) ==
    \/ orders[x] = "live" /\ orders' = [orders EXCEPT ![x] = "cancelled"]
    \/ UNCHANGED orders

\* Mutant of CancelAccepted: the result flag of the answer is not looked at.
CancelUnchecked(t) ==
    /\ tasks[t].pc = "cancel"
    /\ MayCancel(tasks[t].bot.ext)
    /\ Become(t, [tasks[t] EXCEPT !.pc = "save", !.confirmed = TRUE])
    /\ UNCHANGED <<up, rows, jobs, placed, unscheduled>>

\* Pionex acknowledged the cancellation.
CancelAccepted(t) ==
    LET x == tasks[t].bot.ext IN
    /\ tasks[t].pc = "cancel"
    /\ orders[x] = "live"
    /\ orders' = [orders EXCEPT ![x] = "cancelled"]
    /\ Become(t, [tasks[t] EXCEPT !.pc = "save", !.confirmed = TRUE])
    /\ UNCHANGED <<up, rows, jobs, placed, unscheduled>>

\* An HttpRequestError, after the retries: logged, and the close goes on.
CancelHttpError(t) ==
    /\ tasks[t].pc = "cancel"
    /\ MayCancel(tasks[t].bot.ext)
    /\ Goto(t, "save")
    /\ UNCHANGED <<up, rows, jobs, placed, unscheduled>>

\* Any other exception (a timeout, a lost connection) ends the handler.
CancelAborted(t) ==
    /\ tasks[t].pc = "cancel"
    /\ MayCancel(tasks[t].bot.ext)
    /\ Goto(t, "error")
    /\ UNCHANGED <<up, rows, jobs, placed, unscheduled>>

\* The entity as the handler changed it before saving.
Changed(op, b) ==
    CASE op \in {"pause", "aa"} -> [b EXCEPT !.status = "paused", !.paused = TRUE]
      [] op = "resume" -> [b EXCEPT !.status = "running", !.paused = FALSE]
      [] OTHER -> [b EXCEPT !.status = "closed"]

AfterSave(op) ==
    CASE op = "close" -> "onclose" [] op = "aa" -> "notify" [] OTHER -> "ok"

Save(t) ==
    LET task == tasks[t] IN
    /\ task.pc = "save"
    /\ Add(task.oid, Changed(task.op, task.bot))
    /\ Goto(t, AfterSave(task.op))
    /\ UNCHANGED <<up, jobs, orders, placed, unscheduled>>

\* The on_close callback: removes both jobs of the symbol, then replies.
UnscheduleMonitoring(t) ==
    LET s == tasks[t].sym IN
    /\ tasks[t].pc = "onclose"
    /\ jobs' = jobs \ JobsOf(s)
    /\ unscheduled' = unscheduled \cup {<<s, tasks[t].confirmed>>}
    /\ Goto(t, "ok")
    /\ UNCHANGED <<up, rows, orders, placed>>

---------------------------------------------------------------------------
(* Launch *)

NewBot(s, ext) ==
    [sym |-> s, status |-> "running", paused |-> FALSE, ext |-> ext,
     health |-> "GREEN"]

\* The verdict is read from decision_logs; a manual launch builds the bot
\* from it, an auto launch asks the exchange.
LoadVerdict(t) ==
    LET task == tasks[t] IN
    /\ task.pc = "verdict"
    /\ Become(t, IF task.op = "manual"
                 THEN [task EXCEPT !.bot = NewBot(task.sym, None), !.pc = "persist"]
                 ELSE [task EXCEPT !.pc = "place"])
    /\ UNCHANGED <<up, rows, jobs, orders, placed, unscheduled>>

\* The verdict is gone or its read failed.
VerdictMissing(t) ==
    /\ tasks[t].pc = "verdict"
    /\ Goto(t, "error")
    /\ UNCHANGED <<up, rows, jobs, orders, placed, unscheduled>>

\* The exchange creates the order of a POST.
OrderCreated(x) ==
    /\ orders[x] = "absent"
    /\ orders' = [orders EXCEPT ![x] = "live"]
    /\ placed' = placed \cup {x}

MayCreateOrder ==
    \/ \E x \in Orders : OrderCreated(x)
    \/ UNCHANGED <<orders, placed>>

\* Mutant of ReturnedExternalId: the id of the response is kept.
ResponseId(x) == x

\* external_id of the Bot that place_grid builds from the response to the
\* creation of order x: the field is never filled in.
ReturnedExternalId(x) == None

\* A good response; the service then insists on an external id.
PlaceAccepted(t) ==
    /\ tasks[t].pc = "place"
    /\ \E x \in Orders :
          /\ OrderCreated(x)
          /\ Become(t, [tasks[t] EXCEPT
                !.bot = NewBot(tasks[t].sym, ReturnedExternalId(x)),
                !.pc = IF ReturnedExternalId(x) = None THEN "error" ELSE "persist"])
    /\ UNCHANGED <<up, rows, jobs, unscheduled>>

\* Mutant of PlaceRetried: no stop condition.
PlaceRetriedForEver(t) ==
    /\ tasks[t].pc = "place"
    /\ MayCreateOrder
    /\ Become(t, [tasks[t] EXCEPT !.tries = (@ + 1) % MaxAttempts])
    /\ UNCHANGED <<up, rows, jobs, unscheduled>>

\* A 5xx or a 429: tenacity repeats the POST, at most MaxAttempts in all.
PlaceRetried(t) ==
    /\ tasks[t].pc = "place"
    /\ tasks[t].tries < MaxAttempts - 1
    /\ MayCreateOrder
    /\ Become(t, [tasks[t] EXCEPT !.tries = @ + 1])
    /\ UNCHANGED <<up, rows, jobs, unscheduled>>

\* Another error, or the last attempt failed.
PlaceFailed(t) ==
    /\ tasks[t].pc = "place"
    /\ MayCreateOrder
    /\ Goto(t, "error")
    /\ UNCHANGED <<up, rows, jobs, unscheduled>>

\* persist_grid flushed the INSERT and returns its entity.  The commit that
\* follows may still fail: swallowed too.
PersistFlushed(t) ==
    LET task == tasks[t] IN
    /\ task.pc = "persist"
    /\ \E o \in Oids :
          /\ InsertAllowed(o, task.bot)
          /\ Add(o, task.bot)
          /\ Become(t, [task EXCEPT !.oid = o, !.pc = "onlaunch"])
    /\ UNCHANGED <<up, jobs, orders, placed, unscheduled>>

\* The INSERT failed: persist_grid returns None.
PersistSwallowed(t) ==
    /\ tasks[t].pc = "persist"
    /\ Goto(t, "onlaunch")
    /\ UNCHANGED <<up, rows, jobs, orders, placed, unscheduled>>

\* Mutant of ScheduleMonitoring: the callback was never wired.
ScheduleNothing(t) ==
    /\ tasks[t].pc = "onlaunch"
    /\ Goto(t, IF tasks[t].oid = None THEN "error" ELSE "ok")
    /\ UNCHANGED <<up, rows, jobs, orders, placed, unscheduled>>

\* The on_launch callback runs whether or not a row was stored; the handler
\* then reads attributes of the stored bot, which raises when it is None.
ScheduleMonitoring(t) ==
    LET task == tasks[t] IN
    /\ task.pc = "onlaunch"
    /\ jobs' = jobs \cup JobsOf(task.sym)
    /\ unscheduled' = unscheduled \ ({task.sym} \X BOOLEAN)
    /\ Goto(t, IF task.oid = None THEN "error" ELSE "ok")
    /\ UNCHANGED <<up, rows, orders, placed>>

---------------------------------------------------------------------------
(* The per-bot jobs *)

\* Order, candles and funding rate arrived and were classified as h.
Classify(t) ==
    /\ tasks[t].pc = "fetch"
    /\ \E h \in HealthStatuses :
          Become(t, [tasks[t] EXCEPT !.bot = [@ EXCEPT !.health = h], !.pc = "update"])
    /\ UNCHANGED <<up, rows, jobs, orders, placed, unscheduled>>

\* One of them failed: the check is logged as an API error.
FetchFailed(t) ==
    /\ tasks[t].pc = "fetch"
    /\ Goto(t, "error")
    /\ UNCHANGED <<up, rows, jobs, orders, placed, unscheduled>>

\* update_monitoring_fields writes the health found and, from the entity read
\* before the awaits, paused_by_monitor; a failed write is swallowed.
UpdateMonitoring(t) ==
    LET task == tasks[t] IN
    /\ task.pc = "update"
    /\ \/ rows' = [rows EXCEPT ![task.oid] =
              [@ EXCEPT !.health = task.bot.health, !.paused = task.bot.paused]]
       \/ UNCHANGED rows
    /\ Goto(t, "ok")
    /\ UNCHANGED <<up, jobs, orders, placed, unscheduled>>

\* evaluate_one reads some row of the symbol, whatever its status, and
\* evaluate_and_act decides on that copy.
Evaluate(t) ==
    LET task == tasks[t] IN
    /\ task.pc = "evaluate"
    /\ \E o \in Matching(task.sym, Statuses) :
          LET pause == AutoPauseOnRed /\ ~rows[o].paused /\ rows[o].health = "RED"
          IN Goto(t, IF pause THEN "find" ELSE "ok")
    /\ UNCHANGED <<up, rows, jobs, orders, placed, unscheduled>>

\* The "auto-paused" notification, about the copy Evaluate decided on.
NotifyPaused(t) ==
    /\ tasks[t].pc = "notify"
    /\ Goto(t, "ok")
    /\ UNCHANGED <<up, rows, jobs, orders, placed, unscheduled>>

\* The reply is sent, or the job's result logged; the slot is free again.
Return(t) ==
    /\ tasks[t].pc \in {"ok", "error"}
    /\ Become(t, Idle)
    /\ UNCHANGED <<up, rows, jobs, orders, placed, unscheduled>>

---------------------------------------------------------------------------
(* The environment *)

\* A grid stops by itself: stop loss, take profit, liquidation, or by hand.
OrderFinishes(x) ==
    /\ orders[x] = "live"
    /\ orders' = [orders EXCEPT ![x] = "finished"]
    /\ UNCHANGED <<up, rows, jobs, tasks, placed, unscheduled>>

\* Mutant of Crash: the job store survives.
CrashKeepingJobs ==
    /\ up
    /\ up' = FALSE
    /\ tasks' = [t \in Tasks |-> Idle]
    /\ unscheduled' = {}
    /\ UNCHANGED <<rows, jobs, orders, placed>>

\* The process ends, whatever it was doing.
Crash ==
    /\ up
    /\ up' = FALSE
    /\ jobs' = {}
    /\ tasks' = [t \in Tasks |-> Idle]
    /\ unscheduled' = {}
    /\ UNCHANGED <<rows, orders, placed>>

\* Mutant of Start: only running rows are recovered.
StartRunningOnly ==
    /\ ~up
    /\ up' = TRUE
    /\ jobs' = UNION {JobsOf(rows[o].sym) :
                        o \in {p \in OpenRows(rows) : rows[p].status = "running"}}
    /\ UNCHANGED <<rows, orders, tasks, placed, unscheduled>>

\* main: wire the callbacks, start the scheduler, schedule the jobs of every
\* running or paused row, then poll Telegram.
Start ==
    /\ ~up
    /\ up' = TRUE
    /\ jobs' = UNION {JobsOf(rows[o].sym) : o \in OpenRows(rows)}
    /\ UNCHANGED <<rows, orders, tasks, placed, unscheduled>>

---------------------------------------------------------------------------

\* The table and the orders an earlier run (or an earlier release) left: any
\* content the schema admits whose external ids name orders that exist.
Init ==
    /\ up = FALSE
    /\ rows \in [Oids -> Bot \cup {None}]
    /\ OneOpenRow(rows)
    /\ PausedAgrees(rows)
    /\ orders \in [Orders -> OrderStates]
    /\ \A o \in Oids : Stored(o) /\ rows[o].ext # None => orders[rows[o].ext] # "absent"
    /\ jobs = {}
    /\ tasks = [t \in Tasks |-> Idle]
    /\ placed = {}
    /\ unscheduled = {}

Step(t) ==
    \/ FindBot(t) \/ FindNothing(t)
    \/ CancelAccepted(t) \/ CancelHttpError(t) \/ CancelAborted(t)
    \/ Save(t) \/ UnscheduleMonitoring(t)
    \/ LoadVerdict(t) \/ VerdictMissing(t)
    \/ PlaceAccepted(t) \/ PlaceRetried(t) \/ PlaceFailed(t)
    \/ PersistFlushed(t) \/ PersistSwallowed(t) \/ ScheduleMonitoring(t)
    \/ Classify(t) \/ FetchFailed(t) \/ UpdateMonitoring(t)
    \/ Evaluate(t) \/ NotifyPaused(t) \/ Return(t)

Next ==
    \/ \E t \in Tasks, op \in UserOps, s \in Symbols : StartHandler(t, op, s)
    \/ \E t \in Tasks, kind \in JobKinds, s \in Symbols : StartJob(t, kind, s)
    \/ \E t \in Tasks : Step(t)
    \/ \E x \in Orders : OrderFinishes(x)
    \/ Crash
    \/ Start

Spec == Init /\ [][Next]_vars

\* The event loop resumes every ready coroutine, and every await ends: HTTP
\* and database calls answer, fail or time out.
FairSpec == Spec /\ \A t \in Tasks : WF_vars(Step(t))

---------------------------------------------------------------------------
(* Properties of the code *)

\* Every variable has its type; in particular no task outlives the process
\* and no job survives it.
TypeOK ==
    /\ up \in BOOLEAN
    /\ rows \in [Oids -> Bot \cup {None}]
    /\ jobs \in SUBSET (JobKinds \X Symbols)
    /\ orders \in [Orders -> OrderStates]
    /\ tasks \in [Tasks -> Task]
    /\ placed \in SUBSET Orders
    /\ unscheduled \in SUBSET (Symbols \X BOOLEAN)
    /\ ~up => jobs = {} /\ unscheduled = {} /\ \A t \in Tasks : tasks[t] = Idle

\* No symbol ever has two running or paused rows, however many launch
\* buttons are pressed at once: services select "the" bot of a symbol by
\* symbol and status with LIMIT 1 and no ordering.
OneOpenPerSymbol == OneOpenRow(rows)

\* paused_by_monitor and status never come apart on an open row, although
\* health checks write back the flag they read before their awaits while
\* pause and resume run.
PausedFlagAgrees == PausedAgrees(rows)

\* While the process is up, every running or paused row is monitored by both
\* jobs, unless a close of its symbol removed them since the start, or the
\* launch that stored it has yet to resume and schedule them.
Scheduling(o) ==
    \E t \in Tasks : /\ tasks[t].pc = "onlaunch"
                    /\ tasks[t].oid = o
                    /\ tasks[t].sym = rows[o].sym
Unscheduled(s) == \E c \in BOOLEAN : <<s, c>> \in unscheduled
MonitoringCoverage ==
    up => \A o \in OpenRows(rows) :
             Monitored(rows[o].sym) \/ Unscheduled(rows[o].sym) \/ Scheduling(o)

\* An order the auto launch placed never gets a row, so nothing in the
\* program can monitor or cancel it: it stays live until it finishes by
\* itself, over all retries, double presses and restarts.
Owned(x) == \E o \in Oids : Stored(o) /\ rows[o].ext = x
OrphansUnreachable ==
    \A x \in placed : ~Owned(x) /\ orders[x] \in {"live", "finished"}

\* The order of an open row goes unwatched while it is live in one case only:
\* a close went on after a cancellation that the exchange did not confirm.  A
\* close that was told its order is cancelled may remove the jobs, whatever
\* closes, launches and restarts of the symbol run while it is suspended.
LiveOrderOf(o) == rows[o].ext # None /\ orders[rows[o].ext] = "live"
LiveOrdersWatched ==
    up => \A o \in OpenRows(rows) : LiveOrderOf(o) =>
             \/ Monitored(rows[o].sym)
             \/ Scheduling(o)
             \/ <<rows[o].sym, FALSE>> \in unscheduled

\* The awaits a handler or job has before it at the most: the measure of
\* TasksRunDown.  Only the POST of a launch can be awaited more than once.
StepsFrom(pc) ==
    CASE pc = "idle" -> 0
      [] pc \in {"ok", "error"} -> 1
      [] pc \in {"notify", "onclose", "onlaunch", "update"} -> 2
      [] pc \in {"save", "persist", "fetch"} -> 3
      [] pc = "cancel" -> 4
      [] pc = "find" -> 5
      [] pc = "evaluate" -> 6
      [] pc = "place" -> 3 + MaxAttempts
      [] OTHER -> 4 + MaxAttempts

StepsLeft(k) == IF k.pc = "place" THEN StepsFrom("place") - k.tries ELSE StepsFrom(k.pc)

\* Whatever a handler or job reads, writes, retries or fails at takes it
\* nearer to its end: no answer of the database or the exchange, and nothing
\* the tasks beside it do, sends it back to an earlier await.
TasksRunDown ==
    [][\A t \in Tasks : tasks[t].pc # "idle" /\ tasks'[t] # tasks[t] =>
          StepsLeft(tasks'[t]) \in 0..(StepsLeft(tasks[t]) - 1)]_vars

\* Every handler and every job run ends: no sequence of failing reads,
\* writes, retries and cancellations leaves one suspended for ever.
Answered ==
    \A t \in Tasks : tasks[t].pc # "idle" ~> tasks[t].pc = "idle"

\* A launch whose row was stored ends in monitoring: the handler that has yet
\* to run on_launch is resumed, or the process goes down and its next start
\* schedules the jobs, or a close of the symbol comes in between.
LaunchedGetsMonitored ==
    \A s \in Symbols :
        up /\ Matching(s, OpenStatuses) # {} ~> ~up \/ Monitored(s) \/ Unscheduled(s)

---------------------------------------------------------------------------
(* What the documentation says and the code does not do *)

\* A unit test of the launch service expects the auto launch to place the
\* order and store its bot: a finished auto launch that placed orders leaves
\* a row for one of them.
LaunchedOrderStored ==
    placed # {} /\ (\A t \in Tasks : tasks[t].op # "api") => \E x \in placed : Owned(x)

\* README:209 and README:176: /pause sets paused_by_monitor, and a RED bot is
\* paused, so a pause that goes on to report its success has stored it.
PauseIsStored ==
    [][\A t \in Tasks :
          (/\ tasks[t].op \in {"pause", "aa"} /\ tasks[t].pc = "save"
           /\ tasks'[t].pc \in {"ok", "notify"})
              => rows'[tasks[t].oid].status = "paused"]_vars

\* A unit test of the launch service expects the manual launch to store its
\* bot: with no open bot of the symbol in its way and a free key, the table
\* admits the row.
ManualLaunchAdmitted ==
    \A t \in Tasks : LET task == tasks[t] IN
        (/\ task.op = "manual" /\ task.pc = "persist"
         /\ Matching(task.sym, OpenStatuses) = {} /\ \E o \in Oids : ~Stored(o))
            => \E o \in Oids : InsertAllowed(o, task.bot)

---------------------------------------------------------------------------
(* Why: the facts behind the two, for the proofs *)

\* No operation changes the lifecycle columns of an existing row or removes
\* one: the repo.add of pause, resume, close and auto-pause is an INSERT of a
\* primary key that exists.
Lifecycle(b) == <<b.sym, b.status, b.ext>>
RowsFrozen ==
    [][\A o \in Oids : Stored(o) =>
          rows'[o] # None /\ Lifecycle(rows'[o]) = Lifecycle(rows[o])]_vars

\* With the migrated schema no launch adds a row either: a new bot has no
\* closed_at, the default fills it in, and the status check refuses it.
TableFrozen ==
    [][\A o \in Oids : IF Stored(o)
          THEN rows'[o] # None /\ Lifecycle(rows'[o]) = Lifecycle(rows[o])
          ELSE rows'[o] = None]_vars

===========================================================================
