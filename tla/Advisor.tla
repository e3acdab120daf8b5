------------------------------ MODULE Advisor ------------------------------
(***************************************************************************)
(* The assessments of the advisor: the daily positioning check, the weekly *)
(* full assessment and /reconfigure, over two tables, oi_snapshots and     *)
(* decision_logs.  The first two walk through all symbols, one after the   *)
(* other, and an exception ends the current symbol only.                   *)
(*                                                                         *)
(* A scheduled run and any number of runs asked for in the chat interleave *)
(* at their awaits: an action takes one of them to its next await.  A      *)
(* database block is one action, since nobody sees it before its commit.   *)
(* A block has three outcomes: its rows are stored and it returns them;    *)
(* its INSERT fails, the provider swallows the error and the block returns *)
(* None; only the commit fails, and the block returns rows that are lost.  *)
(***************************************************************************)
EXTENDS Gates

CONSTANTS
    Order,        \* the symbols, in the order of the enum
    Tasks,        \* slots for concurrent runs
    Window,       \* days of history a change is computed over: 7 in the code
    LastDay,      \* bound: the clock stops there
    TicksPerDay,  \* resolution of the clock
    Fundings,     \* annualized funding rates the exchange reports, percent
    Interests,    \* values of open interest it reports
    Lost,         \* marks a snapshot that the commit lost
    Failures      \* FALSE: no API call and no database block fails

VARIABLES
    now,     \* the clock: [day, tick]
    snaps,   \* oi_snapshots, by symbol
    last,    \* the newest row of decision_logs, by symbol
    tasks,   \* the running assessments
    judged   \* history: by symbol and day, the verdicts that judged the
             \* snapshot stored that day

vars == <<now, snaps, last, tasks, judged>>

Watched == {Order[n] : n \in DOMAIN Order}
MinSnapshots == 2
Kinds == {"daily", "weekly", "reconfigure"}
Actions == {"launch", "hold", "review"}
Pcs == {"idle", "gate1", "market", "history", "store", "gate3", "persist",
        "previous", "notify"}
Days == 0..LastDay
Time == [day : Days, tick : 0..(TicksPerDay - 1)]
Snapshot == [at : Time, oi : Interests]

\* A gate-2 result, with the day of the stored snapshot it judges: Lost when
\* only the commit failed, None when there is no snapshot.
Result == [status : GateStatus, from : Days \cup {Lost, None}]

Verdict == [action : Actions, g2 : Result \cup {None}]

Task == [kind : Kinds \cup {None}, n : {0} \cup DOMAIN Order, pc : Pcs,
         asOf : Time \cup {None}, funding : Fundings \cup {None},
         new : Interests \cup {None}, base : Snapshot \cup {None},
         g1 : GateStatus \cup {None}, g2 : Result \cup {None},
         g3 : GateStatus \cup {None}]

Idle == [kind |-> None, n |-> 0, pc |-> "idle", asOf |-> None, funding |-> None,
         new |-> None, base |-> None, g1 |-> None, g2 |-> None, g3 |-> None]

ASSUME ConstantsOK ==
    /\ Order \in Seq(Symbols) /\ Order # <<>>
    /\ Window \in Nat \ {0} /\ LastDay \in Nat /\ TicksPerDay \in Nat \ {0}
    /\ Fundings \subseteq Int
    /\ Interests \subseteq Nat \ {0}
    /\ Failures \in BOOLEAN
    /\ None \notin Int /\ None \notin Kinds \cup {Lost} /\ Lost \notin Int
    /\ None \notin Time /\ None \notin Snapshot /\ None \notin Result /\ None \notin Verdict

---------------------------------------------------------------------------
(* The clock and the history *)

\* The snapshot is not older than Window days before asOf.  The query has no
\* upper bound: rows stored since asOf count.
InWindow(at, asOf) ==
    \/ at.day + Window > asOf.day
    \/ at.day + Window = asOf.day /\ at.tick >= asOf.tick

Recent(s, asOf) == {x \in snaps[s] : InWindow(x.at, asOf)}
Oldest(rows) == CHOOSE x \in rows : \A y \in rows : x.at.day <= y.at.day
StoredToday(s) == \E x \in snaps[s] : x.at.day = now.day

\* _compute_oi_pct_change_7d: what the change is computed from, or None.
Change(t) ==
    IF tasks[t].base = None THEN None
    ELSE [old |-> tasks[t].base.oi, new |-> tasks[t].new]

---------------------------------------------------------------------------
(* A run's steps *)

Sym(t) == Order[tasks[t].n]
Become(t, task) == tasks' = [tasks EXCEPT ![t] = task]

\* The daily check has gate 2 only; create_snapshot fixes asOf at its start.
BeginSymbol(kind, n) ==
    [Idle EXCEPT !.kind = kind, !.n = n,
                 !.pc = IF kind = "daily" THEN "market" ELSE "gate1",
                 !.asOf = IF kind = "daily" THEN now ELSE None]

\* The symbol is done, by a return or by an exception: on to the next one.
EndSymbol(t) ==
    Become(t, IF tasks[t].kind = "reconfigure" \/ tasks[t].n = Len(Order) THEN Idle
              ELSE BeginSymbol(tasks[t].kind, tasks[t].n + 1))

\* Mutant of Abandon: a symbol that fails is tried again.
AbandonRetrying(t) ==
    Failures /\ Become(t, BeginSymbol(tasks[t].kind, tasks[t].n))

\* An await raises and nothing below the loop over the symbols catches it.
Abandon(t) == Failures /\ EndSymbol(t)

Start(t) ==
    /\ tasks[t].pc = "idle"
    /\ \/ \E k \in {"daily", "weekly"} : Become(t, BeginSymbol(k, 1))
       \/ \E n \in DOMAIN Order : Become(t, BeginSymbol("reconfigure", n))
    /\ UNCHANGED <<now, snaps, last, judged>>

\* The market regime.  Only the weekly assessment stops at a FAIL;  all that
\* /reconfigure does with its statuses is to word its reply.
Gate1(t) ==
    /\ tasks[t].pc = "gate1"
    /\ \/ \E g \in GateStatus :
             LET stops == g = Fail /\ tasks[t].kind = "weekly" IN
             Become(t, [tasks[t] EXCEPT !.pc = IF stops THEN "persist" ELSE "market",
                                        !.g1 = IF tasks[t].kind = "weekly" THEN g ELSE None,
                                        !.asOf = IF stops THEN None ELSE now])
       \/ Abandon(t)
    /\ UNCHANGED <<now, snaps, last, judged>>

\* The latest funding rate and open interest.
FetchMarket(t) ==
    /\ tasks[t].pc = "market"
    /\ \/ \E f \in Fundings, v \in Interests :
             Become(t, [tasks[t] EXCEPT !.pc = "history", !.funding = f, !.new = v])
       \/ Abandon(t)
    /\ UNCHANGED <<now, snaps, last, judged>>

\* Mutant of BaseOf: one snapshot is history enough.
BaseOfAny(rows) == IF rows = {} THEN None ELSE Oldest(rows)

\* At least MIN_SNAPSHOTS_LENGTH rows make a history.
BaseOf(rows) ==
    IF \E x, y \in rows : x # y THEN Oldest(rows) ELSE None

\* A failing read leaves the rows unbound: an UnboundLocalError.
ReadHistory(t) ==
    /\ tasks[t].pc = "history"
    /\ \/ Become(t, [tasks[t] EXCEPT !.pc = "store", !.asOf = None,
                                     !.base = BaseOf(Recent(Sym(t), tasks[t].asOf))])
       \/ Abandon(t)
    /\ UNCHANGED <<now, snaps, last, judged>>

\* The gate judges the snapshot the block returned.
JudgeSnapshot(t, from) ==
    [status |-> Positioning(tasks[t].funding, Change(t)), from |-> from]

\* Mutant of JudgeMissing: a duplicate is judged all the same, as create_snapshot
\* means to do when it catches DuplicateOISnapshotError.
JudgeDuplicate(t) == JudgeSnapshot(t, now.day)

\* The block returned None, so the gate has no snapshot to judge.
JudgeMissing(t) == [status |-> Positioning(None, None), from |-> None]

AfterGate2(t, result) ==
    Become(t, [tasks[t] EXCEPT !.pc = IF tasks[t].kind = "daily" THEN "persist" ELSE "gate3",
                               !.g2 = result, !.funding = None, !.new = None, !.base = None])

\* The unique index admits one snapshot per symbol and UTC day.  A duplicate
\* raises inside the provider's block and never reaches create_snapshot.
StoreSnapshot(t) ==
    /\ tasks[t].pc = "store"
    /\ \/ /\ ~StoredToday(Sym(t))
          /\ snaps' = [snaps EXCEPT ![Sym(t)] = @ \cup {[at |-> now, oi |-> tasks[t].new]}]
          /\ AfterGate2(t, JudgeSnapshot(t, now.day))
       \/ /\ StoredToday(Sym(t)) \/ Failures
          /\ AfterGate2(t, JudgeMissing(t))
          /\ UNCHANGED snaps
       \/ /\ ~StoredToday(Sym(t)) /\ Failures
          /\ AfterGate2(t, JudgeSnapshot(t, Lost))
          /\ UNCHANGED snaps
    /\ UNCHANGED <<now, last, judged>>

\* Liquidation safety: PASS or FAIL for a proposal of the builder.
Gate3(t) ==
    /\ tasks[t].pc = "gate3"
    /\ \/ /\ tasks[t].kind = "weekly"
          /\ \E g \in {Pass, Fail} : Become(t, [tasks[t] EXCEPT !.pc = "persist", !.g3 = g])
       \/ tasks[t].kind = "reconfigure" /\ EndSymbol(t)
       \/ Abandon(t)
    /\ UNCHANGED <<now, snaps, last, judged>>

---------------------------------------------------------------------------
(* The verdict *)

VerdictOf(t) ==
    LET task == tasks[t] IN
    [action |-> IF task.kind = "weekly"
                THEN Resolve(GatesRun(task.g1, IF task.g2 = None THEN None ELSE task.g2.status,
                                      task.g3))
                ELSE IF task.g2.status = Fail THEN "hold" ELSE "review",
     g2 |-> task.g2]

\* The gate-2 status of the symbol's newest verdict, or None.
PreviousStatus(s) ==
    IF last[s] = None \/ last[s].g2 = None THEN None ELSE last[s].g2.status

\* The weekly assessment goes on with its digest, the daily check with the
\* previous status.
AfterPersist(t) ==
    Become(t, IF tasks[t].kind = "weekly"
              THEN [tasks[t] EXCEPT !.pc = "notify", !.g1 = None, !.g2 = None, !.g3 = None]
              ELSE [tasks[t] EXCEPT !.pc = "previous"])

\* The snapshot of day d has been judged once more.
CountJudged(s, g2) ==
    judged' = IF g2 # None /\ g2.from \in Days
              THEN [judged EXCEPT ![s][g2.from] = @ + 1] ELSE judged

\* Mutant of Record: only the first verdict of a symbol is stored.
RecordFirst(t) ==
    last' = IF last[Sym(t)] = None THEN [last EXCEPT ![Sym(t)] = VerdictOf(t)] ELSE last

\* The verdict becomes the newest row of decision_logs.
Record(t) == last' = [last EXCEPT ![Sym(t)] = VerdictOf(t)]

\* persist_verdict.  When it returns None the weekly assessment raises in
\* send_digest, and the daily check does not notice.
PersistVerdict(t) ==
    /\ tasks[t].pc = "persist"
    /\ \/ /\ Record(t)
          /\ CountJudged(Sym(t), tasks[t].g2)
          /\ AfterPersist(t)
       \/ /\ Failures
          /\ IF tasks[t].kind = "weekly" THEN EndSymbol(t) ELSE AfterPersist(t)
          /\ UNCHANGED <<last, judged>>
       \/ Failures /\ AfterPersist(t) /\ UNCHANGED <<last, judged>>
    /\ UNCHANGED <<now, snaps>>

\* The daily check compares its status with the newest verdict, which is its
\* own unless that was not stored or another run has stored one since.
ReadPrevious(t) ==
    /\ tasks[t].pc = "previous"
    /\ \/ IF tasks[t].g2.status = PreviousStatus(Sym(t)) THEN EndSymbol(t)
          ELSE Become(t, [tasks[t] EXCEPT !.pc = "notify"])
       \/ Failures /\ Become(t, [tasks[t] EXCEPT !.pc = "notify"])
    /\ UNCHANGED <<now, snaps, last, judged>>

\* The alert or the digest.  The notifier swallows its errors.
Notify(t) ==
    /\ tasks[t].pc = "notify"
    /\ EndSymbol(t)
    /\ UNCHANGED <<now, snaps, last, judged>>

---------------------------------------------------------------------------
(* The environment *)

\* The process restarts: its runs are gone, the tables stay.
Crash ==
    /\ \E t \in Tasks : tasks[t] # Idle
    /\ tasks' = [t \in Tasks |-> Idle]
    /\ UNCHANGED <<now, snaps, last, judged>>

Tick ==
    /\ \/ /\ now.tick + 1 < TicksPerDay
          /\ now' = [now EXCEPT !.tick = @ + 1]
       \/ /\ now.tick + 1 = TicksPerDay
          /\ now.day < LastDay
          /\ now' = [day |-> now.day + 1, tick |-> 0]
    /\ UNCHANGED <<snaps, last, tasks, judged>>

Init ==
    /\ now = [day |-> 0, tick |-> 0]
    /\ snaps = [s \in Watched |-> {}]
    /\ last = [s \in Watched |-> None]
    /\ tasks = [t \in Tasks |-> Idle]
    /\ judged = [s \in Watched |-> [d \in Days |-> 0]]

Step(t) ==
    \/ Gate1(t)
    \/ FetchMarket(t)
    \/ ReadHistory(t)
    \/ StoreSnapshot(t)
    \/ Gate3(t)
    \/ PersistVerdict(t)
    \/ ReadPrevious(t)
    \/ Notify(t)

Next == Tick \/ Crash \/ \E t \in Tasks : Start(t) \/ Step(t)

Spec == Init /\ [][Next]_vars

\* The event loop resumes every run whose await is over; the HTTP client and
\* the driver time out, so every await ends.
FairSpec == Spec /\ \A t \in Tasks : WF_vars(Step(t))

---------------------------------------------------------------------------
(* Properties *)

TypeOK ==
    /\ now \in Time
    /\ snaps \in [Watched -> SUBSET Snapshot]
    /\ last \in [Watched -> Verdict \cup {None}]
    /\ tasks \in [Tasks -> Task]
    /\ judged \in [Watched -> [Days -> Nat]]

\* A snapshot is judged by one verdict at most, and a LAUNCH needs a snapshot
\* of its own: however daily checks, weekly assessments, /reconfigure and
\* their retries follow each other, a symbol gets at most one LAUNCH a day,
\* and none once anything has stored that day's snapshot.  (Snapshots whose
\* commit failed are the exception.)
LaunchesAreFresh ==
    /\ \A s \in Watched, d \in Days : judged[s][d] <= 1
    /\ \A s \in Watched :
          (last[s] # None /\ last[s].action = "launch") => last[s].g2.from # None

\* A change of open interest is never measured from a snapshot of the same
\* day, although rows stored while the run was suspended count as history.
BaseIsOlder ==
    \A t \in Tasks : tasks[t].base # None => tasks[t].base.at.day < now.day

\* Without failures and with one run at a time the daily check never alerts:
\* it stores its verdict first and then compares the status with itself.
DailySilent ==
    (~Failures /\ \A t, u \in Tasks : t = u) =>
        \A t \in Tasks : ~(tasks[t].kind = "daily" /\ tasks[t].pc = "notify")

\* An upper bound on the steps a run still takes: for this symbol, by where
\* it is, and for the symbols after it.
StepsOfSymbol(pc) ==
    CASE pc = "gate1" -> 8
      [] pc = "market" -> 7
      [] pc = "history" -> 6
      [] pc = "store" -> 5
      [] pc = "gate3" -> 4
      [] pc = "persist" -> 3
      [] pc = "previous" -> 2
      [] OTHER -> 1

StepsLeft(k) ==
    IF k.pc = "idle" THEN 0 ELSE 8 * (Len(Order) - k.n) + StepsOfSymbol(k.pc)

\* Every await of the loop over the symbols, its failures and its early ends
\* take a run forward: it never comes back to a symbol, nor to an earlier
\* gate of one, whatever the runs beside it store.
RunsRunDown ==
    [][\A t \in Tasks : tasks[t].pc # "idle" /\ tasks'[t] # tasks[t] =>
          StepsLeft(tasks'[t]) \in 0..(StepsLeft(tasks[t]) - 1)]_vars

\* Every run ends, and on its way ends each of its symbols, whatever fails.
EveryRunEnds == \A t \in Tasks : (tasks[t].pc # "idle") ~> (tasks[t].pc = "idle")

---------------------------------------------------------------------------
(* What the documentation says *)

\* README:59: funding beyond 40% fails gate 2.
ExtremeFundingFails ==
    [][\A t \in Tasks :
          (/\ tasks[t].pc = "store" /\ tasks'[t].pc \in {"gate3", "persist"}
           /\ AbsoluteValue(tasks[t].funding) > FundingFail)
              => tasks'[t].g2.status = Fail]_vars

===========================================================================
