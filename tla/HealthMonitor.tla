--------------------------- MODULE HealthMonitor ---------------------------
(***************************************************************************)
(* The monitoring of one running bot over time: the health-check job, the  *)
(* debounced alerts it sends, the snapshots and the row it writes, and the *)
(* auto-adjust job that counts YELLOW snapshots.  Bots share none of this. *)
(*                                                                         *)
(* A job runs from await to await;  its pc names the await it is at.  Time *)
(* is discrete.  The timeouts of its calls bound a check by Slowest, so it *)
(* never overlaps the next one, which APScheduler would skip.  Closing the *)
(* bot, which removes both jobs, is in BotLifecycle.                       *)
(***************************************************************************)
EXTENDS Health

CONSTANTS
    Interval,         \* _HC_MINUTES
    AaInterval,       \* _AA_MINUTES
    Debounce,         \* alert_debounce_minutes
    Threshold,        \* max_consecutive_yellow_before_action
    Slowest,          \* the longest a health check takes
    MetricAlerts,     \* the alerts of single metrics
    SnapshotsStored,  \* FALSE, as released: every INSERT of a snapshot fails
    StatusStored,     \* FALSE, as migrated: every UPDATE of the row fails
    Horizon,          \* bound: the clock stops there
    MaxPostponed      \* bound: how often a check is put off in a row

VARIABLES
    now,         \* the monotonic clock
    up,          \* the process is running
    due,         \* next run of each job: [hc, aa]
    health,      \* the row's health_status
    snapshots,   \* statuses of the newest health_snapshots, newest first
    sent,        \* AlertService._sent: when each alert type was sent last, or 0
    check,       \* the health check, running or the last one
    aa,          \* the auto-adjust job
    told,        \* history: the status in the last alert the chat got
    unsure,      \* history: an alert was lost, or its status not stored
    streak,      \* history: YELLOW snapshots stored in a row, up to Threshold
    postponed    \* history: how often the next check was put off since the
                 \* last one began

vars == <<now, up, due, health, snapshots, sent, check, aa, told, unsure, streak,
          postponed>>

StatusChange == "status_change"
AlertTypes == MetricAlerts \cup {StatusChange}

\* max_consecutive_yellow_before_action + 1: the rows the job looks at.
Lookback == Threshold + 1

\* The query's LIMIT.
Newest(rows, limit) == SubSeq(rows, 1, IF Len(rows) < limit THEN Len(rows) ELSE limit)

Check == [pc : {"idle", "fetch", "alert", "record", "snapshot", "update"},
          start : 0..Horizon,            \* when it, or else the process, began
          prev : HealthStatus,           \* the row's status at its start; unused
                                         \* between checks, like alerts and at
          last : HealthStatus,           \* history: the status found before
          status : HealthStatus,         \* the status found
          alerts : SUBSET AlertTypes,
          at : 0..Horizon,               \* when it sent its alert
          lost : BOOLEAN]                \* history: its alert was lost
AaPcs == {"idle", "count", "suggest", "log"}

ASSUME ConstantsOK ==
    /\ Interval \in Nat /\ AaInterval \in Nat \ {0} /\ Debounce \in Nat
    /\ Threshold \in Nat \ {0} /\ Slowest \in Nat
    /\ Horizon \in Nat /\ MaxPostponed \in Nat
    /\ StatusChange \notin MetricAlerts
    /\ SnapshotsStored \in BOOLEAN /\ StatusStored \in BOOLEAN

\* What makes the debouncing inert, as the defaults do: 5 + Slowest <= 30.
ASSUME RareChecks == Debounce + Slowest <= Interval /\ Slowest < Interval

---------------------------------------------------------------------------
(* The scheduler *)

\* Mutant of NewTimers: the two intervals swapped.
NewTimersSwapped == [hc |-> now + AaInterval, aa |-> now + Interval]

\* IntervalTrigger: the first run is one interval from now.
NewTimers == [hc |-> now + Interval, aa |-> now + AaInterval]

\* A launch of the bot's symbol ends.  It schedules both jobs again, with
\* replace_existing, even if it stored no bot: their timers start over.
LaunchEnds ==
    /\ up
    /\ postponed < MaxPostponed
    /\ due' = NewTimers
    /\ postponed' = postponed + 1
    /\ UNCHANGED <<now, up, health, snapshots, sent, check, aa, told, unsure, streak>>

\* The loop was busy when the trigger fired: APScheduler gives a job one
\* second of grace and then skips the run.
MissCheck ==
    /\ up
    /\ now = due.hc
    /\ postponed < MaxPostponed
    /\ due' = [due EXCEPT !.hc = now + Interval]
    /\ postponed' = postponed + 1
    /\ UNCHANGED <<now, up, health, snapshots, sent, check, aa, told, unsure, streak>>

\* The health-check trigger fires and the job reads the bot.  Nothing but the
\* checks themselves writes the status it reads.
StartCheck ==
    /\ up
    /\ now = due.hc
    /\ check.pc = "idle"
    /\ due' = [due EXCEPT !.hc = now + Interval]
    /\ check' = [check EXCEPT !.pc = "fetch", !.start = now, !.prev = health]
    /\ postponed' = 0
    /\ UNCHANGED <<now, up, health, snapshots, sent, aa, told, unsure, streak>>

---------------------------------------------------------------------------
(* The health check *)

Doing(pc) == check.pc = pc
CheckGoes(pc) == check' = [check EXCEPT !.pc = pc]

\* A check ends, and its locals with it.
EndCheck == check' = [check EXCEPT !.pc = "idle", !.prev = Green, !.alerts = {}, !.at = 0,
                                   !.lost = FALSE]

\* Mutants of AlertsOf: no alert for a change of status, or for a recovery.
AlertsOfMetrics(s, m) == m
AlertsOfWorse(s, m) == m \cup (IF s > check.prev THEN {StatusChange} ELSE {})

\* The alerts of status s with RED metrics m.
AlertsOf(s, m) == m \cup (IF s # check.prev THEN {StatusChange} ELSE {})

\* Order, candles and funding arrived; the classifier found a status.  Only a
\* RED metric raises an alert, and a RED adx raises none.
Classify ==
    /\ Doing("fetch")
    /\ \E s \in HealthStatus, m \in SUBSET MetricAlerts :
          /\ m # {} => s = Red
          /\ check' = [check EXCEPT !.pc = "alert", !.last = check.status, !.status = s,
                                    !.alerts = AlertsOf(s, m)]
    /\ UNCHANGED <<now, up, due, health, snapshots, sent, aa, told, unsure, streak, postponed>>

\* One of the calls failed: the check ends, and its API_ERROR goes nowhere.
FetchFailed ==
    /\ Doing("fetch")
    /\ EndCheck
    /\ UNCHANGED <<now, up, due, health, snapshots, sent, aa, told, unsure, streak, postponed>>

\* Mutant of FreshAlerts: the boundary is debounced too.
FreshAlertsLater == {a \in check.alerts : now - sent[a] > Debounce}

\* The alert types not sent for Debounce.
FreshAlerts == {a \in check.alerts : now - sent[a] >= Debounce}

\* The message for the fresh alerts is sent, and lost or not.
Message(lost) ==
    check' = [check EXCEPT !.pc = "record", !.alerts = FreshAlerts, !.at = now, !.lost = lost]

\* send_health_alert: one message for all alerts if one of them is fresh.  A
\* failure to deliver it is swallowed, and the alerts count as sent.
SendAlert ==
    /\ Doing("alert")
    /\ \/ /\ FreshAlerts = {}
          /\ CheckGoes("snapshot")
          /\ UNCHANGED <<told, unsure>>
       \/ /\ FreshAlerts # {}
          /\ Message(FALSE)
          /\ told' = check.status
          /\ unsure' = FALSE
       \/ /\ FreshAlerts # {}
          /\ Message(TRUE)
          /\ unsure' = TRUE
          /\ UNCHANGED told
    /\ UNCHANGED <<now, up, due, health, snapshots, sent, aa, streak, postponed>>

\* Each fresh alert is stored, or not, and stamped with the time of sending.
RecordAlerts ==
    /\ Doing("record")
    /\ sent' = [a \in AlertTypes |-> IF a \in check.alerts THEN check.at ELSE sent[a]]
    /\ CheckGoes("snapshot")
    /\ UNCHANGED <<now, up, due, health, snapshots, aa, told, unsure, streak, postponed>>

\* The INSERT of the snapshot; a failure is swallowed.
StoreSnapshot ==
    /\ Doing("snapshot")
    /\ \/ /\ SnapshotsStored
          /\ snapshots' = Newest(<<check.status>> \o snapshots, Lookback)
          /\ streak' = IF check.status # Yellow THEN 0
                       ELSE IF streak < Threshold THEN streak + 1 ELSE streak
       \/ UNCHANGED <<snapshots, streak>>
    /\ CheckGoes("update")
    /\ UNCHANGED <<now, up, due, health, sent, aa, told, unsure, postponed>>

\* update_monitoring_fields, the last thing a check does; a failure is swallowed.
UpdateBot ==
    /\ Doing("update")
    /\ \/ /\ StatusStored
          /\ health' = check.status
          /\ UNCHANGED unsure
       \/ /\ unsure' = (unsure \/ check.status # health)
          /\ UNCHANGED health
    /\ EndCheck
    /\ UNCHANGED <<now, up, due, snapshots, sent, aa, told, streak, postponed>>

---------------------------------------------------------------------------
(* Auto-adjust, enabled *)

AaGoes(pc) == aa' = pc

\* The trigger fires and the job reads the bot; a run that is late or finds
\* the last one running is skipped, and so is one whose read fails.  A GREEN
\* bot needs nothing; the pause of a RED one is in BotLifecycle.
StartAutoAdjust ==
    /\ up
    /\ now = due.aa
    /\ due' = [due EXCEPT !.aa = now + AaInterval]
    /\ \/ aa = "idle" /\ health = Yellow /\ AaGoes("count")
       \/ UNCHANGED aa
    /\ UNCHANGED <<now, up, health, snapshots, sent, check, told, unsure, streak, postponed>>

\* Mutant of Fetched: a limit one below the threshold.
FetchedTooFew == Newest(snapshots, Threshold - 1)

\* The rows of the query: newest first, at most Lookback.
Fetched == snapshots

\* _count_consecutive_yellow: how many of the newest rows are YELLOW.
ConsecutiveYellow ==
    LET Leading(n) == \A k \in 1..n : Fetched[k] = Yellow
    IN CHOOSE n \in 0..Len(Fetched) :
          Leading(n) /\ \A k \in 0..Len(Fetched) : Leading(k) => k <= n

CountYellow ==
    /\ aa = "count"
    /\ AaGoes(IF ConsecutiveYellow >= Threshold THEN "suggest" ELSE "idle")
    /\ UNCHANGED <<now, up, due, health, snapshots, sent, check, told, unsure, streak, postponed>>

\* The read failed and left the rows unbound.
CountFailed ==
    /\ aa = "count"
    /\ AaGoes("log")
    /\ UNCHANGED <<now, up, due, health, snapshots, sent, check, told, unsure, streak, postponed>>

\* The suggestion to reconfigure is sent, or the exception is logged.
EndAutoAdjust ==
    /\ aa \in {"suggest", "log"}
    /\ AaGoes("idle")
    /\ UNCHANGED <<now, up, due, health, snapshots, sent, check, told, unsure, streak, postponed>>

---------------------------------------------------------------------------
(* The environment *)

\* The process ends;  a check between its message and its UPDATE is lost.
Crash ==
    /\ up
    /\ up' = FALSE
    /\ sent' = [a \in AlertTypes |-> 0]
    /\ unsure' = (unsure \/ (check.pc \in {"record", "snapshot", "update"}
                             /\ check.status # health))
    /\ EndCheck
    /\ aa' = "idle"
    /\ UNCHANGED <<now, due, health, snapshots, told, streak, postponed>>

\* main schedules the jobs of every running or paused bot.
Restart ==
    /\ ~up
    /\ up' = TRUE
    /\ due' = NewTimers
    /\ check' = [check EXCEPT !.start = now]
    /\ postponed' = 0
    /\ UNCHANGED <<now, health, snapshots, sent, aa, told, unsure, streak>>

\* A job that is due starts, and a check ends, before time passes them.
Tick ==
    /\ now < Horizon
    /\ up => now < due.hc /\ now < due.aa
    /\ check.pc # "idle" => now < check.start + Slowest
    /\ now' = now + 1
    /\ UNCHANGED <<up, due, health, snapshots, sent, check, aa, told, unsure, streak, postponed>>

---------------------------------------------------------------------------

\* A bot has just been launched: its row says GREEN, and so does its message.
Init ==
    /\ now = 0
    /\ up = TRUE
    /\ due = NewTimers
    /\ health = Green
    /\ snapshots = <<>>
    /\ sent = [a \in AlertTypes |-> 0]
    /\ check = [pc |-> "idle", start |-> 0, prev |-> Green, last |-> Green,
                status |-> Green, alerts |-> {}, at |-> 0, lost |-> FALSE]
    /\ aa = "idle"
    /\ told = Green
    /\ unsure = FALSE
    /\ streak = 0
    /\ postponed = 0

Next ==
    \/ LaunchEnds \/ MissCheck \/ StartCheck
    \/ Classify \/ FetchFailed \/ SendAlert \/ RecordAlerts \/ StoreSnapshot \/ UpdateBot
    \/ StartAutoAdjust \/ CountYellow \/ CountFailed \/ EndAutoAdjust
    \/ Crash \/ Restart \/ Tick

Spec == Init /\ [][Next]_vars

---------------------------------------------------------------------------
(* Properties *)

TypeOK ==
    /\ now \in 0..Horizon
    /\ up \in BOOLEAN
    /\ due \in [hc : Nat, aa : Nat]
    /\ health \in HealthStatus
    /\ snapshots \in Seq(HealthStatus) /\ Len(snapshots) <= Threshold + 1
    /\ sent \in [AlertTypes -> 0..Horizon]
    /\ check \in Check
    /\ aa \in AaPcs
    /\ told \in HealthStatus
    /\ unsure \in BOOLEAN
    /\ streak \in 0..Threshold
    /\ postponed \in 0..MaxPostponed

\* The debouncing never holds an alert back: checks are so far apart that,
\* however slow one is and however fast the next, over restarts and launches
\* that reset the timers, every alert type found is fresh when it is sent.
NothingSuppressed == Doing("alert") => FreshAlerts = check.alerts

\* The row takes a new status only when the check that found it told it to the
\* chat before, or its message was lost on the way.
StoredWasTold == [][health' # health => told = health' \/ check.lost]_vars

\* Between two checks the chat and the row agree on the bot's status, unless
\* the last message was lost or its check stopped short of the UPDATE.
ChatAgrees == (check.pc \in {"idle", "fetch"} /\ ~unsure) => told = health

\* While the process is up, the next check is due within one interval for
\* every time the timers were started over, or the check was missed, since
\* the last one began.
ChecksKeepComing == up => due.hc <= check.start + (1 + postponed) * Interval

\* The suggestion to reconfigure is sent when, and only when, as many
\* snapshots in a row as the threshold asks for were YELLOW at the count,
\* whatever checks ran since the job read the bot.
SuggestsOnStreak ==
    [][(aa = "count" /\ aa' # aa /\ up') =>
          \/ aa' = "log"
          \/ (aa' = "suggest") = (streak = Threshold)]_vars

---------------------------------------------------------------------------
(* What the documentation says *)

\* README:140: "When status changes, a formatted alert is sent".  Here: a
\* check that finds another status than the check before it has an alert.
ChangeIsAlerted ==
    (Doing("alert") /\ check.status # check.last) => check.alerts # {}

===========================================================================
