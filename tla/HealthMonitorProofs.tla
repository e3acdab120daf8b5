------------------------ MODULE HealthMonitorProofs ------------------------
(* The monitoring of a bot, proved for all intervals, debounce times,      *)
(* durations of a check and bounds that satisfy RareChecks.                *)
EXTENDS BulletinRefinement, TLAPS

\* The types that the arguments below need.
Types ==
    /\ now \in 0..Horizon
    /\ up \in BOOLEAN
    /\ due \in [hc : Nat, aa : Nat]
    /\ health \in HealthStatus
    /\ sent \in [AlertTypes -> 0..Horizon]
    /\ check \in Check
    /\ told \in HealthStatus
    /\ unsure \in BOOLEAN
    /\ postponed \in 0..MaxPostponed

\* Every alert sent is as old, at time x, as a check that began an interval
\* before x makes it.
SentBefore(x) == \A a \in AlertTypes : sent[a] = 0 \/ sent[a] + Interval <= x + Slowest

\* A check runs between its start and its bound, and not while the process
\* is down;  the next one is due one interval after its start or later.
Timing ==
    /\ check.start <= now /\ check.at <= now
    /\ up => /\ now <= due.hc /\ due.hc <= now + Interval
             /\ Interval <= due.hc
    /\ ~up => check.pc = "idle" /\ \A a \in AlertTypes : sent[a] = 0
    /\ check.pc # "idle" => /\ up
                            /\ Interval <= check.start
                            /\ now <= check.start + Slowest
                            /\ check.start + Interval <= due.hc

\* When the alerts were sent, as the running check or the next one sees it.
Stamps ==
    /\ (up /\ check.pc \in {"idle", "snapshot", "update"}) => SentBefore(due.hc)
    /\ check.pc \in {"fetch", "alert", "record"} => SentBefore(check.start)

\* What the chat was told, at each step of a check.
Chat ==
    /\ check.pc # "idle" => check.prev = health
    /\ check.pc = "alert" => StatusChange \in check.alerts \/ check.status = check.prev
    /\ check.pc \in {"idle", "fetch", "alert"} => unsure \/ told = health
    /\ check.pc \in {"record", "snapshot", "update"} =>
          \/ told = check.status \/ check.lost
          \/ check.status = health /\ (unsure \/ told = health)
    /\ check.lost => unsure

Inv == Types /\ Timing /\ Stamps /\ Chat /\ ChecksKeepComing

\* The part of a state that no property looks at may change freely.
Seen == <<now, up, due, health, sent, check, told, unsure, postponed>>

LEMMA Unseen ==
    ASSUME Inv, UNCHANGED Seen PROVE Inv'
BY DEF Inv, Types, Timing, Stamps, SentBefore, Chat, ChecksKeepComing, Seen

\* One more postponement is one more interval.
LEMMA OneMore ==
    ASSUME NEW p \in Nat, NEW i \in Nat
    PROVE  /\ (1 + (p + 1)) * i = (1 + p) * i + i
           /\ (1 + 0) * i = i
OBVIOUS

LEMMA InitInv == Init => Inv
<1> SUFFICES ASSUME Init PROVE Inv
  OBVIOUS
<1>1. Types
  <2>1. 0 \in 0..Horizon /\ Green \in HealthStatus /\ 0 \in 0..MaxPostponed
    BY ConstantsOK DEF HealthStatus, Green, Yellow, Red
  <2>2. check \in Check
    BY <2>1 DEF Init, Check
  <2>3. due \in [hc : Nat, aa : Nat] /\ sent \in [AlertTypes -> 0..Horizon]
    BY <2>1, ConstantsOK DEF Init, NewTimers
  <2> QED
    BY <2>1, <2>2, <2>3 DEF Init, Types
<1>2. Timing /\ Stamps /\ Chat
  BY ConstantsOK DEF Init, Timing, Stamps, SentBefore, Chat, NewTimers
<1>3. ChecksKeepComing
  BY ConstantsOK DEF Init, ChecksKeepComing, NewTimers
<1> QED
  BY <1>1, <1>2, <1>3 DEF Inv

\* The timers start over.
LEMMA LaunchEndsOK == ASSUME Inv, LaunchEnds PROVE Inv'
<1> USE ConstantsOK DEF Inv
<1>1. Types'
  BY DEF Types, LaunchEnds, NewTimers
<1>2. /\ due'.hc = now + Interval /\ due.hc <= due'.hc
      /\ due.hc \in Nat /\ now \in Nat
  BY DEF Types, Timing, LaunchEnds, NewTimers
<1>3. Timing'
  BY <1>2 DEF Types, Timing, LaunchEnds, Check
<1>4. Stamps'
  BY <1>2 DEF Types, Stamps, SentBefore, LaunchEnds
<1>5. Chat'
  BY DEF Chat, LaunchEnds
<1>6. ChecksKeepComing'
  <2>1. /\ up /\ postponed' = postponed + 1 /\ UNCHANGED check
        /\ postponed \in Nat /\ check.start \in Nat
    BY DEF LaunchEnds, Types, Check
  <2> DEFINE y == (1 + postponed) * Interval
  <2>2. due.hc <= check.start + y /\ y \in Nat
    BY <2>1 DEF ChecksKeepComing
  <2>3. (1 + postponed') * Interval = y + Interval
    BY <2>1, OneMore
  <2>4. now <= due.hc
    BY <2>1 DEF Timing
  <2> HIDE DEF y
  <2>5. due'.hc <= check.start + (y + Interval)
    BY <1>2, <2>1, <2>2, <2>4
  <2> QED
    BY <2>1, <2>3, <2>5 DEF ChecksKeepComing
<1> QED
  BY <1>1, <1>3, <1>4, <1>5, <1>6

\* A check that is missed is due one interval later.
LEMMA MissCheckOK == ASSUME Inv, MissCheck PROVE Inv'
<1> USE ConstantsOK DEF Inv
<1>1. /\ due' = [due EXCEPT !.hc = now + Interval] /\ now = due.hc /\ up
      /\ postponed' = postponed + 1 /\ postponed < MaxPostponed
      /\ UNCHANGED <<now, up, health, sent, check, told, unsure>>
      /\ postponed \in Nat /\ check.start \in Nat /\ check \in Check
  BY DEF MissCheck, Types, Check
<1>2. /\ due'.hc = now + Interval /\ due.hc \in Nat /\ now \in Nat
      /\ due' \in [hc : Nat, aa : Nat]
  BY <1>1 DEF Types
<1>3. Types'
  BY <1>1, <1>2 DEF Types
<1>4. Timing'
  BY <1>1, <1>2 DEF Types, Timing, Check
<1>5. Stamps'
  BY <1>1, <1>2 DEF Types, Stamps, SentBefore
<1>6. Chat'
  BY <1>1 DEF Chat
<1>7. ChecksKeepComing'
  <2> DEFINE y == (1 + postponed) * Interval
  <2>1. due.hc <= check.start + y /\ y \in Nat
    BY <1>1 DEF ChecksKeepComing
  <2>2. (1 + postponed') * Interval = y + Interval
    BY <1>1, OneMore
  <2> HIDE DEF y
  <2>3. due'.hc <= check.start + (y + Interval)
    BY <1>1, <1>2, <2>1
  <2> QED
    BY <1>1, <2>2, <2>3 DEF ChecksKeepComing
<1> QED
  BY <1>3, <1>4, <1>5, <1>6, <1>7

\* A check begins when it is due.
LEMMA StartCheckOK == ASSUME Inv, StartCheck PROVE Inv'
<1> USE ConstantsOK DEF Inv
<1>1. /\ check' = [check EXCEPT !.pc = "fetch", !.start = now, !.prev = health]
      /\ due' = [due EXCEPT !.hc = now + Interval]
      /\ up /\ now = due.hc /\ check.pc = "idle" /\ postponed' = 0
      /\ UNCHANGED <<now, up, health, sent, told, unsure>>
  BY DEF StartCheck
<1>2. /\ check'.pc = "fetch" /\ check'.start = now /\ check'.prev = health
      /\ check'.at = check.at /\ check'.lost = check.lost
      /\ due'.hc = now + Interval /\ now \in Nat
      /\ check \in Check /\ due \in [hc : Nat, aa : Nat]
  BY <1>1 DEF Types, Check
<1>3. Types'
  <2>1. check' \in Check
    BY <1>1, <1>2 DEF Types, Check
  <2>2. due' \in [hc : Nat, aa : Nat] /\ postponed' \in 0..MaxPostponed
    BY <1>1, <1>2
  <2> QED
    BY <1>1, <2>1, <2>2 DEF Types
<1>4. Timing'
  BY <1>1, <1>2 DEF Types, Timing, Check
<1>5. Stamps'
  BY <1>1, <1>2 DEF Types, Stamps, SentBefore
<1>6. Chat'
  BY <1>1, <1>2 DEF Chat
<1>7. ChecksKeepComing'
  BY <1>1, <1>2, OneMore DEF ChecksKeepComing
<1> QED
  BY <1>3, <1>4, <1>5, <1>6, <1>7

\* A step that leaves the clock, the timers and the start of the check alone
\* does not touch its timing either.
Steady ==
    /\ UNCHANGED <<now, up, due, postponed>>
    /\ check'.start = check.start

LEMMA SteadyKeeps ==
    ASSUME Inv, Steady, check.pc # "idle", check'.at <= now PROVE Timing' /\ ChecksKeepComing'
BY DEF Inv, Types, Timing, ChecksKeepComing, Steady

\* Classification, and its failure.
LEMMA ClassifyOK == ASSUME Inv, Classify PROVE Inv'
<1> USE ConstantsOK DEF Inv
<1>1. PICK s \in HealthStatus, m \in SUBSET MetricAlerts :
          check' = [check EXCEPT !.pc = "alert", !.last = check.status, !.status = s,
                                 !.alerts = AlertsOf(s, m)]
  BY DEF Classify
<1>2. /\ check.pc = "fetch"
      /\ UNCHANGED <<now, up, due, health, sent, told, unsure, postponed>>
  BY DEF Classify, Doing
<1>3. check \in Check
  BY DEF Types
<1>4. AlertsOf(s, m) \in SUBSET AlertTypes
  BY DEF AlertsOf, AlertTypes
<1>5. /\ check'.pc = "alert" /\ check'.start = check.start /\ check'.at = check.at
      /\ check'.prev = check.prev /\ check'.status = s /\ check'.alerts = AlertsOf(s, m)
      /\ check'.lost = check.lost
  BY <1>1, <1>3 DEF Check
<1>6. Types'
  <2>1. check' \in Check
    BY <1>1, <1>3, <1>4 DEF Check
  <2> QED
    BY <1>2, <2>1 DEF Types
<1>7. Timing' /\ ChecksKeepComing'
  BY <1>2, <1>5, SteadyKeeps DEF Steady, Timing
<1>8. Stamps'
  BY <1>2, <1>5 DEF Stamps, SentBefore
<1>9. Chat'
  BY <1>2, <1>5 DEF Chat, AlertsOf
<1> QED
  BY <1>6, <1>7, <1>8, <1>9

\* What is left of a check that ended.
Ended ==
    /\ check' \in Check
    /\ check'.pc = "idle" /\ check'.start = check.start
    /\ check'.at = 0 /\ check'.lost = FALSE

LEMMA EndsCheck == ASSUME check \in Check, EndCheck PROVE Ended
<1>1. 0 \in 0..Horizon /\ Green \in HealthStatus
  BY ConstantsOK DEF HealthStatus, Green, Yellow, Red
<1> QED
  BY <1>1 DEF EndCheck, Ended, Check

LEMMA FetchFailedOK == ASSUME Inv, FetchFailed PROVE Inv'
<1> USE ConstantsOK DEF Inv
<1>1. /\ EndCheck /\ check.pc = "fetch"
      /\ UNCHANGED <<now, up, due, health, sent, told, unsure, postponed>>
  BY DEF FetchFailed, Doing
<1>2. check \in Check /\ Ended
  BY <1>1, EndsCheck DEF Types
<1>3. Types'
  BY <1>1, <1>2 DEF Types, Ended
<1>4. Timing' /\ ChecksKeepComing'
  BY <1>1, <1>2, SteadyKeeps DEF Steady, Ended, Types
<1>5. Stamps'
  <2>1. check.start + Interval <= due.hc /\ check.start \in Nat /\ due.hc \in Nat
    BY <1>1, <1>2 DEF Timing, Types, Check
  <2>2. SentBefore(check.start) => SentBefore(due.hc)
    BY <2>1 DEF SentBefore, Types
  <2> QED
    BY <1>1, <1>2, <2>2 DEF Stamps, SentBefore, Ended
<1>6. Chat'
  BY <1>1, <1>2 DEF Chat, Ended
<1> QED
  BY <1>3, <1>4, <1>5, <1>6

\* When a check sends its alerts, all of them are fresh.
LEMMA AllFresh == Inv => NothingSuppressed
<1> SUFFICES ASSUME Inv, check.pc = "alert", NEW a \in check.alerts
             PROVE  now - sent[a] >= Debounce
  BY DEF NothingSuppressed, Doing, FreshAlerts
<1>1. a \in AlertTypes /\ check.start \in Nat /\ now \in Nat /\ sent[a] \in Nat
  BY DEF Inv, Types, Check
<1>2. Interval <= check.start /\ check.start <= now
  BY DEF Inv, Timing
<1>3. sent[a] = 0 \/ sent[a] + Interval <= check.start + Slowest
  BY <1>1 DEF Inv, Stamps, SentBefore
<1> QED
  BY <1>1, <1>2, <1>3, ConstantsOK, RareChecks

\* The alert is sent, or there is none.
LEMMA SendAlertOK == ASSUME Inv, SendAlert PROVE Inv'
<1> USE ConstantsOK DEF Inv
<1>1. /\ check.pc = "alert" /\ check \in Check /\ now \in 0..Horizon
      /\ UNCHANGED <<now, up, due, health, sent, postponed>>
  BY DEF SendAlert, Doing, Types
<1>2. FreshAlerts = check.alerts
  BY <1>1, AllFresh DEF NothingSuppressed, Doing
<1>3. CASE check.alerts = {}
  <2>1. check' = [check EXCEPT !.pc = "snapshot"] /\ UNCHANGED <<told, unsure>>
    BY <1>2, <1>3 DEF SendAlert, CheckGoes
  <2>2. /\ check'.pc = "snapshot" /\ check'.start = check.start /\ check'.at = check.at
        /\ check'.prev = check.prev /\ check'.status = check.status
        /\ check'.lost = check.lost
    BY <1>1, <2>1 DEF Check
  <2>3. Types'
    BY <1>1, <2>1 DEF Types, Check
  <2>4. Timing' /\ ChecksKeepComing'
    BY <1>1, <2>2, SteadyKeeps DEF Steady, Timing
  <2>5. Stamps'
    <3>1. check.start + Interval <= due.hc /\ check.start \in Nat /\ due.hc \in Nat
      BY <1>1 DEF Timing, Types, Check
    <3>2. SentBefore(check.start) => SentBefore(due.hc)
      BY <3>1 DEF SentBefore, Types
    <3> QED
      BY <1>1, <2>2, <3>2 DEF Stamps, SentBefore
  <2>6. Chat'
    BY <1>1, <1>3, <2>1, <2>2 DEF Chat
  <2> QED
    BY <2>3, <2>4, <2>5, <2>6
<1>4. CASE check.alerts # {}
  <2>1. PICK lost \in BOOLEAN :
           /\ check' = [check EXCEPT !.pc = "record", !.alerts = check.alerts, !.at = now,
                                     !.lost = lost]
           /\ lost => told' = told /\ unsure' = TRUE
           /\ ~lost => told' = check.status /\ unsure' = FALSE
    BY <1>2, <1>4 DEF SendAlert, Message
  <2>2. /\ check'.lost = lost
        /\ check'.pc = "record" /\ check'.start = check.start /\ check'.at = now
        /\ check'.prev = check.prev /\ check'.status = check.status
    BY <1>1, <2>1 DEF Check
  <2>3. Types'
    <3>1. check' \in Check
      BY <1>1, <2>1 DEF Check
    <3>2. told' \in HealthStatus /\ unsure' \in BOOLEAN
      BY <1>1, <2>1 DEF Types, Check
    <3> QED
      BY <1>1, <3>1, <3>2 DEF Types
  <2>4. Timing' /\ ChecksKeepComing'
    BY <1>1, <2>2, SteadyKeeps DEF Steady, Timing
  <2>5. Stamps'
    BY <1>1, <2>2 DEF Stamps, SentBefore
  <2>6. Chat'
    BY <1>1, <2>1, <2>2 DEF Chat
  <2> QED
    BY <2>3, <2>4, <2>5, <2>6
<1> QED
  BY <1>3, <1>4

\* The alerts are stamped.
LEMMA RecordAlertsOK == ASSUME Inv, RecordAlerts PROVE Inv'
<1> USE ConstantsOK DEF Inv
<1>1. /\ check.pc = "record" /\ check \in Check
      /\ check' = [check EXCEPT !.pc = "snapshot"]
      /\ sent' = [a \in AlertTypes |-> IF a \in check.alerts THEN check.at ELSE sent[a]]
      /\ UNCHANGED <<now, up, due, health, told, unsure, postponed>>
  BY DEF RecordAlerts, Doing, CheckGoes, Types
<1>2. /\ check'.pc = "snapshot" /\ check'.start = check.start /\ check'.at = check.at
      /\ check'.prev = check.prev /\ check'.status = check.status
      /\ check'.lost = check.lost
  BY <1>1 DEF Check
<1>3. Types'
  BY <1>1 DEF Types, Check
<1>4. Timing' /\ ChecksKeepComing'
  BY <1>1, <1>2 DEF Timing, ChecksKeepComing
<1>5. Stamps'
  <2>1. /\ check.start + Interval <= due.hc /\ check.start \in Nat /\ due.hc \in Nat
        /\ check.at <= now /\ now <= check.start + Slowest
        /\ check.at \in Nat /\ now \in Nat
    BY <1>1 DEF Timing, Types, Check
  <2>2. \A a \in AlertTypes : sent[a] = 0 \/ sent[a] + Interval <= check.start + Slowest
    BY <1>1 DEF Stamps, SentBefore
  <2>3. \A a \in AlertTypes : sent'[a] = 0 \/ sent'[a] + Interval <= due.hc + Slowest
    <3> SUFFICES ASSUME NEW a \in AlertTypes
                 PROVE  sent'[a] = 0 \/ sent'[a] + Interval <= due.hc + Slowest
      OBVIOUS
    <3>1. sent[a] \in Nat /\ sent'[a] = IF a \in check.alerts THEN check.at ELSE sent[a]
      BY <1>1 DEF Types
    <3> QED
      BY <2>1, <2>2, <3>1
  <2> QED
    BY <1>1, <1>2, <2>3 DEF Stamps, SentBefore
<1>6. Chat'
  BY <1>1, <1>2 DEF Chat
<1> QED
  BY <1>3, <1>4, <1>5, <1>6

LEMMA StoreSnapshotOK == ASSUME Inv, StoreSnapshot PROVE Inv'
<1> USE ConstantsOK DEF Inv
<1>1. /\ check.pc = "snapshot" /\ check \in Check
      /\ check' = [check EXCEPT !.pc = "update"]
      /\ UNCHANGED <<now, up, due, health, sent, told, unsure, postponed>>
  BY DEF StoreSnapshot, Doing, CheckGoes, Types
<1>2. /\ check'.pc = "update" /\ check'.start = check.start /\ check'.at = check.at
      /\ check'.prev = check.prev /\ check'.status = check.status
      /\ check'.lost = check.lost
  BY <1>1 DEF Check
<1>3. Types'
  BY <1>1 DEF Types, Check
<1>4. Timing' /\ ChecksKeepComing'
  BY <1>1, <1>2, SteadyKeeps DEF Steady, Timing
<1>5. Stamps' /\ Chat'
  BY <1>1, <1>2 DEF Stamps, SentBefore, Chat
<1> QED
  BY <1>3, <1>4, <1>5

\* A new status of the row is one the chat was told, unless that was lost.
ToldOrLost == health' # health => told = health' \/ check.lost

\* The row takes the status found, or keeps its own.
LEMMA UpdateBotOK == ASSUME Inv, UpdateBot PROVE Inv' /\ ToldOrLost
<1> USE ConstantsOK DEF Inv
<1>1. /\ check.pc = "update" /\ check \in Check /\ check.status \in HealthStatus
      /\ EndCheck
      /\ UNCHANGED <<now, up, due, sent, told, postponed>>
      /\ \/ health' = check.status /\ unsure' = unsure
         \/ health' = health /\ unsure' = (unsure \/ check.status # health)
  BY DEF UpdateBot, Doing, Types, Check
<1>2. Ended
  BY <1>1, EndsCheck
<1>3. Types'
  BY <1>1, <1>2 DEF Types, Ended
<1>4. Timing' /\ ChecksKeepComing'
  BY <1>1, <1>2, SteadyKeeps DEF Steady, Ended, Types
<1>5. Stamps'
  BY <1>1, <1>2 DEF Stamps, SentBefore, Ended
<1>6. Chat' /\ ToldOrLost
  <2>1. /\ \/ told = check.status \/ check.lost
           \/ check.status = health /\ (unsure \/ told = health)
        /\ check.lost => unsure
    BY <1>1 DEF Chat
  <2>2. CASE health' = check.status /\ unsure' = unsure
    BY <1>1, <1>2, <2>1, <2>2 DEF Chat, Ended, ToldOrLost
  <2>3. CASE health' = health /\ unsure' = (unsure \/ check.status # health)
    <3>1. unsure' \/ told = health
      BY <2>1, <2>3
    <3> QED
      BY <1>1, <1>2, <2>3, <3>1 DEF Chat, Ended, ToldOrLost
  <2> QED
    BY <1>1, <2>2, <2>3
<1> QED
  BY <1>3, <1>4, <1>5, <1>6

LEMMA StartAutoAdjustOK == ASSUME Inv, StartAutoAdjust PROVE Inv'
<1> USE ConstantsOK DEF Inv
<1>1. /\ due' = [due EXCEPT !.aa = now + AaInterval]
      /\ UNCHANGED <<now, up, health, sent, check, told, unsure, postponed>>
  BY DEF StartAutoAdjust
<1>2. due'.hc = due.hc /\ due' \in [hc : Nat, aa : Nat]
  BY <1>1 DEF Types
<1> QED
  BY <1>1, <1>2 DEF Types, Timing, Stamps, SentBefore, Chat, ChecksKeepComing

\* The process ends and starts again; between the two, nothing is scheduled.
LEMMA CrashOK == ASSUME Inv, Crash PROVE Inv'
<1> USE ConstantsOK DEF Inv
<1>1. /\ up' = FALSE /\ EndCheck /\ check \in Check
      /\ sent' = [a \in AlertTypes |-> 0]
      /\ unsure' = (unsure \/ (check.pc \in {"record", "snapshot", "update"}
                               /\ check.status # health))
      /\ UNCHANGED <<now, due, health, told, postponed>>
  BY DEF Crash, Types
<1>2. Ended
  BY <1>1, EndsCheck
<1>3. Types'
  <2>1. sent' \in [AlertTypes -> 0..Horizon]
    BY <1>1
  <2>2. unsure' \in BOOLEAN /\ up' \in BOOLEAN
    BY <1>1
  <2> QED
    BY <1>1, <1>2, <2>1, <2>2 DEF Types, Ended
<1>4. Timing' /\ Stamps' /\ ChecksKeepComing'
  BY <1>1, <1>2 DEF Types, Timing, Stamps, ChecksKeepComing, Ended
<1>5. Chat'
  <2>1. check.pc \in {"idle", "fetch", "alert", "record", "snapshot", "update"}
    BY <1>1 DEF Check
  <2>2. unsure' \/ told' = health'
    BY <1>1, <2>1 DEF Chat
  <2> QED
    BY <1>2, <2>2 DEF Chat, Ended
<1> QED
  BY <1>3, <1>4, <1>5

LEMMA RestartOK == ASSUME Inv, Restart PROVE Inv'
<1> USE ConstantsOK DEF Inv
<1>1. /\ ~up /\ up' = TRUE /\ due' = NewTimers /\ check' = [check EXCEPT !.start = now]
      /\ postponed' = 0 /\ check \in Check
      /\ UNCHANGED <<now, health, sent, told, unsure>>
  BY DEF Restart, Types
<1>2. /\ check'.pc = "idle" /\ check'.start = now /\ check'.at = check.at
      /\ check'.lost = check.lost
      /\ due'.hc = now + Interval /\ now \in Nat /\ check.pc = "idle"
  BY <1>1 DEF Check, Timing, Types, NewTimers
<1>3. Types'
  BY <1>1, <1>2 DEF Types, Check, NewTimers
<1>4. Timing'
  BY <1>1, <1>2 DEF Types, Timing
<1>5. Stamps'
  BY <1>1, <1>2 DEF Timing, Stamps, SentBefore
<1>6. Chat'
  BY <1>1, <1>2 DEF Chat
<1>7. ChecksKeepComing'
  BY <1>1, <1>2, OneMore DEF ChecksKeepComing
<1> QED
  BY <1>3, <1>4, <1>5, <1>6, <1>7

\* Time passes, but not the deadlines.
LEMMA TickOK == ASSUME Inv, Tick PROVE Inv'
<1> USE ConstantsOK DEF Inv
<1>1. /\ now' = now + 1 /\ now < Horizon /\ now \in Nat
      /\ up => now < due.hc
      /\ check.pc # "idle" => now < check.start + Slowest
      /\ UNCHANGED <<up, due, health, sent, check, told, unsure, postponed>>
      /\ check.start \in Nat /\ check.at \in Nat /\ due.hc \in Nat
  BY DEF Tick, Types, Check
<1>2. Types'
  BY <1>1 DEF Types
<1>3. Timing'
  BY <1>1 DEF Timing
<1>4. Stamps' /\ Chat' /\ ChecksKeepComing'
  BY <1>1 DEF Stamps, SentBefore, Chat, ChecksKeepComing
<1> QED
  BY <1>2, <1>3, <1>4

LEMMA NextInv == Inv /\ [Next]_vars => Inv' /\ ToldOrLost
<1> SUFFICES ASSUME Inv, [Next]_vars
             PROVE  Inv' /\ ToldOrLost
  OBVIOUS
<1>1. CASE UpdateBot
  BY <1>1, UpdateBotOK
<1>2. CASE LaunchEnds
  BY <1>2, LaunchEndsOK DEF LaunchEnds, ToldOrLost
<1>3. CASE StartCheck
  BY <1>3, StartCheckOK DEF StartCheck, ToldOrLost
<1>4. CASE Classify
  BY <1>4, ClassifyOK DEF Classify, ToldOrLost
<1>5. CASE FetchFailed
  BY <1>5, FetchFailedOK DEF FetchFailed, ToldOrLost
<1>6. CASE SendAlert
  BY <1>6, SendAlertOK DEF SendAlert, ToldOrLost
<1>7. CASE RecordAlerts
  BY <1>7, RecordAlertsOK DEF RecordAlerts, ToldOrLost
<1>8. CASE StoreSnapshot
  BY <1>8, StoreSnapshotOK DEF StoreSnapshot, ToldOrLost
<1>9. CASE StartAutoAdjust
  BY <1>9, StartAutoAdjustOK DEF StartAutoAdjust, ToldOrLost
<1>10. CASE CountYellow \/ CountFailed \/ EndAutoAdjust
  BY <1>10, Unseen DEF CountYellow, CountFailed, EndAutoAdjust, Seen, ToldOrLost
<1>11. CASE Crash
  BY <1>11, CrashOK DEF Crash, ToldOrLost
<1>12. CASE Restart
  BY <1>12, RestartOK DEF Restart, ToldOrLost
<1>13. CASE Tick
  BY <1>13, TickOK DEF Tick, ToldOrLost
<1>14. CASE UNCHANGED vars
  BY <1>14, Unseen DEF vars, Seen, ToldOrLost
<1>15. CASE MissCheck
  BY <1>15, MissCheckOK DEF MissCheck, ToldOrLost
<1> QED
  BY <1>1, <1>2, <1>3, <1>4, <1>5, <1>6, <1>7, <1>8, <1>9, <1>10, <1>11, <1>12,
     <1>13, <1>14, <1>15 DEF Next

\* The invariant that all the theorems below rest on.
THEOREM Inductive == Spec => []Inv
BY InitInv, NextInv, PTL DEF Spec

---------------------------------------------------------------------------
(* The streak of YELLOW snapshots *)

\* The newest rows are YELLOW as far as the streak goes, and no further while
\* the streak is short of the threshold.
StreakStored ==
    /\ snapshots \in Seq(HealthStatus) /\ Len(snapshots) <= Threshold + 1
    /\ streak \in 0..Threshold
    /\ streak <= Len(snapshots)
    /\ \A k \in 1..streak : snapshots[k] = Yellow
    /\ streak < Threshold => Len(snapshots) = streak \/ snapshots[streak + 1] # Yellow
    /\ aa \in AaPcs

LEMMA StreakInit == Init => StreakStored
BY ConstantsOK DEF Init, StreakStored, AaPcs, HealthStatus

\* A snapshot in front of the others, cut to the rows of the query.
LEMMA NewestStored ==
    ASSUME NEW status, NEW rows \in Seq(HealthStatus), status \in HealthStatus,
           Len(rows) <= Threshold + 1
    PROVE  LET new == Newest(<<status>> \o rows, Lookback) IN
           /\ new \in Seq(HealthStatus)
           /\ Len(new) = IF Len(rows) <= Threshold THEN Len(rows) + 1 ELSE Threshold + 1
           /\ new[1] = status
           /\ \A k \in 2..Len(new) : new[k] = rows[k - 1]
<1> DEFINE longer == <<status>> \o rows
           n == IF Len(longer) < Lookback THEN Len(longer) ELSE Lookback
           new == Newest(longer, Lookback)
<1>1. /\ longer \in Seq(HealthStatus)
      /\ Len(longer) = Len(rows) + 1
      /\ longer[1] = status
      /\ \A k \in 2..Len(longer) : longer[k] = rows[k - 1]
  OBVIOUS
<1>2. Threshold \in Nat /\ Lookback = Threshold + 1 /\ Len(rows) \in Nat
  BY ConstantsOK DEF Lookback
<1> HIDE DEF longer
<1>3. n \in 1..Len(longer) /\ n = IF Len(rows) <= Threshold THEN Len(rows) + 1 ELSE Threshold + 1
  BY <1>1, <1>2
<1>4. new = SubSeq(longer, 1, n)
  BY DEF Newest
<1> HIDE DEF n, new
<1>5. /\ new \in Seq(HealthStatus) /\ Len(new) = n
      /\ \A k \in 1..n : new[k] = longer[k]
  BY <1>1, <1>3, <1>4
<1>6. new[1] = status /\ \A k \in 2..n : new[k] = rows[k - 1]
  BY <1>1, <1>3, <1>5
<1> QED BY <1>3, <1>5, <1>6 DEF new, longer

LEMMA StreakStep ==
    ASSUME Types, StreakStored, [Next]_vars PROVE StreakStored'
<1>1. CASE StoreSnapshot
  <2>1. CASE UNCHANGED <<snapshots, streak>>
    BY <1>1, <2>1 DEF StoreSnapshot, StreakStored
  <2>2. CASE /\ snapshots' = Newest(<<check.status>> \o snapshots, Lookback)
             /\ streak' = IF check.status # Yellow THEN 0
                          ELSE IF streak < Threshold THEN streak + 1 ELSE streak
    <3>1. Threshold \in Nat \ {0} /\ streak \in 0..Threshold /\ Len(snapshots) \in Nat
      BY ConstantsOK DEF StreakStored
    <3>2. check.status \in HealthStatus
      BY DEF Types, Check
    <3>3. /\ snapshots' \in Seq(HealthStatus)
          /\ Len(snapshots') = IF Len(snapshots) <= Threshold THEN Len(snapshots) + 1
                                                              ELSE Threshold + 1
          /\ snapshots'[1] = check.status
          /\ \A k \in 2..Len(snapshots') : snapshots'[k] = snapshots[k - 1]
      BY <2>2, <3>2, NewestStored DEF StreakStored
    <3>4. CASE check.status # Yellow
      BY <1>1, <2>2, <3>1, <3>3, <3>4 DEF StoreSnapshot, StreakStored
    <3>5. CASE check.status = Yellow
      <4>1. streak' = IF streak < Threshold THEN streak + 1 ELSE streak
        BY <2>2, <3>5
      <4>2. streak' \in 0..Threshold /\ streak' <= Len(snapshots') /\ streak' <= streak + 1
        BY <3>1, <3>3, <4>1 DEF StreakStored
      <4>3. \A k \in 1..streak' : snapshots'[k] = Yellow
        <5> SUFFICES ASSUME NEW k \in 1..streak' PROVE snapshots'[k] = Yellow
          OBVIOUS
        <5>1. CASE k = 1
          BY <3>3, <3>5, <5>1
        <5>2. CASE k > 1
          <6>1. k \in 2..Len(snapshots') /\ k - 1 \in 1..streak
            BY <3>1, <3>3, <4>2, <5>2
          <6> QED BY <3>3, <6>1 DEF StreakStored
        <5> QED BY <3>1, <4>2, <5>1, <5>2
      <4>4. ASSUME streak' < Threshold
            PROVE  Len(snapshots') = streak' \/ snapshots'[streak' + 1] # Yellow
        <5>1. streak < Threshold /\ streak' = streak + 1
          BY <3>1, <4>1, <4>4
        <5>2. CASE Len(snapshots) = streak
          BY <3>1, <3>3, <5>1, <5>2
        <5>3. CASE Len(snapshots) # streak
          <6>1. snapshots[streak + 1] # Yellow /\ streak < Len(snapshots)
            BY <3>1, <5>1, <5>3 DEF StreakStored
          <6>2. streak + 2 \in 2..Len(snapshots') /\ (streak + 2) - 1 = streak + 1
            BY <3>1, <3>3, <4>4, <5>1, <6>1
          <6>3. snapshots'[streak + 2] = snapshots[streak + 1]
            BY <3>3, <6>2
          <6> QED BY <3>1, <5>1, <6>1, <6>3
        <5> QED BY <5>2, <5>3
      <4>5. Len(snapshots') <= Threshold + 1 /\ aa' \in AaPcs
        BY <1>1, <3>1, <3>3 DEF StoreSnapshot, StreakStored
      <4> QED BY <3>3, <4>2, <4>3, <4>4, <4>5 DEF StreakStored
    <3> QED BY <3>4, <3>5
  <2> QED BY <1>1, <2>1, <2>2 DEF StoreSnapshot
<1>2. ASSUME UNCHANGED <<snapshots, streak>>, aa' \in AaPcs
      PROVE  StreakStored'
  BY <1>2 DEF StreakStored
<1>3. CASE StartAutoAdjust \/ CountYellow \/ CountFailed \/ EndAutoAdjust \/ Crash
  BY <1>2, <1>3 DEF StartAutoAdjust, CountYellow, CountFailed, EndAutoAdjust, Crash, AaGoes,
                    AaPcs, StreakStored
<1>4. CASE LaunchEnds \/ MissCheck \/ StartCheck \/ Restart \/ Tick
  BY <1>2, <1>4 DEF LaunchEnds, MissCheck, StartCheck, Restart, Tick, StreakStored
<1>5. CASE Classify \/ FetchFailed \/ SendAlert \/ RecordAlerts \/ UpdateBot
  BY <1>2, <1>5 DEF Classify, FetchFailed, SendAlert, RecordAlerts, UpdateBot, StreakStored
<1>6. CASE UNCHANGED vars
  BY <1>2, <1>6 DEF vars, StreakStored
<1> QED
  BY <1>1, <1>3, <1>4, <1>5, <1>6 DEF Next

\* What the job counts reaches the threshold when the streak does.
LEMMA CountsStreak ==
    ASSUME StreakStored PROVE ConsecutiveYellow >= Threshold <=> streak = Threshold
<1> DEFINE Leading(n) == \A k \in 1..n : snapshots[k] = Yellow
           Longest(n) == Leading(n) /\ \A k \in 0..Len(snapshots) : Leading(k) => k <= n
<1>1. Threshold \in Nat /\ streak \in 0..Threshold /\ Len(snapshots) \in Nat
      /\ streak <= Len(snapshots) /\ Len(snapshots) <= Threshold + 1
  BY ConstantsOK DEF StreakStored
<1>2. Leading(streak)
  BY DEF StreakStored
<1>3. ConsecutiveYellow = CHOOSE n \in 0..Len(snapshots) : Longest(n)
  BY DEF ConsecutiveYellow, Fetched
<1>4. CASE streak < Threshold
  <2>1. ASSUME NEW k \in 0..Len(snapshots), Leading(k) PROVE k <= streak
    <3> SUFFICES ASSUME k > streak PROVE FALSE
      BY <1>1
    <3>1. streak + 1 \in 1..k /\ Len(snapshots) # streak
      BY <1>1
    <3> QED BY <1>4, <2>1, <3>1 DEF StreakStored
  <2>2. Longest(streak)
    BY <1>2, <2>1
  <2> HIDE DEF Longest
  <2>3. ConsecutiveYellow \in 0..Len(snapshots) /\ Longest(ConsecutiveYellow)
    BY <1>1, <1>3, <2>2
  <2>4. ConsecutiveYellow <= streak
    BY <2>1, <2>3 DEF Longest
  <2> QED BY <1>1, <1>4, <2>3, <2>4
<1>5. CASE streak = Threshold
  <2>1. \E n \in 0..Len(snapshots) : Longest(n)
    <3>1. CASE Len(snapshots) = Threshold
      <4>1. Longest(Threshold)
        BY <1>1, <1>2, <1>5, <3>1
      <4> QED BY <1>1, <3>1, <4>1
    <3>2. CASE Len(snapshots) = Threshold + 1 /\ snapshots[Threshold + 1] = Yellow
      <4>1. Leading(Threshold + 1)
        BY <1>1, <1>2, <1>5, <3>2
      <4>2. Longest(Threshold + 1)
        BY <1>1, <3>2, <4>1
      <4> QED BY <1>1, <3>2, <4>2
    <3>3. CASE Len(snapshots) = Threshold + 1 /\ snapshots[Threshold + 1] # Yellow
      <4>1. ~Leading(Threshold + 1)
        BY <1>1, <3>3
      <4>2. Longest(Threshold)
        BY <1>1, <1>2, <1>5, <3>3, <4>1
      <4> HIDE DEF Longest
      <4>3. Threshold \in 0..Len(snapshots)
        BY <1>1, <3>3
      <4> QED BY <4>2, <4>3
    <3> QED BY <1>1, <1>5, <3>1, <3>2, <3>3
  <2> HIDE DEF Longest
  <2>2. ConsecutiveYellow \in 0..Len(snapshots) /\ Longest(ConsecutiveYellow)
    BY <1>3, <2>1
  <2>3. Threshold <= ConsecutiveYellow
    BY <1>1, <1>2, <1>5, <2>2 DEF Longest
  <2> QED BY <1>1, <1>5, <2>2, <2>3
<1> QED BY <1>1, <1>4, <1>5

THEOREM StreakInductive == Spec => []StreakStored
<1>1. Inv /\ StreakStored /\ [Next]_vars => StreakStored'
  BY StreakStep DEF Inv
<1> QED
  BY <1>1, StreakInit, Inductive, PTL DEF Spec

\* Every variable keeps its type, for all thresholds and intervals.
THEOREM TypeCorrect == Spec => []TypeOK
<1>1. Inv /\ StreakStored => TypeOK
  BY DEF Inv, Types, StreakStored, TypeOK
<1> QED
  BY <1>1, Inductive, StreakInductive, PTL

\* The suggestion comes with the streak, for every threshold.
THEOREM SuggestsInTime == Spec => SuggestsOnStreak
<1>1. StreakStored /\ [Next]_vars =>
          [(aa = "count" /\ aa' # aa /\ up') =>
              \/ aa' = "log"
              \/ (aa' = "suggest") = (streak = Threshold)]_vars
  <2> SUFFICES ASSUME StreakStored, [Next]_vars, aa = "count", aa' # aa, up'
               PROVE  aa' = "log" \/ (aa' = "suggest") = (streak = Threshold)
    OBVIOUS
  <2>1. CountYellow \/ CountFailed
    BY DEF Next, vars, AaGoes, LaunchEnds, MissCheck, StartCheck, Classify, FetchFailed, SendAlert,
           RecordAlerts, StoreSnapshot, UpdateBot, StartAutoAdjust, EndAutoAdjust,
           Crash, Restart, Tick
  <2>2. CASE CountYellow
    BY <2>2, CountsStreak DEF CountYellow, AaGoes
  <2>3. CASE CountFailed
    BY <2>3 DEF CountFailed, AaGoes
  <2> QED BY <2>1, <2>2, <2>3
<1> QED
  BY <1>1, StreakInductive, PTL DEF Spec, SuggestsOnStreak

\* No alert is ever held back by the debouncing.
THEOREM Undebounced == Spec => []NothingSuppressed
BY Inductive, AllFresh, PTL

\* The chat hears of a new status before the row takes it, or its message was
\* lost.
THEOREM ToldFirst == Spec => StoredWasTold
<1>1. Inv /\ [Next]_vars => [health' # health => told = health' \/ check.lost]_vars
  BY NextInv DEF ToldOrLost
<1> QED
  BY <1>1, Inductive, PTL DEF Spec, StoredWasTold

\* The chat and the row agree between checks.
THEOREM Agreement == Spec => []ChatAgrees
<1>1. Inv => ChatAgrees
  BY DEF Inv, Types, Chat, ChatAgrees
<1> QED
  BY <1>1, Inductive, PTL

\* The checks never stop while the process is up.
THEOREM KeepComing == Spec => []ChecksKeepComing
<1>1. Inv => ChecksKeepComing
  BY DEF Inv
<1> QED
  BY <1>1, Inductive, PTL

---------------------------------------------------------------------------
(* The refinement of the Bulletin *)

\* A check that is past its message found the status of the row, or has
\* alerts: the ones it sent.
Informed ==
    check.pc \in {"record", "snapshot", "update"} =>
        check.alerts # {} \/ check.status = health

LEMMA InformedInit == Init => Informed
BY DEF Init, Informed

\* Only SendAlert brings a check past its message, and the alerts it finds
\* stale would include a change of status.
LEMMA InformedStep == ASSUME Inv, Informed, [Next]_vars PROVE Informed'
<1>1. check \in Check
  BY DEF Inv, Types
<1>2. CASE UNCHANGED <<check, health>>
  BY <1>2 DEF Informed
<1>3. CASE check'.pc \notin {"record", "snapshot", "update"}
  BY <1>3 DEF Informed
<1>4. CASE SendAlert
  <2>1. FreshAlerts = check.alerts /\ check.prev = health
    BY <1>4, AllFresh DEF SendAlert, Inv, Chat, NothingSuppressed, Doing
  <2>2. CASE check.alerts = {}
    <3>1. check.status = health
      BY <1>4, <2>1, <2>2 DEF SendAlert, Doing, Inv, Chat
    <3>2. check' = [check EXCEPT !.pc = "snapshot"] /\ UNCHANGED health
      BY <1>4, <2>1, <2>2 DEF SendAlert, CheckGoes
    <3>3. check'.status = check.status
      BY <1>1, <3>2 DEF Check
    <3> QED
      BY <3>1, <3>2, <3>3 DEF Informed
  <2>3. CASE check.alerts # {}
    <3>1. Message(TRUE) \/ Message(FALSE)
      BY <1>4, <2>1, <2>3 DEF SendAlert
    <3>2. check'.alerts = check.alerts
      BY <1>1, <2>1, <3>1 DEF Message, Check
    <3> QED
      BY <2>3, <3>2 DEF Informed
  <2> QED
    BY <2>2, <2>3
<1>5. CASE RecordAlerts \/ StoreSnapshot
  <2>1. /\ check.pc \in {"record", "snapshot"} /\ UNCHANGED health
        /\ check' = [check EXCEPT !.pc = "snapshot"] \/ check' = [check EXCEPT !.pc = "update"]
    BY <1>5 DEF RecordAlerts, StoreSnapshot, Doing, CheckGoes
  <2>2. check'.alerts = check.alerts /\ check'.status = check.status
    BY <1>1, <2>1 DEF Check
  <2> QED
    BY <2>1, <2>2 DEF Informed
<1>6. CASE FetchFailed \/ UpdateBot \/ Crash
  BY <1>1, <1>3, <1>6, EndsCheck DEF FetchFailed, UpdateBot, Crash, Ended
<1>7. CASE StartCheck \/ Classify
  BY <1>1, <1>3, <1>7 DEF StartCheck, Classify, Check
<1>8. CASE Restart
  <2>1. check.pc = "idle" /\ check' = [check EXCEPT !.start = now]
    BY <1>8 DEF Restart, Inv, Timing
  <2>2. check'.pc = "idle"
    BY <1>1, <2>1 DEF Check
  <2> QED
    BY <1>3, <2>2
<1> QED
  BY <1>2, <1>4, <1>5, <1>6, <1>7, <1>8 DEF Next, vars, LaunchEnds, MissCheck, StartAutoAdjust,
     CountYellow, CountFailed, EndAutoAdjust, Tick

LEMMA InitBulletin == Init => B!Init
BY DEF Init, B!Init, News

\* What a check carries is never mistaken for nothing.
LEMMA SomeNews ==
    ASSUME NEW s \in HealthStatus, NEW h \in BOOLEAN PROVE [status |-> s, heard |-> h] # None
BY NoNews

\* A check that ends has its news stored or dropped, if it has any.
LEMMA EndsBulletin ==
    ASSUME Inv, Informed, EndCheck, UNCHANGED told,
           \/ UNCHANGED health
           \/ check.pc = "update" /\ health' = check.status
    PROVE  [B!Next]_(B!vars)
<1>1. check \in Check /\ News' = None
  BY EndsCheck DEF Inv, Types, Ended, News
<1>2. CASE News = None
  <2>1. ASSUME check.pc = "update", health' = check.status PROVE UNCHANGED health
    <3>1. CASE check.status = health
      BY <2>1, <3>1
    <3>2. CASE check.status # health
      <4>1. News = [status |-> check.status, heard |-> ~check.lost]
        BY <2>1, <3>2 DEF Informed, News
      <4> QED
        BY <1>1, <1>2, <4>1, SomeNews DEF Check
    <3> QED
      BY <3>1, <3>2
  <2> QED
    BY <1>1, <1>2, <2>1 DEF B!vars
<1>3. CASE News # None
  <2>1. News = [status |-> check.status, heard |-> ~check.lost]
    BY <1>3 DEF News
  <2>2. News.status = check.status
    BY <2>1
  <2>3. CASE UNCHANGED health
    BY <1>1, <1>3, <2>3 DEF B!Next, B!Drop
  <2>4. CASE health' = check.status
    BY <1>1, <1>3, <2>2, <2>4 DEF B!Next, B!Store
  <2> QED
    BY <2>3, <2>4
<1> QED
  BY <1>2, <1>3

\* The message announces another status, or repeats that of the row.
LEMMA SendBulletin ==
    ASSUME Inv, SendAlert PROVE [B!Next]_(B!vars)
<1>1. /\ check.pc = "alert" /\ check \in Check /\ News = None
      /\ FreshAlerts = check.alerts /\ UNCHANGED health
      /\ check.alerts = {} => check.status = health
  BY AllFresh DEF SendAlert, Doing, Inv, Types, Chat, NothingSuppressed, News
<1>2. CASE check.alerts = {}
  <2>1. check' = [check EXCEPT !.pc = "snapshot"] /\ UNCHANGED told
    BY <1>1, <1>2 DEF SendAlert, CheckGoes
  <2>2. check'.alerts = {}
    BY <1>1, <1>2, <2>1 DEF Check
  <2> QED
    BY <1>1, <2>1, <2>2 DEF News, B!vars
<1>3. CASE check.alerts # {}
  <2>1. PICK lost \in BOOLEAN :
           /\ check' = [check EXCEPT !.pc = "record", !.alerts = check.alerts, !.at = now,
                                     !.lost = lost]
           /\ told' = IF lost THEN told ELSE check.status
    BY <1>1, <1>3 DEF SendAlert, Message
  <2>2. /\ check'.pc = "record" /\ check'.alerts = check.alerts
        /\ check'.status = check.status /\ check'.lost = lost
    BY <1>1, <2>1 DEF Check
  <2>3. CASE check.status = health
    <3>1. News' = None
      BY <1>1, <2>2, <2>3 DEF News
    <3>2. told' = health \/ told' = told
      BY <2>1, <2>3
    <3> QED
      BY <1>1, <3>1, <3>2 DEF B!Next, B!Remind, B!vars
  <2>4. CASE check.status # health
    <3>1. News' = [status |-> check.status, heard |-> ~lost]
      BY <1>1, <1>3, <2>2, <2>4 DEF News
    <3>2. told' = IF ~lost THEN check.status ELSE told
      BY <2>1
    <3>3. check.status \in HealthStatus
      BY <1>1 DEF Check
    <3>4. (~lost) \in BOOLEAN
      BY <2>1, Zenon
    <3>5. B!Announce(check.status, ~lost)
      BY <1>1, <2>4, <3>1, <3>2 DEF B!Announce
    <3> QED
      BY <3>3, <3>4, <3>5 DEF B!Next
  <2> QED
    BY <2>3, <2>4
<1> QED
  BY <1>2, <1>3

\* Every other step is none of the Bulletin's.
LEMMA NextBulletin == ASSUME Inv, Informed, [Next]_vars PROVE [B!Next]_(B!vars)
<1>1. check \in Check
  BY DEF Inv, Types
<1>2. CASE UNCHANGED <<check, health, told>>
  BY <1>2 DEF News, B!vars
<1>3. CASE SendAlert
  BY <1>3, SendBulletin
<1>4. CASE FetchFailed \/ UpdateBot \/ Crash
  BY <1>4, EndsBulletin DEF FetchFailed, UpdateBot, Crash, Doing
<1>5. CASE RecordAlerts \/ StoreSnapshot
  <2>1. /\ check.pc \in {"record", "snapshot"} /\ UNCHANGED <<health, told>>
        /\ check' = [check EXCEPT !.pc = "snapshot"] \/ check' = [check EXCEPT !.pc = "update"]
    BY <1>5 DEF RecordAlerts, StoreSnapshot, Doing, CheckGoes
  <2>2. /\ check'.alerts = check.alerts /\ check'.status = check.status
        /\ check'.lost = check.lost /\ check'.pc \in {"snapshot", "update"}
    BY <1>1, <2>1 DEF Check
  <2>3. News' = News
    BY <2>1, <2>2 DEF News
  <2> QED
    BY <2>1, <2>3 DEF B!vars
<1>6. CASE StartCheck \/ Classify \/ Restart
  <2>1. /\ check.pc \in {"idle", "fetch"} /\ check'.pc \in {"idle", "fetch", "alert"}
        /\ UNCHANGED <<health, told>>
    BY <1>1, <1>6 DEF StartCheck, Classify, Restart, Doing, Inv, Timing, Check
  <2>2. News = None /\ News' = None
    BY <2>1 DEF News
  <2> QED
    BY <2>1, <2>2 DEF B!vars
<1> QED
  BY <1>2, <1>3, <1>4, <1>5, <1>6 DEF Next, vars, LaunchEnds, MissCheck, StartAutoAdjust,
     CountYellow, CountFailed, EndAutoAdjust, Tick

THEOREM InformedInductive == Spec => []Informed
<1>1. Inv /\ Informed /\ [Next]_vars => Informed'
  BY InformedStep
<1> QED
  BY <1>1, InformedInit, Inductive, PTL DEF Spec

\* For all intervals, debounce times and durations that satisfy RareChecks,
\* the monitoring implements the Bulletin.
THEOREM BulletinImplementation == Spec => ImplementsBulletin
<1>1. Inv /\ Informed /\ [Next]_vars => [B!Next]_(B!vars)
  BY NextBulletin
<1> QED
  BY <1>1, InitBulletin, Inductive, InformedInductive, PTL DEF Spec, ImplementsBulletin, B!Spec

============================================================================
