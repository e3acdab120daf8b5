--------------------------- MODULE AdvisorProofs ---------------------------
(* What holds of the assessments for every list of symbols, every number   *)
(* of runs, every window and every market.                                 *)
EXTENDS LedgerRefinement, TLAPS, WellFoundedInduction

---------------------------------------------------------------------------
(* The inductive invariant *)

Running == {"gate1", "market", "history", "store"}

\* What a run knows at each await.
TaskOK(k) ==
    /\ k.pc # "idle" => k.n \in DOMAIN Order /\ k.kind \in Kinds
    /\ k.pc = "store" => k.funding \in Fundings /\ k.new \in Interests
    /\ k.pc = "history" => k.funding \in Fundings /\ k.new \in Interests
    /\ k.pc # "store" => k.base = None
    /\ k.pc \in Running => k.g2 = None
    /\ k.kind = "daily" => k.pc \notin {"gate1", "gate3"}
    /\ k.kind = "reconfigure" => k.pc \notin {"persist", "previous", "notify"}
    /\ k.kind = "weekly" =>
          /\ k.pc # "previous"
          /\ k.pc \in {"market", "history", "store", "gate3"} => k.g1 \in {Pass, Caution}
          /\ k.pc = "persist" =>
                \/ k.g1 = Fail /\ k.g2 = None
                \/ k.g1 \in {Pass, Caution} /\ k.g2 \in Result /\ k.g3 \in GateStatus
    /\ k.pc = "gate3" => k.g2 \in Result
    /\ k.kind = "daily" /\ k.pc \in {"persist", "previous"} => k.g2 \in Result
    /\ k.g2 # None /\ k.g2.from = None => k.g2.status = Caution
    /\ k.g2 # None /\ k.g2.from = Lost => Failures

StoredOn(s, d) == \E x \in snaps[s] : x.at.day = d

\* A run at k holds a gate-2 result, not yet part of a verdict, that judges
\* the snapshot stored for s on day d.
Holds(k, s, d) ==
    /\ k.pc \in {"gate3", "persist"}
    /\ Order[k.n] = s
    /\ k.g2 # None
    /\ k.g2.from = d

\* A stored snapshot is one of its day, and not of a day to come.
OneADay ==
    \A s \in Watched :
        /\ \A x, y \in snaps[s] : x.at.day = y.at.day => x = y
        /\ \A x \in snaps[s] : x.at.day <= now.day

\* A snapshot is judged by one run at a time and by one verdict in all: it is
\* either still unjudged, or held by one run, or spent.
JudgedOnce ==
    \A s \in Watched, d \in Days :
        /\ judged[s][d] <= 1
        /\ judged[s][d] = 1 => StoredOn(s, d)
        /\ \A t \in Tasks : Holds(tasks[t], s, d) => StoredOn(s, d) /\ judged[s][d] = 0
        /\ \A t, u \in Tasks : Holds(tasks[t], s, d) /\ Holds(tasks[u], s, d) => t = u

LaunchesHaveSnapshot ==
    \A s \in Watched :
        (last[s] # None /\ last[s].action = "launch")
            => last[s].g2 # None /\ last[s].g2.from # None

\* With no failures and one run the newest verdict is the run's own.
Undisturbed == ~Failures /\ \A t, u \in Tasks : t = u
Silent(k) ==
    /\ ~(k.kind = "daily" /\ k.pc = "notify")
    /\ k.pc = "previous" => PreviousStatus(Order[k.n]) = k.g2.status
OwnVerdictLast == Undisturbed => \A t \in Tasks : Silent(tasks[t])

IInv ==
    /\ TypeOK
    /\ \A t \in Tasks : TaskOK(tasks[t])
    /\ OneADay
    /\ JudgedOnce
    /\ LaunchesHaveSnapshot
    /\ BaseIsOlder
    /\ OwnVerdictLast

---------------------------------------------------------------------------
(* Facts about the operators *)

\* Days are naturals, and no mark for a missing snapshot is a day.
LEMMA DayFacts ==
    /\ Days \subseteq Nat
    /\ None \notin Days /\ Lost \notin Days
    /\ \A x \in Snapshot : x.at.day \in Days /\ x.at \in Time
    /\ \A x \in Time : x.day \in Days /\ x.day \in Nat
    /\ None \notin Result /\ None \notin Snapshot /\ None \notin Time
BY ConstantsOK DEF Days, Snapshot, Time

\* A non-empty table has an oldest row.
LEMMA OldestIs ==
    ASSUME NEW rows \in SUBSET Snapshot, rows # {}
    PROVE  /\ Oldest(rows) \in rows
           /\ \A y \in rows : Oldest(rows).at.day <= y.at.day
<1> DEFINE T == {x.at.day : x \in rows}
<1>1. T \subseteq Nat /\ T # {}
  BY DayFacts
<1>2. PICK m \in T : \A k \in T : <<k, m>> \notin OpToRel(<, Nat)
  <2> HIDE DEF T
  <2> QED
    BY <1>1, WFMin, NatLessThanWellFounded, Zenon
<1>3. \A k \in T : m <= k
  <2> SUFFICES ASSUME NEW k \in T PROVE m <= k
    OBVIOUS
  <2>1. k \in Nat /\ m \in Nat
    BY <1>1, <1>2
  <2>2. ~(k < m)
    <3> HIDE DEF T
    <3> QED
      BY <1>2, <2>1, Zenon DEF OpToRel
  <2> QED
    BY <2>1, <2>2
<1>4. \E x \in rows : \A y \in rows : x.at.day <= y.at.day
  BY <1>2, <1>3
<1> QED
  BY <1>4 DEF Oldest

\* The base of a change is a row of the history, and older than today.
LEMMA BaseOfIs ==
    ASSUME TypeOK, OneADay, NEW s \in Watched, NEW rows \in SUBSET snaps[s]
    PROVE  /\ BaseOf(rows) \in Snapshot \cup {None}
           /\ BaseOf(rows) # None => BaseOf(rows).at.day < now.day
<1>1. rows \subseteq Snapshot /\ snaps[s] \subseteq Snapshot
  BY DEF TypeOK
<1>2. CASE ~ \E x, y \in rows : x # y
  BY <1>2 DEF BaseOf
<1>3. CASE \E x, y \in rows : x # y
  <2>1. PICK x, y \in rows : x # y
    BY <1>3
  <2> DEFINE b == Oldest(rows)
  <2>2. b \in rows /\ b.at.day <= x.at.day /\ b.at.day <= y.at.day
    BY <1>1, <2>1, OldestIs
  <2>3. BaseOf(rows) = b
    BY <1>3 DEF BaseOf
  <2> HIDE DEF b
  <2>4. /\ x.at.day \in Nat /\ y.at.day \in Nat /\ b.at.day \in Nat /\ now.day \in Nat
    BY <1>1, <2>1, <2>2, DayFacts DEF TypeOK
  <2>5. /\ x.at.day # y.at.day
        /\ x.at.day <= now.day /\ y.at.day <= now.day
    BY <1>1, <2>1 DEF OneADay
  <2> QED
    BY <1>1, <2>2, <2>3, <2>4, <2>5
<1> QED
  BY <1>2, <1>3

\* The gates answer with one of the three statuses.
LEMMA PositioningStatus ==
    ASSUME NEW f, NEW oi PROVE Positioning(f, oi) \in GateStatus
BY DEF Positioning, EvaluateChecks, GateStatus, Pass, Caution, Fail

\* A launch needs a gate 2 without FAIL and without CAUTION.
LEMMA ResolveIs ==
    ASSUME NEW g1, NEW g2, NEW g3
    PROVE  /\ Resolve(GatesRun(g1, g2, g3)) \in Actions
           /\ Resolve(GatesRun(g1, g2, g3)) = "launch" => g1 # Fail /\ g2 # Caution
<1>1. Resolve(GatesRun(g1, g2, g3)) \in Actions
  BY DEF Resolve, Actions
<1>2. CASE g1 = Fail
  <2>1. GatesRun(g1, g2, g3) = <<g1>> /\ 1 \in DOMAIN <<g1>>
    BY <1>2 DEF GatesRun
  <2> QED
    BY <1>1, <1>2, <2>1 DEF Resolve
<1>3. CASE g1 # Fail
  <2>1. GatesRun(g1, g2, g3) = <<g1, g2, g3>> /\ 2 \in DOMAIN <<g1, g2, g3>>
    BY <1>3 DEF GatesRun
  <2> QED
    BY <1>1, <1>3, <2>1 DEF Resolve
<1> QED
  BY <1>1, <1>2, <1>3

---------------------------------------------------------------------------
(* A run's next state *)

\* A run that has just begun a symbol, or is over.
Fresh(k) ==
    /\ k \in Task /\ TaskOK(k)
    /\ k.base = None /\ k.g2 = None
    /\ k.pc \in {"idle", "gate1", "market"}

\* The order of the symbols is a sequence of watched symbols.
LEMMA OrderFacts ==
    /\ Len(Order) \in Nat \ {0}
    /\ DOMAIN Order = 1..Len(Order)
    /\ \A n \in DOMAIN Order : Order[n] \in Watched
BY ConstantsOK DEF Watched

\* An idle run is fresh.
LEMMA IdleFresh == Fresh(Idle)
BY ConstantsOK DEF Fresh, Idle, Task, TaskOK, Pcs, Kinds, Running

\* So is a run at the beginning of a symbol.
LEMMA BeginFresh ==
    ASSUME NEW kind \in Kinds, NEW n \in DOMAIN Order, TypeOK
    PROVE  Fresh(BeginSymbol(kind, n))
<1> DEFINE k == BeginSymbol(kind, n)
<1>1. now \in Time /\ now # None
  BY DayFacts DEF TypeOK
<1>2. /\ k.kind = kind /\ k.n = n /\ k.base = None /\ k.g2 = None
      /\ k.pc = IF kind = "daily" THEN "market" ELSE "gate1"
  BY DEF BeginSymbol, Idle
<1>3. k \in Task
  <2>1. Idle \in Task
    BY IdleFresh DEF Fresh
  <2> DEFINE i == Idle
  <2> HIDE DEF i
  <2>2. CASE kind = "daily"
    <3>1. [i EXCEPT !.kind = kind, !.n = n, !.pc = "market", !.asOf = now] \in Task
      BY <1>1, <2>1 DEF Task, Pcs, i
    <3> QED
      BY <2>2, <3>1 DEF BeginSymbol, i
  <2>3. CASE kind # "daily"
    <3>1. [i EXCEPT !.kind = kind, !.n = n, !.pc = "gate1", !.asOf = None] \in Task
      BY <2>1 DEF Task, Pcs, i
    <3> QED
      BY <2>3, <3>1 DEF BeginSymbol, i
  <2> QED
    BY <2>2, <2>3
<1> HIDE DEF k
<1>4. TaskOK(k)
  BY <1>2 DEF TaskOK, Running
<1> QED
  BY <1>2, <1>3, <1>4 DEF Fresh, k

\* The end of a symbol leaves the run fresh.
LEMMA EndFresh ==
    ASSUME NEW t \in Tasks, TypeOK, TaskOK(tasks[t]), tasks[t].pc # "idle", EndSymbol(t)
    PROVE  \E k : Fresh(k) /\ tasks' = [tasks EXCEPT ![t] = k]
<1>1. tasks[t].n \in DOMAIN Order /\ tasks[t].kind \in Kinds
  BY DEF TaskOK
<1>2. CASE tasks[t].kind = "reconfigure" \/ tasks[t].n = Len(Order)
  BY <1>2, IdleFresh DEF EndSymbol, Become
<1>3. CASE ~(tasks[t].kind = "reconfigure" \/ tasks[t].n = Len(Order))
  <2>1. tasks[t].n + 1 \in DOMAIN Order
    BY <1>1, <1>3, OrderFacts
  <2>2. Fresh(BeginSymbol(tasks[t].kind, tasks[t].n + 1))
    BY <1>1, <2>1, BeginFresh
  <2> QED
    BY <1>3, <2>2 DEF EndSymbol, Become
<1> QED
  BY <1>2, <1>3

\* What k has to be, for a run at t to go on with it while the tables stay as
\* they are.
Quiet(t, k) ==
    /\ k \in Task /\ TaskOK(k)
    /\ k.base # None => k.base.at.day < now.day
    /\ Undisturbed => Silent(k)
    /\ \A s \in Watched, d \in Days : Holds(k, s, d) => Holds(tasks[t], s, d)

\* A fresh run is quiet.
LEMMA FreshQuiet ==
    ASSUME NEW t, NEW k, Fresh(k) PROVE Quiet(t, k)
BY DEF Fresh, Quiet, Silent, Holds

\* A quiet step keeps the invariant.
LEMMA QuietStep ==
    ASSUME IInv, NEW t \in Tasks, NEW k, Quiet(t, k),
           tasks' = [tasks EXCEPT ![t] = k],
           UNCHANGED <<now, snaps, last, judged>>
    PROVE  IInv'
<1>1. /\ tasks \in [Tasks -> Task] /\ k \in Task
      /\ \A u \in Tasks : tasks'[u] = IF u = t THEN k ELSE tasks[u]
  BY DEF IInv, TypeOK, Quiet
<1>2. TypeOK'
  BY <1>1 DEF IInv, TypeOK
<1>3. \A u \in Tasks : TaskOK(tasks'[u])
  BY <1>1 DEF IInv, Quiet
<1>4. OneADay' /\ LaunchesHaveSnapshot'
  BY DEF IInv, OneADay, LaunchesHaveSnapshot
<1>5. JudgedOnce'
  <2>1. \A u \in Tasks, s \in Watched, d \in Days :
           Holds(tasks'[u], s, d) => Holds(tasks[u], s, d)
    BY <1>1 DEF Quiet
  <2>2. \A s \in Watched, d \in Days : StoredOn(s, d)' = StoredOn(s, d)
    BY DEF StoredOn
  <2>3. SUFFICES ASSUME NEW s \in Watched, NEW d \in Days
                 PROVE  /\ judged[s][d] <= 1
                        /\ judged[s][d] = 1 => StoredOn(s, d)
                        /\ \A u \in Tasks : Holds(tasks'[u], s, d)
                              => StoredOn(s, d) /\ judged[s][d] = 0
                        /\ \A u, v \in Tasks :
                              Holds(tasks'[u], s, d) /\ Holds(tasks'[v], s, d) => u = v
    BY <2>2 DEF JudgedOnce, Holds
  <2> QED
    BY <2>1 DEF IInv, JudgedOnce
<1>6. BaseIsOlder'
  BY <1>1 DEF IInv, BaseIsOlder, Quiet
<1>7. OwnVerdictLast'
  <2>1. Undisturbed => \A u \in Tasks : Silent(tasks'[u])
    BY <1>1 DEF IInv, OwnVerdictLast, Quiet
  <2> QED
    BY <2>1 DEF OwnVerdictLast, Undisturbed, Silent, PreviousStatus
<1> QED
  BY <1>2, <1>3, <1>4, <1>5, <1>6, <1>7 DEF IInv, TaskOK

\* Ending a symbol is quiet.
LEMMA EndQuiet ==
    ASSUME IInv, NEW t \in Tasks, tasks[t].pc # "idle", EndSymbol(t)
    PROVE  \E k : Quiet(t, k) /\ tasks' = [tasks EXCEPT ![t] = k]
BY EndFresh, FreshQuiet DEF IInv

---------------------------------------------------------------------------
(* The actions *)

\* Beginning an assessment.
LEMMA StartKeeps ==
    ASSUME IInv, NEW t \in Tasks, Start(t) PROVE IInv'
<1>1. \E k : Fresh(k) /\ tasks' = [tasks EXCEPT ![t] = k]
  <2>1. CASE \E k \in {"daily", "weekly"} : Become(t, BeginSymbol(k, 1))
    <3>1. PICK k \in {"daily", "weekly"} : Become(t, BeginSymbol(k, 1))
      BY <2>1
    <3>2. 1 \in DOMAIN Order /\ k \in Kinds
      BY OrderFacts DEF Kinds
    <3>3. Fresh(BeginSymbol(k, 1))
      BY <3>2, BeginFresh DEF IInv
    <3> QED
      BY <3>1, <3>3 DEF Become
  <2>2. CASE \E n \in DOMAIN Order : Become(t, BeginSymbol("reconfigure", n))
    BY <2>2, BeginFresh DEF IInv, Become, Kinds
  <2> QED
    BY <2>1, <2>2 DEF Start
<1> QED
  BY <1>1, FreshQuiet, QuietStep DEF Start

\* Gate 1.
LEMMA Gate1Keeps ==
    ASSUME IInv, NEW t \in Tasks, Gate1(t) PROVE IInv'
<1> DEFINE i == tasks[t]
<1>1. i \in Task /\ TaskOK(i) /\ now \in Time
  BY DEF IInv, TypeOK
<1>2. i.pc = "gate1" /\ i.g2 = None /\ i.base = None /\ i.kind \in Kinds
  BY DEF Gate1, IInv, TaskOK, Running
<1>3. CASE Abandon(t)
  BY <1>2, <1>3, EndQuiet, QuietStep DEF Gate1, Abandon
<1>4. CASE \E g \in GateStatus :
              LET stops == g = Fail /\ i.kind = "weekly" IN
              Become(t, [i EXCEPT !.pc = IF stops THEN "persist" ELSE "market",
                                  !.g1 = IF i.kind = "weekly" THEN g ELSE None,
                                  !.asOf = IF stops THEN None ELSE now])
  <2>1. PICK g \in GateStatus :
          LET stops == g = Fail /\ i.kind = "weekly" IN
          Become(t, [i EXCEPT !.pc = IF stops THEN "persist" ELSE "market",
                              !.g1 = IF i.kind = "weekly" THEN g ELSE None,
                              !.asOf = IF stops THEN None ELSE now])
    BY <1>4
  <2> HIDE DEF i
  <2>2. CASE g = Fail /\ i.kind = "weekly"
    <3> DEFINE k == [i EXCEPT !.pc = "persist", !.g1 = g, !.asOf = None]
    <3>1. k \in Task
      BY <1>1 DEF Task, Pcs
    <3>2. k.pc = "persist" /\ k.g1 = g /\ k.g2 = None /\ k.base = None
          /\ k.kind = i.kind /\ k.n = i.n
      BY <1>1, <1>2 DEF Task
    <3>3. tasks' = [tasks EXCEPT ![t] = k]
      BY <2>1, <2>2 DEF Become, i
    <3> HIDE DEF k
    <3>4. Quiet(t, k)
      BY <1>1, <1>2, <2>2, <3>1, <3>2 DEF Quiet, TaskOK, Running, Silent, Holds
    <3> QED
      BY <3>3, <3>4, QuietStep DEF Gate1
  <2>3. CASE g # Fail /\ i.kind = "weekly"
    <3> DEFINE k == [i EXCEPT !.pc = "market", !.g1 = g, !.asOf = now]
    <3>1. k \in Task
      BY <1>1 DEF Task, Pcs
    <3>2. k.pc = "market" /\ k.g1 = g /\ k.g2 = None /\ k.base = None
          /\ k.kind = i.kind /\ k.n = i.n
      BY <1>1, <1>2, <2>3 DEF Task
    <3>3. tasks' = [tasks EXCEPT ![t] = k]
      BY <2>1, <2>3 DEF Become, i
    <3>4. g \in {Pass, Caution}
      BY <2>3 DEF GateStatus, Pass, Caution, Fail
    <3> HIDE DEF k
    <3>5. Quiet(t, k)
      BY <1>1, <1>2, <3>1, <3>2, <3>4 DEF Quiet, TaskOK, Running, Silent, Holds
    <3> QED
      BY <3>3, <3>5, QuietStep DEF Gate1
  <2>4. CASE i.kind # "weekly"
    <3> DEFINE k == [i EXCEPT !.pc = "market", !.g1 = None, !.asOf = now]
    <3>1. k \in Task
      BY <1>1 DEF Task, Pcs
    <3>2. k.pc = "market" /\ k.g2 = None /\ k.base = None
          /\ k.kind = i.kind /\ k.n = i.n
      BY <1>1, <1>2, <2>4 DEF Task
    <3>3. tasks' = [tasks EXCEPT ![t] = k]
      BY <2>1, <2>4 DEF Become, i
    <3> HIDE DEF k
    <3>4. Quiet(t, k)
      BY <1>1, <1>2, <2>4, <3>1, <3>2 DEF Quiet, TaskOK, Running, Silent, Holds
    <3> QED
      BY <3>3, <3>4, QuietStep DEF Gate1
  <2> QED
    BY <2>2, <2>3, <2>4
<1> QED
  BY <1>3, <1>4 DEF Gate1

\* The market data.
LEMMA FetchMarketKeeps ==
    ASSUME IInv, NEW t \in Tasks, FetchMarket(t) PROVE IInv'
<1> DEFINE i == tasks[t]
<1>1. i \in Task /\ TaskOK(i)
  BY DEF IInv, TypeOK
<1>2. i.pc = "market" /\ i.g2 = None /\ i.base = None
  BY DEF FetchMarket, IInv, TaskOK, Running
<1>3. CASE Abandon(t)
  BY <1>2, <1>3, EndQuiet, QuietStep DEF FetchMarket, Abandon
<1>4. CASE \E f \in Fundings, v \in Interests :
              Become(t, [i EXCEPT !.pc = "history", !.funding = f, !.new = v])
  <2>1. PICK f \in Fundings, v \in Interests :
          Become(t, [i EXCEPT !.pc = "history", !.funding = f, !.new = v])
    BY <1>4
  <2> DEFINE k == [i EXCEPT !.pc = "history", !.funding = f, !.new = v]
  <2> HIDE DEF i
  <2>2. k \in Task
    BY <1>1 DEF Task, Pcs
  <2>3. k.pc = "history" /\ k.funding = f /\ k.new = v /\ k.g1 = i.g1 /\ k.g2 = None
        /\ k.base = None /\ k.kind = i.kind /\ k.n = i.n
    BY <1>1, <1>2 DEF Task
  <2>4. tasks' = [tasks EXCEPT ![t] = k]
    BY <2>1 DEF Become, i
  <2> HIDE DEF k
  <2>5. Quiet(t, k)
    BY <1>1, <1>2, <2>2, <2>3 DEF Quiet, TaskOK, Running, Silent, Holds
  <2> QED
    BY <2>4, <2>5, QuietStep DEF FetchMarket
<1> QED
  BY <1>3, <1>4 DEF FetchMarket

\* The history.
LEMMA ReadHistoryKeeps ==
    ASSUME IInv, NEW t \in Tasks, ReadHistory(t) PROVE IInv'
<1> DEFINE i == tasks[t]
           rows == Recent(Sym(t), i.asOf)
           b == BaseOf(rows)
<1>1. i \in Task /\ TaskOK(i)
  BY DEF IInv, TypeOK
<1>2. i.pc = "history" /\ i.g2 = None /\ i.n \in DOMAIN Order
  BY DEF ReadHistory, IInv, TaskOK, Running
<1>3. CASE Abandon(t)
  BY <1>2, <1>3, EndQuiet, QuietStep DEF ReadHistory, Abandon
<1>4. CASE Become(t, [i EXCEPT !.pc = "store", !.asOf = None, !.base = b])
  <2>1. b \in Snapshot \cup {None} /\ (b # None => b.at.day < now.day)
    <3>1. Sym(t) \in Watched
      BY <1>2, OrderFacts DEF Sym
    <3>2. rows \in SUBSET snaps[Sym(t)]
      BY DEF Recent
    <3> HIDE DEF rows
    <3> QED
      BY <3>1, <3>2, BaseOfIs DEF IInv
  <2> DEFINE k == [i EXCEPT !.pc = "store", !.asOf = None, !.base = b]
  <2> HIDE DEF i, b
  <2>2. k \in Task
    BY <1>1, <2>1 DEF Task, Pcs
  <2>3. k.pc = "store" /\ k.base = b /\ k.funding = i.funding /\ k.new = i.new
        /\ k.g1 = i.g1 /\ k.g2 = None /\ k.kind = i.kind /\ k.n = i.n
    BY <1>1, <1>2 DEF Task
  <2>4. tasks' = [tasks EXCEPT ![t] = k]
    BY <1>4 DEF Become, i, b
  <2> HIDE DEF k
  <2>5. Quiet(t, k)
    BY <1>1, <1>2, <2>1, <2>2, <2>3 DEF Quiet, TaskOK, Running, Silent, Holds
  <2> QED
    BY <2>4, <2>5, QuietStep DEF ReadHistory
<1> QED
  BY <1>3, <1>4 DEF ReadHistory

\* What gate 2 leaves a run with.
LEMMA Gate2Leaves ==
    ASSUME IInv, NEW t \in Tasks, tasks[t].pc = "store",
           NEW result \in Result, result.from = None => result.status = Caution,
           result.from = Lost => Failures,
           AfterGate2(t, result)
    PROVE  \E k : /\ tasks' = [tasks EXCEPT ![t] = k]
                  /\ k \in Task /\ TaskOK(k)
                  /\ k.base = None /\ k.g2 = result /\ k.n = tasks[t].n
                  /\ k.pc \in {"persist", "gate3"}
<1> DEFINE i == tasks[t]
<1>1. i \in Task /\ TaskOK(i) /\ i.pc = "store"
  BY DEF IInv, TypeOK
<1>2. i.kind \in Kinds /\ i.n \in DOMAIN Order
  BY <1>1 DEF TaskOK
<1> HIDE DEF i
<1>3. CASE i.kind = "daily"
  <2> DEFINE k == [i EXCEPT !.pc = "persist", !.g2 = result,
                            !.funding = None, !.new = None, !.base = None]
  <2>1. k \in Task
    BY <1>1 DEF Task, Pcs
  <2>2. k.pc = "persist" /\ k.g2 = result /\ k.base = None /\ k.kind = i.kind /\ k.n = i.n
    BY <1>1 DEF Task
  <2>3. tasks' = [tasks EXCEPT ![t] = k]
    BY <1>3 DEF AfterGate2, Become, i
  <2> HIDE DEF k
  <2>4. TaskOK(k)
    BY <1>2, <1>3, <2>2 DEF TaskOK, Running
  <2> QED
    BY <2>1, <2>2, <2>3, <2>4 DEF i
<1>4. CASE i.kind # "daily"
  <2> DEFINE k == [i EXCEPT !.pc = "gate3", !.g2 = result,
                            !.funding = None, !.new = None, !.base = None]
  <2>1. k \in Task
    BY <1>1 DEF Task, Pcs
  <2>2. k.pc = "gate3" /\ k.g2 = result /\ k.base = None /\ k.kind = i.kind /\ k.n = i.n
        /\ k.g1 = i.g1
    BY <1>1 DEF Task
  <2>3. tasks' = [tasks EXCEPT ![t] = k]
    BY <1>4 DEF AfterGate2, Become, i
  <2> HIDE DEF k
  <2>4. TaskOK(k)
    BY <1>1, <1>2, <1>4, <2>2 DEF TaskOK, Running
  <2> QED
    BY <2>1, <2>2, <2>3, <2>4 DEF i
<1> QED
  BY <1>3, <1>4

\* The INSERT of the snapshot that is stored: a new row of a new day, which no
\* run held and no verdict judged before.
LEMMA StoredKeeps ==
    ASSUME IInv, NEW t \in Tasks, tasks[t].pc = "store", ~StoredToday(Sym(t)),
           snaps' = [snaps EXCEPT ![Sym(t)] = @ \cup {[at |-> now, oi |-> tasks[t].new]}],
           AfterGate2(t, JudgeSnapshot(t, now.day)),
           UNCHANGED <<now, last, judged>>
    PROVE  IInv'
<1>1. /\ tasks[t] \in Task /\ TaskOK(tasks[t])
      /\ tasks \in [Tasks -> Task] /\ now \in Time
      /\ snaps \in [Watched -> SUBSET Snapshot]
  BY DEF IInv, TypeOK
<1>2. PICK s0 \in Watched : s0 = Sym(t)
  BY <1>1, OrderFacts DEF TaskOK, Sym
<1>3. PICK d0 \in Days, row \in Snapshot :
        /\ d0 = now.day /\ d0 \in Nat
        /\ row = [at |-> now, oi |-> tasks[t].new] /\ row.at.day = d0
  <2>1. now.day \in Days /\ now.day \in Nat
    BY <1>1, DayFacts
  <2>2. tasks[t].new \in Interests
    BY <1>1 DEF TaskOK
  <2>3. [at |-> now, oi |-> tasks[t].new] \in Snapshot
    BY <1>1, <2>2 DEF Snapshot
  <2> QED
    BY <2>1, <2>3
<1>4. JudgeSnapshot(t, now.day) \in Result /\ JudgeSnapshot(t, now.day).from = d0
  BY <1>3, PositioningStatus DEF JudgeSnapshot, Result
<1>5. PICK k : /\ tasks' = [tasks EXCEPT ![t] = k]
               /\ k \in Task /\ TaskOK(k)
               /\ k.base = None /\ k.g2 = JudgeSnapshot(t, now.day) /\ k.n = tasks[t].n
               /\ k.pc \in {"persist", "gate3"}
  <2>1. None # d0 /\ Lost # d0
    BY <1>3, DayFacts
  <2> QED
    BY <1>4, <2>1, Gate2Leaves
<1>6. \A u \in Tasks : tasks'[u] = IF u = t THEN k ELSE tasks[u]
  BY <1>1, <1>5
<1>7. \A s \in Watched : snaps'[s] = IF s = s0 THEN snaps[s] \cup {row} ELSE snaps[s]
  BY <1>1, <1>2, <1>3
<1>8. TypeOK'
  <2>1. snaps' \in [Watched -> SUBSET Snapshot]
    BY <1>1, <1>2, <1>3
  <2>2. tasks' \in [Tasks -> Task]
    BY <1>1, <1>5
  <2> QED
    BY <2>1, <2>2 DEF IInv, TypeOK
<1>9. (\A u \in Tasks : TaskOK(tasks[u]))'
  BY <1>5, <1>6 DEF IInv, TaskOK
<1>10. \A x \in snaps[s0] : x.at.day # d0
  BY <1>2, <1>3 DEF StoredToday
<1>11. OneADay'
  <2>1. SUFFICES ASSUME NEW s \in Watched
                 PROVE  /\ \A x, y \in snaps'[s] : x.at.day = y.at.day => x = y
                        /\ \A x \in snaps'[s] : x.at.day <= now.day
    BY DEF OneADay
  <2>2. /\ \A x, y \in snaps[s] : x.at.day = y.at.day => x = y
        /\ \A x \in snaps[s] : x.at.day <= now.day
    BY DEF IInv, OneADay
  <2>3. d0 <= now.day
    BY <1>1, <1>3
  <2>4. CASE s = s0
    BY <1>3, <1>7, <1>10, <2>2, <2>3, <2>4
  <2>5. CASE s # s0
    BY <1>7, <2>2, <2>5
  <2> QED
    BY <2>4, <2>5
<1>12. JudgedOnce'
  <2>1. \A s \in Watched, d \in Days : StoredOn(s, d) => StoredOn(s, d)'
    BY <1>7 DEF StoredOn
  <2>2. StoredOn(s0, d0)' /\ ~StoredOn(s0, d0)
    BY <1>2, <1>3, <1>7, <1>10 DEF StoredOn
  <2>3. \A s \in Watched, d \in Days : Holds(k, s, d) <=> s = s0 /\ d = d0
    BY <1>2, <1>4, <1>5, DayFacts DEF Holds, Sym
  <2>4. judged[s0][d0] = 0
    <3>1. judged[s0][d0] \in Nat /\ judged[s0][d0] <= 1
      BY <1>2, <1>3 DEF IInv, TypeOK, JudgedOnce
    <3>2. judged[s0][d0] # 1
      BY <1>2, <1>3, <2>2 DEF IInv, JudgedOnce
    <3> QED
      BY <3>1, <3>2
  <2>5. \A u \in Tasks : ~Holds(tasks[u], s0, d0)
    BY <1>2, <1>3, <2>2 DEF IInv, JudgedOnce
  <2>6. SUFFICES ASSUME NEW s \in Watched, NEW d \in Days
                 PROVE  /\ judged[s][d] <= 1
                        /\ judged[s][d] = 1 => StoredOn(s, d)'
                        /\ \A u \in Tasks : Holds(tasks'[u], s, d)
                              => StoredOn(s, d)' /\ judged[s][d] = 0
                        /\ \A u, v \in Tasks :
                              Holds(tasks'[u], s, d) /\ Holds(tasks'[v], s, d) => u = v
    BY DEF JudgedOnce, Holds
  <2>7. /\ judged[s][d] <= 1
        /\ judged[s][d] = 1 => StoredOn(s, d)
        /\ \A u \in Tasks : Holds(tasks[u], s, d) => StoredOn(s, d) /\ judged[s][d] = 0
        /\ \A u, v \in Tasks : Holds(tasks[u], s, d) /\ Holds(tasks[v], s, d) => u = v
    BY DEF IInv, JudgedOnce
  <2> QED
    BY <1>6, <2>1, <2>2, <2>3, <2>4, <2>5, <2>7
<1>13. BaseIsOlder' /\ LaunchesHaveSnapshot'
  BY <1>5, <1>6 DEF IInv, BaseIsOlder, LaunchesHaveSnapshot
<1>14. OwnVerdictLast'
  <2>1. Undisturbed => \A u \in Tasks : Silent(tasks'[u])
    BY <1>5, <1>6 DEF IInv, OwnVerdictLast, Silent
  <2> QED
    BY <2>1 DEF OwnVerdictLast, Undisturbed, Silent, PreviousStatus
<1> QED
  BY <1>8, <1>9, <1>11, <1>12, <1>13, <1>14 DEF IInv

\* Gate 2's block, with its three outcomes.
LEMMA StoreSnapshotKeeps ==
    ASSUME IInv, NEW t \in Tasks, StoreSnapshot(t) PROVE IInv'
<1>1. tasks[t].pc = "store" /\ now \in Time
  BY DEF StoreSnapshot, IInv, TypeOK
<1>2. CASE /\ ~StoredToday(Sym(t))
           /\ snaps' = [snaps EXCEPT ![Sym(t)] = @ \cup {[at |-> now, oi |-> tasks[t].new]}]
           /\ AfterGate2(t, JudgeSnapshot(t, now.day))
  BY <1>1, <1>2, StoredKeeps DEF StoreSnapshot
<1>3. ASSUME NEW result \in Result, result.from \notin Days,
             result.from = None => result.status = Caution,
             result.from = Lost => Failures,
             AfterGate2(t, result), UNCHANGED snaps
      PROVE  IInv'
  <2>1. PICK k : /\ tasks' = [tasks EXCEPT ![t] = k]
                 /\ k \in Task /\ TaskOK(k)
                 /\ k.base = None /\ k.g2 = result /\ k.n = tasks[t].n
                 /\ k.pc \in {"persist", "gate3"}
    BY <1>1, <1>3, Gate2Leaves
  <2>2. Quiet(t, k)
    BY <1>3, <2>1 DEF Quiet, Silent, Holds
  <2> QED
    BY <1>3, <2>1, <2>2, QuietStep DEF StoreSnapshot
<1>4. JudgeMissing(t) \in Result /\ JudgeMissing(t).from = None
      /\ JudgeMissing(t).status = Caution
  BY DEF JudgeMissing, Positioning, PositioningChecks, HasSnapshot, EvaluateChecks, Rule,
     Result, GateStatus, Pass, Caution, Fail
<1>5. JudgeSnapshot(t, Lost) \in Result /\ JudgeSnapshot(t, Lost).from = Lost
  BY PositioningStatus DEF JudgeSnapshot, Result
<1>6. None # Lost /\ None \notin Days /\ Lost \notin Days
  BY DayFacts, ConstantsOK
<1>7. CASE AfterGate2(t, JudgeMissing(t)) /\ UNCHANGED snaps
  BY <1>3, <1>4, <1>6, <1>7
<1>8. CASE Failures /\ AfterGate2(t, JudgeSnapshot(t, Lost)) /\ UNCHANGED snaps
  BY <1>3, <1>5, <1>6, <1>8
<1> QED
  BY <1>2, <1>7, <1>8 DEF StoreSnapshot

\* Gate 3.
LEMMA Gate3Keeps ==
    ASSUME IInv, NEW t \in Tasks, Gate3(t) PROVE IInv'
<1> DEFINE i == tasks[t]
<1>1. i \in Task /\ TaskOK(i) /\ i.pc = "gate3"
  BY DEF IInv, TypeOK, Gate3
<1>2. CASE Abandon(t) \/ EndSymbol(t)
  BY <1>1, <1>2, EndQuiet, QuietStep DEF Gate3, Abandon
<1>3. CASE /\ i.kind = "weekly"
           /\ \E g \in {Pass, Fail} : Become(t, [i EXCEPT !.pc = "persist", !.g3 = g])
  <2>1. PICK g \in GateStatus : Become(t, [i EXCEPT !.pc = "persist", !.g3 = g])
    <3>1. {Pass, Fail} \subseteq GateStatus
      BY DEF GateStatus, Pass, Fail
    <3> QED
      BY <1>3, <3>1
  <2> DEFINE k == [i EXCEPT !.pc = "persist", !.g3 = g]
  <2>2. i.kind = "weekly"
    BY <1>3
  <2> HIDE DEF i
  <2>3. k \in Task
    BY <1>1 DEF Task, Pcs
  <2>4. k.pc = "persist" /\ k.g3 = g /\ k.g2 = i.g2 /\ k.g1 = i.g1 /\ k.base = i.base
        /\ k.kind = i.kind /\ k.n = i.n
    BY <1>1 DEF Task
  <2>5. tasks' = [tasks EXCEPT ![t] = k]
    BY <2>1 DEF Become, i
  <2> HIDE DEF k
  <2>6. TaskOK(k)
    BY <1>1, <2>2, <2>4 DEF TaskOK, Running
  <2>7. k.base = None
    BY <1>1, <2>4 DEF TaskOK
  <2>8. \A s \in Watched, d \in Days : Holds(k, s, d) => Holds(i, s, d)
    BY <1>1, <2>4 DEF Holds
  <2>9. Quiet(t, k)
    BY <2>2, <2>3, <2>4, <2>6, <2>7, <2>8 DEF Quiet, Silent, i
  <2> QED
    BY <2>5, <2>9, QuietStep DEF Gate3
<1> QED
  BY <1>2, <1>3 DEF Gate3

\* What storing a verdict leaves a run with.
LEMMA PersistLeaves ==
    ASSUME IInv, NEW t \in Tasks, tasks[t].pc = "persist", AfterPersist(t)
    PROVE  \E k : /\ tasks' = [tasks EXCEPT ![t] = k]
                  /\ k \in Task /\ TaskOK(k)
                  /\ k.base = None /\ k.n = tasks[t].n
                  /\ k.pc \in {"notify", "previous"}
                  /\ k.pc = "notify" => k.kind = "weekly"
                  /\ k.pc = "previous" => k.g2 = tasks[t].g2 /\ tasks[t].kind = "daily"
<1> DEFINE i == tasks[t]
<1>1. i \in Task /\ TaskOK(i) /\ i.pc = "persist"
  BY DEF IInv, TypeOK
<1>2. i.kind \in {"weekly", "daily"} /\ i.n \in DOMAIN Order /\ i.base = None
  BY <1>1 DEF TaskOK, Kinds
<1>3. CASE i.kind = "weekly"
  <2> HIDE DEF i
  <2> DEFINE k == [i EXCEPT !.pc = "notify", !.g1 = None, !.g2 = None, !.g3 = None]
  <2>1. k \in Task
    BY <1>1 DEF Task, Pcs
  <2>2. k.pc = "notify" /\ k.g2 = None /\ k.base = i.base /\ k.kind = i.kind /\ k.n = i.n
    BY <1>1 DEF Task
  <2>3. tasks' = [tasks EXCEPT ![t] = k]
    BY <1>3 DEF AfterPersist, Become, i
  <2> HIDE DEF k
  <2>4. TaskOK(k)
    BY <1>2, <1>3, <2>2 DEF TaskOK, Running, Kinds
  <2> QED
    BY <1>2, <1>3, <2>1, <2>2, <2>3, <2>4 DEF i
<1>4. CASE i.kind = "daily"
  <2> DEFINE k == [i EXCEPT !.pc = "previous"]
  <2> HIDE DEF i
  <2>1. k \in Task
    BY <1>1 DEF Task, Pcs
  <2>2. k.pc = "previous" /\ k.g2 = i.g2 /\ k.base = i.base /\ k.kind = i.kind /\ k.n = i.n
    BY <1>1 DEF Task
  <2>3. tasks' = [tasks EXCEPT ![t] = k]
    BY <1>4 DEF AfterPersist, Become, i
  <2> HIDE DEF k
  <2>4. TaskOK(k)
    BY <1>1, <1>2, <1>4, <2>2 DEF TaskOK, Running, Kinds
  <2> QED
    BY <1>2, <1>4, <2>1, <2>2, <2>3, <2>4 DEF i
<1> QED
  BY <1>2, <1>3, <1>4

\* The verdict of a run, and what a launch says of its gate 2.
LEMMA VerdictIs ==
    ASSUME IInv, NEW t \in Tasks, tasks[t].pc = "persist"
    PROVE  /\ VerdictOf(t) \in Verdict
           /\ VerdictOf(t).g2 = tasks[t].g2
           /\ VerdictOf(t).action = "launch" =>
                 tasks[t].g2 # None /\ tasks[t].g2.from # None
<1> DEFINE i == tasks[t]
           gates == GatesRun(i.g1, IF i.g2 = None THEN None ELSE i.g2.status, i.g3)
<1>1. i \in Task /\ TaskOK(i) /\ i.pc = "persist"
  BY DEF IInv, TypeOK
<1>2. i.kind \in {"weekly", "daily"} /\ i.g2 \in Result \cup {None}
  BY <1>1 DEF TaskOK, Kinds, Task
<1>3. VerdictOf(t).g2 = i.g2
  BY DEF VerdictOf
<1>4. CASE i.kind = "weekly"
  <2>1. VerdictOf(t).action = Resolve(gates)
    BY <1>4 DEF VerdictOf
  <2>2. VerdictOf(t).action \in Actions
    BY <2>1, ResolveIs
  <2>3. ASSUME VerdictOf(t).action = "launch"
        PROVE  i.g2 # None /\ i.g2.from # None
    <3>1. /\ i.g1 # Fail
          /\ (IF i.g2 = None THEN None ELSE i.g2.status) # Caution
      BY <2>1, <2>3, ResolveIs
    <3> HIDE DEF i
    <3>2. i.g2 \in Result /\ i.g2 # None
      BY <1>1, <1>4, <3>1, DayFacts DEF TaskOK
    <3>3. i.g2.status # Caution
      BY <3>1, <3>2
    <3> QED
      BY <1>1, <3>2, <3>3 DEF TaskOK
  <2>4. VerdictOf(t) = [action |-> VerdictOf(t).action, g2 |-> VerdictOf(t).g2]
    BY DEF VerdictOf
  <2> QED
    BY <1>2, <1>3, <2>2, <2>3, <2>4 DEF Verdict
<1>5. CASE i.kind = "daily"
  <2>1. VerdictOf(t).action \in {"hold", "review"}
    BY <1>5 DEF VerdictOf
  <2>2. VerdictOf(t) = [action |-> VerdictOf(t).action, g2 |-> VerdictOf(t).g2]
    BY DEF VerdictOf
  <2> QED
    BY <1>2, <1>3, <2>1, <2>2 DEF Verdict, Actions
<1> QED
  BY <1>2, <1>4, <1>5

\* The verdict that is stored: it spends the snapshot it judges.
LEMMA RecordedKeeps ==
    ASSUME IInv, NEW t \in Tasks, tasks[t].pc = "persist",
           Record(t), CountJudged(Sym(t), tasks[t].g2), AfterPersist(t),
           UNCHANGED <<now, snaps>>
    PROVE  IInv'
<1> DEFINE i == tasks[t]
<1>1. /\ i \in Task /\ TaskOK(i) /\ i.pc = "persist"
      /\ tasks \in [Tasks -> Task]
      /\ last \in [Watched -> Verdict \cup {None}]
      /\ judged \in [Watched -> [Days -> Nat]]
  BY DEF IInv, TypeOK
<1>2. PICK s0 \in Watched : s0 = Sym(t)
  BY <1>1, OrderFacts DEF TaskOK, Sym
<1>3. PICK V \in Verdict : V = VerdictOf(t)
  BY VerdictIs
<1>4. V.g2 = i.g2 /\ (V.action = "launch" => i.g2 # None /\ i.g2.from # None)
  BY <1>3, VerdictIs
<1>5. /\ last' = [last EXCEPT ![s0] = V]
      /\ \A s \in Watched : last'[s] = IF s = s0 THEN V ELSE last[s]
  BY <1>1, <1>2, <1>3 DEF Record
<1>6. PICK k : /\ tasks' = [tasks EXCEPT ![t] = k]
               /\ k \in Task /\ TaskOK(k)
               /\ k.base = None /\ k.n = i.n
               /\ k.pc \in {"notify", "previous"}
               /\ k.pc = "notify" => k.kind = "weekly"
               /\ k.pc = "previous" => k.g2 = i.g2 /\ i.kind = "daily"
  BY PersistLeaves
<1>7. \A u \in Tasks : tasks'[u] = IF u = t THEN k ELSE tasks[u]
  BY <1>1, <1>6
<1>8. \A s \in Watched, d \in Days : ~Holds(k, s, d)
  BY <1>6 DEF Holds
<1>9. \A s \in Watched, d \in Days :
        judged'[s][d] = IF Holds(i, s, d) THEN judged[s][d] + 1 ELSE judged[s][d]
  <2> HIDE DEF i
  <2>1. \A s \in Watched, d \in Days :
          Holds(i, s, d) <=> s = s0 /\ i.g2 # None /\ d = i.g2.from
    BY <1>1, <1>2 DEF Holds, Sym, i
  <2>2. CASE i.g2 # None /\ i.g2.from \in Days
    <3>1. judged' = [judged EXCEPT ![s0][i.g2.from] = @ + 1]
      BY <1>2, <2>2 DEF CountJudged, i
    <3> QED
      BY <1>1, <2>1, <2>2, <3>1
  <2>3. CASE ~(i.g2 # None /\ i.g2.from \in Days)
    <3>1. judged' = judged
      BY <2>3 DEF CountJudged, i
    <3> QED
      BY <2>1, <2>3, <3>1
  <2> QED
    BY <2>2, <2>3
<1>10. TypeOK'
  <2>1. last' \in [Watched -> Verdict \cup {None}]
    BY <1>1, <1>5
  <2>2. tasks' \in [Tasks -> Task]
    BY <1>1, <1>6
  <2>3. judged' \in [Watched -> [Days -> Nat]]
    <3>1. CASE i.g2 # None /\ i.g2.from \in Days
      <4> DEFINE e == i.g2.from
      <4>1. judged' = [judged EXCEPT ![s0][e] = @ + 1] /\ e \in Days
        BY <1>2, <3>1 DEF CountJudged
      <4> HIDE DEF e
      <4> QED
        BY <1>1, <4>1
    <3>2. CASE ~(i.g2 # None /\ i.g2.from \in Days)
      BY <1>1, <3>2 DEF CountJudged
    <3> QED
      BY <3>1, <3>2
  <2> QED
    BY <2>1, <2>2, <2>3 DEF IInv, TypeOK
<1>11. (\A u \in Tasks : TaskOK(tasks[u]))'
  BY <1>6, <1>7 DEF IInv, TaskOK
<1>12. JudgedOnce'
  <2>1. SUFFICES ASSUME NEW s \in Watched, NEW d \in Days
                 PROVE  /\ judged'[s][d] <= 1
                        /\ judged'[s][d] = 1 => StoredOn(s, d)
                        /\ \A u \in Tasks : Holds(tasks'[u], s, d)
                              => StoredOn(s, d) /\ judged'[s][d] = 0
                        /\ \A u, v \in Tasks :
                              Holds(tasks'[u], s, d) /\ Holds(tasks'[v], s, d) => u = v
    BY DEF JudgedOnce, Holds, StoredOn
  <2>2. /\ judged[s][d] <= 1
        /\ judged[s][d] = 1 => StoredOn(s, d)
        /\ \A u \in Tasks : Holds(tasks[u], s, d) => StoredOn(s, d) /\ judged[s][d] = 0
        /\ \A u, v \in Tasks : Holds(tasks[u], s, d) /\ Holds(tasks[v], s, d) => u = v
    BY DEF IInv, JudgedOnce
  <2>3. \A u \in Tasks : Holds(tasks'[u], s, d) => u # t /\ Holds(tasks[u], s, d)
    BY <1>7, <1>8
  <2>4. CASE Holds(i, s, d)
    BY <1>9, <2>2, <2>3, <2>4
  <2>5. CASE ~Holds(i, s, d)
    BY <1>9, <2>2, <2>3, <2>5
  <2> QED
    BY <2>4, <2>5
<1>13. LaunchesHaveSnapshot'
  <2>1. \A s \in Watched :
           (last'[s] # None /\ last'[s].action = "launch")
              => last'[s].g2 # None /\ last'[s].g2.from # None
    BY <1>4, <1>5 DEF IInv, LaunchesHaveSnapshot
  <2> QED
    BY <2>1 DEF LaunchesHaveSnapshot
<1>14. OneADay' /\ BaseIsOlder'
  BY <1>6, <1>7 DEF IInv, OneADay, BaseIsOlder
<1>15. OwnVerdictLast'
  <2>1. SUFFICES ASSUME Undisturbed, NEW u \in Tasks PROVE Silent(tasks[u])'
    BY DEF OwnVerdictLast, Undisturbed
  <2>2. u = t
    BY <2>1 DEF Undisturbed
  <2>3. k.pc = "previous" => PreviousStatus(Order[k.n])' = k.g2.status
    <3>1. SUFFICES ASSUME k.pc = "previous" PROVE PreviousStatus(Order[k.n])' = k.g2.status
      OBVIOUS
    <3>2. Order[k.n] = s0 /\ last'[s0] = V /\ V.g2 = k.g2
      BY <1>2, <1>4, <1>5, <1>6, <3>1 DEF Sym
    <3>3. k.g2 \in Result /\ k.g2 # None
      BY <1>1, <1>6, <3>1, DayFacts DEF TaskOK
    <3>4. V # None
      BY ConstantsOK
    <3> QED
      BY <3>2, <3>3, <3>4 DEF PreviousStatus
  <2> QED
    BY <1>6, <1>7, <2>2, <2>3 DEF Silent, PreviousStatus
<1> QED
  BY <1>10, <1>11, <1>12, <1>13, <1>14, <1>15 DEF IInv

\* persist_verdict, with its three outcomes.
LEMMA PersistVerdictKeeps ==
    ASSUME IInv, NEW t \in Tasks, PersistVerdict(t) PROVE IInv'
<1>1. tasks[t].pc = "persist"
  BY DEF PersistVerdict
<1>2. CASE Record(t) /\ CountJudged(Sym(t), tasks[t].g2) /\ AfterPersist(t)
  BY <1>1, <1>2, RecordedKeeps DEF PersistVerdict
<1>3. CASE EndSymbol(t) /\ UNCHANGED <<last, judged>>
  BY <1>1, <1>3, EndQuiet, QuietStep DEF PersistVerdict
<1>4. CASE Failures /\ AfterPersist(t) /\ UNCHANGED <<last, judged>>
  <2>1. PICK k : /\ tasks' = [tasks EXCEPT ![t] = k]
                 /\ k \in Task /\ TaskOK(k)
                 /\ k.base = None
                 /\ k.pc \in {"notify", "previous"}
    BY <1>1, <1>4, PersistLeaves
  <2>2. Quiet(t, k)
    BY <1>4, <2>1 DEF Quiet, Undisturbed, Holds
  <2> QED
    BY <1>4, <2>1, <2>2, QuietStep DEF PersistVerdict
<1> QED
  BY <1>2, <1>3, <1>4 DEF PersistVerdict

\* The comparison with the previous status.
LEMMA ReadPreviousKeeps ==
    ASSUME IInv, NEW t \in Tasks, ReadPrevious(t) PROVE IInv'
<1> DEFINE i == tasks[t]
<1>1. i \in Task /\ TaskOK(i) /\ i.pc = "previous"
  BY DEF IInv, TypeOK, ReadPrevious
<1>2. CASE EndSymbol(t)
  BY <1>1, <1>2, EndQuiet, QuietStep DEF ReadPrevious
<1>3. CASE /\ Failures \/ i.g2.status # PreviousStatus(Sym(t))
           /\ Become(t, [i EXCEPT !.pc = "notify"])
  <2>1. ~Undisturbed
    BY <1>1, <1>3 DEF IInv, OwnVerdictLast, Silent, Undisturbed, Sym
  <2> DEFINE k == [i EXCEPT !.pc = "notify"]
  <2> HIDE DEF i
  <2>2. k \in Task
    BY <1>1 DEF Task, Pcs
  <2>3. k.pc = "notify" /\ k.g2 = i.g2 /\ k.base = i.base /\ k.kind = i.kind /\ k.n = i.n
    BY <1>1 DEF Task
  <2>4. tasks' = [tasks EXCEPT ![t] = k]
    BY <1>3 DEF Become, i
  <2> HIDE DEF k
  <2>5. TaskOK(k) /\ k.base = None
    BY <1>1, <2>3 DEF TaskOK, Running
  <2>6. Quiet(t, k)
    BY <2>1, <2>2, <2>3, <2>5 DEF Quiet, Holds
  <2> QED
    BY <2>4, <2>6, QuietStep DEF ReadPrevious
<1> QED
  BY <1>2, <1>3 DEF ReadPrevious

\* The alert or the digest.
LEMMA NotifyKeeps ==
    ASSUME IInv, NEW t \in Tasks, Notify(t) PROVE IInv'
BY EndQuiet, QuietStep DEF Notify

\* A restart loses what the runs held, never what the tables hold.
LEMMA CrashKeeps ==
    ASSUME IInv, Crash PROVE IInv'
<1>1. \A t \in Tasks : tasks'[t] = Idle
  BY DEF Crash
<1>2. Fresh(Idle)
  BY IdleFresh
<1>3. TypeOK'
  BY <1>2 DEF Crash, IInv, TypeOK, Fresh
<1>4. (\A t \in Tasks : TaskOK(tasks[t]))'
  BY <1>1, <1>2 DEF Fresh, TaskOK
<1>5. \A t \in Tasks, s \in Watched, d \in Days : ~Holds(tasks'[t], s, d)
  BY <1>1, <1>2 DEF Fresh, Holds
<1>6. JudgedOnce'
  BY <1>5 DEF Crash, IInv, JudgedOnce, StoredOn, Holds
<1>7. OneADay' /\ LaunchesHaveSnapshot'
  BY DEF Crash, IInv, OneADay, LaunchesHaveSnapshot
<1>8. BaseIsOlder' /\ OwnVerdictLast'
  BY <1>1, <1>2 DEF Fresh, BaseIsOlder, OwnVerdictLast, Silent
<1> QED
  BY <1>3, <1>4, <1>6, <1>7, <1>8 DEF IInv

\* Time passes: what was stored stays in the past.
LEMMA TickKeeps ==
    ASSUME IInv, Tick PROVE IInv'
<1>1. now \in Time /\ now.day \in Days /\ now.tick \in 0..(TicksPerDay - 1)
  BY DayFacts DEF IInv, TypeOK, Time
<1>2. now' \in Time /\ now'.day >= now.day
  <2>1. CASE now.tick + 1 < TicksPerDay /\ now' = [now EXCEPT !.tick = @ + 1]
    BY <1>1, <2>1, ConstantsOK DEF Time, Days
  <2>2. CASE now.day < LastDay /\ now' = [day |-> now.day + 1, tick |-> 0]
    BY <1>1, <2>2, ConstantsOK DEF Time, Days
  <2> QED
    BY <2>1, <2>2 DEF Tick
<1>3. TypeOK'
  BY <1>2 DEF Tick, IInv, TypeOK
<1>4. (\A t \in Tasks : TaskOK(tasks[t]))' /\ JudgedOnce' /\ LaunchesHaveSnapshot'
  BY DEF Tick, IInv, TaskOK, JudgedOnce, StoredOn, Holds, LaunchesHaveSnapshot
<1>5. now'.day \in Nat /\ now.day \in Nat
  BY <1>1, <1>2, DayFacts
<1>6. OneADay'
  <2>1. \A s \in Watched : \A x \in snaps[s] : x.at.day \in Nat
    BY DayFacts DEF IInv, TypeOK
  <2> QED
    BY <1>2, <1>5, <2>1 DEF Tick, IInv, OneADay
<1>7. BaseIsOlder'
  <2>1. \A t \in Tasks : tasks[t].base # None => tasks[t].base.at.day \in Nat
    BY DayFacts DEF IInv, TypeOK, Task
  <2> QED
    BY <1>2, <1>5, <2>1 DEF Tick, IInv, BaseIsOlder
<1>8. OwnVerdictLast'
  BY DEF Tick, IInv, OwnVerdictLast, Undisturbed, Silent, PreviousStatus
<1> QED
  BY <1>3, <1>4, <1>6, <1>7, <1>8 DEF IInv

---------------------------------------------------------------------------
(* The theorems *)

\* At the start no symbol has a history, and nothing runs.
LEMMA InitHolds == Init => IInv
<1> SUFFICES ASSUME Init PROVE IInv
  OBVIOUS
<1>1. Fresh(Idle) /\ \A t \in Tasks : tasks[t] = Idle
  BY IdleFresh DEF Init
<1>2. now \in Time
  BY ConstantsOK DEF Init, Time, Days
<1>3. TypeOK
  BY <1>1, <1>2 DEF Init, TypeOK, Fresh
<1>4. OneADay /\ LaunchesHaveSnapshot
  BY DEF Init, OneADay, LaunchesHaveSnapshot
<1>5. JudgedOnce
  BY <1>1 DEF Init, JudgedOnce, Holds, Fresh
<1>6. BaseIsOlder /\ OwnVerdictLast
  BY <1>1 DEF Fresh, BaseIsOlder, OwnVerdictLast, Silent
<1> QED
  BY <1>1, <1>3, <1>4, <1>5, <1>6 DEF IInv, Fresh

\* Every step keeps the invariant.
LEMMA StepHolds == IInv /\ [Next]_vars => IInv'
<1> SUFFICES ASSUME IInv, [Next]_vars PROVE IInv'
  OBVIOUS
<1>1. CASE Tick
  BY <1>1, TickKeeps
<1>2. CASE Crash
  BY <1>2, CrashKeeps
<1>3. ASSUME NEW t \in Tasks, Start(t) PROVE IInv'
  BY <1>3, StartKeeps
<1>4. ASSUME NEW t \in Tasks, Step(t) PROVE IInv'
  BY <1>4, Gate1Keeps, FetchMarketKeeps, ReadHistoryKeeps, StoreSnapshotKeeps, Gate3Keeps,
     PersistVerdictKeeps, ReadPreviousKeeps, NotifyKeeps DEF Step
<1>5. CASE UNCHANGED vars
  BY <1>5 DEF vars, IInv, TypeOK, TaskOK, OneADay, JudgedOnce, StoredOn, Holds,
     LaunchesHaveSnapshot, BaseIsOlder, OwnVerdictLast, Undisturbed, Silent, PreviousStatus
<1> QED
  BY <1>1, <1>2, <1>3, <1>4, <1>5 DEF Next

\* The invariant holds throughout, whatever runs, fails, restarts or waits.
THEOREM Inductive == Spec => []IInv
BY InitHolds, StepHolds, PTL DEF Spec

\* Type correctness of the tables and the runs.
THEOREM TypeCorrect == Spec => []TypeOK
<1>1. IInv => TypeOK
  BY DEF IInv
<1> QED
  BY <1>1, Inductive, PTL

\* No snapshot is judged by two verdicts, and every LAUNCH judges one.
THEOREM FreshLaunches == Spec => []LaunchesAreFresh
<1>1. IInv => LaunchesAreFresh
  BY DEF IInv, JudgedOnce, LaunchesHaveSnapshot, LaunchesAreFresh
<1> QED
  BY <1>1, Inductive, PTL

\* No change of open interest is measured from a snapshot of the same day.
THEOREM OlderBase == Spec => []BaseIsOlder
<1>1. IInv => BaseIsOlder
  BY DEF IInv
<1> QED
  BY <1>1, Inductive, PTL

\* One run at a time without failures: the daily check never alerts.
THEOREM SilentDaily == Spec => []DailySilent
<1>1. IInv => DailySilent
  BY DEF IInv, OwnVerdictLast, Undisturbed, Silent, DailySilent
<1> QED
  BY <1>1, Inductive, PTL

---------------------------------------------------------------------------
(* The way of a run to its end *)

\* What is left of a symbol, by the await.
LEMMA StepsOfSymbolIs ==
    /\ \A pc \in Pcs : StepsOfSymbol(pc) \in 1..8
    /\ StepsOfSymbol("gate1") = 8 /\ StepsOfSymbol("market") = 7
    /\ StepsOfSymbol("history") = 6 /\ StepsOfSymbol("store") = 5
    /\ StepsOfSymbol("gate3") = 4 /\ StepsOfSymbol("persist") = 3
    /\ StepsOfSymbol("previous") = 2 /\ StepsOfSymbol("notify") = 1
BY DEF StepsOfSymbol, Pcs

\* A run that was at i is nearer to its end at k: over, further on with its
\* symbol, or at another one behind it.
Nearer(i, k) ==
    \/ k.pc = "idle"
    \/ k.n = i.n /\ k.pc \in Pcs \ {"idle"} /\ StepsOfSymbol(k.pc) < StepsOfSymbol(i.pc)
    \/ k.n = i.n + 1 /\ k.n \in DOMAIN Order /\ k.pc \in Pcs \ {"idle"}

\* A symbol less outweighs all steps of a symbol.
LEMMA Weights ==
    ASSUME NEW l \in Nat, NEW m \in 1..8, NEW o \in 1..8
    PROVE  /\ o < m => 8 * l + o \in 0..((8 * l + m) - 1)
           /\ 8 * l + o \in 0..((8 * (l + 1) + m) - 1)
OBVIOUS

LEMMA NearerIsLess ==
    ASSUME NEW i \in Task, i.pc # "idle", i.n \in DOMAIN Order, NEW k, Nearer(i, k)
    PROVE  StepsLeft(k) \in 0..(StepsLeft(i) - 1)
<1>1. /\ Len(Order) \in Nat /\ i.n \in Nat /\ i.n <= Len(Order)
      /\ StepsOfSymbol(i.pc) \in 1..8
      /\ StepsLeft(i) = 8 * (Len(Order) - i.n) + StepsOfSymbol(i.pc)
  BY OrderFacts, StepsOfSymbolIs DEF StepsLeft, Task
<1>2. CASE k.pc = "idle"
  BY <1>1, <1>2 DEF StepsLeft
<1>3. CASE k.n = i.n /\ k.pc \in Pcs \ {"idle"} /\ StepsOfSymbol(k.pc) < StepsOfSymbol(i.pc)
  <2>1. StepsOfSymbol(k.pc) \in 1..8
    BY <1>3, StepsOfSymbolIs
  <2>2. StepsLeft(k) = 8 * (Len(Order) - i.n) + StepsOfSymbol(k.pc)
    BY <1>3 DEF StepsLeft
  <2>3. Len(Order) - i.n \in Nat
    BY <1>1
  <2>4. 8 * (Len(Order) - i.n) + StepsOfSymbol(k.pc)
           \in 0..((8 * (Len(Order) - i.n) + StepsOfSymbol(i.pc)) - 1)
    BY <1>1, <1>3, <2>1, <2>3, Weights
  <2>5. QED
    BY <1>1, <2>2, <2>4
<1>4. CASE k.n = i.n + 1 /\ k.n \in DOMAIN Order /\ k.pc \in Pcs \ {"idle"}
  <2>1. StepsOfSymbol(k.pc) \in 1..8 /\ i.n + 1 <= Len(Order)
    BY <1>1, <1>4, OrderFacts, StepsOfSymbolIs
  <2>2. StepsLeft(k) = 8 * (Len(Order) - (i.n + 1)) + StepsOfSymbol(k.pc)
    BY <1>4 DEF StepsLeft
  <2>3. Len(Order) - (i.n + 1) \in Nat /\ (Len(Order) - (i.n + 1)) + 1 = Len(Order) - i.n
    BY <1>1, <2>1
  <2>4. 8 * (Len(Order) - (i.n + 1)) + StepsOfSymbol(k.pc)
           \in 0..((8 * (Len(Order) - i.n) + StepsOfSymbol(i.pc)) - 1)
    BY <1>1, <2>1, <2>3, Weights
  <2>5. QED
    BY <1>1, <2>2, <2>4
<1>5. QED
  BY <1>2, <1>3, <1>4 DEF Nearer

\* The end of a symbol is the end of the run, or the beginning of the next.
LEMMA EndNearer ==
    ASSUME IInv, NEW t \in Tasks, tasks[t].pc # "idle", EndSymbol(t)
    PROVE  \E k : tasks' = [tasks EXCEPT ![t] = k] /\ Nearer(tasks[t], k)
<1>1. tasks[t].n \in DOMAIN Order
  BY DEF IInv, TaskOK
<1>2. CASE tasks[t].kind = "reconfigure" \/ tasks[t].n = Len(Order)
  <2>1. tasks' = [tasks EXCEPT ![t] = Idle] /\ Idle.pc = "idle"
    BY <1>2 DEF EndSymbol, Become, Idle
  <2>2. Nearer(tasks[t], Idle)
    BY <2>1 DEF Nearer
  <2>3. QED
    BY <2>1, <2>2
<1>3. CASE ~(tasks[t].kind = "reconfigure" \/ tasks[t].n = Len(Order))
  <2> DEFINE k == BeginSymbol(tasks[t].kind, tasks[t].n + 1)
  <2>1. k.n = tasks[t].n + 1 /\ k.pc \in Pcs \ {"idle"}
    BY DEF BeginSymbol, Idle, Pcs
  <2>2. k.n \in DOMAIN Order
    BY <1>1, <1>3, <2>1, OrderFacts
  <2>3. tasks' = [tasks EXCEPT ![t] = k]
    BY <1>3 DEF EndSymbol, Become
  <2>4. QED
    BY <2>1, <2>2, <2>3 DEF Nearer
<1>4. QED
  BY <1>2, <1>3

\* So is every other step of a run.
LEMMA StepNearer ==
    ASSUME IInv, NEW t \in Tasks, Step(t)
    PROVE  \E k : tasks' = [tasks EXCEPT ![t] = k] /\ Nearer(tasks[t], k)
<1>0. PICK i : i = tasks[t]
  OBVIOUS
<1>1. i \in Task /\ i.pc # "idle"
  BY <1>0 DEF IInv, TypeOK, Step, Gate1, FetchMarket, ReadHistory, StoreSnapshot, Gate3,
     PersistVerdict, ReadPrevious, Notify
<1>2. CASE EndSymbol(t)
  BY <1>0, <1>1, <1>2, EndNearer
<1>3. CASE Gate1(t) /\ ~EndSymbol(t)
  <2>0. PICK pc \in {"persist", "market"} :
          \E g, at : Become(t, [i EXCEPT !.pc = pc, !.g1 = g, !.asOf = at])
    BY <1>0, <1>3 DEF Gate1, Abandon
  <2>1. PICK g, at : Become(t, [i EXCEPT !.pc = pc, !.g1 = g, !.asOf = at])
    BY <2>0
  <2>2. PICK k : k = [i EXCEPT !.pc = pc, !.g1 = g, !.asOf = at]
    OBVIOUS
  <2>3. k.n = i.n /\ k.pc = pc /\ i.pc = "gate1" /\ tasks' = [tasks EXCEPT ![t] = k]
    BY <1>0, <1>1, <1>3, <2>1, <2>2 DEF Task, Gate1, Become
  <2>4. Nearer(i, k)
    BY <2>3, StepsOfSymbolIs DEF Nearer, Pcs
  <2>5. QED
    BY <1>0, <2>3, <2>4
<1>4. CASE FetchMarket(t) /\ ~EndSymbol(t)
  <2>1. PICK f, v : Become(t, [i EXCEPT !.pc = "history", !.funding = f, !.new = v])
    BY <1>0, <1>4 DEF FetchMarket, Abandon
  <2>2. PICK k : k = [i EXCEPT !.pc = "history", !.funding = f, !.new = v]
    OBVIOUS
  <2>3. k.n = i.n /\ k.pc = "history" /\ i.pc = "market" /\ tasks' = [tasks EXCEPT ![t] = k]
    BY <1>0, <1>1, <1>4, <2>1, <2>2 DEF Task, FetchMarket, Become
  <2>4. Nearer(i, k)
    BY <2>3, StepsOfSymbolIs DEF Nearer, Pcs
  <2>5. QED
    BY <1>0, <2>3, <2>4
<1>5. CASE ReadHistory(t) /\ ~EndSymbol(t)
  <2>1. PICK b : Become(t, [i EXCEPT !.pc = "store", !.asOf = None, !.base = b])
    BY <1>0, <1>5 DEF ReadHistory, Abandon
  <2>2. PICK k : k = [i EXCEPT !.pc = "store", !.asOf = None, !.base = b]
    OBVIOUS
  <2>3. k.n = i.n /\ k.pc = "store" /\ i.pc = "history" /\ tasks' = [tasks EXCEPT ![t] = k]
    BY <1>0, <1>1, <1>5, <2>1, <2>2 DEF Task, ReadHistory, Become
  <2>4. Nearer(i, k)
    BY <2>3, StepsOfSymbolIs DEF Nearer, Pcs
  <2>5. QED
    BY <1>0, <2>3, <2>4
<1>6. CASE StoreSnapshot(t)
  <2>0. PICK pc \in {"persist", "gate3"} :
          \E r : Become(t, [i EXCEPT !.pc = pc, !.g2 = r, !.funding = None, !.new = None,
                                     !.base = None])
    BY <1>0, <1>6 DEF StoreSnapshot, AfterGate2
  <2>1. PICK r :
          Become(t, [i EXCEPT !.pc = pc, !.g2 = r, !.funding = None, !.new = None, !.base = None])
    BY <2>0
  <2>2. PICK k :
          k = [i EXCEPT !.pc = pc, !.g2 = r, !.funding = None, !.new = None, !.base = None]
    OBVIOUS
  <2>3. k.n = i.n /\ k.pc = pc /\ i.pc = "store" /\ tasks' = [tasks EXCEPT ![t] = k]
    BY <1>0, <1>1, <1>6, <2>1, <2>2 DEF Task, StoreSnapshot, Become
  <2>4. Nearer(i, k)
    BY <2>3, StepsOfSymbolIs DEF Nearer, Pcs
  <2>5. QED
    BY <1>0, <2>3, <2>4
<1>7. CASE Gate3(t) /\ ~EndSymbol(t)
  <2>1. PICK g : Become(t, [i EXCEPT !.pc = "persist", !.g3 = g])
    BY <1>0, <1>7 DEF Gate3, Abandon
  <2>2. PICK k : k = [i EXCEPT !.pc = "persist", !.g3 = g]
    OBVIOUS
  <2>3. k.n = i.n /\ k.pc = "persist" /\ i.pc = "gate3" /\ tasks' = [tasks EXCEPT ![t] = k]
    BY <1>0, <1>1, <1>7, <2>1, <2>2 DEF Task, Gate3, Become
  <2>4. Nearer(i, k)
    BY <2>3, StepsOfSymbolIs DEF Nearer, Pcs
  <2>5. QED
    BY <1>0, <2>3, <2>4
<1>8. CASE PersistVerdict(t) /\ ~EndSymbol(t)
  <2>1. tasks[t].pc = "persist" /\ AfterPersist(t)
    BY <1>8 DEF PersistVerdict
  <2>2. PICK k : /\ tasks' = [tasks EXCEPT ![t] = k]
                 /\ k.n = tasks[t].n
                 /\ k.pc \in {"notify", "previous"}
    BY <2>1, PersistLeaves
  <2>3. Nearer(i, k)
    BY <1>0, <2>1, <2>2, StepsOfSymbolIs DEF Nearer, Pcs
  <2>4. QED
    BY <1>0, <2>2, <2>3
<1>9. CASE ReadPrevious(t) /\ ~EndSymbol(t)
  <2>1. Become(t, [i EXCEPT !.pc = "notify"])
    BY <1>0, <1>9 DEF ReadPrevious
  <2>2. PICK k : k = [i EXCEPT !.pc = "notify"]
    OBVIOUS
  <2>3. k.n = i.n /\ k.pc = "notify" /\ i.pc = "previous" /\ tasks' = [tasks EXCEPT ![t] = k]
    BY <1>0, <1>1, <1>9, <2>1, <2>2 DEF Task, ReadPrevious, Become
  <2>4. Nearer(i, k)
    BY <2>3, StepsOfSymbolIs DEF Nearer, Pcs
  <2>5. QED
    BY <1>0, <2>3, <2>4
<1>10. CASE Notify(t)
  BY <1>2, <1>10 DEF Notify
<1>11. QED
  BY <1>2, <1>3, <1>4, <1>5, <1>6, <1>7, <1>8, <1>9, <1>10 DEF Step

\* Whatever a run finds, fails at or loses takes it nearer to its end, over
\* any list of symbols.
THEOREM RunsEnd == Spec => RunsRunDown
<1> DEFINE Down == \A t \in Tasks : tasks[t].pc # "idle" /\ tasks'[t] # tasks[t] =>
                       StepsLeft(tasks'[t]) \in 0..(StepsLeft(tasks[t]) - 1)
<1>1. ASSUME IInv, [Next]_vars PROVE [Down]_vars
  <2>1. ASSUME NEW t \in Tasks
        PROVE  /\ tasks[t] \in Task
               /\ tasks[t].pc # "idle" => tasks[t].n \in DOMAIN Order
    BY <1>1 DEF IInv, TypeOK, TaskOK
  <2>2. CASE Crash
    <3>1. \A t \in Tasks : Nearer(tasks[t], tasks'[t])
      BY <2>2 DEF Crash, Idle, Nearer
    <3>2. QED
      BY <2>1, <3>1, NearerIsLess
  <2>3. ASSUME NEW u \in Tasks, Step(u) PROVE Down
    <3>1. PICK k : tasks' = [tasks EXCEPT ![u] = k] /\ Nearer(tasks[u], k)
      BY <1>1, <2>3, StepNearer
    <3>2. \A t \in Tasks : tasks'[t] = IF t = u THEN k ELSE tasks[t]
      BY <1>1, <3>1 DEF IInv, TypeOK
    <3>3. QED
      BY <2>1, <3>1, <3>2, NearerIsLess
  <2>4. ASSUME NEW u \in Tasks, Start(u) PROVE Down
    <3>1. \A t \in Tasks : t # u => tasks'[t] = tasks[t]
      BY <1>1, <2>4 DEF Start, Become, IInv, TypeOK
    <3>2. tasks[u].pc = "idle"
      BY <2>4 DEF Start
    <3>3. QED
      BY <3>1, <3>2
  <2>5. CASE Tick \/ UNCHANGED vars
    BY <2>5 DEF Tick, vars
  <2>6. QED
    BY <1>1, <2>2, <2>3, <2>4, <2>5 DEF Next
<1>2. QED
  BY <1>1, Inductive, PTL DEF Spec, RunsRunDown

---------------------------------------------------------------------------
(* The refinement *)

LEMMA InitLedger == ASSUME Init PROVE L!Init
BY DEF Init, L!Init, DaysStored, DaysSpent, Said

\* A step that leaves the day and the tables is a stuttering step.
LEMMA QuietLedger ==
    ASSUME now'.day = now.day, UNCHANGED <<snaps, last, judged>>
    PROVE  UNCHANGED L!vars
BY DEF L!vars, DaysStored, DaysSpent, Said

\* The snapshot that is stored is entered.
LEMMA StoreLedger ==
    ASSUME IInv, NEW t \in Tasks, tasks[t].pc = "store", ~StoredToday(Sym(t)),
           snaps' = [snaps EXCEPT ![Sym(t)] = @ \cup {[at |-> now, oi |-> tasks[t].new]}],
           UNCHANGED <<now, last, judged>>
    PROVE  L!Enter(Sym(t))
<1>1. PICK s0 \in Watched : s0 = Sym(t)
  BY OrderFacts DEF IInv, TaskOK, Sym
<1>2. now.day \notin DaysStored[s0]
  BY <1>1 DEF DaysStored, StoredToday
<1>3. \A s \in Watched :
        snaps'[s] = IF s = s0 THEN snaps[s] \cup {[at |-> now, oi |-> tasks[t].new]} ELSE snaps[s]
  BY <1>1 DEF IInv, TypeOK
<1>4. DaysStored' = [DaysStored EXCEPT ![s0] = @ \cup {now.day}]
  <2>1. {x.at.day : x \in snaps'[s0]} = {x.at.day : x \in snaps[s0]} \cup {now.day}
    <3>1. PICK row : row = [at |-> now, oi |-> tasks[t].new]
      OBVIOUS
    <3>2. row.at.day = now.day
      BY <3>1
    <3>3. snaps'[s0] = snaps[s0] \cup {row}
      BY <1>1, <1>3, <3>1
    <3>4. QED
      BY <3>2, <3>3
  <2>2. \A s \in Watched \ {s0} : snaps'[s] = snaps[s]
    BY <1>3
  <2>3. QED
    BY <1>1, <2>1, <2>2 DEF DaysStored
<1>5. QED
  BY <1>1, <1>2, <1>4 DEF L!Enter, DaysSpent, Said

\* The verdict that is stored spends the snapshot it judges, if there is one.
LEMMA RecordLedger ==
    ASSUME IInv, NEW t \in Tasks, tasks[t].pc = "persist",
           Record(t), CountJudged(Sym(t), tasks[t].g2), UNCHANGED <<now, snaps>>
    PROVE  L!Judge(Sym(t)) \/ L!Decide(Sym(t))
<1>0. PICK i : i = tasks[t]
  OBVIOUS
<1>1. PICK s0 \in Watched : s0 = Sym(t) /\ s0 = Order[i.n]
  BY <1>0, OrderFacts DEF IInv, TaskOK, Sym
<1>2. PICK V \in Verdict : V = VerdictOf(t)
  BY VerdictIs
<1>3. /\ V.g2 = i.g2 /\ V # None /\ V.action \in Actions
      /\ V.action = "launch" => i.g2 # None /\ i.g2.from # None
  BY <1>0, <1>2, VerdictIs, ConstantsOK DEF Verdict
<1>4. /\ i \in Task /\ TaskOK(i) /\ i.pc = "persist"
      /\ last \in [Watched -> Verdict \cup {None}]
      /\ judged \in [Watched -> [Days -> Nat]]
  BY <1>0 DEF IInv, TypeOK
<1>5. [s \in Watched |-> Said(last'[s])]
         = [[s \in Watched |-> Said(last[s])] EXCEPT ![s0] = Said(V)]
  <2>1. \A s \in Watched : last'[s] = IF s = s0 THEN V ELSE last[s]
    BY <1>1, <1>2, <1>4 DEF Record
  <2>2. QED
    BY <1>1, <2>1
<1>6. DaysStored' = DaysStored /\ now'.day = now.day
  BY DEF DaysStored
<1>7. CASE i.g2 # None /\ i.g2.from \in Days
  <2>1. PICK d \in Days : d = i.g2.from
    BY <1>7
  <2>2. Holds(i, s0, d)
    BY <1>1, <1>4, <1>7, <2>1 DEF Holds
  <2>3. StoredOn(s0, d) /\ judged[s0][d] = 0
    BY <1>0, <2>2 DEF IInv, JudgedOnce
  <2>4. d \in DaysStored[s0] \ DaysSpent[s0]
    BY <2>1, <2>3 DEF StoredOn, DaysStored, DaysSpent
  <2>5. judged' = [judged EXCEPT ![s0][d] = @ + 1]
    BY <1>0, <1>1, <1>7, <2>1 DEF CountJudged
  <2>6. DaysSpent' = [DaysSpent EXCEPT ![s0] = @ \cup {d}]
    <3>1. \A s \in Watched, e \in Days :
            judged'[s][e] = IF s = s0 /\ e = d THEN judged[s][e] + 1 ELSE judged[s][e]
      BY <1>4, <2>5
    <3>2. /\ judged[s0][d] + 1 > 0
          /\ \A s \in Watched : {e \in Days : judged'[s][e] > 0} =
                {e \in Days : judged[s][e] > 0} \cup (IF s = s0 THEN {d} ELSE {})
      BY <2>3, <3>1
    <3>3. QED
      BY <3>2 DEF DaysSpent
  <2>7. Said(V) = V.action /\ V.action \in L!Says
    BY <1>3, <2>1, DayFacts DEF Said, Actions, L!Says
  <2>8. L!Judge(s0)
    BY <1>5, <1>6, <2>4, <2>6, <2>7 DEF L!Judge
  <2>9. QED
    BY <1>1, <2>8
<1>8. CASE ~(i.g2 # None /\ i.g2.from \in Days)
  <2>1. DaysSpent' = DaysSpent
    BY <1>0, <1>8 DEF CountJudged, DaysSpent
  <2>2. Said(V) \in (L!Says \ {"launch"}) \cup (IF Failures THEN {"blind"} ELSE {})
    <3>1. CASE i.g2 # None /\ i.g2.from = Lost
      BY <1>3, <1>4, <3>1 DEF Said, TaskOK
    <3>2. CASE ~(i.g2 # None /\ i.g2.from = Lost)
      <4>1. Said(V) = V.action
        BY <1>3, <3>2 DEF Said
      <4>2. i.g2 # None => i.g2.from = None
        BY <1>4, <1>8, <3>2 DEF Task, Result
      <4>3. QED
        BY <1>3, <4>1, <4>2 DEF Actions, L!Says
    <3>3. QED
      BY <3>1, <3>2
  <2>3. L!Decide(s0)
    BY <1>5, <1>6, <2>1, <2>2 DEF L!Decide
  <2>4. QED
    BY <1>1, <2>3
<1>9. QED
  BY <1>7, <1>8

LEMMA StepLedger ==
    ASSUME IInv, NEW t \in Tasks, Step(t) PROVE [L!Next]_L!vars
<1>1. Sym(t) \in Watched
  BY OrderFacts DEF IInv, TaskOK, Sym, Step, Gate1, FetchMarket, ReadHistory, StoreSnapshot,
     Gate3, PersistVerdict, ReadPrevious, Notify
<1>2. CASE UNCHANGED <<now, snaps, last, judged>>
  BY <1>2, QuietLedger
<1>3. CASE StoreSnapshot(t) /\ ~UNCHANGED snaps
  BY <1>1, <1>3, StoreLedger DEF StoreSnapshot, L!Next
<1>4. CASE PersistVerdict(t) /\ ~UNCHANGED <<last, judged>>
  BY <1>1, <1>4, RecordLedger DEF PersistVerdict, L!Next
<1>5. QED
  BY <1>2, <1>3, <1>4 DEF Step, Gate1, FetchMarket, ReadHistory, StoreSnapshot, Gate3,
     PersistVerdict, ReadPrevious, Notify

LEMMA NextLedger == ASSUME IInv, [Next]_vars PROVE [L!Next]_L!vars
<1>1. CASE Tick
  <2>1. CASE now' = [now EXCEPT !.tick = @ + 1]
    <3>1. now'.day = now.day
      BY <2>1 DEF IInv, TypeOK, Time
    <3>2. QED
      BY <1>1, <3>1, QuietLedger DEF Tick
  <2>2. CASE now.day < LastDay /\ now' = [day |-> now.day + 1, tick |-> 0]
    <3>1. now'.day = now.day + 1 /\ UNCHANGED <<snaps, last, judged>>
      BY <1>1, <2>2 DEF Tick
    <3>2. L!NewDay
      BY <2>2, <3>1 DEF L!NewDay, DaysStored, DaysSpent, Said
    <3>3. QED
      BY <3>2 DEF L!Next
  <2>3. QED
    BY <1>1, <2>1, <2>2 DEF Tick
<1>2. CASE Crash \/ (\E t \in Tasks : Start(t)) \/ UNCHANGED vars
  BY <1>2, QuietLedger DEF Crash, Start, vars
<1>3. ASSUME NEW t \in Tasks, Step(t) PROVE [L!Next]_L!vars
  BY <1>3, StepLedger
<1>4. QED
  BY <1>1, <1>2, <1>3 DEF Next

\* Any number of interleaved runs over any list of symbols implements the
\* Ledger: whatever fails, repeats or restarts, a LAUNCH in the log spent a
\* snapshot of its own.
THEOREM LedgerImplementation == Spec => ImplementsLedger
BY InitLedger, NextLedger, Inductive, PTL DEF Spec, ImplementsLedger, L!Spec

============================================================================
