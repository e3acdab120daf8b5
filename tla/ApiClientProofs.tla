-------------------------- MODULE ApiClientProofs --------------------------
(* What holds of ApiClient for every number of calls and permits, every    *)
(* time to live and every set of symbols and parameters.                   *)
EXTENDS PoolRefinement, FiniteSetTheorems, TLAPS

---------------------------------------------------------------------------
(* The inductive invariant *)

\* Awaits of a call that is not over.
Active == {"queued", "granted", "sent", "backoff"}

\* What a call knows of the clocks: its look into the cache came before its
\* request, and the guard's stamp before both.
CallOK(k) ==
    /\ k.looked <= now
    /\ k.pc = "sent" => k.looked <= k.sent /\ k.sent <= now
    /\ k.pc \in Active /\ k.op = "check" => k.stamp <= k.looked /\ k.looked - lag <= k.stamp
    /\ k.pc \in Active /\ k.op = "oi" => k.arg \in Symbols
    /\ k.pc \in Active /\ k.op = "check" => k.arg \in Params
    /\ k.pc = "served" /\ k.op = "oi" => k.looked - k.seen < OiTTL
    /\ k.pc = "served" /\ k.op = "check" => k.looked - k.seen < GuardTTL + lag

\* No entry is older than its stamp says.
EntriesOK ==
    /\ oiCache # None => oiCache.at <= oiCache.seen
    /\ \A p \in Params : estimates[p] # None => estimates[p].at <= estimates[p].seen

\* The queue holds the waiting calls, each once.
QueueOK ==
    /\ \A i \in 1..Len(waiters) : calls[waiters[i]].pc = "queued"
    /\ \A c \in Calls : calls[c].pc = "queued" => \E i \in 1..Len(waiters) : waiters[i] = c
    /\ \A i, j \in 1..Len(waiters) : waiters[i] = waiters[j] => i = j

IInv ==
    /\ TypeOK
    /\ \A c \in Calls : CallOK(calls[c])
    /\ EntriesOK
    /\ QueueOK
    /\ SlotsConserved

\* The part of it that is about the semaphore.
SlotsOK == free \in 0..Capacity /\ waiters \in Seq(Calls) /\ QueueOK /\ SlotsConserved

---------------------------------------------------------------------------
(* What a step of call c, which becomes k, does to the semaphore *)

\* The call neither waits nor takes or gives up a permit.
Keeps(c, k) ==
    /\ calls[c].pc # "queued" /\ k.pc # "queued"
    /\ k.pc \in HoldingPcs <=> calls[c].pc \in HoldingPcs
    /\ Become(c, k)
    /\ UNCHANGED <<free, waiters>>

Takes(c, k) ==
    /\ calls[c].pc \in {"idle", "backoff"} /\ k.pc = "sent"
    /\ free > 0 /\ waiters = <<>>
    /\ free' = free - 1
    /\ Become(c, k)
    /\ UNCHANGED waiters

Queues(c, k) ==
    /\ calls[c].pc \in {"idle", "backoff"} /\ k.pc = "queued"
    /\ free = 0 \/ waiters # <<>>
    /\ waiters' = Append(waiters, c)
    /\ Become(c, k)
    /\ UNCHANGED free

Gives(c, k) ==
    /\ calls[c].pc = "sent" /\ k.pc \in {"served", "failed", "backoff"}
    /\ Release(c, k)

\* Every step of a call is one of these, and takes the call nearer to its end.
Moves(c) ==
    \E k \in Call :
        /\ calls[c].pc # "idle" => StepsLeft(k) < StepsLeft(calls[c])
        /\ Keeps(c, k) \/ Takes(c, k) \/ Queues(c, k) \/ Gives(c, k)

LEMMA HoldersFinite == IsFiniteSet(Holders) /\ Cardinality(Holders) \in Nat
BY ClientOK, FS_Subset, FS_CardinalityType DEF Holders

\* A place of the Pool is a permit.
LEMMA FullOf == P!Full <=> Cardinality(Holders) = Capacity
BY DEF P!Full, P!Cardinality, Cardinality

LEMMA KeepsSlots ==
    ASSUME TypeOK, SlotsOK, NEW c \in Calls, NEW k \in Call, Keeps(c, k)
    PROVE  SlotsOK' /\ UNCHANGED P!vars
<1>1. calls' \in [Calls -> Call] /\ \A d \in Calls : calls'[d] = IF d = c THEN k ELSE calls[d]
  BY DEF Keeps, Become, TypeOK
<1>2. Holders' = Holders
  BY <1>1 DEF Holders, Keeps
<1>3. \A i \in 1..Len(waiters) : waiters[i] \in Calls
  BY DEF SlotsOK
<1>4. QueueOK'
  BY <1>1, <1>3 DEF QueueOK, SlotsOK, Keeps
<1>5. QED
  BY <1>2, <1>4 DEF SlotsOK, SlotsConserved, Keeps, P!vars

LEMMA TakesSlots ==
    ASSUME TypeOK, SlotsOK, NEW c \in Calls, NEW k \in Call, Takes(c, k)
    PROVE  SlotsOK' /\ P!Enter(c)
<1>1. calls' \in [Calls -> Call] /\ \A d \in Calls : calls'[d] = IF d = c THEN k ELSE calls[d]
  BY DEF Takes, Become, TypeOK
<1>2. Holders' = Holders \cup {c} /\ c \notin Holders
  BY <1>1 DEF Takes, Holders, HoldingPcs
<1>3. Cardinality(Holders') = Cardinality(Holders) + 1
  BY <1>2, HoldersFinite, FS_AddElement
<1>4. QueueOK'
  BY <1>1 DEF QueueOK, SlotsOK, Takes
<1>5. SlotsOK'
  BY <1>3, <1>4, HoldersFinite, ClientOK DEF SlotsOK, SlotsConserved, Takes
<1>6. P!Enter(c)
  <2>1. Cardinality(Holders) # Capacity
    BY HoldersFinite, ClientOK DEF SlotsOK, SlotsConserved, Takes
  <2>2. QED
    BY <1>2, <2>1, FullOf DEF P!Enter, Takes
<1>7. QED
  BY <1>5, <1>6

LEMMA QueuesSlots ==
    ASSUME TypeOK, SlotsOK, NEW c \in Calls, NEW k \in Call, Queues(c, k)
    PROVE  SlotsOK' /\ P!LineUp(c)
<1>1. calls' \in [Calls -> Call] /\ \A d \in Calls : calls'[d] = IF d = c THEN k ELSE calls[d]
  BY DEF Queues, Become, TypeOK
<1>2. Holders' = Holders /\ c \notin Holders
  BY <1>1 DEF Queues, Holders, HoldingPcs
<1>3. /\ Len(waiters') = Len(waiters) + 1
      /\ Len(waiters) \in Nat
      /\ waiters'[Len(waiters) + 1] = c
      /\ \A i \in 1..Len(waiters) : waiters'[i] = waiters[i] /\ waiters[i] \in Calls \ {c}
      /\ waiters' \in Seq(Calls)
      /\ waiters' # <<>>
  BY DEF SlotsOK, QueueOK, Queues
<1>4. QueueOK'
  <2>1. \A i \in 1..Len(waiters') : calls'[waiters'[i]].pc = "queued"
    BY <1>1, <1>3 DEF SlotsOK, QueueOK, Queues
  <2>2. ASSUME NEW d \in Calls, calls'[d].pc = "queued"
        PROVE  \E i \in 1..Len(waiters') : waiters'[i] = d
    <3>1. CASE d = c
      BY <1>3, <3>1
    <3>2. CASE d # c
      <4>1. PICK i \in 1..Len(waiters) : waiters[i] = d
        BY <1>1, <2>2, <3>2 DEF SlotsOK, QueueOK
      <4>2. QED
        BY <1>3, <4>1
    <3>3. QED
      BY <3>1, <3>2
  <2>3. \A i, j \in 1..Len(waiters') : waiters'[i] = waiters'[j] => i = j
    BY <1>3 DEF SlotsOK, QueueOK
  <2>4. QED
    BY <2>1, <2>2, <2>3 DEF QueueOK
<1>5. free = 0
  BY DEF SlotsOK, SlotsConserved, Queues
<1>6. SlotsOK'
  BY <1>2, <1>3, <1>4, <1>5 DEF SlotsOK, SlotsConserved, Queues
<1>7. P!LineUp(c)
  <2>1. Cardinality(Holders) = Capacity
    BY <1>5, HoldersFinite, ClientOK DEF SlotsOK, SlotsConserved
  <2>2. QED
    BY <1>2, <1>3, <2>1, FullOf DEF P!LineUp, P!Waits, Queues
<1>8. QED
  BY <1>6, <1>7

\* A call that gives its permit back frees it, or hands it to the first in
\* the queue.
LEMMA GivesSlots ==
    ASSUME TypeOK, SlotsOK, NEW c \in Calls, NEW k \in Call, Gives(c, k)
    PROVE  SlotsOK' /\ (P!Leave(c) \/ P!HandOver(c))
<1>0. calls[c].pc = "sent" /\ k.pc \notin HoldingPcs /\ k.pc # "queued" /\ Release(c, k)
  BY DEF Gives, HoldingPcs
<1>1. CASE waiters = <<>>
  <2>1. Become(c, k) /\ free' = free + 1 /\ waiters' = waiters
    BY <1>0, <1>1 DEF Release
  <2>2. /\ calls' \in [Calls -> Call]
        /\ \A d \in Calls : calls'[d] = IF d = c THEN k ELSE calls[d]
    BY <2>1 DEF Become, TypeOK
  <2>3. Holders' = Holders \ {c} /\ c \in Holders
    BY <1>0, <2>2 DEF Holders, HoldingPcs
  <2>4. Cardinality(Holders') = Cardinality(Holders) - 1
    BY <2>3, HoldersFinite, FS_RemoveElement
  <2>5. Cardinality(Holders') \in Nat
    BY <2>3, HoldersFinite, FS_RemoveElement, FS_CardinalityType
  <2>6. QueueOK'
    BY <1>0, <1>1, <2>1, <2>2 DEF QueueOK, SlotsOK
  <2>7. SlotsOK'
    BY <1>1, <2>1, <2>4, <2>5, <2>6, HoldersFinite, ClientOK DEF SlotsOK, SlotsConserved
  <2>8. P!Leave(c)
    BY <1>1, <2>1, <2>3 DEF P!Leave
  <2>9. QED
    BY <2>7, <2>8
<1>2. CASE waiters # <<>>
  <2> DEFINE h == Head(waiters)
  <2>1. /\ waiters' = Tail(waiters)
        /\ calls' = [calls EXCEPT ![c] = k, ![h].pc = "granted"]
        /\ free' = free
    BY <1>0, <1>2 DEF Release
  <2>2. /\ h \in Calls \ {c}
        /\ h = waiters[1]
        /\ calls[h].pc = "queued"
        /\ Len(waiters) \in Nat /\ Len(waiters) >= 1
    BY <1>0, <1>2 DEF SlotsOK, QueueOK
  <2>3. /\ calls'[c] = k
        /\ calls'[h].pc = "granted"
        /\ \A d \in Calls \ {c, h} : calls'[d] = calls[d]
    BY <2>1, <2>2 DEF TypeOK, Call
  <2>4. Holders' = (Holders \ {c}) \cup {h} /\ c \in Holders /\ h \notin Holders
    BY <1>0, <2>2, <2>3 DEF Holders, HoldingPcs
  <2>5. Cardinality(Holders') = Cardinality(Holders)
    <3>1. /\ IsFiniteSet(Holders \ {c})
          /\ Cardinality(Holders \ {c}) = Cardinality(Holders) - 1
      BY <2>4, HoldersFinite, FS_RemoveElement
    <3>2. Cardinality((Holders \ {c}) \cup {h}) = Cardinality(Holders \ {c}) + 1
      BY <2>4, <3>1, FS_AddElement
    <3>3. QED
      BY <2>4, <3>1, <3>2, HoldersFinite
  <2>6. /\ waiters' \in Seq(Calls)
        /\ Len(waiters') = Len(waiters) - 1
        /\ \A i \in 1..Len(waiters') : waiters'[i] = waiters[i + 1] /\ waiters[i + 1] \in Calls
    BY <1>2, <2>1 DEF SlotsOK
  <2>7. \A i \in 1..Len(waiters') : waiters'[i] \notin {c, h} /\ calls[waiters'[i]].pc = "queued"
    <3> SUFFICES ASSUME NEW i \in 1..Len(waiters')
                 PROVE  waiters'[i] \notin {c, h} /\ calls[waiters'[i]].pc = "queued"
      OBVIOUS
    <3>1. i + 1 \in 1..Len(waiters) /\ 1 \in 1..Len(waiters) /\ i + 1 # 1
      BY <2>2, <2>6
    <3>2. calls[waiters[i + 1]].pc = "queued" /\ waiters[i + 1] # h
      BY <2>2, <3>1 DEF SlotsOK, QueueOK
    <3>3. QED
      BY <1>0, <2>6, <3>2
  <2>8. QueueOK'
    <3>1. \A i \in 1..Len(waiters') : calls'[waiters'[i]].pc = "queued"
      BY <2>3, <2>6, <2>7
    <3>2. ASSUME NEW d \in Calls, calls'[d].pc = "queued"
          PROVE  \E i \in 1..Len(waiters') : waiters'[i] = d
      <4>1. d # c /\ d # h /\ calls[d].pc = "queued"
        BY <1>0, <2>3, <3>2
      <4>2. PICK i \in 1..Len(waiters) : waiters[i] = d
        BY <4>1 DEF SlotsOK, QueueOK
      <4>3. i # 1 /\ i - 1 \in 1..Len(waiters') /\ waiters'[i - 1] = d
        BY <2>2, <2>6, <4>1, <4>2
      <4>4. QED
        BY <4>3
    <3>3. \A i, j \in 1..Len(waiters') : waiters'[i] = waiters'[j] => i = j
      BY <2>2, <2>6 DEF SlotsOK, QueueOK
    <3>4. QED
      BY <3>1, <3>2, <3>3 DEF QueueOK
  <2>9. free = 0
    BY <1>2 DEF SlotsOK, SlotsConserved
  <2>10. SlotsOK'
    BY <2>1, <2>5, <2>6, <2>8, <2>9 DEF SlotsOK, SlotsConserved
  <2>11. P!HandOver(c)
    BY <1>2, <2>1, <2>4 DEF P!HandOver
  <2>12. QED
    BY <2>10, <2>11
<1>3. QED
  BY <1>1, <1>2

\* A step of a call keeps the slots in order, as the Pool says.
LEMMA MovesSlots ==
    ASSUME TypeOK, SlotsOK, NEW c \in Calls, Moves(c)
    PROVE  SlotsOK' /\ [P!Next]_P!vars
<1>1. PICK k \in Call : Keeps(c, k) \/ Takes(c, k) \/ Queues(c, k) \/ Gives(c, k)
  BY DEF Moves
<1>2. QED
  BY <1>1, KeepsSlots, TakesSlots, QueuesSlots, GivesSlots DEF P!Next

---------------------------------------------------------------------------
(* The way of a call to its end *)

\* What is left of a call, by its await.
LEMMA StepsLeftOf ==
    ASSUME NEW k \in Call
    PROVE  /\ StepsLeft(k) \in Nat
           /\ k.tries \in 0..2
           /\ k.pc = "idle" => StepsLeft(k) = 0
           /\ k.pc \in {"served", "failed"} => StepsLeft(k) = 1
           /\ k.pc = "sent" => StepsLeft(k) = 4 * (3 - k.tries)
           /\ k.pc = "granted" => StepsLeft(k) = 4 * (3 - k.tries) + 1
           /\ k.pc = "queued" => StepsLeft(k) = 4 * (3 - k.tries) + 2
           /\ k.pc = "backoff" => StepsLeft(k) = 4 * (3 - k.tries) + 3
<1>1. k.tries \in 0..2 /\ k.pc \in Pcs
  BY DEF Call, MaxAttempts
<1>2. QED
  BY <1>1 DEF StepsLeft, MaxAttempts, Pcs

\* A step of one call may grant another its permit, and nothing else.
LEMMA MovesDown ==
    ASSUME TypeOK, SlotsOK, NEW c \in Calls, Moves(c),
           NEW d \in Calls, calls[d].pc # "idle", calls'[d] # calls[d]
    PROVE  StepsLeft(calls'[d]) \in 0..(StepsLeft(calls[d]) - 1)
<1>1. PICK k \in Call :
          /\ calls[c].pc # "idle" => StepsLeft(k) < StepsLeft(calls[c])
          /\ Keeps(c, k) \/ Takes(c, k) \/ Queues(c, k) \/ Gives(c, k)
  BY DEF Moves
<1>2. calls[d] \in Call
  BY DEF TypeOK
<1>3. CASE Become(c, k)
  <2>1. d = c /\ calls'[d] = k
    BY <1>3 DEF Become, TypeOK
  <2>2. QED
    BY <1>1, <1>2, <2>1, StepsLeftOf
<1>4. CASE Gives(c, k) /\ waiters # <<>>
  <2> DEFINE h == Head(waiters)
  <2>1. h \in Calls \ {c} /\ calls[h].pc = "queued" /\ calls[h] \in Call
    BY <1>4 DEF SlotsOK, QueueOK, Gives, TypeOK
  <2>2. /\ calls'[c] = k
        /\ calls'[h] = [calls[h] EXCEPT !.pc = "granted"]
        /\ \A e \in Calls \ {c, h} : calls'[e] = calls[e]
    BY <1>4, <2>1 DEF Gives, Release, TypeOK
  <2>3. CASE d = c
    BY <1>1, <1>2, <2>2, <2>3, StepsLeftOf
  <2>4. CASE d = h
    <3>1. /\ calls'[h] \in Call
          /\ calls'[h].pc = "granted" /\ calls'[h].tries = calls[h].tries
      BY <2>1, <2>2 DEF Call, Pcs
    <3>2. QED
      BY <2>1, <2>4, <3>1, StepsLeftOf
  <2>5. QED
    BY <2>2, <2>3, <2>4
<1>5. QED
  BY <1>1, <1>3, <1>4 DEF Keeps, Takes, Queues, Gives, Release

\* A call takes a permit or joins the queue.
LEMMA AcquireMoves ==
    ASSUME TypeOK, SlotsOK, NEW c \in Calls, NEW k \in Call, Acquire(c, k),
           calls[c].pc \in {"idle", "backoff"},
           calls[c].pc = "backoff" => k.tries = calls[c].tries
    PROVE  Moves(c)
<1>1. calls[c] \in Call /\ now \in Times
  BY DEF TypeOK
<1>2. CASE free > 0 /\ waiters = <<>>
  <2>1. PICK j : j = Sent(k)
    OBVIOUS
  <2>2. j \in Call /\ j.pc = "sent" /\ j.tries = k.tries
    BY <1>1, <2>1 DEF Sent, Call, Pcs
  <2>3. calls[c].pc # "idle" => StepsLeft(j) < StepsLeft(calls[c])
    BY <1>1, <2>2, StepsLeftOf
  <2>4. Takes(c, j)
    BY <1>2, <2>1, <2>2 DEF Acquire, Takes
  <2>5. QED
    BY <2>2, <2>3, <2>4 DEF Moves
<1>3. CASE free = 0 \/ waiters # <<>>
  <2>1. PICK j : j = [k EXCEPT !.pc = "queued"]
    OBVIOUS
  <2>2. j \in Call /\ j.pc = "queued" /\ j.tries = k.tries
    BY <1>1, <2>1 DEF Call, Pcs
  <2>3. calls[c].pc # "idle" => StepsLeft(j) < StepsLeft(calls[c])
    BY <1>1, <2>2, StepsLeftOf
  <2>4. Queues(c, j)
    BY <1>3, <2>1, <2>2 DEF Acquire, Queues, Queue, SlotsOK
  <2>5. QED
    BY <2>2, <2>3, <2>4 DEF Moves
<1>4. QED
  BY <1>2, <1>3 DEF Acquire

\* A result from a cache ends a call at once.
LEMMA ServedMoves ==
    ASSUME TypeOK, NEW c \in Calls, NEW k \in Call, Become(c, k),
           calls[c].pc \in {"idle", "backoff"}, k.pc = "served",
           UNCHANGED <<free, waiters>>
    PROVE  Moves(c)
<1>1. calls[c] \in Call
  BY DEF TypeOK
<1>2. calls[c].pc # "idle" => StepsLeft(k) < StepsLeft(calls[c])
  BY <1>1, StepsLeftOf
<1>3. Keeps(c, k)
  BY DEF Keeps, HoldingPcs
<1>4. QED
  BY <1>2, <1>3 DEF Moves

---------------------------------------------------------------------------
(* Calls and caches *)

\* A call's knowledge outlives the steps of others, and of the clocks.
LEMMA CallKept ==
    ASSUME TypeOK, NEW k \in Call, CallOK(k), now' \in Times, now <= now',
           lag' \in 0..MaxLag, lag <= lag'
    PROVE  CallOK(k)'
BY ClientOK DEF CallOK, TypeOK, Call, Times

\* What a step of call c may change, and how.
StepOK(c) ==
    /\ UNCHANGED <<now, lag>>
    /\ calls' \in [Calls -> Call]
    /\ \A d \in Calls : CallOK(calls'[d])
    /\ oiCache' \in Entry \cup {None}
    /\ estimates' \in [Params -> Estimate \cup {None}]
    /\ EntriesOK'

\* A step that leaves the caches and changes one call.
LEMMA BecomeOK ==
    ASSUME IInv, NEW c \in Calls, NEW k \in Call, CallOK(k), Become(c, k),
           UNCHANGED <<now, lag, oiCache, estimates>>
    PROVE  StepOK(c)
BY DEF IInv, TypeOK, Become, StepOK, EntriesOK

\* Taking a permit, or a place in the queue.
LEMMA AcquireOK ==
    ASSUME IInv, NEW c \in Calls, NEW k \in Call, CallOK(k), k.pc \in {"idle", "backoff"},
           k.op = "check" => k.stamp <= k.looked /\ k.looked - lag <= k.stamp /\ k.arg \in Params,
           k.op = "oi" => k.arg \in Symbols,
           Acquire(c, k)
    PROVE  StepOK(c)
<1>1. UNCHANGED <<now, lag, oiCache, estimates>>
  BY DEF Acquire
<1>2. now \in Times /\ \A t \in Times : t \in Int
  BY ClientOK DEF IInv, TypeOK, Times
<1>3. ASSUME NEW j, j = Sent(k) PROVE j \in Call /\ CallOK(j)
  <2>1. j \in Call
    BY <1>2, <1>3 DEF Sent, Call, Pcs
  <2>2. /\ j.pc = "sent" /\ j.sent = now
        /\ j.op = k.op /\ j.arg = k.arg /\ j.looked = k.looked /\ j.stamp = k.stamp
    BY <1>2, <1>3 DEF Sent, Call
  <2>3. k.looked <= now /\ now <= now
    BY <1>2 DEF CallOK, Call, Times
  <2>4. QED
    BY <2>1, <2>2, <2>3 DEF CallOK, Active
<1>4. ASSUME NEW j, j = [k EXCEPT !.pc = "queued"] PROVE j \in Call /\ CallOK(j)
  BY <1>2, <1>4 DEF Call, Pcs, CallOK, Active, Times
<1>5. QED
  BY <1>1, <1>3, <1>4, BecomeOK DEF Acquire

\* Giving the permit back, perhaps to a call of the queue.
LEMMA ReleaseOK ==
    ASSUME IInv, NEW c \in Calls, NEW k \in Call, CallOK(k), Release(c, k),
           UNCHANGED <<now, lag>>, calls[c].pc = "sent",
           oiCache' \in Entry \cup {None},
           estimates' \in [Params -> Estimate \cup {None}],
           EntriesOK'
    PROVE  StepOK(c)
<1>1. CASE waiters = <<>>
  BY <1>1 DEF IInv, TypeOK, Release, Become, StepOK
<1>2. CASE waiters # <<>>
  <2> DEFINE h == Head(waiters)
             j == [calls[h] EXCEPT !.pc = "granted"]
  <2>1. h \in Calls \ {c} /\ calls[h].pc = "queued"
    BY <1>2 DEF IInv, TypeOK, QueueOK
  <2>2. calls[h] \in Call /\ CallOK(calls[h])
    BY <2>1 DEF IInv, TypeOK
  <2>3. j \in Call /\ CallOK(j)
    BY <2>1, <2>2 DEF Call, Pcs, CallOK, Active
  <2>4. /\ calls' \in [Calls -> Call]
        /\ \A d \in Calls : calls'[d] = IF d = c THEN k ELSE IF d = h THEN j ELSE calls[d]
    BY <1>2, <2>1, <2>3 DEF Release, IInv, TypeOK
  <2>5. QED
    BY <2>3, <2>4 DEF IInv, StepOK
<1>3. QED
  BY <1>1, <1>2 DEF Release

---------------------------------------------------------------------------
(* Each action, one lemma per await *)

\* A new call has nothing behind it.
LEMMA IdleOK == Idle \in Call /\ 0 \in Times
BY ClientOK DEF Idle, Call, Pcs, Times, MaxAttempts

\* A result that is recent enough may be returned.
LEMMA ServedOK ==
    ASSUME TypeOK, NEW k \in Call, NEW seen \in Times, k.looked <= now,
           k.op = "oi" => k.looked - seen < OiTTL,
           k.op = "check" => k.looked - seen < GuardTTL + lag
    PROVE  Served(k, seen) \in Call /\ CallOK(Served(k, seen))
<1>1. /\ Served(k, seen) \in Call
      /\ Served(k, seen).pc = "served" /\ Served(k, seen).op = k.op
      /\ Served(k, seen).looked = k.looked /\ Served(k, seen).seen = seen
  BY IdleOK DEF Served, Call, Pcs, Idle
<1>2. QED
  BY <1>1 DEF CallOK, Active

LEMMA FailedOK == ASSUME TypeOK PROVE Failed \in Call /\ CallOK(Failed)
<1>1. /\ Failed \in Call
      /\ Failed.pc = "failed" /\ Failed.looked = 0
  BY IdleOK DEF Failed, Call, Pcs, Idle
<1>2. 0 <= now
  BY ClientOK DEF TypeOK, Times
<1>3. QED
  BY <1>1, <1>2 DEF CallOK, Active

\* The first line of get_open_interest, and of every other method.
LEMMA AttemptOK ==
    ASSUME IInv, NEW c \in Calls, NEW k \in Call, CallOK(k), k.pc \in {"idle", "backoff"},
           calls[c].pc \in {"idle", "backoff"},
           calls[c].pc = "backoff" => k.tries = calls[c].tries,
           k.op = "check" => k.stamp <= k.looked /\ k.looked - lag <= k.stamp /\ k.arg \in Params,
           k.op = "oi" => k.arg \in Symbols,
           Attempt(c, k)
    PROVE  StepOK(c) /\ Moves(c)
<1>0. PICK m : m = [k EXCEPT !.looked = now]
  OBVIOUS
<1>1. now \in Times /\ SlotsOK /\ TypeOK
  BY DEF IInv, TypeOK, SlotsOK
<1>2. CASE k.op # "oi"
  BY <1>1, <1>2, AcquireOK, AcquireMoves DEF Attempt
<1>3. CASE k.op = "oi"
  <2>1. /\ m \in Call /\ m.pc = k.pc /\ m.op = "oi" /\ m.arg = k.arg /\ m.looked = now
        /\ m.tries = k.tries
    BY <1>0, <1>1, <1>3 DEF Call
  <2>2. CallOK(m)
    BY <1>1, <1>3, <2>1, ClientOK DEF CallOK, Active, Times
  <2>3. CASE OiHit(k.arg) /\ Become(c, Served(m, oiCache.seen))
             /\ UNCHANGED <<now, lag, free, waiters, oiCache, estimates>>
    <3>1. /\ oiCache \in Entry
          /\ oiCache.at <= oiCache.seen
          /\ now - oiCache.at < OiTTL
      BY <2>3 DEF OiHit, Fresh, IInv, TypeOK, EntriesOK
    <3>2. oiCache.seen \in Times /\ now - oiCache.seen < OiTTL /\ now <= now
      BY <1>1, <3>1, ClientOK DEF Entry, Times
    <3>3. Served(m, oiCache.seen) \in Call /\ CallOK(Served(m, oiCache.seen))
      BY <1>1, <2>1, <3>2, ServedOK
    <3>4. Served(m, oiCache.seen).pc = "served"
      BY <3>3, IdleOK DEF Served, Call, Idle
    <3>5. Moves(c)
      BY <1>1, <2>3, <3>3, <3>4, ServedMoves
    <3>6. QED
      BY <2>3, <3>3, <3>5, BecomeOK
  <2>4. CASE Acquire(c, m)
    BY <1>1, <1>3, <2>1, <2>2, <2>4, AcquireOK, AcquireMoves
  <2>5. QED
    BY <1>0, <1>3, <2>3, <2>4 DEF Attempt, AttemptOi
<1>4. QED
  BY <1>2, <1>3

\* The start of a call.
LEMMA BeginOK ==
    ASSUME IInv, NEW c \in Calls,
           \/ \E op \in Ops : Begin(c, op)
           \/ \E s \in Symbols : BeginOi(c, s)
           \/ \E p \in Params : BeginCheck(c, p)
    PROVE  StepOK(c) /\ Moves(c)
<1>1. /\ now \in Times /\ lag \in Nat /\ SlotsOK /\ TypeOK /\ calls[c].pc = "idle"
      /\ \A t \in Times : t \in Nat
  <2>1. \A t \in Times : t \in Nat
    BY ClientOK DEF Times
  <2>2. calls[c].pc = "idle"
    BY DEF Begin, BeginOi, BeginCheck
  <2>3. QED
    BY <2>1, <2>2, ClientOK DEF IInv, TypeOK, SlotsOK
<1>2. ASSUME NEW op \in Ops, Begin(c, op) PROVE StepOK(c) /\ Moves(c)
  <2>1. PICK k : k = [Idle EXCEPT !.op = op]
    OBVIOUS
  <2>2. k \in Call /\ CallOK(k) /\ k.pc = "idle" /\ k.op \notin {"oi", "check"}
    BY <1>1, <1>2, <2>1, IdleOK, ClientOK DEF Idle, Call, CallOK, Active, Begin, OpKinds
  <2>3. QED
    BY <1>1, <1>2, <2>1, <2>2, AttemptOK DEF Begin
<1>3. ASSUME NEW s \in Symbols, BeginOi(c, s) PROVE StepOK(c) /\ Moves(c)
  <2>1. PICK k : k = [Idle EXCEPT !.op = "oi", !.arg = s]
    OBVIOUS
  <2>2. /\ k \in Call /\ k.pc = "idle" /\ k.op = "oi" /\ k.arg = s
        /\ k.looked = 0 /\ 0 <= now
    <3>1. k \in Call
      BY <2>1, IdleOK DEF Call, OpKinds
    <3>2. QED
      BY <1>1, <2>1, <3>1 DEF Idle
  <2>3. CallOK(k)
    BY <2>2 DEF CallOK, Active
  <2>4. QED
    BY <1>1, <1>3, <2>1, <2>2, <2>3, AttemptOK DEF BeginOi
<1>4. ASSUME NEW p \in Params, BeginCheck(c, p) PROVE StepOK(c) /\ Moves(c)
  <2>1. PICK k : k = [Idle EXCEPT !.op = "check", !.arg = p, !.looked = now, !.stamp = Wall]
    OBVIOUS
  <2>2. /\ k \in Call /\ k.pc = "idle" /\ k.op = "check" /\ k.arg = p
        /\ k.looked = now /\ k.stamp = now - lag
    <3>1. Wall \in Int
      BY <1>1 DEF Wall
    <3>2. k \in Call
      BY <1>1, <2>1, <3>1, IdleOK DEF Call, OpKinds
    <3>3. QED
      BY <2>1, <3>2 DEF Idle, Wall
  <2>3. now <= now /\ k.stamp <= k.looked /\ k.looked - lag <= k.stamp
    BY <1>1, <2>2
  <2>4. CallOK(k)
    BY <2>2, <2>3 DEF CallOK, Active
  <2>5. CASE GuardHit(p) /\ Become(c, Served(k, estimates[p].seen))
             /\ UNCHANGED <<now, lag, free, waiters, oiCache, estimates>>
    <3>1. /\ estimates[p] \in Estimate
          /\ estimates[p].at <= estimates[p].seen
          /\ Wall - estimates[p].at < GuardTTL
      BY <2>5 DEF GuardHit, Fresh, IInv, TypeOK, EntriesOK
    <3>2. estimates[p].seen \in Times /\ now - estimates[p].seen < GuardTTL + lag
      BY <1>1, <3>1, ClientOK DEF Estimate, Wall
    <3>3. Served(k, estimates[p].seen) \in Call /\ CallOK(Served(k, estimates[p].seen))
      BY <1>1, <2>2, <2>3, <3>2, ServedOK
    <3>4. Served(k, estimates[p].seen).pc = "served"
      BY IdleOK DEF Served, Call, Idle
    <3>5. Moves(c)
      BY <1>1, <2>5, <3>3, <3>4, ServedMoves
    <3>6. QED
      BY <2>5, <3>3, <3>5, BecomeOK
  <2>6. CASE Attempt(c, k)
    BY <1>1, <2>2, <2>3, <2>4, <2>6, AttemptOK
  <2>7. QED
    BY <1>4, <2>1, <2>5, <2>6 DEF BeginCheck
<1>5. QED
  BY <1>2, <1>3, <1>4

\* The end of a request: whatever the call becomes, its permit is released.
LEMMA AnswerOK ==
    ASSUME IInv, NEW c \in Calls, NEW k \in Call, CallOK(k), Release(c, k),
           UNCHANGED <<now, lag>>, calls[c].pc = "sent",
           k.pc \in {"served", "failed", "backoff"},
           k.pc = "backoff" => k.tries = calls[c].tries + 1,
           oiCache' \in Entry \cup {None},
           estimates' \in [Params -> Estimate \cup {None}],
           EntriesOK'
    PROVE  StepOK(c) /\ Moves(c)
<1>1. StepOK(c)
  BY ReleaseOK
<1>2. StepsLeft(k) < StepsLeft(calls[c])
  <2>1. calls[c] \in Call
    BY DEF IInv, TypeOK
  <2>2. QED
    BY <2>1, StepsLeftOf
<1>3. Gives(c, k)
  BY DEF Gives
<1>4. QED
  BY <1>1, <1>2, <1>3 DEF Moves

\* What is known of a call whose request is under way.
LEMMA SentKnown ==
    ASSUME IInv, NEW c \in Calls, calls[c].pc = "sent"
    PROVE  /\ calls[c] \in Call /\ CallOK(calls[c])
           /\ now \in Nat /\ lag \in Nat /\ \A t \in Times : t \in Nat
           /\ \A seen \in SeenIn(c) : seen \in Times /\ calls[c].looked <= seen
           /\ calls[c].looked <= now
<1>1. calls[c] \in Call /\ CallOK(calls[c]) /\ now \in Times
  BY DEF IInv, TypeOK
<1>2. now \in Nat /\ lag \in Nat /\ \A t \in Times : t \in Nat
  BY <1>1, ClientOK DEF IInv, TypeOK, Times
<1>3. calls[c].looked <= calls[c].sent /\ calls[c].sent <= now
  BY <1>1 DEF CallOK
<1>4. \A seen \in SeenIn(c) : seen \in Times /\ calls[c].looked <= seen
  BY <1>1, <1>2, <1>3, ClientOK DEF SeenIn, Times, Call
<1>5. QED
  BY <1>1, <1>2, <1>4 DEF CallOK

LEMMA SucceedStep ==
    ASSUME IInv, NEW c \in Calls, Succeed(c) PROVE StepOK(c) /\ Moves(c)
<1> DEFINE k == calls[c]
<1>1. k.pc = "sent" /\ k.op # "oi" /\ UNCHANGED <<now, lag, oiCache>>
  BY DEF Succeed
<1>2. PICK seen \in SeenIn(c) :
          /\ estimates' = IF k.op = "check"
                          THEN [estimates EXCEPT ![k.arg] = [at |-> GuardStamp(c), seen |-> seen]]
                          ELSE estimates
          /\ Release(c, Served(k, seen))
  BY DEF Succeed
<1>3. /\ k \in Call /\ CallOK(k) /\ now \in Nat /\ lag \in Nat
      /\ seen \in Times /\ k.looked <= seen /\ k.looked <= now
      /\ \A t \in Times : t \in Nat
  BY <1>1, <1>2, SentKnown
<1>4. Served(k, seen) \in Call /\ CallOK(Served(k, seen))
  <2>1. k.looked \in Nat /\ seen \in Nat
    BY <1>3 DEF Call
  <2>2. k.looked - seen < GuardTTL + lag
    BY <1>3, <2>1, ClientOK
  <2>3. QED
    BY <1>1, <1>3, <2>2, ServedOK DEF IInv
<1>5. Served(k, seen).pc = "served"
  BY IdleOK DEF Served, Call, Idle
<1>6. estimates' \in [Params -> Estimate \cup {None}] /\ oiCache' \in Entry \cup {None} /\ EntriesOK'
  <2>1. CASE k.op = "check"
    <3>1. k.arg \in Params /\ k.stamp <= k.looked /\ k.stamp \in Int /\ k.looked \in Nat
      BY <1>1, <1>3, <2>1 DEF CallOK, Active, Call
    <3>2. [at |-> k.stamp, seen |-> seen] \in Estimate /\ k.stamp <= seen
      BY <1>3, <3>1 DEF Estimate
    <3>3. estimates' = [estimates EXCEPT ![k.arg] = [at |-> k.stamp, seen |-> seen]]
      BY <1>2, <2>1 DEF GuardStamp
    <3>4. QED
      BY <1>1, <3>1, <3>2, <3>3 DEF IInv, TypeOK, EntriesOK
  <2>2. CASE k.op # "check"
    BY <1>1, <1>2, <2>2 DEF IInv, TypeOK, EntriesOK
  <2>3. QED
    BY <2>1, <2>2
<1>7. QED
  BY <1>1, <1>2, <1>4, <1>5, <1>6, AnswerOK

LEMMA SucceedOiStep ==
    ASSUME IInv, NEW c \in Calls, SucceedOi(c) PROVE StepOK(c) /\ Moves(c)
<1> DEFINE k == calls[c]
<1>1. k.pc = "sent" /\ k.op = "oi" /\ UNCHANGED <<now, lag, estimates>>
  BY DEF SucceedOi
<1>2. PICK seen \in SeenIn(c), syms \in SUBSET Symbols :
          /\ oiCache' = [at |-> OiStamp(c), syms |-> syms, seen |-> seen]
          /\ Release(c, IF k.arg \in syms THEN Served(k, seen) ELSE Failed)
  BY DEF SucceedOi
<1>3. /\ k \in Call /\ CallOK(k) /\ now \in Nat /\ lag \in Nat
      /\ seen \in Times /\ k.looked <= seen /\ k.looked <= now
      /\ \A t \in Times : t \in Nat
  BY <1>1, <1>2, SentKnown
<1>4. Served(k, seen) \in Call /\ CallOK(Served(k, seen))
  <2>1. k.looked \in Nat /\ seen \in Nat
    BY <1>3 DEF Call
  <2>2. k.looked - seen < OiTTL
    BY <1>3, <2>1, ClientOK
  <2>3. QED
    BY <1>1, <1>3, <2>2, ServedOK DEF IInv
<1>5. Failed \in Call /\ CallOK(Failed) /\ Failed.pc = "failed"
  BY FailedOK, IdleOK DEF IInv, Failed, Call, Idle
<1>6. Served(k, seen).pc = "served"
  BY IdleOK DEF Served, Call, Idle
<1>7. estimates' \in [Params -> Estimate \cup {None}] /\ oiCache' \in Entry \cup {None} /\ EntriesOK'
  <2>1. [at |-> k.looked, syms |-> syms, seen |-> seen] \in Entry
    BY <1>2, <1>3 DEF Entry, Call
  <2>2. QED
    BY <1>1, <1>2, <1>3, <2>1 DEF OiStamp, IInv, TypeOK, EntriesOK
<1>8. CASE k.arg \in syms
  BY <1>1, <1>2, <1>4, <1>6, <1>7, <1>8, AnswerOK
<1>9. CASE k.arg \notin syms
  BY <1>1, <1>2, <1>5, <1>7, <1>9, AnswerOK
<1>10. QED
  BY <1>8, <1>9

\* A failed attempt, retried or not.
LEMMA FailStep ==
    ASSUME IInv, NEW c \in Calls, RetryLater(c) \/ Fail(c) PROVE StepOK(c) /\ Moves(c)
<1>1. /\ calls[c].pc = "sent"
      /\ UNCHANGED <<now, lag, oiCache, estimates>>
      /\ EntriesOK'
      /\ oiCache' \in Entry \cup {None}
      /\ estimates' \in [Params -> Estimate \cup {None}]
  BY DEF RetryLater, Fail, IInv, TypeOK, EntriesOK
<1>2. CASE Fail(c)
  <2>1. Failed \in Call /\ CallOK(Failed) /\ Failed.pc = "failed"
    BY FailedOK, IdleOK DEF IInv, Failed, Call, Idle
  <2>2. QED
    BY <1>1, <1>2, <2>1, AnswerOK DEF Fail
<1>3. CASE RetryLater(c)
  <2>1. PICK j : j = Sleeping(calls[c])
    OBVIOUS
  <2>2. calls[c] \in Call /\ CallOK(calls[c]) /\ now \in Nat
    BY <1>1, SentKnown
  <2>3. WakeAt(calls[c].tries) \in Times
    BY <2>2, ClientOK DEF WakeAt, Backoff, Times
  <2>4. calls[c].tries + 1 \in 0..(MaxAttempts - 1)
    BY <1>3, <2>2 DEF RetryLater, Call, MaxAttempts
  <2>5. j \in Call
    BY <2>1, <2>2, <2>3, <2>4, IdleOK DEF Sleeping, Call, Pcs
  <2>6. /\ j.pc = "backoff" /\ j.op = calls[c].op /\ j.arg = calls[c].arg
        /\ j.looked = calls[c].looked /\ j.stamp = calls[c].stamp
        /\ j.tries = calls[c].tries + 1
    BY <2>1, <2>2, <2>5 DEF Sleeping, Call
  <2>7. CallOK(j)
    BY <1>1, <2>2, <2>6 DEF CallOK, Active
  <2>8. QED
    BY <1>1, <1>3, <2>1, <2>5, <2>6, <2>7, AnswerOK DEF RetryLater
<1>4. QED
  BY <1>2, <1>3

\* A waiter resumed, a back-off over, a call returned.
LEMMA QuietStep ==
    ASSUME IInv, NEW c \in Calls, Resume(c) \/ Retry(c) \/ Return(c)
    PROVE  StepOK(c) /\ Moves(c)
<1>1. /\ calls[c] \in Call /\ CallOK(calls[c]) /\ TypeOK /\ SlotsOK
      /\ now \in Times /\ \A t \in Times : t \in Nat
  BY ClientOK DEF IInv, TypeOK, SlotsOK, Times
<1>2. CASE Resume(c)
  <2>1. PICK j : j = Sent(calls[c])
    OBVIOUS
  <2>2. j \in Call
    BY <1>1, <2>1 DEF Sent, Call, Pcs
  <2>3. /\ j.pc = "sent" /\ j.sent = now
        /\ j.op = calls[c].op /\ j.arg = calls[c].arg
        /\ j.looked = calls[c].looked /\ j.stamp = calls[c].stamp
        /\ j.tries = calls[c].tries
    BY <1>1, <2>1, <2>2 DEF Sent, Call
  <2>4. CallOK(j)
    <3>1. calls[c].pc = "granted" /\ j.looked <= now /\ now <= now
      BY <1>1, <1>2, <2>3 DEF CallOK, Resume
    <3>2. QED
      BY <1>1, <2>3, <3>1 DEF CallOK, Active
  <2>5. StepOK(c)
    BY <1>2, <2>1, <2>2, <2>4, BecomeOK DEF Resume
  <2>6. StepsLeft(j) < StepsLeft(calls[c])
    BY <1>1, <1>2, <2>2, <2>3, StepsLeftOf DEF Resume
  <2>7. Keeps(c, j)
    BY <1>2, <2>1, <2>3 DEF Keeps, Resume, HoldingPcs
  <2>8. QED
    BY <2>2, <2>5, <2>6, <2>7 DEF Moves
<1>3. CASE Retry(c)
  <2>1. PICK j : j = [calls[c] EXCEPT !.wake = 0]
    OBVIOUS
  <2>2. j \in Call
    BY <1>1, <2>1, IdleOK DEF Call
  <2>3. /\ j.pc = "backoff" /\ j.op = calls[c].op /\ j.arg = calls[c].arg
        /\ j.looked = calls[c].looked /\ j.stamp = calls[c].stamp
        /\ calls[c].pc = "backoff" /\ j.tries = calls[c].tries
    BY <1>1, <1>3, <2>1, <2>2 DEF Call, Retry
  <2>4. CallOK(j)
    BY <1>1, <2>3 DEF CallOK, Active
  <2>5. /\ j.op = "check" => j.stamp <= j.looked /\ j.looked - lag <= j.stamp /\ j.arg \in Params
        /\ j.op = "oi" => j.arg \in Symbols
    BY <2>3, <2>4 DEF CallOK, Active
  <2>6. QED
    BY <1>3, <2>1, <2>2, <2>3, <2>4, <2>5, AttemptOK DEF Retry
<1>4. CASE Return(c)
  <2>1. CallOK(Idle) /\ Idle.pc = "idle" /\ Idle \in Call
    <3>1. 0 <= now /\ Idle.looked = 0 /\ Idle.pc = "idle"
      BY <1>1 DEF Idle
    <3>2. QED
      BY <3>1, IdleOK DEF CallOK, Active
  <2>2. StepsLeft(Idle) < StepsLeft(calls[c])
    BY <1>1, <1>4, <2>1, StepsLeftOf DEF Return
  <2>3. Keeps(c, Idle)
    BY <1>4, <2>1 DEF Return, Keeps, HoldingPcs
  <2>4. QED
    BY <1>4, <2>1, <2>2, <2>3, BecomeOK DEF Return, Moves
<1>5. QED
  BY <1>2, <1>3, <1>4

---------------------------------------------------------------------------
(* IInv is inductive *)

LEMMA InitIInv == ASSUME Init PROVE IInv
<1>1. TypeOK /\ now = 0
  <2>1. free \in 0..Capacity /\ 0 \in 0..MaxLag /\ waiters \in Seq(Calls)
    BY ClientOK DEF Init
  <2>2. QED
    BY <2>1, IdleOK DEF Init, TypeOK
<1>2. \A c \in Calls : CallOK(calls[c])
  <2>1. Idle.pc = "idle" /\ Idle.looked = 0
    BY DEF Idle
  <2>2. QED
    BY <1>1, <2>1 DEF Init, CallOK, Active
<1>3. Holders = {}
  BY DEF Init, Holders, HoldingPcs, Idle
<1>4. SlotsConserved
  BY <1>3, FS_EmptySet, ClientOK DEF Init, SlotsConserved
<1>5. QED
  BY <1>1, <1>2, <1>4 DEF Init, IInv, QueueOK, EntriesOK, Idle

\* A step of a call.
LEMMA CallStep ==
    ASSUME IInv, NEW c \in Calls,
           \/ \E op \in Ops : Begin(c, op)
           \/ \E s \in Symbols : BeginOi(c, s)
           \/ \E p \in Params : BeginCheck(c, p)
           \/ Step(c)
    PROVE  StepOK(c) /\ Moves(c)
BY BeginOK, SucceedStep, SucceedOiStep, FailStep, QuietStep DEF Step

LEMMA StepIInv ==
    ASSUME IInv, NEW c \in Calls, StepOK(c), Moves(c) PROVE IInv'
<1>1. SlotsOK
  BY DEF IInv, TypeOK, SlotsOK
<1>2. SlotsOK'
  BY <1>1, MovesSlots DEF IInv
<1>3. QED
  BY <1>2 DEF IInv, StepOK, SlotsOK, TypeOK, CallOK

\* A step of a clock.
LEMMA ClockIInv == ASSUME IInv, Tick \/ SetBack PROVE IInv'
<1>1. /\ now' \in Times /\ now <= now'
      /\ lag' \in 0..MaxLag /\ lag <= lag'
      /\ UNCHANGED <<free, waiters, calls, oiCache, estimates>>
  BY ClientOK DEF IInv, TypeOK, Times, Tick, SetBack
<1>2. \A c \in Calls : CallOK(calls[c])'
  BY <1>1, CallKept DEF IInv, TypeOK
<1>3. QED
  BY <1>1, <1>2 DEF IInv, TypeOK, EntriesOK, QueueOK, SlotsConserved, Holders

LEMMA NextIInv == ASSUME IInv, [Next]_vars PROVE IInv'
<1>1. ASSUME NEW c \in Calls, Moves(c), StepOK(c) PROVE IInv'
  BY <1>1, StepIInv
<1>2. ASSUME NEW c \in Calls,
             \/ \E op \in Ops : Begin(c, op)
             \/ \E s \in Symbols : BeginOi(c, s)
             \/ \E p \in Params : BeginCheck(c, p)
             \/ Step(c)
      PROVE  IInv'
  BY <1>1, <1>2, CallStep
<1>3. CASE Tick \/ SetBack
  BY <1>3, ClockIInv
<1>4. CASE UNCHANGED vars
  BY <1>4 DEF vars, IInv, TypeOK, CallOK, EntriesOK, QueueOK, SlotsConserved, Holders
<1>5. QED
  BY <1>2, <1>3, <1>4 DEF Next

\* Everything below rests on this.
THEOREM Inductive == Spec => []IInv
BY InitIInv, NextIInv, PTL DEF Spec

---------------------------------------------------------------------------
(* The theorems *)

\* Clocks, permits, queue, calls and caches keep their types.
THEOREM TypeCorrect == Spec => []TypeOK
BY Inductive, PTL DEF IInv

\* No outcome of a request loses a permit or makes one up, none is held over
\* a back-off, no call waits while one is free, none that waits is missing
\* from the queue, and none is in it twice.
THEOREM Permits == Spec => []SemaphoreSound
<1>1. ASSUME IInv PROVE NoneForgotten
  <2>1. \A i \in 1..Len(waiters) : waiters[i] \in Calls
    BY <1>1 DEF IInv, TypeOK
  <2>2. QED
    BY <1>1, <2>1 DEF IInv, QueueOK, NoneForgotten
<1>2. IInv => SemaphoreSound
  BY <1>1 DEF IInv, SemaphoreSound
<1>3. QED
  BY <1>2, Inductive, PTL

\* Open interest is never older than its time to live when it is served from
\* the cache, also after a late answer replaced a newer entry.
THEOREM OpenInterestFresh == Spec => []OiFresh
<1>1. IInv => OiFresh
  BY DEF IInv, CallOK, OiFresh
<1>2. QED
  BY <1>1, Inductive, PTL

\* An estimate is never older than its time to live when the guard serves it,
\* but for the seconds the wall clock was set back.
THEOREM EstimatesFresh == Spec => []EstimateFresh
<1>1. IInv => EstimateFresh
  BY DEF IInv, CallOK, EstimateFresh
<1>2. QED
  BY <1>1, Inductive, PTL

\* Every step that touches a running call, its own or that of the call that
\* hands it a permit, takes it nearer to its end.
THEOREM CallsEnd == Spec => CallsRunDown
<1> DEFINE Down == \A c \in Calls : calls[c].pc # "idle" /\ calls'[c] # calls[c] =>
                       StepsLeft(calls'[c]) \in 0..(StepsLeft(calls[c]) - 1)
<1>1. ASSUME IInv, [Next]_vars PROVE [Down]_vars
  <2>1. TypeOK /\ SlotsOK
    BY <1>1 DEF IInv, TypeOK, SlotsOK
  <2>2. ASSUME NEW c \in Calls, Moves(c) PROVE Down
    BY <2>1, <2>2, MovesDown
  <2>3. ASSUME NEW c \in Calls,
               \/ \E op \in Ops : Begin(c, op)
               \/ \E s \in Symbols : BeginOi(c, s)
               \/ \E p \in Params : BeginCheck(c, p)
               \/ Step(c)
        PROVE  Down
    BY <1>1, <2>2, <2>3, CallStep
  <2>4. CASE Tick \/ SetBack \/ UNCHANGED vars
    BY <2>4 DEF Tick, SetBack, vars
  <2>5. QED
    BY <1>1, <2>3, <2>4 DEF Next
<1>2. QED
  BY <1>1, Inductive, PTL DEF Spec, CallsRunDown

---------------------------------------------------------------------------
(* The refinement *)

LEMMA InitPool == ASSUME Init PROVE P!Init
BY DEF Init, P!Init, Holders, HoldingPcs, Idle

LEMMA NextPool == ASSUME IInv, [Next]_vars PROVE [P!Next]_P!vars
<1>1. TypeOK /\ SlotsOK
  BY DEF IInv, TypeOK, SlotsOK
<1>2. ASSUME NEW c \in Calls,
             \/ \E op \in Ops : Begin(c, op)
             \/ \E s \in Symbols : BeginOi(c, s)
             \/ \E p \in Params : BeginCheck(c, p)
             \/ Step(c)
      PROVE  [P!Next]_P!vars
  BY <1>1, <1>2, CallStep, MovesSlots
<1>3. CASE Tick \/ SetBack \/ UNCHANGED vars
  BY <1>3 DEF Tick, SetBack, vars, P!vars, Holders
<1>4. QED
  BY <1>2, <1>3 DEF Next

\* Any number of calls to Pionex, with all they run into, implements the
\* Pool: a call is served a place in the order it came, and keeps none over
\* a back-off.
THEOREM PoolImplementation == Spec => ImplementsPool
BY InitPool, NextPool, Inductive, PTL DEF Spec, ImplementsPool, P!Spec

===========================================================================
