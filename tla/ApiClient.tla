----------------------------- MODULE ApiClient -----------------------------
(***************************************************************************)
(* The calls of the process to Pionex: the semaphore all adapters share,   *)
(* the retries of tenacity around each adapter method, the one-minute      *)
(* cache of open interest and the two-minute cache of liquidation          *)
(* estimates (StalenessGuardAdapter).                                      *)
(*                                                                         *)
(* A method takes a slot, sends one request, gives the slot back with the  *)
(* answer and, after a 5xx or a 429, backs off without a slot before it    *)
(* starts again from its first line.  Coroutines run atomically between    *)
(* their awaits, so each action takes one call to its next await.          *)
(*                                                                         *)
(* Time is in seconds: now is the monotonic clock; the wall clock is set   *)
(* back by lag seconds in all.                                             *)
(***************************************************************************)
EXTENDS Integers, Sequences, FiniteSets

CONSTANTS
    Calls,      \* slots for concurrently running calls
    Symbols,    \* trading pairs with open interest
    Params,     \* grid parameters to check
    Ops,        \* the methods called
    None,       \* Python's None
    Capacity,   \* permits of _API_SEMAPHORE
    OiTTL,      \* _OI_CACHE_TTL
    GuardTTL,   \* ttl_seconds of the staleness guard
    Horizon,    \* bound: the clock stops here, and so ends every sleep
    MaxLag      \* bound: how far the wall clock is set back in all

VARIABLES
    now,       \* time.monotonic()
    lag,       \* by how much the wall clock has been set back
    free,      \* permits of the semaphore
    waiters,   \* calls waiting for a permit, oldest first
    calls,     \* the running calls
    oiCache,   \* _oi_cache: when stamped, of which symbols, seen when
    estimates  \* _cache of the guard, per parameters

vars == <<now, lag, free, waiters, calls, oiCache, estimates>>

MaxAttempts == 3

\* "order" stands for every signed method whose result is not cached.
OpKinds == {"order", "funding", "oi", "check"}
Pcs == {"idle", "queued", "granted", "sent", "backoff", "served", "failed"}
Times == 0..Horizon

ASSUME ClientOK ==
    /\ Ops \subseteq OpKinds
    /\ Capacity \in Nat \ {0}
    /\ Horizon \in Nat /\ MaxLag \in Nat
    /\ OiTTL \in Nat \ {0} /\ GuardTTL \in Nat \ {0}
    /\ IsFiniteSet(Calls)
    /\ None \notin Symbols \cup Params

Entry == [at : Times, syms : SUBSET Symbols, seen : Times]
Estimate == [at : Int, seen : Times]

ASSUME CachesOK == None \notin Entry \cup Estimate

Call == [op : OpKinds \cup {None}, arg : Symbols \cup Params \cup {None},
         pc : Pcs, tries : 0..(MaxAttempts - 1),
         looked : Times,   \* when the call last looked into its cache
         stamp : Int,      \* wall clock the guard read at its start
         sent : Times, wake : Times,
         seen : Times]     \* when the exchange saw what is returned

Idle == [op |-> None, arg |-> None, pc |-> "idle", tries |-> 0, looked |-> 0,
         stamp |-> 0, sent |-> 0, wake |-> 0, seen |-> 0]

Wall == now - lag

---------------------------------------------------------------------------
(* The semaphore *)

HoldingPcs == {"granted", "sent"}
Holders == {c \in Calls : calls[c].pc \in HoldingPcs}

Become(c, k) == calls' = [calls EXCEPT ![c] = k]

\* What is left of a call that returned a result, or raised.
Served(k, seen) ==
    [Idle EXCEPT !.op = k.op, !.pc = "served", !.looked = k.looked, !.seen = seen]
Failed == [Idle EXCEPT !.pc = "failed"]

\* The request leaves, permit in hand.
Sent(k) == [k EXCEPT !.pc = "sent", !.sent = now]

\* Mutant of Queue: the newest waiter goes first.
QueueFirst(c) == <<c>> \o waiters

Queue(c) == Append(waiters, c)

\* async with _API_SEMAPHORE: at once, or behind those who wait already.
Acquire(c, k) ==
    \/ /\ free > 0 /\ waiters = <<>>
       /\ free' = free - 1
       /\ Become(c, Sent(k))
       /\ UNCHANGED <<now, lag, waiters, oiCache, estimates>>
    \/ /\ free = 0 \/ waiters # <<>>
       /\ waiters' = Queue(c)
       /\ Become(c, [k EXCEPT !.pc = "queued"])
       /\ UNCHANGED <<now, lag, free, oiCache, estimates>>

\* Mutant of Release: the oldest waiter is dropped, but its wake-up is lost.
ReleaseUnheard(c, k) ==
    /\ waiters' = IF waiters = <<>> THEN waiters ELSE Tail(waiters)
    /\ free' = free + 1
    /\ Become(c, k)

\* The block is left, by an answer or an exception, and call c becomes k: the
\* permit goes to the oldest waiter, if there is one.
Release(c, k) ==
    \/ /\ waiters = <<>>
       /\ free' = free + 1
       /\ Become(c, k)
       /\ UNCHANGED waiters
    \/ /\ waiters # <<>>
       /\ waiters' = Tail(waiters)
       /\ calls' = [calls EXCEPT ![c] = k, ![Head(waiters)].pc = "granted"]
       /\ UNCHANGED free

\* The waiter that got the permit is resumed.
Resume(c) ==
    /\ calls[c].pc = "granted"
    /\ Become(c, Sent(calls[c]))
    /\ UNCHANGED <<now, lag, free, waiters, oiCache, estimates>>

---------------------------------------------------------------------------
(* The start of a call, and of each of its attempts *)

Fresh(age, ttl) == age < ttl

\* get_open_interest looks into the cache at the start of every attempt.
OiHit(s) == oiCache # None /\ Fresh(now - oiCache.at, OiTTL) /\ s \in oiCache.syms

AttemptOi(c, k) ==
    \/ /\ OiHit(k.arg)
       /\ Become(c, Served([k EXCEPT !.looked = now], oiCache.seen))
       /\ UNCHANGED <<now, lag, free, waiters, oiCache, estimates>>
    \/ /\ ~OiHit(k.arg)
       /\ Acquire(c, [k EXCEPT !.looked = now])

Attempt(c, k) ==
    \/ k.op = "oi" /\ AttemptOi(c, k)
    \/ k.op # "oi" /\ Acquire(c, k)

Begin(c, op) ==
    /\ calls[c].pc = "idle"
    /\ op \notin {"oi", "check"}
    /\ Attempt(c, [Idle EXCEPT !.op = op])

BeginOi(c, s) ==
    /\ calls[c].pc = "idle"
    /\ Attempt(c, [Idle EXCEPT !.op = "oi", !.arg = s])

\* The guard looks once, before the retries of its delegate, by the wall clock.
GuardHit(p) == estimates[p] # None /\ Fresh(Wall - estimates[p].at, GuardTTL)

BeginCheck(c, p) ==
    LET k == [Idle EXCEPT !.op = "check", !.arg = p, !.looked = now, !.stamp = Wall] IN
    /\ calls[c].pc = "idle"
    /\ \/ /\ GuardHit(p)
          /\ Become(c, Served(k, estimates[p].seen))
          /\ UNCHANGED <<now, lag, free, waiters, oiCache, estimates>>
       \/ ~GuardHit(p) /\ Attempt(c, k)

---------------------------------------------------------------------------
(* The answer *)

\* Between its sending and its answer the exchange looked at its books.
SeenIn(c) == calls[c].sent..now

\* Mutant of GuardStamp: the estimate is stamped when it is stored.
GuardStampStored(c) == Wall

GuardStamp(c) == calls[c].stamp

\* The result is returned; the guard keeps that of a check, stamped with the
\* time of its own start.
Succeed(c) ==
    LET k == calls[c] IN
    /\ k.pc = "sent" /\ k.op # "oi"
    /\ \E seen \in SeenIn(c) :
          /\ estimates' = IF k.op = "check"
                          THEN [estimates EXCEPT ![k.arg] = [at |-> GuardStamp(c), seen |-> seen]]
                          ELSE estimates
          /\ Release(c, Served(k, seen))
    /\ UNCHANGED <<now, lag, oiCache>>

\* Mutant of OiStamp: the entry is stamped when it is stored.
OiStampStored(c) == now

OiStamp(c) == calls[c].looked

\* All symbols of the response replace the cache, whatever newer entry
\* another call stored in the meantime; a missing symbol is an error.
SucceedOi(c) ==
    LET k == calls[c] IN
    /\ k.pc = "sent" /\ k.op = "oi"
    /\ \E seen \in SeenIn(c), syms \in SUBSET Symbols :
          /\ oiCache' = [at |-> OiStamp(c), syms |-> syms, seen |-> seen]
          /\ Release(c, IF k.arg \in syms THEN Served(k, seen) ELSE Failed)
    /\ UNCHANGED <<now, lag, estimates>>

\* tenacity's exponential wait, cut off at the end of the modelled time.
Backoff(tries) == IF tries = 0 THEN 1 ELSE 2
WakeAt(tries) == IF now + Backoff(tries) > Horizon THEN Horizon ELSE now + Backoff(tries)

\* Mutant of Sleeping: the attempt that failed is not counted.
SleepingUncounted(k) == [k EXCEPT !.pc = "backoff", !.wake = WakeAt(0), !.sent = 0]

\* A call that waits for its next attempt.
Sleeping(k) == [k EXCEPT !.pc = "backoff", !.tries = @ + 1, !.wake = WakeAt(k.tries),
                         !.sent = 0]

\* Mutant of RetryLater: the permit is kept over the back-off.
RetryHolding(c) ==
    LET k == calls[c] IN
    /\ k.pc = "sent" /\ k.op # "funding"
    /\ k.tries < MaxAttempts - 1
    /\ Become(c, Sleeping(k))
    /\ UNCHANGED <<now, lag, free, waiters, oiCache, estimates>>

\* Mutant of RetryLater: no stop condition.
RetryUncounted(c) ==
    LET k == calls[c] IN
    /\ k.pc = "sent" /\ k.op # "funding"
    /\ Release(c, Sleeping(k))
    /\ UNCHANGED <<now, lag, oiCache, estimates>>

\* A 5xx or a 429, with an attempt left; get_funding_rates is not retried.
RetryLater(c) ==
    LET k == calls[c] IN
    /\ k.pc = "sent" /\ k.op # "funding"
    /\ k.tries < MaxAttempts - 1
    /\ Release(c, Sleeping(k))
    /\ UNCHANGED <<now, lag, oiCache, estimates>>

\* Any other status, an error body, a malformed or empty answer, a timeout, a
\* lost connection, or the last attempt failed.
Fail(c) ==
    /\ calls[c].pc = "sent"
    /\ Release(c, Failed)
    /\ UNCHANGED <<now, lag, oiCache, estimates>>

Retry(c) ==
    /\ calls[c].pc = "backoff"
    /\ now >= calls[c].wake
    /\ Attempt(c, [calls[c] EXCEPT !.wake = 0])

Return(c) ==
    /\ calls[c].pc \in {"served", "failed"}
    /\ Become(c, Idle)
    /\ UNCHANGED <<now, lag, free, waiters, oiCache, estimates>>

---------------------------------------------------------------------------

Tick ==
    /\ now < Horizon
    /\ now' = now + 1
    /\ UNCHANGED <<lag, free, waiters, calls, oiCache, estimates>>

\* The wall clock is corrected, a second back.
SetBack ==
    /\ lag < MaxLag
    /\ lag' = lag + 1
    /\ UNCHANGED <<now, free, waiters, calls, oiCache, estimates>>

Init ==
    /\ now = 0
    /\ lag = 0
    /\ free = Capacity
    /\ waiters = <<>>
    /\ calls = [c \in Calls |-> Idle]
    /\ oiCache = None
    /\ estimates = [p \in Params |-> None]

Step(c) ==
    \/ Resume(c) \/ Succeed(c) \/ SucceedOi(c) \/ RetryLater(c) \/ Fail(c)
    \/ Retry(c) \/ Return(c)

Next ==
    \/ \E c \in Calls :
          \/ \E op \in Ops : Begin(c, op)
          \/ \E s \in Symbols : BeginOi(c, s)
          \/ \E p \in Params : BeginCheck(c, p)
          \/ Step(c)
    \/ Tick
    \/ SetBack

Spec == Init /\ [][Next]_vars

\* Clocks run, the event loop resumes every ready coroutine, and httpx ends
\* every request with an answer or a timeout.
FairSpec == Spec /\ WF_vars(Tick) /\ \A c \in Calls : WF_vars(Step(c))

---------------------------------------------------------------------------
(* Properties of the code *)

TypeOK ==
    /\ now \in Times
    /\ lag \in 0..MaxLag
    /\ free \in 0..Capacity
    /\ waiters \in Seq(Calls)
    /\ calls \in [Calls -> Call]
    /\ oiCache \in Entry \cup {None}
    /\ estimates \in [Params -> Estimate \cup {None}]

\* Permits are neither lost nor made up, whichever way a request ends: those
\* that are free and those that calls hold always add up to the capacity.
\* None is held over a back-off, and none is free while a call waits.  (A
\* permit handed to a waiter counts as held from then on.  In asyncio a call
\* that arrives before that waiter is resumed queues behind it even if
\* another permit has come free, and gets it when the waiter is resumed, in
\* the next turn of the loop; here it gets it at once.)
SlotsConserved ==
    /\ free + Cardinality(Holders) = Capacity
    /\ waiters # <<>> => free = 0

\* The calls that wait for a permit are those in the queue, each once.
NoneForgotten ==
    /\ {waiters[i] : i \in 1..Len(waiters)} = {c \in Calls : calls[c].pc = "queued"}
    /\ \A i, j \in 1..Len(waiters) : waiters[i] = waiters[j] => i = j

\* No permit and no wake-up is lost, whatever the calls that hold permits run
\* into: a call that waits is in the queue, and gets the next permit in turn.
SemaphoreSound == SlotsConserved /\ NoneForgotten

\* The open interest a caller gets was seen by the exchange less than the
\* time to live before the caller looked into the cache, although concurrent
\* misses all fetch it, and the answer of a slow one replaces a newer entry.
OiFresh ==
    \A c \in Calls :
        calls[c].pc = "served" /\ calls[c].op = "oi" =>
            calls[c].looked - calls[c].seen < OiTTL

\* So was the liquidation estimate a gate gets, over the queue, the retries
\* and the back-offs of the call that fetched it, but for as much as the wall
\* clock was set back: the guard, unlike the cache of open interest, reads
\* the wall clock.
EstimateFresh ==
    \A c \in Calls :
        calls[c].pc = "served" /\ calls[c].op = "check" =>
            calls[c].looked - calls[c].seen < GuardTTL + lag

\* An upper bound on the steps a call still takes: of this attempt, and of
\* the attempts it has left.
StepsLeft(k) ==
    CASE k.pc = "idle" -> 0
      [] k.pc \in {"served", "failed"} -> 1
      [] k.pc = "sent" -> 4 * (MaxAttempts - k.tries)
      [] k.pc = "granted" -> 4 * (MaxAttempts - k.tries) + 1
      [] k.pc = "queued" -> 4 * (MaxAttempts - k.tries) + 2
      [] OTHER -> 4 * (MaxAttempts - k.tries) + 3

\* API_RETRY, the semaphore and both caches: whatever happens to a call takes
\* it nearer to its end, so that it takes fourteen steps at most.  No order
\* of cache misses, queues, errors and back-offs leads back to an await with
\* as many attempts left as before.
CallsRunDown ==
    [][\A c \in Calls : calls[c].pc # "idle" /\ calls'[c] # calls[c] =>
          StepsLeft(calls'[c]) \in 0..(StepsLeft(calls[c]) - 1)]_vars

\* Every call ends, however many others keep coming, fail and back off: the
\* queue is first come, first served, and the attempts are counted.
EveryCallEnds == \A c \in Calls : calls[c].pc # "idle" ~> calls[c].pc = "idle"

===========================================================================
