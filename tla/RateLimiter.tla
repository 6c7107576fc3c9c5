---------------------------- MODULE RateLimiter ----------------------------
(***************************************************************************)
(* RateLimiter.Middleware: one bucket per scope and caller, a count since  *)
(* the beginning of a window.  The time is read before the mutex is taken: *)
(* a request that is delayed there is counted with an old time, after      *)
(* requests that came later.                                               *)
(***************************************************************************)
EXTENDS Integers, Sequences, FiniteSets

CONSTANTS
    Keys,         \* scope and caller: "simulation:owner", "login:10.0.0.7"
    Calls,        \* goroutines: how many requests are in the middleware at once
    Limit,        \* requests per window
    Minute,
    NoBucket,     \* a key the map does not have
    NoCall,       \* a goroutine that is not in the middleware
    MaxDelay,     \* bound: how long a goroutine waits between clock and mutex
    MaxTime,      \* bound: the last instant of the clock
    MaxRequests   \* bound: how many requests of one key are counted

Bucket == [start : Nat, count : Nat]
Call == [key : Keys, stamp : Nat]

ASSUME LimiterAssumption ==
    /\ Limit \in Nat \ {0} /\ Minute \in Nat \ {0}
    /\ MaxDelay \in Nat /\ MaxTime \in Nat /\ MaxRequests \in Nat
    /\ NoBucket \notin Bucket /\ NoCall \notin Call

VARIABLES
    now,      \* time.Now()
    buckets,  \* RateLimiter.buckets
    call,     \* goroutine -> the key and the time it holds before the mutex
    log       \* history: key -> what was counted for it, oldest first

limiterVars == <<now, buckets, call, log>>

\* at: when it was counted.  start: the window it was counted in.
Counted == [at : Nat, start : Nat, admitted : BOOLEAN]

LimiterTypeOK ==
    /\ now \in 0 .. MaxTime
    /\ buckets \in [Keys -> Bucket \union {NoBucket}]
    /\ call \in [Calls -> Call \union {NoCall}]
    /\ log \in [Keys -> Seq(Counted)]

LimiterInit ==
    /\ now = 0
    /\ buckets = [k \in Keys |-> NoBucket]
    /\ call = [c \in Calls |-> NoCall]
    /\ log = [k \in Keys |-> <<>>]

\* now := time.Now(), before the lock.
ReadClock(c, k) ==
    /\ call[c] = NoCall
    /\ Len(log[k]) < MaxRequests
    /\ call' = [call EXCEPT ![c] = [key |-> k, stamp |-> now]]
    /\ UNCHANGED <<now, buckets, log>>

\* Mutant: the count starts again, the window does not.
WindowRecounted(b, stamp) ==
    IF b = NoBucket THEN [start |-> stamp, count |-> 0]
    ELSE IF stamp - b.start >= Minute THEN [b EXCEPT !.count = 0]
    ELSE b

\* The window a request is counted in.
WindowFor(b, stamp) ==
    IF b = NoBucket \/ stamp - b.start >= Minute
    THEN [start |-> stamp, count |-> 0]
    ELSE b

\* Mutant: compared before it is counted.
ExceededUncounted(count) == count - 1 > Limit

Exceeded(count) == count > Limit

\* The critical section, from Lock to Unlock.
Count(c) ==
    /\ call[c] # NoCall
    /\ LET k == call[c].key
           b == [WindowFor(buckets[k], call[c].stamp) EXCEPT !.count = @ + 1]
       IN  /\ buckets' = [buckets EXCEPT ![k] = b]
           /\ log' = [log EXCEPT ![k] = Append(@,
                        [at |-> now, start |-> b.start,
                         admitted |-> ~ Exceeded(b.count)])]
    /\ call' = [call EXCEPT ![c] = NoCall]
    /\ UNCHANGED now

\* Time passes; the bound MaxDelay is on how long a goroutine may be kept
\* from the mutex.
Tick ==
    /\ now < MaxTime
    /\ \A c \in Calls : call[c] # NoCall => now - call[c].stamp < MaxDelay
    /\ now' = now + 1
    /\ UNCHANGED <<buckets, call, log>>

----------------------------------------------------------------------------
(* Properties *)

\* Whatever order goroutines reach the mutex in, the windows of a key begin a
\* minute or more apart and come one after the other, and a request is
\* admitted exactly when fewer than Limit were admitted before it in its
\* window: delayed requests are neither free nor refused for others' sake.
WindowsKept ==
    \A k \in Keys : \A n \in DOMAIN log[k] :
        /\ \A m \in 1 .. n - 1 :
              \/ log[k][m].start = log[k][n].start
              \/ log[k][m].start + Minute <= log[k][n].start
        /\ log[k][n].admitted <=>
              Cardinality({m \in 1 .. n - 1 : log[k][m].admitted /\
                            log[k][m].start = log[k][n].start}) < Limit

RoundedUp(a, b) == (a + b - 1) \div b

\* What the windows mean to the handlers behind: in any minute of the clock
\* fewer requests pass than fit in two windows, and in one more for every
\* minute a goroutine may be kept from the mutex: a stale time opens a window
\* that has partly passed.
BurstBounded ==
    \A k \in Keys : \A n \in DOMAIN log[k] :
        Cardinality({m \in 1 .. n : log[k][m].admitted /\
                        log[k][n].at - log[k][m].at < Minute})
            < (2 + RoundedUp(MaxDelay, Minute)) * Limit
=============================================================================
