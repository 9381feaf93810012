------------------------------ MODULE RateLimit -----------------------------
(***************************************************************************)
(* RateLimitGuard (rate-limit.guard.ts) and RedisRateLimitStore            *)
(* (redis-rate-limit.store.ts): how many requests of one client pass to an *)
(* endpoint in a window of time.                                           *)
(*                                                                         *)
(* The counter of a key is in Redis, where INCR, PEXPIRE and PTTL are      *)
(* three calls; when Redis does not answer the request is refused where    *)
(* Redis is required, and elsewhere counted in the memory of its process.  *)
(* Time passes in ticks; what expires is kept as the ticks it has left.    *)
(***************************************************************************)
EXTENDS Integers, FiniteSets

CONSTANTS
    Endpoint,   \* handlers with a RateLimit
    ScopeOf,    \* options.scope of each endpoint
    Limit,      \* options.limit of each endpoint
    Window,     \* options.windowMs, in ticks
    Process,    \* instances of the backend
    Request,    \* requests of one client about one subject
    Never       \* a counter without expiry

ASSUME LimiterAssumption ==
    /\ Limit \in [Endpoint -> Nat]
    /\ Window \in Nat \ {0}
    /\ Never \notin Nat
    /\ IsFiniteSet(Request)

VARIABLES
    required,   \* production, or RATE_LIMIT_REDIS_REQUIRED
    reachable,  \* whether Redis answers
    counter,    \* of each key in Redis: count and ticks left
    bucket,     \* memoryBuckets of each process
    hit,        \* what each request has done in the guard
    passed,     \* history: of each endpoint, where Redis is required, requests let
                \* pass: the ticks since each was counted, numbered for each age
    abandoned   \* history: a counter was left between INCR and PEXPIRE

limiterVars == <<required, reachable, counter, bucket, hit, passed, abandoned>>

-----------------------------------------------------------------------------
\* buildKey: endpoints of one scope share the counter of a client; other
\* clients, and other subjects of theirs, have other keys.
BuildKey(e) == ScopeOf[e]

CounterKey == {BuildKey(e) : e \in Endpoint}

Gone == [count |-> 0, left |-> Never]
NoHit == [pc |-> "idle"]

LimiterInit ==
    /\ required \in BOOLEAN
    /\ reachable = TRUE
    /\ counter = [k \in CounterKey |-> Gone]
    /\ bucket = [p \in Process |-> [k \in CounterKey |-> Gone]]
    /\ hit = [r \in Request |-> NoHit]
    /\ passed = [e \in Endpoint |-> {}]
    /\ abandoned = FALSE

\* Counts beyond all limits are not told apart.
Counted(count) == IF \A e \in Endpoint : count > Limit[e] THEN count ELSE count + 1

\* canActivate begins.
Arrive(r, e, p) ==
    /\ hit[r] = NoHit
    /\ hit' = [hit EXCEPT ![r] = [pc |-> "incr", endpoint |-> e, process |-> p]]
    /\ UNCHANGED <<required, reachable, counter, bucket, passed, abandoned>>

\* Mutant: a refused request starts the counter over.
IncrFromZero(r) ==
    /\ hit[r].pc = "incr"
    /\ reachable
    /\ LET k == BuildKey(hit[r].endpoint)
           count == Counted(counter[k].count)
       IN  /\ counter' = [counter EXCEPT ![k].count = IF count > Limit[hit[r].endpoint] THEN 0 ELSE count]
           /\ hit' = [hit EXCEPT ![r] = [pc |-> IF count = 1 THEN "expire" ELSE "ttl",
                                         endpoint |-> @.endpoint, process |-> @.process, count |-> count, age |-> 0]]
    /\ UNCHANGED <<required, reachable, bucket, passed, abandoned>>

Incr(r) ==
    /\ hit[r].pc = "incr"
    /\ reachable
    /\ LET k == BuildKey(hit[r].endpoint)
           count == Counted(counter[k].count)
       IN  /\ counter' = [counter EXCEPT ![k].count = count]
           /\ hit' = [hit EXCEPT ![r] = [pc |-> IF count = 1 THEN "expire" ELSE "ttl",
                                         endpoint |-> @.endpoint, process |-> @.process, count |-> count, age |-> 0]]
    /\ UNCHANGED <<required, reachable, bucket, passed, abandoned>>

\* Mutant: only a counter that no other request has used expires.
SetExpiryIfAlone(r) ==
    /\ hit[r].pc = "expire"
    /\ reachable
    /\ LET k == BuildKey(hit[r].endpoint)
       IN  counter' = IF counter[k].count # 1 THEN counter ELSE [counter EXCEPT ![k].left = Window]
    /\ hit' = [hit EXCEPT ![r].pc = "ttl"]
    /\ UNCHANGED <<required, reachable, bucket, passed, abandoned>>

SetExpiry(r) ==
    /\ hit[r].pc = "expire"
    /\ reachable
    /\ LET k == BuildKey(hit[r].endpoint)
       IN  counter' = IF counter[k] = Gone THEN counter ELSE [counter EXCEPT ![k].left = Window]
    /\ hit' = [hit EXCEPT ![r].pc = "ttl"]
    /\ UNCHANGED <<required, reachable, bucket, passed, abandoned>>

\* One more request of its age.
OneMore(s, age) == s \cup {<<age, Cardinality({x \in s : x[1] = age}) + 1>>}

\* A request that is refused leaves an audit event, whatever becomes of it.
Answer(r, e, count, age) ==
    /\ passed' = IF ~required \/ count > Limit[e] \/ age >= Window THEN passed
                 ELSE [passed EXCEPT ![e] = OneMore(@, age)]
    /\ hit' = [hit EXCEPT ![r] = NoHit]

\* PTTL, and the decision.
Decide(r) ==
    /\ hit[r].pc = "ttl"
    /\ reachable
    /\ Answer(r, hit[r].endpoint, hit[r].count, hit[r].age)
    /\ UNCHANGED <<required, reachable, counter, bucket, abandoned>>

LeftUnset(r) == hit[r].pc = "expire" /\ counter[BuildKey(hit[r].endpoint)].left = Never

\* A call to Redis fails, and the store throws: 503.
Unavailable(r) ==
    /\ hit[r] # NoHit
    /\ ~reachable
    /\ required
    /\ hit' = [hit EXCEPT ![r] = NoHit]
    /\ abandoned' = (abandoned \/ LeftUnset(r))
    /\ UNCHANGED <<required, reachable, counter, bucket, passed>>

\* A call to Redis fails, and the request is counted in memory.
IncrementMemory(r) ==
    /\ hit[r] # NoHit
    /\ ~reachable
    /\ ~required
    /\ LET k == BuildKey(hit[r].endpoint)
           p == hit[r].process
           count == Counted(bucket[p][k].count)
       IN  /\ bucket' = [bucket EXCEPT ![p][k] =
                           [count |-> count, left |-> IF count = 1 THEN Window ELSE @.left]]
           /\ Answer(r, hit[r].endpoint, count, 0)
    /\ abandoned' = (abandoned \/ LeftUnset(r))
    /\ UNCHANGED <<required, reachable, counter>>

\* A process dies, with its memory and its requests.
Die(p) ==
    /\ LET dead == {r \in Request : hit[r] # NoHit /\ hit[r].process = p}
       IN  /\ hit' = [r \in Request |-> IF r \in dead THEN NoHit ELSE hit[r]]
           /\ abandoned' = (abandoned \/ \E r \in dead : LeftUnset(r))
    /\ bucket' = [bucket EXCEPT ![p] = [k \in CounterKey |-> Gone]]
    /\ UNCHANGED <<required, reachable, counter, passed>>

Connection ==
    /\ reachable' = ~reachable
    /\ UNCHANGED <<required, counter, bucket, hit, passed, abandoned>>

Older(c) == IF c.left = Never THEN c ELSE IF c.left = 1 THEN Gone ELSE [c EXCEPT !.left = @ - 1]

\* The history goes back one window.
Aged(s) == {<<x[1] + 1, x[2]>> : x \in {y \in s : y[1] + 1 < Window}}

Tick ==
    /\ counter' = [k \in CounterKey |-> Older(counter[k])]
    /\ bucket' = [p \in Process |-> [k \in CounterKey |-> Older(bucket[p][k])]]
    /\ hit' = [r \in Request |-> IF hit[r].pc \notin {"expire", "ttl"} THEN hit[r]
                                 ELSE [hit[r] EXCEPT !.age = IF @ < Window THEN @ + 1 ELSE @]]
    /\ passed' = [e \in Endpoint |-> Aged(passed[e])]
    /\ UNCHANGED <<required, reachable, abandoned>>

Guard(r) ==
    Incr(r) \/ SetExpiry(r) \/ Decide(r) \/ Unavailable(r) \/ IncrementMemory(r)

LimiterNext ==
    \/ \E r \in Request : Guard(r) \/ \E e \in Endpoint, p \in Process : Arrive(r, e, p)
    \/ \E p \in Process : Die(p)
    \/ Connection
    \/ Tick

LimiterSpec == LimiterInit /\ [][LimiterNext]_limiterVars

\* Time passes, and a call to Redis that is awaited ends or fails.
LimiterFairness == WF_limiterVars(Tick) /\ \A r \in Request : SF_limiterVars(Guard(r))

-----------------------------------------------------------------------------
(***************************************************************************)
(* Where Redis is required, no more requests pass to an endpoint, among    *)
(* those counted in any window of time, than two windows allow, however    *)
(* slowly each goes through the guard, whichever process dies and whatever *)
(* other endpoints count on the same key.                                  *)
(***************************************************************************)
BoundedPerWindow == required => \A e \in Endpoint : Cardinality(passed[e]) <= 2 * Limit[e]

(***************************************************************************)
(* The guard refuses with "Intenta nuevamente en unos minutos": every      *)
(* endpoint lets its client pass again and again, unless a request was cut *)
(* off between INCR and PEXPIRE, which blocks its key for ever.            *)
(***************************************************************************)
Blocked(e) == counter[BuildKey(e)].count > Limit[e]

Unblocks == <>abandoned \/ \A e \in Endpoint : []<>~Blocked(e)
=============================================================================
