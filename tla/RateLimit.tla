----------------------------- MODULE RateLimit -----------------------------
(***************************************************************************)
(* The limiter of the public path, backend/ratelimit.py, and the shared    *)
(* connection it asks for, backend/redis_client.py, as the request threads *)
(* of one backend process run them.                                        *)
(*                                                                         *)
(* allow() takes the minute, asks client() which store to use, and counts  *)
(* the request there: in Redis (INCR, then EXPIRE on the first hit) or in  *)
(* a dict under a lock.  client() has no lock: the thread that finds       *)
(* _resolved false sets it BEFORE it pings, and whoever asks meanwhile is  *)
(* told that there is no Redis.                                            *)
(*                                                                         *)
(* A slot is what both stores count under: an address and a minute.  The   *)
(* histories passed and blocked record a verdict when its count is known;  *)
(* for the first hit that is at INCR, since PerMinute > 0.                 *)
(*                                                                         *)
(* Left out: RATELIMIT_ENABLED off or a limit of 0 (every request passes), *)
(* and a Redis server that loses its data.                                 *)
(***************************************************************************)
EXTENDS Naturals, FiniteSets

CONSTANTS
    Threads,      \* the request threads (gunicorn.conf.py: 1 worker x 8)
    Addresses,    \* what _client_ip returns, or the user id
    PerMinute,    \* RATELIMIT_PER_MINUTE
    RedisUrl,     \* whether REDIS_URL is set and the package is installed
    LastMinute,   \* bound: minutes 0 .. LastMinute are modelled
    MaxAsked,     \* bound: requests of each address per minute
    MaxFaults     \* bound: errors of Redis and restarts of the process

ASSUME RateLimitAssumption ==
    /\ IsFiniteSet(Threads)
    /\ IsFiniteSet(Addresses)
    /\ PerMinute \in Nat \ {0}
    /\ RedisUrl \in BOOLEAN
    /\ LastMinute \in Nat
    /\ MaxAsked \in [Addresses -> Nat]
    /\ MaxFaults \in Nat

VARIABLES
    minute,    \* int(time.time() // 60)
    resolved,  \* redis_client._resolved
    client,    \* redis_client._client: "redis", or "none" for None
    pc,        \* where each thread is in allow()
    slot,      \* the local variables client_ip and window of each thread
    counts,    \* ratelimit._counts; 0 for a slot that is not a key of it
    hits,      \* the counters in Redis; 0 for a key that does not exist
    ttl,       \* the minute in which EXPIRE was run on each key, or NoTtl
    asked,     \* history: the requests that took each slot
    passed,    \* history: those that were let through
    blocked,   \* history: those that were refused
    faults,    \* history: errors of Redis so far
    restarts   \* history: restarts so far

vars == <<minute, resolved, client, pc, slot, counts, hits, ttl, asked, passed,
          blocked, faults, restarts>>

process  == <<resolved, client, counts>>
server   == <<hits, ttl>>
verdicts == <<passed, blocked>>
clock    == <<minute, restarts>>

Minute == 0 .. LastMinute
Slots  == Addresses \X Minute
NoTtl  == LastMinute + 1
NoSlot == <<>>

(* idle: not in allow();         asking: at `if _resolved`;                *)
(* claiming: found it false;     pinging: in from_url and ping;            *)
(* reading: at `return _client`; memory: client() returned None;           *)
(* incr: it returned a client;   expire: the first hit, counted.           *)
Stage == {"idle", "asking", "claiming", "pinging", "reading", "memory",
          "incr", "expire"}

TypeOK ==
    /\ minute \in Minute
    /\ resolved \in BOOLEAN
    /\ client \in {"none", "redis"}
    /\ pc \in [Threads -> Stage]
    /\ slot \in [Threads -> Slots \cup {NoSlot}]
    /\ \A t \in Threads : pc[t] # "idle" => slot[t] \in Slots
    /\ counts \in [Slots -> Nat]
    /\ hits \in [Slots -> Nat]
    /\ ttl \in [Slots -> 0 .. NoTtl]
    /\ asked \in [Slots -> Nat]
    /\ passed \in [Slots -> Nat]
    /\ blocked \in [Slots -> Nat]
    /\ faults \in 0 .. MaxFaults
    /\ restarts \in 0 .. MaxFaults

Init ==
    /\ minute = 0
    /\ resolved = FALSE
    /\ client = "none"
    /\ pc = [t \in Threads |-> "idle"]
    /\ slot = [t \in Threads |-> NoSlot]
    /\ counts = [k \in Slots |-> 0]
    /\ hits = [k \in Slots |-> 0]
    /\ ttl = [k \in Slots |-> NoTtl]
    /\ asked = [k \in Slots |-> 0]
    /\ passed = [k \in Slots |-> 0]
    /\ blocked = [k \in Slots |-> 0]
    /\ faults = 0
    /\ restarts = 0

Goto(t, stage) ==
    /\ pc' = [pc EXCEPT ![t] = stage]
    /\ UNCHANGED slot

Return(t) ==
    /\ pc' = [pc EXCEPT ![t] = "idle"]
    /\ slot' = [slot EXCEPT ![t] = NoSlot]

Pass(k) ==
    /\ passed' = [passed EXCEPT ![k] = @ + 1]
    /\ UNCHANGED blocked

(* `return count <= _PER_MINUTE`                                           *)
Decide(k, count) ==
    IF count <= PerMinute
    THEN Pass(k)
    ELSE /\ blocked' = [blocked EXCEPT ![k] = @ + 1]
         /\ UNCHANGED passed

-----------------------------------------------------------------------------
(* Mutant: the minute is rounded up.                                       *)
AllowRoundsUp(t, a) ==
    /\ pc[t] = "idle"
    /\ asked[<<a, minute>>] < MaxAsked[a]
    /\ slot' = [slot EXCEPT ![t] = <<a, minute + 1>>]
    /\ asked' = [asked EXCEPT ![<<a, minute>>] = @ + 1]
    /\ pc' = [pc EXCEPT ![t] = "asking"]
    /\ UNCHANGED <<process, server, verdicts, clock, faults>>

(* allow(): the window is taken first, before the store is known.          *)
Allow(t, a) ==
    /\ pc[t] = "idle"
    /\ asked[<<a, minute>>] < MaxAsked[a]
    /\ slot' = [slot EXCEPT ![t] = <<a, minute>>]
    /\ asked' = [asked EXCEPT ![<<a, minute>>] = @ + 1]
    /\ pc' = [pc EXCEPT ![t] = "asking"]
    /\ UNCHANGED <<process, server, verdicts, clock, faults>>

(* client(): `if _resolved`.                                               *)
IsResolved(t) ==
    /\ pc[t] = "asking"
    /\ Goto(t, IF resolved THEN "reading" ELSE "claiming")
    /\ UNCHANGED <<asked, process, server, verdicts, clock, faults>>

(* _resolved is set, whatever comes of it; without a URL that is all.      *)
Claim(t) ==
    /\ pc[t] = "claiming"
    /\ resolved' = TRUE
    /\ Goto(t, IF RedisUrl THEN "pinging" ELSE "memory")
    /\ UNCHANGED <<client, counts, asked, server, verdicts, clock, faults>>

PingAnswers(t) ==
    /\ pc[t] = "pinging"
    /\ client' = "redis"
    /\ Goto(t, "reading")
    /\ UNCHANGED <<resolved, counts, asked, server, verdicts, clock, faults>>

(* Unreachable: _client is set to None, also when another thread that      *)
(* found _resolved false had already set it to a live client.              *)
PingFails(t) ==
    /\ pc[t] = "pinging"
    /\ faults + restarts < MaxFaults
    /\ faults' = faults + 1
    /\ client' = "none"
    /\ Goto(t, "reading")
    /\ UNCHANGED <<resolved, counts, asked, server, verdicts, clock>>

(* `return _client`, of the first caller and of the later ones.            *)
ReadClient(t) ==
    /\ pc[t] = "reading"
    /\ Goto(t, IF client = "redis" THEN "incr" ELSE "memory")
    /\ UNCHANGED <<asked, process, server, verdicts, clock, faults>>

-----------------------------------------------------------------------------
(* Mutant: the TTL is set once the limit is exceeded.                      *)
IncrExpiresLate(t) ==
    LET k == slot[t]
    IN  /\ pc[t] = "incr"
        /\ hits' = [hits EXCEPT ![k] = @ + 1]
        /\ IF hits[k] = PerMinute THEN Goto(t, "expire") ELSE Return(t)
        /\ Decide(k, hits[k] + 1)
        /\ UNCHANGED <<ttl, asked, process, clock, faults>>

(* _redis_allow: INCR is atomic; the first hit still has to set the TTL.   *)
Incr(t) ==
    LET k == slot[t]
    IN  /\ pc[t] = "incr"
        /\ hits' = [hits EXCEPT ![k] = @ + 1]
        /\ IF hits[k] = 0 THEN Goto(t, "expire") ELSE Return(t)
        /\ Decide(k, hits[k] + 1)
        /\ UNCHANGED <<ttl, asked, process, clock, faults>>

(* INCR raises, applied by the server or not: allow() fails open.          *)
IncrFails(t) ==
    LET k == slot[t]
    IN  /\ pc[t] = "incr"
        /\ faults + restarts < MaxFaults
        /\ faults' = faults + 1
        /\ \E applied \in {0, 1} : hits' = [hits EXCEPT ![k] = @ + applied]
        /\ Pass(k)
        /\ Return(t)
        /\ UNCHANGED <<ttl, asked, process, clock>>

Expire(t) ==
    /\ pc[t] = "expire"
    /\ ttl' = [ttl EXCEPT ![slot[t]] = minute]
    /\ Return(t)
    /\ UNCHANGED <<hits, asked, process, verdicts, clock, faults>>

(* EXPIRE raises: the request passes all the same.                         *)
ExpireFails(t) ==
    /\ pc[t] = "expire"
    /\ faults + restarts < MaxFaults
    /\ faults' = faults + 1
    /\ Return(t)
    /\ UNCHANGED <<asked, process, server, verdicts, clock>>

(* Mutants: the prune takes the current window along; there is no prune;   *)
(* the limit is off by one.                                                *)
MemAllowPrunesOwn(t) ==
    LET k == slot[t]
        kept == [s \in Slots |-> IF s[2] <= k[2] THEN 0 ELSE counts[s]]
    IN  /\ pc[t] = "memory"
        /\ counts' = [kept EXCEPT ![k] = @ + 1]
        /\ Decide(k, kept[k] + 1)
        /\ Return(t)
        /\ UNCHANGED <<resolved, client, asked, server, clock, faults>>

MemAllowUnpruned(t) ==
    LET k == slot[t]
    IN  /\ pc[t] = "memory"
        /\ counts' = [counts EXCEPT ![k] = @ + 1]
        /\ Decide(k, counts[k] + 1)
        /\ Return(t)
        /\ UNCHANGED <<resolved, client, asked, server, clock, faults>>

MemAllowOffByOne(t) ==
    LET k == slot[t]
        kept == [s \in Slots |-> IF s[2] < k[2] THEN 0 ELSE counts[s]]
    IN  /\ pc[t] = "memory"
        /\ counts' = [kept EXCEPT ![k] = @ + 1]
        /\ Decide(k, kept[k] + 2)
        /\ Return(t)
        /\ UNCHANGED <<resolved, client, asked, server, clock, faults>>

(* _mem_allow, under _lock: prune the windows before this one, count, and  *)
(* compare.  A thread that is late finds its own window pruned.            *)
MemAllow(t) ==
    LET k == slot[t]
        kept == [s \in Slots |-> IF s[2] < k[2] THEN 0 ELSE counts[s]]
    IN  /\ pc[t] = "memory"
        /\ counts' = [kept EXCEPT ![k] = @ + 1]
        /\ Decide(k, kept[k] + 1)
        /\ Return(t)
        /\ UNCHANGED <<resolved, client, asked, server, clock, faults>>

-----------------------------------------------------------------------------
NextMinute ==
    /\ minute < LastMinute
    /\ minute' = minute + 1
    /\ UNCHANGED <<pc, slot, asked, process, server, verdicts, faults, restarts>>

(* Redis drops a key 60 s after EXPIRE: not in the same minute.            *)
KeyExpires(k) ==
    /\ hits[k] > 0
    /\ ttl[k] < minute
    /\ hits' = [hits EXCEPT ![k] = 0]
    /\ ttl' = [ttl EXCEPT ![k] = NoTtl]
    /\ UNCHANGED <<pc, slot, asked, process, verdicts, clock, faults>>

(* The process dies and comes back; Redis stays.                           *)
Restart ==
    /\ faults + restarts < MaxFaults
    /\ restarts' = restarts + 1
    /\ resolved' = FALSE
    /\ client' = "none"
    /\ counts' = [k \in Slots |-> 0]
    /\ pc' = [t \in Threads |-> "idle"]
    /\ slot' = [t \in Threads |-> NoSlot]
    /\ UNCHANGED <<minute, asked, server, verdicts, faults>>

Resolve(t) ==
    IsResolved(t) \/ Claim(t) \/ PingAnswers(t) \/ PingFails(t) \/ ReadClient(t)

Count(t) ==
    Incr(t) \/ IncrFails(t) \/ Expire(t) \/ ExpireFails(t) \/ MemAllow(t)

Next ==
    \/ \E t \in Threads : \/ \E a \in Addresses : Allow(t, a)
                          \/ Resolve(t)
                          \/ Count(t)
    \/ \E k \in Slots : KeyExpires(k)
    \/ NextMinute
    \/ Restart

Spec == Init /\ [][Next]_vars

-----------------------------------------------------------------------------
(* The stores that one process may count in, and what they let through.    *)
Stores    == IF RedisUrl THEN 2 ELSE 1
Allowance == PerMinute * (Stores + restarts)

(* What one address gets through in one minute (ratelimit.py:3): the limit *)
(* once per store and once more for each restart, which empties the dict;  *)
(* one more for each error of Redis; and, once the minute is over and its  *)
(* counters may be gone, one for each thread that still held the window.   *)
WindowBound ==
    \A k \in Slots :
        passed[k] <= Allowance + faults
                       + (IF k[2] < minute THEN Cardinality(Threads) ELSE 0)

(* "It only ever blocks on a confirmed over-limit count"                   *)
(* (ratelimit.py:10): an address loses no request of a minute in which it  *)
(* did not ask for more than the limit, and never more than the excess,    *)
(* whatever other addresses, other minutes and the stores do.              *)
BlocksOnlyExcess ==
    \A k \in Slots : blocked[k] > 0 => asked[k] >= PerMinute + blocked[k]

(* "so the dict can't grow unbounded across minutes" (ratelimit.py:57):    *)
(* the keys older than the newest are those of the other threads, which    *)
(* came late, at most one each.                                            *)
Kept  == {k \in Slots : counts[k] > 0}
Stale == {k \in Kept : \E n \in Kept : k[2] < n[2]}

StaleBound == Cardinality(Stale) < Cardinality(Threads) \/ Stale = {}

(* "set the TTL so keys self-clean" (ratelimit.py:51): a key that nobody   *)
(* is about to give a TTL has one, but for errors of Redis and for the     *)
(* threads that a restart killed between INCR and EXPIRE.                  *)
Immortal ==
    {k \in Slots : /\ hits[k] > 0 /\ ttl[k] = NoTtl
                   /\ \A t \in Threads : ~ (pc[t] = "expire" /\ slot[t] = k)}

ImmortalBound ==
    Cardinality(Immortal) <= faults + restarts * Cardinality(Threads)

-----------------------------------------------------------------------------
(* The strengthening that makes these bounds inductive.                    *)

(* The requests of a slot that no store has counted yet.                   *)
Uncounted == {t \in Threads : pc[t] \notin {"idle", "expire"}}
Pending(k) == {t \in Uncounted : slot[t] = k}

(* The requests that a store which has counted n of them still lets pass.  *)
Spare(n) == IF n < PerMinute THEN PerMinute - n ELSE 0
Room(k)  == Spare(counts[k]) + (IF RedisUrl THEN Spare(hits[k]) ELSE 0)

(* No thread holds a window of the future, no store counts in one, and no  *)
(* key of Redis is due to expire within its minute.                        *)
OnTime ==
    /\ \A t \in Threads : pc[t] # "idle" => slot[t][2] <= minute
    /\ \A k \in Slots : counts[k] > 0 => k[2] <= minute
    /\ \A k \in Slots : k[2] <= ttl[k]

Unreached ==
    ~ RedisUrl => /\ client = "none"
                  /\ \A t \in Threads : pc[t] \notin {"pinging", "incr", "expire"}

(* What has passed, with what may still pass.                              *)
PassAccount(k) ==
    IF k[2] < minute
    THEN passed[k] + Cardinality(Pending(k))
            <= Allowance + faults + Cardinality(Threads)
    ELSE passed[k] + Room(k) <= Allowance + faults

(* What was refused, with what each store let pass first.                  *)
BlockAccount(k) ==
    /\ blocked[k] + Cardinality(Pending(k)) + 2 * PerMinute
          <= asked[k] + Spare(counts[k]) + Spare(hits[k])
    /\ blocked[k] > 0 =>
          blocked[k] + Cardinality(Pending(k)) + PerMinute <= asked[k]

(* The threads whose window the dict has left behind.                      *)
Overtaken == {t \in Uncounted : \E n \in Kept : slot[t][2] < n[2]}

StaleAccount ==
    Kept # {} =>
        Cardinality(Stale) + Cardinality(Overtaken) < Cardinality(Threads)

LimitInv ==
    /\ TypeOK
    /\ OnTime
    /\ Unreached
    /\ \A k \in Slots : PassAccount(k) /\ BlockAccount(k)
    /\ StaleAccount
    /\ ImmortalBound

-----------------------------------------------------------------------------
(* "at most RATELIMIT_PER_MINUTE requests per client IP per calendar       *)
(* minute" (ratelimit.py:3), without errors and restarts.  It does not     *)
(* hold: see RateLimitSplit.cfg.                                           *)
PerMinuteLimit == \A k \in Slots : passed[k] <= PerMinute
=============================================================================
