-------------------------- MODULE RateLimitProofs --------------------------
(***************************************************************************)
(* What RateLimit claims, for every number of threads and addresses, every *)
(* limit and every bound: what an address gets through in a minute, that   *)
(* only the excess is refused, and what the two stores keep.               *)
(***************************************************************************)
EXTENDS RateLimit, FiniteSetTheorems, TLAPS

(* The part of TypeOK that is about the threads.                           *)
ThreadTypes ==
    /\ pc \in [Threads -> Stage]
    /\ slot \in [Threads -> Slots \cup {NoSlot}]
    /\ \A t \in Threads : pc[t] # "idle" => slot[t] \in Slots

(* One more in a counter, one thread further on, and a verdict.            *)
LEMMA Bumped ==
    ASSUME NEW f \in [Slots -> Nat], NEW k \in Slots, NEW n \in Nat
    PROVE  [f EXCEPT ![k] = @ + n] \in [Slots -> Nat]
OBVIOUS

LEMMA GotoTypes ==
    ASSUME TypeOK, NEW t \in Threads, NEW s \in Stage, pc[t] # "idle", Goto(t, s)
    PROVE  ThreadTypes'
BY DEF TypeOK, Goto, ThreadTypes

LEMMA ReturnTypes ==
    ASSUME TypeOK, NEW t \in Threads, Return(t)
    PROVE  ThreadTypes'
BY DEF TypeOK, Return, Stage, ThreadTypes

LEMMA DecideTypes ==
    ASSUME TypeOK, NEW k, NEW n, Decide(k, n) \/ Pass(k)
    PROVE  passed' \in [Slots -> Nat] /\ blocked' \in [Slots -> Nat]
BY DEF TypeOK, Decide, Pass

(* The type invariant of RateLimit holds at the start.                     *)
LEMMA InitTypeOK == Init => TypeOK
<1> SUFFICES ASSUME Init PROVE TypeOK
  OBVIOUS
<1>1. 0 \in Minute /\ NoTtl \in 0 .. NoTtl /\ "idle" \in Stage /\ 0 \in 0 .. MaxFaults
  BY RateLimitAssumption DEF Minute, NoTtl, Stage
<1>2. QED
  BY <1>1 DEF Init, TypeOK

(* The type invariant of RateLimit holds in every state.                   *)
LEMMA NextTypeOK == TypeOK /\ [Next]_vars => TypeOK'
<1> SUFFICES ASSUME TypeOK, [Next]_vars PROVE TypeOK'
  OBVIOUS
<1> USE RateLimitAssumption
    DEF TypeOK, ThreadTypes, Stage, process, server, verdicts, clock
<1>1. ASSUME NEW t \in Threads, NEW a \in Addresses, Allow(t, a) PROVE TypeOK'
  <2>1. <<a, minute>> \in Slots
    BY DEF Slots
  <2>2. QED
    BY <1>1, <2>1 DEF Allow
<1>2. ASSUME NEW t \in Threads, Resolve(t) PROVE TypeOK'
  <2>1. CASE IsResolved(t)
    BY <2>1 DEF IsResolved, Goto
  <2>2. CASE Claim(t)
    BY <2>2 DEF Claim, Goto
  <2>3. CASE PingAnswers(t)
    BY <2>3 DEF PingAnswers, Goto
  <2>4. CASE PingFails(t)
    BY <2>4 DEF PingFails, Goto
  <2>5. CASE ReadClient(t)
    BY <2>5 DEF ReadClient, Goto
  <2>6. QED
    BY <1>2, <2>1, <2>2, <2>3, <2>4, <2>5 DEF Resolve
<1>3. ASSUME NEW t \in Threads, Count(t) PROVE TypeOK'
  <2>1. CASE Incr(t)
    <3>1. hits' \in [Slots -> Nat]
      <4>1. slot[t] \in Slots /\ 1 \in Nat
        BY <2>1 DEF Incr
      <4>2. hits' = [hits EXCEPT ![slot[t]] = @ + 1]
        BY <2>1 DEF Incr
      <4>3. QED
        BY <4>1, <4>2, Bumped
    <3>2. ThreadTypes'
      BY <2>1, GotoTypes, ReturnTypes DEF Incr
    <3>3. passed' \in [Slots -> Nat] /\ blocked' \in [Slots -> Nat]
      BY <2>1, DecideTypes DEF Incr
    <3>4. QED
      BY <2>1, <3>1, <3>2, <3>3 DEF Incr
  <2>2. CASE IncrFails(t)
    <3>1. hits' \in [Slots -> Nat]
      <4>1. PICK applied \in {0, 1} :
                hits' = [hits EXCEPT ![slot[t]] = @ + applied]
        BY <2>2 DEF IncrFails
      <4>2. slot[t] \in Slots /\ applied \in Nat
        BY <2>2 DEF IncrFails
      <4>3. QED
        BY <4>1, <4>2, Bumped
    <3>2. ThreadTypes'
      BY <2>2, ReturnTypes DEF IncrFails
    <3>3. passed' \in [Slots -> Nat] /\ blocked' \in [Slots -> Nat]
      BY <2>2, DecideTypes DEF IncrFails
    <3>4. QED
      BY <2>2, <3>1, <3>2, <3>3 DEF IncrFails
  <2>3. CASE Expire(t)
    <3>1. ThreadTypes'
      BY <2>3, ReturnTypes DEF Expire
    <3>2. minute \in 0 .. NoTtl
      BY DEF Minute, NoTtl
    <3>3. ttl' \in [Slots -> 0 .. NoTtl]
      BY <2>3, <3>2 DEF Expire
    <3>4. QED
      BY <2>3, <3>1, <3>3 DEF Expire
  <2>4. CASE ExpireFails(t)
    <3>1. ThreadTypes'
      BY <2>4, ReturnTypes DEF ExpireFails
    <3>2. QED
      BY <2>4, <3>1 DEF ExpireFails
  <2>5. CASE MemAllow(t)
    <3>1. ThreadTypes'
      BY <2>5, ReturnTypes DEF MemAllow
    <3>2. passed' \in [Slots -> Nat] /\ blocked' \in [Slots -> Nat]
      BY <2>5, DecideTypes DEF MemAllow
    <3> DEFINE kept == [s \in Slots |-> IF s[2] < slot[t][2] THEN 0 ELSE counts[s]]
    <3>3. kept \in [Slots -> Nat]
      OBVIOUS
    <3>4. counts' = [kept EXCEPT ![slot[t]] = @ + 1]
      BY <2>5 DEF MemAllow
    <3>5. counts' \in [Slots -> Nat]
      <4>1. slot[t] \in Slots /\ 1 \in Nat
        BY <2>5 DEF MemAllow
      <4> HIDE DEF kept
      <4> QED
        BY <3>3, <3>4, <4>1, Bumped
    <3>6. QED
      BY <2>5, <3>1, <3>2, <3>5 DEF MemAllow
  <2>6. QED
    BY <1>3, <2>1, <2>2, <2>3, <2>4, <2>5 DEF Count
<1>4. ASSUME NEW k \in Slots, KeyExpires(k) PROVE TypeOK'
  BY <1>4 DEF KeyExpires, NoTtl
<1>5. CASE NextMinute
  <2>1. minute' \in Minute
    BY <1>5 DEF NextMinute, Minute
  <2>2. QED
    BY <1>5, <2>1 DEF NextMinute
<1>6. CASE Restart
  <2>1. restarts' \in 0 .. MaxFaults
    BY <1>6 DEF Restart
  <2>2. counts' \in [Slots -> Nat] /\ ThreadTypes'
    BY <1>6 DEF Restart
  <2>3. QED
    BY <1>6, <2>1, <2>2 DEF Restart
<1>7. CASE UNCHANGED vars
  BY <1>7 DEF vars
<1>8. QED
  BY <1>1, <1>2, <1>3, <1>4, <1>5, <1>6, <1>7 DEF Next

-----------------------------------------------------------------------------
(* What one store still lets through, and what all of them let through.    *)
LEMMA SpareRange ==
    ASSUME NEW n \in Nat
    PROVE  Spare(n) \in Nat /\ Spare(n) <= PerMinute /\ Spare(0) = PerMinute
BY RateLimitAssumption DEF Spare

LEMMA SpareStep ==
    ASSUME NEW n \in Nat
    PROVE  /\ n + 1 <= PerMinute => Spare(n) = Spare(n + 1) + 1
           /\ ~ (n + 1 <= PerMinute) => Spare(n) = 0 /\ Spare(n + 1) = 0
BY RateLimitAssumption DEF Spare

LEMMA AllowanceStep ==
    ASSUME TypeOK
    PROVE  /\ Allowance \in Nat
           /\ RedisUrl => PerMinute + PerMinute <= Allowance
           /\ PerMinute <= Allowance
           /\ restarts' = restarts => Allowance' = Allowance
           /\ restarts' = restarts + 1 => Allowance' = Allowance + PerMinute
<1>1. restarts \in Nat /\ PerMinute \in Nat /\ Stores \in {1, 2}
  BY RateLimitAssumption DEF TypeOK, Stores
<1>2. Allowance = PerMinute * Stores + PerMinute * restarts
  BY <1>1 DEF Allowance
<1>3. PerMinute * restarts \in Nat
  BY <1>1
<1>4. PerMinute * Stores = (IF RedisUrl THEN PerMinute + PerMinute ELSE PerMinute)
  BY <1>1, RateLimitAssumption DEF Stores
<1>5. restarts' = restarts => Allowance' = Allowance
  BY DEF Allowance, Stores
<1>6. restarts' = restarts + 1 => Allowance' = Allowance + PerMinute
  <2>1. ASSUME restarts' = restarts + 1 PROVE Allowance' = PerMinute * (Stores + (restarts + 1))
    BY <2>1 DEF Allowance, Stores
  <2>2. PerMinute * (Stores + (restarts + 1)) = PerMinute * (Stores + restarts) + PerMinute
    BY <1>1
  <2>3. QED
    BY <2>1, <2>2 DEF Allowance
<1>7. QED
  BY <1>1, <1>2, <1>3, <1>4, <1>5, <1>6

LEMMA ThreadCount == Cardinality(Threads) \in Nat
BY RateLimitAssumption, FS_CardinalityType

LEMMA PendingCount ==
    ASSUME NEW k
    PROVE  /\ IsFiniteSet(Pending(k))
           /\ Cardinality(Pending(k)) \in Nat
           /\ Cardinality(Pending(k)) <= Cardinality(Threads)
<1>1. Pending(k) \in SUBSET Threads
  BY DEF Pending, Uncounted
<1>2. QED
  BY <1>1, RateLimitAssumption, FS_Subset, FS_CardinalityType

(* While a thread finds its store, its request stays uncounted.            *)
LEMMA ResolveKeepsPending ==
    ASSUME TypeOK, NEW t \in Threads, Resolve(t)
    PROVE  Uncounted' = Uncounted /\ slot' = slot
BY DEF TypeOK, Stage, Resolve, IsResolved, Claim, PingAnswers, PingFails, ReadClient, Goto,
   Uncounted

(* A thread that counts its request is done with it.                       *)
LEMMA CountingSettles ==
    ASSUME TypeOK, NEW t \in Threads, Incr(t) \/ IncrFails(t) \/ MemAllow(t)
    PROVE  /\ t \in Uncounted
           /\ slot[t] \in Slots
           /\ Uncounted' = Uncounted \ {t}
           /\ \A u \in Threads \ {t} : slot'[u] = slot[u] /\ pc'[u] = pc[u]
BY DEF TypeOK, Incr, IncrFails, MemAllow, Goto, Return, Uncounted

LEMMA SettledPending ==
    ASSUME TypeOK, NEW t \in Threads, Incr(t) \/ IncrFails(t) \/ MemAllow(t), NEW k
    PROVE  /\ slot[t] = k => Cardinality(Pending(k)) = Cardinality(Pending(k)') + 1
           /\ slot[t] # k => Cardinality(Pending(k)) = Cardinality(Pending(k)')
<1>1. Pending(k)' = Pending(k) \ {t}
  BY CountingSettles DEF Pending, Uncounted
<1>2. ASSUME slot[t] = k
      PROVE  Cardinality(Pending(k)) = Cardinality(Pending(k)') + 1
  <2>1. t \in Pending(k)
    BY <1>2, CountingSettles DEF Pending
  <2>2. Cardinality(Pending(k)') = Cardinality(Pending(k)) - 1
    BY <1>1, <2>1, PendingCount, FS_RemoveElement
  <2>3. QED
    BY <2>2, PendingCount
<1>3. ASSUME slot[t] # k PROVE Pending(k)' = Pending(k)
  BY <1>1, <1>3 DEF Pending
<1>4. QED
  BY <1>2, <1>3

-----------------------------------------------------------------------------
(* Windows are never in the future, and a process without a URL never      *)
(* meets Redis.                                                            *)
LEMMA StepOnTime == TypeOK /\ TypeOK' /\ OnTime /\ [Next]_vars => OnTime'
<1> SUFFICES ASSUME TypeOK, TypeOK', OnTime, [Next]_vars PROVE OnTime'
  OBVIOUS
<1> USE DEF TypeOK, OnTime, process, server, verdicts, clock
<1>0. /\ minute \in Nat /\ minute' \in Nat /\ LastMinute \in Nat
      /\ \A k \in Slots : k[2] \in Nat /\ k[2] <= LastMinute
      /\ \A k \in Slots : ttl[k] \in Nat
  BY RateLimitAssumption DEF Minute, Slots, NoTtl
<1>1. ASSUME NEW t \in Threads, NEW a \in Addresses, Allow(t, a) PROVE OnTime'
  BY <1>0, <1>1 DEF Allow
<1>2. ASSUME NEW t \in Threads, Resolve(t) PROVE OnTime'
  <2>1. /\ UNCHANGED <<slot, minute, counts, ttl>>
        /\ \A u \in Threads : pc'[u] # "idle" => pc[u] # "idle"
    BY <1>2 DEF Resolve, IsResolved, Claim, PingAnswers, PingFails, ReadClient,
       Goto
  <2>2. QED
    BY <2>1
<1>3. ASSUME NEW t \in Threads, Count(t) PROVE OnTime'
  <2>1. /\ minute' = minute
        /\ \A u \in Threads : pc'[u] # "idle" => pc[u] # "idle" /\ slot'[u] = slot[u]
    BY <1>3 DEF Count, Incr, IncrFails, Expire, ExpireFails, MemAllow, Goto,
       Return
  <2>2. \A k \in Slots : counts'[k] > 0 => k[2] <= minute
    <3>1. CASE MemAllow(t)
      BY <3>1 DEF MemAllow
    <3>2. CASE ~ MemAllow(t)
      <4>1. counts' = counts
        BY <1>3, <3>2 DEF Count, Incr, IncrFails, Expire, ExpireFails
      <4>2. QED
        BY <4>1
    <3>3. QED
      BY <3>1, <3>2
  <2>3. \A k \in Slots : k[2] <= ttl'[k]
    <3>1. CASE Expire(t)
      BY <3>1 DEF Expire
    <3>2. CASE ~ Expire(t)
      <4>1. ttl' = ttl
        BY <1>3, <3>2 DEF Count, Incr, IncrFails, MemAllow, ExpireFails
      <4>2. QED
        BY <4>1
    <3>3. QED
      BY <3>1, <3>2
  <2>4. QED
    BY <2>1, <2>2, <2>3
<1>4. ASSUME NEW k \in Slots, KeyExpires(k) PROVE OnTime'
  BY <1>0, <1>4 DEF KeyExpires, NoTtl
<1>5. CASE NextMinute
  <2>1. \A t \in Threads : pc[t] # "idle" => slot[t][2] <= minute + 1
    BY <1>0
  <2>2. QED
    BY <1>0, <1>5, <2>1 DEF NextMinute
<1>6. CASE Restart
  BY <1>6 DEF Restart
<1>7. CASE UNCHANGED vars
  BY <1>7 DEF vars
<1>8. QED
  BY <1>1, <1>2, <1>3, <1>4, <1>5, <1>6, <1>7 DEF Next

LEMMA StepUnreached == TypeOK /\ Unreached /\ [Next]_vars => Unreached'
<1> SUFFICES ASSUME TypeOK, Unreached, [Next]_vars, ~ RedisUrl PROVE Unreached'
  BY DEF Unreached
<1>0. /\ client = "none" /\ pc \in [Threads -> Stage]
      /\ \A t \in Threads : pc[t] \notin {"pinging", "incr", "expire"}
  BY DEF Unreached, TypeOK
<1>1. ASSUME NEW t \in Threads, NEW a \in Addresses, Allow(t, a) PROVE Unreached'
  BY <1>0, <1>1 DEF Allow, Unreached, process
<1>2. ASSUME NEW t \in Threads, Resolve(t) PROVE Unreached'
  BY <1>0, <1>2 DEF Resolve, IsResolved, Claim, PingAnswers, PingFails,
     ReadClient, Goto, Unreached, process
<1>3. ASSUME NEW t \in Threads, Count(t) PROVE Unreached'
  BY <1>0, <1>3 DEF Count, Incr, IncrFails, Expire, ExpireFails, MemAllow,
     Return, Unreached
<1>4. CASE \/ \E k \in Slots : KeyExpires(k)
           \/ NextMinute
           \/ Restart
           \/ UNCHANGED vars
  BY <1>0, <1>4 DEF KeyExpires, NextMinute, Restart, vars, Unreached, process
<1>5. QED
  BY <1>1, <1>2, <1>3, <1>4 DEF Next

-----------------------------------------------------------------------------
(* The accounts of a slot, when a request of it is counted.                *)
LEMMA VerdictStep ==
    ASSUME TypeOK, NEW k \in Slots, NEW n \in Nat, Decide(k, n)
    PROVE  /\ n <= PerMinute => passed'[k] = passed[k] + 1 /\ blocked'[k] = blocked[k]
           /\ ~ (n <= PerMinute) =>
                  passed'[k] = passed[k] /\ blocked'[k] = blocked[k] + 1
           /\ \A j \in Slots \ {k} : passed'[j] = passed[j] /\ blocked'[j] = blocked[j]
BY DEF TypeOK, Decide, Pass

(* The numbers that the accounts of one slot are about.                    *)
Numbers(k) ==
    /\ passed[k] \in Nat /\ blocked[k] \in Nat /\ asked[k] \in Nat
    /\ counts[k] \in Nat /\ hits[k] \in Nat
    /\ faults \in Nat /\ PerMinute \in Nat /\ Cardinality(Threads) \in Nat
    /\ Cardinality(Pending(k)) \in Nat
    /\ Cardinality(Pending(k)) <= Cardinality(Threads)
    /\ Spare(counts[k]) \in Nat /\ Spare(counts[k]) <= PerMinute
    /\ Spare(hits[k]) \in Nat /\ Spare(hits[k]) <= PerMinute
    /\ Room(k) = Spare(counts[k]) + (IF RedisUrl THEN Spare(hits[k]) ELSE 0)
    /\ minute \in Nat /\ k[2] \in Nat

LEMMA NumbersHold == ASSUME TypeOK, NEW k \in Slots PROVE Numbers(k)
<1>1. /\ passed[k] \in Nat /\ blocked[k] \in Nat /\ asked[k] \in Nat
      /\ counts[k] \in Nat /\ hits[k] \in Nat
      /\ faults \in Nat /\ PerMinute \in Nat /\ minute \in Nat
  BY RateLimitAssumption DEF TypeOK, Minute
<1>2. k[2] \in Nat
  BY DEF Slots, Minute
<1>3. QED
  BY <1>1, <1>2, SpareRange, PendingCount, ThreadCount DEF Numbers, Room

LEMMA NumbersHoldNext == ASSUME TypeOK', NEW k \in Slots PROVE Numbers(k)'
<1>1. /\ passed'[k] \in Nat /\ blocked'[k] \in Nat /\ asked'[k] \in Nat
      /\ counts'[k] \in Nat /\ hits'[k] \in Nat
      /\ faults' \in Nat /\ PerMinute \in Nat /\ minute' \in Nat
  BY RateLimitAssumption DEF TypeOK, Minute
<1>2. k[2] \in Nat
  BY DEF Slots, Minute
<1>3. /\ IsFiniteSet(Pending(k)') /\ Cardinality(Pending(k)') \in Nat
      /\ Cardinality(Pending(k)') <= Cardinality(Threads)
  <2>1. Pending(k)' \in SUBSET Threads
    BY DEF Pending, Uncounted
  <2>2. QED
    BY <2>1, RateLimitAssumption, FS_Subset, FS_CardinalityType
<1>4. /\ Spare(counts'[k]) \in Nat /\ Spare(counts'[k]) <= PerMinute
      /\ Spare(hits'[k]) \in Nat /\ Spare(hits'[k]) <= PerMinute
  BY <1>1, SpareRange
<1>5. QED
  BY <1>1, <1>2, <1>3, <1>4, ThreadCount DEF Numbers, Room, Spare

(* What a step may do to the accounts of a slot and keep them: count one   *)
(* request of it in one store, pass it at the price of a fault, or only    *)
(* lose counters of a minute that is over.                                 *)
LEMMA CountedInMemory ==
    ASSUME TypeOK, TypeOK', OnTime, NEW k \in Slots,
           PassAccount(k), BlockAccount(k),
           NEW t \in Threads, MemAllow(t), slot[t] = k
    PROVE  PassAccount(k)' /\ BlockAccount(k)'
<1>0. k[2] \in Nat /\ ~ (k[2] < k[2])
  BY NumbersHold DEF Numbers
<1>1. /\ counts'[k] = counts[k] + 1 /\ hits' = hits /\ asked' = asked
      /\ Decide(k, counts[k] + 1) /\ minute' = minute
      /\ restarts' = restarts /\ faults' = faults
  BY <1>0 DEF MemAllow, TypeOK, clock, server
<1>2. Numbers(k) /\ Numbers(k)' /\ Allowance \in Nat /\ Allowance' = Allowance
  BY <1>1, NumbersHold, NumbersHoldNext, AllowanceStep
<1>3. Cardinality(Pending(k)) = Cardinality(Pending(k)') + 1
  BY SettledPending
<1>4. CASE counts[k] + 1 <= PerMinute
  <2>1. passed'[k] = passed[k] + 1 /\ blocked'[k] = blocked[k]
    BY <1>1, <1>2, <1>4, VerdictStep DEF Numbers
  <2>2. Spare(counts[k]) = Spare(counts'[k]) + 1
    BY <1>1, <1>2, <1>4, SpareStep DEF Numbers
  <2>3. PassAccount(k)'
    BY <1>1, <1>2, <1>3, <2>1, <2>2 DEF PassAccount, Numbers
  <2>4. BlockAccount(k)'
    BY <1>1, <1>2, <1>3, <2>1, <2>2 DEF BlockAccount, Numbers
  <2>5. QED
    BY <2>3, <2>4
<1>5. CASE ~ (counts[k] + 1 <= PerMinute)
  <2>1. passed'[k] = passed[k] /\ blocked'[k] = blocked[k] + 1
    BY <1>1, <1>2, <1>5, VerdictStep DEF Numbers
  <2>2. Spare(counts[k]) = 0 /\ Spare(counts'[k]) = 0
    BY <1>1, <1>2, <1>5, SpareStep DEF Numbers
  <2>3. PassAccount(k)'
    BY <1>1, <1>2, <1>3, <2>1, <2>2 DEF PassAccount, Numbers
  <2>4. BlockAccount(k)'
    BY <1>1, <1>2, <1>3, <2>1, <2>2 DEF BlockAccount, Numbers
  <2>5. QED
    BY <2>3, <2>4
<1>6. QED
  BY <1>4, <1>5

LEMMA CountedInRedis ==
    ASSUME TypeOK, TypeOK', Unreached, NEW k \in Slots,
           PassAccount(k), BlockAccount(k),
           NEW t \in Threads, Incr(t), slot[t] = k
    PROVE  PassAccount(k)' /\ BlockAccount(k)'
<1>1. /\ hits'[k] = hits[k] + 1 /\ counts' = counts /\ asked' = asked
      /\ Decide(k, hits[k] + 1) /\ minute' = minute
      /\ restarts' = restarts /\ faults' = faults
  BY DEF Incr, TypeOK, clock, process
<1>2. Numbers(k) /\ Numbers(k)' /\ Allowance \in Nat /\ Allowance' = Allowance
  BY <1>1, NumbersHold, NumbersHoldNext, AllowanceStep
<1>3. Cardinality(Pending(k)) = Cardinality(Pending(k)') + 1
  BY SettledPending
<1>0. RedisUrl
  BY DEF Unreached, Incr
<1>4. CASE hits[k] + 1 <= PerMinute
  <2>1. passed'[k] = passed[k] + 1 /\ blocked'[k] = blocked[k]
    BY <1>1, <1>2, <1>4, VerdictStep DEF Numbers
  <2>2. Spare(hits[k]) = Spare(hits'[k]) + 1
    BY <1>1, <1>2, <1>4, SpareStep DEF Numbers
  <2>3. PassAccount(k)'
    BY <1>0, <1>1, <1>2, <1>3, <2>1, <2>2 DEF PassAccount, Numbers
  <2>4. BlockAccount(k)'
    BY <1>1, <1>2, <1>3, <2>1, <2>2 DEF BlockAccount, Numbers
  <2>5. QED
    BY <2>3, <2>4
<1>5. CASE ~ (hits[k] + 1 <= PerMinute)
  <2>1. passed'[k] = passed[k] /\ blocked'[k] = blocked[k] + 1
    BY <1>1, <1>2, <1>5, VerdictStep DEF Numbers
  <2>2. Spare(hits[k]) = 0 /\ Spare(hits'[k]) = 0
    BY <1>1, <1>2, <1>5, SpareStep DEF Numbers
  <2>3. PassAccount(k)'
    BY <1>1, <1>2, <1>3, <2>1, <2>2 DEF PassAccount, Numbers
  <2>4. BlockAccount(k)'
    BY <1>1, <1>2, <1>3, <2>1, <2>2 DEF BlockAccount, Numbers
  <2>5. QED
    BY <2>3, <2>4
<1>6. QED
  BY <1>4, <1>5

LEMMA CountedByFault ==
    ASSUME TypeOK, TypeOK', NEW k \in Slots,
           PassAccount(k), BlockAccount(k),
           NEW t \in Threads, IncrFails(t), slot[t] = k
    PROVE  PassAccount(k)' /\ BlockAccount(k)'
<1>1. /\ hits'[k] \in {hits[k], hits[k] + 1} /\ counts' = counts
      /\ asked' = asked /\ minute' = minute /\ restarts' = restarts
      /\ passed'[k] = passed[k] + 1 /\ blocked' = blocked /\ faults' = faults + 1
  BY DEF IncrFails, Pass, TypeOK, clock, process
<1>2. Numbers(k) /\ Numbers(k)' /\ Allowance \in Nat /\ Allowance' = Allowance
  BY <1>1, NumbersHold, NumbersHoldNext, AllowanceStep
<1>3. Cardinality(Pending(k)) = Cardinality(Pending(k)') + 1
  BY SettledPending
<1>4. Spare(hits'[k]) <= Spare(hits[k]) /\ Spare(hits[k]) <= Spare(hits'[k]) + 1
  BY <1>1, <1>2 DEF Spare, Numbers
<1>5. PassAccount(k)'
  BY <1>1, <1>2, <1>3, <1>4 DEF PassAccount, Numbers
<1>6. BlockAccount(k)'
  BY <1>1, <1>2, <1>3, <1>4 DEF BlockAccount, Numbers
<1>7. QED
  BY <1>5, <1>6

LEMMA CountedElsewhere ==
    ASSUME TypeOK, TypeOK', OnTime, NEW k \in Slots,
           PassAccount(k), BlockAccount(k), NEW t \in Threads,
           Incr(t) \/ IncrFails(t) \/ MemAllow(t), slot[t] # k
    PROVE  PassAccount(k)' /\ BlockAccount(k)'
<1>1. /\ slot[t] \in Slots /\ slot[t][2] <= minute
  BY CountingSettles DEF OnTime, Uncounted
<1>2. /\ asked' = asked /\ minute' = minute /\ restarts' = restarts
      /\ faults' \in {faults, faults + 1} /\ hits'[k] = hits[k]
  BY DEF Incr, IncrFails, MemAllow, clock, server, TypeOK
<1>3. passed'[k] = passed[k] /\ blocked'[k] = blocked[k]
  BY <1>1 DEF Incr, IncrFails, MemAllow, Decide, Pass, TypeOK
<1>4. counts'[k] = counts[k] \/ (counts'[k] = 0 /\ k[2] < minute)
  <2>1. CASE MemAllow(t)
    <3>1. counts'[k] = counts[k] \/ (counts'[k] = 0 /\ k[2] < slot[t][2])
      BY <2>1 DEF MemAllow, TypeOK
    <3>2. minute \in Nat /\ k[2] \in Nat /\ slot[t][2] \in Nat
      BY <1>1, NumbersHold DEF Numbers
    <3>3. QED
      BY <1>1, <3>1, <3>2
  <2>2. CASE ~ MemAllow(t)
    BY <2>2 DEF Incr, IncrFails, process
  <2>3. QED
    BY <2>1, <2>2
<1>5. Numbers(k) /\ Numbers(k)' /\ Allowance \in Nat /\ Allowance' = Allowance
  BY <1>2, NumbersHold, NumbersHoldNext, AllowanceStep
<1>6. Cardinality(Pending(k)) = Cardinality(Pending(k)')
  BY SettledPending
<1>7. /\ Spare(hits'[k]) = Spare(hits[k])
      /\ Spare(counts'[k]) = Spare(counts[k])
           \/ (k[2] < minute /\ Spare(counts[k]) <= Spare(counts'[k]))
  <2>1. Spare(0) = PerMinute
    BY SpareRange
  <2>2. QED
    BY <1>2, <1>4, <1>5, <2>1 DEF Numbers
<1>8. PassAccount(k)'
  BY <1>2, <1>3, <1>5, <1>6, <1>7 DEF PassAccount, Numbers
<1>9. BlockAccount(k)'
  BY <1>2, <1>3, <1>5, <1>6, <1>7 DEF BlockAccount, Numbers
<1>10. QED
  BY <1>8, <1>9

(* A request is made, and stays pending while its store is looked for.     *)
LEMMA AllowKeepsAccounts ==
    ASSUME TypeOK, TypeOK', NEW k \in Slots, PassAccount(k), BlockAccount(k),
           NEW t \in Threads, NEW a \in Addresses, Allow(t, a)
    PROVE  PassAccount(k)' /\ BlockAccount(k)'
<1>1. /\ counts' = counts /\ hits' = hits /\ passed' = passed
      /\ blocked' = blocked /\ minute' = minute /\ restarts' = restarts
      /\ faults' = faults
  BY DEF Allow, process, server, verdicts, clock
<1>2. Numbers(k) /\ Numbers(k)' /\ Allowance \in Nat /\ Allowance' = Allowance
  BY <1>1, NumbersHold, NumbersHoldNext, AllowanceStep
<1>3. CASE k = <<a, minute>>
  <2>1. asked'[k] = asked[k] + 1 /\ k[2] = minute
    BY <1>3 DEF Allow, TypeOK
  <2>2. Pending(k)' = Pending(k) \cup {t} /\ t \notin Pending(k)
    BY <1>3 DEF Allow, Pending, Uncounted, TypeOK
  <2>3. Cardinality(Pending(k)') = Cardinality(Pending(k)) + 1
    BY <2>2, PendingCount, FS_AddElement
  <2>4. PassAccount(k)'
    BY <1>1, <1>2, <2>1 DEF PassAccount, Numbers
  <2>5. BlockAccount(k)'
    BY <1>1, <1>2, <2>1, <2>3 DEF BlockAccount, Numbers
  <2>6. QED
    BY <2>4, <2>5
<1>4. CASE k # <<a, minute>>
  <2>1. asked'[k] = asked[k]
    BY <1>4 DEF Allow, TypeOK
  <2>2. Pending(k)' = Pending(k)
    BY <1>4 DEF Allow, Pending, Uncounted, TypeOK
  <2>3. PassAccount(k)'
    BY <1>1, <1>2, <2>2 DEF PassAccount, Numbers
  <2>4. BlockAccount(k)'
    BY <1>1, <1>2, <2>1, <2>2 DEF BlockAccount, Numbers
  <2>5. QED
    BY <2>3, <2>4
<1>5. QED
  BY <1>3, <1>4

(* The other steps: pending requests stay or are lost, and counters are    *)
(* lost by a restart or once the minute is over.                           *)
LEMMA OthersKeepAccounts ==
    ASSUME TypeOK, TypeOK', OnTime, Unreached, NEW k \in Slots,
           PassAccount(k), BlockAccount(k),
           \/ \E t \in Threads : Resolve(t) \/ Expire(t) \/ ExpireFails(t)
           \/ \E j \in Slots : KeyExpires(j)
           \/ NextMinute \/ Restart \/ UNCHANGED vars
    PROVE  PassAccount(k)' /\ BlockAccount(k)'
<1>0. Numbers(k) /\ Numbers(k)' /\ Allowance \in Nat
  BY NumbersHold, NumbersHoldNext, AllowanceStep
<1>1. CASE \E t \in Threads : Resolve(t) \/ Expire(t) \/ ExpireFails(t)
  <2>1. PICK t \in Threads : Resolve(t) \/ Expire(t) \/ ExpireFails(t)
    BY <1>1
  <2>2. /\ counts' = counts /\ hits' = hits /\ passed' = passed
        /\ blocked' = blocked /\ asked' = asked /\ minute' = minute
        /\ restarts' = restarts /\ faults' \in {faults, faults + 1}
    BY <2>1 DEF Resolve, IsResolved, Claim, PingAnswers, PingFails, ReadClient,
       Expire, ExpireFails, process, server, verdicts, clock
  <2>3. Pending(k)' = Pending(k)
    <3>1. CASE Resolve(t)
      BY <3>1, ResolveKeepsPending DEF Pending
    <3>2. CASE Expire(t) \/ ExpireFails(t)
      BY <3>2 DEF Expire, ExpireFails, Return, Pending, Uncounted, TypeOK
    <3>3. QED
      BY <2>1, <3>1, <3>2
  <2>4. Allowance' = Allowance
    BY <2>2, AllowanceStep
  <2>5. PassAccount(k)'
    BY <1>0, <2>2, <2>3, <2>4 DEF PassAccount, Numbers
  <2>6. BlockAccount(k)'
    BY <1>0, <2>2, <2>3 DEF BlockAccount, Numbers
  <2>7. QED
    BY <2>5, <2>6
<1>2. CASE \E j \in Slots : KeyExpires(j)
  <2>1. PICK j \in Slots : KeyExpires(j)
    BY <1>2
  <2>2. /\ counts' = counts /\ passed' = passed /\ blocked' = blocked
        /\ asked' = asked /\ minute' = minute /\ restarts' = restarts
        /\ faults' = faults /\ Pending(k)' = Pending(k)
    BY <2>1 DEF KeyExpires, process, verdicts, clock, Pending, Uncounted
  <2>3. Allowance' = Allowance
    BY <2>2, AllowanceStep
  <2>4. hits'[k] = hits[k] \/ (hits'[k] = 0 /\ k[2] < minute)
    <3>1. ttl[j] \in Nat /\ j[2] \in Nat /\ j[2] <= ttl[j] /\ minute \in Nat
      BY RateLimitAssumption DEF TypeOK, Slots, Minute, NoTtl, OnTime
    <3>2. QED
      BY <2>1, <3>1 DEF KeyExpires, TypeOK
  <2>5. Spare(hits'[k]) = Spare(hits[k])
          \/ (k[2] < minute /\ Spare(hits[k]) <= Spare(hits'[k]))
    BY <1>0, <2>4, SpareRange DEF Numbers
  <2>6. PassAccount(k)'
    BY <1>0, <2>2, <2>3, <2>5 DEF PassAccount, Numbers
  <2>7. BlockAccount(k)'
    BY <1>0, <2>2, <2>5 DEF BlockAccount, Numbers
  <2>8. QED
    BY <2>6, <2>7
<1>3. CASE NextMinute
  <2>1. /\ counts' = counts /\ hits' = hits /\ passed' = passed
        /\ blocked' = blocked /\ asked' = asked /\ minute' = minute + 1
        /\ restarts' = restarts /\ faults' = faults
        /\ Pending(k)' = Pending(k)
    BY <1>3 DEF NextMinute, process, server, verdicts, Pending, Uncounted
  <2>2. Allowance' = Allowance
    BY <2>1, AllowanceStep
  <2>3. PassAccount(k)'
    BY <1>0, <2>1, <2>2 DEF PassAccount, Numbers
  <2>4. BlockAccount(k)'
    BY <1>0, <2>1 DEF BlockAccount, Numbers
  <2>5. QED
    BY <2>3, <2>4
<1>4. CASE Restart
  <2>1. /\ counts'[k] = 0 /\ hits' = hits /\ passed' = passed
        /\ blocked' = blocked /\ asked' = asked /\ minute' = minute
        /\ restarts' = restarts + 1 /\ faults' = faults
        /\ Pending(k)' = {}
    BY <1>4 DEF Restart, server, verdicts, Pending, Uncounted
  <2>2. Allowance' = Allowance + PerMinute /\ Cardinality(Pending(k)') = 0
    BY <2>1, AllowanceStep, FS_EmptySet
  <2>3. Spare(counts[k]) <= Spare(counts'[k])
    BY <1>0, <2>1, SpareRange DEF Numbers
  <2>4. PassAccount(k)'
    BY <1>0, <2>1, <2>2 DEF PassAccount, Numbers
  <2>5. BlockAccount(k)'
    BY <1>0, <2>1, <2>2, <2>3 DEF BlockAccount, Numbers
  <2>6. QED
    BY <2>4, <2>5
<1>5. CASE UNCHANGED vars
  BY <1>5 DEF vars, PassAccount, BlockAccount, Room, Pending, Uncounted,
     Allowance, Stores, Spare
<1>6. QED
  BY <1>1, <1>2, <1>3, <1>4, <1>5

LEMMA StepAccounts ==
    ASSUME TypeOK, TypeOK', OnTime, Unreached, [Next]_vars, NEW k \in Slots,
           PassAccount(k), BlockAccount(k)
    PROVE  PassAccount(k)' /\ BlockAccount(k)'
<1>1. ASSUME NEW t \in Threads, NEW a \in Addresses, Allow(t, a)
      PROVE  PassAccount(k)' /\ BlockAccount(k)'
  BY <1>1, AllowKeepsAccounts
<1>2. ASSUME NEW t \in Threads, Count(t)
      PROVE  PassAccount(k)' /\ BlockAccount(k)'
  <2>1. CASE Expire(t) \/ ExpireFails(t)
    BY <2>1, OthersKeepAccounts
  <2>2. CASE (Incr(t) \/ IncrFails(t) \/ MemAllow(t)) /\ slot[t] # k
    BY <2>2, CountedElsewhere
  <2>3. CASE (Incr(t) \/ IncrFails(t) \/ MemAllow(t)) /\ slot[t] = k
    BY <2>3, CountedInMemory, CountedInRedis, CountedByFault
  <2>4. QED
    BY <1>2, <2>1, <2>2, <2>3 DEF Count
<1>3. ASSUME \/ \E t \in Threads : Resolve(t)
             \/ \E j \in Slots : KeyExpires(j)
             \/ NextMinute \/ Restart \/ UNCHANGED vars
      PROVE  PassAccount(k)' /\ BlockAccount(k)'
  BY <1>3, OthersKeepAccounts
<1>4. QED
  BY <1>1, <1>2, <1>3 DEF Next

-----------------------------------------------------------------------------
(* What the stores keep.                                                   *)
LEMMA SlotSets ==
    ASSUME NEW S \in SUBSET Slots
    PROVE  IsFiniteSet(S) /\ Cardinality(S) \in Nat
<1>1. IsFiniteSet(Minute)
  BY RateLimitAssumption, FS_Interval DEF Minute
<1>2. IsFiniteSet(Slots)
  BY <1>1, RateLimitAssumption, FS_Product DEF Slots
<1>3. QED
  BY <1>2, FS_Subset, FS_CardinalityType

LEMMA ThreadSets ==
    ASSUME NEW S \in SUBSET Threads
    PROVE  IsFiniteSet(S) /\ Cardinality(S) \in Nat
BY RateLimitAssumption, FS_Subset, FS_CardinalityType

LEMMA SlotsAtMost ==
    ASSUME NEW S \in SUBSET Slots, NEW T \in SUBSET Slots, NEW k \in Slots,
           T \subseteq S \cup {k}
    PROVE  Cardinality(T) <= Cardinality(S) + 1
<1>1. S \cup {k} \in SUBSET Slots
  OBVIOUS
<1>2. Cardinality(T) <= Cardinality(S \cup {k})
  BY <1>1, SlotSets, FS_Subset
<1>3. Cardinality(S \cup {k}) \in {Cardinality(S), Cardinality(S) + 1}
  BY SlotSets, FS_AddElement
<1>4. QED
  BY <1>1, <1>2, <1>3, SlotSets

LEMMA StaleAndOvertaken ==
    /\ Stale \in SUBSET Slots /\ Stale' \in SUBSET Slots
    /\ Overtaken \in SUBSET Threads /\ Overtaken' \in SUBSET Threads
BY DEF Stale, Kept, Overtaken, Uncounted

(* The dict counts a late request, or one of its newest window.            *)
LEMMA MemAllowKeepsStale ==
    ASSUME TypeOK, TypeOK', StaleAccount, NEW t \in Threads, MemAllow(t)
    PROVE  StaleAccount'
<1> DEFINE k == slot[t]
<1>1. /\ t \in Uncounted /\ k \in Slots /\ Uncounted' = Uncounted \ {t}
      /\ \A u \in Uncounted' : slot'[u] = slot[u]
  BY CountingSettles DEF Uncounted
<1>2. \A s \in Slots : s[2] \in Nat
  BY DEF Slots, Minute
<1>3. \A u \in Uncounted : slot[u] \in Slots
  BY DEF TypeOK, Uncounted
<1>4. Kept' = {s \in Kept : ~ (s[2] < k[2])} \cup {k}
  BY <1>1, <1>2 DEF MemAllow, Kept, TypeOK
<1> HIDE DEF k
<1>5. CASE \E n \in Kept : k[2] < n[2]
  <2>1. Stale' \subseteq Stale \cup {k}
    BY <1>1, <1>2, <1>4 DEF Stale, Kept
  <2>2. t \in Overtaken
    BY <1>1, <1>5 DEF Overtaken, k
  <2>3. Overtaken' \subseteq Overtaken \ {t}
    <3> SUFFICES ASSUME NEW u \in Uncounted', NEW n \in Kept', slot[u][2] < n[2]
                 PROVE  u \in Overtaken \ {t}
      BY <1>1 DEF Overtaken
    <3>1. u \in Uncounted /\ u # t /\ slot[u] \in Slots
      BY <1>1, <1>3
    <3>2. PICK m \in Kept : k[2] < m[2]
      BY <1>5
    <3>3. slot[u][2] \in Nat /\ k[2] \in Nat /\ m[2] \in Nat
      BY <1>1, <1>2, <3>1 DEF Kept
    <3>4. CASE n \in Kept
      BY <3>1, <3>4 DEF Overtaken
    <3>5. CASE n = k
      <4>1. slot[u][2] < m[2]
        BY <3>2, <3>3, <3>5
      <4>2. QED
        BY <3>1, <4>1 DEF Overtaken
    <3>6. QED
      BY <1>4, <3>4, <3>5
  <2>4. Cardinality(Stale') <= Cardinality(Stale) + 1
    BY <1>1, <2>1, SlotsAtMost, StaleAndOvertaken
  <2>5. Cardinality(Overtaken') <= Cardinality(Overtaken) - 1
    <3>1. Cardinality(Overtaken \ {t}) = Cardinality(Overtaken) - 1
      BY <2>2, ThreadSets, StaleAndOvertaken, FS_RemoveElement
    <3>2. IsFiniteSet(Overtaken \ {t})
      BY ThreadSets, StaleAndOvertaken
    <3>3. QED
      BY <2>3, <3>1, <3>2, FS_Subset
  <2>6. Cardinality(Stale) + Cardinality(Overtaken) < Cardinality(Threads)
    BY <1>5 DEF StaleAccount
  <2>7. /\ Cardinality(Stale) \in Nat /\ Cardinality(Stale') \in Nat
        /\ Cardinality(Overtaken) \in Nat /\ Cardinality(Overtaken') \in Nat
    BY StaleAndOvertaken, SlotSets, ThreadSets
  <2>8. QED
    BY <2>4, <2>5, <2>6, <2>7, ThreadCount DEF StaleAccount
<1>6. CASE \A n \in Kept : ~ (k[2] < n[2])
  <2>1. \A s \in Kept' : s[2] = k[2]
    BY <1>1, <1>2, <1>4, <1>6 DEF Kept
  <2>2. Stale' = {}
    BY <1>1, <1>2, <2>1 DEF Stale
  <2>3. Overtaken' \subseteq Threads \ {t}
    BY <1>1 DEF Overtaken, Uncounted
  <2>4. Cardinality(Threads \ {t}) = Cardinality(Threads) - 1
    BY RateLimitAssumption, FS_RemoveElement
  <2>5. Cardinality(Overtaken') <= Cardinality(Threads \ {t})
    BY <2>3, ThreadSets, FS_Subset
  <2>6. Cardinality(Stale') = 0 /\ Cardinality(Overtaken') \in Nat
    BY <2>2, FS_EmptySet, StaleAndOvertaken, ThreadSets
  <2>7. QED
    BY <2>4, <2>5, <2>6, ThreadCount DEF StaleAccount
<1>7. QED
  BY <1>5, <1>6

LEMMA StepStale ==
    TypeOK /\ TypeOK' /\ OnTime /\ StaleAccount /\ [Next]_vars => StaleAccount'
<1> SUFFICES ASSUME TypeOK, TypeOK', OnTime, StaleAccount, [Next]_vars
             PROVE  StaleAccount'
  OBVIOUS
<1>0. ASSUME counts' = counts, Overtaken' \subseteq Overtaken PROVE StaleAccount'
  <2>1. Kept' = Kept /\ Stale' = Stale
    BY <1>0 DEF Kept, Stale
  <2>2. Cardinality(Overtaken') <= Cardinality(Overtaken)
    BY <1>0, StaleAndOvertaken, ThreadSets, FS_Subset
  <2>3. /\ Cardinality(Stale) \in Nat
        /\ Cardinality(Overtaken) \in Nat /\ Cardinality(Overtaken') \in Nat
    BY StaleAndOvertaken, SlotSets, ThreadSets
  <2>4. QED
    BY <2>1, <2>2, <2>3, ThreadCount DEF StaleAccount
<1>1. ASSUME NEW t \in Threads, NEW a \in Addresses, Allow(t, a)
      PROVE  StaleAccount'
  <2>1. /\ counts' = counts /\ slot'[t][2] = minute
        /\ \A u \in Threads \ {t} : slot'[u] = slot[u] /\ pc'[u] = pc[u]
    BY <1>1 DEF Allow, process, TypeOK
  <2>2. \A n \in Kept : n[2] <= minute /\ n[2] \in Nat /\ minute \in Nat
    BY DEF Kept, OnTime, Slots, Minute, TypeOK
  <2>3. Kept' = Kept
    BY <2>1 DEF Kept
  <2>4. t \notin Overtaken'
    BY <2>1, <2>2, <2>3 DEF Overtaken
  <2>5. Overtaken' \subseteq Overtaken
    BY <2>1, <2>3, <2>4 DEF Overtaken, Uncounted
  <2>6. QED
    BY <1>0, <2>1, <2>5
<1>2. ASSUME NEW t \in Threads, Resolve(t) PROVE StaleAccount'
  <2>1. counts' = counts
    BY <1>2 DEF Resolve, IsResolved, Claim, PingAnswers, PingFails, ReadClient,
       process
  <2>2. Overtaken' = Overtaken
    BY <1>2, <2>1, ResolveKeepsPending DEF Overtaken, Kept
  <2>3. QED
    BY <1>0, <2>1, <2>2
<1>3. ASSUME NEW t \in Threads, Count(t) PROVE StaleAccount'
  <2>1. CASE MemAllow(t)
    BY <2>1, MemAllowKeepsStale
  <2>2. CASE ~ MemAllow(t)
    <3>1. counts' = counts
      BY <1>3, <2>2 DEF Count, Incr, IncrFails, Expire, ExpireFails, process
    <3>2. Uncounted' \subseteq Uncounted /\ \A u \in Uncounted' : slot'[u] = slot[u]
      BY <1>3, <2>2 DEF Count, Incr, IncrFails, Expire, ExpireFails, Goto,
         Return, Uncounted, TypeOK
    <3>3. Overtaken' \subseteq Overtaken
      BY <3>1, <3>2 DEF Overtaken, Kept
    <3>4. QED
      BY <1>0, <3>1, <3>3
  <2>3. QED
    BY <2>1, <2>2
<1>4. CASE Restart
  <2>1. Kept' = {}
    BY <1>4 DEF Restart, Kept
  <2>2. QED
    BY <2>1 DEF StaleAccount
<1>5. CASE (\E k \in Slots : KeyExpires(k)) \/ NextMinute \/ UNCHANGED vars
  <2>1. counts' = counts /\ pc' = pc /\ slot' = slot
    BY <1>5 DEF KeyExpires, NextMinute, vars, process
  <2>2. Overtaken' = Overtaken
    BY <2>1 DEF Overtaken, Kept, Uncounted
  <2>3. QED
    BY <1>0, <2>1, <2>2
<1>6. QED
  BY <1>1, <1>2, <1>3, <1>4, <1>5 DEF Next

(* A key loses its TTL to a fault, or with the threads of a restart.       *)
LEMMA StepImmortal ==
    TypeOK /\ TypeOK' /\ ImmortalBound /\ [Next]_vars => ImmortalBound'
<1> SUFFICES ASSUME TypeOK, TypeOK', ImmortalBound, [Next]_vars
             PROVE  ImmortalBound'
  OBVIOUS
<1> DEFINE Lost == restarts * Cardinality(Threads)
<1>0. /\ Immortal \in SUBSET Slots /\ Immortal' \in SUBSET Slots
      /\ Cardinality(Immortal) \in Nat /\ Cardinality(Immortal') \in Nat
      /\ faults \in Nat /\ Lost \in Nat
      /\ Cardinality(Immortal) <= faults + Lost
  <2>1. Immortal \in SUBSET Slots /\ Immortal' \in SUBSET Slots
    BY DEF Immortal
  <2>2. faults \in Nat /\ restarts \in Nat
    BY RateLimitAssumption DEF TypeOK
  <2>3. QED
    BY <2>1, <2>2, SlotSets, ThreadCount DEF ImmortalBound
<1>1. ASSUME Immortal' \subseteq Immortal, restarts' = restarts,
             faults' \in {faults, faults + 1}
      PROVE  ImmortalBound'
  <2>1. Cardinality(Immortal') <= Cardinality(Immortal)
    BY <1>0, <1>1, SlotSets, FS_Subset
  <2>2. QED
    BY <1>0, <1>1, <2>1 DEF ImmortalBound
<1>2. ASSUME NEW k \in Slots, Immortal' \subseteq Immortal \cup {k},
             restarts' = restarts, faults' = faults + 1
      PROVE  ImmortalBound'
  <2>1. Cardinality(Immortal') <= Cardinality(Immortal) + 1
    BY <1>0, <1>2, SlotsAtMost
  <2>2. QED
    BY <1>0, <1>2, <2>1 DEF ImmortalBound
<1>3. ASSUME NEW t \in Threads, NEW a \in Addresses, Allow(t, a)
      PROVE  ImmortalBound'
  <2>1. /\ hits' = hits /\ ttl' = ttl /\ restarts' = restarts /\ faults' = faults
        /\ \A u \in Threads : pc[u] = "expire" => pc'[u] = pc[u] /\ slot'[u] = slot[u]
    BY <1>3 DEF Allow, server, clock, TypeOK
  <2>2. Immortal' \subseteq Immortal
    BY <2>1 DEF Immortal
  <2>3. QED
    BY <1>1, <2>1, <2>2
<1>4. ASSUME NEW t \in Threads, Resolve(t) PROVE ImmortalBound'
  <2>1. /\ hits' = hits /\ ttl' = ttl /\ restarts' = restarts
        /\ faults' \in {faults, faults + 1}
        /\ \A u \in Threads : pc[u] = "expire" => pc'[u] = pc[u] /\ slot'[u] = slot[u]
    BY <1>4 DEF Resolve, IsResolved, Claim, PingAnswers, PingFails, ReadClient,
       Goto, server, clock, TypeOK
  <2>2. Immortal' \subseteq Immortal
    BY <2>1 DEF Immortal
  <2>3. QED
    BY <1>1, <2>1, <2>2
<1>5. ASSUME NEW t \in Threads, Count(t) PROVE ImmortalBound'
  <2>0. restarts' = restarts /\ slot[t] \in Slots
    BY <1>5 DEF Count, Incr, IncrFails, Expire, ExpireFails, MemAllow, clock,
       TypeOK
  <2>1. CASE Incr(t)
    <3>1. /\ ttl' = ttl /\ faults' = faults
          /\ \A j \in Slots \ {slot[t]} : hits'[j] = hits[j]
          /\ \A u \in Threads : pc[u] = "expire" => pc'[u] = pc[u] /\ slot'[u] = slot[u]
          /\ hits[slot[t]] = 0 => pc'[t] = "expire" /\ slot'[t] = slot[t]
          /\ hits[slot[t]] \in Nat
      BY <2>0, <2>1 DEF Incr, Goto, Return, TypeOK
    <3>2. Immortal' \subseteq Immortal
      BY <2>0, <3>1 DEF Immortal
    <3>3. QED
      BY <1>1, <2>0, <3>1, <3>2
  <2>2. CASE IncrFails(t)
    <3>1. /\ ttl' = ttl /\ faults' = faults + 1
          /\ \A j \in Slots \ {slot[t]} : hits'[j] = hits[j]
          /\ \A u \in Threads : pc[u] = "expire" => pc'[u] = pc[u] /\ slot'[u] = slot[u]
      BY <2>0, <2>2 DEF IncrFails, Return, TypeOK
    <3>2. Immortal' \subseteq Immortal \cup {slot[t]}
      BY <2>0, <3>1 DEF Immortal
    <3>3. QED
      BY <1>2, <2>0, <3>1, <3>2
  <2>3. CASE Expire(t)
    <3>1. /\ hits' = hits /\ faults' = faults /\ ttl'[slot[t]] = minute
          /\ \A j \in Slots \ {slot[t]} : ttl'[j] = ttl[j]
          /\ \A u \in Threads : pc[u] = "expire" /\ slot[u] # slot[t]
                => pc'[u] = pc[u] /\ slot'[u] = slot[u]
      BY <2>0, <2>3 DEF Expire, Return, TypeOK
    <3>2. minute # NoTtl
      BY RateLimitAssumption DEF TypeOK, Minute, NoTtl
    <3>3. Immortal' \subseteq Immortal
      BY <2>0, <3>1, <3>2 DEF Immortal, NoTtl
    <3>4. QED
      BY <1>1, <2>0, <3>1, <3>3
  <2>4. CASE ExpireFails(t)
    <3>1. /\ hits' = hits /\ ttl' = ttl /\ faults' = faults + 1
          /\ \A u \in Threads : pc[u] = "expire" /\ slot[u] # slot[t]
                => pc'[u] = pc[u] /\ slot'[u] = slot[u]
      BY <2>0, <2>4 DEF ExpireFails, Return, server, TypeOK
    <3>2. Immortal' \subseteq Immortal \cup {slot[t]}
      BY <2>0, <3>1 DEF Immortal
    <3>3. QED
      BY <1>2, <2>0, <3>1, <3>2
  <2>5. CASE MemAllow(t)
    <3>1. /\ hits' = hits /\ ttl' = ttl /\ faults' = faults
          /\ \A u \in Threads : pc[u] = "expire" => pc'[u] = pc[u] /\ slot'[u] = slot[u]
      BY <2>0, <2>5 DEF MemAllow, Return, server, TypeOK
    <3>2. Immortal' \subseteq Immortal
      BY <3>1 DEF Immortal
    <3>3. QED
      BY <1>1, <2>0, <3>1, <3>2
  <2>6. QED
    BY <1>5, <2>1, <2>2, <2>3, <2>4, <2>5 DEF Count
<1>6. ASSUME NEW k \in Slots, KeyExpires(k) PROVE ImmortalBound'
  <2>1. /\ restarts' = restarts /\ faults' = faults /\ pc' = pc /\ slot' = slot
        /\ hits'[k] = 0
        /\ \A j \in Slots \ {k} : hits'[j] = hits[j] /\ ttl'[j] = ttl[j]
    BY <1>6 DEF KeyExpires, clock, TypeOK
  <2>2. Immortal' \subseteq Immortal
    BY <2>1 DEF Immortal
  <2>3. QED
    BY <1>1, <2>1, <2>2
<1>7. CASE NextMinute \/ UNCHANGED vars
  <2>1. /\ hits' = hits /\ ttl' = ttl /\ restarts' = restarts /\ faults' = faults
        /\ pc' = pc /\ slot' = slot
    BY <1>7 DEF NextMinute, vars, server
  <2>2. Immortal' \subseteq Immortal
    BY <2>1 DEF Immortal
  <2>3. QED
    BY <1>1, <2>1, <2>2
<1>8. CASE Restart
  <2> DEFINE Killed == {slot[t] : t \in {u \in Threads : pc[u] = "expire"}}
  <2>1. /\ hits' = hits /\ ttl' = ttl /\ restarts' = restarts + 1 /\ faults' = faults
    BY <1>8 DEF Restart, server
  <2>2. Immortal' \subseteq Immortal \cup Killed
    BY <2>1 DEF Immortal
  <2>3. IsFiniteSet(Killed) /\ Cardinality(Killed) <= Cardinality(Threads)
    <3>1. /\ IsFiniteSet({u \in Threads : pc[u] = "expire"})
          /\ Cardinality({u \in Threads : pc[u] = "expire"}) <= Cardinality(Threads)
      BY RateLimitAssumption, FS_Subset
    <3>2. /\ IsFiniteSet(Killed)
          /\ Cardinality(Killed)
                <= Cardinality({u \in Threads : pc[u] = "expire"})
      <4> DEFINE Dying == {u \in Threads : pc[u] = "expire"}
                 f == [u \in Dying |-> slot[u]]
      <4>1. f \in Surjection(Dying, Killed)
        BY DEF Surjection
      <4> HIDE DEF Dying, f, Killed
      <4>2. IsFiniteSet(Killed) /\ Cardinality(Killed) <= Cardinality(Dying)
        BY <3>1, <4>1, FS_Surjection DEF Dying
      <4>3. QED
        BY <4>2 DEF Dying
    <3>3. QED
      BY <3>1, <3>2, ThreadCount, FS_CardinalityType
  <2>4. Cardinality(Immortal \cup Killed) <= Cardinality(Immortal) + Cardinality(Killed)
    <3> HIDE DEF Killed
    <3>1. Cardinality(Immortal \cup Killed)
             = Cardinality(Immortal) + Cardinality(Killed)
                 - Cardinality(Immortal \cap Killed)
      BY <1>0, <2>3, SlotSets, FS_Union
    <3>2. Cardinality(Immortal \cap Killed) \in Nat
      BY <1>0, SlotSets, FS_Intersection, FS_CardinalityType, <2>3
    <3>3. QED
      BY <1>0, <2>3, <3>1, <3>2, FS_CardinalityType
  <2>5. Cardinality(Immortal') <= Cardinality(Immortal \cup Killed)
    <3> HIDE DEF Killed
    <3>1. IsFiniteSet(Immortal \cup Killed)
      BY <1>0, <2>3, SlotSets, FS_Union
    <3>2. QED
      BY <2>2, <3>1, FS_Subset
  <2>6. (restarts + 1) * Cardinality(Threads) = Lost + Cardinality(Threads)
    <3>1. restarts \in Nat
      BY RateLimitAssumption DEF TypeOK
    <3>2. QED
      BY <3>1, ThreadCount
  <2>7. /\ Cardinality(Killed) \in Nat /\ Cardinality(Immortal \cup Killed) \in Nat
    <3> HIDE DEF Killed
    <3>1. IsFiniteSet(Immortal \cup Killed)
      BY <1>0, <2>3, SlotSets, FS_Union
    <3>2. QED
      BY <2>3, <3>1, FS_CardinalityType
  <2>8. QED
    <3> HIDE DEF Killed, Lost
    <3>1. Cardinality(Immortal') <= faults + (Lost + Cardinality(Threads))
      BY <1>0, <2>3, <2>4, <2>5, <2>7, ThreadCount
    <3>2. QED
      BY <2>1, <2>6, <3>1 DEF ImmortalBound
<1>9. QED
  BY <1>3, <1>4, <1>5, <1>6, <1>7, <1>8 DEF Next

-----------------------------------------------------------------------------
(* The invariant holds at the start, and every step keeps it.              *)
LEMMA InitLimitInv == Init => LimitInv
<1> SUFFICES ASSUME Init PROVE LimitInv
  OBVIOUS
<1>1. TypeOK
  BY InitTypeOK
<1>2. OnTime
  <2>1. \A k \in Slots : k[2] <= NoTtl
    BY RateLimitAssumption DEF Slots, Minute, NoTtl
  <2>2. QED
    BY <2>1 DEF Init, OnTime
<1>3. Unreached
  BY DEF Init, Unreached
<1>4. ASSUME NEW k \in Slots PROVE PassAccount(k) /\ BlockAccount(k)
  <2>1. Pending(k) = {} /\ Cardinality(Pending(k)) = 0
    BY FS_EmptySet DEF Init, Pending, Uncounted
  <2>2. Numbers(k) /\ Allowance \in Nat
    BY <1>1, NumbersHold, AllowanceStep
  <2>3. /\ Spare(counts[k]) = PerMinute /\ Spare(hits[k]) = PerMinute
        /\ passed[k] = 0 /\ blocked[k] = 0
    BY SpareRange DEF Init
  <2>4. PassAccount(k)
    BY <1>1, <2>1, <2>2, <2>3, AllowanceStep DEF PassAccount, Numbers
  <2>5. BlockAccount(k)
    BY <2>1, <2>2, <2>3 DEF BlockAccount, Numbers
  <2>6. QED
    BY <2>4, <2>5
<1>5. StaleAccount
  BY DEF Init, StaleAccount, Kept
<1>6. ImmortalBound
  <2>1. Immortal = {} /\ Cardinality(Immortal) = 0
    BY FS_EmptySet DEF Init, Immortal
  <2>2. QED
    BY <2>1, ThreadCount DEF Init, ImmortalBound
<1>7. QED
  BY <1>1, <1>2, <1>3, <1>4, <1>5, <1>6 DEF LimitInv

(* LimitInv, the inductive invariant of the limiter, holds in every state. *)
THEOREM LimiterInvariant == Spec => []LimitInv
<1>1. LimitInv /\ [Next]_vars => LimitInv'
  <2> SUFFICES ASSUME LimitInv, [Next]_vars PROVE LimitInv'
    OBVIOUS
  <2>0. /\ TypeOK /\ OnTime /\ Unreached /\ StaleAccount /\ ImmortalBound
        /\ \A k \in Slots : PassAccount(k) /\ BlockAccount(k)
    BY DEF LimitInv
  <2>1. TypeOK'
    BY <2>0, NextTypeOK
  <2>2. OnTime' /\ Unreached' /\ StaleAccount' /\ ImmortalBound'
    BY <2>0, <2>1, StepOnTime, StepUnreached, StepStale, StepImmortal
  <2>3. \A k \in Slots : PassAccount(k)' /\ BlockAccount(k)'
    BY <2>0, <2>1, StepAccounts
  <2>4. QED
    BY <2>1, <2>2, <2>3 DEF LimitInv
<1>2. QED
  BY <1>1, InitLimitInv, PTL DEF Spec

(* ratelimit.allow: what one address gets through in one minute.           *)
THEOREM WindowIsBounded == Spec => []WindowBound
<1>1. LimitInv => WindowBound
  <2> SUFFICES ASSUME LimitInv, NEW k \in Slots
               PROVE  passed[k] <= Allowance + faults
                        + (IF k[2] < minute THEN Cardinality(Threads) ELSE 0)
    BY DEF WindowBound
  <2>1. TypeOK /\ PassAccount(k)
    BY DEF LimitInv
  <2>2. Numbers(k) /\ Allowance \in Nat
    BY <2>1, NumbersHold, AllowanceStep
  <2>3. QED
    BY <2>1, <2>2 DEF PassAccount, Numbers
<1>2. QED
  BY <1>1, LimiterInvariant, PTL

(* ratelimit.allow: only the excess over the limit is refused.             *)
THEOREM OnlyExcessIsBlocked == Spec => []BlocksOnlyExcess
<1>1. LimitInv => BlocksOnlyExcess
  <2> SUFFICES ASSUME LimitInv, NEW k \in Slots, blocked[k] > 0
               PROVE  asked[k] >= PerMinute + blocked[k]
    BY DEF BlocksOnlyExcess
  <2>1. TypeOK /\ BlockAccount(k)
    BY DEF LimitInv
  <2>2. Numbers(k)
    BY <2>1, NumbersHold
  <2>3. QED
    BY <2>1, <2>2 DEF BlockAccount, Numbers
<1>2. QED
  BY <1>1, LimiterInvariant, PTL

(* _mem_allow: the keys of older minutes that the dict keeps are fewer     *)
(* than the threads.                                                       *)
THEOREM StoresStaySmall == Spec => []StaleBound
<1>1. LimitInv => StaleBound
  <2> SUFFICES ASSUME LimitInv, Stale # {}
               PROVE  Cardinality(Stale) < Cardinality(Threads)
    BY DEF StaleBound
  <2>1. Kept # {}
    BY DEF Stale
  <2>2. /\ Cardinality(Stale) \in Nat /\ Cardinality(Overtaken) \in Nat
        /\ Cardinality(Threads) \in Nat
    BY StaleAndOvertaken, SlotSets, ThreadSets, ThreadCount
  <2>3. Cardinality(Stale) + Cardinality(Overtaken) < Cardinality(Threads)
    BY <2>1 DEF LimitInv, StaleAccount
  <2>4. QED
    BY <2>2, <2>3
<1>2. QED
  BY <1>1, LimiterInvariant, PTL

(* _redis_allow: a key without a TTL that nobody is about to give one is   *)
(* owed to an error of Redis or to a thread that a restart killed.         *)
THEOREM KeysSelfClean == Spec => []ImmortalBound
<1>1. LimitInv => ImmortalBound
  BY DEF LimitInv
<1>2. QED
  BY <1>1, LimiterInvariant, PTL

(* The state of the limiter is of its type.                                *)
THEOREM LimiterTypes == Spec => []TypeOK
  BY InitTypeOK, NextTypeOK, PTL DEF Spec
=============================================================================
