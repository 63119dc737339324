------------------------------- MODULE Budget -------------------------------
(***************************************************************************)
(* The daily VLM budget breaker, backend/budget.py, as the request threads *)
(* of backend/app.py use it: over_budget() before the GPU is touched and   *)
(* record() after an answer came back, with no lock held in between.       *)
(*                                                                         *)
(* Each of the two calls first computes the UTC day, then asks client()    *)
(* which store to use (module RedisClient), and then goes to the counter,  *)
(* so midnight and another thread's ping may fall between these steps, and *)
(* a request may be checked against one counter and recorded in another.   *)
(* A counter is a Redis key per day (INCR is atomic; a call may fail, and  *)
(* a failure is swallowed) or the dict of an instance, which a restart     *)
(* empties.  The other consumers of the client are here only in that they  *)
(* may be the ones who resolve it.                                         *)
(*                                                                         *)
(* Left out: the 48 h TTL of a Redis key (a key is last read and written   *)
(* on the day after its first INCR at the latest).                         *)
(***************************************************************************)
EXTENDS RedisClient

CONSTANTS
    VlmDailyBudget,  \* VLM_DAILY_BUDGET; 0 turns the breaker off
    LastDay          \* bound: days 0..LastDay are modelled

ASSUME BudgetAssumption == VlmDailyBudget \in Nat /\ LastDay \in Nat

VARIABLES
    today,     \* the current UTC day
    used,      \* the counters of each day: the Redis keys, and _counts
    pc,        \* where each thread is with respect to the breaker
    day,       \* the local variable `day` of each thread, 0 out of both calls
    answered   \* history: real VLM answers that reached record(), by its day

vars == <<today, used, pc, day, answered, clientVars>>

Day == 0 .. LastDay

(* idle: not between over_budget() and record();                           *)
(* checking: in over_budget(), day computed, counter not read yet;         *)
(* admitted: over_budget() said no, the VLM may be called;                 *)
(* recording: in record(), day computed, counter not incremented yet.      *)
Phase == {"idle", "checking", "admitted", "recording"}

TypeOK ==
    /\ ClientTypes
    /\ today \in Day
    /\ used \in [Stores -> [Day -> Nat]]
    /\ pc \in [Threads -> Phase]
    /\ day \in [Threads -> Day]
    /\ answered \in [Day -> Nat]
    /\ \A t \in Threads :
          /\ pc[t] \in {"checking", "recording"} => conn[t] # "out"
          /\ pc[t] = "admitted" => conn[t] = "out"

Init ==
    /\ ClientInit
    /\ today = 0
    /\ used = [s \in Stores |-> [d \in Day |-> 0]]
    /\ pc = [t \in Threads |-> "idle"]
    /\ day = [t \in Threads |-> 0]
    /\ answered = [d \in Day |-> 0]

Goto(t, phase) == pc' = [pc EXCEPT ![t] = phase]

(* Each of the two calls takes its local variable with it as it returns.   *)
Leave(t) == day' = [day EXCEPT ![t] = 0]

-----------------------------------------------------------------------------
(* Mutant: the day is the local one, which has begun ahead of UTC.         *)
StartCheckLocalDay(t) ==
    /\ pc[t] = "idle"
    /\ VlmDailyBudget > 0
    /\ Goto(t, "checking")
    /\ day' = [day EXCEPT ![t] = today + 1]
    /\ Ask(t)
    /\ UNCHANGED <<today, used, answered, linkVars>>

(* over_budget(), first half: the day is taken, then the store asked for.  *)
StartCheck(t) ==
    /\ pc[t] = "idle"
    /\ VlmDailyBudget > 0
    /\ Goto(t, "checking")
    /\ day' = [day EXCEPT ![t] = today]
    /\ Ask(t)
    /\ UNCHANGED <<today, used, answered, linkVars>>

(* The breaker is off: over_budget() says no without asking anything.      *)
SkipCheck(t) ==
    /\ pc[t] = "idle"
    /\ VlmDailyBudget = 0
    /\ conn[t] = "out"
    /\ Goto(t, "admitted")
    /\ UNCHANGED <<today, used, day, answered, clientVars>>

(* over_budget() is called.                                                *)
OverBudget(t) == IF VlmDailyBudget = 0 THEN SkipCheck(t) ELSE StartCheck(t)

(* Mutant: `used > _BUDGET` for `used >= _BUDGET`.                          *)
FinishCheckOffByOne(t) ==
    /\ pc[t] = "checking"
    /\ Done(t)
    /\ Goto(t, IF used[StoreOf(t)][day[t]] > VlmDailyBudget THEN "idle"
                                                            ELSE "admitted")
    /\ Leave(t)
    /\ UNCHANGED <<today, used, answered, linkVars>>

(* over_budget(), second half: the request goes on only below the budget.  *)
FinishCheck(t) ==
    /\ pc[t] = "checking"
    /\ Done(t)
    /\ Goto(t, IF used[StoreOf(t)][day[t]] >= VlmDailyBudget THEN "idle"
                                                             ELSE "admitted")
    /\ Leave(t)
    /\ UNCHANGED <<today, used, answered, linkVars>>

(* The Redis read fails: over_budget() fails open.                         *)
FailOpen(t) ==
    /\ pc[t] = "checking"
    /\ conn[t] = "redis"
    /\ Done(t)
    /\ Fault
    /\ Goto(t, "admitted")
    /\ Leave(t)
    /\ UNCHANGED <<today, used, answered, resolved, connected>>

(* An admitted request ends without a record: the model service is not     *)
(* ready, the call raises, the client has gone, or the breaker is off.     *)
Abandon(t) ==
    /\ pc[t] = "admitted"
    /\ Goto(t, "idle")
    /\ UNCHANGED <<today, used, day, answered, clientVars>>

(* Mutant: the request is counted as it is admitted, not once answered.    *)
StartRecordEarly(t) ==
    /\ pc[t] = "admitted"
    /\ Goto(t, "recording")
    /\ day' = [day EXCEPT ![t] = today]
    /\ Ask(t)
    /\ UNCHANGED <<today, used, answered, linkVars>>

(* The VLM has answered and record() takes the day (a no-op when the       *)
(* breaker is off), then asks for the store anew.                          *)
StartRecord(t) ==
    /\ pc[t] = "admitted"
    /\ VlmDailyBudget > 0
    /\ Goto(t, "recording")
    /\ day' = [day EXCEPT ![t] = today]
    /\ Ask(t)
    /\ answered' = [answered EXCEPT ![today] = @ + 1]
    /\ UNCHANGED <<today, used, linkVars>>

(* record() increments: INCR, or the dict under the lock.                  *)
FinishRecord(t) ==
    /\ pc[t] = "recording"
    /\ Done(t)
    /\ used' = [used EXCEPT ![StoreOf(t)][day[t]] = @ + 1]
    /\ Goto(t, "idle")
    /\ Leave(t)
    /\ UNCHANGED <<today, answered, linkVars>>

(* The INCR fails before the server applies it; the error is swallowed.    *)
(* (One that fails after it was applied is FinishRecord.)                  *)
LoseRecord(t) ==
    /\ pc[t] = "recording"
    /\ conn[t] = "redis"
    /\ Done(t)
    /\ Fault
    /\ Goto(t, "idle")
    /\ Leave(t)
    /\ UNCHANGED <<today, used, answered, resolved, connected>>

(* The limiter or the cache asks for the store, and is done with it.       *)
Consult(t) ==
    /\ pc[t] = "idle"
    /\ Ask(t) \/ Done(t)
    /\ UNCHANGED <<today, used, pc, day, answered, linkVars>>

(* client() itself, for whichever consumer.                                *)
Client(t) ==
    /\ Resolve(t)
    /\ UNCHANGED <<today, used, pc, day, answered>>

(* Midnight UTC.                                                           *)
NextDay ==
    /\ today < LastDay
    /\ today' = today + 1
    /\ UNCHANGED <<used, pc, day, answered, clientVars>>

(* Instance i dies and comes back: the requests of its threads are gone    *)
(* and its dict is empty; the Redis keys survive.                          *)
Restart(i) ==
    /\ Reboot(i)
    /\ pc' = [t \in Threads |-> IF Home[t] = i THEN "idle" ELSE pc[t]]
    /\ day' = [t \in Threads |-> IF Home[t] = i THEN 0 ELSE day[t]]
    /\ used' = [used EXCEPT ![i] = [d \in Day |-> 0]]
    /\ UNCHANGED <<today, answered>>

ThreadStep(t) ==
    \/ OverBudget(t)
    \/ FinishCheck(t)
    \/ FailOpen(t)
    \/ Abandon(t)
    \/ StartRecord(t)
    \/ FinishRecord(t)
    \/ LoseRecord(t)
    \/ Consult(t)
    \/ Client(t)

Next ==
    \/ \E t \in Threads : ThreadStep(t)
    \/ NextDay
    \/ \E i \in Instances : Restart(i)

Spec == Init /\ [][Next]_vars

-----------------------------------------------------------------------------
(* What one counter may hold: the budget and one more for each user of its *)
(* store but the one that took the last free slot, since all may be between*)
(* the check and the increment; as many users again for each restart or    *)
(* failed ping, after which all threads of an instance may be checked      *)
(* elsewhere once more; and one for each failed call.  The dict of an      *)
(* instance that has a Redis is used while one of its threads pings, so    *)
(* that one does not count.                                                *)
Pinger(s) == IF RedisUrl /\ s # "redis" /\ resets = 0 THEN 1 ELSE 0

Allowance(s) ==
    VlmDailyBudget + Cardinality(UsersOf(s)) * (1 + resets) + faults - Pinger(s)

(* No counter of a day passes the budget by more than that: the race of    *)
(* app.py:323 against app.py:351 is bounded, midnight and a change of      *)
(* store between the two included.                                         *)
Overshoot ==
    VlmDailyBudget > 0 =>
        \A s \in Stores, d \in Day : used[s][d] < Allowance(s)

(* The threads whose answer belongs to day d but is in no counter yet, and *)
(* the store each is bound for: the one it was told, or else the one that  *)
(* a working client() will name.                                           *)
Recording(d) == {t \in Threads : pc[t] = "recording" /\ day[t] = d}

Target(t) == IF Told(t) \/ ~ RedisUrl THEN StoreOf(t) ELSE "redis"

BoundFor(s, d) == {t \in Recording(d) : Target(t) = s}

(* The answers of day d that the stores account for, counted or on their   *)
(* way, numbered within each store.                                        *)
Charge(s, d) == used[s][d] + Cardinality(BoundFor(s, d))

Accounted(d) == UNION {{s} \X (1 .. Charge(s, d)) : s \in Stores}

(* All the counters of a day together, with what is on its way to them,    *)
(* never exceed the answers the VLM gave that day: blocked, cached, refused*)
(* and failed requests do not eat the budget (budget.py:9-10), and no      *)
(* answer is counted twice, though two stores may share the count.         *)
NeverOvercounts == \A d \in Day : Cardinality(Accounted(d)) <= answered[d]

(* When no call and no ping fails and nothing restarts, the answers of a   *)
(* day, counted or not yet counted, are no more than the stores have slots:*)
(* below budget plus threads in Redis, and what the dict of each instance  *)
(* takes besides while that instance's first ping is under way.            *)
Slots == UNION {{s} \X (1 .. Allowance(s) - 1) : s \in Stores}

FaultFreeAnswers ==
    VlmDailyBudget > 0 /\ faults = 0 /\ resets = 0 =>
        \A d \in Day : answered[d] <= Cardinality(Slots)

-----------------------------------------------------------------------------
(* The strengthening that makes these bounds inductive.                    *)

(* The threads that were told s and will now raise its counter of day d.   *)
Settled(s, d) ==
    {t \in Recording(d) : Told(t) /\ StoreOf(t) = s}

Undecided(d) == {t \in Recording(d) : ~ Told(t)}

(* The threads that may still be sent to raise the counter that s has for  *)
(* day d without reading it first: those that are admitted, those that are *)
(* being checked against another counter, and those that have not been     *)
(* told a store yet.  Redis may also be raised by any thread of an instance*)
(* that is not connected to it yet; a dict, only by those of an instance   *)
(* that is not connected, and not by one that will have pinged first.      *)
Elsewhere(t, s, d) ==
    \/ pc[t] = "admitted"
    \/ pc[t] = "checking" /\ (day[t] < d \/ (Told(t) /\ StoreOf(t) # s))

Uncommitted(s, d) ==
    Undecided(d) \cup
        {t \in Threads :
            /\ d = today
            /\ Elsewhere(t, s, d) \/ (s = "redis" /\ Home[t] \notin connected)}

Offline(t) ==
    IF RedisUrl
    THEN /\ Home[t] \in resolved \ connected
         /\ conn[t] \notin {"claiming", "pinging"}
    ELSE TRUE

Loose(s, d) ==
    IF s = "redis"
    THEN Uncommitted(s, d)
    ELSE {t \in Uncommitted(s, d) : Home[t] = s /\ Offline(t)}

(* Counting these in, the bound is kept by every step.                     *)
CounterBound(s, d) ==
    used[s][d] + Cardinality(Settled(s, d)) + Cardinality(Loose(s, d))
        < Allowance(s)

UnsettledBound ==
    VlmDailyBudget > 0 => \A s \in Stores, d \in Day : CounterBound(s, d)

(* Days to come are blank, and no thread has taken one.                    *)
FutureIsBlank ==
    \A d \in Day : d > today => /\ \A s \in Stores : used[s][d] = 0
                                /\ answered[d] = 0

DaysTaken == \A t \in Threads : day[t] <= today

(* An instance that has not resolved its client has not used its dict, and *)
(* none of its threads has got past client(); only such a thread finds     *)
(* _resolved false.                                                        *)
NotYetAsked(t) == pc[t] \in {"idle", "checking"} \/ VlmDailyBudget = 0

Fresh(i) ==
    /\ \A d \in Day : used[i][d] = 0
    /\ \A t \in UsersOf(i) : conn[t] \in {"out", "call", "claiming"}
                            /\ NotYetAsked(t)

Unresolved ==
    /\ \A i \in Instances \ resolved : Fresh(i)
    /\ \A t \in Threads : conn[t] \in {"claiming", "pinging"} => NotYetAsked(t)

(* Until a ping fails or an instance restarts, who was told Redis is still *)
(* connected, and an instance without a client has a thread that pings.    *)
Connecting ==
    resets = 0 =>
        /\ \A t \in Threads : conn[t] = "redis" => Home[t] \in connected
        /\ RedisUrl => \A i \in resolved \ connected :
                          \E t \in UsersOf(i) : conn[t] = "pinging"

(* Without faults every answer is accounted for.                           *)
EveryAnswerCounted ==
    faults = 0 /\ resets = 0 =>
        \A d \in Day : answered[d] = Cardinality(Accounted(d))

IInv ==
    /\ TypeOK
    /\ UnsettledBound
    /\ FutureIsBlank
    /\ DaysTaken
    /\ Unresolved
    /\ Connecting
    /\ NeverOvercounts
    /\ EveryAnswerCounted

=============================================================================
