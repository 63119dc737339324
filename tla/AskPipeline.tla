---------------------------- MODULE AskPipeline ----------------------------
(***************************************************************************)
(* The /api/ask pipeline of backend/app.py: _prepare_ask, then the         *)
(* generator _ask_events, which ask() drains and ask_stream() sends as     *)
(* Server-Sent Events.  Each request runs on a thread of its own and the   *)
(* threads share the answer cache and the daily budget, with no lock held  *)
(* from one stage to the next.                                             *)
(*                                                                         *)
(* The limiter, the cache's get, over_budget(), record() and the cache's   *)
(* put each ask client() (module RedisClient) and use the store they are   *)
(* told, so a request may miss one cache and fill the other.               *)
(*                                                                         *)
(* A key is an (image, question) pair as answer_cache._key identifies it.  *)
(* What the classifiers say of a key, whether a token is valid, what the   *)
(* rate limiter decides and whether the model service comes up are         *)
(* nondeterministic.  The budget is the one of module Budget: its          *)
(* variables are kept here under the same names, its phases are stages.    *)
(*                                                                         *)
(* Left out: metrics, timings, the wording of a body; ANSWER_CACHE_ENABLED *)
(* and RATELIMIT_ENABLED are on.                                           *)
(***************************************************************************)
EXTENDS RedisClient

CONSTANTS
    Keys,            \* the (image, question) pairs
    VlmDailyBudget,  \* VLM_DAILY_BUDGET
    VlmProvider,     \* VLM_PROVIDER
    LastDay,         \* bound: days 0..LastDay
    MaxBlind         \* bound: a key's spills up to which cache reads may fail

ASSUME PipelineAssumption ==
    /\ VlmDailyBudget \in Nat
    /\ VlmProvider \in {"none", "cloudrun", "runpod"}
    /\ LastDay \in Nat
    /\ MaxBlind \in Nat

VARIABLES
    mock,      \* is_mock(), fixed for the process
    stage,     \* where each thread is in the pipeline
    key,       \* what its request asks
    stream,    \* whether it came by /api/ask/stream
    verdict,   \* stage_results: what each screen has said so far
    cache,     \* the keys with a cached answer, in each store
    today, used, day, answered,  \* as in Budget
    missed,    \* history: the store in which each thread's request missed
    paid,      \* history: VLM answers for a key that missed a store, since it
               \* last left that store
    spilled,   \* history: those that did not end up there, and hits nobody saw
    cleared    \* history: the screens that have let each key through

vars == <<mock, stage, key, stream, verdict, cache, today, used, day, answered,
          missed, paid, spilled, cleared, clientVars>>

budgetVars == <<today, used, day, answered>>
costVars   == <<cache, paid, spilled>>

Day == 0 .. LastDay
Screens == {"guard", "chart_gate"}

(* A thread in "screen", "provision", "infer" or "put" is at a yield: the  *)
(* event before that stage's work has just been handed to the transport.   *)
(* In "raised" an exception has left the generator.  The stages of Asking  *)
(* begin with a call of client(); "put" comes to it after its yield.       *)
Stage == {"idle", "prepare", "ratelimit", "sanitize", "lookup", "screen",
          "check", "provision", "infer", "recording", "put", "raised"}
AtYield == {"screen", "provision", "infer", "put"}
Asking  == {"ratelimit", "lookup", "check", "recording"}

RequestTypes ==
    /\ mock \in BOOLEAN
    /\ stage \in [Threads -> Stage]
    /\ key \in [Threads -> Keys]
    /\ stream \in [Threads -> BOOLEAN]
    /\ verdict \in [Threads -> [Screens -> {"pending", "allow", "block"}]]
    /\ \A t \in Threads : /\ stage[t] \in Asking => conn[t] # "out"
                          /\ stage[t] \notin Asking \cup {"put"} => conn[t] = "out"

BudgetTypes ==
    /\ today \in Day
    /\ used \in [Stores -> [Day -> Nat]]
    /\ day \in [Threads -> Day]
    /\ answered \in [Day -> Nat]

CostTypes ==
    /\ cache \in [Stores -> SUBSET Keys]
    /\ missed \in [Threads -> Stores]
    /\ \A t \in Threads : t \in UsersOf(missed[t])
    /\ paid \in [Stores -> [Keys -> Nat]]
    /\ spilled \in [Stores -> [Keys -> Nat]]
    /\ cleared \in [Keys -> SUBSET Screens]

TypeOK == ClientTypes /\ RequestTypes /\ BudgetTypes /\ CostTypes

Unasked == [s \in Screens |-> "pending"]

Init ==
    /\ ClientInit
    /\ mock \in BOOLEAN
    /\ stage = [t \in Threads |-> "idle"]
    /\ key \in {[t \in Threads |-> k] : k \in Keys}
    /\ stream = [t \in Threads |-> FALSE]
    /\ verdict = [t \in Threads |-> Unasked]
    /\ cache = [s \in Stores |-> {}]
    /\ today = 0
    /\ used = [s \in Stores |-> [d \in Day |-> 0]]
    /\ day = [t \in Threads |-> 0]
    /\ answered = [d \in Day |-> 0]
    /\ missed = Home
    /\ paid = [s \in Stores |-> [k \in Keys |-> 0]]
    /\ spilled = [s \in Stores |-> [k \in Keys |-> 0]]
    /\ cleared = [k \in Keys |-> {}]

(* Thread t goes on to stage s, or is done and its locals vanish.          *)
Goto(t, s) ==
    /\ stage' = [stage EXCEPT ![t] = s]
    /\ At(t, IF s \in Asking THEN "call" ELSE "out")
    /\ UNCHANGED <<stream, verdict, missed>>

Finish(t) ==
    /\ stage' = [stage EXCEPT ![t] = "idle"]
    /\ At(t, "out")
    /\ stream' = [stream EXCEPT ![t] = FALSE]
    /\ verdict' = [verdict EXCEPT ![t] = Unasked]
    /\ missed' = [missed EXCEPT ![t] = Home[t]]

(* A stage that asks for a store goes on once it has been told one.        *)
InStage(t, s) == stage[t] = s /\ (s \in Asking => Told(t))

(* over_budget() and record() return.                                      *)
Leave(t) == day' = [day EXCEPT ![t] = 0]

Spill(s, k) == spilled' = [spilled EXCEPT ![s][k] = @ + 1]

-----------------------------------------------------------------------------
(* A request arrives on a free thread.                                     *)
Arrive(t) ==
    /\ stage[t] = "idle"
    /\ stage' = [stage EXCEPT ![t] = "prepare"]
    /\ \E k \in Keys : key' = [key EXCEPT ![t] = k]
    /\ \E s \in BOOLEAN : stream' = [stream EXCEPT ![t] = s]
    /\ UNCHANGED <<mock, verdict, missed, budgetVars, costVars, cleared, clientVars>>

(* client(), for whichever stage asks.                                     *)
Client(t) ==
    /\ Resolve(t)
    /\ UNCHANGED <<mock, stage, key, stream, verdict, missed, budgetVars, costVars,
                   cleared>>

(* _prepare_ask, ratelimit.allow and sanitize_image each let the request   *)
(* through or end it with one result: 401 or 400, 429, 400.                *)
NextGate(s) ==
    CASE s = "prepare"   -> "ratelimit"
      [] s = "ratelimit" -> "sanitize"
      [] s = "sanitize"  -> IF mock THEN "screen" ELSE "lookup"

Gates == {"prepare", "ratelimit", "sanitize"}

PassGate(t) ==
    /\ \E s \in Gates : InStage(t, s) /\ Goto(t, NextGate(s))
    /\ UNCHANGED <<mock, key, budgetVars, costVars, cleared, linkVars>>

Refuse(t) ==
    /\ \E s \in Gates : InStage(t, s)
    /\ Finish(t)
    /\ UNCHANGED <<mock, key, budgetVars, costVars, cleared, linkVars>>

(* The request goes on to the screens and the store it asked has no part   *)
(* in it from here.                                                        *)
Miss(t) ==
    /\ stage' = [stage EXCEPT ![t] = "screen"]
    /\ At(t, "out")
    /\ missed' = [missed EXCEPT ![t] = StoreOf(t)]
    /\ UNCHANGED <<stream, verdict>>

(* Mutant: the cached answer is fetched but the pipeline runs on.          *)
LookupIgnored(t) ==
    /\ InStage(t, "lookup")
    /\ Miss(t)
    /\ UNCHANGED <<mock, key, budgetVars, costVars, cleared, linkVars>>

(* answer_cache.get: a hit is the result, a miss goes on.                  *)
Lookup(t) ==
    /\ InStage(t, "lookup")
    /\ IF key[t] \in cache[StoreOf(t)] THEN Finish(t) ELSE Miss(t)
    /\ UNCHANGED <<mock, key, budgetVars, costVars, cleared, linkVars>>

(* The Redis read fails and is taken for a miss.                           *)
BlindLookup(t) ==
    /\ stage[t] = "lookup"
    /\ conn[t] = "redis"
    /\ key[t] \in cache["redis"]
    /\ spilled["redis"][key[t]] < MaxBlind
    /\ Miss(t)
    /\ Spill("redis", key[t])
    /\ UNCHANGED <<mock, key, budgetVars, cache, paid, cleared, linkVars>>

(* The guard and the chart gate run side by side; each answers when it is  *)
(* done, in either order.                                                  *)
ScreenDone(t, s) ==
    /\ stage[t] = "screen"
    /\ verdict[t][s] = "pending"
    /\ \/ /\ verdict' = [verdict EXCEPT ![t][s] = "allow"]
          /\ cleared' = [cleared EXCEPT ![key[t]] = @ \cup {s}]
       \/ /\ verdict' = [verdict EXCEPT ![t][s] = "block"]
          /\ UNCHANGED cleared
    /\ UNCHANGED <<mock, stage, key, stream, missed, budgetVars, costVars, clientVars>>

Screened(t) == \A s \in Screens : verdict[t][s] # "pending"
Allowed(t)  == \A s \in Screens : verdict[t][s] = "allow"

(* Mutant: the chart gate's verdict is not looked at.                      *)
BlockOnGuardOnly(t) ==
    /\ stage[t] = "screen"
    /\ Screened(t)
    /\ verdict[t]["guard"] = "block"
    /\ Finish(t)
    /\ UNCHANGED <<mock, key, budgetVars, costVars, cleared, linkVars>>

(* Either screen can end the request with a blocked result.                *)
Block(t) ==
    /\ stage[t] = "screen"
    /\ Screened(t)
    /\ ~ Allowed(t)
    /\ Finish(t)
    /\ UNCHANGED <<mock, key, budgetVars, costVars, cleared, linkVars>>

(* Mock mode goes straight to inference; real mode into over_budget(),     *)
(* which takes the day d and asks for a store, unless the breaker is off.  *)
EnterBudget(t, d) ==
    /\ IF mock \/ VlmDailyBudget = 0
       THEN /\ Goto(t, IF mock THEN "infer" ELSE "provision")
            /\ UNCHANGED day
       ELSE /\ Goto(t, "check")
            /\ day' = [day EXCEPT ![t] = d]
    /\ UNCHANGED <<mock, key, today, used, answered, costVars, cleared, linkVars>>

(* Mutant: the pipeline goes on as soon as neither screen has objected.    *)
ProceedEarly(t) ==
    /\ stage[t] = "screen"
    /\ \A s \in Screens : verdict[t][s] # "block"
    /\ EnterBudget(t, today)

(* Mutant: the day is the local one, which has begun ahead of UTC.         *)
ProceedLocalDay(t) ==
    /\ stage[t] = "screen"
    /\ Allowed(t)
    /\ EnterBudget(t, today + 1)

(* Both screens let the request through.                                   *)
Proceed(t) ==
    /\ stage[t] = "screen"
    /\ Allowed(t)
    /\ EnterBudget(t, today)

(* over_budget() reads the day's counter: 429, or on to the GPU.           *)
FinishCheck(t) ==
    /\ InStage(t, "check")
    /\ IF used[StoreOf(t)][day[t]] >= VlmDailyBudget
       THEN Finish(t)
       ELSE Goto(t, "provision")
    /\ Leave(t)
    /\ UNCHANGED <<mock, key, today, used, answered, costVars, cleared, linkVars>>

(* The read fails: over_budget() answers False.                            *)
FailOpen(t) ==
    /\ stage[t] = "check"
    /\ conn[t] = "redis"
    /\ Fault
    /\ Goto(t, "provision")
    /\ Leave(t)
    /\ UNCHANGED <<mock, key, today, used, answered, costVars, cleared, resolved, connected>>

(* vlm_provider.ensure_running: ready; with RunPod also not ready in time  *)
(* (503), or an exception of its own, which nothing in the pipeline        *)
(* catches.                                                                *)
Provision(t) ==
    /\ stage[t] = "provision"
    /\ \/ Goto(t, "infer")
       \/ VlmProvider = "runpod" /\ (Finish(t) \/ Goto(t, "raised"))
    /\ UNCHANGED <<mock, key, budgetVars, costVars, cleared, linkVars>>

(* Mock mode: the stub answers, and the disclaimer or the canned answer is *)
(* the result; nothing is paid and nothing is cached.                      *)
MockAnswer(t) ==
    /\ stage[t] = "infer"
    /\ mock
    /\ Finish(t)
    /\ UNCHANGED <<mock, key, budgetVars, costVars, cleared, linkVars>>

(* The VLM answers and record() takes the day (nothing if the breaker is   *)
(* off).                                                                   *)
Answer(t) ==
    /\ stage[t] = "infer"
    /\ ~ mock
    /\ paid' = [paid EXCEPT ![missed[t]][key[t]] = @ + 1]
    /\ IF VlmDailyBudget = 0
       THEN /\ Goto(t, "put")
            /\ UNCHANGED <<day, answered>>
       ELSE /\ Goto(t, "recording")
            /\ day' = [day EXCEPT ![t] = today]
            /\ answered' = [answered EXCEPT ![today] = @ + 1]
    /\ UNCHANGED <<mock, key, today, used, cache, spilled, cleared, linkVars>>

(* run_inference raises (a timeout or an error of the VLM service).        *)
InferenceRaises(t) ==
    /\ stage[t] = "infer"
    /\ ~ mock
    /\ Goto(t, "raised")
    /\ UNCHANGED <<mock, key, budgetVars, costVars, cleared, linkVars>>

(* Flask answers 500 with no body of ours; a stream just breaks off.       *)
GiveUp(t) ==
    /\ stage[t] = "raised"
    /\ Finish(t)
    /\ UNCHANGED <<mock, key, budgetVars, costVars, cleared, linkVars>>

(* Mutant: an INCR that seems to time out is sent again.                   *)
FinishRecordRetried(t) ==
    /\ InStage(t, "recording")
    /\ used' = [used EXCEPT ![StoreOf(t)][day[t]] = @ + 1]
    /\ \/ Goto(t, "put") /\ Leave(t)
       \/ Goto(t, "recording") /\ UNCHANGED day
    /\ UNCHANGED <<mock, key, today, answered, costVars, cleared, linkVars>>

(* Mutant: the counter of the current day, not of the day that was taken.  *)
FinishRecordToday(t) ==
    /\ InStage(t, "recording")
    /\ used' = [used EXCEPT ![StoreOf(t)][today] = @ + 1]
    /\ Goto(t, "put")
    /\ Leave(t)
    /\ UNCHANGED <<mock, key, today, answered, costVars, cleared, linkVars>>

(* record() increments the day it took.                                    *)
FinishRecord(t) ==
    /\ InStage(t, "recording")
    /\ used' = [used EXCEPT ![StoreOf(t)][day[t]] = @ + 1]
    /\ Goto(t, "put")
    /\ Leave(t)
    /\ UNCHANGED <<mock, key, today, answered, costVars, cleared, linkVars>>

(* The INCR fails and the error is swallowed.                              *)
LoseRecord(t) ==
    /\ stage[t] = "recording"
    /\ conn[t] = "redis"
    /\ Fault
    /\ Goto(t, "put")
    /\ Leave(t)
    /\ UNCHANGED <<mock, key, today, used, answered, costVars, cleared, resolved, connected>>

(* answer_cache.put asks for a store, not always the one that was looked   *)
(* in.                                                                     *)
StartPut(t) ==
    /\ stage[t] = "put"
    /\ Ask(t)
    /\ UNCHANGED <<mock, stage, key, stream, verdict, missed, budgetVars, costVars,
                   cleared, linkVars>>

(* It stores the answer, which is then the result.                         *)
Put(t) ==
    /\ stage[t] = "put"
    /\ Told(t)
    /\ cache' = [cache EXCEPT ![StoreOf(t)] = @ \cup {key[t]}]
    /\ IF StoreOf(t) = missed[t] THEN UNCHANGED spilled
                                 ELSE Spill(missed[t], key[t])
    /\ Finish(t)
    /\ UNCHANGED <<mock, key, budgetVars, paid, cleared, linkVars>>

(* The put fails, which is swallowed; the answer still goes out.           *)
PutFails(t) ==
    /\ stage[t] = "put"
    /\ conn[t] = "redis"
    /\ Spill(missed[t], key[t])
    /\ Finish(t)
    /\ UNCHANGED <<mock, key, budgetVars, cache, paid, cleared, linkVars>>

(* The client of a stream hangs up: the generator is closed at the yield   *)
(* where it waits.  Before answer_cache.put, a paid answer is lost.        *)
Disconnect(t) ==
    /\ stream[t]
    /\ stage[t] \in AtYield
    /\ conn[t] = "out"
    /\ Finish(t)
    /\ IF stage[t] = "put" THEN Spill(missed[t], key[t]) ELSE UNCHANGED spilled
    /\ UNCHANGED <<mock, key, budgetVars, cache, paid, cleared, linkVars>>

-----------------------------------------------------------------------------
(* The TTL runs out, or the LRU evicts: the history of the key starts anew.*)
Forget(s, k) ==
    /\ k \in cache[s]
    /\ cache' = [cache EXCEPT ![s] = @ \ {k}]
    /\ paid' = [paid EXCEPT ![s][k] = 0]
    /\ spilled' = [spilled EXCEPT ![s][k] = 0]
    /\ UNCHANGED <<mock, stage, key, stream, verdict, missed, budgetVars, cleared,
                   clientVars>>

(* Midnight UTC.                                                           *)
NextDay ==
    /\ today < LastDay
    /\ today' = today + 1
    /\ UNCHANGED <<mock, stage, key, stream, verdict, missed, used, day, answered,
                   costVars, cleared, clientVars>>

(* The threads that missed k in a store and hold a paid answer to it, which*)
(* is not in the cache yet.                                                *)
HoldStages == {"recording", "put"}

Holding(s, k) ==
    {t \in Threads : missed[t] = s /\ key[t] = k /\ stage[t] \in HoldStages}

(* Instance i dies and comes back: its requests are gone and its dicts are *)
(* empty; what Redis holds survives.                                       *)
Restart(i) ==
    /\ Reboot(i)
    /\ stage' = [t \in Threads |-> IF Home[t] = i THEN "idle" ELSE stage[t]]
    /\ stream' = [t \in Threads |-> Home[t] # i /\ stream[t]]
    /\ verdict' = [t \in Threads |-> IF Home[t] = i THEN Unasked ELSE verdict[t]]
    /\ missed' = [t \in Threads |-> IF Home[t] = i THEN i ELSE missed[t]]
    /\ day' = [t \in Threads |-> IF Home[t] = i THEN 0 ELSE day[t]]
    /\ used' = [used EXCEPT ![i] = [d \in Day |-> 0]]
    /\ cache' = [cache EXCEPT ![i] = {}]
    /\ paid' = [paid EXCEPT ![i] = [k \in Keys |-> 0]]
    /\ spilled' =
          [s \in Stores |-> [k \in Keys |->
              IF s = i THEN 0
              ELSE spilled[s][k] + Cardinality(Holding(s, k) \cap UsersOf(i))]]
    /\ UNCHANGED <<mock, key, today, answered, cleared>>

(* What the server itself does for a request, once it has arrived.         *)
Serve(t) ==
    \/ Client(t)
    \/ PassGate(t)
    \/ Refuse(t)
    \/ Lookup(t)
    \/ BlindLookup(t)
    \/ \E s \in Screens : ScreenDone(t, s)
    \/ Block(t)
    \/ Proceed(t)
    \/ FinishCheck(t)
    \/ FailOpen(t)
    \/ Provision(t)
    \/ MockAnswer(t)
    \/ Answer(t)
    \/ InferenceRaises(t)
    \/ GiveUp(t)
    \/ FinishRecord(t)
    \/ LoseRecord(t)
    \/ StartPut(t)
    \/ Put(t)
    \/ PutFails(t)

Next ==
    \/ \E t \in Threads : Arrive(t) \/ Serve(t) \/ Disconnect(t)
    \/ \E s \in Stores, k \in Keys : Forget(s, k)
    \/ NextDay
    \/ \E i \in Instances : Restart(i)

Spec == Init /\ [][Next]_vars

(* Every call a stage makes has a timeout (the Redis socket, the guard's   *)
(* HTTP client, ensure_running, the VLM request), so a running stage ends. *)
FairSpec == Spec /\ \A t \in Threads : WF_vars(Serve(t))

-----------------------------------------------------------------------------
(* The threads whose request for k missed in a store and may still pay.    *)
MissStages == {"screen", "check", "provision", "infer"}

Missed(s, k) ==
    {t \in Threads : missed[t] = s /\ key[t] = k /\ stage[t] \in MissStages}

(* A stampede is bounded: since a key last left a store, the requests that *)
(* missed it there have cost no more VLM answers than the store has        *)
(* threads, plus one for each answer that a disconnect, a crash, a failed  *)
(* put or a put into the other store kept out of it, and each read that    *)
(* failed to see it (app.py:264-271 against app.py:352-365).               *)
StampedeBound ==
    \A s \in Stores, k \in Keys :
        paid[s][k] <= Cardinality(UsersOf(s)) + spilled[s][k]

(* The inductive invariant behind it.  Of a cached key, a thread that has  *)
(* missed it already may pay once more; of any other key, every payment    *)
(* was spilled or is still held.  Mock mode never comes near the cache.    *)
KeyCost(s, k) ==
    IF k \in cache[s]
    THEN paid[s][k] + Cardinality(Missed(s, k))
            <= Cardinality(UsersOf(s)) + spilled[s][k]
    ELSE paid[s][k] <= spilled[s][k] + Cardinality(Holding(s, k))

MockIsFree ==
    mock => /\ \A s \in Stores : cache[s] = {}
            /\ \A t \in Threads :
                  stage[t] \notin {"lookup", "check", "provision", "recording",
                                  "put"}

CostInv ==
    TypeOK /\ MockIsFree /\ \A s \in Stores, k \in Keys : KeyCost(s, k)

(* Nothing is cached, paid for or served from the cache that the guard and *)
(* the chart gate have not each let through, and a request past the        *)
(* screens has its own two verdicts: the order in which the two futures    *)
(* complete does not matter (app.py:280-318).                              *)
PastScreens == {"check", "provision", "infer", "recording", "put"}

ScreenedFirst ==
    /\ \A s \in Stores : \A k \in cache[s] : cleared[k] = Screens
    /\ \A t \in Threads :
          stage[t] \in PastScreens => Allowed(t) /\ cleared[key[t]] = Screens

(* The pipeline's use of the budget is the protocol of module Budget, so   *)
(* that what Budget promises holds of it: a request is admitted from the   *)
(* check until it is recorded or dropped.                                  *)
PhaseOf(s) ==
    CASE s = "check"                             -> "checking"
      [] s \in {"provision", "infer"} /\ ~ mock -> "admitted"
      [] s = "recording"                         -> "recording"
      [] OTHER                                   -> "idle"

BudgetPc == [t \in Threads |-> PhaseOf(stage[t])]

Breaker == INSTANCE Budget WITH pc <- BudgetPc

BudgetProtocol == Breaker!Spec

(* A request that has arrived ends, whatever the classifiers, the model    *)
(* service and the stores do.                                              *)
EveryRequestEnds ==
    \A t \in Threads : stage[t] # "idle" ~> stage[t] = "idle"

(* What _ask_events says of itself (app.py:234-238) and api.js:49-50 relies*)
(* on: unless the client hangs up or the process dies, a request ends with *)
(* a result event.                                                         *)
OneResult == \A t \in Threads : stage[t] # "raised"

=============================================================================
