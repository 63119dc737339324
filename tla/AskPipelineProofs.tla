------------------------- MODULE AskPipelineProofs -------------------------
(***************************************************************************)
(* What AskPipeline claims, for every number of threads, instances and     *)
(* keys, with and without a Redis, and every bound: its types, the bound   *)
(* on a stampede, that it follows the protocol of module Budget, and that  *)
(* nothing gets past the screens unseen.                                   *)
(***************************************************************************)
EXTENDS AskPipeline, FiniteSetTheorems, TLAPS

(* One entry of a table of tables of numbers is raised by one.             *)
LEMMA Bump ==
    ASSUME NEW X, NEW Y, NEW f \in [X -> [Y -> Nat]], NEW x \in X, NEW y \in Y,
           NEW g, g = [f EXCEPT ![x][y] = @ + 1]
    PROVE  /\ g \in [X -> [Y -> Nat]]
           /\ \A r \in X, j \in Y :
                 g[r][j] = IF r = x /\ j = y THEN f[r][j] + 1 ELSE f[r][j]
<1>1. /\ f[x] \in [Y -> Nat]
      /\ f[x][y] \in Nat
  OBVIOUS
<1> DEFINE h == [f[x] EXCEPT ![y] = @ + 1]
<1>2. /\ h \in [Y -> Nat]
      /\ \A j \in Y : h[j] = IF j = y THEN f[x][j] + 1 ELSE f[x][j]
  BY <1>1
<1>3. g = [f EXCEPT ![x] = h]
  OBVIOUS
<1> HIDE DEF h
<1>4. /\ g \in [X -> [Y -> Nat]]
      /\ \A r \in X : g[r] = IF r = x THEN h ELSE f[r]
  BY <1>2, <1>3
<1>5. QED
  BY <1>2, <1>4

(* A thread uses its own dict, or Redis if there is one.                   *)
LEMMA StoreIsOwn ==
    ASSUME ClientTypes, NEW t \in Threads
    PROVE  /\ StoreOf(t) \in Stores /\ t \in UsersOf(StoreOf(t))
           /\ Home[t] \in Stores /\ t \in UsersOf(Home[t])
BY ClientAssumption DEF ClientTypes, StoreOf, Stores, UsersOf

-----------------------------------------------------------------------------
(* The types of the client's variables, kept by each of its steps.         *)
LEMMA ResolveTypes ==
    ASSUME ClientTypes, NEW t \in Threads, Resolve(t)
    PROVE  /\ ClientTypes'
           /\ \A u \in Threads : conn'[u] = "out" <=> conn[u] = "out"
<1> USE ClientAssumption DEF ClientTypes, At, linkVars
<1>1. CASE Return(t)
  BY <1>1 DEF Return
<1>2. CASE FindUnresolved(t)
  BY <1>2 DEF FindUnresolved
<1>3. CASE Claim(t)
  BY <1>3 DEF Claim
<1>4. CASE PingAnswers(t)
  BY <1>4 DEF PingAnswers
<1>5. CASE PingFails(t)
  BY <1>5 DEF PingFails, MayFail
<1>6. QED
  BY <1>1, <1>2, <1>3, <1>4, <1>5 DEF Resolve

LEMMA RebootTypes ==
    ASSUME ClientTypes, NEW i \in Instances, Reboot(i)
    PROVE  ClientTypes'
BY ClientAssumption DEF ClientTypes, Reboot, MayFail

(* The stores in which the requests missed, and the tables of what they    *)
(* cost.                                                                   *)
MissedTypes ==
    /\ missed \in [Threads -> Stores]
    /\ \A t \in Threads : t \in UsersOf(missed[t])

Tables ==
    /\ cache \in [Stores -> SUBSET Keys]
    /\ paid \in [Stores -> [Keys -> Nat]]
    /\ spilled \in [Stores -> [Keys -> Nat]]
    /\ cleared \in [Keys -> SUBSET Screens]

LEMMA CostTypesSplit == CostTypes <=> MissedTypes /\ Tables
BY DEF CostTypes, MissedTypes, Tables

LEMMA CostTypesSplitNext == CostTypes' <=> MissedTypes' /\ Tables'
BY DEF CostTypes, MissedTypes, Tables

(* What a step does to the thread whose request it serves: it goes on to a *)
(* stage, has missed, or is done.                                          *)
Moved(t) ==
    /\ (\E s \in Stage : Goto(t, s)) \/ Miss(t) \/ Finish(t)
    /\ UNCHANGED <<mock, key, resolved, connected>>
    /\ UNCHANGED <<faults, resets>> \/ Fault

Lands(t, s, c, v, b, m) ==
    /\ stage' = [stage EXCEPT ![t] = s]
    /\ conn' = [conn EXCEPT ![t] = c]
    /\ s \in Asking <=> c = "call"
    /\ verdict' = [verdict EXCEPT ![t] = v]
    /\ stream' = [stream EXCEPT ![t] = b]
    /\ missed' = [missed EXCEPT ![t] = m]

LEMMA MovedTypes ==
    ASSUME ClientTypes, RequestTypes, MissedTypes, NEW t \in Threads, Moved(t)
    PROVE  ClientTypes' /\ RequestTypes' /\ MissedTypes'
<1>1. PICK s \in Stage, c \in {"call", "out"}, v \in {verdict[t], Unasked},
           b \in BOOLEAN, m \in {missed[t], Home[t], StoreOf(t)} :
         Lands(t, s, c, v, b, m)
  <2>0. /\ stream = [stream EXCEPT ![t] = stream[t]] /\ stream[t] \in BOOLEAN
        /\ verdict = [verdict EXCEPT ![t] = verdict[t]]
        /\ missed = [missed EXCEPT ![t] = missed[t]]
    BY DEF RequestTypes, MissedTypes
  <2>1. ASSUME NEW s \in Stage, Goto(t, s)
        PROVE  \E c \in {"call", "out"} :
                  Lands(t, s, c, verdict[t], stream[t], missed[t])
    BY <2>0, <2>1 DEF Goto, At, Lands
  <2>2. CASE Miss(t)
    <3>1. Lands(t, "screen", "out", verdict[t], stream[t], StoreOf(t))
      BY <2>0, <2>2 DEF Miss, At, Asking, Lands
    <3>2. QED
      BY <2>0, <3>1 DEF Stage
  <2>3. CASE Finish(t)
    <3>1. Lands(t, "idle", "out", Unasked, FALSE, Home[t])
      BY <2>3 DEF Finish, At, Asking, Lands
    <3>2. QED
      BY <3>1 DEF Stage
  <2>4. QED
    BY <2>0, <2>1, <2>2, <2>3 DEF Moved
<1>2. ClientTypes'
  <2>1. conn' \in [Threads -> {"out", "call", "claiming", "pinging", "redis",
                               "memory"}]
    BY <1>1 DEF ClientTypes, Lands
  <2>2. \A u \in Threads : conn'[u] \in {"pinging", "redis"} => conn'[u] = conn[u]
    BY <1>1 DEF ClientTypes, Lands
  <2>3. faults' \in 0 .. MaxFaults /\ resets' \in 0 .. MaxFaults
    BY ClientAssumption DEF Moved, Fault, MayFail, ClientTypes
  <2>4. QED
    BY <2>1, <2>2, <2>3 DEF Moved, ClientTypes
<1>3. RequestTypes'
  <2>1. v \in [Screens -> {"pending", "allow", "block"}]
    BY <1>1 DEF Unasked, RequestTypes
  <2>2. /\ stage' \in [Threads -> Stage]
        /\ stream' \in [Threads -> BOOLEAN]
        /\ verdict' \in [Threads -> [Screens -> {"pending", "allow", "block"}]]
    BY <1>1, <2>1 DEF RequestTypes, Lands
  <2>3. ASSUME NEW u \in Threads
        PROVE  /\ stage'[u] \in Asking => conn'[u] # "out"
               /\ stage'[u] \notin Asking \cup {"put"} => conn'[u] = "out"
    BY <1>1 DEF RequestTypes, ClientTypes, Lands
  <2>4. QED
    BY <2>2, <2>3 DEF RequestTypes, Moved
<1>4. MissedTypes'
  <2>1. m \in Stores /\ t \in UsersOf(m)
    BY <1>1, StoreIsOwn DEF MissedTypes
  <2>2. missed' \in [Threads -> Stores]
    BY <1>1, <2>1 DEF MissedTypes, Lands
  <2>3. \A u \in Threads : u \in UsersOf(missed'[u])
    BY <1>1, <2>1 DEF MissedTypes, Lands
  <2>4. QED
    BY <2>2, <2>3 DEF MissedTypes, UsersOf
<1>5. QED
  BY <1>2, <1>3, <1>4

(* The steps that move a thread and touch neither the budget nor the cost. *)
Quiet(t) ==
    \/ PassGate(t) \/ Refuse(t) \/ Lookup(t) \/ Block(t) \/ Provision(t)
    \/ MockAnswer(t) \/ InferenceRaises(t) \/ GiveUp(t)

LEMMA QuietMoves ==
    ASSUME NEW t \in Threads, Quiet(t)
    PROVE  /\ Moved(t)
           /\ UNCHANGED <<mock, key, budgetVars, costVars, cleared, linkVars>>
<1> USE DEF Moved, linkVars, Stage
<1>1. CASE PassGate(t)
  BY <1>1 DEF PassGate, Gates, NextGate
<1>2. CASE Refuse(t)
  BY <1>2 DEF Refuse
<1>3. CASE Lookup(t)
  BY <1>3 DEF Lookup
<1>4. CASE Block(t)
  BY <1>4 DEF Block
<1>5. CASE Provision(t)
  BY <1>5 DEF Provision
<1>6. CASE MockAnswer(t)
  BY <1>6 DEF MockAnswer
<1>7. CASE InferenceRaises(t)
  BY <1>7 DEF InferenceRaises
<1>8. CASE GiveUp(t)
  BY <1>8 DEF GiveUp
<1>9. QED
  BY <1>1, <1>2, <1>3, <1>4, <1>5, <1>6, <1>7, <1>8 DEF Quiet

(* The initial state has its types.                                        *)
LEMMA InitTypeOK == Init => TypeOK
<1> SUFFICES ASSUME Init PROVE TypeOK
  OBVIOUS
<1>1. ClientTypes
  BY ClientAssumption DEF Init, ClientInit, ClientTypes
<1>2. RequestTypes
  BY DEF Init, ClientInit, RequestTypes, Stage, Unasked, Asking, Screens
<1>3. BudgetTypes
  BY PipelineAssumption DEF Init, BudgetTypes, Day
<1>4. CostTypes
  BY ClientAssumption DEF Init, CostTypes, Stores, UsersOf
<1>5. QED
  BY <1>1, <1>2, <1>3, <1>4 DEF TypeOK

(* A day that has been taken, or is forgotten, is a day.                   *)
LEMMA DayTaken ==
    ASSUME BudgetTypes, NEW t \in Threads, NEW d \in Day \cup {0},
           day' = [day EXCEPT ![t] = d], UNCHANGED <<today, used, answered>>
    PROVE  BudgetTypes'
BY PipelineAssumption DEF BudgetTypes, Day

LEMMA HoldingCount ==
    ASSUME NEW s, NEW k, NEW dead
    PROVE  Cardinality(Holding(s, k) \cap dead) \in Nat
<1>1. Holding(s, k) \cap dead \in SUBSET Threads
  BY DEF Holding
<1>2. QED
  BY <1>1, ClientAssumption, FS_Subset, FS_CardinalityType

(* What a thread does once it is served, each with its own moves.          *)
LEMMA ServeTypes ==
    ASSUME TypeOK, NEW t \in Threads, Serve(t)
    PROVE  TypeOK'
<1>0. /\ ClientTypes /\ RequestTypes /\ BudgetTypes /\ MissedTypes /\ Tables
      /\ key[t] \in Keys /\ StoreOf(t) \in Stores /\ missed[t] \in Stores
  BY CostTypesSplit, StoreIsOwn DEF TypeOK, RequestTypes, MissedTypes
<1>a. ASSUME Moved(t), BudgetTypes', Tables' PROVE TypeOK'
  BY <1>0, <1>a, MovedTypes, CostTypesSplitNext DEF TypeOK
<1>1. CASE Quiet(t)
  <2>1. /\ Moved(t)
        /\ UNCHANGED <<budgetVars, costVars, cleared>>
    BY <1>1, QuietMoves
  <2>2. BudgetTypes' /\ Tables'
    BY <1>0, <2>1 DEF BudgetTypes, Tables, budgetVars, costVars
  <2>3. QED
    BY <1>a, <2>1, <2>2
<1>2. CASE Client(t)
  <2>1. /\ ClientTypes'
        /\ \A u \in Threads : conn'[u] = "out" <=> conn[u] = "out"
    BY <1>0, <1>2, ResolveTypes DEF Client
  <2>2. RequestTypes'
    BY <1>0, <1>2, <2>1 DEF Client, RequestTypes
  <2>3. BudgetTypes' /\ CostTypes'
    BY <1>2 DEF Client, TypeOK, BudgetTypes, CostTypes, budgetVars, costVars,
                UsersOf
  <2>4. QED
    BY <2>1, <2>2, <2>3 DEF TypeOK
<1>3. ASSUME NEW s \in Screens, ScreenDone(t, s) PROVE TypeOK'
  <2>1. PICK v \in {"allow", "block"} : verdict' = [verdict EXCEPT ![t][s] = v]
    BY <1>3 DEF ScreenDone
  <2>2. RequestTypes'
    BY <1>0, <1>3, <2>1 DEF ScreenDone, RequestTypes, clientVars
  <2>3. ClientTypes'
    BY <1>0, <1>3 DEF ScreenDone, ClientTypes, clientVars
  <2>4. BudgetTypes'
    BY <1>0, <1>3 DEF ScreenDone, BudgetTypes, budgetVars
  <2>5. MissedTypes' /\ Tables'
    <3>1. \/ cleared' = [cleared EXCEPT ![key[t]] = @ \cup {s}]
          \/ cleared' = cleared
      BY <1>3 DEF ScreenDone
    <3>2. cleared' \in [Keys -> SUBSET Screens]
      BY <1>0, <3>1 DEF Tables
    <3>3. UNCHANGED <<missed, cache, paid, spilled, clientVars>>
      BY <1>3 DEF ScreenDone, costVars
    <3>4. QED
      BY <1>0, <3>2, <3>3 DEF MissedTypes, Tables, UsersOf
  <2>6. QED
    BY <2>2, <2>3, <2>4, <2>5, CostTypesSplitNext DEF TypeOK
<1>4. CASE BlindLookup(t)
  <2>1. Moved(t)
    BY <1>4 DEF BlindLookup, Moved, linkVars
  <2>2. spilled' = [spilled EXCEPT !["redis"][key[t]] = @ + 1]
        /\ "redis" \in Stores
    BY <1>0, <1>4 DEF BlindLookup, Spill, StoreOf
  <2>3. spilled' \in [Stores -> [Keys -> Nat]]
    BY <1>0, <2>2, Bump DEF Tables
  <2>4. BudgetTypes' /\ Tables'
    BY <1>0, <1>4, <2>3 DEF BlindLookup, BudgetTypes, Tables, budgetVars
  <2>5. QED
    BY <1>a, <2>1, <2>4
<1>5. CASE Proceed(t)
  <2>1. Moved(t)
    BY <1>5 DEF Proceed, EnterBudget, Moved, linkVars, Stage
  <2>2. BudgetTypes'
    BY <1>0, <1>5, DayTaken DEF Proceed, EnterBudget, BudgetTypes
  <2>3. Tables'
    BY <1>0, <1>5 DEF Proceed, EnterBudget, Tables, costVars
  <2>4. QED
    BY <1>a, <2>1, <2>2, <2>3
<1>6. CASE FinishCheck(t) \/ FailOpen(t) \/ LoseRecord(t)
  <2>1. Moved(t)
    BY <1>6 DEF FinishCheck, FailOpen, LoseRecord, Moved, linkVars, Stage
  <2>2. BudgetTypes'
    BY <1>0, <1>6, DayTaken DEF FinishCheck, FailOpen, LoseRecord, Leave
  <2>3. Tables'
    BY <1>0, <1>6 DEF FinishCheck, FailOpen, LoseRecord, Tables, costVars
  <2>4. QED
    BY <1>a, <2>1, <2>2, <2>3
<1>7. CASE Answer(t)
  <2>1. Moved(t)
    BY <1>7 DEF Answer, Moved, linkVars, Stage
  <2>2. BudgetTypes'
    <3>1. CASE VlmDailyBudget = 0
      BY <1>0, <1>7, <3>1 DEF Answer, BudgetTypes
    <3>2. CASE VlmDailyBudget # 0
      BY <1>0, <1>7, <3>2 DEF Answer, BudgetTypes
    <3>3. QED
      BY <3>1, <3>2
  <2>3. paid' \in [Stores -> [Keys -> Nat]]
    BY <1>0, <1>7, Bump DEF Answer, Tables
  <2>4. Tables'
    BY <1>0, <1>7, <2>3 DEF Answer, Tables
  <2>5. QED
    BY <1>a, <2>1, <2>2, <2>4
<1>8. CASE FinishRecord(t)
  <2>1. Moved(t)
    BY <1>8 DEF FinishRecord, Moved, linkVars, Stage
  <2>2. /\ used' = [used EXCEPT ![StoreOf(t)][day[t]] = @ + 1]
        /\ day' = [day EXCEPT ![t] = 0]
        /\ UNCHANGED <<today, answered, costVars, cleared>>
    BY <1>8 DEF FinishRecord, Leave
  <2>3. used' \in [Stores -> [Day -> Nat]]
    BY <1>0, <2>2, Bump DEF BudgetTypes
  <2>4. BudgetTypes'
    <3>1. 0 \in Day
      BY PipelineAssumption DEF Day
    <3>2. day' \in [Threads -> Day]
      BY <1>0, <2>2, <3>1 DEF BudgetTypes
    <3>3. QED
      BY <1>0, <2>2, <2>3, <3>2 DEF BudgetTypes, Day
  <2>5. Tables'
    BY <1>0, <2>2 DEF Tables, costVars
  <2>6. QED
    BY <1>a, <2>1, <2>4, <2>5
<1>9. CASE StartPut(t)
  <2>1. /\ conn' = [conn EXCEPT ![t] = "call"] /\ stage[t] = "put"
        /\ UNCHANGED <<mock, stage, key, stream, verdict, missed, budgetVars,
                       costVars, cleared, linkVars>>
    BY <1>9 DEF StartPut, Ask, At
  <2>2. ClientTypes'
    BY <1>0, <2>1 DEF ClientTypes, linkVars
  <2>3. RequestTypes'
    BY <1>0, <2>1 DEF RequestTypes, ClientTypes, Asking
  <2>4. BudgetTypes' /\ MissedTypes' /\ Tables'
    BY <1>0, <2>1 DEF BudgetTypes, MissedTypes, Tables, budgetVars, costVars,
                      UsersOf
  <2>5. QED
    BY <2>2, <2>3, <2>4, CostTypesSplitNext DEF TypeOK
<1>10. CASE Put(t) \/ PutFails(t)
  <2>1. Moved(t)
    BY <1>10 DEF Put, PutFails, Moved, linkVars
  <2>2. BudgetTypes'
    BY <1>0, <1>10 DEF Put, PutFails, BudgetTypes, budgetVars
  <2>3. spilled' \in [Stores -> [Keys -> Nat]]
    <3>1. \/ spilled' = spilled
          \/ spilled' = [spilled EXCEPT ![missed[t]][key[t]] = @ + 1]
      BY <1>10 DEF Put, PutFails, Spill
    <3>2. /\ spilled \in [Stores -> [Keys -> Nat]]
          /\ missed[t] \in Stores /\ key[t] \in Keys
      BY <1>0 DEF Tables
    <3>3. CASE spilled' = [spilled EXCEPT ![missed[t]][key[t]] = @ + 1]
      BY <3>2, <3>3, Bump
    <3>4. QED
      BY <3>1, <3>2, <3>3
  <2>4. cache' \in [Stores -> SUBSET Keys]
    BY <1>0, <1>10 DEF Put, PutFails, Tables
  <2>5. Tables'
    BY <1>0, <1>10, <2>3, <2>4 DEF Put, PutFails, Tables
  <2>6. QED
    BY <1>a, <2>1, <2>2, <2>5
<1>11. QED
  BY <1>1, <1>2, <1>3, <1>4, <1>5, <1>6, <1>7, <1>8, <1>9, <1>10
     DEF Serve, Quiet

LEMMA StepTypeOK == TypeOK /\ [Next]_vars => TypeOK'
<1> SUFFICES ASSUME TypeOK, [Next]_vars
             PROVE  TypeOK'
  OBVIOUS
<1>0. ClientTypes /\ RequestTypes /\ BudgetTypes /\ MissedTypes /\ Tables
  BY CostTypesSplit DEF TypeOK
<1>1. ASSUME NEW t \in Threads, Arrive(t) PROVE TypeOK'
  <2>1. RequestTypes'
    BY <1>0, <1>1 DEF Arrive, RequestTypes, Stage, Asking, clientVars
  <2>2. ClientTypes' /\ BudgetTypes' /\ MissedTypes' /\ Tables'
    BY <1>0, <1>1 DEF Arrive, ClientTypes, BudgetTypes, MissedTypes, Tables,
                      clientVars, budgetVars, costVars, UsersOf
  <2>3. QED
    BY <2>1, <2>2, CostTypesSplitNext DEF TypeOK
<1>2. ASSUME NEW t \in Threads, Disconnect(t) PROVE TypeOK'
  <2>1. Moved(t)
    BY <1>2 DEF Disconnect, Moved, linkVars
  <2>2. BudgetTypes'
    BY <1>0, <1>2 DEF Disconnect, BudgetTypes, budgetVars
  <2>3. spilled' \in [Stores -> [Keys -> Nat]]
    <3>1. \/ spilled' = spilled
          \/ spilled' = [spilled EXCEPT ![missed[t]][key[t]] = @ + 1]
      BY <1>2 DEF Disconnect, Spill
    <3>2. /\ spilled \in [Stores -> [Keys -> Nat]]
          /\ missed[t] \in Stores /\ key[t] \in Keys
      BY <1>0 DEF RequestTypes, MissedTypes, Tables
    <3>3. CASE spilled' = [spilled EXCEPT ![missed[t]][key[t]] = @ + 1]
      BY <3>2, <3>3, Bump
    <3>4. QED
      BY <3>1, <3>2, <3>3
  <2>4. Tables'
    BY <1>0, <1>2, <2>3 DEF Disconnect, Tables
  <2>5. QED
    BY <1>0, <2>1, <2>2, <2>4, MovedTypes, CostTypesSplitNext DEF TypeOK
<1>3. ASSUME NEW s \in Stores, NEW k \in Keys, Forget(s, k) PROVE TypeOK'
  <2>1. /\ cache' = [cache EXCEPT ![s] = @ \ {k}]
        /\ paid' = [paid EXCEPT ![s][k] = 0]
        /\ spilled' = [spilled EXCEPT ![s][k] = 0]
        /\ UNCHANGED <<mock, stage, key, stream, verdict, missed, budgetVars,
                       cleared, clientVars>>
    BY <1>3 DEF Forget
  <2>2. ClientTypes' /\ RequestTypes' /\ BudgetTypes' /\ MissedTypes'
    BY <1>0, <2>1 DEF ClientTypes, RequestTypes, BudgetTypes, MissedTypes,
                      clientVars, budgetVars, UsersOf
  <2>3. Tables'
    BY <1>0, <2>1 DEF Tables
  <2>4. QED
    BY <2>2, <2>3, CostTypesSplitNext DEF TypeOK
<1>4. CASE NextDay
  <2>1. ClientTypes' /\ RequestTypes' /\ MissedTypes' /\ Tables'
    BY <1>0, <1>4 DEF NextDay, ClientTypes, RequestTypes, MissedTypes, Tables,
                      clientVars, costVars, UsersOf
  <2>2. BudgetTypes'
    BY <1>0, <1>4, PipelineAssumption DEF NextDay, BudgetTypes, Day
  <2>3. QED
    BY <2>1, <2>2, CostTypesSplitNext DEF TypeOK
<1>5. ASSUME NEW i \in Instances, Restart(i) PROVE TypeOK'
  <2>0. i \in Stores
    BY DEF Stores
  <2>1. ClientTypes'
    BY <1>0, <1>5, RebootTypes DEF Restart
  <2>2. RequestTypes'
    <3>1. /\ stage' = [t \in Threads |-> IF Home[t] = i THEN "idle" ELSE stage[t]]
          /\ conn' = [t \in Threads |-> IF Home[t] = i THEN "out" ELSE conn[t]]
          /\ stream' = [t \in Threads |-> Home[t] # i /\ stream[t]]
          /\ verdict' = [t \in Threads |->
                            IF Home[t] = i THEN Unasked ELSE verdict[t]]
          /\ UNCHANGED <<mock, key>>
      BY <1>5 DEF Restart, Reboot
    <3>2. Unasked \in [Screens -> {"pending", "allow", "block"}]
      BY DEF Unasked
    <3>3. /\ stage' \in [Threads -> Stage]
          /\ stream' \in [Threads -> BOOLEAN]
          /\ verdict' \in [Threads -> [Screens -> {"pending", "allow", "block"}]]
      BY <1>0, <3>1, <3>2 DEF RequestTypes, Stage
    <3>4. ASSUME NEW t \in Threads
          PROVE  /\ stage'[t] \in Asking => conn'[t] # "out"
                 /\ stage'[t] \notin Asking \cup {"put"} => conn'[t] = "out"
      BY <1>0, <3>1 DEF RequestTypes, Asking
    <3>5. QED
      BY <1>0, <3>1, <3>3, <3>4 DEF RequestTypes
  <2>3. BudgetTypes'
    <3>1. [d \in Day |-> 0] \in [Day -> Nat]
      OBVIOUS
    <3>2. used' \in [Stores -> [Day -> Nat]]
      BY <1>0, <1>5, <3>1 DEF Restart, BudgetTypes
    <3>3. QED
      BY <1>0, <1>5, <3>2, PipelineAssumption DEF Restart, BudgetTypes, Day
  <2>4. MissedTypes'
    BY <1>0, <1>5, <2>0 DEF Restart, MissedTypes, UsersOf
  <2>5. Tables'
    <3>1. [k \in Keys |-> 0] \in [Keys -> Nat]
      OBVIOUS
    <3>2. cache' \in [Stores -> SUBSET Keys] /\ paid' \in [Stores -> [Keys -> Nat]]
      BY <1>0, <1>5, <3>1 DEF Restart, Tables
    <3>3. ASSUME NEW s \in Stores, NEW k \in Keys
          PROVE  (IF s = i THEN 0
                  ELSE spilled[s][k] + Cardinality(Holding(s, k) \cap UsersOf(i)))
                     \in Nat
      <4>1. /\ spilled[s][k] \in Nat
            /\ Cardinality(Holding(s, k) \cap UsersOf(i)) \in Nat
        BY <1>0, HoldingCount DEF Tables
      <4>2. QED
        BY <4>1
    <3>4. spilled' =
             [s \in Stores |-> [k \in Keys |->
                 IF s = i THEN 0
                 ELSE spilled[s][k] + Cardinality(Holding(s, k) \cap UsersOf(i))]]
      BY <1>5 DEF Restart
    <3>5. spilled' \in [Stores -> [Keys -> Nat]]
      BY <3>3, <3>4
    <3>6. cleared' = cleared
      BY <1>5 DEF Restart
    <3>7. QED
      BY <1>0, <3>2, <3>5, <3>6 DEF Tables
  <2>6. QED
    BY <2>1, <2>2, <2>3, <2>4, <2>5, CostTypesSplitNext DEF TypeOK
<1>6. CASE UNCHANGED vars
  BY <1>6 DEF vars, clientVars, TypeOK, ClientTypes, RequestTypes, BudgetTypes,
              CostTypes, UsersOf
<1>7. QED
  BY <1>1, <1>2, <1>3, <1>4, <1>5, <1>6, ServeTypes DEF Next

(* The type invariant of AskPipeline holds in every state.                 *)
THEOREM PipelineTypes == Spec => []TypeOK
BY InitTypeOK, StepTypeOK, PTL DEF Spec

-----------------------------------------------------------------------------
(* Sets of threads: finite, bounded by what they are part of, and one apart*)
(* after one thread has come or gone.                                      *)
LEMMA ThreadSubset ==
    ASSUME NEW S \in SUBSET Threads
    PROVE  /\ IsFiniteSet(S)
           /\ Cardinality(S) \in Nat
BY ClientAssumption, FS_Subset, FS_CardinalityType

LEMMA CardMono ==
    ASSUME NEW S \in SUBSET Threads, NEW T \in SUBSET S
    PROVE  Cardinality(T) <= Cardinality(S)
BY ThreadSubset, FS_Subset

LEMMA CardAdd ==
    ASSUME NEW S \in SUBSET Threads, NEW t \in Threads, t \notin S
    PROVE  Cardinality(S \cup {t}) = Cardinality(S) + 1
BY ThreadSubset, FS_AddElement

LEMMA CardRemove ==
    ASSUME NEW S \in SUBSET Threads, NEW t \in S
    PROVE  Cardinality(S \ {t}) = Cardinality(S) - 1
BY ThreadSubset, FS_RemoveElement

LEMMA CardSplit ==
    ASSUME NEW S \in SUBSET Threads, NEW D
    PROVE  Cardinality(S) = Cardinality(S \cap D) + Cardinality(S \ D)
<1>1. Cardinality(S \ D) = Cardinality(S) - Cardinality(S \cap D)
  BY ThreadSubset, FS_Difference
<1>2. Cardinality(S) \in Nat /\ Cardinality(S \cap D) \in Nat
  <2>1. S \cap D \in SUBSET Threads
    OBVIOUS
  <2>2. QED
    BY <2>1, ThreadSubset
<1>3. QED
  BY <1>1, <1>2

(* The threads of a store, its counts, and the sets of those that miss a   *)
(* key there and that hold its answer, which have no thread in common.     *)
Counts(s, k) ==
    /\ paid[s][k] \in Nat /\ spilled[s][k] \in Nat
    /\ Missed(s, k) \in SUBSET Threads
    /\ Holding(s, k) \in SUBSET Threads
    /\ Cardinality(Missed(s, k)) \in Nat
    /\ Cardinality(Holding(s, k)) \in Nat

LEMMA CountsAreCounts ==
    ASSUME TypeOK, NEW s \in Stores, NEW k \in Keys
    PROVE  Counts(s, k)
<1>1. Missed(s, k) \in SUBSET Threads /\ Holding(s, k) \in SUBSET Threads
  BY DEF Missed, Holding
<1>2. paid[s][k] \in Nat /\ spilled[s][k] \in Nat
  BY DEF TypeOK, CostTypes
<1>3. QED
  BY <1>1, <1>2, ThreadSubset DEF Counts

LEMMA UsersCount ==
    ASSUME NEW s
    PROVE  UsersOf(s) \in SUBSET Threads /\ Cardinality(UsersOf(s)) \in Nat
<1>1. UsersOf(s) \in SUBSET Threads
  BY DEF UsersOf
<1>2. QED
  BY <1>1, ThreadSubset

LEMMA MissedAndHolding ==
    ASSUME TypeOK, NEW s \in Stores, NEW k \in Keys
    PROVE  Cardinality(Missed(s, k)) + Cardinality(Holding(s, k))
               <= Cardinality(UsersOf(s))
<1>1. Missed(s, k) \subseteq UsersOf(s) /\ Holding(s, k) \subseteq UsersOf(s)
  BY DEF Missed, Holding, TypeOK, CostTypes
<1>2. Holding(s, k) \subseteq UsersOf(s) \ Missed(s, k)
  BY <1>1 DEF Missed, Holding, MissStages, HoldStages
<1>3. /\ UsersOf(s) \cap Missed(s, k) = Missed(s, k)
      /\ UsersOf(s) \ Missed(s, k) \in SUBSET Threads
  BY <1>1, UsersCount
<1>4. Cardinality(UsersOf(s))
          = Cardinality(Missed(s, k)) + Cardinality(UsersOf(s) \ Missed(s, k))
  BY <1>3, CardSplit, UsersCount
<1>5. Cardinality(Holding(s, k)) <= Cardinality(UsersOf(s) \ Missed(s, k))
  BY <1>2, <1>3, CardMono
<1>6. Cardinality(UsersOf(s) \ Missed(s, k)) \in Nat
  BY <1>3, ThreadSubset
<1>7. QED
  BY <1>4, <1>5, <1>6, CountsAreCounts, UsersCount DEF Counts

(* The cost of k in s, before and after a step, said with four counts.     *)
LEMMA CostKept ==
    ASSUME NEW s \in Stores, NEW k \in Keys,
           TypeOK, Counts(s, k)', KeyCost(s, k),
           k \in cache'[s] <=> k \in cache[s],
           paid'[s][k] = paid[s][k], spilled'[s][k] >= spilled[s][k],
           k \in cache[s] => Missed(s, k)' \subseteq Missed(s, k),
           k \notin cache[s] => Holding(s, k) \subseteq Holding(s, k)'
    PROVE  KeyCost(s, k)'
<1>1. Counts(s, k)
  BY CountsAreCounts
<1>2. CASE k \in cache[s]
  <2>1. Cardinality(Missed(s, k)') <= Cardinality(Missed(s, k))
    BY <1>1, <1>2, CardMono DEF Counts
  <2>2. QED
    BY <1>1, <1>2, <2>1, UsersCount DEF KeyCost, Counts
<1>3. CASE k \notin cache[s]
  <2>1. Cardinality(Holding(s, k)) <= Cardinality(Holding(s, k)')
    BY <1>1, <1>3, CardMono DEF Counts
  <2>2. QED
    BY <1>1, <1>3, <2>1 DEF KeyCost, Counts
<1>4. QED
  BY <1>2, <1>3

LEMMA NextCounts ==
    ASSUME NEW s \in Stores, NEW k \in Keys, TypeOK'
    PROVE  Counts(s, k)'
<1>1. Missed(s, k)' \in SUBSET Threads /\ Holding(s, k)' \in SUBSET Threads
  BY DEF Missed, Holding
<1>2. paid'[s][k] \in Nat /\ spilled'[s][k] \in Nat
  BY DEF TypeOK, CostTypes
<1>3. QED
  BY <1>1, <1>2, ThreadSubset DEF Counts

(* A thread goes to a stage z, with m for the store it missed in.          *)
Steps(t, z, m) ==
    /\ stage' = [stage EXCEPT ![t] = z]
    /\ missed' = [missed EXCEPT ![t] = m]
    /\ key' = key

LEMMA MovesAreSteps ==
    ASSUME TypeOK, NEW t \in Threads, key' = key
    PROVE  /\ \A z : Goto(t, z) => Steps(t, z, missed[t])
           /\ Finish(t) => Steps(t, "idle", Home[t])
           /\ Miss(t) => Steps(t, "screen", StoreOf(t))
BY DEF Goto, Finish, Miss, Steps, TypeOK, CostTypes

(* Such a step keeps the cost if the thread neither lets go of an answer   *)
(* nor comes to miss what is in the cache.                                 *)
LEMMA MoveKeepsCost ==
    ASSUME CostInv, TypeOK', UNCHANGED costVars,
           NEW t \in Threads, NEW z, NEW m, Steps(t, z, m),
           stage[t] \notin HoldStages \/ (z \in HoldStages /\ m = missed[t]),
           \/ z \notin MissStages
           \/ stage[t] \in MissStages /\ m = missed[t]
           \/ m \in Stores /\ key[t] \notin cache[m]
    PROVE  \A s \in Stores, k \in Keys : KeyCost(s, k)'
<1> SUFFICES ASSUME NEW s \in Stores, NEW k \in Keys PROVE KeyCost(s, k)'
  OBVIOUS
<1>1. /\ TypeOK /\ KeyCost(s, k) /\ stage \in [Threads -> Stage]
      /\ missed \in [Threads -> Stores]
  BY DEF CostInv, TypeOK, RequestTypes, CostTypes
<1>2. Holding(s, k) \subseteq Holding(s, k)'
  BY <1>1 DEF Holding, Steps
<1>3. k \in cache[s] => Missed(s, k)' \subseteq Missed(s, k)
  BY <1>1 DEF Missed, Steps
<1>4. cache' = cache /\ paid' = paid /\ spilled' = spilled
  BY DEF costVars
<1>5. Counts(s, k) /\ Counts(s, k)'
  BY <1>1, CountsAreCounts, NextCounts
<1>6. paid'[s][k] = paid[s][k] /\ spilled'[s][k] >= spilled[s][k]
  BY <1>4, <1>5 DEF Counts
<1>7. QED
  BY <1>1, <1>2, <1>3, <1>4, <1>5, <1>6, CostKept

(* Mock mode stays away from the cache and the budget.                     *)
Costly == {"lookup", "check", "provision", "recording", "put"}

LEMMA MockStaysFree ==
    ASSUME CostInv, [Next]_vars
    PROVE  MockIsFree'
<1>1. MockIsFree /\ RequestTypes /\ CostTypes
  BY DEF CostInv, TypeOK
<1> DEFINE Free == /\ \A s \in Stores : cache'[s] = {}
                   /\ \A t \in Threads : stage'[t] \notin Costly
<1>a. ASSUME mock, mock' = mock PROVE MockIsFree' <=> Free
  BY <1>a DEF MockIsFree, Costly
<1>2. mock' = mock
  BY DEF Next, vars, Serve, Client, Arrive, PassGate, Refuse, Lookup, BlindLookup,
         ScreenDone, Block, Proceed, EnterBudget, FinishCheck, FailOpen,
         Provision, MockAnswer, Answer, InferenceRaises, GiveUp, FinishRecord,
         LoseRecord, StartPut, Put, PutFails, Disconnect, Forget, NextDay,
         Restart
<1>b. CASE ~ mock
  BY <1>b, <1>2 DEF MockIsFree
<1>c. CASE mock
  <2>1. /\ \A s \in Stores : cache[s] = {}
        /\ \A t \in Threads : stage[t] \notin Costly
        /\ stage \in [Threads -> Stage]
    BY <1>1, <1>c DEF MockIsFree, RequestTypes, Costly
  <2>2. ASSUME NEW t \in Threads, NEW z \in Stage \ Costly,
               stage' = [stage EXCEPT ![t] = z], cache' = cache
        PROVE  Free
    BY <2>1, <2>2
  <2>3. ASSUME stage' = stage, cache' = cache PROVE Free
    BY <2>1, <2>3
  <2> HIDE DEF Free
  <2>4. ASSUME NEW t \in Threads, Quiet(t) PROVE Free
    <3>1. /\ cache' = cache
          /\ stage[t] \notin {"lookup", "provision"}
      BY <2>1, <2>4, QuietMoves DEF costVars, Costly
    <3>2. \E z \in Stage \ Costly : stage' = [stage EXCEPT ![t] = z]
      <4>1. CASE PassGate(t)
        BY <1>c, <4>1 DEF PassGate, Gates, NextGate, Goto, Stage, Costly
      <4>2. CASE InferenceRaises(t)
        BY <1>c, <4>2 DEF InferenceRaises
      <4>3. CASE Refuse(t) \/ Block(t) \/ MockAnswer(t) \/ GiveUp(t)
        BY <4>3 DEF Refuse, Block, MockAnswer, GiveUp, Finish, Stage, Costly
      <4>4. CASE Lookup(t) \/ Provision(t)
        BY <3>1, <4>4 DEF Lookup, Provision, InStage
      <4>5. QED
        BY <2>4, <4>1, <4>2, <4>3, <4>4 DEF Quiet
    <3>3. QED
      BY <2>2, <3>1, <3>2
  <2>5. ASSUME NEW t \in Threads, Serve(t) PROVE Free
    <3>1. CASE Proceed(t)
      <4>1. stage' = [stage EXCEPT ![t] = "infer"] /\ cache' = cache
        BY <1>c, <3>1 DEF Proceed, EnterBudget, Goto, costVars
      <4>2. QED
        BY <2>2, <4>1 DEF Stage, Costly
    <3>2. CASE Client(t) \/ \E s \in Screens : ScreenDone(t, s)
      BY <2>3, <3>2 DEF Client, ScreenDone, costVars
    <3>3. stage[t] \notin Costly
      BY <2>1
    <3>4. /\ ~ BlindLookup(t) /\ ~ FinishCheck(t) /\ ~ FailOpen(t)
          /\ ~ FinishRecord(t) /\ ~ LoseRecord(t)
      BY <3>3 DEF BlindLookup, FinishCheck, FailOpen, FinishRecord, LoseRecord,
                  InStage, Costly
    <3>5. ~ Answer(t) /\ ~ StartPut(t) /\ ~ Put(t) /\ ~ PutFails(t)
      BY <1>c, <3>3 DEF Answer, StartPut, Put, PutFails, Costly
    <3>6. QED
      BY <2>4, <2>5, <3>1, <3>2, <3>4, <3>5 DEF Serve, Quiet
  <2>6. ASSUME NEW t \in Threads, Arrive(t) \/ Disconnect(t) PROVE Free
    <3>1. /\ cache' = cache
          /\ \/ stage' = [stage EXCEPT ![t] = "prepare"]
             \/ stage' = [stage EXCEPT ![t] = "idle"]
      BY <2>6 DEF Arrive, Disconnect, Finish, costVars
    <3>2. {"prepare", "idle"} \subseteq Stage \ Costly
      BY DEF Stage, Costly
    <3>3. QED
      BY <2>2, <3>1, <3>2
  <2>7. ASSUME NEW s \in Stores, NEW k \in Keys PROVE ~ Forget(s, k)
    BY <2>1 DEF Forget
  <2>8. ASSUME NextDay \/ UNCHANGED vars PROVE Free
    BY <2>3, <2>8 DEF NextDay, vars, costVars
  <2>9. ASSUME NEW i \in Instances, Restart(i) PROVE Free
    <3>1. /\ cache' = [cache EXCEPT ![i] = {}]
          /\ stage' = [t \in Threads |-> IF Home[t] = i THEN "idle" ELSE stage[t]]
      BY <2>9 DEF Restart
    <3>2. \A s \in Stores : cache'[s] = {}
      BY <1>1, <2>1, <3>1 DEF CostTypes
    <3>3. \A t \in Threads : stage'[t] \notin Costly
      BY <2>1, <3>1 DEF Costly
    <3>4. QED
      BY <3>2, <3>3 DEF Free
  <2>10. Free
    BY <2>5, <2>6, <2>7, <2>8, <2>9 DEF Next
  <2>11. QED
    BY <1>a, <1>c, <1>2, <2>10
<1>3. QED
  BY <1>b, <1>c

-----------------------------------------------------------------------------
(* The steps that move a thread on without touching the cache.             *)
LEMMA MovingSteps ==
    ASSUME CostInv, TypeOK', NEW t \in Threads,
           \/ Quiet(t) \/ Proceed(t) \/ FinishCheck(t) \/ FailOpen(t)
           \/ FinishRecord(t) \/ LoseRecord(t)
    PROVE  \A s \in Stores, k \in Keys : KeyCost(s, k)'
<1>0. /\ TypeOK /\ MockIsFree /\ missed[t] \in Stores
      /\ StoreOf(t) \in Stores
  BY StoreIsOwn DEF CostInv, TypeOK, CostTypes
<1>a. UNCHANGED <<key, costVars>>
  BY QuietMoves DEF Proceed, EnterBudget, FinishCheck, FailOpen, FinishRecord,
                    LoseRecord
<1>b. /\ \A z : Goto(t, z) => Steps(t, z, missed[t])
      /\ Finish(t) => Steps(t, "idle", Home[t])
      /\ Miss(t) => Steps(t, "screen", StoreOf(t))
  BY <1>0, <1>a, MovesAreSteps
(* Ending a request that holds no answer, or going on with one that misses *)
(* as before, costs nothing.                                               *)
<1>c. ASSUME Finish(t), stage[t] \notin HoldStages
      PROVE  \A s \in Stores, k \in Keys : KeyCost(s, k)'
  <2>1. "idle" \notin MissStages
    BY DEF MissStages
  <2>2. QED
    BY <1>a, <1>b, <1>c, <2>1, MoveKeepsCost
<1>d. ASSUME NEW z, Goto(t, z),
             \/ stage[t] \in MissStages /\ z \in MissStages \cup {"raised"}
             \/ stage[t] \in HoldStages /\ z \in HoldStages
      PROVE  \A s \in Stores, k \in Keys : KeyCost(s, k)'
  <2>1. /\ stage[t] \notin HoldStages \/ z \in HoldStages
        /\ z \notin MissStages \/ stage[t] \in MissStages
    BY <1>d DEF MissStages, HoldStages
  <2>2. QED
    BY <1>a, <1>b, <1>d, <2>1, MoveKeepsCost
<1>1. CASE PassGate(t)
  <2>1. PICK g \in Gates : stage[t] = g /\ Goto(t, NextGate(g))
    BY <1>1 DEF PassGate, InStage
  <2>2. /\ stage[t] \notin HoldStages
        /\ NextGate(g) \in MissStages => mock
    BY <2>1 DEF Gates, NextGate, MissStages, HoldStages
  <2>3. mock => key[t] \notin cache[missed[t]]
    BY <1>0 DEF MockIsFree
  <2>4. QED
    BY <1>0, <1>a, <1>b, <2>1, <2>2, <2>3, MoveKeepsCost
<1>2. CASE Refuse(t) \/ Block(t) \/ MockAnswer(t) \/ GiveUp(t)
  BY <1>2, <1>c DEF Refuse, Block, MockAnswer, GiveUp, Gates, InStage, HoldStages
<1>3. CASE Lookup(t)
  <2>1. stage[t] = "lookup" /\ stage[t] \notin HoldStages
    BY <1>3 DEF Lookup, InStage, HoldStages
  <2>2. CASE key[t] \in cache[StoreOf(t)]
    BY <1>3, <1>c, <2>1, <2>2 DEF Lookup
  <2>3. CASE key[t] \notin cache[StoreOf(t)]
    <3>1. Steps(t, "screen", StoreOf(t))
      BY <1>3, <1>b, <2>3 DEF Lookup
    <3>2. QED
      BY <1>0, <1>a, <2>1, <2>3, <3>1, MoveKeepsCost
  <2>4. QED
    BY <2>2, <2>3
<1>4. CASE Proceed(t)
  BY <1>4, <1>d DEF Proceed, EnterBudget, MissStages
<1>5. CASE FinishCheck(t)
  BY <1>5, <1>c, <1>d DEF FinishCheck, InStage, MissStages, HoldStages
<1>6. CASE FailOpen(t)
  BY <1>6, <1>d DEF FailOpen, MissStages
<1>7. CASE Provision(t)
  BY <1>7, <1>c, <1>d DEF Provision, MissStages, HoldStages
<1>8. CASE InferenceRaises(t)
  BY <1>8, <1>d DEF InferenceRaises, MissStages
<1>9. CASE FinishRecord(t) \/ LoseRecord(t)
  BY <1>9, <1>d DEF FinishRecord, LoseRecord, InStage, HoldStages
<1>10. QED
  BY <1>1, <1>2, <1>3, <1>4, <1>5, <1>6, <1>7, <1>8, <1>9 DEF Quiet

(* The VLM answers: who may still pay becomes who holds an answer.         *)
LEMMA AnswerKeepsCost ==
    ASSUME CostInv, TypeOK', NEW t \in Threads, Answer(t),
           NEW s \in Stores, NEW k \in Keys
    PROVE  KeyCost(s, k)'
<1>1. /\ TypeOK /\ KeyCost(s, k) /\ stage \in [Threads -> Stage]
      /\ missed \in [Threads -> Stores]
      /\ missed[t] \in Stores /\ key[t] \in Keys
      /\ paid \in [Stores -> [Keys -> Nat]]
  BY DEF CostInv, TypeOK, RequestTypes, CostTypes
<1>2. /\ stage[t] = "infer"
      /\ paid' = [paid EXCEPT ![missed[t]][key[t]] = @ + 1]
      /\ UNCHANGED <<key, missed, cache, spilled>>
      /\ \/ stage' = [stage EXCEPT ![t] = "put"]
         \/ stage' = [stage EXCEPT ![t] = "recording"]
  BY DEF Answer, Goto
<1>3. paid'[s][k] = IF s = missed[t] /\ k = key[t] THEN paid[s][k] + 1
                                                   ELSE paid[s][k]
  BY <1>1, <1>2, Bump
<1>4. Counts(s, k) /\ Counts(s, k)'
  BY <1>1, CountsAreCounts, NextCounts
<1>5. CASE s = missed[t] /\ k = key[t]
  <2>1. /\ t \in Missed(s, k)
        /\ Missed(s, k)' = Missed(s, k) \ {t}
        /\ t \notin Holding(s, k)
        /\ Holding(s, k)' = Holding(s, k) \cup {t}
    BY <1>1, <1>2, <1>5 DEF Missed, Holding, MissStages, HoldStages
  <2>2. /\ Cardinality(Missed(s, k)') = Cardinality(Missed(s, k)) - 1
        /\ Cardinality(Holding(s, k)') = Cardinality(Holding(s, k)) + 1
    BY <1>4, <2>1, CardAdd, CardRemove DEF Counts
  <2>3. QED
    BY <1>1, <1>2, <1>3, <1>4, <1>5, <2>2, UsersCount DEF KeyCost, Counts
<1>6. CASE ~ (s = missed[t] /\ k = key[t])
  <2>1. Missed(s, k)' = Missed(s, k) /\ Holding(s, k)' = Holding(s, k)
    BY <1>1, <1>2, <1>6 DEF Missed, Holding
  <2>2. QED
    BY <1>1, <1>2, <1>3, <1>4, <1>6, <2>1, CostKept DEF Counts
<1>7. QED
  BY <1>5, <1>6

(* A thread lets its answer go: into the cache where it missed, into       *)
(* another one, or into none.                                              *)
LettingGo(t) ==
    /\ stage[t] = "put"
    /\ stage' = [stage EXCEPT ![t] = "idle"]
    /\ missed' = [missed EXCEPT ![t] = Home[t]]
    /\ UNCHANGED <<key, paid>>
    /\ \/ /\ cache' = [cache EXCEPT ![missed[t]] = @ \cup {key[t]}]
          /\ UNCHANGED spilled
       \/ /\ \E r \in Stores \ {missed[t]} :
                cache' = [cache EXCEPT ![r] = @ \cup {key[t]}]
          /\ Spill(missed[t], key[t])
       \/ /\ cache' = cache
          /\ Spill(missed[t], key[t])

LEMMA LettingGoKeepsCost ==
    ASSUME CostInv, TypeOK', NEW t \in Threads, LettingGo(t),
           NEW s \in Stores, NEW k \in Keys
    PROVE  KeyCost(s, k)'
<1>1. /\ TypeOK /\ KeyCost(s, k) /\ stage \in [Threads -> Stage]
      /\ missed \in [Threads -> Stores]
      /\ missed[t] \in Stores /\ key[t] \in Keys
      /\ spilled \in [Stores -> [Keys -> Nat]]
      /\ cache \in [Stores -> SUBSET Keys]
  BY DEF CostInv, TypeOK, RequestTypes, CostTypes
<1>2. /\ stage[t] = "put"
      /\ stage' = [stage EXCEPT ![t] = "idle"]
      /\ missed' = [missed EXCEPT ![t] = Home[t]]
      /\ key' = key /\ paid' = paid
  BY DEF LettingGo
<1>3. Missed(s, k)' = Missed(s, k)
  BY <1>1, <1>2 DEF Missed, MissStages
<1>4. Counts(s, k) /\ Counts(s, k)'
  BY <1>1, CountsAreCounts, NextCounts
<1>5. \/ spilled' = spilled
      \/ /\ Spill(missed[t], key[t])
         /\ spilled'[s][k] = IF s = missed[t] /\ k = key[t] THEN spilled[s][k] + 1
                                                            ELSE spilled[s][k]
  BY <1>1, Bump DEF LettingGo, Spill
(* In a cache that has the key now, no more threads than the store has can *)
(* have missed it or hold its answer.                                      *)
<1>6. CASE k \in cache'[s] /\ spilled'[s][k] >= spilled[s][k]
  <2>1. paid[s][k] + Cardinality(Missed(s, k))
            <= Cardinality(UsersOf(s)) + spilled[s][k]
    BY <1>1, <1>4, MissedAndHolding, UsersCount DEF KeyCost, Counts
  <2>2. QED
    BY <1>2, <1>3, <1>4, <1>6, <2>1, UsersCount DEF KeyCost, Counts
<1>7. CASE k \notin cache'[s]
  <2>1. k \notin cache[s]
    BY <1>1, <1>7 DEF LettingGo
  <2>2. paid[s][k] <= spilled[s][k] + Cardinality(Holding(s, k))
    BY <1>1, <2>1 DEF KeyCost
  <2>3. CASE s = missed[t] /\ k = key[t]
    <3>1. /\ t \in Holding(s, k)
          /\ Holding(s, k)' = Holding(s, k) \ {t}
      BY <1>1, <1>2, <2>3 DEF Holding, HoldStages
    <3>2. Cardinality(Holding(s, k)') = Cardinality(Holding(s, k)) - 1
      BY <1>4, <3>1, CardRemove DEF Counts
    <3>3. spilled'[s][k] = spilled[s][k] + 1
      <4>1. ~ (cache' = [cache EXCEPT ![missed[t]] = @ \cup {key[t]}])
        BY <1>1, <1>7, <2>3
      <4>2. Spill(missed[t], key[t])
        BY <4>1 DEF LettingGo
      <4>3. QED
        BY <1>1, <2>3, <4>2, Bump DEF Spill
    <3>4. QED
      BY <1>2, <1>4, <1>7, <2>2, <3>2, <3>3 DEF KeyCost, Counts
  <2>4. CASE ~ (s = missed[t] /\ k = key[t])
    <3>1. Holding(s, k)' = Holding(s, k)
      BY <1>1, <1>2, <2>4 DEF Holding, HoldStages
    <3>2. spilled'[s][k] = spilled[s][k]
      BY <1>5, <2>4
    <3>3. QED
      BY <1>2, <1>4, <1>7, <2>2, <3>1, <3>2 DEF KeyCost, Counts
  <2>5. QED
    BY <2>3, <2>4
<1>8. spilled'[s][k] >= spilled[s][k]
  BY <1>4, <1>5 DEF Counts
<1>9. QED
  BY <1>6, <1>7, <1>8

(* A hit that nobody saw: one more misses, and it is spilled.              *)
LEMMA BlindLookupKeepsCost ==
    ASSUME CostInv, TypeOK', NEW t \in Threads, BlindLookup(t),
           NEW s \in Stores, NEW k \in Keys
    PROVE  KeyCost(s, k)'
<1>1. /\ TypeOK /\ KeyCost(s, k) /\ stage \in [Threads -> Stage]
      /\ missed \in [Threads -> Stores]
      /\ key[t] \in Keys /\ "redis" \in Stores
      /\ spilled \in [Stores -> [Keys -> Nat]]
  BY StoreIsOwn DEF CostInv, TypeOK, RequestTypes, CostTypes, BlindLookup, StoreOf
<1>2. /\ stage[t] = "lookup" /\ stage' = [stage EXCEPT ![t] = "screen"]
      /\ missed' = [missed EXCEPT ![t] = "redis"]
      /\ UNCHANGED <<key, cache, paid>>
      /\ spilled' = [spilled EXCEPT !["redis"][key[t]] = @ + 1]
      /\ key[t] \in cache["redis"]
  BY DEF BlindLookup, Miss, Spill, StoreOf
<1>3. Holding(s, k) \subseteq Holding(s, k)'
  BY <1>1, <1>2 DEF Holding, HoldStages
<1>4. Counts(s, k) /\ Counts(s, k)'
  BY <1>1, CountsAreCounts, NextCounts
<1>5. spilled'[s][k] = IF s = "redis" /\ k = key[t] THEN spilled[s][k] + 1
                                                    ELSE spilled[s][k]
  BY <1>1, <1>2, Bump
<1>6. CASE s = "redis" /\ k = key[t]
  <2>1. /\ t \notin Missed(s, k)
        /\ Missed(s, k)' = Missed(s, k) \cup {t}
    BY <1>1, <1>2, <1>6 DEF Missed, MissStages
  <2>2. Cardinality(Missed(s, k)') = Cardinality(Missed(s, k)) + 1
    BY <1>4, <2>1, CardAdd DEF Counts
  <2>3. QED
    BY <1>1, <1>2, <1>4, <1>5, <1>6, <2>2, UsersCount DEF KeyCost, Counts
<1>7. CASE ~ (s = "redis" /\ k = key[t])
  <2>1. Missed(s, k)' = Missed(s, k)
    BY <1>1, <1>2, <1>7 DEF Missed, MissStages
  <2>2. spilled'[s][k] >= spilled[s][k]
    BY <1>4, <1>5, <1>7 DEF Counts
  <2>3. QED
    BY <1>1, <1>2, <1>3, <1>4, <2>1, <2>2, CostKept
<1>8. QED
  BY <1>6, <1>7

(* A crash spills what the dead threads held in other stores; its own cache*)
(* is empty, and the history starts anew.                                  *)
LEMMA RestartKeepsCost ==
    ASSUME CostInv, TypeOK', NEW i \in Instances, Restart(i),
           NEW s \in Stores, NEW k \in Keys
    PROVE  KeyCost(s, k)'
<1>1. /\ TypeOK /\ KeyCost(s, k) /\ stage \in [Threads -> Stage]
      /\ missed \in [Threads -> Stores] /\ i \in Stores
      /\ cache \in [Stores -> SUBSET Keys]
      /\ paid \in [Stores -> [Keys -> Nat]]
  BY DEF CostInv, TypeOK, RequestTypes, CostTypes, Stores
<1>2. /\ stage' = [t \in Threads |-> IF Home[t] = i THEN "idle" ELSE stage[t]]
      /\ missed' = [t \in Threads |-> IF Home[t] = i THEN i ELSE missed[t]]
      /\ cache' = [cache EXCEPT ![i] = {}]
      /\ paid' = [paid EXCEPT ![i] = [j \in Keys |-> 0]]
      /\ key' = key
      /\ spilled'[s][k] =
            IF s = i THEN 0
            ELSE spilled[s][k] + Cardinality(Holding(s, k) \cap UsersOf(i))
  BY DEF Restart
<1>3. Counts(s, k) /\ Counts(s, k)'
  BY <1>1, CountsAreCounts, NextCounts
<1>4. CASE s = i
  <2>1. k \notin cache'[s] /\ paid'[s][k] = 0 /\ spilled'[s][k] = 0
    BY <1>1, <1>2, <1>4
  <2>2. QED
    BY <1>3, <2>1 DEF KeyCost, Counts
<1>5. CASE s # i
  <2>1. /\ cache'[s] = cache[s] /\ paid'[s] = paid[s]
        /\ spilled'[s][k]
              = spilled[s][k] + Cardinality(Holding(s, k) \cap UsersOf(i))
    BY <1>1, <1>2, <1>5
  <2>2. UsersOf(i) = {t \in Threads : Home[t] = i}
    BY ClientAssumption DEF UsersOf
  <2>3. /\ Missed(s, k)' \subseteq Missed(s, k)
        /\ Holding(s, k)' = Holding(s, k) \ UsersOf(i)
    BY <1>1, <1>2, <2>2 DEF Missed, Holding, MissStages, HoldStages
  <2>4. Cardinality(Holding(s, k))
            = Cardinality(Holding(s, k) \cap UsersOf(i))
                + Cardinality(Holding(s, k) \ UsersOf(i))
    BY <1>3, CardSplit DEF Counts
  <2>5. Cardinality(Holding(s, k) \cap UsersOf(i)) \in Nat
    BY HoldingCount
  <2>6. Cardinality(Missed(s, k)') <= Cardinality(Missed(s, k))
    BY <1>3, <2>3, CardMono DEF Counts
  <2>7. QED
    BY <1>1, <1>3, <2>1, <2>3, <2>4, <2>5, <2>6, UsersCount DEF KeyCost, Counts
<1>6. QED
  BY <1>4, <1>5

(* The invariant is inductive: one case for each kind of step.             *)
LEMMA StepCostInv == CostInv /\ TypeOK' /\ [Next]_vars => CostInv'
<1> SUFFICES ASSUME CostInv, TypeOK', [Next]_vars
             PROVE  \A s \in Stores, k \in Keys : KeyCost(s, k)'
  BY MockStaysFree DEF CostInv
<1>0. /\ TypeOK /\ RequestTypes /\ CostTypes
      /\ \A s \in Stores, k \in Keys : KeyCost(s, k)
  BY DEF CostInv, TypeOK
<1>a. ASSUME NEW s \in Stores, NEW k \in Keys, UNCHANGED costVars,
             Missed(s, k)' = Missed(s, k), Holding(s, k)' = Holding(s, k)
      PROVE  KeyCost(s, k)'
  <2>1. cache' = cache /\ paid' = paid /\ spilled' = spilled
    BY <1>a DEF costVars
  <2>2. Counts(s, k) /\ Counts(s, k)'
    BY <1>0, CountsAreCounts, NextCounts
  <2>3. spilled'[s][k] >= spilled[s][k]
    BY <2>1, <2>2 DEF Counts
  <2>4. QED
    BY <1>0, <1>a, <2>1, <2>2, <2>3, CostKept
<1>1. ASSUME NEW t \in Threads, Arrive(t), NEW s \in Stores, NEW k \in Keys
      PROVE  KeyCost(s, k)'
  <2>1. /\ stage[t] = "idle" /\ stage' = [stage EXCEPT ![t] = "prepare"]
        /\ \E j \in Keys : key' = [key EXCEPT ![t] = j]
        /\ missed' = missed /\ UNCHANGED costVars
    BY <1>1 DEF Arrive
  <2>2. Missed(s, k)' = Missed(s, k) /\ Holding(s, k)' = Holding(s, k)
    BY <1>0, <2>1 DEF Missed, Holding, MissStages, HoldStages, RequestTypes
  <2>3. QED
    BY <1>a, <2>1, <2>2
<1>2. ASSUME NEW t \in Threads,
             Client(t) \/ StartPut(t) \/ \E r \in Screens : ScreenDone(t, r),
             NEW s \in Stores, NEW k \in Keys
      PROVE  KeyCost(s, k)'
  BY <1>2, <1>a DEF Client, StartPut, ScreenDone, Missed, Holding
<1>3. ASSUME NEW t \in Threads, NEW s \in Stores, NEW k \in Keys,
             Put(t) \/ PutFails(t)
      PROVE  KeyCost(s, k)'
  <2>1. StoreOf(t) \in Stores
    BY <1>0, StoreIsOwn DEF TypeOK
  <2>2. LettingGo(t)
    BY <1>3, <2>1 DEF Put, PutFails, Finish, LettingGo
  <2>3. QED
    BY <2>2, LettingGoKeepsCost
<1>4. ASSUME NEW t \in Threads, NEW s \in Stores, NEW k \in Keys, Disconnect(t)
      PROVE  KeyCost(s, k)'
  <2>1. /\ stage[t] \in AtYield /\ Finish(t)
        /\ UNCHANGED <<key, cache, paid>>
    BY <1>4 DEF Disconnect
  <2>2. CASE stage[t] = "put"
    <3>1. LettingGo(t)
      BY <1>4, <2>1, <2>2 DEF Disconnect, Finish, LettingGo
    <3>2. QED
      BY <3>1, LettingGoKeepsCost
  <2>3. CASE stage[t] # "put"
    <3>1. UNCHANGED <<key, costVars>>
      BY <1>4, <2>3 DEF Disconnect, costVars
    <3>2. Steps(t, "idle", Home[t])
      BY <1>0, <2>1, MovesAreSteps
    <3>3. stage[t] \notin HoldStages /\ "idle" \notin MissStages
      BY <2>1, <2>3 DEF AtYield, HoldStages, MissStages
    <3>4. QED
      BY <3>1, <3>2, <3>3, MoveKeepsCost
  <2>4. QED
    BY <2>2, <2>3
<1>5. ASSUME NEW r \in Stores, NEW j \in Keys, Forget(r, j),
             NEW s \in Stores, NEW k \in Keys
      PROVE  KeyCost(s, k)'
  <2>1. Missed(s, k)' = Missed(s, k) /\ Holding(s, k)' = Holding(s, k)
    BY <1>5 DEF Forget, Missed, Holding
  <2>2. Counts(s, k) /\ Counts(s, k)'
    BY <1>0, CountsAreCounts, NextCounts
  <2>3. CASE s = r /\ k = j
    <3>1. k \notin cache'[s] /\ paid'[s][k] = 0 /\ spilled'[s][k] = 0
      BY <1>0, <1>5, <2>3 DEF Forget, CostTypes
    <3>2. QED
      BY <2>2, <3>1 DEF KeyCost, Counts
  <2>4. CASE ~ (s = r /\ k = j)
    <3>1. /\ k \in cache'[s] <=> k \in cache[s]
          /\ paid'[s][k] = paid[s][k] /\ spilled'[s][k] = spilled[s][k]
      BY <1>0, <1>5, <2>4 DEF Forget, CostTypes
    <3>2. QED
      BY <1>0, <2>1, <2>2, <3>1, CostKept DEF Counts
  <2>5. QED
    BY <2>3, <2>4
<1>6. ASSUME NextDay \/ UNCHANGED vars, NEW s \in Stores, NEW k \in Keys
      PROVE  KeyCost(s, k)'
  <2>1. Missed(s, k)' = Missed(s, k) /\ Holding(s, k)' = Holding(s, k)
    BY <1>6 DEF NextDay, vars, Missed, Holding
  <2>2. UNCHANGED costVars
    BY <1>6 DEF NextDay, vars, costVars
  <2>3. QED
    BY <1>a, <2>1, <2>2
<1>7. ASSUME NEW t \in Threads, NEW s \in Stores, NEW k \in Keys, Serve(t)
      PROVE  KeyCost(s, k)'
  <2>1. CASE Answer(t) \/ BlindLookup(t)
    BY <2>1, AnswerKeepsCost, BlindLookupKeepsCost
  <2>2. CASE \/ Quiet(t) \/ Proceed(t) \/ FinishCheck(t) \/ FailOpen(t)
             \/ FinishRecord(t) \/ LoseRecord(t)
    BY <2>2, MovingSteps
  <2>3. QED
    BY <1>2, <1>3, <1>7, <2>1, <2>2 DEF Serve, Quiet
<1>8. SUFFICES ASSUME NEW s \in Stores, NEW k \in Keys PROVE KeyCost(s, k)'
  OBVIOUS
<1>9. CASE \E t \in Threads : Arrive(t) \/ Serve(t) \/ Disconnect(t)
  BY <1>1, <1>4, <1>7, <1>9
<1>10. CASE \E r \in Stores, j \in Keys : Forget(r, j)
  BY <1>5, <1>10
<1>11. CASE \E i \in Instances : Restart(i)
  BY <1>11, RestartKeepsCost
<1>12. QED
  BY <1>6, <1>9, <1>10, <1>11 DEF Next

LEMMA InitCostInv == Init => CostInv
<1> SUFFICES ASSUME Init PROVE CostInv
  OBVIOUS
<1>1. TypeOK
  BY InitTypeOK
<1>2. MockIsFree
  BY DEF Init, MockIsFree
<1>3. ASSUME NEW s \in Stores, NEW k \in Keys PROVE KeyCost(s, k)
  <2>1. Counts(s, k) /\ k \notin cache[s] /\ paid[s][k] = 0 /\ spilled[s][k] = 0
    BY <1>1, CountsAreCounts DEF Init
  <2>2. QED
    BY <2>1 DEF KeyCost, Counts
<1>4. QED
  BY <1>1, <1>2, <1>3 DEF CostInv

(* Whatever the threads, the clients, the instances and the stores do, a   *)
(* question that misses in a store costs at most one VLM answer for each   *)
(* thread that uses the store, plus one for each answer that was kept out  *)
(* of it and each hit that nobody saw.                                     *)
THEOREM StampedeIsBounded == Spec => []StampedeBound
<1>1. CostInv => StampedeBound
  <2> SUFFICES ASSUME CostInv, NEW s \in Stores, NEW k \in Keys
               PROVE  paid[s][k] <= Cardinality(UsersOf(s)) + spilled[s][k]
    BY DEF StampedeBound
  <2>1. TypeOK /\ KeyCost(s, k)
    BY DEF CostInv
  <2>2. Counts(s, k)
    BY <2>1, CountsAreCounts
  <2>3. Cardinality(Missed(s, k)) + Cardinality(Holding(s, k))
            <= Cardinality(UsersOf(s))
    BY <2>1, MissedAndHolding
  <2>4. QED
    BY <2>1, <2>2, <2>3, UsersCount DEF KeyCost, Counts
<1>2. Spec => []CostInv
  BY InitCostInv, StepCostInv, PipelineTypes, PTL DEF Spec
<1>3. QED
  BY <1>1, <1>2, PTL

-----------------------------------------------------------------------------
(* The pipeline implements the protocol of module Budget: its stages map   *)
(* to the phases of the breaker, and each step to a step of Budget or to   *)
(* none.                                                                   *)
LEMMA MoveMapsToPhase ==
    ASSUME RequestTypes, NEW t \in Threads, NEW z, mock' = mock,
           stage' = [stage EXCEPT ![t] = z]
    PROVE  /\ BudgetPc[t] = PhaseOf(stage[t])
           /\ BudgetPc' = [BudgetPc EXCEPT ![t] = PhaseOf(z)]
BY DEF RequestTypes, BudgetPc, PhaseOf

(* The client of the two modules is the same one.                          *)
LEMMA SameClient ==
    ASSUME NEW t \in Threads
    PROVE  /\ Ask(t) <=> Breaker!Ask(t)
           /\ Done(t) <=> Breaker!Done(t)
           /\ Resolve(t) => Breaker!Resolve(t)
           /\ Fault <=> Breaker!Fault
           /\ StoreOf(t) = Breaker!StoreOf(t)
           /\ linkVars = Breaker!linkVars
           /\ clientVars = Breaker!clientVars
           /\ linkVars' = (Breaker!linkVars)'
           /\ clientVars' = (Breaker!clientVars)'
BY DEF Ask, Breaker!Ask, Done, Breaker!Done, Told, Breaker!Told, At, Breaker!At,
       Fault, Breaker!Fault, MayFail, Breaker!MayFail, StoreOf, Breaker!StoreOf,
       linkVars, Breaker!linkVars, clientVars, Breaker!clientVars,
       Resolve, Breaker!Resolve, Return, Breaker!Return,
       FindUnresolved, Breaker!FindUnresolved, Claim, Breaker!Claim,
       PingAnswers, Breaker!PingAnswers, PingFails, Breaker!PingFails

(* A thread that leaves the call it is in, or that was in none, changes its*)
(* place in client() like this.                                            *)
LEMMA Places ==
    ASSUME TypeOK, NEW t \in Threads
    PROVE  /\ \A z : Goto(t, z) =>
                 /\ stage' = [stage EXCEPT ![t] = z]
                 /\ conn[t] = "out" /\ z \in Asking => Ask(t)
                 /\ conn[t] = "out" /\ z \notin Asking => conn' = conn
                 /\ Told(t) /\ z \notin Asking => Done(t)
           /\ Finish(t) \/ Miss(t) =>
                 /\ conn[t] = "out" => conn' = conn
                 /\ Told(t) => Done(t)
           /\ Finish(t) => stage' = [stage EXCEPT ![t] = "idle"]
           /\ Miss(t) => stage' = [stage EXCEPT ![t] = "screen"]
           /\ stage[t] \notin Asking \cup {"put"} => conn[t] = "out"
BY DEF TypeOK, ClientTypes, RequestTypes, Goto, Finish, Miss, At, Ask, Done, Told

(* Outside its phases the breaker sees a request ask for a store and be    *)
(* done with it, and nothing else.                                         *)
LEMMA IdleSteps ==
    ASSUME TypeOK, NEW t \in Threads, NEW z, stage' = [stage EXCEPT ![t] = z],
           PhaseOf(stage[t]) = "idle", PhaseOf(z) = "idle",
           UNCHANGED <<mock, budgetVars, linkVars>>,
           conn' = conn \/ Ask(t) \/ Done(t)
    PROVE  Breaker!ThreadStep(t) \/ UNCHANGED Breaker!vars
<1>1. BudgetPc[t] = "idle" /\ BudgetPc' = BudgetPc
  BY DEF TypeOK, RequestTypes, BudgetPc, PhaseOf
<1>2. CASE conn' = conn
  BY <1>1, <1>2 DEF Breaker!vars, Breaker!clientVars, linkVars, budgetVars
<1>3. CASE Ask(t) \/ Done(t)
  <2>1. Breaker!Ask(t) \/ Breaker!Done(t)
    BY <1>3, SameClient
  <2>2. Breaker!Consult(t)
    BY <1>1, <2>1 DEF Breaker!Consult, Breaker!linkVars, linkVars, budgetVars
  <2>3. QED
    BY <2>2 DEF Breaker!ThreadStep
<1>4. QED
  BY <1>2, <1>3

(* The steps of the stages before the check and after the record.          *)
LEMMA IdleStagesMap ==
    ASSUME TypeOK, NEW t \in Threads,
           \/ PassGate(t) \/ Refuse(t) \/ Lookup(t) \/ BlindLookup(t)
           \/ Block(t) \/ MockAnswer(t) \/ GiveUp(t) \/ Put(t) \/ PutFails(t)
    PROVE  Breaker!ThreadStep(t) \/ UNCHANGED Breaker!vars
<1>0. PhaseOf("idle") = "idle" /\ PhaseOf("screen") = "idle"
  BY DEF PhaseOf
<1>1. CASE PassGate(t)
  <2>1. PICK g \in Gates : InStage(t, g) /\ Goto(t, NextGate(g))
    BY <1>1 DEF PassGate
  <2>2. /\ stage[t] = g
        /\ PhaseOf(g) = "idle" /\ PhaseOf(NextGate(g)) = "idle"
        /\ conn[t] = "out" \/ (Told(t) /\ NextGate(g) \notin Asking)
    BY <2>1, Places DEF Gates, NextGate, PhaseOf, InStage, Asking
  <2>3. /\ stage' = [stage EXCEPT ![t] = NextGate(g)]
        /\ conn' = conn \/ Ask(t) \/ Done(t)
    BY <2>1, <2>2, Places
  <2>4. UNCHANGED <<mock, budgetVars, linkVars>>
    BY <1>1 DEF PassGate
  <2>5. QED
    BY <2>2, <2>3, <2>4, IdleSteps
<1>2. CASE Refuse(t) \/ Block(t) \/ MockAnswer(t) \/ GiveUp(t)
  <2>1. /\ Finish(t) /\ UNCHANGED <<mock, budgetVars, linkVars>>
        /\ PhaseOf(stage[t]) = "idle"
    BY <1>2 DEF Refuse, Block, MockAnswer, GiveUp, Gates, InStage, PhaseOf
  <2>2. stage[t] \in {"prepare", "ratelimit", "sanitize", "screen", "infer",
                      "raised"}
    BY <1>2 DEF Refuse, Block, MockAnswer, GiveUp, Gates, InStage
  <2>3. stage[t] = "ratelimit" => Told(t)
    BY <1>2 DEF Refuse, Block, MockAnswer, GiveUp, Gates, InStage, Asking
  <2>4. conn[t] = "out" \/ Told(t)
    BY <2>2, <2>3, Places DEF Asking
  <2>5. QED
    BY <1>0, <2>1, <2>4, Places, IdleSteps
<1>3. CASE Lookup(t) \/ BlindLookup(t)
  <2>1. /\ Finish(t) \/ Miss(t)
        /\ UNCHANGED <<mock, budgetVars, linkVars>>
        /\ stage[t] = "lookup" /\ Told(t)
    BY <1>3 DEF Lookup, BlindLookup, InStage, Asking, Told
  <2>2. PhaseOf(stage[t]) = "idle"
    BY <2>1 DEF PhaseOf
  <2>3. QED
    BY <1>0, <2>1, <2>2, Places, IdleSteps
<1>4. CASE Put(t) \/ PutFails(t)
  <2>1. /\ Finish(t)
        /\ UNCHANGED <<mock, budgetVars, linkVars>>
        /\ stage[t] = "put" /\ Told(t)
    BY <1>4 DEF Put, PutFails, Told
  <2>2. PhaseOf(stage[t]) = "idle"
    BY <2>1 DEF PhaseOf
  <2>3. QED
    BY <1>0, <2>1, <2>2, Places, IdleSteps
<1>5. QED
  BY <1>1, <1>2, <1>3, <1>4

(* The steps of an admitted request that gives up its place.               *)
LEMMA AbandonMaps ==
    ASSUME TypeOK, NEW t \in Threads, NEW z,
           stage' = [stage EXCEPT ![t] = z],
           PhaseOf(stage[t]) = "admitted", PhaseOf(z) = "idle",
           UNCHANGED <<mock, budgetVars, linkVars, conn>>
    PROVE  Breaker!ThreadStep(t)
<1>1. /\ BudgetPc[t] = "admitted"
      /\ BudgetPc' = [BudgetPc EXCEPT ![t] = "idle"]
  BY MoveMapsToPhase DEF TypeOK
<1>2. Breaker!Abandon(t)
  BY <1>1 DEF Breaker!Abandon, Breaker!Goto, Breaker!clientVars, linkVars,
              budgetVars
<1>3. QED
  BY <1>2 DEF Breaker!ThreadStep

LEMMA ServeMapsToBudget ==
    ASSUME TypeOK, MockIsFree, NEW t \in Threads, Serve(t)
    PROVE  Breaker!ThreadStep(t) \/ UNCHANGED Breaker!vars
<1>0. RequestTypes /\ mock \in BOOLEAN
  BY DEF TypeOK, RequestTypes
<1>1. CASE Client(t)
  <2>1. Breaker!Resolve(t) /\ BudgetPc' = BudgetPc
    BY <1>1, SameClient DEF Client, BudgetPc, PhaseOf
  <2>2. Breaker!Client(t)
    BY <1>1, <2>1 DEF Client, Breaker!Client, budgetVars
  <2>3. QED
    BY <2>2 DEF Breaker!ThreadStep
<1>2. CASE \E s \in Screens : ScreenDone(t, s)
  <2>1. UNCHANGED <<mock, stage, budgetVars, clientVars>>
    BY <1>2 DEF ScreenDone
  <2>2. QED
    BY <2>1 DEF BudgetPc, PhaseOf, Breaker!vars, Breaker!clientVars, clientVars,
                budgetVars
<1>3. CASE StartPut(t)
  <2>1. /\ stage' = stage /\ UNCHANGED <<mock, budgetVars, linkVars>> /\ Ask(t)
        /\ stage[t] = "put" /\ PhaseOf("put") = "idle"
    BY <1>3 DEF StartPut, PhaseOf
  <2>2. stage' = [stage EXCEPT ![t] = "put"]
    BY <1>0, <2>1 DEF RequestTypes
  <2>3. QED
    BY <2>1, <2>2, IdleSteps
<1>4. CASE Proceed(t)
  <2>1. /\ stage[t] = "screen" /\ conn[t] = "out"
        /\ UNCHANGED <<mock, today, used, answered, linkVars>>
        /\ PhaseOf("screen") = "idle"
    BY <1>4, Places DEF Proceed, EnterBudget, PhaseOf, Asking
  <2>2. CASE mock
    <3>1. /\ Goto(t, "infer") /\ UNCHANGED budgetVars
          /\ PhaseOf("infer") = "idle"
      BY <1>4, <2>1, <2>2 DEF Proceed, EnterBudget, budgetVars, PhaseOf
    <3>2. stage' = [stage EXCEPT ![t] = "infer"] /\ conn' = conn
      BY <2>1, <3>1, Places DEF Asking
    <3>3. QED
      BY <2>1, <3>1, <3>2, IdleSteps
  <2>3. CASE ~ mock /\ VlmDailyBudget = 0
    <3>1. /\ Goto(t, "provision") /\ UNCHANGED day
          /\ PhaseOf("provision") = "admitted"
      BY <1>4, <2>3 DEF Proceed, EnterBudget, PhaseOf
    <3>2. stage' = [stage EXCEPT ![t] = "provision"] /\ conn' = conn
      BY <2>1, <3>1, Places DEF Asking
    <3>3. /\ BudgetPc[t] = "idle"
          /\ BudgetPc' = [BudgetPc EXCEPT ![t] = "admitted"]
      BY <1>0, <2>1, <3>1, <3>2, MoveMapsToPhase
    <3>4. Breaker!SkipCheck(t)
      BY <2>1, <2>3, <3>1, <3>2, <3>3
         DEF Breaker!SkipCheck, Breaker!Goto, Breaker!clientVars, linkVars
    <3>5. QED
      BY <2>3, <3>4 DEF Breaker!ThreadStep, Breaker!OverBudget
  <2>4. CASE ~ mock /\ VlmDailyBudget # 0
    <3>1. /\ Goto(t, "check")
          /\ day' = [day EXCEPT ![t] = today]
          /\ PhaseOf("check") = "checking"
          /\ VlmDailyBudget > 0
      BY <1>4, <2>4, PipelineAssumption DEF Proceed, EnterBudget, PhaseOf
    <3>2. stage' = [stage EXCEPT ![t] = "check"] /\ Breaker!Ask(t)
      BY <2>1, <3>1, Places, SameClient DEF Asking
    <3>3. /\ BudgetPc[t] = "idle"
          /\ BudgetPc' = [BudgetPc EXCEPT ![t] = "checking"]
      BY <1>0, <2>1, <3>1, <3>2, MoveMapsToPhase
    <3>4. Breaker!StartCheck(t)
      BY <2>1, <3>1, <3>2, <3>3
         DEF Breaker!StartCheck, Breaker!Goto, Breaker!linkVars, linkVars
    <3>5. QED
      BY <3>1, <3>4 DEF Breaker!ThreadStep, Breaker!OverBudget
  <2>5. QED
    BY <1>0, <2>2, <2>3, <2>4
(* From here on the thread has gone past the cache, so this is real mode.  *)
<1>5. CASE FinishCheck(t)
  <2>1. /\ stage[t] = "check" /\ ~ mock /\ Told(t)
        /\ UNCHANGED <<mock, today, used, answered, linkVars>>
        /\ day' = [day EXCEPT ![t] = 0]
        /\ PhaseOf("check") = "checking" /\ PhaseOf("idle") = "idle"
        /\ PhaseOf("provision") = "admitted"
    BY <1>5 DEF FinishCheck, Leave, InStage, Asking, PhaseOf, MockIsFree
  <2>2. Breaker!Done(t)
    BY <1>5, <2>1, Places, SameClient DEF FinishCheck, Asking
  <2>3. CASE used[StoreOf(t)][day[t]] >= VlmDailyBudget
    <3>1. stage' = [stage EXCEPT ![t] = "idle"]
      BY <1>5, <2>3, Places DEF FinishCheck
    <3>2. /\ BudgetPc[t] = "checking"
          /\ BudgetPc' = [BudgetPc EXCEPT ![t] = "idle"]
      BY <1>0, <2>1, <3>1, MoveMapsToPhase
    <3>3. Breaker!FinishCheck(t)
      BY <2>1, <2>2, <2>3, <3>2, SameClient
         DEF Breaker!FinishCheck, Breaker!Goto, Breaker!Leave
    <3>4. QED
      BY <3>3 DEF Breaker!ThreadStep
  <2>4. CASE ~ (used[StoreOf(t)][day[t]] >= VlmDailyBudget)
    <3>1. stage' = [stage EXCEPT ![t] = "provision"]
      BY <1>5, <2>4, Places DEF FinishCheck
    <3>2. /\ BudgetPc[t] = "checking"
          /\ BudgetPc' = [BudgetPc EXCEPT ![t] = "admitted"]
      BY <1>0, <2>1, <3>1, MoveMapsToPhase
    <3>3. Breaker!FinishCheck(t)
      BY <2>1, <2>2, <2>4, <3>2, SameClient
         DEF Breaker!FinishCheck, Breaker!Goto, Breaker!Leave
    <3>4. QED
      BY <3>3 DEF Breaker!ThreadStep
  <2>5. QED
    BY <2>3, <2>4
<1>6. CASE FailOpen(t)
  <2>1. /\ stage[t] = "check" /\ ~ mock /\ conn[t] = "redis" /\ Told(t)
        /\ Goto(t, "provision") /\ Fault
        /\ UNCHANGED <<mock, today, used, answered, resolved, connected>>
        /\ day' = [day EXCEPT ![t] = 0]
        /\ PhaseOf("check") = "checking" /\ PhaseOf("provision") = "admitted"
    BY <1>6 DEF FailOpen, Leave, PhaseOf, MockIsFree, Told
  <2>2. /\ stage' = [stage EXCEPT ![t] = "provision"]
        /\ Breaker!Done(t) /\ Breaker!Fault
    BY <2>1, Places, SameClient DEF Asking
  <2>3. /\ BudgetPc[t] = "checking"
        /\ BudgetPc' = [BudgetPc EXCEPT ![t] = "admitted"]
    BY <1>0, <2>1, <2>2, MoveMapsToPhase
  <2>4. Breaker!FailOpen(t)
    BY <2>1, <2>2, <2>3 DEF Breaker!FailOpen, Breaker!Goto, Breaker!Leave
  <2>5. QED
    BY <2>4 DEF Breaker!ThreadStep
<1>7. CASE Provision(t)
  <2>1. /\ stage[t] = "provision" /\ ~ mock /\ conn[t] = "out"
        /\ UNCHANGED <<mock, budgetVars, linkVars>>
        /\ PhaseOf("provision") = "admitted" /\ PhaseOf("infer") = "admitted"
        /\ PhaseOf("idle") = "idle" /\ PhaseOf("raised") = "idle"
    BY <1>7, Places DEF Provision, PhaseOf, MockIsFree, Asking
  <2>2. /\ conn' = conn
        /\ \/ stage' = [stage EXCEPT ![t] = "infer"]
           \/ stage' = [stage EXCEPT ![t] = "idle"]
           \/ stage' = [stage EXCEPT ![t] = "raised"]
    BY <1>7, <2>1, Places DEF Provision, Asking
  <2>3. CASE stage' = [stage EXCEPT ![t] = "infer"]
    <3>1. BudgetPc' = BudgetPc
      BY <1>0, <2>1, <2>3 DEF RequestTypes, BudgetPc, PhaseOf
    <3>2. QED
      BY <2>1, <2>2, <3>1 DEF Breaker!vars, Breaker!clientVars, linkVars,
                              budgetVars
  <2>4. CASE stage' # [stage EXCEPT ![t] = "infer"]
    BY <2>1, <2>2, <2>4, AbandonMaps
  <2>5. QED
    BY <2>3, <2>4
<1>8. CASE Answer(t)
  <2>1. /\ stage[t] = "infer" /\ ~ mock /\ conn[t] = "out"
        /\ UNCHANGED <<mock, today, used, linkVars>>
        /\ PhaseOf("infer") = "admitted" /\ PhaseOf("put") = "idle"
        /\ PhaseOf("recording") = "recording"
    BY <1>8, Places DEF Answer, PhaseOf, Asking
  <2>2. CASE VlmDailyBudget = 0
    <3>1. Goto(t, "put") /\ UNCHANGED <<day, answered>>
      BY <1>8, <2>2 DEF Answer
    <3>2. stage' = [stage EXCEPT ![t] = "put"] /\ conn' = conn
      BY <2>1, <3>1, Places DEF Asking
    <3>3. QED
      BY <2>1, <3>1, <3>2, AbandonMaps DEF budgetVars
  <2>3. CASE VlmDailyBudget # 0
    <3>1. /\ Goto(t, "recording")
          /\ day' = [day EXCEPT ![t] = today]
          /\ answered' = [answered EXCEPT ![today] = @ + 1]
          /\ VlmDailyBudget > 0
      BY <1>8, <2>3, PipelineAssumption DEF Answer
    <3>2. stage' = [stage EXCEPT ![t] = "recording"] /\ Breaker!Ask(t)
      BY <2>1, <3>1, Places, SameClient DEF Asking
    <3>3. /\ BudgetPc[t] = "admitted"
          /\ BudgetPc' = [BudgetPc EXCEPT ![t] = "recording"]
      BY <1>0, <2>1, <3>2, MoveMapsToPhase
    <3>4. Breaker!StartRecord(t)
      BY <2>1, <3>1, <3>2, <3>3
         DEF Breaker!StartRecord, Breaker!Goto, Breaker!linkVars, linkVars
    <3>5. QED
      BY <3>4 DEF Breaker!ThreadStep
  <2>4. QED
    BY <2>2, <2>3
<1>9. CASE InferenceRaises(t)
  <2>1. /\ stage[t] = "infer" /\ conn[t] = "out"
        /\ UNCHANGED <<mock, budgetVars, linkVars>>
        /\ Goto(t, "raised")
        /\ PhaseOf("infer") = "admitted" /\ PhaseOf("raised") = "idle"
    BY <1>9, Places DEF InferenceRaises, PhaseOf, Asking
  <2>2. stage' = [stage EXCEPT ![t] = "raised"] /\ conn' = conn
    BY <2>1, Places DEF Asking
  <2>3. QED
    BY <2>1, <2>2, AbandonMaps
<1>10. CASE FinishRecord(t)
  <2>1. /\ stage[t] = "recording" /\ Told(t) /\ Goto(t, "put")
        /\ used' = [used EXCEPT ![StoreOf(t)][day[t]] = @ + 1]
        /\ day' = [day EXCEPT ![t] = 0]
        /\ UNCHANGED <<mock, today, answered, linkVars>>
        /\ PhaseOf("recording") = "recording" /\ PhaseOf("put") = "idle"
    BY <1>10 DEF FinishRecord, InStage, Asking, Leave, PhaseOf
  <2>2. stage' = [stage EXCEPT ![t] = "put"] /\ Breaker!Done(t)
    BY <2>1, Places, SameClient DEF Asking
  <2>3. /\ BudgetPc[t] = "recording"
        /\ BudgetPc' = [BudgetPc EXCEPT ![t] = "idle"]
    BY <1>0, <2>1, <2>2, MoveMapsToPhase
  <2>4. Breaker!FinishRecord(t)
    BY <2>1, <2>2, <2>3, SameClient
       DEF Breaker!FinishRecord, Breaker!Goto, Breaker!Leave
  <2>5. QED
    BY <2>4 DEF Breaker!ThreadStep
<1>11. CASE LoseRecord(t)
  <2>1. /\ stage[t] = "recording" /\ conn[t] = "redis" /\ Told(t)
        /\ Goto(t, "put") /\ Fault
        /\ UNCHANGED <<mock, today, used, answered, resolved, connected>>
        /\ day' = [day EXCEPT ![t] = 0]
        /\ PhaseOf("recording") = "recording" /\ PhaseOf("put") = "idle"
    BY <1>11 DEF LoseRecord, Leave, PhaseOf, Told
  <2>2. /\ stage' = [stage EXCEPT ![t] = "put"]
        /\ Breaker!Done(t) /\ Breaker!Fault
    BY <2>1, Places, SameClient DEF Asking
  <2>3. /\ BudgetPc[t] = "recording"
        /\ BudgetPc' = [BudgetPc EXCEPT ![t] = "idle"]
    BY <1>0, <2>1, <2>2, MoveMapsToPhase
  <2>4. Breaker!LoseRecord(t)
    BY <2>1, <2>2, <2>3 DEF Breaker!LoseRecord, Breaker!Goto, Breaker!Leave
  <2>5. QED
    BY <2>4 DEF Breaker!ThreadStep
<1>12. QED
  BY <1>1, <1>2, <1>3, <1>4, <1>5, <1>6, <1>7, <1>8, <1>9, <1>10, <1>11,
     IdleStagesMap DEF Serve

(* Every step of the pipeline is a step of Budget, or none.                *)
LEMMA StepMapsToBudget ==
    ASSUME TypeOK, MockIsFree, [Next]_vars
    PROVE  [Breaker!Next]_(Breaker!vars)
<1>0. RequestTypes /\ mock \in BOOLEAN
  BY DEF TypeOK, RequestTypes
<1>1. ASSUME NEW t \in Threads, Arrive(t)
      PROVE  Breaker!ThreadStep(t) \/ UNCHANGED Breaker!vars
  <2>1. /\ stage[t] = "idle" /\ UNCHANGED <<mock, budgetVars, linkVars, conn>>
        /\ stage' = [stage EXCEPT ![t] = "prepare"]
        /\ PhaseOf("idle") = "idle" /\ PhaseOf("prepare") = "idle"
    BY <1>1 DEF Arrive, PhaseOf, clientVars, linkVars
  <2>2. QED
    BY <2>1, IdleSteps
<1>2. ASSUME NEW t \in Threads, Disconnect(t)
      PROVE  Breaker!ThreadStep(t) \/ UNCHANGED Breaker!vars
  <2>1. /\ stage[t] \in AtYield /\ conn[t] = "out" /\ Finish(t)
        /\ UNCHANGED <<mock, budgetVars, linkVars>>
        /\ PhaseOf("idle") = "idle"
    BY <1>2 DEF Disconnect, PhaseOf
  <2>2. stage' = [stage EXCEPT ![t] = "idle"] /\ conn' = conn
    BY <2>1, Places
  <2>3. PhaseOf(stage[t]) \in {"idle", "admitted"}
    BY <2>1 DEF AtYield, PhaseOf
  <2>4. CASE PhaseOf(stage[t]) = "idle"
    BY <2>1, <2>2, <2>4, IdleSteps
  <2>5. CASE PhaseOf(stage[t]) = "admitted"
    BY <2>1, <2>2, <2>5, AbandonMaps
  <2>6. QED
    BY <2>3, <2>4, <2>5
<1>3. ASSUME NEW s \in Stores, NEW k \in Keys, Forget(s, k)
      PROVE  UNCHANGED Breaker!vars
  BY <1>3 DEF Forget, BudgetPc, PhaseOf, Breaker!vars, Breaker!clientVars,
              clientVars, budgetVars
<1>4. ASSUME NextDay PROVE Breaker!NextDay
  BY <1>4 DEF NextDay, Breaker!NextDay, BudgetPc, PhaseOf, Breaker!clientVars,
              clientVars
<1>5. ASSUME NEW i \in Instances, Restart(i)
      PROVE  Breaker!Restart(i)
  <2>1. BudgetPc' = [t \in Threads |-> IF Home[t] = i THEN "idle" ELSE BudgetPc[t]]
    BY <1>5 DEF Restart, BudgetPc, PhaseOf
  <2>2. Breaker!Reboot(i)
    BY <1>5 DEF Restart, Reboot, Breaker!Reboot, MayFail, Breaker!MayFail
  <2>3. /\ used' = [used EXCEPT ![i] = [d \in Day |-> 0]]
        /\ day' = [t \in Threads |-> IF Home[t] = i THEN 0 ELSE day[t]]
        /\ UNCHANGED <<today, answered>>
    BY <1>5 DEF Restart
  <2>4. QED
    BY <2>1, <2>2, <2>3 DEF Breaker!Restart, Breaker!Day, Day
<1>6. ASSUME UNCHANGED vars PROVE UNCHANGED Breaker!vars
  BY <1>6 DEF vars, BudgetPc, PhaseOf, Breaker!vars, Breaker!clientVars,
              clientVars
<1>7. CASE \E t \in Threads : Arrive(t) \/ Serve(t) \/ Disconnect(t)
  BY <1>1, <1>2, <1>7, ServeMapsToBudget DEF Breaker!Next
<1>8. CASE \E s \in Stores, k \in Keys : Forget(s, k)
  BY <1>3, <1>8
<1>9. CASE NextDay \/ (\E i \in Instances : Restart(i))
  BY <1>4, <1>5, <1>9 DEF Breaker!Next
<1>10. QED
  BY <1>6, <1>7, <1>8, <1>9 DEF Next

(* The pipeline, with its cache, its screens, its disconnects and its      *)
(* crashes, uses the breaker exactly as module Budget says.                *)
THEOREM PipelineFollowsBudget == Spec => BudgetProtocol
<1>1. Init => Breaker!Init
  BY DEF Init, ClientInit, Breaker!Init, Breaker!ClientInit, BudgetPc, PhaseOf,
         Day, Breaker!Day, Stores, Breaker!Stores
<1>2. CostInv /\ [Next]_vars => [Breaker!Next]_(Breaker!vars)
  BY StepMapsToBudget DEF CostInv
<1>3. Spec => []CostInv
  BY InitCostInv, StepCostInv, PipelineTypes, PTL DEF Spec
<1>4. QED
  BY <1>1, <1>2, <1>3, PTL DEF Spec, BudgetProtocol, Breaker!Spec

-----------------------------------------------------------------------------
(* ScreenedFirst is not inductive: a request that has yet to pass the      *)
(* screens must be known to hold only verdicts given on its own key, so a  *)
(* thread that is idle holds none, and a screen that has let a request     *)
(* through has let its key through.                                        *)
OwnVerdicts(t) ==
    /\ stage[t] = "idle" => verdict[t] = Unasked
    /\ \A s \in Screens : verdict[t][s] = "allow" => s \in cleared[key[t]]
    /\ stage[t] \in PastScreens => Allowed(t)

CacheIsCleared == \A s \in Stores : \A k \in cache[s] : cleared[k] = Screens

ScreenedInv ==
    /\ TypeOK
    /\ CacheIsCleared
    /\ \A t \in Threads : OwnVerdicts(t)

(* A thread goes on: past the screens only with both verdicts.             *)
LEMMA GotoKeepsVerdicts ==
    ASSUME ScreenedInv, NEW t \in Threads, NEW z \in Stage \ {"idle"},
           stage' = [stage EXCEPT ![t] = z], z \in PastScreens => Allowed(t),
           UNCHANGED <<verdict, key, cleared>>
    PROVE  \A u \in Threads : OwnVerdicts(u)'
<1> SUFFICES ASSUME NEW u \in Threads PROVE OwnVerdicts(u)'
  OBVIOUS
<1>1. OwnVerdicts(u) /\ stage \in [Threads -> Stage]
  BY DEF ScreenedInv, TypeOK, RequestTypes
<1>2. verdict' = verdict /\ key' = key /\ cleared' = cleared
  OBVIOUS
<1>3. stage'[u] = IF u = t THEN z ELSE stage[u]
  BY <1>1
<1>4. QED
  BY <1>1, <1>2, <1>3 DEF OwnVerdicts, Allowed, Unasked

(* A thread whose request is over forgets its verdicts.                    *)
LEMMA FinishKeepsVerdicts ==
    ASSUME ScreenedInv, NEW t \in Threads, Finish(t),
           UNCHANGED <<key, cleared>>
    PROVE  \A u \in Threads : OwnVerdicts(u)'
<1> SUFFICES ASSUME NEW u \in Threads PROVE OwnVerdicts(u)'
  OBVIOUS
<1>1. /\ OwnVerdicts(u)
      /\ stage \in [Threads -> Stage]
      /\ verdict \in [Threads -> [Screens -> {"pending", "allow", "block"}]]
  BY DEF ScreenedInv, TypeOK, RequestTypes
<1>2. key' = key /\ cleared' = cleared
  OBVIOUS
<1>3. /\ stage'[u] = IF u = t THEN "idle" ELSE stage[u]
      /\ verdict'[u] = IF u = t THEN Unasked ELSE verdict[u]
  BY <1>1 DEF Finish
<1>4. CASE u = t
  BY <1>2, <1>3, <1>4 DEF OwnVerdicts, Unasked, PastScreens
<1>5. CASE u # t
  BY <1>1, <1>2, <1>3, <1>5 DEF OwnVerdicts, Allowed, Unasked
<1>6. QED
  BY <1>4, <1>5

(* A screen answers; one that lets the request through lets its key.       *)
LEMMA ScreenKeepsVerdicts ==
    ASSUME ScreenedInv, NEW t \in Threads, NEW s \in Screens, ScreenDone(t, s)
    PROVE  CacheIsCleared' /\ \A u \in Threads : OwnVerdicts(u)'
<1>1. /\ key \in [Threads -> Keys]
      /\ verdict \in [Threads -> [Screens -> {"pending", "allow", "block"}]]
      /\ cleared \in [Keys -> SUBSET Screens]
      /\ cache \in [Stores -> SUBSET Keys]
  BY DEF ScreenedInv, TypeOK, RequestTypes, CostTypes
<1>2. stage' = stage /\ key' = key /\ cache' = cache
  BY DEF ScreenDone, costVars
<1>3. PICK v \in {"allow", "block"} :
         /\ verdict' = [verdict EXCEPT ![t][s] = v]
         /\ v = "allow" => cleared' = [cleared EXCEPT ![key[t]] = @ \cup {s}]
         /\ v = "block" => cleared' = cleared
  BY DEF ScreenDone
<1>4. \A k \in Keys : cleared[k] \subseteq cleared'[k] /\ cleared'[k] \subseteq Screens
  BY <1>1, <1>3
<1>5. CacheIsCleared'
  BY <1>1, <1>2, <1>4 DEF CacheIsCleared, ScreenedInv
<1>6. ASSUME NEW u \in Threads PROVE OwnVerdicts(u)'
  <2>1. OwnVerdicts(u) /\ key[u] \in Keys
    BY <1>1 DEF ScreenedInv
  <2>2. CASE u = t
    <3>1. stage[t] = "screen" /\ verdict'[t] = [verdict[t] EXCEPT ![s] = v]
      BY <1>1, <1>3 DEF ScreenDone
    <3>2. ASSUME NEW r \in Screens, verdict'[t][r] = "allow"
          PROVE  r \in cleared'[key[t]]
      <4>1. CASE r = s
        BY <1>1, <1>3, <3>1, <3>2, <4>1
      <4>2. CASE r # s
        <5>1. verdict[t][r] = "allow"
          BY <1>1, <3>1, <3>2, <4>2
        <5>2. QED
          BY <1>4, <2>1, <2>2, <5>1 DEF OwnVerdicts
      <4>3. QED
        BY <4>1, <4>2
    <3>3. QED
      BY <1>2, <2>2, <3>1, <3>2 DEF OwnVerdicts, PastScreens
  <2>3. CASE u # t
    <3>1. verdict'[u] = verdict[u]
      BY <1>1, <1>3, <2>3
    <3>2. QED
      BY <1>2, <1>4, <2>1, <3>1 DEF OwnVerdicts, Allowed, Unasked
  <2>4. QED
    BY <2>2, <2>3
<1>7. QED
  BY <1>5, <1>6

(* A step that leaves what screening is about alone.                       *)
LEMMA FrameKeepsVerdicts ==
    ASSUME ScreenedInv, UNCHANGED <<stage, key, verdict, cleared>>
    PROVE  \A u \in Threads : OwnVerdicts(u)'
BY DEF ScreenedInv, OwnVerdicts, Allowed, Unasked

(* A cache that gains nothing gains nothing that was not screened.         *)
LEMMA CacheStaysCleared ==
    ASSUME CacheIsCleared, \A s \in Stores : cache'[s] \subseteq cache[s],
           UNCHANGED cleared
    PROVE  CacheIsCleared'
BY DEF CacheIsCleared

(* A step that serves a request without storing an answer: the request goes*)
(* on, past the screens only if it was, or has both verdicts; or it ends.  *)
MovesOn(t) ==
    /\ \/ Finish(t)
       \/ /\ UNCHANGED verdict
          /\ \E z \in Stage \ {"idle"} :
                /\ stage' = [stage EXCEPT ![t] = z]
                /\ z \in PastScreens => stage[t] \in PastScreens \/ Allowed(t)
    /\ UNCHANGED <<key, cache, cleared>>

LEMMA MovesOnKeepsVerdicts ==
    ASSUME ScreenedInv, NEW t \in Threads, MovesOn(t)
    PROVE  CacheIsCleared' /\ \A u \in Threads : OwnVerdicts(u)'
<1>1. CacheIsCleared' /\ OwnVerdicts(t)
  BY CacheStaysCleared DEF ScreenedInv, MovesOn
<1>2. CASE Finish(t)
  BY <1>1, <1>2, FinishKeepsVerdicts DEF MovesOn
<1>3. CASE ~ Finish(t)
  <2>1. PICK z \in Stage \ {"idle"} :
           /\ stage' = [stage EXCEPT ![t] = z]
           /\ z \in PastScreens => stage[t] \in PastScreens \/ Allowed(t)
    BY <1>3 DEF MovesOn
  <2>2. z \in PastScreens => Allowed(t)
    BY <1>1, <2>1 DEF OwnVerdicts
  <2>3. UNCHANGED <<verdict, key, cleared>>
    BY <1>3 DEF MovesOn
  <2>4. QED
    BY <1>1, <2>1, <2>2, <2>3, GotoKeepsVerdicts
<1>4. QED
  BY <1>2, <1>3

LEMMA ServeMovesOn ==
    ASSUME NEW t \in Threads,
           \/ Quiet(t) \/ BlindLookup(t) \/ Proceed(t) \/ FinishCheck(t)
           \/ FailOpen(t) \/ Answer(t) \/ FinishRecord(t) \/ LoseRecord(t)
           \/ PutFails(t)
    PROVE  MovesOn(t)
<1> USE DEF MovesOn, Stage, PastScreens, Goto, Miss
<1>1. CASE PassGate(t)
  <2>1. PICK g \in Gates : Goto(t, NextGate(g))
    BY <1>1 DEF PassGate
  <2>2. NextGate(g) \in {"ratelimit", "sanitize", "screen", "lookup"}
    BY DEF Gates, NextGate
  <2>3. QED
    BY <1>1, <2>1, <2>2 DEF PassGate, costVars
<1>2. CASE Refuse(t) \/ Block(t) \/ MockAnswer(t) \/ GiveUp(t) \/ PutFails(t)
  BY <1>2 DEF Refuse, Block, MockAnswer, GiveUp, PutFails, costVars
<1>3. CASE Lookup(t) \/ BlindLookup(t)
  BY <1>3 DEF Lookup, BlindLookup, costVars
<1>4. CASE Proceed(t)
  BY <1>4 DEF Proceed, EnterBudget, costVars
<1>5. CASE FinishCheck(t) \/ FailOpen(t)
  BY <1>5 DEF FinishCheck, FailOpen, InStage, costVars
<1>6. CASE Provision(t) \/ InferenceRaises(t)
  BY <1>6 DEF Provision, InferenceRaises, costVars
<1>7. CASE Answer(t)
  BY <1>7 DEF Answer
<1>8. CASE FinishRecord(t) \/ LoseRecord(t)
  BY <1>8 DEF FinishRecord, LoseRecord, InStage, costVars
<1>9. QED
  BY <1>1, <1>2, <1>3, <1>4, <1>5, <1>6, <1>7, <1>8 DEF Quiet

(* Every step of the server keeps the verdicts and the caches in order.    *)
LEMMA ServeKeepsScreened ==
    ASSUME ScreenedInv, NEW t \in Threads, Serve(t)
    PROVE  CacheIsCleared' /\ \A u \in Threads : OwnVerdicts(u)'
<1>0. /\ CacheIsCleared
      /\ OwnVerdicts(t)
      /\ TypeOK
  BY DEF ScreenedInv
<1>1. ASSUME NEW s \in Screens, ScreenDone(t, s)
      PROVE  CacheIsCleared' /\ \A u \in Threads : OwnVerdicts(u)'
  BY <1>1, ScreenKeepsVerdicts
<1>2. CASE Client(t) \/ StartPut(t)
  <2>1. UNCHANGED <<stage, key, verdict, cleared, cache>>
    BY <1>2 DEF Client, StartPut, costVars
  <2>2. CacheIsCleared'
    BY <1>0, <2>1, CacheStaysCleared
  <2>3. QED
    BY <2>1, <2>2, FrameKeepsVerdicts
<1>3. CASE Put(t)
  <2>1. /\ cleared \in [Keys -> SUBSET Screens] /\ key[t] \in Keys
        /\ cache \in [Stores -> SUBSET Keys]
    BY <1>0 DEF TypeOK, RequestTypes, CostTypes
  <2>2. cleared[key[t]] = Screens
    BY <1>0, <1>3, <2>1 DEF Put, OwnVerdicts, PastScreens, Allowed
  <2>3. /\ cache' = [cache EXCEPT ![StoreOf(t)] = @ \cup {key[t]}]
        /\ cleared' = cleared
    BY <1>3 DEF Put
  <2>4. CacheIsCleared'
    BY <1>0, <2>1, <2>2, <2>3 DEF CacheIsCleared
  <2>5. QED
    BY <1>3, <2>4, FinishKeepsVerdicts DEF Put
<1>4. CASE \/ Quiet(t) \/ BlindLookup(t) \/ Proceed(t) \/ FinishCheck(t)
           \/ FailOpen(t) \/ Answer(t) \/ FinishRecord(t) \/ LoseRecord(t)
           \/ PutFails(t)
  BY <1>4, ServeMovesOn, MovesOnKeepsVerdicts
<1>5. QED
  BY <1>1, <1>2, <1>3, <1>4 DEF Serve, Quiet

(* So does every step of the system.                                       *)
LEMMA StepKeepsScreened == ScreenedInv /\ [Next]_vars => ScreenedInv'
<1> SUFFICES ASSUME ScreenedInv, [Next]_vars PROVE ScreenedInv'
  OBVIOUS
<1>0. /\ TypeOK' /\ CacheIsCleared
      /\ stage \in [Threads -> Stage]
      /\ key \in [Threads -> Keys]
      /\ cache \in [Stores -> SUBSET Keys]
      /\ \A u \in Threads : OwnVerdicts(u)
  BY StepTypeOK DEF ScreenedInv, TypeOK, RequestTypes, CostTypes
<1>1. ASSUME NEW t \in Threads, Arrive(t)
      PROVE  CacheIsCleared' /\ \A u \in Threads : OwnVerdicts(u)'
  <2>1. verdict' = verdict /\ cleared' = cleared /\ cache' = cache
    BY <1>1 DEF Arrive, costVars
  <2>2. ASSUME NEW u \in Threads PROVE OwnVerdicts(u)'
    <3>1. CASE u = t
      <4>1. stage'[t] = "prepare" /\ verdict[t] = Unasked
        BY <1>0, <1>1 DEF Arrive, OwnVerdicts
      <4>2. QED
        BY <2>1, <3>1, <4>1 DEF OwnVerdicts, Unasked, PastScreens
    <3>2. CASE u # t
      <4>1. stage'[u] = stage[u] /\ key'[u] = key[u]
        BY <1>0, <1>1, <3>2 DEF Arrive
      <4>2. QED
        BY <1>0, <2>1, <4>1 DEF OwnVerdicts, Allowed, Unasked
    <3>3. QED
      BY <3>1, <3>2
  <2>3. CacheIsCleared'
    BY <1>0, <2>1, CacheStaysCleared
  <2>4. QED
    BY <2>2, <2>3
<1>2. ASSUME NEW t \in Threads, Disconnect(t)
      PROVE  CacheIsCleared' /\ \A u \in Threads : OwnVerdicts(u)'
  <2>1. MovesOn(t)
    BY <1>2 DEF Disconnect, MovesOn
  <2>2. QED
    BY <2>1, MovesOnKeepsVerdicts
<1>3. ASSUME NEW r \in Stores, NEW k \in Keys, Forget(r, k)
      PROVE  CacheIsCleared' /\ \A u \in Threads : OwnVerdicts(u)'
  <2>1. \A s \in Stores : cache'[s] \subseteq cache[s]
    BY <1>0, <1>3 DEF Forget
  <2>2. UNCHANGED <<stage, key, verdict, cleared>>
    BY <1>3 DEF Forget
  <2>3. CacheIsCleared'
    BY <1>0, <2>1, <2>2, CacheStaysCleared
  <2>4. QED
    BY <2>2, <2>3, FrameKeepsVerdicts
<1>4. ASSUME NextDay \/ UNCHANGED vars
      PROVE  CacheIsCleared' /\ \A u \in Threads : OwnVerdicts(u)'
  <2>1. UNCHANGED <<stage, key, verdict, cache, cleared>>
    BY <1>4 DEF NextDay, vars, costVars
  <2>2. CacheIsCleared'
    BY <1>0, <2>1, CacheStaysCleared
  <2>3. QED
    BY <2>1, <2>2, FrameKeepsVerdicts
<1>5. ASSUME NEW i \in Instances, Restart(i)
      PROVE  CacheIsCleared' /\ \A u \in Threads : OwnVerdicts(u)'
  <2>1. \A s \in Stores : cache'[s] \subseteq cache[s]
    BY <1>0, <1>5 DEF Restart
  <2>2. cleared' = cleared /\ key' = key
    BY <1>5 DEF Restart
  <2>3. CacheIsCleared'
    BY <1>0, <2>1, <2>2, CacheStaysCleared
  <2>4. ASSUME NEW u \in Threads PROVE OwnVerdicts(u)'
    <3>1. /\ stage'[u] = IF Home[u] = i THEN "idle" ELSE stage[u]
          /\ verdict'[u] = IF Home[u] = i THEN Unasked ELSE verdict[u]
      BY <1>5 DEF Restart
    <3>2. CASE Home[u] = i
      BY <2>2, <3>1, <3>2 DEF OwnVerdicts, Unasked, PastScreens
    <3>3. CASE Home[u] # i
      BY <1>0, <2>2, <3>1, <3>3 DEF OwnVerdicts, Allowed, Unasked
    <3>4. QED
      BY <3>2, <3>3
  <2>5. QED
    BY <2>3, <2>4
<1>6. CacheIsCleared' /\ \A u \in Threads : OwnVerdicts(u)'
  <2>1. CASE \E t \in Threads : Arrive(t) \/ Serve(t) \/ Disconnect(t)
    BY <1>1, <1>2, <2>1, ServeKeepsScreened
  <2>2. CASE \E s \in Stores, k \in Keys : Forget(s, k)
    BY <1>3, <2>2
  <2>3. CASE \E i \in Instances : Restart(i)
    BY <1>5, <2>3
  <2>4. QED
    BY <1>4, <2>1, <2>2, <2>3 DEF Next
<1>7. QED
  BY <1>0, <1>6 DEF ScreenedInv

(* The invariant is stronger than what is wanted.                          *)
LEMMA ScreenedInvGives == ScreenedInv => ScreenedFirst
<1> SUFFICES ASSUME ScreenedInv PROVE ScreenedFirst
  OBVIOUS
<1>1. ASSUME NEW t \in Threads, stage[t] \in PastScreens
      PROVE  Allowed(t) /\ cleared[key[t]] = Screens
  <2>1. cleared[key[t]] \subseteq Screens
    BY DEF ScreenedInv, TypeOK, RequestTypes, CostTypes
  <2>2. QED
    BY <1>1, <2>1 DEF ScreenedInv, OwnVerdicts, Allowed
<1>2. QED
  BY <1>1 DEF ScreenedInv, CacheIsCleared, ScreenedFirst

(* Nothing is cached, or past the screens, that the guard and the chart    *)
(* gate have not each let through, in whatever order the two futures       *)
(* complete (app.py:280-318).                                              *)
THEOREM PipelineScreensFirst == Spec => []ScreenedFirst
<1>1. Init => ScreenedInv
  <2> SUFFICES ASSUME Init PROVE ScreenedInv
    OBVIOUS
  <2>1. \A t \in Threads : OwnVerdicts(t)
    BY DEF Init, OwnVerdicts, Unasked, PastScreens
  <2>2. CacheIsCleared
    BY DEF Init, CacheIsCleared
  <2>3. QED
    BY <2>1, <2>2, InitTypeOK DEF ScreenedInv
<1>2. QED
  BY <1>1, StepKeepsScreened, ScreenedInvGives, PTL DEF Spec

=============================================================================
