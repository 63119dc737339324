---------------------------- MODULE BudgetProofs ----------------------------
(***************************************************************************)
(* What Budget claims, for every number of threads and instances, every    *)
(* budget, with and without a Redis, and any number of days and faults.    *)
(***************************************************************************)
EXTENDS Budget, FiniteSetTheorems, TLAPS

(* Every set of threads is finite and no larger than Threads.              *)
LEMMA ThreadSubset ==
    ASSUME NEW S \in SUBSET Threads
    PROVE  /\ IsFiniteSet(S)
           /\ Cardinality(S) \in Nat
           /\ Cardinality(S) <= Cardinality(Threads)
BY ClientAssumption, FS_Subset, FS_CardinalityType

(* Cardinality is monotone on sets of threads.                             *)
LEMMA CardMono ==
    ASSUME NEW S \in SUBSET Threads, NEW T \in SUBSET S
    PROVE  Cardinality(T) <= Cardinality(S)
BY ThreadSubset, FS_Subset

(* A thread that was not there adds exactly one.                           *)
LEMMA CardAdd ==
    ASSUME NEW S \in SUBSET Threads, NEW t \in Threads, t \notin S
    PROVE  Cardinality(S \cup {t}) = Cardinality(S) + 1
BY ThreadSubset, FS_AddElement

(* One more thread adds at most one.                                       *)
LEMMA CardGrow ==
    ASSUME NEW S \in SUBSET Threads, NEW T, NEW t \in Threads,
           T \subseteq S \cup {t}
    PROVE  Cardinality(T) <= Cardinality(S) + 1
<1>1. /\ IsFiniteSet(S)
      /\ Cardinality(S) \in Nat
  BY ThreadSubset
<1>2. Cardinality(S \cup {t}) <= Cardinality(S) + 1
  <2>1. CASE t \in S
    <3>1. S \cup {t} = S
      BY <2>1
    <3>2. QED
      BY <3>1, <1>1
  <2>2. CASE t \notin S
    <3>1. Cardinality(S \cup {t}) = Cardinality(S) + 1
      BY <2>2, CardAdd
    <3>2. QED
      BY <3>1, <1>1
  <2>3. QED
    BY <2>1, <2>2
<1>3. /\ IsFiniteSet(S \cup {t})
      /\ S \cup {t} \in SUBSET Threads
  BY <1>1, FS_AddElement
<1>4. Cardinality(T) <= Cardinality(S \cup {t})
  BY <1>3, FS_Subset
<1>5. /\ Cardinality(T) \in Nat
      /\ Cardinality(S \cup {t}) \in Nat
  BY <1>3, ThreadSubset
<1>6. QED
  BY <1>1, <1>2, <1>4, <1>5

(* A thread that was there takes exactly one with it.                      *)
LEMMA CardRemove ==
    ASSUME NEW S \in SUBSET Threads, NEW t \in S
    PROVE  Cardinality(S \ {t}) = Cardinality(S) - 1
BY ThreadSubset, FS_RemoveElement

-----------------------------------------------------------------------------
(* The types of the client's variables, kept by each of its steps and by   *)
(* the two steps its consumers make in it.                                 *)
LEMMA ResolveTypes ==
    ASSUME ClientTypes, NEW t \in Threads, Resolve(t)
    PROVE  ClientTypes'
<1> USE ClientAssumption DEF ClientTypes, At, linkVars
<1>1. CASE Return(t)
  BY <1>1 DEF Return
<1>2. CASE FindUnresolved(t)
  BY <1>2 DEF FindUnresolved
<1>3. CASE Claim(t)
  BY <1>3 DEF Claim
<1>4. CASE PingAnswers(t)
  BY <1>4 DEF PingAnswers
<1>5. CASE PingFails(t)
  BY <1>5 DEF PingFails, MayFail
<1>6. QED
  BY <1>1, <1>2, <1>3, <1>4, <1>5 DEF Resolve

LEMMA AskTypes ==
    ASSUME ClientTypes, NEW t \in Threads, Ask(t) \/ Done(t),
           UNCHANGED <<resolved, connected>>,
           \/ UNCHANGED <<faults, resets>>
           \/ Fault
    PROVE  ClientTypes'
BY ClientAssumption DEF ClientTypes, At, Ask, Done, Fault, MayFail

LEMMA RebootTypes ==
    ASSUME ClientTypes, NEW i \in Instances, Reboot(i)
    PROVE  ClientTypes'
BY ClientAssumption DEF ClientTypes, Reboot, MayFail

(* The type invariant of Budget holds in every state.                      *)
THEOREM TypeCorrect == Spec => []TypeOK
<1>1. Init => TypeOK
  BY ClientAssumption, BudgetAssumption
     DEF Init, ClientInit, ClientTypes, TypeOK, Day, Phase
<1>2. TypeOK /\ [Next]_vars => TypeOK'
  <2> SUFFICES ASSUME TypeOK, [Next]_vars
               PROVE  TypeOK'
    OBVIOUS
  <2> USE ClientAssumption, BudgetAssumption
      DEF TypeOK, Day, Phase, Goto, Leave
  <2>1. ASSUME NEW t \in Threads, StartCheck(t) PROVE TypeOK'
    <3>1. ClientTypes'
      BY <2>1, AskTypes DEF StartCheck, linkVars
    <3>2. QED
      BY <2>1, <3>1 DEF StartCheck, Ask, At, ClientTypes
  <2>2. ASSUME NEW t \in Threads, SkipCheck(t) PROVE TypeOK'
    BY <2>2 DEF SkipCheck, clientVars, ClientTypes
  <2>3. ASSUME NEW t \in Threads, FinishCheck(t) PROVE TypeOK'
    <3>1. ClientTypes'
      BY <2>3, AskTypes DEF FinishCheck, linkVars
    <3>2. QED
      BY <2>3, <3>1 DEF FinishCheck, Done, At, ClientTypes
  <2>4. ASSUME NEW t \in Threads, FailOpen(t) PROVE TypeOK'
    <3>1. ClientTypes'
      BY <2>4, AskTypes DEF FailOpen
    <3>2. QED
      BY <2>4, <3>1 DEF FailOpen, Done, At, ClientTypes
  <2>5. ASSUME NEW t \in Threads, Abandon(t) PROVE TypeOK'
    BY <2>5 DEF Abandon, clientVars, ClientTypes
  <2>6. ASSUME NEW t \in Threads, StartRecord(t) PROVE TypeOK'
    <3>1. ClientTypes'
      BY <2>6, AskTypes DEF StartRecord, linkVars
    <3>2. answered' \in [Day -> Nat]
      BY <2>6 DEF StartRecord
    <3>3. /\ pc' = [pc EXCEPT ![t] = "recording"]
          /\ conn' = [conn EXCEPT ![t] = "call"]
          /\ day' = [day EXCEPT ![t] = today]
          /\ UNCHANGED <<today, used>>
      BY <2>6 DEF StartRecord, Ask, At
    <3>4. ASSUME NEW u \in Threads
          PROVE  /\ pc'[u] \in {"checking", "recording"} => conn'[u] # "out"
                 /\ pc'[u] = "admitted" => conn'[u] = "out"
      BY <3>3 DEF ClientTypes
    <3>5. /\ today' \in Day
          /\ pc' \in [Threads -> Phase]
          /\ day' \in [Threads -> Day]
      BY <3>3
    <3>6. QED
      BY <3>1, <3>2, <3>3, <3>4, <3>5
  <2>7. ASSUME NEW t \in Threads, FinishRecord(t) PROVE TypeOK'
    <3>1. ClientTypes'
      BY <2>7, AskTypes DEF FinishRecord, linkVars
    <3>2. StoreOf(t) \in Stores /\ day[t] \in Day
      BY <2>7 DEF FinishRecord, Done, Told, StoreOf, Stores, ClientTypes
    <3>3. PICK s0 \in Stores, d0 \in Day :
              used' = [used EXCEPT ![s0][d0] = @ + 1]
      BY <2>7, <3>2 DEF FinishRecord
    <3>4. used[s0] \in [Day -> Nat]
      OBVIOUS
    <3>5. [used[s0] EXCEPT ![d0] = @ + 1] \in [Day -> Nat]
      BY <3>4
    <3>6. used' \in [Stores -> [Day -> Nat]]
      BY <3>3, <3>5
    <3>7. /\ pc' = [pc EXCEPT ![t] = "idle"]
          /\ conn' = [conn EXCEPT ![t] = "out"]
          /\ day' = [day EXCEPT ![t] = 0]
          /\ UNCHANGED <<today, answered>>
      BY <2>7 DEF FinishRecord, Done, At
    <3>8. ASSUME NEW u \in Threads
          PROVE  /\ pc'[u] \in {"checking", "recording"} => conn'[u] # "out"
                 /\ pc'[u] = "admitted" => conn'[u] = "out"
      BY <3>7 DEF ClientTypes
    <3>9. /\ today' \in Day
          /\ pc' \in [Threads -> Phase]
          /\ day' \in [Threads -> Day]
      BY <3>7
    <3>10. QED
      BY <3>1, <3>6, <3>7, <3>8, <3>9
  <2>8. ASSUME NEW t \in Threads, LoseRecord(t) PROVE TypeOK'
    <3>1. ClientTypes'
      BY <2>8, AskTypes DEF LoseRecord
    <3>2. QED
      BY <2>8, <3>1 DEF LoseRecord, Done, At, ClientTypes
  <2>9. ASSUME NEW t \in Threads, Consult(t) PROVE TypeOK'
    <3>1. ClientTypes'
      BY <2>9, AskTypes DEF Consult, linkVars
    <3>2. QED
      BY <2>9, <3>1 DEF Consult, Ask, Done, At, ClientTypes
  <2>10. ASSUME NEW t \in Threads, Client(t) PROVE TypeOK'
    <3>1. ClientTypes'
      BY <2>10, ResolveTypes DEF Client
    <3>2. \A u \in Threads : conn[u] = "out" <=> conn'[u] = "out"
      BY <2>10 DEF Client, Resolve, Return, FindUnresolved, Claim,
                   PingAnswers, PingFails, At, ClientTypes
    <3>3. QED
      BY <2>10, <3>1, <3>2 DEF Client
  <2>11. CASE NextDay
    BY <2>11 DEF NextDay, clientVars, ClientTypes
  <2>12. ASSUME NEW i \in Instances, Restart(i) PROVE TypeOK'
    <3>1. ClientTypes'
      BY <2>12, RebootTypes DEF Restart
    <3>2. used' \in [Stores -> [Day -> Nat]]
      <4>1. [d \in Day |-> 0] \in [Day -> Nat]
        OBVIOUS
      <4>2. QED
        BY <2>12, <4>1 DEF Restart
    <3>3. QED
      BY <2>12, <3>1, <3>2 DEF Restart, Reboot, ClientTypes
  <2>13. CASE UNCHANGED vars
    BY <2>13 DEF vars, clientVars, ClientTypes
  <2>14. QED
    BY <2>1, <2>2, <2>3, <2>4, <2>5, <2>6, <2>7, <2>8, <2>9, <2>10,
       <2>11, <2>12, <2>13 DEF Next, ThreadStep, OverBudget
<1>3. QED
  BY <1>1, <1>2, PTL DEF Spec

-----------------------------------------------------------------------------
(* The initial state has the invariant's smaller parts.                    *)
LEMMA InitParts ==
    ASSUME Init
    PROVE  TypeOK /\ FutureIsBlank /\ DaysTaken /\ Unresolved /\ Connecting
<1>1. TypeOK
  BY ClientAssumption, BudgetAssumption
     DEF Init, ClientInit, ClientTypes, TypeOK, Day, Phase
<1>2. FutureIsBlank /\ DaysTaken
  BY DEF Init, FutureIsBlank, DaysTaken, Day
<1>3. Unresolved
  BY DEF Init, ClientInit, Unresolved, Fresh, NotYetAsked, UsersOf, Stores
<1>4. Connecting
  BY DEF Init, ClientInit, Connecting
<1>5. QED
  BY <1>1, <1>2, <1>3, <1>4

(* A counter is only raised for a day that some thread has taken, and an   *)
(* answer is only dated today.                                             *)
LEMMA FutureStaysBlank ==
    ASSUME TypeOK, TypeOK', FutureIsBlank, DaysTaken, [Next]_vars
    PROVE  FutureIsBlank' /\ DaysTaken'
<1> USE DEF FutureIsBlank
<1>0. /\ today \in Nat
      /\ day \in [Threads -> Nat]
      /\ \A d \in Day : d \in Nat
  BY BudgetAssumption DEF TypeOK, Day
<1>1. ASSUME NEW t \in Threads, NEW n \in {today, 0},
             day' = [day EXCEPT ![t] = n], today' = today
      PROVE  DaysTaken'
  <2>1. n <= today
    BY <1>0
  <2>2. QED
    BY <1>0, <1>1, <2>1 DEF DaysTaken
<1>2. ASSUME NEW t \in Threads,
             StartCheck(t) \/ FinishCheck(t) \/ FailOpen(t) \/ LoseRecord(t)
      PROVE  FutureIsBlank' /\ DaysTaken'
  BY <1>1, <1>2 DEF StartCheck, FinishCheck, FailOpen, LoseRecord, Leave
<1>3. ASSUME NEW t \in Threads, StartRecord(t)
      PROVE  FutureIsBlank' /\ DaysTaken'
  <2>1. /\ answered' = [answered EXCEPT ![today] = @ + 1]
        /\ day' = [day EXCEPT ![t] = today]
        /\ UNCHANGED <<today, used>>
    BY <1>3 DEF StartRecord
  <2>2. ASSUME NEW d \in Day, d > today
        PROVE  answered'[d] = answered[d]
    BY <1>0, <2>1, <2>2 DEF TypeOK
  <2>3. QED
    BY <1>1, <2>1, <2>2
<1>4. ASSUME NEW t \in Threads, FinishRecord(t)
      PROVE  FutureIsBlank' /\ DaysTaken'
  <2>1. /\ used' = [used EXCEPT ![StoreOf(t)][day[t]] = @ + 1]
        /\ day' = [day EXCEPT ![t] = 0]
        /\ UNCHANGED <<today, answered>>
    BY <1>4 DEF FinishRecord, Leave
  <2>2. ASSUME NEW s \in Stores, NEW d \in Day, d > today
        PROVE  used'[s][d] = used[s][d]
    <3>1. d # day[t]
      BY <1>0, <2>2 DEF DaysTaken
    <3>2. QED
      BY <2>1, <3>1 DEF TypeOK
  <2>3. QED
    BY <1>1, <2>1, <2>2
<1>5. ASSUME NEW t \in Threads,
             SkipCheck(t) \/ Abandon(t) \/ Consult(t) \/ Client(t)
      PROVE  FutureIsBlank' /\ DaysTaken'
  BY <1>5 DEF SkipCheck, Abandon, Consult, Client, DaysTaken
<1>6. CASE NextDay
  BY <1>0, <1>6 DEF NextDay, DaysTaken
<1>7. ASSUME NEW i \in Instances, Restart(i)
      PROVE  FutureIsBlank' /\ DaysTaken'
  <2>1. ASSUME NEW s \in Stores, NEW d \in Day
        PROVE  used'[s][d] = used[s][d] \/ used'[s][d] = 0
    BY <1>7 DEF Restart, TypeOK
  <2>2. FutureIsBlank'
    BY <1>7, <2>1 DEF Restart
  <2>3. DaysTaken'
    BY <1>0, <1>7 DEF Restart, DaysTaken
  <2>4. QED
    BY <2>2, <2>3
<1>8. CASE UNCHANGED vars
  BY <1>8 DEF vars, DaysTaken
<1>9. QED
  BY <1>2, <1>3, <1>4, <1>5, <1>6, <1>7, <1>8 DEF Next, ThreadStep, OverBudget

(* Only a thread of a resolved instance is ever told a store.              *)
LEMMA ToldIsResolved ==
    ASSUME TypeOK, Unresolved, NEW t \in Threads, Told(t)
    PROVE  Home[t] \in resolved
BY ClientAssumption DEF Unresolved, Fresh, UsersOf, Told, TypeOK, ClientTypes

(* An instance stays fresh until it has set _resolved.                     *)
LEMMA FreshKept ==
    ASSUME TypeOK, TypeOK', Unresolved, [Next]_vars
    PROVE  Unresolved'
<1> USE ClientAssumption, BudgetAssumption
    DEF TypeOK, ClientTypes, Goto, At, linkVars, Unresolved, Fresh,
        NotYetAsked, UsersOf
<1>1. ASSUME NEW t \in Threads, StartCheck(t) PROVE Unresolved'
  BY <1>1 DEF StartCheck, Ask
<1>2. ASSUME NEW t \in Threads, SkipCheck(t) PROVE Unresolved'
  BY <1>2 DEF SkipCheck, clientVars
<1>3. ASSUME NEW t \in Threads, FinishCheck(t) \/ FailOpen(t) \/ LoseRecord(t)
      PROVE  Unresolved'
  <2>1. PICK phase \in Phase :
            /\ pc' = [pc EXCEPT ![t] = phase]
            /\ conn' = [conn EXCEPT ![t] = "out"]
            /\ UNCHANGED <<used, resolved>>
    BY <1>3 DEF FinishCheck, FailOpen, LoseRecord, Done, Phase
  <2>2. Home[t] \in resolved
    BY <1>3, ToldIsResolved DEF FinishCheck, FailOpen, LoseRecord, Done
  <2>3. QED
    BY <2>1, <2>2
<1>4. ASSUME NEW t \in Threads, Abandon(t) PROVE Unresolved'
  BY <1>4 DEF Abandon, clientVars
<1>5. ASSUME NEW t \in Threads, StartRecord(t) PROVE Unresolved'
  BY <1>5 DEF StartRecord, Ask
<1>6. ASSUME NEW t \in Threads, FinishRecord(t) PROVE Unresolved'
  <2>1. Home[t] \in resolved
    BY <1>6, ToldIsResolved DEF FinishRecord, Done
  <2>2. /\ pc' = [pc EXCEPT ![t] = "idle"]
        /\ conn' = [conn EXCEPT ![t] = "out"]
        /\ UNCHANGED <<resolved, connected>>
        /\ used' = [used EXCEPT ![StoreOf(t)][day[t]] = @ + 1]
    BY <1>6 DEF FinishRecord, Done
  <2>3. ASSUME NEW i \in Instances \ resolved
        PROVE  used'[i] = used[i]
    BY <2>1, <2>2, <2>3 DEF StoreOf, Stores
  <2>4. QED
    BY <2>1, <2>2, <2>3
<1>7. ASSUME NEW t \in Threads, Consult(t) PROVE Unresolved'
  <2>1. CASE Ask(t)
    BY <1>7, <2>1 DEF Consult, Ask
  <2>2. CASE Done(t)
    BY <1>7, <2>2, ToldIsResolved DEF Consult, Done, Told
  <2>3. QED
    BY <1>7, <2>1, <2>2 DEF Consult
<1>8. ASSUME NEW t \in Threads, Client(t) PROVE Unresolved'
  <2>1. UNCHANGED <<used, pc>>
    BY <1>8 DEF Client
  <2>2. CASE Return(t)
    BY <2>1, <2>2 DEF Return
  <2>3. CASE FindUnresolved(t)
    BY <2>1, <2>3 DEF FindUnresolved
  <2>4. CASE Claim(t)
    BY <2>1, <2>4 DEF Claim
  <2>5. CASE PingAnswers(t) \/ PingFails(t)
    BY <2>1, <2>5 DEF PingAnswers, PingFails
  <2>6. QED
    BY <1>8, <2>2, <2>3, <2>4, <2>5 DEF Client, Resolve
<1>9. CASE NextDay
  BY <1>9 DEF NextDay, clientVars
<1>10. ASSUME NEW i \in Instances, Restart(i) PROVE Unresolved'
  <2>1. /\ resolved' = resolved \ {i}
        /\ conn' = [t \in Threads |-> IF Home[t] = i THEN "out" ELSE conn[t]]
        /\ pc' = [t \in Threads |-> IF Home[t] = i THEN "idle" ELSE pc[t]]
    BY <1>10 DEF Restart, Reboot
  <2>2. ASSUME NEW j \in Instances, NEW d \in Day
        PROVE  used'[j][d] = IF j = i THEN 0 ELSE used[j][d]
    BY <1>10 DEF Restart, Stores
  <2>3. QED
    BY <2>1, <2>2
<1>11. CASE UNCHANGED vars
  BY <1>11 DEF vars, clientVars
<1>12. QED
  BY <1>1, <1>2, <1>3, <1>4, <1>5, <1>6, <1>7, <1>8, <1>9, <1>10, <1>11
     DEF Next, ThreadStep, OverBudget

(* Until a ping fails or an instance restarts, who was told Redis is still *)
(* connected, and an instance without a client has a thread that pings.    *)
LEMMA ConnectingKept ==
    ASSUME TypeOK, TypeOK', Connecting, [Next]_vars
    PROVE  Connecting'
<1> USE ClientAssumption
    DEF TypeOK, ClientTypes, At, linkVars, Connecting, UsersOf
(* The consumers' steps: no thread stops pinging and none is told Redis.   *)
<1>1. ASSUME NEW t \in Threads, Ask(t) \/ Done(t),
             UNCHANGED <<resolved, connected, resets>>
      PROVE  Connecting'
  BY <1>1 DEF Ask, Done, Told
<1>2. ASSUME UNCHANGED clientVars
      PROVE  Connecting'
  BY <1>2 DEF clientVars
<1>3. ASSUME NEW t \in Threads, Client(t) PROVE Connecting'
  <2>1. CASE Return(t)
    BY <2>1 DEF Return
  <2>2. CASE FindUnresolved(t)
    BY <2>2 DEF FindUnresolved
  <2>3. CASE Claim(t)
    <3>1. /\ resolved' = resolved \cup {Home[t]}
          /\ conn[t] = "claiming"
          /\ conn' = [conn EXCEPT ![t] = IF RedisUrl THEN "pinging" ELSE "memory"]
          /\ UNCHANGED <<connected, resets>>
      BY <2>3 DEF Claim
    <3>2. ASSUME resets = 0, NEW u \in Threads, conn'[u] = "redis"
          PROVE  Home[u] \in connected'
      BY <3>1, <3>2
    <3>3. ASSUME resets = 0, RedisUrl, NEW i \in resolved' \ connected'
          PROVE  \E u \in UsersOf(i) : conn'[u] = "pinging"
      <4>1. CASE i = Home[t]
        BY <3>1, <3>3, <4>1
      <4>2. CASE i # Home[t]
        <5>1. PICK u \in UsersOf(i) : conn[u] = "pinging"
          BY <3>1, <3>3, <4>2
        <5>2. QED
          BY <3>1, <5>1
      <4>3. QED
        BY <4>1, <4>2
    <3>4. QED
      BY <3>1, <3>2, <3>3
  <2>4. CASE PingAnswers(t)
    <3>1. /\ connected' = connected \cup {Home[t]}
          /\ conn' = [conn EXCEPT ![t] = "call"]
          /\ UNCHANGED <<resolved, resets>>
      BY <2>4 DEF PingAnswers
    <3>2. ASSUME resets = 0, NEW u \in Threads, conn'[u] = "redis"
          PROVE  Home[u] \in connected'
      BY <3>1, <3>2
    <3>3. ASSUME resets = 0, RedisUrl, NEW i \in resolved' \ connected'
          PROVE  \E u \in UsersOf(i) : conn'[u] = "pinging"
      <4>1. i # Home[t] /\ i \in resolved \ connected /\ i \in Instances
        BY <3>1, <3>3
      <4>2. PICK u \in UsersOf(i) : conn[u] = "pinging"
        BY <3>3, <4>1
      <4>3. u # t
        BY <4>1, <4>2
      <4>4. QED
        BY <3>1, <4>2, <4>3
    <3>4. QED
      BY <3>1, <3>2, <3>3
  <2>5. CASE PingFails(t)
    BY <2>5 DEF PingFails
  <2>6. QED
    BY <1>3, <2>1, <2>2, <2>3, <2>4, <2>5 DEF Client, Resolve
<1>4. ASSUME NEW t \in Threads, ThreadStep(t) PROVE Connecting'
  <2>1. \/ Client(t)
        \/ UNCHANGED clientVars
        \/ /\ Ask(t) \/ Done(t)
           /\ UNCHANGED <<resolved, connected, resets>>
    BY <1>4 DEF ThreadStep, OverBudget, StartCheck, SkipCheck, FinishCheck,
                FailOpen, Abandon, StartRecord, FinishRecord, LoseRecord, Consult, Fault
  <2>2. QED
    BY <1>1, <1>2, <1>3, <2>1
<1>5. ASSUME NEW i \in Instances, Restart(i) PROVE Connecting'
  BY <1>5 DEF Restart, Reboot
<1>6. QED
  BY <1>2, <1>4, <1>5 DEF Next, NextDay, vars

-----------------------------------------------------------------------------
(* What the bound counts are sets of a store's users.                      *)
LEMMA CountedSets ==
    ASSUME NEW s, NEW d
    PROVE  /\ UsersOf(s) \in SUBSET Threads
           /\ Settled(s, d) \in SUBSET Threads
           /\ Loose(s, d) \in SUBSET Threads
           /\ Settled(s, d)' \in SUBSET Threads
           /\ Loose(s, d)' \in SUBSET Threads
BY DEF UsersOf, Settled, Recording, Loose, Uncommitted, Undecided

LEMMA CountedAreUsers ==
    ASSUME NEW s \in Stores, NEW d
    PROVE  /\ Settled(s, d) \subseteq UsersOf(s)
           /\ Loose(s, d) \subseteq UsersOf(s)
BY DEF UsersOf, Settled, Recording, Loose, Uncommitted, Undecided, StoreOf

(* Both sets together are no more than the users of the store, once over   *)
(* and once more for each reset; and until the first reset one user of a   *)
(* dict that only stands in for Redis is in neither, if not all of them    *)
(* are about to raise it.                                                  *)
CrowdBound ==
    \A s \in Stores, d \in Day : s = "redis" \/ Settled(s, d) # UsersOf(s) =>
        Cardinality(Settled(s, d)) + Cardinality(Loose(s, d)) + Pinger(s)
            <= Cardinality(UsersOf(s)) * (1 + resets)

LEMMA ManyUsers ==
    ASSUME NEW n \in Nat, NEW r \in Nat
    PROVE  /\ n * (1 + r) \in Nat
           /\ n * (1 + (r + 1)) = n * (1 + r) + n
           /\ r = 0 => n * (1 + r) = n
           /\ r > 0 => n * (1 + r) >= 2 * n
<1>1. CASE r = 0
  BY <1>1
<1>2. CASE r > 0
  <2>1. PICK q \in Nat : r = q + 1
    <3>1. r - 1 \in Nat /\ r = (r - 1) + 1
      BY <1>2
    <3>2. QED
      BY <3>1
  <2>2. n * q \in Nat
    OBVIOUS
  <2>3. n * (1 + r) = n * q + 2 * n
    BY <2>1
  <2>4. n * (1 + (r + 1)) = n * q + 3 * n
    BY <2>1
  <2>5. QED
    BY <1>2, <2>2, <2>3, <2>4
<1>3. QED
  BY <1>1, <1>2

LEMMA CrowdIsBounded == TypeOK /\ Unresolved /\ Connecting => CrowdBound
<1> SUFFICES ASSUME TypeOK, Unresolved, Connecting,
                    NEW s \in Stores, NEW d \in Day,
                    s = "redis" \/ Settled(s, d) # UsersOf(s)
             PROVE  Cardinality(Settled(s, d)) + Cardinality(Loose(s, d))
                        + Pinger(s) <= Cardinality(UsersOf(s)) * (1 + resets)
  BY DEF CrowdBound
<1> DEFINE S == Settled(s, d)
           L == Loose(s, d)
           U == UsersOf(s)
<1>1. /\ S \subseteq U /\ L \subseteq U
      /\ IsFiniteSet(U) /\ IsFiniteSet(S) /\ IsFiniteSet(L)
      /\ Cardinality(U) \in Nat /\ Cardinality(S) \in Nat
      /\ Cardinality(L) \in Nat
      /\ Cardinality(S) <= Cardinality(U)
      /\ Cardinality(L) <= Cardinality(U)
  BY CountedSets, CountedAreUsers, ThreadSubset, CardMono
<1>2. resets \in Nat /\ faults \in Nat
  BY ClientAssumption DEF TypeOK, ClientTypes
<1>3. CASE resets = 0
  <2>1. S \cap L = {}
    <3>1. ASSUME NEW t \in S, t \in L PROVE FALSE
      <4>1. t \in Threads /\ pc[t] = "recording" /\ Told(t) /\ StoreOf(t) = s
        BY DEF Settled, Recording
      <4>2. s = "redis" /\ Home[t] \notin connected
        BY <3>1, <4>1 DEF Loose, Uncommitted, Undecided, Elsewhere
      <4>3. conn[t] = "redis"
        BY <4>1, <4>2, ClientAssumption DEF StoreOf
      <4>4. QED
        BY <1>3, <4>1, <4>2, <4>3 DEF Connecting
    <3>2. QED
      BY <3>1
  <2>2. Cardinality(S \cup L) = Cardinality(S) + Cardinality(L)
    <3>1. Cardinality(S \cap L) = 0
      BY <2>1, FS_EmptySet
    <3>2. Cardinality(S \cup L)
              = Cardinality(S) + Cardinality(L) - Cardinality(S \cap L)
      BY <1>1, FS_Union
    <3>3. QED
      BY <1>1, <3>1, <3>2
  <2>3. Cardinality(U) * (1 + resets) = Cardinality(U)
    BY <1>1, <1>2, <1>3, ManyUsers
  <2>4. CASE Pinger(s) = 0
    <3>1. Cardinality(S \cup L) <= Cardinality(U)
      BY <1>1, FS_Subset
    <3>2. QED
      BY <1>1, <2>2, <2>3, <2>4, <3>1
  <2>5. CASE Pinger(s) # 0
    <3>1. RedisUrl /\ s # "redis" /\ s \in Instances /\ Pinger(s) = 1
      BY <2>5 DEF Pinger, Stores
    <3>2. PICK u \in U : u \notin S \cup L
      <4>1. CASE s \in resolved \ connected
        <5>1. PICK u \in U : conn[u] = "pinging"
          BY <1>3, <3>1, <4>1 DEF Connecting
        <5>2. u \notin S
          BY <5>1 DEF Settled, Told
        <5>3. u \notin L
          BY <3>1, <5>1 DEF Loose, Offline
        <5>4. QED
          BY <5>1, <5>2, <5>3
      <4>2. CASE s \notin resolved \ connected
        <5>1. L = {}
          BY <3>1, <4>2 DEF Loose, Offline
        <5>2. PICK u \in U : u \notin S
          BY <1>1, <3>1
        <5>3. QED
          BY <5>1, <5>2
      <4>3. QED
        BY <4>1, <4>2
    <3>3. /\ IsFiniteSet(U \ {u})
          /\ Cardinality(U \ {u}) = Cardinality(U) - 1
      BY <1>1, FS_RemoveElement
    <3>4. S \cup L \in SUBSET (U \ {u})
      BY <1>1, <3>2
    <3>5. Cardinality(S \cup L) <= Cardinality(U) - 1
      BY <3>3, <3>4, FS_Subset
    <3>6. QED
      BY <1>1, <2>2, <2>3, <3>1, <3>5
  <2>6. QED
    BY <2>4, <2>5
<1>4. CASE resets # 0
  <2>1. Cardinality(U) * (1 + resets) >= 2 * Cardinality(U)
        /\ Cardinality(U) * (1 + resets) \in Nat
    BY <1>1, <1>2, <1>4, ManyUsers
  <2>2. Pinger(s) = 0
    BY <1>4 DEF Pinger
  <2>3. QED
    BY <1>1, <2>1, <2>2
<1>5. QED
  BY <1>3, <1>4

-----------------------------------------------------------------------------
(* The four ways in which a step keeps the bound of a counter.             *)
LEMMA Quantities ==
    ASSUME TypeOK, NEW s \in Stores, NEW d \in Day
    PROVE  /\ used[s][d] \in Nat
           /\ Cardinality(Settled(s, d)) \in Nat
           /\ Cardinality(Loose(s, d)) \in Nat
           /\ Cardinality(UsersOf(s)) \in Nat
           /\ Cardinality(Loose(s, d)) <= Cardinality(UsersOf(s))
           /\ faults \in Nat
           /\ resets \in Nat
           /\ Cardinality(UsersOf(s)) * (1 + resets) \in Nat
           /\ Pinger(s) \in {0, 1}
           /\ resets # 0 => Pinger(s) = 0
           /\ VlmDailyBudget \in Nat
<1>1. /\ used[s][d] \in Nat
      /\ faults \in Nat
      /\ resets \in Nat
      /\ VlmDailyBudget \in Nat
  BY BudgetAssumption, ClientAssumption DEF TypeOK, ClientTypes
<1>2. /\ Cardinality(Settled(s, d)) \in Nat
      /\ Cardinality(Loose(s, d)) \in Nat
      /\ Cardinality(UsersOf(s)) \in Nat
      /\ Cardinality(Loose(s, d)) <= Cardinality(UsersOf(s))
  BY CountedSets, CountedAreUsers, ThreadSubset, CardMono
<1>3. Cardinality(UsersOf(s)) * (1 + resets) \in Nat
  BY <1>1, <1>2, ManyUsers
<1>4. Pinger(s) \in {0, 1} /\ (resets # 0 => Pinger(s) = 0)
  BY DEF Pinger
<1>5. QED
  BY <1>1, <1>2, <1>3, <1>4

LEMMA QuantitiesNext ==
    ASSUME TypeOK', NEW s \in Stores, NEW d \in Day
    PROVE  /\ used'[s][d] \in Nat
           /\ Cardinality(Settled(s, d)') \in Nat
           /\ Cardinality(Loose(s, d)') \in Nat
           /\ Cardinality(UsersOf(s)) \in Nat
           /\ Cardinality(Loose(s, d)') <= Cardinality(UsersOf(s))
           /\ faults' \in Nat
           /\ resets' \in Nat
           /\ Cardinality(UsersOf(s)) * (1 + resets') \in Nat
           /\ Pinger(s)' \in {0, 1}
           /\ resets' # 0 => Pinger(s)' = 0
           /\ VlmDailyBudget \in Nat
<1>1. /\ used'[s][d] \in Nat
      /\ faults' \in Nat
      /\ resets' \in Nat
      /\ VlmDailyBudget \in Nat
  BY BudgetAssumption, ClientAssumption DEF TypeOK, ClientTypes
<1>2. Loose(s, d)' \subseteq UsersOf(s)
  BY DEF UsersOf, Loose, Uncommitted, Undecided, Recording
<1>3. /\ Cardinality(Settled(s, d)') \in Nat
      /\ Cardinality(Loose(s, d)') \in Nat
      /\ Cardinality(UsersOf(s)) \in Nat
      /\ Cardinality(Loose(s, d)') <= Cardinality(UsersOf(s))
  BY <1>2, CountedSets, ThreadSubset, CardMono
<1>4. Cardinality(UsersOf(s)) * (1 + resets') \in Nat
  BY <1>1, <1>3, ManyUsers
<1>5. Pinger(s)' \in {0, 1} /\ (resets' # 0 => Pinger(s)' = 0)
  BY DEF Pinger
<1>6. QED
  BY <1>1, <1>3, <1>4, <1>5

(* One: the counter does not rise, and nobody joins those it waits for.    *)
Kept(s, d) ==
    /\ used'[s][d] <= used[s][d]
    /\ Settled(s, d)' \subseteq Settled(s, d)
    /\ Loose(s, d)' \subseteq Loose(s, d)
    /\ faults' >= faults
    /\ resets' = resets

LEMMA KeptBound ==
    ASSUME TypeOK, TypeOK', NEW s \in Stores, NEW d \in Day,
           CounterBound(s, d), Kept(s, d)
    PROVE  CounterBound(s, d)'
<1>1. /\ Cardinality(Settled(s, d)') <= Cardinality(Settled(s, d))
      /\ Cardinality(Loose(s, d)') <= Cardinality(Loose(s, d))
  BY CountedSets, CardMono DEF Kept
<1>2. /\ Pinger(s)' = Pinger(s)
      /\ faults' >= faults /\ resets' = resets
      /\ used'[s][d] <= used[s][d]
  BY DEF Kept, Pinger
<1>3. Allowance(s)' = VlmDailyBudget + Cardinality(UsersOf(s)) * (1 + resets)
                          + faults' - Pinger(s)
  BY <1>2 DEF Allowance, UsersOf
<1>4. /\ Allowance(s)' >= Allowance(s)
      /\ Allowance(s) \in Int /\ Allowance(s)' \in Int
  BY <1>2, <1>3, Quantities, QuantitiesNext DEF Allowance
<1>5. QED
  BY <1>1, <1>2, <1>4, Quantities, QuantitiesNext DEF CounterBound

(* Two: the counter is below the budget, and the crowd is bounded.         *)
LEMMA JoinBound ==
    ASSUME TypeOK', CrowdBound', NEW s \in Stores, NEW d \in Day,
           used'[s][d] < VlmDailyBudget,
           s = "redis" \/ Settled(s, d)' # UsersOf(s)
    PROVE  CounterBound(s, d)'
<1>1. Cardinality(Settled(s, d)') + Cardinality(Loose(s, d)') + Pinger(s)'
          <= Cardinality(UsersOf(s)) * (1 + resets')
  BY DEF CrowdBound, UsersOf, Day, Stores
<1>2. Allowance(s)' = VlmDailyBudget + Cardinality(UsersOf(s)) * (1 + resets')
                          + faults' - Pinger(s)'
  BY DEF Allowance, UsersOf
<1>3. QED
  BY <1>1, <1>2, QuantitiesNext DEF CounterBound

(* Three: one thread joins, at the price of a failed call.                 *)
LEMMA FaultBound ==
    ASSUME TypeOK, TypeOK', NEW s \in Stores, NEW d \in Day, NEW t \in Threads,
           CounterBound(s, d),
           used'[s][d] = used[s][d],
           Settled(s, d)' \subseteq Settled(s, d),
           Loose(s, d)' \subseteq Loose(s, d) \cup {t},
           faults' = faults + 1, resets' = resets
    PROVE  CounterBound(s, d)'
<1>1. /\ Cardinality(Settled(s, d)') <= Cardinality(Settled(s, d))
      /\ Cardinality(Loose(s, d)') <= Cardinality(Loose(s, d)) + 1
  BY CountedSets, CardMono, CardGrow
<1>2. Pinger(s)' = Pinger(s)
  BY DEF Pinger
<1>3. Allowance(s)' = VlmDailyBudget + Cardinality(UsersOf(s)) * (1 + resets)
                          + faults' - Pinger(s)
  BY <1>2 DEF Allowance, UsersOf
<1>4. QED
  BY <1>1, <1>3, Quantities, QuantitiesNext DEF CounterBound, Allowance

(* Four: everybody joins, at the price of a failed ping or a restart.      *)
LEMMA ResetBound ==
    ASSUME TypeOK, TypeOK', NEW s \in Stores, NEW d \in Day,
           CounterBound(s, d),
           used'[s][d] <= used[s][d],
           Settled(s, d)' \subseteq Settled(s, d),
           faults' = faults, resets' = resets + 1
    PROVE  CounterBound(s, d)'
<1>1. Cardinality(Settled(s, d)') <= Cardinality(Settled(s, d))
  BY CountedSets, CardMono
<1>2. Pinger(s)' = 0
  BY Quantities, QuantitiesNext
<1>3. Cardinality(UsersOf(s)) * (1 + resets')
          = Cardinality(UsersOf(s)) * (1 + resets) + Cardinality(UsersOf(s))
  BY Quantities, ManyUsers
<1>4. Allowance(s)' = VlmDailyBudget + Cardinality(UsersOf(s)) * (1 + resets')
                          + faults' - Pinger(s)'
  BY DEF Allowance, UsersOf
<1>5. Allowance(s)' >= Allowance(s) + Cardinality(UsersOf(s))
      /\ Allowance(s) \in Int /\ Allowance(s)' \in Int
  BY <1>2, <1>3, <1>4, Quantities, QuantitiesNext DEF Allowance
<1>6. QED
  BY <1>1, <1>5, Quantities, QuantitiesNext DEF CounterBound

(* And two that move one thread: a thread that learns its store was loose, *)
(* and one that raises the counter was settled.                            *)
LEMMA MoveBound ==
    ASSUME TypeOK, TypeOK', NEW s \in Stores, NEW d \in Day,
           NEW t \in Loose(s, d), CounterBound(s, d),
           used' = used, faults' = faults, resets' = resets,
           Settled(s, d)' \subseteq Settled(s, d) \cup {t},
           Loose(s, d)' \subseteq Loose(s, d) \ {t}
    PROVE  CounterBound(s, d)'
<1>1. Cardinality(Settled(s, d)') <= Cardinality(Settled(s, d)) + 1
  BY CountedSets, CardGrow
<1>2. Cardinality(Loose(s, d)') <= Cardinality(Loose(s, d)) - 1
  <2>1. Cardinality(Loose(s, d) \ {t}) = Cardinality(Loose(s, d)) - 1
    BY CountedSets, CardRemove
  <2>2. Loose(s, d) \ {t} \in SUBSET Threads
    BY CountedSets
  <2>3. QED
    BY <2>1, <2>2, CardMono
<1>3. Allowance(s)' = VlmDailyBudget + Cardinality(UsersOf(s)) * (1 + resets)
                          + faults - Pinger(s)
  BY DEF Allowance, UsersOf, Pinger
<1>4. QED
  BY <1>1, <1>2, <1>3, Quantities, QuantitiesNext DEF CounterBound, Allowance

LEMMA RecordBound ==
    ASSUME TypeOK, TypeOK', NEW s \in Stores, NEW d \in Day,
           NEW t \in Settled(s, d), CounterBound(s, d),
           used'[s][d] = used[s][d] + 1, faults' = faults, resets' = resets,
           Settled(s, d)' \subseteq Settled(s, d) \ {t},
           Loose(s, d)' \subseteq Loose(s, d)
    PROVE  CounterBound(s, d)'
<1>1. Cardinality(Loose(s, d)') <= Cardinality(Loose(s, d))
  BY CountedSets, CardMono
<1>2. Cardinality(Settled(s, d)') <= Cardinality(Settled(s, d)) - 1
  <2>1. Cardinality(Settled(s, d) \ {t}) = Cardinality(Settled(s, d)) - 1
    BY CountedSets, CardRemove
  <2>2. Settled(s, d) \ {t} \in SUBSET Threads
    BY CountedSets
  <2>3. QED
    BY <2>1, <2>2, CardMono
<1>3. Allowance(s)' = VlmDailyBudget + Cardinality(UsersOf(s)) * (1 + resets)
                          + faults - Pinger(s)
  BY DEF Allowance, UsersOf, Pinger
<1>4. QED
  BY <1>1, <1>2, <1>3, Quantities, QuantitiesNext DEF CounterBound, Allowance

-----------------------------------------------------------------------------
(* A step of thread t that leaves the clock and the clients alone changes  *)
(* where t is counted, and no other thread.                                *)
Moves(t) ==
    /\ UNCHANGED <<today, resolved, connected>>
    /\ \A u \in Threads \ {t} :
          pc'[u] = pc[u] /\ day'[u] = day[u] /\ conn'[u] = conn[u]

LEMMA OthersStay ==
    ASSUME NEW t \in Threads, Moves(t), NEW u \in Threads, u # t,
           NEW s, NEW d
    PROVE  /\ u \in Settled(s, d)' <=> u \in Settled(s, d)
           /\ u \in Loose(s, d)' <=> u \in Loose(s, d)
<1>1. /\ pc'[u] = pc[u] /\ day'[u] = day[u] /\ conn'[u] = conn[u]
      /\ today' = today /\ resolved' = resolved /\ connected' = connected
  BY DEF Moves
<1>2. u \in Settled(s, d)' <=> u \in Settled(s, d)
  BY <1>1 DEF Settled, Recording, Told, StoreOf
<1>3. u \in Undecided(d)' <=> u \in Undecided(d)
  BY <1>1 DEF Undecided, Recording, Told
<1>4. Elsewhere(u, s, d)' <=> Elsewhere(u, s, d)
  BY <1>1 DEF Elsewhere, Told, StoreOf
<1>5. u \in Uncommitted(s, d)' <=> u \in Uncommitted(s, d)
  BY <1>1, <1>3, <1>4 DEF Uncommitted
<1>6. Offline(u)' <=> Offline(u)
  BY <1>1 DEF Offline
<1>7. QED
  BY <1>2, <1>5, <1>6 DEF Loose

(* The two memberships of one thread, spelled out.                         *)
LEMMA WhoIsCounted ==
    ASSUME NEW t \in Threads, NEW s, NEW d
    PROVE  /\ t \in Settled(s, d) <=>
                /\ pc[t] = "recording" /\ day[t] = d
                /\ Told(t) /\ StoreOf(t) = s
           /\ t \in Uncommitted(s, d) <=>
                \/ pc[t] = "recording" /\ day[t] = d /\ ~ Told(t)
                \/ /\ d = today
                   /\ \/ Elsewhere(t, s, d)
                      \/ s = "redis" /\ Home[t] \notin connected
           /\ t \in Loose(s, d) <=>
                /\ t \in Uncommitted(s, d)
                /\ s = "redis" \/ (Home[t] = s /\ Offline(t))
BY DEF Settled, Recording, Loose, Uncommitted, Undecided

LEMMA WhoIsCountedNext ==
    ASSUME NEW t \in Threads, NEW s, NEW d
    PROVE  /\ t \in Settled(s, d)' <=>
                /\ pc'[t] = "recording" /\ day'[t] = d
                /\ Told(t)' /\ StoreOf(t)' = s
           /\ t \in Uncommitted(s, d)' <=>
                \/ pc'[t] = "recording" /\ day'[t] = d /\ ~ Told(t)'
                \/ /\ d = today'
                   /\ \/ Elsewhere(t, s, d)'
                      \/ s = "redis" /\ Home[t] \notin connected'
           /\ t \in Loose(s, d)' <=>
                /\ t \in Uncommitted(s, d)'
                /\ s = "redis" \/ (Home[t] = s /\ Offline(t)')
BY DEF Settled, Recording, Loose, Uncommitted, Undecided

LEMMA ThreadKeeps ==
    ASSUME TypeOK, TypeOK', NEW s \in Stores, NEW d \in Day, NEW t \in Threads,
           CounterBound(s, d), Moves(t),
           used'[s][d] = used[s][d], faults' >= faults, resets' = resets,
           t \in Settled(s, d)' => t \in Settled(s, d),
           t \in Loose(s, d)' => t \in Loose(s, d)
    PROVE  CounterBound(s, d)'
<1>1. /\ Settled(s, d)' \subseteq Settled(s, d)
      /\ Loose(s, d)' \subseteq Loose(s, d)
  BY CountedSets, OthersStay
<1>2. used'[s][d] <= used[s][d]
  BY Quantities
<1>3. QED
  BY <1>1, <1>2, KeptBound DEF Kept

(* What the steps of the breaker do to the bound.                          *)
LEMMA BreakerKeepsBound ==
    ASSUME TypeOK, TypeOK', DaysTaken, CrowdBound', VlmDailyBudget > 0,
           NEW s \in Stores, NEW d \in Day, CounterBound(s, d),
           NEW t \in Threads, ThreadStep(t), ~ Client(t)
    PROVE  CounterBound(s, d)'
<1> USE DEF Goto, Leave, At, linkVars, clientVars
<1>0. /\ pc \in [Threads -> Phase]
      /\ day \in [Threads -> Day]
      /\ conn \in [Threads -> {"out", "call", "claiming", "pinging", "redis",
                               "memory"}]
      /\ \A u \in Threads : Home[u] \in Instances /\ Home[u] # "redis"
  BY ClientAssumption DEF TypeOK, ClientTypes
<1>1. Moves(t)
  BY <1>0 DEF ThreadStep, OverBudget, Moves, StartCheck, SkipCheck, FinishCheck,
              FailOpen, Abandon, StartRecord, FinishRecord, LoseRecord, Consult,
              Ask, Done, Fault
<1>2. ASSUME Ask(t) \/ Done(t) \/ conn' = conn
      PROVE  Offline(t)' <=> Offline(t)
  BY <1>0, <1>1, <1>2 DEF Ask, Done, Told, Offline, Moves
<1>3. CASE StartCheck(t)
  <2>1. /\ pc'[t] = "checking" /\ day'[t] = today /\ conn'[t] = "call"
        /\ UNCHANGED <<today, used, faults, resets, connected>>
    BY <1>0, <1>3 DEF StartCheck, Ask
  <2>2. Offline(t)' <=> Offline(t)
    BY <1>2, <1>3 DEF StartCheck
  <2>3. ~ Elsewhere(t, s, d)' \/ d # today'
    BY <2>1, BudgetAssumption DEF Elsewhere, Told, TypeOK, Day
  <2>4. t \notin Settled(s, d)'
    BY <2>1, WhoIsCountedNext
  <2>5. t \in Loose(s, d)' => t \in Loose(s, d)
    BY <2>1, <2>2, <2>3, WhoIsCounted, WhoIsCountedNext
  <2>6. faults' >= faults
    BY <2>1, Quantities
  <2>7. QED
    BY <1>1, <2>1, <2>4, <2>5, <2>6, ThreadKeeps
<1>4. CASE SkipCheck(t)
  BY <1>4 DEF SkipCheck
<1>5. CASE FinishCheck(t)
  <2>1. /\ pc[t] = "checking" /\ Told(t)
        /\ day'[t] = 0 /\ conn'[t] = "out"
        /\ UNCHANGED <<today, used, faults, resets, connected>>
    BY <1>0, <1>5 DEF FinishCheck, Done
  <2>2. Offline(t)' <=> Offline(t)
    BY <1>2, <1>5 DEF FinishCheck
  <2>3. t \notin Settled(s, d)'
    BY <2>1, WhoIsCountedNext DEF Told
  <2>4. CASE d = today /\ day[t] = d /\ StoreOf(t) = s
                /\ used[s][d] < VlmDailyBudget
    <3>1. t \in UsersOf(s)
      BY <2>4 DEF StoreOf, UsersOf
    <3>2. Settled(s, d)' # UsersOf(s)
      BY <2>3, <3>1
    <3>3. QED
      BY <2>1, <2>4, <3>2, JoinBound
  <2>5. CASE ~ (/\ d = today /\ day[t] = d /\ StoreOf(t) = s
                /\ used[s][d] < VlmDailyBudget)
    <3>1. t \in Loose(s, d)' => t \in Loose(s, d)
      <4>1. CASE d # today
        <5>1. pc'[t] # "recording"
          BY <1>0, <1>5 DEF FinishCheck
        <5>2. QED
          BY <2>1, <4>1, <5>1, WhoIsCountedNext
      <4>2. CASE d = today /\ (day[t] # d \/ StoreOf(t) # s)
        <5>1. day[t] < d \/ StoreOf(t) # s
          BY <1>0, <4>2, BudgetAssumption DEF DaysTaken, Day, TypeOK
        <5>2. Elsewhere(t, s, d)
          BY <2>1, <5>1 DEF Elsewhere
        <5>3. QED
          BY <2>2, <4>2, <5>2, WhoIsCounted, WhoIsCountedNext
      <4>3. CASE /\ d = today /\ day[t] = d /\ StoreOf(t) = s
                 /\ ~ (used[s][d] < VlmDailyBudget)
        <5>1. used[s][d] >= VlmDailyBudget
          BY <4>3, Quantities
        <5>2. pc'[t] = "idle"
          BY <1>0, <1>5, <4>3, <5>1 DEF FinishCheck
        <5>3. ~ Elsewhere(t, s, d)'
          BY <5>2 DEF Elsewhere
        <5>4. QED
          BY <2>1, <2>2, <5>2, <5>3, WhoIsCounted, WhoIsCountedNext
      <4>4. QED
        BY <2>5, <4>1, <4>2, <4>3
    <3>2. faults' >= faults
      BY <2>1, Quantities
    <3>3. QED
      BY <1>1, <2>1, <2>3, <3>1, <3>2, ThreadKeeps
  <2>6. QED
    BY <2>4, <2>5
<1>6. CASE FailOpen(t)
  <2>1. /\ conn'[t] = "out"
        /\ UNCHANGED <<today, used, resets, connected>>
        /\ faults' = faults + 1
    BY <1>0, <1>6 DEF FailOpen, Done, Fault
  <2>2. t \notin Settled(s, d)'
    BY <2>1, WhoIsCountedNext DEF Told
  <2>3. /\ Settled(s, d)' \subseteq Settled(s, d)
        /\ Loose(s, d)' \subseteq Loose(s, d) \cup {t}
    BY <1>1, <2>2, CountedSets, OthersStay
  <2>4. QED
    BY <2>1, <2>3, FaultBound
<1>7. CASE Abandon(t)
  <2>1. /\ pc'[t] = "idle"
        /\ UNCHANGED <<today, used, conn, faults, resets, connected>>
    BY <1>0, <1>7 DEF Abandon
  <2>2. Offline(t)' <=> Offline(t)
    BY <1>2, <2>1
  <2>3. t \notin Settled(s, d)' /\ ~ Elsewhere(t, s, d)'
    BY <2>1, WhoIsCountedNext DEF Elsewhere
  <2>4. t \in Loose(s, d)' => t \in Loose(s, d)
    BY <2>1, <2>2, <2>3, WhoIsCounted, WhoIsCountedNext
  <2>5. faults' >= faults
    BY <2>1, Quantities
  <2>6. QED
    BY <1>1, <2>1, <2>3, <2>4, <2>5, ThreadKeeps
<1>8. CASE StartRecord(t)
  <2>1. /\ pc[t] = "admitted"
        /\ pc'[t] = "recording" /\ day'[t] = today /\ conn'[t] = "call"
        /\ UNCHANGED <<today, used, faults, resets, connected>>
    BY <1>0, <1>8 DEF StartRecord, Ask
  <2>2. Offline(t)' <=> Offline(t)
    BY <1>2, <1>8 DEF StartRecord
  <2>3. t \notin Settled(s, d)' /\ ~ Elsewhere(t, s, d)'
    BY <2>1, WhoIsCountedNext DEF Elsewhere, Told
  <2>4. Elsewhere(t, s, d)
    BY <2>1 DEF Elsewhere
  <2>5. t \in Loose(s, d)' => t \in Loose(s, d)
    BY <2>1, <2>2, <2>3, <2>4, WhoIsCounted, WhoIsCountedNext
  <2>6. faults' >= faults
    BY <2>1, Quantities
  <2>7. QED
    BY <1>1, <2>1, <2>3, <2>5, <2>6, ThreadKeeps
<1>9. CASE FinishRecord(t)
  <2>1. /\ pc[t] = "recording" /\ Told(t)
        /\ pc'[t] = "idle" /\ conn'[t] = "out"
        /\ UNCHANGED <<today, faults, resets, connected>>
        /\ used' = [used EXCEPT ![StoreOf(t)][day[t]] = @ + 1]
    BY <1>0, <1>9 DEF FinishRecord, Done
  <2>2. Offline(t)' <=> Offline(t)
    BY <1>2, <1>9 DEF FinishRecord
  <2>3. t \notin Settled(s, d)' /\ ~ Elsewhere(t, s, d)'
    BY <2>1, WhoIsCountedNext DEF Elsewhere
  <2>4. t \in Loose(s, d)' => t \in Loose(s, d)
    BY <2>1, <2>2, <2>3, WhoIsCounted, WhoIsCountedNext
  <2>5. CASE s = StoreOf(t) /\ d = day[t]
    <3>1. t \in Settled(s, d)
      BY <2>1, <2>5, WhoIsCounted
    <3>2. used'[s][d] = used[s][d] + 1
      BY <2>1, <2>5 DEF TypeOK
    <3>3. /\ Settled(s, d)' \subseteq Settled(s, d) \ {t}
          /\ Loose(s, d)' \subseteq Loose(s, d)
      BY <1>1, <2>3, <2>4, CountedSets, OthersStay
    <3>4. QED
      BY <2>1, <3>1, <3>2, <3>3, RecordBound
  <2>6. CASE ~ (s = StoreOf(t) /\ d = day[t])
    <3>1. used'[s][d] = used[s][d]
      BY <2>1, <2>6 DEF TypeOK
    <3>2. faults' >= faults
      BY <2>1, Quantities
    <3>3. QED
      BY <1>1, <2>1, <2>3, <2>4, <3>1, <3>2, ThreadKeeps
  <2>7. QED
    BY <2>5, <2>6
<1>10. CASE LoseRecord(t)
  <2>1. /\ pc[t] = "recording" /\ Told(t)
        /\ pc'[t] = "idle" /\ conn'[t] = "out"
        /\ UNCHANGED <<today, used, resets, connected>>
        /\ faults' = faults + 1
    BY <1>0, <1>10 DEF LoseRecord, Done, Fault
  <2>2. Offline(t)' <=> Offline(t)
    BY <1>2, <1>10 DEF LoseRecord
  <2>3. t \notin Settled(s, d)' /\ ~ Elsewhere(t, s, d)'
    BY <2>1, WhoIsCountedNext DEF Elsewhere
  <2>4. t \in Loose(s, d)' => t \in Loose(s, d)
    BY <2>1, <2>2, <2>3, WhoIsCounted, WhoIsCountedNext
  <2>5. faults' >= faults
    BY <2>1, Quantities
  <2>6. QED
    BY <1>1, <2>1, <2>3, <2>4, <2>5, ThreadKeeps
<1>11. CASE Consult(t)
  <2>1. /\ pc[t] = "idle" /\ pc'[t] = "idle"
        /\ UNCHANGED <<today, used, faults, resets, connected>>
    BY <1>0, <1>11 DEF Consult
  <2>2. Offline(t)' <=> Offline(t)
    BY <1>2, <1>11 DEF Consult
  <2>3. t \notin Settled(s, d)' /\ ~ Elsewhere(t, s, d)'
    BY <2>1, WhoIsCountedNext DEF Elsewhere
  <2>4. t \in Loose(s, d)' => t \in Loose(s, d)
    BY <2>1, <2>2, <2>3, WhoIsCounted, WhoIsCountedNext
  <2>5. faults' >= faults
    BY <2>1, Quantities
  <2>6. QED
    BY <1>1, <2>1, <2>3, <2>4, <2>5, ThreadKeeps
<1>12. QED
  BY <1>3, <1>4, <1>5, <1>6, <1>7, <1>8, <1>9, <1>10, <1>11
     DEF ThreadStep, OverBudget

(* What client() does to it.                                               *)
LEMMA ClientKeepsBound ==
    ASSUME TypeOK, TypeOK', Unresolved, CrowdBound', VlmDailyBudget > 0,
           NEW s \in Stores, NEW d \in Day, CounterBound(s, d),
           NEW t \in Threads, Client(t)
    PROVE  CounterBound(s, d)'
<1> USE DEF At, linkVars
<1>0. /\ conn \in [Threads -> {"out", "call", "claiming", "pinging", "redis",
                               "memory"}]
      /\ \A u \in Threads : Home[u] \in Instances /\ Home[u] # "redis"
      /\ connected \subseteq resolved
      /\ ~ RedisUrl => connected = {} /\ "redis" \notin Stores
      /\ UNCHANGED <<today, used, pc, day>>
      /\ faults' = faults /\ faults' >= faults
  <2>1. faults' = faults /\ faults \in Nat
    BY Quantities DEF Client, Resolve, Return, FindUnresolved, Claim,
                      PingAnswers, PingFails
  <2>2. QED
    BY <2>1, ClientAssumption DEF TypeOK, ClientTypes, Client, Stores
<1>1. CASE Return(t)
  <2>1. /\ conn[t] = "call" /\ Home[t] \in resolved
        /\ conn'[t] = IF Home[t] \in connected THEN "redis" ELSE "memory"
        /\ UNCHANGED <<resolved, connected, resets>>
    BY <1>0, <1>1 DEF Return
  <2>2. Moves(t)
    BY <1>0, <1>1 DEF Return, Moves
  <2>3. /\ ~ Told(t) /\ Told(t)'
        /\ StoreOf(t)' = IF Home[t] \in connected THEN "redis" ELSE Home[t]
    BY <1>0, <2>1 DEF Told, StoreOf
  <2>4. Offline(t)' <=> Offline(t)
    BY <2>1 DEF Offline
  <2>5. CASE pc[t] = "recording" /\ day[t] = d /\ StoreOf(t)' = s
    <3>1. t \in Uncommitted(s, d)
      BY <2>3, <2>5, WhoIsCounted
    <3>2. s # "redis" => Home[t] = s /\ Offline(t)
      BY <1>0, <2>1, <2>3, <2>5 DEF Offline
    <3>3. t \in Loose(s, d)
      BY <3>1, <3>2, WhoIsCounted
    <3>4. t \notin Loose(s, d)'
      <4>1. ~ Elsewhere(t, s, d)'
        BY <1>0, <2>5 DEF Elsewhere
      <4>2. s = "redis" => Home[t] \in connected'
        BY <1>0, <2>1, <2>3, <2>5
      <4>3. QED
        BY <2>3, <4>1, <4>2, WhoIsCountedNext
    <3>5. /\ Settled(s, d)' \subseteq Settled(s, d) \cup {t}
          /\ Loose(s, d)' \subseteq Loose(s, d) \ {t}
      BY <2>2, <3>4, CountedSets, OthersStay
    <3>6. QED
      BY <1>0, <2>1, <3>3, <3>5, MoveBound
  <2>6. CASE ~ (pc[t] = "recording" /\ day[t] = d /\ StoreOf(t)' = s)
    <3>1. t \notin Settled(s, d)'
      BY <1>0, <2>6, WhoIsCountedNext
    <3>2. t \in Loose(s, d)' => t \in Loose(s, d)
      <4>1. CASE s = "redis"
        <5>1. Elsewhere(t, s, d)' => Elsewhere(t, s, d)
                                     \/ Home[t] \notin connected
          BY <1>0, <2>1, <2>3, <4>1 DEF Elsewhere
        <5>2. QED
          BY <1>0, <2>1, <2>3, <4>1, <5>1, WhoIsCounted, WhoIsCountedNext
      <4>2. CASE s # "redis" /\ Home[t] = s /\ Offline(t)
        <5>1. Home[t] \notin connected
          BY <1>0, <4>2 DEF Offline
        <5>2. Elsewhere(t, s, d)' => Elsewhere(t, s, d)
          BY <1>0, <2>1, <2>3, <4>2, <5>1 DEF Elsewhere
        <5>3. QED
          BY <1>0, <2>1, <2>3, <4>2, <5>2, WhoIsCounted, WhoIsCountedNext
      <4>3. CASE s # "redis" /\ ~ (Home[t] = s /\ Offline(t))
        BY <2>4, <4>3, WhoIsCountedNext
      <4>4. QED
        BY <4>1, <4>2, <4>3
    <3>3. QED
      BY <1>0, <2>1, <2>2, <3>1, <3>2, ThreadKeeps
  <2>7. QED
    BY <2>5, <2>6
<1>2. CASE FindUnresolved(t)
  <2>1. /\ conn[t] = "call" /\ conn'[t] = "claiming"
        /\ UNCHANGED <<resolved, connected, resets>>
    BY <1>0, <1>2 DEF FindUnresolved
  <2>2. Moves(t)
    BY <1>0, <1>2 DEF FindUnresolved, Moves
  <2>3. t \notin Settled(s, d)'
    BY <2>1, WhoIsCountedNext DEF Told
  <2>4. Offline(t)' => Offline(t)
    BY <2>1 DEF Offline
  <2>5. Elsewhere(t, s, d)' => Elsewhere(t, s, d)
    BY <1>0, <2>1 DEF Elsewhere, Told
  <2>6. t \in Loose(s, d)' => t \in Loose(s, d)
    BY <1>0, <2>1, <2>4, <2>5, WhoIsCounted, WhoIsCountedNext DEF Told
  <2>7. QED
    BY <1>0, <2>1, <2>2, <2>3, <2>6, ThreadKeeps
<1>3. CASE Claim(t)
  <2>1. /\ conn[t] = "claiming"
        /\ conn' = [conn EXCEPT ![t] = IF RedisUrl THEN "pinging" ELSE "memory"]
        /\ conn'[t] = IF RedisUrl THEN "pinging" ELSE "memory"
        /\ resolved' = resolved \cup {Home[t]}
        /\ UNCHANGED <<connected, resets>>
    BY <1>0, <1>3 DEF Claim
  <2>2. pc[t] \in {"idle", "checking"}
    BY <2>1 DEF Unresolved, NotYetAsked
  (* The first thread of an instance: its dict is still empty.             *)
  <2>3. CASE RedisUrl /\ s = Home[t] /\ s \notin resolved
    <3>1. used'[s][d] < VlmDailyBudget
      <4>1. used[s][d] = 0
        BY <1>0, <2>3 DEF Unresolved, Fresh
      <4>2. QED
        BY <1>0, <4>1, Quantities
    <3>2. t \in UsersOf(s) /\ t \notin Settled(s, d)'
      BY <1>0, <2>2, <2>3, WhoIsCountedNext DEF UsersOf
    <3>3. QED
      BY <3>1, <3>2, JoinBound
  <2>4. CASE ~ (RedisUrl /\ s = Home[t] /\ s \notin resolved)
    <3>1. t \notin Settled(s, d)'
      BY <1>0, <2>2, WhoIsCountedNext
    <3>2. t \in Loose(s, d)' => t \in Loose(s, d)
      <4>1. CASE RedisUrl /\ s # "redis"
        <5>1. ~ Offline(t)'
          BY <2>1, <4>1 DEF Offline
        <5>2. QED
          BY <4>1, <5>1, WhoIsCountedNext
      <4>2. CASE RedisUrl /\ s = "redis"
        <5>1. ~ Told(t) /\ ~ Told(t)'
          BY <2>1, <4>2 DEF Told
        <5>2. Elsewhere(t, s, d)' => Elsewhere(t, s, d)
          BY <1>0, <5>1 DEF Elsewhere
        <5>3. QED
          BY <1>0, <2>1, <4>2, <5>1, <5>2, WhoIsCounted, WhoIsCountedNext
      <4>3. CASE ~ RedisUrl
        <5>1. /\ s # "redis" /\ ~ Told(t) /\ Offline(t) /\ Offline(t)'
              /\ StoreOf(t)' = Home[t]
          BY <1>0, <2>1, <4>3 DEF Offline, Told, StoreOf
        <5>2. Home[t] = s /\ Elsewhere(t, s, d)' => Elsewhere(t, s, d)
          BY <1>0, <5>1 DEF Elsewhere
        <5>3. QED
          BY <1>0, <2>1, <2>2, <5>1, <5>2, WhoIsCounted, WhoIsCountedNext
      <4>4. QED
        BY <4>1, <4>2, <4>3
    <3>3. ASSUME NEW u \in Threads, u # t
          PROVE  /\ u \in Settled(s, d)' => u \in Settled(s, d)
                 /\ u \in Loose(s, d)' => u \in Loose(s, d)
      <4>1. /\ conn'[u] = conn[u]
            /\ Told(u)' <=> Told(u)
            /\ StoreOf(u)' = StoreOf(u)
        BY <1>0, <2>1, <3>3 DEF Told, StoreOf
      <4>2. Elsewhere(u, s, d)' <=> Elsewhere(u, s, d)
        BY <1>0, <4>1 DEF Elsewhere
      <4>3. Home[u] = s /\ Offline(u)' => Offline(u)
        BY <1>0, <2>1, <2>4, <4>1 DEF Offline
      <4>4. QED
        BY <1>0, <2>1, <4>1, <4>2, <4>3, WhoIsCounted, WhoIsCountedNext
    <3>4. /\ Settled(s, d)' \subseteq Settled(s, d)
          /\ Loose(s, d)' \subseteq Loose(s, d)
      BY <3>1, <3>2, <3>3, CountedSets
    <3>5. QED
      BY <1>0, <2>1, <3>4, Quantities, KeptBound DEF Kept
  <2>5. QED
    BY <2>3, <2>4
<1>4. CASE PingAnswers(t)
  <2>1. /\ conn[t] = "pinging"
        /\ conn' = [conn EXCEPT ![t] = "call"]
        /\ connected' = connected \cup {Home[t]}
        /\ UNCHANGED <<resolved, resets>>
    BY <1>0, <1>4 DEF PingAnswers
  <2>2. RedisUrl
    BY <2>1 DEF TypeOK, ClientTypes
  <2>3. ASSUME NEW u \in Threads
        PROVE  /\ u \in Settled(s, d)' => u \in Settled(s, d)
               /\ u \in Loose(s, d)' => u \in Loose(s, d)
    <3>1. /\ Told(u)' <=> Told(u)
          /\ StoreOf(u)' = StoreOf(u)
      BY <1>0, <2>1 DEF Told, StoreOf
    <3>2. Elsewhere(u, s, d)' <=> Elsewhere(u, s, d)
      BY <1>0, <3>1 DEF Elsewhere
    <3>3. Offline(u)' => Offline(u)
      BY <1>0, <2>1, <2>2 DEF Offline
    <3>4. QED
      BY <1>0, <2>1, <3>1, <3>2, <3>3, WhoIsCounted, WhoIsCountedNext
  <2>4. /\ Settled(s, d)' \subseteq Settled(s, d)
        /\ Loose(s, d)' \subseteq Loose(s, d)
    BY <2>3, CountedSets
  <2>5. QED
    BY <1>0, <2>1, <2>4, Quantities, KeptBound DEF Kept
<1>5. CASE PingFails(t)
  <2>1. /\ conn[t] = "pinging"
        /\ conn' = [conn EXCEPT ![t] = "call"]
        /\ resets' = resets + 1
    BY <1>0, <1>5 DEF PingFails
  <2>2. ASSUME NEW u \in Threads
        PROVE  u \in Settled(s, d)' => u \in Settled(s, d)
    <3>1. /\ Told(u)' <=> Told(u)
          /\ StoreOf(u)' = StoreOf(u)
      BY <1>0, <2>1 DEF Told, StoreOf
    <3>2. QED
      BY <1>0, <3>1, WhoIsCounted, WhoIsCountedNext
  <2>3. Settled(s, d)' \subseteq Settled(s, d)
    BY <2>2, CountedSets
  <2>4. QED
    BY <1>0, <2>1, <2>3, Quantities, ResetBound
<1>6. QED
  BY <1>1, <1>2, <1>3, <1>4, <1>5 DEF Client, Resolve

(* Midnight, and a restart.                                                *)
LEMMA NextDayKeepsBound ==
    ASSUME TypeOK, TypeOK', FutureIsBlank, DaysTaken, CrowdBound',
           VlmDailyBudget > 0, NEW s \in Stores, NEW d \in Day,
           CounterBound(s, d), NextDay
    PROVE  CounterBound(s, d)'
<1>0. /\ UNCHANGED <<used, pc, day, resolved, connected, conn, faults, resets>>
      /\ today' = today + 1
      /\ today \in Nat /\ d \in Nat
  BY BudgetAssumption DEF NextDay, clientVars, TypeOK, Day
<1>1. CASE d = today + 1
  <2>1. used'[s][d] < VlmDailyBudget
    <3>1. used[s][d] = 0
      BY <1>0, <1>1 DEF FutureIsBlank
    <3>2. QED
      BY <1>0, <3>1, Quantities
  <2>2. ASSUME NEW u \in Threads PROVE u \notin Settled(s, d)'
    <3>1. day[u] # d
      BY <1>0, <1>1, BudgetAssumption DEF DaysTaken, TypeOK, Day
    <3>2. QED
      BY <1>0, <3>1, WhoIsCountedNext
  <2>3. s # "redis" => Settled(s, d)' # UsersOf(s)
    <3>1. ASSUME s # "redis" PROVE \E u \in Threads : u \in UsersOf(s)
      BY <3>1, ClientAssumption DEF UsersOf, Stores
    <3>2. QED
      BY <2>2, <3>1 DEF UsersOf
  <2>4. QED
    BY <2>1, <2>3, JoinBound
<1>2. CASE d # today + 1
  <2>1. ASSUME NEW u \in Threads
        PROVE  /\ u \in Settled(s, d)' => u \in Settled(s, d)
               /\ u \in Loose(s, d)' => u \in Loose(s, d)
    <3>1. /\ Told(u)' <=> Told(u)
          /\ StoreOf(u)' = StoreOf(u)
          /\ Offline(u)' <=> Offline(u)
      BY <1>0 DEF Told, StoreOf, Offline
    <3>2. QED
      BY <1>0, <1>2, <3>1, WhoIsCounted, WhoIsCountedNext
  <2>2. /\ Settled(s, d)' \subseteq Settled(s, d)
        /\ Loose(s, d)' \subseteq Loose(s, d)
    BY <2>1, CountedSets
  <2>3. QED
    BY <1>0, <2>2, Quantities, KeptBound DEF Kept
<1>3. QED
  BY <1>1, <1>2

LEMMA RestartKeepsBound ==
    ASSUME TypeOK, TypeOK', NEW s \in Stores, NEW d \in Day,
           CounterBound(s, d), NEW i \in Instances, Restart(i)
    PROVE  CounterBound(s, d)'
<1>1. /\ resets' = resets + 1 /\ faults' = faults
      /\ conn' = [t \in Threads |-> IF Home[t] = i THEN "out" ELSE conn[t]]
      /\ pc' = [t \in Threads |-> IF Home[t] = i THEN "idle" ELSE pc[t]]
      /\ day' = [t \in Threads |-> IF Home[t] = i THEN 0 ELSE day[t]]
  BY DEF Restart, Reboot
<1>2. used'[s][d] <= used[s][d]
  <2>1. used'[s][d] = used[s][d] \/ used'[s][d] = 0
    BY DEF Restart, TypeOK
  <2>2. QED
    BY <2>1, Quantities
<1>3. ASSUME NEW u \in Threads
      PROVE  u \in Settled(s, d)' => u \in Settled(s, d)
  BY <1>1, WhoIsCounted, WhoIsCountedNext DEF Told, StoreOf
<1>4. Settled(s, d)' \subseteq Settled(s, d)
  BY <1>3, CountedSets
<1>5. QED
  BY <1>1, <1>2, <1>4, ResetBound

-----------------------------------------------------------------------------
(* Piles: for a function from stores to heights, as many numbered items of *)
(* each store as its height.  Accounted and Slots are piles.               *)
Pile(height) == UNION {{s} \X (1 .. height[s]) : s \in Stores}

LEMMA PileMembers ==
    ASSUME NEW h
    PROVE  \A x : x \in Pile(h) <=>
              \E s \in Stores : \E n \in 1 .. h[s] : x = <<s, n>>
BY DEF Pile

LEMMA StoresFinite == IsFiniteSet(Stores)
<1>1. IsFiniteSet({"redis"}) /\ IsFiniteSet({})
  BY FS_Singleton, FS_EmptySet
<1>2. QED
  BY <1>1, ClientAssumption, FS_Union DEF Stores

LEMMA PileFinite ==
    ASSUME NEW h \in [Stores -> Int]
    PROVE  IsFiniteSet(Pile(h)) /\ Cardinality(Pile(h)) \in Nat
<1> DEFINE f == [s \in Stores |-> {s} \X (1 .. h[s])]
           T == {f[s] : s \in Stores}
<1>1. f \in Surjection(Stores, T)
  BY DEF Surjection
<1>2. IsFiniteSet(T)
  BY <1>1, StoresFinite, FS_Surjection
<1>3. \A X \in T : IsFiniteSet(X)
  <2>1. ASSUME NEW s \in Stores PROVE IsFiniteSet({s} \X (1 .. h[s]))
    <3>1. IsFiniteSet({s})
      BY FS_Singleton
    <3>2. h[s] \in Int /\ 1 \in Int
      OBVIOUS
    <3>3. IsFiniteSet(1 .. h[s])
      BY <3>2, FS_Interval
    <3>4. QED
      BY <3>1, <3>3, FS_Product
  <2>2. QED
    BY <2>1
<1>4. IsFiniteSet(UNION T)
  BY <1>2, <1>3, FS_UNION
<1>5. Pile(h) = UNION T
  BY DEF Pile
<1>6. QED
  BY <1>4, <1>5, FS_CardinalityType

(* A pile that is nowhere higher has no more items.                        *)
LEMMA PileMono ==
    ASSUME NEW h \in [Stores -> Int], NEW g \in [Stores -> Int],
           \A s \in Stores : g[s] <= h[s]
    PROVE  Cardinality(Pile(g)) <= Cardinality(Pile(h))
<1>1. Pile(g) \in SUBSET Pile(h)
  <2>1. ASSUME NEW s \in Stores, NEW n \in 1 .. g[s]
        PROVE  n \in 1 .. h[s]
    <3>1. g[s] \in Int /\ h[s] \in Int /\ g[s] <= h[s]
      OBVIOUS
    <3>2. QED
      BY <3>1
  <2>2. QED
    BY <2>1, PileMembers
<1>2. QED
  BY <1>1, PileFinite, FS_Subset

(* One store higher by one: one item more.                                 *)
LEMMA PileAdd ==
    ASSUME NEW h \in [Stores -> Nat], NEW s0 \in Stores
    PROVE  /\ [h EXCEPT ![s0] = @ + 1] \in [Stores -> Nat]
           /\ Cardinality(Pile([h EXCEPT ![s0] = @ + 1]))
                  = Cardinality(Pile(h)) + 1
<1> DEFINE g == [h EXCEPT ![s0] = @ + 1]
<1>1. /\ g \in [Stores -> Nat]
      /\ g[s0] = h[s0] + 1 /\ h[s0] \in Nat
      /\ \A s \in Stores \ {s0} : g[s] = h[s]
  OBVIOUS
<1> HIDE DEF g
<1> DEFINE x == <<s0, h[s0] + 1>>
<1>2. x \notin Pile(h)
  <2>1. h[s0] + 1 \notin 1 .. h[s0]
    BY <1>1
  <2>2. QED
    BY <2>1, PileMembers
<1>3. Pile(g) \subseteq Pile(h) \cup {x}
  <2>1. ASSUME NEW s \in Stores, NEW n \in 1 .. g[s]
        PROVE  <<s, n>> \in Pile(h) \cup {x}
    <3>1. CASE s # s0
      BY <1>1, <3>1, PileMembers
    <3>2. CASE s = s0
      <4>1. n \in 1 .. h[s0] \/ n = h[s0] + 1
        BY <1>1, <3>2
      <4>2. QED
        BY <3>2, <4>1, PileMembers
    <3>3. QED
      BY <3>1, <3>2
  <2>2. QED
    BY <2>1, PileMembers
<1>4. Pile(h) \cup {x} \subseteq Pile(g)
  <2>1. ASSUME NEW s \in Stores, NEW n \in 1 .. h[s]
        PROVE  <<s, n>> \in Pile(g)
    <3>1. n \in 1 .. g[s]
      BY <1>1
    <3>2. QED
      BY <3>1, PileMembers
  <2>2. x \in Pile(g)
    <3>1. h[s0] + 1 \in 1 .. g[s0]
      BY <1>1
    <3>2. QED
      BY <3>1, PileMembers
  <2>3. QED
    BY <2>1, <2>2, PileMembers
<1>5. Pile(g) = Pile(h) \cup {x}
  BY <1>3, <1>4
<1>6. IsFiniteSet(Pile(h)) /\ Cardinality(Pile(h)) \in Nat
  BY PileFinite
<1>7. Cardinality(Pile(g)) = Cardinality(Pile(h)) + 1
  BY <1>2, <1>5, <1>6, FS_AddElement
<1>8. QED
  BY <1>1, <1>7 DEF g

-----------------------------------------------------------------------------
(* The answers of a day that the stores account for, store by store.       *)
Charges(d) == [s \in Stores |-> Charge(s, d)]

LEMMA AccountedIsPile ==
    ASSUME NEW d
    PROVE  /\ Accounted(d) = Pile(Charges(d))
           /\ Accounted(d)' = Pile(Charges(d)')
BY DEF Accounted, Pile, Charges, Stores

LEMMA ChargeTypes ==
    ASSUME TypeOK, TypeOK', NEW d \in Day
    PROVE  /\ Charges(d) \in [Stores -> Nat]
           /\ Charges(d)' \in [Stores -> Nat]
           /\ \A s \in Stores :
                 /\ BoundFor(s, d) \in SUBSET Threads
                 /\ BoundFor(s, d)' \in SUBSET Threads
                 /\ Cardinality(BoundFor(s, d)) \in Nat
                 /\ Cardinality(BoundFor(s, d)') \in Nat
                 /\ Charges(d)[s] = used[s][d] + Cardinality(BoundFor(s, d))
                 /\ Charges(d)'[s]
                        = used'[s][d] + Cardinality(BoundFor(s, d)')
<1>1. ASSUME NEW s \in Stores
      PROVE  /\ BoundFor(s, d) \in SUBSET Threads
             /\ BoundFor(s, d)' \in SUBSET Threads
             /\ Cardinality(BoundFor(s, d)) \in Nat
             /\ Cardinality(BoundFor(s, d)') \in Nat
             /\ used[s][d] \in Nat /\ used'[s][d] \in Nat
  <2>1. /\ BoundFor(s, d) \in SUBSET Threads
        /\ BoundFor(s, d)' \in SUBSET Threads
    BY DEF BoundFor, Recording
  <2>2. used[s][d] \in Nat /\ used'[s][d] \in Nat
    BY DEF TypeOK, Stores, Day
  <2>3. QED
    BY <2>1, <2>2, ThreadSubset
<1>2. Charges(d) = [s \in Stores |-> Charge(s, d)]
  BY DEF Charges
<1>3. Charges(d)' = [s \in Stores |-> Charge(s, d)']
  BY DEF Charges, Stores
<1>4. ASSUME NEW s \in Stores
      PROVE  /\ Charge(s, d) = used[s][d] + Cardinality(BoundFor(s, d))
             /\ Charge(s, d)' = used'[s][d] + Cardinality(BoundFor(s, d)')
  BY DEF Charge
<1>5. QED
  BY <1>1, <1>2, <1>3, <1>4

(* The three ways in which a step keeps the accounts.                      *)
Books(d) ==
    /\ Cardinality(Accounted(d)) <= answered[d]
    /\ faults = 0 /\ resets = 0 => answered[d] = Cardinality(Accounted(d))

(* One: nothing is accounted for that was not, and if less is, a call or a *)
(* ping has failed or an instance has restarted.                           *)
LEMMA BooksShrink ==
    ASSUME TypeOK, TypeOK', NEW d \in Day, Books(d),
           answered'[d] = answered[d],
           \A s \in Stores : Charges(d)'[s] <= Charges(d)[s],
           \/ /\ \A s \in Stores : Charges(d)'[s] = Charges(d)[s]
              /\ faults' = faults /\ resets' = resets
           \/ faults' # 0 \/ resets' # 0
    PROVE  Books(d)'
<1> DEFINE A == Cardinality(Pile(Charges(d)))
           B == Cardinality(Pile(Charges(d)'))
<1>1. /\ Charges(d) \in [Stores -> Int] /\ Charges(d)' \in [Stores -> Int]
      /\ Charges(d) \in [Stores -> Nat] /\ Charges(d)' \in [Stores -> Nat]
  BY ChargeTypes
<1>2. A \in Nat /\ B \in Nat /\ B <= A
  BY <1>1, PileFinite, PileMono
<1>3. (\A s \in Stores : Charges(d)'[s] = Charges(d)[s]) => A = B
  <2>1. ASSUME \A s \in Stores : Charges(d)'[s] = Charges(d)[s]
        PROVE  Charges(d)' = Charges(d)
    BY <1>1, <2>1
  <2>2. QED
    BY <2>1
<1>4. /\ Cardinality(Accounted(d)) = A
      /\ Cardinality(Accounted(d)') = B
  BY AccountedIsPile
<1>5. answered[d] \in Nat
  BY DEF TypeOK
<1>6. QED
  BY <1>2, <1>3, <1>4, <1>5 DEF Books

(* Two: an answer, accounted for in one store.                             *)
LEMMA BooksAdd ==
    ASSUME TypeOK, TypeOK', NEW d \in Day, Books(d), NEW s0 \in Stores,
           answered'[d] = answered[d] + 1,
           Charges(d)' = [Charges(d) EXCEPT ![s0] = @ + 1],
           faults' = faults, resets' = resets
    PROVE  Books(d)'
<1> DEFINE A == Cardinality(Pile(Charges(d)))
           B == Cardinality(Pile(Charges(d)'))
<1>1. Charges(d) \in [Stores -> Nat] /\ Charges(d) \in [Stores -> Int]
  BY ChargeTypes
<1>2. A \in Nat /\ B = A + 1
  BY <1>1, PileFinite, PileAdd
<1>3. /\ Cardinality(Accounted(d)) = A
      /\ Cardinality(Accounted(d)') = B
  BY AccountedIsPile
<1>4. answered[d] \in Nat
  BY DEF TypeOK
<1>5. QED
  BY <1>2, <1>3, <1>4 DEF Books

(* Three: an answer, accounted for in another store than before.           *)
LEMMA BooksMove ==
    ASSUME TypeOK, TypeOK', NEW d \in Day, Books(d), NEW h \in [Stores -> Nat],
           NEW s0 \in Stores, NEW s1 \in Stores,
           Charges(d) = [h EXCEPT ![s0] = @ + 1],
           Charges(d)' = [h EXCEPT ![s1] = @ + 1],
           answered' = answered, faults' = faults, resets' = resets
    PROVE  Books(d)'
<1> DEFINE g0 == [h EXCEPT ![s0] = @ + 1]
           g1 == [h EXCEPT ![s1] = @ + 1]
<1>a. /\ Cardinality(Pile(g0)) = Cardinality(Pile(h)) + 1
      /\ Cardinality(Pile(g1)) = Cardinality(Pile(h)) + 1
  BY PileAdd
<1>b. Charges(d) = g0 /\ Charges(d)' = g1
  OBVIOUS
<1> HIDE DEF g0, g1
<1>1. Cardinality(Pile(Charges(d))) = Cardinality(Pile(Charges(d)'))
  BY <1>a, <1>b
<1>2. /\ Cardinality(Accounted(d)) = Cardinality(Pile(Charges(d)))
      /\ Cardinality(Accounted(d)') = Cardinality(Pile(Charges(d)'))
  BY AccountedIsPile
<1>3. QED
  BY <1>1, <1>2 DEF Books

(* Where the answer of a recording thread is bound for.                    *)
LEMMA WhoIsBound ==
    ASSUME NEW t \in Threads, NEW s, NEW d
    PROVE  /\ t \in BoundFor(s, d) <=>
                pc[t] = "recording" /\ day[t] = d /\ Target(t) = s
           /\ t \in BoundFor(s, d)' <=>
                pc'[t] = "recording" /\ day'[t] = d /\ Target(t)' = s
BY DEF BoundFor, Recording

LEMMA TargetIsStore ==
    ASSUME TypeOK, NEW t \in Threads
    PROVE  Target(t) \in Stores
BY ClientAssumption DEF Target, StoreOf, Told, Stores, TypeOK, ClientTypes

(* A step after which every thread that still records is bound for where   *)
(* it was, and nobody has begun to record.                                 *)
StillBound(u) ==
    pc'[u] = "recording" =>
        pc[u] = "recording" /\ day'[u] = day[u] /\ Target(u)' = Target(u)

LEMMA LessBound ==
    ASSUME NEW s, NEW d, \A u \in Threads : StillBound(u)
    PROVE  BoundFor(s, d)' \subseteq BoundFor(s, d)
BY WhoIsBound DEF StillBound, BoundFor, Recording

LEMMA SameBound ==
    ASSUME NEW s, NEW d,
           \A u \in Threads : StillBound(u) /\ (pc[u] = "recording"
                                                  => pc'[u] = "recording")
    PROVE  BoundFor(s, d)' = BoundFor(s, d)
BY WhoIsBound DEF StillBound, BoundFor, Recording

LEMMA QuietBooks ==
    ASSUME TypeOK, TypeOK', NEW d \in Day, Books(d),
           used' = used, answered' = answered,
           \A u \in Threads : StillBound(u) /\ (pc[u] = "recording"
                                                  => pc'[u] = "recording"),
           \/ faults' = faults /\ resets' = resets
           \/ faults' # 0 \/ resets' # 0
    PROVE  Books(d)'
<1>1. ASSUME NEW s \in Stores PROVE Charges(d)'[s] = Charges(d)[s]
  <2>1. BoundFor(s, d)' = BoundFor(s, d)
    BY SameBound
  <2>2. QED
    BY <2>1, ChargeTypes
<1>2. \A s \in Stores : Charges(d)'[s] <= Charges(d)[s]
  <2>1. \A s \in Stores : Charges(d)[s] \in Nat
    BY ChargeTypes
  <2>2. QED
    BY <1>1, <2>1
<1>3. QED
  BY <1>1, <1>2, BooksShrink

LEMMA FailingBooks ==
    ASSUME TypeOK, TypeOK', NEW d \in Day, Books(d),
           \A s \in Stores : used'[s][d] <= used[s][d],
           answered' = answered, \A u \in Threads : StillBound(u),
           faults' # 0 \/ resets' # 0
    PROVE  Books(d)'
<1>1. ASSUME NEW s \in Stores PROVE Charges(d)'[s] <= Charges(d)[s]
  <2>1. Cardinality(BoundFor(s, d)') <= Cardinality(BoundFor(s, d))
    BY LessBound, ChargeTypes, CardMono
  <2>2. used'[s][d] \in Nat /\ used[s][d] \in Nat
    BY DEF TypeOK, Stores, Day
  <2>3. QED
    BY <2>1, <2>2, ChargeTypes
<1>2. QED
  BY <1>1, BooksShrink

(* A thread that is not told a store keeps the target it had.              *)
LEMMA SameTarget ==
    ASSUME NEW u \in Threads,
           \/ conn'[u] = conn[u]
           \/ ~ Told(u) /\ ~ Told(u)'
    PROVE  Target(u)' = Target(u)
<1>1. CASE conn'[u] = conn[u]
  BY <1>1 DEF Target, Told, StoreOf
<1>2. CASE ~ Told(u) /\ ~ Told(u)'
  BY <1>2 DEF Target, Told, StoreOf
<1>3. QED
  BY <1>1, <1>2

(* The VLM's answer is accounted for where a working client would send it. *)
LEMMA StartRecordKeepsBooks ==
    ASSUME TypeOK, TypeOK', NEW d \in Day, Books(d),
           NEW t \in Threads, StartRecord(t)
    PROVE  Books(d)'
<1>1. /\ pc[t] = "admitted" /\ pc' = [pc EXCEPT ![t] = "recording"]
      /\ day' = [day EXCEPT ![t] = today]
      /\ conn' = [conn EXCEPT ![t] = "call"]
      /\ answered' = [answered EXCEPT ![today] = @ + 1]
      /\ used' = used /\ faults' = faults /\ resets' = resets
  BY DEF StartRecord, Goto, Ask, At, linkVars
<1>2. ASSUME NEW u \in Threads \ {t}
      PROVE  /\ pc'[u] = pc[u] /\ day'[u] = day[u]
             /\ Target(u)' = Target(u)
  <2>1. pc'[u] = pc[u] /\ day'[u] = day[u] /\ conn'[u] = conn[u]
    BY <1>1 DEF TypeOK, ClientTypes
  <2>2. QED
    BY <2>1, SameTarget
<1>3. pc'[t] = "recording" /\ day'[t] = today
  BY <1>1 DEF TypeOK
<1>4. CASE d = today
  <2>1. PICK s0 \in Stores : s0 = Target(t)'
    BY TargetIsStore, ClientAssumption, <1>1
       DEF Target, StoreOf, Told, Stores, TypeOK, ClientTypes
  <2>2. ASSUME NEW s \in Stores
        PROVE  Charges(d)'[s] = IF s = s0 THEN Charges(d)[s] + 1
                                          ELSE Charges(d)[s]
    <3>1. CASE s = s0
      <4>1. BoundFor(s, d)' \subseteq BoundFor(s, d) \cup {t}
        BY <1>2, WhoIsBound, ChargeTypes
      <4>2. BoundFor(s, d) \cup {t} \subseteq BoundFor(s, d)'
        BY <1>1, <1>2, <1>3, <1>4, <2>1, <3>1, WhoIsBound, ChargeTypes
      <4>3. t \notin BoundFor(s, d)
        BY <1>1, WhoIsBound
      <4>4. Cardinality(BoundFor(s, d)') = Cardinality(BoundFor(s, d)) + 1
        BY <4>1, <4>2, <4>3, ChargeTypes, CardAdd
      <4>5. used[s][d] \in Nat
        BY DEF TypeOK
      <4>6. /\ Charges(d)[s] = used[s][d] + Cardinality(BoundFor(s, d))
            /\ Charges(d)'[s] = used[s][d] + Cardinality(BoundFor(s, d)')
            /\ Cardinality(BoundFor(s, d)) \in Nat
        BY <1>1, ChargeTypes
      <4>7. QED
        BY <3>1, <4>4, <4>5, <4>6
    <3>2. CASE s # s0
      <4>1. BoundFor(s, d)' \subseteq BoundFor(s, d)
        BY <1>2, <2>1, <3>2, WhoIsBound, ChargeTypes
      <4>2. BoundFor(s, d) \subseteq BoundFor(s, d)'
        BY <1>1, <1>2, <3>2, WhoIsBound, ChargeTypes
      <4>3. BoundFor(s, d)' = BoundFor(s, d)
        BY <4>1, <4>2
      <4>4. QED
        BY <1>1, <3>2, <4>3, ChargeTypes
    <3>3. QED
      BY <3>1, <3>2
  <2>3. Charges(d)' = [Charges(d) EXCEPT ![s0] = @ + 1]
    BY <2>2, ChargeTypes
  <2>4. answered'[d] = answered[d] + 1
    BY <1>1, <1>4 DEF TypeOK
  <2>5. QED
    BY <1>1, <2>3, <2>4, BooksAdd
<1>5. CASE d # today
  <2>1. ASSUME NEW s \in Stores
        PROVE  Charges(d)'[s] = Charges(d)[s]
    <3>1. BoundFor(s, d)' \subseteq BoundFor(s, d)
      BY <1>2, <1>3, <1>5, WhoIsBound, ChargeTypes
    <3>2. BoundFor(s, d) \subseteq BoundFor(s, d)'
      BY <1>1, <1>2, WhoIsBound, ChargeTypes
    <3>3. BoundFor(s, d)' = BoundFor(s, d)
      BY <3>1, <3>2
    <3>4. QED
      BY <1>1, <3>3, ChargeTypes
  <2>2. \A s \in Stores : Charges(d)'[s] <= Charges(d)[s]
    <3>1. \A s \in Stores : Charges(d)[s] \in Nat
      BY ChargeTypes
    <3>2. QED
      BY <2>1, <3>1
  <2>3. answered'[d] = answered[d]
    BY <1>1, <1>5 DEF TypeOK
  <2>4. QED
    BY <1>1, <2>1, <2>2, <2>3, BooksShrink
<1>6. QED
  BY <1>4, <1>5

(* The increment moves an answer from those on their way to those counted. *)
LEMMA FinishRecordKeepsBooks ==
    ASSUME TypeOK, TypeOK', NEW d \in Day, Books(d),
           NEW t \in Threads, FinishRecord(t)
    PROVE  Books(d)'
<1>1. /\ pc[t] = "recording" /\ Told(t) /\ pc' = [pc EXCEPT ![t] = "idle"]
      /\ day' = [day EXCEPT ![t] = 0]
      /\ conn' = [conn EXCEPT ![t] = "out"]
      /\ used' = [used EXCEPT ![StoreOf(t)][day[t]] = @ + 1]
      /\ answered' = answered /\ faults' = faults /\ resets' = resets
  BY DEF FinishRecord, Goto, Leave, Done, At, linkVars
<1>2. ASSUME NEW u \in Threads \ {t}
      PROVE  /\ pc'[u] = pc[u] /\ day'[u] = day[u]
             /\ Target(u)' = Target(u)
  <2>1. pc'[u] = pc[u] /\ day'[u] = day[u] /\ conn'[u] = conn[u]
    BY <1>1 DEF TypeOK, ClientTypes
  <2>2. QED
    BY <2>1, SameTarget
<1>3. pc'[t] = "idle" /\ Target(t) = StoreOf(t)
  BY <1>1 DEF TypeOK, Target
<1>4. ASSUME NEW s \in Stores
      PROVE  Charges(d)'[s] = Charges(d)[s]
  <2>1. CASE s = StoreOf(t) /\ d = day[t]
    <3>1. BoundFor(s, d)' \subseteq BoundFor(s, d) \ {t}
      BY <1>2, <1>3, WhoIsBound, ChargeTypes
    <3>2. BoundFor(s, d) \ {t} \subseteq BoundFor(s, d)'
      BY <1>2, WhoIsBound, ChargeTypes
    <3>3. t \in BoundFor(s, d)
      BY <1>1, <1>3, <2>1, WhoIsBound
    <3>4. Cardinality(BoundFor(s, d)') = Cardinality(BoundFor(s, d)) - 1
      BY <3>1, <3>2, <3>3, ChargeTypes, CardRemove
    <3>5. used'[s][d] = used[s][d] + 1 /\ used[s][d] \in Nat
      BY <1>1, <2>1 DEF TypeOK
    <3>6. QED
      BY <3>4, <3>5, ChargeTypes
  <2>2. CASE ~ (s = StoreOf(t) /\ d = day[t])
    <3>1. BoundFor(s, d)' \subseteq BoundFor(s, d)
      BY <1>2, <1>3, WhoIsBound, ChargeTypes
    <3>2. BoundFor(s, d) \subseteq BoundFor(s, d)'
      BY <1>2, <1>3, <2>2, WhoIsBound, ChargeTypes
    <3>3. BoundFor(s, d)' = BoundFor(s, d)
      BY <3>1, <3>2
    <3>4. used'[s][d] = used[s][d]
      BY <1>1, <2>2 DEF TypeOK
    <3>5. QED
      BY <3>3, <3>4, ChargeTypes
  <2>3. QED
    BY <2>1, <2>2
<1>5. \A s \in Stores : Charges(d)'[s] <= Charges(d)[s]
  <2>1. \A s \in Stores : Charges(d)[s] \in Nat
    BY ChargeTypes
  <2>2. QED
    BY <1>4, <2>1
<1>6. QED
  BY <1>1, <1>4, <1>5, BooksShrink

(* A recording thread that is told the dict takes its answer there.        *)
LEMMA ClientKeepsBooks ==
    ASSUME TypeOK, TypeOK', NEW d \in Day, Books(d),
           NEW t \in Threads, Client(t)
    PROVE  Books(d)'
<1>0. /\ conn \in [Threads -> {"out", "call", "claiming", "pinging", "redis",
                               "memory"}]
      /\ UNCHANGED <<used, pc, day, answered>>
      /\ faults' = faults
      /\ resets' = resets \/ resets' # 0
  BY DEF TypeOK, ClientTypes, Client, Resolve, Return, FindUnresolved, Claim,
         PingAnswers, PingFails, linkVars
<1>1. PICK place \in {"call", "claiming", "pinging", "redis", "memory"} :
          /\ conn' = [conn EXCEPT ![t] = place]
          /\ conn[t] \in {"call", "claiming", "pinging"}
          /\ place = "redis" => RedisUrl /\ conn[t] = "call" /\ UNCHANGED resets
          /\ place = "memory" => UNCHANGED resets
  BY DEF Client, Resolve, Return, FindUnresolved, Claim, PingAnswers,
         PingFails, At, linkVars, TypeOK, ClientTypes
<1>2. ASSUME NEW u \in Threads \ {t}
      PROVE  Target(u)' = Target(u)
  BY <1>0, <1>1, SameTarget
<1>3. /\ ~ Told(t) /\ conn'[t] = place
      /\ Target(t) = IF RedisUrl THEN "redis" ELSE Home[t]
      /\ Target(t)' = IF RedisUrl /\ place # "memory" THEN "redis" ELSE Home[t]
  BY <1>0, <1>1 DEF Told, StoreOf, Target
<1>4. CASE RedisUrl /\ place = "memory" /\ pc[t] = "recording" /\ day[t] = d
  <2>1. /\ "redis" \in Stores /\ Home[t] \in Stores /\ Home[t] # "redis"
    BY <1>4, ClientAssumption DEF Stores
  <2>2. ASSUME NEW s \in Stores
        PROVE  Charges(d)'[s] = IF s = Home[t] THEN Charges(d)[s] + 1
                                ELSE IF s = "redis" THEN Charges(d)[s] - 1
                                ELSE Charges(d)[s]
    <3>0. /\ Charges(d)[s] = used[s][d] + Cardinality(BoundFor(s, d))
          /\ Charges(d)'[s] = used[s][d] + Cardinality(BoundFor(s, d)')
          /\ Cardinality(BoundFor(s, d)) \in Nat
          /\ used[s][d] \in Nat
          /\ BoundFor(s, d) \in SUBSET Threads
          /\ BoundFor(s, d)' \in SUBSET Threads
      BY <1>0, ChargeTypes DEF TypeOK
    <3>1. CASE s = Home[t]
      <4>1. BoundFor(s, d)' = BoundFor(s, d) \cup {t} /\ t \notin BoundFor(s, d)
        BY <1>0, <1>2, <1>3, <1>4, <2>1, <3>0, <3>1, WhoIsBound
      <4>2. Cardinality(BoundFor(s, d)') = Cardinality(BoundFor(s, d)) + 1
        BY <3>0, <4>1, CardAdd
      <4>3. QED
        BY <3>0, <3>1, <4>2
    <3>2. CASE s = "redis"
      <4>1. BoundFor(s, d)' = BoundFor(s, d) \ {t} /\ t \in BoundFor(s, d)
        BY <1>0, <1>2, <1>3, <1>4, <2>1, <3>0, <3>2, WhoIsBound
      <4>2. Cardinality(BoundFor(s, d)') = Cardinality(BoundFor(s, d)) - 1
        BY <3>0, <4>1, CardRemove
      <4>3. QED
        BY <2>1, <3>0, <3>2, <4>2
    <3>3. CASE s # "redis" /\ s # Home[t]
      <4>1. ASSUME NEW u \in Threads
            PROVE  u \in BoundFor(s, d)' <=> u \in BoundFor(s, d)
        BY <1>0, <1>2, <1>3, <1>4, <3>3, WhoIsBound
      <4>2. BoundFor(s, d)' = BoundFor(s, d)
        BY <3>0, <4>1
      <4>3. QED
        BY <3>0, <3>3, <4>2
    <3>4. QED
      BY <3>1, <3>2, <3>3
  <2>3. t \in BoundFor("redis", d)
    BY <1>3, <1>4, WhoIsBound
  <2>4. Charges(d)["redis"] - 1 \in Nat
    <3>1. BoundFor("redis", d) # {} /\ IsFiniteSet(BoundFor("redis", d))
      BY <2>1, <2>3, ChargeTypes, ThreadSubset
    <3>2. Cardinality(BoundFor("redis", d)) # 0
      BY <3>1, FS_EmptySet
    <3>3. /\ Charges(d)["redis"]
                 = used["redis"][d] + Cardinality(BoundFor("redis", d))
          /\ Cardinality(BoundFor("redis", d)) \in Nat
          /\ used["redis"][d] \in Nat
      BY <2>1, ChargeTypes DEF TypeOK
    <3>4. QED
      BY <3>2, <3>3
  <2>5. PICK h : h = [Charges(d) EXCEPT !["redis"] = @ - 1]
    OBVIOUS
  <2>6. /\ h \in [Stores -> Nat]
        /\ Charges(d) = [h EXCEPT !["redis"] = @ + 1]
        /\ Charges(d)' = [h EXCEPT ![Home[t]] = @ + 1]
    <3>1. /\ Charges(d) \in [Stores -> Nat] /\ Charges(d)' \in [Stores -> Nat]
      BY ChargeTypes
    <3>2. h \in [Stores -> Nat]
      BY <2>4, <2>5, <3>1
    <3>3. Charges(d) = [h EXCEPT !["redis"] = @ + 1]
      <4>1. ASSUME NEW s \in Stores
            PROVE  Charges(d)[s] = [h EXCEPT !["redis"] = @ + 1][s]
        BY <2>4, <2>5, <3>1, <3>2
      <4>2. [h EXCEPT !["redis"] = @ + 1] \in [Stores -> Nat]
        BY <2>1, <3>2
      <4>3. QED
        BY <3>1, <4>1, <4>2
    <3>4. Charges(d)' = [h EXCEPT ![Home[t]] = @ + 1]
      <4>1. ASSUME NEW s \in Stores
            PROVE  Charges(d)'[s] = [h EXCEPT ![Home[t]] = @ + 1][s]
        BY <2>1, <2>2, <2>5, <3>1, <3>2
      <4>2. [h EXCEPT ![Home[t]] = @ + 1] \in [Stores -> Nat]
        BY <2>1, <3>2
      <4>3. QED
        BY <3>1, <4>1, <4>2
    <3>5. QED
      BY <3>2, <3>3, <3>4
  <2>7. resets' = resets
    BY <1>1, <1>4
  <2>8. QED
    BY <1>0, <2>1, <2>6, <2>7, BooksMove
<1>5. CASE ~ (RedisUrl /\ place = "memory" /\ pc[t] = "recording"
                /\ day[t] = d)
  <2>1. ASSUME NEW s \in Stores
        PROVE  BoundFor(s, d)' = BoundFor(s, d)
    <3>1. pc[t] = "recording" /\ day[t] = d => Target(t)' = Target(t)
      BY <1>3, <1>5
    <3>2. ASSUME NEW u \in Threads
          PROVE  u \in BoundFor(s, d)' <=> u \in BoundFor(s, d)
      BY <1>0, <1>2, <3>1, WhoIsBound
    <3>3. QED
      BY <3>2, ChargeTypes
  <2>2. ASSUME NEW s \in Stores
        PROVE  Charges(d)'[s] = Charges(d)[s]
    BY <1>0, <2>1, ChargeTypes
  <2>3. \A s \in Stores : Charges(d)'[s] <= Charges(d)[s]
    <3>1. \A s \in Stores : Charges(d)[s] \in Nat
      BY ChargeTypes
    <3>2. QED
      BY <2>2, <3>1
  <2>4. QED
    BY <1>0, <2>2, <2>3, BooksShrink
<1>6. QED
  BY <1>4, <1>5

(* Counted and on their way never outgrow the answers, and with no failure *)
(* they are exactly the answers.                                           *)
LEMMA AccountsKept ==
    ASSUME TypeOK, TypeOK', NEW d \in Day, Books(d), [Next]_vars
    PROVE  Books(d)'
<1>0. /\ pc \in [Threads -> Phase] /\ day \in [Threads -> Day]
      /\ conn \in [Threads -> {"out", "call", "claiming", "pinging", "redis",
                               "memory"}]
      /\ faults \in Nat /\ resets \in Nat
  BY ClientAssumption DEF TypeOK, ClientTypes
(* A step that leaves every recording thread alone.                        *)
<1>1. ASSUME NEW t \in Threads, pc[t] # "recording", pc'[t] # "recording",
             \A u \in Threads \ {t} :
                pc'[u] = pc[u] /\ day'[u] = day[u] /\ conn'[u] = conn[u],
             used' = used, answered' = answered,
             \/ faults' = faults /\ resets' = resets
             \/ faults' # 0 \/ resets' # 0
      PROVE  Books(d)'
  <2>1. ASSUME NEW u \in Threads
        PROVE  StillBound(u) /\ (pc[u] = "recording" => pc'[u] = "recording")
    <3>1. CASE u = t
      BY <1>1, <3>1 DEF StillBound
    <3>2. CASE u # t
      BY <1>1, <3>2, SameTarget DEF StillBound
    <3>3. QED
      BY <3>1, <3>2
  <2>2. QED
    BY <1>1, <2>1, QuietBooks
<1>2. ASSUME UNCHANGED <<used, pc, day, answered, conn, faults, resets>>
      PROVE  Books(d)'
  <2>1. ASSUME NEW u \in Threads
        PROVE  StillBound(u) /\ (pc[u] = "recording" => pc'[u] = "recording")
    BY <1>2, SameTarget DEF StillBound
  <2>2. QED
    BY <1>2, <2>1, QuietBooks
<1>3. ASSUME NEW t \in Threads,
             \/ StartCheck(t) \/ SkipCheck(t) \/ FinishCheck(t) \/ FailOpen(t)
             \/ Abandon(t) \/ Consult(t)
      PROVE  Books(d)'
  <2>1. /\ pc[t] # "recording" /\ pc'[t] # "recording"
        /\ \A u \in Threads \ {t} :
              pc'[u] = pc[u] /\ day'[u] = day[u] /\ conn'[u] = conn[u]
    BY <1>0, <1>3 DEF StartCheck, SkipCheck, FinishCheck, FailOpen, Abandon,
                      Consult, Goto, Leave, Ask, Done, At, clientVars, Phase
  <2>2. /\ used' = used /\ answered' = answered
        /\ \/ faults' = faults /\ resets' = resets
           \/ faults' # 0 \/ resets' # 0
    BY <1>0, <1>3 DEF StartCheck, SkipCheck, FinishCheck, FailOpen, Abandon,
                      Consult, Fault, clientVars, linkVars
  <2>3. QED
    BY <1>1, <2>1, <2>2
<1>4. ASSUME NEW t \in Threads, LoseRecord(t)
      PROVE  Books(d)'
  <2>1. /\ pc'[t] # "recording"
        /\ \A u \in Threads \ {t} :
              pc'[u] = pc[u] /\ day'[u] = day[u] /\ conn'[u] = conn[u]
        /\ used' = used /\ answered' = answered /\ faults' # 0
    BY <1>0, <1>4 DEF LoseRecord, Goto, Leave, Done, At, Fault
  <2>2. ASSUME NEW u \in Threads PROVE StillBound(u)
    BY <2>1, SameTarget DEF StillBound
  <2>3. \A s \in Stores : used'[s][d] <= used[s][d]
    BY <2>1 DEF TypeOK
  <2>4. QED
    BY <2>1, <2>2, <2>3, FailingBooks
<1>5. CASE NextDay
  BY <1>2, <1>5 DEF NextDay, clientVars
<1>6. ASSUME NEW i \in Instances, Restart(i)
      PROVE  Books(d)'
  <2>1. /\ conn' = [t \in Threads |-> IF Home[t] = i THEN "out" ELSE conn[t]]
        /\ pc' = [t \in Threads |-> IF Home[t] = i THEN "idle" ELSE pc[t]]
        /\ day' = [t \in Threads |-> IF Home[t] = i THEN 0 ELSE day[t]]
        /\ answered' = answered /\ resets' # 0
    BY <1>0, <1>6 DEF Restart, Reboot
  <2>2. ASSUME NEW u \in Threads PROVE StillBound(u)
    BY <2>1, SameTarget DEF StillBound
  <2>3. ASSUME NEW s \in Stores PROVE used'[s][d] <= used[s][d]
    <3>1. used'[s][d] = used[s][d] \/ used'[s][d] = 0
      BY <1>6 DEF Restart, TypeOK
    <3>2. used[s][d] \in Nat
      BY DEF TypeOK
    <3>3. QED
      BY <3>1, <3>2
  <2>4. QED
    BY <2>1, <2>2, <2>3, FailingBooks
<1>7. CASE UNCHANGED vars
  BY <1>2, <1>7 DEF vars, clientVars
<1>8. QED
  BY <1>3, <1>4, <1>5, <1>6, <1>7, StartRecordKeepsBooks,
     FinishRecordKeepsBooks, ClientKeepsBooks DEF Next, ThreadStep, OverBudget

-----------------------------------------------------------------------------
(* IInv holds in the initial state and is kept by every step.              *)
LEMMA InitIInv == Init => IInv
<1> SUFFICES ASSUME Init PROVE IInv
  OBVIOUS
<1>1. TypeOK /\ FutureIsBlank /\ DaysTaken /\ Unresolved /\ Connecting
  BY InitParts
<1>2. /\ \A t \in Threads : pc[t] = "idle" /\ day[t] = 0
      /\ \A s \in Stores, d \in Day : used[s][d] = 0
      /\ \A d \in Day : answered[d] = 0
  BY DEF Init
<1>3. UnsettledBound
  <2> SUFFICES ASSUME VlmDailyBudget > 0, NEW s \in Stores, NEW d \in Day
               PROVE  CounterBound(s, d)
    BY DEF UnsettledBound
  <2>1. Settled(s, d) = {}
    BY <1>2 DEF Settled, Recording
  <2>2. s # "redis" => Settled(s, d) # UsersOf(s)
    <3>1. ASSUME s # "redis" PROVE \E u \in Threads : u \in UsersOf(s)
      BY <3>1, ClientAssumption DEF UsersOf, Stores
    <3>2. QED
      BY <2>1, <3>1
  <2>3. CrowdBound
    BY <1>1, CrowdIsBounded
  <2>4. Cardinality(Settled(s, d)) + Cardinality(Loose(s, d)) + Pinger(s)
            <= Cardinality(UsersOf(s)) * (1 + resets)
    BY <2>2, <2>3 DEF CrowdBound
  <2>5. QED
    BY <1>1, <1>2, <2>4, Quantities DEF CounterBound, Allowance
<1>4. ASSUME NEW d \in Day PROVE Books(d)
  <2>1. ASSUME NEW s \in Stores PROVE Charge(s, d) = 0
    <3>1. BoundFor(s, d) = {}
      BY <1>2 DEF BoundFor, Recording
    <3>2. QED
      BY <1>2, <3>1, FS_EmptySet DEF Charge
  <2>2. Accounted(d) = {}
    BY <2>1 DEF Accounted
  <2>3. QED
    BY <1>2, <2>2, FS_EmptySet DEF Books
<1>5. NeverOvercounts /\ EveryAnswerCounted
  BY <1>4 DEF NeverOvercounts, EveryAnswerCounted, Books
<1>6. QED
  BY <1>1, <1>3, <1>5 DEF IInv

LEMMA BoundKept ==
    ASSUME TypeOK, TypeOK', FutureIsBlank, DaysTaken, Unresolved, CrowdBound',
           VlmDailyBudget > 0, NEW s \in Stores, NEW d \in Day,
           CounterBound(s, d), [Next]_vars
    PROVE  CounterBound(s, d)'
<1>1. CASE UNCHANGED vars
  BY <1>1 DEF vars, clientVars, CounterBound, Settled, Loose, Uncommitted,
              Undecided, Recording, Elsewhere, Offline, Told, StoreOf,
              Allowance, Pinger, UsersOf
<1>2. CASE Next
  BY <1>2, BreakerKeepsBound, ClientKeepsBound, NextDayKeepsBound,
     RestartKeepsBound DEF Next
<1>3. QED
  BY <1>1, <1>2

(* IInv holds in every state of every run.                                 *)
THEOREM Inductive == Spec => []IInv
<1>1. Init => IInv
  BY InitIInv
<1>2. TypeOK /\ Unresolved /\ Connecting => CrowdBound
  BY CrowdIsBounded
<1>3. IInv /\ TypeOK' /\ [Next]_vars
          /\ (TypeOK /\ Unresolved /\ Connecting => CrowdBound)' => IInv'
  <2> SUFFICES ASSUME IInv, TypeOK', [Next]_vars,
                      (TypeOK /\ Unresolved /\ Connecting => CrowdBound)'
               PROVE  IInv'
    OBVIOUS
  <2>1. /\ TypeOK /\ FutureIsBlank /\ DaysTaken /\ Unresolved /\ Connecting
        /\ UnsettledBound /\ NeverOvercounts /\ EveryAnswerCounted
    BY DEF IInv
  <2>2. FutureIsBlank' /\ DaysTaken'
    BY <2>1, FutureStaysBlank
  <2>3. Unresolved' /\ Connecting'
    BY <2>1, FreshKept, ConnectingKept
  <2>4. UnsettledBound'
    <3>1. CrowdBound'
      BY <2>3
    <3>2. ASSUME VlmDailyBudget > 0, NEW s \in Stores, NEW d \in Day
          PROVE  CounterBound(s, d)'
      <4>1. CounterBound(s, d)
        BY <2>1, <3>2 DEF UnsettledBound
      <4>2. QED
        BY <2>1, <3>1, <3>2, <4>1, BoundKept
    <3>3. QED
      BY <3>2 DEF UnsettledBound, Stores, Day
  <2>5. NeverOvercounts' /\ EveryAnswerCounted'
    <3>1. ASSUME NEW d \in Day PROVE Books(d)'
      <4>1. Books(d)
        BY <2>1 DEF NeverOvercounts, EveryAnswerCounted, Books
      <4>2. QED
        BY <2>1, <4>1, AccountsKept
    <3>2. QED
      BY <3>1 DEF NeverOvercounts, EveryAnswerCounted, Books, Day
  <2>6. QED
    BY <2>2, <2>3, <2>4, <2>5 DEF IInv
<1>4. QED
  BY <1>1, <1>2, <1>3, TypeCorrect, PTL DEF Spec

(* The overshoot of every counter is bounded: the race between             *)
(* over_budget() and record(), with midnight and a change of store in      *)
(* between, costs at most one answer for each user of the store but one,   *)
(* plus one for each failed call, plus its users again for each reset.     *)
THEOREM OvershootIsBounded == Spec => []Overshoot
<1>1. IInv => Overshoot
  <2> SUFFICES ASSUME IInv, VlmDailyBudget > 0, NEW s \in Stores, NEW d \in Day
               PROVE  used[s][d] < Allowance(s)
    BY DEF Overshoot
  <2>1. TypeOK /\ CounterBound(s, d)
    BY DEF IInv, UnsettledBound
  <2>2. QED
    BY <2>1, Quantities DEF CounterBound, Allowance
<1>2. QED
  BY <1>1, Inductive, PTL

(* The counters of a day never run ahead of that day's real answers.       *)
THEOREM CounterIsHonest == Spec => []NeverOvercounts
<1>1. IInv => NeverOvercounts
  BY DEF IInv
<1>2. QED
  BY <1>1, Inductive, PTL

(* With no failed call or ping and no restart, the answers of a day fit in *)
(* the slots that the stores have between them, whichever store each       *)
(* request was checked against and recorded in.                            *)
THEOREM FaultFreeAnswersAreBounded == Spec => []FaultFreeAnswers
<1>1. IInv => FaultFreeAnswers
  <2> SUFFICES ASSUME IInv, VlmDailyBudget > 0, faults = 0, resets = 0,
                      NEW d \in Day
               PROVE  answered[d] <= Cardinality(Slots)
    BY DEF FaultFreeAnswers
  <2> DEFINE c == [s \in Stores |-> Charge(s, d)]
             a == [s \in Stores |-> Allowance(s) - 1]
  <2>0. TypeOK /\ ClientTypes
    BY DEF IInv, TypeOK
  <2>1. answered[d] = Cardinality(Accounted(d))
    BY DEF IInv, EveryAnswerCounted
  <2>2. ASSUME NEW s \in Stores
        PROVE  /\ Charge(s, d) \in Int /\ Allowance(s) - 1 \in Int
               /\ Charge(s, d) <= Allowance(s) - 1
    <3>1. BoundFor(s, d) \in SUBSET (Settled(s, d) \cup Loose(s, d))
      <4>1. ASSUME NEW t \in BoundFor(s, d)
            PROVE  t \in Settled(s, d) \/ t \in Loose(s, d)
        <5>1. /\ t \in Threads /\ pc[t] = "recording" /\ day[t] = d
              /\ Target(t) = s
          BY DEF BoundFor, Recording
        <5>2. CASE Told(t)
          BY <5>1, <5>2, WhoIsCounted DEF Target
        <5>3. CASE ~ Told(t) /\ RedisUrl
          BY <5>1, <5>3, WhoIsCounted DEF Target
        <5>4. CASE ~ Told(t) /\ ~ RedisUrl
          <6>1. s = Home[t] /\ Offline(t)
            BY <5>1, <5>4 DEF Target, StoreOf, Told, Offline
          <6>2. QED
            BY <5>1, <5>4, <6>1, WhoIsCounted
        <5>5. QED
          BY <5>2, <5>3, <5>4
      <4>2. QED
        BY <4>1
    <3>2. /\ IsFiniteSet(Settled(s, d)) /\ IsFiniteSet(Loose(s, d))
          /\ Cardinality(Settled(s, d) \cap Loose(s, d)) \in Nat
      <4>1. Settled(s, d) \cap Loose(s, d) \in SUBSET Threads
        BY CountedSets
      <4>2. QED
        BY <4>1, CountedSets, ThreadSubset
    <3>3. /\ IsFiniteSet(Settled(s, d) \cup Loose(s, d))
          /\ Cardinality(Settled(s, d) \cup Loose(s, d))
                = Cardinality(Settled(s, d)) + Cardinality(Loose(s, d))
                    - Cardinality(Settled(s, d) \cap Loose(s, d))
      BY <3>2, FS_Union
    <3>4. /\ Cardinality(BoundFor(s, d))
                <= Cardinality(Settled(s, d) \cup Loose(s, d))
          /\ Cardinality(BoundFor(s, d)) \in Nat
      BY <3>1, <3>3, FS_Subset, FS_CardinalityType
    <3>5. CounterBound(s, d)
      BY DEF IInv, UnsettledBound
    <3>6. Allowance(s) \in Int
      BY <2>0, Quantities DEF Allowance
    <3>7. QED
      BY <2>0, <3>2, <3>3, <3>4, <3>5, <3>6, Quantities
         DEF CounterBound, Charge
  <2>3. c \in [Stores -> Int] /\ a \in [Stores -> Int]
    BY <2>2
  <2>4. \A s \in Stores : c[s] <= a[s]
    BY <2>2
  <2>5. Cardinality(Pile(c)) <= Cardinality(Pile(a))
    BY <2>3, <2>4, PileMono
  <2>6. Accounted(d) = Pile(c)
    BY DEF Accounted, Pile
  <2>7. Slots = Pile(a)
    BY DEF Slots, Pile
  <2>8. QED
    BY <2>1, <2>5, <2>6, <2>7
<1>2. QED
  BY <1>1, Inductive, PTL

=============================================================================
