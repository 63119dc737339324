------------------------- MODULE OrchestratorProofs --------------------------
(***************************************************************************)
(* That nothing stays behind when a program ends, for any number of        *)
(* programs and pods.  What is left at the end says nothing of how the     *)
(* program gets there, so the invariant says for each phase who answers    *)
(* for what runs: procs for the children, the state file (or, before it is *)
(* written, the script itself) for the pod, the phases up to docker        *)
(* compose down for the containers.                                        *)
(***************************************************************************)
EXTENDS Orchestrator, TLAPS

WithChildren == {"start", "spawned", "loop", "stop"}
PodOnFile    == {"setup pod", "watch", "teardown", "last teardown"}

(* The types, by what a step changes together.                             *)
ControlOK ==
    /\ prog \in {"none", "dev", "prod", "up", "down"}
    /\ phase \in Provisioning \cup {"none", "setup", "compose up", "start", "spawned",
                    "loop", "watch", "stop", "compose down", "teardown", "last teardown"}
    /\ runs \in 0 .. MaxRuns
FlagsOK == runpod \in BOOLEAN /\ containers \in BOOLEAN /\ torn \in BOOLEAN
ChildrenOK ==
    /\ plan \in Seq(Children) /\ procs \in Seq(Children)
    /\ phase = "spawned" => plan # <<>>
    /\ leaders \subseteq Children /\ left \subseteq Children /\ slipped \subseteq Children
PodsOK ==
    /\ created \in 0 .. MaxPods /\ own \in 0 .. created /\ file \in 0 .. created
    /\ alive \subseteq 1 .. created /\ struck \subseteq 1 .. created

(* Which program can be where.                                             *)
PhaseOfProgram ==
    /\ prog = "none" <=> phase = "none"
    /\ phase = "setup" => prog \in {"dev", "prod", "up"}
    /\ phase \in {"compose up", "compose down"} => prog = "prod"
    /\ phase \in Provisioning => prog \in {"dev", "up"}
    /\ phase \in WithChildren => prog \in {"dev", "prod"}
    /\ phase = "teardown" => prog # "prod"
WithPod ==
    (prog = "prod" => ~ runpod) /\ (prog = "up" \/ phase \in Provisioning => runpod)
OnRecord == phase = "setup pod" => file = own
Placed  == PhaseOfProgram /\ WithPod /\ OnRecord

(* A child that runs is in procs, or about to be, or a Ctrl-C lost it.     *)
InHand == Range(procs) \cup (IF phase = "spawned" THEN {Head(plan)} ELSE {})

ChildrenKnown ==
    /\ leaders \subseteq slipped \cup InHand
    /\ phase \notin WithChildren => procs = <<>>
    /\ left \subseteq slipped

(* Containers that nothing has gone wrong with are those of a program that *)
(* will still take them down.                                              *)
ContainersKnown ==
    containers /\ ~ torn =>
        prog = "prod" /\ phase \in WithChildren \cup {"compose down"}

(* The pod that somebody will still see to.                                *)
Answered ==
    IF phase = "save" THEN {own}
    ELSE IF phase \in PodOnFile \/ (phase \in WithChildren /\ runpod) THEN {file}
    ELSE {}

PodsKnown == alive \subseteq struck \cup Answered

Types == ControlOK /\ FlagsOK /\ ChildrenOK /\ PodsOK
IInv  == Types /\ Placed /\ ChildrenKnown /\ ContainersKnown /\ PodsKnown

-----------------------------------------------------------------------------

(* What procs gains and loses when a child is appended or popped.          *)
LEMMA RangeFacts ==
    ASSUME NEW s \in Seq(Children)
    PROVE  /\ \A c \in Children : Range(s) \cup {c} \subseteq Range(Append(s, c))
           /\ s # <<>> => Range(s) \subseteq {Head(s)} \cup Range(Tail(s))
           /\ s = <<>> => Range(s) = {}
  <1>1. \A c \in Children : Range(s) \cup {c} \subseteq Range(Append(s, c))
    <2> TAKE c \in Children
    <2>1. \A i \in DOMAIN s : i \in DOMAIN Append(s, c) /\ Append(s, c)[i] = s[i]
      OBVIOUS
    <2>2. Len(s) + 1 \in DOMAIN Append(s, c) /\ Append(s, c)[Len(s) + 1] = c
      OBVIOUS
    <2> QED BY <2>1, <2>2 DEF Range
  <1>2. s # <<>> => Range(s) \subseteq {Head(s)} \cup Range(Tail(s))
    <2>1. SUFFICES ASSUME s # <<>>, NEW i \in DOMAIN s, s[i] # Head(s)
                   PROVE  s[i] \in Range(Tail(s))
      BY DEF Range
    <2>2. i \in 2 .. Len(s)
      BY <2>1
    <2>3. i - 1 \in DOMAIN Tail(s) /\ Tail(s)[i - 1] = s[i]
      BY <2>1, <2>2
    <2> QED BY <2>3 DEF Range
  <1>3. s = <<>> => Range(s) = {}
    BY DEF Range
  <1> QED BY <1>1, <1>2, <1>3

(* The parts make up the type invariant.                                   *)
LEMMA TypeParts == ControlOK /\ FlagsOK /\ ChildrenOK /\ PodsOK => OrchTypeOK
  BY DEF OrchTypeOK, ControlOK, FlagsOK, ChildrenOK, PodsOK

(* Every step leaves program and phase among the ones there are.           *)
LEMMA ControlStep == ASSUME ControlOK, OrchNext PROVE ControlOK'
  <1>a. ASSUME runs < MaxRuns PROVE runs + 1 \in 0 .. MaxRuns
    <2>1. runs \in 0 .. MaxRuns
      BY DEF ControlOK
    <2> QED BY <2>1, <1>a, OrchestratorAssumption
  <1> USE OrchestratorAssumption DEF ControlOK, GoTo, Exit, Provisioning
  <1>0. CASE Launch
    <2>1. runs' \in 0 .. MaxRuns
      <3>1. runs < MaxRuns /\ runs' = runs + 1
        BY <1>0 DEF Launch
      <3> QED BY <3>1, <1>a
    <2>2. prog' \in {"dev", "prod", "up", "down"} /\ phase' \in {"setup", "teardown"}
      BY <1>0 DEF Launch
    <2> QED BY <2>1, <2>2
  <1>1. CASE SetUp \/ LeaveSetUp
    BY <1>1 DEF SetUp, LeaveSetUp
  <1>2. CASE CreatePod \/ CreateFails \/ SavePod \/ PodReady \/ PodSetupDies
    BY <1>2 DEF CreatePod, CreateFails, SavePod, PodReady, PodSetupDies
  <1>3. CASE PodSetupRaises \/ CtrlCProvisioning \/ CtrlCTearDown \/ StopWatching
    BY <1>3 DEF PodSetupRaises, CtrlCProvisioning, CtrlCTearDown, StopWatching
  <1>4. CASE ComposeUp \/ ComposeUpFails \/ Spawn \/ Enlist \/ SpawnFails \/ AllStarted
    BY <1>4 DEF ComposeUp, ComposeUpFails, Spawn, Enlist, SpawnFails, AllStarted
  <1>5. CASE ChildDies \/ CtrlC \/ CtrlCInFinally \/ BackendProvisions
    BY <1>5 DEF ChildDies, CtrlC, CtrlCInFinally, BackendProvisions
  <1>6. CASE Ending
    BY <1>6 DEF Ending, Poll, Terminate, AllStopped, ComposeDown, TearDown
  <1> QED BY <1>0, <1>1, <1>2, <1>3, <1>4, <1>5, <1>6 DEF OrchNext

(* Nobody is started: children are kept, let go of or stopped.             *)
ChildrenAside ==
    /\ phase' = "spawned" => phase = "spawned" /\ plan' = plan
    /\ plan' \in {plan, <<>>} /\ procs' \in {procs, <<>>} /\ leaders' \in {leaders, {}}
    /\ left' \in {left, left \cup leaders} /\ slipped' \in {slipped, slipped \cup leaders}

(* Lists and sets of children stay so; Enlist relies on a plan that is     *)
(* not empty.                                                              *)
LEMMA ChildrenStep == ASSUME ChildrenOK, OrchNext PROVE ChildrenOK'
  <1>0. ASSUME ChildrenAside PROVE ChildrenOK'
    <2>0. <<>> \in Seq(Children)
      OBVIOUS
    <2>1. plan' \in Seq(Children) /\ procs' \in Seq(Children)
      BY <1>0, <2>0, Zenon DEF ChildrenOK, ChildrenAside
    <2>2. phase' = "spawned" => plan' # <<>>
      BY <1>0 DEF ChildrenOK, ChildrenAside
    <2>3. leaders' \subseteq Children /\ left' \subseteq Children
         /\ slipped' \subseteq Children
      BY <1>0 DEF ChildrenOK, ChildrenAside
    <2> QED BY <2>1, <2>2, <2>3 DEF ChildrenOK
  <1> USE DEF GoTo, Exit, childVars
  <1>1. CASE Launch
    <2>1. plan' \in DevPlans \cup ProdPlans \cup {<<>>} /\ phase' # "spawned"
      BY <1>1 DEF Launch
    <2>2. UNCHANGED <<procs, leaders, left, slipped>>
      BY <1>1 DEF Launch
    <2>3. DevPlans \subseteq Seq(Children) /\ ProdPlans \subseteq Seq(Children)
      BY DEF DevPlans, ProdPlans, Children
    <2>4. <<>> \in Seq(Children)
      OBVIOUS
    <2>5. plan' \in Seq(Children) /\ procs' \in Seq(Children)
      BY <2>1, <2>2, <2>3, <2>4, Zenon DEF ChildrenOK
    <2> QED BY <2>1, <2>2, <2>5 DEF ChildrenOK
  <1>2. CASE SetUp \/ LeaveSetUp \/ CreatePod \/ CreateFails \/ SavePod \/ PodReady
       \/ PodSetupDies
    <2>1. ChildrenAside
      BY <1>2 DEF SetUp, LeaveSetUp, CreatePod, CreateFails, SavePod, PodReady,
           PodSetupDies, ChildrenAside
    <2> QED BY <2>1, <1>0
  <1>3. CASE PodSetupRaises \/ CtrlCProvisioning \/ CtrlCTearDown \/ StopWatching
    <2>1. ChildrenAside
      BY <1>3 DEF PodSetupRaises, CtrlCProvisioning, CtrlCTearDown, StopWatching,
           ChildrenAside
    <2> QED BY <2>1, <1>0
  <1>4. CASE ComposeUp \/ ComposeUpFails \/ SpawnFails \/ AllStarted
    <2>1. ChildrenAside
      BY <1>4 DEF ComposeUp, ComposeUpFails, SpawnFails, AllStarted, ChildrenAside
    <2> QED BY <2>1, <1>0
  <1>5. CASE CtrlCInFinally \/ BackendProvisions
    <2>1. ChildrenAside
      BY <1>5 DEF CtrlCInFinally, BackendProvisions, ChildrenAside
    <2> QED BY <2>1, <1>0
  <1>6. CASE Poll \/ AllStopped \/ ComposeDown \/ TearDown
    <2>1. ChildrenAside
      BY <1>6 DEF Poll, AllStopped, ComposeDown, TearDown, ChildrenAside
    <2> QED BY <2>1, <1>0
  <1>7. CASE Spawn
    BY <1>7 DEF Spawn, ChildrenOK
  <1>8. CASE Enlist
    <2>1. Head(plan) \in Children /\ Tail(plan) \in Seq(Children)
      BY <1>8 DEF Enlist, ChildrenOK
    <2>2. plan' \in Seq(Children) /\ procs' \in Seq(Children) /\ phase' = "start"
      BY <1>8, <2>1 DEF Enlist, ChildrenOK
    <2> QED BY <1>8, <2>2 DEF Enlist, ChildrenOK
  <1>9. CASE CtrlC
    <2>1. phase = "spawned" => Head(plan) \in Children
      BY DEF ChildrenOK
    <2>2. slipped' \subseteq Children
      BY <1>9, <2>1 DEF CtrlC, ChildrenOK
    <2> QED BY <1>9, <2>2 DEF CtrlC, ChildrenOK
  <1>10. CASE ChildDies
    BY <1>10 DEF ChildDies, ChildrenOK
  <1>11. CASE Terminate
    BY <1>11 DEF Terminate, ChildrenOK
  <1> QED BY <1>1, <1>2, <1>3, <1>4, <1>5, <1>6, <1>7, <1>8, <1>9, <1>10, <1>11
       DEF OrchNext, Ending

(* No pod is created: those there are are kept, deleted or struck.         *)
NoNewPod ==
    /\ created' = created /\ own' \in {own, 0} /\ file' \in {file, own, 0}
    /\ alive' \in {alive, alive \ {file}}
    /\ struck' \in {struck, struck \cup ({own} \ {0}), struck \cup ({file} \ {0}),
                   struck \cup ({own, file} \ {0})}

(* Pods are numbered up to created, which never exceeds its bound.         *)
LEMMA PodsStep == ASSUME PodsOK, OrchNext PROVE PodsOK'
  <1>0. ASSUME NoNewPod PROVE PodsOK'
    BY <1>0, OrchestratorAssumption DEF PodsOK, NoNewPod
  <1> USE DEF podVars, GoTo, Exit, Strike
  <1>1. CASE Launch \/ SetUp \/ LeaveSetUp \/ SavePod \/ PodReady \/ PodSetupDies
    <2>1. NoNewPod
      BY <1>1 DEF Launch, SetUp, LeaveSetUp, SavePod, PodReady, PodSetupDies, NoNewPod
    <2> QED BY <2>1, <1>0
  <1>3. CASE PodSetupRaises \/ CtrlCProvisioning \/ CtrlCTearDown \/ StopWatching
    <2>1. NoNewPod
      BY <1>3 DEF PodSetupRaises, CtrlCProvisioning, CtrlCTearDown, StopWatching, NoNewPod
    <2> QED BY <2>1, <1>0
  <1>4. CASE ComposeUp \/ ComposeUpFails \/ Spawn \/ Enlist \/ SpawnFails \/ AllStarted
    <2>1. NoNewPod
      BY <1>4 DEF ComposeUp, ComposeUpFails, Spawn, Enlist, SpawnFails, AllStarted, NoNewPod
    <2> QED BY <2>1, <1>0
  <1>5. CASE ChildDies \/ CtrlC \/ CtrlCInFinally
    <2>1. NoNewPod
      BY <1>5 DEF ChildDies, CtrlC, CtrlCInFinally, NoNewPod
    <2> QED BY <2>1, <1>0
  <1>6. CASE Ending
    <2>1. NoNewPod
      BY <1>6 DEF Ending, Poll, Terminate, AllStopped, ComposeDown, TearDown, NoNewPod
    <2> QED BY <2>1, <1>0
  <1>7. ASSUME created < MaxPods
        PROVE  /\ NewPod \in 0 .. MaxPods /\ NewPod \in 1 .. NewPod
               /\ 0 .. created \subseteq 0 .. NewPod /\ 1 .. created \subseteq 1 .. NewPod
    BY <1>7, OrchestratorAssumption DEF NewPod, PodsOK
  <1>8. ASSUME created < MaxPods, created' = NewPod, own' \in {own, NewPod, 0}, 
               file' \in {file, NewPod, 0},
               alive' \in {alive, alive \cup {NewPod}},
               struck' \subseteq struck \cup ({file, NewPod} \ {0})
        PROVE  PodsOK'
    <2>1. PICK n \in Nat : n = NewPod
      BY <1>7, <1>8
    <2>2. own' \in 0 .. n /\ file' \in 0 .. n /\ created' \in 0 .. MaxPods
      BY <1>7, <1>8, <2>1 DEF PodsOK
    <2>3. alive' \subseteq 1 .. n 
      BY <1>7, <1>8, <2>1 DEF PodsOK
    <2>4. {file, NewPod} \ {0} \subseteq 1 .. n 
      BY <1>7, <1>8, <2>1 DEF PodsOK
    <2>5. struck' \subseteq 1 .. n 
      BY <1>7, <1>8, <2>1, <2>4 DEF PodsOK
    <2> QED BY <1>8, <2>1, <2>2, <2>3, <2>5 DEF PodsOK
  <1>9. CASE CreatePod
    BY <1>9, <1>8 DEF CreatePod
  <1>10. CASE CreateFails
    <2>1. CASE UNCHANGED <<created, alive, struck>>
      <3>1. NoNewPod
        BY <1>10, <2>1 DEF CreateFails, NoNewPod
      <3> QED BY <3>1, <1>0
    <2>2. CASE created < MaxPods /\ created' = NewPod /\ alive' = alive \cup {NewPod}
         /\ Strike({NewPod})
      <3>1. own' \in {own, 0} /\ file' = file
        BY <1>10 DEF CreateFails
      <3>2. own' \in 0 .. NewPod /\ file' \in {file, NewPod, 0}
        BY <3>1, <2>2, <1>7 DEF PodsOK
      <3>3. struck' \subseteq struck \cup ({file, NewPod} \ {0})
           /\ alive' = alive \cup {NewPod}
        BY <2>2
      <3> HIDE DEF Strike
      <3> QED BY <3>1, <3>2, <3>3, <2>2, <1>8
    <2> QED BY <1>10, <2>1, <2>2 DEF CreateFails
  <1>11. CASE BackendProvisions
    <2>1. PICK kept \in {NewPod, file, 0}, survives \in BOOLEAN :
            file' = kept /\ alive' = (IF survives THEN alive \cup {NewPod} ELSE alive)
                 /\ Strike({file, NewPod} \ {kept})
      BY <1>11 DEF BackendProvisions
    <2>2. alive' \in {alive, alive \cup {NewPod}}
      BY <2>1
    <2>3. struck' \subseteq struck \cup ({file, NewPod} \ {0})
      BY <2>1
    <2> QED BY <1>11, <2>1, <2>2, <2>3, <1>8 DEF BackendProvisions
  <1> QED BY <1>1, <1>3, <1>4, <1>5, <1>6, <1>9, <1>10, <1>11 DEF OrchNext

(* The switches stay Boolean.                                              *)
LEMMA FlagsStep == ASSUME FlagsOK, OrchNext PROVE FlagsOK'
  <1> USE DEF FlagsOK, GoTo, Exit
  <1>1. CASE Launch \/ SetUp \/ LeaveSetUp
    BY <1>1 DEF Launch, SetUp, LeaveSetUp
  <1>2. CASE CreatePod \/ CreateFails \/ SavePod \/ PodReady \/ PodSetupDies
    BY <1>2 DEF CreatePod, CreateFails, SavePod, PodReady, PodSetupDies
  <1>3. CASE PodSetupRaises \/ CtrlCProvisioning \/ CtrlCTearDown \/ StopWatching
    BY <1>3 DEF PodSetupRaises, CtrlCProvisioning, CtrlCTearDown, StopWatching
  <1>4. CASE ComposeUp \/ ComposeUpFails \/ Spawn \/ Enlist \/ SpawnFails \/ AllStarted
    BY <1>4 DEF ComposeUp, ComposeUpFails, Spawn, Enlist, SpawnFails, AllStarted
  <1>5. CASE ChildDies \/ CtrlC \/ CtrlCInFinally \/ BackendProvisions
    BY <1>5 DEF ChildDies, CtrlC, CtrlCInFinally, BackendProvisions
  <1>6. CASE Ending
    BY <1>6 DEF Ending, Poll, Terminate, AllStopped, ComposeDown, TearDown
  <1> QED BY <1>1, <1>2, <1>3, <1>4, <1>5, <1>6 DEF OrchNext

(* A program only reaches its own phases.                                  *)
LEMMA PhaseOfProgramStep == ASSUME IInv, OrchNext PROVE PhaseOfProgram'
  <1> USE DEF IInv, Placed, PhaseOfProgram, WithChildren, GoTo, Exit, Provisioning
  <1>1. CASE Launch
    BY <1>1 DEF Launch
  <1>2. CASE SetUp \/ LeaveSetUp
    <2>1. CASE SetUp /\ prog = "prod"
      BY <2>1 DEF SetUp
    <2>2. CASE SetUp /\ prog # "prod"
      <3>1. phase' = "create" \/ (phase' = "start" /\ ~ runpod)
        BY <2>2 DEF SetUp
      <3>2. prog' = prog /\ prog \in {"dev", "up"}
        BY <2>2 DEF SetUp
      <3>3. phase' = "start" => prog # "up"
        BY <3>1 DEF WithPod
      <3> QED BY <3>1, <3>2, <3>3
    <2>3. CASE LeaveSetUp
      BY <2>3 DEF LeaveSetUp
    <2> QED BY <1>2, <2>1, <2>2, <2>3
  <1>3. CASE CreatePod \/ CreateFails \/ SavePod \/ PodReady \/ PodSetupDies
    BY <1>3 DEF CreatePod, CreateFails, SavePod, PodReady, PodSetupDies
  <1>4. CASE PodSetupRaises \/ CtrlCProvisioning \/ CtrlCTearDown \/ StopWatching
    BY <1>4 DEF PodSetupRaises, CtrlCProvisioning, CtrlCTearDown, StopWatching
  <1>5. CASE ComposeUp \/ ComposeUpFails \/ Spawn \/ Enlist \/ SpawnFails \/ AllStarted
    BY <1>5 DEF ComposeUp, ComposeUpFails, Spawn, Enlist, SpawnFails, AllStarted
  <1>6. CASE ChildDies \/ CtrlC \/ CtrlCInFinally \/ BackendProvisions
    BY <1>6 DEF ChildDies, CtrlC, CtrlCInFinally, BackendProvisions
  <1>7. CASE Ending
    BY <1>7 DEF Ending, Poll, Terminate, AllStopped, ComposeDown, TearDown
  <1> QED BY <1>1, <1>2, <1>3, <1>4, <1>5, <1>6, <1>7 DEF OrchNext

(* A step keeps the program and its choice of a pod, or ends it.           *)
SameProgram ==
    runpod' = runpod /\ prog' = prog /\ (phase' \in Provisioning => phase \in Provisioning)

(* app.py in production has no pod, runpod_up.py always has one.           *)
LEMMA WithPodStep == ASSUME IInv, OrchNext PROVE WithPod'
  <1>a. ASSUME SameProgram PROVE WithPod'
    BY <1>a, Zenon DEF SameProgram, IInv, Placed, WithPod
  <1>b. ASSUME Exit PROVE WithPod'
    BY <1>b DEF Exit, WithPod, Provisioning
  <1> USE DEF SameProgram, GoTo, Provisioning
  <1>1. CASE Launch
    BY <1>1 DEF Launch, WithPod
  <1>2. CASE SetUp
    <2>1. runpod' = runpod /\ prog' = prog
      BY <1>2 DEF SetUp
    <2>2. phase' \in Provisioning => prog # "prod" /\ runpod
      BY <1>2 DEF SetUp
    <2> QED BY <2>1, <2>2, Zenon DEF IInv, Placed, WithPod
  <1>3. SameProgram \/ Exit \/ Launch \/ SetUp
    <2>1. CASE LeaveSetUp \/ CreatePod \/ CreateFails \/ SavePod \/ PodReady \/ PodSetupDies
      BY <2>1 DEF LeaveSetUp, CreatePod, CreateFails, SavePod, PodReady, PodSetupDies
    <2>2. CASE PodSetupRaises \/ CtrlCProvisioning \/ CtrlCTearDown \/ StopWatching
      BY <2>2 DEF PodSetupRaises, CtrlCProvisioning, CtrlCTearDown, StopWatching
    <2>3. CASE ComposeUp \/ ComposeUpFails \/ Spawn \/ Enlist \/ SpawnFails \/ AllStarted
      BY <2>3 DEF ComposeUp, ComposeUpFails, Spawn, Enlist, SpawnFails, AllStarted
    <2>4. CASE ChildDies \/ CtrlC \/ CtrlCInFinally \/ BackendProvisions
      BY <2>4 DEF ChildDies, CtrlC, CtrlCInFinally, BackendProvisions
    <2>5. CASE Ending
      BY <2>5 DEF Ending, Poll, Terminate, AllStopped, ComposeDown, TearDown
    <2> QED BY <2>1, <2>2, <2>3, <2>4, <2>5 DEF OrchNext
  <1> QED BY <1>1, <1>2, <1>3, <1>a, <1>b

(* What the script sets up is the pod on file.                             *)
LEMMA OnRecordStep == ASSUME IInv, OrchNext PROVE OnRecord'
  <1> USE DEF IInv, Placed, PhaseOfProgram, WithChildren, OnRecord, GoTo, Exit, Provisioning
  <1>1. CASE Launch
    BY <1>1 DEF Launch, podVars
  <1>2. CASE SetUp \/ LeaveSetUp
    BY <1>2 DEF SetUp, LeaveSetUp, podVars
  <1>3. CASE CreatePod \/ CreateFails \/ SavePod \/ PodReady \/ PodSetupDies
    BY <1>3 DEF CreatePod, CreateFails, SavePod, PodReady, PodSetupDies, podVars
  <1>4. CASE PodSetupRaises \/ CtrlCProvisioning \/ CtrlCTearDown \/ StopWatching
    BY <1>4 DEF PodSetupRaises, CtrlCProvisioning, CtrlCTearDown, StopWatching, podVars
  <1>5. CASE ComposeUp \/ ComposeUpFails \/ Spawn \/ Enlist \/ SpawnFails \/ AllStarted
    BY <1>5 DEF ComposeUp, ComposeUpFails, Spawn, Enlist, SpawnFails, AllStarted, podVars
  <1>6. CASE ChildDies \/ CtrlC \/ CtrlCInFinally \/ BackendProvisions
    BY <1>6 DEF ChildDies, CtrlC, CtrlCInFinally, BackendProvisions, podVars
  <1>7. CASE Ending
    BY <1>7 DEF Ending, Poll, Terminate, AllStopped, ComposeDown, TearDown, podVars
  <1> QED BY <1>1, <1>2, <1>3, <1>4, <1>5, <1>6, <1>7 DEF OrchNext

(* Containers come up in production and go with it, or docker failed.      *)
LEMMA ContainersStep == ASSUME IInv, OrchNext PROVE ContainersKnown'
  <1> USE DEF IInv, Types, FlagsOK, Placed, PhaseOfProgram, ContainersKnown, GoTo, Exit,
       Provisioning, WithChildren
  <1>1. CASE Launch
    BY <1>1 DEF Launch
  <1>2. CASE SetUp \/ LeaveSetUp
    BY <1>2 DEF SetUp, LeaveSetUp
  <1>3. CASE CreatePod \/ CreateFails \/ SavePod \/ PodReady \/ PodSetupDies
    BY <1>3 DEF CreatePod, CreateFails, SavePod, PodReady, PodSetupDies
  <1>4. CASE PodSetupRaises \/ CtrlCProvisioning \/ CtrlCTearDown \/ StopWatching
    BY <1>4 DEF PodSetupRaises, CtrlCProvisioning, CtrlCTearDown, StopWatching
  <1>5. CASE ComposeUp \/ ComposeUpFails \/ Spawn \/ Enlist \/ SpawnFails \/ AllStarted
    BY <1>5 DEF ComposeUp, ComposeUpFails, Spawn, Enlist, SpawnFails, AllStarted
  <1>6. CASE ChildDies \/ CtrlC \/ CtrlCInFinally \/ BackendProvisions
    BY <1>6 DEF ChildDies, CtrlC, CtrlCInFinally, BackendProvisions
  <1>7. CASE Ending
    BY <1>7 DEF Ending, Poll, Terminate, AllStopped, ComposeDown, TearDown
  <1> QED BY <1>1, <1>2, <1>3, <1>4, <1>5, <1>6, <1>7 DEF OrchNext

(* Pods are numbered from 1: no pod is the pod 0 that stands for none.     *)
LEMMA PodFacts == ASSUME PodsOK PROVE created \in Nat /\ NewPod # 0 /\ 0 \notin alive
  <1>1. created \in Nat /\ alive \subseteq 1 .. created
    BY OrchestratorAssumption DEF PodsOK
  <1> QED BY <1>1 DEF NewPod

(* A pod passes from the script to the file to whoever tears it down.      *)
LEMMA PodsKnownStep == ASSUME IInv, OrchNext PROVE PodsKnown'
  <1>0. NewPod # 0 /\ 0 \notin alive
    BY PodFacts DEF IInv, Types
  <1> USE DEF IInv, Types, Placed, PhaseOfProgram, WithPod, OnRecord, PodsKnown, Answered,
       PodOnFile, GoTo, Exit, Provisioning,
              WithChildren, Strike
  <1>1. CASE Launch
    BY <1>1 DEF Launch, podVars
  <1>2. CASE SetUp \/ LeaveSetUp
    BY <1>2 DEF SetUp, LeaveSetUp, podVars
  <1>3. CASE CreatePod \/ CreateFails
    <2>2. alive \subseteq struck
      BY <1>3 DEF CreatePod, CreateFails
    <2>3. CASE CreatePod
      BY <2>2, <2>3 DEF CreatePod
    <2>4. CASE CreateFails
      <3>1. alive' \subseteq struck'
        BY <1>0, <2>2, <2>4 DEF CreateFails
      <3> QED BY <3>1
    <2> QED BY <1>3, <2>3, <2>4
  <1>4. CASE SavePod \/ PodReady \/ PodSetupDies
    BY <1>4 DEF SavePod, PodReady, PodSetupDies, podVars
  <1>5. CASE PodSetupRaises \/ CtrlCProvisioning
    BY <1>5, <1>0 DEF PodSetupRaises, CtrlCProvisioning
  <1>6. CASE CtrlCTearDown \/ StopWatching
    BY <1>6, <1>0 DEF CtrlCTearDown, StopWatching, podVars
  <1>7. CASE ComposeUp \/ ComposeUpFails \/ Spawn \/ Enlist \/ SpawnFails \/ AllStarted
    BY <1>7 DEF ComposeUp, ComposeUpFails, Spawn, Enlist, SpawnFails, AllStarted, podVars
  <1>8. CASE ChildDies \/ CtrlC
    BY <1>8 DEF ChildDies, CtrlC, podVars
  <1>9. CASE CtrlCInFinally
    BY <1>9, <1>0 DEF CtrlCInFinally
  <1>10. CASE BackendProvisions
    <2>1. alive \subseteq struck \cup {file} /\ phase' = phase /\ runpod' = runpod
      BY <1>10 DEF BackendProvisions
    <2>3. alive' \subseteq alive \cup {NewPod} /\ 0 \notin alive'
      BY <1>10, <1>0 DEF BackendProvisions
    <2>4. struck \cup ({file, NewPod} \ {file', 0}) \subseteq struck'
      BY <1>10 DEF BackendProvisions
    <2>5. alive' \subseteq struck' \cup {file'}
      BY <2>1, <2>3, <2>4
    <2>6. Answered' = {file'}
      <3>1. phase' \in WithChildren
        BY <1>10 DEF BackendProvisions
      <3>2. runpod'
        BY <1>10, Zenon DEF BackendProvisions
      <3> QED BY <3>1, <3>2
    <2> QED BY <2>5, <2>6
  <1>11. CASE Poll \/ Terminate \/ ComposeDown
    BY <1>11 DEF Poll, Terminate, ComposeDown, podVars
  <1>12. CASE AllStopped
    BY <1>12 DEF AllStopped
  <1>13. CASE TearDown
    BY <1>13, <1>0 DEF TearDown
  <1> QED BY <1>1, <1>2, <1>3, <1>4, <1>5, <1>6, <1>7, <1>8, <1>9, <1>10, <1>11, <1>12,
       <1>13
      DEF OrchNext, Ending

(* A child passes from the plan to procs and is stopped from there.        *)
LEMMA ChildrenKnownStep == ASSUME IInv, OrchNext PROVE ChildrenKnown'
  <1> USE DEF IInv, Types, Placed, PhaseOfProgram, ChildrenKnown, InHand, GoTo, Exit,
       Provisioning, WithChildren
  <1>0. procs = <<>> => Range(procs) = {}
    BY RangeFacts DEF ChildrenOK
  <1>1. CASE Launch
    BY <1>1 DEF Launch
  <1>2. CASE SetUp \/ LeaveSetUp
    BY <1>2, <1>0 DEF SetUp, LeaveSetUp, childVars
  <1>3. CASE CreatePod \/ CreateFails \/ SavePod \/ PodReady \/ PodSetupDies
    BY <1>3, <1>0 DEF CreatePod, CreateFails, SavePod, PodReady, PodSetupDies, childVars
  <1>4. CASE PodSetupRaises \/ CtrlCProvisioning \/ CtrlCTearDown \/ StopWatching
    BY <1>4, <1>0
         DEF PodSetupRaises, CtrlCProvisioning, CtrlCTearDown, StopWatching, childVars
  <1>5. CASE ComposeUp \/ ComposeUpFails
    BY <1>5, <1>0 DEF ComposeUp, ComposeUpFails, childVars
  <1>6. CASE Spawn
    BY <1>6 DEF Spawn
  <1>7. CASE Enlist
    <2>1. Range(procs) \cup {Head(plan)} \subseteq Range(procs')
      BY <1>7, RangeFacts DEF Enlist, ChildrenOK
    <2> QED BY <1>7, <2>1 DEF Enlist
  <1>8. CASE SpawnFails \/ AllStarted
    BY <1>8 DEF SpawnFails, AllStarted, childVars
  <1>9. CASE ChildDies
    BY <1>9 DEF ChildDies
  <1>10. CASE CtrlC
    BY <1>10 DEF CtrlC
  <1>11. CASE CtrlCInFinally
    BY <1>11 DEF CtrlCInFinally
  <1>12. CASE BackendProvisions
    BY <1>12 DEF BackendProvisions, childVars
  <1>13. CASE Poll
    BY <1>13 DEF Poll, childVars
  <1>14. CASE Terminate
    BY <1>14, RangeFacts DEF Terminate, ChildrenOK
  <1>15. CASE AllStopped
    BY <1>15, <1>0 DEF AllStopped
  <1>16. CASE ComposeDown \/ TearDown
    BY <1>16, <1>0 DEF ComposeDown, TearDown
  <1> QED BY <1>1, <1>2, <1>3, <1>4, <1>5, <1>6, <1>7, <1>8, <1>9, <1>10, <1>11, <1>12,
       <1>13,
             <1>14, <1>15, <1>16
      DEF OrchNext, Ending

(* Nothing runs at first.                                                  *)
LEMMA InitHolds == OrchInit => IInv
  <1> SUFFICES ASSUME OrchInit PROVE IInv
    OBVIOUS
  <1> USE DEF OrchInit
  <1>1. ControlOK /\ FlagsOK
    <2>1. runs \in 0 .. MaxRuns
      BY OrchestratorAssumption
    <2> QED BY <2>1 DEF ControlOK, FlagsOK
  <1>2. ChildrenOK
    BY DEF ChildrenOK
  <1>3. PodsOK
    BY OrchestratorAssumption DEF PodsOK
  <1>4. Placed
    BY DEF Placed, PhaseOfProgram, WithPod, OnRecord, Provisioning, WithChildren
  <1>5. ChildrenKnown /\ ContainersKnown /\ PodsKnown
    BY DEF ChildrenKnown, ContainersKnown, PodsKnown
  <1> QED BY <1>1, <1>2, <1>3, <1>4, <1>5 DEF IInv, Types

(* A stuttering step keeps the invariant.                                  *)
LEMMA Unchanged == ASSUME IInv, UNCHANGED orchVars PROVE IInv'
  BY DEF orchVars, childVars, podVars, IInv, Types, ControlOK, FlagsOK, ChildrenOK, PodsOK,
         Placed, PhaseOfProgram, WithPod, OnRecord, ChildrenKnown, InHand, ContainersKnown,
         PodsKnown, Answered

(* The invariant: every step of every program keeps who answers for what.  *)
THEOREM InvariantHolds == OrchSpec => []IInv
  <1>1. ASSUME IInv, [OrchNext]_orchVars PROVE IInv'
    <2>1. CASE OrchNext
      BY <1>1, <2>1, ControlStep, FlagsStep, ChildrenStep, PodsStep, PhaseOfProgramStep,
         WithPodStep, OnRecordStep,
         ChildrenKnownStep, ContainersStep, PodsKnownStep
         DEF IInv, Types, Placed
    <2>2. CASE UNCHANGED orchVars
      BY <1>1, <2>2, Unchanged
    <2> QED BY <1>1, <2>1, <2>2
  <1> QED BY <1>1, InitHolds, PTL DEF OrchSpec

(* Every variable keeps its type, through every program, failure and       *)
(* Ctrl-C: in particular no pod is counted that was not created.           *)
THEOREM TypesHold == OrchSpec => []OrchTypeOK
  <1>1. IInv => OrchTypeOK
    BY TypeParts DEF IInv, Types
  <1> QED BY <1>1, InvariantHolds, PTL

(* Whatever ends a program of app.py, its finally clauses have stopped its *)
(* children and containers, except those that Ctrl-C or docker kept from   *)
(* them.                                                                   *)
THEOREM NothingLeft == OrchSpec => []NothingLeftRunning
  <1>1. IInv => NothingLeftRunning
    BY DEF IInv, Types, FlagsOK, Placed, PhaseOfProgram, ChildrenKnown, ContainersKnown,
         NothingLeftRunning,
           WithChildren
  <1> QED BY <1>1, InvariantHolds, PTL

(* A pod is billed beyond its program only if it was hit by one of the     *)
(* events that PodsAccountedFor names, however many programs and pods.     *)
THEOREM PodsAnswered == OrchSpec => []PodsAccountedFor
  <1>1. IInv => PodsAccountedFor
    BY DEF IInv, Types, Placed, PhaseOfProgram, PodsKnown, Answered, PodsAccountedFor,
         PodOnFile, WithChildren
  <1> QED BY <1>1, InvariantHolds, PTL

=============================================================================
