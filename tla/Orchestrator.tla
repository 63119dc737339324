---------------------------- MODULE Orchestrator -----------------------------
(***************************************************************************)
(* The programs a developer starts at one terminal, one after another: the *)
(* root app.py (python app.py, or --dev, with or without --runpod), the    *)
(* standalone scripts/runpod_up.py and scripts/runpod_down.py.  They start *)
(* servers, containers and billed pods, and have to stop them again however*)
(* they end: a child that dies, a command that fails, or Ctrl-C, anywhere. *)
(*                                                                         *)
(* Children run in sessions of their own, so Ctrl-C reaches the programs   *)
(* and the commands they wait for, but no child (_popen).  Of a child's    *)
(* tree only the process that Popen returned is modelled.  Pods are        *)
(* numbered as they are created; pod 0 is none.                            *)
(***************************************************************************)
EXTENDS Naturals, Sequences, Functions

CONSTANTS
    MaxRuns,  \* bound: how many programs are started
    MaxPods   \* bound: how many pods are created

ASSUME OrchestratorAssumption == MaxRuns \in Nat /\ MaxPods \in Nat

VARIABLES
    prog,        \* the program in the foreground
    phase,       \* where it is
    runpod,      \* whether it provisions a pod
    plan,        \* the children it has still to start
    procs,       \* procs: the children it knows of
    leaders,     \* its children that run
    containers,  \* whether containers of the compose project run
    created,     \* how many pods there have been
    alive,       \* the pods that are billed
    own,         \* the pod that this program has created
    file,        \* the pod in .runpod_state.json
    runs,        \* programs started
    left,        \* history: children that ran when their program had ended
    slipped,     \* history: children that a Ctrl-C has kept from being stopped
    torn,        \* history: an up or down failed, or was cut short, since the last down
    struck       \* history: pods hit by what nobody cleans up after

childVars == <<plan, procs, leaders, left, slipped>>
podVars   == <<created, alive, own, file, struck>>
orchVars  == <<prog, phase, runpod, runs, containers, torn, childVars, podVars>>

Children  == {"backend", "frontend", "docker"}
DevPlans  == {<<"backend">>, <<"frontend">>, <<"backend", "frontend">>}
ProdPlans == {<<"docker">>, <<"docker", "frontend">>}
Provisioning == {"create", "save", "setup pod"}

OrchTypeOK ==
    /\ prog \in {"none", "dev", "prod", "up", "down"}
    /\ phase \in Provisioning \cup {"none", "setup", "compose up", "start", "spawned",
                    "loop", "watch", "stop", "compose down", "teardown", "last teardown"}
    /\ runpod \in BOOLEAN
    /\ plan \in Seq(Children) /\ procs \in Seq(Children)
    /\ leaders \subseteq Children /\ left \subseteq Children /\ slipped \subseteq Children
    /\ containers \in BOOLEAN /\ torn \in BOOLEAN
    /\ created \in 0 .. MaxPods /\ own \in 0 .. created /\ file \in 0 .. created
    /\ alive \subseteq 1 .. created /\ struck \subseteq 1 .. created
    /\ runs \in 0 .. MaxRuns

OrchInit ==
    /\ prog = "none" /\ phase = "none" /\ runpod = FALSE /\ runs = 0
    /\ plan = <<>> /\ procs = <<>> /\ leaders = {} /\ left = {} /\ slipped = {}
    /\ containers = FALSE /\ torn = FALSE
    /\ created = 0 /\ own = 0 /\ file = 0 /\ alive = {} /\ struck = {}

GoTo(p) == phase' = p /\ UNCHANGED <<prog, runpod, runs>>

(* The program ends; the children that still run are nobody's now.         *)
Exit ==
    /\ prog' = "none" /\ phase' = "none" /\ runpod' = FALSE
    /\ plan' = <<>> /\ procs' = <<>> /\ leaders' = {} /\ left' = left \cup leaders
    /\ own' = 0
    /\ UNCHANGED runs

Strike(pods) == struck' = struck \cup (pods \ {0})

(* ------------------------------ starting ------------------------------- *)
Launch ==
    /\ prog = "none" /\ runs < MaxRuns
    /\ \/ prog' = "dev" /\ plan' \in DevPlans /\ runpod' \in BOOLEAN /\ phase' = "setup"
       \/ prog' = "prod" /\ plan' \in ProdPlans /\ runpod' = FALSE /\ phase' = "setup"
       \/ prog' = "up" /\ plan' = <<>> /\ runpod' = TRUE /\ phase' = "setup"
       \/ prog' = "down" /\ plan' = <<>> /\ runpod' = TRUE /\ phase' = "teardown"
    /\ runs' = runs + 1
    /\ UNCHANGED <<procs, leaders, left, slipped, containers, torn, podVars>>

SetUp ==
    /\ phase = "setup"
    /\ GoTo(CASE prog = "prod" -> "compose up"
              [] prog # "prod" /\ runpod -> "create"
              [] OTHER -> "start")
    /\ UNCHANGED <<containers, torn, childVars, podVars>>

(* No docker, a failing install, --setup-only, Ctrl-C: nothing runs yet.   *)
LeaveSetUp ==
    /\ phase = "setup"
    /\ Exit
    /\ UNCHANGED <<slipped, containers, torn, created, alive, file, struck>>

(* ------------------------ runpod_up.py's own part ---------------------- *)
NewPod == created + 1

CreatePod ==
    /\ phase = "create" /\ created < MaxPods
    /\ created' = NewPod /\ own' = NewPod /\ alive' = alive \cup {NewPod}
    /\ GoTo("save")
    /\ UNCHANGED <<file, struck, containers, torn, childVars>>

(* runpodctl fails, or its answer cannot be read: die() before the try.    *)
(* start_runpod_vlm turns that into SystemExit, and main tears down what is*)
(* on file.                                                                *)
CreateFails ==
    /\ phase = "create"
    /\ \/ UNCHANGED <<created, alive, struck>>
       \/ /\ created < MaxPods
          /\ created' = NewPod /\ alive' = alive \cup {NewPod} /\ Strike({NewPod})
    /\ IF prog = "dev"
       THEN GoTo("teardown") /\ UNCHANGED <<own, plan, procs, leaders, left>>
       ELSE Exit
    /\ UNCHANGED <<file, slipped, containers, torn>>

SavePod ==
    /\ phase = "save"
    /\ file' = own
    /\ GoTo("setup pod")
    /\ UNCHANGED <<created, alive, own, struck, containers, torn, childVars>>

PodReady ==
    /\ phase = "setup pod"
    /\ GoTo(IF prog = "dev" THEN "start" ELSE "watch")
    /\ UNCHANGED <<containers, torn, childVars, podVars>>

(* die() in the try: except SystemExit tears the pod down.                 *)
PodSetupDies ==
    /\ phase = "setup pod"
    /\ GoTo("teardown")
    /\ UNCHANGED <<containers, torn, childVars, podVars>>

PodSetupRaisesUncaught ==
    /\ phase = "setup pod"
    /\ Exit
    /\ IF prog = "up" THEN Strike({own}) ELSE UNCHANGED struck
    /\ UNCHANGED <<slipped, created, alive, file, containers, torn>>

(* Any other exception (an ssh command's TimeoutExpired) gets past it.     *)
(* app.py sees the exit status and tears down; a standalone run does not.  *)
PodSetupRaises ==
    /\ phase = "setup pod"
    /\ IF prog = "dev"
       THEN GoTo("teardown") /\ UNCHANGED <<own, plan, procs, leaders, left, struck>>
       ELSE Exit /\ Strike({own})
    /\ UNCHANGED <<slipped, created, alive, file, containers, torn>>

(* KeyboardInterrupt is no SystemExit for either program.                  *)
CtrlCProvisioning ==
    /\ phase \in Provisioning
    /\ Exit
    /\ Strike({own})
    /\ UNCHANGED <<slipped, created, alive, file, containers, torn>>

(* Idle for too long, an error, or Ctrl-C, which idle_watchdog handles     *)
(* from here on, so that it does not cut the teardown short.               *)
StopWatching ==
    /\ phase = "watch"
    /\ GoTo("last teardown")
    /\ UNCHANGED <<containers, torn, childVars, podVars>>

(* --------------------------- runpod_down.py ---------------------------- *)
(* The state file goes, whether or not the pod did.                        *)
TearDown ==
    /\ phase \in {"teardown", "last teardown"}
    /\ \/ alive' = alive \ {file} /\ UNCHANGED struck
       \/ Strike({file}) /\ UNCHANGED alive
    /\ file' = 0
    /\ Exit
    /\ UNCHANGED <<slipped, created, containers, torn>>

CtrlCTearDown ==
    /\ phase = "teardown"
    /\ alive' \in {alive, alive \ {file}}
    /\ Strike({file, own})
    /\ Exit
    /\ UNCHANGED <<file, slipped, created, containers, torn>>

(* ----------------------------- containers ------------------------------ *)
ComposeUp ==
    /\ phase = "compose up"
    /\ containers' = TRUE
    /\ GoTo("start")
    /\ UNCHANGED <<torn, childVars, podVars>>

(* It fails, or Ctrl-C hits it: this is before the try.                    *)
ComposeUpFails ==
    /\ phase = "compose up"
    /\ containers' \in {containers, TRUE}
    /\ torn' = TRUE
    /\ Exit
    /\ UNCHANGED <<slipped, created, alive, file, struck>>

ComposeDown ==
    /\ phase = "compose down"
    /\ \/ containers' = FALSE /\ torn' = FALSE
       \/ torn' = TRUE /\ UNCHANGED containers
    /\ Exit
    /\ UNCHANGED <<slipped, created, alive, file, struck>>

(* ------------------------------ children ------------------------------- *)
Spawn ==
    /\ phase = "start" /\ plan # <<>>
    /\ leaders' = leaders \cup {Head(plan)}
    /\ GoTo("spawned")
    /\ UNCHANGED <<plan, procs, left, slipped, containers, torn, podVars>>

Enlist ==
    /\ phase = "spawned"
    /\ procs' = Append(procs, Head(plan)) /\ plan' = Tail(plan)
    /\ GoTo("start")
    /\ UNCHANGED <<leaders, left, slipped, containers, torn, podVars>>

SpawnFailsUncaught ==
    /\ phase = "start" /\ plan # <<>>
    /\ Exit
    /\ UNCHANGED <<slipped, created, alive, file, struck, containers, torn>>

(* No such command: the exception goes on after the finally clause.        *)
SpawnFails ==
    /\ phase = "start" /\ plan # <<>>
    /\ GoTo("stop")
    /\ UNCHANGED <<containers, torn, childVars, podVars>>

AllStarted ==
    /\ phase = "start" /\ plan = <<>>
    /\ GoTo("loop")
    /\ UNCHANGED <<containers, torn, childVars, podVars>>

ChildDies ==
    /\ \E c \in leaders : leaders' = leaders \ {c}
    /\ UNCHANGED <<prog, phase, runpod, runs, plan, procs, left, slipped,
                   containers, torn, podVars>>

PollFirst ==
    /\ phase = "loop" /\ Head(procs) \notin leaders
    /\ GoTo("stop")
    /\ UNCHANGED <<containers, torn, childVars, podVars>>

Poll ==
    /\ phase = "loop" /\ \E c \in Range(procs) : c \notin leaders
    /\ GoTo("stop")
    /\ UNCHANGED <<containers, torn, childVars, podVars>>

(* Between Popen and procs.append the new child is in nobody's list.       *)
CtrlC ==
    /\ phase \in {"start", "spawned", "loop"}
    /\ slipped' = IF phase = "spawned" THEN slipped \cup {Head(plan)} ELSE slipped
    /\ GoTo("stop")
    /\ UNCHANGED <<plan, procs, leaders, left, containers, torn, podVars>>

(* The backend was told VLM_PROVIDER=runpod: when VLM_URL stops answering  *)
(* it runs runpod_up.py itself, against the same state file.  Its pod is   *)
(* handed over, lost before it was saved, or torn down again.              *)
BackendProvisions ==
    /\ phase \in {"start", "spawned", "loop"} /\ runpod
    /\ "backend" \in leaders /\ created < MaxPods
    /\ created' = NewPod
    /\ \E kept \in {NewPod, file, 0}, survives \in BOOLEAN :
         /\ kept # 0 => survives
         /\ file' = kept
         /\ alive' = IF survives THEN alive \cup {NewPod} ELSE alive
         /\ Strike({file, NewPod} \ {kept})
    /\ UNCHANGED <<prog, phase, runpod, runs, own, containers, torn, childVars>>

(* SIGTERM to the group, 8 s, then SIGKILL; one that has ended is skipped. *)
Terminate ==
    /\ phase = "stop" /\ procs # <<>>
    /\ leaders' = leaders \ {Head(procs)} /\ procs' = Tail(procs)
    /\ UNCHANGED <<prog, phase, runpod, runs, plan, left, slipped,
                   containers, torn, podVars>>

AllStopped ==
    /\ phase = "stop" /\ procs = <<>>
    /\ CASE prog = "prod" ->
                GoTo("compose down") /\ UNCHANGED <<plan, leaders, left, procs, own>>
         [] prog # "prod" /\ runpod ->
                GoTo("teardown") /\ UNCHANGED <<plan, leaders, left, procs, own>>
         [] OTHER -> Exit
    /\ UNCHANGED <<slipped, created, alive, file, struck, containers, torn>>

(* A second Ctrl-C cuts the finally clause short.                          *)
CtrlCInFinally ==
    /\ phase = "stop"
    /\ slipped' = slipped \cup leaders
    /\ torn' = (torn \/ prog = "prod")
    /\ IF runpod THEN Strike({own, file}) ELSE UNCHANGED struck
    /\ Exit
    /\ UNCHANGED <<created, alive, file, containers>>

Ending == Poll \/ Terminate \/ AllStopped \/ ComposeDown \/ TearDown

OrchNext ==
    \/ Launch \/ SetUp \/ LeaveSetUp
    \/ CreatePod \/ CreateFails \/ SavePod \/ PodReady \/ PodSetupDies \/ PodSetupRaises
    \/ CtrlCProvisioning \/ StopWatching \/ CtrlCTearDown
    \/ ComposeUp \/ ComposeUpFails
    \/ Spawn \/ Enlist \/ SpawnFails \/ AllStarted \/ ChildDies \/ CtrlC
    \/ BackendProvisions \/ CtrlCInFinally
    \/ Ending

OrchSpec == OrchInit /\ [][OrchNext]_orchVars

(* ----------------------------- properties ------------------------------ *)

(* The finally clauses stop what was started: a child outlives its program *)
(* only if Ctrl-C came before it was in procs or while the others were     *)
(* being stopped, and containers do only if docker compose failed or was   *)
(* cut short.                                                              *)
NothingLeftRunning ==
    /\ left \subseteq slipped
    /\ prog = "none" /\ containers => torn

(* A pod is billed beyond the program that created it only if one of these *)
(* hit it: Ctrl-C while provisioning or cleaning up, an unreadable answer, *)
(* a deletion that failed, an exception other than die() in a standalone   *)
(* run, or a second pod that the backend asked for under the first.        *)
PodsAccountedFor == prog = "none" => alive \subseteq struck

(* "If one dies, tear down the rest" (app.py:436): the program ends.       *)
DeadChildEnds ==
    (phase = "loop" /\ \E c \in Range(procs) : c \notin leaders) ~> (prog = "none")

=============================================================================
