--------------------------- MODULE RunpodProvider ---------------------------
(***************************************************************************)
(* The RunPod dev pod: backend/vlm_provider.py (_ensure_runpod, which every*)
(* real ask and every warm-up calls), the script it runs                   *)
(* (scripts/runpod_up.py --no-wait), scripts/runpod_down.py, the state file*)
(* they share, the pods that are billed and the SSH tunnel on the one local*)
(* port.                                                                   *)
(*                                                                         *)
(* A fault is one of: a health check that fails although the service is    *)
(* up, a tunnel that drops, a pod deletion that fails or times out, an SSH *)
(* call whose timeout leaves the script by an exception it does not catch, *)
(* a create that makes a pod and then fails or gives no readable id, a kill*)
(* after runpodctl has been told to create and before save_state, a backend*)
(* restart.  A pod that the provider takes back, a create that makes no    *)
(* pod, a set-up step that fails and the kill after                        *)
(* RUNPOD_PROVISION_TIMEOUT_S anywhere else are ordinary and cost nothing. *)
(*                                                                         *)
(* Left out: the progress inside a set-up step, and a script that outlives *)
(* its backend (a restart takes the script with it).                       *)
(***************************************************************************)
EXTENDS Naturals, FiniteSets

CONSTANTS
    Threads,       \* callers of _ensure_runpod: requests and warm-ups
    Pods,          \* bound: the pods that can be created
    NoPod,         \* not a pod
    Orchestrated,  \* whether `app.py --dev --runpod` started the backend
    MaxFaults      \* bound: faults

ASSUME ProviderAssumption ==
    /\ IsFiniteSet(Threads)
    /\ IsFiniteSet(Pods)
    /\ NoPod \notin Pods
    /\ Orchestrated \in BOOLEAN
    /\ MaxFaults \in Nat

VARIABLES
    starting, ready,  \* vlm_provider._state
    urlSet,    \* whether os.environ["VLM_URL"] is set
    pc,        \* where each caller is in _ensure_runpod
    script,    \* where the runpod_up.py that the caller started is
    hand,      \* the pod that script has made and not yet handed over
    file,      \* the pod in scripts/.runpod_state.json
    pidSaved,  \* whether that file has its tunnel_pid too
    created,   \* history: the pods ever created
    alive,     \* the pods being billed
    port,      \* the pod that the tunnel on localhost:8010 leads to
    faults     \* history: faults so far

vars == <<starting, ready, urlSet, pc, script, hand, file, pidSaved,
          created, alive, port, faults>>

state == <<starting, ready>>
work  == <<script, hand>>
disk  == <<file, pidSaved>>
cloud == <<created, alive, port>>

(* ready: the caller has been told True and is about to call predict().    *)
Place == {"idle", "enter", "wait", "provision", "teardown", "seturl", "ready"}
Step == {"none", "create", "save", "setup", "tunnel", "verify", "record",
         "down", "done", "failed"}

TypeOK ==
    /\ starting \in BOOLEAN /\ ready \in BOOLEAN /\ urlSet \in BOOLEAN
    /\ pc \in [Threads -> Place]
    /\ script \in [Threads -> Step]
    /\ hand \in [Threads -> Pods \cup {NoPod}]
    /\ file \in Pods \cup {NoPod}
    /\ pidSaved \in BOOLEAN
    /\ created \subseteq Pods
    /\ alive \subseteq created
    /\ port \in Pods \cup {NoPod}
    /\ faults \in 0 .. MaxFaults

(* The orchestrator has provisioned a pod before it starts the backend,    *)
(* and passes it VLM_URL; otherwise .env leaves VLM_URL empty.             *)
Init ==
    /\ starting = FALSE /\ ready = FALSE
    /\ urlSet = Orchestrated
    /\ pc = [t \in Threads |-> "idle"]
    /\ script = [t \in Threads |-> "none"]
    /\ hand = [t \in Threads |-> NoPod]
    /\ file \in IF Orchestrated THEN Pods ELSE {NoPod}
    /\ pidSaved = Orchestrated
    /\ created = {file} \ {NoPod}
    /\ alive = created
    /\ port = file
    /\ faults = 0

Goto(t, place) == pc' = [pc EXCEPT ![t] = place]
Script(t, step) == script' = [script EXCEPT ![t] = step]

Fault == faults < MaxFaults /\ faults' = faults + 1

(* The local health check gets an answer when the port leads to a pod that *)
(* is up; is_ready() also says True when there is no URL to check.         *)
Healthy == port \in alive
IsReady == urlSet => Healthy

(* Not marked ready, or the check gets no answer; that it gets none though *)
(* the service is up is a fault.                                           *)
NotAnswering ==
    IF ready /\ IsReady THEN urlSet /\ Fault ELSE UNCHANGED faults

-----------------------------------------------------------------------------
(* ensure_running() or warm(), with VLM_PROVIDER=runpod.                   *)
Call(t) ==
    /\ pc[t] = "idle"
    /\ Goto(t, "enter")
    /\ UNCHANGED <<state, urlSet, work, disk, cloud, faults>>

(* Under the lock: ready and answering.                                    *)
FindReady(t) ==
    /\ pc[t] = "enter"
    /\ ready /\ IsReady
    /\ Goto(t, "ready")
    /\ UNCHANGED <<state, urlSet, work, disk, cloud, faults>>

(* Mutant: the claim does not look at `starting`.                          *)
ClaimAlways(t) ==
    /\ pc[t] = "enter"
    /\ NotAnswering
    /\ starting' = TRUE
    /\ Goto(t, "provision")
    /\ Script(t, "create")
    /\ UNCHANGED <<ready, urlSet, hand, disk, cloud>>

(* Under the lock: not ready, or not answering, and nobody is starting it: *)
(* this caller runs the script.                                            *)
Claim(t) ==
    /\ pc[t] = "enter"
    /\ ~ starting
    /\ NotAnswering
    /\ starting' = TRUE
    /\ Goto(t, "provision")
    /\ Script(t, "create")
    /\ UNCHANGED <<ready, urlSet, hand, disk, cloud>>

(* Under the lock: not ready, but somebody is starting it.                 *)
JoinWait(t) ==
    /\ pc[t] = "enter"
    /\ starting
    /\ NotAnswering
    /\ Goto(t, "wait")
    /\ UNCHANGED <<state, urlSet, work, disk, cloud>>

(* A waiter polls is_ready() until it answers or timeout_s is over.        *)
Poll(t) ==
    /\ pc[t] = "wait"
    /\ IsReady
    /\ Goto(t, "ready")
    /\ UNCHANGED <<state, urlSet, work, disk, cloud, faults>>

GiveUpWaiting(t) ==
    /\ pc[t] = "wait"
    /\ Goto(t, "idle")
    /\ UNCHANGED <<state, urlSet, work, disk, cloud, faults>>

(* The caller goes on to predict().                                        *)
Predict(t) ==
    /\ pc[t] = "ready"
    /\ Goto(t, "idle")
    /\ UNCHANGED <<state, urlSet, work, disk, cloud, faults>>

-----------------------------------------------------------------------------
(* The steps of the script.  `At` says where it is and that it still runs. *)
At(t, step) == pc[t] = "provision" /\ script[t] = step

PodMade(p) ==
    /\ created' = created \cup {p}
    /\ alive' = alive \cup {p}

(* A pod that is billed and that no script and no file can name.           *)
UnnamedPod == \E p \in Pods \ created : PodMade(p)

(* Mutant: create_pod does not look whether it was given an id.            *)
CreateUnchecked(t) ==
    /\ At(t, "create")
    /\ \E p \in (Pods \ created) \cup {NoPod} :
          /\ PodMade(p)
          /\ Script(t, "save")
          /\ hand' = [hand EXCEPT ![t] = p]
    /\ UNCHANGED <<state, urlSet, pc, disk, port, faults>>

(* runpodctl pod create: a new pod; or exit 1 and no pod; or a pod that was*)
(* made although create_pod dies, for runpodctl's exit status, its output  *)
(* or the id that is missing from it.                                      *)
Create(t) ==
    /\ At(t, "create")
    /\ \/ \E p \in Pods \ created :
             /\ PodMade(p)
             /\ Script(t, "save")
             /\ hand' = [hand EXCEPT ![t] = p]
             /\ UNCHANGED faults
       \/ /\ Script(t, "failed")
          /\ UNCHANGED <<hand, created, alive, faults>>
       \/ /\ UnnamedPod
          /\ Fault
          /\ Script(t, "failed")
          /\ UNCHANGED hand
    /\ UNCHANGED <<state, urlSet, pc, disk, port>>

(* save_state: the pod's id, over whatever pod the file named before.      *)
Save(t) ==
    /\ At(t, "save")
    /\ Script(t, "setup")
    /\ file' = hand[t]
    /\ pidSaved' = FALSE
    /\ UNCHANGED <<state, urlSet, pc, hand, cloud, faults>>

(* wait_for_running ... wait_for_health: done, or SystemExit and teardown. *)
SetUp(t) ==
    /\ At(t, "setup")
    /\ IF hand[t] \in alive
       THEN Script(t, "tunnel") \/ Script(t, "down")
       ELSE Script(t, "down")
    /\ UNCHANGED <<state, urlSet, pc, hand, disk, cloud, faults>>

(* ssh_run's own timeout: TimeoutExpired is not SystemExit, so the script  *)
(* ends with no teardown and the pod stays.                                *)
SshTimesOut(t) ==
    /\ At(t, "setup")
    /\ Fault
    /\ Script(t, "failed")
    /\ hand' = [hand EXCEPT ![t] = NoPod]
    /\ UNCHANGED <<state, urlSet, pc, disk, cloud>>

(* open_tunnel starts ssh -N: the port leads to the new pod if it was free.*)
(* If an older tunnel still holds it, this ssh stays up without the forward*)
(* and the health check will speak to the older tunnel's pod.              *)
OpenTunnel(t) ==
    /\ At(t, "tunnel")
    /\ port' = IF port = NoPod THEN hand[t] ELSE port
    /\ Script(t, "verify")
    /\ UNCHANGED <<state, urlSet, pc, hand, disk, created, alive, faults>>

FreePort(p) == IF port = p THEN NoPod ELSE port

(* The local health check succeeds, or the ssh is killed and the script    *)
(* dies with SystemExit.                                                   *)
VerifyTunnel(t) ==
    /\ At(t, "verify")
    /\ \/ Healthy /\ Script(t, "record") /\ UNCHANGED port
       \/ Script(t, "down") /\ port' = FreePort(hand[t])
    /\ UNCHANGED <<state, urlSet, pc, hand, disk, created, alive, faults>>

(* The second save_state, with the tunnel's pid.                           *)
Record(t) ==
    /\ At(t, "record")
    /\ Script(t, "done")
    /\ file' = hand[t]
    /\ pidSaved' = TRUE
    /\ UNCHANGED <<state, urlSet, pc, hand, cloud, faults>>

(* runpod_down.teardown(): kill the tunnel if its pid is on file, delete   *)
(* the pod on file, clear the file whether or not the deletion worked.     *)
TearDown ==
    /\ \/ alive' = alive \ {file} /\ UNCHANGED faults
       \/ file \in alive /\ UNCHANGED alive /\ Fault
    /\ port' = IF pidSaved THEN FreePort(file) ELSE port
    /\ file' = NoPod
    /\ pidSaved' = FALSE
    /\ UNCHANGED created

(* The script's own teardown, then exit 1.                                 *)
Down(t) ==
    /\ At(t, "down")
    /\ TearDown
    /\ Script(t, "failed")
    /\ hand' = [hand EXCEPT ![t] = NoPod]
    /\ UNCHANGED <<state, urlSet, pc>>

Running == {"create", "save", "setup", "tunnel", "verify", "record",
            "down", "done"}

(* Mutant: no teardown after the kill.                                     *)
KillScriptOnly(t) ==
    /\ pc[t] = "provision"
    /\ script[t] \in Running
    /\ IF script[t] = "save" THEN Fault ELSE UNCHANGED faults
    /\ Script(t, "failed")
    /\ hand' = [hand EXCEPT ![t] = NoPod]
    /\ UNCHANGED <<state, urlSet, pc, disk, cloud>>

(* RUNPOD_PROVISION_TIMEOUT_S is over: SIGKILL, then runpod_down.py.  A    *)
(* kill before save_state leaves a pod that nobody knows: the one in hand, *)
(* or the one that runpodctl, which is not killed, goes on to make.        *)
KillScript(t) ==
    /\ pc[t] = "provision"
    /\ script[t] \in Running
    /\ \/ /\ script[t] # "save"
          /\ UNCHANGED <<hand, created, alive, faults>>
       \/ /\ script[t] = "save"
          /\ Fault
          /\ hand' = [hand EXCEPT ![t] = NoPod]
          /\ UNCHANGED <<created, alive>>
       \/ /\ script[t] = "create"
          /\ Fault
          /\ UnnamedPod
          /\ UNCHANGED hand
    /\ Goto(t, "teardown")
    /\ UNCHANGED <<state, urlSet, script, disk, port>>

(* runpod_down.py after the kill, and on to `finally`.                     *)
TearDownKilled(t) ==
    /\ pc[t] = "teardown"
    /\ TearDown
    /\ Goto(t, "provision")
    /\ Script(t, "failed")
    /\ hand' = [hand EXCEPT ![t] = NoPod]
    /\ UNCHANGED <<state, urlSet>>

(* Mutant: the timeout of runpod_down.py escapes past `finally`.           *)
TearDownTimesOutUnreleased(t) ==
    /\ pc[t] = "teardown"
    /\ Fault
    /\ alive' \in {alive, alive \ {file}}
    /\ Goto(t, "idle")
    /\ Script(t, "none")
    /\ hand' = [hand EXCEPT ![t] = NoPod]
    /\ UNCHANGED <<state, urlSet, disk, created, port>>

(* runpod_down.py itself runs over its 60 s, before or after the deletion; *)
(* `finally` still runs, then the exception leaves ensure_running().       *)
TearDownTimesOut(t) ==
    /\ pc[t] = "teardown"
    /\ Fault
    /\ alive' \in {alive, alive \ {file}}
    /\ Goto(t, "provision")
    /\ Script(t, "failed")
    /\ hand' = [hand EXCEPT ![t] = NoPod]
    /\ UNCHANGED <<state, urlSet, disk, created, port>>

(* `finally`, under the lock, once the script has ended; the caller of a   *)
(* failed one returns False, or raises.                                    *)
Finally(t) ==
    /\ pc[t] = "provision"
    /\ script[t] \in {"done", "failed"}
    /\ starting' = FALSE
    /\ ready' = (script[t] = "done")
    /\ Goto(t, IF script[t] = "done" THEN "seturl" ELSE "idle")
    /\ Script(t, "none")
    /\ hand' = [hand EXCEPT ![t] = NoPod]
    /\ UNCHANGED <<urlSet, disk, cloud, faults>>

(* VLM_URL is set once the lock has been released.                         *)
SetUrl(t) ==
    /\ pc[t] = "seturl"
    /\ urlSet' = TRUE
    /\ Goto(t, "ready")
    /\ UNCHANGED <<state, work, disk, cloud, faults>>

-----------------------------------------------------------------------------
(* The cloud takes a pod back.                                             *)
PodDies(p) ==
    /\ p \in alive
    /\ alive' = alive \ {p}
    /\ UNCHANGED <<state, urlSet, pc, work, disk, created, port, faults>>

(* The tunnel's ssh exits: sooner or later if its pod is gone, by a fault  *)
(* if not.                                                                 *)
TunnelDrops ==
    /\ port # NoPod
    /\ port' = NoPod
    /\ IF port \in alive THEN Fault ELSE UNCHANGED faults
    /\ UNCHANGED <<state, urlSet, pc, work, disk, created, alive>>

(* The backend restarts: its memory is gone, pods and tunnel are not, and a*)
(* pod that runpodctl was told to create may still be made.                *)
Restart ==
    /\ Fault
    /\ starting' = FALSE /\ ready' = FALSE
    /\ urlSet' = Orchestrated
    /\ pc' = [t \in Threads |-> "idle"]
    /\ script' = [t \in Threads |-> "none"]
    /\ hand' = [t \in Threads |-> NoPod]
    /\ \/ UNCHANGED <<created, alive>>
       \/ (\E t \in Threads : At(t, "create")) /\ UnnamedPod
    /\ UNCHANGED <<disk, port>>

Provision(t) ==
    \/ Create(t)
    \/ Save(t)
    \/ SetUp(t)
    \/ SshTimesOut(t)
    \/ OpenTunnel(t)
    \/ VerifyTunnel(t)
    \/ Record(t)
    \/ Down(t)
    \/ KillScript(t)
    \/ TearDownKilled(t)
    \/ TearDownTimesOut(t)
    \/ Finally(t)
    \/ SetUrl(t)

Proceed(t) ==
    \/ FindReady(t)
    \/ Claim(t)
    \/ JoinWait(t)
    \/ Poll(t)
    \/ GiveUpWaiting(t)
    \/ Predict(t)
    \/ Provision(t)

Next ==
    \/ \E t \in Threads : Call(t) \/ Proceed(t)
    \/ \E p \in Pods : PodDies(p)
    \/ TunnelDrops
    \/ Restart

Spec == Init /\ [][Next]_vars

(* Every wait has a deadline: timeout_s of a waiter, the 900 s of the      *)
(* script, the 60 s of runpod_down.py.                                     *)
FairSpec == Spec /\ \A t \in Threads : WF_vars(Proceed(t))

-----------------------------------------------------------------------------
(* One caller at most is provisioning, and `starting` says whether one is. *)
Provisioners == {t \in Threads : pc[t] \in {"provision", "teardown"}}

(* The lock only claims the role (vlm_provider.py:113-124): however calls, *)
(* failures, kills and restarts interleave, the claim is held exactly while*)
(* one caller is provisioning.                                             *)
SoleProvisioner ==
    /\ starting <=> Provisioners # {}
    /\ \A t, u \in Provisioners : t = u

(* The pods that a running script is answerable for, and the others.       *)
InHand == {p \in Pods : \E t \in Threads : hand[t] = p}
Adrift == alive \ InHand

(* No more pods are being billed than one, and one for each fault.         *)
PodBound == Cardinality(alive) <= faults + 1

(* The inductive invariant behind it.  A script in charge of a pod has it  *)
(* on file from the moment it has saved it.  The pods adrift are paid for  *)
(* by faults, but for the one that serves; and a script that has verified  *)
(* the port but sees it go dead has found a pod adrift to be gone, or a    *)
(* fault.                                                                  *)
HandOnFile ==
    \A t \in Threads :
        hand[t] # NoPod =>
            /\ t \in Provisioners
            /\ script[t] \in Running \ {"create"}
            /\ file = hand[t] \/ (script[t] = "save" /\ pc[t] = "provision")

Serving == ready /\ ~ starting /\ Healthy

AdriftBound ==
    Cardinality(Adrift) <= IF Serving THEN faults + 1 ELSE faults

VerifiedBound ==
    \A t \in Threads :
        /\ pc[t] = "provision" /\ script[t] \in {"record", "done"}
        /\ hand[t] \in alive
        /\ ~ Healthy
        => Cardinality(Adrift) < faults

PodInv ==
    /\ TypeOK
    /\ SoleProvisioner
    /\ HandOnFile
    /\ AdriftBound
    /\ VerifiedBound

(* A claim is always released, so that a failed start can be tried again.  *)
ClaimReleased == starting ~> ~ starting

(* What ensure_running says of itself (vlm_provider.py:83): True if the VLM*)
(* is reachable, which without a VLM_URL it is not: model_adapter.predict  *)
(* then runs the model inside the backend.                                 *)
ReadyIsReachable == \A t \in Threads : pc[t] = "ready" => urlSet

=============================================================================
