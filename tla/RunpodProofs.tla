---------------------------- MODULE RunpodProofs ----------------------------
(***************************************************************************)
(* What RunpodProvider claims, for every number of callers and pods and any*)
(* bound on faults: one provisioner at a time, and, when the backend starts*)
(* with no pod of its orchestrator's, the bound on the pods being billed.  *)
(***************************************************************************)
EXTENDS RunpodProvider, FiniteSetTheorems, TLAPS

LEMMA InitTypeOK == Init => TypeOK
<1> SUFFICES ASSUME Init
             PROVE  TypeOK
  OBVIOUS
<1>1. file \in Pods \cup {NoPod} /\ created \subseteq Pods /\ urlSet \in BOOLEAN
  BY ProviderAssumption DEF Init
<1>2. /\ pc \in [Threads -> Place]
      /\ script \in [Threads -> Step]
      /\ hand \in [Threads -> Pods \cup {NoPod}]
  BY DEF Init, Place, Step
<1>3. starting \in BOOLEAN /\ ready \in BOOLEAN /\ pidSaved \in BOOLEAN
  BY ProviderAssumption DEF Init
<1>4. /\ alive \subseteq created
      /\ port \in Pods \cup {NoPod}
      /\ faults \in 0 .. MaxFaults
  BY <1>1, ProviderAssumption DEF Init
<1>5. QED
  BY <1>1, <1>2, <1>3, <1>4 DEF TypeOK

LEMMA TearDownTypes ==
    ASSUME TypeOK, TearDown
    PROVE  /\ file' \in Pods \cup {NoPod} /\ port' \in Pods \cup {NoPod}
           /\ pidSaved' \in BOOLEAN
           /\ created' = created /\ alive' \subseteq alive
           /\ faults' \in 0 .. MaxFaults
<1>1. faults' \in 0 .. MaxFaults /\ alive' \subseteq alive
  <2>1. CASE alive' = alive \ {file} /\ UNCHANGED faults
    BY <2>1 DEF TypeOK
  <2>2. CASE UNCHANGED alive /\ Fault
    BY <2>2, ProviderAssumption DEF TypeOK, Fault
  <2>3. QED
    BY <2>1, <2>2 DEF TearDown
<1>2. port' \in {port, NoPod}
  BY DEF TearDown, FreePort
<1>3. QED
  BY <1>1, <1>2 DEF TearDown, TypeOK

LEMMA PodMadeTypes ==
    ASSUME TypeOK, NEW p \in Pods \ created, PodMade(p)
    PROVE  created' \subseteq Pods /\ alive' \subseteq created'
BY DEF TypeOK, PodMade

LEMMA UnnamedTypes ==
    ASSUME TypeOK, UnnamedPod
    PROVE  created' \subseteq Pods /\ alive' \subseteq created'
BY PodMadeTypes, Zenon DEF UnnamedPod

LEMMA RestartTypes == TypeOK /\ Restart => TypeOK'
<1> SUFFICES ASSUME TypeOK, Restart
             PROVE  TypeOK'
  OBVIOUS
<1>1. UNCHANGED <<disk, port>>
  BY Zenon DEF Restart
<1>2. urlSet' \in BOOLEAN
  BY ProviderAssumption, Zenon DEF Restart
<1>3. starting' = FALSE /\ ready' = FALSE /\ faults' \in 0 .. MaxFaults
  <2>1. starting' = FALSE /\ ready' = FALSE /\ Fault
    BY Zenon DEF Restart
  <2>2. QED
    BY <2>1, ProviderAssumption DEF Fault, TypeOK
<1>4. /\ pc' \in [Threads -> Place]
      /\ script' \in [Threads -> Step]
      /\ hand' \in [Threads -> Pods \cup {NoPod}]
  BY DEF Restart, Place, Step
<1>5. created' \subseteq Pods /\ alive' \subseteq created'
  <2>1. UnnamedPod \/ UNCHANGED <<created, alive>>
    BY Zenon DEF Restart
  <2>2. QED
    BY <2>1, UnnamedTypes DEF TypeOK
<1>6. QED
  BY <1>1, <1>2, <1>3, <1>4, <1>5 DEF TypeOK, disk

LEMMA StepTypeOK == TypeOK /\ [Next]_vars => TypeOK'
<1> SUFFICES ASSUME TypeOK, [Next]_vars
             PROVE  TypeOK'
  OBVIOUS
<1> USE ProviderAssumption DEF TypeOK, Place, Step, state, work, disk, cloud,
        Goto, Script, Fault, At
<1>1. ASSUME NEW t \in Threads, Call(t) PROVE TypeOK'
  BY <1>1 DEF Call
<1>2. ASSUME NEW t \in Threads, FindReady(t) PROVE TypeOK'
  BY <1>2 DEF FindReady
<1>3. ASSUME NEW t \in Threads, Claim(t) PROVE TypeOK'
  BY <1>3 DEF Claim, NotAnswering
<1>4. ASSUME NEW t \in Threads, JoinWait(t) PROVE TypeOK'
  BY <1>4 DEF JoinWait, NotAnswering
<1>5. ASSUME NEW t \in Threads, Poll(t) PROVE TypeOK'
  BY <1>5 DEF Poll
<1>6. ASSUME NEW t \in Threads, GiveUpWaiting(t) PROVE TypeOK'
  BY <1>6 DEF GiveUpWaiting
<1>7. ASSUME NEW t \in Threads, Predict(t) PROVE TypeOK'
  BY <1>7 DEF Predict
<1>8. ASSUME NEW t \in Threads, Create(t) PROVE TypeOK'
  <2>1. created' \subseteq Pods /\ alive' \subseteq created'
    <3>1. \/ \E p \in Pods \ created : PodMade(p)
          \/ UNCHANGED <<created, alive>>
      BY <1>8, Zenon DEF Create, UnnamedPod
    <3>2. QED
      BY <3>1, PodMadeTypes
  <2>2. /\ script' \in [Threads -> Step] /\ hand' \in [Threads -> Pods \cup {NoPod}]
        /\ faults' \in 0 .. MaxFaults
    BY <1>8 DEF Create
  <2>3. UNCHANGED <<state, urlSet, pc, disk, port>>
    BY <1>8, Zenon DEF Create
  <2>4. QED
    BY <2>1, <2>2, <2>3
<1>9. ASSUME NEW t \in Threads, Save(t) PROVE TypeOK'
  BY <1>9 DEF Save
<1>10. ASSUME NEW t \in Threads, SetUp(t) PROVE TypeOK'
  BY <1>10 DEF SetUp
<1>11. ASSUME NEW t \in Threads, SshTimesOut(t) PROVE TypeOK'
  BY <1>11 DEF SshTimesOut
<1>12. ASSUME NEW t \in Threads, OpenTunnel(t) PROVE TypeOK'
  BY <1>12 DEF OpenTunnel
<1>13. ASSUME NEW t \in Threads, VerifyTunnel(t) PROVE TypeOK'
  BY <1>13 DEF VerifyTunnel, FreePort
<1>14. ASSUME NEW t \in Threads, Record(t) PROVE TypeOK'
  BY <1>14 DEF Record
<1>15. ASSUME NEW t \in Threads, Down(t) PROVE TypeOK'
  BY <1>15, TearDownTypes DEF Down
<1>16. ASSUME NEW t \in Threads, KillScript(t) PROVE TypeOK'
  <2>1. created' \subseteq Pods /\ alive' \subseteq created'
    <3>1. UnnamedPod \/ UNCHANGED <<created, alive>>
      BY <1>16, Zenon DEF KillScript
    <3>2. QED
      BY <3>1, UnnamedTypes
  <2>2. /\ pc' \in [Threads -> Place] /\ hand' \in [Threads -> Pods \cup {NoPod}]
        /\ faults' \in 0 .. MaxFaults
    BY <1>16 DEF KillScript
  <2>3. UNCHANGED <<state, urlSet, script, disk, port>>
    BY <1>16, Zenon DEF KillScript
  <2>4. QED
    BY <2>1, <2>2, <2>3
<1>17. ASSUME NEW t \in Threads, TearDownKilled(t) PROVE TypeOK'
  BY <1>17, TearDownTypes DEF TearDownKilled
<1>18. ASSUME NEW t \in Threads, TearDownTimesOut(t) PROVE TypeOK'
  BY <1>18 DEF TearDownTimesOut
<1>19. ASSUME NEW t \in Threads, Finally(t) PROVE TypeOK'
  BY <1>19 DEF Finally
<1>20. ASSUME NEW t \in Threads, SetUrl(t) PROVE TypeOK'
  BY <1>20 DEF SetUrl
<1>21. ASSUME NEW p \in Pods, PodDies(p) PROVE TypeOK'
  BY <1>21 DEF PodDies
<1>22. ASSUME TunnelDrops PROVE TypeOK'
  <2>1. CASE port \in alive
    BY <1>22, <2>1 DEF TunnelDrops
  <2>2. CASE port \notin alive
    BY <1>22, <2>2 DEF TunnelDrops
  <2>3. QED
    BY <2>1, <2>2
<1>23. ASSUME Restart PROVE TypeOK'
  BY <1>23, RestartTypes
<1>24. ASSUME UNCHANGED vars PROVE TypeOK'
  BY <1>24 DEF vars
<1> HIDE DEF TypeOK
<1>25. QED
  BY <1>1, <1>2, <1>3, <1>4, <1>5, <1>6, <1>7, <1>8, <1>9, <1>10, <1>11,
     <1>12, <1>13, <1>14, <1>15, <1>16, <1>17, <1>18, <1>19, <1>20, <1>21,
     <1>22, <1>23, <1>24
     DEF Next, Proceed, Provision

-----------------------------------------------------------------------------
(* What the steps do to the claim: some take it, some release it, and the  *)
(* others leave both `starting` and the set of provisioners alone.         *)
TakesClaim(t) ==
    /\ ~ starting /\ starting'
    /\ pc[t] = "enter" /\ pc' = [pc EXCEPT ![t] = "provision"]

ReleasesClaim(t) ==
    /\ ~ starting'
    /\ pc[t] = "provision"
    /\ \E place \in {"seturl", "idle"} : pc' = [pc EXCEPT ![t] = place]

LEMMA ClaimSteps ==
    ASSUME TypeOK, [Next]_vars
    PROVE  \/ \E t \in Threads : TakesClaim(t)
           \/ \E t \in Threads : ReleasesClaim(t)
           \/ Restart
           \/ UNCHANGED starting /\ Provisioners' = Provisioners
<1> DEFINE Kept == UNCHANGED starting /\ Provisioners' = Provisioners
<1> USE DEF TypeOK, Goto, state, At, Provisioners
<1>1. ASSUME NEW t \in Threads, Claim(t) PROVE TakesClaim(t)
  BY <1>1 DEF Claim, TakesClaim
<1>2. ASSUME NEW t \in Threads, Finally(t) PROVE ReleasesClaim(t)
  BY <1>2 DEF Finally, ReleasesClaim
<1>3. ASSUME NEW t \in Threads,
             \/ Call(t) \/ FindReady(t) \/ JoinWait(t) \/ Poll(t)
             \/ GiveUpWaiting(t) \/ Predict(t) \/ SetUrl(t)
      PROVE  Kept
  BY <1>3 DEF Call, FindReady, JoinWait, Poll, GiveUpWaiting, Predict, SetUrl
<1>4. ASSUME NEW t \in Threads,
             \/ Create(t) \/ Save(t) \/ SetUp(t) \/ SshTimesOut(t)
             \/ OpenTunnel(t) \/ VerifyTunnel(t) \/ Record(t) \/ Down(t)
      PROVE  Kept
  BY <1>4 DEF Create, Save, SetUp, SshTimesOut, OpenTunnel, VerifyTunnel,
              Record, Down
<1>5. ASSUME NEW t \in Threads,
             KillScript(t) \/ TearDownKilled(t) \/ TearDownTimesOut(t)
      PROVE  Kept
  BY <1>5 DEF KillScript, TearDownKilled, TearDownTimesOut
<1>6. ASSUME NEW p \in Pods, PodDies(p) PROVE Kept
  BY <1>6 DEF PodDies
<1>7. ASSUME TunnelDrops \/ UNCHANGED vars PROVE Kept
  BY <1>7 DEF TunnelDrops, vars
<1> HIDE DEF TypeOK, Kept, Provisioners
<1>8. QED
  BY <1>1, <1>2, <1>3, <1>4, <1>5, <1>6, <1>7 DEF Next, Proceed, Provision, Kept

LEMMA StepSoleProvisioner ==
    ASSUME TypeOK, SoleProvisioner, [Next]_vars
    PROVE  SoleProvisioner'
<1>1. CASE \E t \in Threads : TakesClaim(t)
  BY <1>1 DEF TypeOK, TakesClaim, SoleProvisioner, Provisioners
<1>2. CASE \E t \in Threads : ReleasesClaim(t)
  BY <1>2 DEF TypeOK, ReleasesClaim, SoleProvisioner, Provisioners
<1>3. CASE Restart
  BY <1>3 DEF Restart, SoleProvisioner, Provisioners
<1>4. CASE UNCHANGED starting /\ Provisioners' = Provisioners
  BY <1>4 DEF SoleProvisioner
<1>5. QED
  BY <1>1, <1>2, <1>3, <1>4, ClaimSteps

(* The state of the provider, of its callers and of the cloud is of its    *)
(* type.                                                                   *)
THEOREM ProviderTypes == Spec => []TypeOK
  BY InitTypeOK, StepTypeOK, PTL DEF Spec

(* One caller provisions at a time, and exactly while `starting` is set.   *)
THEOREM OneProvisioner == Spec => []SoleProvisioner
<1>1. Init => TypeOK /\ SoleProvisioner
  BY InitTypeOK DEF Init, SoleProvisioner, Provisioners
<1>2. (TypeOK /\ SoleProvisioner) /\ [Next]_vars
        => (TypeOK /\ SoleProvisioner)'
  BY StepTypeOK, StepSoleProvisioner
<1>3. QED
  BY <1>1, <1>2, PTL DEF Spec

-----------------------------------------------------------------------------
(* Counting pods.                                                          *)
LEMMA PodCounts ==
    ASSUME TypeOK, NEW S \in SUBSET alive
    PROVE  /\ IsFiniteSet(S) /\ Cardinality(S) \in Nat
           /\ Cardinality(S) <= Cardinality(alive)
<1>1. S \in SUBSET Pods /\ alive \in SUBSET Pods
  BY DEF TypeOK
<1>2. IsFiniteSet(alive) /\ IsFiniteSet(S)
  BY <1>1, ProviderAssumption, FS_Subset
<1>3. QED
  BY <1>2, FS_Subset, FS_CardinalityType

LEMMA OneLess ==
    ASSUME TypeOK, NEW S \in SUBSET alive, NEW p
    PROVE  /\ Cardinality(S \ {p}) \in Nat
           /\ Cardinality(S \ {p}) <= Cardinality(S)
           /\ Cardinality(S) <= Cardinality(S \ {p}) + 1
           /\ p \in S => Cardinality(S) = Cardinality(S \ {p}) + 1
<1>1. IsFiniteSet(S) /\ Cardinality(S) \in Nat
  BY PodCounts
<1>2. S \ {p} \in SUBSET alive
  OBVIOUS
<1>3. Cardinality(S \ {p}) \in Nat
  BY <1>2, PodCounts
<1>4. Cardinality(S \ {p}) = IF p \in S THEN Cardinality(S) - 1
                                        ELSE Cardinality(S)
  BY <1>1, FS_RemoveElement
<1>5. QED
  BY <1>1, <1>3, <1>4

LEMMA OneMore ==
    ASSUME TypeOK, UnnamedPod
    PROVE  /\ Cardinality(alive') \in Nat
           /\ Cardinality(alive') <= Cardinality(alive) + 1
<1>1. PICK p \in Pods \ created : alive' = alive \cup {p}
  BY DEF UnnamedPod, PodMade
<1>2. IsFiniteSet(alive) /\ Cardinality(alive) \in Nat
  BY PodCounts
<1>3. QED
  BY <1>1, <1>2, FS_AddElement

(* Only the provisioner can have a pod in hand.                            *)
Ledger == TypeOK /\ SoleProvisioner /\ HandOnFile

LEMMA ProvisionersHand ==
    ASSUME Ledger, NEW t \in Threads, t \in Provisioners
    PROVE  /\ Adrift = alive \ {hand[t]}
           /\ starting
           /\ \A u \in Threads \ {t} : hand[u] = NoPod /\ u \notin Provisioners
<1>1. \A u \in Threads \ {t} : hand[u] = NoPod /\ u \notin Provisioners
  BY DEF Ledger, SoleProvisioner, HandOnFile
<1>2. starting
  BY DEF Ledger, SoleProvisioner
<1>3. Adrift = alive \ {hand[t]}
  BY <1>1, ProviderAssumption DEF Ledger, TypeOK, Adrift, InHand
<1>4. QED
  BY <1>1, <1>2, <1>3

LEMMA EmptyHands ==
    ASSUME Ledger, ~ starting
    PROVE  Adrift = alive /\ \A t \in Threads : hand[t] = NoPod
<1>1. \A t \in Threads : hand[t] = NoPod
  BY DEF Ledger, SoleProvisioner, HandOnFile
<1>2. QED
  BY <1>1, ProviderAssumption DEF Ledger, TypeOK, Adrift, InHand

-----------------------------------------------------------------------------
(* Steps of callers that are not provisioning leave everything alone that  *)
(* the ledger is about.                                                    *)
Bystands(t) ==
    \/ Call(t) \/ FindReady(t) \/ JoinWait(t) \/ Poll(t)
    \/ GiveUpWaiting(t) \/ Predict(t) \/ SetUrl(t)

LEMMA BystanderKeeps ==
    ASSUME TypeOK, NEW t \in Threads, Bystands(t)
    PROVE  /\ UNCHANGED <<starting, ready, work, disk, cloud>>
           /\ faults' \in Nat /\ faults <= faults'
           /\ pc[t] \notin {"provision", "teardown"}
           /\ \E place \in Place \ {"provision", "teardown"} :
                  pc' = [pc EXCEPT ![t] = place]
<1>1. UNCHANGED faults \/ Fault
  BY DEF Bystands, Call, FindReady, JoinWait, Poll, GiveUpWaiting, Predict,
         SetUrl, NotAnswering
<1>2. faults' \in Nat /\ faults <= faults'
  BY <1>1, ProviderAssumption DEF Fault, TypeOK
<1>3. UNCHANGED <<starting, ready, work, disk, cloud>>
  BY DEF Bystands, Call, FindReady, JoinWait, Poll, GiveUpWaiting, Predict,
         SetUrl, state
<1>4. /\ pc[t] \notin {"provision", "teardown"}
      /\ \E place \in Place \ {"provision", "teardown"} :
             pc' = [pc EXCEPT ![t] = place]
  BY DEF Bystands, Call, FindReady, JoinWait, Poll, GiveUpWaiting, Predict,
         SetUrl, Goto, Place
<1>5. QED
  BY <1>2, <1>3, <1>4

-----------------------------------------------------------------------------
(* A pod in hand is on file: only its own script writes the file.          *)
LEMMA StepHandOnFile ==
    ASSUME Ledger, [Next]_vars
    PROVE  HandOnFile'
<1> USE DEF Ledger, TypeOK, HandOnFile, Provisioners, Running, Goto, Script, At,
            work, disk, cloud, state
<1>1. ASSUME NEW t \in Threads, Bystands(t) PROVE HandOnFile'
  BY <1>1, BystanderKeeps
<1>2. ASSUME NEW t \in Threads, Claim(t) PROVE HandOnFile'
  BY <1>2 DEF Claim
<1>3. ASSUME NEW t \in Threads,
             \/ Create(t) \/ Save(t) \/ SetUp(t) \/ SshTimesOut(t)
             \/ OpenTunnel(t) \/ VerifyTunnel(t) \/ Record(t) \/ Down(t)
      PROVE  HandOnFile'
  <2>0. t \in Provisioners
    BY <1>3 DEF Create, Save, SetUp, SshTimesOut, OpenTunnel, VerifyTunnel,
       Record, Down, Provisioners
  <2>1. \A u \in Threads \ {t} : hand[u] = NoPod
    BY <2>0, ProvisionersHand
  <2>2. QED
    BY <1>3, <2>1 DEF Create, Save, SetUp, SshTimesOut, OpenTunnel,
       VerifyTunnel, Record, Down
<1>4. ASSUME NEW t \in Threads,
             KillScript(t) \/ TearDownKilled(t) \/ TearDownTimesOut(t)
                \/ Finally(t)
      PROVE  HandOnFile'
  <2>0. t \in Provisioners
    BY <1>4 DEF KillScript, TearDownKilled, TearDownTimesOut, Finally,
       Provisioners
  <2>1. \A u \in Threads \ {t} : hand[u] = NoPod
    BY <2>0, ProvisionersHand
  <2>2. QED
    BY <1>4, <2>1 DEF KillScript, TearDownKilled, TearDownTimesOut, Finally
<1>5. ASSUME NEW p \in Pods, PodDies(p) PROVE HandOnFile'
  BY <1>5 DEF PodDies
<1>6. ASSUME TunnelDrops \/ UNCHANGED vars PROVE HandOnFile'
  BY <1>6 DEF TunnelDrops, vars
<1>7. ASSUME Restart PROVE HandOnFile'
  BY <1>7 DEF Restart
<1>8. QED
  BY <1>1, <1>2, <1>3, <1>4, <1>5, <1>6, <1>7 DEF Next, Proceed, Provision,
     Bystands

-----------------------------------------------------------------------------
(* The pods adrift, and the faults that pay for them.                      *)
Accounts == AdriftBound /\ VerifiedBound

LEMMA AdriftAfter ==
    ASSUME TypeOK', NEW t \in Threads,
           \A u \in Threads \ {t} : hand'[u] = NoPod
    PROVE  Adrift' = alive' \ {hand'[t]}
BY ProviderAssumption DEF TypeOK, Adrift, InHand

LEMMA AdriftCount == TypeOK => Cardinality(Adrift) \in Nat /\ faults \in Nat
<1> SUFFICES ASSUME TypeOK
             PROVE  Cardinality(Adrift) \in Nat /\ faults \in Nat
  OBVIOUS
<1>1. Adrift \in SUBSET alive
  BY DEF Adrift
<1>2. QED
  BY <1>1, PodCounts DEF TypeOK

LEMMA FaultCount == TypeOK /\ Fault => faults \in Nat /\ faults' = faults + 1
BY DEF TypeOK, Fault

(* While a caller provisions, every pod adrift has been paid for.          *)
LEMMA PaidWhileProvisioning ==
    ASSUME Ledger, Accounts, NEW t \in Threads, t \in Provisioners
    PROVE  /\ Cardinality(alive \ {hand[t]}) <= faults
           /\ Cardinality(alive) <= faults + 1
           /\ Cardinality(alive) \in Nat
           /\ Cardinality(alive \ {hand[t]}) \in Nat
<1>1. Adrift = alive \ {hand[t]} /\ starting
  BY ProvisionersHand
<1>2. Cardinality(alive \ {hand[t]}) <= faults
  BY <1>1 DEF Accounts, AdriftBound, Serving
<1>3. faults \in Nat /\ Cardinality(alive) \in Nat
  BY PodCounts DEF Ledger, TypeOK
<1>4. /\ Cardinality(alive) <= Cardinality(alive \ {hand[t]}) + 1
      /\ Cardinality(alive \ {hand[t]}) \in Nat
  BY OneLess DEF Ledger
<1>5. QED
  BY <1>2, <1>3, <1>4

LEMMA AliveBound ==
    ASSUME Ledger, Accounts
    PROVE  Cardinality(alive) \in Nat /\ Cardinality(alive) <= faults + 1
<1>1. CASE starting
  BY <1>1, PaidWhileProvisioning DEF Ledger, SoleProvisioner, Provisioners
<1>2. CASE ~ starting
  <2>1. Adrift = alive
    BY <1>2, EmptyHands
  <2>2. Cardinality(alive) \in Nat /\ faults \in Nat
    BY PodCounts DEF Ledger, TypeOK
  <2>3. QED
    BY <2>1, <2>2 DEF Accounts, AdriftBound
<1>3. QED
  BY <1>1, <1>2

(* A step that leaves pods, hands and the way to them as they are.         *)
LEMMA QuietStep ==
    ASSUME Ledger, Accounts, UNCHANGED <<starting, ready, alive, hand, port>>,
           faults' \in Nat, faults <= faults',
           \A u \in Threads :
              pc'[u] = "provision" /\ script'[u] \in {"record", "done"} =>
                 /\ pc[u] = "provision" /\ script[u] \in {"record", "done"}
    PROVE  Accounts'
<1>1. Adrift' = Adrift /\ Serving' = Serving /\ Healthy' = Healthy
  BY DEF Adrift, InHand, Serving, Healthy
<1>2. Cardinality(Adrift) \in Nat /\ faults \in Nat
  BY AdriftCount DEF Ledger
<1>3. AdriftBound'
  BY <1>1, <1>2 DEF Accounts, AdriftBound
<1>4. VerifiedBound'
  BY <1>1, <1>2 DEF Accounts, VerifiedBound
<1>5. QED
  BY <1>3, <1>4 DEF Accounts

(* A provisioner's step that leaves no verified script behind.             *)
LEMMA UnverifiedStep ==
    ASSUME Ledger, TypeOK', NEW t \in Threads, t \in Provisioners,
           NEW place \in Place, pc' = [pc EXCEPT ![t] = place],
           NEW p, hand' = [hand EXCEPT ![t] = p],
           place = "provision" => script'[t] \notin {"record", "done"},
           ~ Serving',
           Cardinality(alive' \ {p}) <= faults'
    PROVE  Accounts'
<1>1. /\ hand'[t] = p
      /\ \A u \in Threads \ {t} : hand'[u] = NoPod
      /\ \A u \in Threads : pc'[u] = "provision" => u = t /\ place = "provision"
  BY ProvisionersHand DEF Ledger, TypeOK, Provisioners
<1>2. Adrift' = alive' \ {p}
  BY <1>1, AdriftAfter
<1>3. AdriftBound'
  BY <1>2 DEF AdriftBound
<1>4. VerifiedBound'
  BY <1>1 DEF VerifiedBound
<1>5. QED
  BY <1>3, <1>4 DEF Accounts

LEMMA ScriptAccounts ==
    ASSUME Ledger, Accounts, TypeOK', NEW t \in Threads, t \in Provisioners,
           \/ Create(t) \/ Save(t) \/ SetUp(t) \/ SshTimesOut(t)
           \/ OpenTunnel(t) \/ VerifyTunnel(t) \/ Record(t)
    PROVE  Accounts'
<1> USE DEF At, Script, state, work, disk, cloud
<1>1. /\ starting
      /\ \A u \in Threads \ {t} : u \notin Provisioners
      /\ Cardinality(alive \ {hand[t]}) <= faults
      /\ Cardinality(alive) <= faults + 1
      /\ faults \in Nat /\ Cardinality(alive) \in Nat
      /\ Cardinality(alive \ {hand[t]}) \in Nat
  BY ProvisionersHand, PaidWhileProvisioning DEF Ledger, TypeOK
<1>2. UNCHANGED <<starting, pc>> /\ pc[t] = "provision"
  BY DEF Create, Save, SetUp, SshTimesOut, OpenTunnel, VerifyTunnel, Record
<1>3. /\ ~ Serving'
      /\ pc' = [pc EXCEPT ![t] = "provision"]
      /\ hand = [hand EXCEPT ![t] = hand[t]]
      /\ "provision" \in Place
  BY <1>1, <1>2 DEF Serving, Ledger, TypeOK, Place
<1>4. CASE Create(t)
  <2>1. hand[t] = NoPod
    BY <1>4 DEF Create, Ledger, HandOnFile
  <2>2. NoPod \notin alive
    BY ProviderAssumption DEF Ledger, TypeOK
  <2>3. script'[t] \notin {"record", "done"}
    BY <1>4 DEF Create, Ledger, TypeOK
  <2>4. CASE \E p \in Pods \ created : /\ hand' = [hand EXCEPT ![t] = p]
                                       /\ alive' = alive \cup {p}
                                       /\ UNCHANGED faults
    <3>1. PICK p \in Pods \ created : /\ hand' = [hand EXCEPT ![t] = p]
                                      /\ alive' = alive \cup {p}
      BY <2>4
    <3>2. alive' \ {p} = alive \ {hand[t]}
      BY <3>1, <2>1, <2>2 DEF Ledger, TypeOK
    <3>3. UNCHANGED faults
      BY <2>4
    <3>4. QED
      BY <1>1, <1>3, <2>3, <3>1, <3>2, <3>3, UnverifiedStep
  <2>5. CASE UNCHANGED <<hand, alive, faults>>
    BY <1>1, <1>3, <2>3, <2>5, UnverifiedStep
  <2>6. CASE UnnamedPod /\ Fault /\ UNCHANGED hand
    <3>1. Cardinality(alive' \ {hand[t]}) <= faults'
      <4>1. alive \ {hand[t]} = alive /\ alive' \ {hand[t]} = alive'
        BY <2>1, ProviderAssumption DEF Ledger, TypeOK
      <4>2. Cardinality(alive') \in Nat /\ Cardinality(alive') <= Cardinality(alive) + 1
        BY <2>6, OneMore DEF Ledger
      <4>3. faults' = faults + 1
        BY <2>6, FaultCount DEF Ledger
      <4>4. QED
        BY <1>1, <4>1, <4>2, <4>3
    <3>2. QED
      BY <1>3, <2>3, <2>6, <3>1, UnverifiedStep
  <2>7. QED
    BY <1>4, <2>4, <2>5, <2>6 DEF Create, PodMade
<1>5. CASE Save(t) \/ SetUp(t) \/ OpenTunnel(t)
  <2>1. UNCHANGED <<hand, alive, faults>> /\ script'[t] \notin {"record", "done"}
    BY <1>5 DEF Save, SetUp, OpenTunnel, Ledger, TypeOK
  <2>2. QED
    BY <1>1, <1>3, <2>1, UnverifiedStep
<1>6. CASE SshTimesOut(t)
  <2>1. faults' = faults + 1
    BY <1>6, FaultCount DEF SshTimesOut, Ledger
  <2>2. /\ UNCHANGED alive /\ hand' = [hand EXCEPT ![t] = NoPod]
        /\ script'[t] \notin {"record", "done"}
    BY <1>6 DEF SshTimesOut, Ledger, TypeOK
  <2>3. alive \ {NoPod} = alive
    BY ProviderAssumption DEF Ledger, TypeOK
  <2>4. Cardinality(alive' \ {NoPod}) <= faults'
    BY <1>1, <2>1, <2>2, <2>3
  <2>5. QED
    BY <1>3, <2>2, <2>4, UnverifiedStep
<1>7. CASE VerifyTunnel(t)
  <2>1. UNCHANGED <<hand, alive, faults>>
    BY <1>7 DEF VerifyTunnel
  <2>2. CASE script'[t] = "record"
    <3>1. Healthy'
      BY <1>7, <2>2 DEF VerifyTunnel, Healthy, Ledger, TypeOK
    <3>2. VerifiedBound'
      BY <3>1 DEF VerifiedBound
    <3>3. Adrift' = alive \ {hand[t]}
      BY <2>1, ProvisionersHand DEF Adrift, InHand
    <3>4. QED
      BY <1>1, <1>3, <2>1, <3>2, <3>3 DEF Accounts, AdriftBound
  <2>3. CASE script'[t] = "down"
    BY <1>1, <1>3, <2>1, <2>3, UnverifiedStep
  <2>4. QED
    BY <1>7, <2>2, <2>3 DEF VerifyTunnel, Ledger, TypeOK
<1>8. CASE Record(t)
  <2>1. UNCHANGED <<starting, ready, alive, hand, port, faults, pc>>
    BY <1>8 DEF Record
  <2>2. \A u \in Threads :
           pc'[u] = "provision" /\ script'[u] \in {"record", "done"} =>
              /\ pc[u] = "provision" /\ script[u] \in {"record", "done"}
    BY <1>8 DEF Record, Ledger, TypeOK
  <2>3. QED
    BY <1>1, <2>1, <2>2, QuietStep
<1>9. QED
  BY <1>4, <1>5, <1>6, <1>7, <1>8

(* Teardown, the kill before it, and `finally`.                            *)
LEMMA EndingAccounts ==
    ASSUME Ledger, Accounts, TypeOK', NEW t \in Threads, t \in Provisioners,
           \/ Down(t) \/ KillScript(t) \/ TearDownKilled(t)
           \/ TearDownTimesOut(t)
    PROVE  Accounts'
<1> USE DEF At, Script, Goto, state, work, disk, cloud
<1>1. /\ starting
      /\ Cardinality(alive \ {hand[t]}) <= faults
      /\ Cardinality(alive) <= faults + 1
      /\ faults \in Nat /\ Cardinality(alive) \in Nat
      /\ Cardinality(alive \ {hand[t]}) \in Nat
  BY ProvisionersHand, PaidWhileProvisioning DEF Ledger, TypeOK
<1>2. ~ Serving'
  BY <1>1 DEF Serving, Down, KillScript, TearDownKilled, TearDownTimesOut
<1>3. alive \ {NoPod} = alive /\ alive' \ {NoPod} = alive'
  BY ProviderAssumption DEF Ledger, TypeOK
<1>4. CASE KillScript(t)
  <2>1. pc' = [pc EXCEPT ![t] = "teardown"] /\ "teardown" \in Place
    BY <1>4 DEF KillScript, Place
  <2>2. CASE script[t] = "save" /\ Fault
             /\ hand' = [hand EXCEPT ![t] = NoPod] /\ UNCHANGED alive
    <3>1. faults' = faults + 1
      BY <2>2, FaultCount DEF Ledger
    <3>2. Cardinality(alive' \ {NoPod}) <= faults'
      BY <1>1, <1>3, <2>2, <3>1
    <3>3. QED
      BY <1>2, <2>1, <2>2, <3>2, UnverifiedStep
  <2>3. CASE UNCHANGED <<hand, alive, faults>>
    <3>1. hand' = [hand EXCEPT ![t] = hand[t]]
      BY <2>3 DEF Ledger, TypeOK
    <3>2. QED
      BY <1>1, <1>2, <2>1, <2>3, <3>1, UnverifiedStep
  <2>4. CASE script[t] = "create" /\ Fault /\ UnnamedPod /\ UNCHANGED hand
    <3>1. hand' = [hand EXCEPT ![t] = NoPod] /\ hand[t] = NoPod
      BY <2>4 DEF Ledger, TypeOK, HandOnFile
    <3>2. faults' = faults + 1
      BY <2>4, FaultCount DEF Ledger
    <3>3. Cardinality(alive') \in Nat /\ Cardinality(alive') <= Cardinality(alive) + 1
      BY <2>4, OneMore DEF Ledger
    <3>4. Cardinality(alive' \ {NoPod}) <= faults'
      <4>1. alive \ {hand[t]} = alive
        BY <1>3, <3>1
      <4>2. Cardinality(alive) <= faults
        BY <1>1, <4>1
      <4>3. Cardinality(alive') <= faults'
        BY <1>1, <3>2, <3>3, <4>2
      <4>4. QED
        BY <1>3, <4>3
    <3>5. QED
      BY <1>2, <2>1, <3>1, <3>4, UnverifiedStep
  <2>5. QED
    BY <1>4, <2>2, <2>3, <2>4 DEF KillScript
<1>5. ASSUME Down(t) \/ TearDownKilled(t) \/ TearDownTimesOut(t)
      PROVE  Accounts'
  <2>1. /\ pc' = [pc EXCEPT ![t] = "provision"] /\ "provision" \in Place
        /\ hand' = [hand EXCEPT ![t] = NoPod]
        /\ script'[t] \notin {"record", "done"}
    BY <1>5 DEF Down, TearDownKilled, TearDownTimesOut, Place, Ledger, TypeOK
  <2>2. hand[t] = NoPod \/ file = hand[t]
    BY <1>5 DEF Down, TearDownKilled, TearDownTimesOut, Ledger, HandOnFile
  <2>3. CASE alive' = alive \ {file} /\ UNCHANGED faults
    <3>1. Cardinality(alive \ {file}) <= faults
      <4>1. CASE hand[t] = NoPod
        <5>1. Cardinality(alive \ {file}) \in Nat
              /\ Cardinality(alive \ {file}) <= Cardinality(alive)
          BY OneLess DEF Ledger
        <5>2. QED
          BY <1>1, <1>3, <4>1, <5>1
      <4>2. CASE file = hand[t]
        BY <1>1, <4>2
      <4>3. QED
        BY <2>2, <4>1, <4>2
    <3>2. QED
      BY <1>2, <1>3, <2>1, <2>3, <3>1, UnverifiedStep
  <2>4. CASE Fault /\ alive' \subseteq alive
    <3>1. faults' = faults + 1
      BY <2>4, FaultCount DEF Ledger
    <3>2. Cardinality(alive') \in Nat /\ Cardinality(alive') <= Cardinality(alive)
      BY <2>4, PodCounts DEF Ledger
    <3>3. Cardinality(alive' \ {NoPod}) <= faults'
      BY <1>1, <1>3, <3>1, <3>2
    <3>4. QED
      BY <1>2, <2>1, <3>3, UnverifiedStep
  <2>5. \/ alive' = alive \ {file} /\ UNCHANGED faults
        \/ Fault /\ alive' \subseteq alive
    BY <1>5 DEF Down, TearDownKilled, TearDownTimesOut, TearDown
  <2>6. QED
    BY <2>3, <2>4, <2>5
<1>6. QED
  BY <1>4, <1>5

LEMMA FinallyAccounts ==
    ASSUME Ledger, Accounts, TypeOK', NEW t \in Threads, Finally(t)
    PROVE  Accounts'
<1> USE DEF At, Script, Goto, state, disk, cloud
<1>1. t \in Provisioners /\ UNCHANGED <<alive, port, faults>>
  BY DEF Finally, Provisioners
<1>2. /\ Cardinality(alive \ {hand[t]}) <= faults
      /\ Cardinality(alive) <= faults + 1
      /\ faults \in Nat /\ Cardinality(alive) \in Nat
      /\ Cardinality(alive \ {hand[t]}) \in Nat
      /\ Adrift = alive \ {hand[t]}
      /\ \A u \in Threads \ {t} : hand[u] = NoPod /\ u \notin Provisioners
  BY <1>1, ProvisionersHand, PaidWhileProvisioning DEF Ledger, TypeOK
<1>3. alive \ {NoPod} = alive
  BY ProviderAssumption DEF Ledger, TypeOK
<1>4. Adrift' = alive
  <2>1. hand'[t] = NoPod /\ \A u \in Threads \ {t} : hand'[u] = NoPod
    BY <1>2 DEF Finally, Ledger, TypeOK
  <2>2. QED
    BY <1>1, <1>3, <2>1, AdriftAfter
<1>5. Cardinality(alive) <= IF Serving' THEN faults + 1 ELSE faults
  <2>1. CASE hand[t] \notin alive
    <3>1. alive \ {hand[t]} = alive
      BY <2>1
    <3>2. QED
      BY <1>2, <3>1
  <2>2. CASE hand[t] \in alive
    <3>1. script[t] = "done"
      BY <2>2, ProviderAssumption
         DEF Finally, Ledger, TypeOK, HandOnFile, Running
    <3>2. CASE Healthy
      BY <1>1, <1>2, <3>1, <3>2 DEF Finally, Serving, Healthy
    <3>3. CASE ~ Healthy
      <4>1. Cardinality(Adrift) < faults
        BY <2>2, <3>1, <3>3 DEF Finally, Accounts, VerifiedBound
      <4>2. Cardinality(alive) <= Cardinality(alive \ {hand[t]}) + 1
        BY OneLess DEF Ledger
      <4>3. QED
        BY <1>2, <4>1, <4>2
    <3>4. QED
      BY <3>2, <3>3
  <2>3. QED
    BY <2>1, <2>2
<1>6. AdriftBound'
  BY <1>1, <1>4, <1>5 DEF AdriftBound
<1>7. VerifiedBound'
  <2>1. \A u \in Threads : pc'[u] # "provision"
    BY <1>2 DEF Finally, Ledger, TypeOK, Provisioners
  <2>2. QED
    BY <2>1 DEF VerifiedBound
<1>8. QED
  BY <1>6, <1>7 DEF Accounts

LEMMA ClaimAccounts ==
    ASSUME Ledger, Accounts, NEW t \in Threads, Claim(t)
    PROVE  Accounts'
<1> USE DEF Script, Goto, state, disk, cloud
<1>1. UNCHANGED <<alive, hand, port, urlSet>> /\ ~ starting /\ starting'
  BY DEF Claim
<1>2. Adrift' = Adrift /\ ~ Serving'
  BY <1>1 DEF Adrift, InHand, Serving
<1>3. Cardinality(Adrift) \in Nat /\ faults \in Nat
  BY AdriftCount DEF Ledger
<1>4. Cardinality(Adrift) <= faults'
  <2>1. CASE ready /\ IsReady
    <3>1. faults' = faults + 1
      BY <2>1, FaultCount DEF Claim, NotAnswering, Ledger
    <3>2. QED
      BY <1>3, <3>1 DEF Accounts, AdriftBound
  <2>2. CASE ~ (ready /\ IsReady)
    <3>1. ~ Serving /\ UNCHANGED faults
      BY <2>2 DEF Claim, NotAnswering, IsReady, Serving
    <3>2. QED
      BY <3>1 DEF Accounts, AdriftBound
  <2>3. QED
    BY <2>1, <2>2
<1>5. AdriftBound'
  BY <1>2, <1>4 DEF AdriftBound
<1>6. VerifiedBound'
  <2>1. \A u \in Threads : u \notin Provisioners
    BY <1>1 DEF Ledger, SoleProvisioner
  <2>2. \A u \in Threads : pc'[u] = "provision" => script'[u] = "create"
    BY <2>1 DEF Claim, Ledger, TypeOK, Provisioners
  <2>3. QED
    BY <2>2 DEF VerifiedBound
<1>7. QED
  BY <1>5, <1>6 DEF Accounts

(* A pod dies: if the one that served did, nothing is owed for it any more.*)
LEMMA PodDiesAccounts ==
    ASSUME Ledger, Accounts, NEW p \in Pods, PodDies(p)
    PROVE  Accounts'
<1> USE DEF state, work, disk
<1>1. /\ alive' = alive \ {p} /\ p \in alive
      /\ UNCHANGED <<starting, ready, pc, script, hand, port, faults>>
  BY DEF PodDies
<1>2. Adrift' = Adrift \ {p}
  BY <1>1 DEF Adrift, InHand
<1>3. /\ Cardinality(Adrift) \in Nat /\ faults \in Nat
      /\ Cardinality(Adrift \ {p}) \in Nat
      /\ Cardinality(Adrift \ {p}) <= Cardinality(Adrift)
      /\ p \in Adrift => Cardinality(Adrift) = Cardinality(Adrift \ {p}) + 1
  <2>1. Adrift \in SUBSET alive
    BY DEF Adrift
  <2>2. QED
    BY <2>1, AdriftCount, OneLess DEF Ledger
<1>4. AdriftBound'
  <2>1. CASE ~ Serving
    <3>1. Cardinality(Adrift) <= faults
      BY <2>1 DEF Accounts, AdriftBound
    <3>2. QED
      BY <1>1, <1>2, <1>3, <3>1 DEF AdriftBound
  <2>2. CASE Serving /\ port # p
    <3>1. Serving'
      BY <1>1, <2>2 DEF Serving, Healthy
    <3>2. QED
      BY <1>1, <1>2, <1>3, <2>2, <3>1 DEF Accounts, AdriftBound
  <2>3. CASE Serving /\ port = p
    <3>1. p \in Adrift
      BY <1>1, <2>3, EmptyHands DEF Serving
    <3>2. Cardinality(Adrift) <= faults + 1
      BY <2>3 DEF Accounts, AdriftBound
    <3>3. QED
      BY <1>1, <1>2, <1>3, <3>1, <3>2 DEF AdriftBound
  <2>4. QED
    BY <2>1, <2>2, <2>3
<1>5. VerifiedBound'
  <2> SUFFICES ASSUME NEW u \in Threads,
                      pc[u] = "provision", script[u] \in {"record", "done"},
                      hand[u] \in alive, hand[u] # p, ~ Healthy'
               PROVE  Cardinality(Adrift \ {p}) < faults
    BY <1>1, <1>2 DEF VerifiedBound
  <2>1. CASE ~ Healthy
    <3>1. Cardinality(Adrift) < faults
      BY <2>1 DEF Accounts, VerifiedBound
    <3>2. QED
      BY <1>3, <3>1
  <2>2. CASE Healthy
    <3>1. u \in Provisioners
      BY DEF Provisioners
    <3>2. p \in Adrift
      <4>1. Adrift = alive \ {hand[u]}
        BY <3>1, ProvisionersHand
      <4>2. QED
        BY <1>1, <4>1
    <3>3. Cardinality(Adrift) <= faults
      <4>1. starting
        BY <3>1, ProvisionersHand
      <4>2. QED
        BY <4>1 DEF Accounts, AdriftBound, Serving
    <3>4. QED
      BY <1>3, <3>2, <3>3
  <2>3. QED
    BY <2>1, <2>2
<1>6. QED
  BY <1>4, <1>5 DEF Accounts

LEMMA TunnelDropsAccounts ==
    ASSUME Ledger, Accounts, TunnelDrops
    PROVE  Accounts'
<1> USE DEF state, work, disk
<1>1. UNCHANGED <<starting, ready, alive, hand, pc, script>> /\ port' = NoPod
  BY DEF TunnelDrops
<1>2. Adrift' = Adrift
  BY <1>1 DEF Adrift, InHand
<1>3. ~ Healthy' /\ ~ Serving'
  BY <1>1, ProviderAssumption DEF Ledger, TypeOK, Healthy, Serving
<1>4. Cardinality(Adrift) \in Nat /\ faults \in Nat
  BY AdriftCount DEF Ledger
<1>5. CASE Healthy
  <2>1. faults' = faults + 1
    BY <1>5, FaultCount DEF TunnelDrops, Healthy, Ledger
  <2>2. AdriftBound'
    BY <1>2, <1>4, <2>1 DEF Accounts, AdriftBound
  <2>3. VerifiedBound'
    <3> SUFFICES ASSUME NEW u \in Threads, pc[u] = "provision"
                 PROVE  Cardinality(Adrift) < faults'
      BY <1>1, <1>2 DEF VerifiedBound
    <3>1. starting
      BY ProvisionersHand DEF Provisioners
    <3>2. Cardinality(Adrift) <= faults
      BY <3>1 DEF Accounts, AdriftBound, Serving
    <3>3. QED
      BY <1>4, <2>1, <3>2
  <2>4. QED
    BY <2>2, <2>3 DEF Accounts
<1>6. CASE ~ Healthy
  <2>1. UNCHANGED faults
    BY <1>6 DEF TunnelDrops, Healthy
  <2>2. AdriftBound'
    BY <1>2, <1>3, <1>6, <2>1 DEF Accounts, AdriftBound, Serving
  <2>3. VerifiedBound'
    BY <1>1, <1>2, <1>6, <2>1 DEF Accounts, VerifiedBound
  <2>4. QED
    BY <2>2, <2>3 DEF Accounts
<1>7. QED
  BY <1>5, <1>6

LEMMA RestartAccounts ==
    ASSUME Ledger, Accounts, Restart
    PROVE  Accounts'
<1>1. /\ ~ starting' /\ ~ ready' /\ Fault
      /\ \A u \in Threads : hand'[u] = NoPod /\ pc'[u] # "provision"
  BY DEF Restart
<1>2. faults' = faults + 1
  BY <1>1, FaultCount DEF Ledger
<1>3. Adrift' = alive'
  <2>1. alive' \subseteq Pods
    BY RestartTypes DEF Ledger, TypeOK
  <2>2. QED
    BY <1>1, <2>1, ProviderAssumption DEF Adrift, InHand
<1>4. Cardinality(alive') <= faults'
  <2>1. CASE UNCHANGED alive
    BY <1>2, <2>1, AliveBound
  <2>2. CASE UnnamedPod /\ \E t \in Threads : At(t, "create")
    <3>1. PICK t \in Threads : pc[t] = "provision" /\ script[t] = "create"
      BY <2>2 DEF At
    <3>2. t \in Provisioners /\ hand[t] = NoPod
      BY <3>1 DEF Provisioners, Ledger, TypeOK, HandOnFile
    <3>3. alive \ {hand[t]} = alive
      BY <3>2, ProviderAssumption DEF Ledger, TypeOK
    <3>4. Cardinality(alive) <= faults /\ Cardinality(alive) \in Nat
      BY <3>2, <3>3, PaidWhileProvisioning
    <3>5. Cardinality(alive') \in Nat /\ Cardinality(alive') <= Cardinality(alive) + 1
      BY <2>2, OneMore DEF Ledger
    <3>6. QED
      BY <1>2, <3>4, <3>5, AdriftCount DEF Ledger
  <2>3. QED
    BY <2>1, <2>2, Zenon DEF Restart
<1>5. ~ Serving'
  BY <1>1 DEF Serving
<1>6. QED
  BY <1>1, <1>3, <1>4, <1>5 DEF Accounts, AdriftBound, VerifiedBound

LEMMA StepAccounts ==
    ASSUME Ledger, Accounts, [Next]_vars
    PROVE  Accounts'
<1>1. TypeOK'
  BY StepTypeOK DEF Ledger
<1>2. ASSUME NEW t \in Threads, Bystands(t) PROVE Accounts'
  BY <1>2, BystanderKeeps, QuietStep DEF Ledger, TypeOK, work, cloud, Place
<1>3. ASSUME NEW t \in Threads, Claim(t) PROVE Accounts'
  BY <1>3, ClaimAccounts
<1>4. ASSUME NEW t \in Threads,
             \/ Create(t) \/ Save(t) \/ SetUp(t) \/ SshTimesOut(t)
             \/ OpenTunnel(t) \/ VerifyTunnel(t) \/ Record(t)
      PROVE  Accounts'
  <2>1. t \in Provisioners
    BY <1>4 DEF Create, Save, SetUp, SshTimesOut, OpenTunnel, VerifyTunnel,
                Record, At, Provisioners
  <2>2. QED
    BY <1>1, <1>4, <2>1, ScriptAccounts
<1>5. ASSUME NEW t \in Threads,
             \/ Down(t) \/ KillScript(t) \/ TearDownKilled(t)
             \/ TearDownTimesOut(t)
      PROVE  Accounts'
  <2>1. t \in Provisioners
    BY <1>5 DEF Down, KillScript, TearDownKilled, TearDownTimesOut, At,
                Provisioners
  <2>2. QED
    BY <1>1, <1>5, <2>1, EndingAccounts
<1>6. ASSUME NEW t \in Threads, Finally(t) PROVE Accounts'
  BY <1>1, <1>6, FinallyAccounts
<1>7. ASSUME NEW p \in Pods, PodDies(p) PROVE Accounts'
  BY <1>7, PodDiesAccounts
<1>8. ASSUME TunnelDrops PROVE Accounts'
  BY <1>8, TunnelDropsAccounts
<1>9. ASSUME Restart PROVE Accounts'
  BY <1>9, RestartAccounts
<1>10. ASSUME UNCHANGED vars PROVE Accounts'
  BY <1>10, QuietStep DEF vars, Ledger, TypeOK
<1>11. QED
  BY <1>2, <1>3, <1>4, <1>5, <1>6, <1>7, <1>8, <1>9, <1>10
     DEF Next, Proceed, Provision, Bystands

(* The inductive invariant of the provider, for a backend that starts with *)
(* no pod: the claim, who has which pod in hand, and the accounts.         *)
THEOREM ProviderInvariant ==
    ASSUME ~ Orchestrated
    PROVE  Spec => []PodInv
<1>1. Init => PodInv
  <2> SUFFICES ASSUME Init
               PROVE  PodInv
    OBVIOUS
  <2>1. TypeOK /\ SoleProvisioner /\ HandOnFile
    BY InitTypeOK DEF Init, SoleProvisioner, Provisioners, HandOnFile
  <2>2. alive = {}
    BY DEF Init
  <2>3. Adrift = {} /\ ~ Serving
    BY <2>2 DEF Init, Adrift, Serving
  <2>4. Cardinality(Adrift) <= faults
    BY <2>3, FS_EmptySet DEF Init
  <2>5. AdriftBound /\ VerifiedBound
    BY <2>2, <2>3, <2>4 DEF AdriftBound, VerifiedBound
  <2>6. QED
    BY <2>1, <2>5 DEF PodInv
<1>2. PodInv /\ [Next]_vars => PodInv'
  BY StepTypeOK, StepSoleProvisioner, StepHandOnFile, StepAccounts
     DEF PodInv, Ledger, Accounts
<1>3. QED
  BY <1>1, <1>2, PTL DEF Spec

(* However many callers, restarts and failures: the pods being billed are  *)
(* at most one more than the faults there have been, if the backend starts *)
(* with no pod of its orchestrator's.                                      *)
THEOREM PodsAreBounded ==
    ASSUME ~ Orchestrated
    PROVE  Spec => []PodBound
<1>1. PodInv => PodBound
  <2> SUFFICES ASSUME PodInv
               PROVE  PodBound
    OBVIOUS
  <2>1. Ledger /\ Accounts
    BY DEF PodInv, Ledger, Accounts
  <2>2. QED
    BY <2>1, AliveBound DEF PodBound
<1>2. QED
  BY <1>1, ProviderInvariant, PTL

=============================================================================
