--------------------------- MODULE ScreeningProofs ---------------------------
(***************************************************************************)
(* What the lazily loaded models of Screening promise, for any number of   *)
(* request threads, layers and keys.  The bounds on the loads count the    *)
(* threads inside a loader: before anything is memoised these are all the  *)
(* loads there were, and afterwards nobody enters any more.                *)
(***************************************************************************)
EXTENDS Screening, FiniteSetTheorems, TLAPS

(* The types that the arguments below need.                                *)
ThreadsOK ==
    /\ busy \subseteq Loaders
    /\ at \in [Loaders -> 1 .. Len(Layers) + 1]
    /\ pc \in [Threads -> {"idle", "screen", "answer"}]
    /\ ask \in [Threads -> Keys \cup {NoKey}]
    /\ verdict \in [Threads -> {"pending", "allow", "block"}]
    /\ gate \in [Threads -> {"start", "loading", "done"}]
ModelsOK ==
    /\ memo \in [Layer2 -> {"empty", "model", "missing"}]
    /\ clip \in {"untried", "model", "unavailable"}
    /\ loads \in [Layer2 \cup {"clip"} -> Nat]
ScreensOK ==
    /\ cached \subseteq Keys
    /\ skipped \in [Threads -> SUBSET (Layer2 \cup {"llm"})]
    /\ waived \in [Keys -> SUBSET (Layer2 \cup {"llm"})]

(* ------------------------- the guard's models -------------------------- *)
InLoader(l) == {u \in busy : Reached(u) = l}

MemoKnown ==
    /\ \A u \in busy : InLayer2(u)
    /\ \A l \in Layer2 :
         /\ memo[l] = "empty" => l \notin good /\ loads[l] = Cardinality(InLoader(l))
         /\ memo[l] # "empty" => loads[l] > Cardinality(InLoader(l))
         /\ loads[l] <= Cardinality(Loaders)
         /\ memo[l] = "missing" /\ l \in good => loads[l] >= 2

(* ------------------------------ the gate's ----------------------------- *)
InClip == {t \in Threads : gate[t] = "loading"}

ClipKnown ==
    /\ \A t \in InClip : pc[t] = "screen"
    /\ clip = "untried" => "clip" \notin good /\ loads["clip"] = Cardinality(InClip)
    /\ clip # "untried" => loads["clip"] > Cardinality(InClip)
    /\ loads["clip"] <= Cardinality(Threads)
    /\ clip = "unavailable" /\ "clip" \in good => loads["clip"] >= 2

(* ----------------------- what a request got past ----------------------- *)
Passed(t) == {Layers[i] : i \in 1 .. at[t] - 1}

ScreensKnown ==
    /\ \A t \in Threads :
         /\ pc[t] # "idle" => ask[t] \in Keys
         /\ pc[t] # "screen" => at[t] = 1 /\ verdict[t] = "pending"
         /\ pc[t] = "screen" /\ verdict[t] = "pending"
              => Content[ask[t]].flags \cap Passed(t) \subseteq skipped[t]
         /\ pc[t] = "answer" \/ verdict[t] = "allow"
              => Content[ask[t]].flags \subseteq skipped[t]
    /\ \A k \in cached : Content[k].flags \subseteq waived[k]

IInv == ThreadsOK /\ ModelsOK /\ ScreensOK /\ MemoKnown /\ ClipKnown /\ ScreensKnown

-----------------------------------------------------------------------------

(* A layer is found at its place in the order.                             *)
LEMMA LayerFacts ==
    /\ Len(Layers) \in Nat
    /\ \A i \in 1 .. Len(Layers) : Layers[i] \in Layer2
    /\ Layer2 = {Layers[i] : i \in 1 .. Len(Layers)}
    /\ "clip" \notin Layer2 /\ "llm" \notin Layer2
  <1>1. Layers \in Seq(STRING)
    BY ScreeningAssumption
  <1>2. Len(Layers) \in Nat /\ DOMAIN Layers = 1 .. Len(Layers)
    BY <1>1
  <1>3. Layer2 = {Layers[i] : i \in 1 .. Len(Layers)}
    BY <1>2 DEF Layer2, Range
  <1>4. "clip" \notin Layer2 /\ "llm" \notin Layer2
    BY ScreeningAssumption
  <1> QED BY <1>2, <1>3, <1>4

(* The loaders are the threads and the boot thread, and finitely many.     *)
LEMMA Finite ==
    ASSUME ThreadsOK
    PROVE  /\ IsFiniteSet(Loaders) /\ IsFiniteSet(Threads)
           /\ Cardinality(Loaders) = Cardinality(Threads) + 1
           /\ Cardinality(Threads) \in Nat
           /\ \A l : /\ IsFiniteSet(InLoader(l)) /\ Cardinality(InLoader(l)) \in Nat
                     /\ Cardinality(InLoader(l)) <= Cardinality(Loaders)
           /\ IsFiniteSet(InClip) /\ Cardinality(InClip) \in Nat
           /\ Cardinality(InClip) <= Cardinality(Threads)
  <1>1. IsFiniteSet(Threads) /\ Boot \notin Threads
    BY ScreeningAssumption
  <1>2. Cardinality(Threads) \in Nat
    BY <1>1, FS_CardinalityType
  <1>3. IsFiniteSet(Loaders) /\ Cardinality(Loaders) = Cardinality(Threads) + 1
    BY <1>1, FS_AddElement DEF Loaders
  <1>4. \A l : InLoader(l) \in SUBSET Loaders
    BY DEF InLoader, ThreadsOK
  <1>5. \A l : /\ IsFiniteSet(InLoader(l)) /\ Cardinality(InLoader(l)) <= Cardinality(Loaders)
               /\ Cardinality(InLoader(l)) \in Nat
    BY <1>3, <1>4, FS_Subset, FS_CardinalityType
  <1>6. InClip \in SUBSET Threads
    BY DEF InClip
  <1>7. /\ IsFiniteSet(InClip) /\ Cardinality(InClip) <= Cardinality(Threads)
        /\ Cardinality(InClip) \in Nat
    BY <1>1, <1>6, FS_Subset, FS_CardinalityType
  <1> QED BY <1>1, <1>2, <1>3, <1>5, <1>7

(* A step that leaves the memos alone and moves no thread out of a loader. *)
LEMMA MemoAside ==
    ASSUME MemoKnown, memo' = memo, busy' = busy,
           \A l \in Layer2 : loads'[l] = loads[l] /\ (l \in good' <=> l \in good),
           \A u \in busy : /\ at'[u] = at[u]
                           /\ u \in Threads => pc'[u] = "screen" /\ verdict'[u] = "pending"
    PROVE  MemoKnown'
  <1>1. \A l : InLoader(l)' = InLoader(l)
    BY DEF InLoader, Reached
  <1>2. \A u \in busy : InLayer2(u)'
    BY DEF MemoKnown, InLayer2
  <1> QED BY <1>1, <1>2 DEF MemoKnown

(* A thread that enters a loader is one more inside, and one more load.    *)
LEMMA EnterMemo ==
    ASSUME ThreadsOK, ModelsOK, MemoKnown, NEW u \in Loaders, EnterLoader(u)
    PROVE  MemoKnown'
  <1>0. PICK m \in Layer2 : m = Reached(u)
    BY LayerFacts DEF EnterLoader, InLayer2, Reached, ThreadsOK
  <1>1. /\ InLayer2(u) /\ u \notin busy /\ memo[m] = "empty"
        /\ busy' = busy \cup {u} /\ loads' = [loads EXCEPT ![m] = @ + 1]
        /\ UNCHANGED <<memo, at, verdict, pc, good>>
    BY <1>0 DEF EnterLoader, gateVars
  <1>2. m \in Layer2 /\ m = Reached(u)
    BY <1>0
  <1>3. InLoader(m)' = InLoader(m) \cup {u} /\ u \notin InLoader(m)
    BY <1>1, <1>2 DEF InLoader, Reached
  <1>4. \A l \in Layer2 \ {m} : InLoader(l)' = InLoader(l)
    BY <1>1, <1>2 DEF InLoader, Reached
  <1>5. Cardinality(InLoader(m)') = Cardinality(InLoader(m)) + 1
    BY <1>3, Finite, FS_AddElement
  <1>6. InLoader(m)' \in SUBSET Loaders
    BY <1>1 DEF InLoader, ThreadsOK
  <1>7. Cardinality(InLoader(m)') <= Cardinality(Loaders)
    BY <1>6, Finite, FS_Subset
  <1>8. \A v \in busy' : InLayer2(v)'
    BY <1>1 DEF MemoKnown, InLayer2
  <1>9. loads'[m] = Cardinality(InLoader(m)')
    BY <1>1, <1>2, <1>5 DEF MemoKnown, ModelsOK
  <1>10. ASSUME NEW l \in Layer2
         PROVE  /\ memo'[l] = "empty" => l \notin good' /\ loads'[l] = Cardinality(InLoader(l)')
                /\ memo'[l] # "empty" => loads'[l] > Cardinality(InLoader(l)')
                /\ loads'[l] <= Cardinality(Loaders)
                /\ memo'[l] = "missing" /\ l \in good' => loads'[l] >= 2
    <2>1. CASE l = m
      <3>1. memo'[m] = "empty" /\ m \notin good'
        BY <1>1, <1>2 DEF MemoKnown
      <3>2. loads'[m] = Cardinality(InLoader(m)') /\ loads'[m] <= Cardinality(Loaders)
        BY <1>7, <1>9
      <3> QED BY <2>1, <3>1, <3>2
    <2>2. CASE l # m
      <3>1. loads'[l] = loads[l]
        BY <1>1, <1>2, <2>2 DEF ModelsOK
      <3> QED BY <2>2, <3>1, <1>1, <1>4 DEF MemoKnown
    <2> QED BY <2>1, <2>2
  <1> QED BY <1>8, <1>10 DEF MemoKnown

(* What a thread does when it has the model, or None.                      *)
LEMMA UseModelFacts ==
    ASSUME ThreadsOK, NEW u \in Loaders, NEW model, UseModel(u, model), at[u] <= Len(Layers)
    PROVE  /\ at' = at \/ at' = [at EXCEPT ![u] = @ + 1]
           /\ verdict' = verdict \/ (u \in Threads /\ verdict' = [verdict EXCEPT ![u] = "block"])
  <1>1. CASE u = Boot
    BY <1>1 DEF UseModel
  <1>2. CASE u # Boot
    <2>1. PICK answers : Judge(u, Reached(u), answers)
      BY <1>2 DEF UseModel
    <2>2. u \in Threads
      BY <1>2 DEF Loaders
    <2>3. \/ verdict' = [verdict EXCEPT ![u] = "block"] /\ at' = at
          \/ at' = [at EXCEPT ![u] = @ + 1] /\ verdict' = verdict
      BY <2>1, Zenon DEF Judge
    <2> QED BY <2>2, <2>3
  <1> QED BY <1>1, <1>2

(* A thread that leaves fills the memo, unless another has filled it.      *)
LEMMA LeaveMemo ==
    ASSUME ThreadsOK, ModelsOK, MemoKnown, NEW u \in Loaders, LeaveLoader(u)
    PROVE  MemoKnown'
  <1>0. PICK m \in Layer2 : m = Reached(u)
    BY LayerFacts DEF LeaveLoader, MemoKnown, InLayer2, Reached, ThreadsOK
  <1>1. PICK loaded \in {"model", "missing"} :
          /\ memo' = [memo EXCEPT ![m] = IF @ = "empty" THEN loaded ELSE @]
          /\ good' = IF loaded = "model" THEN good \cup {m} ELSE good
          /\ UseModel(u, loaded)
    BY <1>0 DEF LeaveLoader
  <1>2. u \in busy /\ busy' = busy \ {u} /\ pc' = pc /\ loads' = loads
    BY DEF LeaveLoader
  <1>3. InLayer2(u) /\ m \in Layer2
    BY <1>0, <1>2 DEF MemoKnown
  <1>4. \A v \in busy' : at'[v] = at[v] /\ (v \in Threads => verdict'[v] = verdict[v])
    <2>1. \A v \in busy' : v # u /\ v \in Loaders
      BY <1>2 DEF ThreadsOK
    <2>2. /\ at' = at \/ at' = [at EXCEPT ![u] = @ + 1]
          /\ verdict' = verdict \/ verdict' = [verdict EXCEPT ![u] = "block"]
      BY <1>1, <1>3, UseModelFacts DEF InLayer2
    <2> QED BY <2>1, <2>2 DEF ThreadsOK
  <1>5. \A v \in busy' : InLayer2(v)'
    BY <1>2, <1>4 DEF MemoKnown, InLayer2
  <1>a. \A v \in busy' : Reached(v)' = Reached(v)
    BY <1>4 DEF Reached
  <1>6. InLoader(m)' = InLoader(m) \ {u} /\ u \in InLoader(m)
    <2>1. u \in InLoader(m)
      BY <1>0, <1>2 DEF InLoader
    <2>2. InLoader(m)' \subseteq InLoader(m) \ {u}
      BY <1>2, <1>a DEF InLoader
    <2>3. InLoader(m) \ {u} \subseteq InLoader(m)'
      BY <1>2, <1>a DEF InLoader
    <2> QED BY <2>1, <2>2, <2>3
  <1>7. \A l \in Layer2 \ {m} : InLoader(l)' = InLoader(l)
    BY <1>0, <1>2, <1>a DEF InLoader
  <1>8. Cardinality(InLoader(m)') = Cardinality(InLoader(m)) - 1
    BY <1>6, Finite, FS_RemoveElement
  <1>9. Cardinality(InLoader(m)) >= 1 /\ Cardinality(InLoader(m)) \in Nat
    BY <1>6, Finite, FS_EmptySet
  <1>10. ASSUME NEW l \in Layer2
         PROVE  /\ memo'[l] = "empty" => l \notin good' /\ loads'[l] = Cardinality(InLoader(l)')
                /\ memo'[l] # "empty" => loads'[l] > Cardinality(InLoader(l)')
                /\ loads'[l] <= Cardinality(Loaders)
                /\ memo'[l] = "missing" /\ l \in good' => loads'[l] >= 2
    <2>1. CASE l = m
      <3>1. memo'[m] # "empty"
        BY <1>1, <1>3 DEF ModelsOK
      <3>2. loads[m] \in Nat /\ loads[m] > Cardinality(InLoader(m)) - 1
        BY <1>3, <1>9 DEF MemoKnown, ModelsOK
      <3>3. ASSUME memo'[m] = "missing", m \in good' PROVE loads[m] >= 2
        <4>1. CASE memo[m] = "empty"
          BY <4>1, <3>3, <1>1, <1>3 DEF MemoKnown, ModelsOK
        <4>2. CASE memo[m] # "empty"
          BY <4>2, <1>3, <1>9 DEF MemoKnown, ModelsOK
        <4> QED BY <4>1, <4>2
      <3>4. loads[m] > Cardinality(InLoader(m)') /\ loads[m] <= Cardinality(Loaders)
        BY <3>2, <1>3, <1>8 DEF MemoKnown
      <3> QED BY <2>1, <3>1, <3>3, <3>4, <1>2
    <2>2. CASE l # m
      <3>1. memo'[l] = memo[l] /\ (l \in good' <=> l \in good)
        BY <1>1, <1>3, <2>2 DEF ModelsOK
      <3> QED BY <2>2, <3>1, <1>2, <1>7 DEF MemoKnown
    <2> QED BY <2>1, <2>2
  <1> QED BY <1>5, <1>10 DEF MemoKnown

(* What is known of the guard's memos holds after every step.              *)
LEMMA MemoStep == ASSUME ThreadsOK, ModelsOK, MemoKnown, Next PROVE MemoKnown'
  <1>0. \A u \in busy \cap Threads : pc[u] = "screen" /\ verdict[u] = "pending"
    BY DEF MemoKnown, InLayer2
  <1>c. "clip" \notin Layer2
    BY LayerFacts
  <1>1. ASSUME NEW t \in Threads, Ask(t) PROVE MemoKnown'
    <2>1. t \notin busy
      BY <1>0, <1>1 DEF Ask
    <2> QED BY <1>0, <1>1, <2>1, MemoAside DEF Ask, guardVars, ThreadsOK
  <1>2. ASSUME NEW t \in Threads, AskLlm(t) PROVE MemoKnown'
    <2>1. t \notin busy
      BY <1>2, LayerFacts DEF AskLlm, MemoKnown, InLayer2
    <2>2. \A u \in busy \cap Threads : verdict'[u] = verdict[u]
      BY <1>2, <2>1 DEF AskLlm, ThreadsOK
    <2> QED BY <1>0, <1>2, <2>2, MemoAside DEF AskLlm
  <1>3. ASSUME NEW t \in Threads, EnterClip(t) PROVE MemoKnown'
    <2>1. \A l \in Layer2 : loads'[l] = loads[l]
      BY <1>3, <1>c DEF EnterClip, ModelsOK
    <2> QED BY <1>0, <1>3, <2>1, MemoAside DEF EnterClip, guardVars
  <1>4. ASSUME NEW t \in Threads, LeaveClip(t) PROVE MemoKnown'
    <2>1. \A l \in Layer2 : l \in good' <=> l \in good
      BY <1>4, <1>c DEF LeaveClip
    <2> QED BY <1>0, <1>4, <2>1, MemoAside DEF LeaveClip, guardVars
  <1>5. ASSUME NEW t \in Threads, UseClip(t) PROVE MemoKnown'
    BY <1>0, <1>5, MemoAside DEF UseClip, guardVars
  <1>6. ASSUME NEW t \in Threads, Block(t) \/ Allow(t) PROVE MemoKnown'
    <2>1. t \notin busy
      BY <1>0, <1>6 DEF Block, Allow, Screened
    <2>2. \A u \in busy : u # t /\ at'[u] = at[u]
      BY <1>6, <2>1 DEF Block, Allow, ScreensEnd, ThreadsOK
    <2>3. \A u \in busy \cap Threads : pc'[u] = pc[u] /\ verdict'[u] = verdict[u]
      BY <1>6, <2>2 DEF Block, Allow, ScreensEnd, RequestEnds, ThreadsOK
    <2>4. memo' = memo /\ busy' = busy /\ loads' = loads /\ good' = good
      BY <1>6 DEF Block, Allow, ScreensEnd
    <2> QED BY <1>0, <2>2, <2>3, <2>4, MemoAside
  <1>7. ASSUME NEW t \in Threads, Put(t) \/ NoAnswer(t) PROVE MemoKnown'
    <2>1. t \notin busy
      BY <1>0, <1>7 DEF Put, NoAnswer
    <2>2. \A u \in busy \cap Threads : pc'[u] = pc[u]
      BY <1>7, <2>1 DEF Put, NoAnswer, RequestEnds, ThreadsOK
    <2>3. UNCHANGED <<memo, busy, at, verdict, loads, good>>
      BY <1>7 DEF Put, NoAnswer
    <2> QED BY <1>0, <2>2, <2>3, MemoAside
  <1>8. ASSUME NEW u \in Loaders, UseMemo(u) PROVE MemoKnown'
    <2>1. u \notin busy /\ UNCHANGED <<memo, busy, pc, loads, good>>
      BY <1>8 DEF UseMemo
    <2>2. /\ at' = at \/ at' = [at EXCEPT ![u] = @ + 1]
          /\ verdict' = verdict \/ verdict' = [verdict EXCEPT ![u] = "block"]
      BY <1>8, UseModelFacts DEF UseMemo, InLayer2
    <2>3. \A v \in busy : at'[v] = at[v] /\ (v \in Threads => verdict'[v] = verdict[v])
      BY <2>1, <2>2 DEF ThreadsOK
    <2> QED BY <1>0, <2>1, <2>3, MemoAside
  <1>9. CASE Forget
    BY <1>0, <1>9, MemoAside DEF Forget, guardVars
  <1> QED
    BY <1>1, <1>2, <1>3, <1>4, <1>5, <1>6, <1>7, <1>8, <1>9, EnterMemo, LeaveMemo
       DEF Next, Request, Load

(* A step that leaves the singleton alone and moves nobody into its load   *)
(* or out of it.                                                           *)
LEMMA ClipAside ==
    ASSUME ClipKnown, clip' = clip, InClip' = InClip, loads'["clip"] = loads["clip"],
           "clip" \in good' <=> "clip" \in good, \A t \in InClip : pc'[t] = pc[t]
    PROVE  ClipKnown'
  BY DEF ClipKnown

(* The same for the CLIP global: a thread enters its loader,               *)
LEMMA EnterClipStep ==
    ASSUME ThreadsOK, ModelsOK, ClipKnown, NEW t \in Threads, EnterClip(t)
    PROVE  ClipKnown'
  <1>1. InClip' = InClip \cup {t} /\ t \notin InClip
    BY DEF EnterClip, InClip, ThreadsOK
  <1>2. Cardinality(InClip') = Cardinality(InClip) + 1
    BY <1>1, Finite, FS_AddElement
  <1>3. InClip' \in SUBSET Threads
    BY DEF InClip
  <1>4. Cardinality(InClip') <= Cardinality(Threads)
    BY <1>3, Finite, FS_Subset
  <1>5. loads'["clip"] = Cardinality(InClip')
    BY <1>2 DEF EnterClip, ClipKnown, ModelsOK
  <1>6. clip' = "untried" /\ "clip" \notin good'
    BY DEF EnterClip, ClipKnown
  <1>7. \A u \in InClip' : pc'[u] = "screen"
    BY <1>1 DEF EnterClip, ClipKnown
  <1> QED BY <1>4, <1>5, <1>6, <1>7 DEF ClipKnown

(* or leaves it and overwrites whatever was there.                         *)
LEMMA LeaveClipStep ==
    ASSUME ThreadsOK, ModelsOK, ClipKnown, NEW t \in Threads, LeaveClip(t)
    PROVE  ClipKnown'
  <1>1. PICK loaded \in {"model", "unavailable"} :
          /\ clip' = loaded
          /\ good' = IF loaded = "model" THEN good \cup {"clip"} ELSE good
          /\ gate' = [gate EXCEPT ![t] = "done"]
    BY DEF LeaveClip, GateReturns
  <1>2. gate[t] = "loading" /\ pc' = pc /\ loads' = loads
    BY DEF LeaveClip
  <1>3. InClip' = InClip \ {t} /\ t \in InClip
    BY <1>1, <1>2 DEF InClip, ThreadsOK
  <1>4. Cardinality(InClip') = Cardinality(InClip) - 1
    BY <1>3, Finite, FS_RemoveElement
  <1>5. Cardinality(InClip) >= 1 /\ Cardinality(InClip) \in Nat
    BY <1>3, Finite, FS_EmptySet
  <1>6. loads["clip"] \in Nat /\ loads["clip"] >= Cardinality(InClip)
    BY <1>5 DEF ClipKnown, ModelsOK
  <1>7. loads'["clip"] > Cardinality(InClip')
    BY <1>2, <1>4, <1>5, <1>6
  <1>8. ASSUME clip' = "unavailable", "clip" \in good' PROVE loads["clip"] >= 2
    <2>1. "clip" \in good
      BY <1>1, <1>8
    <2>2. clip # "untried"
      BY <2>1 DEF ClipKnown
    <2> QED BY <2>2, <1>5, <1>6 DEF ClipKnown
  <1>9. \A u \in InClip' : pc'[u] = "screen"
    BY <1>2, <1>3 DEF ClipKnown
  <1> QED BY <1>1, <1>2, <1>7, <1>8, <1>9 DEF ClipKnown

(* What is known of the CLIP global holds after every step.                *)
LEMMA ClipStep == ASSUME ThreadsOK, ModelsOK, MemoKnown, ClipKnown, Next PROVE ClipKnown'
  <1>0. \A t \in InClip : pc[t] = "screen" /\ gate[t] = "loading" /\ t \in Threads
    BY DEF ClipKnown, InClip
  <1>1. ASSUME NEW t \in Threads, Ask(t) PROVE ClipKnown'
    <2>1. InClip' = InClip /\ t \notin InClip
      BY <1>0, <1>1 DEF Ask, gateVars, InClip
    <2> QED BY <1>1, <2>1, <1>0, ClipAside DEF Ask, gateVars, ThreadsOK
  <1>2. ASSUME NEW t \in Threads, AskLlm(t) PROVE ClipKnown'
    BY <1>2, ClipAside DEF AskLlm, gateVars, InClip
  <1>3. ASSUME NEW t \in Threads, UseClip(t) PROVE ClipKnown'
    <2>1. InClip' = InClip
      BY <1>3 DEF UseClip, GateReturns, InClip, ThreadsOK
    <2> QED BY <1>3, <2>1, ClipAside DEF UseClip
  <1>4. ASSUME NEW t \in Threads, Block(t) \/ Allow(t) PROVE ClipKnown'
    <2>1. InClip' = InClip /\ t \notin InClip
      BY <1>4 DEF Block, Allow, Screened, ScreensEnd, InClip, ThreadsOK
    <2>2. \A u \in InClip : pc'[u] = pc[u]
      BY <1>0, <1>4, <2>1 DEF Block, Allow, RequestEnds, ThreadsOK
    <2>3. clip' = clip /\ loads' = loads /\ good' = good
      BY <1>4 DEF Block, Allow, ScreensEnd
    <2> QED BY <2>1, <2>2, <2>3, ClipAside
  <1>5. ASSUME NEW t \in Threads, Put(t) \/ NoAnswer(t) PROVE ClipKnown'
    <2>1. InClip' = InClip /\ t \notin InClip
      BY <1>0, <1>5 DEF Put, NoAnswer, gateVars, InClip
    <2>2. \A u \in InClip : pc'[u] = pc[u]
      BY <1>0, <1>5, <2>1 DEF Put, NoAnswer, RequestEnds, ThreadsOK
    <2> QED BY <1>5, <2>1, <2>2, ClipAside DEF Put, NoAnswer, gateVars
  <1>6. ASSUME NEW u \in Loaders, Load(u) PROVE ClipKnown'
    <2>1. UNCHANGED <<clip, gate, pc>> /\ InClip' = InClip
      BY <1>6 DEF Load, EnterLoader, LeaveLoader, UseMemo, gateVars, InClip
    <2>2. u \in busy \/ InLayer2(u)
      BY <1>6 DEF Load, EnterLoader, LeaveLoader, UseMemo
    <2>3. Reached(u) \in Layer2 /\ Reached(u) # "clip"
      BY <2>2, LayerFacts DEF MemoKnown, InLayer2, Reached, ThreadsOK
    <2>4. loads'["clip"] = loads["clip"]
      BY <1>6, <2>3 DEF Load, EnterLoader, LeaveLoader, UseMemo, ModelsOK
    <2>5. "clip" \in good' <=> "clip" \in good
      BY <1>6, <2>3 DEF Load, EnterLoader, LeaveLoader, UseMemo
    <2> QED BY <2>1, <2>4, <2>5, ClipAside
  <1>7. CASE Forget
    BY <1>7, ClipAside DEF Forget, gateVars, InClip
  <1> QED
    BY <1>1, <1>2, <1>3, <1>4, <1>5, <1>6, <1>7, EnterClipStep, LeaveClipStep
       DEF Next, Request

(* -------------------------- types of a step ---------------------------- *)

(* A judged layer blocks the question, or is passed with a note of what it *)
(* would have flagged.                                                     *)
LEMMA JudgeFacts ==
    ASSUME ThreadsOK, ScreensOK, NEW u \in Loaders, NEW model,
           UseModel(u, model), at[u] <= Len(Layers)
    PROVE  \/ /\ u = Boot /\ at' = [at EXCEPT ![u] = @ + 1]
              /\ UNCHANGED <<verdict, skipped>>
           \/ /\ u \in Threads /\ verdict' = [verdict EXCEPT ![u] = "block"]
              /\ UNCHANGED <<at, skipped>>
           \/ /\ u \in Threads /\ at' = [at EXCEPT ![u] = @ + 1] /\ UNCHANGED verdict
              /\ skipped' = [skipped EXCEPT ![u] =
                                @ \cup ({Reached(u)} \cap Content[ask[u]].flags)]
  <1>1. CASE u = Boot
    BY <1>1 DEF UseModel
  <1>2. CASE u # Boot
    <2>1. PICK answers : Judge(u, Reached(u), answers)
      BY <1>2 DEF UseModel
    <2>2. u \in Threads
      BY <1>2 DEF Loaders
    <2> QED BY <2>1, <2>2, Zenon DEF Judge
  <1> QED BY <1>1, <1>2

(* A load keeps the types.                                                 *)
LEMMA LoadTypes ==
    ASSUME ThreadsOK, ModelsOK, ScreensOK, MemoKnown, NEW u \in Loaders, Load(u)
    PROVE  ThreadsOK' /\ ModelsOK' /\ ScreensOK'
  <1>1. InLayer2(u) /\ at[u] <= Len(Layers) /\ Reached(u) \in Layer2
    <2>1. u \in busy \/ InLayer2(u)
      BY DEF Load, EnterLoader, LeaveLoader, UseMemo
    <2>2. InLayer2(u)
      BY <2>1 DEF MemoKnown
    <2> QED BY <2>2, LayerFacts DEF InLayer2, Reached, ThreadsOK
  <1>2. CASE EnterLoader(u)
    <2>1. ThreadsOK'
      BY <1>2 DEF EnterLoader, gateVars, ThreadsOK
    <2>2. ModelsOK'
      BY <1>1, <1>2 DEF EnterLoader, gateVars, ModelsOK
    <2> QED BY <1>2, <2>1, <2>2 DEF EnterLoader, ScreensOK
  <1>3. CASE LeaveLoader(u) \/ UseMemo(u)
    <2>1. PICK model : UseModel(u, model)
      BY <1>3 DEF LeaveLoader, UseMemo
    <2>2. at[u] + 1 \in 1 .. Len(Layers) + 1
      BY <1>1, LayerFacts DEF ThreadsOK
    <2>3. at' \in [Loaders -> 1 .. Len(Layers) + 1]
      BY <1>1, <2>1, <2>2, JudgeFacts DEF ThreadsOK
    <2>4. verdict' \in [Threads -> {"pending", "allow", "block"}]
      BY <1>1, <2>1, JudgeFacts DEF ThreadsOK
    <2>5. skipped' \in [Threads -> SUBSET (Layer2 \cup {"llm"})]
      BY <1>1, <2>1, JudgeFacts DEF ScreensOK
    <2>6. UNCHANGED <<pc, ask, gate, clip, loads, cached, waived>> /\ busy' \subseteq busy
      BY <1>3 DEF LeaveLoader, UseMemo, gateVars
    <2>7. memo' \in [Layer2 -> {"empty", "model", "missing"}]
      BY <1>3 DEF LeaveLoader, UseMemo, ModelsOK
    <2>8. ThreadsOK'
      BY <2>3, <2>4, <2>6 DEF ThreadsOK
    <2>9. ModelsOK'
      BY <2>6, <2>7 DEF ModelsOK
    <2> QED BY <2>5, <2>6, <2>8, <2>9 DEF ScreensOK
  <1> QED BY <1>2, <1>3 DEF Load

(* A step of a request keeps the types.                                    *)
LEMMA RequestTypes ==
    ASSUME ThreadsOK, ModelsOK, ScreensOK, ScreensKnown, NEW t \in Threads, Request(t)
    PROVE  ThreadsOK' /\ ModelsOK' /\ ScreensOK'
  <1>0. t \in Loaders /\ 1 \in 1 .. Len(Layers) + 1
    BY LayerFacts DEF Loaders
  <1>1. CASE Ask(t)
    BY <1>1 DEF Ask, guardVars, gateVars, ThreadsOK, ModelsOK, ScreensOK
  <1>2. CASE AskLlm(t)
    <2>1. /\ verdict' \in {[verdict EXCEPT ![t] = "block"], [verdict EXCEPT ![t] = "allow"]}
          /\ \/ skipped' = skipped
             \/ skipped' = [skipped EXCEPT ![t] =
                               @ \cup ({"llm"} \cap Content[ask[t]].flags)]
      BY <1>2 DEF AskLlm
    <2>2. skipped' \in [Threads -> SUBSET (Layer2 \cup {"llm"})]
      BY <2>1 DEF ScreensOK
    <2>3. verdict' \in [Threads -> {"pending", "allow", "block"}]
      BY <2>1 DEF ThreadsOK
    <2> QED BY <1>2, <2>2, <2>3 DEF AskLlm, gateVars, ThreadsOK, ModelsOK, ScreensOK
  <1>3. CASE EnterClip(t) \/ LeaveClip(t) \/ UseClip(t)
    <2>1. gate' \in [Threads -> {"start", "loading", "done"}]
      BY <1>3 DEF EnterClip, LeaveClip, UseClip, GateReturns, ThreadsOK
    <2>2. clip' \in {"untried", "model", "unavailable"}
      BY <1>3 DEF EnterClip, LeaveClip, UseClip, ModelsOK
    <2>3. loads' \in [Layer2 \cup {"clip"} -> Nat]
      BY <1>3 DEF EnterClip, LeaveClip, UseClip, ModelsOK
    <2>4. UNCHANGED <<cached, guardVars, pc, ask, waived>>
      BY <1>3 DEF EnterClip, LeaveClip, UseClip
    <2> QED BY <2>1, <2>2, <2>3, <2>4 DEF guardVars, ThreadsOK, ModelsOK, ScreensOK
  <1>4. CASE Block(t) \/ Allow(t)
    <2>1. at' = [at EXCEPT ![t] = 1] /\ UNCHANGED <<memo, busy, clip, loads, cached, waived>>
      BY <1>4 DEF Block, Allow, ScreensEnd
    <2>2. at' \in [Loaders -> 1 .. Len(Layers) + 1]
      BY <1>0, <2>1 DEF ThreadsOK
    <2>3. /\ verdict' \in [Threads -> {"pending", "allow", "block"}]
          /\ gate' \in [Threads -> {"start", "loading", "done"}]
          /\ pc' \in [Threads -> {"idle", "screen", "answer"}]
      BY <1>4 DEF Block, Allow, ScreensEnd, RequestEnds, ThreadsOK
    <2>4. ask' \in [Threads -> Keys \cup {NoKey}]
      BY <1>4 DEF Block, Allow, RequestEnds, ThreadsOK
    <2>5. skipped' \in [Threads -> SUBSET (Layer2 \cup {"llm"})]
      BY <1>4 DEF Block, Allow, RequestEnds, ScreensOK
    <2> QED BY <2>1, <2>2, <2>3, <2>4, <2>5 DEF ThreadsOK, ModelsOK, ScreensOK
  <1>5. CASE Put(t) \/ NoAnswer(t)
    <2>1. UNCHANGED <<memo, at, busy, verdict, clip, gate, loads>>
      BY <1>5 DEF Put, NoAnswer, gateVars
    <2>2. /\ pc' \in [Threads -> {"idle", "screen", "answer"}]
          /\ ask' \in [Threads -> Keys \cup {NoKey}]
      BY <1>5 DEF Put, NoAnswer, RequestEnds, ThreadsOK
    <2>3. skipped' \in [Threads -> SUBSET (Layer2 \cup {"llm"})]
      BY <1>5 DEF Put, NoAnswer, RequestEnds, ScreensOK
    <2>4. ask[t] \in Keys
      BY <1>5 DEF Put, NoAnswer, ScreensKnown
    <2>5. cached' \subseteq Keys /\ waived' \in [Keys -> SUBSET (Layer2 \cup {"llm"})]
      BY <1>5, <2>4 DEF Put, NoAnswer, ScreensOK
    <2> QED BY <2>1, <2>2, <2>3, <2>5 DEF ThreadsOK, ModelsOK, ScreensOK
  <1> QED BY <1>1, <1>2, <1>3, <1>4, <1>5 DEF Request

(* ------------------------- what got past whom -------------------------- *)
ThreadKnown(t) ==
    /\ pc[t] # "idle" => ask[t] \in Keys
    /\ pc[t] # "screen" => at[t] = 1 /\ verdict[t] = "pending"
    /\ pc[t] = "screen" /\ verdict[t] = "pending"
         => Content[ask[t]].flags \cap Passed(t) \subseteq skipped[t]
    /\ pc[t] = "answer" \/ verdict[t] = "allow" => Content[ask[t]].flags \subseteq skipped[t]

(* What is not touched of a request says the same of it.                   *)
LEMMA ThreadAside ==
    ASSUME NEW t, ThreadKnown(t), pc'[t] = pc[t], ask'[t] = ask[t], at'[t] = at[t],
           verdict'[t] = verdict[t], skipped'[t] = skipped[t]
    PROVE  ThreadKnown(t)'
  <1>1. Passed(t)' = Passed(t)
    BY DEF Passed
  <1> QED BY <1>1 DEF ThreadKnown

(* At the first layer nothing has been passed yet; one more layer is one   *)
(* more layer passed; after the last of them, all have been.               *)
LEMMA PassedFacts ==
    ASSUME ThreadsOK, NEW t \in Threads
    PROVE  /\ at[t] = 1 => Passed(t) = {}
           /\ at[t] = Len(Layers) + 1 => Passed(t) = Layer2
           /\ at'[t] = at[t] + 1 => Passed(t)' = Passed(t) \cup {Reached(t)}
           /\ at'[t] = 1 => Passed(t)' = {}
  <1>1. at[t] \in Nat /\ at[t] >= 1 /\ Len(Layers) \in Nat
    BY LayerFacts DEF ThreadsOK, Loaders
  <1>2. at[t] = 1 => Passed(t) = {}
    BY DEF Passed
  <1>3. at'[t] = 1 => Passed(t)' = {}
    BY DEF Passed
  <1>4. at[t] = Len(Layers) + 1 => Passed(t) = Layer2
    BY <1>1, LayerFacts DEF Passed
  <1>5. ASSUME at'[t] = at[t] + 1 PROVE Passed(t)' = Passed(t) \cup {Reached(t)}
    <2>1. 1 .. at'[t] - 1 = (1 .. at[t] - 1) \cup {at[t]}
      BY <1>1, <1>5
    <2> QED BY <2>1 DEF Passed, Reached
  <1> QED BY <1>2, <1>3, <1>4, <1>5

(* A layer that a request passes either found nothing or was skipped, and  *)
(* then it is on its list.                                                 *)
LEMMA RequestScreens ==
    ASSUME ThreadsOK, ScreensOK, NEW t \in Threads, ThreadKnown(t), Request(t)
    PROVE  ThreadKnown(t)'
  <1>0. t \in Loaders
    BY DEF Loaders
  <1>1. CASE Ask(t)
    <2>1. pc[t] = "idle" /\ pc'[t] = "screen" /\ ask'[t] \in Keys
      BY <1>1 DEF Ask, ThreadsOK
    <2>2. at'[t] = 1 /\ verdict'[t] = "pending"
      BY <1>1, <2>1 DEF Ask, guardVars, ThreadKnown
    <2>3. Passed(t)' = {}
      BY <2>2, PassedFacts
    <2> QED BY <2>1, <2>2, <2>3 DEF ThreadKnown
  <1>2. CASE AskLlm(t)
    <2>1. /\ pc[t] = "screen" /\ verdict[t] = "pending" /\ at[t] = Len(Layers) + 1
          /\ UNCHANGED <<at, pc, ask>>
      BY <1>2 DEF AskLlm
    <2>2. Content[ask[t]].flags \cap Layer2 \subseteq skipped[t] /\ ask[t] \in Keys
      BY <2>1, PassedFacts DEF ThreadKnown
    <2>3. \/ verdict'[t] = "block"
          \/ /\ verdict'[t] = "allow"
             /\ skipped'[t] = skipped[t] \cup ({"llm"} \cap Content[ask[t]].flags)
      BY <1>2 DEF AskLlm, ThreadsOK, ScreensOK
    <2>4. Content[ask[t]].flags \subseteq Layer2 \cup {"llm"}
      BY <2>2, ScreeningAssumption
    <2>5. verdict'[t] = "allow" => Content[ask[t]].flags \subseteq skipped'[t]
      BY <2>2, <2>3, <2>4
    <2> QED BY <2>1, <2>2, <2>3, <2>5 DEF ThreadKnown
  <1>3. CASE EnterClip(t) \/ LeaveClip(t) \/ UseClip(t)
    <2>1. UNCHANGED <<pc, ask, at, verdict, skipped>>
      BY <1>3 DEF EnterClip, LeaveClip, UseClip, guardVars
    <2> QED BY <2>1, ThreadAside
  <1>4. CASE Block(t)
    <2>1. pc'[t] = "idle" /\ at'[t] = 1 /\ verdict'[t] = "pending"
      BY <1>0, <1>4 DEF Block, ScreensEnd, RequestEnds, ThreadsOK
    <2> QED BY <2>1 DEF ThreadKnown
  <1>5. CASE Allow(t)
    <2>1. /\ pc'[t] = "answer" /\ at'[t] = 1 /\ verdict'[t] = "pending"
          /\ ask'[t] = ask[t] /\ skipped'[t] = skipped[t]
      BY <1>0, <1>5 DEF Allow, ScreensEnd, ThreadsOK
    <2>2. verdict[t] = "allow" /\ pc[t] = "screen"
      BY <1>5 DEF Allow, Screened
    <2> QED BY <2>1, <2>2 DEF ThreadKnown
  <1>6. CASE Put(t) \/ NoAnswer(t)
    <2>1. pc'[t] = "idle" /\ pc[t] = "answer" /\ UNCHANGED <<at, verdict>>
      BY <1>6 DEF Put, NoAnswer, RequestEnds, ThreadsOK
    <2> QED BY <2>1 DEF ThreadKnown
  <1> QED BY <1>1, <1>2, <1>3, <1>4, <1>5, <1>6 DEF Request

(* A load that fails puts the layer on the list of the thread it leaves.   *)
LEMMA LoadScreens ==
    ASSUME ThreadsOK, ScreensOK, MemoKnown, NEW u \in Threads, ThreadKnown(u), Load(u)
    PROVE  ThreadKnown(u)'
  <1>0. u \in Loaders
    BY DEF Loaders
  <1>1. InLayer2(u)
    BY DEF Load, EnterLoader, LeaveLoader, UseMemo, MemoKnown
  <1>2. pc[u] = "screen" /\ verdict[u] = "pending" /\ at[u] <= Len(Layers)
    BY <1>1 DEF InLayer2
  <1>3. CASE EnterLoader(u)
    BY <1>3, ThreadAside DEF EnterLoader
  <1>4. CASE LeaveLoader(u) \/ UseMemo(u)
    <2>1. PICK model : UseModel(u, model)
      BY <1>4 DEF LeaveLoader, UseMemo
    <2>2. pc' = pc /\ ask' = ask
      BY <1>4 DEF LeaveLoader, UseMemo
    <2>3. u # Boot
      BY ScreeningAssumption
    <2>4. CASE verdict' = [verdict EXCEPT ![u] = "block"]
      <3>1. verdict'[u] = "block"
        BY <2>4 DEF ThreadsOK
      <3> QED BY <1>2, <2>2, <3>1 DEF ThreadKnown
    <2>5. CASE /\ at' = [at EXCEPT ![u] = @ + 1] /\ UNCHANGED verdict
               /\ skipped' = [skipped EXCEPT ![u] =
                                 @ \cup ({Reached(u)} \cap Content[ask[u]].flags)]
      <3>1. /\ at'[u] = at[u] + 1 /\ verdict'[u] = "pending"
            /\ skipped'[u] = skipped[u] \cup ({Reached(u)} \cap Content[ask[u]].flags)
        BY <1>0, <1>2, <2>5 DEF ThreadsOK, ScreensOK
      <3>2. Passed(u)' = Passed(u) \cup {Reached(u)}
        BY <3>1, PassedFacts
      <3>3. Content[ask[u]].flags \cap Passed(u)' \subseteq skipped'[u]
        BY <1>2, <3>1, <3>2 DEF ThreadKnown
      <3> QED BY <1>2, <2>2, <3>1, <3>3 DEF ThreadKnown
    <2> QED BY <1>0, <1>2, <2>1, <2>3, <2>4, <2>5, JudgeFacts
  <1> QED BY <1>3, <1>4 DEF Load

(* A step of one thread touches no other's request.                        *)
LEMMA OthersAside ==
    ASSUME ThreadsOK, ScreensOK, MemoKnown, NEW t \in Threads, NEW u \in Loaders, u # t,
           (u \in Threads /\ Request(u)) \/ Load(u)
    PROVE  /\ pc'[t] = pc[t] /\ ask'[t] = ask[t] /\ at'[t] = at[t]
           /\ verdict'[t] = verdict[t] /\ skipped'[t] = skipped[t]
  <1>0. t \in Loaders
    BY DEF Loaders
  <1>1. CASE Load(u)
    <2>1. InLayer2(u)
      BY <1>1 DEF Load, EnterLoader, LeaveLoader, UseMemo, MemoKnown
    <2>2. CASE EnterLoader(u)
      BY <2>2 DEF EnterLoader
    <2>3. CASE LeaveLoader(u) \/ UseMemo(u)
      <3>1. PICK model : UseModel(u, model)
        BY <2>3 DEF LeaveLoader, UseMemo
      <3>2. pc' = pc /\ ask' = ask
        BY <2>3 DEF LeaveLoader, UseMemo
      <3>3. at'[t] = at[t] /\ verdict'[t] = verdict[t] /\ skipped'[t] = skipped[t]
        BY <1>0, <2>1, <3>1, JudgeFacts DEF InLayer2, ThreadsOK, ScreensOK
      <3> QED BY <3>2, <3>3
    <2> QED BY <1>1, <2>2, <2>3 DEF Load
  <1>2. CASE u \in Threads /\ Request(u)
    <2>1. CASE Ask(u) \/ AskLlm(u)
      BY <1>0, <1>2, <2>1 DEF Ask, AskLlm, guardVars, ThreadsOK, ScreensOK
    <2>2. CASE EnterClip(u) \/ LeaveClip(u) \/ UseClip(u)
      BY <2>2 DEF EnterClip, LeaveClip, UseClip, guardVars
    <2>3. CASE Block(u) \/ Allow(u)
      BY <1>0, <1>2, <2>3 DEF Block, Allow, ScreensEnd, RequestEnds, ThreadsOK, ScreensOK
    <2>4. CASE Put(u) \/ NoAnswer(u)
      BY <1>0, <1>2, <2>4 DEF Put, NoAnswer, RequestEnds, ThreadsOK, ScreensOK
    <2> QED BY <1>2, <2>1, <2>2, <2>3, <2>4 DEF Request
  <1> QED BY <1>1, <1>2

(* What is put in the cache has passed every layer that flags it, but for  *)
(* those that were skipped for it.                                         *)
LEMMA CacheStep ==
    ASSUME ThreadsOK, ScreensOK, ScreensKnown, Next
    PROVE  \A k \in cached' : Content[k].flags \subseteq waived'[k]
  <1>1. ASSUME NEW t \in Threads, Put(t)
        PROVE  \A k \in cached' : Content[k].flags \subseteq waived'[k]
    <2>1. ask[t] \in Keys /\ Content[ask[t]].flags \subseteq skipped[t]
      BY <1>1 DEF Put, ScreensKnown
    <2>2. cached' = cached \cup {ask[t]} /\ waived' = [waived EXCEPT ![ask[t]] = skipped[t]]
      BY <1>1 DEF Put
    <2> QED BY <2>1, <2>2 DEF ScreensKnown, ScreensOK
  <1>2. CASE Forget
    BY <1>2 DEF Forget, ScreensKnown
  <1>3. ASSUME NEW t \in Threads, Request(t), ~ Put(t) PROVE UNCHANGED <<cached, waived>>
    BY <1>3 DEF Request, Ask, AskLlm, EnterClip, LeaveClip, UseClip, Block, Allow, NoAnswer
  <1>4. ASSUME NEW u \in Loaders, Load(u) PROVE UNCHANGED <<cached, waived>>
    BY <1>4 DEF Load, EnterLoader, LeaveLoader, UseMemo
  <1> QED BY <1>1, <1>2, <1>3, <1>4 DEF Next, ScreensKnown

(* What is known of verdicts and of the cache holds after every step.      *)
LEMMA ScreensStep ==
    ASSUME ThreadsOK, ScreensOK, MemoKnown, ScreensKnown, Next
    PROVE  ScreensKnown'
  <1>0. \A t \in Threads : ThreadKnown(t)
    BY DEF ScreensKnown, ThreadKnown
  <1>1. ASSUME NEW t \in Threads PROVE ThreadKnown(t)'
    <2>1. ASSUME NEW u \in Loaders, (u \in Threads /\ Request(u)) \/ Load(u)
          PROVE  ThreadKnown(t)'
      <3>1. CASE u = t
        BY <1>0, <2>1, <3>1, RequestScreens, LoadScreens
      <3>2. CASE u # t
        BY <1>0, <2>1, <3>2, OthersAside, ThreadAside
      <3> QED BY <3>1, <3>2
    <2>2. CASE Forget
      BY <1>0, <2>2, ThreadAside DEF Forget, guardVars
    <2> QED BY <2>1, <2>2 DEF Next, Loaders
  <1> QED BY <1>1, CacheStep DEF ScreensKnown, ThreadKnown

-----------------------------------------------------------------------------

(* The invariant holds at the start.                                       *)
LEMMA InitHolds == Init => IInv
  <1> SUFFICES ASSUME Init PROVE IInv
    OBVIOUS
  <1> USE DEF Init
  <1>1. ThreadsOK
    BY LayerFacts DEF ThreadsOK
  <1>2. ModelsOK /\ ScreensOK
    BY DEF ModelsOK, ScreensOK
  <1>3. MemoKnown
    <2>1. \A l : InLoader(l) = {}
      BY DEF InLoader
    <2>2. \A l \in Layer2 : memo[l] = "empty" /\ loads[l] = 0
      OBVIOUS
    <2>3. Cardinality(Loaders) >= 0
      BY <1>1, Finite
    <2> QED BY <2>1, <2>2, <2>3, FS_EmptySet DEF MemoKnown
  <1>4. ClipKnown
    <2>1. InClip = {} /\ loads["clip"] = 0
      BY DEF InClip
    <2> QED BY <1>1, <2>1, Finite, FS_EmptySet DEF ClipKnown
  <1>5. ScreensKnown
    <2>1. \A t \in Threads : pc[t] = "idle" /\ at[t] = 1 /\ verdict[t] = "pending"
      BY DEF Loaders
    <2> QED BY <2>1 DEF ScreensKnown
  <1> QED BY <1>1, <1>2, <1>3, <1>4, <1>5 DEF IInv

(* The invariant holds in every reachable state.                           *)
THEOREM InvariantHolds == Spec => []IInv
  <1>1. ASSUME IInv, [Next]_vars PROVE IInv'
    <2>1. CASE Next
      <3>1. ThreadsOK' /\ ModelsOK' /\ ScreensOK'
        <4>1. ASSUME NEW t \in Threads, Request(t) PROVE ThreadsOK' /\ ModelsOK' /\ ScreensOK'
          BY <1>1, <4>1, RequestTypes DEF IInv
        <4>2. ASSUME NEW u \in Loaders, Load(u) PROVE ThreadsOK' /\ ModelsOK' /\ ScreensOK'
          BY <1>1, <4>2, LoadTypes DEF IInv
        <4>3. CASE Forget
          BY <1>1, <4>3 DEF IInv, Forget, guardVars, gateVars, ThreadsOK, ModelsOK, ScreensOK
        <4> QED BY <2>1, <4>1, <4>2, <4>3 DEF Next
      <3> QED BY <1>1, <2>1, <3>1, MemoStep, ClipStep, ScreensStep DEF IInv
    <2>2. CASE UNCHANGED vars
      <3> USE <1>1, <2>2 DEF vars, guardVars, gateVars
      <3>1. ThreadsOK' /\ ModelsOK' /\ ScreensOK'
        BY DEF IInv, ThreadsOK, ModelsOK, ScreensOK
      <3>2. MemoKnown'
        BY MemoAside DEF IInv, MemoKnown, InLayer2
      <3>3. ClipKnown'
        BY ClipAside DEF IInv, InClip
      <3>4. \A t \in Threads : ThreadKnown(t)'
        BY ThreadAside DEF IInv, ScreensKnown, ThreadKnown
      <3>5. ScreensKnown'
        BY <3>4 DEF IInv, ScreensKnown, ThreadKnown
      <3> QED BY <3>1, <3>2, <3>3, <3>5 DEF IInv
    <2> QED BY <1>1, <2>1, <2>2
  <1> QED BY <1>1, InitHolds, PTL DEF Spec

(* However many threads meet before a model is there, each of them loads it*)
(* at most once, and nobody loads it after that.                           *)
THEOREM BoundOnLoads == Spec => []LoadsBounded
  <1>1. IInv => LoadsBounded
    BY Finite DEF IInv, MemoKnown, ClipKnown, LoadsBounded
  <1> QED BY <1>1, InvariantHolds, PTL

(* A model that could be loaded is given up only where loads overlapped.   *)
THEOREM LossNeedsTwoLoads == Spec => []LossNeedsRace
  <1>1. IInv => LossNeedsRace
    BY DEF IInv, MemoKnown, ClipKnown, LossNeedsRace
  <1> QED BY <1>1, InvariantHolds, PTL

(* A cached answer to a question that some layer flags is one that the     *)
(* layer did not answer for: for any layers, keys and number of requests.  *)
THEOREM CacheWasScreened == Spec => []UnscreenedOnlyDegraded
  <1>1. IInv => UnscreenedOnlyDegraded
    BY DEF IInv, ScreensKnown, UnscreenedOnlyDegraded
  <1> QED BY <1>1, InvariantHolds, PTL

(* ----------------------------- the verdicts ---------------------------- *)
GateOK ==
    /\ result \in [Threads -> Results]
    /\ good \subseteq Layer2 \cup {"clip"}

(* The palette score is a share of 1000, and falls with the colours.       *)
LEMMA PaletteFacts ==
    /\ \A k \in Keys : PaletteScore(Content[k]) \in 0 .. 1000
    /\ \A k \in Keys : Content[k].distinct <= MaxColors =>
         PaletteScore(Content[k]) >= PaletteScore([distinct |-> MaxColors])
  <1>1. ASSUME NEW d \in 1 .. 512, NEW e \in Nat
        PROVE  /\ 1000 - (d * 1000) \div 512 \in 0 .. 1000
               /\ e <= 512 /\ d <= e => (d * 1000) \div 512 <= (e * 1000) \div 512
    OBVIOUS
  <1> SUFFICES ASSUME NEW k \in Keys
               PROVE  /\ PaletteScore(Content[k]) \in 0 .. 1000
                      /\ Content[k].distinct <= MaxColors =>
                           PaletteScore(Content[k]) >= PaletteScore([distinct |-> MaxColors])
    OBVIOUS
  <1>2. Content[k].distinct \in 1 .. 512 /\ MaxColors \in Nat
    BY ScreeningAssumption
  <1>3. PaletteScore(Content[k]) = 1000 - (Content[k].distinct * 1000) \div 512
    BY <1>2 DEF PaletteScore
  <1>4. PaletteScore([distinct |-> MaxColors]) =
            IF MaxColors > 512 THEN 0 ELSE 1000 - (MaxColors * 1000) \div 512
    BY DEF PaletteScore
  <1>5. PaletteScore(Content[k]) \in 0 .. 1000
    BY <1>1, <1>2, <1>3
  <1>6. ASSUME Content[k].distinct <= MaxColors
        PROVE  PaletteScore(Content[k]) >= PaletteScore([distinct |-> MaxColors])
    <2>1. CASE MaxColors > 512
      BY <1>4, <1>5, <2>1
    <2>2. CASE MaxColors <= 512
      <3>1. (Content[k].distinct * 1000) \div 512 <= (MaxColors * 1000) \div 512
        BY <1>1, <1>2, <1>6, <2>2
      <3>2. /\ (Content[k].distinct * 1000) \div 512 \in Int
            /\ (MaxColors * 1000) \div 512 \in Int
        BY <1>2
      <3>3. PaletteScore([distinct |-> MaxColors]) = 1000 - (MaxColors * 1000) \div 512
        BY <1>2, <1>4, <2>2
      <3> QED BY <1>3, <3>1, <3>2, <3>3
    <2> QED BY <1>2, <2>1, <2>2
  <1> QED BY <1>5, <1>6

(* What CLIP's verdict gives, with or without the digits.                  *)
LEMMA ClipGate ==
    ASSUME NEW q, q.prob \in 0 .. 1000, q.digits \in BOOLEAN,
           ClipThreshold \in Nat, BlockThreshold \in Nat,
           BlockThreshold <= ClipThreshold,
           NEW r \in ClipResults(q)
    PROVE  r \in Results /\ (r.chart => r.confidence >= BlockThreshold)
  <1>1. PICK digits \in BOOLEAN :
          r = [chart |-> q.prob >= ClipThreshold /\ digits, confidence |-> q.prob]
    BY DEF ClipResults
  <1>2. CASE q.prob >= ClipThreshold /\ digits
    <2>1. r = [chart |-> TRUE, confidence |-> q.prob]
      BY <1>1, <1>2
    <2> QED BY <1>2, <2>1 DEF Results
  <1>3. CASE ~ (q.prob >= ClipThreshold /\ digits)
    <2>1. (q.prob >= ClipThreshold /\ digits) = FALSE
      BY <1>3
    <2>2. r = [chart |-> FALSE, confidence |-> q.prob]
      BY <1>1, <2>1
    <2> QED BY <2>2 DEF Results
  <1> QED BY <1>2, <1>3

(* What looks_like_chart returns, by CLIP or by the heuristic.             *)
LEMMA GateResults ==
    ASSUME NEW k \in Keys, NEW model, NEW r \in LooksLikeChart(Content[k], model)
    PROVE  /\ r \in Results
           /\ r.chart => \/ r.confidence >= BlockThreshold
                         \/ 2 * r.confidence + 1 >=
                              MinBackground + PaletteScore([distinct |-> MaxColors])
  <1>1. PICK q : q = Content[k]
    OBVIOUS
  <1>2. /\ q.prob \in 0 .. 1000 /\ q.dominant \in 0 .. 1000 /\ q.digits \in BOOLEAN
        /\ ClipThreshold \in Nat /\ BlockThreshold \in Nat /\ MinBackground \in Nat
        /\ MaxColors \in Nat /\ BlockThreshold <= ClipThreshold
    BY <1>1, ScreeningAssumption
  <1>4. CASE r \in ClipResults(q)
    <2>1. r \in Results /\ (r.chart => r.confidence >= BlockThreshold)
      BY <1>2, <1>4, ClipGate
    <2> QED BY <2>1, Zenon
  <1>5. CASE r = HeuristicResult(q)
    <2>1. PICK p \in 0 .. 1000 : p = PaletteScore(q)
      BY <1>1, PaletteFacts
    <2>2. PICK m \in 0 .. 1000 : m = q.dominant
      BY <1>2
    <2>3. PICK x : x = q.distinct
      OBVIOUS
    <2>4. PICK s \in Int : s = PaletteScore([distinct |-> MaxColors])
      BY <1>2 DEF PaletteScore
    <2>5. r = [chart |-> m >= MinBackground /\ x <= MaxColors,
               confidence |-> (m + p) \div 2]
      BY <1>5, <2>1, <2>2, <2>3 DEF HeuristicResult
    <2>6. x <= MaxColors => p >= s
      BY <1>1, <2>1, <2>3, <2>4, PaletteFacts
    <2>7. PICK n \in 0 .. 2000 : n = m + p
      OBVIOUS
    <2>8. PICK d \in 0 .. 1000 : d = n \div 2 /\ 2 * d + 1 >= n
      OBVIOUS
    <2>9. CASE m >= MinBackground /\ x <= MaxColors
      <3>1. r = [chart |-> TRUE, confidence |-> d]
        BY <2>5, <2>7, <2>8, <2>9
      <3>2. 2 * d + 1 >= MinBackground + s
        <4>1. MinBackground \in Nat
          BY <1>2
        <4>2. p >= s /\ m >= MinBackground
          BY <2>6, <2>9
        <4> QED BY <2>7, <2>8, <4>1, <4>2
      <3>3. r \in Results
        BY <3>1 DEF Results
      <3>4. r.confidence = d
        BY <3>1
      <3> QED BY <2>4, <3>2, <3>3, <3>4
    <2>10. CASE ~ (m >= MinBackground /\ x <= MaxColors)
      <3>0. (m >= MinBackground /\ x <= MaxColors) = FALSE
        BY <2>10
      <3>1. r = [chart |-> FALSE, confidence |-> d]
        BY <2>5, <2>7, <2>8, <3>0
      <3>2. r \in Results
        BY <3>1 DEF Results
      <3>3. ~ r.chart
        BY <3>1
      <3> QED BY <3>2, <3>3
    <2> QED BY <2>9, <2>10
  <1> QED BY <1>1, <1>4, <1>5 DEF LooksLikeChart
LEMMA GateStep ==
    ASSUME IInv, GateOK, [Next]_vars
    PROVE  GateOK'
  <1>1. ASSUME NEW t \in Threads, NEW model, GateReturns(t, model), pc[t] = "screen"
        PROVE  result' \in [Threads -> Results]
    <2>1. PICK k \in Keys : k = ask[t]
      BY <1>1 DEF IInv, ScreensKnown
    <2>2. PICK r \in LooksLikeChart(Content[k], model) : result' = [result EXCEPT ![t] = r]
      BY <1>1, <2>1 DEF GateReturns
    <2> QED BY <2>2, GateResults DEF GateOK
  <1>2. ASSUME NEW t \in Threads, Request(t) PROVE GateOK'
    <2>1. CASE EnterClip(t) \/ Ask(t) \/ AskLlm(t) \/ Put(t) \/ NoAnswer(t)
      BY <2>1 DEF GateOK, EnterClip, Ask, AskLlm, Put, NoAnswer, gateVars
    <2>2. CASE LeaveClip(t)
      <3>1. pc[t] = "screen"
        BY <2>2 DEF LeaveClip, IInv, ClipKnown, InClip
      <3> QED BY <1>1, <2>2, <3>1 DEF LeaveClip, GateOK
    <2>3. CASE UseClip(t)
      BY <1>1, <2>3 DEF UseClip, GateOK
    <2>4. CASE Block(t) \/ Allow(t)
      <3>1. NoResult \in Results
        BY DEF NoResult, Results
      <3> QED BY <2>4, <3>1 DEF Block, Allow, ScreensEnd, GateOK
    <2> QED BY <1>2, <2>1, <2>2, <2>3, <2>4 DEF Request
  <1>3. ASSUME NEW u \in Loaders, Load(u) PROVE GateOK'
    <2>1. UNCHANGED result
      BY <1>3 DEF Load, EnterLoader, LeaveLoader, UseMemo, gateVars
    <2>2. CASE EnterLoader(u) \/ UseMemo(u)
      BY <2>1, <2>2 DEF GateOK, EnterLoader, UseMemo
    <2>3. CASE LeaveLoader(u)
      <3>1. Reached(u) \in Layer2
        BY <2>3, LayerFacts DEF LeaveLoader, IInv, MemoKnown, ThreadsOK, InLayer2, Reached
      <3> QED BY <2>1, <2>3, <3>1 DEF GateOK, LeaveLoader
    <2> QED BY <1>3, <2>2, <2>3 DEF Load
  <1>4. CASE Forget \/ UNCHANGED vars
    BY <1>4 DEF GateOK, Forget, gateVars, vars
  <1> QED BY <1>2, <1>3, <1>4 DEF Next

(* The state of the screens is of its type.                                *)
THEOREM ScreeningTypes == Spec => []TypeOK
  <1>1. Init => GateOK
    BY DEF Init, GateOK, NoResult, Results
  <1>2. Spec => []GateOK
    BY <1>1, GateStep, InvariantHolds, PTL DEF Spec
  <1>3. IInv /\ GateOK => TypeOK
    BY DEF IInv, ThreadsOK, ModelsOK, ScreensOK, GateOK, TypeOK
  <1> QED BY <1>2, <1>3, InvariantHolds, PTL

(* What the thresholds of a deployment have to be, beside ClipThreshold's, *)
(* for the two stages of the gate to agree: the least confidence of a      *)
(* picture that the heuristic calls a chart is not blocked.                *)
ThresholdsAgree ==
    2 * BlockThreshold <= MinBackground + PaletteScore([distinct |-> MaxColors])

(* With such thresholds app.py never blocks an image that looks_like_chart *)
(* calls a chart, whichever stage answered and whatever is in the image.   *)
THEOREM ChartsPass ==
    ASSUME ThresholdsAgree
    PROVE  Spec => []ChartNotBlocked
  <1>1. ASSUME IInv, ChartNotBlocked, NEW t \in Threads, NEW model, GateReturns(t, model),
               GateOK, pc[t] = "screen"
        PROVE  ChartNotBlocked'
    <2>1. PICK k \in Keys : k = ask[t]
      BY <1>1 DEF IInv, ScreensKnown
    <2>2. PICK r \in LooksLikeChart(Content[k], model) : result' = [result EXCEPT ![t] = r]
      BY <1>1, <2>1 DEF GateReturns
    <2>3. PICK s \in Int : s = PaletteScore([distinct |-> MaxColors])
      BY ScreeningAssumption DEF PaletteScore
    <2>4. r \in Results /\ (r.chart => \/ r.confidence >= BlockThreshold
                                       \/ 2 * r.confidence + 1 >= MinBackground + s)
      BY <2>3, GateResults
    <2>5. 2 * BlockThreshold <= MinBackground + s
      BY <2>3 DEF ThresholdsAgree
    <2>6. BlockThreshold \in Nat /\ MinBackground \in Nat /\ r.confidence \in Nat
      <3>1. r \in Results
        BY <2>4
      <3>2. r.confidence \in 0 .. 1000
        BY <3>1 DEF Results
      <3>3. BlockThreshold \in Nat /\ MinBackground \in Nat
        BY ScreeningAssumption
      <3> QED BY <3>2, <3>3
    <2>7. r.chart => ~ (r.confidence < BlockThreshold)
      <3>1. \A b, m, c \in Nat : 2 * b <= m + s /\ (c >= b \/ 2 * c + 1 >= m + s) => c >= b
        BY <2>3
      <3> QED BY <2>4, <2>5, <2>6, <3>1
    <2>8. gate' = [gate EXCEPT ![t] = "done"]
      BY <1>1 DEF GateReturns
    <2>9. ASSUME NEW u \in Threads, gate'[u] = "done", result'[u].chart
          PROVE  ~ (result'[u].confidence < BlockThreshold)
      <3>1. CASE u = t
        BY <1>1, <2>2, <2>7, <2>9, <3>1 DEF GateOK
      <3>2. CASE u # t
        BY <1>1, <2>2, <2>8, <2>9, <3>2 DEF ChartNotBlocked, NotAChart, GateOK, IInv, ThreadsOK
      <3> QED BY <3>1, <3>2
    <2> QED BY <2>9 DEF ChartNotBlocked, NotAChart
  <1>2. ASSUME IInv, GateOK, ChartNotBlocked, [Next]_vars PROVE ChartNotBlocked'
    <2>1. ASSUME NEW t \in Threads, Request(t) PROVE ChartNotBlocked'
      <3>1. CASE Ask(t) \/ AskLlm(t) \/ Put(t) \/ NoAnswer(t)
        BY <1>2, <3>1 DEF Ask, AskLlm, Put, NoAnswer, gateVars, ChartNotBlocked, NotAChart
      <3>2. CASE EnterClip(t)
        BY <1>2, <3>2 DEF EnterClip, ChartNotBlocked, NotAChart, IInv, ThreadsOK
      <3>3. CASE LeaveClip(t)
        <4>1. pc[t] = "screen"
          BY <1>2, <3>3 DEF LeaveClip, IInv, ClipKnown, InClip
        <4> QED BY <1>1, <1>2, <3>3, <4>1 DEF LeaveClip
      <3>4. CASE UseClip(t)
        BY <1>1, <1>2, <3>4 DEF UseClip
      <3>5. CASE Block(t) \/ Allow(t)
        <4>1. /\ gate' = [gate EXCEPT ![t] = "start"]
              /\ result' = [result EXCEPT ![t] = NoResult]
          BY <3>5 DEF Block, Allow, ScreensEnd
        <4> QED BY <1>2, <4>1 DEF ChartNotBlocked, NotAChart, IInv, ThreadsOK, GateOK
      <3> QED BY <2>1, <3>1, <3>2, <3>3, <3>4, <3>5 DEF Request
    <2>2. ASSUME NEW u \in Loaders, Load(u) PROVE ChartNotBlocked'
      BY <1>2, <2>2 DEF Load, EnterLoader, LeaveLoader, UseMemo, gateVars, ChartNotBlocked,
                        NotAChart
    <2>3. CASE Forget \/ UNCHANGED vars
      BY <1>2, <2>3 DEF Forget, gateVars, vars, ChartNotBlocked, NotAChart
    <2> QED BY <1>2, <2>1, <2>2, <2>3 DEF Next
  <1>3. Init => ChartNotBlocked
    BY DEF Init, ChartNotBlocked
  <1>4. TypeOK => GateOK
    BY DEF TypeOK, GateOK
  <1> QED BY <1>2, <1>3, <1>4, InvariantHolds, ScreeningTypes, PTL DEF Spec

=============================================================================
