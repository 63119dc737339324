------------------------------ MODULE Screening ------------------------------
(***************************************************************************)
(* One backend process while its models load: the question guard of        *)
(* backend/guard.py and guard_llm.py, the chart gate of chart_check.py,    *)
(* the answer cache in front of them, the request threads, and the thread  *)
(* that warms the guard at boot.  A request runs guard() and               *)
(* looks_like_chart() side by side (app.py, _ask_events).                  *)
(*                                                                         *)
(* A guard model is memoised by lru_cache(maxsize=1), which holds no lock  *)
(* while the loader runs: concurrent first calls all load, and the result  *)
(* that is stored first is kept.  The CLIP singleton is a plain global:    *)
(* the load that ends last is kept.  Any load, and any call of a model,    *)
(* may fail.                                                               *)
(*                                                                         *)
(* What a model says of a key is fixed (Content), in thousandths.  Left    *)
(* out: GUARD_ENABLED is on; what happens between the screens and the      *)
(* cache's put is in AskPipeline; a restart starts a new behaviour.        *)
(***************************************************************************)
EXTENDS Naturals, FiniteSets, Sequences, Functions

CONSTANTS
    Keys,      \* the (image, question) pairs
    Threads,   \* request threads
    Boot,      \* the thread that runs guard.warmup()
    NoKey,     \* what a thread between requests asks
    Layers,    \* the Layer-2 detectors, in the order guard() asks them
    Content,   \* for each key: what every model says of it
    ClipThreshold, BlockThreshold,  \* CHART_CLIP_THRESHOLD, CHART_BLOCK_THRESHOLD
    MinBackground, MaxColors        \* of the pixel heuristic

Loaders == Threads \cup {Boot}
Layer2  == Range(Layers)

ASSUME ScreeningAssumption ==
    /\ IsFiniteSet(Threads) /\ Boot \notin Threads /\ NoKey \notin Keys
    /\ Layers \in Seq(STRING) /\ IsInjective(Layers)
    /\ {"clip", "llm"} \cap Layer2 = {}
    /\ \A k \in Keys :
         /\ Content[k].flags \subseteq Layer2 \cup {"llm"}
         /\ {Content[k].prob, Content[k].dominant} \subseteq 0 .. 1000
         /\ Content[k].distinct \in 1 .. 512 /\ Content[k].digits \in BOOLEAN
    /\ {ClipThreshold, BlockThreshold, MinBackground, MaxColors} \subseteq Nat
    /\ BlockThreshold <= ClipThreshold

VARIABLES
    cached,   \* the keys with a cached answer
    memo,     \* what lru_cache has stored for each loader
    clip,     \* chart_check._clip
    at,       \* the layer that each thread's guard() or warmup() has come to
    busy,     \* the threads inside that layer's loader
    pc,       \* where each request is
    ask,      \* its key
    verdict,  \* what its guard() said
    gate,     \* where its looks_like_chart() is
    result,   \* what that returned: is_chart and the confidence
    skipped,  \* the layers that would have flagged it and did not answer
    loads,    \* history: how often each model was loaded
    good,     \* history: the models of which a load succeeded
    waived    \* history: skipped, of the request that put each key

guardVars == <<memo, at, busy, verdict, skipped>>
gateVars  == <<clip, gate, result>>
vars == <<cached, guardVars, gateVars, pc, ask, loads, good, waived>>

Results == [chart : BOOLEAN, confidence : 0 .. 1000]
NoResult == [chart |-> FALSE, confidence |-> 0]

TypeOK ==
    /\ cached \subseteq Keys
    /\ memo \in [Layer2 -> {"empty", "model", "missing"}]
    /\ clip \in {"untried", "model", "unavailable"}
    /\ at \in [Loaders -> 1 .. Len(Layers) + 1]
    /\ busy \subseteq Loaders
    /\ pc \in [Threads -> {"idle", "screen", "answer"}]
    /\ ask \in [Threads -> Keys \cup {NoKey}]
    /\ verdict \in [Threads -> {"pending", "allow", "block"}]
    /\ gate \in [Threads -> {"start", "loading", "done"}]
    /\ result \in [Threads -> Results]
    /\ skipped \in [Threads -> SUBSET (Layer2 \cup {"llm"})]
    /\ loads \in [Layer2 \cup {"clip"} -> Nat]
    /\ good \subseteq Layer2 \cup {"clip"}
    /\ waived \in [Keys -> SUBSET (Layer2 \cup {"llm"})]

Init ==
    /\ cached = {}
    /\ memo = [l \in Layer2 |-> "empty"]
    /\ clip = "untried"
    /\ at = [u \in Loaders |-> 1]
    /\ busy = {}
    /\ pc = [t \in Threads |-> "idle"]
    /\ ask = [t \in Threads |-> NoKey]
    /\ verdict = [t \in Threads |-> "pending"]
    /\ gate = [t \in Threads |-> "start"]
    /\ result = [t \in Threads |-> NoResult]
    /\ skipped = [t \in Threads |-> {}]
    /\ loads = [m \in Layer2 \cup {"clip"} |-> 0]
    /\ good = {}
    /\ waived = [k \in Keys |-> {}]

(* The answer cache comes first: a hit is served with no screen at all and *)
(* changes nothing here.                                                   *)
Ask(t) ==
    /\ pc[t] = "idle"
    /\ \E k \in Keys \ cached : ask' = [ask EXCEPT ![t] = k]
    /\ pc' = [pc EXCEPT ![t] = "screen"]
    /\ UNCHANGED <<cached, guardVars, gateVars, loads, good, waived>>

(* ----------------------------- the guard ------------------------------- *)
Reached(u) == Layers[at[u]]
InLayer2(u) ==
    /\ at[u] <= Len(Layers)
    /\ u \in Threads => pc[u] = "screen" /\ verdict[u] = "pending"

Flagged(t, l) == l \in Content[ask[t]].flags

(* One layer of guard(): it flags the question, or lets it through, or     *)
(* does not answer and is passed over.                                     *)
Judge(t, l, answers) ==
    IF answers /\ Flagged(t, l)
    THEN /\ verdict' = [verdict EXCEPT ![t] = "block"]
         /\ UNCHANGED <<at, skipped>>
    ELSE /\ at' = [at EXCEPT ![t] = @ + 1]
         /\ skipped' = [skipped EXCEPT ![t] = @ \cup ({l} \cap Content[ask[t]].flags)]
         /\ UNCHANGED verdict

(* u has the model, or None.  warmup() only loads.                         *)
UseModel(u, model) ==
    IF u = Boot
    THEN at' = [at EXCEPT ![u] = @ + 1] /\ UNCHANGED <<verdict, skipped>>
    ELSE \E answers \in IF model = "model" THEN BOOLEAN ELSE {FALSE} :
             Judge(u, Reached(u), answers)

EnterLoader(u) ==
    /\ InLayer2(u) /\ u \notin busy /\ memo[Reached(u)] = "empty"
    /\ busy' = busy \cup {u}
    /\ loads' = [loads EXCEPT ![Reached(u)] = @ + 1]
    /\ UNCHANGED <<cached, gateVars, memo, at, verdict, skipped, pc, ask, good, waived>>

LeaveLoaderUnmemoised(u) ==
    /\ u \in busy
    /\ \E loaded \in {"model", "missing"} :
         /\ memo' = IF loaded = "model" THEN [memo EXCEPT ![Reached(u)] = loaded] ELSE memo
         /\ good' = IF loaded = "model" THEN good \cup {Reached(u)} ELSE good
         /\ UseModel(u, loaded)
    /\ busy' = busy \ {u}
    /\ UNCHANGED <<cached, gateVars, pc, ask, loads, waived>>

LeaveLoader(u) ==
    /\ u \in busy
    /\ \E loaded \in {"model", "missing"} :
         /\ memo' = [memo EXCEPT ![Reached(u)] = IF @ = "empty" THEN loaded ELSE @]
         /\ good' = IF loaded = "model" THEN good \cup {Reached(u)} ELSE good
         /\ UseModel(u, loaded)
    /\ busy' = busy \ {u}
    /\ UNCHANGED <<cached, gateVars, pc, ask, loads, waived>>

UseMemo(u) ==
    /\ InLayer2(u) /\ u \notin busy /\ memo[Reached(u)] # "empty"
    /\ UseModel(u, memo[Reached(u)])
    /\ UNCHANGED <<cached, gateVars, memo, busy, pc, ask, loads, good, waived>>

(* Layer 3, llm_classify: the LLM server answers, or the request passes.   *)
AskLlm(t) ==
    /\ pc[t] = "screen" /\ verdict[t] = "pending" /\ at[t] = Len(Layers) + 1
    /\ \E answers \in BOOLEAN :
         IF answers /\ Flagged(t, "llm")
         THEN verdict' = [verdict EXCEPT ![t] = "block"] /\ UNCHANGED skipped
         ELSE /\ verdict' = [verdict EXCEPT ![t] = "allow"]
              /\ skipped' = [skipped EXCEPT ![t] =
                                @ \cup ({"llm"} \cap Content[ask[t]].flags)]
    /\ UNCHANGED <<cached, gateVars, memo, at, busy, pc, ask, loads, good, waived>>

(* --------------------------- the chart gate ---------------------------- *)
(* CLIP needs digits in the image as well to call it a chart, but its      *)
(* probability alone is the confidence.  OCR that fails reads as digits.   *)
ClipResults(q) ==
    {[chart |-> q.prob >= ClipThreshold /\ digits, confidence |-> q.prob] :
         digits \in {q.digits, TRUE}}

PaletteScore(q) == IF q.distinct > 512 THEN 0 ELSE 1000 - (q.distinct * 1000) \div 512

HeuristicSum(q) ==
    [chart |-> q.dominant >= MinBackground /\ q.distinct <= MaxColors,
     confidence |-> q.dominant + PaletteScore(q)]

HeuristicDominant(q) ==
    [chart |-> q.dominant >= MinBackground /\ q.distinct <= MaxColors,
     confidence |-> q.dominant]

(* The two excepts of _heuristic_chart (no PIL, an image that will not     *)
(* open) are left out: the image has been decoded and re-encoded by then.  *)
HeuristicResult(q) ==
    [chart |-> q.dominant >= MinBackground /\ q.distinct <= MaxColors,
     confidence |-> (q.dominant + PaletteScore(q)) \div 2]

(* CLIP, or the pixel heuristic where CLIP is missing or its call fails.   *)
LooksLikeChart(q, model) ==
    {HeuristicResult(q)} \cup (IF model = "model" THEN ClipResults(q) ELSE {})

GateReturns(t, model) ==
    /\ \E r \in LooksLikeChart(Content[ask[t]], model) :
         result' = [result EXCEPT ![t] = r]
    /\ gate' = [gate EXCEPT ![t] = "done"]

EnterClip(t) ==
    /\ pc[t] = "screen" /\ gate[t] = "start" /\ clip = "untried"
    /\ gate' = [gate EXCEPT ![t] = "loading"]
    /\ loads' = [loads EXCEPT !["clip"] = @ + 1]
    /\ UNCHANGED <<cached, guardVars, clip, result, pc, ask, good, waived>>

LeaveClipDropsModel(t) ==
    /\ gate[t] = "loading"
    /\ \E loaded, inferred \in {"model", "unavailable"} :
         /\ clip' = IF loaded = "model" THEN inferred ELSE loaded
         /\ good' = IF loaded = "model" THEN good \cup {"clip"} ELSE good
         /\ GateReturns(t, inferred)
    /\ UNCHANGED <<cached, guardVars, pc, ask, loads, waived>>

LeaveClip(t) ==
    /\ gate[t] = "loading"
    /\ \E loaded \in {"model", "unavailable"} :
         /\ clip' = loaded
         /\ good' = IF loaded = "model" THEN good \cup {"clip"} ELSE good
         /\ GateReturns(t, loaded)
    /\ UNCHANGED <<cached, guardVars, pc, ask, loads, waived>>

UseClip(t) ==
    /\ pc[t] = "screen" /\ gate[t] = "start" /\ clip # "untried"
    /\ GateReturns(t, clip)
    /\ UNCHANGED <<cached, guardVars, clip, pc, ask, loads, good, waived>>

(* -------------------------- after the screens -------------------------- *)
Screened(t) == pc[t] = "screen" /\ verdict[t] # "pending" /\ gate[t] = "done"
NotAChart(t) == result[t].confidence < BlockThreshold

ScreensEnd(t) ==
    /\ at' = [at EXCEPT ![t] = 1]
    /\ verdict' = [verdict EXCEPT ![t] = "pending"]
    /\ gate' = [gate EXCEPT ![t] = "start"]
    /\ result' = [result EXCEPT ![t] = NoResult]
    /\ UNCHANGED <<memo, busy, clip>>

RequestEnds(t) ==
    /\ pc' = [pc EXCEPT ![t] = "idle"]
    /\ ask' = [ask EXCEPT ![t] = NoKey]
    /\ skipped' = [skipped EXCEPT ![t] = {}]

Block(t) ==
    /\ Screened(t)
    /\ verdict[t] = "block" \/ NotAChart(t)
    /\ ScreensEnd(t) /\ RequestEnds(t)
    /\ UNCHANGED <<cached, loads, good, waived>>

AllowOnChart(t) ==
    /\ Screened(t)
    /\ ~ NotAChart(t)
    /\ pc' = [pc EXCEPT ![t] = "answer"]
    /\ ScreensEnd(t)
    /\ UNCHANGED <<cached, ask, skipped, loads, good, waived>>

Allow(t) ==
    /\ Screened(t)
    /\ verdict[t] = "allow" /\ ~ NotAChart(t)
    /\ pc' = [pc EXCEPT ![t] = "answer"]
    /\ ScreensEnd(t)
    /\ UNCHANGED <<cached, ask, skipped, loads, good, waived>>

Put(t) ==
    /\ pc[t] = "answer"
    /\ cached' = cached \cup {ask[t]}
    /\ waived' = [waived EXCEPT ![ask[t]] = skipped[t]]
    /\ RequestEnds(t)
    /\ UNCHANGED <<memo, at, busy, verdict, gateVars, loads, good>>

(* Over budget, or no VLM: nothing is cached.                              *)
NoAnswer(t) ==
    /\ pc[t] = "answer"
    /\ RequestEnds(t)
    /\ UNCHANGED <<cached, memo, at, busy, verdict, gateVars, loads, good, waived>>

(* The LRU or the TTL: see AnswerCache.                                    *)
Forget ==
    /\ \E k \in cached : cached' = cached \ {k}
    /\ UNCHANGED <<guardVars, gateVars, pc, ask, loads, good, waived>>

Request(t) ==
    \/ Ask(t) \/ AskLlm(t)
    \/ EnterClip(t) \/ LeaveClip(t) \/ UseClip(t)
    \/ Block(t) \/ Allow(t) \/ Put(t) \/ NoAnswer(t)

Load(u) == EnterLoader(u) \/ LeaveLoader(u) \/ UseMemo(u)

Next ==
    \/ \E t \in Threads : Request(t)
    \/ \E u \in Loaders : Load(u)
    \/ Forget

Spec == Init /\ [][Next]_vars

(* ----------------------------- properties ------------------------------ *)

(* gunicorn.conf.py:3-4 counts on each model being loaded once per process.*)
(* Neither lru_cache nor the CLIP global sees to that: every thread whose  *)
(* first call comes before the first load ends loads too, but none twice.  *)
LoadsBounded ==
    /\ \A l \in Layer2 : loads[l] <= Cardinality(Threads) + 1
    /\ loads["clip"] <= Cardinality(Threads)

(* A model that could be loaded is only ever given up for a failed load    *)
(* that overlapped: the first to end in guard.py, the last in              *)
(* chart_check.py, where it replaces a good one.                           *)
LossNeedsRace ==
    /\ \A l \in Layer2 : memo[l] = "missing" /\ l \in good => loads[l] >= 2
    /\ clip = "unavailable" /\ "clip" \in good => loads["clip"] >= 2

(* The cache serves without screening, so what it holds must have been     *)
(* screened: a cached question that a layer flags got past that layer only *)
(* because the layer did not answer the request that put it.               *)
UnscreenedOnlyDegraded ==
    \A k \in cached : Content[k].flags \subseteq waived[k]

(* Neither stage of the gate blocks an image that it calls a chart: the    *)
(* block looks at the confidence only, and the two stages measure that     *)
(* differently (chart_check.py:178-182, app.py:311).                       *)
ChartNotBlocked ==
    \A t \in Threads : gate[t] = "done" /\ result[t].chart => ~ NotAChart(t)

=============================================================================
