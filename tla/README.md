# Chart-Visual-QA: TLA+ models, checks and proofs

This directory models the parts of Chart-Visual-QA whose correctness depends on
the order in which things happen: request threads that share a budget and a
cache with no lock across stages, a subprocess that creates billed GPU pods, and
everything that can fail half way. TLC checks small instances; TLAPS proves the
main safety results for every value of the constants. `PROJECT.json` maps each
definition to the lines it models, lists the runs, the hazards and the theorems.

## The system

| Component | Source | State it keeps | Operations |
| --- | --- | --- | --- |
| Ask pipeline | `backend/app.py` | none of its own across requests; per request the generator's locals (`stage_results`, `verdict`, `answer`) | `ask`, `ask_stream`, `_prepare_ask`, `_ask_events` |
| Budget breaker | `backend/budget.py` | one counter per UTC day, in Redis or in a dict, as `client()` says on each call | `over_budget`, `record` |
| Answer cache | `backend/answer_cache.py` | key to answer, with TTL; LRU in memory | `get`, `put` |
| Rate limiter | `backend/ratelimit.py` | one counter per client and minute | `allow` |
| Redis client | `backend/redis_client.py` | memoised client, `_resolved` flag | `client` |
| Guard | `backend/guard.py`, `guard_llm.py` | memoised classifiers | `guard`, `warmup` |
| Chart gate | `backend/chart_check.py` | memoised CLIP singleton | `looks_like_chart` |
| Model adapter | `backend/inference.py`, `model_adapter.py` | memoised in-process model | `run_inference`, `predict` |
| VLM provider | `backend/vlm_provider.py` | `_state` (`starting`, `ready`), `VLM_URL` | `warm`, `ensure_running`, `_ensure_runpod` |
| RunPod scripts | `scripts/runpod_up.py`, `runpod_down.py` | the state file, pods, the SSH tunnel | `main`, `teardown` |
| Orchestrator | `app.py` | child processes | `start_runpod_vlm`, `main`, `stop_runpod_vlm` |
| Frontend | `frontend/src/App.jsx`, `api.js` | image, question, answer, loading, stages, token, abort controller | `selectImage`, `onSubmit`, `handleSignOut`, `askQuestionStream` |
| VLM service | `vlm_service/server.py` | the model, loaded once | `predict`, `health` |
| Training, evaluation | `modeling/chartqa/` | optimizer step, checkpoints, error files | the training loop, `evaluate`, `compare_errors` |

How they interact. The browser posts an image and a question and reads
Server-Sent Events. A request thread (gunicorn: one worker, eight threads per
instance, several instances on Cloud Run) runs the generator `_ask_events`:
rate limit, sanitising, cache lookup, guard and chart gate side by side on two
worker threads, budget check, `ensure_running`, inference, `record`, cache put.
Every stage is a plain call; the only shared state is behind the cache, the
budget, the limiter and the provider, and each of these locks its own single
operation only. `ensure_running` may run `runpod_up.py` as a subprocess for up
to fifteen minutes while other threads wait. On a developer's machine the root
`app.py` starts the servers as children, or containers, and the pod through the
same scripts and the same state file. Training, evaluation and the comparison
meet only through the files they leave: checkpoints, `errors.json`, error images.

What is hard. (1) Check-then-act: the budget is read before the GPU call and
incremented after it, the cache is read long before it is filled, and the store
itself may have changed in between, since each call asks `client()` anew. (2) Time: the
UTC day is computed before the counter is touched. (3) Partial failure: Redis
errors are swallowed, inference may raise between the check and the record, a
client may hang up at any `yield`, a script may be killed between creating a
pod and writing down its id. (4) Restarts that empty the in-memory stores and
forget the provider's state, but not the pods. (5) Memoised failures, and memos
that two threads fill at once. (6) Ctrl-C at any point of a program that owns
children, containers and billed pods. (7) Files of an earlier run, or of a run
that was killed, beside those of the present one.

What makes each component correct:

- pipeline: every request ends, with one result; nothing unscreened is paid for,
  cached or served; a repeated question costs a bounded number of GPU calls;
- budget: the overshoot of each counter is bounded, whatever the timing and
  whichever store a call is sent to; nothing but real answers is counted;
- provider and scripts: one provisioner at a time, a claim always released, no
  pod billed that nobody will tear down, `True` only when a VLM can be reached;
- limiter, Redis client: a window never lets more through than the limit plus
  what races and faults explain, and never refuses what is within it;
- frontend: the answer shown belongs to the last submission and to the image on
  display, or to the one that the user replaced meanwhile; the spinner goes off;
- guard and chart gate: a model is loaded a bounded number of times, a good one is
  not lost, and what was not screened is known to have been let through degraded;
- answer cache: the LRU keeps what was used last;
- orchestrator: however it ends, nothing that it started runs on or is billed;
- training, evaluation: `checkpoint-best` is the best, no batch counts twice and it
  is known which ones count for nothing, and what an `errors.json` or a comparison
  says is true of the runs it stems from.

## Modules

| Module | Models | Kind |
| --- | --- | --- |
| `RedisClient` | `client()`, for the threads of several instances | component, extended by the next two |
| `Budget` | the breaker as its callers use it | component, and the abstract protocol that the pipeline implements |
| `MCBudget` | | two instances, symmetry for TLC |
| `BudgetProofs` | | proofs about `Budget` |
| `AskPipeline` | the whole generator, with cache and budget, over Redis or dicts | composition |
| `MCAskPipeline` | | one instance, symmetry for TLC |
| `AskPipelineProofs` | | proofs about `AskPipeline` |
| `RunpodProvider` | provider, scripts, state file, tunnel and pods | composition |
| `RunpodProofs` | | proofs about `RunpodProvider` |
| `RateLimit` | the limiter over the Redis client of one process | composition |
| `MCRateLimit` | | one busy address, symmetry in the threads |
| `RateLimitProofs` | | proofs about `RateLimit` |
| `EventStream` | the Server-Sent Events, written and read | operators |
| `BrowserSession` | one tab of the frontend and the network | composition |
| `MCBrowserSession` | | the event sequences for TLC |
| `BrowserSessionProofs` | | proofs about `BrowserSession` |
| `Screening` | guard, chart gate and their loaders, under the cache | composition |
| `MCScreening` | | the questions and images for TLC |
| `ScreeningProofs` | | proofs about `Screening` |
| `AnswerCache` | the in-memory LRU with its TTL | component |
| `Orchestrator` | the root `app.py` and the scripts from a terminal | composition |
| `OrchestratorProofs` | | proofs about `Orchestrator` |
| `Training` | the training loop and its checkpoints | component |
| `Evaluation` | `evaluate`, the metrics, the comparison, the reconstruction | component |
| `Programs`, `MCPrograms` | `AnswerCache`, `Orchestrator`, `Training` and `Evaluation` | one specification for four parts that do not interact: `focus` picks which of them runs |
| `ProgramsProofs` | | proofs about `AnswerCache`, `Training`, `Evaluation` and their composition with `Orchestrator` |

### RedisClient

An instance resolves its client once: `FindUnresolved` and `Claim` set `_resolved`
(`redis_client.py:43`), and only then does the thread ping (`PingAnswers`,
`PingFails`). Whoever asks meanwhile gets `None` (`Return`) and turns to the dict
of its instance. `conn[t]` is where a thread is with that, from the call until it
has used the store it was told (`StoreOf`). `Home` says which instance a thread
belongs to; the instances share Redis (`gcloud_deploy_app.sh:191` allows three)
and each has its own dicts. The limiter, the cache and the breaker all call
`client()` anew each time, so one request may be told two different stores.
`RateLimit` has the same steps written out for one process.

### Budget

`used[s][d]` is the counter of day `d` in store `s`, `today` the UTC day, `day[t]`
the local variable `day` of the call that thread `t` is in. Both calls take the
day first and then ask for a store, so each is two actions
(`StartCheck`/`FinishCheck`, `StartRecord`/`FinishRecord`) with those of `client()`
in between, and midnight (`NextDay`) or another thread's ping may come there.
With a budget of 0 the breaker is off (`SkipCheck`). `Consult` is another consumer
that resolves the client. `FailOpen` is the swallowed
error of `over_budget`, `LoseRecord` that of `record`; `Restart` kills the threads
of an instance and empties its dict. `answered`, `faults` (failed calls) and
`resets` (failed pings and restarts) are history.

- `Overshoot`: `used[s][d] < Allowance(s)`, the budget, the users of the store once
  and once more for each reset, and the failed calls. The race is real, and this
  is how far it goes: each user but the one that took the last free slot can be
  past the check when the budget fills up. After a reset all of them may have been
  checked in another store. The dict of an instance that has a Redis is only used
  while one of its threads pings, which is one user less.
- `NeverOvercounts`: the counters of a day together, and what is on its way to
  them, never claim an answer the VLM did not give (`budget.py:9-10`).
- `FaultFreeAnswers`: with no fault and no reset the answers of a day are no more
  than the slots of all stores together. It is not the bound of one counter: with
  a budget of 1 and two threads, one request can be counted in the dict while the
  other pings, and two more pass Redis at 0. That is the race of
  `redis_client.py:43` again, which `rate_limit_split` shows of the limiter.

### AskPipeline

`stage[t]` is where the generator of thread `t` stands; the stages that sit at a
`yield` are those in which a streaming client can hang up (`Disconnect`). Gates
that only let a request through or end it (`_prepare_ask`, the limiter, the
sanitiser) are `PassGate` and `Refuse`. `ScreenDone` lets the two screens finish
in either order. `Lookup`, `FinishCheck`, `Provision`, `Answer`, `FinishRecord`
and `Put` are the calls of the later stages, and `BlindLookup`, `FailOpen`,
`LoseRecord`, `PutFails` and `InferenceRaises` their failures. `Forget` is the
TTL or the LRU (also the eviction that a put itself causes: it may directly
follow any `Put`). The stages that use a store begin with `client()` (`Client`),
`put` after its `yield` (`StartPut`); `missed[t]` remembers in which store the
lookup missed, which need not be the one that the put goes to. The history
variables count, for each store and key, what the key cost since it last left that
store (`paid`) and the answers that did not end up there, or hits that a failed
read did not see (`spilled`).

- `StampedeBound`: `paid[s][k] <= Cardinality(UsersOf(s)) + spilled[s][k]`.
- `ScreenedFirst`: whatever is cached, and every request past the screens, has
  been let through by both of them. Cached answers are served without screening
  the new request, so this is what makes that safe.
- `BudgetProtocol`: the pipeline implements `Budget` under the refinement
  mapping `pc <- BudgetPc`, which reads a thread's phase off its stage; the client
  and the two stores are the same in both. What
  `Budget` promises therefore holds of the pipeline.
- `EveryRequestEnds`: liveness.

`ask_one_result` shows that the generator does not always end with a result: an
exception of `run_inference` (`app.py:345`) passes through it. The run has
`VLM_PROVIDER` none, so provisioning plays no part in its trace; with RunPod an
exception of `ensure_running` would do the same (`Provision`).

### RunpodProvider

`pc[t]` is where a caller is in `_ensure_runpod`, `script[t]` where the
`runpod_up.py` it started is. `hand[t]` is the pod that this script has created
and not handed over; `file` and `pidSaved` are the state file; `alive` are the
pods being billed; `port` is the pod that the tunnel on the one local port leads
to, which need not be the newest: `ssh -N -L` stays up when the port is taken,
and the health check then speaks to the older tunnel's pod. `KillScript` is the
timeout of 900 s, which does not reach a `runpodctl` that is creating a pod,
`TearDownKilled` the `runpod_down.py` that follows it,
`TearDownTimesOut` that one's own timeout, `Finally` the `finally` clause and
`SetUrl` the assignment of `VLM_URL` after the lock was released.

- `SoleProvisioner`: `starting` is set exactly while one caller provisions.
- `PodBound`: the pods billed are at most one, and one for each fault. A pod
  that dies, a create that makes none, a set-up that fails and a script killed for
  being slow after `save_state` are not faults: the code is expected to clean up
  after those. Faults are a create that dies after the pod was made (the exit
  status, unreadable JSON or a missing id, `_runpod_common.py:53-69` and
  `runpod_up.py:59-61`), a kill while `runpodctl` creates or before `save_state`, a
  health check that fails though the service is up, a tunnel that drops, a deletion
  that fails, an SSH timeout (not a `SystemExit`, so no teardown), and a restart,
  which may also leave behind a pod that was being created. `UnnamedPod` is a pod
  that is billed and that no script and no file can name.
- `ClaimReleased`: `starting ~> ~ starting`, although the teardown may raise.

`runpod_second_pod` starts from what the orchestrator leaves behind and finds
the second pod at once; `runpod_reachable` finds a waiter that is told `True`
before there is a `VLM_URL`.

### RateLimit

`pc[t]` is where a thread is in `allow`, `slot[t]` its address and the minute it
took first. `IsResolved`, `Claim`, `PingAnswers`/`PingFails` and `ReadClient` are
the lines of `redis_client.client()`, which has no lock; then the request is
counted in `hits` (Redis: `Incr`, and `Expire` on the first hit) or in `counts`
(`MemAllow`, one step under the lock, with the prune). `IncrFails` lets the
request pass whether or not the server applied the INCR. `KeyExpires` drops a
key in a later minute than its EXPIRE, `Restart` forgets the client and the dict
but not Redis. `asked`, `passed` and `blocked` are history.

- `WindowBound`: in one minute an address gets through `PerMinute` requests per
  store, as many again per restart, one per error of Redis, and, when the minute
  is over and its counters may be gone, one per thread that still held it. The
  bound is met: with a limit of 2 and two threads six requests pass. Only with
  one store, no restart and no late thread is it the documented limit.
- `BlocksOnlyExcess`: whatever the stores do, no more requests are refused than
  were made beyond the limit.
- `StaleBound`, `ImmortalBound`: how many keys the dict keeps past their minute,
  and how many Redis keeps for ever.

`rate_limit_split` is the documented limit with no fault at all: the thread that
pings has set `_resolved` already, so the next one counts in memory.

### EventStream and BrowserSession

An event is two symbols and two line feeds, so the network may cut it anywhere;
`Lines` and `Rest` are `split` and `pop`. `req[r]` is a call of `onSubmit`: where
it stands, the image and token its closure holds, the bytes on their way and the
locals of `askQuestionStream`. A handler runs to completion, so each is one
action, and so is what follows an `await`: `Done` when the body ends (`Answered`,
`Refused`, `Unauthorized`), `Rejects` when it breaks, both with the `finally`
clause (`Settle`). The user may do anything the rendered form allows meanwhile.

- `LoadingIsExact`: the spinner, the controller and the rows are those of the
  newest request. It also shows that the abort in `onSubmit` has nothing to do as
  long as the button is disabled: no request is ever superseded.
- `StreamIntact`: wherever the bytes are cut, nothing is dropped or read twice.
  `Wire` and `Lines` are written place by place (the cuts are a set of places,
  `Nth` its k-th), not by recursion over the text, so that they can be reasoned
  about.
- `OutcomeShown`: an answer is that of the newest request, and about the image on
  display unless the user picked another one while it was out. The exception is
  what the code does (`selectImage` does not abort), and `replaced` records it.
- `LoadingEnds`: liveness.

### Screening

Each request thread asks a question about an image (`ask`), and for a key
`Content` says which layers flag it and what CLIP and the pixel counts make of it.
`at[t]` is the layer of `_LAYERS` a thread has reached; `busy` are the threads
inside its loader. `lru_cache` holds no lock while it calls, so two threads load
the same model, and the first result stored is kept (`memo`); the CLIP global has
no lock either, and there the last load to end is kept (`clip`; its store and the
return of what was stored are taken as one step). Both memoise a failure. The
thread `Boot` is `warmup()`, which loads the guard's models but never CLIP.
`waived[k]` remembers the layers that did not answer for key `k` when it was put.

- `LoadsBounded`: `gunicorn.conf.py:3-4` wants each model loaded once per process.
  What the code gives is once per thread, and once more for `warmup`.
- `LossNeedsRace`: a model that can be loaded is given up only for a load that
  failed while another one ran.
- `UnscreenedOnlyDegraded`: a cached question that a layer flags was put when that
  layer was missing. Such an answer stays until the cache forgets it, also after
  the model is back: the cache is read before the guard.
- `ChartNotBlocked`: no image that `looks_like_chart` calls a chart is blocked. The
  two are decided on different numbers: the OCR veto changes `is_chart` only, the
  block in `app.py:311` looks at the confidence only.

### AnswerCache

`store` is the `OrderedDict` in its order, `stale` the entries whose TTL is over,
`touched` the keys in the order of their last use. `KeepsRecent`: an answer that
has not expired is there unless `ANSWER_CACHE_MAX` other keys were used since.

### Orchestrator

The programs one types at a terminal run one after another: `prog` is which one,
`phase` where it is, `plan` the children still to be spawned, `procs` its list of
children, `own` the pod it has just created, `file` the state file. Ctrl-C may
come in every phase (`CtrlC`, `CtrlCProvisioning`, `CtrlCTearDown`,
`CtrlCInFinally`; the teardown of the idle watchdog is the one that it does not
cut short). Children are in sessions of their own, so Ctrl-C reaches them only
through the `finally` clause. Between `Popen` and `procs.append` (`Spawn`,
`Enlist`) a child is in nobody's list; `compose up` runs before the `try`.
`PodSetupDies` is a `die()`, which the script catches as `SystemExit`;
`PodSetupRaises` is anything else (`TimeoutExpired`), which it does not.
`BackendProvisions` is the backend running `runpod_up.py` itself meanwhile.
`slipped`, `torn` and `struck` are history: the children, containers and pods that
were hit by an event that the code does not answer.

- `NothingLeftRunning`, `PodsAccountedFor`: a child, a container or a pod outlives
  its program only if it is among those. The histories are marked by the event,
  not by the outcome, so a clean-up that forgot one case would show.
- `DeadChildEnds` (liveness): one child that dies brings the program to its end.

### Training and Evaluation

`Training` runs the loop batch by batch: `grads` are the batches accumulated since
the last step, `applied` those used by a step. A checkpoint is written in two
halves, the adapter and the trainer state, and a `Kill` may come between them;
`mixed` names the checkpoints it cut. A checkpoint carries the number of the
training and the loss it was written at. `NaN` is a loss that is never below the
best.

- `GradientLedger`: no batch goes into two steps and none is dropped while the run
  goes on. The batches left over at the end of an epoch join the first step of the
  next one, so that step has more than `grad_accum`. Those left over at the end of
  the last or only epoch have been through `backward()` and are in no step, since
  none follows the loop, unless the cap stopped the run before; and with fewer
  batches than `grad_accum` in an epoch no step is ever taken (`Unused`). So the
  loop covers "the whole training set" (`finetune_lora.py:208-210`) only when
  `grad_accum` divides the length of an epoch.
- `StepBudget`: a run takes the `total_steps` that its scheduler is told, except
  that a cap below 1 still takes one step.
- `BestIsLowest`: once a step was validated, `checkpoint-best` holds the weights of
  the lowest loss of this training, also under a run name that was used before;
  adapter and trainer state of a checkpoint agree unless a kill cut it.

`Evaluation` writes one folder per technique: `Start` wipes it, `Sample` answers
one sample and saves the image of a wrong one, `Report` writes `errors.json` last,
`Killed` ends it anywhere. `ExactMatch` and `RelaxedMatch` are the metrics over a
small set of answers. `Compare` is `compare_errors`.

- `ErrorsAreLastRun`: where there is an `errors.json` it is of the last run, the
  images beside it are those it names, and the results reconstructed from it are
  how each sample went.
- `ComparisonSound`: the rows are the samples that exactly one run got wrong, given
  that both scored the same samples by the same metric, which nothing checks. The
  other prediction is reported to be the gold answer ("exact metric"), while
  `run_eval_compare.sh` scores by `relaxed`: then it is only within the tolerance.

## Runs

| Run | Bounds | Why they are enough |
| --- | --- | --- |
| `budget` | 2 threads of one instance and 1 of another, budget 1, 2 days, 1 fault or reset, Redis and the dicts | two threads race over `client()`, all three over Redis; two days give one midnight; a thread can be checked in one store and recorded in the other; 918 k states |
| `ask_pipeline` | 2 threads, 1 key, budget 1, 1 fault or reset, 1 blind read, 1 day, Redis and the dict | two threads on one key race the cache, the budget and `client()`; the second key that could be added is only another free choice; 1.5 M states |
| `ask_liveness` | 2 threads, 1 key, budget 1, 2 days, memory | the in-memory stores and midnight, which the other run leaves out (its restart empties the dict); no symmetry, because of the liveness property; 141 k states |
| `ask_one_result` | 1 thread, no pods | needs no race |
| `runpod_provider` | 2 callers, 4 pods, 2 faults | one provisions while one waits or takes over; with two faults three pods may be billed, so a fourth would show; 823 k states |
| `runpod_second_pod` | 2 callers, 2 pods, no fault, orchestrated | needs one call |
| `runpod_reachable` | 2 callers, 2 pods, no fault | one provisions, one waits |
| `rate_limit` | 2 threads, limit 1, 2 minutes, 5 requests a minute of one address and 1 of another, 1 error or restart | both threads can find `_resolved` false, or one be late; 5 requests are more than the fault-free bound of 4, and the other address makes a second stale key |
| `rate_limit_split` | 2 threads, 1 address, limit 1, 1 minute, no fault | one pings, one counts |
| `browser_session` | 2 requests, 2 images, 2 sign-ins, 5 event sequences, every cut | a second request meets what the first left; a second sign-in meets a late 401 of the first |
| `screening` | 2 threads and the boot thread, 3 keys, 1 local layer and the LLM layer | three loaders overlap in every order; the keys are a chart at the limit, one flagged by both kinds of layer, and images on which CLIP, OCR and the heuristic differ; 973 k states |
| `programs` | 4 keys in a cache of 2; 3 programs and 3 pods; 5 training configurations, 2 trainings; 2 samples, 2 folders | evictions of used and unused entries; a program that finds what two others left; a remainder with and without a cap, a cap of 0, epochs without a step; a run name used twice; runs over fewer samples; 521 k states |

The named bounds are `MaxAsks`, `MaxSignIns`, `LastDay`, `LastMinute`, `MaxAsked`,
`MaxFaults`, `MaxBlind` (failed cache reads), `Pods`, `MaxPods`, `MaxRuns` (programs
started), `MaxTrainings` and `Limits` (samples of a run). They limit how often the
environment acts, never what the code does.
Deadlock is not checked: a system in which no request arrives may rest.

Fairness. `AskPipeline!FairSpec` has weak fairness of `Serve(t)`, what the server
does for a request that has arrived: every call in a stage has a timeout (Redis
sockets 2 s, the guard's HTTP client, `ensure_running`, the VLM request), so a
stage that runs ends. `RunpodProvider!FairSpec` has weak fairness of
`Proceed(t)`: a waiter has `timeout_s`, the script 900 s and `runpod_down.py`
60 s. `BrowserSession!FairSpec` has weak fairness of `Deliver(r)`: nginx ends a
response that stays silent for 300 s (`proxy_read_timeout`), which the browser
sees as a body that ends or breaks. `Programs` has weak fairness of `EndingStep`:
the orchestrator polls every half second, gives each child 8 s before it kills
it, and the commands it runs to clean up return. Arrivals, disconnects, evictions,
midnight, restarts, Ctrl-C and pods or children that die are never assumed to
happen.

## Proofs

All theorems hold for every finite set of threads and instances, every budget, with
or without Redis, and every bound; they rest on the named assumptions about the constants only.
These say what a deployment is: the layers of the guard have different names,
probabilities are thousandths, an image has between 1 and 512 quantized colours,
`BlockThreshold <= ClipThreshold`; `Configs` have positive sizes and any cap;
answers with the same text are the same for the metrics; the cache holds a
natural number of entries. Each safety invariant that a passing run checks is
also a theorem, `PodBound` for a provider without the orchestrator.

- `Budget`. The bound on `used` alone is not inductive: a record that is on its
  way, or a thread that has been admitted, would break it in the next step.
  `UnsettledBound` therefore adds to each counter the threads that were told its
  store and will raise it (`Settled`), and those that may still be sent to raise it
  without reading it first (`Loose`): the admitted ones, those that are being
  checked on an earlier day or in another store, and, for Redis, the threads of an
  instance that is not connected yet. `CrowdIsBounded` says how many these can be.
  A check that passes adds a thread when the counter is below the budget; a record
  moves one from the set to the counter; a failed call pays for one, a reset for
  all users of the store. That the dict loses a slot rests on `Unresolved` (an
  instance that has not resolved its client has not used its dict) and `Connecting`
  (until a reset, an instance that is resolved and not connected has a thread that
  pings). `DaysTaken` and `FutureIsBlank` carry it across midnight.
  `EveryAnswerCounted` is about all stores at once: the answers of a day are,
  without faults, exactly the numbered pairs in `Accounted`, counted in some store
  or bound for one. `OvershootIsBounded` follows from the first,
  `FaultFreeAnswersAreBounded` from both; `CounterIsHonest` is a part of the invariant.
- `AskPipeline`. `StampedeIsBounded` needs `KeyCost`, for each store: of a cached key
  only the threads that have already missed it there can pay again; of an uncached
  one every payment so far was spilled or is still held by a thread. `PutFails`,
  `Disconnect` and a put into the other store move a payment from held to spilled,
  a put into the store that was looked in turns the second form into the first.
  `MockIsFree` is needed besides, for mock mode shares the stages. `PipelineFollowsBudget` proves the refinement, action by
  action: initial states map to initial states and each step is a step of
  `Budget` or leaves its variables alone. `PipelineScreensFirst` needs to know of
  the requests that are not past the screens too that they hold only verdicts on
  their own key (`OwnVerdicts`): an idle thread holds none, so a new request
  cannot inherit one, and a verdict that lets a request through clears its key.
- `RunpodProvider`. `OneProvisioner` follows from a lemma that each step takes
  the claim, releases it, restarts, or leaves it alone. `PodsAreBounded` needs
  `PodInv`: the pods nobody is answerable for (`Adrift`) number at most the
  faults, and one more while the provider serves; a script that has verified the
  port and then sees it go dead found its evidence in a pod adrift that is now
  gone, or a fault has been paid (`VerifiedBound`). An unnamed pod is adrift from
  the step that makes it, and each of the steps that may do so is a fault. It assumes
  `~ Orchestrated`; with an orchestrator the bound is false, as the run shows.

- `RateLimit`. The bound on `passed` says nothing about what the counters still
  allow, so it is not inductive. `PassAccount` adds that room (`Room`: what each
  store would still let through) while the minute lasts, and the requests not
  counted yet (`Pending`) once it is over, when a prune or an expiry may give
  back any room but no new request can come. `BlockAccount` is the same ledger
  for refusals. A count moves one request from the room to `passed`, a restart
  pays for the room that it restores. `StaleBound` needs `StaleAccount`: each
  stale key was inserted by a thread that the dict had overtaken, and the
  threads overtaken now may each add one more. `ImmortalBound` is inductive once
  the phases are known: a key loses the thread that would give it a TTL only to
  an error or to a restart, and both are counted.

- `BrowserSession`. What is shown depends on the requests that are not over, so
  `OutcomeShown` needs `LoadingIsExact` (only the newest can still end) and
  `ImageKept` (a request in flight is about the image on display, or that was
  replaced, and no failure is on display while it is out). Every end of a request
  is one lemma (`SettleKeeps`), every arrival short of it another (`ArrivalKeeps`).
  `StreamsIntact` is about places on the wire. `Reading` says of a request that
  reads that it has handed out the first `c` events of the script, keeps the
  symbols behind place `4c`, fewer than four, and has the others to come. A piece
  makes a longer window of the same wire, and in a window the only two line feeds
  in a row are the end of an event (`CutFacts`, with `Ranks` for the order of the
  cuts), so its lines are whole events, all of which are data and parse
  (`LineFacts`, `ReadFacts`), and what is left is a window again (`RestFacts`).
  `LastResultConcat` carries the result that is held across the pieces.
  `ReadsNeverThrow` is the corollary that no cut makes `JSON.parse` throw.

- `Screening`. A count of loads is no bound by itself. While a memo is empty the
  loads are exactly the threads inside the loader (`MemoKnown`), and each thread
  enters once; when the memo is filled they are more than the threads still
  inside, so a memo that says "missing" though the model could be loaded had two.
  `ClipKnown` is the same for the global that is overwritten. For the cache,
  `ThreadKnown` says of each thread that the layers it has passed and that flag its
  question are those it skipped; `CacheWasScreened` follows when it puts.
  `ChartsPass` assumes of the thresholds what the gate needs for its two stages to
  agree: the least confidence of a picture that the heuristic calls a chart is not
  below `BlockThreshold` (`ThresholdsAgree`; with the repository's settings 543
  against 400 thousandths). With others an image may be called a chart and blocked.
- `Orchestrator`. `IInv` says for each program and phase what can exist by then
  (`Placed`), and then of children, containers and pods that each is in the list
  or the file that the rest of this phase's clean-up works through, or is marked.
  What makes it inductive is that a phase is left only when its list is empty.
- `AnswerCache`. `CacheInv` says that the order of the dict and the order of use
  agree: what is behind a stored key in the dict has been used later
  (`Behind(store, x) \subseteq Behind(touched, x)`), and a key that is not
  expired and not stored has `MaxEntries` others behind it. An eviction takes the
  first of the dict, with `MaxEntries` behind it; moving a key to the end puts one
  more behind all others; so `CacheKeepsRecent`.
- `Evaluation`. `EvalInv` keeps, for the folder being written, the errors so far in
  step with the answers so far (`Scored`), and says that this folder has no report
  yet: so a kill leaves none. `ComparisonsSound` adds to it (`EvalDetail`) that the
  report tells exactly which answers were wrong and what was said.
- `Training`. `TrainInv` relates what is about to be saved (`saving`) to the losses:
  a due `checkpoint-best` is due because the last loss is the lowest one, and a
  checkpoint not due agrees with its log unless it is `mixed`. `CountInv` gives
  `grads`, `applied` and `step` as functions of the place in the loop (`Ledger`):
  `GradientsAccounted` and `StepsTaken` are arithmetic on them, with the cap as
  `finetune_lora.py` looks at it, after a step (`Capped`): a run that the cap ends has
  just stepped and holds nothing, any other has come to the end of its last epoch
  (`UnusedWhenDone`).
- `Programs`. `EachPart`: a behaviour of the composition is one of each part, since
  a step of one leaves the variables of the others alone. `ProgramsSound` carries
  what was proved of the parts over to it.

Only model-checked: the liveness properties `EveryRequestEnds`, `ClaimReleased`,
`LoadingEnds` and `DeadChildEnds` (fairness and ENABLED are out of the prover's
reach). `PodBound` is proved for `~ Orchestrated`, as it is checked. What the runs
that expect a violation refute is not a theorem of any kind.

## Not modelled

- What the classifiers and the models compute, and decoding or re-encoding an image:
  the work of libraries. The models have them as constants or as free choices.
- Token verification. It is a library call too; `_prepare_ask` and the rate key each
  verify the token, and the two may differ. That hazard has no property.
- `/metrics`: its counters only grow, and no decision reads them.
- The VLM service: one stateless endpoint, seen as an answer, an error or a timeout.
- Deployment scripts: calls to gcloud, with no state of their own.
- Latency and memory statistics, MLflow, plots, the learning rate and the optimizer
  itself, wording and layout.
- Installs that are cut in half. `ensure_backend_deps` looks only whether the venv
  exists and the frontend's counterpart whether `node_modules` does, so a broken
  install is taken for a complete one; the model has installs that succeed or fail.
- The descendants of a child (`npm` and the server it starts), and whatever else
  uses the same ports.
- The Redis side of the answer cache beyond "a key is there or not", in particular
  what Redis does with a TTL below one second.
- Branches that the modelled callers cannot reach: the two fail-open returns of
  `_heuristic_chart` (the image has been decoded and re-encoded before), and the 401
  that `askQuestionStream` reads off a response that is not ok (the stream endpoint
  sends its 401 as an event). The question's text is normalised for the cache's key
  and screened raw; one key value stands for both.
- In the frontend the health probe, `warmVlm`, object URLs and `askQuestion`, which
  `App.jsx` does not call.
