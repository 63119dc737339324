----------------------------- MODULE RedisClient -----------------------------
(***************************************************************************)
(* The connection that the limiter, the answer cache and the budget share, *)
(* backend/redis_client.py, as the request threads of every instance of    *)
(* the backend call client().                                              *)
(*                                                                         *)
(* An instance resolves its client once: the thread that finds _resolved   *)
(* false sets it BEFORE it pings, with no lock, so whoever asks meanwhile  *)
(* is told that there is no Redis and turns to the instance's own dicts.   *)
(* A consumer asks on every call it makes, so one request may be told      *)
(* first one store and then the other.                                     *)
(*                                                                         *)
(* The places of a thread in client(), and after it until the store is     *)
(* used:                                                                   *)
(*   out: not in a consumer;          call: at `if _resolved`, or, the     *)
(*   claiming: found it false;              ping over, at `return _client` *)
(*   pinging: in from_url and ping;   redis, memory: was told this store.  *)
(*                                                                         *)
(* This module has the variables and the steps of the client; the modules  *)
(* that extend it have the consumers.  RateLimit has these steps for one   *)
(* instance, with the limiter's two stores.                                *)
(***************************************************************************)
EXTENDS Naturals, FiniteSets

CONSTANTS
    Threads,    \* the request threads of all instances (gunicorn: 8 in each)
    Instances,  \* the backend processes that share a Redis
    Home,       \* the instance of each thread
    RedisUrl,   \* whether REDIS_URL is set and the package is installed
    MaxFaults   \* bound: failed calls and pings, and restarts

ASSUME ClientAssumption ==
    /\ IsFiniteSet(Threads)
    /\ IsFiniteSet(Instances)
    /\ Home \in [Threads -> Instances]
    /\ \A i \in Instances : \E t \in Threads : Home[t] = i
    /\ RedisUrl \in BOOLEAN
    /\ MaxFaults \in Nat
    /\ "redis" \notin Instances

VARIABLES
    resolved,   \* the instances whose _resolved is True
    connected,  \* the instances whose _client is a live client
    conn,       \* where each thread is with respect to client()
    faults,     \* history: calls to Redis that failed
    resets      \* history: pings that failed, and restarts

clientVars == <<resolved, connected, conn, faults, resets>>
linkVars   == <<resolved, connected, faults, resets>>

(* What a consumer may store in: Redis, or the dicts of one instance.      *)
Stores == Instances \cup (IF RedisUrl THEN {"redis"} ELSE {})

Told(t)    == conn[t] \in {"redis", "memory"}
StoreOf(t) == IF conn[t] = "redis" THEN "redis" ELSE Home[t]
UsersOf(s) == {t \in Threads : s = "redis" \/ Home[t] = s}

ClientTypes ==
    /\ resolved \subseteq Instances
    /\ connected \subseteq resolved
    /\ conn \in [Threads -> {"out", "call", "claiming", "pinging", "redis",
                             "memory"}]
    /\ \A t \in Threads : conn[t] = "pinging" => Home[t] \in resolved
    /\ ~ RedisUrl => /\ connected = {}
                     /\ \A t \in Threads : conn[t] \notin {"pinging", "redis"}
    /\ faults \in 0 .. MaxFaults
    /\ resets \in 0 .. MaxFaults

ClientInit ==
    /\ resolved = {}
    /\ connected = {}
    /\ conn = [t \in Threads |-> "out"]
    /\ faults = 0
    /\ resets = 0

At(t, place) == conn' = [conn EXCEPT ![t] = place]

(* A consumer calls client(), and is done with the store it was told.      *)
Ask(t)  == conn[t] = "out" /\ At(t, "call")
Done(t) == Told(t) /\ At(t, "out")

MayFail == faults + resets < MaxFaults

Fault ==
    /\ MayFail
    /\ faults' = faults + 1
    /\ UNCHANGED resets

-----------------------------------------------------------------------------
(* `return _client`, of a later caller and of the one that has pinged.     *)
Return(t) ==
    /\ conn[t] = "call"
    /\ Home[t] \in resolved
    /\ At(t, IF Home[t] \in connected THEN "redis" ELSE "memory")
    /\ UNCHANGED linkVars

(* `if _resolved` is false.                                                *)
FindUnresolved(t) ==
    /\ conn[t] = "call"
    /\ Home[t] \notin resolved
    /\ At(t, "claiming")
    /\ UNCHANGED linkVars

(* _resolved is set, whatever comes of it; without a URL that is all.      *)
Claim(t) ==
    /\ conn[t] = "claiming"
    /\ resolved' = resolved \cup {Home[t]}
    /\ At(t, IF RedisUrl THEN "pinging" ELSE "memory")
    /\ UNCHANGED <<connected, faults, resets>>

PingAnswers(t) ==
    /\ conn[t] = "pinging"
    /\ connected' = connected \cup {Home[t]}
    /\ At(t, "call")
    /\ UNCHANGED <<resolved, faults, resets>>

(* Unreachable: _client is set to None, also when another thread that      *)
(* found _resolved false had already set it to a live client.              *)
PingFails(t) ==
    /\ conn[t] = "pinging"
    /\ MayFail
    /\ resets' = resets + 1
    /\ connected' = connected \ {Home[t]}
    /\ At(t, "call")
    /\ UNCHANGED <<resolved, faults>>

Resolve(t) ==
    \/ Return(t)
    \/ FindUnresolved(t)
    \/ Claim(t)
    \/ PingAnswers(t)
    \/ PingFails(t)

(* Instance i dies and comes back: its threads and its client are gone.    *)
Reboot(i) ==
    /\ MayFail
    /\ resets' = resets + 1
    /\ resolved' = resolved \ {i}
    /\ connected' = connected \ {i}
    /\ conn' = [t \in Threads |-> IF Home[t] = i THEN "out" ELSE conn[t]]
    /\ UNCHANGED faults
=============================================================================
