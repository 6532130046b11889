----------------------------- MODULE NsigClient -----------------------------
(***************************************************************************)
(* The nsig client (src/nsig_client.cpp with the runner lifecycle of       *)
(* src/nsig_runner.cpp): any number of threads call decipher_nsig, share   *)
(* the process-wide player cache and its mutex, and each builds a          *)
(* JavaScript runtime of its own.                                          *)
(*                                                                         *)
(* pc[t] is the point of the call thread t has reached:                    *)
(*   idle       outside the library                                        *)
(*   discover   about to fetch /iframe_api                                 *)
(*   lockHit    waiting for cache_mutex before the lookup of               *)
(*              decipher_nsig(n); hit: owns it, about to look up           *)
(*   fetch      about to fetch base.js                                     *)
(*   lockFind   waiting for the mutex in get_or_extract; find: owns it     *)
(*   extract    about to run the extraction, without the mutex             *)
(*   lockStore  waiting to store; store: owns the mutex                    *)
(*   create, setup, decipher   the three steps of decipher_with_cached     *)
(***************************************************************************)
EXTENDS NsigData

CONSTANT Threads

ASSUME ThreadsAssumption == None \notin Threads \cup {"fresh"}

VARIABLES
  current,  \* the player version YouTube serves (changed by YouTube alone)
  mutex,    \* the owner of cache_mutex, or None
  cache,    \* player_cache(): key -> cached_player, or None when absent
  pc,
  key,      \* key[t]: the cache key of the call (player_id or hash), or None
  js,       \* js[t]: the base.js text in hand; None: not a player's text
  cp,       \* cp[t]: the thread's own cached_player; None: none, or a
            \*   reference into the map (the hit path of decipher_nsig(n))
  runner,   \* runner[t]: None, "fresh" (created), or the script set up in it
  reply     \* reply[t]: what the last call returned

vars == <<current, mutex, cache, pc, key, js, cp, runner, reply>>

Labels == {"idle", "discover", "lockHit", "hit", "fetch", "lockFind", "find",
           "extract", "lockStore", "store", "create", "setup", "decipher"}

Running == {"create", "setup", "decipher"}

TypeOK ==
  /\ current \in Sources
  /\ mutex \in Threads \cup {None}
  /\ cache \in [Keys -> CachedPlayer \cup {None}]
  /\ pc \in [Threads -> Labels]
  /\ key \in [Threads -> Keys \cup {None}]
  /\ js \in [Threads -> Sources \cup {None}]
  /\ cp \in [Threads -> CachedPlayer \cup {None}]
  /\ runner \in [Threads -> Sources \cup {"fresh", None}]
  /\ reply \in [Threads -> Replies]

Init ==
  /\ current \in Sources
  /\ mutex = None
  /\ cache = [k \in Keys |-> None]
  /\ pc = [t \in Threads |-> "idle"]
  /\ key = [t \in Threads |-> None]
  /\ js = [t \in Threads |-> None]
  /\ cp = [t \in Threads |-> None]
  /\ runner = [t \in Threads |-> None]
  /\ reply = [t \in Threads |-> None]

Goto(t, from, to) ==
  /\ pc[t] = from
  /\ pc' = [pc EXCEPT ![t] = to]

(* Leaving the call with result r: the locals die, the guard of             *)
(* decipher_with_cached destroys the runner, and then the lock_guard of the *)
(* hit path gives the mutex back.                                           *)
Return(t, r) ==
  /\ pc' = [pc EXCEPT ![t] = "idle"]
  /\ reply' = [reply EXCEPT ![t] = r]
  /\ runner' = [runner EXCEPT ![t] = None]
  /\ mutex' = IF mutex = t THEN None ELSE mutex
  /\ js' = [js EXCEPT ![t] = None]
  /\ cp' = [cp EXCEPT ![t] = None]
  /\ UNCHANGED <<current, cache, key>>

(* An error return: error{..., "NSIG"}. *)
Fail(t) == Return(t, Failed)

(* std::lock_guard<std::mutex> lock(cache_mutex()) *)
Lock(t, from, to) ==
  /\ mutex = None
  /\ mutex' = t
  /\ Goto(t, from, to)
  /\ UNCHANGED <<current, cache, key, js, cp, runner, reply>>

(* YouTube starts to serve another version. *)
Rollout ==
  /\ \E p \in Sources \ {current} : current' = p
  /\ UNCHANGED <<mutex, cache, pc, key, js, cp, runner, reply>>

----------------------------------------------------------------------------
(* decipher_nsig(n) *)

CallById(t) ==
  /\ Goto(t, "idle", "discover")
  /\ key' = [key EXCEPT ![t] = None]
  /\ reply' = [reply EXCEPT ![t] = None]
  /\ UNCHANGED <<current, mutex, cache, js, cp, runner>>

(* Mutant: an empty id between the two literals is not rejected. *)
DiscoverEmptyId(t) ==
  /\ Goto(t, "discover", "lockHit")
  /\ \E p \in {current, None} : key' = [key EXCEPT ![t] = IdKey(p)]
  /\ UNCHANGED <<current, mutex, cache, js, cp, runner, reply>>

(* Mutant: the id is remembered once one version has been cached. *)
DiscoverOnce(t) ==
  LET known == {p \in Sources : cache[IdKey(p)] # None} IN
  /\ Goto(t, "discover", "lockHit")
  /\ \E p \in IF known = {} THEN {current} ELSE known :
       key' = [key EXCEPT ![t] = IdKey(p)]
  /\ UNCHANGED <<current, mutex, cache, js, cp, runner, reply>>

(* discover_player_id: the id served now, or a transport error, a status    *)
(* outside 200..299 or a body without an id.                                *)
DiscoverPlayerId(t) ==
  \/ /\ Goto(t, "discover", "lockHit")
     /\ key' = [key EXCEPT ![t] = IdKey(current)]
     /\ UNCHANGED <<current, mutex, cache, js, cp, runner, reply>>
  \/ pc[t] = "discover" /\ Fail(t)

(* Mutant: the lock's scope ends with the lookup, the reference lives on. *)
HitUnlocked(t) ==
  /\ Goto(t, "hit", IF cache[key[t]] # None THEN "create" ELSE "fetch")
  /\ mutex' = None
  /\ UNCHANGED <<current, cache, key, js, cp, runner, reply>>

(* Mutant: the lock's scope is the whole of decipher_nsig(n). *)
MissKeepsLock(t) ==
  /\ Goto(t, "hit", IF cache[key[t]] # None THEN "create" ELSE "fetch")
  /\ UNCHANGED <<current, mutex, cache, key, js, cp, runner, reply>>

(* A hit goes on to decipher_with_cached with it->second by reference and   *)
(* the mutex still owned; a miss releases the mutex.                        *)
HitOrMiss(t) ==
  \/ /\ Goto(t, "hit", "create")
     /\ cache[key[t]] # None
     /\ UNCHANGED <<current, mutex, cache, key, js, cp, runner, reply>>
  \/ /\ Goto(t, "hit", "fetch")
     /\ cache[key[t]] = None
     /\ mutex' = None
     /\ UNCHANGED <<current, cache, key, js, cp, runner, reply>>

(* Mutant: base.js is fetched from a URL that names no version. *)
FetchLatest(t) ==
  /\ Goto(t, "fetch", "lockFind")
  /\ js' = [js EXCEPT ![t] = current]
  /\ UNCHANGED <<current, mutex, cache, key, cp, runner, reply>>

(* Mutant: a failed fetch starts over from the discovery. *)
FetchRetries(t) ==
  /\ \/ /\ Goto(t, "fetch", "lockFind")
        /\ \E s \in {p \in Sources : key[t] = IdKey(p)} :
             js' = [js EXCEPT ![t] = s]
     \/ Goto(t, "fetch", "discover") /\ UNCHANGED js
  /\ UNCHANGED <<current, mutex, cache, key, cp, runner, reply>>

(* fetch_player_js: the text of the version the URL names, a 2xx body that  *)
(* is no player at all (None), or an error.                                 *)
FetchPlayerJs(t) ==
  \/ /\ Goto(t, "fetch", "lockFind")
     /\ \E s \in {p \in Sources : key[t] = IdKey(p)} \cup {None} :
          js' = [js EXCEPT ![t] = s]
     /\ UNCHANGED <<current, mutex, cache, key, cp, runner, reply>>
  \/ pc[t] = "fetch" /\ Fail(t)

----------------------------------------------------------------------------
(* decipher_nsig(n, player_js) *)

CallWithSource(t, s) ==
  /\ Goto(t, "idle", "lockFind")
  /\ key' = [key EXCEPT ![t] = SourceKey(s)]
  /\ js' = [js EXCEPT ![t] = s]
  /\ reply' = [reply EXCEPT ![t] = None]
  /\ UNCHANGED <<current, mutex, cache, cp, runner>>

----------------------------------------------------------------------------
(* get_or_extract: look up under the mutex, extract without it, store under *)
(* it again.                                                                *)

(* Mutant: the lookup is left to the caller, so every call extracts. *)
FindNothing(t) ==
  /\ Goto(t, "find", "extract")
  /\ mutex' = None
  /\ UNCHANGED <<current, cache, key, js, cp, runner, reply>>

Find(t) ==
  /\ mutex' = None
  /\ \/ /\ Goto(t, "find", "create")
        /\ cache[key[t]] # None
        /\ cp' = [cp EXCEPT ![t] = cache[key[t]]]
     \/ /\ Goto(t, "find", "extract")
        /\ cache[key[t]] = None
        /\ UNCHANGED cp
  /\ UNCHANGED <<current, cache, key, js, runner, reply>>

Extract(t) ==
  \/ /\ Goto(t, "extract", "lockStore")
     /\ js[t] \in Extractable
     /\ cp' = [cp EXCEPT ![t] = Extracted(js[t])]
     /\ UNCHANGED <<current, mutex, cache, key, js, runner, reply>>
  \/ /\ pc[t] = "extract"
     /\ js[t] \notin Extractable
     /\ Fail(t)

(* player_cache()[key] = cp, whether or not an entry is there by now; the   *)
(* freed heap is then given back, which touches nothing modelled here.      *)
Store(t) ==
  /\ Goto(t, "store", "create")
  /\ cache' = [cache EXCEPT ![key[t]] = cp[t]]
  /\ mutex' = None
  /\ UNCHANGED <<current, key, js, cp, runner, reply>>

----------------------------------------------------------------------------
(* decipher_with_cached *)

(* The cached_player in use: the thread's copy, or the map's entry itself. *)
InUse(t) == IF cp[t] = None THEN cache[key[t]] ELSE cp[t]

CreateRunner(t) ==
  \/ /\ Goto(t, "create", "setup")
     /\ runner' = [runner EXCEPT ![t] = "fresh"]
     /\ UNCHANGED <<current, mutex, cache, key, js, cp, reply>>
  \/ pc[t] = "create" /\ Fail(t)

(* Mutant: one runtime is shared, and not set up again once it has been. *)
SetupShared(t) ==
  /\ Goto(t, "setup", "decipher")
  /\ \E u \in Threads :
       /\ (\E v \in Threads : runner[v] \in Sources) => runner[u] \in Sources
       /\ runner' = [runner EXCEPT ![t] =
            IF runner[u] \in Sources THEN runner[u] ELSE InUse(t).output]
  /\ UNCHANGED <<current, mutex, cache, key, js, cp, reply>>

(* Mutant: the error return of setup comes before the guard. *)
SetupLeaks(t) ==
  /\ pc[t] = "setup"
  /\ pc' = [pc EXCEPT ![t] = "idle"]
  /\ reply' = [reply EXCEPT ![t] = Failed]
  /\ mutex' = IF mutex = t THEN None ELSE mutex
  /\ cp' = [cp EXCEPT ![t] = None]
  /\ UNCHANGED <<current, cache, key, js, runner>>

Setup(t) ==
  \/ /\ Goto(t, "setup", "decipher")
     /\ runner' = [runner EXCEPT ![t] = InUse(t).output]
     /\ UNCHANGED <<current, mutex, cache, key, js, cp, reply>>
  \/ pc[t] = "setup" /\ Fail(t)

Decipher(t) ==
  /\ pc[t] = "decipher"
  /\ \/ Return(t, [script |-> runner[t], player_id |-> key[t],
                   sts |-> InUse(t).sts])
     \/ Fail(t)

----------------------------------------------------------------------------
LockStep(t) ==
  \/ Lock(t, "lockHit", "hit")
  \/ Lock(t, "lockFind", "find")
  \/ Lock(t, "lockStore", "store")

(* The steps of a call that run no downloaded JavaScript: C++ code, and     *)
(* requests that curl bounds with a timeout.                                *)
NativeStep(t) ==
  \/ DiscoverPlayerId(t) \/ HitOrMiss(t) \/ FetchPlayerJs(t)
  \/ Find(t) \/ Extract(t) \/ Store(t) \/ CreateRunner(t) \/ LockStep(t)

(* The steps that run the downloaded script, which nothing interrupts.      *)
ScriptStep(t) == Setup(t) \/ Decipher(t)

Call(t) == CallById(t) \/ \E s \in Sources : CallWithSource(t, s)

Next ==
  \/ Rollout
  \/ \E t \in Threads : Call(t) \/ NativeStep(t) \/ ScriptStep(t)

Spec == Init /\ [][Next]_vars

(* Every thread is scheduled, std::mutex admits a waiter when it stays      *)
(* free, and requests end.  Nothing is assumed of ScriptStep.               *)
FairSpec == Spec /\ \A t \in Threads : WF_vars(NativeStep(t))

----------------------------------------------------------------------------
(* Properties *)

(* The threads that read or write player_cache(): the three critical        *)
(* sections, and decipher_with_cached while it works on it->second itself.  *)
TouchesCache(t) ==
  \/ pc[t] \in {"hit", "find", "store"}
  \/ pc[t] \in Running /\ cp[t] = None

(* No two threads are in the unordered_map (or in an entry of it by         *)
(* reference) at once, so a store never races a lookup nor a hit that is    *)
(* still deciphering with the entry.                                        *)
NoDataRace ==
  \A t, u \in Threads : TouchesCache(t) /\ TouchesCache(u) => t = u

(* The cache is never poisoned: an entry holds script and timestamp of one  *)
(* extractable text that its key names, whatever was fetched, failed or     *)
(* rolled out while it was filled.                                          *)
CacheCoherent ==
  \A k \in Keys : cache[k] # None =>
    \E s \in Extractable \cap Named(k) : cache[k] = Extracted(s)

(* A successful reply comes from the version the call was bound to, script  *)
(* and timestamp together; a hash collision can only affect calls that      *)
(* supply a text.                                                           *)
ReplyFaithful ==
  \A t \in Threads : reply[t] \notin {None, Failed} =>
    \E s \in Extractable \cap Named(key[t]) : reply[t] = ReplyFrom(s, key[t])

(* Whatever the exit, a call leaves neither the mutex nor a runtime behind, *)
(* and a runtime exists only while its call is between setup and return.    *)
NothingLeftBehind ==
  \A t \in Threads :
    /\ pc[t] = "idle" => mutex # t
    /\ runner[t] # None <=> pc[t] \in {"setup", "decipher"}

(* Key k is cached and no call is past its own lookup of k with a miss. *)
Settled(k) ==
  /\ cache[k] # None
  /\ \A t \in Threads :
       pc[t] \in {"extract", "lockStore", "store"} => key[t] # k

(* Once a version is cached and the calls that had missed it have stored    *)
(* theirs, it is never extracted or stored again: later calls reuse it.     *)
MemoIsEffective == [][\A k \in Keys : Settled(k) => Settled(k)']_vars

(* The client with its cache and lock implements the service without.       *)
Service == INSTANCE NsigService
             WITH asking <- {t \in Threads : pc[t] # "idle"}, target <- key

ImplementsService == Service!Spec

(* NSIG.md: "extraction runs at most once per version".                     *)
ExtractedAtMostOnce ==
  \A t, u \in Threads :
    pc[t] = "extract" /\ pc[u] = "extract" /\ key[t] = key[u] => t = u

(* The callers stop calling at some point. *)
CallersRest ==
  <>[][\A t \in Threads : pc[t] = "idle" => pc'[t] = "idle"]_vars

WaitsForLock(t) == pc[t] \in {"lockHit", "lockFind", "lockStore"}
RunsScript(t) == pc[t] \in {"setup", "decipher"}

(* A script that never ends blocks another call for ever only if it runs on *)
(* the hit path, under the mutex: when those end, every wait for the mutex  *)
(* does, even with other scripts hanging.                                   *)
OnlyLockedScriptsBlock ==
  /\ CallersRest
  /\ \A t \in Threads : (RunsScript(t) /\ mutex = t) ~> mutex # t
  => \A t \in Threads : WaitsForLock(t) ~> ~WaitsForLock(t)

(* If the scripts end, every call returns.                                  *)
EveryCallReturns ==
  /\ CallersRest
  /\ \A t \in Threads : RunsScript(t) ~> ~RunsScript(t)
  => \A t \in Threads : pc[t] # "idle" ~> pc[t] = "idle"
=============================================================================
