-------------------------- MODULE NsigClientProofs --------------------------
(***************************************************************************)
(* Proofs about NsigClient, for any number of threads, texts and hash      *)
(* collisions.                                                             *)
(***************************************************************************)
EXTENDS NsigClient, TLAPS

(* cached_player e belongs under key k. *)
Belongs(e, k) == \E s \in Extractable \cap Named(k) : e = Extracted(s)

(* The mutex is owned by t exactly while t touches the cache. *)
LockInv == \A t \in Threads : mutex = t <=> TouchesCache(t)

(* What the locals of a call hold at each point of it. *)
LocalOK(t) ==
  /\ pc[t] = "discover" => key[t] = None
  /\ pc[t] \notin {"idle", "discover"} => key[t] # None
  /\ js[t] # None => js[t] \in Named(key[t])
  /\ js[t] # None => pc[t] \notin {"idle", "discover", "lockHit", "hit", "fetch"}
  /\ cp[t] # None => Belongs(cp[t], key[t])
  /\ cp[t] # None => pc[t] \in Running \cup {"lockStore", "store"}
  /\ pc[t] \in {"lockStore", "store"} => cp[t] # None
  /\ pc[t] \in Running => Belongs(InUse(t), key[t])
  /\ pc[t] = "decipher" => runner[t] = InUse(t).output
  /\ runner[t] # None <=> pc[t] \in {"setup", "decipher"}
  /\ pc[t] # "idle" => reply[t] = None

LocalInv == \A t \in Threads : LocalOK(t)

IInv == TypeOK /\ LockInv /\ LocalInv /\ CacheCoherent /\ ReplyFaithful

----------------------------------------------------------------------------
LEMMA KeyFacts ==
  /\ \A p \in Sources : IdKey(p) \in Keys /\ p \in Named(IdKey(p))
  /\ \A s \in Sources : SourceKey(s) \in Keys /\ s \in Named(SourceKey(s))
  /\ None \notin Keys
BY NoneAssumption DEF Keys, IdKeys, SourceKeys, Named

LEMMA ExtractedFacts ==
  \A s \in Sources : Extracted(s) \in CachedPlayer /\ Extracted(s) # None
BY NoneAssumption DEF Extracted, CachedPlayer

LEMMA InitIInv == Init => IInv
BY ThreadsAssumption DEF Init, IInv, TypeOK, LockInv, LocalInv, LocalOK, CacheCoherent, ReplyFaithful,
       Labels, Replies, TouchesCache, Running

LEMMA TypeStep == TypeOK /\ LocalInv /\ [Next]_vars => TypeOK'
<1> SUFFICES ASSUME TypeOK, LocalInv, [Next]_vars PROVE TypeOK'
  OBVIOUS
<1> USE KeyFacts, ExtractedFacts, DataAssumption DEF TypeOK, Labels
<1>1. CASE Rollout
  BY <1>1 DEF Rollout
<1>2. ASSUME NEW t \in Threads, Call(t) PROVE TypeOK'
  BY <1>2 DEF Call, CallById, CallWithSource, Goto, Replies
<1>3. ASSUME NEW t \in Threads, Fail(t) PROVE TypeOK'
  BY <1>3 DEF Fail, Return, Replies
<1>4. ASSUME NEW t \in Threads, LockStep(t) PROVE TypeOK'
  BY <1>4 DEF LockStep, Lock, Goto
<1>5. ASSUME NEW t \in Threads, DiscoverPlayerId(t) PROVE TypeOK'
  BY <1>5, <1>3 DEF DiscoverPlayerId, Goto
<1>6. ASSUME NEW t \in Threads, HitOrMiss(t) PROVE TypeOK'
  BY <1>6 DEF HitOrMiss, Goto
<1>7. ASSUME NEW t \in Threads, FetchPlayerJs(t) PROVE TypeOK'
  BY <1>7, <1>3 DEF FetchPlayerJs, Goto
<1>8. ASSUME NEW t \in Threads, Find(t) PROVE TypeOK'
  BY <1>8 DEF Find, Goto, LocalInv, LocalOK
<1>9. ASSUME NEW t \in Threads, Extract(t) PROVE TypeOK'
  BY <1>9, <1>3 DEF Extract, Goto
<1>10. ASSUME NEW t \in Threads, Store(t) PROVE TypeOK'
  BY <1>10 DEF Store, Goto
<1>11. ASSUME NEW t \in Threads, CreateRunner(t) PROVE TypeOK'
  BY <1>11, <1>3 DEF CreateRunner, Goto
<1>12. ASSUME NEW t \in Threads, Setup(t) PROVE TypeOK'
  <2>1. CASE Fail(t)
    BY <2>1, <1>3
  <2>2. CASE ~Fail(t)
    <3>1. InUse(t) \in CachedPlayer
      BY <1>12, <2>2 DEF Setup, Goto, LocalInv, LocalOK, Running, Belongs
    <3>2. QED
      BY <1>12, <2>2, <3>1 DEF Setup, Goto, CachedPlayer
  <2>3. QED
    BY <2>1, <2>2
<1>13. ASSUME NEW t \in Threads, Decipher(t) PROVE TypeOK'
  <2>1. CASE Fail(t)
    BY <2>1, <1>3
  <2>2. CASE ~Fail(t)
    <3>1. InUse(t) \in CachedPlayer /\ runner[t] = InUse(t).output /\ key[t] \in Keys
      BY <1>13 DEF Decipher, LocalInv, LocalOK, Running, Belongs
    <3>2. [script |-> runner[t], player_id |-> key[t], sts |-> InUse(t).sts] \in Replies
      BY <3>1 DEF Replies, NsigResult, CachedPlayer
    <3>3. QED
      BY <1>13, <2>2, <3>2 DEF Decipher, Return
  <2>3. QED
    BY <2>1, <2>2
<1>14. CASE UNCHANGED vars
  BY <1>14 DEF vars
<1>15. QED
  BY <1>1, <1>2, <1>4, <1>5, <1>6, <1>7, <1>8, <1>9, <1>10, <1>11, <1>12,
     <1>13, <1>14 DEF Next, NativeStep, ScriptStep

LEMMA LockInvStep == IInv /\ [Next]_vars => LockInv'
<1> SUFFICES ASSUME IInv, [Next]_vars, NEW u \in Threads
             PROVE (mutex = u <=> TouchesCache(u))'
  BY DEF LockInv
<1> USE ExtractedFacts, ThreadsAssumption, DataAssumption
    DEF IInv, TypeOK, LockInv, TouchesCache, Running
<1>1. CASE Rollout
  BY <1>1 DEF Rollout
<1>2. ASSUME NEW t \in Threads, Call(t) PROVE (mutex = u <=> TouchesCache(u))'
  BY <1>2 DEF Call, CallById, CallWithSource, Goto
<1>3. ASSUME NEW t \in Threads, Fail(t) PROVE (mutex = u <=> TouchesCache(u))'
  BY <1>3 DEF Fail, Return
<1>4. ASSUME NEW t \in Threads, LockStep(t)
      PROVE (mutex = u <=> TouchesCache(u))'
  BY <1>4 DEF LockStep, Lock, Goto
<1>5. ASSUME NEW t \in Threads, DiscoverPlayerId(t)
      PROVE (mutex = u <=> TouchesCache(u))'
  BY <1>5, <1>3 DEF DiscoverPlayerId, Goto
<1>6. ASSUME NEW t \in Threads, HitOrMiss(t)
      PROVE (mutex = u <=> TouchesCache(u))'
  BY <1>6 DEF HitOrMiss, Goto, LocalInv, LocalOK
<1>7. ASSUME NEW t \in Threads, FetchPlayerJs(t)
      PROVE (mutex = u <=> TouchesCache(u))'
  BY <1>7, <1>3 DEF FetchPlayerJs, Goto
<1>8. ASSUME NEW t \in Threads, Find(t)
      PROVE (mutex = u <=> TouchesCache(u))'
  BY <1>8 DEF Find, Goto, LocalInv, LocalOK
<1>9. ASSUME NEW t \in Threads, Extract(t)
      PROVE (mutex = u <=> TouchesCache(u))'
  BY <1>9, <1>3 DEF Extract, Goto
<1>10. ASSUME NEW t \in Threads, Store(t)
       PROVE (mutex = u <=> TouchesCache(u))'
  BY <1>10 DEF Store, Goto, LocalInv, LocalOK
<1>11. ASSUME NEW t \in Threads, CreateRunner(t)
       PROVE (mutex = u <=> TouchesCache(u))'
  BY <1>11, <1>3 DEF CreateRunner, Goto
<1>12. ASSUME NEW t \in Threads, Setup(t)
       PROVE (mutex = u <=> TouchesCache(u))'
  BY <1>12, <1>3 DEF Setup, Goto
<1>13. ASSUME NEW t \in Threads, Decipher(t)
       PROVE (mutex = u <=> TouchesCache(u))'
  BY <1>13, <1>3 DEF Decipher, Return
<1>14. CASE UNCHANGED vars
  BY <1>14 DEF vars
<1>15. QED
  BY <1>1, <1>2, <1>4, <1>5, <1>6, <1>7, <1>8, <1>9, <1>10, <1>11, <1>12,
     <1>13, <1>14 DEF Next, NativeStep, ScriptStep

LEMMA CoherentStep == IInv /\ [Next]_vars => CacheCoherent'
<1> SUFFICES ASSUME IInv, [Next]_vars PROVE CacheCoherent'
  OBVIOUS
<1>1. CASE UNCHANGED cache
  BY <1>1 DEF IInv, CacheCoherent
<1>2. ASSUME NEW t \in Threads, Store(t) PROVE CacheCoherent'
  <2>1. cp[t] # None /\ Belongs(cp[t], key[t])
    BY <1>2 DEF IInv, LocalInv, LocalOK, Store, Goto
  <2>2. QED
    BY <1>2, <2>1 DEF IInv, TypeOK, CacheCoherent, Belongs, Store
<1>3. QED
  BY <1>1, <1>2 DEF Next, vars, Call, NativeStep, ScriptStep, LockStep, Lock,
     Rollout, CallById, CallWithSource, DiscoverPlayerId, HitOrMiss,
     FetchPlayerJs, Find, Extract, CreateRunner, Setup, Decipher, Fail, Return

LEMMA ReplyStep == IInv /\ [Next]_vars => ReplyFaithful'
<1> SUFFICES ASSUME IInv, [Next]_vars, NEW u \in Threads,
                    reply'[u] \notin {None, Failed}
             PROVE \E s \in Extractable \cap Named(key'[u]) :
                     reply'[u] = ReplyFrom(s, key'[u])
  BY DEF ReplyFaithful
<1>1. CASE reply'[u] = reply[u] /\ key'[u] = key[u]
  BY <1>1 DEF IInv, ReplyFaithful
<1>2. CASE Decipher(u)
  <2>1. PICK s \in Extractable \cap Named(key[u]) : InUse(u) = Extracted(s)
    BY <1>2 DEF Decipher, IInv, LocalInv, LocalOK, Running, Belongs
  <2>2. /\ key' = key
        /\ reply'[u] = [script |-> runner[u], player_id |-> key[u],
                        sts |-> InUse(u).sts]
    BY <1>2 DEF Decipher, Fail, Return, IInv, TypeOK
  <2>3. runner[u] = s /\ InUse(u).sts = s
    BY <1>2, <2>1 DEF Decipher, IInv, LocalInv, LocalOK, Extracted
  <2>4. QED
    BY <2>1, <2>2, <2>3 DEF ReplyFrom
<1>3. QED
  BY <1>1, <1>2 DEF IInv, TypeOK, LocalInv, LocalOK, Next, vars, Call, NativeStep,
     ScriptStep, LockStep, Lock, Goto, Rollout, CallById, CallWithSource,
     DiscoverPlayerId, HitOrMiss, FetchPlayerJs, Find, Extract, Store,
     CreateRunner, Setup, Decipher, Fail, Return

(* A step of another thread keeps LocalOK(u): it leaves u's locals alone,  *)
(* and it may write the entry u works on by reference only if u does not.  *)
LEMMA OthersKeepLocal ==
  ASSUME IInv, NEW u \in Threads, key'[u] = key[u], pc'[u] = pc[u],
         js'[u] = js[u], cp'[u] = cp[u], runner'[u] = runner[u],
         reply'[u] = reply[u], TouchesCache(u) => cache' = cache
  PROVE  LocalOK(u)'
<1>1. pc[u] \in Running => InUse(u)' = InUse(u)
  BY DEF InUse, TouchesCache
<1>2. QED
  BY <1>1 DEF IInv, LocalInv, LocalOK, Belongs, Running

LEMMA LocalStep == IInv /\ [Next]_vars => LocalInv'
<1> SUFFICES ASSUME IInv, [Next]_vars, NEW u \in Threads PROVE LocalOK(u)'
  BY DEF LocalInv
<1> USE KeyFacts, ExtractedFacts, DataAssumption, NoneAssumption,
        ThreadsAssumption
    DEF IInv, TypeOK, LocalInv
<1>1. CASE Rollout
  BY <1>1, OthersKeepLocal DEF Rollout
<1>2. ASSUME NEW t \in Threads, Call(t) PROVE LocalOK(u)'
  <2>1. CASE t = u
    BY <1>2, <2>1 DEF Call, CallById, CallWithSource, Goto, LocalOK, Running
  <2>2. CASE t # u
    BY <1>2, <2>2, OthersKeepLocal DEF Call, CallById, CallWithSource, Goto
  <2>3. QED
    BY <2>1, <2>2
<1>3. ASSUME NEW t \in Threads, Fail(t) PROVE LocalOK(u)'
  <2>1. CASE t = u
    BY <1>3, <2>1 DEF Fail, Return, LocalOK, Running
  <2>2. CASE t # u
    BY <1>3, <2>2, OthersKeepLocal DEF Fail, Return
  <2>3. QED
    BY <2>1, <2>2
<1>4. ASSUME NEW t \in Threads, LockStep(t) PROVE LocalOK(u)'
  <2>1. CASE t = u
    BY <1>4, <2>1 DEF LockStep, Lock, Goto, LocalOK, Running
  <2>2. CASE t # u
    BY <1>4, <2>2, OthersKeepLocal DEF LockStep, Lock, Goto
  <2>3. QED
    BY <2>1, <2>2
<1>5. ASSUME NEW t \in Threads, DiscoverPlayerId(t) PROVE LocalOK(u)'
  <2>1. CASE t = u
    BY <1>5, <1>3, <2>1 DEF DiscoverPlayerId, Goto, LocalOK, Running
  <2>2. CASE t # u
    BY <1>5, <1>3, <2>2, OthersKeepLocal DEF DiscoverPlayerId, Goto
  <2>3. QED
    BY <2>1, <2>2
<1>6. ASSUME NEW t \in Threads, HitOrMiss(t) PROVE LocalOK(u)'
  <2>1. CASE t = u
    <3>1. cp'[u] = None /\ InUse(u)' = cache[key[u]] /\ key[u] \in Keys
      BY <1>6, <2>1 DEF HitOrMiss, Goto, LocalOK, InUse, Running
    <3>2. cache[key[u]] # None => Belongs(cache[key[u]], key[u])
      BY <3>1 DEF CacheCoherent, Belongs
    <3>3. QED
      BY <1>6, <2>1, <3>1, <3>2 DEF HitOrMiss, Goto, LocalOK, Running, Belongs
  <2>2. CASE t # u
    BY <1>6, <2>2, OthersKeepLocal DEF HitOrMiss, Goto
  <2>3. QED
    BY <2>1, <2>2
<1>7. ASSUME NEW t \in Threads, FetchPlayerJs(t) PROVE LocalOK(u)'
  <2>1. CASE t = u
    BY <1>7, <1>3, <2>1 DEF FetchPlayerJs, Goto, LocalOK, Running, Named
  <2>2. CASE t # u
    BY <1>7, <1>3, <2>2, OthersKeepLocal DEF FetchPlayerJs, Goto
  <2>3. QED
    BY <2>1, <2>2
<1>8. ASSUME NEW t \in Threads, Find(t) PROVE LocalOK(u)'
  <2>1. CASE t = u
    <3>1. key[u] \in Keys /\ (cache[key[u]] # None => Belongs(cache[key[u]], key[u]))
      BY <1>8, <2>1 DEF Find, Goto, LocalOK, CacheCoherent, Belongs
    <3>2. CASE pc'[u] = "create"
      BY <1>8, <2>1, <3>1, <3>2 DEF Find, Goto, LocalOK, Running, InUse, Belongs
    <3>3. CASE pc'[u] = "extract"
      BY <1>8, <2>1, <3>3 DEF Find, Goto, LocalOK, Running
    <3>4. QED
      BY <1>8, <2>1, <3>2, <3>3 DEF Find, Goto
  <2>2. CASE t # u
    BY <1>8, <2>2, OthersKeepLocal DEF Find, Goto
  <2>3. QED
    BY <2>1, <2>2
<1>9. ASSUME NEW t \in Threads, Extract(t) PROVE LocalOK(u)'
  <2>1. CASE t = u
    BY <1>9, <1>3, <2>1 DEF Extract, Goto, LocalOK, Running, Belongs
  <2>2. CASE t # u
    BY <1>9, <1>3, <2>2, OthersKeepLocal DEF Extract, Goto
  <2>3. QED
    BY <2>1, <2>2
<1>10. ASSUME NEW t \in Threads, Store(t) PROVE LocalOK(u)'
  <2>1. CASE t = u
    BY <1>10, <2>1 DEF Store, Goto, LocalOK, Running, InUse, Belongs
  <2>2. CASE t # u
    <3>1. mutex = t /\ ~TouchesCache(u)
      BY <1>10, <2>2 DEF Store, Goto, LockInv, TouchesCache
    <3>2. QED
      BY <1>10, <2>2, <3>1, OthersKeepLocal DEF Store, Goto
  <2>3. QED
    BY <2>1, <2>2
<1>11. ASSUME NEW t \in Threads, CreateRunner(t) PROVE LocalOK(u)'
  <2>1. CASE t = u
    BY <1>11, <1>3, <2>1 DEF CreateRunner, Goto, LocalOK, Running, InUse, Belongs
  <2>2. CASE t # u
    BY <1>11, <1>3, <2>2, OthersKeepLocal DEF CreateRunner, Goto
  <2>3. QED
    BY <2>1, <2>2
<1>12. ASSUME NEW t \in Threads, Setup(t) PROVE LocalOK(u)'
  <2>1. CASE t = u /\ ~Fail(t)
    <3>1. InUse(u)' = InUse(u) /\ InUse(u) \in CachedPlayer
      BY <1>12, <2>1 DEF Setup, Goto, LocalOK, Running, InUse, Belongs
    <3>2. InUse(u).output \in Sources
      BY <3>1 DEF CachedPlayer
    <3>3. QED
      BY <1>12, <2>1, <3>1, <3>2 DEF Setup, Goto, LocalOK, Running, Belongs
  <2>2. CASE t # u
    BY <1>12, <1>3, <2>2, OthersKeepLocal DEF Setup, Goto
  <2>3. QED
    BY <1>3, <1>12, <2>1, <2>2
<1>13. ASSUME NEW t \in Threads, Decipher(t) PROVE LocalOK(u)'
  <2>1. CASE t = u
    BY <1>13, <1>3, <2>1 DEF Decipher, Return, LocalOK, Running
  <2>2. CASE t # u
    BY <1>13, <1>3, <2>2, OthersKeepLocal DEF Decipher, Return
  <2>3. QED
    BY <2>1, <2>2
<1>14. CASE UNCHANGED vars
  BY <1>14, OthersKeepLocal DEF vars
<1>15. QED
  BY <1>1, <1>2, <1>4, <1>5, <1>6, <1>7, <1>8, <1>9, <1>10, <1>11, <1>12,
     <1>13, <1>14 DEF Next, NativeStep, ScriptStep

----------------------------------------------------------------------------
(* IInv is inductive, so it holds in every reachable state. *)
THEOREM Invariance == Spec => []IInv
<1>1. Init => IInv
  BY InitIInv
<1>2. IInv /\ [Next]_vars => IInv'
  BY TypeStep, LockInvStep, LocalStep, CoherentStep, ReplyStep DEF IInv
<1>3. QED
  BY <1>1, <1>2, PTL DEF Spec

(* The state of the client is well typed. *)
THEOREM TypeCorrect == Spec => []TypeOK
<1>1. IInv => TypeOK
  BY DEF IInv
<1>2. QED
  BY <1>1, Invariance, PTL

(* No two threads are in player_cache() at once, whatever they do there: a  *)
(* hit that deciphers with the entry itself excludes every store.           *)
THEOREM DataRaceFree == Spec => []NoDataRace
<1>1. IInv => NoDataRace
  BY DEF IInv, LockInv, NoDataRace
<1>2. QED
  BY <1>1, Invariance, PTL

(* get_or_extract never poisons the cache. *)
THEOREM Coherent == Spec => []CacheCoherent
<1>1. IInv => CacheCoherent
  BY DEF IInv
<1>2. QED
  BY <1>1, Invariance, PTL

(* A successful decipher_nsig is answered by the version it was bound to.  *)
THEOREM Faithful == Spec => []ReplyFaithful
<1>1. IInv => ReplyFaithful
  BY DEF IInv
<1>2. QED
  BY <1>1, Invariance, PTL

(* No exit of a call leaves the mutex locked or a runtime alive. *)
THEOREM LeavesNothing == Spec => []NothingLeftBehind
<1>1. IInv => NothingLeftBehind
  BY DEF IInv, LockInv, LocalInv, LocalOK, TouchesCache, Running,
         NothingLeftBehind
<1>2. QED
  BY <1>1, Invariance, PTL

(* A settled entry of the cache stays settled: its version is never         *)
(* extracted again.                                                         *)
THEOREM Memoized == Spec => MemoIsEffective
<1>1. IInv /\ [Next]_vars => [\A k \in Keys : Settled(k) => Settled(k)']_vars
  <2> SUFFICES ASSUME IInv, Next, NEW k \in Keys, Settled(k)
               PROVE Settled(k)'
    BY DEF vars, Settled
  <2> USE DEF IInv, TypeOK, Settled
  <2>1. ASSUME NEW t \in Threads, Find(t) PROVE Settled(k)'
    BY <2>1 DEF Find, Goto
  <2>2. ASSUME NEW t \in Threads, Store(t) PROVE Settled(k)'
    BY <2>2 DEF Store, Goto
  <2>3. ASSUME NEW t \in Threads, LockStep(t) PROVE Settled(k)'
    BY <2>3 DEF LockStep, Lock, Goto
  <2>4. ASSUME NEW t \in Threads, Extract(t) PROVE Settled(k)'
    BY <2>4 DEF Extract, Goto, Fail, Return
  <2>5. ASSUME NEW t \in Threads, Call(t) PROVE Settled(k)'
    BY <2>5 DEF Call, CallById, CallWithSource, Goto
  <2>6. ASSUME NEW t \in Threads, DiscoverPlayerId(t) PROVE Settled(k)'
    BY <2>6 DEF DiscoverPlayerId, Goto, Fail, Return
  <2>7. ASSUME NEW t \in Threads, HitOrMiss(t) \/ FetchPlayerJs(t)
        PROVE Settled(k)'
    BY <2>7 DEF HitOrMiss, FetchPlayerJs, Goto, Fail, Return
  <2>8. ASSUME NEW t \in Threads, CreateRunner(t) \/ ScriptStep(t)
        PROVE Settled(k)'
    BY <2>8 DEF CreateRunner, ScriptStep, Setup, Decipher, Goto, Fail, Return
  <2>9. CASE Rollout
    BY <2>9 DEF Rollout
  <2>10. QED
    BY <2>1, <2>2, <2>3, <2>4, <2>5, <2>6, <2>7, <2>8, <2>9
       DEF Next, NativeStep, ScriptStep
<1>2. QED
  BY <1>1, Invariance, PTL DEF Spec, MemoIsEffective

----------------------------------------------------------------------------
(* Refinement: the data of the service are the client's. *)
LEMMA ServiceData ==
  /\ \A p \in Sources : Service!IdKey(p) = IdKey(p)
  /\ \A k : Service!Named(k) = Named(k)
  /\ \A s, k : Service!ReplyFrom(s, k) = ReplyFrom(s, k)
  /\ Service!SourceKeys = SourceKeys
BY DEF Service!IdKey, IdKey, Service!Named, Named, Service!SourceKey,
       SourceKey, Service!ReplyFrom, ReplyFrom, Service!SourceKeys, SourceKeys

asking == {t \in Threads : pc[t] # "idle"}

(* The client with its cache, lock and runtimes implements NsigService:     *)
(* beginning a call asks, discovery binds, and its return answers or gives  *)
(* up; every other step is invisible.                                       *)
THEOREM Refinement == Spec => ImplementsService
<1>1. Init => Service!Init
  BY DEF Init, Service!Init
<1>2. IInv /\ IInv' /\ [Next]_vars => [Service!Next]_(Service!vars)
  <2> SUFFICES ASSUME IInv, IInv', [Next]_vars
               PROVE Service!Next \/ UNCHANGED <<current, asking, key, reply>>
    BY DEF Service!vars, asking
  <2> USE DEF IInv, TypeOK
  <2>1. CASE Rollout
    BY <2>1 DEF Rollout, Service!Next, Service!Rollout
  <2>2. ASSUME NEW t \in Threads, Call(t) PROVE Service!Ask(t)
    BY <2>2, ServiceData DEF Call, CallById, CallWithSource, Goto,
       Service!Ask, SourceKeys
  <2>3. ASSUME NEW t \in Threads, Fail(t), pc[t] # "idle"
        PROVE Service!GiveUp(t)
    BY <2>3 DEF Fail, Return, Service!GiveUp
  <2>4. ASSUME NEW t \in Threads, DiscoverPlayerId(t)
        PROVE Service!Bind(t) \/ Service!GiveUp(t)
    BY <2>4, <2>3, ServiceData
       DEF DiscoverPlayerId, Goto, Service!Bind, LocalInv, LocalOK
  <2>5. ASSUME NEW t \in Threads,
               HitOrMiss(t) \/ Find(t) \/ Store(t) \/ LockStep(t)
        PROVE UNCHANGED <<current, asking, key, reply>>
    BY <2>5 DEF HitOrMiss, Find, Store, LockStep, Lock, Goto, asking
  <2>6. ASSUME NEW t \in Threads,
               FetchPlayerJs(t) \/ Extract(t) \/ CreateRunner(t) \/ Setup(t)
        PROVE Service!GiveUp(t) \/ UNCHANGED <<current, asking, key, reply>>
    BY <2>6, <2>3 DEF FetchPlayerJs, Extract, CreateRunner, Setup, Goto, asking
  <2>7. ASSUME NEW t \in Threads, Decipher(t), ~Fail(t) PROVE Service!Answer(t)
    <3>1. PICK s \in Extractable \cap Named(key[t]) : InUse(t) = Extracted(s)
      BY <2>7 DEF Decipher, LocalInv, LocalOK, Running, Belongs
    <3>2. runner[t] = s /\ InUse(t).sts = s
      BY <2>7, <3>1 DEF Decipher, LocalInv, LocalOK, Extracted
    <3>3. reply' = [reply EXCEPT ![t] = ReplyFrom(s, key[t])]
      BY <2>7, <3>2 DEF Decipher, Return, ReplyFrom
    <3>4. asking' = asking \ {t} /\ t \in asking
      BY <2>7 DEF Decipher, Return, asking
    <3>5. Service!ReplyFrom(s, key[t]) = ReplyFrom(s, key[t])
          /\ s \in Extractable \cap Service!Named(key[t])
      BY <3>1, ServiceData
    <3>6. UNCHANGED <<current, key>>
      BY <2>7 DEF Decipher, Return
    <3>7. QED
      BY <3>3, <3>4, <3>5, <3>6 DEF Service!Answer, asking
  <2>8. CASE UNCHANGED vars
    BY <2>8 DEF vars, asking
  <2>9. QED
    BY <2>1, <2>2, <2>3, <2>4, <2>5, <2>6, <2>7, <2>8
       DEF Next, NativeStep, ScriptStep, Service!Next, Decipher
<1>3. QED
  BY <1>1, <1>2, Invariance, PTL DEF Spec, ImplementsService, Service!Spec
=============================================================================
