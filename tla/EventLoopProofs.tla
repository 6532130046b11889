--------------------------- MODULE EventLoopProofs ---------------------------
(***************************************************************************)
(* Proofs about EventLoop, for any timeout, delays and number of timers:   *)
(* the phases implement BotGuardRunner, one pass at most begins after the  *)
(* deadline, and the timers fire on time, in order, all of them and never  *)
(* when dead.                                                              *)
(***************************************************************************)
EXTENDS EventLoop, SubsequencesProofs

Values == Runner!Settled \cup {"pending", None}

(* The types of what the phases are made of. *)
PhaseTypes ==
  /\ pc \in Labels
  /\ now \in Nat /\ deadline \in Nat /\ late \in Nat
  /\ phase \in Phases \cup {None}
  /\ promise \in [Phases -> Values]
  /\ state \in [Phases -> Values]
  /\ outcome \in [Phases -> {"ok", "empty", "error", "timeout", "threw", None}]

(* A phase runs exactly between Begin and Finish. *)
PhaseInv == phase = None <=> pc \in {"absent", "bundle", "idle"}

(* The state object holds nothing but what the promise settled to, and it   *)
(* holds it whenever the pump looks: a settled promise has been drained.    *)
StateInv ==
  /\ \A ph \in Phases :
       state[ph] # None => state[ph] = promise[ph] /\ promise[ph] # "pending"
  /\ phase # None => promise[phase] # None
  /\ pc \in {"check", "rest"} => Drained

(* A pass is let in only while the deadline is ahead, and once one has      *)
(* begun late the deadline stays behind.                                    *)
LateInv ==
  /\ pc \in {"driver", "predrain", "pass"} => late = 0
  /\ late # 0 => late = 1 /\ now > deadline

IInv == PhaseTypes /\ PhaseInv /\ StateInv /\ LateInv

----------------------------------------------------------------------------
LEMMA InitIInv == Init => IInv
BY LoopAssumption, NoneAssumption
   DEF Init, IInv, PhaseTypes, PhaseInv, StateInv, LateInv, Labels,
       JavaScript, Values, Phases, Runner!Phases, Runner!Fresh, Drained

(* What JavaScript does leaves the control of the runner alone.             *)
LEMMA HostStep ==
  ASSUME IInv, Host PROVE IInv'
<1> USE DEF IInv, PhaseTypes, PhaseInv, StateInv, LateInv,
            JavaScript, Drained, loopVars, passVars, phaseVars, timerVars
<1>1. CASE ArmTimer
  BY <1>1 DEF ArmTimer, SetTimer
<1>2. CASE QueueMicrotask
  BY <1>2 DEF QueueMicrotask, SetTimer
<1>3. CASE SpendTime
  BY <1>3 DEF SpendTime
<1>4. ASSUME NEW i \in Ids, ClearTimer(i) PROVE IInv'
  BY <1>4 DEF ClearTimer
<1>5. ASSUME NEW ph \in Phases, SettlePromise(ph) PROVE IInv'
  BY <1>5, NoneAssumption DEF SettlePromise, Values, Runner!Settled
<1> QED
  BY <1>1, <1>2, <1>3, <1>4, <1>5 DEF Host

LEMMA LoopStep ==
  ASSUME IInv, Loop PROVE IInv'
<1> USE NoneAssumption
    DEF IInv, PhaseTypes, PhaseInv, StateInv, LateInv, Labels,
        JavaScript, Drained, loopVars, passVars, phaseVars, timerVars
<1>1. CASE EnterPump
  BY <1>1, LoopAssumption DEF EnterPump
<1>2. CASE Check
  <2>1. Runner!Read(state[phase]) \in {"ok", "empty", "error"} \/ state[phase] = None
    BY <1>2 DEF Check, Runner!Read, Runner!Settled, Values
  <2> HIDE DEF Runner!Read
  <2> QED
    BY <1>2, <2>1 DEF Check, Finish, StartPass
<1>9. CASE BeginPass
  BY <1>9 DEF BeginPass
<1>3. CASE FireReady
  BY <1>3 DEF FireReady
<1>4. CASE SkipCleared
  BY <1>4 DEF SkipCleared
<1>5. CASE EndFiring
  BY <1>5 DEF EndFiring
<1>6. CASE EndDrain
  BY <1>6 DEF EndDrain
<1>7. CASE Rest
  BY <1>7 DEF Rest
<1>8. ASSUME NEW ph \in Phases, React(ph) PROVE IInv'
  BY <1>8 DEF React, Values, Runner!Settled
<1> QED
  BY <1>1, <1>2, <1>3, <1>4, <1>5, <1>6, <1>7, <1>8, <1>9 DEF Loop

LEMMA LeaveStep ==
  ASSUME IInv, Leave PROVE IInv'
<1> USE NoneAssumption
    DEF IInv, PhaseTypes, PhaseInv, StateInv, LateInv, Labels,
        JavaScript, Drained, loopVars, passVars, phaseVars, timerVars
<1>1. CASE Created
  BY <1>1 DEF Created
<1>2. CASE DriverThrows
  BY <1>2 DEF DriverThrows, Finish
<1>5. CASE EngineThrows
  BY <1>5 DEF EngineThrows, Finish
<1>3. CASE DriverEnds
  BY <1>3 DEF DriverEnds
<1>4. CASE CallbackEnds
  BY <1>4 DEF CallbackEnds
<1> QED
  BY <1>1, <1>2, <1>3, <1>4, <1>5 DEF Leave

LEMMA CallerStep ==
  ASSUME IInv, Caller PROVE IInv'
<1> USE NoneAssumption
    DEF IInv, PhaseTypes, PhaseInv, StateInv, LateInv, Labels,
        JavaScript, Drained, loopVars, passVars, phaseVars, timerVars, Values
<1>1. CASE Create
  BY <1>1 DEF Create
<1>2. CASE Destroy
  BY <1>2 DEF Destroy, Runner!Fresh, Phases
<1>3. CASE Elapse
  BY <1>3 DEF Elapse
<1>4. ASSUME NEW ph \in Phases, Begin(ph) PROVE IInv'
  BY <1>4, LoopAssumption DEF Begin, Phases, Runner!Phases
<1> QED
  BY <1>1, <1>2, <1>3, <1>4 DEF Caller

(* The inductive invariant of phase, promise, state object and deadline. *)
THEOREM Invariance == Spec => []IInv
<1>1. IInv /\ UNCHANGED vars => IInv'
  BY DEF vars, IInv, PhaseTypes, PhaseInv, StateInv, LateInv,
         Drained
<1>2. IInv /\ [Next]_vars => IInv'
  BY <1>1, HostStep, LoopStep, LeaveStep, CallerStep DEF Next
<1> QED
  BY InitIInv, <1>2, PTL DEF Spec

(* The deadline test (hermes_runner.cpp:880) comes before the clock reading *)
(* of the pass (:882), however much time lies between them: no second pass  *)
(* begins after the deadline.                                               *)
THEOREM Deadline == Spec => []OneLatePass
<1>1. IInv => OneLatePass
  BY DEF IInv, PhaseTypes, LateInv, OneLatePass
<1> QED
  BY <1>1, Invariance, PTL

(* When a phase is over its outcome is what its promise settled to, and a   *)
(* timeout means the promise is still pending: Finish is the Return of      *)
(* BotGuardRunner.                                                          *)
LEMMA CheckReturns ==
  ASSUME IInv, Check, ~StartPass PROVE \E ph \in Phases : Runner!Return(ph)
<1> DEFINE ph == phase
<1>1. ph \in Phases /\ promise[ph] # None /\ Drained
  BY DEF IInv, PhaseInv, StateInv, PhaseTypes, Check
<1>2. CASE state[ph] # None /\ Finish(Runner!Read(state[ph]))
  BY <1>1, <1>2 DEF IInv, StateInv, Finish, Runner!Return
<1>3. CASE state[ph] = None /\ Finish("timeout")
  <2>1. promise[ph] = "pending"
    BY <1>1, <1>3 DEF IInv, PhaseTypes, Values, Drained
  <2> QED
    BY <1>1, <1>3, <2>1 DEF Finish, Runner!Return
<1> QED
  BY <1>2, <1>3 DEF Check

(* The event loop implements what its callers rely on.                      *)
THEOREM Refinement == Spec => ImplementsRunner
<1>1. Init => Runner!Init
  BY DEF Init, Runner!Init
<1>2. IInv /\ [Next]_vars => [Runner!Next]_(Runner!vars)
  <2> SUFFICES ASSUME IInv, [Next]_vars
               PROVE  Runner!Next \/ UNCHANGED <<phase, promise, outcome>>
    BY DEF Runner!vars
  <2> USE DEF loopVars, passVars, phaseVars, Phases
  <2>1. CASE Host
    BY <2>1 DEF Host, ArmTimer, QueueMicrotask, SetTimer, SpendTime,
         ClearTimer, SettlePromise, Runner!Next, Runner!Settle
  <2>2. CASE Check
    <3>1. CASE StartPass
      BY <3>1 DEF StartPass
    <3>2. CASE ~StartPass
      BY <2>2, <3>2, CheckReturns DEF Runner!Next
    <3> QED
      BY <3>1, <3>2
  <2>3. CASE DriverThrows \/ EngineThrows
    <3>1. phase \in Phases /\ Runner!Throw(phase)
      BY <2>3 DEF DriverThrows, EngineThrows, Finish, Runner!Throw, IInv, PhaseInv,
           PhaseTypes
    <3> QED
      BY <3>1 DEF Runner!Next
  <2>4. CASE Destroy
    <3>1. Runner!Destroy
      BY <2>4 DEF Destroy, Runner!Destroy, IInv, PhaseInv
    <3> QED
      BY <3>1 DEF Runner!Next
  <2>5. ASSUME NEW ph \in Phases, Begin(ph)
        PROVE  Runner!Next
    <3>1. Runner!Begin(ph)
      BY <2>5 DEF Begin, Runner!Begin, IInv, PhaseInv
    <3> QED
      BY <3>1 DEF Runner!Next
  <2>6. CASE EnterPump \/ BeginPass \/ FireReady \/ SkipCleared \/ EndFiring \/ EndDrain
             \/ Rest \/ (\E ph \in Phases : React(ph))
    BY <2>6 DEF EnterPump, BeginPass, FireReady, SkipCleared, EndFiring, EndDrain, Rest,
         React
  <2>7. CASE Created \/ DriverEnds \/ CallbackEnds \/ Create \/ Elapse
             \/ UNCHANGED vars
    BY <2>7 DEF Created, DriverEnds, CallbackEnds, Create, Elapse, vars
  <2> QED
    BY <2>1, <2>2, <2>3, <2>4, <2>5, <2>6, <2>7
       DEF Next, Loop, Leave, Caller
<1> QED
  BY Invariance, <1>1, <1>2, PTL DEF Spec, ImplementsRunner, Runner!Spec
----------------------------------------------------------------------------
(* The timers.                                                              *)

Firing == {"fire", "callback", "drain"}

TimerTypes ==
  /\ now \in Nat
  /\ timers \in Seq(Entry)
  /\ next_timer_id \in 1..(MaxTimers + 1)
  /\ pass_now \in Nat
  /\ pass_first \in 1..(MaxTimers + 1)
  /\ ready \in Seq(Ids)
  /\ running \in Entry \cup {None}
  /\ dead \subseteq Ids

(* push_back hands out growing ids, so the vector stays sorted by id, holds *)
(* each id once and no dead one.                                            *)
Sorted == \A i, j \in DOMAIN timers : i < j => timers[i].id < timers[j].id

Alive == \A i \in DOMAIN timers : timers[i].id < next_timer_id /\ timers[i].id \notin dead

Given == \A i \in dead : i < next_timer_id

(* During a pass: its clock and first new id lie behind, and ready_ids are  *)
(* in the order of the vector, older than the pass.                         *)
PassInv ==
  pc \in Firing =>
    /\ pass_now <= now /\ pass_first <= next_timer_id
    /\ pc = "drain" => ready = <<>>
    /\ \A k \in DOMAIN ready : ready[k] < pass_first
    /\ \A k, l \in DOMAIN ready : k < l => ready[k] < ready[l]

(* What waits in ready_ids was due at the start of the pass, though the     *)
(* timer may be gone by now.                                                *)
ReadyIsDue ==
  pc \in Firing =>
    \A i \in DOMAIN timers : \A k \in DOMAIN ready :
      timers[i].id = ready[k] => timers[i].fire_at <= pass_now

(* What was due at the start of the pass and is still in the vector waits   *)
(* in ready_ids.  NothingDueIsSkipped is this at the end of the pass.       *)
DueIsReady ==
  pc \in Firing =>
    \A i \in DOMAIN timers :
      \/ timers[i].fire_at > pass_now
      \/ timers[i].repeat /\ timers[i].interval_ms = 0
      \/ timers[i].id >= pass_first
      \/ \E k \in DOMAIN ready : ready[k] = timers[i].id

(* The timer that runs was due, and older than all that still wait.         *)
RunningInv ==
  pc = "callback" =>
    /\ running \in Entry
    /\ running.fire_at <= pass_now /\ running.id < pass_first
    /\ \A k \in DOMAIN ready : running.id < ready[k]

TimerInv ==
  /\ TimerTypes
  /\ Sorted /\ Alive /\ Given
  /\ PassInv /\ ReadyIsDue /\ DueIsReady /\ RunningInv

LEMMA InitTimerInv == Init => TimerInv
BY LoopAssumption, NoneAssumption
   DEF Init, TimerInv, TimerTypes, Sorted, Alive, Given, PassInv, ReadyIsDue,
       DueIsReady, RunningInv, Firing

LEMMA TimerFields ==
  ASSUME TimerTypes, NEW i \in DOMAIN timers
  PROVE  /\ timers[i] \in Entry /\ timers[i].id \in Ids /\ timers[i].id \in Nat
         /\ timers[i].fire_at \in Nat /\ timers[i].interval_ms \in Nat
<1>1. timers[i] \in Entry
  BY LenProperties, ElementOfSeq DEF TimerTypes
<1>2. timers[i].id \in Ids /\ timers[i].fire_at \in Nat /\ timers[i].interval_ms \in Nat
  BY <1>1 DEF Entry
<1> QED
  BY <1>1, <1>2, LoopAssumption DEF Ids

LEMMA ReadyFields ==
  ASSUME TimerTypes
  PROVE  /\ Len(ready) \in Nat /\ DOMAIN ready = 1..Len(ready)
         /\ \A k \in DOMAIN ready : ready[k] \in Ids /\ ready[k] \in Nat
BY LenProperties, ElementOfSeq, LoopAssumption DEF TimerTypes, Ids

(* Steps that leave the timers, the pass and its ready_ids alone, and enter *)
(* no pass.                                                                 *)
LEMMA TimersUntouched ==
  ASSUME TimerInv, UNCHANGED <<timerVars, ready>>,
         \/ UNCHANGED <<pass_now, pass_first>>
         \/ pc' \notin Firing /\ pass_now' = 0 /\ pass_first' = 1 /\ running' = running,
         now' \in Nat, now' >= now,
         running' \in {running, None},
         \/ pc' = pc /\ running' = running
         \/ pc' \notin Firing
         \/ pc = "callback" /\ pc' = "fire"
         \/ pc = "fire" /\ pc' = "drain" /\ ready = <<>>
  PROVE  TimerInv'
<1> USE DEF timerVars, TimerInv
<1>1. TimerTypes'
  BY LoopAssumption DEF TimerTypes
<1>2. Sorted' /\ Alive' /\ Given'
  BY DEF Sorted, Alive, Given
<1>3. PassInv'
  BY DEF PassInv, Firing, TimerTypes
<1>4. ReadyIsDue'
  BY DEF ReadyIsDue, Firing
<1>5. DueIsReady'
  BY DEF DueIsReady, Firing
<1>6. RunningInv'
  BY DEF RunningInv, Firing
<1> QED
  BY <1>1, <1>2, <1>3, <1>4, <1>5, <1>6

(* push_back: the new timer is younger than the pass that runs.             *)
LEMMA TimerIsSet ==
  ASSUME TimerInv, NEW delay \in Nat, NEW repeat \in BOOLEAN, NEW micro \in BOOLEAN,
         SetTimer(delay, repeat, micro)
  PROVE  TimerInv'
<1> DEFINE e == [id |-> next_timer_id, fire_at |-> now + delay, repeat |-> repeat,
                 interval_ms |-> IF repeat THEN delay ELSE 0, micro |-> micro]
           n == Len(timers)
<1>1. e \in Entry /\ e.id = next_timer_id
  <2>1. next_timer_id \in Ids /\ now + delay \in Nat
    BY LoopAssumption DEF SetTimer, TimerInv, TimerTypes, Ids
  <2>2. (IF repeat THEN delay ELSE 0) \in Nat
    OBVIOUS
  <2> QED
    BY <2>1, <2>2 DEF Entry
<1>2. timers' = Append(timers, e) /\ next_timer_id' = next_timer_id + 1
  BY DEF SetTimer
<1>3. UNCHANGED <<now, pc, dead, pass_now, pass_first, ready, running>>
  BY DEF SetTimer, loopVars, passVars
<1>4. next_timer_id <= MaxTimers
  BY DEF SetTimer
<1> HIDE DEF e
<1>5. timers' \in Seq(Entry)
  BY <1>1, <1>2 DEF TimerInv, TimerTypes
<1>6. /\ n \in Nat /\ DOMAIN timers = 1..n /\ DOMAIN timers' = 1..(n+1)
      /\ \A i \in DOMAIN timers : timers'[i] = timers[i]
      /\ timers'[n+1] = e
      /\ \A i \in DOMAIN timers' : i \in DOMAIN timers \/ i = n + 1
  BY <1>1, <1>2, AppendProperties, LenProperties DEF TimerInv, TimerTypes
<1>7. \A i \in DOMAIN timers : timers[i].id \in Nat
  BY TimerFields DEF TimerInv
<1> HIDE DEF n
<1>8. TimerTypes'
  BY <1>3, <1>2, <1>4, <1>5, LoopAssumption DEF TimerInv, TimerTypes
<1>9. Sorted'
  BY <1>1, <1>6 DEF TimerInv, Sorted, Alive
<1>10. Alive'
  BY <1>1, <1>2, <1>3, <1>6, <1>7 DEF TimerInv, TimerTypes, Alive, Given
<1>11. Given'
  BY <1>2, <1>3 DEF TimerInv, TimerTypes, Given, Ids
<1>12. PassInv'
  BY <1>2, <1>3 DEF TimerInv, TimerTypes, PassInv, Firing
<1>13. ReadyIsDue'
  <2> SUFFICES ASSUME pc \in Firing, NEW i \in DOMAIN timers', NEW k \in DOMAIN ready,
                      timers'[i].id = ready[k]
               PROVE  timers'[i].fire_at <= pass_now
    BY <1>3 DEF ReadyIsDue, Firing
  <2>1. ready[k] < pass_first /\ pass_first <= next_timer_id /\ ready[k] \in Nat
    BY ReadyFields DEF TimerInv, PassInv
  <2>2. i # n + 1
    BY <1>1, <1>6, <2>1 DEF TimerInv, TimerTypes
  <2>3. i \in DOMAIN timers /\ timers'[i] = timers[i]
    BY <1>6, <2>2
  <2> QED
    BY <2>3 DEF TimerInv, ReadyIsDue
<1>14. DueIsReady'
  <2> SUFFICES ASSUME pc \in Firing, NEW i \in DOMAIN timers'
               PROVE  \/ timers'[i].fire_at > pass_now
                      \/ timers'[i].repeat /\ timers'[i].interval_ms = 0
                      \/ timers'[i].id >= pass_first
                      \/ \E k \in DOMAIN ready : ready[k] = timers'[i].id
    BY <1>3 DEF DueIsReady, Firing
  <2>1. CASE i \in DOMAIN timers
    BY <1>6, <2>1 DEF TimerInv, DueIsReady
  <2>2. CASE i = n + 1
    BY <1>1, <1>6, <2>2 DEF TimerInv, PassInv
  <2> QED
    BY <1>6, <2>1, <2>2
<1>15. RunningInv'
  BY <1>3 DEF TimerInv, RunningInv
<1> QED
  BY <1>8, <1>9, <1>10, <1>11, <1>12, <1>13, <1>14, <1>15 DEF TimerInv

(* erase(remove_if): fewer timers, in the order they had.                   *)
LEMMA TimerIsCleared ==
  ASSUME TimerInv, NEW id \in Ids, ClearTimer(id)
  PROVE  TimerInv'
<1> DEFINE I == DOMAIN timers \ Indices(id)
           g == [k \in 1..Cardinality(I) |-> Position(I, k)]
<1>1. timers' = Picked(timers, I) /\ dead' = dead \cup {id} /\ id < next_timer_id
  BY DEF ClearTimer
<1>2. UNCHANGED <<now, pc, next_timer_id, pass_now, pass_first, ready, running>>
  BY DEF ClearTimer, loopVars, passVars
<1>3. I \in SUBSET DOMAIN timers /\ timers \in Seq(Entry)
      /\ \A i \in I : timers[i].id # id
  BY DEF TimerInv, TimerTypes, Indices
<1> HIDE DEF I
<1>4. /\ timers' \in Seq(Entry) /\ DOMAIN timers' = 1..Cardinality(I)
      /\ \A k \in DOMAIN timers' : timers'[k] = timers[g[k]]
  BY <1>1, <1>3, PickedProperties
<1>5. /\ \A k \in DOMAIN timers' : g[k] \in I /\ g[k] \in DOMAIN timers
      /\ \A k, l \in DOMAIN timers' : k < l => g[k] < g[l]
  <2>1. Len(timers) \in Nat /\ DOMAIN timers = 1..Len(timers)
    BY <1>3, LenProperties
  <2> QED
    BY <1>3, <1>4, <2>1, PositionProperties
<1> HIDE DEF g
<1>6. TimerTypes'
  BY <1>1, <1>2, <1>4 DEF TimerInv, TimerTypes
<1>7. Sorted'
  BY <1>4, <1>5 DEF TimerInv, Sorted
<1>8. Alive'
  BY <1>1, <1>2, <1>3, <1>4, <1>5 DEF TimerInv, Alive
<1>9. Given'
  BY <1>1, <1>2 DEF TimerInv, Given
<1>10. PassInv'
  BY <1>2 DEF TimerInv, PassInv
<1>11. ReadyIsDue'
  BY <1>2, <1>4, <1>5 DEF TimerInv, ReadyIsDue
<1>12. DueIsReady'
  BY <1>2, <1>4, <1>5 DEF TimerInv, DueIsReady
<1>13. RunningInv'
  BY <1>2 DEF TimerInv, RunningInv
<1> QED
  BY <1>6, <1>7, <1>8, <1>9, <1>10, <1>11, <1>12, <1>13 DEF TimerInv

(* The snapshot of the ready ids: what is due now, in the vector's order.   *)
LEMMA PassIsBegun ==
  ASSUME TimerInv, BeginPass
  PROVE  TimerInv'
<1> DEFINE I == {i \in DOMAIN timers : timers[i].fire_at <= now}
           due == Picked(timers, I)
           g == [k \in 1..Cardinality(I) |-> Position(I, k)]
<1>1. /\ ready' = [k \in DOMAIN due |-> due[k].id]
      /\ pass_now' = now /\ pass_first' = next_timer_id /\ pc' = "fire"
      /\ UNCHANGED <<now, timers, next_timer_id, dead, running>>
  BY DEF BeginPass, ReadyIds, timerVars
<1>2. I \in SUBSET DOMAIN timers /\ timers \in Seq(Entry)
      /\ \A i \in DOMAIN timers : i \in I <=> timers[i].fire_at <= now
  BY DEF TimerInv, TimerTypes
<1> HIDE DEF I
<1>3. /\ DOMAIN due = 1..Cardinality(I) /\ Cardinality(I) \in Nat
      /\ \A k \in DOMAIN due : due[k] = timers[g[k]]
  BY <1>2, PickedProperties
<1>4. /\ \A k \in DOMAIN due : g[k] \in I /\ g[k] \in DOMAIN timers
      /\ \A k, l \in DOMAIN due : k < l => g[k] < g[l]
      /\ \A i \in I : \E k \in DOMAIN due : g[k] = i
  <2>1. Len(timers) \in Nat /\ DOMAIN timers = 1..Len(timers)
    BY <1>2, LenProperties
  <2> QED
    BY <1>2, <1>3, <2>1, PositionProperties
<1> HIDE DEF g, due
<1>5. DOMAIN ready' = 1..Cardinality(I) /\ \A k \in DOMAIN ready' : ready'[k] = timers[g[k]].id
  BY <1>1, <1>3
<1>6. \A k \in DOMAIN ready' : ready'[k] \in Ids /\ ready'[k] < next_timer_id
  BY <1>3, <1>4, <1>5, TimerFields DEF TimerInv, Alive
<1>7. TimerTypes'
  <2>1. ready' \in Seq(Ids)
    BY <1>3, <1>5, <1>6, <1>1
  <2> QED
    BY <1>1, <2>1 DEF TimerInv, TimerTypes
<1>8. Sorted' /\ Alive' /\ Given'
  BY <1>1 DEF TimerInv, Sorted, Alive, Given
<1>9. PassInv'
  <2>1. \A k, l \in DOMAIN ready' : k < l => ready'[k] < ready'[l]
    BY <1>3, <1>4, <1>5 DEF TimerInv, Sorted
  <2> QED
    BY <1>1, <1>6, <2>1 DEF TimerInv, TimerTypes, PassInv
<1>10. ReadyIsDue'
  <2> SUFFICES ASSUME NEW i \in DOMAIN timers, NEW k \in DOMAIN ready',
                      timers[i].id = ready'[k]
               PROVE  timers[i].fire_at <= now
    BY <1>1 DEF ReadyIsDue
  <2>1. g[k] \in I /\ g[k] \in DOMAIN timers /\ timers[g[k]].id = timers[i].id
    BY <1>3, <1>4, <1>5
  <2>2. i = g[k]
    <3>1. Len(timers) \in Nat /\ DOMAIN timers = 1..Len(timers)
      BY <1>2, LenProperties
    <3>2. timers[i].id \in Nat
      BY TimerFields DEF TimerInv
    <3> QED
      BY <2>1, <3>1, <3>2 DEF TimerInv, Sorted
  <2> QED
    BY <1>2, <2>1, <2>2
<1>11. DueIsReady'
  <2> SUFFICES ASSUME NEW i \in DOMAIN timers, ~(timers[i].fire_at > now)
               PROVE  \E k \in DOMAIN ready' : ready'[k] = timers[i].id
    BY <1>1 DEF DueIsReady
  <2>1. i \in I
    BY <1>2, TimerFields DEF TimerInv, TimerTypes
  <2>2. PICK k \in DOMAIN due : g[k] = i
    BY <1>4, <2>1
  <2> QED
    BY <1>3, <1>5, <2>2
<1>12. RunningInv'
  BY <1>1 DEF RunningInv
<1> QED
  BY <1>7, <1>8, <1>9, <1>10, <1>11, <1>12 DEF TimerInv

(* The ready ids but the first are older than none of the rest.             *)
LEMMA ReadyTail ==
  ASSUME TimerInv, pc = "fire", ready # <<>>, ready' = Tail(ready)
  PROVE  /\ ready' \in Seq(Ids) /\ Head(ready) = ready[1] /\ 1 \in DOMAIN ready
         /\ \A k \in DOMAIN ready' : k + 1 \in DOMAIN ready /\ ready'[k] = ready[k + 1]
         /\ \A k \in DOMAIN ready : k = 1 \/ (k - 1 \in DOMAIN ready' /\ ready'[k - 1] = ready[k])
         /\ \A k \in DOMAIN ready' : Head(ready) < ready'[k] /\ ready'[k] < pass_first
         /\ \A k, l \in DOMAIN ready' : k < l => ready'[k] < ready'[l]
<1>1. ready \in Seq(Ids) /\ Len(ready) \in Nat /\ DOMAIN ready = 1..Len(ready)
  BY ReadyFields DEF TimerInv, TimerTypes
<1>2. /\ ready' \in Seq(Ids) /\ Head(ready) = ready[1] /\ Len(ready) > 0
      /\ DOMAIN ready' = 1..(Len(ready) - 1)
      /\ \A k \in DOMAIN ready' : ready'[k] = ready[k + 1]
  BY <1>1, HeadTailProperties
<1>3. \A k \in DOMAIN ready' : k \in Nat /\ k + 1 \in DOMAIN ready /\ 1 < k + 1
  BY <1>1, <1>2
<1>4. \A k \in DOMAIN ready : k = 1 \/ (k - 1 \in DOMAIN ready' /\ ready'[k - 1] = ready[k])
  <2> SUFFICES ASSUME NEW k \in DOMAIN ready, k # 1
               PROVE  k - 1 \in DOMAIN ready' /\ ready'[k - 1] = ready[k]
    OBVIOUS
  <2>1. k - 1 \in DOMAIN ready' /\ (k - 1) + 1 = k
    BY <1>1, <1>2
  <2>2. ready'[k - 1] = ready[(k - 1) + 1]
    BY <1>2, <2>1
  <2> QED
    BY <2>1, <2>2
<1>5. PassInv /\ pc \in Firing
  BY DEF TimerInv, Firing
<1>6. \A k \in DOMAIN ready' : ready[1] < ready[k + 1] /\ ready[k + 1] < pass_first
  BY <1>1, <1>2, <1>3, <1>5 DEF PassInv
<1>7. \A k, l \in DOMAIN ready' : k < l => ready[k + 1] < ready[l + 1]
  BY <1>3, <1>5 DEF PassInv
<1>8. \A k \in DOMAIN ready' : Head(ready) < ready'[k] /\ ready'[k] < pass_first
  BY <1>2, <1>6
<1>9. \A k, l \in DOMAIN ready' : k < l => ready'[k] < ready'[l]
  BY <1>2, <1>7
<1>10. 1 \in DOMAIN ready
  BY <1>1, <1>2
<1> QED
  BY <1>2, <1>3, <1>4, <1>8, <1>9, <1>10

(* find_if, then erase or the next fire_at: the timer that fires is the     *)
(* first of the ready ids and does not wait any more.                       *)
LEMMA TimerFires ==
  ASSUME TimerInv, FireReady
  PROVE  TimerInv' /\ running'.id \notin dead
<1>1. /\ pc = "fire" /\ ready # <<>> /\ ready' = Tail(ready) /\ pc' = "callback"
      /\ UNCHANGED <<now, next_timer_id, pass_now, pass_first>>
  BY DEF FireReady, passVars
<1>2. PICK i \in Indices(Head(ready)) :
        /\ running' = timers[i]
        /\ timers' = IF timers[i].repeat
             THEN [timers EXCEPT ![i].fire_at = pass_now + timers[i].interval_ms]
             ELSE RemoveAt(timers, i)
        /\ dead' = IF timers[i].repeat THEN dead ELSE dead \cup {timers[i].id}
  BY DEF FireReady
<1> DEFINE n == Len(timers)
<1>3. /\ timers \in Seq(Entry) /\ n \in Nat /\ DOMAIN timers = 1..n /\ i \in 1..n
      /\ timers[i].id = Head(ready) /\ timers[i] \in Entry
      /\ timers[i].id \in Ids /\ timers[i].id \in Nat /\ timers[i].interval_ms \in Nat
      /\ timers[i].fire_at \in Nat
  BY <1>2, LenProperties, TimerFields DEF TimerInv, TimerTypes, Indices
<1>4. /\ ready' \in Seq(Ids) /\ Head(ready) = ready[1] /\ 1 \in DOMAIN ready
      /\ \A k \in DOMAIN ready' : k + 1 \in DOMAIN ready /\ ready'[k] = ready[k + 1]
      /\ \A k \in DOMAIN ready : k = 1 \/ (k - 1 \in DOMAIN ready' /\ ready'[k - 1] = ready[k])
      /\ \A k \in DOMAIN ready' : Head(ready) < ready'[k] /\ ready'[k] < pass_first
      /\ \A k, l \in DOMAIN ready' : k < l => ready'[k] < ready'[l]
  BY <1>1, ReadyTail
<1>5. timers[i].id \notin dead /\ timers[i].fire_at <= pass_now /\ timers[i].id < pass_first
  BY <1>1, <1>3, <1>4 DEF TimerInv, Alive, ReadyIsDue, PassInv, Firing
<1>6. PassInv'
  BY <1>1, <1>4 DEF TimerInv, PassInv, Firing
<1>7. RunningInv'
  BY <1>1, <1>2, <1>3, <1>4, <1>5 DEF TimerInv, RunningInv
<1>8. Given'
  BY <1>1, <1>2, <1>3 DEF TimerInv, Given, Alive
<1> HIDE DEF n
(* Where a timer of the new vector was in the old one. *)
<1> DEFINE Origin(g) ==
      /\ \A k \in DOMAIN timers' : g[k] \in DOMAIN timers
      /\ \A k, l \in DOMAIN timers' : k < l => g[k] < g[l]
      /\ \A k \in DOMAIN timers' :
           \/ g[k] # i /\ timers'[k] = timers[g[k]]
           \/ /\ g[k] = i /\ timers[i].repeat /\ timers'[k].id = timers[i].id
              /\ timers'[k].repeat /\ timers'[k].interval_ms = timers[i].interval_ms
              /\ timers'[k].fire_at = pass_now + timers[i].interval_ms
<1>9. ASSUME NEW g, timers' \in Seq(Entry), Origin(g)
      PROVE  TimerInv'
  <2>1. \A k \in DOMAIN timers' : timers'[k].id = timers[g[k]].id
    BY <1>9
  <2>2. TimerTypes'
    BY <1>1, <1>2, <1>3, <1>4, <1>9 DEF TimerInv, TimerTypes
  <2>3. Sorted'
    BY <1>9, <2>1 DEF TimerInv, Sorted
  <2>4. \A k \in DOMAIN timers' : g[k] # i => timers[g[k]].id # timers[i].id
    <3>1. \A j \in DOMAIN timers : j # i => j < i \/ i < j
      BY <1>3
    <3>2. \A j \in DOMAIN timers : timers[j].id \in Nat
      BY TimerFields DEF TimerInv
    <3>3. \A j \in DOMAIN timers : j # i => timers[j].id # timers[i].id
      BY <1>3, <3>1, <3>2 DEF TimerInv, Sorted
    <3> QED
      BY <1>9, <3>3
  <2>5. Alive'
    BY <1>1, <1>2, <1>9, <2>1, <2>4 DEF TimerInv, Alive
  <2>6. ReadyIsDue'
    <3> SUFFICES ASSUME NEW k \in DOMAIN timers', NEW l \in DOMAIN ready',
                        timers'[k].id = ready'[l]
                 PROVE  timers'[k].fire_at <= pass_now
      BY <1>1 DEF ReadyIsDue
    <3>1. g[k] # i
      <4>1. timers[i].id < ready'[l]
        BY <1>3, <1>4
      <4>2. timers[g[k]].id = ready'[l]
        BY <2>1
      <4> QED
        BY <1>3, <4>1, <4>2
    <3>2. l + 1 \in DOMAIN ready /\ timers[g[k]].id = ready[l + 1]
      BY <1>4, <2>1
    <3> QED
      BY <1>1, <1>9, <3>1, <3>2 DEF TimerInv, ReadyIsDue, Firing
  <2>7. DueIsReady'
    <3> SUFFICES ASSUME NEW k \in DOMAIN timers'
                 PROVE  \/ timers'[k].fire_at > pass_now
                        \/ timers'[k].repeat /\ timers'[k].interval_ms = 0
                        \/ timers'[k].id >= pass_first
                        \/ \E l \in DOMAIN ready' : ready'[l] = timers'[k].id
      BY <1>1 DEF DueIsReady
    <3>1. CASE g[k] = i
      BY <1>3, <1>9, <3>1 DEF TimerInv, TimerTypes
    <3>2. CASE g[k] # i
      <4>1. timers'[k] = timers[g[k]] /\ g[k] \in DOMAIN timers
        BY <1>9, <3>2
      <4>2. ASSUME NEW l \in DOMAIN ready, ready[l] = timers[g[k]].id
            PROVE  \E m \in DOMAIN ready' : ready'[m] = timers[g[k]].id
        BY <1>3, <1>4, <2>4, <3>2, <4>2
      <4>3. \/ timers[g[k]].fire_at > pass_now
            \/ timers[g[k]].repeat /\ timers[g[k]].interval_ms = 0
            \/ timers[g[k]].id >= pass_first
            \/ \E l \in DOMAIN ready : ready[l] = timers[g[k]].id
        BY <1>1, <4>1 DEF TimerInv, DueIsReady, Firing
      <4> QED
        BY <4>1, <4>2, <4>3
    <3> QED
      BY <3>1, <3>2
  <2> QED
    BY <1>6, <1>7, <1>8, <2>2, <2>3, <2>5, <2>6, <2>7 DEF TimerInv
<1> HIDE DEF Origin
<1>10. ASSUME timers[i].repeat PROVE TimerInv'
  <2> DEFINE e == [timers[i] EXCEPT !.fire_at = pass_now + timers[i].interval_ms]
             g == [k \in 1..n |-> k]
  <2>1. e \in Entry /\ e.id = timers[i].id /\ e.repeat = timers[i].repeat
        /\ e.interval_ms = timers[i].interval_ms
        /\ e.fire_at = pass_now + timers[i].interval_ms
    <3>1. pass_now + timers[i].interval_ms \in Nat
      BY <1>3 DEF TimerInv, TimerTypes
    <3> QED
      BY <1>3, <3>1 DEF Entry
  <2>2. timers' = [timers EXCEPT ![i] = e]
    BY <1>2, <1>10
  <2> HIDE DEF e
  <2>3. timers' \in Seq(Entry) /\ DOMAIN timers' = 1..n
        /\ \A k \in 1..n : timers'[k] = IF k = i THEN e ELSE timers[k]
    BY <1>3, <2>1, <2>2, ExceptSeq DEF n
  <2> QED
    <3>1. \A k \in DOMAIN timers' : g[k] = k /\ g[k] \in DOMAIN timers
      BY <1>3, <2>3
    <3> HIDE DEF g
    <3>2. \A k, l \in DOMAIN timers' : k < l => g[k] < g[l]
      BY <3>1
    <3>3. Origin(g)
      BY <1>3, <1>10, <2>1, <2>3, <3>1, <3>2 DEF Origin
    <3> QED
      BY <1>9, <2>3, <3>3
<1>11. ASSUME ~timers[i].repeat PROVE TimerInv'
  <2> DEFINE g == [k \in 1..(n-1) |-> IF k < i THEN k ELSE k + 1]
  <2>1. timers' = SubSeq(timers, 1, i - 1) \o SubSeq(timers, i + 1, n)
    BY <1>2, <1>11 DEF RemoveAt, n
  <2>2. timers' \in Seq(Entry) /\ Len(timers') = n - 1
        /\ \A k \in 1..(n-1) : timers'[k] = timers[g[k]]
    <3> DEFINE front == SubSeq(timers, 1, i - 1)
               back == SubSeq(timers, i + 1, n)
    <3>1. /\ front \in Seq(Entry) /\ Len(front) = i - 1
          /\ \A k \in 1..(i-1) : front[k] = timers[k]
      BY <1>3, ElementOfSeq, SubSeqProperties DEF n
    <3>2. /\ back \in Seq(Entry) /\ Len(back) = n - i
          /\ \A k \in 1..(n-i) : back[k] = timers[k + i]
      <4>1. \A j \in (i+1)..n : timers[j] \in Entry
        BY <1>3, ElementOfSeq DEF n
      <4>2. i + 1 \in Int /\ n \in Int
        BY <1>3
      <4>3. /\ back \in Seq(Entry) /\ Len(back) = IF i + 1 <= n THEN n - (i + 1) + 1 ELSE 0
            /\ \A k \in 1..(n - (i + 1) + 1) : back[k] = timers[(i + 1) + k - 1]
        BY <4>1, <4>2, SubSeqProperties
      <4>4. \A k \in 1..(n-i) : (i + 1) + k - 1 = k + i /\ k \in 1..(n - (i + 1) + 1)
        BY <1>3
      <4> QED
        BY <1>3, <4>3, <4>4
    <3> HIDE DEF front, back
    <3>3. timers' = front \o back
      BY <2>1 DEF front, back
    <3>4. /\ timers' \in Seq(Entry) /\ Len(timers') = n - 1
          /\ \A k \in 1..(n-1) : timers'[k] = IF k <= i - 1 THEN front[k] ELSE back[k - (i - 1)]
      <4>1. Len(front) + Len(back) = n - 1
        BY <1>3, <3>1, <3>2
      <4>2. /\ front \o back \in Seq(Entry) /\ Len(front \o back) = Len(front) + Len(back)
            /\ \A k \in 1..(Len(front) + Len(back)) :
                 (front \o back)[k] = IF k <= Len(front) THEN front[k] ELSE back[k - Len(front)]
        BY <3>1, <3>2, ConcatProperties, Zenon
      <4> QED
        BY <3>1, <3>3, <4>1, <4>2
    <3>5. ASSUME NEW k \in 1..(n-1) PROVE timers'[k] = timers[g[k]]
      <4>1. CASE k < i
        BY <1>3, <3>1, <3>4, <4>1
      <4>2. CASE ~(k < i)
        <5>1. k - (i - 1) \in 1..(n-i) /\ (k - (i - 1)) + i = k + 1
          BY <1>3, <4>2
        <5>2. timers'[k] = back[k - (i - 1)] /\ g[k] = k + 1
          BY <1>3, <3>4, <4>2
        <5> QED
          BY <3>2, <5>1, <5>2
      <4> QED
        BY <4>1, <4>2
    <3> QED
      BY <3>4, <3>5
  <2>3. DOMAIN timers' = 1..(n-1)
    BY <2>2, LenProperties
  <2> QED
    <3>1. \A k \in DOMAIN timers' : g[k] \in DOMAIN timers /\ g[k] # i
      BY <1>3, <2>3
    <3>2. \A k, l \in DOMAIN timers' : k < l => g[k] < g[l]
      BY <1>3, <2>3
    <3> HIDE DEF g
    <3>3. Origin(g)
      BY <2>2, <2>3, <3>1, <3>2 DEF Origin
    <3> QED
      BY <1>9, <2>2, <3>3
<1> QED
  BY <1>2, <1>5, <1>10, <1>11

(* find_if found nothing: an id is dropped that no timer has.               *)
LEMMA ClearedIsSkipped ==
  ASSUME TimerInv, SkipCleared
  PROVE  TimerInv'
<1>1. /\ pc = "fire" /\ pc' = "fire" /\ ready # <<>> /\ ready' = Tail(ready)
      /\ Indices(Head(ready)) = {}
      /\ UNCHANGED <<now, timers, next_timer_id, dead, pass_now, pass_first, running>>
  BY DEF SkipCleared, timerVars, passVars
<1>2. /\ ready' \in Seq(Ids) /\ Head(ready) = ready[1] /\ 1 \in DOMAIN ready
      /\ \A k \in DOMAIN ready' : k + 1 \in DOMAIN ready /\ ready'[k] = ready[k + 1]
      /\ \A k \in DOMAIN ready : k = 1 \/ (k - 1 \in DOMAIN ready' /\ ready'[k - 1] = ready[k])
      /\ \A k \in DOMAIN ready' : Head(ready) < ready'[k] /\ ready'[k] < pass_first
      /\ \A k, l \in DOMAIN ready' : k < l => ready'[k] < ready'[l]
  BY <1>1, ReadyTail
<1>3. \A i \in DOMAIN timers : timers[i].id # ready[1]
  BY <1>1, <1>2 DEF Indices
<1>4. TimerTypes' /\ Sorted' /\ Alive' /\ Given'
  BY <1>1, <1>2 DEF TimerInv, TimerTypes, Sorted, Alive, Given
<1>5. PassInv'
  BY <1>1, <1>2 DEF TimerInv, PassInv, Firing
<1>6. ReadyIsDue'
  BY <1>1, <1>2 DEF TimerInv, ReadyIsDue, Firing
<1>7. DueIsReady'
  <2> SUFFICES ASSUME NEW i \in DOMAIN timers, NEW k \in DOMAIN ready, ready[k] = timers[i].id
               PROVE  \E m \in DOMAIN ready' : ready'[m] = timers[i].id
    BY <1>1 DEF TimerInv, DueIsReady, Firing
  <2> QED
    BY <1>2, <1>3
<1>8. RunningInv'
  BY <1>1 DEF RunningInv
<1> QED
  BY <1>4, <1>5, <1>6, <1>7, <1>8 DEF TimerInv

LEMMA TimerStep ==
  ASSUME TimerInv, [Next]_vars
  PROVE  TimerInv'
<1> USE DEF timerVars, loopVars, passVars, phaseVars
<1>0. now \in Nat /\ now + 1 \in Nat /\ now + 1 >= now /\ now >= now
  BY DEF TimerInv, TimerTypes
<1>1. CASE ArmTimer
  BY <1>1, TimerIsSet, LoopAssumption DEF ArmTimer
<1>2. CASE QueueMicrotask
  BY <1>2, TimerIsSet DEF QueueMicrotask
<1>3. CASE SpendTime
  BY <1>0, <1>3, TimersUntouched DEF SpendTime
<1>4. ASSUME NEW i \in Ids, ClearTimer(i) PROVE TimerInv'
  BY <1>4, TimerIsCleared
<1>5. ASSUME NEW ph \in Phases, SettlePromise(ph) PROVE TimerInv'
  BY <1>0, <1>5, TimersUntouched DEF SettlePromise
<1>6. CASE EnterPump \/ EndFiring \/ EndDrain \/ Rest \/ Created \/ DriverEnds \/ CallbackEnds
           \/ Create \/ Elapse
  BY <1>0, <1>6, TimersUntouched
     DEF EnterPump, EndFiring, EndDrain, Rest, Created, DriverEnds, CallbackEnds, Create,
         Elapse, Firing
<1>7. CASE DriverThrows \/ EngineThrows
  BY <1>0, <1>7, TimersUntouched DEF DriverThrows, EngineThrows, Finish, Firing
<1>8. CASE Check
  <2>1. CASE StartPass
    BY <1>0, <2>1, TimersUntouched DEF StartPass, Firing
  <2>2. CASE \E result : Finish(result)
    BY <1>0, <2>2, TimersUntouched DEF Finish, Firing
  <2> QED
    BY <1>8, <2>1, <2>2 DEF Check
<1>14. CASE BeginPass
  BY <1>14, PassIsBegun
<1>9. CASE FireReady
  BY <1>9, TimerFires
<1>10. CASE SkipCleared
  BY <1>10, ClearedIsSkipped
<1>11. ASSUME NEW ph \in Phases, React(ph) \/ Begin(ph) PROVE TimerInv'
  BY <1>0, <1>11, TimersUntouched DEF React, Begin, Firing
<1>12. CASE Destroy
  <2>1. timers' = <<>> /\ dead' = {} /\ next_timer_id' = 1 /\ pc' = "absent"
        /\ now' = 0 /\ pass_now' = 0 /\ pass_first' = 1 /\ UNCHANGED <<ready, running>>
    BY <1>12 DEF Destroy
  <2>2. TimerTypes'
    BY <2>1, LoopAssumption DEF TimerInv, TimerTypes
  <2> QED
    BY <2>1, <2>2 DEF TimerInv, Sorted, Alive, Given, PassInv, ReadyIsDue, DueIsReady,
       RunningInv, Firing
<1>13. CASE UNCHANGED vars
  BY <1>0, <1>13, TimersUntouched DEF vars
<1> QED
  BY <1>1, <1>2, <1>3, <1>4, <1>5, <1>6, <1>7, <1>8, <1>9, <1>10, <1>11, <1>12, <1>13, <1>14
     DEF Next, Host, Loop, Leave, Caller

(* The inductive invariant of the list of timers and of the snapshot of ready
   ids a pass works off. *)
THEOREM TimerInvariance == Spec => []TimerInv
BY InitTimerInv, TimerStep, PTL DEF Spec

(* Every field of the runner has its type: ids do not outrun MaxTimers, the *)
(* vector holds timers, ready_ids holds ids.                                *)
THEOREM TypeCorrect == Spec => []TypeOK
<1>1. IInv /\ TimerInv => TypeOK
  BY DEF IInv, TimerInv, PhaseTypes, TimerTypes, StateInv, Values, TypeOK
<1> QED
  BY <1>1, Invariance, TimerInvariance, PTL

(* erase before the call, find_if before each one: a one-shot that fired or *)
(* a timer that was cleared is not in the vector any more.                  *)
THEOREM DeadNeverFire == Spec => NeverFiresWhenDead
<1>1. TimerInv /\ [Next]_vars => [pc # "callback" /\ pc' = "callback" => running'.id \notin dead]_vars
  <2> SUFFICES ASSUME TimerInv, Next, pc # "callback", pc' = "callback"
               PROVE  running'.id \notin dead
    OBVIOUS
  <2>1. FireReady
    BY DEF Next, Host, ArmTimer, QueueMicrotask, SetTimer, SpendTime, ClearTimer, SettlePromise,
           Loop, EnterPump, Check, Finish, StartPass, BeginPass, SkipCleared, EndFiring, EndDrain, Rest, React,
           Leave, Created, DriverThrows, EngineThrows, DriverEnds, CallbackEnds,
           Caller, Create, Destroy, Elapse, Begin
  <2> QED
    BY <2>1, TimerFires
<1> QED
  BY <1>1, TimerInvariance, PTL DEF Spec, NeverFiresWhenDead

(* ready_ids is a snapshot: whatever the callbacks set and clear, what was  *)
(* due at the start of the pass has fired at its end.                       *)
THEOREM NothingSkipped == Spec => []NothingDueIsSkipped
<1>1. IInv /\ TimerInv => NothingDueIsSkipped
  BY DEF TimerInv, PassInv, DueIsReady, Firing, NothingDueIsSkipped
<1> QED
  BY <1>1, Invariance, TimerInvariance, PTL

(* The vector is in the order of creation and ready_ids keeps it.           *)
THEOREM InOrder == Spec => []SameDelayInOrder
<1>1. TimerInv => SameDelayInOrder
  <2> SUFFICES ASSUME TimerInv, pc = "callback", NEW i \in DOMAIN timers, ~timers[i].repeat,
                      timers[i].id < running.id
               PROVE  timers[i].fire_at > running.fire_at
    BY DEF SameDelayInOrder
  <2>1. /\ running \in Entry /\ running.fire_at <= pass_now /\ running.id < pass_first
        /\ \A k \in DOMAIN ready : running.id < ready[k] /\ ready[k] \in Nat
    BY ReadyFields DEF TimerInv, RunningInv
  <2>2. /\ running.fire_at \in Nat /\ running.id \in Nat
        /\ pass_now \in Nat /\ pass_first \in Nat
    BY <2>1, LoopAssumption DEF TimerInv, TimerTypes, Entry, Ids
  <2>3. timers[i].id \in Nat /\ timers[i].fire_at \in Nat
    BY TimerFields DEF TimerInv
  <2>4. ~(timers[i].id >= pass_first) /\ \A k \in DOMAIN ready : ready[k] # timers[i].id
    BY <2>1, <2>2, <2>3
  <2>5. timers[i].fire_at > pass_now
    BY <2>4 DEF TimerInv, DueIsReady, Firing
  <2> QED
    BY <2>1, <2>2, <2>3, <2>5
<1> QED
  BY <1>1, TimerInvariance, PTL

(* A timer fires only once the clock of the pass has reached its time.      *)
THEOREM Punctual == Spec => []NeverEarly
<1>1. TimerInv => NeverEarly
  BY DEF TimerInv, TimerTypes, PassInv, RunningInv, Firing, NeverEarly, Entry
<1> QED
  BY <1>1, TimerInvariance, PTL
=============================================================================
