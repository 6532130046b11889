------------------------------ MODULE EventLoop ------------------------------
(***************************************************************************)
(* A BotGuard runner of src/hermes_runner.cpp: the timers its JavaScript   *)
(* sets, the pump that fires them, and the two phases, run_snapshot and    *)
(* run_mint, that pump until the promise of their driver script has been   *)
(* seen to settle or the deadline has passed.                              *)
(*                                                                         *)
(* What the downloaded JavaScript does is not known: wherever the runner   *)
(* gives it control it may, in any order and number, set and clear timers, *)
(* settle the promise waited for and let time pass.  Time is in ms.        *)
(*                                                                         *)
(* pc is where the runner is:                                              *)
(*   absent     no runner                                                  *)
(*   bundle     create_runner evaluates the bundle (JavaScript runs)       *)
(*   idle       the caller of the runner has control                       *)
(*   driver     the driver script of a phase runs (JavaScript)             *)
(*   predrain   the microtasks queued by the driver run (JavaScript)       *)
(*   check      at the head of the loop of pump_event_loop                 *)
(*   pass       the deadline is still ahead, the pass has not read its own *)
(*              clock yet                                                  *)
(*   fire       in the loop over ready_ids                                 *)
(*   callback   a timer's callback runs (JavaScript)                       *)
(*   drain      the microtasks run at the end of a pass (JavaScript)       *)
(*   rest       after the drain, before the sleep                          *)
(***************************************************************************)
EXTENDS SequencesExt, Subsequences

CONSTANTS
  None,
  Timeout,     \* timeout_ms of pump_event_loop
  Delays,      \* the delays the JavaScript asks for
  MaxTimers,   \* bound: timers a runner's JavaScript sets in its life
  MaxIdle      \* bound: the time until which the caller may stay idle

ASSUME LoopAssumption ==
  /\ Timeout \in Nat
  /\ Delays \subseteq Nat
  /\ MaxTimers \in Nat
  /\ MaxIdle \in Nat

ASSUME NoneAssumption ==
  None \notin {"snapshot", "mint", "pending", "text", "empty", "rejected", "ok"}

VARIABLES
  now,            \* steady_clock::now()
  timers,         \* r->timers
  next_timer_id,  \* r->next_timer_id
  pc,
  phase,          \* the phase that runs, or None
  deadline,       \* of the pump that runs
  pass_now,       \* `now' of the pass that runs
  pass_first,     \* the first id given after the pass began (history)
  late,           \* passes of the phase begun after the deadline (history)
  ready,          \* the ready_ids of the pass still to be looked at
  running,        \* the timer whose callback runs, as it was, or None
  promise,        \* promise[ph]: None, "pending" or what it settled to
  state,          \* __epo_state__, __epo_mint_state__: None or the value seen
  outcome,        \* outcome[ph]: what run_snapshot / run_mint returned
  dead            \* ids of one-shots that fired and of cleared timers
                  \*   (a history variable)

vars == <<now, timers, next_timer_id, pc, phase, deadline, pass_now, pass_first,
          late, ready, running, promise, state, outcome, dead>>

passVars == <<pass_now, pass_first, late>>
loopVars == <<phase, deadline, passVars, ready, running>>
timerVars == <<timers, next_timer_id, dead>>
phaseVars == <<promise, state, outcome>>

Runner == INSTANCE BotGuardRunner WITH busy <- phase

Phases == Runner!Phases

JavaScript == {"bundle", "driver", "predrain", "callback", "drain"}
Labels == JavaScript \cup {"absent", "idle", "check", "pass", "fire", "rest"}

Ids == 1..MaxTimers

Entry == [id : Ids, fire_at : Nat, repeat : BOOLEAN, interval_ms : Nat,
          micro : BOOLEAN]

TypeOK ==
  /\ now \in Nat
  /\ timers \in Seq(Entry)
  /\ next_timer_id \in 1..(MaxTimers + 1)
  /\ pc \in Labels
  /\ phase \in Phases \cup {None}
  /\ deadline \in Nat /\ pass_now \in Nat
  /\ pass_first \in 1..(MaxTimers + 1) /\ late \in Nat
  /\ ready \in Seq(Ids)
  /\ running \in Entry \cup {None}
  /\ promise \in [Phases -> Runner!Settled \cup {"pending", None}]
  /\ state \in [Phases -> Runner!Settled \cup {None}]
  /\ outcome \in [Phases -> {"ok", "empty", "error", "timeout", "threw", None}]
  /\ dead \subseteq Ids

Init ==
  /\ now = 0
  /\ timers = <<>> /\ next_timer_id = 1 /\ dead = {}
  /\ pc = "absent"
  /\ phase = None /\ deadline = 0 /\ pass_now = 0 /\ pass_first = 1 /\ late = 0
  /\ ready = <<>>
  /\ running = None
  /\ promise = Runner!Fresh /\ state = Runner!Fresh /\ outcome = Runner!Fresh

----------------------------------------------------------------------------
(* What JavaScript does through the host functions. *)

Indices(id) == {i \in DOMAIN timers : timers[i].id = id}

(* Mutant: push_front for push_back. *)
SetTimerFirst(delay, repeat, micro) ==
  /\ pc \in JavaScript
  /\ next_timer_id <= MaxTimers
  /\ timers' = Cons([id |-> next_timer_id, fire_at |-> now + delay,
       repeat |-> repeat, interval_ms |-> IF repeat THEN delay ELSE 0,
       micro |-> micro], timers)
  /\ next_timer_id' = next_timer_id + 1
  /\ UNCHANGED <<now, pc, dead, loopVars, phaseVars>>

SetTimer(delay, repeat, micro) ==
  /\ pc \in JavaScript
  /\ next_timer_id <= MaxTimers
  /\ timers' = Append(timers,
       [id |-> next_timer_id, fire_at |-> now + delay, repeat |-> repeat,
        interval_ms |-> IF repeat THEN delay ELSE 0, micro |-> micro])
  /\ next_timer_id' = next_timer_id + 1
  /\ UNCHANGED <<now, pc, dead, loopVars, phaseVars>>

(* setTimeout, setInterval and, with a delay of 16, requestAnimationFrame. *)
ArmTimer == \E d \in Delays, repeat \in BOOLEAN : SetTimer(d, repeat, FALSE)

(* queueMicrotask: a one-shot timer that is due at once. *)
QueueMicrotask == SetTimer(0, FALSE, TRUE)

(* Mutant: a timer that is already due is left to fire. *)
ClearUndue(i) ==
  /\ pc \in JavaScript
  /\ i < next_timer_id
  /\ timers' = Picked(timers, {k \in DOMAIN timers :
                               timers[k].id # i \/ timers[k].fire_at <= now})
  /\ dead' = dead \cup {i}
  /\ UNCHANGED <<now, pc, next_timer_id, loopVars, phaseVars>>

(* clearTimeout, clearInterval, cancelAnimationFrame; unknown ids are fine. *)
ClearTimer(i) ==
  /\ pc \in JavaScript
  /\ i < next_timer_id
  /\ timers' = Picked(timers, DOMAIN timers \ Indices(i))
  /\ dead' = dead \cup {i}
  /\ UNCHANGED <<now, pc, next_timer_id, loopVars, phaseVars>>

(* The promise of a phase, runBotguard's or newMinter's and mint's, settles. *)
SettlePromise(ph) ==
  /\ pc \in JavaScript
  /\ promise[ph] = "pending"
  /\ \E v \in Runner!Settled : promise' = [promise EXCEPT ![ph] = v]
  /\ UNCHANGED <<now, pc, timerVars, loopVars, state, outcome>>

(* A callback, or a synchronous fetch inside it, takes its time, and the    *)
(* thread may lose the processor between two readings of the clock: either  *)
(* may last past the deadline.                                              *)
SpendTime ==
  /\ pc \in JavaScript \cup {"check", "pass"}
  /\ phase # None
  /\ now <= deadline
  /\ now' = now + 1
  /\ UNCHANGED <<pc, timerVars, loopVars, phaseVars>>

(* Mutant: the driver stores the promise itself, settled or not. *)
ReactAtOnce(ph) ==
  /\ pc \in {"predrain", "drain"}
  /\ promise[ph] # None
  /\ state[ph] = None
  /\ state' = [state EXCEPT ![ph] = promise[ph]]
  /\ UNCHANGED <<now, pc, timerVars, loopVars, promise, outcome>>

(* The microtask of .then or .catch in the driver stores the state object.  *)
React(ph) ==
  /\ pc \in {"predrain", "drain"}
  /\ promise[ph] \in Runner!Settled
  /\ state[ph] = None
  /\ state' = [state EXCEPT ![ph] = promise[ph]]
  /\ UNCHANGED <<now, pc, timerVars, loopVars, promise, outcome>>

Host ==
  \/ ArmTimer \/ QueueMicrotask \/ SpendTime
  \/ \E i \in Ids : ClearTimer(i)
  \/ \E ph \in Phases : SettlePromise(ph)

----------------------------------------------------------------------------
(* create_runner and destroy_runner *)

Create ==
  /\ pc = "absent"
  /\ pc' = "bundle"
  /\ UNCHANGED <<now, timerVars, loopVars, phaseVars>>

Created ==
  /\ pc = "bundle"
  /\ pc' = "idle"
  /\ UNCHANGED <<now, timerVars, loopVars, phaseVars>>

(* By the caller's guard, or by create_runner when the bundle throws.       *)
Destroy ==
  /\ pc \in {"idle", "bundle"}
  /\ pc' = "absent"
  /\ now' = 0
  /\ timers' = <<>> /\ next_timer_id' = 1 /\ dead' = {}
  /\ promise' = Runner!Fresh /\ state' = Runner!Fresh /\ outcome' = Runner!Fresh
  /\ deadline' = 0 /\ pass_now' = 0 /\ pass_first' = 1 /\ late' = 0
  /\ UNCHANGED <<phase, ready, running>>

(* The caller is elsewhere, such as in post_generate_it.                    *)
Elapse ==
  /\ pc = "idle"
  /\ now < MaxIdle
  /\ now' = now + 1
  /\ UNCHANGED <<pc, timerVars, loopVars, phaseVars>>

----------------------------------------------------------------------------
(* run_snapshot and run_mint *)

(* The phase returns; the locals of its pump are gone.                      *)
Finish(result) ==
  /\ outcome' = [outcome EXCEPT ![phase] = result]
  /\ phase' = None
  /\ pc' = "idle"
  /\ deadline' = 0 /\ pass_now' = 0 /\ pass_first' = 1 /\ late' = 0
  /\ UNCHANGED <<now, timerVars, ready, running, promise, state>>

(* The driver resets the state object and starts the promise chain.         *)
Begin(ph) ==
  /\ pc = "idle"
  /\ outcome[ph] = None
  /\ ph = "mint" => outcome["snapshot"] = "ok"
  /\ pc' = "driver"
  /\ phase' = ph
  /\ promise' = [promise EXCEPT ![ph] = "pending"]
  /\ state' = [state EXCEPT ![ph] = None]
  /\ deadline' = now + Timeout
  /\ late' = 0
  /\ UNCHANGED <<now, timerVars, pass_now, pass_first, ready, running, outcome>>

DriverThrows ==
  /\ pc = "driver"
  /\ Finish("threw")

(* drainMicrotasks and the condition, which evaluates JavaScript, are not   *)
(* in a try block: an exception of the engine leaves the phase.             *)
EngineThrows ==
  /\ pc \in {"predrain", "check", "drain"}
  /\ Finish("threw")

DriverEnds ==
  /\ pc = "driver"
  /\ pc' = "predrain"
  /\ UNCHANGED <<now, timerVars, loopVars, phaseVars>>

Drained == \A ph \in Phases : promise[ph] \in Runner!Settled => state[ph] # None

(* drainMicrotasks after the driver, then the pump takes its deadline.      *)
EnterPump ==
  /\ pc = "predrain"
  /\ Drained
  /\ pc' = "check"
  /\ deadline' = now + Timeout
  /\ UNCHANGED <<now, timerVars, phase, passVars, ready, running, phaseVars>>

----------------------------------------------------------------------------
(* pump_event_loop *)

(* Mutant: also what falls due during the next sleep. *)
ReadyAhead ==
  LET due == Picked(timers, {i \in DOMAIN timers : timers[i].fire_at <= now + 1})
  IN [i \in DOMAIN due |-> due[i].id]

ReadyIds ==
  LET due == Picked(timers, {i \in DOMAIN timers : timers[i].fire_at <= now})
  IN [i \in DOMAIN due |-> due[i].id]

StartPass ==
  /\ pc' = "pass"
  /\ UNCHANGED <<now, timerVars, loopVars, phaseVars>>

(* Mutant: the deadline is looked at before the condition. *)
CheckDeadlineFirst ==
  /\ pc = "check"
  /\ \/ /\ now > deadline
        /\ Finish("timeout")
     \/ /\ now <= deadline
        /\ state[phase] # None
        /\ Finish(Runner!Read(state[phase]))
     \/ /\ now <= deadline
        /\ state[phase] = None
        /\ StartPass

(* Mutant: the deadline is looked at only when nothing is left to fire. *)
CheckWhenIdle ==
  /\ pc = "check"
  /\ \/ /\ state[phase] # None
        /\ Finish(Runner!Read(state[phase]))
     \/ /\ state[phase] = None
        /\ now > deadline /\ ReadyIds = <<>>
        /\ Finish("timeout")
     \/ /\ state[phase] = None
        /\ now <= deadline \/ ReadyIds # <<>>
        /\ StartPass

(* while (!condition()) and the deadline, with a clock reading of its own.  *)
Check ==
  /\ pc = "check"
  /\ \/ /\ state[phase] # None
        /\ Finish(Runner!Read(state[phase]))
     \/ /\ state[phase] = None
        /\ now > deadline
        /\ Finish("timeout")
     \/ /\ state[phase] = None
        /\ now <= deadline
        /\ StartPass

(* The pass reads the clock again and takes its snapshot of the ready ids.  *)
BeginPass ==
  /\ pc = "pass"
  /\ pass_now' = now
  /\ pass_first' = next_timer_id
  /\ late' = IF now > deadline THEN late + 1 ELSE late
  /\ ready' = ReadyIds
  /\ pc' = "fire"
  /\ UNCHANGED <<now, timerVars, phase, deadline, running, phaseVars>>

(* Mutant: an erased one-shot takes the next ready id with it. *)
FireByIndex ==
  /\ pc = "fire"
  /\ ready # <<>>
  /\ \E i \in Indices(Head(ready)) :
       /\ running' = timers[i]
       /\ timers' = IF timers[i].repeat
            THEN [timers EXCEPT ![i].fire_at = pass_now + timers[i].interval_ms]
            ELSE RemoveAt(timers, i)
       /\ dead' = IF timers[i].repeat THEN dead ELSE dead \cup {timers[i].id}
       /\ ready' = IF timers[i].repeat \/ Len(ready) = 1
            THEN Tail(ready) ELSE Tail(Tail(ready))
  /\ pc' = "callback"
  /\ UNCHANGED <<now, next_timer_id, phase, deadline, passVars, phaseVars>>

(* Mutant: the pass goes on while anything is due, an interval of 0 too. *)
FireWhileDue ==
  /\ pc = "fire"
  /\ ready # <<>>
  /\ \E i \in Indices(Head(ready)) :
       /\ running' = timers[i]
       /\ timers' = IF timers[i].repeat
            THEN [timers EXCEPT ![i].fire_at = pass_now + timers[i].interval_ms]
            ELSE RemoveAt(timers, i)
       /\ dead' = IF timers[i].repeat THEN dead ELSE dead \cup {timers[i].id}
       /\ ready' = IF timers[i].repeat /\ timers[i].interval_ms = 0
            THEN Append(Tail(ready), Head(ready)) ELSE Tail(ready)
  /\ pc' = "callback"
  /\ UNCHANGED <<now, next_timer_id, phase, deadline, passVars, phaseVars>>

(* A one-shot leaves the list before its callback runs, an interval gets    *)
(* its next time from the clock of the pass.                                *)
FireReady ==
  /\ pc = "fire"
  /\ ready # <<>>
  /\ \E i \in Indices(Head(ready)) :
       /\ running' = timers[i]
       /\ timers' = IF timers[i].repeat
            THEN [timers EXCEPT ![i].fire_at = pass_now + timers[i].interval_ms]
            ELSE RemoveAt(timers, i)
       /\ dead' = IF timers[i].repeat THEN dead ELSE dead \cup {timers[i].id}
  /\ ready' = Tail(ready)
  /\ pc' = "callback"
  /\ UNCHANGED <<now, next_timer_id, phase, deadline, passVars, phaseVars>>

(* An earlier callback of this pass has cleared the timer.                  *)
SkipCleared ==
  /\ pc = "fire"
  /\ ready # <<>>
  /\ Indices(Head(ready)) = {}
  /\ ready' = Tail(ready)
  /\ UNCHANGED <<now, timerVars, pc, phase, deadline, passVars, running, phaseVars>>

(* The callback returns, or throws and the exception is dropped.            *)
CallbackEnds ==
  /\ pc = "callback"
  /\ pc' = "fire"
  /\ running' = None
  /\ UNCHANGED <<now, timerVars, phase, deadline, passVars, ready, phaseVars>>

EndFiring ==
  /\ pc = "fire"
  /\ ready = <<>>
  /\ pc' = "drain"
  /\ UNCHANGED <<now, timerVars, loopVars, phaseVars>>

EndDrain ==
  /\ pc = "drain"
  /\ Drained
  /\ pc' = "rest"
  /\ UNCHANGED <<now, timerVars, loopVars, phaseVars>>

(* if (!condition()) sleep_for(1 ms)                                        *)
Rest ==
  /\ pc = "rest"
  /\ now' = IF state[phase] = None THEN now + 1 ELSE now
  /\ pc' = "check"
  /\ UNCHANGED <<timerVars, loopVars, phaseVars>>

Loop ==
  \/ EnterPump \/ Check \/ BeginPass \/ FireReady \/ SkipCleared \/ EndFiring
  \/ EndDrain \/ Rest \/ \E ph \in Phases : React(ph)

(* Control comes back from JavaScript. *)
Leave == Created \/ DriverThrows \/ EngineThrows \/ DriverEnds \/ CallbackEnds

Caller == Create \/ Destroy \/ Elapse \/ \E ph \in Phases : Begin(ph)

Next == Host \/ Loop \/ Leave \/ Caller

Spec == Init /\ [][Next]_vars

(* The thread that pumps is scheduled.                                      *)
FairSpec == Spec /\ WF_vars(Loop)

----------------------------------------------------------------------------
(* Properties *)

(* A one-shot that fired, or a timer that was cleared, never fires again,   *)
(* not even when it was already in the ready_ids of the pass.               *)
NeverFiresWhenDead ==
  [][pc # "callback" /\ pc' = "callback" => running'.id \notin dead]_vars

(* At the end of a pass nothing that was due at its start is left over,     *)
(* however the callbacks have rearranged the list in between.               *)
NothingDueIsSkipped ==
  pc = "drain" =>
    \A i \in DOMAIN timers :
      LET e == timers[i] IN
      \/ e.fire_at > pass_now
      \/ e.repeat /\ e.interval_ms = 0  \* fired, and due again at once
      \/ e.id >= pass_first             \* set by this pass

(* When a callback runs, no older one-shot that was due no later is still   *)
(* waiting: timers with the same delay fire in the order they were set.     *)
SameDelayInOrder ==
  pc = "callback" =>
    \A i \in DOMAIN timers :
      LET e == timers[i] IN
      ~e.repeat /\ e.id < running.id => e.fire_at > running.fire_at

(* No callback runs before its time. *)
NeverEarly == pc = "callback" => running.fire_at <= now

(* The deadline is looked at before the pass reads its own clock, so a pass *)
(* may begin after it, but never a second one: whatever falls due and       *)
(* however long callbacks run, a phase outlives its deadline by the pass    *)
(* under way, its sleep and at most one more pass that was let in before.   *)
OneLatePass == late <= 1

(* The phases as the caller sees them: the outcome is what the promise      *)
(* settled to, even after the deadline, and a timeout means it is pending.  *)
ImplementsRunner == Runner!Spec

(* Every phase returns, whatever timers are set and settled or not, if each *)
(* piece of JavaScript hands control back (nothing in the runner can        *)
(* interrupt one).                                                          *)
PhaseReturns == []<>(pc \notin JavaScript) => (phase # None ~> phase = None)

(* hermes_runner.cpp:173: a queued microtask is fired "before sleeping".    *)
MicrotasksBeforeSleep ==
  pc = "rest" /\ state[phase] = None =>
    \A i \in DOMAIN timers : ~timers[i].micro
=============================================================================
