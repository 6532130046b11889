--------------------------- MODULE BotGuardRunner ---------------------------
(***************************************************************************)
(* What hermes_runner promises to generate_po_token: a runner is created,  *)
(* asked for a snapshot and, if that succeeded, for a minted token, and    *)
(* destroyed.  Each of the two phases waits for one promise of the         *)
(* JavaScript side.  Its outcome is what the promise settled to; it is a   *)
(* timeout only if the promise is still pending when the phase returns.    *)
(***************************************************************************)

CONSTANT None

Phases == {"snapshot", "mint"}

(* What the promise of a phase can settle to: a non-empty string, a value  *)
(* js_string reads as the empty string, or a rejection.  A rejection whose *)
(* message is empty or "null" counts as empty: the phases take it for one. *)
Settled == {"text", "empty", "rejected"}

(* The outcome of a phase whose state object holds v.                      *)
Read(v) == CASE v = "text"     -> "ok"
             [] v = "empty"    -> "empty"
             [] v = "rejected" -> "error"

VARIABLES
  busy,     \* the phase that is waiting, or None
  promise,  \* promise[ph]: None before the phase, "pending", or its value
  outcome   \* outcome[ph]: None, "ok", "empty", "error", "timeout", "threw"

vars == <<busy, promise, outcome>>

Fresh == [ph \in Phases |-> None]

Init ==
  /\ busy = None
  /\ promise = Fresh
  /\ outcome = Fresh

Begin(ph) ==
  /\ busy = None
  /\ outcome[ph] = None
  /\ ph = "mint" => outcome["snapshot"] = "ok"
  /\ busy' = ph
  /\ promise' = [promise EXCEPT ![ph] = "pending"]
  /\ UNCHANGED outcome

Settle(ph) ==
  /\ promise[ph] = "pending"
  /\ \E v \in Settled : promise' = [promise EXCEPT ![ph] = v]
  /\ UNCHANGED <<busy, outcome>>

Return(ph) ==
  /\ busy = ph
  /\ outcome' = [outcome EXCEPT ![ph] =
       IF promise[ph] = "pending" THEN "timeout" ELSE Read(promise[ph])]
  /\ busy' = None
  /\ UNCHANGED promise

(* The driver script threw, which is returned as an error, or the engine   *)
(* did later, which leaves the phase as an exception.                      *)
Throw(ph) ==
  /\ busy = ph
  /\ outcome' = [outcome EXCEPT ![ph] = "threw"]
  /\ busy' = None
  /\ UNCHANGED promise

Destroy ==
  /\ busy = None
  /\ promise' = Fresh
  /\ outcome' = Fresh
  /\ UNCHANGED busy

Next ==
  \/ \E ph \in Phases : Begin(ph) \/ Settle(ph) \/ Return(ph) \/ Throw(ph)
  \/ Destroy

Spec == Init /\ [][Next]_vars
=============================================================================
