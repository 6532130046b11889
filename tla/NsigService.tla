----------------------------- MODULE NsigService -----------------------------
(***************************************************************************)
(* What decipher_nsig promises its callers, with no cache, no lock and no  *)
(* JavaScript runtime: every call is bound to one player version (the one  *)
(* served at some instant of the call) or to the hash of the text it was   *)
(* given, and either fails or is answered by the script and the timestamp  *)
(* of one and the same text that carries that name.                        *)
(***************************************************************************)
EXTENDS NsigData

CONSTANT Threads    \* the caller's threads

VARIABLES
  current,  \* the player version YouTube serves at this moment
  asking,   \* the threads inside decipher_nsig
  target,   \* target[t]: the key the call of t is bound to, None before
  reply     \* reply[t]: what the last call of t returned

vars == <<current, asking, target, reply>>

Init ==
  /\ current \in Sources
  /\ asking = {}
  /\ target = [t \in Threads |-> None]
  /\ reply = [t \in Threads |-> None]

(* YouTube rolls another player version out (or back). *)
Rollout ==
  /\ \E p \in Sources : current' = p
  /\ UNCHANGED <<asking, target, reply>>

(* A call begins, by id (not bound yet) or with a text. *)
Ask(t) ==
  /\ t \notin asking
  /\ asking' = asking \cup {t}
  /\ \E k \in SourceKeys \cup {None} : target' = [target EXCEPT ![t] = k]
  /\ reply' = [reply EXCEPT ![t] = None]
  /\ UNCHANGED current

(* A call by id learns the version served now. *)
Bind(t) ==
  /\ t \in asking
  /\ target[t] = None
  /\ target' = [target EXCEPT ![t] = IdKey(current)]
  /\ UNCHANGED <<current, asking, reply>>

Answer(t) ==
  /\ t \in asking
  /\ \E s \in Extractable \cap Named(target[t]) :
       reply' = [reply EXCEPT ![t] = ReplyFrom(s, target[t])]
  /\ asking' = asking \ {t}
  /\ UNCHANGED <<current, target>>

GiveUp(t) ==
  /\ t \in asking
  /\ reply' = [reply EXCEPT ![t] = Failed]
  /\ asking' = asking \ {t}
  /\ UNCHANGED <<current, target>>

Next ==
  \/ Rollout
  \/ \E t \in Threads : Ask(t) \/ Bind(t) \/ Answer(t) \/ GiveUp(t)

Spec == Init /\ [][Next]_vars
=============================================================================
