---------------------------- MODULE MCEventLoop ----------------------------
(* Instances of EventLoop for TLC. *)
EXTENDS EventLoop

(* Picked is what remove_if leaves. *)
ASSUME PickedIsSelectSeq ==
  \A m \in 0..5 : \A I \in SUBSET (1..m) :
    LET s == [i \in 1..m |-> <<i, i \in I>>]
    IN Picked(s, I) = SelectSeq(s, LAMBDA e : e[2])
=============================================================================
