---------------------------- MODULE MCNsigClient ----------------------------
(* Instances of NsigClient for TLC. *)
EXTENDS NsigClient, TLC

CONSTANTS p1, p2, p3, h1, h2

(* p1 and p2 collide; p3, a version the extractor cannot handle, does not. *)
MCHash == [s \in Sources |-> IF s = p3 THEN h2 ELSE h1]

(* The threads are interchangeable. *)
ThreadSymmetry == Permutations(Threads)
=============================================================================
