------------------------------ MODULE MCJsHosts ------------------------------
(* Instances of JsHosts for TLC. *)
EXTENDS JsHosts
=============================================================================
