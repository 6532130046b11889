------------------------------ MODULE NsigData ------------------------------
(***************************************************************************)
(* The data of the nsig client: base.js texts, cache keys and replies.     *)
(*                                                                         *)
(* A text of base.js is abstracted to a member of Sources.  A player       *)
(* version is named by the text that is served for it, so a member of      *)
(* Sources stands for the version as well, and the script and the          *)
(* signature timestamp extracted from a text are named after that text.    *)
(***************************************************************************)

CONSTANTS
  Sources,      \* base.js texts (and the player versions they belong to)
  Extractable,  \* the texts nsig_extract::extract succeeds on
  HashValues,   \* values of std::hash<std::string>
  Hash,         \* std::hash<std::string> restricted to Sources
  None,         \* "no value": an unset local, an absent cache entry
  Failed        \* struct error, code "NSIG": the reply of a failed call

ASSUME DataAssumption ==
  /\ Extractable \subseteq Sources
  /\ Hash \in [Sources -> HashValues]

(* The two ways the client names a cache entry: the player id itself, and  *)
(* "h" followed by the decimal hash of a text the caller supplied.         *)
IdKey(p)     == <<"id", p>>
SourceKey(s) == <<"hash", Hash[s]>>

IdKeys     == {IdKey(p) : p \in Sources}
SourceKeys == {SourceKey(s) : s \in Sources}
Keys       == IdKeys \cup SourceKeys

(* The texts a key stands for: one for an id, all that collide for a hash. *)
Named(k) == {s \in Sources : k = IdKey(s) \/ k = SourceKey(s)}

(* struct cached_player: the decipher script and the signature timestamp,  *)
(* each named after the text it was extracted from.                        *)
CachedPlayer == [output : Sources, sts : Sources]

ASSUME NoneAssumption == None \notin Sources \cup Keys \cup CachedPlayer

(* What nsig_extract::extract returns for an extractable text.             *)
Extracted(s) == [output |-> s, sts |-> s]

(* struct nsig_result: the script whose decipher produced n, the           *)
(* player_id field and the signature timestamp.                            *)
NsigResult == [script : Sources, player_id : Keys, sts : Sources]

(* The reply of a successful call bound to key k and served from text s.   *)
ReplyFrom(s, k) == [script |-> s, player_id |-> k, sts |-> s]

Replies == NsigResult \cup {Failed, None}
=============================================================================
