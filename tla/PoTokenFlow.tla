----------------------------- MODULE PoTokenFlow -----------------------------
(***************************************************************************)
(* One call of generate_po_token (src/epotoken.cpp) with the requests that *)
(* src/innertube_client.cpp sends for it: the session, the challenge from  *)
(* /att/get or from the legacy Create, the interpreter, the snapshot, the  *)
(* integrity token, the mint and the placeholder.  Every request and every *)
(* answer may fail.  Calls share no state, so one is modelled.             *)
(*                                                                         *)
(* The runner is used through what it promises (BotGuardRunner); that the  *)
(* flow keeps to its protocol is the property UsesRunner.                  *)
(*                                                                         *)
(* pc names the step that comes next:                                      *)
(*   session att legacy interpreter create snapshot [snapshotting]         *)
(*   generate mint [minting] placeholder return done                       *)
(***************************************************************************)
EXTENDS Naturals

CONSTANTS
  None,
  Bindings,    \* content bindings a caller may ask for
  SessionIds,  \* visitor ids YouTube may assign in sw.js_data
  StaticId,    \* STATIC_VISITOR_ID
  TooLong,     \* the bindings and ids that make an identifier > 118 bytes
  MaxClock     \* bound: the clock stops there

ASSUME FlowAssumption ==
  /\ None \notin Bindings
  /\ StaticId \notin SessionIds /\ StaticId \notin TooLong
  /\ MaxClock \in Nat

VARIABLES
  now,           \* system_clock::now(), in seconds
  pc,
  binding_in,    \* argument content_binding, None when empty
  override,      \* argument interpreter_url, None when empty
  session,       \* sd.visitor_data of fetch_session
  att_get,       \* what the /att/get request carried, or None
  visitor_data,
  challenge,     \* the bg_challenge in use, or None
  interpreter,   \* where interpreter_js came from, or None
  guard,         \* what the runner_guard holds: "runner" or None
  busy, promise, outcome,  \* the runner, see BotGuardRunner
  integrity,     \* what GenerateIT answered, or None
  globals,       \* the globals run_mint sets: integrity token and binding
  po_token,      \* what was minted, or None
  placeholder,   \* what the placeholder was made for, None when empty
  requests,      \* how many requests were sent (history)
  failed,        \* the step without an alternative that failed, or None
                 \*   (history)
  result         \* what the call returns, None until then

request == <<session, att_get, visitor_data, challenge, interpreter>>
args == <<binding_in, override>>
runner == <<guard, busy, promise, outcome>>
products == <<integrity, globals, po_token, placeholder>>

vars == <<now, pc, args, request, runner, products, requests, failed, result>>

Runner == INSTANCE BotGuardRunner

(* encode_visitor_data(id, timestamp) *)
Visitor == [id : SessionIds \cup {StaticId}, at : 0..MaxClock]

generate_visitor_data == [id |-> StaticId, at |-> now]

Steps == {"session", "att", "legacy", "interpreter", "create", "snapshot",
          "snapshotting", "generate", "mint", "minting", "placeholder",
          "return", "done"}

ASSUME NoneAssumption ==
  None \notin Steps \cup {"ok", "error", "exception", "runner"}

Challenge == [from : {"att", "create"}, script : {"url", "embedded"}]

(* A snapshot is known by the challenge whose program made it.              *)
Integrity == [snapshot : Challenge]
Token == [integrity : Integrity, binding : Bindings \cup Visitor]

Outcomes == {"ok", "empty", "error", "timeout", "threw"}

TypeOK ==
  /\ now \in 0..MaxClock
  /\ pc \in Steps
  /\ binding_in \in Bindings \cup {None}
  /\ override \in {"url", None}
  /\ session \in Visitor \cup {None}
  /\ att_get \in [header : Visitor \cup {None}, context : Visitor] \cup {None}
  /\ visitor_data \in Visitor \cup {None}
  /\ challenge \in Challenge \cup {None}
  /\ interpreter \in {"embedded", "challenge", "override", None}
  /\ guard \in {"runner", None}
  /\ busy \in Runner!Phases \cup {None}
  /\ promise \in [Runner!Phases -> Runner!Settled \cup {"pending", None}]
  /\ outcome \in [Runner!Phases -> Outcomes \cup {None}]
  /\ integrity \in Integrity \cup {None}
  /\ globals \in Token \cup {None} /\ po_token \in Token \cup {None}
  /\ placeholder \in Bindings \cup Visitor \cup {None}
  /\ requests \in Nat
  /\ failed \in Steps \cup {None}
  /\ result \in {None, "ok", "error", "exception"}

Init ==
  /\ now = 0
  /\ pc = "session"
  /\ binding_in \in Bindings \cup {None}
  /\ override \in {"url", None}
  /\ session = None /\ att_get = None /\ visitor_data = None
  /\ challenge = None /\ interpreter = None
  /\ guard = None
  /\ Runner!Init
  /\ integrity = None /\ globals = None
  /\ po_token = None /\ placeholder = None
  /\ requests = 0 /\ failed = None /\ result = None

----------------------------------------------------------------------------

Go(step) == pc' = step /\ UNCHANGED <<failed, result>>

Send == requests' = requests + 1

(* return error{...}, or an exception that nothing in the call catches      *)
Quit(how) ==
  /\ pc' = "return"
  /\ failed' = pc
  /\ result' = how

Fail == Quit("error")

(* fetch_session leaves visitor_data empty when the request fails or the    *)
(* body is not what it should be; a body that is exactly ")]}" makes        *)
(* body.substr(4) throw.                                                    *)
FetchSession ==
  /\ pc = "session"
  /\ Send
  /\ \/ session' = None /\ Go("att")
     \/ /\ \E id \in SessionIds : session' = [id |-> id, at |-> now]
        /\ Go("att")
     \/ session' = None /\ Quit("exception")
  /\ UNCHANGED <<now, args, att_get, visitor_data, challenge, interpreter,
                 runner, products>>

(* build_att_get_body: the visitorData of the client context                *)
ContextVisitor(visitor) ==
  IF visitor = None THEN generate_visitor_data ELSE visitor

(* Mutant: the fallback for an empty visitor_data is left to the body.      *)
SessionAsFetched == session

(* sd.visitor_data as it is when the request is built                       *)
SessionVisitor == IF session = None THEN generate_visitor_data ELSE session

(* Mutant: when /att/get fails everything starts over. *)
RetryAttestation ==
  /\ pc = "att"
  /\ att_get' = [header |-> SessionVisitor,
                 context |-> ContextVisitor(SessionVisitor)]
  /\ \/ /\ challenge' = [from |-> "att", script |-> "url"]
        /\ visitor_data' = SessionVisitor
        /\ Send
        /\ Go("interpreter")
     \/ /\ requests' = 0
        /\ Go("session")
        /\ UNCHANGED <<challenge, visitor_data>>
  /\ UNCHANGED <<now, args, session, interpreter, runner, products>>

(* get_attestation_challenge after fetch_session; what parse_att_response   *)
(* accepts always has a URL.                                                *)
GetAttestationChallenge ==
  /\ pc = "att"
  /\ Send
  /\ att_get' = [header |-> SessionVisitor,
                 context |-> ContextVisitor(SessionVisitor)]
  /\ \/ /\ challenge' = [from |-> "att", script |-> "url"]
        /\ visitor_data' = SessionVisitor
        /\ Go("interpreter")
     \/ /\ Go("legacy")
        /\ UNCHANGED <<challenge, visitor_data>>
  /\ UNCHANGED <<now, args, session, interpreter, runner, products>>

(* generate_visitor_data and fetch_challenge; parse_inner finds either a    *)
(* URL or embedded JavaScript.                                              *)
FetchLegacyChallenge ==
  /\ pc = "legacy"
  /\ visitor_data' = generate_visitor_data
  /\ Send
  /\ \/ /\ \E script \in {"url", "embedded"} :
             challenge' = [from |-> "create", script |-> script]
        /\ Go("interpreter")
     \/ /\ Fail
        /\ UNCHANGED challenge
  /\ UNCHANGED <<now, args, session, att_get, interpreter, runner, products>>

(* Mutant: the argument is not looked at. *)
BindingToVisitor == visitor_data

ContentBinding == IF binding_in = None THEN visitor_data ELSE binding_in

(* A caller-supplied URL wins over embedded JavaScript, that over the URL   *)
(* of the challenge.  A fetch fails when the request does, when the answer  *)
(* is not 2xx and when its body is empty.                                   *)
GetInterpreter ==
  /\ pc = "interpreter"
  /\ \/ /\ override = None /\ challenge.script = "embedded"
        /\ interpreter' = "embedded"
        /\ Go("create")
        /\ UNCHANGED requests
     \/ /\ override # None \/ challenge.script = "url"
        /\ Send
        /\ \/ /\ interpreter' = IF override # None THEN "override"
                              ELSE "challenge"
              /\ Go("create")
           \/ Fail /\ UNCHANGED interpreter
  /\ UNCHANGED <<now, args, session, att_get, visitor_data, challenge, runner,
                 products>>

(* create_runner destroys what it made when it fails.                       *)
CreateRunner ==
  /\ pc = "create"
  /\ \/ guard' = "runner" /\ Go("snapshot")
     \/ guard' = None /\ Fail
  /\ UNCHANGED <<now, args, request, busy, promise, outcome, products,
                 requests>>

(* The driver script of a phase is evaluated. *)
Call(ph) ==
  /\ busy' = ph
  /\ promise' = [promise EXCEPT ![ph] = "pending"]
  /\ UNCHANGED <<guard, outcome>>

RunSnapshot ==
  /\ pc = "snapshot"
  /\ Call("snapshot")
  /\ Go("snapshotting")
  /\ UNCHANGED <<now, args, request, products, requests>>

(* Mutant: an empty snapshot is posted all the same. *)
SnapshotUnchecked ==
  /\ pc = "snapshotting"
  /\ Runner!Return("snapshot") \/ Runner!Throw("snapshot")
  /\ IF outcome'["snapshot"] \in {"ok", "empty"} THEN Go("generate") ELSE Fail
  /\ UNCHANGED <<now, args, request, guard, products, requests>>

SnapshotReturns ==
  /\ pc = "snapshotting"
  /\ Runner!Return("snapshot") \/ Runner!Throw("snapshot")
  /\ IF outcome'["snapshot"] = "ok" THEN Go("generate") ELSE Fail
  /\ UNCHANGED <<now, args, request, guard, products, requests>>

(* Mutant: a rejected snapshot is not seen. *)
GenerateAnyhow ==
  /\ pc = "generate"
  /\ Send
  /\ \/ integrity' = [snapshot |-> challenge] /\ Go("mint")
     \/ pc' = "mint" /\ failed' = pc /\ UNCHANGED <<integrity, result>>
  /\ UNCHANGED <<now, args, request, runner, globals, po_token, placeholder>>

(* post_generate_it *)
GenerateIT ==
  /\ pc = "generate"
  /\ Send
  /\ \/ integrity' = [snapshot |-> challenge] /\ Go("mint")
     \/ Fail /\ UNCHANGED integrity
  /\ UNCHANGED <<now, args, request, runner, globals, po_token, placeholder>>

RunMint ==
  /\ pc = "mint"
  /\ Call("mint")
  /\ globals' = [integrity |-> integrity, binding |-> ContentBinding]
  /\ Go("minting")
  /\ UNCHANGED <<now, args, request, integrity, po_token, placeholder,
                 requests>>

MintReturns ==
  /\ pc = "minting"
  /\ Runner!Return("mint") \/ Runner!Throw("mint")
  /\ IF outcome'["mint"] = "ok"
       THEN po_token' = globals /\ Go("placeholder")
       ELSE Fail /\ UNCHANGED po_token
  /\ UNCHANGED <<now, args, request, guard, integrity, globals, placeholder,
                 requests>>

(* drainMicrotasks and the pump run outside any try block: an exception of  *)
(* the engine there leaves the phase and the call.                          *)
PhaseThrows ==
  /\ pc \in {"snapshotting", "minting"}
  /\ Runner!Throw(busy)
  /\ Quit("exception")
  /\ UNCHANGED <<now, args, request, guard, products, requests>>

IdOf(identifier) == IF identifier \in Bindings THEN identifier
                    ELSE identifier.id

(* generate_placeholder_token; its error leaves the placeholder empty.      *)
Placeholder ==
  /\ pc = "placeholder"
  /\ placeholder' = IF IdOf(ContentBinding) \in TooLong THEN None
                    ELSE ContentBinding
  /\ pc' = "return"
  /\ result' = "ok"
  /\ UNCHANGED <<now, args, request, runner, integrity, globals, po_token,
                 requests, failed>>

(* ~runner_guard, when the call returns and when an exception leaves it.    *)
Return ==
  /\ pc = "return"
  /\ pc' = "done"
  /\ guard' = None
  /\ promise' = Runner!Fresh /\ outcome' = Runner!Fresh
  /\ UNCHANGED <<now, args, request, busy, products, requests, failed, result>>

Step ==
  \/ FetchSession \/ GetAttestationChallenge \/ FetchLegacyChallenge
  \/ GetInterpreter \/ CreateRunner \/ RunSnapshot \/ SnapshotReturns
  \/ GenerateIT \/ RunMint \/ MintReturns \/ PhaseThrows \/ Placeholder \/ Return

(* The JavaScript of the runner, while the call waits for it.               *)
Settle ==
  /\ busy # None
  /\ \E ph \in Runner!Phases : Runner!Settle(ph)
  /\ UNCHANGED <<now, pc, args, request, guard, products, requests, failed,
                 result>>

Tick ==
  /\ pc # "done" /\ now < MaxClock
  /\ now' = now + 1
  /\ UNCHANGED <<pc, args, request, runner, products, requests, failed, result>>

Next == Step \/ Settle \/ Tick

Spec == Init /\ [][Next]_vars

(* The calling thread is scheduled, requests end by their curl timeouts, and *)
(* a phase of the runner returns (PhaseReturns of EventLoop).               *)
FairSpec == Spec /\ WF_vars(Step)

----------------------------------------------------------------------------
(* Properties *)

(* A successful call returns a token for the identifier it reports, minted  *)
(* with the integrity token that was issued for the snapshot of the         *)
(* challenge in use, and a placeholder for the same identifier.             *)
ResultCoherent ==
  result = "ok" =>
    /\ po_token \in Token
    /\ po_token.binding = IF binding_in # None THEN binding_in
                          ELSE visitor_data
    /\ po_token.integrity = integrity
    /\ integrity.snapshot = challenge
    /\ placeholder \in {po_token.binding, None}

(* The visitor of the /att/get header, the one in its body and, when the    *)
(* challenge came from there, the one returned to the caller are the same,  *)
(* also when fetch_session found none and whatever time has passed.         *)
OneVisitor ==
  att_get # None =>
    /\ att_get.header = att_get.context
    /\ challenge # None /\ challenge.from = "att" =>
         visitor_data = att_get.header

(* After a step without an alternative has failed nothing more is requested *)
(* and no runner is called, and the call does not succeed.                  *)
FailsClosed ==
  [][failed # None =>
       requests' = requests /\ busy' = busy /\ result' # "ok"]_vars

(* The runner is used by its protocol: one snapshot, a mint only after it   *)
(* succeeded and in the same runner, never destroyed while a phase waits.   *)
UsesRunner == Runner!Spec

(* The call returns, provided each phase of the runner does.                *)
CallReturns == []<>(busy = None) => <>(pc = "done")

(* epotoken.h:42-43: with a caller-supplied URL "the program / global_name  *)
(* / visitor_data still come from /att/get".                                *)
OverrideKeepsAttGet == override # None /\ result = "ok" => challenge.from = "att"
=============================================================================
