------------------------------- MODULE JsHosts -------------------------------
(***************************************************************************)
(* generatePoToken of the three JavaScript bindings, for calls that run at *)
(* the same time in one JavaScript thread.  A step is what happens between *)
(* two awaits: an answer arrives and the function runs on to its next      *)
(* await.  Node.js (napi) sends its requests from a worker thread in C++;  *)
(* the WASM and React Native (nitro) hosts fetch themselves.  Node.js and  *)
(* WASM run BotGuard through bgutils-js in the thread of their caller;     *)
(* React Native leaves it to an executor the application supplies.         *)
(*                                                                         *)
(* bgutils-js is modelled after the copies the repository holds            *)
(* (src/bgutils_bundle.h and src/bg_full_bundle.min.js).  In both, create  *)
(* takes one parameter and evaluates nothing: it takes the virtual machine *)
(* it finds in globalThis under the name of the challenge, and of the      *)
(* integrity token it reads a field that a text does not have.             *)
(***************************************************************************)
EXTENDS Naturals

CONSTANTS
  None,
  Calls,      \* the calls made
  Bindings,   \* content bindings a caller may pass
  Visitors,   \* visitor_data a session may have, or be made of a random id
  Machines,   \* virtual machines the application may put into globalThis
  TooLong     \* bindings and visitors too long for a placeholder

ASSUME NoneAssumption ==
  /\ None \notin Machines
  /\ \A ch \in [visitor : Visitors, of : Calls], m \in Machines \cup {None} :
       None # [challenge |-> ch, vm |-> m]

VARIABLES
  host,       \* the binding in use
  call,       \* call -> its local variables
  vmSlot,     \* globalThis[globalName]
  stuck,      \* BotGuard has the JavaScript thread and does not return
  alive       \* the process runs

vars == <<host, call, vmSlot, stuck, alive>>
process == <<host, vmSlot, stuck, alive>>

Hosts == {"napi", "wasm", "nitro"}
Waiting == {"start", "att", "interpreter", "load", "snapshot", "generate", "minter", "mint"}

(* A caller of the Node.js binding passes a content binding only. *)
Options ==
  [binding : Bindings \cup {None},
   visitor : IF host = "napi" THEN {None} ELSE Visitors \cup {None},
   script : IF host = "napi" THEN {"fetched"} ELSE {"fetched", "supplied"}]

Init ==
  /\ host \in Hosts
  /\ call \in [Calls -> {[pc |-> "start", opts |-> o, hung |-> FALSE, header |-> None,
                          visitor |-> None, challenge |-> None, vm |-> None, signals |-> None,
                          integrity |-> None, token |-> None] : o \in Options}]
  /\ vmSlot = None
  /\ stuck = FALSE
  /\ alive = TRUE
-----------------------------------------------------------------------------
At(c, pc) == alive /\ ~stuck /\ call[c].pc = pc /\ ~call[c].hung

(* Every step changes the locals of its own call only. *)
Set(c, locals) == call' = [call EXCEPT ![c] = locals]

Rejected(locals) == [locals EXCEPT !.pc = "rejected"]

(* const binding = contentBinding ?? visitorData *)
Binding(c) == IF call[c].opts.binding # None THEN call[c].opts.binding ELSE call[c].visitor

(* The visitor is the caller's or random; Node.js leaves it to C++. *)
Start(c) ==
  /\ At(c, "start")
  /\ \/ /\ host = "napi"
        /\ Set(c, [call[c] EXCEPT !.pc = "att"])
     \/ /\ host # "napi"
        /\ \E v \in IF call[c].opts.visitor # None THEN {call[c].opts.visitor} ELSE Visitors :
             Set(c, [call[c] EXCEPT !.pc = "att", !.header = v, !.visitor = v])
  /\ UNCHANGED process

(* The interpreter is there, and the function runs on to BotGuard.
   BotGuardClient.create takes the VM it finds and calls it; what it is told of
   the interpreter it does not look at.  Without a VM the call is rejected.
   The executor of React Native gets the interpreter and has a VM of its own. *)
RunBotGuard(c, locals) ==
  Set(c, IF host = "nitro" THEN [locals EXCEPT !.pc = "snapshot"]
         ELSE IF vmSlot = None THEN Rejected(locals)
         ELSE [locals EXCEPT !.pc = "load", !.vm = vmSlot])

(* Mutant: the visitor of the session is not returned. *)
ChallengeOnly(c, v) == [call[c] EXCEPT !.challenge = [visitor |-> v, of |-> c]]

(* What the answer to /att/get leaves in the locals. *)
Attested(c, v) ==
  [call[c] EXCEPT !.challenge = [visitor |-> v, of |-> c], !.header = v, !.visitor = v]

(* The challenge arrives; parse_att_response lets none through without a URL.
   An interpreter the caller supplied is used at once, anything else fetched. *)
AttAnswers(c) ==
  /\ At(c, "att")
  /\ \E v \in IF host = "napi" THEN Visitors ELSE {call[c].header} :
       IF call[c].opts.script = "supplied"
       THEN RunBotGuard(c, Attested(c, v))
       ELSE Set(c, [Attested(c, v) EXCEPT !.pc = "interpreter"])
  /\ UNCHANGED process

InterpreterArrives(c) ==
  /\ At(c, "interpreter")
  /\ RunBotGuard(c, call[c])
  /\ UNCHANGED process

(* The VM has loaded the program, and snapshot() calls into it. *)
Loaded(c) ==
  /\ At(c, "load")
  /\ Set(c, [call[c] EXCEPT !.pc = "snapshot"])
  /\ UNCHANGED process

(* What the VM of the client leaves in webPoSignalOutput. *)
Signals(c) == [challenge |-> call[c].challenge, vm |-> call[c].vm]

(* Mutant: webPoSignalOutput is one array for all calls. *)
SnapshotShares(c) ==
  /\ At(c, "snapshot")
  /\ call' = [d \in Calls |-> [call[d] EXCEPT !.pc = IF d = c THEN "generate" ELSE @,
                                               !.signals = Signals(c)]]
  /\ UNCHANGED process

(* The snapshot of the program; its webPoSignalOutput is an array of the call,
   or is kept by the executor under the handle of the call. *)
SnapshotTaken(c) ==
  /\ At(c, "snapshot")
  /\ Set(c, [call[c] EXCEPT !.pc = "generate", !.signals = Signals(c)])
  /\ UNCHANGED process

(* What the minter is made with.  The executor of React Native is given the
   integrity token.  WebPoMinter.create wants an object with a field
   integrityToken and is given the text: it mints with an empty one (None), or
   refuses, which is AwaitFails. *)
MinterIntegrity(c) == IF host = "nitro" THEN call[c].challenge ELSE None

(* Mutant: when GenerateIT refuses, another snapshot is taken. *)
GenerateRetries(c) ==
  /\ At(c, "generate")
  /\ \/ Set(c, [call[c] EXCEPT !.pc = IF host = "nitro" THEN "mint" ELSE "minter",
                                !.integrity = MinterIntegrity(c)])
     \/ Set(c, [call[c] EXCEPT !.pc = "snapshot"])
  /\ UNCHANGED process

(* GenerateIT answers, and the minter of the signals is called; the executor
   of React Native mints in one go. *)
Generated(c) ==
  /\ At(c, "generate")
  /\ Set(c, [call[c] EXCEPT !.pc = IF host = "nitro" THEN "mint" ELSE "minter",
                            !.integrity = MinterIntegrity(c)])
  /\ UNCHANGED process

(* There is a mint callback, and it is called with the binding. *)
MinterCreated(c) ==
  /\ At(c, "minter")
  /\ Set(c, [call[c] EXCEPT !.pc = "mint"])
  /\ UNCHANGED process

(* generatePlaceholderToken(binding) throws when it is too long. *)
HasPlaceholder(c) == Binding(c) \notin TooLong

(* The token is minted, then the placeholder made without another await. *)
Minted(c) ==
  /\ At(c, "mint")
  /\ LET minted == [call[c] EXCEPT !.pc = "resolved",
                      !.token = [integrity |-> call[c].integrity,
                                 signals |-> call[c].signals, binding |-> Binding(c)]]
     IN Set(c, IF HasPlaceholder(c) THEN minted ELSE Rejected(minted))
  /\ UNCHANGED process

(* What is awaited fails, or its answer is refused: an HTTP status, a body
   that does not parse, an empty interpreter (Node.js takes it), an exception
   of BotGuard or of bgutils-js, a timeout of its own. *)
AwaitFails(c) ==
  /\ \E pc \in Waiting \ {"start"} : At(c, pc)
  /\ Set(c, Rejected(call[c]))
  /\ UNCHANGED process

(* An exception in the worker of the Node.js addon, which is compiled without
   the translation of C++ exceptions, ends the process, whatever JavaScript
   is doing. *)
WorkerThrows(c) ==
  /\ host = "napi" /\ alive /\ call[c].pc = "att"
  /\ alive' = FALSE
  /\ UNCHANGED <<host, call, vmSlot, stuck>>

(* The application, or a script it runs, puts a VM into globalThis: nothing in
   the bindings does. *)
Install(m) ==
  /\ host # "nitro" /\ alive /\ ~stuck
  /\ vmSlot' = m
  /\ UNCHANGED <<host, call, stuck, alive>>

(* A call has given control to BotGuard, or to the executor. *)
Entered(c) ==
  IF host = "nitro" THEN call[c].pc \notin {"start", "att", "interpreter"}
  ELSE call[c].vm # None

(* BotGuard runs in the one JavaScript thread: in the calls of create,
   snapshot and the minter, and in timers it may have set.  If it does not
   return, no other step of any call is taken. *)
KeepsThread(c) ==
  /\ alive /\ ~stuck /\ Entered(c)
  /\ stuck' = TRUE
  /\ UNCHANGED <<host, call, vmSlot, alive>>

(* A promise of BotGuard or of the fetch of the host may never settle, and the
   bindings set no timeout; the requests of C++ have the one of curl. *)
Timed(c) == host = "napi" /\ call[c].pc \in {"att", "generate"}

NeverAnswers(c) ==
  /\ \E pc \in Waiting \ {"start"} : At(c, pc)
  /\ ~Timed(c)
  /\ Set(c, [call[c] EXCEPT !.hung = TRUE])
  /\ UNCHANGED process

Step(c) ==
  \/ Start(c) \/ AttAnswers(c) \/ InterpreterArrives(c) \/ Loaded(c) \/ SnapshotTaken(c)
  \/ Generated(c) \/ MinterCreated(c) \/ Minted(c) \/ AwaitFails(c)

Next ==
  \/ \E c \in Calls : Step(c) \/ WorkerThrows(c) \/ NeverAnswers(c) \/ KeepsThread(c)
  \/ \E m \in Machines : Install(m)

Spec == Init /\ [][Next]_vars
FairSpec == Spec /\ \A c \in Calls : WF_vars(Step(c))
-----------------------------------------------------------------------------
(* The locals a step reads have been given a value by then. *)
TypeOK ==
  /\ host \in Hosts /\ stuck \in BOOLEAN /\ alive \in BOOLEAN
  /\ vmSlot \in Machines \cup {None}
  /\ \A c \in Calls :
       /\ call[c].pc \in Waiting \cup {"resolved", "rejected"}
       /\ call[c].pc \in Waiting \ {"start", "att"} => call[c].visitor \in Visitors
       /\ call[c].pc = "load" => call[c].vm \in Machines
       /\ call[c].pc \in {"minter", "mint", "resolved"} => call[c].signals # None

(* However calls interleave, and whatever is put into globalThis meanwhile,
   one that resolves returns the visitor that its own /att/get carried, and a
   token for its identifier minted from the signals of its own program in the
   VM that its own create found.  The integrity token issued for them goes
   into it in React Native; in the other two hosts none does. *)
CallCoherent ==
  \A c \in Calls : call[c].pc = "resolved" =>
    LET own == [visitor |-> call[c].visitor, of |-> c]
    IN /\ call[c].header = call[c].visitor
       /\ host # "nitro" => call[c].vm \in Machines
       /\ call[c].token = [integrity |-> IF host = "nitro" THEN own ELSE None,
                           signals |-> [challenge |-> own, vm |-> call[c].vm],
                           binding |-> Binding(c)]

(* Every call settles, unless a promise it awaits without a timeout never
   does, the process ends, or BotGuard keeps the thread that all calls share. *)
CallsSettle ==
  \A c \in Calls : <>(call[c].pc \in {"resolved", "rejected"} \/ call[c].hung \/ stuck \/ ~alive)
=============================================================================
