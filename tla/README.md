# EPoToken: a TLA+ development

EPoToken obtains YouTube's PoToken and deciphers the `n` parameter of stream
URLs. This directory holds TLA+ modules translated from its source, the TLC
configurations that check them on small instances, and TLAPS proofs of what the
runs check, for every value of the constants. Paths below are relative to the
repository.

`tlc -workers 2 -config X.cfg M` runs a configuration, `tlapm M.tla` checks the
proofs of a module. The table under "Runs" says which configuration belongs to
which module.

## 1. Inventory

### nsig client — `src/nsig_client.cpp`, `src/nsig_runner.cpp`

*State.* One process-wide map `player_cache()` from a cache key (the player id,
or `"h"` and a hash of a caller-supplied text) to the extracted script and the
signature timestamp, guarded by `cache_mutex()`. Per call: the key, the text, a
copy of the cache entry or a reference into the map, a Hermes runtime.

*Operations.* `decipher_nsig(n)`: discover the player id, look up, on a miss
fetch base.js, look up again, extract, store, decipher. `decipher_nsig(n, js)`:
the same from the second lookup on. Any thread may call either at any time.

*Hard.* Threads interleave around three critical sections; the extraction is
between two of them; the hit path runs downloaded JavaScript with the mutex
held; YouTube changes the player between two requests of one call; hashes
collide; every step may fail.

*Correct when* no two threads are in the map at once, the cache never holds
anything but one version's script and timestamp under a key that names it,
replies are of one version, and a call leaves neither mutex nor runtime behind.

### BotGuard runner — `src/hermes_runner.cpp`

*State.* A Hermes runtime, the vector of timers with the next id, the state
object of each phase (`__epo_state__`, `__epo_mint_state__`).

*Operations.* The host functions the JavaScript calls (`setTimeout`,
`setInterval`, `requestAnimationFrame`, `queueMicrotask`, the clear functions,
`fetch` and the browser environment), `create_runner`, `run_snapshot`,
`run_mint`, `pump_event_loop`, `destroy_runner`.

*Hard.* Callbacks rearrange the list of timers during the pass that fires them;
the promise a phase waits for settles while the deadline goes by; timers and
promises of one phase live on in the next; intervals of 0 ms; foreign
JavaScript decides all of this.

*Correct when* every due timer is fired once, in order for equal delays, and
none that was cleared; the outcome of a phase is what its promise settled to,
and a timeout only while it is pending; phases end.

### generate_po_token — `src/epotoken.cpp`, `src/innertube_client.cpp`, `src/innertube_messages.cpp`

*State.* The locals of one call; nothing is shared between calls.

*Operations.* Session (`/sw.js_data`), challenge (`/att/get`, or the legacy
Create when that fails), interpreter (embedded, from the challenge's URL or the
caller's), runner, snapshot, GenerateIT, mint, placeholder.

*Hard.* Each step may fail, two of them have a fallback, and what is returned
is put together from the products of different steps and services.

*Correct when* what a successful call returns belongs together, a failure stops
the call there and the runner is destroyed however it ends.

### nsig extraction — `src/nsig_extract.cpp`

*State.* The regions of base.js with their free names, the set of kept regions
and a worklist; the analyzer's tables (`declaredVariables`, a `VarMeta` per
variable, the two extractions with their readiness, the pending alias block);
the builder's stack, the names it has seen and the snippets it has emitted.

*Operations.* `selectClosure` keeps what the nsig function can reach;
`runPipeline` parses that, walks the statements, records variables and matches,
and stops as soon as both matches are ready; the builder visits dependencies
depth first and renders each definition or its replacement; `extract` tries the
reduced program and then the whole file.

*Hard.* Two algorithms find dependencies each in its own way and must agree;
the readiness flag may be stale when it stops the walk; assignments come before
and after the point of the stop, first ones win for members and last ones for
variables; dependencies are circular; initializers with side effects are
replaced.

*Correct when* the selection is the closure in whatever order it is computed,
nothing the script needs is missing from it, an early stop misses no
declaration, definitions precede their users, and extraction ends and finds the
function the file has.

### Codecs and parsers — `src/base64.cpp`, `src/innertube_messages.cpp`, `src/placeholder.cpp`, `src/challenge.cpp`

*State.* None: pure functions of bytes, texts and JSON values.

*Operations.* base64 both ways, varints and `visitor_data` both ways, the masked
placeholder packet, descrambling, the parsers of Create and /att/get.

*Hard.* Texts cut in the middle of a group, two alphabets and two paddings;
lengths of one byte and of a varint, at their limits; fields in any order; an
interpreter chosen from two arrays of URLs and scripts by one parser and from
one field by another, which must agree.

*Correct when* each reads back what its counterpart wrote, refuses what does
not fit instead of cutting it, and the two parsers see the same challenge.

### JavaScript hosts — `bindings/napi`, `bindings/wasm`, `bindings/nitro`

*State.* The locals of each pending `generatePoToken`; one `globalThis` per
process, in which Node.js and WASM look for the virtual machine of BotGuard; the
one thread all calls run in; in Node.js the worker threads of two native requests.

*Operations.* The flow of `generate_po_token` written with `await`, over
bgutils-js or, in React Native, over an executor the application supplies.

*Hard.* Calls interleave at every `await`; all look under one global name, where
the application may put another machine at any time, or none; requests and
BotGuard may never answer; BotGuard runs in the thread of all calls; an exception
in a native worker ends the process.

*Correct when* a call returns only what is its own, stays with the machine its
`create` found, and settles unless what it shares with others is taken away.

### The other parts

| part | source | state and operations | hard about it |
|---|---|---|---|
| HTTP | `src/http_client.cpp` | one blocking transfer per call | libcurl |
| CLI | `cli/main.cpp` | one library call | — |
| TypeScript pipeline | `tools/nsig_bundle` | the reference the extraction was ported from | — |
| V8 runner | `src/v8_runner.cpp` | superseded, not built | — |

`PROJECT.json` lists all parts with their status, and under "hazards" what is
hard to test in them, line by line, with the properties that cover it.

*How they interact.* `generate_po_token` calls the Innertube client (blocking
requests), then the runner through four functions. The runner calls back into
host functions from JavaScript, never into the flow. `decipher_nsig` uses
runtimes of its own; the two features share no state. The JavaScript hosts call
the parsers, the codecs and, in Node.js, the Innertube client.

## 2. Plan

| | module | composition | state |
|---|---|---|---|
| 1 | `NsigData`, `NsigService` (abstract), `NsigClient` | the client implements the service | built, proved |
| 2 | `Subsequences`, `BotGuardRunner` (abstract), `EventLoop` | the loop implements the runner | built, proved |
| 3 | `PoTokenFlow` | uses `BotGuardRunner` | built, proved |
| 4 | `NsigSource`, `NsigSelector`, `NsigExtract` | the extraction implements the selection | built, proved |
| 5 | `ByteCodecs`, `ChallengeParsing`, `VisitorData`, `CodecCalls` | codecs and parsers as operators, tied to their counterparts | built, proved |
| 6 | `JsHosts` | concurrent calls of the bindings | built, proved |

The order follows the risk: shared state and threads first, then the loop that
foreign JavaScript drives, then the flow that puts its products together, the
extraction with its early stop, the codecs, and the hosts. "Proved" means every
safety property of the component's passing runs, for every value of the constants;
liveness stays with TLC.

## 3. Modules and the code

**Subsequences** is `remove_if` and the loops that copy some elements of a vector:
`Picked(s, I)` keeps the positions I of s in their order. It says what `SelectSeq`
says, without recursion, so that proofs can use it; `MCEventLoop` has TLC compare
the two on sequences of up to five elements.

**NsigClient.** `pc[t]` is the point thread t has reached; the header of the
module lists the points. One action per step between two points where another
thread can act: taking the mutex (`Lock`), the lookup of `decipher_nsig(n)`
(`HitOrMiss`), of `get_or_extract` (`Find`), the extraction (`Extract`), the
store (`Store`), the requests, and the three steps of `decipher_with_cached`.
`Return` is every `return`: locals die, the guard destroys the runtime and the
`lock_guard` of the hit path gives the mutex back. `InUse` is the argument `cp`
of `decipher_with_cached`: the map's own entry on the hit path, a copy
otherwise. `Rollout` is YouTube. A text stands for the version it belongs to
(`NsigData`), so that mixing versions shows.

**NsigService** is what a caller may rely on: each call is answered from a text
that its key names, or fails, and calls do not influence each other.

**EventLoop.** `pc` says whether the C++ code or JavaScript has control, and
where. While JavaScript has it (`bundle`, `driver`, `predrain`, `callback`,
`drain`), the actions of `Host` are what it can do: arm and clear timers, queue
microtasks, settle the promise, take time. `BeginPass`, `FireReady`,
`SkipCleared`, `EndFiring`, `EndDrain`, `Rest` are the loop of
`pump_event_loop`; `Check` is its condition and deadline, and `BeginPass` reads
the clock again and takes the snapshot of ready ids. `EngineThrows` is an
exception of Hermes from `drainMicrotasks` or the condition, which no `try`
surrounds. `Begin` and `Finish` are the two ends of `run_snapshot` and `run_mint`.
`React` is the microtask of `.then` or `.catch` that stores the state object; a
drain ends only when none is left (`Drained`). `dead` and `pass_first` are
history variables, and `late`, which counts the passes of a phase
begun after its deadline. The deadline test (`hermes_runner.cpp:880`) and the `now`
of the pass (`:882`) are two readings of the clock, and time may pass between them
(`SpendTime` at `pass`). The value `deadline` gets in `Begin` only bounds the time
the driver script may spend; the pump sets its own.

**BotGuardRunner** is the runner as its caller sees it: one phase at a time, a
mint only after a snapshot, outcomes that agree with the promise.

**PoTokenFlow.** `pc` names the next step of the call. Each action is one step
with its request, its failure and its early return; `FetchSession` and
`GetAttestationChallenge` are the two halves of `get_attestation_challenge`.
Products are records that say what they were made from: the integrity token
holds the challenge whose snapshot it is for, the token holds integrity token
and binding, so `ResultCoherent` can compare. `Call` starts a phase of the
runner without asking whether the runner allows it: that it does is the
property `UsesRunner`. `visitor_data` is a record of id and second, since
`generate_visitor_data` reads the clock wherever it is called.

**NsigSource** fixes what a file is: statements in order, each with a kind, a
name and an initializer of which only the syntactic shape and the free names
are kept. `Safe`, `Fallback` and `DefinitelyStripped` are the tests the code
makes on syntax trees, as functions of the shape. Reading a text as statements
(the lexical splitter, the search for the enclosing function) is not modelled:
`Files` is its output.

**NsigSelector** is `selectClosure`. `Seed` is its first loop, `Follow(r)` one
round of the worklist for region r, with `Needs` for everything the round
includes; `Reduced` builds the program that is parsed, with stubs. Which region
is next is left open, as the code takes it from an `unordered_set`.

**NsigExtract** is `extract`. `pos` walks over the statements; the four actions
of `Analyze` are the cases of `analyze`, each ending in `OnMatch`, which is
`onMatch`, `refreshExtraction` and `shouldStop` together: `stopped` is what it
returns. A `VarMeta` is known by the index of the statement that made it.
`Resolved` says with a set what `areDependenciesResolved` computes by recursion.
`Visit` and `Emit` are the loop of `visit` with its recursion as a stack of
`tasks`; `Render` is `renderNode`. `AnalyzeFile` is the second attempt.

**ByteCodecs**, **ChallengeParsing** and **VisitorData** are the codecs and parsers
as operators. A text is a sequence of character codes where bytes matter (base64)
and a record of scheme, slashes and rest where only its being a URL does.
**CodecCalls** makes one call of one of them per behaviour, with the server's or
the other parser's side written out: padding dots, scrambling, unmasking, the same
challenge in both forms. What the code computes in loops over a buffer is written as
functions of the position (`Encode`, `Decode`, `Unescape`) and the mask bit by bit
(`Xor`). A varint is its end, behind the first byte without a mark, and a value that is
a function recursive over the bytes up to there. All calls answer in one step but that
of `visitor_data`: `ReadText` unescapes and decodes, then each step is one round of the
code's loop, at the field that begins at `pos` (`TakeId`, `SkipField`, or `NoField` at
the end and at an unknown type). The message of a server is given from
the writer's side: `WireField` writes a field of each wire type, `starts` says where each
one stands in `before`, and the reader's operators occur in it only to say that what
follows the fields of a message without an id ends it (`Ends`).

**JsHosts.** `call[c]` holds the locals of a pending call and `pc` the `await` it
is at; an action is an answer and what runs up to the next `await`. `Binding`,
`RunBotGuard` and `Attested` are shared by the three hosts, the differences
between them are guards on `host`. `vmSlot` is the property of `globalThis` under
the name of the challenge, the same for all calls: the case in which they clash.
A product is named by the challenge it was made from and the machine that made it.

bgutils-js is read from the two copies in the repository, `src/bgutils_bundle.h:12`
and `src/bg_full_bundle.min.js:819`. In both, `BotGuardClient.create` has one
parameter, so the interpreter the bindings hand it is not looked at: it takes the
machine it finds in `globalThis` (`RunBotGuard`) and fails if there is none. Nothing
in the bindings puts one there; `Install` is the application doing so at any time,
with any machine. `WebPoMinter.create` reads a field `integrityToken` of what the
bindings pass as a text (`napi/index.ts:106`, `wasm/index.ts:234`): the older copy
then mints with an empty one (`MinterIntegrity`), the newer one refuses
(`AwaitFails`). The newer copy also has timeouts of its own, which `AwaitFails`
covers. The bindings ask for `bgutils-js ^2.0.0`; what is published may differ from
both copies, and everything said here of Node.js and WASM is about the copies.
`KeepsThread` is BotGuard that does not return: it runs in the thread of all calls,
so no other step happens after it but those of the native workers.

Definitions named as mutants in a comment stand before the definition they
vary; `PROJECT.json` says which property each one breaks. They belong to no
specification.

## 4. Runs

| run | module, cfg | bounds | shows |
|---|---|---|---|
| nsig_client | `MCNsigClient`, `NsigClient.cfg` | 3 threads, 3 texts, one not extractable, one hash collision | `NoDataRace`, `CacheCoherent`, `ReplyFaithful`, `NothingLeftBehind`, `MemoIsEffective`, and that the client implements the service |
| nsig_liveness | `MCNsigClient`, `NsigLiveness.cfg` | 2 threads, 2 texts | calls return when scripts end; only scripts that run under the mutex can block others |
| nsig_extract_once | `MCNsigClient`, `NsigExtractOnce.cfg` | 2 threads | violated: two misses extract twice |
| event_loop | `MCEventLoop`, `EventLoop.cfg` | 3 timers, delays 0 and 1, timeout 1, idle until 1 | no due timer is skipped, none fires early, dead or out of order, at most one pass begins after the deadline, and the loop implements the runner |
| event_loop_liveness | `MCEventLoop`, `EventLoopLiveness.cfg` | 2 timers | `PhaseReturns` |
| microtask_order | `MCEventLoop`, `MicrotaskOrder.cfg` | 2 timers | violated: a microtask may wait for the next pass |
| po_token_flow | `MCPoTokenFlow`, `PoTokenFlow.cfg` | 2 bindings, 2 visitor ids, one of each too long, clock until 2 | `ResultCoherent`, `OneVisitor`, `FailsClosed`, `UsesRunner`, `CallReturns` |
| interpreter_override | `MCPoTokenFlow`, `InterpreterOverride.cfg` | the same | violated: the fallback drops what /att/get is said to give |
| nsig_extract | `MCNsigExtract`, `NsigExtract.cfg` | files of 4 groups out of 13, 1 of them the nsig function | `KeptIsClosure`, `SelectionCovers`, `StopIsResolved`, `EmittedInOrder`, `ExtractionSucceeds`, and that extraction ends |
| nsig_full_closure | `MCNsigExtract`, `NsigFullClosure.cfg` | the same | violated: a variable that is assigned a function below the stop is emitted as undefined |
| codec_calls | `MCCodecCalls`, `CodecCalls.cfg` | data of up to 4 bytes over 4 values, every cut; ids up to 300 bytes behind up to 2 fields; arrays of up to 2 strings of 5 kinds | `DecodeRecoversPrefix`, `VisitorIdSurvives`, `PlaceholderOpens`, `InterpreterChosen`, `EndpointsAgree` |
| js_hosts | `MCJsHosts`, `JsHosts.cfg` | 2 calls, 1 binding, 2 visitors, one too long, 2 machines, 3 hosts | `CallCoherent`, `CallsSettle` |

*Why the bounds are enough.* nsig: the races need a thread that stores, one
that reads by reference and one that waits; two texts with one hash and a third
that cannot be extracted give hit, miss, collision and failure in every mix.
Threads are symmetric in the invariant run; the liveness run has none. Event
loop: a pass that fires one timer whose callback clears the second and sets a
third is the smallest in which the list changes under the loop; with a timeout
of 1 a phase sees passes before, at and after its deadline, and `MaxIdle` 1 lets
timers fall due while no pump runs. The two clock readings of a pass make this the
largest run, with 7.5 million states. `MaxTimers` and `MaxIdle` are the bounds of
the model; the code has none. Flow: its data decide two things, whether an
identifier is too long and whether two visitors differ, and both have each case;
the clock has three values, so that two readings may differ on both sides of a
request. `MaxClock` is the bound there. Extraction: the groups hold each kind of
statement once for each role (a variable declared without a value and assigned
later, declared twice, a member assigned twice, an alias block, a class, a
stripped value, a circular pair, a timestamp with and without dependencies), and
every order of three of them around the nsig function occurs, so each case meets
each other before and after the point where the analysis stops. Codecs: the four
byte values reach both ends of the alphabet and its last two characters, four
bytes give a full group and each remainder, ids of 127, 128 and 300 bytes lie on
both sides of a second varint byte, the fields before an id are of every wire type and
hold bytes like those of an id's field, a message without an id ends in each way the loop can, identifiers of 117 to 119 at the limit of the
placeholder. Hosts: two calls and two machines let the
machine change between any two steps of either call; each `await` may fail or never answer,
and one long visitor meets the limit of the placeholder. Numbers stay below 2^31, the integers of TLC.

`CHECK_DEADLOCK FALSE` stands where the system stops: a flow or an extraction
that has returned does nothing more, a codec makes one call, and the hosts are
done when every call has settled.

## 5. Fairness

*nsig.* `FairSpec` is weak fairness of the native steps of each thread: the
scheduler runs it and curl ends each request (15, 30 or 60 s). Nothing is
assumed of the steps that run the downloaded script, which nothing interrupts;
that scripts end is a hypothesis of the properties. `std::mutex` promises no
order among waiters, so a stream of new calls could starve one for ever; the
hypothesis `CallersRest` says that callers stop calling at some point.

*Event loop.* Weak fairness of `Loop` only, the steps of the C++ thread. That
JavaScript hands control back is the hypothesis of `PhaseReturns`.

*Flow.* Weak fairness of `Step`; that a phase of the runner returns is the
hypothesis of `CallReturns`, and `PhaseReturns` is where it comes from.

*Extraction.* Weak fairness of the whole of `Next`: it is one sequential
function that nothing blocks.

*Hosts.* Weak fairness of the steps of each call: the event loop of JavaScript
delivers every answer that comes, as long as what runs in its thread hands control
back. That is not assumed of BotGuard, which Node.js and WASM run in this thread:
after `KeepsThread` no step is enabled, so the fairness asks for none, and
`CallsSettle` excepts it by name (`stuck`). That an answer comes is not assumed of
what has no timeout either: `NeverAnswers` may happen to a fetch of the host and to
BotGuard at any time, and not to the requests of the Node.js addon, which curl ends
(`http_client.cpp:59`). `CallsSettle` excepts calls this happens to, and the end of the
process. A `fetch` the caller supplies is taken to return its promise, not to run on.

## 6. Proofs

All modules with proofs extend the module they are about. Assumptions are the
named `ASSUME`s of those modules: typing of the constants, and that `None` and
the labels are distinct values. TLC evaluates them in the runs.

**NsigClientProofs**, any set of threads, texts and hash values. The inductive
invariant joins `TypeOK`, `LockInv` (the owner of the mutex is exactly the
thread that touches the cache), `LocalInv` (what key, text, copy and runtime of
a call are at each point), `CacheCoherent` and `ReplyFaithful`. `LockInv` is
what makes it inductive: a reference into the map stays valid only because no
one else can store meanwhile. From it: `TypeCorrect`, `DataRaceFree`,
`Coherent`, `Faithful`, `LeavesNothing`, `Memoized` (an action property), and
`Refinement`, that each step is a step of the service or leaves it unchanged.

**EventLoopProofs**, any timeout, delays and bounds. The invariant relates
label, phase, promise and state object: a state object holds a value only if it
is the one the promise settled to, and after a drain it does hold it. The
second half is what the proof rests on: without it a phase could time out on a
promise that has settled. A third part, `LateInv`, says where the clock may be past the
deadline: only from the second reading on. From it: `Deadline` (`OneLatePass`), and
`Refinement` to `BotGuardRunner`.

A second invariant, `TimerInv`, is about the timers, for any number of them. A
callback may rearrange the vector while a pass works off its snapshot of ready
ids, so it relates the two: the vector is sorted by id and holds no dead timer
(`Sorted`, `Alive`), what waits in `ready_ids` was due when the pass began if it
is still there (`ReadyIsDue`), and what was due then and is still there waits
(`DueIsReady`). `NothingDueIsSkipped` is `DueIsReady` with `ready_ids` empty; it is
not inductive alone, since it says nothing before the pass ends. From it:
`NothingSkipped`, `InOrder`, `Punctual`, `DeadNeverFire` and `TypeCorrect`.

**PoTokenFlowProofs**, any bindings, ids and clock. The invariant says which
products exist at each step and what they were made from, and in which state
the runner is. From it: `TypeCorrect`, `Coherence`, `VisitorAgreement`,
`Closed`, and `Protocol`: the flow never uses the runner outside its
protocol, so what `EventLoop` is proved to implement is what the flow relies on.

**NsigExtractProofs**, any files, parameter and built-in names. `SelInv` says
that a kept region is in the worklist or has all it needs, that seeds are kept
from the start (so a timestamp region is never followed), and that no closed
set lacks what is kept; the last part is an induction over the steps, since a
step keeps only what a region in every closed set needs. `SelectionIsClosure`
follows, `ExtractSelects` shows that the extraction implements the selection,
and so has the closure too. `StopsResolved` needs more than the flag says:
the readiness of a function that is assigned again is not recomputed. `StopInv`
adds that the analysis never goes on with all three of function, readiness and
timestamp; hence a stop on a stale flag is one in which the assignment itself
replaced the function by the timestamp's object.

**NsigScriptProofs**, any files, continues with the analyzer and the builder; it
is the longest, since every property needs the tables first. Its invariants:

- `TableInv` and `TaskInv` type the tables and the stack (`ScriptTypes`): each index
  is of a statement already read, the meta of a declared name bears that name.
- `OrderInv`: a visited name is emitted, or matched, or waits in the stack above
  everything that is not on a cycle with it. Only the last case makes it inductive:
  of a name that was visited but not emitted when it is needed again one must know
  that it leads to the one that needs it. `ScriptInOrder` follows at the end.
- `CoverInv`: the dependencies of every meta, task and snippet are covered by what
  was kept (`ScriptIsCovered`). A step of the analyzer adds dependencies of a
  statement of the reduced program; that statement was kept, the kept set is
  closed (`SelectionIsClosure`), and what the analyzer takes from an expression is a
  prefix of what the selector took (`StatementCovered`).
- `GivesInv` with `FoundInv`: when a file gives its function once, so does the reduced
  program (`ReductionGives`), and the analyzer that has passed the statement has
  matched it, with its function still in place. `FunctionIsExtracted` follows.

Two properties were restated on the way, because the proofs failed for good
reasons. `SelectionCovers` was about finished scripts with the function in place and
named one case in which selector and analyzer differ; the other three do not occur
in the files of the run. It now names all four and holds at every step. `ExtractionSucceeds` said that a second attempt
never helps; a variable that is declared with the function and assigned later may
lose it to the reduced program and keep it in the whole file, so it now says which
files succeed at once.

**SubsequencesProofs**: the k-th position of a set exists, grows with k and reaches
every element, hence what `Picked` keeps, once each and in order. The proofs about
timers, about the reduced program and about `Decode` rest on these lemmas. The second
half says what concatenation and the like give, element by element.

**CodecCallsProofs**, data, texts, cuts, identifiers and JSON arrays of any size. Its
theorems are about `Spec`. A call is one step, so nothing needs strengthening but that
the call is one of those considered (`CallsAssumption`: typing, and what a server's
message is made of), and the work is in the lemmas; only `visitor_data` is read in
several steps.

- `DecodeRecovers`. A base64 text is characterised by `Shows`: its first `cut`
  characters are sextets of the data, up to `Characters(n)`, and what is behind them
  counts as padding. Whatever alphabet or padding it came in, decode brings it
  into this form (`ReceivedShape`). Then a byte is decoded exactly if the last
  character with a bit of it is there (`DecodedIfThere`), that is for the first
  `3 * cut \div 4` bytes (`BytesInText`), and it is the byte of the data
  (`DecodedByte`, from the arithmetic of one group: `FirstOctet`, `SecondOctet`,
  `ThirdOctet`).
- `TokensOpen`. The whole text decodes to the whole packet (`DecodeEncode`), the
  length byte does not wrap at 118 bytes of identifier, and masking twice with
  the same byte leaves what was there (`XorTwice`).
- `FirstInterpreter`. The first URL of two arrays in a row is the first of the first
  array that has one (`LeastInARow`), so `Interpreter`, which asks the arrays one
  after the other, takes the head of the documented list. It takes nothing else
  only because an accepted URL is never empty (`Normalised`).
- `SameChallenge` compares the fields the two parsers make of one challenge
  (`AttFields`, `CreateFields`).
- `VisitorSurvives`. The inductive invariant `VisitorInv` says that the reader has
  decoded the message that was written and that `pos` is where one of its fields
  starts; `VisitorIdSurvives` alone says nothing before the answer. That the text
  decodes to the message is `DecodeEncode` with `UnescapeEscape`: each character of a
  base64 text, which has no percent sign, is one place of three of what is escaped, and
  `Unescape` keeps exactly one of its places (`PickedListed`). That a step keeps `pos` at
  a start is `FieldSkipped`, and that it takes the id at its own field and no other is
  `IdRead`; both rest on `VarintReadBack`: a number of 64 bits is read back from where
  it was written. A varint has at most ten bytes (`Uint64`), so this is no induction
  over data but ten steps of one lemma. Where the fields start is given with the call
  (`starts`), so neither the number of fields nor their sizes are bounded.

**JsHostsProofs**, any calls, bindings, visitors and machines, each host. `LocalInv`
says for each point what the locals of a call were made from, with which machine; a
step changes the locals of one call, so one lemma (`SetStep`) carries it through all
of them, and a change of `globalThis` touches none (`OtherInv`). From it: `TypeCorrect`
and `Coherent`. The assumption is that `None` is no product and no machine.

*Only model-checked.* Every liveness property (temporal reasoning under fairness is
outside the prover): `EveryCallReturns`, `OnlyLockedScriptsBlock`, `PhaseReturns`,
`CallReturns`, `ExtractionEnds`, `CallsSettle`. Every safety invariant and action property
of the runs is proved. The four runs that end in a violation are
counterexamples and prove themselves.

## 7. Where code and documentation disagree

* `NSIG.md:43-44` promises that extraction runs at most once per version;
  `nsig_client.cpp:93` extracts outside the mutex (nsig_extract_once). Both
  results are the same, so only work is lost: `CacheCoherent` holds.
* `epotoken.h:23` calls `player_id` the "player version used";
  `nsig_client.cpp:177` fills in the hash key. One assignment shows it; no run
  is spent on it.
* `hermes_runner.cpp:173` says a queued microtask is fired before the pump
  sleeps; one queued during a pass is fired after it (microtask_order).
* `epotoken.h:42-43` says program, global name and visitor still come from
  /att/get with a caller-supplied URL; the fallback at `epotoken.cpp:34`
  replaces them (interpreter_override).

* `NSIG.md:8-10` promises the full dependency closure; a variable declared
  without a value counts as resolved, so the analysis may stop above the
  assignment that gives it its function, and the script holds `undefined`
  (nsig_full_closure). `StopIsResolved` is what does hold.

The rest needs no run:

* `innertube_client.cpp:279` ensures a visitor with an "absolute fallback", and `:113`
  leaves it to its caller; but the test at `:121` matches three characters, `)]}`, and
  removes four (the comment at `:116` has the prefix with a quote). A body of just these
  three throws before the `try` at `:126`, and the exception ends the call instead of
  the fallback: the third disjunct of `FetchSession`.
* `wasm/index.ts:127` says generatePoToken "drives the entire PoToken flow using
  fetch() + bgutils-js"; by the copies of bgutils-js in the repository nothing evaluates
  the interpreter it fetches, and the call fails unless the application has done so
  (`RunBotGuard`, with the reservation of section 3 about the version). In React Native
  the executor evaluates it, and the C++ flow does before it calls `create`.
* `README.md:6` names V8 where the build uses Hermes, and `innertube_client.h:25`
  promises a random id where `generate_visitor_data` uses `STATIC_VISITOR_ID`.
* `nsig_extract.cpp:1469` says the extractor emits only a skip comment for a
  member that is assigned a stripped value; `renderNode` gives it a fallback, and
  the selector, which drops the statement, makes the difference.
* `challenge.cpp:24` deliberately rejects `//#` comments as URLs; in /att/get the
  text is normalised first and passes as `https://#...`, and in Create such a
  comment may be taken for embedded JavaScript. Create also accepts an empty
  program or global name, /att/get does not.
* The Node.js binding takes an empty interpreter, the other two and C++ refuse it.
  The Node.js and WASM bindings pass the integrity token as a text; `CallCoherent` says
  that it does not reach the token they return. An empty content binding is kept
  by `??` in the hosts and replaced by the visitor in C++. A placeholder that
  cannot be made rejects the call in the hosts after the token was minted and is
  left out by C++.

## 8. Not modelled

The browser environment (stubs without state the pump reads), libcurl,
JavaScript engines and bundles, the superseded V8 runner, the CLI, the
TypeScript pipeline, build and release scripts. Exhausted memory
(`std::bad_alloc`) is left out everywhere, and so are failures inside Hermes that no
`try` surrounds, but for those of the drains and conditions of a phase (`EngineThrows`,
`PhaseThrows`). One branch of modelled code is left out, `epotoken.cpp:63`: the
parsers never return a challenge with neither URL nor script. Of the
extraction, the lexical splitter (`nsig_extract.cpp:1028-1320`) and the search for
the enclosing function are left out, and `x += e`, which the analyzer takes for an
assignment; of `visitor_data`, numbers that no writer of 64 bits makes, whose value the
code cuts to 64 bits, and tags of two bytes before the id; of the bindings, the
conversion of arguments and results (`epotoken_wasm.cpp`, `HybridEPoToken.cpp`).
Three cases in which the extraction is known to fall short are excepted in its
properties or files: a variable declared twice that reads a member of its own
(`SelectionCovers`), members of a predeclared variable that reads one of them
(`EmittedInOrder`, as a cycle), and aliases that are prefixes of one another
(`FilesAssumption`).

Where the model is coarser than the code:
`SeedKind` leaves out function declarations and initializers other than functions
that contain `signatureTimestamp`; `Safe` and `DefinitelyStripped` are complements of
one another on the shapes of the model, while the code has expressions that are
neither; `InBlock` compares components where the code searches the text for a
substring; `MemberTasks` takes members in the order of their statements and not
alias by alias. `wasm/index.ts:184` has a branch for an embedded interpreter, which
`parse_att_response` never returns.
