---------------------------- MODULE JsHostsProofs ----------------------------
(***************************************************************************)
(* Proofs about JsHosts, for any number of concurrent calls, any bindings, *)
(* visitors and virtual machines and each host: a call that resolves       *)
(* returns what is its own, whatever other calls and the application do to *)
(* globalThis meanwhile.                                                   *)
(***************************************************************************)
EXTENDS JsHosts, TLAPS

Points == Waiting \cup {"resolved", "rejected"}
Products == [visitor : Visitors, of : Calls]
Outputs == [challenge : Products, vm : Machines \cup {None}]
Tokens == [integrity : Products \cup {None}, signals : Outputs, binding : Bindings \cup Visitors]

Locals ==
  [pc : Points, opts : Options, hung : BOOLEAN,
   header : Visitors \cup {None}, visitor : Visitors \cup {None},
   challenge : Products \cup {None}, vm : Machines \cup {None},
   signals : Outputs \cup {None}, integrity : Products \cup {None},
   token : Tokens \cup {None}]

Identifier(l) == IF l.opts.binding # None THEN l.opts.binding ELSE l.visitor

(* What the integrity token of a call becomes in its minter. *)
Issued(own) == IF host = "nitro" THEN own ELSE None

(* What the locals l of call c are at each point: from the answer of /att/get
   on, every product was made from the challenge of the same call, in the VM
   that is in l.vm. *)
LocalInv(c, l) ==
  LET own == [visitor |-> l.visitor, of |-> c]
      out == [challenge |-> own, vm |-> l.vm]
  IN /\ l.pc = "att" /\ host # "napi" => l.header \in Visitors
     /\ l.pc \notin {"start", "att", "rejected"} =>
          l.visitor \in Visitors /\ l.header = l.visitor /\ l.challenge = own
     /\ l.pc \in {"load", "snapshot", "generate", "minter", "mint", "resolved"} /\ host # "nitro" =>
          l.vm \in Machines
     /\ l.pc = "load" => host # "nitro"
     /\ l.pc \in {"generate", "minter", "mint", "resolved"} => l.signals = out
     /\ l.pc \in {"minter", "mint", "resolved"} => l.integrity = Issued(own)
     /\ l.pc = "resolved" =>
          l.token = [integrity |-> Issued(own), signals |-> out, binding |-> Identifier(l)]

IInv ==
  /\ host \in Hosts /\ vmSlot \in Machines \cup {None}
  /\ call \in [Calls -> Locals]
  /\ \A c \in Calls : LocalInv(c, call[c])

LEMMA InitIInv == Init => IInv
<1> SUFFICES ASSUME Init PROVE IInv
  OBVIOUS
<1>1. ASSUME NEW o \in Options
      PROVE  [pc |-> "start", opts |-> o, hung |-> FALSE, header |-> None, visitor |-> None,
              challenge |-> None, vm |-> None, signals |-> None, integrity |-> None,
              token |-> None] \in Locals
  BY DEF Locals, Points, Waiting
<1>2. call \in [Calls -> Locals]
  BY <1>1 DEF Init
<1>3. \A c \in Calls : call[c].pc = "start"
  BY DEF Init
<1>4. \A c \in Calls : LocalInv(c, call[c])
  BY <1>3 DEF LocalInv
<1> QED
  BY <1>2, <1>4 DEF Init, IInv

(* What a caller may pass depends on the host, which never changes. *)
LEMMA SameLocals ==
  ASSUME host' = host PROVE Locals' = Locals
<1>1. Options' = Options
  BY DEF Options
<1> QED
  BY <1>1 DEF Locals, Tokens, Outputs, Products, Points, Waiting

(* A step that gives one call locals that fit keeps the invariant. *)
LEMMA SetStep ==
  ASSUME IInv, NEW c \in Calls, NEW l \in Locals, LocalInv(c, l), Set(c, l),
         UNCHANGED process
  PROVE  IInv'
<1>1. call' \in [Calls -> Locals]
  BY DEF Set, IInv
<1>2. \A d \in Calls : call'[d] = IF d = c THEN l ELSE call[d]
  BY DEF Set, IInv
<1>3. (\A d \in Calls : LocalInv(d, call[d]))'
  BY <1>2 DEF IInv, LocalInv, Identifier, Issued, process
<1> QED
  BY <1>1, <1>3, SameLocals DEF IInv, process

(* A call that is rejected has locals that fit, wherever it was. *)
LEMMA RejectedFits ==
  ASSUME NEW l \in Locals, NEW c \in Calls
  PROVE  Rejected(l) \in Locals /\ LocalInv(c, Rejected(l))
<1> DEFINE k == Rejected(l)
<1>1. "rejected" \in Points
  BY DEF Points
<1>2. k \in Locals
  <2> HIDE DEF Points
  <2> QED
    BY <1>1 DEF Locals, Rejected
<1>3. k.pc = "rejected"
  BY DEF Locals, Rejected
<1> HIDE DEF k
<1>4. LocalInv(c, k)
  BY <1>3 DEF LocalInv
<1> QED
  BY <1>2, <1>4 DEF k

LEMMA StepInv ==
  ASSUME IInv, NEW c \in Calls, Step(c)
  PROVE  IInv'
<1> USE DEF Points, Waiting
<1> DEFINE l == call[c]
<1>0. /\ l \in Locals /\ LocalInv(c, l) /\ l.opts \in Options
      /\ host \in Hosts /\ vmSlot \in Machines \cup {None}
  BY DEF IInv, Locals
<1>1. CASE Start(c)
  <2>1. CASE host = "napi"
    <3> DEFINE m == [l EXCEPT !.pc = "att"]
    <3>1. m \in Locals /\ LocalInv(c, m)
      BY <1>0, <2>1 DEF Locals, LocalInv
    <3>2. Set(c, m)
      BY <1>1, <2>1 DEF Start
    <3> QED
      BY <1>0, <1>1, <3>1, <3>2, SetStep DEF Start
  <2>2. CASE host # "napi"
    <3>1. PICK v \in Visitors : Set(c, [l EXCEPT !.pc = "att", !.header = v, !.visitor = v])
      BY <1>0, <1>1, <2>2 DEF Start, Options
    <3> DEFINE m == [l EXCEPT !.pc = "att", !.header = v, !.visitor = v]
    <3>2. m \in Locals /\ LocalInv(c, m)
      BY <1>0, <2>2 DEF Locals, LocalInv
    <3> QED
      BY <1>0, <1>1, <3>1, <3>2, SetStep DEF Start
  <2> QED
    BY <2>1, <2>2
<1>2. ASSUME NEW m \in Locals, RunBotGuard(c, m), UNCHANGED process,
             m.visitor \in Visitors, m.header = m.visitor,
             m.challenge = [visitor |-> m.visitor, of |-> c]
      PROVE  IInv'
  <2>1. CASE host = "nitro"
    <3> DEFINE k == [m EXCEPT !.pc = "snapshot"]
    <3>1. k \in Locals /\ LocalInv(c, k)
      BY <1>2, <2>1 DEF Locals, LocalInv
    <3>2. Set(c, k)
      BY <1>2, <2>1 DEF RunBotGuard
    <3> QED
      BY <1>2, <3>1, <3>2, SetStep
  <2>2. CASE host # "nitro" /\ vmSlot = None
    <3> DEFINE k == Rejected(m)
    <3>1. k \in Locals /\ LocalInv(c, k)
      BY <1>2, RejectedFits
    <3>2. Set(c, k)
      BY <1>2, <2>2 DEF RunBotGuard
    <3> QED
      BY <1>2, <3>1, <3>2, SetStep
  <2>3. CASE host # "nitro" /\ vmSlot # None
    <3> DEFINE k == [m EXCEPT !.pc = "load", !.vm = vmSlot]
    <3>1. vmSlot \in Machines
      BY <1>0, <2>3
    <3>2. k \in Locals /\ LocalInv(c, k)
      BY <1>2, <2>3, <3>1 DEF Locals, LocalInv
    <3>3. Set(c, k)
      BY <1>2, <2>3 DEF RunBotGuard
    <3> QED
      BY <1>2, <3>2, <3>3, SetStep
  <2> QED
    BY <2>1, <2>2, <2>3
<1>3. CASE AttAnswers(c)
  <2>1. l.pc = "att" /\ UNCHANGED process
    BY <1>3 DEF AttAnswers, At
  <2>2. PICK v \in IF host = "napi" THEN Visitors ELSE {l.header} :
          IF l.opts.script = "supplied"
          THEN RunBotGuard(c, Attested(c, v))
          ELSE Set(c, [Attested(c, v) EXCEPT !.pc = "interpreter"])
    BY <1>3 DEF AttAnswers
  <2>3. v \in Visitors
    BY <1>0, <2>1, <2>2 DEF LocalInv
  <2> DEFINE m == Attested(c, v)
  <2>4. /\ m \in Locals /\ m.visitor = v /\ m.header = v
        /\ m.challenge = [visitor |-> v, of |-> c]
    BY <1>0, <2>3 DEF Attested, Locals, Products
  <2>5. CASE l.opts.script = "supplied"
    BY <1>2, <2>1, <2>2, <2>3, <2>4, <2>5
  <2>6. CASE l.opts.script # "supplied"
    <3> DEFINE k == [m EXCEPT !.pc = "interpreter"]
    <3>1. k \in Locals /\ LocalInv(c, k)
      BY <2>3, <2>4 DEF Locals, LocalInv
    <3> QED
      BY <1>0, <2>1, <2>2, <2>6, <3>1, SetStep
  <2> QED
    BY <2>5, <2>6
<1>4. CASE InterpreterArrives(c)
  <2>1. l.pc = "interpreter" /\ RunBotGuard(c, l) /\ UNCHANGED process
    BY <1>4 DEF InterpreterArrives, At
  <2> QED
    BY <1>0, <1>2, <2>1 DEF LocalInv
<1>5. CASE Loaded(c)
  <2> DEFINE m == [l EXCEPT !.pc = "snapshot"]
  <2>1. m \in Locals /\ LocalInv(c, m)
    BY <1>0, <1>5 DEF Locals, LocalInv, Loaded, At
  <2> QED
    BY <1>0, <1>5, <2>1, SetStep DEF Loaded
<1>6. CASE SnapshotTaken(c)
  <2> DEFINE out == Signals(c)
             m == [l EXCEPT !.pc = "generate", !.signals = out]
  <2>1. /\ l.pc = "snapshot" /\ l.visitor \in Visitors /\ l.vm \in Machines \cup {None}
        /\ l.challenge = [visitor |-> l.visitor, of |-> c]
    BY <1>0, <1>6 DEF SnapshotTaken, At, LocalInv, Locals
  <2>2. out \in Outputs /\ out = [challenge |-> l.challenge, vm |-> l.vm]
    BY <2>1 DEF Signals, Outputs, Products
  <2> HIDE DEF out
  <2>3. m \in Locals
    BY <1>0, <2>2 DEF Locals
  <2>4. LocalInv(c, m)
    BY <1>0, <2>1, <2>2 DEF Locals, LocalInv
  <2>5. Set(c, m) /\ UNCHANGED process
    BY <1>6 DEF SnapshotTaken, out
  <2> QED
    BY <2>3, <2>4, <2>5, SetStep
<1>7. CASE Generated(c)
  <2> DEFINE i == MinterIntegrity(c)
             p == IF host = "nitro" THEN "mint" ELSE "minter"
             m == [l EXCEPT !.pc = p, !.integrity = i]
  <2>1. l.pc = "generate" /\ l.challenge \in Products
    BY <1>0, <1>7 DEF Generated, At, LocalInv, Locals, Products
  <2>2. i = Issued(l.challenge) /\ i \in Products \cup {None} /\ p \in {"mint", "minter"}
        /\ p \in Points
    BY <2>1 DEF MinterIntegrity, Issued
  <2>3. Set(c, m) /\ UNCHANGED process
    BY <1>7 DEF Generated
  <2> HIDE DEF i, p
  <2>4. m \in Locals
    <3> HIDE DEF Points, Waiting
    <3> QED
      BY <1>0, <2>2 DEF Locals
  <2>5. LocalInv(c, m)
    BY <1>0, <2>1, <2>2 DEF Locals, LocalInv
  <2> QED
    BY <2>3, <2>4, <2>5, SetStep
<1>8. CASE MinterCreated(c)
  <2> DEFINE m == [l EXCEPT !.pc = "mint"]
  <2>1. m \in Locals /\ LocalInv(c, m)
    BY <1>0, <1>8 DEF Locals, LocalInv, MinterCreated, At
  <2> QED
    BY <1>0, <1>8, <2>1, SetStep DEF MinterCreated
<1>9. CASE Minted(c)
  <2> DEFINE t == [integrity |-> l.integrity, signals |-> l.signals, binding |-> Binding(c)]
             m == [l EXCEPT !.pc = "resolved", !.token = t]
  <2>1. /\ l.pc = "mint" /\ l.visitor \in Visitors /\ l.header = l.visitor
        /\ l.challenge = [visitor |-> l.visitor, of |-> c]
        /\ l.signals = [challenge |-> l.challenge, vm |-> l.vm]
        /\ l.integrity = Issued(l.challenge)
        /\ host # "nitro" => l.vm \in Machines
    BY <1>0, <1>9 DEF LocalInv, Minted, At
  <2>2. Binding(c) = Identifier(l) /\ Binding(c) \in Bindings \cup Visitors
    BY <1>0, <2>1 DEF Binding, Identifier, Options
  <2>3. t \in Tokens
    <3>1. l.signals \in Outputs /\ l.integrity \in Products \cup {None}
      BY <1>0, <2>1 DEF Outputs, Products, Locals, Issued
    <3> QED
      BY <2>2, <3>1 DEF Tokens
  <2>4. m \in Locals
    <3> HIDE DEF t
    <3> QED
      BY <1>0, <2>3 DEF Locals
  <2>5. /\ m.pc = "resolved" /\ m.visitor = l.visitor /\ m.header = l.header
        /\ m.challenge = l.challenge /\ m.signals = l.signals /\ m.integrity = l.integrity
        /\ m.token = t /\ m.opts = l.opts /\ m.vm = l.vm
    BY <1>0 DEF Locals
  <2>6. LocalInv(c, m)
    BY <2>1, <2>2, <2>5 DEF LocalInv, Identifier
  <2> DEFINE k == Rejected(m)
  <2>7. k \in Locals /\ LocalInv(c, k)
    <3> HIDE DEF m
    <3> QED
      BY <2>4, RejectedFits
  <2>8. (Set(c, m) \/ Set(c, k)) /\ UNCHANGED process
    BY <1>9 DEF Minted
  <2> HIDE DEF m, k
  <2> QED
    BY <2>4, <2>6, <2>7, <2>8, SetStep
<1>10. CASE AwaitFails(c)
  <2> DEFINE m == Rejected(l)
  <2>1. m \in Locals /\ LocalInv(c, m)
    BY <1>0, RejectedFits
  <2> QED
    BY <1>0, <1>10, <2>1, SetStep DEF AwaitFails
<1> QED
  BY <1>1, <1>3, <1>4, <1>5, <1>6, <1>7, <1>8, <1>9, <1>10 DEF Step

(* A process that ends, a thread that is kept and a VM that is put into
   globalThis leave the locals of every call as they are; a promise that never
   settles leaves its call where it was. *)
LEMMA OtherInv ==
  ASSUME IInv,
         \/ UNCHANGED <<host, call>> /\ vmSlot' \in Machines \cup {None}
         \/ \E c \in Calls : NeverAnswers(c)
  PROVE  IInv'
<1>1. CASE UNCHANGED <<host, call>> /\ vmSlot' \in Machines \cup {None}
  BY <1>1, SameLocals DEF IInv, LocalInv, Identifier, Issued
<1>2. ASSUME NEW c \in Calls, NeverAnswers(c) PROVE IInv'
  <2> DEFINE m == [call[c] EXCEPT !.hung = TRUE]
  <2>1. call[c] \in Locals /\ LocalInv(c, call[c])
    BY DEF IInv
  <2>2. m \in Locals
    BY <2>1 DEF Locals
  <2>3. LocalInv(c, m)
    BY <2>1 DEF Locals, LocalInv, Identifier
  <2> QED
    BY <1>2, <2>2, <2>3, SetStep DEF NeverAnswers
<1> QED
  BY <1>1, <1>2

(* Every step of any call, in any interleaving, keeps the locals consistent. *)
THEOREM Invariance == Spec => []IInv
<1>1. IInv /\ [Next]_vars => IInv'
  <2>1. IInv /\ Next => IInv'
    BY StepInv, OtherInv DEF Next, WorkerThrows, KeepsThread, Install, IInv
  <2>2. IInv /\ UNCHANGED vars => IInv'
    BY OtherInv DEF vars, IInv
  <2> QED
    BY <2>1, <2>2
<1> QED
  BY InitIInv, <1>1, PTL DEF Spec

(* No step reads a local variable before it is given its value. *)
THEOREM TypeCorrect == Spec => []TypeOK
<1> DEFINE A == alive \in BOOLEAN /\ stuck \in BOOLEAN
<1>1. Init => A
  BY DEF Init
<1>2. A /\ [Next]_vars => A'
  BY Zenon DEF Next, Step, Start, AttAnswers, InterpreterArrives, Loaded, SnapshotTaken, Generated,
         MinterCreated, Minted, AwaitFails, WorkerThrows, NeverAnswers, KeepsThread, Install,
         vars, process
<1>3. IInv /\ A => TypeOK
  <2> SUFFICES ASSUME IInv, A PROVE TypeOK
    OBVIOUS
  <2>1. ASSUME NEW c \in Calls
        PROVE  /\ call[c].pc \in Waiting \cup {"resolved", "rejected"}
               /\ call[c].pc \in Waiting \ {"start", "att"} => call[c].visitor \in Visitors
               /\ call[c].pc = "load" => call[c].vm \in Machines
               /\ call[c].pc \in {"minter", "mint", "resolved"} =>
                    /\ call[c].challenge \in Products /\ call[c].vm \in Machines \cup {None}
                    /\ call[c].signals = [challenge |-> call[c].challenge, vm |-> call[c].vm]
    <3> DEFINE l == call[c]
    <3>1. l \in Locals /\ LocalInv(c, l)
      BY DEF IInv
    <3>2. l.pc \in Waiting \cup {"resolved", "rejected"} /\ l.vm \in Machines \cup {None}
      BY <3>1 DEF Locals, Points
    <3> HIDE DEF l
    <3>3. l.pc \in Waiting \ {"start", "att"} => l.visitor \in Visitors
      BY <3>1, <3>2 DEF LocalInv, Waiting
    <3>4. l.pc = "load" => l.vm \in Machines
      BY <3>1 DEF LocalInv
    <3>5. l.pc \in {"minter", "mint", "resolved"} =>
            /\ l.challenge \in Products
            /\ l.signals = [challenge |-> l.challenge, vm |-> l.vm]
      BY <3>1 DEF LocalInv, Products
    <3> QED
      BY <3>2, <3>3, <3>4, <3>5 DEF l
  <2>2. ASSUME NEW c \in Calls, call[c].pc \in {"minter", "mint", "resolved"}
        PROVE  call[c].signals # None
    <3> DEFINE ch == call[c].challenge
               m == call[c].vm
    <3>1. ch \in [visitor : Visitors, of : Calls] /\ m \in Machines \cup {None}
          /\ call[c].signals = [challenge |-> ch, vm |-> m]
      BY <2>1, <2>2 DEF Products
    <3> HIDE DEF ch, m
    <3> QED
      BY <3>1, NoneAssumption
  <2>3. host \in Hosts /\ vmSlot \in Machines \cup {None}
    BY DEF IInv
  <2> QED
    BY <2>1, <2>2, <2>3, Zenon DEF TypeOK
<1> QED
  BY <1>1, <1>2, <1>3, Invariance, PTL DEF Spec

(* generatePoToken never mixes two calls of one process, and one call never
   mixes two virtual machines. *)
THEOREM Coherent == Spec => []CallCoherent
<1>1. IInv => CallCoherent
  BY DEF IInv, LocalInv, Issued, CallCoherent, Identifier, Binding
<1> QED
  BY <1>1, Invariance, PTL
=============================================================================
