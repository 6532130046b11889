-------------------------- MODULE PoTokenFlowProofs --------------------------
(***************************************************************************)
(* Proofs about PoTokenFlow, for any bindings, visitors and clock bound.   *)
(***************************************************************************)
EXTENDS PoTokenFlow, TLAPS

Over == {"return", "done"}

(* What the locals of the call hold at each step. *)
ProgressInv ==
  /\ pc \in {"session", "att", "legacy"} => challenge = None
  /\ pc \notin {"session", "att", "legacy"} \cup Over =>
       challenge \in Challenge /\ visitor_data \in Visitor
  /\ pc \notin Over => result = None
  /\ failed # None => pc \in Over /\ result # "ok"

Underway == Runner!Settled \cup {"pending"}

(* What the runner has been through at each step. *)
RunnerInv ==
  /\ pc = "snapshotting" =>
       busy = "snapshot" /\ promise["snapshot"] \in Underway
  /\ pc = "minting" => busy = "mint" /\ promise["mint"] \in Underway
  /\ pc \notin {"snapshotting", "minting"} => busy = None
  /\ pc \in {"session", "att", "legacy", "interpreter", "create", "snapshot"}
       => outcome["snapshot"] = None
  /\ pc \notin {"placeholder"} \cup Over => outcome["mint"] = None
  /\ pc \in {"generate", "mint", "minting"} => outcome["snapshot"] = "ok"

(* What the token is made of at each step. *)
Minted == [integrity |-> integrity, binding |-> ContentBinding]

TokenInv ==
  /\ pc \in {"mint", "minting", "placeholder"} =>
       integrity = [snapshot |-> challenge]
  /\ pc = "minting" => globals = Minted
  /\ pc = "placeholder" => po_token = Minted

IInv ==
  TypeOK /\ ProgressInv /\ RunnerInv /\ TokenInv /\ OneVisitor /\ ResultCoherent

----------------------------------------------------------------------------
LEMMA BindingType ==
  ASSUME TypeOK, visitor_data \in Visitor
  PROVE  ContentBinding \in Bindings \cup Visitor
BY DEF TypeOK, ContentBinding

LEMMA VisitorType ==
  ASSUME TypeOK
  PROVE  generate_visitor_data \in Visitor /\ SessionVisitor \in Visitor
BY DEF TypeOK, generate_visitor_data, SessionVisitor, Visitor

LEMMA InitIInv == Init => IInv
<1> SUFFICES ASSUME Init PROVE IInv
  OBVIOUS
<1> USE FlowAssumption, NoneAssumption DEF Init, Runner!Init, Runner!Fresh, Runner!Phases
<1>1. TypeOK
  BY DEF TypeOK, Steps
<1>2. ProgressInv /\ RunnerInv /\ TokenInv
  BY DEF ProgressInv, RunnerInv, TokenInv, Over
<1>3. OneVisitor /\ ResultCoherent
  BY DEF OneVisitor, ResultCoherent
<1> QED
  BY <1>1, <1>2, <1>3 DEF IInv

(* What a phase of the runner may return. *)
LEMMA PhaseReturn ==
  ASSUME TypeOK, NEW ph \in Runner!Phases,
         promise[ph] \in Underway,
         Runner!Return(ph) \/ Runner!Throw(ph)
  PROVE  /\ outcome' \in [Runner!Phases -> Outcomes \cup {None}]
         /\ \A other \in Runner!Phases \ {ph} : outcome'[other] = outcome[other]
         /\ busy' = None /\ promise' = promise
BY DEF TypeOK, Underway, Runner!Return, Runner!Throw, Runner!Read,
       Runner!Settled, Runner!Phases, Outcomes

LEMMA TypeStep ==
  ASSUME IInv, [Next]_vars PROVE TypeOK'
<1> USE VisitorType, BindingType, FlowAssumption, NoneAssumption
    DEF IInv, TypeOK, ProgressInv, Over, Steps, Go, Fail, Quit, Send,
        args, request, runner, products
<1>1. CASE FetchSession
  BY <1>1 DEF FetchSession, Visitor
<1>2. CASE GetAttestationChallenge
  BY <1>2 DEF GetAttestationChallenge, ContextVisitor, Challenge
<1>3. CASE FetchLegacyChallenge
  BY <1>3 DEF FetchLegacyChallenge, Challenge
<1>4. CASE GetInterpreter
  BY <1>4 DEF GetInterpreter
<1>5. CASE CreateRunner
  BY <1>5 DEF CreateRunner
<1>6. CASE RunSnapshot
  BY <1>6 DEF RunSnapshot, Call, Runner!Phases
<1>7. CASE SnapshotReturns
  <2>1. "snapshot" \in Runner!Phases
    BY DEF Runner!Phases
  <2> QED
    BY <1>7, <2>1, PhaseReturn DEF SnapshotReturns, RunnerInv
<1>8. CASE GenerateIT
  BY <1>8 DEF GenerateIT, Integrity
<1>9. CASE RunMint
  BY <1>9 DEF RunMint, Call, Runner!Phases, TokenInv, Token, Integrity
<1>10. CASE MintReturns
  <2>1. "mint" \in Runner!Phases
    BY DEF Runner!Phases
  <2> QED
    BY <1>10, <2>1, PhaseReturn DEF MintReturns, RunnerInv
<1>16. CASE PhaseThrows
  <2>1. busy \in Runner!Phases /\ promise[busy] \in Underway
    BY <1>16 DEF PhaseThrows, RunnerInv, Runner!Phases
  <2> QED
    BY <1>16, <2>1, PhaseReturn DEF PhaseThrows
<1>11. CASE Placeholder
  BY <1>11 DEF Placeholder
<1>12. CASE Return
  BY <1>12 DEF Return, Runner!Fresh
<1>13. CASE Settle
  BY <1>13 DEF Settle, Runner!Settle, Runner!Phases
<1>14. CASE Tick
  BY <1>14 DEF Tick
<1>15. CASE UNCHANGED vars
  BY <1>15 DEF vars
<1> QED
  BY <1>1, <1>2, <1>3, <1>4, <1>5, <1>6, <1>7, <1>8, <1>9, <1>10, <1>11,
     <1>12, <1>13, <1>14, <1>15, <1>16 DEF Next, Step

LEMMA ProgressStep ==
  ASSUME IInv, [Next]_vars PROVE ProgressInv'
<1> USE VisitorType, NoneAssumption
    DEF IInv, ProgressInv, Over, Go, Fail, Quit, args, request, runner,
        products
<1>1. CASE FetchSession
  BY <1>1 DEF FetchSession
<1>2. CASE GetAttestationChallenge
  BY <1>2 DEF GetAttestationChallenge, Challenge
<1>3. CASE FetchLegacyChallenge
  BY <1>3 DEF FetchLegacyChallenge, Challenge
<1>4. CASE GetInterpreter
  BY <1>4 DEF GetInterpreter
<1>5. CASE CreateRunner
  BY <1>5 DEF CreateRunner
<1>6. CASE RunSnapshot
  BY <1>6 DEF RunSnapshot, Call
<1>7. CASE SnapshotReturns
  BY <1>7 DEF SnapshotReturns
<1>8. CASE GenerateIT
  BY <1>8 DEF GenerateIT
<1>9. CASE RunMint
  BY <1>9 DEF RunMint, Call
<1>10. CASE MintReturns
  BY <1>10 DEF MintReturns
<1>16. CASE PhaseThrows
  BY <1>16 DEF PhaseThrows
<1>11. CASE Placeholder
  BY <1>11 DEF Placeholder
<1>12. CASE Return
  BY <1>12 DEF Return
<1>13. CASE Settle
  BY <1>13 DEF Settle
<1>14. CASE Tick
  BY <1>14 DEF Tick
<1>15. CASE UNCHANGED vars
  BY <1>15 DEF vars
<1> QED
  BY <1>1, <1>2, <1>3, <1>4, <1>5, <1>6, <1>7, <1>8, <1>9, <1>10, <1>11,
     <1>12, <1>13, <1>14, <1>15, <1>16 DEF Next, Step

LEMMA RunnerStep ==
  ASSUME IInv, [Next]_vars PROVE RunnerInv'
<1> USE DEF IInv, RunnerInv, Over, Go, Fail, Quit, args, request, runner,
            products
<1>1. CASE FetchSession
  BY <1>1 DEF FetchSession
<1>2. CASE GetAttestationChallenge
  BY <1>2 DEF GetAttestationChallenge
<1>3. CASE FetchLegacyChallenge
  BY <1>3 DEF FetchLegacyChallenge
<1>4. CASE GetInterpreter
  BY <1>4 DEF GetInterpreter
<1>5. CASE CreateRunner
  BY <1>5 DEF CreateRunner
<1>6. CASE RunSnapshot
  BY <1>6 DEF RunSnapshot, Call, TypeOK, Underway, Runner!Phases
<1>7. CASE SnapshotReturns
  <2>1. "snapshot" \in Runner!Phases /\ "mint" \in Runner!Phases
    BY DEF Runner!Phases
  <2> QED
    BY <1>7, <2>1, PhaseReturn DEF SnapshotReturns
<1>8. CASE GenerateIT
  BY <1>8 DEF GenerateIT
<1>9. CASE RunMint
  BY <1>9 DEF RunMint, Call, TypeOK, Underway, Runner!Phases
<1>10. CASE MintReturns
  <2>1. "snapshot" \in Runner!Phases /\ "mint" \in Runner!Phases
    BY DEF Runner!Phases
  <2> QED
    BY <1>10, <2>1, PhaseReturn DEF MintReturns
<1>16. CASE PhaseThrows
  BY <1>16 DEF PhaseThrows, Runner!Throw
<1>11. CASE Placeholder
  BY <1>11 DEF Placeholder
<1>12. CASE Return
  BY <1>12 DEF Return
<1>13. CASE Settle
  BY <1>13 DEF Settle, Runner!Settle, TypeOK, Underway, Runner!Phases
<1>14. CASE Tick
  BY <1>14 DEF Tick
<1>15. CASE UNCHANGED vars
  BY <1>15 DEF vars
<1> QED
  BY <1>1, <1>2, <1>3, <1>4, <1>5, <1>6, <1>7, <1>8, <1>9, <1>10, <1>11,
     <1>12, <1>13, <1>14, <1>15, <1>16 DEF Next, Step

(* The token, the visitor and the result change in few actions.             *)
LEMMA ResultStep ==
  ASSUME IInv, [Next]_vars
  PROVE  TokenInv' /\ OneVisitor' /\ ResultCoherent'
<1> USE VisitorType, BindingType, NoneAssumption
    DEF IInv, ProgressInv, TokenInv, OneVisitor, ResultCoherent, Minted,
        ContentBinding, Over, Go, Fail, Quit, args, request, runner, products
<1>1. CASE FetchSession
  BY <1>1 DEF FetchSession
<1>2. CASE GetAttestationChallenge
  BY <1>2 DEF GetAttestationChallenge, ContextVisitor, SessionVisitor
<1>3. CASE FetchLegacyChallenge
  BY <1>3 DEF FetchLegacyChallenge
<1>4. CASE GetInterpreter
  BY <1>4 DEF GetInterpreter
<1>5. CASE CreateRunner
  BY <1>5 DEF CreateRunner
<1>6. CASE RunSnapshot
  BY <1>6 DEF RunSnapshot, Call
<1>7. CASE SnapshotReturns
  BY <1>7 DEF SnapshotReturns
<1>8. CASE GenerateIT
  BY <1>8 DEF GenerateIT
<1>9. CASE RunMint
  BY <1>9 DEF RunMint, Call
<1>10. CASE MintReturns
  BY <1>10 DEF MintReturns
<1>16. CASE PhaseThrows
  BY <1>16 DEF PhaseThrows
<1>11. CASE Placeholder
  BY <1>11 DEF Placeholder, TypeOK, Token, Integrity
<1>12. CASE Return
  BY <1>12 DEF Return
<1>13. CASE Settle
  BY <1>13 DEF Settle
<1>14. CASE Tick
  BY <1>14 DEF Tick
<1>15. CASE UNCHANGED vars
  BY <1>15 DEF vars
<1> QED
  BY <1>1, <1>2, <1>3, <1>4, <1>5, <1>6, <1>7, <1>8, <1>9, <1>10, <1>11,
     <1>12, <1>13, <1>14, <1>15, <1>16 DEF Next, Step

(* The inductive invariant of the products of a call at each of its steps. *)
THEOREM Invariance == Spec => []IInv
<1>1. IInv /\ [Next]_vars => IInv'
  BY TypeStep, ProgressStep, RunnerStep, ResultStep DEF IInv
<1> QED
  BY InitIInv, <1>1, PTL DEF Spec

(* Every variable of the flow keeps its type. *)
THEOREM TypeCorrect == Spec => []TypeOK
BY Invariance, PTL DEF IInv

(* What a successful call returns belongs together: the token, its          *)
(* integrity token, the challenge and the identifier (epotoken.cpp:113-149).*)
THEOREM Coherence == Spec => []ResultCoherent
BY Invariance, PTL DEF IInv

(* One visitor in header, body and result, whatever fetch_session found.    *)
THEOREM VisitorAgreement == Spec => []OneVisitor
BY Invariance, PTL DEF IInv

(* Nothing is requested or run after a failure, and it is reported.         *)
THEOREM Closed == Spec => FailsClosed
<1>1. IInv /\ IInv' /\ [Next]_vars =>
        [failed # None =>
           requests' = requests /\ busy' = busy /\ result' # "ok"]_vars
  <2> SUFFICES ASSUME IInv, IInv', Next, failed # None
               PROVE  requests' = requests /\ busy' = busy /\ result' # "ok"
    BY DEF FailsClosed
  <2>1. pc \in Over /\ result # "ok"
    BY DEF IInv, ProgressInv
  <2>2. Return \/ Settle \/ Tick
    BY <2>1 DEF Next, Step, Over, FetchSession, GetAttestationChallenge,
         FetchLegacyChallenge, GetInterpreter, CreateRunner, RunSnapshot,
         SnapshotReturns, GenerateIT, RunMint, MintReturns, PhaseThrows, Placeholder
  <2> QED
    BY <2>1, <2>2 DEF Return, Settle, Runner!Settle, Tick, runner
<1> QED
  BY Invariance, <1>1, PTL DEF Spec, FailsClosed

(* The call keeps to the protocol of the runner: the guarantee that the     *)
(* specification of the event loop assumes of its caller.                   *)
THEOREM Protocol == Spec => UsesRunner
<1>1. Init => Runner!Init
  BY DEF Init
<1>2. IInv /\ [Next]_vars => [Runner!Next]_(Runner!vars)
  <2> SUFFICES ASSUME IInv, [Next]_vars
               PROVE  Runner!Next \/ UNCHANGED <<busy, promise, outcome>>
    BY DEF Runner!vars
  <2> USE DEF IInv, RunnerInv, Over, runner
  <2>1. CASE RunSnapshot
    <3>1. Runner!Begin("snapshot")
      BY <2>1, NoneAssumption DEF RunSnapshot, Call, Runner!Begin
    <3> QED
      BY <3>1 DEF Runner!Next, Runner!Phases
  <2>2. CASE RunMint
    <3>1. Runner!Begin("mint")
      BY <2>2 DEF RunMint, Call, Runner!Begin
    <3> QED
      BY <3>1 DEF Runner!Next, Runner!Phases
  <2>3. CASE SnapshotReturns
    BY <2>3 DEF SnapshotReturns, Runner!Next, Runner!Phases
  <2>4. CASE MintReturns
    BY <2>4 DEF MintReturns, Runner!Next, Runner!Phases
  <2>8. CASE PhaseThrows
    BY <2>8 DEF PhaseThrows, Runner!Next, Runner!Phases
  <2>5. CASE Return
    <3>1. Runner!Destroy
      BY <2>5 DEF Return, Runner!Destroy
    <3> QED
      BY <3>1 DEF Runner!Next
  <2>6. CASE Settle
    BY <2>6 DEF Settle, Runner!Next
  <2>7. CASE FetchSession \/ GetAttestationChallenge \/ FetchLegacyChallenge
             \/ GetInterpreter \/ CreateRunner \/ GenerateIT \/ Placeholder
             \/ Tick \/ UNCHANGED vars
    BY <2>7 DEF FetchSession, GetAttestationChallenge, FetchLegacyChallenge,
         GetInterpreter, CreateRunner, GenerateIT, Placeholder, Tick, vars
  <2> QED
    BY <2>1, <2>2, <2>3, <2>4, <2>5, <2>6, <2>7, <2>8 DEF Next, Step
<1> QED
  BY Invariance, <1>1, <1>2, PTL DEF Spec, UsesRunner, Runner!Spec
=============================================================================
