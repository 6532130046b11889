-------------------------- MODULE NsigExtractProofs --------------------------
(***************************************************************************)
(* Proofs about the extraction, for any files, parameter and built-ins:    *)
(* the selection is the closure whatever the order of its worklist, the    *)
(* extraction is a refinement of the selection alone, and an early stop    *)
(* leaves no dependency undeclared.                                        *)
(***************************************************************************)
EXTENDS NsigExtract, TLAPS

(* What the selection relies on: what was kept without being followed is
   waiting to be.  Seeds are kept from the start, so that a timestamp region
   never enters the worklist. *)
SelInv ==
  /\ worklist \subseteq kept
  /\ kept \subseteq Regions(file)
  /\ phase = "seed" => kept = {}
  /\ phase # "seed" => Seeds(file) \subseteq kept
  /\ phase \notin {"seed", "select"} => worklist = {}
  /\ \A r \in worklist : Followed(file, r)
  /\ \A r \in kept : Followed(file, r) => r \in worklist \/ Needs(file, r) \subseteq kept
  /\ Least(file, kept)

(* A region needs regions only: names lead to the regions that declare or
   assign them (nameToRegions, aliasesOf). *)
LEMMA NeedsRegions ==
  ASSUME NEW f, NEW r
  PROVE  Needs(f, r) \subseteq Regions(f)
<1>1. \A n : IncludeIdentifier(f, n) \subseteq Regions(f)
  BY DEF IncludeIdentifier, NameToRegions, AliasesOf, OwnerAssigns, OwnerMembers
<1>2. \A m : IncludeMember(f, m) \subseteq Regions(f)
  BY <1>1 DEF IncludeMember
<1> QED
  BY <1>1, <1>2, Zenon DEF Needs

(* Following a region that is kept keeps nothing a closed set does without. *)
LEMMA LeastFollow ==
  ASSUME NEW f, NEW S, NEW r \in S, S \subseteq Regions(f), Followed(f, r), Least(f, S)
  PROVE  Least(f, S \cup Needs(f, r))
<1> DEFINE needs == [q \in Regions(f) |-> Needs(f, q)]
<1> SUFFICES ASSUME NEW C \in SUBSET Regions(f), Seeds(f) \subseteq C,
                    \A q \in C : Followed(f, q) => needs[q] \subseteq C
             PROVE  S \cup Needs(f, r) \subseteq C
  BY DEF Least
<1>1. S \subseteq C
  BY DEF Least
<1>2. needs[r] = Needs(f, r)
  OBVIOUS
<1> QED
  BY <1>1, <1>2

(* The inductive invariant of the worklist of selectClosure. *)
THEOREM SelInvariance == SelSpec => []SelInv
<1>1. SelInit => SelInv
  BY DEF SelInit, SelInv, Least, Regions
<1>2. SelInv /\ [SelNext \/ Later]_selVars => SelInv'
  <2> SUFFICES ASSUME SelInv, [SelNext \/ Later]_selVars PROVE SelInv'
    OBVIOUS
  <2>1. CASE Seed
    <3>1. /\ file' = file /\ phase' = "select" /\ kept' = Seeds(file)
          /\ worklist' = {r \in Seeds(file) : SeedKind(file[r]) = "nsig"}
      BY <2>1 DEF Seed
    <3>2. Seeds(file) \subseteq Regions(file)
      BY DEF Seeds
    <3>3. \A r \in Seeds(file) : Followed(file, r) => SeedKind(file[r]) = "nsig"
      BY DEF Seeds, Followed
    <3>4. \A r \in Seeds(file) : SeedKind(file[r]) = "nsig" => Followed(file, r)
      BY DEF Followed
    <3>5. Least(file, Seeds(file))
      BY DEF Least
    <3> QED
      BY <3>1, <3>2, <3>3, <3>4, <3>5 DEF SelInv
  <2>2. ASSUME NEW r \in worklist, Follow(r) PROVE SelInv'
    <3>1. /\ phase = "select" /\ phase' = phase /\ file' = file
          /\ kept' = kept \cup Needs(file, r)
          /\ worklist' = (worklist \ {r}) \cup (Needs(file, r) \ kept)
      BY <2>2 DEF Follow
    <3>2. Needs(file, r) \subseteq Regions(file)
      BY NeedsRegions
    <3>3. \A q \in Needs(file, r) \ kept : Followed(file, q)
      BY <3>1, <3>2 DEF SelInv, Followed, Seeds
    <3>4. Least(file, kept')
      BY <3>1, LeastFollow DEF SelInv
    <3>5. \A q \in kept' : Followed(file, q) => q \in worklist' \/ Needs(file, q) \subseteq kept'
      BY <3>1 DEF SelInv
    <3>6. \A q \in worklist' : Followed(file, q)
      BY <3>1, <3>3 DEF SelInv
    <3> QED
      BY <3>1, <3>2, <3>4, <3>5, <3>6 DEF SelInv
  <2>3. CASE SelectEnds \/ Later \/ UNCHANGED selVars
    BY <2>3 DEF SelectEnds, Later, selVars, SelInv
  <2> QED
    BY <2>1, <2>2, <2>3 DEF SelNext
<1> QED
  BY <1>1, <1>2, PTL DEF SelSpec

(* However the worklist is worked off, the selection ends with the least set
   of regions that holds the seeds and is closed under what they need. *)
THEOREM SelectionIsClosure == SelSpec => []KeptIsClosure
<1>1. SelInv => KeptIsClosure
  BY DEF SelInv, KeptIsClosure, Closed
<1> QED
  BY <1>1, SelInvariance, PTL

(* The rest of extract never touches what was selected: each of its steps is
   one of the selection, one after it, or none. *)
LEMMA StepSelects ==
  ASSUME [Next]_vars
  PROVE  [SelNext \/ Later]_selVars
<1>1. CASE Select
  BY <1>1 DEF Select, SelNext
<1>2. CASE AnalyzeReduced
  BY <1>2 DEF AnalyzeReduced, SelNext
<1>3. CASE Analyze
  BY <1>3 DEF Analyze, DeclareVariable, AssignVariable, AssignMember, SkipStatement, Advance
<1>4. CASE Build
  <2>1. CASE StartBuild
    BY <2>1 DEF StartBuild, Later
  <2>2. CASE Emit
    BY <2>2 DEF Emit
  <2>3. ASSUME NEW d, Visit(d) PROVE UNCHANGED selVars
    BY <2>3 DEF Visit
  <2> QED
    BY <1>4, <2>1, <2>2, <2>3 DEF Build
<1>5. CASE AnalyzeFile
  BY <1>5 DEF AnalyzeFile, Later
<1>6. CASE Finish
  BY <1>6 DEF Finish, Later
<1>7. CASE UNCHANGED vars
  BY <1>7 DEF vars
<1> QED
  BY <1>1, <1>2, <1>3, <1>4, <1>5, <1>6, <1>7 DEF Next

(* extract implements the selection: what is proved of the one holds in the
   other. *)
THEOREM ExtractSelects == Spec => SelSpec
<1>1. Init => SelInit
  BY DEF Init
<1> QED
  BY <1>1, StepSelects, PTL DEF Spec, SelSpec

(* While the file is analysed and the script is built, what was kept is the
   closure. *)
THEOREM ExtractionKeepsClosure == Spec => []KeptIsClosure
BY ExtractSelects, SelectionIsClosure, PTL
-----------------------------------------------------------------------------
(* The analysis goes on only while something is missing: the function, its
   readiness or the timestamp.  The flag of a function that is assigned again
   is stale; the second conjunct is why nothing stops on it except the
   assignment that takes the function away. *)
StopInv ==
  /\ StopIsResolved
  /\ ~stopped => ~(nsig # 0 /\ ready /\ sts # 0)

LEMMA OnMatchStops ==
  ASSUME NEW pl, NEW dc, NEW i, OnMatch(pl, dc, i), ~stopped, StopInv
  PROVE  StopInv'
<1>1. CASE nsig = i
  <2>1. CASE nsig' # 0 /\ ready' /\ sts' # 0
    <3>1. nsig' = nsig /\ nsig # 0
      BY <1>1, <2>1 DEF OnMatch
    <3>2. ready' = ready
      BY <1>1, <3>1 DEF OnMatch
    <3>3. sts = 0 /\ Matches(pl, i, "sts")
      BY <2>1, <3>1, <3>2 DEF OnMatch, StopInv
    <3>4. ~FunctionInPlace'
      BY <1>1, <3>1, <3>3 DEF OnMatch, Matches, FunctionInPlace
    <3>5. stopped'
      BY <1>1, <2>1, <3>1, <3>3 DEF OnMatch
    <3> QED
      BY <3>4, <3>5 DEF StopInv, StopIsResolved
  <2>2. CASE ~(nsig' # 0 /\ ready' /\ sts' # 0)
    BY <2>2 DEF OnMatch, StopInv, StopIsResolved
  <2> QED
    BY <2>1, <2>2
<1>2. CASE nsig # i
  <2>1. nsig' # 0 => ready' = Resolved(pl, dc, pl[nsig'].deps)
    BY <1>2 DEF OnMatch
  <2>2. stopped' <=> nsig' # 0 /\ ready' /\ sts' # 0
    BY <1>2 DEF OnMatch
  <2> QED
    BY <2>1, <2>2 DEF OnMatch, StopInv, StopIsResolved
<1> QED
  BY <1>1, <1>2

(* An early stop never loses a dependency to the rest of the text: every one
   of the function it found is declared by then. *)
THEOREM StopsResolved == Spec => []StopIsResolved
<1>1. Init => StopInv
  BY DEF Init, StopInv, StopIsResolved
<1>2. StopInv /\ [Next]_vars => StopInv'
  <2> SUFFICES ASSUME StopInv, [Next]_vars PROVE StopInv'
    OBVIOUS
  <2>1. ASSUME UNCHANGED anVars PROVE StopInv'
    BY <2>1 DEF anVars, StopInv, StopIsResolved, FunctionInPlace, Resolved, Ignored
  <2>2. ASSUME NEW stmts, StartAnalysis(stmts) PROVE StopInv'
    BY <2>2 DEF StartAnalysis, StopInv, StopIsResolved
  <2>3. ASSUME ~stopped, NoMatch PROVE StopInv'
    BY <2>3 DEF NoMatch, StopInv, StopIsResolved
  <2>4. CASE Analyze
    <3>1. ~stopped
      BY <2>4 DEF Analyze, DeclareVariable, AssignVariable, AssignMember, SkipStatement, Advance
    <3>2. CASE DeclareVariable
      BY <3>1, <3>2, OnMatchStops DEF DeclareVariable
    <3>3. CASE AssignVariable
      BY <3>1, <3>3, <2>3, OnMatchStops DEF AssignVariable
    <3>4. CASE AssignMember
      <4>1. CASE UNCHANGED <<declared, nsig, sts, ready, stopped>>
        BY <3>1, <4>1 DEF StopInv, StopIsResolved
      <4>2. CASE \E pl, dc : OnMatch(pl, dc, pos)
        BY <3>1, <4>2, OnMatchStops
      <4> QED
        BY <3>4, <4>1, <4>2 DEF AssignMember
    <3>5. CASE SkipStatement
      BY <3>1, <3>5, <2>3 DEF SkipStatement
    <3> QED
      BY <2>4, <3>2, <3>3, <3>4, <3>5 DEF Analyze
  <2>5. CASE Select
    BY <2>5, <2>1 DEF Select
  <2>6. CASE AnalyzeReduced
    BY <2>6, <2>2 DEF AnalyzeReduced
  <2>7. CASE Build
    <3>1. UNCHANGED anVars
      BY <2>7 DEF Build, StartBuild, Emit, Visit
    <3> QED
      BY <3>1, <2>1
  <2>8. CASE AnalyzeFile
    BY <2>8, <2>2 DEF AnalyzeFile
  <2>9. CASE Finish
    BY <2>9, <2>1 DEF Finish
  <2>10. CASE UNCHANGED vars
    BY <2>10, <2>1 DEF vars
  <2> QED
    BY <2>4, <2>5, <2>6, <2>7, <2>8, <2>9, <2>10 DEF Next
<1>3. StopInv => StopIsResolved
  BY DEF StopInv
<1> QED
  BY <1>1, <1>2, <1>3, PTL DEF Spec
=============================================================================
