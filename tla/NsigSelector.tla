---------------------------- MODULE NsigSelector ----------------------------
(***************************************************************************)
(* chunk::selectClosure of nsig_extract.cpp: from the regions of the file  *)
(* it keeps those the nsig function can reach, so that only they are       *)
(* parsed together.  A worklist holds the kept regions whose names are     *)
(* still to be followed; which one is next depends on the iteration order  *)
(* of an unordered_set and is left open.                                   *)
(***************************************************************************)
EXTENDS NsigSource

VARIABLES
  phase,     \* "seed", "select", then the phases of NsigExtract
  file,      \* the statements of the file
  kept,      \* indices of the regions kept so far
  worklist   \* those among them still to be followed

selVars == <<phase, file, kept, worklist>>

Regions(f) == DOMAIN f

(* nameToRegions: a member counts where it is first assigned, a plain name
   wherever it is declared or assigned. *)
NameToRegions(f, n) ==
  {r \in Regions(f) : /\ f[r].name = n
                      /\ IsMember(n) => \A q \in Regions(f) : f[q].name = n => r <= q}

(* The alias regions of class o, and the members assigned through an alias
   while its latest alias statement named o. *)
OwnerAssigns(f, o) == {r \in Regions(f) : IsAlias(f[r]) /\ Owner(f[r]) = o}

OwnerMembers(f, o) ==
  {r \in Regions(f) : \E q \in OwnerAssigns(f, o) :
     /\ q < r
     /\ Extends(f[r].name, f[q].name)
     /\ \A p \in (q+1)..(r-1) : ~(IsAlias(f[p]) /\ f[p].name = f[q].name)}

AliasesOf(f, n) == OwnerAssigns(f, n) \cup OwnerMembers(f, n)

IncludeIdentifier(f, n) == NameToRegions(f, n) \cup AliasesOf(f, n)

(* Mutant: of a member only its base variable is included. *)
IncludeBaseOnly(f, chain) == IncludeIdentifier(f, Base(chain))

(* The longest prefix of the chain that the file declares, or its base. *)
IncludeMember(f, chain) ==
  LET found == {p \in Prefixes(chain) : NameToRegions(f, p) # {}}
      longest == IF found = {} THEN Base(chain)
                 ELSE CHOOSE p \in found : \A q \in found : Len(q) <= Len(p)
  IN IncludeIdentifier(f, longest)

(* The free names of a region: of its initializer, and of the left-hand side
   of an assignment.  A declaration binds the name it declares. *)
RegionReads(s) ==
  LET init == IF s.init = None THEN {} ELSE s.init.reads
  IN IF s.kind = "assign" THEN init \cup {s.name}
     ELSE {c \in init : Base(c) # s.name}

(* A value the extractor strips anyway is replaced by a stub. *)
Stubbed(s) ==
  /\ s.init # None /\ DefinitelyStripped(s.init)
  /\ s.kind = "var" \/ (s.kind = "assign" /\ IsMember(s.name))

(* Mutant: only declarators are searched for the nsig function. *)
SeedDeclarators(s) == IF s.init # None /\ s.kind = "var" THEN s.init.shape ELSE "none"

SeedKind(s) == IF s.init # None /\ s.kind # "function" THEN s.init.shape ELSE "none"

Seeds(f) == {r \in Regions(f) : SeedKind(f[r]) \in {"nsig", "sts"}}

(* The regions one iteration of the worklist loop includes for region r. *)
Needs(f, r) ==
  IF Stubbed(f[r]) THEN {}
  ELSE LET free == {c \in RegionReads(f[r]) : Base(c) \notin BuiltIns}
           ids == {Base(c) : c \in free} \ {Param}
           members == {p \in UNION {Prefixes(c) : c \in free} : IsMember(p)}
       IN UNION ({IncludeIdentifier(f, n) : n \in ids} \cup {IncludeMember(f, m) : m \in members})

(* The program that is parsed: the kept regions in file order, a stripped
   declaration as a stub and a stripped member assignment not at all. *)
Stub(s) == [s EXCEPT !.init = Fallback(s.init)]

Reduced(f, keep) ==
  LET text == [r \in Regions(f) |-> IF Stubbed(f[r]) THEN Stub(f[r]) ELSE f[r]]
  IN Picked(text, {r \in keep : Stubbed(f[r]) => f[r].kind = "var"})
-----------------------------------------------------------------------------
SelInit ==
  /\ phase = "seed"
  /\ file \in Files
  /\ kept = {} /\ worklist = {}

(* The nsig function is kept and followed, a timestamp region only kept. *)
Seed ==
  /\ phase = "seed"
  /\ phase' = "select"
  /\ kept' = Seeds(file)
  /\ worklist' = {r \in Seeds(file) : SeedKind(file[r]) = "nsig"}
  /\ UNCHANGED file

(* Mutant: included regions are not recorded as kept. *)
FollowForgetsKept(r) ==
  /\ phase = "select" /\ r \in worklist
  /\ worklist' = (worklist \ {r}) \cup (Needs(file, r) \ kept)
  /\ UNCHANGED <<phase, file, kept>>

(* Mutant: included regions are not followed in turn. *)
FollowOneLevel(r) ==
  /\ phase = "select" /\ r \in worklist
  /\ kept' = kept \cup Needs(file, r)
  /\ worklist' = worklist \ {r}
  /\ UNCHANGED <<phase, file>>

(* Mutant: regions already kept are followed again. *)
FollowAgain(r) ==
  /\ phase = "select" /\ r \in worklist
  /\ kept' = kept \cup Needs(file, r)
  /\ worklist' = (worklist \ {r}) \cup Needs(file, r)
  /\ UNCHANGED <<phase, file>>

Follow(r) ==
  /\ phase = "select"
  /\ r \in worklist
  /\ kept' = kept \cup Needs(file, r)
  /\ worklist' = (worklist \ {r}) \cup (Needs(file, r) \ kept)
  /\ UNCHANGED <<phase, file>>

SelectEnds ==
  /\ phase = "select"
  /\ worklist = {}
  /\ phase' = "analyze"
  /\ UNCHANGED <<file, kept, worklist>>

SelNext == Seed \/ (\E r \in worklist : Follow(r)) \/ SelectEnds

(* What happens after the selection leaves its result alone. *)
Later ==
  /\ phase \notin {"seed", "select"}
  /\ phase' \notin {"seed", "select"}
  /\ UNCHANGED <<file, kept, worklist>>

SelSpec == SelInit /\ [][SelNext \/ Later]_selVars
-----------------------------------------------------------------------------
(* The worklist computes a closure, in whatever order it is worked off: what
   a followed region needs is kept by the end, and nothing is kept that some
   closed set of regions with the seeds does without.  Only timestamp regions
   are not followed. *)
Followed(f, r) == SeedKind(f[r]) # "sts"

Closed(f, S) ==
  Seeds(f) \subseteq S /\ \A r \in S : Followed(f, r) => Needs(f, r) \subseteq S

Least(f, S) ==
  LET needs == [r \in Regions(f) |-> Needs(f, r)]
  IN \A C \in SUBSET Regions(f) :
       /\ Seeds(f) \subseteq C
       /\ \A r \in C : Followed(f, r) => needs[r] \subseteq C
       => S \subseteq C

KeptIsClosure ==
  /\ phase = "select" /\ worklist = {} => Least(file, kept)
  /\ phase \notin {"seed", "select"} => Closed(file, kept)
=============================================================================
