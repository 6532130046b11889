----------------------------- MODULE NsigExtract -----------------------------
(***************************************************************************)
(* nsig_extract::extract: the selection of NsigSelector, then the Analyzer *)
(* over the statements of the reduced program, one per step until it stops *)
(* early or reaches the end, then the Extractor, which visits dependencies *)
(* depth first and emits definitions.  If that yields no nsig function the *)
(* last two run again over the whole file.                                 *)
(*                                                                         *)
(* A variable's VarMeta is known by the index of the statement that made   *)
(* it; a redeclared name gets a new one.                                   *)
(***************************************************************************)
EXTENDS NsigSelector

VARIABLES
  attempt,      \* 1 for the reduced program, 2 for the whole file
  source,       \* the statements analysed: the reduced program or the file
  pos,          \* the next of them
  pool,         \* index -> VarMeta, of the statements that made one
  declared,     \* declaredVariables: name -> index
  nsig, sts,    \* the extractions: index of the matched node, 0 for none
  ready,        \* the flag of nsig; that of sts holds whenever it matched
  pending,      \* the alias block being read, or None
  stopped,      \* onMatch has asked the analysis to stop
  tasks,        \* the stack of visit: dependencies to visit, snippets to emit
  seen,         \* names visited
  out,          \* snippets emitted
  result        \* what extract returns; before, None or the first attempt's

anVars == <<pos, pool, declared, nsig, sts, ready, pending, stopped>>
outVars == <<tasks, seen, out>>
vars == <<selVars, attempt, source, anVars, outVars, result>>

(* findDependencies: of a chain a.b.c the base counts unless it is built in,
   a.b also if it or a is known by now, a longer prefix only if known. *)
FindDependencies(e) ==
  {p \in UNION {Prefixes(c) : c \in e.reads} :
     \/ ~IsMember(p) /\ p \notin BuiltIns
     \/ IsMember(p) /\ p \in DOMAIN declared
     \/ /\ Len(p) = 2 /\ Base(p) \notin BuiltIns
        /\ Base(p) \in DOMAIN declared \/ Base(p) = Param}

(* memberBaseName without ".prototype". *)
BaseName(n) == SelectSeq(SubSeq(n, 1, Len(n) - 1), LAMBDA c : c # "prototype")

NewMeta(i, deps) == [at |-> i, name |-> source[i].name, init |-> source[i].init,
                     deps |-> deps, predeclared |-> source[i].init = None,
                     members |-> << >>]

(* areDependenciesResolved: some set of declared names holds the given ones
   and, with each name, what that name depends on. *)
Resolved(pl, dc, deps) ==
  \E S \in SUBSET DOMAIN dc :
     \A D \in {deps} \cup {pl[dc[d]].deps : d \in S} : \A d \in D : Ignored(d) \/ d \in S

Matches(pl, i, shape) ==
  source[i].kind = "var" /\ pl[i].init # None /\ pl[i].init.shape = shape

(* Mutant: the function is ready as soon as it is found. *)
OnMatchReady(pl, dc, i) ==
  /\ pool' = pl
  /\ declared' = dc
  /\ nsig' = IF nsig = 0 /\ Matches(pl, i, "nsig") THEN i ELSE nsig
  /\ sts' = IF sts = 0 /\ Matches(pl, i, "sts") THEN i ELSE sts
  /\ ready' = (nsig' # 0)
  /\ stopped' = (nsig' # 0 /\ sts' # 0 /\ (nsig # i \/ sts # i))

(* onMatch, for the node of index i after the tables became pl and dc.  The
   readiness of a matched function is computed again unless the node is its
   own. *)
OnMatch(pl, dc, i) ==
  /\ pool' = pl
  /\ declared' = dc
  /\ nsig' = IF nsig = 0 /\ Matches(pl, i, "nsig") THEN i ELSE nsig
  /\ sts' = IF sts = 0 /\ Matches(pl, i, "sts") THEN i ELSE sts
  /\ ready' = IF nsig' = 0 THEN FALSE
              ELSE IF nsig = i THEN ready
              ELSE Resolved(pl, dc, pl[nsig'].deps)
  /\ stopped' = /\ nsig' # 0 /\ ready' /\ sts' # 0
                /\ nsig # i \/ sts # i

NoMatch == UNCHANGED <<pool, declared, nsig, sts, ready, stopped>>

Put(table, key, value) ==
  [k \in DOMAIN table \cup {key} |-> IF k = key THEN value ELSE table[k]]

Current == source[pos]

Advance ==
  /\ phase = "analyze"
  /\ ~stopped
  /\ pos <= Len(source)
  /\ pos' = pos + 1
  /\ UNCHANGED <<selVars, attempt, source, outVars, result>>

(* A declarator: the last declaration of a name wins. *)
DeclareVariable ==
  /\ Advance
  /\ Current.kind = "var"
  /\ pending' = None
  /\ LET init == Current.init
         deps == IF init # None /\ NeedsAnalysis(init) THEN FindDependencies(init) ELSE {}
     IN OnMatch(Put(pool, pos, NewMeta(pos, deps)), Put(declared, Current.name, pos), pos)

(* An alias statement of a known class opens an alias block. *)
PendingAlias ==
  IF IsAlias(Current) /\ Owner(Current) \in DOMAIN declared
  THEN [alias |-> Current.name, owner |-> declared[Owner(Current)]]
  ELSE pending

(* X = e patches the declarator of X, the last assignment wins; X unknown is
   skipped. *)
AssignVariable ==
  /\ Advance
  /\ Current.kind = "assign" /\ ~IsMember(Current.name)
  /\ pending' = PendingAlias
  /\ IF Current.name \notin DOMAIN declared THEN NoMatch
     ELSE LET i == declared[Current.name]
              init == Current.init
          IN OnMatch([pool EXCEPT ![i].init = init,
                                  ![i].deps = IF NeedsAnalysis(init)
                                              THEN FindDependencies(init) ELSE @],
                     declared, i)

(* The text of the member contains the alias and a dot, or is the alias. *)
InBlock(n, alias) ==
  n = alias \/ \E k \in DOMAIN n : Extends(SubSeq(n, k, Len(n)), alias)

(* a.b = e, for the first assignment of a.b only.  Within an alias block the
   member is also put down for the owner of the alias. *)
AssignMember ==
  /\ Advance
  /\ Current.kind = "assign" /\ IsMember(Current.name)
  /\ LET n == Current.name
         block == PendingAlias
         inBlock == block # None /\ InBlock(n, block.alias)
         deps == FindDependencies(Current.init)
         pl == IF inBlock
               THEN [pool EXCEPT ![block.owner].members = Append(@, [at |-> pos, deps |-> deps])]
               ELSE pool
     IN /\ pending' = IF inBlock THEN block ELSE None
        /\ IF n \in DOMAIN declared
           THEN pool' = pl /\ UNCHANGED <<declared, nsig, sts, ready, stopped>>
           ELSE OnMatch(Put(pl, pos, NewMeta(pos, deps \cup {BaseName(n)})),
                        Put(declared, n, pos), pos)

(* Function declarations and all else are passed over. *)
SkipStatement ==
  /\ Advance
  /\ Current.kind = "function"
  /\ pending' = pending /\ NoMatch

-----------------------------------------------------------------------------
(* The snippet renderNode gives for n = init.  A value of None is the comment
   of a skipped assignment, `undefined` stands for a declaration without
   initializer too. *)
Undefined == [shape |-> "undefined", reads |-> {}]

Render(n, init, predeclared) ==
  IF init = None THEN Undefined
  ELSE IF \/ ~Safe(init)
          \/ ~predeclared /\ init.shape = "identifier" /\ init.reads \cap DOMAIN declared = {}
  THEN Fallback(init)
  ELSE IF Len(n) = 2 /\ init.shape # "prototype" /\ ~FunctionLike(init) THEN None
  ELSE init

(* An item of the stack: what is left to visit, then the snippet to emit. *)
Task(n, init, predeclared, deps) ==
  [deps |-> deps,
   snippet |-> [name |-> n, value |-> Render(n, init, predeclared), deps |-> deps]]

MetaTask(m) == Task(m.name, m.init, m.predeclared, m.deps)

MemberTasks(m) ==
  [k \in DOMAIN m.members |->
     LET s == source[m.members[k].at]
     IN Task(s.name, s.init, m.predeclared, m.members[k].deps)]

(* The analysis is over.  Both matched variables count as seen; only the nsig
   function is emitted. *)
StartBuild ==
  /\ phase = "analyze"
  /\ stopped \/ pos > Len(source)
  /\ phase' = "build"
  /\ tasks' = IF nsig = 0 THEN << >> ELSE <<MetaTask(pool[nsig])>>
  /\ seen' = {pool[i].name : i \in {nsig, sts} \ {0}}
  /\ out' = << >>
  /\ UNCHANGED <<file, kept, worklist, attempt, source, anVars, result>>

(* Mutant: dependencies are visited breadth first. *)
VisitLater(d) ==
  /\ phase = "build" /\ tasks # << >>
  /\ d \in Head(tasks).deps
  /\ seen' = seen \cup {d}
  /\ LET rest == <<[Head(tasks) EXCEPT !.deps = @ \ {d}]>> \o Tail(tasks)
     IN tasks' = IF d \in seen \/ d \notin DOMAIN declared THEN rest
                 ELSE LET m == pool[declared[d]]
                      IN rest \o <<MetaTask(m)>> \o MemberTasks(m)
  /\ UNCHANGED <<selVars, attempt, source, anVars, out, result>>

(* One round of the loop of visit.  The order among the dependencies of one
   variable is that of their names and left open. *)
Visit(d) ==
  /\ phase = "build" /\ tasks # << >>
  /\ d \in Head(tasks).deps
  /\ seen' = seen \cup {d}
  /\ LET rest == <<[Head(tasks) EXCEPT !.deps = @ \ {d}]>> \o Tail(tasks)
     IN tasks' = IF d \in seen \/ d \notin DOMAIN declared THEN rest
                 ELSE LET m == pool[declared[d]]
                      IN <<MetaTask(m)>> \o MemberTasks(m) \o rest
  /\ UNCHANGED <<selVars, attempt, source, anVars, out, result>>

Emit ==
  /\ phase = "build" /\ tasks # << >>
  /\ Head(tasks).deps = {}
  /\ out' = Append(out, Head(tasks).snippet)
  /\ tasks' = Tail(tasks)
  /\ UNCHANGED <<selVars, attempt, source, anVars, seen, result>>

(* The wrapper is exported if the matched declarator still holds a function. *)
Exported == nsig # 0 /\ FunctionLike(pool[nsig].init)

(* parseSts: the first timestamp in the text. *)
ParseSts(stmts) ==
  LET at == {i \in DOMAIN stmts : stmts[i].init # None /\ stmts[i].init.shape = "sts"}
  IN IF at = {} THEN None ELSE stmts[CHOOSE i \in at : \A j \in at : i <= j].name

MatchedSts == IF sts = 0 THEN None ELSE source[sts].name

(* The second attempt counts only if it found the function. *)
Answer == IF Exported \/ attempt = 1 THEN [ok |-> Exported, sts |-> MatchedSts] ELSE result

Timestamp ==
  IF Answer.sts # None THEN Answer.sts
  ELSE IF ParseSts(Reduced(file, kept)) # None THEN ParseSts(Reduced(file, kept))
  ELSE ParseSts(file)

Finish ==
  /\ phase = "build" /\ tasks = << >>
  /\ Exported \/ attempt = 2
  /\ phase' = "done"
  /\ result' = [ok |-> Exported, sts |-> Timestamp]
  /\ UNCHANGED <<file, kept, worklist, attempt, source, anVars, outVars>>

StartAnalysis(stmts) ==
  /\ source' = stmts
  /\ pos' = 1
  /\ pool' = << >> /\ declared' = << >>
  /\ nsig' = 0 /\ sts' = 0 /\ ready' = FALSE
  /\ pending' = None /\ stopped' = FALSE

(* selectClosure returns, and the reduced program is analysed. *)
AnalyzeReduced ==
  /\ SelectEnds
  /\ StartAnalysis(Reduced(file, kept))
  /\ UNCHANGED <<attempt, outVars, result>>

(* It held no nsig function: the whole file is tried. *)
AnalyzeFile ==
  /\ phase = "build" /\ tasks = << >>
  /\ ~Exported /\ attempt = 1
  /\ attempt' = 2
  /\ phase' = "analyze"
  /\ StartAnalysis(file)
  /\ tasks' = << >> /\ seen' = {} /\ out' = << >>
  /\ result' = Answer
  /\ UNCHANGED <<file, kept, worklist>>
-----------------------------------------------------------------------------
Init ==
  /\ SelInit
  /\ source = << >> /\ pos = 1 /\ pool = << >> /\ declared = << >>
  /\ nsig = 0 /\ sts = 0 /\ ready = FALSE /\ pending = None /\ stopped = FALSE
  /\ attempt = 1 /\ result = None
  /\ tasks = << >> /\ seen = {} /\ out = << >>

Select ==
  /\ Seed \/ \E r \in worklist : Follow(r)
  /\ UNCHANGED <<attempt, source, anVars, outVars, result>>

Analyze == DeclareVariable \/ AssignVariable \/ AssignMember \/ SkipStatement

Build == StartBuild \/ Emit \/ \E d \in IF tasks = << >> THEN {} ELSE Head(tasks).deps : Visit(d)

Next == Select \/ AnalyzeReduced \/ Analyze \/ Build \/ AnalyzeFile \/ Finish

Spec == Init /\ [][Next]_vars
FairSpec == Spec /\ WF_vars(Next)
-----------------------------------------------------------------------------
(* Types of the analyzer's tables and of the builder's stack. *)
Names == {file[r].name : r \in DOMAIN file}

TypeOK ==
  /\ phase \in {"seed", "select", "analyze", "build", "done"}
  /\ attempt \in {1, 2}
  /\ worklist \subseteq kept /\ kept \subseteq DOMAIN file
  /\ pos \in 1..(Len(source) + 1)
  /\ DOMAIN pool \subseteq 1..(pos - 1)
  /\ DOMAIN declared \subseteq Names
  /\ \A n \in DOMAIN declared : declared[n] \in DOMAIN pool /\ pool[declared[n]].name = n
  /\ {nsig, sts} \subseteq {0} \cup DOMAIN pool
  /\ ready \in BOOLEAN /\ stopped \in BOOLEAN
  /\ pending # None => pending.owner \in DOMAIN pool
  /\ \A k \in DOMAIN tasks : DOMAIN tasks[k] = {"deps", "snippet"}

(* The matched variable holds the nsig function: it was not assigned again. *)
FunctionInPlace == nsig # 0 /\ pool[nsig].init.shape = "nsig"

(* An early stop loses no dependency: when the analysis stops before the end
   of the text, everything the nsig function depends on, through any number
   of variables, is declared at that moment (onMatch, shouldStop). *)
StopIsResolved ==
  stopped /\ FunctionInPlace => Resolved(pool, declared, pool[nsig].deps)

(* The selector keeps what the extractor goes on to need: each statement of
   the file that declares or first assigns a dependency of an emitted
   definition was selected, although selector and analyzer find dependencies
   each in its own way.  They differ on
   - a timestamp region, which is kept without being followed;
   - a variable declared twice that reads a member of its own;
   - members of built-in names, and the name of the parameter alone;
   - the owner of X.prototype.m.n, to the analyzer X.m. *)
Covered(n, deps) ==
  (\A r \in DOMAIN file : SeedKind(file[r]) = "sts" => file[r].name # n) =>
    \A d \in deps :
      \/ Base(d) = n \/ Base(d) \in BuiltIns \/ d = Param
      \/ d = BaseName(n) /\ d \notin Prefixes(n)
      \/ NameToRegions(file, d) \subseteq kept

SelectionCovers ==
  attempt = 1 => \A k \in DOMAIN out : Covered(out[k].name, out[k].deps)

(* From one dependency to the next: what is emitted for n leads to these. *)
LeadsTo(n) ==
  LET m == pool[declared[n]]
  IN m.deps \cup UNION {m.members[k].deps \cup {source[m.members[k].at].name} : k \in DOMAIN m.members}

OnCycle(d, n) ==
  \A S \in SUBSET (Names \cup {n}) :
     d \in S /\ (\A e \in S \cap DOMAIN declared : LeadsTo(e) \cap Names \subseteq S) => n \in S

(* A definition stands after those it depends on, unless they also depend on
   it; only the matched variables themselves are not waited for. *)
EmittedInOrder ==
  phase = "done" =>
    \A k \in DOMAIN out :
      \A d \in out[k].deps \cap DOMAIN declared :
        \/ d \in {pool[i].name : i \in {nsig, sts} \ {0}}
        \/ \E j \in 1..(k-1) : out[j].name = d
        \/ OnCycle(d, out[k].name)

(* A variable that is declared with the nsig function and never assigned, or
   declared first and assigned once. *)
HoldsNsig(s) == s.kind # "function" /\ s.init # None /\ s.init.shape = "nsig"

GivenOnce(f, r) ==
  LET others == {q \in DOMAIN f : f[q].name = f[r].name} \ {r}
  IN \/ f[r].kind = "var" /\ others = {}
     \/ /\ f[r].kind = "assign" /\ ~Ignored(f[r].name)
        /\ \E v \in others : others = {v} /\ v < r /\ f[v].kind = "var"

(* The reduction never loses the function: from a file that has one, in a
   variable it is given to for good, it is extracted at the first attempt.
   (In a variable that is assigned again it may be lost to the reduced
   program and found in the whole file.)  A file with a timestamp gives one. *)
ExtractionSucceeds ==
  phase = "done" =>
    /\ /\ \E r \in DOMAIN file : HoldsNsig(file[r])
       /\ \A r \in DOMAIN file : HoldsNsig(file[r]) => GivenOnce(file, r)
       => attempt = 1 /\ result.ok
    /\ (\E r \in DOMAIN file : file[r].init # None /\ file[r].init.shape = "sts")
       => result.sts # None

(* Extraction ends although dependencies may be circular. *)
ExtractionEnds == <>(phase = "done")

(* What NSIG.md says of the emitted script, that it holds the full dependency
   closure: in a file that declares each name once and before it is assigned,
   no variable that is given a function is emitted as undefined. *)
WellDeclared ==
  \A i, j \in DOMAIN file :
     file[i].kind = "var" /\ file[j].name = file[i].name => 
       i = j \/ (file[j].kind = "assign" /\ i < j)

NoDefinitionLost ==
  phase = "done" /\ WellDeclared =>
    \A k \in DOMAIN out : \A r \in DOMAIN file :
      file[r].name = out[k].name /\ file[r].init # None /\ FunctionLike(file[r].init)
        => out[k].value # Undefined
=============================================================================
