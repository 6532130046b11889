-------------------------- MODULE NsigScriptProofs --------------------------
(***************************************************************************)
(* Proofs about the analysis and the script, for any files: the tables     *)
(* keep their types, the selection covers what is emitted, definitions     *)
(* stand in the order of their dependencies, and a function given once is  *)
(* extracted from the reduced program.                                     *)
(***************************************************************************)
EXTENDS NsigExtractProofs, SubsequencesProofs

(* The reduced program: where each of its statements stands in the file.    *)

Origin(g, f, keep) ==
  /\ \A k \in DOMAIN Reduced(f, keep) :
       /\ g[k] \in keep /\ g[k] \in DOMAIN f
       /\ Stubbed(f[g[k]]) => f[g[k]].kind = "var"
       /\ Reduced(f, keep)[k] = IF Stubbed(f[g[k]]) THEN Stub(f[g[k]]) ELSE f[g[k]]
  /\ \A k, l \in DOMAIN Reduced(f, keep) : k < l => g[k] < g[l]
  /\ \A r \in keep : (Stubbed(f[r]) => f[r].kind = "var")
       => \E k \in DOMAIN Reduced(f, keep) : g[k] = r

LEMMA ReducedShape ==
  ASSUME NEW f \in Files, NEW keep \in SUBSET Regions(f)
  PROVE  IsSeq(Reduced(f, keep)) /\ \E g : Origin(g, f, keep)
<1> DEFINE text == [r \in Regions(f) |-> IF Stubbed(f[r]) THEN Stub(f[r]) ELSE f[r]]
           I == {r \in keep : Stubbed(f[r]) => f[r].kind = "var"}
           S == {text[r] : r \in Regions(f)}
           g == [k \in 1..Cardinality(I) |-> Position(I, k)]
<1>1. Reduced(f, keep) = Picked(text, I)
  BY DEF Reduced
<1>2. Len(f) \in Nat /\ DOMAIN f = 1..Len(f)
  BY FilesAssumption, SeqShape
<1>3. DOMAIN text = DOMAIN f /\ \A r \in DOMAIN f : text[r] = IF Stubbed(f[r]) THEN Stub(f[r]) ELSE f[r]
  BY DEF Regions
<1>4. text \in Seq(S)
  BY <1>2, <1>3 DEF Regions
<1>5. /\ I \in SUBSET DOMAIN text /\ I \subseteq keep
      /\ \A r \in keep : r \in I <=> (Stubbed(f[r]) => f[r].kind = "var")
  BY <1>3 DEF Regions
<1> HIDE DEF text, S, I
<1>6. /\ Picked(text, I) \in Seq(S)
      /\ DOMAIN Picked(text, I) = 1..Cardinality(I)
      /\ \A k \in DOMAIN Picked(text, I) : Picked(text, I)[k] = text[g[k]]
  BY <1>4, <1>5, PickedProperties
<1>7. /\ \A k \in 1..Cardinality(I) : g[k] \in I
      /\ \A k, l \in 1..Cardinality(I) : k < l => g[k] < g[l]
      /\ \A i \in I : \E k \in 1..Cardinality(I) : g[k] = i
  <2>1. I \in SUBSET (1..Len(f))
    BY <1>2, <1>3, <1>5
  <2> QED
    BY <1>2, <2>1, PositionProperties
<1> HIDE DEF g
<1>8. Origin(g, f, keep)
  BY <1>1, <1>3, <1>5, <1>6, <1>7 DEF Origin
<1> QED
  BY <1>1, <1>6, <1>8, AnySeq

(* The stub of a declaration keeps the name and the kind, and holds nothing of interest.       *)
LEMMA StubShape ==
  ASSUME NEW s, IsStatement(s), Stubbed(s), s.kind = "var"
  PROVE  /\ IsStatement(Stub(s)) /\ Stub(s).name = s.name /\ Stub(s).kind = s.kind
         /\ Stub(s).init = Fallback(s.init)
         /\ Stub(s).init.shape \in {"{}", "undefined"} /\ Stub(s).init.reads = {}
         /\ SeedKind(s) \notin {"nsig", "sts"}
<1>1. /\ s = [kind |-> s.kind, name |-> s.name, init |-> s.init]
      /\ s.init # None /\ s.init.shape \in {"member", "call"}
  BY DEF IsStatement, Stubbed, DefinitelyStripped
<1>2. /\ Stub(s).name = s.name /\ Stub(s).kind = s.kind /\ Stub(s).init = Fallback(s.init)
      /\ Stub(s) = [kind |-> s.kind, name |-> s.name, init |-> Fallback(s.init)]
  BY <1>1 DEF Stub
<1>3. /\ Fallback(s.init).shape \in {"{}", "undefined"} /\ Fallback(s.init).reads = {}
      /\ Fallback(s.init) = [shape |-> Fallback(s.init).shape, reads |-> Fallback(s.init).reads]
  BY DEF Fallback
<1> HIDE DEF Stub, Fallback
<1>4. IsStatement(Stub(s))
  <2>1. s.kind \in {"var", "assign", "function"} /\ IsName(s.name)
        /\ (IsMember(s.name) => s.kind = "assign")
    BY DEF IsStatement
  <2> QED
    BY <1>1, <1>2, <1>3, <2>1 DEF IsStatement, Shapes
<1> QED
  BY <1>1, <1>2, <1>3, <1>4 DEF SeedKind

LEMMA ReducedStatements ==
  ASSUME NEW f \in Files, NEW keep \in SUBSET Regions(f)
  PROVE  \A k \in DOMAIN Reduced(f, keep) :
           /\ IsStatement(Reduced(f, keep)[k])
           /\ \E r \in DOMAIN f : Reduced(f, keep)[k].name = f[r].name
<1>1. PICK g : Origin(g, f, keep)
  BY ReducedShape
<1>2. \A r \in DOMAIN f : IsStatement(f[r])
  BY FilesAssumption
<1> SUFFICES ASSUME NEW k \in DOMAIN Reduced(f, keep)
             PROVE  /\ IsStatement(Reduced(f, keep)[k])
                    /\ \E r \in DOMAIN f : Reduced(f, keep)[k].name = f[r].name
  OBVIOUS
<1> DEFINE s == f[g[k]]
<1>3. /\ g[k] \in DOMAIN f /\ IsStatement(s) /\ (Stubbed(s) => s.kind = "var")
      /\ Reduced(f, keep)[k] = IF Stubbed(s) THEN Stub(s) ELSE s
  BY <1>1, <1>2 DEF Origin
<1> HIDE DEF s
<1>4. IsStatement(Reduced(f, keep)[k]) /\ Reduced(f, keep)[k].name = s.name
  BY <1>3, StubShape
<1> QED
  BY <1>3, <1>4 DEF s
-----------------------------------------------------------------------------
(* The tables of the analyzer.                                              *)

IsMeta(i, m) ==
  /\ m = [at |-> m.at, name |-> m.name, init |-> m.init, deps |-> m.deps,
          predeclared |-> m.predeclared, members |-> m.members]
  /\ m.name = source[i].name
  /\ IsSeq(m.members)
  /\ \A k \in DOMAIN m.members : m.members[k].at \in DOMAIN source

Tables(pl, dc) ==
  /\ \A i \in DOMAIN pl : i \in DOMAIN source /\ IsMeta(i, pl[i])
  /\ \A n \in DOMAIN dc : dc[n] \in DOMAIN pl /\ pl[dc[n]].name = n

TableInv ==
  /\ file \in Files
  /\ IsSeq(source)
  /\ \A i \in DOMAIN source : IsStatement(source[i]) /\ source[i].name \in Names
  /\ pos \in 1..(Len(source) + 1)
  /\ \A i \in DOMAIN pool : i < pos
  /\ Tables(pool, declared)
  /\ nsig \in {0} \cup DOMAIN pool /\ sts \in {0} \cup DOMAIN pool
  /\ pending # None => pending.owner \in DOMAIN pool

LEMMA NewMetaShape ==
  ASSUME NEW i, NEW deps
  PROVE  /\ IsMeta(i, NewMeta(i, deps))
         /\ NewMeta(i, deps).name = source[i].name /\ NewMeta(i, deps).init = source[i].init
         /\ NewMeta(i, deps).deps = deps /\ NewMeta(i, deps).members = << >>
BY EmptySeqShape DEF IsMeta, NewMeta

(* What a statement does to the tables, apart from onMatch. *)
LEMMA DeclareTables ==
  ASSUME NEW pl, NEW deps, Tables(pl, declared), pos \in DOMAIN source, pos \notin DOMAIN pl
  PROVE  Tables(Put(pl, pos, NewMeta(pos, deps)), Put(declared, Current.name, pos))
<1> DEFINE m == NewMeta(pos, deps)
           pl2 == Put(pl, pos, m)
           dc2 == Put(declared, Current.name, pos)
<1>1. IsMeta(pos, m) /\ m.name = Current.name
  BY NewMetaShape DEF Current
<1> HIDE DEF m
<1>2. /\ DOMAIN pl2 = DOMAIN pl \cup {pos} /\ pl2[pos] = m
      /\ \A i \in DOMAIN pl : pl2[i] = pl[i]
  BY DEF Put
<1>3. /\ DOMAIN dc2 = DOMAIN declared \cup {Current.name} /\ dc2[Current.name] = pos
      /\ \A n \in DOMAIN declared : n # Current.name => dc2[n] = declared[n]
  BY DEF Put
<1> HIDE DEF pl2, dc2
<1>4. Tables(pl2, dc2)
  BY <1>1, <1>2, <1>3 DEF Tables
<1> QED
  BY <1>4 DEF pl2, dc2, m

Patched(i, init, deps) == [pool EXCEPT ![i].init = init, ![i].deps = deps]

LEMMA PatchShape ==
  ASSUME Tables(pool, declared), NEW i \in DOMAIN pool, NEW init, NEW deps
  PROVE  /\ DOMAIN Patched(i, init, deps) = DOMAIN pool
         /\ \A j \in DOMAIN pool : j # i => Patched(i, init, deps)[j] = pool[j]
         /\ Patched(i, init, deps)[i].init = init /\ Patched(i, init, deps)[i].deps = deps
         /\ Patched(i, init, deps)[i].members = pool[i].members
         /\ Patched(i, init, deps)[i].name = pool[i].name
         /\ Tables(Patched(i, init, deps), declared)
<1> DEFINE m == pool[i]
           m2 == [at |-> m.at, name |-> m.name, init |-> init, deps |-> deps,
                  predeclared |-> m.predeclared, members |-> m.members]
<1>1. m = [at |-> m.at, name |-> m.name, init |-> m.init, deps |-> m.deps,
           predeclared |-> m.predeclared, members |-> m.members]
  BY DEF Tables, IsMeta
<1> HIDE DEF m
<1>2. [[m EXCEPT !.init = init] EXCEPT !.deps = deps] = m2
  <2> DEFINE m1 == [m EXCEPT !.init = init]
  <2>1. m1 = [at |-> m.at, name |-> m.name, init |-> init, deps |-> m.deps,
              predeclared |-> m.predeclared, members |-> m.members]
    BY <1>1
  <2> HIDE DEF m1
  <2>2. [m1 EXCEPT !.deps = deps] = m2
    BY <2>1
  <2> QED
    BY <2>2 DEF m1
<1>3. /\ DOMAIN Patched(i, init, deps) = DOMAIN pool
      /\ \A j \in DOMAIN pool : j # i => Patched(i, init, deps)[j] = pool[j]
      /\ Patched(i, init, deps)[i] = m2
  BY <1>2 DEF Patched, m
<1>4. IsMeta(i, m2)
  BY DEF Tables, IsMeta, m
<1>5. m2.name = pool[i].name /\ m2.members = pool[i].members /\ m2.init = init /\ m2.deps = deps
  BY DEF m
<1> HIDE DEF m2, Patched
<1>6. Tables(Patched(i, init, deps), declared)
  BY <1>3, <1>4, <1>5 DEF Tables
<1> QED
  BY <1>3, <1>5, <1>6

WithMember(o, entry) == [pool EXCEPT ![o].members = Append(@, entry)]

LEMMA MemberShape ==
  ASSUME Tables(pool, declared), NEW o \in DOMAIN pool, NEW entry, entry.at \in DOMAIN source
  PROVE  /\ DOMAIN WithMember(o, entry) = DOMAIN pool
         /\ \A j \in DOMAIN pool : j # o => WithMember(o, entry)[j] = pool[j]
         /\ WithMember(o, entry)[o].init = pool[o].init /\ WithMember(o, entry)[o].deps = pool[o].deps
         /\ WithMember(o, entry)[o].name = pool[o].name
         /\ \A k \in DOMAIN WithMember(o, entry)[o].members :
              \/ k \in DOMAIN pool[o].members /\ WithMember(o, entry)[o].members[k] = pool[o].members[k]
              \/ WithMember(o, entry)[o].members[k] = entry
         /\ Tables(WithMember(o, entry), declared)
<1> DEFINE m == pool[o]
           ms == Append(m.members, entry)
           m2 == [at |-> m.at, name |-> m.name, init |-> m.init, deps |-> m.deps,
                  predeclared |-> m.predeclared, members |-> ms]
<1>1. /\ m = [at |-> m.at, name |-> m.name, init |-> m.init, deps |-> m.deps,
              predeclared |-> m.predeclared, members |-> m.members]
      /\ IsSeq(m.members) /\ \A k \in DOMAIN m.members : m.members[k].at \in DOMAIN source
      /\ m.name = source[o].name
  BY DEF Tables, IsMeta
<1>2. /\ IsSeq(ms) /\ DOMAIN ms = DOMAIN m.members \cup {Len(m.members) + 1}
      /\ \A k \in DOMAIN m.members : ms[k] = m.members[k]
      /\ ms[Len(m.members) + 1] = entry
  BY <1>1, AppendShape
<1> HIDE DEF m, ms
<1>3. [m EXCEPT !.members = ms] = m2
  <2>1. m = [at |-> m.at, name |-> m.name, init |-> m.init, deps |-> m.deps,
             predeclared |-> m.predeclared, members |-> m.members]
    BY <1>1
  <2> QED
    BY <2>1
<1>4. /\ DOMAIN WithMember(o, entry) = DOMAIN pool
      /\ \A j \in DOMAIN pool : j # o => WithMember(o, entry)[j] = pool[j]
      /\ WithMember(o, entry)[o] = m2
  BY <1>3 DEF WithMember, m, ms
<1>5. IsMeta(o, m2)
  BY <1>1, <1>2 DEF IsMeta
<1> HIDE DEF m
<1>6. m2.name = m.name /\ m2.members = ms /\ m2.init = m.init /\ m2.deps = m.deps
  OBVIOUS
<1> HIDE DEF m2, WithMember
<1>7. Tables(WithMember(o, entry), declared)
  BY <1>4, <1>5, <1>6 DEF Tables, m
<1> QED
  BY <1>2, <1>4, <1>6, <1>7 DEF m

LEMMA OnMatchTables ==
  ASSUME TableInv, NEW pl, NEW dc, NEW i \in DOMAIN pl, OnMatch(pl, dc, i), Tables(pl, dc),
         DOMAIN pool \subseteq DOMAIN pl, source' = source
  PROVE  /\ Tables(pool, declared)' /\ DOMAIN pool' = DOMAIN pl
         /\ nsig' \in {0} \cup DOMAIN pool' /\ sts' \in {0} \cup DOMAIN pool'
<1>1. pool' = pl /\ declared' = dc
  BY DEF OnMatch
<1>2. nsig' \in {nsig, i} /\ sts' \in {sts, i}
  BY DEF OnMatch
<1>3. Tables(pool, declared)'
  BY <1>1 DEF Tables, IsMeta
<1> QED
  BY <1>1, <1>2, <1>3 DEF TableInv

(* One statement is analysed, the file and the program are as they were. *)
LEMMA AdvanceShape ==
  ASSUME TableInv, Advance
  PROVE  /\ pos \in DOMAIN source /\ pos \notin DOMAIN pool /\ pos' = pos + 1
         /\ pos' \in 1..(Len(source) + 1) /\ pos \in Nat
         /\ UNCHANGED <<phase, file, kept, source, attempt, tasks, seen, out, result>>
         /\ phase = "analyze" /\ ~stopped
<1>1. Len(source) \in Nat /\ DOMAIN source = 1..Len(source)
  BY SeqShape DEF TableInv
<1> QED
  BY <1>1 DEF TableInv, Advance, selVars, outVars

(* The table an assignment to a member leaves for onMatch. *)
BlockTable(pl) ==
  \/ pl = pool
  \/ \E deps : /\ deps = FindDependencies(Current.init)
              /\ \E o \in DOMAIN pool : pl = WithMember(o, [at |-> pos, deps |-> deps])

LEMMA BlockShape ==
  ASSUME TableInv, NEW pl, BlockTable(pl), pos \in DOMAIN source
  PROVE  /\ DOMAIN pl = DOMAIN pool /\ Tables(pl, declared)
         /\ \A i \in DOMAIN pool : /\ pl[i].init = pool[i].init /\ pl[i].deps = pool[i].deps
                                  /\ pl[i].name = pool[i].name
                                  /\ \A k \in DOMAIN pl[i].members :
                                       \/ k \in DOMAIN pool[i].members /\ pl[i].members[k] = pool[i].members[k]
                                       \/ pl[i].members[k] = [at |-> pos, deps |-> FindDependencies(Current.init)]
<1>1. CASE pl = pool
  BY <1>1 DEF TableInv
<1>2. ASSUME NEW o \in DOMAIN pool,
             pl = WithMember(o, [at |-> pos, deps |-> FindDependencies(Current.init)])
      PROVE  /\ DOMAIN pl = DOMAIN pool /\ Tables(pl, declared)
             /\ \A i \in DOMAIN pool : /\ pl[i].init = pool[i].init /\ pl[i].deps = pool[i].deps
                                  /\ pl[i].name = pool[i].name
                                  /\ \A k \in DOMAIN pl[i].members :
                                       \/ k \in DOMAIN pool[i].members /\ pl[i].members[k] = pool[i].members[k]
                                       \/ pl[i].members[k] = [at |-> pos, deps |-> FindDependencies(Current.init)]
  <2> DEFINE entry == [at |-> pos, deps |-> FindDependencies(Current.init)]
  <2>1. entry.at \in DOMAIN source
    OBVIOUS
  <2> HIDE DEF entry
  <2>2. pl = WithMember(o, entry)
    BY <1>2 DEF entry
  <2>3. \A i \in DOMAIN pool : /\ pl[i].init = pool[i].init /\ pl[i].deps = pool[i].deps
                            /\ pl[i].name = pool[i].name
                            /\ \A k \in DOMAIN pl[i].members :
                                 \/ k \in DOMAIN pool[i].members /\ pl[i].members[k] = pool[i].members[k]
                                 \/ pl[i].members[k] = entry
    <3> SUFFICES ASSUME NEW i \in DOMAIN pool
                 PROVE  /\ pl[i].init = pool[i].init /\ pl[i].deps = pool[i].deps
                        /\ pl[i].name = pool[i].name
                        /\ \A k \in DOMAIN pl[i].members :
                                 \/ k \in DOMAIN pool[i].members /\ pl[i].members[k] = pool[i].members[k]
                                 \/ pl[i].members[k] = entry
      OBVIOUS
    <3>1. CASE i = o
      BY <2>1, <2>2, <3>1, MemberShape DEF TableInv
    <3>2. CASE i # o
      <4>1. pl[i] = pool[i]
        BY <2>1, <2>2, <3>2, MemberShape DEF TableInv
      <4> QED
        BY <4>1
    <3> QED
      BY <3>1, <3>2
  <2>4. DOMAIN pl = DOMAIN pool /\ Tables(pl, declared)
    BY <2>1, <2>2, MemberShape DEF TableInv
  <2> QED
    BY <2>3, <2>4 DEF entry
<1> QED
  BY <1>1, <1>2 DEF BlockTable

(* What the three kinds of statements do to the tables. *)
DeclareStep(pl, deps) ==
  OnMatch(Put(pl, pos, NewMeta(pos, deps)), Put(declared, Current.name, pos), pos)

LEMMA DeclareShape ==
  ASSUME TableInv, DeclareVariable
  PROVE  /\ Advance /\ Current.kind = "var" /\ pending' = None
         /\ \E deps : /\ deps = {} \/ (Current.init # None /\ deps = FindDependencies(Current.init))
                     /\ DeclareStep(pool, deps)
<1> DEFINE deps == IF Current.init # None /\ NeedsAnalysis(Current.init)
                   THEN FindDependencies(Current.init) ELSE {}
<1>1. Advance /\ Current.kind = "var" /\ pending' = None /\ DeclareStep(pool, deps)
  BY DEF DeclareVariable, DeclareStep
<1>2. deps = {} \/ (Current.init # None /\ deps = FindDependencies(Current.init))
  OBVIOUS
<1> QED
  BY <1>1, <1>2

LEMMA AssignShape ==
  ASSUME TableInv, AssignVariable
  PROVE  /\ Advance /\ Current.kind = "assign" /\ ~IsMember(Current.name) /\ pending' = PendingAlias
         /\ \/ Current.name \notin DOMAIN declared /\ NoMatch
            \/ /\ Current.name \in DOMAIN declared
               /\ \E deps : /\ \/ deps = pool[declared[Current.name]].deps
                               \/ deps = FindDependencies(Current.init)
                           /\ OnMatch(Patched(declared[Current.name], Current.init, deps), declared,
                                      declared[Current.name])
<1>1. /\ Advance /\ Current.kind = "assign" /\ ~IsMember(Current.name) /\ pending' = PendingAlias
  BY DEF AssignVariable
<1>2. CASE Current.name \notin DOMAIN declared
  BY <1>1, <1>2 DEF AssignVariable
<1>3. CASE Current.name \in DOMAIN declared
  <2> DEFINE i == declared[Current.name]
             init == Current.init
             deps == IF NeedsAnalysis(init) THEN FindDependencies(init) ELSE pool[i].deps
             pl == [pool EXCEPT ![i].init = init,
                                ![i].deps = IF NeedsAnalysis(init) THEN FindDependencies(init) ELSE @]
  <2>1. OnMatch(pl, declared, i)
    BY <1>3 DEF AssignVariable
  <2>2. pl = Patched(i, init, deps)
    BY <1>3 DEF Patched, TableInv, Tables
  <2>3. deps = pool[i].deps \/ deps = FindDependencies(init)
    OBVIOUS
  <2> QED
    BY <1>1, <1>3, <2>1, <2>2, <2>3
<1> QED
  BY <1>2, <1>3

LEMMA AssignMemberShape ==
  ASSUME TableInv, AssignMember
  PROVE  /\ Advance /\ Current.kind = "assign" /\ IsMember(Current.name)
         /\ pending' # None => pending'.owner \in DOMAIN pool
         /\ \E pl : /\ BlockTable(pl)
                   /\ \/ pool' = pl /\ UNCHANGED <<declared, nsig, sts, ready, stopped>>
                      \/ /\ Current.name \notin DOMAIN declared
                         /\ DeclareStep(pl, FindDependencies(Current.init) \cup {BaseName(Current.name)})
<1> DEFINE n == Current.name
           block == PendingAlias
           inBlock == block # None /\ InBlock(n, block.alias)
           deps == FindDependencies(Current.init)
           pl == IF inBlock
                 THEN [pool EXCEPT ![block.owner].members = Append(@, [at |-> pos, deps |-> deps])]
                 ELSE pool
<1>1. /\ Advance /\ Current.kind = "assign" /\ IsMember(Current.name)
      /\ pending' = IF inBlock THEN block ELSE None
      /\ \/ pool' = pl /\ UNCHANGED <<declared, nsig, sts, ready, stopped>>
         \/ n \notin DOMAIN declared /\ DeclareStep(pl, deps \cup {BaseName(n)})
  BY DEF AssignMember, DeclareStep
<1>2. block # None => block.owner \in DOMAIN pool
  BY DEF PendingAlias, TableInv, Tables
<1>3. BlockTable(pl)
  <2>1. CASE inBlock
    BY <1>2, <2>1 DEF BlockTable, WithMember
  <2>2. CASE ~inBlock
    BY <2>2 DEF BlockTable
  <2> QED
    BY <2>1, <2>2
<1> HIDE DEF block, pl, inBlock
<1>4. pending' # None => pending'.owner \in DOMAIN pool
  BY <1>1, <1>2
<1> QED
  BY <1>1, <1>3, <1>4

LEMMA AnalyzeTables ==
  ASSUME TableInv, Advance,
         Tables(pool, declared)',
         DOMAIN pool' \subseteq DOMAIN pool \cup {pos}, DOMAIN pool \subseteq DOMAIN pool',
         nsig' \in {0} \cup DOMAIN pool', sts' \in {0} \cup DOMAIN pool',
         pending' # None => pending'.owner \in DOMAIN pool'
  PROVE  TableInv'
<1>1. /\ pos' = pos + 1 /\ pos' \in 1..(Len(source) + 1) /\ pos \in Nat
      /\ file' = file /\ source' = source
  BY AdvanceShape
<1>2. \A i \in DOMAIN pool' : i < pos'
  <2>1. \A i \in DOMAIN pool : i \in Nat
    <3>1. Len(source) \in Nat /\ DOMAIN source = 1..Len(source)
      BY SeqShape DEF TableInv
    <3> QED
      BY <3>1 DEF TableInv, Tables
  <2>2. \A i \in DOMAIN pool : i < pos + 1
    BY <1>1, <2>1 DEF TableInv
  <2>3. pos < pos + 1
    BY <1>1
  <2> QED
    BY <1>1, <2>2, <2>3
<1>3. file \in Files /\ IsSeq(source)
      /\ \A i \in DOMAIN source : IsStatement(source[i]) /\ source[i].name \in Names
  BY DEF TableInv
<1>4. Names' = Names
  BY <1>1 DEF Names
<1>5. (\A i \in DOMAIN source : IsStatement(source[i]) /\ source[i].name \in Names)'
  BY <1>1, <1>3, <1>4
<1> QED
  BY <1>1, <1>2, <1>3, <1>5 DEF TableInv

LEMMA SameTables ==
  ASSUME TableInv, UNCHANGED <<file, source, anVars>>
  PROVE  TableInv'
BY DEF TableInv, anVars, Tables, IsMeta, Names

LEMMA NewTables ==
  ASSUME NEW stmts, StartAnalysis(stmts), file' \in Files, IsSeq(stmts),
         \A i \in DOMAIN stmts : IsStatement(stmts[i]) /\ \E r \in DOMAIN file' : stmts[i].name = file'[r].name
  PROVE  TableInv'
<1>1. /\ source' = stmts /\ pos' = 1 /\ pool' = << >> /\ declared' = << >>
      /\ nsig' = 0 /\ sts' = 0 /\ pending' = None
  BY DEF StartAnalysis
<1>2. Len(stmts) \in Nat
  BY SeqShape
<1>3. DOMAIN << >> = {}
  BY EmptySeqShape
<1>4. \A i \in DOMAIN stmts : IsStatement(stmts[i]) /\ stmts[i].name \in Names'
  BY DEF Names
<1> QED
  BY <1>1, <1>2, <1>3, <1>4 DEF TableInv, Tables

LEMMA TableInit == Init => TableInv
<1> SUFFICES ASSUME Init PROVE TableInv
  OBVIOUS
<1>1. IsSeq(<< >>) /\ DOMAIN << >> = {} /\ Len(<< >>) = 0
  BY EmptySeqShape, EmptySeq
<1> QED
  BY <1>1 DEF Init, SelInit, TableInv, Tables

LEMMA DeclareStepTables ==
  ASSUME TableInv, Advance, NEW pl, NEW deps, DOMAIN pl = DOMAIN pool, Tables(pl, declared),
         DeclareStep(pl, deps)
  PROVE  /\ Tables(pool, declared)' /\ DOMAIN pool' = DOMAIN pool \cup {pos}
         /\ nsig' \in {0} \cup DOMAIN pool' /\ sts' \in {0} \cup DOMAIN pool'
<1> DEFINE pl2 == Put(pl, pos, NewMeta(pos, deps))
           dc2 == Put(declared, Current.name, pos)
<1>1. pos \in DOMAIN source /\ pos \notin DOMAIN pool /\ source' = source
  BY AdvanceShape
<1>2. Tables(pl2, dc2)
  BY <1>1, DeclareTables
<1>3. DOMAIN pl2 = DOMAIN pool \cup {pos}
  BY DEF Put
<1>4. OnMatch(pl2, dc2, pos)
  BY DEF DeclareStep
<1> HIDE DEF pl2, dc2
<1> QED
  BY <1>1, <1>2, <1>3, <1>4, OnMatchTables

LEMMA TableStep ==
  ASSUME TableInv, SelInv, [Next]_vars
  PROVE  TableInv'
<1>1. CASE DeclareVariable
  <2>1. PICK deps : Advance /\ pending' = None /\ DeclareStep(pool, deps)
    BY <1>1, DeclareShape
  <2>2. Tables(pool, declared)
    BY DEF TableInv
  <2> QED
    BY <2>1, <2>2, DeclareStepTables, AnalyzeTables
<1>2. CASE AssignVariable
  <2>1. Advance /\ pending' = PendingAlias
    BY <1>2, AssignShape
  <2>2. pending' # None => pending'.owner \in DOMAIN pool
    BY <2>1 DEF PendingAlias, TableInv, Tables
  <2>3. CASE NoMatch
    BY <2>1, <2>2, <2>3, AnalyzeTables, AdvanceShape DEF NoMatch, TableInv, Tables, IsMeta
  <2>4. CASE ~NoMatch
    <3> DEFINE i == declared[Current.name]
    <3>1. PICK deps : OnMatch(Patched(i, Current.init, deps), declared, i) /\ i \in DOMAIN pool
      BY <1>2, <2>4, AssignShape DEF TableInv, Tables
    <3> HIDE DEF i
    <3>2. Tables(pool, declared) /\ source' = source
      BY <2>1, AdvanceShape DEF TableInv
    <3> DEFINE pl == Patched(i, Current.init, deps)
    <3>3. DOMAIN pl = DOMAIN pool /\ Tables(pl, declared)
      BY <3>1, <3>2, PatchShape
    <3> HIDE DEF pl
    <3>4. OnMatch(pl, declared, i)
      BY <3>1 DEF pl
    <3> QED
      BY <2>1, <2>2, <3>1, <3>2, <3>3, <3>4, OnMatchTables, AnalyzeTables
  <2> QED
    BY <2>3, <2>4
<1>3. CASE AssignMember
  <2>1. PICK pl : /\ BlockTable(pl)
                  /\ \/ pool' = pl /\ UNCHANGED <<declared, nsig, sts, ready, stopped>>
                     \/ DeclareStep(pl, FindDependencies(Current.init) \cup {BaseName(Current.name)})
    BY <1>3, AssignMemberShape
  <2>2. Advance /\ (pending' # None => pending'.owner \in DOMAIN pool)
    BY <1>3, AssignMemberShape
  <2>3. pos \in DOMAIN source /\ source' = source
    BY <2>2, AdvanceShape
  <2>4. DOMAIN pl = DOMAIN pool /\ Tables(pl, declared)
    BY <2>1, <2>3, BlockShape
  <2>5. CASE pool' = pl /\ UNCHANGED <<declared, nsig, sts, ready, stopped>>
    <3>1. Tables(pool, declared)'
      BY <2>3, <2>4, <2>5 DEF Tables, IsMeta
    <3> QED
      BY <2>2, <2>4, <2>5, <3>1, AnalyzeTables DEF TableInv
  <2>6. CASE DeclareStep(pl, FindDependencies(Current.init) \cup {BaseName(Current.name)})
    BY <2>2, <2>4, <2>6, DeclareStepTables, AnalyzeTables
  <2> QED
    BY <2>1, <2>5, <2>6
<1>4. CASE SkipStatement
  BY <1>4, AnalyzeTables, AdvanceShape DEF SkipStatement, NoMatch, TableInv, Tables, IsMeta
<1>5. CASE Select
  BY <1>5, SameTables DEF Select, Seed, Follow
<1>6. CASE AnalyzeReduced
  <2>1. StartAnalysis(Reduced(file, kept)) /\ file' = file /\ file \in Files /\ kept \in SUBSET Regions(file)
    BY <1>6 DEF AnalyzeReduced, SelectEnds, TableInv, SelInv
  <2> QED
    BY <2>1, ReducedShape, ReducedStatements, NewTables
<1>7. CASE AnalyzeFile
  <2>1. StartAnalysis(file) /\ file' = file /\ file \in Files
    BY <1>7 DEF AnalyzeFile, TableInv
  <2>2. IsSeq(file) /\ \A i \in DOMAIN file : IsStatement(file[i])
    BY <2>1, FilesAssumption
  <2> QED
    BY <2>1, <2>2, NewTables
<1>8. CASE Build \/ Finish \/ UNCHANGED vars
  <2>1. UNCHANGED <<file, source, anVars>>
    BY <1>8 DEF Build, StartBuild, Emit, Visit, Finish, vars, selVars
  <2> QED
    BY <2>1, SameTables
<1> QED
  BY <1>1, <1>2, <1>3, <1>4, <1>5, <1>6, <1>7, <1>8 DEF Next, Analyze

(* The selection's invariant and the tables' hold together. *)
THEOREM TableInvariance == Spec => [](SelInv /\ TableInv)
<1>1. Spec => []SelInv
  BY ExtractSelects, SelInvariance, PTL
<1>2. Init => TableInv
  BY TableInit
<1>3. TableInv /\ SelInv /\ [Next]_vars => TableInv'
  BY TableStep
<1> QED
  BY <1>1, <1>2, <1>3, PTL DEF Spec
-----------------------------------------------------------------------------
(* The builder's stack and what it has emitted.                            *)

IsTask(t) ==
  /\ t = [deps |-> t.deps, snippet |-> t.snippet]
  /\ t.snippet = [name |-> t.snippet.name, value |-> t.snippet.value, deps |-> t.snippet.deps]

TaskInv ==
  /\ IsSeq(tasks) /\ IsSeq(out)
  /\ \A k \in DOMAIN tasks : IsTask(tasks[k])

LEMMA TaskShape ==
  ASSUME NEW n, NEW init, NEW pre, NEW deps
  PROVE  /\ IsTask(Task(n, init, pre, deps)) /\ Task(n, init, pre, deps).deps = deps
         /\ Task(n, init, pre, deps).snippet = [name |-> n, value |-> Render(n, init, pre), deps |-> deps]
<1> DEFINE value == Render(n, init, pre)
<1>1. Task(n, init, pre, deps) = [deps |-> deps, snippet |-> [name |-> n, value |-> value, deps |-> deps]]
  BY DEF Task
<1> HIDE DEF value
<1>2. IsTask(Task(n, init, pre, deps))
  BY <1>1 DEF IsTask
<1> QED
  BY <1>1, <1>2 DEF value

LEMMA MetaTaskShape ==
  ASSUME NEW m
  PROVE  /\ IsTask(MetaTask(m)) /\ MetaTask(m).snippet.name = m.name
         /\ MetaTask(m).deps = m.deps /\ MetaTask(m).snippet.deps = m.deps
<1> DEFINE n == m.name
           init == m.init
           pre == m.predeclared
           deps == m.deps
<1>1. MetaTask(m) = Task(n, init, pre, deps)
  BY DEF MetaTask
<1> HIDE DEF n, init, pre, deps
<1>2. /\ IsTask(MetaTask(m)) /\ MetaTask(m).deps = deps
      /\ MetaTask(m).snippet = [name |-> n, value |-> Render(n, init, pre), deps |-> deps]
  BY <1>1, TaskShape
<1>3. MetaTask(m).snippet.name = n /\ MetaTask(m).snippet.deps = deps
  BY <1>2
<1> QED
  BY <1>2, <1>3 DEF n, deps

(* The items pushed for the variable of m: first its own, then one for each
   member put down for it. *)
Pushed(m) == <<MetaTask(m)>> \o MemberTasks(m)

LEMMA PushedShape ==
  ASSUME NEW m, IsSeq(m.members)
  PROVE  /\ IsSeq(Pushed(m)) /\ 1 \in DOMAIN Pushed(m)
         /\ \A k \in DOMAIN Pushed(m) : IsTask(Pushed(m)[k])
         /\ Pushed(m)[1].snippet.name = m.name
         /\ \A k \in DOMAIN Pushed(m) :
              \/ /\ Pushed(m)[k].snippet.name = m.name
                 /\ Pushed(m)[k].deps = m.deps /\ Pushed(m)[k].snippet.deps = m.deps
              \/ \E j \in DOMAIN m.members :
                   /\ Pushed(m)[k].snippet.name = source[m.members[j].at].name
                   /\ Pushed(m)[k].deps = m.members[j].deps
                   /\ Pushed(m)[k].snippet.deps = m.members[j].deps
<1> DEFINE more == MemberTasks(m)
           S == {more[k] : k \in DOMAIN m.members}
<1>1. /\ IsTask(MetaTask(m)) /\ MetaTask(m).snippet.name = m.name
      /\ MetaTask(m).deps = m.deps /\ MetaTask(m).snippet.deps = m.deps
  BY MetaTaskShape
<1>2. DOMAIN more = DOMAIN m.members
  BY DEF MemberTasks
<1>3. \A j \in DOMAIN more :
         /\ IsTask(more[j]) /\ more[j].snippet.name = source[m.members[j].at].name
         /\ more[j].deps = m.members[j].deps /\ more[j].snippet.deps = m.members[j].deps
  <2> SUFFICES ASSUME NEW j \in DOMAIN m.members
               PROVE  /\ IsTask(more[j]) /\ more[j].snippet.name = source[m.members[j].at].name
                      /\ more[j].deps = m.members[j].deps /\ more[j].snippet.deps = m.members[j].deps
    BY <1>2
  <2> DEFINE s == source[m.members[j].at]
             deps == m.members[j].deps
             init == s.init
             n == s.name
             pre == m.predeclared
  <2>1. more[j] = Task(n, init, pre, deps)
    BY DEF MemberTasks
  <2> HIDE DEF more, n, init, pre, deps, s
  <2>2. /\ IsTask(more[j]) /\ more[j].deps = deps
        /\ more[j].snippet = [name |-> n, value |-> Render(n, init, pre), deps |-> deps]
    BY <2>1, TaskShape
  <2>3. more[j].snippet.name = n /\ more[j].snippet.deps = deps
    BY <2>2
  <2> QED
    BY <2>2, <2>3 DEF n, deps, s
<1>4. Len(m.members) \in Nat /\ DOMAIN m.members = 1..Len(m.members)
  BY SeqShape
<1>5. more \in Seq(S)
  BY <1>4 DEF MemberTasks
<1>6. IsSeq(more)
  BY <1>5, AnySeq
<1> HIDE DEF more
<1>7. Pushed(m) = <<MetaTask(m)>> \o more
  BY DEF Pushed, more
<1>8. /\ IsSeq(Pushed(m)) /\ 1 \in DOMAIN Pushed(m) /\ Pushed(m)[1] = MetaTask(m)
      /\ \A k \in DOMAIN Pushed(m) :
           k = 1 \/ (k \in Nat /\ k - 1 \in DOMAIN more /\ Pushed(m)[k] = more[k - 1])
  BY <1>6, <1>7, ConsShape
<1>9. \A k \in DOMAIN Pushed(m) :
         Pushed(m)[k] = MetaTask(m) \/ \E j \in DOMAIN m.members : Pushed(m)[k] = more[j]
  BY <1>2, <1>8
<1> QED
  BY <1>1, <1>2, <1>3, <1>8, <1>9

(* The stack after a visit: the head has one dependency less to wait for, and
   the items of the variable it names may have been put before it. *)
Rest(d, rest) ==
  /\ IsSeq(rest) /\ DOMAIN rest = DOMAIN tasks
  /\ IsTask(rest[1]) /\ rest[1].deps = tasks[1].deps \ {d} /\ rest[1].snippet = tasks[1].snippet
  /\ \A k \in DOMAIN tasks : k # 1 => rest[k] = tasks[k]

LEMMA RestShape ==
  ASSUME TaskInv, tasks # << >>, NEW d
  PROVE  Rest(d, <<[Head(tasks) EXCEPT !.deps = @ \ {d}]>> \o Tail(tasks))
<1> DEFINE h == tasks[1]
           h2 == [deps |-> h.deps \ {d}, snippet |-> h.snippet]
           rest == <<h2>> \o Tail(tasks)
<1>1. /\ Head(tasks) = h /\ 1 \in DOMAIN tasks /\ IsSeq(Tail(tasks))
      /\ \A k \in DOMAIN Tail(tasks) : k \in Nat /\ k + 1 \in DOMAIN tasks /\ Tail(tasks)[k] = tasks[k + 1]
      /\ \A k \in DOMAIN tasks : k = 1 \/ (k - 1 \in DOMAIN Tail(tasks) /\ Tail(tasks)[k - 1] = tasks[k])
  BY HeadTailShape DEF TaskInv
<1>2. IsTask(h)
  BY <1>1 DEF TaskInv
<1> HIDE DEF h
<1>3. [Head(tasks) EXCEPT !.deps = @ \ {d}] = h2
  <2>1. h = [deps |-> h.deps, snippet |-> h.snippet]
    BY <1>2 DEF IsTask
  <2> DEFINE left == h.deps \ {d}
  <2>2. [h EXCEPT !.deps = @ \ {d}] = [h EXCEPT !.deps = left]
    OBVIOUS
  <2> HIDE DEF left
  <2>3. [h EXCEPT !.deps = left] = [deps |-> left, snippet |-> h.snippet]
    BY <2>1
  <2> QED
    BY <1>1, <2>2, <2>3 DEF left
<1>4. IsTask(h2) /\ h2.deps = h.deps \ {d} /\ h2.snippet = h.snippet
  BY <1>2 DEF IsTask
<1> HIDE DEF h2
<1>5. /\ IsSeq(rest) /\ 1 \in DOMAIN rest /\ rest[1] = h2
      /\ \A k \in DOMAIN Tail(tasks) : k \in Nat /\ k + 1 \in DOMAIN rest /\ rest[k + 1] = Tail(tasks)[k]
      /\ \A k \in DOMAIN rest :
           k = 1 \/ (k \in Nat /\ k - 1 \in DOMAIN Tail(tasks) /\ rest[k] = Tail(tasks)[k - 1])
  BY <1>1, ConsShape
<1> HIDE DEF rest
<1>6. ASSUME NEW k \in DOMAIN tasks, k # 1 PROVE k \in DOMAIN rest /\ rest[k] = tasks[k]
  <2>1. k - 1 \in DOMAIN Tail(tasks) /\ Tail(tasks)[k - 1] = tasks[k]
    BY <1>1, <1>6
  <2>2. (k - 1) + 1 = k
    BY SeqShape DEF TaskInv
  <2>3. (k - 1) + 1 \in DOMAIN rest /\ rest[(k - 1) + 1] = Tail(tasks)[k - 1]
    BY <1>5, <2>1
  <2> QED
    BY <2>1, <2>2, <2>3
<1>7. ASSUME NEW k \in DOMAIN rest, k # 1 PROVE k \in DOMAIN tasks
  <2>1. k \in Nat /\ k - 1 \in DOMAIN Tail(tasks) /\ (k - 1) + 1 = k
    BY <1>5, <1>7
  <2>2. (k - 1) + 1 \in DOMAIN tasks
    BY <1>1, <2>1
  <2> QED
    BY <2>1, <2>2
<1>8. DOMAIN rest = DOMAIN tasks
  BY <1>1, <1>5, <1>6, <1>7
<1>9. Rest(d, rest)
  BY <1>4, <1>5, <1>6, <1>8 DEF Rest, h
<1> QED
  BY <1>3, <1>9 DEF rest

LEMMA VisitShape ==
  ASSUME TaskInv, NEW d, Visit(d)
  PROVE  /\ phase = "build" /\ phase' = phase /\ 1 \in DOMAIN tasks /\ d \in tasks[1].deps
         /\ seen' = seen \cup {d}
         /\ UNCHANGED <<file, kept, source, attempt, anVars, out, result>>
         /\ \E rest : /\ Rest(d, rest)
                     /\ \/ /\ d \in seen \/ d \notin DOMAIN declared
                           /\ tasks' = rest
                        \/ /\ d \notin seen /\ d \in DOMAIN declared
                           /\ tasks' = Pushed(pool[declared[d]]) \o rest
<1> DEFINE rest == <<[Head(tasks) EXCEPT !.deps = @ \ {d}]>> \o Tail(tasks)
<1>1. /\ phase = "build" /\ tasks # << >> /\ d \in Head(tasks).deps /\ seen' = seen \cup {d}
      /\ phase' = phase /\ UNCHANGED <<file, kept, source, attempt, anVars, out, result>>
  BY DEF Visit, selVars
<1>2. Head(tasks) = tasks[1] /\ 1 \in DOMAIN tasks
  BY <1>1, HeadTailShape DEF TaskInv
<1>3. Rest(d, rest)
  BY <1>1, RestShape
<1>4. tasks' = IF d \in seen \/ d \notin DOMAIN declared THEN rest
               ELSE Pushed(pool[declared[d]]) \o rest
  BY DEF Visit, Pushed
<1> HIDE DEF rest
<1>5. CASE d \in seen \/ d \notin DOMAIN declared
  BY <1>1, <1>2, <1>3, <1>4, <1>5
<1>6. CASE ~(d \in seen \/ d \notin DOMAIN declared)
  BY <1>1, <1>2, <1>3, <1>4, <1>6
<1> QED
  BY <1>5, <1>6

LEMMA RestTasks ==
  ASSUME TaskInv, NEW d, NEW rest, Rest(d, rest)
  PROVE  IsSeq(rest) /\ \A k \in DOMAIN rest : IsTask(rest[k])
BY DEF TaskInv, Rest

(* A step of the builder shows what is on the stack before and after. *)
LEMMA EmitShape ==
  ASSUME TaskInv, Emit
  PROVE  /\ phase = "build" /\ phase' = phase /\ 1 \in DOMAIN tasks /\ tasks[1].deps = {}
         /\ out' = Append(out, tasks[1].snippet) /\ tasks' = Tail(tasks)
         /\ UNCHANGED <<file, kept, source, attempt, anVars, seen, result>>
<1>1. phase = "build" /\ tasks # << >>
  BY DEF Emit
<1>2. Head(tasks) = tasks[1] /\ 1 \in DOMAIN tasks
  BY <1>1, HeadTailShape DEF TaskInv
<1> QED
  BY <1>1, <1>2 DEF Emit, selVars

LEMMA StartBuildShape ==
  ASSUME TableInv, StartBuild
  PROVE  /\ IsSeq(tasks') /\ \A k \in DOMAIN tasks' : k = 1 /\ nsig # 0 /\ tasks'[k] = MetaTask(pool[nsig])
         /\ seen' = {pool[i].name : i \in {nsig, sts} \ {0}} /\ out' = << >>
         /\ nsig # 0 => tasks' = <<MetaTask(pool[nsig])>>
         /\ phase = "analyze" /\ phase' = "build" /\ (stopped \/ pos > Len(source))
         /\ UNCHANGED <<file, kept, source, attempt, anVars, result>>
<1>1. CASE nsig = 0
  <2>1. tasks' = << >>
    BY <1>1 DEF StartBuild
  <2> QED
    BY <1>1, <2>1, EmptySeqShape DEF StartBuild
<1>2. CASE nsig # 0
  <2> DEFINE t == MetaTask(pool[nsig])
  <2>1. tasks' = <<t>>
    BY <1>2 DEF StartBuild
  <2> HIDE DEF t
  <2>2. <<t>> \in Seq({t}) /\ DOMAIN <<t>> = 1..1 /\ <<t>>[1] = t
    OBVIOUS
  <2>3. IsSeq(tasks')
    BY <2>1, <2>2, AnySeq
  <2>4. \A k \in DOMAIN tasks' : k = 1 /\ tasks'[k] = t
    BY <2>1, <2>2
  <2> QED
    BY <1>2, <2>1, <2>3, <2>4 DEF StartBuild, t
<1> QED
  BY <1>1, <1>2

LEMMA TaskInit == Init => TaskInv
BY EmptySeqShape DEF Init, TaskInv

LEMMA TaskStep ==
  ASSUME TableInv, TaskInv, [Next]_vars
  PROVE  TaskInv'
<1>1. CASE StartBuild
  <2>1. \A m : IsTask(MetaTask(m))
    BY MetaTaskShape
  <2>2. IsSeq(tasks') /\ (\A k \in DOMAIN tasks' : IsTask(tasks'[k])) /\ out' = << >>
    BY <1>1, <2>1, StartBuildShape
  <2> QED
    BY <2>2, EmptySeqShape DEF TaskInv
<1>2. CASE Emit
  <2>1. 1 \in DOMAIN tasks /\ tasks # << >> /\ out' = Append(out, tasks[1].snippet) /\ tasks' = Tail(tasks)
    BY <1>2, EmitShape, EmptySeqShape
  <2>2. IsSeq(out')
    BY <2>1, AppendShape DEF TaskInv
  <2>3. IsSeq(Tail(tasks)) /\ \A k \in DOMAIN Tail(tasks) : k + 1 \in DOMAIN tasks /\ Tail(tasks)[k] = tasks[k + 1]
    BY <2>1, HeadTailShape DEF TaskInv
  <2> QED
    BY <2>1, <2>2, <2>3 DEF TaskInv
<1>3. ASSUME NEW d, Visit(d) PROVE TaskInv'
  <2>1. PICK rest : /\ Rest(d, rest)
                    /\ \/ tasks' = rest
                       \/ d \in DOMAIN declared /\ tasks' = Pushed(pool[declared[d]]) \o rest
    BY <1>3, VisitShape
  <2>2. IsSeq(rest) /\ \A k \in DOMAIN rest : IsTask(rest[k])
    BY <2>1, RestTasks
  <2>3. out' = out
    BY <1>3, VisitShape
  <2>4. CASE tasks' = rest
    BY <2>2, <2>3, <2>4 DEF TaskInv
  <2>5. CASE d \in DOMAIN declared /\ tasks' = Pushed(pool[declared[d]]) \o rest
    <3> DEFINE new == Pushed(pool[declared[d]])
    <3>1. IsSeq(pool[declared[d]].members)
      BY <2>5 DEF TableInv, Tables, IsMeta
    <3>2. IsSeq(new) /\ \A k \in DOMAIN new : IsTask(new[k])
      BY <3>1, PushedShape
    <3> HIDE DEF new
    <3>3. IsSeq(new \o rest)
      BY <2>2, <3>2, ConcatShape
    <3>4. \A k \in DOMAIN (new \o rest) :
            \/ k \in DOMAIN new /\ (new \o rest)[k] = new[k]
            \/ /\ k - Len(new) \in DOMAIN rest /\ k = Len(new) + (k - Len(new)) /\ k > Len(new)
               /\ (new \o rest)[k] = rest[k - Len(new)]
      BY <2>2, <3>2, ConcatShape
    <3>5. \A k \in DOMAIN (new \o rest) : IsTask((new \o rest)[k])
      BY <2>2, <3>2, <3>4
    <3>6. tasks' = new \o rest
      BY <2>5 DEF new
    <3> QED
      BY <2>3, <3>3, <3>5, <3>6 DEF TaskInv
  <2> QED
    BY <2>1, <2>4, <2>5
<1>4. CASE AnalyzeFile
  BY <1>4, EmptySeqShape DEF AnalyzeFile, TaskInv
<1>5. CASE Select \/ AnalyzeReduced \/ Analyze \/ Finish \/ UNCHANGED vars
  <2>1. UNCHANGED <<tasks, out>>
    BY <1>5 DEF Select, AnalyzeReduced, Analyze, DeclareVariable, AssignVariable, AssignMember,
                SkipStatement, Advance, Finish, outVars, vars
  <2> QED
    BY <2>1 DEF TaskInv
<1> QED
  BY <1>1, <1>2, <1>3, <1>4, <1>5 DEF Next, Build

(* What TypeOK says of the rest. *)
FlagInv ==
  /\ phase \in {"seed", "select", "analyze", "build", "done"}
  /\ attempt \in {1, 2}
  /\ ready \in BOOLEAN /\ stopped \in BOOLEAN

LEMMA FlagStep ==
  ASSUME FlagInv, [Next]_vars
  PROVE  FlagInv'
<1>1. ASSUME NEW pl, NEW dc, NEW i, OnMatch(pl, dc, i) PROVE ready' \in BOOLEAN /\ stopped' \in BOOLEAN
  <2>1. ready \in BOOLEAN
    BY DEF FlagInv
  <2>2. ready' \in BOOLEAN
    <3>1. CASE nsig' = 0
      BY <1>1, <3>1 DEF OnMatch
    <3>2. CASE nsig' # 0 /\ nsig = i
      BY <1>1, <2>1, <3>2 DEF OnMatch
    <3>3. CASE nsig' # 0 /\ nsig # i
      <4>1. Resolved(pl, dc, pl[nsig'].deps) \in BOOLEAN
        BY DEF Resolved
      <4> QED
        BY <1>1, <3>3, <4>1 DEF OnMatch
    <3> QED
      BY <3>1, <3>2, <3>3
  <2>3. stopped' \in BOOLEAN
    BY <1>1 DEF OnMatch
  <2> QED
    BY <2>2, <2>3
<1>2. CASE Analyze
  <2>1. UNCHANGED <<phase, attempt>>
    BY <1>2 DEF Analyze, DeclareVariable, AssignVariable, AssignMember, SkipStatement, Advance, selVars
  <2>2. UNCHANGED <<ready, stopped>> \/ \E pl, dc, i : OnMatch(pl, dc, i)
    <3>1. CASE DeclareVariable
      BY <3>1 DEF DeclareVariable
    <3>2. CASE AssignVariable
      BY <3>2 DEF AssignVariable, NoMatch
    <3>3. CASE AssignMember
      BY <3>3 DEF AssignMember
    <3>4. CASE SkipStatement
      BY <3>4 DEF SkipStatement, NoMatch
    <3> QED
      BY <1>2, <3>1, <3>2, <3>3, <3>4 DEF Analyze
  <2>3. ready' \in BOOLEAN /\ stopped' \in BOOLEAN
    <3>1. CASE UNCHANGED <<ready, stopped>>
      BY <3>1 DEF FlagInv
    <3>2. CASE \E pl, dc, i : OnMatch(pl, dc, i)
      BY <3>2, <1>1
    <3> QED
      BY <2>2, <3>1, <3>2
  <2> QED
    BY <2>1, <2>3 DEF FlagInv
<1>3. CASE Select
  BY <1>3 DEF Select, Seed, Follow, anVars, FlagInv
<1>4. CASE AnalyzeReduced \/ AnalyzeFile
  BY <1>4 DEF AnalyzeReduced, SelectEnds, AnalyzeFile, StartAnalysis, FlagInv
<1>5. CASE Build \/ Finish
  BY <1>5 DEF Build, StartBuild, Emit, Visit, Finish, selVars, anVars, FlagInv
<1>6. CASE UNCHANGED vars
  BY <1>6 DEF vars, selVars, anVars, FlagInv
<1> QED
  BY <1>2, <1>3, <1>4, <1>5, <1>6 DEF Next

(* The tables and the stack of the builder have their types at every point,
   whatever the file: ids are of statements that made a VarMeta, names of
   declared variables agree, members and snippets are well formed. *)
THEOREM ScriptInvariance == Spec => [](SelInv /\ TableInv /\ TaskInv)
<1>1. Spec => [](SelInv /\ TableInv)
  BY TableInvariance
<1>2. Init => TaskInv
  BY TaskInit
<1>3. TableInv /\ TaskInv /\ [Next]_vars => TaskInv'
  BY TaskStep
<1> QED
  BY <1>1, <1>2, <1>3, PTL DEF Spec

(* The tables and the stack have their types, whatever files come in. *)
THEOREM ScriptTypes == Spec => []TypeOK
<1>1. Init => FlagInv
  BY DEF Init, SelInit, FlagInv
<1>2. FlagInv /\ [Next]_vars => FlagInv'
  BY FlagStep
<1>3. SelInv /\ TableInv /\ TaskInv /\ FlagInv => TypeOK
  <2> SUFFICES ASSUME SelInv, TableInv, TaskInv, FlagInv PROVE TypeOK
    OBVIOUS
  <2>1. Len(source) \in Nat /\ DOMAIN source = 1..Len(source)
    BY SeqShape DEF TableInv
  <2>2. DOMAIN pool \subseteq 1..(pos - 1)
    BY <2>1 DEF TableInv, Tables
  <2>3. DOMAIN declared \subseteq Names
    BY DEF TableInv, Tables, IsMeta
  <2>4. \A k \in DOMAIN tasks : DOMAIN tasks[k] = {"deps", "snippet"}
    <3> SUFFICES ASSUME NEW k \in DOMAIN tasks PROVE DOMAIN tasks[k] = {"deps", "snippet"}
      OBVIOUS
    <3> DEFINE t == tasks[k]
    <3>1. IsTask(t)
      BY DEF TaskInv
    <3> HIDE DEF t
    <3>2. t = [deps |-> t.deps, snippet |-> t.snippet]
      BY <3>1 DEF IsTask
    <3>3. DOMAIN [deps |-> t.deps, snippet |-> t.snippet] = {"deps", "snippet"}
      OBVIOUS
    <3>4. DOMAIN t = {"deps", "snippet"}
      BY <3>2, <3>3
    <3> QED
      BY <3>4 DEF t
  <2>5. worklist \subseteq kept /\ kept \subseteq DOMAIN file
    BY DEF SelInv, Regions
  <2>6. /\ pos \in 1..(Len(source) + 1)
        /\ \A n \in DOMAIN declared : declared[n] \in DOMAIN pool /\ pool[declared[n]].name = n
        /\ {nsig, sts} \subseteq {0} \cup DOMAIN pool
        /\ pending # None => pending.owner \in DOMAIN pool
    BY DEF TableInv, Tables
  <2> QED
    BY <2>2, <2>3, <2>4, <2>5, <2>6, Zenon DEF TypeOK, FlagInv
<1> QED
  BY <1>1, <1>2, <1>3, ScriptInvariance, PTL DEF Spec
-----------------------------------------------------------------------------
(* The order of the definitions.  A declared name that was visited is
   emitted, or its definition waits on the stack; then everything above it
   and everything still to be visited from there was reached from it.       *)

MatchedNames == {pool[i].name : i \in {nsig, sts} \ {0}}

Reached(d, t) == OnCycle(d, t.snippet.name) /\ \A e \in t.deps \cap Names : OnCycle(d, e)

Emitted(d) == \E j \in DOMAIN out : out[j].name = d

Waiting(d) ==
  \E q \in DOMAIN tasks :
    /\ tasks[q].snippet.name = d
    /\ \A p \in DOMAIN tasks : p <= q => Reached(d, tasks[p])

InPlace(k) ==
  \A d \in out[k].deps \cap DOMAIN declared :
    \/ d \in MatchedNames
    \/ \E j \in 1..(k-1) : out[j].name = d
    \/ OnCycle(d, out[k].name)

OrderInv ==
  phase \in {"build", "done"} =>
    /\ \A k \in DOMAIN out : InPlace(k)
    /\ \A d \in seen \cap DOMAIN declared : d \in MatchedNames \/ Emitted(d) \/ Waiting(d)
    /\ \A k \in DOMAIN tasks : tasks[k].snippet.deps \ tasks[k].deps \subseteq seen

LEMMA CycleSelf == \A d : OnCycle(d, d)
BY DEF OnCycle

LEMMA CycleOn ==
  ASSUME TableInv, NEW d, NEW e \in DOMAIN declared, OnCycle(d, e), NEW x \in LeadsTo(e) \cap Names
  PROVE  OnCycle(d, x)
<1>1. e \in Names
  BY DEF TableInv, Tables, IsMeta
<1> SUFFICES ASSUME NEW S \in SUBSET (Names \cup {x}), d \in S,
                    \A y \in S \cap DOMAIN declared : LeadsTo(y) \cap Names \subseteq S
             PROVE  x \in S
  BY DEF OnCycle
<1>2. S \in SUBSET (Names \cup {e})
  OBVIOUS
<1>3. e \in S
  BY <1>2 DEF OnCycle
<1> QED
  BY <1>3

LEMMA SameCycle ==
  ASSUME UNCHANGED <<file, source, pool, declared, nsig, sts>>
  PROVE  /\ Names' = Names /\ MatchedNames' = MatchedNames
         /\ \A d, n : OnCycle(d, n)' <=> OnCycle(d, n)
<1>1. Names' = Names /\ MatchedNames' = MatchedNames
  BY DEF Names, MatchedNames
<1>2. \A n : LeadsTo(n)' = LeadsTo(n)
  BY DEF LeadsTo
<1> HIDE DEF Names, LeadsTo
<1>3. \A d, n : OnCycle(d, n)' <=> OnCycle(d, n)
  BY <1>1, <1>2 DEF OnCycle
<1> QED
  BY <1>1, <1>3

(* The items pushed for d are reached from whatever d is reached from. *)
LEMMA PushedReached ==
  ASSUME TableInv, NEW d \in DOMAIN declared, NEW x, OnCycle(x, d),
         NEW k \in DOMAIN Pushed(pool[declared[d]])
  PROVE  Reached(x, Pushed(pool[declared[d]])[k])
<1> DEFINE m == pool[declared[d]]
           t == Pushed(m)[k]
<1>1. /\ IsSeq(m.members) /\ m.name = d /\ d \in Names
      /\ \A j \in DOMAIN m.members : source[m.members[j].at].name \in Names
  BY DEF TableInv, Tables, IsMeta
<1>2. LeadsTo(d) = m.deps \cup UNION {m.members[j].deps \cup {source[m.members[j].at].name} : j \in DOMAIN m.members}
  BY DEF LeadsTo
<1> HIDE DEF m
<1>3. \/ t.snippet.name = m.name /\ t.deps = m.deps
      \/ \E j \in DOMAIN m.members : /\ t.snippet.name = source[m.members[j].at].name
                                     /\ t.deps = m.members[j].deps
  BY <1>1, PushedShape DEF m
<1> HIDE DEF t
<1>4. (t.snippet.name = d \/ t.snippet.name \in LeadsTo(d) \cap Names) /\ t.deps \subseteq LeadsTo(d)
  BY <1>1, <1>2, <1>3
<1>5. \A e \in LeadsTo(d) \cap Names : OnCycle(x, e)
  BY CycleOn
<1>6. Reached(x, t)
  BY <1>4, <1>5 DEF Reached
<1> QED
  BY <1>6 DEF t, m

LEMMA OrderVisit ==
  ASSUME TableInv, TaskInv, OrderInv, NEW d, Visit(d)
  PROVE  OrderInv'
<1>1. /\ phase = "build" /\ 1 \in DOMAIN tasks /\ d \in tasks[1].deps
      /\ phase' = phase /\ seen' = seen \cup {d} /\ UNCHANGED <<file, source, anVars, out>>
  BY VisitShape
<1>2. /\ Names' = Names /\ MatchedNames' = MatchedNames /\ declared' = declared
      /\ \A x, n : OnCycle(x, n)' <=> OnCycle(x, n)
  BY <1>1, SameCycle DEF anVars
<1>3. /\ \A k \in DOMAIN out : InPlace(k)
      /\ \A x \in seen \cap DOMAIN declared : x \in MatchedNames \/ Emitted(x) \/ Waiting(x)
      /\ \A k \in DOMAIN tasks : tasks[k].snippet.deps \ tasks[k].deps \subseteq seen
  BY <1>1 DEF OrderInv
<1>4. /\ \A k \in DOMAIN out' : InPlace(k)'
      /\ \A x : Emitted(x) => Emitted(x)'
      /\ \A x, t : Reached(x, t) => Reached(x, t)'
  BY <1>1, <1>2, <1>3 DEF InPlace, Emitted, Reached
<1>5. PICK rest : /\ Rest(d, rest)
                  /\ \/ /\ d \in seen \/ d \notin DOMAIN declared
                        /\ tasks' = rest
                     \/ /\ d \notin seen /\ d \in DOMAIN declared
                        /\ tasks' = Pushed(pool[declared[d]]) \o rest
  BY VisitShape
<1>6. /\ IsSeq(rest) /\ DOMAIN rest = DOMAIN tasks
      /\ \A k \in DOMAIN rest : /\ rest[k].snippet = tasks[k].snippet
                                /\ rest[k].deps \subseteq tasks[k].deps
                                /\ tasks[k].deps \subseteq rest[k].deps \cup {d}
  BY <1>5 DEF Rest
<1>7. \A x, k : k \in DOMAIN rest /\ Reached(x, tasks[k]) => Reached(x, rest[k])
  BY <1>6 DEF Reached
<1>8. \A k \in DOMAIN rest : rest[k].snippet.deps \ rest[k].deps \subseteq seen'
  BY <1>1, <1>3, <1>6
<1>11. ASSUME NEW x, NEW q \in DOMAIN tasks', tasks'[q].snippet.name = x,
              \A p \in DOMAIN tasks' : p <= q => Reached(x, tasks'[p])
       PROVE  Waiting(x)'
  BY <1>2, <1>11 DEF Waiting, Reached
<1>9. CASE (d \in seen \/ d \notin DOMAIN declared) /\ tasks' = rest
  <2>1. ASSUME NEW x, Waiting(x) PROVE Waiting(x)'
    BY <1>4, <1>6, <1>7, <1>9, <2>1 DEF Waiting
  <2>2. \A x \in seen' \cap DOMAIN declared : x \in seen
    BY <1>1, <1>9
  <2>3. \A x \in seen' \cap DOMAIN declared : x \in MatchedNames \/ Emitted(x)' \/ Waiting(x)'
    BY <1>3, <1>4, <2>1, <2>2
  <2> QED
    BY <1>2, <1>4, <1>8, <1>9, <2>3 DEF OrderInv
<1>10. CASE d \in DOMAIN declared /\ tasks' = Pushed(pool[declared[d]]) \o rest
  <2> DEFINE m == pool[declared[d]]
             new == Pushed(m)
  <2>1. IsSeq(m.members) /\ m.name = d /\ d \in Names
    BY <1>10 DEF TableInv, Tables, IsMeta
  <2>2. /\ IsSeq(new) /\ 1 \in DOMAIN new /\ new[1].snippet.name = d
        /\ \A k \in DOMAIN new : new[k].snippet.deps = new[k].deps
    BY <2>1, PushedShape
  <2>3. \A x, k : OnCycle(x, d) /\ k \in DOMAIN new => Reached(x, new[k])
    BY <1>10, PushedReached
  <2>4. tasks' = new \o rest
    BY <1>10
  <2> HIDE DEF m, new
  <2>5. Len(new) \in Nat /\ DOMAIN new = 1..Len(new) /\ Len(rest) \in Nat /\ DOMAIN rest = 1..Len(rest)
    BY <1>6, <2>2, SeqShape
  <2>6. /\ IsSeq(tasks') /\ Len(tasks') = Len(new) + Len(rest)
    BY <1>6, <2>2, <2>4, ConcatShape
  <2>7. \A k \in DOMAIN new : k \in DOMAIN tasks' /\ tasks'[k] = new[k]
    BY <1>6, <2>2, <2>4, ConcatShape
  <2>8. \A k \in DOMAIN rest : Len(new) + k \in DOMAIN tasks' /\ tasks'[Len(new) + k] = rest[k]
    BY <1>6, <2>2, <2>4, ConcatShape
  <2>9. \A k \in DOMAIN tasks' :
          \/ k \in DOMAIN new /\ tasks'[k] = new[k]
          \/ /\ k - Len(new) \in DOMAIN rest /\ k = Len(new) + (k - Len(new)) /\ k > Len(new)
             /\ tasks'[k] = rest[k - Len(new)]
    BY <1>6, <2>2, <2>4, ConcatShape
  <2>10. Waiting(d)'
    <3>1. Reached(d, new[1])
      BY <2>2, <2>3, CycleSelf
    <3>2. 1 \in DOMAIN tasks' /\ tasks'[1] = new[1]
      BY <2>2, <2>7
    <3>3. \A p \in DOMAIN tasks' : p <= 1 => p = 1
      BY <2>6, SeqShape
    <3>4. \A p \in DOMAIN tasks' : p <= 1 => Reached(d, tasks'[p])
      BY <3>1, <3>2, <3>3
    <3>5. tasks'[1].snippet.name = d
      BY <2>2, <3>2
    <3> QED
      BY <1>11, <3>2, <3>4, <3>5
  <2>11. ASSUME NEW x, Waiting(x) PROVE Waiting(x)'
    <3>1. PICK q \in DOMAIN tasks : /\ tasks[q].snippet.name = x
                                    /\ \A p \in DOMAIN tasks : p <= q => Reached(x, tasks[p])
      BY <2>11 DEF Waiting
    <3>2. OnCycle(x, d)
      <4>1. 1 <= q
        BY <1>6, <2>5
      <4>2. Reached(x, tasks[1])
        BY <1>1, <3>1, <4>1
      <4> QED
        BY <1>1, <2>1, <4>2 DEF Reached
    <3> DEFINE q2 == Len(new) + q
    <3>3. q2 \in DOMAIN tasks' /\ tasks'[q2] = rest[q]
      BY <1>6, <2>8
    <3>4. ASSUME NEW p \in DOMAIN tasks', p <= q2 PROVE Reached(x, tasks'[p])
      <4>1. CASE p \in DOMAIN new /\ tasks'[p] = new[p]
        BY <2>3, <3>2, <4>1
      <4>2. CASE /\ p - Len(new) \in DOMAIN rest /\ p = Len(new) + (p - Len(new))
                 /\ tasks'[p] = rest[p - Len(new)]
        <5>1. p - Len(new) <= q /\ p - Len(new) \in DOMAIN tasks
          BY <1>6, <2>5, <3>4, <4>2
        <5>2. Reached(x, tasks[p - Len(new)])
          BY <3>1, <5>1
        <5> QED
          BY <1>7, <4>2, <5>2
      <4> QED
        BY <2>9, <4>1, <4>2
    <3> HIDE DEF q2
    <3>5. tasks'[q2].snippet.name = x
      BY <1>6, <3>1, <3>3
    <3> QED
      BY <1>11, <3>3, <3>4, <3>5
  <2>12. \A x \in seen' \cap DOMAIN declared : x \in MatchedNames \/ Emitted(x)' \/ Waiting(x)'
    BY <1>1, <1>3, <1>4, <2>10, <2>11
  <2>13. \A k \in DOMAIN tasks' : tasks'[k].snippet.deps \ tasks'[k].deps \subseteq seen'
    BY <1>8, <2>2, <2>9
  <2> QED
    BY <1>2, <1>4, <2>12, <2>13 DEF OrderInv
<1> QED
  BY <1>5, <1>9, <1>10

LEMMA OrderEmit ==
  ASSUME TableInv, TaskInv, OrderInv, Emit
  PROVE  OrderInv'
<1> DEFINE s == tasks[1].snippet
<1>1. /\ phase = "build" /\ phase' = phase /\ 1 \in DOMAIN tasks /\ tasks[1].deps = {}
      /\ out' = Append(out, s) /\ tasks' = Tail(tasks) /\ tasks # << >>
      /\ UNCHANGED <<file, source, anVars, seen>>
  BY EmitShape, EmptySeqShape
<1>2. /\ Names' = Names /\ MatchedNames' = MatchedNames /\ declared' = declared
      /\ \A x, n : OnCycle(x, n)' <=> OnCycle(x, n)
  BY <1>1, SameCycle DEF anVars
<1>3. /\ \A k \in DOMAIN out : InPlace(k)
      /\ \A x \in seen \cap DOMAIN declared : x \in MatchedNames \/ Emitted(x) \/ Waiting(x)
      /\ \A k \in DOMAIN tasks : tasks[k].snippet.deps \ tasks[k].deps \subseteq seen
  BY <1>1 DEF OrderInv
<1>4. s.deps \subseteq seen
  BY <1>1, <1>3
<1> DEFINE last == Len(out) + 1
<1>5. Len(out) \in Nat /\ DOMAIN out = 1..Len(out) /\ IsSeq(out)
  BY SeqShape DEF TaskInv
<1>6. /\ DOMAIN out' = DOMAIN out \cup {last} /\ out'[last] = s
      /\ \A k \in DOMAIN out : out'[k] = out[k]
  BY <1>1, <1>5, AppendShape
<1>7. DOMAIN out = 1..(last - 1) /\ last \in DOMAIN out'
  BY <1>5, <1>6
<1>8. /\ \A k \in DOMAIN Tail(tasks) : k \in Nat /\ k + 1 \in DOMAIN tasks /\ Tail(tasks)[k] = tasks[k + 1]
      /\ \A k \in DOMAIN tasks : k = 1 \/ (k - 1 \in DOMAIN Tail(tasks) /\ Tail(tasks)[k - 1] = tasks[k])
  BY <1>1, HeadTailShape DEF TaskInv
<1>9. Len(tasks) \in Nat /\ DOMAIN tasks = 1..Len(tasks)
  BY SeqShape DEF TaskInv
<1>10. \A x \in seen \cap DOMAIN declared : x \in MatchedNames \/ Emitted(x) \/ OnCycle(x, s.name)
  <2> SUFFICES ASSUME NEW x, Waiting(x) PROVE OnCycle(x, s.name)
    BY <1>3
  <2>1. PICK q \in DOMAIN tasks : \A p \in DOMAIN tasks : p <= q => Reached(x, tasks[p])
    BY DEF Waiting
  <2>2. 1 <= q
    BY <1>9
  <2>3. Reached(x, tasks[1])
    BY <1>1, <2>1, <2>2
  <2> QED
    BY <2>3 DEF Reached
<1>11. ASSUME NEW k, k = last PROVE InPlace(k)'
  <2>1. ASSUME NEW x \in s.deps \cap DOMAIN declared
        PROVE  \/ x \in MatchedNames \/ OnCycle(x, s.name)
               \/ \E j \in 1..(k - 1) : out'[j].name = x
    BY <1>4, <1>6, <1>7, <1>10, <1>11, <2>1 DEF Emitted
  <2>2. out'[k] = s
    BY <1>6, <1>11
  <2> HIDE DEF last, s
  <2> QED
    BY <1>2, <2>1, <2>2 DEF InPlace
<1>12. ASSUME NEW k \in DOMAIN out PROVE InPlace(k)'
  <2>1. 1..(k-1) \subseteq DOMAIN out
    BY <1>5
  <2>2. InPlace(k)
    BY <1>3
  <2>3. out'[k] = out[k] /\ \A j \in 1..(k-1) : out'[j] = out[j]
    BY <1>6, <2>1
  <2> QED
    BY <1>2, <2>2, <2>3 DEF InPlace
<1>13. ASSUME NEW x, Emitted(x) PROVE Emitted(x)'
  BY <1>6, <1>13 DEF Emitted
<1>14. ASSUME NEW x, Waiting(x) PROVE Emitted(x)' \/ Waiting(x)'
  <2>1. PICK q \in DOMAIN tasks : /\ tasks[q].snippet.name = x
                                  /\ \A p \in DOMAIN tasks : p <= q => Reached(x, tasks[p])
    BY <1>14 DEF Waiting
  <2>2. CASE q = 1
    BY <1>6, <1>7, <2>1, <2>2 DEF Emitted
  <2>3. CASE q # 1
    <3> DEFINE q2 == q - 1
    <3>1. q2 \in DOMAIN Tail(tasks) /\ Tail(tasks)[q2] = tasks[q]
      BY <1>8, <2>3
    <3>2. ASSUME NEW p \in DOMAIN Tail(tasks), p <= q2 PROVE Reached(x, Tail(tasks)[p])
      <4>1. p + 1 \in DOMAIN tasks /\ p + 1 <= q /\ Tail(tasks)[p] = tasks[p + 1]
        BY <1>8, <1>9, <3>2
      <4> QED
        BY <2>1, <4>1
    <3> HIDE DEF q2
    <3>3. q2 \in DOMAIN tasks' /\ tasks'[q2].snippet.name = x
      BY <1>1, <2>1, <3>1
    <3>4. \A p \in DOMAIN tasks' : p <= q2 => Reached(x, tasks'[p])
      BY <1>1, <3>2
    <3> QED
      BY <1>2, <3>3, <3>4 DEF Waiting, Reached
  <2> QED
    BY <2>2, <2>3
<1>15. \A k \in DOMAIN tasks' : tasks'[k].snippet.deps \ tasks'[k].deps \subseteq seen'
  BY <1>1, <1>3, <1>8
<1>16. \A k \in DOMAIN out' : InPlace(k)'
  BY <1>6, <1>11, <1>12
<1>17. \A x \in seen' \cap DOMAIN declared' : x \in MatchedNames' \/ Emitted(x)' \/ Waiting(x)'
  BY <1>1, <1>2, <1>3, <1>13, <1>14
<1> QED
  BY <1>15, <1>16, <1>17 DEF OrderInv

LEMMA OrderStart ==
  ASSUME TableInv, StartBuild
  PROVE  OrderInv'
<1>1. /\ \A k \in DOMAIN tasks' : tasks'[k] = MetaTask(pool[nsig])
      /\ out' = << >> /\ UNCHANGED <<anVars, file, source>>
      /\ seen' = MatchedNames
  BY StartBuildShape DEF MatchedNames
<1>2. MatchedNames' = MatchedNames
  BY <1>1, SameCycle DEF anVars
<1>3. \A m : MetaTask(m).snippet.deps = MetaTask(m).deps
  BY MetaTaskShape
<1> QED
  BY <1>1, <1>2, <1>3, EmptySeqShape DEF OrderInv

LEMMA OrderStep ==
  ASSUME TableInv, TaskInv, OrderInv, [Next]_vars
  PROVE  OrderInv'
<1>1. CASE Finish
  <2>1. phase = "build" /\ UNCHANGED <<file, source, anVars, outVars>>
    BY <1>1 DEF Finish
  <2>2. UNCHANGED <<file, source, pool, declared, nsig, sts, tasks, seen, out>>
    BY <2>1 DEF anVars, outVars
  <2>3. /\ Names' = Names /\ MatchedNames' = MatchedNames
        /\ \A x, n : OnCycle(x, n)' <=> OnCycle(x, n)
    BY <2>2, SameCycle
  <2> QED
    BY <2>1, <2>2, <2>3 DEF OrderInv, InPlace, Emitted, Waiting, Reached
<1>2. CASE UNCHANGED vars
  <2>1. UNCHANGED <<phase, file, source, pool, declared, nsig, sts, tasks, seen, out>>
    BY <1>2 DEF vars, selVars, anVars, outVars
  <2>2. /\ Names' = Names /\ MatchedNames' = MatchedNames
        /\ \A x, n : OnCycle(x, n)' <=> OnCycle(x, n)
    BY <2>1, SameCycle
  <2> QED
    BY <2>1, <2>2 DEF OrderInv, InPlace, Emitted, Waiting, Reached
<1>3. CASE Build
  BY <1>3, OrderStart, OrderEmit, OrderVisit DEF Build
<1>4. CASE Select \/ AnalyzeReduced \/ Analyze \/ AnalyzeFile
  <2>1. phase' \notin {"build", "done"}
    BY <1>4 DEF Select, Seed, Follow, AnalyzeReduced, SelectEnds, AnalyzeFile, Analyze, DeclareVariable,
                AssignVariable, AssignMember, SkipStatement, Advance, selVars
  <2> QED
    BY <2>1 DEF OrderInv
<1> QED
  BY <1>1, <1>2, <1>3, <1>4 DEF Next

(* The emitted definitions are in the order in which they can be evaluated,
   whatever the program and however its dependencies are circular. *)
THEOREM ScriptInOrder == Spec => []EmittedInOrder
<1>1. Init => OrderInv
  BY DEF Init, SelInit, OrderInv
<1>2. TableInv /\ TaskInv /\ OrderInv /\ [Next]_vars => OrderInv'
  BY OrderStep
<1>3. OrderInv => EmittedInOrder
  BY DEF OrderInv, EmittedInOrder, InPlace, MatchedNames
<1> QED
  BY <1>1, <1>2, <1>3, ScriptInvariance, PTL DEF Spec
-----------------------------------------------------------------------------
(* The selection covers what the script is built of.                       *)

LEMMA PrefixShape ==
  ASSUME NEW c, IsSeq(c), c # << >>, NEW d \in Prefixes(c)
  PROVE  /\ IsSeq(d) /\ d # << >> /\ Len(d) \in Nat \ {0} /\ Base(d) = Base(c)
         /\ ~IsMember(d) => d = Base(c)
<1> DEFINE S == {c[i] : i \in DOMAIN c}
<1>1. c \in Seq(S) /\ Len(c) \in Nat /\ DOMAIN c = 1..Len(c)
  BY SeqShape DEF IsSeq
<1>2. Len(c) # 0
  BY <1>1, EmptySeq
<1>3. PICK k \in 1..Len(c) : d = SubSeq(c, 1, k)
  BY DEF Prefixes
<1>4. \A i \in 1..k : c[i] \in S
  BY <1>1
<1> HIDE DEF S
<1>5. k \in Int /\ 1 \in Int /\ 1 <= k /\ k - 1 + 1 = k
  BY <1>1, <1>3
<1>6. /\ d \in Seq(S) /\ Len(d) = k
      /\ \A i \in 1..k : d[i] = c[1 + i - 1]
  BY <1>3, <1>4, <1>5, SubSeqProperties
<1>7. d[1] = c[1]
  BY <1>5, <1>6
<1>8. ASSUME k = 1 PROVE d = <<c[1]>>
  <2>1. <<c[1]>> \in Seq(S) /\ Len(<<c[1]>>) = 1 /\ <<c[1]>>[1] = c[1]
    BY <1>4, <1>5
  <2> QED
    BY <1>6, <1>7, <1>8, <2>1, SeqEqual
<1>9. d # << >>
  BY <1>5, <1>6, EmptySeq
<1>10. Base(d) = Base(c) /\ IsSeq(d) /\ Len(d) \in Nat \ {0}
  <2>1. Base(d) = Base(c)
    BY <1>7 DEF Base
  <2>2. IsSeq(d)
    BY <1>6, AnySeq
  <2>3. Len(d) \in Nat \ {0}
    BY <1>1, <1>3, <1>6
  <2> QED
    BY <2>1, <2>2, <2>3
<1>11. ~IsMember(d) => d = Base(c)
  BY <1>6, <1>8, <1>10 DEF Base, IsMember
<1> QED
  BY <1>9, <1>10, <1>11

LEMMA OwnPrefix ==
  ASSUME NEW d, IsSeq(d), Len(d) \in Nat \ {0}
  PROVE  /\ d \in Prefixes(d)
         /\ \A p \in Prefixes(d) : Len(d) <= Len(p) => p = d
<1> DEFINE S == {d[i] : i \in DOMAIN d}
<1>1. d \in Seq(S) /\ DOMAIN d = 1..Len(d)
  BY SeqShape DEF IsSeq
<1>2. \A i \in DOMAIN d : d[i] \in S
  OBVIOUS
<1> HIDE DEF S
<1>3. SubSeq(d, 1, Len(d)) = d
  BY <1>1, SubSeqFull
<1>4. d \in Prefixes(d)
  <2>1. Len(d) \in 1..Len(d)
    OBVIOUS
  <2> QED
    BY <1>3, <2>1 DEF Prefixes
<1>5. ASSUME NEW k \in 1..Len(d), Len(d) <= Len(SubSeq(d, 1, k)) PROVE SubSeq(d, 1, k) = d
  <2>1. k \in Int /\ 1 \in Int /\ 1 <= k /\ k - 1 + 1 = k /\ \A i \in 1..k : d[i] \in S
    BY <1>1, <1>2
  <2>2. Len(SubSeq(d, 1, k)) = k
    BY <2>1, SubSeqProperties
  <2>3. k = Len(d)
    BY <1>5, <2>2
  <2> QED
    BY <1>3, <2>3
<1> QED
  BY <1>4, <1>5 DEF Prefixes

(* Every name a followed region reads, whole or in part, leads to regions
   that are kept. *)
LEMMA PrefixKept ==
  ASSUME NEW f, NEW S, Closed(f, S), NEW r \in S, Followed(f, r), ~Stubbed(f[r]),
         NEW c \in RegionReads(f[r]), IsName(c), Base(c) \notin BuiltIns,
         NEW d \in Prefixes(c), d # Param
  PROVE  NameToRegions(f, d) \subseteq S
<1>1. Needs(f, r) \subseteq S
  BY DEF Closed
<1>2. /\ IsSeq(d) /\ Len(d) \in Nat \ {0}
      /\ d # << >> /\ (~IsMember(d) => d = Base(c))
  BY PrefixShape DEF IsName
<1> DEFINE free == {x \in RegionReads(f[r]) : Base(x) \notin BuiltIns}
           ids == {Base(x) : x \in free} \ {Param}
           members == {p \in UNION {Prefixes(x) : x \in free} : IsMember(p)}
<1>3. Needs(f, r) = UNION ({IncludeIdentifier(f, n) : n \in ids} \cup {IncludeMember(f, m) : m \in members})
  BY DEF Needs
<1>4. c \in free
  OBVIOUS
<1>5. ~IsMember(d) => d \in ids
  BY <1>2, <1>4
<1>6. IsMember(d) => d \in members
  BY <1>4
<1> HIDE DEF free, ids, members
<1>7. CASE ~IsMember(d)
  <2>1. IncludeIdentifier(f, d) \subseteq S
    BY <1>1, <1>3, <1>5, <1>7
  <2> QED
    BY <2>1 DEF IncludeIdentifier
<1>8. CASE IsMember(d) /\ NameToRegions(f, d) # {}
  <2>1. IncludeMember(f, d) \subseteq S
    BY <1>1, <1>3, <1>6, <1>8
  <2> DEFINE found == {p \in Prefixes(d) : NameToRegions(f, p) # {}}
             longest == CHOOSE p \in found : \A q \in found : Len(q) <= Len(p)
  <2>2. d \in found
    BY <1>2, <1>8, OwnPrefix
  <2>3. \A p \in found : Len(d) <= Len(p) => p = d
    BY <1>2, OwnPrefix
  <2>4. \A q \in found : Len(q) <= Len(d)
    <3> SUFFICES ASSUME NEW q \in found PROVE Len(q) <= Len(d)
      OBVIOUS
    <3>1. Len(q) \in Nat
      BY <1>2, PrefixShape
    <3> QED
      BY <1>2, <2>3, <3>1
  <2> HIDE DEF found
  <2>5. longest = d
    <3>1. longest \in found /\ \A q \in found : Len(q) <= Len(longest)
      BY <2>2, <2>4
    <3> QED
      BY <2>2, <2>3, <3>1
  <2>6. IncludeMember(f, d) = IncludeIdentifier(f, d)
    BY <2>2, <2>5 DEF IncludeMember, found
  <2> QED
    BY <2>1, <2>6 DEF IncludeIdentifier
<1> QED
  BY <1>7, <1>8

Selected == /\ kept \in SUBSET Regions(file) /\ Closed(file, kept)
            /\ source = Reduced(file, kept)

(* What the analyzer finds in a statement of the reduced program. *)
LEMMA StatementCovered ==
  ASSUME TableInv, Selected, NEW i \in DOMAIN source, source[i].init # None
  PROVE  /\ Covered(source[i].name, FindDependencies(source[i].init))
         /\ IsMember(source[i].name) =>
              Covered(source[i].name, FindDependencies(source[i].init) \cup {BaseName(source[i].name)})
<1>1. file \in Files /\ \A r \in DOMAIN file : IsStatement(file[r])
  BY FilesAssumption DEF TableInv
<1>2. PICK g : Origin(g, file, kept)
  BY <1>1, ReducedShape DEF Selected
<1> DEFINE r == g[i]
           s == source[i]
           n == s.name
           t == file[r]
<1>3. /\ r \in kept /\ r \in DOMAIN file /\ (Stubbed(t) => t.kind = "var") /\ IsStatement(t)
      /\ s = IF Stubbed(t) THEN Stub(t) ELSE t
  BY <1>1, <1>2 DEF Origin, Selected
<1> HIDE DEF r
<1>4. CASE Stubbed(t)
  <2>1. s.init.reads = {} /\ ~IsMember(n)
    <3>1. s.init.reads = {} /\ n = t.name /\ t.kind = "var"
      BY <1>3, <1>4, StubShape
    <3> QED
      BY <1>3, <3>1 DEF IsStatement
  <2>2. FindDependencies(s.init) = {}
    BY <2>1 DEF FindDependencies
  <2> QED
    BY <2>1, <2>2 DEF Covered
<1>5. CASE ~Stubbed(t)
  <2>1. s = t
    BY <1>3, <1>5
  <2> DEFINE Free(d) == Base(d) = n \/ Base(d) \in BuiltIns \/ d = Param
  <2> SUFFICES ASSUME \A q \in DOMAIN file : SeedKind(file[q]) = "sts" => file[q].name # n
               PROVE  /\ \A d \in FindDependencies(s.init) :
                           Free(d) \/ NameToRegions(file, d) \subseteq kept
                      /\ IsMember(n) =>
                           \/ BaseName(n) \notin Prefixes(n)
                           \/ Free(BaseName(n)) \/ NameToRegions(file, BaseName(n)) \subseteq kept
    BY DEF Covered
  <2>2. Followed(file, r)
    BY <1>3, <2>1 DEF Followed
  <2>3. ASSUME NEW c \in RegionReads(t), IsName(c), NEW d \in Prefixes(c), ~Free(d)
        PROVE  NameToRegions(file, d) \subseteq kept
    <3>1. Base(d) = Base(c)
      BY <2>3, PrefixShape DEF IsName
    <3> QED
      BY <1>3, <1>5, <2>2, <2>3, <3>1, PrefixKept DEF Selected
  <2>4. ASSUME NEW d \in FindDependencies(s.init), ~Free(d)
        PROVE  NameToRegions(file, d) \subseteq kept
    <3>1. PICK c \in s.init.reads : d \in Prefixes(c)
      BY DEF FindDependencies
    <3>2. IsName(c)
      BY <1>3, <2>1 DEF IsStatement
    <3>3. Base(d) = Base(c)
      BY <3>1, <3>2, PrefixShape DEF IsName
    <3>4. c \in RegionReads(t)
      BY <2>1, <2>4, <3>1, <3>3 DEF RegionReads
    <3> QED
      BY <2>3, <2>4, <3>1, <3>2, <3>4
  <2>5. ASSUME IsMember(n), BaseName(n) \in Prefixes(n), ~Free(BaseName(n))
        PROVE  NameToRegions(file, BaseName(n)) \subseteq kept
    <3>1. IsName(n) /\ n \in RegionReads(t)
      BY <1>3, <2>1, <2>5 DEF IsStatement, RegionReads
    <3> QED
      BY <2>3, <2>5, <3>1
  <2> QED
    BY <2>4, <2>5
<1> QED
  BY <1>4, <1>5

CoveredPool(pl) ==
  \A i \in DOMAIN pl :
    /\ Covered(pl[i].name, pl[i].deps)
    /\ \A k \in DOMAIN pl[i].members : Covered(source[pl[i].members[k].at].name, pl[i].members[k].deps)

CoverInv ==
  attempt = 1 =>
    /\ phase \in {"seed", "select"} => pool = << >> /\ tasks = << >> /\ out = << >>
    /\ phase \notin {"seed", "select"} =>
         /\ Selected /\ CoveredPool(pool)
         /\ \A k \in DOMAIN tasks : Covered(tasks[k].snippet.name, tasks[k].snippet.deps)
         /\ \A k \in DOMAIN out : Covered(out[k].name, out[k].deps)

LEMMA CoverDeclare ==
  ASSUME TableInv, Selected, Advance, NEW pl, DOMAIN pl = DOMAIN pool, CoveredPool(pl),
         NEW deps, Covered(Current.name, deps), DeclareStep(pl, deps)
  PROVE  CoveredPool(pool')
<1> DEFINE m == NewMeta(pos, deps)
           pl2 == Put(pl, pos, m)
<1>1. m.name = Current.name /\ m.deps = deps /\ m.members = << >>
  BY NewMetaShape DEF Current
<1> HIDE DEF m
<1>2. /\ DOMAIN pl2 = DOMAIN pl \cup {pos} /\ pl2[pos] = m
      /\ \A i \in DOMAIN pl : i # pos => pl2[i] = pl[i]
  BY DEF Put
<1>3. pool' = pl2
  BY DEF DeclareStep, OnMatch, m
<1> HIDE DEF pl2
<1>4. ASSUME NEW i \in DOMAIN pl2
      PROVE  /\ Covered(pl2[i].name, pl2[i].deps)
             /\ \A k \in DOMAIN pl2[i].members :
                  Covered(source[pl2[i].members[k].at].name, pl2[i].members[k].deps)
  <2>1. CASE i = pos
    BY <1>1, <1>2, <2>1, EmptySeqShape
  <2>2. CASE i # pos
    BY <1>2, <2>2 DEF CoveredPool
  <2> QED
    BY <2>1, <2>2
<1> QED
  BY <1>3, <1>4 DEF CoveredPool

LEMMA CoverAnalyze ==
  ASSUME TableInv, CoverInv, Analyze, attempt = 1
  PROVE  CoveredPool(pool') /\ Advance
<1>1. phase = "analyze" /\ Advance
  BY DEF Analyze, DeclareVariable, AssignVariable, AssignMember, SkipStatement, Advance
<1>2. Selected /\ CoveredPool(pool)
  BY <1>1 DEF CoverInv
<1>3. pos \in DOMAIN source
  BY <1>1, AdvanceShape
<1>4. \A n : Covered(n, {})
  BY DEF Covered
<1>5. Current.kind = "assign" => Current.init # None
  BY <1>3 DEF TableInv, IsStatement, Current
<1>6. Current.init # None =>
        /\ Covered(Current.name, FindDependencies(Current.init))
        /\ IsMember(Current.name) =>
             Covered(Current.name, FindDependencies(Current.init) \cup {BaseName(Current.name)})
  BY <1>2, <1>3, StatementCovered DEF Current
<1>7. CASE DeclareVariable
  <2>1. PICK deps : /\ deps = {} \/ (Current.init # None /\ deps = FindDependencies(Current.init))
                    /\ DeclareStep(pool, deps)
    BY <1>7, DeclareShape
  <2>2. Covered(Current.name, deps)
    BY <1>4, <1>6, <2>1
  <2> QED
    BY <1>1, <1>2, <2>1, <2>2, CoverDeclare
<1>8. CASE AssignVariable
  <2>1. CASE NoMatch
    BY <1>1, <1>2, <2>1 DEF NoMatch
  <2>2. CASE ~NoMatch
    <3> DEFINE i == declared[Current.name]
    <3>1. PICK deps : /\ deps = pool[i].deps \/ deps = FindDependencies(Current.init)
                      /\ OnMatch(Patched(i, Current.init, deps), declared, i)
      BY <1>8, <2>2, AssignShape
    <3>2. i \in DOMAIN pool /\ pool[i].name = Current.name
      BY <1>8, <2>2, AssignShape DEF TableInv, Tables
    <3>3. Covered(pool[i].name, deps)
      <4>1. Current.init # None
        BY <1>5, <1>8, AssignShape
      <4>2. Covered(pool[i].name, pool[i].deps)
        BY <1>2, <3>2 DEF CoveredPool
      <4> QED
        BY <1>6, <3>1, <3>2, <4>1, <4>2
    <3> HIDE DEF i
    <3> DEFINE pl == Patched(i, Current.init, deps)
    <3>4. Tables(pool, declared)
      BY DEF TableInv
    <3>5. /\ DOMAIN pl = DOMAIN pool
          /\ \A j \in DOMAIN pool : j # i => pl[j] = pool[j]
          /\ pl[i].deps = deps /\ pl[i].name = pool[i].name /\ pl[i].members = pool[i].members
      BY <3>2, <3>4, PatchShape
    <3>6. pool' = pl
      BY <3>1 DEF OnMatch
    <3> HIDE DEF pl
    <3>7. CoveredPool(pl)
      <4> SUFFICES ASSUME NEW j \in DOMAIN pl
                   PROVE  /\ Covered(pl[j].name, pl[j].deps)
                          /\ \A k \in DOMAIN pl[j].members :
                               Covered(source[pl[j].members[k].at].name, pl[j].members[k].deps)
        BY DEF CoveredPool
      <4>1. /\ Covered(pool[j].name, pool[j].deps)
            /\ \A k \in DOMAIN pool[j].members :
                 Covered(source[pool[j].members[k].at].name, pool[j].members[k].deps)
        BY <1>2, <3>5 DEF CoveredPool
      <4>2. CASE j = i
        BY <3>3, <3>5, <4>1, <4>2
      <4>3. CASE j # i
        <5>1. pl[j] = pool[j]
          BY <3>5, <4>3
        <5> QED
          BY <4>1, <5>1
      <4> QED
        BY <4>2, <4>3
    <3> QED
      BY <1>1, <3>6, <3>7
  <2> QED
    BY <2>1, <2>2
<1>9. CASE AssignMember
  <2> DEFINE found == FindDependencies(Current.init)
             deps == found \cup {BaseName(Current.name)}
  <2>1. PICK pl : BlockTable(pl) /\ (pool' = pl \/ DeclareStep(pl, deps))
    BY <1>9, AssignMemberShape
  <2>2. Covered(Current.name, found) /\ Covered(Current.name, deps)
    BY <1>5, <1>6, <1>9, AssignMemberShape
  <2>3. /\ DOMAIN pl = DOMAIN pool
        /\ \A i \in DOMAIN pool : /\ pl[i].deps = pool[i].deps /\ pl[i].name = pool[i].name
                               /\ \A k \in DOMAIN pl[i].members :
                                    \/ k \in DOMAIN pool[i].members /\ pl[i].members[k] = pool[i].members[k]
                                    \/ pl[i].members[k] = [at |-> pos, deps |-> found]
    BY <1>3, <2>1, BlockShape
  <2> HIDE DEF found, deps
  <2>4. CoveredPool(pl)
    <3> SUFFICES ASSUME NEW i \in DOMAIN pl
                 PROVE  /\ Covered(pl[i].name, pl[i].deps)
                        /\ \A k \in DOMAIN pl[i].members :
                             Covered(source[pl[i].members[k].at].name, pl[i].members[k].deps)
      BY DEF CoveredPool
    <3>1. /\ Covered(pool[i].name, pool[i].deps)
          /\ \A k \in DOMAIN pool[i].members :
               Covered(source[pool[i].members[k].at].name, pool[i].members[k].deps)
      BY <1>2, <2>3 DEF CoveredPool
    <3>2. Covered(source[pos].name, found)
      BY <2>2 DEF Current
    <3> QED
      BY <2>3, <3>1, <3>2
  <2> QED
    BY <1>1, <1>2, <2>1, <2>2, <2>3, <2>4, CoverDeclare
<1>10. CASE SkipStatement
  BY <1>1, <1>2, <1>10 DEF SkipStatement, NoMatch
<1> QED
  BY <1>7, <1>8, <1>9, <1>10 DEF Analyze

(* As long as the selection stands, what is covered stays so. *)
LEMMA SameCovered ==
  ASSUME UNCHANGED <<file, kept, source>>
  PROVE  /\ \A n, deps : Covered(n, deps)' <=> Covered(n, deps)
         /\ \A pl : CoveredPool(pl)' <=> CoveredPool(pl)
         /\ Selected => Selected'
<1>1. \A n, deps : Covered(n, deps)' <=> Covered(n, deps)
  BY DEF Covered, NameToRegions, Regions
<1> HIDE DEF Covered
<1>2. \A pl : CoveredPool(pl)' <=> CoveredPool(pl)
  BY <1>1 DEF CoveredPool
<1> QED
  BY <1>1, <1>2 DEF Selected, Regions

LEMMA PushedCovered ==
  ASSUME TableInv, CoveredPool(pool), NEW d \in DOMAIN declared,
         NEW k \in DOMAIN Pushed(pool[declared[d]])
  PROVE  LET s == Pushed(pool[declared[d]])[k].snippet IN Covered(s.name, s.deps)
<1> DEFINE i == declared[d]
           m == pool[i]
           s == Pushed(m)[k].snippet
<1>1. i \in DOMAIN pool /\ IsSeq(m.members)
  BY DEF TableInv, Tables, IsMeta
<1>2. /\ Covered(m.name, m.deps)
      /\ \A j \in DOMAIN m.members : Covered(source[m.members[j].at].name, m.members[j].deps)
  BY <1>1 DEF CoveredPool
<1> HIDE DEF m
<1>3. \/ s.name = m.name /\ s.deps = m.deps
      \/ \E j \in DOMAIN m.members : /\ s.name = source[m.members[j].at].name
                                     /\ s.deps = m.members[j].deps
  BY <1>1, PushedShape DEF m
<1> HIDE DEF s
<1>4. Covered(s.name, s.deps)
  BY <1>2, <1>3
<1> QED
  BY <1>4 DEF s, m

LEMMA CoverStep ==
  ASSUME SelInv, SelInv', KeptIsClosure', TableInv, TaskInv, CoverInv, [Next]_vars
  PROVE  CoverInv'
<1>1. CASE Analyze
  <2> SUFFICES ASSUME attempt = 1 PROVE CoverInv'
    BY <1>1 DEF CoverInv, Analyze, DeclareVariable, AssignVariable, AssignMember, SkipStatement, Advance
  <2>1. CoveredPool(pool') /\ Advance
    BY <1>1, CoverAnalyze
  <2>2. UNCHANGED <<phase, file, kept, source, tasks, out, attempt>> /\ phase = "analyze"
    BY <2>1, AdvanceShape
  <2>3. /\ \A n, deps : Covered(n, deps)' <=> Covered(n, deps)
        /\ \A pl : CoveredPool(pl)' <=> CoveredPool(pl)
        /\ Selected => Selected'
    BY <2>2, SameCovered
  <2>4. CoveredPool(pool)'
    BY <2>1, <2>3 DEF CoveredPool
  <2> QED
    BY <2>2, <2>3, <2>4 DEF CoverInv
<1>2. ASSUME UNCHANGED <<file, kept, source, attempt, anVars>>,
             phase \notin {"seed", "select"}, phase' \notin {"seed", "select"},
             attempt = 1 => \A k \in DOMAIN tasks' : Covered(tasks'[k].snippet.name, tasks'[k].snippet.deps),
             attempt = 1 => \A k \in DOMAIN out' : Covered(out'[k].name, out'[k].deps)
      PROVE  CoverInv'
  <2>1. /\ \A n, deps : Covered(n, deps)' <=> Covered(n, deps)
        /\ Selected => Selected'
    BY <1>2, SameCovered
  <2>2. UNCHANGED <<pool, source, attempt>>
    BY <1>2 DEF anVars
  <2>3. CoveredPool(pool) => CoveredPool(pool)'
    BY <2>1, <2>2 DEF CoveredPool
  <2> QED
    BY <1>2, <2>1, <2>2, <2>3 DEF CoverInv
<1>3. CASE StartBuild
  <2>1. \A k \in DOMAIN tasks' : k = 1 /\ nsig # 0 /\ tasks'[k] = MetaTask(pool[nsig])
    BY <1>3, StartBuildShape
  <2>2. /\ out' = << >> /\ phase = "analyze" /\ phase' = "build"
        /\ UNCHANGED <<file, kept, source, attempt, anVars>>
    BY <1>3 DEF StartBuild
  <2>3. \A m : MetaTask(m).snippet.name = m.name /\ MetaTask(m).snippet.deps = m.deps
    BY MetaTaskShape
  <2>4. nsig # 0 => nsig \in DOMAIN pool
    BY DEF TableInv
  <2>5. attempt = 1 => \A k \in DOMAIN tasks' : Covered(tasks'[k].snippet.name, tasks'[k].snippet.deps)
    BY <2>1, <2>3, <2>4, <2>2 DEF CoverInv, CoveredPool
  <2> QED
    BY <1>2, <2>5, <2>2, EmptySeqShape
<1>4. CASE Emit
  <2>1. /\ phase = "build" /\ phase' = phase /\ 1 \in DOMAIN tasks /\ tasks # << >>
        /\ out' = Append(out, tasks[1].snippet) /\ tasks' = Tail(tasks)
        /\ UNCHANGED <<file, kept, source, attempt, anVars>>
    BY <1>4, EmitShape, EmptySeqShape
  <2> DEFINE s == tasks[1].snippet
  <2>2. /\ DOMAIN out' = DOMAIN out \cup {Len(out) + 1} /\ out'[Len(out) + 1] = s
        /\ \A k \in DOMAIN out : out'[k] = out[k]
    BY <2>1, AppendShape DEF TaskInv
  <2>3. \A k \in DOMAIN tasks' : k + 1 \in DOMAIN tasks /\ tasks'[k] = tasks[k + 1]
    BY <2>1, HeadTailShape DEF TaskInv
  <2>4. attempt = 1 => Covered(s.name, s.deps)
    BY <2>1 DEF CoverInv
  <2> HIDE DEF s
  <2>5. attempt = 1 => \A k \in DOMAIN out' : Covered(out'[k].name, out'[k].deps)
    BY <2>1, <2>2, <2>4 DEF CoverInv
  <2>6. attempt = 1 => \A k \in DOMAIN tasks' : Covered(tasks'[k].snippet.name, tasks'[k].snippet.deps)
    BY <2>1, <2>3 DEF CoverInv
  <2> QED
    BY <1>2, <2>1, <2>5, <2>6
<1>5. ASSUME NEW d, Visit(d) PROVE CoverInv'
  <2>1. phase = "build" /\ phase' = phase /\ UNCHANGED <<file, kept, source, attempt, anVars, out>>
    BY <1>5, VisitShape
  <2>2. PICK rest : /\ Rest(d, rest)
                    /\ \/ tasks' = rest
                       \/ d \in DOMAIN declared /\ tasks' = Pushed(pool[declared[d]]) \o rest
    BY <1>5, VisitShape
  <2>3. IsSeq(rest) /\ \A k \in DOMAIN rest : k \in DOMAIN tasks /\ rest[k].snippet = tasks[k].snippet
    BY <2>2 DEF Rest
  <2>4. attempt = 1 => \A k \in DOMAIN rest : Covered(rest[k].snippet.name, rest[k].snippet.deps)
    BY <2>1, <2>3 DEF CoverInv
  <2>5. attempt = 1 => \A k \in DOMAIN out' : Covered(out'[k].name, out'[k].deps)
    BY <2>1 DEF CoverInv
  <2>6. CASE tasks' = rest
    BY <1>2, <2>1, <2>4, <2>5, <2>6
  <2>7. CASE d \in DOMAIN declared /\ tasks' = Pushed(pool[declared[d]]) \o rest
    <3> DEFINE new == Pushed(pool[declared[d]])
    <3>1. IsSeq(pool[declared[d]].members)
      BY <2>7 DEF TableInv, Tables, IsMeta
    <3>2. IsSeq(new)
      BY <3>1, PushedShape
    <3>3. attempt = 1 => \A k \in DOMAIN new : Covered(new[k].snippet.name, new[k].snippet.deps)
      BY <2>1, <2>7, PushedCovered DEF CoverInv
    <3>4. tasks' = new \o rest
      BY <2>7
    <3> HIDE DEF new
    <3>5. \A k \in DOMAIN tasks' :
            \/ k \in DOMAIN new /\ tasks'[k] = new[k]
            \/ /\ k - Len(new) \in DOMAIN rest /\ k = Len(new) + (k - Len(new)) /\ k > Len(new)
               /\ tasks'[k] = rest[k - Len(new)]
      BY <2>3, <3>2, <3>4, ConcatShape
    <3>6. attempt = 1 => \A k \in DOMAIN tasks' : Covered(tasks'[k].snippet.name, tasks'[k].snippet.deps)
      BY <2>4, <3>3, <3>5
    <3> QED
      BY <1>2, <2>1, <2>5, <3>6
  <2> QED
    BY <2>2, <2>6, <2>7
<1>6. CASE Select
  <2>1. phase \in {"seed", "select"} /\ phase' \in {"seed", "select"}
    BY <1>6 DEF Select, Seed, Follow
  <2>2. UNCHANGED <<attempt, pool, tasks, out>>
    BY <1>6 DEF Select, anVars, outVars
  <2> QED
    BY <2>1, <2>2 DEF CoverInv
<1>7. CASE AnalyzeReduced
  <2>1. /\ phase = "select" /\ phase' = "analyze" /\ UNCHANGED <<file, kept, attempt, tasks, out>>
        /\ source' = Reduced(file, kept) /\ pool' = << >>
    BY <1>7 DEF AnalyzeReduced, SelectEnds, StartAnalysis, outVars
  <2>2. Selected'
    BY <2>1 DEF Selected, SelInv, KeptIsClosure
  <2>3. CoveredPool(pool)'
    BY <2>1, EmptySeqShape DEF CoveredPool
  <2> QED
    BY <2>1, <2>2, <2>3, EmptySeqShape DEF CoverInv
<1>8. CASE AnalyzeFile
  BY <1>8 DEF AnalyzeFile, CoverInv
<1>9. CASE Finish
  <2>1. phase = "build" /\ phase' = "done" /\ UNCHANGED <<file, kept, source, attempt, anVars, tasks, out>>
    BY <1>9 DEF Finish, outVars
  <2> QED
    BY <1>2, <2>1 DEF CoverInv
<1>10. CASE UNCHANGED vars
  <2>1. UNCHANGED <<phase, file, kept, source, attempt, anVars, pool, tasks, out>>
    BY <1>10 DEF vars, selVars, anVars, outVars
  <2>2. CASE phase \in {"seed", "select"}
    BY <2>1, <2>2 DEF CoverInv
  <2>3. CASE phase \notin {"seed", "select"}
    BY <1>2, <2>1, <2>3 DEF CoverInv
  <2> QED
    BY <2>2, <2>3
<1> QED
  BY <1>1, <1>3, <1>4, <1>5, <1>6, <1>7, <1>8, <1>9, <1>10 DEF Next, Build

(* The dependencies the analyzer finds, put down and emitted are within what
   the selector kept while it had the same names before it. *)
THEOREM CoverInvariance == Spec => []CoverInv
<1>1. Init => CoverInv
  BY EmptySeqShape DEF Init, SelInit, CoverInv
<1>2. SelInv /\ SelInv' /\ KeptIsClosure' /\ TableInv /\ TaskInv /\ CoverInv /\ [Next]_vars => CoverInv'
  BY CoverStep
<1> QED
  BY <1>1, <1>2, ScriptInvariance, ExtractionKeepsClosure, PTL DEF Spec

(* Selector and analyzer agree on what the script needs, for any program. *)
THEOREM ScriptIsCovered == Spec => []SelectionCovers
<1>1. CoverInv => SelectionCovers
  BY EmptySeqShape DEF CoverInv, SelectionCovers
<1> QED
  BY <1>1, CoverInvariance, PTL
-----------------------------------------------------------------------------
(* The function is not lost to the reduction.  Of a file in which the nsig
   function is given once to each variable it is given to, the same holds of
   the reduced program, and the analysis of such a program finds it.       *)

GivesNsig(f) ==
  /\ \E r \in DOMAIN f : HoldsNsig(f[r])
  /\ \A r \in DOMAIN f : HoldsNsig(f[r]) => GivenOnce(f, r)

(* The owner of a plain name is the name itself. *)
LEMMA PlainName ==
  ASSUME NEW n, IsName(n), ~IsMember(n)
  PROVE  Base(n) = n /\ n \in Prefixes(n)
<1>1. IsSeq(n) /\ Len(n) \in Nat \ {0} /\ n \in Seq({n[i] : i \in DOMAIN n})
  BY SeqShape, EmptySeq DEF IsName, IsSeq
<1>2. n \in Prefixes(n)
  BY <1>1, OwnPrefix
<1> QED
  BY <1>1, <1>2, PrefixShape DEF IsName

LEMMA ReductionGives ==
  ASSUME NEW f \in Files, NEW keep \in SUBSET Regions(f), Closed(f, keep), GivesNsig(f)
  PROVE  GivesNsig(Reduced(f, keep))
<1> DEFINE s == Reduced(f, keep)
<1>1. PICK g : Origin(g, f, keep)
  BY ReducedShape
<1>2. /\ \A k \in DOMAIN s : /\ g[k] \in keep /\ g[k] \in DOMAIN f
                             /\ Stubbed(f[g[k]]) => f[g[k]].kind = "var"
                             /\ s[k] = IF Stubbed(f[g[k]]) THEN Stub(f[g[k]]) ELSE f[g[k]]
      /\ \A k, l \in DOMAIN s : k < l => g[k] < g[l]
      /\ \A r \in keep : (Stubbed(f[r]) => f[r].kind = "var") => \E k \in DOMAIN s : g[k] = r
  BY <1>1 DEF Origin
<1>3. IsSeq(s) /\ Len(s) \in Nat /\ DOMAIN s = 1..Len(s)
  BY ReducedShape, SeqShape
<1>4. Len(f) \in Nat /\ DOMAIN f = 1..Len(f) /\ \A r \in DOMAIN f : IsStatement(f[r])
  BY FilesAssumption, SeqShape
<1> HIDE DEF s
<1>5. ASSUME NEW k \in DOMAIN s
      PROVE  /\ s[k].name = f[g[k]].name /\ s[k].kind = f[g[k]].kind
             /\ HoldsNsig(s[k]) => HoldsNsig(f[g[k]]) /\ ~Stubbed(f[g[k]])
  <2> DEFINE t == f[g[k]]
  <2>1. IsStatement(t) /\ (Stubbed(t) => t.kind = "var") /\ s[k] = IF Stubbed(t) THEN Stub(t) ELSE t
    BY <1>2, <1>4
  <2> HIDE DEF t
  <2>2. CASE Stubbed(t)
    <3>1. s[k].name = t.name /\ s[k].kind = t.kind /\ s[k].init.shape \in {"{}", "undefined"}
      BY <2>1, <2>2, StubShape
    <3> QED
      BY <3>1 DEF t, HoldsNsig
  <2>3. CASE ~Stubbed(t)
    <3>1. s[k] = t
      BY <2>1, <2>3
    <3> QED
      BY <2>3, <3>1 DEF t
  <2> QED
    BY <2>2, <2>3
<1>6. ASSUME NEW k \in DOMAIN s, NEW l \in DOMAIN s, g[k] = g[l] PROVE k = l
  <2>1. k \in Nat /\ l \in Nat /\ g[k] \in Nat /\ g[l] \in Nat
    BY <1>2, <1>3, <1>4
  <2> QED
    BY <1>2, <1>6, <2>1
<1>7. ASSUME NEW r \in DOMAIN f, HoldsNsig(f[r]) PROVE r \in keep /\ ~Stubbed(f[r])
  BY <1>7 DEF Closed, Seeds, SeedKind, HoldsNsig, Regions, Stubbed, DefinitelyStripped
<1>8. \E k \in DOMAIN s : HoldsNsig(s[k])
  <2>1. PICK r \in DOMAIN f : HoldsNsig(f[r])
    BY DEF GivesNsig
  <2>2. PICK k \in DOMAIN s : g[k] = r
    BY <1>2, <1>7, <2>1
  <2>3. s[k] = f[r]
    BY <1>2, <1>7, <2>1, <2>2
  <2> QED
    BY <2>1, <2>3
<1>9. ASSUME NEW k \in DOMAIN s, HoldsNsig(s[k]) PROVE GivenOnce(s, k)
  <2> DEFINE r == g[k]
             n == f[r].name
             others == {q \in DOMAIN f : f[q].name = f[r].name} \ {r}
             left == {l \in DOMAIN s : s[l].name = s[k].name} \ {k}
  <2>1. /\ r \in DOMAIN f /\ r \in keep /\ HoldsNsig(f[r]) /\ ~Stubbed(f[r])
        /\ s[k].name = n /\ s[k].kind = f[r].kind
    BY <1>2, <1>5, <1>9
  <2>2. GivenOnce(f, r) /\ IsStatement(f[r])
    BY <1>4, <2>1 DEF GivesNsig
  <2>3. \A l \in left : g[l] \in others
    BY <1>2, <1>5, <1>6, <2>1
  <2>4. CASE f[r].kind = "var" /\ others = {}
    <3>1. left = {} /\ s[k].kind = "var"
      BY <2>1, <2>3, <2>4
    <3> QED
      BY <3>1 DEF GivenOnce
  <2>5. ASSUME f[r].kind = "assign", ~Ignored(n),
               NEW v \in others, others = {v}, v < r, f[v].kind = "var"
        PROVE  GivenOnce(s, k)
    <3>1. v \in DOMAIN f /\ f[v].name = n /\ IsStatement(f[v]) /\ IsName(n) /\ ~IsMember(n)
      <4>1. v \in DOMAIN f /\ f[v].name = n
        BY <2>5
      <4>2. IsStatement(f[v])
        BY <1>4, <4>1
      <4> QED
        BY <2>5, <4>1, <4>2 DEF IsStatement
    <3>2. Base(n) = n /\ n \in Prefixes(n)
      BY <3>1, PlainName
    <3>3. n \in RegionReads(f[r]) /\ Followed(f, r) /\ n \notin BuiltIns /\ n # Param
      BY <2>1, <2>5 DEF RegionReads, Followed, SeedKind, HoldsNsig, Ignored
    <3>4. NameToRegions(f, n) \subseteq keep
      BY <2>1, <3>1, <3>2, <3>3, PrefixKept
    <3>5. v \in keep
      BY <3>1, <3>4 DEF NameToRegions, Regions
    <3>6. PICK l \in DOMAIN s : g[l] = v
      BY <1>2, <2>5, <3>5
    <3>7. s[l].name = n /\ s[l].kind = "var"
      BY <1>5, <2>5, <3>1, <3>6
    <3>8. l < k /\ l # k
      <4>1. l \in Nat /\ k \in Nat /\ g[l] \in Nat /\ g[k] \in Nat /\ g[l] < g[k]
        BY <1>2, <1>3, <1>4, <2>5, <3>6
      <4>2. ~(k < l)
        BY <1>2, <4>1
      <4> QED
        BY <4>1, <4>2
    <3>9. left = {l}
      <4>1. l \in left
        BY <2>1, <3>7, <3>8
      <4>2. \A j \in left : g[j] = v
        BY <2>3, <2>5
      <4>3. \A j \in left : j = l
        BY <1>6, <3>6, <4>2
      <4> QED
        BY <4>1, <4>3
    <3>10. s[k].kind = "assign" /\ ~Ignored(s[k].name)
      BY <2>1, <2>5
    <3> HIDE DEF r, n, others
    <3> QED
      BY <3>7, <3>8, <3>9, <3>10 DEF GivenOnce
  <2>6. \/ f[r].kind = "var" /\ others = {}
        \/ /\ f[r].kind = "assign" /\ ~Ignored(n)
           /\ \E v \in others : others = {v} /\ v < r /\ f[v].kind = "var"
    BY <2>2 DEF GivenOnce
  <2> QED
    BY <2>4, <2>5, <2>6
<1>10. GivesNsig(s)
  BY <1>8, <1>9 DEF GivesNsig
<1> QED
  BY <1>10 DEF s

NsigShaped(e) == e # None /\ e.shape = "nsig"

(* What the analysis knows of the function while it reads such a program: a
   variable holds it because its declaration or its one assignment gave it,
   the variable that was matched is one of them, and none passes unmatched. *)
FoundInv ==
  /\ \A i \in DOMAIN pool : source[i].kind = "var" \/ IsMember(source[i].name)
  /\ \A i \in DOMAIN source : i < pos /\ source[i].kind = "var" => source[i].name \in DOMAIN declared
  /\ \A i \in DOMAIN pool :
       source[i].kind = "var" /\ NsigShaped(pool[i].init) =>
         \/ HoldsNsig(source[i])
         \/ \E j \in DOMAIN source : /\ i < j /\ j < pos /\ source[j].kind = "assign"
                                     /\ source[j].name = source[i].name /\ HoldsNsig(source[j])
  /\ nsig # 0 => source[nsig].kind = "var" /\ NsigShaped(pool[nsig].init)
  /\ \A i \in DOMAIN source : i < pos /\ HoldsNsig(source[i]) => nsig # 0
  /\ stopped => nsig # 0

LEMMA FoundDeclare ==
  ASSUME TableInv, FoundInv, Advance,
         NEW pl, DOMAIN pl = DOMAIN pool, \A i \in DOMAIN pool : pl[i].init = pool[i].init,
         NEW deps, DeclareStep(pl, deps),
         Current.kind = "var" \/ (IsMember(Current.name) /\ ~HoldsNsig(Current))
  PROVE  FoundInv'
<1> DEFINE m == NewMeta(pos, deps)
           pl2 == Put(pl, pos, m)
           dc2 == Put(declared, Current.name, pos)
<1>1. /\ pos \in DOMAIN source /\ pos \notin DOMAIN pool /\ pos' = pos + 1 /\ pos \in Nat
      /\ source' = source
  BY AdvanceShape
<1>2. Len(source) \in Nat /\ DOMAIN source = 1..Len(source)
  BY SeqShape DEF TableInv
<1>3. m.init = Current.init
  BY NewMetaShape DEF Current
<1> HIDE DEF m
<1>4. /\ DOMAIN pl2 = DOMAIN pool \cup {pos} /\ pl2[pos] = m
      /\ \A i \in DOMAIN pool : pl2[i] = pl[i]
  BY <1>1 DEF Put
<1>5. DOMAIN dc2 = DOMAIN declared \cup {Current.name}
  BY DEF Put
<1>6. OnMatch(pl2, dc2, pos)
  BY DEF DeclareStep, m
<1> HIDE DEF pl2, dc2
<1>7. pool' = pl2 /\ declared' = dc2
  BY <1>6 DEF OnMatch
<1>8. Matches(pl2, pos, "nsig") <=> Current.kind = "var" /\ NsigShaped(Current.init)
  BY <1>3, <1>4 DEF Matches, NsigShaped, Current
<1>9. nsig' = IF nsig = 0 /\ Matches(pl2, pos, "nsig") THEN pos ELSE nsig
  BY <1>6 DEF OnMatch
<1>10. \A i \in DOMAIN source : i < pos' <=> i < pos \/ i = pos
  BY <1>1, <1>2
<1>11. \A i \in DOMAIN pool' : source[i].kind = "var" \/ IsMember(source[i].name)
  BY <1>4, <1>7 DEF FoundInv, Current
<1>12. \A i \in DOMAIN source : i < pos' /\ source[i].kind = "var" => source[i].name \in DOMAIN declared'
  BY <1>5, <1>7, <1>10 DEF FoundInv, Current
<1>13. ASSUME NEW i \in DOMAIN pool', source[i].kind = "var", NsigShaped(pool'[i].init)
       PROVE  \/ HoldsNsig(source[i])
              \/ \E j \in DOMAIN source : /\ i < j /\ j < pos' /\ source[j].kind = "assign"
                                          /\ source[j].name = source[i].name /\ HoldsNsig(source[j])
  <2>1. CASE i = pos
    BY <1>3, <1>4, <1>7, <1>13, <2>1 DEF Current, NsigShaped, HoldsNsig
  <2>2. CASE i \in DOMAIN pool
    <3>1. NsigShaped(pool[i].init)
      BY <1>4, <1>7, <1>13, <2>2
    <3>2. \/ HoldsNsig(source[i])
          \/ \E j \in DOMAIN source : /\ i < j /\ j < pos /\ source[j].kind = "assign"
                                      /\ source[j].name = source[i].name /\ HoldsNsig(source[j])
      BY <1>13, <2>2, <3>1 DEF FoundInv
    <3> QED
      BY <1>10, <3>2
  <2> QED
    BY <1>4, <1>7, <2>1, <2>2
<1>14. nsig' # 0 => source[nsig'].kind = "var" /\ NsigShaped(pool'[nsig'].init)
  <2>1. CASE nsig = 0 /\ Matches(pl2, pos, "nsig")
    BY <1>3, <1>4, <1>7, <1>8, <1>9, <2>1 DEF Current
  <2>2. CASE ~(nsig = 0 /\ Matches(pl2, pos, "nsig"))
    BY <1>4, <1>7, <1>9, <2>2 DEF FoundInv, TableInv
  <2> QED
    BY <2>1, <2>2
<1>15. \A i \in DOMAIN source : i < pos' /\ HoldsNsig(source[i]) => nsig' # 0
  <2>1. pos # 0
    BY <1>1, <1>2
  <2>2. HoldsNsig(source[pos]) => Matches(pl2, pos, "nsig")
    BY <1>8 DEF Current, HoldsNsig, NsigShaped
  <2> QED
    BY <1>9, <1>10, <2>1, <2>2 DEF FoundInv
<1>16. stopped' => nsig' # 0
  BY <1>6 DEF OnMatch
<1> QED
  BY <1>1, <1>11, <1>12, <1>13, <1>14, <1>15, <1>16 DEF FoundInv

LEMMA FoundAssign ==
  ASSUME TableInv, FoundInv, GivesNsig(source), AssignVariable
  PROVE  FoundInv'
<1> DEFINE n == Current.name
           i == declared[n]
           init == Current.init
<1>1. Advance /\ Current.kind = "assign" /\ ~IsMember(n)
  BY AssignShape
<1>2. /\ pos \in DOMAIN source /\ pos \notin DOMAIN pool /\ pos' = pos + 1 /\ pos \in Nat
      /\ source' = source
  BY <1>1, AdvanceShape
<1>3. Len(source) \in Nat /\ DOMAIN source = 1..Len(source)
  BY SeqShape DEF TableInv
<1>4. \A j \in DOMAIN source : j < pos' <=> j < pos \/ j = pos
  BY <1>2, <1>3
<1>5. HoldsNsig(Current) => n \in DOMAIN declared
  <2> SUFFICES ASSUME HoldsNsig(Current) PROVE n \in DOMAIN declared
    OBVIOUS
  <2>1. GivenOnce(source, pos)
    BY <1>2 DEF GivesNsig, Current
  <2>2. PICK v \in DOMAIN source : source[v].name = n /\ v < pos /\ source[v].kind = "var"
    BY <1>1, <2>1 DEF GivenOnce, Current
  <2> QED
    BY <2>2 DEF FoundInv
<1>6. CASE n \notin DOMAIN declared
  <2>1. NoMatch
    BY <1>6, AssignShape
  <2> QED
    BY <1>1, <1>2, <1>4, <1>5, <1>6, <2>1 DEF FoundInv, NoMatch, Current
<1>7. CASE n \in DOMAIN declared
  <2>1. PICK deps : OnMatch(Patched(i, init, deps), declared, i)
    BY <1>7, AssignShape
  <2>2. i \in DOMAIN pool /\ source[i].name = n /\ source[i].kind = "var" /\ i < pos /\ i \in DOMAIN source /\ i # 0
    <3>1. i \in DOMAIN pool /\ source[i].name = n /\ i < pos /\ i \in DOMAIN source
      BY <1>7 DEF TableInv, Tables, IsMeta
    <3> QED
      BY <1>1, <1>3, <3>1 DEF FoundInv
  <2>3. ~NsigShaped(pool[i].init)
    <3> SUFFICES ASSUME NsigShaped(pool[i].init) PROVE FALSE
      OBVIOUS
    <3>1. source[pos].name = n /\ pos # i /\ source[pos].kind = "assign"
      BY <1>1, <1>2, <2>2 DEF Current
    <3>2. CASE HoldsNsig(source[i])
      <4>1. GivenOnce(source, i)
        BY <2>2, <3>2 DEF GivesNsig
      <4> QED
        BY <1>2, <2>2, <3>1, <4>1 DEF GivenOnce
    <3>3. ASSUME NEW j \in DOMAIN source, i < j, j < pos, source[j].kind = "assign",
                 source[j].name = source[i].name, HoldsNsig(source[j])
          PROVE  FALSE
      <4>1. GivenOnce(source, j)
        BY <3>3 DEF GivesNsig
      <4>2. pos # j /\ i # j
        BY <1>2, <1>3, <2>2, <3>3
      <4>3. PICK v : {q \in DOMAIN source : source[q].name = source[j].name} \ {j} = {v}
        BY <3>3, <4>1 DEF GivenOnce
      <4>4. i = v /\ pos = v
        BY <1>2, <2>2, <3>1, <3>3, <4>2, <4>3
      <4> QED
        BY <3>1, <4>4
    <3> QED
      BY <2>2, <3>2, <3>3 DEF FoundInv
  <2>4. Tables(pool, declared)
    BY DEF TableInv
  <2> HIDE DEF i, init
  <2> DEFINE pl == Patched(i, init, deps)
  <2>5. /\ DOMAIN pl = DOMAIN pool /\ \A j \in DOMAIN pool : j # i => pl[j] = pool[j]
        /\ pl[i].init = init
    BY <2>2, <2>4, PatchShape
  <2>6. OnMatch(pl, declared, i)
    BY <2>1
  <2> HIDE DEF pl
  <2>7. pool' = pl /\ declared' = declared
    BY <2>6 DEF OnMatch
  <2>8. nsig' = IF nsig = 0 /\ Matches(pl, i, "nsig") THEN i ELSE nsig
    BY <2>6 DEF OnMatch
  <2>9. nsig # 0 => nsig \in DOMAIN pool /\ nsig # i
    BY <2>3 DEF FoundInv, TableInv
  <2>10. Matches(pl, i, "nsig") <=> NsigShaped(init)
    BY <2>2, <2>5 DEF Matches, NsigShaped
  <2>11. \A j \in DOMAIN pool' : source[j].kind = "var" \/ IsMember(source[j].name)
    BY <2>5, <2>7 DEF FoundInv
  <2>12. \A j \in DOMAIN source : j < pos' /\ source[j].kind = "var" => source[j].name \in DOMAIN declared'
    BY <1>1, <1>4, <2>7 DEF FoundInv, Current
  <2>13. ASSUME NEW k \in DOMAIN pool', source[k].kind = "var", NsigShaped(pool'[k].init)
         PROVE  \/ HoldsNsig(source[k])
                \/ \E j \in DOMAIN source : /\ k < j /\ j < pos' /\ source[j].kind = "assign"
                                            /\ source[j].name = source[k].name /\ HoldsNsig(source[j])
    <3>1. CASE k = i
      <4>1. /\ i < pos /\ pos < pos' /\ source[pos].kind = "assign"
            /\ source[pos].name = source[i].name
        BY <1>1, <1>2, <2>2 DEF Current
      <4>2. HoldsNsig(source[pos])
        BY <1>1, <2>5, <2>7, <2>13, <3>1 DEF HoldsNsig, NsigShaped, init, Current
      <4> QED
        BY <1>2, <3>1, <4>1, <4>2
    <3>2. CASE k # i
      <4>1. k \in DOMAIN pool /\ NsigShaped(pool[k].init)
        BY <2>5, <2>7, <2>13, <3>2
      <4>2. \/ HoldsNsig(source[k])
            \/ \E j \in DOMAIN source : /\ k < j /\ j < pos /\ source[j].kind = "assign"
                                        /\ source[j].name = source[k].name /\ HoldsNsig(source[j])
        BY <2>13, <4>1 DEF FoundInv
      <4> QED
        BY <1>4, <4>2
    <3> QED
      BY <3>1, <3>2
  <2>14. nsig' # 0 => source[nsig'].kind = "var" /\ NsigShaped(pool'[nsig'].init)
    <3>1. CASE nsig = 0 /\ Matches(pl, i, "nsig")
      BY <2>2, <2>5, <2>7, <2>8, <2>10, <3>1
    <3>2. CASE ~(nsig = 0 /\ Matches(pl, i, "nsig"))
      BY <2>5, <2>7, <2>8, <2>9, <3>2 DEF FoundInv
    <3> QED
      BY <3>1, <3>2
  <2>15. \A j \in DOMAIN source : j < pos' /\ HoldsNsig(source[j]) => nsig' # 0
    <3>1. HoldsNsig(source[pos]) => NsigShaped(init)
      BY DEF Current, HoldsNsig, NsigShaped, init
    <3> QED
      BY <1>4, <2>2, <2>8, <2>10, <3>1 DEF FoundInv
  <2>16. stopped' => nsig' # 0
    BY <2>6 DEF OnMatch
  <2> QED
    BY <1>2, <2>11, <2>12, <2>13, <2>14, <2>15, <2>16 DEF FoundInv
<1> QED
  BY <1>6, <1>7

GivesInv ==
  GivesNsig(file) =>
    /\ attempt = 1
    /\ phase \notin {"seed", "select"} => FoundInv
    /\ phase \in {"build", "done"} => nsig # 0
    /\ phase = "done" => result.ok

LEMMA FoundStart ==
  ASSUME NEW stmts, IsSeq(stmts), StartAnalysis(stmts)
  PROVE  FoundInv'
<1>1. /\ source' = stmts /\ pos' = 1 /\ pool' = << >> /\ nsig' = 0 /\ ~stopped'
  BY DEF StartAnalysis
<1>2. \A i \in DOMAIN stmts : ~(i < 1)
  BY SeqShape
<1> QED
  BY <1>1, <1>2, EmptySeqShape DEF FoundInv

LEMMA FoundAnalyze ==
  ASSUME TableInv, FoundInv, GivesNsig(source), Analyze
  PROVE  FoundInv'
<1>1. CASE DeclareVariable
  <2>1. PICK deps : Advance /\ Current.kind = "var" /\ DeclareStep(pool, deps)
    BY <1>1, DeclareShape
  <2> QED
    BY <2>1, FoundDeclare
<1>2. CASE AssignVariable
  BY <1>2, FoundAssign
<1>3. CASE AssignMember
  <2> DEFINE deps == FindDependencies(Current.init) \cup {BaseName(Current.name)}
  <2>1. PICK pl : /\ BlockTable(pl)
                  /\ \/ pool' = pl /\ UNCHANGED <<declared, nsig, sts, ready, stopped>>
                     \/ DeclareStep(pl, deps)
    BY <1>3, AssignMemberShape
  <2>2. Advance /\ Current.kind = "assign" /\ IsMember(Current.name)
    BY <1>3, AssignMemberShape
  <2>3. pos \in DOMAIN source /\ source' = source /\ pos' = pos + 1 /\ pos \in Nat
    BY <2>2, AdvanceShape
  <2>4. DOMAIN pl = DOMAIN pool /\ \A i \in DOMAIN pool : pl[i].init = pool[i].init
    BY <2>1, <2>3, BlockShape
  <2>5. ~HoldsNsig(Current)
    <3> SUFFICES ASSUME HoldsNsig(Current) PROVE FALSE
      OBVIOUS
    <3>1. GivenOnce(source, pos)
      BY <2>3 DEF GivesNsig, Current
    <3>2. PICK v \in DOMAIN source : source[v].name = Current.name /\ source[v].kind = "var"
      BY <2>2, <3>1 DEF GivenOnce, Current
    <3> QED
      BY <2>2, <3>2 DEF TableInv, IsStatement
  <2>6. CASE pool' = pl /\ UNCHANGED <<declared, nsig, sts, ready, stopped>>
    <3>1. \A i \in DOMAIN source : i < pos' <=> i < pos \/ i = pos
      BY <2>3, SeqShape DEF TableInv
    <3>2. \A i \in DOMAIN source : i < pos' /\ HoldsNsig(source[i]) => i < pos
      BY <2>5, <3>1 DEF Current
    <3>3. \A i \in DOMAIN source : i < pos' /\ source[i].kind = "var" => i < pos
      BY <2>2, <3>1 DEF Current
    <3>4. \A i \in DOMAIN pool' : source[i].kind = "var" \/ IsMember(source[i].name)
      BY <2>4, <2>6 DEF FoundInv
    <3>5. \A i \in DOMAIN source : i < pos' /\ source[i].kind = "var" => source[i].name \in DOMAIN declared'
      BY <2>6, <3>3 DEF FoundInv
    <3>6. \A i \in DOMAIN source : i < pos' /\ HoldsNsig(source[i]) => nsig' # 0
      BY <2>6, <3>2 DEF FoundInv
    <3>7. nsig' # 0 => source[nsig'].kind = "var" /\ NsigShaped(pool'[nsig'].init)
      BY <2>4, <2>6 DEF FoundInv, TableInv
    <3>8. stopped' => nsig' # 0
      BY <2>6 DEF FoundInv
    <3>9. \A i \in DOMAIN pool' :
            source[i].kind = "var" /\ NsigShaped(pool'[i].init) =>
              \/ HoldsNsig(source[i])
              \/ \E j \in DOMAIN source : /\ i < j /\ j < pos' /\ source[j].kind = "assign"
                                          /\ source[j].name = source[i].name /\ HoldsNsig(source[j])
      <4> SUFFICES ASSUME NEW i \in DOMAIN pool', source[i].kind = "var", NsigShaped(pool'[i].init)
                   PROVE  \/ HoldsNsig(source[i])
                          \/ \E j \in DOMAIN source : /\ i < j /\ j < pos' /\ source[j].kind = "assign"
                                                      /\ source[j].name = source[i].name /\ HoldsNsig(source[j])
        OBVIOUS
      <4>1. i \in DOMAIN pool /\ NsigShaped(pool[i].init)
        BY <2>4, <2>6
      <4>2. \/ HoldsNsig(source[i])
            \/ \E j \in DOMAIN source : /\ i < j /\ j < pos /\ source[j].kind = "assign"
                                        /\ source[j].name = source[i].name /\ HoldsNsig(source[j])
        BY <4>1 DEF FoundInv
      <4> QED
        BY <3>1, <4>2
    <3> QED
      BY <2>3, <3>4, <3>5, <3>6, <3>7, <3>8, <3>9 DEF FoundInv
  <2>7. CASE DeclareStep(pl, deps)
    <3> HIDE DEF deps
    <3> QED
      BY <2>2, <2>4, <2>5, <2>7, FoundDeclare
  <2> QED
    BY <2>1, <2>6, <2>7
<1>4. CASE SkipStatement
  <2>1. /\ Advance /\ Current.kind = "function"
        /\ UNCHANGED <<pool, declared, nsig, stopped>>
    BY <1>4 DEF SkipStatement, NoMatch
  <2>2. pos' = pos + 1 /\ pos \in Nat /\ source' = source
    BY <2>1, AdvanceShape
  <2>3. \A i \in DOMAIN source : i < pos' <=> i < pos \/ i = pos
    BY <2>2, SeqShape DEF TableInv
  <2> QED
    BY <2>1, <2>2, <2>3 DEF FoundInv, Current, HoldsNsig
<1> QED
  BY <1>1, <1>2, <1>3, <1>4 DEF Analyze

LEMMA SameFound ==
  ASSUME FoundInv, UNCHANGED <<source, anVars>>
  PROVE  FoundInv'
BY DEF FoundInv, anVars

(* A matched function that is still in its variable is exported. *)
LEMMA FoundExported ==
  ASSUME FoundInv, nsig # 0
  PROVE  Exported
BY DEF FoundInv, NsigShaped, Exported, FunctionLike

LEMMA GivesStep ==
  ASSUME SelInv, KeptIsClosure', TableInv, TaskInv, CoverInv, GivesInv, [Next]_vars
  PROVE  GivesInv'
<1>1. file' = file
  BY StepSelects DEF SelNext, Seed, Follow, SelectEnds, Later, selVars
<1> SUFFICES ASSUME GivesNsig(file) PROVE GivesInv'
  BY <1>1 DEF GivesInv
<1>2. /\ attempt = 1
      /\ phase \notin {"seed", "select"} => FoundInv
      /\ phase \in {"build", "done"} => nsig # 0
      /\ phase = "done" => result.ok
  BY DEF GivesInv
<1>3. phase \notin {"seed", "select"} => GivesNsig(source)
  BY <1>2, ReductionGives DEF CoverInv, Selected, TableInv
<1>4. CASE Select
  BY <1>1, <1>2, <1>4 DEF Select, Seed, Follow, GivesInv
<1>5. CASE AnalyzeReduced
  <2>1. /\ phase' = "analyze" /\ attempt' = attempt /\ StartAnalysis(Reduced(file, kept))
        /\ kept \in SUBSET Regions(file) /\ file \in Files
    BY <1>5 DEF AnalyzeReduced, SelectEnds, SelInv, TableInv
  <2>2. FoundInv'
    BY <2>1, ReducedShape, FoundStart
  <2> QED
    BY <1>2, <2>1, <2>2 DEF GivesInv
<1>6. CASE Analyze
  <2>1. phase = "analyze" /\ UNCHANGED <<phase, attempt>>
    BY <1>6 DEF Analyze, DeclareVariable, AssignVariable, AssignMember, SkipStatement, Advance, selVars
  <2>2. FoundInv'
    BY <1>2, <1>3, <1>6, <2>1, FoundAnalyze
  <2> QED
    BY <1>2, <2>1, <2>2 DEF GivesInv
<1>7. CASE StartBuild
  <2>1. /\ phase = "analyze" /\ phase' = "build" /\ UNCHANGED <<attempt, source, anVars>>
        /\ stopped \/ pos > Len(source)
    BY <1>7 DEF StartBuild
  <2>2. FoundInv /\ GivesNsig(source)
    BY <1>2, <1>3, <2>1
  <2>3. nsig # 0
    <3>1. CASE stopped
      BY <2>2, <3>1 DEF FoundInv
    <3>2. CASE pos > Len(source)
      <4>1. PICK i \in DOMAIN source : HoldsNsig(source[i])
        BY <2>2 DEF GivesNsig
      <4>2. i < pos
        BY <3>2, SeqShape DEF TableInv
      <4> QED
        BY <2>2, <4>1, <4>2 DEF FoundInv
    <3> QED
      BY <2>1, <3>1, <3>2
  <2>4. FoundInv' /\ nsig' # 0
    BY <2>1, <2>2, <2>3, SameFound DEF anVars
  <2> QED
    BY <1>2, <2>1, <2>4 DEF GivesInv
<1>8. CASE Emit \/ \E d : Visit(d)
  <2>1. phase = "build" /\ UNCHANGED <<phase, attempt, source, anVars>>
    BY <1>8 DEF Emit, Visit, selVars
  <2>2. FoundInv' /\ nsig' # 0
    BY <1>2, <2>1, SameFound DEF anVars
  <2> QED
    BY <1>2, <2>1, <2>2 DEF GivesInv
<1>9. CASE AnalyzeFile
  <2>1. phase = "build" /\ ~Exported
    BY <1>9 DEF AnalyzeFile
  <2> QED
    BY <1>2, <2>1, FoundExported
<1>10. CASE Finish
  <2>1. phase = "build" /\ phase' = "done" /\ UNCHANGED <<attempt, source, anVars>>
        /\ result' = [ok |-> Exported, sts |-> Timestamp]
    BY <1>10 DEF Finish
  <2>2. FoundInv' /\ nsig' # 0
    BY <1>2, <2>1, SameFound DEF anVars
  <2>3. Exported
    BY <1>2, <2>1, FoundExported
  <2>4. result'.ok = TRUE
    <3>1. Exported = TRUE
      BY <2>3, Zenon DEF Exported
    <3>2. result' = [ok |-> TRUE, sts |-> Timestamp]
      BY <2>1, <3>1
    <3> QED
      BY <3>2
  <2> QED
    BY <1>2, <2>1, <2>2, <2>4 DEF GivesInv
<1>11. CASE UNCHANGED vars
  <2>1. UNCHANGED <<phase, attempt, source, anVars, nsig, result>>
    BY <1>11 DEF vars, selVars, anVars
  <2>2. FoundInv => FoundInv'
    BY <2>1, SameFound
  <2> QED
    BY <1>2, <2>1, <2>2 DEF GivesInv
<1> QED
  BY <1>4, <1>5, <1>6, <1>7, <1>8, <1>9, <1>10, <1>11 DEF Next, Build

(* The first timestamp in the text, where there is one, is a name. *)
LEMMA TimestampParsed ==
  ASSUME NEW f \in Files, NEW r \in DOMAIN f, f[r].init # None, f[r].init.shape = "sts"
  PROVE  ParseSts(f) # None
<1> DEFINE at == {i \in DOMAIN f : f[i].init # None /\ f[i].init.shape = "sts"}
           first == CHOOSE i \in at : \A j \in at : i <= j
<1>1. Len(f) \in Nat /\ DOMAIN f = 1..Len(f) /\ \A i \in DOMAIN f : IsStatement(f[i])
  BY FilesAssumption, SeqShape
<1>2. at \in SUBSET (1..Len(f)) /\ r \in at
  BY <1>1
<1>3. \E i \in at : \A j \in at : i <= j
  <2> HIDE DEF at
  <2>1. /\ Cardinality(at) \in Nat
        /\ \A k \in 1..Cardinality(at) : Position(at, k) \in at
        /\ \A k, l \in 1..Cardinality(at) : k < l => Position(at, k) < Position(at, l)
        /\ \A i \in at : \E k \in 1..Cardinality(at) : Position(at, k) = i
    BY <1>1, <1>2, PositionProperties
  <2>2. 1 \in 1..Cardinality(at)
    BY <1>2, <2>1
  <2>3. ASSUME NEW j \in at PROVE Position(at, 1) <= j
    <3>1. PICK k \in 1..Cardinality(at) : Position(at, k) = j
      BY <2>1
    <3>2. Position(at, 1) \in Nat /\ j \in Nat
      BY <1>1, <1>2, <2>1, <2>2
    <3>3. k = 1 \/ 1 < k
      BY <2>1
    <3> QED
      BY <2>1, <2>2, <3>1, <3>2, <3>3
  <2> QED
    BY <2>1, <2>2, <2>3
<1>4. first \in at
  BY <1>3
<1>5. ParseSts(f) = f[first].name
  BY <1>2 DEF ParseSts
<1> QED
  BY <1>1, <1>4, <1>5 DEF IsStatement, IsName

StsInv ==
  phase = "done" /\ (\E r \in DOMAIN file : file[r].init # None /\ file[r].init.shape = "sts")
    => result.sts # None

LEMMA StsStep ==
  ASSUME TableInv, StsInv, [Next]_vars
  PROVE  StsInv'
<1>1. CASE Finish
  <2>1. file' = file /\ result' = [ok |-> Exported, sts |-> Timestamp]
    BY <1>1 DEF Finish
  <2>2. result'.sts = Timestamp
    BY <2>1
  <2> SUFFICES ASSUME NEW r \in DOMAIN file, file[r].init # None, file[r].init.shape = "sts"
               PROVE  Timestamp # None
    BY <2>1, <2>2 DEF StsInv
  <2>3. ParseSts(file) # None
    BY TimestampParsed DEF TableInv
  <2> QED
    BY <2>3 DEF Timestamp
<1>2. CASE ~Finish /\ ~UNCHANGED vars
  <2>1. phase' # "done"
    BY <1>2 DEF Next, Select, Seed, Follow, AnalyzeReduced, SelectEnds, Analyze, DeclareVariable,
                AssignVariable, AssignMember, SkipStatement, Advance, selVars, Build, StartBuild,
                Emit, Visit, AnalyzeFile
  <2> QED
    BY <2>1 DEF StsInv
<1>3. CASE UNCHANGED vars
  BY <1>3 DEF vars, selVars, StsInv
<1> QED
  BY <1>1, <1>2, <1>3

(* A function that is given once is extracted, and from the reduced program;
   a timestamp in the file is always found. *)
THEOREM FunctionIsExtracted == Spec => []ExtractionSucceeds
<1>1. Init => GivesInv /\ StsInv
  BY DEF Init, SelInit, GivesInv, StsInv
<1>2. SelInv /\ KeptIsClosure' /\ TableInv /\ TaskInv /\ CoverInv /\ GivesInv /\ [Next]_vars => GivesInv'
  BY GivesStep
<1>3. TableInv /\ StsInv /\ [Next]_vars => StsInv'
  BY StsStep
<1>4. GivesInv /\ StsInv => ExtractionSucceeds
  BY DEF GivesInv, GivesNsig, StsInv, ExtractionSucceeds
<1> QED
  BY <1>1, <1>2, <1>3, <1>4, ScriptInvariance, CoverInvariance, ExtractionKeepsClosure, PTL DEF Spec
=============================================================================
