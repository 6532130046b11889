----------------------------- MODULE NsigSource -----------------------------
(***************************************************************************)
(* The player's base.js as the extractor sees it: the statements at the    *)
(* top of its one function, with every multi-declarator `var` split.  A    *)
(* name is the sequence of its components, <<"a">> or <<"g", "r">>.  An    *)
(* expression is its syntactic shape and the free names it reads, each at  *)
(* full length (a.b.c and not a.b); scopes are resolved beforehand.        *)
(***************************************************************************)
EXTENDS Subsequences

CONSTANTS
  None,      \* no initializer, no node, no alias
  Param,     \* name of the parameter of the enclosing function
  BuiltIns,  \* names the analysis takes for granted (Math, window, ...)
  Files      \* the files a download may bring: sequences of statements

Shapes == {"nsig", "sts", "function", "literal", "identifier", "prototype",
           "member", "call", "object", "{}", "undefined"}

Base(n) == <<n[1]>>
IsMember(n) == Len(n) > 1
Prefixes(n) == {SubSeq(n, 1, k) : k \in 1..Len(n)}
Extends(n, p) == Len(n) > Len(p) /\ SubSeq(n, 1, Len(p)) = p

Ignored(n) == n \in BuiltIns \/ n = Param

FunctionLike(e) == e.shape \in {"nsig", "sts", "function"}

(* A constant needs no analysis: its reader keeps the dependencies it had. *)
NeedsAnalysis(e) == e.shape # "literal"

(* Evaluating it at load time has no side effect; otherwise the value is
   replaced.  A "call" is one of a function of the file, an "object" holds
   functions and constants only, "prototype" is X.prototype, "{}" and
   "undefined" are what a value is replaced with. *)
Safe(e) == e.shape \notin {"member", "call"}

Fallback(e) == [shape |-> IF e.shape \in {"member", "object", "{}"} THEN "{}" ELSE "undefined",
                reads |-> {}]

(* The selector's own test for the same thing. *)
DefinitelyStripped(e) == e.shape \in {"member", "call"}

(* The owner X of an alias statement g.r = X.prototype. *)
IsAlias(s) == s.init # None /\ s.init.shape = "prototype"
Owner(s) == LET chain == CHOOSE c \in s.init.reads : TRUE
            IN SubSeq(chain, 1, Len(chain) - 1)

IsName(n) == n # None /\ IsSeq(n) /\ n # << >>

(* Only an assignment has a member on its left-hand side. *)
IsStatement(s) ==
  /\ s = [kind |-> s.kind, name |-> s.name, init |-> s.init]
  /\ s.kind \in {"var", "assign", "function"}
  /\ IsName(s.name)
  /\ IsMember(s.name) => s.kind = "assign"
  /\ IF s.init = None THEN s.kind = "var"
     ELSE /\ s.init = [shape |-> s.init.shape, reads |-> s.init.reads]
          /\ s.init.shape \in Shapes
          /\ \A c \in s.init.reads : IsName(c)

(* Where several aliases fit one member the selector takes any of them; in
   the files considered no alias is a prefix of another. *)
ASSUME FilesAssumption ==
  \A f \in Files :
    /\ IsSeq(f)
    /\ \A i, j \in DOMAIN f :
         /\ IsStatement(f[i])
         /\ IsAlias(f[i]) /\ IsAlias(f[j]) => ~Extends(f[i].name, f[j].name)
=============================================================================
