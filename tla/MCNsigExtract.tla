---------------------------- MODULE MCNsigExtract ----------------------------
(* Instances of NsigExtract for TLC: files put together from a few groups of
   statements about the nsig function n, the timestamp variable t, a variable
   a, a class X with members assigned through the alias g.r, a function f. *)
EXTENDS NsigExtract

MCParam == <<"g">>
MCBuiltIns == {<<"Math">>, <<"undefined">>}

n == <<"n">>
t == <<"t">>
a == <<"a">>
X == <<"X">>
f == <<"f">>
am == <<"a", "m">>
gr == <<"g", "r">>
grk == <<"g", "r", "k">>

Stmt(kind, name, shape, reads) ==
  [kind |-> kind, name |-> name,
   init |-> IF shape = "none" THEN None ELSE [shape |-> shape, reads |-> reads]]

NsigFunction ==
  {<<Stmt("var", n, "nsig", {a})>>,
   <<Stmt("assign", n, "nsig", {am, f, X})>>}

Groups ==
  {<<Stmt("var", n, "none", {})>>,
   <<Stmt("assign", n, "sts", {X})>>,
   <<Stmt("var", t, "sts", {a})>>,
   <<Stmt("var", a, "none", {})>>,
   <<Stmt("var", a, "function", {am})>>,
   <<Stmt("assign", a, "function", {am, t})>>,
   <<Stmt("assign", a, "call", {X})>>,
   <<Stmt("assign", am, "function", {<<"Math", "max">>, gr})>>,
   <<Stmt("assign", am, "member", {<<"X", "y">>}), Stmt("function", f, "function", {a})>>,
   <<Stmt("assign", gr, "prototype", {<<"X", "prototype">>}), Stmt("assign", grk, "function", {a})>>,
   <<Stmt("var", X, "function", {grk})>>}

(* Four groups, exactly one of them the nsig function. *)
MCFiles ==
  UNION {{s \o x \o y \o z, x \o s \o y \o z, x \o y \o s \o z, x \o y \o z \o s} :
            s \in NsigFunction, x \in Groups, y \in Groups, z \in Groups}
=============================================================================
