----------------------------- MODULE KconfExpr -----------------------------
(***************************************************************************)
(* The dependency expressions of kconf/expr.c.  An expression is a record  *)
(* whose field t is its type; symbols are names, with the constant symbols *)
(* y, m and n among them.  The functions that rewrite an expression in     *)
(* place are operators that return the new one.                            *)
(***************************************************************************)
EXTENDS Integers, Sequences, FiniteSets, TLC, SequencesExt

CONSTANTS
    Bools,      \* symbols of type bool; "MODULES" is one of them
    Tristates   \* symbols of type tristate

ASSUME SymbolsAssumption ==
    /\ "MODULES" \in Bools
    /\ Bools \intersect Tristates = {}
    /\ {"y", "m", "n"} \intersect (Bools \union Tristates) = {}

Consts == {"y", "m", "n"}
Symbols == Bools \union Tristates
Relations == {"EQUAL", "UNEQUAL", "LTH", "LEQ", "GTH", "GEQ"}

no == 0
mod == 1
yes == 2

Null == [t |-> "NULL"]
Sym(s) == [t |-> "SYMBOL", sym |-> s]
Comp(type, s1, s2) == [t |-> type, sym |-> s1, rsym |-> s2]
Not(e) == [t |-> "NOT", arg |-> e]
Two(type, a, b) == [t |-> type, left |-> a, right |-> b]

expr_alloc_and(a, b) == IF a = Null THEN b ELSE IF b = Null THEN a ELSE Two("AND", a, b)
expr_alloc_or(a, b) == IF a = Null THEN b ELSE IF b = Null THEN a ELSE Two("OR", a, b)

IsConst(e, c) == e.t = "SYMBOL" /\ e.sym = c
expr_is_yes(e) == e = Null \/ IsConst(e, "y")

-----------------------------------------------------------------------------
(* Values.                                                                 *)

\* The values that symbols can have together: a bool is never m, and without
\* modules sym_get_type() makes a bool of every tristate.
Values == {v \in {b @@ t @@ ("y" :> yes @@ "m" :> mod @@ "n" :> no) :
                     b \in [Bools -> {no, yes}], t \in [Tristates -> {no, mod, yes}]} :
              v["MODULES"] = no => \A s \in Tristates : v[s] # mod}

\* The strings "m" < "n" < "y" in the order of strcmp().
Strcmp(v) == CASE v = mod -> 0 [] v = no -> 1 [] v = yes -> 2

\* Two symbols are compared as numbers, a symbol and a constant as strings.
Compare(e, v) ==
    IF {e.sym, e.rsym} \subseteq Symbols THEN v[e.sym] - v[e.rsym]
    ELSE Strcmp(v[e.sym]) - Strcmp(v[e.rsym])

RelationHolds(type, res) ==
    CASE type = "EQUAL" -> res = 0  [] type = "UNEQUAL" -> res # 0
      [] type = "GEQ" -> res >= 0   [] type = "GTH" -> res > 0
      [] type = "LEQ" -> res <= 0   [] type = "LTH" -> res < 0

RECURSIVE expr_calc_value(_, _)
expr_calc_value(e, v) ==
    CASE e.t = "NULL" -> yes
      [] e.t = "SYMBOL" -> v[e.sym]
      [] e.t = "AND" -> LET a == expr_calc_value(e.left, v)
                            b == expr_calc_value(e.right, v) IN IF a < b THEN a ELSE b
      [] e.t = "OR" -> LET a == expr_calc_value(e.left, v)
                           b == expr_calc_value(e.right, v) IN IF a > b THEN a ELSE b
      [] e.t = "NOT" -> 2 - expr_calc_value(e.arg, v)
      [] OTHER -> IF RelationHolds(e.t, Compare(e, v)) THEN yes ELSE no

-----------------------------------------------------------------------------
(* Equality and the removal of y and n.                                    *)

\* expr && n -> n, expr && y -> expr, expr || n -> expr, expr || y -> y
RECURSIVE expr_eliminate_yn(_)
expr_eliminate_yn(e) ==
    IF e.t \notin {"AND", "OR"} THEN e
    ELSE LET a == expr_eliminate_yn(e.left)
             b == expr_eliminate_yn(e.right)
             Zero == IF e.t = "AND" THEN "n" ELSE "y"
             One == IF e.t = "AND" THEN "y" ELSE "n"
         IN  CASE IsConst(a, Zero) -> Sym(Zero)
               [] IsConst(a, One) -> b
               [] IsConst(b, Zero) -> Sym(Zero)
               [] IsConst(b, One) -> a
               [] OTHER -> Two(e.t, a, b)

\* The operands of an expression on one level of && or ||, and the expression
\* with other operands in their places.
RECURSIVE Leaves(_, _)
Leaves(type, e) ==
    IF e.t = type THEN Leaves(type, e.left) \o Leaves(type, e.right) ELSE <<e>>

RECURSIVE Rebuild(_, _, _)
Rebuild(type, e, ls) ==
    IF e.t # type THEN ls[1]
    ELSE LET n == Len(Leaves(type, e.left))
         IN  Two(type, Rebuild(type, e.left, SubSeq(ls, 1, n)),
                       Rebuild(type, e.right, SubSeq(ls, n + 1, Len(ls))))

\* The pairs <<i, j>> in the order of the two nested recursions.
Pairs(n1, n2) == [k \in 1 .. n1 * n2 |-> <<((k - 1) \div n2) + 1, ((k - 1) % n2) + 1>>]

Unit(type) == Sym(IF type = "OR" THEN "n" ELSE "y")

RECURSIVE expr_eq(_, _), expr_eliminate_eq(_, _)

RebuildBoth(type, a, b, ls) == <<Rebuild(type, a, ls[1]), Rebuild(type, b, ls[2])>>

\* __expr_eliminate_eq(): equal operands of a and b are both replaced.
EliminateEq(type, a, b) ==
    LET la == Leaves(type, a)
        lb == Leaves(type, b)
        Same(x, y) == x = y /\ (IsConst(x, "y") \/ IsConst(x, "n"))
        Step(l, p) ==
            LET x == l[1][p[1]]
                y == l[2][p[2]]
            IN  IF ~Same(x, y) /\ expr_eq(x, y)
                THEN <<[l[1] EXCEPT ![p[1]] = Unit(type)], [l[2] EXCEPT ![p[2]] = Unit(type)]>>
                ELSE l
    IN  RebuildBoth(type, a, b, FoldLeft(Step, <<la, lb>>, Pairs(Len(la), Len(lb))))

\* The second of the two rounds, on the level of the right expression.
EliminateEqRight(p) ==
    IF p[1].t # p[2].t /\ p[2].t \in {"AND", "OR"} THEN EliminateEq(p[2].t, p[1], p[2]) ELSE p

EliminateBothYn(p) == <<expr_eliminate_yn(p[1]), expr_eliminate_yn(p[2])>>

\* Both expressions, without the operands that are common to them.
expr_eliminate_eq(a, b) ==
    IF Null \in {a, b} THEN <<a, b>>
    ELSE EliminateBothYn(EliminateEqRight(
             IF a.t \in {"AND", "OR"} THEN EliminateEq(a.t, a, b) ELSE <<a, b>>))

SameSymbol(p) == p[1].t = "SYMBOL" /\ p[1] = p[2]

expr_eq(a, b) ==
    CASE a.t # b.t -> FALSE
      [] a.t = "NOT" -> expr_eq(a.arg, b.arg)
      [] a.t \in {"AND", "OR"} -> SameSymbol(expr_eliminate_eq(a, b))
      [] OTHER -> a = b

-----------------------------------------------------------------------------
(* Joining two operands of one level; Null: they stay as they are.         *)

IsRel(e, type, c) == e.t = type /\ e.rsym = c

\* The symbol that both are about, "" if there is none.
CommonSymbol(a, b) ==
    LET Simple == {"EQUAL", "UNEQUAL", "SYMBOL"}
        SymOf(e, under) == IF e.t \in Simple THEN e.sym
                           ELSE IF e.t = "NOT" /\ e.arg.t \in under THEN e.arg.sym ELSE ""
        s1 == SymOf(a, Simple)
        s2 == SymOf(b, {"SYMBOL"})
    IN  IF s1 = s2 /\ s1 \in Symbols THEN s1 ELSE ""

\* {a, b} = {s=x, s=y}
BothRel(a, b, type, x, y) == \/ IsRel(a, type, x) /\ IsRel(b, type, y)
                             \/ IsRel(a, type, y) /\ IsRel(b, type, x)
\* {a, b} = {s, s=x}
SymRel(a, b, type, x) == \/ a.t = "SYMBOL" /\ IsRel(b, type, x)
                         \/ b.t = "SYMBOL" /\ IsRel(a, type, x)

expr_join_or(a, b) ==
    LET s == CommonSymbol(a, b) IN
    CASE expr_eq(a, b) -> a
      [] s \in Tristates /\ BothRel(a, b, "EQUAL", "y", "m") -> Comp("UNEQUAL", s, "n")
      [] s \in Tristates /\ BothRel(a, b, "EQUAL", "y", "n") -> Comp("UNEQUAL", s, "m")
      [] s \in Tristates /\ BothRel(a, b, "EQUAL", "m", "n") -> Comp("UNEQUAL", s, "y")
      [] s \in Bools /\ (a = Not(b) \/ b = Not(a)) -> Sym("y")
      [] OTHER -> Null

\* (a='b') && (a!='c') -> 'b'='c' ? 'n' : a='b'
EqualAndUnequal(s, b, c) == IF b = c THEN Sym("n") ELSE Comp("EQUAL", s, b)

\* The case (a) && (a!='m') forgets that a may be m.
expr_join_andForgetsM(a, b) ==
    LET s == CommonSymbol(a, b) IN
    CASE expr_eq(a, b) -> a
      [] s \in Symbols /\ SymRel(a, b, "EQUAL", "y") -> Comp("EQUAL", s, "y")
      [] s \in Symbols /\ SymRel(a, b, "UNEQUAL", "n") -> Sym(s)
      [] s \in Symbols /\ SymRel(a, b, "UNEQUAL", "m") -> Sym(s)
      [] OTHER -> Null

expr_join_and(a, b) ==
    LET s == CommonSymbol(a, b) IN
    CASE expr_eq(a, b) -> a
      [] s \in Symbols /\ SymRel(a, b, "EQUAL", "y") -> Comp("EQUAL", s, "y")
      [] s \in Symbols /\ SymRel(a, b, "UNEQUAL", "n") -> Sym(s)
      [] s \in Symbols /\ SymRel(a, b, "UNEQUAL", "m") -> Comp("EQUAL", s, "y")
      [] s \in Tristates /\ a.t = "EQUAL" /\ b.t = "UNEQUAL" /\ {a.rsym, b.rsym} \subseteq Consts ->
            EqualAndUnequal(s, a.rsym, b.rsym)
      [] s \in Tristates /\ a.t = "UNEQUAL" /\ b.t = "EQUAL" /\ {a.rsym, b.rsym} \subseteq Consts ->
            EqualAndUnequal(s, b.rsym, a.rsym)
      [] s \in Tristates /\ BothRel(a, b, "UNEQUAL", "y", "n") -> Comp("EQUAL", s, "m")
      [] s \in Tristates /\ BothRel(a, b, "UNEQUAL", "y", "m") -> Comp("EQUAL", s, "n")
      [] s \in Tristates /\ BothRel(a, b, "UNEQUAL", "m", "n") -> Comp("EQUAL", s, "y")
      [] OTHER -> Null

\* A pass over the operands carries them and whether one has changed.  Two of
\* them joined to j; Null: they stay, the first one simplified to d.
Joined(type, pass, p, d, j) ==
    IF j = Null THEN <<[pass[1] EXCEPT ![p[1]] = d[1]], pass[2] \/ d[2]>>
    ELSE <<[pass[1] EXCEPT ![p[1]] = Unit(type), ![p[2]] = j], TRUE>>

JoinPair(type, pass, p, d) ==
    LET other == pass[1][p[2]]
    IN  Joined(type, pass, p, d, IF type = "OR" THEN expr_join_or(d[1], other)
                                                ELSE expr_join_and(d[1], other))

\* expr_eliminate_dups1(type, &e, &e): <<the expression, whether it changed>>.
RECURSIVE EliminateDups1(_, _)
EliminateDups1(type, e) ==
    LET ls == Leaves(type, e)
        Step(pass, p) ==
            LET x == pass[1][p[1]]
            IN  IF p[1] = p[2] THEN pass
                ELSE JoinPair(type, pass, p,
                        IF x.t \in {"AND", "OR"} THEN EliminateDups1(x.t, x) ELSE <<x, FALSE>>)
        Rebuilt(pass) == <<Rebuild(type, e, pass[1]), pass[2]>>
    IN  Rebuilt(FoldLeft(Step, <<ls, FALSE>>, Pairs(Len(ls), Len(ls))))

\* Passes until nothing changes.
RECURSIVE expr_eliminate_dups(_)
Repeat(pass) == IF pass[2] THEN expr_eliminate_dups(expr_eliminate_yn(pass[1])) ELSE pass[1]
expr_eliminate_dups(e) == IF e.t \notin {"AND", "OR"} THEN e ELSE Repeat(EliminateDups1(e.t, e))

-----------------------------------------------------------------------------
(* Rewriting.                                                              *)

\* FOO!=n -> FOO for a tristate FOO.
RECURSIVE expr_trans_bool(_)
expr_trans_bool(e) ==
    CASE e.t \in {"AND", "OR"} -> Two(e.t, expr_trans_bool(e.left), expr_trans_bool(e.right))
      [] e.t = "NOT" -> Not(expr_trans_bool(e.arg))
      [] e.t = "UNEQUAL" /\ e.sym \in Tristates /\ e.rsym = "n" -> Sym(e.sym)
      [] OTHER -> e

\* A bool compared with a constant.
BoolCompare(e) ==
    LET true == IF e.t = "EQUAL" THEN "y" ELSE "n"
    IN  CASE e.rsym = true -> Sym(e.sym)
          [] e.rsym = "m" -> Sym(IF e.t = "EQUAL" THEN "n" ELSE "y")
          [] e.rsym \in {"y", "n"} \ {true} -> Not(Sym(e.sym))
          [] OTHER -> e

Opposite(type) ==
    CASE type = "EQUAL" -> "UNEQUAL" [] type = "UNEQUAL" -> "EQUAL"
      [] type = "LEQ" -> "GTH" [] type = "GEQ" -> "LTH"
      [] type = "LTH" -> "GEQ" [] type = "GTH" -> "LEQ"

RECURSIVE expr_transform(_)
\* The negation of an expression that was transformed already.
Negate(a) ==
    CASE a.t = "NOT" -> expr_transform(a.arg)
      [] a.t \in Relations -> [a EXCEPT !.t = Opposite(a.t)]
      [] a.t = "OR" -> expr_transform(Two("AND", Not(a.left), Not(a.right)))
      [] a.t = "AND" -> expr_transform(Two("OR", Not(a.left), Not(a.right)))
      [] IsConst(a, "y") -> Sym("n")
      [] IsConst(a, "n") -> Sym("y")
      [] IsConst(a, "m") -> a
      [] OTHER -> Not(a)

expr_transform(e) ==
    CASE e.t \in {"AND", "OR"} -> Two(e.t, expr_transform(e.left), expr_transform(e.right))
      [] e.t = "NOT" -> Negate(expr_transform(e.arg))
      [] e.t \in {"EQUAL", "UNEQUAL"} /\ e.sym \in Bools -> BoolCompare(e)
      [] OTHER -> e

\* Explicit comparisons with the constant c.
RECURSIVE expr_trans_compare(_, _, _)
expr_trans_compare(e, type, c) ==
    LET If(negate, x) == IF negate THEN Not(x) ELSE x
        Both(op) == If(type = "UNEQUAL",
                       Two(op, expr_trans_compare(e.left, "EQUAL", c),
                               expr_trans_compare(e.right, "EQUAL", c)))
    IN  CASE e = Null -> If(type = "UNEQUAL", Sym(c))
          [] e.t = "AND" -> Both(IF c = "y" THEN "AND" ELSE "OR")
          [] e.t = "OR" -> Both(IF c = "y" THEN "OR" ELSE "AND")
          [] e.t = "NOT" -> expr_trans_compare(e.arg, IF type = "EQUAL" THEN "UNEQUAL" ELSE "EQUAL", c)
          [] e.t \in Relations -> If((type = "EQUAL") # (c = "y"), e)
          [] e.t = "SYMBOL" -> Comp(type, e.sym, c)

RECURSIVE expr_contains_symbol(_, _)
expr_contains_symbol(e, s) ==
    CASE e.t = "NULL" -> FALSE
      [] e.t \in {"AND", "OR"} -> expr_contains_symbol(e.left, s) \/ expr_contains_symbol(e.right, s)
      [] e.t = "NOT" -> expr_contains_symbol(e.arg, s)
      [] e.t = "SYMBOL" -> e.sym = s
      [] OTHER -> s \in {e.sym, e.rsym}

RECURSIVE expr_depends_symbol(_, _)
expr_depends_symbol(e, s) ==
    CASE e.t = "AND" -> expr_depends_symbol(e.left, s) \/ expr_depends_symbol(e.right, s)
      [] e.t = "SYMBOL" -> e.sym = s
      [] e.t = "EQUAL" -> e.sym = s /\ e.rsym \in {"y", "m"}
      [] e.t = "UNEQUAL" -> e.sym = s /\ e.rsym = "n"
      [] OTHER -> FALSE

=============================================================================
