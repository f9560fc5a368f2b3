----------------------------- MODULE KconfigExpr -----------------------------
(***************************************************************************)
(* The dependency expressions of kconfig (support/kconfig/expr.c).         *)
(* Expressions are trees over symbols; the functions of expr.c rewrite     *)
(* them in place, through pointers to the fields that hold them.  Here a   *)
(* field is the path that leads to it from the root, so that two fields    *)
(* are the same when their paths are.  A pair of expressions handled at    *)
(* once is a tree with a "pair" node at its root.                          *)
(***************************************************************************)
EXTENDS Integers, Sequences, FiniteSets

CONSTANTS Bools, Tris,   \* the symbols of type S_BOOLEAN and S_TRISTATE
          Modules        \* modules_val: symbols can be m

ASSUME ExprAssumption ==
    /\ Modules \in BOOLEAN
    /\ (Bools \cup Tris) \cap {"y", "m", "n"} = {} /\ Bools \cap Tris = {}

-----------------------------------------------------------------------------
(* Nodes, and expr_calc_value *)

Sym(s)      == [t |-> "sym", s |-> s]
Comp(t, s, c) == [t |-> t, l |-> s, r |-> c]
Not(a)      == [t |-> "not", a |-> a]
Two(t, a, b) == [t |-> t, a |-> a, b |-> b]
Null        == [t |-> "null"]

IsSym(e, s) == e.t = "sym" /\ e.s = s

(* expr_alloc_and, expr_alloc_or: a missing expression is left out. *)
AllocTwo(t, a, b) == IF a = Null THEN b ELSE IF b = Null THEN a ELSE Two(t, a, b)

Assignments ==
    {f \in [Bools \cup Tris -> 0..2] :
       \A s \in DOMAIN f : f[s] = 1 => s \in Tris /\ Modules}

SymValue(s, f) == CASE s = "n" -> 0 [] s = "m" -> 1 [] s = "y" -> 2 [] OTHER -> f[s]

RECURSIVE CalcValue(_, _)
CalcValue(e, f) ==
    CASE e.t = "null" -> 2
      [] e.t = "sym"  -> SymValue(e.s, f)
      [] e.t = "not"  -> 2 - CalcValue(e.a, f)
      [] e.t = "eq"   -> IF SymValue(e.l, f) = SymValue(e.r, f) THEN 2 ELSE 0
      [] e.t = "ne"   -> IF SymValue(e.l, f) = SymValue(e.r, f) THEN 0 ELSE 2
      [] e.t \in {"and", "or"} ->
           LET x == CalcValue(e.a, f)
               y == CalcValue(e.b, f)
           IN  IF (e.t = "and") = (x < y) THEN x ELSE y

Values(e) == [f \in Assignments |-> CalcValue(e, f)]

-----------------------------------------------------------------------------
(* Paths *)

RECURSIVE At(_, _)
At(e, p) == IF p = <<>> THEN e ELSE At(IF Head(p) = 1 THEN e.a ELSE e.b, Tail(p))

RECURSIVE Put(_, _, _)
Put(e, p, x) ==
    IF p = <<>> THEN x
    ELSE IF Head(p) = 1 THEN [e EXCEPT !.a = Put(e.a, Tail(p), x)]
    ELSE [e EXCEPT !.b = Put(e.b, Tail(p), x)]

Left(p)  == Append(p, 1)
Right(p) == Append(p, 2)
Pair(e1, e2) == Two("pair", e1, e2)

(* What a term is replaced by when it is taken out of an AND or an OR. *)
Neutral(type) == Sym(IF type = "and" THEN "y" ELSE "n")

-----------------------------------------------------------------------------
(* expr_eliminate_yn *)

DropYn(t, a, b) ==
    LET zero == IF t = "and" THEN "n" ELSE "y"
        one  == IF t = "and" THEN "y" ELSE "n"
    IN  CASE IsSym(a, zero) \/ (~IsSym(a, one) /\ IsSym(b, zero)) -> Sym(zero)
          [] IsSym(a, one) -> b
          [] ~IsSym(a, one) /\ IsSym(b, one) -> a
          [] OTHER -> Two(t, a, b)

RECURSIVE EliminateYn(_)
EliminateYn(e) ==
    IF e.t \in {"and", "or"} THEN DropYn(e.t, EliminateYn(e.a), EliminateYn(e.b)) ELSE e

-----------------------------------------------------------------------------
(* expr_eq, and __expr_eliminate_eq on the fields p1 and p2 of a tree *)

RECURSIVE ElimEq(_, _, _, _), ExprEq(_, _)
ElimEq(type, root, p1, p2) ==
    LET e1 == At(root, p1)
        e2 == At(root, p2)
    IN  IF e1.t = type
        THEN ElimEq(type, ElimEq(type, root, Left(p1), p2), Right(p1), p2)
        ELSE IF e2.t = type
        THEN ElimEq(type, ElimEq(type, root, p1, Left(p2)), p1, Right(p2))
        ELSE IF \/ e1 = e2 /\ (IsSym(e1, "y") \/ IsSym(e1, "n"))
                \/ ~ExprEq(e1, e2)
        THEN root
        ELSE Put(Put(root, p1, Neutral(type)), p2, Neutral(type))

(* expr_eliminate_eq: by the operator of the first expression of a pair,   *)
(* then by the second's where it is another one                            *)
ElimLeft(pair) ==
    IF pair.a.t \in {"and", "or"} THEN ElimEq(pair.a.t, pair, <<1>>, <<2>>) ELSE pair

ElimRight(pair) ==
    IF pair.a.t # pair.b.t /\ pair.b.t \in {"and", "or"}
    THEN ElimEq(pair.b.t, pair, <<1>>, <<2>>) ELSE pair

PairYn(pair) == Pair(EliminateYn(pair.a), EliminateYn(pair.b))

EliminateEq(e1, e2) == PairYn(ElimRight(ElimLeft(Pair(e1, e2))))

SameSym(pair) == pair.a.t = "sym" /\ pair.b.t = "sym" /\ pair.a.s = pair.b.s

ExprEq(e1, e2) ==
    /\ e1.t = e2.t
    /\ CASE e1.t \in {"eq", "ne", "sym"} -> e1 = e2
         [] e1.t = "not" -> ExprEq(e1.a, e2.a)
         [] e1.t \in {"and", "or"} -> SameSym(EliminateEq(e1, e2))
         [] OTHER -> FALSE

-----------------------------------------------------------------------------
(* expr_join_or, expr_join_and on two expressions that are not equal: one  *)
(* expression for both, or Null                                            *)

Literal(e) == e.t \in {"eq", "ne", "sym", "not"}

(* The symbol a literal is about, "" where the code gives up on it *)
SymOf(e, inner) ==
    IF e.t = "not" THEN IF e.a.t \in inner THEN (IF e.a.t = "sym" THEN e.a.s ELSE e.a.l) ELSE ""
    ELSE IF e.t = "sym" THEN e.s ELSE e.l

Same(e1, e2) ==
    /\ Literal(e1) /\ Literal(e2)
    /\ LET s == SymOf(e1, {"eq", "ne", "sym"})
       IN  s # "" /\ s = SymOf(e2, {"sym"}) /\ s \in Bools \cup Tris

(* e1 and e2 compare with the constants of cs, both by the operator t *)
Both(e1, e2, t, cs) == e1.t = t /\ e2.t = t /\ {e1.r, e2.r} = cs

(* One of the two is the symbol, the other compares it with c by t *)
WithSym(e1, e2, t, c) ==
    \/ e1.t = "sym" /\ e2.t = t /\ e2.r = c
    \/ e2.t = "sym" /\ e1.t = t /\ e1.r = c

JoinOr(e1, e2) ==
    LET s == SymOf(e1, {"eq", "ne", "sym"})
    IN  CASE ~Same(e1, e2) -> Null
          [] Same(e1, e2) ->
               CASE s \in Tris /\ Both(e1, e2, "eq", {"y", "m"}) -> Comp("ne", s, "n")
                 [] s \in Tris /\ Both(e1, e2, "eq", {"y", "n"}) -> Comp("ne", s, "m")
                 [] s \in Tris /\ Both(e1, e2, "eq", {"m", "n"}) -> Comp("ne", s, "y")
                 [] s \in Bools /\ {e1.t, e2.t} = {"not", "sym"}
                      /\ (e1.t = "not" => e1.a.t = "sym") -> Sym("y")
                 [] OTHER -> Null

Consts == {"y", "m", "n"}

JoinAnd(e1, e2) ==
    LET s == SymOf(e1, {"eq", "ne", "sym"})
        eq == IF e1.t = "eq" THEN e1 ELSE e2
        ne == IF e1.t = "eq" THEN e2 ELSE e1
    IN  CASE ~Same(e1, e2) -> Null
          [] Same(e1, e2) ->
               CASE WithSym(e1, e2, "eq", "y") -> Comp("eq", s, "y")
                 [] WithSym(e1, e2, "ne", "n") -> Sym(s)
                 [] WithSym(e1, e2, "ne", "m") -> Comp("eq", s, "y")
                 [] s \in Tris /\ {e1.t, e2.t} = {"eq", "ne"} /\ {e1.r, e2.r} \subseteq Consts ->
                      IF eq.r # ne.r THEN Comp("eq", s, eq.r) ELSE Sym("n")
                 [] s \in Tris /\ Both(e1, e2, "ne", {"y", "n"}) -> Comp("eq", s, "m")
                 [] s \in Tris /\ Both(e1, e2, "ne", {"y", "m"}) -> Comp("eq", s, "n")
                 [] s \in Tris /\ Both(e1, e2, "ne", {"m", "n"}) -> Comp("eq", s, "y")
                 [] OTHER -> Null

-----------------------------------------------------------------------------
(* expr_transform *)

Flip(t) == IF t = "eq" THEN "ne" ELSE "eq"

(* A boolean symbol compared with a constant *)
TransComp(e) ==
    IF e.l \notin Bools THEN e
    ELSE CASE e.r = "n" -> IF e.t = "eq" THEN Not(Sym(e.l)) ELSE Sym(e.l)
           [] e.r = "m" -> IF e.t = "eq" THEN Sym("n") ELSE Sym("y")
           [] e.r = "y" -> IF e.t = "eq" THEN Sym(e.l) ELSE Not(Sym(e.l))
           [] OTHER -> e

RECURSIVE Transform(_)
Transform(e) ==
    CASE e.t \in {"eq", "ne"} -> TransComp(e)
      [] e.t \in {"and", "or"} -> Two(e.t, Transform(e.a), Transform(e.b))
      [] e.t = "not" ->
           LET x == Transform(e.a)
           IN  CASE x.t = "not" -> Transform(x.a)
                 [] x.t \in {"eq", "ne"} -> [x EXCEPT !.t = Flip(@)]
                 [] x.t = "or"  -> Transform(Two("and", Not(x.a), Not(x.b)))
                 [] x.t = "and" -> Transform(Two("or", Not(x.a), Not(x.b)))
                 [] IsSym(x, "y") -> Sym("n")
                 [] IsSym(x, "m") -> Sym("m")
                 [] IsSym(x, "n") -> Sym("y")
                 [] OTHER -> Not(x)
      [] OTHER -> e

-----------------------------------------------------------------------------
(* expr_extract_eq, _and, _or: what the two expressions of a pair share, *)
(* as [ep, root]                                                         *)

RECURSIVE ExtractEqIn(_, _, _, _)
ExtractEqIn(type, x, p1, p2) ==
    LET e1 == At(x.root, p1)
        e2 == At(x.root, p2)
    IN  IF e1.t = type
        THEN ExtractEqIn(type, ExtractEqIn(type, x, Left(p1), p2), Right(p1), p2)
        ELSE IF e2.t = type
        THEN ExtractEqIn(type, ExtractEqIn(type, x, p1, Left(p2)), p1, Right(p2))
        ELSE IF ExprEq(e1, e2)
        THEN [ep |-> AllocTwo(type, x.ep, e1),
              root |-> Put(Put(x.root, p1, Neutral(type)), p2, Neutral(type))]
        ELSE x

CleanUp(x) == IF x.ep = Null THEN x ELSE [x EXCEPT !.root = PairYn(@)]

ExtractEq(type, e1, e2) ==
    CleanUp(ExtractEqIn(type, [ep |-> Null, root |-> Pair(e1, e2)], <<1>>, <<2>>))

-----------------------------------------------------------------------------
(* expr_eliminate_dups1, expr_eliminate_dups2 on the fields p1 and p2: the *)
(* tree and the number of changes (trans_count), as [e, n]                 *)

Join(type, e1, e2) ==
    IF ExprEq(e1, e2) THEN e1
    ELSE IF type = "or" THEN JoinOr(e1, e2) ELSE JoinAnd(e1, e2)

(* The field p2 of a tree takes the joined expression j, p1 nothing. *)
Joined(type, x, p1, p2, j) ==
    IF j = Null THEN x
    ELSE [e |-> Put(Put(x.e, p1, Neutral(type)), p2, j), n |-> x.n + 1]

JoinAt(type, x, p1, p2) == Joined(type, x, p1, p2, Join(type, At(x.e, p1), At(x.e, p2)))

RECURSIVE Dups1(_, _, _, _)
Dups1(type, x, p1, p2) ==
    LET e1 == At(x.e, p1)
        e2 == At(x.e, p2)
    IN  IF e1.t = type THEN Dups1(type, Dups1(type, x, Left(p1), p2), Right(p1), p2)
        ELSE IF e2.t = type THEN Dups1(type, Dups1(type, x, p1, Left(p2)), p1, Right(p2))
        ELSE IF p1 = p2 THEN x
        ELSE JoinAt(type, IF e1.t \in {"and", "or"} THEN Dups1(e1.t, x, p1, p1) ELSE x, p1, p2)

(* (FOO || BAR) && (!FOO && !BAR) -> n, and the same for the other operator: *)
(* is the negation of e1 part of e2?                                         *)
Contradicted(e1, e2) ==
    LET type == IF e1.t = "or" THEN "and" ELSE "or"
    IN  ExtractEq(type, Transform(Not(e1)), e2).root.a = Neutral(type)

(* The field p1, whose operator was op, is dropped if p2 contradicts it. *)
DropAt(op, x, p1, p2) ==
    IF Contradicted(At(x.e, p1), At(x.e, p2))
    THEN [e |-> Put(x.e, p1, Neutral(op)), n |-> x.n + 1]
    ELSE x

RECURSIVE Dups2(_, _, _, _), DropDups2(_, _, _)
Dups2(type, x, p1, p2) ==
    IF At(x.e, p1).t = type THEN Dups2(type, Dups2(type, x, Left(p1), p2), Right(p1), p2)
    ELSE DropDups2(IF At(x.e, p2).t = type
                   THEN Dups2(type, Dups2(type, x, p1, Left(p2)), p1, Right(p2)) ELSE x, p1, p2)

(* Its end, for the leaf of the first expression *)
DropDups2(x, p1, p2) ==
    LET op == At(x.e, p1).t
    IN  IF p1 = p2 \/ op \notin {"and", "or"} THEN x
        ELSE DropAt(op, Dups2(op, x, p1, p1), p1, p2)

RECURSIVE EliminateDups(_), DupsAgain(_)
EliminateDups(e) ==
    IF e.t \notin {"and", "or"} THEN e
    ELSE DupsAgain(Dups2(e.t, Dups1(e.t, [e |-> e, n |-> 0], <<>>, <<>>), <<>>, <<>>))

(* Until a round changes nothing *)
DupsAgain(x) == IF x.n = 0 THEN x.e ELSE EliminateDups(EliminateYn(x.e))

-----------------------------------------------------------------------------
(* expr_trans_bool, expr_trans_compare *)

MutComparedWithN(e) == e.t \in {"eq", "ne"} /\ e.l \in Tris /\ e.r = "n"

ComparedWithN(e) == e.t = "ne" /\ e.l \in Tris /\ e.r = "n"

RECURSIVE TransBool(_)
TransBool(e) ==
    CASE e.t \in {"and", "or"} -> Two(e.t, TransBool(e.a), TransBool(e.b))
      [] e.t = "not" -> Not(TransBool(e.a))
      [] ComparedWithN(e) -> Sym(e.l)
      [] OTHER -> e

RECURSIVE TransCompare(_, _, _)
TransCompare(e, t, c) ==
    LET neg(x) == IF t = "ne" THEN Not(x) ELSE x
    IN  CASE e.t = "null" -> neg(Sym(c))
          [] e.t \in {"and", "or"} ->
               LET x == TransCompare(e.a, "eq", c)
                   y == TransCompare(e.b, "eq", c)
               IN  CASE c = "y" -> neg(Two(e.t, x, y))
                     [] c = "n" -> neg(Two(IF e.t = "and" THEN "or" ELSE "and", x, y))
                     [] OTHER -> neg(e)
          [] e.t = "not" -> TransCompare(e.a, Flip(t), c)
          [] e.t \in {"eq", "ne"} ->
               CASE c = "m" -> Sym(IF t = "eq" THEN "n" ELSE "y")
                 [] OTHER -> IF (t = "eq") = (c = "y") THEN e ELSE Not(e)
          [] OTHER -> Comp(t, e.s, c)

-----------------------------------------------------------------------------
(* expr_contains_symbol, expr_depends_symbol *)

RECURSIVE ContainsSymbol(_, _)
ContainsSymbol(e, s) ==
    CASE e.t \in {"and", "or"} -> ContainsSymbol(e.a, s) \/ ContainsSymbol(e.b, s)
      [] e.t = "sym" -> e.s = s
      [] e.t \in {"eq", "ne"} -> e.l = s \/ e.r = s
      [] e.t = "not" -> ContainsSymbol(e.a, s)
      [] OTHER -> FALSE

RECURSIVE DependsSymbol(_, _)
DependsSymbol(e, s) ==
    CASE e.t = "and" -> DependsSymbol(e.a, s) \/ DependsSymbol(e.b, s)
      [] e.t = "sym" -> e.s = s
      [] e.t = "eq" -> e.l = s /\ e.r \in {"y", "m"}
      [] e.t = "ne" -> e.l = s /\ e.r = "n"
      [] OTHER -> FALSE
=============================================================================
