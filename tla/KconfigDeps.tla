----------------------------- MODULE KconfigDeps -----------------------------
(***************************************************************************)
(* What menu_finalize (support/kconfig/menu.c) does to a dependency: the   *)
(* state is an expression on its way through the rewriting functions of    *)
(* expr.c, with the value it must have under every assignment.             *)
(***************************************************************************)
EXTENDS KconfigExpr

CONSTANTS Deps,          \* the expressions a Kconfig file may start from
          Parents,       \* dependencies of an enclosing menu
          MaxSteps       \* bound of the rewriting steps

ASSUME DepsAssumption == MaxSteps \in Nat

VARIABLES expr,   \* the expression
          value,  \* what expr_calc_value must give, by assignment
          steps   \* rewriting steps left

exprVars == <<expr, value, steps>>

-----------------------------------------------------------------------------
(* The steps of menu_finalize *)

(* Does an entry that depends on dep go below the symbol s before it, whose *)
(* own dependency is basedep?                                               *)
InSubmenu(dep, s, basedep) ==
    /\ ContainsSymbol(dep, s)
    /\ \/ DependsSymbol(dep, s)
       \/ IsSym(EliminateEq(EliminateDups(Transform(TransCompare(dep, "ne", "n"))),
                            EliminateDups(Transform(TransCompare(basedep, "ne", "n")))).b, "y")

ExprInit ==
    /\ expr \in Deps
    /\ value = Values(expr)
    /\ steps = MaxSteps

Rewrites(e) == steps > 0 /\ steps' = steps - 1 /\ expr' = e

TransformStep == Rewrites(Transform(expr)) /\ UNCHANGED value
DupsStep == Rewrites(EliminateDups(expr)) /\ UNCHANGED value
BoolStep == Rewrites(TransBool(expr)) /\ UNCHANGED value

(* expr_alloc_and(expr_copy(parentdep), basedep) *)
ParentStep ==
    \E p \in Parents :
      /\ Rewrites(AllocTwo("and", p, expr))
      /\ value' = [f \in Assignments |->
                     LET v == CalcValue(p, f) IN IF v < value[f] THEN v ELSE value[f]]

(* expr_trans_compare(dep, E_UNEQUAL, &symbol_no) *)
CompareStep ==
    /\ Rewrites(TransCompare(expr, "ne", "n"))
    /\ value' = [f \in Assignments |-> IF value[f] = 0 THEN 0 ELSE 2]

ExprNext == TransformStep \/ DupsStep \/ BoolStep \/ ParentStep \/ CompareStep

ExprSpec == ExprInit /\ [][ExprNext]_exprVars

-----------------------------------------------------------------------------
(* Properties *)

(* Rewriting changes no dependency: whatever menu_finalize does to an      *)
(* expression, expr_calc_value gives what it gave for the one in the file. *)
ValueKept == Values(expr) = value

(* expr_eq calls two expressions equal only if they have the same value.   *)
EqSound == \A p \in Parents : ExprEq(expr, p) => Values(p) = value

(* expr_extract_eq_and and _or take out what two expressions share, and    *)
(* nothing else: put together again they have the values they had.         *)
ExtractSound ==
    \A p \in Parents, t \in {"and", "or"} :
      LET x == ExtractEq(t, expr, p)
      IN  /\ Values(AllocTwo(t, x.ep, x.root.a)) = value
          /\ Values(AllocTwo(t, x.ep, x.root.b)) = Values(p)

(* menu_finalize hangs an entry below a symbol only if the entry is off    *)
(* whenever the symbol is, or whenever what the symbol depends on is.      *)
SubmenuSound ==
    steps = MaxSteps => \A s \in Bools \cup Tris, p \in Parents : InSubmenu(expr, s, p) =>
      \A f \in Assignments :
        (IF DependsSymbol(expr, s) THEN f[s] = 0 ELSE CalcValue(p, f) = 0) => value[f] = 0

(* After expr_eliminate_dups the two sides of an AND or an OR differ, and   *)
(* neither is y or n.                                                       *)
NoDupsLeft ==
    \A e \in {EliminateDups(EliminateYn(expr))} :
        e.t \in {"and", "or"} =>
          /\ ~ExprEq(e.a, e.b)
          /\ \A x \in {e.a, e.b} : ~IsSym(x, "y") /\ ~IsSym(x, "n")

(* "bool FOO!=n => FOO": expr_trans_bool rewrites a comparison only where  *)
(* that keeps its value.                                                   *)
TransBoolKept == Values(TransBool(expr)) = Values(expr)

(* The functions of expr.c may rewrite, compare, take apart and hang up    *)
(* dependencies without changing what they say.                            *)
RewritingSound == ValueKept /\ EqSound /\ ExtractSound /\ SubmenuSound /\ NoDupsLeft
=============================================================================
