----------------------------- MODULE MCKconfig -----------------------------
(* The dependencies and the symbols of kconfig for TLC.  They share no      *)
(* variable: a behaviour is one of its subject, while the other stays in an *)
(* initial state, so one run explores the sum of the two state spaces.      *)
EXTENDS KconfigDeps, KconfigSym

VARIABLE subject

About(c) == subject = c

MCLiterals ==
    {Sym("a"), Sym("b"), Sym("n"), Not(Sym("a")), Not(Sym("b")), Comp("ne", "b", "n")}

MCPairs == {Two(t, x, y) : t \in {"and", "or"}, x \in MCLiterals, y \in MCLiterals}

MCDeps ==
    MCLiterals \cup MCPairs
    \cup {Two(t, x, y) : t \in {"and", "or"}, x \in MCPairs, y \in MCLiterals}

MCParents == {Sym("a"), Two("or", Sym("a"), Not(Sym("b")))}
E(s, dep, prompt, defaults, selects, choice, members) ==
    [s |-> s, dep |-> dep, prompt |-> prompt, defaults |-> defaults,
     selects |-> selects, choice |-> choice, members |-> members]

D(val, if) == [val |-> val, if |-> if]

(* B selects the hidden C, which turns D off. *)
MCSelect ==
    << E("A", Null, Null, <<>>, {}, None, {}),
       E("B", Sym("A"), Null, <<D(Sym("y"), Null)>>, {"C"}, None, {}),
       E("C", Null, NoPrompt, <<>>, {}, None, {}),
       E("D", Not(Sym("C")), Null, <<D(Sym("A"), Null)>>, {}, None, {}) >>

(* A choice with a value that can be hidden, and a symbol that hangs on it. *)
MCChoice ==
    << E("A", Null, Null, <<D(Sym("y"), Null)>>, {}, None, {}),
       E("K", Null, Null, <<D(Sym("Y"), Sym("A"))>>, {}, None, {"X", "Y"}),
       E("X", Null, Null, <<>>, {}, "K", {}),
       E("Y", Sym("A"), Null, <<>>, {}, "K", {}),
       E("Z", Sym("Y"), Null, <<D(Sym("y"), Null)>>, {}, None, {}) >>

(* A choice that is itself hidden, and none of whose values may be left. *)
MCHidden ==
    << E("B", Null, Null, <<>>, {"A"}, None, {}),
       E("A", Null, Null, <<>>, {}, None, {}),
       E("K", Sym("A"), Null, <<>>, {}, None, {"X", "Y"}),
       E("X", Sym("B"), Null, <<>>, {}, "K", {}),
       E("Y", Sym("B"), Null, <<>>, {}, "K", {}) >>

MCKconfigs == {MCSelect, MCChoice, MCHidden}

KconfigInit ==
    /\ subject \in {"dependencies", "symbols"}
    /\ ExprInit /\ SymInit
    /\ ~About("dependencies") => expr = CHOOSE e \in Deps : TRUE
    /\ ~About("symbols") => Len(kconf) = Len(MCSelect)

KconfigNext ==
    /\ subject' = subject
    /\ \/ About("dependencies") /\ ExprNext /\ UNCHANGED symVars
       \/ About("symbols") /\ SymNext /\ UNCHANGED exprVars

KconfigSpec == KconfigInit /\ [][KconfigNext]_<<exprVars, symVars, subject>>
=============================================================================
