---------------------------- MODULE MCKconfMenu ----------------------------
(***************************************************************************)
(* Small menu trees: A, a tristate, then three entries nested in any way;  *)
(* Q is a symbol defined elsewhere.  B is a bool, or the type of a choice  *)
(* with tristate values, C a tristate choice that may have the bool D.     *)
(***************************************************************************)
EXTENDS KconfMenu

MCName == <<"A", "B", "C", "D">>

Blocks == {"if", "menu", "choice", "optional"}
ChoiceKinds == {"choice", "optional"}

\* Three entries after A, each in a block that is still open.
Nested(kind, up) ==
    /\ up[3] = 2 => kind[2] \in Blocks
    /\ up[4] \in {2, 3} => kind[up[4]] \in Blocks
    /\ up[4] = 2 => up[3] = 2
    /\ \A i \in Entries : up[i] # 0 /\ kind[up[i]] \in ChoiceKinds => kind[i] = "config"
    /\ kind[4] \in Blocks => kind[4] = "menu"

Shapes == {s \in [kind : {<<"config", a, b, c>> : a \in {"config", "hidden", "if", "menu", "choice"},
                                                 b \in {"config", "hidden", "if", "menu", "optional"},
                                                 c \in {"config", "hidden", "menu"}},
                  up : {<<0, 0, x, y>> : x \in {0, 2}, y \in {0, 2, 3}}] : Nested(s.kind, s.up)}

A == Sym("A")
NoA == Comp("UNEQUAL", "A", "n")

Deps == {<<d1, d2, d3, d4>> :
            d1 \in {Null, Sym("Q")},
            d2 \in {Two("OR", A, Sym("Q")), Two("AND", Sym("Q"), Two("OR", A, Sym("m"))), Not(Two("AND", NoA, Sym("Q")))},
            d3 \in {Sym("B"), Two("AND", A, Comp("UNEQUAL", "A", "m")), Null},
            d4 \in {Sym("C"), Two("AND", Sym("Q"), Two("OR", A, Sym("m")))}}

AllSources ==
    {[kind |-> s.kind, up |-> s.up, dep |-> d,
      cond |-> <<Null, IF s.kind[2] \in {"if", "hidden"} THEN Null ELSE Not(NoA), Null, Null>>,
      select |-> [i \in Entries |-> IF i >= 3 /\ s.kind[i] \in {"config", "hidden"} THEN "Q" ELSE ""],
      imply |-> [i \in Entries |-> IF i \in {1, 4} /\ s.kind[i] \in {"config", "hidden"} THEN "MODULES" ELSE ""]] :
        s \in Shapes, d \in Deps}

\* Choices have no name that a dependency could mention.
MCSources == {x \in AllSources : /\ x.kind[2] \in ChoiceKinds => x.dep[3] # Sym("B")
                                 /\ x.kind[3] \in ChoiceKinds => x.dep[4] # Sym("C")}

=============================================================================
