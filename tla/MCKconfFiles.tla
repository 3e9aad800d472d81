---------------------------- MODULE MCKconfFiles ----------------------------
(***************************************************************************)
(* What kconf makes of its inputs and leaves on the disk: the dependencies *)
(* of a Kconfig, the texts of a .config, and the files of a save.          *)
(***************************************************************************)
EXTENDS Autoconf, KconfCheck

\* A tristate and a string symbol that may be absent.
MCConfigs == {[T |-> "n", S |-> "v"], [T |-> "m", S |-> "none"], [T |-> "y", S |-> "v"]}

\* Two symbols and a choice c of two values: all inputs of up to three
\* dependencies among them.
MCHashOrder == <<"A", "v", "c", "B", "w">>
MCChoiceFor == [s \in ToSet(MCHashOrder) |-> IF s \in {"v", "w"} THEN "c" ELSE ""]
Dependencies ==
    {<<p[1], IF p[1] = "A" THEN "rev" ELSE "visible", p[2]>> :
        p \in {"A", "B", "c", "v", "w"} \X {"A", "B", "v", "w"}}
    \union {<<"c", "default", "A">>, <<"B", "default", "A">>}
Grow(S) == S \union {g \union {e} : g \in S, e \in Dependencies}
MCDepGraphs == Grow(Grow(Grow({{<<"v", "visible", "c">>, <<"w", "visible", "c">>}})))

\* A string, an int HI that bounds the int N, and a hex symbol.
MCStrTypes == [S |-> "string", HI |-> "int", N |-> "int", H |-> "hex"]
MCDefaults == [S |-> NoText, HI |-> <<"1">>, N |-> <<"0">>, H |-> <<"0", "x", "1">>]
MCRanges ==
    [S |-> <<>>, HI |-> <<>>, N |-> <<[text |-> <<"-", "1">>], [sym |-> "HI"]>>,
     H |-> <<[text |-> <<"1">>], [text |-> <<"1", "0">>]>>]
MCStrOrder == <<"S", "HI", "N", "H">>
MCTypedTexts ==
    [S |-> {<<>>, <<"quote">>, <<"bs", "quote">>, <<"a", "bs">>},
     HI |-> {<<"0">>, <<"1", "0">>, <<"0", "1">>},
     N |-> {<<"1">>, <<"1", "0">>, <<"-", "1">>},
     H |-> {<<"a">>, <<"0", "x">>, <<"1", "1">>}]
MCFoundFiles ==
    {[shown |-> FALSE, lines |-> [S |-> <<"a">>, HI |-> <<"1", "0">>, N |-> <<"1">>, H |-> <<"1", "1">>]],
     [shown |-> TRUE, lines |-> [S |-> <<"quote", "bs">>, HI |-> <<"1">>, N |-> <<"1", "0", "0">>, H |-> NoText]]}

VARIABLE part
OneGraph == dep = [edges |-> {}, search |-> NoSearch, todo |-> <<>>]
NoProgram == str = StrStart([val |-> NoTexts, has |-> {}, curr |-> [s \in StrSyms |-> <<>>],
                             shown |-> TRUE, changed |-> TRUE, off |-> FALSE, config |-> NoConfig])
Init ==
    /\ AutoInit
    /\ \/ part = "files" /\ OneGraph /\ NoProgram
       \/ part = "dependencies" /\ DepInit /\ NoProgram
       \/ part = "texts" /\ OneGraph /\ StrInit
Next ==
    \/ part = "files" /\ AutoNext /\ UNCHANGED <<dep, str, part>>
    \/ part = "dependencies" /\ DepNext /\ UNCHANGED <<autoVars, str, part>>
    \/ part = "texts" /\ StrNext /\ UNCHANGED <<autoVars, dep, part>>
Spec == Init /\ [][Next]_<<autoVars, depVars, strVars, part>>
=============================================================================
