----------------------------- MODULE MCKconfSym -----------------------------
(***************************************************************************)
(* Small Kconfig inputs.                                                   *)
(***************************************************************************)
EXTENDS KconfSym

A == Sym("A")
B == Sym("B")
And(d, e) == expr_alloc_and(d, e)
Fill(f, default) == [s \in Symbols |-> IF s \in DOMAIN f THEN f[s] ELSE default]

\* A tristate, B a tristate that depends on it and may be selected or implied,
\* Q a bool below B.
Plain ==
    {[order |-> <<"MODULES", "A", "B", "Q">>,
      prompt |-> Fill("MODULES" :> Null @@ "A" :> Null @@ "B" :> (IF shown THEN dep ELSE NoPrompt)
                      @@ "Q" :> B, NoPrompt),
      default |-> Fill("B" :> (IF val = Null THEN <<>> ELSE <<[val |-> val, cond |-> dep]>>) @@ "Q" :> <<[val |-> Sym("y"), cond |-> And(B, A)]>>, <<>>),
      dep |-> Fill("B" :> dep @@ "Q" :> B, Null),
      rev |-> Fill("B" :> by[1], Null), imp |-> Fill("B" :> by[2], Null),
      choice |-> Fill(<<>>, ""), choices |-> {}, optional |-> {}] :
        shown \in BOOLEAN,
        dep \in {Null, A, Not(A), Comp("EQUAL", "A", "y")},
        val \in {Null, Sym("y")},
        by \in {<<Null, Null>>, <<A, Null>>, <<Null, A>>}}

\* What a choice adds to its values; a bool one in a tristate choice needs y.
InChoice(c, v) ==
    IF c \in Tristates /\ v \in Bools THEN And(Comp("EQUAL", c, "y"), Sym(c)) ELSE Sym(c)

\* A choice of two values, which may depend on A; opt: whether it is optional.
ChoiceOf(c, v1, v2, opt) ==
    {[order |-> <<"MODULES", "A", c, v1, v2>>,
      prompt |-> Fill("MODULES" :> Null @@ "A" :> Null @@ c :> cdep
                      @@ v1 :> And(InChoice(c, v1), d1) @@ v2 :> InChoice(c, v2), NoPrompt),
      default |-> Fill(c :> (IF def THEN <<[val |-> Sym(v2), cond |-> cdep]>> ELSE <<>>), <<>>),
      dep |-> Fill(c :> cdep @@ v1 :> And(Sym(c), d1) @@ v2 :> Sym(c), Null),
      rev |-> Fill(c :> IF opt THEN Null ELSE And(cdep, Sym("m")), Null),
      imp |-> Fill(<<>>, Null),
      choice |-> Fill(v1 :> c @@ v2 :> c, ""), choices |-> {c}, optional |-> IF opt THEN {c} ELSE {}] :
        cdep \in {Null, A},
        d1 \in {Null, A},
        def \in BOOLEAN}

MCKconfigs == Plain \union ChoiceOf("BC", "P", "R", FALSE) \union ChoiceOf("BC", "P", "R", TRUE)
                    \union ChoiceOf("TC", "B", "T", FALSE)

OptionalChoices == ChoiceOf("BC", "P", "R", TRUE)

\* The lines that a .config may begin with.
MCFileLines == [s \in Symbols |-> CASE s = "MODULES" -> {"n", "y"}
                                    [] s = "A" -> {"n", "m", "y"}
                                    [] s = "Q" -> {"absent", "y"}
                                    [] s = "P" -> {"absent", "n", "y"}
                                    [] OTHER -> Line]
=============================================================================
