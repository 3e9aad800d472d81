-------------------------- MODULE MCKconfPrograms --------------------------
(***************************************************************************)
(* conf and menuconfig on small Kconfig inputs: symbols in and below a     *)
(* menu, and choices; and the dialogs of lxdialog, one of them at a time   *)
(* on the screen.  A behaviour runs one program, the others rest.          *)
(***************************************************************************)
EXTENDS Conf, Mconf, Dialogs

A == Sym("A")
B == Sym("B")
And(d, e) == expr_alloc_and(d, e)
Fill(f, default) == [s \in Symbols |-> IF s \in DOMAIN f THEN f[s] ELSE default]

\* A menu M with B, which may be selected and may be a menu too, and P; Q
\* appears below B.
Menus ==
    {[order |-> <<"MODULES", "A", "P", "B", "Q">>,
      prompt |-> Fill("MODULES" :> Null @@ "A" :> Null @@ "B" :> And(A, bdep) @@ "Q" :> B @@ "P" :> A,
                      NoPrompt),
      default |-> Fill("Q" :> <<[val |-> Sym("y"), cond |-> B]>>, <<>>),
      dep |-> Fill("B" :> And(A, bdep) @@ "Q" :> B @@ "P" :> A, Null),
      rev |-> Fill("B" :> by, Null), imp |-> Fill(<<>>, Null),
      choice |-> Fill(<<>>, ""), choices |-> {}, optional |-> {},
      list |-> "root" :> <<"MODULES", "A", "M">> @@ "M" :> <<"B", "P">> @@ "B" :> <<"Q">>,
      menu |-> "root" :> Null @@ "M" :> A, help |-> {}, pmenu |-> pm] :
        bdep \in {Comp("EQUAL", "A", "y"), Sym("P")}, by \in {Null, A}, pm \in {{}, {"B"}}}

\* A choice of two values, with Q below the second.
InChoice(c, v) ==
    IF c \in Tristates /\ v \in Bools THEN And(Comp("EQUAL", c, "y"), Sym(c)) ELSE Sym(c)
ChoiceOf(c, v1, v2) ==
    {[order |-> <<"MODULES", "A", c, v1, v2, "Q">>,
      prompt |-> Fill("MODULES" :> Null @@ "A" :> Null @@ c :> Null @@ v1 :> And(InChoice(c, v1), d1)
                      @@ v2 :> InChoice(c, v2) @@ "Q" :> Sym(v2), NoPrompt),
      default |-> Fill(c :> (IF def THEN <<[val |-> Sym(v2), cond |-> Null]>> ELSE <<>>), <<>>),
      dep |-> Fill(v1 :> And(Sym(c), d1) @@ v2 :> Sym(c) @@ "Q" :> Sym(v2), Null),
      rev |-> Fill(c :> IF opt THEN Null ELSE Sym("m"), Null),
      imp |-> Fill(<<>>, Null),
      choice |-> Fill(v1 :> c @@ v2 :> c, ""), choices |-> {c}, optional |-> IF opt THEN {c} ELSE {},
      list |-> "root" :> <<"MODULES", "A", c>> @@ c :> <<v1, v2>> @@ v2 :> <<"Q">>,
      menu |-> "root" :> Null, help |-> {}, pmenu |-> {}] :
        d1 \in {Null, A}, def \in BOOLEAN, opt \in BOOLEAN}

MCKconfigs == Menus \union ChoiceOf("BC", "P", "R") \union ChoiceOf("TC", "B", "T")
MCFileLines == [s \in Symbols |-> CASE s = "MODULES" -> {"y"}
                                    [] s = "A" -> {"absent", "m", "y"}
                                    [] OTHER -> {"absent", "y"}]

\* Item lists that fit in the window and ones twice and more its size, with
\* hotkeys that are keys of the dialog too, and repeated ones.
MCHotkeys == {<<>>, <<"a">>, <<"a", "s", "a">>, <<"a", "b", "a", "s", "b", "a">>,
              <<"b", "a", "b", "n", "a", "x", "a">>}

\* All texts of up to six characters that end with a newline, and one of
\* seven lines, more than the window twice over.
ShortTexts == UNION {[1 .. n -> {"c", "nl"}] : n \in 1 .. 6}
MCTexts == {t \in ShortTexts : Last(t) = "nl"}
           \cup {<<"c", "nl", "c", "nl", "c", "nl", "c", "nl", "c", "nl", "nl", "c", "nl">>}

VARIABLE program
dialogVars == <<listVars, textVars>>
ListRests == box = NewDialog("yesno", <<>>) /\ ungot = NoKey
TextRests == text = OpenText(<<"nl">>, 1, 0, FALSE)
InputRests == input = OpenInput(<<>>)

\* menuconfig begins with a file that gives A alone.
OnlyA == [s \in Symbols |-> CASE s = "MODULES" -> "y" [] s = "A" -> "m" [] OTHER -> "absent"]
StartsAlike ==
    /\ IF program = "mconf" THEN kconfig \in Kconfigs ELSE kconfig = CHOOSE k \in Kconfigs : TRUE
    /\ file = OnlyA /\ defconfig = Off /\ mem = Off /\ changed = FALSE /\ sets = 0
ProgramsInit ==
    /\ program \in {"conf", "mconf", "list", "text", "input"}
    /\ IF program = "conf" THEN Init ELSE StartsAlike
    /\ ask = NoAsk /\ ui = NoUi
    /\ IF program = "list" THEN ListInit ELSE ListRests
    /\ IF program = "text" THEN TextInit /\ InputRests
       ELSE TextRests /\ (IF program = "input" THEN InputInit ELSE InputRests)
ProgramsNext ==
    \/ program = "conf" /\ ConfNext /\ UNCHANGED <<program, ui, dialogVars>>
    \/ program = "mconf" /\ MconfNext /\ UNCHANGED <<program, ask, dialogVars>>
    \/ program = "list" /\ ListNext /\ UNCHANGED <<program, confVars, mconfVars, textVars>>
    \/ program = "text" /\ TextNext /\ UNCHANGED <<program, confVars, mconfVars, listVars>>
    \/ program = "input" /\ InputNext /\ UNCHANGED <<program, confVars, mconfVars, listVars>>
ProgramsSpec == ProgramsInit /\ [][ProgramsNext]_<<confVars, mconfVars, dialogVars, program>>
=============================================================================
