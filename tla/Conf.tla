------------------------------- MODULE Conf --------------------------------
(***************************************************************************)
(* kconf/conf.c, the line-oriented program: oldaskconfig, oldconfig and    *)
(* syncconfig ask for the symbols that have no value yet, menu by menu,    *)
(* and begin again as long as an answer made more symbols appear;          *)
(* listnewconfig names them.  The calls in progress are a stack, as the    *)
(* tree and the values change between the questions.                       *)
(***************************************************************************)
EXTENDS KconfSym

CONSTANT MaxLines   \* lines the user types before the input ends

VARIABLES
    ask     \* [mode, stack, root: rootEntry, cnt: conf_cnt, lines: typed,
            \*  asked: entries the user was asked for, listed, old: the symbols the file had, done]

NoAsk == [mode |-> "", stack |-> <<>>, root |-> "", cnt |-> 0, lines |-> 0, asked |-> {},
          listed |-> {}, old |-> {}, done |-> FALSE]
AskModes == {"oldaskconfig", "oldconfig", "listnewconfig"}
confVars == <<kconfig, file, defconfig, mem, changed, sets, ask>>

\* A call: fn, the entry m, where it is, and the child it has come to.
Called(fn, m) == [fn |-> fn, m |-> m, at |-> "enter", i |-> 1, new |-> FALSE]
TopCall == Last(ask.stack)
Asking == ask.mode # "" /\ ~ask.done
In(fn, at) == Asking /\ ask.stack # <<>> /\ TopCall.fn = fn /\ TopCall.at = at
Go(a, at) == [a EXCEPT !.stack[Len(a.stack)].at = at]
Returned(a) == [a EXCEPT !.stack = Front(@)]
Call(a, fn, m) == [a EXCEPT !.stack = Append(@, Called(fn, m))]
Put(r) == mem' = r.k /\ changed' = (changed \/ r.changed)

\* main(): .config is read; oldaskconfig asks for everything first.
Start(mode) ==
    /\ ask.mode = "" /\ mem = Off
    /\ \E r \in {conf_read(file)} : mem' = r.k /\ changed' = r.changed
    /\ ask' = [Call([NoAsk EXCEPT !.root = ROOT],
                    IF mode = "oldaskconfig" THEN "conf" ELSE "check", ROOT)
                 EXCEPT !.mode = mode, !.old = {s \in Named : file[s] # "absent"}]
    /\ KeepFiles

-----------------------------------------------------------------------------
(* check_conf *)
IsNew(m) ==
    /\ HasSymbol(m) /\ ~sym_has_value(mem, m)
    /\ sym_is_changable(mem, m) \/ (m \in kconfig.choices /\ mem.curr[m] = yes)

\* A new symbol: it is listed, or its whole menu is gone through again.
CheckEnter ==
    /\ In("check", "enter")
    /\ LET m == TopCall.m
           on == Go(ask, "children")
       IN  /\ mem' = Looked(mem, m)
           /\ ask' = IF ~menu_is_visible(mem, m) THEN Returned(ask)
                     ELSE IF ~IsNew(m) THEN on
                     ELSE IF ask.mode = "listnewconfig" THEN [on EXCEPT !.listed = @ \union {m}]
                     ELSE Call([on EXCEPT !.cnt = @ + 1, !.root = menu_get_parent_menu(m)],
                               "conf", menu_get_parent_menu(m))
    /\ KeepFiles /\ UNCHANGED changed

\* The loops over the children, of check_conf and of conf.
NextChild ==
    /\ Asking /\ ask.stack # <<>> /\ TopCall.at = "children"
    /\ LET kids == Children(TopCall.m) IN
       ask' = IF TopCall.i > Len(kids) THEN Returned(ask)
              ELSE Call([ask EXCEPT !.stack[Len(ask.stack)].i = @ + 1], TopCall.fn, kids[TopCall.i])
    /\ KeepValues

-----------------------------------------------------------------------------
(* conf *)
\* A menu other than the one begun with is only checked for new symbols.
ConfEnter ==
    /\ In("conf", "enter")
    /\ LET m == TopCall.m IN
       /\ mem' = Looked(mem, m)
       /\ ask' = IF ~menu_is_visible(mem, m) THEN Returned(ask)
                 ELSE IF IsMenu(m) /\ ask.mode # "oldaskconfig" /\ ask.root # m
                      THEN Call(Returned(ask), "check", m)
                 ELSE IF ~HasSymbol(m) THEN Go(ask, "children")
                 ELSE [Go(ask, "sym") EXCEPT !.stack[Len(ask.stack)].new = ~sym_has_value(mem', m)]
    /\ KeepFiles /\ UNCHANGED changed

\* What follows conf_sym(): the children, or for a choice what its value says.
AfterSym(a, k, m) ==
    IF m \notin kconfig.choices \/ k.curr[m] = mod THEN Go(a, "children")
    ELSE IF k.curr[m] = no THEN Returned(a) ELSE Go(a, "pick")

\* conf_askvalue(): the answer is known, or it cannot be changed.
Known(m) ==
    \/ ~sym_is_changable(mem, m)
    \/ ask.mode \in {"oldconfig", "listnewconfig"} /\ sym_has_value(mem, m)
AskNothing ==
    /\ In("conf", "sym") /\ Known(TopCall.m)
    /\ ask' = AfterSym(ask, mem, TopCall.m)
    /\ KeepValues

\* A line of input: at its end the line is empty.
MayType(line) == line # "" => ask.lines < MaxLines
Asked(a, line, m) ==
    [a EXCEPT !.lines = IF line = "" THEN @ ELSE @ + 1, !.asked = @ \union {m}]

\* conf_sym(): anything that is not n, m, y or nothing is asked again, and so is
\* a value that cannot be set.
Answer(line) ==
    /\ In("conf", "sym") /\ ~Known(TopCall.m) /\ MayType(line)
    /\ LET m == TopCall.m
           a == Asked(ask, line, m)
           v == IF line = "" THEN mem.curr[m] ELSE TriOf(line)
       IN  IF line = "?" THEN ask' = a /\ UNCHANGED <<mem, changed>>
           ELSE \E r \in {sym_set_tristate_value(mem, m, v)} :
                   /\ Put(r)
                   /\ ask' = IF r.ok THEN AfterSym(a, r.k, m) ELSE a
    /\ KeepFiles

-----------------------------------------------------------------------------
(* conf_choice *)
Options(c) == SelectSeq(Children(c), LAMBDA s : HasSymbol(s) /\ menu_is_visible(mem, s))
DefaultOption(c) ==
    LET o == Options(c)
        at == {i \in DOMAIN o : o[i] = sym_get_choice_value(mem, c)}
    IN  IF at = {} THEN 0 ELSE CHOOSE i \in at : TRUE

\* The value is set, and then what is below it is asked for.
Pick(a, c, n) ==
    IF n \notin DOMAIN Options(c) THEN ask' = a /\ UNCHANGED <<mem, changed>>
    ELSE LET s == Options(c)[n] IN
         /\ Put(sym_set_choice_value(mem, s))
         /\ ask' = [Go(a, "children") EXCEPT !.stack[Len(a.stack)].m = s]

\* One option, or a choice that had a value: nothing is asked.
PickKnown ==
    /\ In("conf", "pick")
    /\ \/ Len(Options(TopCall.m)) = 1 /\ Pick(ask, TopCall.m, 1)
       \/ Len(Options(TopCall.m)) # 1 /\ ask.mode # "oldaskconfig" /\ ~TopCall.new
          /\ Pick(ask, TopCall.m, DefaultOption(TopCall.m))
    /\ KeepFiles

\* A number, an empty line for the default, or a request for help.
PickAnswer(line, n) ==
    /\ In("conf", "pick") /\ MayType(line)
    /\ Len(Options(TopCall.m)) # 1 /\ (ask.mode = "oldaskconfig" \/ TopCall.new)
    /\ LET a == Asked(ask, line, TopCall.m) IN
       CASE line = "?" -> ask' = a /\ UNCHANGED <<mem, changed>>
         [] line = "" -> Pick(a, TopCall.m, DefaultOption(TopCall.m))
         [] line = "number" -> Pick(a, TopCall.m, n)
    /\ KeepFiles

-----------------------------------------------------------------------------
\* Bug: one pass is all there is.
PassDoneOnce ==
    /\ Asking /\ ask.stack = <<>>
    /\ ask' = IF ask.mode = "oldaskconfig" THEN Call([ask EXCEPT !.mode = "oldconfig"], "check", ROOT)
              ELSE [ask EXCEPT !.done = TRUE]
    /\ KeepValues
\* A pass has ended: after oldaskconfig, and after a pass that asked, another.
PassDone ==
    /\ Asking /\ ask.stack = <<>>
    /\ ask' = IF ask.mode = "oldaskconfig" THEN Call([ask EXCEPT !.mode = "oldconfig"], "check", ROOT)
              ELSE IF ask.cnt # 0 THEN Call([ask EXCEPT !.cnt = 0], "check", ROOT)
              ELSE [ask EXCEPT !.done = TRUE]
    /\ KeepValues

\* main() ends: listnewconfig writes nothing.
Finished ==
    /\ ask.mode # "" /\ ask.done
    /\ file' = IF ask.mode = "listnewconfig" THEN file ELSE WriteLines(WriteState(mem, changed))
    /\ mem' = Off /\ changed' = FALSE /\ ask' = NoAsk
    /\ UNCHANGED <<kconfig, defconfig, sets>>

ConfNext ==
    \/ \E mode \in AskModes : Start(mode)
    \/ CheckEnter \/ NextChild \/ ConfEnter \/ AskNothing \/ PickKnown \/ PassDone \/ Finished
    \/ \E line \in {"n", "m", "y", "", "?"} : Answer(line)
    \/ \E line \in {"", "?"} : PickAnswer(line, 0)
    \/ \E n \in 1 .. 2 : PickAnswer("number", n)

-----------------------------------------------------------------------------
Shown(s) == s \in All /\ menu_is_visible(mem, s) /\ \E p \in DOMAIN kconfig.list : s \in ToSet(kconfig.list[p])

(* "Update until a loop caused no more changes" (conf.c:676): when oldconfig *)
(* ends, no symbol that the user can see and change is without a value, and  *)
(* none that the file did not have got one unasked: a symbol by itself, the  *)
(* value of a choice by its choice.                                          *)
NothingNewIsLeft ==
    ask.done /\ ask.mode # "listnewconfig" => \A s \in All :
        Shown(s) /\ sym_is_changable(mem, s) =>
            /\ sym_has_value(mem, s)
            /\ s \in Named \ ask.old /\ ~IsChoiceValue(s) => s \in ask.asked
=============================================================================
