----------------------------- MODULE KconfSym ------------------------------
(***************************************************************************)
(* The values of symbols and the files they are kept in (kconf/symbol.c,   *)
(* kconf/confdata.c, kconf/conf.c): how a value follows from what the user *)
(* set, the defaults, selects, implies and choices, how the user sets one, *)
(* and how a configuration is written to .config or to a minimal           *)
(* defconfig and read back.  Symbols are bool or tristate.                 *)
(***************************************************************************)
EXTENDS KconfExpr

CONSTANTS
    Kconfigs,   \* the parsed inputs, after menu_finalize()
    FileLines,  \* FileLines[s]: the lines of s that a .config may begin with
    MaxSets     \* how many values the user sets in one session

ASSUME MaxSetsAssumption == MaxSets \in Nat

\* A Kconfig has the fields
\* order:    its symbols as the menu has them, MODULES first, each one behind
\*           those that its expressions mention
\* prompt:   visible.expr of the prompt, NoPrompt without one
\* default:  a sequence of [val, cond]; of a choice, val is a symbol
\* dep:      dir_dep.expr
\* rev, imp: rev_dep.expr and implied.expr, Null for none
\* choice:   the choice that a symbol is a value of, or ""
\* choices, optional: the choices, and those of them that are optional
VARIABLES
    kconfig,    \* the input, the same for every program that runs
    file,       \* .config: the line of each symbol
    defconfig,  \* what savedefconfig wrote, the .config that it stands for, and
                \* whether a new symbol or value had changed that configuration
    mem,        \* the symbols of the running menuconfig, Off without one
    changed,    \* conf_get_changed() of that program
    sets        \* values set in this session

vars == <<kconfig, file, defconfig, mem, changed, sets>>

Tri == {no, mod, yes}
Line == {"absent", "n", "m", "y"}
NoPrompt == [t |-> "NOPROMPT"]
Off == [off |-> TRUE]

All == ToSet(kconfig.order)
Named == All \ kconfig.choices
IsChoiceValue(s) == kconfig.choice[s] # ""
ValuesOf(c) == SelectSeq(kconfig.order, LAMBDA s : kconfig.choice[s] = c)

Least(a, b) == IF a < b THEN a ELSE b
Most(a, b) == IF a > b THEN a ELSE b

\* The symbols when the parser has returned: nothing is set or calculated.
\* user: SYMBOL_DEF_USER; def, pick: def[S_DEF_USER].tri and, of a choice, .val;
\* curr, val: the current value, and of a choice the value that is chosen;
\* vis, dir, rev, imp: the tristates visible, dir_dep, rev_dep and implied;
\* write: SYMBOL_WRITE.
Parsed ==
    LET none == [s \in Symbols |-> no] IN
    [user |-> {}, def |-> none, pick |-> [s \in Symbols |-> ""],
     curr |-> none @@ ("y" :> yes @@ "m" :> mod @@ "n" :> no), val |-> [s \in Symbols |-> ""],
     vis |-> none, dir |-> none, rev |-> none, imp |-> none, write |-> {}]

-----------------------------------------------------------------------------
(* sym_calc_value().  k is the state of all symbols.                       *)

IsBool(k, s) == \* sym_get_type()
    \/ s \in Bools
    \/ IsChoiceValue(s) /\ k.vis[s] = yes
    \/ k.curr["MODULES"] = no

Typed(k, s, tri) == IF tri = mod /\ IsBool(k, s) THEN yes ELSE tri

\* A choice value with visibility m is not visible in a choice that is y.
PromptTri(k, s, tri) ==
    IF IsChoiceValue(s) /\ s \in Tristates /\ tri = mod /\ k.curr[kconfig.choice[s]] = yes
    THEN no ELSE tri

Visibility(k, s, tri) ==
    IF tri = mod /\ (s \in Bools \/ k.curr["MODULES"] = no) THEN yes ELSE tri

CalcVisible(k, s) ==
    [k EXCEPT !.vis[s] =
        IF kconfig.prompt[s] = NoPrompt THEN no
        ELSE Visibility(k, s, PromptTri(k, s, expr_calc_value(kconfig.prompt[s], k.curr)))]

CalcDeps(k, s) ==
    [k EXCEPT !.dir[s] = Typed(k, s, expr_calc_value(kconfig.dep[s], k.curr)),
              !.rev[s] = IF kconfig.rev[s] = Null THEN no
                         ELSE Typed(k, s, expr_calc_value(kconfig.rev[s], k.curr))]

\* An imply counts only while the direct dependencies are not n.
CalcImplied(k, s) ==
    [k EXCEPT !.imp[s] = IF kconfig.imp[s] = Null \/ k.dir[s] = no THEN no
                         ELSE Typed(k, s, expr_calc_value(kconfig.imp[s], k.curr))]

sym_calc_visibility(k, s) ==
    IF IsChoiceValue(s) THEN CalcVisible(k, s)
    ELSE CalcImplied(CalcDeps(CalcVisible(k, s), s), s)

\* The default that applies: the first one whose condition is not n.
DefaultTri(k, s) ==
    LET on == SelectSeq(kconfig.default[s], LAMBDA d : expr_calc_value(d.cond, k.curr) # no)
    IN  IF on = <<>> THEN no
        ELSE Least(expr_calc_value(on[1].val, k.curr), expr_calc_value(on[1].cond, k.curr))

HasUserValue(k, s) == k.vis[s] # no /\ s \in k.user

\* The value before its type and implies are applied, default d.
OwnValue(k, s, d) ==
    Most(k.rev[s], IF HasUserValue(k, s) THEN Least(k.def[s], k.vis[s])
                   ELSE IF s \in kconfig.choices THEN no
                   ELSE Most(d, k.imp[s]))

NewValue(k, s, d) ==
    IF IsChoiceValue(s) /\ k.vis[s] = yes
    THEN IF k.val[kconfig.choice[s]] = s THEN yes ELSE no
    ELSE LET own == OwnValue(k, s, d)
         IN  IF own = mod /\ (IsBool(k, s) \/ k.imp[s] = yes) THEN yes ELSE own

\* SYMBOL_WRITE: the symbol is visible, or something but the user gave a value.
Written(k, s, d) ==
    \/ k.vis[s] # no
    \/ k.rev[s] # no
    \/ s \notin kconfig.choices /\ (d # no \/ k.imp[s] # no)

SetCurr(k, s, d) ==
    [k EXCEPT !.curr[s] = NewValue(k, s, d), !.val[s] = "",
              !.write = IF Written(k, s, d) THEN @ \union {s} ELSE @ \ {s}]

\* The default of a choice: a visible one of its defaults, or the first visible value.
sym_choice_default(k, c) ==
    LET ds == SelectSeq(kconfig.default[c], LAMBDA d : /\ expr_calc_value(d.cond, k.curr) # no
                                                       /\ k.vis[d.val.sym] # no)
        vs == SelectSeq(ValuesOf(c), LAMBDA s : k.vis[s] # no)
    IN  IF ds # <<>> THEN ds[1].val.sym ELSE IF vs # <<>> THEN vs[1] ELSE ""

\* Bug: the user's choice counts although it is not visible.
ChosenInvisible(k, c) == IF k.pick[c] # "" THEN k.pick[c] ELSE sym_choice_default(k, c)

Chosen(k, c) ==
    IF k.pick[c] # "" /\ k.vis[k.pick[c]] # no THEN k.pick[c] ELSE sym_choice_default(k, c)

SetChosen(k, c, s) ==
    [k EXCEPT !.val[c] = s, !.curr[c] = IF s = "" THEN no ELSE @]

\* A visible value that was not set yet makes the choice count as not set.
KeepUser(k, c) ==
    IF \E s \in ToSet(ValuesOf(c)) : k.vis[s] # no /\ s \notin k.user
    THEN [k EXCEPT !.user = @ \ {c}] ELSE k

Choose(k, c) == SetChosen(k, c, Chosen(k, c))

sym_calc_choice(k, c) ==
    IF c \notin kconfig.choices \/ k.curr[c] # yes THEN k
    ELSE Choose(KeepUser(FoldLeft(sym_calc_visibility, k, ValuesOf(c)), c), c)

SetDefault(k, s) == SetCurr(k, s, DefaultTri(k, s))

sym_calc_value(k, s) == sym_calc_choice(SetDefault(sym_calc_visibility(k, s), s), s)

\* sym_clear_all_valid(), and every symbol calculated.
CalcAll(k) == FoldLeft(sym_calc_value, k, kconfig.order)

-----------------------------------------------------------------------------
(* What the user may set.                                                  *)

\* Bug: m is allowed for a symbol that is implied as y.
WithinRangeImplied(k, s, v) ==
    /\ k.vis[s] # no
    /\ ~(IsBool(k, s) /\ v = mod)
    /\ k.vis[s] > k.rev[s]
    /\ IF IsChoiceValue(s) /\ k.vis[s] = yes THEN v = yes
       ELSE k.rev[s] <= v /\ v <= k.vis[s]

sym_tristate_within_range(k, s, v) ==
    /\ k.vis[s] # no
    /\ ~(IsBool(k, s) /\ v = mod)
    /\ k.vis[s] > k.rev[s]
    /\ ~(k.imp[s] = yes /\ v = mod)
    /\ IF IsChoiceValue(s) /\ k.vis[s] = yes THEN v = yes
       ELSE k.rev[s] <= v /\ v <= k.vis[s]

\* Choosing a value sets the choice and all its visible values.
SetInChoice(k, s, v) ==
    LET c == kconfig.choice[s] IN
    IF c = "" \/ v # yes THEN k
    ELSE [k EXCEPT !.pick[c] = s,
                   !.user = @ \union {c} \union {t \in ToSet(ValuesOf(c)) : k.vis[t] # no}]

SetUser(k, s, v) == [SetInChoice(k, s, v) EXCEPT !.user = @ \union {s}, !.def[s] = v]

-----------------------------------------------------------------------------
(* Files.                                                                  *)

TriOf(line) == CASE line = "n" -> no [] line = "m" -> mod [] line = "y" -> yes

\* Bug: the values of a choice add up.
ReadInChoiceAdds(r, s, c, tri) ==
    [k |-> [r.k EXCEPT !.pick[c] = IF tri = yes THEN s ELSE @, !.def[c] = @ + tri],
     warned |-> r.warned]

\* r: the symbols k, and whether there was a warning.  A line of a choice value
\* also sets its choice; m in a choice that is y is inconsistent.
ReadInChoice(r, s, c, tri) ==
    [k |-> [r.k EXCEPT !.user = IF tri = mod /\ r.k.def[c] = yes THEN @ \ {c} ELSE @,
                       !.pick[c] = IF tri = yes THEN s ELSE @,
                       !.def[c] = Most(@, tri)],
     warned |-> r.warned \/ (tri = mod /\ r.k.def[c] = yes) \/ (tri = yes /\ r.k.def[c] # no)]

ReadTri(r, s, tri) ==
    LET set == [r EXCEPT !.k.def[s] = tri, !.k.user = @ \union {s}]
    IN  IF IsChoiceValue(s) THEN ReadInChoice(set, s, kconfig.choice[s], tri) ELSE set

\* Bug: "is not set" is a comment like any other.
ReadLineSkipsUnset(r, s, line) ==
    CASE s \in kconfig.choices \/ line \in {"absent", "n"} -> r
      [] s \in Bools /\ line = "m" -> [r EXCEPT !.warned = TRUE]
      [] OTHER -> ReadTri(r, s, TriOf(line))

\* A line of .config; m is no value of a bool.
ReadLine(r, s, line) ==
    CASE s \in kconfig.choices \/ line = "absent" -> r
      [] s \in Bools /\ line = "m" -> [r EXCEPT !.warned = TRUE]
      [] OTHER -> ReadTri(r, s, TriOf(line))

conf_read_simple(lines) ==
    FoldLeft(LAMBDA r, s : ReadLine(r, s, lines[s]),
             [k |-> [Parsed EXCEPT !.user = kconfig.choices], warned |-> FALSE], kconfig.order)

\* Whether the calculated values are not what the file says.
Unsaved(k) ==
    \E s \in Named : IF s \in k.user THEN s \notin k.write \/ k.def[s] # k.curr[s]
                                     ELSE s \in k.write

\* Values of symbols that are not visible count as not set, if nothing changed.
ForgetInvisible(k) ==
    IF Unsaved(k) THEN k
    ELSE [k EXCEPT !.user = {s \in @ : IsChoiceValue(s) \/ k.vis[s] # no}]

Calculated(r) ==
    LET k == CalcAll(r.k) IN [k |-> ForgetInvisible(k), changed |-> r.warned \/ Unsaved(k)]

conf_read(lines) == Calculated(conf_read_simple(lines))

\* sym_get_string_value()
StringValue(k, s) ==
    CASE k.curr[s] = no -> "n"
      [] k.curr[s] = mod -> IF k.curr["MODULES"] = no THEN "n" ELSE "m"
      [] k.curr[s] = yes -> "y"

LinesOf(k, S) == [s \in Symbols |-> IF s \in S THEN StringValue(k, s) ELSE "absent"]

\* conf_write(): everything is calculated again if nothing has changed, since
\* the last write has taken the SYMBOL_WRITE flags away.
WriteStateStale(k, chg) == k \* Bug: it is not.
WriteState(k, chg) == IF chg THEN k ELSE CalcAll(k)
WriteLines(k) == LinesOf(k, Named \intersect k.write)
conf_write(r) == WriteLines(WriteState(r.k, r.changed))

\* Bug: the default does not count an imply.
StringDefaultNoImply(k, s, d) ==
    LET sel == Most(d, k.rev[s])
    IN  IF sel = mod /\ ((~IsChoiceValue(s) /\ k.curr["MODULES"] = no) \/ s \in Bools)
        THEN yes ELSE sel

\* sym_get_string_default()
StringDefault(k, s, d) ==
    LET sel == Most(d, k.rev[s])
        val == IF sel = mod /\ ((~IsChoiceValue(s) /\ k.curr["MODULES"] = no) \/ s \in Bools)
               THEN yes ELSE sel
    IN  Most(val, k.imp[s])

StringOf(tri) == CASE tri = no -> "n" [] tri = mod -> "m" [] tri = yes -> "y"

\* The value that a choice which must be set takes by itself.
IsChoiceDefault(k, s) ==
    /\ IsChoiceValue(s) /\ kconfig.choice[s] \notin kconfig.optional
    /\ s = sym_choice_default(k, kconfig.choice[s])
    /\ s \in Bools /\ k.curr[s] = yes

\* What a minimal configuration has to say.
InDefconfig(k, s) ==
    /\ s \in k.write
    /\ k.vis[s] > k.rev[s]
    /\ StringValue(k, s) # StringOf(StringDefault(k, s, DefaultTri(k, s)))
    /\ ~IsChoiceDefault(k, s)

DefconfigLines(k) == LinesOf(k, {s \in Named : InDefconfig(k, s)})
conf_write_defconfig(k) == DefconfigLines(CalcAll(k))

Modes == {"def_yes", "def_mod", "def_no"}
ModeTri(mode) == CASE mode = "def_yes" -> yes [] mode = "def_mod" -> mod [] mode = "def_no" -> no

\* conf_set_all_new_symbols() right after the parser, when no symbol has a value.
SetAllNew(mode) ==
    CalcAll([Parsed EXCEPT !.user = All, !.def = [s \in Symbols |-> ModeTri(mode)]])

\* conf_set_all_new_symbols(def_default) after conf_read(): the choices that
\* count as not set are set, their values not set are n.
SetNewChoices(k) ==
    [k EXCEPT !.user = @ \union kconfig.choices,
              !.def = [s \in Symbols |->
                          IF s \in All /\ IsChoiceValue(s) /\ s \notin k.user
                             /\ kconfig.choice[s] \notin k.user
                          THEN no ELSE k.def[s]]]

-----------------------------------------------------------------------------
Init ==
    /\ kconfig \in Kconfigs
    /\ file \in {f \in [Symbols -> {"absent"} \union UNION {FileLines[s] : s \in Symbols}] :
                    \A s \in Symbols : f[s] \in IF s \in Named THEN FileLines[s] ELSE {"absent"}}
    /\ defconfig = Off
    /\ mem = Off
    /\ changed = FALSE
    /\ sets = 0

\* menuconfig reads .config.  A minimal configuration that was saved before is
\* forgotten: nothing in a session reads or writes it.
Load ==
    /\ mem = Off
    /\ \E r \in {conf_read(file)} : mem' = r.k /\ changed' = r.changed
    /\ sets' = 0
    /\ defconfig' = Off
    /\ UNCHANGED <<kconfig, file>>

\* sym_set_tristate_value() of a symbol that the menu shows.
SetValue(s, v) ==
    /\ mem # Off /\ sets < MaxSets
    /\ mem.vis[s] # no
    /\ mem.curr[s] = v \/ sym_tristate_within_range(mem, s, v)
    /\ mem' = IF mem.curr[s] = v THEN SetUser(mem, s, v) ELSE CalcAll(SetUser(mem, s, v))
    /\ changed' = (changed \/ mem.curr[s] # v)
    /\ sets' = sets + 1
    /\ UNCHANGED <<kconfig, file, defconfig>>

Save ==
    /\ mem # Off
    /\ \E k \in {WriteState(mem, changed)} :
          /\ file' = WriteLines(k)
          /\ mem' = [k EXCEPT !.write = @ \ Named]
    /\ changed' = FALSE
    /\ UNCHANGED <<kconfig, defconfig, sets>>

Quit ==
    /\ mem # Off
    /\ mem' = Off /\ changed' = FALSE /\ sets' = 0
    /\ UNCHANGED <<kconfig, file, defconfig>>

\* conf --olddefconfig
Olddefconfig ==
    /\ mem = Off
    /\ file' = conf_write(conf_read(file))
    /\ UNCHANGED <<kconfig, defconfig, mem, changed, sets>>

\* conf --savedefconfig; with it, what .config would be after --olddefconfig.
Savedefconfig ==
    /\ mem = Off
    /\ \E r \in {conf_read(file)} :
          defconfig' = [lines |-> conf_write_defconfig(r.k), of |-> conf_write(r), new |-> r.changed]
    /\ UNCHANGED <<kconfig, file, mem, changed, sets>>

\* conf --defconfig
Defconfig ==
    /\ mem = Off /\ defconfig # Off
    /\ file' = WriteLines(CalcAll(SetNewChoices(conf_read(defconfig.lines).k)))
    /\ UNCHANGED <<kconfig, defconfig, mem, changed, sets>>

\* conf --allyesconfig, --allmodconfig and --allnoconfig
AllConfig(mode) ==
    /\ mem = Off
    /\ file' = WriteLines(SetAllNew(mode))
    /\ UNCHANGED <<kconfig, defconfig, mem, changed, sets>>

Next ==
    \/ Load \/ Save \/ Quit
    \/ \E s \in All, v \in Tri : SetValue(s, v)
    \/ Olddefconfig \/ Savedefconfig \/ Defconfig
    \/ \E mode \in Modes : AllConfig(mode)

Spec == Init /\ [][Next]_vars

-----------------------------------------------------------------------------
TriFunction(f) == \A s \in Symbols : f[s] \in Tri

TypeOK ==
    /\ file \in [Symbols -> Line]
    /\ changed \in BOOLEAN /\ sets \in 0 .. MaxSets
    /\ defconfig = Off \/ {defconfig.lines, defconfig.of} \subseteq [Symbols -> Line]
    /\ mem # Off =>
          /\ mem.user \subseteq All /\ mem.write \subseteq All
          /\ \A f \in {mem.def, mem.curr, mem.vis, mem.dir, mem.rev, mem.imp} : TriFunction(f)
          /\ \A c \in kconfig.choices : {mem.val[c], mem.pick[c]} \subseteq Symbols \union {""}

\* A configuration that was saved has the values that were on the screen when
\* it is read again: nothing is lost by what is left out of the file or by
\* flags that were dropped (confdata.c:786-806, 430-455).
SavedComesBack ==
    mem # Off /\ ~changed =>
        \E k \in {conf_read(file).k} : \A s \in Named : k.curr[s] = mem.curr[s]

\* A file that any of the programs wrote is up to date when it is read: no
\* symbol is new or has another value than the file says (confdata.c:408-470).
WrittenIsUpToDate ==
    [][file' # file => ~conf_read(file').changed]_vars

\* A minimal configuration leaves out only what is redundant: --defconfig
\* makes the .config from it that --savedefconfig had read, if that one was up
\* to date (confdata.c:664-739).
DefconfigComesBack ==
    [][Defconfig /\ ~defconfig.new => file' = defconfig.of]_vars

\* The same for every .config, also one that lacks symbols of the Kconfig:
\* "All values that has default values are skipped as this is redundant"
\* (confdata.c:664-667).
DefconfigSkipsRedundant ==
    [][Defconfig => file' = defconfig.of]_vars

\* Of a choice that is y exactly one value is y, a visible one, and that is the
\* value it reports; of one that is m or n none is (symbol.c:304-334, 410-413).
OneChosen ==
    mem # Off => \A c \in kconfig.choices :
        LET on == {s \in ToSet(ValuesOf(c)) : mem.curr[s] = yes}
        IN  IF mem.curr[c] = yes THEN on = {mem.val[c]} /\ mem.vis[mem.val[c]] = yes
                                 ELSE on = {}

\* The files agree with one another: a .config that was written needs no
\* further update, and a minimal one made from it leads back to it
\* (confdata.c:408-470, 664-739).
FilesAgree == WrittenIsUpToDate /\ DefconfigComesBack

-----------------------------------------------------------------------------
(* What the user interfaces ask of the menu tree (menu.c) and of the       *)
(* symbols (symbol.c): which entries are visible, which of them can be     *)
(* changed, and what setting one does.                                     *)
\* A Kconfig also has the fields
\* list: the entries below the root, a menu or a symbol, in order; an entry is
\*       named by its symbol
\* menu: the condition of each entry that is a menu, a comment or the root
\* help: the entries that are comments
\* pmenu: the symbols with a prompt of type P_MENU ("menuconfig")
ROOT == "root"
HasSymbol(m) == m \notin DOMAIN kconfig.menu
IsMenu(m) == m \in DOMAIN kconfig.menu \ kconfig.help \/ m \in kconfig.pmenu
Children(m) == IF m \in DOMAIN kconfig.list THEN kconfig.list[m] ELSE <<>>
ParentOf(m) == IF m = ROOT THEN ROOT ELSE CHOOSE p \in DOMAIN kconfig.list : m \in ToSet(kconfig.list[p])

RECURSIVE menu_get_parent_menu(_)
menu_get_parent_menu(m) == IF m = ROOT \/ IsMenu(m) THEN m ELSE menu_get_parent_menu(ParentOf(m))

menu_has_prompt(m) == ~HasSymbol(m) \/ kconfig.prompt[m] # NoPrompt

sym_is_changable(k, s) == k.vis[s] > k.rev[s]
sym_has_value(k, s) == s \in k.user
sym_get_choice_value(k, c) == k.val[c]

\* An entry whose prompt is not visible is, if its symbol is on and something
\* below it is.
RECURSIVE menu_is_visible(_, _)
menu_is_visible(k, m) ==
    /\ menu_has_prompt(m)
    /\ IF ~HasSymbol(m) THEN expr_calc_value(kconfig.menu[m], k.curr) # no
       ELSE \/ k.vis[m] # no
            \/ k.curr[m] # no /\ \E c \in ToSet(Children(m)) : menu_is_visible(k, c)
menu_is_empty(k, m) == \A c \in ToSet(Children(m)) : ~menu_is_visible(k, c)

\* A symbol that is visible by what is below it counts as set by the user from
\* then on: what menu_is_visible(m) leaves behind.
RECURSIVE VisibleBelow(_, _)
VisibleBelow(k, m) ==
    IF ~menu_is_visible(k, m) \/ ~HasSymbol(m) \/ k.vis[m] # no THEN {}
    ELSE {m} \union VisibleBelow(k, SelectSeq(Children(m), LAMBDA c : menu_is_visible(k, c))[1])
Looked(k, m) == [k EXCEPT !.user = @ \union VisibleBelow(k, m)]

\* r: [k, ok, changed]
sym_set_tristate_value(k, s, v) ==
    IF k.curr[s] # v /\ ~sym_tristate_within_range(k, s, v)
    THEN [k |-> k, ok |-> FALSE, changed |-> FALSE]
    ELSE [k |-> IF k.curr[s] = v THEN SetUser(k, s, v) ELSE CalcAll(SetUser(k, s, v)),
          ok |-> TRUE, changed |-> k.curr[s] # v]
sym_set_choice_value(k, s) == sym_set_tristate_value(k, s, yes)

\* n -> m -> y -> n, the first one that can be set.
NextTri(v) == (v + 1) % 3
sym_toggle_tristate_value(k, s) ==
    LET one == sym_set_tristate_value(k, s, NextTri(k.curr[s]))
    IN  IF one.ok THEN one
        ELSE LET two == sym_set_tristate_value(k, s, NextTri(NextTri(k.curr[s])))
             IN  IF two.ok THEN two ELSE sym_set_tristate_value(k, s, k.curr[s])

\* What a step of a program leaves alone.
KeepFiles == UNCHANGED <<kconfig, file, defconfig, sets>>
KeepValues == KeepFiles /\ UNCHANGED <<mem, changed>>
=============================================================================
