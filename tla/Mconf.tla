------------------------------- MODULE Mconf -------------------------------
(***************************************************************************)
(* kconf/mconf.c, menuconfig: the menus, choices, searches and file        *)
(* dialogs that are open at a time, the trail of titles that tells the     *)
(* user where he is, and what becomes of his changes at the end.  A dialog *)
(* is what Dialogs makes of it: any of its answers.                        *)
(***************************************************************************)
EXTENDS KconfSym

CONSTANT MaxOpen    \* menus and searches that are open at a time

VARIABLE
    ui  \* stack: the calls in progress, trail, subs: subtitles, items: of the dialog,
        \* count: child_count # 0, showall, single, opened: the menus with data set,
        \* name: filename, alt: the alternate file, failed: a load has failed since the last
        \* one that did not, over: how the program ended

mconfVars == <<kconfig, file, defconfig, mem, changed, sets, ui>>

SEARCH == "search"
Open == ui.over = ""
Dialog(fn, m) == [fn |-> fn, m |-> m, at |-> "build"]
TopDialog == Last(ui.stack)
Screen(fn) == Open /\ ui.stack # <<>> /\ TopDialog.fn = fn /\ TopDialog.at = "dialog"
To(u, at) == [u EXCEPT !.stack[Len(u.stack)].at = at]
Push(u, f) == [u EXCEPT !.stack = Append(@, f)]
Pop(u) == [u EXCEPT !.stack = Front(@)]

set_subtitle(u) == [u EXCEPT !.subs = SelectSeq(u.trail, LAMBDA t : t # ROOT)]
reset_subtitle(u) == [u EXCEPT !.subs = <<>>]
Enter(u, part) == [u EXCEPT !.trail = Append(@, part)]
Leave(u) == [Pop(u) EXCEPT !.trail = Front(@)]      \* list_del(trail.prev)
show_textbox(u) == Push(To(u, "build"), [Dialog("text", "") EXCEPT !.at = "dialog"])
OpenMenu(u, m) == Push(Enter(To(u, "build"), m), Dialog("conf", m))

MconfStart(single) ==
    /\ mem = Off /\ Open
    /\ \E r \in {conf_read(file)} : mem' = r.k /\ changed' = r.changed
    /\ ui' = OpenMenu([ui EXCEPT !.single = single, !.stack = <<Dialog("exit", "")>>], ROOT)
    /\ KeepFiles

-----------------------------------------------------------------------------
(* build_conf *)
ListedEntry(m) == IF ui.showall THEN menu_has_prompt(m) ELSE menu_is_visible(mem, m)

\* The value that a choice shows beside its prompt.
DefMenu(c) ==
    IF \E v \in ToSet(Children(c)) : menu_is_visible(mem, v) /\ v = sym_get_choice_value(mem, c)
    THEN sym_get_choice_value(mem, c) ELSE ""

Tag(m) ==
    CASE ~HasSymbol(m) -> IF IsMenu(m) THEN "m" ELSE ":"
      [] m \in kconfig.choices -> IF sym_is_changable(mem, m) \/ DefMenu(m) # "" THEN "t" ELSE ":"
      [] OTHER -> IF IsChoiceValue(m) /\ mem.curr[m] = yes THEN ":" ELSE "t"

RECURSIVE build_conf(_, _)
BuildAll(cur, kids) == FoldLeft(LAMBDA acc, c : acc \o build_conf(cur, c), <<>>, kids)
\* Bug: what is below a value of a choice is left out.
BelowChoiceNothing(cur, c) == IF mem.curr[c] = yes THEN <<>> ELSE BuildAll(cur, Children(c))
BelowChoice(cur, c) ==
    IF mem.curr[c] # yes THEN BuildAll(cur, Children(c))
    ELSE IF DefMenu(c) # "" /\ Children(DefMenu(c)) # <<>> THEN build_conf(cur, DefMenu(c)) ELSE <<>>
\* Whether what is below an entry is in a menu of its own.
Closed(cur, m) ==
    IF HasSymbol(m) THEN m # cur /\ m \in kconfig.pmenu
    ELSE m # cur /\ IsMenu(m) /\ ~(ui.single /\ m \in ui.opened)
ItemsOf(cur, m) ==
    IF m = cur /\ ~HasSymbol(m) THEN <<>>
    ELSE <<[m |-> m, tag |-> IF m = cur /\ m \notin kconfig.choices THEN ":" ELSE Tag(m)]>>
build_conf(cur, m) ==
    IF ~ListedEntry(m) THEN <<>>
    ELSE ItemsOf(cur, m) \o
         IF m \in kconfig.choices THEN BelowChoice(cur, m)
         ELSE IF Closed(cur, m) THEN <<>> ELSE BuildAll(cur, Children(m))

\* The entries that menu_is_visible() is called for, beside the items themselves.
AlsoSeen(m) ==
    IF m \in kconfig.choices THEN Children(m)
    ELSE IF IsMenu(m) THEN SelectSeq(Children(m), LAMBDA c : menu_is_visible(mem, c)) ELSE <<>>
SeenItems(k, items) ==
    FoldLeft(LAMBDA s, it : FoldLeft(Looked, Looked(s, it.m), AlsoSeen(it.m)), k, items)

-----------------------------------------------------------------------------
(* conf *)
\* child_count counts the entries of every menu there was: once it is not 0 a
\* menu is shown however empty it is.
ShowMenu ==
    /\ Open /\ ui.stack # <<>> /\ TopDialog.fn = "conf" /\ TopDialog.at = "build"
    /\ \E items \in {build_conf(TopDialog.m, TopDialog.m)} :
       /\ mem' = SeenItems(mem, items)
       /\ \E any \in {\/ ui.count \/ TopDialog.m \in kconfig.choices
                     \/ \E i \in DOMAIN items : items[i].m # TopDialog.m} :
             ui' = IF any THEN [set_subtitle(To(ui, "dialog")) EXCEPT !.count = TRUE, !.items = items]
                   ELSE Leave(ui)
    /\ KeepFiles /\ UNCHANGED changed

MenuExit ==
    /\ Screen("conf")
    /\ ui' = Leave(ui)
    /\ KeepValues

\* What the user does but for moving around is bounded.
Does == sets < MaxSets /\ sets' = sets + 1 /\ UNCHANGED <<kconfig, defconfig>>
Set(r) == mem' = r.k /\ changed' = (changed \/ r.changed) /\ Does /\ UNCHANGED file
Again == To(ui, "build")
NoItem == [m |-> "", tag |-> ""]
ItemsShown == IF ui.items = <<>> THEN {NoItem} ELSE ToSet(ui.items)
MayOpen == Cardinality({i \in DOMAIN ui.stack : ui.stack[i].fn \in {"conf", "search"}}) < MaxOpen

IsChoiceSet(it) == it.tag = "t" /\ it.m \in kconfig.choices /\ mem.curr[it.m] = yes
HasMenu(it) == it.tag = "t" /\ it.m \in kconfig.pmenu

MenuSelect(it) ==
    /\ Screen("conf") /\ it \in ItemsShown
    /\ \/ /\ it.tag = "m" /\ ui.single
          /\ ui' = [Again EXCEPT !.opened = IF it.m \in @ THEN @ \ {it.m} ELSE @ \union {it.m}]
          /\ Does /\ UNCHANGED <<file, mem, changed>>
       \/ /\ MayOpen /\ KeepValues
          /\ (it.tag = "m" /\ ~ui.single) \/ (HasMenu(it) /\ ~IsChoiceSet(it))
          /\ ui' = OpenMenu(Again, it.m)
       \/ /\ IsChoiceSet(it) /\ KeepValues
          /\ ui' = Push(Again, Dialog("choice", it.m))
       \/ /\ it.tag \notin {"m", "t"} /\ KeepValues
          /\ ui' = Again

MenuHelp(it) ==
    /\ Screen("conf") /\ it \in ItemsShown
    /\ ui' = show_textbox(IF it.m # "" /\ HasSymbol(it.m) THEN Again ELSE reset_subtitle(Again))
    /\ KeepValues

MenuFile(it, fn) ==
    /\ Screen("conf") /\ it \in ItemsShown
    /\ ui' = Push(reset_subtitle(Again), [Dialog(fn, "") EXCEPT !.at = "dialog"])
    /\ KeepValues

MenuYes(it) ==
    /\ Screen("conf") /\ it \in ItemsShown /\ it.tag = "t"
    /\ \E r \in {sym_set_tristate_value(mem, it.m, yes)} :
          IF r.ok THEN Set(r) /\ ui' = Again
          ELSE \E s \in {sym_set_tristate_value(mem, it.m, mod)} :
                  Set(s) /\ ui' = IF s.ok THEN show_textbox(Again) ELSE Again

MenuSet(it, v) ==
    /\ Screen("conf") /\ it \in ItemsShown /\ it.tag = "t"
    /\ Set(sym_set_tristate_value(mem, it.m, v))
    /\ ui' = Again

MenuSpace(it) ==
    /\ Screen("conf") /\ it \in ItemsShown
    /\ \/ it.tag = "t" /\ Set(sym_toggle_tristate_value(mem, it.m)) /\ ui' = Again
       \/ it.tag = "m" /\ MayOpen /\ ui' = OpenMenu(Again, it.m) /\ KeepValues

MenuShowAll(it) ==
    /\ Screen("conf") /\ it \in ItemsShown
    /\ ui' = [Again EXCEPT !.showall = ~@]
    /\ Does /\ UNCHANGED <<file, mem, changed>>

MenuSearch(it) ==
    /\ Screen("conf") /\ it \in ItemsShown /\ MayOpen
    /\ ui' = Push(Again, [Dialog(SEARCH, "") EXCEPT !.at = "input"])
    /\ KeepValues

-----------------------------------------------------------------------------
(* search_conf *)
AtInput == Open /\ ui.stack # <<>> /\ TopDialog.at = "input"
SearchInput ==
    /\ AtInput
    /\ \/ ui' = Enter(To(ui, "build"), SEARCH)
       \/ ui' = Push(ui, [Dialog("text", "") EXCEPT !.at = "dialog"])
       \/ ui' = Pop(ui)
    /\ KeepValues

ShowResults ==
    /\ Open /\ ui.stack # <<>> /\ TopDialog.fn = SEARCH /\ TopDialog.at = "build"
    /\ ui' = set_subtitle(To(ui, "dialog"))
    /\ KeepValues

\* get_prompt_str(): the place to jump to is the entry, or the next one above
\* it that is visible; entries of the main menu have none.
RECURSIVE Location(_)
Location(m) ==
    IF m = ROOT THEN "" ELSE IF menu_is_visible(mem, m) THEN m ELSE Location(ParentOf(m))
JumpTarget(s) ==
    IF Location(ParentOf(s)) = "" THEN "" ELSE IF menu_is_visible(mem, s) THEN s ELSE Location(ParentOf(s))

Jump(s) ==
    /\ Screen(SEARCH) /\ MayOpen /\ menu_has_prompt(s)
    /\ JumpTarget(s) # ""
    /\ ui' = OpenMenu(ui, ParentOf(JumpTarget(s)))
    /\ KeepValues

\* Bug: the title of the search stays in the trail.
SearchDoneKeeps ==
    /\ Screen(SEARCH)
    /\ ui' = Pop(ui)
    /\ KeepValues
SearchDone ==
    /\ Screen(SEARCH)
    /\ ui' = Leave(ui)
    /\ KeepValues

-----------------------------------------------------------------------------
(* conf_choice, help texts *)
ShowChoice ==
    /\ Open /\ ui.stack # <<>> /\ TopDialog.fn = "choice" /\ TopDialog.at = "build"
    /\ mem' = FoldLeft(Looked, mem, Children(TopDialog.m))
    /\ ui' = To(ui, "dialog")
    /\ KeepFiles /\ UNCHANGED changed

ChoiceSelect(s) ==
    /\ Screen("choice") /\ s \in ToSet(Children(TopDialog.m)) /\ menu_is_visible(mem, s) /\ HasSymbol(s)
    /\ Set(sym_set_tristate_value(mem, s, yes))
    /\ ui' = Pop(ui)
ChoiceOther ==
    /\ Screen("choice")
    /\ \/ ui' = Pop(ui)
       \/ ui' = show_textbox(ui)
    /\ KeepValues

TextDone ==
    /\ Screen("text")
    /\ ui' = Pop(ui)
    /\ KeepValues

-----------------------------------------------------------------------------
(* conf_save, conf_load: an empty name or ESC gives up, a name that does not *)
(* work and help are followed by the same dialog                             *)
FileNames == {".config", "alt"}
FileAgain(u) == Push(u, [Dialog("text", "") EXCEPT !.at = "dialog"])
GiveUp ==
    /\ Open /\ ui.stack # <<>> /\ TopDialog.fn \in {"save", "load"}
    /\ ui' \in {Pop(ui), FileAgain(ui)}
    /\ KeepValues

\* conf_write() to a name
WriteTo(name, lines, u) ==
    /\ file' = IF name = ".config" THEN lines ELSE file
    /\ ui' = [u EXCEPT !.alt = IF name = "alt" THEN lines ELSE @, !.name = name, !.failed = FALSE]
\* Bug: the program does not remember the name.
conf_saveNoName(name) ==
    /\ Screen("save")
    /\ \E k \in {WriteState(mem, changed)} :
          /\ file' = IF name = ".config" THEN WriteLines(k) ELSE file
          /\ ui' = [Pop(ui) EXCEPT !.alt = IF name = "alt" THEN WriteLines(k) ELSE @, !.failed = FALSE]
          /\ mem' = [k EXCEPT !.write = @ \ Named]
    /\ changed' = FALSE /\ Does
conf_save(name) ==
    /\ Screen("save")
    /\ \E k \in {WriteState(mem, changed)} :
          WriteTo(name, WriteLines(k), Pop(ui)) /\ mem' = [k EXCEPT !.write = @ \ Named]
    /\ changed' = FALSE /\ Does

\* What was loaded counts as changed.
conf_load(name) ==
    /\ Screen("load") /\ (name = "alt" => ui.alt # Off)
    /\ \E r \in {conf_read(IF name = "alt" THEN ui.alt ELSE file)} : mem' = r.k
    /\ changed' = TRUE
    /\ ui' = [Pop(ui) EXCEPT !.name = name, !.failed = FALSE]
    /\ Does /\ UNCHANGED file

\* conf_read() has set the change count to 0 before it fails.
LoadFails ==
    /\ Screen("load")
    /\ changed' = FALSE
    /\ ui' = [FileAgain(ui) EXCEPT !.failed = TRUE]
    /\ Does /\ UNCHANGED <<file, mem>>

-----------------------------------------------------------------------------
(* handle_exit, and sig_handler, which calls it wherever the program is *)
Over(how) == [ui EXCEPT !.over = how, !.subs = <<>>]
ShowExit ==
    /\ Open /\ ui.stack # <<>> /\ TopDialog.fn \in {"exit", "interrupt"} /\ TopDialog.at = "build"
    /\ ui' = IF changed THEN reset_subtitle(To(ui, "dialog")) ELSE Over("silent")
    /\ KeepValues

Interrupt ==
    /\ Open /\ ui.stack # <<>> /\ TopDialog.fn # "interrupt" /\ TopDialog.at = "dialog"
    /\ ui' = Push(ui, Dialog("interrupt", ""))
    /\ KeepValues

OnExit == Screen("exit") \/ Screen("interrupt")
ExitYes ==
    /\ OnExit
    /\ \/ WriteTo(ui.name, WriteLines(WriteState(mem, changed)), Over("saved"))
       \/ file' = file /\ ui' = Over("error")
    /\ UNCHANGED <<kconfig, defconfig, mem, changed, sets>>
ExitNo == OnExit /\ ui' = Over("no") /\ KeepValues

\* ESC goes back to the main menu; in the handler of a signal it cannot.
ExitEsc ==
    /\ OnExit
    /\ ui' = IF TopDialog.fn = "exit" THEN OpenMenu(ui, ROOT) ELSE Over("esc")
    /\ KeepValues
ExitTooSmall == OnExit /\ ui' = Over("too small") /\ KeepValues

\* A search or a change has no end of its own: the bounds are those of the state.
MconfNext ==
    \/ \E single \in BOOLEAN : MconfStart(single)
    \/ ShowMenu \/ MenuExit \/ ShowResults \/ SearchInput \/ SearchDone
    \/ \E it \in ItemsShown : \/ MenuSelect(it) \/ MenuHelp(it) \/ MenuYes(it) \/ MenuSpace(it)
                              \/ MenuShowAll(it) \/ MenuSearch(it)
                              \/ \E v \in {no, mod} : MenuSet(it, v)
                              \/ \E fn \in {"save", "load"} : MenuFile(it, fn)
    \/ \E s \in Named : Jump(s) \/ ChoiceSelect(s)
    \/ ShowChoice \/ ChoiceOther \/ TextDone \/ GiveUp \/ LoadFails
    \/ \E name \in FileNames : conf_save(name) \/ conf_load(name)
    \/ ShowExit \/ Interrupt \/ ExitYes \/ ExitNo \/ ExitEsc \/ ExitTooSmall

NoUi == [stack |-> <<>>, trail |-> <<>>, subs |-> <<>>, items |-> <<>>, count |-> FALSE,
         showall |-> FALSE, single |-> FALSE, opened |-> {}, name |-> ".config", alt |-> Off,
         failed |-> FALSE, over |-> ""]
MconfInit == Init /\ ui = NoUi

-----------------------------------------------------------------------------
\* The menus and searches that the user has gone into, the outermost first.
Path ==
    LET inside == SelectSeq(ui.stack, LAMBDA f : f.fn = "conf" \/ (f.fn = SEARCH /\ f.at # "input"))
    IN  [i \in DOMAIN inside |-> IF inside[i].fn = "conf" THEN inside[i].m ELSE SEARCH]

\* The titles on the screen name the menus and searches that are open, in the
\* order in which the user went into them, whatever he came back from, or they
\* are gone; a menu and the results of a search always have them.  None is the
\* title of something that was left, whose text is freed (mconf.c:320-357).
ScreenTellsWhere ==
    Open /\ ui.stack # <<>> /\ TopDialog.at = "dialog" =>
        \/ ui.subs = SelectSeq(Path, LAMBDA m : m # ROOT)
        \/ ui.subs = <<>> /\ TopDialog.fn \notin {"conf", SEARCH}

\* What menuconfig can show from one of its menus on.
Opens(cur) == {it \in ToSet(build_conf(cur, cur)) : it.tag = "m" \/ HasMenu(it)}
Offers(cur) ==
    UNION {{it.m} \union IF IsChoiceSet(it) THEN ToSet(Children(it.m)) ELSE {} :
               it \in ToSet(build_conf(cur, cur))}
RECURSIVE OffersBelow(_)
OffersBelow(cur) == Offers(cur) \union UNION {OffersBelow(it.m) : it \in Opens(cur)}

\* Every entry that is visible can be reached from the main menu, and a jump
\* from the results of a search ends where its target, or the choice that it
\* is a value of, is in the list (mconf.c:470-640, menu.c:699-740).
VisibleIsReachable ==
    /\ Screen("conf") /\ TopDialog.m = ROOT =>
          \A m \in All \union DOMAIN kconfig.menu :
              menu_is_visible(mem, m) => m \in OffersBelow(ROOT) \union {ROOT}
    /\ Screen(SEARCH) => \A s \in Named :
          menu_has_prompt(s) /\ JumpTarget(s) # "" => JumpTarget(s) \in Offers(ParentOf(JumpTarget(s)))

\* The configuration on the screen is not the one in the file it came from.
Unwritten ==
    \E k \in {conf_read(IF ui.name = "alt" THEN ui.alt ELSE file).k} :
        \E s \in Named : k.curr[s] # mem.curr[s]

\* menuconfig that ends without a question has nothing to save, unless a file
\* could not be loaded (mconf.c:953-972, confdata.c:412).
NothingLostSilently == ui.over = "silent" /\ ~ui.failed => ~Unwritten

\* The user of menuconfig can get everywhere and knows where he is
\* (mconf.c:320-357, 470-640).
MenusLeadEverywhere == ScreenTellsWhere /\ VisibleIsReachable
=============================================================================
