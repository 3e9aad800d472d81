----------------------------- MODULE KconfMenu -----------------------------
(***************************************************************************)
(* menu_finalize() of kconf/menu.c: the pass over the menu tree that the   *)
(* parser built.  It pushes the dependencies of every menu, if and choice  *)
(* down into the entries and their prompts, simplifying as it goes, turns  *)
(* selects into reverse dependencies, makes the submenus that nobody       *)
(* wrote, and takes if blocks out of the tree.  The call stack is explicit:*)
(* one frame per menu_finalize() that has not returned.                    *)
(***************************************************************************)
EXTENDS KconfExpr

CONSTANTS
    Name,       \* Name[i]: the symbol that entry i defines, if it defines one
    Sources     \* the parsed inputs: records of functions over Entries

Entries == 1 .. Len(Name)
Root == 0
Nodes == {Root} \union Entries
Nil == -1

\* kind:   "config" with a prompt, "hidden" (a config without one), "if",
\*         "menu", "choice" or "optional" (an optional choice)
\* up:     the block an entry was written in
\* dep:    its "depends on", or the condition of an if
\* cond:   the condition of its prompt
\* select, imply: the symbol it selects or implies, "" for none
VARIABLES
    src,        \* the input
    list, next, parent,     \* the tree, as the fields of struct menu
    dep,        \* menu->dep
    prompt,     \* menu->prompt->visible.expr
    rev_dep, implied, dir_dep,      \* of every symbol
    choiceval,  \* the symbols with SYMBOL_CHOICEVAL
    stack       \* the calls in progress

vars == <<src, list, next, parent, dep, prompt, rev_dep, implied, dir_dep, choiceval, stack>>
tree == <<list, next, parent>>

IsChoice(i) == i # Root /\ src.kind[i] \in {"choice", "optional"}
HasSym(i) == i # Root /\ src.kind[i] \notin {"if", "menu"}
HasPrompt(i) == i = Root \/ src.kind[i] \notin {"if", "hidden"}

Phase == {"propagate", "recurse", "submenu", "flatten"}

TypeOK ==
    /\ list \in [Nodes -> Entries \union {Nil}]
    /\ next \in [Nodes -> Entries \union {Nil}]
    /\ parent \in [Entries -> Nodes]
    /\ DOMAIN dep = Nodes /\ DOMAIN prompt = Nodes
    /\ {DOMAIN rev_dep, DOMAIN implied, DOMAIN dir_dep} = {Symbols}
    /\ choiceval \subseteq Symbols
    /\ \A k \in 1 .. Len(stack) :
          stack[k] \in [menu : Nodes, phase : Phase, cur : Entries \union {Nil}, last : Entries \union {Nil}]

-----------------------------------------------------------------------------
\* A call of menu_finalize(m) begins with its children, or with the entries after it.
Call(m) ==
    IF list[m] # Nil THEN [menu |-> m, phase |-> "propagate", cur |-> list[m], last |-> Nil]
    ELSE IF HasSym(m) THEN [menu |-> m, phase |-> "submenu", cur |-> next[m], last |-> Nil]
    ELSE [menu |-> m, phase |-> "flatten", cur |-> Nil, last |-> Nil]

\* Bug: an empty list is not marked.
FirstZero(S) == IF S = {} THEN 0 ELSE CHOOSE x \in S : \A y \in S : x <= y

First(S) == IF S = {} THEN Nil ELSE CHOOSE x \in S : \A y \in S : x <= y

\* The tree as the parser leaves it.
Init ==
    /\ src \in Sources
    /\ list = [i \in Nodes |-> First({j \in Entries : src.up[j] = i})]
    /\ next = [i \in Nodes |-> IF i = Root THEN Nil
                               ELSE First({j \in Entries : j > i /\ src.up[j] = src.up[i]})]
    /\ parent = src.up
    /\ dep = [i \in Nodes |-> IF i = Root THEN Null ELSE src.dep[i]]
    /\ prompt = [i \in Nodes |-> IF i = Root THEN Null ELSE src.cond[i]]
    /\ rev_dep = [s \in Symbols |-> Null]
    /\ implied = [s \in Symbols |-> Null]
    /\ dir_dep = [s \in Symbols |-> Null]
    /\ choiceval = {}
    /\ stack = <<Call(Root)>>

Frame == Last(stack)
Goto(frame) == stack' = [stack EXCEPT ![Len(stack)] = frame]
At(phase) == stack # <<>> /\ Frame.phase = phase

\* m -> m && MODULES
RECURSIVE rewrite_m(_)
rewrite_m(e) ==
    CASE e.t \in {"AND", "OR"} -> Two(e.t, rewrite_m(e.left), rewrite_m(e.right))
      [] e.t = "NOT" -> Not(rewrite_m(e.arg))
      [] IsConst(e, "m") -> Two("AND", e, Sym("MODULES"))
      [] OTHER -> e

\* What a block adds to the dependencies of its entries.
ParentDep(m) == IF IsChoice(m) THEN Sym(Name[m])
                ELSE IF HasPrompt(m) THEN prompt[m] ELSE dep[m]

\* Bug: the condition is not brought into negation normal form.
ConditionUntransformed(i, base, e) ==
    LET d == expr_eliminate_dups(expr_alloc_and(base, rewrite_m(e)))
    IN  IF HasSym(i) /\ Name[i] \notin Tristates THEN expr_trans_bool(d) ELSE d

\* The condition of a property, below the dependencies of its entry.
Condition(i, base, e) ==
    LET d == expr_eliminate_dups(expr_alloc_and(base, expr_transform(rewrite_m(e))))
    IN  IF HasSym(i) /\ Name[i] \notin Tristates THEN expr_trans_bool(d) ELSE d

\* Bug: a second select replaces the first.
AddLast(f, target, i, base) ==
    IF ~HasSym(i) \/ target = "" THEN f
    ELSE [f EXCEPT ![target] = expr_alloc_and(Sym(Name[i]), Condition(i, base, Null))]

\* A select or imply of entry i adds to what its target collects.
Add(f, target, i, base) ==
    IF ~HasSym(i) \/ target = "" THEN f
    ELSE [f EXCEPT ![target] = expr_alloc_or(@, expr_alloc_and(Sym(Name[i]), Condition(i, base, Null)))]

\* One round of the loop that propagates dependencies to the children.
Propagate ==
    /\ At("propagate") /\ Frame.cur # Nil
    /\ LET i == Frame.cur
           base == expr_eliminate_dups(
                       expr_alloc_and(ParentDep(Frame.menu), expr_transform(rewrite_m(dep[i]))))
       IN  /\ dep' = [dep EXCEPT ![i] = base]
           /\ prompt' = IF HasPrompt(i) THEN [prompt EXCEPT ![i] = Condition(i, base, @)] ELSE prompt
           /\ rev_dep' = Add(rev_dep, src.select[i], i, base)
           /\ implied' = Add(implied, src.imply[i], i, base)
           /\ Goto([Frame EXCEPT !.cur = next[i]])
    /\ UNCHANGED <<src, tree, dir_dep, choiceval>>

Propagated ==
    /\ At("propagate") /\ Frame.cur = Nil
    /\ Goto([Frame EXCEPT !.phase = "recurse", !.cur = list[Frame.menu]])
    /\ UNCHANGED <<src, tree, dep, prompt, rev_dep, implied, dir_dep, choiceval>>

\* menu_finalize() of the next child.
Recurse ==
    /\ At("recurse") /\ Frame.cur # Nil
    /\ stack' = Append(stack, Call(Frame.cur))
    /\ UNCHANGED <<src, tree, dep, prompt, rev_dep, implied, dir_dep, choiceval>>

Recursed ==
    /\ At("recurse") /\ Frame.cur = Nil
    /\ Goto([Frame EXCEPT !.phase = "flatten", !.cur = list[Frame.menu]])
    /\ UNCHANGED <<src, tree, dep, prompt, rev_dep, implied, dir_dep, choiceval>>

\* e != n as an expression without duplicates.
NotNo(e) == expr_eliminate_dups(expr_transform(expr_trans_compare(e, "UNEQUAL", "n")))

\* Bug: any mention of the symbol makes a submenu entry.
DependsOnMentioned(i, m) ==
    expr_contains_symbol(IF HasPrompt(i) THEN prompt[i] ELSE dep[i], Name[m])

\* Whether entry i, which follows m, goes into the submenu of m.
DependsOn(i, m) ==
    LET d == IF HasPrompt(i) THEN prompt[i] ELSE dep[i]
        base == NotNo(IF HasPrompt(m) THEN prompt[m] ELSE Null)
    IN  /\ expr_contains_symbol(d, Name[m])
        /\ \/ expr_depends_symbol(d, Name[m])
           \/ expr_is_yes(expr_eliminate_eq(NotNo(d), base)[2])

\* The entry after a symbol depends on it: it is finalized first.
Submenu ==
    /\ At("submenu") /\ Frame.cur # Nil /\ DependsOn(Frame.cur, Frame.menu)
    /\ stack' = Append(stack, Call(Frame.cur))
    /\ UNCHANGED <<src, tree, dep, prompt, rev_dep, implied, dir_dep, choiceval>>

\* The end of the submenu; the direct dependency of the symbol.
Submenued ==
    /\ At("submenu") /\ ~(Frame.cur # Nil /\ DependsOn(Frame.cur, Frame.menu))
    /\ LET m == Frame.menu
           l == Frame.last
       IN  /\ list' = IF l = Nil THEN list ELSE [list EXCEPT ![m] = next[m]]
           /\ next' = IF l = Nil THEN next ELSE [next EXCEPT ![m] = next[l], ![l] = Nil]
           /\ dir_dep' = [dir_dep EXCEPT ![Name[m]] = expr_alloc_or(@, dep[m])]
           /\ Goto([Frame EXCEPT !.phase = "flatten", !.cur = list'[m]])
    /\ UNCHANGED <<src, parent, dep, prompt, rev_dep, implied, choiceval>>

\* The entries of a list, from its first one.
RECURSIVE Siblings(_)
Siblings(i) == IF i = Nil THEN <<>> ELSE <<i>> \o Siblings(next[i])

\* Bug: the tail of the spliced list is not linked to what follows.
SpliceLosesTail(i, m) ==
    LET below == Siblings(list[i]) IN
    /\ parent' = [j \in Entries |-> IF j \in ToSet(below) THEN m ELSE parent[j]]
    /\ next' = [next EXCEPT ![i] = list[i]]
    /\ list' = [list EXCEPT ![i] = Nil]

\* Bug: the tail of the spliced list is linked to the block it came from.
SpliceLoops(i, m) ==
    LET below == Siblings(list[i]) IN
    /\ parent' = [j \in Entries |-> IF j \in ToSet(below) THEN m ELSE parent[j]]
    /\ next' = [next EXCEPT ![Last(below)] = i, ![i] = list[i]]
    /\ list' = [list EXCEPT ![i] = Nil]

\* The entries below i become its siblings.
Splice(i, m) ==
    LET below == Siblings(list[i]) IN
    /\ parent' = [j \in Entries |-> IF j \in ToSet(below) THEN m ELSE parent[j]]
    /\ next' = [next EXCEPT ![Last(below)] = next[i], ![i] = list[i]]
    /\ list' = [list EXCEPT ![i] = Nil]

\* A new value of the choice m; a bool value of a tristate choice needs m=y.
ChoiceValue(i, m) ==
    LET isY == Comp("EQUAL", Name[m], "y")
        split == Name[m] \in Tristates /\ Name[i] \notin Tristates
    IN  /\ choiceval' = choiceval \union {Name[i]}
        /\ dep' = IF split THEN [dep EXCEPT ![i] = expr_alloc_and(isY, @)] ELSE dep
        /\ prompt' = IF split /\ HasPrompt(i) THEN [prompt EXCEPT ![i] = expr_alloc_and(isY, @)]
                                              ELSE prompt

\* One round of the last loop.
Flatten ==
    /\ At("flatten") /\ Frame.cur # Nil
    /\ LET i == Frame.cur
           m == Frame.menu
       IN  /\ IF IsChoice(m) /\ HasSym(i) /\ Name[i] \notin choiceval
              THEN ChoiceValue(i, m) ELSE UNCHANGED <<choiceval, dep, prompt>>
           /\ IF list[i] # Nil /\ ~HasPrompt(i) THEN Splice(i, m) ELSE UNCHANGED tree
           /\ Goto([Frame EXCEPT !.cur = next'[i]])
    /\ UNCHANGED <<src, rev_dep, implied, dir_dep>>

\* The caller's loop goes on behind the entry it called for.
Resume(frame) == [frame EXCEPT !.cur = next[@],
                               !.last = IF frame.phase = "submenu" THEN frame.cur ELSE @]

\* A choice that is not optional cannot be n when it is visible; return.
Finish ==
    /\ At("flatten") /\ Frame.cur = Nil
    /\ LET m == Frame.menu
           callers == Front(stack)
           from == Last(callers)
       IN  /\ rev_dep' = IF HasSym(m) /\ src.kind[m] = "choice"
                         THEN [rev_dep EXCEPT ![Name[m]] =
                                  expr_alloc_or(@, expr_alloc_and(prompt[m], Sym("m")))]
                         ELSE rev_dep
           /\ IF callers = <<>> THEN stack' = <<>> /\ UNCHANGED parent
              ELSE /\ stack' = Front(callers) \o <<Resume(from)>>
                   /\ parent' = IF from.phase = "submenu" THEN [parent EXCEPT ![m] = from.menu]
                                                          ELSE parent
    /\ UNCHANGED <<src, list, next, dep, prompt, implied, dir_dep, choiceval>>

\* menu_finalize() of the root has returned.
Returned == stack = <<>> /\ UNCHANGED vars

Next == Propagate \/ Propagated \/ Recurse \/ Recursed \/ Submenu \/ Submenued \/ Flatten \/ Finish
        \/ Returned

Finalized == stack = <<>>

Spec == Init /\ [][Next]_vars

-----------------------------------------------------------------------------
Least(a, b) == IF a < b THEN a ELSE b

\* The value of an expression as it was written: m is n without modules.
RECURSIVE Written(_, _)
Written(e, v) ==
    CASE e.t = "AND" -> Least(Written(e.left, v), Written(e.right, v))
      [] e.t = "OR" -> 2 - Least(2 - Written(e.left, v), 2 - Written(e.right, v))
      [] e.t = "NOT" -> 2 - Written(e.arg, v)
      [] IsConst(e, "m") -> Least(mod, v["MODULES"])
      [] OTHER -> expr_calc_value(e, v)

\* What the source says of entry i: the conjunction of its own dependency and
\* those of the blocks around it, up to the nearest choice.
RECURSIVE SourceDep(_, _)
SourceDep(i, v) ==
    IF i = Root THEN yes
    ELSE LET own == Written(src.dep[i], v)
             up == src.up[i]
             above == IF ~IsChoice(up) THEN
                          Least(SourceDep(up, v), IF HasPrompt(up) /\ up # Root
                                THEN Written(src.cond[up], v) ELSE yes)
                      ELSE IF Name[up] \in Tristates /\ HasSym(i) /\ Name[i] \in Bools
                           THEN (IF v[Name[up]] = yes THEN yes ELSE no)
                      ELSE v[Name[up]]
         IN  Least(own, above)

\* All the rewriting and simplifying leaves the value of a dependency what the
\* source says, whatever the values of the symbols (menu.c:348-352, 520-531).
DepsKeepTheirValue ==
    Finalized => \A i \in Entries : \A v \in Values :
        expr_calc_value(dep[i], v) = SourceDep(i, v)

\* A prompt is visible exactly when its condition and its dependencies hold;
\* for a tristate symbol with the same value, for a bool up to the difference
\* of m and y that expr_trans_bool() gives up (menu.c:392-398).
PromptsKeepTheirTruth ==
    Finalized => \A i \in Entries : HasPrompt(i) => \A v \in Values :
        LET is == expr_calc_value(prompt[i], v)
            ought == Least(SourceDep(i, v), Written(src.cond[i], v))
        IN  /\ (is = no) <=> (ought = no)
            /\ (~HasSym(i) \/ Name[i] \in Tristates) => is = ought

\* Whether symbol s is named by the on entry i as its target, the condition met.
Names(target, i, s, v) ==
    /\ HasSym(i) /\ target[i] = s /\ v[Name[i]] # no
    /\ IF IsChoice(src.up[i]) THEN v[Name[src.up[i]]] # no /\ Written(src.dep[i], v) # no
                              ELSE SourceDep(i, v) # no

Holds(e, v) == e # Null /\ expr_calc_value(e, v) # no

\* What a symbol collects as its reverse dependency holds exactly when some
\* symbol that selects it is on with its dependencies met, or when it is a
\* visible choice that must not be n; what it collects as implied, when one
\* that implies it is (menu.c:404-412, 600-604).
SelectorsAreRevDeps ==
    Finalized => \A s \in Symbols : \A v \in Values :
        /\ Holds(rev_dep[s], v) <=>
              \E i \in Entries :
                  \/ Names(src.select, i, s, v)
                  \/ Name[i] = s /\ src.kind[i] = "choice"
                     /\ SourceDep(i, v) # no /\ Written(src.cond[i], v) # no
        /\ Holds(implied[s], v) <=> \E i \in Entries : Names(src.imply, i, s, v)

RECURSIVE Preorder(_)
Preorder(i) == <<i>> \o FlattenSeq([k \in DOMAIN Siblings(list[i]) |-> Preorder(Siblings(list[i])[k])])

\* Making submenus and dissolving if blocks moves entries up and down and
\* never loses, repeats or reorders one; every parent pointer agrees with the
\* list the entry is in (menu.c:448-494, 567-576).
TreeKeepsItsEntries ==
    Finalized =>
        /\ Preorder(Root) = [k \in 1 .. Len(Name) + 1 |-> k - 1]
        /\ \A i \in Nodes : \A j \in ToSet(Siblings(list[i])) : parent[j] = i

\* The values without an unmet dependency: no symbol is on against its own.
Met(v) == \A i \in Entries : HasSym(i) /\ v[Name[i]] # no => expr_calc_value(dep[i], v) # no

\* An entry that was put below a symbol it was not written in is never shut
\* off by it: menu_is_visible() hides what is below a prompt that is not
\* visible unless its symbol is on, so whenever the prompt of the entry is
\* visible that of the symbol is, or the symbol is not n, unless some symbol
\* is selected against its dependencies (menu.c:461-480, 652-656).
SubmenuHidesNothing ==
    Finalized => \A i \in Entries :
        parent[i] # Root /\ parent[i] # src.up[i] /\ HasSym(parent[i]) /\ HasPrompt(i) =>
            \A v \in Values : expr_calc_value(prompt[i], v) # no /\ Met(v) =>
                \/ v[Name[parent[i]]] # no
                \/ HasPrompt(parent[i]) /\ expr_calc_value(prompt[parent[i]], v) # no

\* Finalizing a menu tree changes the form of the conditions in it and not what
\* they say (menu.c:348-412, 520-531).
ConditionsKeepTheirMeaning ==
    DepsKeepTheirValue /\ PromptsKeepTheirTruth /\ SelectorsAreRevDeps

\* Finalizing moves entries between menus and loses none of them, neither from
\* the tree nor from the user's view (menu.c:448-494, 567-576).
EntriesStayInView == TreeKeepsItsEntries /\ SubmenuHidesNothing
=============================================================================
