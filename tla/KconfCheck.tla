----------------------------- MODULE KconfCheck -----------------------------
(***************************************************************************)
(* What kconf checks of its symbols, apart from the logic of KconfSym.     *)
(* String, int and hex symbols (kconf/symbol.c, kconf/confdata.c): which   *)
(* text is a value, how a range limits it, how it is escaped in .config    *)
(* and read from there; a text is a sequence of characters, since that is  *)
(* what escaping and the checks are about.  And the search for recursive   *)
(* dependencies that follows the parser (symbol.c, sym_check_deps).        *)
(***************************************************************************)
EXTENDS Integers, Sequences, FiniteSets, SequencesExt, TLC

CONSTANTS StrTypes,     \* the type of each symbol: "string", "int" or "hex"
          Defaults,     \* its default, NoText without one
          Ranges,       \* its range <<lo, hi>>, each [text |-> t] or [sym |-> s]; or <<>>
          Hidable,      \* the symbols that are visible only while the option they depend on is y
          StrOrder,     \* the symbols, each behind those that its range names
          TypedTexts,   \* TypedTexts[s]: what the user types for s
          FoundFiles    \* .config files that were edited by hand

NoText == <<"no text">>

NoConfig == [none |-> TRUE]
VARIABLE str    \* [val: def[S_DEF_USER].val of each symbol, has: those with SYMBOL_DEF_USER,
                \*  curr: the calculated values, shown: the option is y, changed, off: no
                \*  program runs, config: the file]
strVars == <<str>>

StrSyms == DOMAIN StrTypes
Digits == {"0", "1"}
HexDigits == {"0", "1", "a"}
DigitOf(c) == CASE c = "0" -> 0 [] c = "1" -> 1 [] c = "a" -> 10

-----------------------------------------------------------------------------
(* sym_string_valid *)
DropMinus(t) == IF t # <<>> /\ t[1] = "-" THEN Tail(t) ELSE t
Has0x(t) == Len(t) > 1 /\ t[1] = "0" /\ t[2] = "x"
Drop0x(t) == IF Has0x(t) THEN SubSeq(t, 3, Len(t)) ELSE t
AllIn(t, S) == t # <<>> /\ ToSet(t) \subseteq S
sym_string_valid(type, t) ==
    CASE type = "string" -> TRUE
      [] type = "int" -> AllIn(DropMinus(t), Digits) /\ (DropMinus(t)[1] = "0" => Len(DropMinus(t)) = 1)
      [] type = "hex" -> AllIn(Drop0x(t), HexDigits)

-----------------------------------------------------------------------------
(* Numbers: strtoll() and printf() in the base of the type *)
BaseOf(type) == IF type = "hex" THEN 16 ELSE 10
Value(t, base) == FoldLeft(LAMBDA n, c : base * n + DigitOf(c), 0, t)
strtoll(t, type) ==
    IF t # <<>> /\ t[1] = "-" THEN 0 - Value(Tail(t), BaseOf(type))
    ELSE Value(IF type = "hex" THEN Drop0x(t) ELSE t, BaseOf(type))
CharOf(d) == CASE d = 0 -> "0" [] d = 1 -> "1" [] d = 10 -> "a"
RECURSIVE DigitsOf(_, _)
DigitsOf(n, base) ==
    IF n < base THEN <<CharOf(n)>> ELSE Append(DigitsOf(n \div base, base), CharOf(n % base))
PrintedNumber(n, type) ==
    CASE type = "hex" -> <<"0", "x">> \o DigitsOf(n, 16)
      [] n < 0 -> <<"-">> \o DigitsOf(0 - n, 10)
      [] OTHER -> DigitsOf(n, 10)

\* sym_get_range_val(): a bound is a text or the value of a symbol.
RangeVal(curr, b, type) ==
    IF "sym" \in DOMAIN b THEN strtoll(curr[b.sym], StrTypes[b.sym]) ELSE strtoll(b.text, type)
Within(curr, s, n) ==
    Ranges[s] = <<>> \/ (/\ n >= RangeVal(curr, Ranges[s][1], StrTypes[s])
                         /\ n <= RangeVal(curr, Ranges[s][2], StrTypes[s]))

\* Bug: only the lower bound is applied.
sym_validate_rangeLow(curr, s, t) ==
    LET n == strtoll(t, StrTypes[s])
        lo == RangeVal(curr, Ranges[s][1], StrTypes[s])
    IN  IF StrTypes[s] = "string" \/ Ranges[s] = <<>> \/ n >= lo THEN t ELSE PrintedNumber(lo, StrTypes[s])
\* A value below its range becomes the lower bound, one above it the upper one.
sym_validate_range(curr, s, t) ==
    IF StrTypes[s] = "string" \/ Within(curr, s, strtoll(t, StrTypes[s])) THEN t
    ELSE LET lo == RangeVal(curr, Ranges[s][1], StrTypes[s])
             hi == RangeVal(curr, Ranges[s][2], StrTypes[s])
         IN  PrintedNumber(IF strtoll(t, StrTypes[s]) < lo THEN lo ELSE hi, StrTypes[s])

-----------------------------------------------------------------------------
(* sym_calc_value: the user's text while it is visible, else the default *)
Visible(st, s) == s \notin Hidable \/ st.shown
OwnText(st, s) ==
    IF Visible(st, s) /\ s \in st.has THEN st.val[s]
    ELSE IF Defaults[s] # NoText THEN Defaults[s] ELSE <<>>
Curr(st) ==
    FoldLeft(LAMBDA curr, s : [curr EXCEPT ![s] = sym_validate_range(curr, s, OwnText(st, s))],
             [s \in StrSyms |-> <<>>], StrOrder)
IsWritten(st, s) == Visible(st, s) \/ Defaults[s] # NoText

sym_string_within_range(st, s, t) ==
    /\ sym_string_valid(StrTypes[s], t)
    /\ StrTypes[s] = "string" \/ Within(st.curr, s, strtoll(t, StrTypes[s]))

\* sym_clear_all_valid(): everything is calculated anew.
sym_clear_all_valid(st) == [st EXCEPT !.curr = Curr(st), !.changed = TRUE]

\* A hex value gets its 0x.  The text that the symbol had last, even if that
\* counts as not set since, is taken without a new calculation.
Stored(s, t) == IF StrTypes[s] = "hex" /\ ~Has0x(t) THEN <<"0", "x">> \o t ELSE t
sym_set_string_value(st, s, t) ==
    CASE ~sym_string_within_range(st, s, t) -> st
      [] st.val[s] = t /\ Stored(s, t) = t -> [st EXCEPT !.has = @ \cup {s}]
      [] OTHER -> sym_clear_all_valid([st EXCEPT !.has = @ \cup {s}, !.val[s] = Stored(s, t)])

-----------------------------------------------------------------------------
(* .config *)
\* Bug: a backslash is not escaped.
sym_escape_string_valueQuotes(t) ==
    <<"quote">> \o FlattenSeq([i \in DOMAIN t |-> IF t[i] = "quote" THEN <<"bs", t[i]>> ELSE <<t[i]>>])
    \o <<"quote">>
sym_escape_string_value(t) ==
    <<"quote">> \o FlattenSeq([i \in DOMAIN t |-> IF t[i] \in {"quote", "bs"} THEN <<"bs", t[i]>>
                                                 ELSE <<t[i]>>]) \o <<"quote">>

\* conf_set_sym_val(): up to the first quote that no backslash precedes; the
\* backslashes go.  NoText if there is none, or no value of the type.
RECURSIVE Unescape(_, _)
Unescape(done, t) ==
    CASE t = <<>> -> NoText
      [] t[1] = "quote" -> done
      [] t[1] = "bs" -> IF Len(t) = 1 THEN NoText ELSE Unescape(Append(done, t[2]), SubSeq(t, 3, Len(t)))
      [] OTHER -> Unescape(Append(done, t[1]), Tail(t))
conf_set_sym_val(s, line) ==
    IF StrTypes[s] = "string" THEN (IF line # <<>> /\ line[1] = "quote" THEN Unescape(<<>>, Tail(line)) ELSE NoText)
    ELSE IF sym_string_valid(StrTypes[s], line) THEN line ELSE NoText

LineOf(s, t) == IF StrTypes[s] = "string" THEN sym_escape_string_value(t) ELSE t
StrWrite(st) ==
    [shown |-> st.shown,
     lines |-> [s \in StrSyms |-> IF IsWritten(st, s) THEN LineOf(s, st.curr[s]) ELSE NoText]]

\* conf_read(): what is not visible, and what is out of its range, counts as
\* not set; the first only if the calculated values are what the file says and
\* no symbol before it was out of its range (the hash table's order is StrOrder here).
Parsed(f) == [s \in StrSyms |-> IF f.lines[s] = NoText THEN NoText ELSE conf_set_sym_val(s, f.lines[s])]
StrParsed(f, val) ==
    [off |-> FALSE, changed |-> FALSE, config |-> f, shown |-> f.shown, val |-> val,
     has |-> {s \in StrSyms : val[s] # NoText},
     curr |-> [s \in StrSyms |-> <<>>]]
Warned(f, s) ==
    f.lines[s] # NoText /\ conf_set_sym_val(s, f.lines[s]) = NoText
    /\ (StrTypes[s] = "string" => f.lines[s] # <<>> /\ f.lines[s][1] = "quote")
StrUnsaved(st, s) ==
    IF s \in st.has THEN ~IsWritten(st, s) \/ st.curr[s] # st.val[s] ELSE IsWritten(st, s)
OutOfRange(st, s) == s \in st.has /\ ~sym_string_within_range(st, s, st.val[s])
Reset(st, unsaved) ==
    LET One(r, s) ==
          [has |-> IF OutOfRange(st, s) \/ ~(Visible(st, s) \/ r.unsaved) THEN r.has \ {s} ELSE r.has,
           unsaved |-> r.unsaved \/ OutOfRange(st, s)]
        all == FoldLeft(One, [has |-> st.has, unsaved |-> unsaved], StrOrder)
    IN  [st EXCEPT !.has = all.has, !.changed = all.unsaved]
Calculated(st) == [st EXCEPT !.curr = Curr(st)]
\* Only a value that was out of its range is calculated again.
Recalculated(old, st) ==
    [st EXCEPT !.curr = [s \in StrSyms |-> IF OutOfRange(old, s) THEN Curr(st)[s] ELSE old.curr[s]]]
\* sym_add_change_count(conf_warnings || conf_unsaved)
StrChecked(f, st) ==
    LET r == Recalculated(st, Reset(st, \E s \in StrSyms : StrUnsaved(st, s)))
    IN  [r EXCEPT !.changed = @ \/ \E s \in StrSyms : Warned(f, s)]
StrRead(f) == StrChecked(f, Calculated(StrParsed(f, Parsed(f))))

-----------------------------------------------------------------------------
NoTexts == [s \in StrSyms |-> NoText]
StrStart(st) == Calculated([st EXCEPT !.val = NoTexts, !.has = {}, !.shown = TRUE])
StrInit ==
    \E f \in FoundFiles \cup {NoConfig} :
        str = StrStart([val |-> NoTexts, has |-> {}, curr |-> [s \in StrSyms |-> <<>>], shown |-> TRUE,
                        changed |-> f = NoConfig, off |-> f # NoConfig, config |-> f])
Type(s, t) == ~str.off /\ Visible(str, s) /\ str' = sym_set_string_value(str, s, t)
ToggleShown == ~str.off /\ str' = sym_clear_all_valid([str EXCEPT !.shown = ~@])
\* if (!conf_get_changed()) sym_clear_all_valid();
ToWrite(st) == IF st.changed THEN st ELSE sym_clear_all_valid(st)
SaveStr ==
    /\ ~str.off
    /\ str' = [ToWrite(str) EXCEPT !.config = StrWrite(ToWrite(str)), !.changed = FALSE]
QuitStr ==
    /\ ~str.off /\ str.config # NoConfig
    /\ str' = [StrStart(str) EXCEPT !.off = TRUE, !.changed = FALSE]
LoadStr == str.off /\ str' = StrRead(str.config)
StrNext ==
    \/ \E s \in StrSyms : \E t \in TypedTexts[s] : Type(s, t)
    \/ ToggleShown \/ SaveStr \/ QuitStr \/ LoadStr

-----------------------------------------------------------------------------
\* A configuration that was saved has the texts that were on the screen when it
\* is read, quotes, backslashes and prefixes included, and reading it finds
\* nothing to save (symbol.c:962-1000, confdata.c:139-167).
TextsComeBack ==
    ~str.off /\ ~str.changed =>
        \E st \in {StrRead(str.config)} : st.curr = str.curr /\ ~st.changed

\* A value is within its range, whatever was set, loaded or made visible before
\* the bounds had their present values (symbol.c:154-196, 630-665).
RangeHolds ==
    \A s \in StrSyms :
        Ranges[s] # <<>> /\ RangeVal(str.curr, Ranges[s][1], StrTypes[s])
                            <= RangeVal(str.curr, Ranges[s][2], StrTypes[s]) =>
            Within(str.curr, s, strtoll(str.curr[s], StrTypes[s]))

\* Texts and numbers survive being typed, bounded, saved and read
\* (symbol.c:154-196, 962-1000; confdata.c:139-167).
ValuesSurvive == TextsComeBack /\ RangeHolds

-----------------------------------------------------------------------------
(* Recursive dependencies: a depth-first search over what the expressions of *)
(* each symbol mention, with the flags SYMBOL_CHECK and SYMBOL_CHECKED and a *)
(* stack from which the cycle is printed.  A choice is searched as a whole.  *)
CONSTANTS HashOrder,    \* the symbols, as for_all_symbols has them
          ChoiceFor,    \* the choice of each symbol that is a value of one, else ""
          ChoiceSyms,
          DepGraphs     \* the inputs: sets of <<s, how, t>>, how "rev", "visible" or "default"

VARIABLE dep    \* [edges, search: the state of the search, todo: symbols to check]
depVars == <<dep>>

DepSyms == ToSet(HashOrder)
ValuesIn(c) == SelectSeq(HashOrder, LAMBDA s : ChoiceFor[s] = c)
Kinds == <<"rev", "visible", "default">>

\* What the expressions of s mention, in the order in which they are searched;
\* the defaults of a choice are not.
Mentions(edges, s) ==
    LET of(how) == SelectSeq(HashOrder, LAMBDA t : <<s, how, t>> \in edges)
        all == IF s \in ChoiceSyms THEN <<"rev", "visible">> ELSE Kinds
    IN  FlattenSeq([i \in DOMAIN all |-> [j \in DOMAIN of(all[i]) |-> [how |-> all[i], sym |-> of(all[i])[j]]]])

\* check, checked: the symbols with the flags; stack: what check_top reaches,
\* with how each symbol led to the next; ret: what the call returned, "" for NULL
NoSearch == [check |-> {}, checked |-> {}, stack |-> <<>>, ret |-> "", cycles |-> <<>>, lost |-> FALSE]

dep_stack_insert(st, s) == [st EXCEPT !.stack = Append(@, [sym |-> s, how |-> ""])]
dep_stack_remove(st) == [st EXCEPT !.stack = Front(@)]

\* The stack is printed from the symbol on that was met again; of a choice
\* value that is its choice.
Cycle(stack, last) ==
    LET from == {i \in DOMAIN stack : stack[i].sym = last}
    IN  IF from = {} THEN <<>>
        ELSE SubSeq(stack, CHOOSE i \in from : \A j \in from : j <= i, Len(stack))
Printed(st, path) ==
    IF path = <<>> THEN [st EXCEPT !.lost = TRUE] ELSE [st EXCEPT !.cycles = Append(@, path)]
sym_check_print_recursive(st, s) ==
    IF ChoiceFor[s] = "" THEN Printed(st, Cycle(st.stack, s))
    ELSE Printed(st, Cycle(dep_stack_insert(st, s).stack, ChoiceFor[s]))

RECURSIVE sym_check_deps(_, _, _)

\* Each expression in turn, up to the first that is recursive.
sym_check_expr_deps(edges, st, mentions) ==
    FoldLeft(LAMBDA acc, d :
                 IF acc.ret # "" THEN acc
                 ELSE sym_check_deps(edges, [acc EXCEPT !.stack[Len(acc.stack)].how = d.how], d.sym),
             [st EXCEPT !.ret = ""], mentions)
sym_check_sym_deps(edges, st, s) ==
    dep_stack_remove(sym_check_expr_deps(edges, dep_stack_insert(st, s), Mentions(edges, s)))

\* The values are under check as long as their choice is; the choice itself
\* only as long as its own expressions are.
CheckValues(edges, st, c) ==
    FoldLeft(LAMBDA acc, v : IF acc.ret # "" THEN acc ELSE sym_check_sym_deps(edges, acc, v),
             [st EXCEPT !.check = @ \ {c}], ValuesIn(c))
ChoiceReturns(st, c) ==
    [st EXCEPT !.check = @ \ ToSet(ValuesIn(c)),
               !.ret = IF @ # "" /\ ChoiceFor[@] = c THEN c ELSE @]
\* Bug: the values are not under check.
MarkChoiceAlone(st, c) == [st EXCEPT !.check = @ \union {c}, !.checked = @ \union ToSet(ValuesIn(c)) \union {c}]
MarkChoice(st, c) ==
    [st EXCEPT !.check = @ \union ToSet(ValuesIn(c)) \union {c},
               !.checked = @ \union ToSet(ValuesIn(c)) \union {c}]
sym_check_choice_deps(edges, st, c) ==
    dep_stack_remove(ChoiceReturns(
        CheckValues(edges, sym_check_sym_deps(edges, MarkChoice(dep_stack_insert(st, c), c), c), c), c))

CheckSymbol(edges, st, s) ==
    LET begun == [st EXCEPT !.check = @ \union {s}, !.checked = @ \union {s}]
    IN  [sym_check_sym_deps(edges, begun, s) EXCEPT !.check = @ \ {s}]

\* NULL for a symbol that was met again below itself: its cycle was printed.
NotItself(st, s) == [st EXCEPT !.ret = IF @ = s THEN "" ELSE @]
sym_check_deps(edges, st, s) ==
    IF s \in st.check THEN [sym_check_print_recursive(st, s) EXCEPT !.ret = s]
    ELSE IF s \in st.checked THEN [st EXCEPT !.ret = ""]
    ELSE NotItself(
        IF ChoiceFor[s] # ""
        THEN dep_stack_remove(sym_check_deps(edges, dep_stack_insert(st, s), ChoiceFor[s]))
        ELSE IF s \in ChoiceSyms THEN sym_check_choice_deps(edges, st, s) ELSE CheckSymbol(edges, st, s), s)

\* conf_parse() checks every symbol.
DepInit == \E edges \in DepGraphs : dep = [edges |-> edges, search |-> NoSearch, todo |-> HashOrder]
DepNext ==
    /\ dep.todo # <<>>
    /\ dep' = [dep EXCEPT !.search = sym_check_deps(dep.edges, @, dep.todo[1]), !.todo = Tail(@)]

-----------------------------------------------------------------------------
\* The reference: t is needed to know the value of s.  A choice and its values
\* are known together; that a value needs its choice is no recursion.
Group(s) == IF ChoiceFor[s] # "" THEN ChoiceFor[s] ELSE s
Needs(s, t) ==
    /\ \E how \in {"rev", "visible", "default"} :
          <<s, how, t>> \in dep.edges /\ ~(how = "default" /\ s \in ChoiceSyms)
    /\ ~(ChoiceFor[s] = t)
GroupNeeds == {<<Group(s), Group(t)>> : <<s, t>> \in {e \in DepSyms \X DepSyms : Needs(e[1], e[2])}}
RECURSIVE Below(_, _)
Below(G, r) == IF \A g \in G : {e[2] : e \in {e \in r : e[1] = g}} \subseteq G THEN G
               ELSE Below(G \union {e[2] : e \in {e \in r : e[1] \in G}}, r)
Recursive == \E e \in GroupNeeds : e[1] \in Below({e[2]}, GroupNeeds)

\* Two symbols in a row of what is printed: one mentions the other, or they are
\* a choice and one of its values.
Step(a, b) == \/ a = b \/ \E how \in ToSet(Kinds) : <<a, how, b>> \in dep.edges
              \/ Group(a) = Group(b)

\* A recursive dependency is reported if and only if there is one, and what is
\* printed is a cycle of the dependencies; the stack is always the one of the
\* symbols under check, so that the "unexpected recursive dependency error" is
\* never met (symbol.c:1129-1344).
RecursionReported ==
    /\ ~dep.search.lost
    /\ dep.todo = <<>> => (dep.search.cycles # <<>> <=> Recursive)
    /\ \A n \in DOMAIN dep.search.cycles :
          LET c == dep.search.cycles[n]
          IN  /\ \A i \in 1 .. Len(c) - 1 : Step(c[i].sym, c[i + 1].sym)
              /\ Step(Last(c).sym, c[1].sym)
=============================================================================
