------------------------------ MODULE Dialogs ------------------------------
(***************************************************************************)
(* The dialogs of menuconfig.  First those that choose among items or      *)
(* buttons: lxdialog/menubox.c, checklist.c and yesno.c, with the item     *)
(* list and the ESC handling of util.c.  The screen is kept: which item    *)
(* each row of the window shows, which rows are highlighted, which button  *)
(* is, and whether the arrows are drawn; curses itself is external.  Then  *)
(* textbox.c and inputbox.c: the window that scrolls through a text, kept  *)
(* as a pointer behind the page that is shown, and the field in which a    *)
(* line is edited.  A text is a sequence of characters of which only the   *)
(* newline matters.                                                        *)
(***************************************************************************)
EXTENDS Integers, Sequences, SequencesExt, FiniteSetsExt

CONSTANTS Hotkeys,      \* the item lists: sequences of hotkeys
          MenuHeights,  \* rows of the menu on terminals of several sizes, 0 when too small
          ListHeight    \* rows of the checklist

VARIABLES box,      \* the dialog and its screen
          ungot     \* the key that ungetch() put back
listVars == <<box, ungot>>

Blank == -1         \* a row with nothing on it
NIL == -2           \* item_cur = &item_nil
NULL == -3          \* item_cur = NULL
NoKey == "no key"
NoAnswer == -1          \* the answer of a dialog that has not returned
ESC == 27
TooSmall == -2
Navigation == {"up", "down", "ppage", "npage"}
Answers == {"enter", "space", "s", "y", "n", "m", "slash", "help", "z"}
Letters == {"s", "y", "n", "m", "z", "x", "a", "b"}
ListKeys == Navigation \cup Answers \cup Letters \cup {"left", "right", "esc", "resize"}

Min2(a, b) == IF a < b THEN a ELSE b
Max2(a, b) == IF a > b THEN a ELSE b

(* The item list of util.c *)
item_count(st) == Len(st.hot)
item_set(st, n) ==
    [st EXCEPT !.cur = IF item_count(st) = 0 THEN @
                       ELSE IF n \in 0 .. item_count(st) - 1 THEN n ELSE NULL]
item_set_selected(st) ==
    IF st.cur = NULL THEN [st EXCEPT !.crashed = TRUE]
    ELSE IF st.cur = NIL THEN st ELSE [st EXCEPT !.selected = @ \cup {st.cur}]
item_activate_selected(st) == st.selected # {}
Hot(st, i) == st.hot[i + 1]

(* The window: an item is painted on a row, highlighted or not. *)
Paint(st, row, lit) ==
    IF st.cur = NULL THEN [st EXCEPT !.crashed = TRUE]
    ELSE [st EXCEPT !.win[row] = st.cur, !.lit = IF lit THEN @ \cup {row} ELSE @ \ {row}]
print_item(st, index, row, lit) == Paint(item_set(st, index), row, lit)
wscrl(st, n) ==
    [st EXCEPT !.win = [r \in DOMAIN @ |-> IF r + n \in DOMAIN @ THEN @[r + n] ELSE Blank],
               !.lit = {r \in DOMAIN st.win : r + n \in @}]
print_buttons(st, b) == [st EXCEPT !.shown = b]
EmptyWindow(st, rows) == [st EXCEPT !.win = [r \in 0 .. rows - 1 |-> Blank], !.lit = {}]

(* ESC ESC is an ESC, a single ESC or an escape sequence is nothing, and one *)
(* other key behind an ESC is put back.                                      *)
on_key_esc(rest) ==
    [esc |-> rest = <<"esc">>,
     back |-> IF Len(rest) = 1 /\ rest # <<"esc">> THEN rest[1] ELSE NoKey]

-----------------------------------------------------------------------------
(* dialog_menu *)

print_arrows(st) ==
    [st EXCEPT !.up = st.scroll > 0,
               !.down = st.height < item_count(st) /\ st.scroll + st.height < item_count(st)]

do_scroll(st, n) == [wscrl(st, n) EXCEPT !.scroll = @ + n]

MaxChoice(st) == Min2(st.height, item_count(st))

\* The saved position counts if the item is on it.
SavedFits(st, c) ==
    /\ st.s_scroll <= c /\ st.s_scroll + MaxChoice(st) > c
    /\ st.s_scroll >= 0 /\ st.s_scroll + MaxChoice(st) <= item_count(st)
Middle(st, c) ==
    IF c >= item_count(st) - (MaxChoice(st) \div 2) THEN item_count(st) - MaxChoice(st)
    ELSE c - (MaxChoice(st) \div 2)
At(st, c, scroll) == [st EXCEPT !.scroll = scroll, !.first = scroll, !.choice = c - scroll]
Place(st, c) ==
    IF SavedFits(st, c) THEN At(st, c, st.s_scroll)
    ELSE IF c >= MaxChoice(st) THEN At(st, c, Middle(st, c))
    ELSE [st EXCEPT !.scroll = 0, !.choice = c]
PaintAll(st) ==
    FoldLeft(LAMBDA s, i : print_item(s, s.first + i - 1, i - 1, i - 1 = s.choice), st,
             [i \in 1 .. MaxChoice(st) |-> i])
\* do_resize: the window is drawn, with the first button shown.
DrawMenu(st) ==
    print_buttons(print_arrows(PaintAll(
        Place(EmptyWindow(st, st.height), IF st.data # Blank THEN st.data ELSE st.choice))), 0)

\* The row of the next visible item with that hotkey, MaxChoice for none.
HotRow(st, key) ==
    LET rows == {r \in 0 .. MaxChoice(st) - 1 : Hot(st, st.scroll + r) = key}
        after == {r \in rows : r > st.choice}
        Least(S) == CHOOSE r \in S : \A t \in S : r <= t
    IN  IF key \in {"y", "n", "m", "help"} \/ rows = {} THEN MaxChoice(st)
        ELSE IF after # {} THEN Least(after) ELSE Least(rows)

MenuUp(st) ==
    IF st.choice < 2 /\ st.scroll # 0
    THEN LET s == do_scroll(st, -1) IN print_item(s, s.scroll, 0, FALSE)
    ELSE [st EXCEPT !.choice = Max2(@ - 1, 0)]
ScrollDown(st) ==
    LET s == do_scroll(st, 1)
    IN  print_item(s, s.scroll + MaxChoice(s) - 1, MaxChoice(s) - 1, FALSE)
MenuDown(st) ==
    IF st.choice > MaxChoice(st) - 3 /\ st.scroll + MaxChoice(st) < item_count(st) THEN ScrollDown(st)
    ELSE [st EXCEPT !.choice = Min2(@ + 1, MaxChoice(st) - 1)]
PageUp(st) ==
    IF st.scroll > 0 THEN LET s == do_scroll(st, -1) IN print_item(s, s.scroll, 0, FALSE)
    ELSE [st EXCEPT !.choice = Max2(@ - 1, 0)]
PageDown(st) ==
    IF st.scroll + MaxChoice(st) < item_count(st) THEN ScrollDown(st)
    ELSE IF st.choice + 1 < MaxChoice(st) THEN [st EXCEPT !.choice = @ + 1] ELSE st
Rows(st) == [i \in 1 .. MaxChoice(st) |-> i]
Navigate(st, key) ==
    CASE key = "up" -> MenuUp(st)
      [] key = "down" -> MenuDown(st)
      [] key = "ppage" -> FoldLeft(LAMBDA s, i : PageUp(s), st, Rows(st))
      [] key = "npage" -> FoldLeft(LAMBDA s, i : PageDown(s), st, Rows(st))
      [] OTHER -> [st EXCEPT !.choice = HotRow(st, key)]
Unlit(st) == print_item(st, st.scroll + st.choice, st.choice, FALSE)
Lit(st) == print_item(st, st.scroll + st.choice, st.choice, TRUE)
MenuMoves(st, key) ==
    item_count(st) # 0 /\ (HotRow(st, key) < MaxChoice(st) \/ key \in Navigation)

MenuCode == [help |-> 2, s |-> 5, y |-> 5, n |-> 6, m |-> 7, space |-> 8, slash |-> 9, z |-> 10]
Code(st, key) == IF key = "enter" THEN st.button ELSE MenuCode[key]

\* The buttons go round: 0 .. last.
Turn(st, key, last) ==
    LET b == IF key = "left" THEN st.button - 1 ELSE st.button + 1
        r == IF b < 0 THEN last ELSE IF b > last THEN 0 ELSE b
    IN  print_buttons([st EXCEPT !.button = r], r)

Returns(st, answer) == [st EXCEPT !.answer = answer]
CHOICES == 4
dialog_menu(st, key) ==
    CASE MenuMoves(st, key) -> print_arrows(Lit(Navigate(Unlit(st), key)))
      [] ~MenuMoves(st, key) /\ key \in {"left", "right"} -> Turn(st, key, CHOICES)
      [] ~MenuMoves(st, key) /\ key \in Answers ->
            Returns(item_set_selected(item_set([st EXCEPT !.s_scroll = st.scroll],
                                              st.scroll + st.choice)), Code(st, key))
      [] ~MenuMoves(st, key) /\ key = "x" -> Returns(st, ESC)
      [] OTHER -> st

-----------------------------------------------------------------------------
(* dialog_checklist *)

print_listarrows(st) ==
    [st EXCEPT !.up = st.scroll > 0,
               !.down = ListHeight < item_count(st) /\ st.scroll + st.choice < item_count(st) - 1]

\* A choice behind the last row is scrolled to; on a resize the rows stay.
PlaceList(st) ==
    IF st.choice >= ListHeight
    THEN [st EXCEPT !.scroll = st.choice - ListHeight + 1, !.choice = ListHeight - 1]
    ELSE st
PaintList(st) ==
    FoldLeft(LAMBDA s, i : print_item(s, s.scroll + i - 1, i - 1, i - 1 = s.choice), st, Rows(st))
DrawList(st) ==
    print_buttons(print_listarrows(PaintList(PlaceList(EmptyWindow(st, ListHeight)))), 0)

\* The window scrolls by n under the cursor, which stays on its row.
Shift(st, n, row) ==
    LET s == [IF ListHeight > 1 THEN wscrl(print_item(st, st.scroll + row, row, FALSE), n) ELSE st
                 EXCEPT !.scroll = @ + n]
    IN  print_listarrows(print_item(s, s.scroll + row, row, TRUE))
MoveTo(st, row) == IF row = st.choice THEN st ELSE Lit([Unlit(st) EXCEPT !.choice = row])
ListUp(st) ==
    IF st.choice > 0 THEN MoveTo(st, st.choice - 1)
    ELSE IF st.scroll = 0 THEN st ELSE Shift(st, -1, 0)
\* Bug: the first row that scrolls in is not painted.
ListDownUnpainted(st) ==
    IF st.choice < MaxChoice(st) - 1 THEN MoveTo(st, st.choice + 1)
    ELSE IF st.scroll + st.choice >= item_count(st) - 1 THEN st
    ELSE print_listarrows([wscrl(st, 1) EXCEPT !.scroll = @ + 1])
ListDown(st) ==
    IF st.choice < MaxChoice(st) - 1 THEN MoveTo(st, st.choice + 1)
    ELSE IF st.scroll + st.choice >= item_count(st) - 1 THEN st
    ELSE Shift(st, 1, MaxChoice(st) - 1)

\* The first visible item with that first letter.
ListRow(st, key) ==
    LET rows == {r \in 0 .. MaxChoice(st) - 1 : Hot(st, st.scroll + r) = key}
    IN  IF rows = {} THEN MaxChoice(st) ELSE CHOOSE r \in rows : \A t \in rows : r <= t

SelectOnly(st) == item_set_selected(item_set([st EXCEPT !.selected = {}], st.scroll + st.choice))
dialog_checklist(st, key) ==
    CASE key = "up" -> ListUp(st)
      [] key = "down" -> ListDown(st)
      [] ListRow(st, key) < MaxChoice(st) -> MoveTo(st, ListRow(st, key))
      [] ListRow(st, key) = MaxChoice(st) /\ key \in {"left", "right"} -> Turn(st, key, 1)
      [] ListRow(st, key) = MaxChoice(st) /\ key = "help" -> Returns(SelectOnly(st), 1)
      [] ListRow(st, key) = MaxChoice(st) /\ key \in {"s", "space", "enter"} ->
            Returns(SelectOnly(st), st.button)
      [] ListRow(st, key) = MaxChoice(st) /\ key = "x" -> Returns(st, ESC)
      [] OTHER -> st

-----------------------------------------------------------------------------
(* dialog_yesno *)
dialog_yesno(st, key) ==
    CASE key = "y" -> Returns(st, 0)
      [] key = "n" -> Returns(st, 1)
      [] key \in {"left", "right"} -> Turn(st, key, 1)
      [] key \in {"space", "enter"} -> Returns(st, st.button)
      [] OTHER -> st

-----------------------------------------------------------------------------
NewDialog(kind, hot) ==
    [kind |-> kind, hot |-> hot, cur |-> NIL, selected |-> {}, crashed |-> FALSE, win |-> <<>>,
     lit |-> {}, up |-> FALSE, down |-> FALSE, shown |-> 0, button |-> 0, scroll |-> 0, first |-> 0,
     choice |-> 0, s_scroll |-> 0, data |-> Blank, height |-> ListHeight, answer |-> NoAnswer,
     resized |-> FALSE]

ListInit ==
    /\ ungot = NoKey
    /\ \/ \E hot \in Hotkeys, h \in MenuHeights \ {0}, s \in 0 .. 3 :
            \E data \in -1 .. Len(hot) - 1 :
               box = DrawMenu([NewDialog("menu", hot) EXCEPT !.height = h, !.s_scroll = s, !.data = data])
       \/ \E hot \in Hotkeys \ {<<>>} : \E x \in 0 .. Len(hot) - 1 :
            box = DrawList([NewDialog("checklist", hot) EXCEPT !.choice = x])
       \/ box = print_buttons(NewDialog("yesno", <<>>), 0)

Waiting == box.answer = NoAnswer /\ ~box.crashed

\* A key other than ESC and the resize: the one put back comes first.
Press(key) ==
    /\ Waiting /\ key \notin {"esc", "resize"}
    /\ ungot # NoKey => key = ungot
    /\ ungot' = NoKey
    /\ box' = CASE box.kind = "menu" -> dialog_menu(box, key)
                [] box.kind = "checklist" -> dialog_checklist(box, key)
                [] box.kind = "yesno" -> dialog_yesno(box, key)

\* ESC, with what is in the input behind it.
Escape(rest) ==
    /\ Waiting /\ ungot = NoKey
    /\ ungot' = on_key_esc(rest).back
    /\ box' = IF on_key_esc(rest).esc THEN Returns(box, ESC) ELSE box

\* KEY_RESIZE: back to do_resize, with the variables as they are.
Resize(h) ==
    /\ Waiting /\ ungot = NoKey
    /\ UNCHANGED ungot
    /\ LET st == [box EXCEPT !.resized = TRUE] IN
       box' = CASE h = 0 -> Returns(st, TooSmall)
                [] h # 0 /\ box.kind = "menu" -> DrawMenu([st EXCEPT !.height = h])
                [] h # 0 /\ box.kind = "checklist" -> DrawList(st)
                [] h # 0 /\ box.kind = "yesno" -> print_buttons(st, 0)

ListNext ==
    \/ \E key \in ListKeys : Press(key)
    \/ \E rest \in {<<>>, <<"esc">>, <<"down">>, <<"esc", "a">>} : Escape(rest)
    \/ \E h \in MenuHeights : Resize(h)

-----------------------------------------------------------------------------
\* What the screen shows is what the dialog goes by: row r has item scroll + r,
\* the chosen row alone is highlighted, the arrows tell what is out of sight.
Shows(st) ==
    /\ ~st.crashed
    /\ st.kind # "yesno" =>
         /\ \A r \in 0 .. MaxChoice(st) - 1 : st.win[r] = st.scroll + r
         /\ st.lit = IF item_count(st) = 0 THEN {} ELSE {st.choice}
         /\ st.up <=> st.scroll > 0
         /\ st.down <=> st.scroll + MaxChoice(st) < item_count(st)

(* Every key leaves the screen and the variables in step, though only the    *)
(* rows that changed are painted: what Enter takes is the item that is       *)
(* highlighted, and the answer is the button that is (menubox.c, checklist.c,*)
(* yesno.c).  A dialog that was resized is not counted.                      *)
ScreenTellsTheChoice ==
    ~box.resized =>
        /\ Shows(box)
        /\ box.shown = box.button
        /\ box.kind # "yesno" /\ box.answer \notin {NoAnswer, ESC} /\ box.hot # <<>> =>
              \E r \in box.lit : box.selected = {box.win[r]}

-----------------------------------------------------------------------------
(* The text box and the input box.                                         *)
CONSTANTS Texts,        \* the texts shown, sequences over {"c", "nl"}
          BoxHeights,   \* rows of the text on terminals of several sizes
          Border,       \* rows of the dialog that are not text
          MaxHscroll,   \* MAX_LEN of the text box
          Jumps,        \* offsets of the places that can be jumped to
          JUMP_NB,      \* jump keys
          BoxWidth,     \* columns of the input field
          MAX_LEN,      \* characters that the input field takes
          MaxOverrun,   \* bound: characters of an initial text beyond them
          Chars         \* characters typed

VARIABLES text,     \* the text box
          input     \* the input box
textVars == <<text, input>>

-----------------------------------------------------------------------------
(* t: [buf, page, begin, end, length, hscroll, boxh, rows, keys]            *)
CharAt(t) == IF t.page = Len(t.buf) THEN "0" ELSE t.buf[t.page + 1]
Newlines(t) == {i \in 1 .. Len(t.buf) : t.buf[i] = "nl"}     \* each the offset of a next line

get_line(t) ==
    LET ahead == {i \in Newlines(t) : i > t.page}
    IN  IF ahead = {} THEN [t EXCEPT !.end = TRUE, !.page = Len(t.buf)]
        ELSE [t EXCEPT !.end = FALSE, !.page = Min(ahead)]

\* One line back; begin is set where the buffer begins.
BackOne(t) ==
    LET before == {i \in Newlines(t) : i < t.page}
    IN  IF CharAt(t) = "0" /\ t.end THEN [t EXCEPT !.end = FALSE]
        ELSE IF before = {} \/ t.page = 0 THEN [t EXCEPT !.page = 0, !.begin = TRUE]
        ELSE [t EXCEPT !.page = Max(before)]
Back(t) == IF t.begin THEN t ELSE BackOne(t)    \* the loop returns at the beginning
Upto(n) == [i \in 1 .. n |-> i]
back_lines(t, n) == FoldLeft(LAMBDA s, i : Back(s), [t EXCEPT !.begin = FALSE], Upto(n))
get_lines(t, n) == FoldLeft(LAMBDA s, i : get_line(s), t, Upto(n))

\* mconf.c: the places between start and end get keys, JUMP_NB at most.
update_text(start, end) ==
    LET seen == SelectSeq(SetToSortSeq(Jumps, <), LAMBDA o : start <= o /\ o < end)
        Index(o) == Cardinality({p \in Jumps : p < o})
    IN  [k \in 1 .. Min({Len(seen), JUMP_NB}) |-> [key |-> (Index(seen[k]) % JUMP_NB) + 1, at |-> seen[k]]]
UpdatePage(t) ==
    LET ahead == get_lines(t, t.boxh)
        here == back_lines(ahead, t.boxh)
    IN  IF t.update THEN [here EXCEPT !.keys = update_text(here.page, ahead.page)] ELSE t

\* Lines are counted up to the one that ends the text.
PrintRow(t) ==
    LET next == get_line(t)
    IN  [next EXCEPT !.rows = Append(@, t.page), !.length = IF t.past THEN @ ELSE @ + 1,
                     !.past = t.past \/ next.end]
print_page(t) ==
    LET u == UpdatePage(t)
    IN  FoldLeft(LAMBDA s, i : PrintRow(s), [u EXCEPT !.rows = <<>>, !.length = 0, !.past = FALSE],
                 Upto(t.boxh))

\* The text box opens at line *_vscroll.
OpenText(buf, h, vscroll, update) ==
    print_page(get_lines([buf |-> buf, page |-> 0, begin |-> vscroll = 0, end |-> FALSE, length |-> 0,
                          hscroll |-> 0, boxh |-> h, rows |-> <<>>, keys |-> <<>>, past |-> FALSE,
                          update |-> update, vscroll |-> -1, jumped |-> -1], vscroll))
Top(t) == t.rows[1]

\* Bug: the page that ends the text is one line longer than it is.
back_to_topLong(t) == back_lines(t, t.length + 1)
back_to_top(t) == back_lines(t, t.length)

\* On the way out the newlines before the page are counted.
LeaveText(t) ==
    LET b == back_to_top(t) IN [b EXCEPT !.vscroll = Cardinality({i \in Newlines(b) : i <= b.page})]

TextKeys == {"home", "end", "up", "ppage", "down", "npage", "left", "0", "right", "exit"}
TextKey(t, key) ==
    CASE key = "home" /\ ~t.begin -> print_page([t EXCEPT !.begin = TRUE, !.page = 0])
      [] key = "end" -> print_page(back_lines([t EXCEPT !.end = TRUE, !.page = Len(t.buf)], t.boxh))
      [] key = "up" /\ ~t.begin -> print_page(back_lines(t, t.length + 1))
      [] key = "ppage" /\ ~t.begin -> print_page(back_lines(t, t.length + t.boxh))
      [] key = "down" /\ ~t.end -> print_page(back_lines(t, t.length - 1))
      [] key = "npage" /\ ~t.end -> print_page([t EXCEPT !.begin = FALSE])
      [] key = "left" /\ t.hscroll > 0 -> print_page(back_to_top([t EXCEPT !.hscroll = @ - 1]))
      [] key = "0" /\ t.hscroll > 0 -> print_page(back_to_top([t EXCEPT !.hscroll = 0]))
      [] key = "right" /\ t.hscroll < MaxHscroll -> print_page(back_to_top([t EXCEPT !.hscroll = @ + 1]))
      [] key = "exit" -> LeaveText(t)
      [] OTHER -> t

Reading == text.vscroll = -1
dialog_textbox(key) ==
    /\ Reading /\ text' = TextKey(text, key)
    /\ UNCHANGED input

\* One of the keys of the last page that was updated.
JumpKey(k) ==
    /\ Reading /\ k \in DOMAIN text.keys
    /\ text' = LeaveText([text EXCEPT !.jumped = text.keys[k].at])
    /\ UNCHANGED input

\* A resize goes back as many lines as the dialog is high.
ResizeText(h) ==
    /\ Reading
    /\ text' = print_page([back_lines(text, text.boxh + Border) EXCEPT !.boxh = h])
    /\ UNCHANGED input

\* search_conf: the results are shown again where they were left.
Reopen ==
    /\ ~Reading
    /\ text' = OpenText(text.buf, text.boxh, text.vscroll, text.update)
    /\ UNCHANGED input

-----------------------------------------------------------------------------
(* The input box: instr with the cursor before character pos + 1, the       *)
(* field showing instr from show_x on, the cursor in column input_x.         *)
Undefined == -9     \* the program is no longer bound by its source
FieldCols == 0 .. BoxWidth - 1
Blanks == [c \in FieldCols |-> " "]

\* What waddch writes: the text from show_x on, and one blank behind it.
Redraw(b) ==
    [b EXCEPT !.field = [c \in FieldCols |->
        IF b.show_x + c < Len(b.instr) THEN b.instr[b.show_x + c + 1]
        ELSE IF b.show_x + c = Len(b.instr) THEN " " ELSE b.field[c]]]

OpenInput(init) ==
    LET long == Len(init) >= BoxWidth
        b == [instr |-> init, pos |-> Len(init), field |-> Blanks, button |-> -1, answer |-> -1,
              opened |-> Len(init), show_x |-> IF long THEN Len(init) - BoxWidth + 1 ELSE 0,
              input_x |-> IF long THEN BoxWidth - 1 ELSE Len(init)]
    IN  Redraw(b)

ShiftIn(b) == IF b.input_x = BoxWidth - 1 THEN [b EXCEPT !.show_x = @ + 1] ELSE [b EXCEPT !.input_x = @ + 1]
\* Bug: the text is not scrolled when the cursor is in the first column.
ShiftOutStays(b) == IF b.input_x = 0 THEN b ELSE [b EXCEPT !.input_x = @ - 1]
ShiftOut(b) == IF b.input_x = 0 THEN [b EXCEPT !.show_x = @ - 1] ELSE [b EXCEPT !.input_x = @ - 1]

Backspace(b) ==
    IF b.pos = 0 THEN b
    ELSE Redraw(ShiftOut([b EXCEPT !.instr = RemoveAt(@, b.pos), !.pos = @ - 1]))
Left(b) ==
    IF b.pos = 0 THEN b
    ELSE IF b.input_x > 0 THEN [b EXCEPT !.input_x = @ - 1, !.pos = @ - 1]
    ELSE Redraw([b EXCEPT !.show_x = @ - 1, !.pos = @ - 1])
Right(b) ==
    IF b.pos = Len(b.instr) THEN b
    ELSE IF b.input_x < BoxWidth - 1 THEN [b EXCEPT !.input_x = @ + 1, !.pos = @ + 1]
    ELSE Redraw([b EXCEPT !.show_x = @ + 1, !.pos = @ + 1])
Insert(b, c) ==
    IF Len(b.instr) >= MAX_LEN THEN b
    ELSE Redraw(ShiftIn([b EXCEPT !.instr = InsertAt(@, b.pos + 1, c), !.pos = @ + 1]))

\* -1 is the field, 0 the Ok and 1 the Help button.
NextButton(b, key) ==
    IF key \in {"up", "left"} THEN IF b = -1 THEN 1 ELSE b - 1
    ELSE IF b = 1 THEN -1 ELSE b + 1

Typing == input.answer = -1
dialog_inputbox(key) ==
    /\ Typing
    /\ input' = CASE input.button = -1 /\ key = "backspace" -> Backspace(input)
                  [] input.button = -1 /\ key = "left" -> Left(input)
                  [] input.button = -1 /\ key = "right" -> Right(input)
                  [] input.button = -1 /\ key \in Chars -> Insert(input, key)
                  [] input.button # -1 /\ key = "o" -> [input EXCEPT !.answer = 0]
                  [] input.button # -1 /\ key = "h" -> [input EXCEPT !.answer = 1]
                  [] input.button # -1 /\ key = "x" -> [input EXCEPT !.answer = 27]
                  [] key = "enter" -> [input EXCEPT !.answer = IF input.button = -1 THEN 0 ELSE input.button]
                  [] key = "esc" -> [input EXCEPT !.answer = 27]
                  [] key \in {"up", "down"} \/ (key \in {"left", "right"} /\ input.button # -1) ->
                        [input EXCEPT !.button = NextButton(@, key)]
                  [] key = "resize" -> [OpenInput(input.instr) EXCEPT !.button = input.button, !.opened = input.opened]
                  [] OTHER -> input
    /\ UNCHANGED text

-----------------------------------------------------------------------------
InputKeys == Chars \cup {"backspace", "left", "right", "up", "down", "enter", "esc", "resize", "o", "h", "x"}

TextInit ==
    /\ \E buf \in Texts, h \in BoxHeights :
         \E u \in {b \in BOOLEAN : b => Last(buf) = "nl"} :    \* as get_relations_str() ends it
            text = OpenText(buf, h, 0, u)
    /\ input = OpenInput(<<>>)
\* strcpy(instr, init): init is a symbol's value or a file name of any length.
\* One of more than MAX_LEN characters overruns dialog_input_result: it stands
\* behind it as long as nothing else is kept there, or anything may follow.
Overrun(b) == Len(b.instr) > MAX_LEN
InputInit ==
    /\ \E n \in 0 .. MAX_LEN + MaxOverrun, c \in Chars :
         \E b \in {OpenInput([i \in 1 .. n |-> c])} :
            input \in {b} \cup (IF Overrun(b) THEN {[b EXCEPT !.answer = Undefined]} ELSE {})
    /\ \E buf \in {CHOOSE b \in Texts : TRUE} : text = OpenText(buf, 1, 0, FALSE)

TextNext ==
    \/ \E key \in TextKeys : dialog_textbox(key)
    \/ \E k \in 1 .. JUMP_NB : JumpKey(k)
    \/ \E h \in BoxHeights : ResizeText(h)
    \/ Reopen
InputNext == \E key \in InputKeys : dialog_inputbox(key)

-----------------------------------------------------------------------------
LineStarts(t) == {0} \cup Newlines(t)

(* The page on the screen is a run of lines of the text, from a line's       *)
(* beginning, and no line of it is out of reach: Up does nothing only at the *)
(* first line, Down only when the last one is shown.  The keys that jump     *)
(* are those of places on the page, each place with a key of its own.  The   *)
(* results of a search are shown again at the line they were left at         *)
(* (textbox.c; update_text and search_conf of mconf.c).                      *)
PageIsOfTheText ==
    /\ Top(text) \in LineStarts(text)
    /\ \A r \in 2 .. Len(text.rows) :
          text.rows[r] = Min({Len(text.buf)} \cup {i \in Newlines(text) : i > text.rows[r - 1]})
    /\ Reading => /\ text.begin => Top(text) = 0
                  /\ text.end => Last(text.rows) >= Max(LineStarts(text))
    /\ \A j, k \in DOMAIN text.keys : j # k => text.keys[j].key # text.keys[k].key
    /\ Reading => \A k \in DOMAIN text.keys : Top(text) <= text.keys[k].at /\ text.keys[k].at < text.page
    /\ ~Reading => Top(OpenText(text.buf, text.boxh, text.vscroll, text.update)) = Top(text)

(* The field shows the part of the line around the cursor and nothing that   *)
(* was deleted, and the cursor stands where the next character goes.  No key *)
(* makes the text longer than MAX_LEN, or than it was when it is already; it *)
(* may be, since the dialog takes an initial text of any length, and then    *)
(* this holds as long as what lies behind the buffer is not in use           *)
(* (inputbox.c).                                                              *)
FieldShowsTheLine == input.answer # Undefined =>
    /\ input.show_x + input.input_x = input.pos
    /\ input.input_x \in FieldCols /\ input.show_x >= 0
    /\ input.pos \in 0 .. Len(input.instr) /\ Len(input.instr) <= Max2(MAX_LEN, input.opened)
    /\ \A c \in FieldCols :
          input.field[c] = IF input.show_x + c < Len(input.instr) THEN input.instr[input.show_x + c + 1]
                           ELSE " "

(* Both windows on a text, the pager's and the input field's, show the part  *)
(* of it that they stand at (textbox.c, inputbox.c).                         *)
WindowsShowTheText == PageIsOfTheText /\ FieldShowsTheLine
=============================================================================
