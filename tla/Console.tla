------------------------------- MODULE Console -------------------------------
(***************************************************************************)
(* The text console of fbController.c.  shadow holds the characters of the *)
(* live screen, a ring of HISTORY_LINES lines holds those that scrolled    *)
(* off, and pixels is what is visible: per cell the glyph drawn there and  *)
(* whether it is drawn as the cursor, black on white.  With the view       *)
(* scrolled back the three differ, and the next character drawn brings the *)
(* live screen back.  A cell is a character with its colour; blanks of     *)
(* every colour look the same and are one glyph.                           *)
(***************************************************************************)
EXTENDS Integers, Sequences, SequencesExt, FiniteSetsExt

CONSTANTS
    rows, cols,         \* the size of the screen in characters
    HISTORY_LINES,      \* lines kept after they scrolled off
    Blank,              \* the glyph of a blank
    BadColor            \* a character whose colour is not in the palette

ASSUME ConsoleAssumption ==
    /\ rows \in Nat /\ rows >= 2 /\ cols \in Nat \ {0}
    /\ HISTORY_LINES \in Nat \ {0}

\* The static variables of fbController.c, the pixels, and a ghost, gone: the
\* last HISTORY_LINES lines to leave the screen, oldest first.
VARIABLE con

Cells == 0 .. rows * cols - 1
Here(f) == f.row * cols + f.col
Plain(g) == <<g, FALSE>>
Inverted(g) == <<g, TRUE>>
Lines(f) == [r \in 1 .. rows |-> [c \in 1 .. cols |-> f.shadow[(r - 1) * cols + c - 1]]]
BlankLine == [c \in 1 .. cols |-> Blank]

\* What fb_init leaves; nothing draws the cursor before the first character.
FbInit ==
    con = [shadow |-> [i \in Cells |-> Blank], pixels |-> [i \in Cells |-> Plain(Blank)],
           history |-> [h \in 0 .. HISTORY_LINES - 1 |-> BlankLine],
           head |-> 0, count |-> 0, view_offset |-> 0, scrollback_on |-> TRUE,
           row |-> 0, col |-> 0, cursor_row |-> 0, cursor_col |-> 0, gone |-> <<>>]

draw_cursor(f) ==
    [f EXCEPT !.pixels[Here(f)] = Inverted(f.shadow[Here(f)]),
              !.cursor_row = f.row, !.cursor_col = f.col]

draw_char(f, g) ==
    IF g = BadColor \/ f.shadow[Here(f)] = g
    THEN f
    ELSE [f EXCEPT !.pixels[Here(f)] = Plain(g), !.shadow[Here(f)] = g]

del_cursor(f) ==
    LET at == f.cursor_row * cols + f.cursor_col
    IN  [f EXCEPT !.pixels[at] = Plain(f.shadow[at])]

MoveCursor(f) == draw_cursor(del_cursor(f))

\* The last n elements of s, or all of them.
Newest(s, n) == SubSeq(s, Max({1, Len(s) - n + 1}), Len(s))

Up1(a, blank) == [i \in Cells |-> IF i + cols \in Cells THEN a[i + cols] ELSE blank]

Shifted(f) ==
    [f EXCEPT !.history[f.head] = Lines(f)[1],
              !.head = (f.head + 1) % HISTORY_LINES,
              !.count = Min({f.count + 1, HISTORY_LINES}),
              !.shadow = Up1(f.shadow, Blank), !.pixels = Up1(f.pixels, Plain(Blank)),
              !.row = rows - 1, !.col = 0,
              !.gone = Newest(Append(@, Lines(f)[1]), HISTORY_LINES)]

scroll(f) == draw_cursor(Shifted(del_cursor(f)))

\* The oldest line is taken to be in slot 0, as if the ring never wrapped.
Viewed_NoWrap(f, r) ==
    LET logical == f.count + r - f.view_offset
    IN  IF logical < f.count
        THEN f.history[logical]
        ELSE Lines(f)[logical - f.count + 1]

\* The line of the transcript that the view shows in row r.
Viewed(f, r) ==
    LET logical == f.count + r - f.view_offset
    IN  IF logical < f.count
        THEN f.history[(f.head - f.count + logical + HISTORY_LINES) % HISTORY_LINES]
        ELSE Lines(f)[logical - f.count + 1]

view_repaint(f) ==
    [f EXCEPT !.pixels = [i \in Cells |-> Plain(Viewed(f, i \div cols)[(i % cols) + 1])]]

snap_to_live(f) ==
    draw_cursor([f EXCEPT !.pixels = [i \in Cells |-> Plain(f.shadow[i])]])

Live(f) == IF f.view_offset = 0 THEN f ELSE snap_to_live([f EXCEPT !.view_offset = 0])

upd_row(f) ==
    IF f.row + 1 < rows THEN [f EXCEPT !.row = @ + 1] ELSE scroll(f)

upd_col(f) ==
    IF f.col + 1 < cols THEN [f EXCEPT !.col = @ + 1] ELSE upd_row([f EXCEPT !.col = 0])

NewLine == "nl"
BackSpace == "bs"

\* The common part of the two drawing functions.
Put(f, c) ==
    CASE c = NewLine -> [upd_row(f) EXCEPT !.col = 0]
      [] c = BackSpace ->
            IF f.col > 0 THEN draw_char([f EXCEPT !.col = @ - 1], Blank) ELSE f
      [] OTHER -> upd_col(draw_char(f, c))

fb_draw_char_upd(f, c) == MoveCursor(Put(Live(f), c))
fb_draw_char_no_upd(f, c) == Put(Live(f), c)
DrawUpd(f, s) == FoldLeft(fb_draw_char_upd, f, s)
DrawNoUpd(f, s) == FoldLeft(fb_draw_char_no_upd, f, s)

\* Positions beyond the screen are refused, with the view brought back.
At(f, p) == [f EXCEPT !.row = p \div cols, !.col = p % cols]
fb_set_cursor(f, p) == IF p \in Cells THEN MoveCursor(At(Live(f), p)) ELSE Live(f)
fb_set_cursor_no_upd(f, p) == IF p \in Cells THEN At(Live(f), p) ELSE Live(f)

fb_clear_screen(f) ==
    LET Erased(x) == [x EXCEPT !.shadow = [i \in Cells |-> Blank],
                               !.pixels = [i \in Cells |-> IF x.shadow[i] = Blank
                                                           THEN x.pixels[i] ELSE Plain(Blank)],
                               !.row = 0, !.col = 0]
    IN  MoveCursor(Erased(Live(f)))

fb_set_scrollback(f, b) == [f EXCEPT !.scrollback_on = b]

\* The keyboard interrupt: shift and an arrow, or page up and page down.
fb_scrollback(f, delta) ==
    LET off == Max({0, Min({f.count, f.view_offset + delta})})
        Turned(x) == IF off = 0 THEN snap_to_live(x) ELSE view_repaint(x)
    IN  IF ~f.scrollback_on \/ off = f.view_offset
        THEN f
        ELSE Turned([f EXCEPT !.view_offset = off])

ScrollKeys == {1, -1, rows - 1, 1 - rows}

-----------------------------------------------------------------------------
(* Everything written so far, as far back as HISTORY_LINES reaches, with the
   live screen at the end. *)
Transcript == con.gone \o Lines(con)

(* What the pixels show is the part of the transcript view_offset lines above
   its end, through every wrap of the history ring and every switch between
   the two views; the only cell drawn inverted is the one the driver will
   clean up when the cursor moves, and it is so on the live screen only. *)
ScreenShowsView ==
    /\ con.view_offset \in 0 .. Len(con.gone)
    /\ \A i \in Cells :
          /\ con.pixels[i][1]
                = Transcript[Len(con.gone) - con.view_offset + i \div cols + 1][(i % cols) + 1]
          /\ con.pixels[i][2] =>
                con.view_offset = 0 /\ i = con.cursor_row * cols + con.cursor_col
=============================================================================
