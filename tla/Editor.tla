------------------------------- MODULE Editor -------------------------------
(***************************************************************************)
(* The text editor dinv (src/user/app/dinv/dinv.c): a gap buffer, a window *)
(* on it that follows the cursor, and a screen of which each key redraws   *)
(* only the damaged part.                                                  *)
(*                                                                         *)
(* A step is one turn of the main loop: the handler of the mode, then      *)
(* check_scroll, then gap_render.  The line number in front of a row is    *)
(* kept as a number.  The file is read when the editor starts and written  *)
(* by save; stored is what the last key wrote.  Time is abstract: a        *)
(* complaint may expire in any state.                                      *)
(***************************************************************************)
EXTENDS Integers, SequencesExt, FiniteSetsExt

CONSTANTS
    Char,       \* characters that can be typed or be in a file
    NL,         \* '\n'
    Control,    \* the other ones that sanitize shows as '.'
    TEXT_CAP, text_rows, text_cols,
    bar_cols,   \* screen_cols, for the bottom row
    CMD_CAP     \* sizeof(cmd_buf) - 1

\* The screen is wide enough for a command and for the complaints.
ASSUME EditorAssumption ==
    /\ NL \in Char /\ Control \subseteq Char \ {NL}
    /\ {TEXT_CAP, text_rows, text_cols, CMD_CAP} \subseteq Nat \ {0}
    /\ bar_cols \in Nat /\ bar_cols > 17 /\ bar_cols > CMD_CAP + 2

VARIABLES
    text, gap_start, gap_end,
    mode,                   \* "normal", "insert" or "command"
    cmd,                    \* cmd_buf up to cmd_len
    complaint,              \* what is shown while complaining, or Silent
    running,
    top_row, left_col,
    screen,                 \* the rows above the bottom one
    bar,                    \* the bottom row
    cursor,                 \* where the console draws its cursor
    scribbled,              \* touch has written over the screen
    stored                  \* what the last key wrote to the file, if anything

buffer == <<text, gap_start, gap_end>>
view == <<top_row, left_col, screen, bar, cursor, scribbled>>
vars == <<buffer, mode, cmd, complaint, running, view, stored>>

Nul == "nul"
NoNumber == -1
Silent == <<>>
Index == 0 .. TEXT_CAP - 1
TextRow == 0 .. text_rows - 1
Words(w, n) == [i \in 1 .. n |-> w]
FailedToSave == Words("Failed to save", 14)
CommandNotFound == Words("Command not found", 17)

cmds == {<<"q">>, <<"w">>, <<"w", "q">>, <<"q", "a">>, <<"w", "a">>, <<"w", "q", "a">>}
Saves == {c \in cmds : c[1] = "w"}
Quits == {c \in cmds : Contains(c, "q")}

sanitize(c) == IF c \in Control \cup {Nul} THEN "." ELSE c

-----------------------------------------------------------------------------
(* The gap buffer.  The operations on it take and return a record.         *)

buf == [text |-> text, gap_start |-> gap_start, gap_end |-> gap_end]

cursor_right_Stays(b) ==
    IF b.gap_end = TEXT_CAP THEN b
    ELSE [b EXCEPT !.gap_start = @ + 1, !.gap_end = @ + 1]

cursor_right(b) ==
    IF b.gap_end = TEXT_CAP THEN b
    ELSE [text |-> [b.text EXCEPT ![b.gap_start] = b.text[b.gap_end]],
          gap_start |-> b.gap_start + 1, gap_end |-> b.gap_end + 1]

cursor_left(b) ==
    IF b.gap_start = 0 THEN b
    ELSE [text |-> [b.text EXCEPT ![b.gap_end - 1] = b.text[b.gap_start - 1]],
          gap_start |-> b.gap_start - 1, gap_end |-> b.gap_end - 1]

Times(n) == [k \in 1 .. n |-> k]
Rights(b, n) == FoldLeft(LAMBDA x, k : cursor_right(x), b, Times(n))
Lefts(b, n) == FoldLeft(LAMBDA x, k : cursor_left(x), b, Times(n))

\* Where the line containing the cursor begins, and where the line of a place
\* behind the gap ends.
Begin(b) == Max({0} \cup {i \in 1 .. b.gap_start : b.text[i - 1] = NL})
End(b, p) == Min({TEXT_CAP} \cup {i \in p .. TEXT_CAP - 1 : b.text[i] = NL})

\* cursor_rowcol.
cursor_row == Cardinality({i \in 0 .. gap_start - 1 : text[i] = NL})
cursor_col == gap_start - Begin(buf)

buf_rows ==
    1 + Cardinality({i \in Index : (i < gap_start \/ i >= gap_end) /\ text[i] = NL})

-----------------------------------------------------------------------------
(* The screen.                                                             *)

Piece(i, j) == [k \in 1 .. j - i |-> text[i + k - 1]]

\* linebuf: the part of line s in the window, padded with blanks.
linebuf(s) ==
    [k \in 1 .. text_cols |->
        IF left_col + k <= Len(s) THEN sanitize(s[left_col + k]) ELSE " "]

\* A row as written, with write_line_header or blank_header.
Drawn(r, s) == [num |-> IF r < buf_rows THEN r ELSE NoNumber, cells |-> linebuf(s)]
Blank == [num |-> NoNumber, cells |-> [k \in 1 .. text_cols |-> " "]]

begin == Begin(buf)
end == End(buf, gap_end)

CursorLine == Piece(begin, gap_start) \o Piece(gap_end, end)
PrevLine == Piece(Begin([buf EXCEPT !.gap_start = begin - 1]), begin - 1)

\* next_begin for the n-th line below the cursor's.
After(p) == IF p < TEXT_CAP THEN p + 1 ELSE TEXT_CAP
NextLine(n) ==
    LET next_begin[k \in 1 .. n] ==
            After(IF k = 1 THEN end ELSE End(buf, next_begin[k - 1]))
    IN Piece(next_begin[n], End(buf, next_begin[n]))

\* DMG_FULL walks over the whole buffer and jumps over the gap.
Jump(p) == IF p = gap_start THEN gap_end ELSE p
LineEnd(p) ==
    Min({TEXT_CAP} \cup {i \in p .. TEXT_CAP - 1 :
                          (i < gap_start \/ i >= gap_end) /\ text[i] = NL})
WalkedLine(n) ==
    LET pos[k \in 0 .. n] ==
            IF k = 0 THEN Jump(0)
            ELSE LET e == LineEnd(pos[k - 1]) IN IF e < TEXT_CAP THEN Jump(e + 1) ELSE e
        p == pos[n]
        e == LineEnd(p)
    IN IF p < gap_start /\ e >= gap_end THEN Piece(p, gap_start) \o Piece(gap_end, e)
       ELSE Piece(p, e)

\* The rows gap_render writes for each kind of damage, and what into them.
Touched_LineAbove(d) ==
    CASE d = "full" -> TextRow
      [] d = "tail" -> {cursor_row - top_row}
      [] d = "below" -> {r \in TextRow : r >= cursor_row - top_row}
      [] OTHER -> {}

Touched(d) ==
    CASE d = "full" -> TextRow
      [] d = "tail" -> {cursor_row - top_row}
      [] d = "below" -> {r \in TextRow : r >= cursor_row - top_row - 1}
      [] OTHER -> {}

Painted(d, r) ==
    LET n == top_row + r - cursor_row
    IN Drawn(top_row + r, CASE d = "full" -> WalkedLine(top_row + r)
                            [] n = 0 -> CursorLine
                            [] n < 0 -> PrevLine
                            [] OTHER -> NextLine(n))

\* The bottom row: the command line is cleared only for DMG_CMD, and the mode
\* or the complaint is written over whatever is there.
Overlay(b, at, w) ==
    [i \in 1 .. bar_cols |-> IF i \in at .. at + Len(w) - 1 THEN w[i - at + 1] ELSE b[i]]
Cleared(b) == Overlay(b, 2, Words(" ", bar_cols - 2))
BlankBar == Words(" ", bar_cols)

Status ==
    CASE complaint # Silent -> complaint
      [] mode = "normal" -> Words("NORMAL", 6)
      [] mode = "insert" -> Words("INSERT", 6)
      [] OTHER -> <<":">>

gap_render(d, scr, b) ==
    /\ screen' = [r \in TextRow |-> IF r \in Touched(d)' THEN Painted(d, r)' ELSE scr[r]]
    /\ bar' = Overlay(IF d = "cmd" THEN Overlay(Cleared(b), 2, cmd') ELSE b, 1, Status')
    /\ cursor' = IF mode' = "command" THEN <<text_rows, Len(cmd') + 1>>
                 ELSE <<cursor_row' - top_row', cursor_col' - left_col'>>

\* check_scroll for a window at top and left: the least move that shows the
\* cursor.
Follow(at, first, n) ==
    IF at < first THEN at ELSE IF at >= first + n THEN at - n + 1 ELSE first

check_scroll(top, left) ==
    /\ top_row' = Follow(cursor_row', top, text_rows)
    /\ left_col' = Follow(cursor_col', left, text_cols)

\* The end of a turn of the main loop, for a key that did damage d.
Redraw(d, scr, b, dirty) ==
    /\ check_scroll(top_row, left_col)
    /\ \E dmg \in {IF <<top_row', left_col'>> = <<top_row, left_col>> THEN d ELSE "full"} :
         /\ gap_render(dmg, scr, b)
         /\ scribbled' = (dirty /\ dmg # "full")

Refresh(d) == Redraw(d, screen, bar, scribbled)

-----------------------------------------------------------------------------
Becomes(b) == text' = b.text /\ gap_start' = b.gap_start /\ gap_end' = b.gap_end

Init ==
    /\ text = [i \in Index |-> Nul] /\ gap_start = 0 /\ gap_end = TEXT_CAP
    /\ mode = "normal" /\ cmd = <<>> /\ complaint = Silent /\ running = FALSE
    /\ top_row = 0 /\ left_col = 0
    /\ screen = [r \in TextRow |-> Blank] /\ bar = BlankBar /\ cursor = <<0, 0>>
    /\ scribbled = FALSE /\ stored = {}

\* app_dinv up to the main loop, for a missing file or one that fits.
Open(s) ==
    /\ ~running /\ Len(s) < TEXT_CAP
    /\ running' = TRUE
    /\ text' = [i \in Index |-> IF i < Len(s) THEN s[i + 1] ELSE text[i]]
    /\ gap_start' = Len(s) /\ gap_end' = TEXT_CAP
    /\ mode' = "normal" /\ cmd' = <<>> /\ complaint' = Silent
    /\ check_scroll(0, 0)
    /\ gap_render("full", screen, BlankBar)
    /\ scribbled' = FALSE /\ stored' = {}

\* handle_normal.
In(m) == running /\ mode = m /\ stored' = {} /\ UNCHANGED running

Colon ==
    /\ In("normal")
    /\ mode' = "command" /\ cmd' = <<>> /\ complaint' = Silent
    /\ UNCHANGED buffer /\ Refresh("cmd")

InsertKey(b) ==
    /\ In("normal")
    /\ Becomes(b) /\ mode' = "insert" /\ UNCHANGED <<cmd, complaint>>
    /\ Refresh("none")

Move(b) ==
    /\ In("normal")
    /\ Becomes(b) /\ UNCHANGED <<mode, cmd, complaint>>
    /\ Refresh("none")

\* 'j': behind the next '\n', then as many columns as there are.
Down(b) ==
    LET p == End(b, b.gap_end)
    IN IF p = TEXT_CAP THEN b
       ELSE Rights(b, p + 1 - b.gap_end + Min({cursor_col, End(b, p + 1) - (p + 1)}))

\* 'k': in front of the last '\n', then back to the column.
Excess(b) == Max({0, b.gap_start - Begin(b) - cursor_col})
BackTo(b) == Lefts(b, Excess(b))
Up(b) ==
    IF Begin(b) = 0 THEN b
    ELSE BackTo(Lefts(b, b.gap_start - (Begin(b) - 1)))

\* handle_insert.
EscInsert ==
    /\ In("insert")
    /\ mode' = "normal" /\ UNCHANGED <<buffer, cmd, complaint>>
    /\ Refresh("none")

Backspace ==
    /\ In("insert") /\ gap_start > 0
    /\ gap_start' = gap_start - 1
    /\ UNCHANGED <<text, gap_end, mode, cmd, complaint>>
    /\ Refresh(IF text[gap_start - 1] = NL THEN "below" ELSE "tail")

Type(c) ==
    /\ In("insert") /\ gap_start # gap_end
    /\ text' = [text EXCEPT ![gap_start] = c]
    /\ gap_start' = gap_start + 1
    /\ UNCHANGED <<gap_end, mode, cmd, complaint>>
    /\ Refresh(IF c = NL THEN "below" ELSE "tail")

\* handle_command.
EscCommand ==
    /\ In("command")
    /\ mode' = "normal" /\ cmd' = <<>> /\ UNCHANGED <<buffer, complaint>>
    /\ Refresh("cmd")

EditCommand(c) ==
    /\ In("command")
    /\ \/ Len(cmd) < CMD_CAP /\ cmd' = Append(cmd, c)
       \/ cmd # <<>> /\ cmd' = Front(cmd)       \* '\b'
    /\ UNCHANGED <<buffer, mode, complaint>>
    /\ Refresh("cmd")

\* save: the cursor goes to the end of the text, and what is in front of it is
\* stored.  The file may be missing and touch may fail, which writes a line at
\* the cursor and scrolls the screen; or fsave fails.
SavedBuffer_FromCursor(b) == b

SavedBuffer(b) == Rights(b, TEXT_CAP - b.gap_end)

Scrolled ==
    [r \in TextRow |-> IF r + 1 \in TextRow THEN screen[r + 1]
                       ELSE [num |-> NoNumber, cells |-> Words("touch: ", text_cols)]]

Outcome == IF cmd \in Saves THEN {"stored", "not stored", "no file"} ELSE {"no save"}

EnterCommand ==
    /\ running /\ mode = "command"
    /\ Becomes(IF cmd \in Saves THEN SavedBuffer(buf) ELSE buf)
    /\ mode' = "normal" /\ cmd' = <<>>
    /\ \E o \in Outcome :
         /\ complaint' = CASE cmd \notin cmds -> CommandNotFound
                           [] o \in {"not stored", "no file"} -> FailedToSave
                           [] OTHER -> complaint
         /\ stored' = IF o = "stored" THEN {Piece(0, gap_start)'} ELSE {}
         /\ running' = (cmd \in Quits => o \in {"not stored", "no file"})
         /\ IF ~running' THEN    \* clear_screen
               /\ screen' = [r \in TextRow |-> Blank] /\ bar' = BlankBar
               /\ cursor' = <<0, 0>> /\ scribbled' = FALSE
               /\ check_scroll(top_row, left_col)
            ELSE IF o = "no file" THEN Redraw("cmd", Scrolled, BlankBar, TRUE)
            ELSE Refresh("cmd")

\* The main loop without a key: a complaint has been shown for long enough.
Expire ==
    /\ running /\ complaint # Silent
    /\ complaint' = Silent /\ stored' = {}
    /\ UNCHANGED <<buffer, mode, cmd, running, top_row, left_col, scribbled>>
    /\ gap_render("cmd", screen, bar)

NormalKey ==
    \/ Colon
    \/ InsertKey(buf) \/ InsertKey(cursor_right(buf))
    \/ Move(cursor_left(buf)) \/ Move(cursor_right(buf))
    \/ Move(Down(buf)) \/ Move(Up(buf))

InsertModeKey == EscInsert \/ Backspace \/ \E c \in Char : Type(c)

CommandKey == EscCommand \/ EnterCommand \/ \E c \in {"w", "q", "a"} : EditCommand(c)

Next ==
    \/ \E s \in BoundedSeq(Char, TEXT_CAP - 1) : Open(s)
    \/ NormalKey \/ InsertModeKey \/ CommandKey
    \/ Expire

Spec == Init /\ [][Next]_vars
-----------------------------------------------------------------------------
TypeOK ==
    /\ text \in [Index -> Char \cup {Nul}]
    /\ 0 <= gap_start /\ gap_start <= gap_end /\ gap_end <= TEXT_CAP
    /\ mode \in {"normal", "insert", "command"}
    /\ Len(cmd) <= CMD_CAP
    /\ complaint \in {Silent, FailedToSave, CommandNotFound}
    /\ {running, scribbled} \subseteq BOOLEAN
    /\ top_row \in Nat /\ left_col \in Nat

\* The text the buffer stands for.
Text == INSTANCE TextBuffer WITH
    Capacity <- TEXT_CAP,
    open     <- running,
    before   <- Piece(0, gap_start),
    after    <- Piece(gap_end, TEXT_CAP)

\* The gap buffer is a text with a cursor: moving the gap by single characters,
\* also with no room left in it, and the leftovers in it, never show.
ActsAsText == Text!Init /\ [][Text!Next]_(Text!vars)

\* The lines of the text, counted from 0.
Breaks == SetToSortSeq({i \in 1 .. Len(Text!Whole) : Text!Whole[i] = NL}, <)
Line(n) ==
    SubSeq(Text!Whole, IF n = 0 THEN 1 ELSE Breaks[n] + 1,
           IF n = Len(Breaks) THEN Len(Text!Whole) ELSE Breaks[n + 1] - 1)

\* Drawing only what a key damaged leaves the screen as drawing all of it would:
\* every row shows its line of the text, and the cursor stands on the character
\* it is at.  Except after cmd_touch, which save calls for a missing file, has
\* written its message over the screen, until everything is drawn again.
\* The bottom row shows the command line, the complaint or the mode, and no
\* rest of what was there before: DMG_FULL does not clear it, and clearing it
\* is lost when check_scroll turns DMG_CMD into DMG_FULL.
ScreenCurrent ==
    /\ TypeOK
    /\ running /\ ~scribbled =>
         \A r \in TextRow :
             screen[r] = IF top_row + r > Len(Breaks) THEN Blank
                         ELSE [num |-> top_row + r, cells |-> linebuf(Line(top_row + r))]
    /\ running /\ mode # "command" =>
         /\ cursor \in TextRow \X (0 .. text_cols - 1)
         /\ Text!StartOf(gap_start) + left_col + cursor[2] = gap_start
         /\ Cardinality({s \in Text!Starts : s <= gap_start}) = top_row + cursor[1] + 1
    /\ running => bar = Overlay(BlankBar, 1, IF mode = "command" THEN <<":">> \o cmd ELSE Status)

\* What is stored is the whole text, wherever the cursor was, and ":wq" leaves
\* the editor only after that: a failed save keeps the text in the editor.
SavesAll ==
    [][/\ stored' \subseteq {Text!Whole}
       /\ running /\ ~running' /\ cmd[1] = "w" => stored' = {Text!Whole}]_vars
=============================================================================
