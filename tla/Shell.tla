-------------------------------- MODULE Shell --------------------------------
(***************************************************************************)
(* The line editor of the shell, shell.c, on the console.  The shell does  *)
(* not know what the screen holds: it remembers in anchor where the line   *)
(* starts and finds it again, after writing made the screen scroll, by     *)
(* asking for the cursor.  Every system call runs with interrupts off, but *)
(* between two calls the keyboard interrupt may scroll the view, so a key  *)
(* is handled in several steps: todo holds the calls that are still to be  *)
(* made for it.                                                            *)
(***************************************************************************)
EXTENDS Console

CONSTANTS
    Char,           \* the characters that can be typed
    Prompt,         \* the characters of the prompt
    Outputs,        \* the calls a command may make: a set of sequences
    BUF_CAP,        \* characters in a line, one for the terminator
    HISTORY_CAP     \* lines remembered

(* A prompt and a full line, with the blank that a deletion writes, fit on
   the screen. *)
ASSUME ShellAssumption ==
    /\ BUF_CAP \in Nat \ {0} /\ HISTORY_CAP \in Nat \ {0}
    /\ Len(Prompt) + BUF_CAP <= rows * cols

VARIABLES
    buf,            \* the first max_len characters of the buffer
    cur, anchor,
    history, history_head, history_count, history_pos, draft,
    todo,           \* system calls still to be made
    entered,        \* ghost: the last HISTORY_CAP commands, oldest first
    typed           \* ghost: the line as it was last edited at history_pos = 0

lineVars == <<buf, cur, history_pos, draft, typed>>
historyVars == <<history, history_head, history_count, entered>>
vars == <<con, anchor, todo, lineVars, historyVars>>

max_len == Len(buf)
Reading == todo = <<>>

-----------------------------------------------------------------------------
(* System calls, as the shell and its commands issue them. *)

Write(s) == [call |-> "write", arg |-> s]
WriteNoUpd(s) == [call |-> "write_no_upd", arg |-> s]
Clear == [call |-> "clear", arg |-> 0]
Scrollback(b) == [call |-> "scrollback", arg |-> b]
CursorNoUpd(p) == [call |-> "cursor_no_upd", arg |-> p]
place_cursor(i) == [call |-> "cursor", arg |-> i]       \* at anchor + i
Sync(n) == [call |-> "sync", arg |-> n]                 \* n cells were written

Result(op) ==
    CASE op.call = "write" -> DrawUpd(con, op.arg)
      [] op.call = "write_no_upd" -> DrawNoUpd(con, op.arg)
      [] op.call = "clear" -> fb_clear_screen(con)
      [] op.call = "scrollback" -> fb_set_scrollback(con, op.arg)
      [] op.call = "cursor_no_upd" -> fb_set_cursor_no_upd(con, op.arg)
      [] op.call = "cursor" -> fb_set_cursor(con, anchor + op.arg)
      [] op.call = "sync" -> con

\* One system call; get_cursor is the only one whose result the shell uses.
Call ==
    /\ todo # <<>> /\ todo' = Tail(todo)
    /\ con' = Result(Head(todo))
    /\ anchor' = IF Head(todo).call = "sync" THEN Here(con) - Head(todo).arg ELSE anchor
    /\ UNCHANGED <<lineVars, historyVars>>

\* Interrupts are off in the kernel, and on while the shell computes.
KeyboardIrq ==
    /\ \E delta \in ScrollKeys : con' = fb_scrollback(con, delta)
    /\ UNCHANGED <<anchor, todo, lineVars, historyVars>>

-----------------------------------------------------------------------------
\* The anchor is taken to be where it was, as if the screen had not scrolled.
resync_Skipped(n) == <<place_cursor(cur')>>

\* resync: n cells were written from the anchor on.
resync(n) == <<Sync(n), place_cursor(cur')>>

NewPrompt == <<Write(Prompt), Sync(0)>>

Blanks(n) == [i \in 1 .. n |-> Blank]

replace_line(src) ==
    /\ buf' = src /\ cur' = Len(src)
    /\ todo' = <<place_cursor(0), Write(src), Write(Blanks(max_len - Len(src)))>>
                  \o resync(Max({Len(src), max_len}))

\* One line further back than asked for.
Recalled_OneOff(pos) == history[(history_head + HISTORY_CAP - pos - 1) % HISTORY_CAP]

Recalled(pos) == history[(history_head + HISTORY_CAP - pos) % HISTORY_CAP]

Init ==
    /\ FbInit /\ anchor = 0 /\ todo = NewPrompt
    /\ buf = <<>> /\ cur = 0 /\ history_pos = 0 /\ draft = <<>> /\ typed = <<>>
    /\ history = [i \in 0 .. HISTORY_CAP - 1 |-> <<>>]
    /\ history_head = 0 /\ history_count = 0 /\ entered = <<>>

\* The rest of a key that was typed or deleted.
Edited ==
    /\ typed' = IF history_pos = 0 THEN buf' ELSE typed
    /\ UNCHANGED <<con, anchor, historyVars, history_pos, draft>>

Type(c) ==
    /\ Reading /\ max_len < BUF_CAP - 1
    /\ buf' = InsertAt(buf, cur + 1, c) /\ cur' = cur + 1
    /\ todo' = <<Write(SubSeq(buf', cur + 1, Len(buf')))>> \o resync(Len(buf'))
    /\ Edited

Delete ==
    /\ Reading /\ cur > 0
    /\ buf' = RemoveAt(buf, cur) /\ cur' = cur - 1
    /\ todo' = <<place_cursor(cur'), Write(SubSeq(buf', cur, Len(buf'))), Write(Blanks(1))>>
                  \o resync(Len(buf') + 1)
    /\ Edited

Arrow ==
    /\ Reading
    /\ \/ cur > 0 /\ cur' = cur - 1
       \/ cur < max_len /\ cur' = cur + 1
    /\ todo' = <<place_cursor(cur')>>
    /\ UNCHANGED <<con, anchor, historyVars, buf, history_pos, draft, typed>>

KeyUp ==
    /\ Reading /\ history_pos < history_count
    /\ draft' = IF history_pos = 0 THEN buf ELSE draft
    /\ history_pos' = history_pos + 1
    /\ replace_line(Recalled(history_pos'))
    /\ UNCHANGED <<con, anchor, historyVars, typed>>

KeyDown ==
    /\ Reading /\ history_pos > 0
    /\ history_pos' = history_pos - 1
    /\ replace_line(IF history_pos' = 0 THEN draft ELSE Recalled(history_pos'))
    /\ UNCHANGED <<con, anchor, historyVars, draft, typed>>

\* The line goes into the history unless it is the newest one there already.
Remember ==
    IF Recalled(1) = buf
    THEN UNCHANGED historyVars
    ELSE /\ entered' = Newest(Append(entered, buf), HISTORY_CAP)
         /\ history' = [history EXCEPT ![history_head] = buf]
         /\ history_head' = (history_head + 1) % HISTORY_CAP
         /\ history_count' = Min({history_count + 1, HISTORY_CAP})

LeaveLine == <<place_cursor(max_len), Write(<<NewLine>>)>>

\* Enter: the command runs, and the shell prompts and starts to read again.
\* The draft is dead until an arrow sets it again.
Enter ==
    /\ Reading
    /\ IF buf = <<>>
       THEN todo' = LeaveLine \o NewPrompt /\ UNCHANGED historyVars
       ELSE /\ \E out \in Outputs : todo' = LeaveLine \o out \o NewPrompt
            /\ Remember
    /\ buf' = <<>> /\ cur' = 0 /\ history_pos' = 0 /\ typed' = <<>> /\ draft' = <<>>
    /\ UNCHANGED <<con, anchor>>

Next ==
    \/ Call \/ KeyboardIrq
    \/ \E c \in Char : Type(c)
    \/ Delete \/ Arrow \/ KeyUp \/ KeyDown \/ Enter

Spec == Init /\ [][Next]_vars
-----------------------------------------------------------------------------
(* Between two keys the screen holds the prompt, directly behind it the line
   being edited, and nothing behind that, with the cursor under the character
   that the next key changes: whatever scrolled in the meantime, and however
   the line wraps. *)
LineShown ==
    Reading =>
        /\ \A i \in 1 .. max_len : con.shadow[anchor + i - 1] = buf[i]
        /\ \A i \in Cells : i >= anchor + max_len => con.shadow[i] = Blank
        /\ \A i \in 1 .. Len(Prompt) : con.shadow[anchor - i] = Prompt[Len(Prompt) + 1 - i]
        /\ Here(con) = anchor + cur
        /\ con.view_offset = 0 => con.pixels[anchor + cur][2]

(* Going up and down walks over the commands entered, the newest one first,
   as many of them as the history holds, and coming back down finds the line
   that was being typed. *)
RecallIsExact ==
    [][history_pos' # history_pos =>
          buf' = IF history_pos' = 0 THEN typed'
                 ELSE entered[Len(entered) + 1 - history_pos']]_vars
=============================================================================
