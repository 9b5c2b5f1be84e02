------------------------------ MODULE Keyboard ------------------------------
(***************************************************************************)
(* The keyboard driver (src/kernel/drivers/keyboard/keyboard.c) and its    *)
(* ring buffer: keys go down and up, the controller sends their scancodes  *)
(* byte by byte, the interrupt handler decodes them and queues characters, *)
(* and sys_read_char takes these out.                                      *)
(*                                                                         *)
(* A byte is a prefix or a code with its release bit.  The tables are cut  *)
(* down to codes that show every case: a letter, a shift key, a code that  *)
(* means something only after E0, one that means different keys with and   *)
(* without it, a lock key and the six bytes of the Pause key.              *)
(***************************************************************************)
EXTENDS Integers, Sequences

CONSTANTS
    Size,       \* the slots of the ring buffer, 256 in the code
    Used,       \* the keys that are pressed
    MaxBehind   \* bound on the bytes under way when a key moves

E0 == [code |-> "E0", up |-> FALSE]
E1 == [code |-> "E1", up |-> FALSE]
Byte(c, up) == [code |-> c, up |-> up]

\* scancode_to_keycode and extended_scancode_to_keycode.
scancode_to_keycode(c) ==
    CASE c = "1E" -> "A" [] c = "2A" -> "LSHIFT" [] c = "1D" -> "LCTRL"
      [] c = "45" -> "NUMLOCK" [] c = "3A" -> "CAPSLOCK" [] c = "0E" -> "BACKSPACE"
      [] OTHER -> "NONE"
extended_scancode_to_keycode(c) ==
    CASE c = "48" -> "UP" [] c = "1D" -> "RCTRL" [] c = "49" -> "PGUP"
      [] OTHER -> "NONE"

Key == {"A", "LSHIFT", "LCTRL", "NUMLOCK", "CAPSLOCK", "BACKSPACE", "UP", "RCTRL", "PGUP"}

ASSUME KeyboardAssumption ==
    /\ Size \in Nat /\ Size > 1
    /\ Used \subseteq Key \cup {"PAUSE"} /\ MaxBehind \in Nat

\* What the controller sends for a key (external hardware): Pause sends all
\* of its bytes when it goes down.
Sent(k, up) ==
    CASE k = "PAUSE" -> <<E1, Byte("1D", FALSE), Byte("45", FALSE),
                          E1, Byte("1D", TRUE), Byte("45", TRUE)>>
      [] k = "UP" -> <<E0, Byte("48", up)>>
      [] k = "PGUP" -> <<E0, Byte("49", up)>>
      [] k = "RCTRL" -> <<E0, Byte("1D", up)>>
      [] OTHER -> <<Byte(CHOOSE c \in {"1E", "2A", "1D", "45", "3A", "0E"} :
                           scancode_to_keycode(c) = k, up)>>

VARIABLES
    pressed,    \* the keys that are down
    wire,       \* the bytes the handler has not read yet
    e0_pending, e1_skip,
    keys_down, capslock, numlock,
    queue, head, tail,      \* g_rb
    read        \* what sys_read_char returned last

rb == <<queue, head, tail>>
decoder == <<e0_pending, e1_skip, keys_down, capslock, numlock>>
vars == <<pressed, wire, decoder, rb, read>>

SENTINEL == "none"

\* keycode_to_char.
keycode_to_char(k, down) ==
    CASE k = "A" -> IF down["LSHIFT"] # capslock THEN "upper a" ELSE "a"
      [] k = "BACKSPACE" -> "backspace"
      [] k = "UP" -> "up"
      [] OTHER -> "nul"

\* rb_push and rb_pop; the indices are bytes and wrap.
Following(i) == (i + 1) % Size

rb_push_WhenFull(c) ==
    /\ queue' = [queue EXCEPT ![head] = c]
    /\ head' = Following(head)
    /\ UNCHANGED tail

rb_push(c) ==
    IF Following(head) = tail THEN UNCHANGED rb
    ELSE /\ queue' = [queue EXCEPT ![head] = c]
         /\ head' = Following(head)
         /\ UNCHANGED tail

-----------------------------------------------------------------------------
Init ==
    /\ pressed = {} /\ wire = <<>>
    /\ e0_pending = FALSE /\ e1_skip = 0
    /\ keys_down = [k \in Key |-> FALSE] /\ capslock = FALSE /\ numlock = FALSE
    /\ queue = [i \in 0 .. Size - 1 |-> "nul"] /\ head = 0 /\ tail = 0
    /\ read = SENTINEL

\* Keys go down, repeat, and up.
Press(k) ==
    /\ Len(wire) <= MaxBehind
    /\ wire' = wire \o Sent(k, FALSE)
    /\ pressed' = IF k = "PAUSE" THEN pressed ELSE pressed \cup {k}
    /\ UNCHANGED <<decoder, rb, read>>

Release(k) ==
    /\ k \in pressed /\ Len(wire) <= MaxBehind
    /\ wire' = wire \o Sent(k, TRUE)
    /\ pressed' = pressed \ {k}
    /\ UNCHANGED <<decoder, rb, read>>

\* keyboard_handler on the next byte.  fb_scrollback, which Shift+Up and PgUp
\* call, touches only the screen.
PauseBytes_CountingPrefix == 6

PauseBytes == 5

Prefix(b) ==
    \/ /\ e1_skip > 0
       /\ e1_skip' = e1_skip - 1 /\ UNCHANGED e0_pending
    \/ /\ e1_skip = 0 /\ b = E0
       /\ e0_pending' = TRUE /\ UNCHANGED e1_skip
    \/ /\ e1_skip = 0 /\ b = E1
       /\ e1_skip' = PauseBytes /\ UNCHANGED e0_pending

IrqPrefix ==
    /\ wire # <<>> /\ Prefix(Head(wire))
    /\ wire' = Tail(wire)
    /\ UNCHANGED <<pressed, keys_down, capslock, numlock, rb, read>>

Decoded(b) ==
    IF e0_pending THEN extended_scancode_to_keycode(b.code)
    ELSE scancode_to_keycode(b.code)

IrqCode ==
    LET b == Head(wire)
        k == Decoded(b)
        down == [keys_down EXCEPT ![k] = ~b.up]
        swallowed == k = "UP" /\ down["LSHIFT"]
    IN
    /\ wire # <<>> /\ e1_skip = 0 /\ b \notin {E0, E1}
    /\ wire' = Tail(wire)
    /\ e0_pending' = FALSE
    /\ IF k = "NONE" THEN UNCHANGED <<keys_down, capslock, numlock, rb>>
       ELSE /\ capslock' = (capslock # (k = "CAPSLOCK" /\ ~b.up))
            /\ numlock' = (numlock # (k = "NUMLOCK" /\ ~b.up))
            /\ keys_down' = down
            /\ IF b.up \/ swallowed \/ keycode_to_char(k, down) = "nul" THEN UNCHANGED rb
               ELSE rb_push(keycode_to_char(k, down))
    /\ UNCHANGED <<pressed, e1_skip, read>>

SysReadChar ==
    /\ IF head = tail THEN read' = SENTINEL /\ UNCHANGED tail
       ELSE read' = queue[tail] /\ tail' = Following(tail)
    /\ UNCHANGED <<pressed, wire, decoder, queue, head>>

Next ==
    \/ \E k \in Used : Press(k) \/ Release(k)
    \/ IrqPrefix \/ IrqCode
    \/ SysReadChar

Spec == Init /\ [][Next]_vars
-----------------------------------------------------------------------------
TypeOK ==
    /\ pressed \subseteq Key /\ Len(wire) <= MaxBehind + 6
    /\ e0_pending \in BOOLEAN /\ e1_skip \in 0 .. PauseBytes
    /\ keys_down \in [Key -> BOOLEAN] /\ capslock \in BOOLEAN /\ numlock \in BOOLEAN
    /\ head \in 0 .. Size - 1 /\ tail \in 0 .. Size - 1
    /\ DOMAIN queue = 0 .. Size - 1

\* The characters waiting in the ring buffer, oldest first.
Waiting == [i \in 1 .. (head - tail) % Size |-> queue[(tail + i - 1) % Size]]

\* The ring buffer is a queue through every wrap of its indices: a step adds
\* one character behind the others, hands out the oldest, or leaves them; one
\* is dropped only when Size - 1 are waiting.
BufferIsFifo ==
    [][\/ Waiting' = Waiting
       \/ Waiting # <<>> /\ Waiting' = Tail(Waiting) /\ read' = Head(Waiting)
       \/ /\ Len(Waiting) < Size - 1 /\ Len(Waiting') = Len(Waiting) + 1
          /\ SubSeq(Waiting', 1, Len(Waiting)) = Waiting]_vars

\* Once all bytes are handled keys_down says which keys are down, so is_key_held
\* and the shift state are right: the decoder is back in step after prefixes,
\* unknown codes and the Pause key, whose bytes look like Ctrl and NumLock.
KeysTracked ==
    /\ TypeOK
    /\ wire = <<>> => {k \in Key : keys_down[k]} = pressed
=============================================================================
