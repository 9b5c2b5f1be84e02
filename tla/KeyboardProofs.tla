--------------------------- MODULE KeyboardProofs ---------------------------
(***************************************************************************)
(* The ring buffer behind the keyboard is a queue, and the decoder follows *)
(* the keys, for every size of the buffer and every choice of keys.        *)
(***************************************************************************)
EXTENDS Keyboard, TLAPS

\* Leaves are tried with the SMT solver and then with Zenon, within 30 seconds.
USE SMTT(30), ZenonT(30)

Slots == 0 .. Size - 1
Chars == {"a", "upper a", "backspace", "up", "nul"}

\* What the buffer's calls rely on and keep.
RingOK ==
    /\ head \in Slots /\ tail \in Slots
    /\ queue \in [Slots -> Chars]

\* For a head h, a tail t and slots q: the number of characters waiting, the
\* slot of one of them, and all of them.
Count(h, t) == (h - t) % Size
SlotOf(t, i) == (t + i - 1) % Size
Contents(q, h, t) == [i \in 1 .. Count(h, t) |-> q[SlotOf(t, i)]]

\* The indices wrap at most once.
LEMMA WrapOnce ==
    ASSUME NEW a \in Int, -Size < a, a < 2 * Size
    PROVE  a % Size = IF a < 0 THEN a + Size ELSE IF a < Size THEN a ELSE a - Size
  BY KeyboardAssumption

\* head - tail without modulus.
LEMMA CountIs ==
    ASSUME NEW h \in Slots, NEW t \in Slots
    PROVE  /\ Count(h, t) = IF h < t THEN h - t + Size ELSE h - t
           /\ Count(h, t) \in 0 .. Size - 1
<1>1. /\ h \in Int /\ t \in Int /\ 0 <= h /\ h < Size /\ 0 <= t /\ t < Size
      /\ Size \in Nat
  BY KeyboardAssumption DEF Slots
<1>2. h - t \in Int /\ -Size < h - t /\ h - t < 2 * Size
  BY <1>1
<1>3. (h - t) % Size = IF h - t < 0 THEN h - t + Size
                       ELSE IF h - t < Size THEN h - t ELSE h - t - Size
  BY <1>1, <1>2, WrapOnce
<1> QED BY <1>1, <1>3 DEF Count

\* A slot counted from tail, without modulus.
LEMMA SlotIs ==
    ASSUME NEW t \in Slots, NEW i \in 1 .. Size
    PROVE  /\ SlotOf(t, i) = IF t + i - 1 < Size THEN t + i - 1 ELSE t + i - 1 - Size
           /\ SlotOf(t, i) \in Slots
<1>1. t \in Int /\ 0 <= t /\ t < Size /\ i \in Int /\ 1 <= i /\ i <= Size /\ Size \in Nat
  BY KeyboardAssumption DEF Slots
<1>2. t + i - 1 \in Int /\ -Size < t + i - 1 /\ t + i - 1 < 2 * Size
  BY <1>1
<1>3. (t + i - 1) % Size = IF t + i - 1 < 0 THEN t + i - 1 + Size
                           ELSE IF t + i - 1 < Size THEN t + i - 1 ELSE t + i - 1 - Size
  BY <1>1, <1>2, WrapOnce
<1> QED BY <1>1, <1>3 DEF SlotOf, Slots

\* The next index without modulus.
LEMMA FollowingIs ==
    ASSUME NEW j \in Slots
    PROVE  /\ Following(j) = IF j + 1 < Size THEN j + 1 ELSE 0
           /\ Following(j) \in Slots
<1>1. j \in Int /\ 0 <= j /\ j < Size /\ Size \in Nat
  BY KeyboardAssumption DEF Slots
<1>2. j + 1 \in Int /\ -Size < j + 1 /\ j + 1 < 2 * Size
  BY <1>1
<1>3. (j + 1) % Size = IF j + 1 < 0 THEN j + 1 + Size
                       ELSE IF j + 1 < Size THEN j + 1 ELSE j + 1 - Size
  BY <1>1, <1>2, WrapOnce
<1> QED BY <1>1, <1>3 DEF Following, Slots

\* The contents are a sequence of Count characters.
LEMMA ContentsSeq ==
    ASSUME NEW q \in [Slots -> Chars], NEW h \in Slots, NEW t \in Slots
    PROVE  /\ Contents(q, h, t) \in Seq(Chars)
           /\ Len(Contents(q, h, t)) = Count(h, t)
           /\ \A i \in 1 .. Count(h, t) : Contents(q, h, t)[i] = q[SlotOf(t, i)]
<1>1. Count(h, t) \in Nat /\ Count(h, t) < Size
  BY CountIs, KeyboardAssumption
<1>2. ASSUME NEW i \in 1 .. Count(h, t) PROVE q[SlotOf(t, i)] \in Chars
  <2>1. i \in 1 .. Size
    BY <1>1, KeyboardAssumption
  <2> QED BY <2>1, SlotIs
<1> QED BY <1>1, <1>2 DEF Contents

\* With a slot to spare, a character stored at head comes last.
LEMMA PushedLast ==
    ASSUME NEW q \in [Slots -> Chars], NEW h \in Slots, NEW t \in Slots,
           NEW c \in Chars, Following(h) # t
    PROVE  /\ Count(h, t) < Size - 1
           /\ Contents([q EXCEPT ![h] = c], Following(h), t) = Append(Contents(q, h, t), c)
<1> DEFINE n == Count(h, t)
           r == [q EXCEPT ![h] = c]
           g == Following(h)
<1>1. g \in Slots /\ r \in [Slots -> Chars]
  BY FollowingIs
<1>2. g = IF h + 1 < Size THEN h + 1 ELSE 0
  BY FollowingIs
<1>3. /\ n = IF h < t THEN h - t + Size ELSE h - t
      /\ Count(g, t) = IF g < t THEN g - t + Size ELSE g - t
  BY <1>1, CountIs
<1>4. /\ Contents(q, h, t) \in Seq(Chars) /\ Len(Contents(q, h, t)) = n
      /\ \A i \in 1 .. n : Contents(q, h, t)[i] = q[SlotOf(t, i)]
  BY ContentsSeq
<1>5. g # t /\ r[h] = c /\ \A x \in Slots \ {h} : r[x] = q[x]
  OBVIOUS
<1> HIDE DEF n, r, g
<1>6. /\ Contents(r, g, t) \in Seq(Chars) /\ Len(Contents(r, g, t)) = Count(g, t)
      /\ \A i \in 1 .. Count(g, t) : Contents(r, g, t)[i] = r[SlotOf(t, i)]
  BY <1>1, ContentsSeq, ZenonT(30)
<1>7. h \in Int /\ t \in Int /\ 0 <= h /\ h < Size /\ 0 <= t /\ t < Size /\ Size \in Nat
  BY KeyboardAssumption DEF Slots
<1>8. n \in Nat /\ n < Size - 1 /\ Count(g, t) = n + 1
  BY <1>2, <1>3, <1>5, <1>7
<1>9. SlotOf(t, n + 1) = h
  <2>1. n + 1 \in 1 .. Size
    BY <1>7, <1>8
  <2>2. SlotOf(t, n + 1) = IF t + (n + 1) - 1 < Size THEN t + (n + 1) - 1
                           ELSE t + (n + 1) - 1 - Size
    BY <2>1, SlotIs
  <2> QED BY <1>3, <1>7, <1>8, <2>2
<1>10. ASSUME NEW i \in 1 .. n PROVE SlotOf(t, i) \in Slots \ {h}
  <2>1. i \in 1 .. Size
    BY <1>7, <1>8
  <2>2. /\ SlotOf(t, i) = IF t + i - 1 < Size THEN t + i - 1 ELSE t + i - 1 - Size
        /\ SlotOf(t, i) \in Slots
    BY <2>1, SlotIs
  <2> QED BY <1>3, <1>7, <1>8, <2>1, <2>2
<1>11. \A i \in 1 .. n : Contents(r, g, t)[i] = Contents(q, h, t)[i]
  <2> TAKE i \in 1 .. n
  <2>1. i \in 1 .. Count(g, t)
    BY <1>8
  <2> QED BY <1>4, <1>6, <1>5, <1>10, <2>1
<1>12. Contents(r, g, t)[n + 1] = c
  BY <1>6, <1>5, <1>8, <1>9
<1>13. Contents(r, g, t) = Append(Contents(q, h, t), c)
  BY <1>4, <1>6, <1>8, <1>11, <1>12
<1> QED BY <1>8, <1>13, ZenonT(30) DEF n, r, g

\* Stepping tail drops the first character, the one in its slot.
LEMMA PoppedFirst ==
    ASSUME NEW q \in [Slots -> Chars], NEW h \in Slots, NEW t \in Slots, h # t
    PROVE  /\ Contents(q, h, t) # <<>>
           /\ q[t] = Head(Contents(q, h, t))
           /\ Contents(q, h, Following(t)) = Tail(Contents(q, h, t))
<1> DEFINE n == Count(h, t)
           u == Following(t)
<1>1. u \in Slots /\ u = IF t + 1 < Size THEN t + 1 ELSE 0
  BY FollowingIs
<1>2. /\ n = IF h < t THEN h - t + Size ELSE h - t
      /\ Count(h, u) = IF h < u THEN h - u + Size ELSE h - u
  BY <1>1, CountIs
<1>3. /\ Contents(q, h, t) \in Seq(Chars) /\ Len(Contents(q, h, t)) = n
      /\ \A i \in 1 .. n : Contents(q, h, t)[i] = q[SlotOf(t, i)]
  BY ContentsSeq
<1>4. /\ Contents(q, h, u) \in Seq(Chars) /\ Len(Contents(q, h, u)) = Count(h, u)
      /\ \A i \in 1 .. Count(h, u) : Contents(q, h, u)[i] = q[SlotOf(u, i)]
  BY <1>1, ContentsSeq, ZenonT(30)
<1> HIDE DEF n, u
<1>5. h \in Int /\ t \in Int /\ 0 <= h /\ h < Size /\ 0 <= t /\ t < Size /\ Size \in Nat
  BY KeyboardAssumption DEF Slots
<1>6. n \in Nat /\ n > 0 /\ n < Size /\ Count(h, u) = n - 1
  BY <1>1, <1>2, <1>5
<1>7. SlotOf(t, 1) = t
  <2>1. 1 \in 1 .. Size
    BY <1>5
  <2>2. SlotOf(t, 1) = IF t + 1 - 1 < Size THEN t + 1 - 1 ELSE t + 1 - 1 - Size
    BY <2>1, SlotIs
  <2> QED BY <1>5, <2>2
<1>8. ASSUME NEW i \in 1 .. n - 1 PROVE SlotOf(u, i) = SlotOf(t, i + 1)
  <2>1. i \in 1 .. Size /\ i + 1 \in 1 .. Size
    BY <1>5, <1>6
  <2>2. SlotOf(u, i) = IF u + i - 1 < Size THEN u + i - 1 ELSE u + i - 1 - Size
    BY <1>1, <2>1, SlotIs
  <2>3. SlotOf(t, i + 1) = IF t + (i + 1) - 1 < Size THEN t + (i + 1) - 1
                           ELSE t + (i + 1) - 1 - Size
    BY <2>1, SlotIs
  <2> QED BY <1>1, <1>5, <1>6, <2>1, <2>2, <2>3
<1>9. \A i \in 1 .. n - 1 : Contents(q, h, u)[i] = Contents(q, h, t)[i + 1]
  BY <1>3, <1>4, <1>6, <1>8
<1>10. Contents(q, h, t) # <<>> /\ Head(Contents(q, h, t)) = q[t]
  BY <1>3, <1>6, <1>7
<1>11. Contents(q, h, u) = Tail(Contents(q, h, t))
  BY <1>3, <1>4, <1>6, <1>9
<1> QED BY <1>10, <1>11 DEF u

-----------------------------------------------------------------------------
\* What BufferIsFifo allows a step to do.
Fifo ==
    \/ Waiting' = Waiting
    \/ Waiting # <<>> /\ Waiting' = Tail(Waiting) /\ read' = Head(Waiting)
    \/ /\ Len(Waiting) < Size - 1 /\ Len(Waiting') = Len(Waiting) + 1
       /\ SubSeq(Waiting', 1, Len(Waiting)) = Waiting

\* What waits in the buffer before and after a step.
LEMMA WaitingIs ==
    /\ Waiting = Contents(queue, head, tail)
    /\ Waiting' = Contents(queue', head', tail')
  BY DEF Waiting, Contents, Count, SlotOf

\* A step that leaves the buffer alone leaves what waits in it alone.
LEMMA Untouched ==
    ASSUME RingOK, UNCHANGED rb
    PROVE  RingOK' /\ Waiting' = Waiting
  BY DEF RingOK, rb, Waiting

\* rb_push puts a character behind the others, or drops it.
LEMMA PushIsFifo ==
    ASSUME RingOK, NEW c \in Chars, rb_push(c)
    PROVE  RingOK' /\ Fifo
<1>1. CASE Following(head) = tail
  <2>1. UNCHANGED rb
    BY <1>1 DEF rb_push
  <2> QED BY <2>1, Untouched DEF Fifo
<1>2. CASE Following(head) # tail
  <2>1. /\ queue' = [queue EXCEPT ![head] = c]
        /\ head' = Following(head) /\ tail' = tail
    BY <1>2 DEF rb_push
  <2>2. RingOK'
    BY <2>1, FollowingIs DEF RingOK
  <2>3. Count(head, tail) < Size - 1 /\ Waiting' = Append(Waiting, c)
    BY <1>2, <2>1, WaitingIs, PushedLast, ZenonT(30) DEF RingOK
  <2>4. Waiting \in Seq(Chars) /\ Len(Waiting) = Count(head, tail)
    BY WaitingIs, ContentsSeq DEF RingOK
  <2>5. Len(Waiting') = Len(Waiting) + 1 /\ SubSeq(Waiting', 1, Len(Waiting)) = Waiting
    BY <2>3, <2>4
  <2> QED BY <2>2, <2>3, <2>4, <2>5 DEF Fifo
<1> QED BY <1>1, <1>2

\* Every step keeps the ring well-formed and treats it as a queue.
LEMMA StepIsFifo ==
    ASSUME RingOK, [Next]_vars
    PROVE  RingOK' /\ Fifo
<1>1. ASSUME NEW k \in Used, Press(k) \/ Release(k)
      PROVE  RingOK' /\ Fifo
  BY <1>1, Untouched, ZenonT(30) DEF Press, Release, Fifo
<1>2. CASE IrqPrefix
  <2>1. UNCHANGED rb
    BY <1>2 DEF IrqPrefix
  <2> QED BY <2>1, Untouched DEF Fifo
<1>3. CASE IrqCode
  <2>1. UNCHANGED rb \/ \E k, down : rb_push(keycode_to_char(k, down))
    BY <1>3, ZenonT(30) DEF IrqCode
  <2>2. ASSUME NEW k, NEW down PROVE keycode_to_char(k, down) \in Chars
    BY DEF keycode_to_char, Chars
  <2>3. UNCHANGED rb \/ \E c \in Chars : rb_push(c)
    BY <2>1, <2>2, ZenonT(30)
  <2>4. CASE UNCHANGED rb
    BY <2>4, Untouched DEF Fifo
  <2>5. ASSUME NEW c \in Chars, rb_push(c) PROVE RingOK' /\ Fifo
    BY <2>5, PushIsFifo
  <2> QED BY <2>3, <2>4, <2>5
<1>4. CASE SysReadChar
  <2>1. CASE head = tail
    BY <1>4, <2>1, Untouched DEF SysReadChar, Fifo, rb
  <2>2. CASE head # tail
    <3>1. /\ read' = queue[tail] /\ tail' = Following(tail)
          /\ queue' = queue /\ head' = head
      BY <1>4, <2>2 DEF SysReadChar
    <3>2. RingOK'
      BY <3>1, FollowingIs DEF RingOK
    <3>3. Waiting # <<>> /\ Waiting' = Tail(Waiting) /\ read' = Head(Waiting)
      BY <2>2, <3>1, WaitingIs, PoppedFirst DEF RingOK
    <3> QED BY <3>2, <3>3 DEF Fifo
  <2> QED BY <2>1, <2>2
<1>5. CASE UNCHANGED vars
  BY <1>5, Untouched DEF vars, Fifo
<1> QED BY <1>1, <1>2, <1>3, <1>4, <1>5 DEF Next

\* The ring buffer of the keyboard, of any size, is a queue: characters come
\* out in the order in which the interrupt handler put them in, through every
\* wrap of the two indices, and are dropped only when all slots but one are
\* taken.
THEOREM RingIsQueue == Spec => BufferIsFifo
<1>1. Init => RingOK
  BY KeyboardAssumption DEF Init, RingOK, Slots, Chars
<1>2. ASSUME RingOK, [Next]_vars PROVE RingOK' /\ Fifo
  BY <1>2, StepIsFifo
<1> QED BY <1>1, <1>2, PTL DEF Spec, BufferIsFifo, Fifo

-----------------------------------------------------------------------------
(* Decoding.  What the handler will make of the bytes under way is a run of    *)
(* the decoder over them; the invariant names it instead of computing it.      *)

\* What the decoder remembers: the pending prefix, the bytes to skip, the keys.
State == [e0 : BOOLEAN, e1 : 0 .. PauseBytes, down : SUBSET Key]
Now == [e0 |-> e0_pending, e1 |-> e1_skip, down |-> {k \in Key : keys_down[k]}]
Settled(keys) == [e0 |-> FALSE, e1 |-> 0, down |-> keys]

KeyOf(s, b) ==
    IF s.e0 THEN extended_scancode_to_keycode(b.code) ELSE scancode_to_keycode(b.code)

\* The keys down after key k went up or down.
Moved(keys, k, up) ==
    IF k \notin Key THEN keys ELSE IF up THEN keys \ {k} ELSE keys \cup {k}

\* keyboard_handler on byte b.
Handled(s, b) ==
    IF s.e1 > 0 THEN [e0 |-> s.e0, e1 |-> s.e1 - 1, down |-> s.down]
    ELSE IF b = E0 THEN [e0 |-> TRUE, e1 |-> 0, down |-> s.down]
    ELSE IF b = E1 THEN [e0 |-> s.e0, e1 |-> PauseBytes, down |-> s.down]
    ELSE Settled(Moved(s.down, KeyOf(s, b), b.up))

Codes == {"E0", "E1", "1E", "2A", "1D", "45", "3A", "0E", "48", "49"}
Bytes == [code : Codes, up : BOOLEAN]

\* v is the run of the decoder over the bytes w, from s to t.
Run(v, w, s, t) ==
    /\ v \in [0 .. Len(w) -> State]
    /\ v[0] = s /\ v[Len(w)] = t
    /\ \A i \in 1 .. Len(w) : v[i] = Handled(v[i - 1], w[i])

\* The bytes under way take the decoder to the keys that are down.
Decodes == \E v : Run(v, wire, Now, Settled(pressed))

TInv == TypeOK /\ RingOK /\ wire \in Seq(Bytes) /\ Decodes

\* Runs over two sequences of bytes make one over both.
LEMMA RunsCompose ==
    ASSUME NEW v, NEW w \in Seq(Bytes), NEW s, NEW t, Run(v, w, s, t),
           NEW x, NEW y \in Seq(Bytes), NEW u, Run(x, y, t, u)
    PROVE  \E z : Run(z, w \o y, s, u)
<1> DEFINE m == Len(w)
           n == Len(y)
           z == [i \in 0 .. m + n |-> IF i <= m THEN v[i] ELSE x[i - m]]
<1>1. /\ m \in Nat /\ n \in Nat /\ w \o y \in Seq(Bytes) /\ Len(w \o y) = m + n
      /\ \A i \in 1 .. m + n : (w \o y)[i] = IF i <= m THEN w[i] ELSE y[i - m]
  OBVIOUS
<1>2. /\ v \in [0 .. m -> State] /\ v[0] = s /\ v[m] = t
      /\ \A i \in 1 .. m : v[i] = Handled(v[i - 1], w[i])
  BY DEF Run
<1>3. /\ x \in [0 .. n -> State] /\ x[0] = t /\ x[n] = u
      /\ \A i \in 1 .. n : x[i] = Handled(x[i - 1], y[i])
  BY DEF Run
<1> HIDE DEF m, n
<1>4. z \in [0 .. m + n -> State]
  BY <1>1, <1>2, <1>3
<1>5. z[0] = s /\ z[m + n] = u
  BY <1>1, <1>2, <1>3
<1>6. ASSUME NEW i \in 1 .. m + n
      PROVE  z[i] = Handled(z[i - 1], (w \o y)[i])
  <2>1. CASE i <= m
    <3>1. i \in 1 .. m /\ i \in 0 .. m + n /\ i - 1 \in 0 .. m + n /\ i - 1 <= m
      BY <1>1, <2>1
    <3>2. z[i] = v[i] /\ z[i - 1] = v[i - 1] /\ (w \o y)[i] = w[i]
      BY <1>1, <2>1, <3>1
    <3> QED BY <1>2, <3>1, <3>2
  <2>2. CASE i > m
    <3>1. /\ i - m \in 1 .. n /\ i \in 0 .. m + n /\ i - 1 \in 0 .. m + n
          /\ (i - m) - 1 = (i - 1) - m
      BY <1>1, <2>2
    <3>2. z[i] = x[i - m] /\ (w \o y)[i] = y[i - m]
      BY <1>1, <2>2, <3>1
    <3>3. z[i - 1] = x[(i - m) - 1]
      <4>1. CASE i - 1 = m
        BY <1>1, <1>2, <1>3, <3>1, <4>1
      <4>2. CASE i - 1 # m
        BY <1>1, <2>2, <3>1, <4>2
      <4> QED BY <4>1, <4>2
    <3> QED BY <1>3, <3>1, <3>2, <3>3
  <2> QED BY <1>1, <2>1, <2>2
<1> HIDE DEF z
<1>7. Run(z, w \o y, s, u)
  BY ZenonT(30), <1>1, <1>4, <1>5, <1>6 DEF Run
<1> QED BY <1>7

\* The bytes of a key take the decoder from rest to rest, and the key down or
\* up; those of Pause change nothing.
LEMMA SentDecodes ==
    ASSUME NEW k \in Key \cup {"PAUSE"}, NEW up \in BOOLEAN, NEW keys \in SUBSET Key
    PROVE  /\ Sent(k, up) \in Seq(Bytes) /\ Len(Sent(k, up)) \in 1 .. 6
           /\ \E v : Run(v, Sent(k, up), Settled(keys), Settled(Moved(keys, k, up)))
<1>0. Settled(keys) \in State /\ \A x, y : Settled(Moved(keys, x, y)) \in State
  BY DEF Settled, State, Moved, PauseBytes
<1>1. CASE k = "PAUSE"
  <2> DEFINE w == <<E1, Byte("1D", FALSE), Byte("45", FALSE),
                    E1, Byte("1D", TRUE), Byte("45", TRUE)>>
             S(n) == [e0 |-> FALSE, e1 |-> n, down |-> keys]
             v == [i \in 0 .. 6 |-> IF i = 0 THEN S(0) ELSE S(6 - i)]
  <2>1. Sent(k, up) = w
    BY ZenonT(30), <1>1 DEF Sent
  <2>2. w \in Seq(Bytes) /\ Len(w) = 6
    <3>1. E1 \in Bytes /\ \A u \in BOOLEAN : Byte("1D", u) \in Bytes /\ Byte("45", u) \in Bytes
      BY DEF Bytes, E1, Byte, Codes
    <3>2. /\ E1 \in Bytes /\ Byte("1D", FALSE) \in Bytes /\ Byte("45", FALSE) \in Bytes
          /\ Byte("1D", TRUE) \in Bytes /\ Byte("45", TRUE) \in Bytes
      BY ZenonT(30), <3>1
    <3>3. \A a, b, c, d, e, f \in Bytes :
             <<a, b, c, d, e, f>> \in Seq(Bytes) /\ Len(<<a, b, c, d, e, f>>) = 6
      OBVIOUS
    <3> QED BY ZenonT(30), <3>2, <3>3
  <2>3. v \in [0 .. 6 -> State] /\ v[0] = Settled(keys) /\ v[6] = Settled(keys)
    BY DEF State, Settled, PauseBytes
  <2>4. Handled(S(0), E1) = S(5)
    BY DEF Handled, E0, E1, PauseBytes
  <2>5. ASSUME NEW n \in 1 .. 5, NEW b PROVE Handled(S(n), b) = S(n - 1)
    BY DEF Handled
  <2>6. \A i \in 1 .. 6 : v[i] = Handled(v[i - 1], w[i])
    <3> SUFFICES ASSUME NEW i \in 1 .. 6 PROVE v[i] = Handled(v[i - 1], w[i])
      BY ZenonT(30)
    <3>1. CASE i = 1
      <4>1. v[1] = S(5) /\ v[0] = S(0) /\ w[1] = E1
        OBVIOUS
      <4> QED BY <3>1, <4>1, <2>4
    <3>2. CASE i # 1
      <4>1. v[i] = S(6 - i) /\ v[i - 1] = S(6 - (i - 1)) /\ 6 - (i - 1) \in 1 .. 5
            /\ 6 - (i - 1) - 1 = 6 - i
        BY <3>2
      <4> HIDE DEF v, w, S
      <4>2. Handled(S(6 - (i - 1)), w[i]) = S(6 - (i - 1) - 1)
        BY <4>1, <2>5
      <4> QED BY <4>1, <4>2
    <3> QED BY <3>1, <3>2
  <2>7. Moved(keys, k, up) = keys
    BY <1>1 DEF Moved, Key
  <2> HIDE DEF v, w, S
  <2>8. Run(v, Sent(k, up), Settled(keys), Settled(Moved(keys, k, up)))
    BY <2>1, <2>2, <2>3, <2>6, <2>7 DEF Run
  <2> QED BY <2>1, <2>2, <2>8
<1>2. CASE k \in {"UP", "PGUP", "RCTRL"}
  <2> DEFINE c == IF k = "UP" THEN "48" ELSE IF k = "PGUP" THEN "49" ELSE "1D"
             b == Byte(c, up)
             mid == [e0 |-> TRUE, e1 |-> 0, down |-> keys]
             v == [i \in 0 .. 2 |-> IF i = 0 THEN Settled(keys) ELSE IF i = 1 THEN mid
                                    ELSE Settled(Moved(keys, k, up))]
  <2>1. Sent(k, up) = <<E0, b>>
    BY <1>2 DEF Sent
  <2>2. extended_scancode_to_keycode(c) = k
    BY <1>2 DEF extended_scancode_to_keycode
  <2>3. c \in Codes /\ c # "E0" /\ c # "E1"
    BY DEF Codes
  <2>4. b = [code |-> c, up |-> up] /\ b \in Bytes /\ b # E0 /\ b # E1 /\ b.code = c /\ b.up = up
    BY <2>3 DEF Byte, Bytes, E0, E1
  <2>5. E0 \in Bytes
    BY DEF E0, Bytes, Codes
  <2>6. Handled(Settled(keys), E0) = mid
    BY DEF Handled, Settled
  <2> HIDE DEF c, b
  <2>7. Handled(mid, b) = Settled(Moved(keys, k, up))
    BY <2>2, <2>4 DEF Handled, KeyOf
  <2>8. mid \in State
    BY DEF State, PauseBytes
  <2>9. v \in [0 .. 2 -> State]
    BY <1>0, <2>8
  <2> HIDE DEF mid
  <2>10. v[0] = Settled(keys) /\ v[1] = mid /\ v[2] = Settled(Moved(keys, k, up))
    OBVIOUS
  <2> HIDE DEF v
  <2>11. /\ <<E0, b>> \in Seq(Bytes) /\ Len(<<E0, b>>) = 2
         /\ <<E0, b>>[1] = E0 /\ <<E0, b>>[2] = b
    BY <2>4, <2>5
  <2>12. \A i \in 1 .. 2 : v[i] = Handled(v[i - 1], <<E0, b>>[i])
    BY <2>6, <2>7, <2>10, <2>11
  <2>13. Run(v, <<E0, b>>, Settled(keys), Settled(Moved(keys, k, up)))
    BY <2>9, <2>10, <2>11, <2>12 DEF Run
  <2> QED BY <2>1, <2>11, <2>13
<1>3. CASE k \in Key \ {"UP", "PGUP", "RCTRL"}
  <2> DEFINE codes == {"1E", "2A", "1D", "45", "3A", "0E"}
             c == CHOOSE x \in codes : scancode_to_keycode(x) = k
             b == Byte(c, up)
             v == [i \in 0 .. 1 |-> IF i = 0 THEN Settled(keys)
                                    ELSE Settled(Moved(keys, k, up))]
  <2>1. Sent(k, up) = <<b>>
    BY <1>3 DEF Sent, Key
  <2>2. \E x \in codes : scancode_to_keycode(x) = k
    BY <1>3 DEF scancode_to_keycode, Key
  <2>3. c \in codes /\ scancode_to_keycode(c) = k
    BY <2>2
  <2>4. c \in Codes /\ c # "E0" /\ c # "E1"
    BY ZenonT(30), <2>3 DEF Codes
  <2> HIDE DEF c
  <2>5. b \in Bytes /\ b # E0 /\ b # E1 /\ b.code = c /\ b.up = up
    BY <2>4 DEF Byte, Bytes, E0, E1
  <2> HIDE DEF b
  <2>6. Handled(Settled(keys), b) = Settled(Moved(keys, k, up))
    BY <2>3, <2>5 DEF Handled, KeyOf, Settled
  <2>7. v \in [0 .. 1 -> State] /\ v[0] = Settled(keys) /\ v[1] = Settled(Moved(keys, k, up))
    BY <1>0
  <2> HIDE DEF v
  <2>8. <<b>> \in Seq(Bytes) /\ Len(<<b>>) = 1 /\ <<b>>[1] = b
    BY <2>5
  <2>9. Run(v, <<b>>, Settled(keys), Settled(Moved(keys, k, up)))
    BY <2>6, <2>7, <2>8 DEF Run
  <2> QED BY <2>1, <2>8, <2>9
<1> QED BY <1>1, <1>2, <1>3

\* What is left of a run after its first byte.
LEMMA RunShifts ==
    ASSUME NEW v, NEW w \in Seq(Bytes), NEW s, NEW t, Run(v, w, s, t), w # <<>>
    PROVE  \E z : Run(z, Tail(w), Handled(s, Head(w)), t)
<1> DEFINE n == Len(w)
           z == [i \in 0 .. n - 1 |-> v[i + 1]]
<1>1. /\ n \in Nat /\ n > 0 /\ Tail(w) \in Seq(Bytes) /\ Len(Tail(w)) = n - 1
      /\ Head(w) = w[1] /\ \A i \in 1 .. n - 1 : Tail(w)[i] = w[i + 1]
  OBVIOUS
<1>2. /\ v \in [0 .. n -> State] /\ v[0] = s /\ v[n] = t
      /\ \A i \in 1 .. n : v[i] = Handled(v[i - 1], w[i])
  BY DEF Run
<1> HIDE DEF n
<1>3. z \in [0 .. n - 1 -> State] /\ z[n - 1] = t /\ z[0] = v[1]
  BY <1>1, <1>2
<1>4. v[1] = Handled(s, Head(w))
  <2>1. 1 \in 1 .. n /\ 1 - 1 = 0
    BY <1>1
  <2> QED BY <1>1, <1>2, <2>1
<1>5. ASSUME NEW i \in 1 .. n - 1
      PROVE  z[i] = Handled(z[i - 1], Tail(w)[i])
  <2>1. i + 1 \in 1 .. n /\ i \in 0 .. n - 1 /\ i - 1 \in 0 .. n - 1 /\ i + 1 - 1 = i /\ i - 1 + 1 = i
    BY <1>1
  <2>2. z[i] = v[i + 1] /\ z[i - 1] = v[i] /\ Tail(w)[i] = w[i + 1]
    BY <1>1, <2>1
  <2> HIDE DEF z
  <2>3. v[i + 1] = Handled(v[i], w[i + 1])
    BY <1>2, <2>1
  <2> QED BY ZenonT(30), <2>2, <2>3
<1> HIDE DEF z
<1>6. Run(z, Tail(w), Handled(s, Head(w)), t)
  BY <1>1, <1>3, <1>4, <1>5 DEF Run
<1> QED BY <1>6

\* A key that goes down or up adds bytes that say so.
LEMMA KeyMoves ==
    ASSUME TInv, NEW k \in Used, Press(k) \/ Release(k)
    PROVE  /\ wire' \in Seq(Bytes) /\ Len(wire') <= MaxBehind + 6
           /\ pressed' \subseteq Key /\ Decodes'
<1>1. PICK up \in BOOLEAN : /\ wire' = wire \o Sent(k, up) /\ Len(wire) <= MaxBehind
                            /\ pressed' = Moved(pressed, k, up)
  <2>0. k \in Key \cup {"PAUSE"} /\ pressed \subseteq Key /\ "PAUSE" \notin Key
    BY KeyboardAssumption DEF TInv, TypeOK, Key
  <2>1. CASE Press(k)
    <3>1. wire' = wire \o Sent(k, FALSE) /\ Len(wire) <= MaxBehind
      BY <2>1 DEF Press
    <3>2. pressed' = Moved(pressed, k, FALSE)
      BY <2>0, <2>1 DEF Press, Moved
    <3> QED BY ZenonT(30), <3>1, <3>2
  <2>2. CASE Release(k)
    <3>1. wire' = wire \o Sent(k, TRUE) /\ Len(wire) <= MaxBehind
      BY <2>2 DEF Release
    <3>2. pressed' = Moved(pressed, k, TRUE)
      BY <2>0, <2>2 DEF Release, Moved
    <3> QED BY ZenonT(30), <3>1, <3>2
  <2> QED BY <2>1, <2>2
<1>2. k \in Key \cup {"PAUSE"} /\ pressed \in SUBSET Key /\ wire \in Seq(Bytes)
  BY KeyboardAssumption DEF TInv, TypeOK
<1>3. /\ Sent(k, up) \in Seq(Bytes) /\ Len(Sent(k, up)) \in 1 .. 6
      /\ \E x : Run(x, Sent(k, up), Settled(pressed), Settled(Moved(pressed, k, up)))
  BY ZenonT(30), <1>2, SentDecodes
<1>4. PICK x : Run(x, Sent(k, up), Settled(pressed), Settled(pressed'))
  BY <1>1, <1>3
<1>5. PICK v : Run(v, wire, Now, Settled(pressed))
  BY DEF TInv, Decodes
<1>6. \E z : Run(z, wire \o Sent(k, up), Now, Settled(pressed'))
  BY <1>2, <1>3, <1>4, <1>5, RunsCompose
<1>7. Now' = Now
  BY ZenonT(30) DEF Press, Release, decoder, Now
<1>8. Decodes'
  BY <1>1, <1>6, <1>7 DEF Decodes
<1>9. pressed' \subseteq Key
  BY <1>1, <1>2 DEF Moved
<1>10. wire' \in Seq(Bytes) /\ Len(wire') <= MaxBehind + 6
  <2>1. wire' \in Seq(Bytes) /\ Len(wire') = Len(wire) + Len(Sent(k, up)) /\ Len(wire) \in Nat
    BY <1>1, <1>2, <1>3
  <2>2. Len(Sent(k, up)) \in 1 .. 6 /\ Len(wire) <= MaxBehind /\ MaxBehind \in Nat
    BY <1>1, <1>3, KeyboardAssumption
  <2>3. \A a, m \in Nat, b \in 1 .. 6 : a <= m => a + b <= m + 6
    OBVIOUS
  <2>4. Len(wire) + Len(Sent(k, up)) <= MaxBehind + 6
    BY <2>1, <2>2, <2>3, ZenonT(30)
  <2> QED BY <2>1, <2>4, ZenonT(30)
<1> QED BY <1>8, <1>9, <1>10

\* keyboard_handler reads a byte as Handled says.
LEMMA HandlerSteps ==
    ASSUME TInv, IrqPrefix \/ IrqCode
    PROVE  /\ wire # <<>> /\ wire' = Tail(wire) /\ pressed' = pressed
           /\ Now' = Handled(Now, Head(wire))
           /\ e0_pending' \in BOOLEAN /\ e1_skip' \in 0 .. PauseBytes
           /\ keys_down' \in [Key -> BOOLEAN] /\ capslock' \in BOOLEAN /\ numlock' \in BOOLEAN
<1>0. /\ e0_pending \in BOOLEAN /\ e1_skip \in 0 .. PauseBytes /\ wire \in Seq(Bytes)
      /\ keys_down \in [Key -> BOOLEAN] /\ capslock \in BOOLEAN /\ numlock \in BOOLEAN
  BY DEF TInv, TypeOK
<1>1. CASE IrqPrefix
  <2>1. wire # <<>> /\ wire' = Tail(wire) /\ pressed' = pressed
    BY <1>1 DEF IrqPrefix
  <2>2. UNCHANGED <<keys_down, capslock, numlock>>
    BY <1>1 DEF IrqPrefix
  <2>3. Prefix(Head(wire))
    BY <1>1 DEF IrqPrefix
  <2> DEFINE down == {k \in Key : keys_down[k]}
             next == [e0 |-> e0_pending', e1 |-> e1_skip', down |-> down]
  <2>4. Now = [e0 |-> e0_pending, e1 |-> e1_skip, down |-> down]
    BY DEF Now
  <2>9. Now' = next
    BY <2>2 DEF Now
  <2>10. keys_down' \in [Key -> BOOLEAN] /\ capslock' \in BOOLEAN /\ numlock' \in BOOLEAN
    BY <1>0, <2>2
  <2> HIDE DEF down
  <2>5. CASE e1_skip > 0 /\ e1_skip' = e1_skip - 1 /\ UNCHANGED e0_pending
    <3>1. Handled(Now, Head(wire)) = next
      BY <2>4, <2>5 DEF Handled
    <3>2. e1_skip' \in 0 .. PauseBytes
      BY <1>0, <2>5 DEF PauseBytes
    <3> QED BY <1>0, <2>1, <2>9, <2>10, <2>5, <3>1, <3>2
  <2>6. CASE e1_skip = 0 /\ Head(wire) = E0 /\ e0_pending' = TRUE /\ UNCHANGED e1_skip
    <3>1. Handled(Now, Head(wire)) = next
      BY <2>4, <2>6 DEF Handled
    <3>2. e0_pending' \in BOOLEAN
      BY <2>6
    <3> QED BY ZenonT(30), <1>0, <2>1, <2>9, <2>10, <2>6, <3>1, <3>2
  <2>7. CASE e1_skip = 0 /\ Head(wire) = E1 /\ e1_skip' = PauseBytes /\ UNCHANGED e0_pending
    <3>1. E0 # E1
      BY DEF E0, E1
    <3>2. Handled(Now, Head(wire)) = next
      BY <2>4, <2>7, <3>1 DEF Handled
    <3>3. e1_skip' \in 0 .. PauseBytes
      BY <2>7 DEF PauseBytes
    <3> QED BY <1>0, <2>1, <2>9, <2>10, <2>7, <3>2, <3>3
  <2> QED BY <2>3, <2>5, <2>6, <2>7, ZenonT(30) DEF Prefix
<1>2. CASE IrqCode
  <2> DEFINE b == Head(wire)
             k == Decoded(b)
             down == {x \in Key : keys_down[x]}
  <2>1. /\ wire # <<>> /\ wire' = Tail(wire) /\ pressed' = pressed
        /\ e1_skip = 0 /\ e1_skip' = 0 /\ b # E0 /\ b # E1 /\ e0_pending' = FALSE
    BY <1>2 DEF IrqCode
  <2>2. b \in Bytes /\ b.up \in BOOLEAN
    <3>1. b \in Bytes
      BY <1>0, <2>1
    <3> HIDE DEF b
    <3> QED BY <3>1 DEF Bytes
  <2>3. k \in Key \cup {"NONE"} /\ "NONE" \notin Key
    BY DEF Decoded, scancode_to_keycode, extended_scancode_to_keycode, Key
  <2>4. KeyOf(Now, b) = k
    BY DEF KeyOf, Now, Decoded
  <2>5. IF k = "NONE" THEN UNCHANGED <<keys_down, capslock, numlock>>
        ELSE /\ capslock' = (capslock # (k = "CAPSLOCK" /\ ~b.up))
             /\ numlock' = (numlock # (k = "NUMLOCK" /\ ~b.up))
             /\ keys_down' = [keys_down EXCEPT ![k] = ~b.up]
    BY <1>2, ZenonT(30) DEF IrqCode
  <2> HIDE DEF k, b
  <2>6. capslock' \in BOOLEAN /\ numlock' \in BOOLEAN /\ keys_down' \in [Key -> BOOLEAN]
    BY ZenonT(30), <1>0, <2>2, <2>3, <2>5
  <2>7. {x \in Key : keys_down'[x]} = Moved(down, k, b.up)
    <3>1. CASE k = "NONE"
      BY <2>3, <2>5, <3>1 DEF Moved
    <3>2. CASE k # "NONE"
      <4>1. k \in Key /\ keys_down' = [keys_down EXCEPT ![k] = ~b.up]
        BY <2>3, <2>5, <3>2
      <4>2. \A x \in Key : keys_down'[x] = IF x = k THEN ~b.up ELSE keys_down[x]
        BY <1>0, <4>1
      <4> QED BY ZenonT(30), <2>2, <4>1, <4>2 DEF Moved
    <3> QED BY <3>1, <3>2
  <2>8. Handled(Now, b) = Settled(Moved(down, k, b.up))
    BY <2>1, <2>4 DEF Handled, Now
  <2>9. Now' = Settled({x \in Key : keys_down'[x]})
    BY ZenonT(30), <2>1 DEF Now, Settled
  <2>10. Now' = Handled(Now, b)
    BY <2>7, <2>8, <2>9
  <2>11. 0 \in 0 .. PauseBytes
    BY DEF PauseBytes
  <2> QED BY ZenonT(30), <2>1, <2>6, <2>10, <2>11 DEF b
<1> QED BY <1>1, <1>2

\* Every step keeps the invariant of the decoder.
LEMMA StepDecodes ==
    ASSUME TInv, [Next]_vars
    PROVE  TInv'
<1>1. RingOK'
  BY StepIsFifo DEF TInv
<1>2. /\ head' \in 0 .. Size - 1 /\ tail' \in 0 .. Size - 1
      /\ DOMAIN queue' = 0 .. Size - 1
  BY <1>1 DEF RingOK, Slots
<1>3. ASSUME NEW k \in Used, Press(k) \/ Release(k)
      PROVE  TInv'
  <2>1. UNCHANGED decoder
    BY <1>3, ZenonT(30) DEF Press, Release
  <2> QED BY <1>1, <1>2, <1>3, <2>1, KeyMoves DEF TInv, TypeOK, decoder
<1>4. CASE IrqPrefix \/ IrqCode
  <2>1. /\ wire # <<>> /\ wire' = Tail(wire) /\ pressed' = pressed
        /\ Now' = Handled(Now, Head(wire))
        /\ e0_pending' \in BOOLEAN /\ e1_skip' \in 0 .. PauseBytes
        /\ keys_down' \in [Key -> BOOLEAN] /\ capslock' \in BOOLEAN /\ numlock' \in BOOLEAN
    BY <1>4, HandlerSteps
  <2>2. wire \in Seq(Bytes) /\ Len(wire) <= MaxBehind + 6 /\ pressed \subseteq Key
    BY DEF TInv, TypeOK
  <2>3. wire' \in Seq(Bytes) /\ Len(wire') <= MaxBehind + 6
    BY <2>1, <2>2, KeyboardAssumption
  <2>4. PICK v : Run(v, wire, Now, Settled(pressed))
    BY DEF TInv, Decodes
  <2>5. \E z : Run(z, Tail(wire), Handled(Now, Head(wire)), Settled(pressed))
    BY <2>1, <2>2, <2>4, RunShifts
  <2>6. Decodes'
    BY <2>1, <2>5 DEF Decodes
  <2> QED BY <1>1, <1>2, <2>1, <2>2, <2>3, <2>6 DEF TInv, TypeOK
<1>5. CASE SysReadChar
  <2>1. UNCHANGED <<pressed, wire, decoder>>
    BY <1>5, ZenonT(30) DEF SysReadChar
  <2>2. Now' = Now
    BY <2>1 DEF Now, decoder
  <2>3. Decodes'
    BY <2>1, <2>2 DEF Decodes, TInv
  <2> QED BY <1>1, <1>2, <2>1, <2>3 DEF TInv, TypeOK, decoder
<1>6. CASE UNCHANGED vars
  <2>1. UNCHANGED <<pressed, wire, decoder>>
    BY <1>6, ZenonT(30) DEF vars
  <2>2. Now' = Now
    BY <2>1 DEF Now, decoder
  <2>3. Decodes'
    BY <2>1, <2>2 DEF Decodes, TInv
  <2> QED BY <1>1, <1>2, <2>1, <2>3 DEF TInv, TypeOK, decoder
<1> QED BY <1>3, <1>4, <1>5, <1>6, ZenonT(30) DEF Next

\* Before any key moves the decoder is at rest.
LEMMA DecodesFirst ==
    ASSUME Init
    PROVE  TInv
<1>1. RingOK
  BY KeyboardAssumption DEF Init, RingOK, Slots, Chars
<1>2. TypeOK /\ wire \in Seq(Bytes)
  <2>1. wire = <<>> /\ Len(wire) = 0 /\ wire \in Seq(Bytes) /\ MaxBehind \in Nat
    BY KeyboardAssumption DEF Init
  <2>2. keys_down \in [Key -> BOOLEAN]
    BY ZenonT(30) DEF Init
  <2>3. /\ pressed \subseteq Key /\ e0_pending \in BOOLEAN
        /\ capslock \in BOOLEAN /\ numlock \in BOOLEAN
    BY ZenonT(30) DEF Init
  <2>4. e1_skip \in 0 .. PauseBytes
    BY DEF Init, PauseBytes
  <2>5. /\ head \in 0 .. Size - 1 /\ tail \in 0 .. Size - 1
        /\ DOMAIN queue = 0 .. Size - 1
    BY <1>1 DEF RingOK, Slots
  <2>6. Len(wire) <= MaxBehind + 6
    BY <2>1
  <2> QED BY <2>1, <2>2, <2>3, <2>4, <2>5, <2>6 DEF TypeOK
<1>3. Now = Settled({}) /\ Settled({}) \in State /\ pressed = {} /\ wire = <<>>
  <2>1. {k \in Key : keys_down[k]} = {}
    BY ZenonT(30) DEF Init
  <2>2. e0_pending = FALSE /\ e1_skip = 0 /\ pressed = {} /\ wire = <<>>
    BY DEF Init
  <2>3. Now = Settled({})
    BY ZenonT(30), <2>1, <2>2 DEF Now, Settled
  <2>4. Settled({}) \in State
    BY DEF Settled, State, PauseBytes
  <2> QED BY <2>2, <2>3, <2>4
<1>4. Run([i \in 0 .. 0 |-> Settled({})], <<>>, Settled({}), Settled({}))
  BY <1>3 DEF Run
<1>5. Decodes
  BY <1>3, <1>4 DEF Decodes
<1> QED BY <1>1, <1>2, <1>5 DEF TInv

\* With no byte under way the run is empty, so the decoder is at rest with the
\* right keys.
LEMMA DecodedAll ==
    ASSUME TInv
    PROVE  KeysTracked
<1>1. SUFFICES ASSUME wire = <<>> PROVE {k \in Key : keys_down[k]} = pressed
  BY DEF TInv, KeysTracked
<1>2. PICK v : Run(v, <<>>, Now, Settled(pressed))
  BY <1>1 DEF TInv, Decodes
<1>3. Now = Settled(pressed)
  BY <1>2 DEF Run
<1> QED BY <1>3 DEF Now, Settled

\* keyboard_handler keeps keys_down in step with the keys, for every set of
\* keys, any number of presses, repeats and releases and any delay.
THEOREM KeysFollow == Spec => []KeysTracked
<1>1. Init => TInv
  BY DecodesFirst
<1>2. TInv /\ [Next]_vars => TInv'
  BY StepDecodes
<1>3. TInv => KeysTracked
  BY DecodedAll
<1> QED BY <1>1, <1>2, <1>3, PTL DEF Spec

=============================================================================
