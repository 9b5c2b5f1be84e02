----------------------------- MODULE TextBuffer -----------------------------
(***************************************************************************)
(* What the text of an editor promises: a sequence of characters with a    *)
(* cursor between two of them.  Typing and deleting happen at the cursor,  *)
(* moving it changes nothing else, and moving up or down keeps the column  *)
(* as far as the other line reaches.                                       *)
(***************************************************************************)
EXTENDS Integers, SequencesExt, FiniteSetsExt

CONSTANTS
    Char,       \* the characters
    NL,         \* the one that ends a line
    Capacity    \* how many a text may have

VARIABLES
    open,           \* the text is being edited
    before, after   \* the characters in front of and behind the cursor

vars == <<open, before, after>>

Whole == before \o after

\* Offsets at which lines start and end, and the column of an offset.
Starts == {0} \cup {i \in 1 .. Len(Whole) : Whole[i] = NL}
StartOf(k) == Max({s \in Starts : s <= k})
EndOf(s) == Min({Len(Whole)} \cup {i \in s .. Len(Whole) - 1 : Whole[i + 1] = NL})
Column == Len(before) - StartOf(Len(before))

MoveTo(k) ==
    /\ before' = SubSeq(Whole, 1, k)
    /\ after' = SubSeq(Whole, k + 1, Len(Whole))

\* The place on the line that starts at s, below or above the cursor's.
Same(s) == Min({s + Column, EndOf(s)})

Loaded(s) == s \in Seq(Char) /\ Len(s) < Capacity

Init == ~open /\ before = <<>> /\ after = <<>>

\* A file is opened, with the cursor behind its text.
Load == ~open /\ open' /\ Loaded(before') /\ after' = <<>>

Insert(c) ==
    /\ Len(Whole) < Capacity
    /\ before' = Append(before, c) /\ UNCHANGED after

Delete ==
    /\ before # <<>>
    /\ before' = Front(before) /\ UNCHANGED after

Left == before # <<>> /\ MoveTo(Len(before) - 1)
Right == after # <<>> /\ MoveTo(Len(before) + 1)
Down == \E s \in Starts : /\ s > Len(before) /\ StartOf(s - 1) = StartOf(Len(before))
                          /\ MoveTo(Same(s))
Up == \E s \in Starts : /\ EndOf(s) + 1 = StartOf(Len(before))
                        /\ MoveTo(Same(s))

Edit ==
    \/ \E c \in Char : Insert(c)
    \/ Delete \/ Left \/ Right \/ Down \/ Up

\* Saving, which moves the cursor behind the text, and leaving the editor.
ToEnd == MoveTo(Len(Whole))

Next ==
    \/ open /\ open' /\ (Edit \/ ToEnd)
    \/ open /\ ~open' /\ (ToEnd \/ UNCHANGED <<before, after>>)
    \/ Load

Spec == Init /\ [][Next]_vars
=============================================================================
