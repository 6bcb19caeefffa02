----------------------------- MODULE WheelCursor -----------------------------
(***************************************************************************)
(* The mouse wheel over an editor (gui/window_tabs.cpp): set_next_line_pos *)
(* and set_prev_line_pos move the cursor, since ftxui scrolls to it.       *)
(* Positions count characters from 0; the cursor may stand behind the      *)
(* last.  npos is larger than any position, and m_text.size() - 1U of an   *)
(* empty text is npos too.                                                 *)
(***************************************************************************)
EXTENDS Integers, Sequences, FiniteSets

CONSTANTS MaxText   \* bound: characters in a text

ASSUME WheelAssumption == MaxText \in Nat

VARIABLES
  text,    \* m_text: newlines and other characters
  cursor   \* m_cursor_pos

wheelVars == <<text, cursor>>

Chars == {"newline", "other"}

\* Every variable keeps its type, and the cursor stays in the text.
WheelTypeOK ==
  /\ text \in Seq(Chars) /\ Len(text) <= MaxText
  /\ cursor \in 0 .. Len(text)

WheelInit == text = <<>> /\ cursor = 0

Newlines == {p \in 0 .. Len(text) - 1 : text[p + 1] = "newline"}
AtOrAfter(p) == {q \in Newlines : q >= p}
AtOrBefore(p) == {q \in Newlines : q <= p}
First(S) == CHOOSE q \in S : \A r \in S : q <= r
Last(S) == CHOOSE q \in S : \A r \in S : r <= q

\* set_next_line_pos: behind the newline that ends this line, unless that one is
\* the last character.
NextPos(c) ==
  LET found == AtOrAfter(c)
  IN  IF found # {} /\ First(found) < Len(text) - 1 THEN First(found) + 1 ELSE c

\* Mutant of PrevPos: the search starts at the cursor.
PrevPosFromCursor(c) ==
  LET found == AtOrBefore(c) IN IF c = 0 \/ found = {} THEN c ELSE Last(found)

\* set_prev_line_pos: on the newline that ends the line before.
PrevPos(c) ==
  LET found == AtOrBefore(c - 1) IN IF c = 0 \/ found = {} THEN c ELSE Last(found)

WheelDown == cursor' = NextPos(cursor) /\ UNCHANGED text
WheelUp == cursor' = PrevPos(cursor) /\ UNCHANGED text

\* ftxui's Input, external: a character, Backspace, the arrows.
Insert ==
  /\ Len(text) < MaxText
  /\ \E ch \in Chars :
       text' = SubSeq(text, 1, cursor) \o <<ch>> \o SubSeq(text, cursor + 1, Len(text))
  /\ cursor' = cursor + 1

Backspace ==
  /\ cursor > 0
  /\ text' = SubSeq(text, 1, cursor - 1) \o SubSeq(text, cursor + 1, Len(text))
  /\ cursor' = cursor - 1

Arrow ==
  /\ cursor' \in {cursor - 1, cursor + 1} \cap (0 .. Len(text))
  /\ UNCHANGED text

WheelNext == WheelDown \/ WheelUp \/ Insert \/ Backspace \/ Arrow

WheelSpec == WheelInit /\ [][WheelNext]_wheelVars

-----------------------------------------------------------------------------
\* The line a position is on, from 0.
LineOf(p) == Cardinality(AtOrBefore(p - 1))

\* From wherever the keys have left the cursor, the wheel goes exactly one line
\* up, to the first line, and one line down, to the last one (or, when a newline
\* ends the text, to the line which that one ends).
WheelGoesOn ==
  /\ LineOf(PrevPos(cursor)) = (IF LineOf(cursor) = 0 THEN 0 ELSE LineOf(cursor) - 1)
  /\ LET end == IF text # <<>> /\ text[Len(text)] = "newline" THEN Len(text) - 1 ELSE Len(text)
     IN  LineOf(NextPos(cursor)) = LineOf(cursor) + (IF LineOf(cursor) < LineOf(end) THEN 1 ELSE 0)
=============================================================================
