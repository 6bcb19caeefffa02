-------------------------------- MODULE Logger --------------------------------
(***************************************************************************)
(* The log (gui/logger.cpp): a window of the last lines, shown as a menu   *)
(* whose selected entry follows the end while it is there.  A line is its  *)
(* number; line 0 is the "Start" of the constructor.  Entries are counted  *)
(* from 0, as m_selected does.                                             *)
(***************************************************************************)
EXTENDS Integers, Sequences

CONSTANTS LogLimit  \* the 50 of AddMessage: more lines than that and one is dropped

ASSUME LoggerAssumption == LogLimit \in Nat \ {0}

VARIABLES
  text,      \* m_text
  selected   \* m_selected

logVars == <<text, selected>>

LoggerInit == text = <<0>> /\ selected = 0

\* What is left of the text before a line is added.
Kept == IF Len(text) > LogLimit THEN Tail(text) ELSE text

\* Mutant of Follows: the entry behind the last one is taken for the last.
FollowsBehind(size) == IF selected = size THEN size ELSE selected

\* The entry that is selected once a line was put behind `size` others: the new
\* one if the last one was.
Follows(size) == IF selected = size - 1 THEN size ELSE selected

\* Logger::AddMessage.
AddMessage(line) ==
  /\ text' = Append(Kept, line)
  /\ selected' = Follows(Len(Kept))

\* A key or the wheel on the menu.
Select(e) ==
  /\ e \in 0 .. Len(text) - 1 /\ e # selected
  /\ selected' = e
  /\ UNCHANGED text

-----------------------------------------------------------------------------
\* An entry is always selected, and the window is never longer than its limit.
LoggerTypeOK == text \in Seq(Nat) /\ Len(text) \in 1 .. LogLimit + 1 /\ selected \in 0 .. Len(text) - 1

AtEnd == selected = Len(text) - 1

\* A new line leaves whoever reads the end at the end.  Whoever reads elsewhere
\* keeps his line until the log is full; from then on every new line carries him
\* one line on, and from the last line but one to the new end.  It never carries
\* him back or past a line.
ReaderKept ==
  [][text' # text =>
       /\ AtEnd => AtEnd'
       /\ ~AtEnd /\ Len(text') > Len(text) => text'[selected' + 1] = text[selected + 1]
       /\ ~AtEnd /\ Len(text') = Len(text) =>
            IF selected = Len(text) - 2 THEN AtEnd'
            ELSE text'[selected' + 1] = text[selected + 2]]_logVars
=============================================================================
