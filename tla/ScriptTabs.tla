------------------------------ MODULE ScriptTabs ------------------------------
(***************************************************************************)
(* gui::WindowTabs (gui/window_tabs.cpp): the tabs of the main window.     *)
(* "returns" and "settings" are there from the start; each file that is    *)
(* opened gets a tab with the buttons Close, Save and Send.  Everything    *)
(* here runs on the worker thread: the user's events inside one RunOnce()  *)
(* of Gui::on_loop, and Device's handler of sig_send_script afterwards.    *)
(*                                                                         *)
(* m_tabs_names and m_tabs_contents only change together and are one       *)
(* sequence here.  Positions in it count from 1, the program's indices     *)
(* from 0.                                                                 *)
(***************************************************************************)
EXTENDS Integers, Sequences

CONSTANTS
  Files,       \* files the browser offers
  Garbage,     \* whatever freed memory holds
  MaxOpened,   \* bound: tabs opened
  MaxPending   \* bound: scripts sent and not yet served

ASSUME TabsAssumption ==
  Garbage \notin Files /\ MaxOpened \in Nat /\ MaxPending \in Nat

VARIABLES
  tabs,      \* the tabs, from left to right
  selected,  \* m_selected: the index of the tab that is shown
  opened,    \* tabs opened so far
  proc,      \* "dead" once undefined behaviour or an exception killed the process
  pending,   \* files whose sig_send_script is in the queue, oldest first
  sent       \* the last script Device sent: its file, and the name in its packet

vars == <<tabs, selected, opened, proc, pending, sent>>

\* A tab: its number (1 and 2 are the fixed ones), the index its Close button
\* captured, its file, and (history) whether a tab to its left was ever removed.
Tab == [id : Nat, index : Nat, file : Files \union {Garbage}, moved : BOOLEAN]
Nothing == [file |-> Garbage, name |-> Garbage]

FixedTab(id) == [id |-> id, index |-> id - 1, file |-> Garbage, moved |-> FALSE]

\* Every variable keeps its type; the selected tab exists.
TypeOK ==
  /\ tabs \in Seq(Tab)
  /\ selected \in 0 .. Len(tabs) - 1
  /\ opened \in Nat
  /\ proc \in {"up", "dead"}
  /\ pending \in Seq(Files)
  /\ sent \in [file : Files \union {Garbage}, name : Files \union {Garbage}]

Init ==
  /\ tabs = <<FixedTab(1), FixedTab(2)>>
  /\ selected = 0
  /\ opened = 0
  /\ proc = "up"
  /\ pending = <<>>
  /\ sent = Nothing

Shown == tabs[selected + 1]
IsProgram(t) == t.id > 2

\* Mutant of CapturedIndex: an index from 1.
IndexFromOne == Len(tabs) + 1

\* The index add_programm_tab hands to a new tab: m_tabs_names.size().
CapturedIndex == Len(tabs)

\* add_programm_tab, from the file browser.
Open(f) ==
  /\ opened < MaxOpened
  /\ opened' = opened + 1
  /\ tabs' = Append(tabs, [id |-> opened + 3, index |-> CapturedIndex, file |-> f, moved |-> FALSE])
  /\ UNCHANGED <<selected, proc, pending, sent>>

\* The menu on the left.
Select(i) ==
  /\ selected' = i
  /\ UNCHANGED <<tabs, opened, proc, pending, sent>>

\* Mutant of Erase: m_selected may be left past the end.
EraseKeepsSelected(k) ==
  /\ tabs' = [i \in 1 .. Len(tabs) - 1 |->
                IF i < k THEN tabs[i] ELSE [tabs[i + 1] EXCEPT !.moved = TRUE]]
  /\ UNCHANGED selected

\* Erasing the tab at position k: those to its right move.  The menu keeps
\* m_selected inside the list.
Erase(k) ==
  /\ tabs' = [i \in 1 .. Len(tabs) - 1 |->
                IF i < k THEN tabs[i] ELSE [tabs[i + 1] EXCEPT !.moved = TRUE]]
  /\ selected' = IF selected < Len(tabs) - 1 THEN selected ELSE Len(tabs) - 2

\* Close on the tab that is shown erases at the index captured when the tab was
\* opened.  Past the end that is undefined: the process dies, or (as a vector
\* does that checks nothing) the last tab goes.
Close ==
  /\ IsProgram(Shown)
  /\ \/ /\ Shown.index < Len(tabs)
        /\ Erase(Shown.index + 1)
        /\ UNCHANGED proc
     \/ /\ Shown.index >= Len(tabs)
        /\ Erase(Len(tabs))
        /\ UNCHANGED proc
     \/ /\ Shown.index >= Len(tabs)
        /\ proc' = "dead"
        /\ UNCHANGED <<tabs, selected>>
  /\ UNCHANGED <<opened, pending, sent>>

\* Save: write_file throws when the file cannot be opened, and on_loop is
\* noexcept.
SaveFails ==
  /\ IsProgram(Shown)
  /\ proc' = "dead"
  /\ UNCHANGED <<tabs, selected, opened, pending, sent>>

\* Send: Gui posts sig_send_script with string views of the name and the text.
Send ==
  /\ IsProgram(Shown) /\ Len(pending) < MaxPending
  /\ pending' = Append(pending, Shown.file)
  /\ UNCHANGED <<tabs, selected, opened, proc, sent>>

\* Device::on_script.  The name was a temporary of send_script's lambda: what is
\* read is freed memory, which may still hold it.
OnScript ==
  /\ pending # <<>>
  /\ pending' = Tail(pending)
  /\ \E name \in {Head(pending), Garbage} : sent' = [file |-> Head(pending), name |-> name]
  /\ UNCHANGED <<tabs, selected, opened, proc>>

Next ==
  /\ proc = "up"
  /\ \/ \E f \in Files : Open(f)
     \/ \E i \in 0 .. Len(tabs) - 1 : Select(i)
     \/ Close \/ SaveFails \/ Send \/ OnScript

Spec == Init /\ [][Next]_vars

-----------------------------------------------------------------------------
\* "returns" and "settings" cannot be closed: no sequence of opening and closing
\* makes a captured index point at them.
FixedTabsStay == Len(tabs) >= 2 /\ tabs[1] = FixedTab(1) /\ tabs[2] = FixedTab(2)

\* The captured index is the tab's place until a tab to its left is removed;
\* from then on it points to the right of the tab, for ever.
Aim ==
  \A p \in 1 .. Len(tabs) :
    IF tabs[p].moved THEN tabs[p].index > p - 1 ELSE tabs[p].index = p - 1

\* Close never removes a tab to the left of the one it was pressed on, and
\* removes the tab it was pressed on if none to its left was ever removed.
CloseAims ==
  [][Len(tabs') < Len(tabs) =>
       /\ \A p \in 1 .. selected : tabs'[p] = tabs[p]
       /\ ~Shown.moved => \A p \in 1 .. Len(tabs') : tabs'[p].id # Shown.id]_vars

\* The packet SCRIPT_NAME (device/protocol.hpp), which ends a script, names it.
NameIsFiles == sent.name = sent.file
=============================================================================
