----------------------------- MODULE FileBrowser -----------------------------
(***************************************************************************)
(* gui::WindowOpenFile (gui/window_open_file.hpp) over the tree that       *)
(* fs::Fs read at the start (fs/fs.hpp), and the tabs it opens files in.   *)
(* The browser is a modal window: while it is shown the tabs get no        *)
(* events.  The user's events of one RunOnce() come before it draws.       *)
(*                                                                         *)
(* m_selected counts from 0 and belongs to the browser, not to the list    *)
(* of the directory: it is kept when the list is replaced, and only an     *)
(* event on the list, or drawing it, brings it back into the list.         *)
(***************************************************************************)
EXTENDS ScriptTabs

CONSTANTS
  Dirs,      \* directories
  Top,       \* the directory the walk started in
  Contents,  \* ItemObj::m_contents of each directory
  AnyIndex   \* bound: what m_selected may hold before it is first set

\* The directory an item was found in: m_parent.
Parents(d) == {p \in Dirs : \E i \in DOMAIN Contents[p] : Contents[p][i] = d}

\* What walk_dir makes of a directory: a list of files and directories, each
\* directory walked in turn; every directory but the first was found in one.
IsWalk ==
  /\ DOMAIN Contents = Dirs
  /\ \A d \in Dirs : Contents[d] \in Seq(Files \union (Dirs \ {Top}))
  /\ \A d \in Dirs \ {Top} : \E p \in Dirs : Parents(d) = {p}

ASSUME TreeAssumption ==
  Dirs \cap Files = {} /\ Top \in Dirs /\ AnyIndex \subseteq Int /\ IsWalk

VARIABLES
  modal,   \* m_show_modal_open_file
  dir,     \* m_current_item
  entry,   \* m_selected
  drawn,   \* has the list of dir been drawn?
  gone     \* has the exception of at() ended the process?

browserVars == <<modal, dir, entry, drawn, gone>>
allBrowserVars == <<vars, browserVars>>

\* Every variable keeps its type, and a list that is drawn and not empty has its
\* selected entry in it.
BrowserTypeOK ==
  /\ TypeOK
  /\ modal \in BOOLEAN /\ drawn \in BOOLEAN /\ gone \in BOOLEAN
  /\ dir \in Dirs /\ entry \in Int
  /\ drawn /\ Contents[dir] # <<>> => entry \in 0 .. Len(Contents[dir]) - 1

BrowserInit ==
  /\ Init
  /\ modal = FALSE /\ dir = Top /\ entry \in AnyIndex /\ drawn = FALSE /\ gone = FALSE

\* ftxui's clamp to 0 .. size - 1: an empty list has no such entry, and what is
\* left is -1, or 0 if it was negative before.
Clamped(e) ==
  LET last == Len(Contents[dir]) - 1
  IN  IF e < 0 THEN 0 ELSE IF last < e THEN last ELSE e

-----------------------------------------------------------------------------
\* The menu's entry Open.
Show ==
  /\ ~modal /\ modal' = TRUE
  /\ UNCHANGED <<vars, dir, entry, drawn, gone>>

Draw ==
  /\ modal /\ ~drawn
  /\ drawn' = TRUE /\ entry' = Clamped(entry)
  /\ UNCHANGED <<vars, modal, dir, gone>>

\* A key that moves the selection.
Move ==
  /\ modal
  /\ \E by \in {-1, 1} : entry' = Clamped(Clamped(entry) + by)
  /\ UNCHANGED <<vars, modal, dir, drawn, gone>>

\* Mutant of Chosen: the index is read before the list has had the event.
ChosenFirst == {entry}

\* The entry Return or a click is about: the list gets the event first, and a
\* click is on an entry that was drawn.
Chosen == {Clamped(entry)} \union (IF drawn THEN 0 .. Len(Contents[dir]) - 1 ELSE {})

Item(e) == Contents[dir][e + 1]

\* Return or a click.
Enter ==
  /\ modal
  /\ \E e \in Chosen :
       /\ entry' = e
       /\ \/ /\ e < 0  \* at() throws
             /\ gone' = TRUE
             /\ UNCHANGED <<vars, modal, dir, drawn>>
          \/ /\ e >= Len(Contents[dir])
             /\ UNCHANGED <<vars, modal, dir, drawn, gone>>
          \/ /\ e \in 0 .. Len(Contents[dir]) - 1 /\ Item(e) \in Files
             /\ Open(Item(e))
             /\ modal' = FALSE
             /\ UNCHANGED <<dir, drawn, gone>>
          \/ /\ e \in 0 .. Len(Contents[dir]) - 1 /\ Item(e) \in Dirs
             /\ dir' = Item(e) /\ drawn' = FALSE
             /\ UNCHANGED <<vars, modal, gone>>

\* Backspace, which the list gets too, or the button "<".
GoBack ==
  /\ modal
  /\ entry' \in {entry, Clamped(entry)}
  /\ IF Parents(dir) = {} THEN UNCHANGED <<dir, drawn>>
     ELSE dir' \in Parents(dir) /\ drawn' = FALSE
  /\ UNCHANGED <<vars, modal, gone>>

\* Escape, which the list gets too, or the button "x".
Hide ==
  /\ modal /\ modal' = FALSE
  /\ entry' \in {entry, Clamped(entry)}
  /\ UNCHANGED <<vars, dir, drawn, gone>>

TabEvent == (\E i \in 0 .. Len(tabs) - 1 : Select(i)) \/ Close \/ SaveFails \/ Send

BrowserNext ==
  /\ proc = "up" /\ ~gone
  /\ \/ Show \/ Draw \/ Move \/ Enter \/ GoBack \/ Hide
     \/ ~modal /\ TabEvent /\ UNCHANGED browserVars
     \/ OnScript /\ UNCHANGED browserVars

BrowserSpec == BrowserInit /\ [][BrowserNext]_allBrowserVars

-----------------------------------------------------------------------------
\* The index that is kept from a longer list, or was never set, does not leave
\* the shorter one, whatever events come before the next drawing: at() throws in
\* an empty directory at most.
DiesInEmpty == gone => Contents[dir] = <<>>
=============================================================================
