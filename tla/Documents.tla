------------------------------ MODULE Documents ------------------------------
(***************************************************************************)
(* The texts behind the tabs of ScriptTabs: read from their files when a   *)
(* tab is opened, edited and saved (gui/window_tabs.cpp, fs/fs.hpp).       *)
(* Files outlive the process, which may be killed at any moment and        *)
(* started again, and other programs write them too.  write_file()         *)
(* truncates the file before it writes, and nobody asks whether the        *)
(* writing went well; a file that cannot be read opens as an empty text.   *)
(***************************************************************************)
EXTENDS ScriptTabs

CONSTANTS
  Texts,      \* what a file or an editor may hold
  Empty,      \* the empty text
  MaxEvents   \* bound: edits, saves, outside changes and deaths

ASSUME DocumentsAssumption ==
  Empty \in Texts /\ MaxEvents \in Nat

VARIABLES
  disk,      \* contents of the files
  body,      \* m_text of the tabs that were opened, by their numbers
  base,      \* history: what a tab knows its file to hold
  saving,    \* the save that write_file is in the middle of, or None
  crossed,   \* history: files that were open in two tabs, that another program
             \* wrote, or that could not be read
  clobbered, \* history: files in which a save overwrote what its tab had not seen
  events     \* events so far

docVars == <<disk, body, base, saving, crossed, clobbered, events>>
allDocVars == <<vars, docVars>>

Ids == 3 .. MaxOpened + 2
None == [none |-> TRUE]

\* Every variable keeps its type.
DocsTypeOK ==
  /\ TypeOK
  /\ disk \in [Files -> Texts]
  /\ body \in [Ids -> Texts] /\ base \in [Ids -> Texts]
  /\ saving \in [id : Ids, file : Files] \union {None}
  /\ crossed \subseteq Files /\ clobbered \subseteq Files
  /\ events \in 0 .. MaxEvents

DocsInit ==
  /\ Init
  /\ disk \in [Files -> Texts]
  /\ body = [i \in Ids |-> Empty] /\ base = body
  /\ saving = None /\ crossed = {} /\ clobbered = {} /\ events = 0

Happens == events < MaxEvents /\ events' = events + 1

\* The worker is free for the next event.
Idle == proc = "up" /\ saving = None

IsOpen(f) == \E k \in 1 .. Len(tabs) : tabs[k].file = f

-----------------------------------------------------------------------------
\* A tab is opened with what read_file() returns, or empty.
OpenDoc(f) ==
  /\ Idle /\ Open(f)
  /\ \E t \in {disk[f], Empty} :
       /\ body' = [body EXCEPT ![opened'+ 2] = t]
       /\ base' = [base EXCEPT ![opened'+ 2] = t]
       /\ crossed' = IF IsOpen(f) \/ t # disk[f] THEN crossed \union {f} ELSE crossed
  /\ UNCHANGED <<disk, saving, clobbered, events>>

Type ==
  /\ Idle /\ IsProgram(Shown) /\ Happens
  /\ \E t \in Texts \ {body[Shown.id]} : body' = [body EXCEPT ![Shown.id] = t]
  /\ UNCHANGED <<vars, disk, base, saving, crossed, clobbered>>

\* Mutant of Target: the file of the tab opened last.
TargetLast == tabs[Len(tabs)].file

\* The file Save writes: m_file of the tab that is shown.
Target == Shown.file

\* write_file opens its file, which truncates it ...
Save ==
  /\ Idle /\ IsProgram(Shown) /\ Happens
  /\ saving' = [id |-> Shown.id, file |-> Target]
  /\ disk' = [disk EXCEPT ![Target] = Empty]
  /\ clobbered' = IF disk[Target] # base[Shown.id] THEN clobbered \union {Target} ELSE clobbered
  /\ UNCHANGED <<vars, body, base, crossed>>

\* ... and the text is written when the stream goes, or it is not.
Write ==
  /\ proc = "up" /\ saving # None
  /\ saving' = None
  /\ disk' \in {disk, [disk EXCEPT ![saving.file] = body[saving.id]]}
  /\ base' = [base EXCEPT ![saving.id] = disk'[saving.file]]
  /\ UNCHANGED <<vars, body, crossed, clobbered, events>>

\* What the tabs do besides: Close, the menu on the left, and a Save that cannot
\* open its file.
TabsDoc ==
  /\ Idle
  /\ Close \/ SaveFails \/ \E i \in 0 .. Len(tabs) - 1 : Select(i)
  /\ UNCHANGED docVars

-----------------------------------------------------------------------------
\* Another program writes a file.
Outside ==
  /\ Happens
  /\ \E f \in Files : \E t \in Texts \ {disk[f]} :
       /\ disk' = [disk EXCEPT ![f] = t]
       /\ crossed' = crossed \union {f}
  /\ UNCHANGED <<vars, body, base, saving, clobbered>>

\* The process is killed, in the middle of a save or not.
Killed ==
  /\ proc = "up" /\ Happens
  /\ proc' = "dead"
  /\ UNCHANGED <<tabs, selected, opened, pending, sent>>
  /\ UNCHANGED <<disk, body, base, saving, crossed, clobbered>>

\* It is started again, with the fixed tabs only.
Restart ==
  /\ proc = "dead"
  /\ tabs' = <<FixedTab(1), FixedTab(2)>> /\ selected' = 0 /\ proc' = "up"
  /\ saving' = None
  /\ UNCHANGED <<opened, pending, sent, disk, body, base, crossed, clobbered, events>>

DocsNext ==
  \/ \E f \in Files : OpenDoc(f)
  \/ Type \/ Save \/ Write \/ TabsDoc
  \/ Outside \/ Killed \/ Restart

DocsSpec == DocsInit /\ [][DocsNext]_allDocVars

-----------------------------------------------------------------------------
\* A save overwrites what its tab has never shown only in a file that two tabs
\* had open, that another program wrote, or that could not be read: neither
\* stale indices of tabs, nor a save cut short by a death, nor one that did not
\* write what it should lead there.
Clobbers == clobbered \subseteq crossed
=============================================================================
