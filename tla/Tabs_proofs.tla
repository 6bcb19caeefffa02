------------------------------ MODULE Tabs_proofs ------------------------------
(***************************************************************************)
(* Proofs about the tabs (ScriptTabs), the browser that opens files in     *)
(* them (FileBrowser), the texts behind them (Documents) and the wheel     *)
(* over a text (WheelCursor), for every number of tabs, files, directories *)
(* and texts.                                                              *)
(***************************************************************************)
EXTENDS MCEditor, FileBrowser, FiniteSetTheorems, WellFoundedInduction, TLAPS

\* Behind the fixed tabs there are only tabs of files.
ProgramTabs == \A p \in 3 .. Len(tabs) : IsProgram(tabs[p]) /\ tabs[p].file \in Files

\* The inductive invariant: types, the fixed tabs and the others, and where
\* indices point.
TabsInv == TypeOK /\ FixedTabsStay /\ ProgramTabs /\ Aim

\* The start has the two fixed tabs only.
LEMMA TabsInvInit == Init => TabsInv
<1> SUFFICES ASSUME Init PROVE TabsInv
  OBVIOUS
<1>1. FixedTab(1) \in Tab /\ FixedTab(2) \in Tab
  BY DEF FixedTab, Tab
<1>2. tabs \in Seq(Tab) /\ Len(tabs) = 2 /\ tabs[1] = FixedTab(1) /\ tabs[2] = FixedTab(2)
  BY <1>1 DEF Init
<1>3. TypeOK
  BY <1>2 DEF Init, TypeOK, Nothing
<1>4. FixedTabsStay
  BY <1>2 DEF FixedTabsStay
<1>5. Aim
  <2> SUFFICES ASSUME NEW p \in 1 .. Len(tabs)
               PROVE  ~tabs[p].moved /\ tabs[p].index = p - 1
    BY DEF Aim
  <2>1. p = 1 \/ p = 2
    BY <1>2
  <2> QED BY <1>2, <2>1 DEF FixedTab
<1>6. ProgramTabs
  BY <1>2 DEF ProgramTabs
<1> QED BY <1>3, <1>4, <1>5, <1>6 DEF TabsInv

\* What a tab that slides one place to the left keeps.
LEMMA SlideTab ==
  ASSUME NEW t \in Tab
  PROVE  LET u == [t EXCEPT !.moved = TRUE]
         IN  u \in Tab /\ u.moved /\ u.index = t.index /\ u.id = t.id /\ u.file = t.file
  BY DEF Tab

\* Erasing a tab that is not a fixed one keeps the invariant.
LEMMA EraseKeeps ==
  ASSUME TabsInv, NEW k \in 3 .. Len(tabs), Erase(k), UNCHANGED <<opened, pending, sent>>,
         proc' \in {"up", "dead"}
  PROVE  TabsInv'
<1> DEFINE n == Len(tabs)
<1>0. /\ tabs \in Seq(Tab) /\ n \in Nat /\ n >= 3 /\ k \in Nat
      /\ \A i \in 1 .. n : tabs[i] \in Tab
  BY DEF TabsInv, TypeOK
<1>1. /\ tabs' = [i \in 1 .. n - 1 |-> IF i < k THEN tabs[i] ELSE [tabs[i + 1] EXCEPT !.moved = TRUE]]
      /\ n - 1 \in Nat
  BY <1>0 DEF Erase
<1>2. \A i \in 1 .. n - 1 : tabs'[i] \in Tab
  <2> TAKE i \in 1 .. n - 1
  <2>1. i \in 1 .. n /\ i + 1 \in 1 .. n
    BY <1>0
  <2> QED BY <1>0, <1>1, <2>1, SlideTab
<1>3. tabs' \in Seq(Tab) /\ Len(tabs') = n - 1
  BY <1>1, <1>2
<1>4. TypeOK'
  <2>1. selected' \in 0 .. Len(tabs') - 1
    BY <1>0, <1>3 DEF Erase, TabsInv, TypeOK
  <2> QED BY <1>3, <2>1 DEF TabsInv, TypeOK
<1>5. FixedTabsStay'
  <2>1. 1 \in 1 .. n - 1 /\ 2 \in 1 .. n - 1 /\ 1 < k /\ 2 < k
    BY <1>0
  <2>2. tabs'[1] = tabs[1] /\ tabs'[2] = tabs[2]
    BY <1>1, <2>1
  <2> QED BY <1>0, <1>3, <2>2 DEF TabsInv, FixedTabsStay
<1>6. Aim'
  <2> SUFFICES ASSUME NEW p \in 1 .. n - 1
               PROVE  IF tabs'[p].moved THEN tabs'[p].index > p - 1 ELSE tabs'[p].index = p - 1
    BY <1>3 DEF Aim
  <2>1. p \in 1 .. n /\ p + 1 \in 1 .. n
    BY <1>0
  <2>2. CASE p < k
    <3>1. tabs'[p] = tabs[p]
      BY <1>1, <2>2
    <3> QED BY <2>1, <3>1 DEF TabsInv, Aim
  <2>3. CASE p >= k
    <3>1. tabs'[p].moved /\ tabs'[p].index = tabs[p + 1].index /\ tabs[p + 1] \in Tab
      BY <1>0, <1>1, <2>1, <2>3, SlideTab
    <3>2. tabs[p + 1].index > p - 1
      <4>1. tabs[p + 1].index \in Nat
        BY <3>1 DEF Tab
      <4> QED BY <2>1, <4>1 DEF TabsInv, Aim
    <3> QED BY <3>1, <3>2
  <2> QED BY <1>0, <2>2, <2>3
<1>7. ProgramTabs'
  <2> SUFFICES ASSUME NEW p \in 3 .. n - 1
               PROVE  IsProgram(tabs'[p]) /\ tabs'[p].file \in Files
    BY <1>3 DEF ProgramTabs, IsProgram
  <2>1. p \in 1 .. n - 1 /\ p \in 3 .. n /\ p + 1 \in 3 .. n /\ p + 1 \in 1 .. n
    BY <1>0
  <2>2. \/ tabs'[p].id = tabs[p].id /\ tabs'[p].file = tabs[p].file
        \/ tabs'[p].id = tabs[p + 1].id /\ tabs'[p].file = tabs[p + 1].file
    BY <1>0, <1>1, <2>1, SlideTab
  <2> QED BY <2>1, <2>2 DEF TabsInv, ProgramTabs, IsProgram
<1> QED BY <1>4, <1>5, <1>6, <1>7 DEF TabsInv

\* A tab that is opened points at its own place.
LEMMA OpenKeeps ==
  ASSUME TabsInv, NEW f \in Files, Open(f)
  PROVE  TabsInv'
<1> DEFINE n == Len(tabs)
           t == [id |-> opened + 3, index |-> n, file |-> f, moved |-> FALSE]
<1>0. tabs \in Seq(Tab) /\ n \in Nat /\ opened \in Nat
  BY DEF TabsInv, TypeOK
<1>1. t \in Tab /\ tabs' = Append(tabs, t)
  BY <1>0 DEF Open, CapturedIndex, Tab
<1>2. /\ tabs' \in Seq(Tab) /\ Len(tabs') = n + 1 /\ tabs'[n + 1] = t
      /\ \A i \in 1 .. n : tabs'[i] = tabs[i]
  BY <1>0, <1>1
<1>3. TypeOK'
  BY <1>0, <1>2 DEF Open, TabsInv, TypeOK
<1>4. FixedTabsStay'
  <2>1. n >= 2
    BY DEF TabsInv, FixedTabsStay
  <2>2. tabs'[1] = tabs[1] /\ tabs'[2] = tabs[2]
    BY <1>0, <1>2, <2>1
  <2> QED BY <1>0, <1>2, <2>1, <2>2 DEF TabsInv, FixedTabsStay
<1>5. Aim'
  <2> SUFFICES ASSUME NEW p \in 1 .. n + 1
               PROVE  IF tabs'[p].moved THEN tabs'[p].index > p - 1 ELSE tabs'[p].index = p - 1
    BY <1>2 DEF Aim
  <2>1. CASE p = n + 1 BY <1>0, <1>2, <2>1
  <2>2. CASE p # n + 1
    <3>1. p \in 1 .. n
      BY <1>0, <2>2
    <3> QED BY <1>2, <3>1 DEF TabsInv, Aim
  <2> QED BY <2>1, <2>2
<1>6. ProgramTabs'
  <2> SUFFICES ASSUME NEW p \in 3 .. n + 1
               PROVE  IsProgram(tabs'[p]) /\ tabs'[p].file \in Files
    BY <1>2 DEF ProgramTabs, IsProgram
  <2>1. CASE p = n + 1
    BY <1>0, <1>2, <2>1 DEF IsProgram
  <2>2. CASE p # n + 1
    <3>1. p \in 3 .. n /\ p \in 1 .. n
      BY <1>0, <2>2
    <3> QED BY <1>2, <3>1 DEF TabsInv, ProgramTabs, IsProgram
  <2> QED BY <2>1, <2>2
<1> QED BY <1>3, <1>4, <1>5, <1>6 DEF TabsInv

\* The tab that is shown is in the list; a program tab is behind the fixed ones.
LEMMA ShownPlace ==
  ASSUME TabsInv
  PROVE  /\ selected + 1 \in 1 .. Len(tabs) /\ Shown \in Tab
         /\ IsProgram(Shown) => selected + 1 >= 3 /\ Shown.file \in Files
<1>1. selected + 1 \in 1 .. Len(tabs) /\ Shown \in Tab
  BY DEF TabsInv, TypeOK, Shown
<1>2. ASSUME selected + 1 < 3 PROVE ~IsProgram(Shown)
  <2>1. selected + 1 = 1 \/ selected + 1 = 2
    BY <1>1, <1>2
  <2> QED BY <1>1, <2>1 DEF TabsInv, FixedTabsStay, FixedTab, Shown, IsProgram
<1>3. ASSUME selected + 1 >= 3 PROVE Shown.file \in Files
  <2>1. selected + 1 \in 3 .. Len(tabs)
    BY <1>1, <1>3
  <2> QED BY <2>1 DEF TabsInv, ProgramTabs, Shown
<1>4. selected + 1 \in Int
  BY DEF TabsInv, TypeOK
<1> QED BY <1>1, <1>2, <1>3, <1>4

\* A Close that erases does so at the tab it was pressed on or to the right.
LEMMA CloseErases ==
  ASSUME TabsInv, Close, tabs' # tabs
  PROVE  \E k \in 3 .. Len(tabs) : Erase(k) /\ k >= selected + 1 /\ (~Shown.moved => k = selected + 1)
<1> DEFINE p == selected + 1
<1>1. p \in 1 .. Len(tabs) /\ Shown \in Tab /\ p >= 3 /\ Len(tabs) \in Nat
  BY ShownPlace DEF Close, TabsInv, TypeOK
<1>2. Shown.index \in Nat /\ Shown.moved \in BOOLEAN
  BY <1>1 DEF Tab
<1>3. IF Shown.moved THEN Shown.index > p - 1 ELSE Shown.index = p - 1
  BY <1>1 DEF TabsInv, Aim, Shown
<1>4. CASE Shown.index < Len(tabs) /\ Erase(Shown.index + 1)
  <2>1. Shown.index + 1 \in 3 .. Len(tabs) /\ Shown.index + 1 >= p
    BY <1>1, <1>2, <1>3, <1>4
  <2> QED BY <1>1, <1>2, <1>3, <1>4, <2>1
<1>5. CASE Shown.index >= Len(tabs) /\ Erase(Len(tabs))
  <2>1. Shown.moved
    BY <1>1, <1>2, <1>3, <1>5
  <2> QED BY <1>1, <1>5, <2>1
<1> QED BY <1>4, <1>5 DEF Close

\* Each step keeps the invariant.
LEMMA TabsInvStep == TabsInv /\ [Next]_vars => TabsInv'
<1> SUFFICES ASSUME TabsInv, [Next]_vars PROVE TabsInv'
  OBVIOUS
<1>1. CASE UNCHANGED tabs
  <2>1. selected' \in 0 .. Len(tabs) - 1 /\ opened' \in Nat /\ proc' \in {"up", "dead"}
    <3>0. /\ selected \in 0 .. Len(tabs) - 1 /\ opened \in Nat /\ proc \in {"up", "dead"}
          /\ Len(tabs) \in Nat /\ Len(tabs) >= 2
      BY DEF TabsInv, TypeOK, FixedTabsStay
    <3>1. CASE Close
      BY <3>0, <3>1 DEF Close, Erase
    <3>2. CASE \E f \in Files : Open(f)
      BY <3>0, <3>2 DEF Open
    <3>3. CASE \E i \in 0 .. Len(tabs) - 1 : Select(i)
      BY <3>0, <3>3 DEF Select
    <3>4. CASE SaveFails \/ Send \/ OnScript \/ UNCHANGED vars
      BY <3>0, <3>4 DEF SaveFails, Send, OnScript, vars
    <3> QED BY <3>1, <3>2, <3>3, <3>4 DEF Next
  <2>2. /\ pending' \in Seq(Files)
        /\ sent' \in [file : Files \union {Garbage}, name : Files \union {Garbage}]
    <3>0. pending \in Seq(Files) /\ sent \in [file : Files \union {Garbage}, name : Files \union {Garbage}]
      BY DEF TabsInv, TypeOK
    <3>1. CASE Send
      <4>1. Shown.file \in Files
        BY ShownPlace, <3>1 DEF Send
      <4> QED BY <3>0, <3>1, <4>1 DEF Send
    <3>2. CASE OnScript
      BY <3>0, <3>2 DEF OnScript
    <3>3. CASE UNCHANGED <<pending, sent>>
      BY <3>0, <3>3
    <3> QED BY <3>1, <3>2, <3>3 DEF Next, vars, Open, Select, Close, SaveFails
  <2> QED BY <1>1, <2>1, <2>2 DEF TabsInv, TypeOK, FixedTabsStay, ProgramTabs, IsProgram, Aim
<1>2. ASSUME NEW f \in Files, Open(f) PROVE TabsInv'
  BY <1>2, OpenKeeps
<1>3. CASE Close /\ tabs' # tabs
  <2>1. UNCHANGED <<opened, pending, sent>> /\ proc' \in {"up", "dead"}
    BY <1>3 DEF Close, TabsInv, TypeOK
  <2> QED BY <1>3, <2>1, CloseErases, EraseKeeps
<1> QED BY <1>1, <1>2, <1>3 DEF Next, vars, Select, SaveFails, Send, OnScript

\* The invariant holds in every state.
LEMMA TabsAlways == Spec => []TabsInv
  BY TabsInvInit, TabsInvStep, PTL DEF Spec

\* Every variable of the tabs keeps its type.
THEOREM Typing == Spec => []TypeOK
<1>1. TabsInv => TypeOK
  BY DEF TabsInv
<1> QED BY <1>1, TabsAlways, PTL

\* "returns" and "settings" are the first two tabs, for ever.
THEOREM FixedTabs == Spec => []FixedTabsStay
<1>1. TabsInv => FixedTabsStay
  BY DEF TabsInv
<1> QED BY <1>1, TabsAlways, PTL

\* A captured index is right until a tab to the left is removed, and then
\* points to the right of its tab.
THEOREM Aims == Spec => []Aim
<1>1. TabsInv => Aim
  BY DEF TabsInv
<1> QED BY <1>1, TabsAlways, PTL

-----------------------------------------------------------------------------
\* Tabs are numbered in the order they were opened, from left to right: a tab
\* that is removed leaves no other with its number.
Numbered ==
  /\ \A p \in 1 .. Len(tabs) : tabs[p].id < opened + 3
  /\ \A p, q \in 1 .. Len(tabs) : p < q => tabs[p].id < tabs[q].id

\* What the invariant says of the elements of the list.
LEMMA TabFields ==
  ASSUME TabsInv
  PROVE  /\ tabs \in Seq(Tab) /\ Len(tabs) \in Nat /\ opened \in Nat
         /\ \A i \in 1 .. Len(tabs) : tabs[i] \in Tab /\ tabs[i].id \in Nat
<1>1. tabs \in Seq(Tab) /\ Len(tabs) \in Nat /\ opened \in Nat
  BY DEF TabsInv, TypeOK
<1>2. \A i \in 1 .. Len(tabs) : tabs[i] \in Tab
  BY <1>1
<1>3. \A t \in Tab : t.id \in Nat
  BY DEF Tab
<1> QED BY <1>1, <1>2, <1>3

\* The fixed tabs have the numbers 1 and 2.
LEMMA NumberedInit == Init => Numbered
<1> SUFFICES ASSUME Init PROVE Numbered
  OBVIOUS
<1>1. Len(tabs) = 2 /\ tabs[1].id = 1 /\ tabs[2].id = 2 /\ opened = 0
  BY DEF Init, FixedTab
<1>2. \A p \in 1 .. Len(tabs) : p = 1 \/ p = 2
  BY <1>1
<1> QED BY <1>1, <1>2 DEF Numbered

\* Opening adds the largest number at the right end; erasing keeps the order.
LEMMA NumberedStep == TabsInv /\ Numbered /\ [Next]_vars => Numbered'
<1> SUFFICES ASSUME TabsInv, Numbered, [Next]_vars PROVE Numbered'
  OBVIOUS
<1> DEFINE n == Len(tabs)
<1>0. /\ n \in Nat /\ opened \in Nat /\ \A i \in 1 .. n : tabs[i] \in Tab
      /\ \A i \in 1 .. n : tabs[i].id \in Nat
  BY TabFields
<1>1. CASE UNCHANGED <<tabs, opened>>
  BY <1>1 DEF Numbered
<1>2. ASSUME NEW f \in Files, Open(f) PROVE Numbered'
  <2>1. /\ Len(tabs') = n + 1 /\ tabs'[n + 1].id = opened + 3 /\ opened' = opened + 1
        /\ \A i \in 1 .. n : tabs'[i] = tabs[i]
    BY <1>0, <1>2 DEF Open, TabsInv, TypeOK
  <2>2. \A p \in 1 .. n + 1 : p \in 1 .. n \/ p = n + 1
    BY <1>0
  <2>3. \A p \in 1 .. n + 1 : tabs'[p].id < opened' + 3
    <3> TAKE p \in 1 .. n + 1
    <3>1. CASE p = n + 1 BY <1>0, <2>1, <3>1
    <3>2. CASE p \in 1 .. n BY <1>0, <2>1, <3>2 DEF Numbered
    <3> QED BY <2>2, <3>1, <3>2
  <2>4. \A p, q \in 1 .. n + 1 : p < q => tabs'[p].id < tabs'[q].id
    <3> TAKE p, q \in 1 .. n + 1
    <3> HAVE p < q
    <3>1. p \in 1 .. n
      BY <1>0
    <3>2. CASE q = n + 1 BY <1>0, <2>1, <3>1, <3>2 DEF Numbered
    <3>3. CASE q \in 1 .. n BY <1>0, <2>1, <3>1, <3>3 DEF Numbered
    <3> QED BY <2>2, <3>2, <3>3
  <2> QED BY <2>1, <2>3, <2>4 DEF Numbered
<1>3. CASE Close /\ tabs' # tabs
  <2>1. PICK k \in 3 .. n : Erase(k)
    BY <1>3, CloseErases
  <2>2. Len(tabs') = n - 1 /\ opened' = opened /\ n - 1 \in Nat
    BY <1>0, <1>3, <2>1 DEF Erase, Close
  <2>3. \A i \in 1 .. n - 1 : \E j \in 1 .. n :
          /\ tabs'[i].id = tabs[j].id
          /\ j = IF i < k THEN i ELSE i + 1
    <3> TAKE i \in 1 .. n - 1
    <3>1. i \in 1 .. n /\ i + 1 \in 1 .. n
      BY <1>0
    <3>2. tabs'[i].id = IF i < k THEN tabs[i].id ELSE tabs[i + 1].id
      BY <1>0, <2>1, <3>1, SlideTab DEF Erase
    <3> QED BY <3>1, <3>2
  <2>4. \A p \in 1 .. n - 1 : tabs'[p].id < opened' + 3
    BY <2>2, <2>3 DEF Numbered
  <2>5. \A p, q \in 1 .. n - 1 : p < q => tabs'[p].id < tabs'[q].id
    <3> TAKE p, q \in 1 .. n - 1
    <3> HAVE p < q
    <3>1. PICK i \in 1 .. n : tabs'[p].id = tabs[i].id /\ i = IF p < k THEN p ELSE p + 1
      BY <2>3
    <3>2. PICK j \in 1 .. n : tabs'[q].id = tabs[j].id /\ j = IF q < k THEN q ELSE q + 1
      BY <2>3
    <3>3. i < j
      BY <1>0, <2>1, <3>1, <3>2
    <3> QED BY <3>1, <3>2, <3>3 DEF Numbered
  <2> QED BY <2>2, <2>4, <2>5 DEF Numbered
<1>4. CASE Close /\ tabs' = tabs
  BY <1>1, <1>4 DEF Close
<1> QED BY <1>1, <1>2, <1>3, <1>4 DEF Next, vars, Select, SaveFails, Send, OnScript

\* Close leaves alone what is to the left of the tab it is pressed on, and
\* removes that tab if none to its left was ever removed.
THEOREM ClosesRight == Spec => CloseAims
<1>1. TabsInv /\ Numbered /\ [Next]_vars =>
        (Len(tabs') < Len(tabs) =>
           /\ \A p \in 1 .. selected : tabs'[p] = tabs[p]
           /\ ~Shown.moved => \A p \in 1 .. Len(tabs') : tabs'[p].id # Shown.id)
  <2> SUFFICES ASSUME TabsInv, Numbered, [Next]_vars, Len(tabs') < Len(tabs)
               PROVE  /\ \A p \in 1 .. selected : tabs'[p] = tabs[p]
                      /\ ~Shown.moved => \A p \in 1 .. Len(tabs') : tabs'[p].id # Shown.id
    OBVIOUS
  <2> DEFINE n == Len(tabs)
  <2>0. /\ tabs \in Seq(Tab) /\ n \in Nat /\ selected \in Nat
        /\ selected + 1 \in 1 .. n /\ \A i \in 1 .. n : tabs[i] \in Tab /\ tabs[i].id \in Nat
    BY ShownPlace, TabFields DEF TabsInv, TypeOK
  <2>1. Close /\ tabs' # tabs
    <3>1. tabs' # tabs
      BY <2>0
    <3>2. ASSUME NEW f \in Files, Open(f) PROVE FALSE
      <4>1. Len(tabs') = n + 1
        BY <2>0, <3>2 DEF Open
      <4> QED BY <2>0, <4>1
    <3> QED BY <3>1, <3>2 DEF Next, vars, Select, SaveFails, Send, OnScript
  <2>2. PICK k \in 3 .. n : Erase(k) /\ k >= selected + 1 /\ (~Shown.moved => k = selected + 1)
    BY <2>1, CloseErases
  <2>3. /\ Len(tabs') = n - 1
        /\ \A i \in 1 .. n - 1 : tabs'[i] = IF i < k THEN tabs[i] ELSE [tabs[i + 1] EXCEPT !.moved = TRUE]
    BY <2>0, <2>2 DEF Erase
  <2>4. \A p \in 1 .. selected : tabs'[p] = tabs[p]
    <3> TAKE p \in 1 .. selected
    <3>1. p \in 1 .. n - 1 /\ p < k
      BY <2>0, <2>2
    <3> QED BY <2>3, <3>1
  <2>5. ASSUME ~Shown.moved, NEW p \in 1 .. n - 1 PROVE tabs'[p].id # Shown.id
    <3>1. k = selected + 1 /\ p \in 1 .. n /\ p + 1 \in 1 .. n /\ k \in 1 .. n /\ Shown = tabs[k]
      BY <2>0, <2>2, <2>5 DEF Shown
    <3>2. CASE p < k
      <4>1. tabs'[p] = tabs[p]
        BY <2>3, <3>2
      <4>2. tabs[p].id < tabs[k].id
        BY <3>1, <3>2 DEF Numbered
      <4> QED BY <2>0, <3>1, <4>1, <4>2
    <3>3. CASE p >= k
      <4>1. tabs'[p].id = tabs[p + 1].id
        <5>1. tabs'[p] = [tabs[p + 1] EXCEPT !.moved = TRUE] /\ tabs[p + 1] \in Tab
          BY <2>0, <2>3, <3>1, <3>3
        <5> QED BY <5>1, SlideTab
      <4>2. tabs[k].id < tabs[p + 1].id
        BY <2>0, <3>1, <3>3 DEF Numbered
      <4> QED BY <2>0, <3>1, <4>1, <4>2
    <3> QED BY <2>0, <3>1, <3>2, <3>3
  <2> QED BY <2>3, <2>4, <2>5
<1>2. Spec => []Numbered
  <2>1. TabsInv /\ TabsInv' /\ Numbered /\ [Next]_vars => Numbered'
    BY NumberedStep
  <2> QED BY <2>1, NumberedInit, TabsAlways, PTL DEF Spec
<1> QED BY <1>1, <1>2, TabsAlways, PTL DEF Spec, CloseAims

-----------------------------------------------------------------------------
(* Documents: the texts behind the tabs *)

\* Every tab of a file has a number of its own among the tabs that were opened.
LEMMA ShownId ==
  ASSUME TabsInv, Numbered, opened <= MaxOpened, NEW p \in 1 .. Len(tabs), IsProgram(tabs[p])
  PROVE  /\ tabs[p].id \in Ids /\ tabs[p].file \in Files
         /\ \A q \in 1 .. Len(tabs) : tabs[q].id = tabs[p].id => q = p
<1>0. /\ \A i \in 1 .. Len(tabs) : tabs[i] \in Tab /\ tabs[i].id \in Nat
      /\ Len(tabs) \in Nat /\ opened \in Nat /\ MaxOpened \in Nat
  BY TabFields, TabsAssumption
<1>1. tabs[p].id \in Ids
  BY <1>0 DEF Numbered, IsProgram, Ids
<1>2. tabs[p].file \in Files
  <2>1. p >= 3
    <3>1. p = 1 \/ p = 2 \/ p >= 3
      BY <1>0
    <3> QED BY <3>1 DEF TabsInv, FixedTabsStay, FixedTab, IsProgram
  <2> QED BY <1>0, <2>1 DEF TabsInv, ProgramTabs
<1>3. ASSUME NEW q \in 1 .. Len(tabs), tabs[q].id = tabs[p].id PROVE q = p
  <2>1. ~(q < p) /\ ~(p < q)
    BY <1>0, <1>3 DEF Numbered
  <2> QED BY <1>0, <2>1
<1> QED BY <1>1, <1>2, <1>3

\* What a tab knows its file to hold is what the file holds, unless another had
\* a hand in the file; a save that is under way is that of one of the tabs.
Known(t) == t.file \notin crossed /\ (saving # None => saving.id # t.id) => disk[t.file] = base[t.id]
KnownTexts == \A p \in 1 .. Len(tabs) : IsProgram(tabs[p]) => Known(tabs[p])
OpenOnce ==
  \A p, q \in 1 .. Len(tabs) :
    IsProgram(tabs[p]) /\ IsProgram(tabs[q]) /\ tabs[p].file = tabs[q].file /\ p # q
      => tabs[p].file \in crossed
SavesShown ==
  saving # None =>
    \E p \in 1 .. Len(tabs) :
      IsProgram(tabs[p]) /\ saving = [id |-> tabs[p].id, file |-> tabs[p].file]

\* The inductive invariant of the documents.
DocsInv ==
  /\ TabsInv /\ Numbered /\ opened <= MaxOpened
  /\ DocsTypeOK
  /\ KnownTexts /\ OpenOnce /\ SavesShown
  /\ Clobbers

\* At the start no file is open.
LEMMA DocsInvInit == DocsInit => DocsInv
<1> SUFFICES ASSUME DocsInit PROVE DocsInv
  OBVIOUS
<1>1. Init /\ TabsInv /\ Numbered
  BY TabsInvInit, NumberedInit DEF DocsInit
<1>2. opened = 0 /\ opened <= MaxOpened
  BY <1>1, TabsAssumption DEF Init
<1>3. DocsTypeOK
  BY <1>1, DocumentsAssumption DEF DocsInit, DocsTypeOK, TabsInv
<1>4. \A p \in 1 .. Len(tabs) : ~IsProgram(tabs[p])
  <2>1. Len(tabs) = 2 /\ tabs[1].id = 1 /\ tabs[2].id = 2
    BY <1>1 DEF Init, FixedTab
  <2>2. \A p \in 1 .. Len(tabs) : p = 1 \/ p = 2
    BY <2>1
  <2> QED BY <2>1, <2>2 DEF IsProgram
<1>5. KnownTexts /\ OpenOnce
  BY <1>4 DEF KnownTexts, OpenOnce
<1>6. SavesShown /\ Clobbers
  BY DEF DocsInit, SavesShown, Clobbers
<1> QED BY <1>1, <1>2, <1>3, <1>5, <1>6 DEF DocsInv

\* The step of the list of tabs that is part of a step of Documents.
LEMMA DocsTabs ==
  ASSUME TabsInv, Numbered, opened <= MaxOpened, [Next]_vars
  PROVE  TabsInv' /\ Numbered' /\ opened' <= MaxOpened
<1>1. TabsInv' /\ Numbered'
  BY TabsInvStep, NumberedStep
<1>2. opened' <= MaxOpened
  <2>1. ASSUME NEW f \in Files, Open(f) PROVE opened' <= MaxOpened
    BY <2>1, TabsAssumption DEF Open, TabsInv, TypeOK
  <2>2. CASE opened' = opened
    BY <2>2
  <2> QED BY <2>1, <2>2 DEF Next, vars, Close, Select, SaveFails, Send, OnScript
<1> QED BY <1>1, <1>2

\* Tabs that are only removed or moved keep what is known of their files.
LEMMA FewerTabs ==
  ASSUME DocsInv, UNCHANGED docVars, saving = None,
         \A i \in 1 .. Len(tabs') : \E j \in 1 .. Len(tabs) :
           /\ tabs'[i].id = tabs[j].id /\ tabs'[i].file = tabs[j].file,
         \A i, k \in 1 .. Len(tabs') : i # k => tabs'[i].id # tabs'[k].id
  PROVE  KnownTexts' /\ OpenOnce' /\ SavesShown' /\ Clobbers'
<1>1. UNCHANGED <<disk, body, base, saving, crossed, clobbered>>
  BY DEF docVars
<1>2. KnownTexts'
  <2> SUFFICES ASSUME NEW i \in 1 .. Len(tabs'), IsProgram(tabs'[i]), tabs'[i].file \notin crossed
               PROVE  disk[tabs'[i].file] = base[tabs'[i].id]
    BY <1>1 DEF KnownTexts, Known, IsProgram
  <2>1. PICK j \in 1 .. Len(tabs) : tabs'[i].id = tabs[j].id /\ tabs'[i].file = tabs[j].file
    OBVIOUS
  <2> QED BY <2>1 DEF DocsInv, KnownTexts, Known, IsProgram
<1>3. OpenOnce'
  <2> SUFFICES ASSUME NEW i \in 1 .. Len(tabs'), NEW k \in 1 .. Len(tabs'), i # k,
                      IsProgram(tabs'[i]), IsProgram(tabs'[k]), tabs'[i].file = tabs'[k].file
               PROVE  tabs'[i].file \in crossed
    BY <1>1 DEF OpenOnce, IsProgram
  <2>1. PICK j \in 1 .. Len(tabs) : tabs'[i].id = tabs[j].id /\ tabs'[i].file = tabs[j].file
    OBVIOUS
  <2>2. PICK l \in 1 .. Len(tabs) : tabs'[k].id = tabs[l].id /\ tabs'[k].file = tabs[l].file
    OBVIOUS
  <2>3. j # l
    BY <2>1, <2>2
  <2> QED BY <2>1, <2>2, <2>3 DEF DocsInv, OpenOnce, IsProgram
<1>4. SavesShown' /\ Clobbers'
  BY <1>1 DEF DocsInv, SavesShown, Clobbers
<1> QED BY <1>2, <1>3, <1>4

\* A tab that is opened knows what it has read.
LEMMA OpenDocKeeps == ASSUME DocsInv, NEW f \in Files, OpenDoc(f) PROVE DocsInv'
<1> DEFINE n == Len(tabs)
<1>0. Open(f) /\ Idle /\ saving = None
  BY DEF OpenDoc, Idle
<1>1. TabsInv' /\ Numbered' /\ opened' <= MaxOpened
  BY <1>0, DocsTabs DEF DocsInv, Next, Idle
<1>2. /\ opened' = opened + 1 /\ opened \in Nat /\ opened < MaxOpened /\ n \in Nat
      /\ Len(tabs') = n + 1 /\ tabs'[n + 1].id = opened + 3 /\ tabs'[n + 1].file = f
      /\ \A i \in 1 .. n : tabs'[i] = tabs[i]
  BY <1>0, TabFields DEF Open, DocsInv
<1>3. PICK t \in {disk[f], Empty} :
        /\ body' = [body EXCEPT ![opened' + 2] = t]
        /\ base' = [base EXCEPT ![opened' + 2] = t]
        /\ crossed' = IF IsOpen(f) \/ t # disk[f] THEN crossed \union {f} ELSE crossed
  BY DEF OpenDoc
<1>4. opened' + 2 = opened + 3 /\ opened + 3 \in Ids
  BY <1>2, TabsAssumption DEF Ids
<1>5. UNCHANGED <<disk, saving, clobbered, events>>
  BY DEF OpenDoc
<1>6. crossed \subseteq crossed' /\ crossed' \subseteq Files
  BY <1>3 DEF DocsInv, DocsTypeOK
<1>7. DocsTypeOK'
  <2>1. t \in Texts
    BY DocumentsAssumption DEF DocsInv, DocsTypeOK
  <2> QED BY <1>1, <1>3, <1>4, <1>5, <1>6, <2>1 DEF DocsInv, DocsTypeOK, TabsInv
<1>8. \A p \in 1 .. n + 1 : p \in 1 .. n \/ p = n + 1
  BY <1>2
<1>9. KnownTexts'
  <2> SUFFICES ASSUME NEW p \in 1 .. n + 1, IsProgram(tabs'[p]), tabs'[p].file \notin crossed'
               PROVE  disk[tabs'[p].file] = base'[tabs'[p].id]
    BY <1>2, <1>5 DEF KnownTexts, Known, IsProgram
  <2>1. CASE p = n + 1
    <3>1. t = disk[f]
      BY <1>2, <1>3, <2>1
    <3>2. base'[opened + 3] = t
      BY <1>3, <1>4 DEF DocsInv, DocsTypeOK
    <3> QED BY <1>2, <2>1, <3>1, <3>2
  <2>2. CASE p \in 1 .. n
    <3>1. tabs'[p] = tabs[p] /\ tabs[p].id # opened + 3
      BY <1>2, <2>2, TabFields DEF DocsInv, Numbered
    <3>2. disk[tabs[p].file] = base[tabs[p].id]
      BY <1>0, <1>6, <2>2, <3>1 DEF DocsInv, KnownTexts, Known, IsProgram
    <3>3. tabs[p].id \in Ids
      BY <2>2, <3>1, ShownId DEF DocsInv, IsProgram
    <3>4. base'[tabs[p].id] = base[tabs[p].id]
      BY <1>3, <1>4, <3>1, <3>3 DEF DocsInv, DocsTypeOK
    <3> QED BY <3>1, <3>2, <3>4
  <2> QED BY <1>8, <2>1, <2>2
<1>10. OpenOnce'
  <2>1. ASSUME NEW p \in 1 .. n, IsProgram(tabs[p]), tabs[p].file = f PROVE f \in crossed'
    <3>1. IsOpen(f)
      BY <2>1 DEF IsOpen
    <3> QED BY <1>3, <3>1
  <2> SUFFICES ASSUME NEW p \in 1 .. n + 1, NEW q \in 1 .. n + 1, p # q,
                      IsProgram(tabs'[p]), IsProgram(tabs'[q]), tabs'[p].file = tabs'[q].file
               PROVE  tabs'[p].file \in crossed'
    BY <1>2 DEF OpenOnce, IsProgram
  <2>2. CASE p \in 1 .. n /\ q \in 1 .. n
    BY <1>2, <1>6, <2>2 DEF DocsInv, OpenOnce, IsProgram
  <2>3. CASE p = n + 1 /\ q \in 1 .. n
    BY <1>2, <2>1, <2>3 DEF IsProgram
  <2>4. CASE q = n + 1 /\ p \in 1 .. n
    BY <1>2, <2>1, <2>4 DEF IsProgram
  <2> QED BY <1>8, <2>2, <2>3, <2>4
<1>11. SavesShown' /\ Clobbers'
  BY <1>0, <1>5, <1>6 DEF DocsInv, SavesShown, Clobbers
<1> QED BY <1>1, <1>7, <1>9, <1>10, <1>11 DEF DocsInv

\* What is left when the tabs stay as they are.
LEMMA SameTabs ==
  ASSUME DocsInv, UNCHANGED <<tabs, opened, pending, sent, selected>>, proc' \in {"up", "dead"}
  PROVE  /\ TabsInv' /\ Numbered' /\ opened' <= MaxOpened
         /\ crossed' = crossed /\ disk' = disk /\ base' = base /\ saving' = saving => KnownTexts'
         /\ crossed \subseteq crossed' => OpenOnce'
         /\ saving' = saving => SavesShown'
<1>1. TabsInv'
  BY DEF DocsInv, TabsInv, TypeOK, FixedTabsStay, ProgramTabs, IsProgram, Aim
<1>2. Numbered' /\ opened' <= MaxOpened
  BY DEF DocsInv, Numbered
<1>3. crossed' = crossed /\ disk' = disk /\ base' = base /\ saving' = saving => KnownTexts'
  BY DEF DocsInv, KnownTexts, Known, IsProgram
<1>4. crossed \subseteq crossed' => OpenOnce'
  BY DEF DocsInv, OpenOnce, IsProgram
<1>5. saving' = saving => SavesShown'
  BY DEF DocsInv, SavesShown, IsProgram
<1> QED BY <1>1, <1>2, <1>3, <1>4, <1>5

\* One event more keeps the bound.
LEMMA HappensType == events \in 0 .. MaxEvents /\ Happens => events' \in 0 .. MaxEvents
  BY DocumentsAssumption DEF Happens

\* Typing changes a text only.
LEMMA TypeKeeps == ASSUME DocsInv, Type PROVE DocsInv'
<1>1. UNCHANGED <<vars, disk, base, saving, crossed, clobbered>> /\ Happens /\ IsProgram(Shown)
  BY DEF Type
<1>2. selected + 1 \in 1 .. Len(tabs) /\ Shown.id \in Ids
  BY <1>1, ShownPlace, ShownId DEF DocsInv, Shown
<1>3. PICK t \in Texts : body' = [body EXCEPT ![Shown.id] = t]
  BY DEF Type
<1>4. DocsTypeOK'
  BY <1>1, <1>2, <1>3, HappensType DEF DocsInv, DocsTypeOK, TabsInv, TypeOK, vars
<1>5. proc' \in {"up", "dead"} /\ UNCHANGED <<tabs, opened, pending, sent, selected>>
  BY <1>1 DEF vars, DocsInv, TabsInv, TypeOK
<1>6. Clobbers'
  BY <1>1 DEF DocsInv, Clobbers
<1> QED BY <1>1, <1>4, <1>5, <1>6, SameTabs DEF DocsInv

\* A save that begins writes over what its tab knows, or another had a hand in
\* the file; what the others know of theirs does not change.
LEMMA SaveKeeps == ASSUME DocsInv, Save PROVE DocsInv'
<1> DEFINE p == selected + 1
<1>1. /\ UNCHANGED <<vars, body, base, crossed>> /\ Happens /\ IsProgram(tabs[p]) /\ saving = None
      /\ saving' = [id |-> tabs[p].id, file |-> tabs[p].file]
      /\ disk' = [disk EXCEPT ![tabs[p].file] = Empty]
      /\ clobbered' = IF disk[tabs[p].file] # base[tabs[p].id]
                      THEN clobbered \union {tabs[p].file} ELSE clobbered
  BY DEF Save, Idle, Shown, Target
<1>2. /\ p \in 1 .. Len(tabs) /\ tabs[p].id \in Ids /\ tabs[p].file \in Files
      /\ \A q \in 1 .. Len(tabs) : tabs[q].id = tabs[p].id => q = p
  BY <1>1, ShownPlace, ShownId DEF DocsInv
<1>3. proc' \in {"up", "dead"} /\ UNCHANGED <<tabs, opened, pending, sent, selected>>
  BY <1>1 DEF vars, DocsInv, TabsInv, TypeOK
<1>4. tabs[p].file \notin crossed => disk[tabs[p].file] = base[tabs[p].id]
  BY <1>1, <1>2 DEF DocsInv, KnownTexts, Known
<1>5. Clobbers'
  BY <1>1, <1>4 DEF DocsInv, Clobbers
<1>6. DocsTypeOK'
  <2>1. clobbered' \subseteq Files
    BY <1>1, <1>2 DEF DocsInv, DocsTypeOK
  <2>2. disk' \in [Files -> Texts]
    BY <1>1, DocumentsAssumption DEF DocsInv, DocsTypeOK
  <2>3. saving' \in [id : Ids, file : Files] \union {None}
    BY <1>1, <1>2
  <2>4. TypeOK'
    BY <1>3, SameTabs DEF TabsInv
  <2> QED BY <1>1, <2>1, <2>2, <2>3, <2>4, HappensType DEF DocsInv, DocsTypeOK
<1>7. KnownTexts'
  <2> SUFFICES ASSUME NEW q \in 1 .. Len(tabs), IsProgram(tabs[q]), tabs[q].file \notin crossed,
                      saving'.id # tabs[q].id
               PROVE  disk'[tabs[q].file] = base[tabs[q].id]
    <3>1. saving' # None
      BY <1>1 DEF None
    <3> QED BY <1>1, <1>3, <3>1 DEF KnownTexts, Known, IsProgram
  <2>1. q # p
    BY <1>1
  <2>2. tabs[q].file # tabs[p].file
    BY <1>1, <1>2, <2>1 DEF DocsInv, OpenOnce
  <2>3. disk'[tabs[q].file] = disk[tabs[q].file]
    <3>1. tabs[q].file \in Files
      BY ShownId DEF DocsInv
    <3> QED BY <1>1, <2>2, <3>1 DEF DocsInv, DocsTypeOK
  <2> QED BY <1>1, <2>3 DEF DocsInv, KnownTexts, Known
<1>8. SavesShown'
  BY <1>1, <1>2, <1>3 DEF SavesShown, IsProgram
<1> QED BY <1>1, <1>3, <1>5, <1>6, <1>7, <1>8, SameTabs DEF DocsInv

\* When a save ends its tab knows what has become of the file.
LEMMA WriteKeeps == ASSUME DocsInv, Write PROVE DocsInv'
<1>1. /\ UNCHANGED <<vars, body, crossed, clobbered, events>> /\ saving # None /\ saving' = None
      /\ disk' \in {disk, [disk EXCEPT ![saving.file] = body[saving.id]]}
      /\ base' = [base EXCEPT ![saving.id] = disk'[saving.file]]
  BY DEF Write
<1>2. PICK p \in 1 .. Len(tabs) :
        IsProgram(tabs[p]) /\ saving = [id |-> tabs[p].id, file |-> tabs[p].file]
  BY <1>1 DEF DocsInv, SavesShown
<1>3. /\ saving.id = tabs[p].id /\ saving.file = tabs[p].file
      /\ tabs[p].id \in Ids /\ tabs[p].file \in Files
      /\ \A q \in 1 .. Len(tabs) : tabs[q].id = tabs[p].id => q = p
  BY <1>2, ShownId DEF DocsInv
<1>4. proc' \in {"up", "dead"} /\ UNCHANGED <<tabs, opened, pending, sent, selected>>
  BY <1>1 DEF vars, DocsInv, TabsInv, TypeOK
<1>5. disk' \in [Files -> Texts] /\ base' \in [Ids -> Texts]
  <2>1. body[saving.id] \in Texts
    BY <1>3 DEF DocsInv, DocsTypeOK
  <2>2. disk' \in [Files -> Texts]
    BY <1>1, <2>1 DEF DocsInv, DocsTypeOK
  <2>3. disk'[saving.file] \in Texts
    BY <1>3, <2>2
  <2> QED BY <1>1, <2>2, <2>3 DEF DocsInv, DocsTypeOK
<1>6. DocsTypeOK'
  <2>1. TypeOK'
    BY <1>4, SameTabs DEF TabsInv
  <2> QED BY <1>1, <1>5, <2>1 DEF DocsInv, DocsTypeOK
<1>7. KnownTexts'
  <2> SUFFICES ASSUME NEW q \in 1 .. Len(tabs), IsProgram(tabs[q]), tabs[q].file \notin crossed
               PROVE  disk'[tabs[q].file] = base'[tabs[q].id]
    BY <1>1, <1>4 DEF KnownTexts, Known, IsProgram
  <2>1. CASE q = p
    BY <1>1, <1>3, <2>1 DEF DocsInv, DocsTypeOK
  <2>2. CASE q # p
    <3>1. tabs[q].file # tabs[p].file
      BY <1>2, <2>2 DEF DocsInv, OpenOnce
    <3>2. tabs[q].id # tabs[p].id /\ tabs[q].id \in Ids /\ tabs[q].file \in Files
      BY <1>3, <2>2, ShownId DEF DocsInv
    <3>3. disk'[tabs[q].file] = disk[tabs[q].file] /\ base'[tabs[q].id] = base[tabs[q].id]
      BY <1>1, <1>3, <3>1, <3>2 DEF DocsInv, DocsTypeOK
    <3>4. disk[tabs[q].file] = base[tabs[q].id]
      BY <1>3, <3>2 DEF DocsInv, KnownTexts, Known
    <3> QED BY <3>3, <3>4
  <2> QED BY <2>1, <2>2
<1>8. SavesShown' /\ Clobbers'
  BY <1>1 DEF SavesShown, DocsInv, Clobbers
<1> QED BY <1>1, <1>4, <1>6, <1>7, <1>8, SameTabs DEF DocsInv

\* Close, the menu and a Save that throws.
LEMMA TabsDocKeeps == ASSUME DocsInv, TabsDoc PROVE DocsInv'
<1>1. Idle /\ proc = "up" /\ saving = None /\ UNCHANGED docVars
  BY DEF TabsDoc, Idle
<1>2. Next
  BY <1>1 DEF TabsDoc, Next
<1>3. TabsInv' /\ Numbered' /\ opened' <= MaxOpened
  BY <1>2, DocsTabs DEF DocsInv
<1>4. DocsTypeOK'
  BY <1>1, <1>3 DEF docVars, DocsInv, DocsTypeOK, TabsInv
<1>5. \A i \in 1 .. Len(tabs') : \E j \in 1 .. Len(tabs) :
        tabs'[i].id = tabs[j].id /\ tabs'[i].file = tabs[j].file
  <2>1. CASE tabs' = tabs
    BY <2>1
  <2>2. CASE Close /\ tabs' # tabs
    <3>1. PICK k \in 3 .. Len(tabs) : Erase(k)
      BY <2>2, CloseErases DEF DocsInv
    <3>2. Len(tabs) \in Nat /\ Len(tabs') = Len(tabs) - 1 /\ \A i \in 1 .. Len(tabs) : tabs[i] \in Tab
      BY <3>1, TabFields DEF DocsInv, Erase
    <3> TAKE i \in 1 .. Len(tabs')
    <3>3. i \in 1 .. Len(tabs) /\ i + 1 \in 1 .. Len(tabs)
      BY <3>2
    <3>4. \/ tabs'[i].id = tabs[i].id /\ tabs'[i].file = tabs[i].file
          \/ tabs'[i].id = tabs[i + 1].id /\ tabs'[i].file = tabs[i + 1].file
      BY <3>1, <3>2, <3>3, SlideTab DEF Erase
    <3> QED BY <3>3, <3>4
  <2> QED BY <2>1, <2>2 DEF TabsDoc, SaveFails, Select
<1>6. \A i, k \in 1 .. Len(tabs') : i # k => tabs'[i].id # tabs'[k].id
  <2>1. /\ \A i \in 1 .. Len(tabs') : tabs'[i].id \in Nat
        /\ \A i, k \in 1 .. Len(tabs') : i < k => tabs'[i].id < tabs'[k].id
        /\ Len(tabs') \in Nat
    <3>1. tabs' \in Seq(Tab)
      BY <1>3 DEF TabsInv, TypeOK
    <3>2. Len(tabs') \in Nat /\ \A i \in 1 .. Len(tabs') : tabs'[i] \in Tab
      BY <3>1
    <3>3. \A t \in Tab : t.id \in Nat
      BY DEF Tab
    <3> QED BY <1>3, <3>2, <3>3 DEF Numbered
  <2>2. \A i, k \in 1 .. Len(tabs') : i < k \/ k < i \/ i = k
    BY <2>1
  <2>3. \A x, y \in Nat : x < y => x # y
    OBVIOUS
  <2> QED BY <2>1, <2>2, <2>3
<1>7. KnownTexts' /\ OpenOnce' /\ SavesShown' /\ Clobbers'
  BY <1>1, <1>5, <1>6, FewerTabs
<1> QED BY <1>3, <1>4, <1>7 DEF DocsInv

\* Another program, and the death of this one.
LEMMA WorldKeeps == ASSUME DocsInv, Outside \/ Killed PROVE DocsInv'
<1>1. CASE Outside
  <2>1. /\ UNCHANGED <<tabs, opened, pending, sent, selected, proc>>
        /\ UNCHANGED <<body, base, saving, clobbered>> /\ Happens
    BY <1>1 DEF Outside, vars
  <2>2. PICK f \in Files, t \in Texts : disk' = [disk EXCEPT ![f] = t] /\ crossed' = crossed \union {f}
    BY <1>1 DEF Outside
  <2>3. proc' \in {"up", "dead"}
    BY <2>1 DEF DocsInv, TabsInv, TypeOK
  <2>4. DocsTypeOK'
    <3>1. TypeOK'
      BY <2>1, <2>3, SameTabs DEF TabsInv
    <3> QED BY <2>1, <2>2, <3>1, HappensType DEF DocsInv, DocsTypeOK
  <2>5. KnownTexts'
    <3> SUFFICES ASSUME NEW p \in 1 .. Len(tabs), IsProgram(tabs[p]), tabs[p].file \notin crossed',
                        saving # None => saving.id # tabs[p].id
                 PROVE  disk'[tabs[p].file] = base[tabs[p].id]
      BY <2>1 DEF KnownTexts, Known, IsProgram
    <3>1. tabs[p].file # f /\ tabs[p].file \notin crossed
      BY <2>2
    <3>2. tabs[p].file \in Files
      BY ShownId DEF DocsInv
    <3>3. disk'[tabs[p].file] = disk[tabs[p].file]
      BY <2>2, <3>1, <3>2 DEF DocsInv, DocsTypeOK
    <3> QED BY <3>1, <3>3 DEF DocsInv, KnownTexts, Known
  <2>6. Clobbers' /\ crossed \subseteq crossed'
    BY <2>1, <2>2 DEF DocsInv, Clobbers
  <2> QED BY <2>1, <2>3, <2>4, <2>5, <2>6, SameTabs DEF DocsInv
<1>2. CASE Killed
  <2>1. /\ UNCHANGED <<tabs, opened, pending, sent, selected>> /\ proc' \in {"up", "dead"}
        /\ UNCHANGED <<disk, body, base, saving, crossed, clobbered>> /\ Happens
    BY <1>2 DEF Killed
  <2>2. DocsTypeOK'
    <3>1. TypeOK'
      BY <2>1, SameTabs DEF TabsInv
    <3> QED BY <2>1, <3>1, HappensType DEF DocsInv, DocsTypeOK
  <2>3. Clobbers'
    BY <2>1 DEF DocsInv, Clobbers
  <2> QED BY <2>1, <2>2, <2>3, SameTabs DEF DocsInv
<1> QED BY <1>1, <1>2

\* A process that starts again has the fixed tabs only.
LEMMA RestartKeeps == ASSUME DocsInv, Restart PROVE DocsInv'
<1>1. FixedTab(1) \in Tab /\ FixedTab(2) \in Tab
  BY DEF FixedTab, Tab
<1>2. /\ tabs' \in Seq(Tab) /\ Len(tabs') = 2 /\ tabs'[1] = FixedTab(1) /\ tabs'[2] = FixedTab(2)
      /\ selected' = 0 /\ proc' = "up"
  BY <1>1 DEF Restart
<1>3. \A p \in 1 .. Len(tabs') : p = 1 \/ p = 2
  BY <1>2
<1>4. UNCHANGED <<opened, pending, sent, disk, body, base, crossed, clobbered, events>> /\ saving' = None
  BY DEF Restart
<1>5. TypeOK'
  BY <1>2, <1>4 DEF TypeOK, DocsInv, TabsInv
<1>6. Aim'
  <2> SUFFICES ASSUME NEW p \in 1 .. Len(tabs')
               PROVE  ~tabs'[p].moved /\ tabs'[p].index = p - 1
    BY DEF Aim
  <2> QED BY <1>2, <1>3 DEF FixedTab
<1>7. \A p \in 1 .. Len(tabs') : ~IsProgram(tabs'[p])
  BY <1>2, <1>3 DEF FixedTab, IsProgram
<1>8. TabsInv'
  BY <1>2, <1>5, <1>6 DEF TabsInv, FixedTabsStay, ProgramTabs, FixedTab
<1>9. Numbered'
  <2>1. tabs'[1].id = 1 /\ tabs'[2].id = 2 /\ opened' \in Nat
    BY <1>2, <1>5 DEF FixedTab, TypeOK
  <2> QED BY <1>3, <2>1 DEF Numbered
<1>10. DocsTypeOK'
  BY <1>4, <1>5 DEF DocsInv, DocsTypeOK
<1>11. KnownTexts' /\ OpenOnce'
  BY <1>7 DEF KnownTexts, OpenOnce, IsProgram
<1>12. SavesShown' /\ Clobbers' /\ opened' <= MaxOpened
  BY <1>4 DEF DocsInv, SavesShown, Clobbers
<1> QED BY <1>8, <1>9, <1>10, <1>11, <1>12 DEF DocsInv

\* Nothing happens to the documents.
LEMMA DocsStutter == ASSUME DocsInv, UNCHANGED allDocVars PROVE DocsInv'
<1>1. UNCHANGED <<tabs, opened, pending, sent, selected, proc, disk, body, base, saving, crossed, clobbered, events>>
  BY DEF allDocVars, vars, docVars
<1>2. proc' \in {"up", "dead"}
  BY <1>1 DEF DocsInv, TabsInv, TypeOK
<1>3. DocsTypeOK'
  <2>1. TypeOK'
    BY <1>1, <1>2, SameTabs DEF TabsInv
  <2> QED BY <1>1, <2>1 DEF DocsInv, DocsTypeOK
<1>4. Clobbers'
  BY <1>1 DEF DocsInv, Clobbers
<1> QED BY <1>1, <1>2, <1>3, <1>4, SameTabs DEF DocsInv

\* Every step keeps the invariant.
LEMMA DocsInvStep == DocsInv /\ [DocsNext]_allDocVars => DocsInv'
  BY OpenDocKeeps, TypeKeeps, SaveKeeps, WriteKeeps, TabsDocKeeps, WorldKeeps, RestartKeeps, DocsStutter
  DEF DocsNext

\* A save overwrites what its tab has never shown only in a file that another
\* tab or program had a hand in, or that could not be read.
THEOREM SavesWhatWasSeen == DocsSpec => []Clobbers
<1>1. DocsInv => Clobbers
  BY DEF DocsInv
<1> QED BY <1>1, DocsInvInit, DocsInvStep, PTL DEF DocsSpec

-----------------------------------------------------------------------------
(* FileBrowser: the index into a list that is replaced *)

\* The inductive invariant of the browser.
BrowserInv == TabsInv /\ BrowserTypeOK /\ DiesInEmpty

\* What the walk has found in a directory.
LEMMA Walked ==
  ASSUME NEW d \in Dirs
  PROVE  /\ Len(Contents[d]) \in Nat /\ (Contents[d] = <<>> <=> Len(Contents[d]) = 0)
         /\ Parents(d) \subseteq Dirs
         /\ \A e \in 0 .. Len(Contents[d]) - 1 : Contents[d][e + 1] \in Files \union Dirs
<1>1. Contents[d] \in Seq(Files \union (Dirs \ {Top}))
  BY TreeAssumption DEF IsWalk
<1>2. \A e \in 0 .. Len(Contents[d]) - 1 : e + 1 \in 1 .. Len(Contents[d])
  BY <1>1
<1> QED BY <1>1, <1>2 DEF Parents

\* ftxui's clamp leaves the list only if that is empty.
LEMMA ClampedIn ==
  ASSUME dir \in Dirs, NEW e \in Int
  PROVE  /\ Clamped(e) \in Int
         /\ Contents[dir] # <<>> => Clamped(e) \in 0 .. Len(Contents[dir]) - 1
         /\ Clamped(e) < 0 => Contents[dir] = <<>>
<1>1. Len(Contents[dir]) \in Nat /\ (Contents[dir] = <<>> <=> Len(Contents[dir]) = 0)
  BY Walked
<1> QED BY <1>1 DEF Clamped

\* At the start the browser is not shown and its list not drawn.
LEMMA BrowserInvInit == BrowserInit => BrowserInv
<1> SUFFICES ASSUME BrowserInit PROVE BrowserInv
  OBVIOUS
<1>1. TabsInv /\ TypeOK
  BY TabsInvInit DEF BrowserInit, TabsInv
<1>2. modal = FALSE /\ dir \in Dirs /\ entry \in Int /\ drawn = FALSE /\ gone = FALSE
  BY TreeAssumption DEF BrowserInit
<1> QED BY <1>1, <1>2 DEF BrowserInv, BrowserTypeOK, DiesInEmpty

\* Events of the tabs while the browser is not shown, and of Device.
LEMMA TabEventKeeps ==
  ASSUME BrowserInv, proc = "up", TabEvent \/ OnScript, UNCHANGED browserVars
  PROVE  BrowserInv'
<1>1. TabsInv'
  BY TabsInvStep DEF BrowserInv, TabEvent, Next
<1> QED BY <1>1 DEF BrowserInv, browserVars, BrowserTypeOK, DiesInEmpty, TabsInv

\* An entry is opened, descended into, or is not there.
LEMMA EnterKeeps == ASSUME BrowserInv, proc = "up", ~gone, Enter PROVE BrowserInv'
<1>0. /\ TabsInv /\ TypeOK /\ modal \in BOOLEAN /\ drawn \in BOOLEAN /\ gone \in BOOLEAN
      /\ dir \in Dirs /\ entry \in Int /\ modal = TRUE
  BY DEF BrowserInv, BrowserTypeOK, Enter
<1>1. PICK e \in Chosen :
       /\ entry' = e
       /\ \/ /\ e < 0
             /\ gone' = TRUE
             /\ UNCHANGED <<vars, modal, dir, drawn>>
          \/ /\ e >= Len(Contents[dir])
             /\ UNCHANGED <<vars, modal, dir, drawn, gone>>
          \/ /\ e \in 0 .. Len(Contents[dir]) - 1 /\ Item(e) \in Files
             /\ Open(Item(e))
             /\ modal' = FALSE
             /\ UNCHANGED <<dir, drawn, gone>>
          \/ /\ e \in 0 .. Len(Contents[dir]) - 1 /\ Item(e) \in Dirs
             /\ dir' = Item(e) /\ drawn' = FALSE
             /\ UNCHANGED <<vars, modal, gone>>
  BY DEF Enter
<1>2. /\ e \in Int
      /\ Contents[dir] # <<>> => e \in 0 .. Len(Contents[dir]) - 1
      /\ e < 0 => Contents[dir] = <<>>
  <2>1. CASE e = Clamped(entry)
    BY <1>0, <2>1, ClampedIn
  <2>2. CASE e \in 0 .. Len(Contents[dir]) - 1
    BY <1>0, <2>2, Walked
  <2> QED BY <1>1, <2>1, <2>2 DEF Chosen
<1>3. ASSUME UNCHANGED <<vars, modal, dir, drawn>>, gone' = gone \/ (e < 0 /\ gone' = TRUE)
      PROVE  BrowserInv'
  <2>1. TabsInv' /\ TypeOK'
    BY <1>0, <1>3, TabsInvStep DEF TabsInv
  <2>2. gone' \in BOOLEAN /\ (gone' => gone \/ Contents[dir] = <<>>)
    <3>1. CASE gone' = gone
      BY <1>0, <3>1
    <3>2. CASE e < 0 /\ gone' = TRUE
      BY <1>2, <3>2
    <3> QED BY <1>3, <3>1, <3>2
  <2>3. DiesInEmpty'
    BY <1>3, <2>2 DEF DiesInEmpty, BrowserInv
  <2>4. BrowserTypeOK'
    BY <1>0, <1>1, <1>2, <1>3, <2>1, <2>2 DEF BrowserTypeOK
  <2> QED BY <2>1, <2>3, <2>4 DEF BrowserInv
<1>4. CASE Item(e) \in Files /\ Open(Item(e)) /\ modal' = FALSE /\ UNCHANGED <<dir, drawn, gone>>
  <2>1. TabsInv' /\ TypeOK'
    BY <1>0, <1>4, TabsInvStep DEF TabsInv, Next
  <2>2. DiesInEmpty'
    BY <1>4 DEF DiesInEmpty
  <2>3. modal' \in BOOLEAN
    BY <1>4
  <2>4. BrowserTypeOK'
    BY <1>0, <1>1, <1>2, <1>4, <2>1, <2>3 DEF BrowserTypeOK
  <2> QED BY <2>1, <2>2, <2>4 DEF BrowserInv
<1>5. CASE Item(e) \in Dirs /\ dir' = Item(e) /\ drawn' = FALSE /\ UNCHANGED <<vars, modal, gone>>
  <2>1. TabsInv' /\ TypeOK'
    BY <1>0, <1>5, TabsInvStep DEF TabsInv
  <2>2. DiesInEmpty' /\ drawn' \in BOOLEAN /\ gone' \in BOOLEAN
    BY <1>0, <1>5 DEF DiesInEmpty
  <2>3. BrowserTypeOK'
    BY <1>0, <1>1, <1>2, <1>5, <2>1, <2>2 DEF BrowserTypeOK
  <2> QED BY <2>1, <2>2, <2>3 DEF BrowserInv
<1>6. CASE e < 0 /\ gone' = TRUE /\ UNCHANGED <<vars, modal, dir, drawn>>
  BY <1>3, <1>6
<1>7. CASE UNCHANGED <<vars, modal, dir, drawn, gone>>
  <2>1. UNCHANGED <<vars, modal, dir, drawn>> /\ gone' = gone
    BY <1>7
  <2> QED BY <1>3, <2>1
<1> QED BY <1>1, <1>4, <1>5, <1>6, <1>7

\* Events of the browser that open nothing.
LEMMA BrowseKeeps ==
  ASSUME BrowserInv, ~gone, Show \/ Draw \/ Move \/ GoBack \/ Hide
  PROVE  BrowserInv'
<1>0. /\ TabsInv /\ TypeOK /\ modal \in BOOLEAN /\ drawn \in BOOLEAN
      /\ dir \in Dirs /\ entry \in Int
      /\ drawn /\ Contents[dir] # <<>> => entry \in 0 .. Len(Contents[dir]) - 1
  BY DEF BrowserInv, BrowserTypeOK
<1>1. /\ UNCHANGED <<vars, gone>>
      /\ modal' \in {modal, TRUE, FALSE} /\ drawn' \in {drawn, TRUE, FALSE}
      /\ dir' = dir \/ (dir' \in Parents(dir) /\ drawn' = FALSE)
      /\ entry' \in {entry, Clamped(entry), Clamped(Clamped(entry) - 1), Clamped(Clamped(entry) + 1)}
      /\ drawn' = drawn \/ drawn' = FALSE \/ entry' = Clamped(entry)
  <2>1. CASE Show BY <2>1 DEF Show
  <2>2. CASE Draw BY <2>2 DEF Draw
  <2>3. CASE Move
    <3>1. PICK by \in {-1, 1} : entry' = Clamped(Clamped(entry) + by)
      BY <2>3 DEF Move
    <3>2. Clamped(entry) \in Int
      BY <1>0, ClampedIn
    <3>3. Clamped(entry) + (-1) = Clamped(entry) - 1
      BY <3>2
    <3> QED BY <2>3, <3>1, <3>3 DEF Move
  <2>4. CASE GoBack BY <2>4 DEF GoBack
  <2>5. CASE Hide BY <2>5 DEF Hide
  <2> QED BY <2>1, <2>2, <2>3, <2>4, <2>5
<1>2. TabsInv' /\ TypeOK'
  BY <1>0, <1>1, TabsInvStep DEF TabsInv
<1>3. DiesInEmpty' /\ modal' \in BOOLEAN /\ drawn' \in BOOLEAN /\ gone' \in BOOLEAN
  BY <1>0, <1>1 DEF DiesInEmpty, BrowserInv, BrowserTypeOK
<1>4. Clamped(entry) \in Int /\ Clamped(entry) - 1 \in Int /\ Clamped(entry) + 1 \in Int
  <2>1. Clamped(entry) \in Int
    BY <1>0, ClampedIn
  <2> QED BY <2>1
<1>5. entry' \in Int /\ (entry' = entry \/ (Contents[dir] # <<>> => entry' \in 0 .. Len(Contents[dir]) - 1))
  BY <1>0, <1>1, <1>4, ClampedIn
<1>6. dir' \in Dirs
  BY <1>0, <1>1, Walked
<1>7. drawn' /\ Contents[dir'] # <<>> => entry' \in 0 .. Len(Contents[dir']) - 1
  <2>1. CASE entry' = entry /\ drawn' = drawn /\ dir' = dir
    BY <1>0, <2>1
  <2>2. CASE drawn' = FALSE
    BY <2>2
  <2>3. CASE dir' = dir /\ entry' = Clamped(entry)
    BY <1>0, <2>3, ClampedIn
  <2>4. CASE dir' = dir /\ entry' # entry
    BY <1>5, <2>4
  <2> QED BY <1>1, <2>1, <2>2, <2>3, <2>4
<1> QED BY <1>2, <1>3, <1>5, <1>6, <1>7 DEF BrowserInv, BrowserTypeOK

\* Every step of the browser and the tabs keeps the invariant.
LEMMA BrowserInvStep == BrowserInv /\ [BrowserNext]_allBrowserVars => BrowserInv'
<1>1. BrowserInv /\ UNCHANGED allBrowserVars => BrowserInv'
  <2> SUFFICES ASSUME BrowserInv, UNCHANGED <<vars, browserVars>> PROVE BrowserInv'
    BY DEF allBrowserVars
  <2>1. TabsInv'
    BY TabsInvStep DEF BrowserInv
  <2> QED BY <2>1 DEF BrowserInv, browserVars, BrowserTypeOK, DiesInEmpty, TabsInv
<1>2. BrowserInv /\ BrowserNext => BrowserInv'
  BY TabEventKeeps, EnterKeeps, BrowseKeeps DEF BrowserNext
<1> QED BY <1>1, <1>2

\* Every variable of the browser keeps its type: a list that is drawn has its
\* selected entry in it.
THEOREM BrowserTyping == BrowserSpec => []BrowserTypeOK
<1>1. BrowserInv => BrowserTypeOK
  BY DEF BrowserInv
<1> QED BY <1>1, BrowserInvInit, BrowserInvStep, PTL DEF BrowserSpec

\* The index of a list that was left behind never kills the process but in an
\* empty directory, whatever the tree looks like.
THEOREM OnlyEmptyKills == BrowserSpec => []DiesInEmpty
<1>1. BrowserInv => DiesInEmpty
  BY DEF BrowserInv
<1> QED BY <1>1, BrowserInvInit, BrowserInvStep, PTL DEF BrowserSpec

-----------------------------------------------------------------------------
(* WheelCursor: the lines of a text *)

\* A set of natural numbers has a least element.
LEMMA FirstOf ==
  ASSUME NEW S \in SUBSET Nat, S # {}
  PROVE  First(S) \in S /\ \A r \in S : First(S) <= r
<1> DEFINE R == OpToRel(<, Nat)
<1>1. IsWellFoundedOn(R, Nat)
  BY NatLessThanWellFounded
<1> HIDE DEF R
<1>2. PICK x \in S : \A y \in S : ~ (<<y, x>> \in R)
  BY <1>1, WFMin
<1>3. \A y \in S : ~ (y < x)
  BY <1>2 DEF R, OpToRel
<1>4. \A y \in S : x <= y
  BY <1>3
<1> QED BY <1>4 DEF First

\* A bounded one has a greatest.
LEMMA LastOf ==
  ASSUME NEW N \in Nat, NEW S \in SUBSET (0 .. N), S # {}
  PROVE  Last(S) \in S /\ \A r \in S : r <= Last(S)
<1> DEFINE D == {N - i : i \in S}
<1>0. \A i \in S : i \in 0 .. N /\ N - i \in Nat
  OBVIOUS
<1>1. D \in SUBSET Nat /\ D # {}
  BY <1>0
<1>2. First(D) \in D /\ \A y \in D : First(D) <= y
  BY <1>1, FirstOf
<1>3. PICK i \in S : First(D) = N - i
  BY <1>2
<1>4. \A j \in S : j <= i
  <2> TAKE j \in S
  <2>1. N - j \in D /\ j \in 0 .. N /\ i \in 0 .. N
    BY <1>0
  <2>2. N - i <= N - j
    BY <1>2, <1>3, <2>1
  <2> QED BY <2>1, <2>2
<1> QED BY <1>4 DEF Last

\* The newlines on one side of a position.
LEMMA NewlinesOf ==
  ASSUME WheelTypeOK
  PROVE  /\ Len(text) \in Nat
         /\ \A q \in Newlines : q \in 0 .. Len(text) - 1 /\ q \in Nat /\ text[q + 1] = "newline"
         /\ \A q, p : q \in AtOrBefore(p) <=> q \in Newlines /\ q <= p
         /\ \A q, p : q \in AtOrAfter(p) <=> q \in Newlines /\ q >= p
<1>1. Len(text) \in Nat
  BY DEF WheelTypeOK
<1>2. \A q \in Newlines : q \in 0 .. Len(text) - 1 /\ q \in Nat /\ text[q + 1] = "newline"
  BY <1>1 DEF Newlines
<1> QED BY <1>1, <1>2 DEF AtOrBefore, AtOrAfter

\* What is counted: the newlines before a position.
LEMMA NewlinesBefore ==
  ASSUME WheelTypeOK, NEW p \in Int
  PROVE  /\ Len(text) \in Nat /\ Newlines \subseteq 0 .. Len(text) - 1
         /\ IsFiniteSet(AtOrBefore(p)) /\ Cardinality(AtOrBefore(p)) \in Nat
         /\ AtOrBefore(p) \subseteq Newlines
<1>1. Len(text) \in Nat /\ Newlines \subseteq 0 .. Len(text) - 1
  BY DEF WheelTypeOK, Newlines
<1>2. AtOrBefore(p) \subseteq Newlines
  BY DEF AtOrBefore
<1>3. IsFiniteSet(0 .. Len(text) - 1)
  <2>1. 0 \in Int /\ Len(text) - 1 \in Int
    BY <1>1
  <2> QED BY <2>1, FS_Interval
<1>4. IsFiniteSet(AtOrBefore(p))
  BY <1>1, <1>2, <1>3, FS_Subset
<1> QED BY <1>1, <1>2, <1>4, FS_CardinalityType

\* The wheel leaves the cursor in the text, on a newline or behind one.
LEMMA WheelPlace ==
  ASSUME WheelTypeOK
  PROVE  NextPos(cursor) \in 0 .. Len(text) /\ PrevPos(cursor) \in 0 .. Len(text)
<1>0. cursor \in 0 .. Len(text) /\ Len(text) \in Nat /\ Newlines \subseteq 0 .. Len(text) - 1
  BY NewlinesBefore DEF WheelTypeOK
<1>1. NextPos(cursor) \in 0 .. Len(text)
  <2> DEFINE found == AtOrAfter(cursor)
  <2>1. found \in SUBSET Nat /\ found \subseteq 0 .. Len(text) - 1
    <3>1. \A q \in found : q \in Nat /\ q \in 0 .. Len(text) - 1
      BY NewlinesOf
    <3> QED BY <3>1
  <2>2. CASE found # {} /\ First(found) < Len(text) - 1
    <3>1. First(found) \in found
      BY <2>1, <2>2, FirstOf
    <3>2. First(found) \in 0 .. Len(text) - 1
      BY <2>1, <3>1
    <3>3. First(found) + 1 \in 0 .. Len(text)
      BY <1>0, <3>2
    <3> QED BY <2>2, <3>3 DEF NextPos
  <2>3. CASE ~(found # {} /\ First(found) < Len(text) - 1)
    BY <1>0, <2>3 DEF NextPos
  <2> QED BY <2>2, <2>3
<1>2. PrevPos(cursor) \in 0 .. Len(text)
  <2> DEFINE found == AtOrBefore(cursor - 1)
  <2>1. found \in SUBSET (0 .. Len(text))
    <3>1. \A q \in found : q \in 0 .. Len(text)
      BY NewlinesOf
    <3> QED BY <3>1
  <2>2. CASE cursor = 0 \/ found = {}
    BY <1>0, <2>2 DEF PrevPos
  <2>3. CASE ~(cursor = 0 \/ found = {})
    <3>1. Last(found) \in found
      BY <1>0, <2>1, <2>3, LastOf
    <3> QED BY <2>1, <2>3, <3>1 DEF PrevPos
  <2> QED BY <2>2, <2>3
<1> QED BY <1>1, <1>2

\* Two pieces of text.
LEMMA Joined ==
  ASSUME NEW s \in Seq(Chars), NEW t \in Seq(Chars)
  PROVE  s \o t \in Seq(Chars) /\ Len(s \o t) = Len(s) + Len(t)
  OBVIOUS

\* The text and the cursor stay what they are, under the wheel and the keys.
LEMMA WheelTypeStep == WheelTypeOK /\ [WheelNext]_wheelVars => WheelTypeOK'
<1> SUFFICES ASSUME WheelTypeOK, [WheelNext]_wheelVars PROVE WheelTypeOK'
  OBVIOUS
<1>0. /\ text \in Seq(Chars) /\ Len(text) \in Nat /\ Len(text) <= MaxText
      /\ cursor \in 0 .. Len(text) /\ MaxText \in Nat
  BY WheelAssumption DEF WheelTypeOK
<1>1. CASE WheelDown \/ WheelUp \/ Arrow \/ UNCHANGED wheelVars
  <2>1. text' = text /\ cursor' \in 0 .. Len(text)
    BY <1>0, <1>1, WheelPlace DEF WheelDown, WheelUp, Arrow, wheelVars
  <2> QED BY <1>0, <2>1 DEF WheelTypeOK
<1>2. CASE Insert
  <2>1. PICK ch \in Chars :
          text' = SubSeq(text, 1, cursor) \o <<ch>> \o SubSeq(text, cursor + 1, Len(text))
    BY <1>2 DEF Insert
  <2>2. /\ SubSeq(text, 1, cursor) \in Seq(Chars) /\ Len(SubSeq(text, 1, cursor)) = cursor
        /\ SubSeq(text, cursor + 1, Len(text)) \in Seq(Chars)
        /\ Len(SubSeq(text, cursor + 1, Len(text))) = Len(text) - cursor
    BY <1>0
  <2>3. text' \in Seq(Chars) /\ Len(text') = (cursor + 1) + (Len(text) - cursor)
    <3>1. <<ch>> \in Seq(Chars) /\ Len(<<ch>>) = 1
      OBVIOUS
    <3>2. SubSeq(text, 1, cursor) \o <<ch>> \in Seq(Chars) /\ Len(SubSeq(text, 1, cursor) \o <<ch>>) = cursor + 1
      BY <2>2, <3>1, Joined
    <3> QED BY <2>1, <2>2, <3>2, Joined
  <2>4. Len(text) < MaxText /\ cursor' = cursor + 1
    BY <1>2 DEF Insert
  <2>5. Len(text') <= MaxText /\ cursor' \in 0 .. Len(text')
    BY <1>0, <2>3, <2>4
  <2> QED BY <2>3, <2>5 DEF WheelTypeOK
<1>3. CASE Backspace
  <2>1. cursor > 0 /\ cursor' = cursor - 1
        /\ text' = SubSeq(text, 1, cursor - 1) \o SubSeq(text, cursor + 1, Len(text))
    BY <1>3 DEF Backspace
  <2>2. /\ SubSeq(text, 1, cursor - 1) \in Seq(Chars) /\ Len(SubSeq(text, 1, cursor - 1)) = cursor - 1
        /\ SubSeq(text, cursor + 1, Len(text)) \in Seq(Chars)
        /\ Len(SubSeq(text, cursor + 1, Len(text))) = Len(text) - cursor
    BY <1>0, <2>1
  <2>3. text' \in Seq(Chars) /\ Len(text') = (cursor - 1) + (Len(text) - cursor)
    BY <2>1, <2>2, Joined
  <2>4. cursor' = cursor - 1 /\ cursor > 0
    BY <2>1
  <2>5. Len(text') <= MaxText /\ cursor' \in 0 .. Len(text')
    BY <1>0, <2>3, <2>4
  <2> QED BY <2>3, <2>5 DEF WheelTypeOK
<1> QED BY <1>1, <1>2, <1>3 DEF WheelNext

\* One notch up leaves exactly one newline less above the cursor, unless there
\* is none.
LEMMA WheelUpLine ==
  ASSUME WheelTypeOK
  PROVE  LineOf(PrevPos(cursor)) = (IF LineOf(cursor) = 0 THEN 0 ELSE LineOf(cursor) - 1)
<1> DEFINE found == AtOrBefore(cursor - 1)
<1>0. /\ cursor \in Nat /\ cursor - 1 \in Int /\ Len(text) \in Nat
      /\ IsFiniteSet(found) /\ Cardinality(found) \in Nat
      /\ found \subseteq Newlines /\ Newlines \subseteq 0 .. Len(text) - 1
  <2>1. cursor \in Nat /\ cursor - 1 \in Int
    BY DEF WheelTypeOK
  <2> QED BY <2>1, NewlinesBefore
<1>1. LineOf(cursor) = Cardinality(found)
  BY DEF LineOf
<1>2. CASE found = {}
  <2>1. PrevPos(cursor) = cursor
    BY <1>2 DEF PrevPos
  <2> QED BY <1>1, <1>2, <2>1, FS_EmptySet
<1>3. CASE found # {}
  <2>1. cursor # 0
    <3>1. PICK q \in found : q \in 0 .. Len(text) - 1 /\ q <= cursor - 1
      BY <1>0, <1>3 DEF AtOrBefore
    <3> QED BY <1>0, <3>1
  <2> DEFINE l == Last(found)
  <2>2. found \in SUBSET (0 .. Len(text))
    <3>1. \A q \in found : q \in 0 .. Len(text)
      BY NewlinesOf
    <3> QED BY <3>1
  <2>3. l \in found /\ (\A r \in found : r <= l) /\ PrevPos(cursor) = l
    BY <1>0, <1>3, <2>1, <2>2, LastOf DEF PrevPos
  <2> HIDE DEF l
  <2>4. AtOrBefore(l - 1) = found \ {l}
    <3>1. l \in Newlines /\ l \in Nat /\ l <= cursor - 1
      BY <1>0, <2>3 DEF AtOrBefore
    <3>2. \A q \in Newlines : q \in Nat
      BY <1>0
    <3>3. \A q \in Newlines : q <= l - 1 => q <= cursor - 1 /\ q # l
      BY <1>0, <3>1, <3>2
    <3>4. \A q \in found : q # l => q <= l - 1
      BY <1>0, <2>3, <3>1, <3>2
    <3> QED BY <1>0, <3>3, <3>4 DEF AtOrBefore
  <2>5. Cardinality(found \ {l}) = Cardinality(found) - 1
    BY <1>0, <2>3, FS_RemoveElement
  <2>6. Cardinality(found) # 0
    BY <1>0, <1>3, FS_EmptySet
  <2> QED BY <1>1, <2>3, <2>4, <2>5, <2>6 DEF LineOf
<1> QED BY <1>2, <1>3

\* One notch down has one more, unless no line follows.
LEMMA WheelDownLine ==
  ASSUME WheelTypeOK
  PROVE  LET end == IF text # <<>> /\ text[Len(text)] = "newline" THEN Len(text) - 1 ELSE Len(text)
         IN  LineOf(NextPos(cursor)) = LineOf(cursor) + (IF LineOf(cursor) < LineOf(end) THEN 1 ELSE 0)
<1> DEFINE end == IF text # <<>> /\ text[Len(text)] = "newline" THEN Len(text) - 1 ELSE Len(text)
           found == AtOrAfter(cursor)
           above == AtOrBefore(cursor - 1)
           all == AtOrBefore(end - 1)
           f == First(found)
<1>0. /\ cursor \in 0 .. Len(text) /\ cursor - 1 \in Int /\ Len(text) \in Nat
      /\ Newlines \subseteq 0 .. Len(text) - 1
      /\ \A p \in Int : IsFiniteSet(AtOrBefore(p)) /\ Cardinality(AtOrBefore(p)) \in Nat
  <2>1. cursor \in 0 .. Len(text) /\ cursor - 1 \in Int
    BY DEF WheelTypeOK
  <2> QED BY <2>1, NewlinesBefore
<1>1. end \in {Len(text), Len(text) - 1} /\ end - 1 \in Int /\ end - 1 >= Len(text) - 2
  BY <1>0
<1>2. LineOf(cursor) = Cardinality(above) /\ LineOf(end) = Cardinality(all)
      /\ Cardinality(above) \in Nat /\ Cardinality(all) \in Nat
      /\ IsFiniteSet(above) /\ IsFiniteSet(all)
  BY <1>0, <1>1 DEF LineOf
<1>3. \A q \in Newlines : q \in Int /\ 0 <= q /\ q <= Len(text) - 1
  BY <1>0
<1>4. found \in SUBSET Nat /\ \A q \in Newlines : q \in found <=> q >= cursor
  <2>1. \A q \in found : q \in Nat
    BY NewlinesOf
  <2>2. \A q \in Newlines : q \in found <=> q >= cursor
    BY NewlinesOf
  <2> QED BY <2>1, <2>2
<1>5. \A q, p : q \in AtOrBefore(p) <=> q \in Newlines /\ q <= p
  BY NewlinesOf
<1>6. found # {} => f \in found /\ f \in Newlines /\ f >= cursor /\ \A r \in found : f <= r
  <2>1. found \subseteq Newlines
    BY DEF AtOrAfter
  <2> QED BY <1>4, <2>1, FirstOf
<1> HIDE DEF found, above, all, f, end
<1>7. CASE found # {} /\ f < Len(text) - 1
  <2>1. NextPos(cursor) = f + 1
    BY <1>7 DEF NextPos, found, f
  <2>2. f \in Int /\ (f + 1) - 1 = f
    BY <1>3, <1>6, <1>7
  <2>3. AtOrBefore(f) = above \union {f}
    <3>1. ASSUME NEW q \in AtOrBefore(f) PROVE q \in above \union {f}
      <4>1. q \in Newlines /\ q <= f /\ q \in Int
        BY <1>3, <1>5, <3>1
      <4>2. CASE q >= cursor
        <5>1. f <= q
          BY <1>4, <1>6, <1>7, <4>1, <4>2
        <5> QED BY <2>2, <4>1, <5>1
      <4>3. CASE ~(q >= cursor)
        <5>1. q <= cursor - 1
          BY <1>0, <4>1, <4>3
        <5> QED BY <1>5, <4>1, <5>1 DEF above
      <4> QED BY <4>2, <4>3
    <3>2. ASSUME NEW q \in above \union {f} PROVE q \in AtOrBefore(f)
      <4>1. q \in Newlines /\ (q = f \/ q <= cursor - 1)
        BY <1>5, <1>6, <1>7, <3>2 DEF above
      <4>2. q <= f
        BY <1>0, <1>3, <1>6, <1>7, <2>2, <4>1
      <4> QED BY <1>5, <4>1, <4>2
    <3> QED BY <3>1, <3>2
  <2>4. f \notin above
    BY <1>0, <1>5, <1>6, <1>7, <2>2 DEF above
  <2>5. Cardinality(above \union {f}) = Cardinality(above) + 1
    BY <1>2, <2>4, FS_AddElement
  <2>6. above \union {f} \subseteq all
    <3>1. f <= end - 1
      BY <1>0, <1>1, <1>7, <2>2
    <3>2. ASSUME NEW q \in above PROVE q \in all
      <4>1. q \in Newlines /\ q <= cursor - 1 /\ q \in Int
        BY <1>3, <1>5, <3>2 DEF above
      <4>2. cursor \in Int /\ cursor <= f
        BY <1>0, <1>6, <1>7, <2>2
      <4>3. end - 1 \in Int
        BY <1>1
      <4>4. q <= end - 1
        BY <2>2, <3>1, <4>1, <4>2, <4>3
      <4> QED BY <1>5, <4>1, <4>4 DEF all
    <3> QED BY <1>5, <1>6, <1>7, <3>1, <3>2 DEF all
  <2>7. Cardinality(above \union {f}) <= Cardinality(all)
    BY <1>2, <2>6, FS_Subset
  <2>8. LineOf(NextPos(cursor)) = Cardinality(above) + 1
    BY <2>1, <2>2, <2>3, <2>5 DEF LineOf
  <2> QED BY <1>2, <2>5, <2>7, <2>8 DEF end
<1>8. CASE ~(found # {} /\ f < Len(text) - 1)
  <2>1. NextPos(cursor) = cursor
    BY <1>8 DEF NextPos, found, f
  <2>2. all \subseteq above
    <3> SUFFICES ASSUME NEW q \in all PROVE q \in above
      OBVIOUS
    <3>1. q \in Newlines /\ q <= end - 1 /\ q \in Int /\ q <= Len(text) - 1
      BY <1>3, <1>5 DEF all
    <3>2. ASSUME q >= cursor PROVE FALSE
      <4>1. q \in found /\ f <= q /\ f \in Newlines
        BY <1>4, <1>6, <3>1, <3>2
      <4>2. f \in Int /\ f = Len(text) - 1 /\ q = Len(text) - 1
        <5>1. f \in Int /\ f <= Len(text) - 1 /\ ~(f < Len(text) - 1)
          BY <1>3, <1>8, <4>1
        <5>2. q \in Int /\ q <= Len(text) - 1 /\ f <= q
          BY <3>1, <4>1
        <5>3. Len(text) \in Int
          BY <1>0
        <5> QED BY <5>1, <5>2, <5>3
      <4>3. text[Len(text)] = "newline" /\ text # <<>>
        <5>1. text[q + 1] = "newline" /\ q + 1 = Len(text) /\ Len(text) > 0
          BY <1>0, <3>1, <4>2 DEF Newlines
        <5> QED BY <1>0, <5>1
      <4>4. end = Len(text) - 1
        BY <4>3 DEF end
      <4> QED BY <1>0, <3>1, <4>2, <4>4
    <3>3. q <= cursor - 1
      BY <1>0, <3>1, <3>2
    <3> QED BY <1>5, <3>1, <3>3 DEF above
  <2>3. Cardinality(all) <= Cardinality(above)
    BY <1>2, <2>2, FS_Subset
  <2> QED BY <1>2, <2>1, <2>3 DEF end
<1> QED BY <1>7, <1>8

\* The wheel moves the cursor by one line, wherever the keys have left it, in
\* texts of every length.
THEOREM WheelAlone == WheelSpec => [](WheelTypeOK /\ WheelGoesOn)
<1>1. WheelInit => WheelTypeOK
  BY WheelAssumption DEF WheelInit, WheelTypeOK
<1>2. WheelTypeOK => WheelGoesOn
  BY WheelUpLine, WheelDownLine DEF WheelGoesOn
<1> QED BY <1>1, <1>2, WheelTypeStep, PTL DEF WheelSpec

-----------------------------------------------------------------------------
(* The documents and the wheel of one process *)

\* What the runs check together is invariant together: each of the two parts
\* takes its own steps and leaves the other's variables alone.
EditorInv == DocsInv /\ WheelTypeOK

\* The two invariants hold together in every state.
LEMMA EditorInvAlways == MCSpec => []EditorInv
<1>1. MCInit => EditorInv
  BY DocsInvInit, WheelAssumption DEF MCInit, EditorInv, WheelInit, WheelTypeOK
<1>2. EditorInv /\ [MCNext]_<<allDocVars, wheelVars>> => EditorInv'
  <2> SUFFICES ASSUME EditorInv, [MCNext]_<<allDocVars, wheelVars>> PROVE EditorInv'
    OBVIOUS
  <2>1. [DocsNext]_allDocVars /\ [WheelNext]_wheelVars
    BY DEF MCNext
  <2> QED BY <2>1, DocsInvStep, WheelTypeStep DEF EditorInv
<1> QED BY <1>1, <1>2, PTL DEF MCSpec

\* Every variable of the tabs, of their texts and of the wheel keeps its type.
THEOREM EditorTyping == MCSpec => []TypesOK
<1>1. EditorInv => TypesOK
  BY DEF EditorInv, DocsInv, TypesOK
<1> QED BY <1>1, EditorInvAlways, PTL

\* set_next_line_pos and set_prev_line_pos move the cursor by one line, wherever
\* the keys and the wheel have left it, in texts of every length.
THEOREM WheelReachesAll == MCSpec => []WheelGoesOn
<1>1. EditorInv => WheelGoesOn
  BY WheelUpLine, WheelDownLine DEF EditorInv, WheelGoesOn
<1> QED BY <1>1, EditorInvAlways, PTL
=============================================================================
