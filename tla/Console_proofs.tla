---------------------------- MODULE Console_proofs ----------------------------
(***************************************************************************)
(* Proofs about Console, for all scripts, buttons and menu entries, and    *)
(* however long the user, the board and the world go on.                   *)
(***************************************************************************)
EXTENDS Console, TLAPS

\* A status that says of a script that it is loaded says its whole name.
Whole == {s \in Status : s.loaded => s.name # Stub}

\* The messages, when every status among them is whole.
WholeMessage ==
  [k : {"command", "transmit"}, c : Command] \union [k : {"recieve", "status"}, s : Whole]
    \union [k : {"error", "message", "pin"}]

\* The inductive invariant: types, and names that are whole wherever they are
\* said to be loaded.
ConsoleInv ==
  /\ TypeOK
  /\ queue \in Seq(WholeMessage)
  /\ status.name # Stub
  /\ NamesWhole

\* What a message carries.
LEMMA Carries ==
  ASSUME NEW m \in WholeMessage
  PROVE  /\ m \in Message
         /\ m.k \in {"command", "transmit"} => m.c \in Command
         /\ m.k \in {"recieve", "status"} => m.s \in Whole
  BY DEF WholeMessage, Message, Whole

\* The messages that are posted.
LEMMA Posted ==
  /\ \A c \in Command : [k |-> "command", c |-> c] \in WholeMessage
                        /\ [k |-> "transmit", c |-> c] \in WholeMessage
  /\ \A s \in Whole : [k |-> "recieve", s |-> s] \in WholeMessage
                      /\ [k |-> "status", s |-> s] \in WholeMessage
  /\ [k |-> "error"] \in WholeMessage /\ [k |-> "message"] \in WholeMessage
  /\ [k |-> "pin"] \in WholeMessage
  BY DEF WholeMessage

\* Whole messages are messages.
LEMMA WholeSeq == ASSUME NEW q \in Seq(WholeMessage) PROVE q \in Seq(Message)
<1>1. \A i \in 1 .. Len(q) : q[i] \in Message
  BY Carries
<1> QED BY <1>1

\* Serving a queue's head and posting ms.
LEMMA Served ==
  ASSUME NEW S, NEW q \in Seq(S), q # <<>>, NEW ms \in Seq(S)
  PROVE  Head(q) \in S /\ Tail(q) \in Seq(S) /\ Tail(q) \o ms \in Seq(S)
  OBVIOUS

\* One message or none.
LEMMA FewPosted ==
  ASSUME NEW S
  PROVE  /\ <<>> \in Seq(S)
         /\ \A m \in S : <<m>> \in Seq(S) /\ <<m, m>> \in Seq(S)
         /\ \A q \in Seq(S), ms \in Seq(S) : q \o ms \in Seq(S)
         /\ \A q \in Seq(S), m \in S : Append(q, m) \in Seq(S)
  OBVIOUS

\* What the status line says of a whole status.
LEMMA WholeLine ==
  ASSUME NEW s \in Whole, NEW lit \in BOOLEAN
  PROVE  /\ Line(s, lit) \in View
         /\ Line(s, lit).text \in Scripts \union {"None", "Name Too Big"}
<1>0. s.lua \in LuaStatus /\ s.version \in Nat /\ s.name \in Scripts \union {NoName, Stub, Endless}
      /\ (s.loaded => s.name # Stub)
  BY DEF Whole, Status
<1>1. NameText(s) \in Scripts \union {"None", "Name Too Big"}
  <2>1. CASE ~s.loaded \/ s.name = NoName
    BY <2>1 DEF NameText
  <2>2. CASE ~(~s.loaded \/ s.name = NoName) /\ s.name = Endless
    BY <2>2 DEF NameText
  <2>3. CASE ~(~s.loaded \/ s.name = NoName) /\ s.name # Endless
    <3>1. s.name \in Scripts
      BY <1>0, <2>3
    <3> QED BY <2>3, <3>1 DEF NameText
  <2> QED BY <2>1, <2>2, <2>3
<1>2. NameText(s) \in Text
  BY <1>1 DEF Text
<1> QED BY <1>0, <1>1, <1>2 DEF Line, View

\* What a status may come down to on its way is whole if it was.
LEMMA CutWhole ==
  ASSUME NEW s \in Status, s.name # Stub
  PROVE  {s} \union Cut(s) \subseteq Whole
<1>1. s \in Whole
  BY DEF Whole
<1>2. [NoStatus EXCEPT !.version = s.version] \in Whole
  BY ConsoleAssumption DEF NoStatus, Whole, Status
<1>3. [s EXCEPT !.loaded = FALSE] \in Whole
  BY DEF Whole, Status
<1>4. [s EXCEPT !.name = IF @ = NoName THEN NoName ELSE Stub, !.loaded = FALSE] \in Whole
  BY DEF Whole, Status
<1> QED BY <1>1, <1>2, <1>3, <1>4 DEF Cut

\* What the components do at an event.
LEMMA EventPosts ==
  ASSUME NEW e \in Events \union {Idle}
  PROVE  e.quits \in BOOLEAN /\ e.ms \in Seq(WholeMessage)
<1>0. \A c \in Command : CommandOf(c) \in WholeMessage
  BY Posted DEF CommandOf
<1>1. CASE e \in ButtonEvents
  <2>1. PICK c \in Buttons : e = [Idle EXCEPT !.ms = <<CommandOf(c)>>]
    BY <1>1 DEF ButtonEvents
  <2>2. c \in Command
    BY ConsoleAssumption DEF Command
  <2>3. e.quits = FALSE /\ e.ms = <<CommandOf(c)>>
    BY <2>1 DEF Idle
  <2> QED BY <1>0, <2>2, <2>3, FewPosted
<1>2. CASE e \in MenuEvents
  <2>1. PICK ms \in UNION {{<<CommandOf(d)>>, <<CommandOf(d), CommandOf(d)>>} : d \in Entries} :
          e = [Idle EXCEPT !.ms = ms]
    BY <1>2 DEF MenuEvents
  <2>4. PICK c \in Entries : ms = <<CommandOf(c)>> \/ ms = <<CommandOf(c), CommandOf(c)>>
    OBVIOUS
  <2>2. c \in Command
    BY ConsoleAssumption DEF Command
  <2>3. e.quits = FALSE /\ e.ms = ms
    BY <2>1 DEF Idle
  <2> QED BY <1>0, <2>2, <2>3, <2>4, FewPosted
<1>3. CASE e = ExitEvent \/ e = BareButtonEvent \/ e = Idle
  <2>1. e.quits \in BOOLEAN /\ e.ms = <<>>
    <3>1. e = ExitEvent => e.quits = TRUE /\ e.ms = <<>>
      BY DEF ExitEvent, Idle
    <3>2. e = BareButtonEvent => e.quits = FALSE /\ e.ms = <<>>
      BY DEF BareButtonEvent, Idle
    <3>3. e = Idle => e.quits = FALSE /\ e.ms = <<>>
      BY DEF Idle
    <3> QED BY <1>3, <3>1, <3>2, <3>3
  <2> QED BY <2>1, FewPosted
<1>4. e \in ButtonEvents \/ e \in MenuEvents \/ e = ExitEvent \/ e = BareButtonEvent \/ e = Idle
  BY DEF Events
<1> QED BY <1>1, <1>2, <1>3, <1>4

\* At the start nothing has been received.
LEMMA ConsoleInvInit == Init => ConsoleInv
<1> SUFFICES ASSUME Init PROVE ConsoleInv
  OBVIOUS
<1>1. NoStatus \in Whole /\ NoStatus.name # Stub /\ NoStatus \in Status
  BY ConsoleAssumption DEF NoStatus, Whole, Status
<1>2. held \in View /\ drawn \in View /\ NamesWhole
  BY <1>1, WholeLine DEF Init, NamesWhole
<1>3. queue \in Seq(WholeMessage) /\ queue \in Seq(Message)
  BY FewPosted DEF Init
<1>4. out \in Seq(Command)
  BY FewPosted DEF Init
<1>5. proc \in {"up", "ended", "dead"}
  BY DEF Init, Started
<1>6. events \in 0 .. MaxEvents
  BY ConsoleAssumption DEF Init
<1> QED BY <1>1, <1>2, <1>3, <1>4, <1>5, <1>6 DEF Init, TypeOK, ConsoleInv

\* What is left of TypeOK when the process, the flags and the counters are apart.
FlagsOK ==
  /\ envSet \in BOOLEAN /\ stopping \in BOOLEAN /\ raised \in BOOLEAN
  /\ proc \in {"up", "ended", "dead"}
  /\ loopUp \in BOOLEAN /\ quit \in BOOLEAN /\ dirty \in BOOLEAN
  /\ plugged \in BOOLEAN /\ asked \in BOOLEAN /\ mishap \in BOOLEAN
DataOK ==
  /\ held \in View /\ drawn \in View /\ NamesWhole
  /\ queue \in Seq(WholeMessage) /\ out \in Seq(Command)
  /\ status \in Status /\ status.name # Stub
  /\ version \in Nat /\ events \in 0 .. MaxEvents

\* The invariant in these two parts.
LEMMA InvParts == ConsoleInv <=> FlagsOK /\ DataOK
  BY WholeSeq DEF ConsoleInv, TypeOK, FlagsOK, DataOK

\* The same of the next state.
LEMMA InvPartsNext == ConsoleInv' <=> (FlagsOK /\ DataOK)'
<1>1. queue' \in Seq(WholeMessage) => queue' \in Seq(Message)
  BY WholeSeq
<1> QED BY <1>1 DEF ConsoleInv, TypeOK, FlagsOK, DataOK

\* The events that are counted stay within their bound.
LEMMA Counted == ASSUME events \in 0 .. MaxEvents, Happens PROVE events' \in 0 .. MaxEvents
  BY ConsoleAssumption DEF Happens

\* A tick, with an event of the user or without.
LEMMA LoopKeeps ==
  ASSUME FlagsOK, DataOK, NEW expired \in BOOLEAN, NEW e \in Events \union {Idle}, OnLoop(expired, e),
         events' \in 0 .. MaxEvents
  PROVE  FlagsOK' /\ DataOK'
<1>0. e.quits \in BOOLEAN /\ e.ms \in Seq(WholeMessage)
  BY EventPosts
<1>1. UNCHANGED <<envSet, loopUp, plugged, out, asked, mishap, status, version>>
  BY DEF OnLoop, boardVars
<1>2. /\ quit' \in BOOLEAN /\ raised' \in BOOLEAN /\ dirty' \in BOOLEAN
      /\ proc' \in {"up", "ended", "dead"}
  <2>1. CASE quit
    BY <2>1 DEF OnLoop, FlagsOK
  <2>2. CASE ~quit
    <3>1. quit' = (raised \/ e.quits) /\ raised' = FALSE /\ dirty' = FALSE
          /\ proc' = IF e.dies THEN "dead" ELSE proc
      BY <2>2 DEF OnLoop
    <3>2. (raised \/ e.quits) \in BOOLEAN
      BY <1>0 DEF FlagsOK
    <3> QED BY <3>1, <3>2 DEF FlagsOK
  <2> QED BY <2>1, <2>2
<1>3. stopping' \in BOOLEAN
  <2>1. (stopping \/ (quit' /\ envSet)) \in BOOLEAN
    OBVIOUS
  <2> QED BY <2>1 DEF OnLoop, Leave
<1>4. held' \in View /\ drawn' \in View /\ NamesWhole' /\ queue' \in Seq(WholeMessage)
  <2>1. CASE quit
    BY <2>1 DEF OnLoop, DataOK, NamesWhole
  <2>2. CASE ~quit
    <3> DEFINE now == [held EXCEPT !.lit = held.lit /\ ~expired]
    <3>1. held' = now /\ (drawn' = now \/ drawn' = drawn) /\ queue' = queue \o e.ms
      BY <2>2 DEF OnLoop
    <3>2. now \in View /\ now.text = held.text
      <4>1. (held.lit /\ ~expired) \in BOOLEAN
        OBVIOUS
      <4> QED BY <4>1 DEF View, DataOK
    <3>3. queue \o e.ms \in Seq(WholeMessage)
      BY <1>0, FewPosted DEF DataOK
    <3> QED BY <3>1, <3>2, <3>3 DEF DataOK, NamesWhole
  <2> QED BY <2>1, <2>2
<1> QED BY <1>1, <1>2, <1>3, <1>4 DEF FlagsOK, DataOK

\* The worker serves a message.
LEMMA ServeKeeps ==
  ASSUME FlagsOK, DataOK, Serve, events' = events
  PROVE  FlagsOK' /\ DataOK'
<1>0. /\ queue # <<>> /\ Head(queue) \in WholeMessage
      /\ \A ms \in Seq(WholeMessage) : Tail(queue) \o ms \in Seq(WholeMessage)
  <2>1. queue # <<>> /\ queue \in Seq(WholeMessage)
    BY DEF Serve, OnCommand, OnTransmit, OnError, OnRecieve, OnStatus, OnPin, OnMessage, Serving, DataOK
  <2> QED BY <2>1, Served, FewPosted
<1>1. CASE OnCommand
  <2>1. Head(queue).c \in Command
    BY <1>0, <1>1, Carries DEF OnCommand, Serving
  <2>2. queue' \in Seq(WholeMessage)
    BY <1>0, <1>1, <2>1, Posted, FewPosted DEF OnCommand, Rest
  <2>3. UNCHANGED <<procVars, guiVars, plugged, out, asked, mishap, boardVars>>
    BY <1>1 DEF OnCommand
  <2> QED BY <2>2, <2>3 DEF FlagsOK, DataOK, NamesWhole, procVars, guiVars, boardVars
<1>2. CASE OnTransmit
  <2>1. Head(queue).c \in Command
    BY <1>0, <1>2, Carries DEF OnTransmit, Serving
  <2>2. queue' \in Seq(WholeMessage)
    <3>1. Rest(<<>>) \/ Rest(<<[k |-> "error"]>>)
      BY <1>2 DEF OnTransmit
    <3> QED BY <1>0, <3>1, Posted, FewPosted DEF Rest
  <2>3. out' = out \/ out' = Append(out, Head(queue).c)
    BY <1>2 DEF OnTransmit
  <2>4. out' \in Seq(Command)
    BY <2>1, <2>3, FewPosted DEF DataOK
  <2>5. mishap' \in BOOLEAN
    BY <1>2 DEF OnTransmit, FlagsOK
  <2>6. UNCHANGED <<procVars, guiVars, plugged, asked, boardVars>>
    BY <1>2 DEF OnTransmit
  <2> QED BY <2>2, <2>4, <2>5, <2>6 DEF FlagsOK, DataOK, NamesWhole, procVars, guiVars, boardVars
<1>3. CASE OnError
  <2>1. ToGui([k |-> "message"]) \in Seq(WholeMessage)
    BY Posted, FewPosted DEF ToGui
  <2>2. queue' \in Seq(WholeMessage)
    BY <1>0, <1>3, <2>1 DEF OnError, Rest
  <2>3. UNCHANGED <<procVars, guiVars, plugged, out, asked, mishap, boardVars>>
    BY <1>3 DEF OnError
  <2> QED BY <2>2, <2>3 DEF FlagsOK, DataOK, NamesWhole, procVars, guiVars, boardVars
<1>4. CASE OnRecieve
  <2>1. Head(queue).s \in Whole
    BY <1>0, <1>4, Carries DEF OnRecieve, Serving
  <2>2. ToGui([k |-> "status", s |-> Head(queue).s]) \in Seq(WholeMessage)
    BY <2>1, Posted, FewPosted DEF ToGui
  <2>3. queue' \in Seq(WholeMessage)
    BY <1>0, <1>4, <2>2 DEF OnRecieve, Rest
  <2>4. mishap' \in BOOLEAN
    <3>1. (mishap \/ ~loopUp) \in BOOLEAN
      OBVIOUS
    <3> QED BY <1>4, <3>1 DEF OnRecieve
  <2>5. UNCHANGED <<procVars, guiVars, plugged, out, asked, boardVars>>
    BY <1>4 DEF OnRecieve
  <2> QED BY <2>3, <2>4, <2>5 DEF FlagsOK, DataOK, NamesWhole, procVars, guiVars, boardVars
<1>5. CASE OnStatus
  <2>1. Head(queue).s \in Whole
    BY <1>0, <1>5, Carries DEF OnStatus, Serving
  <2>2. held.lit \in BOOLEAN
    BY DEF DataOK, View
  <2>3. held' \in View /\ NamesWhole'
    BY <1>5, <2>1, <2>2, WholeLine DEF OnStatus, NamesWhole
  <2>4. queue' \in Seq(WholeMessage)
    BY <1>0, <1>5, FewPosted DEF OnStatus, Rest
  <2>5. dirty' = TRUE /\ UNCHANGED <<procVars, loopUp, quit, drawn, plugged, out, asked, mishap, boardVars>>
    BY <1>5 DEF OnStatus
  <2> QED BY <2>3, <2>4, <2>5 DEF FlagsOK, DataOK, procVars, boardVars
<1>6. CASE OnPin
  <2>1. held' \in View /\ held'.text = held.text
    BY <1>6 DEF OnPin, DataOK, View
  <2>2. queue' \in Seq(WholeMessage)
    BY <1>0, <1>6, FewPosted DEF OnPin, Rest
  <2>3. dirty' = TRUE /\ UNCHANGED <<procVars, loopUp, quit, drawn, plugged, out, asked, mishap, boardVars>>
    BY <1>6 DEF OnPin
  <2> QED BY <2>1, <2>2, <2>3 DEF FlagsOK, DataOK, NamesWhole, procVars, boardVars
<1>7. CASE OnMessage
  <2>1. queue' \in Seq(WholeMessage)
    BY <1>0, <1>7, FewPosted DEF OnMessage, Rest
  <2>2. UNCHANGED <<procVars, guiVars, plugged, out, asked, mishap, boardVars>>
    BY <1>7 DEF OnMessage
  <2> QED BY <2>1, <2>2 DEF FlagsOK, DataOK, NamesWhole, procVars, guiVars, boardVars
<1> QED BY <1>1, <1>2, <1>3, <1>4, <1>5, <1>6, <1>7 DEF Serve

\* main, libusb and the board take a step.
LEMMA OutsideKeeps ==
  ASSUME FlagsOK, DataOK,
         \/ (Signal \/ BoardChanges \/ PinChanges \/ Unplug)
         \/ (SetEnv \/ GuiStart \/ End \/ TransmitEnds \/ BoardReports) /\ events' = events
  PROVE  FlagsOK' /\ DataOK'
<1>0. events' \in 0 .. MaxEvents
  <2>1. Happens \/ events' = events
    BY DEF Signal, BoardChanges, PinChanges, Unplug
  <2> QED BY <2>1, Counted DEF DataOK
<1>1. CASE SetEnv \/ GuiStart \/ End \/ Signal
  <2>1. /\ UNCHANGED <<quit, held, drawn, wayVars, boardVars>>
        /\ envSet' = TRUE \/ envSet' = envSet
        /\ loopUp' = TRUE \/ loopUp' = loopUp
        /\ dirty' = TRUE \/ dirty' = dirty
        /\ raised' = TRUE \/ raised' = raised
        /\ proc' = "ended" \/ proc' = proc
    BY <1>1 DEF SetEnv, GuiStart, End, Signal, procVars, guiVars
  <2>2. stopping' \in BOOLEAN
    <3>1. (stopping \/ envSet) \in BOOLEAN
      OBVIOUS
    <3>2. stopping' = stopping \/ stopping' = (stopping \/ envSet)
      BY <1>1 DEF SetEnv, GuiStart, End, Signal, procVars
    <3> QED BY <3>1, <3>2 DEF FlagsOK
  <2>3. FlagsOK'
    BY <2>1, <2>2 DEF FlagsOK, wayVars
  <2> QED BY <1>0, <2>1, <2>3 DEF DataOK, NamesWhole, wayVars, boardVars
<1>2. CASE TransmitEnds
  <2>1. out' \in Seq(Command)
    BY <1>2 DEF TransmitEnds, DataOK
  <2>2. asked' \in BOOLEAN /\ mishap' \in BOOLEAN
    <3>1. (asked \/ Head(out) = "GET_STATUS") \in BOOLEAN
      OBVIOUS
    <3>2. asked' = asked \/ asked' = (asked \/ Head(out) = "GET_STATUS")
      BY <1>2 DEF TransmitEnds
    <3>3. mishap' = mishap \/ mishap' = TRUE
      BY <1>2 DEF TransmitEnds
    <3> QED BY <3>1, <3>2, <3>3 DEF FlagsOK
  <2>3. UNCHANGED <<procVars, guiVars, queue, plugged, boardVars>>
    BY <1>2 DEF TransmitEnds
  <2> QED BY <1>0, <2>1, <2>2, <2>3 DEF FlagsOK, DataOK, NamesWhole, procVars, guiVars, boardVars
<1>3. CASE BoardReports
  <2>1. PICK s \in {status} \union Cut(status) :
          /\ queue' = Append(queue, [k |-> "recieve", s |-> s])
          /\ mishap' = (mishap \/ s # status)
    BY <1>3 DEF BoardReports
  <2>2. s \in Whole
    BY CutWhole DEF DataOK
  <2>3. queue' \in Seq(WholeMessage)
    BY <2>1, <2>2, Posted, FewPosted DEF DataOK
  <2>4. mishap' \in BOOLEAN
    <3>1. (mishap \/ s # status) \in BOOLEAN
      OBVIOUS
    <3> QED BY <2>1, <3>1
  <2>5. asked' = FALSE /\ UNCHANGED <<procVars, guiVars, plugged, out, boardVars>>
    BY <1>3 DEF BoardReports
  <2> QED BY <1>0, <2>3, <2>4, <2>5 DEF FlagsOK, DataOK, NamesWhole, procVars, guiVars, boardVars
<1>4. CASE BoardChanges
  <2>1. version' \in Nat
    BY <1>4 DEF BoardChanges, DataOK
  <2>2. status' \in Status /\ status'.name \in Scripts \union {NoName, Endless}
    <3>1. status' \in [lua : LuaStatus, name : Scripts \union {NoName, Endless}, loaded : BOOLEAN,
                       version : {version'}]
      BY <1>4 DEF BoardChanges
    <3> QED BY <2>1, <3>1 DEF Status
  <2>3. status'.name # Stub
    BY <2>2, ConsoleAssumption
  <2>4. asked' \in BOOLEAN
    BY <1>4 DEF BoardChanges, FlagsOK
  <2>5. UNCHANGED <<procVars, guiVars, queue, plugged, out, mishap>>
    BY <1>4 DEF BoardChanges
  <2> QED BY <1>0, <2>1, <2>2, <2>3, <2>4, <2>5 DEF FlagsOK, DataOK, NamesWhole, procVars, guiVars
<1>5. CASE PinChanges
  <2>1. queue' \in Seq(WholeMessage)
    BY <1>5, Posted, FewPosted DEF PinChanges, DataOK
  <2>2. UNCHANGED <<procVars, guiVars, plugged, out, asked, mishap, boardVars>>
    BY <1>5 DEF PinChanges
  <2> QED BY <1>0, <2>1, <2>2 DEF FlagsOK, DataOK, NamesWhole, procVars, guiVars, boardVars
<1>6. CASE Unplug
  <2>1. plugged' = FALSE /\ asked' = FALSE /\ mishap' = TRUE /\ out' = <<>>
        /\ UNCHANGED <<procVars, guiVars, queue, boardVars>>
    BY <1>6 DEF Unplug
  <2>2. out' \in Seq(Command)
    BY <2>1, FewPosted
  <2> QED BY <1>0, <2>1, <2>2 DEF FlagsOK, DataOK, NamesWhole, procVars, guiVars, boardVars
<1> QED BY <1>1, <1>2, <1>3, <1>4, <1>5, <1>6

\* Every step keeps the invariant.
LEMMA ConsoleInvStep == ConsoleInv /\ [Next]_vars => ConsoleInv'
<1> SUFFICES ASSUME FlagsOK /\ DataOK, [Next]_vars PROVE FlagsOK' /\ DataOK'
  <2>1. ConsoleInv' <=> FlagsOK' /\ DataOK'
    BY InvPartsNext
  <2> QED BY <2>1, InvParts
<1>1. CASE Press
  <2>1. PICK e \in Events : OnLoop(FALSE, e)
    BY <1>1 DEF Press
  <2>2. events' \in 0 .. MaxEvents
    BY <1>1, Counted DEF Press, DataOK
  <2> QED BY <2>1, <2>2, LoopKeeps
<1>2. CASE Tick /\ events' = events
  <2>1. PICK expired \in BOOLEAN : OnLoop(expired, Idle)
    BY <1>2 DEF Tick
  <2>2. events' \in 0 .. MaxEvents
    BY <1>2 DEF DataOK
  <2> QED BY <2>1, <2>2, LoopKeeps
<1>3. CASE Serve /\ events' = events
  BY <1>3, ServeKeeps
<1>4. CASE \/ (Signal \/ BoardChanges \/ PinChanges \/ Unplug)
           \/ (SetEnv \/ GuiStart \/ End \/ TransmitEnds \/ BoardReports) /\ events' = events
  BY <1>4, OutsideKeeps
<1>5. CASE UNCHANGED vars
  BY <1>5 DEF vars, procVars, guiVars, wayVars, boardVars, FlagsOK, DataOK, NamesWhole
<1> QED BY <1>1, <1>2, <1>3, <1>4, <1>5 DEF Next

\* The invariant holds in every state of a behaviour.
LEMMA ConsoleAlways == Spec => []ConsoleInv
  BY ConsoleInvInit, ConsoleInvStep, PTL DEF Spec

\* Every variable keeps its type.
THEOREM Typing == Spec => []TypeOK
<1>1. ConsoleInv => TypeOK
  BY DEF ConsoleInv
<1> QED BY <1>1, ConsoleAlways, PTL

\* The status line never shows a part of a name, whatever a receive cut off of a
\* STATUS packet and whatever else was on the way.
THEOREM NamesAreWhole == Spec => []NamesWhole
<1>1. ConsoleInv => NamesWhole
  BY DEF ConsoleInv
<1> QED BY <1>1, ConsoleAlways, PTL
=============================================================================
