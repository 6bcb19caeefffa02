---------------------------- MODULE UsbAgent_proofs ----------------------------
(***************************************************************************)
(* Proofs about what the two threads of UsbBulkAgent do to each other: the *)
(* handle and its announcement, the receive pump, and stale handles.       *)
(***************************************************************************)
EXTENDS UsbLink_proofs, FiniteSetTheorems

-----------------------------------------------------------------------------
\* Serving a message leaves what Device settles on alone.
LEMMA ToldServe ==
  ASSUME inbox \in Seq(Messages), connected \in BOOLEAN, connected' \in BOOLEAN,
         NEW ms \in Seq(Messages), Without(ms, "hotplug"), Without(ms, "hotunplug"),
         inbox # <<>>, inbox' = Tail(inbox) \o ms,
         connected' <=> (Head(inbox) = "hotplug" \/ (connected /\ Head(inbox) # "hotunplug"))
  PROVE  Told' <=> Told
<1>1. Tail(inbox) \in Seq(Messages)
  BY PostType
<1>2. Settles(inbox', "hotplug", "hotunplug", connected')
        <=> Settles(Tail(inbox), "hotplug", "hotunplug", connected')
  BY <1>1, SettlesQuiet
<1>3. Settles(Tail(inbox), "hotplug", "hotunplug", connected')
        <=> Settles(inbox, "hotplug", "hotunplug", connected)
  BY SettlesTail
<1> QED BY <1>2, <1>3 DEF Told

\* So does posting what is no announcement to it.
LEMMA ToldPost ==
  ASSUME inbox \in Seq(Messages), connected' = connected,
         NEW ms \in Seq(Messages), Without(ms, "hotplug"), Without(ms, "hotunplug"),
         inbox' = inbox \o ms
  PROVE  Told' <=> Told
  BY SettlesQuiet DEF Told

\* A message that is not about the hot plug keeps the queue without one.
LEMMA QuietMessages ==
  /\ \A m \in Messages \ {"hotplug", "hotunplug"} :
       /\ <<m>> \in Seq(Messages) /\ Without(<<m>>, "hotplug") /\ Without(<<m>>, "hotunplug")
       /\ ToGui(m) \in Seq(Messages) /\ Without(ToGui(m), "hotplug") /\ Without(ToGui(m), "hotunplug")
       /\ \A n \in Messages \ {"hotplug", "hotunplug"} :
            /\ ToGui(m) \o <<n>> \in Seq(Messages)
            /\ Without(ToGui(m) \o <<n>>, "hotplug") /\ Without(ToGui(m) \o <<n>>, "hotunplug")
            /\ <<m, n>> \in Seq(Messages)
            /\ Without(<<m, n>>, "hotplug") /\ Without(<<m, n>>, "hotunplug")
  /\ <<>> \in Seq(Messages) /\ Without(<<>>, "hotplug") /\ Without(<<>>, "hotunplug")
<1> DEFINE Quiet(ms) == ms \in Seq(Messages) /\ Without(ms, "hotplug") /\ Without(ms, "hotunplug")
<1>1. Quiet(<<>>)
  BY DEF Without
<1>2. ASSUME NEW m \in Messages \ {"hotplug", "hotunplug"}
      PROVE  /\ Quiet(<<m>>) /\ Quiet(ToGui(m))
             /\ \A n \in Messages \ {"hotplug", "hotunplug"} : Quiet(ToGui(m) \o <<n>>) /\ Quiet(<<m, n>>)
  <2>1. Quiet(<<m>>)
    BY <1>2 DEF Without
  <2>2. Quiet(ToGui(m))
    BY <1>1, <2>1 DEF ToGui
  <2>3. ASSUME NEW n \in Messages \ {"hotplug", "hotunplug"}
        PROVE  Quiet(ToGui(m) \o <<n>>) /\ Quiet(<<m, n>>)
    <3>1. Quiet(<<m, n>>)
      BY <1>2, <2>3 DEF Without
    <3>2. Quiet(<<m>> \o <<n>>)
      BY <1>2, <2>3 DEF Without
    <3>3. Quiet(<<>> \o <<n>>)
      BY <2>3 DEF Without
    <3> QED BY <3>1, <3>2, <3>3 DEF ToGui
  <2> QED BY <2>1, <2>2, <2>3
<1> QED BY <1>1, <1>2

\* The messages that are not about the hot plug.
LEMMA QuietNames ==
  {"error", "recv_ok", "recv_fail", "transmit", "gui_start", "command", "connected",
   "disconnected", "message", "usb_start"} \subseteq Messages \ {"hotplug", "hotunplug"}
  BY DEF Messages

\* The steps of Device, Gui, main and the user do not change what Device
\* settles on: they serve announcements and post none.
LEMMA QueueTold == ASSUME TypeOK, QueueStep PROVE Told' <=> Told
<1>0. inbox \in Seq(Messages) /\ connected \in BOOLEAN
  BY DEF TypeOK, AgentTypeOK
<1>1. CASE OnConnected
  <2>1. /\ inbox # <<>> /\ Head(inbox) = "hotplug" /\ connected' = TRUE
        /\ inbox' = Tail(inbox) \o (ToGui("connected") \o <<"transmit">>)
    BY <1>1 DEF OnConnected, Serve
  <2>2. connected' \in BOOLEAN
    BY <2>1, Bools
  <2> QED BY <1>0, <2>1, <2>2, ToldServe, QuietMessages, QuietNames
<1>2. CASE OnDisconnected
  <2>1. /\ inbox # <<>> /\ Head(inbox) = "hotunplug" /\ connected' = FALSE
        /\ inbox' = Tail(inbox) \o ToGui("disconnected")
    BY <1>2 DEF OnDisconnected, Serve
  <2>2. connected' \in BOOLEAN
    BY <2>1, Bools
  <2> QED BY <1>0, <2>1, <2>2, ToldServe, QuietMessages, QuietNames
<1>3. CASE OnError \/ OnRecieve \/ OnCommand \/ GuiMessage \/ GuiStart \/ GuiConnected \/ GuiDisconnected
  <2>1. PICK ms \in {ToGui("message"), <<>>, <<"transmit">>} :
          /\ inbox' = Tail(inbox) \o ms /\ inbox # <<>>
          /\ Head(inbox) \notin {"hotplug", "hotunplug"}
    <3>1. CASE OnError
      BY <3>1 DEF OnError, Serve
    <3>2. CASE OnRecieve
      BY <3>2 DEF OnRecieve, Serve
    <3>3. CASE OnCommand
      BY <3>3 DEF OnCommand, Serve
    <3>4. CASE GuiMessage \/ GuiStart
      BY <3>4 DEF GuiMessage, GuiStart, Serve
    <3>5. CASE GuiConnected \/ GuiDisconnected
      BY <3>5 DEF GuiConnected, GuiDisconnected, Serve
    <3> QED BY <1>3, <3>1, <3>2, <3>3, <3>4, <3>5
  <2>2. ms \in Seq(Messages) /\ Without(ms, "hotplug") /\ Without(ms, "hotunplug")
    <3>1. CASE ms = ToGui("message")
      BY <3>1, QuietMessages, QuietNames
    <3>2. CASE ms = <<"transmit">>
      BY <3>2, QuietMessages, QuietNames
    <3> QED BY <2>1, <3>1, <3>2, QuietMessages
  <2>3. connected' = connected
    BY <1>3 DEF OnError, OnRecieve, OnCommand, GuiMessage, GuiStart, GuiConnected, GuiDisconnected, linkVars
  <2> QED BY <1>0, <2>1, <2>2, <2>3, ToldServe
<1>4. CASE RegisterGui \/ Press
  <2>1. PICK m \in {"gui_start", "command"} : inbox' = inbox \o <<m>> /\ connected' = connected
    BY <1>4 DEF RegisterGui, Press, Post
  <2> QED BY <1>0, <2>1, ToldPost, QuietMessages, QuietNames
<1> QED BY <1>1, <1>2, <1>3, <1>4 DEF QueueStep

\* Of the agent's own steps only the two signals and the end of so_evt_start
\* change it.
LEMMA AgentTold ==
  ASSUME TypeOK, UNCHANGED linkVars, AgentWorker \/ UsbThread
  PROVE  /\ StartRecieve /\ HasDevice => Told'
         /\ SendHotplug => Told'
         /\ (Told' <=> Told) \/ StartRecieve \/ SendHotplug \/ SendHotunplug
<1>0. inbox \in Seq(Messages) /\ connected \in BOOLEAN /\ connected' = connected
  BY DEF TypeOK, AgentTypeOK, linkVars
<1>1. ASSUME StartRecieve, HasDevice PROVE Told'
  <2>1. PICK ms \in {<<"hotplug">>, <<"error">> \o <<"hotplug">>} : inbox' = inbox \o ms
    BY <1>1 DEF StartRecieve, Post
  <2>2. ms \in Seq(Messages) /\ ~Without(ms, "hotplug") /\ Without(ms, "hotunplug")
    <3>1. {"error", "hotplug"} \subseteq Messages
      BY DEF Messages
    <3>2. CASE ms = <<"hotplug">>
      BY <3>1, <3>2 DEF Without
    <3>3. CASE ms = <<"error">> \o <<"hotplug">>
      BY <3>1, <3>3 DEF Without
    <3> QED BY <3>2, <3>3
  <2> QED BY <1>0, <1>1, <2>1, <2>2, SettlesUp DEF Told
<1>2. ASSUME SendHotplug PROVE Told'
  <2>1. inbox' = inbox \o <<"hotplug">>
    BY <1>2 DEF SendHotplug, Post
  <2>2. <<"hotplug">> \in Seq(Messages) /\ ~Without(<<"hotplug">>, "hotplug") /\ Without(<<"hotplug">>, "hotunplug")
    BY DEF Messages, Without
  <2> QED BY <1>0, <1>2, <2>1, <2>2, SettlesUp DEF Told
<1>3. (Told' <=> Told) \/ StartRecieve \/ SendHotplug \/ SendHotunplug
  <2>1. CASE StartInit
    <3>1. PICK ms \in {<<>>, <<"error", "error">>} :
            inbox' = Tail(inbox) \o ms /\ inbox # <<>> /\ Head(inbox) = "usb_start"
      BY <1>0, <2>1, PostType DEF StartInit
    <3>2. ms \in Seq(Messages) /\ Without(ms, "hotplug") /\ Without(ms, "hotunplug")
      BY QuietMessages, QuietNames
    <3> QED BY <1>0, <3>1, <3>2, ToldServe
  <2>2. CASE TransmitCheck
    <3>1. PICK ms \in {<<>>, <<"error">>} :
            inbox' = Tail(inbox) \o ms /\ inbox # <<>> /\ Head(inbox) = "transmit"
      <4>1. inbox # <<>> => Tail(inbox) = Tail(inbox) \o <<>> /\ Append(Tail(inbox), "error") = Tail(inbox) \o <<"error">>
        BY <1>0, PostType
      <4> QED BY <2>2, <4>1 DEF TransmitCheck
    <3>2. ms \in Seq(Messages) /\ Without(ms, "hotplug") /\ Without(ms, "hotunplug")
      BY QuietMessages, QuietNames
    <3> QED BY <1>0, <3>1, <3>2, ToldServe
  <2>3. CASE TransmitSubmit
    BY <1>0, <2>3, ToldPost, QuietMessages, QuietNames DEF TransmitSubmit, Post, Told
  <2>4. CASE \E h \in Handles : RxCallback(h)
    <3>1. PICK m \in {"recv_ok", "recv_fail"} : inbox' = inbox \o <<m>>
      BY <2>4 DEF RxCallback, Post
    <3> QED BY <1>0, <3>1, ToldPost, QuietMessages, QuietNames
  <2>5. CASE inbox' = inbox
    BY <1>0, <2>5 DEF Told
  <2>6. CASE \/ StartOpen \/ TransmitRead \/ ArrivedCallback \/ LeftCallback
             \/ ResumeRecieve \/ ClearHandle \/ SecondPasses \/ Poll \/ PollCompare \/ NullOpen
             \/ \E h \in Handles : TxCallback(h)
    BY <2>5, <2>6 DEF StartOpen, TransmitRead, ArrivedCallback, LeftCallback, ResumeRecieve, ClearHandle,
       SecondPasses, Poll, PollCompare, NullOpen, TxCallback, agentVars
  <2> QED BY <2>1, <2>2, <2>3, <2>4, <2>6
      DEF AgentWorker, UsbThread, NoticeCallback, UsbThreadStep, Completion
<1> QED BY <1>1, <1>2, <1>3

\* Nothing but the bus attaches or detaches a board.
LEMMA BusAlone == AgentWorker \/ UsbThread => UNCHANGED <<attached, lastDev>>
<1>1. AgentWorker => UNCHANGED <<attached, lastDev>>
  BY DEF AgentWorker, StartInit, StartOpen, StartRecieve, TransmitCheck, TransmitRead, TransmitSubmit, libVars
<1>2. NoticeCallback => UNCHANGED <<attached, lastDev>>
  BY DEF NoticeCallback, ArrivedCallback, LeftCallback
<1>3. UsbThreadStep => UNCHANGED <<attached, lastDev>>
  BY DEF UsbThreadStep, SendHotplug, ResumeRecieve, ClearHandle, SendHotunplug, SecondPasses, Poll,
     PollCompare, NullOpen, libVars
<1>4. Completion => UNCHANGED <<attached, lastDev>>
  BY DEF Completion, RxCallback, TxCallback
<1> QED BY <1>1, <1>2, <1>3, <1>4 DEF UsbThread

-----------------------------------------------------------------------------
\* The inductive invariant.  so_evt_start runs before there is a usb thread;
\* m_dev_handle names an open handle except between libusb_close and nullptr;
\* the polling steps belong to a libusb without hotplug; an open device has been
\* announced by the time its callback ends.
StartFirst ==
  /\ wpc \in {"start_open", "start_recv"} => upc = "off"
  /\ \A i \in 1 .. Len(inbox) : inbox[i] = "usb_start" => i = 1
  /\ ~Without(inbox, "usb_start") => upc = "off" /\ wpc = "idle"

\* When the code without hotplug runs, and what it believes about the handle.
PollInv ==
  /\ HotplugCapable => upc \notin {"poll_cmp", "hp_null"}
  /\ last => upc = "hp_null"
  /\ upc = "hu_send" => ~HasDevice

\* The handle the agent has is open, but for the hot-unplug that clears it.
HandleOpen == HasDevice /\ upc # "hu_null" => IsOpen(handle)

\* While the loop runs with a device, Device has been told or will be.
Announced == upc \in {"top", "recv"} /\ HasDevice => Told

\* The inductive invariant of the agent.
AgentInv == StartFirst /\ PollInv /\ HandleOpen /\ Announced /\ PumpAlive

\* The agent starts out well.
LEMMA AgentInvInit == Init => AgentInv
  BY DEF Init, AgentInit, LibInit, AgentInv, StartFirst, PollInv, HandleOpen, Announced, PumpAlive, HasDevice

\* Nothing but main posts "usb_start", and it does so once.
Others == Messages \ {"usb_start"}

\* A handler of Device or Gui takes one message and posts no "usb_start".
LEMMA QueueMoves ==
  ASSUME TypeOK, QueueStep
  PROVE  \E ms \in Seq(Others) :
           inbox' = inbox \o ms \/ (inbox # <<>> /\ inbox' = Tail(inbox) \o ms)
<1>0. inbox \in Seq(Messages)
  BY DEF TypeOK, AgentTypeOK
<1>1. {"connected", "disconnected", "message", "transmit", "command", "gui_start"} \subseteq Others
  BY DEF Messages, Others
<1>2. \A m \in Others : <<m>> \in Seq(Others) /\ ToGui(m) \in Seq(Others) /\ <<>> \in Seq(Others)
  BY DEF ToGui
<1>3. ToGui("connected") \o <<"transmit">> \in Seq(Others)
  BY <1>1, <1>2
<1>4. CASE OnConnected BY <1>3, <1>4 DEF OnConnected, Serve
<1>5. CASE OnDisconnected BY <1>1, <1>2, <1>5 DEF OnDisconnected, Serve
<1>6. CASE OnError BY <1>1, <1>2, <1>6 DEF OnError, Serve
<1>7. CASE OnRecieve BY <1>1, <1>2, <1>7 DEF OnRecieve, Serve
<1>8. CASE OnCommand BY <1>1, <1>2, <1>8 DEF OnCommand, Serve
<1>9. CASE GuiStart \/ GuiConnected \/ GuiDisconnected \/ GuiMessage
  BY <1>1, <1>2, <1>9 DEF GuiStart, GuiConnected, GuiDisconnected, GuiMessage, Serve
<1>10. CASE RegisterGui \/ Press BY <1>1, <1>2, <1>10 DEF RegisterGui, Press, Post
<1> QED BY <1>4, <1>5, <1>6, <1>7, <1>8, <1>9, <1>10 DEF QueueStep

\* When anything else is posted, "usb_start" stays at the head or gone.
LEMMA StartOnce ==
  ASSUME NEW q \in Seq(Messages), NEW ms \in Seq(Others),
         \A i \in 1 .. Len(q) : q[i] = "usb_start" => i = 1
  PROVE  /\ \A i \in 1 .. Len(q \o ms) : (q \o ms)[i] = "usb_start" => i = 1
         /\ ~Without(q \o ms, "usb_start") => ~Without(q, "usb_start")
         /\ q # <<>> => Without(Tail(q) \o ms, "usb_start")
<1>0. ms \in Seq(Messages) /\ \A i \in 1 .. Len(ms) : ms[i] # "usb_start"
  BY DEF Others
<1>1. \A i \in 1 .. Len(q \o ms) :
        (q \o ms)[i] = "usb_start" => i \in 1 .. Len(q) /\ q[i] = "usb_start"
  BY <1>0, ConcatAt
<1>2. ASSUME q # <<>> PROVE Without(Tail(q) \o ms, "usb_start")
  <2>1. Tail(q) \in Seq(Messages)
    BY <1>2, PostType
  <2>2. \A i \in 1 .. Len(Tail(q)) : Tail(q)[i] # "usb_start"
    BY <1>2, TailAt
  <2>3. \A i \in 1 .. Len(Tail(q) \o ms) : i \in 1 .. Len(Tail(q)) \/ i > Len(Tail(q))
    BY <2>1
  <2> QED BY <1>0, <2>1, <2>2, <2>3, ConcatAt DEF Without
<1> QED BY <1>1, <1>2 DEF Without

\* "usb_start" stays the first message the worker serves.
LEMMA StartFirstStep == ASSUME TypeOK, StartFirst, [Next]_vars PROVE StartFirst'
<1>0. inbox \in Seq(Messages)
  BY DEF TypeOK, AgentTypeOK
<1>1. CASE QueueStep
  <2>1. UNCHANGED <<upc, wpc>>
    BY <1>1, QueueFrame DEF ownVars
  <2>2. PICK ms \in Seq(Others) :
          inbox' = inbox \o ms \/ (inbox # <<>> /\ inbox' = Tail(inbox) \o ms)
    BY <1>1, QueueMoves
  <2>3. \A i \in 1 .. Len(inbox) : inbox[i] = "usb_start" => i = 1
    BY DEF StartFirst
  <2>4. CASE inbox' = inbox \o ms
    BY <1>0, <2>1, <2>3, <2>4, StartOnce DEF StartFirst
  <2>5. CASE inbox # <<>> /\ inbox' = Tail(inbox) \o ms
    <3>1. Without(inbox', "usb_start")
      BY <1>0, <2>3, <2>5, StartOnce
    <3> QED BY <2>1, <3>1 DEF StartFirst, Without
  <2> QED BY <2>2, <2>4, <2>5
<1>2. CASE AgentWorker \/ UsbThread
  <2>0. AgentPosts \subseteq Others
    BY DEF AgentPosts, Others, Messages
  <2>1. \/ UNCHANGED inbox
        \/ \E ms \in Seq(Others) :
             inbox' = inbox \o ms \/ (inbox # <<>> /\ inbox' = Tail(inbox) \o ms)
    <3>1. Seq(AgentPosts) \subseteq Seq(Others)
      BY <2>0
    <3> QED BY <1>2, <3>1, AgentQueue
  <2>2. /\ \A i \in 1 .. Len(inbox') : inbox'[i] = "usb_start" => i = 1
        /\ ~Without(inbox', "usb_start") => ~Without(inbox, "usb_start")
    <3>1. CASE UNCHANGED inbox
      BY <3>1 DEF StartFirst
    <3>2. CASE UNCHANGED inbox \/ ~UNCHANGED inbox
      BY <1>0, <2>1, <3>1, StartOnce DEF StartFirst, Without
    <3> QED BY <3>2
  <2>3. CASE StartInit
    <3>1. inbox # <<>> /\ inbox[1] = "usb_start" /\ 1 \in 1 .. Len(inbox)
      BY <1>0, <2>3, TailAt DEF StartInit
    <3>2. upc = "off" /\ upc' = upc
      BY <2>3, <3>1 DEF StartInit, StartFirst, Without
    <3>3. inbox' = Tail(inbox) \/ inbox' = Tail(inbox) \o <<"error", "error">>
      BY <2>3 DEF StartInit
    <3>4. Tail(inbox) = Tail(inbox) \o <<>> /\ <<>> \in Seq(Others) /\ <<"error", "error">> \in Seq(Others)
      BY <1>0, <3>1, PostType DEF Others, Messages
    <3>5. Without(inbox', "usb_start")
      BY <1>0, <3>1, <3>3, <3>4, StartOnce DEF StartFirst
    <3> QED BY <2>2, <3>2, <3>5 DEF StartFirst
  <2>4. CASE TransmitCheck
    <3>1. inbox # <<>> /\ upc' = upc /\ wpc' \in {wpc, "tx_read"}
      BY <2>4 DEF TransmitCheck
    <3>2. inbox' = Tail(inbox) \o <<>> \/ inbox' = Tail(inbox) \o <<"error">>
      BY <1>0, <2>4, <3>1, PostType DEF TransmitCheck
    <3>3. <<>> \in Seq(Others) /\ <<"error">> \in Seq(Others)
      BY DEF Others, Messages
    <3>4. Without(inbox', "usb_start")
      BY <1>0, <3>1, <3>2, <3>3, StartOnce DEF StartFirst
    <3> QED BY <2>2, <3>1, <3>4 DEF StartFirst
  <2>5. CASE StartOpen \/ StartRecieve \/ TransmitRead \/ TransmitSubmit
    <3>1. wpc # "idle" /\ (upc' = upc \/ wpc' = "idle")
          /\ (wpc' \in {"start_open", "start_recv"} => wpc = "start_open" /\ upc' = upc)
      BY <2>5 DEF StartOpen, StartRecieve, TransmitRead, TransmitSubmit
    <3>2. Without(inbox', "usb_start")
      BY <2>2, <3>1 DEF StartFirst
    <3> QED BY <2>2, <3>1, <3>2 DEF StartFirst
  <2>6. CASE UsbThread
    <3>1. upc # "off" /\ wpc' = wpc
      BY <2>6 DEF UsbThread, NoticeCallback, UsbThreadStep, Completion, Handling,
         ArrivedCallback, LeftCallback, SendHotplug, ResumeRecieve, ClearHandle, SendHotunplug,
         SecondPasses, Poll, PollCompare, NullOpen, RxCallback, TxCallback, agentVars, ownVars
    <3> QED BY <2>2, <3>1 DEF StartFirst
  <2> QED BY <1>2, <2>3, <2>4, <2>5, <2>6 DEF AgentWorker
<1>3. CASE Bus \/ UNCHANGED vars
  BY <1>3 DEF Bus, vars, agentVars, ownVars, StartFirst
<1> QED BY <1>1, <1>2, <1>3, Steps

-----------------------------------------------------------------------------
\* Opening a device leaves m_dev_handle open, if it was open before or nullptr.
LEMMA OpenKeeps ==
  ASSUME TypeOK, NEW D \in SUBSET attached, OpenDevice(D), HasDevice => IsOpen(handle)
  PROVE  /\ HasDevice' => IsOpen(handle)'
         /\ \A h \in Handles : IsOpen(h) => IsOpen(h)'
<1>0. LibTypeOK /\ handle \in Handles \union {NoHandle} /\ NoDev \notin attached
  BY DEF TypeOK, AgentTypeOK, LibTypeOK, NoDev
<1>1. CASE \E d \in D, h \in Handles : OpenOk(d, h) /\ handle' = h /\ refused' = FALSE
  <2>1. PICK d \in D, h \in Handles : OpenOk(d, h) /\ handle' = h
    BY <1>1
  <2>2. hdev' = [hdev EXCEPT ![h] = d] /\ d # NoDev /\ hdev \in [Handles -> 0 .. lastDev]
    BY <1>0, <2>1 DEF OpenOk, LibTypeOK
  <2>3. hdev'[h] # NoDev /\ \A k \in Handles : hdev[k] # NoDev => hdev'[k] # NoDev
    BY <2>2
  <2> QED BY <2>1, <2>3, LibUsbAssumption DEF IsOpen, HasDevice
<1>2. CASE UNCHANGED <<hdev, handle, refused>>
  BY <1>2 DEF IsOpen, HasDevice
<1> QED BY <1>1, <1>2 DEF OpenDevice

\* What the usb thread believes while it polls stays true.
LEMMA PollInvStep == ASSUME TypeOK, StartFirst, PollInv, [Next]_vars PROVE PollInv'
<1> USE DEF PollInv, HasDevice
<1>1. CASE QueueStep
  BY <1>1, QueueFrame DEF ownVars
<1>2. CASE AgentWorker
  <2>1. CASE StartOpen \/ StartRecieve
    <3>1. upc = "off" /\ last' = last
      BY <2>1 DEF StartOpen, StartRecieve, StartFirst
    <3>2. upc' \in {"off", "top"}
      BY <2>1, <3>1 DEF StartOpen, StartRecieve
    <3> QED BY <3>1, <3>2
  <2>2. CASE StartInit \/ TransmitCheck \/ TransmitRead \/ TransmitSubmit
    BY <2>2 DEF StartInit, TransmitCheck, TransmitRead, TransmitSubmit
  <2> QED BY <1>2, <2>1, <2>2 DEF AgentWorker
<1>3. CASE UsbThread
  <2>1. CASE ArrivedCallback \/ SendHotplug \/ ResumeRecieve
    <3>1. last' = last /\ upc' \in {"hp_send", "recv", "top"} /\ upc # "hp_null"
      BY <2>1 DEF ArrivedCallback, SendHotplug, ResumeRecieve, Handling
    <3> QED BY <3>1
  <2>2. CASE LeftCallback
    BY <2>2 DEF LeftCallback, Handling
  <2>3. CASE ClearHandle \/ SendHotunplug \/ SecondPasses
    BY <2>3 DEF ClearHandle, SendHotunplug, SecondPasses
  <2>4. CASE Poll
    BY <2>4 DEF Poll
  <2>5. CASE PollCompare
    BY <2>5 DEF PollCompare
  <2>6. CASE NullOpen
    BY <2>6 DEF NullOpen
  <2>7. CASE Completion
    BY <2>7 DEF Completion, RxCallback, TxCallback, Handling, agentVars, ownVars
  <2> QED BY <1>3, <2>1, <2>2, <2>3, <2>4, <2>5, <2>6, <2>7 DEF UsbThread, NoticeCallback, UsbThreadStep
<1>4. CASE Bus \/ UNCHANGED vars
  BY <1>4 DEF Bus, vars, agentVars, ownVars
<1> QED BY <1>1, <1>2, <1>3, <1>4, Steps

\* The agent's handle stays open while the agent has it.
LEMMA HandleOpenStep == ASSUME TypeOK, StartFirst, PollInv, HandleOpen, [Next]_vars PROVE HandleOpen'
<1>1. CASE QueueStep
  BY <1>1, QueueFrame DEF ownVars, libVars, HandleOpen, HasDevice, IsOpen
<1>2. CASE AgentWorker
  <2>1. CASE StartOpen
    <3>1. OpenDevice(attached) /\ upc = "off"
      BY <2>1 DEF StartOpen, StartFirst
    <3> QED BY <3>1, OpenKeeps DEF HandleOpen
  <2>2. CASE StartRecieve
    <3>1. UNCHANGED <<hdev, handle>> /\ upc = "off"
      BY <2>2 DEF StartRecieve, StartFirst
    <3> QED BY <3>1 DEF HandleOpen, HasDevice, IsOpen
  <2>3. CASE StartInit \/ TransmitCheck \/ TransmitRead \/ TransmitSubmit
    <3>1. UNCHANGED <<hdev, handle, upc>>
      BY <2>3 DEF StartInit, TransmitCheck, TransmitRead, TransmitSubmit, libVars
    <3> QED BY <3>1 DEF HandleOpen, HasDevice, IsOpen
  <2> QED BY <1>2, <2>1, <2>2, <2>3 DEF AgentWorker
<1>3. CASE UsbThread
  <2>1. CASE ArrivedCallback
    <3>1. OpenDevice({Head(notices).dev} \intersect attached) /\ upc = "top"
      BY <2>1 DEF ArrivedCallback, Handling
    <3> QED BY <3>1, OpenKeeps DEF HandleOpen
  <2>2. CASE LeftCallback
    <3>1. \/ upc' = "hu_null"
          \/ ~HasDevice /\ handle' = handle
      BY <2>2 DEF LeftCallback
    <3> QED BY <3>1 DEF HandleOpen, HasDevice
  <2>3. CASE ClearHandle
    BY <2>3 DEF ClearHandle, HandleOpen, HasDevice
  <2>4. CASE SendHotplug \/ SendHotunplug \/ ResumeRecieve \/ SecondPasses \/ PollCompare \/ NullOpen \/ Completion
    <3>1. UNCHANGED <<hdev, handle>> /\ upc # "hu_null"
      BY <2>4 DEF SendHotplug, SendHotunplug, ResumeRecieve, SecondPasses, PollCompare, NullOpen,
         Completion, RxCallback, TxCallback, Handling, libVars, agentVars, ownVars
    <3> QED BY <3>1 DEF HandleOpen, HasDevice, IsOpen
  <2>5. CASE Poll
    <3>1. upc = "top" /\ (OpenDevice(attached) \/ UNCHANGED <<hdev, handle>>)
      BY <2>5 DEF Poll
    <3>2. CASE UNCHANGED <<hdev, handle>>
      BY <3>1, <3>2 DEF HandleOpen, HasDevice, IsOpen
    <3>3. CASE OpenDevice(attached)
      BY <3>1, <3>3, OpenKeeps DEF HandleOpen
    <3> QED BY <3>1, <3>2, <3>3
  <2> QED BY <1>3, <2>1, <2>2, <2>3, <2>4, <2>5 DEF UsbThread, NoticeCallback, UsbThreadStep
<1>4. CASE Bus \/ UNCHANGED vars
  BY <1>4 DEF Bus, Attach, Detach, vars, libVars, agentVars, ownVars, HandleOpen, HasDevice, IsOpen
<1> QED BY <1>1, <1>2, <1>3, <1>4, Steps

\* A device is announced by the end of the callback that opened it, and nothing
\* but sig_hotunplug takes that back.
LEMMA AnnouncedStep == ASSUME TypeOK, StartFirst, PollInv, Announced, [Next]_vars PROVE Announced'
<1>1. CASE QueueStep
  <2>1. UNCHANGED <<upc, handle>>
    BY <1>1, QueueFrame DEF ownVars
  <2> QED BY <1>1, <2>1, QueueTold DEF Announced, HasDevice
<1>2. CASE (AgentWorker \/ UsbThread) /\ UNCHANGED linkVars
  <2>1. CASE StartRecieve
    <3>1. handle' = handle
      BY <2>1 DEF StartRecieve
    <3> QED BY <1>2, <2>1, <3>1, AgentTold DEF Announced, HasDevice
  <2>2. CASE SendHotplug
    BY <1>2, <2>2, AgentTold DEF Announced
  <2>3. CASE SendHotunplug
    <3>1. handle' = handle /\ ~HasDevice
      BY <2>3 DEF SendHotunplug, PollInv
    <3> QED BY <3>1 DEF Announced, HasDevice
  <2>4. CASE Told' <=> Told
    <3>1. CASE \/ StartInit \/ StartOpen \/ TransmitCheck \/ TransmitRead \/ TransmitSubmit
               \/ SecondPasses \/ NullOpen
      <4>1. upc' = upc /\ (handle' = handle \/ upc = "off")
        BY <3>1 DEF StartInit, StartOpen, TransmitCheck, TransmitRead, TransmitSubmit,
           SecondPasses, NullOpen, StartFirst
      <4> QED BY <2>4, <4>1 DEF Announced, HasDevice
    <3>2. CASE StartRecieve \/ SendHotplug \/ SendHotunplug
      BY <2>1, <2>2, <2>3, <3>2
    <3>3. CASE ArrivedCallback \/ LeftCallback \/ ClearHandle \/ Poll
      <4>1. upc' \in {"hp_send", "hu_null", "hu_send", "poll_cmp"}
        BY <3>3 DEF ArrivedCallback, LeftCallback, ClearHandle, Poll
      <4> QED BY <4>1 DEF Announced
    <3>4. CASE ResumeRecieve \/ Completion
      <4>1. handle' = handle /\ upc \in {"top", "recv"}
        BY <3>4 DEF ResumeRecieve, Completion, RxCallback, TxCallback, Handling, agentVars, ownVars
      <4> QED BY <2>4, <4>1 DEF Announced, HasDevice
    <3>5. CASE PollCompare
      <4>1. handle' = handle /\ (upc' = "top" => ~HasDevice) /\ upc' # "recv"
        BY <3>5 DEF PollCompare, PollInv, HasDevice
      <4> QED BY <4>1 DEF Announced, HasDevice
    <3> QED BY <1>2, <3>1, <3>2, <3>3, <3>4, <3>5
            DEF AgentWorker, UsbThread, NoticeCallback, UsbThreadStep
  <2> QED BY <1>2, <2>1, <2>2, <2>3, <2>4, AgentTold
<1>3. CASE Bus \/ UNCHANGED vars
  <2>1. UNCHANGED <<upc, handle, inbox, connected>>
    BY <1>3 DEF Bus, vars, agentVars, ownVars, linkVars
  <2> QED BY <2>1 DEF Announced, HasDevice, Told
<1> QED BY <1>1, <1>2, <1>3, Steps

\* A receive is in flight again whenever a callback or so_evt_start ends, unless
\* recieve() was refused; only a receive that completes takes one away.
LEMMA PumpAliveStep == ASSUME TypeOK, StartFirst, PollInv, PumpAlive, [Next]_vars PROVE PumpAlive'
<1>0. LibTypeOK /\ handle \in Handles \union {NoHandle} /\ NoHandle \notin Handles
  BY LibUsbAssumption DEF TypeOK, AgentTypeOK
<1>1. ASSUME UNCHANGED <<attached, hdev, handle>>, RecieveOk \/ RecieveFail PROVE PumpAlive'
  <2>1. CASE RecieveOk
    <3>1. handle \in Handles /\ rx \in [Handles -> Nat] /\ rx' = [rx EXCEPT ![handle] = @ + 1]
      BY <1>0, <2>1 DEF RecieveOk, IsLive, IsOpen, LibTypeOK
    <3>2. rx'[handle] > 0
      BY <3>1
    <3> QED BY <1>1, <3>2 DEF PumpAlive
  <2>2. CASE RecieveFail
    BY <1>1, <2>2 DEF RecieveFail, PumpAlive, IsLive, IsOpen
  <2> QED BY <1>1, <2>1, <2>2
<1>2. ASSUME UNCHANGED <<attached, hdev, rx, handle, upc, refused>> PROVE PumpAlive'
  BY <1>2 DEF PumpAlive, IsLive, IsOpen
<1>3. CASE QueueStep \/ UNCHANGED vars
  BY <1>2, <1>3, QueueFrame DEF libVars, ownVars, agentVars, vars
<1>4. CASE AgentWorker
  <2>1. CASE StartRecieve
    BY <1>1, <2>1 DEF StartRecieve
  <2>2. CASE StartOpen
    BY <2>2 DEF StartOpen, StartFirst, PumpAlive
  <2>3. CASE StartInit \/ TransmitCheck \/ TransmitRead \/ TransmitSubmit
    <3>1. UNCHANGED <<attached, hdev, rx, handle, upc, refused>>
      BY <2>3 DEF StartInit, TransmitCheck, TransmitRead, TransmitSubmit, libVars
    <3> QED BY <1>2, <3>1
  <2> QED BY <1>4, <2>1, <2>2, <2>3 DEF AgentWorker
<1>5. CASE UsbThread
  <2>1. CASE ResumeRecieve
    BY <1>1, <2>1 DEF ResumeRecieve
  <2>2. CASE SendHotunplug
    <3>1. handle' = handle /\ ~HasDevice
      BY <2>2 DEF SendHotunplug, PollInv
    <3> QED BY <3>1 DEF PumpAlive, IsLive, IsOpen, HasDevice
  <2>3. CASE SecondPasses \/ Poll \/ PollCompare \/ NullOpen
    <3>1. ~HotplugCapable
      BY <2>3 DEF SecondPasses, Poll, PollCompare, NullOpen, PollInv
    <3> QED BY <3>1 DEF PumpAlive
  <2>4. CASE ArrivedCallback \/ LeftCallback \/ SendHotplug \/ ClearHandle
             \/ \E h \in Handles : RxCallback(h)
    <3>1. upc' \in {"hp_send", "hu_null", "hu_send", "recv"}
      BY <2>4 DEF ArrivedCallback, LeftCallback, SendHotplug, ClearHandle, RxCallback
    <3> QED BY <3>1 DEF PumpAlive
  <2>5. CASE \E h \in Handles : TxCallback(h)
    BY <1>2, <2>5 DEF TxCallback, agentVars, ownVars
  <2> QED BY <1>5, <2>1, <2>2, <2>3, <2>4, <2>5
          DEF UsbThread, NoticeCallback, UsbThreadStep, Completion
<1>6. CASE Bus
  <2>1. UNCHANGED <<hdev, rx, handle, upc, refused>>
    BY <1>6 DEF Bus, Attach, Detach, agentVars, ownVars
  <2>2. ASSUME IsLive(handle)' PROVE IsLive(handle)
    <3>1. handle \in Handles /\ hdev[handle] \in 0 .. lastDev /\ lastDev \in Nat
      BY <1>0, <2>1, <2>2 DEF IsLive, IsOpen, LibTypeOK
    <3>2. \A d \in attached' : d \in attached \/ d = lastDev + 1
      BY <1>6 DEF Bus, Attach, Detach
    <3> QED BY <2>1, <2>2, <3>1, <3>2 DEF IsLive, IsOpen
  <2> QED BY <2>1, <2>2 DEF PumpAlive
<1> QED BY <1>3, <1>4, <1>5, <1>6, Steps

\* Every step preserves the inductive invariant.
LEMMA AgentInvStep == TypeOK /\ AgentInv /\ [Next]_vars => AgentInv'
  BY StartFirstStep, PollInvStep, HandleOpenStep, AnnouncedStep, PumpAliveStep DEF AgentInv

\* An open device is never unknown to Device between two callbacks, with hotplug
\* support and without.
THEOREM HandleKnown == Spec => []HandleAnnounced
<1>1. AgentInv => HandleAnnounced
  BY DEF AgentInv, Announced, HandleAnnounced
<1> QED BY <1>1, AgentInvInit, AgentInvStep, Typing, PTL DEF Spec

\* The receive pump does not stop by itself.
THEOREM PumpRuns == Spec => []PumpAlive
<1>1. AgentInv => PumpAlive
  BY DEF AgentInv
<1> QED BY <1>1, AgentInvInit, AgentInvStep, Typing, PTL DEF Spec

-----------------------------------------------------------------------------
\* Some board was unplugged.  From then on the code may use a closed handle.
Unplugged == attached # 1 .. lastDev

\* Until then no departure is queued, nothing has closed m_dev_handle, and the
\* worker's copy of it is open.
StaleInv ==
  ~Unplugged =>
    /\ \A i \in 1 .. Len(notices) : notices[i].ev # "left"
    /\ upc # "hu_null"
    /\ wpc = "tx_read" => HasDevice
    /\ wpc = "tx_submit" => IsOpen(txHandle)
    /\ fault # "stale_handle"

\* A board that was unplugged never comes back as the same device.
LEMMA UnpluggedStays == TypeOK /\ Unplugged /\ [Next]_vars => Unplugged'
<1> SUFFICES ASSUME TypeOK, Unplugged, [Next]_vars PROVE Unplugged'
  OBVIOUS
<1>0. attached \subseteq 1 .. lastDev /\ lastDev \in Nat
  BY DEF TypeOK, LibTypeOK
<1>1. PICK d \in 1 .. lastDev : d \notin attached
  BY <1>0 DEF Unplugged
<1>2. attached' \subseteq attached \union {lastDev + 1} /\ lastDev' \in {lastDev, lastDev + 1}
  <2>1. CASE Bus
    BY <2>1 DEF Bus, Attach, Detach
  <2>2. CASE QueueStep \/ UNCHANGED vars
    BY <2>2, QueueFrame DEF libVars, vars
  <2>3. CASE AgentWorker \/ UsbThread
    BY <2>3, BusAlone DEF libVars
  <2> QED BY <2>1, <2>2, <2>3, Steps
<1>3. d \notin attached' /\ d \in 1 .. lastDev'
  BY <1>0, <1>1, <1>2
<1> QED BY <1>3 DEF Unplugged

\* What keeps StaleInv while no board has been unplugged: neither an arrival nor
\* a poll closes a handle, and no step of the usb thread sets m_dev_handle to
\* nullptr.
LEMMA StaleInvStep ==
  TypeOK /\ StartFirst /\ PollInv /\ HandleOpen /\ StaleInv /\ [Next]_vars => StaleInv'
<1> SUFFICES ASSUME TypeOK, StartFirst, PollInv, HandleOpen, StaleInv, [Next]_vars, ~Unplugged'
             PROVE  StaleInv'
  BY DEF StaleInv
<1>0. /\ notices \in Seq(Notice)
      /\ handle \in Handles \union {NoHandle} /\ txHandle \in Handles \union {NoHandle}
      /\ hdev \in [Handles -> 0 .. lastDev] /\ NoHandle \notin Handles
  BY LibUsbAssumption DEF TypeOK, LibTypeOK, AgentTypeOK
<1>1. /\ \A i \in 1 .. Len(notices) : notices[i].ev # "left"
      /\ upc # "hu_null"
      /\ wpc = "tx_read" => HasDevice
      /\ wpc = "tx_submit" => IsOpen(txHandle)
      /\ fault # "stale_handle"
  BY UnpluggedStays DEF StaleInv
<1>2. HasDevice => IsOpen(handle)
  BY <1>1 DEF HandleOpen
<1>a. ASSUME notices # <<>> PROVE Head(notices).ev # "left" /\ \A i \in 1 .. Len(Tail(notices)) : Tail(notices)[i].ev # "left"
  <2>1. 1 \in 1 .. Len(notices) /\ Head(notices) = notices[1]
    BY <1>0, <1>a
  <2>2. \A i \in 1 .. Len(Tail(notices)) : i + 1 \in 1 .. Len(notices) /\ Tail(notices)[i] = notices[i + 1]
    BY <1>0, <1>a
  <2> QED BY <1>1, <2>1, <2>2
<1>b. ASSUME UNCHANGED <<notices, hdev, handle, txHandle>>, upc' # "hu_null",
             wpc' = "tx_read" => wpc = "tx_read" \/ HasDevice, wpc' = "tx_submit" => wpc = "tx_submit",
             fault' # "stale_handle"
      PROVE  StaleInv'
  BY <1>1, <1>b DEF StaleInv, IsOpen, HasDevice
<1>3. CASE QueueStep \/ UNCHANGED vars
  <2>1. UNCHANGED <<notices, hdev, handle, txHandle, upc, wpc, fault>>
    BY <1>3, QueueFrame DEF libVars, ownVars, agentVars, vars
  <2> QED BY <1>1, <1>b, <2>1
<1>4. ASSUME NEW D \in SUBSET attached, OpenDevice(D), UNCHANGED <<wpc, txHandle, fault>>, upc' # "hu_null",
             \A i \in 1 .. Len(notices') : notices'[i].ev # "left"
      PROVE  StaleInv'
  <2>1. HasDevice' => IsOpen(handle)'
    BY <1>2, <1>4, OpenKeeps
  <2>2. \A h \in Handles : IsOpen(h) => IsOpen(h)'
    BY <1>2, <1>4, OpenKeeps
  <2>3. HasDevice => HasDevice'
    BY <1>0, <1>4 DEF OpenDevice, HasDevice
  <2>4. wpc' = "tx_submit" => IsOpen(txHandle)'
    <3>1. IsOpen(txHandle) => txHandle \in Handles
      BY <1>0 DEF IsOpen
    <3> QED BY <1>1, <1>4, <2>2, <3>1 DEF IsOpen
  <2> QED BY <1>1, <1>4, <2>3, <2>4 DEF StaleInv
<1>5. CASE AgentWorker
  <2>1. CASE StartInit \/ StartRecieve \/ TransmitCheck
    <3>1. /\ UNCHANGED <<notices, hdev, handle, txHandle, fault>>
          /\ upc' \in {upc, "top"} /\ wpc' # "tx_submit"
          /\ wpc' = "tx_read" => wpc = "tx_read" \/ HasDevice
      <4>1. CASE StartInit BY <4>1 DEF StartInit
      <4>2. CASE StartRecieve BY <4>2 DEF StartRecieve
      <4>3. CASE TransmitCheck BY <4>3 DEF TransmitCheck, libVars
      <4> QED BY <2>1, <4>1, <4>2, <4>3
    <3> QED BY <1>1, <1>b, <3>1
  <2>2. CASE StartOpen
    <3>1. /\ OpenDevice(attached) /\ notices' = notices
          /\ wpc' = "start_recv" /\ upc' = upc /\ fault' = fault
      BY <2>2 DEF StartOpen
    <3> QED BY <1>1, <3>1 DEF StaleInv
  <2>3. CASE TransmitRead
    <3>1. /\ wpc = "tx_read" /\ txHandle' = handle /\ wpc' = "tx_submit"
          /\ UNCHANGED <<notices, hdev, upc, fault>>
      BY <2>3 DEF TransmitRead, libVars
    <3>2. IsOpen(txHandle)'
      BY <1>1, <1>2, <3>1 DEF IsOpen
    <3> QED BY <1>1, <3>1, <3>2 DEF StaleInv
  <2>4. CASE TransmitSubmit
    <3>1. wpc = "tx_submit" /\ wpc' = "idle" /\ UNCHANGED <<notices, upc>> /\ fault' = fault
      BY <1>1, <2>4 DEF TransmitSubmit, IsLive
    <3> QED BY <1>1, <3>1 DEF StaleInv
  <2> QED BY <1>5, <2>1, <2>2, <2>3, <2>4 DEF AgentWorker
<1>6. CASE UsbThread
  <2>1. CASE ArrivedCallback
    <3>1. /\ OpenDevice({Head(notices).dev} \intersect attached)
          /\ notices # <<>> /\ notices' = Tail(notices) /\ upc' # "hu_null"
          /\ UNCHANGED <<wpc, txHandle, fault>>
      BY <2>1 DEF ArrivedCallback
    <3> QED BY <1>4, <1>a, <3>1
  <2>2. CASE Poll
    <3>1. UNCHANGED <<notices, wpc, txHandle, fault>> /\ upc' = "poll_cmp"
      BY <2>2 DEF Poll
    <3>2. CASE UNCHANGED <<hdev, handle>>
      BY <1>1, <1>b, <3>1, <3>2
    <3>3. CASE OpenDevice(attached)
      BY <1>1, <1>4, <3>1, <3>3
    <3> QED BY <2>2, <3>2, <3>3 DEF Poll
  <2>3. CASE LeftCallback \/ ClearHandle
    BY <1>1, <1>a, <2>3 DEF LeftCallback, ClearHandle
  <2>4. CASE SendHotplug \/ ResumeRecieve \/ SendHotunplug \/ SecondPasses \/ NullOpen \/ PollCompare
    <3>1. UNCHANGED <<notices, hdev, handle, txHandle, wpc>> /\ fault' \in {fault, "null_device"}
      BY <2>4 DEF SendHotplug, ResumeRecieve, SendHotunplug, SecondPasses, NullOpen, PollCompare, libVars
    <3>2. upc' # "hu_null"
      BY <1>1, <2>4 DEF SendHotplug, ResumeRecieve, SendHotunplug, SecondPasses, NullOpen, PollCompare
    <3> QED BY <1>1, <1>b, <3>1, <3>2
  <2>5. CASE Completion
    <3>1. UNCHANGED <<notices, hdev, handle, txHandle, wpc, fault>> /\ upc' \in {upc, "recv"}
      BY <2>5 DEF Completion, RxCallback, TxCallback, agentVars, ownVars
    <3> QED BY <1>1, <1>b, <3>1
  <2> QED BY <1>6, <2>1, <2>2, <2>3, <2>4, <2>5 DEF UsbThread, NoticeCallback, UsbThreadStep
<1>7. CASE Bus
  <2>1. Attach
    <3>1. ASSUME NEW d \in attached, Detach(d) PROVE FALSE
      BY <3>1 DEF Detach, Unplugged, TypeOK, LibTypeOK
    <3> QED BY <1>7, <3>1 DEF Bus
  <2>2. UNCHANGED <<hdev, handle, txHandle, upc, wpc, fault>>
    BY <1>7, <2>1 DEF Bus, Attach, agentVars, ownVars
  <2>3. \A i \in 1 .. Len(notices') : notices'[i].ev # "left"
    BY <1>0, <1>1, <2>1 DEF Attach, Notify
  <2> QED BY <1>1, <2>2, <2>3 DEF StaleInv, IsOpen, HasDevice
<1> QED BY <1>3, <1>5, <1>6, <1>7, Steps

\* transmit() uses a closed handle only after a board was unplugged.
THEOREM StaleOnlyUnplugged == Spec => []StaleNeedsUnplug
<1>1. Init => StaleInv
  BY DEF Init, LibInit, AgentInit, StaleInv
<1>2. StaleInv => StaleNeedsUnplug
  BY DEF StaleInv, StaleNeedsUnplug, Unplugged
<1>3. AgentInv => StartFirst /\ PollInv /\ HandleOpen
  BY DEF AgentInv
<1> QED BY <1>1, <1>2, <1>3, AgentInvInit, AgentInvStep, StaleInvStep, Typing, PTL DEF Spec

-----------------------------------------------------------------------------
(* Handles that are forgotten *)
Single(S) == \A x, y \in S : x = y
Extra == {h \in Handles : IsOpen(h)} \ {handle}
NextArrives == IF notices = <<>> THEN attached = {} ELSE notices[1].ev = "arrived"

\* With one port arrivals and departures are queued in turn, so that a device
\* that is opened while another one is open can only be the one that init opened
\* before its arrival was told: the departure that follows closes it.
Turns ==
  /\ Single(attached)
  /\ \A i \in 1 .. Len(notices) : i + 1 \in 1 .. Len(notices) => notices[i].ev # notices[i + 1].ev
  /\ notices # <<>> => (notices[Len(notices)].ev = "arrived" <=> attached # {})

\* Before the usb thread runs at most the handle of init is open, and nothing is
\* queued before there is a context.
Starting ==
  /\ upc = "off" /\ wpc # "start_recv" => \A h \in Handles : ~IsOpen(h)
  /\ upc = "off" => Extra = {}
  /\ ~ctx => notices = <<>> /\ upc = "off" /\ wpc \notin {"start_open", "start_recv"}

\* A handle is forgotten at most once: once it happened, the next device to open
\* finds m_dev_handle cleared.
Forgets ==
  /\ Single(Extra)
  /\ Extra # {} => ~HasDevice \/ upc = "hu_null" \/ ~NextArrives
  /\ upc = "hu_null" => ~IsOpen(handle)

LeakInv == Turns /\ Starting /\ Forgets

\* At the start no callback has run.
LEMMA LeakInit == Init => LeakInv
  BY DEF Init, LibInit, AgentInit, LeakInv, Turns, Starting, Forgets, Single, Extra, IsOpen, NoDev

\* Steps that touch neither the bus nor a handle.
LEMMA LeakFrame ==
  ASSUME LeakInv, UNCHANGED <<attached, ctx, notices, hdev, handle>>,
         upc' # "off", upc # "off" \/ (wpc = "start_recv" /\ ctx),
         upc' = "hu_null" => upc = "hu_null", upc = "hu_null" => upc' = "hu_null"
  PROVE  LeakInv'
<1>1. Turns'
  BY DEF LeakInv, Turns, Single
<1>2. Extra' = Extra /\ (IsOpen(handle)' <=> IsOpen(handle)) /\ (HasDevice' <=> HasDevice)
      /\ (NextArrives' <=> NextArrives)
  BY DEF Extra, IsOpen, HasDevice, NextArrives
<1>3. ctx
  BY DEF LeakInv, Starting
<1>4. Starting'
  BY <1>3 DEF Starting
<1>5. Forgets'
  BY <1>2 DEF LeakInv, Forgets, Starting, Single
<1> QED BY <1>1, <1>4, <1>5 DEF LeakInv

\* Steps of the worker that do not even touch the usb thread.
LEMMA LeakQuiet ==
  ASSUME LeakInv, UNCHANGED <<attached, notices, hdev, handle, upc>>,
         wpc' = wpc \/ (wpc # "start_recv" /\ wpc' # "start_recv"),
         ctx => ctx', ctx' \/ wpc' \notin {"start_open", "start_recv"}
  PROVE  LeakInv'
<1>1. Turns'
  BY DEF LeakInv, Turns, Single
<1>2. Extra' = Extra /\ (IsOpen(handle)' <=> IsOpen(handle)) /\ (HasDevice' <=> HasDevice)
      /\ (NextArrives' <=> NextArrives) /\ \A h \in Handles : IsOpen(h)' <=> IsOpen(h)
  BY DEF Extra, IsOpen, HasDevice, NextArrives
<1>4. Starting'
  BY <1>2 DEF LeakInv, Starting
<1>5. Forgets'
  BY <1>2 DEF LeakInv, Forgets, Single
<1> QED BY <1>1, <1>4, <1>5 DEF LeakInv

\* A plug or an unplug is queued behind one of the other kind.
LEMMA LeakBus ==
  ASSUME TypeOK, Ports = 1, HotplugCapable, LeakInv, Bus
  PROVE  LeakInv'
<1>0. notices \in Seq(Notice) /\ Len(notices) \in Nat /\ attached \subseteq 1 .. lastDev /\ lastDev \in Nat
  BY DEF TypeOK, LibTypeOK
<1>1. UNCHANGED <<ctx, hdev, handle, upc, wpc>>
  BY DEF Bus, Attach, Detach, agentVars, ownVars
<1>2. \E ev, d : ev \in {"arrived", "left"} /\ Notify(ev, d) /\ (ev = "arrived" <=> attached = {})
                 /\ (attached' # {} <=> attached = {}) /\ Single(attached')
  <2>1. CASE Attach
    <3>1. Cardinality(attached) < 1 /\ attached' = attached \union {lastDev + 1} /\ Notify("arrived", lastDev + 1)
      BY <2>1 DEF Attach
    <3>2. attached = {}
      <4>1. IsFiniteSet(attached)
        <5>1. IsFiniteSet(1 .. lastDev)
          BY <1>0, FS_Interval
        <5> QED BY <1>0, <5>1, FS_Subset
      <4>2. Cardinality(attached) = 0
        BY <3>1, <4>1, FS_CardinalityType
      <4> QED BY <4>1, <4>2, FS_EmptySet
    <3> QED BY <3>1, <3>2 DEF Single
  <2>2. ASSUME NEW d \in attached, Detach(d) PROVE attached' = {} /\ Notify("left", d) /\ attached # {}
    <3>1. \A e \in attached : e = d
      BY DEF LeakInv, Turns, Single
    <3> QED BY <2>2, <3>1 DEF Detach
  <2> QED BY <2>1, <2>2 DEF Bus, Single
<1>3. PICK ev, d : ev \in {"arrived", "left"} /\ Notify(ev, d) /\ (ev = "arrived" <=> attached = {})
                 /\ (attached' # {} <=> attached = {}) /\ Single(attached')
  BY <1>2
<1>4. CASE ~ctx
  <2>1. notices = <<>> /\ notices' = <<>> /\ upc = "off"
    BY <1>3, <1>4 DEF Notify, LeakInv, Starting
  <2>2. Turns'
    BY <1>3, <2>1 DEF Turns
  <2>3. Extra' = Extra /\ Extra = {} /\ \A h : IsOpen(h)' <=> IsOpen(h)
    BY <1>1, <2>1 DEF Extra, IsOpen, LeakInv, Starting
  <2>4. Starting'
    BY <1>1, <2>1, <2>3 DEF LeakInv, Starting
  <2>5. Forgets'
    BY <1>1, <2>1, <2>3 DEF Forgets, Single
  <2> QED BY <2>2, <2>4, <2>5 DEF LeakInv
<1>5. CASE ctx
  <2> DEFINE m == [ev |-> ev, dev |-> d]
  <2>1. notices' = Append(notices, m) /\ m.ev = ev
    BY <1>3, <1>5 DEF Notify
  <2> HIDE DEF m
  <2>2. /\ Len(notices') = Len(notices) + 1 /\ notices'[Len(notices) + 1] = m
        /\ \A i \in 1 .. Len(notices) : notices'[i] = notices[i]
    BY <1>0, <2>1
  <2>3. Turns'
    <3>1. ASSUME NEW i \in 1 .. Len(notices'), i + 1 \in 1 .. Len(notices')
          PROVE  notices'[i].ev # notices'[i + 1].ev
      <4>1. i \in 1 .. Len(notices) /\ notices'[i] = notices[i]
        BY <1>0, <2>2, <3>1
      <4>2. CASE i + 1 \in 1 .. Len(notices)
        BY <2>2, <4>1, <4>2 DEF LeakInv, Turns
      <4>3. CASE i = Len(notices)
        <5>1. notices # <<>> /\ notices'[i + 1] = m
          BY <2>2, <4>1, <4>3
        <5>2. notices[i].ev = "arrived" <=> attached # {}
          BY <4>3, <5>1 DEF LeakInv, Turns
        <5>3. notices[i] \in Notice
          BY <1>0, <4>1
        <5>4. notices[i].ev \in {"arrived", "left"}
          BY <5>3 DEF Notice
        <5> QED BY <1>3, <2>1, <4>1, <5>1, <5>2, <5>4
      <4> QED BY <1>0, <2>2, <3>1, <4>1, <4>2, <4>3
    <3>2. notices'[Len(notices')].ev = "arrived" <=> attached' # {}
      BY <1>3, <2>1, <2>2
    <3> QED BY <1>3, <3>1, <3>2 DEF Turns
  <2>4. Extra' = Extra /\ (HasDevice' <=> HasDevice) /\ (IsOpen(handle)' <=> IsOpen(handle))
        /\ \A h : IsOpen(h)' <=> IsOpen(h)
    BY <1>1 DEF Extra, IsOpen, HasDevice
  <2>5. NextArrives' <=> NextArrives
    <3>1. CASE notices = <<>>
      <4>1. notices' # <<>> /\ notices'[1] = m
        BY <2>2, <3>1, <1>0
      <4> QED BY <1>3, <2>1, <3>1, <4>1 DEF NextArrives
    <3>2. CASE notices # <<>>
      <4>1. notices' # <<>> /\ notices'[1] = notices[1]
        BY <2>2, <3>2, <1>0
      <4> QED BY <3>2, <4>1 DEF NextArrives
    <3> QED BY <3>1, <3>2
  <2>6. Starting'
    BY <1>1, <1>5, <2>4 DEF LeakInv, Starting
  <2>7. Forgets'
    BY <1>1, <2>4, <2>5 DEF LeakInv, Forgets, Single
  <2> QED BY <2>3, <2>6, <2>7 DEF LeakInv
<1> QED BY <1>4, <1>5

\* When the first notice is taken the others are still in turn.
LEMMA TurnsOn ==
  ASSUME TypeOK, Turns, notices # <<>>, notices' = Tail(notices), UNCHANGED attached
  PROVE  Turns' /\ (Head(notices).ev = "arrived" => ~NextArrives') /\ Head(notices) = notices[1]
<1>0. notices \in Seq(Notice)
  BY DEF TypeOK, LibTypeOK
<1>1. /\ Len(notices) \in Nat \ {0} /\ Head(notices) = notices[1] /\ Len(notices') = Len(notices) - 1
      /\ \A i \in 1 .. Len(notices) - 1 : notices'[i] = notices[i + 1]
  BY <1>0, TailAt
<1>2. ASSUME NEW i \in 1 .. Len(notices'), i + 1 \in 1 .. Len(notices')
      PROVE  notices'[i].ev # notices'[i + 1].ev
  <2>1. i + 1 \in 1 .. Len(notices) /\ (i + 1) + 1 \in 1 .. Len(notices)
        /\ i \in 1 .. Len(notices) - 1 /\ i + 1 \in 1 .. Len(notices) - 1
    BY <1>1, <1>2
  <2> QED BY <1>1, <2>1 DEF Turns
<1>3. ASSUME notices' # <<>> PROVE notices'[Len(notices')] = notices[Len(notices)]
  <2>1. Len(notices') # 0
    BY <1>0, <1>3
  <2>2. Len(notices') \in 1 .. Len(notices) - 1 /\ Len(notices') + 1 = Len(notices)
    BY <1>1, <2>1
  <2> QED BY <1>1, <2>2
<1>4. Turns'
  BY <1>2, <1>3 DEF Turns
<1>5. ASSUME notices[1].ev = "arrived" PROVE ~NextArrives'
  <2>1. CASE notices' = <<>>
    <3>1. \A s : s = <<>> => Len(s) = 0
      OBVIOUS
    <3>2. Len(notices) = 1
      BY <1>1, <2>1, <3>1
    <3> QED BY <1>1, <1>5, <2>1, <3>2 DEF Turns, NextArrives
  <2>2. CASE notices' # <<>>
    <3>1. Len(notices') # 0
      BY <1>0, <2>2
    <3>2. 1 \in 1 .. Len(notices) /\ 1 + 1 \in 1 .. Len(notices) /\ 1 \in 1 .. Len(notices) - 1
      BY <1>1, <3>1
    <3>3. notices'[1] = notices[1 + 1]
      BY <1>1, <3>2
    <3> QED BY <1>5, <2>2, <3>2, <3>3 DEF Turns, NextArrives
  <2> QED BY <2>1, <2>2
<1> QED BY <1>1, <1>4, <1>5

\* Opening a device while no handle is forgotten, or none is set, forgets one at
\* most.
LEMMA LeakOpen ==
  ASSUME TypeOK, NEW D \in SUBSET attached, OpenDevice(D), Single(Extra), Extra = {} \/ ~HasDevice
  PROVE  /\ Single(Extra')
         /\ Extra' # {} => (Extra = {} /\ HasDevice /\ handle' # handle) \/ ~HasDevice
         /\ ~HasDevice => Extra' = Extra
<1>0. LibTypeOK /\ handle \in Handles \union {NoHandle} /\ NoDev \notin attached
  BY DEF TypeOK, AgentTypeOK, LibTypeOK, NoDev
<1>1. CASE \E d \in D, h \in Handles : OpenOk(d, h) /\ handle' = h /\ refused' = FALSE
  <2>1. PICK d \in D, h \in Handles : OpenOk(d, h) /\ handle' = h
    BY <1>1
  <2>2. hdev' = [hdev EXCEPT ![h] = d] /\ d # NoDev /\ hdev \in [Handles -> 0 .. lastDev] /\ ~IsOpen(h)
    BY <1>0, <2>1 DEF OpenOk, LibTypeOK
  <2>3. Extra' = {k \in Handles : IsOpen(k)}
    BY <2>1, <2>2 DEF Extra, IsOpen
  <2>4. Extra' = Extra \/ Extra' = Extra \union {handle}
    BY <2>3 DEF Extra
  <2>5. ~HasDevice => Extra' = Extra
    BY <2>3, LibUsbAssumption DEF Extra, HasDevice
  <2>6. handle' # handle \/ Extra' = Extra
    BY <2>1, <2>2, <2>3 DEF Extra
  <2> QED BY <2>4, <2>5, <2>6 DEF Single
<1>2. CASE UNCHANGED <<hdev, handle, refused>>
  BY <1>2 DEF Extra, IsOpen, HasDevice
<1> QED BY <1>1, <1>2 DEF OpenDevice

\* Every step of the process keeps it: an arrival finds at most the handle of
\* init, and a departure closes what the agent has.
LEMMA LeakStep ==
  ASSUME TypeOK, AgentInv, LeakInv, Ports = 1, HotplugCapable, [Next]_vars
  PROVE  LeakInv'
<1>0. /\ StartFirst /\ PollInv /\ HandleOpen /\ Turns /\ Starting /\ Forgets
      /\ handle \in Handles \union {NoHandle} /\ NoHandle \notin Handles
      /\ hdev \in [Handles -> 0 .. lastDev]
  BY LibUsbAssumption DEF AgentInv, LeakInv, TypeOK, LibTypeOK, AgentTypeOK
<1>1. CASE QueueStep \/ UNCHANGED vars
  <2>1. UNCHANGED <<attached, ctx, notices, hdev, handle, upc, wpc>>
    BY <1>1, QueueFrame DEF libVars, ownVars, agentVars, vars
  <2>2. ctx' \/ wpc' \notin {"start_open", "start_recv"}
    BY <1>0, <2>1 DEF Starting
  <2> QED BY <2>1, <2>2, LeakQuiet
<1>2. CASE AgentWorker
  <2>1. CASE StartInit
    <3>1. /\ UNCHANGED <<attached, notices, hdev, handle, upc>>
          /\ wpc # "start_recv" /\ wpc' # "start_recv"
      BY <2>1 DEF StartInit
    <3>2. (ctx => ctx') /\ (ctx' \/ wpc' \notin {"start_open", "start_recv"})
      BY <2>1 DEF StartInit
    <3> QED BY <3>1, <3>2, LeakQuiet
  <2>2. CASE StartOpen
    <3>1. upc = "off" /\ upc' = "off" /\ wpc' = "start_recv" /\ wpc = "start_open" /\ OpenDevice(attached)
          /\ UNCHANGED <<attached, ctx, notices>>
      BY <1>0, <2>2 DEF StartOpen, StartFirst
    <3>2. Extra = {} /\ ctx /\ \A h \in Handles : ~IsOpen(h)
      BY <1>0, <3>1 DEF Starting
    <3>3. ~HasDevice
      BY <1>0, <3>1, <3>2 DEF HandleOpen, HasDevice
    <3>4. Extra' = {}
      BY <3>1, <3>2, <3>3, LeakOpen DEF Single
    <3>5. Starting'
      BY <3>1, <3>2, <3>4 DEF Starting
    <3> QED BY <1>0, <3>1, <3>4, <3>5 DEF LeakInv, Forgets, Single, Turns
  <2>3. CASE StartRecieve
    <3>1. UNCHANGED <<attached, ctx, notices, hdev, handle>> /\ upc' = "top" /\ wpc = "start_recv" /\ upc = "off"
      BY <1>0, <2>3 DEF StartRecieve, StartFirst
    <3>2. ctx
      BY <1>0, <3>1 DEF Starting
    <3> QED BY <3>1, <3>2, LeakFrame
  <2>4. CASE TransmitCheck \/ TransmitRead \/ TransmitSubmit
    <3>1. /\ UNCHANGED <<attached, ctx, notices, hdev, handle, upc>>
          /\ wpc' \in {wpc, "tx_read", "tx_submit", "idle"} /\ wpc \notin {"start_open", "start_recv"}
      BY <2>4 DEF TransmitCheck, TransmitRead, TransmitSubmit, libVars
    <3> QED BY <3>1, LeakQuiet
  <2> QED BY <1>2, <2>1, <2>2, <2>3, <2>4 DEF AgentWorker
<1>3. CASE UsbThread
  <2>0. upc # "off" /\ UNCHANGED <<attached, ctx>>
    BY <1>3 DEF UsbThread, NoticeCallback, UsbThreadStep, Completion, Handling,
       ArrivedCallback, LeftCallback, SendHotplug, ResumeRecieve, ClearHandle, SendHotunplug,
       SecondPasses, Poll, PollCompare, NullOpen, RxCallback, TxCallback, libVars
  <2>a. ctx
    BY <1>0, <2>0 DEF Starting
  <2>1. CASE ArrivedCallback
    <3>1. /\ upc = "top" /\ upc' = "hp_send" /\ notices # <<>> /\ Head(notices).ev = "arrived"
          /\ notices' = Tail(notices) /\ OpenDevice({Head(notices).dev} \intersect attached)
      BY <2>1 DEF ArrivedCallback, Handling
    <3>2. Turns' /\ ~NextArrives' /\ NextArrives
      BY <1>0, <2>0, <3>1, TurnsOn DEF NextArrives
    <3>3. Extra = {} \/ ~HasDevice
      BY <1>0, <3>1, <3>2 DEF Forgets
    <3>4. Single(Extra')
      BY <1>0, <3>1, <3>3, LeakOpen DEF Forgets
    <3>5. Starting'
      BY <2>0, <2>a, <3>1 DEF Starting
    <3> QED BY <3>1, <3>2, <3>4, <3>5 DEF LeakInv, Forgets
  <2>2. CASE LeftCallback
    <3>1. notices # <<>> /\ notices' = Tail(notices) /\ handle' = handle /\ upc' \in {"hu_null", "hu_send"}
      BY <2>2 DEF LeftCallback
    <3>2. Turns'
      BY <1>0, <2>0, <3>1, TurnsOn
    <3>3. Starting'
      BY <2>0, <2>a, <3>1 DEF Starting
    <3>4. CASE HasDevice
      <4>1. upc' = "hu_null" /\ hdev' = [hdev EXCEPT ![handle] = NoDev] /\ handle \in Handles
        BY <1>0, <2>2, <3>4 DEF LeftCallback, Close, HasDevice
      <4>2. hdev'[handle] = NoDev /\ \A h \in Handles : h # handle => hdev'[h] = hdev[h]
        BY <1>0, <4>1
      <4>3. Extra' = Extra /\ ~IsOpen(handle)'
        BY <3>1, <4>2 DEF Extra, IsOpen
      <4> QED BY <1>0, <3>2, <3>3, <4>1, <4>3 DEF LeakInv, Forgets, Single
    <3>5. CASE ~HasDevice
      <4>1. upc' = "hu_send" /\ hdev' = hdev
        BY <2>2, <3>5 DEF LeftCallback
      <4>2. Extra' = Extra /\ ~HasDevice'
        BY <3>1, <3>5, <4>1 DEF Extra, IsOpen, HasDevice
      <4> QED BY <1>0, <3>2, <3>3, <4>1, <4>2 DEF LeakInv, Forgets, Single
    <3> QED BY <3>4, <3>5
  <2>3. CASE ClearHandle
    <3>1. upc = "hu_null" /\ upc' = "hu_send" /\ handle' = NoHandle /\ UNCHANGED <<hdev, notices>>
      BY <2>3 DEF ClearHandle, libVars
    <3>2. Extra' = Extra
      BY <1>0, <3>1 DEF Extra, IsOpen, Forgets
    <3>3. Starting' /\ Turns'
      BY <1>0, <2>0, <2>a, <3>1 DEF Starting, Turns, Single
    <3> QED BY <1>0, <3>1, <3>2, <3>3 DEF LeakInv, Forgets, Single, HasDevice
  <2>4. CASE SendHotplug \/ SendHotunplug \/ ResumeRecieve \/ Completion
    <3>1. /\ UNCHANGED <<notices, hdev, handle>> /\ upc # "hu_null" /\ upc' # "hu_null" /\ upc' # "off"
      BY <2>4 DEF SendHotplug, SendHotunplug, ResumeRecieve, Completion, RxCallback, TxCallback,
         Handling, libVars, agentVars, ownVars
    <3> QED BY <2>0, <3>1, LeakFrame
  <2>5. CASE SecondPasses \/ Poll \/ PollCompare \/ NullOpen
    BY <1>0, <2>5 DEF SecondPasses, Poll, PollCompare, NullOpen, PollInv
  <2> QED BY <1>3, <2>1, <2>2, <2>3, <2>4, <2>5 DEF UsbThread, NoticeCallback, UsbThreadStep
<1>4. CASE Bus
  BY <1>4, LeakBus
<1> QED BY <1>1, <1>2, <1>3, <1>4, Steps

\* open_device(dev) forgets a handle at most once: with one port and hotplug
\* support no more than one handle is open besides m_dev_handle.
THEOREM AtMostOneForgotten == Spec => []LeakBound
<1> DEFINE OnePort == Ports = 1 /\ HotplugCapable
           Bound == OnePort => LeakInv
<1>1. Init => Bound
  BY LeakInit
<1>2. TypeOK /\ AgentInv /\ Bound /\ [Next]_vars => Bound'
  BY LeakStep
<1>3. Bound => LeakBound
  <2> SUFFICES ASSUME Single(Extra) PROVE Cardinality(Extra) <= 1
    BY DEF LeakInv, Forgets, LeakBound, Extra
  <2>1. CASE Extra = {}
    BY <2>1, FS_EmptySet
  <2>2. CASE Extra # {}
    <3>1. PICK h \in Extra : TRUE
      BY <2>2
    <3>2. Extra = {h}
      BY <3>1 DEF Single
    <3> QED BY <3>2, FS_Singleton
  <2> QED BY <2>1, <2>2
<1> HIDE DEF Bound
<1> QED BY <1>1, <1>2, <1>3, AgentInvInit, AgentInvStep, Typing, PTL DEF Spec

-----------------------------------------------------------------------------
(* Device implements DelayedView *)

\* What is on its way to Device in the queue, and all that is on its way.
BusFeed == Feed(inbox, "hotplug", "hotunplug")
Pipe == BusFeed \o InCallback \o Noticed

\* Four ways in which what is on its way moves: from libusb into the callback,
\* from the callback into the queue, out of the queue, and into libusb.
LEMMA PipeMoves ==
  ASSUME NEW S, NEW f \in Seq(S), NEW c \in Seq(S), NEW n \in Seq(S), NEW b \in S
  PROVE  /\ f \o <<>> \o (<<b>> \o n) = f \o <<b>> \o n
         /\ Append(f, b) \o <<>> \o n = f \o <<b>> \o n
         /\ f \o c \o Append(n, b) = Append(f \o c \o n, b)
<1>1. f \o <<>> \o (<<b>> \o n) = f \o <<b>> \o n
  OBVIOUS
<1>2. Append(f, b) \o <<>> \o n = f \o <<b>> \o n
  OBVIOUS
<1>3. f \o c \o Append(n, b) = Append(f \o c \o n, b)
  OBVIOUS
<1> QED BY <1>1, <1>2, <1>3

LEMMA PipeServed ==
  ASSUME NEW S, NEW f \in Seq(S), NEW c \in Seq(S), NEW n \in Seq(S), f # <<>>
  PROVE  /\ f \o c \o n # <<>>
         /\ Head(f \o c \o n) = Head(f)
         /\ Tail(f \o c \o n) = Tail(f) \o c \o n
<1> DEFINE s == f \o c \o n
<1> DEFINE t == Tail(f) \o c \o n
<1>1. /\ Len(f) \in Nat \ {0} /\ Len(c) \in Nat /\ Len(n) \in Nat
      /\ s \in Seq(S) /\ Len(s) = Len(f) + Len(c) + Len(n)
      /\ Tail(f) \in Seq(S) /\ Len(Tail(f)) = Len(f) - 1
  OBVIOUS
<1>2. s # <<>> /\ Head(s) = s[1] /\ s[1] = f[1] /\ Head(f) = f[1]
  OBVIOUS
<1>3. /\ t \in Seq(S) /\ Len(t) = (Len(f) - 1) + Len(c) + Len(n)
      /\ Tail(s) \in Seq(S) /\ Len(Tail(s)) = Len(t)
  BY <1>1, <1>2
<1>4. \A i \in 1 .. Len(t) : Tail(s)[i] = t[i]
  <2> TAKE i \in 1 .. Len(t)
  <2>1. Tail(s)[i] = s[i + 1]
    BY <1>1, <1>2, <1>3
  <2>2. s[i + 1] = t[i]
    BY <1>1, <1>3
  <2> QED BY <2>1, <2>2
<1>5. Tail(s) = t
  <2> HIDE DEF s, t
  <2> QED BY <1>3, <1>4, SameSequence
<1> QED BY <1>2, <1>5

\* What libusb has queued, as announcements.
Heard(ns) == [i \in 1 .. Len(ns) |-> ns[i].ev = "arrived"]

LEMMA HeardType ==
  ASSUME NEW ns \in Seq(Notice)
  PROVE  /\ Heard(ns) \in Seq(BOOLEAN) /\ Len(Heard(ns)) = Len(ns) /\ Len(ns) \in Nat
         /\ \A i \in 1 .. Len(ns) : Heard(ns)[i] <=> ns[i].ev = "arrived"
<1>1. Heard(ns) = [i \in 1 .. Len(ns) |-> ns[i].ev = "arrived"]
  BY DEF Heard
<1>2. \A i : (ns[i].ev = "arrived") \in BOOLEAN
  OBVIOUS
<1>3. Heard(ns) \in [1 .. Len(ns) -> BOOLEAN]
  BY <1>1, <1>2, Zenon
<1>4. Len(ns) \in Nat
  OBVIOUS
<1>5. Heard(ns) \in Seq(BOOLEAN) /\ Len(Heard(ns)) = Len(ns)
  BY <1>3, <1>4
<1>6. \A i \in 1 .. Len(ns) : Heard(ns)[i] <=> ns[i].ev = "arrived"
  BY <1>1, Zenon
<1> QED BY <1>4, <1>5, <1>6

\* Boolean sequences of the same length that hold at the same places are equal.
LEMMA SameBooleans ==
  ASSUME NEW s \in Seq(BOOLEAN), NEW t \in Seq(BOOLEAN), Len(s) = Len(t),
         \A i \in 1 .. Len(s) : s[i] <=> t[i]
  PROVE  s = t
<1>1. \A i \in 1 .. Len(s) : s[i] \in BOOLEAN /\ t[i] \in BOOLEAN
  OBVIOUS
<1>2. \A i \in 1 .. Len(s) : s[i] = t[i]
  BY <1>1, Zenon
<1> QED BY <1>2, SameSequence

\* The bus adds to it.
LEMMA HeardMore ==
  ASSUME NEW ns \in Seq(Notice), NEW m \in Notice, NEW b \in BOOLEAN, b <=> m.ev = "arrived"
  PROVE  Heard(Append(ns, m)) = Append(Heard(ns), b)
<1> DEFINE l == Len(ns)
<1> DEFINE ms == Append(ns, m)
<1> DEFINE f == Heard(ns)
<1> DEFINE g == Heard(ms)
<1>1. /\ ms \in Seq(Notice) /\ Len(ms) = l + 1 /\ ms[l + 1] = m /\ l \in Nat
      /\ \A i \in 1 .. l : ms[i] = ns[i]
  OBVIOUS
<1>2. f \in Seq(BOOLEAN) /\ Len(f) = l /\ \A i \in 1 .. l : f[i] <=> ns[i].ev = "arrived"
  BY HeardType
<1> HIDE DEF ms, f, l
<1>3. g \in Seq(BOOLEAN) /\ Len(g) = l + 1 /\ \A i \in 1 .. l + 1 : g[i] <=> ms[i].ev = "arrived"
  BY <1>1, HeardType
<1> HIDE DEF g
<1>4. /\ Append(f, b) \in Seq(BOOLEAN) /\ Len(Append(f, b)) = l + 1
      /\ \A i \in 1 .. l : Append(f, b)[i] = f[i]
      /\ Append(f, b)[l + 1] = b
  BY <1>1, <1>2
<1>5. ASSUME NEW i \in 1 .. l + 1 PROVE g[i] <=> Append(f, b)[i]
  <2>1. CASE i \in 1 .. l
    <3>1. g[i] <=> f[i]
      BY <1>1, <1>2, <1>3, <2>1
    <3> QED BY <1>4, <2>1, <3>1, Zenon
  <2>2. CASE i = l + 1
    <3>1. g[i] <=> b
      BY <1>1, <1>3, <2>2
    <3> QED BY <1>4, <2>2, <3>1, Zenon
  <2>3. i \in 1 .. l \/ i = l + 1
    BY <1>1
  <2> QED BY <2>1, <2>2, <2>3
<1>6. g = Append(f, b)
  BY <1>3, <1>4, <1>5, SameBooleans
<1> QED BY <1>6 DEF g, f, ms

\* A callback takes from it.
LEMMA HeardTaken ==
  ASSUME NEW ns \in Seq(Notice), ns # <<>>, NEW b \in BOOLEAN, b <=> Head(ns).ev = "arrived"
  PROVE  Heard(ns) = <<b>> \o Heard(Tail(ns))
<1> DEFINE l == Len(ns)
<1> DEFINE ms == Tail(ns)
<1> DEFINE f == Heard(ns)
<1> DEFINE g == Heard(ms)
<1> DEFINE h == <<b>> \o g
<1>1. /\ ms \in Seq(Notice) /\ Len(ms) = l - 1 /\ Head(ns) = ns[1] /\ l \in Nat \ {0}
      /\ \A i \in 1 .. l - 1 : ms[i] = ns[i + 1]
  OBVIOUS
<1>2. f \in Seq(BOOLEAN) /\ Len(f) = l /\ \A i \in 1 .. l : f[i] <=> ns[i].ev = "arrived"
  BY HeardType
<1> HIDE DEF ms, f, l
<1>3. g \in Seq(BOOLEAN) /\ Len(g) = l - 1 /\ \A i \in 1 .. l - 1 : g[i] <=> ms[i].ev = "arrived"
  BY <1>1, HeardType
<1> HIDE DEF g
<1>4. /\ h \in Seq(BOOLEAN) /\ Len(h) = l /\ h[1] = b
      /\ \A i \in 1 .. l - 1 : h[i + 1] = g[i]
  BY <1>1, <1>3
<1> HIDE DEF h
<1>5. ASSUME NEW i \in 1 .. l PROVE f[i] <=> h[i]
  <2>1. CASE i = 1
    <3>1. f[i] <=> b
      BY <1>1, <1>2, <2>1
    <3> QED BY <1>4, <2>1, <3>1, Zenon
  <2>2. CASE i # 1
    <3>1. i - 1 \in 1 .. l - 1 /\ (i - 1) + 1 = i
      BY <1>1, <2>2
    <3>2. ms[i - 1] = ns[i]
      BY <1>1, <3>1
    <3>3. (f[i] <=> ns[i].ev = "arrived") /\ (g[i - 1] <=> ms[i - 1].ev = "arrived")
      BY <1>2, <1>3, <3>1
    <3>4. f[i] <=> g[i - 1]
      BY <3>2, <3>3
    <3>5. h[i] = g[i - 1]
      BY <1>4, <3>1
    <3> QED BY <3>4, <3>5, Zenon
  <2> QED BY <2>1, <2>2
<1>6. f = h
  BY <1>2, <1>4, <1>5, SameBooleans
<1> QED BY <1>6 DEF f, g, h, ms

\* Serving or posting what is no announcement to Device leaves what is on its way.
LEMMA BusFeedStays ==
  ASSUME inbox \in Seq(Messages), NEW ms \in Seq(Messages),
         Without(ms, "hotplug"), Without(ms, "hotunplug"),
         \/ inbox' = inbox \o ms
         \/ inbox # <<>> /\ Head(inbox) \notin {"hotplug", "hotunplug"} /\ inbox' = Tail(inbox) \o ms
  PROVE  BusFeed' = BusFeed
  BY FeedStays DEF BusFeed

\* What is served and posted of the announcements, by everyone but the agent's
\* own signals.
LEMMA QueueFeed ==
  ASSUME TypeOK, QueueStep
  PROVE  \/ BusFeed' = BusFeed /\ connected' = connected
         \/ /\ BusFeed # <<>> /\ BusFeed' = Tail(BusFeed)
            /\ connected' = Head(BusFeed)
<1>0. inbox \in Seq(Messages)
  BY DEF TypeOK, AgentTypeOK
<1>1. ASSUME NEW m \in {"hotplug", "hotunplug"}, NEW b \in BOOLEAN, b <=> m = "hotplug",
             NEW ms \in Seq(Messages), Without(ms, "hotplug"), Without(ms, "hotunplug"),
             inbox # <<>>, Head(inbox) = m, inbox' = Tail(inbox) \o ms, connected' = b
      PROVE  BusFeed # <<>> /\ BusFeed' = Tail(BusFeed) /\ connected' = Head(BusFeed)
  <2>1. /\ BusFeed # <<>> /\ Head(BusFeed) = (Head(inbox) = "hotplug")
        /\ Feed(Tail(inbox), "hotplug", "hotunplug") = Tail(BusFeed)
    BY <1>0, <1>1, FeedServed DEF BusFeed
  <2>2. Tail(inbox) \in Seq(Messages)
    BY <1>0, <1>1, PostType
  <2>3. \A q \in Seq(Messages) : Feed(q \o ms, "hotplug", "hotunplug") = Feed(q, "hotplug", "hotunplug")
    BY <1>1, FeedQuiet
  <2>4. BusFeed' = Tail(BusFeed)
    BY <1>1, <2>1, <2>2, <2>3 DEF BusFeed
  <2>5. Head(BusFeed) = b
    <3>1. CASE b = TRUE
      <4>1. Head(inbox) = "hotplug"
        BY <1>1, <3>1
      <4> QED BY <2>1, <3>1, <4>1, Zenon
    <3>2. CASE b = FALSE
      <4>1. ~(Head(inbox) = "hotplug")
        BY <1>1, <3>2
      <4> QED BY <2>1, <3>2, <4>1, Zenon
    <3> QED BY <3>1, <3>2
  <2> QED BY <1>1, <2>1, <2>4, <2>5, Zenon
<1>2. CASE OnConnected
  <2>1. /\ inbox # <<>> /\ Head(inbox) = "hotplug" /\ connected' = TRUE
        /\ inbox' = Tail(inbox) \o (ToGui("connected") \o <<"transmit">>)
    BY <1>2 DEF OnConnected, Serve
  <2> QED BY <1>1, <2>1, QuietMessages, QuietNames
<1>3. CASE OnDisconnected
  <2>1. /\ inbox # <<>> /\ Head(inbox) = "hotunplug" /\ connected' = FALSE
        /\ inbox' = Tail(inbox) \o ToGui("disconnected")
    BY <1>3 DEF OnDisconnected, Serve
  <2> QED BY <1>1, <2>1, QuietMessages, QuietNames
<1>4. CASE OnError \/ OnRecieve \/ OnCommand \/ GuiMessage \/ GuiStart \/ GuiConnected \/ GuiDisconnected
  <2>1. PICK ms \in {ToGui("message"), <<>>, <<"transmit">>} :
          /\ inbox' = Tail(inbox) \o ms /\ inbox # <<>>
          /\ Head(inbox) \notin {"hotplug", "hotunplug"}
    <3>1. CASE OnError
      BY <3>1 DEF OnError, Serve
    <3>2. CASE OnRecieve
      BY <3>2 DEF OnRecieve, Serve
    <3>3. CASE OnCommand
      BY <3>3 DEF OnCommand, Serve
    <3>4. CASE GuiMessage \/ GuiStart
      BY <3>4 DEF GuiMessage, GuiStart, Serve
    <3>5. CASE GuiConnected \/ GuiDisconnected
      BY <3>5 DEF GuiConnected, GuiDisconnected, Serve
    <3> QED BY <1>4, <3>1, <3>2, <3>3, <3>4, <3>5
  <2>2. ms \in Seq(Messages) /\ Without(ms, "hotplug") /\ Without(ms, "hotunplug")
    <3>1. CASE ms = ToGui("message")
      BY <3>1, QuietMessages, QuietNames
    <3>2. CASE ms = <<"transmit">>
      BY <3>2, QuietMessages, QuietNames
    <3> QED BY <2>1, <3>1, <3>2, QuietMessages
  <2>3. connected' = connected
    BY <1>4 DEF OnError, OnRecieve, OnCommand, GuiMessage, GuiStart, GuiConnected, GuiDisconnected, linkVars
  <2>4. BusFeed' = BusFeed
    BY <1>0, <2>1, <2>2, BusFeedStays
  <2> QED BY <2>3, <2>4
<1>5. CASE RegisterGui \/ Press
  <2>1. PICK m \in {"gui_start", "command"} : inbox' = inbox \o <<m>> /\ connected' = connected
    BY <1>5 DEF RegisterGui, Press, Post
  <2>2. BusFeed' = BusFeed
    BY <1>0, <2>1, BusFeedStays, QuietMessages, QuietNames
  <2> QED BY <2>1, <2>2
<1> QED BY <1>2, <1>3, <1>4, <1>5 DEF QueueStep

\* The end of so_evt_start and the two signals post an announcement each, at
\* most; nothing else that the agent does touches one.
LEMMA AgentFeed ==
  ASSUME TypeOK, AgentWorker \/ UsbThread
  PROVE  /\ StartRecieve /\ HasDevice => BusFeed' = Append(BusFeed, TRUE)
         /\ StartRecieve /\ ~HasDevice => BusFeed' = BusFeed
         /\ SendHotplug => BusFeed' = Append(BusFeed, TRUE)
         /\ SendHotunplug => BusFeed' = Append(BusFeed, FALSE)
         /\ BusFeed' = BusFeed \/ StartRecieve \/ SendHotplug \/ SendHotunplug
<1>0. inbox \in Seq(Messages) /\ "hotplug" \in Messages /\ "hotunplug" \in Messages /\ "error" \in Messages
  BY DEF TypeOK, AgentTypeOK, Messages
<1>a. /\ <<>> \in Seq(Messages) /\ Without(<<>>, "hotplug") /\ Without(<<>>, "hotunplug")
      /\ \A m : <<m>> \o <<>> = <<m>>
  BY QuietMessages
<1>1. inbox' = inbox \o <<"hotplug">> => BusFeed' = Append(BusFeed, TRUE)
  <2>1. Feed(inbox \o (<<"hotplug">> \o <<>>), "hotplug", "hotunplug") = Append(BusFeed, TRUE)
    BY <1>0, <1>a, FeedGrows DEF BusFeed
  <2> QED BY <1>a, <2>1 DEF BusFeed
<1>2. inbox' = inbox \o <<"hotunplug">> => BusFeed' = Append(BusFeed, FALSE)
  <2>1. Feed(inbox \o (<<"hotunplug">> \o <<>>), "hotplug", "hotunplug") = Append(BusFeed, FALSE)
    BY <1>0, <1>a, FeedGrows DEF BusFeed
  <2> QED BY <1>a, <2>1 DEF BusFeed
<1>3. ASSUME StartRecieve, HasDevice PROVE BusFeed' = Append(BusFeed, TRUE)
  <2>1. inbox' = inbox \o <<"hotplug">> \/ inbox' = inbox \o (<<"error">> \o <<"hotplug">>)
    BY <1>3 DEF StartRecieve, Post
  <2>2. ASSUME inbox' = inbox \o (<<"error">> \o <<"hotplug">>) PROVE BusFeed' = Append(BusFeed, TRUE)
    <3> DEFINE q == inbox \o <<"error">>
    <3>1. q \in Seq(Messages) /\ inbox' = q \o (<<"hotplug">> \o <<>>)
      BY <1>0, <2>2
    <3>2. Feed(q, "hotplug", "hotunplug") = BusFeed
      <4> DEFINE e == <<"error">>
      <4>1. e \in Seq(Messages) /\ Without(e, "hotplug") /\ Without(e, "hotunplug")
        BY QuietMessages, QuietNames
      <4> HIDE DEF e
      <4>2. Feed(inbox \o e, "hotplug", "hotunplug") = BusFeed
        BY <1>0, <4>1, FeedQuiet DEF BusFeed
      <4> QED BY <4>2 DEF e
    <3>3. q \in Seq(Messages)
      BY <3>1
    <3> HIDE DEF q
    <3>4. Feed(q \o (<<"hotplug">> \o <<>>), "hotplug", "hotunplug") = Append(Feed(q, "hotplug", "hotunplug"), TRUE)
      BY <1>0, <1>a, <3>3, FeedGrows
    <3> QED BY <3>1, <3>2, <3>4 DEF BusFeed
  <2> QED BY <1>1, <2>1, <2>2
<1>4. ASSUME StartRecieve, ~HasDevice PROVE BusFeed' = BusFeed
  <2>1. inbox' = inbox \o (<<"error">> \o <<>>)
    BY <1>4, LibUsbAssumption DEF StartRecieve, Post, RecieveOk, IsLive, IsOpen, HasDevice
  <2> QED BY <1>0, <1>a, <2>1, BusFeedStays, QuietMessages, QuietNames
<1>5. SendHotplug => BusFeed' = Append(BusFeed, TRUE)
  BY <1>1 DEF SendHotplug, Post
<1>6. SendHotunplug => BusFeed' = Append(BusFeed, FALSE)
  BY <1>2 DEF SendHotunplug, Post
<1>7. BusFeed' = BusFeed \/ StartRecieve \/ SendHotplug \/ SendHotunplug
  <2>1. CASE StartInit
    <3>1. PICK ms \in {<<>>, <<"error", "error">>} :
            inbox' = Tail(inbox) \o ms /\ inbox # <<>> /\ Head(inbox) = "usb_start"
      BY <1>0, <2>1, PostType DEF StartInit
    <3>2. ms \in Seq(Messages) /\ Without(ms, "hotplug") /\ Without(ms, "hotunplug")
      BY QuietMessages, QuietNames
    <3> QED BY <1>0, <3>1, <3>2, BusFeedStays
  <2>2. CASE TransmitCheck
    <3>1. PICK ms \in {<<>>, <<"error">>} :
            inbox' = Tail(inbox) \o ms /\ inbox # <<>> /\ Head(inbox) = "transmit"
      <4>1. inbox # <<>> => Tail(inbox) = Tail(inbox) \o <<>> /\ Append(Tail(inbox), "error") = Tail(inbox) \o <<"error">>
        BY <1>0, PostType
      <4> QED BY <2>2, <4>1 DEF TransmitCheck
    <3>2. ms \in Seq(Messages) /\ Without(ms, "hotplug") /\ Without(ms, "hotunplug")
      BY QuietMessages, QuietNames
    <3> QED BY <1>0, <3>1, <3>2, BusFeedStays
  <2>3. CASE TransmitSubmit
    BY <1>0, <2>3, BusFeedStays, QuietMessages, QuietNames DEF TransmitSubmit, Post, BusFeed
  <2>4. CASE \E h \in Handles : RxCallback(h)
    <3>1. PICK m \in {"recv_ok", "recv_fail"} : inbox' = inbox \o <<m>>
      BY <2>4 DEF RxCallback, Post
    <3> QED BY <1>0, <3>1, BusFeedStays, QuietMessages, QuietNames
  <2>5. CASE inbox' = inbox
    BY <1>0, <2>5 DEF BusFeed
  <2>6. CASE \/ StartOpen \/ TransmitRead \/ ArrivedCallback \/ LeftCallback
             \/ ResumeRecieve \/ ClearHandle \/ SecondPasses \/ Poll \/ PollCompare \/ NullOpen
             \/ \E h \in Handles : TxCallback(h)
    BY <2>5, <2>6 DEF StartOpen, TransmitRead, ArrivedCallback, LeftCallback, ResumeRecieve, ClearHandle,
       SecondPasses, Poll, PollCompare, NullOpen, TxCallback, agentVars
  <2> QED BY <2>1, <2>2, <2>3, <2>4, <2>6
      DEF AgentWorker, UsbThread, NoticeCallback, UsbThreadStep, Completion
<1> QED BY <1>3, <1>4, <1>5, <1>6, <1>7

\* The strengthening: before the usb thread runs nothing has been announced; and
\* between open_device() and the end of so_evt_start the handle says what the
\* bus looks like, unless libusb has a message about it.
BeforeThread ==
  /\ upc = "off" => ~connected /\ BusFeed = <<>>
  /\ wpc = "start_recv" /\ notices = <<>> => (HasDevice <=> attached # {})

OnePort == Ports = 1 /\ HotplugCapable /\ ~OpenMayFail

LEMMA BeforeThreadStep ==
  ASSUME TypeOK, AgentInv, LeakInv, BeforeThread, OnePort, [Next]_vars
  PROVE  BeforeThread'
<1>0. StartFirst /\ HandleOpen /\ Starting /\ handle \in Handles \union {NoHandle} /\ notices \in Seq(Notice)
  BY DEF AgentInv, LeakInv, TypeOK, LibTypeOK, AgentTypeOK
<1>1. CASE QueueStep \/ UNCHANGED vars
  <2>1. UNCHANGED <<attached, notices, handle, upc, wpc>>
    BY <1>1, QueueFrame DEF libVars, ownVars, agentVars, vars
  <2>2. (BusFeed' = BusFeed /\ connected' = connected) \/ BusFeed # <<>>
    BY <1>1, QueueFeed DEF vars, agentVars, linkVars, BusFeed
  <2> QED BY <2>1, <2>2 DEF BeforeThread, HasDevice
<1>2. CASE AgentWorker /\ UNCHANGED linkVars
  <2>0. UNCHANGED <<attached, connected>> /\ UNCHANGED notices
    BY <1>2 DEF linkVars, AgentWorker, StartInit, StartOpen, StartRecieve, TransmitCheck, TransmitRead,
       TransmitSubmit, libVars
  <2>1. CASE StartOpen
    <3>1. wpc = "start_open" /\ OpenDevice(attached) /\ UNCHANGED <<upc, inbox>>
      BY <2>1 DEF StartOpen
    <3>2. upc = "off" /\ \A h \in Handles : ~IsOpen(h)
      BY <1>0, <3>1 DEF StartFirst, Starting
    <3>3. handle = NoHandle
      BY <1>0, <3>2 DEF HandleOpen, HasDevice
    <3>4. HasDevice' <=> attached' # {}
      <4>1. CASE \E d \in attached, h \in Handles : OpenOk(d, h) /\ handle' = h
        BY <2>0, <4>1, LibUsbAssumption DEF HasDevice
      <4>2. CASE OpenRefused(attached) /\ handle' = handle
        BY <2>0, <3>3, <4>2 DEF OpenRefused, OnePort, HasDevice
      <4> QED BY <3>1, <4>1, <4>2 DEF OpenDevice
    <3>5. BusFeed' = BusFeed
      BY <3>1 DEF BusFeed
    <3> QED BY <2>0, <3>1, <3>4, <3>5 DEF BeforeThread
  <2>2. CASE StartRecieve
    BY <2>2 DEF StartRecieve, BeforeThread
  <2>3. CASE StartInit \/ TransmitCheck \/ TransmitRead \/ TransmitSubmit
    <3>1. upc' = upc /\ wpc' # "start_recv" /\ ~StartRecieve /\ ~SendHotplug /\ ~SendHotunplug
      <4>1. upc' = upc /\ wpc' # "start_recv"
        BY <2>3 DEF StartInit, TransmitCheck, TransmitRead, TransmitSubmit
      <4>2. upc' = upc => ~SendHotplug /\ ~SendHotunplug /\ (StartRecieve => upc = "top")
        BY DEF SendHotplug, SendHotunplug, StartRecieve
      <4>3. StartRecieve => upc = "off"
        BY <1>0 DEF StartRecieve, StartFirst
      <4> QED BY <4>1, <4>2, <4>3
    <3>2. BusFeed' = BusFeed
      BY <1>2, <3>1, AgentFeed
    <3> QED BY <2>0, <3>1, <3>2 DEF BeforeThread
  <2> QED BY <1>2, <2>1, <2>2, <2>3 DEF AgentWorker
<1>3. CASE UsbThread
  <2>1. upc # "off" /\ upc' # "off" /\ wpc' = wpc
    BY <1>3 DEF UsbThread, NoticeCallback, UsbThreadStep, Completion, Handling,
       ArrivedCallback, LeftCallback, SendHotplug, ResumeRecieve, ClearHandle, SendHotunplug,
       SecondPasses, Poll, PollCompare, NullOpen, RxCallback, TxCallback, agentVars, ownVars
  <2>2. wpc # "start_recv"
    BY <1>0, <2>1 DEF StartFirst
  <2> QED BY <2>1, <2>2 DEF BeforeThread
<1>4. CASE Bus
  <2>1. UNCHANGED <<upc, wpc, inbox, connected>>
    BY <1>4 DEF Bus, agentVars, ownVars, linkVars
  <2>2. BusFeed' = BusFeed
    BY <2>1 DEF BusFeed
  <2>3. wpc = "start_recv" => notices' # <<>>
    <3> SUFFICES ASSUME wpc = "start_recv" PROVE notices' # <<>>
      OBVIOUS
    <3>1. ctx
      BY <1>0 DEF Starting
    <3>2. \E m : notices' = Append(notices, m)
      BY <1>4, <3>1 DEF Bus, Attach, Detach, Notify, OnePort
    <3>3. PICK m : notices' = Append(notices, m)
      BY <3>2
    <3>4. Len(notices') = Len(notices) + 1 /\ Len(notices) \in Nat
      BY <1>0, <3>3
    <3>5. \A s : s = <<>> => Len(s) = 0
      OBVIOUS
    <3> QED BY <3>4, <3>5
  <2> QED BY <2>1, <2>2, <2>3 DEF BeforeThread
<1> QED BY <1>1, <1>2, <1>3, <1>4, Steps

\* What Device's view of the bus has pending.
DevicePending == IF upc = "off" THEN <<>> ELSE Pipe

\* The types of what is on its way.
LEMMA PipeType ==
  ASSUME TypeOK
  PROVE  /\ BusFeed \in Seq(BOOLEAN) /\ InCallback \in Seq(BOOLEAN) /\ Noticed \in Seq(BOOLEAN)
         /\ Noticed = Heard(notices) /\ notices \in Seq(Notice) /\ connected \in BOOLEAN
         /\ Pipe \in Seq(BOOLEAN)
<1>1. notices \in Seq(Notice) /\ connected \in BOOLEAN /\ inbox \in Seq(Messages)
  BY DEF TypeOK, LibTypeOK, AgentTypeOK
<1>2. Noticed = Heard(notices)
  BY Zenon DEF Noticed, Heard
<1>3. Noticed \in Seq(BOOLEAN)
  BY <1>1, <1>2, HeardType
<1>4. BusFeed \in Seq(BOOLEAN)
  BY <1>1, FeedType DEF BusFeed
<1>5. InCallback \in Seq(BOOLEAN)
  <2>1. <<TRUE>> \in Seq(BOOLEAN) /\ <<FALSE>> \in Seq(BOOLEAN) /\ <<>> \in Seq(BOOLEAN)
    OBVIOUS
  <2>2. InCallback = <<TRUE>> \/ InCallback = <<FALSE>> \/ InCallback = <<>>
    BY Zenon DEF InCallback
  <2> QED BY <2>1, <2>2
<1>6. \A f, c, n \in Seq(BOOLEAN) : f \o c \o n \in Seq(BOOLEAN)
  OBVIOUS
<1>7. Pipe \in Seq(BOOLEAN)
  BY <1>3, <1>4, <1>5, <1>6 DEF Pipe
<1> QED BY <1>1, <1>2, <1>3, <1>4, <1>5, <1>7

\* Steps the view does not see.
LEMMA DeviceStutters ==
  ASSUME attached' = attached, connected' = connected, upc' = "off" <=> upc = "off",
         DevicePending' = DevicePending
  PROVE  UNCHANGED DeviceView!vars
<1>1. (upc' # "off") = (upc # "off")
  <2>1. CASE upc = "off"
    BY <2>1, Zenon
  <2>2. CASE upc # "off"
    BY <2>2, Zenon
  <2> QED BY <2>1, <2>2
<1>2. (attached' # {}) = (attached # {})
  BY Zenon
<1> QED BY <1>1, <1>2 DEF DeviceView!vars, DevicePending, Pipe, BusFeed

\* The worker serving its queue.
LEMMA DeviceServes ==
  ASSUME TypeOK, BeforeThread, QueueStep
  PROVE  DeviceView!Deliver \/ UNCHANGED DeviceView!vars
<1>1. UNCHANGED <<attached, notices, upc>>
  BY QueueFrame DEF libVars, ownVars
<1>2. InCallback' = InCallback /\ Noticed' = Noticed
  BY <1>1 DEF InCallback, Noticed
<1>3. CASE BusFeed' = BusFeed /\ connected' = connected
  <2>1. DevicePending' = DevicePending
    BY <1>1, <1>2, <1>3 DEF DevicePending, Pipe
  <2> QED BY <1>1, <1>3, <2>1, DeviceStutters
<1>4. CASE BusFeed # <<>> /\ BusFeed' = Tail(BusFeed) /\ connected' = Head(BusFeed)
  <2>1. upc # "off"
    BY <1>4 DEF BeforeThread
  <2>2. Pipe # <<>> /\ Head(Pipe) = Head(BusFeed) /\ Tail(Pipe) = Tail(BusFeed) \o InCallback \o Noticed
    BY <1>4, PipeType, PipeServed DEF Pipe
  <2>3. Pipe' = Tail(Pipe)
    BY <1>2, <1>4, <2>2 DEF Pipe
  <2>4. DevicePending # <<>> /\ connected' = Head(DevicePending) /\ DevicePending' = Tail(DevicePending)
    BY <1>1, <1>4, <2>1, <2>2, <2>3 DEF DevicePending
  <2>5. (upc' # "off") = (upc # "off") /\ (attached' # {}) = (attached # {})
    BY <1>1, Zenon
  <2> QED BY <2>4, <2>5 DEF DeviceView!Deliver, DevicePending, Pipe, BusFeed
<1> QED BY <1>3, <1>4, QueueFeed

\* The end of so_evt_start: Device starts to listen, with what it missed before it.
LEMMA DeviceListens ==
  ASSUME TypeOK, AgentInv, LeakInv, BeforeThread, OnePort, StartRecieve, UNCHANGED linkVars
  PROVE  DeviceView!Listen
<1>1. /\ wpc = "start_recv" /\ upc = "off" /\ upc' = "top" /\ UNCHANGED <<attached, notices, handle>>
      /\ UNCHANGED connected
  BY DEF StartRecieve, AgentInv, StartFirst, linkVars
<1>2. BusFeed = <<>> /\ ~connected
  BY <1>1 DEF BeforeThread
<1>3. BusFeed' = IF HasDevice THEN <<TRUE>> ELSE <<>>
  <2>1. Append(<<>>, TRUE) = <<TRUE>>
    OBVIOUS
  <2> QED BY <1>2, <2>1, AgentFeed DEF AgentWorker
<1>4. InCallback' = <<>>
  BY <1>1 DEF InCallback
<1>5. Noticed' = Noticed
  BY <1>1 DEF Noticed
<1> DEFINE f == BusFeed'
<1> DEFINE n == Noticed
<1> DEFINE p == f \o n
<1>6. f \in Seq(BOOLEAN) /\ n \in Seq(BOOLEAN)
  <2>1. <<TRUE>> \in Seq(BOOLEAN) /\ <<>> \in Seq(BOOLEAN)
    OBVIOUS
  <2> QED BY <1>3, <2>1, PipeType
<1>7. p \in Seq(BOOLEAN) /\ f \o <<>> \o n = p
  <2> HIDE DEF f, n
  <2> QED BY <1>6
<1>8. DevicePending' = p
  BY <1>1, <1>4, <1>5, <1>7 DEF DevicePending, Pipe
<1>9. DeviceView!Settled(connected, p) <=> attached # {}
  <2>1. CASE notices # <<>>
    <3>1. /\ n \in Seq(BOOLEAN) /\ Len(n) = Len(notices) /\ Len(n) \in Nat \ {0}
          /\ n[Len(n)] <=> notices[Len(notices)].ev = "arrived"
      <4>1. Len(notices) \in Nat \ {0}
        BY <2>1, PipeType
      <4> QED BY <4>1, PipeType, HeardType
    <3>2. n[Len(n)] <=> attached # {}
      BY <2>1, <3>1 DEF LeakInv, Turns
    <3>3. p # <<>> /\ p[Len(p)] = n[Len(n)]
      <4> HIDE DEF f, n
      <4> QED BY <1>6, <3>1
    <3> QED BY <3>2, <3>3, Zenon DEF DeviceView!Settled
  <2>2. CASE notices = <<>>
    <3>1. HasDevice <=> attached # {}
      BY <1>1, <2>2 DEF BeforeThread
    <3>2. Len(notices) = 0
      BY <2>2
    <3>3. n = <<>>
      <4>1. Len(n) = 0
        BY <3>2, PipeType, HeardType
      <4> HIDE DEF n
      <4> QED BY <1>6, <4>1
    <3>4. p = f
      <4> HIDE DEF f, n
      <4> QED BY <1>6, <3>3
    <3>5. CASE HasDevice
      <4>1. f # <<>> /\ f[Len(f)] = TRUE
        BY <1>3, <3>5
      <4>2. DeviceView!Settled(connected, p) = TRUE
        BY <3>4, <4>1, Zenon DEF DeviceView!Settled
      <4> QED BY <3>1, <3>5, <4>2
    <3>6. CASE ~HasDevice
      <4>1. f = <<>>
        BY <1>3, <3>6
      <4>2. DeviceView!Settled(connected, p) = connected
        BY <3>4, <4>1, Zenon DEF DeviceView!Settled
      <4> QED BY <1>2, <3>1, <3>6, <4>2, Zenon
    <3> QED BY <3>5, <3>6
  <2> QED BY <2>1, <2>2
<1>10. DeviceView!Settled(connected, p) \in BOOLEAN
  <2>1. p # <<>> => p[Len(p)] \in BOOLEAN
    <3> HIDE DEF p
    <3> QED BY <1>7
  <2> QED BY <2>1, PipeType, Zenon DEF DeviceView!Settled
<1> HIDE DEF p
<1>11. DeviceView!Settled(connected, p) = (attached' # {})
  <2>1. CASE attached # {}
    BY <1>1, <1>9, <1>10, <2>1, Zenon
  <2>2. CASE attached = {}
    BY <1>1, <1>9, <1>10, <2>2, Zenon
  <2> QED BY <2>1, <2>2
<1>12. (attached' # {}) = (attached # {}) /\ (upc' # "off") = TRUE /\ ~(upc # "off")
  BY <1>1, Zenon
<1> QED BY <1>1, <1>7, <1>8, <1>11, <1>12, Zenon DEF DeviceView!Listen, DevicePending, Pipe, BusFeed
\* The usb thread hands what is on its way on, and neither adds to it nor takes
\* from it.
LEMMA DeviceHands ==
  ASSUME TypeOK, StartFirst, PollInv, HotplugCapable, UsbThread, UNCHANGED linkVars
  PROVE  UNCHANGED DeviceView!vars
<1>0. /\ upc # "off" /\ upc' # "off" /\ UNCHANGED attached
      /\ upc \notin {"poll_cmp", "hp_null"} /\ connected' = connected
  BY DEF PollInv, linkVars, UsbThread, NoticeCallback, UsbThreadStep, Completion, Handling,
     ArrivedCallback, LeftCallback, SendHotplug, ResumeRecieve, ClearHandle, SendHotunplug,
     SecondPasses, Poll, PollCompare, NullOpen, RxCallback, TxCallback, agentVars, ownVars, libVars
<1>1. /\ BusFeed \in Seq(BOOLEAN) /\ Noticed \in Seq(BOOLEAN) /\ notices \in Seq(Notice)
      /\ Noticed = Heard(notices)
  BY PipeType
<1>2. Noticed' = Heard(notices')
  BY Zenon DEF Noticed, Heard
<1>3. SUFFICES Pipe' = Pipe
  BY <1>0, DeviceStutters DEF DevicePending
<1>4. ASSUME NEW b \in BOOLEAN, upc = "top", notices # <<>>, b <=> Head(notices).ev = "arrived",
             notices' = Tail(notices), InCallback' = <<b>>, BusFeed' = BusFeed
      PROVE  Pipe' = Pipe
  <2>1. Noticed = <<b>> \o Noticed'
    BY <1>1, <1>2, <1>4, HeardTaken
  <2>2. InCallback = <<>>
    BY <1>4 DEF InCallback
  <2>3. Noticed' \in Seq(BOOLEAN)
    <3>1. Tail(notices) \in Seq(Notice)
      BY <1>1, <1>4
    <3> QED BY <1>2, <1>4, <3>1, HeardType
  <2>4. BusFeed \o <<>> \o (<<b>> \o Noticed') = BusFeed \o <<b>> \o Noticed'
    BY <1>1, <2>3, PipeMoves
  <2> QED BY <1>4, <2>1, <2>2, <2>4 DEF Pipe
<1>5. ASSUME NEW b \in BOOLEAN, InCallback = <<b>>, InCallback' = <<>>, notices' = notices,
             BusFeed' = Append(BusFeed, b)
      PROVE  Pipe' = Pipe
  <2>1. Append(BusFeed, b) \o <<>> \o Noticed = BusFeed \o <<b>> \o Noticed
    BY <1>1, PipeMoves
  <2> QED BY <1>1, <1>2, <1>5, <2>1 DEF Pipe
<1>6. ASSUME InCallback' = InCallback, notices' = notices, BusFeed' = BusFeed PROVE Pipe' = Pipe
  BY <1>1, <1>2, <1>6 DEF Pipe
<1>7. CASE ArrivedCallback
  <2>1. /\ upc = "top" /\ notices # <<>> /\ Head(notices).ev = "arrived" /\ notices' = Tail(notices)
        /\ upc' = "hp_send" /\ inbox' = inbox
    BY <1>7 DEF ArrivedCallback, Handling
  <2>2. InCallback' = <<TRUE>> /\ BusFeed' = BusFeed
    BY <2>1 DEF InCallback, BusFeed
  <2> QED BY <1>4, <2>1, <2>2
<1>8. CASE LeftCallback
  <2>1. /\ upc = "top" /\ notices # <<>> /\ Head(notices).ev = "left" /\ notices' = Tail(notices)
        /\ upc' \in {"hu_null", "hu_send"} /\ inbox' = inbox
    BY <1>8 DEF LeftCallback, Handling
  <2>2. InCallback' = <<FALSE>> /\ BusFeed' = BusFeed
    BY <2>1 DEF InCallback, BusFeed
  <2>3. ~(Head(notices).ev = "arrived")
    BY <2>1
  <2> QED BY <1>4, <2>1, <2>2, <2>3
<1>9. CASE SendHotplug
  <2>1. upc = "hp_send" /\ upc' = "recv" /\ notices' = notices
    BY <1>9 DEF SendHotplug, libVars
  <2>2. InCallback = <<TRUE>> /\ InCallback' = <<>>
    BY <2>1 DEF InCallback
  <2>3. BusFeed' = Append(BusFeed, TRUE)
    BY <1>9, AgentFeed
  <2> QED BY <1>5, <2>1, <2>2, <2>3
<1>10. CASE SendHotunplug
  <2>1. upc = "hu_send" /\ upc' = "top" /\ notices' = notices
    BY <1>10 DEF SendHotunplug, libVars
  <2>2. InCallback = <<FALSE>> /\ InCallback' = <<>>
    BY <2>1 DEF InCallback
  <2>3. BusFeed' = Append(BusFeed, FALSE)
    BY <1>10, AgentFeed
  <2> QED BY <1>5, <2>1, <2>2, <2>3
<1>11. CASE ClearHandle \/ ResumeRecieve \/ Completion
  <2>1. /\ notices' = notices
        /\ \/ upc = "hu_null" /\ upc' = "hu_send"
           \/ upc \in {"recv", "top"} /\ upc' \in {"recv", "top"}
    BY <1>11 DEF ClearHandle, ResumeRecieve, Completion, RxCallback, TxCallback, Handling, libVars, agentVars, ownVars
  <2>2. InCallback' = InCallback
    BY <2>1 DEF InCallback
  <2>3. ~StartRecieve /\ ~SendHotplug /\ ~SendHotunplug
    BY <1>0, <2>1 DEF StartFirst, StartRecieve, SendHotplug, SendHotunplug
  <2>4. BusFeed' = BusFeed
    BY <1>11, <2>3, AgentFeed DEF UsbThread, UsbThreadStep
  <2> QED BY <1>6, <2>1, <2>2, <2>4
<1>12. CASE SecondPasses \/ Poll \/ PollCompare \/ NullOpen
  BY <1>0, <1>12 DEF SecondPasses, Poll, PollCompare, NullOpen
<1> QED BY <1>7, <1>8, <1>9, <1>10, <1>11, <1>12 DEF UsbThread, NoticeCallback, UsbThreadStep

\* A plug or an unplug is announced behind all others, once there is a listener.
LEMMA BusAnnounces ==
  ASSUME TypeOK, LeakInv, OnePort, Bus
  PROVE  \E b \in BOOLEAN : DeviceView!Announce(b)
<1>0. /\ UNCHANGED <<upc, connected, inbox>> /\ notices \in Seq(Notice) /\ lastDev \in Nat
      /\ attached \subseteq 1 .. lastDev
  BY DEF Bus, agentVars, ownVars, linkVars, TypeOK, LibTypeOK
<1>1. \E b \in BOOLEAN, m \in Notice :
        /\ b <=> attached' # {}
        /\ b <=> m.ev = "arrived"
        /\ ctx => notices' = Append(notices, m)
  <2>1. CASE Attach
    <3> DEFINE m == [ev |-> "arrived", dev |-> lastDev + 1]
    <3>1. m \in Notice /\ m.ev = "arrived"
      BY <1>0 DEF Notice
    <3>2. attached' # {} /\ (ctx => notices' = Append(notices, m))
      BY <2>1 DEF Attach, Notify, OnePort
    <3> HIDE DEF m
    <3> QED BY <3>1, <3>2
  <2>2. ASSUME NEW d \in attached, Detach(d)
        PROVE  \E b \in BOOLEAN, m \in Notice :
                 (b <=> attached' # {}) /\ (b <=> m.ev = "arrived") /\ (ctx => notices' = Append(notices, m))
    <3> DEFINE m == [ev |-> "left", dev |-> d]
    <3>1. m \in Notice /\ m.ev # "arrived"
      BY <1>0 DEF Notice
    <3>2. attached' = {}
      BY <2>2 DEF Detach, LeakInv, Turns, Single
    <3>3. ctx => notices' = Append(notices, m)
      BY <2>2 DEF Detach, Notify, OnePort
    <3> HIDE DEF m
    <3> QED BY <3>1, <3>2, <3>3
  <2> QED BY <2>1, <2>2 DEF Bus
<1>2. PICK b \in BOOLEAN, m \in Notice :
        /\ b <=> attached' # {}
        /\ b <=> m.ev = "arrived"
        /\ ctx => notices' = Append(notices, m)
  BY <1>1
<1>3. DevicePending' = IF upc # "off" THEN Append(DevicePending, b) ELSE DevicePending
  <2>1. CASE upc = "off"
    BY <1>0, <2>1 DEF DevicePending
  <2>2. CASE upc # "off"
    <3>1. ctx
      BY <2>2 DEF LeakInv, Starting
    <3>2. Noticed' = Heard(notices') /\ Noticed = Heard(notices)
      BY Zenon DEF Noticed, Heard
    <3>3. Noticed' = Append(Noticed, b)
      BY <1>0, <1>2, <3>1, <3>2, HeardMore
    <3>4. InCallback' = InCallback /\ BusFeed' = BusFeed
      BY <1>0 DEF InCallback, BusFeed
    <3>5. BusFeed \o InCallback \o Append(Noticed, b) = Append(BusFeed \o InCallback \o Noticed, b)
      BY PipeType, PipeMoves
    <3>6. Pipe' = Append(Pipe, b)
      BY <3>3, <3>4, <3>5 DEF Pipe
    <3> QED BY <1>0, <2>2, <3>6 DEF DevicePending
  <2> QED BY <2>1, <2>2
<1>4. (attached' # {}) = b
  <2>1. CASE b = TRUE
    BY <1>2, <2>1, Zenon
  <2>2. CASE b = FALSE
    BY <1>2, <2>2, Zenon
  <2> QED BY <2>1, <2>2
<1>5. (upc' # "off") = (upc # "off") /\ connected' = connected
  BY <1>0, Zenon
<1>6. DeviceView!Announce(b)
  BY <1>3, <1>4, <1>5, Zenon DEF DeviceView!Announce, DevicePending, Pipe, BusFeed
<1> QED BY <1>6

\* With one port, hotplug support and an operating system that lets the program
\* open its board, Device's view of the bus is a delayed copy: so_evt_start tells
\* it what the bus looks like when the usb thread starts, and from then on it is
\* given every plug and unplug, once, in order, through libusb's messages, the
\* callbacks and the queue.
THEOREM DeviceFollows ==
  ASSUME Ports = 1, HotplugCapable, ~OpenMayFail
  PROVE  Spec => DeviceFollowsBus
<1>0. OnePort
  BY DEF OnePort
<1>1. Init => DeviceView!Init /\ LeakInv /\ BeforeThread
  <2> SUFFICES ASSUME Init PROVE DeviceView!Init /\ LeakInv /\ BeforeThread
    OBVIOUS
  <2>1. upc = "off" /\ connected = FALSE /\ attached = {} /\ inbox = <<"usb_start">> /\ wpc = "idle"
    BY DEF Init, AgentInit, LibInit
  <2>2. (attached # {}) = FALSE /\ (upc # "off") = FALSE
    BY <2>1, Zenon
  <2>3. BusFeed = <<>>
    <3>1. Places(inbox, "hotplug", "hotunplug") = {}
      BY <2>1 DEF Places
    <3>2. inbox \in Seq(Messages)
      BY <2>1 DEF Messages
    <3>3. BusFeed \in Seq(BOOLEAN) /\ Len(BusFeed) = 0
      BY <3>1, <3>2, FeedType, FS_EmptySet DEF BusFeed
    <3> QED BY <3>3
  <2>4. DeviceView!Init
    BY <2>1, <2>2, Zenon DEF DeviceView!Init
  <2>5. BeforeThread
    BY <2>1, <2>3 DEF BeforeThread
  <2> QED BY <2>4, <2>5, LeakInit
<1>2. TypeOK /\ AgentInv /\ LeakInv /\ BeforeThread /\ [Next]_vars
        => LeakInv' /\ BeforeThread' /\ [DeviceView!Next]_(DeviceView!vars)
  <2> SUFFICES ASSUME TypeOK, AgentInv, LeakInv, BeforeThread, [Next]_vars
               PROVE  DeviceView!Next \/ UNCHANGED DeviceView!vars
    BY <1>0, LeakStep, BeforeThreadStep
  <2>1. CASE QueueStep
    BY <2>1, DeviceServes DEF DeviceView!Next
  <2>2. CASE StartRecieve /\ UNCHANGED linkVars
    BY <1>0, <2>2, DeviceListens DEF DeviceView!Next
  <2>3. CASE AgentWorker /\ ~StartRecieve /\ UNCHANGED linkVars
    <3>1. UNCHANGED <<attached, notices, upc, connected>>
      BY <2>3 DEF linkVars, AgentWorker, StartInit, StartOpen, TransmitCheck, TransmitRead,
         TransmitSubmit, libVars
    <3>2. ~SendHotplug /\ ~SendHotunplug
      BY <3>1 DEF SendHotplug, SendHotunplug
    <3>3. BusFeed' = BusFeed
      BY <2>3, <3>2, AgentFeed
    <3>4. DevicePending' = DevicePending
      BY <3>1, <3>3 DEF DevicePending, Pipe, InCallback, Noticed
    <3> QED BY <3>1, <3>4, DeviceStutters
  <2>4. CASE UsbThread /\ UNCHANGED linkVars
    BY <2>4, DeviceHands DEF AgentInv
  <2>5. CASE Bus
    <3>1. \E b \in BOOLEAN : DeviceView!Announce(b)
      BY <1>0, <2>5, BusAnnounces
    <3> QED BY <3>1 DEF DeviceView!Next
  <2>6. CASE UNCHANGED vars
    <3>1. UNCHANGED <<attached, notices, upc, connected, inbox>>
      BY <2>6 DEF vars, libVars, agentVars, ownVars, linkVars
    <3>2. DevicePending' = DevicePending
      BY <3>1 DEF DevicePending, Pipe, InCallback, Noticed, BusFeed
    <3> QED BY <3>1, <3>2, DeviceStutters
  <2> QED BY <2>1, <2>2, <2>3, <2>4, <2>5, <2>6, Steps
<1> QED BY <1>1, <1>2, AgentInvInit, AgentInvStep, Typing, PTL DEF Spec, DeviceFollowsBus, DeviceView!Spec

\* DelayedView, with what is proved about it.
DeviceCopy == INSTANCE DelayedView_proofs WITH
  CatchUp   <- TRUE,
  source    <- attached # {},
  pending   <- DevicePending,
  view      <- connected,
  listening <- upc # "off"

\* Under the same assumptions: once libusb, the callbacks and the queue hold no
\* plug or unplug any more, Device says "connected" exactly if a board is there.
\* No plug, however close to the start or to another, is missed for good.
THEOREM DeviceKnowsBus ==
  ASSUME Ports = 1, HotplugCapable, ~OpenMayFail
  PROVE  Spec => [](upc # "off" /\ Pipe = <<>> => (connected <=> attached # {}))
<1>1. DeviceView!Init => DeviceCopy!Init
  BY Zenon DEF DeviceView!Init, DeviceCopy!Init, DevicePending, Pipe, BusFeed
<1>2. [DeviceView!Next]_(DeviceView!vars) => [DeviceCopy!Next]_(DeviceCopy!vars)
  BY Zenon DEF DeviceView!Next, DeviceCopy!Next, DeviceView!vars, DeviceCopy!vars, DeviceView!Listen,
     DeviceCopy!Listen, DeviceView!Deliver, DeviceCopy!Deliver, DeviceView!Announce, DeviceCopy!Announce,
     DeviceView!Settled, DeviceCopy!Settled, DevicePending, Pipe, BusFeed
<1>3. DeviceCopy!Faithful => (upc # "off" /\ Pipe = <<>> => (connected <=> attached # {}))
  BY Zenon DEF DeviceCopy!Faithful, DeviceCopy!Settled, DevicePending
<1> QED BY <1>1, <1>2, <1>3, DeviceFollows, DeviceCopy!FaithfulView, PTL
     DEF DeviceFollowsBus, DeviceView!Spec, DeviceCopy!Spec

-----------------------------------------------------------------------------
(* Without hotplug support *)

\* No message of libusb ever calls a callback, and m_dev_handle is set by
\* so_evt_start or by a poll.
PolledInv ==
  /\ notices = <<>>
  /\ upc # "hu_null"
  /\ HasDevice => wpc = "start_recv" \/ upc # "off"

LEMMA PolledStep ==
  ASSUME TypeOK, StartFirst, PolledInv, ~HotplugCapable, [Next]_vars
  PROVE  PolledInv' /\ (HasDevice => handle' = handle)
<1>0. notices = <<>> /\ upc # "hu_null" /\ (HasDevice => wpc = "start_recv" \/ upc # "off")
  BY DEF PolledInv
<1>1. CASE QueueStep \/ UNCHANGED vars
  <2>1. UNCHANGED <<notices, handle, upc, wpc>>
    BY <1>1, QueueFrame DEF libVars, ownVars, agentVars, vars
  <2> QED BY <1>0, <2>1 DEF PolledInv, HasDevice
<1>2. CASE Bus
  <2>1. UNCHANGED <<notices, handle, upc, wpc>>
    BY <1>2 DEF Bus, Attach, Detach, Notify, agentVars, ownVars
  <2> QED BY <1>0, <2>1 DEF PolledInv, HasDevice
<1>3. CASE StartOpen
  <2>1. wpc = "start_open" /\ wpc' = "start_recv" /\ UNCHANGED <<notices, upc>>
    BY <1>3 DEF StartOpen
  <2>2. upc = "off"
    BY <2>1 DEF StartFirst
  <2> QED BY <1>0, <2>1, <2>2 DEF PolledInv
<1>4. CASE StartRecieve
  <2>1. upc' = "top" /\ UNCHANGED <<notices, handle>>
    BY <1>4 DEF StartRecieve
  <2> QED BY <1>0, <2>1 DEF PolledInv
<1>5. CASE StartInit \/ TransmitCheck \/ TransmitRead \/ TransmitSubmit
  <2>1. UNCHANGED <<notices, handle, upc>> /\ wpc # "start_recv"
    BY <1>5 DEF StartInit, TransmitCheck, TransmitRead, TransmitSubmit, libVars
  <2> QED BY <1>0, <2>1 DEF PolledInv, HasDevice
<1>6. CASE Poll
  <2>1. upc' = "poll_cmp" /\ UNCHANGED notices /\ (HasDevice => handle' = handle)
    BY <1>6 DEF Poll
  <2> QED BY <1>0, <2>1 DEF PolledInv
<1>7. CASE UsbThread /\ ~Poll
  <2>1. ~NoticeCallback /\ ~ClearHandle
    BY <1>0 DEF NoticeCallback, ArrivedCallback, LeftCallback, ClearHandle
  <2>2. UNCHANGED <<notices, handle>> /\ upc' \notin {"hu_null", "off"}
    BY <1>0, <1>7, <2>1 DEF UsbThread, UsbThreadStep, Completion, Handling, SendHotplug, ResumeRecieve,
       SendHotunplug, SecondPasses, PollCompare, NullOpen, RxCallback, TxCallback, agentVars, ownVars, libVars
  <2> QED BY <1>0, <2>2 DEF PolledInv
<1> QED BY <1>1, <1>2, <1>3, <1>4, <1>5, <1>6, <1>7, Steps DEF AgentWorker

\* Without hotplug support UsbBulk never learns that its board has left: a handle
\* that is set is neither closed nor replaced.
THEOREM PolledHandleStays ==
  ASSUME ~HotplugCapable
  PROVE  Spec => [][HasDevice => handle' = handle]_vars
<1>1. Init => PolledInv
  BY DEF Init, LibInit, AgentInit, PolledInv, HasDevice
<1>2. TypeOK /\ AgentInv /\ PolledInv /\ [Next]_vars => PolledInv' /\ [HasDevice => handle' = handle]_vars
  BY PolledStep DEF AgentInv
<1> QED BY <1>1, <1>2, AgentInvInit, AgentInvStep, Typing, PTL DEF Spec
=============================================================================
