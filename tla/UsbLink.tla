------------------------------- MODULE UsbLink -------------------------------
(***************************************************************************)
(* The path a plug or an unplug takes to the screen: the bus and libusb,   *)
(* UsbBulkAgent on its two threads, the link state that device::Device     *)
(* keeps (device/device_control.hpp) and the connection shown by gui::Gui  *)
(* (gui/guiv2.cpp).  UsbBulkAgent, Device and Gui are served by one        *)
(* SObjectizer worker thread, one message at a time; main (main.cpp)       *)
(* registers the two cooperations while that thread already runs.          *)
(***************************************************************************)
EXTENDS UsbBulkAgent

CONSTANTS MaxCommands  \* bound: commands the user gives

ASSUME LinkAssumption == MaxCommands \in Nat

VARIABLES
  connected,  \* Device::m_conected
  guiCoop,    \* has main registered the GUI's cooperation?
  guiUp,      \* has Gui::so_evt_start subscribed to the device's mbox?
  guiConn,    \* what Gui's ConnStatus shows
  cmds        \* commands given so far

linkVars == <<connected, guiCoop, guiUp, guiConn, cmds>>
vars == <<libVars, agentVars, linkVars>>

\* Every variable of the link keeps its type.
TypeOK ==
  /\ LibTypeOK
  /\ AgentTypeOK
  /\ connected \in BOOLEAN
  /\ guiCoop \in BOOLEAN
  /\ guiUp \in BOOLEAN
  /\ guiConn \in BOOLEAN
  /\ cmds \in Nat

Init ==
  /\ LibInit
  /\ AgentInit
  /\ connected = FALSE
  /\ guiCoop = FALSE
  /\ guiUp = FALSE
  /\ guiConn = FALSE
  /\ cmds = 0

-----------------------------------------------------------------------------
\* Serving the message at the head of the queue, posting ms behind the others.
\* A message to the device's mbox reaches Gui only if it has subscribed.
Serve(kinds, ms) ==
  /\ wpc = "idle" /\ inbox # <<>> /\ Head(inbox) \in kinds
  /\ inbox' = Tail(inbox) \o ms
  /\ UNCHANGED <<libVars, ownVars>>

\* Mutant of ToGui: the mailbox of the GUI is bounded.
ToGuiBounded(m) == IF guiUp /\ Len(inbox) <= 1 THEN <<m>> ELSE <<>>

ToGui(m) == IF guiUp THEN <<m>> ELSE <<>>

\* Device: sig_connected to the GUI, then request_gpio() to the usb mbox.
OnConnected ==
  /\ Serve({"hotplug"}, ToGui("connected") \o <<"transmit">>)
  /\ connected' = TRUE
  /\ UNCHANGED <<guiCoop, guiUp, guiConn, cmds>>

OnDisconnected ==
  /\ Serve({"hotunplug"}, ToGui("disconnected"))
  /\ connected' = FALSE
  /\ UNCHANGED <<guiCoop, guiUp, guiConn, cmds>>

OnError ==
  /\ Serve({"error"}, ToGui("message"))
  /\ UNCHANGED linkVars

\* A packet that arrived may hold something to show; a failed one is dropped.
OnRecieve ==
  /\ \/ Serve({"recv_ok"}, ToGui("message"))
     \/ Serve({"recv_ok", "recv_fail"}, <<>>)
  /\ UNCHANGED linkVars

OnCommand ==
  /\ Serve({"command"}, <<"transmit">>)
  /\ UNCHANGED linkVars

-----------------------------------------------------------------------------
\* main: env.register_coop for the GUI's cooperation; the agent then starts on
\* the worker and subscribes.
RegisterGui ==
  /\ ~guiCoop
  /\ guiCoop' = TRUE
  /\ Post(<<"gui_start">>)
  /\ UNCHANGED <<libVars, ownVars>>
  /\ UNCHANGED <<connected, guiUp, guiConn, cmds>>

GuiStart ==
  /\ Serve({"gui_start"}, <<>>)
  /\ guiUp' = TRUE
  /\ UNCHANGED <<connected, guiCoop, guiConn, cmds>>

GuiConnected ==
  /\ Serve({"connected"}, <<>>)
  /\ guiConn' = TRUE
  /\ UNCHANGED <<connected, guiCoop, guiUp, cmds>>

GuiDisconnected ==
  /\ Serve({"disconnected"}, <<>>)
  /\ guiConn' = FALSE
  /\ UNCHANGED <<connected, guiCoop, guiUp, cmds>>

GuiMessage ==
  /\ Serve({"message"}, <<>>)
  /\ UNCHANGED linkVars

\* A menu entry or a button, inside one RunOnce() of Gui::on_loop.
Press ==
  /\ guiUp /\ wpc = "idle" /\ cmds < MaxCommands
  /\ cmds' = cmds + 1
  /\ Post(<<"command">>)
  /\ UNCHANGED <<libVars, ownVars>>
  /\ UNCHANGED <<connected, guiCoop, guiUp, guiConn>>

-----------------------------------------------------------------------------
Worker ==
  \/ AgentWorker /\ UNCHANGED linkVars
  \/ OnConnected \/ OnDisconnected \/ OnError \/ OnRecieve \/ OnCommand
  \/ GuiStart \/ GuiConnected \/ GuiDisconnected \/ GuiMessage

Bus ==
  /\ Attach \/ \E d \in attached : Detach(d)
  /\ UNCHANGED <<agentVars, linkVars>>

\* Nothing moves in a dead process (what the bus does then is of no interest).
Next ==
  /\ proc = "up"
  /\ \/ Worker
     \/ UsbThread /\ UNCHANGED linkVars
     \/ RegisterGui
     \/ Press
     \/ Bus

Spec == Init /\ [][Next]_vars

\* Fairness.  The worker and the usb thread are threads of the process: each
\* takes its next step.  libusb_handle_events gives out every pending hotplug
\* message each time it wakes, so messages are not overtaken for ever by
\* transfers that complete.  Nothing is assumed of the bus or of the user, nor
\* that any transfer ever completes.
Up(A) == proc = "up" /\ A
Fairness ==
  /\ WF_vars(Up(Worker))
  /\ WF_vars(Up(UsbThreadStep /\ UNCHANGED linkVars))
  /\ SF_vars(Up(NoticeCallback /\ UNCHANGED linkVars))
  /\ WF_vars(Up(RegisterGui))

FairSpec == Spec /\ Fairness
-----------------------------------------------------------------------------
\* What a listener that believes `now` believes once it has been given all of s:
\* the last announcement in it, or `now` if there is none.
Settles(s, up, down, now) ==
  \/ \E i \in 1 .. Len(s) :
       /\ s[i] = up
       /\ \A j \in i + 1 .. Len(s) : s[j] # down
  \/ now /\ \A j \in 1 .. Len(s) : s[j] # down

Told == Settles(inbox, "hotplug", "hotunplug", connected)
GuiTold == Settles(inbox, "connected", "disconnected", guiConn)

\* An open device is never unknown to Device: whenever the usb thread is between
\* callbacks and m_dev_handle is set, the queue leaves Device connected.
HandleAnnounced == upc = "top" /\ HasDevice => Told

\* The GUI never settles on "connected" while Device says otherwise, although it
\* subscribes late and may miss any message sent before.
NoPhantomConnection == GuiTold => connected

\* The receive pump does not stop by itself: between callbacks an open device
\* that is still attached has a receive in flight, unless libusb refused one.
PumpAlive ==
  upc = "top" /\ HotplugCapable /\ IsLive(handle) /\ ~refused => rx[handle] > 0

\* open_device(dev) forgets the handle it replaces.  With one port that can
\* happen once only: to the device that init opened and whose arrival was
\* queued before, so at most one handle is ever open besides m_dev_handle.
LeakBound ==
  Ports = 1 /\ HotplugCapable => Cardinality({h \in Handles : IsOpen(h)} \ {handle}) <= 1

\* transmit() uses a closed handle only if a board was unplugged: neither the
\* start-up nor a second open frees a handle the worker may be using.
StaleNeedsUnplug == fault = "stale_handle" => attached # 1 .. lastDev

\* Once the GUI has subscribed and agrees with Device, it will for ever: no
\* step of any thread drives the two apart.
StaysInSync == [][guiUp /\ GuiTold = connected => GuiTold' = connected']_vars

\* Life without hotplug support: readme.md has a section for building on
\* Windows, where libusb 1.0.26 has none, and hotplug_callback's parameter dev
\* is declared [[maybe_unused]]; the process should outlive the first poll that
\* finds a device.
SurvivesPolling == fault # "null_device"

\* When the bus is quiet, Device comes to agree with it for good, unless libusb
\* could not be initialised or a transmission on a closed handle killed the
\* process; and so does the screen, from any moment at which it has heard of
\* Device's state (m_f_on_hotplug, m_f_on_hotunplug, Gui::on_connected).
Converges ==
  /\ <>[](ctx /\ proc = "up" => connected = (attached # {}))
  /\ [](guiUp /\ GuiTold = connected
          => <>[](ctx /\ proc = "up" => guiConn = (attached # {})))
=============================================================================
