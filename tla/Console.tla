------------------------------- MODULE Console -------------------------------
(***************************************************************************)
(* The life of the program as its user sees it: gui::Gui's loop            *)
(* (gui/guiv2.cpp), the menu and the buttons of the core control           *)
(* (gui/menu.hpp, gui/button.cpp, gui/core_control.cpp), the status line   *)
(* (gui/device_status.cpp) with the commands and packets behind it         *)
(* (device/device_control.hpp), the highlight of a pin that changed        *)
(* (gui/timer.hpp), and the way out (main.cpp).                            *)
(*                                                                         *)
(* One worker serves all agents.  Gui gets a tick every 30 ms, which may   *)
(* stand anywhere between two other messages; the user's events and the    *)
(* drawing happen inside it.  The usb thread, libusb and the board are     *)
(* what UsbLink shows of them: here they only carry a packet or lose it.   *)
(***************************************************************************)
EXTENDS Integers, Sequences

CONSTANTS
  Scripts,     \* names of scripts
  NoName,      \* the empty name
  Stub,        \* what is left of a name that was cut
  Endless,     \* a name that fills its 32 bytes
  LuaStatus,   \* values of lua_status_t
  Stopped,     \* the one that is 0
  Buttons,     \* bound: the buttons of the core control that are used
  Entries,     \* bound: the menu's entries that are used, by their commands
  MaxEvents    \* bound: what the user, the board and the world do

Core == {"LAUNCH_LUA_CORE", "STOP_LUA_CORE", "PAUSE_LUA_CORE", "CONTINUE_LUA_CORE"}
Command == Core \union {"GET_STATUS", "GET_ALL_GPIO"}

ASSUME ConsoleAssumption ==
  /\ NoName \notin Scripts /\ Stub \notin Scripts /\ Endless \notin Scripts
  /\ Stub # NoName /\ Endless \notin {NoName, Stub}
  /\ Stopped \in LuaStatus /\ Buttons \subseteq Core
  /\ Entries \subseteq {"GET_STATUS", "GET_ALL_GPIO"}
  /\ MaxEvents \in Nat

VARIABLES
  \* the process
  envSet,    \* has main set s_env?
  stopping,  \* was the environment told to stop?
  proc,      \* "up", "ended", or "dead" by an exception in on_loop
  raised,    \* a signal that ftxui's handler has recorded
  \* the GUI
  loopUp,    \* has Gui::so_evt_start made m_render_loop?
  quit,      \* m_render_loop->HasQuitted()
  dirty,     \* has ftxui an event that makes it draw?
  held,      \* what the components hold
  drawn,     \* what the terminal shows
  \* Device, the way to the board, and the board
  queue,     \* the worker's queue
  plugged, out, asked,
  status, version,
  events,    \* events from outside so far
  mishap     \* history: was anything refused, lost, cut, unplugged or unheard?

procVars == <<envSet, stopping, proc, raised>>
guiVars == <<loopUp, quit, dirty, held, drawn>>
wayVars == <<queue, plugged, out, asked, mishap>>
boardVars == <<status, version>>
vars == <<procVars, guiVars, wayVars, boardVars, events>>

\* proto::status_t, and (history) how many times the board had changed by then.
Status == [lua : LuaStatus, name : Scripts \union {NoName, Stub, Endless}, loaded : BOOLEAN,
           version : Nat]

Text == {"None", "Name Too Big"} \union Scripts \union {NoName, Stub}

\* What a component shows: DeviceStatus's element, and a pin's highlight.
View == [lua : LuaStatus, text : Text, version : Nat, lit : BOOLEAN]

Message ==
  [k : {"command", "transmit"}, c : Command] \union [k : {"recieve", "status"}, s : Status]
    \union [k : {"error", "message", "pin"}]

\* Every variable keeps its type.
TypeOK ==
  /\ envSet \in BOOLEAN /\ stopping \in BOOLEAN /\ raised \in BOOLEAN
  /\ proc \in {"up", "ended", "dead"}
  /\ loopUp \in BOOLEAN /\ quit \in BOOLEAN /\ dirty \in BOOLEAN
  /\ held \in View /\ drawn \in View
  /\ queue \in Seq(Message)
  /\ plugged \in BOOLEAN /\ out \in Seq(Command) /\ asked \in BOOLEAN /\ mishap \in BOOLEAN
  /\ status \in Status /\ version \in Nat /\ events \in 0 .. MaxEvents

\* Mutant of NameText: a name that is there is shown, loaded or not.
NameTextIfAny(s) ==
  IF s.name = Endless THEN "Name Too Big" ELSE IF s.name = NoName THEN "None" ELSE s.name

\* Mutant of NameText: a name without end is shown.
NameTextEndless(s) == IF ~s.loaded \/ s.name = NoName THEN "None" ELSE s.name

\* parse_name and make_element: what the status line says of the script.
NameText(s) ==
  IF ~s.loaded \/ s.name = NoName THEN "None"
  ELSE IF s.name = Endless THEN "Name Too Big" ELSE s.name

Line(s, lit) == [lua |-> s.lua, text |-> NameText(s), version |-> s.version, lit |-> lit]

NoStatus == [lua |-> Stopped, name |-> NoName, loaded |-> FALSE, version |-> 0]

\* parse_arguments, and what main does when it throws: the ids of the board are
\* numbers, or there are none (as with --help, or an option that is not known),
\* or std::stoi cannot read them.
Arguments == {"numbers", "none", "unreadable"}

\* Every args::Error means the default board; any other exception ends main.
Started(a) == IF a = "unreadable" THEN "ended" ELSE "up"

Init ==
  /\ envSet = FALSE /\ stopping = FALSE /\ raised = FALSE
  /\ proc \in {Started(a) : a \in Arguments}
  /\ loopUp = FALSE /\ quit = FALSE /\ dirty = FALSE
  /\ held = Line(NoStatus, TRUE) /\ drawn = held  \* pins are made lit
  /\ queue = <<>> /\ plugged = TRUE /\ out = <<>> /\ asked = FALSE /\ mishap = FALSE
  /\ status = NoStatus /\ version = 0 /\ events = 0

Happens == events < MaxEvents /\ events' = events + 1

-----------------------------------------------------------------------------
\* main, while the worker runs: s_env = &sobj.
SetEnv ==
  /\ ~envSet /\ envSet' = TRUE
  /\ UNCHANGED <<stopping, proc, raised, guiVars, wayVars, boardVars>>

\* Gui::so_evt_start and build_render; ftxui's Loop installs handlers of its own
\* for the signals main has handlers for.
GuiStart ==
  /\ ~loopUp /\ loopUp' = TRUE /\ dirty' = TRUE
  /\ UNCHANGED <<procVars, quit, held, drawn, wayVars, boardVars>>

\* SIGINT or SIGTERM: ftxui's handler makes the loop quit, main's signal_handler
\* stops the environment, and does nothing before s_env is set.
Signal ==
  /\ Happens
  /\ IF loopUp THEN raised' = TRUE /\ UNCHANGED stopping
     ELSE stopping' = (stopping \/ envSet) /\ UNCHANGED raised
  /\ UNCHANGED <<envSet, proc, guiVars, wayVars, boardVars>>

\* stop() has deregistered every agent, main's join() returns.
End ==
  /\ stopping
  /\ proc' = "ended"
  /\ UNCHANGED <<envSet, stopping, raised, guiVars, wayVars, boardVars>>

-----------------------------------------------------------------------------
\* What one event of the user makes the components do: post messages, quit the
\* loop, or throw.
CommandOf(c) == [k |-> "command", c |-> c]
Idle == [quits |-> FALSE, dies |-> FALSE, ms |-> <<>>]

\* A button of the core control, at a click or at Return.
ButtonEvents == {[Idle EXCEPT !.ms = <<CommandOf(c)>>] : c \in Buttons}

\* An entry of the menu, by a click; at Return ftxui's menu calls on_enter, and
\* Menu::OnEvent calls it once more.
MenuEvents ==
  {[Idle EXCEPT !.ms = ms] :
     ms \in UNION {{<<CommandOf(c)>>, <<CommandOf(c), CommandOf(c)>>} : c \in Entries}}

\* The menu's Exit; once more is no different.
ExitEvent == [Idle EXCEPT !.quits = TRUE]

\* A button of the power supplies or the settings: on_enter() was never called,
\* so m_f_on_enter is empty, and calling it throws.
BareButtonEvent == [Idle EXCEPT !.dies = TRUE]

Events == ButtonEvents \union MenuEvents \union {ExitEvent, BareButtonEvent}

\* Timer::check_all: does a timer that has run out post an event?
Rings(expired) == expired /\ held.lit

\* Mutant of Leave: the exit is asked for only while the loop runs.
LeaveOnce == stopping' = (stopping \/ (quit' /\ ~quit /\ envSet))

\* m_f_on_exit, from the menu's Exit and at the end of every tick once the loop
\* has quit.
Leave == stopping' = (stopping \/ (quit' /\ envSet))

\* Gui::on_loop: timers, one event of the user or none, and RunOnce() draws if
\* there was any event.
OnLoop(expired, e) ==
  /\ loopUp
  /\ IF quit THEN UNCHANGED <<quit, raised, dirty, held, drawn, queue, proc>>
     ELSE LET now == [held EXCEPT !.lit = held.lit /\ ~expired]
              draws == dirty \/ raised \/ e # Idle \/ Rings(expired)
          IN  /\ quit' = (raised \/ e.quits)
              /\ raised' = FALSE
              /\ held' = now
              /\ drawn' = IF draws THEN now ELSE drawn
              /\ dirty' = FALSE
              /\ queue' = queue \o e.ms
              /\ proc' = IF e.dies THEN "dead" ELSE proc
  /\ Leave
  /\ UNCHANGED <<envSet, loopUp, plugged, out, asked, mishap, boardVars>>

Tick == \E expired \in BOOLEAN : OnLoop(expired, Idle)

Press ==
  /\ ~quit /\ Happens
  /\ \E e \in Events : OnLoop(FALSE, e)

-----------------------------------------------------------------------------
Serving(k) == queue # <<>> /\ Head(queue).k = k
Rest(ms) == queue' = Tail(queue) \o ms

\* Gui hears what is sent once it has subscribed, in so_evt_start.
ToGui(m) == IF loopUp THEN <<m>> ELSE <<>>

\* Mutant of OnCommand: no case for GET_STATUS.
OnCommandUnknown ==
  /\ Serving("command")
  /\ Rest(<<IF Head(queue).c = "GET_STATUS" THEN [k |-> "message"]
            ELSE [k |-> "transmit", c |-> Head(queue).c]>>)
  /\ UNCHANGED <<procVars, guiVars, plugged, out, asked, mishap, boardVars>>

\* Device::on_command: the packet goes to UsbBulkAgent.
OnCommand ==
  /\ Serving("command")
  /\ Rest(<<[k |-> "transmit", c |-> Head(queue).c]>>)
  /\ UNCHANGED <<procVars, guiVars, plugged, out, asked, mishap, boardVars>>

\* UsbBulkAgent::on_transmit_data: submitted, or refused.
OnTransmit ==
  /\ Serving("transmit")
  /\ \/ /\ plugged
        /\ out' = Append(out, Head(queue).c)
        /\ Rest(<<>>)
        /\ UNCHANGED mishap
     \/ /\ Rest(<<[k |-> "error"]>>)
        /\ mishap' = TRUE
        /\ UNCHANGED out
  /\ UNCHANGED <<procVars, guiVars, plugged, asked, boardVars>>

\* Device::on_error.
OnError ==
  /\ Serving("error")
  /\ Rest(ToGui([k |-> "message"]))
  /\ UNCHANGED <<procVars, guiVars, plugged, out, asked, mishap, boardVars>>

\* Device::on_recieve, a STATUS packet.
OnRecieve ==
  /\ Serving("recieve")
  /\ Rest(ToGui([k |-> "status", s |-> Head(queue).s]))
  /\ mishap' = (mishap \/ ~loopUp)
  /\ UNCHANGED <<procVars, guiVars, plugged, out, asked, boardVars>>

\* Mutant of OnStatus: the new element is not announced to ftxui.
OnStatusQuietly ==
  /\ Serving("status")
  /\ held' = Line(Head(queue).s, held.lit)
  /\ Rest(<<>>)
  /\ UNCHANGED <<procVars, loopUp, quit, dirty, drawn, plugged, out, asked, mishap, boardVars>>

\* Gui::on_status.
OnStatus ==
  /\ Serving("status")
  /\ held' = Line(Head(queue).s, held.lit)
  /\ dirty' = TRUE
  /\ Rest(<<>>)
  /\ UNCHANGED <<procVars, loopUp, quit, drawn, plugged, out, asked, mishap, boardVars>>

\* WindowGPIO::on_gpio_recieve: the pin is lit for half a second.
OnPin ==
  /\ Serving("pin")
  /\ held' = [held EXCEPT !.lit = TRUE]
  /\ dirty' = TRUE
  /\ Rest(<<>>)
  /\ UNCHANGED <<procVars, loopUp, quit, drawn, plugged, out, asked, mishap, boardVars>>

\* Gui::on_message: the log has a line more, and nothing is drawn for it.
OnMessage ==
  /\ Serving("message")
  /\ Rest(<<>>)
  /\ UNCHANGED <<procVars, guiVars, plugged, out, asked, mishap, boardVars>>

Serve ==
  \/ OnCommand \/ OnTransmit \/ OnError \/ OnRecieve
  \/ OnStatus \/ OnPin \/ OnMessage

-----------------------------------------------------------------------------
\* The oldest transfer ends: its command reaches the board, or is lost.
TransmitEnds ==
  /\ out # <<>> /\ out' = Tail(out)
  /\ \/ asked' = (asked \/ Head(out) = "GET_STATUS") /\ UNCHANGED mishap
     \/ mishap' = TRUE /\ UNCHANGED asked
  /\ UNCHANGED <<procVars, guiVars, queue, plugged, boardVars>>

\* What a receive may deliver of a status that ends early: zeros for the rest,
\* and `loaded` is the last byte.
Cut(s) ==
  {[NoStatus EXCEPT !.version = s.version], [s EXCEPT !.loaded = FALSE],
   [s EXCEPT !.name = IF @ = NoName THEN NoName ELSE Stub, !.loaded = FALSE]}

\* The board sends its status, as an answer or on its own.
BoardReports ==
  /\ plugged /\ asked
  /\ asked' = FALSE
  /\ \E s \in {status} \union Cut(status) :
       /\ queue' = Append(queue, [k |-> "recieve", s |-> s])
       /\ mishap' = (mishap \/ s # status)
  /\ UNCHANGED <<procVars, guiVars, plugged, out, boardVars>>

\* The Lua program on the board goes on: its status changes, and the firmware
\* may have something to report of it.
BoardChanges ==
  /\ plugged /\ Happens
  /\ version' = version + 1
  /\ status' \in [lua : LuaStatus, name : Scripts \union {NoName, Endless}, loaded : BOOLEAN,
                  version : {version'}]
  /\ asked' \in {asked, TRUE}
  /\ UNCHANGED <<procVars, guiVars, queue, plugged, out, mishap>>

\* A pin changes (in detail: GpioPanel).
PinChanges ==
  /\ plugged /\ Happens
  /\ queue' = Append(queue, [k |-> "pin"])
  /\ UNCHANGED <<procVars, guiVars, plugged, out, asked, mishap, boardVars>>

Unplug ==
  /\ plugged /\ plugged' = FALSE /\ Happens
  /\ out' = <<>> /\ asked' = FALSE /\ mishap' = TRUE
  /\ UNCHANGED <<procVars, guiVars, queue, boardVars>>

Next ==
  /\ proc = "up"
  /\ \/ Signal \/ Press \/ BoardChanges \/ PinChanges \/ Unplug
     \/ /\ SetEnv \/ GuiStart \/ End \/ Tick \/ Serve \/ TransmitEnds \/ BoardReports
        /\ UNCHANGED events

Spec == Init /\ [][Next]_vars

\* Fairness: main and the worker take their steps, the tick comes and time
\* passes (a pin that is lit comes to be so no longer), a transfer ends, and,
\* assumed of the firmware, the board answers.
Goes(A) == proc = "up" /\ A /\ UNCHANGED events
FairSpec ==
  /\ Spec
  /\ WF_vars(Goes(SetEnv)) /\ WF_vars(Goes(GuiStart)) /\ WF_vars(Goes(End))
  /\ WF_vars(Goes(Serve)) /\ WF_vars(Goes(OnLoop(TRUE, Idle)))
  /\ WF_vars(Goes(TransmitEnds)) /\ WF_vars(Goes(BoardReports))

-----------------------------------------------------------------------------
\* A receive may be short and a name may lack its end, yet the status line never
\* shows a part of a name: `loaded` comes behind the name in the packet, and
\* reads as zero when anything of it is missing.
NamesWhole == held.text \in Scripts \union {"None", "Name Too Big"}

\* Once the user asks for the status, the screen comes to show it as it was then
\* or later, unless something was refused, lost, cut or unplugged on the way.
StatusAnswered ==
  \A v \in 0 .. MaxEvents :
    [](loopUp /\ version = v /\ (\E i \in 1 .. Len(queue) : queue[i] = CommandOf("GET_STATUS"))
         => <>(drawn.version >= v \/ mishap \/ proc # "up"))

\* The terminal comes to show what the components hold, with no pin lit any
\* more, once the board is silent: nothing but the log waits for the user's next
\* event to be drawn.
ScreenSettles == <>[](proc = "up" /\ ~quit => drawn = held /\ ~drawn.lit)

\* Whoever quits gets out, however early: by the menu or by a signal that ftxui
\* has recorded, even before main has set s_env.
ExitEnds == quit \/ raised ~> proc # "up"
=============================================================================
