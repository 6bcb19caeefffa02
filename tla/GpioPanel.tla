------------------------------ MODULE GpioPanel ------------------------------
(***************************************************************************)
(* The loop from a key on the GPIO panel (gui/window_gpio.cpp) through     *)
(* device::Device (device/device_control.hpp) and the USB to the board,    *)
(* and back from the board's reports to the panel.                         *)
(*                                                                         *)
(* WindowGPIO, Device and UsbBulkAgent are served by one worker thread     *)
(* from one queue.  The link is what UsbLink shows it to be: a plug and an *)
(* unplug reach Device once each and in order, so here a plug posts the    *)
(* message and opens the link in one step.  The board and its firmware are *)
(* not under src/: the board obeys a command it receives, answers          *)
(* GET_ALL_GPIO with every pin, and changes and reports pins by itself.    *)
(*                                                                         *)
(* WindowGPIO listens from the moment main registers the cooperation of    *)
(* the GUI, which may be in the middle of a handler of Device's; what is   *)
(* announced before reaches nobody.  (Gui, which logs refusals, starts     *)
(* before the first key: keys are read in its loop.)  A receive may be     *)
(* short: bulk-transfer.hpp does not look at actual_length, and            *)
(* to_recieve_t's bytes start out as zeros.                                *)
(***************************************************************************)
EXTENDS Integers, Sequences, FiniteSets

CONSTANTS
  Pins,         \* 0 .. s_gpio_count - 1
  FirstPin,     \* pin 0: what zeros say
  PinOrder,     \* the order in which the firmware lists the pins
  BadPin,       \* a number of a pin the program does not know
  BoardStates,  \* states the firmware may give a pin
  Flaky,        \* may a submit or a transfer fail, or come short, while the board is there?
  MaxPlugs, MaxPresses, MaxReports  \* bounds: plugs, keys, reports of the board

\* The program keeps size_t where the wire has bytes; within 0 .. 255 the casts
\* of gpio_state_to_data lose nothing.
Byte == 0 .. 255
GpioState == [io : {"INPUT", "OUTPUT"}, value : Byte, function : Byte]
Gpio == 5  \* the function of a pin that is a plain input or output

ASSUME PanelAssumption ==
  /\ IsFiniteSet(Pins) /\ FirstPin \in Pins /\ BadPin \notin Pins
  /\ PinOrder \in [1 .. Cardinality(Pins) -> Pins]
  /\ \A n \in Pins : \E i \in DOMAIN PinOrder : PinOrder[i] = n
  /\ BoardStates \subseteq GpioState
  /\ Flaky \in BOOLEAN
  /\ MaxPlugs \in Nat /\ MaxPresses \in Nat /\ MaxReports \in Nat

VARIABLES
  queue,    \* the worker's queue
  states,   \* Device::m_gpio_states; Unset until the pin is reported
  panel,    \* what WindowGPIO shows of each pin
  conn,     \* number of the connection, or 0 when no board is there
  plugs,    \* connections so far
  out,      \* transmissions in flight to the board
  in,       \* packets in flight from the board
  board,    \* the pins of the board
  asked,    \* has the board to answer GET_ALL_GPIO?
  reports,  \* reports of the board so far
  presses,  \* keys so far; a command carries the number of its key
  listens,  \* has WindowGPIO::so_define_agent subscribed to the device's mbox?
  applied,  \* history: commands the board obeyed, in order
  lost,     \* history: commands lost in a transfer
  logged,   \* history: commands whose refusal the log has shown
  seen,     \* history: states of each pin in the packets of the board
  announced, \* history: pins Device announced while WindowGPIO listened
  shownOf,  \* history: the connection each pin of the panel was reported in
  mishap    \* history: was anything lost, cut short, refused or announced to nobody in this connection?

procVars == <<queue, states, panel, presses, listens>>
usbVars == <<conn, plugs, out, in, board, asked, reports>>
historyVars == <<applied, lost, logged, seen, announced, shownOf, mishap>>
vars == <<procVars, usbVars, historyVars>>

Unset == [io |-> "unset", value |-> 0, function |-> 0]
Blank == [io |-> "INPUT", value |-> 0, function |-> 0]  \* gpio_state_t{}

\* Commands: a pin and its new state, or (key 0) GET_ALL_GPIO.
GetAll == [n |-> BadPin, st |-> Blank, key |-> 0]
Command == [n : Pins, st : GpioState, key : Nat \ {0}] \union {GetAll}
Keys(cmds) == {cmds[i].key : i \in 1 .. Len(cmds)} \ {0}

\* Packets: entries, and whether the header counts s_gpio_count at most.
Entry == [n : Pins \union {BadPin}, st : GpioState, conn : Nat]
Packet == [fits : BOOLEAN, body : Seq(Entry)]

\* What Device says of an entry that is wrong is a text, and what it announces
\* before WindowGPIO listens is a blank that nobody gets.
Message ==
  [k : {"set", "transmit", "error"}, cmd : Command]
    \union [k : {"packet"}, p : Packet]
    \union [k : {"shown"}, e : [n : Pins, st : GpioState, conn : Nat]]
    \union [k : {"connected", "text", "nobody"}]

\* Every variable keeps its type: every pin shown or commanded is one that
\* exists, and every state one that fits the wire.
TypeOK ==
  /\ queue \in Seq(Message)
  /\ states \in [Pins -> GpioState \union {Unset}]
  /\ panel \in [Pins -> GpioState]
  /\ conn \in Nat /\ plugs \in Nat
  /\ out \in Seq(Command) /\ in \in Seq(Packet)
  /\ board \in [Pins -> GpioState]
  /\ asked \in BOOLEAN
  /\ reports \in Nat /\ presses \in Nat
  /\ applied \in Seq(Nat) /\ lost \subseteq Nat /\ logged \subseteq Nat
  /\ seen \in [Pins -> SUBSET GpioState]
  /\ shownOf \in [Pins -> Nat]
  /\ listens \in BOOLEAN /\ announced \subseteq Pins
  /\ mishap \in BOOLEAN

Init ==
  /\ queue = <<>>
  /\ states = [n \in Pins |-> Unset]
  /\ panel = [n \in Pins |-> Blank]
  /\ conn = 0 /\ plugs = 0
  /\ out = <<>> /\ in = <<>>
  /\ board = [n \in Pins |-> Blank]
  /\ asked = FALSE
  /\ reports = 0 /\ presses = 0
  /\ applied = <<>> /\ lost = {} /\ logged = {}
  /\ seen = [n \in Pins |-> {}]
  /\ shownOf = [n \in Pins |-> 0]
  /\ listens = FALSE /\ announced = {}
  /\ mishap = FALSE

-----------------------------------------------------------------------------
\* The worker: serving a message of kind k, posting ms.
Serving(k) == queue # <<>> /\ Head(queue).k = k
Serve(k, ms) == Serving(k) /\ queue' = Tail(queue) \o ms

\* What a key makes of the state that is shown: Return, i and o.
Changed(s) ==
  {[s EXCEPT !.value = IF s.value = 1 THEN 0 ELSE 1],
   [s EXCEPT !.io = "INPUT"], [s EXCEPT !.io = "OUTPUT"]}

\* Mutant of Press: any pin answers to a key.
PressAny(n) ==
  /\ presses < MaxPresses
  /\ presses' = presses + 1
  /\ \E s \in Changed(panel[n]) :
       queue' = Append(queue, [k |-> "set", cmd |-> [n |-> n, st |-> s, key |-> presses']])
  /\ UNCHANGED <<states, panel, listens, usbVars, historyVars>>

\* WindowGPIO: a key on pin n, inside RunOnce().
Press(n) ==
  /\ presses < MaxPresses
  /\ panel[n].function = Gpio
  /\ presses' = presses + 1
  /\ \E s \in Changed(panel[n]) :
       queue' = Append(queue, [k |-> "set", cmd |-> [n |-> n, st |-> s, key |-> presses']])
  /\ UNCHANGED <<states, panel, listens, usbVars, historyVars>>

\* Device::on_gpio_set.
OnGpioSet ==
  /\ Serve("set", <<[k |-> "transmit", cmd |-> Head(queue).cmd]>>)
  /\ UNCHANGED <<states, panel, presses, listens, usbVars, historyVars>>

\* Mutant of OnConnected: the new board is not asked for its pins.
OnConnectedQuiet ==
  /\ Serve("connected", <<>>)
  /\ UNCHANGED <<states, panel, presses, listens, usbVars, historyVars>>

\* Device::on_connected, as far as the panel goes: request_gpio.
OnConnected ==
  /\ Serve("connected", <<[k |-> "transmit", cmd |-> GetAll]>>)
  /\ UNCHANGED <<states, panel, presses, listens, usbVars, historyVars>>

\* Mutant of Submit: a command is sent ahead of those in flight.
SubmitAhead(cmd) == out' = <<cmd>> \o out

\* UsbBulk::transmit on an open device.
Submit(cmd) == out' = Append(out, cmd)

\* Mutant of Refusal: nobody is told.
RefusalSilent(cmd) == <<>>

\* The error of UsbBulkAgent, and Device::on_error's message about it.
Refusal(cmd) == <<[k |-> "error", cmd |-> cmd]>>

\* UsbBulkAgent::on_transmit_data.
OnTransmit ==
  /\ \/ /\ conn # 0
        /\ Serve("transmit", <<>>)
        /\ Submit(Head(queue).cmd)
        /\ UNCHANGED mishap
     \/ /\ conn = 0 \/ Flaky
        /\ Serve("transmit", Refusal(Head(queue).cmd))
        /\ mishap' = TRUE
        /\ UNCHANGED out
  /\ UNCHANGED <<states, panel, presses, listens, conn, plugs, in, board, asked, reports,
                 applied, lost, logged, seen, announced, shownOf>>

\* The log shows a refusal, or another message to the user; a blank is for nobody.
OnMessage ==
  /\ \/ Serve("error", <<>>) /\ logged' = logged \union Keys(<<Head(queue).cmd>>)
     \/ (Serve("text", <<>>) \/ Serve("nobody", <<>>)) /\ UNCHANGED logged
  /\ UNCHANGED <<states, panel, presses, listens, usbVars,
                 applied, lost, seen, announced, shownOf, mishap>>

\* Mutant of Announce: an entry is shown whatever its pin.
AnnounceUnchecked(body, deaf) ==
  [i \in 1 .. Len(body) |-> IF i <= deaf THEN [k |-> "nobody"] ELSE [k |-> "shown", e |-> body[i]]]

\* Mutant of Announce: the first entry that is wrong ends the packet.
AnnounceUntilBad(body, deaf) ==
  [i \in 1 .. Len(body) |->
     IF \E j \in 1 .. i : body[j].n \notin Pins THEN [k |-> "text"]
     ELSE IF i <= deaf THEN [k |-> "nobody"] ELSE [k |-> "shown", e |-> body[i]]]

\* Every entry of a packet is announced, the first `deaf` of them to nobody; one
\* with a wrong pin as a message.
Announce(body, deaf) ==
  [i \in 1 .. Len(body) |->
     IF body[i].n \notin Pins THEN [k |-> "text"]
     ELSE IF i <= deaf THEN [k |-> "nobody"] ELSE [k |-> "shown", e |-> body[i]]]

\* The last entry for pin n in a packet, or what was known before.
LastOf(body, n, now) ==
  LET I == {i \in 1 .. Len(body) : body[i].n = n}
  IN  IF I = {} THEN now ELSE body[CHOOSE i \in I : \A j \in I : j <= i].st

\* How many entries of a packet are announced before WindowGPIO listens.
Deaf(body) == IF listens THEN {0} ELSE 0 .. Len(body)

\* Device::on_recieve and parse_gpio, while main may register the GUI.
OnRecieve ==
  /\ Serving("packet")
  /\ LET body == Head(queue).p.body
     IN  IF ~Head(queue).p.fits
         THEN /\ Serve("packet", <<[k |-> "text"]>>)
              /\ UNCHANGED <<states, listens, announced, mishap>>
         ELSE \E deaf \in Deaf(body) :
              /\ Serve("packet", Announce(body, deaf))
              /\ states' = [n \in Pins |-> LastOf(body, n, states[n])]
              /\ listens' = (listens \/ deaf < Len(body))
              /\ announced' = announced \union (Pins \cap {body[i].n : i \in deaf + 1 .. Len(body)})
              /\ mishap' = (mishap \/ \E i \in 1 .. deaf : body[i].n \in Pins /\ body[i].conn = conn)
  /\ UNCHANGED <<panel, presses, usbVars, applied, lost, logged, seen, shownOf>>

\* WindowGPIO::on_gpio_recieve.
OnGpioRecieve ==
  /\ Serve("shown", <<>>)
  /\ LET e == Head(queue).e
     IN  /\ panel' = [panel EXCEPT ![e.n] = e.st]
         /\ shownOf' = [shownOf EXCEPT ![e.n] = e.conn]
  /\ UNCHANGED <<states, presses, listens, usbVars, applied, lost, logged, seen, announced, mishap>>

Worker == OnGpioSet \/ OnConnected \/ OnTransmit \/ OnMessage \/ OnRecieve \/ OnGpioRecieve

\* main registers the GUI's cooperation, between two handlers of the worker.
Register ==
  /\ ~listens
  /\ listens' = TRUE
  /\ UNCHANGED <<queue, states, panel, presses, usbVars, historyVars>>

-----------------------------------------------------------------------------
\* The link.  A plug is told to Device; an unplug takes along what is in flight
\* (that Device is told of it changes nothing here).
Plug ==
  /\ conn = 0 /\ plugs < MaxPlugs
  /\ plugs' = plugs + 1
  /\ conn' = plugs'
  /\ board' \in [Pins -> BoardStates]
  /\ queue' = Append(queue, [k |-> "connected"])
  /\ mishap' = FALSE
  /\ UNCHANGED <<states, panel, presses, listens, out, in, asked, reports,
                 applied, lost, logged, seen, announced, shownOf>>

Unplug ==
  /\ conn # 0
  /\ conn' = 0
  /\ out' = <<>> /\ in' = <<>> /\ asked' = FALSE
  /\ lost' = lost \union Keys(out)
  /\ UNCHANGED <<procVars, plugs, board, reports, applied, logged, seen, announced, shownOf, mishap>>

\* The oldest transmission reaches the board, or ends without doing so.
TransmitEnds ==
  /\ out # <<>>
  /\ out' = Tail(out)
  /\ LET c == Head(out)
     IN  \/ /\ c = GetAll
            /\ asked' = TRUE
            /\ UNCHANGED <<board, applied, lost, mishap>>
         \/ /\ c # GetAll
            /\ board' = [board EXCEPT ![c.n] = c.st]
            /\ applied' = Append(applied, c.key)
            /\ UNCHANGED <<asked, lost, mishap>>
         \/ /\ Flaky
            /\ lost' = lost \union Keys(<<c>>)
            /\ mishap' = TRUE
            /\ UNCHANGED <<board, asked, applied>>
  /\ UNCHANGED <<procVars, conn, plugs, in, reports, logged, seen, announced, shownOf>>

\* What zeros say of a pin, and what is left of an entry (gpio_n, value, io,
\* function) in the middle of which a receive ends.
Zeros == [n |-> FirstPin, st |-> Blank, conn |-> 0]
CutEntry(e) ==
  {Zeros} \union
    {[e EXCEPT !.st = s, !.conn = 0] :
       s \in {Blank, [Blank EXCEPT !.value = e.st.value], [e.st EXCEPT !.function = 0]}}

\* What a short receive leaves of a packet: no entry when its type is missing,
\* zeros when its count is there, or the entries before the m-th, a part of that
\* one, and zeros.
CutShort(p) ==
  {[fits |-> TRUE, body |-> <<>>], [fits |-> TRUE, body |-> [i \in DOMAIN p.body |-> Zeros]]}
    \union UNION {{[p EXCEPT !.body =
                      [i \in DOMAIN p.body |-> IF i < m THEN p.body[i] ELSE IF i = m THEN c ELSE Zeros]]
                   : c \in CutEntry(p.body[m])} : m \in DOMAIN p.body}

\* The oldest packet of the board is received whole, or cut short, or lost:
\* Device drops a result that is not a success.
RecieveEnds ==
  /\ in # <<>>
  /\ in' = Tail(in)
  /\ \/ /\ queue' = Append(queue, [k |-> "packet", p |-> Head(in)])
        /\ UNCHANGED mishap
     \/ /\ Flaky
        /\ mishap' = TRUE
        /\ \/ \E p \in CutShort(Head(in)) : queue' = Append(queue, [k |-> "packet", p |-> p])
           \/ UNCHANGED queue
  /\ UNCHANGED <<states, panel, presses, listens, conn, plugs, out, board, asked, reports,
                 applied, lost, logged, seen, announced, shownOf>>

EntryOf(n, st) == [n |-> n, st |-> st, conn |-> conn]

\* The states of pin n in a packet that can be read.
StatesIn(p, n) == {p.body[i].st : i \in {j \in 1 .. Len(p.body) : p.fits /\ p.body[j].n = n}}

\* A packet sets out from the board.
BoardSends(p) ==
  /\ in' = Append(in, p)
  /\ seen' = [n \in Pins |-> seen[n] \union StatesIn(p, n)]

\* The firmware answers GET_ALL_GPIO with an entry for every pin.
BoardAnswers ==
  /\ asked
  /\ asked' = FALSE
  /\ BoardSends([fits |-> TRUE,
                 body |-> [i \in DOMAIN PinOrder |-> EntryOf(PinOrder[i], board[PinOrder[i]])]])
  /\ UNCHANGED <<procVars, conn, plugs, out, board, reports,
                 applied, lost, logged, announced, shownOf, mishap>>

\* The firmware changes a pin and reports it: the entry alone, twice (before
\* and after), behind an entry for a pin the program does not know, or in a
\* packet whose header counts too many.
BoardReports(n, st) ==
  /\ conn # 0 /\ reports < MaxReports
  /\ reports' = reports + 1
  /\ board' = [board EXCEPT ![n] = st]
  /\ \/ BoardSends([fits |-> FALSE, body |-> <<EntryOf(n, st)>>])
     \/ \E body \in {<<EntryOf(n, st)>>, <<EntryOf(n, board[n]), EntryOf(n, st)>>,
                     <<EntryOf(BadPin, Blank), EntryOf(n, st)>>} :
          BoardSends([fits |-> TRUE, body |-> body])
  /\ UNCHANGED <<procVars, conn, plugs, out, asked,
                 applied, lost, logged, announced, shownOf, mishap>>

Usb == TransmitEnds \/ RecieveEnds
Board == BoardAnswers \/ \E n \in Pins, st \in BoardStates : BoardReports(n, st)

Next == Worker \/ Register \/ (\E n \in Pins : Press(n)) \/ Plug \/ Unplug \/ Usb \/ Board

Spec == Init /\ [][Next]_vars

\* Fairness: the worker runs, every transfer ends (both kinds have a timeout),
\* and the firmware answers.
FairSpec == Spec /\ WF_vars(Worker) /\ WF_vars(TransmitEnds) /\ WF_vars(RecieveEnds) /\ WF_vars(BoardAnswers)

-----------------------------------------------------------------------------
\* What the panel will show of pin n once the queue is served.
WillShow(n, st) ==
  \/ /\ panel[n] = st
     /\ \A i \in 1 .. Len(queue) : queue[i].k = "shown" => queue[i].e.n # n
  \/ \E i \in 1 .. Len(queue) :
       /\ queue[i].k = "shown" /\ queue[i].e.n = n /\ queue[i].e.st = st
       /\ \A j \in i + 1 .. Len(queue) : queue[j].k = "shown" => queue[j].e.n # n

\* From the first entry for a pin that Device announces while WindowGPIO listens,
\* the panel is a delayed copy of what Device has of that pin: entries that are
\* wrong, packets that are dropped or cut short and unplugs never make it miss
\* or reorder the good entries that Device has read (parse_gpio,
\* on_gpio_recieve).  Entries announced before it listens are lost: until the
\* next one for its pin the panel shows Blank and Device has another state.
PanelFollows == \A n \in announced : WillShow(n, states[n])

\* Commands on their way, wherever they are.
Carried ==
  {queue[i].cmd : i \in {j \in 1 .. Len(queue) : queue[j].k \in {"set", "transmit"}}}
    \union {out[i] : i \in 1 .. Len(out)}

\* The program never invents a state: a command on its way changes one field at
\* most of a state that a board has reported for that very pin, and only of a
\* pin reported as a plain GPIO.  (The panel starts out with states no board
\* reported, and a short receive shows others: no key answers on those.)
Informed ==
  \A c \in Carried \ {GetAll} : \E s \in seen[c.n] :
    /\ s.function = Gpio /\ c.st.function = Gpio
    /\ c.st.io = s.io \/ c.st.value = s.value

\* The board obeys keys in the order they were pressed and none twice, whatever
\* is refused, lost or swept away by an unplug in between.
KeysInOrder == \A i, j \in 1 .. Len(applied) : i < j => applied[i] < applied[j]

\* No key vanishes inside the process: its command is on its way, was obeyed,
\* was lost in a transfer, or its refusal is shown or about to be shown.
Accounted ==
  \A key \in 1 .. presses :
    \/ \E c \in Carried : c.key = key
    \/ key \in lost \union logged
    \/ \E i \in 1 .. Len(applied) : applied[i] = key
    \/ \E i \in 1 .. Len(queue) : queue[i].k = "error" /\ queue[i].cmd.key = key

\* After a plug the panel comes to show that board and not the one before,
\* unless it is unplugged again or something is lost, cut short or refused, or
\* the answer is read before WindowGPIO listens (request_gpio is not repeated).
Refreshed ==
  \A c \in 1 .. MaxPlugs :
    conn = c ~> (conn # c \/ mishap \/ \A n \in Pins : shownOf[n] = c)
=============================================================================
