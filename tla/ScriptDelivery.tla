---------------------------- MODULE ScriptDelivery ----------------------------
(***************************************************************************)
(* The way of a script to the board: what SendScript hands to send() waits *)
(* in the worker's queue, UsbBulkAgent::on_transmit_data submits it        *)
(* (usb/usb-bulk-agent.hpp) and a transfer carries it, or does not.  A     *)
(* refusal is told to Device, which has the log show it; how a transfer    *)
(* ends is told to nobody.  A packet is its number in `sent`.              *)
(*                                                                         *)
(* send_script runs to its end before the worker serves what it posted;    *)
(* the bus does not wait for it.                                           *)
(***************************************************************************)
EXTENDS SendScript, FiniteSets

CONSTANTS
  Flaky,      \* may a submit or a transfer fail while the board is there?
  MaxPlugs    \* bound: boards

ASSUME DeliveryAssumption == Flaky \in BOOLEAN /\ MaxPlugs \in Nat \ {0}

VARIABLES
  queue,    \* the worker's queue: packets to be submitted, and refusals
  conn,     \* number of the board that is plugged in, or 0
  plugs,    \* boards so far
  out,      \* packets in flight
  got,      \* history: packets that reached a board, in order
  gotBy,    \* history: the board that each of them reached
  lost,     \* history: packets whose transfer failed
  refused,  \* history: packets whose transfer was refused
  logged    \* history: packets whose refusal the log has shown

wayVars == <<queue, conn, plugs, out, got, gotBy, lost, refused, logged>>

\* Every variable keeps its type.
WayTypeOK ==
  /\ TypeOK
  /\ queue \in Seq([k : {"transmit", "error"}, p : 1 .. Len(sent)])
  /\ conn \in 0 .. plugs /\ plugs \in 0 .. MaxPlugs
  /\ out \in Seq(1 .. Len(sent)) /\ got \in Seq(1 .. Len(sent))
  /\ gotBy \in Seq(1 .. plugs) /\ Len(gotBy) = Len(got)
  /\ lost \subseteq 1 .. Len(sent)
  /\ refused \subseteq 1 .. Len(sent) /\ logged \subseteq refused

WayInit ==
  /\ Init
  /\ queue = <<>> /\ out = <<>> /\ got = <<>> /\ gotBy = <<>>
  /\ conn \in {0, 1} /\ plugs = conn
  /\ lost = {} /\ refused = {} /\ logged = {}

\* Mutant of Post: the mailbox of the agent is bounded.
PostBounded ==
  queue' = IF Len(queue) >= 3 THEN queue ELSE Append(queue, [k |-> "transmit", p |-> Len(sent')])

\* Device::send: the packet is posted to the agent.
Post == queue' = Append(queue, [k |-> "transmit", p |-> Len(sent')])

SendPacket ==
  /\ Next
  /\ Post
  /\ UNCHANGED <<conn, plugs, out, got, gotBy, lost, refused, logged>>

Serving(k) == named /\ queue # <<>> /\ Head(queue).k = k

\* Mutant of Submitted: libusb's transfers are a stack.
SubmittedAhead(p) == <<p>> \o out

Submitted(p) == Append(out, p)

\* Mutant of OnTransmit: a refused packet is tried again behind the others.
OnTransmitRetry ==
  /\ Serving("transmit")
  /\ LET p == Head(queue).p
     IN  \/ /\ conn # 0
            /\ out' = Submitted(p)
            /\ queue' = Tail(queue)
         \/ /\ conn = 0 \/ Flaky
            /\ queue' = Append(Tail(queue), Head(queue))
            /\ UNCHANGED out
  /\ UNCHANGED <<vars, conn, plugs, got, gotBy, lost, refused, logged>>

\* UsbBulkAgent::on_transmit_data: submitted, or refused with an error.
OnTransmit ==
  /\ Serving("transmit")
  /\ LET p == Head(queue).p
     IN  \/ /\ conn # 0
            /\ out' = Submitted(p)
            /\ queue' = Tail(queue)
            /\ UNCHANGED refused
         \/ /\ conn = 0 \/ Flaky
            /\ queue' = Append(Tail(queue), [k |-> "error", p |-> p])
            /\ refused' = refused \union {p}
            /\ UNCHANGED out
  /\ UNCHANGED <<vars, conn, plugs, got, gotBy, lost, logged>>

\* Device::on_error, and Gui::on_message's line in the log.
OnError ==
  /\ Serving("error")
  /\ queue' = Tail(queue)
  /\ logged' = logged \union {Head(queue).p}
  /\ UNCHANGED <<vars, conn, plugs, out, got, gotBy, lost, refused>>

Worker == OnTransmit \/ OnError

-----------------------------------------------------------------------------
\* The oldest transfer ends; lib_usb_transmit_callback tells on_finish, which
\* posts sig_transmit_res, to which nobody has subscribed.
TransmitEnds ==
  /\ out # <<>>
  /\ out' = Tail(out)
  /\ \/ /\ got' = Append(got, Head(out))
        /\ gotBy' = Append(gotBy, conn)
        /\ UNCHANGED lost
     \/ /\ Flaky
        /\ lost' = lost \union {Head(out)}
        /\ UNCHANGED <<got, gotBy>>
  /\ UNCHANGED <<vars, queue, conn, plugs, refused, logged>>

Plug ==
  /\ conn = 0 /\ plugs < MaxPlugs
  /\ plugs' = plugs + 1 /\ conn' = plugs'
  /\ UNCHANGED <<vars, queue, out, got, gotBy, lost, refused, logged>>

Unplug ==
  /\ conn # 0
  /\ conn' = 0
  /\ out' = <<>>
  /\ lost' = lost \union {out[i] : i \in 1 .. Len(out)}
  /\ UNCHANGED <<vars, queue, plugs, got, gotBy, refused, logged>>

WayNext == SendPacket \/ Worker \/ TransmitEnds \/ Plug \/ Unplug

WaySpec == WayInit /\ [][WayNext]_<<vars, wayVars>>

\* Fairness: the worker runs, and every transfer ends (2 s at most, main.cpp).
WayFairness ==
  /\ WF_<<vars, wayVars>>(SendPacket)
  /\ WF_<<vars, wayVars>>(Worker)
  /\ WF_<<vars, wayVars>>(TransmitEnds)

WayFairSpec == WaySpec /\ WayFairness

-----------------------------------------------------------------------------
\* Packets of the script reach boards in the order they were cut, and none
\* twice, whatever is refused, lost or unplugged in between.
Channel == INSTANCE LossyChannel WITH sent <- Len(sent), got <- got
SentInOrder == Channel!Spec

\* A board that was given a packet was given the one before it too, unless that
\* one was refused or lost, or went to the board before.  (The packets behind
\* one that was refused are sent all the same: such a board has a script with
\* a hole in it.)
HolesExplained ==
  \A i \in 1 .. Len(got) :
    \/ got[i] = 1
    \/ i > 1 /\ got[i - 1] = got[i] - 1
    \/ got[i] - 1 \in refused \union lost

\* Once Send was pressed, send_script comes to its end (every byte and the name
\* are sent), and one board comes to have all of it, unless a packet was
\* refused, lost or given to another board; each refusal comes to be shown.
ScriptArrives ==
  <>[](/\ named /\ start = size
       /\ logged = refused
       /\ \/ refused # {} \/ lost # {} \/ Cardinality({gotBy[i] : i \in 1 .. Len(gotBy)}) > 1
          \/ got = [i \in 1 .. Len(sent) |-> i])
=============================================================================
