------------------------------- MODULE LibUsb -------------------------------
(***************************************************************************)
(* The bus and the part of libusb that usb/usb-bulk.hpp and                *)
(* usb/bulk-transfer.hpp use (conanfile.txt pins libusb 1.0.26).  The      *)
(* library is not under src/: it is modelled from the calls made to it.    *)
(*                                                                         *)
(* Every attachment of a board with the program's VID/PID is a device      *)
(* object of its own, numbered 1, 2, ...; a board that is replugged is a   *)
(* new device object.  A handle is an address: once closed, the address    *)
(* may be handed out again by a later open.                                *)
(***************************************************************************)
EXTENDS Naturals, Sequences, FiniteSets

CONSTANTS
  Handles,         \* addresses libusb_open may return
  NoHandle,        \* nullptr
  HotplugCapable,  \* libusb_has_capability(LIBUSB_CAP_HAS_HOTPLUG)
  OpenMayFail,     \* may opening an attached device fail (permissions, I/O)?
  SubmitMayFail,   \* may submitting to an attached device fail (resources)?
  Ports,           \* boards that can be attached at the same time
  MaxAttach        \* bound: attachments in a behaviour

ASSUME LibUsbAssumption ==
  /\ NoHandle \notin Handles
  /\ HotplugCapable \in BOOLEAN /\ OpenMayFail \in BOOLEAN /\ SubmitMayFail \in BOOLEAN
  /\ Ports \in Nat /\ MaxAttach \in Nat

VARIABLES
  attached,  \* device objects now on the bus
  lastDev,   \* number of the latest device object
  ctx,       \* is the default libusb context initialised?
  notices,   \* hotplug messages not yet given to a callback, oldest first
  hdev,      \* handle -> the device it is open on, or NoDev when closed
  rx,        \* handle -> receive transfers in flight
  tx         \* handle -> transmit transfers in flight

libVars == <<attached, lastDev, ctx, notices, hdev, rx, tx>>

NoDev == 0
Notice == [ev : {"arrived", "left"}, dev : Nat]

LibTypeOK ==
  /\ lastDev \in Nat
  /\ attached \subseteq 1 .. lastDev
  /\ ctx \in BOOLEAN
  /\ notices \in Seq(Notice)
  /\ hdev \in [Handles -> 0 .. lastDev]
  /\ rx \in [Handles -> Nat]
  /\ tx \in [Handles -> Nat]

LibInit ==
  /\ attached = {}
  /\ lastDev = 0
  /\ ctx = FALSE
  /\ notices = <<>>
  /\ hdev = [h \in Handles |-> NoDev]
  /\ rx = [h \in Handles |-> 0]
  /\ tx = [h \in Handles |-> 0]

IsOpen(h) == h # NoHandle /\ hdev[h] # NoDev
IsLive(h) == IsOpen(h) /\ hdev[h] \in attached

-----------------------------------------------------------------------------
\* The bus.  An initialised context of a hotplug-capable library queues a
\* message for every arrival and departure; callbacks are matched only when
\* libusb_handle_events runs.
Notify(ev, d) ==
  notices' = IF ctx /\ HotplugCapable
             THEN Append(notices, [ev |-> ev, dev |-> d])
             ELSE notices

Attach ==
  /\ lastDev < MaxAttach
  /\ Cardinality(attached) < Ports
  /\ lastDev' = lastDev + 1
  /\ attached' = attached \union {lastDev + 1}
  /\ Notify("arrived", lastDev + 1)
  /\ UNCHANGED <<ctx, hdev, rx, tx>>

Detach(d) ==
  /\ d \in attached
  /\ attached' = attached \ {d}
  /\ Notify("left", d)
  /\ UNCHANGED <<lastDev, ctx, hdev, rx, tx>>

-----------------------------------------------------------------------------
\* Library calls, as relations on the library's variables.

\* libusb_open / libusb_open_device_with_vid_pid returning handle h on device d.
OpenOk(d, h) ==
  /\ d \in attached
  /\ h \in Handles /\ ~IsOpen(h)
  /\ hdev' = [hdev EXCEPT ![h] = d]

\* Opening any device of D may fail: none of them is on the bus any more, or
\* the operating system refuses.
OpenRefused(D) == OpenMayFail \/ D \cap attached = {}

\* libusb_close: transfers in flight on the handle leave the library's list and
\* their callbacks never run.
Close(h) ==
  /\ hdev' = [hdev EXCEPT ![h] = NoDev]
  /\ rx' = [rx EXCEPT ![h] = 0]
  /\ tx' = [tx EXCEPT ![h] = 0]

\* libusb_submit_transfer on an open handle.
SubmitRefused(h) == SubmitMayFail \/ ~IsLive(h)
=============================================================================
