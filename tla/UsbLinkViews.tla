---------------------------- MODULE UsbLinkViews ----------------------------
(***************************************************************************)
(* UsbLink implements DelayedView twice: Device's view of the bus, and the *)
(* screen's view of Device.                                                *)
(***************************************************************************)
EXTENDS UsbLink

\* Where the announcements are in a sequence of messages, how many of them come
\* up to a place, and the k-th of them.
Places(s, up, down) == {i \in 1 .. Len(s) : s[i] \in {up, down}}
Rank(A, i) == Cardinality({j \in A : j <= i})
Nth(A, k) == CHOOSE i \in A : Rank(A, i) = k

\* The announcements in a sequence of messages, in order, as booleans.
Feed(s, up, down) ==
  LET A == Places(s, up, down)
  IN  [k \in 1 .. Cardinality(A) |-> s[Nth(A, k)] = up]

\* What the usb thread is about to announce, and what libusb will have it
\* announce.
InCallback ==
  CASE upc = "hp_send" -> <<TRUE>>
    [] upc \in {"hu_null", "hu_send"} -> <<FALSE>>
    [] OTHER -> <<>>

Noticed == [i \in 1 .. Len(notices) |-> notices[i].ev = "arrived"]

DeviceView == INSTANCE DelayedView WITH
  CatchUp   <- TRUE,
  source    <- attached # {},
  pending   <- IF upc = "off" THEN <<>>
               ELSE Feed(inbox, "hotplug", "hotunplug") \o InCallback \o Noticed,
  view      <- connected,
  listening <- upc # "off"

GuiView == INSTANCE DelayedView WITH
  CatchUp   <- FALSE,
  source    <- connected,
  pending   <- Feed(inbox, "connected", "disconnected"),
  view      <- guiConn,
  listening <- guiUp

\* With one port and an operating system that lets the program open its board,
\* Device is told of every plug and unplug once, in order, from the moment the
\* usb thread runs, and starts with what the bus looked like by then.
DeviceFollowsBus == DeviceView!Spec

\* The screen is told of every change Device makes after the GUI subscribed, in
\* order, and of none from before: a board found too early is not shown.
GuiFollowsDevice == GuiView!Spec
=============================================================================
