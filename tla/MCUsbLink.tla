------------------------------ MODULE MCUsbLink ------------------------------
(***************************************************************************)
(* UsbLink for TLC, on three machines: one port and a libusb with hotplug  *)
(* support (the constants' values); two ports; and no hotplug support, up  *)
(* to the first poll that finds a board.  The addresses of handles are     *)
(* interchangeable.                                                        *)
(***************************************************************************)
EXTENDS UsbLinkViews, TLC

VARIABLE machine  \* which of the three a behaviour runs on

TwoPorts == INSTANCE UsbLink WITH Ports <- 2, MaxCommands <- 0
Polling == INSTANCE UsbLink WITH HotplugCapable <- FALSE

MCInit ==
  /\ machine \in {"one port", "two ports", "polling"}
  /\ Init

MCNext ==
  /\ \/ machine = "one port" /\ Next
     \/ machine = "two ports" /\ TwoPorts!Next
     \/ machine = "polling" /\ Polling!Next
  /\ UNCHANGED machine

MCSpec == MCInit /\ [][MCNext]_<<vars, machine>>

\* Without hotplug support a handle, once set, is neither closed nor replaced
\* (UsbBulk never learns that a board has left), up to the poll that kills the
\* process.
HandleSticks == [][machine = "polling" /\ HasDevice => handle' = handle]_<<handle, machine>>

HandleSymmetry == Permutations(Handles)
=============================================================================
