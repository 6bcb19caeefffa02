----------------------------- MODULE UsbBulkAgent -----------------------------
(***************************************************************************)
(* usb/usb-bulk.hpp (class UsbBulk) and usb/usb-bulk-agent.hpp (class      *)
(* UsbBulkAgent) over libusb.  Two threads share m_dev_handle without a    *)
(* lock: the SObjectizer worker, which runs so_evt_start and               *)
(* on_transmit_data, and the detached usb thread, which runs usb_loop and, *)
(* inside libusb_handle_events, every callback.  An action is one step of  *)
(* a handler between two points where the other thread can see it.         *)
(*                                                                         *)
(* The worker serves one FIFO queue for all agents of the process.  A      *)
(* message is its kind; what it carries is left out.                       *)
(***************************************************************************)
EXTENDS LibUsb

CONSTANTS MaxInbox  \* bound: transfers complete only while the queue is shorter

ASSUME AgentAssumption == MaxInbox \in Nat \ {0}

VARIABLES
  handle,    \* UsbBulk::m_dev_handle
  upc,       \* where the usb thread is
  last,      \* usb_loop's static last_has_device
  elapsed,   \* has usb_loop's Counter passed its first second?
  inbox,     \* the worker's queue
  wpc,       \* where the worker is inside a handler of UsbBulkAgent
  txHandle,  \* the handle transmit() passes to submit()
  proc,      \* "dead" once undefined behaviour has killed the process
  fault,     \* the first undefined behaviour met
  refused    \* history: a submit of recieve() was refused by an attached
             \* device since m_dev_handle was last opened

ownVars == <<handle, upc, last, elapsed, wpc, txHandle, proc, fault, refused>>
agentVars == <<ownVars, inbox>>

Messages == {"usb_start", "hotplug", "hotunplug", "error", "recv_ok", "recv_fail",
             "transmit", "gui_start", "command", "connected", "disconnected", "message"}

AgentTypeOK ==
  /\ handle \in Handles \union {NoHandle}
  /\ upc \in {"off", "top", "hp_send", "recv", "hu_null", "hu_send", "poll_cmp", "hp_null"}
  /\ last \in BOOLEAN
  /\ elapsed \in BOOLEAN
  /\ inbox \in Seq(Messages)
  /\ wpc \in {"idle", "start_open", "start_recv", "tx_read", "tx_submit"}
  /\ txHandle \in Handles \union {NoHandle}
  /\ proc \in {"up", "dead"}
  /\ fault \in {"none", "stale_handle", "null_device"}
  /\ refused \in BOOLEAN

AgentInit ==
  /\ handle = NoHandle
  /\ upc = "off"
  /\ last = FALSE
  /\ elapsed = FALSE
  /\ inbox = <<"usb_start">>
  /\ wpc = "idle"
  /\ txHandle = NoHandle
  /\ proc = "up"
  /\ fault = "none"
  /\ refused = FALSE

HasDevice == handle # NoHandle
Post(ms) == inbox' = inbox \o ms

-----------------------------------------------------------------------------
\* Mutant of OpenDevice: the handle that is replaced is closed.
OpenDeviceClosingOld(D) ==
  \/ \E d \in D, h \in Handles :
       /\ hdev[h] = NoDev
       /\ hdev' = [k \in Handles |-> CASE k = h -> d [] k = handle -> NoDev [] OTHER -> hdev[k]]
       /\ handle' = h
       /\ refused' = FALSE
  \/ /\ OpenRefused(D)
     /\ UNCHANGED <<hdev, handle, refused>>

\* Opening some device of D into m_dev_handle: on failure it keeps its value.
\* (open_device() stores nullptr then, after close_device(): the same, because
\* it is only called while m_dev_handle is nullptr.)
OpenDevice(D) ==
  \/ \E d \in D, h \in Handles :
       /\ OpenOk(d, h)
       /\ handle' = h
       /\ refused' = FALSE
  \/ /\ OpenRefused(D)
     /\ UNCHANGED <<hdev, handle, refused>>

\* Mutant of RecieveFail: recieve() gives up although nothing refused it.
RecieveGivesUp == UNCHANGED <<rx, refused>>

\* UsbBulk::recieve returning SUCCESS, and FAIL.
RecieveOk ==
  /\ IsLive(handle)
  /\ rx' = [rx EXCEPT ![handle] = @ + 1]
  /\ UNCHANGED refused

RecieveFail ==
  /\ HasDevice => SubmitRefused(handle)
  /\ refused' = (refused \/ IsLive(handle))
  /\ UNCHANGED rx

-----------------------------------------------------------------------------
\* The worker: so_evt_start.  UsbBulk::init up to open_device(); when it fails,
\* recieve() fails too and no usb thread is started.
StartInit ==
  /\ wpc = "idle" /\ inbox # <<>> /\ Head(inbox) = "usb_start"
  /\ \/ /\ ctx' = TRUE
        /\ wpc' = "start_open"
        /\ inbox' = Tail(inbox)
     \/ /\ inbox' = Tail(inbox) \o <<"error", "error">>
        /\ UNCHANGED <<ctx, wpc>>
  /\ UNCHANGED <<attached, lastDev, notices, hdev, rx, tx>>
  /\ UNCHANGED <<handle, upc, last, elapsed, txHandle, proc, fault, refused>>

StartOpen ==
  /\ wpc = "start_open"
  /\ OpenDevice(attached)
  /\ wpc' = "start_recv"
  /\ UNCHANGED <<attached, lastDev, ctx, notices, rx, tx>>
  /\ UNCHANGED <<upc, last, elapsed, inbox, txHandle, proc, fault>>

\* The first recieve(), the sig_hotplug for a device found by init, the thread.
StartRecieve ==
  /\ wpc = "start_recv"
  /\ \/ RecieveOk /\ Post(<<"hotplug">>)
     \/ RecieveFail /\ Post(<<"error">> \o IF HasDevice THEN <<"hotplug">> ELSE <<>>)
  /\ wpc' = "idle"
  /\ upc' = "top"
  /\ UNCHANGED <<attached, lastDev, ctx, notices, hdev, tx>>
  /\ UNCHANGED <<handle, last, elapsed, txHandle, proc, fault>>

\* The worker: on_transmit_data.  has_device() and the argument of submit() are
\* two reads of m_dev_handle.
TransmitCheck ==
  /\ wpc = "idle" /\ inbox # <<>> /\ Head(inbox) = "transmit"
  /\ IF HasDevice
     THEN wpc' = "tx_read" /\ inbox' = Tail(inbox)
     ELSE inbox' = Append(Tail(inbox), "error") /\ UNCHANGED wpc
  /\ UNCHANGED libVars
  /\ UNCHANGED <<handle, upc, last, elapsed, txHandle, proc, fault, refused>>

TransmitRead ==
  /\ wpc = "tx_read"
  /\ txHandle' = handle
  /\ wpc' = "tx_submit"
  /\ UNCHANGED libVars
  /\ UNCHANGED <<handle, upc, last, elapsed, inbox, proc, fault, refused>>

\* Submitting on a handle that was closed meanwhile, or is nullptr by now, is
\* undefined: the process dies, or the kernel rejects what is left of it.
TransmitSubmit ==
  /\ wpc = "tx_submit"
  /\ \/ /\ IsLive(txHandle)
        /\ tx' = [tx EXCEPT ![txHandle] = @ + 1]
        /\ UNCHANGED <<inbox, proc, fault>>
     \/ /\ IsOpen(txHandle) /\ SubmitRefused(txHandle)
        /\ Post(<<"error">>)
        /\ UNCHANGED <<tx, proc, fault>>
     \/ /\ ~IsOpen(txHandle)
        /\ fault' = "stale_handle"
        /\ \/ proc' = "dead" /\ UNCHANGED inbox
           \/ Post(<<"error">>) /\ UNCHANGED proc
        /\ UNCHANGED tx
  /\ wpc' = "idle"
  /\ UNCHANGED <<attached, lastDev, ctx, notices, hdev, rx>>
  /\ UNCHANGED <<handle, upc, last, elapsed, txHandle, refused>>

AgentWorker ==
  StartInit \/ StartOpen \/ StartRecieve \/ TransmitCheck \/ TransmitRead \/ TransmitSubmit

-----------------------------------------------------------------------------
\* The usb thread: callbacks of libusb_handle_events, which usb_loop calls when
\* libusb is hotplug capable or a device is open.
Handling == upc = "top" /\ (HotplugCapable \/ HasDevice)

\* hotplug_callback: the result of open_device(dev) is not looked at, and the
\* handle it replaces is not closed.
ArrivedCallback ==
  /\ Handling /\ notices # <<>> /\ Head(notices).ev = "arrived"
  /\ OpenDevice({Head(notices).dev} \intersect attached)
  /\ notices' = Tail(notices)
  /\ upc' = "hp_send"
  /\ UNCHANGED <<attached, lastDev, ctx, rx, tx>>
  /\ UNCHANGED <<last, elapsed, inbox, wpc, txHandle, proc, fault>>

\* Mutant of SendHotplug: the signal is lost.
SendHotplugLost ==
  /\ upc = "hp_send"
  /\ upc' = "recv"
  /\ UNCHANGED libVars
  /\ UNCHANGED <<handle, last, elapsed, inbox, wpc, txHandle, proc, fault, refused>>

\* m_f_on_hotplug: sig_hotplug, then recieve().
SendHotplug ==
  /\ upc = "hp_send"
  /\ Post(<<"hotplug">>)
  /\ upc' = "recv"
  /\ UNCHANGED libVars
  /\ UNCHANGED <<handle, last, elapsed, wpc, txHandle, proc, fault, refused>>

\* The recieve() at the end of m_f_on_hotplug and of m_f_on_recieve.
ResumeRecieve ==
  /\ upc = "recv"
  /\ RecieveOk \/ RecieveFail
  /\ upc' = "top"
  /\ UNCHANGED <<attached, lastDev, ctx, notices, hdev, tx>>
  /\ UNCHANGED <<handle, last, elapsed, inbox, wpc, txHandle, proc, fault>>

\* Mutants of LeftCallback: nothing is announced when no device was open;
\* libusb_close is forgotten.
LeftCallbackIfOpen ==
  /\ Handling /\ notices # <<>> /\ Head(notices).ev = "left"
  /\ notices' = Tail(notices)
  /\ IF HasDevice
     THEN Close(handle) /\ upc' = "hu_null"
     ELSE UNCHANGED <<upc, hdev, rx, tx>>
  /\ UNCHANGED <<attached, lastDev, ctx>>
  /\ UNCHANGED <<handle, last, elapsed, inbox, wpc, txHandle, proc, fault, refused>>

LeftCallbackNoClose ==
  /\ Handling /\ notices # <<>> /\ Head(notices).ev = "left"
  /\ notices' = Tail(notices)
  /\ upc' = "hu_null"
  /\ UNCHANGED <<attached, lastDev, ctx, hdev, rx, tx>>
  /\ UNCHANGED <<handle, last, elapsed, inbox, wpc, txHandle, proc, fault, refused>>

\* hotunplug_callback, whatever device left: libusb_close, then nullptr.
LeftCallback ==
  /\ Handling /\ notices # <<>> /\ Head(notices).ev = "left"
  /\ notices' = Tail(notices)
  /\ IF HasDevice
     THEN Close(handle) /\ upc' = "hu_null"
     ELSE upc' = "hu_send" /\ UNCHANGED <<hdev, rx, tx>>
  /\ UNCHANGED <<attached, lastDev, ctx>>
  /\ UNCHANGED <<handle, last, elapsed, inbox, wpc, txHandle, proc, fault, refused>>

ClearHandle ==
  /\ upc = "hu_null"
  /\ handle' = NoHandle
  /\ upc' = "hu_send"
  /\ UNCHANGED libVars
  /\ UNCHANGED <<last, elapsed, inbox, wpc, txHandle, proc, fault, refused>>

SendHotunplug ==
  /\ upc = "hu_send"
  /\ Post(<<"hotunplug">>)
  /\ upc' = "top"
  /\ UNCHANGED libVars
  /\ UNCHANGED <<handle, last, elapsed, wpc, txHandle, proc, fault, refused>>

\* A receive on handle h completes, times out or fails: sig_recieve_res, then
\* recieve() on m_dev_handle, which may be another handle by now.
RxCallback(h) ==
  /\ Handling /\ rx[h] > 0
  /\ Len(inbox) < MaxInbox
  /\ rx' = [rx EXCEPT ![h] = @ - 1]
  /\ \E res \in {"recv_ok", "recv_fail"} : Post(<<res>>)
  /\ upc' = "recv"
  /\ UNCHANGED <<attached, lastDev, ctx, notices, hdev, tx>>
  /\ UNCHANGED <<handle, last, elapsed, wpc, txHandle, proc, fault, refused>>

\* Mutant of TxCallback: the callback runs for a transfer that is gone.
TxCallbackTwice(h) ==
  /\ Handling
  /\ tx' = [tx EXCEPT ![h] = @ - 1]
  /\ UNCHANGED <<attached, lastDev, ctx, notices, hdev, rx>>
  /\ UNCHANGED agentVars

\* A transmission ends: sig_transmit_res, which no agent subscribes to.
TxCallback(h) ==
  /\ Handling /\ tx[h] > 0
  /\ tx' = [tx EXCEPT ![h] = @ - 1]
  /\ UNCHANGED <<attached, lastDev, ctx, notices, hdev, rx>>
  /\ UNCHANGED agentVars

-----------------------------------------------------------------------------
\* The usb thread without hotplug support.  Counter::reset does not restart the
\* clock, so from the first second on usb_loop polls in every round.
SecondPasses ==
  /\ ~HotplugCapable /\ upc = "top" /\ ~elapsed
  /\ elapsed' = TRUE
  /\ UNCHANGED libVars
  /\ UNCHANGED <<handle, upc, last, inbox, wpc, txHandle, proc, fault, refused>>

\* Mutant of Poll: the device is opened again in every round.
PollReopens ==
  /\ ~HotplugCapable /\ upc = "top" /\ elapsed
  /\ OpenDevice(attached)
  /\ upc' = "poll_cmp"
  /\ UNCHANGED <<attached, lastDev, ctx, notices, rx, tx>>
  /\ UNCHANGED <<last, elapsed, inbox, wpc, txHandle, proc, fault>>

Poll ==
  /\ ~HotplugCapable /\ upc = "top" /\ elapsed
  /\ IF HasDevice THEN UNCHANGED <<hdev, handle, refused>> ELSE OpenDevice(attached)
  /\ upc' = "poll_cmp"
  /\ UNCHANGED <<attached, lastDev, ctx, notices, rx, tx>>
  /\ UNCHANGED <<last, elapsed, inbox, wpc, txHandle, proc, fault>>

PollCompare ==
  /\ upc = "poll_cmp"
  /\ upc' = CASE HasDevice = last -> "top" [] HasDevice /\ ~last -> "hp_null" [] OTHER -> "hu_send"
  /\ last' = HasDevice
  /\ UNCHANGED libVars
  /\ UNCHANGED <<handle, elapsed, inbox, wpc, txHandle, proc, fault, refused>>

\* call_internal_hotplug_callback hands hotplug_callback a NULL device, which
\* libusb_open dereferences.
NullOpen ==
  /\ upc = "hp_null"
  /\ proc' = "dead"
  /\ fault' = "null_device"
  /\ UNCHANGED libVars
  /\ UNCHANGED <<handle, upc, last, elapsed, inbox, wpc, txHandle, refused>>

NoticeCallback == ArrivedCallback \/ LeftCallback
UsbThreadStep ==
  \/ SendHotplug \/ ResumeRecieve \/ ClearHandle \/ SendHotunplug
  \/ SecondPasses \/ Poll \/ PollCompare \/ NullOpen
Completion == \E h \in Handles : RxCallback(h) \/ TxCallback(h)
UsbThread == NoticeCallback \/ UsbThreadStep \/ Completion
=============================================================================
