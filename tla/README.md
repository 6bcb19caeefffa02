# usb-io: verification

A TLA+ model of *usb-io*, the terminal program that drives a GPIO/Lua board over
USB: the path a plug takes to the screen, the path a key takes to the board and
back, a script from its file through the editor to the board, what the board
says of itself and how that comes to the screen, and the ways out of the
program. TLC checks the modules on small instances, TLAPS proves the theorems for every value of the
constants. File and line references are to `src/`.

## 1. The system

### Threads

| thread | runs | started |
| --- | --- | --- |
| main | registers two SObjectizer cooperations, joins | `main.cpp:191-232` |
| worker | every agent's handlers, one message at a time, from one FIFO queue | default dispatcher |
| usb thread | `usb_loop`; all libusb callbacks, inside `libusb_handle_events` | detached, `usb-bulk-agent.hpp:74` |
| signal handler | asks the environment to stop | `main.cpp:32-49` |

`UsbBulkAgent` and `Device` are registered first, the GUI's agents (`Gui`,
`WindowGPIO`, `CoreControl`, `PSData`, `Settings`, `Returns`) second, while the
worker already runs. `m_dev_handle` is shared by the worker and the usb thread
and has no lock.

### Components

| component | state | operations | talks to |
| --- | --- | --- | --- |
| `UsbBulk`, `BulkTransfer` | `m_dev_handle`, transfers in flight | init, open/close, transmit, recieve, hotplug and transfer callbacks | libusb |
| `UsbBulkAgent` | the thread, `last_has_device` | `so_evt_start`, `on_transmit_data`, `usb_loop`, the callbacks | posts `sig_hotplug`, `sig_hotunplug`, `sig_recieve_res`, `sig_transmit_res`, `sig_error_mes` |
| `Device` | `m_conected`, `m_gpio_states`, `m_status` | link state, packets in, commands and scripts out | between the two mailboxes |
| `Gui` | what ConnStatus shows, the log, the screen | subscribes in `so_evt_start`; `on_loop` runs the UI | posts commands |
| `WindowGPIO` | what is shown of each pin | keys Return, i, o; `on_gpio_recieve` | posts `sig_gpio_set` |
| `WindowTabs` | names and contents of the tabs, `m_selected` | open, select, close, save, send | `sig_send_script` |
| `TabProgramContent` | the text and the cursor | typing, the wheel | its tab |
| `WindowOpenFile`, `Fs` | the tree, the directory shown, `m_selected` | walk, enter, go back, open | `WindowTabs` |
| `Returns`, `Logger` | rows of variables, last lines and the selected one | add a value, add a line | shown only |
| `Menu`, `Button`, `CoreControl` | functions to call | click, Return | post `sig_command`; Exit |
| `DeviceStatus` | the status line | `make_element` | shown only |
| `Timer` | highlight of pins | start, check | `WindowGPIO`, `Gui::on_loop` |

`PROJECT.json` lists every part, the ones that are not modelled with the reason.

### What is hard, and what would make it correct

* Two threads and one handle: `transmit()` reads it twice, the unplug closes it
  before clearing it (*no closed handle is used unless a board left; an open
  device is known to Device; the receive pump does not stop by itself*).
* Announcements: a board may be found by `init`, by a callback or by both, and
  boards come and go while messages wait (*views are delayed copies; the screen
  settles on nothing false; it converges*).
* The GUI subscribes late: `WindowGPIO` and `Returns` when main registers their
  cooperation, `Gui` when its `so_evt_start` is served. What `Device` says before
  reaches nobody (*from the subscription on, the panel, the table and the log
  miss nothing*).
* A panel that is edited from what it shows, while the board changes it too and
  packets are lost or wrong (*the panel follows the board; the program never
  invents a state; keys stay in order and do not vanish*).
* A script that is many packets, each of which may be refused, lost or given to
  another board (*the chunks tile the script; they arrive in order, holes are
  explained; it comes to an end*).
* Sizes that come from a packet, and receives that are short (*no variable is
  looked for behind the packet, and one that declares at least its header is read
  inside it; no part of a name is shown; values reach their own cell; zeros
  command no pin*). A variable that declares less than its header is not refused:
  its header, and the search for the end of its string, may run past the packet
  (`device_control.hpp:419`, `449`).
* Indices that were captured or kept and outlive the list they point into:
  tabs, the browser, the log (*where they point after any closing; that only an
  empty directory kills the process; where a new line leaves the reader of the
  log: at the end if he was there, else on his line while the log is not full,
  and one line on when it is*).
* Files that outlive the process and belong to others too (*a save overwrites
  unseen text only where two tabs or two programs met*).
* A screen that is drawn only on events, inside a tick (*it comes to show what
  the components hold; whoever quits gets out*).

The hazards, each at its line and with the properties that cover it, are in
`PROJECT.json`.

## 2. The modules

| module | models | checked by |
| --- | --- | --- |
| `LibUsb` | the bus and libusb, external, from the calls made to it | through `UsbLink` |
| `UsbBulkAgent` | `usb/usb-bulk.hpp`, `usb/usb-bulk-agent.hpp`, `usb/bulk-transfer.hpp` on two threads | through `UsbLink` |
| `UsbLink` | the above composed with Device's link state, Gui and main | `MCUsbLink` |
| `DelayedView` | abstract: a view is a delayed copy of a source | refined twice |
| `UsbLinkViews` | the two refinement mappings | itself, `MCUsbLink` |
| `SendScript` | `Device::send_script` | through `ScriptDelivery` |
| `ScriptDelivery` | its packets in the queue, in the agent and in the transfers | `MCDevice` |
| `LossyChannel` | abstract: what is sent arrives in order, at most once, or not | refined by `ScriptDelivery` |
| `VarPacket` | `Device::parse_variables`: offsets and sizes | `MCDevice` |
| `GpioPanel` | `WindowGPIO`, Device's GPIO handlers, board and transfers | `MCGpioPanel` |
| `Logger` | the log's window and its selected line | through `Readout` |
| `Readout` | variables and texts from the board to `Returns` and the log | itself |
| `Console` | `Gui::on_loop`, menu and buttons, status line, highlight, start, signals and exit | itself |
| `ScriptTabs` | `WindowTabs`, Device's `on_script` | through the two below |
| `FileBrowser` | `WindowOpenFile` and `Fs` over `ScriptTabs` | `MCFileBrowser` |
| `Documents` | the texts behind the tabs and their files, over `ScriptTabs` | `MCEditor` |
| `WheelCursor` | the wheel over an editor | `MCEditor` |
| `UsbLink_proofs`, `UsbAgent_proofs` | theorems about `UsbLink` and its views | TLAPS |
| `DelayedView_proofs` | what the abstract specification is worth | TLAPS |
| `Device_proofs` | theorems about `SendScript`, `ScriptDelivery`, `VarPacket` and `MCDevice` | TLAPS |
| `GpioPanel_proofs`, `Readout_proofs`, `Console_proofs` | theorems about the module of that name (`Readout` with its `Logger`) | TLAPS |
| `Tabs_proofs` | theorems about `ScriptTabs`, `FileBrowser`, `Documents`, `WheelCursor` and `MCEditor` | TLAPS |

Definitions named *Mutant of X* are plausible faults of the code and take part
in no run of their own: each property is known to be broken by one of them, so
it does say something about X.

**Composition.** `ScriptDelivery` takes `SendScript`'s own step and posts what
it sends; `FileBrowser` and `Documents` take `ScriptTabs`'s actions and add what
the browser and the texts do in the same step; `Readout` hands its remarks to
`Logger`'s action. `MCDevice` and `MCEditor` put two components that share no
state side by side, a behaviour being one of the two, so that one run serves
both.

**State and actions.** An action is one handler, or one step of a handler
between two points where another thread, or the world, can see it.

* *The link.* In `UsbBulkAgent`, `upc` and `wpc` say where the usb thread and
  the worker are: `TransmitCheck`, `TransmitRead`, `TransmitSubmit` are the two
  reads of `m_dev_handle` in `transmit()` and the submit; `LeftCallback`,
  `ClearHandle`, `SendHotunplug` are `libusb_close`, the store of `nullptr`, and
  the signal. A submit on a closed handle is undefined: the process dies or the
  submit fails. `inbox` is the worker's queue.
* *The panel.* In `GpioPanel` a plug posts its message in the same step and
  commands carry the number of the key they come from (`applied`, `lost`,
  `logged`, `seen`, `announced`, `shownOf`, `mishap` are history, read by
  properties only). `listens` is `WindowGPIO`'s subscription: `Register` is main
  registering the cooperation between two handlers, and `deaf` in `OnRecieve`
  how many entries of a packet Device announces before it does so in the middle
  of one; what nobody listens to is a blank message. `RecieveEnds` delivers a
  packet whole, cut short at any entry with zeros for the rest (`CutShort`), or
  not at all.
* *Scripts.* One round of `send_script`'s loop is a step, because boards come
  and go meanwhile; the worker serves what it has posted only when it is done
  (`Serving` asks for `named`). `got`, `gotBy`, `lost`, `refused`, `logged` are
  history.
* *Packets.* `VarPacket` leaves bytes out: what is decoded at an offset is any
  record, the same one at the same offset; sizes are unsigned and wrap. In
  `Readout` and `Console` the board lays packets out right, and a receive may be
  short: what is missing is zeros, since `to_recieve_t` is value-initialised.
  In `Readout` `returnsUp` and `guiUp` are the two subscriptions, `Register` and
  `GuiStart` the moments they are made, `deaf` as in `GpioPanel`; `read` and
  `told` are history and count from the subscription on. The lines that `Gui`
  logs by itself at a plug and an unplug are left out of the log.
* *Tabs.* `ScriptTabs` keeps in each tab the index its Close button captured,
  and a history flag for whether a tab to its left was removed. Close past the
  end of the vector is undefined and either kills the process or removes the
  last tab.
* *The browser.* `entry` is `m_selected`, with any value before it is first set
  (it is not initialised); the list clamps it when it gets an event or is drawn.
* *Files.* `Save` is the truncation of `std::ios::trunc`, `Write` the output
  when the stream goes, or its silent failure; between them the process may be
  killed. `crossed` and `clobbered` are history.
* *The console.* `OnLoop` is a whole tick: timers, the user's event, drawing,
  and the exit. `held` is what the components hold, `drawn` what the terminal
  shows, `dirty` whether ftxui has an event queued. `version` counts the board's
  changes and `mishap` records a loss, for the properties. An exception inside
  `on_loop`, which is noexcept, ends the process.

## 3. The runs

| run | properties | bounds | shows |
| --- | --- | --- | --- |
| `link_safety` | `TypeOK`, `HandleAnnounced`, `NoPhantomConnection`, `PumpAlive`, `StaleNeedsUnplug`, `GuiFollowsDevice`, `HandleSticks` | 2 handles, 2 attachments, queue 1, 1 command; on one port, on two, and without hotplug support | everything two threads can do with opens and submits that fail |
| `link_views` | `LeakBound`, `DeviceFollowsBus`, `Converges` | the same with 3 handles, one port, nothing refused, no command | at most one open handle is forgotten; Device's view refines `DelayedView`; the views agree with a bus that is quiet |
| `no_hotplug` | `SurvivesPolling` (violated) | one port, no hotplug support | finding 1 |
| `device` | `TypesOK`, `Tiled`, `HolesExplained`, `InsidePacket`, `StringsEnd`, `SentInOrder`, `ScriptArrives` | packets of 3 bytes, scripts to 13, 2 boards, any refusal and loss; packets of 5 bytes with up to 3 variables, headers of 2 | the way of a script; the offsets of a packet |
| `script_labels` | `EndIsLast` (violated) | packets of 4 bytes | finding 2 |
| `gpio_panel` | `TypeOK`, `PanelFollows`, `Informed` | 2 pins, 2 plugs, 1 key, 1 report | commands and reports that cross, wrong, cut and lost packets, and ones that come before `WindowGPIO` listens |
| `gpio_live` | `KeysInOrder`, `Accounted`, `Refreshed` | 2 pins, 2 plugs, 2 keys | keys before, during and after an unplug; the panel of a new board |
| `tabs` | `BrowserTypeOK`, `Aim`, `CloseAims`, `DiesInEmpty` | a tree of 3 directories, one of them empty, 2 files, 4 tabs opened | every order of walking, opening and closing |
| `tabs_name` | `NameIsFiles` (violated) | 2 files | finding 3 |
| `readout` | `TypeOK`, `ValuesFollow`, `OneCellEach`, `RemarksLogged`, `ReaderKept` | 2 names and the 2 that cut packets make, 2 values and the zero that cut packets make, rows of 2, 2 packets of 2 variables, a log of 3 lines | values to their cells, remarks to the log, from before the subscriptions on |
| `console` | `TypeOK`, `NamesWhole`, `StatusAnswered`, `ScreenSettles`, `ExitEnds` | 1 script, 2 states of the board's core, 3 commands, 2 events from outside | the screen and the ways out |
| `editor` | `TypesOK`, `Clobbers`, `WheelGoesOn` | 2 files, 2 texts, 3 tabs, 4 events; texts of 5 characters | what saves overwrite; the wheel |

**Why the bounds are enough.** With one port two attachments give a plug, an
unplug and a replug, and the notice of one while the next already happened; on
two ports they give two boards at once, one of which leaves. Two handles let one
leak while the other is used, and let an address be reused; the bound on what is
forgotten is checked with three, so that another device can be opened, and a
second handle forgotten, while one is forgotten and one is in use (with one port
only, where the bound holds). The queue bound
`MaxInbox` holds back completing transfers only (they come without end);
messages about plugs, errors and commands are never held back. In `GpioPanel`
two pins tell a pin from its neighbour (the one that zeros name, and the other;
the firmware lists them in one order, `PinOrder`, so the pins are not
symmetric), two plugs an old board from the new. A
script of 13 bytes in packets of 3 is a first, three middle and a last packet
with one byte and its name; every shorter length is there, so every boundary is.
Three variables in 5 bytes reach the end of the packet with and without an
empty one. `MaxPending` and `MaxOpened` leave a stale index to hit a neighbour
and to run past the end. In `Readout` four names fill two rows of two, and four
remarks overflow a log of three. Two events in `Console` are a change of the
board and a request, a pin and an exit, an unplug and a request; ticks, drawing,
signals' effects and messages are not bounded. Four events in `Documents` are
two edits and two saves, or an edit, a save, a kill and a save after the
restart. `CHECK_DEADLOCK FALSE` is there because the system may really rest: an
empty queue and a quiet bus, a process that ended, or a bound that was reached. The largest run is `gpio_panel`, with 16 million states.

**Fairness.** `UsbLink!Fairness`: the worker and the usb thread each take their
next step (weak: they are threads of a running process, and the program counter
of one is not moved by the other); pending hotplug messages are eventually given
out (strong: `libusb_handle_events` gives out all of them each time it wakes,
but transfers complete in between and disable the action while a callback runs);
main goes on to register the GUI. Nothing is assumed of the bus, the user or
transfers. `GpioPanel!FairSpec` needs transfers too, for the panel is told by
one: a transfer ends because it is submitted with a timeout or its board leaves.
That the firmware answers `GET_ALL_GPIO` is an assumption on the board.
`ScriptDelivery!WayFairness`: the worker, and the end of transfers; no board has
to be there. `Console!FairSpec`: main, the worker, the tick with time passing
(`send_periodic` every 30 ms, timers of 500 ms), the end of transfers, and an
answer of the board; nothing of the user, of signals or of the board's program.

## 4. Findings

1. *Polling kills the process* (`no_hotplug`). Without hotplug support
   `usb-bulk.hpp:291` calls the hotplug callback with a NULL device, and
   `open_device` hands that to `libusb_open` at the first board that is found.
   `readme.md:1` documents the Windows build, which has this path only.
2. *Middle chunks are labelled last* (`script_labels`). `device_control.hpp:285`
   asks for a chunk longer than a packet, which cannot be, so `SCRIPT_DATA_N`
   (`protocol.hpp:19`) is never used and every chunk but the first says it ends
   the script.
3. *The script's name dangles* (`tabs_name`). `window_tabs.cpp:209` puts a view
   of a temporary `std::string` in a message that Device reads later.

## 5. Proofs

The proofs hold for any sets and numbers that satisfy the named `ASSUME`s of the
modules: `LibUsbAssumption`, `AgentAssumption` and `LinkAssumption` for the link,
`ScriptAssumption`, `DeliveryAssumption` and `PacketAssumption` (a packet is
shorter than `size_t` can count, a header is not empty) for Device's loops,
`PanelAssumption` (finitely many pins; states that fit a byte), `TabsAssumption`,
`TreeAssumption`, `DocumentsAssumption` and `WheelAssumption` for the tabs,
`ReadoutAssumption`, `LoggerAssumption` and `ConsoleAssumption`. Three theorems
assume more of the machine, and say so below. Every invariant that a run checks
is also proved, and so are the refinements. Where a property is not in a run any
more because the proof covers it (`StaysInSync`, `StartsOnce`, `FixedTabsStay`),
the theorem stands for it.

* `UsbLink_proofs`: `Typing`; `NoPhantom` and `InSync`. What a listener will
  believe once it has been given all of the queue (`Settles`) is followed through
  appending and serving; every change of Device reaches the screen's queue behind
  all others. Inductive: `GuiInv`, which adds to `NoPhantomConnection` that the
  screen settles on nothing before it subscribes.
  `ScreenFollows` is the step simulation of `DelayedView` by the screen's view.
  The announcements in a queue are its elements at certain places, so the lemmas
  about `Feed` number those places (`Rank`, `Nth`) and show what appending and
  serving do to the numbering. Each step of the link announces a change, starts
  the GUI, shows an announcement, or is a stutter (`ScreenSteps`). The invariant
  it needs is `Deaf`: before the GUI subscribes nothing is queued for it.
* `UsbAgent_proofs`: `HandleKnown`, `PumpRuns`, `StaleOnlyUnplugged`. The
  properties speak of the moments between callbacks and are not inductive;
  `AgentInv` says in addition what holds inside a callback (`HandleOpen`,
  `PollInv`, `Announced`) and that the start comes first (`StartFirst`: the
  handlers that share the handle do not run before it). `StaleInv` says that
  without an unplug nothing on its way can close a handle.
  `AtMostOneForgotten` bounds the leak on a machine with one port. A board that
  `init` opens may have its arrival queued as well, and the callback then opens
  it again over the handle that is set; that happens once, because every later
  arrival comes behind a departure, which clears `m_dev_handle`. `LeakInv` needs
  that arrivals and departures take turns in libusb's messages (`Turns`), what
  the start leaves behind (`Starting`), and that once a handle is forgotten the
  next message is no arrival onto a handle that is set (`Forgets`).
  `DeviceFollows` is the step simulation of `DelayedView` by Device's view of the
  bus. What is pending is a pipe of three parts, the queue's announcements, the
  one the callback is about to make and the ones libusb still holds; an
  announcement moves through it without overtaking (`PipeMoves`, `PipeServed`).
  It needs `LeakInv` and `BeforeThread`: until the usb thread runs nothing was
  announced, and the handle agrees with the bus unless libusb has a message about
  it. It assumes one port, hotplug support and opens that succeed, and these are
  needed: of two boards one may leave while the other stays, a poll notices
  arrivals only, and a board that could not be opened is not announced.
  `DeviceKnowsBus` instantiates `DelayedView_proofs` with that view and takes
  from `FaithfulView` what the user cares about: once libusb, the callbacks and
  the queue hold no plug or unplug, Device says "connected" exactly if a board
  is there.
  `PolledHandleStays`, under the assumption that there is no hotplug support:
  a handle that is set stays, since no message calls a callback (`PolledInv`).
* `DelayedView_proofs`: `FaithfulView`, what the refinements are worth: a listener
  that was told what it missed comes to the source's value.
* `Device_proofs`: `LoopsTyping`, `LoopsSafe` and `LoopsDeliverInOrder` for the
  composition that the run checks, from the theorems of its parts. `ScriptTiled`
  and `ScriptStartsOnce`, with `Ordered` (the name comes last, nothing was sent
  while `start` is 0). `LoopsDeliverInOrder` is the step simulation of
  `LossyChannel`: what arrived, what is in the transfers and what waits in the
  queue is one increasing sequence (`InLine`). For `HolesHaveReasons`, what is
  missing between two packets of that line was refused or lost (`NoneMissing`).
  `StaysInside` and `StringsStay`: while the offset is inside the packet nothing
  wraps, so a variable that passes `TooLarge` ends inside the packet and leaves
  the next one inside too; the same holds for the limit of `strnlen` when the
  variable declares at least its header. Of one that declares less the theorems
  say no more than that: the code does not refuse it.
* `GpioPanel_proofs`: `Typing`; `CommandsInformed` through `InformedInv`: every
  message that shows a state and every command is backed by a report or is what
  a cut packet shows, and of those, as of the initial blank of the panel, none is
  a plain GPIO that answers a key (`CutHonest`). `PanelDelayed`: `PanelFollows`, for the pins announced since
  `WindowGPIO` listens, is inductive together with the types;
  `ShowsPosted`, `ShowsServed` and `ShowsAnnounced` follow the last message about
  a pin through the queue, and `LastPosition` (a set of positions has a last one)
  gives the last entry of a packet. `KeysObeyedInOrder`: a key passes through four
  places (posted by the panel, posted by Device, in flight, obeyed) and `KeysInv`
  says that a key further along is an earlier one (`Line`, `Pressed`).
  `KeysAccounted` follows one key: what leaves a place enters the next or is
  recorded as refused or lost.
* `Tabs_proofs`: `FixedTabs`, `Aims`, `ClosesRight`. Inductive: `TabsInv`: a
  program tab's captured index is its place, or to the right of it if a tab to
  its left was removed, hence never below 2. `Numbered` adds that tabs stand in
  the order they were opened, so a tab that is gone is not mistaken for another.
  `SavesWhatWasSeen` through `DocsInv`: the base of a tab agrees with the disk
  unless its file was crossed (`KnownTexts`), a file that was not crossed is open
  once (`OpenOnce`), and a save under way belongs to a tab that is there
  (`SavesShown`: nothing closes a tab between the truncation and the write).
  `BrowserTyping` and `OnlyEmptyKills` through `BrowserInv`: the clamp of the
  list holds the index inside every directory that is not empty.
  `WheelReachesAll`, for texts of every length; `EditorTyping` for the
  composition.
* `Readout_proofs`: `Typing`; `TableFollows`, where the last message about a name
  since `Returns` listens is followed through the queue as in the panel. `OneCellForEach` through
  `CellsInv`: a name without a value has no cell, one with a value exactly one
  (`Placed`), and all rows but the last are full. `RemarksReachTheLog`: the
  remarks in the queue are numbered on from those in the log, without a gap
  (`RemarksBehind`), and none is there before `Gui` listens (`SaysQuiet`).
  `ReaderStays`, an action property: all of what `AddMessage` does to a reader,
  the log that is full included.
* `Console_proofs`: `Typing`; `NamesAreWhole` through `ConsoleInv`: no message on
  its way and no status on the screen carries a part of a script's name
  (`WholeMessage`, `Whole`), because `loaded` comes behind the name and reads as
  zero when anything of the name is missing.

**Model-checked only.** Liveness (`Converges`, `Refreshed`, `ScriptArrives`,
`StatusAnswered`, `ScreenSettles`, `ExitEnds`) and enabledness are out of the
prover's reach. `HandleSticks` speaks of the three machines that `MCUsbLink` puts
side by side; its content is `PolledHandleStays`, for the one that polls. What recursive data would need
(the walk of a tree, folds over a packet) is avoided: the modules with theorems
use positions and sets of positions instead.

## 6. Not modelled

* Layout, colours, focus and hovering, formatting of values and times.
* The power supply and settings panels beyond their buttons: nothing in the
  program calls `PSData::set` or `PSData::update`.
* The memory of transfers, ownership of agents and components, and what the
  destructors and the detached thread do behind main's end: these are undefined
  behaviour or leaks that TLA+ would only restate.
* That the text of a script is changed between Send and Device's reading of it:
  the worker may serve a keystroke in between, and the view then sees another
  text or a buffer that has moved.
* The walk of the tree as steps: it is over before the user sees the program,
  and the model starts from what it returned.
* Time: a timeout is a transfer that ends without success, a timer one that may
  expire at any tick.
* Files that no target builds (`gui/gui.cpp`, `usb/usb_init.cpp`,
  `device/program.cpp`, ...) and the loopback script, which runs with other
  firmware.

## 7. Plan

Modelled, in this order: the link with its abstract specification, `SendScript`,
`GpioPanel`, `ScriptTabs`; then the way of a script, the packets of variables
and texts, the log, the file browser, the documents, the wheel, the console, and
the link on two ports.

Proved: types and safety invariants of all of these, the action properties and
the three refinements (section 5).

Next are proofs that say more of the same behaviours, in this order:

1. The three machines of `MCUsbLink`: `HandleSticks` and the link's invariants as
   theorems of `MCSpec`, from instances of the two proof modules.
2. What the screen knows: with `ScreenFollows` and `DeviceKnowsBus`, that a
   screen which was told one change agrees with a bus that is quiet.
3. The state predicates behind liveness: that the action which is to make
   progress is possible in every state that has not arrived, as far as it can be
   said without ENABLED.
