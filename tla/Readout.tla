------------------------------- MODULE Readout -------------------------------
(***************************************************************************)
(* What the board says of its Lua program and how it comes to the screen:  *)
(* VARIABLES and TEXT_MESSAGE packets, Device::on_recieve                  *)
(* (device/device_control.hpp), the rows of gui::Returns (gui/returns.cpp) *)
(* and the messages Gui hands to the log (gui/guiv2.cpp, Logger).          *)
(*                                                                         *)
(* Packets are laid out as VarPacket shows them to be read; here the board *)
(* lays them out right.  A receive may be short: bulk-transfer.hpp does    *)
(* not look at actual_length, and to_recieve_t's bytes start out as zeros, *)
(* so what is missing reads as zeros.                                      *)
(*                                                                         *)
(* Returns listens from the moment main registers the cooperation of the   *)
(* GUI, which may be in the middle of a handler of Device's; Gui listens   *)
(* when its so_evt_start has been served, some time later.  What Device    *)
(* sends before reaches nobody.  (The lines that Gui logs of plugs and     *)
(* unplugs are left out: the log is that of what Device says.)             *)
(***************************************************************************)
EXTENDS Logger, FiniteSets

CONSTANTS
  Names,       \* names of variables the firmware uses
  Stub,        \* a name that is left of one that was cut
  NoName,      \* the empty name: what zeros say
  Values,      \* values of variables, as text
  Zero,        \* the text of a value that reads as zeros
  MaxRow,      \* Returns::m_max_rows: variables in a row
  MaxVars,     \* bound: variables in a packet
  MaxPackets   \* bound: packets of the board

Missing == [none |-> TRUE]

ASSUME ReadoutAssumption ==
  /\ Stub \notin Names /\ NoName \notin Names /\ Stub # NoName
  /\ Zero \in Values /\ Missing \notin Values /\ MaxRow \in Nat \ {0}
  /\ MaxVars \in Nat /\ MaxPackets \in Nat

VARIABLES
  in,      \* packets on their way to Device, oldest first
  queue,   \* messages from Device to the GUI, oldest first
  value,   \* m_map_name_to_value: what is shown for a name, or Missing
  rows,    \* m_rows: the names, row by row
  packets, \* packets of the board so far
  returnsUp, \* has Returns::so_define_agent subscribed to the device's mbox?
  guiUp,   \* has Gui::so_evt_start subscribed to it?
  read,    \* history: for each name the last value Device sent while Returns listened, or Missing
  told     \* history: messages Device had for the log since Gui listens

readVars == <<in, queue, value, rows, packets, returnsUp, guiUp, read, told>>
vars == <<readVars, logVars>>

Shown == Names \union {Stub, NoName}

\* A variable the firmware sends; INT is a type Device has no case for, and a
\* name that fills its 16 bytes has no end.
Var == [name : Shown, type : {"known", "INT"}, ends : BOOLEAN, val : Values]
ZeroVar == [name |-> NoName, type |-> "known", ends |-> TRUE, val |-> Zero]

\* A packet: variables, or a text that fits or does not (too long, or empty).
Packet == [type : {"VARIABLES"}, vars : Seq(Var)] \union [type : {"TEXT_MESSAGE"}, fits : BOOLEAN]

\* A message to the GUI: a variable, the told-th remark for the log, or a blank
\* for one that nobody listens to.
Nobody == [k |-> "nobody"]
Message ==
  [k : {"variable"}, name : Shown, val : Values] \union [k : {"message"}, line : Nat] \union {Nobody}

\* Every variable keeps its type, and no row is empty or overfull.
TypeOK ==
  /\ in \in Seq(Packet)
  /\ queue \in Seq(Message)
  /\ value \in [Shown -> Values \union {Missing}]
  /\ rows \in Seq(Seq(Shown)) /\ \A r \in DOMAIN rows : Len(rows[r]) \in 1 .. MaxRow
  /\ LoggerTypeOK /\ told \in Nat /\ packets \in Nat
  /\ returnsUp \in BOOLEAN /\ guiUp \in BOOLEAN
  /\ read \in [Shown -> Values \union {Missing}]

Init ==
  /\ in = <<>> /\ queue = <<>>
  /\ value = [n \in Shown |-> Missing]
  /\ rows = <<>>
  /\ LoggerInit
  /\ told = 0 /\ packets = 0
  /\ returnsUp = FALSE /\ guiUp = FALSE
  /\ read = [n \in Shown |-> Missing]

-----------------------------------------------------------------------------
\* What is left of a variable in the middle of which a packet ends: it is cut
\* in its header or name, or in its value.
Cut(v) == {ZeroVar, [v EXCEPT !.name = Stub, !.ends = TRUE, !.val = Zero], [v EXCEPT !.val = Zero]}

\* What a receive delivers of a packet: all of it, or the first n variables, a
\* part of the next and zeros.
Received(p) ==
  IF p.type # "VARIABLES" THEN {p}
  ELSE {p} \union
    UNION {{[p EXCEPT !.vars =
               [k \in DOMAIN p.vars |-> IF k <= n THEN p.vars[k] ELSE IF k = n + 1 THEN c ELSE ZeroVar]]
            : c \in Cut(p.vars[n + 1])} : n \in 0 .. Len(p.vars) - 1}

\* The firmware sends a packet.
BoardSends ==
  /\ packets < MaxPackets
  /\ packets' = packets + 1
  /\ \E p \in [type : {"VARIABLES"},
               vars : UNION {[1 .. m -> [name : Names, type : {"known", "INT"}, ends : BOOLEAN,
                                         val : Values \ {Zero}]] : m \in 1 .. MaxVars}]
               \union [type : {"TEXT_MESSAGE"}, fits : BOOLEAN] :
       \E q \in Received(p) :
         in' = Append(in, q)
  /\ UNCHANGED <<queue, value, rows, returnsUp, guiUp, read, told, logVars>>

-----------------------------------------------------------------------------
\* main registers the GUI's cooperation, between two handlers of the worker.
Register ==
  /\ ~returnsUp
  /\ returnsUp' = TRUE
  /\ UNCHANGED <<in, queue, value, rows, packets, guiUp, read, told, logVars>>

\* Gui::so_evt_start, which main queued when it had registered the cooperation.
GuiStart ==
  /\ returnsUp /\ ~guiUp
  /\ guiUp' = TRUE
  /\ UNCHANGED <<in, queue, value, rows, packets, returnsUp, read, told, logVars>>

-----------------------------------------------------------------------------
\* The variables parse_variables deals with: up to the first name without end.
Parsed(vs) ==
  LET bad == {k \in DOMAIN vs : ~vs[k].ends}
  IN  IF bad = {} THEN vs ELSE SubSeq(vs, 1, CHOOSE k \in bad : \A j \in bad : k <= j)

Passed(v) == v.ends /\ v.type = "known"

\* A remark reaches Gui only if it has subscribed, a variable Returns only if it
\* has.
Remark(line) == IF guiUp THEN [k |-> "message", line |-> line] ELSE Nobody
Variable(v, heard) == IF heard THEN [k |-> "variable", name |-> v.name, val |-> v.val] ELSE Nobody

\* How many of the variables vs are remarked upon.
Remarks(vs) == Cardinality({k \in DOMAIN vs : ~Passed(vs[k])})

\* Mutant of Says: variables of unknown type are passed over.
SaysKnown(p, deaf) ==
  IF p.type = "TEXT_MESSAGE" THEN <<Remark(told + 1)>>
  ELSE LET vs == SelectSeq(Parsed(p.vars), Passed) IN [k \in DOMAIN vs |-> Variable(vs[k], k > deaf)]

\* What Device sends about a packet, `deaf` messages of it before Returns listens.
Says(p, deaf) ==
  IF p.type = "TEXT_MESSAGE" THEN <<Remark(told + 1)>>
  ELSE LET vs == Parsed(p.vars)
       IN  [k \in DOMAIN vs |->
              IF Passed(vs[k]) THEN Variable(vs[k], k > deaf)
              ELSE Remark(told + Remarks(SubSeq(vs, 1, k)))]

\* How many messages of a handler that sends n are sent before Returns listens.
Deaf(n) == IF returnsUp THEN {0} ELSE 0 .. n

\* What is left to say of a packet, one message each.
Said(p) == IF p.type = "TEXT_MESSAGE" THEN 1 ELSE Len(Parsed(p.vars))

\* The last value for a name among the messages ms, or what was known before.
LastValue(ms, n, now) ==
  LET K == {k \in DOMAIN ms : ms[k].k = "variable" /\ ms[k].name = n}
  IN  IF K = {} THEN now ELSE ms[CHOOSE k \in K : \A j \in K : j <= k].val

\* Device::on_recieve, while main may register the GUI.
OnRecieve ==
  /\ in # <<>>
  /\ in' = Tail(in)
  /\ LET p == Head(in)
     IN  /\ \E deaf \in Deaf(Said(p)) :
              /\ queue' = queue \o Says(p, deaf)
              /\ read' = [n \in Shown |-> LastValue(Says(p, deaf), n, read[n])]
              /\ returnsUp' = (returnsUp \/ deaf < Said(p))
         /\ told' = told + (IF ~guiUp THEN 0
                            ELSE IF p.type = "TEXT_MESSAGE" THEN 1 ELSE Remarks(Parsed(p.vars)))
  /\ UNCHANGED <<value, rows, packets, guiUp, logVars>>

\* Mutant of AddTo: a row is started when the last one holds MaxRow + 1.
AddToLate(n) ==
  IF rows = <<>> \/ Len(rows[Len(rows)]) > MaxRow
  THEN Append(rows, <<n>>)
  ELSE [rows EXCEPT ![Len(rows)] = Append(@, n)]

\* add_new_variable: behind the last one, or in a new row.
AddTo(n) ==
  IF rows = <<>> \/ Len(rows[Len(rows)]) >= MaxRow
  THEN Append(rows, <<n>>)
  ELSE [rows EXCEPT ![Len(rows)] = Append(@, n)]

\* Mutant of OnVariable: the value of a name that is known is kept.
OnVariableOnce ==
  /\ queue # <<>> /\ Head(queue).k = "variable"
  /\ LET m == Head(queue)
     IN  /\ value' = IF value[m.name] = Missing THEN [value EXCEPT ![m.name] = m.val] ELSE value
         /\ rows' = IF value[m.name] = Missing THEN AddTo(m.name) ELSE rows
  /\ queue' = Tail(queue)
  /\ UNCHANGED <<in, packets, returnsUp, guiUp, read, told, logVars>>

\* Returns::on_variable.
OnVariable ==
  /\ queue # <<>> /\ Head(queue).k = "variable"
  /\ LET m == Head(queue)
     IN  /\ value' = [value EXCEPT ![m.name] = m.val]
         /\ rows' = IF value[m.name] = Missing THEN AddTo(m.name) ELSE rows
  /\ queue' = Tail(queue)
  /\ UNCHANGED <<in, packets, returnsUp, guiUp, read, told, logVars>>

\* Gui::on_message.
OnMessage ==
  /\ queue # <<>> /\ Head(queue).k = "message"
  /\ AddMessage(Head(queue).line)
  /\ queue' = Tail(queue)
  /\ UNCHANGED <<in, value, rows, packets, returnsUp, guiUp, read, told>>

\* A message that nobody listens to is gone.
OnNobody ==
  /\ queue # <<>> /\ Head(queue) = Nobody
  /\ queue' = Tail(queue)
  /\ UNCHANGED <<in, value, rows, packets, returnsUp, guiUp, read, told, logVars>>

\* The user reads the log, in Gui's loop.
Scroll == guiUp /\ (\E e \in 0 .. LogLimit : Select(e)) /\ UNCHANGED readVars

Next ==
  BoardSends \/ Register \/ GuiStart \/ OnRecieve \/ OnVariable \/ OnMessage \/ OnNobody \/ Scroll

Spec == Init /\ [][Next]_vars

-----------------------------------------------------------------------------
\* The table is a delayed copy of what Device sent since Returns listens: for
\* each name it shows, or will once the queue is served, the last value of that
\* name, whatever was wrong with other variables of the same packet.  (Variables
\* sent before it subscribed are lost: their names have no value until the board
\* sends them again.)
ValuesFollow == \A n \in Shown : LastValue(queue, n, value[n]) = read[n]

Cells == {x \in (1 .. Len(rows)) \X (1 .. MaxRow + 1) : x[2] <= Len(rows[x[1]])}

\* Every name that has a value has one cell, and no cell is lost or doubled;
\* rows are filled one after the other.
OneCellEach ==
  /\ \A n \in Shown : Cardinality({x \in Cells : rows[x[1]][x[2]] = n})
                        = (IF value[n] = Missing THEN 0 ELSE 1)
  /\ \A r \in 1 .. Len(rows) - 1 : Len(rows[r]) = MaxRow

\* The remarks that wait behind the i-th message of the queue.
Waiting(i) == {j \in i + 1 .. Len(queue) : queue[j].k = "message"}

\* Every remark that Device makes about a packet once Gui::so_evt_start has
\* subscribed (texts, types that are not known, names without end) reaches the
\* log once and in order: what is shown and what is on its way are the last ones
\* it made, and none is missing before the window is full.  (Remarks made before
\* are lost, and leave no gap.)
RemarksLogged ==
  /\ \A i \in 1 .. Len(queue) :
       queue[i].k = "message" => queue[i].line = told - Cardinality(Waiting(i))
  /\ \A k \in 1 .. Len(text) :
       text[k] = told - Cardinality(Waiting(0)) - (Len(text) - k)
  /\ Len(text) > LogLimit \/ text[1] = 0
=============================================================================
