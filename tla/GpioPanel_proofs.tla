-------------------------- MODULE GpioPanel_proofs --------------------------
(***************************************************************************)
(* Proofs about GpioPanel, for every set of pins, whatever the firmware    *)
(* does with them, and every number of plugs, keys and reports.            *)
(***************************************************************************)
EXTENDS GpioPanel, FiniteSetTheorems, WellFoundedInduction, TLAPS

\* What a message of each kind carries.
LEMMA Carries ==
  ASSUME NEW m \in Message
  PROVE  /\ m.k \in {"set", "transmit", "error"} => m.cmd \in Command
         /\ m.k = "packet" => m.p \in Packet
         /\ m.k = "shown" => m.e \in Entry
  BY DEF Message, Entry

\* The messages that are posted are messages.
LEMMA Posts ==
  /\ \A c \in Command, k \in {"set", "transmit", "error"} : [k |-> k, cmd |-> c] \in Message
  /\ \A p \in Packet : [k |-> "packet", p |-> p] \in Message
  /\ \A e \in Entry : e.n \in Pins => [k |-> "shown", e |-> e] \in Message
  /\ [k |-> "connected"] \in Message /\ [k |-> "text"] \in Message /\ [k |-> "nobody"] \in Message
  BY DEF Message, Entry

\* The queue when its head is served and ms is posted: the first message is
\* gone, the others moved up, and ms follows.
LEMMA Served ==
  ASSUME NEW S, NEW q \in Seq(S), q # <<>>, NEW ms \in Seq(S), NEW r, r = Tail(q) \o ms
  PROVE  /\ r \in Seq(S) /\ Len(q) \in Nat \ {0} /\ Len(ms) \in Nat
         /\ Head(q) = q[1] /\ Head(q) \in S
         /\ Len(r) = Len(q) - 1 + Len(ms)
         /\ \A i \in 1 .. Len(q) - 1 : r[i] = q[i + 1]
         /\ \A i \in 1 .. Len(ms) : r[Len(q) - 1 + i] = ms[i]
  OBVIOUS

\* The queue when m is posted.
LEMMA Appended ==
  ASSUME NEW S, NEW q \in Seq(S), NEW m \in S, NEW r, r = Append(q, m)
  PROVE  /\ r \in Seq(S) /\ Len(q) \in Nat /\ Len(r) = Len(q) + 1 /\ r[Len(q) + 1] = m
         /\ \A i \in 1 .. Len(q) : r[i] = q[i]
  OBVIOUS

\* A packet that fits announces one message for each entry.
LEMMA Announces ==
  ASSUME NEW body \in Seq(Entry), NEW deaf \in Nat
  PROVE  /\ Announce(body, deaf) \in Seq(Message)
         /\ Len(Announce(body, deaf)) = Len(body)
         /\ \A i \in 1 .. Len(body) :
              /\ body[i] \in Entry
              /\ body[i].n \in Pins /\ i > deaf => Announce(body, deaf)[i] = [k |-> "shown", e |-> body[i]]
              /\ body[i].n \in Pins /\ i <= deaf => Announce(body, deaf)[i] = [k |-> "nobody"]
              /\ body[i].n \notin Pins => Announce(body, deaf)[i] = [k |-> "text"]
<1>1. \A i \in 1 .. Len(body) : body[i] \in Entry
  OBVIOUS
<1>2. Len(body) \in Nat
  OBVIOUS
<1>3. \A i \in 1 .. Len(body) :
        (IF body[i].n \notin Pins THEN [k |-> "text"]
         ELSE IF i <= deaf THEN [k |-> "nobody"] ELSE [k |-> "shown", e |-> body[i]]) \in Message
  BY <1>1, Posts
<1> QED BY <1>1, <1>2, <1>3 DEF Announce

\* A set of positions that is not empty has a last one.
LEMMA LastPosition ==
  ASSUME NEW N \in Nat, NEW I \in SUBSET (1 .. N), I # {}
  PROVE  \E i \in I : \A j \in I : j <= i
<1> DEFINE D == {N - i : i \in I}
<1>0. \A i \in I : i \in 1 .. N /\ N - i \in Nat
  OBVIOUS
<1>1. D \subseteq Nat /\ D # {}
  BY <1>0
<1> DEFINE R == OpToRel(<, Nat)
<1>2. IsWellFoundedOn(R, Nat)
  BY NatLessThanWellFounded
<1> HIDE DEF R
<1>3. PICK x \in D : \A y \in D : ~ (<<y, x>> \in R)
  BY <1>1, <1>2, WFMin
<1>4. \A y \in D : ~ (y < x)
  BY <1>1, <1>3 DEF R, OpToRel
<1>5. PICK i \in I : x = N - i
  OBVIOUS
<1>6. \A j \in I : j <= i
  <2> TAKE j \in I
  <2>1. N - j \in D /\ N - j \in Nat /\ j \in 1 .. N /\ i \in 1 .. N
    BY <1>0
  <2>2. ~ (N - j < N - i)
    BY <1>4, <1>5, <2>1
  <2> QED BY <2>1, <2>2
<1> QED BY <1>6

\* What Device keeps of a pin: the last entry for it, or what it had.
LEMMA LastEntry ==
  ASSUME NEW body \in Seq(Entry), NEW n, NEW now
  PROVE  \/ /\ LastOf(body, n, now) = now
            /\ \A i \in 1 .. Len(body) : body[i].n # n
         \/ \E i \in 1 .. Len(body) :
              /\ LastOf(body, n, now) = body[i].st /\ body[i].n = n
              /\ \A j \in i + 1 .. Len(body) : body[j].n # n
<1> DEFINE I == {i \in 1 .. Len(body) : body[i].n = n}
<1>1. CASE I = {}
  BY <1>1 DEF LastOf
<1>2. CASE I # {}
  <2>0. Len(body) \in Nat /\ I \in SUBSET (1 .. Len(body))
    OBVIOUS
  <2>1. \E i \in I : \A j \in I : j <= i
    BY <1>2, <2>0, LastPosition
  <2> DEFINE i == CHOOSE i \in I : \A j \in I : j <= i
  <2>2. i \in I /\ \A j \in I : j <= i
    BY <2>1
  <2>3. LastOf(body, n, now) = body[i].st
    BY <1>2 DEF LastOf
  <2> HIDE DEF i
  <2>4. \A j \in i + 1 .. Len(body) : body[j].n # n
    <3> TAKE j \in i + 1 .. Len(body)
    <3>1. i \in 1 .. Len(body)
      BY <2>2
    <3>2. j \in 1 .. Len(body) /\ ~ (j <= i)
      BY <2>0, <3>1
    <3> QED BY <2>2, <3>2
  <2> QED BY <2>2, <2>3, <2>4
<1> QED BY <1>1, <1>2

-----------------------------------------------------------------------------
\* The fields of a command and of an entry, and the entries a board makes.
LEMMA Fields ==
  /\ Blank \in GpioState
  /\ GetAll \in Command
  /\ Zeros \in Entry
  /\ \A c \in Command : c.key \in Nat /\ c.st \in GpioState
  /\ \A c \in Command : c # GetAll => c.n \in Pins /\ c.key \in Nat \ {0}
  /\ \A e \in Entry : e.n \in Pins \union {BadPin} /\ e.st \in GpioState /\ e.conn \in Nat
  /\ conn \in Nat =>
       \A n \in Pins \union {BadPin}, st \in GpioState : EntryOf(n, st) \in Entry
  BY PanelAssumption DEF Blank, Byte, GpioState, GetAll, Command, Zeros, Entry, EntryOf

\* What is left of an entry: its pin or the first one, with another function
\* than Gpio.
LEMMA CutEntries ==
  ASSUME NEW e \in Entry, NEW c \in CutEntry(e)
  PROVE  c \in Entry /\ c.st.function = 0
<1>1. CASE c = Zeros
  BY <1>1, Fields DEF Zeros, Blank
<1>2. CASE c # Zeros
  <2>1. PICK s \in {Blank, [Blank EXCEPT !.value = e.st.value], [e.st EXCEPT !.function = 0]} :
          c = [e EXCEPT !.st = s, !.conn = 0]
    BY <1>2 DEF CutEntry
  <2>2. e.st \in GpioState
    BY Fields
  <2>3. s \in GpioState /\ s.function = 0
    BY <2>1, <2>2 DEF Blank, GpioState, Byte
  <2> QED BY <2>1, <2>3 DEF Entry
<1> QED BY <1>1, <1>2

\* A packet and its fields.
LEMMA Packets ==
  ASSUME NEW f \in BOOLEAN, NEW b \in Seq(Entry), NEW q, q = [fits |-> f, body |-> b]
  PROVE  q \in Packet /\ q.body = b /\ (q.fits => f)
<1>1. q \in Packet
  BY DEF Packet
<1>2. q.body = b
  OBVIOUS
<1>3. q.fits => f
  BY Zenon
<1> QED BY <1>1, <1>2, <1>3

\* What a short receive leaves of a packet is a packet; an entry of it that is
\* not whole has another function than Gpio.
LEMMA CutShorts ==
  ASSUME NEW p \in Packet, NEW q \in CutShort(p)
  PROVE  /\ q \in Packet
         /\ \A i \in 1 .. Len(q.body) :
              \/ q.body[i].st.function = 0
              \/ (q.fits => p.fits) /\ i \in 1 .. Len(p.body) /\ q.body[i] = p.body[i]
<1>0. p.fits \in BOOLEAN /\ p.body \in Seq(Entry) /\ p = [fits |-> p.fits, body |-> p.body]
  BY DEF Packet
<1>1. Len(p.body) \in Nat /\ DOMAIN p.body = 1 .. Len(p.body) /\ \A i \in 1 .. Len(p.body) : p.body[i] \in Entry
  BY <1>0
<1>2. CASE q = [fits |-> TRUE, body |-> <<>>]
  BY <1>2 DEF Packet
<1>3. CASE q = [fits |-> TRUE, body |-> [i \in DOMAIN p.body |-> Zeros]]
  <2> DEFINE z == [i \in 1 .. Len(p.body) |-> Zeros]
  <2>1. z \in Seq(Entry) /\ Len(z) = Len(p.body) /\ \A i \in 1 .. Len(z) : z[i] = Zeros
    BY <1>1, Fields
  <2>2. q = [fits |-> TRUE, body |-> z]
    BY <1>1, <1>3
  <2> HIDE DEF z
  <2>3. q \in Packet /\ q.body = z
    BY <2>1, <2>2, Packets
  <2>4. Zeros.st.function = 0
    BY DEF Zeros, Blank
  <2> QED BY <2>1, <2>3, <2>4
<1>4. ASSUME NEW m \in DOMAIN p.body, NEW c \in CutEntry(p.body[m]),
             q = [p EXCEPT !.body =
                    [i \in DOMAIN p.body |-> IF i < m THEN p.body[i] ELSE IF i = m THEN c ELSE Zeros]]
      PROVE  /\ q \in Packet
             /\ \A i \in 1 .. Len(q.body) :
                  \/ q.body[i].st.function = 0
                  \/ (q.fits => p.fits) /\ i \in 1 .. Len(p.body) /\ q.body[i] = p.body[i]
  <2> DEFINE z == [i \in 1 .. Len(p.body) |-> IF i < m THEN p.body[i] ELSE IF i = m THEN c ELSE Zeros]
  <2>1. c \in Entry /\ c.st.function = 0 /\ Zeros \in Entry /\ Zeros.st.function = 0
    BY <1>1, <1>4, CutEntries, Fields DEF Zeros, Blank
  <2>2. q = [fits |-> p.fits, body |-> z]
    BY <1>0, <1>1, <1>4
  <2>3. \A i \in 1 .. Len(p.body) : z[i] \in Entry /\ (z[i].st.function = 0 \/ z[i] = p.body[i])
    BY <1>1, <2>1
  <2>4. z \in Seq(Entry) /\ Len(z) = Len(p.body)
    <3>1. \A i \in 1 .. Len(p.body) :
            (IF i < m THEN p.body[i] ELSE IF i = m THEN c ELSE Zeros) \in Entry
      BY <1>1, <2>1
    <3> QED BY <1>1, <3>1
  <2> HIDE DEF z
  <2>5. q \in Packet /\ q.body = z
    BY <1>0, <2>2, <2>4, Packets
  <2>6. q.fits => p.fits
    BY <2>2, Zenon
  <2> QED BY <1>1, <2>3, <2>4, <2>5, <2>6
<1> QED BY <1>2, <1>3, <1>4 DEF CutShort

\* What is received of the oldest packet: it, or what a short receive leaves.
LEMMA Receives ==
  ASSUME TypeOK, RecieveEnds
  PROVE  /\ in # <<>> /\ in' = Tail(in) /\ Head(in) \in Packet
         /\ \/ queue' = queue
            \/ \E p \in {Head(in)} \union CutShort(Head(in)) :
                 p \in Packet /\ queue' = Append(queue, [k |-> "packet", p |-> p])
<1>1. in # <<>> /\ in' = Tail(in) /\ Head(in) \in Packet
  BY DEF RecieveEnds, TypeOK
<1>2. \/ queue' = Append(queue, [k |-> "packet", p |-> Head(in)])
      \/ \E p \in CutShort(Head(in)) : queue' = Append(queue, [k |-> "packet", p |-> p])
      \/ queue' = queue
  BY DEF RecieveEnds
<1> QED BY <1>1, <1>2, CutShorts

\* A key makes a state of a state, and changes one field of it at most.
LEMMA ChangedOne ==
  ASSUME NEW s \in GpioState, NEW t \in Changed(s)
  PROVE  /\ t \in GpioState /\ t.function = s.function
         /\ t.io = s.io \/ t.value = s.value
  BY DEF Changed, Byte, GpioState

\* How many entries are announced to nobody: a number, and none once WindowGPIO
\* listens.
LEMMA Deafs ==
  ASSUME NEW body \in Seq(Entry), NEW deaf \in Deaf(body)
  PROVE  deaf \in 0 .. Len(body) /\ (listens => deaf = 0)
BY DEF Deaf

\* Serving a message of kind k: what was at the head.
LEMMA Serving1 ==
  ASSUME queue \in Seq(Message), NEW k, NEW ms \in Seq(Message), Serve(k, ms)
  PROVE  /\ queue # <<>> /\ queue' = Tail(queue) \o ms /\ queue' \in Seq(Message)
         /\ Head(queue) \in Message /\ Head(queue).k = k /\ Head(queue) = queue[1]
<1>1. queue # <<>> /\ queue' = Tail(queue) \o ms /\ Head(queue).k = k
  BY DEF Serve, Serving
<1> QED BY <1>1, Served

\* Each action keeps the type of the queue.
LEMMA QueueTyping == TypeOK /\ Next => queue' \in Seq(Message)
<1> SUFFICES ASSUME TypeOK, Next PROVE queue' \in Seq(Message)
  OBVIOUS
<1>0. queue \in Seq(Message) /\ <<>> \in Seq(Message) /\ in \in Seq(Packet)
  BY DEF TypeOK
<1>00. \A m \in Message : <<m>> \in Seq(Message) /\ Append(queue, m) \in Seq(Message)
  BY <1>0
<1>h. ASSUME NEW k, Serving(k) PROVE Head(queue) \in Message /\ Head(queue).k = k
  BY <1>0, <1>h DEF Serving
<1>1. CASE OnGpioSet
  <2>1. Head(queue).cmd \in Command
    BY <1>1, <1>h, Carries DEF OnGpioSet, Serve
  <2>2. <<[k |-> "transmit", cmd |-> Head(queue).cmd]>> \in Seq(Message)
    BY <1>00, <2>1, Posts
  <2> QED BY <1>0, <1>1, <2>2, Serving1 DEF OnGpioSet
<1>2. CASE OnConnected
  <2>1. <<[k |-> "transmit", cmd |-> GetAll]>> \in Seq(Message)
    BY <1>00, Posts, Fields
  <2> QED BY <1>0, <1>2, <2>1, Serving1 DEF OnConnected
<1>3. CASE OnTransmit
  <2>1. Head(queue).cmd \in Command
    BY <1>3, <1>h, Carries DEF OnTransmit, Serve
  <2>2. Refusal(Head(queue).cmd) \in Seq(Message)
    BY <1>00, <2>1, Posts DEF Refusal
  <2> QED BY <1>0, <1>3, <2>2, Serving1 DEF OnTransmit
<1>4. CASE OnMessage
  BY <1>0, <1>4, Serving1 DEF OnMessage
<1>5. CASE OnRecieve
  <2>1. Head(queue).p.body \in Seq(Entry)
    <3>1. Head(queue).p \in Packet
      BY <1>5, <1>h, Carries DEF OnRecieve
    <3> QED BY <3>1 DEF Packet
  <2>2. <<[k |-> "text"]>> \in Seq(Message)
        /\ \A deaf \in Deaf(Head(queue).p.body) : Announce(Head(queue).p.body, deaf) \in Seq(Message)
    BY <1>00, <2>1, Announces, Posts, Deafs
  <2>3. \E ms \in Seq(Message) : Serve("packet", ms)
    BY <1>5, <2>2 DEF OnRecieve
  <2> QED BY <1>0, <2>3, Serving1
<1>6. CASE OnGpioRecieve
  BY <1>0, <1>6, Serving1 DEF OnGpioRecieve
<1>7. ASSUME NEW n \in Pins, Press(n) PROVE queue' \in Seq(Message)
  <2>1. PICK s \in Changed(panel[n]) :
          queue' = Append(queue, [k |-> "set", cmd |-> [n |-> n, st |-> s, key |-> presses + 1]])
    BY <1>7 DEF Press
  <2>2. s \in GpioState /\ presses + 1 \in Nat \ {0}
    BY ChangedOne DEF TypeOK
  <2>3. [n |-> n, st |-> s, key |-> presses + 1] \in Command
    BY <2>2 DEF Command
  <2> QED BY <1>00, <2>1, <2>3, Posts
<1>8. CASE Plug
  BY <1>00, <1>8, Posts DEF Plug
<1>9. CASE RecieveEnds
  BY <1>0, <1>00, <1>9, Receives, Posts
<1>10. CASE Register \/ Unplug \/ TransmitEnds \/ Board
  BY <1>0, <1>10 DEF Register, Unplug, TransmitEnds, Board, BoardAnswers, BoardReports, procVars
<1> QED BY <1>1, <1>2, <1>3, <1>4, <1>5, <1>6, <1>7, <1>8, <1>9, <1>10 DEF Next, Worker, Usb

\* The types of everything but the queue.
RestTypeOK ==
  /\ states \in [Pins -> GpioState \union {Unset}]
  /\ panel \in [Pins -> GpioState]
  /\ conn \in Nat /\ plugs \in Nat
  /\ out \in Seq(Command) /\ in \in Seq(Packet)
  /\ board \in [Pins -> GpioState]
  /\ asked \in BOOLEAN
  /\ reports \in Nat /\ presses \in Nat
  /\ applied \in Seq(Nat) /\ lost \subseteq Nat /\ logged \subseteq Nat
  /\ seen \in [Pins -> SUBSET GpioState]
  /\ shownOf \in [Pins -> Nat]
  /\ listens \in BOOLEAN /\ announced \subseteq Pins
  /\ mishap \in BOOLEAN

\* The keys of commands are numbers.
LEMMA KeysNat == ASSUME NEW cmds \in Seq(Command) PROVE Keys(cmds) \subseteq Nat
<1>1. \A i \in 1 .. Len(cmds) : cmds[i] \in Command
  OBVIOUS
<1> QED BY <1>1, Fields DEF Keys

\* What Device notes when it reads a packet.
LEMMA ReadTypes ==
  ASSUME RestTypeOK, OnRecieve
  PROVE  listens' \in BOOLEAN /\ mishap' \in BOOLEAN
<1>1. listens \in BOOLEAN /\ mishap \in BOOLEAN
  BY DEF RestTypeOK
<1>2. CASE UNCHANGED <<listens, mishap>>
  BY <1>1, <1>2, Zenon
<1>3. CASE \E deaf \in Deaf(Head(queue).p.body) :
             /\ listens' = (listens \/ deaf < Len(Head(queue).p.body))
             /\ mishap' = (mishap \/ \E i \in 1 .. deaf : /\ Head(queue).p.body[i].n \in Pins
                                                         /\ Head(queue).p.body[i].conn = conn)
  BY <1>3, Zenon
<1> QED BY <1>2, <1>3, Zenon DEF OnRecieve

\* The handlers of the worker keep the types of everything else.
LEMMA WorkerTyping == TypeOK /\ Worker => RestTypeOK'
<1> SUFFICES ASSUME TypeOK, Worker PROVE RestTypeOK'
  OBVIOUS
<1>0. RestTypeOK /\ queue \in Seq(Message)
  BY DEF TypeOK, RestTypeOK
<1>h. ASSUME NEW k, Serving(k) PROVE Head(queue) \in Message /\ Head(queue).k = k
  BY <1>0, <1>h DEF Serving
<1>1. CASE OnGpioSet \/ OnConnected
  BY <1>0, <1>1 DEF OnGpioSet, OnConnected, usbVars, historyVars, RestTypeOK
<1>2. CASE OnTransmit
  <2>1. Head(queue).cmd \in Command
    BY <1>2, <1>h, Carries DEF OnTransmit, Serve
  <2>2. out' = out \/ out' = Append(out, Head(queue).cmd)
    BY <1>2, Zenon DEF OnTransmit, Submit
  <2>3. out' \in Seq(Command)
    <3>1. out \in Seq(Command)
      BY <1>0 DEF RestTypeOK
    <3>2. Append(out, Head(queue).cmd) \in Seq(Command)
      BY <2>1, <3>1
    <3> QED BY <2>2, <3>1, <3>2
  <2>4. mishap' \in BOOLEAN
    BY <1>0, <1>2, ZenonT(30) DEF OnTransmit, RestTypeOK
  <2> QED BY <1>0, <1>2, <2>3, <2>4 DEF OnTransmit, RestTypeOK
<1>3. CASE OnMessage
  <2>1. logged' \subseteq Nat
    <3>1. CASE Serve("error", <<>>)
      <4>1. <<Head(queue).cmd>> \in Seq(Command)
        BY <1>h, <3>1, Carries DEF Serve
      <4>2. logged' = logged \union Keys(<<Head(queue).cmd>>) \/ UNCHANGED logged
        BY <1>3 DEF OnMessage
      <4> QED BY <1>0, <4>1, <4>2, KeysNat DEF RestTypeOK
    <3>2. CASE UNCHANGED logged
      BY <1>0, <3>2 DEF RestTypeOK
    <3> QED BY <1>3, <3>1, <3>2 DEF OnMessage
  <2> QED BY <1>0, <1>3, <2>1 DEF OnMessage, usbVars, RestTypeOK
<1>4. CASE OnRecieve
  <2> DEFINE body == Head(queue).p.body
  <2>1. body \in Seq(Entry)
    <3>1. Head(queue).p \in Packet
      BY <1>4, <1>h, Carries DEF OnRecieve
    <3> QED BY <3>1 DEF Packet
  <2>2. \A i \in 1 .. Len(body) : body[i].st \in GpioState
    <3>1. \A i \in 1 .. Len(body) : body[i] \in Entry
      BY <2>1
    <3> QED BY <3>1, Fields
  <2> HIDE DEF body
  <2>3. \A n \in Pins : LastOf(body, n, states[n]) \in GpioState \union {Unset}
    <3> TAKE n \in Pins
    <3>1. states[n] \in GpioState \union {Unset}
      BY <1>0 DEF RestTypeOK
    <3> QED BY <2>1, <2>2, <3>1, LastEntry
  <2>4. states' \in [Pins -> GpioState \union {Unset}]
    <3>1. states' = [n \in Pins |-> LastOf(body, n, states[n])] \/ states' = states
      BY <1>4 DEF OnRecieve, body
    <3> QED BY <1>0, <2>3, <3>1 DEF RestTypeOK
  <2>5. announced' \subseteq Pins
    <3>1. \/ announced' = announced
          \/ \E deaf : announced' = announced \union (Pins \cap {body[i].n : i \in deaf + 1 .. Len(body)})
      BY <1>4 DEF OnRecieve, body
    <3> QED BY <1>0, <3>1 DEF RestTypeOK
  <2>6. listens' \in BOOLEAN
    BY <1>0, <1>4, ReadTypes
  <2>7. mishap' \in BOOLEAN
    BY <1>0, <1>4, ReadTypes
  <2> QED BY <1>0, <1>4, <2>4, <2>5, <2>6, <2>7 DEF OnRecieve, usbVars, RestTypeOK
<1>5. CASE OnGpioRecieve
  <2>1. Head(queue).e \in Entry
    BY <1>5, <1>h, Carries DEF OnGpioRecieve, Serve
  <2>2. Head(queue).e.st \in GpioState /\ Head(queue).e.conn \in Nat
    BY <2>1, Fields
  <2>3. panel' \in [Pins -> GpioState] /\ shownOf' \in [Pins -> Nat]
    BY <1>0, <1>5, <2>2 DEF OnGpioRecieve, RestTypeOK
  <2> QED BY <1>0, <1>5, <2>3 DEF OnGpioRecieve, usbVars, RestTypeOK
<1> QED BY <1>1, <1>2, <1>3, <1>4, <1>5 DEF Worker

\* The answer to GET_ALL_GPIO is a packet.
LEMMA Answers ==
  ASSUME RestTypeOK, BoardAnswers
  PROVE  \E p \in Packet : BoardSends(p)
<1> DEFINE body == [i \in 1 .. Cardinality(Pins) |-> EntryOf(PinOrder[i], board[PinOrder[i]])]
<1>1. Cardinality(Pins) \in Nat /\ PinOrder \in [1 .. Cardinality(Pins) -> Pins]
  BY FS_CardinalityType, PanelAssumption
<1>2. \A i \in 1 .. Cardinality(Pins) : EntryOf(PinOrder[i], board[PinOrder[i]]) \in Entry
  <2> TAKE i \in 1 .. Cardinality(Pins)
  <2>1. PinOrder[i] \in Pins /\ board[PinOrder[i]] \in GpioState
    BY <1>1 DEF RestTypeOK
  <2> QED BY <2>1, Fields DEF RestTypeOK
<1>3. body \in Seq(Entry)
  BY <1>1, <1>2
<1>4. DOMAIN PinOrder = 1 .. Cardinality(Pins)
  BY <1>1
<1>5. BoardSends([fits |-> TRUE, body |-> body])
  BY <1>4 DEF BoardAnswers
<1> HIDE DEF body
<1>6. [fits |-> TRUE, body |-> body] \in Packet
  BY <1>3, Packets
<1> QED BY <1>5, <1>6

\* So is a report.
LEMMA ReportsPacket ==
  ASSUME RestTypeOK, NEW n \in Pins, NEW st \in BoardStates, BoardReports(n, st)
  PROVE  \E p \in Packet : BoardSends(p)
<1>0. st \in GpioState /\ board[n] \in GpioState /\ n \in Pins \union {BadPin} /\ BadPin \in Pins \union {BadPin}
  BY PanelAssumption DEF RestTypeOK
<1>1. EntryOf(n, st) \in Entry /\ EntryOf(n, board[n]) \in Entry /\ EntryOf(BadPin, Blank) \in Entry
  BY <1>0, Fields DEF RestTypeOK
<1>2. \A e, f \in Entry : <<e>> \in Seq(Entry) /\ <<e, f>> \in Seq(Entry)
  OBVIOUS
<1>3. CASE BoardSends([fits |-> FALSE, body |-> <<EntryOf(n, st)>>])
  <2>1. [fits |-> FALSE, body |-> <<EntryOf(n, st)>>] \in Packet
    BY <1>1, <1>2, Packets
  <2> QED BY <1>3, <2>1
<1>4. ASSUME NEW body \in {<<EntryOf(n, st)>>, <<EntryOf(n, board[n]), EntryOf(n, st)>>,
                           <<EntryOf(BadPin, Blank), EntryOf(n, st)>>},
             BoardSends([fits |-> TRUE, body |-> body])
      PROVE  \E p \in Packet : BoardSends(p)
  <2>1. body \in Seq(Entry)
    <3>1. \/ body = <<EntryOf(n, st)>> \/ body = <<EntryOf(n, board[n]), EntryOf(n, st)>>
          \/ body = <<EntryOf(BadPin, Blank), EntryOf(n, st)>>
      BY <1>4, Zenon
    <3> QED BY <1>1, <1>2, <3>1, Zenon
  <2>2. [fits |-> TRUE, body |-> body] \in Packet
    BY <2>1, Packets
  <2> QED BY <1>4, <2>2
<1> QED BY <1>3, <1>4 DEF BoardReports

\* A packet that sets out keeps the types of `in` and `seen`.
LEMMA SendsPacket ==
  ASSUME RestTypeOK, NEW p \in Packet, BoardSends(p)
  PROVE  in' \in Seq(Packet) /\ seen' \in [Pins -> SUBSET GpioState]
<1>1. in' = Append(in, p) /\ seen' = [n \in Pins |-> seen[n] \union StatesIn(p, n)]
  BY DEF BoardSends
<1>2. in' \in Seq(Packet)
  BY <1>1 DEF RestTypeOK
<1>3. \A n \in Pins : seen[n] \subseteq GpioState
  BY DEF RestTypeOK
<1>4. \A n \in Pins : StatesIn(p, n) \subseteq GpioState
  <2>1. p.body \in Seq(Entry)
    BY DEF Packet
  <2>2. \A i \in 1 .. Len(p.body) : p.body[i] \in Entry
    BY <2>1
  <2>3. \A i \in 1 .. Len(p.body) : p.body[i].st \in GpioState
    BY <2>2, Fields
  <2> QED BY <2>3 DEF StatesIn
<1>5. seen' \in [Pins -> SUBSET GpioState]
  BY <1>1, <1>3, <1>4
<1> QED BY <1>2, <1>5

\* So do the user, the bus, the transfers and the board.
LEMMA OutsideTyping == TypeOK /\ Next /\ ~Worker => RestTypeOK'
<1> SUFFICES ASSUME TypeOK, Next, ~Worker PROVE RestTypeOK'
  OBVIOUS
<1>0. RestTypeOK
  BY DEF TypeOK, RestTypeOK
<1>1. ASSUME NEW n \in Pins, Press(n) PROVE RestTypeOK'
  BY <1>0, <1>1 DEF Press, usbVars, historyVars, RestTypeOK
<1>2. CASE Plug
  <2>1. board' \in [Pins -> GpioState]
    BY <1>2, PanelAssumption DEF Plug
  <2>2. plugs' \in Nat /\ conn' \in Nat
    BY <1>0, <1>2 DEF Plug, RestTypeOK
  <2> QED BY <1>0, <1>2, <2>1, <2>2 DEF Plug, RestTypeOK
<1>r. CASE Register
  <2>1. listens' \in BOOLEAN
    BY <1>r, Zenon DEF Register
  <2> QED BY <1>0, <1>r, <2>1 DEF Register, usbVars, historyVars, RestTypeOK
<1>3. CASE Unplug
  <2>1. lost' \subseteq Nat
    BY <1>0, <1>3, KeysNat DEF Unplug, RestTypeOK
  <2>2. out' \in Seq(Command) /\ in' \in Seq(Packet) /\ conn' \in Nat
    BY <1>3 DEF Unplug
  <2>3. asked' \in BOOLEAN
    BY <1>3, Zenon DEF Unplug
  <2> QED BY <1>0, <1>3, <2>1, <2>2, <2>3 DEF Unplug, procVars, RestTypeOK
<1>4. CASE TransmitEnds
  <2> DEFINE c == Head(out)
  <2>1. c \in Command /\ out' \in Seq(Command) /\ <<c>> \in Seq(Command)
    BY <1>0, <1>4 DEF TransmitEnds, RestTypeOK
  <2>2. c.key \in Nat /\ c.st \in GpioState
    BY <2>1, Fields
  <2>3. asked' \in BOOLEAN /\ mishap' \in BOOLEAN
    BY <1>0, <1>4 DEF TransmitEnds, RestTypeOK
  <2>4. board' \in [Pins -> GpioState]
    BY <1>0, <1>4, <2>2 DEF TransmitEnds, RestTypeOK
  <2>5. applied' \in Seq(Nat)
    <3>1. applied' = applied \/ applied' = Append(applied, c.key)
      BY <1>4, Zenon DEF TransmitEnds
    <3>2. applied \in Seq(Nat)
      BY <1>0 DEF RestTypeOK
    <3>3. Append(applied, c.key) \in Seq(Nat)
      BY <2>2, <3>2
    <3> QED BY <3>1, <3>2, <3>3
  <2>6. lost' \subseteq Nat
    <3>1. Keys(<<c>>) \subseteq Nat
      BY <2>1, KeysNat
    <3>2. lost' = lost \/ lost' = lost \union Keys(<<c>>)
      BY <1>4 DEF TransmitEnds
    <3> QED BY <1>0, <3>1, <3>2 DEF RestTypeOK
  <2> QED BY <1>0, <1>4, <2>1, <2>3, <2>4, <2>5, <2>6 DEF TransmitEnds, procVars, RestTypeOK
<1>5. CASE RecieveEnds
  <2>1. in # <<>> /\ in' = Tail(in)
    BY <1>5, Receives
  <2>2. in' \in Seq(Packet)
    BY <1>0, <2>1 DEF RestTypeOK
  <2>3. mishap' \in BOOLEAN
    BY <1>0, <1>5, ZenonT(30) DEF RecieveEnds, RestTypeOK
  <2> QED BY <1>0, <1>5, <2>2, <2>3 DEF RecieveEnds, RestTypeOK
<1>6. CASE BoardAnswers
  <2>1. PICK p \in Packet : BoardSends(p)
    BY <1>0, <1>6, Answers
  <2>2. in' \in Seq(Packet) /\ seen' \in [Pins -> SUBSET GpioState]
    BY <1>0, <2>1, SendsPacket
  <2>3. asked' \in BOOLEAN
    BY <1>6, Zenon DEF BoardAnswers
  <2> QED BY <1>0, <1>6, <2>2, <2>3 DEF BoardAnswers, procVars, RestTypeOK
<1>7. ASSUME NEW n \in Pins, NEW st \in BoardStates, BoardReports(n, st) PROVE RestTypeOK'
  <2>1. PICK p \in Packet : BoardSends(p)
    BY <1>0, <1>7, ReportsPacket
  <2>2. in' \in Seq(Packet) /\ seen' \in [Pins -> SUBSET GpioState]
    BY <1>0, <2>1, SendsPacket
  <2>3. board' \in [Pins -> GpioState] /\ reports' \in Nat
    BY <1>0, <1>7, PanelAssumption DEF BoardReports, RestTypeOK
  <2> QED BY <1>0, <1>7, <2>2, <2>3 DEF BoardReports, procVars, RestTypeOK
<1> QED BY <1>1, <1>2, <1>r, <1>3, <1>4, <1>5, <1>6, <1>7 DEF Next, Usb, Board

\* Every variable of the panel's loop keeps its type.
THEOREM Typing == Spec => []TypeOK
<1>1. Init => TypeOK
  <2> SUFFICES ASSUME Init PROVE TypeOK
    OBVIOUS
  <2>1. seen \in [Pins -> SUBSET GpioState]
    BY DEF Init
  <2>2. states \in [Pins -> GpioState \union {Unset}] /\ panel \in [Pins -> GpioState]
        /\ board \in [Pins -> GpioState] /\ shownOf \in [Pins -> Nat]
    BY Fields DEF Init
  <2>3. queue \in Seq(Message) /\ out \in Seq(Command) /\ in \in Seq(Packet) /\ applied \in Seq(Nat)
    BY DEF Init
  <2>4. asked \in BOOLEAN /\ mishap \in BOOLEAN /\ listens \in BOOLEAN
    BY Zenon DEF Init
  <2>5. conn \in Nat /\ plugs \in Nat /\ reports \in Nat /\ presses \in Nat
        /\ lost \subseteq Nat /\ logged \subseteq Nat /\ announced \subseteq Pins
    BY DEF Init
  <2> QED BY <2>1, <2>2, <2>3, <2>4, <2>5, Zenon DEF TypeOK
<1>2. TypeOK /\ [Next]_vars => TypeOK'
  <2>1. TypeOK /\ UNCHANGED vars => TypeOK'
    BY DEF vars, procVars, usbVars, historyVars, TypeOK
  <2>2. TypeOK /\ Next => TypeOK'
    BY QueueTyping, WorkerTyping, OutsideTyping DEF TypeOK, RestTypeOK
  <2> QED BY <2>1, <2>2
<1> QED BY <1>1, <1>2, PTL DEF Spec

-----------------------------------------------------------------------------
\* A command that changes one field of a state in sn, the states reported.
Backed(c, sn) ==
  \E s \in sn[c.n] :
    /\ s.function = Gpio /\ c.st.function = Gpio
    /\ c.st.io = s.io \/ c.st.value = s.value

\* An entry that says nothing of a plain GPIO which sn, the states reported, does
\* not, and a packet of such entries.
EntryHonest(e, sn) == e.n \in Pins /\ e.st.function = Gpio => e.st \in sn[e.n]
PacketHonest(p, sn) == p.fits => \A i \in 1 .. Len(p.body) : EntryHonest(p.body[i], sn)

\* A message that says nothing which sn does not.
Honest(m, sn) ==
  /\ m.k = "shown" => m.e.n \in Pins /\ EntryHonest(m.e, sn)
  /\ m.k = "packet" => PacketHonest(m.p, sn)
  /\ m.k \in {"set", "transmit"} /\ m.cmd # GetAll => Backed(m.cmd, sn)

AllHonest(q, sn) == \A i \in 1 .. Len(q) : Honest(q[i], sn)
OutBacked(o, sn) == \A i \in 1 .. Len(o) : o[i] # GetAll => Backed(o[i], sn)
InHonest(ps, sn) == \A i \in 1 .. Len(ps) : PacketHonest(ps[i], sn)
PanelSeen(p, sn) == \A n \in Pins : p[n].function = Gpio => p[n] \in sn[n]

InformedInv ==
  /\ AllHonest(queue, seen) /\ InHonest(in, seen)
  /\ OutBacked(out, seen) /\ PanelSeen(panel, seen)

\* Reports are only added to those that were made.
Grows(sn, tn) == sn \in [Pins -> SUBSET GpioState] /\ tn \in [Pins -> SUBSET GpioState]
                   /\ \A n \in Pins : sn[n] \subseteq tn[n]

\* What was backed stays so when there are more reports.
LEMMA BackedGrows ==
  ASSUME NEW sn, NEW tn, Grows(sn, tn), NEW c \in Command, c # GetAll, Backed(c, sn)
  PROVE  Backed(c, tn)
  BY Fields DEF Backed, Grows

\* So does an honest packet.
LEMMA PacketGrows ==
  ASSUME NEW sn, NEW tn, Grows(sn, tn), NEW p \in Packet, PacketHonest(p, sn)
  PROVE  PacketHonest(p, tn)
BY DEF PacketHonest, EntryHonest, Grows

\* A message that was honest stays so when there are more reports.
LEMMA HonestGrows ==
  ASSUME NEW sn, NEW tn, Grows(sn, tn), NEW m \in Message, Honest(m, sn)
  PROVE  Honest(m, tn)
<1>1. m.k = "shown" => m.e.n \in Pins /\ EntryHonest(m.e, tn)
  BY DEF Honest, EntryHonest, Grows
<1>3. m.k = "packet" => PacketHonest(m.p, tn)
  BY PacketGrows, Carries DEF Honest
<1>2. m.k \in {"set", "transmit"} /\ m.cmd # GetAll => Backed(m.cmd, tn)
  <2> SUFFICES ASSUME m.k \in {"set", "transmit"}, m.cmd # GetAll PROVE Backed(m.cmd, tn)
    OBVIOUS
  <2>1. m.cmd \in Command
    BY Carries
  <2>2. Backed(m.cmd, sn)
    BY DEF Honest
  <2> QED BY <2>1, <2>2, BackedGrows
<1> QED BY <1>1, <1>2, <1>3 DEF Honest

\* The queue stays honest when its head is served and honest messages posted.
LEMMA HonestServed ==
  ASSUME NEW q \in Seq(Message), q # <<>>, NEW ms \in Seq(Message), NEW r, r = Tail(q) \o ms,
         NEW sn, NEW tn, Grows(sn, tn), AllHonest(q, sn), AllHonest(ms, tn)
  PROVE  AllHonest(r, tn)
<1>1. /\ Len(q) \in Nat \ {0} /\ Len(ms) \in Nat /\ Len(r) = Len(q) - 1 + Len(ms)
      /\ \A i \in 1 .. Len(q) - 1 : r[i] = q[i + 1]
      /\ \A i \in 1 .. Len(ms) : r[Len(q) - 1 + i] = ms[i]
  BY Served
<1>2. SUFFICES ASSUME NEW i \in 1 .. Len(r) PROVE Honest(r[i], tn)
  BY DEF AllHonest
<1>3. CASE i \in 1 .. Len(q) - 1
  <2>1. i + 1 \in 1 .. Len(q) /\ r[i] = q[i + 1]
    BY <1>1, <1>3
  <2>2. q[i + 1] \in Message /\ Honest(q[i + 1], sn)
    BY <2>1 DEF AllHonest
  <2> QED BY <2>1, <2>2, HonestGrows
<1>4. CASE i \notin 1 .. Len(q) - 1
  <2> DEFINE j == i - (Len(q) - 1)
  <2>1. j \in 1 .. Len(ms) /\ i = Len(q) - 1 + j
    BY <1>1, <1>2, <1>4
  <2>2. r[i] = ms[j]
    BY <1>1, <2>1
  <2> QED BY <2>1, <2>2 DEF AllHonest
<1> QED BY <1>3, <1>4

\* The queue stays honest when an honest message is posted.
LEMMA HonestPosted ==
  ASSUME NEW q \in Seq(Message), NEW m \in Message, NEW r, r = Append(q, m),
         NEW sn, AllHonest(q, sn), Honest(m, sn)
  PROVE  AllHonest(r, sn)
<1>1. /\ Len(q) \in Nat /\ Len(r) = Len(q) + 1 /\ r[Len(q) + 1] = m
      /\ \A i \in 1 .. Len(q) : r[i] = q[i]
  BY Appended
<1>2. SUFFICES ASSUME NEW i \in 1 .. Len(r) PROVE Honest(r[i], sn)
  BY DEF AllHonest
<1>3. CASE i = Len(q) + 1
  BY <1>1, <1>3
<1>4. CASE i # Len(q) + 1
  <2>1. i \in 1 .. Len(q)
    BY <1>1, <1>4
  <2> QED BY <1>1, <2>1 DEF AllHonest
<1> QED BY <1>3, <1>4

\* Messages of other kinds are honest whatever was reported.
LEMMA Neutral ==
  ASSUME NEW sn
  PROVE  /\ AllHonest(<<>>, sn)
         /\ AllHonest(<<[k |-> "text"]>>, sn)
         /\ AllHonest(<<[k |-> "transmit", cmd |-> GetAll]>>, sn)
         /\ \A c : AllHonest(<<[k |-> "error", cmd |-> c]>>, sn)
         /\ AllHonest(<<[k |-> "nobody"]>>, sn)
         /\ \A p : PacketHonest(p, sn) => Honest([k |-> "packet", p |-> p], sn)
         /\ Honest([k |-> "connected"], sn)
  BY DEF AllHonest, Honest

\* What Device announces of an honest packet is honest.
LEMMA AnnouncesHonest ==
  ASSUME NEW sn, NEW body \in Seq(Entry), NEW deaf \in Nat,
         \A i \in 1 .. Len(body) : EntryHonest(body[i], sn)
  PROVE  AllHonest(Announce(body, deaf), sn)
<1>1. Len(Announce(body, deaf)) = Len(body)
  BY Announces
<1>2. SUFFICES ASSUME NEW i \in 1 .. Len(body) PROVE Honest(Announce(body, deaf)[i], sn)
  BY <1>1 DEF AllHonest
<1>i. i \in Nat
  OBVIOUS
<1>3. CASE body[i].n \in Pins /\ i > deaf
  <2>1. Announce(body, deaf)[i] = [k |-> "shown", e |-> body[i]]
    BY <1>3, Announces
  <2> QED BY <1>3, <2>1 DEF Honest
<1>4. CASE body[i].n \in Pins /\ i <= deaf
  <2>1. Announce(body, deaf)[i] = [k |-> "nobody"]
    BY <1>4, Announces
  <2> QED BY <2>1 DEF Honest
<1>5. CASE body[i].n \notin Pins
  <2>1. Announce(body, deaf)[i] = [k |-> "text"]
    BY <1>5, Announces
  <2> QED BY <2>1 DEF Honest
<1> QED BY <1>i, <1>3, <1>4, <1>5

\* Device passes on what the packets say.
LEMMA ReadsReports ==
  ASSUME TypeOK, InformedInv, OnRecieve
  PROVE  \E ms \in Seq(Message) : Serve("packet", ms) /\ AllHonest(ms, seen)
<1> DEFINE body == Head(queue).p.body
<1>0. Head(queue) \in Message /\ Head(queue).k = "packet" /\ Honest(Head(queue), seen)
  <2>1. queue # <<>> /\ Head(queue).k = "packet" /\ queue \in Seq(Message)
    BY DEF OnRecieve, Serving, TypeOK
  <2>2. 1 \in 1 .. Len(queue) /\ Head(queue) = queue[1] /\ Head(queue) \in Message
    BY <2>1
  <2> QED BY <2>1, <2>2 DEF InformedInv, AllHonest
<1>1. body \in Seq(Entry)
  <2>1. Head(queue).p \in Packet
    BY <1>0, Carries
  <2> QED BY <2>1 DEF Packet
<1>3. CASE ~Head(queue).p.fits
  <2>1. <<[k |-> "text"]>> \in Seq(Message)
    BY Posts
  <2>2. Serve("packet", <<[k |-> "text"]>>)
    BY <1>3 DEF OnRecieve
  <2> QED BY <2>1, <2>2, Neutral
<1>4. CASE Head(queue).p.fits
  <2>0. \A i \in 1 .. Len(body) : EntryHonest(body[i], seen)
    BY <1>0, <1>4 DEF Honest, PacketHonest
  <2>1. PICK deaf \in Deaf(body) : Serve("packet", Announce(body, deaf))
    BY <1>4 DEF OnRecieve
  <2> HIDE DEF body
  <2>2. deaf \in Nat
    BY <1>1, Deafs
  <2> QED BY <1>1, <2>0, <2>1, <2>2, Announces, AnnouncesHonest
<1> QED BY <1>3, <1>4

\* Serving a message that neither reads a report nor changes the panel.
LEMMA ServesHonest ==
  ASSUME TypeOK, InformedInv, NEW k, NEW ms \in Seq(Message), Serve(k, ms), AllHonest(ms, seen)
  PROVE  AllHonest(queue', seen)
<1>1. queue \in Seq(Message) /\ Grows(seen, seen)
  BY DEF TypeOK, Grows
<1>2. queue # <<>> /\ queue' = Tail(queue) \o ms
  BY <1>1, Serving1
<1> QED BY <1>1, <1>2, HonestServed DEF InformedInv

\* The handlers of the worker keep the invariant.
LEMMA InformedWorker == TypeOK /\ InformedInv /\ Worker => InformedInv'
<1> SUFFICES ASSUME TypeOK, InformedInv, Worker PROVE InformedInv'
  OBVIOUS
<1>0. /\ queue \in Seq(Message) /\ out \in Seq(Command) /\ <<>> \in Seq(Message)
      /\ \A m \in Message : <<m>> \in Seq(Message)
  BY DEF TypeOK
<1>h. ASSUME NEW k, Serving(k) PROVE Head(queue) \in Message /\ Head(queue).k = k /\ Honest(Head(queue), seen)
  <2>1. queue # <<>> /\ Head(queue).k = k
    BY <1>h DEF Serving
  <2>2. 1 \in 1 .. Len(queue) /\ Head(queue) = queue[1] /\ Head(queue) \in Message
    BY <1>0, <2>1
  <2> QED BY <2>1, <2>2 DEF InformedInv, AllHonest
<1>1. CASE OnGpioSet
  <2> DEFINE c == Head(queue).cmd
  <2>0. Serving("set")
    BY <1>1 DEF OnGpioSet, Serve
  <2>1. c \in Command /\ (c # GetAll => Backed(c, seen))
    BY <1>h, <2>0, Carries DEF Honest
  <2>2. <<[k |-> "transmit", cmd |-> c]>> \in Seq(Message) /\ AllHonest(<<[k |-> "transmit", cmd |-> c]>>, seen)
    <3>1. [k |-> "transmit", cmd |-> c] \in Message
      BY <2>1, Posts
    <3>2. Honest([k |-> "transmit", cmd |-> c], seen)
      BY <2>1 DEF Honest
    <3>3. \A m \in Message : Len(<<m>>) = 1 /\ <<m>>[1] = m
      OBVIOUS
    <3> QED BY <1>0, <3>1, <3>2, <3>3 DEF AllHonest
  <2>3. AllHonest(queue', seen)
    BY <1>1, <2>2, ServesHonest DEF OnGpioSet
  <2> QED BY <1>1, <2>3 DEF OnGpioSet, usbVars, historyVars, InformedInv
<1>2. CASE OnConnected
  <2>1. <<[k |-> "transmit", cmd |-> GetAll]>> \in Seq(Message)
    BY <1>0, Posts, Fields
  <2>2. AllHonest(queue', seen)
    BY <1>2, <2>1, ServesHonest, Neutral DEF OnConnected
  <2> QED BY <1>2, <2>2 DEF OnConnected, usbVars, historyVars, InformedInv
<1>3. CASE OnTransmit
  <2> DEFINE c == Head(queue).cmd
  <2>0. Serving("transmit")
    BY <1>3 DEF OnTransmit, Serve
  <2>1. c \in Command /\ (c # GetAll => Backed(c, seen))
    BY <1>h, <2>0, Carries DEF Honest
  <2>2. Refusal(c) \in Seq(Message) /\ AllHonest(Refusal(c), seen)
    BY <1>0, <2>1, Posts, Neutral DEF Refusal
  <2>3. AllHonest(queue', seen)
    BY <1>0, <1>3, <2>2, ServesHonest, Neutral DEF OnTransmit
  <2>4. out' = out \/ out' = Append(out, c)
    BY <1>3, Zenon DEF OnTransmit, Submit
  <2>5. OutBacked(out', seen)
    <3>1. OutBacked(out, seen)
      BY DEF InformedInv
    <3>2. CASE out' = Append(out, c)
      <4>1. /\ Len(out) \in Nat /\ Len(out') = Len(out) + 1 /\ out'[Len(out) + 1] = c
            /\ \A i \in 1 .. Len(out) : out'[i] = out[i]
        BY <1>0, <2>1, <3>2, Appended
      <4>2. SUFFICES ASSUME NEW i \in 1 .. Len(out'), out'[i] # GetAll PROVE Backed(out'[i], seen)
        BY DEF OutBacked
      <4>3. i \in 1 .. Len(out) \/ i = Len(out) + 1
        BY <4>1
      <4> QED BY <2>1, <3>1, <4>1, <4>2, <4>3 DEF OutBacked
    <3> QED BY <2>4, <3>1, <3>2
  <2>6. seen' = seen /\ panel' = panel /\ in' = in
    BY <1>3 DEF OnTransmit
  <2> QED BY <2>3, <2>5, <2>6 DEF InformedInv
<1>4. CASE OnMessage
  <2>1. AllHonest(queue', seen)
    BY <1>0, <1>4, ServesHonest, Neutral DEF OnMessage
  <2> QED BY <1>4, <2>1 DEF OnMessage, usbVars, InformedInv
<1>5. CASE OnRecieve
  <2>1. AllHonest(queue', seen)
    BY <1>5, ReadsReports, ServesHonest
  <2> QED BY <1>5, <2>1 DEF OnRecieve, usbVars, InformedInv
<1>6. CASE OnGpioRecieve
  <2>0. Serving("shown")
    BY <1>6 DEF OnGpioRecieve, Serve
  <2>1. Head(queue).e.n \in Pins /\ EntryHonest(Head(queue).e, seen)
    BY <1>h, <2>0 DEF Honest
  <2>2. AllHonest(queue', seen)
    BY <1>0, <1>6, ServesHonest, Neutral DEF OnGpioRecieve
  <2>3. panel' = [panel EXCEPT ![Head(queue).e.n] = Head(queue).e.st]
    BY <1>6 DEF OnGpioRecieve
  <2>4. PanelSeen(panel', seen)
    BY <2>1, <2>3 DEF TypeOK, EntryHonest, PanelSeen, InformedInv
  <2>5. seen' = seen /\ out' = out /\ in' = in
    BY <1>6 DEF OnGpioRecieve, usbVars
  <2> QED BY <2>2, <2>4, <2>5 DEF InformedInv
<1> QED BY <1>1, <1>2, <1>3, <1>4, <1>5, <1>6 DEF Worker

\* What a short receive leaves of an honest packet is honest.
LEMMA CutHonest ==
  ASSUME NEW sn, NEW p \in Packet, PacketHonest(p, sn), NEW q \in CutShort(p)
  PROVE  PacketHonest(q, sn)
<1>1. \A i \in 1 .. Len(q.body) :
        \/ q.body[i].st.function = 0
        \/ (q.fits => p.fits) /\ i \in 1 .. Len(p.body) /\ q.body[i] = p.body[i]
  BY CutShorts
<1> SUFFICES ASSUME q.fits, NEW i \in 1 .. Len(q.body) PROVE EntryHonest(q.body[i], sn)
  BY DEF PacketHonest
<1>2. CASE q.body[i].st.function = 0
  BY <1>2 DEF EntryHonest, Gpio
<1>3. CASE (q.fits => p.fits) /\ i \in 1 .. Len(p.body) /\ q.body[i] = p.body[i]
  BY <1>3 DEF PacketHonest
<1> QED BY <1>1, <1>2, <1>3

\* A packet that sets out says what is reported with it.
LEMMA SendsHonest ==
  ASSUME TypeOK, InformedInv, NEW p \in Packet, BoardSends(p), UNCHANGED <<queue, out, panel>>
  PROVE  InformedInv'
<1>0. queue \in Seq(Message) /\ out \in Seq(Command) /\ in \in Seq(Packet) /\ RestTypeOK
      /\ seen \in [Pins -> SUBSET GpioState]
  BY DEF TypeOK, RestTypeOK
<1>1. in' = Append(in, p) /\ seen' = [n \in Pins |-> seen[n] \union StatesIn(p, n)]
  BY DEF BoardSends
<1>2. Grows(seen, seen')
  <2>1. \A n \in Pins : seen[n] \subseteq seen'[n]
    BY <1>1
  <2> QED BY <1>0, <2>1, SendsPacket DEF Grows
<1>3. PacketHonest(p, seen')
  BY <1>1 DEF PacketHonest, EntryHonest, StatesIn
<1>4. InHonest(in', seen')
  <2>1. /\ Len(in) \in Nat /\ Len(in') = Len(in) + 1 /\ in'[Len(in) + 1] = p
        /\ \A i \in 1 .. Len(in) : in'[i] = in[i] /\ in[i] \in Packet
    BY <1>0, <1>1
  <2> SUFFICES ASSUME NEW i \in 1 .. Len(in') PROVE PacketHonest(in'[i], seen')
    BY DEF InHonest
  <2>2. i \in 1 .. Len(in) \/ i = Len(in) + 1
    BY <2>1
  <2> QED BY <1>2, <1>3, <2>1, <2>2, PacketGrows DEF InHonest, InformedInv
<1>5. AllHonest(queue', seen')
  <2>1. \A i \in 1 .. Len(queue) : queue[i] \in Message
    BY <1>0
  <2> QED BY <1>2, <2>1, HonestGrows DEF AllHonest, InformedInv
<1>6. OutBacked(out', seen')
  <2>1. \A i \in 1 .. Len(out) : out[i] \in Command
    BY <1>0
  <2> QED BY <1>2, <2>1, BackedGrows DEF OutBacked, InformedInv
<1>7. PanelSeen(panel', seen')
  BY <1>2 DEF PanelSeen, Grows, InformedInv
<1> QED BY <1>4, <1>5, <1>6, <1>7 DEF InformedInv

\* So do the user, the bus, the transfers and the board.
LEMMA InformedOutside == TypeOK /\ InformedInv /\ Next /\ ~Worker => InformedInv'
<1> SUFFICES ASSUME TypeOK, InformedInv, Next, ~Worker PROVE InformedInv'
  OBVIOUS
<1>0. queue \in Seq(Message) /\ out \in Seq(Command) /\ in \in Seq(Packet)
  BY DEF TypeOK
<1>1. ASSUME NEW n \in Pins, Press(n) PROVE InformedInv'
  <2>1. PICK s \in Changed(panel[n]) :
          queue' = Append(queue, [k |-> "set", cmd |-> [n |-> n, st |-> s, key |-> presses + 1]])
    BY <1>1 DEF Press
  <2>2. panel[n] \in GpioState /\ presses + 1 \in Nat \ {0} /\ panel[n].function = Gpio
    BY <1>1 DEF Press, TypeOK
  <2>3. panel[n] \in seen[n]
    BY <2>2 DEF InformedInv, PanelSeen
  <2> DEFINE c == [n |-> n, st |-> s, key |-> presses + 1]
  <2>4. c \in Command
    BY <2>2, ChangedOne DEF Command
  <2>5. Backed(c, seen)
    BY <2>2, <2>3, ChangedOne DEF Backed
  <2>6. [k |-> "set", cmd |-> c] \in Message
    BY <2>4, Posts
  <2>7. Honest([k |-> "set", cmd |-> c], seen)
    BY <2>5 DEF Honest
  <2> HIDE DEF c
  <2>8. queue' = Append(queue, [k |-> "set", cmd |-> c])
    BY <2>1 DEF c
  <2>9. AllHonest(queue', seen)
    BY <1>0, <2>6, <2>7, <2>8, HonestPosted DEF InformedInv
  <2> QED BY <1>1, <2>9 DEF Press, usbVars, historyVars, InformedInv
<1>2. CASE Plug
  <2>1. AllHonest(queue', seen)
    BY <1>0, <1>2, Posts, HonestPosted, Neutral DEF Plug, InformedInv
  <2> QED BY <1>2, <2>1 DEF Plug, InformedInv
<1>3. CASE Unplug
  <2>1. out' = <<>>
    BY <1>3 DEF Unplug
  <2>2. OutBacked(out', seen)
    BY <2>1 DEF OutBacked
  <2>3. InHonest(in', seen)
    BY <1>3 DEF Unplug, InHonest
  <2> QED BY <1>3, <2>2, <2>3 DEF Unplug, procVars, InformedInv
<1>4. CASE TransmitEnds
  <2>1. out # <<>> /\ out' = Tail(out)
    BY <1>4 DEF TransmitEnds
  <2>2. Len(out) \in Nat \ {0} /\ Len(out') = Len(out) - 1 /\ \A i \in 1 .. Len(out') : out'[i] = out[i + 1]
    BY <1>0, <2>1
  <2>3. \A i \in 1 .. Len(out') : i + 1 \in 1 .. Len(out)
    BY <2>2
  <2>4. OutBacked(out', seen)
    BY <2>2, <2>3 DEF OutBacked, InformedInv
  <2> QED BY <1>4, <2>4 DEF TransmitEnds, procVars, InformedInv
<1>5. CASE RecieveEnds
  <2>1. in # <<>> /\ in' = Tail(in) /\ Head(in) \in Packet
    BY <1>5, Receives
  <2>2. /\ Len(in) \in Nat \ {0} /\ Len(in') = Len(in) - 1 /\ Head(in) = in[1]
        /\ \A i \in 1 .. Len(in') : in'[i] = in[i + 1] /\ i + 1 \in 1 .. Len(in)
    BY <1>0, <2>1
  <2>3. InHonest(in', seen) /\ PacketHonest(Head(in), seen)
    BY <2>2 DEF InHonest, InformedInv
  <2>4. \A p \in {Head(in)} \union CutShort(Head(in)) : PacketHonest(p, seen)
    BY <2>1, <2>3, CutHonest
  <2>5. AllHonest(queue', seen)
    <3>1. CASE queue' = queue
      BY <3>1 DEF InformedInv
    <3>2. ASSUME NEW p \in {Head(in)} \union CutShort(Head(in)),
                 p \in Packet, queue' = Append(queue, [k |-> "packet", p |-> p])
          PROVE  AllHonest(queue', seen)
      <4>1. [k |-> "packet", p |-> p] \in Message /\ Honest([k |-> "packet", p |-> p], seen)
        BY <2>4, <3>2, Posts, Neutral
      <4> QED BY <1>0, <3>2, <4>1, HonestPosted DEF InformedInv
    <3> QED BY <1>5, <3>1, <3>2, Receives
  <2> QED BY <1>5, <2>3, <2>5 DEF RecieveEnds, InformedInv
<1>6. CASE Board
  <2>0. RestTypeOK
    BY DEF TypeOK, RestTypeOK
  <2>1. \E p \in Packet : BoardSends(p)
    BY <1>6, <2>0, Answers, ReportsPacket DEF Board
  <2> QED BY <1>6, <2>1, SendsHonest DEF Board, BoardAnswers, BoardReports, procVars
<1>7. CASE Register
  BY <1>7 DEF Register, usbVars, historyVars, InformedInv
<1> QED BY <1>1, <1>2, <1>3, <1>4, <1>5, <1>6, <1>7 DEF Next, Usb

\* Every command the program sends changes one field at most of a state that a
\* board reported for that very pin (WindowGPIO, Device::on_gpio_set).
THEOREM CommandsInformed == Spec => []Informed
<1>1. Init => InformedInv
  BY DEF Init, InformedInv, AllHonest, InHonest, OutBacked, PanelSeen, Blank, Gpio
<1>2. TypeOK /\ InformedInv /\ [Next]_vars => InformedInv'
  <2>1. InformedInv /\ UNCHANGED vars => InformedInv'
    BY DEF vars, procVars, usbVars, historyVars, InformedInv
  <2> QED BY <2>1, InformedWorker, InformedOutside
<1>3. TypeOK /\ InformedInv => Informed
  <2> SUFFICES ASSUME TypeOK, InformedInv, NEW c \in Carried, c # GetAll PROVE Backed(c, seen)
    BY DEF Informed, Backed
  <2>1. CASE c \in {queue[i].cmd : i \in {j \in 1 .. Len(queue) : queue[j].k \in {"set", "transmit"}}}
    BY <2>1 DEF InformedInv, AllHonest, Honest
  <2>2. CASE c \in {out[i] : i \in 1 .. Len(out)}
    BY <2>2 DEF InformedInv, OutBacked
  <2> QED BY <2>1, <2>2 DEF Carried
<1> QED BY <1>1, <1>2, <1>3, Typing, PTL DEF Spec

-----------------------------------------------------------------------------
\* Message m is the panel's next news of pin n.
Tells(m, n) == m.k = "shown" /\ m.e.n = n

\* WillShow of any queue q and any state now that is shown of pin n.
Shows(q, now, n, st) ==
  \/ /\ now = st
     /\ \A i \in 1 .. Len(q) : ~Tells(q[i], n)
  \/ \E i \in 1 .. Len(q) :
       /\ Tells(q[i], n) /\ q[i].e.st = st
       /\ \A j \in i + 1 .. Len(q) : ~Tells(q[j], n)

\* It is what WillShow says of the queue and the panel.
LEMMA ShowsIsWillShow == \A n, st : Shows(queue, panel[n], n, st) <=> WillShow(n, st)
  BY DEF Shows, WillShow, Tells

\* A message that is posted and tells nothing of n changes nothing for n.
LEMMA ShowsPosted ==
  ASSUME NEW q \in Seq(Message), NEW m \in Message, NEW r, r = Append(q, m),
         NEW now, NEW n, NEW st, ~Tells(m, n), Shows(q, now, n, st)
  PROVE  Shows(r, now, n, st)
<1>1. /\ Len(q) \in Nat /\ Len(r) = Len(q) + 1 /\ r[Len(q) + 1] = m
      /\ \A i \in 1 .. Len(q) : r[i] = q[i]
  BY Appended
<1>2. CASE now = st /\ \A i \in 1 .. Len(q) : ~Tells(q[i], n)
  <2>1. \A i \in 1 .. Len(r) : i \in 1 .. Len(q) \/ i = Len(q) + 1
    BY <1>1
  <2>2. \A i \in 1 .. Len(r) : ~Tells(r[i], n)
    BY <1>1, <1>2, <2>1
  <2> QED BY <1>2, <2>2 DEF Shows
<1>3. CASE \E i \in 1 .. Len(q) : /\ Tells(q[i], n) /\ q[i].e.st = st
                                  /\ \A j \in i + 1 .. Len(q) : ~Tells(q[j], n)
  <2>1. PICK i \in 1 .. Len(q) : /\ Tells(q[i], n) /\ q[i].e.st = st
                                 /\ \A j \in i + 1 .. Len(q) : ~Tells(q[j], n)
    BY <1>3
  <2>2. i \in 1 .. Len(r) /\ r[i] = q[i]
    BY <1>1
  <2>3. \A j \in i + 1 .. Len(r) : (j \in i + 1 .. Len(q) /\ j \in 1 .. Len(q)) \/ j = Len(q) + 1
    BY <1>1
  <2>4. \A j \in i + 1 .. Len(r) : ~Tells(r[j], n)
    BY <1>1, <2>1, <2>3
  <2> QED BY <2>1, <2>2, <2>4 DEF Shows
<1> QED BY <1>2, <1>3 DEF Shows

\* The head is served and what is posted for it tells nothing of n: what was to
\* be shown is shown, or still to be shown.
LEMMA ShowsServed ==
  ASSUME NEW q \in Seq(Message), q # <<>>, NEW ms \in Seq(Message), NEW r, r = Tail(q) \o ms,
         NEW now, NEW then, NEW n, NEW st, Shows(q, now, n, st),
         \A i \in 1 .. Len(ms) : ~Tells(ms[i], n),
         then = IF Tells(q[1], n) THEN q[1].e.st ELSE now
  PROVE  Shows(r, then, n, st)
<1>1. /\ Len(q) \in Nat \ {0} /\ Len(ms) \in Nat /\ Len(r) = Len(q) - 1 + Len(ms)
      /\ \A i \in 1 .. Len(q) - 1 : r[i] = q[i + 1]
      /\ \A i \in 1 .. Len(ms) : r[Len(q) - 1 + i] = ms[i]
  BY Served
<1>2. ASSUME NEW k \in 0 .. Len(q), \A j \in k + 1 .. Len(q) : ~Tells(q[j], n)
      PROVE  \A j \in 1 .. Len(r) : j >= k => ~Tells(r[j], n)
  <2> SUFFICES ASSUME NEW j \in 1 .. Len(r), j >= k PROVE ~Tells(r[j], n)
    OBVIOUS
  <2>1. CASE j \in 1 .. Len(q) - 1
    <3>1. j + 1 \in k + 1 .. Len(q) /\ r[j] = q[j + 1]
      BY <1>1, <2>1
    <3> QED BY <1>2, <3>1
  <2>2. CASE j \notin 1 .. Len(q) - 1
    <3> DEFINE i == j - (Len(q) - 1)
    <3>1. i \in 1 .. Len(ms) /\ j = Len(q) - 1 + i
      BY <1>1, <2>2
    <3>2. r[j] = ms[i]
      BY <1>1, <3>1
    <3> QED BY <3>1, <3>2
  <2> QED BY <2>1, <2>2
<1>3. CASE now = st /\ \A i \in 1 .. Len(q) : ~Tells(q[i], n)
  <2>1. then = st
    BY <1>1, <1>3
  <2>2. \A j \in 1 .. Len(r) : ~Tells(r[j], n)
    BY <1>1, <1>2, <1>3
  <2> QED BY <2>1, <2>2 DEF Shows
<1>4. ASSUME NEW i \in 1 .. Len(q), Tells(q[i], n), q[i].e.st = st,
             \A j \in i + 1 .. Len(q) : ~Tells(q[j], n)
      PROVE  Shows(r, then, n, st)
  <2>1. \A j \in 1 .. Len(r) : j >= i => ~Tells(r[j], n)
    BY <1>1, <1>2, <1>4
  <2>2. CASE i = 1
    BY <1>1, <1>4, <2>1, <2>2 DEF Shows
  <2>3. CASE i # 1
    <3>1. i - 1 \in 1 .. Len(q) - 1 /\ i - 1 \in 1 .. Len(r) /\ i - 1 + 1 = i
      BY <1>1, <2>3
    <3>2. r[i - 1] = q[i]
      BY <1>1, <3>1
    <3>3. \A j \in i - 1 + 1 .. Len(r) : j \in 1 .. Len(r) /\ j >= i
      BY <1>1, <3>1
    <3>4. \A j \in i - 1 + 1 .. Len(r) : ~Tells(r[j], n)
      BY <2>1, <3>3
    <3> QED BY <1>4, <3>1, <3>2, <3>4 DEF Shows
  <2> QED BY <2>2, <2>3
<1> QED BY <1>3, <1>4 DEF Shows

\* Where the messages that are posted stand in the queue.
LEMMA Joined ==
  \A q, ms \in Seq(Message) : q # <<>> =>
    /\ Len(q) \in Nat \ {0} /\ Len(Tail(q) \o ms) = Len(q) - 1 + Len(ms)
    /\ \A j \in 1 .. Len(ms) : (Tail(q) \o ms)[Len(q) - 1 + j] = ms[j]
<1> TAKE q, ms \in Seq(Message)
<1> HAVE q # <<>>
<1> DEFINE r == Tail(q) \o ms
<1>1. r = Tail(q) \o ms
  OBVIOUS
<1> HIDE DEF r
<1>2. Len(q) \in Nat \ {0} /\ Len(r) = Len(q) - 1 + Len(ms)
      /\ \A j \in 1 .. Len(ms) : r[Len(q) - 1 + j] = ms[j]
  BY <1>1, Served
<1> QED BY <1>2 DEF r

\* After a packet, the panel will show its last entry for n: if one was announced
\* to the panel, or if all were and it was going to show what Device had.
LEMMA ShowsAnnounced ==
  ASSUME NEW q \in Seq(Message), q # <<>>, NEW body \in Seq(Entry), NEW deaf \in Nat,
         NEW r, r = Tail(q) \o Announce(body, deaf),
         q[1].k # "shown", NEW now, NEW n \in Pins, NEW st,
         \/ deaf = 0 /\ Shows(q, now, n, st)
         \/ \E i \in deaf + 1 .. Len(body) : body[i].n = n
  PROVE  Shows(r, now, n, LastOf(body, n, st))
<1> DEFINE ms == Announce(body, deaf)
<1>1. ms \in Seq(Message) /\ Len(ms) = Len(body) /\ Len(body) \in Nat
  BY Announces
<1>s. /\ Len(q) \in Nat \ {0} /\ Len(r) = Len(q) - 1 + Len(ms)
      /\ \A j \in 1 .. Len(ms) : r[Len(q) - 1 + j] = ms[j]
  BY <1>1, Joined
<1>2. \A i \in 1 .. Len(body) : Tells(ms[i], n) => body[i].n = n
  <2> TAKE i \in 1 .. Len(body)
  <2>i. i \in Nat
    OBVIOUS
  <2>1. CASE body[i].n \in Pins /\ i > deaf
    <3>1. ms[i] = [k |-> "shown", e |-> body[i]]
      BY <2>1, Announces
    <3> HIDE DEF ms
    <3> QED BY <3>1 DEF Tells
  <2>2. CASE body[i].n \in Pins /\ i <= deaf
    <3>1. ms[i] = [k |-> "nobody"]
      BY <2>2, Announces
    <3> QED BY <3>1 DEF Tells
  <2>3. CASE body[i].n \notin Pins
    <3>1. ms[i] = [k |-> "text"]
      BY <2>3, Announces
    <3> QED BY <3>1 DEF Tells
  <2> QED BY <2>i, <2>1, <2>2, <2>3
<1>3. ASSUME NEW i \in 1 .. Len(body), body[i].n = n, i > deaf
      PROVE  Tells(ms[i], n) /\ ms[i].e = body[i]
  <2>1. ms[i] = [k |-> "shown", e |-> body[i]]
    BY <1>3, Announces
  <2> HIDE DEF ms
  <2> QED BY <1>3, <2>1 DEF Tells
<1> HIDE DEF ms
<1>4. CASE LastOf(body, n, st) = st /\ \A i \in 1 .. Len(body) : body[i].n # n
  <2>1. Shows(q, now, n, st)
    <3>1. \A i \in deaf + 1 .. Len(body) : i \in 1 .. Len(body)
      BY <1>1
    <3> QED BY <1>4, <3>1
  <2>2. \A i \in 1 .. Len(ms) : ~Tells(ms[i], n)
    BY <1>1, <1>2, <1>4
  <2>3. r = Tail(q) \o ms /\ ~Tells(q[1], n)
    BY DEF ms, Tells
  <2> QED BY <1>1, <1>4, <2>1, <2>2, <2>3, ShowsServed
<1>5. ASSUME NEW i \in 1 .. Len(body), LastOf(body, n, st) = body[i].st, body[i].n = n,
             \A j \in i + 1 .. Len(body) : body[j].n # n
      PROVE  Shows(r, now, n, body[i].st)
  <2> DEFINE at == Len(q) - 1 + i
  <2>1. i > deaf
    <3>1. CASE deaf = 0
      BY <3>1
    <3>2. ASSUME NEW l \in deaf + 1 .. Len(body), body[l].n = n PROVE i > deaf
      <4>1. ~ (l \in i + 1 .. Len(body))
        BY <1>5, <3>2
      <4> QED BY <1>1, <4>1
    <3> QED BY <3>1, <3>2
  <2>2. at \in 1 .. Len(r) /\ r[at] = ms[i]
    BY <1>1, <1>s
  <2>3. Tells(r[at], n) /\ r[at].e.st = body[i].st
    BY <1>3, <1>5, <2>1, <2>2
  <2>4. \A j \in at + 1 .. Len(r) : ~Tells(r[j], n)
    <3> TAKE j \in at + 1 .. Len(r)
    <3> DEFINE l == j - (Len(q) - 1)
    <3>1. l \in i + 1 .. Len(body) /\ l \in 1 .. Len(ms) /\ j = Len(q) - 1 + l
      BY <1>1, <1>s, <2>2
    <3>2. r[j] = ms[l]
      BY <1>s, <3>1
    <3> QED BY <1>1, <1>2, <1>5, <3>1, <3>2
  <2> QED BY <2>2, <2>3, <2>4 DEF Shows
<1>6. CASE \E i \in 1 .. Len(body) : /\ LastOf(body, n, st) = body[i].st /\ body[i].n = n
                                    /\ \A j \in i + 1 .. Len(body) : body[j].n # n
  BY <1>5, <1>6
<1> QED BY <1>4, <1>6, LastEntry

\* PanelFollows, and that nothing is announced to the panel before it listens.
PanelInv == PanelFollows /\ (listens \/ announced = {})

\* What the queue holds after an action that reads no packet and shows nothing.
LEMMA FollowsServed ==
  ASSUME TypeOK, PanelFollows, NEW k, k # "shown", NEW ms \in Seq(Message), Serve(k, ms),
         \A i \in 1 .. Len(ms) : ms[i].k # "shown", UNCHANGED <<states, panel, announced>>
  PROVE  PanelFollows'
<1>0. queue \in Seq(Message)
  BY DEF TypeOK
<1>1. queue # <<>> /\ queue' = Tail(queue) \o ms /\ queue[1].k = k
  BY <1>0, Serving1
<1>2. SUFFICES ASSUME NEW n \in announced PROVE WillShow(n, states[n])'
  BY DEF PanelFollows
<1>3. Shows(queue, panel[n], n, states[n])
  BY <1>2, ShowsIsWillShow DEF PanelFollows
<1>4. ~Tells(queue[1], n) /\ \A i \in 1 .. Len(ms) : ~Tells(ms[i], n)
  BY <1>1 DEF Tells
<1>5. Shows(queue', panel[n], n, states[n])
  BY <1>0, <1>1, <1>3, <1>4, ShowsServed
<1> QED BY <1>5 DEF Shows, WillShow, Tells

\* And after a message is posted that shows nothing.
LEMMA FollowsPosted ==
  ASSUME TypeOK, PanelFollows, NEW m \in Message, m.k # "shown", queue' = Append(queue, m),
         UNCHANGED <<states, panel, announced>>
  PROVE  PanelFollows'
<1>1. SUFFICES ASSUME NEW n \in announced PROVE WillShow(n, states[n])'
  BY DEF PanelFollows
<1>2. Shows(queue, panel[n], n, states[n]) /\ queue \in Seq(Message)
  BY <1>1, ShowsIsWillShow DEF PanelFollows, TypeOK
<1>3. Shows(queue', panel[n], n, states[n])
  BY <1>2, ShowsPosted DEF Tells
<1> QED BY <1>3 DEF Shows, WillShow, Tells

\* Or nothing is posted.
LEMMA FollowsQuiet == ASSUME PanelFollows, UNCHANGED <<queue, states, panel, announced>> PROVE PanelFollows'
  BY DEF PanelFollows, WillShow

\* The handlers of the worker keep the panel a delayed copy.
LEMMA FollowsWorker == TypeOK /\ PanelInv /\ Worker => PanelFollows'
<1> SUFFICES ASSUME TypeOK, PanelInv, Worker PROVE PanelFollows'
  OBVIOUS
<1>f. PanelFollows
  BY DEF PanelInv
<1>0. /\ queue \in Seq(Message) /\ <<>> \in Seq(Message)
      /\ \A m \in Message : /\ <<m>> \in Seq(Message)
                            /\ m.k # "shown" => \A i \in 1 .. Len(<<m>>) : <<m>>[i].k # "shown"
      /\ \A i \in 1 .. Len(<<>>) : <<>>[i].k # "shown"
  BY DEF TypeOK
<1>h. ASSUME NEW k, Serving(k) PROVE queue # <<>> /\ Head(queue) \in Message /\ Head(queue).k = k /\ Head(queue) = queue[1]
  BY <1>0, <1>h DEF Serving
<1>1. CASE OnGpioSet
  <2>1. Head(queue).cmd \in Command
    BY <1>1, <1>h, Carries DEF OnGpioSet, Serve
  <2>2. [k |-> "transmit", cmd |-> Head(queue).cmd] \in Message
    BY <2>1, Posts
  <2>3. UNCHANGED <<states, panel, announced>>
    BY <1>1 DEF OnGpioSet, historyVars
  <2> QED BY <1>0, <1>1, <2>2, <2>3, <1>f, FollowsServed DEF OnGpioSet
<1>2. CASE OnConnected
  <2>1. [k |-> "transmit", cmd |-> GetAll] \in Message
    BY Posts, Fields
  <2>2. UNCHANGED <<states, panel, announced>>
    BY <1>2 DEF OnConnected, historyVars
  <2> QED BY <1>0, <1>2, <2>1, <2>2, <1>f, FollowsServed DEF OnConnected
<1>3. CASE OnTransmit
  <2>1. Head(queue).cmd \in Command
    BY <1>3, <1>h, Carries DEF OnTransmit, Serve
  <2>2. [k |-> "error", cmd |-> Head(queue).cmd] \in Message
    BY <2>1, Posts
  <2>3. UNCHANGED <<states, panel, announced>>
    BY <1>3 DEF OnTransmit
  <2> QED BY <1>0, <1>3, <2>2, <2>3, <1>f, FollowsServed DEF OnTransmit, Refusal
<1>4. CASE OnMessage
  <2>1. UNCHANGED <<states, panel, announced>>
    BY <1>4 DEF OnMessage
  <2> QED BY <1>0, <1>4, <2>1, <1>f, FollowsServed DEF OnMessage
<1>5. CASE OnRecieve
  <2> DEFINE body == Head(queue).p.body
  <2>0. Head(queue) \in Message /\ Head(queue).k = "packet" /\ queue # <<>> /\ Head(queue) = queue[1]
    BY <1>5, <1>h DEF OnRecieve
  <2>1. body \in Seq(Entry)
    <3>1. Head(queue).p \in Packet
      BY <2>0, Carries
    <3> QED BY <3>1 DEF Packet
  <2>2. CASE ~Head(queue).p.fits
    <3>1. Serve("packet", <<[k |-> "text"]>>) /\ UNCHANGED <<states, panel, announced>>
      BY <1>5, <2>2 DEF OnRecieve
    <3> QED BY <1>0, <3>1, Posts, <1>f, FollowsServed
  <2>3. CASE Head(queue).p.fits
    <3>1. PICK deaf \in Deaf(body) :
            /\ Serve("packet", Announce(body, deaf)) /\ panel' = panel
            /\ states' = [n \in Pins |-> LastOf(body, n, states[n])]
            /\ announced' = announced \union (Pins \cap {body[i].n : i \in deaf + 1 .. Len(body)})
      BY <1>5, <2>3 DEF OnRecieve
    <3> HIDE DEF body
    <3>d. deaf \in Nat /\ (listens => deaf = 0)
      BY <2>1, Deafs
    <3>2. queue' = Tail(queue) \o Announce(body, deaf)
      BY <3>1 DEF Serve
    <3>3. SUFFICES ASSUME NEW n \in announced' PROVE WillShow(n, states[n])'
      BY DEF PanelFollows
    <3>n. n \in Pins
      BY <3>1, <3>3 DEF TypeOK
    <3>4. states'[n] = LastOf(body, n, states[n])
      BY <3>1, <3>n
    <3>5. \/ deaf = 0 /\ Shows(queue, panel[n], n, states[n])
          \/ \E i \in deaf + 1 .. Len(body) : body[i].n = n
      <4>1. CASE n \in announced
        <5>1. listens
          BY <4>1 DEF PanelInv
        <5>2. Shows(queue, panel[n], n, states[n])
          BY <1>f, <4>1, ShowsIsWillShow DEF PanelFollows
        <5> QED BY <3>d, <5>1, <5>2
      <4> QED BY <3>1, <3>3, <4>1
    <3>6. queue[1].k # "shown"
      BY <2>0
    <3>7. Shows(queue', panel[n], n, states'[n])
      BY <1>0, <2>0, <2>1, <3>d, <3>2, <3>n, <3>4, <3>5, <3>6, ShowsAnnounced
    <3> QED BY <3>1, <3>7 DEF Shows, WillShow, Tells
  <2> QED BY <2>2, <2>3
<1>6. CASE OnGpioRecieve
  <2>0. /\ Serve("shown", <<>>) /\ states' = states /\ announced' = announced
        /\ panel' = [panel EXCEPT ![Head(queue).e.n] = Head(queue).e.st]
    BY <1>6 DEF OnGpioRecieve
  <2>1. queue # <<>> /\ queue' = Tail(queue) \o <<>> /\ Head(queue) = queue[1] /\ queue[1].k = "shown"
    BY <1>0, <1>h, <2>0 DEF Serve
  <2>2. SUFFICES ASSUME NEW n \in announced PROVE WillShow(n, states[n])'
    BY <2>0 DEF PanelFollows
  <2>n. n \in Pins
    BY DEF TypeOK
  <2>3. Shows(queue, panel[n], n, states[n])
    BY <1>f, <2>2, ShowsIsWillShow DEF PanelFollows
  <2>4. panel'[n] = IF Tells(queue[1], n) THEN queue[1].e.st ELSE panel[n]
    <3>1. panel \in [Pins -> GpioState]
      BY DEF TypeOK
    <3> QED BY <2>0, <2>1, <2>n, <3>1 DEF Tells
  <2>5. \A i \in 1 .. Len(<<>>) : ~Tells(<<>>[i], n)
    OBVIOUS
  <2>6. Shows(queue', panel'[n], n, states[n])
    BY <1>0, <2>1, <2>3, <2>4, <2>5, ShowsServed
  <2> QED BY <2>0, <2>6 DEF Shows, WillShow, Tells
<1> QED BY <1>1, <1>2, <1>3, <1>4, <1>5, <1>6 DEF Worker

\* What listens, and what was announced: only main and OnRecieve change it.
LEMMA ListensStep == PanelInv /\ [Next]_vars => listens' \/ announced' = {}
<1> SUFFICES ASSUME PanelInv, [Next]_vars PROVE listens' \/ announced' = {}
  OBVIOUS
<1>1. CASE OnRecieve
  <2> DEFINE body == Head(queue).p.body
  <2>1. CASE UNCHANGED <<listens, announced>>
    BY <2>1 DEF PanelInv
  <2>2. ASSUME NEW deaf \in Deaf(body), listens' = (listens \/ deaf < Len(body)),
               announced' = announced \union (Pins \cap {body[i].n : i \in deaf + 1 .. Len(body)})
        PROVE  listens' \/ announced' = {}
    <3>1. CASE listens
      BY <2>2, <3>1
    <3>2. CASE deaf < Len(body)
      BY <2>2, <3>2
    <3>3. CASE ~listens /\ ~(deaf < Len(body))
      <4>1. announced = {}
        BY <3>3 DEF PanelInv
      <4>2. Deaf(body) = 0 .. Len(body)
        BY <3>3 DEF Deaf
      <4>3. deaf + 1 .. Len(body) = {}
        BY <3>3, <4>2
      <4> QED BY <2>2, <4>1, <4>3
    <3> QED BY <3>1, <3>2, <3>3
  <2> QED BY <1>1, <2>1, <2>2 DEF OnRecieve
<1>2. CASE Register
  BY <1>2 DEF Register
<1>3. CASE OnGpioSet \/ OnConnected \/ OnTransmit \/ OnMessage \/ OnGpioRecieve
  BY <1>3 DEF OnGpioSet, OnConnected, OnTransmit, OnMessage, OnGpioRecieve, historyVars, PanelInv
<1>4. CASE (\E n \in Pins : Press(n)) \/ Plug \/ Unplug \/ Usb \/ Board \/ UNCHANGED vars
  BY <1>4 DEF Press, Plug, Unplug, Usb, TransmitEnds, RecieveEnds, Board, BoardAnswers, BoardReports,
              vars, procVars, historyVars, PanelInv
<1> QED BY <1>1, <1>2, <1>3, <1>4 DEF Next, Worker

\* The panel shows what Device last read of every pin announced since WindowGPIO
\* listens, or will once the queue is served: no entry is missed or overtaken
\* (parse_gpio, on_gpio_recieve).
THEOREM PanelDelayed == Spec => []PanelFollows
<1>1. Init => PanelInv
  BY DEF Init, PanelFollows, PanelInv
<1>2. TypeOK /\ PanelInv /\ [Next]_vars => PanelInv'
  <2> SUFFICES ASSUME TypeOK, PanelInv, [Next]_vars PROVE PanelFollows'
    BY ListensStep DEF PanelInv
  <2>f. PanelFollows
    BY DEF PanelInv
  <2>1. ASSUME NEW n \in Pins, Press(n) PROVE PanelFollows'
    <3>1. PICK s \in Changed(panel[n]) :
            queue' = Append(queue, [k |-> "set", cmd |-> [n |-> n, st |-> s, key |-> presses + 1]])
      BY <2>1 DEF Press
    <3>2. s \in GpioState /\ presses + 1 \in Nat \ {0}
      BY ChangedOne DEF TypeOK
    <3>3. [n |-> n, st |-> s, key |-> presses + 1] \in Command
      BY <3>2 DEF Command
    <3>4. [k |-> "set", cmd |-> [n |-> n, st |-> s, key |-> presses + 1]] \in Message
      BY <3>3, Posts
    <3>5. UNCHANGED <<states, panel, announced>>
      BY <2>1 DEF Press, historyVars
    <3> QED BY <2>f, <3>1, <3>4, <3>5, FollowsPosted
  <2>2. CASE Plug
    BY <2>f, <2>2, Posts, FollowsPosted DEF Plug
  <2>3. CASE RecieveEnds
    <3>1. UNCHANGED <<states, panel, announced>>
      BY <2>3 DEF RecieveEnds
    <3>2. ASSUME NEW p \in Packet, queue' = Append(queue, [k |-> "packet", p |-> p])
          PROVE  PanelFollows'
      <4>1. [k |-> "packet", p |-> p] \in Message
        BY Posts
      <4> QED BY <2>f, <3>1, <3>2, <4>1, FollowsPosted
    <3> QED BY <2>f, <2>3, <3>1, <3>2, Receives, FollowsQuiet
  <2>4. CASE Register \/ Unplug \/ TransmitEnds \/ Board \/ UNCHANGED vars
    <3>1. UNCHANGED <<queue, states, panel, announced>>
      BY <2>4 DEF Register, Unplug, TransmitEnds, Board, BoardAnswers, BoardReports,
                  procVars, historyVars, vars
    <3> QED BY <2>f, <3>1, FollowsQuiet
  <2> QED BY <2>1, <2>2, <2>3, <2>4, FollowsWorker DEF Next, Usb
<1>3. PanelInv => PanelFollows
  BY DEF PanelInv
<1> QED BY <1>1, <1>2, <1>3, Typing, PTL DEF Spec

-----------------------------------------------------------------------------
(* The order of the keys, and that none vanishes *)

\* Where the command of a key can stand: stage 1, posted by the panel; stage 2,
\* posted to the USB agent; stage 3, in flight; stage 4, obeyed.  At each stage
\* the commands stand in a row, and a command goes on to the end of the next
\* one: none overtakes another.
At(a, i, key) ==
  \/ a = 1 /\ i \in 1 .. Len(queue) /\ queue[i].k = "set" /\ queue[i].cmd.key = key
  \/ a = 2 /\ i \in 1 .. Len(queue) /\ queue[i].k = "transmit" /\ queue[i].cmd.key = key
  \/ a = 3 /\ i \in 1 .. Len(out) /\ out[i].key = key
  \/ a = 4 /\ i \in 1 .. Len(applied) /\ applied[i] = key

Before(a, i, b, j) == a > b \/ (a = b /\ i < j)

Line ==
  \A a, b \in 1 .. 4, i, j \in Nat, key, l \in Nat \ {0} :
    At(a, i, key) /\ At(b, j, l) /\ Before(a, i, b, j) => key < l

Pressed == \A a \in 1 .. 4, i \in Nat, key \in Nat \ {0} : At(a, i, key) => key <= presses

\* What the board obeyed are keys.
KeysOnly == \A i \in 1 .. Len(applied) : applied[i] \in Nat \ {0}

KeysInv == Line /\ Pressed /\ KeysOnly

\* Is the key's command, or the error about it, somewhere?
Here(key) ==
  \/ \E i \in 1 .. Len(queue) : queue[i].k \in {"set", "transmit", "error"} /\ queue[i].cmd.key = key
  \/ \E i \in 1 .. Len(out) : out[i].key = key
  \/ key \in lost \union logged
  \/ \E i \in 1 .. Len(applied) : applied[i] = key

\* What a handler of the worker does to the commands: it posts the one it
\* serves, submits it, reports it, or shows the report; the other handlers post
\* nothing that carries a key.
NoKeys(ms) == \A i \in 1 .. Len(ms) :
  \/ ms[i].k \in {"text", "shown", "nobody"}
  \/ ms[i].k = "transmit" /\ ms[i].cmd.key = 0

Passes(k, ms) ==
  \/ k = "set" /\ ms = <<[k |-> "transmit", cmd |-> Head(queue).cmd]>> /\ UNCHANGED <<out, logged>>
  \/ k = "transmit" /\ ms = <<>> /\ out' = Append(out, Head(queue).cmd) /\ UNCHANGED logged
  \/ k = "transmit" /\ ms = <<[k |-> "error", cmd |-> Head(queue).cmd]>> /\ UNCHANGED <<out, logged>>
  \/ k = "error" /\ ms = <<>> /\ logged' = logged \union Keys(<<Head(queue).cmd>>) /\ UNCHANGED out
  \/ k \in {"connected", "packet", "shown", "text", "nobody"} /\ NoKeys(ms) /\ UNCHANGED <<out, logged>>

\* What a step of the worker does with the commands it passes on.
LEMMA WorkerPasses ==
  ASSUME TypeOK, Worker
  PROVE  /\ UNCHANGED <<applied, lost, presses>>
         /\ \E k, ms : ms \in Seq(Message) /\ Serve(k, ms) /\ Passes(k, ms)
<1>0. queue \in Seq(Message) /\ \A m \in Message : <<m>> \in Seq(Message)
  BY DEF TypeOK
<1>n. <<>> \in Seq(Message) /\ NoKeys(<<>>) /\ NoKeys(<<[k |-> "text"]>>)
      /\ NoKeys(<<[k |-> "transmit", cmd |-> GetAll]>>)
  BY DEF NoKeys, GetAll
<1>h. ASSUME NEW k, Serving(k) PROVE Head(queue) \in Message /\ Head(queue).k = k
  BY <1>0, <1>h DEF Serving
<1>1. CASE OnGpioSet
  <2>1. Head(queue).cmd \in Command
    BY <1>1, <1>h, Carries DEF OnGpioSet, Serve
  <2>2. <<[k |-> "transmit", cmd |-> Head(queue).cmd]>> \in Seq(Message)
    BY <1>0, <2>1, Posts
  <2>3. Serve("set", <<[k |-> "transmit", cmd |-> Head(queue).cmd]>>)
        /\ UNCHANGED <<applied, lost, presses, out, logged>>
    BY <1>1 DEF OnGpioSet, usbVars, historyVars
  <2> QED BY <2>2, <2>3 DEF Passes
<1>2. CASE OnConnected
  <2>1. <<[k |-> "transmit", cmd |-> GetAll]>> \in Seq(Message)
    BY <1>0, Posts, Fields
  <2>2. Serve("connected", <<[k |-> "transmit", cmd |-> GetAll]>>)
        /\ UNCHANGED <<applied, lost, presses, out, logged>>
    BY <1>2 DEF OnConnected, usbVars, historyVars
  <2> QED BY <1>n, <2>1, <2>2 DEF Passes
<1>3. CASE OnTransmit
  <2>1. Head(queue).cmd \in Command
    BY <1>3, <1>h, Carries DEF OnTransmit, Serve
  <2>2. <<[k |-> "error", cmd |-> Head(queue).cmd]>> \in Seq(Message)
    BY <1>0, <2>1, Posts
  <2>3. UNCHANGED <<applied, lost, presses, logged>>
    BY <1>3 DEF OnTransmit
  <2>4. \/ Serve("transmit", <<>>) /\ out' = Append(out, Head(queue).cmd)
        \/ Serve("transmit", <<[k |-> "error", cmd |-> Head(queue).cmd]>>) /\ UNCHANGED out
    BY <1>3, Zenon DEF OnTransmit, Submit, Refusal
  <2> QED BY <1>n, <2>2, <2>3, <2>4 DEF Passes
<1>4. CASE OnMessage
  <2>1. UNCHANGED <<applied, lost, presses, out>>
    BY <1>4 DEF OnMessage, usbVars
  <2>2. \/ Serve("error", <<>>) /\ logged' = logged \union Keys(<<Head(queue).cmd>>)
        \/ Serve("text", <<>>) /\ UNCHANGED logged
        \/ Serve("nobody", <<>>) /\ UNCHANGED logged
    BY <1>4 DEF OnMessage
  <2> QED BY <1>n, <2>1, <2>2 DEF Passes
<1>5. CASE OnRecieve
  <2> DEFINE body == Head(queue).p.body
  <2>1. body \in Seq(Entry)
    <3>1. Head(queue).p \in Packet
      BY <1>5, <1>h, Carries DEF OnRecieve
    <3> QED BY <3>1 DEF Packet
  <2>2. UNCHANGED <<applied, lost, presses, out, logged>>
    BY <1>5 DEF OnRecieve, usbVars
  <2>3. \/ Serve("packet", <<[k |-> "text"]>>)
        \/ \E deaf \in Deaf(body) : Serve("packet", Announce(body, deaf))
    BY <1>5 DEF OnRecieve
  <2> HIDE DEF body
  <2>4. <<[k |-> "text"]>> \in Seq(Message)
    BY <1>0, Posts
  <2>5. ASSUME NEW deaf \in Deaf(body) PROVE Announce(body, deaf) \in Seq(Message) /\ NoKeys(Announce(body, deaf))
    <3>d. deaf \in Nat
      BY <2>1, Deafs
    <3>1. Announce(body, deaf) \in Seq(Message) /\ Len(Announce(body, deaf)) = Len(body)
      BY <2>1, <3>d, Announces
    <3>2. ASSUME NEW i \in 1 .. Len(body) PROVE Announce(body, deaf)[i].k \in {"text", "shown", "nobody"}
      <4>i. i \in Nat
        OBVIOUS
      <4>1. \/ Announce(body, deaf)[i] = [k |-> "shown", e |-> body[i]]
            \/ Announce(body, deaf)[i] = [k |-> "nobody"] \/ Announce(body, deaf)[i] = [k |-> "text"]
        <5>1. CASE body[i].n \in Pins /\ i > deaf
          BY <2>1, <3>d, <5>1, Announces
        <5>2. CASE body[i].n \in Pins /\ i <= deaf
          BY <2>1, <3>d, <5>2, Announces
        <5>3. CASE body[i].n \notin Pins
          BY <2>1, <3>d, <5>3, Announces
        <5> QED BY <3>d, <4>i, <5>1, <5>2, <5>3
      <4> QED BY <4>1
    <3> QED BY <3>1, <3>2 DEF NoKeys
  <2> QED BY <1>n, <2>2, <2>3, <2>4, <2>5 DEF Passes
<1>6. CASE OnGpioRecieve
  <2>1. Serve("shown", <<>>) /\ UNCHANGED <<applied, lost, presses, out, logged>>
    BY <1>6 DEF OnGpioRecieve, usbVars
  <2> QED BY <1>n, <2>1 DEF Passes
<1> QED BY <1>1, <1>2, <1>3, <1>4, <1>5, <1>6 DEF Worker

\* A row of commands moves up or stays; at most one of them goes on to the end
\* N of the row of the next stage A.  Then the line stays in order.
LEMMA MoveOn ==
  ASSUME Line, Pressed, presses' = presses, NEW A \in 1 .. 4, NEW N \in Nat, NEW D \in [1 .. 4 -> {0, 1}],
         \A a \in 1 .. 4, i \in Nat, key \in Nat \ {0} : At(a, i, key)' =>
            \/ At(a, i + D[a], key) /\ i > 0
            \/ a = A /\ i = N /\ A > 1 /\ At(A - 1, 1, key) /\ D[A - 1] = 1,
         \A i \in Nat, key \in Nat \ {0} : At(A, i, key)' => i <= N
  PROVE  Line' /\ Pressed'
<1>p. Pressed'
  <2> SUFFICES ASSUME NEW a \in 1 .. 4, NEW i \in Nat, NEW key \in Nat \ {0}, At(a, i, key)'
               PROVE  key <= presses
    BY DEF Pressed
  <2>1. CASE At(a, i + D[a], key)
    <3>1. i + D[a] \in Nat
      <4>1. D[a] \in {0, 1}
        OBVIOUS
      <4> QED BY <4>1
    <3> QED BY <2>1, <3>1 DEF Pressed
  <2>2. CASE A > 1 /\ At(A - 1, 1, key)
    <3>1. A - 1 \in 1 .. 4 /\ 1 \in Nat
      BY <2>2
    <3> QED BY <2>2, <3>1 DEF Pressed
  <2> QED BY <2>1, <2>2
<1> SUFFICES ASSUME NEW a \in 1 .. 4, NEW b \in 1 .. 4, NEW i \in Nat, NEW j \in Nat,
                    NEW key \in Nat \ {0}, NEW l \in Nat \ {0},
                    At(a, i, key)', At(b, j, l)', Before(a, i, b, j)
             PROVE  key < l
  BY <1>p DEF Line, Before
<1>0. \A c \in 1 .. 4 : D[c] \in {0, 1}
  OBVIOUS
<1>1. CASE At(a, i + D[a], key) /\ At(b, j + D[b], l) /\ i > 0 /\ j > 0
  <2>1. i + D[a] \in Nat /\ j + D[b] \in Nat
    BY <1>0
  <2>2. Before(a, i + D[a], b, j + D[b])
    <3>1. CASE a > b
      BY <3>1 DEF Before
    <3>2. CASE a = b
      <4>1. i < j
        BY <3>2 DEF Before
      <4> QED BY <1>0, <3>2, <4>1 DEF Before
    <3> QED BY <3>1, <3>2 DEF Before
  <2> QED BY <1>1, <2>1, <2>2 DEF Line
<1>2. CASE At(a, i + D[a], key) /\ i > 0 /\ b = A /\ j = N /\ A > 1 /\ At(A - 1, 1, l)
  <2>1. a \in 1 .. 4 /\ i + D[a] \in Nat /\ A - 1 \in 1 .. 4 /\ a > A - 1
    BY <1>0, <1>2 DEF Before
  <2>2. Before(a, i + D[a], A - 1, 1)
    BY <2>1 DEF Before
  <2> QED BY <1>2, <2>1, <2>2 DEF Line
<1>3. CASE a = A /\ i = N /\ A > 1 /\ At(A - 1, 1, key) /\ D[A - 1] = 1 /\ At(b, j + D[b], l) /\ j > 0
  <2>1. ~ (b = A /\ N < j)
    <3> SUFFICES ASSUME b = A PROVE j <= N
      BY SMT
    <3> QED OBVIOUS
  <2>2. b < A
    BY <1>3, <2>1 DEF Before
  <2>3. j + D[b] \in Nat /\ A - 1 \in 1 .. 4
    BY <1>0, <1>3
  <2>4. Before(A - 1, 1, b, j + D[b])
    <3>1. CASE b = A - 1
      <4>1. D[b] = 1
        BY <1>3, <3>1
      <4> QED BY <1>3, <3>1, <4>1 DEF Before
    <3>2. CASE b < A - 1
      BY <3>2 DEF Before
    <3> QED BY <2>2, <3>1, <3>2
  <2> QED BY <1>3, <2>3, <2>4 DEF Line
<1>4. CASE a = A /\ i = N /\ b = A /\ j = N
  BY <1>4 DEF Before
<1> QED BY <1>1, <1>2, <1>3, <1>4

\* Where a command of the queue stood before a message was served.
LEMMA ServedAt ==
  ASSUME TypeOK, NEW k, NEW ms \in Seq(Message), Serve(k, ms)
  PROVE  /\ Len(queue) \in Nat \ {0} /\ Head(queue) = queue[1] /\ queue[1].k = k
         /\ queue[1] \in Message
         /\ \A i \in Nat : \A key : At(1, i, key)' =>
              \/ i > 0 /\ At(1, i + 1, key)
              \/ \E j \in 1 .. Len(ms) : i = Len(queue) - 1 + j /\ ms[j].k = "set" /\ ms[j].cmd.key = key
         /\ \A i \in Nat : \A key : At(2, i, key)' =>
              \/ i > 0 /\ At(2, i + 1, key)
              \/ \E j \in 1 .. Len(ms) : i = Len(queue) - 1 + j /\ ms[j].k = "transmit" /\ ms[j].cmd.key = key
<1>0. queue \in Seq(Message) /\ queue # <<>> /\ queue' = Tail(queue) \o ms /\ Head(queue).k = k
  BY DEF TypeOK, Serve, Serving
<1>1. /\ Len(queue) \in Nat \ {0} /\ Len(ms) \in Nat
      /\ Head(queue) = queue[1] /\ Head(queue) \in Message
      /\ Len(queue') = Len(queue) - 1 + Len(ms)
      /\ \A i \in 1 .. Len(queue) - 1 : queue'[i] = queue[i + 1]
      /\ \A i \in 1 .. Len(ms) : queue'[Len(queue) - 1 + i] = ms[i]
  BY <1>0, Served
<1>2. ASSUME NEW i \in Nat, i \in 1 .. Len(queue')
      PROVE  \/ i > 0 /\ i + 1 \in 1 .. Len(queue) /\ queue'[i] = queue[i + 1]
             \/ \E j \in 1 .. Len(ms) : i = Len(queue) - 1 + j /\ queue'[i] = ms[j]
  <2>1. CASE i <= Len(queue) - 1
    BY <1>1, <1>2, <2>1
  <2>2. CASE i > Len(queue) - 1
    <3> DEFINE j == i - (Len(queue) - 1)
    <3>1. j \in 1 .. Len(ms) /\ i = Len(queue) - 1 + j
      BY <1>1, <1>2, <2>2
    <3> QED BY <1>1, <3>1
  <2> QED BY <1>1, <2>1, <2>2
<1>3. ASSUME NEW i \in Nat, NEW key, At(1, i, key)'
      PROVE  \/ i > 0 /\ At(1, i + 1, key)
             \/ \E j \in 1 .. Len(ms) : i = Len(queue) - 1 + j /\ ms[j].k = "set" /\ ms[j].cmd.key = key
  <2>1. i \in 1 .. Len(queue') /\ queue'[i].k = "set" /\ queue'[i].cmd.key = key
    BY <1>3 DEF At
  <2> QED BY <1>2, <2>1 DEF At
<1>4. ASSUME NEW i \in Nat, NEW key, At(2, i, key)'
      PROVE  \/ i > 0 /\ At(2, i + 1, key)
             \/ \E j \in 1 .. Len(ms) : i = Len(queue) - 1 + j /\ ms[j].k = "transmit" /\ ms[j].cmd.key = key
  <2>1. i \in 1 .. Len(queue') /\ queue'[i].k = "transmit" /\ queue'[i].cmd.key = key
    BY <1>4 DEF At
  <2> QED BY <1>2, <2>1 DEF At
<1> QED BY <1>0, <1>1, <1>3, <1>4

\* Commands behind the queue that an action leaves where they are.
LEMMA StayAt ==
  /\ UNCHANGED out => \A i, key : At(3, i, key)' <=> At(3, i, key)
  /\ UNCHANGED applied => \A i, key : At(4, i, key)' <=> At(4, i, key)
  /\ UNCHANGED queue => \A i, key : (At(1, i, key)' <=> At(1, i, key)) /\ (At(2, i, key)' <=> At(2, i, key))
  BY DEF At

\* Positions count from one.
LEMMA AtPositive ==
  ASSUME TypeOK, NEW a \in 1 .. 4, NEW i \in Nat, NEW key, At(a, i, key) \/ At(a, i, key)'
  PROVE  i > 0
  BY DEF At

\* The handlers of the worker keep the line.
LEMMA KeysWorker ==
  ASSUME TypeOK, TypeOK', KeysInv, Worker
  PROVE  KeysInv'
<1>1. UNCHANGED <<applied, lost, presses>>
  BY WorkerPasses
<1>2. PICK k, ms : ms \in Seq(Message) /\ Serve(k, ms) /\ Passes(k, ms)
  BY WorkerPasses
<1>3. KeysOnly'
  BY <1>1 DEF KeysInv, KeysOnly
<1> DEFINE D == [a \in 1 .. 4 |-> IF a <= 2 THEN 1 ELSE 0]
<1>4. D \in [1 .. 4 -> {0, 1}] /\ D[1] = 1 /\ D[2] = 1 /\ D[3] = 0 /\ D[4] = 0
  OBVIOUS
<1> HIDE DEF D
<1>5. /\ Len(queue) \in Nat \ {0} /\ Head(queue) = queue[1] /\ queue[1].k = k /\ queue[1] \in Message
      /\ \A i \in Nat : \A key : At(1, i, key)' =>
           \/ i > 0 /\ At(1, i + 1, key)
           \/ \E j \in 1 .. Len(ms) : i = Len(queue) - 1 + j /\ ms[j].k = "set" /\ ms[j].cmd.key = key
      /\ \A i \in Nat : \A key : At(2, i, key)' =>
           \/ i > 0 /\ At(2, i + 1, key)
           \/ \E j \in 1 .. Len(ms) : i = Len(queue) - 1 + j /\ ms[j].k = "transmit" /\ ms[j].cmd.key = key
  BY <1>2, ServedAt
<1>6. \A i, key : At(4, i, key)' <=> At(4, i, key)
  BY <1>1, StayAt
<1>7. Line /\ Pressed /\ presses' = presses
  BY <1>1 DEF KeysInv
<1>8. Len(out) \in Nat /\ Len(queue') \in Nat
  BY DEF TypeOK
<1>a. ASSUME k = "set", ms = <<[k |-> "transmit", cmd |-> Head(queue).cmd]>>, UNCHANGED out
      PROVE  Line' /\ Pressed'
  <2>1. Len(ms) = 1 /\ ms[1].k = "transmit" /\ ms[1].cmd = queue[1].cmd
    BY <1>5, <1>a
  <2>2. \A i \in Nat : \A key : At(1, i, key)' => i > 0 /\ At(1, i + 1, key)
    BY <1>5, <2>1
  <2>3. \A i \in Nat : \A key : At(2, i, key)' =>
           (i > 0 /\ At(2, i + 1, key)) \/ (i = Len(queue) /\ queue[1].cmd.key = key)
    BY <1>5, <2>1
  <2>4. \A key : queue[1].cmd.key = key => At(1, 1, key)
    BY <1>5, <1>a DEF At
  <2>5. \A i, key : At(3, i, key)' <=> At(3, i, key)
    BY <1>a, StayAt
  <2>6. \A a \in 1 .. 4, i \in Nat, key \in Nat \ {0} : At(a, i, key)' =>
            \/ At(a, i + D[a], key) /\ i > 0
            \/ a = 2 /\ i = Len(queue) /\ 2 > 1 /\ At(2 - 1, 1, key) /\ D[2 - 1] = 1
    <3> SUFFICES ASSUME NEW a \in 1 .. 4, NEW i \in Nat, NEW key \in Nat \ {0}, At(a, i, key)'
                 PROVE  \/ At(a, i + D[a], key) /\ i > 0
                        \/ a = 2 /\ i = Len(queue) /\ 2 > 1 /\ At(2 - 1, 1, key) /\ D[2 - 1] = 1
      OBVIOUS
    <3>1. i > 0 /\ i + 0 = i /\ 2 - 1 = 1
      BY AtPositive
    <3>2. CASE a = 1
      BY <1>4, <2>2, <3>1, <3>2
    <3>3. CASE a = 2
      BY <1>4, <2>3, <2>4, <3>1, <3>3
    <3>4. CASE a = 3 \/ a = 4
      BY <1>4, <1>6, <2>5, <3>1, <3>4
    <3> QED BY <3>2, <3>3, <3>4
  <2>7. \A i \in Nat, key \in Nat \ {0} : At(2, i, key)' => i <= Len(queue)
    <3>1. Len(queue') = Len(queue)
      <4>1. queue \in Seq(Message) /\ queue # <<>> /\ queue' = Tail(queue) \o ms
        BY <1>2 DEF TypeOK, Serve, Serving
      <4>2. Len(queue') = Len(queue) - 1 + Len(ms)
        BY <1>2, <4>1, Served
      <4> QED BY <1>5, <2>1, <4>2
    <3> QED BY <3>1 DEF At
  <2>8. 2 \in 1 .. 4 /\ Len(queue) \in Nat
    BY <1>5
  <2> QED BY <1>4, <1>7, <2>6, <2>7, <2>8, MoveOn
<1>b. ASSUME k = "transmit", ms = <<>>, out' = Append(out, Head(queue).cmd)
      PROVE  Line' /\ Pressed'
  <2>1. Len(ms) = 0
    BY <1>b
  <2>2. \A i \in Nat : \A key : (At(1, i, key)' => i > 0 /\ At(1, i + 1, key))
                         /\ (At(2, i, key)' => i > 0 /\ At(2, i + 1, key))
    BY <1>5, <2>1
  <2>3. /\ Len(out') = Len(out) + 1 /\ out'[Len(out) + 1] = queue[1].cmd
        /\ \A i \in 1 .. Len(out) : out'[i] = out[i]
    <3>1. out \in Seq(Command) /\ queue[1].cmd \in Command
      BY <1>5, <1>b, Carries DEF TypeOK
    <3> QED BY <1>5, <1>b, <3>1, Appended
  <2>4. \A key : queue[1].cmd.key = key => At(2, 1, key)
    BY <1>5, <1>b DEF At
  <2>5. \A i \in Nat : \A key : At(3, i, key)' => At(3, i, key) \/ (i = Len(out) + 1 /\ At(2, 1, key))
    <3> SUFFICES ASSUME NEW i \in Nat, NEW key, At(3, i, key)'
                 PROVE  At(3, i, key) \/ (i = Len(out) + 1 /\ At(2, 1, key))
      OBVIOUS
    <3>1. i \in 1 .. Len(out') /\ out'[i].key = key
      BY DEF At
    <3>2. CASE i \in 1 .. Len(out)
      BY <2>3, <3>1, <3>2 DEF At
    <3>3. CASE i = Len(out) + 1
      BY <2>3, <2>4, <3>1, <3>3
    <3> QED BY <1>8, <2>3, <3>1, <3>2, <3>3
  <2>6. \A a \in 1 .. 4, i \in Nat, key \in Nat \ {0} : At(a, i, key)' =>
            \/ At(a, i + D[a], key) /\ i > 0
            \/ a = 3 /\ i = Len(out) + 1 /\ 3 > 1 /\ At(3 - 1, 1, key) /\ D[3 - 1] = 1
    <3> SUFFICES ASSUME NEW a \in 1 .. 4, NEW i \in Nat, NEW key \in Nat \ {0}, At(a, i, key)'
                 PROVE  \/ At(a, i + D[a], key) /\ i > 0
                        \/ a = 3 /\ i = Len(out) + 1 /\ 3 > 1 /\ At(3 - 1, 1, key) /\ D[3 - 1] = 1
      OBVIOUS
    <3>1. i > 0 /\ i + 0 = i /\ 3 - 1 = 2
      BY AtPositive
    <3>2. CASE a = 1 \/ a = 2
      BY <1>4, <2>2, <3>1, <3>2
    <3>3. CASE a = 3
      BY <1>4, <2>5, <3>1, <3>3
    <3>4. CASE a = 4
      BY <1>4, <1>6, <3>1, <3>4
    <3> QED BY <3>2, <3>3, <3>4
  <2>7. \A i \in Nat, key \in Nat \ {0} : At(3, i, key)' => i <= Len(out) + 1
    BY <1>8, <2>3 DEF At
  <2>8. 3 \in 1 .. 4 /\ Len(out) + 1 \in Nat
    BY <1>8
  <2> QED BY <1>4, <1>7, <2>6, <2>7, <2>8, MoveOn
<1>c. ASSUME NoKeys(ms) \/ ms = <<[k |-> "error", cmd |-> Head(queue).cmd]>>, UNCHANGED out
      PROVE  Line' /\ Pressed'
  <2>1. \A j \in 1 .. Len(ms) : ms[j].k \notin {"set", "transmit"} \/ (ms[j].k # "set" /\ ms[j].cmd.key = 0)
    BY <1>c DEF NoKeys
  <2>2. \A i \in Nat, key \in Nat \ {0} : (At(1, i, key)' => i > 0 /\ At(1, i + 1, key))
                         /\ (At(2, i, key)' => i > 0 /\ At(2, i + 1, key))
    BY <1>5, <2>1
  <2>3. \A i, key : At(3, i, key)' <=> At(3, i, key)
    BY <1>c, StayAt
  <2>4. \A a \in 1 .. 4, i \in Nat, key \in Nat \ {0} : At(a, i, key)' => At(a, i + D[a], key) /\ i > 0
    <3> SUFFICES ASSUME NEW a \in 1 .. 4, NEW i \in Nat, NEW key \in Nat \ {0}, At(a, i, key)'
                 PROVE  At(a, i + D[a], key) /\ i > 0
      OBVIOUS
    <3>1. i > 0 /\ i + 0 = i
      BY AtPositive
    <3>2. CASE a = 1 \/ a = 2
      BY <1>4, <2>2, <3>1, <3>2
    <3>3. CASE a = 3 \/ a = 4
      BY <1>4, <1>6, <2>3, <3>1, <3>3
    <3> QED BY <3>2, <3>3
  <2>5. \A i \in Nat, key \in Nat \ {0} : At(1, i, key)' => i <= Len(queue')
    BY <1>8 DEF At
  <2>6. 1 \in 1 .. 4
    OBVIOUS
  <2> QED BY <1>4, <1>7, <1>8, <2>4, <2>5, <2>6, MoveOn
<1>9. Line' /\ Pressed'
  <2>1. NoKeys(<<>>)
    BY DEF NoKeys
  <2> QED BY <1>2, <1>a, <1>b, <1>c, <2>1 DEF Passes
<1> QED BY <1>3, <1>9 DEF KeysInv

\* A message without a command at the end of the queue, or none, leaves every
\* command where it stands.
LEMMA PostedAt ==
  ASSUME TypeOK, NEW m \in Message,
         queue' = queue \/ (queue' = Append(queue, m) /\ m.k \notin {"set", "transmit", "error"})
  PROVE  /\ \A i \in Nat : \A key : At(1, i, key)' => At(1, i, key)
         /\ \A i \in Nat : \A key : At(2, i, key)' => At(2, i, key)
         /\ \A i \in 1 .. Len(queue) : i \in 1 .. Len(queue') /\ queue'[i] = queue[i]
<1>0. queue \in Seq(Message) /\ Len(queue) \in Nat
  BY DEF TypeOK
<1>1. CASE queue' = queue
  BY <1>0, <1>1 DEF At
<1>2. CASE queue' = Append(queue, m) /\ m.k \notin {"set", "transmit", "error"}
  <2>1. /\ Len(queue') = Len(queue) + 1 /\ queue'[Len(queue) + 1] = m
        /\ \A i \in 1 .. Len(queue) : queue'[i] = queue[i]
    BY <1>0, <1>2, Appended
  <2>2. ASSUME NEW i \in Nat, i \in 1 .. Len(queue'), queue'[i].k \in {"set", "transmit", "error"}
        PROVE  i \in 1 .. Len(queue) /\ queue'[i] = queue[i]
    <3>1. i # Len(queue) + 1
      BY <1>2, <2>1, <2>2
    <3> QED BY <1>0, <2>1, <2>2, <3>1
  <2>3. \A i \in Nat : \A key : At(1, i, key)' => At(1, i, key)
    BY <2>2 DEF At
  <2>4. \A i \in Nat : \A key : At(2, i, key)' => At(2, i, key)
    BY <2>2 DEF At
  <2> QED BY <1>0, <2>1, <2>3, <2>4
<1> QED BY <1>1, <1>2

\* Fewer commands, in the same places, are in order if they were.
LEMMA KeysFewer ==
  ASSUME KeysInv, UNCHANGED <<applied, presses>>,
         \A a \in 1 .. 3, i \in Nat, key \in Nat \ {0} : At(a, i, key)' => At(a, i, key)
  PROVE  KeysInv'
<1>1. \A a \in 1 .. 4, i \in Nat, key \in Nat \ {0} : At(a, i, key)' => At(a, i, key)
  <2>1. \A a \in 1 .. 4 : a \in 1 .. 3 \/ a = 4
    OBVIOUS
  <2> QED BY <2>1, StayAt
<1>2. Line'
  BY <1>1 DEF KeysInv, Line, Before
<1>3. Pressed'
  BY <1>1 DEF KeysInv, Pressed
<1> QED BY <1>2, <1>3 DEF KeysInv, KeysOnly

\* A new key is larger than those before it and stands behind all of them.
LEMMA KeysPress ==
  ASSUME TypeOK, TypeOK', KeysInv, NEW n \in Pins, Press(n)
  PROVE  KeysInv'
<1>1. PICK s \in Changed(panel[n]) :
        queue' = Append(queue, [k |-> "set", cmd |-> [n |-> n, st |-> s, key |-> presses + 1]])
  BY DEF Press
<1> DEFINE m == [k |-> "set", cmd |-> [n |-> n, st |-> s, key |-> presses + 1]]
<1>2. m \in Message
  <2>1. s \in GpioState /\ presses + 1 \in Nat \ {0}
    BY ChangedOne DEF TypeOK
  <2>2. [n |-> n, st |-> s, key |-> presses + 1] \in Command
    BY <2>1 DEF Command
  <2> QED BY <2>2, Posts
<1>3. m.k = "set" /\ m.cmd.key = presses + 1
  OBVIOUS
<1>4. queue' = Append(queue, m)
  BY <1>1
<1> HIDE DEF m
<1>5. UNCHANGED <<out, applied>> /\ presses' = presses + 1 /\ presses \in Nat
      /\ queue \in Seq(Message) /\ Len(queue) \in Nat
  BY DEF Press, usbVars, historyVars, TypeOK
<1>6. /\ Len(queue') = Len(queue) + 1 /\ queue'[Len(queue) + 1] = m
      /\ \A i \in 1 .. Len(queue) : queue'[i] = queue[i]
  BY <1>2, <1>4, <1>5, Appended
<1>7. \A i \in Nat : \A key : At(1, i, key)' => At(1, i, key) \/ (i = Len(queue) + 1 /\ key = presses + 1)
  <2> SUFFICES ASSUME NEW i \in Nat, NEW key, At(1, i, key)', i # Len(queue) + 1
               PROVE  At(1, i, key)
    BY <1>3, <1>6 DEF At
  <2>1. i \in 1 .. Len(queue)
    BY <1>5, <1>6 DEF At
  <2> QED BY <1>6, <2>1 DEF At
<1>8. \A i \in Nat : \A key : At(2, i, key)' => At(2, i, key)
  <2> SUFFICES ASSUME NEW i \in Nat, NEW key, At(2, i, key)' PROVE At(2, i, key)
    OBVIOUS
  <2>0. i \in 1 .. Len(queue') /\ queue'[i].k = "transmit" /\ queue'[i].cmd.key = key
    BY DEF At
  <2>1. i # Len(queue) + 1
    BY <1>3, <1>6, <2>0
  <2>2. i \in 1 .. Len(queue)
    BY <1>5, <1>6, <2>0, <2>1
  <2> QED BY <1>6, <2>0, <2>2 DEF At
<1>9. \A a \in 1 .. 4, i \in Nat : \A key : At(a, i, key)' =>
        At(a, i, key) \/ (a = 1 /\ i = Len(queue) + 1 /\ key = presses + 1)
  <2>1. \A a \in 1 .. 4 : a = 1 \/ a = 2 \/ a = 3 \/ a = 4
    OBVIOUS
  <2> QED BY <1>5, <1>7, <1>8, <2>1, StayAt
<1>10. Pressed'
  BY <1>5, <1>9 DEF KeysInv, Pressed
<1>11. Line'
  <2> SUFFICES ASSUME NEW a \in 1 .. 4, NEW b \in 1 .. 4, NEW i \in Nat, NEW j \in Nat,
                      NEW key \in Nat \ {0}, NEW l \in Nat \ {0},
                      At(a, i, key)', At(b, j, l)', Before(a, i, b, j)
               PROVE  key < l
    BY DEF Line, Before
  <2>1. CASE At(a, i, key) /\ At(b, j, l)
    BY <2>1 DEF KeysInv, Line
  <2>2. CASE At(a, i, key) /\ l = presses + 1
    <3>1. key <= presses
      BY <2>2 DEF KeysInv, Pressed
    <3> QED BY <1>5, <2>2, <3>1
  <2>3. CASE a = 1 /\ i = Len(queue) + 1
    <3>1. b = 1 /\ i < j
      BY <2>3 DEF Before
    <3>2. j \in 1 .. Len(queue')
      BY <3>1 DEF At
    <3> QED BY <1>5, <1>6, <2>3, <3>1, <3>2
  <2> QED BY <1>9, <2>1, <2>2, <2>3
<1> QED BY <1>5, <1>10, <1>11 DEF KeysInv, KeysOnly

\* The oldest transmission goes on to what the board obeyed, or is gone.
LEMMA KeysTransmitEnds ==
  ASSUME TypeOK, TypeOK', KeysInv, TransmitEnds
  PROVE  KeysInv'
<1> DEFINE c == Head(out)
           D == [a \in 1 .. 4 |-> IF a = 3 THEN 1 ELSE 0]
<1>1. UNCHANGED <<queue, presses>> /\ out' = Tail(out) /\ out # <<>> /\ out \in Seq(Command)
  BY DEF TransmitEnds, procVars, TypeOK
<1>2. /\ Len(out) \in Nat \ {0} /\ c = out[1] /\ c \in Command
      /\ Len(out') = Len(out) - 1 /\ \A i \in 1 .. Len(out) - 1 : out'[i] = out[i + 1]
  BY <1>1
<1>3. D \in [1 .. 4 -> {0, 1}] /\ D[1] = 0 /\ D[2] = 0 /\ D[3] = 1 /\ D[4] = 0
  OBVIOUS
<1>4. applied' = applied \/ (c # GetAll /\ applied' = Append(applied, c.key))
  BY DEF TransmitEnds
<1> HIDE DEF c, D
<1>5. applied \in Seq(Nat) /\ Len(applied) \in Nat /\ c.key \in Nat /\ (c # GetAll => c.key # 0)
  BY <1>2, Fields DEF TypeOK
<1>6. \A i \in Nat : \A key : At(3, i, key)' => i > 0 /\ At(3, i + 1, key)
  <2> SUFFICES ASSUME NEW i \in Nat, NEW key, At(3, i, key)' PROVE i > 0 /\ At(3, i + 1, key)
    OBVIOUS
  <2>1. i \in 1 .. Len(out) - 1 /\ out'[i].key = key
    BY <1>2 DEF At
  <2>2. i > 0 /\ i + 1 \in 1 .. Len(out) /\ out'[i] = out[i + 1]
    BY <1>2, <2>1
  <2> QED BY <2>1, <2>2 DEF At
<1>7. \A i \in Nat : \A key : At(4, i, key)' => At(4, i, key) \/ (i = Len(applied) + 1 /\ At(3, 1, key))
  <2>1. CASE applied' = applied
    BY <2>1, StayAt
  <2>2. CASE applied' = Append(applied, c.key)
    <3>1. /\ Len(applied') = Len(applied) + 1 /\ applied'[Len(applied) + 1] = c.key
          /\ \A i \in 1 .. Len(applied) : applied'[i] = applied[i]
      BY <1>5, <2>2, Appended
    <3> SUFFICES ASSUME NEW i \in Nat, NEW key, At(4, i, key)'
                 PROVE  At(4, i, key) \/ (i = Len(applied) + 1 /\ At(3, 1, key))
      OBVIOUS
    <3>2. i \in 1 .. Len(applied') /\ applied'[i] = key
      BY DEF At
    <3>3. CASE i \in 1 .. Len(applied)
      BY <3>1, <3>2, <3>3 DEF At
    <3>4. CASE i = Len(applied) + 1
      <4>1. 1 \in 1 .. Len(out) /\ out[1].key = key
        BY <1>2, <3>1, <3>2, <3>4
      <4> QED BY <3>4, <4>1 DEF At
    <3> QED BY <1>5, <3>1, <3>2, <3>3, <3>4
  <2> QED BY <1>4, <2>1, <2>2
<1>8. KeysOnly'
  <2>1. CASE applied' = applied
    BY <2>1 DEF KeysInv, KeysOnly
  <2>2. CASE c # GetAll /\ applied' = Append(applied, c.key)
    <3>1. c.key \in Nat \ {0}
      BY <1>5, <2>2
    <3>2. /\ Len(applied') = Len(applied) + 1 /\ applied'[Len(applied) + 1] = c.key
          /\ \A i \in 1 .. Len(applied) : applied'[i] = applied[i]
      BY <1>5, <2>2, Appended
    <3> SUFFICES ASSUME NEW i \in 1 .. Len(applied') PROVE applied'[i] \in Nat \ {0}
      BY DEF KeysOnly
    <3>3. i \in 1 .. Len(applied) \/ i = Len(applied) + 1
      BY <1>5, <3>2
    <3> QED BY <3>1, <3>2, <3>3 DEF KeysInv, KeysOnly
  <2> QED BY <1>4, <2>1, <2>2
<1>9. \A a \in 1 .. 4, i \in Nat, key \in Nat \ {0} : At(a, i, key)' =>
          \/ At(a, i + D[a], key) /\ i > 0
          \/ a = 4 /\ i = Len(applied) + 1 /\ 4 > 1 /\ At(4 - 1, 1, key) /\ D[4 - 1] = 1
  <2> SUFFICES ASSUME NEW a \in 1 .. 4, NEW i \in Nat, NEW key \in Nat \ {0}, At(a, i, key)'
               PROVE  \/ At(a, i + D[a], key) /\ i > 0
                      \/ a = 4 /\ i = Len(applied) + 1 /\ 4 > 1 /\ At(4 - 1, 1, key) /\ D[4 - 1] = 1
    OBVIOUS
  <2>1. i > 0 /\ i + 0 = i /\ 4 - 1 = 3
    BY AtPositive
  <2>2. CASE a = 1 \/ a = 2
    BY <1>1, <1>3, <2>1, <2>2, StayAt
  <2>3. CASE a = 3
    BY <1>3, <1>6, <2>1, <2>3
  <2>4. CASE a = 4
    BY <1>3, <1>7, <2>1, <2>4
  <2> QED BY <2>2, <2>3, <2>4
<1>10. \A i \in Nat, key \in Nat \ {0} : At(4, i, key)' => i <= Len(applied) + 1
  <2>1. Len(applied') <= Len(applied) + 1 /\ Len(applied') \in Nat
    BY <1>4, <1>5
  <2> QED BY <1>5, <2>1 DEF At
<1>11. 4 \in 1 .. 4 /\ Len(applied) + 1 \in Nat
  BY <1>5
<1>12. Line' /\ Pressed'
  BY <1>1, <1>3, <1>9, <1>10, <1>11, MoveOn DEF KeysInv
<1> QED BY <1>8, <1>12 DEF KeysInv

\* The order of the keys, with where each of them stands, is inductive.
LEMMA KeysStep == TypeOK /\ TypeOK' /\ KeysInv /\ [Next]_vars => KeysInv'
<1> SUFFICES ASSUME TypeOK, TypeOK', KeysInv, [Next]_vars PROVE KeysInv'
  OBVIOUS
<1>1. CASE Plug \/ RecieveEnds
  <2>1. UNCHANGED <<applied, presses, out>>
    BY <1>1 DEF Plug, RecieveEnds
  <2>2. \E m \in Message : \/ queue' = queue
                           \/ queue' = Append(queue, m) /\ m.k \notin {"set", "transmit", "error"}
    <3>1. CASE Plug
      <4>1. [k |-> "connected"] \in Message
        BY Posts
      <4> QED BY <3>1, <4>1 DEF Plug
    <3>2. CASE RecieveEnds
      <4>1. queue' = queue \/ \E p \in Packet : queue' = Append(queue, [k |-> "packet", p |-> p])
        BY <3>2, Receives
      <4>2. \A p \in Packet : [k |-> "packet", p |-> p] \in Message
        BY Posts
      <4>3. [k |-> "connected"] \in Message
        BY Posts
      <4> QED BY <4>1, <4>2, <4>3
    <3> QED BY <1>1, <3>1, <3>2
  <2>3. \A a \in 1 .. 3, i \in Nat, key \in Nat \ {0} : At(a, i, key)' => At(a, i, key)
    <3>1. \A a \in 1 .. 3 : a = 1 \/ a = 2 \/ a = 3
      OBVIOUS
    <3>2. /\ \A i \in Nat : \A key : At(1, i, key)' => At(1, i, key)
          /\ \A i \in Nat : \A key : At(2, i, key)' => At(2, i, key)
      BY <2>2, PostedAt
    <3> QED BY <2>1, <3>1, <3>2, StayAt
  <2> QED BY <2>1, <2>3, KeysFewer
<1>2. CASE Unplug
  <2>1. UNCHANGED <<queue, applied, presses>> /\ out' = <<>>
    BY <1>2 DEF Unplug, procVars
  <2>2. \A a \in 1 .. 3, i \in Nat, key \in Nat \ {0} : At(a, i, key)' => At(a, i, key)
    <3>1. \A a \in 1 .. 3 : a = 1 \/ a = 2 \/ a = 3
      OBVIOUS
    <3>2. \A i \in Nat : \A key : ~At(3, i, key)'
      <4>1. Len(out') = 0
        BY <2>1
      <4> QED BY <4>1 DEF At
    <3> QED BY <2>1, <3>1, <3>2, StayAt
  <2> QED BY <2>1, <2>2, KeysFewer
<1>3. CASE Register \/ Board \/ UNCHANGED vars
  <2>1. UNCHANGED <<queue, out, applied, presses>>
    BY <1>3 DEF Register, Board, BoardAnswers, BoardReports, procVars, historyVars, vars, usbVars
  <2>2. \A a \in 1 .. 3, i \in Nat, key \in Nat \ {0} : At(a, i, key)' => At(a, i, key)
    <3>1. \A a \in 1 .. 3 : a = 1 \/ a = 2 \/ a = 3
      OBVIOUS
    <3> QED BY <2>1, <3>1, StayAt
  <2> QED BY <2>1, <2>2, KeysFewer
<1> QED BY <1>1, <1>2, <1>3, KeysWorker, KeysPress, KeysTransmitEnds DEF Next, Usb

\* The board obeys keys in the order they were pressed and none twice, whatever
\* is refused, lost or swept away by an unplug in between.
THEOREM KeysObeyedInOrder == Spec => []KeysInOrder
<1>1. Init => KeysInv
  <2> SUFFICES ASSUME Init PROVE KeysInv
    OBVIOUS
  <2>1. Len(queue) = 0 /\ Len(out) = 0 /\ Len(applied) = 0
    BY DEF Init
  <2>2. \A a, i, key : ~At(a, i, key)
    BY <2>1 DEF At
  <2>3. Line
    BY <2>2, Zenon DEF Line
  <2>4. Pressed
    BY <2>2, Zenon DEF Pressed
  <2>5. KeysOnly
    BY <2>1 DEF KeysOnly
  <2> QED BY <2>3, <2>4, <2>5 DEF KeysInv
<1>2. TypeOK /\ KeysInv => KeysInOrder
  <2> SUFFICES ASSUME TypeOK, KeysInv, NEW i \in 1 .. Len(applied), NEW j \in 1 .. Len(applied), i < j
               PROVE  applied[i] < applied[j]
    BY DEF KeysInOrder
  <2>1. At(4, i, applied[i]) /\ At(4, j, applied[j]) /\ Before(4, i, 4, j)
    BY DEF At, Before
  <2>2. applied[i] \in Nat \ {0} /\ applied[j] \in Nat \ {0} /\ i \in Nat /\ j \in Nat /\ 4 \in 1 .. 4
    BY DEF KeysInv, KeysOnly
  <2> QED BY <2>1, <2>2 DEF KeysInv, Line
<1> QED BY <1>1, <1>2, KeysStep, Typing, PTL DEF Spec

\* A key is accounted for exactly when it is somewhere.
LEMMA AccountedIsHere == Accounted <=> \A key \in 1 .. presses : Here(key)
<1> SUFFICES ASSUME NEW key
             PROVE  Here(key) <=>
                      \/ \E c \in Carried : c.key = key
                      \/ key \in lost \union logged
                      \/ \E i \in 1 .. Len(applied) : applied[i] = key
                      \/ \E i \in 1 .. Len(queue) : queue[i].k = "error" /\ queue[i].cmd.key = key
  BY Zenon DEF Accounted
<1>1. (\E c \in Carried : c.key = key) <=>
        \/ \E i \in 1 .. Len(queue) : queue[i].k \in {"set", "transmit"} /\ queue[i].cmd.key = key
        \/ \E i \in 1 .. Len(out) : out[i].key = key
  BY DEF Carried
<1> QED BY <1>1 DEF Here

\* The key of the message that the worker serves, if it has one.
Served0(key) == queue[1].k \in {"set", "transmit", "error"} /\ queue[1].cmd.key = key

\* A message that is not served yet moves up; one that is posted follows.
LEMMA HereServed ==
  ASSUME TypeOK, NEW k, NEW ms \in Seq(Message), Serve(k, ms), UNCHANGED <<applied, lost>>,
         \A i \in 1 .. Len(out) : i \in 1 .. Len(out') /\ out'[i] = out[i], logged \subseteq logged',
         NEW key, Here(key), ~Served0(key)
  PROVE  Here(key)'
<1>0. queue \in Seq(Message) /\ queue # <<>> /\ queue' = Tail(queue) \o ms
  BY DEF TypeOK, Serve, Serving
<1>1. /\ Len(queue) \in Nat \ {0} /\ Len(ms) \in Nat
      /\ Len(queue') = Len(queue) - 1 + Len(ms)
      /\ \A i \in 1 .. Len(queue) - 1 : queue'[i] = queue[i + 1]
  BY <1>0, Served
<1>2. CASE \E i \in 1 .. Len(queue) : queue[i].k \in {"set", "transmit", "error"} /\ queue[i].cmd.key = key
  <2>1. PICK i \in 1 .. Len(queue) : queue[i].k \in {"set", "transmit", "error"} /\ queue[i].cmd.key = key
    BY <1>2
  <2>2. i # 1
    BY <2>1 DEF Served0
  <2>3. i - 1 \in 1 .. Len(queue) - 1 /\ (i - 1) + 1 = i /\ i - 1 \in 1 .. Len(queue')
    BY <1>1, <2>1, <2>2
  <2>4. queue'[i - 1] = queue[i]
    BY <1>1, <2>3
  <2> QED BY <2>1, <2>3, <2>4 DEF Here
<1>3. CASE \E i \in 1 .. Len(out) : out[i].key = key
  BY <1>3 DEF Here
<1>4. CASE key \in lost \union logged \/ \E i \in 1 .. Len(applied) : applied[i] = key
  BY <1>4 DEF Here
<1> QED BY <1>2, <1>3, <1>4 DEF Here

\* The worker loses sight of no key.
LEMMA HereWorker ==
  ASSUME TypeOK, Worker, NEW key \in Nat \ {0}, Here(key)
  PROVE  Here(key)'
<1>1. UNCHANGED <<applied, lost, presses>>
  BY WorkerPasses
<1>2. PICK k, ms : ms \in Seq(Message) /\ Serve(k, ms) /\ Passes(k, ms)
  BY WorkerPasses
<1>3. queue \in Seq(Message) /\ queue # <<>> /\ queue' = Tail(queue) \o ms /\ Head(queue).k = k
  BY <1>2 DEF TypeOK, Serve, Serving
<1>4. /\ Len(queue) \in Nat \ {0} /\ Len(ms) \in Nat /\ Head(queue) = queue[1] /\ queue[1] \in Message
      /\ Len(queue') = Len(queue) - 1 + Len(ms)
      /\ \A i \in 1 .. Len(ms) : queue'[Len(queue) - 1 + i] = ms[i]
  BY <1>2, <1>3, Served
<1>5. out \in Seq(Command) /\ Len(out) \in Nat
  BY DEF TypeOK
<1>6. ASSUME Served0(key) PROVE Here(key)'
  <2>1. queue[1].k \in {"set", "transmit", "error"} /\ queue[1].cmd.key = key /\ queue[1].cmd \in Command
        /\ k = queue[1].k
    BY <1>3, <1>4, <1>6, Carries DEF Served0
  <2>2. ASSUME NEW kk \in {"transmit", "error"}, ms = <<[k |-> kk, cmd |-> Head(queue).cmd]>>
        PROVE  Here(key)'
    <3>1. Len(ms) = 1 /\ ms[1].k = kk /\ ms[1].cmd.key = key
      BY <1>4, <2>1, <2>2
    <3>2. Len(queue) \in 1 .. Len(queue') /\ queue'[Len(queue)] = ms[1]
      BY <1>4, <3>1
    <3> QED BY <3>1, <3>2 DEF Here
  <2>3. ASSUME out' = Append(out, Head(queue).cmd) PROVE Here(key)'
    <3>1. Len(out') = Len(out) + 1 /\ out'[Len(out) + 1] = queue[1].cmd
      BY <1>4, <1>5, <2>1, <2>3, Appended
    <3>2. Len(out) + 1 \in 1 .. Len(out')
      BY <1>5, <3>1
    <3> QED BY <2>1, <3>1, <3>2 DEF Here
  <2>4. ASSUME logged' = logged \union Keys(<<Head(queue).cmd>>) PROVE Here(key)'
    <3>1. key \in Keys(<<Head(queue).cmd>>)
      BY <1>4, <2>1 DEF Keys
    <3> QED BY <2>4, <3>1 DEF Here
  <2> QED BY <1>2, <2>1, <2>2, <2>3, <2>4 DEF Passes
<1>7. ASSUME ~Served0(key) PROVE Here(key)'
  <2>1. \A i \in 1 .. Len(out) : i \in 1 .. Len(out') /\ out'[i] = out[i]
    <3>1. CASE out' = out
      BY <3>1
    <3>2. CASE k = "transmit" /\ out' = Append(out, Head(queue).cmd)
      <4>1. Head(queue).cmd \in Command
        BY <1>3, <1>4, <3>2, Carries
      <4> QED BY <1>5, <3>2, <4>1, Appended
    <3> QED BY <1>2, <3>1, <3>2 DEF Passes
  <2>2. logged \subseteq logged'
    BY <1>2 DEF Passes
  <2> QED BY <1>1, <1>2, <1>7, <2>1, <2>2, HereServed
<1> QED BY <1>6, <1>7

\* The bus and the board lose sight of no key, and a new key is posted.
LEMMA HereOutside ==
  ASSUME TypeOK, NEW key \in Nat \ {0}, Here(key),
         Register \/ Plug \/ Unplug \/ Usb \/ Board \/ UNCHANGED vars \/ \E n \in Pins : Press(n)
  PROVE  Here(key)'
<1>0. /\ queue \in Seq(Message) /\ Len(queue) \in Nat /\ out \in Seq(Command) /\ Len(out) \in Nat
      /\ applied \in Seq(Nat) /\ Len(applied) \in Nat
  BY DEF TypeOK
<1>a. ASSUME NEW S, NEW q \in Seq(S), NEW m, NEW i \in 1 .. Len(q)
      PROVE  i \in 1 .. Len(Append(q, m)) /\ Append(q, m)[i] = q[i]
  OBVIOUS
<1>1. ASSUME queue' = queue \/ (\E m : queue' = Append(queue, m)), UNCHANGED <<out, lost, applied, logged>>
      PROVE  Here(key)'
  <2>1. \A i \in 1 .. Len(queue) : i \in 1 .. Len(queue') /\ queue'[i] = queue[i]
    BY <1>0, <1>1, <1>a
  <2> QED BY <1>1, <2>1 DEF Here
<1>2. CASE Plug
  <2>1. UNCHANGED <<out, lost, applied, logged>> /\ queue' = Append(queue, [k |-> "connected"])
    BY <1>2 DEF Plug
  <2> QED BY <1>1, <2>1
<1>3. CASE RecieveEnds
  <2>1. queue' = queue \/ \E m : queue' = Append(queue, m)
    BY <1>3, Receives
  <2>2. UNCHANGED <<out, lost, applied, logged>>
    BY <1>3 DEF RecieveEnds
  <2> QED BY <1>1, <2>1, <2>2
<1>4. CASE Register \/ Board \/ UNCHANGED vars
  <2>1. UNCHANGED <<queue, out, lost, applied, logged>>
    BY <1>4 DEF Register, Board, BoardAnswers, BoardReports, procVars, historyVars, vars, usbVars
  <2> QED BY <1>1, <2>1
<1>5. ASSUME NEW n \in Pins, Press(n) PROVE Here(key)'
  <2>1. UNCHANGED <<out, lost, applied, logged>>
    BY <1>5 DEF Press, usbVars, historyVars
  <2>2. \E m : queue' = Append(queue, m)
    BY <1>5 DEF Press
  <2> QED BY <1>1, <2>1, <2>2
<1>6. CASE Unplug
  <2>1. UNCHANGED <<queue, applied, logged>> /\ lost' = lost \union Keys(out)
    BY <1>6 DEF Unplug, procVars
  <2>2. \A i \in 1 .. Len(out) : out[i].key = key => key \in lost'
    BY <2>1 DEF Keys
  <2> QED BY <2>1, <2>2 DEF Here
<1>7. CASE TransmitEnds
  <2> DEFINE c == Head(out)
  <2>1. UNCHANGED <<queue, logged>> /\ out # <<>> /\ out' = Tail(out)
    BY <1>7 DEF TransmitEnds, procVars
  <2>2. \/ c = GetAll /\ UNCHANGED <<applied, lost>>
        \/ applied' = Append(applied, c.key) /\ UNCHANGED lost
        \/ lost' = lost \union Keys(<<c>>) /\ UNCHANGED applied
    BY <1>7 DEF TransmitEnds
  <2>3. Len(out) \in Nat \ {0} /\ c = out[1] /\ c \in Command
        /\ Len(out') = Len(out) - 1 /\ \A i \in 1 .. Len(out) - 1 : out'[i] = out[i + 1]
    BY <1>0, <2>1
  <2> HIDE DEF c
  <2>4. c.key \in Nat /\ (c = GetAll => c.key = 0) /\ Keys(<<c>>) = {c.key} \ {0}
    BY <2>3, Fields DEF Keys, GetAll
  <2>5. lost \subseteq lost'
    BY <2>2
  <2>6. \A i \in 1 .. Len(applied) : i \in 1 .. Len(applied') /\ applied'[i] = applied[i]
    BY <1>0, <1>a, <2>2
  <2>7. CASE c.key = key
    <3>1. CASE applied' = Append(applied, c.key)
      <4>1. Len(applied') = Len(applied) + 1 /\ applied'[Len(applied) + 1] = key
        BY <1>0, <2>7, <3>1
      <4>2. Len(applied) + 1 \in 1 .. Len(applied')
        BY <1>0, <4>1
      <4> QED BY <4>1, <4>2 DEF Here
    <3>2. CASE lost' = lost \union Keys(<<c>>)
      BY <2>4, <2>7, <3>2 DEF Here
    <3> QED BY <2>2, <2>4, <2>7, <3>1, <3>2
  <2>8. CASE \E i \in 1 .. Len(out) : out[i].key = key
    <3>1. PICK i \in 1 .. Len(out) : out[i].key = key
      BY <2>8
    <3>2. CASE i # 1
      <4>1. i - 1 \in 1 .. Len(out') /\ (i - 1) + 1 = i
        BY <2>3, <3>1, <3>2
      <4>2. out'[i - 1] = out[i]
        BY <2>3, <4>1
      <4> QED BY <3>1, <4>1, <4>2 DEF Here
    <3> QED BY <2>3, <2>7, <3>1, <3>2
  <2>9. CASE ~ \E i \in 1 .. Len(out) : out[i].key = key
    BY <2>1, <2>5, <2>6, <2>9 DEF Here
  <2> QED BY <2>8, <2>9
<1> QED BY <1>2, <1>3, <1>4, <1>5, <1>6, <1>7 DEF Usb

\* A new key is in the queue.
LEMMA HerePressed ==
  ASSUME TypeOK, NEW n \in Pins, Press(n), NEW key, key = presses + 1
  PROVE  Here(key)'
<1>1. PICK s \in Changed(panel[n]) :
        queue' = Append(queue, [k |-> "set", cmd |-> [n |-> n, st |-> s, key |-> key]])
  BY DEF Press
<1> DEFINE m == [k |-> "set", cmd |-> [n |-> n, st |-> s, key |-> key]]
<1>2. m.k = "set" /\ m.cmd.key = key /\ queue' = Append(queue, m)
  BY <1>1
<1> HIDE DEF m
<1>3. queue \in Seq(Message) /\ Len(queue) \in Nat
  BY DEF TypeOK
<1>4. Len(queue) + 1 \in 1 .. Len(queue') /\ queue'[Len(queue) + 1] = m
  BY <1>2, <1>3
<1> QED BY <1>2, <1>4 DEF Here

\* No key vanishes inside the process: its command is on its way, was obeyed,
\* was lost in a transfer, or its refusal is shown or about to be shown.
THEOREM KeysAccounted == Spec => []Accounted
<1>1. Init => Accounted
  BY DEF Init, Accounted
<1>2. TypeOK /\ Accounted /\ [Next]_vars => Accounted'
  <2> SUFFICES ASSUME TypeOK, Accounted, [Next]_vars PROVE Accounted'
    OBVIOUS
  <2>1. \A key \in 1 .. presses : Here(key)
    BY AccountedIsHere
  <2>2. (Accounted <=> \A key \in 1 .. presses : Here(key))'
    BY AccountedIsHere, PTL
  <2>3. SUFFICES ASSUME NEW key \in 1 .. presses' PROVE Here(key)'
    BY <2>2
  <2>4. presses \in Nat /\ key \in Nat \ {0}
    BY DEF TypeOK
  <2>5. CASE key \in 1 .. presses
    <3>1. Here(key)
      BY <2>1, <2>5
    <3> QED BY <2>4, <3>1, HereWorker, HereOutside DEF Next
  <2>6. CASE key \notin 1 .. presses
    <3>1. presses' # presses
      BY <2>6
    <3>2. PICK n \in Pins : Press(n)
      BY <3>1, WorkerPasses
         DEF Next, Register, Plug, Unplug, Usb, TransmitEnds, RecieveEnds, Board, BoardAnswers, BoardReports,
             procVars, vars
    <3>3. presses' = presses + 1
      BY <3>2 DEF Press
    <3>4. key = presses + 1
      BY <2>3, <2>4, <2>6, <3>3
    <3> QED BY <3>2, <3>4, HerePressed
  <2> QED BY <2>5, <2>6
<1> QED BY <1>1, <1>2, Typing, PTL DEF Spec
=============================================================================
