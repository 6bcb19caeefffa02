----------------------------- MODULE Device_proofs -----------------------------
(***************************************************************************)
(* Proofs about the loops of device::Device over packets: how send_script  *)
(* cuts a script, how the packets come to the boards, and what a VARIABLES *)
(* packet can make parse_variables read.  Scripts and names have any       *)
(* length, packets any size, boards come and go any number of times.       *)
(***************************************************************************)
EXTENDS MCDevice, TLAPS

-----------------------------------------------------------------------------
(* send_script *)
Packet == [type : DataTypes, from : Nat, size : Nat]

\* A chunk begins where the last one ended, holds at least one byte and at most
\* DataSize, and does not pass the end of the script.
LEMMA ChunkFits ==
  ASSUME TypeOK, start < size
  PROVE  /\ ChunkEnd(start) \in start + 1 .. size
         /\ ChunkEnd(start) - start \in 1 .. DataSize
         /\ start = 0 => (size <= DataSize <=> ChunkEnd(start) = size)
  BY ScriptAssumption DEF TypeOK, ChunkEnd, Least

\* Its label says whether it is the first one, and whether it is the only one.
LEMMA ChunkLabel ==
  ASSUME TypeOK, start < size
  PROVE  LET t == ChunkType(start, ChunkEnd(start))
         IN  /\ t \in DataTypes \ {"SCRIPT_NAME"}
             /\ t \in {"SCRIPT_DATA_START", "SCRIPT_DATA_START_END"} <=> start = 0
             /\ t = "SCRIPT_DATA_START_END" <=> start = 0 /\ size <= DataSize
<1>0. start \in Nat /\ size \in Nat /\ DataSize \in Nat
      /\ ChunkEnd(start) - start \in Int /\ ChunkEnd(start) - start <= DataSize
  BY ChunkFits, ScriptAssumption DEF TypeOK
<1>1. CASE start = 0 /\ size > DataSize
  <2>1. ChunkType(start, ChunkEnd(start)) = "SCRIPT_DATA_START"
    BY <1>0, <1>1 DEF ChunkType
  <2> QED BY <1>0, <1>1, <2>1 DEF DataTypes
<1>2. CASE start = 0 /\ size <= DataSize
  <2>1. ChunkType(start, ChunkEnd(start)) = "SCRIPT_DATA_START_END"
    BY <1>0, <1>2 DEF ChunkType
  <2> QED BY <1>2, <2>1 DEF DataTypes
<1>3. CASE start # 0
  <2>1. ChunkType(start, ChunkEnd(start)) = "SCRIPT_DATA_END"
    BY <1>0, <1>3 DEF ChunkType
  <2> QED BY <1>3, <2>1 DEF DataTypes
<1> QED BY <1>0, <1>1, <1>2, <1>3

\* Every packet is a chunk until the name is sent, which comes last.
Ordered ==
  /\ named => start = size
  /\ ~named => Chunks = 1 .. Len(sent)
  /\ ~named => (start = 0 <=> sent = <<>>)

\* Chunks and the name are packets.
LEMMA TypingStep == TypeOK /\ [Next]_vars => TypeOK'
<1> SUFFICES ASSUME TypeOK, [Next]_vars PROVE TypeOK'
  OBVIOUS
<1>1. CASE SendChunk
  <2> DEFINE p == [type |-> ChunkType(start, ChunkEnd(start)), from |-> start,
                   size |-> ChunkEnd(start) - start]
  <2>1. p \in Packet
    BY <1>1, ChunkFits, ChunkLabel, ScriptAssumption DEF SendChunk, TypeOK, Packet
  <2>2. sent' = Append(sent, p) /\ sent \in Seq(Packet)
    BY <1>1 DEF SendChunk, TypeOK, Packet
  <2>3. start' \in 0 .. size /\ UNCHANGED <<size, name, named>>
    BY <1>1, ChunkFits DEF SendChunk, TypeOK
  <2> HIDE DEF p
  <2> QED BY <2>1, <2>2, <2>3 DEF TypeOK, Packet
<1>2. CASE SendName
  <2> DEFINE p == [type |-> "SCRIPT_NAME", from |-> 0, size |-> Least(name, NameLimit) + 1]
  <2>1. p \in Packet
    BY DEF TypeOK, Packet, DataTypes, Least, NameLimit
  <2>2. sent' = Append(sent, p) /\ sent \in Seq(Packet) /\ named' = TRUE
    BY <1>2 DEF SendName, TypeOK, Packet
  <2> HIDE DEF p
  <2> QED BY <1>2, <2>1, <2>2 DEF SendName, TypeOK, Packet
<1>3. CASE UNCHANGED vars
  BY <1>3 DEF vars, TypeOK
<1> QED BY <1>1, <1>2, <1>3 DEF Next

\* Before the first chunk.
LEMMA TypingInit == Init => TypeOK
<1> SUFFICES ASSUME Init PROVE TypeOK
  OBVIOUS
<1>1. size \in Nat /\ name \in Nat /\ start = 0
  BY ScriptAssumption DEF Init
<1>2. named \in BOOLEAN
  BY Zenon DEF Init
<1>3. sent \in Seq(Packet)
  BY DEF Init
<1> QED BY <1>1, <1>2, <1>3 DEF TypeOK, Packet

\* Every variable keeps its type.
THEOREM Typing == Spec => []TypeOK
  BY TypingInit, TypingStep, PTL DEF Spec

\* A new chunk continues the tiling and keeps the labels right.
LEMMA ChunkStep ==
  ASSUME TypeOK, TypeOK', Ordered, Tiled, StartsOnce, SendChunk
  PROVE  Ordered' /\ Tiled' /\ StartsOnce'
<1> DEFINE p == [type |-> ChunkType(start, ChunkEnd(start)), from |-> start,
                 size |-> ChunkEnd(start) - start]
           n == Len(sent)
<1>0. /\ sent \in Seq(Packet) /\ n \in Nat /\ start < size /\ ~named
      /\ start' = ChunkEnd(start) /\ size' = size /\ named' = named
      /\ sent' = Append(sent, p) /\ start \in Nat /\ size \in Nat
  BY DEF TypeOK, Packet, SendChunk, Ordered
<1>1. /\ Len(sent') = n + 1 /\ sent'[n + 1] = p
      /\ \A i \in 1 .. n : sent'[i] = sent[i]
  BY <1>0
<1>2. Chunks = 1 .. n /\ Chunks' = 1 .. n + 1
  <2>1. p.type # "SCRIPT_NAME"
    BY <1>0, ChunkLabel
  <2> QED BY <1>0, <1>1, <2>1 DEF Ordered, Chunks
<1>3. /\ p.from = start /\ p.size \in 1 .. DataSize /\ p.from + p.size = start'
  BY <1>0, ChunkFits
<1>4. n # 0 => sent[n].from + sent[n].size = start /\ sent[n].from \in Nat /\ sent[n].size > 0
  <2> SUFFICES ASSUME n # 0
               PROVE  sent[n].from + sent[n].size = start /\ sent[n].from \in Nat /\ sent[n].size > 0
    OBVIOUS
  <2>1. n \in Chunks /\ n + 1 \notin Chunks /\ n \in 1 .. n
    BY <1>0, <1>2
  <2>2. sent[n].size \in 1 .. DataSize /\ sent[n].from + sent[n].size = start
    BY <2>1 DEF Tiled
  <2>3. sent[n] \in Packet
    BY <1>0, <2>1
  <2> QED BY <2>2, <2>3, ScriptAssumption DEF Packet
<1>5. Tiled'
  <2>1. n = 0 => start = 0
    BY <1>0 DEF Ordered
  <2>2. ASSUME NEW i \in 1 .. n + 1
        PROVE  /\ sent'[i].size \in 1 .. DataSize
               /\ sent'[i].from = (IF i = 1 THEN 0 ELSE sent'[i - 1].from + sent'[i - 1].size)
               /\ i + 1 \notin Chunks' => sent'[i].from + sent'[i].size = start'
    <3>1. CASE i \in 1 .. n
      <4>1. i # 1 => i - 1 \in 1 .. n
        BY <1>0, <3>1
      <4>2. i + 1 \in Chunks'
        BY <1>0, <1>2, <3>1
      <4> QED BY <1>1, <1>2, <3>1, <4>1, <4>2 DEF Tiled
    <3>2. CASE i = n + 1
      <4> HIDE DEF p
      <4>1. n # 0 => i - 1 \in 1 .. n /\ i - 1 = n /\ i # 1
        BY <1>0, <3>2
      <4> QED BY <1>0, <1>1, <1>3, <1>4, <2>1, <3>2, <4>1
    <3> QED BY <1>0, <3>1, <3>2
  <2> QED BY <1>2, <2>2 DEF Tiled
<1>6. StartsOnce'
  <2>1. n = 0 <=> start = 0
    BY <1>0 DEF Ordered
  <2>2. ASSUME NEW i \in 1 .. n + 1
        PROVE  /\ sent'[i].type \in {"SCRIPT_DATA_START", "SCRIPT_DATA_START_END"} <=> i = 1
               /\ sent'[i].type = "SCRIPT_DATA_START_END" <=> sent'[i].from = 0 /\ sent'[i].size = size'
    <3>1. CASE i \in 1 .. n
      BY <1>0, <1>1, <1>2, <3>1 DEF StartsOnce
    <3>2. CASE i = n + 1
      <4>1. start = 0 => (size <= DataSize <=> ChunkEnd(start) - start = size)
        BY <1>0, ChunkFits
      <4>2. i = 1 <=> start = 0
        BY <1>0, <2>1, <3>2
      <4> QED BY <1>0, <1>1, <3>2, <4>1, <4>2, ChunkLabel
    <3> QED BY <1>0, <3>1, <3>2
  <2> QED BY <1>2, <2>2 DEF StartsOnce
<1>7. Ordered'
  <2>1. start' # 0 /\ sent' # <<>>
    BY <1>0, <1>1, ChunkFits
  <2> QED BY <1>0, <1>1, <1>2, <2>1 DEF Ordered
<1> QED BY <1>5, <1>6, <1>7

\* The packet with the name is no chunk.
LEMMA NameStep ==
  ASSUME TypeOK, Ordered, Tiled, StartsOnce, SendName
  PROVE  Ordered' /\ Tiled' /\ StartsOnce'
<1> DEFINE p == [type |-> "SCRIPT_NAME", from |-> 0, size |-> Least(name, NameLimit) + 1]
           n == Len(sent)
<1>0. /\ sent \in Seq(Packet) /\ n \in Nat /\ start = size /\ named' = TRUE
      /\ UNCHANGED <<size, start>> /\ sent' = Append(sent, p) /\ p.type = "SCRIPT_NAME"
  BY DEF TypeOK, Packet, SendName
<1>1. /\ Len(sent') = n + 1 /\ sent'[n + 1] = p
      /\ \A i \in 1 .. n : sent'[i] = sent[i]
  BY <1>0
<1> HIDE DEF p
<1>2. Chunks' = Chunks /\ Chunks \subseteq 1 .. n
  BY <1>0, <1>1 DEF Chunks
<1>3. Ordered'
  BY <1>0 DEF Ordered
<1>4. ASSUME NEW i \in Chunks, i # 1 PROVE i - 1 \in 1 .. n
  BY <1>0, <1>2, <1>4
<1>5. Tiled'
  BY <1>0, <1>1, <1>2, <1>4 DEF Tiled
<1>6. StartsOnce'
  BY <1>0, <1>1, <1>2 DEF StartsOnce
<1> QED BY <1>3, <1>5, <1>6

\* Together with the order of the packets, the two properties are inductive.
LEMMA TilingStep ==
  ASSUME TypeOK, TypeOK', Ordered, Tiled, StartsOnce, [Next]_vars
  PROVE  Ordered' /\ Tiled' /\ StartsOnce'
<1>1. CASE UNCHANGED vars
  BY <1>1 DEF vars, Ordered, Tiled, StartsOnce, Chunks
<1> QED BY <1>1, ChunkStep, NameStep DEF Next

\* The three invariants of send_script hold together in every state.
LEMMA Tiling == Spec => [](Ordered /\ Tiled /\ StartsOnce)
<1>1. Init => Ordered /\ Tiled /\ StartsOnce
  BY DEF Init, Ordered, Tiled, StartsOnce, Chunks
<1>2. TypeOK /\ TypeOK' /\ Ordered /\ Tiled /\ StartsOnce /\ [Next]_vars
        => Ordered' /\ Tiled' /\ StartsOnce'
  BY TilingStep
<1> QED BY <1>1, <1>2, Typing, PTL DEF Spec

\* The chunks tile the script: none is lost, doubled, empty or too large.
THEOREM ScriptTiled == Spec => []Tiled
  BY Tiling, PTL

\* The first chunk, and no other, says that a script begins.
THEOREM ScriptStartsOnce == Spec => []StartsOnce
  BY Tiling, PTL

-----------------------------------------------------------------------------
(* The way to the boards *)

Waits == [k : {"transmit", "error"}, p : 1 .. Len(sent)]

\* What is left of a queue once its head is taken.
LEMMA Taken ==
  ASSUME NEW S, NEW q \in Seq(S), q # <<>>
  PROVE  /\ Len(q) \in Nat \ {0} /\ Head(q) = q[1] /\ Head(q) \in S
         /\ Tail(q) \in Seq(S) /\ Len(Tail(q)) = Len(q) - 1
         /\ \A i \in 1 .. Len(q) - 1 : Tail(q)[i] = q[i + 1]
  OBVIOUS

\* What a queue is once something is put behind it.
LEMMA Put ==
  ASSUME NEW S, NEW q \in Seq(S), NEW m \in S
  PROVE  /\ Append(q, m) \in Seq(S) /\ Len(q) \in Nat
         /\ Len(Append(q, m)) = Len(q) + 1 /\ Append(q, m)[Len(q) + 1] = m
         /\ \A i \in 1 .. Len(q) : Append(q, m)[i] = q[i]
  OBVIOUS

\* What send_script adds is one packet.
LEMMA OnePacket ==
  ASSUME TypeOK, Next
  PROVE  Len(sent) \in Nat /\ Len(sent') = Len(sent) + 1
  BY DEF TypeOK, Next, SendChunk, SendName

\* A step of the delivery is one of send_script, which posts its packet, or
\* leaves send_script alone.
LEMMA WayStep == WayNext => (Next /\ Post) \/ UNCHANGED vars
  BY DEF WayNext, SendPacket, Worker, OnTransmit, OnError, TransmitEnds, Plug, Unplug, vars

\* The types of the delivery, with what they rest on: transfers are in flight
\* only while a board is there, and what waits to be told was refused.
WayInv ==
  /\ queue \in Seq(Waits)
  /\ conn \in 0 .. plugs /\ plugs \in 0 .. MaxPlugs
  /\ out \in Seq(1 .. Len(sent)) /\ got \in Seq(1 .. Len(sent))
  /\ gotBy \in Seq(1 .. plugs) /\ Len(gotBy) = Len(got)
  /\ lost \subseteq 1 .. Len(sent)
  /\ refused \subseteq 1 .. Len(sent) /\ logged \subseteq refused
  /\ out # <<>> => conn # 0
  /\ \A i \in 1 .. Len(queue) : queue[i].k = "error" => queue[i].p \in refused

\* A chunk is handed to the queue.
LEMMA SendPacketInv == ASSUME TypeOK, WayInv, SendPacket PROVE WayInv'
<1>1. Len(sent) \in Nat /\ Len(sent') = Len(sent) + 1
  BY OnePacket DEF SendPacket
<1>2. UNCHANGED <<conn, plugs, out, got, gotBy, lost, refused, logged>>
  BY DEF SendPacket
<1>3. Seq(1 .. Len(sent)) \subseteq Seq(1 .. Len(sent')) /\ 1 .. Len(sent) \subseteq 1 .. Len(sent')
  BY <1>1
<1> DEFINE m == [k |-> "transmit", p |-> Len(sent')]
<1>4. m \in Waits' /\ Waits \subseteq Waits' /\ queue' = Append(queue, m)
  BY <1>1 DEF Waits, SendPacket, Post
<1>5. queue \in Seq(Waits) /\ queue \in Seq(Waits')
  BY <1>4 DEF WayInv
<1> HIDE DEF m
<1>6. /\ queue' \in Seq(Waits') /\ Len(queue') = Len(queue) + 1 /\ queue'[Len(queue) + 1] = m
      /\ Len(queue) \in Nat /\ \A i \in 1 .. Len(queue) : queue'[i] = queue[i]
  BY <1>4, <1>5, Put
<1>7. ASSUME NEW i \in 1 .. Len(queue'), queue'[i].k = "error" PROVE queue'[i].p \in refused'
  <2>1. m.k # "error"
    BY DEF m
  <2>2. i \in 1 .. Len(queue)
    BY <1>6, <1>7, <2>1
  <2> QED BY <1>2, <1>6, <1>7, <2>2 DEF WayInv
<1> QED BY <1>2, <1>3, <1>6, <1>7 DEF WayInv

\* UsbBulkAgent submits a chunk, or answers with an error.
LEMMA OnTransmitInv == ASSUME TypeOK, WayInv, OnTransmit PROVE WayInv'
<1>0. /\ UNCHANGED <<sent, conn, plugs, got, gotBy, lost, logged>> /\ queue # <<>>
      /\ queue \in Seq(Waits) /\ out \in Seq(1 .. Len(sent))
  BY DEF OnTransmit, vars, Serving, WayInv
<1> DEFINE p == Head(queue).p
<1>1. /\ Len(queue) \in Nat \ {0} /\ Head(queue) = queue[1] /\ Head(queue) \in Waits
      /\ Tail(queue) \in Seq(Waits) /\ Len(Tail(queue)) = Len(queue) - 1
      /\ \A i \in 1 .. Len(queue) - 1 : Tail(queue)[i] = queue[i + 1]
  BY <1>0, Taken
<1>2. p \in 1 .. Len(sent) /\ Waits' = Waits
  BY <1>0, <1>1 DEF Waits
<1>3. CASE conn # 0 /\ out' = Submitted(p) /\ queue' = Tail(queue) /\ UNCHANGED refused
  <2>1. out' \in Seq(1 .. Len(sent))
    BY <1>0, <1>2, <1>3, Put DEF Submitted
  <2>2. ASSUME NEW i \in 1 .. Len(queue'), queue'[i].k = "error" PROVE queue'[i].p \in refused'
    <3>1. i + 1 \in 1 .. Len(queue) /\ queue'[i] = queue[i + 1]
      BY <1>1, <1>3
    <3> QED BY <1>3, <2>2, <3>1 DEF WayInv
  <2> QED BY <1>0, <1>1, <1>2, <1>3, <2>1, <2>2 DEF WayInv
<1>4. CASE /\ queue' = Append(Tail(queue), [k |-> "error", p |-> p])
           /\ refused' = refused \union {p} /\ UNCHANGED out
  <2> DEFINE m == [k |-> "error", p |-> p]
  <2>1. m \in Waits
    BY <1>2 DEF Waits
  <2>2. /\ queue' \in Seq(Waits) /\ Len(queue') = Len(queue) /\ queue'[Len(queue)] = m
        /\ \A i \in 1 .. Len(queue) - 1 : queue'[i] = queue[i + 1]
    <3> HIDE DEF m
    <3>1. queue' = Append(Tail(queue), m)
      BY <1>4 DEF m
    <3> QED BY <1>1, <2>1, <3>1, Put
  <2>3. ASSUME NEW i \in 1 .. Len(queue'), queue'[i].k = "error" PROVE queue'[i].p \in refused'
    <3>1. CASE i = Len(queue)
      BY <1>4, <2>2, <3>1
    <3>2. CASE i # Len(queue)
      <4>1. i + 1 \in 1 .. Len(queue) /\ queue'[i] = queue[i + 1]
        BY <1>1, <2>2, <3>2
      <4> QED BY <1>4, <2>3, <4>1 DEF WayInv
    <3> QED BY <3>1, <3>2
  <2>4. refused' \subseteq 1 .. Len(sent) /\ logged \subseteq refused'
    BY <1>2, <1>4 DEF WayInv
  <2> QED BY <1>0, <1>2, <1>4, <2>2, <2>3, <2>4 DEF WayInv
<1> QED BY <1>3, <1>4 DEF OnTransmit

\* Device hears of an error.
LEMMA OnErrorInv == ASSUME TypeOK, WayInv, OnError PROVE WayInv'
<1>0. /\ UNCHANGED <<sent, conn, plugs, out, got, gotBy, lost, refused>> /\ queue # <<>>
      /\ Head(queue).k = "error" /\ queue \in Seq(Waits) /\ queue' = Tail(queue)
      /\ logged' = logged \union {Head(queue).p}
  BY DEF OnError, vars, Serving, WayInv
<1>1. /\ Len(queue) \in Nat \ {0} /\ Head(queue) = queue[1]
      /\ queue' \in Seq(Waits) /\ Len(queue') = Len(queue) - 1
      /\ \A i \in 1 .. Len(queue) - 1 : queue'[i] = queue[i + 1]
  BY <1>0, Taken
<1>2. logged' \subseteq refused
  <2>1. 1 \in 1 .. Len(queue)
    BY <1>1
  <2> QED BY <1>0, <1>1, <2>1 DEF WayInv
<1>3. ASSUME NEW i \in 1 .. Len(queue'), queue'[i].k = "error" PROVE queue'[i].p \in refused
  <2>1. i + 1 \in 1 .. Len(queue) /\ queue'[i] = queue[i + 1]
    BY <1>1
  <2> QED BY <1>3, <2>1 DEF WayInv
<1>4. Waits' = Waits
  BY <1>0 DEF Waits
<1> QED BY <1>0, <1>1, <1>2, <1>3, <1>4 DEF WayInv

\* A transfer ends, with its chunk on the board or without.
LEMMA TransmitEndsInv == ASSUME TypeOK, WayInv, TransmitEnds PROVE WayInv'
<1>0. /\ UNCHANGED <<sent, queue, conn, plugs, refused, logged>> /\ out # <<>> /\ conn # 0
      /\ out \in Seq(1 .. Len(sent)) /\ out' = Tail(out)
      /\ got \in Seq(1 .. Len(sent)) /\ gotBy \in Seq(1 .. plugs) /\ Waits' = Waits
  BY DEF TransmitEnds, vars, WayInv, Waits
<1>1. out' \in Seq(1 .. Len(sent)) /\ Head(out) \in 1 .. Len(sent)
  BY <1>0, Taken
<1>2. conn \in 1 .. plugs
  BY <1>0 DEF WayInv
<1>3. CASE got' = Append(got, Head(out)) /\ gotBy' = Append(gotBy, conn) /\ UNCHANGED lost
  <2>1. got' \in Seq(1 .. Len(sent)) /\ Len(got') = Len(got) + 1
    BY <1>0, <1>1, <1>3, Put
  <2>2. gotBy' \in Seq(1 .. plugs) /\ Len(gotBy') = Len(gotBy) + 1
    BY <1>0, <1>2, <1>3, Put
  <2> QED BY <1>0, <1>1, <1>3, <2>1, <2>2 DEF WayInv
<1>4. CASE lost' = lost \union {Head(out)} /\ UNCHANGED <<got, gotBy>>
  BY <1>0, <1>1, <1>4 DEF WayInv
<1> QED BY <1>3, <1>4 DEF TransmitEnds

\* A board is plugged in.
LEMMA PlugInv == ASSUME TypeOK, WayInv, Plug PROVE WayInv'
<1>0. /\ UNCHANGED <<sent, queue, out, got, gotBy, lost, refused, logged>> /\ conn = 0
      /\ plugs' = plugs + 1 /\ conn' = plugs + 1 /\ plugs < MaxPlugs /\ plugs \in Nat
      /\ Waits' = Waits /\ MaxPlugs \in Nat
  BY DeliveryAssumption DEF Plug, vars, WayInv, Waits
<1>1. gotBy' \in Seq(1 .. plugs')
  <2>1. 1 .. plugs \subseteq 1 .. plugs'
    BY <1>0
  <2> QED BY <1>0, <2>1 DEF WayInv
<1>2. conn' \in 0 .. plugs' /\ plugs' \in 0 .. MaxPlugs
  BY <1>0
<1> QED BY <1>0, <1>1, <1>2 DEF WayInv

\* The board goes, and with it what was under way to it.
LEMMA UnplugInv == ASSUME TypeOK, WayInv, Unplug PROVE WayInv'
<1>0. /\ UNCHANGED <<sent, queue, plugs, got, gotBy, refused, logged>> /\ conn' = 0
      /\ out' = <<>> /\ out \in Seq(1 .. Len(sent)) /\ Waits' = Waits
      /\ lost' = lost \union {out[i] : i \in 1 .. Len(out)}
  BY DEF Unplug, vars, WayInv, Waits
<1>1. lost' \subseteq 1 .. Len(sent)
  <2>1. \A i \in 1 .. Len(out) : out[i] \in 1 .. Len(sent)
    BY <1>0
  <2>2. lost \subseteq 1 .. Len(sent)
    BY DEF WayInv
  <2> QED BY <1>0, <2>1, <2>2, Zenon
<1>2. conn' \in 0 .. plugs
  BY <1>0 DEF WayInv
<1> QED BY <1>0, <1>1, <1>2 DEF WayInv

\* At the start nothing is on its way.
LEMMA WayInvInit == WayInit => WayInv
<1> SUFFICES ASSUME WayInit PROVE WayInv
  OBVIOUS
<1>1. Len(sent) = 0 /\ plugs \in 0 .. 1 /\ conn = plugs
  BY DEF Init, WayInit
<1> QED BY <1>1, DeliveryAssumption DEF WayInit, WayInv

\* Every step of a chunk's way keeps the invariant.
LEMMA WayInvStep == TypeOK /\ WayInv /\ [WayNext]_<<vars, wayVars>> => WayInv'
<1> SUFFICES ASSUME TypeOK, WayInv, [WayNext]_<<vars, wayVars>> PROVE WayInv'
  OBVIOUS
<1>1. CASE UNCHANGED <<vars, wayVars>>
  <2>1. UNCHANGED <<queue, conn, plugs, out, got, gotBy, lost, refused, logged, sent>>
    BY <1>1 DEF vars, wayVars
  <2> QED BY <2>1 DEF WayInv, Waits
<1> QED BY <1>1, SendPacketInv, OnTransmitInv, OnErrorInv, TransmitEndsInv, PlugInv, UnplugInv
        DEF WayNext, Worker

\* The delivery hands over what send_script cuts: all that was proved of
\* send_script holds of it.
LEMMA WayIsScript == WaySpec => Spec
<1>1. WayInit => Init
  BY DEF WayInit
<1>2. [WayNext]_<<vars, wayVars>> => [Next]_vars
  BY WayStep
<1> QED BY <1>1, <1>2, PTL DEF WaySpec, Spec

\* Types and the invariant hold in every state.
LEMMA WayInvariant == WaySpec => [](TypeOK /\ WayInv)
  BY WayInvInit, WayInvStep, WayIsScript, Typing, PTL DEF WaySpec

\* The invariant says what the type invariant of the way says.
LEMMA WayTypes == TypeOK /\ WayInv => WayTypeOK
  BY DEF WayInv, WayTypeOK, Waits

\* Every variable of the delivery keeps its type: transfers end while a board
\* is there, and the log shows refusals of packets that were refused.
THEOREM WayTyping == WaySpec => []WayTypeOK
  BY WayTypes, WayInvariant, PTL

\* Packets stand in one line: those that reached a board, those in flight, those
\* that wait to be submitted.  Nothing overtakes in it, for send_script, the
\* worker's queue and the transfers are served in order.
Up(s) == \A i, j \in 1 .. Len(s) : i < j => s[i] < s[j]
Ahead(s, t) == \A i \in 1 .. Len(s), j \in 1 .. Len(t) : s[i] < t[j]
Waiting(i) == queue[i].k = "transmit"
AheadOfQueue(s) == \A i \in 1 .. Len(s), j \in 1 .. Len(queue) : Waiting(j) => s[i] < queue[j].p
QueueUp == \A i, j \in 1 .. Len(queue) : Waiting(i) /\ Waiting(j) /\ i < j => queue[i].p < queue[j].p

InLine ==
  /\ Up(got) /\ Ahead(got, out) /\ Up(out)
  /\ AheadOfQueue(got) /\ AheadOfQueue(out) /\ QueueUp

\* Every packet that was sent is somewhere in the line, or refused, or lost.
InQueue(p) == \E i \in 1 .. Len(queue) : Waiting(i) /\ queue[i].p = p
In(s, p) == \E i \in 1 .. Len(s) : s[i] = p

NoneMissing ==
  \A p \in 1 .. Len(sent) : In(got, p) \/ In(out, p) \/ InQueue(p) \/ p \in refused \union lost

\* A number behind an increasing sequence of them.
LEMMA UpPut ==
  ASSUME NEW n \in Nat, NEW s \in Seq(1 .. n), NEW p \in 1 .. n, Up(s),
         \A i \in 1 .. Len(s) : s[i] < p
  PROVE  Up(Append(s, p))
<1>1. /\ Len(s) \in Nat /\ Len(Append(s, p)) = Len(s) + 1 /\ Append(s, p)[Len(s) + 1] = p
      /\ \A i \in 1 .. Len(s) : Append(s, p)[i] = s[i]
  BY Put
<1> SUFFICES ASSUME NEW i \in 1 .. Len(s) + 1, NEW j \in 1 .. Len(s) + 1, i < j
             PROVE  Append(s, p)[i] < Append(s, p)[j]
  BY <1>1 DEF Up
<1>2. i \in 1 .. Len(s) /\ (j \in 1 .. Len(s) \/ j = Len(s) + 1)
  BY <1>1
<1> QED BY <1>1, <1>2 DEF Up

\* send_script's packet comes behind all others, for it has the highest number.
LEMMA SendInLine ==
  ASSUME TypeOK, WayInv, InLine, NoneMissing, SendPacket
  PROVE  InLine' /\ NoneMissing'
<1> DEFINE n == Len(sent)
           m == [k |-> "transmit", p |-> n + 1]
<1>0. /\ UNCHANGED <<got, out, lost, refused>> /\ n \in Nat /\ Len(sent') = n + 1
      /\ queue \in Seq(Waits) /\ got \in Seq(1 .. n) /\ out \in Seq(1 .. n)
  BY OnePacket DEF SendPacket, WayInv
<1>1. queue' = Append(queue, m) /\ m.k = "transmit" /\ m.p = n + 1
  BY <1>0 DEF SendPacket, Post
<1> HIDE DEF m
<1>2. /\ Len(queue) \in Nat /\ Len(queue') = Len(queue) + 1
      /\ queue'[Len(queue) + 1].k = "transmit" /\ queue'[Len(queue) + 1].p = n + 1
      /\ \A i \in 1 .. Len(queue) : queue'[i] = queue[i] /\ queue[i].p \in 1 .. n
  <2>1. /\ Len(queue') = Len(queue) + 1 /\ queue'[Len(queue) + 1] = m /\ Len(queue) \in Nat
        /\ \A i \in 1 .. Len(queue) : queue'[i] = queue[i]
    BY <1>0, <1>1
  <2>2. \A i \in 1 .. Len(queue) : queue[i].p \in 1 .. n
    <3>1. \A i \in 1 .. Len(queue) : queue[i] \in Waits
      BY <1>0
    <3> QED BY <3>1 DEF Waits
  <2> QED BY <1>1, <2>1, <2>2
<1>3. \A i \in 1 .. Len(got) : got[i] \in 1 .. n
  BY <1>0
<1>4. \A i \in 1 .. Len(out) : out[i] \in 1 .. n
  BY <1>0
<1>5. ASSUME NEW s, \A i \in 1 .. Len(s) : s[i] \in 1 .. n, AheadOfQueue(s)
      PROVE  \A i \in 1 .. Len(s), j \in 1 .. Len(queue') : queue'[j].k = "transmit" => s[i] < queue'[j].p
  <2> SUFFICES ASSUME NEW i \in 1 .. Len(s), NEW j \in 1 .. Len(queue'), queue'[j].k = "transmit"
               PROVE  s[i] < queue'[j].p
    OBVIOUS
  <2>1. CASE j \in 1 .. Len(queue)
    BY <1>2, <1>5, <2>1 DEF AheadOfQueue, Waiting
  <2>2. CASE j = Len(queue) + 1
    BY <1>0, <1>2, <1>5, <2>2
  <2> QED BY <1>2, <2>1, <2>2
<1>6. QueueUp'
  <2> SUFFICES ASSUME NEW i \in 1 .. Len(queue'), NEW j \in 1 .. Len(queue'), i < j,
                      queue'[i].k = "transmit", queue'[j].k = "transmit"
               PROVE  queue'[i].p < queue'[j].p
    BY DEF QueueUp, Waiting
  <2>1. i \in 1 .. Len(queue) /\ queue'[i] = queue[i] /\ queue[i].p \in 1 .. n
    BY <1>2
  <2>2. CASE j \in 1 .. Len(queue)
    BY <1>2, <2>1, <2>2 DEF InLine, QueueUp, Waiting
  <2>3. CASE j = Len(queue) + 1
    BY <1>0, <1>2, <2>1, <2>3
  <2> QED BY <1>2, <2>2, <2>3
<1>7. InLine'
  <2>1. AheadOfQueue(got)' /\ AheadOfQueue(out)'
    BY <1>0, <1>3, <1>4, <1>5 DEF InLine, AheadOfQueue, Waiting
  <2>2. Up(got)' /\ Ahead(got, out)' /\ Up(out)'
    BY <1>0 DEF InLine, Up, Ahead
  <2> QED BY <1>6, <2>1, <2>2 DEF InLine
<1>8. NoneMissing'
  <2> SUFFICES ASSUME NEW p \in 1 .. n + 1
               PROVE  (In(got, p) \/ In(out, p) \/ InQueue(p) \/ p \in refused \union lost)'
    BY <1>0 DEF NoneMissing
  <2>1. CASE p = n + 1
    BY <1>2, <2>1 DEF InQueue, Waiting
  <2>2. CASE p \in 1 .. n
    <3>1. InQueue(p) => InQueue(p)'
      BY <1>2 DEF InQueue, Waiting
    <3>2. In(got, p) \/ In(out, p) \/ InQueue(p) \/ p \in refused \union lost
      BY <2>2 DEF NoneMissing
    <3> QED BY <1>0, <3>1, <3>2 DEF In
  <2> QED BY <1>0, <2>1, <2>2
<1> QED BY <1>7, <1>8

\* The head of the queue is submitted or refused: either way those behind it
\* keep their order.
LEMMA TransmitInLine ==
  ASSUME TypeOK, WayInv, InLine, NoneMissing, OnTransmit
  PROVE  InLine' /\ NoneMissing'
<1> DEFINE n == Len(sent)
           p == Head(queue).p
<1>0. /\ UNCHANGED <<got, lost, sent>> /\ queue # <<>> /\ Head(queue).k = "transmit"
      /\ queue \in Seq(Waits) /\ got \in Seq(1 .. n) /\ out \in Seq(1 .. n) /\ n \in Nat
  BY DEF OnTransmit, vars, Serving, WayInv, TypeOK
<1>1. /\ Len(queue) \in Nat \ {0} /\ Head(queue) = queue[1] /\ Head(queue) \in Waits
      /\ Tail(queue) \in Seq(Waits) /\ Len(Tail(queue)) = Len(queue) - 1
      /\ \A i \in 1 .. Len(queue) - 1 : Tail(queue)[i] = queue[i + 1]
  BY <1>0, Taken
<1>p. p \in 1 .. n
  BY <1>1 DEF Waits
<1>l. Len(queue) \in Nat \ {0}
  BY <1>1
\* What is behind the head, with or without an error put last.
<1>2. /\ \A i \in 1 .. Len(queue) - 1 : queue'[i] = queue[i + 1]
      /\ Len(queue') = Len(queue) - 1 \/ Len(queue') = Len(queue)
      /\ Len(queue') = Len(queue) => queue'[Len(queue)].k = "error"
  <2>1. CASE queue' = Tail(queue)
    <3>1. Len(queue') = Len(queue) - 1
      BY <1>1, <2>1
    <3>3. Len(queue') # Len(queue)
      BY <1>l, <3>1
    <3>2. \A i \in 1 .. Len(queue) - 1 : queue'[i] = queue[i + 1]
      BY <1>1, <2>1
    <3> QED BY <3>1, <3>2, <3>3
  <2>2. CASE queue' = Append(Tail(queue), [k |-> "error", p |-> p])
    <3> DEFINE m == [k |-> "error", p |-> p]
    <3>1. m \in Waits /\ m.k = "error"
      BY <1>p DEF Waits
    <3>2. queue' = Append(Tail(queue), m)
      BY <2>2
    <3> HIDE DEF m
    <3>3. /\ Len(queue') = Len(queue) - 1 + 1 /\ queue'[Len(queue) - 1 + 1] = m
          /\ \A i \in 1 .. Len(queue) - 1 : queue'[i] = Tail(queue)[i]
      BY <1>1, <3>1, <3>2, Put
    <3>4. Len(queue) - 1 + 1 = Len(queue)
      BY <1>l
    <3> QED BY <1>1, <3>1, <3>3, <3>4
  <2> QED BY <2>1, <2>2 DEF OnTransmit
<1>3. ASSUME NEW j \in 1 .. Len(queue'), queue'[j].k = "transmit"
      PROVE  j + 1 \in 1 .. Len(queue) /\ queue'[j] = queue[j + 1] /\ Waiting(j + 1)
  <2>1. j # Len(queue)
    BY <1>2, <1>3
  <2>2. j \in 1 .. Len(queue) - 1 /\ j + 1 \in 1 .. Len(queue)
    BY <1>l, <1>2, <2>1
  <2> QED BY <1>2, <1>3, <2>2 DEF Waiting
<1>4. 1 \in 1 .. Len(queue) /\ Waiting(1) /\ queue[1].p = p
  BY <1>0, <1>1 DEF Waiting
<1>5. QueueUp'
  <2> SUFFICES ASSUME NEW i \in 1 .. Len(queue'), NEW j \in 1 .. Len(queue'), i < j,
                      queue'[i].k = "transmit", queue'[j].k = "transmit"
               PROVE  queue'[i].p < queue'[j].p
    BY DEF QueueUp, Waiting
  <2> QED BY <1>3 DEF InLine, QueueUp
<1>6. AheadOfQueue(got)'
  <2> SUFFICES ASSUME NEW i \in 1 .. Len(got), NEW j \in 1 .. Len(queue'), queue'[j].k = "transmit"
               PROVE  got[i] < queue'[j].p
    BY <1>0 DEF AheadOfQueue, Waiting
  <2> QED BY <1>3 DEF InLine, AheadOfQueue
<1>7. ASSUME NEW q \in 1 .. n, q # p, InQueue(q) PROVE InQueue(q)'
  <2>1. PICK i \in 1 .. Len(queue) : Waiting(i) /\ queue[i].p = q
    BY <1>7 DEF InQueue
  <2>2. i # 1
    BY <1>4, <1>7, <2>1
  <2>3. i - 1 \in 1 .. Len(queue') /\ queue'[i - 1] = queue[i]
    <3>1. i - 1 \in 1 .. Len(queue) - 1 /\ (i - 1) + 1 = i
      BY <1>l, <2>1, <2>2
    <3> QED BY <1>l, <1>2, <3>1
  <2> QED BY <2>1, <2>3 DEF InQueue, Waiting
<1>8. CASE out' = Submitted(p) /\ UNCHANGED refused
  <2>1. /\ Len(out) \in Nat /\ Len(out') = Len(out) + 1 /\ out'[Len(out) + 1] = p
        /\ \A i \in 1 .. Len(out) : out'[i] = out[i]
    BY <1>0, <1>p, <1>8, Put DEF Submitted
  <2>2. Up(out')
    <3>1. \A i \in 1 .. Len(out) : out[i] < p
      BY <1>4 DEF InLine, AheadOfQueue
    <3> QED BY <1>0, <1>p, <1>8, <3>1, UpPut DEF InLine, Submitted
  <2>3. Ahead(got, out')
    <3> SUFFICES ASSUME NEW i \in 1 .. Len(got), NEW j \in 1 .. Len(out') PROVE got[i] < out'[j]
      BY DEF Ahead
    <3>1. CASE j \in 1 .. Len(out)
      BY <2>1, <3>1 DEF InLine, Ahead
    <3>2. CASE j = Len(out) + 1
      BY <1>4, <2>1, <3>2 DEF InLine, AheadOfQueue
    <3> QED BY <2>1, <3>1, <3>2
  <2>4. AheadOfQueue(out)'
    <3> SUFFICES ASSUME NEW i \in 1 .. Len(out'), NEW j \in 1 .. Len(queue'), queue'[j].k = "transmit"
                 PROVE  out'[i] < queue'[j].p
      BY DEF AheadOfQueue, Waiting
    <3>1. CASE i \in 1 .. Len(out)
      BY <1>3, <2>1, <3>1 DEF InLine, AheadOfQueue
    <3>2. CASE i = Len(out) + 1
      <4>1. 1 < j + 1 /\ j + 1 \in 1 .. Len(queue) /\ Waiting(j + 1)
        BY <1>3
      <4>2. queue[1].p < queue[j + 1].p
        BY <1>4, <4>1 DEF InLine, QueueUp
      <4> QED BY <1>3, <1>4, <2>1, <3>2, <4>2
    <3> QED BY <2>1, <3>1, <3>2
  <2>5. NoneMissing'
    <3> SUFFICES ASSUME NEW q \in 1 .. n
                 PROVE  (In(got, q) \/ In(out, q) \/ InQueue(q) \/ q \in refused \union lost)'
      BY <1>0 DEF NoneMissing
    <3>1. CASE q = p
      BY <2>1, <3>1 DEF In
    <3>2. CASE q # p
      <4>1. In(out, q) => In(out, q)'
        BY <2>1 DEF In
      <4>2. In(got, q) \/ In(out, q) \/ InQueue(q) \/ q \in refused \union lost
        BY DEF NoneMissing
      <4> QED BY <1>0, <1>7, <1>8, <3>2, <4>1, <4>2 DEF In
    <3> QED BY <3>1, <3>2
  <2>6. Up(got)'
    BY <1>0 DEF InLine, Up
  <2>7. Up(out)' /\ Ahead(got, out)'
    BY <1>0, <2>2, <2>3 DEF Up, Ahead
  <2> QED BY <1>5, <1>6, <2>4, <2>5, <2>6, <2>7 DEF InLine
<1>9. CASE refused' = refused \union {p} /\ UNCHANGED out
  <2>1. Up(got)' /\ Up(out)' /\ Ahead(got, out)'
    BY <1>0, <1>9 DEF InLine, Up, Ahead
  <2>2. AheadOfQueue(out)'
    <3> SUFFICES ASSUME NEW i \in 1 .. Len(out), NEW j \in 1 .. Len(queue'), queue'[j].k = "transmit"
                 PROVE  out[i] < queue'[j].p
      BY <1>9 DEF AheadOfQueue, Waiting
    <3> QED BY <1>3 DEF InLine, AheadOfQueue
  <2>3. NoneMissing'
    <3> SUFFICES ASSUME NEW q \in 1 .. n
                 PROVE  (In(got, q) \/ In(out, q) \/ InQueue(q) \/ q \in refused \union lost)'
      BY <1>0 DEF NoneMissing
    <3>1. In(got, q) \/ In(out, q) \/ InQueue(q) \/ q \in refused \union lost
      BY DEF NoneMissing
    <3> QED BY <1>0, <1>7, <1>9, <3>1 DEF In
  <2> QED BY <1>5, <1>6, <2>1, <2>2, <2>3 DEF InLine
<1> QED BY <1>8, <1>9 DEF OnTransmit

\* Telling the log of a refusal takes an error from the queue and no packet.
LEMMA ErrorInLine ==
  ASSUME TypeOK, WayInv, InLine, NoneMissing, OnError
  PROVE  InLine' /\ NoneMissing'
<1>0. /\ UNCHANGED <<got, out, lost, refused, sent>> /\ queue # <<>> /\ Head(queue).k = "error"
      /\ queue \in Seq(Waits) /\ queue' = Tail(queue)
  BY DEF OnError, vars, Serving, WayInv
<1>1. /\ Head(queue) = queue[1] /\ Len(queue') = Len(queue) - 1
      /\ \A i \in 1 .. Len(queue) - 1 : queue'[i] = queue[i + 1]
  BY <1>0, Taken
<1>l. Len(queue) \in Nat \ {0}
  BY <1>0, Taken
<1>2. ASSUME NEW j \in 1 .. Len(queue')
      PROVE  j + 1 \in 1 .. Len(queue) /\ queue'[j] = queue[j + 1]
  BY <1>1, <1>l
<1>3. Up(got)' /\ Up(out)' /\ Ahead(got, out)'
  BY <1>0 DEF InLine, Up, Ahead
<1>4. AheadOfQueue(got)' /\ AheadOfQueue(out)'
  BY <1>0, <1>2 DEF InLine, AheadOfQueue, Waiting
<1>5. QueueUp'
  <2> SUFFICES ASSUME NEW i \in 1 .. Len(queue'), NEW j \in 1 .. Len(queue'), i < j,
                      queue'[i].k = "transmit", queue'[j].k = "transmit"
               PROVE  queue'[i].p < queue'[j].p
    BY DEF QueueUp, Waiting
  <2> QED BY <1>2 DEF InLine, QueueUp, Waiting
<1>6. NoneMissing'
  <2>1. ASSUME NEW q, InQueue(q) PROVE InQueue(q)'
    <3>1. PICK i \in 1 .. Len(queue) : Waiting(i) /\ queue[i].p = q
      BY <2>1 DEF InQueue
    <3>2. i # 1
      BY <1>0, <1>1, <3>1 DEF Waiting
    <3>3. i - 1 \in 1 .. Len(queue') /\ i - 1 \in 1 .. Len(queue) - 1 /\ (i - 1) + 1 = i
      BY <1>1, <1>l, <3>2
    <3>4. queue'[i - 1] = queue[i]
      BY <1>1, <3>3
    <3> QED BY <3>1, <3>3, <3>4 DEF InQueue, Waiting
  <2> QED BY <1>0, <2>1 DEF NoneMissing, In
<1> QED BY <1>3, <1>4, <1>5, <1>6 DEF InLine

\* The oldest transfer ends: its packet comes behind those that have arrived, or
\* is lost.
LEMMA EndsInLine ==
  ASSUME TypeOK, WayInv, InLine, NoneMissing, TransmitEnds
  PROVE  InLine' /\ NoneMissing'
<1> DEFINE n == Len(sent)
           m == Head(out)
<1>0. /\ UNCHANGED <<queue, refused, sent>> /\ out # <<>> /\ out' = Tail(out)
      /\ out \in Seq(1 .. n) /\ got \in Seq(1 .. n) /\ n \in Nat
  BY DEF TransmitEnds, vars, WayInv, TypeOK
<1>1. /\ m = out[1] /\ m \in 1 .. n /\ Len(out') = Len(out) - 1
      /\ \A i \in 1 .. Len(out) - 1 : out'[i] = out[i + 1]
  BY <1>0, Taken
<1>l. Len(out) \in Nat \ {0} /\ 1 \in 1 .. Len(out)
  BY <1>0, Taken
<1>2. ASSUME NEW j \in 1 .. Len(out')
      PROVE  j + 1 \in 1 .. Len(out) /\ out'[j] = out[j + 1] /\ m < out'[j]
  <2>1. j + 1 \in 1 .. Len(out) /\ out'[j] = out[j + 1] /\ 1 < j + 1
    BY <1>1, <1>l
  <2>2. out[1] < out[j + 1]
    BY <1>l, <2>1 DEF InLine, Up
  <2> QED BY <1>1, <2>1, <2>2
<1>3. Up(out)'
  <2> SUFFICES ASSUME NEW i \in 1 .. Len(out'), NEW j \in 1 .. Len(out'), i < j
               PROVE  out'[i] < out'[j]
    BY DEF Up
  <2> QED BY <1>2 DEF InLine, Up
<1>4. AheadOfQueue(out)' /\ QueueUp'
  <2>1. AheadOfQueue(out)'
    <3> SUFFICES ASSUME NEW i \in 1 .. Len(out'), NEW j \in 1 .. Len(queue), queue[j].k = "transmit"
                 PROVE  out'[i] < queue[j].p
      BY <1>0 DEF AheadOfQueue, Waiting
    <3> QED BY <1>2 DEF InLine, AheadOfQueue, Waiting
  <2>2. QueueUp'
    BY <1>0 DEF InLine, QueueUp, Waiting
  <2> QED BY <2>1, <2>2
<1>5. ASSUME NEW q \in 1 .. n, q # m, In(out, q) PROVE In(out, q)'
  <2>1. PICK i \in 1 .. Len(out) : out[i] = q
    BY <1>5 DEF In
  <2>2. i # 1
    BY <1>1, <1>5, <2>1
  <2>3. i - 1 \in 1 .. Len(out') /\ i - 1 \in 1 .. Len(out) - 1 /\ (i - 1) + 1 = i
    BY <1>1, <1>l, <2>2
  <2>4. out'[i - 1] = q
    BY <1>1, <2>1, <2>3
  <2> QED BY <2>3, <2>4 DEF In
<1>6. CASE got' = Append(got, m) /\ UNCHANGED lost
  <2>1. /\ Len(got) \in Nat /\ Len(got') = Len(got) + 1 /\ got'[Len(got) + 1] = m
        /\ \A i \in 1 .. Len(got) : got'[i] = got[i]
    BY <1>0, <1>1, <1>6, Put
  <2>2. Up(got')
    <3>1. \A i \in 1 .. Len(got) : got[i] < m
      BY <1>1, <1>l DEF InLine, Ahead
    <3> QED BY <1>0, <1>1, <1>6, <3>1, UpPut DEF InLine
  <2>3. Ahead(got', out')
    <3> SUFFICES ASSUME NEW i \in 1 .. Len(got'), NEW j \in 1 .. Len(out') PROVE got'[i] < out'[j]
      BY DEF Ahead
    <3>1. CASE i \in 1 .. Len(got)
      BY <1>2, <2>1, <3>1 DEF InLine, Ahead
    <3>2. CASE i = Len(got) + 1
      BY <1>2, <2>1, <3>2
    <3> QED BY <2>1, <3>1, <3>2
  <2>4. AheadOfQueue(got)'
    <3> SUFFICES ASSUME NEW i \in 1 .. Len(got'), NEW j \in 1 .. Len(queue), queue[j].k = "transmit"
                 PROVE  got'[i] < queue[j].p
      BY <1>0 DEF AheadOfQueue, Waiting
    <3>1. CASE i \in 1 .. Len(got)
      BY <2>1, <3>1 DEF InLine, AheadOfQueue, Waiting
    <3>2. CASE i = Len(got) + 1
      BY <1>1, <1>l, <2>1, <3>2 DEF InLine, AheadOfQueue, Waiting
    <3> QED BY <2>1, <3>1, <3>2
  <2>5. NoneMissing'
    <3> SUFFICES ASSUME NEW q \in 1 .. n
                 PROVE  (In(got, q) \/ In(out, q) \/ InQueue(q) \/ q \in refused \union lost)'
      BY <1>0 DEF NoneMissing
    <3>1. CASE q = m
      BY <2>1, <3>1 DEF In
    <3>2. CASE q # m
      <4>1. In(got, q) => In(got, q)'
        BY <2>1 DEF In
      <4>2. In(got, q) \/ In(out, q) \/ InQueue(q) \/ q \in refused \union lost
        BY DEF NoneMissing
      <4> QED BY <1>0, <1>5, <1>6, <3>2, <4>1, <4>2 DEF InQueue, Waiting
    <3> QED BY <3>1, <3>2
  <2>6. Up(got)' /\ Ahead(got, out)'
    BY <2>2, <2>3 DEF Up, Ahead
  <2> QED BY <1>3, <1>4, <2>4, <2>5, <2>6 DEF InLine
<1>7. CASE lost' = lost \union {m} /\ UNCHANGED got
  <2>1. Up(got)' /\ AheadOfQueue(got)'
    BY <1>0, <1>7 DEF InLine, Up, AheadOfQueue, Waiting
  <2>2. Ahead(got, out)'
    <3> SUFFICES ASSUME NEW i \in 1 .. Len(got), NEW j \in 1 .. Len(out') PROVE got[i] < out'[j]
      BY <1>7 DEF Ahead
    <3> QED BY <1>2 DEF InLine, Ahead
  <2>3. NoneMissing'
    <3> SUFFICES ASSUME NEW q \in 1 .. n
                 PROVE  (In(got, q) \/ In(out, q) \/ InQueue(q) \/ q \in refused \union lost)'
      BY <1>0 DEF NoneMissing
    <3>1. In(got, q) \/ In(out, q) \/ InQueue(q) \/ q \in refused \union lost
      BY DEF NoneMissing
    <3> QED BY <1>0, <1>5, <1>7, <3>1 DEF In, InQueue, Waiting
  <2> QED BY <1>3, <1>4, <2>1, <2>2, <2>3 DEF InLine
<1> QED BY <1>6, <1>7 DEF TransmitEnds

\* Unplugging keeps the chunks in line.
LEMMA UnplugInLine ==
  ASSUME TypeOK, WayInv, InLine, NoneMissing, Unplug
  PROVE  InLine' /\ NoneMissing'
<1>0. /\ UNCHANGED <<queue, got, refused, sent>> /\ out' = <<>> /\ Len(out') = 0
      /\ lost' = lost \union {out[i] : i \in 1 .. Len(out)}
  BY DEF Unplug, vars
<1>1. Up(got)' /\ AheadOfQueue(got)' /\ QueueUp'
  BY <1>0 DEF InLine, Up, AheadOfQueue, QueueUp, Waiting
<1>2. Up(out)' /\ Ahead(got, out)' /\ AheadOfQueue(out)'
  BY <1>0 DEF Up, Ahead, AheadOfQueue
<1>3. NoneMissing'
  BY <1>0 DEF NoneMissing, In, InQueue, Waiting
<1> QED BY <1>1, <1>2, <1>3 DEF InLine

\* The order of the line and its completeness, together, are inductive.
LEMMA LinedStep ==
  ASSUME TypeOK, WayInv, InLine, NoneMissing, [WayNext]_<<vars, wayVars>>
  PROVE  InLine' /\ NoneMissing'
<1>1. CASE Plug \/ UNCHANGED <<vars, wayVars>>
  <2>1. UNCHANGED <<queue, out, got, lost, refused, sent>>
    BY <1>1 DEF Plug, vars, wayVars
  <2>2. InLine'
    BY <2>1 DEF InLine, Up, Ahead, AheadOfQueue, QueueUp, Waiting
  <2>3. NoneMissing'
    BY <2>1 DEF NoneMissing, In, InQueue, Waiting
  <2> QED BY <2>2, <2>3
<1> QED BY <1>1, SendInLine, TransmitInLine, ErrorInLine, EndsInLine, UnplugInLine
        DEF WayNext, Worker

\* Chunks are in line, and none is missing, in every state.
LEMMA Lined == WaySpec => [](InLine /\ NoneMissing)
<1>1. WayInit => InLine /\ NoneMissing
  <2> SUFFICES ASSUME WayInit PROVE InLine /\ NoneMissing
    OBVIOUS
  <2>1. Len(got) = 0 /\ Len(out) = 0 /\ Len(queue) = 0 /\ Len(sent) = 0
    BY DEF WayInit, Init
  <2> QED BY <2>1 DEF InLine, NoneMissing, Up, Ahead, AheadOfQueue, QueueUp
<1>2. /\ TypeOK /\ WayInv /\ InLine /\ NoneMissing
      /\ [WayNext]_<<vars, wayVars>>
      => InLine' /\ NoneMissing'
  BY LinedStep
<1> QED BY <1>1, <1>2, WayInvariant, PTL DEF WaySpec

\* The packet before one that arrived was before it in the line.
LEMMA Holes ==
  ASSUME TypeOK, WayInv, InLine, NoneMissing PROVE HolesExplained
<1> SUFFICES ASSUME NEW i \in 1 .. Len(got), got[i] # 1,
                    got[i] - 1 \notin refused \union lost
             PROVE  i > 1 /\ got[i - 1] = got[i] - 1
  BY DEF HolesExplained
<1> DEFINE p == got[i] - 1
<1>1. Len(sent) \in Nat /\ got \in Seq(1 .. Len(sent)) /\ Len(got) \in Nat
  BY DEF TypeOK, WayInv
<1>2. \A j \in 1 .. Len(got) : got[j] \in 1 .. Len(sent)
  BY <1>1
<1>3. p \in 1 .. Len(sent) /\ p < got[i] /\ p + 1 = got[i]
  BY <1>1, <1>2
<1> HIDE DEF p
<1>4. ~In(out, p)
  <2> SUFFICES ASSUME NEW j \in 1 .. Len(out), out[j] = p PROVE FALSE
    BY DEF In
  <2>1. got[i] < p
    BY DEF InLine, Ahead
  <2> QED BY <1>2, <1>3, <2>1
<1>5. ~InQueue(p)
  <2> SUFFICES ASSUME NEW j \in 1 .. Len(queue), Waiting(j), queue[j].p = p PROVE FALSE
    BY DEF InQueue
  <2>1. got[i] < p
    BY DEF InLine, AheadOfQueue
  <2> QED BY <1>2, <1>3, <2>1
<1>6. PICK j \in 1 .. Len(got) : got[j] = p
  <2>1. p \notin refused \union lost
    BY DEF p
  <2> QED BY <1>3, <1>4, <1>5, <2>1 DEF NoneMissing, In
<1>7. j < i
  <2>1. CASE i < j
    <3>1. got[i] < got[j]
      BY <2>1 DEF InLine, Up
    <3> QED BY <1>2, <1>3, <1>6, <3>1
  <2>2. CASE i = j
    BY <1>2, <1>3, <1>6, <2>2
  <2> QED BY <2>1, <2>2
<1>8. j = i - 1
  <2> SUFFICES ASSUME j < i - 1 PROVE FALSE
    BY <1>7
  <2>1. i - 1 \in 1 .. Len(got) /\ i - 1 < i
    BY <1>7
  <2>2. got[j] < got[i - 1] /\ got[i - 1] < got[i]
    BY <2>1 DEF InLine, Up
  <2> QED BY <1>2, <1>3, <1>6, <2>1, <2>2
<1> QED BY <1>6, <1>7, <1>8 DEF p

\* A board that was given a packet was given the one before it too, unless that
\* one was refused or lost, or went to the board before: nothing else makes a
\* hole in a script.
THEOREM HolesHaveReasons == WaySpec => []HolesExplained
<1>1. TypeOK /\ WayInv /\ InLine /\ NoneMissing => HolesExplained
  BY Holes
<1> QED BY <1>1, WayInvariant, Lined, PTL

\* A step of the way is a step of the channel, or none.
LEMMA ChannelStep ==
  ASSUME TypeOK, WayInv, InLine, [WayNext]_<<vars, wayVars>>
  PROVE  [Channel!Next]_(Channel!vars)
<1>1. CASE SendPacket
  <2>1. Channel!Send
    BY <1>1, OnePacket DEF SendPacket, Channel!Send
  <2> QED BY <2>1 DEF Channel!Next
<1>2. CASE TransmitEnds /\ UNCHANGED got
  BY <1>2 DEF TransmitEnds, vars, Channel!vars
<1>3. CASE TransmitEnds /\ got' = Append(got, Head(out))
  <2>1. Len(sent) \in Nat /\ out # <<>> /\ out \in Seq(1 .. Len(sent)) /\ got \in Seq(1 .. Len(sent))
    BY <1>3 DEF TransmitEnds, TypeOK, WayInv
  <2>2. Head(out) = out[1] /\ out[1] \in 1 .. Len(sent) /\ 1 \in 1 .. Len(out)
    BY <2>1, Taken
  <2>3. Channel!Latest < Head(out)
    <3>1. CASE got = <<>>
      BY <2>2, <3>1 DEF Channel!Latest
    <3>2. CASE got # <<>>
      <4>1. Len(got) \in 1 .. Len(got)
        BY <2>1, <3>2
      <4> QED BY <2>2, <3>2, <4>1 DEF InLine, Ahead, Channel!Latest
    <3> QED BY <3>1, <3>2
  <2>4. Channel!Deliver(Head(out))
    BY <1>3, <2>1, <2>2, <2>3 DEF TransmitEnds, vars, Channel!Deliver
  <2> QED BY <2>2, <2>4 DEF Channel!Next
<1>4. CASE Worker \/ Plug \/ Unplug \/ UNCHANGED <<vars, wayVars>>
  BY <1>4 DEF Worker, OnTransmit, OnError, Plug, Unplug, vars, wayVars, Channel!vars
<1> QED BY <1>1, <1>2, <1>3, <1>4 DEF WayNext, TransmitEnds

\* Packets of the script reach boards in the order they were cut, and none
\* twice: the way to the boards implements a channel that only loses.
THEOREM DeliveredInOrder == WaySpec => SentInOrder
<1>1. WayInit => Channel!Init
  BY DEF WayInit, Init, Channel!Init
<1>2. /\ TypeOK /\ WayInv /\ InLine
      /\ [WayNext]_<<vars, wayVars>>
      => [Channel!Next]_(Channel!vars)
  BY ChannelStep
<1> QED BY <1>1, <1>2, WayInvariant, Lined, PTL DEF WaySpec, SentInOrder, Channel!Spec

-----------------------------------------------------------------------------
(* parse_variables *)
\* Nothing wraps below the range of size_t.
LEMMA NoWrap ==
  ASSUME NEW n \in Nat, NEW m \in Nat, n < m
  PROVE  n % m = n
  BY SMT

\* The inductive invariant: what InsidePacket says, with the types that it
\* rests on and with StringsEnd for the messages that are out.
OffsetOK == offset \in Nat /\ offset <= Room

Inv == PacketTypeOK /\ OffsetOK /\ VariablesInside /\ StringsEnd

\* While the offset is inside the packet max_var_size() is what is left of it.
LEMMA Left ==
  ASSUME OffsetOK
  PROVE  MaxVarSize = Room - offset
<1>1. Room - offset \in Nat /\ Room - offset < SizeT
  BY PacketAssumption DEF OffsetOK
<1>2. SizeT \in Nat
  BY PacketAssumption
<1> QED
  BY <1>1, <1>2, NoWrap DEF MaxVarSize

\* A record's size and length are numbers.
LEMMA RecordSizes ==
  ASSUME NEW r \in Record
  PROVE  r.size \in Nat /\ r.len \in Nat
  BY PacketAssumption DEF Record

\* A string that passes the three checks, and declares its own header, ends
\* inside the packet.
LEMMA PassedEnds ==
  ASSUME OffsetOK, rec \in Record, ~IsError, rec.type = "STR", rec.size >= VarHeader
  PROVE  offset + VarHeader + rec.len < Room
<1>1. rec.size \in Nat /\ rec.len \in Nat
  BY RecordSizes
<1>2. rec.size <= Room - offset
  <2>1. ~(rec.size > MaxVarSize)
    BY DEF IsError, TooLarge
  <2> QED
    BY <2>1, <1>1, Left, PacketAssumption DEF OffsetOK
<1>3. StrLimit = Room - offset - VarHeader
  <2>1. Room - offset - VarHeader \in Nat /\ Room - offset - VarHeader < SizeT
    BY <1>1, <1>2, PacketAssumption DEF OffsetOK
  <2>2. (Room - offset - VarHeader) % SizeT = Room - offset - VarHeader
    BY <2>1, NoWrap, PacketAssumption
  <2> QED
    BY <2>2, Left DEF StrLimit
<1>4. ~(rec.len >= StrLimit)
  BY DEF IsError
<1> QED
  BY <1>1, <1>3, <1>4, PacketAssumption DEF OffsetOK

\* A message is added: the strings before it keep what is said of them.
LEMMA SaysEnds ==
  ASSUME PacketTypeOK, OffsetOK, StringsEnd, NEW kind, Says(kind),
         kind = "variable" /\ rec.type = "STR" /\ rec.size >= VarHeader
           => offset + VarHeader + rec.len < Room
  PROVE  StringsEnd'
<1> DEFINE new == [kind |-> kind, at |-> offset, rec |-> rec]
<1>1. posted' = Append(posted, new)
  BY DEF Says
<1>2. posted \in Seq(Posted)
  BY DEF PacketTypeOK
<1> SUFFICES ASSUME NEW k \in 1 .. Len(posted'),
                    posted'[k].kind = "variable", posted'[k].rec.type = "STR",
                    posted'[k].rec.size >= VarHeader
             PROVE  posted'[k].at + VarHeader + posted'[k].rec.len < Room
  BY DEF StringsEnd
<1>3. CASE k \in 1 .. Len(posted)
  <2>1. posted'[k] = posted[k]
    BY <1>1, <1>2, <1>3
  <2> QED
    BY <2>1, <1>3 DEF StringsEnd
<1>4. CASE k = Len(posted) + 1
  <2>1. posted'[k] = new
    BY <1>1, <1>2, <1>4
  <2> QED
    BY <2>1
<1> QED
  BY <1>1, <1>2, <1>3, <1>4

\* And so do the variables before it.
LEMMA SaysInside ==
  ASSUME PacketTypeOK, VariablesInside, NEW kind, Says(kind),
         kind # "error" => offset + rec.size <= Room
  PROVE  VariablesInside'
<1> DEFINE new == [kind |-> kind, at |-> offset, rec |-> rec]
<1>1. posted' = Append(posted, new)
  BY DEF Says
<1>2. posted \in Seq(Posted)
  BY DEF PacketTypeOK
<1> SUFFICES ASSUME NEW k \in 1 .. Len(posted'), posted'[k].kind # "error"
             PROVE  posted'[k].at + posted'[k].rec.size <= Room
  BY DEF VariablesInside
<1>3. CASE k \in 1 .. Len(posted)
  <2>1. posted'[k] = posted[k]
    BY <1>1, <1>2, <1>3
  <2> QED
    BY <2>1, <1>3 DEF VariablesInside
<1>4. CASE k = Len(posted) + 1
  <2>1. posted'[k] = new
    BY <1>1, <1>2, <1>4
  <2> QED
    BY <2>1
<1> QED
  BY <1>1, <1>2, <1>3, <1>4

\* The messages are messages.
LEMMA SaysType ==
  ASSUME PacketTypeOK, OffsetOK, NEW kind \in {"variable", "unknown", "error"}, Says(kind)
  PROVE  posted' \in Seq(Posted)
<1>1. [kind |-> kind, at |-> offset, rec |-> rec] \in Posted
  BY DEF PacketTypeOK, OffsetOK, Posted
<1> QED
  BY <1>1 DEF PacketTypeOK, Says

\* Before the first variable is read.
LEMMA InitInv == ASSUME PacketInit PROVE Inv
<1>1. PacketTypeOK
  <2>1. count \in Nat /\ dealt \in 0 .. count /\ offset \in Nat
    BY PacketAssumption DEF PacketInit
  <2>2. rec \in Record /\ posted \in Seq(Posted)
    BY DEF PacketInit
  <2>3. done \in BOOLEAN
    BY DEF PacketInit
  <2> QED
    BY <2>1, <2>2, <2>3 DEF PacketTypeOK
<1>2. OffsetOK
  BY PacketAssumption DEF PacketInit, OffsetOK
<1>3. VariablesInside /\ StringsEnd
  BY DEF PacketInit, VariablesInside, StringsEnd
<1> QED
  BY <1>1, <1>2, <1>3 DEF Inv

\* A variable that is refused keeps the reader inside the packet.
LEMMA FailInv == ASSUME Inv, FailVariable PROVE Inv'
<1> USE DEF Inv
<1>1. UNCHANGED <<count, dealt, offset, rec>>
  BY DEF FailVariable
<1>2. Says("error") /\ done' = TRUE
  BY DEF FailVariable
<1>3. OffsetOK'
  BY <1>1 DEF OffsetOK
<1>4. VariablesInside' /\ StringsEnd'
  BY <1>2, SaysInside, SaysEnds
<1>5. posted' \in Seq(Posted)
  BY <1>2, SaysType
<1>6. done' \in BOOLEAN
  BY <1>2
<1>7. PacketTypeOK'
  BY <1>1, <1>5, <1>6, Zenon DEF PacketTypeOK
<1> QED
  BY <1>3, <1>4, <1>7

\* So does one that is read.
LEMMA ReadInv == ASSUME Inv, ReadVariable PROVE Inv'
<1> USE DEF Inv
<1>1. dealt < count /\ dealt' = dealt + 1 /\ offset' = offset + rec.size /\ count' = count
  BY DEF ReadVariable, NextOffset
<1>2. ~IsError
  BY DEF ReadVariable
<1>3. done' = done
  BY DEF ReadVariable
<1>4. rec \in Record /\ rec.size \in Nat
  BY RecordSizes DEF PacketTypeOK
<1>5. OffsetOK' /\ offset + rec.size <= Room
  <2>1. ~(rec.size > MaxVarSize)
    BY <1>2 DEF IsError, TooLarge
  <2> QED
    BY <2>1, <1>1, <1>4, Left, PacketAssumption DEF OffsetOK
<1>6. PICK kind \in {"variable", "unknown", "error"} : Says(kind)
  BY DEF ReadVariable
<1>7. VariablesInside' /\ StringsEnd'
  <2>1. rec.type = "STR" /\ rec.size >= VarHeader => offset + VarHeader + rec.len < Room
    BY <1>2, <1>4, PassedEnds
  <2> QED
    BY <1>5, <1>6, <2>1, SaysInside, SaysEnds
<1>8. PacketTypeOK'
  <2>1. count' \in Nat /\ dealt' \in 0 .. count' /\ offset' \in Nat
    BY <1>1, <1>5 DEF PacketTypeOK, OffsetOK
  <2>2. rec' \in Record
    BY <1>4 DEF ReadVariable
  <2>3. posted' \in Seq(Posted)
    BY <1>6, SaysType
  <2>4. done' \in BOOLEAN
    BY <1>3 DEF PacketTypeOK
  <2> QED
    BY <2>1, <2>2, <2>3, <2>4 DEF PacketTypeOK
<1> QED
  BY <1>5, <1>7, <1>8

\* And the end of the loop.
LEMMA ReturnInv == ASSUME Inv, ReturnFromPacket PROVE Inv'
<1>1. UNCHANGED <<count, dealt, offset, rec, posted>> /\ done' = TRUE
  BY DEF ReturnFromPacket
<1>2. PacketTypeOK'
  BY <1>1, Zenon DEF Inv, PacketTypeOK
<1>3. OffsetOK' /\ VariablesInside' /\ StringsEnd'
  BY <1>1 DEF Inv, OffsetOK, VariablesInside, StringsEnd
<1> QED
  BY <1>2, <1>3 DEF Inv

\* Every step of the reader keeps the invariant.
LEMMA NextInv == ASSUME Inv, [PacketNext]_packetVars PROVE Inv'
<1>1. CASE FailVariable
  BY <1>1, FailInv
<1>2. CASE ReadVariable
  BY <1>2, ReadInv
<1>3. CASE ReturnFromPacket
  BY <1>3, ReturnInv
<1>4. CASE UNCHANGED packetVars
  BY <1>4 DEF packetVars, Inv, PacketTypeOK, OffsetOK, VariablesInside, StringsEnd
<1> QED
  BY <1>1, <1>2, <1>3, <1>4 DEF PacketNext

\* However the declared sizes add up, parse_variables looks for no variable
\* behind the end of the packet, and every one it deals with ends inside the
\* packet as far as it declares its size.
THEOREM StaysInside == PacketSpec => []InsidePacket
<1>1. PacketInit => Inv
  BY InitInv
<1>2. Inv /\ [PacketNext]_packetVars => Inv'
  BY NextInv
<1>3. Inv => InsidePacket
  BY DEF Inv, OffsetOK, InsidePacket
<1> QED
  BY <1>1, <1>2, <1>3, PTL DEF PacketSpec

\* Every string that parse_variables passes on, of a variable that declares at
\* least its own header, ends inside the packet.
THEOREM StringsStay == PacketSpec => []StringsEnd
<1>1. PacketInit => Inv
  BY InitInv
<1>2. Inv /\ [PacketNext]_packetVars => Inv'
  BY NextInv
<1>3. Inv => StringsEnd
  BY DEF Inv
<1> QED
  BY <1>1, <1>2, <1>3, PTL DEF PacketSpec

-----------------------------------------------------------------------------
(* Both loops, one call of either *)
LoopsInv ==
  /\ TypeOK /\ Ordered /\ Tiled /\ StartsOnce
  /\ WayInv /\ InLine /\ NoneMissing
  /\ Inv

\* The loops of Device at the start.
LEMMA LoopsInit == MCInit => LoopsInv
<1> SUFFICES ASSUME MCInit PROVE LoopsInv
  OBVIOUS
<1>1. TypeOK /\ WayInv
  <2>1. CASE WayInit
    BY <2>1, TypingInit, WayInvInit DEF WayInit
  <2>2. CASE NoScript
    BY <2>2, DeliveryAssumption DEF NoScript, TypeOK, WayInv
  <2> QED BY <2>1, <2>2 DEF MCInit
<1>2. sent = <<>> /\ start = 0 /\ queue = <<>> /\ out = <<>> /\ got = <<>> /\ (named => start = size)
  BY DEF MCInit, WayInit, Init, NoScript
<1>3. Len(sent) = 0 /\ Len(queue) = 0 /\ Len(out) = 0 /\ Len(got) = 0
  BY <1>2
<1>4. Ordered /\ Tiled /\ StartsOnce
  BY <1>2, <1>3 DEF Ordered, Tiled, StartsOnce, Chunks
<1>5. InLine /\ NoneMissing
  BY <1>3 DEF InLine, NoneMissing, Up, Ahead, AheadOfQueue, QueueUp
<1>6. Inv
  <2>1. CASE NoPacket
    <3>1. rec \in Record /\ posted \in Seq(Posted)
      BY <2>1, PacketAssumption DEF NoPacket, Record
    <3>2. done \in BOOLEAN
      BY <2>1, Zenon DEF NoPacket
    <3>3. count \in Nat /\ dealt \in 0 .. count /\ offset \in Nat /\ offset = 0 /\ Len(posted) = 0
      BY <2>1 DEF NoPacket
    <3>4. OffsetOK /\ VariablesInside /\ StringsEnd
      BY <3>3, PacketAssumption DEF OffsetOK, VariablesInside, StringsEnd
    <3> QED BY <3>1, <3>2, <3>3, <3>4 DEF Inv, PacketTypeOK
  <2> QED BY <2>1, InitInv DEF MCInit
<1> QED BY <1>1, <1>4, <1>5, <1>6 DEF LoopsInv

\* Every step of one of the loops leaves the others' invariants alone.
LEMMA LoopsStep == LoopsInv /\ [MCNext]_<<vars, wayVars, packetVars>> => LoopsInv'
<1> SUFFICES ASSUME LoopsInv, [MCNext]_<<vars, wayVars, packetVars>> PROVE LoopsInv'
  OBVIOUS
<1>1. [WayNext]_<<vars, wayVars>> /\ [PacketNext]_packetVars
  BY DEF MCNext
<1>2. [Next]_vars
  BY <1>1, WayStep
<1>3. TypeOK'
  BY <1>2, TypingStep DEF LoopsInv
<1>4. Ordered' /\ Tiled' /\ StartsOnce'
  BY <1>2, <1>3, TilingStep DEF LoopsInv
<1>5. WayInv' /\ InLine' /\ NoneMissing'
  BY <1>1, WayInvStep, LinedStep DEF LoopsInv
<1>6. Inv'
  BY <1>1, NextInv DEF LoopsInv
<1> QED BY <1>3, <1>4, <1>5, <1>6 DEF LoopsInv

\* Whichever of the two loops runs, every variable keeps its type.
THEOREM LoopsTyping == MCSpec => []TypesOK
<1>1. LoopsInv => TypesOK
  BY WayTypes DEF LoopsInv, Inv, TypesOK
<1> QED BY <1>1, LoopsInit, LoopsStep, PTL DEF MCSpec

\* Whichever of the two loops runs: chunks tile the script, a hole in what a board
\* got has a cause, and of a VARIABLES packet the variables that declare at least
\* their header are read inside the packet, their strings too.  (Of the others
\* only the declared size is known to be inside.)
THEOREM LoopsSafe == MCSpec => [](Tiled /\ HolesExplained /\ InsidePacket /\ StringsEnd)
<1>1. LoopsInv => Tiled /\ HolesExplained /\ InsidePacket /\ StringsEnd
  BY Holes DEF LoopsInv, Inv, OffsetOK, InsidePacket
<1> QED BY <1>1, LoopsInit, LoopsStep, PTL DEF MCSpec

\* Whichever of the two loops runs, packets reach boards in the order they were
\* cut, and none twice.
THEOREM LoopsDeliverInOrder == MCSpec => SentInOrder
<1>1. MCInit => Channel!Init
  BY DEF MCInit, NoScript, WayInit, Init, Channel!Init
<1>2. LoopsInv /\ [MCNext]_<<vars, wayVars, packetVars>> => [Channel!Next]_(Channel!vars)
  <2>1. [MCNext]_<<vars, wayVars, packetVars>> => [WayNext]_<<vars, wayVars>>
    BY DEF MCNext
  <2> QED BY <2>1, ChannelStep DEF LoopsInv
<1> QED BY <1>1, <1>2, LoopsInit, LoopsStep, PTL DEF MCSpec, SentInOrder, Channel!Spec
=============================================================================
