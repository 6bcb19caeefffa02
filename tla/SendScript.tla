------------------------------ MODULE SendScript ------------------------------
(***************************************************************************)
(* Device::send_script (device/device_control.hpp): a script is cut into   *)
(* packets of at most DataSize bytes, each labelled with its place, and    *)
(* its name follows in a packet of its own.  The bytes are left out: a     *)
(* packet is its label and the part of the script it carries.              *)
(***************************************************************************)
EXTENDS Integers, Sequences

CONSTANTS
  DataSize,     \* DATA_SIZE - sizeof(data_header_t)
  MaxScript,    \* bound: length of the script, in bytes
  MaxName       \* bound: length of its name

ASSUME ScriptAssumption ==
  DataSize \in Nat \ {0} /\ MaxScript \in Nat /\ MaxName \in Nat

VARIABLES
  size,    \* script.size()
  name,    \* name.size()
  start,   \* the first byte not yet sent
  sent,    \* the packets handed to send(), oldest first
  named    \* has the packet with the name been sent?

vars == <<size, name, start, sent, named>>

\* data_type_t, as far as scripts go.
DataTypes == {"SCRIPT_DATA_START", "SCRIPT_DATA_START_END", "SCRIPT_DATA_N",
              "SCRIPT_DATA_END", "SCRIPT_NAME"}
NameLimit == 32

\* Every variable keeps its type.
TypeOK ==
  /\ size \in Nat /\ name \in Nat
  /\ start \in 0 .. size
  /\ sent \in Seq([type : DataTypes, from : Nat, size : Nat])
  /\ named \in BOOLEAN

Least(a, b) == IF a <= b THEN a ELSE b

\* Mutants of ChunkEnd: a chunk one byte too long; a chunk past the end of the
\* script.
ChunkEndOffByOne(s) == Least(s + DataSize + 1, size)
ChunkEndUnclipped(s) == s + DataSize
ChunkEnd(s) == Least(s + DataSize, size)

ChunkType(s, e) ==
  CASE s = 0 /\ size > DataSize     -> "SCRIPT_DATA_START"
    [] s = 0 /\ size <= DataSize    -> "SCRIPT_DATA_START_END"
    [] s # 0 /\ e - s > DataSize    -> "SCRIPT_DATA_N"
    [] s # 0 /\ e - s <= DataSize   -> "SCRIPT_DATA_END"

Init ==
  /\ size \in 0 .. MaxScript
  /\ name \in 0 .. MaxName
  /\ start = 0
  /\ sent = <<>>
  /\ named = FALSE

\* One round of the while loop.
SendChunk ==
  /\ start < size
  /\ sent' = Append(sent, [type |-> ChunkType(start, ChunkEnd(start)),
                           from |-> start,
                           size |-> ChunkEnd(start) - start])
  /\ start' = ChunkEnd(start)
  /\ UNCHANGED <<size, name, named>>

\* The packet with the name, cut to 32 bytes and terminated.
SendName ==
  /\ start >= size /\ ~named
  /\ sent' = Append(sent, [type |-> "SCRIPT_NAME", from |-> 0, size |-> Least(name, NameLimit) + 1])
  /\ named' = TRUE
  /\ UNCHANGED <<size, name, start>>

Next == SendChunk \/ SendName

Spec == Init /\ [][Next]_vars

-----------------------------------------------------------------------------
Chunks == {i \in 1 .. Len(sent) : sent[i].type # "SCRIPT_NAME"}

\* The chunks tile what has been sent of the script: each starts where the one
\* before it ended, none is empty or larger than a packet holds, and the last
\* one ends at start.
Tiled ==
  \A i \in Chunks :
    /\ sent[i].size \in 1 .. DataSize
    /\ sent[i].from = (IF i = 1 THEN 0 ELSE sent[i - 1].from + sent[i - 1].size)
    /\ i + 1 \notin Chunks => sent[i].from + sent[i].size = start

\* The first chunk, and no other, says that a script begins; it says that the
\* script ends with it exactly when it is the only one.
StartsOnce ==
  \A i \in Chunks :
    /\ sent[i].type \in {"SCRIPT_DATA_START", "SCRIPT_DATA_START_END"} <=> i = 1
    /\ sent[i].type = "SCRIPT_DATA_START_END" <=> sent[i].from = 0 /\ sent[i].size = size

\* The protocol has labels for a first, a middle and a last chunk
\* (device/protocol.hpp): the label for the last one is on the last one only.
EndIsLast ==
  \A i \in Chunks : sent[i].type = "SCRIPT_DATA_END" => sent[i].from + sent[i].size = size
=============================================================================
