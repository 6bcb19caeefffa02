------------------------------ MODULE VarPacket ------------------------------
(***************************************************************************)
(* Device::parse_variables (device/device_control.hpp): the loop over the  *)
(* variables of a VARIABLES packet.  The header counts them; each brings   *)
(* its own size, which is where the next one is looked for.                *)
(*                                                                         *)
(* Bytes are left out.  What is decoded at an offset is a record, any      *)
(* record: the packet may say anything.  The same offset decodes to the    *)
(* same record.  Sizes are size_t and wrap at SizeT.                       *)
(***************************************************************************)
EXTENDS Integers, Sequences

CONSTANTS
  Room,        \* DATA_SIZE - sizeof(data_header_t)
  VarHeader,   \* sizeof(data_variable_t)
  SizeT,       \* 2^w, the range of size_t
  MaxCount     \* bound: variables the header counts

\* A packet is shorter than size_t can count.
ASSUME PacketAssumption ==
  /\ Room \in Nat /\ VarHeader \in Nat \ {0}
  /\ SizeT \in Nat /\ Room < SizeT
  /\ MaxCount \in Nat

VARIABLES
  count,    \* data_header_t::size
  dealt,    \* variables dealt with
  offset,   \* where the next one is looked for
  rec,      \* what is decoded there
  posted,   \* what was posted to the agents, oldest first
  done      \* has the handler returned?

packetVars == <<count, dealt, offset, rec, posted, done>>

\* The declared size, whether the name ends within its 16 bytes, and for a
\* string the number of bytes before the first zero behind the header.
Record == [type : {"BOOL", "FLOAT", "INT"}, size : 0 .. Room + 1, named : BOOLEAN, len : {0}]
            \union [type : {"STR"}, size : 0 .. Room + 1, named : BOOLEAN, len : 0 .. Room + 1]

\* A message: a variable, a remark after which the loop goes on, or an error
\* that ends it; `at` is the offset it is about.
Posted == [kind : {"variable", "unknown", "error"}, at : Nat, rec : Record]

\* Every variable keeps its type.
PacketTypeOK ==
  /\ count \in Nat /\ dealt \in 0 .. count /\ offset \in Nat
  /\ rec \in Record /\ posted \in Seq(Posted)
  /\ done \in BOOLEAN

PacketInit ==
  /\ count \in 0 .. MaxCount
  /\ dealt = 0 /\ offset = 0
  /\ rec \in Record
  /\ posted = <<>>
  /\ done = FALSE

\* max_var_size().
MaxVarSize == (Room - offset) % SizeT

\* Mutant of StrLimit: the variable's own header is forgotten.
StrLimitWhole == MaxVarSize

\* How far strnlen may look for the end of a string.
StrLimit == (MaxVarSize - VarHeader) % SizeT

\* Mutant of TooLarge: the variables before this one are forgotten.
TooLargeForPacket == rec.size > Room

TooLarge == rec.size > MaxVarSize

\* The three checks that end the loop, in this order.
IsError ==
  \/ TooLarge
  \/ ~rec.named
  \/ rec.type = "STR" /\ rec.len >= StrLimit

Says(kind) == posted' = Append(posted, [kind |-> kind, at |-> offset, rec |-> rec])

\* One variable that is wrong.
FailVariable ==
  /\ ~done /\ dealt < count /\ IsError
  /\ Says("error")
  /\ done' = TRUE
  /\ UNCHANGED <<count, dealt, offset, rec>>

\* Where the next variable is looked for.
NextOffset == offset + rec.size

\* One variable that is read, or whose type the program has no case for (INT).
ReadVariable ==
  /\ ~done /\ dealt < count /\ ~IsError
  /\ Says(IF rec.type = "INT" THEN "unknown" ELSE "variable")
  /\ dealt' = dealt + 1
  /\ offset' = NextOffset
  /\ rec' \in IF rec.size = 0 THEN {rec} ELSE Record
  /\ UNCHANGED <<count, done>>

ReturnFromPacket ==
  /\ ~done /\ dealt = count
  /\ done' = TRUE
  /\ UNCHANGED <<count, dealt, offset, rec, posted>>

PacketNext == FailVariable \/ ReadVariable \/ ReturnFromPacket

PacketSpec == PacketInit /\ [][PacketNext]_packetVars

-----------------------------------------------------------------------------
\* A variable that is dealt with lies inside the packet, as far as it declares its
\* size.
VariablesInside ==
  \A k \in 1 .. Len(posted) :
    posted[k].kind # "error" => posted[k].at + posted[k].rec.size <= Room

\* However the sizes of the variables add up, the offset stays inside the packet,
\* so that max_var_size() never wraps around, and so does every variable that is
\* dealt with: what declares at least its header has its header there.  (Of one
\* that declares less nothing is said: it is not refused, and where it stands its
\* header may run past the end.)
InsidePacket == offset <= Room /\ VariablesInside

\* A string that is passed on ends inside the packet, provided its variable
\* declares at least its own header: only then does the limit of strnlen not
\* wrap around (parse_variables checks the size first, and the name).
StringsEnd ==
  \A k \in 1 .. Len(posted) :
    LET m == posted[k]
    IN  m.kind = "variable" /\ m.rec.type = "STR" /\ m.rec.size >= VarHeader
          => m.at + VarHeader + m.rec.len < Room
=============================================================================
