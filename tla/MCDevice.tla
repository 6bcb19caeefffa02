------------------------------- MODULE MCDevice -------------------------------
(***************************************************************************)
(* The two loops of device::Device over packets, for TLC: a behaviour is   *)
(* one call of send_script, with the way its packets take, or one call of  *)
(* parse_variables.  Both run on the worker, one at a time, and share no   *)
(* state.                                                                  *)
(***************************************************************************)
EXTENDS ScriptDelivery, VarPacket

NoPacket ==
  /\ count = 0 /\ dealt = 0 /\ offset = 0 /\ posted = <<>>
  /\ rec = [type |-> "BOOL", size |-> 0, named |-> TRUE, len |-> 0]
  /\ done = TRUE

NoScript ==
  /\ size = 0 /\ name = 0 /\ start = 0 /\ sent = <<>> /\ named = TRUE
  /\ queue = <<>> /\ out = <<>> /\ got = <<>> /\ gotBy = <<>>
  /\ conn = 0 /\ plugs = MaxPlugs
  /\ lost = {} /\ refused = {} /\ logged = {}

MCInit == \/ WayInit /\ NoPacket
          \/ NoScript /\ PacketInit

MCNext == \/ WayNext /\ UNCHANGED packetVars
          \/ PacketNext /\ UNCHANGED <<vars, wayVars>>

MCSpec ==
  /\ MCInit /\ [][MCNext]_<<vars, wayVars, packetVars>>
  /\ WayFairness

\* Every variable keeps its type.
TypesOK == WayTypeOK /\ PacketTypeOK
=============================================================================
