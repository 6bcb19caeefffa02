------------------------------- MODULE MCEditor -------------------------------
(***************************************************************************)
(* Documents and WheelCursor for TLC.  They share no state: a behaviour is *)
(* one of the two.                                                         *)
(***************************************************************************)
EXTENDS Documents, WheelCursor

MCInit == DocsInit /\ WheelInit

\* A behaviour that has begun with one of the two stays with it.
MCNext ==
  \/ DocsNext /\ text = <<>> /\ UNCHANGED wheelVars
  \/ WheelNext /\ opened = 0 /\ events = 0 /\ proc = "up" /\ UNCHANGED allDocVars

MCSpec == MCInit /\ [][MCNext]_<<allDocVars, wheelVars>>

\* Every variable keeps its type.
TypesOK == DocsTypeOK /\ WheelTypeOK
=============================================================================
