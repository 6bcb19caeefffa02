----------------------------- MODULE MCGpioPanel -----------------------------
(* GpioPanel with small sets of pins and of states for TLC. *)
EXTENDS GpioPanel

\* A plain input that is off, and a pin with another function.
MCStates ==
  {[io |-> "INPUT", value |-> 0, function |-> 5],
   [io |-> "OUTPUT", value |-> 0, function |-> 1]}

\* The firmware lists its pins from the first one on.
MCOrder ==
  CHOOSE order \in [1 .. Cardinality(Pins) -> Pins] :
    order[1] = FirstPin /\ \A n \in Pins : \E i \in DOMAIN order : order[i] = n
=============================================================================
