----------------------------- MODULE LossyChannel -----------------------------
(***************************************************************************)
(* What the way from the program to a board promises of what is sent over  *)
(* it: packets may be lost anywhere, but none is doubled, made up or       *)
(* overtaken by another, and the receiver may change in between.           *)
(***************************************************************************)
EXTENDS Integers, Sequences

VARIABLES
  sent,    \* packets handed over so far; a packet is its number
  got      \* packets the boards were given, in order

vars == <<sent, got>>

\* Every variable keeps its type.
TypeOK == sent \in Nat /\ got \in Seq(1 .. sent)

Init == sent = 0 /\ got = <<>>

Send == sent' = sent + 1 /\ UNCHANGED got

Latest == IF got = <<>> THEN 0 ELSE got[Len(got)]

Deliver(m) ==
  /\ Latest < m /\ m <= sent
  /\ got' = Append(got, m)
  /\ UNCHANGED sent

Next == Send \/ \E m \in 1 .. sent : Deliver(m)

Spec == Init /\ [][Next]_vars

\* No packet is given to a board twice, or after one that was sent later.
InOrder == \A i, j \in 1 .. Len(got) : i < j => got[i] < got[j]
=============================================================================
