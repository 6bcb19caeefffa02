----------------------------- MODULE DelayedView -----------------------------
(***************************************************************************)
(* What every hop of the path from the bus to the screen promises: a       *)
(* listener's view of a two-valued source is a delayed copy.  Once it      *)
(* listens it is given every announced value, once, in order, and no       *)
(* other.  The source may be announced again without having changed.       *)
(*                                                                         *)
(* CatchUp says whether a listener that starts late is told what it        *)
(* missed; if not, it learns of the source at the next announcement.       *)
(***************************************************************************)
EXTENDS Naturals, Sequences

CONSTANTS CatchUp

VARIABLES
  source,     \* the value that is announced
  pending,    \* announcements on their way, oldest first
  view,       \* the listener's value
  listening   \* has the listener started?

vars == <<source, pending, view, listening>>

\* The value the view comes to when all of p has been delivered.
Settled(v, p) == IF p = <<>> THEN v ELSE p[Len(p)]

Init ==
  /\ source = FALSE
  /\ pending = <<>>
  /\ view = FALSE
  /\ listening = FALSE

Announce(b) ==
  /\ source' = b
  /\ pending' = IF listening THEN Append(pending, b) ELSE pending
  /\ UNCHANGED <<view, listening>>

Listen ==
  /\ ~listening
  /\ listening' = TRUE
  /\ pending' \in Seq(BOOLEAN)
  /\ IF CatchUp THEN Settled(view, pending') = source ELSE pending' = <<>>
  /\ UNCHANGED <<source, view>>

Deliver ==
  /\ pending # <<>>
  /\ view' = Head(pending)
  /\ pending' = Tail(pending)
  /\ UNCHANGED <<source, listening>>

Next == Listen \/ Deliver \/ \E b \in BOOLEAN : Announce(b)

Spec == Init /\ [][Next]_vars

\* Every variable keeps its type.
TypeOK ==
  /\ source \in BOOLEAN
  /\ pending \in Seq(BOOLEAN)
  /\ view \in BOOLEAN
  /\ listening \in BOOLEAN

\* A listener that was told what it missed will come to the source's value.
Faithful == listening /\ CatchUp => Settled(view, pending) = source
=============================================================================
