-------------------------- MODULE DelayedView_proofs --------------------------
(***************************************************************************)
(* What follows from a view being a delayed copy.                          *)
(***************************************************************************)
EXTENDS DelayedView, TLAPS

\* Announcing a value settles the view on it; delivering one changes nothing.
LEMMA SettledMoves ==
  ASSUME NEW S, NEW p \in Seq(S), NEW v \in S
  PROVE  /\ \A b \in S : Append(p, b) \in Seq(S) /\ Settled(v, Append(p, b)) = b
         /\ p # <<>> => /\ Head(p) \in S /\ Tail(p) \in Seq(S)
                        /\ Settled(Head(p), Tail(p)) = Settled(v, p)
<1>1. ASSUME NEW b \in S
      PROVE  Append(p, b) \in Seq(S) /\ Settled(v, Append(p, b)) = b
  BY DEF Settled
<1>2. ASSUME p # <<>>
      PROVE  /\ Head(p) \in S /\ Tail(p) \in Seq(S)
             /\ Settled(Head(p), Tail(p)) = Settled(v, p)
  <2>1. Len(p) \in Nat \ {0} /\ Len(Tail(p)) = Len(p) - 1
    BY <1>2
  <2>2. Tail(p) = <<>> <=> Len(p) = 1
    BY <1>2, <2>1
  <2>3. Len(p) # 1 => Tail(p)[Len(Tail(p))] = p[Len(p)]
    BY <1>2, <2>1
  <2> QED BY <1>2, <2>1, <2>2, <2>3 DEF Settled
<1> QED BY <1>1, <1>2

\* Every variable keeps its type.
THEOREM ViewTyping == Spec => []TypeOK
<1>1. Init => TypeOK
  <2>1. \A b : b = FALSE => b \in BOOLEAN
    OBVIOUS
  <2> QED BY <2>1 DEF Init, TypeOK
<1>2. TypeOK /\ [Next]_vars => TypeOK'
  <2> SUFFICES ASSUME TypeOK, [Next]_vars PROVE TypeOK'
    OBVIOUS
  <2>1. CASE Listen
    <3>1. listening' \in BOOLEAN
      BY <2>1, Zenon DEF Listen
    <3> QED BY <2>1, <3>1 DEF Listen, TypeOK
  <2>2. CASE Deliver
    BY <2>2, SettledMoves DEF Deliver, TypeOK
  <2>3. ASSUME NEW b \in BOOLEAN, Announce(b) PROVE TypeOK'
    BY <2>3, SettledMoves DEF Announce, TypeOK
  <2>4. CASE UNCHANGED vars
    BY <2>4 DEF vars, TypeOK
  <2> QED BY <2>1, <2>2, <2>3, <2>4 DEF Next
<1> QED BY <1>1, <1>2, PTL DEF Spec

\* A listener that was told what it missed comes to the source's value as soon
\* as everything on its way has been delivered.
THEOREM FaithfulView == Spec => []Faithful
<1>1. Init => Faithful
  BY Zenon DEF Init, Faithful
<1>2. TypeOK /\ Faithful /\ [Next]_vars => Faithful'
  <2> SUFFICES ASSUME TypeOK, Faithful, [Next]_vars PROVE Faithful'
    OBVIOUS
  <2>1. CASE Listen
    BY <2>1, Zenon DEF Listen, Faithful
  <2>2. CASE Deliver
    <3>1. Settled(view', pending') = Settled(view, pending)
      BY <2>2, SettledMoves DEF Deliver, TypeOK
    <3> QED BY <2>2, <3>1, Zenon DEF Deliver, Faithful
  <2>3. ASSUME NEW b \in BOOLEAN, Announce(b) PROVE Faithful'
    <3>1. listening => Settled(view', pending') = b
      BY <2>3, SettledMoves DEF Announce, TypeOK
    <3> QED BY <2>3, <3>1, Zenon DEF Announce, Faithful
  <2>4. CASE UNCHANGED vars
    BY <2>4, Zenon DEF vars, Faithful
  <2> QED BY <2>1, <2>2, <2>3, <2>4 DEF Next
<1> QED BY <1>1, <1>2, ViewTyping, PTL DEF Spec
=============================================================================
