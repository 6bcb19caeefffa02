--------------------------- MODULE Readout_proofs ---------------------------
(***************************************************************************)
(* Proofs about Readout and its Logger, for all names, values, lengths of  *)
(* rows, packets and logs.                                                 *)
(***************************************************************************)
EXTENDS Readout, FiniteSetTheorems, FunctionTheorems, WellFoundedInduction, TLAPS

-----------------------------------------------------------------------------
(* Positions *)

\* A set of positions that is not empty has a first one.
LEMMA FirstPosition ==
  ASSUME NEW S \in SUBSET Nat, S # {}
  PROVE  \E x \in S : \A y \in S : x <= y
<1> DEFINE R == OpToRel(<, Nat)
<1>1. IsWellFoundedOn(R, Nat)
  BY NatLessThanWellFounded
<1> HIDE DEF R
<1>2. PICK x \in S : \A y \in S : ~ (<<y, x>> \in R)
  BY <1>1, WFMin
<1>3. \A y \in S : ~ (y < x)
  BY <1>2 DEF R, OpToRel
<1>4. \A y \in S : x <= y
  BY <1>3
<1> QED BY <1>4

\* A bounded one has a last one.
LEMMA LastPosition ==
  ASSUME NEW N \in Nat, NEW S \in SUBSET (1 .. N), S # {}
  PROVE  \E i \in S : \A j \in S : j <= i
<1> DEFINE D == {N - i : i \in S}
<1>0. \A i \in S : i \in 1 .. N /\ N - i \in Nat
  OBVIOUS
<1>1. D \in SUBSET Nat /\ D # {}
  BY <1>0
<1>2. PICK x \in D : \A y \in D : x <= y
  BY <1>1, FirstPosition
<1>3. PICK i \in S : x = N - i
  OBVIOUS
<1>4. \A j \in S : j <= i
  <2> TAKE j \in S
  <2>1. N - j \in D /\ j \in 1 .. N /\ i \in 1 .. N
    BY <1>0
  <2>2. N - i <= N - j
    BY <1>2, <1>3, <2>1
  <2> QED BY <2>1, <2>2
<1> QED BY <1>4

\* The queue when its head is served.
LEMMA Served ==
  ASSUME NEW S, NEW q \in Seq(S), q # <<>>
  PROVE  /\ Len(q) \in Nat \ {0} /\ Head(q) = q[1] /\ Head(q) \in S
         /\ Tail(q) \in Seq(S) /\ Len(Tail(q)) = Len(q) - 1
         /\ \A i \in 1 .. Len(q) - 1 : Tail(q)[i] = q[i + 1]
  OBVIOUS

\* The queue when ms is posted.
LEMMA Posted ==
  ASSUME NEW S, NEW q \in Seq(S), NEW ms \in Seq(S)
  PROVE  /\ Len(q) \in Nat /\ Len(ms) \in Nat
         /\ q \o ms \in Seq(S) /\ Len(q \o ms) = Len(q) + Len(ms)
         /\ \A i \in 1 .. Len(q) : (q \o ms)[i] = q[i]
         /\ \A i \in 1 .. Len(ms) : (q \o ms)[Len(q) + i] = ms[i]
  OBVIOUS

\* A sequence with one more.
LEMMA Appended ==
  ASSUME NEW S, NEW q \in Seq(S), NEW x \in S
  PROVE  /\ Append(q, x) \in Seq(S) /\ Len(q) \in Nat /\ Len(Append(q, x)) = Len(q) + 1
         /\ Append(q, x)[Len(q) + 1] = x
         /\ \A i \in 1 .. Len(q) : Append(q, x)[i] = q[i]
  OBVIOUS

-----------------------------------------------------------------------------
(* Types *)

\* What packets and messages carry.
LEMMA Carries ==
  /\ \A p \in Packet : p.type # "TEXT_MESSAGE" => p.type = "VARIABLES" /\ p.vars \in Seq(Var)
  /\ \A m \in Message : m.k = "variable" => m.name \in Shown /\ m.val \in Values
  /\ \A m \in Message : m.k = "message" => m.line \in Nat
  /\ \A m \in Message : m.k = "variable" \/ m.k = "message" \/ m = Nobody
  /\ Nobody \in Message /\ Nobody.k # "variable" /\ Nobody.k # "message"
  BY DEF Packet, Message, Nobody

\* The messages Device makes: a variable is no remark, whether it is heard or
\* not, and a remark is one once Gui listens.
LEMMA Makes ==
  /\ \A v \in Var : \A h : Variable(v, h) \in Message /\ Variable(v, h).k # "message"
  /\ \A n \in Nat : /\ Remark(n) \in Message
                    /\ guiUp => Remark(n).k = "message" /\ Remark(n).line = n
                    /\ ~guiUp => Remark(n).k # "message"
<1>1. ASSUME NEW v \in Var, NEW h
      PROVE  Variable(v, h) \in Message /\ Variable(v, h).k # "message"
  <2>1. [k |-> "variable", name |-> v.name, val |-> v.val] \in Message
    BY DEF Message, Var
  <2> QED BY <2>1, Carries DEF Variable
<1>2. ASSUME NEW n \in Nat
      PROVE  /\ Remark(n) \in Message
             /\ guiUp => Remark(n).k = "message" /\ Remark(n).line = n
             /\ ~guiUp => Remark(n).k # "message"
  <2>1. [k |-> "message", line |-> n] \in Message
    BY DEF Message
  <2> QED BY <2>1, Carries DEF Remark
<1> QED BY <1>1, <1>2

\* The variables a receive delivers are variables.
LEMMA CutVar ==
  /\ ZeroVar \in Var
  /\ \A v \in Var : Cut(v) \subseteq Var
<1>1. ZeroVar \in Var
  BY ReadoutAssumption DEF ZeroVar, Var, Shown
<1>2. ASSUME NEW v \in Var PROVE Cut(v) \subseteq Var
  <2>1. [v EXCEPT !.name = Stub, !.ends = TRUE, !.val = Zero] \in Var
    BY ReadoutAssumption DEF Var, Shown
  <2>2. [v EXCEPT !.val = Zero] \in Var
    BY ReadoutAssumption DEF Var, Shown
  <2> QED BY <1>1, <2>1, <2>2 DEF Cut
<1> QED BY <1>1, <1>2

\* What a receive delivers of a packet is a packet.
LEMMA ReceivedPacket ==
  ASSUME NEW p \in Packet
  PROVE  Received(p) \subseteq Packet
<1>1. CASE p.type # "VARIABLES"
  BY <1>1 DEF Received
<1>2. CASE p.type = "VARIABLES"
  <2>1. p.vars \in Seq(Var) /\ p \in [type : {"VARIABLES"}, vars : Seq(Var)]
    BY <1>2 DEF Packet
  <2> DEFINE Got(n, c) == [k \in DOMAIN p.vars |-> IF k <= n THEN p.vars[k] ELSE IF k = n + 1 THEN c ELSE ZeroVar]
  <2>2. \A n, c : c \in Var => Got(n, c) \in Seq(Var)
    <3> TAKE n, c
    <3> HAVE c \in Var
    <3>1. DOMAIN p.vars = 1 .. Len(p.vars) /\ Len(p.vars) \in Nat /\ \A k \in 1 .. Len(p.vars) : p.vars[k] \in Var
      BY <2>1
    <3>2. \A k \in 1 .. Len(p.vars) : (IF k <= n THEN p.vars[k] ELSE IF k = n + 1 THEN c ELSE ZeroVar) \in Var
      BY <3>1, CutVar
    <3> QED BY <3>1, <3>2
  <2>3. ASSUME NEW n \in 0 .. Len(p.vars) - 1, NEW c \in Cut(p.vars[n + 1])
        PROVE  [p EXCEPT !.vars = Got(n, c)] \in Packet
    <3>1. p.vars[n + 1] \in Var
      BY <2>1
    <3>2. Got(n, c) \in Seq(Var)
      BY <2>2, <3>1, CutVar
    <3> HIDE DEF Got
    <3> QED BY <2>1, <3>2 DEF Packet
  <2>4. Received(p) = {p} \union UNION {{[p EXCEPT !.vars = Got(n, c)] : c \in Cut(p.vars[n + 1])} : n \in 0 .. Len(p.vars) - 1}
    BY <1>2 DEF Received
  <2> HIDE DEF Got
  <2> QED BY <2>3, <2>4
<1> QED BY <1>1, <1>2

\* What parse_variables looks at are variables of the packet.
LEMMA ParsedVars ==
  ASSUME NEW vs \in Seq(Var)
  PROVE  Parsed(vs) \in Seq(Var)
<1> DEFINE bad == {k \in DOMAIN vs : ~vs[k].ends}
<1>1. DOMAIN vs = 1 .. Len(vs) /\ Len(vs) \in Nat
  OBVIOUS
<1>2. CASE bad = {}
  BY <1>2 DEF Parsed
<1>3. CASE bad # {}
  <2>1. bad \in SUBSET Nat
    BY <1>1
  <2>2. \E k \in bad : \A j \in bad : k <= j
    BY <1>3, <2>1, FirstPosition
  <2> DEFINE first == CHOOSE k \in bad : \A j \in bad : k <= j
  <2>3. first \in bad
    BY <2>2
  <2>4. first \in 1 .. Len(vs)
    BY <1>1, <2>3
  <2>5. Parsed(vs) = SubSeq(vs, 1, first)
    BY <1>3 DEF Parsed
  <2> HIDE DEF first, bad
  <2> QED BY <1>1, <2>4, <2>5
<1> QED BY <1>2, <1>3

\* How many of the first k of the variables vs are remarked upon.
RemarksTo(vs, k) == {j \in 1 .. k : ~Passed(vs[j])}

\* They are those that Remarks counts, and there are finitely many.
LEMMA RemarksOf ==
  ASSUME NEW vs \in Seq(Var), NEW k \in 0 .. Len(vs)
  PROVE  /\ Remarks(SubSeq(vs, 1, k)) = Cardinality(RemarksTo(vs, k))
         /\ IsFiniteSet(RemarksTo(vs, k)) /\ Cardinality(RemarksTo(vs, k)) \in Nat
<1>1. k \in Nat /\ Len(SubSeq(vs, 1, k)) = k /\ DOMAIN SubSeq(vs, 1, k) = 1 .. k
      /\ \A j \in 1 .. k : SubSeq(vs, 1, k)[j] = vs[j]
  OBVIOUS
<1>2. {j \in DOMAIN SubSeq(vs, 1, k) : ~Passed(SubSeq(vs, 1, k)[j])} = RemarksTo(vs, k)
  BY <1>1 DEF RemarksTo
<1>3. IsFiniteSet(1 .. k)
  BY <1>1, FS_Interval
<1>4. IsFiniteSet(RemarksTo(vs, k))
  BY <1>3, FS_Subset DEF RemarksTo
<1> QED BY <1>2, <1>4, FS_CardinalityType DEF Remarks

\* All of a sequence.
LEMMA RemarksAll ==
  ASSUME NEW vs \in Seq(Var)
  PROVE  Remarks(vs) = Cardinality(RemarksTo(vs, Len(vs))) /\ Remarks(vs) \in Nat
<1>1. SubSeq(vs, 1, Len(vs)) = vs /\ Len(vs) \in 0 .. Len(vs)
  OBVIOUS
<1>2. /\ Remarks(SubSeq(vs, 1, Len(vs))) = Cardinality(RemarksTo(vs, Len(vs)))
      /\ Cardinality(RemarksTo(vs, Len(vs))) \in Nat
  BY <1>1, RemarksOf
<1> QED BY <1>1, <1>2

\* How many remarks a packet gives that Gui hears.
Given(p) == IF ~guiUp THEN 0 ELSE IF p.type = "TEXT_MESSAGE" THEN 1 ELSE Remarks(Parsed(p.vars))

\* What Device sends about a packet: a message for each variable it looks at, or
\* one remark.
LEMMA SaysMessages ==
  ASSUME NEW p \in Packet, NEW d, told \in Nat
  PROVE  /\ Says(p, d) \in Seq(Message) /\ Given(p) \in Nat
         /\ p.type = "TEXT_MESSAGE" => Says(p, d) = <<Remark(told + 1)>>
         /\ p.type # "TEXT_MESSAGE" =>
              LET vs == Parsed(p.vars)
              IN  /\ vs \in Seq(Var) /\ Len(Says(p, d)) = Len(vs)
                  /\ \A k \in 1 .. Len(vs) :
                       Says(p, d)[k] = IF Passed(vs[k]) THEN Variable(vs[k], k > d)
                                    ELSE Remark(told + Cardinality(RemarksTo(vs, k)))
<1>1. CASE p.type = "TEXT_MESSAGE"
  <2>1. Remark(told + 1) \in Message
    BY Makes
  <2> QED BY <1>1, <2>1 DEF Says, Given
<1>2. CASE p.type # "TEXT_MESSAGE"
  <2> DEFINE vs == Parsed(p.vars)
             m(k) == IF Passed(vs[k]) THEN Variable(vs[k], k > d)
                     ELSE Remark(told + Remarks(SubSeq(vs, 1, k)))
  <2>1. vs \in Seq(Var) /\ Len(vs) \in Nat /\ DOMAIN vs = 1 .. Len(vs)
    BY <1>2, Carries, ParsedVars
  <2>2. Says(p, d) = [k \in 1 .. Len(vs) |-> m(k)]
    BY <1>2, <2>1 DEF Says
  <2> HIDE DEF vs
  <2>3. \A k \in 1 .. Len(vs) :
          /\ vs[k] \in Var
          /\ Remarks(SubSeq(vs, 1, k)) = Cardinality(RemarksTo(vs, k))
          /\ Remarks(SubSeq(vs, 1, k)) \in Nat
    <3> TAKE k \in 1 .. Len(vs)
    <3>1. k \in 0 .. Len(vs) /\ vs[k] \in Var
      BY <2>1
    <3> QED BY <2>1, <3>1, RemarksOf
  <2>4. \A k \in 1 .. Len(vs) : m(k) \in Message
    <3> TAKE k \in 1 .. Len(vs)
    <3>1. told + Remarks(SubSeq(vs, 1, k)) \in Nat
      BY <2>3
    <3> QED BY <2>3, <3>1, Makes
  <2>5. \A k \in 1 .. Len(vs) :
          m(k) = IF Passed(vs[k]) THEN Variable(vs[k], k > d)
                 ELSE Remark(told + Cardinality(RemarksTo(vs, k)))
    BY <2>3
  <2> HIDE DEF m
  <2>6. /\ Says(p, d) \in Seq(Message) /\ Len(Says(p, d)) = Len(vs)
        /\ \A k \in 1 .. Len(vs) : Says(p, d)[k] = m(k)
    BY <2>1, <2>2, <2>4
  <2>7. Given(p) \in Nat
    BY <1>2, <2>1, RemarksAll DEF Given, vs
  <2> QED BY <1>2, <2>1, <2>5, <2>6, <2>7 DEF vs
<1> QED BY <1>1, <1>2

-----------------------------------------------------------------------------
(* Values *)

\* The i-th of the messages ms is about the name n.
About(ms, i, n) == ms[i].k = "variable" /\ ms[i].name = n

\* v is the last value for n among ms, or what was known before if there is none.
IsLast(ms, n, now, v) ==
  \/ \E i \in 1 .. Len(ms) : /\ About(ms, i, n) /\ ms[i].val = v
                             /\ \A j \in 1 .. Len(ms) : About(ms, j, n) => j <= i
  \/ (\A j \in 1 .. Len(ms) : ~About(ms, j, n)) /\ v = now

\* That is what LastValue is.
LEMMA LastIs ==
  ASSUME NEW ms \in Seq(Message), NEW n, NEW now, NEW v
  PROVE  v = LastValue(ms, n, now) <=> IsLast(ms, n, now, v)
<1> DEFINE K == {k \in DOMAIN ms : ms[k].k = "variable" /\ ms[k].name = n}
<1>0. DOMAIN ms = 1 .. Len(ms) /\ Len(ms) \in Nat
  OBVIOUS
<1>1. \A k \in 1 .. Len(ms) : k \in K <=> About(ms, k, n)
  BY <1>0 DEF About
<1>2. CASE K = {}
  <2>1. \A j \in 1 .. Len(ms) : ~About(ms, j, n)
    BY <1>1, <1>2
  <2>2. LastValue(ms, n, now) = now
    BY <1>2 DEF LastValue
  <2> QED BY <2>1, <2>2 DEF IsLast
<1>3. CASE K # {}
  <2>1. K \in SUBSET (1 .. Len(ms))
    BY <1>0
  <2>2. \E k \in K : \A j \in K : j <= k
    BY <1>0, <1>3, <2>1, LastPosition
  <2> DEFINE last == CHOOSE k \in K : \A j \in K : j <= k
  <2>3. last \in K /\ \A j \in K : j <= last
    BY <2>2
  <2>4. LastValue(ms, n, now) = ms[last].val
    BY <1>3 DEF LastValue
  <2> HIDE DEF last, K
  <2>5. last \in 1 .. Len(ms) /\ About(ms, last, n) /\ \A j \in 1 .. Len(ms) : About(ms, j, n) => j <= last
    BY <1>1, <2>1, <2>3
  <2>6. ASSUME NEW i \in 1 .. Len(ms), About(ms, i, n), \A j \in 1 .. Len(ms) : About(ms, j, n) => j <= i
        PROVE  i = last
    <3>1. i <= last /\ last <= i /\ last \in 1 .. Len(ms)
      BY <2>5, <2>6
    <3> QED BY <1>0, <3>1
  <2>7. ASSUME v = LastValue(ms, n, now) PROVE IsLast(ms, n, now, v)
    BY <2>4, <2>5, <2>7 DEF IsLast
  <2>8. ASSUME IsLast(ms, n, now, v) PROVE v = LastValue(ms, n, now)
    BY <2>4, <2>5, <2>6, <2>8 DEF IsLast
  <2> QED BY <2>7, <2>8
<1> QED BY <1>2, <1>3

\* It is a value, or what was known before.
LEMMA LastType ==
  ASSUME NEW ms \in Seq(Message), NEW n, NEW now
  PROVE  LastValue(ms, n, now) \in Values \union {now}
<1>1. IsLast(ms, n, now, LastValue(ms, n, now))
  BY LastIs
<1>2. \A i \in 1 .. Len(ms) : ms[i] \in Message
  OBVIOUS
<1> QED BY <1>1, <1>2, Carries DEF IsLast, About

\* Serving a message: what it says is then what was known before.
LEMMA LastServed ==
  ASSUME NEW q \in Seq(Message), q # <<>>, NEW n, NEW now, NEW next,
         next = IF About(q, 1, n) THEN q[1].val ELSE now
  PROVE  LastValue(q, n, now) = LastValue(Tail(q), n, next)
<1> DEFINE r == Tail(q)
           v == LastValue(r, n, next)
<1>0. /\ Len(q) \in Nat \ {0} /\ r \in Seq(Message) /\ Len(r) = Len(q) - 1
      /\ \A i \in 1 .. Len(q) - 1 : r[i] = q[i + 1]
  BY Served
<1>1. IsLast(r, n, next, v)
  BY <1>0, LastIs
<1> HIDE DEF r, v
<1>2. \A i \in 1 .. Len(r) : About(r, i, n) <=> About(q, i + 1, n)
  BY <1>0 DEF About
<1>3. \A j \in 1 .. Len(q) : j = 1 \/ (j - 1 \in 1 .. Len(r) /\ j = (j - 1) + 1)
  BY <1>0
<1>4. CASE \E i \in 1 .. Len(r) : /\ About(r, i, n) /\ r[i].val = v
                                  /\ \A j \in 1 .. Len(r) : About(r, j, n) => j <= i
  <2>1. PICK i \in 1 .. Len(r) : /\ About(r, i, n) /\ r[i].val = v
                                 /\ \A j \in 1 .. Len(r) : About(r, j, n) => j <= i
    BY <1>4
  <2>2. i + 1 \in 1 .. Len(q) /\ About(q, i + 1, n) /\ q[i + 1].val = v
    BY <1>0, <1>2, <2>1
  <2>3. \A j \in 1 .. Len(q) : About(q, j, n) => j <= i + 1
    <3> SUFFICES ASSUME NEW j \in 1 .. Len(q), About(q, j, n) PROVE j <= i + 1
      OBVIOUS
    <3>1. CASE j = 1
      BY <1>0, <3>1
    <3>2. CASE j - 1 \in 1 .. Len(r) /\ j = (j - 1) + 1
      <4>1. About(r, j - 1, n)
        BY <1>2, <3>2
      <4>2. j - 1 <= i
        BY <2>1, <3>2, <4>1
      <4> QED BY <1>0, <4>2
    <3> QED BY <1>3, <3>1, <3>2
  <2>4. IsLast(q, n, now, v)
    BY <2>2, <2>3 DEF IsLast
  <2> QED BY <2>4, LastIs DEF v, r
<1>5. CASE (\A j \in 1 .. Len(r) : ~About(r, j, n)) /\ v = next
  <2>1. \A j \in 1 .. Len(q) : About(q, j, n) => j = 1
    BY <1>2, <1>3, <1>5
  <2>2. 1 \in 1 .. Len(q)
    BY <1>0
  <2>3. CASE About(q, 1, n)
    <3>1. v = q[1].val /\ \A j \in 1 .. Len(q) : About(q, j, n) => j <= 1
      BY <1>5, <2>1, <2>3
    <3>2. IsLast(q, n, now, v)
      BY <2>2, <2>3, <3>1 DEF IsLast
    <3> QED BY <3>2, LastIs DEF v, r
  <2>4. CASE ~About(q, 1, n)
    <3>1. IsLast(q, n, now, v)
      BY <1>5, <2>1, <2>4 DEF IsLast
    <3> QED BY <3>1, LastIs DEF v, r
  <2> QED BY <2>3, <2>4
<1> QED BY <1>1, <1>4, <1>5 DEF IsLast

\* Posting ms: what was known is what the queue says.
LEMMA LastPosted ==
  ASSUME NEW q \in Seq(Message), NEW ms \in Seq(Message), NEW n, NEW now
  PROVE  LastValue(q \o ms, n, now) = LastValue(ms, n, LastValue(q, n, now))
<1> DEFINE r == q \o ms
           was == LastValue(q, n, now)
           v == LastValue(ms, n, was)
<1>0. /\ Len(q) \in Nat /\ Len(ms) \in Nat /\ r \in Seq(Message) /\ Len(r) = Len(q) + Len(ms)
      /\ \A i \in 1 .. Len(q) : r[i] = q[i]
      /\ \A i \in 1 .. Len(ms) : r[Len(q) + i] = ms[i]
  BY Posted
<1>1. IsLast(ms, n, was, v) /\ IsLast(q, n, now, was)
  BY LastIs
<1>9. IsLast(r, n, now, v) => LastValue(r, n, now) = v
  BY <1>0, LastIs
<1> HIDE DEF r, was, v
<1>2. /\ \A i \in 1 .. Len(q) : i \in 1 .. Len(r) /\ (About(r, i, n) <=> About(q, i, n))
      /\ \A i \in 1 .. Len(ms) : Len(q) + i \in 1 .. Len(r) /\ (About(r, Len(q) + i, n) <=> About(ms, i, n))
  BY <1>0 DEF About
<1>3. \A j \in 1 .. Len(r) : j \in 1 .. Len(q) \/ (j - Len(q) \in 1 .. Len(ms) /\ j = Len(q) + (j - Len(q)))
  BY <1>0
<1>4. CASE \E i \in 1 .. Len(ms) : /\ About(ms, i, n) /\ ms[i].val = v
                                   /\ \A j \in 1 .. Len(ms) : About(ms, j, n) => j <= i
  <2>1. PICK i \in 1 .. Len(ms) : /\ About(ms, i, n) /\ ms[i].val = v
                                  /\ \A j \in 1 .. Len(ms) : About(ms, j, n) => j <= i
    BY <1>4
  <2>2. Len(q) + i \in 1 .. Len(r) /\ About(r, Len(q) + i, n) /\ r[Len(q) + i].val = v
    BY <1>0, <1>2, <2>1
  <2>3. \A j \in 1 .. Len(r) : About(r, j, n) => j <= Len(q) + i
    <3> SUFFICES ASSUME NEW j \in 1 .. Len(r), About(r, j, n) PROVE j <= Len(q) + i
      OBVIOUS
    <3>1. CASE j \in 1 .. Len(q)
      BY <1>0, <3>1
    <3>2. CASE j - Len(q) \in 1 .. Len(ms) /\ j = Len(q) + (j - Len(q))
      <4>1. About(ms, j - Len(q), n)
        BY <1>2, <3>2
      <4>2. j - Len(q) <= i
        BY <2>1, <3>2, <4>1
      <4> QED BY <1>0, <4>2
    <3> QED BY <1>3, <3>1, <3>2
  <2>4. IsLast(r, n, now, v)
    BY <2>2, <2>3 DEF IsLast
  <2> QED BY <2>4, <1>9 DEF v, r, was
<1>5. CASE (\A j \in 1 .. Len(ms) : ~About(ms, j, n)) /\ v = was
  <2>1. \A j \in 1 .. Len(r) : About(r, j, n) => j \in 1 .. Len(q) /\ About(q, j, n)
    BY <1>2, <1>3, <1>5
  <2>2. IsLast(r, n, now, v)
    <3>1. CASE \E i \in 1 .. Len(q) : /\ About(q, i, n) /\ q[i].val = was
                                      /\ \A j \in 1 .. Len(q) : About(q, j, n) => j <= i
      <4>1. PICK i \in 1 .. Len(q) : /\ About(q, i, n) /\ q[i].val = was
                                     /\ \A j \in 1 .. Len(q) : About(q, j, n) => j <= i
        BY <3>1
      <4>2. i \in 1 .. Len(r) /\ About(r, i, n) /\ r[i].val = v
        BY <1>0, <1>2, <1>5, <4>1
      <4>3. \A j \in 1 .. Len(r) : About(r, j, n) => j <= i
        BY <2>1, <4>1
      <4> QED BY <4>2, <4>3 DEF IsLast
    <3>2. CASE (\A j \in 1 .. Len(q) : ~About(q, j, n)) /\ was = now
      BY <1>5, <2>1, <3>2 DEF IsLast
    <3> QED BY <1>1, <3>1, <3>2 DEF IsLast
  <2> QED BY <2>2, <1>9 DEF v, r, was
<1> QED BY <1>1, <1>4, <1>5 DEF IsLast

-----------------------------------------------------------------------------
(* The rows *)

\* No row is empty or overfull.
RowsOK == rows \in Seq(Seq(Shown)) /\ \A r \in 1 .. Len(rows) : Len(rows[r]) \in 1 .. MaxRow

\* The cell a new name gets: behind the last one, or the first of a new row.
LEMMA NewCell ==
  ASSUME RowsOK, NEW n \in Shown, rows' = AddTo(n)
  PROVE  /\ RowsOK'
         /\ \/ /\ rows = <<>> \/ Len(rows[Len(rows)]) = MaxRow
               /\ Len(rows') = Len(rows) + 1
               /\ Len(rows'[Len(rows) + 1]) = 1 /\ rows'[Len(rows) + 1][1] = n
               /\ \A r \in 1 .. Len(rows) : rows'[r] = rows[r]
            \/ /\ Len(rows) > 0 /\ Len(rows') = Len(rows)
               /\ Len(rows'[Len(rows)]) = Len(rows[Len(rows)]) + 1
               /\ Len(rows[Len(rows)]) < MaxRow
               /\ rows'[Len(rows)][Len(rows[Len(rows)]) + 1] = n
               /\ \A c \in 1 .. Len(rows[Len(rows)]) : rows'[Len(rows)][c] = rows[Len(rows)][c]
               /\ \A r \in 1 .. Len(rows) - 1 : rows'[r] = rows[r]
<1> DEFINE l == Len(rows)
<1>0. l \in Nat /\ MaxRow \in Nat \ {0} /\ \A r \in 1 .. l : rows[r] \in Seq(Shown)
  BY ReadoutAssumption DEF RowsOK
<1>1. CASE rows = <<>> \/ Len(rows[l]) >= MaxRow
  <2>1. rows' = Append(rows, <<n>>)
    BY <1>1 DEF AddTo
  <2>2. <<n>> \in Seq(Shown) /\ Len(<<n>>) = 1 /\ <<n>>[1] = n
    OBVIOUS
  <2>3. rows' \in Seq(Seq(Shown)) /\ Len(rows') = l + 1 /\ rows'[l + 1] = <<n>> /\ \A r \in 1 .. l : rows'[r] = rows[r]
    BY <2>1, <2>2, Appended DEF RowsOK
  <2>4. rows = <<>> \/ Len(rows[l]) = MaxRow
    <3>1. CASE rows = <<>>
      BY <3>1
    <3>2. CASE rows # <<>>
      <4>1. l \in 1 .. l
        BY <1>0, <3>2 DEF RowsOK
      <4>2. Len(rows[l]) \in 1 .. MaxRow
        BY <4>1 DEF RowsOK
      <4> QED BY <1>0, <1>1, <3>2, <4>2
    <3> QED BY <3>1, <3>2
  <2>5. \A r \in 1 .. l + 1 : Len(rows'[r]) \in 1 .. MaxRow
    <3> TAKE r \in 1 .. l + 1
    <3>1. CASE r \in 1 .. l
      BY <2>3, <3>1 DEF RowsOK
    <3>2. CASE r = l + 1
      <4>1. Len(rows'[l + 1]) = 1
        <5>1. rows'[l + 1] = <<n>>
          BY <2>3
        <5> QED BY <2>2, <5>1, Zenon
      <4>2. 1 \in 1 .. MaxRow
        BY <1>0
      <4> QED BY <3>2, <4>1, <4>2
    <3> QED BY <1>0, <3>1, <3>2
  <2> QED BY <2>2, <2>3, <2>4, <2>5 DEF RowsOK
<1>2. CASE ~(rows = <<>> \/ Len(rows[l]) >= MaxRow)
  <2>1. rows' = [rows EXCEPT ![l] = Append(@, n)]
    BY <1>2 DEF AddTo
  <2>2. l > 0 /\ l \in 1 .. l
    BY <1>0, <1>2 DEF RowsOK
  <2>3. Len(rows[l]) \in 1 .. MaxRow /\ rows[l] \in Seq(Shown)
    BY <1>0, <2>2 DEF RowsOK
  <2>4. /\ Append(rows[l], n) \in Seq(Shown) /\ Len(Append(rows[l], n)) = Len(rows[l]) + 1
        /\ Append(rows[l], n)[Len(rows[l]) + 1] = n
        /\ \A c \in 1 .. Len(rows[l]) : Append(rows[l], n)[c] = rows[l][c]
    BY <2>3, Appended
  <2>5. /\ rows' \in Seq(Seq(Shown)) /\ Len(rows') = l
        /\ rows'[l] = Append(rows[l], n) /\ \A r \in 1 .. l - 1 : rows'[r] = rows[r]
    <3> DEFINE row == Append(rows[l], n)
    <3> HIDE DEF row
    <3>1. rows' = [rows EXCEPT ![l] = row]
      BY <2>1 DEF row
    <3>2. row \in Seq(Shown)
      BY <2>4 DEF row
    <3> QED BY <1>0, <2>2, <3>1, <3>2 DEF RowsOK, row
  <2>6. Len(rows[l]) < MaxRow
    BY <1>0, <1>2, <2>3
  <2>7. \A r \in 1 .. l : Len(rows'[r]) \in 1 .. MaxRow
    <3> TAKE r \in 1 .. l
    <3>1. CASE r = l
      <4>1. Len(rows'[r]) = Len(rows[l]) + 1
        BY <2>4, <2>5, <3>1
      <4> QED BY <1>0, <2>3, <2>6, <4>1
    <3>2. CASE r \in 1 .. l - 1
      BY <2>5, <3>2 DEF RowsOK
    <3> QED BY <1>0, <3>1, <3>2
  <2> QED BY <2>2, <2>4, <2>5, <2>6, <2>7 DEF RowsOK
<1> QED BY <1>1, <1>2

-----------------------------------------------------------------------------
(* Types *)

\* A line more in the log.
LEMMA LogKeeps ==
  ASSUME LoggerTypeOK, NEW line \in Nat, AddMessage(line)
  PROVE  /\ LoggerTypeOK' /\ Len(text) \in Nat /\ LogLimit \in Nat \ {0}
         /\ Len(text') = Len(Kept) + 1 /\ text'[Len(text')] = line
         /\ \/ Len(text) <= LogLimit /\ Kept = text /\ \A k \in 1 .. Len(text) : text'[k] = text[k]
            \/ /\ Len(text) = LogLimit + 1 /\ Len(Kept) = Len(text) - 1
               /\ \A k \in 1 .. Len(text) - 1 : text'[k] = text[k + 1]
<1>0. text \in Seq(Nat) /\ Len(text) \in 1 .. LogLimit + 1 /\ LogLimit \in Nat \ {0} /\ selected \in 0 .. Len(text) - 1
  BY LoggerAssumption DEF LoggerTypeOK
<1>1. text' = Append(Kept, line) /\ selected' = Follows(Len(Kept))
  BY DEF AddMessage
<1>2. CASE Len(text) <= LogLimit
  <2>1. Kept = text
    BY <1>0, <1>2 DEF Kept
  <2>2. /\ text' \in Seq(Nat) /\ Len(text') = Len(text) + 1 /\ text'[Len(text) + 1] = line
        /\ \A k \in 1 .. Len(text) : text'[k] = text[k]
    BY <1>0, <1>1, <2>1, Appended
  <2>3. selected' \in 0 .. Len(text') - 1
    BY <1>0, <1>1, <2>1, <2>2 DEF Follows
  <2> QED BY <1>0, <1>2, <2>1, <2>2, <2>3 DEF LoggerTypeOK
<1>3. CASE ~(Len(text) <= LogLimit)
  <2>0. Len(text) = LogLimit + 1 /\ text # <<>>
    BY <1>0, <1>3
  <2>1. Kept = Tail(text)
    BY <1>0, <1>3 DEF Kept
  <2>2. Kept \in Seq(Nat) /\ Len(Kept) = Len(text) - 1 /\ \A k \in 1 .. Len(text) - 1 : Kept[k] = text[k + 1]
    BY <1>0, <2>0, <2>1, Served
  <2>3. /\ text' \in Seq(Nat) /\ Len(text') = Len(Kept) + 1 /\ text'[Len(Kept) + 1] = line
        /\ \A k \in 1 .. Len(Kept) : text'[k] = Kept[k]
    BY <1>0, <1>1, <2>2, Appended
  <2>4. selected' \in 0 .. Len(text') - 1
    BY <1>0, <1>1, <2>0, <2>2, <2>3 DEF Follows
  <2>5. \A k \in 1 .. Len(text) - 1 : text'[k] = text[k + 1]
    BY <2>2, <2>3
  <2> QED BY <1>0, <2>0, <2>2, <2>3, <2>4, <2>5 DEF LoggerTypeOK
<1> QED BY <1>2, <1>3

\* Before anything is sent.
LEMMA TypeInit == Init => TypeOK
<1> SUFFICES ASSUME Init PROVE TypeOK
  OBVIOUS
<1>1. in \in Seq(Packet) /\ queue \in Seq(Message)
  BY DEF Init
<1>2. rows \in Seq(Seq(Shown)) /\ \A r \in DOMAIN rows : Len(rows[r]) \in 1 .. MaxRow
  BY DEF Init
<1>3. LoggerTypeOK
  <2>1. text = <<0>> /\ Len(text) = 1 /\ text \in Seq(Nat) /\ selected = 0
    BY DEF Init, LoggerInit
  <2> QED BY <2>1, LoggerAssumption DEF LoggerTypeOK
<1>4. value \in [Shown -> Values \union {Missing}] /\ read \in [Shown -> Values \union {Missing}]
      /\ told \in Nat /\ packets \in Nat /\ returnsUp \in BOOLEAN /\ guiUp \in BOOLEAN
  BY DEF Init
<1> QED BY <1>1, <1>2, <1>3, <1>4 DEF TypeOK

\* TypeOK, with the rows apart.
LEMMA TypeParts ==
  TypeOK => RowsOK /\ DOMAIN rows = 1 .. Len(rows)
<1> SUFFICES ASSUME TypeOK PROVE RowsOK /\ DOMAIN rows = 1 .. Len(rows)
  OBVIOUS
<1>1. DOMAIN rows = 1 .. Len(rows)
  BY DEF TypeOK
<1> QED BY <1>1 DEF TypeOK, RowsOK

\* A packet of the firmware, or what is left of it.
LEMMA SendsType == ASSUME TypeOK, BoardSends PROVE TypeOK'
<1> DEFINE Sent == [type : {"VARIABLES"},
               vars : UNION {[1 .. m -> [name : Names, type : {"known", "INT"}, ends : BOOLEAN,
                                         val : Values \ {Zero}]] : m \in 1 .. MaxVars}]
               \union [type : {"TEXT_MESSAGE"}, fits : BOOLEAN]
<1>1. PICK p \in Sent : \E q \in Received(p) : in' = Append(in, q)
  BY DEF BoardSends
<1>2. p \in Packet
  <2>1. CASE p \in [type : {"TEXT_MESSAGE"}, fits : BOOLEAN]
    BY <2>1 DEF Packet
  <2>2. CASE p \notin [type : {"TEXT_MESSAGE"}, fits : BOOLEAN]
    <3> DEFINE V == [name : Names, type : {"known", "INT"}, ends : BOOLEAN, val : Values \ {Zero}]
    <3>1. p \in [type : {"VARIABLES"}, vars : UNION {[1 .. m -> V] : m \in 1 .. MaxVars}]
      BY <2>2
    <3>2. V \subseteq Var
      BY DEF Var, Shown
    <3>3. PICK m \in 1 .. MaxVars : p.vars \in [1 .. m -> V]
      BY <3>1
    <3>4. p.vars \in Seq(Var)
      <4>1. m \in Nat /\ \A i \in 1 .. m : p.vars[i] \in Var
        BY <3>2, <3>3
      <4>2. p.vars = [i \in 1 .. m |-> p.vars[i]]
        BY <3>3
      <4> QED BY <4>1, <4>2
    <3> HIDE DEF V
    <3>5. p = [type |-> "VARIABLES", vars |-> p.vars]
      BY <3>1
    <3> QED BY <3>4, <3>5 DEF Packet
  <2> QED BY <2>1, <2>2
<1>3. PICK q \in Received(p) : in' = Append(in, q)
  BY <1>1
<1>4. q \in Packet
  BY <1>2, <1>3, ReceivedPacket
<1>5. in' \in Seq(Packet)
  BY <1>3, <1>4, Appended DEF TypeOK
<1>6. packets' \in Nat
  BY DEF BoardSends, TypeOK
<1>7. UNCHANGED <<queue, value, rows, returnsUp, guiUp, read, told, text, selected>>
  BY DEF BoardSends, logVars
<1> QED BY <1>5, <1>6, <1>7 DEF TypeOK, LoggerTypeOK

\* Who listens changes nothing else.
LEMMA ListenType ==
  ASSUME TypeOK, Register \/ GuiStart
  PROVE  TypeOK' /\ UNCHANGED <<in, queue, value, rows, packets, read, told, text, selected>>
<1>1. UNCHANGED <<in, queue, value, rows, packets, read, told, text, selected>>
  BY DEF Register, GuiStart, logVars
<1>2. returnsUp' \in BOOLEAN /\ guiUp' \in BOOLEAN
  BY DEF Register, GuiStart, TypeOK
<1> QED BY <1>1, <1>2 DEF TypeOK, LoggerTypeOK

\* Device reads a packet.
LEMMA RecieveType ==
  ASSUME TypeOK, OnRecieve
  PROVE  /\ TypeOK' /\ Head(in) \in Packet /\ told' = told + Given(Head(in))
         /\ \E d : /\ queue' = queue \o Says(Head(in), d)
                  /\ read' = [n \in Shown |-> LastValue(Says(Head(in), d), n, read[n])]
         /\ UNCHANGED <<value, rows, packets, guiUp, text, selected>>
<1> DEFINE p == Head(in)
<1>1. p \in Packet /\ in' \in Seq(Packet)
  BY Served DEF OnRecieve, TypeOK
<1>2. told' = told + Given(p) /\ UNCHANGED <<value, rows, packets, guiUp, text, selected>>
  BY DEF OnRecieve, logVars, Given
<1>3. PICK d : /\ queue' = queue \o Says(p, d)
               /\ read' = [n \in Shown |-> LastValue(Says(p, d), n, read[n])]
               /\ returnsUp' = (returnsUp \/ d < Said(p))
  BY DEF OnRecieve
<1> HIDE DEF p
<1>4. Says(p, d) \in Seq(Message) /\ Given(p) \in Nat
  BY <1>1, SaysMessages DEF TypeOK
<1>5. queue' \in Seq(Message)
  BY <1>3, <1>4, Posted DEF TypeOK
<1>6. told' \in Nat
  BY <1>2, <1>4 DEF TypeOK
<1>7. read' \in [Shown -> Values \union {Missing}]
  <2>1. \A n \in Shown : LastValue(Says(p, d), n, read[n]) \in Values \union {Missing}
    BY <1>4, LastType DEF TypeOK
  <2> QED BY <1>3, <2>1
<1>8. returnsUp' \in BOOLEAN
  BY <1>3
<1>9. \E e : /\ queue' = queue \o Says(p, e)
            /\ read' = [n \in Shown |-> LastValue(Says(p, e), n, read[n])]
  BY <1>3
<1> QED BY <1>1, <1>2, <1>5, <1>6, <1>7, <1>8, <1>9 DEF TypeOK, LoggerTypeOK, p

\* The table takes a value.
LEMMA VariableType ==
  ASSUME TypeOK, OnVariable
  PROVE  /\ TypeOK' /\ queue[1].name \in Shown /\ queue # <<>> /\ queue[1].k = "variable"
         /\ queue' = Tail(queue) /\ queue[1].val \in Values
         /\ value' = [value EXCEPT ![queue[1].name] = queue[1].val]
         /\ rows' = IF value[queue[1].name] = Missing THEN AddTo(queue[1].name) ELSE rows
         /\ UNCHANGED <<in, packets, returnsUp, guiUp, read, told, text, selected>>
<1>1. queue # <<>> /\ Head(queue) = queue[1] /\ Head(queue) \in Message /\ Tail(queue) \in Seq(Message)
  BY Served DEF OnVariable, TypeOK
<1>2. /\ queue[1].k = "variable" /\ queue' = Tail(queue)
      /\ value' = [value EXCEPT ![queue[1].name] = queue[1].val]
      /\ rows' = IF value[queue[1].name] = Missing THEN AddTo(queue[1].name) ELSE rows
      /\ UNCHANGED <<in, packets, returnsUp, guiUp, read, told, text, selected>>
  BY <1>1 DEF OnVariable, logVars
<1>3. queue[1].name \in Shown /\ queue[1].val \in Values
  BY <1>1, <1>2, Carries
<1>4. value' \in [Shown -> Values \union {Missing}]
  BY <1>2, <1>3 DEF TypeOK
<1>5. RowsOK'
  <2>1. CASE value[queue[1].name] = Missing
    BY <1>2, <1>3, <2>1, NewCell, TypeParts
  <2>2. CASE value[queue[1].name] # Missing
    BY <1>2, <2>2, TypeParts DEF RowsOK
  <2> QED BY <2>1, <2>2
<1>6. rows' \in Seq(Seq(Shown)) /\ \A r \in DOMAIN rows' : Len(rows'[r]) \in 1 .. MaxRow
  <2>1. rows' \in Seq(Seq(Shown)) /\ \A r \in 1 .. Len(rows') : Len(rows'[r]) \in 1 .. MaxRow
    BY <1>5 DEF RowsOK
  <2>2. DOMAIN rows' = 1 .. Len(rows')
    BY <2>1
  <2> QED BY <2>1, <2>2
<1> QED BY <1>1, <1>2, <1>3, <1>4, <1>6 DEF TypeOK, LoggerTypeOK

\* The log takes a remark.
LEMMA MessageType ==
  ASSUME TypeOK, OnMessage
  PROVE  /\ TypeOK' /\ queue # <<>> /\ queue[1].k = "message" /\ queue[1].line \in Nat
         /\ queue' = Tail(queue) /\ AddMessage(queue[1].line)
         /\ UNCHANGED <<in, value, rows, packets, returnsUp, guiUp, read, told>>
<1>1. queue # <<>> /\ Head(queue) = queue[1] /\ Head(queue) \in Message /\ Tail(queue) \in Seq(Message)
  BY Served DEF OnMessage, TypeOK
<1>2. /\ queue[1].k = "message" /\ queue' = Tail(queue) /\ AddMessage(queue[1].line)
      /\ UNCHANGED <<in, value, rows, packets, returnsUp, guiUp, read, told>>
  BY <1>1 DEF OnMessage
<1>3. queue[1].line \in Nat
  BY <1>1, <1>2, Carries
<1>4. LoggerTypeOK'
  BY <1>2, <1>3, LogKeeps DEF TypeOK
<1> QED BY <1>1, <1>2, <1>3, <1>4 DEF TypeOK

\* A message is gone that nobody listens to.
LEMMA NobodyType ==
  ASSUME TypeOK, OnNobody
  PROVE  /\ TypeOK' /\ queue # <<>> /\ queue[1].k # "message" /\ queue[1].k # "variable"
         /\ queue' = Tail(queue)
         /\ UNCHANGED <<in, value, rows, packets, returnsUp, guiUp, read, told, text, selected>>
<1>1. queue # <<>> /\ Head(queue) = queue[1] /\ Tail(queue) \in Seq(Message)
  BY Served DEF OnNobody, TypeOK
<1>2. /\ queue[1] = Nobody /\ queue' = Tail(queue)
      /\ UNCHANGED <<in, value, rows, packets, returnsUp, guiUp, read, told, text, selected>>
  BY <1>1 DEF OnNobody, logVars
<1>3. queue[1].k # "message" /\ queue[1].k # "variable"
  BY <1>2, Carries
<1>4. TypeOK'
  BY <1>1, <1>2 DEF TypeOK, LoggerTypeOK
<1> QED BY <1>1, <1>2, <1>3, <1>4

\* The user reads, or nothing happens.
LEMMA ScrollType ==
  ASSUME TypeOK, Scroll \/ UNCHANGED vars
  PROVE  /\ TypeOK' /\ UNCHANGED <<in, queue, value, rows, packets, returnsUp, guiUp, read, told, text>>
<1>1. UNCHANGED <<in, queue, value, rows, packets, returnsUp, guiUp, read, told, text>>
  BY DEF Scroll, Select, vars, readVars, logVars
<1>2. selected' = selected \/ selected' \in 0 .. Len(text) - 1
  BY DEF Scroll, Select, vars, logVars
<1>3. LoggerTypeOK'
  BY <1>1, <1>2 DEF TypeOK, LoggerTypeOK
<1> QED BY <1>1, <1>3 DEF TypeOK

\* Every step keeps the types.
LEMMA TypeStep == TypeOK /\ [Next]_vars => TypeOK'
  BY SendsType, ListenType, RecieveType, VariableType, MessageType, NobodyType, ScrollType DEF Next

\* Every variable keeps its type, and no row of the table is empty or overfull.
THEOREM Typing == Spec => []TypeOK
  BY TypeInit, TypeStep, PTL DEF Spec

-----------------------------------------------------------------------------
(* The values that are shown *)

\* At the start nothing is known and nothing is shown.
LEMMA FollowInit == Init => ValuesFollow
<1> SUFFICES ASSUME Init, NEW n \in Shown PROVE LastValue(queue, n, value[n]) = read[n]
  BY DEF ValuesFollow
<1>1. queue \in Seq(Message) /\ Len(queue) = 0 /\ value[n] = Missing /\ read[n] = Missing
  BY DEF Init
<1>2. IsLast(queue, n, value[n], read[n])
  BY <1>1 DEF IsLast
<1> QED BY <1>1, <1>2, LastIs

\* The table and the queue together keep up with what Device sends.
LEMMA FollowStep == TypeOK /\ ValuesFollow /\ [Next]_vars => ValuesFollow'
<1> SUFFICES ASSUME TypeOK, ValuesFollow, [Next]_vars, NEW n \in Shown
             PROVE  LastValue(queue', n, value'[n]) = read'[n]
  BY DEF ValuesFollow
<1>0. queue \in Seq(Message) /\ LastValue(queue, n, value[n]) = read[n] /\ value \in [Shown -> Values \union {Missing}]
  BY DEF TypeOK, ValuesFollow
<1>1. CASE BoardSends \/ Register \/ GuiStart \/ Scroll \/ UNCHANGED vars
  <2>1. UNCHANGED <<queue, value, read>>
    BY <1>1, ScrollType, ListenType DEF BoardSends
  <2> QED BY <1>0, <2>1
<1>2. CASE OnRecieve
  <2>1. PICK d : /\ Head(in) \in Packet /\ queue' = queue \o Says(Head(in), d) /\ value' = value
                 /\ read'[n] = LastValue(Says(Head(in), d), n, read[n])
    BY <1>2, RecieveType
  <2>2. Says(Head(in), d) \in Seq(Message)
    BY <2>1, SaysMessages DEF TypeOK
  <2> QED BY <1>0, <2>1, <2>2, LastPosted
<1>3. CASE OnVariable
  <2>1. /\ queue # <<>> /\ queue[1].k = "variable" /\ queue' = Tail(queue) /\ read' = read
        /\ queue[1].name \in Shown
        /\ value' = [value EXCEPT ![queue[1].name] = queue[1].val]
    BY <1>3, VariableType
  <2>2. value'[n] = IF About(queue, 1, n) THEN queue[1].val ELSE value[n]
    BY <1>0, <2>1 DEF About
  <2> QED BY <1>0, <2>1, <2>2, LastServed
<1>4. CASE OnMessage \/ OnNobody
  <2>1. /\ queue # <<>> /\ queue[1].k # "variable" /\ queue' = Tail(queue)
        /\ read' = read /\ value' = value
    BY <1>4, MessageType, NobodyType
  <2>2. value'[n] = IF About(queue, 1, n) THEN queue[1].val ELSE value[n]
    BY <2>1 DEF About
  <2> QED BY <1>0, <2>1, <2>2, LastServed
<1> QED BY <1>1, <1>2, <1>3, <1>4 DEF Next

\* The table of returned variables is a delayed copy of what Device sent since
\* Returns listens: a value is never lost, doubled or out of order, whatever was
\* wrong with the rest of its packet.
THEOREM TableFollows == Spec => []ValuesFollow
  BY TypeInit, TypeStep, FollowInit, FollowStep, PTL DEF Spec

-----------------------------------------------------------------------------
(* The reader of the log *)

\* Logger::AddMessage leaves whoever reads the end of the log there.  Whoever
\* reads elsewhere keeps his line until the log is full; from then on every new
\* line carries him one line on, to the end from the last line but one.
THEOREM ReaderStays == Spec => ReaderKept
<1> DEFINE Stays ==
      text' # text =>
        /\ AtEnd => AtEnd'
        /\ ~AtEnd /\ Len(text') > Len(text) => text'[selected' + 1] = text[selected + 1]
        /\ ~AtEnd /\ Len(text') = Len(text) =>
             IF selected = Len(text) - 2 THEN AtEnd'
             ELSE text'[selected' + 1] = text[selected + 2]
<1>1. TypeOK /\ [Next]_vars => [Stays]_logVars
  <2> SUFFICES ASSUME TypeOK, [Next]_vars, text' # text PROVE Stays
    OBVIOUS
  <2>1. OnMessage
    BY ScrollType, ListenType, NobodyType DEF Next, BoardSends, OnRecieve, OnVariable, logVars
  <2>2. AddMessage(queue[1].line) /\ queue[1].line \in Nat
    BY <2>1, MessageType
  <2>3. /\ Len(text) \in Nat /\ LogLimit \in Nat /\ Len(text') = Len(Kept) + 1
        /\ \/ Len(text) <= LogLimit /\ Kept = text /\ \A k \in 1 .. Len(text) : text'[k] = text[k]
           \/ /\ Len(text) = LogLimit + 1 /\ Len(Kept) = Len(text) - 1
              /\ \A k \in 1 .. Len(text) - 1 : text'[k] = text[k + 1]
    BY <2>2, LogKeeps DEF TypeOK
  <2>4. selected' = IF selected = Len(Kept) - 1 THEN Len(Kept) ELSE selected
    BY <2>2 DEF AddMessage, Follows
  <2>5. selected \in 0 .. Len(text) - 1
    BY DEF TypeOK, LoggerTypeOK
  <2>6. CASE Len(text) <= LogLimit /\ Kept = text /\ \A k \in 1 .. Len(text) : text'[k] = text[k]
    <3>1. AtEnd => selected' = Len(text') - 1
      BY <2>3, <2>4, <2>6 DEF AtEnd
    <3>2. ~AtEnd => selected' = selected /\ text'[selected + 1] = text[selected + 1]
      BY <2>3, <2>4, <2>5, <2>6 DEF AtEnd
    <3>3. Len(text') # Len(text)
      BY <2>3, <2>6
    <3> QED BY <3>1, <3>2, <3>3 DEF AtEnd
  <2>7. CASE /\ Len(text) = LogLimit + 1 /\ Len(Kept) = Len(text) - 1
             /\ \A k \in 1 .. Len(text) - 1 : text'[k] = text[k + 1]
    <3>1. AtEnd => selected' = Len(text') - 1
      BY <2>3, <2>4, <2>7 DEF AtEnd
    <3>2. ~(Len(text') > Len(text))
      BY <2>3, <2>7
    <3>3. selected = Len(text) - 2 => selected' = Len(text') - 1
      BY <2>3, <2>4, <2>7
    <3>4. ASSUME ~AtEnd, selected # Len(text) - 2 PROVE text'[selected' + 1] = text[selected + 2]
      <4>1. selected' = selected
        BY <2>3, <2>4, <2>7, <3>4
      <4>2. selected + 1 \in 1 .. Len(text) - 1 /\ (selected + 1) + 1 = selected + 2
        BY <2>3, <2>5, <3>4 DEF AtEnd
      <4> QED BY <2>7, <4>1, <4>2
    <3> QED BY <3>1, <3>2, <3>3, <3>4 DEF AtEnd
  <2> QED BY <2>3, <2>6, <2>7
<1> QED BY <1>1, Typing, PTL DEF Spec, ReaderKept

-----------------------------------------------------------------------------
(* The cells of the table *)

\* The cell in row r and column c of the rows rs is there, and has the name n.
Has(rs, r, c, n) == r \in 1 .. Len(rs) /\ c \in 1 .. Len(rs[r]) /\ rs[r][c] = n

CellsOf(n) == {x \in Cells : rows[x[1]][x[2]] = n}

\* Sets with the same elements are the same.
LEMMA SameElements ==
  ASSUME NEW A, NEW B, \A x : x \in A <=> x \in B
  PROVE  A = B
  OBVIOUS

\* A cell is a pair of a row and a column.
LEMMA CellIs ==
  ASSUME RowsOK, NEW n, NEW x
  PROVE  x \in CellsOf(n) <=> \E r, c \in Nat : x = <<r, c>> /\ Has(rows, r, c, n)
<1>0. Len(rows) \in Nat /\ MaxRow \in Nat /\ \A r \in 1 .. Len(rows) : Len(rows[r]) \in 1 .. MaxRow
  BY ReadoutAssumption DEF RowsOK
<1>1. ASSUME x \in CellsOf(n) PROVE \E r, c \in Nat : x = <<r, c>> /\ Has(rows, r, c, n)
  <2>1. PICK r \in 1 .. Len(rows), c \in 1 .. MaxRow + 1 :
          x = <<r, c>> /\ c <= Len(rows[r]) /\ rows[r][c] = n
    BY <1>1 DEF CellsOf, Cells
  <2>2. r \in Nat /\ c \in Nat /\ c \in 1 .. Len(rows[r])
    BY <1>0, <2>1
  <2> QED BY <2>1, <2>2 DEF Has
<1>2. ASSUME NEW r \in Nat, NEW c \in Nat, x = <<r, c>>, Has(rows, r, c, n) PROVE x \in CellsOf(n)
  <2>1. r \in 1 .. Len(rows) /\ c <= Len(rows[r]) /\ rows[r][c] = n /\ c \in 1 .. MaxRow + 1
    <3>1. r \in 1 .. Len(rows) /\ c \in 1 .. Len(rows[r]) /\ rows[r][c] = n
      BY <1>2 DEF Has
    <3>2. Len(rows[r]) \in 1 .. MaxRow
      BY <1>0, <3>1
    <3> QED BY <1>0, <3>1, <3>2
  <2> QED BY <1>2, <2>1 DEF CellsOf, Cells
<1> QED BY <1>1, <1>2

\* The same of the next state.
LEMMA CellIsNext ==
  ASSUME RowsOK', NEW n, NEW x
  PROVE  x \in CellsOf(n)' <=> \E r, c \in Nat : x = <<r, c>> /\ Has(rows', r, c, n)
<1>0. Len(rows') \in Nat /\ MaxRow \in Nat /\ \A r \in 1 .. Len(rows') : Len(rows'[r]) \in 1 .. MaxRow
  BY ReadoutAssumption DEF RowsOK
<1>1. ASSUME x \in CellsOf(n)' PROVE \E r, c \in Nat : x = <<r, c>> /\ Has(rows', r, c, n)
  <2>1. PICK r \in 1 .. Len(rows'), c \in 1 .. MaxRow + 1 :
          x = <<r, c>> /\ c <= Len(rows'[r]) /\ rows'[r][c] = n
    BY <1>1 DEF CellsOf, Cells
  <2>2. r \in Nat /\ c \in Nat /\ c \in 1 .. Len(rows'[r])
    BY <1>0, <2>1
  <2> QED BY <2>1, <2>2 DEF Has
<1>2. ASSUME NEW r \in Nat, NEW c \in Nat, x = <<r, c>>, Has(rows', r, c, n) PROVE x \in CellsOf(n)'
  <2>1. r \in 1 .. Len(rows') /\ c <= Len(rows'[r]) /\ rows'[r][c] = n /\ c \in 1 .. MaxRow + 1
    <3>1. r \in 1 .. Len(rows') /\ c \in 1 .. Len(rows'[r]) /\ rows'[r][c] = n
      BY <1>2 DEF Has
    <3>2. Len(rows'[r]) \in 1 .. MaxRow
      BY <1>0, <3>1
    <3> QED BY <1>0, <3>1, <3>2
  <2> QED BY <1>2, <2>1 DEF CellsOf, Cells
<1> QED BY <1>1, <1>2

\* A new name has a new cell, and no other cell changes.
LEMMA OneCellMore ==
  ASSUME RowsOK, NEW n \in Shown, rows' = AddTo(n)
  PROVE  \E R, C \in Nat :
           /\ ~ \E m : Has(rows, R, C, m)
           /\ \A r, c \in Nat : \A m : Has(rows', r, c, m) <=> Has(rows, r, c, m) \/ (r = R /\ c = C /\ m = n)
<1> DEFINE l == Len(rows)
<1>0. l \in Nat /\ \A r \in 1 .. l : Len(rows[r]) \in Nat
  BY ReadoutAssumption DEF RowsOK
<1>1. CASE /\ Len(rows') = l + 1
           /\ Len(rows'[l + 1]) = 1 /\ rows'[l + 1][1] = n
           /\ \A r \in 1 .. l : rows'[r] = rows[r]
  <2>1. l + 1 \in Nat /\ 1 \in Nat /\ ~ \E m : Has(rows, l + 1, 1, m)
    BY <1>0 DEF Has
  <2>2. ASSUME NEW r \in Nat, NEW c \in Nat, NEW m
        PROVE  Has(rows', r, c, m) <=> Has(rows, r, c, m) \/ (r = l + 1 /\ c = 1 /\ m = n)
    <3>1. CASE r \in 1 .. l
      <4>1. r \in 1 .. Len(rows') /\ r # l + 1 /\ rows'[r] = rows[r]
        BY <1>0, <1>1, <3>1
      <4> QED BY <3>1, <4>1 DEF Has
    <3>2. CASE r = l + 1
      <4>1. ~Has(rows, r, c, m)
        BY <1>0, <3>2 DEF Has
      <4>2. r \in 1 .. Len(rows') /\ (c \in 1 .. Len(rows'[r]) <=> c = 1)
        <5>1. Len(rows'[r]) = 1
          BY <1>1, <3>2
        <5>2. r \in 1 .. Len(rows')
          BY <1>0, <1>1, <3>2
        <5>3. c \in 1 .. 1 <=> c = 1
          OBVIOUS
        <5> QED BY <5>1, <5>2, <5>3
      <4>3. rows'[r][1] = n
        BY <1>1, <3>2
      <4> QED BY <3>2, <4>1, <4>2, <4>3 DEF Has
    <3>3. CASE r \notin 1 .. l /\ r # l + 1
      <4>1. r \notin 1 .. Len(rows')
        BY <1>0, <1>1, <3>3
      <4> QED BY <3>3, <4>1 DEF Has
    <3> QED BY <3>1, <3>2, <3>3
  <2> WITNESS l + 1 \in Nat, 1 \in Nat
  <2> QED BY <2>1, <2>2
<1>2. CASE /\ l > 0 /\ Len(rows') = l
           /\ Len(rows'[l]) = Len(rows[l]) + 1
           /\ rows'[l][Len(rows[l]) + 1] = n
           /\ \A c \in 1 .. Len(rows[l]) : rows'[l][c] = rows[l][c]
           /\ \A r \in 1 .. l - 1 : rows'[r] = rows[r]
  <2> DEFINE k == Len(rows[l])
  <2>0. l \in 1 .. l /\ k \in Nat /\ k + 1 \in Nat
    BY <1>0, <1>2
  <2>1. ~ \E m : Has(rows, l, k + 1, m)
    BY <2>0 DEF Has
  <2>2. ASSUME NEW r \in Nat, NEW c \in Nat, NEW m
        PROVE  Has(rows', r, c, m) <=> Has(rows, r, c, m) \/ (r = l /\ c = k + 1 /\ m = n)
    <3>1. CASE r \in 1 .. l - 1
      <4>1. r \in 1 .. Len(rows') /\ r \in 1 .. l /\ r # l /\ rows'[r] = rows[r]
        BY <1>0, <1>2, <3>1
      <4> QED BY <4>1 DEF Has
    <3>2. CASE r = l
      <4>1. Len(rows'[r]) = k + 1 /\ r \in 1 .. Len(rows') /\ rows'[r][k + 1] = n
        BY <1>2, <2>0, <3>2
      <4>2. CASE c \in 1 .. k
        <5>1. c \in 1 .. k + 1 /\ c # k + 1
          BY <2>0, <4>2
        <5>2. rows'[r][c] = rows[r][c]
          BY <1>2, <3>2, <4>2
        <5> QED BY <2>0, <3>2, <4>1, <4>2, <5>1, <5>2 DEF Has
      <4>3. CASE c = k + 1
        <5>1. c \in 1 .. k + 1 /\ c \notin 1 .. k
          BY <2>0, <4>3
        <5> QED BY <3>2, <4>1, <4>3, <5>1 DEF Has
      <4>4. CASE c \notin 1 .. k /\ c # k + 1
        <5>1. c \notin 1 .. k + 1
          BY <2>0, <4>4
        <5> QED BY <3>2, <4>1, <4>4, <5>1 DEF Has
      <4> QED BY <4>2, <4>3, <4>4
    <3>3. CASE r \notin 1 .. l
      BY <1>2, <2>0, <3>3 DEF Has
    <3>4. r \in 1 .. l - 1 \/ r = l \/ r \notin 1 .. l
      BY <1>0
    <3> QED BY <3>1, <3>2, <3>3, <3>4
  <2>3. l \in Nat /\ k + 1 \in Nat
    BY <1>0, <2>0
  <2> WITNESS l \in Nat, k + 1 \in Nat
  <2> QED BY <2>1, <2>2
<1> QED BY <1>1, <1>2, NewCell

\* The inductive form of OneCellEach: a name without value has no cell, one with
\* a value has a single one.
Placed(n) == IF value[n] = Missing THEN CellsOf(n) = {} ELSE \E x : CellsOf(n) = {x}
FullRows == \A r \in 1 .. Len(rows) - 1 : Len(rows[r]) = MaxRow
CellsInv == (\A n \in Shown : Placed(n)) /\ FullRows

\* The table starts out empty.
LEMMA CellsInit == Init => CellsInv
<1> SUFFICES ASSUME Init PROVE CellsInv
  OBVIOUS
<1>1. rows = <<>> /\ Len(rows) = 0
  BY DEF Init
<1>2. Cells = {}
  BY <1>1 DEF Cells
<1>3. \A n \in Shown : value[n] = Missing /\ CellsOf(n) = {}
  BY <1>2 DEF Init, CellsOf
<1>4. FullRows
  BY <1>1 DEF FullRows
<1> QED BY <1>3, <1>4 DEF CellsInv, Placed

\* A cell is added for a name that had no value, and for no other.
LEMMA CellsStep == TypeOK /\ CellsInv /\ [Next]_vars => CellsInv'
<1> SUFFICES ASSUME TypeOK, CellsInv, [Next]_vars PROVE CellsInv'
  OBVIOUS
<1>1. CASE ~OnVariable
  <2>1. value' = value /\ rows' = rows
    BY <1>1, ScrollType, ListenType, NobodyType DEF Next, BoardSends, OnMessage, OnRecieve
  <2> QED BY <2>1 DEF CellsInv, Placed, FullRows, CellsOf, Cells
<1>2. CASE OnVariable
  <2>0. PICK n \in Shown : n = queue[1].name
    BY <1>2, VariableType
  <2>1. /\ n \in Shown /\ queue[1].val \in Values /\ queue[1].val # Missing
        /\ value' = [value EXCEPT ![n] = queue[1].val]
        /\ rows' = IF value[n] = Missing THEN AddTo(n) ELSE rows
    BY <1>2, <2>0, VariableType, ReadoutAssumption
  <2>2. value'[n] # Missing /\ \A m \in Shown : m # n => value'[m] = value[m]
    BY <2>1 DEF TypeOK
  <2>3. RowsOK /\ RowsOK'
    <3>1. TypeOK'
      BY TypeStep
    <3>2. RowsOK'
      <4>1. DOMAIN rows' = 1 .. Len(rows')
        BY <3>1 DEF TypeOK
      <4> QED BY <3>1, <4>1 DEF TypeOK, RowsOK
    <3> QED BY <3>2, TypeParts
  <2>4. CASE value[n] # Missing
    <3>1. rows' = rows
      BY <2>1, <2>4
    <3>2. \A m \in Shown : (value'[m] = Missing <=> value[m] = Missing)
      BY <2>2, <2>4
    <3> QED BY <3>1, <3>2 DEF CellsInv, Placed, FullRows, CellsOf, Cells
  <2>5. CASE value[n] = Missing
    <3>1. rows' = AddTo(n)
      BY <2>1, <2>5
    <3>2. PICK R, C \in Nat :
            /\ ~ \E m : Has(rows, R, C, m)
            /\ \A r, c \in Nat : \A m : Has(rows', r, c, m) <=> Has(rows, r, c, m) \/ (r = R /\ c = C /\ m = n)
      BY <2>1, <2>3, <3>1, OneCellMore
    <3>3. \A m, x : x \in CellsOf(m) <=> \E r, c \in Nat : x = <<r, c>> /\ Has(rows, r, c, m)
      BY <2>3, CellIs
    <3>4. \A m, x : x \in CellsOf(m)' <=> \E r, c \in Nat : x = <<r, c>> /\ Has(rows', r, c, m)
      BY <2>3, CellIsNext
    <3>5. ASSUME NEW m \in Shown, m # n PROVE Placed(m)'
      <4>1. CellsOf(m)' = CellsOf(m)
        <5>1. \A x : x \in CellsOf(m)' <=> x \in CellsOf(m)
          BY <3>2, <3>3, <3>4, <3>5
        <5> QED BY <5>1, SameElements
      <4> QED BY <2>2, <3>5, <4>1 DEF CellsInv, Placed
    <3>6. Placed(n)'
      <4>1. CellsOf(n) = {}
        BY <2>1, <2>5 DEF CellsInv, Placed
      <4>2. CellsOf(n)' = {<<R, C>>}
        <5>1. \A r, c \in Nat : ~Has(rows, r, c, n)
          BY <3>3, <4>1
        <5>2. \A r, c \in Nat : Has(rows', r, c, n) <=> r = R /\ c = C
          BY <3>2, <5>1
        <5>3. \A x : x \in CellsOf(n)' <=> x = <<R, C>>
          BY <3>4, <5>2
        <5>4. \A x : x \in CellsOf(n)' <=> x \in {<<R, C>>}
          BY <5>3
        <5> QED BY <5>4, SameElements
      <4> QED BY <2>2, <4>2 DEF Placed
    <3>7. FullRows'
      <4>0. Len(rows) \in Nat
        BY <2>3 DEF RowsOK
      <4>1. CASE /\ rows = <<>> \/ Len(rows[Len(rows)]) = MaxRow
                 /\ Len(rows') = Len(rows) + 1
                 /\ \A r \in 1 .. Len(rows) : rows'[r] = rows[r]
        <5> SUFFICES ASSUME NEW r \in 1 .. Len(rows) PROVE Len(rows'[r]) = MaxRow
          BY <4>0, <4>1 DEF FullRows
        <5>1. rows # <<>>
          BY <2>3 DEF RowsOK
        <5>2. r = Len(rows) \/ r \in 1 .. Len(rows) - 1
          BY <4>0
        <5> QED BY <4>1, <5>1, <5>2 DEF CellsInv, FullRows
      <4>2. CASE /\ Len(rows') = Len(rows)
                 /\ \A r \in 1 .. Len(rows) - 1 : rows'[r] = rows[r]
        BY <4>2 DEF CellsInv, FullRows
      <4> QED BY <2>1, <2>3, <3>1, <4>1, <4>2, NewCell
    <3> QED BY <3>5, <3>6, <3>7 DEF CellsInv
  <2> QED BY <2>4, <2>5
<1> QED BY <1>1, <1>2 DEF Next

\* Returns has exactly one cell for every name that has a value, whatever order
\* names come in, and fills its rows one after the other.
THEOREM OneCellForEach == Spec => []OneCellEach
<1>1. CellsInv => OneCellEach
  <2> SUFFICES ASSUME CellsInv, NEW n \in Shown
               PROVE  Cardinality(CellsOf(n)) = (IF value[n] = Missing THEN 0 ELSE 1)
    BY DEF OneCellEach, CellsOf, CellsInv, FullRows
  <2>1. Placed(n)
    BY DEF CellsInv
  <2> QED BY <2>1, FS_EmptySet, FS_Singleton DEF Placed
<1> QED BY <1>1, TypeInit, TypeStep, CellsInit, CellsStep, PTL DEF Spec

-----------------------------------------------------------------------------
(* The remarks on their way to the log *)

\* Moving a set of numbers does not change how many they are.
LEMMA Shifted ==
  ASSUME NEW S \in SUBSET Int, IsFiniteSet(S), NEW d \in Int, NEW T, T = {i + d : i \in S}
  PROVE  IsFiniteSet(T) /\ Cardinality(T) = Cardinality(S)
<1> DEFINE f == [i \in S |-> i + d]
<1>1. \A i \in S : i \in Int /\ f[i] = i + d
  OBVIOUS
<1>2. f \in [S -> T] /\ DOMAIN f = S
  OBVIOUS
<1>3. \A i, j \in S : f[i] = f[j] => i = j
  BY <1>1
<1>4. \A t \in T : \E i \in S : f[i] = t
  OBVIOUS
<1> HIDE DEF f
<1>5. f \in Bijection(S, T)
  BY <1>2, <1>3, <1>4, Fun_IsBij
<1>6. ExistsBijection(S, T)
  BY <1>5 DEF ExistsBijection
<1> QED BY <1>6, FS_Bijection

\* The remarks of the queue q behind its i-th message.
Behind(q, i) == {j \in i + 1 .. Len(q) : q[j].k = "message"}

\* There are finitely many of them.
LEMMA BehindType ==
  ASSUME NEW q \in Seq(Message), NEW i \in Nat
  PROVE  /\ IsFiniteSet(Behind(q, i)) /\ Cardinality(Behind(q, i)) \in Nat
         /\ Behind(q, i) \in SUBSET Int
<1>1. i + 1 \in Int /\ Len(q) \in Int
  OBVIOUS
<1>2. IsFiniteSet(i + 1 .. Len(q))
  BY <1>1, FS_Interval
<1>3. IsFiniteSet(Behind(q, i))
  BY <1>2, FS_Subset DEF Behind
<1>4. Behind(q, i) \in SUBSET Int
  BY <1>1 DEF Behind
<1> QED BY <1>3, <1>4, FS_CardinalityType

\* Serving a message.
LEMMA BehindServed ==
  ASSUME NEW q \in Seq(Message), q # <<>>
  PROVE  /\ \A i \in Nat : Cardinality(Behind(Tail(q), i)) = Cardinality(Behind(q, i + 1))
         /\ Cardinality(Behind(q, 0)) = Cardinality(Behind(q, 1)) + (IF q[1].k = "message" THEN 1 ELSE 0)
<1> DEFINE r == Tail(q)
<1>0. /\ Len(q) \in Nat \ {0} /\ r \in Seq(Message) /\ Len(r) = Len(q) - 1
      /\ \A i \in 1 .. Len(q) - 1 : r[i] = q[i + 1]
  BY Served
<1> HIDE DEF r
<1>1. ASSUME NEW i \in Nat PROVE Cardinality(Behind(r, i)) = Cardinality(Behind(q, i + 1))
  <2>1. \A j \in Behind(r, i) : j \in Int /\ j + 1 \in Behind(q, i + 1)
    BY <1>0 DEF Behind
  <2>2. \A j \in Behind(q, i + 1) : j \in Int /\ j - 1 \in Behind(r, i) /\ j = (j - 1) + 1
    <3> TAKE j \in Behind(q, i + 1)
    <3>1. j \in (i + 1) + 1 .. Len(q) /\ q[j].k = "message"
      BY DEF Behind
    <3>2. j \in Int /\ j - 1 \in i + 1 .. Len(r) /\ j - 1 \in 1 .. Len(q) - 1 /\ j = (j - 1) + 1
      BY <1>0, <3>1
    <3>3. r[j - 1] = q[(j - 1) + 1]
      BY <1>0, <3>2
    <3>4. r[j - 1].k = "message"
      BY <3>1, <3>2, <3>3
    <3> QED BY <3>2, <3>4 DEF Behind
  <2>3. Behind(q, i + 1) = {j + 1 : j \in Behind(r, i)}
    BY <2>1, <2>2
  <2>4. IsFiniteSet(Behind(r, i)) /\ Behind(r, i) \in SUBSET Int
    BY <1>0, BehindType
  <2>5. 1 \in Int
    OBVIOUS
  <2> QED BY <2>3, <2>4, <2>5, Shifted
<1>2. CASE q[1].k = "message"
  <2>1. Behind(q, 0) = Behind(q, 1) \union {1} /\ 1 \notin Behind(q, 1)
    <3>1. ASSUME NEW j \in Behind(q, 0) PROVE j \in Behind(q, 1) \union {1}
      <4>1. j \in 1 .. Len(q) /\ q[j].k = "message"
        BY <3>1 DEF Behind
      <4>2. j = 1 \/ j \in 1 + 1 .. Len(q)
        BY <1>0, <4>1
      <4> QED BY <4>1, <4>2 DEF Behind
    <3>2. ASSUME NEW j \in Behind(q, 1) \union {1} PROVE j \in Behind(q, 0)
      <4>1. (j \in 1 + 1 .. Len(q) /\ q[j].k = "message") \/ j = 1
        BY <3>2 DEF Behind
      <4>2. j \in 0 + 1 .. Len(q)
        BY <1>0, <4>1
      <4> QED BY <1>2, <4>1, <4>2 DEF Behind
    <3>3. 1 \notin Behind(q, 1)
      BY <1>0 DEF Behind
    <3> QED BY <3>1, <3>2, <3>3
  <2>2. IsFiniteSet(Behind(q, 1))
    BY BehindType
  <2>3. Cardinality(Behind(q, 1) \union {1}) = Cardinality(Behind(q, 1)) + 1
    BY <2>1, <2>2, FS_AddElement
  <2> QED BY <1>2, <2>1, <2>3, <1>1 DEF r
<1>3. CASE q[1].k # "message"
  <2>1. \A j : j \in Behind(q, 0) <=> j \in Behind(q, 1)
    <3> TAKE j
    <3>1. j \in Behind(q, 0) <=> j \in 1 .. Len(q) /\ q[j].k = "message"
      BY DEF Behind
    <3>2. j \in Behind(q, 1) <=> j \in 2 .. Len(q) /\ q[j].k = "message"
      BY DEF Behind
    <3>3. j \in 1 .. Len(q) <=> j = 1 \/ j \in 2 .. Len(q)
      BY <1>0
    <3> QED BY <1>3, <3>1, <3>2, <3>3
  <2>2. Behind(q, 0) = Behind(q, 1)
    BY <2>1, SameElements
  <2>3. Cardinality(Behind(q, 1)) \in Nat
    BY BehindType
  <2>4. Cardinality(Behind(q, 1)) + 0 = Cardinality(Behind(q, 1))
    BY <2>3
  <2> QED BY <1>3, <2>2, <2>4, <1>1 DEF r
<1> QED BY <1>2, <1>3, <1>1 DEF r

\* Posting messages.
LEMMA BehindPosted ==
  ASSUME NEW q \in Seq(Message), NEW ms \in Seq(Message)
  PROVE  /\ \A i \in 0 .. Len(q) :
              Cardinality(Behind(q \o ms, i)) = Cardinality(Behind(q, i)) + Cardinality(Behind(ms, 0))
         /\ \A i \in 0 .. Len(ms) :
              Cardinality(Behind(q \o ms, Len(q) + i)) = Cardinality(Behind(ms, i))
<1> DEFINE r == q \o ms
           n == Len(q)
<1>0. /\ n \in Nat /\ Len(ms) \in Nat /\ r \in Seq(Message) /\ Len(r) = n + Len(ms)
      /\ \A i \in 1 .. n : r[i] = q[i]
      /\ \A i \in 1 .. Len(ms) : r[n + i] = ms[i]
  BY Posted
<1> HIDE DEF r
<1>1. ASSUME NEW i \in 0 .. Len(ms)
      PROVE  /\ Behind(r, n + i) = {j + n : j \in Behind(ms, i)}
             /\ Cardinality(Behind(r, n + i)) = Cardinality(Behind(ms, i))
  <2>1. \A j \in Behind(ms, i) : j + n \in Behind(r, n + i)
    <3> TAKE j \in Behind(ms, i)
    <3>1. j \in i + 1 .. Len(ms) /\ ms[j].k = "message"
      BY DEF Behind
    <3>2. j \in 1 .. Len(ms) /\ j + n \in (n + i) + 1 .. Len(r) /\ j + n = n + j
      BY <1>0, <3>1
    <3>3. r[j + n] = ms[j]
      BY <1>0, <3>2
    <3> QED BY <3>1, <3>2, <3>3 DEF Behind
  <2>2. \A j \in Behind(r, n + i) : j - n \in Behind(ms, i) /\ j = (j - n) + n
    <3> TAKE j \in Behind(r, n + i)
    <3>1. j \in (n + i) + 1 .. Len(r) /\ r[j].k = "message"
      BY DEF Behind
    <3>2. j - n \in i + 1 .. Len(ms) /\ j - n \in 1 .. Len(ms) /\ j = (j - n) + n /\ j = n + (j - n)
      BY <1>0, <3>1
    <3>3. r[n + (j - n)] = ms[j - n]
      BY <1>0, <3>2
    <3>4. ms[j - n].k = "message"
      BY <3>1, <3>2, <3>3
    <3> QED BY <3>2, <3>4 DEF Behind
  <2>3. Behind(r, n + i) = {j + n : j \in Behind(ms, i)}
    BY <2>1, <2>2
  <2>4. IsFiniteSet(Behind(ms, i)) /\ Behind(ms, i) \in SUBSET Int /\ n \in Int
    BY <1>0, BehindType
  <2> QED BY <2>3, <2>4, Shifted
<1>2. ASSUME NEW i \in 0 .. n
      PROVE  Cardinality(Behind(r, i)) = Cardinality(Behind(q, i)) + Cardinality(Behind(ms, 0))
  <2>0. 0 \in 0 .. Len(ms) /\ n + 0 = n
    BY <1>0
  <2>1. Cardinality(Behind(r, n)) = Cardinality(Behind(ms, 0))
    BY <1>1, <2>0
  <2>2. \A j : j \in Behind(r, i) <=> j \in Behind(q, i) \union Behind(r, n)
    <3> TAKE j
    <3>1. j \in Behind(r, i) <=> j \in i + 1 .. Len(r) /\ r[j].k = "message"
      BY DEF Behind
    <3>2. j \in Behind(r, n) <=> j \in n + 1 .. Len(r) /\ r[j].k = "message"
      BY DEF Behind
    <3>3. j \in Behind(q, i) <=> j \in i + 1 .. n /\ r[j].k = "message"
      <4>1. j \in i + 1 .. n => j \in 1 .. n
        BY <1>0
      <4> QED BY <1>0, <4>1 DEF Behind
    <3>4. j \in i + 1 .. Len(r) <=> j \in i + 1 .. n \/ j \in n + 1 .. Len(r)
      BY <1>0
    <3> QED BY <3>1, <3>2, <3>3, <3>4
  <2>3. Behind(r, i) = Behind(q, i) \union Behind(r, n)
    BY <2>2, SameElements
  <2>4. Behind(q, i) \cap Behind(r, n) = {}
    <3>1. \A j \in Behind(q, i) : j \in Int /\ j <= n
      BY <1>0 DEF Behind
    <3>2. \A j \in Behind(r, n) : j \in Int /\ j >= n + 1
      BY <1>0 DEF Behind
    <3>3. \A j : ~(j \in Behind(q, i) /\ j \in Behind(r, n))
      BY <1>0, <3>1, <3>2
    <3> QED BY <3>3
  <2>5. /\ IsFiniteSet(Behind(q, i)) /\ IsFiniteSet(Behind(r, n))
        /\ Cardinality(Behind(q, i)) \in Nat /\ Cardinality(Behind(r, n)) \in Nat
    BY <1>0, BehindType
  <2>6. Cardinality(Behind(r, i)) = Cardinality(Behind(q, i)) + Cardinality(Behind(r, n)) - Cardinality({})
    BY <2>3, <2>4, <2>5, FS_Union
  <2>7. Cardinality({}) = 0
    BY FS_EmptySet
  <2> QED BY <2>1, <2>5, <2>6, <2>7
<1> QED BY <1>1, <1>2 DEF r

\* What Device posts about a packet: its remarks are numbered from the last one
\* on, and those behind one are as many as are still to come.
LEMMA SaysNumbered ==
  ASSUME NEW p \in Packet, NEW d, told \in Nat, NEW ms, ms = Says(p, d), NEW i \in 1 .. Len(ms), ms[i].k = "message"
  PROVE  ms[i].line = (told + Given(p)) - Cardinality(Behind(ms, i))
<1>1. CASE p.type = "TEXT_MESSAGE"
  <2>0. ms = <<Remark(told + 1)>>
    BY <1>1, SaysMessages
  <2>2. i = 1 /\ Len(ms) = 1 /\ ms[1] = Remark(told + 1)
    BY <2>0
  <2>3. guiUp /\ ms[1].line = told + 1
    BY <2>2, Makes
  <2>1. Given(p) = 1
    BY <1>1, <2>3 DEF Given
  <2>4. Behind(ms, 1) = {}
    BY <2>2 DEF Behind
  <2>5. Cardinality(Behind(ms, 1)) = 0
    BY <2>4, FS_EmptySet
  <2> QED BY <2>1, <2>2, <2>3, <2>5
<1>2. CASE p.type # "TEXT_MESSAGE"
  <2>1. PICK vs \in Seq(Var) : vs = Parsed(p.vars)
    BY <1>2, SaysMessages
  <2>2. /\ Len(ms) = Len(vs) /\ Len(vs) \in Nat
        /\ \A k \in 1 .. Len(vs) : ms[k] = IF Passed(vs[k]) THEN Variable(vs[k], k > d)
                                           ELSE Remark(told + Cardinality(RemarksTo(vs, k)))
    BY <1>2, <2>1, SaysMessages
  <2>3. \A k \in 1 .. Len(vs) :
          /\ vs[k] \in Var /\ Cardinality(RemarksTo(vs, k)) \in Nat /\ IsFiniteSet(RemarksTo(vs, k))
          /\ told + Cardinality(RemarksTo(vs, k)) \in Nat
    <3> TAKE k \in 1 .. Len(vs)
    <3>1. vs[k] \in Var /\ k \in 0 .. Len(vs)
      BY <2>2
    <3> QED BY <3>1, RemarksOf
  <2>0. guiUp
    BY <2>2, <2>3, Makes
  <2>4. \A k \in 1 .. Len(vs) :
          /\ Passed(vs[k]) => ms[k].k # "message"
          /\ ~Passed(vs[k]) => ms[k].k = "message" /\ ms[k].line = told + Cardinality(RemarksTo(vs, k))
    BY <2>0, <2>2, <2>3, Makes
  <2>5. ms[i].line = told + Cardinality(RemarksTo(vs, i))
    BY <2>2, <2>4
  <2>6. Given(p) = Cardinality(RemarksTo(vs, Len(vs)))
    BY <1>2, <2>0, <2>1, RemarksAll DEF Given
  <2>7. RemarksTo(vs, Len(vs)) = RemarksTo(vs, i) \union Behind(ms, i)
    <3>1. \A j : j \in RemarksTo(vs, Len(vs)) <=> j \in RemarksTo(vs, i) \union Behind(ms, i)
      <4> TAKE j
      <4>1. j \in 1 .. Len(vs) <=> j \in 1 .. i \/ j \in i + 1 .. Len(vs)
        BY <2>2
      <4>2. j \in 1 .. Len(vs) => (~Passed(vs[j]) <=> ms[j].k = "message")
        BY <2>4
      <4> QED BY <2>2, <4>1, <4>2 DEF RemarksTo, Behind
    <3> QED BY <3>1, SameElements
  <2>8. RemarksTo(vs, i) \cap Behind(ms, i) = {}
    <3>1. \A j \in RemarksTo(vs, i) : j \in Int /\ j <= i
      BY <2>2 DEF RemarksTo
    <3>2. \A j \in Behind(ms, i) : j \in Int /\ j >= i + 1
      BY <2>2 DEF Behind
    <3>3. \A j : ~(j \in RemarksTo(vs, i) /\ j \in Behind(ms, i))
      BY <2>2, <3>1, <3>2
    <3> QED BY <3>3
  <2>9. IsFiniteSet(Behind(ms, i)) /\ Cardinality(Behind(ms, i)) \in Nat
    <3>1. ms \in Seq(Message) /\ i \in Nat
      BY <2>2, SaysMessages
    <3> QED BY <3>1, BehindType
  <2>10. /\ IsFiniteSet(RemarksTo(vs, i)) /\ Cardinality(RemarksTo(vs, i)) \in Nat
    BY <2>2, <2>3
  <2>11. Given(p) = Cardinality(RemarksTo(vs, i)) + Cardinality(Behind(ms, i)) - 0
    BY <2>6, <2>7, <2>8, <2>9, <2>10, FS_Union, FS_EmptySet
  <2> QED BY <2>5, <2>9, <2>10, <2>11
<1> QED BY <1>1, <1>2

\* Nothing is for the log before Gui listens.
LEMMA SaysQuiet ==
  ASSUME NEW p \in Packet, NEW d, told \in Nat, ~guiUp, NEW i \in 1 .. Len(Says(p, d))
  PROVE  Says(p, d)[i].k # "message"
<1>1. CASE p.type = "TEXT_MESSAGE"
  <2>1. Says(p, d) = <<Remark(told + 1)>>
    BY <1>1, SaysMessages
  <2>2. Says(p, d)[i] = Remark(told + 1)
    BY <2>1
  <2> QED BY <2>2, Makes
<1>2. CASE p.type # "TEXT_MESSAGE"
  <2>1. PICK vs \in Seq(Var) : vs = Parsed(p.vars)
    BY <1>2, SaysMessages
  <2>2. /\ i \in 1 .. Len(vs)
        /\ Says(p, d)[i] = IF Passed(vs[i]) THEN Variable(vs[i], i > d)
                           ELSE Remark(told + Cardinality(RemarksTo(vs, i)))
    BY <1>2, <2>1, SaysMessages
  <2>3. vs[i] \in Var /\ i \in 0 .. Len(vs)
    BY <2>2
  <2>4. told + Cardinality(RemarksTo(vs, i)) \in Nat
    BY <2>3, RemarksOf
  <2> QED BY <2>2, <2>3, <2>4, Makes
<1> QED BY <1>1, <1>2

\* As many remarks are posted as Device counts.
LEMMA SaysCounted ==
  ASSUME NEW p \in Packet, NEW d, told \in Nat
  PROVE  Cardinality(Behind(Says(p, d), 0)) = Given(p)
<1> DEFINE ms == Says(p, d)
<1>0. CASE ~guiUp
  <2>1. \A k \in 1 .. Len(ms) : ms[k].k # "message"
    BY <1>0, SaysQuiet
  <2> HIDE DEF ms
  <2>2. Behind(ms, 0) = {}
    BY <2>1 DEF Behind
  <2> QED BY <1>0, <2>2, FS_EmptySet DEF Given, ms
<1>1. CASE guiUp /\ p.type = "TEXT_MESSAGE"
  <2>1. ms = <<Remark(told + 1)>> /\ Given(p) = 1
    BY <1>1, SaysMessages DEF Given
  <2> HIDE DEF ms
  <2>2. Len(ms) = 1 /\ ms[1] = Remark(told + 1)
    BY <2>1
  <2>3. ms[1].k = "message"
    BY <1>1, <2>2, Makes
  <2>4. \A j : j \in Behind(ms, 0) <=> j \in {1}
    <3> TAKE j
    <3>1. j \in 0 + 1 .. 1 <=> j = 1
      OBVIOUS
    <3> QED BY <2>2, <2>3, <3>1 DEF Behind
  <2>5. Behind(ms, 0) = {1}
    BY <2>4, SameElements
  <2> QED BY <2>1, <2>5, FS_Singleton DEF ms
<1>2. CASE guiUp /\ p.type # "TEXT_MESSAGE"
  <2>1. PICK vs \in Seq(Var) : vs = Parsed(p.vars)
    BY <1>2, SaysMessages
  <2>2. /\ Len(ms) = Len(vs) /\ Len(vs) \in Nat
        /\ \A k \in 1 .. Len(vs) : ms[k] = IF Passed(vs[k]) THEN Variable(vs[k], k > d)
                                           ELSE Remark(told + Cardinality(RemarksTo(vs, k)))
    BY <1>2, <2>1, SaysMessages
  <2> HIDE DEF ms
  <2>3. \A k \in 1 .. Len(vs) :
          vs[k] \in Var /\ told + Cardinality(RemarksTo(vs, k)) \in Nat
    <3> TAKE k \in 1 .. Len(vs)
    <3>1. vs[k] \in Var /\ k \in 0 .. Len(vs)
      BY <2>2
    <3> QED BY <3>1, RemarksOf
  <2>4. \A k \in 1 .. Len(vs) : ms[k].k = "message" <=> ~Passed(vs[k])
    BY <1>2, <2>2, <2>3, Makes
  <2>5. \A j : j \in Behind(ms, 0) <=> j \in RemarksTo(vs, Len(vs))
    <3> TAKE j
    <3>1. 0 + 1 = 1
      OBVIOUS
    <3> QED BY <2>2, <2>4, <3>1 DEF Behind, RemarksTo
  <2>6. Behind(ms, 0) = RemarksTo(vs, Len(vs))
    BY <2>5, SameElements
  <2> QED BY <1>2, <2>1, <2>6, RemarksAll DEF Given, ms
<1> QED BY <1>0, <1>1, <1>2

\* Waiting is Behind, for the queue of Device and the GUI.
RemarksBehind(q, t, n) ==
  /\ \A i \in 1 .. Len(q) : q[i].k = "message" => q[i].line = n - Cardinality(Behind(q, i))
  /\ \A k \in 1 .. Len(t) : t[k] = n - Cardinality(Behind(q, 0)) - (Len(t) - k)
  /\ Len(t) > LogLimit \/ t[1] = 0

\* That is what RemarksLogged says.
LEMMA RemarksAre == RemarksLogged <=> RemarksBehind(queue, text, told)
  BY DEF RemarksLogged, RemarksBehind, Waiting, Behind

\* At the start the log holds the line 0, and nothing waits.
LEMMA RemarksInit == Init => RemarksBehind(queue, text, told)
<1> SUFFICES ASSUME Init PROVE RemarksBehind(queue, text, told)
  OBVIOUS
<1>1. queue = <<>> /\ Len(queue) = 0 /\ text = <<0>> /\ Len(text) = 1 /\ text[1] = 0 /\ told = 0
  BY DEF Init, LoggerInit
<1>2. Behind(queue, 0) = {}
  BY <1>1 DEF Behind
<1>3. Cardinality(Behind(queue, 0)) = 0
  BY <1>2, FS_EmptySet
<1>4. \A k \in 1 .. Len(text) : text[k] = told - Cardinality(Behind(queue, 0)) - (Len(text) - k)
  <2> TAKE k \in 1 .. Len(text)
  <2>1. k = 1
    BY <1>1
  <2> QED BY <1>1, <1>3, <2>1
<1> QED BY <1>1, <1>4 DEF RemarksBehind

\* Device numbers on.
LEMMA RemarksRecieve ==
  ASSUME TypeOK, OnRecieve, RemarksBehind(queue, text, told)
  PROVE  RemarksBehind(queue', text', told')
<1> DEFINE p == Head(in)
<1>1. PICK d : p \in Packet /\ queue' = queue \o Says(p, d) /\ told' = told + Given(p)
  BY RecieveType
<1> HIDE DEF p
<1>2. text' = text /\ queue \in Seq(Message) /\ told \in Nat /\ Len(text) \in Nat
  BY RecieveType DEF TypeOK, LoggerTypeOK
<1>3. PICK ms \in Seq(Message) : ms = Says(p, d)
  BY <1>1, <1>2, SaysMessages
<1> DEFINE n == Len(queue)
           g == Given(p)
<1>4. /\ n \in Nat /\ Len(ms) \in Nat /\ Len(queue') = n + Len(ms)
      /\ \A i \in 1 .. n : queue'[i] = queue[i]
      /\ \A i \in 1 .. Len(ms) : queue'[n + i] = ms[i]
  BY <1>1, <1>2, <1>3, Posted
<1>5. g \in Nat /\ Cardinality(Behind(ms, 0)) = g
  BY <1>1, <1>2, <1>3, SaysMessages, SaysCounted
<1>6. /\ \A i \in 0 .. n : Cardinality(Behind(queue', i)) = Cardinality(Behind(queue, i)) + g
      /\ \A i \in 0 .. Len(ms) : Cardinality(Behind(queue', n + i)) = Cardinality(Behind(ms, i))
  BY <1>1, <1>2, <1>3, <1>5, BehindPosted
<1>7. \A i \in Nat : Cardinality(Behind(queue, i)) \in Nat /\ Cardinality(Behind(ms, i)) \in Nat
  BY <1>2, <1>3, BehindType
<1>8. told' = told + g
  BY <1>1
<1> HIDE DEF g
<1>9. ASSUME NEW i \in 1 .. Len(queue'), queue'[i].k = "message"
      PROVE  queue'[i].line = told' - Cardinality(Behind(queue', i))
  <2>1. CASE i \in 1 .. n
    <3>1. queue[i].line = told - Cardinality(Behind(queue, i))
      BY <1>4, <1>9, <2>1 DEF RemarksBehind
    <3>2. i \in 0 .. n /\ i \in Nat
      BY <1>4, <2>1
    <3>3. Cardinality(Behind(queue', i)) = Cardinality(Behind(queue, i)) + g
      BY <1>6, <3>2
    <3>4. Cardinality(Behind(queue, i)) \in Nat
      BY <1>7, <3>2
    <3>5. queue'[i].line = told - Cardinality(Behind(queue, i))
      BY <1>4, <2>1, <3>1
    <3> QED BY <1>2, <1>5, <1>8, <3>3, <3>4, <3>5
  <2>2. CASE i \notin 1 .. n
    <3>1. i - n \in 1 .. Len(ms) /\ i = n + (i - n) /\ i - n \in 0 .. Len(ms) /\ i - n \in Nat
      BY <1>4, <2>2
    <3>2. queue'[i] = ms[i - n]
      BY <1>4, <3>1
    <3>3. ms[i - n].line = (told + Given(p)) - Cardinality(Behind(ms, i - n))
      BY <1>1, <1>2, <1>3, <1>9, <3>1, <3>2, SaysNumbered
    <3>4. Cardinality(Behind(queue', n + (i - n))) = Cardinality(Behind(ms, i - n))
      BY <1>6, <3>1
    <3>5. told + Given(p) = told'
      BY <1>1
    <3>6. Cardinality(Behind(queue', i)) = Cardinality(Behind(ms, i - n))
      BY <3>1, <3>4
    <3>7. queue'[i].line = (told + Given(p)) - Cardinality(Behind(ms, i - n))
      BY <3>2, <3>3, Zenon
    <3> QED BY <3>5, <3>6, <3>7, Zenon
  <2> QED BY <2>1, <2>2
<1>10. \A k \in 1 .. Len(text) : text[k] = told' - Cardinality(Behind(queue', 0)) - (Len(text) - k)
  <2> TAKE k \in 1 .. Len(text)
  <2>1. text[k] = told - Cardinality(Behind(queue, 0)) - (Len(text) - k)
    BY DEF RemarksBehind
  <2>2. 0 \in 0 .. n /\ 0 \in Nat
    BY <1>4
  <2>3. Cardinality(Behind(queue', 0)) = Cardinality(Behind(queue, 0)) + g /\ Cardinality(Behind(queue, 0)) \in Nat
    BY <1>6, <1>7, <2>2
  <2> QED BY <1>2, <1>5, <1>8, <2>1, <2>3
<1>11. Len(text) > LogLimit \/ text[1] = 0
  BY DEF RemarksBehind
<1> QED BY <1>2, <1>9, <1>10, <1>11 DEF RemarksBehind

\* A message is served that is no remark.
LEMMA RemarksVariable ==
  ASSUME TypeOK, OnVariable \/ OnNobody, RemarksBehind(queue, text, told)
  PROVE  RemarksBehind(queue', text', told')
<1>1. /\ queue # <<>> /\ queue[1].k # "message" /\ queue' = Tail(queue) /\ text' = text /\ told' = told
      /\ queue \in Seq(Message)
  BY VariableType, NobodyType DEF TypeOK
<1>2. /\ Len(queue) \in Nat \ {0} /\ Len(queue') = Len(queue) - 1
      /\ \A i \in 1 .. Len(queue) - 1 : queue'[i] = queue[i + 1]
  BY <1>1, Served
<1>3. /\ \A i \in Nat : Cardinality(Behind(queue', i)) = Cardinality(Behind(queue, i + 1))
      /\ Cardinality(Behind(queue, 0)) = Cardinality(Behind(queue, 1)) + 0
      /\ Cardinality(Behind(queue, 1)) \in Nat
  BY <1>1, BehindServed, BehindType
<1>4. Cardinality(Behind(queue', 0)) = Cardinality(Behind(queue, 0))
  <2>1. 0 \in Nat /\ 0 + 1 = 1
    OBVIOUS
  <2>2. Cardinality(Behind(queue', 0)) = Cardinality(Behind(queue, 1))
    BY <1>3, <2>1
  <2> QED BY <1>3, <2>2
<1>5. ASSUME NEW i \in 1 .. Len(queue'), queue'[i].k = "message"
      PROVE  queue'[i].line = told - Cardinality(Behind(queue', i))
  <2>1. i \in 1 .. Len(queue) - 1 /\ i + 1 \in 1 .. Len(queue) /\ i \in Nat
    BY <1>2
  <2>2. queue[i + 1].line = told - Cardinality(Behind(queue, i + 1))
    BY <1>2, <1>5, <2>1 DEF RemarksBehind
  <2> QED BY <1>2, <1>3, <2>1, <2>2
<1> QED BY <1>1, <1>4, <1>5 DEF RemarksBehind

\* A remark is served: it is the next line of the log.
LEMMA RemarksMessage ==
  ASSUME TypeOK, OnMessage, RemarksBehind(queue, text, told)
  PROVE  RemarksBehind(queue', text', told')
<1>1. /\ queue # <<>> /\ queue[1].k = "message" /\ queue[1].line \in Nat /\ queue' = Tail(queue)
      /\ AddMessage(queue[1].line) /\ told' = told
  BY MessageType
<1>0. queue \in Seq(Message) /\ told \in Nat /\ LoggerTypeOK
  BY DEF TypeOK
<1>2. /\ Len(queue) \in Nat \ {0} /\ Len(queue') = Len(queue) - 1
      /\ \A i \in 1 .. Len(queue) - 1 : queue'[i] = queue[i + 1]
  BY <1>0, <1>1, Served
<1>3. /\ \A i \in Nat : Cardinality(Behind(queue', i)) = Cardinality(Behind(queue, i + 1))
      /\ Cardinality(Behind(queue, 0)) = Cardinality(Behind(queue, 1)) + 1
      /\ Cardinality(Behind(queue, 1)) \in Nat
  BY <1>0, <1>1, BehindServed, BehindType
<1> DEFINE c == Cardinality(Behind(queue, 1))
<1>4. Cardinality(Behind(queue', 0)) = c /\ Cardinality(Behind(queue, 0)) = c + 1 /\ c \in Nat
  <2>1. 0 \in Nat /\ 0 + 1 = 1
    OBVIOUS
  <2>2. Cardinality(Behind(queue', 0)) = Cardinality(Behind(queue, 1))
    BY <1>3, <2>1
  <2> QED BY <1>3, <2>2
<1>5. queue[1].line = told - c
  <2>1. 1 \in 1 .. Len(queue)
    BY <1>2
  <2> QED BY <1>1, <2>1 DEF RemarksBehind
<1>6. ASSUME NEW i \in 1 .. Len(queue'), queue'[i].k = "message"
      PROVE  queue'[i].line = told - Cardinality(Behind(queue', i))
  <2>1. i \in 1 .. Len(queue) - 1 /\ i + 1 \in 1 .. Len(queue) /\ i \in Nat
    BY <1>2
  <2>2. queue[i + 1].line = told - Cardinality(Behind(queue, i + 1))
    BY <1>2, <1>6, <2>1 DEF RemarksBehind
  <2> QED BY <1>2, <1>3, <2>1, <2>2
<1> HIDE DEF c
<1>7. /\ Len(text) \in Nat /\ LogLimit \in Nat \ {0}
      /\ Len(text') = Len(Kept) + 1 /\ text'[Len(text')] = told - c
      /\ \/ Len(text) <= LogLimit /\ Kept = text /\ \A k \in 1 .. Len(text) : text'[k] = text[k]
         \/ /\ Len(text) = LogLimit + 1 /\ Len(Kept) = Len(text) - 1
            /\ \A k \in 1 .. Len(text) - 1 : text'[k] = text[k + 1]
  BY <1>0, <1>1, <1>5, LogKeeps
<1>8. \A k \in 1 .. Len(text) : text[k] = told - (c + 1) - (Len(text) - k)
  BY <1>4 DEF RemarksBehind
<1>9. Len(text) > LogLimit \/ text[1] = 0
  BY DEF RemarksBehind
<1>10. /\ \A k \in 1 .. Len(text') : text'[k] = told - c - (Len(text') - k)
       /\ Len(text') > LogLimit \/ text'[1] = 0
  <2>1. CASE Len(text) <= LogLimit /\ Kept = text /\ \A k \in 1 .. Len(text) : text'[k] = text[k]
    <3>1. Len(text') = Len(text) + 1 /\ Len(text) > 0
      BY <1>0, <1>7, <2>1 DEF LoggerTypeOK
    <3>2. \A k \in 1 .. Len(text') : text'[k] = told - c - (Len(text') - k)
      <4> TAKE k \in 1 .. Len(text')
      <4>1. CASE k \in 1 .. Len(text)
        <5>1. text'[k] = told - (c + 1) - (Len(text) - k)
          BY <1>8, <2>1, <4>1
        <5>3. k \in Int /\ Len(text) \in Int /\ told \in Int /\ c \in Int
          BY <1>0, <1>4, <1>7, <4>1
        <5>4. told - (c + 1) - (Len(text) - k) = told - c - (Len(text) + 1 - k)
          BY <5>3
        <5> QED BY <3>1, <5>1, <5>4
      <4>2. CASE k = Len(text')
        <5>1. text'[k] = told - c
          BY <1>7, <4>2
        <5>2. Len(text') - k = 0
          BY <1>7, <3>1, <4>2
        <5>3. told - c - 0 = told - c
          BY <1>0, <1>4
        <5> QED BY <5>1, <5>2, <5>3
      <4> QED BY <1>7, <3>1, <4>1, <4>2
    <3>3. text'[1] = 0
      <4>1. 1 \in 1 .. Len(text) /\ text[1] = 0
        BY <1>7, <1>9, <2>1, <3>1
      <4> QED BY <2>1, <4>1
    <3> QED BY <3>2, <3>3
  <2>2. CASE /\ Len(text) = LogLimit + 1 /\ Len(Kept) = Len(text) - 1
             /\ \A k \in 1 .. Len(text) - 1 : text'[k] = text[k + 1]
    <3>1. Len(text') = Len(text) /\ Len(text') > LogLimit
      BY <1>7, <2>2
    <3>2. \A k \in 1 .. Len(text') : text'[k] = told - c - (Len(text') - k)
      <4> TAKE k \in 1 .. Len(text')
      <4>1. CASE k \in 1 .. Len(text) - 1
        <5>1. k + 1 \in 1 .. Len(text)
          BY <1>7, <4>1
        <5>2. text'[k] = told - (c + 1) - (Len(text) - (k + 1))
          BY <1>8, <2>2, <4>1, <5>1
        <5>3. k \in Int /\ Len(text) \in Int /\ told \in Int /\ c \in Int
          BY <1>0, <1>4, <1>7, <4>1
        <5>4. told - (c + 1) - (Len(text) - (k + 1)) = told - c - (Len(text) - k)
          BY <5>3
        <5> QED BY <3>1, <5>2, <5>4
      <4>2. CASE k = Len(text')
        <5>1. text'[k] = told - c
          BY <1>7, <4>2
        <5>2. Len(text') - k = 0
          BY <1>7, <3>1, <4>2
        <5>3. told - c - 0 = told - c
          BY <1>0, <1>4
        <5> QED BY <5>1, <5>2, <5>3
      <4> QED BY <1>7, <3>1, <4>1, <4>2
    <3> QED BY <3>1, <3>2
  <2> QED BY <1>7, <2>1, <2>2
<1> QED BY <1>1, <1>4, <1>6, <1>10 DEF RemarksBehind

\* Every step keeps the remarks in line.
LEMMA RemarksStep ==
  TypeOK /\ RemarksBehind(queue, text, told) /\ [Next]_vars => RemarksBehind(queue', text', told')
<1> SUFFICES ASSUME TypeOK, RemarksBehind(queue, text, told), [Next]_vars
             PROVE  RemarksBehind(queue', text', told')
  OBVIOUS
<1>1. CASE BoardSends \/ Register \/ GuiStart \/ Scroll \/ UNCHANGED vars
  <2>1. queue' = queue /\ text' = text /\ told' = told
    BY <1>1, ScrollType, ListenType DEF BoardSends, logVars
  <2> QED BY <2>1
<1> QED BY <1>1, RemarksRecieve, RemarksVariable, RemarksMessage DEF Next

\* Every remark that Device makes once Gui::so_evt_start has subscribed reaches
\* the log once and in order, and none is missing among the last ones.
THEOREM RemarksReachTheLog == Spec => []RemarksLogged
<1>1. Init => RemarksLogged
  BY RemarksInit, RemarksAre
<1>2. TypeOK /\ RemarksLogged /\ [Next]_vars => RemarksLogged'
  <2> SUFFICES ASSUME TypeOK, RemarksLogged, [Next]_vars PROVE RemarksLogged'
    OBVIOUS
  <2>1. RemarksBehind(queue', text', told')
    BY RemarksStep, RemarksAre
  <2> QED BY <2>1 DEF RemarksLogged, RemarksBehind, Waiting, Behind
<1> QED BY <1>1, <1>2, TypeInit, TypeStep, PTL DEF Spec
=============================================================================
