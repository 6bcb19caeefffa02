---------------------------- MODULE UsbLink_proofs ----------------------------
(***************************************************************************)
(* Proofs of the safety properties of UsbLink, for every set of handles,   *)
(* every number of boards and ports, and both kinds of libusb.             *)
(***************************************************************************)
EXTENDS UsbLinkViews, FiniteSetTheorems, FunctionTheorems, TLAPS

-----------------------------------------------------------------------------
(* The worker's queue: what a listener settles on (Settles) when messages are *)
(* posted behind the others and when the head is served                       *)

\* Does m not occur in the sequence ms?
Without(ms, m) == \A i \in 1 .. Len(ms) : ms[i] # m

\* The elements of a concatenation.
LEMMA ConcatAt ==
  ASSUME NEW S, NEW s \in Seq(S), NEW t \in Seq(S)
  PROVE  /\ Len(s \o t) = Len(s) + Len(t)
         /\ \A i \in 1 .. Len(s) : (s \o t)[i] = s[i]
         /\ \A i \in 1 .. Len(t) : (s \o t)[Len(s) + i] = t[i]
         /\ \A i \in 1 .. Len(s) + Len(t) : i > Len(s) => (s \o t)[i] = t[i - Len(s)]
         /\ Len(s) \in Nat /\ Len(t) \in Nat
  OBVIOUS

\* Posting what is no announcement changes nothing a listener settles on.
LEMMA SettlesQuiet ==
  ASSUME NEW S, NEW s \in Seq(S), NEW t \in Seq(S), NEW up, NEW down, NEW now,
         Without(t, up), Without(t, down)
  PROVE  Settles(s \o t, up, down, now) <=> Settles(s, up, down, now)
<1>a. \A j \in 1 .. Len(s) : j \in 1 .. Len(s \o t) /\ (s \o t)[j] = s[j]
  BY ConcatAt
<1>b. \A j \in 1 .. Len(s \o t) : j \notin 1 .. Len(s) => (s \o t)[j] # up /\ (s \o t)[j] # down
  BY ConcatAt DEF Without
<1>1. ASSUME Settles(s, up, down, now) PROVE Settles(s \o t, up, down, now)
  <2>1. CASE now /\ \A j \in 1 .. Len(s) : s[j] # down
    BY <1>a, <1>b, <2>1 DEF Settles
  <2>2. CASE \E i \in 1 .. Len(s) : s[i] = up /\ \A j \in i + 1 .. Len(s) : s[j] # down
    <3>1. PICK i \in 1 .. Len(s) : s[i] = up /\ \A j \in i + 1 .. Len(s) : s[j] # down
      BY <2>2
    <3>2. \A j \in i + 1 .. Len(s \o t) : (s \o t)[j] # down
      <4> TAKE j \in i + 1 .. Len(s \o t)
      <4>1. j \in 1 .. Len(s \o t) /\ (j \in 1 .. Len(s) => j \in i + 1 .. Len(s))
        BY ConcatAt
      <4> QED BY <1>a, <1>b, <3>1, <4>1
    <3> QED BY <1>a, <3>1, <3>2 DEF Settles
  <2> QED BY <1>1, <2>1, <2>2 DEF Settles
<1>2. ASSUME Settles(s \o t, up, down, now) PROVE Settles(s, up, down, now)
  <2>2. CASE now /\ \A j \in 1 .. Len(s \o t) : (s \o t)[j] # down
    BY <1>a, <2>2 DEF Settles
  <2>3. CASE \E i \in 1 .. Len(s \o t) :
               (s \o t)[i] = up /\ \A j \in i + 1 .. Len(s \o t) : (s \o t)[j] # down
    <3>1. PICK i \in 1 .. Len(s \o t) :
            (s \o t)[i] = up /\ \A j \in i + 1 .. Len(s \o t) : (s \o t)[j] # down
      BY <2>3
    <3>2. i \in 1 .. Len(s)
      BY <1>b, <3>1
    <3>3. \A j \in i + 1 .. Len(s) : j \in i + 1 .. Len(s \o t) /\ j \in 1 .. Len(s)
      BY <3>2, ConcatAt
    <3> QED BY <1>a, <3>1, <3>2, <3>3 DEF Settles
  <2> QED BY <1>2, <2>2, <2>3 DEF Settles
<1> QED BY <1>1, <1>2

\* Posting the announcement `up`, and no `down`, settles every listener on it.
LEMMA SettlesUp ==
  ASSUME NEW S, NEW s \in Seq(S), NEW t \in Seq(S), NEW up, NEW down, NEW now,
         ~Without(t, up), Without(t, down)
  PROVE  Settles(s \o t, up, down, now)
<1>1. PICK k \in 1 .. Len(t) : t[k] = up
  BY DEF Without
<1>2. \A j \in Len(s) + k + 1 .. Len(s \o t) : (s \o t)[j] # down
  BY ConcatAt DEF Without
<1>3. Len(s) + k \in 1 .. Len(s \o t) /\ (s \o t)[Len(s) + k] = up
  BY <1>1, ConcatAt
<1> QED BY <1>2, <1>3 DEF Settles

\* Posting the announcement `down`, and no `up`, settles every listener on it.
LEMMA SettlesDown ==
  ASSUME NEW S, NEW s \in Seq(S), NEW t \in Seq(S), NEW up, NEW down, NEW now,
         Without(t, up), ~Without(t, down)
  PROVE  ~Settles(s \o t, up, down, now)
<1>1. PICK k \in 1 .. Len(t) : t[k] = down
  BY DEF Without
<1>2. Len(s) + k \in 1 .. Len(s \o t) /\ (s \o t)[Len(s) + k] = down
  BY <1>1, ConcatAt
<1>3. \A i \in 1 .. Len(s \o t) : i > Len(s) => (s \o t)[i] # up
  BY ConcatAt DEF Without
<1>4. ASSUME NEW i \in 1 .. Len(s \o t), (s \o t)[i] = up,
             \A j \in i + 1 .. Len(s \o t) : (s \o t)[j] # down
      PROVE  FALSE
  <2>1. i <= Len(s)
    BY <1>3, <1>4, ConcatAt
  <2>2. Len(s) + k \in i + 1 .. Len(s \o t)
    BY <1>2, <2>1, ConcatAt
  <2> QED BY <1>2, <1>4, <2>2
<1> QED BY <1>2, <1>4 DEF Settles

\* The elements of a queue whose head is served.
LEMMA TailAt ==
  ASSUME NEW S, NEW s \in Seq(S), s # <<>>
  PROVE  /\ Len(Tail(s)) = Len(s) - 1
         /\ Len(s) \in Nat \ {0}
         /\ \A i \in 1 .. Len(s) - 1 : Tail(s)[i] = s[i + 1]
         /\ Head(s) = s[1]
  OBVIOUS

\* Serving the head of the queue to the listener does not change what it
\* settles on.
LEMMA SettlesTail ==
  ASSUME NEW S, NEW s \in Seq(S), s # <<>>, NEW up, NEW down, up # down,
         NEW now \in BOOLEAN, NEW next \in BOOLEAN,
         next <=> (Head(s) = up \/ (now /\ Head(s) # down))
  PROVE  Settles(Tail(s), up, down, next) <=> Settles(s, up, down, now)
<1>1. ASSUME Settles(Tail(s), up, down, next) PROVE Settles(s, up, down, now)
  <2>1. CASE \E i \in 1 .. Len(Tail(s)) : Tail(s)[i] = up /\ \A j \in i + 1 .. Len(Tail(s)) : Tail(s)[j] # down
    <3>1. PICK i \in 1 .. Len(s) - 1 : s[i + 1] = up /\ \A j \in i + 1 .. Len(s) - 1 : s[j + 1] # down
      BY <2>1, TailAt
    <3>2. \A j \in (i + 1) + 1 .. Len(s) : s[j] # down
      <4> TAKE j \in (i + 1) + 1 .. Len(s)
      <4>1. j - 1 \in i + 1 .. Len(s) - 1 /\ s[(j - 1) + 1] = s[j]
        BY TailAt
      <4> QED BY <3>1, <4>1
    <3> QED BY <3>1, <3>2, TailAt DEF Settles
  <2>2. CASE next /\ \A j \in 1 .. Len(Tail(s)) : Tail(s)[j] # down
    <3>1. \A j \in 2 .. Len(s) : s[j] # down
      <4> TAKE j \in 2 .. Len(s)
      <4>1. j - 1 \in 1 .. Len(s) - 1 /\ Tail(s)[j - 1] = s[(j - 1) + 1] /\ (j - 1) + 1 = j
        BY TailAt
      <4> QED BY <2>2, <4>1, TailAt
    <3> QED BY <2>2, <3>1, TailAt DEF Settles
  <2> QED BY <1>1, <2>1, <2>2 DEF Settles
<1>2. ASSUME Settles(s, up, down, now) PROVE Settles(Tail(s), up, down, next)
  <2>0. \A n \in 2 .. Len(s) : n - 1 \in 1 .. Len(Tail(s)) /\ Tail(s)[n - 1] = s[n]
    BY TailAt
  <2>9. \A j \in 1 .. Len(Tail(s)) : j + 1 \in 2 .. Len(s) /\ Tail(s)[j] = s[j + 1]
    BY TailAt
  <2>1. CASE \E i \in 2 .. Len(s) : s[i] = up /\ \A j \in i + 1 .. Len(s) : s[j] # down
    <3>1. PICK i \in 2 .. Len(s) : s[i] = up /\ \A j \in i + 1 .. Len(s) : s[j] # down
      BY <2>1
    <3>2. \A j \in (i - 1) + 1 .. Len(Tail(s)) : Tail(s)[j] # down
      BY <2>9, <3>1, TailAt
    <3> QED BY <2>0, <3>1, <3>2 DEF Settles
  <2>2. CASE next /\ \A j \in 2 .. Len(s) : s[j] # down
    BY <2>2, <2>9 DEF Settles
  <2>3. \A i \in 1 .. Len(s) : i = 1 \/ i \in 2 .. Len(s)
    BY TailAt
  <2>4. 2 .. Len(s) \subseteq 1 .. Len(s) /\ 1 \in 1 .. Len(s)
    BY TailAt
  <2> QED BY <1>2, <2>1, <2>2, <2>3, <2>4, TailAt DEF Settles
<1> QED BY <1>1, <1>2

-----------------------------------------------------------------------------
(* Safety *)

-----------------------------------------------------------------------------
(* The announcements on their way (Feed), which are numbered by where they are *)

\* Sets with the same elements are equal.
LEMMA SameSet ==
  ASSUME NEW A, NEW B, \A x : x \in A <=> x \in B
  PROVE  A = B
  OBVIOUS

\* The elements of a finite set of places are numbered from 1 in their order.
LEMMA Numbered ==
  ASSUME NEW n \in Nat, NEW A \in SUBSET (1 .. n)
  PROVE  /\ IsFiniteSet(A) /\ Cardinality(A) \in Nat
         /\ \A i \in A : Rank(A, i) \in 1 .. Cardinality(A) /\ Nth(A, Rank(A, i)) = i
         /\ \A k \in 1 .. Cardinality(A) : Nth(A, k) \in A /\ Rank(A, Nth(A, k)) = k
<1> DEFINE U(i) == {j \in A : j <= i}
<1> DEFINE N == Cardinality(A)
<1>1. IsFiniteSet(A) /\ N \in Nat
  <2>1. IsFiniteSet(1 .. n)
    BY FS_Interval
  <2> QED BY <2>1, FS_Subset, FS_CardinalityType
<1>2. \A i : IsFiniteSet(U(i)) /\ Cardinality(U(i)) \in Nat /\ Cardinality(U(i)) <= N
  <2> TAKE i
  <2>1. U(i) \in SUBSET A
    OBVIOUS
  <2> QED BY <1>1, <2>1, FS_Subset, FS_CardinalityType
<1>3. ASSUME NEW i \in A, NEW j \in A, i < j PROVE Rank(A, i) < Rank(A, j)
  <2>1. U(i) \in SUBSET U(j) /\ j \in U(j) /\ j \notin U(i)
    <3>1. i \in Nat /\ j \in Nat /\ ~(j <= i) /\ j <= j /\ \A m \in A : m \in Nat
      BY <1>3
    <3>2. \A m \in A : m <= i => m <= j
      BY <1>3, <3>1
    <3> QED BY <3>1, <3>2
  <2>2. Cardinality(U(i)) # Cardinality(U(j))
    BY <1>2, <2>1, FS_Subset
  <2>3. Cardinality(U(i)) <= Cardinality(U(j))
    BY <1>2, <2>1, FS_Subset
  <2> QED BY <1>2, <2>2, <2>3 DEF Rank
<1>4. \A i \in A : Rank(A, i) \in 1 .. N
  <2> TAKE i \in A
  <2>1. U(i) # {}
    OBVIOUS
  <2>2. Cardinality(U(i)) # 0
    BY <1>2, <2>1, FS_EmptySet
  <2> QED BY <1>1, <1>2, <2>2 DEF Rank
<1>5. \A i, j \in A : Rank(A, i) = Rank(A, j) => i = j
  <2> TAKE i, j \in A
  <2>1. i < j \/ j < i \/ i = j
    OBVIOUS
  <2> QED BY <1>1, <1>3, <1>4, <2>1
<1>6. \A k \in 1 .. N : \E i \in A : Rank(A, i) = k
  <2> SUFFICES ASSUME NEW k \in 1 .. N, \A i \in A : Rank(A, i) # k PROVE FALSE
    OBVIOUS
  <2> DEFINE f == [i \in A |-> Rank(A, i)]
  <2> DEFINE T == (1 .. N) \ {k}
  <2>1. f \in [A -> T]
    BY <1>4
  <2>2. IsFiniteSet(T) /\ Cardinality(T) = N - 1
    <3>1. IsFiniteSet(1 .. N) /\ Cardinality(1 .. N) = N
      BY <1>1, FS_Interval
    <3> QED BY <3>1, FS_RemoveElement
  <2>3. Cardinality(T) < Cardinality(A)
    BY <1>1, <2>2
  <2>4. \E x, y \in A : x # y /\ f[x] = f[y]
    <3> HIDE DEF f, T
    <3> QED BY <1>1, <2>1, <2>2, <2>3, FS_PigeonHole
  <2> QED BY <1>5, <2>4
<1> QED BY <1>1, <1>4, <1>5, <1>6 DEF Nth

\* A place behind all others is the last.
LEMMA NumberedMore ==
  ASSUME NEW n \in Nat, NEW A \in SUBSET (1 .. n)
  PROVE  /\ Cardinality(A \union {n + 1}) = Cardinality(A) + 1
         /\ \A k \in 1 .. Cardinality(A) : Nth(A \union {n + 1}, k) = Nth(A, k)
         /\ Nth(A \union {n + 1}, Cardinality(A) + 1) = n + 1
<1> DEFINE B == A \union {n + 1}
<1> DEFINE N == Cardinality(A)
<1>1. B \in SUBSET (1 .. n + 1) /\ n + 1 \in Nat /\ n + 1 \notin A
  OBVIOUS
<1>2. IsFiniteSet(A) /\ N \in Nat
  BY Numbered
<1>3. Cardinality(B) = N + 1
  BY <1>1, <1>2, FS_AddElement
<1>4. \A i \in A : Rank(B, i) = Rank(A, i)
  <2> TAKE i \in A
  <2>1. {j \in B : j <= i} = {j \in A : j <= i}
    BY <1>1
  <2> QED BY <2>1 DEF Rank
<1>5. Rank(B, n + 1) = N + 1
  <2>1. \A j \in B : j <= n + 1
    BY <1>1
  <2>2. \A j : j \in {m \in B : m <= n + 1} <=> j \in B
    BY <2>1
  <2>3. {j \in B : j <= n + 1} = B
    BY <2>2
  <2> QED BY <1>3, <2>3 DEF Rank
<1>6. \A i \in B : Nth(B, Rank(B, i)) = i
  <2> HIDE DEF B
  <2> QED BY <1>1, Numbered
<1>7. \A k \in 1 .. N : Nth(B, k) = Nth(A, k)
  <2> TAKE k \in 1 .. N
  <2>1. Nth(A, k) \in A /\ Rank(A, Nth(A, k)) = k
    BY Numbered
  <2>2. Nth(A, k) \in B /\ Rank(B, Nth(A, k)) = k
    BY <1>4, <2>1
  <2> HIDE DEF B
  <2> QED BY <1>6, <2>2
<1> QED BY <1>3, <1>5, <1>6, <1>7

\* The places of a sequence that has lost its head.
LEMMA NumberedTail ==
  ASSUME NEW n \in Nat, NEW A \in SUBSET (1 .. n), NEW B \in SUBSET (1 .. n),
         \A i \in Nat : i \in B <=> i > 0 /\ i + 1 \in A,
         NEW d \in {0, 1}, d = 1 <=> 1 \in A
  PROVE  /\ Cardinality(A) = Cardinality(B) + d
         /\ \A k \in 1 .. Cardinality(B) : Nth(A, k + d) = Nth(B, k) + 1
         /\ d = 1 => Nth(A, 1) = 1
<1>1. /\ IsFiniteSet(A) /\ Cardinality(A) \in Nat
      /\ IsFiniteSet(B) /\ Cardinality(B) \in Nat
  BY Numbered
<1>2. ASSUME NEW C \in SUBSET B
      PROVE  Cardinality({i \in A : i - 1 \in C}) = Cardinality(C)
  <2> DEFINE D == {i \in A : i - 1 \in C}
  <2> DEFINE f == [i \in C |-> i + 1]
  <2>1. IsFiniteSet(C)
    BY <1>1, FS_Subset
  <2>2. f \in [C -> D]
    OBVIOUS
  <2>3. \A i, j \in C : f[i] = f[j] => i = j
    OBVIOUS
  <2>4. \A j \in D : \E i \in C : f[i] = j
    <3> TAKE j \in D
    <3>1. j - 1 \in C /\ f[j - 1] = j
      OBVIOUS
    <3> QED BY <3>1
  <2>5. f \in Bijection(C, D)
    <3> HIDE DEF f, D
    <3> QED BY <2>2, <2>3, <2>4, Fun_IsBij
  <2>6. ExistsBijection(C, D)
    <3> HIDE DEF f, D
    <3> QED BY <2>5 DEF ExistsBijection
  <2> QED BY <2>1, <2>6, FS_Bijection
<1>3. ASSUME NEW X \in SUBSET A, 1 \in X <=> 1 \in A
      PROVE  Cardinality(X) = Cardinality({i \in B : i + 1 \in X}) + d
  <2> DEFINE C == {i \in B : i + 1 \in X}
  <2> DEFINE Y == {i \in A : i - 1 \in C}
  <2>1. C \in SUBSET B
    OBVIOUS
  <2>2. Cardinality(Y) = Cardinality(C)
    <3> HIDE DEF C
    <3> QED BY <1>2, <2>1
  <2>3. \A i : i \in X \ {1} <=> i \in Y
    <3> TAKE i
    <3>1. CASE i \in X \ {1}
      <4>1. i \in 1 .. n /\ i # 1
        BY <3>1
      <4>2. i - 1 \in Nat /\ i - 1 > 0 /\ (i - 1) + 1 = i
        BY <4>1
      <4>3. i - 1 \in B
        BY <3>1, <4>2
      <4> QED BY <3>1, <4>2, <4>3
    <3>2. CASE i \in Y
      <4>1. i \in 1 .. n /\ i - 1 \in B /\ (i - 1) + 1 \in X
        BY <3>2
      <4>2. i \in X /\ i # 1
        BY <4>1
      <4> QED BY <4>2
    <3> QED BY <3>1, <3>2
  <2>4. X \ {1} = Y
    <3> HIDE DEF Y
    <3> QED BY <2>3, SameSet
  <2>5. IsFiniteSet(X)
    BY <1>1, FS_Subset
  <2>6. Cardinality(X) \in Nat
    BY <2>5, FS_CardinalityType
  <2>7. Cardinality(X \ {1}) = IF 1 \in X THEN Cardinality(X) - 1 ELSE Cardinality(X)
    BY <2>5, FS_RemoveElement
  <2>8. Cardinality(C) = IF d = 1 THEN Cardinality(X) - 1 ELSE Cardinality(X)
    BY <1>3, <2>2, <2>4, <2>7
  <2>9. CASE d = 1
    BY <2>6, <2>8, <2>9
  <2>10. CASE d = 0
    BY <2>6, <2>8, <2>10
  <2> QED BY <2>9, <2>10
<1>4. Cardinality(A) = Cardinality(B) + d
  <2>1. \A i \in B : i \in Nat /\ i + 1 \in A
    OBVIOUS
  <2>2. \A i : i \in {m \in B : m + 1 \in A} <=> i \in B
    BY <2>1
  <2>3. {i \in B : i + 1 \in A} = B
    BY <2>2
  <2> QED BY <1>3, <2>3
<1>5. \A i \in B : i + 1 \in A /\ Rank(A, i + 1) = Rank(B, i) + d
  <2> TAKE i \in B
  <2> DEFINE X == {j \in A : j <= i + 1}
  <2>1. X \in SUBSET A /\ (1 \in X <=> 1 \in A)
    OBVIOUS
  <2>2. Cardinality(X) = Cardinality({j \in B : j + 1 \in X}) + d
    <3> HIDE DEF X
    <3> QED BY <1>3, <2>1
  <2>3. \A j : j \in {m \in B : m + 1 \in X} <=> j \in {m \in B : m <= i}
    <3>1. \A j \in B : j \in Nat /\ j + 1 \in A /\ (j + 1 <= i + 1 <=> j <= i)
      OBVIOUS
    <3> QED BY <3>1
  <2>4. {j \in B : j + 1 \in X} = {j \in B : j <= i}
    BY <2>3
  <2> QED BY <2>2, <2>4 DEF Rank
<1>6. \A k \in 1 .. Cardinality(B) : Nth(A, k + d) = Nth(B, k) + 1
  <2> TAKE k \in 1 .. Cardinality(B)
  <2>1. Nth(B, k) \in B /\ Rank(B, Nth(B, k)) = k
    BY Numbered
  <2>2. Nth(B, k) + 1 \in A /\ Rank(A, Nth(B, k) + 1) = k + d
    BY <1>5, <2>1
  <2>3. \A j \in A : Nth(A, Rank(A, j)) = j
    BY Numbered
  <2> QED BY <2>2, <2>3
<1>7. d = 1 => Nth(A, 1) = 1
  <2> SUFFICES ASSUME d = 1 PROVE Nth(A, 1) = 1
    OBVIOUS
  <2>1. 1 \in A
    OBVIOUS
  <2>2. \A j : j \in {m \in A : m <= 1} <=> j \in {1}
    <3>1. \A j \in A : j <= 1 <=> j = 1
      OBVIOUS
    <3> QED BY <2>1, <3>1
  <2>3. {j \in A : j <= 1} = {1}
    BY <2>2
  <2>4. Rank(A, 1) = 1
    BY <2>3, FS_Singleton DEF Rank
  <2>5. Nth(A, Rank(A, 1)) = 1
    BY <2>1, Numbered
  <2> QED BY <2>4, <2>5
<1> QED BY <1>4, <1>6, <1>7
\* The announcements in a queue (Feed) when a message is posted and when the
\* head is served.
LEMMA FeedType ==
  ASSUME NEW S, NEW s \in Seq(S), NEW up, NEW down
  PROVE  /\ Places(s, up, down) \in SUBSET (1 .. Len(s)) /\ Len(s) \in Nat
         /\ Cardinality(Places(s, up, down)) \in Nat
         /\ Feed(s, up, down) \in Seq(BOOLEAN)
         /\ Len(Feed(s, up, down)) = Cardinality(Places(s, up, down))
<1> DEFINE A == Places(s, up, down)
<1>1. A \in SUBSET (1 .. Len(s)) /\ Len(s) \in Nat
  BY DEF Places
<1>2. Cardinality(A) \in Nat
  BY <1>1, Numbered
<1>3. Feed(s, up, down) = [k \in 1 .. Cardinality(A) |-> s[Nth(A, k)] = up]
  BY DEF Feed
<1>4. \A k : (s[Nth(A, k)] = up) \in BOOLEAN
  OBVIOUS
<1> HIDE DEF A
<1>5. Feed(s, up, down) \in [1 .. Cardinality(A) -> BOOLEAN]
  BY <1>3, <1>4, Zenon
<1>6. Feed(s, up, down) \in Seq(BOOLEAN) /\ Len(Feed(s, up, down)) = Cardinality(A)
  BY <1>2, <1>5
<1> QED BY <1>1, <1>2, <1>6 DEF A

\* Sequences of the same length with the same elements are equal.
LEMMA SameSequence ==
  ASSUME NEW S, NEW s \in Seq(S), NEW t \in Seq(S), Len(s) = Len(t),
         \A i \in 1 .. Len(s) : s[i] = t[i]
  PROVE  s = t
  OBVIOUS

\* Posting what is no announcement leaves them.
LEMMA FeedQuiet ==
  ASSUME NEW S, NEW s \in Seq(S), NEW t \in Seq(S), NEW up, NEW down,
         Without(t, up), Without(t, down)
  PROVE  Feed(s \o t, up, down) = Feed(s, up, down)
<1> DEFINE A == Places(s, up, down)
<1> DEFINE B == Places(s \o t, up, down)
<1>1. \A j \in 1 .. Len(s) : j \in 1 .. Len(s \o t) /\ (s \o t)[j] = s[j]
  BY ConcatAt
<1>2. \A j \in 1 .. Len(s \o t) : j \notin 1 .. Len(s) => (s \o t)[j] # up /\ (s \o t)[j] # down
  BY ConcatAt DEF Without
<1>3. \A j : j \in B <=> j \in A
  BY <1>1, <1>2 DEF Places
<1>4. B = A
  <2> HIDE DEF A, B
  <2> QED BY <1>3, SameSet
<1>5. \A k \in 1 .. Cardinality(A) : Nth(A, k) \in 1 .. Len(s)
  <2>1. A \in SUBSET (1 .. Len(s)) /\ Len(s) \in Nat
    BY FeedType
  <2> HIDE DEF A
  <2> QED BY <2>1, Numbered
<1>6. \A k \in 1 .. Cardinality(A) : (s \o t)[Nth(A, k)] = s[Nth(A, k)]
  BY <1>1, <1>5
<1>7. Feed(s \o t, up, down) = [k \in 1 .. Cardinality(A) |-> (s \o t)[Nth(A, k)] = up]
  BY <1>4 DEF Feed
<1>8. Feed(s, up, down) = [k \in 1 .. Cardinality(A) |-> s[Nth(A, k)] = up]
  BY DEF Feed
<1> HIDE DEF A
<1>9. [k \in 1 .. Cardinality(A) |-> (s \o t)[Nth(A, k)] = up]
        = [k \in 1 .. Cardinality(A) |-> s[Nth(A, k)] = up]
  BY <1>6, Zenon
<1> QED BY <1>7, <1>8, <1>9

\* Posting an announcement appends it.
LEMMA FeedPosted ==
  ASSUME NEW S, NEW s \in Seq(S), NEW up \in S, NEW down \in S, NEW m \in {up, down},
         NEW b \in BOOLEAN, b <=> m = up
  PROVE  Feed(Append(s, m), up, down) = Append(Feed(s, up, down), b)
<1> DEFINE A == Places(s, up, down)
<1> DEFINE N == Cardinality(A)
<1> DEFINE B == A \union {Len(s) + 1}
<1> DEFINE f == Feed(s, up, down)
<1> DEFINE g == Feed(Append(s, m), up, down)
<1>1. /\ Append(s, m) \in Seq(S) /\ Len(Append(s, m)) = Len(s) + 1
      /\ \A i \in 1 .. Len(s) : Append(s, m)[i] = s[i]
      /\ Append(s, m)[Len(s) + 1] = m
      /\ Len(s) \in Nat
  OBVIOUS
<1>2. A \in SUBSET (1 .. Len(s)) /\ N \in Nat /\ f \in Seq(BOOLEAN) /\ Len(f) = N
  BY FeedType
<1>3. Places(Append(s, m), up, down) = B
  <2>1. \A i : i \in 1 .. Len(s) + 1 <=> i \in 1 .. Len(s) \/ i = Len(s) + 1
    BY <1>1
  <2>2. \A i : i \in Places(Append(s, m), up, down) <=> i \in B
    BY <1>1, <2>1 DEF Places
  <2> HIDE DEF B
  <2> QED BY <2>2, SameSet
<1>4. g \in Seq(BOOLEAN) /\ Len(g) = Cardinality(B)
  <2>1. /\ Feed(Append(s, m), up, down) \in Seq(BOOLEAN)
        /\ Len(Feed(Append(s, m), up, down)) = Cardinality(Places(Append(s, m), up, down))
    BY <1>1, FeedType
  <2> HIDE DEF B
  <2> QED BY <1>3, <2>1
<1>5. /\ Cardinality(B) = N + 1
      /\ \A k \in 1 .. N : Nth(B, k) = Nth(A, k)
      /\ Nth(B, N + 1) = Len(s) + 1
  <2> HIDE DEF A
  <2> QED BY <1>1, <1>2, NumberedMore
<1>6. g = [k \in 1 .. Cardinality(B) |-> Append(s, m)[Nth(B, k)] = up]
  BY <1>3 DEF Feed
<1>7. f = [k \in 1 .. N |-> s[Nth(A, k)] = up]
  BY DEF Feed
<1>8. \A k \in 1 .. N : Nth(A, k) \in 1 .. Len(s)
  <2> HIDE DEF A
  <2> QED BY <1>1, <1>2, Numbered
<1> HIDE DEF A, B, f, g, N
<1>9. \A k \in 1 .. N : g[k] = f[k]
  <2> TAKE k \in 1 .. N
  <2>1. k \in 1 .. Cardinality(B)
    BY <1>2, <1>5
  <2>2. Append(s, m)[Nth(B, k)] = s[Nth(A, k)]
    BY <1>1, <1>5, <1>8
  <2>3. g[k] = (Append(s, m)[Nth(B, k)] = up) /\ f[k] = (s[Nth(A, k)] = up)
    BY <1>6, <1>7, <2>1, Zenon
  <2> QED BY <2>2, <2>3, Zenon
<1>10. g[N + 1] = (m = up)
  <2>1. N + 1 \in 1 .. Cardinality(B)
    BY <1>2, <1>5
  <2>2. g[N + 1] = (Append(s, m)[Nth(B, N + 1)] = up)
    BY <1>6, <2>1, Zenon
  <2> QED BY <1>1, <1>5, <2>2, Zenon
<1>11. (m = up) = b
  <2>1. CASE b = TRUE
    BY <2>1, Zenon
  <2>2. CASE b = FALSE
    BY <2>2, Zenon
  <2> QED BY <2>1, <2>2
<1>12. g[N + 1] = b
  BY <1>10, <1>11
<1>13. /\ Append(f, b) \in Seq(BOOLEAN) /\ Len(Append(f, b)) = N + 1
       /\ \A i \in 1 .. N : Append(f, b)[i] = f[i]
       /\ Append(f, b)[N + 1] = b
  BY <1>2, <1>12
<1>14. \A i \in 1 .. N + 1 : i \in 1 .. N \/ i = N + 1
  BY <1>2
<1>15. g = Append(f, b)
  BY <1>4, <1>5, <1>9, <1>12, <1>13, <1>14, SameSequence
<1> QED BY <1>15 DEF f, g

\* Serving an announcement takes the first; serving anything else leaves them.
LEMMA FeedServed ==
  ASSUME NEW S, NEW s \in Seq(S), s # <<>>, NEW up, NEW down
  PROVE  IF Head(s) \in {up, down}
         THEN /\ Feed(s, up, down) # <<>>
              /\ Head(Feed(s, up, down)) = (Head(s) = up)
              /\ Feed(Tail(s), up, down) = Tail(Feed(s, up, down))
         ELSE Feed(Tail(s), up, down) = Feed(s, up, down)
<1> DEFINE A == Places(s, up, down)
<1> DEFINE B == Places(Tail(s), up, down)
<1> DEFINE f == Feed(s, up, down)
<1> DEFINE g == Feed(Tail(s), up, down)
<1>1. /\ Tail(s) \in Seq(S) /\ Len(s) \in Nat \ {0} /\ Len(Tail(s)) = Len(s) - 1
      /\ \A i \in 1 .. Len(s) - 1 : Tail(s)[i] = s[i + 1]
      /\ Head(s) = s[1]
  OBVIOUS
<1>2. A \in SUBSET (1 .. Len(s)) /\ Cardinality(A) \in Nat /\ f \in Seq(BOOLEAN) /\ Len(f) = Cardinality(A)
  BY FeedType
<1>3. B \in SUBSET (1 .. Len(s) - 1) /\ Cardinality(B) \in Nat /\ g \in Seq(BOOLEAN) /\ Len(g) = Cardinality(B)
  BY <1>1, FeedType
<1>4. \A i \in Nat : i \in B <=> i > 0 /\ i + 1 \in A
  <2> TAKE i \in Nat
  <2>1. i \in 1 .. Len(s) - 1 <=> i > 0 /\ i + 1 \in 1 .. Len(s)
    BY <1>1
  <2> QED BY <1>1, <2>1 DEF Places
<1>5. 1 \in A <=> Head(s) \in {up, down}
  BY <1>1 DEF Places
<1> DEFINE d == IF Head(s) \in {up, down} THEN 1 ELSE 0
<1>6. d \in {0, 1} /\ (d = 1 <=> 1 \in A)
  BY <1>5
<1>7. B \in SUBSET (1 .. Len(s))
  BY <1>1, <1>3
<1>8. f = [k \in 1 .. Cardinality(A) |-> s[Nth(A, k)] = up]
  BY DEF Feed
<1>9. g = [k \in 1 .. Cardinality(B) |-> Tail(s)[Nth(B, k)] = up]
  BY DEF Feed
<1>10. /\ Cardinality(A) = Cardinality(B) + d
       /\ \A k \in 1 .. Cardinality(B) : Nth(A, k + d) = Nth(B, k) + 1
       /\ d = 1 => Nth(A, 1) = 1
  <2> HIDE DEF A, B, d
  <2> QED BY <1>1, <1>2, <1>4, <1>6, <1>7, NumberedTail
<1>11. \A k \in 1 .. Cardinality(B) : Nth(B, k) \in 1 .. Len(s) - 1
  <2>1. Len(s) - 1 \in Nat
    BY <1>1
  <2> HIDE DEF B
  <2> QED BY <1>3, <2>1, Numbered
<1> HIDE DEF A, B, f, g
<1>12. \A k \in 1 .. Cardinality(B) : g[k] = f[k + d]
  <2> TAKE k \in 1 .. Cardinality(B)
  <2>1. k + d \in 1 .. Cardinality(A)
    BY <1>2, <1>3, <1>10
  <2>2. Tail(s)[Nth(B, k)] = s[Nth(A, k + d)]
    BY <1>1, <1>10, <1>11
  <2>3. g[k] = (Tail(s)[Nth(B, k)] = up) /\ f[k + d] = (s[Nth(A, k + d)] = up)
    <3> HIDE DEF d
    <3> QED BY <1>8, <1>9, <2>1, Zenon
  <2> HIDE DEF d
  <2> QED BY <2>2, <2>3, Zenon
<1>13. CASE Head(s) \in {up, down}
  <2>1. d = 1 /\ Len(f) = Len(g) + 1
    BY <1>2, <1>3, <1>10, <1>13
  <2>2. f # <<>> /\ 1 \in 1 .. Cardinality(A)
    BY <1>2, <1>3, <2>1
  <2>3. f[1] = (s[Nth(A, 1)] = up)
    BY <1>8, <2>2, Zenon
  <2>4. Nth(A, 1) = 1
    BY <1>10, <2>1
  <2>5. f[1] = (Head(s) = up)
    BY <1>1, <2>3, <2>4, Zenon
  <2>6. /\ Head(f) = f[1] /\ Tail(f) \in Seq(BOOLEAN) /\ Len(Tail(f)) = Len(g)
        /\ \A k \in 1 .. Len(g) : Tail(f)[k] = f[k + 1]
    BY <1>2, <1>3, <2>1, <2>2
  <2>7. \A k \in 1 .. Len(g) : g[k] = Tail(f)[k]
    BY <1>3, <1>12, <2>1, <2>6
  <2>8. g = Tail(f)
    BY <1>3, <2>6, <2>7, SameSequence
  <2>9. Head(f) = (Head(s) = up)
    BY <2>5, <2>6, Zenon
  <2> QED BY <1>13, <2>2, <2>8, <2>9, Zenon DEF f, g
<1>14. CASE Head(s) \notin {up, down}
  <2>1. d = 0
    BY <1>14
  <2>2. \A k \in 1 .. Cardinality(B) : k + d = k
    BY <1>3, <2>1
  <2>3. Len(f) = Len(g)
    BY <1>2, <1>3, <1>10, <2>1
  <2>4. \A k \in 1 .. Len(g) : g[k] = f[k]
    BY <1>3, <1>12, <2>2
  <2>5. g = f
    BY <1>2, <1>3, <2>3, <2>4, SameSequence
  <2> QED BY <1>14, <2>5 DEF f, g
<1> QED BY <1>13, <1>14
\* What the SMT backend has to be told of Boolean-valued variables.
LEMMA Bools == \A b : b = TRUE \/ b = FALSE => b \in BOOLEAN
  OBVIOUS

\* The queue stays a sequence of messages when it is served and posted to.
LEMMA PostType ==
  ASSUME NEW q \in Seq(Messages), NEW ms \in Seq(Messages)
  PROVE  /\ q \o ms \in Seq(Messages)
         /\ q # <<>> => Tail(q) \in Seq(Messages)
         /\ q # <<>> => Tail(q) \o ms \in Seq(Messages)
  OBVIOUS

\* What the handlers post are messages.
LEMMA Posted ==
  /\ <<>> \in Seq(Messages)
  /\ \A m \in Messages : <<m>> \in Seq(Messages)
  /\ \A m, n \in Messages : <<m, n>> \in Seq(Messages) /\ <<m>> \o <<n>> \in Seq(Messages)
  OBVIOUS

\* Steps that serve or post messages and touch nothing else of the agent and of
\* the library: the handlers of Device and Gui, main and the user.
QueueStep ==
  \/ OnConnected \/ OnDisconnected \/ OnError \/ OnRecieve \/ OnCommand
  \/ GuiStart \/ GuiConnected \/ GuiDisconnected \/ GuiMessage
  \/ RegisterGui \/ Press

\* Serving a message of Device or Gui touches neither libusb nor the agent.
LEMMA QueueFrame == QueueStep => UNCHANGED <<libVars, ownVars>>
<1> USE DEF Serve
<1>1. CASE OnConnected BY <1>1 DEF OnConnected
<1>2. CASE OnDisconnected BY <1>2 DEF OnDisconnected
<1>3. CASE OnError BY <1>3 DEF OnError
<1>4. CASE OnRecieve BY <1>4 DEF OnRecieve
<1>5. CASE OnCommand BY <1>5 DEF OnCommand
<1>6. CASE GuiStart BY <1>6 DEF GuiStart
<1>7. CASE GuiConnected BY <1>7 DEF GuiConnected
<1>8. CASE GuiDisconnected BY <1>8 DEF GuiDisconnected
<1>9. CASE GuiMessage BY <1>9 DEF GuiMessage
<1>10. CASE RegisterGui BY <1>10 DEF RegisterGui
<1>11. CASE Press BY <1>11 DEF Press
<1> QED BY <1>1, <1>2, <1>3, <1>4, <1>5, <1>6, <1>7, <1>8, <1>9, <1>10, <1>11 DEF QueueStep

-----------------------------------------------------------------------------
LinkTypeOK ==
  /\ connected \in BOOLEAN
  /\ guiCoop \in BOOLEAN
  /\ guiUp \in BOOLEAN
  /\ guiConn \in BOOLEAN
  /\ cmds \in Nat

\* What leaves libusb alone keeps its types.
LEMMA LibStutter == LibTypeOK /\ UNCHANGED libVars => LibTypeOK'
  BY DEF LibTypeOK, libVars

\* What Device and Gui post are messages.
LEMMA QueueType == TypeOK /\ QueueStep => inbox' \in Seq(Messages)
<1> SUFFICES ASSUME inbox \in Seq(Messages), QueueStep PROVE inbox' \in Seq(Messages)
  BY DEF TypeOK, AgentTypeOK
<1>0. \A m \in Messages : ToGui(m) \in Seq(Messages)
  BY Posted DEF ToGui
<1>1. /\ {"connected", "disconnected", "message", "transmit", "command", "gui_start"} \subseteq Messages
  BY DEF Messages
<1>2. CASE OnConnected
  <2>1. ToGui("connected") \o <<"transmit">> \in Seq(Messages)
    BY <1>0, <1>1, PostType, Posted
  <2> QED BY <1>2, <2>1, PostType DEF OnConnected, Serve
<1>3. CASE OnDisconnected BY <1>0, <1>1, <1>3, PostType DEF OnDisconnected, Serve
<1>4. CASE OnError BY <1>0, <1>1, <1>4, PostType DEF OnError, Serve
<1>5. CASE OnRecieve BY <1>0, <1>1, <1>5, PostType, Posted DEF OnRecieve, Serve
<1>6. CASE OnCommand BY <1>1, <1>6, PostType, Posted DEF OnCommand, Serve
<1>7. CASE GuiStart BY <1>7, PostType, Posted DEF GuiStart, Serve
<1>8. CASE GuiConnected BY <1>8, PostType, Posted DEF GuiConnected, Serve
<1>9. CASE GuiDisconnected BY <1>9, PostType, Posted DEF GuiDisconnected, Serve
<1>10. CASE GuiMessage BY <1>10, PostType, Posted DEF GuiMessage, Serve
<1>11. CASE RegisterGui BY <1>1, <1>11, PostType, Posted DEF RegisterGui, Post
<1>12. CASE Press BY <1>1, <1>12, PostType, Posted DEF Press, Post
<1> QED BY <1>2, <1>3, <1>4, <1>5, <1>6, <1>7, <1>8, <1>9, <1>10, <1>11, <1>12 DEF QueueStep

\* The handlers of Device and Gui keep every type.
LEMMA QueueTyping == TypeOK /\ QueueStep => TypeOK'
<1> SUFFICES ASSUME TypeOK, QueueStep PROVE TypeOK'
  OBVIOUS
<1>1. UNCHANGED <<libVars, ownVars>>
  BY QueueFrame
<1>2. LibTypeOK'
  BY <1>1, LibStutter DEF TypeOK
<1>3. AgentTypeOK'
  <2>1. inbox' \in Seq(Messages)
    BY QueueType
  <2> QED BY <1>1, <2>1 DEF TypeOK, AgentTypeOK, ownVars
<1>4. LinkTypeOK'
  BY Bools DEF TypeOK, LinkTypeOK, QueueStep, OnConnected, OnDisconnected, OnError, OnRecieve, OnCommand,
     GuiStart, GuiConnected, GuiDisconnected, GuiMessage, RegisterGui, Press, linkVars
<1> QED BY <1>2, <1>3, <1>4 DEF TypeOK, LinkTypeOK

\* Opening a device yields a handle of a device that was attached.
LEMMA OpenType ==
  ASSUME LibTypeOK, handle \in Handles \union {NoHandle}, refused \in BOOLEAN,
         NEW D \in SUBSET attached, OpenDevice(D), UNCHANGED lastDev
  PROVE  /\ hdev' \in [Handles -> 0 .. lastDev']
         /\ handle' \in Handles \union {NoHandle}
         /\ refused' \in BOOLEAN
<1>1. CASE \E d \in D, h \in Handles : OpenOk(d, h) /\ handle' = h /\ refused' = FALSE
  <2>1. PICK d \in D, h \in Handles : OpenOk(d, h) /\ handle' = h /\ refused' = FALSE
    BY <1>1
  <2>2. d \in 0 .. lastDev
    BY DEF LibTypeOK
  <2>3. hdev' = [hdev EXCEPT ![h] = d]
    BY <2>1 DEF OpenOk
  <2> QED BY <2>1, <2>2, <2>3, Bools DEF LibTypeOK
<1>2. CASE UNCHANGED <<hdev, handle, refused>>
  BY <1>2 DEF LibTypeOK
<1> QED BY <1>1, <1>2 DEF OpenDevice

\* Submitting a receive keeps the types.
LEMMA RecieveType ==
  ASSUME LibTypeOK, AgentTypeOK, RecieveOk \/ RecieveFail
  PROVE  rx' \in [Handles -> Nat] /\ refused' \in BOOLEAN
<1>1. CASE RecieveOk
  <2>1. handle \in Handles
    BY <1>1 DEF RecieveOk, IsLive, IsOpen, AgentTypeOK
  <2> QED BY <1>1, <2>1 DEF RecieveOk, LibTypeOK, AgentTypeOK
<1>2. CASE RecieveFail
  <2>1. rx' \in [Handles -> Nat]
    BY <1>2 DEF RecieveFail, LibTypeOK
  <2>2. refused' \in BOOLEAN
    BY <1>2 DEF RecieveFail, AgentTypeOK
  <2> QED BY <2>1, <2>2
<1> QED BY <1>1, <1>2

\* The agent's handlers on the worker keep the types.
LEMMA WorkerTyping == TypeOK /\ AgentWorker => LibTypeOK' /\ AgentTypeOK'
<1> SUFFICES ASSUME TypeOK, AgentWorker PROVE LibTypeOK' /\ AgentTypeOK'
  OBVIOUS
<1>0. LibTypeOK /\ AgentTypeOK
  BY DEF TypeOK
<1>a. {"error", "hotplug"} \subseteq Messages
  BY DEF Messages
<1>b. inbox \in Seq(Messages) /\ (inbox # <<>> => Tail(inbox) \in Seq(Messages))
  BY <1>0, PostType DEF AgentTypeOK
<1>1. CASE StartInit
  <2>1. inbox' \in Seq(Messages)
    BY <1>1, <1>a, <1>b, PostType, Posted DEF StartInit
  <2> QED BY <1>0, <1>1, <2>1, Bools DEF StartInit, LibTypeOK, AgentTypeOK
<1>2. CASE StartOpen
  <2>1. /\ hdev' \in [Handles -> 0 .. lastDev']
        /\ handle' \in Handles \union {NoHandle}
        /\ refused' \in BOOLEAN
    BY <1>0, <1>2, OpenType DEF StartOpen, AgentTypeOK
  <2> QED BY <1>0, <1>2, <2>1 DEF StartOpen, LibTypeOK, AgentTypeOK
<1>3. CASE StartRecieve
  <2>1. rx' \in [Handles -> Nat] /\ refused' \in BOOLEAN
    BY <1>0, <1>3, RecieveType DEF StartRecieve
  <2>2. inbox' \in Seq(Messages)
    BY <1>3, <1>a, <1>b, PostType, Posted DEF StartRecieve, Post
  <2> QED BY <1>0, <1>3, <2>1, <2>2 DEF StartRecieve, LibTypeOK, AgentTypeOK
<1>4. CASE TransmitCheck
  <2>1. inbox' \in Seq(Messages)
    BY <1>4, <1>a, <1>b DEF TransmitCheck
  <2> QED BY <1>0, <1>4, <2>1, LibStutter DEF TransmitCheck, AgentTypeOK
<1>5. CASE TransmitRead
  BY <1>0, <1>5, LibStutter DEF TransmitRead, AgentTypeOK
<1>6. CASE TransmitSubmit
  <2>1. inbox' \in Seq(Messages)
    BY <1>6, <1>a, <1>b, PostType, Posted DEF TransmitSubmit, Post
  <2>2. tx' \in [Handles -> Nat]
    <3>1. CASE tx' = tx
      BY <1>0, <3>1 DEF LibTypeOK
    <3>2. CASE IsLive(txHandle) /\ tx' = [tx EXCEPT ![txHandle] = @ + 1]
      <4>1. txHandle \in Handles
        BY <1>0, <3>2 DEF IsLive, IsOpen, AgentTypeOK
      <4> QED BY <1>0, <3>2, <4>1 DEF LibTypeOK
    <3> QED BY <1>6, <3>1, <3>2 DEF TransmitSubmit
  <2> QED BY <1>0, <1>6, <2>1, <2>2 DEF TransmitSubmit, LibTypeOK, AgentTypeOK
<1> QED BY <1>1, <1>2, <1>3, <1>4, <1>5, <1>6 DEF AgentWorker

\* What is taken from the notices is a notice.
LEMMA NoticeType ==
  ASSUME LibTypeOK, notices # <<>>
  PROVE  Tail(notices) \in Seq(Notice) /\ Head(notices) \in Notice
  BY DEF LibTypeOK

\* Closing a handle keeps the types of the handles.
LEMMA CloseType ==
  ASSUME LibTypeOK, NEW h, Close(h), UNCHANGED lastDev
  PROVE  /\ hdev' \in [Handles -> 0 .. lastDev']
         /\ rx' \in [Handles -> Nat]
         /\ tx' \in [Handles -> Nat]
<1>1. hdev' \in [Handles -> 0 .. lastDev']
  <2>1. NoDev \in 0 .. lastDev
    BY DEF LibTypeOK, NoDev
  <2> QED BY <2>1 DEF LibTypeOK, Close
<1>2. rx' \in [Handles -> Nat]
  BY DEF LibTypeOK, Close
<1>3. tx' \in [Handles -> Nat]
  BY DEF LibTypeOK, Close
<1> QED BY <1>1, <1>2, <1>3

\* So does every step of the usb thread.
LEMMA UsbThreadTyping == TypeOK /\ UsbThread => LibTypeOK' /\ AgentTypeOK'
<1> SUFFICES ASSUME TypeOK, UsbThread PROVE LibTypeOK' /\ AgentTypeOK'
  OBVIOUS
<1>0. LibTypeOK /\ AgentTypeOK
  BY DEF TypeOK
<1>a. {"hotplug", "hotunplug", "recv_ok", "recv_fail"} \subseteq Messages
  BY DEF Messages
<1>b. \A m \in Messages : Post(<<m>>) => inbox' \in Seq(Messages)
  BY <1>0, PostType, Posted DEF AgentTypeOK, Post
<1>1. CASE ArrivedCallback
  <2>1. /\ hdev' \in [Handles -> 0 .. lastDev']
        /\ handle' \in Handles \union {NoHandle}
        /\ refused' \in BOOLEAN
    BY <1>0, <1>1, OpenType DEF ArrivedCallback, AgentTypeOK
  <2>2. notices' \in Seq(Notice)
    BY <1>0, <1>1, NoticeType DEF ArrivedCallback
  <2> QED BY <1>0, <1>1, <2>1, <2>2 DEF ArrivedCallback, LibTypeOK, AgentTypeOK
<1>2. CASE LeftCallback
  <2>1. notices' \in Seq(Notice)
    BY <1>0, <1>2, NoticeType DEF LeftCallback
  <2>2. hdev' \in [Handles -> 0 .. lastDev'] /\ rx' \in [Handles -> Nat] /\ tx' \in [Handles -> Nat]
    <3>1. CASE Close(handle)
      BY <1>0, <1>2, <3>1, CloseType DEF LeftCallback
    <3>2. CASE UNCHANGED <<hdev, rx, tx>>
      BY <1>0, <1>2, <3>2 DEF LeftCallback, LibTypeOK
    <3> QED BY <1>2, <3>1, <3>2 DEF LeftCallback
  <2> QED BY <1>0, <1>2, <2>1, <2>2 DEF LeftCallback, LibTypeOK, AgentTypeOK
<1>3. CASE SendHotplug
  <2>1. inbox' \in Seq(Messages)
    BY <1>3, <1>a, <1>b DEF SendHotplug
  <2> QED BY <1>0, <1>3, <2>1, LibStutter DEF SendHotplug, AgentTypeOK
<1>4. CASE ResumeRecieve
  <2>1. rx' \in [Handles -> Nat] /\ refused' \in BOOLEAN
    BY <1>0, <1>4, RecieveType DEF ResumeRecieve
  <2> QED BY <1>0, <1>4, <2>1 DEF ResumeRecieve, LibTypeOK, AgentTypeOK
<1>5. CASE ClearHandle
  BY <1>0, <1>5, LibStutter DEF ClearHandle, AgentTypeOK
<1>6. CASE SendHotunplug
  <2>1. inbox' \in Seq(Messages)
    BY <1>6, <1>a, <1>b DEF SendHotunplug
  <2> QED BY <1>0, <1>6, <2>1, LibStutter DEF SendHotunplug, AgentTypeOK
<1>7. CASE SecondPasses
  BY <1>0, <1>7, LibStutter, Bools DEF SecondPasses, AgentTypeOK
<1>8. CASE Poll
  <2>1. /\ hdev' \in [Handles -> 0 .. lastDev']
        /\ handle' \in Handles \union {NoHandle}
        /\ refused' \in BOOLEAN
    <3>1. CASE OpenDevice(attached)
      BY <1>0, <1>8, <3>1, OpenType DEF Poll, AgentTypeOK
    <3>2. CASE UNCHANGED <<hdev, handle, refused>>
      BY <1>0, <1>8, <3>2 DEF Poll, LibTypeOK, AgentTypeOK
    <3> QED BY <1>8, <3>1, <3>2 DEF Poll
  <2> QED BY <1>0, <1>8, <2>1 DEF Poll, LibTypeOK, AgentTypeOK
<1>9. CASE PollCompare
  BY <1>0, <1>9, LibStutter DEF PollCompare, AgentTypeOK, HasDevice
<1>10. CASE NullOpen
  BY <1>0, <1>10, LibStutter DEF NullOpen, AgentTypeOK
<1>11. CASE \E h \in Handles : RxCallback(h)
  <2>1. PICK h \in Handles : RxCallback(h)
    BY <1>11
  <2>2. rx' \in [Handles -> Nat]
    BY <1>0, <2>1 DEF RxCallback, LibTypeOK
  <2>3. inbox' \in Seq(Messages)
    BY <1>a, <1>b, <2>1 DEF RxCallback
  <2> QED BY <1>0, <2>1, <2>2, <2>3 DEF RxCallback, LibTypeOK, AgentTypeOK
<1>12. CASE \E h \in Handles : TxCallback(h)
  <2>1. PICK h \in Handles : TxCallback(h)
    BY <1>12
  <2>2. tx' \in [Handles -> Nat]
    BY <1>0, <2>1 DEF TxCallback, LibTypeOK
  <2> QED BY <1>0, <2>1, <2>2 DEF TxCallback, LibTypeOK, AgentTypeOK, agentVars, ownVars
<1> QED BY <1>1, <1>2, <1>3, <1>4, <1>5, <1>6, <1>7, <1>8, <1>9, <1>10, <1>11, <1>12
        DEF UsbThread, NoticeCallback, UsbThreadStep, Completion

\* So does the bus.
LEMMA BusTyping == TypeOK /\ Bus => LibTypeOK'
<1> SUFFICES ASSUME TypeOK, Bus PROVE LibTypeOK'
  OBVIOUS
<1>0. LibTypeOK
  BY DEF TypeOK
<1>1. ASSUME NEW ev \in {"arrived", "left"}, NEW d \in Nat, Notify(ev, d)
      PROVE  notices' \in Seq(Notice)
  <2>1. [ev |-> ev, dev |-> d] \in Notice
    BY DEF Notice
  <2> QED BY <1>0, <1>1, <2>1 DEF Notify, LibTypeOK
<1>2. CASE Attach
  <2>1. lastDev' \in Nat /\ attached' \subseteq 1 .. lastDev'
    BY <1>0, <1>2 DEF Attach, LibTypeOK
  <2>2. notices' \in Seq(Notice)
    BY <1>0, <1>1, <1>2 DEF Attach, LibTypeOK
  <2>3. hdev' \in [Handles -> 0 .. lastDev']
    BY <1>0, <1>2 DEF Attach, LibTypeOK
  <2> QED BY <1>0, <1>2, <2>1, <2>2, <2>3 DEF Attach, LibTypeOK
<1>3. CASE \E d \in attached : Detach(d)
  <2>1. PICK d \in attached : Detach(d)
    BY <1>3
  <2>2. notices' \in Seq(Notice)
    BY <1>0, <1>1, <2>1 DEF Detach, LibTypeOK
  <2> QED BY <1>0, <2>1, <2>2 DEF Detach, LibTypeOK
<1> QED BY <1>2, <1>3 DEF Bus

\* Every variable keeps its type.
THEOREM Typing == Spec => []TypeOK
<1>1. Init => TypeOK
  BY Bools DEF Init, LibInit, AgentInit, TypeOK, LibTypeOK, AgentTypeOK, NoDev, Messages
<1>2. TypeOK /\ [Next]_vars => TypeOK'
  <2> SUFFICES ASSUME TypeOK, [Next]_vars PROVE TypeOK'
    OBVIOUS
  <2>0. UNCHANGED linkVars => LinkTypeOK'
    BY DEF TypeOK, LinkTypeOK, linkVars
  <2>1. CASE QueueStep
    BY <2>1, QueueTyping
  <2>2. CASE AgentWorker /\ UNCHANGED linkVars
    BY <2>0, <2>2, WorkerTyping DEF TypeOK, LinkTypeOK
  <2>3. CASE UsbThread /\ UNCHANGED linkVars
    BY <2>0, <2>3, UsbThreadTyping DEF TypeOK, LinkTypeOK
  <2>4. CASE Bus
    <3>1. AgentTypeOK'
      BY <2>4 DEF TypeOK, AgentTypeOK, Bus, agentVars, ownVars
    <3> QED BY <2>0, <2>4, <3>1, BusTyping DEF TypeOK, LinkTypeOK, Bus
  <2>5. CASE UNCHANGED vars
    BY <2>5 DEF vars, libVars, agentVars, ownVars, linkVars, TypeOK, LibTypeOK, AgentTypeOK
  <2> QED BY <2>1, <2>2, <2>3, <2>4, <2>5 DEF Next, Worker, QueueStep
<1> QED BY <1>1, <1>2, PTL DEF Spec

-----------------------------------------------------------------------------
\* The kinds of step, for the proofs below.
LEMMA Steps ==
  [Next]_vars =>
    \/ QueueStep
    \/ AgentWorker /\ UNCHANGED linkVars
    \/ UsbThread /\ UNCHANGED linkVars
    \/ Bus
    \/ UNCHANGED vars
  BY DEF Next, Worker, QueueStep

\* What UsbBulkAgent posts, and what it takes from the queue.
AgentPosts == {"hotplug", "hotunplug", "error", "recv_ok", "recv_fail"}

\* A handler of the agent leaves the queue, or takes one message and posts its own.
LEMMA AgentQueue ==
  ASSUME TypeOK, AgentWorker \/ UsbThread
  PROVE  \/ inbox' = inbox
         \/ \E ms \in Seq(AgentPosts) : inbox' = inbox \o ms
         \/ /\ inbox # <<>> /\ Head(inbox) \in {"usb_start", "transmit"}
            /\ \E ms \in Seq(AgentPosts) : inbox' = Tail(inbox) \o ms
<1>0. inbox \in Seq(Messages)
  BY DEF TypeOK, AgentTypeOK
<1>a. /\ <<>> \in Seq(AgentPosts)
      /\ <<"error">> \in Seq(AgentPosts) /\ <<"error", "error">> \in Seq(AgentPosts)
      /\ <<"error">> \o <<"hotplug">> \in Seq(AgentPosts) /\ <<"error">> \o <<>> \in Seq(AgentPosts)
      /\ <<"hotplug">> \in Seq(AgentPosts) /\ <<"hotunplug">> \in Seq(AgentPosts)
      /\ <<"recv_ok">> \in Seq(AgentPosts) /\ <<"recv_fail">> \in Seq(AgentPosts)
  BY DEF AgentPosts
<1>b. inbox # <<>> => Tail(inbox) = Tail(inbox) \o <<>>
  BY <1>0, PostType
<1>c. inbox # <<>> => Append(Tail(inbox), "error") = Tail(inbox) \o <<"error">>
  BY <1>0, PostType
<1>1. CASE StartInit
  BY <1>1, <1>a, <1>b DEF StartInit
<1>2. CASE TransmitCheck
  BY <1>2, <1>a, <1>b, <1>c DEF TransmitCheck
<1>3. CASE TransmitSubmit
  BY <1>3, <1>a DEF TransmitSubmit, Post
<1>4. CASE StartRecieve
  BY <1>4, <1>a DEF StartRecieve, Post
<1>5. CASE StartOpen \/ TransmitRead
  BY <1>5 DEF StartOpen, TransmitRead
<1>6. CASE SendHotplug \/ SendHotunplug
  BY <1>6, <1>a DEF SendHotplug, SendHotunplug, Post
<1>7. CASE ArrivedCallback \/ LeftCallback
  BY <1>7 DEF ArrivedCallback, LeftCallback
<1>8. CASE ResumeRecieve \/ ClearHandle \/ SecondPasses \/ Poll \/ PollCompare \/ NullOpen
  BY <1>8 DEF ResumeRecieve, ClearHandle, SecondPasses, Poll, PollCompare, NullOpen
<1>9. CASE Completion
  <2>1. PICK h \in Handles : RxCallback(h) \/ TxCallback(h)
    BY <1>9 DEF Completion
  <2>2. CASE RxCallback(h)
    BY <1>a, <2>2 DEF RxCallback, Post
  <2>3. CASE TxCallback(h)
    BY <2>3 DEF TxCallback, agentVars
  <2> QED BY <2>1, <2>2, <2>3
<1> QED BY <1>1, <1>2, <1>3, <1>4, <1>5, <1>6, <1>7, <1>8, <1>9
        DEF AgentWorker, UsbThread, NoticeCallback, UsbThreadStep

-----------------------------------------------------------------------------
\* The screen.  Serving or posting what is not addressed to ConnStatus leaves
\* what it settles on alone.
LEMMA GuiQuiet ==
  ASSUME inbox \in Seq(Messages), guiConn \in BOOLEAN, guiConn' = guiConn,
         NEW ms \in Seq(Messages),
         Without(ms, "connected"), Without(ms, "disconnected"),
         \/ inbox' = inbox \o ms
         \/ /\ inbox # <<>> /\ Head(inbox) \notin {"connected", "disconnected"}
            /\ inbox' = Tail(inbox) \o ms
  PROVE  GuiTold' <=> GuiTold
<1>1. CASE inbox' = inbox \o ms
  BY <1>1, SettlesQuiet DEF GuiTold
<1>2. CASE /\ inbox # <<>> /\ Head(inbox) \notin {"connected", "disconnected"}
           /\ inbox' = Tail(inbox) \o ms
  <2>1. Tail(inbox) \in Seq(Messages)
    BY <1>2, PostType
  <2>2. Settles(inbox', "connected", "disconnected", guiConn)
          <=> Settles(Tail(inbox), "connected", "disconnected", guiConn)
    BY <1>2, <2>1, SettlesQuiet
  <2>3. Settles(Tail(inbox), "connected", "disconnected", guiConn)
          <=> Settles(inbox, "connected", "disconnected", guiConn)
    BY <1>2, SettlesTail
  <2> QED BY <2>2, <2>3 DEF GuiTold
<1> QED BY <1>1, <1>2

\* How a step moves the pair of Device's state and what the screen settles on.
GuiSame == (GuiTold' <=> GuiTold) /\ connected' = connected /\ (guiUp => guiUp')
GuiMoved(b) ==
  /\ connected' = b
  /\ guiUp' = guiUp
  /\ IF guiUp THEN GuiTold' <=> b ELSE GuiTold' <=> GuiTold

\* What the handlers of Device and Gui do to what Gui has been told.
LEMMA GuiEffect ==
  ASSUME TypeOK, [Next]_vars
  PROVE  GuiSame \/ GuiMoved(TRUE) \/ GuiMoved(FALSE)
<1>0. inbox \in Seq(Messages) /\ guiConn \in BOOLEAN /\ guiUp \in BOOLEAN
  BY DEF TypeOK, AgentTypeOK
<1>m. {"connected", "disconnected", "message", "transmit", "command", "gui_start"} \subseteq Messages
  BY DEF Messages
<1>t. inbox # <<>> => Tail(inbox) \in Seq(Messages)
  BY <1>0, PostType
<1>q. ASSUME NEW m \in Messages \ {"connected", "disconnected"}
      PROVE  /\ <<m>> \in Seq(Messages) /\ Without(<<m>>, "connected") /\ Without(<<m>>, "disconnected")
             /\ <<>> \in Seq(Messages) /\ Without(<<>>, "connected") /\ Without(<<>>, "disconnected")
             /\ ToGui(m) \in Seq(Messages) /\ Without(ToGui(m), "connected") /\ Without(ToGui(m), "disconnected")
  BY DEF Without, ToGui
<1>e. <<>> \in Seq(Messages) /\ Without(<<>>, "connected") /\ Without(<<>>, "disconnected")
  BY DEF Without
<1>1. CASE OnConnected
  <2>1. CASE guiUp
    <3> DEFINE ms == <<"connected">> \o <<"transmit">>
    <3>1. ms \in Seq(Messages) /\ ~Without(ms, "connected") /\ Without(ms, "disconnected")
      BY <1>m DEF Without
    <3>2. inbox' = Tail(inbox) \o ms /\ inbox # <<>> /\ connected' = TRUE /\ guiUp' = guiUp
      BY <1>1, <2>1 DEF OnConnected, Serve, ToGui
    <3> HIDE DEF ms
    <3>3. GuiTold'
      BY <1>t, <3>1, <3>2, SettlesUp DEF GuiTold
    <3> QED BY <2>1, <3>2, <3>3 DEF GuiMoved
  <2>2. CASE ~guiUp
    <3> DEFINE ms == <<>> \o <<"transmit">>
    <3>1. ms \in Seq(Messages) /\ Without(ms, "connected") /\ Without(ms, "disconnected")
      BY <1>m DEF Without
    <3>2. /\ inbox' = Tail(inbox) \o ms /\ inbox # <<>> /\ Head(inbox) = "hotplug"
          /\ connected' = TRUE /\ guiUp' = guiUp /\ guiConn' = guiConn
      BY <1>1, <2>2 DEF OnConnected, Serve, ToGui
    <3> HIDE DEF ms
    <3>3. GuiTold' <=> GuiTold
      BY <1>0, <3>1, <3>2, GuiQuiet
    <3> QED BY <2>2, <3>2, <3>3 DEF GuiMoved
  <2> QED BY <2>1, <2>2
<1>2. CASE OnDisconnected
  <2>1. CASE guiUp
    <3>1. <<"disconnected">> \in Seq(Messages) /\ Without(<<"disconnected">>, "connected") /\ ~Without(<<"disconnected">>, "disconnected")
      BY <1>m DEF Without
    <3>2. inbox' = Tail(inbox) \o <<"disconnected">> /\ inbox # <<>> /\ connected' = FALSE /\ guiUp' = guiUp
      BY <1>2, <2>1 DEF OnDisconnected, Serve, ToGui
    <3>3. ~GuiTold'
      BY <1>t, <3>1, <3>2, SettlesDown DEF GuiTold
    <3> QED BY <2>1, <3>2, <3>3 DEF GuiMoved
  <2>2. CASE ~guiUp
    <3>2. /\ inbox' = Tail(inbox) \o <<>> /\ inbox # <<>> /\ Head(inbox) = "hotunplug"
          /\ connected' = FALSE /\ guiUp' = guiUp /\ guiConn' = guiConn
      BY <1>2, <2>2 DEF OnDisconnected, Serve, ToGui
    <3>3. GuiTold' <=> GuiTold
      BY <1>0, <1>e, <3>2, GuiQuiet
    <3> QED BY <2>2, <3>2, <3>3 DEF GuiMoved
  <2> QED BY <2>1, <2>2
<1>3. CASE OnError \/ OnRecieve \/ OnCommand \/ GuiMessage \/ GuiStart
  <2>1. PICK ms \in {ToGui("message"), <<>>, <<"transmit">>} :
          /\ inbox' = Tail(inbox) \o ms /\ inbox # <<>>
          /\ Head(inbox) \notin {"connected", "disconnected"}
    <3>1. CASE OnError
      BY <3>1 DEF OnError, Serve
    <3>2. CASE OnRecieve
      BY <3>2 DEF OnRecieve, Serve
    <3>3. CASE OnCommand
      BY <3>3 DEF OnCommand, Serve
    <3>4. CASE GuiMessage \/ GuiStart
      BY <3>4 DEF GuiMessage, GuiStart, Serve
    <3> QED BY <1>3, <3>1, <3>2, <3>3, <3>4
  <2>2. ms \in Seq(Messages) /\ Without(ms, "connected") /\ Without(ms, "disconnected")
    <3>1. {"message", "transmit"} \subseteq Messages \ {"connected", "disconnected"}
      BY <1>m
    <3>2. CASE ms = ToGui("message")
      BY <1>q, <3>1, <3>2
    <3>3. CASE ms = <<"transmit">>
      BY <1>q, <3>1, <3>3
    <3> QED BY <1>e, <2>1, <3>2, <3>3
  <2>3. guiConn' = guiConn /\ connected' = connected /\ (guiUp => guiUp')
    BY <1>3 DEF OnError, OnRecieve, OnCommand, GuiMessage, GuiStart, linkVars
  <2>4. GuiTold' <=> GuiTold
    BY <1>0, <2>1, <2>2, <2>3, GuiQuiet
  <2> QED BY <2>3, <2>4 DEF GuiSame
<1>4. CASE GuiConnected \/ GuiDisconnected
  <2>1. /\ inbox' = Tail(inbox) \o <<>> /\ inbox # <<>>
        /\ Head(inbox) \in {"connected", "disconnected"}
        /\ guiConn' \in BOOLEAN
        /\ guiConn' <=> Head(inbox) = "connected"
        /\ connected' = connected /\ guiUp' = guiUp
    BY <1>4, Bools DEF GuiConnected, GuiDisconnected, Serve
  <2>2. inbox' = Tail(inbox)
    BY <1>t, <2>1
  <2>3. GuiTold' <=> GuiTold
    BY <1>0, <2>1, <2>2, SettlesTail DEF GuiTold
  <2> QED BY <2>1, <2>3 DEF GuiSame
<1>5. CASE RegisterGui \/ Press
  <2>1. PICK m \in {"gui_start", "command"} : inbox' = inbox \o <<m>>
    BY <1>5 DEF RegisterGui, Press, Post
  <2>2. guiConn' = guiConn /\ connected' = connected /\ guiUp' = guiUp
    BY <1>5 DEF RegisterGui, Press
  <2>3. GuiTold' <=> GuiTold
    BY <1>0, <1>m, <1>q, <2>1, <2>2, GuiQuiet
  <2> QED BY <2>2, <2>3 DEF GuiSame
<1>6. CASE (AgentWorker \/ UsbThread) /\ UNCHANGED linkVars
  <2>1. \A ms \in Seq(AgentPosts) : ms \in Seq(Messages) /\ Without(ms, "connected") /\ Without(ms, "disconnected")
    BY DEF AgentPosts, Messages, Without
  <2>2. guiConn' = guiConn /\ connected' = connected /\ guiUp' = guiUp
    BY <1>6 DEF linkVars
  <2>3. GuiTold' <=> GuiTold
    <3>1. CASE inbox' = inbox
      BY <2>2, <3>1 DEF GuiTold
    <3>2. CASE inbox' # inbox
      BY <1>0, <1>6, <2>1, <2>2, <3>2, AgentQueue, GuiQuiet
    <3> QED BY <3>1, <3>2
  <2> QED BY <2>2, <2>3 DEF GuiSame
<1>7. CASE Bus \/ UNCHANGED vars
  BY <1>7 DEF Bus, agentVars, linkVars, vars, GuiTold, GuiSame
<1> QED BY <1>1, <1>2, <1>3, <1>4, <1>5, <1>6, <1>7, Steps DEF QueueStep

GuiInv == (GuiTold => connected) /\ (~guiUp => ~GuiTold)

\* The screen never settles on "connected" while Device says otherwise: before
\* the GUI subscribes it settles on nothing, and from then on every change of
\* Device is posted to it behind all others.
THEOREM NoPhantom == Spec => []NoPhantomConnection
<1>1. Init => GuiInv
  <2> SUFFICES ASSUME Init PROVE ~GuiTold
    BY DEF GuiInv
  <2>1. inbox = <<"usb_start">> /\ guiConn = FALSE
    BY DEF Init, AgentInit
  <2>2. ~Settles(<<"usb_start">>, "connected", "disconnected", FALSE)
    BY DEF Settles
  <2> QED BY <2>1, <2>2 DEF GuiTold
<1>2. TypeOK /\ GuiInv /\ [Next]_vars => GuiInv'
  <2> SUFFICES ASSUME TypeOK, GuiInv, [Next]_vars PROVE GuiInv'
    OBVIOUS
  <2>1. CASE GuiSame
    BY <2>1 DEF GuiInv, GuiSame
  <2>2. CASE GuiMoved(TRUE)
    BY <2>2 DEF GuiInv, GuiMoved
  <2>3. CASE GuiMoved(FALSE)
    BY <2>3 DEF GuiInv, GuiMoved
  <2> QED BY <2>1, <2>2, <2>3, GuiEffect
<1>3. GuiInv => NoPhantomConnection
  BY DEF GuiInv, NoPhantomConnection
<1> QED BY <1>1, <1>2, <1>3, Typing, PTL DEF Spec

\* Once the GUI has subscribed and agrees with Device, no step drives the two
\* apart.
THEOREM InSync == Spec => StaysInSync
<1>1. TypeOK /\ [Next]_vars => [guiUp /\ GuiTold = connected => GuiTold' = connected']_vars
  <2> SUFFICES ASSUME TypeOK, [Next]_vars, guiUp, GuiTold = connected PROVE GuiTold' = connected'
    OBVIOUS
  <2>1. GuiTold \in BOOLEAN /\ GuiTold' \in BOOLEAN
    BY DEF GuiTold, Settles
  <2>2. CASE GuiSame
    <3>1. GuiTold' = GuiTold
      BY <2>1, <2>2 DEF GuiSame
    <3> QED BY <2>2, <3>1 DEF GuiSame
  <2>3. ASSUME NEW b \in BOOLEAN, GuiMoved(b) PROVE GuiTold' = connected'
    <3>1. GuiTold' = b
      BY <2>1, <2>3 DEF GuiMoved
    <3> QED BY <2>3, <3>1 DEF GuiMoved
  <2> QED BY <2>2, <2>3, GuiEffect
<1> QED BY <1>1, Typing, PTL DEF Spec, StaysInSync

-----------------------------------------------------------------------------
\* The screen implements DelayedView.  What is on its way to it, and the
\* strengthening: nothing is, before it subscribes.
GuiFeed == Feed(inbox, "connected", "disconnected")
Deaf == ~guiUp => GuiFeed = <<>>

\* Serving or posting what is no announcement leaves what is on its way.
LEMMA FeedStays ==
  ASSUME inbox \in Seq(Messages), NEW ms \in Seq(Messages), NEW up, NEW down,
         Without(ms, up), Without(ms, down),
         \/ inbox' = inbox \o ms
         \/ inbox # <<>> /\ Head(inbox) \notin {up, down} /\ inbox' = Tail(inbox) \o ms
  PROVE  Feed(inbox', up, down) = Feed(inbox, up, down)
<1>1. CASE inbox' = inbox \o ms
  BY <1>1, FeedQuiet
<1>2. CASE inbox # <<>> /\ Head(inbox) \notin {up, down} /\ inbox' = Tail(inbox) \o ms
  <2>1. Tail(inbox) \in Seq(Messages)
    BY <1>2, PostType
  <2>2. Feed(inbox', up, down) = Feed(Tail(inbox), up, down)
    BY <1>2, <2>1, FeedQuiet
  <2>3. Feed(Tail(inbox), up, down) = Feed(inbox, up, down)
    BY <1>2, FeedServed
  <2> QED BY <2>2, <2>3
<1> QED BY <1>1, <1>2

\* An announcement that is posted, with other messages behind it.
LEMMA FeedGrows ==
  ASSUME NEW q \in Seq(Messages), NEW ms \in Seq(Messages),
         NEW up \in Messages, NEW down \in Messages, Without(ms, up), Without(ms, down),
         NEW m \in {up, down}, NEW b \in BOOLEAN, b <=> m = up
  PROVE  Feed(q \o (<<m>> \o ms), up, down) = Append(Feed(q, up, down), b)
<1> DEFINE r == Append(q, m)
<1>1. r \in Seq(Messages) /\ q \o (<<m>> \o ms) = r \o ms
  OBVIOUS
<1>2. Feed(r, up, down) = Append(Feed(q, up, down), b)
  BY FeedPosted
<1>3. r \in Seq(Messages)
  BY <1>1
<1> HIDE DEF r
<1>4. Feed(r \o ms, up, down) = Feed(r, up, down)
  BY <1>3, FeedQuiet
<1> QED BY <1>1, <1>2, <1>4

\* The steps of the view: a change of Device that is announced, or not yet; the
\* start of Gui; an announcement that is shown; and those the view does not see.
GuiAnnounced(b) ==
  /\ connected' = b /\ guiConn' = guiConn /\ guiUp' = guiUp
  /\ GuiFeed' = IF guiUp THEN Append(GuiFeed, b) ELSE GuiFeed
GuiStarted ==
  /\ connected' = connected /\ guiConn' = guiConn /\ guiUp' = TRUE
  /\ GuiFeed' = GuiFeed
GuiShown ==
  /\ connected' = connected /\ guiUp' = guiUp
  /\ GuiFeed # <<>> /\ guiConn' = Head(GuiFeed) /\ GuiFeed' = Tail(GuiFeed)
GuiStutters ==
  /\ connected' = connected /\ guiConn' = guiConn /\ guiUp' = guiUp
  /\ GuiFeed' = GuiFeed

LEMMA ScreenSteps ==
  ASSUME TypeOK, [Next]_vars
  PROVE  GuiAnnounced(TRUE) \/ GuiAnnounced(FALSE) \/ GuiStarted \/ GuiShown \/ GuiStutters
<1>0. inbox \in Seq(Messages) /\ guiConn \in BOOLEAN /\ guiUp \in BOOLEAN
  BY DEF TypeOK, AgentTypeOK
<1>m. {"connected", "disconnected", "message", "transmit", "command", "gui_start"} \subseteq Messages
  BY DEF Messages
<1>q. ASSUME NEW m \in Messages \ {"connected", "disconnected"}
      PROVE  <<m>> \in Seq(Messages) /\ Without(<<m>>, "connected") /\ Without(<<m>>, "disconnected")
  BY DEF Without
<1>e. <<>> \in Seq(Messages) /\ Without(<<>>, "connected") /\ Without(<<>>, "disconnected")
  BY DEF Without
<1>t. /\ <<"transmit">> \in Seq(Messages)
      /\ Without(<<"transmit">>, "connected") /\ Without(<<"transmit">>, "disconnected")
  BY <1>m DEF Without
<1>1. CASE OnConnected
  <2>1. /\ inbox # <<>> /\ Head(inbox) = "hotplug" /\ inbox' = Tail(inbox) \o (ToGui("connected") \o <<"transmit">>)
        /\ connected' = TRUE /\ guiUp' = guiUp /\ guiConn' = guiConn
    BY <1>1 DEF OnConnected, Serve
  <2>2. CASE guiUp
    <3>1. inbox' = Tail(inbox) \o (<<"connected">> \o <<"transmit">>)
      BY <2>1, <2>2 DEF ToGui
    <3>2. GuiFeed' = Append(GuiFeed, TRUE)
      <4>1. Tail(inbox) \in Seq(Messages) /\ "connected" \in Messages /\ "disconnected" \in Messages
        BY <1>0, <1>m, <2>1, PostType
      <4>2. Feed(Tail(inbox) \o (<<"connected">> \o <<"transmit">>), "connected", "disconnected")
              = Append(Feed(Tail(inbox), "connected", "disconnected"), TRUE)
        BY <1>t, <4>1, FeedGrows
      <4>3. Feed(Tail(inbox), "connected", "disconnected") = GuiFeed
        BY <1>0, <2>1, FeedServed DEF GuiFeed
      <4> QED BY <3>1, <4>2, <4>3 DEF GuiFeed
    <3> QED BY <2>1, <2>2, <3>2, Zenon DEF GuiAnnounced
  <2>3. CASE ~guiUp
    <3>1. inbox' = Tail(inbox) \o <<"transmit">>
      <4>1. <<>> \o <<"transmit">> = <<"transmit">>
        OBVIOUS
      <4> QED BY <2>1, <2>3, <4>1 DEF ToGui
    <3>2. GuiFeed' = GuiFeed
      BY <1>0, <1>t, <2>1, <3>1, FeedStays DEF GuiFeed
    <3> QED BY <2>1, <2>3, <3>2, Zenon DEF GuiAnnounced
  <2> QED BY <2>2, <2>3
<1>2. CASE OnDisconnected
  <2>1. /\ inbox # <<>> /\ Head(inbox) = "hotunplug" /\ inbox' = Tail(inbox) \o ToGui("disconnected")
        /\ connected' = FALSE /\ guiUp' = guiUp /\ guiConn' = guiConn
    BY <1>2 DEF OnDisconnected, Serve
  <2>2. CASE guiUp
    <3>1. inbox' = Tail(inbox) \o (<<"disconnected">> \o <<>>)
      <4>1. <<"disconnected">> \o <<>> = <<"disconnected">>
        OBVIOUS
      <4> QED BY <2>1, <2>2, <4>1 DEF ToGui
    <3>2. GuiFeed' = Append(GuiFeed, FALSE)
      <4>1. Tail(inbox) \in Seq(Messages) /\ "connected" \in Messages /\ "disconnected" \in Messages
        BY <1>0, <1>m, <2>1, PostType
      <4>2. Feed(Tail(inbox) \o (<<"disconnected">> \o <<>>), "connected", "disconnected")
              = Append(Feed(Tail(inbox), "connected", "disconnected"), FALSE)
        BY <1>e, <4>1, FeedGrows
      <4>3. Feed(Tail(inbox), "connected", "disconnected") = GuiFeed
        BY <1>0, <2>1, FeedServed DEF GuiFeed
      <4> QED BY <3>1, <4>2, <4>3 DEF GuiFeed
    <3> QED BY <2>1, <2>2, <3>2, Zenon DEF GuiAnnounced
  <2>3. CASE ~guiUp
    <3>1. inbox' = Tail(inbox) \o <<>>
      BY <2>1, <2>3 DEF ToGui
    <3>2. GuiFeed' = GuiFeed
      BY <1>0, <1>e, <2>1, <3>1, FeedStays DEF GuiFeed
    <3> QED BY <2>1, <2>3, <3>2, Zenon DEF GuiAnnounced
  <2> QED BY <2>2, <2>3
<1>3. CASE OnError \/ OnRecieve \/ OnCommand \/ GuiMessage \/ GuiStart
  <2>1. PICK ms \in {<<"message">>, <<>>, <<"transmit">>} :
          /\ inbox' = Tail(inbox) \o ms /\ inbox # <<>>
          /\ Head(inbox) \notin {"connected", "disconnected"}
    <3>0. ToGui("message") \in {<<"message">>, <<>>}
      BY DEF ToGui
    <3>1. CASE OnError
      BY <3>0, <3>1 DEF OnError, Serve
    <3>2. CASE OnRecieve
      BY <3>0, <3>2 DEF OnRecieve, Serve
    <3>3. CASE OnCommand
      BY <3>3 DEF OnCommand, Serve
    <3>4. CASE GuiMessage \/ GuiStart
      BY <3>4 DEF GuiMessage, GuiStart, Serve
    <3> QED BY <1>3, <3>1, <3>2, <3>3, <3>4
  <2>2. ms \in Seq(Messages) /\ Without(ms, "connected") /\ Without(ms, "disconnected")
    <3>1. "message" \in Messages \ {"connected", "disconnected"}
      BY <1>m
    <3>2. CASE ms = <<"message">>
      BY <1>q, <3>1, <3>2
    <3> QED BY <1>e, <1>t, <2>1, <3>2
  <2>3. GuiFeed' = GuiFeed
    BY <1>0, <2>1, <2>2, FeedStays DEF GuiFeed
  <2>4. CASE GuiStart
    BY <2>3, <2>4 DEF GuiStart, GuiStarted
  <2>5. CASE OnError \/ OnRecieve \/ OnCommand \/ GuiMessage
    BY <2>3, <2>5 DEF OnError, OnRecieve, OnCommand, GuiMessage, linkVars, GuiStutters
  <2> QED BY <1>3, <2>4, <2>5
<1>4. CASE GuiConnected \/ GuiDisconnected
  <2>1. /\ inbox' = Tail(inbox) \o <<>> /\ inbox # <<>>
        /\ Head(inbox) \in {"connected", "disconnected"}
        /\ connected' = connected /\ guiUp' = guiUp
    BY <1>4 DEF GuiConnected, GuiDisconnected, Serve
  <2>2. inbox' = Tail(inbox)
    <3>1. Tail(inbox) \in Seq(Messages)
      BY <1>0, <2>1, PostType
    <3> QED BY <2>1, <3>1
  <2>3. guiConn' = (Head(inbox) = "connected")
    <3>1. CASE GuiConnected
      <4>1. guiConn' = TRUE /\ Head(inbox) = "connected"
        BY <3>1 DEF GuiConnected, Serve
      <4> QED BY <4>1, Zenon
    <3>2. CASE GuiDisconnected
      <4>1. guiConn' = FALSE /\ Head(inbox) = "disconnected"
        BY <3>2 DEF GuiDisconnected, Serve
      <4>2. (Head(inbox) = "connected") = FALSE
        BY <4>1
      <4> QED BY <4>1, <4>2, Zenon
    <3> QED BY <1>4, <3>1, <3>2
  <2>4. /\ GuiFeed # <<>> /\ Head(GuiFeed) = (Head(inbox) = "connected")
        /\ GuiFeed' = Tail(GuiFeed)
    BY <1>0, <2>1, <2>2, FeedServed DEF GuiFeed
  <2> QED BY <2>1, <2>3, <2>4, Zenon DEF GuiShown
<1>5. CASE RegisterGui \/ Press
  <2>1. PICK m \in {"gui_start", "command"} : inbox' = inbox \o <<m>>
    BY <1>5 DEF RegisterGui, Press, Post
  <2>2. guiConn' = guiConn /\ connected' = connected /\ guiUp' = guiUp
    BY <1>5 DEF RegisterGui, Press
  <2>3. m \in Messages \ {"connected", "disconnected"}
    BY <1>m
  <2>4. GuiFeed' = GuiFeed
    BY <1>0, <1>q, <2>1, <2>3, FeedStays DEF GuiFeed
  <2> QED BY <2>2, <2>4 DEF GuiStutters
<1>6. CASE (AgentWorker \/ UsbThread) /\ UNCHANGED linkVars
  <2>1. \A ms \in Seq(AgentPosts) : ms \in Seq(Messages) /\ Without(ms, "connected") /\ Without(ms, "disconnected")
    BY DEF AgentPosts, Messages, Without
  <2>2. guiConn' = guiConn /\ connected' = connected /\ guiUp' = guiUp
    BY <1>6 DEF linkVars
  <2>3. GuiFeed' = GuiFeed
    <3>1. CASE inbox' = inbox
      BY <3>1 DEF GuiFeed
    <3>2. CASE inbox' # inbox
      BY <1>0, <1>6, <2>1, <3>2, AgentQueue, FeedStays DEF GuiFeed
    <3> QED BY <3>1, <3>2
  <2> QED BY <2>2, <2>3 DEF GuiStutters
<1>7. CASE Bus \/ UNCHANGED vars
  <2>1. inbox' = inbox /\ UNCHANGED linkVars
    BY <1>7 DEF Bus, agentVars, vars
  <2> QED BY <2>1 DEF linkVars, GuiFeed, GuiStutters
<1> QED BY <1>1, <1>2, <1>3, <1>4, <1>5, <1>6, <1>7, Steps DEF QueueStep

LEMMA DeafStep == TypeOK /\ Deaf /\ [Next]_vars => Deaf'
<1> SUFFICES ASSUME TypeOK, Deaf, [Next]_vars PROVE Deaf'
  OBVIOUS
<1>1. ASSUME NEW b, GuiAnnounced(b) PROVE Deaf'
  BY <1>1 DEF Deaf, GuiAnnounced
<1>2. CASE GuiStarted
  BY <1>2 DEF Deaf, GuiStarted
<1>3. CASE GuiShown
  BY <1>3 DEF Deaf, GuiShown
<1>4. CASE GuiStutters
  BY <1>4 DEF Deaf, GuiStutters
<1> QED BY <1>1, <1>2, <1>3, <1>4, ScreenSteps

\* The screen's view of Device is a delayed copy: from the moment Gui has
\* subscribed it is given every change that Device announces, once, in order, and
\* no other; of what was announced before it learns nothing.
THEOREM ScreenFollows == Spec => GuiFollowsDevice
<1>1. Init => GuiView!Init /\ Deaf
  <2> SUFFICES ASSUME Init PROVE GuiView!Init /\ Deaf
    OBVIOUS
  <2>1. /\ inbox = <<"usb_start">> /\ connected = FALSE
        /\ guiConn = FALSE /\ guiUp = FALSE
    BY DEF Init, AgentInit
  <2>2. <<>> \in Seq(Messages) /\ <<"usb_start">> \in Seq(Messages) /\ <<>> \o <<"usb_start">> = <<"usb_start">>
    BY DEF Messages
  <2>3. Without(<<"usb_start">>, "connected") /\ Without(<<"usb_start">>, "disconnected")
    BY DEF Without
  <2>4. Feed(<<>>, "connected", "disconnected") = <<>>
    <3>1. Places(<<>>, "connected", "disconnected") = {}
      BY DEF Places
    <3>2. Len(Feed(<<>>, "connected", "disconnected")) = 0
      BY <2>2, <3>1, FeedType, FS_EmptySet
    <3> QED BY <2>2, <3>2, FeedType
  <2>5. Feed(<<>> \o <<"usb_start">>, "connected", "disconnected") = Feed(<<>>, "connected", "disconnected")
    <3> DEFINE t == <<"usb_start">>
    <3>1. t \in Seq(Messages) /\ Without(t, "connected") /\ Without(t, "disconnected")
      BY <2>2, <2>3
    <3> HIDE DEF t
    <3>2. \A s \in Seq(Messages) : Feed(s \o t, "connected", "disconnected") = Feed(s, "connected", "disconnected")
      BY <3>1, FeedQuiet
    <3>3. Feed(<<>> \o t, "connected", "disconnected") = Feed(<<>>, "connected", "disconnected")
      BY <2>2, <3>2
    <3> QED BY <3>3 DEF t
  <2>6. GuiFeed = <<>>
    BY <2>1, <2>2, <2>4, <2>5 DEF GuiFeed
  <2> QED BY <2>1, <2>6 DEF GuiView!Init, Deaf, GuiFeed
<1>2. TypeOK /\ Deaf /\ [Next]_vars => [GuiView!Next]_(GuiView!vars)
  <2> SUFFICES ASSUME TypeOK, Deaf, [Next]_vars PROVE GuiView!Next \/ UNCHANGED GuiView!vars
    OBVIOUS
  <2>1. ASSUME NEW b \in BOOLEAN, GuiAnnounced(b) PROVE GuiView!Next
    <3>1. GuiView!Announce(b)
      BY <2>1 DEF GuiAnnounced, GuiView!Announce, GuiFeed
    <3> QED BY <3>1 DEF GuiView!Next
  <2>2. CASE GuiShown
    BY <2>2 DEF GuiShown, GuiFeed, GuiView!Next, GuiView!Deliver
  <2>3. CASE GuiStutters
    BY <2>3 DEF GuiStutters, GuiFeed, GuiView!vars
  <2>4. CASE GuiStarted /\ ~guiUp
    <3>1. GuiFeed' = <<>>
      BY <2>4 DEF GuiStarted, Deaf
    <3>2. <<>> \in Seq(BOOLEAN)
      OBVIOUS
    <3>3. GuiView!Listen
      BY <2>4, <3>1, <3>2, Zenon DEF GuiStarted, GuiFeed, GuiView!Listen
    <3> QED BY <3>3 DEF GuiView!Next
  <2>5. CASE GuiStarted /\ guiUp
    <3>1. guiUp' = guiUp
      <4>1. guiUp \in BOOLEAN
        BY DEF TypeOK
      <4>2. guiUp = TRUE
        BY <2>5, <4>1, Zenon
      <4> QED BY <2>5, <4>2, Zenon DEF GuiStarted
    <3> QED BY <2>5, <3>1 DEF GuiStarted, GuiFeed, GuiView!vars
  <2> QED BY <2>1, <2>2, <2>3, <2>4, <2>5, ScreenSteps
<1> QED BY <1>1, <1>2, Typing, DeafStep, PTL DEF Spec, GuiFollowsDevice, GuiView!Spec
=============================================================================
