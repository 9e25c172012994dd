--------------------------- MODULE NotifyRefinement ---------------------------
(***************************************************************************)
(* notify.rs implements the abstract specification Notification, for every *)
(* number of tasks and callers.                                            *)
(***************************************************************************)
EXTENDS NotifyProofs, WellFoundedInduction

-----------------------------------------------------------------------------
(* The list as a sequence *)

\* q are the nodes of the list, from its tail to its head.
Chain(l, q) ==
    /\ q \in Seq(Nodes)
    /\ l.tail = IF Len(q) = 0 THEN None ELSE q[1]
    /\ l.head = IF Len(q) = 0 THEN None ELSE q[Len(q)]
    /\ \A i \in 1..Len(q) : l.prev[q[i]] = IF i = Len(q) THEN None ELSE q[i + 1]
    /\ \A i, j \in 1..Len(q) : q[i] = q[j] => i = j
    /\ \A n \in Nodes : Listed(l, n) <=> \E i \in 1..Len(q) : q[i] = n

\* A nonempty set of numbers has a least one.
LEMMA Least ==
    ASSUME NEW T, T \subseteq Nat, T # {}
    PROVE  \E x \in T : \A y \in T : x <= y
<1> DEFINE R == OpToRel(<, Nat)
<1>1. IsWellFoundedOn(R, Nat)
  BY NatLessThanWellFounded, Zenon
<1>2. \A x, y \in Nat : x < y => <<x, y>> \in R
  BY Zenon DEF OpToRel
<1> HIDE DEF R
<1>3. PICK x \in T : \A y \in T : <<y, x>> \notin R
  BY <1>1, WFMin, Zenon
<1>4. \A y \in T : ~(y < x)
  BY <1>2, <1>3, Zenon
<1> QED BY <1>3, <1>4

\* The elements of a concatenation
LEMMA ConcatFacts ==
    ASSUME NEW S, NEW a \in Seq(S), NEW b \in Seq(S)
    PROVE  /\ a \o b \in Seq(S) /\ Len(a \o b) = Len(a) + Len(b)
           /\ \A i \in 1..Len(a \o b) : (a \o b)[i] = IF i <= Len(a) THEN a[i] ELSE b[i - Len(a)]
  OBVIOUS

\* Sequences of one length with the same elements are one.
LEMMA SameElements ==
    ASSUME NEW S, NEW a \in Seq(S), NEW b \in Seq(S), Len(a) = Len(b),
           \A i \in 1..Len(b) : a[i] = b[i]
    PROVE  a = b
<1>1. a = [i \in 1..Len(a) |-> a[i]]
  OBVIOUS
<1>2. b = [i \in 1..Len(b) |-> b[i]]
  OBVIOUS
<1> QED BY Zenon, <1>1, <1>2

\* The head of a sequence moves to the end of the one before it.
LEMMA MoveHead ==
    ASSUME NEW S, NEW a \in Seq(S), NEW q \in Seq(S), q # <<>>
    PROVE  Append(a, Head(q)) \o Tail(q) = a \o q
<1> DEFINE b == Append(a, Head(q))
           t == Tail(q)
           x == b \o t
           y == a \o q
<1>1. /\ Len(a) \in Nat /\ Len(q) \in Nat /\ Len(q) >= 1 /\ Head(q) = q[1] /\ Head(q) \in S
  OBVIOUS
<1>2. /\ b \in Seq(S) /\ Len(b) = Len(a) + 1
      /\ \A i \in 1..Len(b) : b[i] = IF i <= Len(a) THEN a[i] ELSE q[1]
  BY <1>1
<1>3. /\ t \in Seq(S) /\ Len(t) = Len(q) - 1 /\ \A i \in 1..Len(t) : t[i] = q[i + 1]
  BY <1>1
<1> HIDE DEF b, t
<1>4. /\ x \in Seq(S) /\ Len(x) = Len(b) + Len(t)
      /\ \A i \in 1..Len(x) : x[i] = IF i <= Len(b) THEN b[i] ELSE t[i - Len(b)]
  <2>1. b \in Seq(S) /\ t \in Seq(S)
    BY Zenon, <1>2, <1>3
  <2> QED BY Zenon, <2>1, ConcatFacts
<1>5. /\ y \in Seq(S) /\ Len(y) = Len(a) + Len(q)
      /\ \A i \in 1..Len(y) : y[i] = IF i <= Len(a) THEN a[i] ELSE q[i - Len(a)]
  BY Zenon, ConcatFacts
<1> HIDE DEF x, y
<1>6. Len(x) = Len(y)
  BY <1>1, <1>2, <1>3, <1>4, <1>5
<1>7. ASSUME NEW i \in 1..Len(y) PROVE x[i] = y[i]
  <2>0. i \in Nat /\ i >= 1 /\ i <= Len(a) + Len(q)
    BY <1>1, <1>5
  <2>1. CASE i <= Len(a)
    <3>1. x[i] = b[i] /\ b[i] = a[i] /\ y[i] = a[i]
      BY <1>1, <1>2, <1>4, <1>5, <1>6, <2>0, <2>1
    <3> QED BY Zenon, <3>1
  <2>2. CASE i = Len(a) + 1
    <3>1. x[i] = b[i] /\ b[i] = q[1]
      BY <1>1, <1>2, <1>4, <1>6, <2>0, <2>2
    <3>2. i - Len(a) = 1 /\ ~(i <= Len(a))
      BY <1>1, <2>2
    <3>3. y[i] = q[1]
      BY Zenon, <1>5, <3>2
    <3> QED BY Zenon, <3>1, <3>3
  <2>3. CASE i > Len(a) + 1
    <3>0. ~(i <= Len(b)) /\ i \in 1..Len(x) /\ i - Len(b) \in 1..Len(t)
      BY <1>1, <1>2, <1>3, <1>6, <2>0, <2>3
    <3>1. x[i] = t[i - Len(b)] /\ i - Len(b) \in 1..Len(t)
      BY Zenon, <1>4, <3>0
    <3>2. t[i - Len(b)] = q[i - Len(a)]
      <4>1. t[i - Len(b)] = q[(i - Len(b)) + 1]
        BY Zenon, <1>3, <3>1
      <4>2. (i - Len(b)) + 1 = i - Len(a)
        BY <1>1, <1>2, <2>0
      <4> QED BY Zenon, <4>1, <4>2
    <3>3. y[i] = q[i - Len(a)]
      <4>1. i \in 1..Len(y) /\ ~(i <= Len(a))
        BY <1>1, <2>0, <2>3
      <4> QED BY Zenon, <1>5, <4>1
    <3> QED BY Zenon, <3>1, <3>2, <3>3
  <2> QED BY <1>1, <2>0, <2>1, <2>2, <2>3
<1>8. x = y
  BY Zenon, <1>4, <1>5, <1>6, <1>7, SameElements
<1> QED BY Zenon, <1>8 DEF x, y, b, t

\* q from its i-th element on
From(q, i) == [j \in 1..(Len(q) + 1 - i) |-> q[i + j - 1]]

\* What comes from i on is the i-th element and what comes after it.
LEMMA FromFacts ==
    ASSUME NEW S, NEW q \in Seq(S)
    PROVE  /\ From(q, 1) = q /\ From(q, Len(q) + 1) = <<>>
           /\ \A i \in 1..Len(q) : From(q, i) = <<q[i]>> \o From(q, i + 1)
<1>1. From(q, 1) = q
  <2>1. \A j \in 1..Len(q) : 1 + j - 1 = j
    OBVIOUS
  <2>2. Len(q) + 1 - 1 = Len(q) /\ q = [j \in 1..Len(q) |-> q[j]]
    OBVIOUS
  <2> QED BY Zenon, <2>1, <2>2 DEF From
<1>2. From(q, Len(q) + 1) = <<>>
  BY DEF From
<1>3. ASSUME NEW i \in 1..Len(q) PROVE From(q, i) = <<q[i]>> \o From(q, i + 1)
  <2> DEFINE a == <<q[i]>>
             b == From(q, i + 1)
             c == From(q, i)
  <2>1. /\ Len(q) \in Nat /\ i \in Nat /\ i >= 1 /\ i <= Len(q)
        /\ \A j \in 1..Len(q) : q[j] \in S
    OBVIOUS
  <2>2. /\ Len(q) + 1 - i \in Nat /\ Len(q) + 1 - (i + 1) \in Nat
        /\ \A j \in 1..(Len(q) + 1 - i) : i + j - 1 \in 1..Len(q)
        /\ \A j \in 1..(Len(q) + 1 - (i + 1)) : (i + 1) + j - 1 \in 1..Len(q)
    BY <2>1
  <2>3. c \in [1..(Len(q) + 1 - i) -> S] /\ b \in [1..(Len(q) + 1 - (i + 1)) -> S]
    BY Zenon, <2>1, <2>2 DEF From
  <2>4. c \in Seq(S) /\ b \in Seq(S) /\ a \in Seq(S)
        /\ Len(c) = Len(q) + 1 - i /\ Len(b) = Len(q) + 1 - (i + 1) /\ Len(a) = 1 /\ a[1] = q[i]
    <3>1. \A n \in Nat : \A h \in [1..n -> S] : h \in Seq(S) /\ Len(h) = n
      OBVIOUS
    <3>2. a \in Seq(S) /\ Len(a) = 1 /\ a[1] = q[i]
      BY <2>1
    <3> QED BY Zenon, <2>2, <2>3, <3>1, <3>2
  <2>5. /\ \A j \in 1..(Len(q) + 1 - i) : c[j] = q[i + j - 1]
        /\ \A j \in 1..(Len(q) + 1 - (i + 1)) : b[j] = q[(i + 1) + j - 1]
    BY Zenon DEF From
  <2> HIDE DEF a, b, c
  <2>6. /\ a \o b \in Seq(S) /\ Len(a \o b) = Len(a) + Len(b)
        /\ \A j \in 1..Len(a \o b) : (a \o b)[j] = IF j <= Len(a) THEN a[j] ELSE b[j - Len(a)]
    BY Zenon, <2>4, ConcatFacts
  <2>7. Len(a \o b) = Len(c)
    BY <2>1, <2>4, <2>6
  <2>8. ASSUME NEW j \in 1..Len(c) PROVE (a \o b)[j] = c[j]
    <3>1. CASE j = 1
      <4>1. i + 1 - 1 = i /\ 1 <= 1
        BY <2>1
      <4> QED BY Zenon, <2>4, <2>5, <2>6, <2>7, <3>1, <4>1
    <3>2. CASE j # 1
      <4>1. /\ ~(j <= 1) /\ j - 1 \in 1..(Len(q) + 1 - (i + 1)) /\ (i + 1) + (j - 1) - 1 = i + j - 1
        BY <2>1, <2>4, <3>2
      <4>2. (a \o b)[j] = b[j - 1]
        BY Zenon, <2>4, <2>6, <2>7, <4>1
      <4>3. b[j - 1] = q[i + j - 1] /\ c[j] = q[i + j - 1]
        BY Zenon, <2>4, <2>5, <4>1
      <4> QED BY Zenon, <4>2, <4>3
    <3> QED BY Zenon, <3>1, <3>2
  <2>9. c = a \o b
    <3> DEFINE d == a \o b
    <3>1. d \in Seq(S) /\ Len(d) = Len(c) /\ \A j \in 1..Len(c) : d[j] = c[j]
      BY Zenon, <2>6, <2>7, <2>8
    <3> HIDE DEF d
    <3>2. c = d
      BY Zenon, <2>4, <3>1, SameElements
    <3> QED BY Zenon, <3>2 DEF d
  <2> QED BY Zenon, <2>9 DEF a, b, c
<1> QED BY Zenon, <1>1, <1>2, <1>3

\* The equation of the walk along a pointer
Walks(f, pointer) ==
    f = [n \in Nodes \cup {None} |-> IF n = None THEN <<>> ELSE <<n>> \o f[pointer[n]]]

\* Walking back from the tail visits the nodes of the list in their order.
LEMMA BackwardIs == ASSUME NEW l, NEW q, Chain(l, q) PROVE Backward(l) = q
<1> DEFINE At(n) == CHOOSE i \in 1..Len(q) : q[i] = n
           v(n) == IF n = None THEN <<>> ELSE IF Listed(l, n) THEN From(q, At(n)) ELSE <<n>>
           g == [n \in Nodes \cup {None} |-> v(n)]
           f == CHOOSE h : Walks(h, l.prev)
<1>1. q \in Seq(Nodes) /\ Len(q) \in Nat /\ \A i \in 1..Len(q) : q[i] \in Nodes
  BY DEF Chain
<1>2. /\ From(q, 1) = q /\ From(q, Len(q) + 1) = <<>>
      /\ \A i \in 1..Len(q) : From(q, i) = <<q[i]>> \o From(q, i + 1)
  BY Zenon, <1>1, FromFacts
<1>3. \A i \in 1..Len(q) : l.prev[q[i]] = IF i = Len(q) THEN None ELSE q[i + 1]
  BY Zenon DEF Chain
<1>4. \A i \in 1..Len(q) : i = Len(q) \/ i + 1 \in 1..Len(q)
  BY <1>1
<1>5. g[None] = <<>> /\ \A i \in 1..Len(q) : g[q[i]] = From(q, i)
  <2>1. ASSUME NEW i \in 1..Len(q) PROVE g[q[i]] = From(q, i)
    <3>1. q[i] \in Nodes /\ q[i] # None /\ Listed(l, q[i])
      <4>1. q[i] \in Nodes /\ \A n \in Nodes : Listed(l, n) <=> \E j \in 1..Len(q) : q[j] = n
        BY Zenon, <1>1 DEF Chain
      <4> QED BY Zenon, <4>1, NoneIsNoNode
    <3>2. At(q[i]) \in 1..Len(q) /\ q[At(q[i])] = q[i]
      BY Zenon
    <3>3. At(q[i]) = i
      BY Zenon, <3>2 DEF Chain
    <3> HIDE DEF At
    <3> QED BY Zenon, <3>1, <3>3
  <2> QED BY Zenon, <2>1
<1>6. ASSUME NEW n \in Nodes PROVE g[n] = <<n>> \o g[l.prev[n]]
  <2>1. CASE Listed(l, n)
    <3>1. PICK i \in 1..Len(q) : q[i] = n
      BY Zenon, <2>1 DEF Chain
    <3>2. g[l.prev[n]] = From(q, i + 1)
      <4> HIDE DEF g
      <4> QED BY Zenon, <1>2, <1>3, <1>4, <1>5, <3>1
    <3> HIDE DEF g
    <3> QED BY Zenon, <1>2, <1>5, <3>1, <3>2
  <2>2. CASE ~Listed(l, n)
    <3>1. l.prev[n] = None /\ n # None
      BY Zenon, <2>2, NoneIsNoNode DEF Listed
    <3>2. g[n] = <<n>>
      BY Zenon, <2>2, <3>1
    <3>3. <<n>> \o <<>> = <<n>>
      OBVIOUS
    <3> HIDE DEF g
    <3> QED BY Zenon, <1>5, <3>1, <3>2, <3>3
  <2> QED BY Zenon, <2>1, <2>2
<1>7. Walks(g, l.prev)
  <2> HIDE DEF v
  <2>1. \A n \in Nodes \cup {None} : g[n] = v(n)
    BY Zenon
  <2>2. g = [n \in Nodes \cup {None} |-> v(n)]
    BY Zenon
  <2> HIDE DEF g
  <2>3. \A n \in Nodes \cup {None} : v(n) = IF n = None THEN <<>> ELSE <<n>> \o g[l.prev[n]]
    BY Zenon, <1>5, <1>6, <2>1, NoneIsNoNode
  <2> QED BY Zenon, <2>2, <2>3 DEF Walks
<1> HIDE DEF g
<1>8. Walks(f, l.prev)
  BY Zenon, <1>7
<1>9. Backward(l) = f[l.tail]
  BY Zenon DEF Backward, Walk, Walks
<1> HIDE DEF f
<1>10. f[None] = <<>> /\ \A n \in Nodes : f[n] = <<n>> \o f[l.prev[n]]
  BY Zenon, <1>8, NoneIsNoNode DEF Walks
<1>11. ASSUME NEW i \in 1..Len(q) PROVE f[q[i]] = From(q, i)
  <2> DEFINE T == {k \in Nat : \E j \in 1..Len(q) : k + j = Len(q) /\ f[q[j]] # From(q, j)}
  <2>1. T = {}
    <3> SUFFICES ASSUME T # {} PROVE FALSE
      BY Zenon
    <3>1. PICK k \in T : \A y \in T : k <= y
      BY Zenon, Least
    <3>2. PICK j \in 1..Len(q) : k + j = Len(q) /\ f[q[j]] # From(q, j)
      BY Zenon, <3>1
    <3>3. f[q[j]] = <<q[j]>> \o f[l.prev[q[j]]]
      BY Zenon, <1>1, <1>10
    <3>4. f[l.prev[q[j]]] = From(q, j + 1)
      <4>1. CASE j = Len(q)
        BY Zenon, <1>2, <1>3, <1>10, <4>1
      <4>2. CASE j # Len(q)
        <5>1. k \in Nat
          BY Zenon, <3>1
        <5>2. k - 1 \in Nat /\ j + 1 \in 1..Len(q) /\ (k - 1) + (j + 1) = Len(q) /\ ~(k <= k - 1)
          BY <1>1, <3>2, <4>2, <5>1
        <5>3. f[q[j + 1]] = From(q, j + 1)
          BY Zenon, <3>1, <5>2
        <5> QED BY Zenon, <1>3, <4>2, <5>3
      <4> QED BY Zenon, <4>1, <4>2
    <3> QED BY Zenon, <1>2, <3>2, <3>3, <3>4
  <2>2. Len(q) - i \in Nat /\ (Len(q) - i) + i = Len(q)
    BY <1>1
  <2> QED BY Zenon, <2>1, <2>2
<1>12. l.tail = IF Len(q) = 0 THEN None ELSE q[1]
  BY Zenon DEF Chain
<1>13. CASE Len(q) = 0
  <2>1. q = <<>>
    BY <1>1, <1>13
  <2> QED BY Zenon, <1>9, <1>10, <1>12, <1>13, <2>1
<1>14. CASE Len(q) # 0
  <2>1. 1 \in 1..Len(q)
    BY <1>1, <1>14
  <2> QED BY Zenon, <1>2, <1>9, <1>11, <1>12, <1>14, <2>1
<1> QED BY Zenon, <1>13, <1>14

\* LinkedList::new has no nodes.
LEMMA NewChain == Chain(NewList, <<>>)
<1>1. <<>> \in Seq(Nodes) /\ Len(<<>>) = 0 /\ \A i : i \notin 1..0
  OBVIOUS
<1>2. NewList.tail = None /\ NewList.head = None
  BY Zenon DEF NewList
<1> QED BY Zenon, <1>1, <1>2, NewLinked DEF Chain

\* push_front puts a node behind all others.
LEMMA PushChain ==
    ASSUME NEW l \in Lists, Linked(l), NEW n \in Nodes, ~Listed(l, n), NEW q, Chain(l, q)
    PROVE  Chain(PushFront(l, n), Append(q, n))
<1> DEFINE k == PushFront(l, n)
           r == Append(q, n)
<1>1. q \in Seq(Nodes) /\ Len(q) \in Nat /\ \A i \in 1..Len(q) : q[i] \in Nodes
  BY DEF Chain
<1>2. /\ r \in Seq(Nodes) /\ Len(r) = Len(q) + 1 /\ r[Len(q) + 1] = n
      /\ \A i \in 1..Len(q) : r[i] = q[i]
  BY <1>1
<1>3. /\ k.head = n
      /\ k.tail = IF l.tail = None THEN n ELSE l.tail
      /\ k.prev = [m \in Nodes |-> IF m = n THEN None ELSE IF m = l.head THEN n ELSE l.prev[m]]
  BY Zenon DEF PushFront
<1>4. \A m \in Nodes : Listed(k, m) <=> Listed(l, m) \/ m = n
  BY Zenon, PushFrontLinked
<1>5. \A i \in 1..Len(q) : q[i] # n
  BY Zenon, <1>1 DEF Chain
<1> HIDE DEF k, r
<1>6. \A i : i \in 1..Len(r) <=> i \in 1..Len(q) \/ i = Len(q) + 1
  BY <1>1, <1>2
<1>7. Len(q) + 1 \notin 1..Len(q) /\ Len(r) # 0
  BY <1>1, <1>2
<1>8. k.tail = IF Len(r) = 0 THEN None ELSE r[1]
  <2>1. CASE Len(q) = 0
    BY <1>2, <1>3, <2>1 DEF Chain
  <2>2. CASE Len(q) # 0
    <3>1. 1 \in 1..Len(q)
      BY <1>1, <2>2
    <3>2. l.tail = q[1] /\ q[1] \in Nodes /\ r[1] = q[1]
      BY Zenon, <1>1, <1>2, <2>2, <3>1 DEF Chain
    <3> QED BY Zenon, <1>3, <1>7, <3>2, NoneIsNoNode
  <2> QED BY Zenon, <2>1, <2>2
<1>9. k.head = IF Len(r) = 0 THEN None ELSE r[Len(r)]
  BY Zenon, <1>2, <1>3, <1>7
<1>10. \A i \in 1..Len(r) : k.prev[r[i]] = IF i = Len(r) THEN None ELSE r[i + 1]
  <2>1. k.prev[n] = None
    BY Zenon, <1>3
  <2>2. ASSUME NEW i \in 1..Len(q) PROVE k.prev[q[i]] = r[i + 1] /\ i # Len(r)
    <3>1. i # Len(r)
      BY Zenon, <1>2, <1>7
    <3>2. k.prev[q[i]] = IF q[i] = l.head THEN n ELSE l.prev[q[i]]
      BY Zenon, <1>1, <1>3, <1>5
    <3>3. CASE i = Len(q)
      <4>1. Len(q) # 0
        BY <1>1, <3>3
      <4>2. q[i] = l.head
        BY Zenon, <3>3, <4>1 DEF Chain
      <4> QED BY Zenon, <1>2, <3>1, <3>2, <3>3, <4>2
    <3>4. CASE i # Len(q)
      <4>1. Len(q) # 0 /\ Len(q) \in 1..Len(q) /\ i + 1 \in 1..Len(q)
        BY <1>1, <3>4
      <4>2. q[i] # l.head /\ l.prev[q[i]] = q[i + 1]
        <5>1. l.head = q[Len(q)]
          BY Zenon, <4>1 DEF Chain
        <5>2. q[i] = q[Len(q)] => i = Len(q)
          BY Zenon, <4>1 DEF Chain
        <5>3. l.prev[q[i]] = q[i + 1]
          BY Zenon, <3>4 DEF Chain
        <5> QED BY Zenon, <3>4, <5>1, <5>2, <5>3
      <4> QED BY Zenon, <1>2, <3>1, <3>2, <4>1, <4>2
    <3> QED BY Zenon, <3>3, <3>4
  <2> QED BY Zenon, <1>2, <1>6, <2>1, <2>2
<1>11. \A i, j \in 1..Len(r) : r[i] = r[j] => i = j
  <2>1. \A i, j \in 1..Len(q) : q[i] = q[j] => i = j
    BY Zenon DEF Chain
  <2> QED BY Zenon, <1>2, <1>5, <1>6, <2>1
<1>12. \A m \in Nodes : Listed(k, m) <=> \E i \in 1..Len(r) : r[i] = m
  <2>1. \A m \in Nodes : Listed(l, m) <=> \E i \in 1..Len(q) : q[i] = m
    BY Zenon DEF Chain
  <2> QED BY Zenon, <1>2, <1>4, <1>6, <2>1
<1> QED BY Zenon, <1>2, <1>8, <1>9, <1>10, <1>11, <1>12 DEF Chain, k, r

\* pop_back takes the first node.
LEMMA PopChain ==
    ASSUME NEW l \in Lists, Linked(l), l.tail # None, NEW q, Chain(l, q)
    PROVE  q # <<>> /\ Head(q) = l.tail /\ Chain(PopBack(l), Tail(q))
<1> DEFINE k == PopBack(l)
           r == Tail(q)
<1>1. q \in Seq(Nodes) /\ Len(q) \in Nat /\ Len(q) # 0
  <2>1. Len(q) # 0
    BY Zenon DEF Chain
  <2> QED BY <2>1 DEF Chain
<1>2. /\ r \in Seq(Nodes) /\ Len(r) \in Nat /\ Len(q) = Len(r) + 1 /\ q # <<>> /\ Head(q) = q[1]
      /\ \A i \in 1..Len(r) : r[i] = q[i + 1]
  BY <1>1
<1> HIDE DEF r
<1>3. /\ 1 \in 1..Len(q) /\ Len(q) \in 1..Len(q)
      /\ \A i \in 1..Len(r) : i + 1 \in 1..Len(q) /\ i + 1 # 1 /\ (i = Len(r) <=> i + 1 = Len(q))
      /\ \A i \in 1..Len(q) : i = 1 \/ (i - 1 \in 1..Len(r) /\ (i - 1) + 1 = i)
      /\ Len(r) = 0 => 1 = Len(q)
      /\ Len(r) # 0 => 1 # Len(q) /\ 1 \in 1..Len(r) /\ Len(r) \in 1..Len(r)
  BY <1>1, <1>2
<1>4. l.tail = q[1] /\ l.head = q[Len(q)] /\ \A i \in 1..Len(q) : q[i] \in Nodes
  <2>1. \A i \in 1..Len(q) : q[i] \in Nodes
    BY DEF Chain
  <2> QED BY Zenon, <1>1, <2>1 DEF Chain
<1>5. /\ k.head = IF l.prev[q[1]] = None THEN None ELSE l.head
      /\ k.tail = l.prev[q[1]]
      /\ k.prev = [l.prev EXCEPT ![q[1]] = None]
  BY Zenon, <1>4 DEF PopBack
<1>6. \A m \in Nodes : Listed(k, m) <=> Listed(l, m) /\ m # q[1]
  BY Zenon, <1>4, PopBackLinked
<1> HIDE DEF k
<1>7. l.prev[q[1]] = IF Len(r) = 0 THEN None ELSE r[1]
  <2>1. l.prev[q[1]] = IF 1 = Len(q) THEN None ELSE q[1 + 1]
    BY Zenon, <1>3 DEF Chain
  <2> QED BY Zenon, <1>2, <1>3, <2>1
<1>8. k.tail = IF Len(r) = 0 THEN None ELSE r[1]
  BY Zenon, <1>5, <1>7
<1>9. k.head = IF Len(r) = 0 THEN None ELSE r[Len(r)]
  <2>1. CASE Len(r) = 0
    BY Zenon, <1>5, <1>7, <2>1
  <2>2. CASE Len(r) # 0
    <3>1. r[1] \in Nodes /\ r[Len(r)] = q[Len(q)]
      BY Zenon, <1>2, <1>3, <1>4, <2>2
    <3> QED BY Zenon, <1>4, <1>5, <1>7, <2>2, <3>1, NoneIsNoNode
  <2> QED BY Zenon, <2>1, <2>2
<1>10. \A i, j \in 1..Len(q) : q[i] = q[j] => i = j
  BY Zenon DEF Chain
<1>11. \A i \in 1..Len(r) : k.prev[r[i]] = IF i = Len(r) THEN None ELSE r[i + 1]
  <2> SUFFICES ASSUME NEW i \in 1..Len(r) PROVE k.prev[r[i]] = IF i = Len(r) THEN None ELSE r[i + 1]
    BY Zenon
  <2>1. q[i + 1] # q[1] /\ q[i + 1] \in Nodes
    BY Zenon, <1>3, <1>4, <1>10
  <2>2. k.prev[q[i + 1]] = l.prev[q[i + 1]]
    BY Zenon, <1>5, <2>1 DEF Lists
  <2>3. l.prev[q[i + 1]] = IF i + 1 = Len(q) THEN None ELSE q[(i + 1) + 1]
    BY Zenon, <1>3 DEF Chain
  <2>4. i # Len(r) => i + 1 \in 1..Len(r)
    BY <1>2
  <2> QED BY Zenon, <1>2, <1>3, <2>2, <2>3, <2>4
<1>12. \A i, j \in 1..Len(r) : r[i] = r[j] => i = j
  <2> SUFFICES ASSUME NEW i \in 1..Len(r), NEW j \in 1..Len(r), r[i] = r[j] PROVE i = j
    BY Zenon
  <2>0. q[i + 1] = q[j + 1]
    BY Zenon, <1>2
  <2>1. i + 1 = j + 1
    BY Zenon, <1>3, <1>10, <2>0
  <2> QED BY <2>1
<1>13. \A m \in Nodes : Listed(k, m) <=> \E i \in 1..Len(r) : r[i] = m
  <2>1. \A m \in Nodes : Listed(l, m) <=> \E i \in 1..Len(q) : q[i] = m
    BY Zenon DEF Chain
  <2>2. ASSUME NEW m \in Nodes, NEW i \in 1..Len(q), q[i] = m, m # q[1] PROVE \E j \in 1..Len(r) : r[j] = m
    <3>1. r[i - 1] = q[i] /\ i - 1 \in 1..Len(r)
      BY Zenon, <1>2, <1>3, <2>2
    <3> QED BY Zenon, <2>2, <3>1
  <2>3. ASSUME NEW m \in Nodes, NEW j \in 1..Len(r), r[j] = m PROVE m # q[1] /\ \E i \in 1..Len(q) : q[i] = m
    BY Zenon, <1>2, <1>3, <1>10, <2>3
  <2> QED BY Zenon, <1>6, <2>1, <2>2, <2>3
<1> QED BY Zenon, <1>2, <1>4, <1>8, <1>9, <1>11, <1>12, <1>13 DEF Chain, k, r

\* A sequence without one of its elements
LEMMA WithoutFacts ==
    ASSUME NEW S, NEW q \in Seq(S), NEW c \in 1..Len(q)
    PROVE  LET r == Promise!Without(q, c)
           IN  /\ r \in Seq(S) /\ Len(r) \in Nat /\ Len(q) = Len(r) + 1
               /\ \A i \in 1..Len(r) : r[i] = IF i < c THEN q[i] ELSE q[i + 1]
<1> DEFINE r == Promise!Without(q, c)
<1>1. Len(q) \in Nat /\ Len(q) - 1 \in Nat /\ Len(q) = (Len(q) - 1) + 1
  OBVIOUS
<1>2. r = [j \in 1..(Len(q) - 1) |-> IF j < c THEN q[j] ELSE q[j + 1]]
  BY Zenon DEF Promise!Without
<1>3. \A j \in 1..(Len(q) - 1) : j \in 1..Len(q) /\ j + 1 \in 1..Len(q)
  BY <1>1
<1>4. \A j \in 1..Len(q) : q[j] \in S
  OBVIOUS
<1>5. \A j \in 1..(Len(q) - 1) : (IF j < c THEN q[j] ELSE q[j + 1]) \in S
  BY Zenon, <1>3, <1>4
<1> DEFINE n == Len(q) - 1
<1> HIDE DEF n
<1>6. r \in [1..n -> S] /\ n \in Nat
  BY Zenon, <1>1, <1>2, <1>5 DEF n
<1> HIDE DEF r
<1>7. r \in Seq(S) /\ Len(r) = n
  BY <1>6
<1> QED BY Zenon, <1>1, <1>2, <1>7 DEF n, r

\* remove takes a node out of its place and keeps the order of the others.
LEMMA RemoveChain ==
    ASSUME NEW l \in Lists, Linked(l), NEW q, Chain(l, q), NEW c \in 1..Len(q)
    PROVE  Chain(Remove(l, q[c]), Promise!Without(q, c))
<1> DEFINE n == q[c]
           k == Remove(l, n)
           p == l.prev[n]
           x == l.next[n]
           r == Promise!Without(q, c)
<1>1. /\ q \in Seq(Nodes) /\ Len(q) \in Nat /\ c \in Nat /\ c <= Len(q) /\ c >= 1
      /\ \A i \in 1..Len(q) : q[i] \in Nodes
  BY DEF Chain
<1>2. /\ r \in Seq(Nodes) /\ Len(r) \in Nat /\ Len(q) = Len(r) + 1
      /\ \A i \in 1..Len(r) : r[i] = IF i < c THEN q[i] ELSE q[i + 1]
  BY Zenon, <1>1, WithoutFacts
<1> HIDE DEF r
<1>3. n \in Nodes /\ Listed(l, n)
  BY Zenon, <1>1 DEF Chain
<1>4. /\ k.head = IF p = None THEN x ELSE l.head
      /\ k.tail = IF x = None THEN p ELSE l.tail
      /\ k.prev = [m \in Nodes |-> IF m = n THEN None ELSE IF m = x THEN p ELSE l.prev[m]]
  <2>1. k = [head |-> IF p = None THEN x ELSE l.head,
             tail |-> IF x = None THEN p ELSE l.tail,
             prev |-> [m \in Nodes |-> IF m = n THEN None ELSE IF m = x THEN p ELSE l.prev[m]],
             next |-> [m \in Nodes |-> IF m = n THEN None ELSE IF m = p THEN x ELSE l.next[m]]]
    BY Zenon, <1>3, RemoveForm
  <2> HIDE DEF k, p, x, n
  <2> QED BY Zenon, <2>1
<1>5. \A m \in Nodes : Listed(k, m) <=> Listed(l, m) /\ m # n
  BY Zenon, <1>3, RemoveLinked
<1> HIDE DEF k
<1>6. /\ l.tail = q[1] /\ l.head = q[Len(q)]
      /\ \A i \in 1..Len(q) : l.prev[q[i]] = IF i = Len(q) THEN None ELSE q[i + 1]
      /\ \A i, j \in 1..Len(q) : q[i] = q[j] => i = j
      /\ \A m \in Nodes : Listed(l, m) <=> \E i \in 1..Len(q) : q[i] = m
  <2>1. Len(q) # 0
    BY <1>1
  <2> QED BY Zenon, <2>1 DEF Chain
<1>7. p = IF c = Len(q) THEN None ELSE q[c + 1]
  BY Zenon, <1>6
<1>8. x = IF c = 1 THEN None ELSE q[c - 1]
  <2>1. CASE c = 1
    BY Zenon, <1>3, <1>6, <2>1, NoneIsNoNode DEF Linked
  <2>2. CASE c # 1
    <3>1. c - 1 \in 1..Len(q) /\ c - 1 # Len(q) /\ (c - 1) + 1 = c
      BY <1>1, <2>2
    <3>2. l.prev[q[c - 1]] = n /\ q[c - 1] \in Nodes
      <4>1. l.prev[q[c - 1]] = IF c - 1 = Len(q) THEN None ELSE q[(c - 1) + 1]
        BY Zenon, <1>6, <3>1
      <4> QED BY Zenon, <1>1, <3>1, <4>1
    <3>3. n # None
      BY Zenon, <1>3, NoneIsNoNode
    <3> QED BY Zenon, <2>2, <3>2, <3>3 DEF Linked
  <2> QED BY Zenon, <2>1, <2>2
<1>9. /\ c # 1 => c - 1 \in 1..Len(q) /\ q[c - 1] # None /\ q[c - 1] # n
      /\ c # Len(q) => c + 1 \in 1..Len(q) /\ q[c + 1] # None /\ q[c + 1] # n
  <2>1. /\ c # 1 => c - 1 \in 1..Len(q) /\ c - 1 # c
        /\ c # Len(q) => c + 1 \in 1..Len(q) /\ c + 1 # c
    BY <1>1
  <2>2. ASSUME NEW j \in 1..Len(q), j # c PROVE q[j] # None /\ q[j] # n
    <3>1. q[j] # None
      BY Zenon, <1>1, NoneIsNoNode
    <3>2. q[j] # q[c]
      BY Zenon, <1>6, <2>2
    <3> QED BY Zenon, <3>1, <3>2
  <2> HIDE DEF n
  <2> QED BY Zenon, <2>1, <2>2
<1>10. k.tail = IF Len(r) = 0 THEN None ELSE r[1]
  <2>1. CASE c = 1
    <3>1. k.tail = p
      BY Zenon, <1>4, <1>8, <2>1
    <3>2. Len(r) # 0 => c # Len(q) /\ 1 \in 1..Len(r) /\ ~(1 < c)
      BY <1>2, <2>1
    <3>3. Len(r) = 0 => c = Len(q)
      BY <1>2, <2>1
    <3>4. Len(r) # 0 => r[1] = q[1 + 1]
      BY Zenon, <1>2, <3>2
    <3> QED BY Zenon, <1>7, <2>1, <3>1, <3>2, <3>3, <3>4
  <2>2. CASE c # 1
    <3>1. k.tail = q[1]
      BY Zenon, <1>4, <1>6, <1>8, <1>9, <2>2
    <3>2. Len(r) # 0 /\ 1 \in 1..Len(r) /\ 1 < c
      BY <1>1, <1>2, <2>2
    <3> QED BY Zenon, <1>2, <3>1, <3>2
  <2> QED BY Zenon, <2>1, <2>2
<1>11. k.head = IF Len(r) = 0 THEN None ELSE r[Len(r)]
  <2>1. CASE c = Len(q)
    <3>1. k.head = x
      BY Zenon, <1>4, <1>7, <2>1
    <3>2. Len(r) # 0 => c # 1 /\ Len(r) \in 1..Len(r) /\ Len(r) < c /\ Len(r) = c - 1
      BY <1>1, <1>2, <2>1
    <3>3. Len(r) = 0 => c = 1
      BY <1>2, <2>1
    <3>4. Len(r) # 0 => r[Len(r)] = q[c - 1]
      BY Zenon, <1>2, <3>2
    <3> QED BY Zenon, <1>8, <3>1, <3>2, <3>3, <3>4
  <2>2. CASE c # Len(q)
    <3>1. k.head = q[Len(q)]
      BY Zenon, <1>4, <1>6, <1>7, <1>9, <2>2
    <3>2. Len(r) # 0 /\ Len(r) \in 1..Len(r) /\ ~(Len(r) < c)
      BY <1>1, <1>2, <2>2
    <3> QED BY Zenon, <1>2, <3>1, <3>2
  <2> QED BY Zenon, <2>1, <2>2

<1>12. ASSUME NEW i \in 1..Len(r)
       PROVE  /\ i < c => i \in 1..Len(q) /\ i # c /\ i # Len(q)
              /\ ~(i < c) => i + 1 \in 1..Len(q) /\ i + 1 # c /\ i + 1 # c - 1
              /\ (i + 1 = Len(q) <=> i = Len(r))
              /\ i # Len(r) => i + 1 \in 1..Len(r)
  BY <1>1, <1>2
<1>13. ASSUME NEW i \in 1..Len(r)
       PROVE  k.prev[r[i]] = IF i = Len(r) THEN None ELSE r[i + 1]
  <2>1. CASE i < c /\ i # c - 1
    <3>1. i \in 1..Len(q) /\ i # c /\ i # Len(q) /\ i # Len(r) /\ i + 1 \in 1..Len(r) /\ i + 1 < c
      BY <1>1, <1>2, <2>1
    <3>2. r[i] = q[i] /\ r[i + 1] = q[i + 1]
      BY Zenon, <1>2, <2>1, <3>1
    <3>3. q[i] # n /\ q[i] # x /\ q[i] \in Nodes
      <4>1. q[i] # n /\ q[i] \in Nodes
        BY Zenon, <1>1, <1>6, <3>1
      <4>2. c # 1 => q[i] # q[c - 1]
        BY Zenon, <1>6, <1>9, <2>1, <3>1
      <4> QED BY Zenon, <1>8, <4>1, <4>2, NoneIsNoNode
    <3>4. k.prev[q[i]] = l.prev[q[i]]
      BY Zenon, <1>4, <3>3
    <3>5. l.prev[q[i]] = q[i + 1]
      BY Zenon, <1>6, <3>1
    <3> QED BY Zenon, <3>1, <3>2, <3>4, <3>5
  <2>2. CASE i = c - 1
    <3>1. i < c /\ c # 1 /\ i + 1 = c /\ (i = Len(r) <=> c = Len(q)) /\ ~(c < c)
      BY <1>1, <1>2, <2>2
    <3>2. r[i] = q[c - 1]
      BY Zenon, <1>2, <2>2, <3>1
    <3>3. x = q[c - 1] /\ x # n /\ x \in Nodes
      BY Zenon, <1>1, <1>8, <1>9, <3>1
    <3>4. k.prev[x] = p
      BY Zenon, <1>4, <3>3
    <3>5. i # Len(r) => r[c] = q[c + 1]
      BY Zenon, <1>2, <1>12, <3>1
    <3> QED BY Zenon, <1>7, <3>1, <3>2, <3>3, <3>4, <3>5
  <2>3. CASE ~(i < c)
    <3>1. i + 1 \in 1..Len(q) /\ i + 1 # c /\ i + 1 # c - 1 /\ ~(i + 1 < c)
      BY <1>1, <1>2, <2>3
    <3>2. r[i] = q[i + 1] /\ (i # Len(r) => r[i + 1] = q[(i + 1) + 1])
      BY Zenon, <1>2, <1>12, <2>3, <3>1
    <3>3. q[i + 1] # n /\ q[i + 1] # x /\ q[i + 1] \in Nodes
      <4>1. q[i + 1] # n /\ q[i + 1] \in Nodes
        BY Zenon, <1>1, <1>6, <3>1
      <4>2. c # 1 => q[i + 1] # q[c - 1]
        BY Zenon, <1>6, <1>9, <3>1
      <4> QED BY Zenon, <1>8, <4>1, <4>2, NoneIsNoNode
    <3>4. k.prev[q[i + 1]] = l.prev[q[i + 1]]
      BY Zenon, <1>4, <3>3
    <3>5. l.prev[q[i + 1]] = IF i + 1 = Len(q) THEN None ELSE q[(i + 1) + 1]
      BY Zenon, <1>6, <3>1
    <3> QED BY Zenon, <1>12, <3>2, <3>4, <3>5
  <2> QED BY Zenon, <2>1, <2>2, <2>3
<1> DEFINE at(i) == IF i < c THEN i ELSE i + 1
<1>14. \A i \in 1..Len(r) : at(i) \in 1..Len(q) /\ at(i) # c /\ r[i] = q[at(i)]
  BY Zenon, <1>2, <1>12
<1>15. \A i, j \in 1..Len(r) : at(i) = at(j) => i = j
  BY <1>1, <1>2
<1>16. \A j \in 1..Len(q) : j # c => \E i \in 1..Len(r) : at(i) = j
  <2> SUFFICES ASSUME NEW j \in 1..Len(q), j # c PROVE \E i \in 1..Len(r) : at(i) = j
    BY Zenon
  <2>1. CASE j < c
    <3>1. j \in 1..Len(r)
      BY <1>1, <1>2, <2>1
    <3> QED BY Zenon, <2>1, <3>1
  <2>2. CASE ~(j < c)
    <3>1. j - 1 \in 1..Len(r) /\ ~(j - 1 < c) /\ (j - 1) + 1 = j
      BY <1>1, <1>2, <2>2
    <3> QED BY Zenon, <3>1
  <2> QED BY Zenon, <2>1, <2>2
<1> HIDE DEF at
<1>17. \A i, j \in 1..Len(r) : r[i] = r[j] => i = j
  <2> SUFFICES ASSUME NEW i \in 1..Len(r), NEW j \in 1..Len(r), r[i] = r[j] PROVE i = j
    BY Zenon
  <2>1. q[at(i)] = q[at(j)]
    BY Zenon, <1>14
  <2>2. at(i) = at(j)
    BY Zenon, <1>6, <1>14, <2>1
  <2> QED BY Zenon, <1>15, <2>2
<1>18. \A m \in Nodes : Listed(k, m) <=> \E i \in 1..Len(r) : r[i] = m
  <2>1. ASSUME NEW m \in Nodes, Listed(k, m) PROVE \E i \in 1..Len(r) : r[i] = m
    <3>1. PICK j \in 1..Len(q) : q[j] = m /\ j # c
      BY Zenon, <1>5, <1>6, <2>1
    <3>2. PICK i \in 1..Len(r) : at(i) = j
      BY Zenon, <1>16, <3>1
    <3> QED BY Zenon, <1>14, <3>1, <3>2
  <2>2. ASSUME NEW m \in Nodes, NEW i \in 1..Len(r), r[i] = m PROVE Listed(k, m)
    <3>1. at(i) \in 1..Len(q) /\ at(i) # c /\ q[at(i)] = m
      BY Zenon, <1>14, <2>2
    <3>2. m # n
      BY Zenon, <1>6, <3>1
    <3> QED BY Zenon, <1>5, <1>6, <3>1, <3>2
  <2> QED BY Zenon, <2>1, <2>2
<1> QED BY Zenon, <1>2, <1>10, <1>11, <1>13, <1>17, <1>18 DEF Chain, k, r

-----------------------------------------------------------------------------
(* The invariant of the mapping *)

\* A future has been created since or before the last call of notify_waiters, and waits only
\* if there was no call since.
FutureInv ==
    \A f \in Futures :
        /\ pc[f] = "running" => fut[f].st # "none"
        /\ fut[f].st = "init" => fut[f].since <= word.calls
        /\ pc[f] = "transition" => fut[f].since = word.calls

\* Futures that notify_waiters has taken out of the list wait for it to release the lock.
PoppedInv ==
    \A p \in Procs :
        /\ pc[p] # "pop" => loc[p].popped = <<>>
        /\ \A i \in DOMAIN loc[p].popped :
            fut[loc[p].popped[i]].st = "waiting" /\ fut[loc[p].popped[i]].notified = "all"

\* Read backward, the list is the queue of those that wait.
RInv == FutureInv /\ PoppedInv /\ Chain(list, Backward(list))

\* Priming a list
LEMMA BackwardPrime == Backward(list)' = Backward(list')
  BY Zenon DEF Backward, Walk

\* The list has a new value.
LEMMA ChainPrime ==
    ASSUME NEW l, NEW q, Chain(l, q), list' = l
    PROVE  Chain(list, Backward(list))' /\ Backward(list)' = q
<1>1. Backward(list') = q
  BY Zenon, BackwardIs
<1>2. Backward(list)' = q
  BY Zenon, <1>1, BackwardPrime
<1>3. Chain(list', Backward(list)')
  BY Zenon, <1>2
<1>4. Chain(list, Backward(list))'
  BY Zenon, <1>3 DEF Chain, Listed
<1> QED BY Zenon, <1>2, <1>4

\* The empty sequence is neutral.
LEMMA EmptyConcat == ASSUME NEW S, NEW s \in Seq(S) PROVE <<>> \o s = s
  OBVIOUS

\* Nobody empties the list: nothing has been popped.
LEMMA NonePopped ==
    ASSUME IInv, RInv, \A p \in Procs : pc[p] # "pop" PROVE popped = <<>> /\ abstractQueue = Backward(list)
<1>1. popped = <<>>
  BY Zenon DEF IInv, TypeOK, RInv, PoppedInv, popped
<1>2. Backward(list) \in Seq(Nodes)
  BY Zenon DEF RInv, Chain
<1> QED BY Zenon, <1>1, <1>2, EmptyConcat DEF abstractQueue

\* The same in the next state
LEMMA NonePoppedNext ==
    ASSUME TypeOK', RInv', \A p \in Procs : pc'[p] # "pop" PROVE popped' = <<>> /\ abstractQueue' = Backward(list)'
<1>1. popped' = <<>>
  BY Zenon DEF TypeOK, RInv, PoppedInv, popped
<1>2. Backward(list)' \in Seq(Nodes)
  BY Zenon DEF RInv, Chain
<1> QED BY Zenon, <1>1, <1>2, EmptyConcat DEF abstractQueue

-----------------------------------------------------------------------------
(* Steps that nobody can see *)

\* What the abstract specification sees of a step
Unseen == UNCHANGED <<abstractPermit, abstractQueue, abstractSt>>

\* A step that changes none of the shared state, and pops nothing, is not seen.
LEMMA SameSeen ==
    ASSUME word' = word, list' = list, fut' = fut, popped' = popped
    PROVE  Unseen
<1>1. Backward(list)' = Backward(list)
  BY Zenon, BackwardPrime
<1>2. \A f : Leaving(f)' <=> Leaving(f)
  BY Zenon DEF Leaving
<1>3. abstractSt' = abstractSt
  BY Zenon, <1>2 DEF abstractSt, Shown
<1> QED BY Zenon, <1>1, <1>3 DEF Unseen, abstractPermit, abstractQueue

\* The popped futures of a process that is not in notify_waiters
LEMMA NoPopped == ASSUME RInv, NEW p \in Procs, pc[p] # "pop" PROVE loc[p].popped = <<>>
  BY Zenon DEF RInv, PoppedInv

\* A step of a process that changes its place and locals, and may take the lock
LEMMA LocalMove ==
    ASSUME IInv, RInv, NEW p \in Procs, pc[p] # "pop",
           word' = word, list' = list, fut' = fut,
           \A q \in Procs : q # p => pc'[q] = pc[q] /\ loc'[q] = loc[q],
           loc'[p].popped = <<>>,
           lock' = lock \/ (lock = None /\ lock' = p),
           p \in Futures /\ pc'[p] = "running" => fut[p].st # "none",
           p \in Futures /\ pc'[p] = "transition" => fut[p].since = word.calls
    PROVE  RInv' /\ Unseen
<1>1. FutureInv'
  BY Zenon DEF RInv, FutureInv, Procs
<1>2. PoppedInv'
  <2>1. \A i : i \notin DOMAIN <<>>
    OBVIOUS
  <2>2. ASSUME NEW q \in Procs
        PROVE  /\ pc'[q] # "pop" => loc'[q].popped = <<>>
               /\ \A i \in DOMAIN loc'[q].popped :
                    fut'[loc'[q].popped[i]].st = "waiting" /\ fut'[loc'[q].popped[i]].notified = "all"
    <3>1. CASE q = p
      BY Zenon, <2>1, <3>1
    <3>2. CASE q # p
      <4>1. loc'[q] = loc[q] /\ pc'[q] = pc[q]
        BY Zenon, <3>2
      <4>2. /\ pc[q] # "pop" => loc[q].popped = <<>>
            /\ \A i \in DOMAIN loc[q].popped :
                fut[loc[q].popped[i]].st = "waiting" /\ fut[loc[q].popped[i]].notified = "all"
        BY Zenon DEF RInv, PoppedInv
      <4> QED BY Zenon, <4>1, <4>2
    <3> QED BY Zenon, <3>1, <3>2
  <2> QED BY Zenon, <2>2 DEF PoppedInv
<1>3. Chain(list, Backward(list))'
  <2>1. Chain(list, Backward(list))
    BY Zenon DEF RInv
  <2> QED BY Zenon, <2>1, ChainPrime
<1>4. p # None /\ lock \in Procs \cup {None}
  BY Zenon, ProcsDistinct DEF IInv, TypeOK
<1>5. popped' = popped
  <2>1. CASE lock = p
    BY Zenon, <1>4, <2>1, NoPopped DEF popped
  <2>2. CASE lock = None
    BY Zenon, <1>4, <2>2 DEF popped
  <2>3. CASE lock # None /\ lock # p
    BY Zenon, <1>4, <2>3 DEF popped
  <2> QED BY Zenon, <2>1, <2>2, <2>3
<1> QED BY Zenon, <1>1, <1>2, <1>3, <1>5, SameSeen DEF RInv

\* A process loads, or a poll begins, and may take the lock.
LEMMA LoadMove ==
    ASSUME IInv, RInv, NEW p \in Procs, pc[p] # "pop", NEW l, NEW w,
           pc' = [pc EXCEPT ![p] = l], l # "running",
           loc' = [loc EXCEPT ![p].cur = w] \/ loc' = [loc EXCEPT ![p].waker = w],
           UNCHANGED <<word, list, fut>>, lock' = lock \/ (lock = None /\ lock' = p),
           p \in Futures /\ l = "transition" => fut[p].since = word.calls
    PROVE  RInv' /\ Unseen
<1>1. loc \in [Procs -> LocalType] /\ pc \in [Procs -> TaskPCs \cup CallerPCs]
  BY Zenon DEF IInv, TypeOK
<1>2. loc'[p].popped = loc[p].popped /\ \A q \in Procs : q # p => loc'[q] = loc[q]
  BY Zenon, <1>1 DEF LocalType
<1>3. pc'[p] = l /\ \A q \in Procs : q # p => pc'[q] = pc[q]
  BY Zenon, <1>1
<1> QED BY Zenon, <1>2, <1>3, NoPopped, LocalMove

\* A process ends its call and nothing else changes.
LEMMA ReturnMove ==
    ASSUME IInv, RInv, NEW p \in Procs, pc[p] # "pop", NEW l,
           pc' = [pc EXCEPT ![p] = l], l # "running", l # "transition",
           loc' = [loc EXCEPT ![p] = Start], UNCHANGED <<word, lock, list, fut>>
    PROVE  RInv' /\ Unseen
<1>1. loc \in [Procs -> LocalType] /\ pc \in [Procs -> TaskPCs \cup CallerPCs]
  BY Zenon DEF IInv, TypeOK
<1>2. loc'[p].popped = <<>> /\ \A q \in Procs : q # p => loc'[q] = loc[q]
  BY Zenon, <1>1 DEF Start
<1>3. pc'[p] = l /\ \A q \in Procs : q # p => pc'[q] = pc[q]
  BY Zenon, <1>1
<1> QED BY Zenon, <1>2, <1>3, LocalMove

\* poll begins.
LEMMA PollNotifiedSeen ==
    ASSUME IInv, RInv, NEW f \in Futures, NEW waker \in {{}, {f}}, PollNotified(f, waker)
    PROVE  RInv' /\ Unseen
<1>1. f \in Procs /\ pc[f] # "pop"
  BY Zenon DEF Procs, PollNotified
<1>2. PICK l \in {"load", "look"} : pc' = [pc EXCEPT ![f] = l]
  BY Zenon DEF PollNotified, Goto
<1>3. loc' = [loc EXCEPT ![f].waker = waker] /\ UNCHANGED <<word, lock, list, fut>>
  BY Zenon DEF PollNotified
<1>4. l # "running" /\ l # "transition"
  BY Zenon, <1>2
<1> QED BY Zenon, <1>1, <1>2, <1>3, <1>4, LoadMove

\* The load of poll
LEMMA PollLoadSeen == ASSUME IInv, RInv, NEW f \in Futures, PollLoad(f) PROVE RInv' /\ Unseen
<1>1. f \in Procs /\ pc[f] # "pop"
  BY Zenon DEF Procs, PollLoad
<1>2. pc' = [pc EXCEPT ![f] = "try"] /\ loc' = [loc EXCEPT ![f].cur = word] /\ UNCHANGED <<word, lock, list, fut>>
  BY Zenon DEF PollLoad, Goto, Load
<1>3. "try" # "running" /\ "try" # "transition"
  BY Zenon
<1> QED BY Zenon, <1>1, <1>2, <1>3, LoadMove

\* notify_one begins.
LEMMA NotifyOneSeen == ASSUME IInv, RInv, NEW p \in Callers, NotifyOne(p) PROVE RInv' /\ Unseen
<1>1. p \in Procs /\ pc[p] # "pop"
  BY Zenon DEF Procs, NotifyOne
<1>2. pc' = [pc EXCEPT ![p] = "one"] /\ loc' = [loc EXCEPT ![p].cur = word] /\ UNCHANGED <<word, lock, list, fut>>
  BY Zenon DEF NotifyOne, Goto, Load
<1>3. "one" # "running" /\ "one" # "transition"
  BY Zenon
<1> QED BY Zenon, <1>1, <1>2, <1>3, LoadMove

\* notify_one takes the lock.
LEMMA NotifyOneLockSeen == ASSUME IInv, RInv, NEW p \in Procs, NotifyOneLock(p) PROVE RInv' /\ Unseen
<1>1. pc[p] # "pop" /\ lock = None /\ lock' = p
  BY Zenon DEF NotifyOneLock, Free
<1>2. pc' = [pc EXCEPT ![p] = "locked"] /\ loc' = [loc EXCEPT ![p].cur = word] /\ UNCHANGED <<word, list, fut>>
  BY Zenon DEF NotifyOneLock, Goto, Load
<1>3. "locked" # "running" /\ "locked" # "transition"
  BY Zenon
<1> QED BY Zenon, <1>1, <1>2, <1>3, LoadMove

\* Waking tasks is not seen.
LEMMA WakeSeen == ASSUME IInv, RInv, NEW p \in Procs, Wake(p) PROVE RInv' /\ Unseen
<1>1. pc[p] # "pop" /\ "idle" # "running" /\ "idle" # "transition"
  BY Zenon DEF Wake
<1>2. pc' = [pc EXCEPT ![p] = "idle"] /\ loc' = [loc EXCEPT ![p] = Start] /\ UNCHANGED <<word, lock, list, fut>>
  BY Zenon DEF Wake, Return, Goto
<1> QED BY Zenon, <1>1, <1>2, ReturnMove

\* A failed compare-exchange loads the state again, in the loops of poll and of notify_one.
LEMMA RetrySeen ==
    ASSUME IInv, RInv, NEW p \in Procs, pc[p] \in {"transition", "one"}, NEW allowed, Retry(p, allowed)
    PROVE  RInv' /\ Unseen
<1>1. pc[p] # "pop" /\ pc[p] # "running" /\ "panicked" # "running" /\ "panicked" # "transition"
  BY Zenon
<1>2. loc' = [loc EXCEPT ![p].cur = word] /\ UNCHANGED <<word, lock, list, fut>>
  BY Zenon DEF Retry, Load
<1>3. PICK l \in {pc[p], "panicked"} : pc' = [pc EXCEPT ![p] = l]
  BY Zenon DEF Retry, Goto
<1>4. p \in Futures /\ l = "transition" => fut[p].since = word.calls
  BY Zenon, <1>1, <1>3 DEF RInv, FutureInv
<1> QED BY Zenon, <1>1, <1>2, <1>3, <1>4, LoadMove

-----------------------------------------------------------------------------
(* Steps that end a call *)

\* A process that is not in notify_waiters takes or releases the lock.
LEMMA PoppedKept ==
    ASSUME IInv, RInv, NEW p \in Procs, pc[p] # "pop",
           \A q \in Procs : q # p => loc'[q] = loc[q], loc'[p].popped = <<>>,
           lock' = lock \/ (lock = None /\ lock' = p) \/ (lock = p /\ lock' = None)
    PROVE  popped' = popped
<1>1. p # None /\ lock \in Procs \cup {None}
  BY Zenon, ProcsDistinct DEF IInv, TypeOK
<1>2. CASE lock = p
  BY Zenon, <1>1, <1>2, NoPopped DEF popped
<1>3. CASE lock = None
  BY Zenon, <1>1, <1>3 DEF popped
<1>4. CASE lock # None /\ lock # p
  BY Zenon, <1>1, <1>4 DEF popped
<1> QED BY Zenon, <1>2, <1>3, <1>4

\* A step of p that changes its own future and perhaps notifies another
LEMMA OwnMove ==
    ASSUME IInv, RInv, NEW p \in Procs, pc[p] # "pop", word'.calls = word.calls,
           \A f \in Futures : f # p => /\ fut'[f].since = fut[f].since /\ fut'[f].st = fut[f].st
                                       /\ fut[f].notified = "all" => fut'[f].notified = "all",
           \A q \in Procs : q # p => pc'[q] = pc[q] /\ loc'[q] = loc[q],
           loc'[p].popped = <<>>, pc'[p] # "transition",
           p \in Futures /\ pc'[p] = "running" => fut'[p].st # "none",
           p \in Futures => fut'[p].st # "init" \/ fut'[p].since <= word.calls,
           \A q \in Procs : pc[q] = "pop" /\ p \in Futures => fut[p].st # "waiting",
           NEW l, NEW s, list' = l, Chain(l, s)
    PROVE  RInv'
<1>1. FutureInv'
  <2> SUFFICES ASSUME NEW f \in Futures
               PROVE  /\ pc'[f] = "running" => fut'[f].st # "none"
                      /\ fut'[f].st = "init" => fut'[f].since <= word'.calls
                      /\ pc'[f] = "transition" => fut'[f].since = word'.calls
    BY Zenon DEF FutureInv
  <2>1. CASE f = p
    BY Zenon, <2>1
  <2>2. CASE f # p
    <3>1. pc'[f] = pc[f] /\ fut'[f].since = fut[f].since /\ fut'[f].st = fut[f].st
      BY Zenon, <2>2 DEF Procs
    <3> QED BY Zenon, <3>1 DEF RInv, FutureInv
  <2> QED BY Zenon, <2>1, <2>2
<1>2. PoppedInv'
  <2>1. \A i : i \notin DOMAIN <<>>
    OBVIOUS
  <2> SUFFICES ASSUME NEW q \in Procs
               PROVE  /\ pc'[q] # "pop" => loc'[q].popped = <<>>
                      /\ \A i \in DOMAIN loc'[q].popped :
                            /\ fut'[loc'[q].popped[i]].st = "waiting"
                            /\ fut'[loc'[q].popped[i]].notified = "all"
    BY Zenon DEF PoppedInv
  <2>2. CASE q = p
    BY Zenon, <2>1, <2>2
  <2>3. CASE q # p
    <3>1. loc'[q] = loc[q] /\ pc'[q] = pc[q]
      BY Zenon, <2>3
    <3>2. /\ pc[q] # "pop" => loc[q].popped = <<>>
          /\ \A i \in DOMAIN loc[q].popped :
                fut[loc[q].popped[i]].st = "waiting" /\ fut[loc[q].popped[i]].notified = "all"
      BY Zenon DEF RInv, PoppedInv
    <3>3. ASSUME NEW i \in DOMAIN loc[q].popped
          PROVE  fut'[loc[q].popped[i]].st = "waiting" /\ fut'[loc[q].popped[i]].notified = "all"
      <4>1. pc[q] = "pop"
        BY Zenon, <2>1, <3>2
      <4>2. loc[q].popped[i] \in Futures
        BY DEF IInv, TypeOK, LocalType
      <4>3. loc[q].popped[i] # p
        BY Zenon, <3>2, <4>1, <4>2
      <4> QED BY Zenon, <3>2, <4>2, <4>3
    <3> QED BY <3>1, <3>2, <3>3
  <2> QED BY Zenon, <2>2, <2>3
<1> QED BY Zenon, <1>1, <1>2, ChainPrime DEF RInv

\* One future changes for those who can take the lock.
LEMMA OneSeen ==
    ASSUME NEW f \in Futures, word'.calls = word.calls, popped' = popped,
           \A g \in Futures : g # f => fut'[g] = fut[g]
    PROVE  abstractSt' = [abstractSt EXCEPT ![f] = Shown(fut'[f], word.calls, Leaving(f))]
<1>1. \A g : Leaving(g)' <=> Leaving(g)
  BY Zenon DEF Leaving
<1>2. abstractSt' = [g \in Futures |-> Shown(fut'[g], word'.calls, Leaving(g)')]
  BY Zenon DEF abstractSt, Shown
<1>3. \A g \in Futures : Shown(fut'[g], word'.calls, Leaving(g)') = IF g = f THEN Shown(fut'[f], word.calls, Leaving(f)) ELSE abstractSt[g]
  BY Zenon, <1>1 DEF abstractSt, Shown
<1>4. abstractSt = [g \in Futures |-> abstractSt[g]]
  BY Zenon DEF abstractSt
<1> QED BY Zenon, <1>2, <1>3, <1>4

\* A step of the abstract specification
Allowed == Promise!Next \/ Unseen

\* Nobody is in notify_waiters while the lock is free or p holds it elsewhere.
LEMMA NobodyPops ==
    ASSUME IInv, lock = None \/ \E p \in Procs : lock = p /\ pc[p] # "pop"
    PROVE  \A q \in Procs : pc[q] # "pop"
<1>1. \A q \in Procs : pc[q] = "pop" => lock = q
  BY Zenon DEF IInv, HolderInv, Holding
<1> QED BY Zenon, <1>1, ProcsDistinct

\* The queue, when the list is as it was
LEMMA QueueKept == ASSUME list' = list, popped' = popped PROVE abstractQueue' = abstractQueue
  BY Zenon, BackwardPrime DEF abstractQueue

\* A poll returns Ready.
LEMMA ReadySeen ==
    ASSUME IInv, RInv, NEW f \in Futures, pc[f] \in {"try", "lock", "transition", "look"}, Ready(f),
           word'.calls = word.calls, list' = list, lock' = lock \/ (lock = f /\ lock' = None),
           pc[f] = "look" => lock = None
    PROVE  /\ RInv' /\ abstractQueue' = abstractQueue
           /\ abstractSt' = [abstractSt EXCEPT ![f] = "done"]
<1>1. f \in Procs /\ pc[f] # "pop"
  BY Zenon DEF Procs
<1>2. /\ pc' = [pc EXCEPT ![f] = "running"] /\ loc' = [loc EXCEPT ![f] = Start]
      /\ fut' = [fut EXCEPT ![f] = [NoFuture EXCEPT !.st = "done"]]
  BY Zenon DEF Ready, Return, Goto
<1>3. /\ pc'[f] = "running" /\ loc'[f].popped = <<>>
      /\ \A q \in Procs : q # f => pc'[q] = pc[q] /\ loc'[q] = loc[q]
  BY Zenon, <1>1, <1>2 DEF IInv, TypeOK, Start
<1>4. fut'[f] \in FutureType /\ fut'[f].st = "done" /\ \A g \in Futures : g # f => fut'[g] = fut[g]
  <2>1. fut'[f] = [NoFuture EXCEPT !.st = "done"] /\ \A g \in Futures : g # f => fut'[g] = fut[g]
    BY Zenon, <1>2 DEF IInv, TypeOK
  <2>2. [NoFuture EXCEPT !.st = "done"].st = "done"
    BY Zenon DEF NoFuture
  <2> QED BY Zenon, <2>1, <2>2, FutureTypes
<1>5. \A q \in Procs : pc[q] = "pop" /\ f \in Futures => fut[f].st # "waiting"
  <2>1. CASE pc[f] = "look"
    BY Zenon, <2>1, NobodyPops
  <2>2. CASE pc[f] # "look"
    BY Zenon, <2>2 DEF IInv, PlaceInv
  <2> QED BY Zenon, <2>1, <2>2
<1>6. popped' = popped
  BY Zenon, <1>1, <1>3, PoppedKept
<1>7. Chain(list, Backward(list))
  BY Zenon DEF RInv
<1>8. pc'[f] # "transition" /\ fut'[f].st # "none" /\ fut'[f].st # "init"
  BY Zenon, <1>3, <1>4
<1>9. RInv'
  BY Zenon, <1>1, <1>3, <1>4, <1>5, <1>7, <1>8, OwnMove
<1>10. Shown(fut'[f], word.calls, Leaving(f)) = "done"
  BY Zenon, <1>4 DEF Shown
<1> QED BY Zenon, <1>4, <1>6, <1>9, <1>10, OneSeen, QueueKept

\* The abstract state of a future that has not waited
LEMMA InitSeen ==
    ASSUME IInv, NEW f \in Futures, fut[f].st = "init"
    PROVE  abstractSt[f] = IF Missed(f) THEN "called" ELSE "created"
  BY Zenon DEF abstractSt, Missed, Shown

\* A poll takes the permit without the lock.
LEMMA PollTrySeen == ASSUME IInv, RInv, NEW f \in Futures, PollTry(f) PROVE RInv' /\ Allowed
<1> DEFINE pending == set_state(loc[f].cur, "NOTIFIED")
<1>0. f \in Procs /\ word \in Words /\ loc[f].cur \in Words /\ pc[f] = "try"
  BY Zenon DEF PollTry, IInv, TypeOK, LocalType, Procs
<1>1. CASE word # pending
  <2>1. pc' = [pc EXCEPT ![f] = "lock"] /\ UNCHANGED <<word, lock, list, fut, loc>>
    BY Zenon, <1>1 DEF PollTry, Cas, Goto
  <2>2. /\ pc[f] # "pop" /\ pc'[f] # "running" /\ pc'[f] # "transition" /\ loc'[f].popped = <<>>
        /\ \A q \in Procs : q # f => pc'[q] = pc[q] /\ loc'[q] = loc[q]
    BY Zenon, <1>0, <2>1, NoPopped DEF IInv, TypeOK
  <2> QED BY Zenon, <1>0, <2>1, <2>2, LocalMove DEF Allowed
<1>2. CASE word = pending
  <2>1. /\ word.s = "NOTIFIED" /\ word' = set_state(pending, "EMPTY")
        /\ Ready(f) /\ UNCHANGED <<lock, list>>
    <3>1. pending.s = "NOTIFIED"
      BY Zenon, <1>0, WordTypes
    <3> QED BY Zenon, <1>2, <3>1 DEF PollTry, Cas
  <2>2. word'.s = "EMPTY" /\ word'.calls = word.calls
    BY Zenon, <1>0, <1>2, <2>1, WordTypes
  <2>3. RInv' /\ abstractQueue' = abstractQueue /\ abstractSt' = [abstractSt EXCEPT ![f] = "done"]
    BY Zenon, <1>0, <2>1, <2>2, ReadySeen
  <2>4. abstractSt[f] \in {"created", "called"}
    BY Zenon, <1>0, InitSeen DEF IInv, PlaceInv
  <2>5. abstractPermit /\ abstractPermit' = FALSE
    BY Zenon, <2>1, <2>2 DEF abstractPermit
  <2>6. Promise!TakePermit(f)
    BY Zenon, <2>3, <2>4, <2>5 DEF Promise!TakePermit
  <2> QED BY Zenon, <2>3, <2>6 DEF Allowed, Promise!Next
<1> QED BY Zenon, <1>1, <1>2

\* A poll completes after notify_waiters, or takes the lock.
LEMMA PollLockSeen == ASSUME IInv, RInv, NEW f \in Futures, PollLock(f) PROVE RInv' /\ Allowed
<1>0. f \in Procs /\ pc[f] = "lock" /\ lock = None /\ UNCHANGED <<word, list>> /\ fut[f].st = "init"
  BY Zenon DEF PollLock, Free, IInv, PlaceInv, Procs
<1>1. CASE Missed(f)
  <2>1. Ready(f) /\ lock' = lock
    BY Zenon, <1>1 DEF PollLock
  <2>2. RInv' /\ abstractQueue' = abstractQueue /\ abstractSt' = [abstractSt EXCEPT ![f] = "done"]
    BY Zenon, <1>0, <2>1, ReadySeen
  <2>3. abstractSt[f] \in {"called", "one", "all"}
    BY Zenon, <1>0, <1>1, InitSeen
  <2>4. abstractPermit' = abstractPermit
    BY Zenon, <1>0 DEF abstractPermit
  <2>5. Promise!Complete(f)
    BY Zenon, <2>2, <2>3, <2>4 DEF Promise!Complete
  <2> QED BY Zenon, <2>2, <2>5 DEF Allowed, Promise!Next
<1>2. CASE ~Missed(f)
  <2>1. /\ lock' = f /\ loc' = [loc EXCEPT ![f].cur = word] /\ pc' = [pc EXCEPT ![f] = "transition"]
        /\ fut' = fut
    BY Zenon, <1>2 DEF PollLock, Load, Goto
  <2>2. pc[f] # "pop" /\ "transition" # "running" /\ fut[f].since = word.calls
    BY Zenon, <1>0, <1>2 DEF Missed
  <2> QED BY Zenon, <1>0, <2>1, <2>2, LoadMove DEF Allowed
<1> QED BY Zenon, <1>1, <1>2

\* A later poll completes when the future has been notified.
LEMMA PollWaitingSeen == ASSUME IInv, RInv, NEW f \in Futures, PollWaiting(f) PROVE RInv' /\ Allowed
<1>0. /\ f \in Procs /\ pc[f] = "look" /\ lock = None /\ UNCHANGED <<word, lock, list>>
      /\ fut[f] \in FutureType /\ fut[f].st = "waiting"
  BY Zenon DEF PollWaiting, Free, IInv, TypeOK, PlaceInv, Procs
<1>1. \A q \in Procs : pc[q] # "pop"
  BY Zenon, <1>0, NobodyPops
<1>2. popped = <<>> /\ ~Leaving(f)
  <2>1. popped = <<>> /\ \A i : i \notin DOMAIN <<>>
    BY <1>1, NonePopped
  <2> QED BY Zenon, <2>1 DEF Leaving
<1>3. CASE fut[f].notified # "no"
  <2>1. Ready(f)
    BY Zenon, <1>3 DEF PollWaiting
  <2>2. RInv' /\ abstractQueue' = abstractQueue /\ abstractSt' = [abstractSt EXCEPT ![f] = "done"]
    BY Zenon, <1>0, <2>1, ReadySeen
  <2>3. abstractSt[f] \in {"called", "one", "all"}
    <3>1. fut[f].notified \in {"one", "all"}
      BY Zenon, <1>0, <1>3 DEF FutureType
    <3> QED BY Zenon, <1>0, <1>2, <3>1 DEF abstractSt, Shown
  <2>4. abstractPermit' = abstractPermit
    BY Zenon, <1>0 DEF abstractPermit
  <2>5. Promise!Complete(f)
    BY Zenon, <2>2, <2>3, <2>4 DEF Promise!Complete
  <2> QED BY Zenon, <2>2, <2>5 DEF Allowed, Promise!Next
<1>4. CASE fut[f].notified = "no"
  <2>1. PICK a \in {"parked", "running"} : pc' = [pc EXCEPT ![f] = a]
    BY Zenon, <1>4 DEF PollWaiting, Return, Goto
  <2>2. fut' = [fut EXCEPT ![f].waker = Registers(f)] /\ loc' = [loc EXCEPT ![f] = Start]
    BY Zenon, <1>4 DEF PollWaiting, Return
  <2>3. /\ pc'[f] = a /\ loc'[f].popped = <<>>
        /\ \A q \in Procs : q # f => pc'[q] = pc[q] /\ loc'[q] = loc[q]
    BY Zenon, <1>0, <2>1, <2>2 DEF IInv, TypeOK, Start
  <2>4. /\ fut'[f].st = "waiting" /\ fut'[f].notified = "no"
        /\ \A g \in Futures : g # f => fut'[g] = fut[g]
    <3>1. fut'[f] = [fut[f] EXCEPT !.waker = Registers(f)] /\ \A g \in Futures : g # f => fut'[g] = fut[g]
      BY Zenon, <2>2 DEF IInv, TypeOK
    <3> QED BY Zenon, <1>0, <1>4, <3>1 DEF FutureType
  <2>5. popped' = popped
    BY Zenon, <1>0, <2>3, PoppedKept
  <2>6. Chain(list, Backward(list))
    BY Zenon DEF RInv
  <2>7. pc[f] # "pop" /\ a # "transition" /\ fut'[f].st # "none" /\ fut'[f].st # "init"
    BY Zenon, <1>0, <2>1, <2>4
  <2>8. RInv'
    BY Zenon, <1>0, <1>1, <2>3, <2>4, <2>6, <2>7, OwnMove
  <2>9. abstractSt' = abstractSt
    <3>1. Shown(fut'[f], word.calls, Leaving(f)) = "queued"
      BY Zenon, <2>4 DEF Shown
    <3>2. abstractSt[f] = "queued" /\ abstractSt = [abstractSt EXCEPT ![f] = abstractSt[f]]
      BY Zenon, <1>0, <1>4 DEF abstractSt, Shown
    <3>3. abstractSt' = [abstractSt EXCEPT ![f] = Shown(fut'[f], word.calls, Leaving(f))]
      BY Zenon, <1>0, <2>4, <2>5, OneSeen
    <3> QED BY Zenon, <3>1, <3>2, <3>3
  <2> QED BY Zenon, <1>0, <2>5, <2>8, <2>9, QueueKept DEF Allowed, Unseen, abstractPermit
<1> QED BY Zenon, <1>3, <1>4

\* The future joins the queue.
LEMMA PendingSeen ==
    ASSUME IInv, RInv, NEW f \in Futures, pc[f] = "transition", Pending(f),
           word.s # "NOTIFIED", word'.s = "WAITING", word'.calls = word.calls
    PROVE  RInv' /\ Allowed
<1>0. /\ f \in Procs /\ lock = f /\ fut[f] \in FutureType /\ fut[f].st = "init"
      /\ fut[f].notified = "no" /\ list \in Lists /\ Linked(list)
  BY Zenon DEF IInv, TypeOK, HolderInv, Holding, PlaceInv, ListInv, Procs
<1>1. ~Listed(list, f) /\ list.head # f
  BY Zenon, <1>0 DEF IInv, ListInv, Listed
<1>2. \A q \in Procs : pc[q] # "pop"
  <2>1. pc[f] # "pop"
    BY Zenon
  <2> QED BY Zenon, <1>0, <2>1, NobodyPops
<1>3. popped = <<>> /\ abstractQueue = Backward(list)
  BY Zenon, <1>2, NonePopped
<1>4. /\ Backward(list) \in Seq(Nodes) /\ f \in Nodes
      /\ Chain(PushFront(list, f), Append(Backward(list), f))
  <2>1. Chain(list, Backward(list)) /\ f \in Nodes
    BY Zenon DEF RInv, Futures
  <2>2. Backward(list) \in Seq(Nodes)
    BY Zenon, <2>1 DEF Chain
  <2> QED BY Zenon, <1>0, <1>1, <2>1, <2>2, PushChain
<1>5. list' = PushFront(list, f) /\ lock' = None /\ loc' = [loc EXCEPT ![f] = Start]
  BY Zenon DEF Pending, Return
<1>6. PICK a \in {"parked", "running"} : pc' = [pc EXCEPT ![f] = a]
  BY Zenon, <1>1 DEF Pending, Return, Goto
<1>7. /\ pc'[f] = a /\ loc'[f].popped = <<>>
      /\ \A q \in Procs : q # f => pc'[q] = pc[q] /\ loc'[q] = loc[q]
  BY Zenon, <1>0, <1>5, <1>6 DEF IInv, TypeOK, Start
<1>8. /\ fut'[f].st = "waiting" /\ fut'[f].notified = "no"
      /\ \A g \in Futures : g # f => fut'[g] = fut[g]
  <2>1. fut' = [fut EXCEPT ![f] = [fut[f] EXCEPT !.st = "waiting", !.waker = loc[f].waker]]
    BY Zenon, <1>0 DEF Pending, IInv, TypeOK, FutureType
  <2>2. /\ [fut[f] EXCEPT !.st = "waiting", !.waker = loc[f].waker].st = "waiting"
        /\ [fut[f] EXCEPT !.st = "waiting", !.waker = loc[f].waker].notified = "no"
    BY Zenon, <1>0 DEF FutureType
  <2> QED BY Zenon, <2>1, <2>2 DEF IInv, TypeOK
<1>9. pc[f] # "pop" /\ a # "transition" /\ fut'[f].st # "none" /\ fut'[f].st # "init"
  BY Zenon, <1>6, <1>8
<1>10. RInv'
  BY Zenon, <1>0, <1>2, <1>4, <1>5, <1>7, <1>8, <1>9, OwnMove
<1>11. popped' = popped
  BY Zenon, <1>0, <1>5, <1>7, <1>9, PoppedKept
<1>12. abstractQueue' = Append(abstractQueue, f)
  <2>1. Backward(list)' = Append(Backward(list), f)
    BY Zenon, <1>4, <1>5, ChainPrime
  <2>2. Append(Backward(list), f) \in Seq(Nodes)
    BY Zenon, <1>4 DEF Chain
  <2>3. abstractQueue' = <<>> \o Append(Backward(list), f)
    BY Zenon, <1>3, <1>11, <2>1 DEF abstractQueue
  <2> QED BY Zenon, <1>3, <2>2, <2>3, EmptyConcat
<1>13. abstractSt' = [abstractSt EXCEPT ![f] = "queued"]
  <2>1. Shown(fut'[f], word.calls, Leaving(f)) = "queued"
    BY Zenon, <1>8 DEF Shown
  <2>2. abstractSt' = [abstractSt EXCEPT ![f] = Shown(fut'[f], word.calls, Leaving(f))]
    BY Zenon, <1>8, <1>11, OneSeen
  <2> QED BY Zenon, <2>1, <2>2
<1>14. abstractSt[f] = "created"
  <2>1. ~Missed(f)
    BY Zenon DEF RInv, FutureInv, Missed
  <2> QED BY Zenon, <1>0, <2>1, InitSeen
<1>15. ~abstractPermit /\ abstractPermit' = abstractPermit
  BY Zenon DEF abstractPermit
<1>16. Promise!Enqueue(f)
  BY Zenon, <1>12, <1>13, <1>14, <1>15 DEF Promise!Enqueue
<1> QED BY Zenon, <1>10, <1>16 DEF Allowed, Promise!Next

\* The loop of poll that transitions to WAITING
LEMMA PollTransitionSeen == ASSUME IInv, RInv, NEW f \in Futures, PollTransition(f) PROVE RInv' /\ Allowed
<1>0. /\ f \in Procs /\ lock = f /\ word \in Words /\ loc[f].cur \in Words /\ pc[f] = "transition"
      /\ (loc[f].cur.s = "WAITING" <=> word.s = "WAITING")
  BY Zenon DEF PollTransition, IInv, TypeOK, LocalType, HolderInv, Holding, Procs
<1>1. CASE Retry(f, {"NOTIFIED"}) \/ Retry(f, {"EMPTY"})
  BY Zenon, <1>0, <1>1, RetrySeen DEF Allowed
<1>2. CASE loc[f].cur.s = "WAITING" /\ Pending(f) /\ word' = word
  <2>1. word.s # "NOTIFIED"
    BY Zenon, <1>0, <1>2
  <2> QED BY Zenon, <1>0, <1>2, <2>1, PendingSeen
<1>3. CASE loc[f].cur.s = "EMPTY" /\ Cas(loc[f].cur, set_state(loc[f].cur, "WAITING")) /\ Pending(f)
  <2>1. word.s = "EMPTY" /\ word'.s = "WAITING" /\ word'.calls = word.calls
    BY Zenon, <1>0, <1>3, WordTypes DEF Cas
  <2>2. word.s # "NOTIFIED"
    BY Zenon, <2>1
  <2> QED BY Zenon, <1>0, <1>3, <2>1, <2>2, PendingSeen
<1>4. CASE /\ loc[f].cur.s = "NOTIFIED" /\ Cas(loc[f].cur, set_state(loc[f].cur, "EMPTY"))
           /\ Ready(f) /\ lock' = None /\ UNCHANGED list
  <2>1. word.s = "NOTIFIED" /\ word'.s = "EMPTY" /\ word'.calls = word.calls
    BY Zenon, <1>0, <1>4, WordTypes DEF Cas
  <2>2. RInv' /\ abstractQueue' = abstractQueue /\ abstractSt' = [abstractSt EXCEPT ![f] = "done"]
    BY Zenon, <1>0, <1>4, <2>1, ReadySeen
  <2>3. abstractSt[f] \in {"created", "called"}
    BY Zenon, <1>0, InitSeen DEF IInv, PlaceInv
  <2>4. abstractPermit /\ abstractPermit' = FALSE
    BY Zenon, <2>1 DEF abstractPermit
  <2>5. Promise!TakePermit(f)
    BY Zenon, <2>2, <2>3, <2>4 DEF Promise!TakePermit
  <2> QED BY Zenon, <2>2, <2>5 DEF Allowed, Promise!Next
<1> QED BY Zenon, <1>1, <1>2, <1>3, <1>4 DEF PollTransition

\* notified() creates a future.
LEMMA NotifiedSeen == ASSUME IInv, RInv, NEW f \in Futures, Notified(f) PROVE RInv' /\ Allowed
<1>0. /\ f \in Procs /\ pc[f] = "idle" /\ fut[f].st = "none" /\ word.calls \in Nat
      /\ UNCHANGED <<word, lock, list, loc>>
  BY Zenon DEF Notified, IInv, TypeOK, Words, PlaceInv, Procs
<1>1. /\ pc' = [pc EXCEPT ![f] = "running"]
      /\ fut' = [fut EXCEPT ![f] = [NoFuture EXCEPT !.st = "init", !.since = word.calls]]
  BY Zenon DEF Notified, Goto
<1>2. /\ fut'[f].st = "init" /\ fut'[f].since = word.calls
      /\ \A g \in Futures : g # f => fut'[g] = fut[g]
  <2>1. /\ [NoFuture EXCEPT !.st = "init", !.since = word.calls].st = "init"
        /\ [NoFuture EXCEPT !.st = "init", !.since = word.calls].since = word.calls
    BY Zenon DEF NoFuture
  <2> QED BY Zenon, <1>1, <2>1 DEF IInv, TypeOK
<1>3. /\ pc[f] # "pop" /\ pc'[f] # "transition" /\ loc'[f].popped = <<>>
      /\ \A q \in Procs : q # f => pc'[q] = pc[q] /\ loc'[q] = loc[q]
  <2>1. "idle" # "pop" /\ "running" # "transition"
    BY Zenon
  <2>2. pc'[f] = "running" /\ \A q \in Procs : q # f => pc'[q] = pc[q]
    BY Zenon, <1>0, <1>1 DEF IInv, TypeOK
  <2>3. loc[f].popped = <<>> /\ loc' = loc
    BY Zenon, <1>0, <2>1, NoPopped
  <2> QED BY Zenon, <1>0, <2>1, <2>2, <2>3
<1>4. Chain(list, Backward(list)) /\ word.calls <= word.calls
  <2>1. word.calls <= word.calls
    BY <1>0
  <2> QED BY Zenon, <2>1 DEF RInv
<1>5. fut'[f].st # "none" /\ fut[f].st # "waiting" /\ fut'[f].since <= word.calls
  BY Zenon, <1>0, <1>2, <1>4
<1>6. RInv'
  BY Zenon, <1>0, <1>2, <1>3, <1>4, <1>5, OwnMove
<1>7. popped' = popped
  BY Zenon, <1>0, <1>3, PoppedKept
<1>8. abstractSt' = [abstractSt EXCEPT ![f] = "created"]
  <2>1. Shown(fut'[f], word.calls, Leaving(f)) = "created"
    BY Zenon, <1>2 DEF Shown
  <2>2. abstractSt' = [abstractSt EXCEPT ![f] = Shown(fut'[f], word.calls, Leaving(f))]
    BY Zenon, <1>0, <1>2, <1>7, OneSeen
  <2> QED BY Zenon, <2>1, <2>2
<1>9. abstractSt[f] = "none"
  BY Zenon, <1>0 DEF abstractSt, Shown
<1>10. abstractPermit' = abstractPermit /\ abstractQueue' = abstractQueue
  BY Zenon, <1>0, <1>7, QueueKept DEF abstractPermit
<1>11. Promise!Create(f)
  BY Zenon, <1>8, <1>9, <1>10 DEF Promise!Create
<1> QED BY Zenon, <1>6, <1>11 DEF Allowed, Promise!Next

-----------------------------------------------------------------------------
(* Notifications *)

\* Nobody waits when the state is not WAITING.
LEMMA NobodyWaits ==
    ASSUME IInv, RInv, word.s # "WAITING"
    PROVE  /\ \A q \in Procs : pc[q] # "pop"
           /\ popped = <<>> /\ abstractQueue = <<>> /\ list.head = None
<1>1. \A q \in Procs : pc[q] # "pop"
  BY Zenon DEF IInv, HolderInv
<1>2. popped = <<>> /\ abstractQueue = Backward(list) /\ list.head = None
  BY Zenon, <1>1, NonePopped DEF IInv, ListInv
<1>3. Backward(list) = <<>>
  <2> DEFINE q == Backward(list)
  <2>1. q \in Seq(Nodes) /\ (list.head = IF Len(q) = 0 THEN None ELSE q[Len(q)])
    BY Zenon DEF RInv, Chain
  <2> HIDE DEF q
  <2>2. CASE Len(q) # 0
    <3>1. q[Len(q)] \in Nodes
      BY <2>1, <2>2
    <3> QED BY Zenon, <1>2, <2>1, <2>2, <3>1, NoneIsNoNode
  <2>3. CASE Len(q) = 0
    <3>1. q = <<>>
      BY <2>1, <2>3
    <3> QED BY Zenon, <3>1 DEF q
  <2> QED BY Zenon, <2>2, <2>3
<1> QED BY Zenon, <1>1, <1>2, <1>3

\* notify_one stores its permit, or loads the state again.
LEMMA NotifyOneTrySeen == ASSUME IInv, RInv, NEW p \in Procs, NotifyOneTry(p) PROVE RInv' /\ Allowed
<1>0. pc[p] = "one" /\ p \notin Futures /\ loc[p].cur \in Words /\ loc[p].cur.s # "WAITING"
  BY Zenon DEF NotifyOneTry, IInv, TypeOK, LocalType, PlaceInv, TaskPCs
<1>1. CASE Retry(p, {"EMPTY", "NOTIFIED", "WAITING"})
  BY Zenon, <1>0, <1>1, RetrySeen DEF Allowed
<1>2. CASE /\ Cas(loc[p].cur, set_state(loc[p].cur, "NOTIFIED")) /\ Return(p, "idle")
           /\ UNCHANGED <<lock, list, fut>>
  <2>1. word.s # "WAITING" /\ word'.s = "NOTIFIED" /\ word'.calls = word.calls
    BY Zenon, <1>0, <1>2, WordTypes DEF Cas
  <2>2. /\ pc[p] # "pop" /\ pc'[p] # "transition" /\ loc'[p].popped = <<>>
        /\ \A q \in Procs : q # p => pc'[q] = pc[q] /\ loc'[q] = loc[q]
    BY Zenon, <1>0, <1>2 DEF Return, Goto, Start, IInv, TypeOK
  <2>3. Chain(list, Backward(list))
    BY Zenon DEF RInv
  <2>4. RInv'
    BY Zenon, <1>0, <1>2, <2>1, <2>2, <2>3, OwnMove
  <2>5. popped' = popped
    BY Zenon, <1>2, <2>2, PoppedKept
  <2>6. abstractSt' = abstractSt
    <3>1. \A g : Leaving(g)' <=> Leaving(g)
      BY Zenon, <2>5 DEF Leaving
    <3> QED BY Zenon, <1>2, <2>1, <3>1 DEF abstractSt, Shown
  <2>7. abstractQueue = <<>> /\ abstractQueue' = abstractQueue
    BY Zenon, <1>2, <2>1, <2>5, NobodyWaits, QueueKept
  <2>8. abstractPermit' = TRUE
    BY Zenon, <2>1 DEF abstractPermit
  <2>9. Promise!NotifyOne
    BY Zenon, <2>6, <2>7, <2>8 DEF Promise!NotifyOne, Promise!Give
  <2> QED BY Zenon, <2>4, <2>9 DEF Allowed, Promise!Next
<1> QED BY Zenon, <1>1, <1>2 DEF NotifyOneTry

\* Releasing the lock
LEMMA UnlockSeen ==
    ASSUME IInv, NEW p \in Procs, NEW wakes, Unlock(p, wakes)
    PROVE  /\ lock' = None /\ loc'[p].popped = <<>>
           /\ pc'[p] \in {"idle", "wake"}
           /\ \A q \in Procs : q # p => pc'[q] = pc[q] /\ loc'[q] = loc[q]
<1>1. lock' = None /\ \E a \in {"idle", "wake"} : pc' = [pc EXCEPT ![p] = a]
  BY Zenon DEF Unlock, Return, Goto
<1>2. PICK x : loc' = [loc EXCEPT ![p] = x] /\ x.popped = <<>>
  <2>1. Start.popped = <<>> /\ [Start EXCEPT !.wakes = wakes].popped = <<>>
    BY Zenon DEF Start
  <2> QED BY Zenon, <2>1 DEF Unlock, Return
<1> QED BY Zenon, <1>1, <1>2 DEF IInv, TypeOK

\* The abstract state of the futures when nothing is popped and notify_waiters is not called
LEMMA AllSeen ==
    ASSUME word'.calls = word.calls, popped' = popped
    PROVE  abstractSt' = [g \in Futures |-> Shown(fut'[g], word.calls, Leaving(g))]
<1>1. \A g : Leaving(g)' <=> Leaving(g)
  BY Zenon DEF Leaving
<1> QED BY Zenon, <1>1 DEF abstractSt, Shown

\* Without a waiter the permit is stored, by a caller of notify_one or by a task that drops
\* a future with a notification.
LEMMA StoredSeen ==
    ASSUME IInv, RInv, NEW p \in Procs, pc[p] \in {"locked", "store"}, word.s # "WAITING",
           word'.s = "NOTIFIED", word'.calls = word.calls, list' = list,
           fut' = Ended(p, fut), Unlock(p, {})
    PROVE  RInv' /\ Allowed
<1>0. pc[p] # "pop" /\ lock = p
  BY Zenon DEF IInv, HolderInv, Holding
<1>1. /\ lock' = None /\ loc'[p].popped = <<>> /\ pc'[p] # "transition" /\ pc'[p] # "running"
      /\ \A q \in Procs : q # p => pc'[q] = pc[q] /\ loc'[q] = loc[q]
  <2>1. /\ lock' = None /\ loc'[p].popped = <<>> /\ pc'[p] \in {"idle", "wake"}
        /\ \A q \in Procs : q # p => pc'[q] = pc[q] /\ loc'[q] = loc[q]
    BY Zenon, UnlockSeen
  <2> QED BY Zenon, <2>1
<1>2. /\ \A f \in Futures : f # p => fut'[f] = fut[f]
      /\ p \in Futures => fut'[p].st = "none" /\ fut'[p].notified = "no"
  BY Zenon, EndedEffect DEF IInv, TypeOK
<1>3. /\ \A q \in Procs : pc[q] # "pop"
      /\ abstractQueue = <<>>
  BY Zenon, NobodyWaits
<1>4. Chain(list, Backward(list))
  BY Zenon DEF RInv
<1>5. p \in Futures => fut'[p].st # "init"
  BY Zenon, <1>2
<1>6. RInv'
  BY Zenon, <1>0, <1>1, <1>2, <1>3, <1>4, <1>5, OwnMove
<1>7. popped' = popped
  BY Zenon, <1>0, <1>1, PoppedKept
<1>8. abstractPermit' = TRUE /\ abstractQueue' = abstractQueue
  BY Zenon, <1>7, QueueKept DEF abstractPermit
<1>9. CASE p \in Futures
  <2>1. abstractSt[p] = "one"
    <3>1. fut[p].st = "waiting" /\ fut[p].notified = "one"
      BY Zenon, <1>9 DEF IInv, PlaceInv
    <3> QED BY Zenon, <1>9, <3>1 DEF abstractSt, Shown
  <2>2. abstractSt' = [abstractSt EXCEPT ![p] = "none"]
    <3>1. Shown(fut'[p], word.calls, Leaving(p)) = "none"
      BY Zenon, <1>2, <1>9 DEF Shown
    <3>2. abstractSt' = [abstractSt EXCEPT ![p] = Shown(fut'[p], word.calls, Leaving(p))]
      BY Zenon, <1>2, <1>7, <1>9, OneSeen
    <3> QED BY Zenon, <3>1, <3>2
  <2>3. Promise!Drop(p)
    BY Zenon, <1>3, <1>8, <2>1, <2>2 DEF Promise!Drop, Promise!Give
  <2> QED BY Zenon, <1>6, <1>9, <2>3 DEF Allowed, Promise!Next
<1>10. CASE p \notin Futures
  <2>1. abstractSt' = abstractSt
    BY Zenon, <1>2, <1>7, <1>10, AllSeen DEF abstractSt
  <2>2. Promise!NotifyOne
    BY Zenon, <1>3, <1>8, <2>1 DEF Promise!NotifyOne, Promise!Give
  <2> QED BY Zenon, <1>6, <2>2 DEF Allowed, Promise!Next
<1> QED BY Zenon, <1>9, <1>10

\* The store of notify_locked after its exchange has failed
LEMMA NotifyStoreSeen == ASSUME IInv, RInv, NEW p \in Procs, NotifyStore(p) PROVE RInv' /\ Allowed
<1>1. /\ loc[p].cur \in Words /\ word.s # "WAITING" /\ pc[p] = "store"
      /\ loc[p].cur.calls = word.calls
  BY Zenon DEF IInv, TypeOK, LocalType, HolderInv, Holding, NotifyStore
<1>2. word'.s = "NOTIFIED" /\ word'.calls = word.calls
  BY Zenon, <1>1, WordTypes DEF NotifyStore
<1> QED BY Zenon, <1>1, <1>2, StoredSeen DEF NotifyStore

\* The oldest waiter is notified.
LEMMA NotifyOldestSeen ==
    ASSUME IInv, RInv, NEW p \in Procs, pc[p] = "locked", loc[p].cur.s = "WAITING", NotifyOldest(p)
    PROVE  RInv' /\ Allowed
<1> DEFINE w == list.tail
           l == PopBack(list)
           gs == [fut EXCEPT ![w].notified = "one", ![w].waker = {}]
<1>1. lock = p /\ word \in Words /\ word.s = "WAITING" /\ pc[p] # "pop"
  BY Zenon DEF IInv, TypeOK, HolderInv, Holding
<1>2. \A q \in Procs : pc[q] # "pop"
  BY Zenon, <1>1, NobodyPops
<1>3. list \in Lists /\ Linked(list) /\ w # None
  BY Zenon, <1>1, <1>2 DEF IInv, TypeOK, ListInv, Linked
<1>4. w \in Futures /\ Listed(list, w)
  BY Zenon, <1>3, PopBackLinked DEF Futures
<1>5. fut[w] \in FutureType /\ fut[w].st = "waiting" /\ fut[w].notified = "no" /\ w # p
  <2>1. fut[w] \in FutureType /\ fut[w].st = "waiting" /\ fut[w].notified = "no"
    BY Zenon, <1>4 DEF IInv, TypeOK, ListInv
  <2> QED BY Zenon, <1>4, <2>1 DEF IInv, PlaceInv
<1>6. /\ list' = l /\ word' = WordAfterPop(l)
      /\ fut' = Ended(p, gs) /\ Unlock(p, fut[w].waker)
  BY Zenon, <1>3, <1>5 DEF NotifyOldest
<1>7. /\ gs \in [Futures -> FutureType]
      /\ gs[w].st = "waiting" /\ gs[w].notified = "one" /\ gs[w].since = fut[w].since
      /\ \A f \in Futures : f # w => gs[f] = fut[f]
  <2>1. gs = [fut EXCEPT ![w] = [fut[w] EXCEPT !.notified = "one", !.waker = {}]]
    BY <1>4, <1>5, Zenon DEF IInv, TypeOK, FutureType
  <2>2. [fut[w] EXCEPT !.notified = "one", !.waker = {}] \in FutureType
    BY <1>5, Zenon DEF FutureType
  <2>3. /\ [fut[w] EXCEPT !.notified = "one", !.waker = {}].st = "waiting"
        /\ [fut[w] EXCEPT !.notified = "one", !.waker = {}].notified = "one"
        /\ [fut[w] EXCEPT !.notified = "one", !.waker = {}].since = fut[w].since
    BY Zenon, <1>5 DEF FutureType
  <2> HIDE DEF gs, w
  <2> QED BY Zenon, <1>4, <2>1, <2>2, <2>3 DEF IInv, TypeOK
<1>8. word'.calls = word.calls /\ abstractPermit' = abstractPermit
  <2>1. word'.calls = word.calls /\ word'.s \in {"EMPTY", "WAITING"}
    BY Zenon, <1>1, <1>6, WordTypes DEF WordAfterPop
  <2> QED BY Zenon, <1>1, <2>1 DEF abstractPermit
<1>9. /\ Backward(list) # <<>> /\ Head(Backward(list)) = w /\ Chain(l, Tail(Backward(list)))
  <2>1. Chain(list, Backward(list))
    BY Zenon DEF RInv
  <2> QED BY Zenon, <1>3, <2>1, PopChain
<1>10. popped = <<>> /\ abstractQueue = Backward(list)
  BY Zenon, <1>2, NonePopped
<1>11. /\ lock' = None /\ loc'[p].popped = <<>> /\ pc'[p] # "transition" /\ pc'[p] # "running"
       /\ \A q \in Procs : q # p => pc'[q] = pc[q] /\ loc'[q] = loc[q]
  <2>1. /\ lock' = None /\ loc'[p].popped = <<>> /\ pc'[p] \in {"idle", "wake"}
        /\ \A q \in Procs : q # p => pc'[q] = pc[q] /\ loc'[q] = loc[q]
    BY Zenon, <1>6, UnlockSeen
  <2> QED BY Zenon, <2>1
<1> HIDE DEF w, l, gs
<1>12. popped' = popped
  BY Zenon, <1>1, <1>11, PoppedKept
<1>13. abstractQueue' = Tail(abstractQueue)
  <2>1. Backward(list)' = Tail(Backward(list))
    BY Zenon, <1>6, <1>9, ChainPrime
  <2>2. Tail(Backward(list)) \in Seq(Nodes)
    BY Zenon, <1>9 DEF Chain
  <2>3. abstractQueue' = <<>> \o Tail(Backward(list))
    BY Zenon, <1>10, <1>12, <2>1 DEF abstractQueue
  <2> QED BY Zenon, <1>10, <2>2, <2>3, EmptyConcat
<1>14. /\ \A f \in Futures : f # p => fut'[f] = gs[f]
       /\ p \in Futures => fut'[p].st = "none" /\ fut'[p].notified = "no"
  BY Zenon, <1>6, <1>7, EndedEffect
<1>15. RInv'
  <2>1. \A f \in Futures : f # p => /\ fut'[f].since = fut[f].since /\ fut'[f].st = fut[f].st
                                    /\ fut[f].notified = "all" => fut'[f].notified = "all"
    BY Zenon, <1>4, <1>5, <1>7, <1>14
  <2>2. p \in Futures => fut'[p].st # "init"
    BY Zenon, <1>14
  <2> QED BY Zenon, <1>1, <1>2, <1>6, <1>8, <1>9, <1>11, <2>1, <2>2, OwnMove
<1>16. /\ abstractSt' = [g \in Futures |-> Shown(fut'[g], word.calls, Leaving(g))]
       /\ Shown(fut'[w], word.calls, Leaving(w)) = "one"
       /\ \A g \in Futures : g # w /\ g # p => Shown(fut'[g], word.calls, Leaving(g)) = abstractSt[g]
       /\ p \in Futures => Shown(fut'[p], word.calls, Leaving(p)) = "none"
  <2>1. abstractSt' = [g \in Futures |-> Shown(fut'[g], word.calls, Leaving(g))]
    BY Zenon, <1>8, <1>12, AllSeen
  <2>2. fut'[w].st = "waiting" /\ fut'[w].notified = "one"
    BY Zenon, <1>4, <1>5, <1>7, <1>14
  <2>3. Shown(fut'[w], word.calls, Leaving(w)) = "one"
    BY Zenon, <2>2 DEF Shown
  <2>4. \A g \in Futures : g # w /\ g # p => Shown(fut'[g], word.calls, Leaving(g)) = abstractSt[g]
    BY Zenon, <1>7, <1>14 DEF abstractSt
  <2>5. p \in Futures => Shown(fut'[p], word.calls, Leaving(p)) = "none"
    BY Zenon, <1>14 DEF Shown
  <2> QED BY Zenon, <2>1, <2>3, <2>4, <2>5
<1>17. abstractQueue # <<>> /\ Head(abstractQueue) = w /\ DOMAIN abstractSt = Futures
  BY Zenon, <1>9, <1>10 DEF abstractSt
<1>18. CASE p \in Futures
  <2> DEFINE s == [abstractSt EXCEPT ![p] = "none"]
  <2>1. abstractSt[p] = "one"
    <3>1. fut[p].st = "waiting" /\ fut[p].notified = "one"
      BY Zenon, <1>18 DEF IInv, PlaceInv
    <3> QED BY Zenon, <1>18, <3>1 DEF abstractSt, Shown
  <2>2. abstractSt' = [s EXCEPT ![w] = "one"]
    <3>1. s = [g \in Futures |-> IF g = p THEN "none" ELSE abstractSt[g]]
      BY Zenon, <1>17, <1>18
    <3> HIDE DEF s
    <3>2. [s EXCEPT ![w] = "one"] = [g \in Futures |-> IF g = w THEN "one" ELSE s[g]]
      BY Zenon, <1>4, <3>1
    <3>3. \A g \in Futures : Shown(fut'[g], word.calls, Leaving(g)) = IF g = w THEN "one" ELSE s[g]
      BY Zenon, <1>16, <1>18, <3>1
    <3> QED BY Zenon, <1>16, <3>2, <3>3
  <2>3. Promise!Give(s)
    BY Zenon, <1>8, <1>13, <1>17, <2>2 DEF Promise!Give
  <2>4. Promise!Drop(p)
    BY Zenon, <2>1, <2>3 DEF Promise!Drop
  <2> QED BY Zenon, <1>15, <1>18, <2>4 DEF Allowed, Promise!Next
<1>19. CASE p \notin Futures
  <2>1. abstractSt' = [abstractSt EXCEPT ![w] = "one"]
    <3>1. [abstractSt EXCEPT ![w] = "one"] = [g \in Futures |-> IF g = w THEN "one" ELSE abstractSt[g]]
      BY Zenon, <1>4, <1>17
    <3>2. \A g \in Futures : Shown(fut'[g], word.calls, Leaving(g)) = IF g = w THEN "one" ELSE abstractSt[g]
      BY Zenon, <1>16, <1>19
    <3> QED BY Zenon, <1>16, <3>1, <3>2
  <2>2. Promise!NotifyOne
    BY Zenon, <1>8, <1>13, <1>17, <2>1 DEF Promise!NotifyOne, Promise!Give
  <2> QED BY Zenon, <1>15, <2>2 DEF Allowed, Promise!Next
<1> QED BY Zenon, <1>18, <1>19

\* notify_locked
LEMMA NotifyLockedSeen == ASSUME IInv, RInv, NEW p \in Procs, NotifyLocked(p) PROVE RInv' /\ Allowed
<1>0. /\ word \in Words /\ loc[p].cur \in Words /\ pc[p] = "locked" /\ pc[p] # "pop"
      /\ loc[p].cur.calls = word.calls /\ (loc[p].cur.s = "WAITING" <=> word.s = "WAITING")
  BY Zenon DEF IInv, TypeOK, LocalType, HolderInv, Holding, NotifyLocked
<1>1. CASE loc[p].cur.s = "WAITING"
  BY Zenon, <1>0, <1>1, NotifyOldestSeen DEF NotifyLocked
<1>2. CASE loc[p].cur.s # "WAITING" /\ word = loc[p].cur
  <2>1. /\ word' = set_state(loc[p].cur, "NOTIFIED") /\ fut' = Ended(p, fut)
        /\ Unlock(p, {}) /\ list' = list
    BY Zenon, <1>2 DEF NotifyLocked, Cas
  <2>2. word'.s = "NOTIFIED" /\ word'.calls = word.calls
    BY Zenon, <1>0, <2>1, WordTypes
  <2> QED BY Zenon, <1>0, <1>2, <2>1, <2>2, StoredSeen
<1>3. CASE loc[p].cur.s # "WAITING" /\ word # loc[p].cur
  <2>1. /\ loc' = [loc EXCEPT ![p].cur = word] /\ pc' = [pc EXCEPT ![p] = "store"]
        /\ UNCHANGED <<word, lock, list, fut>>
    BY Zenon, <1>0, <1>3 DEF NotifyLocked, Cas, Load, Goto
  <2>2. "store" # "running" /\ "store" # "transition"
    BY Zenon
  <2> QED BY Zenon, <1>0, <2>1, <2>2, LoadMove DEF Allowed
<1> QED BY Zenon, <1>1, <1>2, <1>3

\* notify_waiters is seen when it counts itself, with the list empty.
LEMMA CountSeen ==
    ASSUME IInv, RInv, NEW p \in Procs, p \notin Futures, \A f \in Futures : pc[f] # "transition",
           word'.calls = word.calls + 1, abstractPermit' = abstractPermit,
           fut' = fut, list' = list, list.tail = None, lock' = None, loc'[p].popped = <<>>,
           \A q \in Procs : q # p => pc'[q] = pc[q] /\ loc'[q] = loc[q]
    PROVE  RInv' /\ Allowed
<1>0. Chain(list, Backward(list)) /\ \A f \in Futures : fut[f].since \in Nat /\ word.calls \in Nat
  BY Zenon DEF RInv, IInv, TypeOK, Words, FutureType
<1>1. FutureInv'
  <2> SUFFICES ASSUME NEW f \in Futures
               PROVE  /\ pc'[f] = "running" => fut'[f].st # "none"
                      /\ fut'[f].st = "init" => fut'[f].since <= word'.calls
                      /\ pc'[f] = "transition" => fut'[f].since = word'.calls
    BY Zenon DEF FutureInv
  <2>1. pc'[f] = pc[f]
    BY Zenon DEF Procs
  <2>2. fut[f].since <= word.calls => fut[f].since <= word.calls + 1
    BY <1>0
  <2> QED BY Zenon, <2>1, <2>2 DEF RInv, FutureInv
<1>2. PoppedInv'
  <2>1. \A i : i \notin DOMAIN <<>>
    OBVIOUS
  <2> SUFFICES ASSUME NEW q \in Procs
               PROVE  /\ pc'[q] # "pop" => loc'[q].popped = <<>>
                      /\ \A i \in DOMAIN loc'[q].popped :
                            /\ fut'[loc'[q].popped[i]].st = "waiting"
                            /\ fut'[loc'[q].popped[i]].notified = "all"
    BY Zenon DEF PoppedInv
  <2>2. CASE q = p
    BY Zenon, <2>1, <2>2
  <2>3. CASE q # p
    <3>1. loc'[q] = loc[q] /\ pc'[q] = pc[q]
      BY Zenon, <2>3
    <3>2. /\ pc[q] # "pop" => loc[q].popped = <<>>
          /\ \A i \in DOMAIN loc[q].popped :
                fut[loc[q].popped[i]].st = "waiting" /\ fut[loc[q].popped[i]].notified = "all"
      BY Zenon DEF RInv, PoppedInv
    <3> QED BY Zenon, <3>1, <3>2
  <2> QED BY Zenon, <2>2, <2>3
<1>3. RInv'
  BY Zenon, <1>0, <1>1, <1>2, ChainPrime DEF RInv
<1>4. Backward(list) = <<>> /\ \A f \in Futures : ~Listed(list, f)
  <2> DEFINE q == Backward(list)
  <2>1. /\ q \in Seq(Nodes) /\ (list.tail = IF Len(q) = 0 THEN None ELSE q[1])
        /\ \A n \in Nodes : Listed(list, n) <=> \E i \in 1..Len(q) : q[i] = n
    BY Zenon, <1>0 DEF Chain
  <2> HIDE DEF q
  <2>2. Len(q) = 0
    <3> SUFFICES ASSUME Len(q) # 0 PROVE FALSE
      BY Zenon
    <3>1. q[1] \in Nodes
      BY <2>1
    <3> QED BY Zenon, <2>1, <3>1, NoneIsNoNode
  <2>3. q = <<>> /\ \A i : i \notin 1..Len(q)
    BY <2>1, <2>2
  <2> QED BY Zenon, <2>1, <2>3 DEF q, Futures
<1>5. popped' = <<>> /\ abstractQueue' = <<>>
  <2>1. popped' = <<>>
    BY Zenon DEF popped
  <2>2. Backward(list)' = <<>>
    BY Zenon, <1>4, BackwardPrime
  <2>3. <<>> \o <<>> = <<>>
    OBVIOUS
  <2> QED BY Zenon, <2>1, <2>2, <2>3 DEF abstractQueue
<1>6. ASSUME NEW f \in Futures
      PROVE  abstractSt'[f] = CASE abstractSt[f] = "queued" -> "all"
                                [] abstractSt[f] = "created" -> "called"
                                [] OTHER -> abstractSt[f]
  <2>1. ~Leaving(f)'
    <3>1. \A i : i \notin DOMAIN <<>>
      OBVIOUS
    <3> QED BY Zenon, <1>5, <3>1 DEF Leaving
  <2>2. fut[f] \in FutureType /\ fut'[f] = fut[f]
    BY Zenon DEF IInv, TypeOK
  <2>3. abstractSt'[f] = Shown(fut[f], word'.calls, FALSE) /\ abstractSt[f] = Shown(fut[f], word.calls, Leaving(f))
    BY Zenon, <2>1, <2>2 DEF abstractSt, Shown
  <2>4. CASE fut[f].st = "init"
    <3>1. word'.calls # fut[f].since
      <4>1. fut[f].since <= word.calls
        BY Zenon, <2>4 DEF RInv, FutureInv
      <4> QED BY <1>0, <4>1
    <3>2. abstractSt'[f] = "called" /\ abstractSt[f] \in {"called", "created"}
      BY Zenon, <2>3, <2>4, <3>1 DEF Shown
    <3> QED BY Zenon, <3>2
  <2>5. CASE fut[f].st = "waiting" /\ fut[f].notified = "all"
    <3>1. abstractSt'[f] = "all" /\ abstractSt[f] \in {"queued", "all"}
      BY Zenon, <2>3, <2>5 DEF Shown
    <3> QED BY Zenon, <3>1
  <2>6. CASE fut[f].st = "waiting" /\ fut[f].notified = "one"
    <3>1. abstractSt'[f] = "one" /\ abstractSt[f] = "one"
      BY Zenon, <2>3, <2>6 DEF Shown
    <3> QED BY Zenon, <3>1
  <2>7. CASE fut[f].st \in {"none", "done"}
    <3>1. abstractSt'[f] = fut[f].st /\ abstractSt[f] = fut[f].st
      BY Zenon, <2>3, <2>7 DEF Shown
    <3> QED BY Zenon, <2>7, <3>1
  <2>8. ~(fut[f].st = "waiting" /\ fut[f].notified = "no")
    BY Zenon, <1>4 DEF IInv, ListInv
  <2>9. /\ fut[f].st \in {"none", "init", "waiting", "done"}
        /\ fut[f].notified \in {"no", "one", "all"}
    BY Zenon, <2>2 DEF FutureType
  <2> QED BY Zenon, <2>4, <2>5, <2>6, <2>7, <2>8, <2>9
<1>7. abstractSt' = [f \in Futures |-> CASE abstractSt[f] = "queued" -> "all"
                                         [] abstractSt[f] = "created" -> "called"
                                         [] OTHER -> abstractSt[f]]
  <2>1. abstractSt' = [f \in Futures |-> abstractSt'[f]]
    BY Zenon DEF abstractSt
  <2> QED BY Zenon, <1>6, <2>1
<1>8. Promise!NotifyWaiters
  BY Zenon, <1>5, <1>7 DEF Promise!NotifyWaiters
<1> QED BY Zenon, <1>3, <1>8 DEF Allowed, Promise!Next

\* A task changes the state word of its poll only with the lock.
LEMMA TransitionLocked == ASSUME IInv, NEW f \in Futures, lock # f PROVE pc[f] # "transition"
<1>1. f \in Procs /\ "transition" \in Holding
  BY Zenon DEF Procs, Holding
<1> QED BY Zenon, <1>1 DEF IInv, HolderInv

\* notify_waiters counts itself, or begins to empty the list.
LEMMA NotifyWaitersSeen == ASSUME IInv, RInv, NEW p \in Callers, NotifyWaiters(p) PROVE RInv' /\ Allowed
<1>0. /\ p \in Procs /\ p \notin Futures /\ pc[p] # "pop" /\ lock = None /\ word \in Words
      /\ UNCHANGED <<list, fut>>
  BY Zenon, ProcsDistinct DEF NotifyWaiters, Free, IInv, TypeOK, Procs
<1>1. CASE word.s = "WAITING"
  <2>1. /\ lock' = p /\ loc' = [loc EXCEPT ![p].cur = word] /\ pc' = [pc EXCEPT ![p] = "pop"]
        /\ word' = word
    BY Zenon, <1>1 DEF NotifyWaiters, Load, Goto
  <2>2. "pop" # "running" /\ "pop" # "transition"
    BY Zenon
  <2> QED BY Zenon, <1>0, <2>1, <2>2, LoadMove DEF Allowed
<1>2. CASE word.s # "WAITING"
  <2>1. word' = [word EXCEPT !.calls = word.calls + 1] /\ UNCHANGED <<lock, loc, pc>>
    BY Zenon, <1>2 DEF NotifyWaiters
  <2>2. word'.calls = word.calls + 1 /\ abstractPermit' = abstractPermit
    BY Zenon, <1>0, <2>1 DEF Words, abstractPermit
  <2>3. list.tail = None
    BY Zenon, <1>2, NobodyWaits DEF IInv, ListInv, Linked
  <2>4. \A f \in Futures : pc[f] # "transition"
    BY Zenon, <1>0, ProcsDistinct, TransitionLocked DEF Procs
  <2> QED BY Zenon, <1>0, <2>1, <2>2, <2>3, <2>4, NoPopped, CountSeen
<1> QED BY Zenon, <1>1, <1>2

\* notify_waiters takes a waiter out of the list: it stays in the queue until the lock is
\* released.
LEMMA PopSeen ==
    ASSUME IInv, RInv, NEW p \in Procs, NotifyWaitersPop(p), list.tail # None
    PROVE  RInv' /\ Unseen
<1> DEFINE w == list.tail
           l == PopBack(list)
           a == loc[p].popped
<1>0. /\ p \in Callers /\ pc[p] = "pop" /\ lock = p /\ p # None
      /\ list \in Lists /\ Linked(list) /\ loc[p] \in LocalType /\ a \in Seq(Futures)
  BY Zenon, ProcsDistinct
     DEF NotifyWaitersPop, IInv, TypeOK, PlaceInv, HolderInv, ListInv, Holding, Procs, TaskPCs, LocalType
<1>1. w \in Futures /\ Listed(list, w)
  BY Zenon, <1>0, PopBackLinked DEF Futures
<1>2. fut[w] \in FutureType /\ fut[w].st = "waiting" /\ fut[w].notified = "no"
  BY Zenon, <1>1 DEF IInv, TypeOK, ListInv
<1>3. /\ list' = l /\ pc' = [pc EXCEPT ![p] = "pop"] /\ UNCHANGED <<word, lock>>
      /\ fut' = [fut EXCEPT ![w].notified = "all", ![w].waker = {}]
      /\ loc' = [loc EXCEPT ![p].popped = Append(@, w), ![p].wakes = @ \cup fut[w].waker]
  BY <1>2, Zenon DEF NotifyWaitersPop, Goto
<1>4. pc' = pc
  BY Zenon, <1>0, <1>3 DEF IInv, TypeOK
<1>5. /\ fut'[w].st = "waiting" /\ fut'[w].notified = "all"
      /\ \A f \in Futures : f # w => fut'[f] = fut[f]
  <2>1. fut' = [fut EXCEPT ![w] = [fut[w] EXCEPT !.notified = "all", !.waker = {}]]
    BY <1>1, <1>2, <1>3, Zenon DEF IInv, TypeOK, FutureType
  <2>2. /\ [fut[w] EXCEPT !.notified = "all", !.waker = {}].st = "waiting"
        /\ [fut[w] EXCEPT !.notified = "all", !.waker = {}].notified = "all"
    BY <1>2, Zenon DEF FutureType
  <2> HIDE DEF w
  <2> QED BY Zenon, <1>1, <2>1, <2>2 DEF IInv, TypeOK
<1>6. loc'[p].popped = Append(a, w) /\ \A q \in Procs : q # p => loc'[q] = loc[q]
  <2> DEFINE x == [loc[p] EXCEPT !.popped = Append(@, w), !.wakes = @ \cup fut[w].waker]
  <2>1. x.popped = Append(a, w)
    BY <1>0, Zenon DEF LocalType
  <2>2. loc' = [loc EXCEPT ![p] = x]
    BY <1>3, ZenonT(60) DEF IInv, TypeOK, LocalType
  <2> HIDE DEF x
  <2> QED BY Zenon, <2>1, <2>2 DEF IInv, TypeOK
<1>7. Backward(list) # <<>> /\ Head(Backward(list)) = w /\ Chain(l, Tail(Backward(list)))
      /\ Backward(list) \in Seq(Futures)
  <2>1. Chain(list, Backward(list))
    BY Zenon DEF RInv
  <2>2. Backward(list) \in Seq(Futures)
    BY Zenon, <2>1 DEF Chain, Futures
  <2> QED BY Zenon, <1>0, <2>1, <2>2, PopChain
<1> HIDE DEF w, l
<1>8. Chain(list, Backward(list))' /\ Backward(list)' = Tail(Backward(list))
  BY Zenon, <1>3, <1>7, ChainPrime
<1>9. FutureInv'
  <2>1. \A f \in Futures : fut'[f].st = "waiting" \/ fut'[f] = fut[f]
    BY Zenon, <1>5
  <2>2. pc[w] # "transition"
    BY Zenon, <1>0, <1>1, ProcsDistinct, TransitionLocked
  <2>3. "waiting" # "none" /\ "waiting" # "init"
    BY Zenon
  <2>4. \A f \in Futures : f # w => fut'[f] = fut[f]
    BY Zenon, <1>5
  <2> SUFFICES ASSUME NEW f \in Futures
               PROVE  /\ pc'[f] = "running" => fut'[f].st # "none"
                      /\ fut'[f].st = "init" => fut'[f].since <= word'.calls
                      /\ pc'[f] = "transition" => fut'[f].since = word'.calls
    BY Zenon DEF FutureInv
  <2>5. CASE f = w
    BY Zenon, <1>4, <1>5, <2>2, <2>3, <2>5
  <2>6. CASE f # w
    <3>1. fut'[f] = fut[f] /\ pc'[f] = pc[f] /\ word' = word
      BY Zenon, <1>3, <1>4, <2>4, <2>6
    <3> QED BY Zenon, <3>1 DEF RInv, FutureInv
  <2> QED BY Zenon, <2>5, <2>6
<1>10. /\ DOMAIN a = 1..Len(a) /\ \A i \in DOMAIN a : a[i] \in Futures
       /\ DOMAIN Append(a, w) = 1..(Len(a) + 1) /\ Append(a, w)[Len(a) + 1] = w
       /\ \A i \in 1..(Len(a) + 1) : i = Len(a) + 1 \/ i \in DOMAIN a
       /\ \A i \in DOMAIN a : Append(a, w)[i] = a[i] /\ i \in 1..(Len(a) + 1)
       /\ Len(a) + 1 \in 1..(Len(a) + 1)
  BY <1>0, <1>1
<1>11. \A i \in DOMAIN a : a[i] # w /\ fut[a[i]].st = "waiting" /\ fut[a[i]].notified = "all"
  <2>1. \A i \in DOMAIN a : fut[a[i]].st = "waiting" /\ fut[a[i]].notified = "all"
    BY Zenon DEF RInv, PoppedInv
  <2>2. "no" # "all"
    BY Zenon
  <2> QED BY Zenon, <1>2, <2>1, <2>2
<1>12. PoppedInv'
  <2> SUFFICES ASSUME NEW q \in Procs
               PROVE  /\ pc'[q] # "pop" => loc'[q].popped = <<>>
                      /\ \A i \in DOMAIN loc'[q].popped :
                            /\ fut'[loc'[q].popped[i]].st = "waiting"
                            /\ fut'[loc'[q].popped[i]].notified = "all"
    BY Zenon DEF PoppedInv
  <2>1. CASE q = p
    <3>1. ASSUME NEW i \in 1..(Len(a) + 1)
          PROVE  fut'[Append(a, w)[i]].st = "waiting" /\ fut'[Append(a, w)[i]].notified = "all"
      <4>1. CASE i = Len(a) + 1
        BY Zenon, <1>5, <1>10, <4>1
      <4>2. CASE i \in DOMAIN a
        <5>1. Append(a, w)[i] = a[i] /\ fut'[a[i]] = fut[a[i]]
          BY Zenon, <1>5, <1>10, <1>11, <4>2
        <5> QED BY Zenon, <1>11, <4>2, <5>1
      <4> QED BY Zenon, <1>10, <4>1, <4>2
    <3>2. pc'[q] = "pop" /\ loc'[q].popped = Append(a, w)
      BY Zenon, <1>0, <1>4, <1>6, <2>1
    <3> HIDE DEF a
    <3>3. \A i \in DOMAIN loc'[q].popped : i \in 1..(Len(a) + 1)
      BY Zenon, <1>10, <3>2
    <3> QED BY Zenon, <3>1, <3>2, <3>3
  <2>2. CASE q # p
    <3>1. loc[q].popped = <<>> /\ loc'[q] = loc[q]
      <4>1. pc[q] # "pop"
        BY Zenon, <1>0, <2>2 DEF IInv, HolderInv, Holding
      <4> QED BY Zenon, <1>6, <2>2, <4>1, NoPopped
    <3>2. \A i : i \notin DOMAIN <<>>
      OBVIOUS
    <3> QED BY Zenon, <3>1, <3>2
  <2> QED BY Zenon, <2>1, <2>2
<1>13. popped = a /\ popped' = Append(a, w)
  BY Zenon, <1>0, <1>3, <1>6 DEF popped
<1>14. abstractQueue' = abstractQueue
  <2>1. Append(a, w) \o Tail(Backward(list)) = a \o Backward(list)
    BY Zenon, <1>0, <1>7, MoveHead
  <2> QED BY Zenon, <1>8, <1>13, <2>1 DEF abstractQueue
<1>15. abstractSt' = abstractSt
  <2>1. \A f \in Futures : Leaving(f)' <=> Leaving(f) \/ f = w
    <3> SUFFICES ASSUME NEW f \in Futures PROVE Leaving(f)' <=> Leaving(f) \/ f = w
      BY Zenon
    <3>1. Leaving(f) <=> \E i \in DOMAIN a : a[i] = f
      BY Zenon, <1>13 DEF Leaving
    <3>2. Leaving(f)' <=> \E i \in 1..(Len(a) + 1) : Append(a, w)[i] = f
      BY Zenon, <1>10, <1>13 DEF Leaving
    <3> HIDE DEF a
    <3> QED BY Zenon, <1>10, <3>1, <3>2
  <2>2. ASSUME NEW f \in Futures
        PROVE  Shown(fut'[f], word'.calls, Leaving(f)') = Shown(fut[f], word.calls, Leaving(f))
    <3>1. CASE f = w
      <4>1. Shown(fut'[f], word'.calls, Leaving(f)') = "queued"
        <5>1. Leaving(f)' /\ fut'[f].st = "waiting" /\ fut'[f].notified = "all"
          BY Zenon, <1>5, <2>1, <3>1
        <5>2. "waiting" # "init"
          BY Zenon
        <5> QED BY Zenon, <5>1, <5>2 DEF Shown
      <4>2. Shown(fut[f], word.calls, Leaving(f)) = "queued"
        BY Zenon, <1>2, <3>1 DEF Shown
      <4> QED BY Zenon, <4>1, <4>2
    <3>2. CASE f # w
      <4>1. fut'[f] = fut[f] /\ word' = word /\ (Leaving(f)' <=> Leaving(f))
        BY Zenon, <1>3, <1>5, <2>1, <3>2
      <4> QED BY Zenon, <4>1 DEF Shown
    <3> QED BY Zenon, <3>1, <3>2
  <2>3. abstractSt' = [f \in Futures |-> Shown(fut'[f], word'.calls, Leaving(f)')]
    BY Zenon DEF abstractSt, Shown
  <2> QED BY Zenon, <2>2, <2>3 DEF abstractSt
<1> QED BY Zenon, <1>3, <1>8, <1>9, <1>12, <1>14, <1>15 DEF RInv, Unseen, abstractPermit

\* A step of notify_waiters under the lock
LEMMA NotifyWaitersPopSeen ==
    ASSUME IInv, RInv, NEW p \in Procs, NotifyWaitersPop(p) PROVE RInv' /\ Allowed
<1>1. CASE list.tail # None
  BY Zenon, <1>1, PopSeen DEF Allowed
<1>2. CASE list.tail = None
  <2>0. /\ p \in Callers /\ p \notin Futures /\ pc[p] = "pop" /\ lock = p /\ word.s = "WAITING"
        /\ loc[p].cur.calls = word.calls
    BY Zenon, ProcsDistinct
       DEF NotifyWaitersPop, IInv, TypeOK, PlaceInv, HolderInv, Holding, Procs, TaskPCs
  <2>1. /\ word' = [s |-> "EMPTY", calls |-> loc[p].cur.calls + 1]
        /\ Unlock(p, loc[p].wakes) /\ UNCHANGED <<list, fut>>
    BY Zenon, <1>2 DEF NotifyWaitersPop
  <2>2. word'.calls = word.calls + 1 /\ abstractPermit' = abstractPermit
    BY Zenon, <2>0, <2>1 DEF abstractPermit
  <2>3. \A f \in Futures : pc[f] # "transition"
    BY Zenon, <2>0, ProcsDistinct DEF IInv, HolderInv, Holding, Procs
  <2>4. /\ lock' = None /\ loc'[p].popped = <<>>
        /\ \A q \in Procs : q # p => pc'[q] = pc[q] /\ loc'[q] = loc[q]
    BY Zenon, <2>1, UnlockSeen
  <2> QED BY Zenon, <1>2, <2>0, <2>1, <2>2, <2>3, <2>4, CountSeen
<1> QED BY Zenon, <1>1, <1>2

\* The state of a future after its drop
LEMMA DroppedSeen ==
    ASSUME IInv, RInv, NEW f \in Futures, pc[f] # "pop", fut' = Ended(f, fut),
           pc' = [pc EXCEPT ![f] = "idle"], loc' = [loc EXCEPT ![f] = Start], lock' = lock,
           word'.calls = word.calls
    PROVE  /\ popped' = popped
           /\ abstractSt' = [abstractSt EXCEPT ![f] = "none"]
           /\ \A g \in Futures : g # f => fut'[g] = fut[g]
           /\ fut'[f].st = "none"
           /\ loc'[f].popped = <<>> /\ pc'[f] = "idle"
           /\ \A q \in Procs : q # f => pc'[q] = pc[q] /\ loc'[q] = loc[q]
<1>0. f \in Procs /\ fut \in [Futures -> FutureType]
  BY Zenon DEF Procs, IInv, TypeOK
<1>1. (\A g \in Futures : g # f => fut'[g] = fut[g]) /\ fut'[f].st = "none"
  BY Zenon, <1>0, EndedEffect
<1>2. /\ loc'[f].popped = <<>> /\ pc'[f] = "idle"
      /\ \A q \in Procs : q # f => pc'[q] = pc[q] /\ loc'[q] = loc[q]
  <2>1. Start.popped = <<>>
    BY Zenon DEF Start
  <2> QED BY Zenon, <1>0, <2>1 DEF IInv, TypeOK
<1>3. popped' = popped
  BY Zenon, <1>0, <1>2, PoppedKept
<1>4. abstractSt' = [abstractSt EXCEPT ![f] = Shown(fut'[f], word.calls, Leaving(f))]
  BY Zenon, <1>1, <1>3, OneSeen
<1>5. Shown(fut'[f], word.calls, Leaving(f)) = "none"
  BY Zenon, <1>1 DEF Shown
<1> QED BY Zenon, <1>1, <1>2, <1>3, <1>4, <1>5

\* The rest of RInv after a drop
LEMMA DroppedInv ==
    ASSUME IInv, RInv, NEW f \in Futures, pc[f] \in {"running", "parked"}, fut' = Ended(f, fut),
           pc' = [pc EXCEPT ![f] = "idle"], loc' = [loc EXCEPT ![f] = Start], lock' = lock,
           word'.calls = word.calls, fut[f].st = "waiting" => lock = None,
           NEW l, NEW s, list' = l, Chain(l, s)
    PROVE  RInv'
<1>0. f \in Procs /\ pc[f] # "pop"
  BY Zenon DEF Procs
<1>1. /\ \A g \in Futures : g # f => fut'[g] = fut[g]
      /\ fut'[f].st = "none"
      /\ loc'[f].popped = <<>> /\ pc'[f] = "idle"
      /\ \A q \in Procs : q # f => pc'[q] = pc[q] /\ loc'[q] = loc[q]
  BY Zenon, <1>0, DroppedSeen
<1>2. pc'[f] # "transition" /\ pc'[f] # "running" /\ fut'[f].st # "init"
  BY Zenon, <1>1
<1>3. \A q \in Procs : pc[q] = "pop" => fut[f].st # "waiting"
  BY Zenon, NobodyPops
<1>4. \A g \in Futures : g # f => /\ fut'[g].since = fut[g].since /\ fut'[g].st = fut[g].st
                                  /\ fut[g].notified = "all" => fut'[g].notified = "all"
  BY Zenon, <1>1
<1> QED BY Zenon, <1>0, <1>1, <1>2, <1>3, <1>4, OwnMove

\* A future is dropped. What notify_one gave it is passed on in steps of its own.
LEMMA DropSeen == ASSUME IInv, RInv, NEW f \in Futures, Drop(f) PROVE RInv' /\ Allowed
<1> DEFINE l == Remove(list, f)
           w == IF l.head = None /\ word.s = "WAITING" THEN set_state(word, "EMPTY") ELSE word
           q == Backward(list)
<1>0. /\ f \in Procs /\ pc[f] \in {"running", "parked"} /\ pc[f] # "pop"
      /\ list \in Lists /\ Linked(list) /\ word \in Words /\ fut[f] \in FutureType
      /\ Chain(list, q)
  BY Zenon DEF Drop, IInv, TypeOK, ListInv, RInv, Procs
<1>1. abstractSt[f] = Shown(fut[f], word.calls, Leaving(f))
  BY Zenon DEF abstractSt
<1>2. CASE fut[f].st # "waiting"
  <2>0. /\ fut' = Ended(f, fut) /\ pc' = [pc EXCEPT ![f] = "idle"]
        /\ loc' = [loc EXCEPT ![f] = Start] /\ UNCHANGED <<word, lock, list>>
    BY Zenon, <1>2 DEF Drop, Return, Goto
  <2>1. RInv' /\ popped' = popped /\ abstractSt' = [abstractSt EXCEPT ![f] = "none"]
    BY Zenon, <1>0, <1>2, <2>0, DroppedInv, DroppedSeen
  <2>2. abstractSt[f] \notin {"none", "one", "queued"}
    <3>1. fut[f].st \in {"init", "done"}
      <4>1. fut[f].st \in {"none", "init", "waiting", "done"}
        BY Zenon, <1>0 DEF FutureType
      <4>2. pc[f] = "running"
        BY Zenon, <1>0, <1>2 DEF IInv, PlaceInv
      <4> QED BY Zenon, <1>2, <4>1, <4>2 DEF RInv, FutureInv
    <3> QED BY Zenon, <1>1, <3>1 DEF Shown
  <2>3. Promise!Drop(f)
    BY Zenon, <2>0, <2>1, <2>2, QueueKept DEF Promise!Drop, abstractPermit
  <2> QED BY Zenon, <2>1, <2>3 DEF Allowed, Promise!Next
<1>3. CASE fut[f].st = "waiting"
  <2>0. lock = None /\ list' = l /\ word' = w
    BY Zenon, <1>3 DEF Drop, Free
  <2>1. \A p \in Procs : pc[p] # "pop"
    BY Zenon, <2>0, NobodyPops
  <2>2. word.s = "WAITING" <=> list.head # None
    BY Zenon, <2>1 DEF IInv, ListInv
  <2>3. fut[f].notified # "no" => l = list /\ word' = word
    BY Zenon, <2>0, <2>2 DEF IInv, ListInv, Remove, Listed
  <2>4. word'.calls = word.calls /\ abstractPermit' = abstractPermit
    <3>1. word' = word \/ (word.s = "WAITING" /\ word'.s = "EMPTY" /\ word'.calls = word.calls)
      BY Zenon, <1>0, <2>0, WordTypes
    <3> QED BY Zenon, <3>1 DEF abstractPermit
  <2>5. popped = <<>> /\ abstractQueue = q
    BY Zenon, <2>1, NonePopped
  <2> HIDE DEF l, w, q
  <2>6. CASE PassesOn(f)
    <3>0. /\ lock' = f /\ loc' = [loc EXCEPT ![f].cur = w] /\ pc' = [pc EXCEPT ![f] = "locked"]
          /\ fut' = fut /\ fut[f].notified = "one"
      BY Zenon, <1>3, <2>6 DEF Drop, Goto, PassesOn, l, w
    <3>1. "locked" # "running" /\ "locked" # "transition" /\ "one" # "no"
      BY Zenon
    <3>2. list' = list /\ word' = word
      BY Zenon, <2>0, <2>3, <3>0, <3>1
    <3> QED BY Zenon, <1>0, <2>0, <3>0, <3>1, <3>2, LoadMove DEF Allowed
  <2>7. CASE ~PassesOn(f)
    <3>0. /\ lock' = lock /\ loc' = [loc EXCEPT ![f] = Start] /\ pc' = [pc EXCEPT ![f] = "idle"]
          /\ fut' = Ended(f, fut) /\ fut[f].notified \in {"no", "all"}
      <4>1. /\ lock' = lock /\ loc' = [loc EXCEPT ![f] = Start] /\ pc' = [pc EXCEPT ![f] = "idle"]
            /\ fut' = Ended(f, fut)
        BY Zenon, <1>3, <2>7 DEF Drop, Goto, Return, l, w
      <4>2. fut[f].notified \in {"no", "one", "all"} /\ fut[f].notified # "one"
        BY Zenon, <1>0, <2>7 DEF FutureType, PassesOn
      <4> QED BY Zenon, <4>1, <4>2
    <3>1. popped' = popped /\ abstractSt' = [abstractSt EXCEPT ![f] = "none"]
      BY Zenon, <1>0, <2>4, <3>0, DroppedSeen
    <3>2. CASE fut[f].notified = "all"
      <4>0. "all" # "no"
        BY Zenon
      <4>1. list' = list
        BY Zenon, <2>0, <2>3, <3>2, <4>0
      <4>2. RInv'
        BY Zenon, <1>0, <2>0, <2>4, <3>0, <4>1, DroppedInv
      <4>3. abstractSt[f] = "all"
        <5>1. ~Leaving(f)
          <6>1. \A i : i \notin DOMAIN <<>>
            OBVIOUS
          <6> QED BY Zenon, <2>5, <6>1 DEF Leaving
        <5> QED BY Zenon, <1>1, <1>3, <3>2, <5>1 DEF Shown
      <4>4. "all" \notin {"none", "one", "queued"}
        BY Zenon
      <4>5. Promise!Drop(f)
        BY Zenon, <2>4, <3>1, <4>1, <4>3, <4>4, QueueKept DEF Promise!Drop
      <4> QED BY Zenon, <4>2, <4>5 DEF Allowed, Promise!Next
    <3>3. CASE fut[f].notified = "no"
      <4>1. PICK c \in 1..Len(q) : q[c] = f
        <5>1. Listed(list, f)
          BY Zenon, <1>3, <3>3 DEF IInv, ListInv
        <5> QED BY Zenon, <1>0, <5>1 DEF Chain, Futures
      <4>2. Chain(l, Promise!Without(q, c))
        BY Zenon, <1>0, <4>1, RemoveChain DEF l
      <4>3. RInv'
        BY Zenon, <1>0, <2>0, <2>4, <3>0, <4>2, DroppedInv
      <4>4. abstractQueue' = Promise!Without(q, c)
        <5>1. Backward(list)' = Promise!Without(q, c)
          BY Zenon, <2>0, <4>2, ChainPrime
        <5>2. Promise!Without(q, c) \in Seq(Nodes)
          BY Zenon, <4>2 DEF Chain
        <5> QED BY Zenon, <2>5, <3>1, <5>1, <5>2, EmptyConcat DEF abstractQueue
      <4>5. abstractSt[f] = "queued"
        BY Zenon, <1>1, <1>3, <3>3 DEF Shown
      <4>6. "queued" # "none" /\ "queued" # "one"
        BY Zenon
      <4>7. Promise!Drop(f)
        BY Zenon, <2>4, <2>5, <3>1, <4>1, <4>4, <4>5, <4>6 DEF Promise!Drop
      <4> QED BY Zenon, <4>3, <4>7 DEF Allowed, Promise!Next
    <3> QED BY Zenon, <3>0, <3>2, <3>3
  <2> QED BY Zenon, <2>6, <2>7
<1> QED BY Zenon, <1>2, <1>3

-----------------------------------------------------------------------------
\* The initial states
LEMMA InitRefined == Init => RInv /\ Promise!Init
<1> SUFFICES ASSUME Init PROVE RInv /\ Promise!Init
  BY Zenon
<1>0. list = NewList /\ lock = None /\ word = [s |-> "EMPTY", calls |-> 0]
  BY Zenon DEF Init
<1>1. Backward(list) = <<>> /\ Chain(list, Backward(list))
  BY Zenon, <1>0, NewChain, BackwardIs
<1>2. \A f \in Futures : pc[f] = "idle" /\ fut[f] = NoFuture
  BY Zenon DEF Init, Procs
<1>3. NoFuture.st = "none" /\ Start.popped = <<>>
  BY Zenon DEF NoFuture, Start
<1>4. FutureInv
  <2>1. "idle" # "running" /\ "none" # "init" /\ "idle" # "transition"
    BY Zenon
  <2> QED BY Zenon, <1>2, <1>3, <2>1 DEF FutureInv
<1>5. PoppedInv
  <2>1. \A p \in Procs : loc[p].popped = <<>>
    BY Zenon, <1>3 DEF Init
  <2>2. \A i : i \notin DOMAIN <<>>
    OBVIOUS
  <2> QED BY Zenon, <2>1, <2>2 DEF PoppedInv
<1>6. abstractQueue = <<>>
  <2>1. <<>> \o <<>> = <<>>
    OBVIOUS
  <2> QED BY Zenon, <1>0, <1>1, <2>1 DEF abstractQueue, popped
<1>7. abstractPermit = FALSE
  BY Zenon, <1>0 DEF abstractPermit
<1>8. abstractSt = [f \in Futures |-> "none"]
  <2>1. \A f \in Futures : Shown(fut[f], word.calls, Leaving(f)) = "none"
    BY Zenon, <1>2, <1>3 DEF Shown
  <2> QED BY Zenon, <2>1 DEF abstractSt
<1> QED BY Zenon, <1>1, <1>4, <1>5, <1>6, <1>7, <1>8 DEF RInv, Promise!Init

\* Every step of notify.rs is a step of the abstract specification, or is not seen.
LEMMA StepRefined == IInv /\ RInv /\ [Next]_vars => RInv' /\ [Promise!Next]_(Promise!vars)
<1> SUFFICES ASSUME IInv, RInv, [Next]_vars PROVE RInv' /\ Allowed
  BY Zenon DEF Allowed, Unseen, Promise!vars
<1>1. CASE UNCHANGED vars
  <2>0. UNCHANGED <<word, lock, list, fut, pc, loc>>
    BY Zenon, <1>1 DEF vars
  <2>1. popped' = popped
    BY Zenon, <2>0 DEF popped
  <2>2. Chain(list, Backward(list))'
    BY Zenon, <2>0, ChainPrime DEF RInv
  <2>3. FutureInv' /\ PoppedInv'
    BY Zenon, <2>0 DEF RInv, FutureInv, PoppedInv
  <2> QED BY Zenon, <2>0, <2>1, <2>2, <2>3, SameSeen DEF RInv, Allowed
<1>2. CASE \E f \in Futures : Notified(f) \/ Drop(f) \/ PollStep(f)
  BY Zenon, <1>2, NotifiedSeen, DropSeen, PollLoadSeen, PollTrySeen, PollLockSeen,
     PollTransitionSeen, PollWaitingSeen DEF PollStep, Allowed
<1>3. CASE \E f \in Futures : \E waker \in {{}, {f}} : PollNotified(f, waker)
  BY Zenon, <1>3, PollNotifiedSeen DEF Allowed
<1>4. CASE \E p \in Callers : NotifyOne(p) \/ NotifyWaiters(p)
  BY Zenon, <1>4, NotifyOneSeen, NotifyWaitersSeen DEF Allowed
<1>5. CASE \E p \in Procs : Step(p)
  BY Zenon, <1>5, NotifyOneTrySeen, NotifyOneLockSeen, NotifyLockedSeen, NotifyStoreSeen,
     NotifyWaitersPopSeen, WakeSeen DEF Step, Allowed
<1> QED BY Zenon, <1>1, <1>2, <1>3, <1>4, <1>5 DEF Next

\* The list, read from its tail, is the queue of those that wait, and the futures that
\* notify_waiters has taken out of it wait for the lock.
THEOREM QueueHolds == Spec => []RInv
<1> QED BY Agreement, InitRefined, StepRefined, PTL DEF Spec

\* notify.rs implements module Notification, for any number of tasks and callers: no
\* notification is lost or given twice, and waiters are served in the order they came.
THEOREM Refines == Spec => KeepsPromise
<1> QED BY Agreement, QueueHolds, InitRefined, StepRefined, PTL DEF Spec, KeepsPromise, Promise!Spec

=============================================================================
