-------------------------- MODULE RadixTableSteps --------------------------
(***************************************************************************)
(* The inductive invariant of the radix levels of the page table, and what *)
(* a step may do to them: store one pointer into an empty slot, or move a  *)
(* thread on.  RadixTableProofs takes the actions one by one.              *)
(***************************************************************************)
EXTENDS RadixTable, SequenceTheorems, TLAPS

-----------------------------------------------------------------------------
(* The inductive invariant *)

Roots == {Root(0), Root(1), Root(2)}
Places(n) == 0 .. (Length(n) - 1)

\* The nodes that hold pointers, and the nodes that hold addresses.
Inner == {Root(1), Root(2)} \cup Children(Root(2))
Leaves == {Root(0)} \cup Children(Root(1)) \cup UNION {Children(n) : n \in Children(Root(2))}

\* The way to the word of an id: positions and nodes.
Depth(id) == Len(Start(id).path)
Pos(id, d) == Start(id).path[d]
Node1(id) == Start(id).node
Node2(id) == At(Node1(id), Pos(id, 1))
Node3(id) == At(Node2(id), Pos(id, 2))

Busy == [pc : {"index", "install"}, id : Ids, op : Ops, node : Int, path : Seq(Nat), child : Nat]

TypeInv ==
    /\ used \in 0 .. MaxNodes /\ frees \in [Nodes -> Nat] /\ dropped \in BOOLEAN
    /\ thread \in [Threads -> {Idle} \cup Busy]
    /\ answer = [t \in Threads |-> answer[t]]

\* A pointer is null or leads to a node that no other pointer leads to, and only nodes
\* that are reached have content.
TableInv ==
    /\ \A n \in Inner : \A i \in Places(n) : At(n, i) \in 0 .. used
    /\ \A n, m \in Inner : \A i \in Places(n), j \in Places(m) :
          At(n, i) = At(m, j) /\ At(n, i) # 0 => n = m /\ i = j
    /\ \A s \in DOMAIN slots : s[1] \in Owned \cup Roots

\* A thread is on the way to the word of its id, and the nodes behind it are there.
OnWay(id, path, node) ==
    \/ path = Start(id).path /\ node = Node1(id)
    \/ Depth(id) = 2 /\ path = <<Pos(id, 2)>> /\ node = Node2(id) /\ Node2(id) # 0
    \/ Depth(id) = 3 /\ path = <<Pos(id, 2), Pos(id, 3)>> /\ node = Node2(id) /\ Node2(id) # 0
    \/ Depth(id) = 3 /\ path = <<Pos(id, 3)>> /\ node = Node3(id) /\ Node2(id) # 0 /\ Node3(id) # 0

\* The child that a thread is about to install is its own and is not in the table.
ChildInv(t) ==
    /\ thread[t].pc = "index" => thread[t].child = 0
    /\ thread[t].pc = "install" =>
          /\ thread[t].child \in (1 .. used) \ Owned /\ Len(thread[t].path) > 1
          /\ \A u \in Threads \ {t} : thread[u] # Idle => thread[u].child # thread[t].child

ThreadInv ==
    \A t \in Threads : thread[t] # Idle =>
       /\ OnWay(thread[t].id, thread[t].path, thread[t].node)
       /\ ChildInv(t) /\ ~dropped /\ answer[t] = <<>>

\* A node that is not yet allocated was never dropped.
FreshInv == \A n \in Nodes : n > used => frees[n] = 0

Inv == TypeInv /\ TableInv /\ ThreadInv /\ FreshInv /\ ChildrenOwned
-----------------------------------------------------------------------------
(* Paths *)

\* Quotient and remainder
LEMMA DivMod ==
    ASSUME NEW m \in Nat \ {0}, NEW x \in Nat
    PROVE  /\ x = m * (x \div m) + (x % m)
           /\ x % m \in 0 .. (m - 1) /\ x \div m \in Nat
  OBVIOUS

\* Concatenation of short sequences
LEMMA Concat ==
    ASSUME NEW a \in Nat, NEW b \in Nat, NEW c \in Nat
    PROVE  <<a>> \o <<b>> = <<a, b>> /\ <<a>> \o <<b, c>> = <<a, b, c>>
<1>1. /\ <<a>> \in Seq(Nat) /\ <<b>> \in Seq(Nat) /\ <<b, c>> \in Seq(Nat)
      /\ <<a, b>> \in Seq(Nat) /\ <<a, b, c>> \in Seq(Nat)
  OBVIOUS
<1>2. /\ Len(<<a>>) = 1 /\ Len(<<b>>) = 1 /\ Len(<<b, c>>) = 2
      /\ Len(<<a, b>>) = 2 /\ Len(<<a, b, c>>) = 3
  BY Zenon
<1>3. <<a>> \o <<b>> = <<a, b>>
  <2>1. <<a>> \o <<b>> \in Seq(Nat) /\ Len(<<a>> \o <<b>>) = 2
    BY <1>1, <1>2
  <2>2. \A i \in 1..2 : (<<a>> \o <<b>>)[i] = <<a, b>>[i]
    BY <1>1, <1>2, ConcatProperties
  <2> QED BY <1>1, <1>2, <2>1, <2>2, SeqEqual, Zenon
<1>4. <<a>> \o <<b, c>> = <<a, b, c>>
  <2>1. <<a>> \o <<b, c>> \in Seq(Nat) /\ Len(<<a>> \o <<b, c>>) = 3
    BY <1>1, <1>2
  <2>2. \A i \in 1..3 : (<<a>> \o <<b, c>>)[i] = <<a, b, c>>[i]
    BY <1>1, <1>2, ConcatProperties
  <2> QED BY <1>1, <1>2, <2>1, <2>2, SeqEqual, Zenon
<1> QED BY Zenon, <1>3, <1>4

\* The quotient is below q if the number is below q * m.
LEMMA DivBelow ==
    ASSUME NEW m \in Nat \ {0}, NEW q \in Nat, NEW x \in 0 .. (q * m - 1)
    PROVE  x \div m \in 0 .. (q - 1)
<1> DEFINE d == x \div m
           r == x % m
<1>1. x \in Nat /\ q * m \in Nat /\ x < q * m
  OBVIOUS
<1>2. d \in Nat /\ r \in Nat /\ x = m * d + r
  BY <1>1, DivMod
<1> HIDE DEF d, r
<1>3. ASSUME d >= q PROVE FALSE
  <2>1. PICK e \in Nat : d = q + e
    <3>1. d - q \in Nat /\ d = q + (d - q)
      BY <1>2, <1>3
    <3> QED BY Zenon, <3>1
  <2>2. m * d = q * m + m * e /\ m * e \in Nat
    BY <1>2, <2>1
  <2> QED BY <1>1, <1>2, <2>2
<1> QED BY <1>2, <1>3 DEF d

\* The sizes of the three levels, and what L1 and L2 lack of theirs
LEMMA Fanouts ==
    /\ Fanout \in Nat /\ Fanout >= 2 /\ L0Fanout = Fanout
    /\ L1Fanout \in Nat \ {0} /\ L1Fanout = Fanout * Fanout
    /\ L2Fanout \in Nat /\ L2Fanout = L1Fanout * Fanout
    /\ L1Fanout - L0Fanout = (Fanout - 1) * Fanout
    /\ L2Fanout - L1Fanout = (Fanout - 1) * L1Fanout
    /\ Fanout \in Nat \ {0} /\ Fanout - 1 \in Nat
<1>1. Fanout \in Nat /\ Fanout >= 2 /\ L0Fanout = Fanout /\ Fanout - 1 \in Nat
  BY FanoutAssumption DEF L0Fanout
<1>2. L1Fanout \in Nat \ {0} /\ L1Fanout = Fanout * Fanout
  BY <1>1 DEF L1Fanout
<1>3. L2Fanout \in Nat /\ L2Fanout = L1Fanout * Fanout
  BY <1>1, <1>2 DEF L2Fanout
<1>4. L1Fanout - L0Fanout = (Fanout - 1) * Fanout
  BY <1>1, <1>2
<1>5. L2Fanout - L1Fanout = (Fanout - 1) * L1Fanout
  BY <1>1, <1>2, <1>3
<1> QED BY <1>1, <1>2, <1>3, <1>4, <1>5

\* The way to the word of an id of each level: within the arrays, and it determines the id.
LEMMA StartL0 ==
    ASSUME NEW id \in Ids, id < L0Fanout
    PROVE  \E a \in 0 .. (Fanout - 1) :
              Start(id) = [node |-> Root(0), path |-> <<a>>] /\ id = a
<1>1. id \in 0 .. (Fanout - 1)
  BY IdsAssumption, Fanouts
<1>2. Start(id) = [node |-> Root(0), path |-> <<id>>]
  BY Zenon DEF Start, PathL0
<1> QED BY Zenon, <1>1, <1>2

\* The same for the ids of L1
LEMMA StartL1 ==
    ASSUME NEW id \in Ids, ~(id < L0Fanout), id < L1Fanout
    PROVE  \E a \in 0 .. (Fanout - 2), b \in 0 .. (Fanout - 1) :
              Start(id) = [node |-> Root(1), path |-> <<a, b>>] /\ id = Fanout + (Fanout * a + b)
<1> DEFINE x == id - L0Fanout
           a == x \div L0Fanout
           b == x % L0Fanout
<1>1. id \in Nat /\ x \in Nat /\ x \in 0 .. ((Fanout - 1) * Fanout - 1)
  <2>1. id \in Nat
    BY IdsAssumption, Fanouts
  <2> QED BY <2>1, Fanouts
<1>2. a \in 0 .. (Fanout - 2) /\ b \in 0 .. (Fanout - 1) /\ x = Fanout * a + b
  <2> HIDE DEF x
  <2>1. x \div Fanout \in 0 .. ((Fanout - 1) - 1)
    BY Zenon, <1>1, Fanouts, DivBelow
  <2> QED BY <1>1, <2>1, Fanouts, DivMod
<1>3. Start(id) = [node |-> Root(1), path |-> <<a, b>>]
  <2>1. PathL1(x) = <<a, b>>
    <3>1. a \in Nat /\ b \in Nat
      BY <1>2, Fanouts
    <3>2. <<a>> \o <<b>> = <<a, b>>
      <4> HIDE DEF a, b
      <4> QED BY <3>1, Concat, Zenon
    <3> QED BY Zenon, <3>2 DEF PathL1, PathL0
  <2> QED BY Zenon, <2>1 DEF Start
<1>4. id = Fanout + (Fanout * a + b)
  BY <1>1, <1>2, Fanouts
<1> HIDE DEF a, b
<1> QED BY Zenon, <1>2, <1>3, <1>4

\* The same for the ids of L2
LEMMA StartL2 ==
    ASSUME NEW id \in Ids, ~(id < L0Fanout), ~(id < L1Fanout)
    PROVE  \E a \in 0 .. (Fanout - 2), b \in 0 .. (Fanout - 1), c \in 0 .. (Fanout - 1) :
              /\ Start(id) = [node |-> Root(2), path |-> <<a, b, c>>]
              /\ id = L1Fanout + (L1Fanout * a + (Fanout * b + c))
<1> DEFINE x == id - L1Fanout
           a == x \div L1Fanout
           y == x % L1Fanout
           b == y \div L0Fanout
           c == y % L0Fanout
<1>1. id \in Nat /\ x \in Nat /\ x \in 0 .. ((Fanout - 1) * L1Fanout - 1)
  <2>1. id \in Nat /\ id < L2Fanout
    BY IdsAssumption, Fanouts
  <2> QED BY <2>1, Fanouts
<1>2. a \in 0 .. (Fanout - 2) /\ y \in 0 .. (L1Fanout - 1) /\ x = L1Fanout * a + y
  <2> HIDE DEF x
  <2>1. x \div L1Fanout \in 0 .. ((Fanout - 1) - 1)
    BY Zenon, <1>1, Fanouts, DivBelow
  <2>2. x = L1Fanout * (x \div L1Fanout) + (x % L1Fanout) /\ x % L1Fanout \in 0 .. (L1Fanout - 1)
    BY <1>1, Fanouts, DivMod, Zenon
  <2> QED BY <2>1, <2>2, Fanouts
<1>3. b \in 0 .. (Fanout - 1) /\ c \in 0 .. (Fanout - 1) /\ y = Fanout * b + c
  <2> HIDE DEF y
  <2>1. y \in Nat /\ y \in 0 .. (Fanout * Fanout - 1)
    BY <1>2, Fanouts
  <2>2. y \div Fanout \in 0 .. (Fanout - 1)
    BY <2>1, Fanouts, DivBelow, Zenon
  <2> QED BY Zenon, <2>1, <2>2, Fanouts, DivMod
<1>4. Start(id) = [node |-> Root(2), path |-> <<a, b, c>>]
  <2>0. a \in Nat /\ b \in Nat /\ c \in Nat
    BY <1>2, <1>3, Fanouts
  <2>1. PathL1(y) = <<b, c>>
    <3>1. <<b>> \o <<c>> = <<b, c>>
      <4> HIDE DEF b, c
      <4> QED BY <2>0, Concat, Zenon
    <3> QED BY Zenon, <3>1 DEF PathL1, PathL0
  <2>2. PathL2(x) = <<a, b, c>>
    <3>1. <<a>> \o <<b, c>> = <<a, b, c>>
      <4> HIDE DEF a, b, c
      <4> QED BY <2>0, Concat, ZenonT(60)
    <3>2. PathL2(x) = <<a>> \o PathL1(y)
      BY Zenon DEF PathL2
    <3> QED BY <2>1, <3>1, <3>2, Zenon
  <2> QED BY Zenon, <2>2 DEF Start
<1>5. id = L1Fanout + (L1Fanout * a + (Fanout * b + c))
  BY <1>1, <1>2, <1>3, Fanouts
<1> HIDE DEF a, b, c
<1> QED BY Zenon, <1>2, <1>3, <1>4, <1>5

\* The three kinds of ids
Way1(id) ==
    /\ Depth(id) = 1 /\ Node1(id) = Root(0) /\ Start(id).path = <<Pos(id, 1)>>
    /\ Pos(id, 1) \in 0 .. (Fanout - 1) /\ id = Pos(id, 1)
Way2(id) ==
    /\ Depth(id) = 2 /\ Node1(id) = Root(1) /\ Start(id).path = <<Pos(id, 1), Pos(id, 2)>>
    /\ Pos(id, 1) \in 0 .. (Fanout - 2) /\ Pos(id, 2) \in 0 .. (Fanout - 1)
    /\ id = Fanout + (Fanout * Pos(id, 1) + Pos(id, 2))
Way3(id) ==
    /\ Depth(id) = 3 /\ Node1(id) = Root(2)
    /\ Start(id).path = <<Pos(id, 1), Pos(id, 2), Pos(id, 3)>>
    /\ Pos(id, 1) \in 0 .. (Fanout - 2) /\ Pos(id, 2) \in 0 .. (Fanout - 1)
    /\ Pos(id, 3) \in 0 .. (Fanout - 1)
    /\ id = L1Fanout + (L1Fanout * Pos(id, 1) + (Fanout * Pos(id, 2) + Pos(id, 3)))

\* Every id is of one of the three kinds.
LEMMA Ways ==
    ASSUME NEW id \in Ids
    PROVE  Way1(id) \/ Way2(id) \/ Way3(id)
<1>1. CASE id < L0Fanout
  <2>1. PICK a \in 0 .. (Fanout - 1) : Start(id) = [node |-> Root(0), path |-> <<a>>] /\ id = a
    BY Zenon, <1>1, StartL0
  <2>2. Pos(id, 1) = a /\ Depth(id) = 1 /\ Node1(id) = Root(0) /\ Start(id).path = <<a>>
    BY <2>1 DEF Pos, Depth, Node1
  <2> QED BY Zenon, <2>1, <2>2 DEF Way1
<1>2. CASE ~(id < L0Fanout) /\ id < L1Fanout
  <2>1. PICK a \in 0 .. (Fanout - 2), b \in 0 .. (Fanout - 1) :
           Start(id) = [node |-> Root(1), path |-> <<a, b>>] /\ id = Fanout + (Fanout * a + b)
    BY Zenon, <1>2, StartL1
  <2>2. /\ Pos(id, 1) = a /\ Pos(id, 2) = b /\ Depth(id) = 2 /\ Node1(id) = Root(1)
        /\ Start(id).path = <<a, b>>
    BY <2>1 DEF Pos, Depth, Node1
  <2> QED BY Zenon, <2>1, <2>2 DEF Way2
<1>3. CASE ~(id < L0Fanout) /\ ~(id < L1Fanout)
  <2>1. PICK a \in 0 .. (Fanout - 2), b \in 0 .. (Fanout - 1), c \in 0 .. (Fanout - 1) :
           /\ Start(id) = [node |-> Root(2), path |-> <<a, b, c>>]
           /\ id = L1Fanout + (L1Fanout * a + (Fanout * b + c))
    BY Zenon, <1>3, StartL2
  <2>2. /\ Pos(id, 1) = a /\ Pos(id, 2) = b /\ Pos(id, 3) = c
        /\ Depth(id) = 3 /\ Node1(id) = Root(2) /\ Start(id).path = <<a, b, c>>
    BY <2>1 DEF Pos, Depth, Node1
  <2> QED BY Zenon, <2>1, <2>2 DEF Way3
<1> QED BY Zenon, <1>1, <1>2, <1>3

\* The kinds exclude each other.
LEMMA OneWay ==
    \A id : /\ Way1(id) => ~Way2(id) /\ ~Way3(id)
            /\ Way2(id) => ~Way1(id) /\ ~Way3(id)
            /\ Way3(id) => ~Way1(id) /\ ~Way2(id)
  BY DEF Way1, Way2, Way3

\* The address that Word finds, by the kind of the id
LEMMA Words ==
    ASSUME NEW id \in Ids
    PROVE  /\ Way1(id) => Word(id) = At(Node1(id), Pos(id, 1))
           /\ Way2(id) => Word(id) = IF Node2(id) = 0 THEN 0 ELSE At(Node2(id), Pos(id, 2))
           /\ Way3(id) => Word(id) = IF Node2(id) = 0 \/ Node3(id) = 0 THEN 0
                                    ELSE At(Node3(id), Pos(id, 3))
<1>1. ASSUME Depth(id) = 1 PROVE Word(id) = At(Node1(id), Pos(id, 1))
  BY <1>1 DEF Word, Depth, Node1, Pos
<1>2. ASSUME Depth(id) = 2
      PROVE  Word(id) = IF Node2(id) = 0 THEN 0 ELSE At(Node2(id), Pos(id, 2))
  BY <1>2 DEF Word, Depth, Node1, Node2, Pos
<1>3. ASSUME Depth(id) = 3
      PROVE  Word(id) = IF Node2(id) = 0 \/ Node3(id) = 0 THEN 0 ELSE At(Node3(id), Pos(id, 3))
  BY <1>3 DEF Word, Depth, Node1, Node2, Node3, Pos
<1> QED BY Zenon, <1>1, <1>2, <1>3 DEF Way1, Way2, Way3

-----------------------------------------------------------------------------
(* The nodes of the table *)

\* The numbers of the roots and the lengths of the arrays
LEMMA RootFacts ==
    /\ Root(0) = 0 /\ Root(1) = -1 /\ Root(2) = -2
    /\ Places(Root(0)) = 0 .. (Fanout - 1)
    /\ Places(Root(1)) = 0 .. (Fanout - 2) /\ Places(Root(2)) = 0 .. (Fanout - 2)
    /\ \A n \in Nat : Length(n) = Fanout /\ Places(n) = 0 .. (Fanout - 1)
<1>1. Root(0) = 0 /\ Root(1) = -1 /\ Root(2) = -2
  BY DEF Root
<1>2. Length(Root(1)) = Fanout - 1 /\ Length(Root(2)) = Fanout - 1
  BY Zenon DEF Length
<1>3. \A n \in Nat : Length(n) = Fanout
  BY <1>1 DEF Length
<1> QED BY <1>1, <1>2, <1>3, Fanouts DEF Places

\* What is a child
LEMMA ChildrenFacts ==
    /\ \A n, c : c \in Children(n) <=> c # 0 /\ \E i \in Places(n) : c = At(n, i)
    /\ Owned = Children(Root(1)) \cup Children(Root(2)) \cup UNION {Children(n) : n \in Children(Root(2))}
    /\ Owned = UNION {Children(n) : n \in Inner}
    /\ Leaves \subseteq Owned \cup {Root(0)} /\ Inner \subseteq Owned \cup {Root(1), Root(2)}
  BY DEF Children, Places, Owned, Inner, Leaves

\* The nodes under the roots are numbers from 1, and pointers and addresses are apart.
LEMMA NodeFacts ==
    ASSUME TypeInv, TableInv
    PROVE  /\ Owned \subseteq 1 .. used /\ used \in Nat
           /\ Inner \cap Leaves = {}
           /\ Owned \cap Roots = {}
           /\ \A n, m \in Inner : n # m => Children(n) \cap Children(m) = {}
<1>1. used \in Nat
  BY BoundAssumption DEF TypeInv
<1>2. \A n \in Inner : Children(n) \subseteq 1 .. used
  BY <1>1, ChildrenFacts DEF TableInv
<1>3. Owned \subseteq 1 .. used
  BY <1>2, ChildrenFacts
<1>4. \A n, m \in Inner : n # m => Children(n) \cap Children(m) = {}
  BY ChildrenFacts DEF TableInv
<1>5. Owned \cap Roots = {}
  BY <1>1, <1>3, RootFacts DEF Roots
<1>6. Inner \cap Leaves = {}
  <2>1. Root(1) \in Inner /\ Root(2) \in Inner /\ Children(Root(2)) \subseteq Inner
    BY Zenon DEF Inner
  <2>2. \A n \in Children(Root(2)) : n \in Owned /\ n # Root(2)
    BY Zenon, <1>5, ChildrenFacts DEF Roots
  <2>3. Children(Root(2)) \cap Children(Root(1)) = {}
    BY <1>4, <2>1, RootFacts
  <2>4. \A n \in Children(Root(2)) : Children(Root(2)) \cap Children(n) = {}
    BY Zenon, <1>4, <2>1, <2>2
  <2>5. Children(Root(2)) \cap Leaves = {}
    BY <1>5, <2>2, <2>3, <2>4 DEF Leaves, Roots
  <2>6. Root(1) \notin Leaves /\ Root(2) \notin Leaves
    <3>1. Root(1) \notin Owned /\ Root(2) \notin Owned
      BY Zenon, <1>5 DEF Roots
    <3> QED BY <3>1, ChildrenFacts, RootFacts
  <2> QED BY Zenon, <2>5, <2>6 DEF Inner
<1> QED BY Zenon, <1>1, <1>3, <1>4, <1>5, <1>6

\* The nodes on the way to a word
LEMMA WayNodes ==
    ASSUME TypeInv, TableInv, NEW id \in Ids
    PROVE  /\ Way1(id) => Node1(id) \in Leaves /\ Pos(id, 1) \in Places(Node1(id))
           /\ Way2(id) => /\ Node1(id) \in Inner /\ Pos(id, 1) \in Places(Node1(id))
                          /\ Node2(id) # 0 => /\ Node2(id) \in Leaves /\ Node2(id) \in Owned
                                              /\ Pos(id, 2) \in Places(Node2(id))
           /\ Way3(id) => /\ Node1(id) \in Inner /\ Pos(id, 1) \in Places(Node1(id))
                          /\ Node2(id) # 0 => /\ Node2(id) \in Inner /\ Node2(id) \in Owned
                                              /\ Pos(id, 2) \in Places(Node2(id))
                          /\ Node2(id) # 0 /\ Node3(id) # 0 =>
                                /\ Node3(id) \in Leaves /\ Node3(id) \in Owned
                                /\ Pos(id, 3) \in Places(Node3(id))
<1>0. \A n \in Owned : n \in Nat /\ Places(n) = 0 .. (Fanout - 1)
  BY NodeFacts, RootFacts
<1>1. ASSUME Way1(id) PROVE Node1(id) \in Leaves /\ Pos(id, 1) \in Places(Node1(id))
  BY <1>1, RootFacts, Zenon DEF Way1, Leaves
<1>2. ASSUME Way2(id)
      PROVE  /\ Node1(id) \in Inner /\ Pos(id, 1) \in Places(Node1(id))
             /\ Node2(id) # 0 => /\ Node2(id) \in Leaves /\ Node2(id) \in Owned
                                 /\ Pos(id, 2) \in Places(Node2(id))
  <2>1. Node1(id) \in Inner /\ Pos(id, 1) \in Places(Node1(id)) /\ Node1(id) = Root(1)
    BY <1>2, RootFacts, Zenon DEF Way2, Inner
  <2>2. Node2(id) # 0 => Node2(id) \in Children(Root(1))
    BY Zenon, <2>1, ChildrenFacts DEF Node2
  <2>3. Node2(id) # 0 => Node2(id) \in Leaves /\ Node2(id) \in Owned
    BY Zenon, <2>2, ChildrenFacts DEF Leaves
  <2> QED BY <1>0, <1>2, <2>1, <2>3, Zenon DEF Way2
<1>3. ASSUME Way3(id)
      PROVE  /\ Node1(id) \in Inner /\ Pos(id, 1) \in Places(Node1(id))
             /\ Node2(id) # 0 => /\ Node2(id) \in Inner /\ Node2(id) \in Owned
                                 /\ Pos(id, 2) \in Places(Node2(id))
             /\ Node2(id) # 0 /\ Node3(id) # 0 =>
                   /\ Node3(id) \in Leaves /\ Node3(id) \in Owned
                   /\ Pos(id, 3) \in Places(Node3(id))
  <2>1. Node1(id) \in Inner /\ Pos(id, 1) \in Places(Node1(id)) /\ Node1(id) = Root(2)
    BY <1>3, RootFacts, Zenon DEF Way3, Inner
  <2>2. Node2(id) # 0 => Node2(id) \in Children(Root(2))
    BY Zenon, <2>1, ChildrenFacts DEF Node2
  <2>3. Node2(id) # 0 => Node2(id) \in Inner /\ Node2(id) \in Owned
    BY Zenon, <2>2, ChildrenFacts DEF Inner
  <2>4. Node2(id) # 0 => Pos(id, 2) \in Places(Node2(id))
    BY <1>0, <1>3, <2>3, Zenon DEF Way3
  <2>5. Node2(id) # 0 /\ Node3(id) # 0 => Node3(id) \in Children(Node2(id))
    BY Zenon, <2>4, ChildrenFacts DEF Node3
  <2>6. Node2(id) # 0 /\ Node3(id) # 0 => Node3(id) \in Leaves /\ Node3(id) \in Owned
    BY <2>2, <2>5, ChildrenFacts DEF Leaves
  <2> QED BY <1>0, <1>3, <2>1, <2>3, <2>4, <2>6, Zenon DEF Way3
<1> QED BY Zenon, <1>1, <1>2, <1>3

\* A thread on its way is in an inner node or has found its word.
LEMMA WayFacts ==
    ASSUME TypeInv, TableInv, NEW id \in Ids, NEW path, NEW node, OnWay(id, path, node)
    PROVE  /\ path \in Seq(Nat) /\ Len(path) \in 1..3 /\ node \in Owned \cup Roots /\ node \in Int
           /\ Head(path) \in Places(node)
           /\ Len(path) > 1 => node \in Inner /\ Tail(path) \in Seq(Nat)
           /\ Len(path) = 1 => node \in Leaves /\ Word(id) = At(node, Head(path))
<1>0. \A n \in Owned \cup Roots : n \in Int
  BY NodeFacts, RootFacts DEF Roots
<1>1. CASE Way1(id)
  <2>1. path = <<Pos(id, 1)>> /\ node = Node1(id) /\ Pos(id, 1) \in Nat
    BY <1>1, Fanouts DEF OnWay, Way1
  <2>2. Len(path) = 1 /\ Head(path) = Pos(id, 1) /\ path \in Seq(Nat)
    BY <2>1
  <2>3. node \in Leaves /\ Head(path) \in Places(node) /\ node \in Owned \cup Roots
    BY Zenon, <1>1, <2>1, <2>2, WayNodes DEF Way1, Roots
  <2> QED BY <1>0, <1>1, <2>1, <2>2, <2>3, Words
<1>2. CASE Way2(id)
  <2>0. Pos(id, 1) \in Nat /\ Pos(id, 2) \in Nat
    BY <1>2, Fanouts DEF Way2
  <2>1. CASE path = <<Pos(id, 1), Pos(id, 2)>> /\ node = Node1(id)
    <3>1. Len(path) = 2 /\ Head(path) = Pos(id, 1) /\ path \in Seq(Nat) /\ Tail(path) \in Seq(Nat)
      BY <2>0, <2>1
    <3>2. node \in Inner /\ Head(path) \in Places(node) /\ node \in Owned \cup Roots
      BY Zenon, <1>2, <2>1, <3>1, WayNodes DEF Way2, Roots
    <3> QED BY <1>0, <3>1, <3>2
  <2>2. CASE path = <<Pos(id, 2)>> /\ node = Node2(id) /\ Node2(id) # 0
    <3>1. Len(path) = 1 /\ Head(path) = Pos(id, 2) /\ path \in Seq(Nat)
      BY <2>0, <2>2
    <3>2. node \in Leaves /\ Head(path) \in Places(node) /\ node \in Owned \cup Roots
      BY Zenon, <1>2, <2>2, <3>1, WayNodes
    <3> QED BY <1>0, <1>2, <2>2, <3>1, <3>2, Words
  <2> QED BY <1>2, <2>1, <2>2 DEF OnWay, Way2
<1>3. CASE Way3(id)
  <2>0. Pos(id, 1) \in Nat /\ Pos(id, 2) \in Nat /\ Pos(id, 3) \in Nat
    BY <1>3, Fanouts DEF Way3
  <2>1. CASE path = <<Pos(id, 1), Pos(id, 2), Pos(id, 3)>> /\ node = Node1(id)
    <3>1. Len(path) = 3 /\ Head(path) = Pos(id, 1) /\ path \in Seq(Nat) /\ Tail(path) \in Seq(Nat)
      BY <2>0, <2>1
    <3>2. node \in Inner /\ Head(path) \in Places(node) /\ node \in Owned \cup Roots
      BY Zenon, <1>3, <2>1, <3>1, WayNodes DEF Way3, Roots
    <3> QED BY <1>0, <3>1, <3>2
  <2>2. CASE path = <<Pos(id, 2), Pos(id, 3)>> /\ node = Node2(id) /\ Node2(id) # 0
    <3>1. Len(path) = 2 /\ Head(path) = Pos(id, 2) /\ path \in Seq(Nat) /\ Tail(path) \in Seq(Nat)
      BY <2>0, <2>2
    <3>2. node \in Inner /\ Head(path) \in Places(node) /\ node \in Owned \cup Roots
      BY Zenon, <1>3, <2>2, <3>1, WayNodes
    <3> QED BY <1>0, <3>1, <3>2
  <2>3. CASE path = <<Pos(id, 3)>> /\ node = Node3(id) /\ Node2(id) # 0 /\ Node3(id) # 0
    <3>1. Len(path) = 1 /\ Head(path) = Pos(id, 3) /\ path \in Seq(Nat)
      BY <2>0, <2>3
    <3>2. node \in Leaves /\ Head(path) \in Places(node) /\ node \in Owned \cup Roots
      BY Zenon, <1>3, <2>3, <3>1, WayNodes
    <3> QED BY <1>0, <1>3, <2>3, <3>1, <3>2, Words
  <2> QED BY <1>3, <2>1, <2>2, <2>3 DEF OnWay, Way3
<1> QED BY Zenon, <1>1, <1>2, <1>3, Ways

\* The last node on the way to the word of an id
Ends(id, node, i) ==
    \/ Way1(id) /\ node = Node1(id) /\ i = Pos(id, 1)
    \/ Way2(id) /\ node = Node2(id) /\ Node2(id) # 0 /\ i = Pos(id, 2)
    \/ Way3(id) /\ node = Node3(id) /\ Node2(id) # 0 /\ Node3(id) # 0 /\ i = Pos(id, 3)

\* No two ids share a word.
LEMMA WaysApart ==
    ASSUME TypeInv, TableInv, NEW x \in Ids, NEW y \in Ids, NEW node, NEW i,
           Ends(x, node, i), Ends(y, node, i)
    PROVE  x = y
<1>0. /\ Root(0) = 0 /\ Root(1) \notin Owned
      /\ \A n, m \in Inner : \A k \in Places(n), j \in Places(m) :
            At(n, k) = At(m, j) /\ At(n, k) # 0 => n = m /\ k = j
  BY RootFacts, NodeFacts DEF Roots, TableInv
<1>1. CASE Way1(x) /\ Way1(y)
  BY Zenon, <1>1 DEF Ends, Way1, Way2, Way3
<1>2. CASE Way2(x) /\ Way2(y)
  <2>1. /\ node = Node2(x) /\ node = Node2(y) /\ node # 0 /\ Pos(x, 2) = Pos(y, 2)
        /\ Node1(x) = Root(1) /\ Node1(y) = Root(1)
    BY <1>2 DEF Ends, Way1, Way2, Way3
  <2>2. Pos(x, 1) = Pos(y, 1)
    BY <1>0, <1>2, <2>1, WayNodes DEF Node2
  <2> QED BY Zenon, <1>2, <2>1, <2>2 DEF Way2
<1>3. CASE Way3(x) /\ Way3(y)
  <2>1. /\ node = Node3(x) /\ node = Node3(y) /\ node # 0 /\ Pos(x, 3) = Pos(y, 3)
        /\ Node1(x) = Root(2) /\ Node1(y) = Root(2) /\ Node2(x) # 0 /\ Node2(y) # 0
    BY <1>3 DEF Ends, Way1, Way2, Way3
  <2>2. Node2(x) = Node2(y) /\ Pos(x, 2) = Pos(y, 2)
    BY <1>0, <1>3, <2>1, WayNodes DEF Node3
  <2>3. Pos(x, 1) = Pos(y, 1)
    BY <1>0, <1>3, <2>1, <2>2, WayNodes DEF Node2
  <2> QED BY Zenon, <1>3, <2>1, <2>2, <2>3 DEF Way3
<1>4. ASSUME NEW a \in Ids, NEW b \in Ids, Way1(a), ~Way1(b), Ends(a, node, i), Ends(b, node, i)
      PROVE  FALSE
  <2>1. node = Root(0) /\ node # 0
    BY <1>4 DEF Ends, Way1, Way2, Way3
  <2> QED BY Zenon, <1>0, <2>1
<1>5. ASSUME NEW a \in Ids, NEW b \in Ids, Way2(a), Way3(b), Ends(a, node, i), Ends(b, node, i)
      PROVE  FALSE
  <2>1. /\ node = Node2(a) /\ node = Node3(b) /\ node # 0 /\ Node2(b) # 0 /\ Node1(a) = Root(1)
    BY <1>5 DEF Ends, Way1, Way2, Way3
  <2>2. Root(1) = Node2(b)
    BY <1>0, <1>5, <2>1, WayNodes DEF Node2, Node3
  <2>3. Node2(b) \in Owned
    BY Zenon, <1>5, <2>1, WayNodes
  <2> QED BY Zenon, <1>0, <2>2, <2>3
<1> QED BY Zenon, <1>1, <1>2, <1>3, <1>4, <1>5, Ways

-----------------------------------------------------------------------------
(* What a store to a slot changes *)

\* What is at position i of node n when the slots are s
AtIn(s, n, i) == IF <<n, i>> \in DOMAIN s THEN s[<<n, i>>] ELSE 0

\* The nodes on the way to a word when the slots are s
Node2In(s, id) == AtIn(s, Node1(id), Pos(id, 1))
Node3In(s, id) == AtIn(s, Node2In(s, id), Pos(id, 2))

\* A store changes one position.
LEMMA AtPut ==
    ASSUME NEW n, NEW i, NEW v, Put(n, i, v)
    PROVE  /\ \A m, j : AtIn(slots', m, j) = IF m = n /\ j = i THEN v ELSE At(m, j)
           /\ DOMAIN slots' = DOMAIN slots \cup {<<n, i>>}
  BY Zenon DEF Put, At, AtIn

\* The definitions of children and words, after a step
LEMMA ChildrenNext ==
    /\ \A n, c : c \in Children(n)' <=> c # 0 /\ \E i \in Places(n) : c = AtIn(slots', n, i)
    /\ Inner' = {Root(1), Root(2)} \cup Children(Root(2))'
    /\ \A c : c \in Owned' <=> \E n \in Inner' : c \in Children(n)'
<1>1. \A n, c : c \in Children(n)' <=> c # 0 /\ \E i \in Places(n) : c = AtIn(slots', n, i)
  BY Zenon DEF Children, Places, At, AtIn
<1>2. Inner' = {Root(1), Root(2)} \cup Children(Root(2))'
  BY Zenon DEF Inner
<1>3. Owned' = Children(Root(1))' \cup Children(Root(2))' \cup UNION {Children(n)' : n \in Children(Root(2))'}
  BY Zenon DEF Owned
<1> QED BY Zenon, <1>1, <1>2, <1>3

\* The word at the end of a way, after a step
LEMMA WordsNext ==
    ASSUME NEW id \in Ids
    PROVE  /\ Way1(id) => Word(id)' = AtIn(slots', Node1(id), Pos(id, 1))
           /\ Way2(id) => Word(id)' = IF Node2In(slots', id) = 0 THEN 0
                                     ELSE AtIn(slots', Node2In(slots', id), Pos(id, 2))
           /\ Way3(id) => Word(id)' = IF Node2In(slots', id) = 0 \/ Node3In(slots', id) = 0 THEN 0
                                     ELSE AtIn(slots', Node3In(slots', id), Pos(id, 3))
<1>1. ASSUME Depth(id) = 1 PROVE Word(id)' = AtIn(slots', Node1(id), Pos(id, 1))
  BY <1>1 DEF Word, Depth, Node1, Pos, At, AtIn
<1>2. ASSUME Depth(id) = 2
      PROVE  Word(id)' = IF Node2In(slots', id) = 0 THEN 0
                         ELSE AtIn(slots', Node2In(slots', id), Pos(id, 2))
  BY <1>2 DEF Word, Depth, Node1, Node2In, Pos, At, AtIn
<1>3. ASSUME Depth(id) = 3
      PROVE  Word(id)' = IF Node2In(slots', id) = 0 \/ Node3In(slots', id) = 0 THEN 0
                         ELSE AtIn(slots', Node3In(slots', id), Pos(id, 3))
  BY <1>3 DEF Word, Depth, Node1, Node2In, Node3In, Pos, At, AtIn
<1> QED BY Zenon, <1>1, <1>2, <1>3 DEF Way1, Way2, Way3

\* Pointers are never changed once they are set.
PointersStay == \A n \in Inner : \A j \in Places(n) : At(n, j) # 0 => AtIn(slots', n, j) = At(n, j)

\* The installation of a child adds it to the table and changes no word.
LEMMA PointerStep ==
    ASSUME TypeInv, TableInv, NEW nd \in Inner, NEW i \in Places(nd), At(nd, i) = 0,
           NEW c \in (1 .. used) \ Owned, Put(nd, i, c), used' = used
    PROVE  /\ TableInv' /\ PointersStay
           /\ Owned' = Owned \cup {c}
           /\ \A id \in Ids : Word(id)' = Word(id)
<1>1. /\ \A m, j : AtIn(slots', m, j) = IF m = nd /\ j = i THEN c ELSE At(m, j)
      /\ DOMAIN slots' = DOMAIN slots \cup {<<nd, i>>}
  BY AtPut, Zenon
<1>2. /\ used \in Nat /\ c \in Nat /\ c # 0 /\ c \notin Owned \cup Roots /\ c \notin Inner
  <2>1. used \in Nat /\ c \in Nat /\ c # 0
    BY NodeFacts
  <2>2. c \notin Roots
    BY <2>1, RootFacts DEF Roots
  <2>3. Inner \subseteq Owned \cup Roots
    BY Zenon, ChildrenFacts DEF Roots
  <2> QED BY Zenon, <2>1, <2>2, <2>3
<1>3. \A j : At(c, j) = 0 /\ AtIn(slots', c, j) = 0
  <2>1. \A j : <<c, j>> \notin DOMAIN slots
    BY Zenon, <1>2 DEF TableInv
  <2> QED BY Zenon, <1>1, <1>2, <2>1 DEF At
<1>4. \A n \in Inner : \A j \in Places(n) : At(n, j) # c
  BY <1>2, ChildrenFacts
<1>5. PointersStay
  BY Zenon, <1>1 DEF PointersStay
<1>6. /\ \A n : n # nd => Children(n)' = Children(n)
      /\ Children(nd)' = Children(nd) \cup {c}
      /\ Children(c)' = {}
  <2>1. ASSUME NEW n, n # nd PROVE Children(n)' = Children(n)
    <3>1. \A x : x \in Children(n)' <=> x \in Children(n)
      BY <1>1, <2>1, ChildrenNext, ChildrenFacts
    <3> QED BY <3>1, Zenon
  <2>2. Children(nd)' = Children(nd) \cup {c}
    <3>1. \A x : x \in Children(nd)' <=> x \in Children(nd) \cup {c}
      BY <1>1, <1>2, ChildrenNext, ChildrenFacts
    <3> QED BY Zenon, <3>1
  <2>3. Children(c)' = {}
    <3>1. \A x : x \notin Children(c)'
      BY Zenon, <1>3, ChildrenNext
    <3> QED BY Zenon, <3>1
  <2> QED BY Zenon, <2>1, <2>2, <2>3
<1>7. Inner' = IF nd = Root(2) THEN Inner \cup {c} ELSE Inner
  BY Zenon, <1>6, ChildrenNext DEF Inner
<1>8. Owned' = Owned \cup {c}
  <2>1. \A x : x \in Owned' => x \in Owned \cup {c}
    BY <1>6, <1>7, ChildrenNext, ChildrenFacts
  <2>2. \A x : x \in Owned \cup {c} => x \in Owned'
    BY <1>6, <1>7, ChildrenNext, ChildrenFacts
  <2> QED BY Zenon, <2>1, <2>2
<1>9. TableInv'
  <2>1. \A n \in Inner' : \A j \in Places(n) : AtIn(slots', n, j) \in 0 .. used'
    BY <1>1, <1>2, <1>3, <1>7 DEF TableInv
  <2>2. \A n, m \in Inner' : \A k \in Places(n), j \in Places(m) :
           AtIn(slots', n, k) = AtIn(slots', m, j) /\ AtIn(slots', n, k) # 0 => n = m /\ k = j
    BY <1>1, <1>3, <1>4, <1>7 DEF TableInv
  <2>3. \A s \in DOMAIN slots' : s[1] \in Owned' \cup Roots
    <3>1. nd \in Owned \cup Roots
      BY ChildrenFacts DEF Roots
    <3> QED BY <1>1, <1>8, <3>1 DEF TableInv
  <2>4. /\ \A n, j : At(n, j)' = AtIn(slots', n, j)
    BY Zenon DEF At, AtIn
  <2> QED BY <2>1, <2>2, <2>3, <2>4 DEF TableInv, Places, Roots
<1>10. ASSUME NEW id \in Ids PROVE Word(id)' = Word(id)
  <2>0. /\ \A m \in Leaves : \A j : AtIn(slots', m, j) = At(m, j)
        /\ \A m, j : AtIn(slots', m, j) = At(m, j) \/ (At(m, j) = 0 /\ AtIn(slots', m, j) = c)
        /\ c # 0
    BY Zenon, <1>1, <1>2, NodeFacts
  <2>1. CASE Way1(id)
    BY <2>0, <2>1, WayNodes, Words, WordsNext
  <2>2. CASE Way2(id)
    <3>1. Node2In(slots', id) = Node2(id) \/ (Node2(id) = 0 /\ Node2In(slots', id) = c)
      BY Zenon, <2>0 DEF Node2, Node2In
    <3> QED BY <1>3, <2>0, <2>2, <3>1, WayNodes, Words, WordsNext
  <2>3. CASE Way3(id)
    <3>1. Node2In(slots', id) = Node2(id) \/ (Node2(id) = 0 /\ Node2In(slots', id) = c)
      BY Zenon, <2>0 DEF Node2, Node2In
    <3>2. CASE Node2(id) = 0
      <4>1. Node2In(slots', id) = 0 \/ Node3In(slots', id) = 0
        BY Zenon, <1>3, <3>1, <3>2 DEF Node3In
      <4> QED BY Zenon, <2>3, <3>2, <4>1, Words, WordsNext
    <3>3. CASE Node2(id) # 0
      <4>1. Node3In(slots', id) = Node3(id) \/ (Node3(id) = 0 /\ Node3In(slots', id) = c)
        BY <2>0, <3>1, <3>3 DEF Node3, Node3In
      <4> QED BY <1>3, <2>0, <2>3, <3>1, <3>3, <4>1, WayNodes, Words, WordsNext
    <3> QED BY Zenon, <3>2, <3>3
  <2> QED BY Zenon, <2>1, <2>2, <2>3, Ways
<1> QED BY Zenon, <1>5, <1>8, <1>9, <1>10

\* A store to an address changes the word of one id and no pointer.
LEMMA AddressStep ==
    ASSUME TypeInv, TableInv, NEW x \in Ids, NEW nd, NEW i, NEW v, Ends(x, nd, i),
           Put(nd, i, v), used' = used
    PROVE  /\ TableInv' /\ PointersStay /\ Owned' = Owned
           /\ Word(x)' = v
           /\ \A id \in Ids \ {x} : Word(id)' = Word(id)
<1>1. /\ \A m, j : AtIn(slots', m, j) = IF m = nd /\ j = i THEN v ELSE At(m, j)
      /\ DOMAIN slots' = DOMAIN slots \cup {<<nd, i>>}
  BY AtPut, Zenon
<1>2. nd \in Leaves
  BY Zenon, WayNodes DEF Ends
<1>3. \A m \in Inner : \A j : AtIn(slots', m, j) = At(m, j)
  BY Zenon, <1>1, <1>2, NodeFacts
<1>4. ASSUME NEW m \in Inner PROVE Children(m)' = Children(m)
  <2>1. \A y : y \in Children(m)' <=> y \in Children(m)
    BY <1>3, ChildrenNext, ChildrenFacts
  <2> QED BY Zenon, <2>1
<1>5. Inner' = Inner
  BY Zenon, <1>4, ChildrenNext DEF Inner
<1>6. Owned' = Owned
  BY <1>4, <1>5, ChildrenNext, ChildrenFacts
<1>7. PointersStay
  BY Zenon, <1>3 DEF PointersStay
<1>8. TableInv'
  <2>1. \A n, j : At(n, j)' = AtIn(slots', n, j)
    BY Zenon DEF At, AtIn
  <2>2. \A s \in DOMAIN slots' : s[1] \in Owned' \cup Roots
    <3>1. nd \in Owned \cup Roots
      BY Zenon, <1>2, ChildrenFacts DEF Roots
    <3> QED BY <1>1, <1>6, <3>1 DEF TableInv
  <2> QED BY <1>3, <1>5, <2>1, <2>2 DEF TableInv, Places, Roots
<1>9. \A id \in Ids :
         /\ Way2(id) \/ Way3(id) => Node2In(slots', id) = Node2(id)
         /\ Way3(id) /\ Node2(id) # 0 => Node3In(slots', id) = Node3(id)
  <2> SUFFICES ASSUME NEW id \in Ids
               PROVE  /\ Way2(id) \/ Way3(id) => Node2In(slots', id) = Node2(id)
                      /\ Way3(id) /\ Node2(id) # 0 => Node3In(slots', id) = Node3(id)
    BY Zenon
  <2>1. Way2(id) \/ Way3(id) => Node2In(slots', id) = Node2(id)
    BY Zenon, <1>3, WayNodes DEF Node2, Node2In
  <2>2. Way3(id) /\ Node2(id) # 0 => Node3In(slots', id) = Node3(id)
    BY Zenon, <1>3, <2>1, WayNodes DEF Node3, Node3In
  <2> QED BY Zenon, <2>1, <2>2
<1>10. Word(x)' = v
  <2>0. AtIn(slots', nd, i) = v
    BY Zenon, <1>1
  <2>1. CASE Way1(x)
    <3>1. nd = Node1(x) /\ i = Pos(x, 1)
      BY Zenon, <2>1, OneWay DEF Ends
    <3> QED BY <2>0, <2>1, <3>1, WordsNext
  <2>2. CASE Way2(x)
    <3>1. nd = Node2(x) /\ nd # 0 /\ i = Pos(x, 2)
      BY Zenon, <2>2, OneWay DEF Ends
    <3>2. Node2In(slots', x) = nd
      BY Zenon, <1>9, <2>2, <3>1
    <3> QED BY Zenon, <2>0, <2>2, <3>1, <3>2, WordsNext
  <2>3. CASE Way3(x)
    <3>1. nd = Node3(x) /\ Node2(x) # 0 /\ nd # 0 /\ i = Pos(x, 3)
      BY Zenon, <2>3, OneWay DEF Ends
    <3>2. Node2In(slots', x) = Node2(x) /\ Node3In(slots', x) = nd
      BY Zenon, <1>9, <2>3, <3>1
    <3> QED BY Zenon, <2>0, <2>3, <3>1, <3>2, WordsNext
  <2> QED BY Zenon, <2>1, <2>2, <2>3, Ways
<1>11. ASSUME NEW id \in Ids \ {x} PROVE Word(id)' = Word(id)
  <2>1. \A m, j : Ends(id, m, j) => AtIn(slots', m, j) = At(m, j)
    BY Zenon, <1>1, <1>11, WaysApart
  <2>2. CASE Way1(id)
    BY <2>1, <2>2, Words, WordsNext DEF Ends
  <2>3. CASE Way2(id)
    <3>1. Node2In(slots', id) = Node2(id)
      BY Zenon, <1>9, <2>3
    <3>2. Node2(id) # 0 => AtIn(slots', Node2(id), Pos(id, 2)) = At(Node2(id), Pos(id, 2))
      BY Zenon, <2>1, <2>3 DEF Ends
    <3> QED BY <2>3, <3>1, <3>2, Words, WordsNext
  <2>4. CASE Way3(id)
    <3>1. Node2In(slots', id) = Node2(id) /\ (Node2(id) # 0 => Node3In(slots', id) = Node3(id))
      BY Zenon, <1>9, <2>4
    <3>2. Node2(id) # 0 /\ Node3(id) # 0 =>
             AtIn(slots', Node3(id), Pos(id, 3)) = At(Node3(id), Pos(id, 3))
      BY Zenon, <2>1, <2>4 DEF Ends
    <3> QED BY <2>4, <3>1, <3>2, Words, WordsNext
  <2> QED BY Zenon, <2>2, <2>3, <2>4, Ways
<1> QED BY Zenon, <1>6, <1>7, <1>8, <1>10, <1>11

\* OnWay when the slots are s
OnWayIn(s, id, path, node) ==
    \/ path = Start(id).path /\ node = Node1(id)
    \/ Depth(id) = 2 /\ path = <<Pos(id, 2)>> /\ node = Node2In(s, id) /\ node # 0
    \/ Depth(id) = 3 /\ path = <<Pos(id, 2), Pos(id, 3)>> /\ node = Node2In(s, id) /\ node # 0
    \/ Depth(id) = 3 /\ path = <<Pos(id, 3)>> /\ node = Node3In(s, id) /\ Node2In(s, id) # 0 /\ node # 0

\* A thread stays on its way when others install nodes, ...
LEMMA WayStays ==
    ASSUME TypeInv, TableInv, PointersStay, NEW id \in Ids, NEW path, NEW node, OnWay(id, path, node)
    PROVE  OnWayIn(slots', id, path, node)
<1>1. Depth(id) = 1 => Way1(id)
  BY Ways DEF Way2, Way3
<1>2. ~Way1(id) /\ Node2(id) # 0 => Node2In(slots', id) = Node2(id)
  BY Zenon, WayNodes, Ways DEF PointersStay, Node2, Node2In
<1>3. Way3(id) /\ Node2(id) # 0 /\ Node3(id) # 0 => Node2In(slots', id) = Node2(id) /\ Node3In(slots', id) = Node3(id)
  <2>1. Way3(id) => ~Way1(id)
    BY DEF Way1, Way3
  <2> QED BY <1>2, <2>1, WayNodes, ZenonT(60) DEF PointersStay, Node3, Node3In
<1>4. CASE path = Start(id).path /\ node = Node1(id)
  BY Zenon, <1>4 DEF OnWayIn
<1>5. CASE Depth(id) = 2 /\ path = <<Pos(id, 2)>> /\ node = Node2(id) /\ Node2(id) # 0
  <2>1. Node2In(slots', id) = Node2(id)
    BY <1>2, <1>5 DEF Way1
  <2> QED BY Zenon, <1>5, <2>1 DEF OnWayIn
<1>6. CASE Depth(id) = 3 /\ path = <<Pos(id, 2), Pos(id, 3)>> /\ node = Node2(id) /\ Node2(id) # 0
  <2>1. Node2In(slots', id) = Node2(id)
    BY <1>2, <1>6 DEF Way1
  <2> QED BY Zenon, <1>6, <2>1 DEF OnWayIn
<1>7. CASE Depth(id) = 3 /\ path = <<Pos(id, 3)>> /\ node = Node3(id) /\ Node2(id) # 0 /\ Node3(id) # 0
  <2>1. Node2In(slots', id) = Node2(id) /\ Node3In(slots', id) = Node3(id)
    BY <1>3, <1>7, Ways, SMTT(60) DEF Way1, Way2
  <2> QED BY Zenon, <1>7, <2>1 DEF OnWayIn
<1> QED BY Zenon, <1>4, <1>5, <1>6, <1>7 DEF OnWay

\* ... and when it follows a pointer.
LEMMA WayBelow ==
    ASSUME NEW id \in Ids, NEW path, NEW node, OnWayIn(slots', id, path, node), Len(path) > 1,
           NEW c, c = AtIn(slots', node, Head(path)), c # 0
    PROVE  OnWayIn(slots', id, Tail(path), c)
<1>0. /\ Node2In(slots', id) = AtIn(slots', Node1(id), Pos(id, 1))
      /\ Node3In(slots', id) = AtIn(slots', Node2In(slots', id), Pos(id, 2))
  BY Zenon DEF Node2In, Node3In
<1>1. CASE path = Start(id).path /\ node = Node1(id)
  <2>1. CASE Way1(id)
    BY <1>1, <2>1 DEF Way1
  <2>2. CASE Way2(id)
    <3>1. Head(path) = Pos(id, 1) /\ Tail(path) = <<Pos(id, 2)>> /\ Depth(id) = 2
      BY <1>1, <2>2 DEF Way2
    <3>2. Node2In(slots', id) = c
      BY Zenon, <1>0, <1>1, <3>1
    <3> QED BY Zenon, <3>1, <3>2 DEF OnWayIn
  <2>3. CASE Way3(id)
    <3>1. Head(path) = Pos(id, 1) /\ Tail(path) = <<Pos(id, 2), Pos(id, 3)>> /\ Depth(id) = 3
      BY <1>1, <2>3 DEF Way3
    <3>2. Node2In(slots', id) = c
      BY Zenon, <1>0, <1>1, <3>1
    <3> QED BY Zenon, <3>1, <3>2 DEF OnWayIn
  <2> QED BY Zenon, <2>1, <2>2, <2>3, Ways
<1>2. CASE Depth(id) = 2 /\ path = <<Pos(id, 2)>>
  <2>1. Len(path) = 1
    BY Zenon, <1>2
  <2> QED BY <2>1
<1>3. CASE Depth(id) = 3 /\ path = <<Pos(id, 2), Pos(id, 3)>> /\ node = Node2In(slots', id) /\ Node2In(slots', id) # 0
  <2>1. Head(path) = Pos(id, 2) /\ Tail(path) = <<Pos(id, 3)>>
    BY <1>3
  <2>2. Node3In(slots', id) = c
    BY Zenon, <1>0, <1>3, <2>1
  <2> QED BY Zenon, <1>3, <2>1, <2>2 DEF OnWayIn
<1>4. CASE Depth(id) = 3 /\ path = <<Pos(id, 3)>>
  BY <1>4
<1> QED BY <1>1, <1>2, <1>3, <1>4, Zenon DEF OnWayIn

-----------------------------------------------------------------------------
(* Steps of the threads *)

\* The children that threads are about to install
Held == {thread[t].child : t \in {u \in Threads : thread[u] # Idle}} \ {0}
FreedOnce == \A n \in 1 .. used : frees[n] = (IF dropped \/ n \notin Owned \cup Held THEN 1 ELSE 0)
NodesOwned == \A t \in Threads : thread[t] # Idle => thread[t].node \in Owned \cup Roots

\* The two halves of ChildrenOwned, before and after a step
LEMMA OwnedFacts ==
    /\ ChildrenOwned <=> FreedOnce /\ NodesOwned
    /\ ChildrenOwned' <=> FreedOnce' /\ NodesOwned'
  BY Zenon DEF ChildrenOwned, FreedOnce, NodesOwned, Held, Roots

\* The fields of a thread that is in a call
LEMMA BusyFacts ==
    /\ Idle \notin Busy
    /\ \A r \in Busy : /\ r # Idle /\ r.pc \in {"index", "install"} /\ r.id \in Ids /\ r.op \in Ops
                       /\ r.node \in Int /\ r.path \in Seq(Nat) /\ r.child \in Nat
<1>1. Idle.pc = "idle"
  BY Zenon DEF Idle
<1> QED BY Zenon, <1>1 DEF Busy

\* What the invariant says, in the form that the steps use
LEMMA InvFacts ==
    ASSUME Inv
    PROVE  /\ TypeInv /\ TableInv /\ ThreadInv /\ FreshInv /\ FreedOnce /\ NodesOwned
           /\ used \in Nat /\ 0 \notin Held
<1>1. TypeInv /\ TableInv /\ ThreadInv /\ FreshInv /\ FreedOnce /\ NodesOwned
  BY Zenon, OwnedFacts DEF Inv
<1>2. used \in Nat
  BY <1>1, BoundAssumption DEF TypeInv
<1>3. 0 \notin Held
  BY Zenon DEF Held
<1> QED BY Zenon, <1>1, <1>2, <1>3

\* What it says of a thread that is in a call
LEMMA CallFacts ==
    ASSUME Inv, NEW t \in Threads, NEW p, p = thread[t], p # Idle
    PROVE  /\ p \in Busy /\ p.id \in Ids /\ p.op \in Ops /\ p.pc \in {"index", "install"}
           /\ OnWay(p.id, p.path, p.node) /\ ~dropped /\ answer[t] = <<>>
           /\ p.child \in 0 .. used
           /\ p.pc = "index" => p.child = 0
           /\ p.pc = "install" =>
                 /\ p.child \in (1 .. used) \ Owned /\ p.child \in Nat \ {0} /\ Len(p.path) > 1
                 /\ \A u \in Threads \ {t} : thread[u] # Idle => thread[u].child # p.child
<1>1. TypeInv /\ ThreadInv /\ used \in Nat
  BY Zenon, InvFacts
<1>2. p \in Busy
  BY Zenon, <1>1 DEF TypeInv
<1>3. p.id \in Ids /\ p.op \in Ops /\ p.pc \in {"index", "install"}
  BY Zenon, <1>2, BusyFacts
<1>4. OnWay(p.id, p.path, p.node) /\ ~dropped /\ answer[t] = <<>> /\ ChildInv(t)
  BY Zenon, <1>1 DEF ThreadInv
<1>5. /\ p.pc = "index" => p.child = 0
      /\ p.pc = "install" =>
            /\ p.child \in (1 .. used) \ Owned /\ Len(p.path) > 1
            /\ \A u \in Threads \ {t} : thread[u] # Idle => thread[u].child # p.child
  BY Zenon, <1>4 DEF ChildInv
<1>6. /\ p.child \in 0 .. used /\ (p.pc = "install" => p.child \in Nat \ {0})
  BY <1>1, <1>3, <1>5
<1> QED BY Zenon, <1>2, <1>3, <1>4, <1>5, <1>6

\* A thread whose pc is that of a call is in a call.
LEMMA InCall == \A p : p.pc # "idle" => p # Idle
  BY DEF Idle

\* The child that a thread holds, 0 if none
ChildOf(r) == IF r = Idle THEN 0 ELSE r.child

\* What a step of t does to the children that are held
LEMMA HeldStep ==
    ASSUME TypeInv, ThreadInv, NEW t \in Threads, NEW r, thread' = [thread EXCEPT ![t] = r]
    PROVE  Held' = (Held \ {ChildOf(thread[t])}) \cup ({ChildOf(r)} \ {0})
<1> DEFINE b == ChildOf(thread[t])
           d == ChildOf(r)
<1>0. /\ thread'[t] = r /\ \A u \in Threads \ {t} : thread'[u] = thread[u]
      /\ \A u \in Threads : thread[u] # Idle => thread[u] \in Busy
  BY Zenon DEF TypeInv
<1>1. \A x : x \in Held <=> x # 0 /\ \E u \in Threads : thread[u] # Idle /\ x = thread[u].child
  BY Zenon DEF Held
<1>2. \A x : x \in Held' <=> x # 0 /\ \E u \in Threads : thread'[u] # Idle /\ x = thread'[u].child
  BY Zenon DEF Held
<1>3. ASSUME NEW u \in Threads \ {t}, thread[u] # Idle, thread[u].child # 0 PROVE thread[u].child # b
  <2>1. thread[u].pc = "install"
    BY Zenon, <1>0, <1>3, BusyFacts DEF ThreadInv, ChildInv
  <2> QED BY <1>3, <2>1 DEF ThreadInv, ChildInv, ChildOf
<1>4. \A x : x \in Held' <=> x \in (Held \ {b}) \cup ({d} \ {0})
  <2>1. ASSUME NEW x, x \in Held' PROVE x \in (Held \ {b}) \cup ({d} \ {0})
    BY <1>0, <1>1, <1>2, <1>3, <2>1 DEF ChildOf
  <2>2. ASSUME NEW x, x \in Held, x # b PROVE x \in Held'
    BY <1>0, <1>1, <1>2, <2>2 DEF ChildOf
  <2>3. ASSUME d # 0 PROVE d \in Held'
    BY <1>0, <1>2, <2>3, SMTT(60) DEF ChildOf
  <2> QED BY <2>1, <2>2, <2>3
<1> QED BY Zenon, <1>4

\* A step of t that leaves it as r, and what it has to respect
MovesTo(t, r) ==
    /\ r \in {Idle} \cup Busy /\ thread' = [thread EXCEPT ![t] = r]
    /\ PointersStay /\ dropped' = dropped /\ used' \in Nat /\ used <= used'
    /\ \A u \in Threads \ {t} : answer'[u] = answer[u]
    /\ \A u \in Threads \ {t} : thread[u] # Idle /\ thread[u].pc = "install" =>
          thread[u].child \notin Owned' /\ (r # Idle => r.child # thread[u].child)
    /\ r # Idle => /\ OnWayIn(slots', r.id, r.path, r.node) /\ ~dropped /\ answer'[t] = <<>>
                   /\ r.pc = "index" => r.child = 0
                   /\ r.pc = "install" => r.child \in (1 .. used') \ Owned' /\ Len(r.path) > 1

\* Such a step keeps the other threads on their ways and their children theirs.
LEMMA ThreadStep ==
    ASSUME Inv, NEW t \in Threads, NEW r, MovesTo(t, r)
    PROVE  ThreadInv'
<1>0. /\ thread'[t] = r /\ \A u \in Threads \ {t} : thread'[u] = thread[u]
      /\ \A u \in Threads : thread[u] # Idle => thread[u] \in Busy
      /\ TypeInv /\ TableInv /\ ThreadInv /\ used \in Nat
  BY BoundAssumption DEF Inv, TypeInv, MovesTo
<1>r. /\ PointersStay /\ dropped' = dropped /\ used' \in Nat /\ used <= used'
      /\ \A u \in Threads \ {t} : answer'[u] = answer[u]
  BY Zenon DEF MovesTo
<1>o. ASSUME NEW u \in Threads \ {t}, thread[u] # Idle, thread[u].pc = "install"
      PROVE  thread[u].child \notin Owned' /\ (r # Idle => r.child # thread[u].child)
  BY Zenon, <1>o DEF MovesTo
<1>s. ASSUME r # Idle
      PROVE  /\ OnWayIn(slots', r.id, r.path, r.node) /\ ~dropped /\ answer'[t] = <<>>
             /\ r.pc = "index" => r.child = 0
             /\ r.pc = "install" => r.child \in (1 .. used') \ Owned' /\ Len(r.path) > 1
  BY Zenon, <1>s DEF MovesTo
<1>1. ASSUME NEW u \in Threads, thread'[u] # Idle
      PROVE  OnWay(thread[u].id, thread[u].path, thread[u].node)'
  <2>1. PICK q : q = thread'[u]
    BY Zenon
  <2>2. OnWayIn(slots', q.id, q.path, q.node)
    <3>1. CASE u = t
      BY Zenon, <1>0, <1>s, <1>1, <2>1, <3>1
    <3>2. CASE u # t
      <4>1. thread[u] = q /\ q \in Busy /\ q # Idle
        BY <1>0, <1>1, <2>1, <3>2
      <4>2. q.id \in Ids /\ OnWay(q.id, q.path, q.node)
        BY Zenon, <1>0, <4>1, BusyFacts DEF ThreadInv
      <4> QED BY Zenon, <1>0, <1>r, <4>2, WayStays
    <3> QED BY Zenon, <3>1, <3>2
  <2>3. /\ Node1(thread[u].id)' = Node1(q.id) /\ Depth(thread[u].id)' = Depth(q.id)
        /\ Start(thread[u].id)' = Start(q.id)
        /\ Pos(thread[u].id, 2)' = Pos(q.id, 2) /\ Pos(thread[u].id, 3)' = Pos(q.id, 3)
    BY <2>1 DEF Node1, Depth, Pos
  <2>4. /\ Node2(thread[u].id)' = Node2In(slots', q.id)
        /\ Node3(thread[u].id)' = Node3In(slots', q.id)
    BY <2>1, Zenon DEF Node1, Node2, Node3, Pos, At, AtIn, Node2In, Node3In
  <2>5. (thread[u].path)' = q.path /\ (thread[u].node)' = q.node
    BY Zenon, <2>1
  <2> QED BY <2>2, <2>3, <2>4, <2>5, ZenonT(60) DEF OnWay, OnWayIn
<1>2. ASSUME NEW u \in Threads, thread'[u] # Idle
      PROVE  /\ thread'[u].pc = "index" => thread'[u].child = 0
             /\ thread'[u].pc = "install" =>
                   /\ thread'[u].child \in (1 .. used') \ Owned' /\ Len(thread'[u].path) > 1
                   /\ \A w \in Threads \ {u} : thread'[w] # Idle => thread'[w].child # thread'[u].child
  <2>1. CASE u = t
    <3>1. ASSUME r.pc = "install", NEW w \in Threads \ {t}, thread[w] # Idle
          PROVE  thread[w].child # r.child
      <4>1. CASE thread[w].pc = "install"
        BY <1>0, <1>o, <1>2, <2>1, <3>1, <4>1
      <4>2. CASE thread[w].pc = "index"
        <5>1. thread[w].child = 0
          BY Zenon, <1>0, <3>1, <4>2 DEF ThreadInv, ChildInv
        <5> QED BY <1>0, <1>s, <1>2, <2>1, <3>1, <5>1
      <4> QED BY <1>0, <3>1, <4>1, <4>2, BusyFacts
    <3> QED BY <1>0, <1>s, <1>2, <2>1, <3>1
  <2>2. CASE u # t
    <3>1. thread'[u] = thread[u] /\ thread[u] # Idle
      BY Zenon, <1>0, <1>2, <2>2
    <3>2. ChildInv(u)
      BY Zenon, <1>0, <3>1 DEF ThreadInv
    <3>3. ASSUME thread[u].pc = "install", NEW w \in Threads \ {u}, thread'[w] # Idle
          PROVE  thread'[w].child # thread[u].child
      <4>1. CASE w = t
        BY Zenon, <1>0, <1>o, <2>2, <3>1, <3>3, <4>1
      <4>2. CASE w # t
        BY Zenon, <1>0, <3>2, <3>3, <4>2 DEF ChildInv
      <4> QED BY Zenon, <4>1, <4>2
    <3>4. thread[u].pc = "install" => thread[u].child \in (1 .. used') \ Owned'
      <4>1. thread[u].pc = "install" => thread[u].child \in 1 .. used
        BY Zenon, <3>2 DEF ChildInv
      <4> QED BY <1>0, <1>r, <1>o, <2>2, <3>1, <4>1
    <3> QED BY Zenon, <3>1, <3>2, <3>3, <3>4 DEF ChildInv
  <2> QED BY Zenon, <2>1, <2>2
<1>3. ASSUME NEW u \in Threads, thread'[u] # Idle PROVE ~dropped' /\ answer'[u] = <<>>
  BY Zenon, <1>0, <1>r, <1>s, <1>3 DEF ThreadInv
<1> QED BY <1>1, <1>2, <1>3 DEF ThreadInv, ChildInv

================================================================================
