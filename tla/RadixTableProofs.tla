-------------------------- MODULE RadixTableProofs --------------------------
(***************************************************************************)
(* The radix levels of the page table behave as one array of independent   *)
(* words, and every node they allocate is dropped once, for any fanout,    *)
(* any number of threads and any set of ids.                               *)
(***************************************************************************)
EXTENDS RadixTableSteps

\* The initial state
LEMMA InitInv == Init => Inv
<1> SUFFICES ASSUME Init PROVE Inv
  BY Zenon
<1>1. /\ used = 0 /\ frees = [n \in Nodes |-> 0] /\ thread = [t \in Threads |-> Idle]
      /\ answer = [t \in Threads |-> <<>>] /\ dropped = FALSE /\ slots = <<>>
  BY Zenon DEF Init
<1>2. TypeInv
  <2>1. used \in 0 .. MaxNodes
    BY <1>1, BoundAssumption
  <2>2. frees \in [Nodes -> Nat]
    BY Zenon, <1>1
  <2>3. answer = [t \in Threads |-> answer[t]]
    BY Zenon, <1>1
  <2> QED BY <1>1, <2>1, <2>2, <2>3, Zenon DEF TypeInv
<1>3. DOMAIN slots = {}
  BY <1>1
<1>4. \A n, i : At(n, i) = 0
  BY Zenon, <1>3 DEF At
<1>5. TableInv
  BY <1>1, <1>3, <1>4 DEF TableInv
<1>6. ThreadInv
  BY Zenon, <1>1 DEF ThreadInv
<1>7. ChildrenOwned
  BY <1>1, OwnedFacts DEF FreedOnce, NodesOwned
<1>8. FreshInv
  BY Zenon, <1>1 DEF FreshInv
<1> QED BY Zenon, <1>2, <1>5, <1>6, <1>7, <1>8 DEF Inv

\* A step that stores nothing changes no node.
LEMMA SameSlots ==
    ASSUME TypeInv, TableInv, UNCHANGED slots, used' \in Nat, used <= used'
    PROVE  /\ TableInv' /\ PointersStay /\ Owned' = Owned
           /\ \A id \in Ids : Word(id)' = Word(id)
<1>1. PointersStay
  BY Zenon DEF PointersStay, At, AtIn
<1>2. Owned' = Owned /\ Inner' = Inner
  BY DEF Owned, Inner, Children, At
<1>3. \A n, i : At(n, i)' = At(n, i)
  BY Zenon DEF At
<1>4. \A id \in Ids : Word(id)' = Word(id)
  BY DEF Word, At
<1>5. used \in Nat
  BY Zenon, NodeFacts
<1>6. \A n \in Inner : \A i \in Places(n) : At(n, i) \in 0 .. used'
  BY <1>5 DEF TableInv
<1> QED BY <1>1, <1>2, <1>3, <1>4, <1>6 DEF TableInv, Places, Roots

\* What is left to show of a step of t
LEMMA InvStep ==
    ASSUME Inv, NEW t \in Threads, NEW r, MovesTo(t, r),
           TableInv', FreedOnce', FreshInv', Owned \subseteq Owned',
           frees' \in [Nodes -> Nat], used' \in 0 .. MaxNodes, answer' = [u \in Threads |-> answer'[u]],
           r # Idle => r.node \in Owned' \cup Roots
    PROVE  Inv'
<1>1. TypeInv /\ NodesOwned
  BY Zenon, OwnedFacts DEF Inv
<1>2. /\ thread'[t] = r /\ \A u \in Threads \ {t} : thread'[u] = thread[u]
      /\ thread' \in [Threads -> {Idle} \cup Busy] /\ dropped' \in BOOLEAN
  BY Zenon, <1>1 DEF MovesTo, TypeInv
<1>3. TypeInv'
  BY Zenon, <1>2 DEF TypeInv
<1>4. NodesOwned'
  BY Zenon, <1>1, <1>2 DEF NodesOwned, Roots
<1>5. ThreadInv'
  BY Zenon, ThreadStep
<1> QED BY Zenon, <1>3, <1>4, <1>5, OwnedFacts DEF Inv

\* Call
LEMMA CallStep ==
    ASSUME Inv, NEW t \in Threads, NEW id \in Ids, NEW op \in Ops, Call(t, id, op)
    PROVE  Inv' /\ \A x \in Ids : Word(x)' = Word(x)
<1>1. PICK q : q = [pc |-> "index", id |-> id, op |-> op, node |-> Start(id).node,
                    path |-> Start(id).path, child |-> 0]
  BY Zenon
<1>2. /\ thread[t] = Idle /\ ~dropped /\ thread' = [thread EXCEPT ![t] = q]
      /\ answer' = [answer EXCEPT ![t] = <<>>]
      /\ slots' = slots /\ used' = used /\ frees' = frees /\ dropped' = dropped
  BY Zenon, <1>1 DEF Call, Goes
<1>3. TypeInv /\ TableInv /\ ThreadInv /\ FreshInv /\ FreedOnce /\ used \in Nat
  BY Zenon, InvFacts
<1>4. OnWay(id, Start(id).path, Start(id).node)
  BY Zenon DEF OnWay, Node1
<1>5. Start(id).path \in Seq(Nat) /\ Start(id).node \in Int /\ Start(id).node \in Owned \cup Roots
  BY Zenon, <1>3, <1>4, WayFacts
<1>6. q \in Busy /\ q # Idle
  BY Zenon, <1>1, <1>5, BusyFacts DEF Busy
<1>7. /\ TableInv' /\ PointersStay /\ Owned' = Owned
      /\ \A x \in Ids : Word(x)' = Word(x)
  BY <1>2, <1>3, SameSlots
<1>8. OnWayIn(slots', q.id, q.path, q.node)
  BY Zenon, <1>1, <1>3, <1>4, <1>7, WayStays
<1>9. /\ \A u \in Threads \ {t} : answer'[u] = answer[u]
      /\ answer'[t] = <<>> /\ answer' = [u \in Threads |-> answer'[u]]
  BY <1>2, <1>3, ZenonT(60) DEF TypeInv
<1>10. q.pc = "index" /\ q.child = 0 /\ q.node = Start(id).node
  BY Zenon, <1>1
<1>11. MovesTo(t, q)
  <2>1. \A u \in Threads \ {t} : thread[u] # Idle /\ thread[u].pc = "install" =>
           thread[u].child \notin Owned' /\ (q # Idle => q.child # thread[u].child)
    BY <1>7, <1>10, CallFacts
  <2> QED BY <1>2, <1>3, <1>6, <1>7, <1>8, <1>9, <1>10, <2>1 DEF MovesTo
<1>12. Held' = Held
  <2>1. ChildOf(thread[t]) = 0 /\ ChildOf(q) = 0
    BY <1>2, <1>10, Zenon DEF ChildOf
  <2>2. Held' = (Held \ {0}) \cup ({0} \ {0})
    BY <1>2, <1>3, <2>1, HeldStep, ZenonT(60)
  <2>3. 0 \notin Held
    BY Zenon, InvFacts
  <2> QED BY Zenon, <2>2, <2>3
<1>13. FreedOnce'
  BY Zenon, <1>2, <1>3, <1>7, <1>12 DEF FreedOnce
<1>14. FreshInv' /\ frees' \in [Nodes -> Nat] /\ used' \in 0 .. MaxNodes
  BY Zenon, <1>2, <1>3 DEF FreshInv, TypeInv
<1>15. q.node \in Owned' \cup Roots
  BY Zenon, <1>5, <1>7, <1>10
<1> QED BY Zenon, <1>7, <1>9, <1>11, <1>13, <1>14, <1>15, InvStep

\* A thread that is in an inner node
LEMMA AtInner ==
    ASSUME Inv, NEW t \in Threads, NEW p, p = thread[t], p # Idle, Len(p.path) > 1
    PROVE  /\ p \in Busy /\ OnWay(p.id, p.path, p.node) /\ ~dropped /\ answer[t] = <<>>
           /\ p.node \in Inner /\ Head(p.path) \in Places(p.node)
           /\ p.node \in Owned \cup Roots
           /\ Tail(p.path) \in Seq(Nat)
           /\ Pointer(t) = At(p.node, Head(p.path))
           /\ Pointer(t) # 0 => Pointer(t) \in Owned /\ Pointer(t) \in Nat
<1>1. TypeInv /\ TableInv /\ ThreadInv
  BY Zenon DEF Inv
<1>2. p \in Busy /\ OnWay(p.id, p.path, p.node) /\ ~dropped /\ answer[t] = <<>> /\ p.id \in Ids
  BY Zenon, <1>1, BusyFacts DEF ThreadInv, TypeInv
<1>3. /\ p.node \in Inner /\ Head(p.path) \in Places(p.node)
      /\ p.node \in Owned \cup Roots
      /\ Tail(p.path) \in Seq(Nat)
  BY Zenon, <1>1, <1>2, WayFacts
<1>4. Pointer(t) = At(p.node, Head(p.path))
  BY Zenon DEF Pointer
<1>5. Pointer(t) # 0 => Pointer(t) \in Owned
  BY <1>3, <1>4, ChildrenFacts
<1>6. Owned \subseteq Nat
  BY <1>1, NodeFacts, SMTT(60)
<1> QED BY <1>2, <1>3, <1>4, <1>5, <1>6, Zenon

\* A thread follows the pointer of its node.
LEMMA BelowStep ==
    ASSUME Inv, NEW t \in Threads, NEW p, p = thread[t], p # Idle, Len(p.path) > 1,
           NEW c \in Nat \ {0}, c = AtIn(slots', p.node, Head(p.path)), Below(t, c),
           PointersStay, Owned' \subseteq Owned \cup {c}, c = p.child \/ c \in Owned,
           used' = used, dropped' = dropped, answer' = answer
    PROVE  \E q : MovesTo(t, q) /\ q.node = c /\ ChildOf(q) = 0 /\ thread' = [thread EXCEPT ![t] = q]
<1>1. PICK q : q = [p EXCEPT !.pc = "index", !.node = c, !.path = Tail(@), !.child = 0]
  BY Zenon
<1>2. thread' = [thread EXCEPT ![t] = q]
  BY Zenon, <1>1 DEF Below, Goes
<1>3. /\ TypeInv /\ TableInv /\ ThreadInv /\ used \in Nat
  BY BoundAssumption DEF Inv, TypeInv
<1>4. /\ p \in Busy /\ OnWay(p.id, p.path, p.node) /\ ~dropped /\ answer[t] = <<>>
      /\ Tail(p.path) \in Seq(Nat)
  BY AtInner, ZenonT(60)
<1>5. q \in Busy /\ q.pc = "index" /\ q.id = p.id /\ q.node = c /\ q.path = Tail(p.path) /\ q.child = 0
  <2>1. q = [pc |-> "index", id |-> p.id, op |-> p.op, node |-> c, path |-> Tail(p.path), child |-> 0]
    BY <1>1, <1>4, ZenonT(60) DEF Busy
  <2>2. p.id \in Ids /\ p.op \in Ops /\ c \in Int
    BY <1>4, BusyFacts
  <2> QED BY <1>4, <2>1, <2>2, ZenonT(60) DEF Busy
<1>6. OnWayIn(slots', q.id, q.path, q.node)
  <2>1. p.id \in Ids
    BY Zenon, <1>4, BusyFacts
  <2>2. OnWayIn(slots', p.id, p.path, p.node)
    BY Zenon, <1>3, <1>4, <2>1, WayStays
  <2>3. OnWayIn(slots', p.id, Tail(p.path), c)
    BY Zenon, <2>1, <2>2, WayBelow
  <2> QED BY Zenon, <1>5, <2>3
<1>7. ASSUME NEW u \in Threads \ {t}, thread[u] # Idle, thread[u].pc = "install"
      PROVE  thread[u].child \notin Owned' /\ q.child # thread[u].child
  <2>1. /\ thread[u].child \in (1 .. used) \ Owned /\ thread[t].child # thread[u].child
    BY <1>7, CallFacts
  <2> QED BY <1>3, <1>5, <2>1, SMTT(60)
<1>8. q # Idle /\ ChildOf(q) = 0
  BY Zenon, <1>5, BusyFacts DEF ChildOf
<1>9. MovesTo(t, q)
  BY <1>2, <1>3, <1>4, <1>5, <1>6, <1>7, <1>8 DEF MovesTo
<1> QED BY <1>2, <1>5, <1>8, <1>9, ZenonT(60)

\* Descend
LEMMA DescendStep ==
    ASSUME Inv, NEW t \in Threads, Descend(t)
    PROVE  Inv' /\ \A x \in Ids : Word(x)' = Word(x)
<1>1. PICK p, c : p = thread[t] /\ c = Pointer(t)
  BY Zenon
<1>2. /\ p.pc = "index" /\ Len(p.path) > 1 /\ c # 0 /\ Below(t, c)
      /\ slots' = slots /\ used' = used /\ frees' = frees /\ answer' = answer /\ dropped' = dropped
  BY Zenon, <1>1 DEF Descend
<1>3. TypeInv /\ TableInv /\ ThreadInv /\ FreshInv /\ FreedOnce /\ used \in Nat
  BY Zenon, InvFacts
<1>4. p # Idle /\ p.child = 0
  BY Zenon, <1>1, <1>2, InCall, CallFacts
<1>5. /\ TableInv' /\ PointersStay /\ Owned' = Owned
      /\ \A x \in Ids : Word(x)' = Word(x)
  BY <1>2, <1>3, SameSlots, SMTT(60)
<1>6. c \in Nat \ {0} /\ c \in Owned /\ c = AtIn(slots', p.node, Head(p.path))
  BY <1>1, <1>2, <1>4, AtInner, ZenonT(60) DEF At, AtIn
<1>7. PICK q : MovesTo(t, q) /\ q.node = c /\ ChildOf(q) = 0 /\ thread' = [thread EXCEPT ![t] = q]
  BY <1>1, <1>2, <1>4, <1>5, <1>6, BelowStep
<1>8. Held' = Held
  <2>1. ChildOf(thread[t]) = 0
    BY Zenon, <1>1, <1>4 DEF ChildOf
  <2>2. Held' = (Held \ {0}) \cup ({0} \ {0})
    BY <1>3, <1>7, <2>1, HeldStep, ZenonT(60)
  <2>3. 0 \notin Held
    BY Zenon, InvFacts
  <2> QED BY Zenon, <2>2, <2>3
<1>9. FreedOnce'
  BY Zenon, <1>2, <1>3, <1>5, <1>8 DEF FreedOnce
<1>10. /\ FreshInv' /\ frees' \in [Nodes -> Nat] /\ used' \in 0 .. MaxNodes
       /\ answer' = [u \in Threads |-> answer'[u]]
  BY Zenon, <1>2, <1>3 DEF FreshInv, TypeInv
<1> QED BY Zenon, <1>5, <1>6, <1>7, <1>9, <1>10, InvStep

\* Allocate
LEMMA AllocateStep ==
    ASSUME Inv, NEW t \in Threads, Allocate(t)
    PROVE  Inv' /\ \A x \in Ids : Word(x)' = Word(x)
<1>1. PICK p, q : p = thread[t] /\ q = [p EXCEPT !.pc = "install", !.child = used + 1]
  BY Zenon
<1>2. /\ p.pc = "index" /\ Len(p.path) > 1 /\ used < MaxNodes /\ used' = used + 1
      /\ thread' = [thread EXCEPT ![t] = q]
      /\ slots' = slots /\ frees' = frees /\ answer' = answer /\ dropped' = dropped
  BY Zenon, <1>1 DEF Allocate, Goes
<1>3. TypeInv /\ TableInv /\ ThreadInv /\ FreshInv /\ FreedOnce /\ used \in Nat /\ used + 1 \in Nodes
  <2>1. TypeInv /\ TableInv /\ ThreadInv /\ FreshInv /\ FreedOnce /\ used \in Nat
    BY Zenon, InvFacts
  <2>2. used + 1 \in Nodes
    BY <1>2, <2>1, BoundAssumption DEF Nodes
  <2> QED BY Zenon, <2>1, <2>2
<1>4. p # Idle /\ p.child = 0
  BY Zenon, <1>1, <1>2, InCall, CallFacts
<1>5. /\ p \in Busy /\ OnWay(p.id, p.path, p.node) /\ ~dropped /\ answer[t] = <<>>
      /\ p.node \in Owned \cup Roots
  BY Zenon, <1>1, <1>2, <1>4, AtInner
<1>6. /\ TableInv' /\ PointersStay /\ Owned' = Owned
      /\ \A x \in Ids : Word(x)' = Word(x)
  BY <1>2, <1>3, SameSlots
<1>7. /\ q \in Busy /\ q # Idle /\ q.pc = "install" /\ q.id = p.id /\ q.path = p.path /\ q.node = p.node
      /\ q.child = used + 1
  <2>1. q = [pc |-> "install", id |-> p.id, op |-> p.op, node |-> p.node, path |-> p.path, child |-> used + 1]
    BY <1>1, <1>5, ZenonT(60) DEF Busy
  <2>2. /\ p.id \in Ids /\ p.op \in Ops /\ p.node \in Int /\ p.path \in Seq(Nat) /\ used + 1 \in Nat
    BY <1>3, <1>5, BusyFacts
  <2>3. q \in Busy
    BY Zenon, <2>1, <2>2 DEF Busy
  <2> QED BY Zenon, <2>1, <2>3, BusyFacts
<1>8. OnWayIn(slots', q.id, q.path, q.node)
  BY <1>3, <1>5, <1>6, <1>7, BusyFacts, WayStays, ZenonT(60)
<1>9. used + 1 \notin Owned /\ used + 1 \notin Held
  <2>1. used + 1 \notin Owned
    BY <1>3, NodeFacts
  <2>2. ASSUME NEW u \in Threads, thread[u] # Idle PROVE thread[u].child \in 0 .. used
    BY Zenon, <2>2, CallFacts
  <2> QED BY <1>3, <2>1, <2>2 DEF Held
<1>10. MovesTo(t, q)
  <2>1. ASSUME NEW u \in Threads \ {t}, thread[u] # Idle, thread[u].pc = "install"
        PROVE  thread[u].child \notin Owned' /\ q.child # thread[u].child
    <3>1. thread[u].child \in (1 .. used) \ Owned
      BY Zenon, <2>1, CallFacts
    <3> QED BY <1>3, <1>6, <1>7, <3>1, SMTT(60)
  <2>2. q.child \in (1 .. used') \ Owned' /\ Len(q.path) > 1
    BY <1>2, <1>3, <1>6, <1>7, <1>9, SMTT(60)
  <2> QED BY <1>2, <1>3, <1>5, <1>6, <1>7, <1>8, <2>1, <2>2, SMTT(60) DEF MovesTo
<1>11. Held' = Held \cup {used + 1}
  <2>1. ChildOf(thread[t]) = 0 /\ ChildOf(q) = used + 1
    BY Zenon, <1>1, <1>4, <1>7 DEF ChildOf
  <2>2. Held' = (Held \ {0}) \cup ({used + 1} \ {0})
    BY <1>2, <1>3, <2>1, HeldStep, Zenon
  <2>3. 0 \notin Held /\ used + 1 # 0
    BY <1>3, InvFacts
  <2> QED BY Zenon, <2>2, <2>3
<1>12. FreedOnce'
  <2>1. ASSUME NEW n \in 1 .. used' PROVE frees'[n] = IF dropped' \/ n \notin Owned' \cup Held' THEN 1 ELSE 0
    <3>1. CASE n = used + 1
      BY <1>2, <1>3, <1>5, <1>11, <3>1 DEF FreshInv
    <3>2. CASE n # used + 1
      <4>1. n \in 1 .. used
        BY <1>2, <1>3, <3>2
      <4> QED BY Zenon, <1>2, <1>3, <1>6, <1>11, <3>2, <4>1 DEF FreedOnce
    <3> QED BY Zenon, <3>1, <3>2
  <2> QED BY Zenon, <2>1 DEF FreedOnce
<1>13. FreshInv'
  BY <1>2, <1>3 DEF FreshInv, Nodes
<1>14. /\ frees' \in [Nodes -> Nat] /\ used' \in 0 .. MaxNodes
       /\ answer' = [u \in Threads |-> answer'[u]]
  BY <1>2, <1>3, BoundAssumption, SMTT(60) DEF TypeInv
<1>15. q.node \in Owned' \cup Roots
  BY Zenon, <1>5, <1>6, <1>7
<1> QED BY Zenon, <1>6, <1>10, <1>12, <1>13, <1>14, <1>15, InvStep

\* InstallOrAcquire, when the child is installed
LEMMA InstallStep ==
    ASSUME Inv, NEW t \in Threads, InstallOrAcquire(t), Pointer(t) = 0
    PROVE  Inv' /\ \A x \in Ids : Word(x)' = Word(x)
<1>1. PICK p : p = thread[t]
  BY Zenon
<1>2. PICK c, n, i : c = p.child /\ n = p.node /\ i = Head(p.path)
  BY Zenon
<1>3. /\ p.pc = "install" /\ Put(n, i, c) /\ Below(t, c)
      /\ used' = used /\ frees' = frees /\ answer' = answer /\ dropped' = dropped
  BY Zenon, <1>1, <1>2 DEF InstallOrAcquire
<1>4. TypeInv /\ TableInv /\ ThreadInv /\ FreshInv /\ FreedOnce /\ used \in Nat
  BY Zenon, InvFacts
<1>5. p # Idle /\ c \in (1 .. used) \ Owned /\ Len(p.path) > 1 /\ c \in Nat \ {0}
  BY Zenon, <1>1, <1>2, <1>3, InCall, CallFacts
<1>6. n \in Inner /\ i \in Places(n) /\ At(n, i) = 0
  BY Zenon, <1>1, <1>2, <1>5, AtInner
<1>7. /\ TableInv' /\ PointersStay /\ Owned' = Owned \cup {c}
      /\ \A x \in Ids : Word(x)' = Word(x)
  BY Zenon, <1>3, <1>4, <1>5, <1>6, PointerStep
<1>8. c = AtIn(slots', p.node, Head(p.path))
  <2>1. AtIn(slots', n, i) = c
    BY <1>3, AtPut, ZenonT(60)
  <2> QED BY Zenon, <1>2, <2>1
<1>9. PICK q : MovesTo(t, q) /\ q.node = c /\ ChildOf(q) = 0 /\ thread' = [thread EXCEPT ![t] = q]
  <2>1. Owned' \subseteq Owned \cup {c} /\ (c = p.child \/ c \in Owned)
    BY Zenon, <1>2, <1>7
  <2> QED BY <1>1, <1>3, <1>5, <1>7, <1>8, <2>1, BelowStep
<1>10. Held' = Held \ {c} /\ c \in Held
  <2>1. ChildOf(thread[t]) = c
    BY Zenon, <1>1, <1>2, <1>5 DEF ChildOf
  <2>2. Held' = (Held \ {c}) \cup ({0} \ {0})
    BY <1>4, <1>9, <2>1, HeldStep, Zenon
  <2>3. c \in Held
    BY Zenon, <1>1, <1>2, <1>5 DEF Held
  <2> QED BY Zenon, <2>2, <2>3
<1>11. FreedOnce'
  <2>1. Owned' \cup Held' = Owned \cup Held
    BY Zenon, <1>7, <1>10
  <2> QED BY Zenon, <1>3, <1>4, <2>1 DEF FreedOnce
<1>12. /\ FreshInv' /\ frees' \in [Nodes -> Nat] /\ used' \in 0 .. MaxNodes
       /\ answer' = [u \in Threads |-> answer'[u]]
  BY Zenon, <1>3, <1>4 DEF FreshInv, TypeInv
<1>13. q.node \in Owned' \cup Roots /\ Owned \subseteq Owned'
  BY Zenon, <1>7, <1>9
<1> QED BY Zenon, <1>7, <1>9, <1>11, <1>12, <1>13, InvStep

\* InstallOrAcquire, when another thread was first
LEMMA LostStep ==
    ASSUME Inv, NEW t \in Threads, InstallOrAcquire(t), Pointer(t) # 0
    PROVE  Inv' /\ \A x \in Ids : Word(x)' = Word(x)
<1>1. PICK p, c, d : p = thread[t] /\ c = Pointer(t) /\ d = p.child
  BY Zenon
<1>2. /\ p.pc = "install" /\ Below(t, c) /\ frees' = [frees EXCEPT ![d] = @ + 1]
      /\ slots' = slots /\ used' = used /\ answer' = answer /\ dropped' = dropped
  BY Zenon, <1>1 DEF InstallOrAcquire, Lost, Frees
<1>3. TypeInv /\ TableInv /\ ThreadInv /\ FreshInv /\ FreedOnce /\ used \in Nat
  BY Zenon, InvFacts
<1>4. p # Idle /\ d \in (1 .. used) \ Owned /\ Len(p.path) > 1 /\ d \in Nat \ {0}
  BY Zenon, <1>1, <1>2, InCall, CallFacts
<1>5. /\ TableInv' /\ PointersStay /\ Owned' = Owned
      /\ \A x \in Ids : Word(x)' = Word(x)
  BY <1>2, <1>3, SameSlots
<1>6. c \in Nat \ {0} /\ c \in Owned /\ c = AtIn(slots', p.node, Head(p.path)) /\ ~dropped
  BY <1>1, <1>2, <1>4, AtInner, Zenon DEF At, AtIn
<1>7. PICK q : MovesTo(t, q) /\ q.node = c /\ ChildOf(q) = 0 /\ thread' = [thread EXCEPT ![t] = q]
  BY <1>1, <1>2, <1>4, <1>5, <1>6, BelowStep
<1>8. Held' = Held \ {d} /\ d \in Held
  <2>1. ChildOf(thread[t]) = d
    BY Zenon, <1>1, <1>4 DEF ChildOf
  <2>2. Held' = (Held \ {d}) \cup ({0} \ {0})
    BY <1>3, <1>7, <2>1, HeldStep, ZenonT(60)
  <2>3. d \in Held
    BY Zenon, <1>1, <1>4 DEF Held
  <2> QED BY Zenon, <2>2, <2>3
<1>9. d \in Nodes /\ frees \in [Nodes -> Nat] /\ 1 .. used \subseteq Nodes
  BY <1>3, <1>4, BoundAssumption DEF TypeInv, Nodes
<1>10. FreedOnce'
  <2>1. ASSUME NEW n \in 1 .. used PROVE frees'[n] = IF dropped \/ n \notin Owned \cup (Held \ {d}) THEN 1 ELSE 0
    <3>1. CASE n = d
      <4>1. frees[d] = 0
        BY Zenon, <1>3, <1>6, <1>8, <2>1, <3>1 DEF FreedOnce
      <4>2. frees'[d] = 1
        BY <1>2, <1>9, <4>1
      <4> QED BY Zenon, <1>4, <3>1, <4>2
    <3>2. CASE n # d
      <4>1. frees'[n] = frees[n]
        BY Zenon, <1>2, <1>9, <3>2
      <4> QED BY Zenon, <1>3, <2>1, <3>2, <4>1 DEF FreedOnce
    <3> QED BY Zenon, <3>1, <3>2
  <2> QED BY Zenon, <1>2, <1>5, <1>8, <2>1 DEF FreedOnce
<1>11. FreshInv'
  <2>1. \A n \in Nodes : n > used => n # d
    BY <1>3, <1>4 DEF Nodes
  <2> QED BY Zenon, <1>2, <1>3, <1>9, <2>1 DEF FreshInv
<1>12. /\ frees' \in [Nodes -> Nat] /\ used' \in 0 .. MaxNodes
       /\ answer' = [u \in Threads |-> answer'[u]]
  BY <1>2, <1>3, <1>9 DEF TypeInv
<1> QED BY Zenon, <1>5, <1>6, <1>7, <1>10, <1>11, <1>12, InvStep

\* The end of a path is the word of the id.
LEMMA EndsAt ==
    ASSUME NEW id \in Ids, NEW path, NEW node, OnWay(id, path, node), Len(path) = 1
    PROVE  Ends(id, node, Head(path))
<1>1. CASE Way1(id)
  <2>1. path = <<Pos(id, 1)>> /\ node = Node1(id)
    BY <1>1 DEF OnWay, Way1
  <2> QED BY <1>1, <2>1 DEF Ends
<1>2. CASE Way2(id)
  <2>1. path = <<Pos(id, 2)>> /\ node = Node2(id) /\ Node2(id) # 0
    BY <1>2 DEF OnWay, Way2
  <2> QED BY <1>2, <2>1 DEF Ends
<1>3. CASE Way3(id)
  <2>1. path = <<Pos(id, 3)>> /\ node = Node3(id) /\ Node2(id) # 0 /\ Node3(id) # 0
    BY <1>3 DEF OnWay, Way3
  <2> QED BY <1>3, <2>1 DEF Ends
<1> QED BY Zenon, <1>1, <1>2, <1>3, Ways

\* Whether an operation stores when the word is w
Stores(op, w) == op.kind = "set" \/ (op.kind = "cas" /\ op.old = w)

\* Access
LEMMA AccessStep ==
    ASSUME Inv, NEW t \in Threads, NEW p, p = thread[t], Access(t)
    PROVE  /\ Inv' /\ p.id \in Ids /\ p.op \in Ops /\ answer[t] = <<>>
           /\ answer' = [answer EXCEPT ![t] = <<p.id, p.op, Word(p.id)>>]
           /\ Word(p.id)' = IF Stores(p.op, Word(p.id)) THEN p.op.new ELSE Word(p.id)
           /\ \A x \in Ids \ {p.id} : Word(x)' = Word(x)
<1>1. PICK n, i, id, op : n = p.node /\ i = Head(p.path) /\ id = p.id /\ op = p.op
  BY Zenon
<1>2. TypeInv /\ TableInv /\ ThreadInv /\ FreshInv /\ FreedOnce /\ used \in Nat
  BY Zenon, InvFacts
<1>3. /\ p.pc = "index" /\ Len(p.path) = 1
      /\ answer' = [answer EXCEPT ![t] = <<id, op, At(n, i)>>]
      /\ IF Stores(op, At(n, i)) THEN Put(n, i, op.new) ELSE slots' = slots
      /\ thread' = [thread EXCEPT ![t] = Idle]
      /\ used' = used /\ frees' = frees /\ dropped' = dropped
  BY <1>1, ZenonT(60) DEF Access, Goes, Stores
<1>4. p # Idle /\ p.child = 0 /\ p \in Busy /\ OnWay(p.id, p.path, p.node) /\ answer[t] = <<>>
  BY Zenon, <1>3, InCall, CallFacts
<1>5. id \in Ids /\ op \in Ops /\ OnWay(id, p.path, n)
  BY <1>1, <1>4, BusyFacts, ZenonT(60)
<1>6. Word(id) = At(n, i) /\ Ends(id, n, i)
  BY Zenon, <1>1, <1>2, <1>3, <1>5, WayFacts, EndsAt
<1>7. /\ TableInv' /\ PointersStay /\ Owned' = Owned
      /\ Word(id)' = IF Stores(op, Word(id)) THEN op.new ELSE Word(id)
      /\ \A x \in Ids \ {id} : Word(x)' = Word(x)
  <2>1. CASE Stores(op, At(n, i))
    <3>1. Put(n, i, op.new)
      BY Zenon, <1>3, <2>1
    <3>2. PICK v : v = op.new
      BY Zenon
    <3>3. /\ TableInv' /\ PointersStay /\ Owned' = Owned /\ Word(id)' = v
          /\ \A x \in Ids \ {id} : Word(x)' = Word(x)
      BY Zenon, <1>2, <1>3, <1>5, <1>6, <3>1, <3>2, AddressStep
    <3> QED BY Zenon, <1>6, <2>1, <3>2, <3>3
  <2>2. CASE ~Stores(op, At(n, i))
    <3>1. /\ TableInv' /\ PointersStay /\ Owned' = Owned
          /\ \A x \in Ids : Word(x)' = Word(x)
      BY <1>2, <1>3, <2>2, SameSlots, SMTT(60)
    <3> QED BY Zenon, <1>5, <1>6, <2>2, <3>1
  <2> QED BY Zenon, <2>1, <2>2
<1>8. MovesTo(t, Idle)
  <2>1. \A u \in Threads \ {t} : answer'[u] = answer[u]
    BY <1>2, <1>3, SMTT(60) DEF TypeInv
  <2>2. \A u \in Threads \ {t} : thread[u] # Idle /\ thread[u].pc = "install" => thread[u].child \notin Owned'
    BY Zenon, <1>7, CallFacts
  <2> QED BY <1>2, <1>3, <1>7, <2>1, <2>2 DEF MovesTo
<1>9. Held' = Held
  <2>1. ChildOf(thread[t]) = 0 /\ ChildOf(Idle) = 0
    BY Zenon, <1>4 DEF ChildOf
  <2>2. Held' = (Held \ {0}) \cup ({0} \ {0})
    BY <1>2, <1>3, <2>1, HeldStep, ZenonT(60)
  <2>3. 0 \notin Held
    BY Zenon, InvFacts
  <2> QED BY Zenon, <2>2, <2>3
<1>10. FreedOnce'
  BY Zenon, <1>2, <1>3, <1>7, <1>9 DEF FreedOnce
<1>11. /\ FreshInv' /\ frees' \in [Nodes -> Nat] /\ used' \in 0 .. MaxNodes
       /\ answer' = [u \in Threads |-> answer'[u]]
  BY Zenon, <1>2, <1>3 DEF FreshInv, TypeInv
<1>12. Inv'
  BY Zenon, <1>7, <1>8, <1>10, <1>11, InvStep
<1> QED BY <1>1, <1>3, <1>4, <1>5, <1>6, <1>7, <1>12

\* Drop
LEMMA DropStep ==
    ASSUME Inv, Drop
    PROVE  Inv' /\ \A x \in Ids : Word(x)' = Word(x)
<1>1. /\ ~dropped /\ dropped' = TRUE /\ \A t \in Threads : thread[t] = Idle
      /\ frees' = [n \in Nodes |-> IF n \in Owned THEN frees[n] + 1 ELSE frees[n]]
      /\ slots' = slots /\ used' = used /\ thread' = thread /\ answer' = answer
  BY Zenon DEF Drop
<1>2. TypeInv /\ TableInv /\ FreshInv /\ FreedOnce /\ used \in Nat
  BY Zenon, InvFacts
<1>3. /\ TableInv' /\ \A x \in Ids : Word(x)' = Word(x)
  BY <1>1, <1>2, SameSlots
<1>4. frees \in [Nodes -> Nat] /\ 1 .. used \subseteq Nodes /\ Owned \subseteq 1 .. used
  BY <1>2, BoundAssumption, NodeFacts DEF TypeInv, Nodes
<1>5. TypeInv'
  <2>1. frees' \in [Nodes -> Nat]
    BY <1>1, <1>4
  <2> QED BY Zenon, <1>1, <1>2, <2>1 DEF TypeInv
<1>6. FreedOnce'
  <2>1. Held = {}
    BY Zenon, <1>1 DEF Held
  <2>2. \A n \in 1 .. used : frees'[n] = 1
    BY <1>1, <1>2, <1>4, <2>1 DEF FreedOnce
  <2> QED BY Zenon, <1>1, <2>2 DEF FreedOnce
<1>7. FreshInv'
  <2>1. \A n \in Nodes : n > used => n \notin Owned
    BY <1>2, <1>4 DEF Nodes
  <2> QED BY Zenon, <1>1, <1>2, <2>1 DEF FreshInv
<1>8. ThreadInv' /\ NodesOwned'
  BY Zenon, <1>1 DEF ThreadInv, NodesOwned
<1> QED BY Zenon, <1>3, <1>5, <1>6, <1>7, <1>8, OwnedFacts DEF Inv

-----------------------------------------------------------------------------
(* The theorems *)

\* Every step keeps the invariant.
LEMMA NextInv == Inv /\ [Next]_vars => Inv'
<1> SUFFICES ASSUME Inv, [Next]_vars PROVE Inv'
  BY Zenon
<1>1. CASE Drop
  BY Zenon, <1>1, DropStep
<1>2. ASSUME NEW t \in Threads, NEW id \in Ids, NEW op \in Ops, Call(t, id, op) PROVE Inv'
  BY Zenon, <1>2, CallStep
<1>3. ASSUME NEW t \in Threads, Descend(t) PROVE Inv'
  BY Zenon, <1>3, DescendStep
<1>4. ASSUME NEW t \in Threads, Allocate(t) PROVE Inv'
  BY Zenon, <1>4, AllocateStep
<1>5. ASSUME NEW t \in Threads, InstallOrAcquire(t) PROVE Inv'
  BY Zenon, <1>5, InstallStep, LostStep
<1>6. ASSUME NEW t \in Threads, Access(t) PROVE Inv'
  <2>1. PICK p : p = thread[t]
    BY Zenon
  <2> QED BY Zenon, <1>6, <2>1, AccessStep
<1>7. CASE UNCHANGED vars
  <2>1. /\ slots' = slots /\ used' = used /\ frees' = frees /\ thread' = thread
        /\ answer' = answer /\ dropped' = dropped
    BY Zenon, <1>7 DEF vars
  <2>2. TypeInv /\ TableInv /\ ThreadInv /\ FreshInv /\ FreedOnce /\ NodesOwned /\ used \in Nat
    BY Zenon, InvFacts
  <2>3. TypeInv' /\ FreshInv'
    BY Zenon, <2>1, <2>2 DEF TypeInv, FreshInv
  <2>4. TableInv' /\ Owned' = Owned
    BY <2>1, <2>2, SameSlots
  <2>5. Held' = Held
    BY Zenon, <2>1 DEF Held
  <2>6. FreedOnce' /\ NodesOwned'
    BY Zenon, <2>1, <2>2, <2>4, <2>5 DEF FreedOnce, NodesOwned, Roots
  <2>7. ThreadInv'
    <3>1. ASSUME NEW t \in Threads
          PROVE  OnWay(thread[t].id, thread[t].path, thread[t].node)' =
                 OnWay(thread[t].id, thread[t].path, thread[t].node)
      BY <2>1, ZenonT(60) DEF OnWay, Node1, Node2, Node3, Depth, Pos, At
    <3> QED BY <2>1, <2>2, <2>4, <3>1, ZenonT(60) DEF ThreadInv, ChildInv
  <2> QED BY Zenon, <2>3, <2>4, <2>6, <2>7, OwnedFacts DEF Inv
<1> QED BY Zenon, <1>1, <1>2, <1>3, <1>4, <1>5, <1>6, <1>7 DEF Next

\* The inductive invariant holds in every reachable state.
THEOREM Invariance == Spec => []Inv
  BY InitInv, NextInv, PTL DEF Spec

\* Every child that install_or_acquire_child allocates has one owner, a child that lost
\* the race is dropped once, and Drop leaves nothing behind, for any number of threads.
THEOREM ChildrenOwnedHolds == Spec => []ChildrenOwned
<1>1. Inv => ChildrenOwned
  BY Zenon DEF Inv
<1> QED BY <1>1, Invariance, PTL

\* index() stays within the arrays for every fanout and every id.
THEOREM InBoundsHolds == Spec => []InBounds
<1>1. Inv => InBounds
  <2> SUFFICES ASSUME Inv, NEW t \in Threads, thread[t] # Idle
               PROVE  Head(thread[t].path) \in 0 .. (Length(thread[t].node) - 1)
    BY Zenon DEF InBounds
  <2>1. TypeInv /\ TableInv /\ OnWay(thread[t].id, thread[t].path, thread[t].node) /\ thread[t].id \in Ids
    BY Zenon, BusyFacts DEF Inv, TypeInv, ThreadInv
  <2> QED BY <2>1, WayFacts, ZenonT(60) DEF Places
<1> QED BY <1>1, Invariance, PTL

\* The map from ids to words
LEMMA SameMap ==
    ASSUME \A x \in Ids : Word(x)' = Word(x)
    PROVE  [id \in Ids |-> Word(id)]' = [id \in Ids |-> Word(id)]
  BY Zenon

\* A call takes effect in one step of AddressMap, at its access.
LEMMA AccessReturns ==
    ASSUME Inv, NEW t \in Threads, Access(t)
    PROVE  Promise!Next
<1>1. PICK p : p = thread[t]
  BY Zenon
<1>2. PICK id, op : id = p.id /\ op = p.op
  BY Zenon
<1>3. /\ id \in Ids /\ op \in Ops /\ answer[t] = <<>>
      /\ answer' = [answer EXCEPT ![t] = <<id, op, Word(id)>>]
      /\ Word(id)' = IF Stores(op, Word(id)) THEN op.new ELSE Word(id)
      /\ \A x \in Ids \ {id} : Word(x)' = Word(x)
  BY Zenon, <1>1, <1>2, AccessStep
<1> DEFINE addr == [x \in Ids |-> Word(x)]
<1>4. /\ addr' = IF Stores(op, Word(id)) THEN [addr EXCEPT ![id] = op.new] ELSE addr
      /\ addr[id] = Word(id)
  BY Zenon, <1>3
<1>5. op.kind \in {"get", "set", "cas"}
  BY Zenon, <1>3 DEF Ops
<1>6. addr' = CASE op.kind = "get" -> addr
                [] op.kind = "set" -> [addr EXCEPT ![id] = op.new]
                [] op.kind = "cas" -> IF addr[id] = op.old THEN [addr EXCEPT ![id] = op.new] ELSE addr
  BY Zenon, <1>4, <1>5 DEF Stores
<1>7. Promise!Return(t, id, op)
  BY <1>3, <1>4, <1>6, Zenon DEF Promise!Return
<1> QED BY Zenon, <1>3, <1>7 DEF Promise!Next

\* Every other step begins a call or changes nothing that AddressMap shows.
LEMMA NextKeepsAddresses == Inv /\ [Next]_vars => [Promise!Next]_(Promise!vars)
<1> SUFFICES ASSUME Inv, [Next]_vars PROVE [Promise!Next]_(Promise!vars)
  BY Zenon
<1>0. ASSUME \A x \in Ids : Word(x)' = Word(x), answer' = answer PROVE UNCHANGED Promise!vars
  BY Zenon, <1>0, SameMap DEF Promise!vars
<1>1. CASE Drop
  <2>1. answer' = answer
    BY Zenon, <1>1 DEF Drop
  <2> QED BY Zenon, <1>0, <1>1, <2>1, DropStep
<1>2. ASSUME NEW t \in Threads, NEW id \in Ids, NEW op \in Ops, Call(t, id, op) PROVE Promise!Next
  <2>1. answer' = [answer EXCEPT ![t] = <<>>]
    BY Zenon, <1>2 DEF Call
  <2>2. [x \in Ids |-> Word(x)]' = [x \in Ids |-> Word(x)]
    BY Zenon, <1>2, CallStep, SameMap
  <2>3. Promise!Begin(t)
    BY Zenon, <2>1, <2>2 DEF Promise!Begin
  <2> QED BY Zenon, <2>3 DEF Promise!Next
<1>3. ASSUME NEW t \in Threads, Descend(t) PROVE UNCHANGED Promise!vars
  <2>1. answer' = answer
    BY Zenon, <1>3 DEF Descend
  <2> QED BY <1>0, <1>3, <2>1, DescendStep
<1>4. ASSUME NEW t \in Threads, Allocate(t) PROVE UNCHANGED Promise!vars
  <2>1. answer' = answer
    BY Zenon, <1>4 DEF Allocate
  <2> QED BY Zenon, <1>0, <1>4, <2>1, AllocateStep
<1>5. ASSUME NEW t \in Threads, InstallOrAcquire(t) PROVE UNCHANGED Promise!vars
  <2>1. answer' = answer
    BY Zenon, <1>5 DEF InstallOrAcquire
  <2> QED BY Zenon, <1>0, <1>5, <2>1, InstallStep, LostStep
<1>6. ASSUME NEW t \in Threads, Access(t) PROVE Promise!Next
  BY Zenon, <1>6, AccessReturns
<1>7. CASE UNCHANGED vars
  <2>1. answer' = answer /\ slots' = slots
    BY Zenon, <1>7 DEF vars
  <2>2. \A x \in Ids : Word(x)' = Word(x)
    BY <2>1 DEF Word, At
  <2> QED BY Zenon, <1>0, <2>1, <2>2
<1> QED BY <1>1, <1>2, <1>3, <1>4, <1>5, <1>6, <1>7 DEF Next

\* In the initial state every id maps to 0.
LEMMA InitKeepsAddresses == Init => Promise!Init
<1> SUFFICES ASSUME Init PROVE Promise!Init
  BY Zenon
<1>1. DOMAIN slots = {} /\ answer = [t \in Threads |-> <<>>]
  BY DEF Init
<1>2. \A n, i : At(n, i) = 0
  BY Zenon, <1>1 DEF At
<1>3. ASSUME NEW id \in Ids PROVE Word(id) = 0
  BY Zenon, <1>2, Ways, Words
<1> QED BY Zenon, <1>1, <1>3 DEF Promise!Init

\* get, set and cas on the radix levels implement one array of independent words: no two
\* ids share a word, no installation loses a store, a call takes effect at its access.
THEOREM KeepsAddressesHolds == Spec => KeepsAddresses
  BY Invariance, InitKeepsAddresses, NextKeepsAddresses, PTL DEF Spec, KeepsAddresses, Promise!Spec

=============================================================================
