------------------------------ MODULE LinkedList ------------------------------
(***************************************************************************)
(* The intrusive doubly linked list of util/linked_list.rs.  A list is a   *)
(* record of the head, the tail and the pointers of every node; the        *)
(* pointers live in the nodes, in the list or not.                         *)
(***************************************************************************)
EXTENDS Naturals, Sequences, FiniteSets

CONSTANTS Nodes, None

ASSUME NoneIsNoNode == None \notin Nodes

\* What linked_list.rs can hold: a pointer is a node or null.
Lists == [head : Nodes \cup {None}, tail : Nodes \cup {None},
          prev : [Nodes -> Nodes \cup {None}], next : [Nodes -> Nodes \cup {None}]]

NewList == [head |-> None, tail |-> None,
            prev |-> [n \in Nodes |-> None], next |-> [n \in Nodes |-> None]]

PushFront(l, n) ==
    [head |-> n,
     tail |-> IF l.tail = None THEN n ELSE l.tail,
     prev |-> [m \in Nodes |-> IF m = n THEN None ELSE IF m = l.head THEN n ELSE l.prev[m]],
     next |-> [l.next EXCEPT ![n] = l.head]]

\* pop_back of a list that has a tail
PopBack(l) ==
    LET last == l.tail
        before == l.prev[last]
    IN  [head |-> IF before = None THEN None ELSE l.head,
         tail |-> before,
         prev |-> [l.prev EXCEPT ![last] = None],
         next |-> [m \in Nodes |-> IF m \in {last, before} THEN None ELSE l.next[m]]]

\* The two halves of remove: what comes before n, and what comes after it, skips n.
UnlinkPrev(l, n) ==
    IF l.prev[n] # None THEN [l EXCEPT !.next[l.prev[n]] = l.next[n]]
    ELSE [l EXCEPT !.head = l.next[n]]
UnlinkNext(l, n) ==
    IF l.next[n] # None THEN [l EXCEPT !.prev[l.next[n]] = l.prev[n]]
    ELSE [l EXCEPT !.tail = l.prev[n]]

\* remove returns early when the list does not hold the node.
Remove(l, n) ==
    IF l.prev[n] = None /\ l.head # n THEN l
    ELSE LET m == UnlinkPrev(l, n)
         IN  IF m.next[n] = None /\ m.tail # n THEN m
             ELSE [UnlinkNext(m, n) EXCEPT !.prev[n] = None, !.next[n] = None]

\* A node that is in the list has a node before it or is the head.
Listed(l, n) == l.prev[n] # None \/ l.head = n

\* The pointers agree with each other, at every node and at the ends.
Linked(l) ==
    /\ l.head # None => l.prev[l.head] = None
    /\ l.tail # None => l.next[l.tail] = None
    /\ l.head = None <=> l.tail = None
    /\ \A n \in Nodes :
        /\ l.next[n] # None => l.prev[l.next[n]] = n
        /\ l.prev[n] # None => l.next[l.prev[n]] = n
        /\ Listed(l, n) <=> (l.next[n] # None \/ l.tail = n)

\* The nodes along a pointer, from a node on
Walk(first, pointer) ==
    LET from[n \in Nodes \cup {None}] == IF n = None THEN <<>> ELSE <<n>> \o from[pointer[n]]
    IN  from[first]

\* From the oldest node to the youngest
Backward(l) == Walk(l.tail, l.prev)

=============================================================================
