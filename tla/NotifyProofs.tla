----------------------------- MODULE NotifyProofs -----------------------------
(***************************************************************************)
(* The lock, the state word and the list of waiters of notify.rs agree for *)
(* every number of tasks and callers, and no assertion of it fails; the    *)
(* operations of linked_list.rs keep the pointers of any set of nodes in   *)
(* agreement, and change the membership of exactly one node.               *)
(***************************************************************************)
EXTENDS Notify, TLAPS

-----------------------------------------------------------------------------
(* The list *)

\* LinkedList::new is an empty list.
LEMMA NewLinked == NewList \in Lists /\ Linked(NewList) /\ \A n \in Nodes : ~Listed(NewList, n)
  BY Zenon, NoneIsNoNode DEF NewList, Lists, Linked, Listed

\* push_front of a node that is not in the list adds that node and no other.
THEOREM PushFrontLinked ==
    ASSUME NEW l \in Lists, Linked(l), NEW n \in Nodes, ~Listed(l, n)
    PROVE  /\ PushFront(l, n) \in Lists
           /\ Linked(PushFront(l, n))
           /\ \A m \in Nodes : Listed(PushFront(l, n), m) <=> Listed(l, m) \/ m = n
<1> DEFINE k == PushFront(l, n)
<1>1. k \in Lists
  BY Zenon DEF PushFront, Lists
<1>2. /\ k.head = n
      /\ k.tail = IF l.tail = None THEN n ELSE l.tail
      /\ k.prev = [m \in Nodes |-> IF m = n THEN None ELSE IF m = l.head THEN n ELSE l.prev[m]]
      /\ k.next = [l.next EXCEPT ![n] = l.head]
  BY Zenon DEF PushFront
<1>3. \A m \in Nodes : Listed(k, m) <=> Listed(l, m) \/ m = n
  BY Zenon, <1>2, NoneIsNoNode DEF Listed, Lists
<1>4. Linked(k)
  BY <1>1, <1>2, <1>3, NoneIsNoNode DEF Linked, Listed, Lists
<1> QED BY Zenon, <1>1, <1>3, <1>4

\* pop_back of a list that is not empty removes its tail and no other node.
THEOREM PopBackLinked ==
    ASSUME NEW l \in Lists, Linked(l), l.tail # None
    PROVE  /\ PopBack(l) \in Lists
           /\ Linked(PopBack(l))
           /\ l.tail \in Nodes /\ Listed(l, l.tail)
           /\ \A m \in Nodes : Listed(PopBack(l), m) <=> Listed(l, m) /\ m # l.tail
<1> DEFINE k == PopBack(l)
           last == l.tail
           before == l.prev[last]
<1>0. last \in Nodes /\ Listed(l, last) /\ before \in Nodes \cup {None}
  BY Zenon DEF Lists, Linked
<1>1. k \in Lists
  BY Zenon, <1>0 DEF PopBack, Lists
<1>2. /\ k.head = IF before = None THEN None ELSE l.head
      /\ k.tail = before
      /\ k.prev = [l.prev EXCEPT ![last] = None]
      /\ k.next = [m \in Nodes |-> IF m \in {last, before} THEN None ELSE l.next[m]]
  BY Zenon DEF PopBack
<1>3. \A m \in Nodes : Listed(k, m) <=> Listed(l, m) /\ m # last
  BY <1>0, <1>2, NoneIsNoNode DEF Listed, Lists, Linked
<1>4. Linked(k)
  BY <1>0, <1>1, <1>2, <1>3, NoneIsNoNode DEF Linked, Listed, Lists
<1> QED BY Zenon, <1>0, <1>1, <1>3, <1>4

\* remove joins the two neighbours of a node that is in the list.
LEMMA RemoveForm ==
    ASSUME NEW l \in Lists, Linked(l), NEW n \in Nodes, Listed(l, n)
    PROVE  Remove(l, n) =
               [head |-> IF l.prev[n] = None THEN l.next[n] ELSE l.head,
                tail |-> IF l.next[n] = None THEN l.prev[n] ELSE l.tail,
                prev |-> [m \in Nodes |-> IF m = n THEN None
                                          ELSE IF m = l.next[n] THEN l.prev[n] ELSE l.prev[m]],
                next |-> [m \in Nodes |-> IF m = n THEN None
                                          ELSE IF m = l.prev[n] THEN l.next[n] ELSE l.next[m]]]
<1> DEFINE k == Remove(l, n)
           p == l.prev[n]
           x == l.next[n]
           u == UnlinkPrev(l, n)
           v == UnlinkNext(u, n)
<1>1. p \in Nodes \cup {None} /\ x \in Nodes \cup {None}
  BY Zenon DEF Lists
<1>2. u = [head |-> IF p = None THEN x ELSE l.head, tail |-> l.tail, prev |-> l.prev,
           next |-> [m \in Nodes |-> IF m = p THEN x ELSE l.next[m]]]
  <2>1. CASE p = None
    <3>1. l.next = [m \in Nodes |-> IF m = p THEN x ELSE l.next[m]]
      BY Zenon, <2>1, NoneIsNoNode DEF Lists
    <3> QED BY Zenon, <2>1, <3>1 DEF UnlinkPrev, Lists
  <2>2. CASE p # None
    BY Zenon, <1>1, <2>2 DEF UnlinkPrev, Lists
  <2> QED BY Zenon, <2>1, <2>2
<1>3. u.next[n] = x /\ u.prev[n] = p /\ u.tail = l.tail /\ u.prev = l.prev
  BY <1>2 DEF Lists
<1>4. v = [head |-> u.head, tail |-> IF x = None THEN p ELSE l.tail,
           prev |-> [m \in Nodes |-> IF m = x THEN p ELSE l.prev[m]], next |-> u.next]
  <2>1. CASE x = None
    <3>1. l.prev = [m \in Nodes |-> IF m = x THEN p ELSE l.prev[m]]
      BY Zenon, <2>1, NoneIsNoNode DEF Lists
    <3> QED BY Zenon, <1>2, <1>3, <2>1, <3>1 DEF UnlinkNext
  <2>2. CASE x # None
    BY Zenon, <1>1, <1>2, <1>3, <2>2 DEF UnlinkNext, Lists
  <2> QED BY Zenon, <2>1, <2>2
<1>5. k = [v EXCEPT !.prev[n] = None, !.next[n] = None]
  BY Zenon, <1>3 DEF Remove, Listed, Linked
<1>6. k = [head |-> IF p = None THEN x ELSE l.head,
           tail |-> IF x = None THEN p ELSE l.tail,
           prev |-> [m \in Nodes |-> IF m = n THEN None ELSE IF m = x THEN p ELSE l.prev[m]],
           next |-> [m \in Nodes |-> IF m = n THEN None ELSE IF m = p THEN x ELSE l.next[m]]]
  <2> HIDE DEF k, v, u
  <2> QED BY Zenon, <1>1, <1>2, <1>4, <1>5 DEF Lists
<1> QED BY Zenon, <1>6

\* remove takes the node out, wherever it is, and does nothing to a list without it.
THEOREM RemoveLinked ==
    ASSUME NEW l \in Lists, Linked(l), NEW n \in Nodes
    PROVE  /\ Remove(l, n) \in Lists
           /\ Linked(Remove(l, n))
           /\ \A m \in Nodes : Listed(Remove(l, n), m) <=> Listed(l, m) /\ m # n
<1>1. CASE ~Listed(l, n)
  BY Zenon, <1>1 DEF Remove, Listed
<1>2. CASE Listed(l, n)
  <2> DEFINE k == Remove(l, n)
             p == l.prev[n]
             x == l.next[n]
  <2>1. k = [head |-> IF p = None THEN x ELSE l.head,
             tail |-> IF x = None THEN p ELSE l.tail,
             prev |-> [m \in Nodes |-> IF m = n THEN None ELSE IF m = x THEN p ELSE l.prev[m]],
             next |-> [m \in Nodes |-> IF m = n THEN None ELSE IF m = p THEN x ELSE l.next[m]]]
    BY Zenon, <1>2, RemoveForm
  <2> HIDE DEF k
  <2>2. k \in Lists
    BY <2>1 DEF Lists
  <2>3. \A m \in Nodes : Listed(k, m) <=> Listed(l, m) /\ m # n
    BY <1>2, <2>1, NoneIsNoNode DEF Listed, Lists, Linked
  <2>4. Linked(k)
    BY <1>2, <2>1, <2>2, <2>3, NoneIsNoNode DEF Linked, Listed, Lists
  <2> QED BY Zenon, <2>2, <2>3, <2>4 DEF k
<1> QED BY Zenon, <1>1, <1>2

\* remove gives an empty list no head.
LEMMA RemoveHead ==
    ASSUME NEW l \in Lists, l.head = None, NEW n \in Nodes PROVE Remove(l, n).head = None
  BY Zenon, NoneIsNoNode DEF Remove, UnlinkPrev, UnlinkNext, Lists

-----------------------------------------------------------------------------
(* The invariant *)

\* The locals of a task or a caller after a load and after a call begins or ends
LEMMA LocalTypes ==
    /\ Start \in LocalType
    /\ \A l \in LocalType, w \in Words : [l EXCEPT !.cur = w] \in LocalType
    /\ \A l \in LocalType, t \in SUBSET Futures : [l EXCEPT !.waker = t] \in LocalType
<1>1. Start \in LocalType
  BY DEF Start, Words, LocalType
<1>2. ASSUME NEW l \in LocalType, NEW w \in Words PROVE [l EXCEPT !.cur = w] \in LocalType
  BY Zenon DEF LocalType
<1>3. ASSUME NEW l \in LocalType, NEW t \in SUBSET Futures PROVE [l EXCEPT !.waker = t] \in LocalType
  BY Zenon DEF LocalType
<1> QED BY Zenon, <1>1, <1>2, <1>3

\* The futures that are gone, and those that are done
LEMMA FutureTypes ==
    /\ NoFuture \in FutureType /\ NoFuture.st = "none" /\ NoFuture.notified = "no"
    /\ [NoFuture EXCEPT !.st = "done"] \in FutureType
  BY Zenon DEF NoFuture, FutureType

\* The initial state satisfies the invariant.
LEMMA InitInv == Init => IInv
<1> SUFFICES ASSUME Init PROVE IInv
  BY Zenon
<1>1. TypeOK
  BY Zenon, LocalTypes, NewLinked DEF Init, TypeOK, FutureType, Words, NoFuture, TaskPCs
<1>2. PlaceInv
  BY Zenon DEF Init, PlaceInv, TaskPCs, CallerPCs, NoFuture, Procs
<1>3. HolderInv
  BY Zenon, ProcsDistinct DEF Init, HolderInv, Holding
<1>4. ListInv
  BY Zenon, NewLinked DEF Init, ListInv, NewList, NoFuture, Futures
<1> QED BY Zenon, <1>1, <1>2, <1>3, <1>4 DEF IInv

\* notified() registers nothing.
LEMMA NotifiedInv == ASSUME IInv, NEW f \in Futures, Notified(f) PROVE IInv'
<1> USE DEF Notified, Goto, NoFuture
<1>1. TypeOK'
  BY LocalTypes, Zenon DEF IInv, TypeOK, FutureType, Words, TaskPCs, Procs
<1>2. PlaceInv'
  BY ProcsDistinct DEF IInv, TypeOK, FutureType, PlaceInv, TaskPCs, CallerPCs, Procs
<1>3. HolderInv'
  BY Zenon DEF IInv, TypeOK, LocalType, HolderInv, Holding, Procs
<1>4. ListInv'
  BY DEF IInv, TypeOK, FutureType, PlaceInv, ListInv, Procs
<1> QED BY Zenon, <1>1, <1>2, <1>3, <1>4 DEF IInv

\* poll and enable begin.
LEMMA PollNotifiedInv ==
    ASSUME IInv, NEW f \in Futures, NEW waker \in {{}, {f}}, PollNotified(f, waker) PROVE IInv'
<1> USE DEF PollNotified, Goto
<1>1. TypeOK'
  BY LocalTypes, ZenonT(60) DEF IInv, TypeOK, FutureType, Words, TaskPCs, Procs
<1>2. PlaceInv'
  BY ProcsDistinct DEF IInv, TypeOK, FutureType, PlaceInv, TaskPCs, CallerPCs, Procs
<1>3. HolderInv'
  BY Zenon DEF IInv, TypeOK, LocalType, HolderInv, Holding, Procs
<1>4. ListInv'
  BY Zenon DEF IInv, TypeOK, FutureType, PlaceInv, ListInv, Procs
<1> QED BY Zenon, <1>1, <1>2, <1>3, <1>4 DEF IInv

\* The load of poll
LEMMA PollLoadInv == ASSUME IInv, NEW f \in Futures, PollLoad(f) PROVE IInv'
<1> USE DEF PollLoad, Goto, Load
<1>1. TypeOK'
  BY Zenon, LocalTypes DEF IInv, TypeOK, FutureType, Words, TaskPCs, Procs
<1>2. PlaceInv'
  BY Zenon, ProcsDistinct DEF IInv, TypeOK, FutureType, PlaceInv, TaskPCs, CallerPCs, Procs
<1>3. HolderInv'
  BY Zenon DEF IInv, TypeOK, LocalType, HolderInv, Holding, Procs
<1>4. ListInv'
  BY Zenon DEF IInv, TypeOK, FutureType, PlaceInv, ListInv, Procs
<1> QED BY Zenon, <1>1, <1>2, <1>3, <1>4 DEF IInv

\* set_state keeps the number of calls.
LEMMA WordTypes ==
    ASSUME NEW w \in Words, NEW s \in {"EMPTY", "WAITING", "NOTIFIED"}
    PROVE  set_state(w, s) \in Words /\ set_state(w, s).s = s /\ set_state(w, s).calls = w.calls
  BY Zenon DEF set_state, Words

\* Two words with the same state and the same number of calls are equal.
LEMMA WordEqual ==
    ASSUME NEW v \in Words, NEW w \in Words, v.s = w.s, v.calls = w.calls PROVE v = w
  BY DEF Words

\* A pending notification is taken without the lock: the state was not WAITING.
LEMMA PollTryInv == ASSUME IInv, NEW f \in Futures, PollTry(f) PROVE IInv'
<1> USE DEF PollTry, Goto, NoFuture
<1>0. word \in Words /\ loc[f].cur \in Words
  BY Zenon DEF IInv, TypeOK, LocalType, Procs
<1>1. CASE word # set_state(loc[f].cur, "NOTIFIED")
  <2>0. /\ pc' = [pc EXCEPT ![f] = "lock"]
        /\ UNCHANGED <<word, lock, list, fut, loc>>
    BY Zenon, <1>1 DEF Cas
  <2>1. TypeOK'
    BY Zenon, <2>0 DEF IInv, TypeOK, TaskPCs, Procs
  <2>2. PlaceInv'
    BY Zenon, <2>0, ProcsDistinct DEF IInv, TypeOK, PlaceInv, TaskPCs, CallerPCs, Procs
  <2>3. HolderInv'
    BY Zenon, <2>0 DEF IInv, TypeOK, HolderInv, Holding, Procs
  <2>4. ListInv'
    BY Zenon, <2>0 DEF IInv, TypeOK, ListInv, Procs
  <2> QED BY Zenon, <2>1, <2>2, <2>3, <2>4 DEF IInv
<1>2. CASE word = set_state(loc[f].cur, "NOTIFIED")
  <2>0. /\ pc' = [pc EXCEPT ![f] = "running"]
        /\ loc' = [loc EXCEPT ![f] = Start]
        /\ fut' = [fut EXCEPT ![f] = [NoFuture EXCEPT !.st = "done"]]
        /\ word.s = "NOTIFIED" /\ word' \in Words /\ word'.s = "EMPTY" /\ word'.calls = word.calls
        /\ UNCHANGED <<lock, list>>
    BY <1>0, <1>2, WordTypes DEF Cas, Ready, Return
  <2>1. TypeOK'
    BY Zenon, <2>0, LocalTypes DEF IInv, TypeOK, FutureType, TaskPCs, Procs
  <2>2. PlaceInv'
    BY <2>0, ProcsDistinct DEF IInv, TypeOK, FutureType, PlaceInv, TaskPCs, CallerPCs, Procs
  <2>3. HolderInv'
    BY Zenon, <2>0 DEF IInv, TypeOK, HolderInv, Holding, Procs
  <2>4. ListInv'
    BY <2>0 DEF IInv, TypeOK, FutureType, PlaceInv, ListInv, Procs
  <2> QED BY Zenon, <2>1, <2>2, <2>3, <2>4 DEF IInv
<1> QED BY Zenon, <1>1, <1>2

\* The future of a task that waits
Waits(f) == fut[f].st = "waiting" /\ fut[f].notified = "no"

\* A step that leaves the list alone, and moves no future to or from those that wait
LEMMA ListKept ==
    ASSUME ListInv, list' = list, (word.s = "WAITING")' <=> word.s = "WAITING",
           \A f \in Futures : Waits(f)' <=> Waits(f),
           \A p \in Procs : pc[p] = "pop" => pc'[p] = "pop"
    PROVE  ListInv'
  BY Zenon DEF ListInv, Waits

\* A poll takes the lock, unless notify_waiters has been called since.
LEMMA PollLockInv == ASSUME IInv, NEW f \in Futures, PollLock(f) PROVE IInv'
<1> USE DEF PollLock, Goto, Ready, Return, Load, Free, NoFuture
<1>1. TypeOK'
  BY LocalTypes DEF IInv, TypeOK, FutureType, Words, TaskPCs, Procs
<1>2. PlaceInv'
  BY ProcsDistinct DEF IInv, TypeOK, FutureType, PlaceInv, TaskPCs, CallerPCs, Procs
<1>3. HolderInv'
  <2>1. \A p \in Procs : pc[p] \notin Holding
    BY Zenon, ProcsDistinct DEF IInv, HolderInv
  <2>2. CASE Missed(f)
    BY Zenon, <2>1, <2>2 DEF IInv, TypeOK, HolderInv, Holding, Procs
  <2>3. CASE ~Missed(f)
    <3>1. /\ lock' = f /\ pc' = [pc EXCEPT ![f] = "transition"]
          /\ loc' = [loc EXCEPT ![f].cur = word] /\ word' = word
      BY Zenon, <2>3
    <3>2. loc'[f].cur = word
      BY <3>1 DEF IInv, TypeOK, LocalType, Procs
    <3> QED BY Zenon, <2>1, <3>1, <3>2 DEF IInv, TypeOK, HolderInv, Holding, Procs
  <2> QED BY Zenon, <2>2, <2>3
<1>4. ListInv'
  <2>1. \A g \in Futures : Waits(g)' <=> Waits(g)
    BY DEF IInv, TypeOK, FutureType, PlaceInv, Waits
  <2>2. \A p \in Procs : pc[p] = "pop" => pc'[p] = "pop"
    BY Zenon DEF IInv, TypeOK, Procs
  <2> QED BY Zenon, <2>1, <2>2, ListKept DEF IInv
<1> QED BY Zenon, <1>1, <1>2, <1>3, <1>4 DEF IInv

\* A later poll looks at its waiter under the lock.
LEMMA PollWaitingInv == ASSUME IInv, NEW f \in Futures, PollWaiting(f) PROVE IInv'
<1> USE DEF PollWaiting, Goto, Ready, Return, Free, NoFuture
<1>0. fut[f].waker \cup loc[f].waker \in SUBSET Futures /\ fut[f] \in FutureType
  BY Zenon DEF IInv, TypeOK, FutureType, LocalType, Procs
<1>1. TypeOK'
  <2>1. CASE fut[f].notified # "no"
    <3> HIDE DEF NoFuture
    <3> QED BY Zenon, <2>1, LocalTypes, FutureTypes DEF IInv, TypeOK, TaskPCs, Procs
  <2>2. CASE fut[f].notified = "no"
    <3>1. [fut[f] EXCEPT !.waker = Registers(f)] \in FutureType
      BY Zenon, <1>0 DEF FutureType, Registers
    <3>2. fut' \in [Futures -> FutureType]
      BY Zenon, <2>2, <3>1 DEF IInv, TypeOK
    <3> QED BY Zenon, <2>2, <3>2, LocalTypes DEF IInv, TypeOK, TaskPCs, Procs
  <2> QED BY Zenon, <2>1, <2>2
<1>2. PlaceInv'
  BY ProcsDistinct DEF IInv, TypeOK, FutureType, PlaceInv, TaskPCs, CallerPCs, Procs
<1>3. HolderInv'
  BY DEF IInv, TypeOK, HolderInv, Holding, Procs
<1>4. ListInv'
  <2>1. \A g \in Futures : Waits(g)' <=> Waits(g)
    BY DEF IInv, TypeOK, FutureType, PlaceInv, Waits
  <2>2. \A p \in Procs : pc[p] = "pop" => pc'[p] = "pop"
    BY Zenon DEF IInv, TypeOK, Procs
  <2> QED BY Zenon, <2>1, <2>2, ListKept DEF IInv
<1> QED BY Zenon, <1>1, <1>2, <1>3, <1>4 DEF IInv

\* The calls of notify_one begin.
LEMMA NotifyOneInv == ASSUME IInv, NEW p \in Callers, NotifyOne(p) PROVE IInv'
<1> USE DEF NotifyOne, Goto, Load
<1>1. TypeOK'
  BY Zenon, LocalTypes DEF IInv, TypeOK, CallerPCs, Procs
<1>2. PlaceInv'
  BY Zenon, ProcsDistinct DEF IInv, TypeOK, PlaceInv, CallerPCs, Procs
<1>3. HolderInv'
  BY Zenon DEF IInv, TypeOK, LocalType, HolderInv, Holding, Procs
<1>4. ListInv'
  BY Zenon, ListKept DEF IInv, TypeOK, Waits, Procs
<1> QED BY Zenon, <1>1, <1>2, <1>3, <1>4 DEF IInv

\* notify_one stores its permit without the lock only when the state is not WAITING.
LEMMA NotifyOneTryInv == ASSUME IInv, NEW p \in Procs, NotifyOneTry(p) PROVE IInv'
<1> USE DEF NotifyOneTry, Goto
<1>0. /\ word \in Words /\ loc[p].cur \in Words
      /\ p \in Callers
  BY Zenon DEF IInv, TypeOK, LocalType, PlaceInv, Procs, TaskPCs
<1>1. CASE word # loc[p].cur
  <2>0. /\ loc' = [loc EXCEPT ![p].cur = word]
        /\ pc' = [pc EXCEPT ![p] = "one"]
        /\ UNCHANGED <<word, lock, list, fut>>
    BY Zenon, <1>0, <1>1 DEF Retry, Load, Cas, Words
  <2>1. TypeOK'
    BY Zenon, <2>0, LocalTypes DEF IInv, TypeOK, CallerPCs
  <2>2. PlaceInv'
    BY Zenon, <1>0, <2>0, ProcsDistinct DEF IInv, TypeOK, PlaceInv, CallerPCs, Procs
  <2>3. HolderInv'
    BY Zenon, <2>0 DEF IInv, TypeOK, LocalType, HolderInv, Holding, Procs
  <2>4. ListInv'
    BY Zenon, <2>0, ListKept DEF IInv, TypeOK, Waits, NotifyOneTry
  <2> QED BY Zenon, <2>1, <2>2, <2>3, <2>4 DEF IInv
<1>2. CASE word = loc[p].cur
  <2>0. /\ loc' = [loc EXCEPT ![p] = Start]
        /\ pc' = [pc EXCEPT ![p] = "idle"]
        /\ word.s # "WAITING" /\ word' \in Words /\ word'.s = "NOTIFIED" /\ word'.calls = word.calls
        /\ UNCHANGED <<lock, list, fut>>
    BY <1>0, <1>2, WordTypes DEF Cas, Retry, Return
  <2>1. TypeOK'
    BY Zenon, <2>0, LocalTypes DEF IInv, TypeOK, CallerPCs
  <2>2. PlaceInv'
    BY Zenon, <1>0, <2>0, ProcsDistinct DEF IInv, TypeOK, PlaceInv, CallerPCs, Procs
  <2>3. HolderInv'
    BY Zenon, <2>0 DEF IInv, TypeOK, HolderInv, Holding
  <2>4. ListInv'
    BY Zenon, <2>0, ListKept DEF IInv, TypeOK, Waits
  <2> QED BY Zenon, <2>1, <2>2, <2>3, <2>4 DEF IInv
<1> QED BY Zenon, <1>1, <1>2

\* notify_one takes the lock and loads the state again.
LEMMA NotifyOneLockInv == ASSUME IInv, NEW p \in Procs, NotifyOneLock(p) PROVE IInv'
<1> USE DEF NotifyOneLock, Goto, Load, Free
<1>0. p \in Callers
  BY Zenon DEF IInv, PlaceInv, Procs, TaskPCs
<1>5. loc'[p].cur = word
  BY Zenon DEF IInv, TypeOK, LocalType
<1>1. TypeOK'
  BY Zenon, LocalTypes DEF IInv, TypeOK, CallerPCs
<1>2. PlaceInv'
  BY Zenon, <1>0, ProcsDistinct DEF IInv, TypeOK, PlaceInv, CallerPCs, Procs
<1>3. HolderInv'
  <2>1. \A q \in Procs : pc[q] \notin Holding
    BY Zenon, ProcsDistinct DEF IInv, HolderInv
  <2> QED BY Zenon, <1>5, <2>1, ProcsDistinct DEF IInv, TypeOK, HolderInv, Holding
<1>4. ListInv'
  BY Zenon, ListKept DEF IInv, TypeOK, Waits
<1> QED BY Zenon, <1>1, <1>2, <1>3, <1>4 DEF IInv

\* The wakers are called without the lock.
LEMMA WakeInv == ASSUME IInv, NEW p \in Procs, Wake(p) PROVE IInv'
<1> USE DEF Wake, Goto, Return
<1>1. TypeOK'
  BY Zenon, LocalTypes DEF IInv, TypeOK, CallerPCs
<1>2. PlaceInv'
  BY Zenon, ProcsDistinct DEF IInv, TypeOK, PlaceInv, CallerPCs, TaskPCs, Procs
<1>3. HolderInv'
  BY Zenon DEF IInv, TypeOK, HolderInv, Holding
<1>4. ListInv'
  BY Zenon, ListKept DEF IInv, TypeOK, Waits
<1> QED BY Zenon, <1>1, <1>2, <1>3, <1>4 DEF IInv

\* A failed compare-exchange under the lock has found the other state that is not WAITING.
LEMMA RetryInv ==
    ASSUME IInv, NEW p \in Procs, pc[p] = "transition", NEW s \in {"EMPTY", "NOTIFIED"},
           loc[p].cur.s # "WAITING", loc[p].cur.s # s, Retry(p, {s})
    PROVE  IInv'
<1> USE DEF Retry, Goto, Load
<1>0. word \in Words /\ loc[p].cur \in Words
  BY Zenon DEF IInv, TypeOK, LocalType
<1>1. word.s = s
  <2>1. loc[p].cur.calls = word.calls /\ word.s # "WAITING"
    BY Zenon DEF IInv, HolderInv, Holding
  <2>2. word.s = s \/ word.s = loc[p].cur.s
    BY Zenon, <1>0, <2>1 DEF Words
  <2> QED BY Zenon, <1>0, <2>1, <2>2, WordEqual
<1>2. pc' = pc
  BY Zenon, <1>1 DEF IInv, TypeOK
<1>3. TypeOK'
  BY Zenon, <1>0, <1>2, LocalTypes DEF IInv, TypeOK
<1>4. PlaceInv'
  BY Zenon, <1>2 DEF IInv, PlaceInv
<1>5. HolderInv'
  BY <1>0, <1>2 DEF IInv, TypeOK, LocalType, HolderInv, Holding
<1>6. ListInv'
  BY Zenon, <1>2, ListKept DEF IInv, Waits
<1> QED BY Zenon, <1>3, <1>4, <1>5, <1>6 DEF IInv

\* The future joins the list, and the state is WAITING.
LEMMA PendingInv ==
    ASSUME IInv, NEW f \in Futures, pc[f] = "transition", Pending(f),
           word' \in Words, word'.s = "WAITING", word'.calls = word.calls,
           UNCHANGED <<woken, created, calls>>
    PROVE  IInv'
<1> USE DEF Pending, Goto, Return
<1>0. f \in Procs /\ lock = f /\ fut[f] \in FutureType /\ loc[f].waker \in SUBSET Futures
  BY Zenon DEF IInv, TypeOK, LocalType, HolderInv, Holding, Procs
<1>1. ~Listed(list, f) /\ fut[f].st = "init" /\ fut[f].notified = "no" /\ list.head # f
  BY Zenon DEF IInv, PlaceInv, ListInv, Listed
<1>2. /\ list' \in Lists /\ Linked(list') /\ list'.head = f
      /\ \A g \in Futures : Listed(list', g) <=> Listed(list, g) \/ g = f
  BY Zenon, <1>1, PushFrontLinked DEF IInv, TypeOK, ListInv, Futures, PushFront
<1>3. [fut[f] EXCEPT !.st = "waiting", !.waker = loc[f].waker] \in FutureType
  BY <1>0, Zenon DEF FutureType
<1>4. fut' = [fut EXCEPT ![f] = [fut[f] EXCEPT !.st = "waiting", !.waker = loc[f].waker]]
  BY <1>0, Zenon DEF IInv, TypeOK, FutureType
<1>5. \E l \in {"parked", "running"} : pc' = [pc EXCEPT ![f] = l]
  BY <1>1, Zenon
<1>6. TypeOK'
  BY <1>0, <1>2, <1>3, <1>4, <1>5, LocalTypes DEF IInv, TypeOK, TaskPCs
<1>7. fut'[f].st = "waiting" /\ fut'[f].notified = "no" /\ \A g \in Futures \ {f} : fut'[g] = fut[g]
  BY <1>0, <1>1, <1>4 DEF IInv, TypeOK, FutureType
<1>8. PlaceInv'
  BY <1>0, <1>5, <1>7, ProcsDistinct DEF IInv, TypeOK, PlaceInv, TaskPCs, CallerPCs, Procs
<1>9. HolderInv'
  <2>1. \A q \in Procs : q # f => pc[q] \notin Holding
    BY Zenon, <1>0 DEF IInv, HolderInv
  <2> QED BY Zenon, <1>0, <1>5, <2>1, ProcsDistinct DEF IInv, TypeOK, HolderInv, Holding
<1>10. ListInv'
  <2>1. f # None
    BY Zenon, <1>0, ProcsDistinct
  <2>2. Linked(list)' /\ \A g \in Futures : Listed(list, g)' <=> Listed(list, g) \/ g = f
    BY Zenon, <1>2 DEF Linked, Listed
  <2> QED BY <1>2, <1>7, <2>1, <2>2, ZenonT(60) DEF IInv, ListInv
<1> QED BY Zenon, <1>6, <1>8, <1>9, <1>10 DEF IInv

\* The loop of poll that transitions to WAITING
LEMMA PollTransitionInv == ASSUME IInv, NEW f \in Futures, PollTransition(f) PROVE IInv'
<1> USE DEF PollTransition
<1>0. f \in Procs /\ lock = f /\ word \in Words /\ loc[f].cur \in Words
  BY Zenon DEF IInv, TypeOK, LocalType, HolderInv, Holding, Procs
<1>1. CASE loc[f].cur.s = "WAITING"
  <2>1. word.s = "WAITING"
    BY Zenon, <1>0, <1>1 DEF IInv, HolderInv, Holding
  <2>2. Pending(f) /\ word' = word
    BY Zenon, <1>1
  <2> QED BY Zenon, <1>0, <2>1, <2>2, PendingInv
<1>2. CASE loc[f].cur.s = "EMPTY"
  <2>1. CASE Retry(f, {"NOTIFIED"})
    BY Zenon, <1>0, <1>2, <2>1, RetryInv
  <2>2. CASE Cas(loc[f].cur, set_state(loc[f].cur, "WAITING")) /\ Pending(f)
    BY Zenon, <1>0, <2>2, WordTypes, PendingInv DEF Cas
  <2> QED BY Zenon, <1>2, <2>1, <2>2
<1>3. CASE loc[f].cur.s = "NOTIFIED"
  <2>1. CASE Retry(f, {"EMPTY"})
    BY Zenon, <1>0, <1>3, <2>1, RetryInv
  <2>2. CASE ~Retry(f, {"EMPTY"})
    <3>0. /\ pc' = [pc EXCEPT ![f] = "running"]
          /\ loc' = [loc EXCEPT ![f] = Start]
          /\ fut' = [fut EXCEPT ![f] = [NoFuture EXCEPT !.st = "done"]]
          /\ word.s = "NOTIFIED" /\ word' \in Words /\ word'.s = "EMPTY" /\ word'.calls = word.calls
          /\ lock' = None /\ list' = list
      BY <1>0, <1>3, <2>2, WordTypes DEF Cas, Ready, Return, Goto
    <3>1. TypeOK'
      BY Zenon, <1>0, <3>0, LocalTypes, FutureTypes DEF IInv, TypeOK, TaskPCs
    <3>2. PlaceInv'
      BY <3>0, ProcsDistinct DEF IInv, TypeOK, FutureType, NoFuture, PlaceInv, TaskPCs, CallerPCs, Procs
    <3>3. HolderInv'
      BY Zenon, <1>0, <3>0, ProcsDistinct DEF IInv, TypeOK, HolderInv, Holding
    <3>4. ListInv'
      <4>1. \A g \in Futures : Waits(g)' <=> Waits(g)
        BY <3>0 DEF IInv, TypeOK, FutureType, NoFuture, PlaceInv, Waits
      <4> QED BY Zenon, <1>0, <3>0, <4>1, ListKept DEF IInv, TypeOK
    <3> QED BY Zenon, <3>1, <3>2, <3>3, <3>4 DEF IInv
  <2> QED BY Zenon, <2>1, <2>2
<1> QED BY Zenon, <1>0, <1>1, <1>2, <1>3 DEF Words

\* Releasing the lock ends the call of a task or a caller, which may have tasks to wake.
LEMMA UnlockEffect ==
    ASSUME TypeOK, NEW p \in Procs, NEW wakes \in SUBSET Futures, Unlock(p, wakes)
    PROVE  /\ lock' = None
           /\ \E l \in {"idle", "wake"} : pc' = [pc EXCEPT ![p] = l]
           /\ pc' \in [Procs -> TaskPCs \cup CallerPCs]
           /\ loc' \in [Procs -> LocalType]
           /\ \A q \in Procs \ {p} : loc'[q] = loc[q]
<1>1. [Start EXCEPT !.wakes = wakes] \in LocalType
  BY LocalTypes, Zenon DEF Start, LocalType
<1>2. \E x \in LocalType : loc' = [loc EXCEPT ![p] = x]
  BY Zenon, <1>1, LocalTypes DEF Unlock, Return
<1>3. \E l \in {"idle", "wake"} : pc' = [pc EXCEPT ![p] = l]
  BY Zenon DEF Unlock, Return, Goto
<1> QED BY <1>2, <1>3, Zenon DEF TypeOK, Unlock, TaskPCs

\* Nobody holds the lock when it has been released.
LEMMA ReleasedInv ==
    ASSUME IInv, NEW p \in Procs, pc[p] \in Holding, lock' = None,
           \E l \in {"idle", "wake"} : pc' = [pc EXCEPT ![p] = l]
    PROVE  HolderInv' /\ \A q \in Procs : pc'[q] # "pop"
<1>1. \A q \in Procs : q # p => pc[q] \notin Holding
  BY Zenon DEF IInv, HolderInv
<1> QED BY Zenon, <1>1, ProcsDistinct DEF IInv, TypeOK, HolderInv, Holding

\* The futures after a call that held the lock
LEMMA EndedEffect ==
    ASSUME NEW p \in Procs, NEW fs \in [Futures -> FutureType]
    PROVE  /\ Ended(p, fs) \in [Futures -> FutureType]
           /\ \A f \in Futures : f # p => Ended(p, fs)[f] = fs[f]
           /\ p \in Futures => Ended(p, fs)[p].st = "none" /\ Ended(p, fs)[p].notified = "no"
  BY Zenon, FutureTypes DEF Ended

\* The oldest waiter leaves the list with its notification.
LEMMA NotifyOldestInv ==
    ASSUME IInv, NEW p \in Procs, pc[p] = "locked", loc[p].cur.s = "WAITING", NotifyOldest(p)
    PROVE  IInv'
<1> DEFINE w == list.tail
           l == PopBack(list)
           gs == [fut EXCEPT ![w].notified = "one", ![w].waker = {}]
<1>1. lock = p /\ word \in Words /\ word.s = "WAITING"
  BY Zenon DEF IInv, TypeOK, HolderInv, Holding
<1>2. \A q \in Procs : pc[q] # "pop"
  BY Zenon, <1>1 DEF IInv, HolderInv, Holding
<1>3. list \in Lists /\ Linked(list) /\ list.head # None /\ w # None
  BY Zenon, <1>1, <1>2 DEF IInv, TypeOK, ListInv, Linked
<1>4. /\ l \in Lists /\ Linked(l) /\ w \in Futures /\ Listed(list, w)
      /\ \A f \in Futures : Listed(l, f) <=> Listed(list, f) /\ f # w
  BY Zenon, <1>3, PopBackLinked DEF Futures
<1>5. fut[w] \in FutureType /\ fut[w].st = "waiting" /\ fut[w].notified = "no"
  BY Zenon, <1>4 DEF IInv, TypeOK, ListInv
<1>6. w # p
  BY Zenon, <1>4, <1>5 DEF IInv, PlaceInv
<1>7. /\ list' = l /\ word' = WordAfterPop(l)
      /\ fut' = Ended(p, gs) /\ Unlock(p, fut[w].waker)
  BY Zenon, <1>3, <1>5 DEF NotifyOldest
<1>8. /\ gs \in [Futures -> FutureType]
      /\ gs[w].st = "waiting" /\ gs[w].notified = "one"
      /\ \A f \in Futures : f # w => gs[f] = fut[f]
  <2>1. gs = [fut EXCEPT ![w] = [fut[w] EXCEPT !.notified = "one", !.waker = {}]]
    BY <1>4, <1>5, Zenon DEF IInv, TypeOK, FutureType
  <2>2. [fut[w] EXCEPT !.notified = "one", !.waker = {}] \in FutureType
    BY <1>5, Zenon DEF FutureType
  <2>3. /\ [fut[w] EXCEPT !.notified = "one", !.waker = {}].st = "waiting"
        /\ [fut[w] EXCEPT !.notified = "one", !.waker = {}].notified = "one"
    BY Zenon, <1>5 DEF FutureType
  <2> HIDE DEF gs, w
  <2> QED BY Zenon, <1>4, <2>1, <2>2, <2>3 DEF IInv, TypeOK
<1>9. fut[w].waker \in SUBSET Futures
  BY Zenon, <1>5 DEF FutureType
<1> HIDE DEF w, l, gs
<1>10. /\ lock' = None
       /\ \E a \in {"idle", "wake"} : pc' = [pc EXCEPT ![p] = a]
       /\ pc' \in [Procs -> TaskPCs \cup CallerPCs] /\ loc' \in [Procs -> LocalType]
  BY Zenon, <1>7, <1>9, UnlockEffect DEF IInv
<1>11. /\ fut' \in [Futures -> FutureType]
       /\ \A f \in Futures : f # p => fut'[f] = gs[f]
       /\ p \in Futures => fut'[p].st = "none" /\ fut'[p].notified = "no"
  BY Zenon, <1>7, <1>8, EndedEffect
<1>12. word' \in Words /\ (word'.s = "WAITING" <=> l.head # None)
  BY Zenon, <1>1, <1>7, WordTypes DEF WordAfterPop
<1>13. TypeOK'
  BY Zenon, <1>4, <1>7, <1>10, <1>11, <1>12 DEF TypeOK
<1>14. PlaceInv'
  BY <1>4, <1>5, <1>8, <1>10, <1>11, ProcsDistinct DEF IInv, TypeOK, PlaceInv, TaskPCs, CallerPCs, Procs
<1>15. HolderInv'
  BY <1>10, ReleasedInv, Zenon DEF Holding
<1>16. ListInv'
  <2>1. Linked(list)' /\ \A f \in Futures : Listed(list, f)' <=> Listed(l, f)
    BY Zenon, <1>4, <1>7 DEF Linked, Listed
  <2>2. \A f \in Futures : Listed(l, f) <=> fut'[f].st = "waiting" /\ fut'[f].notified = "no"
    BY <1>4, <1>5, <1>6, <1>8, <1>11 DEF IInv, PlaceInv, ListInv
  <2> QED BY Zenon, <1>7, <1>12, <2>1, <2>2 DEF ListInv
<1> QED BY Zenon, <1>13, <1>14, <1>15, <1>16 DEF IInv

\* Without a waiter the notification is stored, by an exchange or by a store.
LEMMA StoredInv ==
    ASSUME IInv, NEW p \in Procs, pc[p] \in {"locked", "store"}, word.s # "WAITING",
           word' \in Words, word'.s # "WAITING", list' = list, fut' = Ended(p, fut), Unlock(p, {})
    PROVE  IInv'
<1>1. /\ lock' = None
      /\ \E a \in {"idle", "wake"} : pc' = [pc EXCEPT ![p] = a]
      /\ pc' \in [Procs -> TaskPCs \cup CallerPCs] /\ loc' \in [Procs -> LocalType]
  BY Zenon, UnlockEffect DEF IInv
<1>2. /\ fut' \in [Futures -> FutureType]
      /\ \A f \in Futures : f # p => fut'[f] = fut[f]
      /\ p \in Futures => fut'[p].st = "none" /\ fut'[p].notified = "no"
  BY Zenon, EndedEffect DEF IInv, TypeOK
<1>3. TypeOK'
  BY Zenon, <1>1, <1>2 DEF IInv, TypeOK
<1>4. PlaceInv'
  BY <1>1, <1>2, ProcsDistinct DEF IInv, TypeOK, PlaceInv, TaskPCs, CallerPCs, Procs
<1>5. HolderInv'
  BY <1>1, ReleasedInv, Zenon DEF Holding
<1>6. ListInv'
  <2>1. \A f \in Futures : Waits(f)' <=> Waits(f)
    BY Zenon, <1>2 DEF IInv, PlaceInv, Waits
  <2>2. \A q \in Procs : pc[q] # "pop"
    BY Zenon DEF IInv, HolderInv, Holding
  <2> QED BY Zenon, <2>1, <2>2, ListKept DEF IInv
<1> QED BY Zenon, <1>3, <1>4, <1>5, <1>6 DEF IInv

\* notify_locked
LEMMA NotifyLockedInv == ASSUME IInv, NEW p \in Procs, NotifyLocked(p) PROVE IInv'
<1> USE DEF NotifyLocked
<1>0. /\ word \in Words /\ loc[p].cur \in Words
      /\ loc[p].cur.calls = word.calls /\ (loc[p].cur.s = "WAITING" <=> word.s = "WAITING")
  BY Zenon DEF IInv, TypeOK, LocalType, HolderInv, Holding
<1>1. CASE loc[p].cur.s = "WAITING"
  BY Zenon, <1>1, NotifyOldestInv
<1>2. CASE loc[p].cur.s # "WAITING" /\ word = loc[p].cur
  <2>1. /\ word' = set_state(loc[p].cur, "NOTIFIED") /\ fut' = Ended(p, fut)
        /\ Unlock(p, {}) /\ list' = list
    BY Zenon, <1>2 DEF Cas
  <2>2. word' \in Words /\ word'.s # "WAITING"
    BY Zenon, <1>0, <2>1, WordTypes
  <2> QED BY Zenon, <1>0, <1>2, <2>1, <2>2, StoredInv
<1>3. CASE loc[p].cur.s # "WAITING" /\ word # loc[p].cur
  <2>1. /\ loc' = [loc EXCEPT ![p].cur = word] /\ pc' = [pc EXCEPT ![p] = "store"]
        /\ UNCHANGED <<word, lock, list, fut>>
    BY Zenon, <1>0, <1>3 DEF Cas, Load, Goto
  <2>2. loc'[p].cur = word /\ \A q \in Procs : q # p => loc'[q] = loc[q]
    BY Zenon, <2>1 DEF IInv, TypeOK, LocalType
  <2>3. TypeOK'
    BY Zenon, <1>0, <2>1, LocalTypes DEF IInv, TypeOK, CallerPCs
  <2>4. PlaceInv'
    BY Zenon, <2>1, ProcsDistinct DEF IInv, TypeOK, PlaceInv, CallerPCs, TaskPCs, Procs
  <2>5. HolderInv'
    BY Zenon, <1>0, <1>3, <2>1, <2>2 DEF IInv, TypeOK, HolderInv, Holding
  <2>6. ListInv'
    BY Zenon, <2>1, ListKept DEF IInv, TypeOK, Waits
  <2> QED BY Zenon, <2>3, <2>4, <2>5, <2>6 DEF IInv
<1> QED BY Zenon, <1>1, <1>2, <1>3

\* The store of notify_locked after its exchange has failed
LEMMA NotifyStoreInv == ASSUME IInv, NEW p \in Procs, NotifyStore(p) PROVE IInv'
<1>1. loc[p].cur \in Words /\ word.s # "WAITING" /\ pc[p] = "store"
  BY Zenon DEF IInv, TypeOK, LocalType, HolderInv, NotifyStore
<1>2. word' \in Words /\ word'.s # "WAITING"
  BY Zenon, <1>1, WordTypes DEF NotifyStore
<1> QED BY Zenon, <1>1, <1>2, StoredInv DEF NotifyStore

\* notify_waiters counts itself, or begins to empty the list.
LEMMA NotifyWaitersInv == ASSUME IInv, NEW p \in Callers, NotifyWaiters(p) PROVE IInv'
<1> USE DEF NotifyWaiters, Free
<1>0. /\ p \in Procs /\ word \in Words
      /\ \A q \in Procs : pc[q] \notin Holding
  BY Zenon, ProcsDistinct DEF IInv, TypeOK, HolderInv, Procs
<1>1. CASE word.s = "WAITING"
  <2>0. /\ lock' = p /\ loc' = [loc EXCEPT ![p].cur = word] /\ pc' = [pc EXCEPT ![p] = "pop"]
        /\ UNCHANGED <<word, list, fut>>
    BY Zenon, <1>1 DEF Load, Goto
  <2>1. loc'[p].cur = word
    BY Zenon, <1>0, <2>0 DEF IInv, TypeOK, LocalType
  <2>2. TypeOK'
    BY Zenon, <1>0, <2>0, LocalTypes DEF IInv, TypeOK, CallerPCs
  <2>3. PlaceInv'
    BY <1>0, <2>0, ProcsDistinct DEF IInv, TypeOK, PlaceInv, CallerPCs, Procs
  <2>4. HolderInv'
    BY Zenon, <1>0, <1>1, <2>0, <2>1, ProcsDistinct DEF IInv, TypeOK, HolderInv, Holding
  <2>5. ListInv'
    BY Zenon, <1>0, <2>0, ListKept DEF IInv, TypeOK, Waits, Holding
  <2> QED BY Zenon, <2>2, <2>3, <2>4, <2>5 DEF IInv
<1>2. CASE word.s # "WAITING"
  <2>0. /\ word' \in Words /\ word'.s = word.s
        /\ UNCHANGED <<lock, list, fut, pc, loc>>
    BY <1>0, <1>2 DEF Words
  <2>1. TypeOK' /\ PlaceInv'
    BY Zenon, <2>0 DEF IInv, TypeOK, PlaceInv
  <2>2. HolderInv'
    BY Zenon, <1>0, <2>0 DEF IInv, HolderInv, Holding
  <2>3. ListInv'
    BY Zenon, <2>0, ListKept DEF IInv, Waits
  <2> QED BY Zenon, <2>1, <2>2, <2>3 DEF IInv
<1> QED BY Zenon, <1>1, <1>2

\* notify_waiters takes one waiter out of the list, or is done.
LEMMA NotifyWaitersPopInv == ASSUME IInv, NEW p \in Procs, NotifyWaitersPop(p) PROVE IInv'
<1> DEFINE w == list.tail
<1>0. /\ p \in Callers /\ pc[p] = "pop" /\ lock = p /\ word.s = "WAITING"
      /\ list \in Lists /\ Linked(list) /\ loc[p] \in LocalType
  BY Zenon DEF NotifyWaitersPop, IInv, TypeOK, PlaceInv, HolderInv, ListInv, Holding, Procs, TaskPCs
<1>1. CASE w = None
  <2>1. /\ word' = [s |-> "EMPTY", calls |-> loc[p].cur.calls + 1]
        /\ Unlock(p, loc[p].wakes) /\ UNCHANGED <<list, fut>>
    BY Zenon, <1>1 DEF NotifyWaitersPop
  <2>2. word' \in Words /\ word'.s = "EMPTY"
    BY <1>0, <2>1 DEF LocalType, Words
  <2>3. loc[p].wakes \in SUBSET Futures
    BY Zenon, <1>0 DEF LocalType
  <2>4. /\ lock' = None
        /\ \E a \in {"idle", "wake"} : pc' = [pc EXCEPT ![p] = a]
        /\ pc' \in [Procs -> TaskPCs \cup CallerPCs] /\ loc' \in [Procs -> LocalType]
    BY Zenon, <2>1, <2>3, UnlockEffect DEF IInv
  <2>5. TypeOK'
    BY Zenon, <2>1, <2>2, <2>4 DEF IInv, TypeOK
  <2>6. PlaceInv'
    BY <1>0, <2>1, <2>4, ProcsDistinct DEF IInv, TypeOK, PlaceInv, CallerPCs, Procs
  <2>7. HolderInv'
    BY <1>0, <2>4, ReleasedInv, Zenon DEF Holding
  <2>8. ListInv'
    <3>1. list.head = None
      BY Zenon, <1>0, <1>1 DEF Linked
    <3> QED BY Zenon, <2>1, <2>2, <3>1 DEF IInv, ListInv
  <2> QED BY Zenon, <2>5, <2>6, <2>7, <2>8 DEF IInv
<1>2. CASE w # None
  <2> DEFINE l == PopBack(list)
  <2>1. /\ l \in Lists /\ Linked(l) /\ w \in Futures /\ Listed(list, w)
        /\ \A f \in Futures : Listed(l, f) <=> Listed(list, f) /\ f # w
    BY Zenon, <1>0, <1>2, PopBackLinked DEF Futures
  <2>2. fut[w] \in FutureType /\ fut[w].st = "waiting" /\ fut[w].notified = "no"
    BY Zenon, <2>1 DEF IInv, TypeOK, ListInv
  <2>3. /\ list' = l /\ pc' = [pc EXCEPT ![p] = "pop"] /\ UNCHANGED <<word, lock>>
        /\ fut' = [fut EXCEPT ![w].notified = "all", ![w].waker = {}]
        /\ loc' = [loc EXCEPT ![p].popped = Append(@, w), ![p].wakes = @ \cup fut[w].waker]
    BY <1>2, <2>2, Zenon DEF NotifyWaitersPop, Goto
  <2>4. pc' = pc
    BY Zenon, <1>0, <2>3 DEF IInv, TypeOK
  <2>5. /\ fut' \in [Futures -> FutureType]
        /\ fut'[w].st = "waiting" /\ fut'[w].notified = "all"
        /\ \A f \in Futures : f # w => fut'[f] = fut[f]
    <3>1. fut' = [fut EXCEPT ![w] = [fut[w] EXCEPT !.notified = "all", !.waker = {}]]
      BY <2>1, <2>2, <2>3, Zenon DEF IInv, TypeOK, FutureType
    <3>2. /\ [fut[w] EXCEPT !.notified = "all", !.waker = {}] \in FutureType
          /\ [fut[w] EXCEPT !.notified = "all", !.waker = {}].st = "waiting"
          /\ [fut[w] EXCEPT !.notified = "all", !.waker = {}].notified = "all"
      BY <2>2, Zenon DEF FutureType
    <3> HIDE DEF w
    <3> QED BY Zenon, <2>1, <3>1, <3>2 DEF IInv, TypeOK
  <2>6. loc' \in [Procs -> LocalType] /\ \A q \in Procs : loc'[q].cur = loc[q].cur
    <3> DEFINE x == [loc[p] EXCEPT !.popped = Append(@, w), !.wakes = @ \cup fut[w].waker]
    <3>1. Append(loc[p].popped, w) \in Seq(Futures)
      BY <1>0, <2>1 DEF LocalType
    <3>2. loc[p].wakes \cup fut[w].waker \in SUBSET Futures
      BY Zenon, <1>0, <2>2 DEF LocalType, FutureType
    <3>3. x \in LocalType /\ x.cur = loc[p].cur
      BY <1>0, <3>1, <3>2, Zenon DEF LocalType
    <3>4. loc' = [loc EXCEPT ![p] = x]
      BY <2>3, ZenonT(60) DEF IInv, TypeOK, LocalType
    <3> HIDE DEF x
    <3> QED BY Zenon, <3>3, <3>4 DEF IInv, TypeOK
  <2> HIDE DEF w, l
  <2>7. TypeOK'
    BY Zenon, <2>1, <2>3, <2>4, <2>5, <2>6 DEF IInv, TypeOK
  <2>8. PlaceInv'
    BY <2>1, <2>2, <2>4, <2>5 DEF IInv, PlaceInv
  <2>9. HolderInv'
    BY <2>3, <2>4, <2>6 DEF IInv, HolderInv
  <2>10. ListInv'
    <3>1. Linked(list)' /\ \A f \in Futures : Listed(list, f)' <=> Listed(l, f)
      BY Zenon, <2>1, <2>3 DEF Linked, Listed
    <3> QED BY <1>0, <2>1, <2>4, <2>5, <3>1 DEF IInv, ListInv
  <2> QED BY Zenon, <2>7, <2>8, <2>9, <2>10 DEF IInv
<1> QED BY Zenon, <1>1, <1>2

\* A future that is dropped leaves the list if it is there, and passes its notification on.
LEMMA DropInv == ASSUME IInv, NEW f \in Futures, Drop(f) PROVE IInv'
<1> DEFINE l == Remove(list, f)
           w == IF l.head = None /\ word.s = "WAITING" THEN set_state(word, "EMPTY") ELSE word
<1>0. /\ f \in Procs /\ pc[f] \in {"running", "parked"}
      /\ list \in Lists /\ Linked(list) /\ word \in Words /\ fut \in [Futures -> FutureType]
  BY Zenon DEF Drop, IInv, TypeOK, ListInv, Procs
<1>1. /\ Ended(f, fut) \in [Futures -> FutureType]
      /\ \A g \in Futures : g # f => Ended(f, fut)[g] = fut[g]
      /\ Ended(f, fut)[f].st = "none" /\ Ended(f, fut)[f].notified = "no"
  BY Zenon, <1>0, EndedEffect
<1>2. CASE fut[f].st # "waiting"
  <2>0. /\ fut' = Ended(f, fut) /\ pc' = [pc EXCEPT ![f] = "idle"]
        /\ loc' = [loc EXCEPT ![f] = Start] /\ UNCHANGED <<word, lock, list>>
    BY Zenon, <1>2 DEF Drop, Return, Goto
  <2>1. TypeOK'
    BY Zenon, <1>0, <1>1, <2>0, LocalTypes DEF IInv, TypeOK, TaskPCs
  <2>2. PlaceInv'
    BY <1>0, <1>1, <2>0, ProcsDistinct DEF IInv, TypeOK, PlaceInv, TaskPCs, CallerPCs, Procs
  <2>3. HolderInv'
    BY Zenon, <1>0, <2>0 DEF IInv, TypeOK, HolderInv, Holding
  <2>4. ListInv'
    <3>1. \A g \in Futures : Waits(g)' <=> Waits(g)
      BY Zenon, <1>1, <1>2, <2>0 DEF Waits
    <3>2. \A q \in Procs : pc[q] = "pop" => pc'[q] = "pop"
      BY Zenon, <1>0, <2>0 DEF IInv, TypeOK
    <3> QED BY Zenon, <2>0, <3>1, <3>2, ListKept DEF IInv
  <2> QED BY Zenon, <2>1, <2>2, <2>3, <2>4 DEF IInv
<1>3. CASE fut[f].st = "waiting"
  <2>0. lock = None /\ list' = l /\ word' = w
    BY Zenon, <1>3 DEF Drop, Free
  <2>1. \A q \in Procs : pc[q] \notin Holding
    BY Zenon, <2>0, ProcsDistinct DEF IInv, HolderInv
  <2>2. /\ l \in Lists /\ Linked(l)
        /\ \A g \in Futures : Listed(l, g) <=> Listed(list, g) /\ g # f
    BY Zenon, <1>0, RemoveLinked DEF Futures
  <2>3. w \in Words /\ w.calls = word.calls /\ (w.s = "WAITING" <=> l.head # None)
    <3>1. word.s = "WAITING" <=> list.head # None
      BY Zenon, <2>1 DEF IInv, ListInv, Holding
    <3>2. l.head # None => list.head # None
      BY Zenon, <1>0, RemoveHead DEF Futures
    <3> QED BY Zenon, <1>0, <3>1, <3>2, WordTypes
  <2>4. Linked(list)' /\ \A g \in Futures : Listed(list, g)' <=> Listed(l, g)
    BY Zenon, <2>0, <2>2 DEF Linked, Listed
  <2> HIDE DEF l, w
  <2>5. CASE PassesOn(f)
    <3>0. /\ lock' = f /\ loc' = [loc EXCEPT ![f].cur = w] /\ pc' = [pc EXCEPT ![f] = "locked"]
          /\ fut' = fut /\ fut[f].notified = "one"
      BY Zenon, <1>3, <2>5 DEF Drop, Goto, PassesOn, l, w
    <3>1. loc'[f].cur = w /\ loc' \in [Procs -> LocalType]
      BY <1>0, <2>3, <3>0, LocalTypes, ZenonT(60) DEF IInv, TypeOK, LocalType
    <3>2. TypeOK'
      BY Zenon, <1>0, <2>0, <2>2, <2>3, <3>0, <3>1 DEF IInv, TypeOK, TaskPCs
    <3>3. PlaceInv'
      BY Zenon, <1>0, <1>3, <3>0, ProcsDistinct DEF IInv, TypeOK, PlaceInv, TaskPCs, CallerPCs, Procs
    <3>4. HolderInv'
      BY Zenon, <1>0, <2>0, <2>1, <2>3, <3>0, <3>1, ProcsDistinct DEF IInv, TypeOK, HolderInv, Holding
    <3>5. ListInv'
      BY Zenon, <2>0, <2>2, <2>3, <2>4, <3>0 DEF IInv, ListInv
    <3> QED BY Zenon, <3>2, <3>3, <3>4, <3>5 DEF IInv
  <2>6. CASE ~PassesOn(f)
    <3>0. /\ lock' = lock /\ loc' = [loc EXCEPT ![f] = Start] /\ pc' = [pc EXCEPT ![f] = "idle"]
          /\ fut' = Ended(f, fut)
      BY Zenon, <1>3, <2>6 DEF Drop, Goto, Return, l, w
    <3>1. TypeOK'
      BY Zenon, <1>0, <1>1, <2>0, <2>2, <2>3, <3>0, LocalTypes DEF IInv, TypeOK, TaskPCs
    <3>2. PlaceInv'
      BY <1>0, <1>1, <3>0, ProcsDistinct DEF IInv, TypeOK, PlaceInv, TaskPCs, CallerPCs, Procs
    <3>3. HolderInv'
      BY Zenon, <1>0, <2>0, <2>1, <3>0, ProcsDistinct DEF IInv, TypeOK, HolderInv, Holding
    <3>4. ListInv'
      BY Zenon, <1>1, <2>0, <2>2, <2>3, <2>4, <3>0 DEF IInv, ListInv
    <3> QED BY Zenon, <3>1, <3>2, <3>3, <3>4 DEF IInv
  <2> QED BY Zenon, <2>5, <2>6
<1> QED BY Zenon, <1>2, <1>3

-----------------------------------------------------------------------------
\* Every step keeps the invariant.
LEMMA StepInv == IInv /\ [Next]_vars => IInv'
<1> SUFFICES ASSUME IInv, [Next]_vars PROVE IInv'
  BY Zenon
<1>1. CASE UNCHANGED vars
  <2>1. TypeOK' /\ PlaceInv' /\ HolderInv'
    BY Zenon, <1>1 DEF vars, IInv, TypeOK, PlaceInv, HolderInv
  <2>2. ListInv'
    BY Zenon, <1>1, ListKept DEF vars, IInv, Waits
  <2> QED BY Zenon, <2>1, <2>2 DEF IInv
<1>2. CASE \E f \in Futures : Notified(f) \/ Drop(f) \/ PollStep(f)
  BY Zenon, <1>2, NotifiedInv, DropInv, PollLoadInv, PollTryInv, PollLockInv, PollTransitionInv,
     PollWaitingInv DEF PollStep
<1>3. CASE \E f \in Futures : \E waker \in {{}, {f}} : PollNotified(f, waker)
  BY <1>3, PollNotifiedInv, Zenon
<1>4. CASE \E p \in Callers : NotifyOne(p) \/ NotifyWaiters(p)
  BY Zenon, <1>4, NotifyOneInv, NotifyWaitersInv
<1>5. CASE \E p \in Procs : Step(p)
  BY Zenon, <1>5, NotifyOneTryInv, NotifyOneLockInv, NotifyLockedInv, NotifyStoreInv,
     NotifyWaitersPopInv, WakeInv DEF Step
<1> QED BY Zenon, <1>1, <1>2, <1>3, <1>4, <1>5 DEF Next

\* The lock, the state word of notify.rs and its list agree in every reachable state.
THEOREM Agreement == Spec => []IInv
<1> QED BY InitInv, StepInv, PTL DEF Spec

\* No assertion and no unwrap of notify.rs fails, for any number of tasks and callers.
THEOREM NeverPanicsHolds == Spec => []NeverPanics
<1>1. IInv => NeverPanics
  BY Zenon DEF IInv, TypeOK, NeverPanics, TaskPCs, CallerPCs
<1> QED BY <1>1, Agreement, PTL

=============================================================================
