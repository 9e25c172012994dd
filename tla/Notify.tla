-------------------------------- MODULE Notify --------------------------------
(***************************************************************************)
(* util/notify.rs: tasks that wait for futures of a Notify, may drop them  *)
(* at any time, and callers of notify_one and notify_waiters.  The state   *)
(* word is read and exchanged without the lock of the list of waiters, so  *)
(* every such access is a step of its own.  Taking the lock and the load   *)
(* that follows it are one step, as are the last access and the release of *)
(* the lock: nobody can tell them apart.                                   *)
(***************************************************************************)
EXTENDS LinkedList

CONSTANTS
    Callers,    \* threads that notify
    MaxFutures, \* bound: futures created
    MaxCalls    \* bound: calls of notify_one and notify_waiters

VARIABLES
    word,    \* Notify::state: the state and the number of notify_waiters calls
    lock,    \* the holder of the lock of Notify::waiters, or None
    list,    \* the list of waiters
    fut,     \* the future of each task: its State and its Waiter
    pc,      \* where each task and caller is
    loc,     \* their local variables
    woken,   \* tasks that have been woken since their last poll
    created, \* futures created, up to MaxFutures
    calls    \* notifications begun, up to MaxCalls

vars == <<word, lock, list, fut, pc, loc, woken, created, calls>>

Futures == Nodes
Procs == Futures \cup Callers

ASSUME ProcsDistinct == Futures \cap Callers = {} /\ None \notin Procs

NoFuture == [st |-> "none", since |-> 0, notified |-> "no", waker |-> {}]
Start == [cur |-> [s |-> "EMPTY", calls |-> 0], waker |-> {}, popped |-> <<>>, wakes |-> {}]

set_state(w, s) == [w EXCEPT !.s = s]
Free == lock = None

Init ==
    /\ word = [s |-> "EMPTY", calls |-> 0]
    /\ lock = None
    /\ list = NewList
    /\ fut = [f \in Futures |-> NoFuture]
    /\ pc = [p \in Procs |-> "idle"]
    /\ loc = [p \in Procs |-> Start]
    /\ woken = {}
    /\ created = 0
    /\ calls = 0

Goto(p, l) == pc' = [pc EXCEPT ![p] = l]
Load(p) == loc' = [loc EXCEPT ![p].cur = word]

\* p has finished its call; a task is at the place l then.
Return(p, l) == Goto(p, l) /\ loc' = [loc EXCEPT ![p] = Start]

\* The compare-exchange of the whole word
Cas(old, new) == word = old /\ word' = new

-----------------------------------------------------------------------------
(* The future: creation and polls *)

\* notified()
Notified(f) ==
    /\ pc[f] = "idle" /\ created < MaxFutures
    /\ created' = created + 1
    /\ fut' = [fut EXCEPT ![f] = [NoFuture EXCEPT !.st = "init", !.since = word.calls]]
    /\ Goto(f, "running")
    /\ UNCHANGED <<word, lock, list, loc, woken, calls>>

\* poll, with the waker of the task, or enable, without it: a waker is the set of the tasks
\* that it wakes.  A task that got Pending from
\* poll is polled again when it has been woken.
PollNotified(f, waker) ==
    /\ \/ pc[f] = "running" /\ UNCHANGED woken
       \/ pc[f] = "parked" /\ f \in woken /\ waker # {} /\ woken' = woken \ {f}
    /\ fut[f].st \in {"init", "waiting"}
    /\ Goto(f, IF fut[f].st = "init" THEN "load" ELSE "look")
    /\ loc' = [loc EXCEPT ![f].waker = waker]
    /\ UNCHANGED <<word, lock, list, fut, created, calls>>

\* The poll of f returns Ready.
Ready(f) ==
    /\ fut' = [fut EXCEPT ![f] = [NoFuture EXCEPT !.st = "done"]]
    /\ Return(f, "running")

PollLoad(f) ==
    /\ pc[f] = "load"
    /\ Load(f) /\ Goto(f, "try")
    /\ UNCHANGED <<word, lock, list, fut, woken, created, calls>>

\* Optimistically take a pending notification.
PollTry(f) ==
    LET pending == set_state(loc[f].cur, "NOTIFIED")
    IN  /\ pc[f] = "try"
        /\ \/ Cas(pending, set_state(pending, "EMPTY")) /\ Ready(f)
           \/ word # pending /\ Goto(f, "lock") /\ UNCHANGED <<word, fut, loc>>
        /\ UNCHANGED <<lock, list, woken, created, calls>>

\* notify_waiters was called after the future was created.
Missed(f) == word.calls # fut[f].since

PollLock(f) ==
    /\ pc[f] = "lock" /\ Free
    /\ \/ Missed(f) /\ Ready(f) /\ UNCHANGED lock
       \/ ~Missed(f) /\ lock' = f /\ Load(f) /\ Goto(f, "transition") /\ UNCHANGED fut
    /\ UNCHANGED <<word, list, woken, created, calls>>

\* The future is Waiting and the poll returns Pending.
Pending(f) ==
    /\ list' = PushFront(list, f)
    /\ fut' = [fut EXCEPT ![f].st = "waiting", ![f].waker = loc[f].waker]
    /\ lock' = None
    /\ Return(f, CASE list.head = f -> "panicked"
                   [] loc[f].waker # {} -> "parked"
                   [] OTHER -> "running")

\* A failed compare-exchange goes round the loop; the assertions say which state it may find.
Retry(p, allowed) ==
    /\ word # loc[p].cur
    /\ Load(p)
    /\ Goto(p, IF word.s \in allowed THEN pc[p] ELSE "panicked")
    /\ UNCHANGED <<word, lock, list, fut>>

\* One round of the loop that transitions to WAITING under the lock
PollTransition(f) ==
    LET cur == loc[f].cur
    IN  /\ pc[f] = "transition"
        /\ \/ /\ cur.s = "EMPTY"
              /\ \/ Cas(cur, set_state(cur, "WAITING")) /\ Pending(f)
                 \/ Retry(f, {"NOTIFIED"})
           \/ /\ cur.s = "WAITING"
              /\ Pending(f) /\ UNCHANGED word
           \/ /\ cur.s = "NOTIFIED"
              /\ \/ Cas(cur, set_state(cur, "EMPTY")) /\ Ready(f) /\ lock' = None /\ UNCHANGED list
                 \/ Retry(f, {"EMPTY"})
        /\ UNCHANGED <<woken, created, calls>>

\* Mutant of Registers: the waker of a future that already waits is not stored.
RegistersNot(f) == fut[f].waker

\* The waker after a poll of a future that waits
Registers(f) == fut[f].waker \cup loc[f].waker

\* A later poll, which holds the lock from its first access to its last
PollWaiting(f) ==
    /\ pc[f] = "look" /\ Free
    /\ IF fut[f].notified # "no" THEN Ready(f)
       ELSE /\ fut' = [fut EXCEPT ![f].waker = Registers(f)]
            /\ Return(f, IF loc[f].waker # {} THEN "parked" ELSE "running")
    /\ UNCHANGED <<word, lock, list, woken, created, calls>>

-----------------------------------------------------------------------------
(* notify_one, notify_waiters and the drop of a future *)

NotifyOne(p) ==
    /\ pc[p] = "idle" /\ calls < MaxCalls
    /\ calls' = calls + 1
    /\ Load(p) /\ Goto(p, "one")
    /\ UNCHANGED <<word, lock, list, fut, woken, created>>

\* The loop of notify_one without the lock
NotifyOneTry(p) ==
    LET cur == loc[p].cur
    IN  /\ pc[p] = "one" /\ cur.s # "WAITING"
        /\ \/ Cas(cur, set_state(cur, "NOTIFIED")) /\ Return(p, "idle") /\ UNCHANGED <<lock, list, fut>>
           \/ Retry(p, {"EMPTY", "NOTIFIED", "WAITING"})
        /\ UNCHANGED <<woken, created, calls>>

NotifyOneLock(p) ==
    /\ pc[p] = "one" /\ loc[p].cur.s = "WAITING" /\ Free
    /\ lock' = p
    /\ Load(p) /\ Goto(p, "locked")
    /\ UNCHANGED <<word, list, fut, woken, created, calls>>

\* The futures after p has ended its call: that of a task that drops it is gone.
Ended(p, fs) == [f \in Futures |-> IF f = p THEN NoFuture ELSE fs[f]]

\* p releases the lock and has some tasks to wake.
Unlock(p, wakes) ==
    /\ lock' = None
    /\ IF wakes = {} THEN Return(p, "idle")
       ELSE Goto(p, "wake") /\ loc' = [loc EXCEPT ![p] = [Start EXCEPT !.wakes = wakes]]

\* Mutant of WordAfterPop: WAITING stays when the last waiter has been notified.
WordAfterPopSame(l) == word

\* The state is EMPTY again when the last waiter has left the list.
WordAfterPop(l) == IF l.head = None THEN set_state(word, "EMPTY") ELSE word

\* notify_locked with a waiter: the oldest is notified.
NotifyOldest(p) ==
    LET w == list.tail
        l == PopBack(list)
    IN  IF w = None \/ fut[w].notified # "no"
        THEN Goto(p, "panicked") /\ UNCHANGED <<word, lock, list, fut, loc>>
        ELSE /\ list' = l
             /\ word' = WordAfterPop(l)
             /\ fut' = Ended(p, [fut EXCEPT ![w].notified = "one", ![w].waker = {}])
             /\ Unlock(p, fut[w].waker)

\* notify_locked without a waiter: an exchange, and when that fails a store.
NotifyLocked(p) ==
    LET cur == loc[p].cur
    IN  /\ pc[p] = "locked"
        /\ \/ cur.s = "WAITING" /\ NotifyOldest(p)
           \/ /\ cur.s # "WAITING"
              /\ \/ /\ Cas(cur, set_state(cur, "NOTIFIED"))
                    /\ fut' = Ended(p, fut)
                    /\ Unlock(p, {})
                    /\ UNCHANGED list
                 \/ /\ word # cur
                    /\ Load(p) /\ Goto(p, IF word.s = "WAITING" THEN "panicked" ELSE "store")
                    /\ UNCHANGED <<word, lock, list, fut>>
        /\ UNCHANGED <<woken, created, calls>>

NotifyStore(p) ==
    /\ pc[p] = "store"
    /\ word' = set_state(loc[p].cur, "NOTIFIED")
    /\ fut' = Ended(p, fut)
    /\ Unlock(p, {})
    /\ UNCHANGED <<list, woken, created, calls>>

NotifyWaiters(p) ==
    /\ pc[p] = "idle" /\ calls < MaxCalls
    /\ Free
    /\ calls' = calls + 1
    /\ IF word.s = "WAITING"
       THEN lock' = p /\ Load(p) /\ Goto(p, "pop") /\ UNCHANGED word
       ELSE word' = [word EXCEPT !.calls = @ + 1] /\ UNCHANGED <<lock, loc, pc>>
    /\ UNCHANGED <<list, fut, woken, created>>

\* One waiter after the other leaves the list, then the state is stored.
NotifyWaitersPop(p) ==
    LET w == list.tail
    IN  /\ pc[p] = "pop"
        /\ IF w = None
           THEN /\ word' = [s |-> "EMPTY", calls |-> loc[p].cur.calls + 1]
                /\ Unlock(p, loc[p].wakes)
                /\ UNCHANGED <<list, fut>>
           ELSE /\ list' = PopBack(list)
                /\ fut' = [fut EXCEPT ![w].notified = "all", ![w].waker = {}]
                /\ loc' = [loc EXCEPT ![p].popped = Append(@, w),
                                      ![p].wakes = @ \cup fut[w].waker]
                /\ Goto(p, IF fut[w].notified = "no" THEN "pop" ELSE "panicked")
                /\ UNCHANGED <<word, lock>>
        /\ UNCHANGED <<woken, created, calls>>

Wake(p) ==
    /\ pc[p] = "wake"
    /\ woken' = woken \cup loc[p].wakes
    /\ Return(p, "idle")
    /\ UNCHANGED <<word, lock, list, fut, created, calls>>

\* Mutant of PassesOn: a notification that was not received is dropped with the future.
PassesOnNever(f) == FALSE

\* Only what notify_one has sent is passed on.
PassesOn(f) == fut[f].notified = "one"

\* drop of a future that is Waiting, and of any other
Drop(f) ==
    LET l == Remove(list, f)
        w == IF l.head = None /\ word.s = "WAITING" THEN set_state(word, "EMPTY") ELSE word
    IN  /\ pc[f] \in {"running", "parked"}
        /\ IF fut[f].st # "waiting"
           THEN /\ fut' = Ended(f, fut) /\ Return(f, "idle")
                /\ UNCHANGED <<word, lock, list>>
           ELSE /\ Free
                /\ list' = l
                /\ word' = w
                /\ IF PassesOn(f)
                   THEN /\ lock' = f
                        /\ loc' = [loc EXCEPT ![f].cur = w]
                        /\ Goto(f, "locked")
                        /\ UNCHANGED fut
                   ELSE fut' = Ended(f, fut) /\ Return(f, "idle") /\ UNCHANGED lock
        /\ UNCHANGED <<woken, created, calls>>

-----------------------------------------------------------------------------
\* A poll that has begun, up to its end
PollStep(f) ==
    PollLoad(f) \/ PollTry(f) \/ PollLock(f) \/ PollTransition(f) \/ PollWaiting(f)

\* What a thread does in its call once it has begun
Step(p) ==
    NotifyOneTry(p) \/ NotifyOneLock(p) \/ NotifyLocked(p) \/ NotifyStore(p)
    \/ NotifyWaitersPop(p) \/ Wake(p)

Next ==
    \/ \E f \in Futures :
        \/ Notified(f) \/ Drop(f) \/ PollStep(f)
        \/ \E waker \in {{}, {f}} : PollNotified(f, waker)
    \/ \E p \in Callers : NotifyOne(p) \/ NotifyWaiters(p)
    \/ \E p \in Procs : Step(p)

Spec == Init /\ [][Next]_vars

\* Threads go on with their calls, the lock is given to who waits for it, and the executor
\* polls a task that is running or that has been woken.
FairSpec ==
    /\ Spec
    /\ \A p \in Procs : SF_vars(Step(p))
    /\ \A f \in Futures : SF_vars(PollStep(f)) /\ WF_vars(PollNotified(f, {f}))

-----------------------------------------------------------------------------
\* The type of the state, and where tasks and callers can be
Words == [s : {"EMPTY", "WAITING", "NOTIFIED"}, calls : Nat]
FutureType == [st : {"none", "init", "waiting", "done"}, since : Nat,
               notified : {"no", "one", "all"}, waker : SUBSET Futures]
LocalType == [cur : Words, waker : SUBSET Futures, popped : Seq(Futures), wakes : SUBSET Futures]
TaskPCs == {"idle", "running", "parked", "load", "try", "lock", "transition", "look", "locked",
            "store", "wake"}
CallerPCs == {"idle", "one", "locked", "store", "pop", "wake"}
Holding == {"transition", "locked", "store", "pop"}

TypeOK ==
    /\ word \in Words
    /\ lock \in Procs \cup {None}
    /\ list \in Lists
    /\ fut \in [Futures -> FutureType]
    /\ pc \in [Procs -> TaskPCs \cup CallerPCs]
    /\ loc \in [Procs -> LocalType]

\* The future of a task fits the place of the task.
PlaceInv ==
    /\ \A f \in Futures :
        /\ pc[f] \in TaskPCs
        /\ pc[f] \in {"idle", "wake"} => fut[f].st = "none"
        /\ pc[f] \in {"load", "try", "lock", "transition"} => fut[f].st = "init"
        /\ pc[f] \in {"look", "parked", "locked", "store"} => fut[f].st = "waiting"
        /\ pc[f] \in {"locked", "store"} => fut[f].notified = "one"
        /\ fut[f].st # "waiting" => fut[f].notified = "no"
    /\ \A c \in Callers : pc[c] \in CallerPCs

\* Whoever holds the lock knows whether the state is WAITING, and the number of calls.
HolderInv ==
    \A p \in Procs :
        /\ lock = p <=> pc[p] \in Holding
        /\ pc[p] \in Holding => loc[p].cur.calls = word.calls
        /\ pc[p] \in Holding => (loc[p].cur.s = "WAITING" <=> word.s = "WAITING")
        /\ pc[p] = "store" => word.s # "WAITING"
        /\ pc[p] = "pop" => word.s = "WAITING"

\* The list holds the futures that wait for a notification, and WAITING says that there is
\* one, except while notify_waiters empties the list.
ListInv ==
    /\ Linked(list)
    /\ \A f \in Futures : Listed(list, f) <=> fut[f].st = "waiting" /\ fut[f].notified = "no"
    /\ (\A p \in Procs : pc[p] # "pop") => (word.s = "WAITING" <=> list.head # None)

\* The inductive invariant of the lock, the state word and the list of notify.rs
IInv == TypeOK /\ PlaceInv /\ HolderInv /\ ListInv

\* The assertions and unwraps of poll_notified, notify_locked and notify_waiters hold: the
\* state word, changed without the lock, never disagrees with the list, changed under it.
NeverPanics == \A p \in Procs : pc[p] # "panicked"

\* A waiter that leaves the list during notify_waiters is notified, for those who can take
\* the lock, when the state is stored.
popped == IF lock = None THEN <<>> ELSE loc[lock].popped

Leaving(f) == \E i \in DOMAIN popped : popped[i] = f

\* What a future x is for those who can take the lock, after n calls of notify_waiters
Shown(x, n, leaving) ==
    CASE x.st = "init" -> IF n # x.since THEN "called" ELSE "created"
      [] x.st = "waiting" -> IF x.notified = "no" \/ (x.notified = "all" /\ leaving)
                             THEN "queued" ELSE x.notified
      [] OTHER -> x.st

abstractPermit == word.s = "NOTIFIED"
abstractQueue == popped \o Backward(list)
abstractSt == [f \in Futures |-> Shown(fut[f], word.calls, Leaving(f))]

Promise == INSTANCE Notification WITH
    permit <- abstractPermit, queue <- abstractQueue, st <- abstractSt

\* notify.rs keeps the promise of module Notification: a permit is stored at most once and
\* only without waiters, waiters are served in order, every future that exists when
\* notify_waiters is called completes, and what a dropped future has not received from
\* notify_one goes to the next or is stored.
KeepsPromise == Promise!Spec

\* Notify::notified().await: a future that has been notified completes, or is dropped; its
\* task has been woken if it went to sleep, also when it was enabled before it was polled.
Delivered == \A f \in Futures :
    (fut[f].st = "waiting" /\ fut[f].notified # "no") ~> (fut[f].st # "waiting")

=============================================================================
