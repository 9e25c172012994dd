----------------------------- MODULE Notification -----------------------------
(***************************************************************************)
(* What util/notify.rs promises: a permit that is stored at most once, and *)
(* futures that are notified in the order in which they began to wait.     *)
(***************************************************************************)
EXTENDS Naturals, Sequences

CONSTANT Futures

VARIABLES
    permit, \* whether a notification is stored
    queue,  \* futures that wait, the oldest first
    st      \* where each future is: "none", "created", "called" (notify_waiters was called
            \* before the first poll), "queued", "one" or "all" (notified while it waited,
            \* by notify_one or by notify_waiters) or "done"

vars == <<permit, queue, st>>

Init == permit = FALSE /\ queue = <<>> /\ st = [f \in Futures |-> "none"]

Create(f) == st[f] = "none" /\ st' = [st EXCEPT ![f] = "created"] /\ UNCHANGED <<permit, queue>>

\* The stored permit completes a future that has not waited.
TakePermit(f) ==
    /\ st[f] \in {"created", "called"} /\ permit
    /\ permit' = FALSE
    /\ st' = [st EXCEPT ![f] = "done"]
    /\ UNCHANGED queue

Enqueue(f) ==
    /\ st[f] = "created" /\ ~permit
    /\ queue' = Append(queue, f)
    /\ st' = [st EXCEPT ![f] = "queued"]
    /\ UNCHANGED permit

Complete(f) ==
    /\ st[f] \in {"called", "one", "all"}
    /\ st' = [st EXCEPT ![f] = "done"]
    /\ UNCHANGED <<permit, queue>>

\* A notification goes to the oldest waiting future; s is what becomes of the others.
Give(s) ==
    IF queue = <<>> THEN permit' = TRUE /\ st' = s /\ UNCHANGED queue
    ELSE /\ st' = [s EXCEPT ![Head(queue)] = "one"]
         /\ queue' = Tail(queue)
         /\ UNCHANGED permit

NotifyOne == Give(st)

NotifyWaiters ==
    /\ st' = [f \in Futures |-> CASE st[f] = "queued" -> "all"
                                  [] st[f] = "created" -> "called"
                                  [] OTHER -> st[f]]
    /\ queue' = <<>>
    /\ UNCHANGED permit

\* The sequence q without its i-th element
Without(q, i) == [j \in 1..(Len(q) - 1) |-> IF j < i THEN q[j] ELSE q[j + 1]]

\* A future that is dropped leaves the queue, or passes on what notify_one gave it.
Drop(f) ==
    LET s == [st EXCEPT ![f] = "none"]
    IN  /\ st[f] # "none"
        /\ IF st[f] = "one" THEN Give(s)
           ELSE /\ st' = s
                /\ IF st[f] = "queued"
                   THEN \E i \in 1..Len(queue) : queue[i] = f /\ queue' = Without(queue, i)
                   ELSE UNCHANGED queue
                /\ UNCHANGED permit

Next ==
    \/ \E f \in Futures : Create(f) \/ TakePermit(f) \/ Enqueue(f) \/ Complete(f) \/ Drop(f)
    \/ NotifyOne \/ NotifyWaiters

Spec == Init /\ [][Next]_vars

=============================================================================
