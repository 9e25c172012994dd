-------------------------- MODULE BufferSetProofs --------------------------
(***************************************************************************)
(* The safety properties of BufferSet, for every number of tasks, every    *)
(* max_write_buffers, every capacity and every bound on the group ids.     *)
(*                                                                         *)
(* Every step preserves the invariant IInv.  Most steps change the local   *)
(* state of one process and little else, so each part of IInv has a frame  *)
(* lemma that says what of a step it depends on, LocalStep, MoveStep,      *)
(* JobStep and JobMove collect the frame lemmas for steps of a task and of *)
(* the flush job that touch no buffer, and one lemma per action does the   *)
(* rest.  The two actions that change num_writer take its relation to the  *)
(* transactions as an assumption, which the theorems on cardinality        *)
(* discharge.  The properties are derived from IInv at the end.            *)
(***************************************************************************)
EXTENDS BufferSet, Integers, FiniteSetTheorems, TLAPS

\* The local state of every process but p is unchanged.
Others(p) ==
    \A u \in Procs \ {p} :
        /\ pc'[u] = pc[u] /\ ret'[u] = ret[u] /\ pin'[u] = pin[u]
        /\ bid'[u] = bid[u] /\ hold'[u] = hold[u] /\ op'[u] = op[u]

\* The arithmetic facts that TypeOK implies.
LEMMA TypeFacts ==
    ASSUME TypeOK
    PROVE  /\ first \in Nat \ {0} /\ next \in Nat /\ start \in Nat /\ saved \in Nat
           /\ permits \in Nat /\ first \in 0..MaxGroup /\ first \in 0..(MaxGroup + 1)
           /\ Current \in Nat /\ Current \in GroupIds /\ Current \in 0..(MaxGroup + 1)
           /\ next = Current + 1
           /\ 0 \in 0..MaxGroup /\ 0 \in 0..(MaxGroup + 1)
           /\ \A p \in Procs : pin[p] \in Nat /\ bid[p] \in Nat
           /\ \A g \in GroupIds : g \in Nat \ {0} /\ g <= MaxGroup
BY MaxGroupAssumption DEF TypeOK, Current, GroupIds

\* acquire takes a unit only from a positive counter.
LEMMA Predecessor ==
    ASSUME NEW m \in Nat, m > 0 \/ m # 0
    PROVE  m - 1 \in Nat
OBVIOUS

\* alloc adds a record that fits.
LEMMA Fits ==
    ASSUME NEW a \in 0..Capacity, NEW n \in 1..(Capacity + 1), a + n <= Capacity
    PROVE  a + n \in 0..Capacity
BY CapacityAssumption

\* Two numbers are in order or not.
LEMMA Ordered ==
    ASSUME NEW a \in Nat, NEW b \in Nat
    PROVE  /\ a <= b => a < b \/ a = b
           /\ ~(a >= b) <=> a < b
           /\ a > b => ~(a < b + 1)
           /\ a = b => a <= b /\ ~(a > b)
           /\ a < b \/ a = b \/ a > b
           /\ a # 0 <=> a > 0
           /\ a > 1 => a # 0
           /\ a <= 1 => ~(a > 1)
           /\ (a + 1) - 1 = a /\ a + 1 \in Nat /\ 2 \in Nat
OBVIOUS

\* What lies below a number lies below its successor.
LEMMA Successor ==
    ASSUME NEW a \in Nat, NEW b \in Nat
    PROVE  /\ a <= b => a <= b + 1 /\ a < b + 1
           /\ a < b => a < b + 1
           /\ a < b => a + 1 <= b
           /\ a <= b => a + 1 <= b + 1
           /\ a <= b + MaxWriteBuffers => a <= (b + 1) + MaxWriteBuffers
BY MaxWriteBuffersAssumption

\* What lies below the successor of a number is the number or lies below it.
LEMMA BelowSuccessor ==
    ASSUME NEW a \in Nat, NEW b \in Nat
    PROVE  /\ a < b + 1 => a < b \/ a = b
           /\ a < b + 1 => a <= b
           /\ a <= b + 1 => a <= b \/ a = b + 1
           /\ a > b + 1 => a > b
OBVIOUS

\* The order is transitive.
LEMMA Transitive ==
    ASSUME NEW a \in Nat, NEW b \in Nat, NEW c \in Nat, a <= b, b <= c
    PROVE  a <= c
OBVIOUS

\* What the order of the buffers says of the counters of the set and of the version.
LEMMA OrderFacts ==
    ASSUME TypeOK
    PROVE  /\ first <= first + 1 /\ next <= next + 1
           /\ Current + 1 > Current /\ Current <= Current + 1
           /\ first < next => first <= Current
           /\ start < first => start + 1 <= first /\ start + 1 \in GroupIds
           /\ first # MaxGroup => first + 1 \in GroupIds
           /\ Current # MaxGroup => /\ Current < MaxGroup
                                    /\ Current + 1 \in GroupIds
                                    /\ next + 1 \in 2..(MaxGroup + 1)
           /\ first <= Current => first < next
           /\ next' = Current + 2 => next' = next + 1 /\ Current' = Current + 1
           /\ \A g \in GroupIds : g > Current => ~(g < next)
BY MaxGroupAssumption DEF TypeOK, Current, GroupIds

\* Where flush_during_shutdown ends: s is the last saved buffer, c the current one.
LEMMA LastBuffer ==
    ASSUME NEW s \in Nat, NEW c \in Nat, s + 1 <= c + 1
    PROVE  /\ s + 1 >= c + 1 \/ s + 1 > c => s = c
           /\ s + 1 = c => s = c - 1
OBVIOUS

\* Before close: a task that uses the store keeps the flush job out of its shutdown
\* rounds, holds a version, and works on a buffer of the set.
LEMMA ActiveTask ==
    ASSUME IInv, NEW t \in Tasks, pc[t] # "idle"
    PROVE  /\ ~closing
           /\ ~ShuttingDown
           /\ first <= Current
           /\ pin[t] # 0
           /\ HasBuffer(t) => bid[t] \in GroupIds
<1>0. TypeOK /\ TaskOK(t) /\ FlusherInv  BY Zenon DEF IInv, TaskInv
<1>1. ~closing /\ pin[t] # 0  BY Zenon, <1>0 DEF TaskOK
<1>2. ~ShuttingDown /\ first <= Current  BY Zenon, <1>0, <1>1 DEF FlusherInv
<1>3. HasBuffer(t) => bid[t] \in GroupIds
  <2>1. pin[t] \in Nat /\ bid[t] \in Nat /\ Current \in 1..MaxGroup
    BY Zenon, <1>0, TypeFacts DEF Procs, GroupIds
  <2>2. HasBuffer(t) => pin[t] <= bid[t] /\ bid[t] <= Current  BY Zenon, <1>0 DEF TaskOK
  <2> QED  BY <1>1, <2>1, <2>2, MaxGroupAssumption DEF GroupIds
<1> QED  BY Zenon, <1>1, <1>2, <1>3

-----------------------------------------------------------------------------
(* Frame lemmas: a step of process p and one part of the invariant.        *)

\* TaskOK of the tasks that take no step: versions and buffers only advance.
LEMMA TaskFrame ==
    ASSUME TypeOK, TypeOK', TaskInv, NEW p \in Procs, Others(p),
           first' = first \/ first <= first', next' = next \/ next <= next',
           closing' = closing, p \in Tasks => TaskOK(p)'
    PROVE  TaskInv'
<1> SUFFICES ASSUME NEW u \in Tasks, u # p  PROVE TaskOK(u)'
  BY Zenon DEF TaskInv
<1>0. /\ pc'[u] = pc[u] /\ ret'[u] = ret[u] /\ pin'[u] = pin[u]
      /\ bid'[u] = bid[u] /\ hold'[u] = hold[u] /\ op'[u] = op[u] /\ TaskOK(u)
  BY Zenon DEF Others, Procs, TaskInv
<1>1. /\ pin[u] \in Nat /\ bid[u] \in Nat /\ first \in Nat /\ first' \in Nat
      /\ next \in Nat /\ next' \in Nat
  BY MaxGroupAssumption DEF TypeOK, Procs, GroupIds
<1>2. (HasBuffer(u)' <=> HasBuffer(u)) /\ (Outside(u)' <=> Outside(u))
      /\ (Waits(u, "switch")' <=> Waits(u, "switch"))
  BY Zenon, <1>0 DEF HasBuffer, Outside, Waits
<1> QED  BY <1>0, <1>1, <1>2 DEF TaskOK, Current

\* WriterCount depends on num_writer and on who holds the write guards.
LEMMA CountFrame ==
    ASSUME WriterCount, NEW p \in Procs, Others(p), writers' = writers,
           p \in Tasks => hold'[p] = hold[p] /\ (hold[p] => bid'[p] = bid[p])
    PROVE  WriterCount'
<1>1. \A g : Holders(g)' = Holders(g)  BY Zenon DEF Holders, Others, Procs
<1> QED  BY Zenon, <1>1 DEF WriterCount

\* BufferInv is about the buffers, the set and the manifest.
LEMMA BufferFrame ==
    ASSUME BufferInv, UNCHANGED <<buffers, next, saved>>
    PROVE  BufferInv'
BY Zenon DEF BufferInv, Current, buffers

\* FlusherInv is about the flush job, the set, the version and flushable buffers.
LEMMA FlusherFrame ==
    ASSUME FlusherInv, NEW t \in Tasks, Others(t), UNCHANGED <<sealed, writers, set, version>>
    PROVE  FlusherInv'
<1>1. /\ pc'[Flusher] = pc[Flusher] /\ pin'[Flusher] = pin[Flusher]
      /\ bid'[Flusher] = bid[Flusher] /\ hold'[Flusher] = hold[Flusher]
      /\ op'[Flusher] = op[Flusher] /\ ret'[Flusher] = ret[Flusher]
  BY Zenon, TasksAssumption DEF Others, Procs
<1> QED  BY Zenon, <1>1 DEF FlusherInv, ShuttingDown, Flushable, Current, set, version

\* The flush job's part of the permit count does not change in a step of a task.
LEMMA ReturnedFrame ==
    ASSUME NEW t \in Tasks, Others(t), saved' = saved
    PROVE  Returned' = Returned /\ (ShuttingDown' <=> ShuttingDown)
BY Zenon, TasksAssumption DEF Others, Procs, Returned, ShuttingDown

\* What the flush job has returned is at most what it has saved.
LEMMA ReturnedFacts ==
    ASSUME TypeOK
    PROVE  Returned \in Int /\ Returned <= saved
BY TypeFacts DEF Returned

\* PermitInv counts permits, buffers and the task that installs or stalls.
LEMMA PermitFrame ==
    ASSUME PermitInv, NEW p \in Procs, Others(p), UNCHANGED <<permits, next, saved>>,
           Returned' = Returned, ShuttingDown => ShuttingDown',
           p \in Tasks => /\ pc'[p] = "install" <=> pc[p] = "install"
                          /\ Stalled(p) => Stalled(p)'
    PROVE  PermitInv'
<1>1. /\ (\E t \in Tasks : pc'[t] = "install") <=> (\E t \in Tasks : pc[t] = "install")
      /\ (\E t \in Tasks : Stalled(t)) => (\E t \in Tasks : Stalled(t)')
  BY Zenon DEF Others, Procs, Stalled
<1> QED  BY Zenon, <1>1 DEF PermitInv, Current

\* OneInstaller is about the tasks that switch and the current buffer.
LEMMA InstallerFrame ==
    ASSUME OneInstaller, NEW p \in Procs, Others(p), UNCHANGED <<sealed, next, closing>>,
           p \in Tasks => /\ Switching(p)' <=> Switching(p)
                          /\ Switching(p) => bid'[p] = bid[p]
    PROVE  OneInstaller'
<1>1. \A t \in Tasks : (Switching(t)' <=> Switching(t)) /\ (Switching(t) => bid'[t] = bid[t])
  BY Zenon DEF Others, Procs, Switching
<1> QED  BY Zenon, <1>1 DEF OneInstaller, Current

\* A new pin must be on a version whose buffers are in the set.
LEMMA PinFrame ==
    ASSUME PinInv, NEW p \in Procs, Others(p), start' = start,
           pin'[p] = 0 \/ start <= pin'[p]
    PROVE  PinInv'
BY Zenon DEF PinInv, Others

\* StallFree of the other tasks depends on the permits and the sealed buffers.
LEMMA StallFrame ==
    ASSUME StallFreeInv, NEW p \in Procs, Others(p), UNCHANGED <<sealed, permits>>,
           p \in Tasks => StallFree(p)'
    PROVE  StallFreeInv'
<1> SUFFICES ASSUME NEW u \in Tasks, u # p  PROVE StallFree(u)'
  BY Zenon DEF StallFreeInv
<1>1. pc'[u] = pc[u] /\ ret'[u] = ret[u] /\ bid'[u] = bid[u] /\ op'[u] = op[u]
  BY Zenon DEF Others, Procs
<1>2. StallFree(u)  BY Zenon DEF StallFreeInv
<1> QED  BY Zenon, <1>1, <1>2 DEF StallFree, Waits

\* ShutdownInv is about the end of the flush job.
LEMMA ShutdownFrame ==
    ASSUME ShutdownInv, UNCHANGED <<used, next, saved>>,
           pc'[Flusher] = "done" => pc[Flusher] = "done" \/ AvoidFlushDuringShutdown
    PROVE  ShutdownInv'
BY Zenon DEF ShutdownInv, Empty, Current

\* A step of task t that changes neither buffers, permits nor versions.
LEMMA LocalStep ==
    ASSUME IInv, TypeOK', NEW t \in Tasks, Others(t),
           UNCHANGED <<buffers, set, permits, version>>,
           TaskOK(t)', StallFree(t)',
           hold'[t] = hold[t], hold[t] \/ Switching(t) => bid'[t] = bid[t],
           Switching(t)' <=> Switching(t),
           pc'[t] = "install" <=> pc[t] = "install", Stalled(t) => Stalled(t)',
           pin'[t] = 0 \/ start <= pin'[t]
    PROVE  IInv'
<1> USE TasksAssumption DEF Procs, buffers, set, version
<1>0. /\ TypeOK /\ TaskInv /\ WriterCount /\ BufferInv /\ FlusherInv /\ PermitInv
      /\ OneInstaller /\ PinInv /\ StallFreeInv /\ ShutdownInv
  BY Zenon DEF IInv
<1>1. TaskInv'
  <2>1. first <= first' /\ next <= next'  BY <1>0, TypeFacts
  <2> QED  BY Zenon, <1>0, <2>1, TaskFrame
<1>2. BufferInv' /\ WriterCount'  BY Zenon, <1>0, BufferFrame, CountFrame
<1>3. FlusherInv'  BY Zenon, <1>0, FlusherFrame
<1>4. PermitInv'  BY Zenon, <1>0, ReturnedFrame, PermitFrame
<1>5. OneInstaller'  BY Zenon, <1>0, InstallerFrame
<1>6. PinInv'  BY Zenon, <1>0, PinFrame
<1>7. StallFreeInv'  BY Zenon, <1>0, StallFrame
<1>8. ShutdownInv'
  <2>1. pc'[Flusher] = pc[Flusher]  BY Zenon DEF Others
  <2> QED  BY Zenon, <1>0, <2>1, ShutdownFrame
<1> QED  BY Zenon, <1>1, <1>2, <1>3, <1>4, <1>5, <1>6, <1>7, <1>8 DEF IInv

\* A step of the flush job that changes neither buffers, permits nor versions.
LEMMA JobStep ==
    ASSUME IInv, TypeOK', Others(Flusher),
           UNCHANGED <<buffers, set, permits, version>>,
           FlusherInv', Returned' = Returned, ShuttingDown => ShuttingDown',
           pc'[Flusher] = "done" => AvoidFlushDuringShutdown,
           pin'[Flusher] = 0 \/ start <= pin'[Flusher]
    PROVE  IInv'
<1> USE TasksAssumption DEF Procs, buffers, set, version
<1>0. /\ TypeOK /\ TaskInv /\ WriterCount /\ BufferInv /\ FlusherInv /\ PermitInv
      /\ OneInstaller /\ PinInv /\ StallFreeInv /\ ShutdownInv
  BY Zenon DEF IInv
<1>1. TaskInv'
  <2>1. first <= first' /\ next <= next'  BY <1>0, TypeFacts
  <2> QED  BY Zenon, <1>0, <2>1, TaskFrame
<1>2. BufferInv' /\ WriterCount'  BY Zenon, <1>0, BufferFrame, CountFrame
<1>4. PermitInv'  BY Zenon, <1>0, PermitFrame
<1>5. OneInstaller'  BY Zenon, <1>0, InstallerFrame
<1>6. PinInv'  BY Zenon, <1>0, PinFrame
<1>7. StallFreeInv'  BY Zenon, <1>0, StallFrame
<1>8. ShutdownInv'  BY Zenon, <1>0, ShutdownFrame
<1> QED  BY Zenon, <1>1, <1>2, <1>4, <1>5, <1>6, <1>7, <1>8 DEF IInv

-----------------------------------------------------------------------------
USE TasksAssumption, MaxWriteBuffersAssumption, CapacityAssumption, FlushOpsAssumption,
    MaxGroupAssumption
DEF Goto, buffers, set, sync, version, local, Procs, TaskPCs, WaitPCs, FlusherPCs

(* Steps of the tasks that change local state only. *)

\* A step moves the control of a process within the program.
LEMMA MovedPC ==
    ASSUME TypeOK, NEW p,
           \E l \in TaskPCs \cup WaitPCs \cup FlusherPCs : pc' = [pc EXCEPT ![p] = l]
    PROVE  pc' \in [Procs -> TaskPCs \cup WaitPCs \cup FlusherPCs]
<1> HIDE DEF TaskPCs, WaitPCs, FlusherPCs
<1> QED  BY Zenon DEF TypeOK

\* A step of task t that only moves its control, and may leave a notification.
LEMMA MoveStep ==
    ASSUME IInv, NEW t \in Tasks, NEW l, pc' = [pc EXCEPT ![t] = l], token' \in BOOLEAN,
           UNCHANGED <<buffers, set, permits, armed, version, local>>,
           \/ pc[t] = "guard" /\ l = "begin"
           \/ pc[t] = "dropNotify" /\ l = "guard"
           \/ pc[t] = "txn" /\ bid[t] < MaxGroup /\ l \in {"switch", "drop"}
           \/ pc[t] \in {"notify", "waitFlushed"} /\ l \in {"waitFlushed", "drop"}
    PROVE  IInv'
<1>0. /\ TypeOK /\ TaskInv /\ WriterCount /\ BufferInv /\ FlusherInv /\ PermitInv
      /\ OneInstaller /\ PinInv /\ StallFreeInv /\ ShutdownInv
  BY Zenon DEF IInv
<1>1. /\ pc'[t] = l /\ l \in TaskPCs
      /\ pc[t] \notin WaitPCs \cup {"idle", "acquire", "install"}
      /\ l \notin WaitPCs \cup {"idle", "acquire", "install"}
  BY Zenon, <1>0 DEF TypeOK
<1>2. TypeOK'  BY Zenon, <1>0, <1>1 DEF TypeOK
<1>3. Others(t)  BY Zenon, <1>0 DEF TypeOK, Others
<1>4. TaskOK(t)'
  BY Zenon, <1>0, <1>1 DEF TaskInv, TaskOK, HasBuffer, Outside, Waits, Current
<1>5. StallFree(t)'
  BY <1>0, <1>1 DEF TaskInv, TaskOK, Outside, StallFree, Waits, TxnOp
<1>6. ~Switching(t) /\ ~Switching(t)' /\ ~Stalled(t)
  BY Zenon, <1>1 DEF Switching, Stalled
<1>7. pin'[t] = 0 \/ start <= pin'[t]  BY Zenon, <1>0 DEF PinInv
<1> QED  BY Zenon, <1>1, <1>2, <1>3, <1>4, <1>5, <1>6, <1>7, LocalStep

\* Guard::begin only moves control.
LEMMA BeginStep ==
    ASSUME IInv, NEW t \in Tasks, Begin(t)
    PROVE  IInv'
BY Zenon, MoveStep DEF Begin, IInv, TypeOK

\* Notifying the flush job changes no other state.
LEMMA DropNotifyStep ==
    ASSUME IInv, NEW t \in Tasks, DropNotify(t)
    PROVE  IInv'
BY Zenon, MoveStep DEF DropNotify

\* The notification after a switch changes no other state.
LEMMA NotifyStep ==
    ASSUME IInv, NEW t \in Tasks, Notify(t)
    PROVE  IInv'
BY Zenon, MoveStep DEF Notify, AfterSwitch

\* The end of wait_flushed only moves control.
LEMMA WaitFlushedStep ==
    ASSUME IInv, NEW t \in Tasks, WaitFlushed(t)
    PROVE  IInv'
BY Zenon, MoveStep DEF WaitFlushed, IInv, TypeOK

\* Error::Again leads a transaction, which may stall, to the switch.
LEMMA AllocAgainStep ==
    ASSUME IInv, NEW t \in Tasks, NEW n, AllocAgain(t, n)
    PROVE  IInv'
BY Zenon, MoveStep DEF AllocAgain, IInv, TypeOK

\* Error::TooLargeSize only moves control.
LEMMA AllocTooLargeStep ==
    ASSUME IInv, NEW t \in Tasks, NEW n, AllocTooLarge(t, n)
    PROVE  IInv'
BY Zenon, MoveStep DEF AllocTooLarge, IInv, TypeOK

\* Guard::new pins the version whose first buffer is the oldest one kept.
LEMMA NewGuardStep ==
    ASSUME IInv, NEW t \in Tasks, NewGuard(t)
    PROVE  IInv'
<1> USE DEF NewGuard
<1>0. /\ TypeOK /\ TaskInv /\ WriterCount /\ BufferInv /\ FlusherInv /\ PermitInv
      /\ OneInstaller /\ PinInv /\ StallFreeInv /\ ShutdownInv
  BY Zenon DEF IInv
<1>1. TypeOK'  BY Zenon, <1>0, TypeFacts DEF TypeOK, Ops, TxnOp
<1>2. Others(t)  BY Zenon, <1>0 DEF TypeOK, Others
<1>3. /\ pc'[t] = "guard" /\ pin'[t] = first /\ bid'[t] = bid[t]
      /\ op'[t] = op[t] /\ ret'[t] = ret[t]
  BY Zenon, <1>0 DEF TypeOK
<1>4. TaskOK(t)'
  BY <1>0, <1>3, TypeFacts DEF TaskInv, TaskOK, HasBuffer, Outside, Waits, Current
<1>5. /\ StallFree(t)' /\ (Switching(t)' <=> Switching(t)) /\ (Stalled(t) => Stalled(t)')
      /\ pc'[t] = "install" <=> pc[t] = "install"
      /\ hold[t] \/ Switching(t) => bid'[t] = bid[t]
  BY Zenon, <1>0, <1>3
  DEF TaskInv, TaskOK, Outside, StallFreeInv, StallFree, Switching, Stalled, Waits, TxnOp
<1>6. hold'[t] = hold[t] /\ (pin'[t] = 0 \/ start <= pin'[t])
  BY Zenon, <1>0, <1>3 DEF PinInv, FlusherInv
<1> HIDE DEF NewGuard
<1>7. UNCHANGED <<buffers, set, permits, version>>  BY Zenon DEF NewGuard
<1> QED  BY Zenon, <1>1, <1>2, <1>4, <1>5, <1>6, <1>7, LocalStep

\* Dropping a guard only unpins its version.
LEMMA DropGuardStep ==
    ASSUME IInv, NEW t \in Tasks, DropGuard(t)
    PROVE  IInv'
<1> USE DEF DropGuard
<1>0. /\ TypeOK /\ TaskInv /\ WriterCount /\ BufferInv /\ FlusherInv /\ PermitInv
      /\ OneInstaller /\ PinInv /\ StallFreeInv /\ ShutdownInv
  BY Zenon DEF IInv
<1>1. TypeOK'  BY <1>0, TypeFacts DEF TypeOK, Ops, TxnOp
<1>2. Others(t)  BY Zenon, <1>0 DEF TypeOK, Others
<1>3. /\ pc'[t] = "idle" /\ pin'[t] = 0 /\ bid'[t] = bid[t]
      /\ op'[t] = op[t] /\ ret'[t] = ret[t]
  BY Zenon, <1>0 DEF TypeOK
<1>4. TaskOK(t)'
  BY <1>0, <1>3, TypeFacts DEF TaskInv, TaskOK, HasBuffer, Outside, Waits, Current
<1>5. /\ StallFree(t)' /\ (Switching(t)' <=> Switching(t)) /\ (Stalled(t) => Stalled(t)')
      /\ pc'[t] = "install" <=> pc[t] = "install"
      /\ hold[t] \/ Switching(t) => bid'[t] = bid[t]
  BY Zenon, <1>0, <1>3
  DEF TaskInv, TaskOK, Outside, StallFreeInv, StallFree, Switching, Stalled, Waits, TxnOp
<1>6. hold'[t] = hold[t] /\ (pin'[t] = 0 \/ start <= pin'[t])
  BY Zenon, <1>0, <1>3 DEF PinInv, FlusherInv
<1> HIDE DEF DropGuard
<1>7. UNCHANGED <<buffers, set, permits, version>>  BY Zenon DEF DropGuard
<1> QED  BY Zenon, <1>1, <1>2, <1>4, <1>5, <1>6, <1>7, LocalStep

\* acquire_active_buffer_id returns the current buffer, or waits for its successor.
LEMMA AcquireActiveBufferStep ==
    ASSUME IInv, NEW t \in Tasks, AcquireActiveBuffer(t)
    PROVE  IInv'
<1> USE DEF AcquireActiveBuffer
<1>0. /\ TypeOK /\ TaskInv /\ WriterCount /\ BufferInv /\ FlusherInv /\ PermitInv
      /\ OneInstaller /\ PinInv /\ StallFreeInv /\ ShutdownInv
  BY Zenon DEF IInv
<1>a. ~closing /\ ~ShuttingDown /\ first <= Current /\ pin[t] # 0
      /\ (HasBuffer(t) => bid[t] \in GroupIds)
  BY Zenon, ActiveTask
<1>1. TypeOK'
  <2>1. bid' = bid \/ bid' = [bid EXCEPT ![t] = Current]  BY Zenon
  <2>2. ret' = ret \/ ret' = [ret EXCEPT ![t] = "begin"]  BY Zenon
  <2>3. \E l \in {"txn", "wait"} : pc' = [pc EXCEPT ![t] = l]  BY Zenon
  <2>4. UNCHANGED <<buffers, set, sync, version, pin, hold, rs, op>>  BY Zenon
  <2> HIDE DEF AcquireActiveBuffer
  <2>5. bid' \in [Procs -> 0..(MaxGroup + 1)]  BY Zenon, <1>0, <2>1, TypeFacts DEF TypeOK
  <2>6. ret' \in [Procs -> {"begin", "switch", "install", "spin"}]
    BY Zenon, <1>0, <2>2 DEF TypeOK
  <2>7. pc' \in [Procs -> TaskPCs \cup WaitPCs \cup FlusherPCs]  BY Zenon, <1>0, <2>3, MovedPC
  <2> QED  BY Zenon, <1>0, <2>4, <2>5, <2>6, <2>7 DEF TypeOK
<1>2. Others(t)  BY ZenonT(60), <1>0 DEF TypeOK, Others
<1>3. /\ pc'[t] \in {"wait", "txn"} /\ pin'[t] = pin[t] /\ op'[t] = op[t]
      /\ pc'[t] = "wait" => ret'[t] = "begin" /\ bid'[t] = bid[t]
      /\ pc'[t] = "txn" => ret'[t] = ret[t] /\ bid'[t] = Current
  BY ZenonT(60), <1>0 DEF TypeOK
<1>p. pin[t] <= Current /\ Current <= Current
  <2>1. pin[t] \in Nat /\ first \in Nat /\ Current \in Nat  BY Zenon, <1>0, TypeFacts
  <2>2. pin[t] <= first  BY Zenon, <1>0 DEF TaskInv, TaskOK
  <2>3. pin[t] <= Current  BY Zenon, <1>a, <2>1, <2>2, Transitive
  <2> QED  BY Zenon, <2>1, <2>3, Ordered
<1>4. TaskOK(t)'
  BY ZenonT(60), <1>0, <1>3, <1>a, <1>p DEF TaskInv, TaskOK, HasBuffer, Outside, Waits, Current
<1>5. /\ StallFree(t)' /\ (Switching(t)' <=> Switching(t)) /\ (Stalled(t) => Stalled(t)')
      /\ pc'[t] = "install" <=> pc[t] = "install"
      /\ hold[t] \/ Switching(t) => bid'[t] = bid[t]
  BY Zenon, <1>0, <1>3
  DEF TaskInv, TaskOK, Outside, StallFreeInv, StallFree, Switching, Stalled, Waits
<1>6. hold'[t] = hold[t] /\ (pin'[t] = 0 \/ start <= pin'[t])
  BY Zenon, <1>0, <1>3 DEF PinInv, FlusherInv
<1> HIDE DEF AcquireActiveBuffer
<1>7. UNCHANGED <<buffers, set, permits, version>>  BY Zenon DEF AcquireActiveBuffer
<1> QED  BY Zenon, <1>1, <1>2, <1>4, <1>5, <1>6, <1>7, LocalStep

\* PageStore::flush only records its options.
LEMMA FlushStep ==
    ASSUME IInv, NEW t \in Tasks, Flush(t)
    PROVE  IInv'
<1> USE DEF Flush
<1>0. /\ TypeOK /\ TaskInv /\ WriterCount /\ BufferInv /\ FlusherInv /\ PermitInv
      /\ OneInstaller /\ PinInv /\ StallFreeInv /\ ShutdownInv
  BY Zenon DEF IInv
<1>1. TypeOK'  BY <1>0, TypeFacts DEF TypeOK, Ops, TxnOp
<1>2. Others(t)  BY Zenon, <1>0 DEF TypeOK, Others
<1>3. /\ pc'[t] = "flushCall" /\ pin'[t] = pin[t] /\ bid'[t] = bid[t]
      /\ op'[t] \in FlushOps /\ ret'[t] = ret[t]
  BY Zenon, <1>0 DEF TypeOK
<1>4. TaskOK(t)'
  BY Zenon, <1>0, <1>3, TypeFacts DEF TaskInv, TaskOK, HasBuffer, Outside, Waits, Current
<1>5. /\ StallFree(t)' /\ (Switching(t)' <=> Switching(t)) /\ (Stalled(t) => Stalled(t)')
      /\ pc'[t] = "install" <=> pc[t] = "install"
      /\ hold[t] \/ Switching(t) => bid'[t] = bid[t]
  BY Zenon, <1>0, <1>3
  DEF TaskInv, TaskOK, Outside, StallFreeInv, StallFree, Switching, Stalled, Waits
<1>6. hold'[t] = hold[t] /\ (pin'[t] = 0 \/ start <= pin'[t])
  BY Zenon, <1>0, <1>3 DEF PinInv, FlusherInv
<1> HIDE DEF Flush
<1>7. UNCHANGED <<buffers, set, permits, version>>  BY Zenon DEF Flush
<1> QED  BY Zenon, <1>1, <1>2, <1>4, <1>5, <1>6, <1>7, LocalStep

\* flush_active_buffer picks a current buffer that is not empty, hence not the last one.
LEMMA FlushActiveBufferStep ==
    ASSUME IInv, NEW t \in Tasks, FlushActiveBuffer(t)
    PROVE  IInv'
<1> USE DEF FlushActiveBuffer
<1>0. /\ TypeOK /\ TaskInv /\ WriterCount /\ BufferInv /\ FlusherInv /\ PermitInv
      /\ OneInstaller /\ PinInv /\ StallFreeInv /\ ShutdownInv
  BY Zenon DEF IInv
<1>a. ~closing /\ ~ShuttingDown /\ first <= Current /\ pin[t] # 0
      /\ (HasBuffer(t) => bid[t] \in GroupIds)
  BY Zenon, ActiveTask
<1>m. ~Empty(Current) => Current < MaxGroup
  <2>1. Current = MaxGroup => Empty(Current)  BY Zenon, <1>0, TypeFacts DEF BufferInv, Empty
  <2> QED  BY <1>0, <2>1, TypeFacts
<1>1. TypeOK'
  <2>1. bid' = bid \/ bid' = [bid EXCEPT ![t] = Current]  BY Zenon
  <2>2. ret' = ret \/ ret' = [ret EXCEPT ![t] = "switch"]  BY Zenon
  <2>3. \E l \in {"drop", "switch", "wait"} : pc' = [pc EXCEPT ![t] = l]  BY Zenon
  <2>4. UNCHANGED <<buffers, set, sync, version, pin, hold, rs, op>>  BY Zenon
  <2> HIDE DEF FlushActiveBuffer
  <2>5. bid' \in [Procs -> 0..(MaxGroup + 1)]  BY Zenon, <1>0, <2>1, TypeFacts DEF TypeOK
  <2>6. ret' \in [Procs -> {"begin", "switch", "install", "spin"}]
    BY Zenon, <1>0, <2>2 DEF TypeOK
  <2>7. pc' \in [Procs -> TaskPCs \cup WaitPCs \cup FlusherPCs]  BY Zenon, <1>0, <2>3, MovedPC
  <2> QED  BY Zenon, <1>0, <2>4, <2>5, <2>6, <2>7 DEF TypeOK
<1>2. Others(t)  BY ZenonT(60), <1>0 DEF TypeOK, Others
<1>3. /\ pc'[t] \in {"wait", "switch", "drop"} /\ pin'[t] = pin[t] /\ op'[t] = op[t]
      /\ pc'[t] = "drop" => ret'[t] = ret[t] /\ bid'[t] = bid[t]
      /\ pc'[t] = "switch" => ret'[t] = ret[t] /\ bid'[t] = Current /\ op[t].allowStall
      /\ pc'[t] = "wait" => ret'[t] = "switch" /\ bid'[t] = Current
      /\ pc'[t] # "drop" => Current < MaxGroup
  BY ZenonT(60), <1>0, <1>m DEF TypeOK
<1>p. pin[t] <= Current /\ Current <= Current
  <2>1. pin[t] \in Nat /\ first \in Nat /\ Current \in Nat  BY Zenon, <1>0, TypeFacts
  <2>2. pin[t] <= first  BY Zenon, <1>0 DEF TaskInv, TaskOK
  <2>3. pin[t] <= Current  BY Zenon, <1>a, <2>1, <2>2, Transitive
  <2> QED  BY Zenon, <2>1, <2>3, Ordered
<1>4. TaskOK(t)'
  BY ZenonT(60), <1>0, <1>3, <1>a, <1>m, <1>p
  DEF TaskInv, TaskOK, HasBuffer, Outside, Waits, Current
<1>5. /\ StallFree(t)' /\ (Switching(t)' <=> Switching(t)) /\ (Stalled(t) => Stalled(t)')
      /\ pc'[t] = "install" <=> pc[t] = "install"
      /\ hold[t] \/ Switching(t) => bid'[t] = bid[t]
  BY Zenon, <1>0, <1>3
  DEF TaskInv, TaskOK, Outside, StallFreeInv, StallFree, Switching, Stalled, Waits
<1>6. hold'[t] = hold[t] /\ (pin'[t] = 0 \/ start <= pin'[t])
  BY Zenon, <1>0, <1>3 DEF PinInv, FlusherInv
<1> HIDE DEF FlushActiveBuffer
<1>7. UNCHANGED <<buffers, set, permits, version>>  BY Zenon DEF FlushActiveBuffer
<1> QED  BY Zenon, <1>1, <1>2, <1>4, <1>5, <1>6, <1>7, LocalStep

\* A completed Notified is replaced and the condition is looked at again.
LEMMA WakeStep ==
    ASSUME IInv, NEW t \in Tasks, Wake(t)
    PROVE  IInv'
<1> USE DEF Wake
<1>0. /\ TypeOK /\ TaskInv /\ WriterCount /\ BufferInv /\ FlusherInv /\ PermitInv
      /\ OneInstaller /\ PinInv /\ StallFreeInv /\ ShutdownInv
  BY Zenon DEF IInv
<1>1. TypeOK'  BY Zenon, <1>0, TypeFacts DEF TypeOK, Ops, TxnOp
<1>2. Others(t)  BY Zenon, <1>0 DEF TypeOK, Others
<1>3. /\ pc'[t] = "check" /\ pin'[t] = pin[t] /\ bid'[t] = bid[t]
      /\ op'[t] = op[t] /\ ret'[t] = ret[t]
  BY Zenon, <1>0 DEF TypeOK
<1>4. TaskOK(t)'
  BY Zenon, <1>0, <1>3, TypeFacts DEF TaskInv, TaskOK, HasBuffer, Outside, Waits, Current
<1>5. /\ StallFree(t)' /\ (Switching(t)' <=> Switching(t)) /\ (Stalled(t) => Stalled(t)')
      /\ pc'[t] = "install" <=> pc[t] = "install"
      /\ hold[t] \/ Switching(t) => bid'[t] = bid[t]
  BY Zenon, <1>0, <1>3
  DEF TaskInv, TaskOK, Outside, StallFreeInv, StallFree, Switching, Stalled, Waits
<1>6. hold'[t] = hold[t] /\ (pin'[t] = 0 \/ start <= pin'[t])
  BY Zenon, <1>0, <1>3 DEF PinInv, FlusherInv
<1> HIDE DEF Wake
<1>7. UNCHANGED <<buffers, set, permits, version>>  BY Zenon DEF Wake
<1> QED  BY Zenon, <1>1, <1>2, <1>4, <1>5, <1>6, <1>7, LocalStep

(* Steps of the flush job that change its local state only. *)

\* A step of the flush job that only moves its control: between the stages of its
\* waits, on to a flushable buffer, and past the wait for the successor.
LEMMA JobMove ==
    ASSUME IInv, NEW l, pc' = [pc EXCEPT ![Flusher] = l],
           armed' \in SUBSET Procs, token' \in BOOLEAN,
           NEW r \in {"begin", "spin"}, ret' = [ret EXCEPT ![Flusher] = r],
           UNCHANGED <<buffers, set, permits, version, pin, bid, hold, rs, op>>,
           \/ pc[Flusher] \in {"poll", "await"} /\ l \in {"poll", "await"}
           \/ pc[Flusher] = "poll" /\ Flushable(bid[Flusher]) /\ l = "build"
           \/ pc[Flusher] = "build" /\ l = "save"
           \/ pc[Flusher] \in WaitPCs \cup {"wake"} /\ l \in WaitPCs /\ r = "spin"
           \/ pc[Flusher] \in WaitPCs /\ l = "spin"
           \/ pc[Flusher] = "spin" /\ l = "installVersion" /\ Current > bid[Flusher]
    PROVE  IInv'
<1>0. /\ TypeOK /\ TaskInv /\ WriterCount /\ BufferInv /\ FlusherInv /\ PermitInv
      /\ OneInstaller /\ PinInv /\ StallFreeInv /\ ShutdownInv
  BY Zenon DEF IInv
<1>1. pc'[Flusher] = l /\ l \in WaitPCs \cup FlusherPCs /\ ret'[Flusher] = r
  BY Zenon, <1>0 DEF TypeOK
<1>2. TypeOK'  BY Zenon, <1>0, <1>1 DEF TypeOK
<1>3. Others(Flusher)  BY Zenon, <1>0 DEF TypeOK, Others
<1>4. FlusherInv'
  <2>1. pc[Flusher] = "poll" => first < next
    BY <1>0, TypeFacts DEF FlusherInv, ShuttingDown
  <2>2. Current > bid[Flusher] => bid[Flusher] < Current  BY Zenon, <1>0, TypeFacts
  <2> QED
    BY Zenon, <1>0, <1>1, <2>1, <2>2 DEF FlusherInv, ShuttingDown, Flushable, Current
<1>5. /\ Returned' = Returned /\ (ShuttingDown => ShuttingDown')
      /\ pc'[Flusher] # "done" /\ (pin'[Flusher] = 0 \/ start <= pin'[Flusher])
  BY Zenon, <1>0, <1>1 DEF Returned, ShuttingDown, FlusherInv, PinInv
<1> QED  BY Zenon, <1>2, <1>3, <1>4, <1>5, JobStep

\* What JobMove asks of the variables that a step of the flush job leaves alone.
LEMMA JobFacts ==
    ASSUME IInv
    PROVE  /\ ret[Flusher] \in {"begin", "spin"}
           /\ ret = [ret EXCEPT ![Flusher] = ret[Flusher]]
           /\ armed \in SUBSET Procs /\ token \in BOOLEAN
<1>1. /\ ret \in [Procs -> {"begin", "switch", "install", "spin"}]
      /\ ret[Flusher] \in {"begin", "spin"}
      /\ armed \in SUBSET Procs /\ token \in BOOLEAN
  BY Zenon DEF IInv, TypeOK, FlusherInv
<1> QED  BY Zenon, <1>1

\* A buffer the flush job goes on with is flushable.
LEMMA PollFlushableStep ==
    ASSUME IInv, PollFlushable
    PROVE  IInv'
BY Zenon, JobFacts, JobMove DEF PollFlushable

\* The flush job consumes its notification.
LEMMA WaitFlushableStep ==
    ASSUME IInv, WaitFlushable
    PROVE  IInv'
BY Zenon, JobFacts, JobMove DEF WaitFlushable

\* build_page_file only reads the buffer.
LEMMA BuildPageFileStep ==
    ASSUME IInv, BuildPageFile
    PROVE  IInv'
BY Zenon, JobFacts, JobMove DEF BuildPageFile

\* notify_waiters changes only who is notified.
LEMMA NotifyWaitersStep ==
    ASSUME IInv, NotifyWaiters
    PROVE  IInv'
<1>1. ret[Flusher] = "spin"  BY Zenon DEF IInv, FlusherInv, NotifyWaiters
<1> QED  BY Zenon, <1>1, JobFacts, JobMove DEF NotifyWaiters

\* run() installs a version only when the next buffer exists.
LEMMA WaitSuccessorStep ==
    ASSUME IInv, WaitSuccessor
    PROVE  IInv'
BY Zenon, JobFacts, JobMove DEF WaitSuccessor

\* The flush job waits for NoWaiter only, and takes no permit.
LEMMA WaitFStep ==
    ASSUME IInv, Wait(Flusher)
    PROVE  IInv'
<1>1. ret[Flusher] = "spin"  BY Zenon DEF IInv, FlusherInv, Wait
<1> QED  BY Zenon, <1>1, JobFacts, JobMove DEF Wait, Attempt, Return

\* As WaitF, with the notification enabled.
LEMMA CheckFStep ==
    ASSUME IInv, Check(Flusher)
    PROVE  IInv'
<1>1. ret[Flusher] = "spin"  BY Zenon DEF IInv, FlusherInv, Check
<1> QED  BY Zenon, <1>1, JobFacts, JobMove DEF Check, Attempt, Return

\* The flush job is woken and looks at the permits again.
LEMMA WakeFStep ==
    ASSUME IInv, Wake(Flusher)
    PROVE  IInv'
<1>1. ret[Flusher] = "spin"  BY Zenon DEF IInv, FlusherInv, Wake
<1> QED  BY Zenon, <1>1, JobFacts, JobMove DEF Wake

\* The flush job pins the version it takes: its first buffer is still in the set.
LEMMA PickBufferStep ==
    ASSUME IInv, PickBuffer
    PROVE  IInv'
<1> USE DEF PickBuffer
<1>0. /\ TypeOK /\ TaskInv /\ WriterCount /\ BufferInv /\ FlusherInv /\ PermitInv
      /\ OneInstaller /\ PinInv /\ StallFreeInv /\ ShutdownInv
  BY Zenon DEF IInv
<1>1. TypeOK'  BY <1>0, TypeFacts DEF TypeOK, Ops
<1>2. Others(Flusher)  BY Zenon, <1>0 DEF TypeOK, Others
<1>3. /\ pc'[Flusher] = "poll" /\ pin'[Flusher] = first /\ bid'[Flusher] = first
      /\ op'[Flusher].wait /\ ret'[Flusher] = ret[Flusher]
  BY Zenon, <1>0 DEF TypeOK, FlusherInv
<1>4. hold'[Flusher] = hold[Flusher] /\ UNCHANGED <<buffers, set, permits, version>>
  BY Zenon, <1>0 DEF FlusherInv
<1> HIDE DEF PickBuffer
<1>5. FlusherInv'
  BY Zenon, <1>0, <1>3, <1>4, TypeFacts
  DEF FlusherInv, ShuttingDown, Flushable, Current, PickBuffer
<1>6. /\ Returned' = Returned /\ (ShuttingDown => ShuttingDown')
      /\ pc'[Flusher] = "done" => AvoidFlushDuringShutdown
      /\ pin'[Flusher] = 0 \/ start <= pin'[Flusher]
  BY Zenon, <1>0, <1>3, <1>4
  DEF Returned, ShuttingDown, FlusherInv, PinInv, PickBuffer
<1> QED  BY Zenon, <1>1, <1>2, <1>4, <1>5, <1>6, JobStep

\* On shutdown the flush job drops its version and goes on with the same buffer.
LEMMA StopWaitingStep ==
    ASSUME IInv, StopWaiting
    PROVE  IInv'
<1> USE DEF StopWaiting
<1>0. /\ TypeOK /\ TaskInv /\ WriterCount /\ BufferInv /\ FlusherInv /\ PermitInv
      /\ OneInstaller /\ PinInv /\ StallFreeInv /\ ShutdownInv
  BY Zenon DEF IInv
<1>1. TypeOK'
  <2>1. op' \in [Procs -> Ops]  BY ZenonT(60), <1>0 DEF TypeOK, Ops
  <2>2. bid' \in [Procs -> 0..(MaxGroup + 1)]  BY <1>0, TypeFacts DEF TypeOK
  <2> QED  BY <1>0, <2>1, <2>2 DEF TypeOK
<1>2. Others(Flusher)  BY Zenon, <1>0 DEF TypeOK, Others
<1>3. /\ pc'[Flusher] = IF AvoidFlushDuringShutdown THEN "done" ELSE "shutdown"
      /\ pin'[Flusher] = 0 /\ bid'[Flusher] = first
      /\ ~op'[Flusher].wait /\ ret'[Flusher] = ret[Flusher]
  BY <1>0 DEF TypeOK, FlusherInv
<1>4. hold'[Flusher] = hold[Flusher] /\ UNCHANGED <<buffers, set, permits, version>>
  BY Zenon, <1>0 DEF FlusherInv
<1> HIDE DEF StopWaiting
<1>5. FlusherInv'
  BY <1>0, <1>3, <1>4, TypeFacts
  DEF FlusherInv, ShuttingDown, Flushable, Current, StopWaiting
<1>6. /\ Returned' = Returned /\ (ShuttingDown => ShuttingDown')
      /\ pc'[Flusher] = "done" => AvoidFlushDuringShutdown
      /\ pin'[Flusher] = 0 \/ start <= pin'[Flusher]
  BY <1>0, <1>3, <1>4 DEF Returned, ShuttingDown, FlusherInv, PinInv, StopWaiting
<1> QED  BY Zenon, <1>1, <1>2, <1>4, <1>5, <1>6, JobStep

-----------------------------------------------------------------------------
(* Steps of the tasks that change buffers or permits.                      *)

\* release_writer takes one transaction from the holders of its buffer, so num_writer
\* still counts them and does not go below zero.
LEMMA DropStep ==
    ASSUME IInv, NEW t \in Tasks, Drop(t), WriterCount', hold[t] => writers[bid[t]] # 0
    PROVE  IInv'
<1> USE DEF Drop
<1>0. /\ TypeOK /\ TaskInv /\ WriterCount /\ BufferInv /\ FlusherInv /\ PermitInv
      /\ OneInstaller /\ PinInv /\ StallFreeInv /\ ShutdownInv
  BY Zenon DEF IInv
<1>a. ~closing /\ pin[t] # 0 /\ (HasBuffer(t) => bid[t] \in GroupIds)
  BY Zenon, ActiveTask
<1>b. hold[t] => bid[t] \in GroupIds /\ writers[bid[t]] \in Nat \ {0}
  BY Zenon, <1>0, <1>a DEF TypeOK, HasBuffer
<1>1. TypeOK'
  <2>1. hold[t] => writers[bid[t]] - 1 \in Nat  BY Zenon, <1>b, Predecessor
  <2>2. writers' \in [GroupIds -> Nat]  BY Zenon, <1>0, <1>b, <2>1 DEF TypeOK
  <2>3. \E l \in {"guard", "dropNotify"} : pc' = [pc EXCEPT ![t] = l]  BY Zenon
  <2>4. pc' \in [Procs -> TaskPCs \cup WaitPCs \cup FlusherPCs]  BY Zenon, <1>0, <2>3, MovedPC
  <2>5. TxnOp \in Ops  BY Zenon DEF Ops, TxnOp
  <2>6. /\ hold' \in [Procs -> BOOLEAN] /\ bid' \in [Procs -> 0..(MaxGroup + 1)]
        /\ op' \in [Procs -> Ops]
    BY Zenon, <1>0, <2>5, TypeFacts DEF TypeOK
  <2> QED  BY Zenon, <1>0, <2>2, <2>4, <2>6 DEF TypeOK
<1>2. Others(t)  BY Zenon, <1>0 DEF TypeOK, Others
<1>e. /\ pc'[t] \in {"guard", "dropNotify"} /\ ~hold'[t] /\ op'[t] = TxnOp
      /\ pin'[t] = pin[t] /\ ret'[t] = ret[t]
  BY Zenon, <1>0 DEF TypeOK
<1>w. \A g \in GroupIds : writers[g] = 0 => writers'[g] = 0
  BY Zenon, <1>0, <1>b DEF TypeOK
<1>u. UNCHANGED <<sealed, used, flushed, set, permits, version>>  BY Zenon
<1> HIDE DEF Drop
<1>3. TaskInv'
  <2>1. TaskOK(t)'
    BY Zenon, <1>0, <1>a, <1>e, <1>u DEF TaskInv, TaskOK, HasBuffer, Outside, Waits
  <2> QED  BY Zenon, <1>0, <1>1, <1>2, <1>u, <2>1, TaskFrame
<1>4. BufferInv'  BY Zenon, <1>0, <1>u, <1>w DEF BufferInv, Current
<1>5. FlusherInv'
  <2>1. /\ pc'[Flusher] = pc[Flusher] /\ pin'[Flusher] = pin[Flusher]
        /\ bid'[Flusher] = bid[Flusher] /\ hold'[Flusher] = hold[Flusher]
        /\ op'[Flusher] = op[Flusher] /\ ret'[Flusher] = ret[Flusher]
    BY Zenon, <1>2 DEF Others
  <2>2. \A g \in GroupIds : Flushable(g) => Flushable(g)'
    BY Zenon, <1>u, <1>w DEF Flushable
  <2>3. pc[Flusher] \in {"build", "save"} => bid[Flusher] \in GroupIds
    BY Zenon, <1>0 DEF FlusherInv, TypeOK
  <2> QED  BY Zenon, <1>0, <1>u, <2>1, <2>2, <2>3 DEF FlusherInv, ShuttingDown, Current
<1>s. (pc[t] = "txn" \/ pc[t] = "drop") /\ ~Switching(t) /\ ~Switching(t)'
  BY Zenon, <1>0, <1>e DEF Switching, Drop
<1>6. PermitInv'
  BY Zenon, <1>0, <1>2, <1>e, <1>s, <1>u, ReturnedFrame, PermitFrame DEF Stalled
<1>7. OneInstaller'  BY Zenon, <1>0, <1>2, <1>s, <1>u, InstallerFrame
<1>8. PinInv'
  BY Zenon, <1>0, <1>2, <1>e, <1>u, PinFrame DEF PinInv
<1>9. StallFreeInv'
  <2>1. StallFree(t)'  BY Zenon, <1>e DEF StallFree, Waits
  <2> QED  BY Zenon, <1>0, <1>2, <1>u, <2>1, StallFrame
<1>10. ShutdownInv'  BY Zenon, <1>0, <1>2, <1>u, ShutdownFrame DEF Others
<1> QED  BY Zenon, <1>1, <1>3, <1>4, <1>5, <1>6, <1>7, <1>8, <1>9, <1>10 DEF IInv

\* alloc_page: the buffer is unsealed, so it is the current one and not being flushed;
\* the transaction joins its holders if it was not one.
LEMMA AllocOkStep ==
    ASSUME IInv, NEW t \in Tasks, NEW n \in 1..(Capacity + 1), AllocOk(t, n), WriterCount'
    PROVE  IInv'
<1> USE DEF AllocOk
<1>0. /\ TypeOK /\ TaskInv /\ WriterCount /\ BufferInv /\ FlusherInv /\ PermitInv
      /\ OneInstaller /\ PinInv /\ StallFreeInv /\ ShutdownInv
  BY Zenon DEF IInv
<1>a. ~closing /\ ~ShuttingDown /\ (HasBuffer(t) => bid[t] \in GroupIds)
  BY Zenon, ActiveTask
<1>b. bid[t] \in GroupIds /\ used[bid[t]] + n \in 0..Capacity
      /\ bid[t] <= Current /\ pin[t] <= bid[t]
  <2>1. bid[t] \in GroupIds /\ bid[t] <= Current /\ pin[t] <= bid[t]
    BY Zenon, <1>0, <1>a DEF TaskInv, TaskOK, HasBuffer
  <2>2. used[bid[t]] \in 0..Capacity  BY Zenon, <1>0, <2>1 DEF TypeOK
  <2> QED  BY Zenon, <2>1, <2>2, Fits
<1>c. bid[t] = Current  BY Zenon, <1>0, <1>b, TypeFacts, Ordered DEF BufferInv
<1>1. TypeOK'
  <2>1. used' \in [GroupIds -> 0..Capacity]  BY Zenon, <1>0, <1>b DEF TypeOK
  <2>2. writers' \in [GroupIds -> Nat]  BY <1>0, <1>b DEF TypeOK
  <2> QED  BY Zenon, <1>0, <2>1, <2>2 DEF TypeOK
<1>2. Others(t)  BY Zenon, <1>0 DEF TypeOK, Others
<1>k. \A g \in GroupIds : g # bid[t] => writers'[g] = writers[g] /\ used'[g] = used[g]
  BY Zenon, <1>0, <1>b DEF TypeOK
<1>u. /\ UNCHANGED <<sealed, flushed, set, permits, version, pc, pin, bid, op, ret>>
      /\ pc[t] = "txn" /\ bid[t] < MaxGroup /\ ~sealed[bid[t]]
  BY Zenon
<1> HIDE DEF AllocOk
<1>3. TaskInv'
  <2>1. TaskOK(t)'
    BY Zenon, <1>0, <1>b, <1>u DEF TaskInv, TaskOK, HasBuffer, Outside, Waits, Current
  <2> QED  BY Zenon, <1>0, <1>1, <1>2, <1>u, <2>1, TaskFrame
<1>4. BufferInv'
  <2> SUFFICES ASSUME NEW g \in GroupIds
               PROVE  /\ g < Current => sealed[g]
                      /\ g > Current => ~sealed[g] /\ used'[g] = 0
                      /\ g = MaxGroup => ~sealed[g] /\ used'[g] = 0
                      /\ g <= saved => sealed[g] /\ writers'[g] = 0
                      /\ flushed[g] => g <= saved
    BY Zenon, <1>u DEF BufferInv, Current
  <2>1. CASE g = bid[t]
    BY Zenon, <1>0, <1>c, <1>u, <2>1, TypeFacts DEF BufferInv
  <2>2. CASE g # bid[t]
    BY Zenon, <1>0, <1>k, <2>2 DEF BufferInv
  <2> QED  BY Zenon, <2>1, <2>2
<1>f. hold'[Flusher] = hold[Flusher]  BY Zenon, <1>2 DEF Others
<1>5. FlusherInv'
  <2>1. ASSUME pc[Flusher] \in {"build", "save"}
        PROVE  bid[Flusher] \in GroupIds /\ bid[Flusher] # bid[t]
    <3>1. bid[Flusher] = first /\ sealed[bid[Flusher]]
      BY Zenon, <1>0, <2>1 DEF FlusherInv, Flushable
    <3> QED  BY Zenon, <1>0, <1>u, <3>1 DEF TypeOK
  <2> QED
    BY Zenon, <1>0, <1>f, <1>k, <1>u, <2>1 DEF FlusherInv, ShuttingDown, Flushable, Current
<1>6. PermitInv'  BY Zenon, <1>0, <1>2, <1>u, ReturnedFrame, PermitFrame DEF Stalled
<1>7. OneInstaller'  BY Zenon, <1>0, <1>2, <1>u, InstallerFrame DEF Switching
<1>8. PinInv'  BY Zenon, <1>0, <1>2, <1>u, PinFrame DEF PinInv
<1>9. StallFreeInv'  BY Zenon, <1>0, <1>u DEF StallFreeInv, StallFree, Waits
<1>10. ShutdownInv'
  BY Zenon, <1>0, <1>a, <1>u DEF ShutdownInv, FlusherInv, ShuttingDown
<1> QED  BY Zenon, <1>1, <1>3, <1>4, <1>5, <1>6, <1>7, <1>8, <1>9, <1>10 DEF IInv

\* seal_buffer: who seals an unsealed buffer seals the current one while nobody switches,
\* and becomes the only installer.
LEMMA SealStep ==
    ASSUME IInv, NEW t \in Tasks, Seal(t)
    PROVE  IInv'
<1> USE DEF Seal, AfterSwitch
<1>0. /\ TypeOK /\ TaskInv /\ WriterCount /\ BufferInv /\ FlusherInv /\ PermitInv
      /\ OneInstaller /\ PinInv /\ StallFreeInv /\ ShutdownInv
  BY Zenon DEF IInv
<1>a. ~closing /\ pin[t] # 0 /\ (HasBuffer(t) => bid[t] \in GroupIds)
  BY Zenon, ActiveTask
<1>b. bid[t] \in GroupIds /\ bid[t] < MaxGroup /\ bid[t] <= Current
  BY Zenon, <1>0, <1>a DEF TaskInv, TaskOK, HasBuffer
<1>1. TypeOK'
  <2>1. sealed' \in [GroupIds -> BOOLEAN]  BY Zenon, <1>0, <1>b DEF TypeOK
  <2>2. \E l \in {"acquire", "waitFlushed", "drop"} : pc' = [pc EXCEPT ![t] = l]
    BY Zenon
  <2>3. pc' \in [Procs -> TaskPCs \cup WaitPCs \cup FlusherPCs]
    BY <1>0, <2>2 DEF TypeOK
  <2>4. rs' \in [Procs -> BOOLEAN]  BY Zenon, <1>0 DEF TypeOK
  <2>5. UNCHANGED <<writers, used, flushed, set, sync, version, pin, bid, hold, op, ret>>
    BY Zenon
  <2> HIDE DEF Seal, AfterSwitch
  <2> QED  BY Zenon, <1>0, <2>1, <2>3, <2>4, <2>5 DEF TypeOK
<1>2. Others(t)  BY Zenon, <1>0 DEF TypeOK, Others
<1>e. /\ pc[t] = "switch"
      /\ sealed[bid[t]] => pc'[t] \in {"waitFlushed", "drop"} /\ sealed' = sealed
      /\ ~sealed[bid[t]] => pc'[t] = "acquire" /\ sealed' = [sealed EXCEPT ![bid[t]] = TRUE]
      /\ UNCHANGED <<writers, used, flushed, set, permits, version, pin, bid, hold, op, ret>>
  BY Zenon, <1>0 DEF TypeOK
<1> HIDE DEF Seal, AfterSwitch
<1>s. \A g \in GroupIds : (sealed'[g] => sealed[g] \/ g = bid[t]) /\ (sealed[g] => sealed'[g])
  BY Zenon, <1>0, <1>e DEF TypeOK
<1>3. TaskInv'
  <2>1. TaskOK(t)'
    BY Zenon, <1>0, <1>a, <1>e DEF TaskInv, TaskOK, HasBuffer, Outside, Waits, Current
  <2> QED  BY Zenon, <1>0, <1>1, <1>2, <1>e, <2>1, TaskFrame
<1>n. WriterCount'  BY Zenon, <1>0, <1>2, <1>e, CountFrame
<1>4. BufferInv'
  <2>1. \A g \in GroupIds : g = bid[t] => g # MaxGroup /\ ~(g > Current)
    BY <1>0, <1>b, TypeFacts
  <2> QED  BY Zenon, <1>0, <1>e, <1>s, <2>1 DEF BufferInv, Current
<1>f. pc'[Flusher] = pc[Flusher]  BY Zenon, <1>2 DEF Others
<1>5. FlusherInv'
  <2>1. pc[Flusher] \in {"build", "save"} => bid[Flusher] \in GroupIds
    BY Zenon, <1>0 DEF FlusherInv, TypeOK
  <2> QED
    BY Zenon, <1>0, <1>e, <1>f, <1>s, <2>1 DEF FlusherInv, ShuttingDown, Flushable, Current
<1>6. PermitInv'
  BY Zenon, <1>0, <1>2, <1>e, ReturnedFrame, PermitFrame DEF Stalled
<1>7. OneInstaller'
  <2>1. CASE sealed[bid[t]]
    BY Zenon, <1>0, <1>2, <1>e, <2>1, InstallerFrame DEF Switching
  <2>2. CASE ~sealed[bid[t]]
    <3>1. bid[t] = Current  BY <1>0, <1>b, <2>2, TypeFacts DEF BufferInv
    <3>2. \A u \in Tasks : ~Switching(u)  BY Zenon, <1>0, <2>2, <3>1 DEF OneInstaller
    <3>3. \A u \in Tasks : Switching(u)' <=> u = t
      BY Zenon, <1>2, <1>e, <2>2, <3>2 DEF Switching, Others
    <3>4. Current' = Current /\ bid' = bid /\ sealed'[Current]
      BY Zenon, <1>0, <1>b, <1>e, <2>2, <3>1 DEF Current, TypeOK
    <3> QED  BY Zenon, <3>1, <3>3, <3>4 DEF OneInstaller
  <2> QED  BY Zenon, <2>1, <2>2
<1>8. PinInv'  BY Zenon, <1>0, <1>2, <1>e, PinFrame DEF PinInv
<1>9. StallFreeInv'
  <2>1. ASSUME NEW u \in Tasks, u # t  PROVE StallFree(u)'
    <3>1. pc[u] = "switch" => bid[u] \in GroupIds  BY Zenon, ActiveTask DEF HasBuffer
    <3> QED
      BY <1>0, <1>2, <1>e, <1>s, <2>1, <3>1 DEF StallFreeInv, StallFree, Waits, Others
  <2>2. StallFree(t)'  BY Zenon, <1>0, <1>e DEF StallFreeInv, StallFree, Waits
  <2> QED  BY Zenon, <2>1, <2>2 DEF StallFreeInv
<1>10. ShutdownInv'  BY Zenon, <1>0, <1>e, <1>f, ShutdownFrame
<1> QED  BY Zenon, <1>1, <1>3, <1>n, <1>4, <1>5, <1>6, <1>7, <1>8, <1>9, <1>10 DEF IInv

\* The task that switches is the only one; nobody else is about to install.
LEMMA OnlySwitcher ==
    ASSUME IInv, NEW t \in Tasks, Switching(t)
    PROVE  /\ bid[t] = Current /\ sealed[Current]
           /\ \A u \in Tasks : Switching(u) => u = t
BY Zenon DEF IInv, OneInstaller

\* Taking a permit while another task switches cannot make it stall: there is none.
LEMMA StallFreeOfOthers ==
    ASSUME IInv, NEW t \in Tasks, Switching(t), Others(t), sealed' = sealed, StallFree(t)'
    PROVE  StallFreeInv'
<1>1. ASSUME NEW u \in Tasks, u # t  PROVE StallFree(u)'
  <2>1. ~Switching(u) /\ sealed[Current]  BY Zenon, <1>1, OnlySwitcher
  <2>2. ASSUME pc[u] = "switch"  PROVE sealed[bid[u]]
    <3>1. bid[u] \in GroupIds /\ bid[u] <= Current
      BY Zenon, <2>2, ActiveTask DEF HasBuffer, IInv, TaskInv, TaskOK
    <3> QED  BY ZenonT(60), <2>1, <3>1, TypeFacts, Ordered DEF IInv, BufferInv
  <2> QED  BY Zenon, <1>1, <2>1, <2>2 DEF StallFree, Switching, Waits, Others
<1> QED  BY Zenon, <1>1 DEF StallFreeInv

\* try_acquire takes a permit that no other task can take: nobody else is installing.
LEMMA TryAcquireStep ==
    ASSUME IInv, NEW t \in Tasks, TryAcquire(t)
    PROVE  IInv'
<1> USE DEF TryAcquire
<1>0. /\ TypeOK /\ TaskInv /\ WriterCount /\ BufferInv /\ FlusherInv /\ PermitInv
      /\ OneInstaller /\ PinInv /\ StallFreeInv /\ ShutdownInv
  BY Zenon DEF IInv
<1>a. ~closing /\ ~ShuttingDown /\ pin[t] # 0  BY Zenon, ActiveTask
<1>q. Switching(t) /\ \A u \in Tasks : Switching(u) => u = t
  BY Zenon, OnlySwitcher DEF Switching
<1>1. TypeOK'
  <2>1. permits \in Nat /\ (permits > 1 => permits - 1 \in Nat)
    BY Zenon, <1>0, Ordered, Predecessor DEF TypeOK
  <2>2. \E l \in {"install", "wait"} : pc' = [pc EXCEPT ![t] = l]  BY Zenon
  <2>3. pc' \in [Procs -> TaskPCs \cup WaitPCs \cup FlusherPCs]  BY Zenon, <1>0, <2>2, MovedPC
  <2>4. ret' \in [Procs -> {"begin", "switch", "install", "spin"}]  BY Zenon, <1>0 DEF TypeOK
  <2>5. permits' \in Nat  BY Zenon, <2>1
  <2> QED  BY Zenon, <1>0, <2>3, <2>4, <2>5 DEF TypeOK
<1>2. Others(t)  BY Zenon, <1>0 DEF TypeOK, Others
<1>e. /\ pc[t] = "acquire"
      /\ permits > 1 => pc'[t] = "install" /\ permits' = permits - 1 /\ ret' = ret
      /\ ~(permits > 1) => pc'[t] = "wait" /\ ret'[t] = "install" /\ permits' = permits
      /\ UNCHANGED <<buffers, set, version, pin, bid, hold, op>>
  BY Zenon, <1>0 DEF TypeOK
<1> HIDE DEF TryAcquire
<1>3. TaskInv'
  <2>1. TaskOK(t)'
    BY Zenon, <1>0, <1>a, <1>e DEF TaskInv, TaskOK, HasBuffer, Outside, Waits, Current
  <2> QED  BY Zenon, <1>0, <1>1, <1>2, <1>e, <2>1, TaskFrame
<1>n. WriterCount'  BY Zenon, <1>0, <1>2, <1>e, CountFrame
<1>4. BufferInv'  BY Zenon, <1>0, <1>e, BufferFrame
<1>5. FlusherInv'  BY Zenon, <1>0, <1>2, <1>e, FlusherFrame
<1>6. PermitInv'
  <2>1. permits # 0 /\ \A u \in Tasks : pc[u] # "install"
    BY Zenon, <1>0, <1>a, <1>e, <1>q DEF PermitInv, Stalled, Switching
  <2>2. \A u \in Tasks : pc'[u] = "install" <=> u = t /\ permits > 1
    BY Zenon, <1>2, <1>e, <2>1 DEF Others
  <2>3. /\ Returned' = Returned /\ (ShuttingDown' <=> ShuttingDown) /\ Returned \in Int
        /\ saved' = saved /\ Current' = Current
    BY Zenon, <1>0, <1>2, <1>e, ReturnedFrame, ReturnedFacts DEF Current
  <2>4. permits \in Nat /\ Current \in Nat /\ MaxWriteBuffers \in Nat /\ permits > 0
    BY Zenon, <1>0, <2>1, TypeFacts, Ordered
  <2>5. permits + Current + 0 = Returned + MaxWriteBuffers + 1
    BY Zenon, <1>0, <1>a, <2>1, <2>4 DEF PermitInv
  <2>6. CASE permits > 1
    <3>1. permits' = permits - 1 /\ Returned \in Int  BY Zenon, <1>e, <2>3, <2>6
    <3>2. /\ permits' # 0 /\ permits' > 0
          /\ permits' + Current + 1 = Returned + MaxWriteBuffers + 1
      BY <2>4, <2>5, <2>6, <3>1
    <3> QED  BY Zenon, <1>0, <2>2, <2>3, <2>6, <3>2 DEF PermitInv
  <2>7. CASE ~(permits > 1)
    BY Zenon, <1>0, <1>a, <1>e, <2>1, <2>2, <2>3, <2>5, <2>7 DEF PermitInv
  <2> QED  BY Zenon, <2>6, <2>7
<1>7. OneInstaller'
  <2>1. Switching(t)'  BY Zenon, <1>e DEF Switching
  <2> QED  BY Zenon, <1>0, <1>2, <1>e, <1>q, <2>1, InstallerFrame
<1>8. PinInv'  BY Zenon, <1>0, <1>2, <1>e, PinFrame DEF PinInv
<1>9. StallFreeInv'
  <2>1. StallFree(t)'  BY Zenon, <1>0, <1>e DEF StallFreeInv, StallFree, Waits
  <2> QED  BY Zenon, <1>2, <1>e, <1>q, <2>1, StallFreeOfOthers
<1>10. ShutdownInv'  BY Zenon, <1>0, <1>2, <1>e, ShutdownFrame DEF Others
<1> QED  BY Zenon, <1>1, <1>3, <1>n, <1>4, <1>5, <1>6, <1>7, <1>8, <1>9, <1>10 DEF IInv

\* install_successor: the sealed buffer is the current one and not the last, and the
\* permit the installer took becomes the permit of the new buffer.
LEMMA InstallStep ==
    ASSUME IInv, NEW t \in Tasks, Install(t)
    PROVE  IInv'
<1> USE DEF Install, AfterSwitch
<1>0. /\ TypeOK /\ TaskInv /\ WriterCount /\ BufferInv /\ FlusherInv /\ PermitInv
      /\ OneInstaller /\ PinInv /\ StallFreeInv /\ ShutdownInv
  BY Zenon DEF IInv
<1>a. ~closing /\ ~ShuttingDown /\ first <= Current /\ pin[t] # 0  BY Zenon, ActiveTask
<1>q. /\ Switching(t) /\ bid[t] = Current /\ sealed[Current]
      /\ \A u \in Tasks : Switching(u) => u = t
  BY Zenon, OnlySwitcher DEF Switching
<1>e. /\ pc[t] = "install" /\ pc'[t] \in {"notify", "waitFlushed", "drop"} /\ next' = bid[t] + 2
      /\ UNCHANGED <<buffers, start, permits, version, pin, bid, hold, op, ret>>
  BY Zenon, <1>0 DEF TypeOK
<1>b. /\ Current < MaxGroup /\ next' = next + 1
      /\ Current' = Current + 1 /\ Current + 1 \in GroupIds
  <2>1. Current # MaxGroup  BY Zenon, <1>0, <1>q, TypeFacts DEF BufferInv
  <2>2. next' = Current + 2  BY Zenon, <1>e, <1>q
  <2> QED  BY Zenon, <1>0, <2>1, <2>2, OrderFacts
<1>1. TypeOK'
  <2>1. next' \in 2..(MaxGroup + 1)
    <3>1. Current # MaxGroup  BY Zenon, <1>0, <1>q, TypeFacts DEF BufferInv
    <3> QED  BY Zenon, <1>0, <1>b, <3>1, OrderFacts
  <2> QED  BY Zenon, <1>0, <2>1 DEF TypeOK
<1>2. Others(t)  BY Zenon, <1>0 DEF TypeOK, Others
<1> HIDE DEF Install, AfterSwitch
<1>3. TaskInv'
  <2>1. TaskOK(t)'
    <3>1. bid'[t] <= Current'  BY Zenon, <1>0, <1>b, <1>e, <1>q, OrderFacts
    <3> QED
      BY Zenon, <1>0, <1>a, <1>e, <3>1 DEF TaskInv, TaskOK, HasBuffer, Outside, Waits
  <2>2. next <= next'  BY Zenon, <1>0, <1>b, OrderFacts
  <2> QED  BY Zenon, <1>0, <1>1, <1>2, <1>e, <2>1, <2>2, TaskFrame
<1>n. WriterCount'  BY Zenon, <1>0, <1>2, <1>e, CountFrame
<1>4. BufferInv'
  <2> SUFFICES ASSUME NEW g \in GroupIds
               PROVE  /\ g < Current + 1 => sealed[g]
                      /\ g > Current + 1 => ~sealed[g] /\ used[g] = 0
    BY Zenon, <1>0, <1>b, <1>e DEF BufferInv
  <2>1. /\ g < Current + 1 => g < Current \/ g = Current
        /\ g > Current + 1 => g > Current
    BY Zenon, <1>0, TypeFacts, BelowSuccessor
  <2> QED  BY Zenon, <1>0, <1>q, <2>1 DEF BufferInv
<1>f. pc'[Flusher] = pc[Flusher]  BY Zenon, <1>2 DEF Others
<1>5. FlusherInv'
  <2>1. /\ bid[Flusher] < next => bid[Flusher] < next'
        /\ first < Current => first < Current'
        /\ first <= Current'
        /\ saved <= Current => saved <= Current'
    BY Zenon, <1>0, <1>a, <1>b, TypeFacts, Successor
  <2> QED
    BY Zenon, <1>0, <1>a, <1>e, <1>f, <2>1 DEF FlusherInv, ShuttingDown, Flushable
<1>6. PermitInv'
  <2>1. permits # 0 /\ \A u \in Tasks : pc'[u] # "install"
    BY Zenon, <1>0, <1>2, <1>a, <1>e, <1>q DEF PermitInv, Stalled, Switching, Others
  <2>2. /\ permits \in Nat /\ permits > 0 /\ Current \in Nat /\ saved \in Nat
        /\ MaxWriteBuffers \in Nat /\ Returned \in Int /\ Returned <= saved
    BY Zenon, <1>0, <2>1, TypeFacts, ReturnedFacts, Ordered
  <2>3. permits + Current + 1 = Returned + MaxWriteBuffers + 1
    BY Zenon, <1>0, <1>a, <1>e, <2>2 DEF PermitInv
  <2>4. /\ permits + (Current + 1) + 0 = Returned + MaxWriteBuffers + 1
        /\ Current + 1 <= saved + MaxWriteBuffers
    BY <2>2, <2>3
  <2>5. Returned' = Returned /\ saved' = saved /\ permits' = permits
    BY Zenon, <1>e, <1>f DEF Returned
  <2> QED  BY Zenon, <1>b, <2>1, <2>4, <2>5 DEF PermitInv
<1>7. OneInstaller'
  <2>1. \A u \in Tasks : ~Switching(u)'
    BY Zenon, <1>2, <1>e, <1>q DEF Switching, Others
  <2>2. ~sealed'[Current']
    <3>1. Current + 1 > Current  BY Zenon, <1>0, OrderFacts
    <3> QED  BY Zenon, <1>0, <1>b, <1>e, <3>1 DEF BufferInv
  <2> QED  BY Zenon, <2>1, <2>2 DEF OneInstaller
<1>8. PinInv'  BY Zenon, <1>0, <1>e DEF PinInv
<1>9. StallFreeInv'
  <2>1. StallFree(t)'  BY Zenon, <1>e DEF StallFree, Waits
  <2> QED  BY Zenon, <1>0, <1>2, <1>e, <2>1, StallFrame
<1>10. ShutdownInv'
  BY Zenon, <1>0, <1>a, <1>f DEF ShutdownInv, FlusherInv, ShuttingDown
<1> QED  BY Zenon, <1>1, <1>3, <1>n, <1>4, <1>5, <1>6, <1>7, <1>8, <1>9, <1>10 DEF IInv

\* A look at the permits by task t: it goes on if there is enough, and only the
\* installer takes a permit, or records itself as the waiter.
LEMMA AttemptStep ==
    ASSUME IInv, TypeOK', NEW t \in Tasks, Others(t),
           pc[t] \in {"wait", "check"}, Attempt(t),
           UNCHANGED <<buffers, set, version, pin, bid, hold, op>>,
           Enough(t) => pc'[t] = ret[t] /\ ret'[t] = "begin",
           ~Enough(t) => pc'[t] \in {"check", "asleep"} /\ ret'[t] = ret[t]
    PROVE  IInv'
<1>0. /\ TypeOK /\ TaskInv /\ WriterCount /\ BufferInv /\ FlusherInv /\ PermitInv
      /\ OneInstaller /\ PinInv /\ StallFreeInv /\ ShutdownInv
  BY Zenon DEF IInv
<1>a. ~closing /\ ~ShuttingDown /\ pin[t] # 0  BY Zenon, ActiveTask
<1>r. ret[t] \in {"begin", "switch", "install"}
  BY ZenonT(60), <1>0 DEF TaskInv, TaskOK, TypeOK
<1>1. TaskOK(t)'
  BY Zenon, <1>0, <1>a, <1>r DEF TaskInv, TaskOK, HasBuffer, Outside, Waits, Current
<1>2. TaskInv'  BY Zenon, <1>0, <1>1, TaskFrame
<1>3. CASE ret[t] # "install"
  <2>1. permits' = permits  BY Zenon, <1>3 DEF Attempt
  <2>2. StallFree(t)'
    BY Zenon, <1>0, <1>3, <1>r, <2>1 DEF StallFreeInv, StallFree, Waits, Enough
  <2>3. /\ ~Switching(t) /\ ~Switching(t)' /\ ~Stalled(t) /\ pc'[t] # "install"
    BY Zenon, <1>3, <1>r DEF Switching, Stalled
  <2>4. start <= pin'[t]  BY Zenon, <1>0, <1>a DEF PinInv
  <2> QED  BY Zenon, <1>1, <2>1, <2>2, <2>3, <2>4, LocalStep
<1>4. CASE ret[t] = "install"
  <2>q. /\ Switching(t) /\ Switching(t)' /\ \A u \in Tasks : Switching(u) => u = t
    BY Zenon, <1>4, OnlySwitcher DEF Switching
  <2>1. BufferInv' /\ WriterCount'  BY Zenon, <1>0, BufferFrame, CountFrame
  <2>2. FlusherInv'  BY Zenon, <1>0, FlusherFrame
  <2>3. PermitInv'
    <3>1. \A u \in Tasks : pc[u] # "install"  BY Zenon, <1>4, <2>q DEF Switching
    <3>2. \A u \in Tasks : pc'[u] = "install" <=> u = t /\ permits > 1
      BY Zenon, <1>4, <3>1 DEF Others, Enough
    <3>3. /\ Returned' = Returned /\ (ShuttingDown' <=> ShuttingDown) /\ Returned \in Int
          /\ saved' = saved /\ Current' = Current
      BY Zenon, <1>0, ReturnedFrame, ReturnedFacts DEF Current
    <3>4. permits' = IF permits > 0 THEN permits - 1 ELSE permits
      BY Zenon, <1>4 DEF Attempt
    <3>5. ~(permits > 1) => Stalled(t)'  BY Zenon, <1>4 DEF Enough, Stalled
    <3>6. permits \in Nat /\ Current \in Nat /\ MaxWriteBuffers \in Nat /\ Returned \in Int
      BY Zenon, <1>0, <3>3, TypeFacts
    <3>7. /\ permits = 0 => Current = Returned + MaxWriteBuffers
          /\ permits > 0 => permits + Current + 0 = Returned + MaxWriteBuffers + 1
      BY Zenon, <1>0, <1>a, <3>1 DEF PermitInv
    <3>8. /\ permits' = 0 => Current = Returned + MaxWriteBuffers /\ ~(permits > 1)
          /\ permits' > 0 => /\ permits > 1
                             /\ permits' + Current + 1 = Returned + MaxWriteBuffers + 1
      BY <3>4, <3>6, <3>7
    <3> QED  BY Zenon, <1>0, <3>2, <3>3, <3>5, <3>8 DEF PermitInv
  <2>4. OneInstaller'  BY Zenon, <1>0, <2>q, InstallerFrame
  <2>5. PinInv'  BY Zenon, <1>0 DEF PinInv
  <2>6. StallFreeInv'
    <3>1. StallFree(t)'  BY Zenon, <1>0, <1>4 DEF StallFreeInv, StallFree, Waits
    <3> QED  BY Zenon, <2>q, <3>1, StallFreeOfOthers
  <2>7. ShutdownInv'  BY Zenon, <1>0, ShutdownFrame DEF Others
  <2> QED  BY Zenon, <1>2, <2>1, <2>2, <2>3, <2>4, <2>5, <2>6, <2>7 DEF IInv
<1> QED  BY Zenon, <1>3, <1>4

\* wait and acquire look at the permits.
LEMMA WaitStep ==
    ASSUME IInv, NEW t \in Tasks, Wait(t)
    PROVE  IInv'
<1> USE DEF Wait, Return
<1>0. TypeOK /\ TaskInv  BY Zenon DEF IInv
<1>r. ret[t] \in {"begin", "switch", "install"}
  BY Zenon, <1>0 DEF TaskInv, TaskOK, TypeOK
<1>1. permits' \in Nat
  <2>1. permits \in Nat /\ (permits' = permits \/ (permits > 0 /\ permits' = permits - 1))
    BY Zenon, <1>0 DEF Attempt, TypeOK
  <2> QED  BY Zenon, <2>1, Predecessor
<1>2. TypeOK'
  <2>1. pc' \in [Procs -> TaskPCs \cup WaitPCs \cup FlusherPCs]
    <3>1. \E l \in {"begin", "switch", "install", "check"} : pc' = [pc EXCEPT ![t] = l]
      BY Zenon, <1>r
    <3> QED  BY Zenon, <1>0, <3>1, MovedPC
  <2>2. ret' \in [Procs -> {"begin", "switch", "install", "spin"}]
    BY ZenonT(60), <1>0 DEF TypeOK
  <2>3. armed' \in SUBSET Procs  BY ZenonT(60), <1>0 DEF TypeOK
  <2> QED  BY Zenon, <1>0, <1>1, <2>1, <2>2, <2>3 DEF TypeOK
<1>3. Others(t)  BY ZenonT(60), <1>0 DEF TypeOK, Others
<1>4. /\ Enough(t) => pc'[t] = ret[t] /\ ret'[t] = "begin"
      /\ ~Enough(t) => pc'[t] \in {"check", "asleep"} /\ ret'[t] = ret[t]
  BY Zenon, <1>0 DEF TypeOK
<1>5. /\ pc[t] \in {"wait", "check"} /\ Attempt(t)
      /\ UNCHANGED <<buffers, set, version, pin, bid, hold, op>>
  BY Zenon
<1> HIDE DEF Wait, Return
<1> QED  BY Zenon, <1>2, <1>3, <1>4, <1>5, AttemptStep

\* wait_cond looks at the permits with its notification enabled.
LEMMA CheckStep ==
    ASSUME IInv, NEW t \in Tasks, Check(t)
    PROVE  IInv'
<1> USE DEF Check, Return
<1>0. TypeOK /\ TaskInv  BY Zenon DEF IInv
<1>r. ret[t] \in {"begin", "switch", "install"}
  BY Zenon, <1>0 DEF TaskInv, TaskOK, TypeOK
<1>1. permits' \in Nat
  <2>1. permits \in Nat /\ (permits' = permits \/ (permits > 0 /\ permits' = permits - 1))
    BY Zenon, <1>0 DEF Attempt, TypeOK
  <2> QED  BY Zenon, <2>1, Predecessor
<1>2. TypeOK'
  <2>1. pc' \in [Procs -> TaskPCs \cup WaitPCs \cup FlusherPCs]
    <3>1. \E l \in {"begin", "switch", "install", "asleep"} : pc' = [pc EXCEPT ![t] = l]
      BY Zenon, <1>r
    <3> QED  BY Zenon, <1>0, <3>1, MovedPC
  <2>2. ret' \in [Procs -> {"begin", "switch", "install", "spin"}]
    BY Zenon, <1>0 DEF TypeOK
  <2>3. armed' \in SUBSET Procs  BY Zenon, <1>0 DEF TypeOK
  <2> QED  BY Zenon, <1>0, <1>1, <2>1, <2>2, <2>3 DEF TypeOK
<1>3. Others(t)  BY Zenon, <1>0 DEF TypeOK, Others
<1>4. /\ Enough(t) => pc'[t] = ret[t] /\ ret'[t] = "begin"
      /\ ~Enough(t) => pc'[t] \in {"check", "asleep"} /\ ret'[t] = ret[t]
  BY Zenon, <1>0 DEF TypeOK
<1>5. /\ pc[t] \in {"wait", "check"} /\ Attempt(t)
      /\ UNCHANGED <<buffers, set, version, pin, bid, hold, op>>
  BY Zenon
<1> HIDE DEF Check, Return
<1> QED  BY Zenon, <1>2, <1>3, <1>4, <1>5, AttemptStep

-----------------------------------------------------------------------------
(* Steps of the flush job, of the cleanup job and of close on shared state. *)

\* After close no transaction is left, so the buffer that is sealed has no writer; the
\* job ends only after the last buffer or at an empty one.
LEMMA FlushDuringShutdownStep ==
    ASSUME IInv, FlushDuringShutdown, Cardinality({}) = 0
    PROVE  IInv'
<1> USE DEF FlushDuringShutdown
<1>0. /\ TypeOK /\ TaskInv /\ WriterCount /\ BufferInv /\ FlusherInv /\ PermitInv
      /\ OneInstaller /\ PinInv /\ StallFreeInv /\ ShutdownInv
  BY Zenon DEF IInv
<1>a. /\ closing /\ ShuttingDown
      /\ bid[Flusher] = first /\ first = saved + 1 /\ first <= next
  BY Zenon, <1>0 DEF FlusherInv, ShuttingDown
<1>1. TypeOK'  BY ZenonT(60), <1>0 DEF TypeOK
<1>2. Others(Flusher)  BY ZenonT(60), <1>0 DEF TypeOK, Others
<1>i. \A u \in Tasks : pc[u] = "idle" /\ ~hold[u] /\ pc'[u] = "idle"
  BY Zenon, <1>0, <1>2, <1>a DEF TaskInv, TaskOK, Outside, Others
<1>w. \A g \in GroupIds : writers[g] = 0
  <2>1. \A g : Holders(g) = {}  BY Zenon, <1>i DEF Holders
  <2> QED  BY Zenon, <1>0, <2>1 DEF WriterCount
<1>e. /\ pc[Flusher] = "shutdown" /\ pc'[Flusher] \in {"build", "done"}
      /\ UNCHANGED <<writers, used, flushed, set, permits, version, local>>
      /\ pc'[Flusher] = "done" =>
            sealed' = sealed /\ (first >= next \/ (~sealed[first] /\ Empty(first)))
      /\ pc'[Flusher] = "build" =>
            /\ ~(first >= next) /\ (sealed[first] \/ ~Empty(first))
            /\ sealed' = [sealed EXCEPT ![first] = TRUE]
  BY ZenonT(60), <1>0, <1>a DEF TypeOK
<1> HIDE DEF FlushDuringShutdown
<1>3. TaskInv'  BY Zenon, <1>0, <1>1, <1>2, <1>e, TaskFrame
<1>n. WriterCount'  BY Zenon, <1>0, <1>2, <1>e, CountFrame
<1>4. BufferInv'
  <2>2. \A g \in GroupIds : sealed'[g] => sealed[g] \/ (g = first /\ first < next /\ ~Empty(g))
    <3>1. ~(first >= next) => first < next  BY Zenon, <1>0, TypeFacts, Ordered
    <3>2. CASE pc'[Flusher] = "done"  BY Zenon, <1>e, <3>2
    <3>3. CASE pc'[Flusher] = "build"  BY Zenon, <1>0, <1>e, <3>1, <3>3 DEF TypeOK
    <3> QED  BY Zenon, <1>e, <3>2, <3>3
  <2>3. \A g \in GroupIds : sealed[g] => sealed'[g]  BY Zenon, <1>0, <1>e DEF TypeOK
  <2>4. \A g \in GroupIds : g > Current => ~(g < next)  BY Zenon, <1>0, OrderFacts
  <2> QED  BY Zenon, <1>0, <1>e, <2>2, <2>3, <2>4 DEF BufferInv, Current, Empty
<1>5. FlusherInv'
  <2>1. ~(first >= next) => first < next  BY Zenon, <1>0, TypeFacts, Ordered
  <2>2. pc'[Flusher] = "build" => sealed'[first] /\ writers[first] = 0
    BY Zenon, <1>0, <1>e, <1>w DEF TypeOK
  <2> QED
    BY Zenon, <1>0, <1>a, <1>e, <2>1, <2>2 DEF FlusherInv, ShuttingDown, Flushable, Current
<1>6. PermitInv'
  BY Zenon, <1>0, <1>2, <1>a, <1>e, PermitFrame DEF Returned, ShuttingDown
<1>7. OneInstaller'
  <2>1. \A u \in Tasks : ~Switching(u)'  BY Zenon, <1>i DEF Switching
  <2> QED  BY Zenon, <1>a, <1>e, <2>1 DEF OneInstaller
<1>8. PinInv'  BY Zenon, <1>0, <1>e DEF PinInv
<1>9. StallFreeInv'  BY Zenon, <1>i DEF StallFreeInv, StallFree, Waits
<1>10. ShutdownInv'
  <2> SUFFICES ASSUME pc'[Flusher] = "done"
               PROVE  saved = Current \/ (saved = Current - 1 /\ Empty(Current))
    BY Zenon, <1>e DEF ShutdownInv, Current, Empty
  <2>1. first > Current \/ first = Current \/ sealed[first]
    <3>1. first < Current => sealed[first]  BY Zenon, <1>0 DEF BufferInv, TypeOK
    <3> QED  BY Zenon, <1>0, <3>1, TypeFacts, Ordered
  <2>2. /\ saved \in Nat /\ Current \in Nat /\ next = Current + 1
        /\ first = saved + 1 /\ first <= Current + 1
        /\ first >= next \/ (~sealed[first] /\ Empty(first))
    BY Zenon, <1>0, <1>a, <1>e, TypeFacts
  <2> QED  BY Zenon, <2>1, <2>2, LastBuffer
<1> QED  BY Zenon, <1>1, <1>3, <1>n, <1>4, <1>5, <1>6, <1>7, <1>8, <1>9, <1>10 DEF IInv

\* The edit of the buffer that follows the last saved one reaches the manifest.
LEMMA RecordVersionEditStep ==
    ASSUME IInv, RecordVersionEdit
    PROVE  IInv'
<1> USE DEF RecordVersionEdit
<1>0. /\ TypeOK /\ TaskInv /\ WriterCount /\ BufferInv /\ FlusherInv /\ PermitInv
      /\ OneInstaller /\ PinInv /\ StallFreeInv /\ ShutdownInv
  BY Zenon DEF IInv
<1>a. /\ bid[Flusher] = first /\ first = saved + 1 /\ first <= Current
      /\ sealed[first] /\ writers[first] = 0
  BY Zenon, <1>0, OrderFacts DEF FlusherInv, Flushable
<1>1. TypeOK'  BY Zenon, <1>0, <1>a, TypeFacts DEF TypeOK
<1>2. Others(Flusher)  BY Zenon, <1>0 DEF TypeOK, Others
<1>e. /\ pc[Flusher] = "save" /\ saved' = saved + 1
      /\ pc'[Flusher] = IF op[Flusher].wait THEN "release" ELSE "installVersion"
      /\ UNCHANGED <<buffers, set, permits, first, closing, local>>
  BY Zenon, <1>0, <1>a DEF TypeOK
<1> HIDE DEF RecordVersionEdit
<1>3. TaskInv'  BY Zenon, <1>0, <1>1, <1>2, <1>e, TaskFrame
<1>n. WriterCount'  BY Zenon, <1>0, <1>2, <1>e, CountFrame
<1>4. BufferInv'
  <2>2. \A g \in GroupIds : /\ g <= saved' => g <= saved \/ g = first
                            /\ g <= saved => g <= saved'
    BY Zenon, <1>0, <1>a, <1>e, TypeFacts, Successor, BelowSuccessor
  <2> QED  BY Zenon, <1>0, <1>a, <1>e, <2>2 DEF BufferInv, Current
<1>5. FlusherInv'
  BY Zenon, <1>0, <1>a, <1>e, TypeFacts DEF FlusherInv, ShuttingDown, Current
<1>6. PermitInv'
  <2>1. ShuttingDown' <=> ShuttingDown  BY Zenon, <1>e DEF ShuttingDown
  <2>2. Returned = saved  BY Zenon, <1>e DEF Returned
  <2>3. ~ShuttingDown => Returned' = saved
    BY Zenon, <1>0, <1>e, TypeFacts, Ordered DEF Returned, ShuttingDown
  <2>4. \A u \in Tasks : pc'[u] = pc[u] /\ (Stalled(u)' <=> Stalled(u))
    BY Zenon, <1>2 DEF Others, Stalled
  <2>5. Current <= saved' + MaxWriteBuffers
    BY Zenon, <1>0, <1>e, TypeFacts, Successor DEF PermitInv
  <2>6. Current' = Current /\ permits' = permits  BY Zenon, <1>e DEF Current
  <2> QED  BY Zenon, <1>0, <2>1, <2>2, <2>3, <2>4, <2>5, <2>6 DEF PermitInv
<1>7. OneInstaller'  BY Zenon, <1>0, <1>2, <1>e, InstallerFrame
<1>8. PinInv'  BY Zenon, <1>0, <1>e DEF PinInv
<1>9. StallFreeInv'  BY Zenon, <1>0, <1>2, <1>e, StallFrame
<1>10. ShutdownInv'  BY Zenon, <1>e DEF ShutdownInv
<1> QED  BY Zenon, <1>1, <1>3, <1>n, <1>4, <1>5, <1>6, <1>7, <1>8, <1>9, <1>10 DEF IInv

\* WriteBufferPermits::release: with permits = 0 the installer waits, so it holds no
\* permit and the two new units are its permit and the record that nobody waits.
LEMMA ReleasePermitStep ==
    ASSUME IInv, ReleasePermit
    PROVE  IInv'
<1> USE DEF ReleasePermit
<1>0. /\ TypeOK /\ TaskInv /\ WriterCount /\ BufferInv /\ FlusherInv /\ PermitInv
      /\ OneInstaller /\ PinInv /\ StallFreeInv /\ ShutdownInv
  BY Zenon DEF IInv
<1>1. TypeOK'
  <2>1. permits' \in Nat  BY Zenon, <1>0, TypeFacts, Ordered
  <2>2. \E l \in {"wake", "wait"} : pc' = [pc EXCEPT ![Flusher] = l]  BY Zenon
  <2>3. pc' \in [Procs -> TaskPCs \cup WaitPCs \cup FlusherPCs]  BY Zenon, <1>0, <2>2, MovedPC
  <2>4. ret' \in [Procs -> {"begin", "switch", "install", "spin"}]  BY Zenon, <1>0 DEF TypeOK
  <2> QED  BY Zenon, <1>0, <2>1, <2>3, <2>4 DEF TypeOK
<1>2. Others(Flusher)  BY Zenon, <1>0 DEF TypeOK, Others
<1>e. /\ pc[Flusher] = "release" /\ pc'[Flusher] \in {"wake", "wait"}
      /\ ret'[Flusher] = "spin" /\ permits' = IF permits = 0 THEN 2 ELSE permits + 1
      /\ UNCHANGED <<buffers, set, version, pin, bid, hold, op>>
  BY Zenon, <1>0 DEF TypeOK
<1> HIDE DEF ReleasePermit
<1>3. TaskInv'  BY Zenon, <1>0, <1>1, <1>2, <1>e, TaskFrame
<1>n. WriterCount'  BY Zenon, <1>0, <1>2, <1>e, CountFrame
<1>4. BufferInv'  BY Zenon, <1>0, <1>e, BufferFrame
<1>5. FlusherInv'  BY Zenon, <1>0, <1>e DEF FlusherInv, ShuttingDown, Current
<1>6. PermitInv'
  <2>1. ~ShuttingDown  BY Zenon, <1>0, <1>e DEF FlusherInv
  <2>2. Returned = saved - 1 /\ Returned' = saved  BY Zenon, <1>e DEF Returned
  <2>3. permits = 0 => \A u \in Tasks : pc[u] # "install"
    BY Zenon, <1>0, <2>1 DEF PermitInv, Stalled, OneInstaller, Switching
  <2>4. \A u \in Tasks : pc'[u] = pc[u]  BY Zenon, <1>2 DEF Others
  <2> DEFINE held == IF \E u \in Tasks : pc[u] = "install" THEN 1 ELSE 0
  <2>5. held' = held /\ held \in {0, 1} /\ (permits = 0 => held = 0)
    BY Zenon, <2>3, <2>4
  <2>6. /\ permits = 0 => Current = saved - 1 + MaxWriteBuffers
        /\ permits > 0 => permits + Current + held = saved - 1 + MaxWriteBuffers + 1
    BY Zenon, <1>0, <2>1, <2>2 DEF PermitInv
  <2> HIDE DEF held
  <2>7. /\ permits' = IF permits = 0 THEN 2 ELSE permits + 1
        /\ permits \in Nat /\ Current \in Nat /\ saved \in Nat /\ MaxWriteBuffers \in Nat
        /\ held \in {0, 1} /\ (permits = 0 => held = 0)
    BY Zenon, <1>0, <1>e, <2>5, TypeFacts
  <2>8. permits' # 0 /\ permits' + Current + held = saved + MaxWriteBuffers + 1
    BY <2>6, <2>7
  <2> USE DEF held
  <2> QED  BY Zenon, <1>0, <1>e, <2>2, <2>5, <2>8 DEF PermitInv, Current
<1>7. OneInstaller'  BY Zenon, <1>0, <1>2, <1>e, InstallerFrame
<1>8. PinInv'  BY Zenon, <1>0, <1>e DEF PinInv
<1>9. StallFreeInv'
  <2>1. permits \in Nat /\ permits' = IF permits = 0 THEN 2 ELSE permits + 1
    BY Zenon, <1>0, <1>e DEF TypeOK
  <2>2. permits > 1 => permits' > 1  BY <2>1
  <2> QED  BY ZenonT(60), <1>0, <1>2, <1>e, <2>2 DEF StallFreeInv, StallFree, Waits, Others
<1>10. ShutdownInv'  BY Zenon, <1>e DEF ShutdownInv
<1> QED  BY Zenon, <1>1, <1>3, <1>n, <1>4, <1>5, <1>6, <1>7, <1>8, <1>9, <1>10 DEF IInv

\* The version that starts after the flushed buffer: that buffer exists in the model.
LEMMA InstallVersionStep ==
    ASSUME IInv, InstallVersion
    PROVE  IInv'
<1> USE DEF InstallVersion
<1>0. /\ TypeOK /\ TaskInv /\ WriterCount /\ BufferInv /\ FlusherInv /\ PermitInv
      /\ OneInstaller /\ PinInv /\ StallFreeInv /\ ShutdownInv
  BY Zenon DEF IInv
<1>1. TypeOK'
  <2>1. saved = first /\ sealed[first]
    <3>1. saved = first  BY Zenon, <1>0 DEF FlusherInv
    <3>2. first <= saved /\ first \in GroupIds
      BY Zenon, <1>0, <3>1, TypeFacts, Ordered DEF TypeOK
    <3> QED  BY Zenon, <1>0, <3>1, <3>2 DEF BufferInv
  <2>2. first # MaxGroup  BY Zenon, <1>0, <2>1 DEF BufferInv, TypeOK
  <2>3. first + 1 \in GroupIds  BY Zenon, <1>0, <2>2, OrderFacts
  <2> QED  BY Zenon, <1>0, <2>3 DEF TypeOK
<1>2. Others(Flusher)  BY Zenon, <1>0 DEF TypeOK, Others
<1>e. /\ pc[Flusher] = "installVersion" /\ pc'[Flusher] = "latch" /\ first' = first + 1
      /\ UNCHANGED <<buffers, set, permits, saved, closing, local>>
  BY Zenon, <1>0 DEF TypeOK
<1> HIDE DEF InstallVersion
<1>3. TaskInv'
  <2>1. first <= first'  BY Zenon, <1>0, <1>e, OrderFacts
  <2> QED  BY Zenon, <1>0, <1>1, <1>2, <1>e, <2>1, TaskFrame
<1>n. WriterCount'  BY Zenon, <1>0, <1>2, <1>e, CountFrame
<1>4. BufferInv'  BY Zenon, <1>0, <1>e, BufferFrame
<1>5. FlusherInv'
  <2>1. saved = first /\ (ShuttingDown \/ first < Current) /\ saved <= Current /\ start <= first
    BY Zenon, <1>0, <1>e DEF FlusherInv
  <2>2. first' = saved' + 1 /\ first' - 1 = first  BY Zenon, <1>0, <1>e, <2>1, TypeFacts, Ordered
  <2>3. start' <= first'
    BY Zenon, <1>0, <1>e, <2>1, TypeFacts, Successor
  <2>4. first' <= IF ShuttingDown THEN next ELSE Current
    BY ZenonT(60), <1>0, <1>e, <2>1, TypeFacts, Successor
  <2>5. Current' = Current /\ (ShuttingDown' <=> ShuttingDown)
    BY Zenon, <1>e DEF Current, ShuttingDown
  <2> QED
    BY Zenon, <1>0, <1>e, <2>1, <2>2, <2>3, <2>4, <2>5 DEF FlusherInv, ShuttingDown
<1>6. PermitInv'  BY Zenon, <1>0, <1>2, <1>e, PermitFrame DEF Returned, ShuttingDown
<1>7. OneInstaller'  BY Zenon, <1>0, <1>2, <1>e, InstallerFrame
<1>8. PinInv'  BY Zenon, <1>0, <1>e DEF PinInv
<1>9. StallFreeInv'  BY Zenon, <1>0, <1>2, <1>e, StallFrame
<1>10. ShutdownInv'  BY Zenon, <1>e DEF ShutdownInv
<1> QED  BY Zenon, <1>1, <1>3, <1>n, <1>4, <1>5, <1>6, <1>7, <1>8, <1>9, <1>10 DEF IInv

\* on_flushed marks the buffer whose edit was saved last.
LEMMA OnFlushedStep ==
    ASSUME IInv, OnFlushed
    PROVE  IInv'
<1> USE DEF OnFlushed
<1>0. /\ TypeOK /\ TaskInv /\ WriterCount /\ BufferInv /\ FlusherInv /\ PermitInv
      /\ OneInstaller /\ PinInv /\ StallFreeInv /\ ShutdownInv
  BY Zenon DEF IInv
<1>a. first = saved + 1 /\ bid[Flusher] = saved /\ bid[Flusher] + 1 = first
  <2>1. first = saved + 1 /\ bid[Flusher] = first - 1  BY Zenon, <1>0 DEF FlusherInv
  <2> QED  BY Zenon, <1>0, <2>1, TypeFacts, Ordered
<1>1. TypeOK'
  <2>1. bid' \in [Procs -> 0..(MaxGroup + 1)]  BY Zenon, <1>0, <1>a, TypeFacts DEF TypeOK
  <2>2. flushed' \in [GroupIds -> BOOLEAN]  BY Zenon, <1>0 DEF TypeOK
  <2>3. pin' \in [Procs -> 0..MaxGroup]  BY Zenon, <1>0, TypeFacts DEF TypeOK
  <2>4. pc' \in [Procs -> TaskPCs \cup WaitPCs \cup FlusherPCs]
    BY Zenon, <1>0 DEF TypeOK
  <2> QED  BY Zenon, <1>0, <2>1, <2>2, <2>3, <2>4 DEF TypeOK
<1>2. Others(Flusher)  BY Zenon, <1>0 DEF TypeOK, Others
<1>e. /\ pc[Flusher] = "latch" /\ pin'[Flusher] = 0 /\ bid'[Flusher] = first
      /\ pc'[Flusher] = IF op[Flusher].wait THEN "pick" ELSE "shutdown"
      /\ \A g \in GroupIds : flushed'[g] => flushed[g] \/ g = saved
      /\ UNCHANGED <<sealed, writers, used, set, permits, version, hold, op, ret>>
  BY Zenon, <1>0, <1>a DEF TypeOK
<1> HIDE DEF OnFlushed
<1>3. TaskInv'  BY Zenon, <1>0, <1>1, <1>2, <1>e, TaskFrame
<1>n. WriterCount'  BY Zenon, <1>0, <1>2, <1>e, CountFrame
<1>4. BufferInv'
  <2>1. saved \in Nat  BY Zenon, <1>0, TypeFacts
  <2>2. saved <= saved  BY Zenon, <2>1, Ordered
  <2> QED  BY Zenon, <1>0, <1>e, <2>2 DEF BufferInv, Current
<1>5. FlusherInv'
  BY Zenon, <1>0, <1>a, <1>e, TypeFacts DEF FlusherInv, ShuttingDown, Current
<1>6. PermitInv'
  BY Zenon, <1>0, <1>2, <1>e, PermitFrame DEF Returned, ShuttingDown
<1>7. OneInstaller'  BY Zenon, <1>0, <1>2, <1>e, InstallerFrame
<1>8. PinInv'  BY Zenon, <1>0, <1>2, <1>e, PinFrame
<1>9. StallFreeInv'  BY Zenon, <1>0, <1>2, <1>e, StallFrame
<1>10. ShutdownInv'  BY Zenon, <1>e DEF ShutdownInv
<1> QED  BY Zenon, <1>1, <1>3, <1>n, <1>4, <1>5, <1>6, <1>7, <1>8, <1>9, <1>10 DEF IInv

\* The cleanup job drops a buffer that is before every pinned version.
LEMMA ReleaseBufferStep ==
    ASSUME IInv, ReleaseBuffer
    PROVE  IInv'
<1> USE DEF ReleaseBuffer
<1>0. /\ TypeOK /\ TaskInv /\ WriterCount /\ BufferInv /\ FlusherInv /\ PermitInv
      /\ OneInstaller /\ PinInv /\ StallFreeInv /\ ShutdownInv
  BY Zenon DEF IInv
<1>1. TypeOK'
  <2>1. start + 1 \in GroupIds  BY Zenon, <1>0, OrderFacts
  <2> QED  BY Zenon, <1>0, <2>1 DEF TypeOK
<1>2. Others(Flusher)  BY Zenon DEF Others
<1>3. TaskInv'  BY Zenon, <1>0, <1>1, <1>2, TaskFrame
<1>n. WriterCount'  BY Zenon, <1>0, <1>2, CountFrame
<1>4. BufferInv'  BY Zenon, <1>0, BufferFrame
<1>5. FlusherInv'
  <2>1. start' <= first  BY Zenon, <1>0, OrderFacts
  <2> QED  BY Zenon, <1>0, <2>1 DEF FlusherInv, ShuttingDown, Flushable, Current
<1>6. PermitInv'  BY Zenon, <1>0, <1>2, PermitFrame DEF Returned, ShuttingDown
<1>7. OneInstaller'  BY Zenon, <1>0, <1>2, InstallerFrame
<1>8. PinInv'
  <2>1. \A p \in Procs : pin[p] # 0 => start + 1 <= pin[p]
    BY Zenon, <1>0, TypeFacts, Successor
  <2> QED  BY Zenon, <2>1 DEF PinInv
<1>9. StallFreeInv'  BY Zenon, <1>0, <1>2, StallFrame
<1>10. ShutdownInv'  BY Zenon, <1>0, ShutdownFrame
<1> QED  BY Zenon, <1>1, <1>3, <1>n, <1>4, <1>5, <1>6, <1>7, <1>8, <1>9, <1>10 DEF IInv

\* close is called when no task uses the store.
LEMMA CloseStep ==
    ASSUME IInv, Close
    PROVE  IInv'
<1> USE DEF Close
<1>0. /\ TypeOK /\ TaskInv /\ WriterCount /\ BufferInv /\ FlusherInv /\ PermitInv
      /\ OneInstaller /\ PinInv /\ StallFreeInv /\ ShutdownInv
  BY Zenon DEF IInv
<1>1. TypeOK'  BY Zenon, <1>0 DEF TypeOK
<1>2. Others(Flusher)  BY Zenon DEF Others
<1>3. TaskInv'
  BY Zenon, <1>0 DEF TaskInv, TaskOK, HasBuffer, Outside, Waits, Current
<1>n. WriterCount'  BY Zenon, <1>0, <1>2, CountFrame
<1>4. BufferInv'  BY Zenon, <1>0, BufferFrame
<1>5. FlusherInv'  BY Zenon, <1>0 DEF FlusherInv, ShuttingDown, Flushable, Current
<1>6. PermitInv'  BY Zenon, <1>0, <1>2, PermitFrame DEF Returned, ShuttingDown
<1>7. OneInstaller'  BY Zenon, <1>0 DEF OneInstaller, Switching, Current
<1>8. PinInv'  BY Zenon, <1>0 DEF PinInv
<1>9. StallFreeInv'  BY Zenon, <1>0, <1>2, StallFrame
<1>10. ShutdownInv'  BY Zenon, <1>0, ShutdownFrame
<1> QED  BY Zenon, <1>1, <1>3, <1>n, <1>4, <1>5, <1>6, <1>7, <1>8, <1>9, <1>10 DEF IInv

-----------------------------------------------------------------------------
(* The writers of a buffer, the initial state, and Next *)

\* The holders of a buffer are tasks, hence finitely many.
LEMMA HoldersFinite ==
    ASSUME NEW g
    PROVE  IsFiniteSet(Holders(g))
BY Zenon, TasksAssumption, FS_Subset DEF Holders

\* release_writer takes one transaction from the holders of its buffer, so num_writer
\* still counts them and does not go below zero.
LEMMA DropCounts ==
    ASSUME IInv, NEW t \in Tasks, Drop(t)
    PROVE  WriterCount' /\ (hold[t] => writers[bid[t]] # 0)
<1>0. TypeOK /\ WriterCount  BY Zenon DEF IInv
<1>1. hold[t] => bid[t] \in GroupIds
  <2>1. pc[t] # "idle"  BY Zenon DEF Drop
  <2> QED  BY Zenon, <2>1, ActiveTask DEF HasBuffer
<1>2. hold[t] => writers[bid[t]] # 0
  <2>1. hold[t] => t \in Holders(bid[t])  BY Zenon DEF Holders
  <2> QED  BY Zenon, <1>0, <1>1, <2>1, HoldersFinite, FS_EmptySet DEF WriterCount
<1>3. \A g \in GroupIds : Holders(g)' = Holders(g) \ {t}
  BY Zenon, <1>0 DEF Drop, TypeOK, Holders, Procs
<1>4. ASSUME NEW g \in GroupIds  PROVE writers'[g] = Cardinality(Holders(g)')
  <2>1. Cardinality(Holders(g) \ {t})
            = IF t \in Holders(g) THEN Cardinality(Holders(g)) - 1 ELSE Cardinality(Holders(g))
    BY Zenon, HoldersFinite, FS_RemoveElement
  <2>2. t \in Holders(g) <=> hold[t] /\ bid[t] = g  BY Zenon DEF Holders
  <2>3. writers[g] = Cardinality(Holders(g))  BY Zenon, <1>0 DEF WriterCount
  <2>4. writers'[g] = IF hold[t] /\ bid[t] = g THEN writers[g] - 1 ELSE writers[g]
    <3>1. writers \in [GroupIds -> Nat]  BY Zenon, <1>0 DEF TypeOK
    <3>2. writers' = IF hold[t] THEN [writers EXCEPT ![bid[t]] = @ - 1] ELSE writers
      BY Zenon DEF Drop
    <3> QED  BY Zenon, <3>1, <3>2
  <2> QED  BY Zenon, <1>3, <2>1, <2>2, <2>3, <2>4
<1> QED  BY Zenon, <1>2, <1>4 DEF WriterCount

\* The first alloc_page of a transaction adds it to the holders of its buffer.
LEMMA AllocCounts ==
    ASSUME IInv, NEW t \in Tasks, NEW n, AllocOk(t, n)
    PROVE  WriterCount'
<1>0. TypeOK /\ WriterCount  BY Zenon DEF IInv
<1>1. bid[t] \in GroupIds
  <2>1. pc[t] = "txn"  BY Zenon DEF AllocOk
  <2> QED  BY Zenon, <2>1, ActiveTask DEF HasBuffer
<1>3. \A g \in GroupIds : Holders(g)' = IF g = bid[t] THEN Holders(g) \cup {t} ELSE Holders(g)
  BY Zenon, <1>0 DEF AllocOk, TypeOK, Holders, Procs
<1>4. ASSUME NEW g \in GroupIds  PROVE writers'[g] = Cardinality(Holders(g)')
  <2>1. Cardinality(Holders(g) \cup {t})
            = IF t \in Holders(g) THEN Cardinality(Holders(g)) ELSE Cardinality(Holders(g)) + 1
    BY Zenon, HoldersFinite, FS_AddElement
  <2>2. t \in Holders(g) <=> hold[t] /\ bid[t] = g  BY Zenon DEF Holders
  <2>3. writers[g] = Cardinality(Holders(g))  BY Zenon, <1>0 DEF WriterCount
  <2>4. writers'[g] = IF g = bid[t] /\ ~hold[t] THEN writers[g] + 1 ELSE writers[g]
    <3>1. writers \in [GroupIds -> Nat]  BY Zenon, <1>0 DEF TypeOK
    <3>2. writers' = [writers EXCEPT ![bid[t]] = IF hold[t] THEN @ ELSE @ + 1]
      BY Zenon DEF AllocOk
    <3> QED  BY Zenon, <3>1, <3>2
  <2> QED  BY Zenon, <1>3, <2>1, <2>2, <2>3, <2>4
<1> QED  BY Zenon, <1>4 DEF WriterCount

\* The initial state of BufferSet::new satisfies every part of the invariant.
LEMMA InitInv == Init => IInv
<1> USE TasksAssumption, MaxWriteBuffersAssumption, CapacityAssumption, MaxGroupAssumption
<1> SUFFICES ASSUME Init  PROVE IInv
  OBVIOUS
<1> USE DEF Init, Procs
<1>0. /\ \A t \in Tasks : pc[t] = "idle" /\ pin[t] = 0 /\ ~hold[t] /\ op[t] = TxnOp /\ ret[t] = "begin"
      /\ pc[Flusher] = "pick" /\ pin[Flusher] = 0 /\ ~hold[Flusher] /\ ret[Flusher] = "begin"
  OBVIOUS
<1>1. TypeOK
  <2>1. 1 \in GroupIds /\ 2 \in 2..(MaxGroup + 1) /\ 0 \in 0..Capacity
        /\ 0 \in 0..MaxGroup /\ 0 \in 0..(MaxGroup + 1) /\ MaxWriteBuffers - 1 + 1 \in Nat
    BY DEF GroupIds
  <2>2. pc \in [Procs -> TaskPCs \cup WaitPCs \cup FlusherPCs]
    BY Zenon DEF TaskPCs, WaitPCs, FlusherPCs
  <2> QED  BY Zenon, <2>1, <2>2 DEF TypeOK, Ops, TxnOp
<1>2. TaskInv
  BY <1>0 DEF TaskInv, TaskOK, HasBuffer, Outside, Waits, TaskPCs, WaitPCs
<1>n. WriterCount
  <2>1. \A g \in GroupIds : Holders(g) = {}  BY Zenon, <1>0 DEF Holders
  <2> QED  BY Zenon, <2>1, FS_EmptySet DEF WriterCount
<1>3. BufferInv
  <2>1. Current = 1 /\ \A g \in GroupIds : g \in Nat \ {0}  BY DEF Current, GroupIds
  <2> QED  BY <2>1 DEF BufferInv
<1>4. FlusherInv
  BY <1>0 DEF FlusherInv, ShuttingDown, FlusherPCs, WaitPCs, Current
<1>5. PermitInv
  BY <1>0 DEF PermitInv, Returned, ShuttingDown, Current
<1>6. OneInstaller
  <2>1. Current \in GroupIds  BY DEF Current, GroupIds
  <2> QED  BY Zenon, <1>0, <2>1 DEF OneInstaller, Switching, WaitPCs
<1>7. PinInv
  BY Zenon, <1>0 DEF PinInv
<1>8. StallFreeInv
  BY Zenon, <1>0 DEF StallFreeInv, StallFree, Waits, WaitPCs
<1>9. ShutdownInv
  BY Zenon, <1>0 DEF ShutdownInv
<1> QED  BY Zenon, <1>1, <1>2, <1>n, <1>3, <1>4, <1>5, <1>6, <1>7, <1>8, <1>9 DEF IInv

\* Every step of a task preserves the invariant.
LEMMA TaskStepInv ==
    ASSUME IInv, NEW t \in Tasks, TaskStep(t) \/ TaskCall(t)
    PROVE  IInv'
<1>0. /\ Drop(t) => IInv'
      /\ \A n \in 1..(Capacity + 1) : AllocOk(t, n) => IInv'
  BY Zenon, DropCounts, AllocCounts, DropStep, AllocOkStep
<1>1. CASE TaskStep(t)
  BY Zenon, <1>0, <1>1, AcquireActiveBufferStep, DropNotifyStep, FlushActiveBufferStep, SealStep,
     TryAcquireStep, InstallStep, NotifyStep, WaitFlushedStep, WaitStep, CheckStep, WakeStep
  DEF TaskStep
<1>2. CASE TaskCall(t)
  BY Zenon, <1>0, <1>2, NewGuardStep, DropGuardStep, BeginStep, FlushStep, AllocAgainStep,
     AllocTooLargeStep
  DEF TaskCall
<1> QED  BY Zenon, <1>1, <1>2

\* Every step of the flush job preserves the invariant.
LEMMA FlusherStepInv ==
    ASSUME IInv, FlusherStep
    PROVE  IInv'
BY Zenon, FS_EmptySet, PickBufferStep, PollFlushableStep, WaitFlushableStep, StopWaitingStep, FlushDuringShutdownStep,
   BuildPageFileStep, RecordVersionEditStep, ReleasePermitStep, NotifyWaitersStep,
   WaitSuccessorStep, InstallVersionStep, OnFlushedStep, WaitFStep, CheckFStep, WakeFStep
DEF FlusherStep

\* A step that changes no variable preserves the invariant.
LEMMA StutterInv ==
    ASSUME IInv, UNCHANGED vars
    PROVE  IInv'
<1> USE DEF vars, buffers, set, sync, version, local
<1>0. Current' = Current /\ (ShuttingDown' <=> ShuttingDown) /\ Returned' = Returned
  BY Zenon DEF Current, ShuttingDown, Returned
<1>1. TypeOK'  BY Zenon DEF IInv, TypeOK
<1>2. TaskInv'
  BY Zenon DEF IInv, TaskInv, TaskOK, HasBuffer, Outside, Waits, Current
<1>n. WriterCount'
  <2>1. \A g : Holders(g)' = Holders(g)  BY Zenon DEF Holders
  <2> QED  BY Zenon, <2>1 DEF IInv, WriterCount
<1>3. BufferInv'  BY Zenon, <1>0 DEF IInv, BufferInv
<1>4. FlusherInv'
  BY Zenon, <1>0 DEF IInv, FlusherInv, Flushable
<1>5. PermitInv'  BY Zenon, <1>0 DEF IInv, PermitInv, Stalled
<1>6. OneInstaller'
  <2>1. \A u : Switching(u)' <=> Switching(u)  BY Zenon DEF Switching
  <2> QED  BY Zenon, <1>0, <2>1 DEF IInv, OneInstaller
<1>7. PinInv'  BY Zenon DEF IInv, PinInv
<1>8. StallFreeInv'  BY Zenon DEF IInv, StallFreeInv, StallFree, Waits
<1>9. ShutdownInv'  BY Zenon, <1>0 DEF IInv, ShutdownInv, Empty
<1> QED  BY Zenon, <1>1, <1>2, <1>n, <1>3, <1>4, <1>5, <1>6, <1>7, <1>8, <1>9 DEF IInv

\* IInv is inductive.
LEMMA NextInv == IInv /\ [Next]_vars => IInv'
<1> SUFFICES ASSUME IInv, [Next]_vars  PROVE IInv'
  OBVIOUS
<1>1. CASE \E t \in Tasks : TaskStep(t) \/ TaskCall(t)
  BY Zenon, <1>1, TaskStepInv
<1>2. CASE FlusherStep  BY Zenon, <1>2, FlusherStepInv
<1>3. CASE ReleaseBuffer  BY Zenon, <1>3, ReleaseBufferStep
<1>4. CASE Close  BY Zenon, <1>4, CloseStep
<1>5. CASE UNCHANGED vars  BY Zenon, <1>5, StutterInv
<1> QED  BY Zenon, <1>1, <1>2, <1>3, <1>4, <1>5 DEF Next

-----------------------------------------------------------------------------
\* The inductive invariant holds in every reachable state of the write path, for
\* any number of tasks, permits, buffers and any buffer capacity.
THEOREM Inductive == Spec => []IInv
<1>1. Init => IInv  BY Zenon, InitInv
<1>2. IInv /\ [Next]_vars => IInv'  BY Zenon, NextInv
<1> QED  BY <1>1, <1>2, PTL DEF Spec

\* TypeOK holds: BufferState never counts a negative number of writers nor more
\* than the capacity, and the buffer ids of alloc, seal and flush exist.
THEOREM TypeCorrect == Spec => []TypeOK
<1>1. IInv => TypeOK  BY Zenon DEF IInv
<1> QED  BY <1>1, Inductive, PTL

\* At most one task is between seal_buffer and install_successor, for the current
\* buffer, and before close a sealed current buffer has one: OneInstaller holds.
THEOREM InstallerUnique == Spec => []OneInstaller
<1>1. IInv => OneInstaller  BY Zenon DEF IInv
<1> QED  BY <1>1, Inductive, PTL



\* The buffer lookups of page transactions, of switch_buffer and of the flush job
\* that unwrap their result always find the buffer: BuffersReachable holds.
THEOREM LookupsSucceed == Spec => []BuffersReachable
<1>1. IInv => BuffersReachable
  <2> SUFFICES ASSUME IInv  PROVE BuffersReachable
    OBVIOUS
  <2> USE TasksAssumption DEF IInv
  <2>1. ASSUME NEW t \in Tasks, pc[t] \in {"txn", "switch"} \/ hold[t]
        PROVE  pin[t] <= bid[t] /\ Exists(bid[t])
    <3>1. pin[t] <= bid[t] /\ bid[t] <= Current
      BY Zenon, <2>1 DEF TaskInv, TaskOK, HasBuffer
    <3>2. pin[t] # 0
      BY Zenon, <2>1 DEF TaskInv, TaskOK, Outside
    <3>3. start <= pin[t]
      BY Zenon, <3>2 DEF PinInv, Procs
    <3>4. start \in Nat /\ pin[t] \in Nat /\ bid[t] \in Nat /\ Current \in Nat /\ next = Current + 1
      BY Zenon, TypeFacts DEF Procs
    <3>5. start <= bid[t]  BY Zenon, <3>1, <3>3, <3>4, Transitive
    <3>6. bid[t] < next  BY Zenon, <3>1, <3>4, Successor
    <3> QED  BY Zenon, <3>1, <3>5, <3>6 DEF Exists
  <2>2. pc[Flusher] \in {"pick", "poll"} => Exists(first)
    <3>1. pc[Flusher] \in {"pick", "poll"} => first <= Current /\ start <= first
      BY Zenon DEF FlusherInv, ShuttingDown
    <3> QED  BY Zenon, <3>1, OrderFacts DEF Exists
  <2>3. pc[Flusher] = "shutdown" /\ bid[Flusher] < next => Exists(bid[Flusher])
    BY Zenon, TypeFacts DEF FlusherInv, Exists
  <2> QED  BY Zenon, <2>1, <2>2, <2>3 DEF BuffersReachable
<1> QED  BY <1>1, Inductive, PTL

\* build_page_file reads only buffers that are sealed and have no writer, and such
\* a buffer never gets a writer again: FlushExcludesWriters holds.
THEOREM FlushReadsComplete == Spec => []FlushExcludesWriters
<1>1. IInv => FlushExcludesWriters
  <2> SUFFICES ASSUME IInv, NEW g \in GroupIds,
                      g <= saved \/ (pc[Flusher] \in {"build", "save"} /\ g = bid[Flusher])
               PROVE  sealed[g] /\ Holders(g) = {}
    BY Zenon DEF FlushExcludesWriters
  <2>1. sealed[g] /\ writers[g] = 0
    BY Zenon DEF IInv, BufferInv, FlusherInv, Flushable
  <2>2. Cardinality(Holders(g)) = 0
    BY Zenon, <2>1 DEF IInv, WriterCount
  <2> QED  BY Zenon, <2>1, <2>2, HoldersFinite, FS_EmptySet
<1> QED  BY <1>1, Inductive, PTL

\* At most max_write_buffers buffers are in memory and not in the manifest.
THEOREM MemoryBounded == Spec => []UnflushedBounded
<1>1. IInv => UnflushedBounded  BY Zenon DEF IInv, PermitInv, UnflushedBounded
<1> QED  BY <1>1, Inductive, PTL

\* switch_buffer_without_stalling finds a permit when it has sealed the buffer:
\* FlushDoesNotStall holds.
THEOREM NoStallingFlush == Spec => []FlushDoesNotStall
<1>1. IInv => FlushDoesNotStall
  BY Zenon DEF IInv, StallFreeInv, StallFree, FlushDoesNotStall, Switching, Waits
<1> QED  BY <1>1, Inductive, PTL

\* flush_during_shutdown leaves no record out of the manifest: CloseFlushesAll.
THEOREM CloseIsComplete == Spec => []CloseFlushesAll
<1>1. IInv => CloseFlushesAll
  <2> SUFFICES ASSUME IInv, pc[Flusher] = "done", ~AvoidFlushDuringShutdown,
                      NEW g \in 1..Current, ~Empty(g)
               PROVE  g <= saved
    BY Zenon DEF CloseFlushesAll
  <2>1. saved = Current \/ (saved = Current - 1 /\ Empty(Current))
    BY Zenon DEF IInv, ShutdownInv
  <2>2. Current \in Nat /\ saved \in Nat  BY Zenon, TypeFacts DEF IInv
  <2> QED  BY <2>1, <2>2
<1> QED  BY <1>1, Inductive, PTL

\* A flush that waited returns with its buffer and all earlier ones in the
\* manifest: FlushIsDurable holds of every step.
THEOREM WaitedFlushDurable == Spec => FlushIsDurable
<1> DEFINE Durable == \A t \in Tasks : pc[t] = "waitFlushed" /\ pc'[t] # "waitFlushed"
                          => \A g \in 1..bid[t] : g <= saved /\ sealed[g]
<1>1. IInv /\ [Next]_vars => [Durable]_vars
  <2> SUFFICES ASSUME IInv, Next, NEW t \in Tasks,
                      pc[t] = "waitFlushed", pc'[t] # "waitFlushed",
                      NEW g \in 1..bid[t]
               PROVE  g <= saved /\ sealed[g]
    OBVIOUS
  <2> USE TasksAssumption, MaxGroupAssumption
  <2>1. WaitFlushed(t)
    <3> USE DEF Procs, Goto, Return, local
    <3>0. pc \in [Procs -> TaskPCs \cup WaitPCs \cup FlusherPCs]
      BY Zenon DEF IInv, TypeOK
    <3>1. ASSUME NEW u \in Tasks, u # t, TaskStep(u)  PROVE pc'[t] = pc[t]
      BY Zenon, <3>0, <3>1
      DEF TaskStep, AcquireActiveBuffer, Drop, DropNotify, FlushActiveBuffer, Seal,
         TryAcquire, Install, Notify, WaitFlushed, Wait, Check, Wake
    <3>2. ASSUME NEW u \in Tasks, u # t, TaskCall(u)  PROVE pc'[t] = pc[t]
      BY Zenon, <3>0, <3>2
      DEF TaskCall, NewGuard, DropGuard, Begin, Flush, AllocOk, AllocAgain,
         AllocTooLarge
    <3>3. ASSUME FlusherStep  PROVE pc'[t] = pc[t]
      BY Zenon, <3>0, <3>3
      DEF FlusherStep, PickBuffer, PollFlushable, WaitFlushable, StopWaiting,
         FlushDuringShutdown, BuildPageFile, RecordVersionEdit, ReleasePermit, NotifyWaiters,
         WaitSuccessor, InstallVersion, OnFlushed, Wait, Check, Wake
    <3>4. ASSUME ReleaseBuffer \/ Close  PROVE pc' = pc
      BY Zenon, <3>4 DEF ReleaseBuffer, Close
    <3>5. ~TaskCall(t)
      BY Zenon
      DEF TaskCall, NewGuard, DropGuard, Begin, Flush, AllocOk, AllocAgain, AllocTooLarge
    <3>6. TaskStep(t) => WaitFlushed(t)
      BY Zenon DEF TaskStep, AcquireActiveBuffer, Drop, DropNotify, FlushActiveBuffer, Seal,
         TryAcquire, Install, Notify, Wait, Check, Wake
    <3> QED  BY Zenon, <3>1, <3>2, <3>3, <3>4, <3>5, <3>6 DEF Next
  <2>2. bid[t] \in GroupIds
    BY Zenon, ActiveTask DEF HasBuffer
  <2>3. bid[t] <= saved
    BY Zenon, <2>1, <2>2 DEF WaitFlushed, IInv, BufferInv
  <2>4. g \in GroupIds /\ g <= saved
    <3>1. saved \in Nat  BY Zenon, TypeFacts DEF IInv
    <3> QED  BY <2>2, <2>3, <3>1 DEF GroupIds
  <2> QED  BY Zenon, <2>4 DEF IInv, BufferInv
<1>2. Spec => [][Next]_vars  BY Zenon DEF Spec
<1> QED  BY <1>1, <1>2, Inductive, PTL DEF FlushIsDurable
=============================================================================
