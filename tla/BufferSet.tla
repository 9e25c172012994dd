----------------------------- MODULE BufferSet -----------------------------
(***************************************************************************)
(* The write path of the page store: the write buffers and their packed    *)
(* state words (write_buffer.rs), the set that holds them and the permits  *)
(* that bound their number (buffer_set.rs), the page transactions that     *)
(* write into them (page_txn.rs), manual flushes, the flush job            *)
(* (jobs/flush.rs) and the release of flushed buffers by the cleanup job   *)
(* (jobs/cleanup.rs, version.rs).                                          *)
(*                                                                         *)
(* Every atomic instruction on shared state is one step.  A compare and    *)
(* exchange loop is one step: a failed exchange changes nothing.  Buffers  *)
(* are named by their group id; buffer g of the set is described by        *)
(* sealed[g], writers[g], used[g] and flushed[g].                          *)
(***************************************************************************)
EXTENDS Naturals, FiniteSets

CONSTANTS
    Tasks,            \* user tasks: page transactions and manual flushes
    Flusher,          \* the flush job
    MaxWriteBuffers,  \* Options::max_write_buffers
    Capacity,         \* Options::write_buffer_capacity, in allocation units
    FlushOps,         \* the FlushOptions that callers of flush use
    AvoidFlushDuringShutdown,  \* Options::avoid_flush_during_shutdown
    MaxGroup          \* bound: the buffer of this id is never written

\* FlushOptions.
Ops == [wait: BOOLEAN, allowStall: BOOLEAN]

ASSUME TasksAssumption == IsFiniteSet(Tasks) /\ Flusher \notin Tasks
ASSUME MaxWriteBuffersAssumption == MaxWriteBuffers \in Nat \ {0}
ASSUME CapacityAssumption == Capacity \in Nat \ {0}
ASSUME FlushOpsAssumption == FlushOps \subseteq Ops
ASSUME AvoidFlushAssumption == AvoidFlushDuringShutdown \in BOOLEAN
ASSUME MaxGroupAssumption == MaxGroup \in Nat \ {0}

VARIABLES
    \* Write buffers, by group id.
    sealed,    \* BufferState::sealed
    writers,   \* BufferState::num_writer
    used,      \* BufferState::allocated
    flushed,   \* WriteBuffer::flush_latch has been counted down
    \* The buffer set.
    start,     \* buffers_range.start
    next,      \* buffers_range.end
    permits,   \* WriteBufferPermits::permits
    armed,     \* tasks with a pending Notified of WriteBufferPermits::notify
    token,     \* flush_notify holds its single permit
    \* The current version and the manifest.
    first,     \* first_buffer_id of the current Version
    saved,     \* last group whose version edit is in the manifest
    closing,   \* shutdown has been requested
    \* Control state of the tasks and of the flush job.
    pc,
    pin,       \* first_buffer_id of the Version the task holds, 0 if none
    bid,       \* PageTxn::buffer_id, or the buffer being switched or flushed
    hold,      \* PageTxn::hold_write_guard
    rs,        \* the release state seal() returned is Flush
    op,        \* FlushOptions of a flush; the flush job's wait_new_buffer
    ret        \* where a wait on the permits continues

buffers == <<sealed, writers, used, flushed>>
set == <<start, next>>
sync == <<permits, armed, token>>
version == <<first, saved, closing>>
local == <<pin, bid, hold, rs, op, ret>>
vars == <<buffers, set, sync, version, pc, local>>

Procs == Tasks \cup {Flusher}
GroupIds == 1..MaxGroup

\* A page transaction waits for no flush and may stall.
TxnOp == [wait |-> FALSE, allowStall |-> TRUE]

TaskPCs == {"idle", "guard", "begin", "txn", "drop", "dropNotify", "flushCall",
            "switch", "acquire", "install", "notify", "waitFlushed"}
WaitPCs == {"wait", "check", "asleep"}
FlusherPCs == {"pick", "poll", "await", "build", "save", "release", "wake",
               "spin", "installVersion", "latch", "shutdown", "done"}

TypeOK ==
    /\ sealed \in [GroupIds -> BOOLEAN]
    /\ writers \in [GroupIds -> Nat]
    /\ used \in [GroupIds -> 0..Capacity]
    /\ flushed \in [GroupIds -> BOOLEAN]
    /\ start \in GroupIds
    /\ next \in 2..(MaxGroup + 1)
    /\ permits \in Nat
    /\ armed \in SUBSET Procs
    /\ token \in BOOLEAN
    /\ first \in GroupIds
    /\ saved \in 0..MaxGroup
    /\ closing \in BOOLEAN
    /\ pc \in [Procs -> TaskPCs \cup WaitPCs \cup FlusherPCs]
    /\ pin \in [Procs -> 0..MaxGroup]
    /\ bid \in [Procs -> 0..(MaxGroup + 1)]
    /\ hold \in [Procs -> BOOLEAN]
    /\ rs \in [Procs -> BOOLEAN]
    /\ op \in [Procs -> Ops]
    /\ ret \in [Procs -> {"begin", "switch", "install", "spin"}]

Init ==
    /\ sealed = [g \in GroupIds |-> FALSE]
    /\ writers = [g \in GroupIds |-> 0]
    /\ used = [g \in GroupIds |-> 0]
    /\ flushed = [g \in GroupIds |-> FALSE]
    /\ start = 1
    /\ next = 2
    /\ permits = (MaxWriteBuffers - 1) + 1
    /\ armed = {}
    /\ token = FALSE
    /\ first = 1
    /\ saved = 0
    /\ closing = FALSE
    /\ pc = [p \in Procs |-> IF p = Flusher THEN "pick" ELSE "idle"]
    /\ pin = [p \in Procs |-> 0]
    /\ bid = [p \in Procs |-> 0]
    /\ hold = [p \in Procs |-> FALSE]
    /\ rs = [p \in Procs |-> FALSE]
    /\ op = [p \in Procs |-> TxnOp]
    /\ ret = [p \in Procs |-> "begin"]

Goto(p, l) == pc' = [pc EXCEPT ![p] = l]

\* Mutant of Flushable: has_writer() is not tested.
FlushableWithWriters(g) == sealed[g]

\* BufferSet::current().current_buffer, BufferSetVersion::get and the
\* predicates of BufferState.
Current == next - 1
Exists(g) == start <= g /\ g < next
Flushable(g) == sealed[g] /\ writers[g] = 0
Empty(g) == used[g] = 0

-----------------------------------------------------------------------------
(* WriteBufferPermits.  permits = 0 says that a task waits for a permit,   *)
(* permits = n + 1 that n permits are available and nobody waits.          *)

\* Mutant of Enough: HasPermits compares with 0.
EnoughForAnyone(p) == permits > IF ret[p] = "install" THEN 1 ELSE 0

\* The condition of WaitKind::NoWaiter (a wait that returns to "begin" or
\* "spin"), of WaitKind::HasPermits ("switch") and of acquire_fast ("install").
Enough(p) == permits > IF ret[p] \in {"begin", "spin"} THEN 0 ELSE 1

\* acquire_fast(AddWaiter) takes a permit, or 1 -> 0 to record the waiter; the
\* other waits only look.
Attempt(p) ==
    permits' = IF ret[p] = "install" /\ permits > 0 THEN permits - 1 ELSE permits

Return(p) == Goto(p, ret[p]) /\ ret' = [ret EXCEPT ![p] = "begin"]

\* wait() and acquire(): a first attempt; if it fails, wait_cond creates and
\* enables a Notified before it looks again.
Wait(p) ==
    /\ pc[p] = "wait"
    /\ Attempt(p)
    /\ IF Enough(p)
       THEN Return(p) /\ UNCHANGED armed
       ELSE Goto(p, "check") /\ armed' = armed \cup {p} /\ UNCHANGED ret
    /\ UNCHANGED <<buffers, set, token, version, pin, bid, hold, rs, op>>

\* The loop body of wait_cond: evaluate the condition with the Notified
\* enabled, then await it.
Check(p) ==
    /\ pc[p] = "check"
    /\ Attempt(p)
    /\ IF Enough(p)
       THEN Return(p) /\ armed' = armed \ {p}
       ELSE Goto(p, "asleep") /\ UNCHANGED <<armed, ret>>
    /\ UNCHANGED <<buffers, set, token, version, pin, bid, hold, rs, op>>

\* The awaited Notified completes once notify_waiters() has seen it; wait_cond
\* replaces it by a new one.
Wake(p) ==
    /\ pc[p] = "asleep"
    /\ p \notin armed
    /\ armed' = armed \cup {p}
    /\ Goto(p, "check")
    /\ UNCHANGED <<buffers, set, permits, token, version, local>>

-----------------------------------------------------------------------------
(* Guards and page transactions.                                           *)

\* PageStore::guard: pin the current version.
NewGuard(t) ==
    /\ pc[t] = "idle"
    /\ ~closing
    /\ pin' = [pin EXCEPT ![t] = first]
    /\ Goto(t, "guard")
    /\ UNCHANGED <<buffers, set, sync, version, bid, hold, rs, op, ret>>

DropGuard(t) ==
    /\ pc[t] = "guard"
    /\ pin' = [pin EXCEPT ![t] = 0]
    /\ Goto(t, "idle")
    /\ UNCHANGED <<buffers, set, sync, version, bid, hold, rs, op, ret>>

\* Guard::begin: find an active buffer.
Begin(t) ==
    /\ pc[t] = "guard"
    /\ Goto(t, "begin")
    /\ UNCHANGED <<buffers, set, sync, version, local>>

\* acquire_active_buffer_id: take the current buffer unless it is sealed; wait
\* for its successor otherwise.
AcquireActiveBuffer(t) ==
    /\ pc[t] = "begin"
    /\ IF sealed[Current]
       THEN /\ ret' = [ret EXCEPT ![t] = "begin"]
            /\ Goto(t, "wait")
            /\ UNCHANGED bid
       ELSE /\ bid' = [bid EXCEPT ![t] = Current]
            /\ Goto(t, "txn")
            /\ UNCHANGED ret
    /\ UNCHANGED <<buffers, set, sync, version, pin, hold, rs, op>>

\* alloc_page and dealloc_pages inside with_write_guard: a record of n units.
\* The first one makes the transaction a writer of its buffer.
AllocOk(t, n) ==
    /\ pc[t] = "txn"
    /\ bid[t] < MaxGroup
    /\ ~sealed[bid[t]]
    /\ used[bid[t]] + n <= Capacity
    /\ used' = [used EXCEPT ![bid[t]] = @ + n]
    /\ writers' = [writers EXCEPT ![bid[t]] = IF hold[t] THEN @ ELSE @ + 1]
    /\ hold' = [hold EXCEPT ![t] = TRUE]
    /\ UNCHANGED <<sealed, flushed, set, sync, version, pc, pin, bid, rs, op, ret>>

\* Error::Again: the buffer is sealed or the record does not fit; the
\* transaction switches the buffer and then fails.
AllocAgain(t, n) ==
    /\ pc[t] = "txn"
    /\ bid[t] < MaxGroup
    /\ sealed[bid[t]] \/ (n <= Capacity /\ used[bid[t]] + n > Capacity)
    /\ Goto(t, "switch")
    /\ UNCHANGED <<buffers, set, sync, version, local>>

\* Error::TooLargeSize fails the transaction.
AllocTooLarge(t, n) ==
    /\ pc[t] = "txn"
    /\ bid[t] < MaxGroup
    /\ ~sealed[bid[t]] /\ n > Capacity
    /\ Goto(t, "drop")
    /\ UNCHANGED <<buffers, set, sync, version, local>>

\* PageTxn::commit and drop: release_writer if the transaction is a writer.
\* The end of a flush call passes here too; it holds no buffer.
Drop(t) ==
    /\ pc[t] \in {"txn", "drop"}
    /\ IF hold[t]
       THEN /\ writers' = [writers EXCEPT ![bid[t]] = @ - 1]
            /\ Goto(t, IF sealed[bid[t]] /\ writers[bid[t]] = 1
                       THEN "dropNotify" ELSE "guard")
       ELSE UNCHANGED writers /\ Goto(t, "guard")
    /\ hold' = [hold EXCEPT ![t] = FALSE]
    /\ bid' = [bid EXCEPT ![t] = 0]
    /\ op' = [op EXCEPT ![t] = TxnOp]
    /\ UNCHANGED <<sealed, used, flushed, set, sync, version, pin, rs, ret>>

\* Mutant of DropNotify: the last writer forgets to notify.
DropWithoutNotify(t) ==
    /\ pc[t] = "dropNotify"
    /\ Goto(t, "guard")
    /\ UNCHANGED <<buffers, set, sync, version, local>>

\* drop_writer_guard: notify_flush_job after the last release of a sealed buffer.
DropNotify(t) ==
    /\ pc[t] = "dropNotify"
    /\ token' = TRUE
    /\ Goto(t, "guard")
    /\ UNCHANGED <<buffers, set, permits, armed, version, local>>

-----------------------------------------------------------------------------
(* Manual flush and the switch to a new buffer.                            *)

\* PageStore::flush.  Its caller holds a version for as long as it runs.
Flush(t) ==
    /\ pc[t] = "guard"
    /\ \E o \in FlushOps : op' = [op EXCEPT ![t] = o]
    /\ Goto(t, "flushCall")
    /\ UNCHANGED <<buffers, set, sync, version, pin, bid, hold, rs, ret>>

\* flush_active_buffer: nothing to do for an empty buffer; otherwise switch it,
\* after waiting for a permit if the flush must not stall writes.
FlushActiveBuffer(t) ==
    /\ pc[t] = "flushCall"
    /\ IF Empty(Current)
       THEN Goto(t, "drop") /\ UNCHANGED <<bid, ret>>
       ELSE /\ bid' = [bid EXCEPT ![t] = Current]
            /\ IF op[t].allowStall
               THEN Goto(t, "switch") /\ UNCHANGED ret
               ELSE Goto(t, "wait") /\ ret' = [ret EXCEPT ![t] = "switch"]
    /\ UNCHANGED <<buffers, set, sync, version, pin, hold, rs, op>>

\* What follows switch_buffer: a transaction fails, a flush may wait.
AfterSwitch(t) == IF op[t].wait THEN "waitFlushed" ELSE "drop"

\* Mutant of Seal: a task that finds the buffer sealed installs a successor too.
SealTwice(t) ==
    /\ pc[t] = "switch"
    /\ sealed' = [sealed EXCEPT ![bid[t]] = TRUE]
    /\ rs' = [rs EXCEPT ![t] = writers[bid[t]] = 0]
    /\ Goto(t, "acquire")
    /\ UNCHANGED <<writers, used, flushed, set, sync, version, pin, bid, hold, op, ret>>

\* seal_buffer: only the task that seals the buffer goes on to its successor.
Seal(t) ==
    /\ pc[t] = "switch"
    /\ IF sealed[bid[t]]
       THEN Goto(t, AfterSwitch(t)) /\ UNCHANGED <<sealed, rs>>
       ELSE /\ sealed' = [sealed EXCEPT ![bid[t]] = TRUE]
            /\ rs' = [rs EXCEPT ![t] = writers[bid[t]] = 0]
            /\ Goto(t, "acquire")
    /\ UNCHANGED <<writers, used, flushed, set, sync, version, pin, bid, hold, op, ret>>

\* Mutant of TryAcquire: it takes the unit that records the absence of a waiter.
TryAcquireOffByOne(t) ==
    /\ pc[t] = "acquire"
    /\ permits > 0
    /\ permits' = permits - 1
    /\ Goto(t, "install")
    /\ UNCHANGED <<buffers, set, armed, token, version, local>>

\* install_successor: try_acquire a permit, or stall.
TryAcquire(t) ==
    /\ pc[t] = "acquire"
    /\ IF permits > 1
       THEN /\ permits' = permits - 1
            /\ Goto(t, "install")
            /\ UNCHANGED ret
       ELSE /\ ret' = [ret EXCEPT ![t] = "install"]
            /\ Goto(t, "wait")
            /\ UNCHANGED permits
    /\ UNCHANGED <<buffers, set, armed, token, version, pin, bid, hold, rs, op>>

\* BufferSet::install the buffer bid + 1.
Install(t) ==
    /\ pc[t] = "install"
    /\ next' = bid[t] + 2
    /\ Goto(t, IF rs[t] THEN "notify" ELSE AfterSwitch(t))
    /\ rs' = [rs EXCEPT ![t] = FALSE]
    /\ UNCHANGED <<buffers, start, sync, version, pin, bid, hold, op, ret>>

\* switch_buffer: notify_flush_job if the sealed buffer had no writer.
Notify(t) ==
    /\ pc[t] = "notify"
    /\ token' = TRUE
    /\ Goto(t, AfterSwitch(t))
    /\ UNCHANGED <<buffers, set, permits, armed, version, local>>

\* Mutant of WaitFlushed: it waits for the buffer to be flushable only.
WaitSealedOnly(t) ==
    /\ pc[t] = "waitFlushed"
    /\ Flushable(bid[t])
    /\ Goto(t, "drop")
    /\ UNCHANGED <<buffers, set, sync, version, local>>

\* WriteBuffer::wait_flushed.
WaitFlushed(t) ==
    /\ pc[t] = "waitFlushed"
    /\ flushed[bid[t]]
    /\ Goto(t, "drop")
    /\ UNCHANGED <<buffers, set, sync, version, local>>

-----------------------------------------------------------------------------
(* The flush job, the cleanup job and shutdown.                            *)

\* FlushCtx::run: take the current version and its first buffer.
PickBuffer ==
    /\ pc[Flusher] = "pick"
    /\ pin' = [pin EXCEPT ![Flusher] = first]
    /\ bid' = [bid EXCEPT ![Flusher] = first]
    /\ op' = [op EXCEPT ![Flusher] = [wait |-> TRUE, allowStall |-> TRUE]]
    /\ Goto(Flusher, "poll")
    /\ UNCHANGED <<buffers, set, sync, version, hold, rs, ret>>

PollFlushable ==
    /\ pc[Flusher] = "poll"
    /\ Goto(Flusher, IF Flushable(bid[Flusher]) THEN "build" ELSE "await")
    /\ UNCHANGED <<buffers, set, sync, version, local>>

\* wait_flushable consumes the permit of flush_notify.
WaitFlushable ==
    /\ pc[Flusher] = "await"
    /\ token
    /\ token' = FALSE
    /\ Goto(Flusher, "poll")
    /\ UNCHANGED <<buffers, set, permits, armed, version, local>>

\* Mutant of StopWaiting: shutdown flushes wait for a new buffer as run() does.
StopAndWaitForBuffers ==
    /\ pc[Flusher] = "await"
    /\ closing
    /\ ~token
    /\ pin' = [pin EXCEPT ![Flusher] = 0]
    /\ bid' = [bid EXCEPT ![Flusher] = first]
    /\ Goto(Flusher, IF AvoidFlushDuringShutdown THEN "done" ELSE "shutdown")
    /\ UNCHANGED <<buffers, set, sync, version, hold, rs, op, ret>>

\* with_shutdown gives up the wait; the job drops its version and goes on to
\* flush_during_shutdown.
StopWaiting ==
    /\ pc[Flusher] = "await"
    /\ closing
    /\ ~token
    /\ pin' = [pin EXCEPT ![Flusher] = 0]
    /\ bid' = [bid EXCEPT ![Flusher] = first]
    /\ op' = [op EXCEPT ![Flusher].wait = FALSE]
    /\ Goto(Flusher, IF AvoidFlushDuringShutdown THEN "done" ELSE "shutdown")
    /\ UNCHANGED <<buffers, set, sync, version, hold, rs, ret>>

\* Mutant of FlushDuringShutdown: it stops at the first unsealed buffer.
FlushSealedDuringShutdown ==
    /\ pc[Flusher] = "shutdown"
    /\ Goto(Flusher, IF bid[Flusher] >= next \/ ~sealed[bid[Flusher]]
                     THEN "done" ELSE "build")
    /\ UNCHANGED <<buffers, set, sync, version, local>>

\* One round of flush_during_shutdown: an empty active buffer ends it, any other
\* buffer is sealed and flushed.
FlushDuringShutdown ==
    /\ pc[Flusher] = "shutdown"
    /\ IF bid[Flusher] >= next \/ (~sealed[bid[Flusher]] /\ Empty(bid[Flusher]))
       THEN Goto(Flusher, "done") /\ UNCHANGED sealed
       ELSE Goto(Flusher, "build") /\ sealed' = [sealed EXCEPT ![bid[Flusher]] = TRUE]
    /\ UNCHANGED <<writers, used, flushed, set, sync, version, local>>

\* build_page_file: every record of the buffer goes to a new page file.
BuildPageFile ==
    /\ pc[Flusher] = "build"
    /\ Goto(Flusher, "save")
    /\ UNCHANGED <<buffers, set, sync, version, local>>

\* save_and_install_version: the version edit reaches the manifest; only
\* run() then waits for a new buffer.
RecordVersionEdit ==
    /\ pc[Flusher] = "save"
    /\ saved' = bid[Flusher]
    /\ Goto(Flusher, IF op[Flusher].wait THEN "release" ELSE "installVersion")
    /\ UNCHANGED <<buffers, set, sync, first, closing, local>>

\* Mutant of ReleasePermit: the waiter's permit is not added to the new one.
ReleaseOneUnit ==
    /\ pc[Flusher] = "release"
    /\ permits' = permits + 1
    /\ ret' = [ret EXCEPT ![Flusher] = "spin"]
    /\ Goto(Flusher, IF permits = 0 THEN "wake" ELSE "wait")
    /\ UNCHANGED <<buffers, set, armed, token, version, pin, bid, hold, rs, op>>

\* release_permit_and_wait: WriteBufferPermits::release, then NoWaiter.
ReleasePermit ==
    /\ pc[Flusher] = "release"
    /\ permits' = IF permits = 0 THEN 2 ELSE permits + 1
    /\ ret' = [ret EXCEPT ![Flusher] = "spin"]
    /\ Goto(Flusher, IF permits = 0 THEN "wake" ELSE "wait")
    /\ UNCHANGED <<buffers, set, armed, token, version, pin, bid, hold, rs, op>>

\* Mutant of NotifyWaiters: notify_one instead, which wakes one task.
NotifyOneWaiter ==
    /\ pc[Flusher] = "wake"
    /\ \E p \in armed : armed' = armed \ {p}
    /\ Goto(Flusher, "wait")
    /\ UNCHANGED <<buffers, set, permits, token, version, local>>

\* Notify::notify_waiters wakes everybody who waits now.
NotifyWaiters ==
    /\ pc[Flusher] = "wake"
    /\ armed' = {}
    /\ Goto(Flusher, "wait")
    /\ UNCHANGED <<buffers, set, permits, token, version, local>>

\* The loop at the end of release_permit_and_wait: until the successor exists.
WaitSuccessor ==
    /\ pc[Flusher] = "spin"
    /\ Current > bid[Flusher]
    /\ Goto(Flusher, "installVersion")
    /\ UNCHANGED <<buffers, set, sync, version, local>>

\* VersionOwner::install with VersionUpdateReason::Flush.
InstallVersion ==
    /\ pc[Flusher] = "installVersion"
    /\ first' = first + 1
    /\ Goto(Flusher, "latch")
    /\ UNCHANGED <<buffers, set, sync, saved, closing, local>>

\* WriteBuffer::on_flushed, and the next round of the job.
OnFlushed ==
    /\ pc[Flusher] = "latch"
    /\ flushed' = [flushed EXCEPT ![bid[Flusher]] = TRUE]
    /\ pin' = [pin EXCEPT ![Flusher] = 0]
    /\ bid' = [bid EXCEPT ![Flusher] = @ + 1]
    /\ Goto(Flusher, IF op[Flusher].wait THEN "pick" ELSE "shutdown")
    /\ UNCHANGED <<sealed, writers, used, set, sync, version, hold, rs, op, ret>>

\* Mutant of ReleaseBuffer: the cleanup job does not wait for guards.
ReleaseHeldBuffer ==
    /\ start < first
    /\ start' = start + 1
    /\ UNCHANGED <<buffers, next, sync, version, pc, local>>

\* CleanupCtx::run: when the version that starts at `start' has a successor and
\* nobody holds it or an earlier one, release_previous_buffers drops its buffer.
ReleaseBuffer ==
    /\ start < first
    /\ \A p \in Procs : pin[p] # 0 => start < pin[p]
    /\ start' = start + 1
    /\ UNCHANGED <<buffers, next, sync, version, pc, local>>

\* PageStore::close consumes the store: no task uses it any more.  It waits for
\* the jobs; when the flush job is "done" nothing is left to happen.
Close ==
    /\ ~closing
    /\ \A t \in Tasks : pc[t] = "idle"
    /\ closing' = TRUE
    /\ UNCHANGED <<buffers, set, sync, first, saved, pc, local>>

-----------------------------------------------------------------------------
\* The steps a task takes by itself once it has called an operation.
TaskStep(t) ==
    \/ AcquireActiveBuffer(t) \/ Drop(t) \/ DropNotify(t)
    \/ FlushActiveBuffer(t) \/ Seal(t) \/ TryAcquire(t) \/ Install(t)
    \/ Notify(t) \/ WaitFlushed(t)
    \/ Wait(t) \/ Check(t) \/ Wake(t)

\* The choices of the caller.
TaskCall(t) ==
    \/ NewGuard(t) \/ DropGuard(t) \/ Begin(t) \/ Flush(t)
    \/ \E n \in 1..(Capacity + 1) :
          AllocOk(t, n) \/ AllocAgain(t, n) \/ AllocTooLarge(t, n)

FlusherStep ==
    \/ PickBuffer \/ PollFlushable \/ WaitFlushable \/ StopWaiting
    \/ FlushDuringShutdown \/ BuildPageFile \/ RecordVersionEdit
    \/ ReleasePermit \/ NotifyWaiters \/ WaitSuccessor \/ InstallVersion \/ OnFlushed
    \/ Wait(Flusher) \/ Check(Flusher) \/ Wake(Flusher)

Next ==
    \/ \E t \in Tasks : TaskStep(t) \/ TaskCall(t)
    \/ FlusherStep
    \/ ReleaseBuffer
    \/ Close

Spec == Init /\ [][Next]_vars

\* The executor polls every task that can run: an operation in progress and the
\* flush job go on.  What the callers start is up to them, and nothing needs the
\* cleanup job, which may stop at a shutdown.
Fairness ==
    /\ \A t \in Tasks : WF_vars(TaskStep(t))
    /\ WF_vars(FlusherStep)

FairSpec == Spec /\ Fairness

-----------------------------------------------------------------------------
(* Safety.                                                                 *)

\* The transactions that are writers of buffer g.
Holders(g) == {t \in Tasks : hold[t] /\ bid[t] = g}

\* Task t has sealed its buffer and owes its successor.
Switching(t) ==
    \/ pc[t] \in {"acquire", "install"}
    \/ pc[t] \in WaitPCs /\ ret[t] = "install"

\* "Only the routine that seals the previous WriteBuffer can install the new
\* WriteBuffer": at most one task is between seal and install, its buffer is the
\* current one, and a sealed current buffer always has such a task, so neither
\* the panic of install nor an unowned sealed buffer occurs.
OneInstaller ==
    /\ \A t, u \in Tasks : Switching(t) /\ Switching(u) => t = u
    /\ \A t \in Tasks : Switching(t) => bid[t] = Current /\ sealed[Current]
    /\ sealed[Current] /\ ~closing => \E t \in Tasks : Switching(t)

\* The buffer of a transaction, of a pending seal and of the flush job is in the
\* buffer set whenever the code expects it: with_write_guard, drop_writer_guard,
\* seal_buffer, min_write_buffer and flush_during_shutdown never panic.
BuffersReachable ==
    /\ \A t \in Tasks : pc[t] \in {"txn", "switch"} \/ hold[t] =>
          pin[t] <= bid[t] /\ Exists(bid[t])
    /\ pc[Flusher] \in {"pick", "poll"} => Exists(first)
    /\ pc[Flusher] = "shutdown" /\ bid[Flusher] < next => Exists(bid[Flusher])

\* From the moment the flush job reads a buffer no transaction is a writer of it
\* and none ever will be: what is built into the page file is complete.
FlushExcludesWriters ==
    \A g \in GroupIds :
        (g <= saved \/ (pc[Flusher] \in {"build", "save"} /\ g = bid[Flusher]))
            => sealed[g] /\ Holders(g) = {}

\* The permits bound the buffers in memory that are not yet in the manifest.
UnflushedBounded == Current <= saved + MaxWriteBuffers

\* "Like switch_buffer but no write stalling will occurs": a flush that must not
\* stall writes never waits for a permit with its buffer sealed.
FlushDoesNotStall ==
    \A t \in Tasks : Switching(t) /\ ~op[t].allowStall => pc[t] \in {"acquire", "install"}

\* A flush that waits returns from wait_flushed only when the buffer it flushed
\* and every earlier one are in the manifest.
FlushIsDurable ==
    [][\A t \in Tasks : pc[t] = "waitFlushed" /\ pc'[t] # "waitFlushed"
          => \A g \in 1..bid[t] : g <= saved /\ sealed[g]]_vars

\* "PhotonDB will flush all write buffers on DB close": when the flush job ends
\* every buffer that holds a record is in the manifest.
CloseFlushesAll ==
    pc[Flusher] = "done" /\ ~AvoidFlushDuringShutdown
        => \A g \in 1..Current : ~Empty(g) => g <= saved

\* "Flush all write buffer data": when a flush that waits returns, every buffer
\* that held a record when it looked at the buffers is in the manifest.
FlushCoversAllData ==
    [][\A t \in Tasks : op[t].wait /\ pc[t] = "flushCall" /\ pc'[t] = "drop"
          => \A g \in 1..Current : ~Empty(g) => g <= saved]_vars

-----------------------------------------------------------------------------
(* Liveness.                                                               *)

\* Every sealed buffer is flushed: no notification of the flush job is lost.
SealedIsFlushed == \A g \in GroupIds : sealed[g] ~> flushed[g]

\* A stalled switch gets its permit and installs the successor.
StallEnds == \A t \in Tasks : Switching(t) ~> ~Switching(t)

\* A transaction that waits for an active buffer is woken.
BeginWakes ==
    \A t \in Tasks : (pc[t] = "asleep" /\ ret[t] = "begin") ~> pc[t] # "asleep"

\* close() returns: the flush job ends after a shutdown request.
CloseCompletes == closing ~> pc[Flusher] = "done"

\* "Release the acquired permit and wake waiters if any": a flush that waits for
\* a permit is woken when there is one.
PermitWakesFlush ==
    \A t \in Tasks : (pc[t] = "asleep" /\ ret[t] = "switch" /\ permits > 1)
                         ~> pc[t] # "asleep"

-----------------------------------------------------------------------------
(* The inductive invariant behind the safety properties.                   *)

Waits(p, l) == pc[p] \in WaitPCs /\ ret[p] = l

\* Task t works on buffer bid[t].
HasBuffer(t) ==
    \/ pc[t] \in {"txn", "switch", "acquire", "install", "notify", "waitFlushed"}
    \/ Waits(t, "switch") \/ Waits(t, "install")
    \/ hold[t]

\* A transaction that has not begun, or has ended.
Outside(t) == pc[t] \in {"idle", "guard", "begin", "dropNotify"} \/ Waits(t, "begin")

TaskOK(t) ==
    /\ pc[t] \in TaskPCs \cup WaitPCs
    /\ ret[t] # "spin"
    /\ pc[t] = "idle" <=> pin[t] = 0
    /\ pin[t] <= first
    /\ closing => pc[t] = "idle"
    /\ HasBuffer(t) => pin[t] <= bid[t] /\ bid[t] <= Current
    /\ pc[t] = "switch" \/ Waits(t, "switch") => bid[t] < MaxGroup
    /\ Outside(t) \/ pc[t] = "flushCall" => ~hold[t]
    /\ Outside(t) \/ pc[t] = "txn" => op[t] = TxnOp

TaskInv == \A t \in Tasks : TaskOK(t)

\* num_writer counts the transactions that hold the write guard.
WriterCount == \A g \in GroupIds : writers[g] = Cardinality(Holders(g))

\* Buffers before the current one are sealed, later ones untouched, and saved ones
\* have no writer.
BufferInv ==
    \A g \in GroupIds :
        /\ g < Current => sealed[g]
        /\ g > Current => ~sealed[g] /\ used[g] = 0
        /\ g = MaxGroup => ~sealed[g] /\ used[g] = 0
        /\ g <= saved => sealed[g] /\ writers[g] = 0
        /\ flushed[g] => g <= saved

\* The flush job is in flush_during_shutdown.
ShuttingDown == pc[Flusher] # "pick" /\ ~op[Flusher].wait

\* Where the flush job is says how far the version and the manifest are.
FlusherInv ==
    /\ pc[Flusher] \in FlusherPCs \cup WaitPCs
    /\ pc[Flusher] \in WaitPCs \cup {"wake"} => ret[Flusher] = "spin"
    /\ ret[Flusher] \in {"begin", "spin"}
    /\ ~hold[Flusher]
    /\ pc[Flusher] = "pick" => pin[Flusher] = 0
    /\ pc[Flusher] # "pick" /\ op[Flusher].wait =>
          /\ pc[Flusher] \notin {"shutdown", "done"}
          /\ pin[Flusher] = bid[Flusher]
    /\ ShuttingDown =>
          /\ pc[Flusher] \in {"shutdown", "build", "save", "installVersion", "latch", "done"}
          /\ pin[Flusher] = 0
          /\ closing
    /\ pc[Flusher] # "pick" =>
          bid[Flusher] = IF pc[Flusher] = "latch" THEN first - 1 ELSE first
    /\ first = IF pc[Flusher] \in {"release", "wake", "spin", "installVersion"} \cup WaitPCs
               THEN saved ELSE saved + 1
    /\ pc[Flusher] \in {"build", "save"} => bid[Flusher] < next /\ Flushable(bid[Flusher])
    /\ pc[Flusher] = "installVersion" => ShuttingDown \/ first < Current
    /\ first <= IF ShuttingDown THEN next ELSE Current
    /\ start <= first
    /\ saved <= Current

\* Every buffer but the ones whose permit the flush job has returned has a
\* permit, and so has the task that is about to install one.
Returned == IF pc[Flusher] = "release" THEN saved - 1 ELSE saved

\* Task t has recorded itself as the waiter.
Stalled(t) == pc[t] \in {"check", "asleep"} /\ ret[t] = "install"

PermitInv ==
    /\ Current <= saved + MaxWriteBuffers
    /\ ~ShuttingDown /\ permits = 0 =>
          /\ Current = Returned + MaxWriteBuffers
          /\ \E t \in Tasks : Stalled(t)
    /\ ~ShuttingDown /\ permits > 0 =>
          permits + Current + (IF \E t \in Tasks : pc[t] = "install" THEN 1 ELSE 0)
              = Returned + MaxWriteBuffers + 1

\* What switch_buffer_without_stalling relies on.
StallFree(t) ==
    ~op[t].allowStall =>
        /\ pc[t] = "switch" => sealed[bid[t]] \/ permits > 1
        /\ pc[t] = "acquire" => permits > 1
        /\ ~Waits(t, "install")

StallFreeInv == \A t \in Tasks : StallFree(t)

\* No buffer of a version that somebody holds has been released.
PinInv == \A p \in Procs : pin[p] # 0 => start <= pin[p]

ShutdownInv ==
    pc[Flusher] = "done" /\ ~AvoidFlushDuringShutdown =>
        saved = Current \/ (saved = Current - 1 /\ Empty(Current))

\* All of the above, and the properties they keep: together inductive, as the
\* steps of transactions, flushes, the flush job and the cleanup job show.
IInv ==
    /\ TypeOK
    /\ TaskInv
    /\ WriterCount
    /\ BufferInv
    /\ FlusherInv
    /\ PermitInv
    /\ OneInstaller
    /\ PinInv
    /\ StallFreeInv
    /\ ShutdownInv
=============================================================================
