---------------------------- MODULE VersionChain ----------------------------
(***************************************************************************)
(* The chain of versions (page_store/version.rs) and the tasks that move   *)
(* along it: guards that hold a version, the cleanup job that waits until  *)
(* a version is released (jobs/cleanup.rs), the reclaim job that takes the *)
(* newest one, callers of wait_for_reclaiming (jobs/reclaim.rs), with the  *)
(* latches (util/latch.rs) and the shutdown (util/shutdown.rs) they sleep  *)
(* on.  FileStore has what versions contain.                               *)
(*                                                                         *)
(* Versions are numbered in the order they are installed.  VersionOwner    *)
(* has a box with a reference to the current one; the box of a former one  *)
(* is freed when no task that was pinned is still pinned.  A version holds *)
(* a reference to its next one.                                            *)
(***************************************************************************)
EXTENDS Integers, FiniteSets

CONSTANTS
    Readers,        \* tasks that take guards
    Waiters,        \* tasks that call wait_for_reclaiming
    MaxVersion,     \* bound: versions are 1..MaxVersion
    Closes          \* whether the store is closed

\* The jobs, the readers and the waiters are different tasks.
ASSUME TasksAssumption ==
    /\ MaxVersion \in Nat \ {0}
    /\ "owner" \notin Readers /\ Readers \cap Waiters = {}
    /\ {"cleanup", "reclaim"} \cap (Readers \cup Waiters) = {}

VARIABLES
    raw,        \* version of the box that VersionOwner::raw points to
    boxes,      \* versions whose box in VersionOwner is not freed
    waits,      \* box that is to be freed -> pinned tasks that it waits for
    linked,     \* versions whose next_version is set
    newLatch,   \* version -> new_version_latch: whether it is open, and its wakers
    recLatch,   \* version -> reclaiming_latch
    reclaimable,\* versions that ReclaimProgress takes for reclaimable
    inst,       \* next step of switch_version
    loaded,     \* reader -> version whose box it has loaded while it is pinned, or 0
    holds,      \* task -> version it has a reference to, or 0
    pc,         \* job or waiter -> where it is
    awake,      \* job or waiter -> whether it is scheduled
    closed,     \* Core::closed of the shutdown
    shutWakers, \* Core::wakers of the shutdown
    cleaned     \* versions that the cleanup job has cleaned up

owner == <<raw, boxes, waits, linked, inst>>
tasks == <<holds, pc, awake>>
shutdown == <<closed, shutWakers>>
vars == <<owner, newLatch, recLatch, reclaimable, loaded, tasks, shutdown, cleaned>>

Jobs == {"cleanup", "reclaim"}
Sleepers == Jobs \cup Waiters
Tasks == Sleepers \cup Readers
Versions == 1..MaxVersion

\* A version is not dropped while a task or a box refers to it, or while the version
\* before it is not dropped.
Direct(v) == v \in boxes \/ \E t \in Tasks : holds[t] = v
Alive(v) == \E u \in 1..v : Direct(u) /\ \A w \in u..(v - 1) : w \in linked

-----------------------------------------------------------------------------
(* Latches. *)

Shut == [open |-> FALSE, wakers |-> {}]

\* Latch::count_down opens the latch, ...
Opened == [open |-> TRUE, wakers |-> {}]

\* Mutant of Woken: the wakers are dropped.
WokenNone(ts) == awake

\* ... and wakes who waits.
Woken(ts) == [t \in Sleepers |-> awake[t] \/ t \in ts]

\* LatchWaiter::poll_wait and ::drop
Registered(latch, v, t) == [latch EXCEPT ![v].wakers = @ \cup {t}]
Forgotten(latch, v, t) == [latch EXCEPT ![v].wakers = @ \ {t}]

-----------------------------------------------------------------------------
(* VersionOwner. *)

\* Mutant of StepAfter: waiters are woken before there is a next version.
StepAfterEarly(s) ==
    CASE s = "raw" -> "wake" [] s = "wake" -> "link" [] s = "link" -> "defer"

\* The order of switch_version.
StepAfter(s) ==
    CASE s = "raw" -> "link" [] s = "link" -> "wake" [] s = "wake" -> "defer"

\* install, under the lock of the manifest: exchange raw, ...
InstallRaw(r) ==
    /\ inst = "raw" /\ raw < MaxVersion
    /\ raw' = raw + 1
    /\ boxes' = boxes \cup {raw + 1}
    /\ reclaimable' = IF r THEN reclaimable \cup {raw + 1} ELSE reclaimable
    /\ inst' = StepAfter("raw")
    /\ UNCHANGED <<waits, linked, newLatch, recLatch, loaded, tasks, shutdown, cleaned>>

\* ... let the former version refer to the new one, ...
InstallLink ==
    /\ inst = "link"
    /\ linked' = linked \cup {raw - 1}
    /\ inst' = StepAfter("link")
    /\ UNCHANGED <<raw, boxes, waits, newLatch, recLatch, reclaimable, loaded, tasks, shutdown, cleaned>>

\* ... wake who waits for it, ...
InstallWake ==
    /\ inst = "wake"
    /\ newLatch' = [newLatch EXCEPT ![raw - 1] = Opened]
    /\ awake' = Woken(newLatch[raw - 1].wakers)
    /\ inst' = StepAfter("wake")
    /\ UNCHANGED <<raw, boxes, waits, linked, recLatch, reclaimable, loaded, holds, pc, shutdown, cleaned>>

\* Mutant of Pinned: the box is freed at once.
PinnedNone == {}

\* The tasks that may have loaded a box.
Pinned == {r \in Readers : loaded[r] # 0}

\* ... and free the former box once all tasks that are pinned now have unpinned.
InstallDefer ==
    /\ inst = "defer"
    /\ waits' = [waits EXCEPT ![raw - 1] = Pinned]
    /\ inst' = "raw"
    /\ UNCHANGED <<raw, boxes, linked, newLatch, recLatch, reclaimable, loaded, tasks, shutdown, cleaned>>

FreeBox(v) ==
    /\ v \in boxes /\ v < raw /\ waits[v] = {}
    /\ boxes' = boxes \ {v}
    /\ UNCHANGED <<raw, waits, linked, inst, newLatch, recLatch, reclaimable, loaded, tasks, shutdown, cleaned>>

\* VersionOwner::current: pin and load, ...
Load(r) ==
    /\ loaded[r] = 0 /\ holds[r] = 0 /\ ~closed
    /\ loaded' = [loaded EXCEPT ![r] = raw]
    /\ UNCHANGED <<owner, newLatch, recLatch, reclaimable, tasks, shutdown, cleaned>>

\* ... clone the reference in the box, and unpin.
Clone(r) ==
    /\ loaded[r] # 0
    /\ holds' = [holds EXCEPT ![r] = loaded[r]]
    /\ loaded' = [loaded EXCEPT ![r] = 0]
    /\ waits' = [v \in Versions |-> waits[v] \ {r}]
    /\ UNCHANGED <<raw, boxes, linked, inst, newLatch, recLatch, reclaimable, pc, awake, shutdown, cleaned>>

DropGuard(r) ==
    /\ holds[r] # 0
    /\ holds' = [holds EXCEPT ![r] = 0]
    /\ UNCHANGED <<owner, newLatch, recLatch, reclaimable, loaded, pc, awake, shutdown, cleaned>>

-----------------------------------------------------------------------------
(* Jobs.  A job that waits polls its future, then the shutdown. *)

\* Shutdown::poll when the store is not closed.
Registers(t) == shutWakers \cup {t}

Stop(t) ==
    /\ pc' = [pc EXCEPT ![t] = "done"]
    /\ holds' = [holds EXCEPT ![t] = 0]

\* wait_next_version
Sleep(t) ==
    /\ pc[t] = "next" /\ awake[t] /\ ~newLatch[holds[t]].open /\ ~closed
    /\ newLatch' = Registered(newLatch, holds[t], t)
    /\ shutWakers' = Registers(t)
    /\ awake' = [awake EXCEPT ![t] = FALSE]
    /\ UNCHANGED <<owner, recLatch, reclaimable, loaded, holds, pc, closed, cleaned>>

SleepEnds(t) ==
    /\ pc[t] = "next" /\ awake[t] /\ ~newLatch[holds[t]].open /\ closed
    /\ newLatch' = Forgotten(newLatch, holds[t], t)
    /\ Stop(t)
    /\ UNCHANGED <<owner, recLatch, reclaimable, loaded, awake, shutdown, cleaned>>

\* The cleanup job has the next version and drops the former one, ...
CleanupNext ==
    /\ pc["cleanup"] = "next" /\ awake["cleanup"] /\ newLatch[holds["cleanup"]].open
    /\ holds' = [holds EXCEPT !["cleanup"] = @ + 1]
    /\ pc' = [pc EXCEPT !["cleanup"] = "released"]
    /\ UNCHANGED <<owner, newLatch, recLatch, reclaimable, loaded, awake, shutdown, cleaned>>

\* Mutant of IsReleased: a version is released when it is not the current one.
IsReleasedOld(v) == v < raw

\* The sender in the version is dropped with it, which ends the wait of the receiver.
IsReleased(v) == ~Alive(v)

\* ... waits until no one has that one, and cleans up what the next one does not need.
CleanupReleased ==
    /\ pc["cleanup"] = "released" /\ IsReleased(holds["cleanup"] - 1)
    /\ cleaned' = cleaned \cup {holds["cleanup"]}
    /\ pc' = [pc EXCEPT !["cleanup"] = "next"]
    /\ UNCHANGED <<owner, newLatch, recLatch, reclaimable, loaded, holds, awake, shutdown>>

CleanupStops ==
    /\ pc["cleanup"] = "released" /\ ~IsReleased(holds["cleanup"] - 1) /\ closed
    /\ Stop("cleanup")
    /\ UNCHANGED <<owner, newLatch, recLatch, reclaimable, loaded, awake, shutdown, cleaned>>

\* The reclaim job has reclaimed its version.
Reclaimed ==
    /\ pc["reclaim"] = "reclaim"
    /\ recLatch' = [recLatch EXCEPT ![holds["reclaim"]] = Opened]
    /\ awake' = Woken(recLatch[holds["reclaim"]].wakers)
    /\ pc' = [pc EXCEPT !["reclaim"] = "next"]
    /\ UNCHANGED <<owner, newLatch, reclaimable, loaded, holds, shutdown, cleaned>>

ReclaimNext ==
    /\ pc["reclaim"] = "next" /\ awake["reclaim"] /\ newLatch[holds["reclaim"]].open
    /\ holds' = [holds EXCEPT !["reclaim"] = @ + 1]
    /\ pc' = [pc EXCEPT !["reclaim"] = "refresh"]
    /\ UNCHANGED <<owner, newLatch, recLatch, reclaimable, loaded, awake, shutdown, cleaned>>

\* Version::refresh follows the chain to its end.
ReclaimRefresh ==
    /\ pc["reclaim"] = "refresh"
    /\ IF holds["reclaim"] \in linked
       THEN holds' = [holds EXCEPT !["reclaim"] = @ + 1] /\ UNCHANGED pc
       ELSE pc' = [pc EXCEPT !["reclaim"] = "reclaim"] /\ UNCHANGED holds
    /\ UNCHANGED <<owner, newLatch, recLatch, reclaimable, loaded, awake, shutdown, cleaned>>

-----------------------------------------------------------------------------
(* wait_for_reclaiming *)

WaitBegin(w) ==
    /\ pc[w] = "idle" /\ ~closed
    /\ holds' = [holds EXCEPT ![w] = raw]
    /\ pc' = [pc EXCEPT ![w] = "check"]
    /\ UNCHANGED <<owner, newLatch, recLatch, reclaimable, loaded, awake, shutdown, cleaned>>

WaitCheck(w) ==
    /\ pc[w] = "check"
    /\ IF holds[w] \in reclaimable
       THEN pc' = [pc EXCEPT ![w] = "wait"] /\ UNCHANGED holds
       ELSE Stop(w)
    /\ UNCHANGED <<owner, newLatch, recLatch, reclaimable, loaded, awake, shutdown, cleaned>>

WaitSleep(w) ==
    /\ pc[w] = "wait" /\ awake[w] /\ ~recLatch[holds[w]].open
    /\ recLatch' = Registered(recLatch, holds[w], w)
    /\ awake' = [awake EXCEPT ![w] = FALSE]
    /\ UNCHANGED <<owner, newLatch, reclaimable, loaded, holds, pc, shutdown, cleaned>>

WaitNext(w) ==
    /\ pc[w] = "wait" /\ awake[w] /\ recLatch[holds[w]].open
    /\ IF holds[w] \in linked
       THEN holds' = [holds EXCEPT ![w] = @ + 1] /\ pc' = [pc EXCEPT ![w] = "check"]
       ELSE Stop(w)
    /\ UNCHANGED <<owner, newLatch, recLatch, reclaimable, loaded, awake, shutdown, cleaned>>

\* ShutdownNotifier::terminate
Close ==
    /\ Closes /\ ~closed
    /\ closed' = TRUE /\ shutWakers' = {}
    /\ awake' = Woken(shutWakers)
    /\ UNCHANGED <<owner, newLatch, recLatch, reclaimable, loaded, holds, pc, cleaned>>

-----------------------------------------------------------------------------

Init ==
    /\ raw = 1 /\ boxes = {1} /\ waits = [v \in Versions |-> {"owner"}] /\ linked = {} /\ inst = "raw"
    /\ newLatch = [v \in Versions |-> Shut] /\ recLatch = [v \in Versions |-> Shut]
    /\ reclaimable \in SUBSET {1}
    /\ loaded = [r \in Readers |-> 0]
    /\ holds = [t \in Tasks |-> IF t \in Jobs THEN 1 ELSE 0]
    /\ pc = [t \in Sleepers |-> CASE t = "cleanup" -> "next" [] t = "reclaim" -> "reclaim"
                                  [] OTHER -> "idle"]
    /\ awake = [t \in Sleepers |-> TRUE]
    /\ closed = FALSE /\ shutWakers = {} /\ cleaned = {}

Install == (\E r \in BOOLEAN : InstallRaw(r)) \/ InstallLink \/ InstallWake \/ InstallDefer
Reading(r) == Load(r) \/ Clone(r) \/ DropGuard(r)
Cleanup == Sleep("cleanup") \/ SleepEnds("cleanup") \/ CleanupNext \/ CleanupReleased \/ CleanupStops
Reclaim == Sleep("reclaim") \/ SleepEnds("reclaim") \/ Reclaimed \/ ReclaimNext \/ ReclaimRefresh
Waiting(w) == WaitBegin(w) \/ WaitCheck(w) \/ WaitSleep(w) \/ WaitNext(w)

Next ==
    \/ Install \/ Cleanup \/ Reclaim \/ Close
    \/ \E v \in Versions : FreeBox(v)
    \/ \E r \in Readers : Reading(r)
    \/ \E w \in Waiters : Waiting(w)

Spec == Init /\ [][Next]_vars

\* Tasks that can run do run, an install is finished, guards are dropped and boxes
\* are freed: jobs are tasks of the runtime, guards last for one operation, and
\* switch_version flushes its deferred function.
Fairness ==
    /\ WF_vars(InstallLink \/ InstallWake \/ InstallDefer)
    /\ WF_vars(Cleanup) /\ WF_vars(Reclaim)
    /\ \A v \in Versions : WF_vars(FreeBox(v))
    /\ \A r \in Readers : WF_vars(Clone(r)) /\ WF_vars(DropGuard(r))
    /\ \A w \in Waiters : WF_vars(WaitCheck(w) \/ WaitSleep(w) \/ WaitNext(w))

FairSpec == Spec /\ Fairness

-----------------------------------------------------------------------------
(* Properties. *)

\* A reader that has loaded a box clones the reference in it before the box is freed
\* ("guard by `buffer_set_guard::pin`").
BoxesPinned == \A r \in Readers : loaded[r] # 0 => loaded[r] \in boxes

\* Who is woken by the latch of a version finds the next one: the expect of
\* wait_next_version never fails.
NextFound == \A v \in Versions : newLatch[v].open => v \in linked /\ v < raw

\* When the cleanup job cleans up for a version, no task has a version before it, or
\* can still get one.
CleanedUnused ==
    \A v \in cleaned :
       /\ \A t \in Tasks : holds[t] = 0 \/ holds[t] >= v
       /\ \A r \in Readers : loaded[r] = 0 \/ loaded[r] >= v

\* wait_for_reclaiming returns: "Wait until the running reclaiming progress to finish".
WaitEnds == \A w \in Waiters : pc[w] = "wait" ~> (pc[w] = "done" \/ closed)
=============================================================================
