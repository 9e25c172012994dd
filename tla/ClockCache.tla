----------------------------- MODULE ClockCache -----------------------------
(***************************************************************************)
(* One shard of ClockCache (page_store/cache/clock.rs): a lock-free open   *)
(* addressing table whose slots have one word each, with a state and the   *)
(* numbers of references acquired and released.                            *)
(*                                                                         *)
(* A step is one atomic operation on a word of a slot.  The counters of    *)
(* the table (occupancy, usage, displacements along a probe sequence) are  *)
(* only added to; consecutive updates of them by a thread are one step.    *)
(* Every thread holds at most one entry.                                   *)
(***************************************************************************)
EXTENDS Integers, FiniteSetsExt

CONSTANTS
    Threads,
    Keys,
    NumSlots,       \* size of the table
    BaseSlot,       \* key -> the slot where probing begins (remix1 of its hash)
    Increment,      \* key -> the distance of its probes (remix2 of its hash), odd
    Charge,         \* key -> charge
    Capacity,
    OccupancyLimit,
    Strict,         \* strict_capacity_limit
    StepSize,       \* STEP_SIZE
    TopBit,         \* value of the highest bit of a counter
    MaxOps          \* bound: operations

VARIABLES
    slot,       \* the table
    occupancy, usage, detachedUsage,
    clock,      \* clock_pointer
    th,         \* what every thread is doing
    held,       \* the entry that every thread holds
    ops,        \* operations begun
    alone,      \* threads whose erase has not met an insert of the key
    gone        \* keys that have been erased and not been inserted since

counters == <<occupancy, usage, detachedUsage>>
ghosts == <<ops, alone, gone>>
vars == <<slot, counters, clock, th, held, ghosts>>

HighCountdown == 3
LowCountdown == 2
MaxCountdown == HighCountdown

SlotIds == 0..(NumSlots - 1)
NoKey == "none"
NoEntry == [at |-> -1, key |-> NoKey]
Detached == -2
Empty == [s |-> "empty", a |-> 0, r |-> 0]
Construction == [s |-> "construction", a |-> 0, r |-> 0]
Idle == [pc |-> "idle", key |-> NoKey, n |-> 0, old |-> Empty]

MinOf(x, y) == IF x < y THEN x ELSE y

\* The probe sequence of a key
ProbeOf(k, n) == (BaseSlot[k] + n * Increment[k]) % NumSlots
At(t) == ProbeOf(th[t].key, th[t].n)

Goto(t, pc) == th' = [th EXCEPT ![t].pc = pc]
GotoWith(t, pc, old) == th' = [th EXCEPT ![t].pc = pc, ![t].old = old]
Return(t) == th' = [th EXCEPT ![t] = Idle]

\* The word of a slot, and the table after it has changed
Meta(i) == [s |-> slot[i].s, a |-> slot[i].a, r |-> slot[i].r]
WithMeta(i, m) == [slot EXCEPT ![i].s = m.s, ![i].a = m.a, ![i].r = m.r]
Acquire(i, k) == slot' = [slot EXCEPT ![i].a = (@ + k) % (2 * TopBit)]
Undo(i, k) == slot' = [slot EXCEPT ![i].a = (@ - k) % (2 * TopBit)]
RefCount(m) == m.a - m.r

Shareable(s) == s \in {"visible", "invisible"}

\* The table after rollback of a key that is in slot i
Rollback(sl, k, i) ==
    LET last == CHOOSE n \in SlotIds : ProbeOf(k, n) = i
        passed == {ProbeOf(k, n) : n \in 0..(last - 1)}
    IN  [j \in SlotIds |-> IF j \in passed THEN [sl[j] EXCEPT !.displaced = @ - 1] ELSE sl[j]]

\* correct_near_overflow
Corrected(old, m) ==
    IF old.r >= TopBit \/ (old.r \div (MaxCountdown + 1)) % 2 = 1
    THEN [m EXCEPT !.a = @ % TopBit, !.r = @ % TopBit] ELSE m

-----------------------------------------------------------------------------
(* lookup *)

Begin(t, pc, k) ==
    /\ th[t].pc = "idle" /\ ops < MaxOps
    /\ ops' = ops + 1
    /\ th' = [th EXCEPT ![t] = [Idle EXCEPT !.pc = pc, !.key = k]]

Lookup(t, k) ==
    /\ held[t] = NoEntry
    /\ Begin(t, "look", k)
    /\ UNCHANGED <<slot, counters, clock, held, alone, gone>>

\* A visible entry with the key
Matches(m, k) == m.s = "visible" /\ m.key = k

\* Only the counters of a shareable entry have to be set right again.
Undoes(m) == Shareable(m.s)

LookAcquire(t) ==
    LET i == At(t)
        m == slot[i]
    IN  /\ th[t].pc = "look"
        /\ Acquire(i, 1)
        /\ IF Matches(m, th[t].key)
           THEN held' = [held EXCEPT ![t] = [at |-> i, key |-> th[t].key]] /\ Return(t)
           ELSE Goto(t, IF Undoes(m) THEN "look_undo" ELSE "look_abort") /\ UNCHANGED held
        /\ UNCHANGED <<counters, clock, ghosts>>

\* The reference is given back.
UndoAcquire(t) ==
    /\ th[t].pc \in {"look_undo", "erase_undo"}
    /\ Undo(At(t), 1)
    /\ Goto(t, IF th[t].pc = "look_undo" THEN "look_abort" ELSE "erase_abort")
    /\ UNCHANGED <<counters, clock, held, ghosts>>

\* find_slot goes on unless no entry has been displaced from here.
GoesOn(t) == slot[At(t)].displaced # 0 /\ th[t].n + 1 < NumSlots

LookAbort(t) ==
    /\ th[t].pc = "look_abort"
    /\ IF GoesOn(t) THEN th' = [th EXCEPT ![t].pc = "look", ![t].n = @ + 1] ELSE Return(t)
    /\ UNCHANGED <<slot, counters, clock, held, ghosts>>

-----------------------------------------------------------------------------
(* erase *)

Inserting(k) == \E u \in Threads :
    th[u].key = k /\ th[u].pc \in {"charge", "evict", "evict_cas", "evict_free", "settle", "find", "show",
                                   "boost", "boost_undo", "boost_release", "next"}

Erase(t, k) ==
    /\ Begin(t, "erase", k)
    /\ alone' = IF Inserting(k) THEN alone ELSE alone \cup {t}
    /\ UNCHANGED <<slot, counters, clock, held, gone>>

EraseAcquire(t) ==
    LET m == slot[At(t)]
    IN  /\ th[t].pc = "erase"
        /\ Acquire(At(t), 1)
        /\ Goto(t, IF Matches(m, th[t].key) THEN "erase_hide"
                   ELSE IF Undoes(m) THEN "erase_undo" ELSE "erase_abort")
        /\ UNCHANGED <<counters, clock, held, ghosts>>

EraseHide(t) ==
    LET hidden == [Meta(At(t)) EXCEPT !.s = "invisible"]
    IN  /\ th[t].pc = "erase_hide"
        /\ slot' = WithMeta(At(t), hidden)
        /\ GotoWith(t, "erase_free", hidden)
        /\ UNCHANGED <<counters, clock, held, ghosts>>

\* Not the last reference: it is given back.  The last one: the slot is taken over if
\* its word is still the one that was seen; otherwise the loop tries that word again.
EraseFree(t) ==
    LET i == At(t)
        last == RefCount(th[t].old) <= 1
    IN  /\ th[t].pc = "erase_free"
        /\ last => Meta(i) = th[t].old
        /\ IF last THEN slot' = WithMeta(i, Construction) ELSE Undo(i, 1)
        /\ GotoWith(t, IF last THEN "erase_mark" ELSE "erase_abort", Empty)
        /\ UNCHANGED <<counters, clock, held, ghosts>>

\* free_data_mark_empty
EraseMark(t) ==
    /\ th[t].pc = "erase_mark"
    /\ slot' = WithMeta(At(t), Empty)
    /\ Goto(t, "erase_reclaim")
    /\ UNCHANGED <<counters, clock, held, ghosts>>

ReclaimEntryUsage(k) == occupancy' = occupancy - 1 /\ usage' = usage - Charge[k]

EraseReclaim(t) ==
    /\ th[t].pc = "erase_reclaim"
    /\ ReclaimEntryUsage(th[t].key)
    /\ slot' = Rollback(slot, th[t].key, At(t))
    /\ Goto(t, "erase_abort")
    /\ UNCHANGED <<detachedUsage, clock, held, ghosts>>

EraseAbort(t) ==
    /\ th[t].pc = "erase_abort"
    /\ IF GoesOn(t) THEN th' = [th EXCEPT ![t].pc = "erase", ![t].n = @ + 1] /\ UNCHANGED <<alone, gone>>
       ELSE /\ Return(t)
            /\ gone' = IF t \in alone THEN gone \cup {th[t].key} ELSE gone
            /\ alone' = alone \ {t}
    /\ UNCHANGED <<slot, counters, clock, held, ops>>

-----------------------------------------------------------------------------
(* release *)

\* A detached entry has one reference.
ReleaseDetached(t) ==
    /\ th[t].pc = "idle" /\ held[t].at = Detached
    /\ detachedUsage' = detachedUsage - Charge[held[t].key]
    /\ usage' = usage - Charge[held[t].key]
    /\ held' = [held EXCEPT ![t] = NoEntry]
    /\ UNCHANGED <<slot, occupancy, clock, th, ghosts>>

Release(t) ==
    LET i == held[t].at
        old == Meta(i)
        new == [old EXCEPT !.r = (@ + 1) % (2 * TopBit)]
    IN  /\ th[t].pc = "idle" /\ held[t].at \in SlotIds
        /\ slot' = WithMeta(i, new)
        /\ th' = [th EXCEPT ![t] =
              [pc |-> IF old.s = "invisible" THEN "release_free" ELSE "release_fix",
               key |-> held[t].key, n |-> i, old |-> IF old.s = "invisible" THEN new ELSE old]]
        /\ held' = [held EXCEPT ![t] = NoEntry]
        /\ UNCHANGED <<counters, clock, ghosts>>

ReleaseFix(t) ==
    /\ th[t].pc = "release_fix"
    /\ slot' = WithMeta(th[t].n, Corrected(th[t].old, Meta(th[t].n)))
    /\ Return(t)
    /\ UNCHANGED <<counters, clock, held, ghosts>>

\* Mutant of LastRef: an entry with other references is freed.
LastRefAny(m) == TRUE

LastRef(m) == RefCount(m) = 0

\* The last reference of an invisible entry: the slot is taken over if its word is still
\* the one that was seen; otherwise the loop tries that word again.
ReleaseFree(t) ==
    LET i == th[t].n
        last == LastRef(th[t].old)
    IN  /\ th[t].pc = "release_free"
        /\ last => Meta(i) = th[t].old
        /\ IF last THEN slot' = WithMeta(i, Construction) /\ GotoWith(t, "release_mark", Empty)
           ELSE UNCHANGED slot /\ Goto(t, "release_fix")
        /\ UNCHANGED <<counters, clock, held, ghosts>>

ReleaseMark(t) ==
    /\ th[t].pc = "release_mark"
    /\ slot' = WithMeta(th[t].n, Empty)
    /\ Goto(t, "release_reclaim")
    /\ UNCHANGED <<counters, clock, held, ghosts>>

\* rollback uses the hash that is in the slot now; the charge was read before.
ReleaseReclaim(t) ==
    /\ th[t].pc = "release_reclaim"
    /\ slot' = Rollback(slot, slot[th[t].n].key, th[t].n)
    /\ ReclaimEntryUsage(th[t].key)
    /\ Return(t)
    /\ UNCHANGED <<detachedUsage, clock, held, ghosts>>

-----------------------------------------------------------------------------
(* insert *)

Insert(t, k) ==
    /\ held[t] = NoEntry
    /\ th[t].pc = "idle" /\ ops < MaxOps
    /\ ops' = ops + 1
    /\ occupancy' = occupancy + 1
    /\ th' = [th EXCEPT ![t] = [pc |-> "charge", key |-> k, n |-> 0, old |-> Empty,
                                over |-> occupancy > OccupancyLimit]]
    /\ gone' = gone \ {k}
    /\ alone' = {u \in alone : th[u].key # k}
    /\ UNCHANGED <<slot, usage, detachedUsage, clock, held>>

\* What has to be evicted when the charge is c and the usage is u
NeedNonStrict(u, c) ==
    IF u + c <= Capacity \/ c > u THEN 0
    ELSE IF u > Capacity THEN c + MinOf(Capacity \div 1024, c) + 1 ELSE c

\* MemoryLimit
InsertRefused(t) ==
    /\ th[t].pc = "charge" /\ Strict /\ Charge[th[t].key] > Capacity
    /\ occupancy' = occupancy - 1
    /\ Return(t)
    /\ UNCHANGED <<slot, usage, detachedUsage, clock, held, ghosts>>

\* charge_usage_maybe_evict_strict and _non_strict up to evict: grab what there is of
\* the capacity, or only look at the usage.
InsertCharge(t) ==
    LET c == Charge[th[t].key]
        grabbed == IF Strict THEN Max({usage, MinOf(Capacity, usage + c)}) - usage ELSE 0
        need == IF Strict THEN c - grabbed ELSE NeedNonStrict(usage, c)
        want == IF th[t].over /\ need = 0 THEN 1 ELSE need
    IN  /\ th[t].pc = "charge" /\ (Strict => c <= Capacity)
        /\ usage' = usage + grabbed
        /\ clock' = IF want > 0 THEN clock + StepSize ELSE clock
        /\ th' = [th EXCEPT ![t] =
              [pc |-> IF want > 0 THEN "evict" ELSE "settle", key |-> th[t].key, n |-> 0, old |-> Empty,
               over |-> th[t].over, need |-> need, grabbed |-> grabbed, want |-> want,
               ptr |-> clock, i |-> 0, limit |-> clock + MaxCountdown * NumSlots,
               evicted |-> 0, count |-> 0]]
        /\ UNCHANGED <<slot, occupancy, detachedUsage, held, ghosts>>

\* The slot that the clock of the thread points to
Hand(t) == (th[t].ptr + th[t].i) % NumSlots

\* The next slot, the next batch of slots, or the end of evict
Advance(x) ==
    CASE x.i + 1 < StepSize -> [x EXCEPT !.i = @ + 1, !.pc = "evict", !.old = Empty]
      [] x.i + 1 = StepSize /\ (x.evicted >= x.want \/ x.ptr >= x.limit) ->
            [x EXCEPT !.pc = "settle", !.old = Empty]
      [] OTHER -> [x EXCEPT !.i = 0, !.ptr = clock, !.pc = "evict", !.old = Empty]

\* Whether a thread takes another batch when it advances
NextBatch(x) == x.i + 1 = StepSize /\ x.evicted < x.want /\ x.ptr < x.limit

\* Only an entry without references is turned.
Evictable(m) == m.a = m.r /\ Shareable(m.s)

\* clock_update: the load
EvictLoad(t) ==
    LET m == Meta(Hand(t))
        x == th[t]
    IN  /\ x.pc = "evict"
        /\ IF Evictable(m)
           THEN th' = [th EXCEPT ![t].pc = "evict_cas", ![t].old = m] /\ UNCHANGED clock
           ELSE /\ th' = [th EXCEPT ![t] = Advance(x)]
                /\ clock' = IF NextBatch(x) THEN clock + StepSize ELSE clock
        /\ UNCHANGED <<slot, counters, held, ghosts>>

\* clock_update: the exchange, which makes an invisible entry visible with a lower count
\* and takes any other over
EvictCas(t) ==
    LET x == th[t]
        same == Meta(Hand(t)) = x.old
        lower == x.old.s = "invisible" /\ x.old.a > 0
        count == MinOf(x.old.a - 1, MaxCountdown - 1)
    IN  /\ x.pc = "evict_cas"
        /\ slot' = IF ~same THEN slot
                   ELSE WithMeta(Hand(t), IF lower THEN [s |-> "visible", a |-> count, r |-> count]
                                          ELSE Construction)
        /\ IF same /\ ~lower
           THEN th' = [th EXCEPT ![t].pc = "evict_free", ![t].old = Empty] /\ UNCHANGED clock
           ELSE /\ th' = [th EXCEPT ![t] = Advance(x)]
                /\ clock' = IF NextBatch(x) THEN clock + StepSize ELSE clock
        /\ UNCHANGED <<counters, held, ghosts>>

\* rollback and free_data_mark_empty
EvictFree(t) ==
    LET i == Hand(t)
        x == [th[t] EXCEPT !.evicted = @ + Charge[slot[i].key], !.count = @ + 1]
    IN  /\ th[t].pc = "evict_free"
        /\ slot' = [Rollback(slot, slot[i].key, i) EXCEPT ![i].s = "empty", ![i].a = 0, ![i].r = 0]
        /\ th' = [th EXCEPT ![t] = Advance(x)]
        /\ clock' = IF NextBatch(x) THEN clock + StepSize ELSE clock
        /\ UNCHANGED <<counters, held, ghosts>>

\* detached_insert, which ends an insert
DetachedInsert(t) ==
    /\ detachedUsage' = detachedUsage + Charge[th[t].key]
    /\ held' = [held EXCEPT ![t] = [at |-> Detached, key |-> th[t].key]]
    /\ Return(t)

\* The rest of charge_usage_maybe_evict_strict and _non_strict
InsertSettle(t) ==
    LET x == th[t]
        c == Charge[x.key]
        short == x.over /\ x.count = 0
        fails == IF Strict THEN x.evicted < x.need \/ short ELSE short
        found == [pc |-> "find", key |-> x.key, n |-> 0, old |-> Empty]
    IN  /\ x.pc = "settle"
        /\ occupancy' = occupancy - x.count - (IF fails THEN 1 ELSE 0)
        /\ IF Strict
           THEN /\ usage' = usage - (IF fails THEN x.evicted + x.grabbed ELSE x.evicted - x.need)
                /\ th' = [th EXCEPT ![t] = IF fails THEN Idle ELSE found]
                /\ UNCHANGED <<detachedUsage, held>>
           ELSE /\ usage' = usage + c - x.evicted
                /\ IF fails THEN DetachedInsert(t)
                   ELSE th' = [th EXCEPT ![t] = found] /\ UNCHANGED <<detachedUsage, held>>
        /\ UNCHANGED <<slot, clock, ghosts>>

\* fetch_or of the occupied bit returns the state before.
Takes(s) == s = "empty"

InsertFind(t) ==
    LET i == At(t)
    IN  /\ th[t].pc = "find"
        /\ slot' = IF Takes(slot[i].s) THEN [slot EXCEPT ![i].s = "construction"] ELSE slot
        /\ Goto(t, CASE Takes(slot[i].s) -> "show" [] slot[i].s = "invisible" -> "boost" [] OTHER -> "next")
        /\ UNCHANGED <<counters, clock, held, ghosts>>

\* The entry becomes visible with one reference.
InsertShow(t) ==
    LET i == At(t)
    IN  /\ th[t].pc = "show"
        /\ slot' = [slot EXCEPT ![i] = [s |-> "visible", a |-> LowCountdown, r |-> LowCountdown - 1,
                                        key |-> th[t].key, displaced |-> @.displaced]]
        /\ held' = [held EXCEPT ![t] = [at |-> i, key |-> th[t].key]]
        /\ Return(t)
        /\ UNCHANGED <<counters, clock, ghosts>>

\* An entry that was invisible is referenced, in case it matches.
InsertBoost(t) ==
    LET m == slot[At(t)]
    IN  /\ th[t].pc = "boost"
        /\ Acquire(At(t), LowCountdown)
        /\ Goto(t, IF Matches(m, th[t].key) THEN "boost_release"
                   ELSE IF Shareable(m.s) THEN "boost_undo" ELSE "next")
        /\ UNCHANGED <<counters, clock, held, ghosts>>

InsertBoostUndo(t) ==
    /\ th[t].pc = "boost_undo"
    /\ Undo(At(t), LowCountdown)
    /\ Goto(t, "next")
    /\ UNCHANGED <<counters, clock, held, ghosts>>

\* It matches: the entry that is inserted is detached.
InsertBoostRelease(t) ==
    LET i == At(t)
        m == [Meta(i) EXCEPT !.r = (@ + LowCountdown) % (2 * TopBit)]
        sl == WithMeta(i, Corrected(Meta(i), m))
    IN  /\ th[t].pc = "boost_release"
        /\ slot' = Rollback(sl, th[t].key, i)
        /\ occupancy' = occupancy - 1
        /\ DetachedInsert(t)
        /\ UNCHANGED <<usage, clock, ghosts>>

\* The slot is passed; after the last one the entry is detached.
InsertNext(t) ==
    /\ th[t].pc = "next"
    /\ slot' = [slot EXCEPT ![At(t)].displaced = @ + 1]
    /\ IF th[t].n + 1 < NumSlots
       THEN th' = [th EXCEPT ![t].pc = "find", ![t].n = @ + 1] /\ UNCHANGED <<occupancy, detachedUsage, held>>
       ELSE occupancy' = occupancy - 1 /\ DetachedInsert(t)
    /\ UNCHANGED <<usage, clock, ghosts>>

-----------------------------------------------------------------------------

Init ==
    /\ slot = [i \in SlotIds |-> [s |-> "empty", a |-> 0, r |-> 0, key |-> NoKey, displaced |-> 0]]
    /\ occupancy = 0 /\ usage = 0 /\ detachedUsage = 0 /\ clock = 0 /\ ops = 0 /\ alone = {} /\ gone = {}
    /\ th = [t \in Threads |-> Idle]
    /\ held = [t \in Threads |-> NoEntry]

\* The steps of an operation that has begun
Step(t) ==
    \/ LookAcquire(t) \/ UndoAcquire(t) \/ LookAbort(t)
    \/ EraseAcquire(t) \/ EraseHide(t) \/ EraseFree(t) \/ EraseMark(t) \/ EraseReclaim(t) \/ EraseAbort(t)
    \/ ReleaseFix(t) \/ ReleaseFree(t) \/ ReleaseMark(t) \/ ReleaseReclaim(t)
    \/ InsertRefused(t) \/ InsertCharge(t) \/ EvictLoad(t) \/ EvictCas(t) \/ EvictFree(t) \/ InsertSettle(t)
    \/ InsertFind(t) \/ InsertShow(t) \/ InsertBoost(t) \/ InsertBoostUndo(t) \/ InsertBoostRelease(t)
    \/ InsertNext(t)

Next ==
    \E t \in Threads :
       \/ Step(t) \/ Release(t) \/ ReleaseDetached(t)
       \/ \E k \in Keys : Lookup(t, k) \/ Insert(t, k) \/ Erase(t, k)

Spec == Init /\ [][Next]_vars
FairSpec == Spec /\ \A t \in Threads : WF_vars(Step(t))

-----------------------------------------------------------------------------
(* Properties. *)

\* An entry that a thread holds keeps its slot and its key, whatever the others erase,
\* release, evict or insert: the pointer that lookup returned stays valid.
EntriesKept ==
    \A t \in Threads : held[t].at \in SlotIds =>
       Shareable(slot[held[t].at].s) /\ slot[held[t].at].key = held[t].key

\* The thread that a slot under construction belongs to
Owns(t, i) ==
    CASE th[t].pc \in {"show", "erase_mark"} -> At(t) = i
      [] th[t].pc = "release_mark"           -> th[t].n = i
      [] th[t].pc = "evict_free"             -> Hand(t) = i
      [] OTHER                               -> FALSE

\* A slot is under construction for exactly one thread, which the assertions of insert
\* and free_data_mark_empty rely on: no two threads free or fill one slot.
OneOwner ==
    \A i \in SlotIds :
       Cardinality({t \in Threads : Owns(t, i)}) = IF slot[i].s = "construction" THEN 1 ELSE 0

\* The references of thread t to slot i
RefsOf(t, i) ==
    (IF held[t].at = i THEN 1 ELSE 0)
    + CASE th[t].pc \in {"look_undo", "erase_undo", "erase_hide", "erase_free"} /\ At(t) = i -> 1
        [] th[t].pc \in {"boost_undo", "boost_release"} /\ At(t) = i                         -> LowCountdown
        [] OTHER                                                                             -> 0

\* The difference of the two counters of an entry is the number of its references; the
\* clock may only turn when it is zero.
RefsCounted ==
    \A i \in SlotIds : Shareable(slot[i].s) =>
       (slot[i].a - slot[i].r) % (2 * TopBit) = MapThenSumSet(LAMBDA t : RefsOf(t, i), Threads)

AtRest == \A t \in Threads : th[t].pc = "idle"

\* Between operations the occupancy is the number of entries in the table, and the usage
\* is the charge of these and of the detached ones: nothing leaks from any path of insert.
UsageExact ==
    AtRest =>
       LET full == {i \in SlotIds : slot[i].s # "empty"}
           loose == {t \in Threads : held[t].at = Detached}
       IN  /\ occupancy = Cardinality(full)
           /\ detachedUsage = MapThenSumSet(LAMBDA t : Charge[held[t].key], loose)
           /\ usage = detachedUsage + MapThenSumSet(LAMBDA i : Charge[slot[i].key], full)

\* A key that has been erased, and not inserted again, is not found.
ErasedGone == \A k \in gone, i \in SlotIds : ~(slot[i].s = "visible" /\ slot[i].key = k)

\* A key has one visible entry: insert notices an existing entry that matches.
OneVisible ==
    \A i, j \in SlotIds :
       slot[i].s = "visible" /\ slot[j].s = "visible" /\ slot[i].key = slot[j].key => i = j

\* Every visible entry can be found: nobody who probes for it stops before it.
Findable ==
    AtRest => \A i \in SlotIds : slot[i].s = "visible" =>
       LET k == slot[i].key
       IN  \A n \in SlotIds : (\A m \in 0..n : ProbeOf(k, m) # i) => slot[ProbeOf(k, n)].displaced # 0

\* Every operation returns.
OpsReturn == \A t \in Threads : []<>(th[t].pc = "idle")
=============================================================================
