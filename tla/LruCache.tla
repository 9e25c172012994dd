------------------------------ MODULE LruCache ------------------------------
(***************************************************************************)
(* A shard of the LRU cache (page_store/cache/lru.rs), which holds pages   *)
(* of page files and open file readers.  All its operations run under the  *)
(* lock of the shard; readers hold entries, which are references to        *)
(* handles that the shard must keep while they are held.                   *)
(*                                                                         *)
(* The list of the handles without references has the oldest one first.    *)
(* It has three pools: the first handles, up to the marker `bottom', are   *)
(* in the bottom pool, the next ones, up to `low', in the low one and the  *)
(* others in the high one.  A handle moves to a lower pool when its pool   *)
(* exceeds its capacity, and the first one of the list is evicted first.   *)
(***************************************************************************)
EXTENDS Integers, FiniteSetsExt, SequencesExt

CONSTANTS
    Clients,        \* readers, each of which holds at most one entry
    Handles,        \* addresses of handles, numbers
    Keys,           \* pairs of a file and an offset
    SizeOf,         \* key -> size of its page
    PriorityOf,     \* key -> priority that the tier of its page has
    Capacity,
    HighPool, HighCapacity,     \* whether high_pri_ratio > 0, and lru_high_capacity
    LowPool, LowCapacity,       \* whether low_pri_ratio > 0, and lru_low_capacity
    Dummy,          \* the handle that ends the list
    Free            \* a handle that is not allocated, and an entry that is not held

VARIABLES
    shard,      \* LRUCacheShard
    entry       \* client -> the entry it holds: a handle and its token

vars == <<shard, entry>>

Files == {k[1] : k \in Keys}

\* Key::file_id
FileOf(k) == k[1]

-----------------------------------------------------------------------------
(* Lists of handles. *)

\* Position of a handle, 0 for the dummy, which is before the first and after the last.
Pos(list, h) == IF h \in Range(list) THEN CHOOSE i \in DOMAIN list : list[i] = h ELSE 0

InsertAfter(list, m, h) == InsertAt(list, Pos(list, m) + 1, h)

NextOf(list, h) == IF Pos(list, h) < Len(list) THEN list[Pos(list, h) + 1] ELSE Dummy

PrevOf(list, h) == IF Pos(list, h) > 1 THEN list[Pos(list, h) - 1] ELSE Dummy

\* The handles of a file are a ring, here from its head on.  link_file puts a handle
\* before the head.
LinkFile(s, h) == [s EXCEPT !.files[FileOf(s.hs[h].key)] = Append(@, h)]

\* unlink_file: the next handle becomes the head.
UnlinkedFile(ring, h) ==
    SubSeq(ring, Pos(ring, h) + 1, Len(ring)) \o SubSeq(ring, 1, Pos(ring, h) - 1)

UnlinkFile(s, h) == [s EXCEPT !.files[FileOf(s.hs[h].key)] = UnlinkedFile(@, h)]

-----------------------------------------------------------------------------
(* Pools. *)

\* The two loops of maintain_priority_size: the first handle of the high pool becomes
\* the last one of the low pool, ...
RECURSIVE DemoteHigh(_)
DemoteHigh(s) ==
    LET h == NextOf(s.lru, s.low)
    IN  IF s.highUsage <= HighCapacity \/ h = Dummy THEN s
        ELSE DemoteHigh([s EXCEPT !.low = h, !.hs[h].inPri = "low",
                                  !.highUsage = @ - s.hs[h].charge,
                                  !.lowUsage = @ + s.hs[h].charge])

\* ... and the first one of the low pool the last one of the bottom pool.
RECURSIVE DemoteLow(_)
DemoteLow(s) ==
    LET h == NextOf(s.lru, s.bottom)
    IN  IF s.lowUsage <= LowCapacity \/ h = Dummy THEN s
        ELSE DemoteLow([s EXCEPT !.bottom = h, !.hs[h].inPri = "bottom",
                                 !.lowUsage = @ - s.hs[h].charge])

MaintainPrioritySize(s) == DemoteLow(DemoteHigh(s))

\* The branches of link_lru: as the newest or the oldest handle of a pool.
LinkHigh(s, h, recent) ==
    MaintainPrioritySize(
        [s EXCEPT !.lru = IF recent THEN Append(@, h) ELSE InsertAfter(@, s.low, h),
                  !.hs[h].inPri = "high", !.highUsage = @ + s.hs[h].charge])

LowMarker(s, h, recent) == IF recent \/ s.bottom = s.low THEN h ELSE s.low

LinkLow(s, h, recent) ==
    LET t == MaintainPrioritySize(
                [s EXCEPT !.lru = InsertAfter(@, IF recent THEN s.low ELSE s.bottom, h),
                          !.hs[h].inPri = "low", !.lowUsage = @ + s.hs[h].charge])
    IN  [t EXCEPT !.low = LowMarker(t, h, recent)]

LinkBottom(s, h, recent) ==
    LET t == [s EXCEPT !.lru = InsertAfter(@, IF recent THEN s.bottom ELSE Dummy, h),
                       !.hs[h].inPri = "bottom"]
    IN  IF recent \/ s.bottom = Dummy
        THEN [t EXCEPT !.low = IF s.bottom = s.low THEN h ELSE @, !.bottom = h]
        ELSE t

LinkLru(s, h, recent) ==
    LET pri == s.hs[h].pri
        t == CASE HighPool /\ pri = "high"              -> LinkHigh(s, h, recent)
               [] LowPool /\ ((pri = "high" /\ ~HighPool) \/ pri = "low") -> LinkLow(s, h, recent)
               [] OTHER                                 -> LinkBottom(s, h, recent)
    IN  [t EXCEPT !.lruUsage = @ + s.hs[h].charge]

\* A marker at the handle that is unlinked moves to the one before it.
Retreat(list, m, h) == IF m = h THEN PrevOf(list, h) ELSE m

\* LRUHandle::in_cache_priority
PoolOf(s, h) == s.hs[h].inPri

UnlinkLru(s, h) ==
    LET c == s.hs[h].charge
    IN  [s EXCEPT !.low = Retreat(s.lru, @, h), !.bottom = Retreat(s.lru, @, h),
                  !.lru = Remove(@, h),
                  !.lruUsage = @ - c,
                  !.highUsage = IF PoolOf(s, h) = "high" THEN @ - c ELSE @,
                  !.lowUsage = IF PoolOf(s, h) = "low" THEN @ - c ELSE @]

-----------------------------------------------------------------------------
(* The table. *)

TableRemove(s, k) ==
    [s EXCEPT !.pages[k] = Free,
              !.hs = IF s.pages[k] = Free THEN @ ELSE [@ EXCEPT ![s.pages[k]].inCache = FALSE]]

\* insert returns the handle that it replaces.
TableInsert(s, h) ==
    LET k == s.hs[h].key
    IN  [TableRemove(s, k) EXCEPT !.pages[k] = h, !.hs[h].inCache = TRUE]

ClearHandle(s, h) == [s EXCEPT !.usage = @ - s.hs[h].charge, !.hs[h] = Free]

\* Mutant of HasRefs: a handle that leaves the table is always freed.
HasRefsNever(s, h) == FALSE

HasRefs(s, h) == s.hs[h].refs > 0

TryRemoveCacheHandle(s, h) ==
    IF HasRefs(s, h) THEN s ELSE ClearHandle(UnlinkFile(UnlinkLru(s, h), h), h)

RemoveKey(s, k) ==
    IF s.pages[k] = Free THEN s ELSE TryRemoveCacheHandle(TableRemove(s, k), s.pages[k])

\* The loop of evict_lru.
RECURSIVE EvictLru(_, _)
EvictLru(s, charge) ==
    IF s.usage + charge <= Capacity \/ s.lru = << >> THEN s
    ELSE LET h == Head(s.lru)
             t == UnlinkFile(UnlinkLru(TableRemove(s, s.hs[h].key), h), h)
         IN  EvictLru(ClearHandle(t, h), charge)

NewHandle(k, charge, pri) ==
    [key |-> k, charge |-> charge, refs |-> 0, inCache |-> FALSE, detached |-> FALSE,
     pri |-> pri, inPri |-> "bottom"]

\* Whether insert is told to leave a full cache alone: refill_cold_when_not_full.
Refuses(s, charge, cold) == cold /\ s.usage + charge > Capacity

\* LRUCacheShard::insert of a handle into the table.
Inserted(s, h, k, charge, pri) ==
    LET t == [EvictLru(s, charge) EXCEPT !.hs[h] = NewHandle(k, charge, pri)]
        u == TableInsert(t, h)
        v == IF t.pages[k] = Free THEN u ELSE TryRemoveCacheHandle(u, t.pages[k])
    IN  [v EXCEPT !.usage = @ + charge, !.hs[h].refs = 1]

\* Whether release keeps a handle.
Keeps(s, token) == s.usage <= Capacity /\ token # "discard"

\* LRUCacheShard::release
Released(s, h, token) ==
    LET t == [s EXCEPT !.hs[h].refs = @ - 1]
    IN  CASE s.hs[h].detached                 -> [s EXCEPT !.hs[h] = Free]
          [] ~s.hs[h].detached /\ t.hs[h].refs > 0  -> t
          [] ~s.hs[h].detached /\ t.hs[h].refs <= 0 ->
                IF ~s.hs[h].inCache THEN ClearHandle(t, h)
                ELSE IF Keeps(t, token) THEN LinkFile(LinkLru(t, h, token = "recent"), h)
                ELSE ClearHandle(TableRemove(t, s.hs[h].key), h)

-----------------------------------------------------------------------------
(* Operations. *)

\* LRUCache::insert.  Which free address the handle gets does not matter.
Insert(c, k, charge, pri, cold) ==
    LET free == {h \in Handles : shard.hs[h] = Free}
        h == Min(free)
        holds(token) == entry' = [entry EXCEPT ![c] = [handle |-> h, key |-> k, token |-> token]]
    IN  /\ entry[c] = Free /\ free # {}
        /\ IF Refuses(shard, charge, cold)
           THEN /\ shard' = [shard EXCEPT !.hs[h] =
                                [NewHandle(k, charge, "high") EXCEPT !.detached = TRUE]]
                /\ holds("discard")
           ELSE /\ shard' = Inserted(shard, h, k, charge, pri)
                /\ holds(IF cold THEN "old" ELSE "recent")

\* PageFiles::read_page after a miss, and ::populate_cache, whose guard a Release drops
ReadPage(c, k, cold) == Insert(c, k, SizeOf[k], PriorityOf[k], cold)
PopulateCache(c, k) == Insert(c, k, SizeOf[k], "high", FALSE)

\* LRUCache::lookup
Lookup(c, k) ==
    LET h == shard.pages[k]
        t == IF HasRefs(shard, h) THEN shard ELSE UnlinkFile(UnlinkLru(shard, h), h)
    IN  /\ entry[c] = Free /\ h # Free
        /\ shard' = [t EXCEPT !.hs[h].refs = @ + 1]
        /\ entry' = [entry EXCEPT ![c] = [handle |-> h, key |-> k, token |-> "recent"]]

\* CacheToken::return_cache_as_old, of a page that a consolidation reads
ReturnAsOld(c) ==
    /\ entry[c] # Free
    /\ entry' = [entry EXCEPT ![c].token = "old"]
    /\ UNCHANGED shard

\* The drop of an entry
Release(c) ==
    /\ entry[c] # Free
    /\ shard' = Released(shard, entry[c].handle, entry[c].token)
    /\ entry' = [entry EXCEPT ![c] = Free]

Erase(k) ==
    /\ shard.pages[k] # Free
    /\ shard' = RemoveKey(shard, k)
    /\ UNCHANGED entry

\* The loop of LRUCacheShard::erase_file_pages goes around the ring, which shrinks.
ErasedFile(s, f) ==
    FoldLeft(LAMBDA t, h : RemoveKey(t, s.hs[h].key), s, s.files[f])

EraseFilePages(f) ==
    /\ shard.files[f] # << >>
    /\ shard' = ErasedFile(shard, f)
    /\ UNCHANGED entry

Init ==
    /\ shard = [hs |-> [h \in Handles |-> Free], pages |-> [k \in Keys |-> Free],
                files |-> [f \in Files |-> << >>], lru |-> << >>, low |-> Dummy,
                bottom |-> Dummy, usage |-> 0, lruUsage |-> 0, highUsage |-> 0, lowUsage |-> 0]
    /\ entry = [c \in Clients |-> Free]

Next ==
    \/ \E c \in Clients, k \in Keys, cold \in BOOLEAN : ReadPage(c, k, cold)
    \/ \E c \in Clients, k \in Keys : PopulateCache(c, k)
    \/ \E c \in Clients, k \in Keys : Lookup(c, k)
    \/ \E c \in Clients : ReturnAsOld(c) \/ Release(c)
    \/ \E k \in Keys : Erase(k)
    \/ \E f \in Files : EraseFilePages(f)

Spec == Init /\ [][Next]_vars

-----------------------------------------------------------------------------
(* Properties. *)

Used == {h \in Handles : shard.hs[h] # Free}

Charge(hs) == MapThenSumSet(LAMBDA h : shard.hs[h].charge, hs)

Pooled(pool) == {h \in Range(shard.lru) : shard.hs[h].inPri = pool}

\* A handle is freed exactly when nothing refers to it: entries point to the handle
\* of their key, a handle counts its entries, and one without entries is in the list,
\* in the table, or detached.
HandlesKept ==
    /\ \A c \in Clients : entry[c] # Free => /\ entry[c].handle \in Used
                                             /\ shard.hs[entry[c].handle].key = entry[c].key
    /\ \A k \in Keys : shard.pages[k] # Free =>
          /\ shard.pages[k] \in Used
          /\ shard.hs[shard.pages[k]].key = k /\ shard.hs[shard.pages[k]].inCache
    /\ \A h \in Used :
          LET refs == Cardinality({c \in Clients : entry[c] # Free /\ entry[c].handle = h})
          IN  /\ shard.hs[h].inCache <=> shard.pages[shard.hs[h].key] = h
              /\ IF shard.hs[h].detached THEN refs = 1 ELSE shard.hs[h].refs = refs
              /\ refs = 0 <=> h \in Range(shard.lru)
              /\ refs = 0 => shard.hs[h].inCache

\* The counters are the sums of what they count.
Accounted ==
    /\ shard.usage = Charge({h \in Used : ~shard.hs[h].detached})
    /\ shard.lruUsage = Charge(Range(shard.lru))
    /\ shard.highUsage = Charge(Pooled("high"))
    /\ shard.lowUsage = Charge(Pooled("low"))

\* The pools follow each other in the list, the markers are the last handles of the
\* two lower ones, and the upper ones are within their capacities.
PoolsOrdered ==
    /\ \A i \in DOMAIN shard.lru :
          shard.hs[shard.lru[i]].inPri =
             CASE i <= Pos(shard.lru, shard.bottom) -> "bottom"
               [] i > Pos(shard.lru, shard.bottom) /\ i <= Pos(shard.lru, shard.low) -> "low"
               [] i > Pos(shard.lru, shard.bottom) /\ i > Pos(shard.lru, shard.low) -> "high"
    /\ {shard.bottom, shard.low} \subseteq Range(shard.lru) \cup {Dummy}
    /\ HighPool => shard.highUsage <= HighCapacity
    /\ LowPool => shard.lowUsage <= LowCapacity

\* The cache is larger than its capacity only while every handle in it is in use:
\* evict_lru and release leave nothing to evict.
WithinCapacity == shard.usage > Capacity => shard.lru = << >>

\* The ring of a file has the handles of the list that are pages of it, once each.
FilesLinked ==
    \A f \in Files :
       /\ Range(shard.files[f]) = {h \in Range(shard.lru) : FileOf(shard.hs[h].key) = f}
       /\ IsInjective(shard.files[f])

\* After erase_file_pages the only pages of the file in the cache are in use.
FileErased ==
    \A f \in Files : EraseFilePages(f) =>
       \A k \in Keys : FileOf(k) = f /\ shard'.pages[k] # Free =>
          \E c \in Clients : entry[c] # Free /\ entry[c].handle = shard'.pages[k]
=============================================================================
