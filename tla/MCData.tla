------------------------------- MODULE MCData -------------------------------
(***************************************************************************)
(* Instances of the components that lay out, iterate, store, cache and     *)
(* find pages, for TLC.  A behaviour is one of a single component, the one *)
(* that `part' names; the variables of the others are absent, those of     *)
(* RadixTable keep their initial values.                                   *)
(***************************************************************************)
EXTENDS RadixTable, TLC

CONSTANTS Vacant

VARIABLES
    part,
    mem, page,                                                                \* PageLayout
    chain, mode, lsn, pos, last, skip, from, found, out, done,                \* PageIters
    option, phase, w, group, index, dealloc, groups, tables, content, reading, \* PageFile
    shard, entry,                                                             \* LruCache
    slot, occupancy, usage, detachedUsage, clock, th, held, ops, alone, gone  \* ClockCache

layoutVars == <<mem, page>>
iterVars == <<chain, mode, lsn, pos, last, skip, from, found, out, done>>
fileVars == <<option, phase, w, group, index, dealloc, groups, tables, content, reading>>
lruVars == <<shard, entry>>
clockVars == <<slot, occupancy, usage, detachedUsage, clock, th, held, ops, alone, gone>>
dataVars == <<part, vars, layoutVars, iterVars, fileVars, lruVars, clockVars>>

Symmetry == Permutations(Threads)
-----------------------------------------------------------------------------
(* Bytes have the values 0..3; keys and values are empty or have the       *)
(* largest byte.                                                           *)
Raws == {<<>>, <<3>>}
LeafItem == [raw : Raws, lsn : {0, 4^8 - 1}, put : {TRUE}, val : {<<>>, <<0, 3>>}]
              \cup [raw : Raws, lsn : {1}, put : {FALSE}, val : {<<>>}]
IndexItem == [raw : Raws, id : {1}, epoch : {0, 4^6 - 1}]
ListsOf(S) == {<<>>} \cup {<<x>> : x \in S} \cup {<<x, y>> : x, y \in S}

Layout == INSTANCE PageLayout WITH
    Base <- 4, Leaves <- ListsOf(LeafItem), Indexes <- ListsOf(IndexItem), Fills <- {0, 3},
    Epochs <- {0, 1, 4^6 - 1}, Lens <- {1, 3}, Nexts <- {0, 4^8 - 1}
-----------------------------------------------------------------------------
DataPage(items) == [kind |-> "data", items |-> items]
SplitPage(k) == [kind |-> "split", items |-> {[k |-> k, id |-> 9, epoch |-> 0]}]

\* A chain, or the chain after its range was cut at k and more was written.
WithSplit(c, k) ==
    {c} \cup {[n \in 1..(Len(c) + 1) |->
                 IF n = m THEN SplitPage(k)
                 ELSE IF n < m THEN DataPage({i \in c[n].items : i.k < k})
                 ELSE c[n - 1]] : m \in 1..(Len(c) + 1)}

\* Versions 1..3 of two keys, some of them deletes; newer ones are in newer pages.
Versions == {vs \in SUBSET [k : {1, 2}, lsn : 1..3, val : {0, 1}] :
                \A i, j \in vs : i.k = j.k /\ i.lsn = j.lsn => i = j}
Slices == {<<3, 2, 1>>, <<2, 1, 1>>}
LeafChainsOf(n) ==
    UNION {UNION {WithSplit([p \in 1..g[1] |-> DataPage({i \in vs : g[4 - i.lsn] = g[1] + 1 - p})], 2)
                    : g \in Slices} : vs \in {v \in Versions : Cardinality(v) = n}}

\* Indexes of three children and up to two splits of them, each with a
\* placeholder for the end of the range if it has one.
Ix(k, id, epoch) == [k |-> k, id |-> id, epoch |-> epoch]
InnerBase == DataPage({Ix(0, 1, 0), Ix(3, 2, 0), Ix(6, 3, 0)})
Split1 == DataPage({Ix(0, 1, 1), Ix(2, 4, 0), Ix(3, 0, 0)})
Split2 == DataPage({Ix(0, 1, 2), Ix(1, 5, 0), Ix(2, 0, 0)})
Split3 == DataPage({Ix(6, 3, 1), Ix(7, 6, 0)})

Iters == INSTANCE PageIters WITH
    NoEnd <- 9, Lsns <- {0, 2}, Targets <- {2, 7}, LsnMax <- 9,
    LeafChains <- LeafChainsOf(3),
    InnerChains <-
       UNION {WithSplit(c, k) : k \in {2, 6},
          c \in {<<InnerBase>>, <<Split1, InnerBase>>, <<Split2, Split1, InnerBase>>,
                 <<Split3, InnerBase>>, <<Split1, Split3, InnerBase>>}}
-----------------------------------------------------------------------------
\* Contents are named by their lengths on disk; the longer one was compressed.
File == INSTANCE PageFile WITH
    GroupIds <- {4, 5}, Offsets <- {1, 2, 3}, MaxPages <- 2, MaxDeallocs <- 1, PageIds <- {1},
    SizeOf <- [c \in {1, 3} |-> IF c = 1 THEN 1 ELSE 5], LengthOf <- [c \in {1, 3} |-> c], Deallocs <- {<<1, 7>>, <<2, 3>>},
    Align <- 2, IoSize <- 3, WordBits <- 2
-----------------------------------------------------------------------------
(* Two pages of a file, the first one an inner page, and a leaf page of    *)
(* size 2 of another file.                                                 *)
FilePages == {<<1, 1>>, <<1, 2>>, <<2, 1>>}

Lru == INSTANCE LruCache WITH
    Clients <- Threads, Handles <- 1..4, Keys <- FilePages,
    SizeOf <- [k \in FilePages |-> IF k = <<2, 1>> THEN 2 ELSE 1],
    PriorityOf <- [k \in FilePages |-> IF k = <<1, 1>> THEN "high" ELSE "low"],
    Capacity <- 3, HighPool <- TRUE, HighCapacity <- 1, LowPool <- FALSE, LowCapacity <- 0,
    Dummy <- 0, Free <- Vacant

\* Pages of size 1 of three files, for each of the pools.
ThreePages == {<<1, 1>>, <<2, 1>>, <<3, 1>>}

LruPools == INSTANCE LruCache WITH
    Clients <- {"reader"}, Handles <- 1..3, Keys <- ThreePages,
    SizeOf <- [k \in ThreePages |-> 1],
    PriorityOf <- [k \in ThreePages |-> IF k = <<1, 1>> THEN "bottom" ELSE "low"],
    Capacity <- 3, HighPool <- TRUE, HighCapacity <- 1, LowPool <- TRUE, LowCapacity <- 1,
    Dummy <- 0, Free <- Vacant
-----------------------------------------------------------------------------
\* Keys 1 and 3 begin at the same slot, key 2 at the next one.
Keys == {"1", "2", "3"}
BaseSlots == [k \in Keys |-> IF k = "2" THEN 1 ELSE 0]
Charges == [k \in Keys |-> IF k = "3" THEN 3 ELSE 1]

Clock == INSTANCE ClockCache WITH
    Keys <- {"1", "2"}, NumSlots <- 2, BaseSlot <- BaseSlots, Increment <- [k \in Keys |-> 1],
    Charge <- Charges, Capacity <- 1, OccupancyLimit <- 1, Strict <- FALSE,
    StepSize <- 2, TopBit <- 16, MaxOps <- 3

\* An insert that exceeds the capacity is refused; key 3 is larger than the cache.
ClockStrict == INSTANCE ClockCache WITH
    Keys <- {"1", "3"}, NumSlots <- 4, BaseSlot <- BaseSlots, Increment <- [k \in Keys |-> 1],
    Charge <- Charges, Capacity <- 2, OccupancyLimit <- 3, Strict <- TRUE,
    StepSize <- 2, TopBit <- 16, MaxOps <- 4
-----------------------------------------------------------------------------
NoLayout == mem = 0 /\ page = 0
NoIter ==
    /\ chain = 0 /\ mode = 0 /\ lsn = 0 /\ pos = 0 /\ last = 0
    /\ skip = 0 /\ from = 0 /\ found = 0 /\ out = 0 /\ done = 0
NoFile ==
    /\ option = 0 /\ phase = 0 /\ w = 0 /\ group = 0 /\ index = 0
    /\ dealloc = 0 /\ groups = 0 /\ tables = 0 /\ content = 0 /\ reading = 0
NoLru == shard = 0 /\ entry = 0
NoClock ==
    /\ slot = 0 /\ occupancy = 0 /\ usage = 0 /\ detachedUsage = 0 /\ clock = 0
    /\ th = 0 /\ held = 0 /\ ops = 0 /\ alone = 0 /\ gone = 0

DataInit ==
    /\ Init
    /\ \/ part = "radix" /\ NoLayout /\ NoIter /\ NoFile /\ NoLru /\ NoClock
       \/ part = "layout" /\ Layout!Init /\ NoIter /\ NoFile /\ NoLru /\ NoClock
       \/ part = "iters" /\ Iters!Init /\ NoLayout /\ NoFile /\ NoLru /\ NoClock
       \/ part = "file" /\ File!Init /\ NoLayout /\ NoIter /\ NoLru /\ NoClock
       \/ part = "lru" /\ Lru!Init /\ NoLayout /\ NoIter /\ NoFile /\ NoClock
       \/ part = "lru pools" /\ LruPools!Init /\ NoLayout /\ NoIter /\ NoFile /\ NoClock
       \/ part = "clock" /\ Clock!Init /\ NoLayout /\ NoIter /\ NoFile /\ NoLru
       \/ part = "clock strict" /\ ClockStrict!Init /\ NoLayout /\ NoIter /\ NoFile /\ NoLru

Step ==
    \/ part = "radix" /\ Next /\ UNCHANGED <<layoutVars, iterVars, fileVars, lruVars, clockVars>>
    \/ part = "layout" /\ Layout!Next /\ UNCHANGED <<vars, iterVars, fileVars, lruVars, clockVars>>
    \/ part = "iters" /\ Iters!Next /\ UNCHANGED <<vars, layoutVars, fileVars, lruVars, clockVars>>
    \/ part = "file" /\ File!Next /\ UNCHANGED <<vars, layoutVars, iterVars, lruVars, clockVars>>
    \/ part = "lru" /\ Lru!Next /\ UNCHANGED <<vars, layoutVars, iterVars, fileVars, clockVars>>
    \/ part = "lru pools" /\ LruPools!Next /\ UNCHANGED <<vars, layoutVars, iterVars, fileVars, clockVars>>
    \/ part = "clock" /\ Clock!Next /\ UNCHANGED <<vars, layoutVars, iterVars, fileVars, lruVars>>
    \/ part = "clock strict" /\ ClockStrict!Next /\ UNCHANGED <<vars, layoutVars, iterVars, fileVars, lruVars>>

DataNext == UNCHANGED part /\ Step

DataSpec == DataInit /\ [][DataNext]_dataVars
-----------------------------------------------------------------------------
\* A page reads back as it was built and as its header was set since, whatever the
\* buffer held before and in whatever order the fields are set, up to their largest
\* values; its size is what with_iter computed, and the page info tells the same as the
\* page (PagePtr, SortedPageBuf, SortedPageRef, PageInfo).
PageReadsBack ==
    part = "layout" =>
       Layout!HeaderReadsBack /\ Layout!InfoAgrees /\ Layout!ItemsReadBack /\ Layout!SizeIsExact

\* For any order of next, rewind and seek, an iterator over a chain returns what the
\* definitions of PageData, which the tree is built from, say: the items of the chain as
\* of an LSN in key order, and a seek reports a key exactly if some page has it; pages
\* are split between keys (MergingIter, PageIter, MergingLeafPageIter,
\* MergingInnerPageIter, SortedPageIter, into_split_iter).
ItersExact ==
    part = "iters" =>
       Iters!ReturnsExpected /\ Iters!SeekFinds /\ Iters!RankIsRank /\ Iters!SplitsBetweenKeys

\* A page is read back from the file at the offset that the writer returned for it,
\* however reads and writes are aligned, batched and cut short; opening the file yields
\* the metadata that the builder returned, except that the size in a PageInfo becomes the
\* size on disk; and the size of a group is the sum of its active pages (BufferedWriter,
\* FileBuilder, IndexBlock, FileReader, PageGroup).
FileReadsBack ==
    part = "file" =>
       File!OffsetsExact /\ File!MetaRecovered /\ File!PagesRead /\ File!ActiveCounted

\* The LRU cache frees a handle exactly when nothing refers to it, and its counters, its
\* three pools and its rings of files agree with its list; it exceeds its capacity only
\* while every handle is in use, and erasing a file leaves only pages in use
\* (LRUCacheShard).
LruExact ==
    /\ [](/\ part = "lru" =>
                /\ Lru!HandlesKept /\ Lru!Accounted /\ Lru!PoolsOrdered
                /\ Lru!WithinCapacity /\ Lru!FilesLinked
          /\ part = "lru pools" => LruPools!Accounted /\ LruPools!PoolsOrdered)
    /\ [][part = "lru" => Lru!FileErased]_dataVars

\* The clock cache keeps an entry that a thread holds, whatever the others erase, release,
\* evict or insert; no two threads free or fill one slot, the counters of an entry count
\* its references, and no path of insert leaks usage or occupancy (ClockCacheShard).
ClockExact ==
    /\ part = "clock" =>
          Clock!EntriesKept /\ Clock!OneOwner /\ Clock!RefsCounted /\ Clock!UsageExact
    /\ part = "clock strict" =>
          /\ ClockStrict!EntriesKept /\ ClockStrict!OneOwner
          /\ ClockStrict!RefsCounted /\ ClockStrict!UsageExact
=============================================================================
