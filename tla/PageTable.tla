----------------------------- MODULE PageTable -----------------------------
(***************************************************************************)
(* The page table and the transactions that change it: the latch-free      *)
(* mapping from page ids to page addresses (page_table.rs), its free list  *)
(* of ids, and the operations of PageTxn (page_txn.rs) that allocate ids,  *)
(* publish addresses with compare-and-swap, commit, or are dropped and     *)
(* give their ids back.  One action per atomic access of the shared words. *)
(*                                                                         *)
(* Page addresses and free-list links share the words of the table, as in  *)
(* the code.  An address is a number above every id (the file id is its    *)
(* upper half and is never 0), in the order of allocation.                 *)
(***************************************************************************)
EXTENDS Integers, Sequences, FiniteSetsExt

CONSTANTS
    Tasks,      \* tasks that run page transactions
    MAX_ID,     \* the first id that is never handed out
    MaxMapped,  \* bound: ids up to this one may be mapped at start
    MaxAddr,    \* bound: number of page addresses ever allocated
    MaxInsert,  \* pages a transaction inserts: a split 1, a root split 2
    Inserters   \* tasks whose transactions insert pages; the others only update

VARIABLES
    index,      \* id -> address of the page, or link to the next free id
    next,       \* the next id that was never allocated
    free,       \* head of the free list
    clock,      \* page addresses allocated so far
    pc,         \* where each task is
    reg,        \* the locals `id` and `next` of alloc and dealloc
    txn,        \* the transaction of each task
    live,       \* ids whose insertion was committed
    aba         \* history: an exchange has put a stale link at the head of the free list

vars == <<index, next, free, clock, pc, reg, txn, live, aba>>

NAN_ID == 0
MIN_ID == 1
Ids == MIN_ID..(MAX_ID + Cardinality(Tasks))
Addr(n) == MAX_ID + Cardinality(Tasks) + n
Addrs == {Addr(n) : n \in 1..MaxAddr + MaxMapped}

NoTxn == [page |-> NAN_ID, old |-> 0, new |-> 0, left |-> 0, ids |-> <<>>]
NoReg == [id |-> NAN_ID, next |-> NAN_ID]

Elems(s) == {s[i] : i \in DOMAIN s}

(***************************************************************************)
(* PageTableBuilder: set() records the mappings found by recovery and the  *)
(* largest id, build() threads the unmapped ids below it into the free     *)
(* list, smallest id first.                                                *)
(***************************************************************************)
FreeAfter(i, max_id, mapped) ==
    LET later == {j \in (i + 1)..max_id : j \notin mapped}
    IN  IF later = {} THEN NAN_ID ELSE Min(later)

\* The first id the new table allocates.
NextId(max_id) == max_id + 1

Build(mapped) ==
    LET max_id == Max(mapped) IN
    /\ index = [i \in Ids |-> IF i \in mapped THEN Addr(i)
                              ELSE IF i < max_id THEN FreeAfter(i, max_id, mapped)
                              ELSE 0]
    /\ free = FreeAfter(NAN_ID, max_id, mapped)
    /\ next = NextId(max_id)

Init ==
    /\ \E mapped \in SUBSET (MIN_ID..MaxMapped) :
          MIN_ID \in mapped /\ Build(mapped) /\ live = mapped
    /\ clock = MaxMapped
    /\ pc = [t \in Tasks |-> "idle"]
    /\ reg = [t \in Tasks |-> NoReg]
    /\ txn = [t \in Tasks |-> NoTxn]
    /\ aba = FALSE

\* PageTable::get, set and cas, each one atomic access of a word.
Get(id) == index[id]
Set(id, new) == index' = [index EXCEPT ![id] = new]
Cas(id, old, new) == index[id] = old /\ Set(id, new)

Goto(t, l) == pc' = [pc EXCEPT ![t] = l]

(***************************************************************************)
(* Guard::begin and page_addr: the task reads the address of a page it     *)
(* will update, and plans `left` insertions.                               *)
(***************************************************************************)
Begin(t) ==
    /\ pc[t] = "idle"
    /\ \E p \in live, n \in 0..(IF t \in Inserters THEN MaxInsert ELSE 0) :
          txn' = [txn EXCEPT ![t] = [NoTxn EXCEPT !.page = p, !.old = Get(p), !.left = n]]
    /\ Goto(t, "alloc_page")
    /\ UNCHANGED <<index, next, free, clock, reg, live, aba>>

\* alloc_size: the buffer is large enough.
HasSpace == clock < MaxAddr + MaxMapped

\* alloc_page: the buffer hands out the next address.
AllocPage(t) ==
    /\ pc[t] = "alloc_page"
    /\ HasSpace
    /\ clock' = clock + 1
    /\ txn' = [txn EXCEPT ![t].new = Addr(clock')]
    /\ Goto(t, IF txn[t].left > 0 THEN "load_free" ELSE "update_page")
    /\ UNCHANGED <<index, next, free, reg, live, aba>>

\* alloc_page returns Error::Again and the transaction is dropped.
AllocPageAgain(t) ==
    /\ pc[t] = "alloc_page"
    /\ Goto(t, "drop")
    /\ UNCHANGED <<index, next, free, clock, reg, txn, live, aba>>

(***************************************************************************)
(* Inner::alloc: pop the free list, or take the next unused id.            *)
(***************************************************************************)
AllocLoadFree(t) ==
    /\ pc[t] = "load_free"
    /\ reg' = [reg EXCEPT ![t].id = free]
    /\ Goto(t, IF free = NAN_ID THEN "load_next" ELSE "load_link")
    /\ UNCHANGED <<index, next, free, clock, txn, live, aba>>

AllocLoadLink(t) ==
    /\ pc[t] = "load_link"
    /\ reg' = [reg EXCEPT ![t].next = Get(reg[t].id)]
    /\ Goto(t, "pop_free")
    /\ UNCHANGED <<index, next, free, clock, txn, live, aba>>

\* Mutant of HeadIs: the head is stored, not compared and exchanged.
HeadIsAnything(id) == TRUE

\* The comparison of the compare-exchange on `free`.
HeadIs(id) == free = id

\* The exchange compares ids only.  It succeeds, too, when the id was popped, given
\* back and linked anew since the task has read its link: `aba' remembers that.
AllocPopFree(t) ==
    /\ pc[t] = "pop_free"
    /\ \/ /\ HeadIs(reg[t].id)
          /\ free' = reg[t].next
          /\ aba' = (free = reg[t].id /\ reg[t].next # Get(reg[t].id))
          /\ Goto(t, "insert_page")
          /\ UNCHANGED reg
       \/ /\ ~HeadIs(reg[t].id)
          /\ reg' = [reg EXCEPT ![t].id = free]
          /\ Goto(t, IF free = NAN_ID THEN "load_next" ELSE "load_link")
          /\ UNCHANGED <<free, aba>>
    /\ UNCHANGED <<index, next, clock, txn, live>>

\* The test of `next` before it is incremented.
IdsLeft == next < MAX_ID

\* next.load: `None`, and the `expect` of insert_page unwinds, when it is too big.
AllocLoadNext(t) ==
    /\ pc[t] = "load_next"
    /\ Goto(t, IF IdsLeft THEN "fetch_add" ELSE "drop")
    /\ UNCHANGED <<index, next, free, clock, reg, txn, live, aba>>

AllocFetchAdd(t) ==
    /\ pc[t] = "fetch_add"
    /\ reg' = [reg EXCEPT ![t].id = next]
    /\ next' = next + 1
    /\ Goto(t, IF next < MAX_ID THEN "insert_page" ELSE "drop")
    /\ UNCHANGED <<index, free, clock, txn, live, aba>>

\* insert_page: store the address of the new page, remember the id.
InsertPage(t) ==
    /\ pc[t] = "insert_page"
    /\ Set(reg[t].id, txn[t].new)
    /\ txn' = [txn EXCEPT ![t].ids = Append(@, reg[t].id), ![t].left = @ - 1]
    /\ reg' = [reg EXCEPT ![t] = NoReg]
    /\ Goto(t, "alloc_page")
    /\ UNCHANGED <<next, free, clock, live, aba>>

(***************************************************************************)
(* update_page: publish the new address if the page still has the old one. *)
(* On success everything is committed.  On conflict the caller either      *)
(* gives up, dropping the transaction, or (a writer of a delta, which      *)
(* inserted no page) retries on top of the address it found.               *)
(***************************************************************************)

\* The early return of update_page and replace_page.
IsNewer(x) == x.new > x.old

\* The address a failed compare-exchange returns.
Conflict(x) == Get(x.page)

UpdatePage(t) ==
    /\ pc[t] = "update_page"
    /\ LET x == txn[t] IN
       \/ /\ ~IsNewer(x)
          /\ Goto(t, "drop")
          /\ UNCHANGED <<index, txn, live>>
       \/ /\ IsNewer(x)
          /\ Cas(x.page, x.old, x.new)
          /\ live' = live \cup Elems(x.ids)
          /\ txn' = [txn EXCEPT ![t] = NoTxn]
          /\ Goto(t, "idle")
       \/ /\ IsNewer(x)
          /\ Conflict(x) # x.old
          /\ \/ Goto(t, "drop") /\ UNCHANGED txn
             \/ /\ x.ids = <<>>
                /\ txn' = [txn EXCEPT ![t].old = Conflict(x)]
                /\ Goto(t, "update_page")
          /\ UNCHANGED <<index, live>>
    /\ UNCHANGED <<next, free, clock, reg, aba>>

(***************************************************************************)
(* PageTxn::drop without commit: Inner::dealloc for every inserted id.     *)
(***************************************************************************)
\* The ids that Drop gives back.
Inserted(t) == txn[t].ids

DropLoadFree(t) ==
    /\ pc[t] = "drop"
    /\ \/ /\ Inserted(t) = <<>>
          /\ txn' = [txn EXCEPT ![t] = NoTxn]
          /\ reg' = [reg EXCEPT ![t] = NoReg]
          /\ Goto(t, "idle")
       \/ /\ Inserted(t) # <<>>
          /\ reg' = [reg EXCEPT ![t] = [id |-> Head(Inserted(t)), next |-> free]]
          /\ Goto(t, "store_link")
          /\ UNCHANGED txn
    /\ UNCHANGED <<index, next, free, clock, live, aba>>

DeallocStoreLink(t) ==
    /\ pc[t] = "store_link"
    /\ Set(reg[t].id, reg[t].next)
    /\ Goto(t, "push_free")
    /\ UNCHANGED <<next, free, clock, reg, txn, live, aba>>

\* Where the loop of dealloc continues after a failed push.
RetryPush == "store_link"

DeallocPushFree(t) ==
    /\ pc[t] = "push_free"
    /\ \/ /\ HeadIs(reg[t].next)
          /\ free' = reg[t].id
          /\ txn' = [txn EXCEPT ![t].ids = Tail(@)]
          /\ Goto(t, "drop")
          /\ UNCHANGED reg
       \/ /\ ~HeadIs(reg[t].next)
          /\ reg' = [reg EXCEPT ![t].next = free]
          /\ Goto(t, RetryPush)
          /\ UNCHANGED <<free, txn>>
    /\ UNCHANGED <<index, next, clock, live, aba>>

Step(t) ==
    \/ AllocPage(t) \/ AllocPageAgain(t)
    \/ AllocLoadFree(t) \/ AllocLoadLink(t) \/ AllocPopFree(t)
    \/ AllocLoadNext(t) \/ AllocFetchAdd(t)
    \/ InsertPage(t) \/ UpdatePage(t)
    \/ DropLoadFree(t) \/ DeallocStoreLink(t) \/ DeallocPushFree(t)

\* A table whose free list is broken is not followed any further.
Next == ~aba /\ \E t \in Tasks : Begin(t) \/ Step(t)

Spec == Init /\ [][Next]_vars

-----------------------------------------------------------------------------
(* Properties. *)

\* The free list as read from its head, cut off after as many links as ids.
FreeList ==
    LET walk[n \in 0..Cardinality(Ids)] ==
            IF n = 0 THEN free
            ELSE IF walk[n - 1] \in Ids THEN index[walk[n - 1]] ELSE walk[n - 1]
    IN  walk

FreeIds == LET list == FreeList IN {list[n] : n \in DOMAIN list} \cap Ids

\* The id a task has popped or claimed and not yet stored in its transaction.
InHand(t) == IF pc[t] = "insert_page" THEN {reg[t].id} ELSE {}

\* The ids a task owns.
Held(t) == Elems(txn[t].ids) \cup InHand(t)

\* No page id has two owners: the ids of committed pages, of the free list and of
\* each running transaction are pairwise disjoint (Inner::alloc, Inner::dealloc).  This
\* and the next two properties hold until an exchange puts a stale link at the head.
NoDoubleAllocation ==
    LET freeIds == FreeIds IN
    /\ \A t \in Tasks : Held(t) \cap (live \cup freeIds) = {}
    /\ \A t, u \in Tasks : t # u => Held(t) \cap Held(u) = {}
    /\ live \cap freeIds = {}

\* The free list ends: following the links from its head reaches NAN_ID and never
\* an address or a cycle (the links written by dealloc and build).
FreeListEnds == FreeList[Cardinality(Ids)] = NAN_ID

\* No id is lost: every id ever handed out below MAX_ID is committed, free, or
\* owned by a running transaction, so aborted transactions leak none (Drop).
NoIdLost ==
    MIN_ID..(Min({next, MAX_ID}) - 1)
        = live \cup FreeIds \cup UNION {Held(t) : t \in Tasks}

=============================================================================
