---------------------------- MODULE WriteBuffer -----------------------------
(***************************************************************************)
(* One write buffer with its memory (page_store/write_buffer.rs): the      *)
(* packed state word and the compare and exchange loops on it, the records *)
(* that page transactions put into the memory (page_txn.rs), and the       *)
(* iterator of the flush job.  BufferSet has the set of buffers and counts *)
(* bytes only; here every load, exchange and memory write is a step, and   *)
(* integers have their width.                                              *)
(***************************************************************************)
EXTENDS Integers, Sequences, FiniteSets

CONSTANTS
    Tasks,          \* tasks that run page transactions
    BufSize,        \* buf_size in bytes, a power of two
    HALF,           \* the highest bit of a u32, 2^31 in the code
    ALIGN,          \* size_of::<usize>()
    PageSizes,      \* sizes of pages that are written, in bytes
    MaxRecords      \* bound: records of the buffer

\* The word and the capacity are multiples of the alignment, and the capacity is at most
\* the largest power of two of a u32; a page has at least a header, and no record is so
\* large that its size wraps around.
ASSUME SizesAssumption ==
    /\ ALIGN \in Nat \ {0} /\ HALF \in Nat /\ (2 * HALF) % ALIGN = 0
    /\ BufSize \in Nat /\ BufSize % ALIGN = 0 /\ BufSize <= HALF
    /\ PageSizes \subseteq {x \in Nat \ {0} : x + 3 * ALIGN < 2 * HALF} /\ ALIGN + 3 * ALIGN < 2 * HALF

\* The count of writers does not reach the seal bit.
ASSUME TasksAssumption == IsFiniteSet(Tasks) /\ Cardinality(Tasks) < HALF

VARIABLES
    word,       \* buffer_state
    mem,        \* the memory, in words of ALIGN bytes
    recs,       \* records that have space, by their number (history)
    task,       \* the transaction of each task
    flushes,    \* how often ReleaseState::Flush was returned
    iter        \* RecordIterator of the flush job: offset and items

vars == <<word, mem, recs, task, flushes, iter>>

GroupId == 1
NAN_ID == 0
HEADER == 2 * ALIGN                \* size_of::<RecordHeader>()
MOD == 2 * HALF
U32(x) == x % MOD

-----------------------------------------------------------------------------
(* BufferState. *)

Load(val) ==
    [allocated |-> val % MOD,
     writers |-> (val \div MOD) % HALF,
     sealed |-> (val \div (MOD * HALF)) % 2 = 1]

Apply(s) ==
    (IF s.sealed THEN MOD * HALF ELSE 0) + s.writers * MOD + s.allocated

Flushable(s) == s.sealed /\ s.writers = 0

\* next_multiple_of_u32
Aligned(x) == U32((U32(x + ALIGN - 1) \div ALIGN) * ALIGN)

\* record_size
RecordSize(x) == U32(HEADER + Aligned(x))

\* In a buffer of 2^31 bytes, no record takes all of it: where one did, the sum in
\* alloc_size would be 2^32 once the buffer is full, which is 0 in a u32.
ASSUME WholeBufferAssumption ==
    BufSize = HALF => \A x \in PageSizes \cup {ALIGN} : RecordSize(x) # HALF

\* Mutant of Full: the record has to begin in the buffer.
FullAtEnd(s, required) == s.allocated >= BufSize

\* BufferState::alloc_size
TooLarge(required) == Aligned(required) > BufSize
Full(s, required) == U32(s.allocated + Aligned(required)) > BufSize

-----------------------------------------------------------------------------
(* Records in memory. *)

Word(offset) == offset \div ALIGN
Uninit == [flags |-> "uninit", data |-> 0, size |-> 0]

\* The assertion of record_uninit and record_uninit_mut.
RecordInBounds(offset) == offset + HEADER < BufSize

\* The address of the page whose record is at an offset.
PageAddr(offset) == GroupId * MOD + (offset + HEADER)

\* header.write, and the body: its words carry the number of the record.
Written(m, offset, flags, data, size, n) ==
    [w \in DOMAIN m |->
       IF w = Word(offset) THEN [flags |-> flags, data |-> data, size |-> size]
       ELSE IF w > Word(offset + HEADER - 1) /\ w <= Word(offset + HEADER + size - 1)
            THEN [flags |-> "body", data |-> n, size |-> 0]
       ELSE m[w]]

\* record_ref: a page or a list of deallocated pages; other records have none.
HasRef(header) == header.flags \in {"page", "dealloc"}

\* WriteBuffer::page: the header of the page at an address, Uninit for a panic.
Page(addr) ==
    LET offset == addr % MOD IN
    IF /\ addr \div MOD = GroupId
       /\ offset % ALIGN = 0
       /\ offset >= HEADER
       /\ RecordInBounds(offset - HEADER)
       /\ mem[Word(offset - HEADER)].flags = "page"
    THEN mem[Word(offset - HEADER)] ELSE Uninit

-----------------------------------------------------------------------------
Idle == [pc |-> "idle", cur |-> 0, hold |-> FALSE, kind |-> "page", size |-> 0, mine |-> {}]

\* WriteBuffer::with_capacity
Init ==
    /\ word = Apply([sealed |-> FALSE, writers |-> 0, allocated |-> 0])
    /\ mem = [w \in 0..(Word(BufSize) - 1) |-> Uninit]
    /\ recs = <<>>
    /\ task = [t \in Tasks |-> Idle]
    /\ flushes = 0
    /\ iter = [offset |-> 0, items |-> <<>>, end |-> FALSE]

\* alloc_page and dealloc_pages: load the state for a record of a size.
StartAlloc(t, kind, size) ==
    /\ task[t].pc \in {"idle", "txn"}
    /\ Len(recs) + Cardinality({u \in Tasks : task[u].pc = "alloc"}) < MaxRecords
    /\ kind = "dealloc" => task[t].mine # {}
    /\ task' = [task EXCEPT ![t].pc = "alloc", ![t].cur = word, ![t].kind = kind, ![t].size = size]
    /\ UNCHANGED <<word, mem, recs, flushes, iter>>

\* acquire_writer of the first operation of a transaction (with_write_guard).
Acquires(tk) == ~tk.hold

\* Where a transaction goes whose operation failed: it is dropped.
Failed(tk) == IF tk.hold THEN "drop" ELSE "idle"

\* alloc_size returns Again or TooLargeSize, by the state it has loaded.
AllocFails(t) ==
    /\ task[t].pc = "alloc"
    /\ LET s == Load(task[t].cur)
           need == RecordSize(task[t].size)
       IN  s.sealed \/ TooLarge(need) \/ Full(s, need)
    /\ task' = [task EXCEPT ![t].pc = Failed(task[t]), ![t].cur = 0, ![t].size = 0]
    /\ UNCHANGED <<word, mem, recs, flushes, iter>>

\* The exchange of alloc_size.
AllocCas(t) ==
    LET s == Load(task[t].cur)
        need == RecordSize(task[t].size)
    IN
    /\ task[t].pc = "alloc"
    /\ ~(s.sealed \/ TooLarge(need) \/ Full(s, need))
    /\ IF word = task[t].cur
       THEN /\ word' = Apply([s EXCEPT !.allocated = U32(@ + Aligned(need)),
                                       !.writers = IF Acquires(task[t]) THEN @ + 1 ELSE @])
            /\ recs' = Append(recs, [offset |-> s.allocated, size |-> task[t].size,
                                     kind |-> task[t].kind, state |-> "new", id |-> NAN_ID])
            /\ task' = [task EXCEPT ![t].pc = "init", ![t].cur = 0, ![t].hold = TRUE,
                                    ![t].mine = @ \cup {Len(recs) + 1}]
       ELSE /\ task' = [task EXCEPT ![t].cur = word]
            /\ UNCHANGED <<word, recs>>
    /\ UNCHANGED <<mem, flushes, iter>>

\* new_page_at or new_dealloc_pages_record_at, and the caller writes the body.
InitRecord(t) ==
    /\ task[t].pc = "init"
    /\ LET n == CHOOSE m \in task[t].mine : recs[m].state = "new"
           r == recs[n]
       IN  /\ RecordInBounds(r.offset)
           /\ mem' = Written(mem, r.offset, r.kind, NAN_ID, r.size, n)
           /\ recs' = [recs EXCEPT ![n].state = "live"]
    /\ task' = [task EXCEPT ![t].pc = "txn", ![t].size = 0]
    /\ UNCHANGED <<word, flushes, iter>>

\* insert_page and update_page: the page of a record gets its id.
SetPageId(t, n) ==
    /\ task[t].pc = "txn" /\ n \in task[t].mine
    /\ recs[n].kind = "page" /\ recs[n].id = NAN_ID
    /\ mem' = [mem EXCEPT ![Word(recs[n].offset)].data = n]
    /\ recs' = [recs EXCEPT ![n].id = n]
    /\ UNCHANGED <<word, task, flushes, iter>>

\* commit: every page has its id; load the state to release the writer.
Commit(t) ==
    /\ task[t].pc = "txn"
    /\ \A n \in task[t].mine : recs[n].kind = "page" => recs[n].id # NAN_ID
    /\ task' = [task EXCEPT ![t].pc = "release", ![t].cur = word, ![t].mine = {}]
    /\ UNCHANGED <<word, mem, recs, flushes, iter>>

\* Mutant of Tombstoned: only the pages of an aborted transaction are marked.
TombstonedPages(n) == recs[n].kind = "page"

\* The records of an aborted transaction that become tombstones: its pages when it
\* is dropped, and the deallocations by replace_page.
Tombstoned(n) == TRUE

\* PageTxn::drop: tombstones, then load the state to release the writer.
Abort(t) ==
    /\ task[t].pc \in {"txn", "drop"}
    /\ LET dead == {n \in task[t].mine : Tombstoned(n)} IN
          mem' = [w \in DOMAIN mem |->
                    IF w \in {Word(recs[n].offset) : n \in dead}
                    THEN [mem[w] EXCEPT !.flags = "tombstone"] ELSE mem[w]]
    /\ recs' = [n \in DOMAIN recs |->
                  IF n \in task[t].mine THEN [recs[n] EXCEPT !.state = "dead"] ELSE recs[n]]
    /\ task' = [task EXCEPT ![t].pc = "release", ![t].cur = word, ![t].mine = {}]
    /\ UNCHANGED <<word, flushes, iter>>

\* Mutant of ReleasedAs: the state before the writer left decides.
ReleasedAsBefore(old, new) == Flushable(old)

\* What release_writer tells the caller: ReleaseState::Flush or not.
ReleasedAs(old, new) == Flushable(new)

\* The exchange of release_writer.
ReleaseCas(t) ==
    LET s == Load(task[t].cur)
        new == [s EXCEPT !.writers = @ - 1]
    IN
    /\ task[t].pc = "release"
    /\ IF word = task[t].cur
       THEN /\ word' = Apply(new)
            /\ flushes' = flushes + (IF ReleasedAs(s, new) THEN 1 ELSE 0)
            /\ task' = [task EXCEPT ![t] = Idle]
       ELSE /\ task' = [task EXCEPT ![t].cur = word]
            /\ UNCHANGED <<word, flushes>>
    /\ UNCHANGED <<mem, recs, iter>>

\* seal: load the state; Again if it is sealed.
StartSeal(t) ==
    /\ task[t].pc = "idle"
    /\ ~Load(word).sealed
    /\ task' = [task EXCEPT ![t].pc = "seal", ![t].cur = word]
    /\ UNCHANGED <<word, mem, recs, flushes, iter>>

\* The exchange of seal.
SealCas(t) ==
    LET s == Load(task[t].cur) IN
    /\ task[t].pc = "seal"
    /\ IF s.sealed
       THEN task' = [task EXCEPT ![t] = Idle] /\ UNCHANGED <<word, flushes>>
       ELSE IF word = task[t].cur
       THEN /\ word' = Apply([s EXCEPT !.sealed = TRUE])
            /\ flushes' = flushes + (IF s.writers > 0 THEN 0 ELSE 1)
            /\ task' = [task EXCEPT ![t] = Idle]
       ELSE /\ task' = [task EXCEPT ![t].cur = word]
            /\ UNCHANGED <<word, flushes>>
    /\ UNCHANGED <<mem, recs, iter>>

\* RecordIterator::next, one record at a time; the flush job was told to flush.
IterNext ==
    LET header == mem[Word(iter.offset)] IN
    /\ flushes > 0 /\ ~iter.end
    /\ iter' = IF iter.offset >= Load(word).allocated THEN [iter EXCEPT !.end = TRUE]
               ELSE [iter EXCEPT !.offset = @ + RecordSize(header.size),
                                 !.items = IF HasRef(header)
                                           THEN Append(@, [addr |-> PageAddr(iter.offset),
                                                           header |-> header])
                                           ELSE @]
    /\ UNCHANGED <<word, mem, recs, task, flushes>>

Next ==
    \/ \E t \in Tasks :
          \/ \E s \in PageSizes : StartAlloc(t, "page", s)
          \/ StartAlloc(t, "dealloc", ALIGN)
          \/ AllocFails(t) \/ AllocCas(t) \/ InitRecord(t)
          \/ \E n \in 1..MaxRecords : SetPageId(t, n)
          \/ Commit(t) \/ Abort(t) \/ ReleaseCas(t)
          \/ StartSeal(t) \/ SealCas(t)
    \/ IterNext

Spec == Init /\ [][Next]_vars

-----------------------------------------------------------------------------
(* Properties. *)

\* "All accesses to the inner buf are guaranteed that the aliases do not overlap":
\* records, whoever allocated them, are disjoint, aligned and inside the buffer,
\* and the header of each satisfies the assertion of record_uninit.
RecordsDisjoint ==
    \A n \in DOMAIN recs :
       /\ recs[n].offset % ALIGN = 0 /\ RecordInBounds(recs[n].offset)
       /\ recs[n].offset + RecordSize(recs[n].size) <= BufSize
       /\ \A m \in 1..(n - 1) :
             recs[m].offset + HEADER + recs[m].size <= recs[n].offset

\* num_writer is the number of transactions that have records here and have not
\* been released, so it cannot underflow or reach the seal bit.
WritersCounted ==
    Load(word).writers = Cardinality({t \in Tasks : task[t].hold})

\* Exactly one of the callers of seal and release_writer is told to flush, at the
\* moment when the buffer becomes flushable; it stays so (RecordIterator::next
\* asserts it).
FlushToldOnce ==
    flushes = IF Flushable(Load(word)) THEN 1 ELSE 0

Item(r) == [addr |-> PageAddr(r.offset),
            header |-> [flags |-> r.kind, data |-> r.id, size |-> r.size]]

\* The flush job sees every page and deallocation that was committed, once, and nothing
\* of aborted transactions, each with its address, its id and its length, in the order of
\* the addresses.
IterationExact ==
    iter.end =>
       /\ \A n \in DOMAIN recs :
             recs[n].state = "live" => \E i \in DOMAIN iter.items : iter.items[i] = Item(recs[n])
       /\ \A i \in DOMAIN iter.items :
             \E n \in DOMAIN recs : recs[n].state = "live" /\ iter.items[i] = Item(recs[n])
       /\ \A i, j \in DOMAIN iter.items : i < j => iter.items[i].addr < iter.items[j].addr

\* The address of a page finds that page while the buffer exists (WriteBuffer::page),
\* and its content is as written.
PagesFound ==
    \A n \in DOMAIN recs :
       recs[n].state = "live" /\ recs[n].kind = "page" =>
          /\ Page(PageAddr(recs[n].offset)) =
                [flags |-> "page", data |-> recs[n].id, size |-> recs[n].size]
          /\ \A w \in Word(recs[n].offset + HEADER)..Word(recs[n].offset + HEADER + recs[n].size - 1) :
                mem[w] = [flags |-> "body", data |-> n, size |-> 0]

\* What transactions wrote into the buffer is read by the address of a page and by the
\* flush job as it was written.
RecordsRead == PagesFound /\ IterationExact
=============================================================================
