-------------------------------- MODULE Tree --------------------------------
(***************************************************************************)
(* The Bw-tree (tree/mod.rs): latch-free reads and writes on chains of     *)
(* immutable pages, splits in two steps, reconciliation of the parent, and *)
(* consolidation.  Every task runs get, put, delete or a scan; one action  *)
(* per access to the page table (a load in page_view, a compare-exchange   *)
(* in update_page) and per allocation.  What is computed from the pages a  *)
(* task has read is part of the step that read them, for pages do not      *)
(* change.                                                                 *)
(*                                                                         *)
(* Addresses grow in the order of allocation.  A transaction that fails    *)
(* leaves nothing behind (PageTable), so the ids of split pages are taken  *)
(* when the split succeeds.                                                *)
(***************************************************************************)
EXTENDS PageData, TLC

CONSTANTS
    Tasks,          \* user tasks
    Keys,           \* user keys; 0 is the empty key, where the root's range starts
    Sizes,          \* lengths of the values that are put
    Kinds,          \* operations the tasks run: "get", "put", "delete", "scan"
    InitItems,      \* versions in the root leaf at start
    PageSize,       \* options.page_size
    ChainLen,       \* options.page_chain_length
    MaxLsn,         \* bound: number of writes
    MaxVersions,    \* bound: writes of one key
    MaxReads,       \* bound: number of gets and scans
    MaxSafe,        \* bound: largest safe LSN
    MaxAgain        \* bound: allocations that find the write buffer full

VARIABLES
    pages,          \* address -> page
    table,          \* page id -> address
    clock,          \* last address allocated
    lsn,            \* last LSN given to a write
    safe_lsn,       \* the safe LSN
    task,           \* state of each task
    hist,           \* the versions committed so far
    again,          \* allocations that failed so far
    reads,          \* reads started so far
    content         \* the tree as a map: key -> LSN -> answer (see ContentOf)

vars == <<pages, table, clock, lsn, safe_lsn, task, hist, again, reads, content>>

ROOT_ID == 1

NoView == [id |-> 0, addr |-> 0, lo |-> 0, hi |-> 0]
NoOp == [kind |-> "none", k |-> 0, lsn |-> 0, val |-> 0]
Idle == [pc |-> "idle", op |-> NoOp, id |-> 0, epoch |-> 0, lo |-> 0, hi |-> 0,
         par |-> NoView, view |-> NoView, new |-> 0, cont |-> "none", safe |-> 0,
         res |-> Nothing, out |-> <<>>, rest |-> {}, end |-> NoEnd, seen |-> {}]

\* try_find_leaf starts from the root.
Restart(s) == [s EXCEPT !.pc = "visit", !.id = ROOT_ID, !.epoch = 0, !.lo = 0, !.hi = NoEnd,
                        !.par = NoView, !.view = NoView, !.new = 0, !.cont = "none", !.safe = 0]

Page(tier, kind, epoch, len, next, items) ==
    [tier |-> tier, kind |-> kind, epoch |-> epoch, len |-> len, next |-> next, items |-> items]

\* walk_page: the pages from an address on.
RECURSIVE ChainIn(_, _)
ChainIn(ps, addr) == IF addr = 0 THEN <<>> ELSE <<ps[addr]>> \o ChainIn(ps, ps[addr].next)

Chain(addr) == ChainIn(pages, addr)

\* The address of the leaf of a key, found from the root, pending splits included
LeafOf(ps, tb, k) ==
    LET leaf[id \in DOMAIN tb] ==
            LET chain == ChainIn(ps, tb[id])
                splits == {n \in DOMAIN chain : chain[n].kind = "split"}
                delta == SplitDelta(chain[Min(splits)])
            IN  IF splits # {} /\ k >= delta.k THEN leaf[delta.id]
                ELSE IF chain[1].tier = "leaf" THEN tb[id]
                ELSE leaf[FindChild(chain, k).id]
    IN  leaf[ROOT_ID]

\* The tree as a map from keys and LSNs to answers, at the LSNs that are promised
ContentOf(ps, tb, safe) ==
    [k \in Keys |->
        LET answer[addr \in DOMAIN ps] ==
                [l \in 0..MaxLsn |->
                    IF l < safe THEN Nothing ELSE FindValue(ChainIn(ps, addr), k, l)]
        IN  answer[LeafOf(ps, tb, k)]]

\* TreeTxn::init, and the versions a recovered tree may start with.
Init ==
    /\ pages = 1 :> Page("leaf", "data", 0, 1, 0, InitItems)
    /\ table = ROOT_ID :> 1
    /\ clock = 1
    /\ lsn = 0 /\ safe_lsn = 0 /\ again = 0 /\ reads = 0
    /\ hist = InitItems
    /\ task = [t \in Tasks |-> Idle]
    /\ content = ContentOf(pages, table, safe_lsn)

\* should_split_page
ShouldSplit(page) ==
    /\ SizeOf(page.items) > (IF page.tier = "inner" THEN PageSize \div 2 ELSE PageSize)
    /\ page.next = 0

\* should_consolidate_page
ShouldConsolidate(page) ==
    page.len > Max({1, IF page.tier = "inner" THEN ChainLen \div 2 ELSE ChainLen})

\* The ghost variable content follows the tree.
Observe == content' = ContentOf(pages', table', safe_lsn')

Set(t, s) == task' = [task EXCEPT ![t] = s]

-----------------------------------------------------------------------------
(* Table::get, put, delete and set_safe_lsn.  Two writes of one key at the *)
(* same time are ordered by the caller who chose their LSNs.               *)

Put(t) ==
    /\ task[t].pc = "idle"
    /\ lsn < MaxLsn
    /\ \E kind \in Kinds \cap {"put", "delete"}, k \in Keys :
         /\ \A u \in Tasks : task[u].op.kind = "write" => task[u].op.k # k
         /\ Cardinality({h \in hist : h.k = k}) < MaxVersions
         /\ \E val \in IF kind = "put" THEN Sizes ELSE {Delete} :
               Set(t, Restart([Idle EXCEPT !.op =
                        [kind |-> "write", k |-> k, lsn |-> lsn + 1, val |-> val]]))
    /\ lsn' = lsn + 1
    /\ UNCHANGED <<content, pages, table, clock, safe_lsn, hist, again, reads>>

Get(t) ==
    /\ task[t].pc = "idle"
    /\ "get" \in Kinds /\ reads < MaxReads
    /\ \E k \in Keys, l \in {safe_lsn, MaxLsn} :
          Set(t, Restart([Idle EXCEPT !.op = [kind |-> "get", k |-> k, lsn |-> l, val |-> 0]]))
    /\ reads' = reads + 1
    /\ UNCHANGED <<content, pages, table, clock, lsn, safe_lsn, hist, again>>

SetSafeLsn ==
    /\ \E s \in (safe_lsn + 1)..MaxSafe : safe_lsn' = s
    /\ UNCHANGED <<pages, table, clock, lsn, task, hist, again, reads>>
    /\ Observe

-----------------------------------------------------------------------------
(* try_find_leaf, one page at a time, and what a task does at the leaf. *)

\* A scan takes the entries of the leaf from its key on, and the siblings after it.
Entries(chain, from) ==
    LET items == MergedItems(chain)
        live == {k \in {i.k : i \in items} : Answer(Visible(items, k, MaxLsn)) # Nothing}
    IN  {[k |-> k, ans |-> Answer(Visible(items, k, MaxLsn))] : k \in {x \in live : x >= from}}

\* Whether the parent has an item for the key, a placeholder included.
SkipsFirst(chain, from) ==
    \E n \in DOMAIN chain : chain[n].kind = "data" /\ \E i \in chain[n].items : i.k = from

\* TreeIter::seek skips the sibling it is at if some page of the parent has its key.
Siblings(chain, from) ==
    LET rest == {i \in MergeInner(chain) : i.k >= from}
    IN  IF SkipsFirst(chain, from) THEN {i \in rest : \E j \in rest : j.k < i.k} ELSE rest

AtLeaf(s, view, chain) ==
    CASE s.op.kind = "get" ->
            [Idle EXCEPT !.res = FindValue(chain, s.op.k, s.op.lsn)]
      [] s.op.kind = "scan" ->
            [Idle EXCEPT !.pc = "next", !.op = s.op, !.seen = s.seen,
                         !.out = Append(s.out, Entries(chain, s.op.k)),
                         !.rest = IF s.par = NoView THEN {} ELSE Siblings(Chain(s.par.addr), s.op.k),
                         !.end = IF s.par = NoView THEN NoEnd ELSE s.par.hi]
      [] s.op.kind = "write" ->
            IF ShouldSplit(chain[1])
            THEN [s EXCEPT !.view = view, !.pc = "split", !.cont = "presplit"]
            ELSE [s EXCEPT !.view = view, !.pc = "write"]

\* Mutant of IsPendingSplit: never.
IsPendingSplitNever(page, par) == FALSE

\* reconcile_page: whether the page that was found has a split to reconcile.
IsPendingSplit(page, par) == page.kind = "split" /\ par # NoView

Visit(t) ==
    /\ task[t].pc = "visit"
    /\ \E s \in {task[t]} : \E chain \in {Chain(table[s.id])} :
       LET page == chain[1]
           view == [id |-> s.id, addr |-> table[s.id], lo |-> s.lo, hi |-> s.hi]
       IN
       \/ /\ page.epoch # s.epoch
          /\ Set(t, IF IsPendingSplit(page, s.par)
                    THEN [s EXCEPT !.view = view, !.pc = "reconcile"]
                    ELSE Restart(s))
       \/ /\ page.epoch = s.epoch /\ page.tier = "leaf"
          /\ Set(t, AtLeaf(s, view, chain))
       \/ /\ page.epoch = s.epoch /\ page.tier = "inner"
          /\ \E c \in {FindChild(chain, s.op.k)} :
             Set(t, [s EXCEPT !.id = c.id, !.epoch = c.epoch, !.lo = c.lo,
                              !.hi = IF c.hi = NoEnd THEN @ ELSE c.hi, !.par = view])
    /\ UNCHANGED <<content, pages, table, clock, lsn, safe_lsn, hist, again, reads>>

-----------------------------------------------------------------------------
(* Transactions: allocate, then publish with compare-exchange. *)

\* Where a task continues after a structural change: a split before the write
\* restarts it if it succeeded, otherwise the write goes on; a consolidation or a
\* split after the write ends it; a reconciliation restarts the descent.
Continue(s, ok) ==
    CASE s.cont = "presplit" -> IF ok THEN Restart(s) ELSE [s EXCEPT !.pc = "write", !.cont = "none"]
      [] s.cont = "write" -> Idle
      [] s.cont = "reconcile" -> Restart(s)

\* What happens to the task when its transaction fails with Error::Again.
Fail(s) ==
    CASE s.pc \in {"write", "write_cas", "reconcile", "reconcile_cas"} -> Restart(s)
      [] OTHER -> Continue(s, FALSE)

\* Number of pages that a transaction allocates.
Pieces(s) ==
    IF s.pc = "split" THEN (IF s.view.id = ROOT_ID THEN 3 ELSE 2) ELSE 1

Txns == {"write", "consolidate", "split", "reconcile"}

CasOf == [write |-> "write_cas", consolidate |-> "consolidate_cas",
          split |-> "split_cas", reconcile |-> "reconcile_cas"]

\* Guard::begin and alloc_page.  A page that cannot be split is left as it is,
\* and the split counts as done.
Alloc(t) ==
    /\ task[t].pc \in Txns
    /\ LET s == task[t] IN
       IF s.pc = "split" /\ ~CanSplit(pages[s.view.addr].items)
       THEN Set(t, Continue(s, TRUE)) /\ UNCHANGED clock
       ELSE /\ clock' = clock + Pieces(s)
            /\ Set(t, [s EXCEPT !.pc = CasOf[s.pc], !.new = clock', !.safe = safe_lsn])
    /\ UNCHANGED <<content, pages, table, lsn, safe_lsn, hist, again, reads>>

\* alloc_page returns Error::Again.
AllocAgain(t) ==
    /\ task[t].pc \in Txns
    /\ again < MaxAgain
    /\ again' = again + 1
    /\ Set(t, Fail(task[t]))
    /\ UNCHANGED <<content, pages, table, clock, lsn, safe_lsn, hist, reads>>

\* update_page succeeds.
CanUpdate(view, new) == new > view.addr /\ table[view.id] = view.addr

\* try_write: the delta on top of the chain the task has seen.
Delta(s) ==
    LET p == pages[s.view.addr] IN
    Page("leaf", "data", p.epoch, p.len + 1, s.view.addr,
         {[k |-> s.op.k, lsn |-> s.op.lsn, val |-> s.op.val]})

\* Mutant of SameRange: a writer retries whatever happened to the page.
SameRangeAlways(view, addr) == view.id # ROOT_ID

\* The conditions under which try_write retries on a newer chain of the page.
SameRange(view, addr) == view.id # ROOT_ID /\ pages[addr].epoch = pages[view.addr].epoch

WriteCas(t) ==
    /\ task[t].pc = "write_cas"
    /\ LET s == task[t]
           v == s.view
           delta == Delta(s)
           found == table[v.id]
       IN
       \/ /\ CanUpdate(v, s.new)
          /\ pages' = pages @@ (s.new :> delta)
          /\ table' = [table EXCEPT ![v.id] = s.new]
          /\ hist' = hist \cup delta.items
          /\ Set(t, IF ShouldConsolidate(delta)
                    THEN [s EXCEPT !.pc = "consolidate", !.view.addr = s.new, !.cont = "write"]
                    ELSE Idle)
       \/ /\ ~CanUpdate(v, s.new)
          /\ Set(t, IF s.new > v.addr /\ SameRange(v, found)
                    THEN [s EXCEPT !.view.addr = found]
                    ELSE Restart(s))
          /\ UNCHANGED <<pages, table, hist>>
    /\ UNCHANGED <<clock, lsn, safe_lsn, again, reads>>
    /\ Observe

\* collect_consolidation_info: how many pages of the chain are consolidated.  Of a
\* leaf without a split the rest may stay, from the first large page on.
StopsAt(chain, n) ==
    LET size == MapThenSumSet(LAMBDA m : SizeOf(chain[m].items), 1..(n - 1)) IN
    /\ chain[n].tier = "leaf" /\ chain[n].kind = "data"
    /\ n > 2
    /\ size < SizeOf(chain[n].items) \div 2
    /\ \A m \in 1..n : chain[m].kind = "data"
    /\ ~ShouldConsolidate(chain[n])

Taken(chain) ==
    SubSeq(chain, 1, Min({n - 1 : n \in {m \in DOMAIN chain : StopsAt(chain, m)}}
                         \cup {Len(chain)}))

\* The pages that were not consolidated.
RestOf(chain) == chain[Len(chain)].next

\* consolidate_page_impl: one page for the first pages of the chain.
Consolidated(chain, safe) ==
    LET top == chain[1] IN
        Page(top.tier, "data", top.epoch, chain[Len(chain)].len, RestOf(chain),
             IF top.tier = "leaf" THEN MergeLeaf(chain, safe) ELSE MergeInner(chain))

ConsolidateCas(t) ==
    /\ task[t].pc = "consolidate_cas"
    /\ \E s \in {task[t]} : \E chain \in {Taken(Chain(s.view.addr))} :
       \E page \in {Consolidated(chain, s.safe)} :
       \/ /\ CanUpdate(s.view, s.new)
          /\ pages' = pages @@ (s.new :> page)
          /\ table' = [table EXCEPT ![s.view.id] = s.new]
          /\ Set(t, IF ShouldSplit(page)
                    THEN [s EXCEPT !.pc = "split", !.view.addr = s.new]
                    ELSE Continue(s, TRUE))
       \/ /\ ~CanUpdate(s.view, s.new)
          /\ Set(t, Fail(s))
          /\ UNCHANGED <<pages, table>>
    /\ UNCHANGED <<clock, lsn, safe_lsn, hist, again, reads>>
    /\ Observe

FreshId == Max(DOMAIN table) + 1

\* Mutant of SplitEpoch: the epoch is not advanced by a split.
SplitEpochSame(page) == page.epoch

\* The epoch of a page after its range was cut.
SplitEpoch(page) == page.epoch + 1

\* split_page_impl: the right half becomes a page, a delta cuts the left one.
SplitChild(s) ==
    LET p == pages[s.view.addr]
        sep == Separator(p.items)
        right == Page(p.tier, "data", 0, 1, 0, RightOf(p.items, sep))
        delta == Page(p.tier, "split", SplitEpoch(p), p.len + 1, s.view.addr,
                      {[k |-> sep, id |-> FreshId, epoch |-> 0]})
    IN  /\ pages' = pages @@ (s.new - 1 :> right) @@ (s.new :> delta)
        /\ table' = [table EXCEPT ![s.view.id] = s.new] @@ (FreshId :> s.new - 1)

\* split_root_impl: both halves become pages and the root an inner page above them.
SplitRoot(s) ==
    LET q == pages[s.view.addr]
        sep == Separator(q.items)
        left == Page(q.tier, "data", 0, 1, 0, LeftOf(q.items, sep))
        right == Page(q.tier, "data", 0, 1, 0, RightOf(q.items, sep))
        root == Page("inner", "data", 0, 1, 0,
                     {[k |-> 0, id |-> FreshId, epoch |-> 0],
                      [k |-> sep, id |-> FreshId + 1, epoch |-> 0]})
    IN  /\ pages' = pages @@ (s.new - 2 :> left) @@ (s.new - 1 :> right) @@ (s.new :> root)
        /\ table' = [table EXCEPT ![ROOT_ID] = s.new]
                    @@ (FreshId :> s.new - 2) @@ (FreshId + 1 :> s.new - 1)

SplitCas(t) ==
    /\ task[t].pc = "split_cas"
    /\ LET s == task[t] IN
       \/ /\ CanUpdate(s.view, s.new)
          /\ IF s.view.id = ROOT_ID THEN SplitRoot(s) ELSE SplitChild(s)
          /\ Set(t, Continue(s, TRUE))
       \/ /\ ~CanUpdate(s.view, s.new)
          /\ Set(t, Fail(s))
          /\ UNCHANGED <<pages, table>>
    /\ UNCHANGED <<clock, lsn, safe_lsn, hist, again, reads>>
    /\ Observe

\* Mutant of ParentDelta: the placeholder for the end of the range is missing.
ParentDeltaOpen(s) ==
    LET split == SplitDelta(pages[s.view.addr]) IN
    {[k |-> s.view.lo, id |-> s.view.id, epoch |-> pages[s.view.addr].epoch], split}

\* reconcile_split_page: the two halves, and a placeholder where the range ends.
ParentDelta(s) ==
    LET split == SplitDelta(pages[s.view.addr]) IN
    {[k |-> s.view.lo, id |-> s.view.id, epoch |-> pages[s.view.addr].epoch], split}
       \cup (IF s.view.hi = NoEnd THEN {} ELSE {[k |-> s.view.hi, id |-> 0, epoch |-> 0]})

ReconcileCas(t) ==
    /\ task[t].pc = "reconcile_cas"
    /\ LET s == task[t]
           p == pages[s.par.addr]
           delta == Page("inner", "data", p.epoch, p.len + 1, s.par.addr, ParentDelta(s))
       IN
       \/ /\ CanUpdate(s.par, s.new)
          /\ pages' = pages @@ (s.new :> delta)
          /\ table' = [table EXCEPT ![s.par.id] = s.new]
          /\ Set(t, IF ShouldConsolidate(delta)
                    THEN [s EXCEPT !.pc = "consolidate", !.cont = "reconcile",
                                   !.view = [s.par EXCEPT !.addr = s.new]]
                    ELSE Restart(s))
       \/ /\ ~CanUpdate(s.par, s.new)
          /\ Set(t, Fail(s))
          /\ UNCHANGED <<pages, table>>
    /\ UNCHANGED <<clock, lsn, safe_lsn, hist, again, reads>>
    /\ Observe

-----------------------------------------------------------------------------
(* TreeIter: the leaves in order, through the siblings a parent listed. *)

Scan(t) ==
    /\ task[t].pc = "idle"
    /\ "scan" \in Kinds /\ reads < MaxReads
    /\ Set(t, Restart([Idle EXCEPT !.op = [NoOp EXCEPT !.kind = "scan"], !.seen = hist]))
    /\ reads' = reads + 1
    /\ UNCHANGED <<content, pages, table, clock, lsn, safe_lsn, hist, again>>

\* Whether the range of a child is still the one its index was made for.
IsCurrent(i) == pages[table[i.id]].epoch = i.epoch

\* next_page: the next sibling if its range is still the one the parent listed, a
\* new descent from its start if not, and from the end of the parent after it.
NextPage(t) ==
    /\ task[t].pc = "next"
    /\ LET s == task[t]
           i == CHOOSE x \in s.rest : \A y \in s.rest : x.k <= y.k
       IN
       \/ /\ s.rest # {}
          /\ IsCurrent(i)
          /\ Set(t, [s EXCEPT !.rest = @ \ {i}, !.out = Append(@, Entries(Chain(table[i.id]), 0))])
       \/ /\ s.rest # {}
          /\ ~IsCurrent(i)
          /\ Set(t, Restart([s EXCEPT !.op.k = i.k, !.rest = {}, !.end = NoEnd]))
       \/ /\ s.rest = {} /\ s.end # NoEnd
          /\ Set(t, Restart([s EXCEPT !.op.k = s.end, !.end = NoEnd]))
       \/ /\ s.rest = {} /\ s.end = NoEnd
          /\ Set(t, [Idle EXCEPT !.out = s.out, !.seen = s.seen, !.op.kind = "scanned"])
    /\ UNCHANGED <<content, pages, table, clock, lsn, safe_lsn, hist, again, reads>>

Step(t) ==
    \/ Visit(t) \/ Alloc(t) \/ NextPage(t)
    \/ WriteCas(t) \/ ConsolidateCas(t) \/ SplitCas(t) \/ ReconcileCas(t)

Next ==
    \/ \E t \in Tasks : Put(t) \/ Get(t) \/ Scan(t) \/ Step(t) \/ AllocAgain(t)
    \/ SetSafeLsn

Spec == Init /\ [][Next]_vars

\* A task that runs keeps running: weak fairness of Step(t), which is enabled
\* while the task is not idle and always changes its state.  Nobody has to start
\* an operation, and no allocation has to fail.
Runs(t) == task[t].pc # "idle" /\ task'[t] # task[t] /\ again' = again

FairSpec ==
    Spec /\ \A t \in Tasks : []<>(task[t].pc = "idle") \/ []<><<Runs(t)>>_vars

-----------------------------------------------------------------------------
(* Properties. *)

HistRead(k, l) == Answer(Visible(hist, k, l))

Map == INSTANCE KeyValue WITH safe <- safe_lsn

\* The tree implements the map of KeyValue: splits, reconciliations and
\* consolidations change no answer, and a write changes the answers for its key
\* from its LSN on, in the one step that publishes the delta (try_write).
ImplementsMap == Map!Spec

\* A get that started from an old root or parent still answers with the newest
\* version committed when it loads the leaf (the epoch check of try_find_leaf).
GetStep ==
    \A t \in Tasks :
       /\ task[t].pc = "visit" /\ task[t].op.kind = "get" /\ task'[t].pc = "idle"
       /\ task[t].op.lsn >= safe_lsn
       => task'[t].res = HistRead(task[t].op.k, task[t].op.lsn)

\* A child is at most one split ahead of the index its parent has for it, and a
\* split that the parent does not know is the newest page of the child's chain,
\* where try_find_leaf can find and reconcile it.
PendingSplitsOnTop ==
    \A id \in DOMAIN table :
       pages[table[id]].tier = "inner" =>
          \A i \in MergeInner(Chain(table[id])) :
             LET child == pages[table[i.id]] IN
             \/ child.epoch = i.epoch
             \/ child.epoch = i.epoch + 1 /\ child.kind = "split"

\* The assertions of split_root_impl, reconcile_split_page and iter_page: a root
\* that is split is a single page of epoch 0, a split key is inside the range it
\* splits, and the split keys of a chain grow towards the older pages.
AssertionsHold ==
    /\ \A t \in Tasks : LET s == task[t] IN
         /\ s.pc = "split" /\ s.view.id = ROOT_ID =>
               pages[s.view.addr].epoch = 0 /\ pages[s.view.addr].len = 1
         /\ s.pc = "reconcile" => SplitDelta(pages[s.view.addr]).k < s.view.hi
    /\ \A id \in DOMAIN table : LET chain == Chain(table[id]) IN
         \A m, n \in DOMAIN chain :
            m < n /\ chain[m].kind = "split" /\ chain[n].kind = "split" =>
               SplitDelta(chain[m]).k < SplitDelta(chain[n]).k

\* What a scan returned so far, and whether it is complete.
Returned(t) == UNION {task[t].out[n] : n \in DOMAIN task[t].out}

\* A scan returns its keys in order and each at most once, also when leaves split
\* under it (next_page).
ScanInOrder ==
    \A t \in Tasks : \A m, n \in DOMAIN task[t].out :
       m < n => \A x \in task[t].out[m], y \in task[t].out[n] : x.k < y.k

\* A finished scan has returned every key that nobody wrote meanwhile, with its
\* newest version (seek, next_page).
ScanComplete ==
    \A t \in Tasks : task[t].op.kind = "scanned" =>
       \A k \in Keys :
          \/ {h \in hist : h.k = k} # {h \in task[t].seen : h.k = k}
          \/ {x.ans : x \in {r \in Returned(t) : r.k = k}} = {HistRead(k, MaxLsn)} \ {Nothing}

\* The leaf that a task writes to is too large, and the middle of its items is a version
\* of its first key: split_page leaves it as it is and reports success.
Stuck(t) ==
    /\ task[t].op.kind = "write"
    /\ LET leaf == pages[LeafOf(pages, table, task[t].op.k)]
       IN  ShouldSplit(leaf) /\ ~CanSplit(leaf.items)

\* Every operation ends: the retries after a conflict, a changed epoch or a pending
\* split succeed in the end (write, find_leaf).  The one exception is a write that
\* retries for ever on a leaf that is too large and cannot be split.
OperationsEnd == \A t \in Tasks : []<>(task[t].pc = "idle") \/ <>[]Stuck(t)
=============================================================================
