----------------------------- MODULE PageIters ------------------------------
(***************************************************************************)
(* The iterators over a chain of sorted pages: binary search and iterators *)
(* of one page (page/sorted_page.rs), the merge of several (page/iter.rs), *)
(* and the three filters the tree puts on top of it (tree/page.rs): user   *)
(* entries at an LSN, leaf consolidation, inner consolidation.  They are   *)
(* checked against the sets of PageData, for every order of calls.         *)
(***************************************************************************)
EXTENDS PageData, SequencesExt

CONSTANTS
    LeafChains,     \* chains of leaf pages, newest first, as in PageData
    InnerChains,    \* chains of inner pages
    Lsns,           \* read LSNs and safe LSNs
    Targets,        \* keys to seek
    LsnMax          \* u64::MAX

VARIABLES
    chain,      \* the chain that is iterated
    mode,       \* "user", "leaf" or "inner": the filter in use
    lsn,        \* read_lsn or safe_lsn
    pos,        \* OrderedIter::next of each data page: index of its item
    last,       \* last_raw
    skip,       \* skip_same_raw
    from,       \* key the iterator was last positioned at
    found,      \* what the last seek returned
    out,        \* items returned since then
    done        \* whether the iterator has returned None since then

vars == <<chain, mode, lsn, pos, last, skip, from, found, out, done>>

None == [k |-> -1]
NoRaw == -1

\* The items of a page in key order.
Sorted(items) ==
    [n \in 1..Cardinality(items) |->
       CHOOSE i \in items : Cardinality({j \in items : Before(j, i)}) = n - 1]

\* MergingIterBuilder::add: the data pages of a chain, newest first.
DataPages(c) ==
    LET data == SelectSeq(c, LAMBDA p : p.kind = "data")
    IN  [n \in DOMAIN data |-> Sorted(data[n].items)]

-----------------------------------------------------------------------------
(* SortedPageRef::rank: binary search with positions from 1. *)

\* Key order, and the order of raw keys of inner items and targets.
Equal(i, j) == i.k = j.k /\ ("lsn" \in DOMAIN i => i.lsn = j.lsn)

After(mid) == mid + 1

RECURSIVE RankIn(_, _, _, _)
RankIn(items, target, left, right) ==
    IF left >= right THEN [found |-> FALSE, at |-> left]
    ELSE LET mid == (left + right) \div 2 IN
         IF Before(items[mid], target) THEN RankIn(items, target, After(mid), right)
         ELSE IF Equal(items[mid], target) THEN [found |-> TRUE, at |-> mid]
         ELSE RankIn(items, target, left, mid)

Rank(items, target) == RankIn(items, target, 1, Len(items) + 1)

AsSplitSeparator(key) == [key EXCEPT !.lsn = LsnMax]

\* into_split_iter: the separator and the index to split at, or 1 if the page cannot
\* be split.
SplitAt(items) ==
    LET sep == AsSplitSeparator(items[Len(items) \div 2 + 1]) IN
    [sep |-> sep.k, at |-> Rank(items, sep).at]

-----------------------------------------------------------------------------
(* MergingIter: a heap of OrderedIter, ordered by their next items and     *)
(* then by rank; an exhausted one comes last.                              *)

Pages == DataPages(chain)

\* OrderedIter::cmp
Precedes(a, m, b, n) ==
    \/ b = None /\ a # None
    \/ a # None /\ b # None /\ Before(a, b)
    \/ (a = None <=> b = None) /\ (a = None \/ ~Before(b, a)) /\ m < n

\* MergingIter::next: the items in the order the heap gives them, as a function of
\* the positions: what is returned, and the positions after it.
Pop(p) ==
    LET at(n) == IF p[n] <= Len(Pages[n]) THEN Pages[n][p[n]] ELSE None
        top == CHOOSE m \in DOMAIN p : \A n \in DOMAIN p \ {m} : Precedes(at(m), m, at(n), n)
    IN  IF DOMAIN p = {} THEN [item |-> None, pos |-> p]
        ELSE [item |-> at(top),
              pos |-> [p EXCEPT ![top] = IF at(top) = None THEN @ ELSE @ + 1]]

\* MergingPageIter::next: nothing at or after the range limit.
PopInRange(p) ==
    LET m == Pop(p) IN
    IF m.item # None /\ m.item.k >= RangeLimit(chain) THEN [m EXCEPT !.item = None] ELSE m

-----------------------------------------------------------------------------
(* The filters: one call of next. *)

\* PageIter::next
RECURSIVE UserNext(_, _)
UserNext(p, raw) ==
    LET m == PopInRange(p) IN
    IF m.item = None THEN [item |-> None, pos |-> m.pos, last |-> raw, skip |-> FALSE]
    ELSE IF m.item.lsn > lsn \/ m.item.k = raw THEN UserNext(m.pos, raw)
    ELSE IF m.item.val # Delete
         THEN [item |-> m.item, pos |-> m.pos, last |-> m.item.k, skip |-> FALSE]
    ELSE UserNext(m.pos, m.item.k)

\* Mutant of SkipsOlder: a version above the safe LSN hides the older ones.
SkipsOlderAbove(i, safe) == i.lsn <= safe + 1

\* Whether the versions after the first one of a key are dropped.
SkipsOlder(i, safe) == i.lsn <= safe

\* MergingLeafPageIter::next
RECURSIVE LeafNext(_, _, _)
LeafNext(p, raw, skp) ==
    LET m == PopInRange(p)
        some(s) == [item |-> m.item, pos |-> m.pos, last |-> m.item.k, skip |-> s]
    IN
    IF m.item = None THEN [item |-> None, pos |-> m.pos, last |-> raw, skip |-> skp]
    ELSE IF m.item.k = raw THEN
            IF skp THEN LeafNext(m.pos, raw, skp)
            ELSE IF m.item.lsn > lsn THEN some(FALSE)
            ELSE IF m.item.val # Delete THEN some(TRUE)
            ELSE LeafNext(m.pos, raw, TRUE)
    ELSE IF m.item.val = Delete /\ m.item.lsn <= lsn
         THEN LeafNext(m.pos, m.item.k, SkipsOlder(m.item, lsn))
    ELSE some(SkipsOlder(m.item, lsn))

\* MergingInnerPageIter::next
RECURSIVE InnerNext(_, _)
InnerNext(p, raw) ==
    LET m == PopInRange(p) IN
    IF m.item = None THEN [item |-> None, pos |-> m.pos, last |-> raw, skip |-> FALSE]
    ELSE IF m.item.id = 0 \/ m.item.k = raw THEN InnerNext(m.pos, raw)
    ELSE [item |-> m.item, pos |-> m.pos, last |-> m.item.k, skip |-> FALSE]

-----------------------------------------------------------------------------
(* The calls. *)

\* MergingIterBuilder::build: every iterator is at its first item.
Init ==
    /\ \/ mode \in {"user", "leaf"} /\ chain \in LeafChains
       \/ mode = "inner" /\ chain \in InnerChains
    /\ lsn \in Lsns /\ (mode = "inner" => lsn = 0)
    /\ pos = [n \in DOMAIN Pages |-> 1]
    /\ last = NoRaw /\ skip = FALSE
    /\ from = 0 /\ found = FALSE /\ out = <<>> /\ done = FALSE

NextItem ==
    /\ \E r \in {CASE mode = "user" -> UserNext(pos, last)
                   [] mode = "leaf" -> LeafNext(pos, last, skip)
                   [] mode = "inner" -> InnerNext(pos, last)} :
          /\ pos' = r.pos /\ last' = r.last /\ skip' = r.skip
          /\ out' = IF r.item = None THEN out ELSE Append(out, r.item)
          /\ done' = (done \/ r.item = None)
    /\ UNCHANGED <<chain, mode, lsn, from, found>>

\* SortedPageBuilder::build rewinds the iterator that with_iter has counted.
Rewind ==
    /\ mode \in {"leaf", "inner"}
    /\ pos' = [n \in DOMAIN Pages |-> 1]
    /\ last' = NoRaw /\ skip' = FALSE
    /\ from' = 0 /\ found' = FALSE /\ out' = <<>> /\ done' = FALSE
    /\ UNCHANGED <<chain, mode, lsn>>

\* MergingIter::seek
AnyFound(ranks) == \E n \in DOMAIN ranks : ranks[n].found

\* The key that an iterator is asked to seek for the start of a raw key.
SeekKey(target) ==
    CASE mode = "user" -> [k |-> target, lsn |-> lsn]
      [] mode = "leaf" -> [k |-> target, lsn |-> LsnMax]
      [] mode = "inner" -> [k |-> target]

\* PageIter::seek and the seeks of the merging iterators: each page by binary search.
Seek(target) ==
    /\ LET key == SeekKey(target)
           ranks == [n \in DOMAIN Pages |-> Rank(Pages[n], key)]
       IN  /\ pos' = [n \in DOMAIN Pages |-> ranks[n].at]
           /\ found' = AnyFound(ranks)
    /\ last' = NoRaw /\ skip' = FALSE
    /\ from' = target /\ out' = <<>> /\ done' = FALSE
    /\ UNCHANGED <<chain, mode, lsn>>

Next == NextItem \/ Rewind \/ \E t \in Targets : Seek(t)

Spec == Init /\ [][Next]_vars

-----------------------------------------------------------------------------
(* Properties. *)

\* What an iterator at `from` should return, by the sets of PageData.
Expected ==
    Sorted({i \in CASE mode = "user" ->
                         {j \in MergedItems(chain) :
                            j.val # Delete /\ j.lsn <= lsn
                              /\ j = Newest(Visible(MergedItems(chain), j.k, lsn))}
                    [] mode = "leaf" -> MergeLeaf(chain, lsn)
                    [] mode = "inner" -> MergeInner(chain) :
              i.k >= from})

\* For any order of next, rewind and seek, the items since the last positioning
\* are the expected ones in key order, and the iterator ends after the last of
\* them and not before (PageIter, MergingLeafPageIter, MergingInnerPageIter).
ReturnsExpected ==
    /\ out = SubSeq(Expected, 1, Len(out))
    /\ done => out = Expected

\* A seek reports a key exactly if some page has an item for it, which is what
\* TreeIter::seek relies on to skip the leaf it is at.
SeekFinds ==
    mode = "inner" /\ from # 0 =>
       found = \E n \in DOMAIN Pages : \E i \in DOMAIN Pages[n] : Pages[n][i].k = from

\* Binary search finds the item, or the place to insert it (rank).
RankIsRank ==
    \A n \in DOMAIN Pages : \A t \in Targets :
       LET key == SeekKey(t)
           r == Rank(Pages[n], key)
       IN  /\ r.at = Cardinality({i \in DOMAIN Pages[n] : Before(Pages[n][i], key)}) + 1
           /\ r.found = \E i \in DOMAIN Pages[n] : Equal(Pages[n][i], key)

\* A page is split where PageData says: all versions of a key stay together, and a
\* page whose middle item has the first key is not split (into_split_iter).
SplitsBetweenKeys ==
    mode = "leaf" =>
       \A n \in DOMAIN Pages : Pages[n] # <<>> =>
          LET items == {Pages[n][i] : i \in DOMAIN Pages[n]}
              s == SplitAt(Pages[n])
          IN  /\ s.sep = Separator(items)
              /\ (s.at > 1) = CanSplit(items)
              /\ SubSeq(Pages[n], s.at, Len(Pages[n])) = Sorted(RightOf(items, s.sep))
=============================================================================
