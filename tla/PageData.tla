------------------------------ MODULE PageData ------------------------------
(***************************************************************************)
(* What a chain of pages means: lookups, consolidation and splits of the   *)
(* tree's pages (tree/mod.rs, tree/page.rs, page/sorted_page.rs) as        *)
(* operators on sets of items.  PageIters has the algorithms that compute  *)
(* them on sequences, and is checked against this module.                  *)
(*                                                                         *)
(* A chain is a sequence of pages, newest first.  A leaf item is a version *)
(* [k, lsn, val] of a key; val is the length of the value, and Delete is   *)
(* the length 0.  An inner item is an index [k, id, epoch] to the child    *)
(* whose range starts at k; NULL_INDEX has the id 0.                       *)
(***************************************************************************)
EXTENDS Integers, Sequences, FiniteSetsExt

\* The key that no key reaches: the range end `None`.
CONSTANT NoEnd

Delete == 0
Nothing == [lsn |-> 0, val |-> Delete]

-----------------------------------------------------------------------------
(* Sizes, as the number of items and the bytes of their values. *)

ItemSize(i) == IF "val" \in DOMAIN i THEN 1 + i.val ELSE 1

SizeOf(items) == MapThenSumSet(ItemSize, items)

-----------------------------------------------------------------------------
(* Lookups. *)

\* The versions of a key that a read at an LSN may see.
Visible(items, k, lsn) == {i \in items : i.k = k /\ i.lsn <= lsn}

Newest(versions) == CHOOSE i \in versions : \A j \in versions : j.lsn <= i.lsn

\* What the caller gets for a version: a delete is the same as nothing.
Answer(versions) ==
    IF versions = {} \/ Newest(versions).val = Delete THEN Nothing
    ELSE [lsn |-> Newest(versions).lsn, val |-> Newest(versions).val]

\* find_value: the newest visible version of the first page that has one.
FindValue(chain, k, lsn) ==
    LET hits == {n \in DOMAIN chain : /\ chain[n].kind = "data"
                                      /\ Visible(chain[n].items, k, lsn) # {}}
    IN  IF hits = {} THEN Nothing ELSE Answer(Visible(chain[Min(hits)].items, k, lsn))

\* The item that starts the range of a key, and the one that ends it.
AtOrBefore(items, k) ==
    {i \in items : i.k <= k /\ \A j \in items : j.k <= k => j.k <= i.k}
EndAfter(items, k) ==
    Min({i.k : i \in {j \in items : j.k > k}} \cup {NoEnd})

\* find_child: the index and the range of the child in the first page that knows
\* it; a placeholder sends the search to the older pages.
FindChild(chain, k) ==
    LET known == {n \in DOMAIN chain :
                    /\ chain[n].kind = "data"
                    /\ \E i \in AtOrBefore(chain[n].items, k) : i.id # 0}
        page == chain[Min(known)]
        child == CHOOSE i \in AtOrBefore(page.items, k) : TRUE
    IN  [id |-> child.id, epoch |-> child.epoch, lo |-> child.k, hi |-> EndAfter(page.items, k)]

-----------------------------------------------------------------------------
(* Consolidation. *)

\* The split delta at the top of a chain, and the key it cuts the range at.
SplitDelta(page) == CHOOSE i \in page.items : TRUE

RangeLimit(chain) ==
    LET splits == {n \in DOMAIN chain : chain[n].kind = "split"}
    IN  IF splits = {} THEN NoEnd ELSE SplitDelta(chain[Min(splits)]).k

\* MergingPageIter: the items of the data pages below the range limit.
MergedItems(chain) ==
    {i \in UNION {chain[n].items : n \in {m \in DOMAIN chain : chain[m].kind = "data"}} :
        i.k < RangeLimit(chain)}

\* MergingLeafPageIter: a version above the safe LSN is kept, and of the others
\* the newest one unless it is a delete.
Retained(i, items, safe) ==
    \/ i.lsn > safe
    \/ i.val # Delete /\ i = Newest(Visible(items, i.k, safe))

MergeLeaf(chain, safe) ==
    LET items == MergedItems(chain) IN {i \in items : Retained(i, items, safe)}

\* MergingInnerPageIter: for each start the index of the newest page that has one.
MergeInner(chain) ==
    {i \in MergedItems(chain) :
        /\ i.id # 0
        /\ \E n \in DOMAIN chain :
              /\ chain[n].kind = "data" /\ i \in chain[n].items
              /\ \A m \in 1..(n - 1) :
                    chain[m].kind = "data" => \A j \in chain[m].items : j.k = i.k => j.id = 0}

-----------------------------------------------------------------------------
(* Splits. *)

\* The order of Key: the raw key ascending, the LSN descending.
Before(i, j) == i.k < j.k \/ (i.k = j.k /\ "lsn" \in DOMAIN i /\ i.lsn > j.lsn)

\* into_split_iter: the key of the middle item; a key is never cut in two.
Separator(items) ==
    LET mid == CHOOSE i \in items :
                  Cardinality({j \in items : Before(j, i)}) = Cardinality(items) \div 2
    IN  mid.k

LeftOf(items, sep) == {i \in items : i.k < sep}
RightOf(items, sep) == {i \in items : i.k >= sep}

\* Whether into_split_iter finds a separator with something on its left.
CanSplit(items) == items # {} /\ LeftOf(items, Separator(items)) # {}
=============================================================================
