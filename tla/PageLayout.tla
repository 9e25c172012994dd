----------------------------- MODULE PageLayout -----------------------------
(***************************************************************************)
(* A page in memory, byte by byte: the header (page/base_page.rs), the     *)
(* offsets and the items of a sorted page (page/sorted_page.rs), and the   *)
(* codec they are written with (page/codec.rs).                            *)
(*                                                                         *)
(* Fields have the widths of the code in bytes; a byte has Base values     *)
(* instead of 256, so that TLC reaches the largest value of every width.   *)
(* Positions in mem start at 1, offsets at 0 as in the code.               *)
(***************************************************************************)
EXTENDS Integers, Sequences, FiniteSetsExt

CONSTANTS
    Base,       \* number of values of a byte
    Leaves,     \* lists of leaf items a page is built from
    Indexes,    \* lists of index items
    Fills,      \* what a byte of the buffer may hold before the page is built
    Epochs, Lens, Nexts     \* values the header fields are set to

VARIABLES
    mem,        \* the bytes of the page
    page        \* what was written: kind, tier, epoch, chain_len, chain_next, items

vars == <<mem, page>>

PAGE_EPOCH_LEN == 6
PAGE_HEADER_LEN == 16
PAGE_EPOCH_MAX == Base^PAGE_EPOCH_LEN - 1

-----------------------------------------------------------------------------
(* Encoder and Decoder: little-endian integers and slices. *)

PutInt(v, n) == [i \in 1..n |-> (v \div Base^(i - 1)) % Base]
GetInt(bytes) == MapThenSumSet(LAMBDA i : bytes[i] * Base^(i - 1), DOMAIN bytes)

\* n bytes at an offset, and a write of bytes there.
Slice(m, at, n) == SubSeq(m, at + 1, at + n)
Store(m, at, bytes) ==
    [i \in DOMAIN m |-> IF i - at \in DOMAIN bytes THEN bytes[i - at] ELSE m[i]]

-----------------------------------------------------------------------------
(* PagePtr: the header. *)

\* Mutant of EpochBytes: the whole word is copied.
EpochBytesWord(epoch) == PutInt(epoch, 8)

\* set_epoch copies 6 of the 8 bytes of the integer.
EpochBytes(epoch) == SubSeq(PutInt(epoch, 8), 1, PAGE_EPOCH_LEN)

PutEpoch(m, epoch) == Store(m, 0, EpochBytes(epoch))
PutFlags(m, flags) == Store(m, PAGE_EPOCH_LEN, <<flags>>)
PutChainLen(m, len) == Store(m, PAGE_EPOCH_LEN + 1, <<len>>)
PutChainNext(m, next) == Store(m, 8, PutInt(next, 8))

\* epoch reads 8 bytes and masks them.
Epoch(m) == GetInt(Slice(m, 0, 8)) % (PAGE_EPOCH_MAX + 1)
Flags(m) == m[PAGE_EPOCH_LEN + 1]
ChainLen(m) == m[PAGE_EPOCH_LEN + 2]
ChainNext(m) == GetInt(Slice(m, 8, 8))

\* PageFlags: bit 0 is the tier, bits 1 to 3 are the kind.
FlagsOf(tier, kind) == (IF tier = "inner" THEN 1 ELSE 0) + (IF kind = "split" THEN 2 ELSE 0)
TierOf(flags) == IF flags % 2 = 0 THEN "leaf" ELSE "inner"
KindOf(flags) == IF (flags \div 2) % 8 = 0 THEN "data" ELSE "split"

\* PageInfo::flags, epoch and chain_len take the fields out of the first word.
Meta(m) == GetInt(Slice(m, 0, 8))

InfoEpoch(meta) == meta % (PAGE_EPOCH_MAX + 1)
InfoFlags(meta) == (meta \div Base^PAGE_EPOCH_LEN) % Base
InfoChainLen(meta) == (meta \div Base^(PAGE_EPOCH_LEN + 1)) % Base

-----------------------------------------------------------------------------
(* Codec of keys and values.  An index item is a raw key and an Index, a   *)
(* leaf item a Key and a Value; the value takes the rest of the item.      *)

IsIndex(tier, kind) == tier = "inner" \/ kind = "split"

\* encode_size
ItemSize(index, i) ==
    (4 + Len(i.raw)) + (IF index THEN 16 ELSE 8 + 1 + IF i.put THEN Len(i.val) ELSE 0)

\* encode_to
Encode(index, i) ==
    PutInt(Len(i.raw), 4) \o i.raw
      \o IF index THEN PutInt(i.id, 8) \o PutInt(i.epoch, 8)
         ELSE PutInt(i.lsn, 8) \o (IF i.put THEN <<0>> \o i.val ELSE <<1>>)

\* decode_from
Decode(index, bytes) ==
    LET len == GetInt(Slice(bytes, 0, 4))
        raw == Slice(bytes, 4, len)
        rest == SubSeq(bytes, 4 + len + 1, Len(bytes))
    IN  IF index THEN [raw |-> raw, id |-> GetInt(Slice(rest, 0, 8)),
                       epoch |-> GetInt(Slice(rest, 8, 8))]
        ELSE [raw |-> raw, lsn |-> GetInt(Slice(rest, 0, 8)), put |-> rest[9] = 0,
              val |-> IF rest[9] = 0 THEN SubSeq(rest, 10, Len(rest)) ELSE <<>>]

-----------------------------------------------------------------------------
(* SortedPageBuilder, SortedPageBuf and SortedPageRef. *)

\* with_iter: the size of the content.
ContentSize(index, items) ==
    MapThenSumSet(LAMBDA n : ItemSize(index, items[n]), DOMAIN items) + 4 * Len(items)

\* Bytes of the payload before item n.
PayloadBefore(index, items, n) ==
    MapThenSumSet(LAMBDA m : Len(Encode(index, items[m])), 1..(n - 1))

\* SortedPageBuf::add: offsets are relative to the content and 32 bits wide.
ItemOffset(index, items, n) ==
    (4 * Len(items) + PayloadBefore(index, items, n)) % Base^4

AddItem(m, index, items, n) ==
    Store(Store(m, PAGE_HEADER_LEN + 4 * (n - 1), PutInt(ItemOffset(index, items, n), 4)),
          PAGE_HEADER_LEN + 4 * Len(items) + PayloadBefore(index, items, n),
          Encode(index, items[n]))

\* build, after PageBuilder::build has written the header.
BuildPage(m, tier, kind, items) ==
    LET index == IsIndex(tier, kind)
        header == PutChainNext(PutChainLen(PutEpoch(
                      PutFlags(m, FlagsOf(tier, kind)), 0), 1), 0)
        filled[n \in 0..Len(items)] ==
            IF n = 0 THEN header ELSE AddItem(filled[n - 1], index, items, n)
    IN  filled[Len(items)]

Content(m) == SubSeq(m, PAGE_HEADER_LEN + 1, Len(m))

\* SortedPageRef::new: the first offset tells the number of items.
NumItems(content) == IF content = <<>> THEN 0 ELSE GetInt(Slice(content, 0, 4)) \div 4

\* item_offset and item.
OffsetAt(content, n) == GetInt(Slice(content, 4 * (n - 1), 4))
ItemAt(content, n) ==
    SubSeq(content, OffsetAt(content, n) + 1,
           IF n < NumItems(content) THEN OffsetAt(content, n + 1) ELSE Len(content))

Items(m, index) ==
    [n \in 1..NumItems(Content(m)) |-> Decode(index, ItemAt(Content(m), n))]

-----------------------------------------------------------------------------
NoPage == [tier |-> "none", kind |-> "none", epoch |-> 0, len |-> 0, next |-> 0, items |-> <<>>]

Init == mem = <<>> /\ page = NoPage

\* with_item, with_slice or with_iter, then build in a buffer of the size the
\* builder asked for; the size is limited by the offsets.
Build(tier, kind, items) ==
    /\ page = NoPage
    /\ ContentSize(IsIndex(tier, kind), items) < Base^4
    /\ \E fill \in Fills :
          mem' = BuildPage([i \in 1..(PAGE_HEADER_LEN + ContentSize(IsIndex(tier, kind), items))
                              |-> fill], tier, kind, items)
    /\ page' = [tier |-> tier, kind |-> kind, epoch |-> 0, len |-> 1, next |-> 0, items |-> items]

\* The tree sets the fields of a page it built, some of them again on a retry.
SetEpoch(epoch) ==
    /\ page # NoPage /\ epoch <= PAGE_EPOCH_MAX
    /\ mem' = PutEpoch(mem, epoch)
    /\ page' = [page EXCEPT !.epoch = epoch]

SetChainLen(len) ==
    /\ page # NoPage
    /\ mem' = PutChainLen(mem, len)
    /\ page' = [page EXCEPT !.len = len]

SetChainNext(addr) ==
    /\ page # NoPage
    /\ mem' = PutChainNext(mem, addr)
    /\ page' = [page EXCEPT !.next = addr]

Next ==
    \/ \E items \in Leaves : Build("leaf", "data", items)
    \/ \E items \in Indexes, tier \in {"leaf", "inner"}, kind \in {"data", "split"} :
          IsIndex(tier, kind) /\ Build(tier, kind, items)
    \/ \E e \in Epochs : SetEpoch(e)
    \/ \E n \in Lens : SetChainLen(n)
    \/ \E a \in Nexts : SetChainNext(a)

Spec == Init /\ [][Next]_vars

-----------------------------------------------------------------------------
(* Properties. *)

\* The fields of the header do not overlap: in whatever order they are set, and up
\* to the largest values, each reads as it was last written (PagePtr).
HeaderReadsBack ==
    page # NoPage =>
       /\ <<TierOf(Flags(mem)), KindOf(Flags(mem))>> = <<page.tier, page.kind>>
       /\ <<Epoch(mem), ChainLen(mem), ChainNext(mem)>> = <<page.epoch, page.len, page.next>>

\* A page info, which a reader gets without the page, tells the same (PageInfo).
InfoAgrees ==
    page # NoPage =>
       /\ InfoFlags(Meta(mem)) = Flags(mem)
       /\ InfoEpoch(Meta(mem)) = page.epoch
       /\ InfoChainLen(Meta(mem)) = page.len

\* The items read back as they were added, whatever the buffer held before and
\* whatever is set in the header later (SortedPageBuf::add, SortedPageRef::get).
ItemsReadBack == page # NoPage => Items(mem, IsIndex(page.tier, page.kind)) = page.items

\* The size computed in with_iter is what build writes: every byte of the content
\* is written, and none beyond the page.
SizeIsExact ==
    page # NoPage =>
       LET index == IsIndex(page.tier, page.kind) IN
       Len(mem) = PAGE_HEADER_LEN + 4 * Len(page.items)
                    + PayloadBefore(index, page.items, Len(page.items) + 1)
=============================================================================
