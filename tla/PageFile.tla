------------------------------ MODULE PageFile ------------------------------
(***************************************************************************)
(* Page files (page_store/page_file): how a builder lays pages, indexes    *)
(* and a footer out through a buffer that direct I/O aligns, how the       *)
(* metadata is read back from the footer when the store is opened, how a   *)
(* page is read with aligned and short reads, and the bitmap and the size  *)
(* of the pages that are still active.                                     *)
(*                                                                         *)
(* A file is a sequence of units, each of which stands for the bytes of    *)
(* one encoded record or for a part of a page.  Addresses are pairs of a   *)
(* group and an offset in it.                                              *)
(***************************************************************************)
EXTENDS Integers, FiniteSetsExt, SequencesExt

CONSTANTS
    GroupIds,       \* ids of page groups, in the order in which they are built
    Offsets,        \* bound: the low halves of addresses
    MaxPages,       \* bound: pages of a file
    MaxDeallocs,    \* bound: deallocated pages that a file lists
    PageIds,        \* ids of pages
    SizeOf,         \* page content -> its length
    LengthOf,       \* page content -> its length once it is compressed
    Deallocs,       \* addresses that are deallocated
    Align,          \* block size
    IoSize,         \* io_batch_size of the writer
    WordBits        \* bits of a word of a bitmap

VARIABLES
    option,     \* use_direct of the writer and whether there are checksums
    phase,      \* "build", and "open" when the file is finished
    w,          \* BufferedWriter and its file
    group,      \* PageGroupBuilder, or NoGroup
    index,      \* PageIndexBuilder::pages
    dealloc,    \* FileBuilder::dealloc_pages
    groups,     \* page groups that are finished
    tables,     \* their page tables
    content,    \* address -> page that has been added
    reading     \* a read of a page

builder == <<w, group, index, dealloc, tables, content>>
vars == <<option, phase, builder, groups, reading>>

Contents == DOMAIN LengthOf
NoGroup == [id |-> 0]
Corrupted == 0
Pad == [t |-> "pad"]
Empty == [x \in {} |-> 0]

\* The function f with x mapped to y
Put(f, x, y) == [z \in DOMAIN f \cup {x} |-> IF z = x THEN y ELSE f[z]]

\* The keys of a BTreeMap in order
Keys(f) == SetToSortSeq(DOMAIN f, LAMBDA a, b : a < b)

CeilToBlock(pos) == ((pos + Align - 1) \div Align) * Align
FloorToBlock(pos) == pos - (pos % Align)

-----------------------------------------------------------------------------
(* BufferedWriter *)

\* AlignBuffer::new
BufCap == CeilToBlock(IoSize)

\* flush: direct I/O writes whole blocks.
Flush(b) ==
    LET n == Len(b.buf)
        pads == IF option.direct THEN CeilToBlock(n) - n ELSE 0
    IN  [b EXCEPT !.actual = @ + (IF option.direct THEN n ELSE 0),
                  !.file = @ \o b.buf \o [i \in 1..pads |-> Pad],
                  !.buf = << >>]

\* fill_buf: the buffer is flushed when it is full and more is to be written.
RECURSIVE FillBuf(_, _)
FillBuf(b, data) ==
    LET n == Min({BufCap - Len(b.buf), Len(data)})
    IN  CASE data = << >>                       -> b
          [] data # << >> /\ n > 0  -> FillBuf([b EXCEPT !.buf = @ \o SubSeq(data, 1, n)],
                                               SubSeq(data, n + 1, Len(data)))
          [] data # << >> /\ n = 0  -> FillBuf(Flush(b), data)

\* write and write_with_checksum; the offset they return is b.next.
Write(b, data) == [FillBuf(b, data) EXCEPT !.next = @ + Len(data)]

\* flush_and_sync removes the padding of the last block.
Truncated(b) ==
    IF option.direct THEN [b EXCEPT !.file = SubSeq(@, 1, b.actual)] ELSE b

-----------------------------------------------------------------------------
(* Pages.  A checksum stands for what it is computed from. *)

Compressed(c) == [i \in 1..LengthOf[c] |-> [t |-> "data", page |-> c, i |-> i]]

PageUnits(c) ==
    IF option.sum THEN Append(Compressed(c), [t |-> "sum", of |-> Compressed(c)]) ELSE Compressed(c)

\* PageRef::info; the content stands for its tier, kind, epoch and chain.
Info(c) == [meta |-> c, size |-> SizeOf[c]]

\* read_file_page_from_reader: check and cut off the checksum, then decompress.
Decoded(units) ==
    LET data == IF option.sum THEN Front(units) ELSE units
        intact == option.sum => Last(units) = [t |-> "sum", of |-> data]
        pages == {c \in Contents : Compressed(c) = data}
    IN  IF intact /\ pages # {} THEN CHOOSE c \in pages : TRUE ELSE Corrupted

-----------------------------------------------------------------------------
(* Metadata. *)

\* A page ends where the next one, or the page table, begins.
EndOf(offsets, table, i) ==
    IF i < Len(Keys(offsets)) THEN offsets[Keys(offsets)[i + 1]].offset ELSE table

\* PageGroupMeta::new and build_page_meta_map
GroupMeta(id, base, table, end, offsets) ==
    [id |-> id, base |-> base, table |-> table, end |-> end,
     pages |-> [a \in DOMAIN offsets |->
        LET i == CHOOSE j \in DOMAIN Keys(offsets) : Keys(offsets)[j] = a
        IN  [index |-> i - 1, info |-> offsets[a].info, offset |-> offsets[a].offset,
             size |-> EndOf(offsets, table, i) - offsets[a].offset]]]

TotalPageSize(meta) == Max({1, meta.table - meta.base})

\* FixedBitmap: words as the sets of their bits.
BitmapNew(cap) == [cap |-> cap, len |-> 0, bits |-> [k \in 0..((cap + WordBits - 1) \div WordBits - 1) |-> {}]]
BitmapTest(m, i) == (i % WordBits) \in m.bits[i \div WordBits]
BitmapSet(m, i) ==
    [m EXCEPT !.bits[i \div WordBits] = @ \cup {i % WordBits},
              !.len = IF BitmapTest(m, i) THEN @ ELSE @ + 1]

\* PageGroup::new
PageGroup(meta) ==
    [meta |-> meta, dead |-> BitmapNew(Cardinality(DOMAIN meta.pages)), active |-> TotalPageSize(meta)]

EncodedTable(table) == [i \in DOMAIN Keys(table) |-> [t |-> "entry", addr |-> Keys(table)[i], id |-> table[Keys(table)[i]]]]

\* encode_data_block_index leaves the size of the page out.
EncodedIndex(offsets) ==
    [i \in DOMAIN Keys(offsets) |-> [t |-> "index", addr |-> Keys(offsets)[i],
                                     offset |-> offsets[Keys(offsets)[i]].offset,
                                     meta |-> offsets[Keys(offsets)[i]].info.meta]]

EncodedDeallocs == [i \in DOMAIN dealloc |-> [t |-> "dealloc", addr |-> dealloc[i]]]

ReferencedGroups(addrs) == {a[1] : a \in Range(addrs)}

\* PageGroupIterator: the active pages by their index
GroupIter(g) ==
    SetToSortSeq({a \in DOMAIN g.meta.pages : ~BitmapTest(g.dead, g.meta.pages[a].index)},
                 LAMBDA a, b : g.meta.pages[a].index < g.meta.pages[b].index)

-----------------------------------------------------------------------------
(* FileMetaHolder::read *)

Block(file, handle) == SubSeq(file, handle.offset + 1, handle.offset + handle.length)

DecodedTable(units) == [a \in {u.addr : u \in Range(units)} |->
                           (CHOOSE u \in Range(units) : u.addr = a).id]

\* IndexBlock::decode takes for the size of a page what lies between its offset and the
\* next one, or the page table.
DecodedIndex(units, table) ==
    [a \in {u.addr : u \in Range(units)} |->
        LET i == CHOOSE j \in DOMAIN units : units[j].addr = a
            end == IF i < Len(units) THEN units[i + 1].offset ELSE table
        IN  [offset |-> units[i].offset,
             info |-> [meta |-> units[i].meta, size |-> end - units[i].offset]]]

\* Where the group of the i-th page index begins
BaseOf(idx, i) == IF i = 1 THEN 0 ELSE idx[i - 1].meta.offset + idx[i - 1].meta.length

ReadGroup(file, idx, i) ==
    LET table == Block(file, idx[i].meta)[1].offset
        offsets == DecodedIndex(Block(file, idx[i].data), table)
    IN  GroupMeta(idx[i].id, BaseOf(idx, i), table, idx[i].data.offset, offsets)

ReadTable(file, meta) ==
    DecodedTable(Block(file, [offset |-> meta.table, length |-> meta.end - meta.table]))

ReadMeta(file) ==
    LET footer == Last(file)
        idx == Block(file, footer.index)
        units == Block(file, footer.dealloc)
        addrs == [i \in DOMAIN units |-> units[i].addr]
    IN  [metas |-> {ReadGroup(file, idx, i) : i \in DOMAIN idx},
         tables |-> {<<idx[i].id, ReadTable(file, ReadGroup(file, idx, i))>> : i \in DOMAIN idx},
         dealloc |-> addrs, referenced |-> ReferencedGroups(addrs), size |-> Len(file)]

-----------------------------------------------------------------------------
(* Building a file. *)

\* FileBuilder::add_page_group
AddPageGroup(id) ==
    /\ phase = "build" /\ group = NoGroup /\ \A i \in DOMAIN index : index[i].id < id
    /\ group' = [id |-> id, base |-> w.next, offsets |-> Empty, table |-> Empty]
    /\ UNCHANGED <<option, phase, w, index, dealloc, groups, tables, content, reading>>

\* PageGroupBuilder::add_page.  Flush and compaction add pages in the order of their
\* addresses.
AddPage(a, id, c) ==
    /\ phase = "build" /\ group # NoGroup /\ \A b \in DOMAIN group.offsets : b < a
    /\ Cardinality(DOMAIN content) < MaxPages
    /\ w' = Write(w, PageUnits(c))
    /\ group' = [group EXCEPT !.offsets = Put(@, a, [offset |-> w.next, info |-> Info(c)]),
                              !.table = Put(@, a, id)]
    /\ content' = Put(content, <<group.id, a>>, c)
    /\ UNCHANGED <<option, phase, index, dealloc, groups, tables, reading>>

\* add_dealloc_pages of either builder
AddDeallocPages(addrs) ==
    /\ phase = "build" /\ Len(dealloc) < MaxDeallocs
    /\ dealloc' = dealloc \o addrs
    /\ UNCHANGED <<option, phase, w, group, index, groups, tables, content, reading>>

\* PageGroupBuilder::finish writes the page table and the two index blocks.
FinishGroup ==
    /\ phase = "build" /\ group # NoGroup
    /\ LET dataIndex == EncodedIndex(group.offsets)
           tabled == Write(w, EncodedTable(group.table))
           indexed == Write(tabled, dataIndex)
           data == [offset |-> tabled.next, length |-> Len(dataIndex)]
           meta == [offset |-> indexed.next, length |-> 1]
       IN  /\ w' = Write(indexed, <<[t |-> "meta", offset |-> w.next]>>)
           /\ index' = Append(index, [t |-> "page_index", id |-> group.id, data |-> data, meta |-> meta])
           /\ groups' = Put(groups, group.id,
                 PageGroup(GroupMeta(group.id, group.base, w.next, data.offset, group.offsets)))
    /\ tables' = Put(tables, group.id, group.table)
    /\ group' = NoGroup
    /\ UNCHANGED <<option, phase, dealloc, content, reading>>

\* FileBuilder::finish writes the page index, the deallocated pages and the footer.
Finish ==
    /\ phase = "build" /\ group = NoGroup /\ index # << >>
    /\ LET indexed == Write(w, index)
           dealt == Write(indexed, EncodedDeallocs)
           footer == [t |-> "footer",
                      index |-> [offset |-> w.next, length |-> Len(index)],
                      dealloc |-> [offset |-> indexed.next, length |-> Len(EncodedDeallocs)]]
       IN  w' = Truncated(Flush(Write(dealt, <<footer>>)))
    /\ phase' = "open"
    /\ UNCHANGED <<option, group, index, dealloc, groups, tables, content, reading>>

-----------------------------------------------------------------------------
(* Reading a page. *)

NoRead == [s |-> "idle"]

\* PageGroup::get_page_handle
Handle(a) == groups[a[1]].meta.pages[a[2]]
IsActive(a) == ~BitmapTest(groups[a[1]].dead, Handle(a).index)

\* Mutant of AlignedEnd: the request is as long as the page.
AlignedEndShort(offset, size) == FloorToBlock(offset) + CeilToBlock(size)

\* Where the blocks of a request end
AlignedEnd(offset, size) == CeilToBlock(offset + size)

\* read_exact_at: direct I/O, which a reader uses whatever the writer did, reads whole
\* blocks.
ReadBegin(a, direct) ==
    /\ phase = "open" /\ reading = NoRead /\ IsActive(a)
    /\ LET h == Handle(a)
           from == IF direct THEN FloorToBlock(h.offset) ELSE h.offset
           to == IF direct THEN AlignedEnd(h.offset, h.size) ELSE h.offset + h.size
       IN  reading' = [s |-> "read", addr |-> a, direct |-> direct, from |-> from, to |-> to,
                       ahead |-> h.offset - from, size |-> h.size, got |-> << >>]
    /\ UNCHANGED <<option, phase, builder, groups>>

\* One read_at of inner_read_exact_at, which returns any number of whole blocks, or
\* what is left of the file; without direct I/O, the loop of PositionalReaderExt.
ReadAt(n) ==
    LET pos == reading.from + Len(reading.got)
        left == Min({reading.to, Len(w.file)}) - pos
    IN  /\ reading.s = "read"
        /\ n \in 0..left /\ (n = 0 => left = 0)
        /\ reading.direct /\ n # left => n % Align = 0
        /\ LET got == reading.got \o SubSeq(w.file, pos + 1, pos + n)
           IN  reading' = [reading EXCEPT
                  !.got = got,
                  !.s = IF n = 0 THEN "eof"
                        ELSE IF reading.from + Len(got) = reading.to
                                \/ (reading.direct /\ n % Align # 0) THEN "got" ELSE "read"]
        /\ UNCHANGED <<option, phase, builder, groups>>

\* The requested part of the blocks, checked and decompressed
ReadDone ==
    /\ reading.s = "got"
    /\ LET out == [i \in 1..reading.size |->
                      IF reading.ahead + i <= Len(reading.got) THEN reading.got[reading.ahead + i]
                      ELSE Pad]
       IN  reading' = [s |-> "done", addr |-> reading.addr, page |-> Decoded(out)]
    /\ UNCHANGED <<option, phase, builder, groups>>

ReadNext ==
    /\ reading.s = "done"
    /\ reading' = NoRead
    /\ UNCHANGED <<option, phase, builder, groups>>

\* FixedBitmap::set says whether the bit was not set.
FirstTime(g, i) == ~BitmapTest(g.dead, i)

\* PageGroup::deactivate_page
DeactivatePage(a) ==
    /\ phase = "open" /\ reading = NoRead
    /\ LET g == groups[a[1]]
           h == Handle(a)
       IN  groups' = [groups EXCEPT ![a[1]] =
              [g EXCEPT !.dead = BitmapSet(@, h.index),
                        !.active = IF FirstTime(g, h.index) THEN @ - h.size ELSE @]]
    /\ UNCHANGED <<option, phase, builder, reading>>

-----------------------------------------------------------------------------

Init ==
    /\ option \in [direct : BOOLEAN, sum : BOOLEAN]
    /\ phase = "build" /\ reading = NoRead
    /\ w = [next |-> 0, actual |-> 0, buf |-> << >>, file |-> << >>]
    /\ group = NoGroup /\ index = << >> /\ dealloc = << >>
    /\ groups = Empty /\ tables = Empty /\ content = Empty

Next ==
    \/ \E id \in GroupIds : AddPageGroup(id)
    \/ \E a \in Offsets, id \in PageIds, c \in Contents : AddPage(a, id, c)
    \/ \E a \in Deallocs : AddDeallocPages(<<a>>)
    \/ FinishGroup \/ Finish
    \/ \E a \in DOMAIN content : DeactivatePage(a) \/ \E direct \in BOOLEAN : ReadBegin(a, direct)
    \/ \E n \in 0..Len(w.file) : ReadAt(n)
    \/ ReadDone \/ ReadNext

Spec == Init /\ [][Next]_vars

-----------------------------------------------------------------------------
(* Properties. *)

\* The offset that the writer returned for a page is where the page is, in the file or
\* still in the buffer, whatever was flushed and aligned before it.
OffsetsExact ==
    LET all == w.file \o w.buf
        at(offset, c) == SubSeq(all, offset + 1, offset + Len(PageUnits(c))) = PageUnits(c)
    IN  /\ group # NoGroup =>
              \A a \in DOMAIN group.offsets : at(group.offsets[a].offset, content[<<group.id, a>>])
        /\ \A id \in DOMAIN groups : \A a \in DOMAIN groups[id].meta.pages :
              at(groups[id].meta.pages[a].offset, content[<<id, a>>])

\* The metadata of a group with the sizes of its pages as they are on disk
OnDisk(meta) ==
    [meta EXCEPT !.pages = [a \in DOMAIN @ |-> [@[a] EXCEPT !.info.size = meta.pages[a].size]]]

\* What is read from a file when the store is opened is what the builder returned when
\* it was written, but for PageInfo::size: the size of a page is then the one of its
\* compressed content with its checksum.
MetaRecovered ==
    phase = "open" =>
       /\ Last(w.file) # Pad
       /\ ReadMeta(w.file) =
             [metas |-> {OnDisk(groups[id].meta) : id \in DOMAIN groups},
              tables |-> {<<id, tables[id]>> : id \in DOMAIN tables},
              dealloc |-> dealloc, referenced |-> ReferencedGroups(dealloc), size |-> w.next]

\* Every read of a page returns its content, however the reads are aligned and cut
\* short: no error and no end of file.
PagesRead ==
    /\ reading.s # "eof"
    /\ reading.s = "done" => reading.page = content[reading.addr]

\* The size of a group is the sum of its active pages, after any number of repeated
\* deallocations; the bitmap counts them, and the iterator that compaction copies from
\* yields exactly these in the order of their addresses.
ActiveCounted ==
    \A id \in DOMAIN groups :
       LET g == groups[id]
           alive == {a \in DOMAIN g.meta.pages : IsActive(<<id, a>>)}
       IN  /\ g.active = IF DOMAIN g.meta.pages = {} THEN 1
                         ELSE MapThenSumSet(LAMBDA a : g.meta.pages[a].size, alive)
           /\ g.dead.cap - g.dead.len = Cardinality(alive)
           /\ GroupIter(g) = SetToSortSeq(alive, LAMBDA a, b : a < b)
=============================================================================
