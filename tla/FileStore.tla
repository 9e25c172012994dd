----------------------------- MODULE FileStore ------------------------------
(***************************************************************************)
(* The life of pages from write buffers to page files: the flush job       *)
(* (jobs/flush.rs), space reclaiming (jobs/reclaim.rs), the cleanup job    *)
(* (jobs/cleanup.rs), the chain of versions that guards pin (version.rs),  *)
(* and recovery after a crash (recover.rs).                                *)
(*                                                                         *)
(* A page is named by its address, which carries the id of its group, the  *)
(* write buffer it was put in.  A page holds its page id and the address   *)
(* of the next page of its chain.  What concurrent writers do inside one   *)
(* buffer is in BufferSet and WriteBuffer: here a transaction is one step. *)
(* How the manifest reaches the disk is in Manifest: here an edit is one   *)
(* step.                                                                   *)
(***************************************************************************)
EXTENDS Integers, Sequences, FiniteSetsExt, Functions, TLC

CONSTANTS
    Ids,            \* page ids
    Readers,        \* tasks that hold a guard
    Capacity,       \* pages of a write buffer
    MaxGroup,       \* bound: groups are less than this
    MaxFile,        \* bound: file ids are less than this
    MaxCrashes,     \* bound: crashes
    Reclaims        \* whether space reclaiming is enabled

VARIABLES
    table,      \* the page table: page id -> address, 0 if there is none
    buffer,     \* group -> records of a write buffer that is in memory
    cur,        \* group of the active buffer
    files,      \* page files on disk: file id -> groups and dealloc pages
    man,        \* what the manifest says: active and obsoleted files
    nextFile,   \* Manifest::next_file_id
    versions,   \* the chain of versions, from the oldest that is not released
    base,       \* index of the first of them; the cleanup job is there
    flush,      \* the flush job: file and group that are built
    comp,       \* the reclaim job: its version and the compaction it runs
    guard,      \* reader -> index of its version, and the pages it may visit
    snap,       \* history: the table when each group was sealed
    dead,       \* history: pages whose deallocation has been flushed
    lost,       \* history: those whose deallocation was undone or forgotten since
    crashes

vars == <<table, buffer, cur, files, man, nextFile, versions, base, flush, comp, guard,
          snap, dead, lost, crashes>>

NoAddr == 0
AddrBase == 10
Group(addr) == addr \div AddrBase

None == [file |-> 0]
NoGuard == [at |-> 0, seen |-> {}]
Current == versions[Len(versions)]
Last == base + Len(versions) - 1

Empty == [x \in {} |-> 0]

-----------------------------------------------------------------------------
(* Pages. *)

PagesOf(records) == {records[i] : i \in {j \in DOMAIN records : records[j].kind = "page"}}
DeallocsOf(records) ==
    UNION {records[i].addrs : i \in {j \in DOMAIN records : records[j].kind = "dealloc"}}

\* Page of an address as a guard of version v reads it (Guard::read_page): from a
\* write buffer, or from the file of its group if the page is active there.
InBuffer(v, addr) ==
    /\ Group(addr) >= v.first /\ Group(addr) \in DOMAIN buffer
    /\ \E p \in PagesOf(buffer[Group(addr)]) : p.addr = addr
InFile(v, addr) ==
    /\ Group(addr) < v.first /\ Group(addr) \in DOMAIN v.groups
    /\ addr \in v.groups[Group(addr)].active
    /\ LET f == v.groups[Group(addr)].file IN
          /\ f \in v.files /\ f \in DOMAIN files
          /\ Group(addr) \in DOMAIN files[f].groups
          /\ addr \in DOMAIN files[f].groups[Group(addr)]
Readable(v, addr) == InBuffer(v, addr) \/ InFile(v, addr)

NextOf(v, addr) ==
    IF InBuffer(v, addr)
    THEN (CHOOSE p \in PagesOf(buffer[Group(addr)]) : p.addr = addr).next
    ELSE files[v.groups[Group(addr)].file].groups[Group(addr)][addr].next

\* The pages of a chain; it ends at a page that cannot be read.
RECURSIVE ChainFrom(_, _)
ChainFrom(v, addr) ==
    IF addr = NoAddr THEN <<>>
    ELSE <<addr>> \o (IF Readable(v, addr) THEN ChainFrom(v, NextOf(v, addr)) ELSE <<>>)

Live == UNION {{ChainFrom(Current, table[i])[n] : n \in DOMAIN ChainFrom(Current, table[i])}
                 : i \in Ids}

-----------------------------------------------------------------------------
(* Transactions. *)

\* The pages that guards may visit include what a transaction makes reachable.
Visited(addr) ==
    guard' = [r \in Readers |-> IF guard[r] = NoGuard THEN NoGuard
                                ELSE [guard[r] EXCEPT !.seen = @ \cup {addr}]]

\* update_page (keep everything), or replace_page with the first pages of the chain
\* deallocated in the same buffer.
Write(i, drop) ==
    LET chain == ChainFrom(Current, table[i])
        addr == cur * AddrBase + Cardinality(PagesOf(buffer[cur])) + 1
        page == [kind |-> "page", addr |-> addr, id |-> i,
                 next |-> IF drop < Len(chain) THEN chain[drop + 1] ELSE NoAddr]
    IN
    /\ cur < MaxGroup /\ Cardinality(PagesOf(buffer[cur])) < Capacity
    /\ drop \in 0..Len(chain)
    /\ buffer' = [buffer EXCEPT ![cur] =
          @ \o <<page>> \o (IF drop = 0 THEN <<>>
                            ELSE <<[kind |-> "dealloc", addrs |-> {chain[n] : n \in 1..drop}]>>)]
    /\ table' = [table EXCEPT ![i] = addr]
    /\ Visited(addr)
    /\ UNCHANGED <<cur, files, man, nextFile, versions, base, flush, comp, snap, dead, lost, crashes>>

\* The active buffer is sealed and a new one is installed.
Seal ==
    /\ buffer[cur] # <<>> /\ cur < MaxGroup
    /\ cur' = cur + 1
    /\ buffer' = buffer @@ ((cur + 1) :> <<>>)
    /\ snap' = snap @@ (cur :> table)
    /\ UNCHANGED <<table, files, man, nextFile, versions, base, flush, comp, guard, dead, lost, crashes>>

-----------------------------------------------------------------------------
(* Versions and the manifest. *)

\* VersionOwner::install; a version has the files that became obsolete with it.
Install(groups, fs, obsoleted, reason) ==
    versions' = Append(versions, [groups |-> groups, files |-> fs, obsoleted |-> obsoleted,
                                  first |-> Current.first + (IF reason = "flush" THEN 1 ELSE 0),
                                  reason |-> reason])

\* version_snapshot
Snapshot(v) == [active |-> v.files \ v.obsoleted, obsoleted |-> v.obsoleted]

\* apply_version_edits for one edit: its new file, then its deleted files.
Apply(m, new, deleted) ==
    [active |-> (m.active \cup {new}) \ deleted, obsoleted |-> m.obsoleted \cup deleted]

\* record_version_edit, with or without rolling to a new manifest file.
Record(new, deleted) ==
    man' \in {Apply(man, new, deleted), Apply(Snapshot(Current), new, deleted)}

-----------------------------------------------------------------------------
(* The flush job. *)

\* The pages of a buffer that its own records deallocate are not written.
Skipped(records, g) == {a \in DeallocsOf(records) : Group(a) = g}

\* build_page_file
FlushBuild ==
    LET g == Current.first
        kept == {p \in PagesOf(buffer[g]) : p.addr \notin Skipped(buffer[g], g)}
        pages == [a \in {p.addr : p \in kept} |->
                    LET p == CHOOSE q \in kept : q.addr = a IN [id |-> p.id, next |-> p.next]]
    IN
    /\ flush = None /\ g < cur /\ nextFile < MaxFile
    /\ files' = [f \in {nextFile} |->
                   [groups |-> (g :> pages),
                    deallocs |-> {a \in DeallocsOf(buffer[g]) : Group(a) # g}]] @@ files
    /\ flush' = [file |-> nextFile, group |-> g]
    /\ nextFile' = nextFile + 1
    /\ UNCHANGED <<table, buffer, cur, man, versions, base, comp, guard, snap, dead, lost, crashes>>

NonEmpty(groups) == Restrict(groups, {g \in DOMAIN groups : groups[g].active # {}})

\* apply_dealloc_pages: the page groups without the deallocated pages.
Deactivate(groups, addrs) ==
    [g \in DOMAIN groups |-> [groups[g] EXCEPT !.active = @ \ addrs]]

\* No group has pages that the file's dealloc pages are about.
Unreferenced(f, groups) == \A a \in files[f].deallocs : Group(a) \notin DOMAIN groups

\* drain_obsoleted_files: files whose groups are empty and that are not needed.
Obsoleted(fs, groups) ==
    {f \in fs : /\ \A g \in DOMAIN files[f].groups : g \notin DOMAIN groups
                /\ Unreferenced(f, groups)}

\* The deallocations that are only known to files that are removed
Forgotten(fs) == UNION {files[f].deallocs : f \in fs}

\* save_and_install_version, under the lock of the manifest.
FlushSave ==
    /\ flush # None
    /\ LET f == flush.file
           g == flush.group
           groups == NonEmpty(Deactivate(Current.groups, files[f].deallocs))
           obsoleted == Obsoleted(Current.files, groups)
           pages == DOMAIN files[f].groups[g]
       IN  /\ Record(f, obsoleted)
           /\ Install(IF pages = {} THEN groups
                      ELSE (g :> [file |-> f, active |-> pages]) @@ groups,
                      (Current.files \ obsoleted) \cup {f}, obsoleted, "flush")
           /\ dead' = dead \cup files[f].deallocs
           /\ lost' = lost \cup Forgotten(obsoleted)
    /\ flush' = None
    /\ UNCHANGED <<table, buffer, cur, files, nextFile, base, comp, guard, snap, crashes>>

-----------------------------------------------------------------------------
(* The reclaim job. *)

\* run: take the newest version.  It is reclaimed at most once: a compaction installs
\* a next version, which ends the loop over the files.
ReclaimRefresh ==
    /\ Reclaims /\ comp.job = None /\ comp.at < Last
    /\ comp' = [comp EXCEPT !.at = Last, !.done = FALSE]
    /\ UNCHANGED <<table, buffer, cur, files, man, nextFile, versions, base, flush, guard,
                   snap, dead, lost, crashes>>

\* The dealloc pages of a victim that are about groups which exist.
Forwarded(f, groups) == {a \in files[f].deallocs : Group(a) \in DOMAIN groups}

\* Mutant of Kept: pages are copied whether they are active or not.
KeptAll(v, g, pages) == pages

\* compact_page_group copies the active pages.
Kept(v, g, pages) == Restrict(pages, v.groups[g].active)

\* compact_files: the active pages of the victims, as of the job's version, and the
\* dealloc pages that are still needed.  Cleaned files are not taken again, and they
\* are forgotten when they are gone.
ReclaimBuild(victims) ==
    LET v == versions[comp.at - base + 1]
        holders(g) == {w \in victims : g \in DOMAIN files[w].groups}
        moved == {g \in DOMAIN v.groups : holders(g) # {}}
    IN
    /\ Reclaims /\ comp.job = None /\ ~comp.done /\ nextFile < MaxFile
    /\ victims # {} /\ victims \subseteq v.files \ comp.cleaned
    /\ files' = [f \in {nextFile} |->
          [groups |-> [g \in moved |-> Kept(v, g, files[Max(holders(g))].groups[g])],
           deallocs |-> UNION {Forwarded(w, v.groups) : w \in victims}]] @@ files
    /\ comp' = [comp EXCEPT !.job = [file |-> nextFile, victims |-> victims],
                            !.cleaned = (@ \cap v.files) \cup victims, !.done = TRUE]
    /\ nextFile' = nextFile + 1
    /\ UNCHANGED <<table, buffer, cur, man, versions, base, flush, guard, snap, dead, lost, crashes>>

\* The new file cannot be finished: the job ends, and the file is left behind.
ReclaimFail ==
    /\ comp.job # None
    /\ comp' = [comp EXCEPT !.job = None]
    /\ UNCHANGED <<table, buffer, cur, files, man, nextFile, versions, base, flush, guard,
                   snap, dead, lost, crashes>>

\* The compacted groups replace those of the current version, whatever was deallocated
\* since they were copied.
Merged(old, new) == new @@ old

\* The rest of reclaim_files, under the lock of the manifest, from the current version.
ReclaimSave ==
    /\ comp.job # None
    /\ LET f == comp.job.file
           victims == comp.job.victims
           copied == UNION {versions[comp.at - base + 1].groups[g].active : g \in DOMAIN files[f].groups}
       IN  /\ Record(f, victims)
           /\ Install(Merged(Current.groups,
                             [g \in DOMAIN files[f].groups |->
                                [file |-> f, active |-> DOMAIN files[f].groups[g]]]),
                      (Current.files \ victims) \cup {f}, victims, "compact")
           /\ lost' = lost \cup (Forgotten(victims) \ files[f].deallocs) \cup (dead \cap copied)
    /\ comp' = [comp EXCEPT !.job = None]
    /\ UNCHANGED <<table, buffer, cur, files, nextFile, base, flush, guard, snap, dead, crashes>>

-----------------------------------------------------------------------------
(* Guards and the cleanup job. *)

Pin(r) ==
    /\ guard[r] = NoGuard
    /\ guard' = [guard EXCEPT ![r] = [at |-> Last, seen |-> Live]]
    /\ UNCHANGED <<table, buffer, cur, files, man, nextFile, versions, base, flush, comp,
                   snap, dead, lost, crashes>>

Unpin(r) ==
    /\ guard[r] # NoGuard
    /\ guard' = [guard EXCEPT ![r] = NoGuard]
    /\ UNCHANGED <<table, buffer, cur, files, man, nextFile, versions, base, flush, comp,
                   snap, dead, lost, crashes>>

\* wait_version_released: no guard and no job holds the version.
Released(at) ==
    /\ comp.at > at
    /\ \A r \in Readers : guard[r] = NoGuard \/ guard[r].at > at

\* Mutant of Removed: the files that the newest version does not have.
RemovedNewest(v) == Current.obsoleted

\* The files that became obsolete with a version.
Removed(v) == v.obsoleted

\* The cleanup job moves to the next version: buffers that the version does not
\* have are released, and the files that became obsolete with it are removed.
Cleanup ==
    /\ Len(versions) > 1 /\ Released(base)
    /\ LET v == versions[2] IN
          /\ buffer' = IF v.reason = "flush"
                       THEN Restrict(buffer, {g \in DOMAIN buffer : g >= v.first}) ELSE buffer
          /\ files' = Restrict(files, DOMAIN files \ Removed(v))
    /\ versions' = Tail(versions)
    /\ base' = base + 1
    /\ UNCHANGED <<table, cur, man, nextFile, flush, comp, guard, snap, dead, lost, crashes>>

-----------------------------------------------------------------------------
(* Recovery. *)

\* The groups of the active files, in the order of the files, without the pages
\* deallocated by any of them (recover_file, maintain_active_pages, build).
RecoveredGroups(active) ==
    LET holders(g) == {f \in active : g \in DOMAIN files[f].groups}
        groups == UNION {DOMAIN files[f].groups : f \in active}
    IN  NonEmpty(Deactivate(
          [g \in groups |-> [file |-> Max(holders(g)),
                             active |-> DOMAIN files[Max(holders(g))].groups[g]]],
          UNION {files[f].deallocs : f \in active}))

\* The addresses of a page id in the page tables of all groups.
AddrsOf(i, active) ==
    UNION {UNION {{a \in DOMAIN files[f].groups[g] : files[f].groups[g][a].id = i}
                    : g \in DOMAIN files[f].groups} : f \in active}

\* Mutant of Newest: the first page that is found is taken.
NewestFirst(addrs) == Min(addrs)

\* recover_file keeps the largest address of a page id.
Newest(addrs) == Max(addrs)

RecoveredAddr(i, active) ==
    IF AddrsOf(i, active) = {} THEN NoAddr ELSE Newest(AddrsOf(i, active))

NextFileId(m) == Max(m.active \cup m.obsoleted \cup {0}) + 1

\* The version that recovery starts with
RecoveredVersion ==
    [groups |-> RecoveredGroups(man.active), files |-> man.active, obsoleted |-> {},
     first |-> NextFileId(man), reason |-> "flush"]

\* A crash, and PageStore::recover: the state is made from the manifest and the
\* files it names, and all other files are removed.
Crash ==
    /\ crashes < MaxCrashes
    /\ crashes' = crashes + 1
    /\ table' = [i \in Ids |-> RecoveredAddr(i, man.active)]
    /\ cur' = NextFileId(man) /\ nextFile' = NextFileId(man)
    /\ buffer' = (NextFileId(man) :> <<>>)
    /\ versions' = <<RecoveredVersion>>
    /\ files' = Restrict(files, man.active \ man.obsoleted)
    /\ base' = 1
    /\ flush' = None
    /\ comp' = [at |-> IF Reclaims THEN 1 ELSE MaxFile, job |-> None, cleaned |-> {}, done |-> FALSE]
    /\ guard' = [r \in Readers |-> NoGuard]
    /\ snap' = (NextFileId(man) - 1) :> [i \in Ids |-> RecoveredAddr(i, man.active)]
    /\ UNCHANGED <<man, dead, lost>>

Init ==
    /\ table = [i \in Ids |-> NoAddr]
    /\ buffer = (1 :> <<>>) /\ cur = 1
    /\ files = Empty /\ nextFile = 1
    /\ man = [active |-> {}, obsoleted |-> {}]
    /\ versions = <<[groups |-> Empty, files |-> {}, obsoleted |-> {}, first |-> 1,
                     reason |-> "flush"]>>
    /\ base = 1 /\ flush = None
    /\ comp = [at |-> IF Reclaims THEN 1 ELSE MaxFile, job |-> None, cleaned |-> {}, done |-> FALSE]
    /\ guard = [r \in Readers |-> NoGuard]
    /\ snap = (0 :> table) /\ dead = {} /\ lost = {} /\ crashes = 0

Next ==
    \/ \E i \in Ids : \E drop \in 0..Capacity : Write(i, drop)
    \/ Seal \/ FlushBuild \/ FlushSave
    \/ ReclaimRefresh \/ (\E vs \in SUBSET (1..MaxFile - 1) : ReclaimBuild(vs)) \/ ReclaimFail \/ ReclaimSave
    \/ (\E r \in Readers : Pin(r) \/ Unpin(r))
    \/ Cleanup \/ Crash

Spec == Init /\ [][Next]_vars

-----------------------------------------------------------------------------
(* Properties. *)

\* Every page that a guard may visit, because it was in some chain while the guard
\* is held, can be read with the version of the guard, whatever was flushed,
\* compacted, cleaned up and deallocated since (Guard::read_page).
GuardsRead ==
    \A r \in Readers :
       guard[r] # NoGuard =>
          /\ guard[r].at >= base
          /\ \A a \in guard[r].seen : Readable(versions[guard[r].at - base + 1], a)

\* Every chain can be read to its end with the current version: compaction and
\* cleanup lose no page that is in use.
ChainsRead == \A a \in Live : Readable(Current, a)

\* If the program stops now, recovery finds the page table of the moment when the
\* last saved group was sealed, and every page of its chains.
RecoversSaved ==
    \A i \in Ids :
       /\ RecoveredAddr(i, man.active) = snap[Current.first - 1][i]
       /\ man.active \subseteq DOMAIN files

\* A file id that is given out has not been named by the manifest, and the active
\* files are not among the obsoleted ones that recovery removes; groups that exist
\* have smaller ids than the new ones.
IdsAreFresh ==
    /\ \A f \in man.active \cup man.obsoleted : f < nextFile
    /\ man.active \cap man.obsoleted = {}
    /\ \A g \in DOMAIN Current.groups : g < Current.first

\* A page whose deallocation was flushed is in no chain, and in none that recovery would
\* find, although it may be active again.  It is active only if a compaction has put back
\* a copy of it from a version in which it was active, or if the file with the record of
\* its deallocation was removed because its group was empty, and the group has come back.
DeadPagesUnused ==
    /\ Live \cap dead = {}
    /\ \A i \in Ids :
          LET chain == ChainFrom(RecoveredVersion, RecoveredAddr(i, man.active))
          IN  \A n \in DOMAIN chain : chain[n] \notin dead
    /\ \A g \in DOMAIN Current.groups : Current.groups[g].active \cap dead \subseteq lost
=============================================================================
