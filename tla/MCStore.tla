------------------------------ MODULE MCStore ------------------------------
(***************************************************************************)
(* Instances of the components of the page store for TLC.  A behaviour is  *)
(* one of a single component, the one that `part' names; the variables of  *)
(* the others are absent, those of WriteBuffer keep their initial values.  *)
(***************************************************************************)
EXTENDS WriteBuffer, TLC

CONSTANTS PageIds

VARIABLES
    part,
    index, next, free, clock, pc, reg, txn, live, aba,              \* PageTable
    table, buffer, cur, files, man, nextFile, versions, base, flush, comp, guard, snap, dead, lost, crashes, \* FileStore
    data, synced, dir, sdir, num, writer, step, todo, applied, pend, tried, stops, fails,              \* Manifest
    infos, groups, newer, reclaim, cleaned, rounds, faults          \* ReclaimPolicy

tableVars == <<index, next, free, clock, pc, reg, txn, live, aba>>
fileVars == <<table, buffer, cur, files, man, nextFile, versions, base, flush, comp, guard, snap, dead, lost, crashes>>
manifestVars == <<data, synced, dir, sdir, num, writer, step, todo, applied, pend, tried, stops, fails>>
reclaimVars == <<infos, groups, newer, reclaim, cleaned, rounds, faults>>
storeVars == <<part, vars, tableVars, fileVars, manifestVars, reclaimVars>>

Symmetry == Permutations(Tasks) \cup Permutations(PageIds)
-----------------------------------------------------------------------------
\* Two tasks insert a page each, and give ids back while the other one takes them.
Table == INSTANCE PageTable WITH
    Inserters <- Tasks, MAX_ID <- 4, MaxMapped <- 3, MaxAddr <- 3, MaxInsert <- 1

\* A task splits a root, which inserts two pages, and another one updates.
TableRoot == INSTANCE PageTable WITH
    Tasks <- {"inserts", "updates"}, Inserters <- {"inserts"},
    MAX_ID <- 4, MaxMapped <- 2, MaxAddr <- 3, MaxInsert <- 2

\* A reader and one page, whose versions fill three groups.
Guarded == INSTANCE FileStore WITH
    Ids <- {1}, Readers <- {"reader"}, Capacity <- 1, MaxGroup <- 4, MaxFile <- 5, MaxCrashes <- 0,
    Reclaims <- TRUE

\* A crash at any step; two pages.
Crashing == INSTANCE FileStore WITH
    Ids <- PageIds, Readers <- {}, Capacity <- 1, MaxGroup <- 4, MaxFile <- 5, MaxCrashes <- 1,
    Reclaims <- TRUE

\* Groups of two pages, of which one is deallocated, and a crash.
Sharing == INSTANCE FileStore WITH
    Ids <- {1}, Readers <- {}, Capacity <- 2, MaxGroup <- 3, MaxFile <- 5, MaxCrashes <- 1,
    Reclaims <- TRUE

Log == INSTANCE Manifest WITH
    pc <- step, job <- todo, crashes <- stops,
    MaxEdits <- 5, MaxCrashes <- 3, MaxFails <- 2, SizeLimit <- 4

\* A file with one page has more metadata than the option allows, one with two has less.
Policy == INSTANCE ReclaimPolicy WITH
    files <- infos, job <- reclaim, flushes <- rounds,
    PageSize <- 100, SpaceAmp <- 100, UsedHigh <- 1000, FileBase <- 150, MaxFlushes <- 3, MaxPages <- 2, MaxAge <- 3, MaxFaults <- 1
-----------------------------------------------------------------------------
NoTable ==
    /\ index = 0 /\ next = 0 /\ free = 0 /\ clock = 0 /\ pc = 0 /\ reg = 0 /\ txn = 0
    /\ live = 0 /\ aba = 0
NoFiles ==
    /\ table = 0 /\ buffer = 0 /\ cur = 0 /\ files = 0 /\ man = 0 /\ nextFile = 0 /\ versions = 0
    /\ base = 0 /\ flush = 0 /\ comp = 0 /\ guard = 0 /\ snap = 0 /\ dead = 0 /\ lost = 0 /\ crashes = 0
NoManifest ==
    /\ data = 0 /\ synced = 0 /\ dir = 0 /\ sdir = 0 /\ num = 0 /\ writer = 0 /\ step = 0
    /\ todo = 0 /\ applied = 0 /\ pend = 0 /\ tried = 0 /\ stops = 0 /\ fails = 0
NoPolicy ==
    infos = 0 /\ groups = 0 /\ newer = 0 /\ reclaim = 0 /\ cleaned = 0 /\ rounds = 0 /\ faults = 0

StoreInit ==
    /\ Init
    /\ \/ part = "buffer" /\ NoTable /\ NoFiles /\ NoManifest /\ NoPolicy
       \/ /\ \/ part = "table" /\ Table!Init
             \/ part = "table root" /\ TableRoot!Init
          /\ NoFiles /\ NoManifest /\ NoPolicy
       \/ /\ \/ part = "guarded" /\ Guarded!Init
             \/ part = "crashing" /\ Crashing!Init
             \/ part = "sharing" /\ Sharing!Init
          /\ NoTable /\ NoManifest /\ NoPolicy
       \/ part = "manifest" /\ Log!Init /\ NoTable /\ NoFiles /\ NoPolicy
       \/ part = "policy" /\ Policy!Init /\ NoTable /\ NoFiles /\ NoManifest

Step ==
    \/ part = "buffer" /\ Next /\ UNCHANGED <<tableVars, fileVars, manifestVars, reclaimVars>>
    \/ /\ \/ part = "table" /\ Table!Next
          \/ part = "table root" /\ TableRoot!Next
       /\ UNCHANGED <<vars, fileVars, manifestVars, reclaimVars>>
    \/ /\ \/ part = "guarded" /\ Guarded!Next
          \/ part = "crashing" /\ Crashing!Next
          \/ part = "sharing" /\ Sharing!Next
       /\ UNCHANGED <<vars, tableVars, manifestVars, reclaimVars>>
    \/ part = "manifest" /\ Log!Next /\ UNCHANGED <<vars, tableVars, fileVars, reclaimVars>>
    \/ part = "policy" /\ Policy!Next /\ UNCHANGED <<vars, tableVars, fileVars, manifestVars>>

StoreNext == UNCHANGED part /\ Step

StoreSpec == StoreInit /\ [][StoreNext]_storeVars
-----------------------------------------------------------------------------
\* Every page id is in exactly one place: it has a committed page, is in the free
\* list, or belongs to one running transaction; aborted transactions lose none, and the
\* free list ends at NAN_ID (Inner::alloc, Inner::dealloc, PageTxn::drop).  With two
\* inserters it fails in one way only: alloc exchanges the head for a link it has read
\* before the id was taken and given back, for nothing defers a dealloc as the comment on
\* `free' says.  A single inserter cannot meet that.
IdsOwnedOnce ==
    /\ part = "table" =>
          aba \/ (Table!NoDoubleAllocation /\ Table!FreeListEnds /\ Table!NoIdLost)
    /\ part = "table root" =>
          /\ TableRoot!NoDoubleAllocation /\ TableRoot!FreeListEnds /\ TableRoot!NoIdLost
          /\ ~aba

\* Every page of every chain can be read with the current version, and every page that
\* a guard may visit, because it was in some chain while the guard is held, with the
\* version of the guard, whatever was flushed, compacted, cleaned up and deallocated
\* since (Guard::read_page).
PagesReadable ==
    /\ part = "guarded" => Guarded!GuardsRead /\ Guarded!ChainsRead
    /\ part = "crashing" => Crashing!ChainsRead
    /\ part = "sharing" => Sharing!ChainsRead

\* If the program stops now, recovery finds the page table of the moment when the last
\* saved group was sealed and the files of its chains, and gives out no id that is in
\* use (recover_file, apply_version_edits).
RecoversSaved ==
    /\ part = "guarded" => Guarded!RecoversSaved
    /\ part = "crashing" => Crashing!RecoversSaved /\ Crashing!IdsAreFresh
    /\ part = "sharing" => Sharing!RecoversSaved /\ Sharing!IdsAreFresh

\* A page whose deallocation was flushed never comes back into a chain, nor into one that
\* recovery finds, not even when it becomes active again: because a compaction installs a
\* copy that it made before the flush, or because a restart meets the group of the page
\* again after the file that records the deallocation was removed.  Nothing else makes it
\* active (apply_dealloc_pages, drain_obsoleted_files, reclaim_files, recover_file).
DeadPagesUnused ==
    /\ part = "guarded" => Guarded!DeadPagesUnused
    /\ part = "crashing" => Crashing!DeadPagesUnused
    /\ part = "sharing" => Sharing!DeadPagesUnused

\* An edit that is recorded is never lost by a crash or an error, and none comes back:
\* there may be one edit more than was recorded, the last one that was tried.  Opening
\* fails in one case only: the file ends with the length of an edit that was not recorded,
\* without its body, which next_record does not take for the end of the file; the records
\* before it are exactly the recorded edits (record_version_edit, list_versions).
EditsKept ==
    /\ [](part = "manifest" => Log!OpensUnlessTorn)
    /\ [][part = "manifest" => Log!EditsStep]_storeVars

\* When the reclaim job rests, the space amplification is within the options, or what
\* could be compacted does not fill a file; only a compaction that failed leaves more, in
\* its own round and in the files it had read, which are set aside until nothing else can
\* be reclaimed.  A compaction of the newest version costs no space (reclaim_reason,
\* MinDeclineRateStrategy, cleaned_files).
SpaceBounded ==
    /\ [](part = "policy" => Policy!QuietBounded)
    /\ [][part = "policy" => Policy!CompactStep]_storeVars
=============================================================================
