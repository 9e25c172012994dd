--------------------------- MODULE ReclaimPolicy ---------------------------
(***************************************************************************)
(* When space is reclaimed and which files are compacted                   *)
(* (page_store/jobs/reclaim.rs, page_store/strategy): the progress that is *)
(* computed from a version, the scores of MinDeclineRateStrategy, the job  *)
(* builder, and the loop that goes on from version to version while        *)
(* flushes add files and deactivate pages.                                 *)
(*                                                                         *)
(* Pages have one size; a page group is the number of its pages and of     *)
(* those that are active.  Time is the number of file ids handed out; a    *)
(* file keeps its age, now - up, capped at MaxAge, and ids are used again  *)
(* when nothing refers to them.  A compaction is one step: what happens    *)
(* within it is the subject of FileStore.                                  *)
(***************************************************************************)
EXTENDS Integers, FiniteSetsExt, Functions

CONSTANTS
    PageSize,       \* bytes of a page in a file, its checksum included
    SpaceAmp,       \* max_space_amplification_percent
    UsedHigh,       \* space_used_high
    FileBase,       \* file_base_size
    MaxFlushes,     \* bound: flushes, whose numbers are the ids of groups
    MaxPages,       \* bound: pages of a flush
    MaxAge,         \* bound: age of a file
    MaxFaults       \* bound: compactions that fail

VARIABLES
    files,      \* file_infos of the current version
    groups,     \* page_groups of the current version
    newer,      \* the version of the job has a next version
    job,        \* the reclaim job and the version it holds
    cleaned,    \* ReclaimCtx::cleaned_files
    flushes,
    faults

vars == <<files, groups, newer, job, cleaned, flushes, faults>>

SumOver(S, f(_)) == MapThenSumSet(f, S)
MinOf(a, b) == IF a < b THEN a ELSE b

\* The file_size that FileBuilder::finish returns.  A page has 16 bytes in the page table
\* and 32 in the data index of its group, a group 8 in its meta index and 36 in the page
\* index of the file, a deallocated page 8; the footer takes 42.
FileSize(file) ==
    SumOver(DOMAIN file.metas, LAMBDA g : file.metas[g] * (PageSize + 16 + 32) + 8 + 36)
     + SumOver(DOMAIN file.refs, LAMBDA g : 8 * file.refs[g]) + 42

-----------------------------------------------------------------------------
(* ReclaimProgress.  A loop compacts at most once, because the compaction  *)
(* itself installs a next version; what track_file computes is not used.   *)

\* compute_used_space
UsedSpace(fs, skipped) == SumOver(DOMAIN fs \ skipped, LAMBDA f : FileSize(fs[f]))

\* compute_base_size
BaseSize(gs, skipped) ==
    SumOver({g \in DOMAIN gs : gs[g].live > 0 /\ gs[g].file \notin skipped},
            LAMBDA g : gs[g].live * PageSize)

\* ReclaimProgress::reclaim_reason is not None.
IsReclaimable(fs, gs, skipped) ==
    LET used == UsedSpace(fs, skipped)
        base == BaseSize(gs, skipped)
        additional == Max({0, used - base})
    IN  \/ UsedHigh < used /\ 2 * FileBase < additional
        \/ 0 < additional /\ SpaceAmp * base <= additional * 100

-----------------------------------------------------------------------------
(* MinDeclineRateStrategy. *)

\* FileSummary
Active(fs, gs, f) ==
    SumOver(DOMAIN fs[f].metas \cap DOMAIN gs, LAMBDA g : gs[g].live)
Total(fs, f) == SumOver(DOMAIN fs[f].metas, LAMBDA g : Max({1, fs[f].metas[g] * PageSize}))

\* decline_rate, negated, as a fraction of PageSize squared: <<1, 0>> stands for -f64::MIN.
Cost(fs, gs, f) ==
    LET n == Active(fs, gs, f)
        free == Max({0, Total(fs, f) - n * PageSize})
    IN  CASE n = 0                                  -> <<0, 1>>
          [] n > 0 /\ (free = 0 \/ fs[f].age2 = 0)  -> <<1, 0>>
          [] OTHER                                  -> <<n, free * free * fs[f].age2>>

Less(x, y) == x[1] * y[2] < y[1] * x[2]

\* Mutant of Before: the file with the lowest score is taken.
BeforeReversed(fs, gs, f, g) == Less(Cost(fs, gs, g), Cost(fs, gs, f))

\* f is popped before g: by score, then by the rate of its active pages; the order of
\* files that have both in common is left open.
Before(fs, gs, f, g) ==
    LET a == Cost(fs, gs, f)
        b == Cost(fs, gs, g)
    IN  \/ Less(a, b)
        \/ /\ ~Less(b, a)
           /\ Less(<<Active(fs, gs, g), Total(fs, g)>>, <<Active(fs, gs, f), Total(fs, f)>>)

-----------------------------------------------------------------------------
(* Flushes. *)

\* next_file_id: an id that neither a version nor the job knows
NewFileId ==
    Min((1..(2 * MaxFlushes + 2)) \ (DOMAIN files \cup DOMAIN job.files \cup job.skipped \cup cleaned))

\* Every file is older when an id has been handed out.
Aged(fs) == [f \in DOMAIN fs |-> [fs[f] EXCEPT !.age1 = MinOf(@ + 1, MaxAge),
                                               !.age2 = MinOf(@ + 1, MaxAge)]]

\* apply_dealloc_pages: k pages of group g
Deactivated(gs, g, k) == IF k = 0 THEN gs ELSE [gs EXCEPT ![g].live = @ - k]

\* FileInfo::on_update of the file of group g
Updated(fs, gs, g, k) ==
    IF k = 0 \/ gs[g].file \notin DOMAIN fs THEN fs
    ELSE [fs EXCEPT ![gs[g].file].age2 = fs[gs[g].file].age1, ![gs[g].file].age1 = 0]

\* drain_obsoleted_files
LiveGroups(gs) == Restrict(gs, {g \in DOMAIN gs : gs[g].live > 0})
LiveFiles(fs, gs) ==
    Restrict(fs, {f \in DOMAIN fs : (DOMAIN fs[f].metas \cup DOMAIN fs[f].refs) \cap DOMAIN gs # {}})

\* A flush of n pages that deallocates k pages of group g
Flush(n, g, k) ==
    LET id == NewFileId
        own == flushes + 1
        kept == LiveGroups(Deactivated(groups, g, k))
        file == [metas |-> [x \in {own} |-> n], refs |-> [x \in IF k > 0 THEN {g} ELSE {} |-> k],
                 age1 |-> 1, age2 |-> 1]
    IN  /\ flushes < MaxFlushes
        /\ k > 0 => g \in DOMAIN groups /\ groups[g].live >= k
        /\ files' = [f \in DOMAIN LiveFiles(files, kept) \cup {id} |->
                        IF f = id THEN file ELSE Updated(Aged(files), groups, g, k)[f]]
        /\ groups' = [x \in DOMAIN kept \cup (IF n > 0 THEN {own} ELSE {}) |->
                         IF x = own THEN [file |-> id, live |-> n] ELSE kept[x]]
        /\ newer' = TRUE
        /\ flushes' = own
        /\ UNCHANGED <<job, cleaned, faults>>

-----------------------------------------------------------------------------
(* ReclaimCtx. *)

\* reclaim, and build_strategy when there is something to reclaim
ReclaimBegin ==
    /\ job.pc = "run"
    /\ IF IsReclaimable(job.files, job.groups, cleaned)
       THEN /\ job' = [job EXCEPT !.pc = "pick", !.skipped = cleaned,
                                  !.scores = DOMAIN job.files \ cleaned]
            /\ cleaned' = cleaned \cap DOMAIN job.files
       ELSE /\ job' = [job EXCEPT !.pc = "wait", !.skipped = cleaned]
            /\ cleaned' = {}
    /\ UNCHANGED <<files, groups, newer, flushes, faults>>

\* apply keeps the file with the lowest score.
Enough(scores) == Cardinality(scores) >= 2

\* apply
Best(f) ==
    /\ Enough(job.scores)
    /\ f \in job.scores
    /\ \A g \in job.scores : ~Before(job.files, job.groups, g, f)

\* The size of the files that the job builder has collected
CompactSize(victims) == SumOver(victims, LAMBDA f : Active(job.files, job.groups, f) * PageSize)

\* ReclaimJobBuilder::add without a job; the loop goes on unless there is a next version.
ReclaimCollect(f) ==
    /\ job.pc = "pick" /\ Best(f) /\ CompactSize(job.victims \cup {f}) < FileBase
    /\ job' = [job EXCEPT !.scores = @ \ {f}, !.victims = @ \cup {f},
                          !.pc = IF newer THEN "wait" ELSE "pick"]
    /\ UNCHANGED <<files, groups, newer, cleaned, flushes, faults>>

\* The groups that compact_files forwards, as they are in the version of the job
Forwarded(victims) == UNION {DOMAIN job.files[f].metas : f \in victims} \cap DOMAIN job.groups

\* The deallocated pages that compact_file copies, those of groups that still exist
Referenced(victims) ==
    [g \in UNION {DOMAIN job.files[f].refs : f \in victims} \cap DOMAIN job.groups |->
        SumOver({f \in victims : g \in DOMAIN job.files[f].refs}, LAMBDA f : job.files[f].refs[g])]

\* up2 of the new file is the average of its inputs, rounded down.
AverageAge(fs, victims) ==
    (SumOver(victims, LAMBDA f : fs[f].age2) + Cardinality(victims) - 1) \div Cardinality(victims)

\* Mutant of Obsoleted: the inputs stay in the version.
ObsoletedNot(victims) == {}

\* obsoleted_files of the version
Obsoleted(victims) == victims

\* reclaim_files: compacts the victims into a new file.
ReclaimCompact(f) ==
    LET victims == job.victims \cup {f}
        id == NewFileId
        fwd == Forwarded(victims)
        age == MinOf(AverageAge(Aged(job.files), victims), MaxAge)
        file == [metas |-> [g \in fwd |-> job.groups[g].live],
                 refs |-> Referenced(victims),
                 age1 |-> age, age2 |-> age]
    IN  /\ job.pc = "pick" /\ Best(f) /\ CompactSize(victims) >= FileBase
        /\ files' = [x \in (DOMAIN files \ Obsoleted(victims)) \cup {id} |->
                        IF x = id THEN file ELSE Aged(files)[x]]
        /\ groups' = [g \in DOMAIN groups \cup fwd |->
                         IF g \in fwd THEN [file |-> id, live |-> job.groups[g].live] ELSE groups[g]]
        /\ newer' = TRUE
        /\ cleaned' = cleaned \cup victims
        /\ job' = [job EXCEPT !.pc = "wait", !.scores = @ \ {f}, !.victims = {}]
        /\ UNCHANGED <<flushes, faults>>

\* reclaim_files fails after it has read some of the victims.
ReclaimFail(f, read) ==
    /\ job.pc = "pick" /\ Best(f) /\ CompactSize(job.victims \cup {f}) >= FileBase
    /\ faults < MaxFaults
    /\ read \subseteq job.victims \cup {f}
    /\ cleaned' = cleaned \cup read
    /\ job' = [job EXCEPT !.pc = "wait", !.failed = TRUE]
    /\ faults' = faults + 1
    /\ UNCHANGED <<files, groups, newer, flushes>>

\* apply returns None.
ReclaimNone ==
    /\ job.pc = "pick" /\ ~Enough(job.scores)
    /\ job' = [job EXCEPT !.pc = "wait"]
    /\ UNCHANGED <<files, groups, newer, cleaned, flushes, faults>>

\* run: the next version, refreshed
ReclaimNext ==
    /\ job.pc = "wait" /\ newer
    /\ job' = [pc |-> "run", files |-> files, groups |-> groups, skipped |-> {}, scores |-> {},
               victims |-> {}, failed |-> FALSE]
    /\ newer' = FALSE
    /\ UNCHANGED <<files, groups, cleaned, flushes, faults>>

Reclaim ==
    \/ ReclaimBegin \/ ReclaimNone \/ ReclaimNext
    \/ \E f \in job.scores :
          ReclaimCollect(f) \/ ReclaimCompact(f) \/ \E read \in SUBSET DOMAIN job.files : ReclaimFail(f, read)

-----------------------------------------------------------------------------

NoFiles == [f \in {} |-> 0]

Init ==
    /\ files = NoFiles /\ groups = NoFiles /\ newer = FALSE /\ cleaned = {}
    /\ flushes = 0 /\ faults = 0
    /\ job = [pc |-> "run", files |-> NoFiles, groups |-> NoFiles, skipped |-> {}, scores |-> {},
              victims |-> {}, failed |-> FALSE]

Next ==
    \/ Reclaim
    \/ \E n \in 0..MaxPages : Flush(n, 0, 0) \/ \E g \in DOMAIN groups, k \in 1..MaxPages : Flush(n, g, k)

Spec == Init /\ [][Next]_vars

\* The job is spawned when the store is opened and runs until it is shut down.
FairSpec == Spec /\ WF_vars(Reclaim)

-----------------------------------------------------------------------------
(* Properties. *)

\* Whenever the job waits and no version is left to look at, the space amplification is
\* within the options, or what could be compacted does not fill a file: the active pages
\* of all files but one are fewer than file_base_size.  A compaction that fails makes two
\* exceptions, and nothing else does: its own round leaves everything as it is until there
\* is another version, and the files it had read stay set aside, out of all accounts,
\* until a round finds nothing to reclaim among the others.
QuietBounded ==
    LET aside == job.skipped \cap DOMAIN files
        rest == DOMAIN files \ aside
    IN  job.pc = "wait" /\ ~newer =>
           /\ job.failed \/ aside # {} => faults > 0
           /\ \/ job.failed
              \/ ~IsReclaimable(files, groups, aside)
              \/ \E f \in rest :
                    SumOver(rest \ {f}, LAMBDA x : Active(files, groups, x) * PageSize) < FileBase

\* A compaction of the newest version keeps the active pages, and the files take no more
\* space than before.
CompactStep ==
    (\E f \in job.scores : ReclaimCompact(f)) /\ ~newer =>
       /\ BaseSize(groups', {}) = BaseSize(groups, {})
       /\ UsedSpace(files', {}) <= UsedSpace(files, {})

\* There is nothing left to reclaim in the files that are not set aside, and still their
\* metadata is more than the space amplification that the options allow.
MetadataExceeds ==
    /\ \A f \in DOMAIN files \ cleaned : \A g \in DOMAIN files[f].metas :
          files[f].metas[g] = (IF g \in DOMAIN groups THEN groups[g].live ELSE 0)
    /\ IsReclaimable(files, groups, cleaned)
=============================================================================
