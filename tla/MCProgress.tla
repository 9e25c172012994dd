----------------------------- MODULE MCProgress -----------------------------
(***************************************************************************)
(* Instances of Tree, ReclaimPolicy and VersionChain for TLC, under        *)
(* fairness.  A behaviour is one of a single component, the one that       *)
(* `part' names; the variables of the others are absent.                   *)
(***************************************************************************)
EXTENDS Integers

VARIABLES
    part,
    pages, table, clock, lsn, safe_lsn, task, hist, again, reads, content, \* Tree
    files, groups, newer, job, compacted, flushes, faults,                 \* ReclaimPolicy
    raw, boxes, waits, linked, newLatch, recLatch, reclaimable, inst,
    loaded, holds, pc, awake, closed, shutWakers, cleaned                  \* VersionChain

treeVars == <<pages, table, clock, lsn, safe_lsn, task, hist, again, reads, content>>
policyVars == <<files, groups, newer, job, compacted, flushes, faults>>
chainVars == <<raw, boxes, waits, linked, newLatch, recLatch, reclaimable, inst,
               loaded, holds, pc, awake, closed, shutWakers, cleaned>>
vars == <<part, treeVars, policyVars, chainVars>>

Tasks == {"t1", "t2"}

\* Two writes of a root leaf that splits, one of whose allocations finds the write
\* buffer full.
Writers == INSTANCE Tree WITH
    Keys <- {3, 6}, Kinds <- {"put"}, InitItems <- {[k |-> k, lsn |-> 0, val |-> 1] : k \in {1, 2, 4, 5}},
    NoEnd <- 9, Sizes <- {1}, PageSize <- 4, ChainLen <- 1,
    MaxLsn <- 2, MaxVersions <- 1, MaxReads <- 0, MaxSafe <- 0, MaxAgain <- 1

\* A leaf that cannot be split when its first key is written again.
Rewriters == INSTANCE Tree WITH
    Keys <- {1, 4}, Kinds <- {"put"}, InitItems <- {[k |-> k, lsn |-> 0, val |-> 1] : k \in {1, 2}},
    NoEnd <- 9, Sizes <- {1}, PageSize <- 2, ChainLen <- 1,
    MaxLsn <- 2, MaxVersions <- 3, MaxReads <- 0, MaxSafe <- 0, MaxAgain <- 0

\* Metadata that is small against the pages.
Policy == INSTANCE ReclaimPolicy WITH
    cleaned <- compacted,
    PageSize <- 4096, SpaceAmp <- 80, UsedHigh <- 8192, FileBase <- 4096,
    MaxFlushes <- 3, MaxPages <- 2, MaxAge <- 3, MaxFaults <- 1

\* A file with one page has more metadata than the option allows, one with two has less.
SmallPages == INSTANCE ReclaimPolicy WITH
    cleaned <- compacted,
    PageSize <- 100, SpaceAmp <- 100, UsedHigh <- 1000, FileBase <- 150,
    MaxFlushes <- 2, MaxPages <- 3, MaxAge <- 3, MaxFaults <- 1

\* A guard delays the cleanup of a version.
Guarded == INSTANCE VersionChain WITH
    Readers <- {"r1"}, Waiters <- {}, MaxVersion <- 2, Closes <- TRUE

\* The jobs fall behind by more than a version.
Chain == INSTANCE VersionChain WITH
    Readers <- {}, Waiters <- {}, MaxVersion <- 3, Closes <- TRUE
-----------------------------------------------------------------------------
NoTree ==
    /\ pages = 0 /\ table = 0 /\ clock = 0 /\ lsn = 0 /\ safe_lsn = 0
    /\ task = 0 /\ hist = 0 /\ again = 0 /\ reads = 0 /\ content = 0
NoPolicy ==
    /\ files = 0 /\ groups = 0 /\ newer = 0 /\ job = 0
    /\ compacted = 0 /\ flushes = 0 /\ faults = 0
NoChain ==
    /\ raw = 0 /\ boxes = 0 /\ waits = 0 /\ linked = 0 /\ newLatch = 0
    /\ recLatch = 0 /\ reclaimable = 0 /\ inst = 0 /\ loaded = 0 /\ holds = 0
    /\ pc = 0 /\ awake = 0 /\ closed = 0 /\ shutWakers = 0 /\ cleaned = 0

Init ==
    \/ part = "tree" /\ Writers!Init /\ NoPolicy /\ NoChain
    \/ part = "rewrites" /\ Rewriters!Init /\ NoPolicy /\ NoChain
    \/ part \in {"policy", "small pages"} /\ Policy!Init /\ NoTree /\ NoChain
    \/ part = "guarded" /\ Guarded!Init /\ NoTree /\ NoPolicy
    \/ part = "chain" /\ Chain!Init /\ NoTree /\ NoPolicy

TreeStep(A) == part = "tree" /\ A /\ UNCHANGED <<part, policyVars, chainVars>>
RewriteStep(A) == part = "rewrites" /\ A /\ UNCHANGED <<part, policyVars, chainVars>>
PolicyStep(A) == part = "policy" /\ A /\ UNCHANGED <<part, treeVars, chainVars>>
SmallStep(A) == part = "small pages" /\ A /\ UNCHANGED <<part, treeVars, chainVars>>
GuardedStep(A) == part = "guarded" /\ A /\ UNCHANGED <<part, treeVars, policyVars>>
ChainStep(A) == part = "chain" /\ A /\ UNCHANGED <<part, treeVars, policyVars>>

Next ==
    \/ TreeStep(Writers!Next) \/ RewriteStep(Rewriters!Next)
    \/ PolicyStep(Policy!Next) \/ SmallStep(SmallPages!Next)
    \/ GuardedStep(Guarded!Next) \/ ChainStep(Chain!Next)

Trees == part \in {"tree", "rewrites"}

\* The fairness of each component: see FairSpec there.
Fairness ==
    /\ \A t \in Tasks :
          \/ []<>(Trees => task[t].pc = "idle")
          \/ []<><<TreeStep(Writers!Runs(t)) \/ RewriteStep(Rewriters!Runs(t))>>_vars
    /\ WF_vars(PolicyStep(Policy!Reclaim)) /\ WF_vars(SmallStep(SmallPages!Reclaim))
    /\ WF_vars(GuardedStep(Guarded!InstallLink \/ Guarded!InstallWake \/ Guarded!InstallDefer))
    /\ WF_vars(GuardedStep(Guarded!Cleanup)) /\ WF_vars(GuardedStep(Guarded!Reclaim))
    /\ \A v \in 1..2 : WF_vars(GuardedStep(Guarded!FreeBox(v)))
    /\ WF_vars(GuardedStep(Guarded!Clone("r1"))) /\ WF_vars(GuardedStep(Guarded!DropGuard("r1")))
    /\ WF_vars(ChainStep(Chain!InstallLink \/ Chain!InstallWake \/ Chain!InstallDefer))
    /\ WF_vars(ChainStep(Chain!Cleanup)) /\ WF_vars(ChainStep(Chain!Reclaim))
    /\ \A v \in 1..3 : WF_vars(ChainStep(Chain!FreeBox(v)))

Spec == Init /\ [][Next]_vars /\ Fairness
-----------------------------------------------------------------------------
\* Every operation of the tree ends: the retries after a conflict, a changed epoch, a
\* pending split or a full write buffer succeed in the end (write, find_leaf).  There is
\* one exception: a write to a leaf that is too large and has no separator, because the
\* middle of its items is a version of its first key, retries for ever (try_write).  It
\* takes writes of the same key: without them every operation ends.
OperationsEnd ==
    \A t \in Tasks :
       \/ []<>(Trees => task[t].pc = "idle")
       \/ <>[](part = "rewrites" /\ Rewriters!Stuck(t))

\* When the writers stop, reclaiming comes to an end where the metadata is small against
\* the pages.  Where it is not, reclaiming ends too, or it goes on for ever for one reason
\* only: every page of the files it looks at is active, and their metadata alone is more
\* than max_space_amplification_percent, so that compaction writes the same pages again
\* and again (ReclaimCtx::run, reclaim_reason).
ReclaimSettles ==
    /\ <>[](part = "policy" => job.pc = "wait")
    /\ \/ <>[](part = "small pages" => job.pc = "wait")
       \/ <>[](part = "small pages" => SmallPages!MetadataExceeds)

Chained == part \in {"guarded", "chain"}

\* Every version but the first is cleaned up for, unless the store is closed
\* (CleanupCtx::run); after it is closed the jobs end, wherever they sleep
\* (with_shutdown).
JobsProgress ==
    /\ \A v \in 2..3 : (Chained /\ raw >= v) ~> (Chained => v \in cleaned \/ closed)
    /\ (Chained /\ closed) ~> (Chained => \A j \in {"cleanup", "reclaim"} : pc[j] = "done")
=============================================================================
