------------------------------- MODULE MCTree -------------------------------
(***************************************************************************)
(* Instances of Tree for TLC.  A scene is an instance that brings about    *)
(* one kind of meeting between operations; a behaviour stays in its scene. *)
(***************************************************************************)
EXTENDS Integers, TLC

CONSTANTS
    Tasks,
    Scenes,         \* the scenes of a run
    PartialKinds,   \* operations in the scene "partial"
    PartialSafe     \* bound of the safe LSN there

VARIABLES scene, pages, table, clock, lsn, safe_lsn, task, hist, again, reads, content

tree == <<pages, table, clock, lsn, safe_lsn, task, hist, again, reads, content>>
vars == <<scene, tree>>

NoEnd == 9
Sizes == {1}
MaxAgain == 0

Versions(keys, size) == {[k |-> k, lsn |-> 0, val |-> size] : k \in keys}

\* A root leaf that the next consolidation makes too large.
FullRoot == Versions({2, 3}, 1)

\* A root leaf that the next write splits.
LargeRoot == Versions({1, 2, 4, 5}, 1)

\* A root leaf that is much larger than a few deltas.
LargeValue == Versions({1, 2}, 5)

\* Two writes while the root and its children split and are reconciled.
Points == INSTANCE Tree WITH
    Keys <- {2, 3}, Kinds <- {"put"}, InitItems <- LargeRoot, PageSize <- 4, ChainLen <- 1,
    MaxLsn <- 2, MaxVersions <- 3, MaxReads <- 0, MaxSafe <- 0

\* Gets on both sides of a split.
Gets == INSTANCE Tree WITH
    Keys <- {3, 4}, Kinds <- {"put", "get"}, InitItems <- LargeRoot, PageSize <- 4, ChainLen <- 1,
    MaxLsn <- 2, MaxVersions <- 1, MaxReads <- 2, MaxSafe <- 0

\* Consolidations of whole chains while the safe LSN advances past deletes.
Deletes == INSTANCE Tree WITH
    Keys <- {2, 3}, Kinds <- {"put", "delete", "get"}, InitItems <- FullRoot, PageSize <- 8, ChainLen <- 1,
    MaxLsn <- 2, MaxVersions <- 3, MaxReads <- 1, MaxSafe <- 2

\* Consolidations that stop before a large base page.
Partial == INSTANCE Tree WITH
    Keys <- {1, 2}, Kinds <- PartialKinds, InitItems <- LargeValue, PageSize <- 20, ChainLen <- 2,
    MaxLsn <- 3, MaxVersions <- 4, MaxReads <- 0, MaxSafe <- PartialSafe

\* A scan over leaves that split under it.
Scans == INSTANCE Tree WITH
    Keys <- {2, 5}, Kinds <- {"put", "scan"}, InitItems <- LargeRoot, PageSize <- 4, ChainLen <- 1,
    MaxLsn <- 2, MaxVersions <- 2, MaxReads <- 1, MaxSafe <- 0

Init ==
    /\ scene \in Scenes
    /\ \/ scene = "points" /\ Points!Init
       \/ scene = "gets" /\ Gets!Init
       \/ scene = "deletes" /\ Deletes!Init
       \/ scene = "partial" /\ Partial!Init
       \/ scene = "scans" /\ Scans!Init

Next ==
    /\ UNCHANGED scene
    /\ CASE scene = "points" -> Points!Next
         [] scene = "gets" -> Gets!Next
         [] scene = "deletes" -> Deletes!Next
         [] scene = "partial" -> Partial!Next
         [] scene = "scans" -> Scans!Next

Spec == Init /\ [][Next]_vars

Symmetry == Permutations(Tasks)
-----------------------------------------------------------------------------
MapInit ==
    CASE scene = "points" -> Points!Map!Init
      [] scene = "gets" -> Gets!Map!Init
      [] scene = "deletes" -> Deletes!Map!Init
      [] scene = "partial" -> Partial!Map!Init
      [] scene = "scans" -> Scans!Map!Init

MapStep ==
    CASE scene = "points" -> [Points!Map!Next]_<<content, safe_lsn>>
      [] scene = "gets" -> [Gets!Map!Next]_<<content, safe_lsn>>
      [] scene = "deletes" -> [Deletes!Map!Next]_<<content, safe_lsn>>
      [] scene = "partial" -> [Partial!Map!Next]_<<content, safe_lsn>>
      [] scene = "scans" -> [Scans!Map!Next]_<<content, safe_lsn>>

\* The tree implements the map of KeyValue: splits, reconciliations and
\* consolidations change no answer that is still promised, and a write changes the
\* answers for its key from its LSN on, in the one step that publishes its delta
\* (try_write, split_page, reconcile_page, consolidate_page).
ImplementsMap == MapInit /\ [][MapStep]_vars

\* A get that started from an old root or parent still answers with the newest version
\* committed when it loads the leaf; a finished scan has returned its keys in order, each
\* at most once, and every key that nobody wrote meanwhile with its newest version,
\* although the leaves split under it (try_find_leaf, find_value, seek, next_page).
ReadsExact ==
    /\ [](scene = "scans" => Scans!ScanInOrder /\ Scans!ScanComplete)
    /\ [][/\ scene = "gets" => Gets!GetStep
          /\ scene = "deletes" => Deletes!GetStep]_vars

\* A child is at most one split ahead of the index its parent has for it, with that split
\* on top of its chain, where try_find_leaf can find and reconcile it; and the assertions
\* of split_root_impl, reconcile_split_page and iter_page hold.
SplitsOrdered ==
    /\ scene = "points" => Points!PendingSplitsOnTop /\ Points!AssertionsHold
    /\ scene = "gets" => Gets!PendingSplitsOnTop /\ Gets!AssertionsHold
    /\ scene = "partial" => Partial!PendingSplitsOnTop /\ Partial!AssertionsHold
=============================================================================
