------------------------- MODULE VersionChainProofs -------------------------
(***************************************************************************)
(* Proofs about VersionChain, for any number of readers, waiters and       *)
(* versions: a reader never clones from a box that is freed, who is woken  *)
(* finds the next version, and the cleanup job cleans up only what no task *)
(* can reach any more.                                                     *)
(***************************************************************************)
EXTENDS VersionChain, TLAPS

Latches == [open : BOOLEAN, wakers : SUBSET Sleepers]

\* Types of the state that the invariants speak of.
OwnerType ==
    /\ raw \in Versions /\ boxes \subseteq Versions /\ linked \subseteq Versions
    /\ waits \in [Versions -> SUBSET (Readers \cup {"owner"})]
    /\ inst \in {"raw", "link", "wake", "defer"}
    /\ newLatch \in [Versions -> Latches]
    /\ loaded \in [Readers -> 0..MaxVersion]

\* The boxes and the chain.  A box that is not given to the collector waits for its
\* owner, and one that is waits for every reader that has loaded it.
OwnerInv ==
    /\ OwnerType
    /\ raw \in boxes /\ \A v \in boxes : v <= raw
    /\ inst # "raw" => raw > 1
    /\ \A v \in Versions : (v >= raw \/ (v = raw - 1 /\ inst # "raw")) => "owner" \in waits[v]
    /\ \A r \in Readers :
          loaded[r] # 0 => /\ loaded[r] \in boxes
                           /\ "owner" \in waits[loaded[r]] \/ r \in waits[loaded[r]]
    /\ \A v \in linked : v < raw
    /\ \A v \in Versions : v < raw => v \in linked \/ (v = raw - 1 /\ inst = "link")
    /\ \A v \in Versions : newLatch[v].open => v \in linked

PcType == pc \in [Sleepers -> {"next", "released", "reclaim", "refresh", "idle", "check", "wait", "done"}]

\* What a job or a waiter holds while it is not idle.
PcInv ==
    /\ PcType
    /\ \A t \in Sleepers : pc[t] \notin {"idle", "done"} => holds[t] # 0
    /\ pc["cleanup"] = "released" => holds["cleanup"] > 1

\* What tasks hold is not before a version that has been cleaned up for.
HoldsInv ==
    /\ holds \in [Tasks -> 0..MaxVersion] /\ cleaned \subseteq Versions
    /\ \A t \in Tasks : holds[t] <= raw
    /\ \A v \in cleaned : /\ v <= raw
                          /\ \A u \in boxes : u >= v
                          /\ \A t \in Tasks : holds[t] = 0 \/ holds[t] >= v

IndInv == OwnerInv /\ PcInv /\ HoldsInv

-----------------------------------------------------------------------------

\* A step that leaves the boxes, the chain and what readers have loaded alone, and
\* opens no latch, preserves the first part.
LEMMA OwnerStutters ==
    ASSUME OwnerInv, UNCHANGED <<owner, loaded>>, newLatch' \in [Versions -> Latches],
           \A v \in Versions : newLatch'[v].open = newLatch[v].open
    PROVE  OwnerInv'
  BY Zenon DEF OwnerInv, OwnerType, owner

\* The steps of an install, and the collector.
LEMMA OwnerInstalls ==
    ASSUME OwnerInv,
           (\E r \in BOOLEAN : InstallRaw(r)) \/ InstallLink \/ InstallWake \/ InstallDefer
             \/ (\E v \in Versions : FreeBox(v))
    PROVE  OwnerInv'
<1>1. CASE \E r \in BOOLEAN : InstallRaw(r)
  <2>1. /\ inst = "raw" /\ raw < MaxVersion /\ raw' = raw + 1 /\ boxes' = boxes \cup {raw + 1}
        /\ inst' = "link" /\ UNCHANGED <<waits, linked, newLatch, loaded>>
    BY Zenon, <1>1 DEF InstallRaw, StepAfter
  <2>2. raw + 1 \in Versions
    BY <2>1, TasksAssumption DEF OwnerInv, OwnerType, Versions
  <2> QED
    BY <2>1, <2>2, TasksAssumption DEF OwnerInv, OwnerType, Versions
<1>2. CASE InstallLink
  <2>1. /\ inst = "link" /\ linked' = linked \cup {raw - 1} /\ inst' = "wake"
        /\ UNCHANGED <<raw, boxes, waits, newLatch, loaded>>
    BY Zenon, <1>2 DEF InstallLink, StepAfter
  <2>2. raw - 1 \in Versions
    BY <2>1, TasksAssumption DEF OwnerInv, OwnerType, Versions
  <2> QED
    BY <2>1, <2>2, TasksAssumption DEF OwnerInv, OwnerType, Versions
<1>3. CASE InstallWake
  <2>1. /\ inst = "wake" /\ newLatch' = [newLatch EXCEPT ![raw - 1] = Opened] /\ inst' = "defer"
        /\ UNCHANGED <<raw, boxes, waits, linked, loaded>>
    BY Zenon, <1>3 DEF InstallWake, StepAfter
  <2>2. raw - 1 \in Versions /\ raw - 1 \in linked
    BY <2>1, TasksAssumption DEF OwnerInv, OwnerType, Versions
  <2>3. Opened \in Latches
    BY Zenon DEF Opened, Latches
  <2>4. newLatch' \in [Versions -> Latches]
    BY Zenon, <2>1, <2>3 DEF OwnerInv, OwnerType
  <2>5. \A v \in Versions : newLatch'[v].open => v \in linked
    BY Zenon, <2>1, <2>2 DEF OwnerInv, OwnerType
  <2> QED
    BY Zenon, <2>1, <2>4, <2>5 DEF OwnerInv, OwnerType
<1>4. CASE InstallDefer
  <2>1. /\ inst = "defer" /\ waits' = [waits EXCEPT ![raw - 1] = Pinned] /\ inst' = "raw"
        /\ UNCHANGED <<raw, boxes, linked, newLatch, loaded>>
    BY Zenon, <1>4 DEF InstallDefer
  <2>2. Pinned \in SUBSET (Readers \cup {"owner"})
    BY Zenon DEF Pinned
  <2>3. \A r \in Readers : loaded[r] # 0 => r \in Pinned
    BY Zenon DEF Pinned
  <2>4. OwnerType'
    BY Zenon, <2>1, <2>2 DEF OwnerInv, OwnerType
  <2>5. \A r \in Readers :
          loaded[r] # 0 => "owner" \in waits'[loaded[r]] \/ r \in waits'[loaded[r]]
    BY Zenon, <2>1, <2>3 DEF OwnerInv, OwnerType
  <2>6. \A v \in Versions : v >= raw => "owner" \in waits'[v]
    BY <2>1, TasksAssumption DEF OwnerInv, OwnerType, Versions
  <2> QED
    BY Zenon, <2>1, <2>4, <2>5, <2>6 DEF OwnerInv
<1>5. CASE \E v \in Versions : FreeBox(v)
  <2>1. PICK v \in Versions : FreeBox(v)
    BY Zenon, <1>5
  <2>2. /\ v < raw /\ waits[v] = {} /\ boxes' = boxes \ {v}
        /\ UNCHANGED <<raw, waits, linked, inst, newLatch, loaded>>
    BY Zenon, <2>1 DEF FreeBox
  <2>3. \A r \in Readers : loaded[r] # v
    BY <2>2, TasksAssumption DEF OwnerInv, Versions
  <2> QED
    BY Zenon, <2>2, <2>3, TasksAssumption DEF OwnerInv, OwnerType, Versions
<1> QED
  BY Zenon, <1>1, <1>2, <1>3, <1>4, <1>5

\* A reader loads the box of the current version, or has cloned and unpins.
LEMMA OwnerReads ==
    ASSUME OwnerInv, NEW r \in Readers, Load(r) \/ Clone(r)
    PROVE  OwnerInv'
<1>1. CASE Load(r)
  <2>1. loaded' = [loaded EXCEPT ![r] = raw] /\ UNCHANGED <<raw, boxes, waits, linked, inst, newLatch>>
    BY Zenon, <1>1 DEF Load, owner
  <2>2. raw \in Versions /\ "owner" \in waits[raw]
    BY Zenon, TasksAssumption DEF OwnerInv, OwnerType, Versions
  <2> QED
    BY <2>1, <2>2, TasksAssumption DEF OwnerInv, OwnerType, Versions
<1>2. CASE Clone(r)
  <2>1. /\ loaded' = [loaded EXCEPT ![r] = 0] /\ waits' = [v \in Versions |-> waits[v] \ {r}]
        /\ UNCHANGED <<raw, boxes, linked, inst, newLatch>>
    BY Zenon, <1>2 DEF Clone
  <2>2. \A v \in Versions : "owner" \in waits[v] => "owner" \in waits'[v]
    BY Zenon, <2>1, TasksAssumption
  <2>3. \A q \in Readers : q # r => \A v \in Versions : q \in waits[v] => q \in waits'[v]
    BY Zenon, <2>1
  <2>4. OwnerType'
    BY <2>1, TasksAssumption DEF OwnerInv, OwnerType, Versions
  <2>5. \A q \in Readers : loaded'[q] # 0 => q # r /\ loaded'[q] = loaded[q] /\ loaded[q] \in Versions
    BY Zenon, <2>1, TasksAssumption DEF OwnerInv, OwnerType, Versions
  <2> QED
    BY <2>1, <2>2, <2>3, <2>4, <2>5 DEF OwnerInv
<1> QED
  BY Zenon, <1>1, <1>2

-----------------------------------------------------------------------------

\* A task drops what it holds, takes what is in a box, or moves on along the chain.
LEMMA HoldsMove ==
    ASSUME OwnerInv, HoldsInv, NEW t \in Tasks, NEW h \in 0..MaxVersion,
           holds' = [holds EXCEPT ![t] = h], UNCHANGED <<raw, boxes, cleaned>>,
           h = 0 \/ h \in boxes \/ (holds[t] # 0 /\ h >= holds[t] /\ h <= raw)
    PROVE  HoldsInv'
<1>1. h <= raw
  BY TasksAssumption DEF OwnerInv, OwnerType, Versions
<1>2. \A v \in cleaned : h = 0 \/ h >= v
  BY TasksAssumption DEF HoldsInv, Versions, OwnerInv, OwnerType
<1> QED
  BY Zenon, <1>1, <1>2, TasksAssumption DEF HoldsInv, Versions

\* Tasks keep what they hold, and boxes are made for a newer version or freed.
LEMMA HoldsStay ==
    ASSUME OwnerInv, HoldsInv, UNCHANGED <<holds, cleaned>>,
           raw' = raw \/ raw' = raw + 1, boxes' \subseteq boxes \cup {raw'}
    PROVE  HoldsInv'
  BY TasksAssumption DEF OwnerInv, OwnerType, HoldsInv, Versions

\* The version after one whose latch is open, or that is linked, is not newer than
\* the current one.
LEMMA NextExists ==
    ASSUME OwnerInv, NEW h \in 0..MaxVersion, h # 0, h \in linked \/ newLatch[h].open
    PROVE  h + 1 <= raw /\ h + 1 \in 0..MaxVersion
<1>1. h \in Versions
  BY TasksAssumption DEF Versions
<1>2. h \in linked
  BY Zenon, <1>1 DEF OwnerInv
<1> QED
  BY <1>1, <1>2, TasksAssumption DEF OwnerInv, OwnerType, Versions

\* The cleanup job passes a version that is dropped: none before it is referred to.
LEMMA ReleasedUnused ==
    ASSUME OwnerInv, HoldsInv, NEW h \in 2..MaxVersion, h <= raw, ~Alive(h - 1)
    PROVE  /\ \A u \in boxes : u >= h
           /\ \A t \in Tasks : holds[t] = 0 \/ holds[t] >= h
<1>1. ASSUME NEW u \in 1..(h - 1) PROVE ~Direct(u)
  <2>1. \A w \in u..(h - 2) : w \in linked
    BY TasksAssumption DEF OwnerInv, OwnerType, Versions
  <2>2. (h - 1) - 1 = h - 2
    BY TasksAssumption
  <2> QED
    BY Zenon, <2>1, <2>2 DEF Alive
<1>2. \A u \in boxes : u >= h
  <2>1. \A u \in boxes : u \in Versions /\ u \notin 1..(h - 1)
    BY Zenon, <1>1 DEF Direct, OwnerInv, OwnerType
  <2> QED
    BY <2>1, TasksAssumption DEF Versions
<1>3. \A t \in Tasks : holds[t] = 0 \/ holds[t] >= h
  <2>1. \A t \in Tasks : holds[t] \in 0..MaxVersion /\ holds[t] \notin 1..(h - 1)
    BY Zenon, <1>1 DEF Direct, HoldsInv
  <2> QED
    BY <2>1, TasksAssumption
<1> QED
  BY Zenon, <1>2, <1>3

-----------------------------------------------------------------------------
(* Every step preserves the invariant. *)

\* An install and the collector preserve the whole invariant.
LEMMA InstallStep ==
    ASSUME IndInv, Install \/ (\E v \in Versions : FreeBox(v))
    PROVE  IndInv'
<1>1. OwnerInv'
  BY Zenon, OwnerInstalls DEF IndInv, Install
<1>2. /\ UNCHANGED <<holds, pc, cleaned>>
      /\ raw' = raw \/ raw' = raw + 1
      /\ boxes' \subseteq boxes \cup {raw'}
  BY Zenon DEF Install, InstallRaw, InstallLink, InstallWake, InstallDefer, FreeBox, tasks
<1>3. HoldsInv'
  BY Zenon, <1>2, HoldsStay DEF IndInv
<1>4. PcInv'
  BY Zenon, <1>2 DEF IndInv, PcInv, PcType
<1> QED
  BY Zenon, <1>1, <1>3, <1>4 DEF IndInv

\* So do the steps of VersionOwner::current and the drop of a guard.
LEMMA ReaderStep ==
    ASSUME IndInv, NEW r \in Readers, Reading(r)
    PROVE  IndInv'
<1>0. r \in Tasks /\ r \notin Sleepers
  BY Zenon, TasksAssumption DEF Tasks, Sleepers, Jobs
<1>1. CASE Load(r)
  <2>1. OwnerInv'
    BY Zenon, <1>1, OwnerReads DEF IndInv
  <2>2. UNCHANGED <<raw, boxes, holds, pc, cleaned>>
    BY Zenon, <1>1 DEF Load, owner, tasks
  <2> QED
    BY Zenon, <2>1, <2>2 DEF IndInv, PcInv, PcType, HoldsInv
<1>2. CASE Clone(r)
  <2>1. OwnerInv'
    BY Zenon, <1>2, OwnerReads DEF IndInv
  <2>2. /\ loaded[r] # 0 /\ holds' = [holds EXCEPT ![r] = loaded[r]]
        /\ UNCHANGED <<raw, boxes, pc, cleaned>>
    BY Zenon, <1>2 DEF Clone
  <2>3. loaded[r] \in boxes /\ loaded[r] \in 0..MaxVersion
    BY Zenon, <2>2 DEF IndInv, OwnerInv, OwnerType
  <2>4. HoldsInv'
    BY Zenon, <1>0, <2>2, <2>3, HoldsMove DEF IndInv
  <2>5. PcInv'
    BY Zenon, <1>0, <2>2 DEF IndInv, PcInv, PcType, HoldsInv, Tasks, Sleepers, Jobs
  <2> QED
    BY Zenon, <2>1, <2>4, <2>5 DEF IndInv
<1>3. CASE DropGuard(r)
  <2>1. /\ holds' = [holds EXCEPT ![r] = 0]
        /\ UNCHANGED <<owner, newLatch, loaded, pc, cleaned>>
    BY Zenon, <1>3 DEF DropGuard
  <2>2. OwnerInv'
    BY Zenon, <2>1, OwnerStutters DEF IndInv, OwnerInv, OwnerType
  <2>3. HoldsInv'
    <3>1. 0 \in 0..MaxVersion
      BY TasksAssumption
    <3> QED
      BY Zenon, <1>0, <2>1, <3>1, HoldsMove DEF IndInv, owner
  <2>4. PcInv'
    BY Zenon, <1>0, <2>1 DEF IndInv, PcInv, PcType, HoldsInv, Tasks, Sleepers, Jobs
  <2> QED
    BY Zenon, <2>2, <2>3, <2>4 DEF IndInv
<1> QED
  BY Zenon, <1>1, <1>2, <1>3 DEF Reading

\* A step that changes only other variables preserves the invariant.
LEMMA UnchangedStep ==
    ASSUME IndInv, UNCHANGED <<owner, newLatch, loaded, holds, pc, cleaned>>
    PROVE  IndInv'
  BY Zenon DEF IndInv, OwnerInv, OwnerType, PcInv, PcType, HoldsInv, owner

\* The wakers of a latch change.
LEMMA WakersChange ==
    ASSUME OwnerInv, UNCHANGED <<owner, loaded>>, NEW h \in Versions, NEW t \in Sleepers,
           newLatch' = Registered(newLatch, h, t) \/ newLatch' = Forgotten(newLatch, h, t)
    PROVE  OwnerInv'
<1>1. newLatch \in [Versions -> Latches] /\ newLatch[h] \in Latches
  BY Zenon DEF OwnerInv, OwnerType
<1>2. PICK ws \in SUBSET Sleepers : newLatch' = [newLatch EXCEPT ![h] = [newLatch[h] EXCEPT !.wakers = ws]]
  <2>1. newLatch[h].wakers \cup {t} \in SUBSET Sleepers /\ newLatch[h].wakers \ {t} \in SUBSET Sleepers
    BY Zenon, <1>1 DEF Latches
  <2> QED
    BY Zenon, <2>1 DEF Registered, Forgotten
<1>3. [newLatch[h] EXCEPT !.wakers = ws] \in Latches /\ [newLatch[h] EXCEPT !.wakers = ws].open = newLatch[h].open
  BY Zenon, <1>1 DEF Latches
<1> QED
  BY Zenon, <1>1, <1>2, <1>3, OwnerStutters

\* A job goes to sleep, or ends because the store is closed.
LEMMA SleepStep ==
    ASSUME IndInv, NEW t \in Jobs, Sleep(t) \/ SleepEnds(t)
    PROVE  IndInv'
<1>0. t \in Tasks /\ t \in Sleepers
  BY Zenon DEF Tasks, Sleepers
<1>1. holds[t] \in Versions
  BY <1>0, TasksAssumption DEF IndInv, PcInv, PcType, HoldsInv, Versions, Sleep, SleepEnds
<1>2. OwnerInv'
  BY Zenon, <1>0, <1>1, WakersChange DEF Sleep, SleepEnds, IndInv
<1>3. UNCHANGED <<raw, boxes, cleaned>>
  BY Zenon DEF Sleep, SleepEnds, owner
<1>4. \/ UNCHANGED <<holds, pc>>
      \/ holds' = [holds EXCEPT ![t] = 0] /\ pc' = [pc EXCEPT ![t] = "done"]
  BY Zenon DEF Sleep, SleepEnds, Stop
<1>5. HoldsInv'
  <2>1. CASE UNCHANGED <<holds, pc>>
    BY Zenon, <1>3, <2>1 DEF IndInv, HoldsInv
  <2>2. CASE holds' = [holds EXCEPT ![t] = 0]
    <3>1. 0 \in 0..MaxVersion
      BY TasksAssumption
    <3> QED
      BY Zenon, <1>0, <1>3, <2>2, <3>1, HoldsMove DEF IndInv
  <2> QED
    BY Zenon, <1>4, <2>1, <2>2
<1>6. PcInv'
  <2>1. CASE UNCHANGED <<holds, pc>>
    BY Zenon, <2>1 DEF IndInv, PcInv, PcType
  <2>2. CASE holds' = [holds EXCEPT ![t] = 0] /\ pc' = [pc EXCEPT ![t] = "done"]
    <3>1. holds \in [Tasks -> 0..MaxVersion] /\ Sleepers \subseteq Tasks /\ "cleanup" \in Sleepers
      BY Zenon DEF IndInv, HoldsInv, Tasks, Sleepers, Jobs
    <3>2. \A s \in Sleepers : s # t => holds'[s] = holds[s] /\ pc'[s] = pc[s]
      BY Zenon, <2>2, <3>1 DEF IndInv, PcInv, PcType
    <3>3. pc'[t] = "done" /\ PcType'
      BY Zenon, <1>0, <2>2 DEF IndInv, PcInv, PcType
    <3> QED
      BY Zenon, <3>1, <3>2, <3>3 DEF IndInv, PcInv
  <2> QED
    BY Zenon, <1>4, <2>1, <2>2
<1> QED
  BY Zenon, <1>2, <1>5, <1>6 DEF IndInv

\* A job or a waiter drops its version or moves on to the next one, and its control
\* changes accordingly.
LEMMA MoveStep ==
    ASSUME IndInv, NEW t \in Sleepers, NEW p, UNCHANGED <<owner, newLatch, loaded, cleaned>>,
           pc' = [pc EXCEPT ![t] = p],
           \/ p = "done" /\ holds' = [holds EXCEPT ![t] = 0]
           \/ /\ p \in {"next", "released", "reclaim", "refresh", "check", "wait"}
              /\ holds[t] # 0 /\ (holds[t] \in linked \/ newLatch[holds[t]].open)
              /\ holds' = [holds EXCEPT ![t] = holds[t] + 1]
           \/ /\ p \in {"next", "reclaim", "refresh", "check", "wait"}
              /\ holds[t] # 0 /\ UNCHANGED holds
           \/ p = "check" /\ holds' = [holds EXCEPT ![t] = raw]
    PROVE  IndInv'
<1>0. t \in Tasks
  BY Zenon DEF Tasks
<1>1. OwnerInv'
  BY Zenon, OwnerStutters DEF IndInv, OwnerInv, OwnerType
<1> DEFINE Good(h) ==
         /\ h \in 0..MaxVersion
         /\ holds' = [holds EXCEPT ![t] = h]
         /\ h = 0 \/ h \in boxes \/ (holds[t] # 0 /\ h >= holds[t] /\ h <= raw)
         /\ p # "done" => h # 0
         /\ p = "released" => h > 1
<1>2. \E h : Good(h)
  <2>1. holds[t] \in 0..MaxVersion /\ holds[t] <= raw /\ holds = [holds EXCEPT ![t] = holds[t]]
    BY Zenon, <1>0 DEF IndInv, HoldsInv
  <2>2. raw \in 0..MaxVersion /\ raw # 0 /\ raw \in boxes
    BY TasksAssumption DEF IndInv, OwnerInv, OwnerType, Versions
  <2>3. ASSUME p = "done", holds' = [holds EXCEPT ![t] = 0]
        PROVE  Good(0)
    <3>1. 0 \in 0..MaxVersion
      BY TasksAssumption
    <3> QED
      BY Zenon, <2>3, <3>1
  <2>4. ASSUME p \in {"next", "released", "reclaim", "refresh", "check", "wait"},
               holds[t] # 0, holds[t] \in linked \/ newLatch[holds[t]].open,
               holds' = [holds EXCEPT ![t] = holds[t] + 1]
        PROVE  Good(holds[t] + 1)
    <3>1. holds[t] + 1 <= raw /\ holds[t] + 1 \in 0..MaxVersion
      BY Zenon, <2>1, <2>4, NextExists DEF IndInv
    <3>2. holds[t] + 1 >= holds[t] /\ holds[t] + 1 # 0 /\ holds[t] + 1 > 1
      BY <2>1, <2>4, TasksAssumption
    <3> QED
      BY Zenon, <2>4, <3>1, <3>2
  <2>5. ASSUME p \in {"next", "reclaim", "refresh", "check", "wait"}, holds[t] # 0, UNCHANGED holds
        PROVE  Good(holds[t])
    <3>1. holds[t] >= holds[t]
      BY <2>1, TasksAssumption
    <3> QED
      BY Zenon, <2>1, <2>5, <3>1
  <2>6. ASSUME p = "check", holds' = [holds EXCEPT ![t] = raw]
        PROVE  Good(raw)
    BY Zenon, <2>2, <2>6
  <2> QED
    BY <2>3, <2>4, <2>5, <2>6, Zenon
<1>3. HoldsInv'
  BY Zenon, <1>0, <1>2, HoldsMove DEF IndInv, owner
<1>4. PcInv'
  <2>1. PICK h : Good(h)
    BY Zenon, <1>2
  <2>2. holds \in [Tasks -> 0..MaxVersion] /\ Sleepers \subseteq Tasks
    BY Zenon DEF IndInv, HoldsInv, Tasks
  <2>3. \A s \in Sleepers : s # t => holds'[s] = holds[s] /\ pc'[s] = pc[s]
    BY Zenon, <2>1, <2>2 DEF IndInv, PcInv, PcType
  <2>4. holds'[t] = h /\ pc'[t] = p
    BY Zenon, <1>0, <2>1, <2>2 DEF IndInv, PcInv, PcType
  <2>5. "cleanup" \in Sleepers
    BY Zenon DEF Sleepers, Jobs
  <2>6. PcType'
    BY Zenon DEF IndInv, PcInv, PcType
  <2> QED
    BY <2>1, <2>3, <2>4, <2>5, <2>6 DEF IndInv, PcInv
<1> QED
  BY Zenon, <1>1, <1>3, <1>4 DEF IndInv

\* The steps of the two jobs.
LEMMA JobStep ==
    ASSUME IndInv, Cleanup \/ Reclaim
    PROVE  IndInv'
<1>0. "cleanup" \in Sleepers /\ "reclaim" \in Sleepers /\ "cleanup" \in Tasks /\ "cleanup" \in Jobs /\ "reclaim" \in Jobs
  BY Zenon DEF Sleepers, Jobs, Tasks
<1>1. CASE Sleep("cleanup") \/ SleepEnds("cleanup") \/ Sleep("reclaim") \/ SleepEnds("reclaim")
  BY Zenon, <1>0, <1>1, SleepStep
<1>2. CASE CleanupNext
  <2>1. holds["cleanup"] # 0
    BY Zenon, <1>0, <1>2 DEF CleanupNext, IndInv, PcInv
  <2> QED
    BY Zenon, <1>0, <1>2, <2>1, MoveStep DEF CleanupNext
<1>3. CASE CleanupReleased
  <2> DEFINE h == holds["cleanup"]
  <2>1. /\ h \in 2..MaxVersion /\ h <= raw
        /\ ~Alive(h - 1) /\ cleaned' = cleaned \cup {h} /\ pc' = [pc EXCEPT !["cleanup"] = "next"]
        /\ UNCHANGED <<owner, newLatch, loaded, holds>>
    BY <1>0, <1>3, TasksAssumption DEF CleanupReleased, IsReleased, IndInv, PcInv, HoldsInv
  <2>2. OwnerInv'
    BY Zenon, <2>1, OwnerStutters DEF IndInv, OwnerInv, OwnerType
  <2>3. HoldsInv'
    <3>1. /\ \A u \in boxes : u >= h
          /\ \A t \in Tasks : holds[t] = 0 \/ holds[t] >= h
      BY Zenon, <2>1, ReleasedUnused DEF IndInv
    <3>2. h \in Versions
      BY <2>1, TasksAssumption DEF Versions
    <3> HIDE DEF h
    <3> QED
      BY Zenon, <2>1, <3>1, <3>2 DEF IndInv, HoldsInv, owner
  <2>4. PcInv'
    BY <1>0, <2>1, TasksAssumption DEF IndInv, PcInv, PcType
  <2> QED
    BY Zenon, <2>2, <2>3, <2>4 DEF IndInv
<1>4. CASE CleanupStops
  BY Zenon, <1>0, <1>4, MoveStep DEF CleanupStops, Stop
<1>5. CASE Reclaimed
  <2>1. holds["reclaim"] # 0
    BY Zenon, <1>0, <1>5 DEF Reclaimed, IndInv, PcInv
  <2> QED
    BY Zenon, <1>0, <1>5, <2>1, MoveStep DEF Reclaimed
<1>6. CASE ReclaimNext
  <2>1. holds["reclaim"] # 0
    BY Zenon, <1>0, <1>6 DEF ReclaimNext, IndInv, PcInv
  <2> QED
    BY Zenon, <1>0, <1>6, <2>1, MoveStep DEF ReclaimNext
<1>7. CASE ReclaimRefresh
  <2>1. holds["reclaim"] # 0 /\ pc["reclaim"] = "refresh"
    BY Zenon, <1>0, <1>7 DEF ReclaimRefresh, IndInv, PcInv
  <2>2. pc = [pc EXCEPT !["reclaim"] = "refresh"]
    BY Zenon, <2>1 DEF IndInv, PcInv, PcType
  <2> QED
    BY Zenon, <1>0, <1>7, <2>1, <2>2, MoveStep DEF ReclaimRefresh
<1> QED
  BY Zenon, <1>1, <1>2, <1>3, <1>4, <1>5, <1>6, <1>7 DEF Cleanup, Reclaim

\* The steps of wait_for_reclaiming.
LEMMA WaiterStep ==
    ASSUME IndInv, NEW w \in Waiters, Waiting(w)
    PROVE  IndInv'
<1>0. w \in Sleepers /\ w \in Tasks /\ pc \in [Sleepers -> {"next", "released", "reclaim", "refresh", "idle", "check", "wait", "done"}]
  BY Zenon DEF Sleepers, Tasks, IndInv, PcInv, PcType
<1>1. CASE WaitBegin(w)
  BY Zenon, <1>0, <1>1, MoveStep DEF WaitBegin
<1>2. CASE WaitCheck(w)
  <2>1. holds[w] # 0
    BY Zenon, <1>0, <1>2 DEF WaitCheck, IndInv, PcInv
  <2> QED
    BY Zenon, <1>0, <1>2, <2>1, MoveStep DEF WaitCheck, Stop
<1>3. CASE WaitSleep(w)
  <2>1. UNCHANGED <<owner, newLatch, loaded, holds, pc, cleaned>>
    BY Zenon, <1>3 DEF WaitSleep
  <2> QED
    BY Zenon, <2>1, UnchangedStep
<1>4. CASE WaitNext(w)
  <2>1. holds[w] # 0
    BY Zenon, <1>0, <1>4 DEF WaitNext, IndInv, PcInv
  <2> QED
    BY Zenon, <1>0, <1>4, <2>1, MoveStep DEF WaitNext, Stop
<1> QED
  BY Zenon, <1>1, <1>2, <1>3, <1>4 DEF Waiting

\* The first version is installed when the store is opened.
LEMMA InitIndInv == Init => IndInv
<1> SUFFICES ASSUME Init PROVE IndInv
  BY Zenon
<1>1. 1 \in Versions /\ 1 \in 0..MaxVersion /\ 0 \in 0..MaxVersion
  BY TasksAssumption DEF Versions
<1>2. Shut \in Latches /\ ~Shut.open
  BY Zenon DEF Shut, Latches
<1>3. OwnerInv
  BY <1>1, <1>2, TasksAssumption DEF Init, OwnerInv, OwnerType, Versions
<1>4. PcInv
  <2>1. Jobs \subseteq Tasks /\ Sleepers \subseteq Tasks /\ "cleanup" \in Sleepers /\ Jobs = {"cleanup", "reclaim"}
    BY Zenon DEF Jobs, Sleepers, Tasks
  <2>2. pc["cleanup"] = "next" /\ \A t \in Sleepers : pc[t] # "idle" => t \in Jobs
    BY Zenon, <2>1 DEF Init
  <2>3. PcType
    BY Zenon, <2>1 DEF Init, PcType
  <2> QED
    BY <2>1, <2>2, <2>3 DEF Init, PcInv
<1>5. HoldsInv
  BY <1>1, TasksAssumption DEF Init, HoldsInv
<1> QED
  BY Zenon, <1>3, <1>4, <1>5 DEF IndInv

\* Every step of every task preserves the invariant.
LEMMA NextIndInv == IndInv /\ [Next]_vars => IndInv'
<1> SUFFICES ASSUME IndInv, [Next]_vars PROVE IndInv'
  BY Zenon
<1>1. CASE Install \/ \E v \in Versions : FreeBox(v)
  BY Zenon, <1>1, InstallStep
<1>2. CASE Cleanup \/ Reclaim
  BY Zenon, <1>2, JobStep
<1>3. CASE Close \/ UNCHANGED vars
  <2>1. UNCHANGED <<owner, newLatch, loaded, holds, pc, cleaned>>
    BY Zenon, <1>3 DEF Close, vars, tasks
  <2> QED
    BY Zenon, <2>1, UnchangedStep
<1>4. CASE \E r \in Readers : Reading(r)
  BY Zenon, <1>4, ReaderStep
<1>5. CASE \E w \in Waiters : Waiting(w)
  BY Zenon, <1>5, WaiterStep
<1> QED
  BY Zenon, <1>1, <1>2, <1>3, <1>4, <1>5 DEF Next

-----------------------------------------------------------------------------

\* VersionOwner::current never clones from a box that the collector has freed,
\* whatever the number of readers and of installs that overtake them.
THEOREM BoxesPinnedHolds == Spec => []BoxesPinned
<1>1. IndInv => BoxesPinned
  BY Zenon DEF IndInv, OwnerInv, BoxesPinned
<1> QED
  BY <1>1, InitIndInv, NextIndInv, PTL DEF Spec

\* The expect of wait_next_version never fails: a latch is opened only after the
\* next version is linked.
THEOREM NextFoundHolds == Spec => []NextFound
<1>1. IndInv => NextFound
  BY Zenon DEF IndInv, OwnerInv, NextFound
<1> QED
  BY <1>1, InitIndInv, NextIndInv, PTL DEF Spec

\* The cleanup job removes the files of a version only when no guard, job, waiter or
\* box refers to an earlier version, and none can come to.
THEOREM CleanedUnusedHolds == Spec => []CleanedUnused
<1>1. IndInv => CleanedUnused
  BY Zenon DEF IndInv, OwnerInv, HoldsInv, CleanedUnused
<1> QED
  BY <1>1, InitIndInv, NextIndInv, PTL DEF Spec
=============================================================================
