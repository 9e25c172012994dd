-------------------------- MODULE WriteBufferProofs --------------------------
(***************************************************************************)
(* The records of a write buffer are disjoint, exactly one caller is told  *)
(* to flush it, and what was written is read back, for any number of tasks *)
(* and any sizes that the width of the state word admits.                  *)
(***************************************************************************)
EXTENDS WriteBufferSteps

-----------------------------------------------------------------------------
(* Writes into the memory *)

\* The words of a record
Occupied(n) == Word(Start(n)) .. (Word(End(n)) - 1)
BodyWords(n) == Word(Start(n) + HEADER) .. Word(Start(n) + HEADER + recs[n].size - 1)

\* The words of a record are in the memory, and no other record has them.
LEMMA OccupiedFacts ==
    ASSUME TypeInv, Tiling, NEW n \in DOMAIN recs
    PROVE  /\ Word(Start(n)) \in Occupied(n)
           /\ BodyWords(n) \subseteq Occupied(n) \ {Word(Start(n))}
           /\ Occupied(n) \subseteq DOMAIN mem
           /\ \A m \in DOMAIN recs : m # n => Occupied(m) \cap Occupied(n) = {}
<1>1. /\ Word(Start(n)) \in Occupied(n) /\ Occupied(n) \subseteq DOMAIN mem
      /\ BodyWords(n) \subseteq Occupied(n) \ {Word(Start(n))}
  <2> DEFINE o == Word(Start(n))
             e == Word(End(n))
             b == Word(BufSize)
             l == Word(Start(n) + HEADER + recs[n].size - 1)
  <2>1. /\ o \in Nat /\ e \in Nat /\ b \in Nat /\ l \in Nat /\ l < e /\ o + 2 < e + 1 /\ e <= b
        /\ Occupied(n) = o .. (e - 1) /\ BodyWords(n) = (o + 2) .. l /\ DOMAIN mem = 0 .. (b - 1)
    BY Zenon, WordFacts DEF Occupied, BodyWords, TypeInv
  <2> HIDE DEF o, e, b, l
  <2>2. o \in o .. (e - 1) /\ o .. (e - 1) \subseteq 0 .. (b - 1) /\ (o + 2) .. l \subseteq (o .. (e - 1)) \ {o}
    BY <2>1
  <2> QED BY Zenon, <2>1, <2>2 DEF o
<1>2. ASSUME NEW m \in DOMAIN recs, m # n PROVE Occupied(m) \cap Occupied(n) = {}
  <2>1. m < n \/ n < m
    BY <1>2, RecFacts
  <2>2. /\ Word(Start(n)) \in Nat /\ Word(End(n)) \in Nat
        /\ Word(Start(m)) \in Nat /\ Word(End(m)) \in Nat
    BY Zenon, WordFacts
  <2>3. m < n => Word(End(m)) <= Word(Start(n))
    BY Zenon, WordFacts
  <2>4. n < m => Word(End(n)) <= Word(Start(m))
    BY Zenon, WordFacts
  <2> QED BY <2>1, <2>2, <2>3, <2>4 DEF Occupied
<1> QED BY Zenon, <1>1, <1>2

\* A step of a task that holds the buffer and that changes its records and their words.
LEMMA RecordStep ==
    ASSUME Inv, NEW t \in Tasks, task[t].hold, UNCHANGED <<word, flushes, iter>>,
           task' \in [Tasks -> TaskType], \A u \in Tasks \ {t} : task'[u] = task[u],
           task'[t].hold = TRUE, task'[t].mine \subseteq task[t].mine, TaskInv(t)',
           recs' \in Seq(RecType), Len(recs') = Len(recs),
           \A n \in DOMAIN recs : recs'[n].offset = recs[n].offset /\ recs'[n].size = recs[n].size,
           \A n \in DOMAIN recs \ task[t].mine : recs'[n] = recs[n],
           mem' \in [0..(Word(BufSize) - 1) -> HeaderType], MemInv',
           \A n \in task'[t].mine : recs'[n].state \notin {"dead", "new"},
           \A n \in task[t].mine : recs'[n].state # "new"
    PROVE  Inv'
<1>1. TypeInv'
  BY Zenon DEF Inv, TypeInv
<1>2. st' = st /\ DOMAIN recs' = DOMAIN recs /\ Len(recs) \in Nat
  BY DEF st, Inv, TypeInv
<1>3. \A n \in DOMAIN recs : Start(n)' = Start(n) /\ End(n)' = End(n)
  BY Zenon DEF Start, End
<1>4. WritersCounted' /\ FlushToldOnce'
  <2>1. {u \in Tasks : task'[u].hold} = {u \in Tasks : task[u].hold}
    BY Zenon
  <2> QED BY <1>2, <2>1, ZenonT(60) DEF Inv, WritersCounted, FlushToldOnce, st
<1>5. Tiling'
  <2>1. recs' = <<>> <=> recs = <<>>
    BY DEF Inv, TypeInv
  <2>2. recs # <<>> => End(Len(recs))' = End(Len(recs))
    <3>1. PICK k \in Nat : k = Len(recs)
      BY <1>2, ZenonT(60)
    <3>2. recs # <<>> => k \in DOMAIN recs
      BY <3>1 DEF Inv, TypeInv
    <3>3. recs # <<>> => End(k)' = End(k)
      BY Zenon, <3>2, <1>3
    <3> QED BY Zenon, <3>1, <3>3
  <2>3. \A n \in DOMAIN recs : n # 1 => n - 1 \in DOMAIN recs
    BY DEF Inv, TypeInv
  <2> QED BY <1>2, <1>3, <2>1, <2>2, <2>3 DEF Inv, Tiling
<1>6. ASSUME NEW u \in Tasks PROVE TaskInv(u)'
  <2>1. CASE u # t
    <3>1. task'[u] = task[u] /\ TaskInv(u) /\ task[u].mine \cap task[t].mine = {}
      BY Zenon, <2>1 DEF Inv, OwnerInv
    <3>2. \A n \in task[u].mine : recs'[n] = recs[n]
      BY <3>1, ZenonT(60) DEF TaskInv
    <3> QED BY <1>2, <3>1, <3>2, SMTT(60) DEF TaskInv
  <2> QED BY Zenon, <2>1
<1>7. OwnerInv'
  <2>1. \A u \in Tasks : task'[u].mine \subseteq task[u].mine /\ task[u].mine \subseteq DOMAIN recs
    BY ZenonT(60) DEF Inv, TaskInv
  <2>2. \A u, v \in Tasks : u # v => task'[u].mine \cap task'[v].mine = {}
    BY <2>1 DEF Inv, OwnerInv
  <2>3. ASSUME NEW u \in Tasks, NEW n \in task'[u].mine
        PROVE  /\ recs'[n].state # "dead"
               /\ recs'[n].state = "new" =>
                     /\ task'[u].pc = "init"
                     /\ \A m \in task'[u].mine : recs'[m].state = "new" => m = n
    <3>1. CASE u # t
      <4>1. task'[u] = task[u] /\ \A m \in task[u].mine : recs'[m] = recs[m]
        BY Zenon, <2>1, <3>1 DEF Inv, OwnerInv
      <4> QED BY <2>3, <4>1, SMTT(60) DEF Inv, OwnerInv
    <3>2. CASE u = t
      BY Zenon, <2>3, <3>2
    <3> QED BY Zenon, <3>1, <3>2
  <2>4. ASSUME NEW n \in DOMAIN recs', recs'[n].state = "new"
        PROVE  recs'[n].id = NAN_ID /\ \E u \in Tasks : n \in task'[u].mine
    <3>1. n \notin task[t].mine /\ recs'[n] = recs[n] /\ n \in DOMAIN recs
      BY <1>2, <2>4, SMTT(60)
    <3>2. recs[n].id = NAN_ID /\ \E u \in Tasks : n \in task[u].mine
      BY <2>4, <3>1, ZenonT(60) DEF Inv, OwnerInv
    <3> QED BY Zenon, <3>1, <3>2
  <2> QED BY Zenon, <2>2, <2>3, <2>4 DEF OwnerInv
<1>8. IterInv'
  <2>1. flushes = 0
    BY Zenon, Quiet DEF Inv
  <2>2. iter.offset = 0 /\ iter.items = <<>> /\ ~iter.end
    BY Zenon, <2>1 DEF Inv, IterInv
  <2>3. \A n \in DOMAIN recs' : ~(Start(n)' < 0)
    BY <1>2, <1>3, RecFacts, SMTT(60) DEF Inv
  <2> QED BY <2>2, <2>3 DEF IterInv
<1> QED BY Zenon, <1>1, <1>4, <1>5, <1>6, <1>7, <1>8 DEF Inv

\* new_page_at and new_dealloc_pages_record_at write a record, and no word of another.
LEMMA InitRecordInv ==
    ASSUME Inv, NEW t \in Tasks, InitRecord(t)
    PROVE  Inv'
<1>1. PICK n \in task[t].mine :
         /\ recs[n].state = "new"
         /\ mem' = Written(mem, recs[n].offset, recs[n].kind, NAN_ID, recs[n].size, n)
         /\ recs' = [recs EXCEPT ![n].state = "live"]
  BY Zenon DEF InitRecord, Inv, TaskInv
<1>2. /\ n \in DOMAIN recs /\ task[t].hold /\ task[t].mine \subseteq DOMAIN recs
      /\ recs[n].id = NAN_ID /\ task[t].pc = "init"
  <2>1. n \in DOMAIN recs /\ task[t].hold /\ task[t].mine \subseteq DOMAIN recs /\ task[t].pc = "init"
    BY Zenon DEF InitRecord, Inv, TaskInv
  <2> QED BY <1>1, <2>1, SMTT(60) DEF Inv, OwnerInv
<1>3. /\ task' \in [Tasks -> TaskType] /\ \A u \in Tasks \ {t} : task'[u] = task[u]
      /\ task'[t].hold = TRUE /\ task'[t].mine = task[t].mine /\ task'[t].pc = "txn"
  <2>1. task[t] \in TaskType
    BY Zenon DEF Inv, TypeInv
  <2> DEFINE y == [task[t] EXCEPT !.pc = "txn", !.size = 0]
  <2>2. y \in TaskType /\ y.hold = task[t].hold /\ y.mine = task[t].mine /\ y.pc = "txn"
    BY <2>1, Zenon DEF TaskType
  <2>3. task' = [task EXCEPT ![t] = y]
    BY Zenon DEF InitRecord
  <2> HIDE DEF y
  <2> QED BY <1>2, <2>2, <2>3, Zenon DEF Inv, TypeInv
<1>4. /\ recs' \in Seq(RecType) /\ Len(recs') = Len(recs) /\ DOMAIN recs' = DOMAIN recs
      /\ recs'[n] = [recs[n] EXCEPT !.state = "live"]
      /\ \A m \in DOMAIN recs \ {n} : recs'[m] = recs[m]
  <2>1. [recs[n] EXCEPT !.state = "live"] \in RecType
    BY <1>2, RecFacts, ZenonT(60) DEF Inv, RecType
  <2> QED BY <1>1, <1>2, <2>1 DEF Inv, TypeInv
<1>5. /\ recs'[n].offset = recs[n].offset /\ recs'[n].size = recs[n].size
      /\ recs'[n].kind = recs[n].kind /\ recs'[n].id = NAN_ID /\ recs'[n].state = "live"
  BY <1>2, <1>4, RecFacts DEF Inv, RecType
<1>6. /\ \A w \in DOMAIN mem \ Occupied(n) : mem'[w] = mem[w]
      /\ mem'[Word(Start(n))] = [flags |-> recs[n].kind, data |-> NAN_ID, size |-> recs[n].size]
      /\ \A w \in BodyWords(n) : mem'[w] = Body(n)
      /\ mem' \in [0..(Word(BufSize) - 1) -> HeaderType]
  <2>1. /\ Word(Start(n)) \in Nat /\ Word(End(n)) \in Nat /\ Word(Start(n)) \in DOMAIN mem
        /\ Word(Start(n) + HEADER - 1) = Word(Start(n)) + 1
        /\ Word(Start(n) + HEADER) = Word(Start(n)) + 2
        /\ Word(Start(n) + HEADER + recs[n].size - 1) \in Nat
        /\ Word(Start(n) + HEADER + recs[n].size - 1) < Word(End(n))
        /\ BodyWords(n) \subseteq DOMAIN mem
    BY <1>2, WordFacts, OccupiedFacts, Zenon DEF Inv
  <2>2. DOMAIN mem = 0..(Word(BufSize) - 1) /\ \A w \in DOMAIN mem : mem[w] \in HeaderType /\ w \in Int
    BY DEF Inv, TypeInv
  <2>3. \A w \in DOMAIN mem \ Occupied(n) : mem'[w] = mem[w]
    <3> DEFINE o == Word(Start(n))
               e == Word(End(n))
               l == Word(Start(n) + HEADER + recs[n].size - 1)
    <3>1. \A w \in DOMAIN mem :
             ~(w = o) /\ ~(w > o + 1 /\ w <= l) => mem'[w] = mem[w]
      BY Zenon, <1>1, <2>1, <2>2 DEF Written, Start
    <3>2. o \in Nat /\ e \in Nat /\ l \in Nat /\ l < e /\ Occupied(n) = o .. (e - 1)
      BY Zenon, <2>1 DEF Occupied
    <3> HIDE DEF o, e, l
    <3>3. o < e
      BY <1>2, <3>2, OccupiedFacts DEF Inv, o
    <3>4. ASSUME NEW w \in DOMAIN mem \ Occupied(n) PROVE ~(w = o) /\ ~(w > o + 1 /\ w <= l)
      BY <2>2, <3>2, <3>3
    <3> QED BY Zenon, <3>1, <3>4
  <2>4. mem'[Word(Start(n))] = [flags |-> recs[n].kind, data |-> NAN_ID, size |-> recs[n].size]
    BY Zenon, <1>1, <2>1 DEF Written, Start
  <2>5. \A w \in BodyWords(n) : mem'[w] = Body(n)
    BY <1>1, <2>1 DEF Written, Start, Body, BodyWords
  <2>6. mem' \in [0..(Word(BufSize) - 1) -> HeaderType]
    <3>1. /\ [flags |-> recs[n].kind, data |-> NAN_ID, size |-> recs[n].size] \in HeaderType
          /\ [flags |-> "body", data |-> n, size |-> 0] \in HeaderType
      BY Zenon, <1>2, RecFacts, Constants DEF Inv, RecType, HeaderType, Flags, NAN_ID
    <3> QED BY Zenon, <1>1, <2>2, <3>1 DEF Written
  <2> QED BY Zenon, <2>3, <2>4, <2>5, <2>6
<1>7. MemInv'
  <2> SUFFICES ASSUME NEW m \in DOMAIN recs
               PROVE  /\ recs'[m].state = "live" =>
                            /\ mem'[Word(Start(m)')] = Header(recs'[m])
                            /\ \A w \in BodyWords(m)' : mem'[w] = Body(m)
                      /\ recs'[m].state = "dead" =>
                            /\ mem'[Word(Start(m)')].flags = "tombstone"
                            /\ mem'[Word(Start(m)')].size = recs'[m].size
    BY Zenon, <1>4 DEF MemInv, BodyWords, Start
  <2>1. Start(m)' = Start(m) /\ BodyWords(m)' = BodyWords(m)
    BY <1>4, <1>5, ZenonT(60) DEF Start, BodyWords
  <2>2. CASE m = n
    BY Zenon, <1>5, <1>6, <2>1, <2>2 DEF Header
  <2>3. CASE m # n
    <3>1. Word(Start(m)) \in DOMAIN mem \ Occupied(n) /\ BodyWords(m) \subseteq DOMAIN mem \ Occupied(n)
      BY Zenon, <1>2, <2>3, OccupiedFacts DEF Inv
    <3>2. recs'[m] = recs[m] /\ mem'[Word(Start(m))] = mem[Word(Start(m))]
      BY Zenon, <1>4, <1>6, <2>3, <3>1
    <3>3. \A w \in BodyWords(m) : mem'[w] = mem[w]
      BY Zenon, <1>6, <3>1
    <3> QED BY <2>1, <3>2, <3>3, ZenonT(60) DEF Inv, MemInv, BodyWords
  <2> QED BY Zenon, <2>2, <2>3
<1>8. \A m \in task[t].mine : recs'[m].state \notin {"dead", "new"}
  <2>1. \A m \in task[t].mine : recs[m].state # "dead" /\ (recs[m].state = "new" => m = n)
    BY Zenon, <1>1 DEF Inv, OwnerInv
  <2> QED BY <1>2, <1>4, <1>5, <2>1, ZenonT(60)
<1>9. TaskInv(t)'
  BY Zenon, <1>2, <1>3, <1>4 DEF TaskInv
<1>10. \A m \in DOMAIN recs : recs'[m].offset = recs[m].offset /\ recs'[m].size = recs[m].size
  BY <1>4, <1>5, Zenon
<1>11. UNCHANGED <<word, flushes, iter>>
  BY Zenon DEF InitRecord
<1> QED BY <1>2, <1>3, <1>4, <1>6, <1>7, <1>8, <1>9, <1>10, <1>11, RecordStep, Zenon

\* insert_page and update_page change the header of a page only.
LEMMA SetPageIdInv ==
    ASSUME Inv, NEW t \in Tasks, NEW n \in 1..MaxRecords, SetPageId(t, n)
    PROVE  Inv'
<1>1. /\ n \in task[t].mine /\ n \in DOMAIN recs /\ task[t].hold /\ task[t].pc = "txn"
      /\ task[t].mine \subseteq DOMAIN recs
  BY Zenon DEF SetPageId, Inv, TaskInv
<1>2. \A m \in task[t].mine : recs[m].state = "live"
  <2>1. \A m \in task[t].mine : recs[m].state # "dead" /\ recs[m].state # "new"
    BY <1>1 DEF Inv, OwnerInv
  <2>2. \A m \in task[t].mine : recs[m].state \in {"new", "live", "dead"}
    BY Zenon, <1>1, RecFacts DEF Inv, RecType
  <2> QED BY Zenon, <2>1, <2>2
<1>3. /\ recs' \in Seq(RecType) /\ Len(recs') = Len(recs) /\ DOMAIN recs' = DOMAIN recs
      /\ recs'[n] = [recs[n] EXCEPT !.id = n]
      /\ \A m \in DOMAIN recs \ {n} : recs'[m] = recs[m]
  <2>1. recs[n] \in RecType /\ n \in Nat
    BY Zenon, <1>1, RecFacts DEF Inv
  <2>2. [recs[n] EXCEPT !.id = n] \in RecType
    BY Zenon, <2>1 DEF RecType
  <2> QED BY <1>1, <2>2 DEF Inv, TypeInv, SetPageId
<1>4. /\ recs'[n].offset = recs[n].offset /\ recs'[n].size = recs[n].size
      /\ recs'[n].kind = recs[n].kind /\ recs'[n].id = n /\ recs'[n].state = recs[n].state
  BY <1>1, <1>3, RecFacts DEF Inv, RecType
<1>5. mem' = [mem EXCEPT ![Word(Start(n))].data = n] /\ Word(Start(n)) \in DOMAIN mem
  BY <1>1, OccupiedFacts DEF SetPageId, Start, Inv
<1>6. mem' \in [0..(Word(BufSize) - 1) -> HeaderType]
  <2>1. mem[Word(Start(n))] \in HeaderType /\ n \in Nat
    BY Zenon, <1>1, <1>5, RecFacts DEF Inv, TypeInv
  <2>2. [mem[Word(Start(n))] EXCEPT !.data = n] \in HeaderType
    BY <2>1 DEF HeaderType
  <2> QED BY Zenon, <1>5, <2>2 DEF Inv, TypeInv
<1>7. MemInv'
  <2> SUFFICES ASSUME NEW m \in DOMAIN recs
               PROVE  /\ recs'[m].state = "live" =>
                            /\ mem'[Word(Start(m)')] = Header(recs'[m])
                            /\ \A w \in BodyWords(m)' : mem'[w] = Body(m)
                      /\ recs'[m].state = "dead" =>
                            /\ mem'[Word(Start(m)')].flags = "tombstone"
                            /\ mem'[Word(Start(m)')].size = recs'[m].size
    BY Zenon, <1>3 DEF MemInv, BodyWords, Start
  <2>1. Start(m)' = Start(m) /\ BodyWords(m)' = BodyWords(m)
    BY <1>3, <1>4, ZenonT(60) DEF Start, BodyWords
  <2>2. \A w \in BodyWords(m) : mem'[w] = mem[w]
    <3>1. Word(Start(n)) \notin BodyWords(m)
      BY Zenon, <1>1, OccupiedFacts DEF Inv
    <3>2. BodyWords(m) \subseteq DOMAIN mem
      BY OccupiedFacts DEF Inv
    <3> QED BY Zenon, <1>5, <3>1, <3>2
  <2>3. CASE m = n
    <3>1. mem[Word(Start(n))] = Header(recs[n]) /\ \A w \in BodyWords(n) : mem[w] = Body(n)
      BY Zenon, <1>1, <1>2 DEF Inv, MemInv, BodyWords
    <3>2. mem'[Word(Start(n))] = Header(recs'[n])
      BY <1>4, <1>5, <3>1, SMTT(60) DEF Header
    <3> QED BY <1>1, <1>2, <1>4, <2>1, <2>2, <2>3, <3>1, <3>2
  <2>4. CASE m # n
    <3>1. Word(Start(m)) # Word(Start(n)) /\ Word(Start(m)) \in DOMAIN mem
      BY <1>1, <2>4, OccupiedFacts DEF Inv
    <3>2. recs'[m] = recs[m] /\ mem'[Word(Start(m))] = mem[Word(Start(m))]
      BY <1>3, <1>5, <2>4, <3>1
    <3> QED BY <2>1, <2>2, <3>2, SMTT(60) DEF Inv, MemInv, BodyWords
  <2> QED BY Zenon, <2>3, <2>4
<1>8. \A m \in task[t].mine : recs'[m].state \notin {"dead", "new"}
  BY <1>1, <1>2, <1>3, <1>4, ZenonT(60)
<1>9. /\ TaskInv(t)' /\ task' = task /\ task \in [Tasks -> TaskType]
      /\ UNCHANGED <<word, flushes, iter>> /\ task[t].hold = TRUE
  BY Zenon, <1>1, <1>3 DEF SetPageId, TaskInv, Inv, TypeInv, TaskType
<1>10. \A m \in DOMAIN recs : recs'[m].offset = recs[m].offset /\ recs'[m].size = recs[m].size
  BY <1>3, <1>4, Zenon
<1> QED BY <1>1, <1>3, <1>6, <1>7, <1>8, <1>9, <1>10, RecordStep, ZenonT(60)

\* PageTxn::drop makes tombstones, which keep their size, of the records of one transaction.
LEMMA AbortInv ==
    ASSUME Inv, NEW t \in Tasks, Abort(t)
    PROVE  Inv'
<1> DEFINE mine == task[t].mine
           heads == {Word(recs[n].offset) : n \in mine}
<1>1. task[t].hold /\ mine \subseteq DOMAIN recs /\ task[t].pc \in {"txn", "drop"}
  BY Zenon DEF Abort, Inv, TaskInv
<1>2. \A m \in mine : recs[m].state = "live"
  <2>1. \A m \in mine : recs[m].state # "dead" /\ recs[m].state # "new"
    BY Zenon, <1>1 DEF Inv, OwnerInv
  <2>2. \A m \in mine : recs[m].state \in {"new", "live", "dead"}
    BY Zenon, <1>1, RecFacts DEF Inv, RecType
  <2> QED BY Zenon, <2>1, <2>2
<1>3. /\ task' \in [Tasks -> TaskType] /\ \A u \in Tasks \ {t} : task'[u] = task[u]
      /\ task'[t].hold = TRUE /\ task'[t].mine = {} /\ task'[t].pc = "release"
  <2>1. task[t] \in TaskType /\ word \in Nat
    BY Zenon DEF Inv, TypeInv
  <2> DEFINE y == [task[t] EXCEPT !.pc = "release", !.cur = word, !.mine = {}]
  <2>2. y \in TaskType /\ y.hold = task[t].hold /\ y.mine = {} /\ y.pc = "release"
    BY <2>1, Zenon DEF TaskType
  <2>3. task' = [task EXCEPT ![t] = y]
    BY Zenon DEF Abort
  <2> HIDE DEF y
  <2> QED BY <1>1, <2>2, <2>3, Zenon DEF Inv, TypeInv
<1>4. /\ DOMAIN recs' = DOMAIN recs
      /\ \A n \in mine : recs'[n] = [recs[n] EXCEPT !.state = "dead"]
      /\ \A m \in DOMAIN recs \ mine : recs'[m] = recs[m]
  BY Zenon, <1>1 DEF Abort
<1>5. /\ \A n \in mine : /\ recs'[n] \in RecType /\ recs'[n].state = "dead"
                         /\ recs'[n].offset = recs[n].offset /\ recs'[n].size = recs[n].size
      /\ \A m \in DOMAIN recs : recs[m] \in RecType
  <2>1. \A m \in DOMAIN recs : recs[m] \in RecType
    BY Zenon, RecFacts DEF Inv
  <2>2. ASSUME NEW n \in mine
        PROVE  /\ recs'[n] \in RecType /\ recs'[n].state = "dead"
               /\ recs'[n].offset = recs[n].offset /\ recs'[n].size = recs[n].size
    <3>1. recs[n] \in RecType /\ recs'[n] = [recs[n] EXCEPT !.state = "dead"]
      BY Zenon, <1>1, <1>4, <2>1
    <3> QED BY Zenon, <3>1 DEF RecType
  <2> QED BY Zenon, <2>1, <2>2
<1>6. recs' \in Seq(RecType) /\ Len(recs') = Len(recs)
  <2>1. \A m \in DOMAIN recs : recs'[m] \in RecType
    BY Zenon, <1>4, <1>5
  <2>2. recs' = [m \in 1..Len(recs) |-> recs'[m]] /\ Len(recs) \in Nat /\ DOMAIN recs = 1..Len(recs)
    BY DEF Abort, Inv, TypeInv
  <2> QED BY <2>1, <2>2
<1>7. mem' = [w \in DOMAIN mem |-> IF w \in heads THEN [mem[w] EXCEPT !.flags = "tombstone"] ELSE mem[w]]
  <2>1. {n \in mine : Tombstoned(n)} = mine
    BY Zenon DEF Tombstoned
  <2> QED BY Zenon, <2>1 DEF Abort
<1>8. mem' \in [0..(Word(BufSize) - 1) -> HeaderType]
  <2>1. \A w \in DOMAIN mem : [mem[w] EXCEPT !.flags = "tombstone"] \in HeaderType
    BY SMTT(60) DEF Inv, TypeInv, HeaderType, Flags
  <2> HIDE DEF heads
  <2> QED BY Zenon, <1>7, <2>1 DEF Inv, TypeInv
<1>9. MemInv'
  <2> SUFFICES ASSUME NEW m \in DOMAIN recs
               PROVE  /\ recs'[m].state = "live" =>
                            /\ mem'[Word(Start(m)')] = Header(recs'[m])
                            /\ \A w \in BodyWords(m)' : mem'[w] = Body(m)
                      /\ recs'[m].state = "dead" =>
                            /\ mem'[Word(Start(m)')].flags = "tombstone"
                            /\ mem'[Word(Start(m)')].size = recs'[m].size
    BY Zenon, <1>4 DEF MemInv, BodyWords, Start
  <2>1. Start(m)' = Start(m) /\ BodyWords(m)' = BodyWords(m)
    BY Zenon, <1>4, <1>5 DEF Start, BodyWords
  <2>2. CASE m \in mine
    <3>1. mem[Word(Start(m))] = Header(recs[m]) /\ Word(Start(m)) \in DOMAIN mem
      BY Zenon, <1>2, <2>2, OccupiedFacts DEF Inv, MemInv
    <3>2. Word(Start(m)) \in heads
      BY Zenon, <2>2 DEF Start
    <3>3. mem'[Word(Start(m))] = [Header(recs[m]) EXCEPT !.flags = "tombstone"]
      BY Zenon, <1>7, <3>1, <3>2
    <3> QED BY Zenon, <1>5, <2>1, <2>2, <3>3 DEF Header
  <2>3. CASE m \notin mine
    <3>1. \A n \in mine : Word(Start(n)) # Word(Start(m)) /\ Word(Start(n)) \notin BodyWords(m)
      <4> SUFFICES ASSUME NEW n \in mine
                   PROVE  Word(Start(n)) # Word(Start(m)) /\ Word(Start(n)) \notin BodyWords(m)
        BY Zenon
      <4>1. n \in DOMAIN recs /\ n # m
        BY Zenon, <1>1, <2>3
      <4>2. Word(Start(n)) \in Occupied(n) /\ Occupied(n) \cap Occupied(m) = {}
        BY Zenon, <4>1, OccupiedFacts DEF Inv
      <4>3. Word(Start(m)) \in Occupied(m) /\ BodyWords(m) \subseteq Occupied(m)
        BY Zenon, OccupiedFacts DEF Inv
      <4> QED BY Zenon, <4>2, <4>3
    <3>2. Word(Start(m)) \notin heads /\ \A w \in BodyWords(m) : w \notin heads
      BY Zenon, <3>1 DEF Start
    <3>3. Word(Start(m)) \in DOMAIN mem /\ BodyWords(m) \subseteq DOMAIN mem
      BY Zenon, OccupiedFacts DEF Inv
    <3>4. /\ recs'[m] = recs[m] /\ mem'[Word(Start(m))] = mem[Word(Start(m))]
          /\ \A w \in BodyWords(m) : mem'[w] = mem[w]
      BY Zenon, <1>4, <1>7, <2>3, <3>2, <3>3
    <3> QED BY <2>1, <3>4 DEF Inv, MemInv, BodyWords
  <2> QED BY Zenon, <2>2, <2>3
<1>10. TaskInv(t)'
  BY Zenon, <1>3 DEF TaskInv
<1>11. \A m \in DOMAIN recs : recs'[m].offset = recs[m].offset /\ recs'[m].size = recs[m].size
  BY Zenon, <1>4, <1>5
<1>12. UNCHANGED <<word, flushes, iter>>
  BY Zenon DEF Abort
<1>13. \A n \in task[t].mine : recs'[n].state # "new"
  BY Zenon, <1>5
<1> QED BY <1>1, <1>3, <1>4, <1>6, <1>8, <1>9, <1>10, <1>11, <1>12, <1>13, RecordStep, Zenon

-----------------------------------------------------------------------------
(* The iterator *)

\* Addresses grow with the offset.
LEMMA PageAddrs ==
    ASSUME NEW a \in Nat
    PROVE  PageAddr(a) \in Nat /\ \A b \in Nat : a < b => PageAddr(a) < PageAddr(b)
  BY Constants DEF PageAddr, GroupId

\* RecordIterator::next goes from record to record; nothing changes any more.
LEMMA IterNextInv ==
    ASSUME Inv, IterNext
    PROVE  Inv'
<1> DEFINE header == mem[Word(iter.offset)]
<1>1. flushes # 0 /\ ~iter.end /\ UNCHANGED <<word, mem, recs, task, flushes>> /\ st' = st
  BY DEF IterNext, st, Inv, TypeInv
<1>2. \A n \in DOMAIN recs : recs[n].state \in {"live", "dead"}
  <2>1. \A t \in Tasks : ~task[t].hold
    BY <1>1, Quiet DEF Inv
  <2>2. \A t \in Tasks : task[t].mine = {}
    BY Zenon, <2>1 DEF Inv, TaskInv
  <2>3. \A n \in DOMAIN recs : recs[n].state # "new"
    BY Zenon, <2>2 DEF Inv, OwnerInv
  <2> QED BY Zenon, <2>3, RecFacts DEF Inv, RecType
<1>3. iter' \in IterType /\ IterInv'
  <2>0. /\ iter \in IterType /\ iter.offset \in Nat /\ st.allocated \in Nat
        /\ iter.items \in Seq([addr : Nat, header : HeaderType]) /\ Len(iter.items) \in Nat
    BY StateFacts DEF Inv, TypeInv, IterType
  <2>1. CASE iter.offset >= st.allocated
    <3>1. iter' = [iter EXCEPT !.end = TRUE]
      BY Zenon, <2>1 DEF IterNext, st
    <3>2. /\ iter' \in IterType /\ iter'.offset = iter.offset /\ iter'.items = iter.items
      BY <2>0, <3>1, ZenonT(60) DEF IterType
    <3>3. iter.offset = st.allocated
      <4>1. \A n \in DOMAIN recs : Start(n) < st.allocated
        BY Zenon, RecBounds DEF Inv
      <4> QED BY <2>0, <2>1, <4>1 DEF Inv, IterInv
    <3> QED BY <1>1, <3>2, <3>3 DEF Inv, IterInv, Start
  <2>2. CASE iter.offset < st.allocated
    <3>1. PICK n \in DOMAIN recs : iter.offset = Start(n)
      <4>1. recs # <<>>
        BY <2>0, <2>2 DEF Inv, Tiling
      <4>2. 1 \in DOMAIN recs
        BY <4>1 DEF Inv, TypeInv
      <4>3. Start(1) = 0
        BY Zenon, <4>2 DEF Inv, Tiling
      <4> QED BY <2>0, <2>2, <4>2, <4>3 DEF Inv, IterInv
    <3>2. /\ header.size = recs[n].size
          /\ recs[n].state = "live" => header = Header(recs[n])
          /\ HasRef(header) <=> recs[n].state = "live"
      <4>1. recs[n].kind \in {"page", "dealloc"} /\ recs[n].state \in {"live", "dead"}
        BY <1>2, RecFacts DEF Inv, RecType
      <4>2. CASE recs[n].state = "live"
        <5>1. header = Header(recs[n])
          BY Zenon, <3>1, <4>2 DEF Inv, MemInv
        <5> QED BY <4>1, <4>2, <5>1 DEF Header, HasRef
      <4>3. CASE recs[n].state = "dead"
        <5>1. header.flags = "tombstone" /\ header.size = recs[n].size
          BY Zenon, <3>1, <4>3 DEF Inv, MemInv
        <5> QED BY <4>3, <5>1 DEF HasRef
      <4> QED BY Zenon, <4>1, <4>2, <4>3
    <3> DEFINE items == IF recs[n].state = "live" THEN Append(iter.items, Item(recs[n])) ELSE iter.items
    <3>3. iter' = [iter EXCEPT !.offset = End(n), !.items = items]
      <4>1. iter' = [iter EXCEPT !.offset = @ + RecordSize(header.size),
                                 !.items = IF HasRef(header)
                                           THEN Append(@, [addr |-> PageAddr(iter.offset),
                                                           header |-> header])
                                           ELSE @]
        BY <2>0, <2>2 DEF IterNext, st
      <4>2. iter.offset + RecordSize(header.size) = End(n)
        BY Zenon, <3>1, <3>2 DEF Start, End
      <4>3. recs[n].state = "live" => [addr |-> PageAddr(iter.offset), header |-> header] = Item(recs[n])
        BY Zenon, <3>1, <3>2 DEF Item, Header, Start
      <4> HIDE DEF header
      <4> QED BY <3>2, <4>1, <4>2, <4>3, ZenonT(60)
    <3>4. Item(recs[n]) \in [addr : Nat, header : HeaderType]
      <4>1. PageAddr(recs[n].offset) \in Nat
        BY RecFacts, PageAddrs, Zenon DEF Inv, Start
      <4>2. [flags |-> recs[n].kind, data |-> recs[n].id, size |-> recs[n].size] \in HeaderType
        BY Zenon, RecFacts DEF Inv, RecType, HeaderType, Flags
      <4> QED BY <4>1, <4>2 DEF Item
    <3>5. items \in Seq([addr : Nat, header : HeaderType]) /\ End(n) \in Nat
      BY <2>0, <3>4, AppendFacts, RecFacts, Zenon DEF Inv
    <3>6. iter' \in IterType /\ iter'.offset = End(n) /\ iter'.items = items /\ iter'.end = FALSE
      <4> HIDE DEF items
      <4> QED BY <1>1, <2>0, <3>3, <3>5, Zenon DEF IterType
    <3>7. End(n) = st.allocated \/ \E m \in DOMAIN recs : End(n) = Start(m)
      <4>1. n \in 1..Len(recs) /\ Len(recs) \in Nat /\ DOMAIN recs = 1..Len(recs) /\ recs # <<>>
        BY DEF Inv, TypeInv
      <4>2. CASE n = Len(recs)
        BY Zenon, <4>1, <4>2 DEF Inv, Tiling
      <4>3. CASE n # Len(recs)
        <5>1. n + 1 \in DOMAIN recs /\ n + 1 # 1 /\ (n + 1) - 1 = n
          BY <4>1, <4>3
        <5>2. Start(n + 1) = End(n)
          BY Zenon, <5>1 DEF Inv, Tiling
        <5> QED BY Zenon, <5>1, <5>2
      <4> QED BY <4>2, <4>3
    <3>8. /\ \A m \in DOMAIN recs : Start(m) < End(n) <=> (Start(m) < Start(n) \/ m = n)
          /\ Start(n) < End(n)
      <4> SUFFICES ASSUME NEW m \in DOMAIN recs
                   PROVE  Start(n) < End(n) /\ (Start(m) < End(n) <=> (Start(m) < Start(n) \/ m = n))
        BY Zenon 
      <4>1. /\ Start(n) \in Nat /\ End(n) \in Nat /\ Start(m) \in Nat /\ End(m) \in Nat
            /\ Start(n) < End(n) /\ Start(m) < End(m) /\ m \in Nat /\ n \in Nat
        BY RecFacts, RecBounds DEF Inv
      <4>2. (m < n => End(m) <= Start(n)) /\ (n < m => End(n) <= Start(m))
        BY Zenon DEF Inv, Tiling
      <4> QED BY <4>1, <4>2
    <3>9. ASSUME NEW m \in DOMAIN recs, recs[m].state = "live", Start(m) < End(n)
          PROVE  \E i \in DOMAIN items : items[i] = Item(recs[m])
      <4>1. CASE m = n
        BY <2>0, <3>4, <3>9, <4>1, AppendFacts
      <4>2. CASE Start(m) < Start(n)
        <5>1. PICK i \in DOMAIN iter.items : iter.items[i] = Item(recs[m])
          BY Zenon, <3>1, <3>9, <4>2 DEF Inv, IterInv
        <5>2. i \in DOMAIN items /\ items[i] = iter.items[i]
          BY <2>0, <3>4, <5>1, AppendFacts, SMTT(60)
        <5> QED BY Zenon, <5>1, <5>2
      <4> QED BY Zenon, <3>8, <3>9, <4>1, <4>2
    <3>10. ASSUME NEW i \in DOMAIN items
           PROVE  \E m \in DOMAIN recs : /\ recs[m].state = "live" /\ Start(m) < End(n)
                                         /\ items[i] = Item(recs[m])
                                         /\ i \in DOMAIN iter.items => Start(m) < Start(n)
                                         /\ i \notin DOMAIN iter.items => m = n /\ i = Len(iter.items) + 1
      <4>1. CASE i \in DOMAIN iter.items
        <5>1. items[i] = iter.items[i]
          BY <2>0, <3>4, <4>1, AppendFacts
        <5>2. PICK m \in DOMAIN recs : /\ recs[m].state = "live" /\ Start(m) < iter.offset
                                       /\ iter.items[i] = Item(recs[m])
          BY Zenon, <4>1 DEF Inv, IterInv
        <5> QED BY Zenon, <3>1, <3>8, <4>1, <5>1, <5>2
      <4>2. CASE i \notin DOMAIN iter.items
        <5>1. recs[n].state = "live" /\ i = Len(iter.items) + 1 /\ items[i] = Item(recs[n])
          BY <2>0, <3>4, <3>10, <4>2, AppendFacts
        <5> QED BY Zenon, <3>8, <4>2, <5>1
      <4> QED BY Zenon, <4>1, <4>2
    <3> HIDE DEF items
    <3>11. ASSUME NEW i \in DOMAIN items, NEW j \in DOMAIN items, i < j
           PROVE  items[i].addr < items[j].addr
      <4>1. i \in DOMAIN iter.items
        <5>1. i \in Nat /\ j \in Nat /\ DOMAIN items \subseteq 1..(Len(iter.items) + 1)
          BY <2>0, <3>4, AppendFacts, SMTT(60) DEF items
        <5> QED BY <2>0, <3>11, <5>1
      <4>2. CASE j \in DOMAIN iter.items
        <5>1. items[i] = iter.items[i] /\ items[j] = iter.items[j]
          BY <2>0, <3>4, <4>1, <4>2, AppendFacts DEF items
        <5> QED BY Zenon, <3>11, <4>1, <4>2, <5>1 DEF Inv, IterInv
      <4>3. CASE j \notin DOMAIN iter.items
        <5>1. PICK m \in DOMAIN recs : /\ items[i] = Item(recs[m])
                                       /\ i \in DOMAIN iter.items => Start(m) < Start(n)
          BY Zenon, <3>10
        <5>2. items[j] = Item(recs[n])
          BY Zenon, <3>10, <4>3
        <5>3. Start(m) \in Nat /\ Start(n) \in Nat
          BY Zenon, RecFacts DEF Inv
        <5>4. items[i].addr = PageAddr(Start(m)) /\ items[j].addr = PageAddr(Start(n))
          BY <5>1, <5>2, SMTT(60) DEF Item, Start
        <5> QED BY Zenon, <4>1, <5>1, <5>3, <5>4, PageAddrs
      <4> QED BY Zenon, <4>2, <4>3
    <3>12. IterInv'
      <4>1. \A m \in DOMAIN recs : Start(m)' = Start(m)
        BY Zenon, <1>1 DEF Start
      <4>2. flushes' = 0 => iter'.offset = 0 /\ iter'.items = <<>> /\ ~iter'.end
        BY Zenon, <1>1
      <4>3. /\ \/ iter'.offset = st'.allocated \/ iter'.offset = 0
               \/ \E m \in DOMAIN recs' : iter'.offset = Start(m)'
            /\ iter'.end => iter'.offset = st'.allocated
        BY Zenon, <1>1, <3>6, <3>7, <4>1
      <4>4. \A m \in DOMAIN recs' : recs'[m].state = "live" /\ Start(m)' < iter'.offset =>
               \E i \in DOMAIN iter'.items : iter'.items[i] = Item(recs'[m])
        BY Zenon, <1>1, <3>6, <3>9, <4>1
      <4>5. \A i \in DOMAIN iter'.items : \E m \in DOMAIN recs' :
               /\ recs'[m].state = "live" /\ Start(m)' < iter'.offset
               /\ iter'.items[i] = Item(recs'[m])
        <5> SUFFICES ASSUME NEW i \in DOMAIN items
                     PROVE  \E m \in DOMAIN recs' : /\ recs'[m].state = "live" /\ Start(m)' < iter'.offset
                                                    /\ iter'.items[i] = Item(recs'[m])
          BY Zenon, <3>6
        <5>1. PICK m \in DOMAIN recs : /\ recs[m].state = "live" /\ Start(m) < End(n)
                                       /\ items[i] = Item(recs[m])
          BY Zenon, <3>10
        <5> QED BY Zenon, <1>1, <3>6, <4>1, <5>1
      <4>6. \A i, j \in DOMAIN iter'.items : i < j => iter'.items[i].addr < iter'.items[j].addr
        BY Zenon, <3>6, <3>11
      <4> QED BY Zenon, <4>2, <4>3, <4>4, <4>5, <4>6 DEF IterInv
    <3> QED BY Zenon, <3>6, <3>12
  <2> QED BY <2>0, <2>1, <2>2
<1>4. TypeInv'
  BY <1>1, <1>3 DEF Inv, TypeInv
<1>5. WritersCounted' /\ FlushToldOnce'
  BY Zenon, <1>1 DEF Inv, WritersCounted, FlushToldOnce, st
<1>6. Tiling'
  BY <1>1, ZenonT(60) DEF Inv, Tiling, Start, End
<1>7. (\A t \in Tasks : TaskInv(t))' /\ OwnerInv'
  BY <1>1 DEF Inv, TaskInv, OwnerInv
<1>8. MemInv'
  BY Zenon, <1>1 DEF Inv, MemInv, Start
<1> QED BY Zenon, <1>3, <1>4, <1>5, <1>6, <1>7, <1>8 DEF Inv

-----------------------------------------------------------------------------
(* Theorems *)

\* Every step preserves the invariant.
LEMMA NextInv == Inv /\ [Next]_vars => Inv'
<1> SUFFICES ASSUME Inv, [Next]_vars PROVE Inv'
  BY Zenon
<1>1. ASSUME NEW t \in Tasks, NEW s \in PageSizes, StartAlloc(t, "page", s) PROVE Inv'
  BY Zenon, <1>1, StartAllocInv DEF Sizes
<1>2. ASSUME NEW t \in Tasks, StartAlloc(t, "dealloc", ALIGN) PROVE Inv'
  BY Zenon, <1>2, StartAllocInv DEF Sizes
<1>3. ASSUME NEW t \in Tasks, AllocFails(t) PROVE Inv'
  BY Zenon, <1>3, AllocFailsInv
<1>4. ASSUME NEW t \in Tasks, AllocCas(t) PROVE Inv'
  BY Zenon, <1>4, AllocInv
<1>5. ASSUME NEW t \in Tasks, InitRecord(t) PROVE Inv'
  BY Zenon, <1>5, InitRecordInv
<1>6. ASSUME NEW t \in Tasks, NEW n \in 1..MaxRecords, SetPageId(t, n) PROVE Inv'
  BY <1>6, SetPageIdInv
<1>7. ASSUME NEW t \in Tasks, Commit(t) PROVE Inv'
  BY Zenon, <1>7, CommitInv
<1>8. ASSUME NEW t \in Tasks, Abort(t) PROVE Inv'
  BY Zenon, <1>8, AbortInv
<1>9. ASSUME NEW t \in Tasks, ReleaseCas(t) PROVE Inv'
  BY Zenon, <1>9, ReleaseInv
<1>10. ASSUME NEW t \in Tasks, StartSeal(t) PROVE Inv'
  BY Zenon, <1>10, StartSealInv
<1>11. ASSUME NEW t \in Tasks, SealCas(t) PROVE Inv'
  BY Zenon, <1>11, SealInv
<1>12. CASE IterNext
  BY <1>12, IterNextInv
<1>13. CASE UNCHANGED vars
  <2>1. TypeInv' /\ WritersCounted' /\ FlushToldOnce'
    BY Zenon, <1>13 DEF vars, Inv, TypeInv, WritersCounted, FlushToldOnce
  <2>2. Tiling'
    BY <1>13, ZenonT(60) DEF vars, Inv, Tiling, Start, End, st
  <2>3. \A t \in Tasks : TaskInv(t)'
    BY <1>13 DEF vars, Inv, TaskInv
  <2>6. OwnerInv'
    BY <1>13 DEF vars, Inv, OwnerInv
  <2>4. MemInv'
    BY Zenon, <1>13 DEF vars, Inv, MemInv, Start
  <2>5. IterInv'
    BY <1>13, Zenon DEF vars, Inv, IterInv, Start, st
  <2> QED BY <2>1, <2>2, <2>3, <2>4, <2>5, <2>6 DEF Inv
<1> QED BY Zenon, <1>1, <1>2, <1>3, <1>4, <1>5, <1>6, <1>7, <1>8, <1>9, <1>10, <1>11, <1>12, <1>13 DEF Next

\* The inductive invariant holds in every behaviour.
THEOREM Invariance == Spec => []Inv
  BY InitInv, NextInv, PTL DEF Spec

\* Records, whoever allocated them, are disjoint, aligned and inside the buffer, and
\* the assertion of record_uninit holds, for any number of tasks.
THEOREM RecordsDisjointHolds == Spec => []RecordsDisjoint
<1>1. Inv => RecordsDisjoint
  <2> SUFFICES ASSUME Inv, NEW n \in DOMAIN recs
               PROVE  /\ recs[n].offset % ALIGN = 0 /\ RecordInBounds(recs[n].offset)
                      /\ recs[n].offset + RecordSize(recs[n].size) <= BufSize
                      /\ \A m \in 1..(n - 1) :
                            recs[m].offset + HEADER + recs[m].size <= recs[n].offset
    BY Zenon DEF RecordsDisjoint
  <2>1. /\ Start(n) % ALIGN = 0 /\ End(n) <= BufSize /\ Start(n) + HEADER < BufSize
        /\ \A m \in DOMAIN recs : m < n => Start(m) + HEADER + recs[m].size <= Start(n)
    BY Zenon, RecBounds DEF Inv, Tiling
  <2>2. \A m \in 1..(n - 1) : m \in DOMAIN recs /\ m < n
    BY RecFacts DEF Inv, TypeInv
  <2> QED BY Zenon, <2>1, <2>2 DEF Start, End, RecordInBounds
<1> QED BY <1>1, Invariance, PTL

\* num_writer is the number of transactions that hold the buffer; it neither underflows
\* nor reaches the seal bit.
THEOREM WritersCountedHolds == Spec => []WritersCounted
<1>1. Inv => WritersCounted
  BY DEF Inv
<1> QED BY <1>1, Invariance, PTL

\* Exactly one caller of seal and release_writer is told to flush the buffer, when it
\* becomes flushable, and it stays so.
THEOREM FlushToldOnceHolds == Spec => []FlushToldOnce
<1>1. Inv => FlushToldOnce
  BY Zenon DEF Inv
<1> QED BY <1>1, Invariance, PTL

\* What transactions wrote into the buffer is read back as it was written: a page by its
\* address (WriteBuffer::page), and exactly the live records by the iterator of the
\* flush job, whatever was aborted in between.
THEOREM RecordsReadHolds == Spec => []RecordsRead
<1>1. Inv => PagesFound
  <2> SUFFICES ASSUME Inv, NEW n \in DOMAIN recs, recs[n].state = "live", recs[n].kind = "page"
               PROVE  /\ Page(PageAddr(recs[n].offset)) =
                            [flags |-> "page", data |-> recs[n].id, size |-> recs[n].size]
                      /\ \A w \in Word(recs[n].offset + HEADER)
                                   ..Word(recs[n].offset + HEADER + recs[n].size - 1) :
                            mem[w] = [flags |-> "body", data |-> n, size |-> 0]
    BY Zenon DEF PagesFound
  <2> DEFINE a == recs[n].offset
             x == PageAddr(a)
  <2>1. mem[Word(a)] = Header(recs[n]) /\ \A w \in BodyWords(n) : mem[w] = Body(n)
    BY Zenon DEF Inv, MemInv, BodyWords, Start
  <2>2. /\ a \in Nat /\ a % ALIGN = 0 /\ a + HEADER < BufSize
        /\ HEADER \in Nat /\ HEADER % ALIGN = 0 /\ ALIGN \in Nat \ {0} /\ MOD \in Nat \ {0}
    BY Zenon, RecFacts, RecBounds, Constants DEF Inv, Tiling, Start
  <2>3. x \div MOD = GroupId /\ x % MOD = a + HEADER
    <3>1. a + HEADER \in 0 .. (MOD - 1) /\ GroupId \in Nat
      BY <2>2, Constants DEF GroupId
    <3> HIDE DEF a
    <3> QED BY <2>2, <3>1, DivModUnique, ZenonT(60) DEF PageAddr
  <2>4. (a + HEADER) % ALIGN = 0
    BY Zenon, <2>2, Multiple
  <2>5. a + HEADER >= HEADER /\ (a + HEADER) - HEADER = a /\ RecordInBounds(a)
    BY <2>2 DEF RecordInBounds
  <2>6. mem[Word(a)].flags = "page"
    BY <2>1 DEF Header
  <2> HIDE DEF a, x
  <2>7. Page(x) = mem[Word(a)]
    BY Zenon, <2>3, <2>4, <2>5, <2>6 DEF Page
  <2> QED BY <2>1, <2>7, ZenonT(60) DEF a, x, Header, Body, BodyWords, Start
<1>2. Inv => IterationExact
  <2> SUFFICES ASSUME Inv, iter.end PROVE IterationExact
    BY Zenon DEF IterationExact
  <2>1. iter.offset = st.allocated
    BY Zenon DEF Inv, IterInv
  <2>2. \A n \in DOMAIN recs : Start(n) < st.allocated
    BY Zenon, RecBounds DEF Inv
  <2> QED BY Zenon, <2>1, <2>2 DEF Inv, IterInv, IterationExact
<1>3. Inv => RecordsRead
  BY Zenon, <1>1, <1>2 DEF RecordsRead
<1> QED BY <1>3, Invariance, PTL

=============================================================================
