-------------------------- MODULE WriteBufferSteps --------------------------
(***************************************************************************)
(* The inductive invariant of a write buffer, and the steps that leave the *)
(* written memory alone: allocating, committing, sealing, releasing.       *)
(***************************************************************************)
EXTENDS WriteBuffer, FiniteSetTheorems, TLAPS

-----------------------------------------------------------------------------
(* Arithmetic *)

\* Quotient and remainder
LEMMA DivMod ==
    ASSUME NEW m \in Nat \ {0}, NEW x \in Nat
    PROVE  /\ x = m * (x \div m) + (x % m)
           /\ x % m \in 0 .. (m - 1)
           /\ x \div m \in Nat
  OBVIOUS

\* The quotient rounds down.
LEMMA DivFloor ==
    ASSUME NEW m \in Nat \ {0}, NEW x \in Nat
    PROVE  x \div m \in Nat /\ (x \div m) * m <= x
<1>1. x = m * (x \div m) + (x % m) /\ x % m \in 0 .. (m - 1) /\ x \div m \in Nat
  BY DivMod, Zenon
<1> DEFINE q == x \div m
           r == x % m
<1>2. q \in Nat /\ r \in Nat /\ x = m * q + r /\ m * q = q * m /\ m * q \in Nat
  BY <1>1
<1> HIDE DEF q, r
<1>3. q * m <= x
  BY <1>2
<1> QED BY Zenon, <1>2, <1>3 DEF q

\* A number is determined by its quotient and remainder.
LEMMA DivModUnique ==
    ASSUME NEW m \in Nat \ {0}, NEW q \in Nat, NEW a \in 0 .. (m - 1)
    PROVE  (q * m + a) % m = a /\ (q * m + a) \div m = q
  OBVIOUS

\* A number below m is its own remainder.
LEMMA ModSmall ==
    ASSUME NEW m \in Nat \ {0}, NEW a \in 0 .. (m - 1)
    PROVE  a % m = a
  OBVIOUS

\* A product grows with its first factor.
LEMMA ProductLeq ==
    ASSUME NEW m \in Nat, NEW a \in Nat, NEW b \in Nat, a <= b
    PROVE  a * m \in Nat /\ a * m <= b * m
<1>1. PICK d \in Nat : b = a + d
  <2>1. b - a \in Nat /\ b = a + (b - a)
    OBVIOUS
  <2> QED BY Zenon, <2>1
<1>2. b * m = a * m + d * m /\ d * m \in Nat /\ a * m \in Nat
  BY <1>1
<1> QED BY <1>2

\* Multiples of m
LEMMA Multiple ==
    ASSUME NEW m \in Nat \ {0}, NEW x \in Nat
    PROVE  /\ x % m = 0 => x = (x \div m) * m
           /\ \A y \in Nat : x % m = 0 /\ y % m = 0 => (x + y) % m = 0
           /\ (x * m) % m = 0
<1>1. x % m = 0 => x = (x \div m) * m
  BY DivMod
<1>2. ASSUME NEW y \in Nat, x % m = 0, y % m = 0 PROVE (x + y) % m = 0
  <2> DEFINE p == x \div m
             q == y \div m
  <2>1. x = p * m /\ y = q * m /\ p \in Nat /\ q \in Nat
    BY <1>2, DivMod
  <2>2. x + y = (p + q) * m + 0
    BY <2>1
  <2>3. p + q \in Nat /\ 0 \in 0 .. (m - 1)
    BY <2>1
  <2> HIDE DEF p, q
  <2> QED BY <2>2, <2>3, DivModUnique
<1>3. (x * m) % m = 0
  BY DivModUnique
<1> QED BY Zenon, <1>1, <1>2, <1>3

\* A multiple of m that is below another one is below it by m.
LEMMA MultipleGap ==
    ASSUME NEW m \in Nat \ {0}, NEW x \in Nat, NEW y \in Nat, x % m = 0, y % m = 0, x < y
    PROVE  x + m <= y
<1> DEFINE p == x \div m
           q == y \div m
<1>1. x = p * m /\ y = q * m /\ p \in Nat /\ q \in Nat
  BY DivMod
<1>2. q >= p + 1
  BY <1>1
<1>3. q * m >= (p + 1) * m
  BY <1>1, <1>2
<1> QED BY <1>1, <1>3
-----------------------------------------------------------------------------
(* The state word and the sizes of records *)

Sizes == PageSizes \cup {ALIGN}
StateType == [allocated : 0 .. (MOD - 1), writers : 0 .. (HALF - 1), sealed : BOOLEAN]

\* The sizes, as the proofs use them: a record cannot wrap around, and everything is aligned.
LEMMA Constants ==
    /\ ALIGN \in Nat \ {0} /\ HALF \in Nat \ {0} /\ MOD \in Nat \ {0} /\ MOD = 2 * HALF
    /\ MOD * HALF \in Nat \ {0} /\ HEADER \in Nat /\ HEADER = 2 * ALIGN
    /\ HEADER % ALIGN = 0 /\ MOD % ALIGN = 0
    /\ BufSize \in Nat /\ BufSize % ALIGN = 0 /\ BufSize <= HALF
    /\ Sizes \subseteq {x \in Nat \ {0} : x + 3 * ALIGN < MOD}
<1>1. ALIGN \in Nat \ {0} /\ HALF \in Nat \ {0} /\ MOD \in Nat \ {0} /\ MOD = 2 * HALF
  BY SizesAssumption DEF MOD
<1>2. MOD * HALF \in Nat \ {0}
  BY <1>1
<1>3. HEADER \in Nat /\ HEADER = 2 * ALIGN /\ HEADER % ALIGN = 0
  BY <1>1, Multiple DEF HEADER
<1> QED BY Zenon, <1>1, <1>2, <1>3, SizesAssumption DEF MOD, Sizes

\* BufferState::load and BufferState::apply are inverse to each other.
LEMMA LoadApply ==
    ASSUME NEW s \in StateType
    PROVE  Apply(s) \in Nat /\ Load(Apply(s)) = s
<1> DEFINE top == IF s.sealed THEN 1 ELSE 0
           high == top * HALF + s.writers
<1>1. /\ s.allocated \in 0 .. (MOD - 1) /\ s.writers \in 0 .. (HALF - 1) /\ s.sealed \in BOOLEAN
      /\ s.allocated \in Nat /\ s.writers \in Nat /\ top \in Nat /\ high \in Nat
  BY Constants DEF StateType
<1>2. Apply(s) = high * MOD + s.allocated
  <2>1. CASE s.sealed
    <3>1. (1 * HALF + s.writers) * MOD = MOD * HALF + s.writers * MOD
      BY <1>1, Constants
    <3> QED BY Zenon, <2>1, <3>1 DEF Apply
  <2>2. CASE ~s.sealed
    <3>1. (0 * HALF + s.writers) * MOD = 0 + s.writers * MOD
      BY <1>1, Constants
    <3> QED BY Zenon, <2>2, <3>1 DEF Apply
  <2> QED BY Zenon, <2>1, <2>2
<1>3. Apply(s) % MOD = s.allocated /\ Apply(s) \div MOD = high
  <2>1. MOD \in Nat \ {0} /\ high \in Nat /\ s.allocated \in 0 .. (MOD - 1)
    BY Zenon, <1>1, Constants
  <2> HIDE DEF high
  <2>2. (high * MOD + s.allocated) % MOD = s.allocated /\ (high * MOD + s.allocated) \div MOD = high
    BY <2>1, DivModUnique, Zenon
  <2> QED BY Zenon, <1>2, <2>2
<1>4. high % HALF = s.writers /\ high \div HALF = top
  <2> HIDE DEF top
  <2> QED BY <1>1, Constants, DivModUnique, ZenonT(60)
<1>5. Apply(s) \in Nat
  <2> HIDE DEF high
  <2> QED BY <1>1, <1>2, Constants
<1>6. Apply(s) \div (MOD * HALF) = top
  <2>1. Apply(s) = top * (MOD * HALF) + (s.writers * MOD + s.allocated)
    <3>1. high * MOD = top * (MOD * HALF) + s.writers * MOD
      <4>1. MOD \in Nat /\ HALF \in Nat /\ s.writers \in Nat /\ top \in Nat
        BY Zenon, <1>1, Constants
      <4> HIDE DEF top
      <4> QED BY <4>1
    <3> HIDE DEF high, top
    <3>2. s.writers * MOD \in Nat /\ top * (MOD * HALF) \in Nat
      BY <1>1, Constants
    <3> QED BY <3>1, <3>2, <1>1, <1>2
  <2>2. s.writers * MOD + s.allocated \in 0 .. ((MOD * HALF) - 1)
    <3>1. s.writers * MOD <= (HALF - 1) * MOD
      <4>1. MOD \in Nat /\ HALF - 1 \in Nat /\ s.writers \in Nat /\ s.writers <= HALF - 1
        BY <1>1, Constants
      <4> QED BY Zenon, <4>1, ProductLeq
    <3>2. (HALF - 1) * MOD = MOD * HALF - MOD
      BY Constants
    <3>3. s.writers * MOD \in Nat
      BY <1>1, Constants
    <3> QED BY <3>1, <3>2, <3>3, <1>1, Constants
  <2>3. MOD * HALF \in Nat \ {0} /\ top \in Nat
    BY Zenon, <1>1, Constants
  <2> DEFINE m == MOD * HALF
             a == s.writers * MOD + s.allocated
  <2> HIDE DEF top, m, a
  <2>4. (top * m + a) \div m = top
    BY Zenon, <2>2, <2>3, DivModUnique DEF m, a
  <2> QED BY Zenon, <2>1, <2>4 DEF m, a
<1>7. (top % 2 = 1) = s.sealed
  BY <1>1
<1>8. s = [allocated |-> s.allocated, writers |-> s.writers, sealed |-> s.sealed]
  BY Zenon DEF StateType
<1> HIDE DEF high, top
<1> QED BY Zenon, <1>3, <1>4, <1>5, <1>6, <1>7, <1>8 DEF Load

\* Whatever the word is, its fields have their ranges.
LEMMA LoadType ==
    ASSUME NEW w \in Nat
    PROVE  Load(w) \in StateType
<1>1. w % MOD \in 0 .. (MOD - 1) /\ w \div MOD \in Nat
  BY Constants, DivMod, Zenon
<1>2. (w \div MOD) % HALF \in 0 .. (HALF - 1)
  BY Zenon, <1>1, Constants, DivMod
<1> QED BY Zenon, <1>1, <1>2 DEF Load, StateType

\* next_multiple_of_u32 of a size that does not wrap
LEMMA AlignedFacts ==
    ASSUME NEW x \in Nat, x + ALIGN <= MOD
    PROVE  /\ Aligned(x) \in Nat /\ Aligned(x) % ALIGN = 0
           /\ Aligned(x) >= x /\ Aligned(x) <= x + ALIGN - 1
           /\ x % ALIGN = 0 => Aligned(x) = x
<1> DEFINE y == x + ALIGN - 1
           q == y \div ALIGN
<1>1. y \in Nat /\ y < MOD /\ U32(y) = y
  BY Constants DEF U32
<1>2. y = ALIGN * q + (y % ALIGN) /\ y % ALIGN \in 0 .. (ALIGN - 1) /\ q \in Nat
  BY <1>1, Constants, DivMod, Zenon
<1>3. q * ALIGN \in Nat /\ q * ALIGN = ALIGN * q
  BY <1>2, Constants
<1>4. q * ALIGN <= y /\ q * ALIGN > y - ALIGN
  BY <1>1, <1>2, <1>3, Constants
<1>5. Aligned(x) = q * ALIGN
  <2>1. U32(q * ALIGN) = q * ALIGN
    BY <1>1, <1>3, <1>4, Constants DEF U32
  <2> QED BY Zenon, <1>1, <2>1 DEF Aligned
<1>6. (q * ALIGN) % ALIGN = 0
  BY Zenon, <1>2, Constants, Multiple
<1>7. ASSUME x % ALIGN = 0 PROVE q * ALIGN = x
  <2>1. CASE q * ALIGN > x
    <3>1. x + ALIGN <= q * ALIGN
      BY <1>3, <1>6, <1>7, <2>1, MultipleGap, Constants, Zenon
    <3> QED BY <3>1, <1>3, <1>4, Constants
  <2> QED BY <2>1, <1>3, <1>4, Constants
<1> HIDE DEF q
<1> QED BY <1>3, <1>4, <1>5, <1>6, <1>7, Constants

\* The size of a record: header and body, aligned
LEMMA RecordSizes ==
    ASSUME NEW x \in Sizes
    PROVE  /\ RecordSize(x) \in Nat /\ RecordSize(x) % ALIGN = 0
           /\ RecordSize(x) >= HEADER + x /\ x \in Nat \ {0}
           /\ Aligned(RecordSize(x)) = RecordSize(x)
<1>1. x \in Nat \ {0} /\ x + 3 * ALIGN < MOD
  BY Zenon, Constants
<1>2. /\ Aligned(x) \in Nat /\ Aligned(x) % ALIGN = 0
      /\ Aligned(x) >= x /\ Aligned(x) <= x + ALIGN - 1
  BY <1>1, Constants, AlignedFacts
<1>3. RecordSize(x) = HEADER + Aligned(x)
  BY <1>1, <1>2, Constants DEF RecordSize, U32
<1>4. RecordSize(x) \in Nat /\ RecordSize(x) % ALIGN = 0 /\ RecordSize(x) < MOD
  <2>1. (HEADER + Aligned(x)) % ALIGN = 0
    <3>1. /\ ALIGN \in Nat \ {0} /\ HEADER \in Nat /\ HEADER % ALIGN = 0
          /\ Aligned(x) \in Nat /\ Aligned(x) % ALIGN = 0
      BY Zenon, <1>2, Constants
    <3> QED BY Zenon, <3>1, Multiple
  <2> QED BY <2>1, <1>1, <1>2, <1>3, Constants
<1>5. RecordSize(x) + ALIGN <= MOD
  <2>1. ALIGN \in Nat \ {0} /\ MOD \in Nat /\ MOD % ALIGN = 0
    BY Zenon, Constants
  <2> QED BY Zenon, <2>1, <1>4, MultipleGap
<1>6. Aligned(RecordSize(x)) = RecordSize(x)
  BY Zenon, <1>4, <1>5, AlignedFacts
<1> QED BY <1>1, <1>2, <1>3, <1>4, <1>6, Constants

-----------------------------------------------------------------------------
(* The inductive invariant *)

st == Load(word)
Start(n) == recs[n].offset
End(n) == recs[n].offset + RecordSize(recs[n].size)
Holders == {t \in Tasks : task[t].hold}

Flags == {"uninit", "body", "page", "dealloc", "tombstone"}
HeaderType == [flags : Flags, data : Nat, size : Nat]
RecType == [offset : Nat, size : Sizes, kind : {"page", "dealloc"},
            state : {"new", "live", "dead"}, id : Nat]
TaskType == [pc : {"idle", "alloc", "init", "txn", "drop", "release", "seal"},
             cur : Nat, hold : BOOLEAN, kind : {"page", "dealloc"}, size : Nat,
             mine : SUBSET Nat]
IterType == [offset : Nat, items : Seq([addr : Nat, header : HeaderType]), end : BOOLEAN]

TypeInv ==
    /\ word \in Nat
    /\ mem \in [0..(Word(BufSize) - 1) -> HeaderType]
    /\ recs \in Seq(RecType)
    /\ task \in [Tasks -> TaskType]
    /\ flushes \in Nat
    /\ iter \in IterType

\* The records tile the allocated part of the buffer, in the order of their allocation.
Tiling ==
    /\ st.allocated % ALIGN = 0 /\ st.allocated <= BufSize
    /\ st.allocated = IF recs = <<>> THEN 0 ELSE End(Len(recs))
    /\ \A n \in DOMAIN recs :
          /\ Start(n) % ALIGN = 0 /\ End(n) <= st.allocated
          /\ Start(n) = IF n = 1 THEN 0 ELSE End(n - 1)
    /\ \A m, n \in DOMAIN recs : m < n => End(m) <= Start(n)

\* A transaction that has records is counted as a writer until it has let go of them.
TaskInv(t) ==
    /\ task[t].pc \in {"init", "txn", "drop", "release"} => task[t].hold
    /\ task[t].pc \in {"idle", "seal"} => ~task[t].hold
    /\ (~task[t].hold \/ task[t].pc = "release") => task[t].mine = {}
    /\ task[t].pc = "alloc" => task[t].size \in Sizes
    /\ task[t].pc = "init" => \E n \in task[t].mine : recs[n].state = "new"
    /\ task[t].mine \subseteq DOMAIN recs

\* A record belongs to one transaction until that ends; only the one that was just
\* allocated is not initialised.
OwnerInv ==
    /\ \A t, u \in Tasks : t # u => task[t].mine \cap task[u].mine = {}
    /\ \A t \in Tasks : \A n \in task[t].mine :
          /\ recs[n].state # "dead"
          /\ recs[n].state = "new" =>
                task[t].pc = "init" /\ \A m \in task[t].mine : recs[m].state = "new" => m = n
    /\ \A n \in DOMAIN recs : recs[n].state = "new" =>
          recs[n].id = NAN_ID /\ \E t \in Tasks : n \in task[t].mine

Header(r) == [flags |-> r.kind, data |-> r.id, size |-> r.size]
Body(n) == [flags |-> "body", data |-> n, size |-> 0]

\* The memory holds what was written.
MemInv ==
    \A n \in DOMAIN recs :
       /\ recs[n].state = "live" =>
             /\ mem[Word(Start(n))] = Header(recs[n])
             /\ \A w \in Word(Start(n) + HEADER)..Word(Start(n) + HEADER + recs[n].size - 1) :
                   mem[w] = Body(n)
       /\ recs[n].state = "dead" =>
             /\ mem[Word(Start(n))].flags = "tombstone"
             /\ mem[Word(Start(n))].size = recs[n].size

\* The iterator stands at a record or at the end, and has returned the live records
\* before that place.
IterInv ==
    /\ flushes = 0 => iter.offset = 0 /\ iter.items = <<>> /\ ~iter.end
    /\ iter.offset = st.allocated \/ iter.offset = 0 \/ \E n \in DOMAIN recs : iter.offset = Start(n)
    /\ iter.end => iter.offset = st.allocated
    /\ \A n \in DOMAIN recs : recs[n].state = "live" /\ Start(n) < iter.offset =>
          \E i \in DOMAIN iter.items : iter.items[i] = Item(recs[n])
    /\ \A i \in DOMAIN iter.items : \E n \in DOMAIN recs :
          /\ recs[n].state = "live" /\ Start(n) < iter.offset
          /\ iter.items[i] = Item(recs[n])
    /\ \A i, j \in DOMAIN iter.items : i < j => iter.items[i].addr < iter.items[j].addr

Inv ==
    /\ TypeInv /\ WritersCounted /\ FlushToldOnce /\ Tiling
    /\ (\A t \in Tasks : TaskInv(t)) /\ OwnerInv /\ MemInv /\ IterInv

-----------------------------------------------------------------------------
(* What the invariant says *)

\* The state that is loaded from a word
LEMMA StateFacts ==
    ASSUME TypeInv
    PROVE  /\ st \in StateType
           /\ st.allocated \in Nat /\ st.allocated < MOD
           /\ st.writers \in Nat /\ st.writers < HALF /\ st.sealed \in BOOLEAN
           /\ \A t \in Tasks : task[t].cur = word => Load(task[t].cur) = st
<1>1. st \in StateType
  BY Zenon, LoadType DEF TypeInv, st
<1> QED BY <1>1, Constants DEF StateType, st

\* A record and its size
LEMMA RecFacts ==
    ASSUME TypeInv, NEW n \in DOMAIN recs
    PROVE  /\ recs[n] \in RecType /\ recs[n].size \in Sizes
           /\ Start(n) \in Nat /\ End(n) \in Nat /\ RecordSize(recs[n].size) \in Nat
           /\ RecordSize(recs[n].size) % ALIGN = 0
           /\ n \in Nat \ {0} /\ n <= Len(recs) /\ Len(recs) \in Nat
           /\ recs[n].size \in Nat \ {0}
           /\ End(n) >= Start(n) + HEADER + recs[n].size
<1>1. recs[n] \in RecType /\ n \in 1 .. Len(recs) /\ Len(recs) \in Nat
  BY DEF TypeInv
<1>2. recs[n].size \in Sizes /\ recs[n].offset \in Nat
  BY Zenon, <1>1 DEF RecType
<1>3. /\ RecordSize(recs[n].size) \in Nat /\ RecordSize(recs[n].size) % ALIGN = 0
      /\ RecordSize(recs[n].size) >= HEADER + recs[n].size /\ recs[n].size \in Nat \ {0}
      /\ HEADER \in Nat
  BY <1>2, RecordSizes, Constants, Zenon
<1> DEFINE z == RecordSize(recs[n].size)
<1>4. End(n) = Start(n) + z /\ Start(n) \in Nat
  BY Zenon, <1>2 DEF Start, End
<1> HIDE DEF z
<1>5. End(n) \in Nat /\ End(n) >= Start(n) + HEADER + recs[n].size
  BY <1>3, <1>4 DEF z
<1> QED BY <1>1, <1>2, <1>3, <1>4, <1>5

\* A record has at least a header and a byte, and ends in the allocated part.
LEMMA RecBounds ==
    ASSUME TypeInv, Tiling, NEW n \in DOMAIN recs
    PROVE  /\ Start(n) < End(n) /\ End(n) <= st.allocated /\ Start(n) < st.allocated
           /\ End(n) <= BufSize /\ Start(n) + HEADER < BufSize
           /\ \A m \in DOMAIN recs : m < n => Start(m) + HEADER + recs[m].size <= Start(n)
<1>1. End(n) <= st.allocated /\ st.allocated <= BufSize /\ st.allocated \in Nat
  BY Zenon, StateFacts DEF Tiling
<1>2. /\ Start(n) \in Nat /\ End(n) \in Nat /\ recs[n].size \in Nat \ {0}
      /\ End(n) >= Start(n) + HEADER + recs[n].size
  BY Zenon, RecFacts
<1> DEFINE a == Start(n)
           e == End(n)
           z == recs[n].size
           l == st.allocated
<1>3. /\ a \in Nat /\ e \in Nat /\ z \in Nat \ {0} /\ e >= a + HEADER + z /\ e <= l
      /\ l \in Nat /\ l <= BufSize
  BY Zenon, <1>1, <1>2
<1>4. a < e /\ e <= l /\ a < l /\ e <= BufSize /\ a + HEADER < BufSize
  <2> HIDE DEF a, e, z, l
  <2> QED BY <1>3, Constants
<1>5. ASSUME NEW m \in DOMAIN recs, m < n PROVE Start(m) + HEADER + recs[m].size <= Start(n)
  <2>1. /\ Start(m) \in Nat /\ End(m) \in Nat /\ recs[m].size \in Nat
        /\ End(m) >= Start(m) + HEADER + recs[m].size /\ End(m) <= Start(n)
    BY Zenon, <1>5, RecFacts DEF Tiling
  <2> DEFINE b == Start(m)
             f == End(m)
             y == recs[m].size
  <2>2. b \in Nat /\ f \in Nat /\ y \in Nat /\ f >= b + HEADER + y /\ f <= a /\ a \in Nat
    BY Zenon, <1>3, <2>1
  <2> HIDE DEF a, b, f, y
  <2>3. b + HEADER + y <= a
    BY <2>2, Constants
  <2> QED BY Zenon, <2>3 DEF a, b, y
<1> QED BY Zenon, <1>4, <1>5

\* The words of the memory that a record occupies: its header is in the first, the body
\* begins two words later, and all are before the word where the record ends.
LEMMA WordFacts ==
    ASSUME TypeInv, Tiling, NEW n \in DOMAIN recs
    PROVE  /\ Word(Start(n)) \in Nat /\ Word(End(n)) \in Nat /\ Word(BufSize) \in Nat
           /\ Word(Start(n) + HEADER - 1) = Word(Start(n)) + 1
           /\ Word(Start(n) + HEADER) = Word(Start(n)) + 2
           /\ Word(Start(n) + HEADER + recs[n].size - 1) \in Nat
           /\ Word(Start(n) + HEADER + recs[n].size - 1) < Word(End(n))
           /\ Word(Start(n)) + 2 < Word(End(n)) + 1 /\ Word(End(n)) <= Word(BufSize)
           /\ \A m \in DOMAIN recs : m < n => Word(End(m)) <= Word(Start(n))
<1> DEFINE o == Word(Start(n))
           e == Word(End(n))
           b == Word(BufSize)
           l == Start(n) + HEADER + recs[n].size - 1
<1>1. /\ Start(n) \in Nat /\ End(n) \in Nat /\ recs[n].size \in Nat \ {0}
      /\ End(n) >= Start(n) + HEADER + recs[n].size
      /\ Start(n) % ALIGN = 0 /\ End(n) % ALIGN = 0 /\ End(n) <= BufSize
  <2>1. Start(n) % ALIGN = 0 /\ End(n) <= st.allocated /\ st.allocated <= BufSize
    BY Zenon DEF Tiling
  <2>2. /\ Start(n) \in Nat /\ RecordSize(recs[n].size) \in Nat
        /\ RecordSize(recs[n].size) % ALIGN = 0 /\ ALIGN \in Nat \ {0}
    BY Zenon, RecFacts, Constants
  <2>3. (Start(n) + RecordSize(recs[n].size)) % ALIGN = 0
    BY Zenon, <2>1, <2>2, Multiple
  <2>4. End(n) <= BufSize
    <3>1. End(n) \in Nat /\ st.allocated \in Nat /\ BufSize \in Nat
      BY Zenon, RecFacts, StateFacts, Constants
    <3> QED BY <2>1, <3>1
  <2> QED BY Zenon, <2>1, <2>3, <2>4, RecFacts DEF Start, End
<1>2. ALIGN \in Nat \ {0} /\ BufSize \in Nat /\ BufSize % ALIGN = 0 /\ HEADER = 2 * ALIGN
  BY Zenon, Constants
<1>3. /\ o \in Nat /\ e \in Nat /\ b \in Nat
      /\ Start(n) = o * ALIGN /\ End(n) = e * ALIGN /\ BufSize = b * ALIGN
  BY <1>1, <1>2, DivMod, Multiple, Zenon DEF Word
<1> HIDE DEF o, e, b
<1>4. Word(Start(n) + HEADER - 1) = o + 1
  <2>1. Start(n) + HEADER - 1 = (o + 1) * ALIGN + (ALIGN - 1)
    BY <1>1, <1>2, <1>3
  <2>2. o + 1 \in Nat /\ ALIGN - 1 \in 0 .. (ALIGN - 1)
    BY <1>2, <1>3
  <2>3. ((o + 1) * ALIGN + (ALIGN - 1)) \div ALIGN = o + 1
    BY Zenon, <1>2, <2>2, DivModUnique
  <2> QED BY Zenon, <2>1, <2>3 DEF Word
<1>5. Word(Start(n) + HEADER) = o + 2
  <2>1. Start(n) + HEADER = (o + 2) * ALIGN + 0
    BY <1>1, <1>2, <1>3
  <2>2. o + 2 \in Nat /\ 0 \in 0 .. (ALIGN - 1)
    BY <1>2, <1>3
  <2> QED BY <1>2, <2>1, <2>2, DivModUnique DEF Word
<1>6. Word(l) \in Nat /\ Word(l) < e
  <2>1. l \in Nat /\ l < End(n)
    BY <1>1, <1>2
  <2> DEFINE q == Word(l)
  <2>2. q \in Nat /\ q * ALIGN <= l
    <3> HIDE DEF l
    <3> QED BY Zenon, <1>2, <2>1, DivFloor DEF Word
  <2> HIDE DEF q, l
  <2>3. ASSUME e <= q PROVE FALSE
    <3>1. e * ALIGN <= q * ALIGN /\ q * ALIGN \in Nat /\ e * ALIGN \in Nat
      BY <1>2, <1>3, <2>2, <2>3, ProductLeq
    <3> QED BY <1>3, <2>1, <2>2, <3>1
  <2> QED BY <1>3, <2>2, <2>3 DEF q
<1>7. o + 2 < e + 1
  <2>1. ASSUME e <= o + 1 PROVE FALSE
    <3>1. e * ALIGN <= (o + 1) * ALIGN
      BY <1>2, <1>3, <2>1, ProductLeq
    <3> QED BY <1>1, <1>2, <1>3, <3>1
  <2> QED BY <1>3, <2>1
<1>8. e <= b
  <2>1. ASSUME b + 1 <= e PROVE FALSE
    <3>1. (b + 1) * ALIGN <= e * ALIGN
      BY <1>2, <1>3, <2>1, ProductLeq
    <3> QED BY <1>1, <1>2, <1>3, <3>1
  <2> QED BY <1>3, <2>1
<1>9. ASSUME NEW m \in DOMAIN recs, m < n PROVE Word(End(m)) <= o
  <2>1. End(m) \in Nat /\ End(m) <= Start(n)
    BY Zenon, <1>9, RecFacts DEF Tiling
  <2> DEFINE q == Word(End(m))
  <2>2. q \in Nat /\ q * ALIGN <= End(m)
    BY Zenon, <1>2, <2>1, DivFloor DEF Word
  <2> HIDE DEF q
  <2>3. ASSUME o + 1 <= q PROVE FALSE
    <3>1. (o + 1) * ALIGN <= q * ALIGN /\ q * ALIGN \in Nat
      BY <1>2, <1>3, <2>2, <2>3, ProductLeq
    <3> QED BY <1>1, <1>2, <1>3, <2>1, <2>2, <3>1
  <2> QED BY <1>3, <2>2, <2>3 DEF q
<1> QED BY Zenon, <1>3, <1>4, <1>5, <1>6, <1>7, <1>8, <1>9 DEF o, e, b

\* A task that holds the buffer is counted.
LEMMA HolderCounted ==
    ASSUME TypeInv, WritersCounted, NEW t \in Tasks, task[t].hold
    PROVE  st.writers > 0 /\ st.writers \in Nat
<1>1. IsFiniteSet(Holders) /\ t \in Holders
  <2>1. Holders \subseteq Tasks
    BY Zenon DEF Holders
  <2> QED BY Zenon, <2>1, TasksAssumption, FS_Subset DEF Holders
<1>2. Cardinality(Holders) # 0 /\ Cardinality(Holders) \in Nat
  BY Zenon, <1>1, FS_EmptySet, FS_CardinalityType
<1> QED BY <1>2 DEF WritersCounted, Holders, st

\* Once someone was told to flush, nobody holds the buffer and it is sealed.
LEMMA Quiet ==
    ASSUME TypeInv, WritersCounted, FlushToldOnce
    PROVE  /\ flushes # 0 => st.sealed /\ \A t \in Tasks : ~task[t].hold
           /\ (~st.sealed \/ \E t \in Tasks : task[t].hold) => flushes = 0
  BY HolderCounted DEF FlushToldOnce, Flushable, st

-----------------------------------------------------------------------------
(* The initial state, and steps that leave the buffer as it is *)

\* WriteBuffer::with_capacity establishes the invariant.
LEMMA InitInv == Init => Inv
<1> SUFFICES ASSUME Init PROVE Inv
  BY Zenon
<1> DEFINE s == [sealed |-> FALSE, writers |-> 0, allocated |-> 0]
<1>1. s \in StateType
  BY Constants DEF StateType
<1>2. word \in Nat /\ st = s
  BY Zenon, <1>1, LoadApply DEF Init, st
<1>3. TypeInv
  <2>1. iter \in IterType
    BY DEF Init, IterType
  <2>2. task \in [Tasks -> TaskType]
    BY Zenon DEF Init, Idle, TaskType
  <2>3. mem \in [0..(Word(BufSize) - 1) -> HeaderType]
    BY Zenon DEF Init, Uninit, HeaderType, Flags
  <2> QED BY <1>2, <2>1, <2>2, <2>3 DEF Init, TypeInv
<1>4. WritersCounted
  <2>1. {t \in Tasks : task[t].hold} = {}
    BY Zenon DEF Init, Idle
  <2> QED BY <2>1, <1>2, FS_EmptySet DEF WritersCounted, st
<1>5. FlushToldOnce
  BY <1>2 DEF Init, FlushToldOnce, Flushable, st
<1>6. Tiling
  <2>1. 0 % ALIGN = 0
    BY Constants
  <2> QED BY <2>1, <1>2, Constants DEF Init, Tiling
<1>7. (\A t \in Tasks : TaskInv(t)) /\ OwnerInv
  BY DEF Init, Idle, TaskInv, OwnerInv
<1>8. MemInv
  BY DEF Init, MemInv
<1>9. IterInv
  BY DEF Init, IterInv
<1> QED BY Zenon, <1>3, <1>4, <1>5, <1>6, <1>7, <1>8, <1>9 DEF Inv

\* A step of a task that changes neither the word nor the memory and that keeps or loses
\* what the task holds.
LEMMA TaskStep ==
    ASSUME Inv, UNCHANGED <<word, mem, recs, flushes, iter>>,
           NEW t \in Tasks, task' \in [Tasks -> TaskType],
           \A u \in Tasks \ {t} : task'[u] = task[u],
           task'[t].hold = task[t].hold, TaskInv(t)',
           \/ task'[t].mine = task[t].mine /\ task'[t].pc # "init" /\ task[t].pc # "init"
           \/ task'[t].mine = {} /\ task[t].pc # "init"
    PROVE  Inv'
<1>1. TypeInv'
  BY Zenon DEF Inv, TypeInv
<1>2. st' = st
  BY Zenon DEF st
<1>3. WritersCounted'
  <2>1. {u \in Tasks : task'[u].hold} = {u \in Tasks : task[u].hold}
    BY Zenon
  <2> QED BY Zenon, <1>2, <2>1 DEF Inv, WritersCounted, st
<1>4. FlushToldOnce'
  BY Zenon, <1>2 DEF Inv, FlushToldOnce, st
<1>5. Tiling'
  BY Zenon, <1>2 DEF Inv, Tiling, Start, End
<1>6. ASSUME NEW u \in Tasks PROVE TaskInv(u)'
  <2>1. CASE u # t
    BY Zenon, <2>1 DEF Inv, TaskInv
  <2> QED BY Zenon, <2>1
<1>7. OwnerInv'
  <2>1. \A u \in Tasks : task'[u].mine \subseteq task[u].mine
    BY Zenon
  <2>2. \A u, v \in Tasks : u # v => task'[u].mine \cap task'[v].mine = {}
    BY <2>1 DEF Inv, OwnerInv
  <2>3. ASSUME NEW u \in Tasks, NEW n \in task'[u].mine
        PROVE  /\ recs'[n].state # "dead"
               /\ recs'[n].state = "new" =>
                     /\ task'[u].pc = "init"
                     /\ \A m \in task'[u].mine : recs'[m].state = "new" => m = n
    BY <2>1, <2>3 DEF Inv, OwnerInv
  <2>4. ASSUME NEW n \in DOMAIN recs', recs'[n].state = "new"
        PROVE  recs'[n].id = NAN_ID /\ \E u \in Tasks : n \in task'[u].mine
    <3>1. recs[n].id = NAN_ID
      BY Zenon, <2>4 DEF Inv, OwnerInv
    <3>2. PICK u \in Tasks : n \in task[u].mine /\ task[u].pc = "init"
      BY <2>4 DEF Inv, OwnerInv
    <3>3. u # t
      BY Zenon, <3>2
    <3> QED BY Zenon, <3>1, <3>2, <3>3
  <2> QED BY Zenon, <2>2, <2>3, <2>4 DEF OwnerInv
<1>8. MemInv'
  BY DEF Inv, MemInv, Start
<1>9. IterInv'
  BY Zenon, <1>2 DEF Inv, IterInv, Start
<1> QED BY Zenon, <1>1, <1>3, <1>4, <1>5, <1>6, <1>7, <1>8, <1>9 DEF Inv

\* alloc_page and dealloc_pages load the word.
LEMMA StartAllocInv ==
    ASSUME Inv, NEW t \in Tasks, NEW kind \in {"page", "dealloc"}, NEW size \in Sizes,
           StartAlloc(t, kind, size)
    PROVE  Inv'
<1>1. task' \in [Tasks -> TaskType]
  <2>1. task[t] \in TaskType /\ word \in Nat /\ size \in Nat
    BY Zenon, Constants DEF Inv, TypeInv
  <2>2. [task[t] EXCEPT !.pc = "alloc", !.cur = word, !.kind = kind, !.size = size] \in TaskType
    BY <2>1, Zenon DEF TaskType
  <2>3. task' = [task EXCEPT ![t] = [task[t] EXCEPT !.pc = "alloc", !.cur = word, !.kind = kind, !.size = size]]
    BY ZenonT(60) DEF StartAlloc
  <2> QED BY Zenon, <2>2, <2>3 DEF Inv, TypeInv
<1>2. TaskInv(t)'
  BY DEF Inv, TypeInv, TaskInv, StartAlloc
<1> QED BY <1>1, <1>2, TaskStep DEF Inv, TypeInv, StartAlloc

\* alloc_size returns an error; the transaction is dropped.
LEMMA AllocFailsInv ==
    ASSUME Inv, NEW t \in Tasks, AllocFails(t)
    PROVE  Inv'
<1>1. task' \in [Tasks -> TaskType]
  <2>1. task[t] \in TaskType /\ word \in Nat
    BY Zenon DEF Inv, TypeInv
  <2>2. [task[t] EXCEPT !.pc = Failed(task[t]), !.cur = 0, !.size = 0] \in TaskType
    BY <2>1, Zenon DEF TaskType, Failed
  <2>3. task' = [task EXCEPT ![t] = [task[t] EXCEPT !.pc = Failed(task[t]), !.cur = 0, !.size = 0]]
    BY Zenon DEF AllocFails
  <2> QED BY Zenon, <2>2, <2>3 DEF Inv, TypeInv
<1>2. TaskInv(t)'
  BY DEF Inv, TypeInv, TaskInv, AllocFails, Failed
<1> QED BY <1>1, <1>2, TaskStep DEF Inv, TypeInv, AllocFails, Failed

\* commit leaves the records as they are and lets go of them.
LEMMA CommitInv ==
    ASSUME Inv, NEW t \in Tasks, Commit(t)
    PROVE  Inv'
<1>1. task' \in [Tasks -> TaskType]
  <2>1. task[t] \in TaskType /\ word \in Nat
    BY Zenon DEF Inv, TypeInv
  <2>2. [task[t] EXCEPT !.pc = "release", !.cur = word, !.mine = {}] \in TaskType
    BY <2>1, Zenon DEF TaskType
  <2>3. task' = [task EXCEPT ![t] = [task[t] EXCEPT !.pc = "release", !.cur = word, !.mine = {}]]
    BY Zenon DEF Commit
  <2> QED BY <2>2, <2>3 DEF Inv, TypeInv
<1>2. TaskInv(t)'
  BY DEF Inv, TypeInv, TaskInv, Commit
<1> QED BY <1>1, <1>2, TaskStep DEF Inv, TypeInv, Commit

\* seal loads the word.
LEMMA StartSealInv ==
    ASSUME Inv, NEW t \in Tasks, StartSeal(t)
    PROVE  Inv'
<1>1. task' \in [Tasks -> TaskType]
  <2>1. task[t] \in TaskType /\ word \in Nat
    BY Zenon DEF Inv, TypeInv
  <2>2. [task[t] EXCEPT !.pc = "seal", !.cur = word] \in TaskType
    BY <2>1, Zenon DEF TaskType
  <2>3. task' = [task EXCEPT ![t] = [task[t] EXCEPT !.pc = "seal", !.cur = word]]
    BY Zenon DEF StartSeal
  <2> QED BY <2>2, <2>3 DEF Inv, TypeInv
<1>2. TaskInv(t)'
  BY DEF Inv, TypeInv, TaskInv, StartSeal
<1> QED BY <1>1, <1>2, TaskStep DEF Inv, TypeInv, StartSeal

\* An exchange that fails: the task has loaded the word again.
LEMMA ReloadInv ==
    ASSUME Inv, NEW t \in Tasks, task[t].pc # "init",
           task' = [task EXCEPT ![t].cur = word], UNCHANGED <<word, mem, recs, flushes, iter>>
    PROVE  Inv'
<1>1. task' \in [Tasks -> TaskType]
  <2>1. task[t] \in TaskType /\ word \in Nat
    BY Zenon DEF Inv, TypeInv
  <2>2. [task[t] EXCEPT !.cur = word] \in TaskType
    BY Zenon, <2>1 DEF TaskType
  <2>3. task' = [task EXCEPT ![t] = [task[t] EXCEPT !.cur = word]]
    BY Zenon DEF Inv, TypeInv
  <2> QED BY Zenon, <2>2, <2>3 DEF Inv, TypeInv
<1>2. TaskInv(t)'
  BY DEF Inv, TypeInv, TaskInv
<1> QED BY <1>1, <1>2, TaskStep DEF Inv, TypeInv

-----------------------------------------------------------------------------
(* Exchanges of the word *)

\* A step that keeps the records, the memory and the allocated size, and that is taken
\* before anyone was told to flush.
LEMMA WordStep ==
    ASSUME Inv, UNCHANGED <<mem, recs, iter>>, flushes = 0, flushes' \in Nat,
           word' \in Nat, st'.allocated = st.allocated, WritersCounted', FlushToldOnce',
           NEW t \in Tasks, task' \in [Tasks -> TaskType],
           \A u \in Tasks \ {t} : task'[u] = task[u],
           task[t].mine = {}, task'[t].mine = {}, TaskInv(t)'
    PROVE  Inv'
<1>1. TypeInv'
  BY Zenon DEF Inv, TypeInv
<1>2. Tiling'
  BY Zenon DEF Inv, Tiling, Start, End
<1>3. ASSUME NEW u \in Tasks PROVE TaskInv(u)'
  <2>1. CASE u # t
    BY Zenon, <2>1 DEF Inv, TaskInv
  <2> QED BY Zenon, <2>1
<1>4. OwnerInv'
  <2>1. ASSUME NEW u \in Tasks PROVE task'[u].mine = task[u].mine
    <3>1. CASE u = t
      BY <3>1, Zenon
    <3>2. CASE u # t
      BY <3>2, Zenon
    <3> QED BY <3>1, <3>2, Zenon
  <2>2. \A u \in Tasks : \A n \in task[u].mine : task'[u] = task[u]
    BY Zenon
  <2> QED BY <2>1, <2>2 DEF Inv, OwnerInv
<1>5. MemInv'
  BY DEF Inv, MemInv, Start
<1>6. IterInv'
  <2>1. iter.offset = 0 /\ iter.items = <<>> /\ ~iter.end
    BY Zenon DEF Inv, IterInv
  <2>2. \A n \in DOMAIN recs : ~(Start(n) < 0)
    BY RecFacts DEF Inv
  <2> QED BY <2>1, <2>2 DEF IterInv, Start
<1> QED BY Zenon, <1>1, <1>2, <1>3, <1>4, <1>5, <1>6 DEF Inv

\* One task fewer holds the buffer.
LEMMA Released ==
    ASSUME Inv, NEW t \in Tasks, task[t].hold, task' = [task EXCEPT ![t] = Idle]
    PROVE  Cardinality({u \in Tasks : task'[u].hold}) = st.writers - 1
<1>1. {u \in Tasks : task'[u].hold} = Holders \ {t} /\ t \in Holders /\ Holders \subseteq Tasks
  BY Zenon DEF Inv, TypeInv, Holders, Idle
<1>2. IsFiniteSet(Holders)
  BY Zenon, <1>1, TasksAssumption, FS_Subset
<1>3. Cardinality(Holders \ {t}) = Cardinality(Holders) - 1
  BY <1>1, <1>2, FS_RemoveElement, Zenon
<1> QED BY <1>1, <1>3, Zenon DEF Inv, WritersCounted, Holders, st

\* One task more holds it; there are fewer tasks than the count has room for.
LEMMA Acquired ==
    ASSUME Inv, NEW t \in Tasks, ~task[t].hold, task' \in [Tasks -> TaskType],
           \A u \in Tasks \ {t} : task'[u] = task[u], task'[t].hold
    PROVE  /\ Cardinality({u \in Tasks : task'[u].hold}) = st.writers + 1
           /\ st.writers + 1 < HALF
<1>1. {u \in Tasks : task'[u].hold} = Holders \cup {t} /\ t \notin Holders /\ Holders \subseteq Tasks
  BY DEF Holders
<1>2. IsFiniteSet(Holders) /\ IsFiniteSet(Tasks) /\ Holders \cup {t} \subseteq Tasks
  BY Zenon, <1>1, TasksAssumption, FS_Subset
<1>3. Cardinality(Holders \cup {t}) = Cardinality(Holders) + 1
  BY <1>1, <1>2, FS_AddElement, Zenon
<1>4. /\ Cardinality(Holders \cup {t}) <= Cardinality(Tasks) /\ Cardinality(Tasks) \in Nat
      /\ Cardinality(Holders) \in Nat
  BY Zenon, <1>2, FS_Subset, FS_CardinalityType
<1>5. Cardinality(Holders) = st.writers
  BY Zenon DEF Inv, WritersCounted, Holders, st
<1>6. Cardinality({u \in Tasks : task'[u].hold}) = st.writers + 1
  BY <1>1, <1>3, <1>5, ZenonT(60)
<1> DEFINE a == Cardinality(Holders \cup {t})
           b == Cardinality(Tasks)
<1>7. a <= b /\ b < HALF /\ a = st.writers + 1 /\ b \in Nat /\ st.writers \in Nat
  BY Zenon, <1>3, <1>4, <1>5, TasksAssumption
<1> HIDE DEF a, b
<1>8. st.writers + 1 < HALF
  BY <1>7, Constants
<1> QED BY Zenon, <1>6, <1>8

\* A task that has ended
LEMMA IdleTask ==
    ASSUME TypeInv, NEW t \in Tasks, task' = [task EXCEPT ![t] = Idle]
    PROVE  /\ task' \in [Tasks -> TaskType] /\ TaskInv(t)'
           /\ \A u \in Tasks \ {t} : task'[u] = task[u]
           /\ task'[t].mine = {} /\ task'[t].hold = FALSE /\ task'[t].pc # "init"
<1>1. Idle \in TaskType
  BY Zenon DEF Idle, TaskType
<1>2. task'[t] = Idle
  BY Zenon DEF TypeInv
<1> QED BY Zenon, <1>1, <1>2 DEF TypeInv, TaskInv, Idle

\* release_writer counts a writer down, and tells to flush if it was the last.
LEMMA ReleaseInv ==
    ASSUME Inv, NEW t \in Tasks, ReleaseCas(t)
    PROVE  Inv'
<1> DEFINE s == Load(task[t].cur)
           new == [s EXCEPT !.writers = @ - 1]
<1>1. CASE word # task[t].cur
  BY Zenon, <1>1, ReloadInv DEF ReleaseCas
<1>2. CASE word = task[t].cur
  <2>1. s = st /\ st \in StateType /\ task[t].hold /\ task[t].mine = {}
    BY Zenon, <1>2, StateFacts DEF Inv, TaskInv, ReleaseCas
  <2>2. st.writers > 0 /\ flushes = 0
    BY <2>1, HolderCounted, Quiet DEF Inv
  <2>3. new \in StateType /\ new.writers = st.writers - 1 /\ new.allocated = st.allocated
    BY <2>1, <2>2, Constants DEF StateType
  <2>4. word' \in Nat /\ st' = new
    BY <1>2, <2>3, LoadApply DEF ReleaseCas, st
  <2>5. task' = [task EXCEPT ![t] = Idle]
    BY <1>2 DEF ReleaseCas
  <2>6. WritersCounted'
    BY <2>1, <2>3, <2>4, <2>5, Released, Zenon DEF WritersCounted, st
  <2>7. FlushToldOnce' /\ flushes' \in Nat
    BY <1>2, <2>2, <2>4 DEF ReleaseCas, ReleasedAs, FlushToldOnce, st
  <2>8. UNCHANGED <<mem, recs, iter>>
    BY Zenon DEF ReleaseCas
  <2> HIDE DEF new, s
  <2> QED BY <2>1, <2>2, <2>3, <2>4, <2>5, <2>6, <2>7, <2>8, WordStep, IdleTask, Zenon DEF Inv
<1> QED BY Zenon, <1>1, <1>2

\* seal sets the bit once, and tells to flush if there is no writer.
LEMMA SealInv ==
    ASSUME Inv, NEW t \in Tasks, SealCas(t)
    PROVE  Inv'
<1> DEFINE s == Load(task[t].cur)
           new == [s EXCEPT !.sealed = TRUE]
<1>0. ~task[t].hold /\ task[t].mine = {} /\ task[t].pc = "seal"
  BY Zenon DEF Inv, TaskInv, SealCas
<1>1. CASE s.sealed
  <2>1. task' = [task EXCEPT ![t] = Idle] /\ UNCHANGED <<word, mem, recs, flushes, iter>>
    BY Zenon, <1>1 DEF SealCas
  <2>2. task'[t].hold = task[t].hold /\ task'[t].mine = {}
    BY <1>0, <2>1, IdleTask, ZenonT(60) DEF Inv, TypeInv, TaskType
  <2> QED BY <1>0, <2>1, <2>2, TaskStep, IdleTask, Zenon DEF Inv
<1>2. CASE ~s.sealed /\ word # task[t].cur
  BY Zenon, <1>0, <1>2, ReloadInv DEF SealCas
<1>3. CASE ~s.sealed /\ word = task[t].cur
  <2>1. s = st /\ st \in StateType /\ ~st.sealed
    BY Zenon, <1>3, StateFacts DEF Inv
  <2>2. flushes = 0
    BY Zenon, <2>1, Quiet DEF Inv
  <2>3. /\ new \in StateType /\ new.writers = st.writers /\ new.allocated = st.allocated
        /\ new.sealed = TRUE
    BY <2>1, Zenon DEF StateType
  <2>4. word' \in Nat /\ st' = new
    BY <1>3, <2>3, LoadApply, Zenon DEF SealCas, st
  <2>5. task' = [task EXCEPT ![t] = Idle]
    BY Zenon, <1>3 DEF SealCas
  <2>6. WritersCounted'
    <3>1. {u \in Tasks : task'[u].hold} = {u \in Tasks : task[u].hold}
      BY Zenon, <1>0, <2>5 DEF Inv, TypeInv, Idle
    <3> QED BY <2>1, <2>3, <2>4, <3>1, Zenon DEF Inv, WritersCounted, st
  <2>7. FlushToldOnce' /\ flushes' \in Nat
    BY <1>3, <2>1, <2>2, <2>3, <2>4, StateFacts DEF SealCas, FlushToldOnce, Flushable, Inv, st
  <2>8. UNCHANGED <<mem, recs, iter>>
    BY Zenon DEF SealCas
  <2> HIDE DEF new, s
  <2> QED BY <1>0, <2>2, <2>3, <2>4, <2>5, <2>6, <2>7, <2>8, WordStep, IdleTask, Zenon DEF Inv
<1> QED BY Zenon, <1>1, <1>2, <1>3

\* Appending to a sequence
LEMMA AppendFacts ==
    ASSUME NEW S, NEW q \in Seq(S), NEW e \in S
    PROVE  /\ Append(q, e) \in Seq(S) /\ Len(Append(q, e)) = Len(q) + 1
           /\ Append(q, e)[Len(q) + 1] = e /\ Append(q, e) # <<>>
           /\ DOMAIN Append(q, e) = DOMAIN q \cup {Len(q) + 1}
           /\ DOMAIN Append(q, e) = 1 .. (Len(q) + 1)
           /\ Len(q) + 1 \notin DOMAIN q /\ Len(q) \in Nat
           /\ \A n \in DOMAIN q : Append(q, e)[n] = q[n] /\ n < Len(q) + 1
  OBVIOUS

\* Space for a record that fits
LEMMA Fits ==
    ASSUME Inv, NEW x \in Sizes, ~TooLarge(RecordSize(x)), ~Full(st, RecordSize(x))
    PROVE  /\ U32(st.allocated + Aligned(RecordSize(x))) = st.allocated + RecordSize(x)
           /\ st.allocated + RecordSize(x) <= BufSize
           /\ st.allocated + RecordSize(x) \in 0 .. (MOD - 1)
           /\ (st.allocated + RecordSize(x)) % ALIGN = 0
<1> DEFINE z == RecordSize(x)
           a == st.allocated
<1>1. z \in Nat /\ z % ALIGN = 0 /\ Aligned(z) = z
  BY Zenon, RecordSizes
<1>2. a \in Nat /\ a <= BufSize /\ a % ALIGN = 0
  BY Zenon, StateFacts DEF Inv, Tiling
<1>3. z <= BufSize
  BY <1>1, Constants DEF TooLarge
<1>4. BufSize = HALF => z # HALF
  BY Zenon, WholeBufferAssumption DEF Sizes
<1> HIDE DEF z, a
<1>5. a + z \in 0 .. (MOD - 1) /\ ALIGN \in Nat \ {0} /\ MOD \in Nat \ {0}
  BY <1>1, <1>2, <1>3, <1>4, Constants
<1>6. (a + z) % MOD = a + z
  BY Zenon, <1>5, ModSmall
<1>7. (a + z) % ALIGN = 0
  BY Zenon, <1>1, <1>2, <1>5, Multiple
<1>8. a + z <= BufSize
  <2>1. ~(U32(a + z) > BufSize)
    BY Zenon, <1>1 DEF Full, z, a
  <2> QED BY <2>1, <1>5, <1>6, Constants DEF U32
<1> QED BY Zenon, <1>1, <1>5, <1>6, <1>7, <1>8 DEF U32, z, a

\* alloc_size puts a record behind the last one.
LEMMA AllocInv ==
    ASSUME Inv, NEW t \in Tasks, AllocCas(t)
    PROVE  Inv'
<1> DEFINE s == Load(task[t].cur)
           need == RecordSize(task[t].size)
           new == [s EXCEPT !.allocated = U32(@ + Aligned(need)),
                            !.writers = IF Acquires(task[t]) THEN @ + 1 ELSE @]
           r == [offset |-> s.allocated, size |-> task[t].size,
                 kind |-> task[t].kind, state |-> "new", id |-> NAN_ID]
<1>1. CASE word # task[t].cur
  BY Zenon, <1>1, ReloadInv DEF AllocCas
<1>2. CASE word = task[t].cur
  <2>0. PICK k \in Nat \ {0} : k = Len(recs) + 1
    BY DEF Inv, TypeInv
  <2>1. s = st /\ st \in StateType /\ task[t].size \in Sizes /\ ~st.sealed
    BY <1>2, StateFacts DEF Inv, TaskInv, AllocCas
  <2>2. /\ U32(st.allocated + Aligned(need)) = st.allocated + need
        /\ st.allocated + need <= BufSize
        /\ st.allocated + need \in 0 .. (MOD - 1)
        /\ (st.allocated + need) % ALIGN = 0
    BY Zenon, <2>1, Fits DEF AllocCas
  <2>3. flushes = 0
    BY <2>1, Quiet DEF Inv
  <2>4. /\ word' = Apply(new) /\ recs' = Append(recs, r)
        /\ task' = [task EXCEPT ![t].pc = "init", ![t].cur = 0, ![t].hold = TRUE,
                                ![t].mine = @ \cup {k}]
        /\ UNCHANGED <<mem, flushes, iter>> /\ task[t].pc = "alloc"
    BY <1>2, <2>0, Zenon DEF AllocCas
  <2>5. /\ task' \in [Tasks -> TaskType] /\ \A u \in Tasks \ {t} : task'[u] = task[u]
        /\ task'[t].hold = TRUE /\ task'[t].pc = "init" /\ task'[t].mine = task[t].mine \cup {k}
    <3>1. task[t] \in TaskType /\ k \in Nat
      BY Zenon DEF Inv, TypeInv
    <3> DEFINE y == [task[t] EXCEPT !.pc = "init", !.cur = 0, !.hold = TRUE, !.mine = @ \cup {k}]
    <3>2. y \in TaskType
      BY <3>1, Zenon DEF TaskType
    <3>3. task' = [task EXCEPT ![t] = y]
      BY <2>4, Zenon
    <3> QED BY <3>1, <3>2, <3>3 DEF Inv, TypeInv, TaskType
  <2>6. st.writers = Cardinality({u \in Tasks : task[u].hold}) /\ task[t].hold \in BOOLEAN
    BY DEF Inv, WritersCounted, st, TypeInv, TaskType
  <2>7. /\ new \in StateType /\ new.allocated = st.allocated + need /\ ~new.sealed
        /\ new.writers = Cardinality({u \in Tasks : task'[u].hold})
    <3>1. new.allocated = st.allocated + need /\ new.sealed = st.sealed
      BY <2>1, <2>2 DEF StateType
    <3>2. CASE task[t].hold
      <4>1. {u \in Tasks : task'[u].hold} = {u \in Tasks : task[u].hold}
        BY Zenon, <2>5, <3>2
      <4>2. new.writers = st.writers
        BY Zenon, <2>1, <3>2 DEF StateType, Acquires
      <4> QED BY <2>1, <2>2, <2>6, <3>1, <4>1, <4>2, Zenon DEF StateType
    <3>3. CASE ~task[t].hold
      <4>1. /\ Cardinality({u \in Tasks : task'[u].hold}) = st.writers + 1
            /\ st.writers + 1 < HALF
        BY Zenon, <2>5, <3>3, Acquired
      <4>2. new.writers = st.writers + 1
        BY <2>1, <3>3 DEF StateType, Acquires
      <4>3. st.writers + 1 \in 0 .. (HALF - 1)
        BY <2>1, <4>1, Constants DEF StateType
      <4> QED BY <2>1, <2>2, <3>1, <4>1, <4>2, <4>3, ZenonT(60) DEF StateType
    <3> QED BY Zenon, <2>6, <3>2, <3>3
  <2>8. word' \in Nat /\ st' = new
    BY Zenon, <2>4, <2>7, LoadApply DEF st
  <2>9. /\ r \in RecType /\ r.offset = st.allocated /\ r.size = task[t].size
        /\ r.state = "new" /\ r.id = NAN_ID /\ st.allocated \in Nat
    BY <2>1, Constants DEF RecType, Inv, TypeInv, TaskType, StateType, NAN_ID
  <2>10. /\ recs' \in Seq(RecType) /\ Len(recs') = k /\ recs'[k] = r /\ recs' # <<>>
         /\ DOMAIN recs' = DOMAIN recs \cup {k} /\ k \notin DOMAIN recs
         /\ \A n \in DOMAIN recs : recs'[n] = recs[n] /\ n < k
         /\ k \in Nat \ {0}
    <3> HIDE DEF r
    <3>1. recs \in Seq(RecType)
      BY Zenon DEF Inv, TypeInv
    <3> QED BY <2>0, <2>4, <2>9, <3>1, AppendFacts
  <2> HIDE DEF s, new, r
  <2>11. TypeInv'
    BY Zenon, <2>4, <2>5, <2>8, <2>10 DEF Inv, TypeInv
  <2>12. WritersCounted' /\ FlushToldOnce'
    BY Zenon, <2>3, <2>4, <2>7, <2>8 DEF WritersCounted, FlushToldOnce, Flushable, st
  <2>13. /\ \A n \in DOMAIN recs : Start(n)' = Start(n) /\ End(n)' = End(n)
         /\ Start(k)' = st.allocated /\ End(k)' = st.allocated + need
         /\ need \in Nat
    BY <2>1, <2>9, <2>10, RecordSizes DEF Start, End
  <2>14. Tiling'
    <3> HIDE DEF need
    <3>1. st'.allocated % ALIGN = 0 /\ st'.allocated <= BufSize /\ st'.allocated = End(k)'
      BY Zenon, <2>2, <2>7, <2>8, <2>13
    <3>2. ASSUME NEW n \in DOMAIN recs
          PROVE  /\ Start(n)' % ALIGN = 0 /\ End(n)' <= st'.allocated
                 /\ End(n)' <= st.allocated
                 /\ Start(n)' = IF n = 1 THEN 0 ELSE End(n - 1)'
      <4>1. /\ Start(n) % ALIGN = 0 /\ End(n) <= st.allocated /\ End(n) \in Nat
            /\ Start(n) = IF n = 1 THEN 0 ELSE End(n - 1)
        BY Zenon, RecFacts DEF Inv, Tiling
      <4>2. n # 1 => n - 1 \in DOMAIN recs
        BY DEF Inv, TypeInv
      <4> QED BY <4>1, <4>2, <2>7, <2>8, <2>9, <2>13, SMTT(60)
    <3>3. Start(k)' % ALIGN = 0 /\ End(k)' <= st'.allocated
      BY <2>7, <2>8, <2>9, <2>13 DEF Inv, Tiling
    <3>4. Start(k)' = IF k = 1 THEN 0 ELSE End(k - 1)'
      <4>1. st.allocated = IF recs = <<>> THEN 0 ELSE End(Len(recs))
        BY Zenon DEF Inv, Tiling
      <4>2. recs = <<>> <=> k = 1
        BY <2>0 DEF Inv, TypeInv
      <4>3. k # 1 => k - 1 \in DOMAIN recs /\ k - 1 = Len(recs)
        BY <2>0 DEF Inv, TypeInv
      <4> QED BY <4>1, <4>2, <4>3, <2>13
    <3>5. ASSUME NEW m \in DOMAIN recs', NEW n \in DOMAIN recs', m < n
          PROVE  End(m)' <= Start(n)'
      <4>1. m \in DOMAIN recs
        <5>1. DOMAIN recs' = 1 .. k
          BY <2>10
        <5>2. m < k
          BY <5>1, <2>10, <3>5
        <5> QED BY <5>1, <5>2, <2>10
      <4>2. CASE n = k
        BY Zenon, <4>1, <4>2, <3>2, <2>13
      <4>3. CASE n \in DOMAIN recs
        BY Zenon, <4>1, <4>3, <3>5, <2>13 DEF Inv, Tiling
      <4> QED BY Zenon, <4>2, <4>3, <2>10
    <3> QED BY Zenon, <2>10, <3>1, <3>2, <3>3, <3>4, <3>5 DEF Tiling
  <2>15. ASSUME NEW u \in Tasks PROVE TaskInv(u)'
    <3>1. TaskInv(u) /\ TaskInv(t)
      BY Zenon DEF Inv
    <3>2. CASE u # t
      <4>1. task'[u] = task[u] /\ task[u].mine \subseteq DOMAIN recs
        BY Zenon, <2>5, <3>1, <3>2 DEF TaskInv
      <4> QED BY <3>1, <4>1, <2>10 DEF TaskInv
    <3>3. CASE u = t
      <4>1. task[t].mine \subseteq DOMAIN recs
        BY Zenon, <3>1 DEF TaskInv
      <4> QED BY Zenon, <3>3, <4>1, <2>5, <2>9, <2>10 DEF TaskInv
    <3> QED BY Zenon, <3>2, <3>3
  <2>16. OwnerInv'
    <3>1. \A u \in Tasks : task[u].mine \subseteq DOMAIN recs /\ k \notin task[u].mine
      BY Zenon, <2>10 DEF Inv, TaskInv
    <3>2. \A n \in task[t].mine : recs[n].state # "new"
      BY Zenon, <2>4 DEF Inv, OwnerInv
    <3>3. \A u, v \in Tasks : u # v => task'[u].mine \cap task'[v].mine = {}
      BY <2>5, <3>1 DEF Inv, OwnerInv
    <3>4. ASSUME NEW u \in Tasks, NEW n \in task'[u].mine
          PROVE  /\ recs'[n].state # "dead"
                 /\ recs'[n].state = "new" =>
                       /\ task'[u].pc = "init"
                       /\ \A m \in task'[u].mine : recs'[m].state = "new" => m = n
      <4>1. CASE u # t
        <5>1. task'[u] = task[u] /\ \A m \in task[u].mine : recs'[m] = recs[m]
          BY Zenon, <4>1, <3>1, <2>5, <2>10
        <5> QED BY <5>1, <3>4 DEF Inv, OwnerInv
      <4>2. CASE u = t
        <5>1. \A m \in task[t].mine : recs'[m] = recs[m]
          BY Zenon, <3>1, <2>10
        <5>2. \A m \in task[t].mine : recs[m].state # "dead"
          BY Zenon DEF Inv, OwnerInv
        <5> QED BY <4>2, <5>1, <5>2, <3>2, <3>4, <2>5, <2>9, <2>10
      <4> QED BY Zenon, <4>1, <4>2
    <3>5. ASSUME NEW n \in DOMAIN recs', recs'[n].state = "new"
          PROVE  recs'[n].id = NAN_ID /\ \E u \in Tasks : n \in task'[u].mine
      <4>1. CASE n = k
        BY Zenon, <4>1, <2>5, <2>9, <2>10
      <4>2. CASE n \in DOMAIN recs
        <5>1. recs[n].id = NAN_ID /\ \E u \in Tasks : n \in task[u].mine
          BY Zenon, <4>2, <3>5, <2>10 DEF Inv, OwnerInv
        <5> QED BY Zenon, <4>2, <5>1, <2>5, <2>10
      <4> QED BY Zenon, <4>1, <4>2, <2>10
    <3> QED BY Zenon, <3>3, <3>4, <3>5 DEF OwnerInv
  <2>17. MemInv'
    BY <2>4, <2>9, <2>10, <2>13 DEF Inv, MemInv
  <2>18. IterInv'
    <3>1. iter.offset = 0 /\ iter.items = <<>> /\ ~iter.end
      BY Zenon, <2>3 DEF Inv, IterInv
    <3>2. \A n \in DOMAIN recs' : recs'[n].state = "live" => ~(Start(n)' < 0)
      BY <2>9, <2>10, <2>13, RecFacts DEF Inv
    <3> QED BY <2>4, <3>1, <3>2 DEF IterInv
  <2> QED BY Zenon, <2>11, <2>12, <2>14, <2>15, <2>16, <2>17, <2>18 DEF Inv
<1> QED BY Zenon, <1>1, <1>2

=============================================================================
