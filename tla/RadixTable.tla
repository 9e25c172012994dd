------------------------------ MODULE RadixTable ------------------------------
(***************************************************************************)
(* The radix levels under the page table (page_store/page_table.rs): three *)
(* arrays of one, two and three levels whose inner nodes are installed by  *)
(* the first thread that needs them.  PageTable treats the words they lead *)
(* to as one array; this module shows that it may.                         *)
(***************************************************************************)
EXTENDS Integers, FiniteSets, Sequences

CONSTANTS
    Threads,
    Fanout,   \* FANOUT, 2^16 in the code
    Ids,      \* the ids that are used, among 0 .. L2Fanout - 1
    Addrs,    \* the addresses that are stored
    MaxNodes, \* bound on the nodes ever allocated
    MaxCalls  \* bound on the calls

ASSUME FanoutAssumption == Fanout \in Nat \ {0, 1}

L0Fanout == Fanout
L1Fanout == L0Fanout * Fanout
L2Fanout == L1Fanout * Fanout

ASSUME IdsAssumption == Ids \subseteq 0 .. (L2Fanout - 1) /\ 0 \in Addrs

ASSUME BoundAssumption == MaxNodes \in Nat

VARIABLES
    slots,   \* words and pointers that are not zero: <<node, position>> to content
    used,    \* how many nodes were allocated; they are numbered from 1
    frees,   \* how many times each node was dropped
    thread,  \* the call each thread is in
    answer,  \* its last call with the address it saw, <<>> during a call
    calls,   \* calls begun
    dropped  \* whether the table was dropped

vars == <<slots, used, frees, thread, answer, calls, dropped>>

\* The three roots are fields of Inner and are numbered 0, -1 and -2.
Root(level) == 0 - level
Nodes == 1 .. MaxNodes
Idle == [pc |-> "idle"]

\* What is at position i of node n; nodes are zeroed when they are allocated.
At(n, i) == IF <<n, i>> \in DOMAIN slots THEN slots[<<n, i>>] ELSE 0

\* The positions on the way to a word: i = index / fanout, then j = index % fanout.
PathL0(index) == <<index>>
PathL1(index) == <<index \div L0Fanout>> \o PathL0(index % L0Fanout)
PathL2(index) == <<index \div L1Fanout>> \o PathL1(index % L1Fanout)

\* L1 and L2 each lack the ids of the level below.
Start(id) ==
    IF id < L0Fanout THEN [node |-> Root(0), path |-> PathL0(id)]
    ELSE IF id < L1Fanout THEN [node |-> Root(1), path |-> PathL1(id - L0Fanout)]
    ELSE [node |-> Root(2), path |-> PathL2(id - L1Fanout)]

\* The lengths of the arrays: roots of L1 and L2 have one entry less.
Length(n) == IF n \in {Root(1), Root(2)} THEN Fanout - 1 ELSE Fanout

Init ==
    /\ slots = <<>> /\ used = 0 /\ frees = [n \in Nodes |-> 0]
    /\ thread = [t \in Threads |-> Idle]
    /\ answer = [t \in Threads |-> <<>>]
    /\ calls = 0 /\ dropped = FALSE

Goes(t, to) == thread' = [thread EXCEPT ![t] = to]

\* Callers of cas replace an address by another one.
Ops ==
    [kind : {"get"}] \cup [kind : {"set"}, new : Addrs]
    \cup {op \in [kind : {"cas"}, old : Addrs, new : Addrs] : op.old # op.new}

Call(t, id, op) ==
    /\ thread[t] = Idle /\ ~dropped /\ calls < MaxCalls
    /\ calls' = calls + 1
    /\ LET s == Start(id) IN
       Goes(t, [pc |-> "index", id |-> id, op |-> op, node |-> s.node, path |-> s.path, child |-> 0])
    /\ answer' = [answer EXCEPT ![t] = <<>>]
    /\ UNCHANGED <<slots, used, frees, dropped>>

\* The pointer that a thread in an inner node is about to use.
Pointer(t) == At(thread[t].node, Head(thread[t].path))

\* The thread goes on in child c of its node.
Below(t, c) == Goes(t, [thread[t] EXCEPT !.pc = "index", !.node = c, !.path = Tail(@), !.child = 0])

\* One level of index(): the pointer is loaded and followed, ...
Descend(t) ==
    /\ thread[t].pc = "index" /\ Len(thread[t].path) > 1
    /\ Pointer(t) # 0
    /\ Below(t, Pointer(t))
    /\ UNCHANGED <<slots, used, frees, answer, calls, dropped>>

\* ... or it is null, and a child is allocated to be installed.
Allocate(t) ==
    /\ thread[t].pc = "index" /\ Len(thread[t].path) > 1
    /\ Pointer(t) = 0
    /\ used < MaxNodes
    /\ used' = used + 1
    /\ Goes(t, [thread[t] EXCEPT !.pc = "install", !.child = used + 1])
    /\ UNCHANGED <<slots, frees, answer, calls, dropped>>

Put(n, i, v) == slots' = [s \in DOMAIN slots \cup {<<n, i>>} |-> IF s = <<n, i>> THEN v ELSE slots[s]]
Frees(n) == frees' = [frees EXCEPT ![n] = @ + 1]

\* What follows the compare_exchange of install_or_acquire_child when it fails: the
\* child is dropped and the current one is used.
GoesOnInOwnChild(t) == Below(t, thread[t].child) /\ UNCHANGED frees
DropsNothing(t) == Below(t, Pointer(t)) /\ UNCHANGED frees
Lost(t) == Below(t, Pointer(t)) /\ Frees(thread[t].child)

InstallOrAcquire(t) ==
    /\ thread[t].pc = "install"
    /\ \/ /\ Pointer(t) = 0
          /\ Put(thread[t].node, Head(thread[t].path), thread[t].child)
          /\ Below(t, thread[t].child)
          /\ UNCHANGED frees
       \/ /\ Pointer(t) # 0
          /\ Lost(t)
          /\ UNCHANGED slots
    /\ UNCHANGED <<used, answer, calls, dropped>>

\* The atomic operation of get, set or cas on the word that index() returned.
Access(t) ==
    LET op == thread[t].op
        i == Head(thread[t].path)
        word == At(thread[t].node, i)
    IN  /\ thread[t].pc = "index" /\ Len(thread[t].path) = 1
        /\ answer' = [answer EXCEPT ![t] = <<thread[t].id, op, word>>]
        /\ IF op.kind = "set" \/ (op.kind = "cas" /\ op.old = word)
           THEN Put(thread[t].node, i, op.new)
           ELSE UNCHANGED slots
        /\ Goes(t, Idle)
        /\ UNCHANGED <<used, frees, calls, dropped>>

\* The nodes under n.  Depth is at most two below a root.
Children(n) == {At(n, i) : i \in 0 .. (Length(n) - 1)} \ {0}
Owned == LET inner == Children(Root(2)) IN Children(Root(1)) \cup inner \cup UNION {Children(n) : n \in inner}

\* The last Arc<Inner> goes: each level drops its children.
Drop ==
    /\ ~dropped /\ \A t \in Threads : thread[t] = Idle
    /\ dropped' = TRUE
    /\ frees' = [n \in Nodes |-> IF n \in Owned THEN frees[n] + 1 ELSE frees[n]]
    /\ UNCHANGED <<slots, used, thread, answer, calls>>

Next ==
    \/ Drop
    \/ \E t \in Threads :
         \/ \E id \in Ids, op \in Ops : Call(t, id, op)
         \/ Descend(t)
         \/ Allocate(t)
         \/ InstallOrAcquire(t)
         \/ Access(t)

Spec == Init /\ [][Next]_vars
-------------------------------------------------------------------------------
\* The type invariant of the table: slots hold nodes or addresses, and threads are
\* between calls, on the way to a word, or about to install a child.
TypeOK ==
    /\ \A s \in DOMAIN slots : s[2] \in 0 .. (Length(s[1]) - 1) /\ slots[s] \in Nodes \cup Addrs
    /\ used \in 0 .. MaxNodes /\ calls \in 0 .. MaxCalls /\ dropped \in BOOLEAN
    /\ frees \in [Nodes -> Nat]
    /\ \A t \in Threads : answer[t] = <<>> \/ (thread[t] = Idle /\ answer[t][3] \in Addrs)
    /\ \A t \in Threads : thread[t].pc \in {"idle", "index", "install"}

\* index() stays within the arrays, the shorter roots included, so its "[i as usize]"
\* never panics, whatever the level the id belongs to.
InBounds ==
    \A t \in Threads : thread[t] # Idle => Head(thread[t].path) \in 0 .. (Length(thread[t].node) - 1)

\* Every child that install_or_acquire_child allocates is owned by exactly one place: a
\* pointer of the table or the thread that is about to install it.  One that lost the
\* race is dropped once, no thread walks through it, and Drop leaves nothing behind.
ChildrenOwned ==
    LET held == {thread[t].child : t \in {u \in Threads : thread[u] # Idle}} \ {0}
    IN  /\ \A n \in 1 .. used : frees[n] = (IF dropped \/ n \notin Owned \cup held THEN 1 ELSE 0)
        /\ \A t \in Threads : thread[t] # Idle => thread[t].node \in Owned \cup {Root(0), Root(1), Root(2)}

\* The address at the end of the path of an id; 0 while a node on the path is missing.
Word(id) ==
    LET s == Start(id)
        n1 == At(s.node, s.path[1])
        n2 == At(n1, s.path[2])
    IN  CASE Len(s.path) = 1 -> n1
          [] Len(s.path) = 2 -> IF n1 = 0 THEN 0 ELSE n2
          [] OTHER -> IF n1 = 0 \/ n2 = 0 THEN 0 ELSE At(n2, s.path[3])

Promise == INSTANCE AddressMap WITH addr <- [id \in Ids |-> Word(id)]

\* get, set and cas behave as on one array of independent words: no two ids share a
\* word, an installation loses no store, and every call takes effect at its access.
KeepsAddresses == Promise!Spec
===============================================================================
