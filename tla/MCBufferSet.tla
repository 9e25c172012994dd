---------------------------- MODULE MCBufferSet ----------------------------
(* Model checking of BufferSet. *)
EXTENDS BufferSet, TLC

\* Tasks are interchangeable; sound for the safety runs.
Symmetry == Permutations(Tasks)

\* The FlushOptions in use: all, only flushes that may stall, the default, none.
AllFlushOps == Ops
StallingFlushOps == {[wait |-> TRUE, allowStall |-> TRUE]}
DefaultFlushOps == {[wait |-> TRUE, allowStall |-> FALSE]}
NoFlushOps == {}
=============================================================================
