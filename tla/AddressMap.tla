------------------------------ MODULE AddressMap ------------------------------
(***************************************************************************)
(* What page_table.rs promises of get, set and cas: one register per page  *)
(* id, each call taking effect at one instant.                             *)
(***************************************************************************)
CONSTANTS Threads, Ids, Ops

VARIABLES
    addr,  \* the address each id maps to, 0 when it maps to none
    answer \* the last call of each thread with the address it saw, <<>> during a call

vars == <<addr, answer>>

Init == addr = [id \in Ids |-> 0] /\ answer = [t \in Threads |-> <<>>]

Begin(t) == answer' = [answer EXCEPT ![t] = <<>>] /\ UNCHANGED addr

Return(t, id, op) ==
    /\ answer[t] = <<>>
    /\ answer' = [answer EXCEPT ![t] = <<id, op, addr[id]>>]
    /\ addr' = CASE op.kind = "get" -> addr
                 [] op.kind = "set" -> [addr EXCEPT ![id] = op.new]
                 [] op.kind = "cas" -> IF addr[id] = op.old THEN [addr EXCEPT ![id] = op.new] ELSE addr

Next == \E t \in Threads : Begin(t) \/ \E id \in Ids, op \in Ops : Return(t, id, op)

Spec == Init /\ [][Next]_vars
===============================================================================
