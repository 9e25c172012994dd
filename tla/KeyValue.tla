------------------------------ MODULE KeyValue ------------------------------
(***************************************************************************)
(* What a table promises its users: a map from keys to versions, read at a *)
(* log sequence number (raw/table.rs).  content[k][l] is what a read of    *)
(* key k at LSN l returns.  Reads at LSNs below the safe LSN are not       *)
(* promised, so their content is forgotten.  A write makes one version of  *)
(* one key visible to all LSNs from its own on; nothing else changes what  *)
(* any read returns.                                                       *)
(***************************************************************************)
EXTENDS Integers

CONSTANTS
    Keys,      \* user keys
    MaxLsn,    \* bound: the largest LSN
    Nothing    \* the answer for a key without a value

VARIABLES
    content,   \* key -> LSN -> answer
    safe       \* the safe LSN

kv == <<content, safe>>

\* The answers that are still promised when the safe LSN is s.
Promised(answers, s) == [l \in 0..MaxLsn |-> IF l < s THEN Nothing ELSE answers[l]]

Init ==
    /\ safe = 0
    /\ \A k \in Keys, l \in 1..MaxLsn : content[k][l] = content[k][0]

\* Table::put and Table::delete: `answer` is what later reads return.
Write(k, lsn, answer) ==
    /\ content' = [content EXCEPT ![k] =
          Promised([l \in 0..MaxLsn |-> IF l < lsn THEN @[l] ELSE answer], safe)]
    /\ UNCHANGED safe

\* Table::set_safe_lsn.
Advance(s) ==
    /\ s > safe
    /\ safe' = s
    /\ content' = [k \in Keys |-> Promised(content[k], s)]

\* A put of key k at this LSN is read back as itself, a delete as nothing.
Next ==
    \/ \E k \in Keys, lsn \in 1..MaxLsn :
          \E a \in {Nothing, content'[k][MaxLsn]} :
             /\ a = Nothing \/ a.lsn = lsn
             /\ Write(k, lsn, a)
    \/ \E s \in 1..MaxLsn : Advance(s)

Spec == Init /\ [][Next]_kv
=============================================================================
