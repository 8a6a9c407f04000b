--------------------------- MODULE MCLockupQueries ---------------------------
(* Readers with small pages, while two accounts lock and extend and a day
   passes.                                                                   *)
EXTENDS LockupQueries

CONSTANTS v1

MCAddr == {1, 2}
MCVal  == {v1}
MCInitBank == [a \in MCAddr |-> 0]
MCInitDel  == [a \in MCAddr |-> [v \in MCVal |-> IF a = 1 THEN 3 ELSE 1]]

LockMsg(a, d)    == [type |-> "Lock", addr |-> a, date |-> d, amt |-> 1]
Extend(a, d, e)  == [type |-> "Extend", addr |-> a,
                     exts |-> <<[from |-> d, to |-> e, amt |-> 1]>>]
MCMessages ==
    {LockMsg(1, d) : d \in 1 .. 3} \cup {LockMsg(2, 1), LockMsg(2, 2)}
    \cup {Extend(1, 1, 2), Extend(1, 1, 3), Extend(2, 1, 2)}

MCTxs == {[route |-> "cosmos", msgs |-> <<m>>] : m \in MCMessages}
==============================================================================
