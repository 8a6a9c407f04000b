------------------------- MODULE MCLockupPrecompile --------------------------
(* Two accounts that call the precompile for themselves and for each other, in
   read-only mode too, beside a few messages of Cosmos transactions.                             *)
EXTENDS LockupPrecompile

CONSTANTS a1, a2, v1

MCAddr == {a1, a2}
MCVal  == {v1}
MCInitBank == [a \in MCAddr |-> IF a = a1 THEN 2 ELSE 0]
MCInitDel  == [a \in MCAddr |-> [v \in MCVal |-> IF a = a1 THEN 2 ELSE 1]]

LockCall(b, a, d, n, r) == [caller |-> b, method |-> "lock", readonly |-> r,
                            addr |-> a, date |-> d, amt |-> n]
ExtendCall(b, a, d, e)  == [caller |-> b, method |-> "extend", readonly |-> FALSE,
                            addr |-> a, exts |-> <<[from |-> d, to |-> e, amt |-> 1]>>]
SendCall(b, a, d, n, r) == [caller |-> b, method |-> "sendDelegateAndLock",
                            readonly |-> r, to |-> a, val |-> v1, date |-> d,
                            amt |-> n]

MCCalls ==
    {LockCall(b, a, 1, 1, r) : a \in MCAddr, b \in MCAddr, r \in BOOLEAN}
    \cup {LockCall(a1, a1, 2, n, FALSE) : n \in {0, 2}}
    \cup {ExtendCall(b, a, 1, 2) : a \in MCAddr, b \in MCAddr}
    \cup {SendCall(b, a, 2, n, FALSE) : a \in MCAddr, b \in MCAddr, n \in 0 .. 1}
    \cup {SendCall(a1, a2, 2, 1, TRUE)}
    \cup {[caller |-> a1, method |-> "locks", readonly |-> TRUE, addr |-> a2]}

MCTxs ==
    {[route |-> "cosmos", msgs |-> <<m>>] : m \in
        {[type |-> "Undelegate", addr |-> a1, val |-> v1, amt |-> 1],
         [type |-> "Send", from |-> a1, to |-> a2, amt |-> 1]}}
==============================================================================
