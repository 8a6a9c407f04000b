---------------------------- MODULE MCLockupStore ----------------------------
(* Locks and extensions of two accounts, on both routes: the lock lists, the
   expiration queue, and the ledger they implement.                          *)
EXTENDS Lockup

CONSTANTS a1, a2, v1

MCAddr == {a1, a2}
MCVal  == {v1}
MCInitBank == [a \in MCAddr |-> 0]
MCInitDel  == [a \in MCAddr |-> [v \in MCVal |-> IF a = a1 THEN 2 ELSE 1]]

LockMsg(a, d, n)  == [type |-> "Lock", addr |-> a, date |-> d, amt |-> n]
Ext(d, e, n)      == [from |-> d, to |-> e, amt |-> n]
ExtendMsg(a, es)  == [type |-> "Extend", addr |-> a, exts |-> es]
Tx(r, ms)         == [route |-> r, msgs |-> ms]

\* Locks, single extensions to and from every date, among them ones that
\* ValidateBasic refuses, chains of two extensions, and a lock extended at
\* once; the second account takes part with amounts of 1, and the precompile
\* with a lock and a refused extension.
MCTxs ==
    {Tx("cosmos", <<LockMsg(a1, d, n)>>) : d \in Date \ {0}, n \in 1 .. 2}
    \cup {Tx("evm", <<LockMsg(a2, 2, 1)>>)}
    \cup {Tx("cosmos", <<ExtendMsg(a1, <<Ext(d, e, n)>>)>>) :
             d \in 1 .. 3, e \in 1 .. 4, n \in 0 .. 2}
    \cup {Tx("cosmos", <<ExtendMsg(a1, <<Ext(1, 2, 1), Ext(2, f, n)>>)>>) :
             f \in 1 .. 4, n \in 1 .. 2}
    \cup {Tx(r, <<ExtendMsg(a2, <<Ext(2, 3, 1)>>)>>) : r \in {"cosmos", "evm"}}
    \cup {Tx("cosmos", <<LockMsg(a1, 1, 1), ExtendMsg(a1, <<Ext(1, 2, 1)>>)>>)}
==============================================================================
