--------------------------- MODULE MCLockupStaking ---------------------------
(* A locked account and a second one that shares its validators: delegating,
   undelegating, redelegating and sending on both routes, to oneself and to
   the other, while the first validator may be slashed.                      *)
EXTENDS Lockup

CONSTANTS a1, a2, v1, v2

MCAddr == {a1, a2}
MCVal  == {v1, v2}
MCInitBank == [a \in MCAddr |-> IF a = a1 THEN 1 ELSE 0]
MCInitDel  == [a \in MCAddr |->
                 [v \in MCVal |-> IF a = a1 THEN (IF v = v1 THEN 2 ELSE 0)
                                  ELSE (IF v = v1 THEN 1 ELSE 0)]]

Stake(t, a, v, n)       == [type |-> t, addr |-> a, val |-> v, amt |-> n]
Redelegate(a, v, w, n)  == [type |-> "BeginRedelegate", addr |-> a, src |-> v,
                            dst |-> w, amt |-> n]
SendMsg(a, b, n)        == [type |-> "Send", from |-> a, to |-> b, amt |-> n]
LockMsg(a, d, n)        == [type |-> "Lock", addr |-> a, date |-> d, amt |-> n]
ExtendMsg(a, d, e, n) ==
    [type |-> "Extend", addr |-> a, exts |-> <<[from |-> d, to |-> e, amt |-> n]>>]
Out(b, v, d, n)         == [to |-> b, val |-> v, date |-> d, amt |-> n]
Multi(a, t, os)         == [type |-> "MultiSendDelegateAndLock", from |-> a,
                            total |-> t, outs |-> os]
SendAndLock(a, o) ==
    [type |-> "SendDelegateAndLock", from |-> a, to |-> o.to, val |-> o.val,
     date |-> o.date, amt |-> o.amt]

\* Totals that match the outputs and ones that do not; the sender is one of
\* the receivers.
Multis ==
    {Multi(a1, t, <<Out(a1, v2, 2, 1), Out(a2, v1, 1, 1)>>) : t \in 1 .. 2}
    \cup {Multi(a1, t, <<>>) : t \in 0 .. 1}

Single ==
    {LockMsg(a1, 1, 2), ExtendMsg(a1, 1, 2, 1)}
    \cup {Stake("Delegate", a1, v1, 1), Stake("Undelegate", a2, v1, 1)}
    \cup {Stake("Undelegate", a1, v, 1) : v \in MCVal}
    \cup {Redelegate(a1, v1, v2, 2)}
    \cup {SendMsg(a1, a2, 1), SendAndLock(a1, Out(a2, v1, 1, 1))}
    \cup Multis

MCTxs ==
    {[route |-> "cosmos", msgs |-> <<m>>] : m \in Single}
    \cup {[route |-> "evm", msgs |-> <<m>>] :
             m \in {Redelegate(a1, v1, v2, 1), SendAndLock(a1, Out(a2, v2, 1, 1))}}
    \cup {[route |-> "cosmos",
           msgs |-> <<Redelegate(a1, v1, v2, 1), Stake("Undelegate", a1, v, 1)>>] :
             v \in MCVal}
    \cup {[route |-> "cosmos",
           msgs |-> <<Redelegate(a1, v2, v1, 1), Redelegate(a1, v1, v2, 1)>>]}

\* Extending a lock after its date, with the delegation already withdrawn.
ReviveTxs ==
    {[route |-> "cosmos", msgs |-> <<m>>] :
        m \in {LockMsg(a1, 1, 2), ExtendMsg(a1, 1, 2, 2),
               Stake("Undelegate", a1, v1, 2)}}

\* An undelegation behind a redelegation from the same validator.
MarkedTxs ==
    {[route |-> "cosmos", msgs |-> <<LockMsg(a1, 1, 2)>>],
     [route |-> "cosmos", msgs |-> <<Stake("Undelegate", a1, v1, 1)>>],
     [route |-> "cosmos",
      msgs |-> <<Redelegate(a1, v1, v2, 1), Stake("Undelegate", a1, v1, 1)>>]}
==============================================================================
