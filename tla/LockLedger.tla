----------------------------- MODULE LockLedger ------------------------------
(***************************************************************************)
(* What x/lockup promises about the locks, without lists, queue, staking   *)
(* or messages: a ledger of amounts per account and unlock date.  Amounts  *)
(* are added for dates ahead, within the horizon; an amount already in the *)
(* ledger can be moved to a later date ahead and to nothing else.  Changes *)
(* collect in a draft that is published or dropped as a whole.             *)
(***************************************************************************)
EXTENDS Integers

CONSTANTS Addr, Date, Amount, Horizon

VARIABLES ledger,  \* published: amount per account and date
          draft,   \* the ledger as the running transaction sees it
          today

vars == <<ledger, draft, today>>

Ahead(date) == today < date /\ date <= today + Horizon

Record(addr, date, n) ==
    /\ n > 0
    /\ Ahead(date)
    /\ draft' = [draft EXCEPT ![addr][date] = @ + n]
    /\ UNCHANGED <<ledger, today>>

MoveLater(addr, from, to, n) ==
    /\ n > 0
    /\ n <= draft[addr][from]
    /\ from < to
    /\ Ahead(to)
    /\ draft' = [draft EXCEPT ![addr][from] = @ - n, ![addr][to] = @ + n]
    /\ UNCHANGED <<ledger, today>>

Publish == ledger' = draft /\ UNCHANGED <<draft, today>>
Drop    == draft' = ledger /\ UNCHANGED <<ledger, today>>

NewDay ==
    /\ draft = ledger
    /\ today' = today + 1
    /\ UNCHANGED <<ledger, draft>>

Init ==
    /\ ledger = [addr \in Addr |-> [date \in Date |-> 0]]
    /\ draft = ledger
    /\ today = 0

Next ==
    \/ \E addr \in Addr, date \in Date, n \in Amount : Record(addr, date, n)
    \/ \E addr \in Addr, from \in Date, to \in Date, n \in Amount :
            MoveLater(addr, from, to, n)
    \/ Publish
    \/ Drop
    \/ NewDay

Spec == Init /\ [][Next]_vars
==============================================================================
