------------------------------ MODULE LockStore ------------------------------
(***************************************************************************)
(* The two key families of the x/lockup store, as pure operators.          *)
(*                                                                         *)
(*  - locks_by_address: per account one list of locks, kept in the order   *)
(*    of their unlock dates (locks_by_address_store.go);                   *)
(*  - locks_by_date, the "expiration queue": one amount per (unlock date,  *)
(*    account), an absent key being an absent entry                        *)
(*    (locks_by_date_store.go).                                            *)
(*                                                                         *)
(* A date is the number of its day.  The code compares the YYYY-MM-DD      *)
(* strings in one family and Unix times in the other; time.Parse with      *)
(* time.DateOnly accepts fixed-width dates only, so both orders and both   *)
(* equalities are those of the day numbers.                                *)
(***************************************************************************)
EXTENDS Integers, Sequences, FiniteSets, SequencesExt, Functions

\* A lock as types.Lock stores it.
Lock == [date : Nat, amount : Nat]

IsLocked(blockDay, date) == blockDay < date

\* GetLockByAddressAndDate: the index of the first lock with that date, 0
\* (the code's -1) when there is none.
LockIndex(list, date) == SelectInSeq(list, LAMBDA l : l.date = date)

\* GetLockedAmountByAddress: only locks whose date is still ahead count.
LockedAmount(list, blockDay) ==
    SumFunctionOnSet([i \in DOMAIN list |-> list[i].amount],
                     {i \in DOMAIN list : IsLocked(blockDay, list[i].date)})

\* The order SetLockByAddress keeps a list in: by date, one lock per date.
Ordered(list) ==
    \A i, j \in DOMAIN list : i < j => list[i].date < list[j].date

\* A faulty SetLockByAddress that puts every new lock at the end.
SetLock_Append(list, lock) == Append(list, lock)

\* SetLockByAddress: in front of the first lock with a later date, else last.
SetLock(list, lock) ==
    LET later == SelectInSeq(list, LAMBDA l : lock.date < l.date)
    IN  IF later = 0 THEN Append(list, lock) ELSE InsertAt(list, later, lock)

\* UpdateLockByAddressAndIndex, with the amount changed by n.
AdjustLock(list, i, n) ==
    ReplaceAt(list, i, [date |-> list[i].date, amount |-> list[i].amount + n])

\* The merge-or-insert that Lock and Extend share.
CreditLock(list, date, n) ==
    LET i == LockIndex(list, date)
    IN  IF i # 0 THEN AdjustLock(list, i, n)
                 ELSE SetLock(list, [date |-> date, amount |-> n])

\* The debit of Extend: an emptied lock is deleted, any other one reduced.
DebitLock(list, date, n) ==
    LET i == LockIndex(list, date)
    IN  IF list[i].amount = n THEN RemoveAt(list, i) ELSE AdjustLock(list, i, -n)

\* A faulty AddToExpirationQueue that overwrites the entry.
AddToExpirationQueue_Overwrite(queue, date, addr, n) ==
    [k \in DOMAIN queue \cup {<<date, addr>>} |->
        IF k = <<date, addr>> THEN n ELSE queue[k]]

AddToExpirationQueue(queue, date, addr, n) ==
    LET key == <<date, addr>>
    IN  [k \in DOMAIN queue \cup {key} |->
            IF k # key THEN queue[k]
            ELSE IF key \in DOMAIN queue THEN queue[key] + n ELSE n]

\* RemoveFromExpirationQueue fails only when the entry is too small: a
\* missing entry is silently accepted.
CanRemoveFromExpirationQueue(queue, date, addr, n) ==
    <<date, addr>> \in DOMAIN queue => queue[<<date, addr>>] >= n

RemoveFromExpirationQueue(queue, date, addr, n) ==
    LET key == <<date, addr>>
    IN  CASE key \notin DOMAIN queue -> queue
          [] key \in DOMAIN queue /\ queue[key] = n ->
                Restrict(queue, DOMAIN queue \ {key})
          [] OTHER -> [queue EXCEPT ![key] = @ - n]

\* What one account has recorded for one date in each family.
AmountInList(list, date) ==
    LET i == LockIndex(list, date) IN IF i = 0 THEN 0 ELSE list[i].amount

AmountInQueue(queue, date, addr) ==
    IF <<date, addr>> \in DOMAIN queue THEN queue[<<date, addr>>] ELSE 0
==============================================================================
