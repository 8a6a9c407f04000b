---------------------------- MODULE LockupQueries ----------------------------
(***************************************************************************)
(* The queries of x/lockup beside the transactions: every request is       *)
(* answered from the committed store of its moment, so a client that reads *)
(* page by page sees a different store on each page.                       *)
(*                                                                         *)
(* ActiveLocks continues from a store key, Locks from an offset into the   *)
(* active locks of one account.                                            *)
(***************************************************************************)
EXTENDS Lockup

CONSTANTS ScanLimit,     \* page limits the readers of ActiveLocks and of Locks
          PagerLimit,    \*   ask for, 0 for none
          DefaultLimit,  \* the limit of a request without one (100)
          Width          \* bits of offset and limit (64)

\* Addresses are byte strings; only their order matters to the iterators.
ASSUME AddrAssumption == Addr \subseteq Nat

ASSUME LimitAssumption ==
    /\ DefaultLimit \in Nat \ {0} /\ Width \in Nat
    /\ ScanLimit \cup PagerLimit \subseteq 0 .. 2^Width - 1

VARIABLES scan,   \* a client reading ActiveLocks
          pager   \* a client reading Locks

-----------------------------------------------------------------------------
(* Answers                                                                  *)

\* GetLockExpirationKey: big-endian time, then address.
KeyLess(k, l) == k[1] < l[1] \/ (k[1] = l[1] /\ k[2] < l[2])
NoKey == <<>>

PageLimit(limit) == IF limit = 0 THEN DefaultLimit ELSE limit

\* A faulty ActiveLocks that goes on from the last key it has returned.
ActiveLocks_RepeatLast(queue, today, key, limit) ==
    LET iter == SetToSortSeq({k \in DOMAIN queue : key = NoKey \/ ~KeyLess(k, key)},
                             KeyLess)
        active == SelectSeq(iter, LAMBDA k : IsLocked(today, k[1]))
        n == Min({Len(active), PageLimit(limit)})
    IN  [locks |-> SubSeq(active, 1, n),
         nextKey |-> IF n < Len(active) THEN active[n] ELSE NoKey]

\* The loop stops at the first key after limit active ones, active or not.
ActiveLocks(queue, today, key, limit) ==
    LET iter == SetToSortSeq({k \in DOMAIN queue : key = NoKey \/ ~KeyLess(k, key)},
                             KeyLess)
        count(i) == Cardinality({j \in 1 .. i - 1 : IsLocked(today, iter[j][1])})
        beyond == {i \in DOMAIN iter : count(i) >= PageLimit(limit)}
        read == IF beyond = {} THEN iter ELSE SubSeq(iter, 1, Min(beyond) - 1)
    IN  [locks   |-> SelectSeq(read, LAMBDA k : IsLocked(today, k[1])),
         nextKey |-> IF beyond = {} THEN NoKey ELSE iter[Min(beyond)]]

\* A faulty iterator that starts at the prefix.
IterateActiveLocks_All(queue, today) == DOMAIN queue

\* The iterator starts one second after the current day.
IterateActiveLocks(queue, today) == {k \in DOMAIN queue : k[1] > today}

TotalLockedAmount(queue, today) ==
    SumFunctionOnSet(queue, IterateActiveLocks(queue, today))

\* A faulty slice that drops the element at the boundary.
SliceEnd_Short(len, offset, limit) ==
    Min({(offset + PageLimit(limit)) % 2^Width, len}) - 1

\* endIdx of Locks and AccountLocks, in uint64.
SliceEnd(len, offset, limit) ==
    Min({(offset + PageLimit(limit)) % 2^Width, len})

SlicePanics(len, offset, limit) == offset > SliceEnd(len, offset, limit)

Slice(list, offset, limit) ==
    [page |-> SubSeq(list, offset + 1, SliceEnd(Len(list), offset, limit)),
     more |-> SliceEnd(Len(list), offset, limit) < Len(list)]

ActiveOf(list, today) == SelectSeq(list, LAMBDA l : IsLocked(today, l.date))

\* The slice is one of addresses here; each comes with its active locks.
AccountLocks(s, today, addrs, offset, limit) ==
    LET cut == Slice(addrs, offset, limit)
    IN  [cut EXCEPT !.page =
            [i \in DOMAIN @ |-> [addr |-> @[i],
                                 locks |-> ActiveOf(s.locks[@[i]], today)]]]

-----------------------------------------------------------------------------
(* Clients.  They see committed stores only, so that a request answered     *)
(* during a transaction is one answered before it.  A request changes       *)
(* nothing that another client sees, so that one client at a time reads.    *)

ActiveKeys(s, today) == {k \in DOMAIN s.queue : IsLocked(today, k[1])}

StartScan(limit) ==
    /\ Idle
    /\ scan.status = "new" /\ pager.status = "new"
    /\ scan' = [status |-> "reading", limit |-> limit, key |-> NoKey,
                got |-> <<>>, steady |-> ActiveKeys(lockup, day)]
    /\ UNCHANGED <<vars, pager>>

ReadScan ==
    /\ Idle
    /\ scan.status = "reading"
    /\ LET answer == ActiveLocks(lockup.queue, day, scan.key, scan.limit)
       IN  scan' = [scan EXCEPT
                      !.got = @ \o answer.locks,
                      !.key = answer.nextKey,
                      !.status = IF answer.nextKey = NoKey THEN "done" ELSE @]
    /\ UNCHANGED <<vars, pager>>

StartPager(addr, limit) ==
    /\ Idle
    /\ scan.status = "new" /\ pager.status = "new"
    /\ pager' = [status |-> "reading", addr |-> addr, limit |-> limit,
                 offset |-> 0, got |-> <<>>, same |-> TRUE,
                 first |-> ActiveOf(lockup.locks[addr], day)]
    /\ UNCHANGED <<vars, scan>>

\* Locks panics when the offset is beyond the end of the list.
ReadPager ==
    /\ Idle
    /\ pager.status = "reading"
    /\ LET list   == ActiveOf(lockup.locks[pager.addr], day)
           answer == Slice(list, pager.offset, pager.limit)
       IN  pager' = IF SlicePanics(Len(list), pager.offset, pager.limit)
                    THEN [pager EXCEPT !.status = "failed"]
                    ELSE [pager EXCEPT
                            !.got = @ \o answer.page,
                            !.offset = @ + Len(answer.page),
                            !.status = IF answer.more THEN @ ELSE "done"]
    /\ UNCHANGED <<vars, scan>>

\* steady: the keys that were active all along; same: the list of first was.
ChainStep ==
    /\ Next
    /\ scan' = IF scan.status = "reading"
               THEN [scan EXCEPT !.steady = @ \cap ActiveKeys(lockup', day')]
               ELSE scan
    /\ pager' = IF pager.status = "reading"
                THEN [pager EXCEPT !.same = @ /\
                        ActiveOf(lockup'.locks[pager.addr], day') = pager.first]
                ELSE pager

QInit ==
    /\ Init
    /\ scan = [status |-> "new"]
    /\ pager = [status |-> "new"]

QNext ==
    \/ ChainStep
    \/ \E n \in ScanLimit : StartScan(n)
    \/ ReadScan
    \/ \E a \in Addr, n \in PagerLimit : StartPager(a, n)
    \/ ReadPager

QSpec == QInit /\ [][QNext]_<<vars, scan, pager>>

-----------------------------------------------------------------------------
(* Properties                                                               *)

\* Reading ActiveLocks page by page, while transactions commit and days pass in
\* between, returns every lock that was there all the time exactly once, and
\* none twice.
ScanExact ==
    scan.status = "done" =>
        /\ scan.steady \subseteq Range(scan.got)
        /\ \A i, j \in DOMAIN scan.got : i < j => KeyLess(scan.got[i], scan.got[j])

\* TotalLockedAmount, computed from the queue, is what AccountLocks, computed
\* from the lists, reports for all accounts together on the same day.
TotalIsSumOfAccounts ==
    LET answer == AccountLocks(lockup, day, SetToSeq(Addr), 0, Cardinality(Addr))
        reported(i) == LockedAmount(answer.page[i].locks, day)
    IN  TotalLockedAmount(lockup.queue, day)
            = SumFunction([i \in DOMAIN answer.page |-> reported(i)])

\* As long as an account's active locks do not change, reading Locks page by
\* page does not fail and returns them in their order.
PagerExact ==
    pager.status \in {"done", "failed"} /\ pager.same =>
        /\ pager.status = "done"
        /\ pager.got = pager.first
==============================================================================
