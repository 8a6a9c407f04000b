---------------------------- MODULE LockupProofs -----------------------------
(***************************************************************************)
(* Proofs about Lockup, for any accounts, validators, transactions, dates  *)
(* and amounts: the lists stay well-formed, the two key families agree,    *)
(* and the module implements LockLedger.                                   *)
(***************************************************************************)
EXTENDS Lockup, LockStoreProofs

\* What every handler may assume of the store it works on, and must restore.
StoreInv(s, today) ==
    /\ IsLockupStore(s)
    /\ \A addr \in Addr : WellFormed(s.locks[addr], today)
    /\ Agree(s)

\* Unlock dates are day numbers.
LEMMA DateIsNat == Date \subseteq Nat
BY BoundsAssumption DEF Date

IsQueue(queue) ==
    queue \in [DOMAIN queue -> Nat] /\ DOMAIN queue \subseteq Date \X Addr

\* AddToExpirationQueue adds n to one entry, which it creates if need be.
LEMMA AddToQueueEffect ==
  ASSUME NEW queue, IsQueue(queue), NEW d \in Date, NEW a \in Addr,
         NEW n \in Nat \ {0}, \A k \in DOMAIN queue : queue[k] > 0
  PROVE  LET q == AddToExpirationQueue(queue, d, a, n)
         IN  /\ IsQueue(q)
             /\ \A e \in Date, b \in Addr :
                   AmountInQueue(q, e, b) = AmountInQueue(queue, e, b)
                             + IF e = d /\ b = a THEN n ELSE 0
             /\ \A k \in DOMAIN q : q[k] > 0
BY DEF AddToExpirationQueue, AmountInQueue, IsQueue

\* RemoveFromExpirationQueue takes n from one entry and deletes it at zero.
LEMMA RemoveFromQueueEffect ==
  ASSUME NEW queue, IsQueue(queue), NEW d \in Date, NEW a \in Addr,
         NEW n \in Nat \ {0}, n <= AmountInQueue(queue, d, a),
         \A k \in DOMAIN queue : queue[k] > 0
  PROVE  LET q == RemoveFromExpirationQueue(queue, d, a, n)
         IN  /\ IsQueue(q)
             /\ \A e \in Date, b \in Addr :
                   AmountInQueue(q, e, b) = AmountInQueue(queue, e, b)
                             - IF e = d /\ b = a THEN n ELSE 0
             /\ \A k \in DOMAIN q : q[k] > 0
<1>. DEFINE key == <<d, a>>
            q == RemoveFromExpirationQueue(queue, d, a, n)
<1>1. key \in DOMAIN queue /\ n <= queue[key] /\ queue[key] \in Nat
  BY DEF AmountInQueue, IsQueue
<1>2. CASE queue[key] = n
  <2>1. q = [k \in DOMAIN queue \ {key} |-> queue[k]]
    BY <1>1, <1>2 DEF RemoveFromExpirationQueue, Restrict
  <2>. QED BY <1>2, <2>1 DEF AmountInQueue, IsQueue
<1>3. CASE queue[key] # n
  <2>1. q = [queue EXCEPT ![key] = @ - n]
    BY <1>1, <1>3 DEF RemoveFromExpirationQueue
  <2>2. queue[key] - n \in Nat /\ queue[key] - n > 0
    BY <1>1, <1>3
  <2>. QED BY <1>1, <2>1, <2>2 DEF AmountInQueue, IsQueue
<1>. QED BY <1>2, <1>3

\* A store with another list for one account and another queue; that the two fit
\* together and into the store; and the ledger such a store stands for.
Replaced(s, a, list, q) ==
    [locks |-> [s.locks EXCEPT ![a] = list], queue |-> q]

Fits(s, a, list, q) ==
    /\ IsQueue(q)
    /\ \A k \in DOMAIN q : q[k] > 0
    /\ \A e \in Date : AmountInList(list, e) = AmountInQueue(q, e, a)
    /\ \A e \in Date, b \in Addr \ {a} :
          AmountInQueue(q, e, b) = AmountInQueue(s.queue, e, b)

LedgerWith(s, a, list) ==
    [AsLedger(s) EXCEPT ![a] = [e \in Date |-> AmountInList(list, e)]]

\* A handler that replaces one account's list, and the queue, keeps the store
\* sound if the two still say the same about that account and the queue says
\* nothing new about the others.
LEMMA ReplaceKeeps ==
  ASSUME NEW s, NEW t \in Nat, StoreInv(s, t), NEW a \in Addr,
         NEW list \in Seq(Lock), WellFormed(list, t),
         NEW q, Fits(s, a, list, q)
  PROVE  /\ StoreInv(Replaced(s, a, list, q), t)
         /\ AsLedger(Replaced(s, a, list, q)) = LedgerWith(s, a, list)
<1>. DEFINE r == Replaced(s, a, list, q)
<1>1. s.locks \in [Addr -> Seq(Lock)] /\ Agree(s)
      /\ \A b \in Addr : WellFormed(s.locks[b], t)
  BY DEF StoreInv, IsLockupStore
<1>2. /\ r = [locks |-> r.locks, queue |-> r.queue]
      /\ r.queue = q
      /\ r.locks \in [Addr -> Seq(Lock)]
      /\ \A b \in Addr : r.locks[b] = IF b = a THEN list ELSE s.locks[b]
  BY <1>1 DEF Replaced
<1>. HIDE DEF r
<1>3. IsLockupStore(r)
  BY <1>2 DEF IsLockupStore, IsQueue, Fits
<1>4. \A b \in Addr : WellFormed(r.locks[b], t)
  BY <1>1, <1>2
<1>5. Agree(r)
  BY <1>1, <1>2 DEF Agree, Fits
<1>6. AsLedger(r) = LedgerWith(s, a, list)
  BY <1>2 DEF AsLedger, LedgerWith
<1>. QED BY <1>3, <1>4, <1>5, <1>6 DEF StoreInv, r

\* The lists read as a ledger are amounts per account and date, each of them the
\* amount the list records.
LEMMA LedgerType ==
  ASSUME NEW s, IsLockupStore(s)
  PROVE  /\ AsLedger(s) \in [Addr -> [Date -> Nat]]
         /\ \A b \in Addr, e \in Date :
               AsLedger(s)[b][e] = AmountInList(s.locks[b], e)
<1>1. \A b \in Addr, e \in Date : AmountInList(s.locks[b], e) \in Nat
  BY AmountIsNat DEF IsLockupStore
<1>. QED BY <1>1 DEF AsLedger

\* Crediting keeps a list well-formed.
LEMMA CreditKeepsForm ==
  ASSUME NEW list \in Seq(Lock), NEW t \in Nat, WellFormed(list, t),
         NEW d \in Nat, NEW n \in Nat \ {0}, d <= t + Horizon
  PROVE  WellFormed(CreditLock(list, d, n), t)
<1>. DEFINE r == CreditLock(list, d, n)
<1>1. Ordered(list)
  BY DEF WellFormed
<1>2. /\ r \in Seq(Lock)
      /\ Ordered(r)
      /\ \A j \in 1 .. Len(r) :
            \/ r[j].date = d /\ r[j].amount >= n
            \/ \E k \in 1 .. Len(list) : r[j] = list[k]
  BY <1>1, CreditLockEffect
<1>. HIDE DEF r
<1>3. \A k \in 1 .. Len(list) : list[k].amount > 0 /\ list[k].date <= t + Horizon
  BY ListFields DEF WellFormed
<1>4. \A j \in 1 .. Len(r) : r[j].amount \in Nat
  BY <1>2, ListFields
<1>5. \A j \in 1 .. Len(r) : r[j].amount > 0 /\ r[j].date <= t + Horizon
  BY <1>2, <1>3, <1>4
<1>6. WellFormed(r, t)
  BY <1>2, <1>5, ListFields DEF WellFormed
<1>. QED BY <1>6 DEF r

\* Debiting does.
LEMMA DebitKeepsForm ==
  ASSUME NEW list \in Seq(Lock), NEW t \in Nat, WellFormed(list, t),
         NEW d \in Nat, NEW n \in Nat,
         LockIndex(list, d) # 0, n <= AmountInList(list, d)
  PROVE  WellFormed(DebitLock(list, d, n), t)
<1>. DEFINE r == DebitLock(list, d, n)
<1>1. Ordered(list)
  BY DEF WellFormed
<1>2. /\ r \in Seq(Lock)
      /\ Ordered(r)
      /\ \A j \in 1 .. Len(r) :
            \E k \in 1 .. Len(list) :
               r[j].date = list[k].date /\ (r[j] = list[k] \/ r[j].amount > 0)
  BY <1>1, DebitLockEffect
<1>. HIDE DEF r
<1>3. \A k \in 1 .. Len(list) : list[k].amount > 0 /\ list[k].date <= t + Horizon
  BY ListFields DEF WellFormed
<1>4. \A j \in 1 .. Len(r) : r[j].amount > 0 /\ r[j].date <= t + Horizon
  BY <1>2, <1>3
<1>5. WellFormed(r, t)
  BY <1>2, <1>4, ListFields DEF WellFormed
<1>. QED BY <1>5 DEF r

\* Lock's effect on a store: the amount for one date grows, both key families
\* say so, and everything else is as before.
LEMMA AfterLockKeeps ==
  ASSUME NEW s, NEW t \in Nat, StoreInv(s, t),
         NEW a \in Addr, NEW d \in Date, NEW n \in Nat \ {0}, d <= t + Horizon
  PROVE  /\ StoreInv(AfterLock(s, a, d, n), t)
         /\ AsLedger(AfterLock(s, a, d, n)) = [AsLedger(s) EXCEPT ![a][d] = @ + n]
<1>. DEFINE list == CreditLock(s.locks[a], d, n)
            q == AddToExpirationQueue(s.queue, d, a, n)
            r == Replaced(s, a, list, q)
<1>1. r = AfterLock(s, a, d, n)
  BY DEF AfterLock, Replaced
<1>2. /\ IsLockupStore(s) /\ IsQueue(s.queue) /\ Agree(s)
      /\ \A k \in DOMAIN s.queue : s.queue[k] > 0
      /\ d \in Nat /\ n \in Nat
      /\ s.locks[a] \in Seq(Lock)
      /\ WellFormed(s.locks[a], t) /\ Ordered(s.locks[a])
  BY DateIsNat DEF StoreInv, IsLockupStore, Agree, WellFormed, IsQueue
<1>3. /\ list \in Seq(Lock)
      /\ \A e \in Nat : AmountInList(list, e) = AmountInList(s.locks[a], e)
                            + IF e = d THEN n ELSE 0
  <2>. DEFINE old == s.locks[a]
  <2>1. old \in Seq(Lock) /\ Ordered(old) /\ d \in Nat /\ n \in Nat
    BY <1>2
  <2>. HIDE DEF old
  <2>2. /\ CreditLock(old, d, n) \in Seq(Lock)
        /\ \A e \in Nat : AmountInList(CreditLock(old, d, n), e)
                            = AmountInList(old, e) + IF e = d THEN n ELSE 0
    BY <2>1, CreditLockEffect, SMTT(30)
  <2>. QED BY <2>2 DEF old
<1>4. WellFormed(list, t)
  BY <1>2, CreditKeepsForm
<1>5. /\ IsQueue(q)
      /\ \A e \in Date, b \in Addr :
            AmountInQueue(q, e, b) = AmountInQueue(s.queue, e, b)
                                         + IF e = d /\ b = a THEN n ELSE 0
      /\ \A k \in DOMAIN q : q[k] > 0
  BY <1>2, AddToQueueEffect
<1>6. \A e \in Date, b \in Addr : AmountInQueue(s.queue, e, b) \in Nat
  BY <1>2 DEF AmountInQueue, IsQueue
<1>. HIDE DEF list, q
<1>7. \A e \in Date : AmountInList(list, e) = AmountInQueue(q, e, a)
  BY <1>2, <1>3, <1>5, DateIsNat DEF Agree
<1>8. \A e \in Date, b \in Addr \ {a} :
          AmountInQueue(q, e, b) = AmountInQueue(s.queue, e, b)
  BY <1>5, <1>6
<1>9. StoreInv(r, t) /\ AsLedger(r) = LedgerWith(s, a, list)
  <2>1. Fits(s, a, list, q)
    BY <1>5, <1>7, <1>8 DEF Fits
  <2>. QED BY <2>1, <1>3, <1>4, ReplaceKeeps
<1>10. LedgerWith(s, a, list) = [AsLedger(s) EXCEPT ![a][d] = @ + n]
  <2>1. /\ AsLedger(s) \in [Addr -> [Date -> Nat]]
        /\ \A e \in Date : AsLedger(s)[a][e] = AmountInList(s.locks[a], e)
    BY <1>2, LedgerType
  <2>2. ASSUME NEW e \in Date
        PROVE  AmountInList(list, e) = AsLedger(s)[a][e] + IF e = d THEN n ELSE 0
    BY <1>3, <2>1, DateIsNat
  <2>. DEFINE L == AsLedger(s)[a]
  <2>3. [e \in Date |-> AmountInList(list, e)] = [L EXCEPT ![d] = @ + n]
    <3>1. L \in [Date -> Nat]
      BY <2>1
    <3>2. \A e \in Date : AmountInList(list, e) = L[e] + IF e = d THEN n ELSE 0
      BY <2>2
    <3>. HIDE DEF L
    <3>3. \A e \in Date : [L EXCEPT ![d] = @ + n][e] = L[e] + IF e = d THEN n ELSE 0
      BY <3>1
    <3>. QED BY <3>1, <3>2, <3>3
  <2>. QED BY <2>1, <2>3 DEF LedgerWith
<1>. QED BY <1>1, <1>9, <1>10

\* A ledger in which an account's amount n has moved from one date to another.
Moved(ledger, a, d, f, n) ==
    [ledger EXCEPT ![a][d] = @ - n, ![a][f] = @ + n]

\* The effect of one iteration of Extend: an amount moves to a later date.
LEMMA AfterExtendKeeps ==
  ASSUME NEW s, NEW t \in Nat, StoreInv(s, t),
         NEW a \in Addr, NEW d \in Date, NEW f \in Date, NEW n \in Nat \ {0},
         d < f, f <= t + Horizon,
         LockIndex(s.locks[a], d) # 0, n <= AmountInList(s.locks[a], d)
  PROVE  LET r == AfterExtend(s, a, [from |-> d, to |-> f, amt |-> n])
         IN  /\ StoreInv(r, t)
             /\ AsLedger(r) = Moved(AsLedger(s), a, d, f, n)
<1>. DEFINE mid  == DebitLock(s.locks[a], d, n)
            midq == RemoveFromExpirationQueue(s.queue, d, a, n)
            list == CreditLock(mid, f, n)
            q == AddToExpirationQueue(midq, f, a, n)
            r == Replaced(s, a, list, q)
<1>1. r = AfterExtend(s, a, [from |-> d, to |-> f, amt |-> n])
  BY DEF AfterExtend, Replaced
<1>2. /\ IsLockupStore(s) /\ IsQueue(s.queue) /\ Agree(s)
      /\ \A k \in DOMAIN s.queue : s.queue[k] > 0
      /\ d \in Nat /\ f \in Nat /\ n \in Nat
      /\ s.locks[a] \in Seq(Lock)
      /\ WellFormed(s.locks[a], t) /\ Ordered(s.locks[a])
  BY DateIsNat DEF StoreInv, IsLockupStore, Agree, WellFormed, IsQueue
<1>3. /\ mid \in Seq(Lock)
      /\ \A e \in Nat : AmountInList(mid, e) = AmountInList(s.locks[a], e)
                            - IF e = d THEN n ELSE 0
  BY <1>2, DebitLockEffect
<1>4. WellFormed(mid, t) /\ Ordered(mid)
  <2>1. WellFormed(mid, t)
    BY <1>2, DebitKeepsForm
  <2>. QED BY <2>1 DEF WellFormed
<1>5. /\ IsQueue(midq)
      /\ \A e \in Date, b \in Addr :
            AmountInQueue(midq, e, b) = AmountInQueue(s.queue, e, b)
                                            - IF e = d /\ b = a THEN n ELSE 0
      /\ \A k \in DOMAIN midq : midq[k] > 0
  <2>1. n <= AmountInQueue(s.queue, d, a)
    BY <1>2 DEF Agree
  <2>. QED BY <1>2, <2>1, RemoveFromQueueEffect
<1>. HIDE DEF mid, midq
<1>6. /\ list \in Seq(Lock)
      /\ \A e \in Nat : AmountInList(list, e) = AmountInList(mid, e)
                            + IF e = f THEN n ELSE 0
  BY <1>2, <1>3, <1>4, CreditLockEffect
<1>7. WellFormed(list, t)
  BY <1>2, <1>3, <1>4, CreditKeepsForm
<1>8. /\ IsQueue(q)
      /\ \A e \in Date, b \in Addr :
            AmountInQueue(q, e, b) = AmountInQueue(midq, e, b)
                                         + IF e = f /\ b = a THEN n ELSE 0
      /\ \A k \in DOMAIN q : q[k] > 0
  BY <1>5, AddToQueueEffect
<1>9. \A e \in Date, b \in Addr : AmountInQueue(s.queue, e, b) \in Nat
  BY <1>2 DEF AmountInQueue, IsQueue
<1>. HIDE DEF list, q
<1>10. \A e \in Date : AmountInList(list, e) = AmountInQueue(q, e, a)
  <2>1. ASSUME NEW e \in Date
        PROVE  AmountInList(mid, e) = AmountInQueue(midq, e, a)
    BY <1>2, <1>3, <1>5, DateIsNat DEF Agree
  <2>. QED BY <1>6, <1>8, <2>1, DateIsNat
<1>11. \A e \in Date, b \in Addr \ {a} :
          AmountInQueue(q, e, b) = AmountInQueue(s.queue, e, b)
  BY <1>5, <1>8, <1>9
<1>12. StoreInv(r, t) /\ AsLedger(r) = LedgerWith(s, a, list)
  <2>1. Fits(s, a, list, q)
    BY <1>8, <1>10, <1>11 DEF Fits
  <2>. QED BY <2>1, <1>6, <1>7, ReplaceKeeps
<1>13. LedgerWith(s, a, list) = Moved(AsLedger(s), a, d, f, n)
  <2>. DEFINE L == AsLedger(s)[a]
  <2>1. AsLedger(s) \in [Addr -> [Date -> Nat]] /\ L \in [Date -> Nat]
        /\ \A e \in Date : L[e] = AmountInList(s.locks[a], e)
    BY <1>2, LedgerType
  <2>2. ASSUME NEW e \in Date
        PROVE  AmountInList(list, e) = (L[e] - IF e = d THEN n ELSE 0)
                                           + IF e = f THEN n ELSE 0
    BY <1>3, <1>6, <2>1, DateIsNat
  <2>. HIDE DEF L
  <2>3. d # f
    BY <1>2
  <2>4. [e \in Date |-> AmountInList(list, e)]
          = [L EXCEPT ![d] = @ - n, ![f] = @ + n]
    <3>1. \A e \in Date : [L EXCEPT ![d] = @ - n, ![f] = @ + n][e]
            = (L[e] - IF e = d THEN n ELSE 0) + IF e = f THEN n ELSE 0
      BY <2>1, <2>3
    <3>. QED BY <2>1, <2>2, <3>1
  <2>. QED BY <2>1, <2>4 DEF L, LedgerWith, Moved
<1>. QED BY <1>1, <1>12, <1>13
==============================================================================
