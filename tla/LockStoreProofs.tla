--------------------------- MODULE LockStoreProofs ---------------------------
(***************************************************************************)
(* What the operators of LockStore do to a list in date order and to the   *)
(* expiration queue, for lists of every length and amounts of every size.  *)
(***************************************************************************)
EXTENDS LockStore, SequenceTheorems, WellFoundedInduction, TLAPS

\* Every non-empty set of naturals has a least element.
LEMMA MinExists ==
  ASSUME NEW T, T \subseteq Nat, T # {}
  PROVE  \E m \in T : \A y \in T : m <= y
<1>. DEFINE R == {ss \in Nat \X Nat : ss[1] < ss[2]}
<1>1. IsWellFoundedOn(R, Nat)
  BY NatLessThanWellFounded, Zenon DEF OpToRel
<1>. HIDE DEF R
<1>2. PICK x \in T : \A y \in T : ~(<<y, x>> \in R)
  BY <1>1, WFMin
<1>3. \A y \in T : ~(y < x)
  BY <1>2 DEF R
<1>. QED BY <1>3

\* The fields of the locks of a list, and its domain.
LEMMA LockFields ==
  ASSUME NEW l \in Lock
  PROVE  l.date \in Nat /\ l.amount \in Nat
BY DEF Lock

\* A list, as stored by SetLocksByAddress, is a sequence of locks.
LEMMA ListFields ==
  ASSUME NEW list \in Seq(Lock)
  PROVE  /\ Len(list) \in Nat
         /\ DOMAIN list = 1 .. Len(list)
         /\ \A i \in 1 .. Len(list) :
               list[i] \in Lock /\ list[i].date \in Nat /\ list[i].amount \in Nat
<1>1. \A i \in 1 .. Len(list) : list[i] \in Lock
  BY ElementOfSeq
<1>. QED BY <1>1, LenProperties, LockFields

\* GetLockByAddressAndDate returns a lock of that date, or none if there is none.
LEMMA LockIndexFinds ==
  ASSUME NEW list \in Seq(Lock), NEW d
  PROVE  /\ LockIndex(list, d) \in 0 .. Len(list)
         /\ LockIndex(list, d) = 0 => \A j \in 1 .. Len(list) : list[j].date # d
         /\ LockIndex(list, d) # 0 => list[LockIndex(list, d)].date = d
<1>. DEFINE I == {i \in 1 .. Len(list) : list[i].date = d}
<1>1. LockIndex(list, d) = IF I # {} THEN Min(I) ELSE 0
  BY DEF LockIndex, SelectInSeq
<1>2. CASE I = {}
  BY <1>1, <1>2
<1>3. CASE I # {}
  <2>1. I \subseteq Nat
    OBVIOUS
  <2>2. Min(I) \in I
    <3>. HIDE DEF I
    <3>1. \E m \in I : \A y \in I : m <= y
      BY <1>3, <2>1, MinExists
    <3>. QED BY <3>1 DEF Min
  <2>. QED BY <1>1, <1>3, <2>2
<1>. QED BY <1>2, <1>3

\* An ordered list has at most one lock per date.
LEMMA OneLockPerDate ==
  ASSUME NEW list \in Seq(Lock), Ordered(list),
         NEW i \in 1 .. Len(list), NEW j \in 1 .. Len(list),
         list[i].date = list[j].date
  PROVE  i = j
<1>1. \A k, l \in 1 .. Len(list) : k < l => list[k].date < list[l].date
  BY ListFields DEF Ordered
<1>2. list[i].date \in Nat /\ list[j].date \in Nat /\ i \in Int /\ j \in Int
  BY ListFields
<1>3. ~(i < j) /\ ~(j < i)
  BY <1>1, <1>2
<1>. QED BY <1>2, <1>3

\* In an ordered list the amount recorded for a date is that of its only lock.
LEMMA AmountAt ==
  ASSUME NEW list \in Seq(Lock), Ordered(list), NEW i \in 1 .. Len(list)
  PROVE  AmountInList(list, list[i].date) = list[i].amount
<1>. DEFINE k == LockIndex(list, list[i].date)
<1>1. k \in 1 .. Len(list) /\ list[k].date = list[i].date
  BY LockIndexFinds
<1>. HIDE DEF k
<1>2. k = i
  BY <1>1, OneLockPerDate
<1>. QED BY <1>1, <1>2 DEF AmountInList, k

\* GetLockByAddressAndDate finds nothing for a date no lock has.
LEMMA AmountNone ==
  ASSUME NEW list \in Seq(Lock), NEW d, \A j \in 1 .. Len(list) : list[j].date # d
  PROVE  AmountInList(list, d) = 0
BY LockIndexFinds DEF AmountInList

\* What the list records for a date is an amount, also when it has no lock.
LEMMA AmountIsNat ==
  ASSUME NEW list \in Seq(Lock), NEW d
  PROVE  AmountInList(list, d) \in Nat
BY LockIndexFinds, ListFields DEF AmountInList

-----------------------------------------------------------------------------
\* Replacing the amount of one lock changes what is recorded for its date only.
LEMMA AdjustLockEffect ==
  ASSUME NEW list \in Seq(Lock), Ordered(list), NEW i \in 1 .. Len(list),
         NEW n \in Int, list[i].amount + n \in Nat
  PROVE  LET r == AdjustLock(list, i, n)
         IN  /\ r \in Seq(Lock)
             /\ Ordered(r)
             /\ Len(r) = Len(list)
             /\ \A j \in 1 .. Len(r) : r[j].date = list[j].date
             /\ \A j \in 1 .. Len(r) : j # i => r[j] = list[j]
             /\ r[i].amount = list[i].amount + n
             /\ \A e \in Nat : AmountInList(r, e) = AmountInList(list, e)
                                   + IF e = list[i].date THEN n ELSE 0
<1>. DEFINE lock == [date |-> list[i].date, amount |-> list[i].amount + n]
            r == AdjustLock(list, i, n)
<1>1. lock \in Lock
  <2>1. list[i].date \in Nat
    BY ListFields
  <2>. QED BY <2>1 DEF Lock
<1>2. /\ r \in Seq(Lock)
      /\ Len(r) = Len(list)
      /\ \A j \in 1 .. Len(r) : r[j] = IF j = i THEN lock ELSE list[j]
  BY <1>1, ExceptSeq DEF AdjustLock, ReplaceAt
<1>. HIDE DEF r
<1>3. \A j \in 1 .. Len(r) : r[j].date = list[j].date
  BY <1>2
<1>4. Ordered(r)
  BY <1>2, <1>3, ListFields DEF Ordered
<1>5. ASSUME NEW e \in Nat
      PROVE  AmountInList(r, e) = AmountInList(list, e)
                                      + IF e = list[i].date THEN n ELSE 0
  <2>1. CASE \E j \in 1 .. Len(list) : list[j].date = e
    <3>1. PICK j \in 1 .. Len(list) : list[j].date = e
      BY <2>1
    <3>2. AmountInList(list, e) = list[j].amount
      BY <3>1, AmountAt
    <3>3. AmountInList(r, e) = r[j].amount
      BY <3>1, <1>2, <1>3, <1>4, AmountAt
    <3>4. e = list[i].date <=> j = i
      BY <3>1, OneLockPerDate
    <3>5. list[j].amount \in Nat
      BY ListFields
    <3>. QED BY <1>2, <3>2, <3>3, <3>4, <3>5
  <2>2. CASE \A j \in 1 .. Len(list) : list[j].date # e
    <3>1. AmountInList(list, e) = 0
      BY <2>2, AmountNone
    <3>2. AmountInList(r, e) = 0
      BY <2>2, <1>2, <1>3, AmountNone
    <3>. QED BY <2>2, <3>1, <3>2
  <2>. QED BY <2>1, <2>2
<1>. QED BY <1>2, <1>3, <1>4, <1>5 DEF r

-----------------------------------------------------------------------------
\* A list r that is an ordered list with one lock put in at position p, where
\* it belongs, is ordered and records the new amount besides the old ones.
LEMMA InsertEffect ==
  ASSUME NEW list \in Seq(Lock), Ordered(list), NEW lock \in Lock,
         NEW r \in Seq(Lock), Len(r) = Len(list) + 1,
         NEW p \in 1 .. Len(r),
         \A j \in 1 .. Len(r) : r[j] = IF j < p THEN list[j]
                                       ELSE IF j = p THEN lock ELSE list[j - 1],
         \A j \in 1 .. Len(list) : /\ j < p => list[j].date < lock.date
                                   /\ j >= p => lock.date < list[j].date
  PROVE  /\ Ordered(r)
         /\ \A e \in Nat : AmountInList(r, e) = AmountInList(list, e)
                               + IF e = lock.date THEN lock.amount ELSE 0
<1>. DEFINE at(j) == IF j < p THEN j ELSE j + 1
<1>1. /\ Len(list) \in Nat /\ Len(r) \in Nat /\ p \in Nat
      /\ lock.date \in Nat /\ lock.amount \in Nat
      /\ \A j \in 1 .. Len(list) : list[j].date \in Nat /\ list[j].amount \in Nat
  BY ListFields, LockFields
<1>2. \A k, l \in 1 .. Len(list) : k < l => list[k].date < list[l].date
  BY ListFields DEF Ordered
<1>3. Ordered(r)
  <2>1. ASSUME NEW i \in 1 .. Len(r), NEW j \in 1 .. Len(r), i < j
        PROVE  r[i].date < r[j].date
    <3>1. CASE j < p
      BY <1>1, <1>2, <2>1, <3>1
    <3>2. CASE j = p
      <4>1. i \in 1 .. Len(list) /\ i < p
        BY <1>1, <2>1, <3>2
      <4>2. r[i] = list[i] /\ r[j] = lock
        BY <1>1, <3>2, <4>1
      <4>3. list[i].date < lock.date
        BY <4>1
      <4>. QED BY <4>2, <4>3
    <3>3. CASE i = p
      <4>1. j - 1 \in 1 .. Len(list) /\ j - 1 >= p /\ j > p
        BY <1>1, <2>1, <3>3
      <4>2. r[i] = lock /\ r[j] = list[j - 1]
        BY <1>1, <3>3, <4>1
      <4>3. lock.date < list[j - 1].date
        BY <4>1
      <4>. QED BY <4>2, <4>3
    <3>4. CASE i > p
      <4>1. i - 1 \in 1 .. Len(list) /\ j - 1 \in 1 .. Len(list) /\ i - 1 < j - 1
        BY <1>1, <2>1, <3>4
      <4>2. r[i] = list[i - 1] /\ r[j] = list[j - 1]
        BY <1>1, <2>1, <3>4
      <4>. QED BY <1>2, <4>1, <4>2
    <3>5. CASE i < p /\ j > p
      <4>1. i \in 1 .. Len(list) /\ j - 1 \in 1 .. Len(list) /\ i < j - 1
        BY <1>1, <3>5
      <4>2. r[i] = list[i] /\ r[j] = list[j - 1]
        BY <1>1, <3>5
      <4>. QED BY <1>2, <4>1, <4>2
    <3>. QED BY <1>1, <2>1, <3>1, <3>2, <3>3, <3>4, <3>5
  <2>. QED BY <2>1, ListFields DEF Ordered
<1>4. \A j \in 1 .. Len(list) : at(j) \in 1 .. Len(r) /\ r[at(j)] = list[j]
  BY <1>1
<1>5. ASSUME NEW e \in Nat
      PROVE  AmountInList(r, e) = AmountInList(list, e)
                                      + IF e = lock.date THEN lock.amount ELSE 0
  <2>1. CASE e = lock.date
    <3>1. AmountInList(list, e) = 0
      <4>1. ASSUME NEW j \in 1 .. Len(list)
            PROVE  list[j].date # e
        <5>1. list[j].date < lock.date \/ lock.date < list[j].date
          BY <1>1
        <5>. QED BY <1>1, <2>1, <5>1
      <4>. QED BY <4>1, AmountNone
    <3>2. AmountInList(r, e) = lock.amount
      <4>1. r[p] = lock
        BY <1>1
      <4>. QED BY <1>3, <2>1, <4>1, AmountAt
    <3>. QED BY <1>1, <2>1, <3>1, <3>2
  <2>2. CASE e # lock.date /\ \E j \in 1 .. Len(list) : list[j].date = e
    <3>1. PICK j \in 1 .. Len(list) : list[j].date = e
      BY <2>2
    <3>2. AmountInList(list, e) = list[j].amount
      BY <3>1, AmountAt
    <3>3. AmountInList(r, e) = list[j].amount
      <4>1. at(j) \in 1 .. Len(r) /\ r[at(j)] = list[j]
        BY <1>4
      <4>. HIDE DEF at
      <4>. QED BY <1>3, <3>1, <4>1, AmountAt
    <3>. QED BY <1>1, <2>2, <3>2, <3>3
  <2>3. CASE e # lock.date /\ \A j \in 1 .. Len(list) : list[j].date # e
    <3>1. ASSUME NEW j \in 1 .. Len(r)
          PROVE  r[j].date # e
      <4>1. CASE j < p
        <5>1. j \in 1 .. Len(list) /\ r[j] = list[j]
          BY <1>1, <4>1
        <5>. QED BY <2>3, <5>1
      <4>2. CASE j = p
        BY <1>1, <2>3, <4>2
      <4>3. CASE j > p
        <5>1. j - 1 \in 1 .. Len(list) /\ r[j] = list[j - 1]
          BY <1>1, <4>3
        <5>. QED BY <2>3, <5>1
      <4>. QED BY <1>1, <4>1, <4>2, <4>3
    <3>2. AmountInList(list, e) = 0 /\ AmountInList(r, e) = 0
      BY <2>3, <3>1, AmountNone
    <3>. QED BY <2>3, <3>2
  <2>. QED BY <2>1, <2>2, <2>3
<1>. QED BY <1>3, <1>5

\* SetLockByAddress, for a date the list does not hold yet.
LEMMA SetLockEffect ==
  ASSUME NEW list \in Seq(Lock), Ordered(list), NEW lock \in Lock,
         \A j \in 1 .. Len(list) : list[j].date # lock.date
  PROVE  LET r == SetLock(list, lock)
         IN  /\ r \in Seq(Lock)
             /\ Ordered(r)
             /\ \A j \in 1 .. Len(r) :
                   r[j] = lock \/ \E k \in 1 .. Len(list) : r[j] = list[k]
             /\ \A e \in Nat : AmountInList(r, e) = AmountInList(list, e)
                                   + IF e = lock.date THEN lock.amount ELSE 0
<1>. DEFINE I == {i \in 1 .. Len(list) : lock.date < list[i].date}
            r == SetLock(list, lock)
<1>1. /\ Len(list) \in Nat
      /\ lock.date \in Nat
      /\ \A j \in 1 .. Len(list) : list[j] \in Lock /\ list[j].date \in Nat
  BY ListFields, LockFields
<1>2. \A k, l \in 1 .. Len(list) : k < l => list[k].date < list[l].date
  BY ListFields DEF Ordered
<1>3. r = IF I = {} THEN Append(list, lock)
          ELSE SubSeq(list, 1, Min(I) - 1) \o <<lock>>
                   \o SubSeq(list, Min(I), Len(list))
  <2>1. I # {} => Min(I) # 0
    <3>1. I \subseteq Nat \ {0}
      OBVIOUS
    <3>. HIDE DEF I
    <3>. QED BY <3>1, MinExists DEF Min
  <2>. QED BY <2>1 DEF SetLock, SelectInSeq, InsertAt
<1>4. CASE I = {}
  <2>1. /\ r \in Seq(Lock)
        /\ Len(r) = Len(list) + 1
        /\ \A j \in 1 .. Len(r) : r[j] = IF j = Len(r) THEN lock ELSE list[j]
    BY <1>3, <1>4, AppendProperties
  <2>2. \A j \in 1 .. Len(list) : list[j].date < lock.date
    BY <1>1, <1>4
  <2>. HIDE DEF r, I
  <2>3. /\ Ordered(r)
        /\ \A e \in Nat : AmountInList(r, e) = AmountInList(list, e)
                              + IF e = lock.date THEN lock.amount ELSE 0
    <3>. DEFINE p == Len(r)
    <3>1. p \in 1 .. Len(r)
      BY <1>1, <2>1
    <3>2. \A j \in 1 .. Len(r) : r[j] = IF j < p THEN list[j]
                                     ELSE IF j = p THEN lock ELSE list[j - 1]
      BY <1>1, <2>1
    <3>3. \A j \in 1 .. Len(list) : /\ j < p => list[j].date < lock.date
                                    /\ j >= p => lock.date < list[j].date
      BY <1>1, <2>1, <2>2
    <3>. HIDE DEF p
    <3>. QED BY <2>1, <3>1, <3>2, <3>3, InsertEffect
  <2>4. \A j \in 1 .. Len(r) :
            r[j] = lock \/ \E k \in 1 .. Len(list) : r[j] = list[k]
    BY <1>1, <2>1
  <2>. QED BY <2>1, <2>3, <2>4 DEF r
<1>5. CASE I # {}
  <2>. DEFINE p == Min(I)
  <2>1. p \in I /\ \A y \in I : p <= y
    <3>1. I \subseteq Nat
      OBVIOUS
    <3>. HIDE DEF I
    <3>. QED BY <1>5, <3>1, MinExists DEF Min
  <2>2. p \in 1 .. Len(list) /\ lock.date < list[p].date
    BY <2>1
  <2>3. \A j \in 1 .. Len(list) : /\ j < p => list[j].date < lock.date
                                  /\ j >= p => lock.date < list[j].date
    <3>1. ASSUME NEW j \in 1 .. Len(list), j < p
          PROVE  list[j].date < lock.date
      BY <1>1, <2>1, <2>2, <3>1
    <3>2. ASSUME NEW j \in 1 .. Len(list), j >= p
          PROVE  lock.date < list[j].date
      BY <1>1, <1>2, <2>2, <3>2
    <3>. QED BY <3>1, <3>2
  <2>. DEFINE front == SubSeq(list, 1, p - 1)
              back  == SubSeq(list, p, Len(list))
  <2>4. r = (front \o <<lock>>) \o back
    BY <1>3, <1>5
  <2>. HIDE DEF p, I, r
  <2>5. /\ front \in Seq(Lock) /\ Len(front) = p - 1
        /\ \A j \in 1 .. p - 1 : front[j] = list[j]
    BY <1>1, <2>2, SubSeqProperties
  <2>6. /\ back \in Seq(Lock) /\ Len(back) = Len(list) - p + 1
        /\ \A j \in 1 .. Len(list) - p + 1 : back[j] = list[p + j - 1]
    BY <1>1, <2>2, SubSeqProperties
  <2>. HIDE DEF front, back
  <2>7. /\ front \o <<lock>> \in Seq(Lock) /\ Len(front \o <<lock>>) = p
        /\ \A j \in 1 .. p : (front \o <<lock>>)[j]
                                = IF j < p THEN list[j] ELSE lock
    <3>1. <<lock>> \in Seq(Lock) /\ Len(<<lock>>) = 1 /\ <<lock>>[1] = lock
      OBVIOUS
    <3>2. /\ front \o <<lock>> \in Seq(Lock)
          /\ Len(front \o <<lock>>) = Len(front) + 1
          /\ \A j \in 1 .. Len(front) + 1 : (front \o <<lock>>)[j]
                  = IF j <= Len(front) THEN front[j] ELSE <<lock>>[j - Len(front)]
      BY <2>5, <3>1, ConcatProperties
    <3>. QED BY <2>2, <2>5, <3>1, <3>2
  <2>8. /\ r \in Seq(Lock) /\ Len(r) = Len(list) + 1
        /\ \A j \in 1 .. Len(r) : r[j] = IF j < p THEN list[j]
                                     ELSE IF j = p THEN lock ELSE list[j - 1]
    <3>. DEFINE head == front \o <<lock>>
    <3>1. /\ r \in Seq(Lock) /\ Len(r) = Len(head) + Len(back)
          /\ \A j \in 1 .. Len(head) + Len(back) :
                r[j] = IF j <= Len(head) THEN head[j] ELSE back[j - Len(head)]
      BY <2>4, <2>6, <2>7, ConcatProperties
    <3>. HIDE DEF head
    <3>2. Len(head) = p /\ \A j \in 1 .. p : head[j] = IF j < p THEN list[j] ELSE lock
      BY <2>7 DEF head
    <3>3. Len(r) = Len(list) + 1
      BY <1>1, <2>2, <2>6, <3>1, <3>2
    <3>4. ASSUME NEW j \in 1 .. Len(r)
          PROVE  r[j] = IF j < p THEN list[j]
                        ELSE IF j = p THEN lock ELSE list[j - 1]
      <4>1. CASE j <= p
        BY <1>1, <2>2, <2>6, <3>1, <3>2, <4>1
      <4>2. CASE j > p
        <5>1. r[j] = back[j - p] /\ j - p \in 1 .. Len(list) - p + 1
          BY <1>1, <2>2, <2>6, <3>1, <3>2, <3>3, <4>2
        <5>2. p + (j - p) - 1 = j - 1
          BY <1>1, <2>2, <3>3
        <5>3. r[j] = list[j - 1]
          BY <2>6, <5>1, <5>2
        <5>4. ~(j < p) /\ j # p
          BY <1>1, <2>2, <3>3, <4>2
        <5>. QED BY <5>3, <5>4
      <4>. QED BY <1>1, <2>2, <3>3, <4>1, <4>2
    <3>. QED BY <3>1, <3>3, <3>4
  <2>9. /\ Ordered(r)
        /\ \A e \in Nat : AmountInList(r, e) = AmountInList(list, e)
                              + IF e = lock.date THEN lock.amount ELSE 0
    <3>1. p \in 1 .. Len(r)
      BY <1>1, <2>2, <2>8
    <3>. QED BY <2>3, <2>8, <3>1, InsertEffect
  <2>10. \A j \in 1 .. Len(r) :
            r[j] = lock \/ \E k \in 1 .. Len(list) : r[j] = list[k]
    <3>1. ASSUME NEW j \in 1 .. Len(r), j < p PROVE j \in 1 .. Len(list)
      BY <1>1, <2>2, <2>8, <3>1
    <3>2. ASSUME NEW j \in 1 .. Len(r), j > p PROVE j - 1 \in 1 .. Len(list)
      BY <1>1, <2>2, <2>8, <3>2
    <3>. QED BY <1>1, <2>2, <2>8, <3>1, <3>2
  <2>. QED BY <2>8, <2>9, <2>10 DEF r
<1>. QED BY <1>4, <1>5

\* DeleteLockByAddressAndIndex: the other locks stay, in their order.
LEMMA RemoveLockEffect ==
  ASSUME NEW list \in Seq(Lock), Ordered(list), NEW p \in 1 .. Len(list)
  PROVE  LET r == RemoveAt(list, p)
         IN  /\ r \in Seq(Lock)
             /\ Ordered(r)
             /\ \A j \in 1 .. Len(r) : \E k \in 1 .. Len(list) : r[j] = list[k]
             /\ \A e \in Nat : AmountInList(r, e)
                    = IF e = list[p].date THEN 0 ELSE AmountInList(list, e)
<1>. DEFINE front == SubSeq(list, 1, p - 1)
            back  == SubSeq(list, p + 1, Len(list))
            r     == RemoveAt(list, p)
            from(j) == IF j < p THEN j ELSE j + 1
            at(k)   == IF k < p THEN k ELSE k - 1
<1>1. /\ Len(list) \in Nat /\ p \in Nat
      /\ \A j \in 1 .. Len(list) : /\ list[j] \in Lock
                                    /\ list[j].date \in Nat
                                    /\ list[j].amount \in Nat
  BY ListFields
<1>2. \A k, l \in 1 .. Len(list) : k < l => list[k].date < list[l].date
  BY ListFields DEF Ordered
<1>3. /\ front \in Seq(Lock) /\ Len(front) = p - 1
      /\ \A j \in 1 .. p - 1 : front[j] = list[j]
  BY <1>1, SubSeqProperties
<1>4. /\ back \in Seq(Lock) /\ Len(back) = Len(list) - p
      /\ \A j \in 1 .. Len(list) - p : back[j] = list[p + j]
  <2>1. \A j \in p + 1 .. Len(list) : list[j] \in Lock
    BY <1>1
  <2>2. /\ back \in Seq(Lock)
        /\ Len(back) = IF p + 1 <= Len(list) THEN Len(list) - (p + 1) + 1 ELSE 0
        /\ \A j \in 1 .. Len(list) - (p + 1) + 1 : back[j] = list[p + 1 + j - 1]
    BY <1>1, <2>1, SubSeqProperties
  <2>3. \A j \in 1 .. Len(list) - p : p + 1 + j - 1 = p + j
    BY <1>1
  <2>. QED BY <1>1, <2>2, <2>3
<1>5. r = front \o back
  BY DEF RemoveAt
<1>. HIDE DEF front, back, r
<1>6. /\ r \in Seq(Lock) /\ Len(r) = Len(list) - 1
      /\ \A j \in 1 .. Len(r) : r[j] = list[from(j)] /\ from(j) \in 1 .. Len(list)
  <2>1. /\ r \in Seq(Lock) /\ Len(r) = Len(front) + Len(back)
        /\ \A j \in 1 .. Len(front) + Len(back) :
              r[j] = IF j <= Len(front) THEN front[j] ELSE back[j - Len(front)]
    BY <1>3, <1>4, <1>5, ConcatProperties
  <2>2. Len(r) = Len(list) - 1
    BY <1>1, <1>3, <1>4, <2>1
  <2>3. ASSUME NEW j \in 1 .. Len(r)
        PROVE  r[j] = list[from(j)] /\ from(j) \in 1 .. Len(list)
    <3>1. CASE j < p
      BY <1>1, <1>3, <2>1, <2>2, <3>1
    <3>2. CASE ~(j < p)
      <4>1. r[j] = back[j - (p - 1)] /\ j - (p - 1) \in 1 .. Len(list) - p
        BY <1>1, <1>3, <1>4, <2>1, <2>2, <3>2
      <4>2. p + (j - (p - 1)) = j + 1
        BY <1>1, <2>2
      <4>3. r[j] = list[j + 1]
        BY <1>4, <4>1, <4>2
      <4>. QED BY <1>1, <2>2, <3>2, <4>3
    <3>. QED BY <3>1, <3>2
  <2>. QED BY <2>1, <2>2, <2>3
<1>7. Ordered(r)
  <2>1. ASSUME NEW i \in 1 .. Len(r), NEW j \in 1 .. Len(r), i < j
        PROVE  r[i].date < r[j].date
    <3>1. from(i) < from(j)
      BY <1>1, <1>6, <2>1
    <3>2. /\ from(i) \in 1 .. Len(list) /\ from(j) \in 1 .. Len(list)
          /\ r[i] = list[from(i)] /\ r[j] = list[from(j)]
      BY <1>6
    <3>. HIDE DEF from
    <3>. QED BY <1>2, <3>1, <3>2
  <2>. QED BY <1>6, <2>1, ListFields DEF Ordered
<1>8. ASSUME NEW e \in Nat
      PROVE  AmountInList(r, e)
                = IF e = list[p].date THEN 0 ELSE AmountInList(list, e)
  <2>1. CASE e # list[p].date /\ \E k \in 1 .. Len(list) : list[k].date = e
    <3>1. PICK k \in 1 .. Len(list) : list[k].date = e
      BY <2>1
    <3>2. at(k) \in 1 .. Len(r) /\ from(at(k)) = k
      <4>1. k # p
        BY <2>1, <3>1
      <4>. QED BY <1>1, <1>6, <4>1
    <3>3. r[at(k)] = list[k]
      BY <1>6, <3>2
    <3>. HIDE DEF at, from
    <3>4. AmountInList(r, e) = list[k].amount
      BY <1>6, <1>7, <3>1, <3>2, <3>3, AmountAt
    <3>5. AmountInList(list, e) = list[k].amount
      BY <3>1, AmountAt
    <3>. QED BY <2>1, <3>4, <3>5
  <2>2. CASE \A k \in 1 .. Len(list) : list[k].date = e => k = p
    <3>1. ASSUME NEW j \in 1 .. Len(r)
          PROVE  r[j].date # e
      <4>1. from(j) # p
        BY <1>1, <1>6
      <4>2. r[j] = list[from(j)] /\ from(j) \in 1 .. Len(list)
        BY <1>6
      <4>. HIDE DEF from
      <4>. QED BY <2>2, <4>1, <4>2
    <3>2. AmountInList(r, e) = 0
      BY <1>6, <3>1, AmountNone
    <3>3. e # list[p].date => AmountInList(list, e) = 0
      BY <2>2, AmountNone
    <3>. QED BY <3>2, <3>3
  <2>3. e = list[p].date => \A k \in 1 .. Len(list) : list[k].date = e => k = p
    BY OneLockPerDate
  <2>. QED BY <2>1, <2>2, <2>3
<1>9. \A j \in 1 .. Len(r) : \E k \in 1 .. Len(list) : r[j] = list[k]
  <2>. HIDE DEF from
  <2>. QED BY <1>6
<1>. QED BY <1>6, <1>7, <1>8, <1>9 DEF r

-----------------------------------------------------------------------------
\* What Lock, and the second half of Extend, do to a list: the amount for the
\* date grows by n, and nothing else changes.
LEMMA CreditLockEffect ==
  ASSUME NEW list \in Seq(Lock), Ordered(list), NEW d \in Nat, NEW n \in Nat
  PROVE  LET r == CreditLock(list, d, n)
         IN  /\ r \in Seq(Lock)
             /\ Ordered(r)
             /\ \A j \in 1 .. Len(r) :
                   \/ r[j].date = d /\ r[j].amount >= n
                   \/ \E k \in 1 .. Len(list) : r[j] = list[k]
             /\ \A e \in Nat : AmountInList(r, e) = AmountInList(list, e)
                                   + IF e = d THEN n ELSE 0
<1>. DEFINE i == LockIndex(list, d)
            lock == [date |-> d, amount |-> n]
            r == CreditLock(list, d, n)
<1>1. /\ i \in 0 .. Len(list)
      /\ i = 0 => \A j \in 1 .. Len(list) : list[j].date # d
      /\ i # 0 => list[i].date = d
  BY LockIndexFinds
<1>2. /\ Len(list) \in Nat
      /\ \A j \in 1 .. Len(list) : list[j].amount \in Nat
  BY ListFields
<1>3. r = IF i # 0 THEN AdjustLock(list, i, n) ELSE SetLock(list, lock)
  BY DEF CreditLock
<1>. HIDE DEF i, r
<1>4. CASE i # 0
  <2>1. i \in 1 .. Len(list) /\ list[i].amount + n \in Nat /\ n \in Int
    BY <1>1, <1>2, <1>4
  <2>2. /\ r \in Seq(Lock)
        /\ Ordered(r)
        /\ Len(r) = Len(list)
        /\ \A j \in 1 .. Len(r) : r[j].date = list[j].date
        /\ \A j \in 1 .. Len(r) : j # i => r[j] = list[j]
        /\ r[i].amount = list[i].amount + n
        /\ \A e \in Nat : AmountInList(r, e) = AmountInList(list, e)
                              + IF e = list[i].date THEN n ELSE 0
    BY <1>3, <1>4, <2>1, AdjustLockEffect
  <2>3. r[i].amount >= n
    BY <1>2, <2>1, <2>2
  <2>. QED BY <1>1, <1>4, <2>1, <2>2, <2>3 DEF r
<1>5. CASE i = 0
  <2>1. lock \in Lock /\ lock.date = d /\ lock.amount = n
    BY DEF Lock
  <2>. HIDE DEF lock
  <2>2. /\ r \in Seq(Lock)
        /\ Ordered(r)
        /\ \A j \in 1 .. Len(r) :
              r[j] = lock \/ \E k \in 1 .. Len(list) : r[j] = list[k]
        /\ \A e \in Nat : AmountInList(r, e) = AmountInList(list, e)
                              + IF e = lock.date THEN lock.amount ELSE 0
    BY <1>1, <1>3, <1>5, <2>1, SetLockEffect
  <2>. QED BY <2>1, <2>2 DEF r
<1>. QED BY <1>4, <1>5

\* What the first half of Extend does to a list: the amount for the date
\* shrinks by n, and an emptied lock is gone.
LEMMA DebitLockEffect ==
  ASSUME NEW list \in Seq(Lock), Ordered(list), NEW d \in Nat, NEW n \in Nat,
         LockIndex(list, d) # 0, n <= AmountInList(list, d)
  PROVE  LET r == DebitLock(list, d, n)
         IN  /\ r \in Seq(Lock)
             /\ Ordered(r)
             /\ \A j \in 1 .. Len(r) :
                   \E k \in 1 .. Len(list) :
                      r[j].date = list[k].date /\ (r[j] = list[k] \/ r[j].amount > 0)
             /\ \A e \in Nat : AmountInList(r, e) = AmountInList(list, e)
                                   - IF e = d THEN n ELSE 0
<1>. DEFINE i == LockIndex(list, d)
            r == DebitLock(list, d, n)
<1>1. i \in 1 .. Len(list) /\ list[i].date = d
  BY LockIndexFinds
<1>2. /\ Len(list) \in Nat
      /\ \A j \in 1 .. Len(list) : list[j].amount \in Nat
  BY ListFields
<1>3. AmountInList(list, d) = list[i].amount
  BY DEF AmountInList
<1>4. r = IF list[i].amount = n THEN RemoveAt(list, i) ELSE AdjustLock(list, i, -n)
  BY DEF DebitLock
<1>5. \A e \in Nat : AmountInList(list, e) \in Nat
  BY AmountIsNat
<1>. HIDE DEF i, r
<1>6. CASE list[i].amount = n
  <2>1. /\ r \in Seq(Lock)
        /\ Ordered(r)
        /\ \A j \in 1 .. Len(r) : \E k \in 1 .. Len(list) : r[j] = list[k]
        /\ \A e \in Nat : AmountInList(r, e)
              = IF e = list[i].date THEN 0 ELSE AmountInList(list, e)
    BY <1>1, <1>4, <1>6, RemoveLockEffect
  <2>2. ASSUME NEW e \in Nat
        PROVE  AmountInList(r, e) = AmountInList(list, e) - IF e = d THEN n ELSE 0
    <3>1. AmountInList(r, e) = IF e = d THEN 0 ELSE AmountInList(list, e)
      BY <1>1, <2>1
    <3>2. AmountInList(list, e) \in Nat /\ (e = d => AmountInList(list, e) = n)
      BY <1>3, <1>5, <1>6
    <3>. QED BY <3>1, <3>2
  <2>. QED BY <2>1, <2>2 DEF r
<1>7. CASE list[i].amount # n
  <2>1. list[i].amount + (-n) \in Nat \ {0} /\ -n \in Int
    BY <1>1, <1>2, <1>3, <1>7
  <2>2. /\ r \in Seq(Lock)
        /\ Ordered(r)
        /\ Len(r) = Len(list)
        /\ \A j \in 1 .. Len(r) : r[j].date = list[j].date
        /\ \A j \in 1 .. Len(r) : j # i => r[j] = list[j]
        /\ r[i].amount = list[i].amount + (-n)
        /\ \A e \in Nat : AmountInList(r, e) = AmountInList(list, e)
                              + IF e = list[i].date THEN -n ELSE 0
    BY <1>1, <1>4, <1>7, <2>1, AdjustLockEffect
  <2>3. r[i].amount > 0
    BY <2>1, <2>2
  <2>4. ASSUME NEW e \in Nat
        PROVE  AmountInList(r, e) = AmountInList(list, e) - IF e = d THEN n ELSE 0
    <3>1. AmountInList(r, e) = AmountInList(list, e) + IF e = d THEN -n ELSE 0
      BY <1>1, <2>2
    <3>2. AmountInList(list, e) \in Nat
      BY <1>5
    <3>. QED BY <3>1, <3>2
  <2>. QED BY <1>2, <2>2, <2>3, <2>4 DEF r
<1>. QED BY <1>6, <1>7
==============================================================================
