--------------------------- MODULE LockupTheorems ----------------------------
(***************************************************************************)
(* The inductive invariant of Lockup and what follows from it, for any     *)
(* accounts, validators, transactions, horizon, days and amounts.          *)
(***************************************************************************)
EXTENDS LockupProofs

\* Between transactions the cache is the committed store; a running transaction
\* is one that the ante handler or the precompile let through, so Extend's loop,
\* which does not look at the amounts, only meets positive ones; and a loop's
\* index never passes the end of the message it is in.
TxMachine ==
    /\ Idle => lockupC = lockup
    /\ \A i \in DOMAIN tx.msgs : tx.msgs[i].type = "Extend" =>
          /\ tx.msgs[i].exts # <<>>
          /\ \A j \in DOMAIN tx.msgs[i].exts : tx.msgs[i].exts[j].amt > 0
    /\ sub > 1 => \/ At("Extend") /\ sub <= Len(Msg.exts)
                  \/ At("MultiSendDelegateAndLock") /\ sub <= Len(Msg.outs)

\* The invariant that every step restores.  IndexAgreement alone is not
\* inductive: Extend looks its amount up in the list and takes it from the
\* queue, which needs ordered lists (one lock per date) and positive amounts,
\* which the ante handler checked when the transaction began.
IInv ==
    /\ TypeOK
    /\ TxMachine
    /\ StoreInv(lockup, day)
    /\ StoreInv(lockupC, day)

-----------------------------------------------------------------------------
(* Messages                                                                 *)

\* The fields of the messages that write locks.
LEMMA MessageFields ==
  ASSUME NEW m \in Message
  PROVE  /\ m.type = "Lock" =>
               m.addr \in Addr /\ m.date \in Date /\ m.amt \in Amount
         /\ m.type = "Extend" => m.addr \in Addr /\ m.exts \in Seq(Extension)
         /\ m.type = "SendDelegateAndLock" =>
               m.to \in Addr /\ m.date \in Date /\ m.amt \in Amount
         /\ m.type = "MultiSendDelegateAndLock" => m.outs \in Seq(Output)
         /\ m.type = "BeginRedelegate" => m.addr \in Addr /\ m.src \in Val
<1>1. CASE m \in [type : {"Lock"}, addr : Addr, date : Date, amt : Amount]
  BY <1>1
<1>2. CASE m \in [type : {"Extend"}, addr : Addr, exts : Seq(Extension)]
  BY <1>2
<1>3. CASE m \in [type : {"SendDelegateAndLock"}, from : Addr, to : Addr, val : Val,
                  date : Date, amt : Amount]
  BY <1>3
<1>4. CASE m \in [type : {"MultiSendDelegateAndLock"}, from : Addr, total : Nat,
                  outs : Seq(Output)]
  BY <1>4
<1>5. CASE m \in [type : {"Delegate", "Undelegate"}, addr : Addr, val : Val,
                  amt : Amount]
  BY <1>5
<1>6. CASE m \in [type : {"BeginRedelegate"}, addr : Addr, src : Val, dst : Val,
                  amt : Amount]
  BY <1>6
<1>7. CASE m \in [type : {"Send"}, from : Addr, to : Addr, amt : Amount]
  BY <1>7
<1>. QED BY <1>1, <1>2, <1>3, <1>4, <1>5, <1>6, <1>7 DEF Message

\* A transaction that may run has messages, each of them a Message.
LEMMA TxFields ==
  ASSUME NEW t \in Txs
  PROVE  /\ t.msgs \in Seq(Message) /\ t.msgs # <<>> /\ Len(t.msgs) \in Nat \ {0}
         /\ DOMAIN t.msgs = 1 .. Len(t.msgs)
         /\ \A i \in 1 .. Len(t.msgs) : t.msgs[i] \in Message
         /\ t # NoTx
<1>1. t.msgs \in Seq(Message) /\ t.msgs # <<>>
  BY TxsAssumption
<1>. QED BY <1>1 DEF NoTx

\* The message a handler runs on.
LEMMA MsgFields ==
  ASSUME TypeOK, ~Idle, pc <= Len(tx.msgs)
  PROVE  /\ tx \in Txs /\ pc \in 1 .. Len(tx.msgs)
         /\ Msg \in Message
         /\ DOMAIN tx.msgs = 1 .. Len(tx.msgs)
<1>1. tx \in Txs
  BY DEF TypeOK, Idle
<1>2. pc \in 1 .. Len(tx.msgs)
  BY <1>1, TxFields DEF TypeOK
<1>. QED BY <1>1, <1>2, TxFields DEF Msg

\* The markers are pairs of an account and a validator.
LEMMA MarkersType ==
  ASSUME NEW t \in Txs
  PROVE  Markers(t) \subseteq Addr \X Val
<1>1. \A i \in DOMAIN t.msgs : t.msgs[i] \in Message
  BY TxFields
<1>. QED BY <1>1, MessageFields DEF Markers

-----------------------------------------------------------------------------
(* The transaction machine                                                  *)

\* How often a handler's loop runs.
Iterations(m) ==
    CASE m.type = "Extend" -> Len(m.exts)
      [] m.type = "MultiSendDelegateAndLock" -> Len(m.outs)
      [] OTHER -> 1

\* A handler step leaves the machine at the next iteration or message.
LEMMA Advance ==
  ASSUME TypeOK, TxMachine, ~Idle, pc <= Len(tx.msgs),
         UNCHANGED <<lockup, tx, marked, day>>, IsLockupStore(lockupC'),
         NextMsg \/ NextIteration(Iterations(Msg))
  PROVE  TypeOK' /\ TxMachine'
<1>1. /\ tx \in Txs /\ pc \in 1 .. Len(tx.msgs) /\ Msg \in Message
      /\ Len(tx.msgs) \in Nat /\ sub \in Nat \ {0}
  BY MsgFields, TxFields DEF TypeOK
<1>2. \/ pc' = pc + 1 /\ sub' = 1
      \/ pc' = pc /\ sub' = sub + 1 /\ sub < Iterations(Msg)
  BY DEF NextMsg, NextIteration
<1>3. TypeOK'
  BY <1>1, <1>2 DEF TypeOK
<1>4. ~Idle'
  BY DEF Idle
<1>5. CASE pc' = pc + 1 /\ sub' = 1
  BY <1>3, <1>4, <1>5 DEF TxMachine
<1>6. CASE pc' = pc /\ sub' = sub + 1 /\ sub < Iterations(Msg)
  <2>1. Msg' = Msg
    BY <1>6 DEF Msg
  <2>2. \/ Msg.type = "Extend" /\ Iterations(Msg) = Len(Msg.exts)
        \/ Msg.type = "MultiSendDelegateAndLock" /\ Iterations(Msg) = Len(Msg.outs)
        \/ Iterations(Msg) = 1
    BY DEF Iterations
  <2>3. /\ Msg.type = "Extend" => Len(Msg.exts) \in Nat
        /\ Msg.type = "MultiSendDelegateAndLock" => Len(Msg.outs) \in Nat
    BY <1>1, MessageFields
  <2>4. \/ Msg.type = "Extend" /\ sub + 1 <= Len(Msg.exts)
        \/ Msg.type = "MultiSendDelegateAndLock" /\ sub + 1 <= Len(Msg.outs)
    BY <1>1, <1>6, <2>2, <2>3
  <2>5. /\ Msg.type = "Extend" => At("Extend")'
        /\ Msg.type = "MultiSendDelegateAndLock" => At("MultiSendDelegateAndLock")'
    BY <1>4, <1>6, <2>1 DEF At
  <2>6. sub' > 1 => \/ At("Extend")' /\ sub' <= Len(Msg'.exts)
                    \/ At("MultiSendDelegateAndLock")' /\ sub' <= Len(Msg'.outs)
    BY <1>6, <2>1, <2>4, <2>5
  <2>. QED BY <1>3, <1>4, <2>6 DEF TxMachine
<1>. QED BY <1>2, <1>3, <1>5, <1>6

-----------------------------------------------------------------------------
(* Steps, each with the step of LockLedger it is                            *)

\* A handler that locks n for account a until d records it in the ledger.
LEMMA LockStep ==
  ASSUME IInv, ~Idle, pc <= Len(tx.msgs), UNCHANGED <<lockup, tx, marked, day>>,
         NextMsg \/ NextIteration(Iterations(Msg)),
         NEW a \in Addr, NEW d \in Date, NEW n \in Amount, n > 0,
         day < d, d <= day + Horizon, lockupC' = AfterLock(lockupC, a, d, n)
  PROVE  IInv' /\ Ledger!Next
<1>1. day \in Nat /\ n \in Nat \ {0} /\ StoreInv(lockupC, day)
  BY BoundsAssumption DEF IInv, TypeOK, Amount
<1>2. /\ StoreInv(lockupC', day)
      /\ AsLedger(lockupC') = [AsLedger(lockupC) EXCEPT ![a][d] = @ + n]
  BY <1>1, AfterLockKeeps
<1>3. IInv'
  <2>1. TypeOK' /\ TxMachine'
    BY <1>2, Advance DEF IInv, StoreInv
  <2>2. StoreInv(lockup, day)' /\ StoreInv(lockupC, day)'
    BY <1>2 DEF IInv, StoreInv
  <2>. QED BY <2>1, <2>2 DEF IInv
<1>4. Ledger!Record(a, d, n)
  BY <1>2 DEF Ledger!Record, Ledger!Ahead, AsLedger
<1>. QED BY <1>3, <1>4 DEF Ledger!Next

\* A handler that writes no lock leaves the ledger alone.
LEMMA ChainStep ==
  ASSUME IInv, ~Idle, pc <= Len(tx.msgs), NextMsg \/ NextIteration(Iterations(Msg)),
         UNCHANGED <<lockup, lockupC, tx, marked, day>>
  PROVE  IInv' /\ UNCHANGED Ledger!vars
<1>1. TypeOK' /\ TxMachine'
  BY Advance DEF IInv, StoreInv
<1>2. StoreInv(lockup, day)' /\ StoreInv(lockupC, day)'
  BY DEF IInv, StoreInv
<1>3. UNCHANGED Ledger!vars
  BY DEF Ledger!vars, AsLedger
<1>. QED BY <1>1, <1>2, <1>3 DEF IInv

\* One iteration of Extend moves an amount to a later date.
LEMMA ExtendStep ==
  ASSUME IInv, DoExtend
  PROVE  IInv' /\ Ledger!Next
<1>. DEFINE e == Msg.exts[sub]
<1>1. /\ ~Idle /\ pc <= Len(tx.msgs) /\ Msg.type = "Extend"
      /\ UNCHANGED <<lockup, tx, marked, day>>
      /\ NextIteration(Len(Msg.exts))
      /\ CanExtend(lockupC, Ctx, Msg.addr, e)
      /\ lockupC' = AfterExtend(lockupC, Msg.addr, e)
      /\ TypeOK /\ TxMachine
  BY DEF DoExtend, At, IInv
<1>2. /\ Msg \in Message /\ Msg.addr \in Addr /\ Msg.exts \in Seq(Extension)
      /\ pc \in DOMAIN tx.msgs /\ Msg.exts # <<>>
      /\ \A j \in DOMAIN Msg.exts : Msg.exts[j].amt > 0
  <2>1. Msg \in Message /\ pc \in DOMAIN tx.msgs
    BY <1>1, MsgFields
  <2>. QED BY <1>1, <2>1, MessageFields DEF TxMachine, Msg
<1>3. sub \in 1 .. Len(Msg.exts)
  <2>1. sub \in Nat \ {0} /\ Len(Msg.exts) \in Nat \ {0}
    BY <1>1, <1>2 DEF TypeOK
  <2>2. sub > 1 => sub <= Len(Msg.exts)
    BY <1>1 DEF TxMachine, At
  <2>. QED BY <2>1, <2>2
<1>4. e \in Extension /\ e.amt > 0
  BY <1>2, <1>3
<1>5. /\ e.from \in Date /\ e.to \in Date /\ e.amt \in Amount
      /\ e = [from |-> e.from, to |-> e.to, amt |-> e.amt]
  BY <1>4 DEF Extension
<1>. HIDE DEF e
<1>6. /\ e.from < e.to /\ day < e.to /\ e.to <= day + Horizon
      /\ LockIndex(lockupC.locks[Msg.addr], e.from) # 0
      /\ AmountInList(lockupC.locks[Msg.addr], e.from) >= e.amt
  BY <1>1, <1>5, DateIsNat DEF CanExtend, Ctx
<1>7. day \in Nat /\ e.amt \in Nat \ {0} /\ StoreInv(lockupC, day)
      /\ AmountInList(lockupC.locks[Msg.addr], e.from) \in Nat
  <2>1. day \in Nat /\ e.amt \in Nat \ {0}
    BY <1>1, <1>4, <1>5, BoundsAssumption DEF TypeOK, Amount
  <2>2. StoreInv(lockupC, day)
    BY DEF IInv
  <2>. QED BY <1>2, <1>5, <2>1, <2>2, AmountIsNat, DateIsNat DEF StoreInv, IsLockupStore
<1>8. e.amt <= AmountInList(lockupC.locks[Msg.addr], e.from)
  BY <1>6, <1>7
<1>9. /\ StoreInv(lockupC', day)
      /\ AsLedger(lockupC') = [AsLedger(lockupC) EXCEPT
                ![Msg.addr][e.from] = @ - e.amt, ![Msg.addr][e.to] = @ + e.amt]
  <2>. DEFINE a == Msg.addr
              d == e.from
              f == e.to
              n == e.amt
              r == AfterExtend(lockupC, a, [from |-> d, to |-> f, amt |-> n])
  <2>1. lockupC' = r
    BY <1>1, <1>5
  <2>2. /\ a \in Addr /\ d \in Date /\ f \in Date /\ n \in Nat \ {0}
        /\ d < f /\ f <= day + Horizon
        /\ LockIndex(lockupC.locks[a], d) # 0
        /\ n <= AmountInList(lockupC.locks[a], d)
    BY <1>2, <1>5, <1>6, <1>7, <1>8
  <2>. HIDE DEF a, d, f, n
  <2>3. /\ StoreInv(r, day)
        /\ AsLedger(r) = Moved(AsLedger(lockupC), a, d, f, n)
    BY <1>7, <2>2, AfterExtendKeeps
  <2>. HIDE DEF r
  <2>. QED BY <2>1, <2>3 DEF a, d, f, n, Moved
<1>10. IInv'
  <2>1. NextIteration(Iterations(Msg))
    BY <1>1 DEF Iterations
  <2>2. TypeOK' /\ TxMachine'
    BY <1>1, <1>9, <2>1, Advance DEF StoreInv
  <2>3. StoreInv(lockup, day)' /\ StoreInv(lockupC, day)'
    BY <1>1, <1>9 DEF IInv, StoreInv
  <2>. QED BY <2>2, <2>3 DEF IInv
<1>11. Ledger!MoveLater(Msg.addr, e.from, e.to, e.amt)
  <2>1. AsLedger(lockupC)[Msg.addr][e.from]
          = AmountInList(lockupC.locks[Msg.addr], e.from)
    BY <1>2, <1>5 DEF AsLedger
  <2>2. AsLedger(lockup)' = AsLedger(lockup) /\ AsLedger(lockupC)' = AsLedger(lockupC')
    BY <1>1 DEF AsLedger
  <2>. QED BY <1>1, <1>4, <1>6, <1>8, <1>9, <2>1, <2>2
           DEF Ledger!MoveLater, Ledger!Ahead
<1>. QED BY <1>2, <1>5, <1>10, <1>11 DEF Ledger!Next

\* Every handler, and its step of the ledger.
LEMMA MessageStepKeeps ==
  ASSUME IInv, MessageStep
  PROVE  IInv' /\ [Ledger!Next]_(Ledger!vars)
<1>1. CASE DoLock
  <2>1. /\ ~Idle /\ pc <= Len(tx.msgs) /\ Msg.type = "Lock"
        /\ UNCHANGED <<lockup, tx, marked, day>> /\ NextMsg
        /\ Msg.amt > 0 /\ day < Msg.date /\ Msg.date <= day + Horizon
        /\ lockupC' = AfterLock(lockupC, Msg.addr, Msg.date, Msg.amt)
    BY <1>1 DEF DoLock, At, CanLock, Ctx
  <2>2. Msg.addr \in Addr /\ Msg.date \in Date /\ Msg.amt \in Amount
    BY <2>1, MsgFields, MessageFields DEF IInv
  <2>. QED BY <2>1, <2>2, LockStep
<1>2. CASE DoExtend
  BY <1>2, ExtendStep
<1>3. CASE DoSendDelegateAndLock
  <2>1. /\ ~Idle /\ pc <= Len(tx.msgs) /\ Msg.type = "SendDelegateAndLock"
        /\ UNCHANGED <<lockup, tx, marked, day>> /\ NextMsg
        /\ Msg.amt > 0 /\ day < Msg.date /\ Msg.date <= day + Horizon
        /\ lockupC' = AfterLock(lockupC, Msg.to, Msg.date, Msg.amt)
    BY <1>3 DEF DoSendDelegateAndLock, At, CanSendDelegateAndLock, CanLock, Ctx
  <2>2. Msg.to \in Addr /\ Msg.date \in Date /\ Msg.amt \in Amount
    BY <2>1, MsgFields, MessageFields DEF IInv
  <2>. QED BY <2>1, <2>2, LockStep
<1>4. CASE DoMultiSendDelegateAndLock
  <2>. DEFINE o == Msg.outs[sub]
  <2>1. /\ ~Idle /\ pc <= Len(tx.msgs) /\ Msg.type = "MultiSendDelegateAndLock"
        /\ UNCHANGED <<lockup, tx, marked, day>> /\ NextIteration(Iterations(Msg))
    BY <1>4 DEF DoMultiSendDelegateAndLock, At, Iterations
  <2>2. CASE Msg.outs = <<>>
    <3>1. UNCHANGED lockupC
      BY <1>4, <2>2 DEF DoMultiSendDelegateAndLock
    <3>. QED BY <2>1, <3>1, ChainStep
  <2>3. CASE Msg.outs # <<>>
    <3>1. /\ o.amt > 0 /\ day < o.date /\ o.date <= day + Horizon
          /\ lockupC' = AfterLock(lockupC, o.to, o.date, o.amt)
      BY <1>4, <2>3 DEF DoMultiSendDelegateAndLock, CanSendDelegateAndLock,
                        CanLock, Ctx
    <3>2. Msg.outs \in Seq(Output)
      BY <2>1, MsgFields, MessageFields DEF IInv
    <3>3. sub \in 1 .. Len(Msg.outs)
      <4>1. sub \in Nat \ {0} /\ Len(Msg.outs) \in Nat \ {0}
        BY <2>3, <3>2 DEF IInv, TypeOK
      <4>2. sub > 1 => sub <= Len(Msg.outs)
        BY <2>1 DEF IInv, TxMachine, At
      <4>. QED BY <4>1, <4>2
    <3>4. o \in Output
      BY <3>2, <3>3
    <3>5. o.to \in Addr /\ o.date \in Date /\ o.amt \in Amount
      BY <3>4 DEF Output
    <3>. HIDE DEF o
    <3>. QED BY <2>1, <3>1, <3>5, LockStep
  <2>. QED BY <2>2, <2>3
<1>5. CASE DoDelegate \/ DoUndelegate \/ DoBeginRedelegate \/ DoSend
  <2>1. /\ ~Idle /\ pc <= Len(tx.msgs) /\ NextMsg
        /\ UNCHANGED <<lockup, lockupC, tx, marked, day>>
    BY <1>5 DEF DoDelegate, DoUndelegate, DoBeginRedelegate, DoSend, At
  <2>. QED BY <2>1, ChainStep
<1>. QED BY <1>1, <1>2, <1>3, <1>4, <1>5 DEF MessageStep

\* A transaction starts with an empty cache and has passed the checks.
LEMMA BeginTxKeeps ==
  ASSUME IInv, NEW t \in Txs, BeginTx(t)
  PROVE  IInv' /\ UNCHANGED Ledger!vars
<1>1. /\ tx' = t /\ pc' = 1 /\ sub' = 1 /\ marked' = Markers(t) /\ lockupC = lockup
      /\ UNCHANGED <<lockup, lockupC, day>>
      /\ \A i \in DOMAIN t.msgs : PrecompileAccepts(t.msgs[i]) \/ ValidateBasic(t.msgs[i])
  BY DEF BeginTx, AnteHandler, IInv, TxMachine
<1>2. TypeOK'
  BY <1>1, TxFields, MarkersType DEF IInv, TypeOK
<1>3. \A i \in DOMAIN t.msgs : t.msgs[i].type = "Extend" =>
          /\ t.msgs[i].exts # <<>>
          /\ \A j \in DOMAIN t.msgs[i].exts : t.msgs[i].exts[j].amt > 0
  BY <1>1 DEF PrecompileAccepts, ValidateBasic
<1>4. TxMachine'
  BY <1>1, <1>3 DEF TxMachine
<1>5. StoreInv(lockup, day)' /\ StoreInv(lockupC, day)'
  BY <1>1 DEF IInv, StoreInv
<1>6. UNCHANGED Ledger!vars
  BY <1>1 DEF Ledger!vars, AsLedger
<1>. QED BY <1>2, <1>4, <1>5, <1>6 DEF IInv

\* A transaction ends with its cache written back, or dropped.
LEMMA EndTxKeeps ==
  ASSUME IInv, CommitTx \/ FailTx
  PROVE  IInv' /\ Ledger!Next
<1>1. /\ tx' = NoTx /\ pc' = 1 /\ sub' = 1 /\ marked' = {} /\ day' = day
      /\ \/ lockup' = lockupC /\ lockupC' = lockupC
         \/ lockup' = lockup /\ lockupC' = lockup
  BY DEF CommitTx, FailTx, EndTx
<1>2. StoreInv(lockup', day) /\ StoreInv(lockupC', day) /\ lockup' = lockupC'
  BY <1>1 DEF IInv
<1>3. StoreInv(lockup, day)' /\ StoreInv(lockupC, day)'
  BY <1>1, <1>2 DEF StoreInv
<1>4. TypeOK'
  BY <1>1, <1>2 DEF IInv, TypeOK, StoreInv, NoTx
<1>5. TxMachine'
  BY <1>1, <1>2 DEF TxMachine, NoTx
<1>6. Ledger!Publish \/ Ledger!Drop
  BY <1>1 DEF Ledger!Publish, Ledger!Drop, AsLedger
<1>. QED BY <1>3, <1>4, <1>5, <1>6 DEF IInv, Ledger!Next

\* A list that is well-formed today is well-formed tomorrow.
LEMMA NextDayKeeps ==
  ASSUME IInv, NextDay
  PROVE  IInv' /\ Ledger!Next
<1>1. /\ day' = day + 1 /\ day \in 0 .. MaxDay /\ day < MaxDay
      /\ UNCHANGED <<lockup, lockupC, tx, pc, sub, marked>> /\ lockupC = lockup
  BY DEF NextDay, IInv, TypeOK, TxMachine
<1>2. ASSUME NEW list \in Seq(Lock), WellFormed(list, day)
      PROVE  WellFormed(list, day + 1)
  <2>1. \A i \in 1 .. Len(list) : list[i].date \in Nat /\ list[i].date <= day + Horizon
    BY <1>2, ListFields DEF WellFormed
  <2>2. \A i \in 1 .. Len(list) : list[i].date <= day + 1 + Horizon
    BY <1>1, <2>1, BoundsAssumption
  <2>. QED BY <1>2, <2>2, ListFields DEF WellFormed
<1>3. StoreInv(lockup, day)' /\ StoreInv(lockupC, day)'
  <2>1. \A addr \in Addr : WellFormed(lockup.locks[addr], day + 1)
    BY <1>2 DEF IInv, StoreInv, IsLockupStore
  <2>. QED BY <1>1, <2>1 DEF IInv, StoreInv
<1>4. TypeOK'
  BY <1>1, BoundsAssumption DEF IInv, TypeOK
<1>5. TxMachine'
  BY <1>1 DEF IInv, TxMachine, Idle, At, Msg
<1>6. Ledger!NewDay
  BY <1>1 DEF Ledger!NewDay, AsLedger
<1>. QED BY <1>3, <1>4, <1>5, <1>6 DEF IInv, Ledger!Next

\* Steps that touch nothing of the module.
LEMMA OutsideKeeps ==
  ASSUME IInv, UNCHANGED <<lockup, lockupC, tx, pc, sub, marked, day>>
  PROVE  IInv' /\ UNCHANGED Ledger!vars
<1>1. TypeOK' /\ TxMachine'
  BY DEF IInv, TypeOK, TxMachine, Idle, At, Msg
<1>2. StoreInv(lockup, day)' /\ StoreInv(lockupC, day)'
  BY DEF IInv, StoreInv
<1>3. UNCHANGED Ledger!vars
  BY DEF Ledger!vars, AsLedger
<1>. QED BY <1>1, <1>2, <1>3 DEF IInv

-----------------------------------------------------------------------------
(* Theorems                                                                 *)

\* The empty stores of InitChain satisfy the invariant and are the empty ledger.
LEMMA InitKeeps == Init => IInv /\ Ledger!Init
<1>. SUFFICES ASSUME Init PROVE IInv /\ Ledger!Init
  OBVIOUS
<1>1. /\ lockup = EmptyLockup /\ lockupC = EmptyLockup /\ tx = NoTx /\ pc = 1
      /\ sub = 1 /\ marked = {} /\ day = 0
  BY DEF Init
<1>2. \A d \in Date, a \in Addr :
         AmountInList(<<>>, d) = 0 /\ AmountInQueue(<<>>, d, a) = 0
  <2>1. ASSUME NEW d \in Date
        PROVE  AmountInList(<<>>, d) = 0
    <3>1. <<>> \in Seq(Lock) /\ \A i \in 1 .. Len(<<>>) : <<>>[i].date # d
      OBVIOUS
    <3>. QED BY <3>1, AmountNone, DateIsNat
  <2>2. \A d \in Date, a \in Addr : AmountInQueue(<<>>, d, a) = 0
    BY DEF AmountInQueue
  <2>. QED BY <2>1, <2>2
<1>3. StoreInv(EmptyLockup, 0)
  <2>1. IsLockupStore(EmptyLockup)
    BY DEF IsLockupStore, EmptyLockup
  <2>2. \A a \in Addr : EmptyLockup.locks[a] = <<>>
    BY DEF EmptyLockup
  <2>3. WellFormed(<<>>, 0)
    BY DEF WellFormed, Ordered
  <2>4. Agree(EmptyLockup)
    BY <1>2, <2>2 DEF Agree, EmptyLockup
  <2>. QED BY <2>1, <2>2, <2>3, <2>4 DEF StoreInv
<1>4. TypeOK
  BY <1>1, <1>3, BoundsAssumption DEF TypeOK, StoreInv, NoTx
<1>5. TxMachine
  BY <1>1 DEF TxMachine, NoTx
<1>6. Ledger!Init
  BY <1>1, <1>2 DEF Ledger!Init, AsLedger, EmptyLockup
<1>. QED BY <1>1, <1>3, <1>4, <1>5, <1>6 DEF IInv

\* Every step restores the invariant and is a step of the ledger or a stutter.
LEMMA NextKeeps == IInv /\ [Next]_vars => IInv' /\ [Ledger!Next]_(Ledger!vars)
<1>. SUFFICES ASSUME IInv, [Next]_vars
              PROVE  IInv' /\ [Ledger!Next]_(Ledger!vars)
  OBVIOUS
<1>1. CASE \E t \in Txs : BeginTx(t)
  BY <1>1, BeginTxKeeps
<1>2. CASE MessageStep
  BY <1>2, MessageStepKeeps
<1>3. CASE CommitTx \/ FailTx
  BY <1>3, EndTxKeeps
<1>4. CASE NextDay
  BY <1>4, NextDayKeeps
<1>5. CASE \/ \E val \in Slashable : Slash(val)
           \/ \E addr \in Addr : CompleteUnbonding(addr)
           \/ \E addr \in Addr, val \in Val : CompleteRedelegation(addr, val)
  <2>1. UNCHANGED <<lockup, lockupC, tx, pc, sub, marked, day>>
    BY <1>5 DEF Slash, CompleteUnbonding, CompleteRedelegation, SetChain
  <2>. QED BY <2>1, OutsideKeeps
<1>6. CASE UNCHANGED vars
  BY <1>6, OutsideKeeps DEF vars
<1>. QED BY <1>1, <1>2, <1>3, <1>4, <1>5, <1>6 DEF Next, BlockStep

\* The invariant holds in every reachable state of the module.
THEOREM Invariance == Spec => []IInv
<1>1. Init => IInv
  BY InitKeeps
<1>2. IInv /\ [Next]_vars => IInv'
  BY NextKeeps
<1>. QED BY <1>1, <1>2, PTL DEF Spec

\* The stores have the shape of their protobuf types and the transaction
\* machine points at an existing message.
THEOREM TypeCorrect == Spec => []TypeOK
<1>1. IInv => TypeOK
  BY DEF IInv
<1>. QED BY <1>1, Invariance, PTL

\* The account lists are strictly ordered by date, with no empty lock and no
\* date beyond the limit, for every sequence of transactions.
THEOREM ListsCorrect == Spec => []ListsWellFormed
<1>1. IInv => ListsWellFormed
  BY DEF IInv, StoreInv, ListsWellFormed
<1>. QED BY <1>1, Invariance, PTL

\* The key family by address and the key family by date record the same
\* amounts after every iteration of every handler.
THEOREM IndexesAgree == Spec => []IndexAgreement
<1>1. IInv => IndexAgreement
  BY DEF IInv, StoreInv, IndexAgreement
<1>. QED BY <1>1, Invariance, PTL

\* The module implements the abstract ledger: amounts enter for dates ahead
\* within the limit, move only to later dates, and a transaction shows whole or
\* not at all.
THEOREM Refinement == Spec => ImplementsLedger
<1>1. Init => Ledger!Init
  BY InitKeeps
<1>2. IInv /\ [Next]_vars => [Ledger!Next]_(Ledger!vars)
  BY NextKeeps
<1>. QED BY <1>1, <1>2, Invariance, PTL DEF Spec, ImplementsLedger, Ledger!Spec
==============================================================================
