------------------------------- MODULE Lockup --------------------------------
(***************************************************************************)
(* The x/lockup module in the transaction machine of the chain.            *)
(*                                                                         *)
(* A transaction is a list of messages.  The ante handler looks at all of  *)
(* them first (ValidateBasic, RedelegationMarkerDecorator); the handlers   *)
(* then run in order on a cache of the stores, which replaces the          *)
(* committed stores when the last handler has succeeded and is dropped     *)
(* when one fails or the gas runs out.  The loops of Extend and            *)
(* MultiSendDelegateAndLock advance one iteration per step, so the cache   *)
(* is visible between the iterations.  Between transactions the block      *)
(* machinery may slash a validator, complete unbondings and move the day.  *)
(***************************************************************************)
EXTENDS LockupKeeper

CONSTANTS Txs,        \* transactions: [route, msgs]
          InitBank,   \* balances at genesis
          InitDel,    \* tokens delegated at genesis, per account and validator
          Slashable,  \* validators that may be slashed
          Horizon,    \* the two years of Lock and Extend, in days
          MaxDay,     \* bound: the last block day
          MaxAmount   \* bound: the largest amount of a message

ASSUME BoundsAssumption ==
    Horizon \in Nat /\ MaxDay \in Nat /\ MaxAmount \in Nat

VARIABLES lockup, chain,    \* committed stores
          lockupC, chainC,  \* cache of the running transaction
          tx,               \* running transaction, NoTx between transactions
          pc, sub,          \* its next message, and iteration in that message
          marked,           \* (account, source validator) pairs in the context
          day               \* block day

vars == <<lockup, chain, lockupC, chainC, tx, pc, sub, marked, day>>

Date   == 0 .. (MaxDay + Horizon)
Amount == 0 .. MaxAmount

\* The messages of x/lockup, and those of x/staking and x/bank it restricts.
Extension == [from : Date, to : Date, amt : Amount]
Output    == [to : Addr, val : Val, date : Date, amt : Amount]
Message ==
    [type : {"Lock"}, addr : Addr, date : Date, amt : Amount]
    \cup [type : {"Extend"}, addr : Addr, exts : Seq(Extension)]
    \cup [type : {"SendDelegateAndLock"}, from : Addr, to : Addr, val : Val,
          date : Date, amt : Amount]
    \cup [type : {"MultiSendDelegateAndLock"}, from : Addr, total : Nat,
          outs : Seq(Output)]
    \cup [type : {"Delegate", "Undelegate"}, addr : Addr, val : Val, amt : Amount]
    \cup [type : {"BeginRedelegate"}, addr : Addr, src : Val, dst : Val,
          amt : Amount]
    \cup [type : {"Send"}, from : Addr, to : Addr, amt : Amount]

NoTx == [route |-> "none", msgs |-> <<>>]

ASSUME TxsAssumption ==
    \A t \in Txs : /\ t \in [route : {"cosmos", "evm"}, msgs : Seq(Message)]
                   /\ t.msgs # <<>>

Idle == tx = NoTx
Msg  == tx.msgs[pc]
Ctx  == [day |-> day, marked |-> marked]
At(type) == ~Idle /\ pc <= Len(tx.msgs) /\ Msg.type = type

-----------------------------------------------------------------------------
(* Ante handler                                                             *)

\* ValidateBasic of the messages of a Cosmos transaction.  The two
\* SendDelegateAndLock messages only check the sender's address.
ValidateBasic(m) ==
    CASE m.type = "Extend" -> /\ m.exts # <<>>
                              /\ \A i \in DOMAIN m.exts :
                                    /\ m.exts[i].amt > 0
                                    /\ m.exts[i].to > m.exts[i].from
      [] m.type \in {"SendDelegateAndLock", "MultiSendDelegateAndLock"} -> TRUE
      [] OTHER -> m.amt > 0

\* The precompile builds its messages itself and checks the amounts while it
\* does.  It has no method for MultiSendDelegateAndLock, and its method for
\* Extend returns an error whatever the arguments (see LockupPrecompile).
PrecompileAccepts(m) ==
    m.type \notin {"MultiSendDelegateAndLock", "Extend"} /\ m.amt > 0

\* A faulty decorator that marks nothing.
Markers_None(t) == {}

\* RedelegationMarkerDecorator: every MsgBeginRedelegate of a Cosmos
\* transaction is marked, for the whole transaction.  Ethereum transactions
\* take the other branch of the ante handler.
Markers(t) ==
    IF t.route # "cosmos" THEN {}
    ELSE {<<t.msgs[i].addr, t.msgs[i].src>> :
            i \in {j \in DOMAIN t.msgs : t.msgs[j].type = "BeginRedelegate"}}

\* The messages of a Cosmos transaction are validated before any of them runs;
\* those of an Ethereum transaction are made by the precompile.
AnteHandler(t) ==
    \A i \in DOMAIN t.msgs : IF t.route = "evm" THEN PrecompileAccepts(t.msgs[i])
                                               ELSE ValidateBasic(t.msgs[i])

BeginTx(t) ==
    /\ Idle
    /\ AnteHandler(t)
    /\ tx' = t
    /\ pc' = 1
    /\ sub' = 1
    /\ marked' = Markers(t)
    /\ UNCHANGED <<lockup, chain, lockupC, chainC, day>>

-----------------------------------------------------------------------------
(* The handlers, as a guard and an effect on the cached stores              *)

\* A faulty Lock that accepts dates that have passed.
CanLock_AnyDate(l, c, ctx, addr, date, amt) ==
    /\ amt > 0
    /\ date <= ctx.day + Horizon
    /\ GetTotalDelegatedAmount(c, addr)
            >= LockedAmount(l.locks[addr], ctx.day) + amt

\* A faulty Lock that compares the delegations with the new amount only.
CanLock_IgnoreLocked(l, c, ctx, addr, date, amt) ==
    /\ amt > 0
    /\ ctx.day < date
    /\ date <= ctx.day + Horizon
    /\ GetTotalDelegatedAmount(c, addr) >= amt

CanLock(l, c, ctx, addr, date, amt) ==
    /\ amt > 0
    /\ ctx.day < date
    /\ date <= ctx.day + Horizon
    /\ GetTotalDelegatedAmount(c, addr)
            >= LockedAmount(l.locks[addr], ctx.day) + amt

AfterLock(l, addr, date, amt) ==
    [locks |-> [l.locks EXCEPT ![addr] = CreditLock(@, date, amt)],
     queue |-> AddToExpirationQueue(l.queue, date, addr, amt)]

\* A faulty Extend that does not compare its amount with the lock's.
CanExtend_AnyAmount(l, ctx, addr, e) ==
    /\ e.to > e.from
    /\ ctx.day < e.to
    /\ e.to <= ctx.day + Horizon
    /\ LockIndex(l.locks[addr], e.from) # 0

\* One iteration of Extend's loop.  The lock it takes from need not be active.
CanExtend(l, ctx, addr, e) ==
    /\ e.to > e.from
    /\ ctx.day < e.to
    /\ e.to <= ctx.day + Horizon
    /\ LockIndex(l.locks[addr], e.from) # 0
    /\ AmountInList(l.locks[addr], e.from) >= e.amt
    /\ CanRemoveFromExpirationQueue(l.queue, e.from, addr, e.amt)

\* A faulty Extend that takes the amount from its old date only.
AfterExtend_Drop(l, addr, e) ==
    [locks |-> [l.locks EXCEPT ![addr] = DebitLock(@, e.from, e.amt)],
     queue |-> RemoveFromExpirationQueue(l.queue, e.from, addr, e.amt)]

AfterExtend(l, addr, e) ==
    [locks |-> [l.locks EXCEPT
        ![addr] = CreditLock(DebitLock(@, e.from, e.amt), e.to, e.amt)],
     queue |-> AddToExpirationQueue(
                   RemoveFromExpirationQueue(l.queue, e.from, addr, e.amt),
                   e.to, addr, e.amt)]

\* SendCoins, Delegate and Lock in a row, each on what the last one left.
CanSendDelegateAndLock(l, c, ctx, from, o) ==
    LET sent      == AfterSendCoins(c, from, o.to, o.amt)
        delegated == AfterDelegate(sent, o.to, o.val, o.amt, TRUE)
    IN  /\ o.amt > 0
        /\ CanSendCoins(l, c, ctx, from, o.amt)
        /\ CanDelegate(l, sent, ctx, o.to, o.val, o.amt, TRUE)
        /\ CanLock(l, delegated, ctx, o.to, o.date, o.amt)

AfterSendAndDelegate(c, from, o) ==
    AfterDelegate(AfterSendCoins(c, from, o.to, o.amt), o.to, o.val, o.amt, TRUE)

\* A faulty MultiSendDelegateAndLock that does not compare the amounts.
TotalMatches_Off(m) == \A i \in DOMAIN m.outs : m.outs[i].amt > 0

TotalMatches(m) ==
    /\ \A i \in DOMAIN m.outs : m.outs[i].amt > 0
    /\ m.total = SumFunction([i \in DOMAIN m.outs |-> m.outs[i].amt])

-----------------------------------------------------------------------------
(* Message steps                                                            *)

NextMsg == pc' = pc + 1 /\ sub' = 1

\* The end of one of n iterations of a handler's loop.
NextIteration(n) ==
    IF sub < n THEN sub' = sub + 1 /\ UNCHANGED pc ELSE NextMsg

DoLock ==
    /\ At("Lock")
    /\ CanLock(lockupC, chainC, Ctx, Msg.addr, Msg.date, Msg.amt)
    /\ lockupC' = AfterLock(lockupC, Msg.addr, Msg.date, Msg.amt)
    /\ NextMsg
    /\ UNCHANGED <<lockup, chain, chainC, tx, marked, day>>

DoExtend ==
    /\ At("Extend")
    /\ CanExtend(lockupC, Ctx, Msg.addr, Msg.exts[sub])
    /\ lockupC' = AfterExtend(lockupC, Msg.addr, Msg.exts[sub])
    /\ NextIteration(Len(Msg.exts))
    /\ UNCHANGED <<lockup, chain, chainC, tx, marked, day>>

DoSendDelegateAndLock ==
    /\ At("SendDelegateAndLock")
    /\ CanSendDelegateAndLock(lockupC, chainC, Ctx, Msg.from, Msg)
    /\ chainC' = AfterSendAndDelegate(chainC, Msg.from, Msg)
    /\ lockupC' = AfterLock(lockupC, Msg.to, Msg.date, Msg.amt)
    /\ NextMsg
    /\ UNCHANGED <<lockup, chain, tx, marked, day>>

DoMultiSendDelegateAndLock ==
    /\ At("MultiSendDelegateAndLock")
    /\ sub = 1 => TotalMatches(Msg)
    /\ \/ Msg.outs = <<>> /\ UNCHANGED <<chainC, lockupC>>
       \/ LET o == Msg.outs[sub]
          IN  /\ Msg.outs # <<>>
              /\ CanSendDelegateAndLock(lockupC, chainC, Ctx, Msg.from, o)
              /\ chainC' = AfterSendAndDelegate(chainC, Msg.from, o)
              /\ lockupC' = AfterLock(lockupC, o.to, o.date, o.amt)
    /\ NextIteration(Len(Msg.outs))
    /\ UNCHANGED <<lockup, chain, tx, marked, day>>

DoDelegate ==
    /\ At("Delegate")
    /\ CanDelegate(lockupC, chainC, Ctx, Msg.addr, Msg.val, Msg.amt, TRUE)
    /\ chainC' = AfterDelegate(chainC, Msg.addr, Msg.val, Msg.amt, TRUE)
    /\ NextMsg
    /\ UNCHANGED <<lockup, chain, lockupC, tx, marked, day>>

DoUndelegate ==
    /\ At("Undelegate")
    /\ CanUnbond(lockupC, chainC, Ctx, Msg.addr, Msg.val, Msg.amt)
    /\ LET paid == UnbondedTokens(chainC, Msg.val,
                       SharesFromTokens(chainC, Msg.val, Msg.amt))
       IN  chainC' = [AfterUnbond(chainC, Msg.addr, Msg.val, Msg.amt)
                        EXCEPT !.unbonding[Msg.addr] = @ + paid]
    /\ NextMsg
    /\ UNCHANGED <<lockup, chain, lockupC, tx, marked, day>>

\* Unbond from the source, then Delegate the proceeds to the destination.
DoBeginRedelegate ==
    /\ At("BeginRedelegate")
    /\ Msg.src # Msg.dst
    /\ <<Msg.addr, Msg.src>> \notin chainC.receiving
    /\ CanUnbond(lockupC, chainC, Ctx, Msg.addr, Msg.src, Msg.amt)
    /\ LET paid    == UnbondedTokens(chainC, Msg.src,
                          SharesFromTokens(chainC, Msg.src, Msg.amt))
           unbound == AfterUnbond(chainC, Msg.addr, Msg.src, Msg.amt)
       IN  /\ paid > 0
           /\ CanDelegate(lockupC, unbound, Ctx, Msg.addr, Msg.dst, paid, FALSE)
           /\ chainC' =
                [AfterDelegate(unbound, Msg.addr, Msg.dst, paid, FALSE)
                    EXCEPT !.receiving = @ \cup {<<Msg.addr, Msg.dst>>}]
    /\ NextMsg
    /\ UNCHANGED <<lockup, chain, lockupC, tx, marked, day>>

DoSend ==
    /\ At("Send")
    /\ CanSendCoins(lockupC, chainC, Ctx, Msg.from, Msg.amt)
    /\ chainC' = AfterSendCoins(chainC, Msg.from, Msg.to, Msg.amt)
    /\ NextMsg
    /\ UNCHANGED <<lockup, chain, lockupC, tx, marked, day>>

EndTx == tx' = NoTx /\ pc' = 1 /\ sub' = 1 /\ marked' = {}

\* The cache is written back when all handlers have succeeded.
CommitTx ==
    /\ ~Idle
    /\ pc > Len(tx.msgs)
    /\ lockup' = lockupC
    /\ chain' = chainC
    /\ EndTx
    /\ UNCHANGED <<lockupC, chainC, day>>

\* A handler returns an error, or the gas is used up at any point.
FailTx ==
    /\ ~Idle
    /\ pc <= Len(tx.msgs)
    /\ lockupC' = lockup
    /\ chainC' = chain
    /\ EndTx
    /\ UNCHANGED <<lockup, chain, day>>

-----------------------------------------------------------------------------
(* Block machinery, between transactions                                    *)

SetChain(c) ==
    /\ Idle
    /\ chain' = c
    /\ chainC' = c
    /\ UNCHANGED <<lockup, lockupC, tx, pc, sub, marked, day>>

\* The module's BeforeValidatorSlashed hook does nothing.
Slash(val) ==
    \E left \in 0 .. chain.val[val].tokens - 1 :
        SetChain([chain EXCEPT !.val[val].tokens = left])

\* Unbonded tokens return to the balance without passing the restriction.
CompleteUnbonding(addr) ==
    /\ chain.unbonding[addr] > 0
    /\ SetChain([chain EXCEPT !.bank[addr] = @ + chain.unbonding[addr],
                              !.unbonding[addr] = 0])

CompleteRedelegation(addr, val) ==
    /\ <<addr, val>> \in chain.receiving
    /\ SetChain([chain EXCEPT !.receiving = @ \ {<<addr, val>>}])

NextDay ==
    /\ Idle
    /\ day < MaxDay
    /\ day' = day + 1
    /\ UNCHANGED <<lockup, chain, lockupC, chainC, tx, pc, sub, marked>>

-----------------------------------------------------------------------------
EmptyLockup == [locks |-> [addr \in Addr |-> <<>>], queue |-> <<>>]

InitChain ==
    [bank      |-> InitBank,
     del       |-> [addr \in Addr |->
                      [val \in Val |-> InitDel[addr][val] * Precision]],
     val       |-> [val \in Val |->
                      LET t == SumFunction([addr \in Addr |-> InitDel[addr][val]])
                      IN  [tokens |-> t, shares |-> t * Precision]],
     unbonding |-> [addr \in Addr |-> 0],
     receiving |-> {}]

Init ==
    /\ lockup = EmptyLockup /\ lockupC = EmptyLockup
    /\ chain = InitChain /\ chainC = InitChain
    /\ tx = NoTx /\ pc = 1 /\ sub = 1 /\ marked = {}
    /\ day = 0

MessageStep ==
    \/ DoLock \/ DoExtend
    \/ DoSendDelegateAndLock \/ DoMultiSendDelegateAndLock
    \/ DoDelegate \/ DoUndelegate \/ DoBeginRedelegate \/ DoSend

BlockStep ==
    \/ NextDay
    \/ \E val \in Slashable : Slash(val)
    \/ \E addr \in Addr : CompleteUnbonding(addr)
    \/ \E addr \in Addr, val \in Val : CompleteRedelegation(addr, val)

Next ==
    \/ \E t \in Txs : BeginTx(t)
    \/ MessageStep
    \/ CommitTx
    \/ FailTx
    \/ BlockStep

Spec == Init /\ [][Next]_vars

-----------------------------------------------------------------------------
(* Properties                                                               *)

\* The lock lists and the queue have the shape of their protobuf types, and the
\* transaction machine points at an existing message.
IsLockupStore(s) ==
    /\ s = [locks |-> s.locks, queue |-> s.queue]
    /\ s.locks \in [Addr -> Seq(Lock)]
    /\ s.queue \in [DOMAIN s.queue -> Nat]
    /\ DOMAIN s.queue \subseteq Date \X Addr

TypeOK ==
    /\ IsLockupStore(lockup) /\ IsLockupStore(lockupC)
    /\ tx \in Txs \cup {NoTx}
    /\ pc \in 1 .. Len(tx.msgs) + 1
    /\ sub \in Nat \ {0}
    /\ marked \subseteq Addr \X Val
    /\ day \in 0 .. MaxDay

\* Each account's list is in strict date order, without empty locks and with
\* no date beyond the two-year limit, after every iteration of every handler.
\* (SetLockByAddress inserts by date, GetLockByAddressAndDate stops at the
\* first match and so relies on there being one lock per date.)
WellFormed(list, today) ==
    /\ \A i \in DOMAIN list :
          list[i].amount > 0 /\ list[i].date <= today + Horizon
    /\ Ordered(list)

ListsWellFormed ==
    \A s \in {lockup, lockupC}, addr \in Addr : WellFormed(s.locks[addr], day)

\* The two key families record the same amounts: what the account's list says
\* for a date is what the expiration queue says, and no queue entry is empty.
\* Lock and Extend write both, one after the other.
Agree(s) ==
    /\ \A addr \in Addr, date \in Date :
          AmountInList(s.locks[addr], date) = AmountInQueue(s.queue, date, addr)
    /\ \A k \in DOMAIN s.queue : s.queue[k] > 0

IndexAgreement == Agree(lockup) /\ Agree(lockupC)

Delegated(addr) == GetTotalDelegatedAmount(chain, addr)
Locked(addr)    == LockedAmount(lockup.locks[addr], day)

\* The two kinds of transactions after which less may be delegated than is
\* locked: one that extends a lock which has already run out, and one that
\* undelegates from a validator from which it also redelegates.
RevivesExpired(t, addr) ==
    \E i \in DOMAIN t.msgs :
        /\ t.msgs[i].type = "Extend" /\ t.msgs[i].addr = addr
        /\ \E j \in DOMAIN t.msgs[i].exts : t.msgs[i].exts[j].from <= day

UndelegatesMarked(t, addr) ==
    \E i \in DOMAIN t.msgs :
        /\ t.msgs[i].type = "Undelegate" /\ t.msgs[i].addr = addr
        /\ <<addr, t.msgs[i].val>> \in Markers(t)

Excused(addr) ==
    \/ \E val \in Slashable : Slash(val)
    \/ /\ CommitTx
       /\ RevivesExpired(tx, addr) \/ UndelegatesMarked(tx, addr)

\* Staking pays out whole tokens, so an unbonding from a validator that has been
\* slashed may cost each delegation to it one unit of the value the module
\* computes for it.
Touched(m) == CASE m.type = "Undelegate" -> {m.val}
                [] m.type = "BeginRedelegate" -> {m.src, m.dst}
                [] OTHER -> {}

Unbondings(t) ==
    Cardinality({i \in DOMAIN t.msgs : \E val \in Touched(t.msgs[i]) :
                    chain.val[val].shares # chain.val[val].tokens * Precision})

\* Nothing but a slash and those two kinds of transactions makes an account's
\* delegations smaller than its active locks, up to that rounding: no
\* combination of delegating, undelegating, redelegating, sending, locking and
\* extending does, whatever the exchange rates of the validators.
CoverageKept ==
    [][\A addr \in Addr :
            Delegated(addr) >= Locked(addr)
            => \/ Delegated(addr)' + Unbondings(tx) >= Locked(addr)'
               \/ Excused(addr)]_<<chain, lockup, day>>

\* When a slash has left less delegated than locked, the difference stays in
\* the balance: the send restriction and the hooks keep balance plus
\* delegations above the active locks, with the same exceptions.
BackingKept ==
    [][\A addr \in Addr :
            chain.bank[addr] + Delegated(addr) >= Locked(addr)
            => \/ (chain.bank[addr] + Delegated(addr))' + Unbondings(tx)
                        >= Locked(addr)'
               \/ Excused(addr)]_<<chain, lockup, day>>

\* What an account has committed to lock until a date or longer never becomes
\* less, at any time, by any step (Extend only moves amounts to later dates).
LockedUntil(addr, date) ==
    SumFunctionOnSet([d \in Date |-> AmountInList(lockup.locks[addr], d)],
                     {d \in Date : d >= date})

CommitmentKept ==
    [][\A addr \in Addr, date \in Date :
            LockedUntil(addr, date)' >= LockedUntil(addr, date)]_lockup

\* A MultiSendDelegateAndLock takes exactly its stated total from the sender's
\* balance and leaves every other balance as it was: all that is sent is
\* delegated in the same transaction.
MultiSendDebitsTotal ==
    [][CommitTx /\ Len(tx.msgs) = 1
         /\ tx.msgs[1].type = "MultiSendDelegateAndLock"
       => chain'.bank = [chain.bank EXCEPT ![tx.msgs[1].from]
                            = @ - tx.msgs[1].total]]_vars

\* The lists, read as amounts per date, are the ledger of LockLedger: Lock and
\* the two SendDelegateAndLock handlers add to it, an iteration of Extend moves
\* an amount to a later date, and a transaction is published or dropped whole.
AsLedger(s) ==
    [addr \in Addr |-> [date \in Date |-> AmountInList(s.locks[addr], date)]]

Ledger == INSTANCE LockLedger WITH
              ledger <- AsLedger(lockup), draft <- AsLedger(lockupC),
              today <- day

ImplementsLedger == Ledger!Spec

\* A fully locked account can still move its delegations: a redelegation of a
\* Cosmos transaction between validators that were never slashed is not vetoed
\* by the hooks, although the delegation leaves the source first.
AtParity(val) ==
    chainC.val[val].shares = chainC.val[val].tokens * Precision

MoveAllowed ==
    (/\ At("BeginRedelegate")
     /\ tx.route = "cosmos"
     /\ Msg.src # Msg.dst
     /\ <<Msg.addr, Msg.src>> \notin chainC.receiving
     /\ AtParity(Msg.src) /\ AtParity(Msg.dst)
     /\ chainC.del[Msg.addr][Msg.src] >= Msg.amt * Precision
     /\ CheckLockupInvariantExcluding(lockupC, chainC, Ctx, Msg.addr, {}))
    => ENABLED DoBeginRedelegate

\* "totalDelegated >= totalLocked", as the comment of AfterDelegationModified
\* calls the lockup invariant, between transactions.
LockupInvariant ==
    \A addr \in Addr : Delegated(addr) >= Locked(addr)

\* The hooks "reject undelegations that would cause the total delegated amount
\* to drop below the total locked amount": an account whose locks are covered
\* does not commit a transaction with an undelegation that leaves them
\* uncovered.
UndelegationsChecked ==
    [][\A addr \in Addr :
          /\ CommitTx
          /\ \E i \in DOMAIN tx.msgs :
                tx.msgs[i].type = "Undelegate" /\ tx.msgs[i].addr = addr
          /\ Delegated(addr) >= Locked(addr)
          => Delegated(addr)' >= Locked(addr)']_<<chain, lockup, day>>
==============================================================================
