------------------------- MODULE PrecompileTheorems --------------------------
(***************************************************************************)
(* What the theorems of Lockup become when contracts write through the     *)
(* precompile: for any accounts, messages, calls and bounds.               *)
(***************************************************************************)
EXTENDS LockupPrecompile, LockupTheorems

\* While an Ethereum transaction runs, its calls are not the validated messages
\* TxMachine speaks of, so that IInv gives way to what both stores keep.
EInv ==
    /\ StoreInv(lockup, day)
    /\ StoreInv(lockupC, day)
    /\ day \in 0 .. MaxDay

PInv == IF InEvm THEN EInv ELSE IInv

\* A transaction that is not an Ethereum one has another route.
LEMMA OutsideEvm == TypeOK => ~InEvm
BY RouteAssumption DEF TypeOK, InEvm, NoTx

\* Outside Ethereum transactions the invariant of Lockup holds, and implies
\* what the stores keep.
LEMMA OutsideFacts ==
  ASSUME PInv
  PROVE  EInv /\ (~InEvm => IInv)
BY DEF PInv, EInv, IInv, TypeOK

\* The extend method refuses every argument: the decoder's type is not the one
\* parseExtensions asserts.
LEMMA ExtendRefused ==
  ASSUME NEW l, NEW ctx, NEW call
  PROVE  ~RunExtend(l, ctx, call)
BY DEF RunExtend, ParseExtensions, AbiTupleSlice, ExtensionInputs

\* A call that succeeds in writing locks a positive amount for a date ahead,
\* whichever method it takes; any other call leaves the locks alone.
LEMMA CallWrites ==
  ASSUME NEW call \in Calls, Run(call)
  PROVE  \/ lockupC' = lockupC
         \/ \E a \in Addr, d \in Date, n \in Amount :
               /\ n > 0 /\ day < d /\ d <= day + Horizon
               /\ lockupC' = AfterLock(lockupC, a, d, n)
<1>1. CASE ~Execute(lockupC, chainC, Ctx, call)
  BY <1>1 DEF Run
<1>2. CASE Execute(lockupC, chainC, Ctx, call)
  <2>1. lockupC' = AfterCall(lockupC, chainC, Ctx, call).l
    BY <1>2 DEF Run
  <2>2. CASE call.method = "lock"
    <3>1. CanLock(lockupC, chainC, Ctx, call.addr, call.date, call.amt)
      BY <1>2, <2>2 DEF Execute, RunLock
    <3>2. lockupC' = AfterLock(lockupC, call.addr, call.date, call.amt)
      BY <2>1, <2>2 DEF AfterCall
    <3>3. call.amt > 0 /\ day < call.date /\ call.date <= day + Horizon
      BY <3>1 DEF CanLock, Ctx
    <3>4. call.addr \in Addr /\ call.date \in Date /\ call.amt \in Amount
      BY <2>2, CallsAssumption
    <3>. QED BY <3>2, <3>3, <3>4
  <2>3. CASE call.method = "extend"
    BY <1>2, <2>3, ExtendRefused DEF Execute
  <2>4. CASE call.method = "sendDelegateAndLock"
    <3>1. CanSendDelegateAndLock(lockupC, chainC, Ctx, call.caller, call)
      BY <1>2, <2>4 DEF Execute, RunSendDelegateAndLock
    <3>2. lockupC' = AfterLock(lockupC, call.to, call.date, call.amt)
      BY <2>1, <2>4 DEF AfterCall
    <3>3. call.amt > 0 /\ day < call.date /\ call.date <= day + Horizon
      BY <3>1 DEF CanSendDelegateAndLock, CanLock, Ctx
    <3>4. call.to \in Addr /\ call.date \in Date /\ call.amt \in Amount
      BY <2>4, CallsAssumption
    <3>. QED BY <3>2, <3>3, <3>4
  <2>5. CASE call.method \notin {"lock", "extend", "sendDelegateAndLock"}
    BY <2>1, <2>5 DEF AfterCall
  <2>. QED BY <2>2, <2>3, <2>4, <2>5
<1>. QED BY <1>1, <1>2

\* A call of a contract restores the invariant and is a step of the ledger.
LEMMA RunKeeps ==
  ASSUME PInv, NEW call \in Calls, Run(call)
  PROVE  PInv' /\ [Ledger!Next]_(Ledger!vars)
<1>1. InEvm /\ UNCHANGED <<lockup, day>> /\ EInv
  BY OutsideFacts DEF Run
<1>2. InEvm'
  BY <1>1 DEF Run, InEvm
<1>3. CASE lockupC' = lockupC
  <2>1. EInv'
    BY <1>1, <1>3 DEF EInv, StoreInv
  <2>2. UNCHANGED Ledger!vars
    BY <1>1, <1>3 DEF Ledger!vars, AsLedger
  <2>. QED BY <1>2, <2>1, <2>2 DEF PInv
<1>4. CASE \E a \in Addr, d \in Date, n \in Amount :
              /\ n > 0 /\ day < d /\ d <= day + Horizon
              /\ lockupC' = AfterLock(lockupC, a, d, n)
  <2>1. PICK a \in Addr, d \in Date, n \in Amount :
              /\ n > 0 /\ day < d /\ d <= day + Horizon
              /\ lockupC' = AfterLock(lockupC, a, d, n)
    BY <1>4
  <2>2. day \in Nat /\ n \in Nat \ {0} /\ StoreInv(lockupC, day)
    BY <1>1, <2>1, BoundsAssumption DEF EInv, Amount
  <2>3. /\ StoreInv(lockupC', day)
        /\ AsLedger(lockupC') = [AsLedger(lockupC) EXCEPT ![a][d] = @ + n]
    BY <2>1, <2>2, AfterLockKeeps
  <2>4. EInv'
    BY <1>1, <2>3 DEF EInv, StoreInv
  <2>5. Ledger!Record(a, d, n)
    BY <1>1, <2>1, <2>3 DEF Ledger!Record, Ledger!Ahead, AsLedger
  <2>. QED BY <1>2, <2>4, <2>5 DEF PInv, Ledger!Next
<1>. QED BY <1>3, <1>4, CallWrites

\* An Ethereum transaction ends with its cache written back, or dropped.
LEMMA EndEvmKeeps ==
  ASSUME PInv, CommitEvm \/ RevertEvm
  PROVE  PInv' /\ Ledger!Next
<1>1. /\ EInv /\ tx' = NoTx /\ pc' = 1 /\ sub' = 1 /\ marked' = {} /\ day' = day
      /\ \/ lockup' = lockupC /\ lockupC' = lockupC
         \/ lockup' = lockup /\ lockupC' = lockup
  BY OutsideFacts DEF CommitEvm, RevertEvm, CommitTx, EndTx
<1>2. StoreInv(lockup', day) /\ StoreInv(lockupC', day) /\ lockup' = lockupC'
  BY <1>1 DEF EInv
<1>3. StoreInv(lockup, day)' /\ StoreInv(lockupC, day)'
  BY <1>1, <1>2 DEF StoreInv
<1>4. TypeOK'
  BY <1>1, <1>2 DEF EInv, TypeOK, StoreInv, NoTx
<1>5. TxMachine'
  BY <1>1, <1>2 DEF TxMachine, NoTx
<1>6. ~InEvm'
  BY <1>1 DEF InEvm, NoTx
<1>7. Ledger!Publish \/ Ledger!Drop
  BY <1>1 DEF Ledger!Publish, Ledger!Drop, AsLedger
<1>. QED BY <1>3, <1>4, <1>5, <1>6, <1>7 DEF PInv, IInv, Ledger!Next

\* Every step, of messages and of contracts, restores the invariant.
LEMMA PrecompileNextKeeps ==
  PInv /\ [PrecompileNext]_<<vars, last>> => PInv' /\ [Ledger!Next]_(Ledger!vars)
<1>. SUFFICES ASSUME PInv, [PrecompileNext]_<<vars, last>>
              PROVE  PInv' /\ [Ledger!Next]_(Ledger!vars)
  OBVIOUS
<1>1. CASE ~InEvm /\ Next
  <2>1. IInv' /\ [Ledger!Next]_(Ledger!vars)
    BY <1>1, OutsideFacts, NextKeeps
  <2>2. ~InEvm'
    BY <2>1, RouteAssumption DEF IInv, TypeOK, InEvm, NoTx
  <2>. QED BY <2>1, <2>2 DEF PInv
<1>2. CASE BeginEvm
  <2>1. /\ tx' = EvmTx /\ EInv /\ UNCHANGED <<lockup, lockupC, day>>
    BY <1>2, OutsideFacts DEF BeginEvm
  <2>2. InEvm' /\ EInv'
    BY <2>1 DEF InEvm, EvmTx, EInv, StoreInv
  <2>3. UNCHANGED Ledger!vars
    BY <2>1 DEF Ledger!vars, AsLedger
  <2>. QED BY <2>2, <2>3 DEF PInv
<1>3. CASE \E call \in Calls : Run(call)
  BY <1>3, RunKeeps
<1>4. CASE CommitEvm \/ RevertEvm
  BY <1>4, EndEvmKeeps
<1>5. CASE UNCHANGED <<vars, last>>
  <2>1. UNCHANGED <<lockup, lockupC, tx, pc, sub, marked, day>>
    BY <1>5 DEF vars
  <2>2. CASE InEvm
    <3>1. InEvm' /\ EInv'
      BY <2>1, <2>2, OutsideFacts DEF InEvm, EInv, StoreInv
    <3>2. UNCHANGED Ledger!vars
      BY <2>1 DEF Ledger!vars, AsLedger
    <3>. QED BY <3>1, <3>2 DEF PInv
  <2>3. CASE ~InEvm
    <3>1. IInv' /\ UNCHANGED Ledger!vars
      BY <2>1, <2>3, OutsideFacts, OutsideKeeps
    <3>2. ~InEvm'
      BY <2>1, <2>3 DEF InEvm
    <3>. QED BY <3>1, <3>2 DEF PInv
  <2>. QED BY <2>2, <2>3
<1>. QED BY <1>1, <1>2, <1>3, <1>4, <1>5 DEF PrecompileNext

\* The invariant holds at the start.
LEMMA PrecompileInitKeeps == PrecompileInit => PInv /\ Ledger!Init
<1>1. PrecompileInit => IInv /\ Ledger!Init
  BY InitKeeps DEF PrecompileInit
<1>2. IInv => ~InEvm
  BY OutsideEvm DEF IInv
<1>. QED BY <1>1, <1>2 DEF PInv

-----------------------------------------------------------------------------
(* Theorems                                                                 *)

\* The invariant that every step restores, Ethereum transactions included.
THEOREM PrecompileInvariance == PrecompileSpec => []PInv
<1>1. PrecompileInit => PInv
  BY PrecompileInitKeeps
<1>2. PInv /\ [PrecompileNext]_<<vars, last>> => PInv'
  BY PrecompileNextKeeps
<1>. QED BY <1>1, <1>2, PTL DEF PrecompileSpec

\* The two key families record the same amounts after every call of a contract
\* to the precompile, whether the transaction will commit or revert.
THEOREM PrecompileIndexesAgree == PrecompileSpec => []IndexAgreement
<1>1. PInv => IndexAgreement
  BY OutsideFacts DEF EInv, StoreInv, IndexAgreement
<1>. QED BY <1>1, PrecompileInvariance, PTL

\* Contracts, too, can only do to the locks what the abstract ledger allows:
\* add amounts for dates ahead, and publish a transaction whole or not at all.
THEOREM PrecompileRefinement == PrecompileSpec => ImplementsLedger
<1>1. PrecompileInit => Ledger!Init
  BY PrecompileInitKeeps
<1>2. PInv /\ [PrecompileNext]_<<vars, last>> => [Ledger!Next]_(Ledger!vars)
  BY PrecompileNextKeeps
<1>. QED
  BY <1>1, <1>2, PrecompileInvariance, PTL
  DEF PrecompileSpec, ImplementsLedger, Ledger!Spec

\* A call in read-only mode (a STATICCALL) leaves the cached stores of x/lockup,
\* x/bank and x/staking as they were, whatever its method and arguments.
THEOREM ReadOnlyCalls == PrecompileSpec => ReadOnlyKeeps
<1>1. ASSUME PInv, [PrecompileNext]_<<vars, last>>,
             InEvm, InEvm', last'.call.readonly
      PROVE  UNCHANGED <<lockupC, chainC>>
  <2>1. CASE \E call \in Calls : Run(call)
    <3>1. PICK call \in Calls : Run(call)
      BY <2>1
    <3>2. CASE ~Execute(lockupC, chainC, Ctx, call)
      BY <3>1, <3>2 DEF Run
    <3>3. CASE Execute(lockupC, chainC, Ctx, call)
      <4>1. call.readonly
        BY <1>1, <3>1 DEF Run
      <4>2. call.method \notin {"lock", "extend", "sendDelegateAndLock"}
        BY <3>3, <4>1 DEF Execute, SetupABI, IsTransaction
      <4>3. AfterCall(lockupC, chainC, Ctx, call) = [l |-> lockupC, c |-> chainC]
        BY <4>2 DEF AfterCall
      <4>. QED BY <3>1, <3>3, <4>3 DEF Run
    <3>. QED BY <3>2, <3>3
  <2>2. CASE CommitEvm \/ RevertEvm
    BY <1>1, <2>2 DEF CommitEvm, RevertEvm, CommitTx, EndTx, InEvm, NoTx
  <2>3. CASE BeginEvm
    BY <1>1, <2>3 DEF BeginEvm, Idle, InEvm, NoTx
  <2>4. CASE UNCHANGED <<vars, last>>
    BY <2>4 DEF vars
  <2>. QED BY <1>1, <2>1, <2>2, <2>3, <2>4 DEF PrecompileNext
<1>. QED
  BY <1>1, PrecompileInvariance, PTL DEF PrecompileSpec, ReadOnlyKeeps
==============================================================================
