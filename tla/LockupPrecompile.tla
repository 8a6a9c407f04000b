-------------------------- MODULE LockupPrecompile ---------------------------
(***************************************************************************)
(* The lockup precompile: an Ethereum transaction in which contracts call  *)
(* the methods of LockupI.  Each call runs on the cache of the             *)
(* transaction; a call that fails leaves the cache as it was and the       *)
(* contract may go on; at the end the transaction is committed or          *)
(* reverted as a whole.  The EVM itself is not part of the repository.     *)
(*                                                                         *)
(* A call is [caller, method, readonly] and the method's arguments.        *)
(***************************************************************************)
EXTENDS Lockup

CONSTANTS Calls,     \* calls that contracts make
          MaxCalls   \* bound: successful writing calls of a transaction

\* The ABI decodes arguments of these types; Cosmos transactions do not take
\* the EVM route.
ASSUME CallsAssumption ==
    \A call \in Calls :
        /\ call.method = "lock" =>
              call.addr \in Addr /\ call.date \in Date /\ call.amt \in Amount
        /\ call.method = "sendDelegateAndLock" =>
              call.to \in Addr /\ call.date \in Date /\ call.amt \in Amount

ASSUME RouteAssumption == \A t \in Txs : t.route = "cosmos"

VARIABLES last   \* the last call of the running transaction and its fate

EvmTx == [route |-> "evm", msgs |-> <<>>]
InEvm == tx.route = "evm"
NoCall == [call |-> [method |-> "none"], ok |-> FALSE]

-----------------------------------------------------------------------------
(* Methods                                                                  *)

\* A faulty list of transactions that misses one.
IsTransaction_NoLock(method) == method \in {"extend", "sendDelegateAndLock"}

IsTransaction(method) == method \in {"lock", "extend", "sendDelegateAndLock"}

\* A call in read-only mode may not write (external: SetupABI).
SetupABI(c) == IsTransaction(c.method) => ~c.readonly

\* A faulty method that locks for whoever it is told to.
RunLock_AnyCaller(l, c, ctx, call) ==
    /\ call.amt > 0
    /\ CanLock(l, c, ctx, call.addr, call.date, call.amt)

RunLock(l, c, ctx, call) ==
    /\ call.amt > 0
    /\ call.caller = call.addr
    /\ CanLock(l, c, ctx, call.addr, call.date, call.amt)

\* The type the ABI decoder gives a tuple[] argument (external), and the type
\* parseExtensions asserts: Go holds a declared type for another one.
AbiTupleSlice == "[]struct"
ExtensionInputs == "[]extensionInput"

ParseExtensions(type, exts) ==
    /\ type = ExtensionInputs
    /\ exts # <<>>
    /\ \A i \in DOMAIN exts : exts[i].amt > 0

\* The loop of the Extend handler, all iterations in one.
ExtendAll(l, ctx, addr, exts) ==
    FoldLeft(LAMBDA r, e : IF r.ok /\ CanExtend(r.l, ctx, addr, e)
                           THEN [r EXCEPT !.l = AfterExtend(r.l, addr, e)]
                           ELSE [r EXCEPT !.ok = FALSE],
             [ok |-> TRUE, l |-> l], exts)

RunExtend(l, ctx, call) ==
    /\ ParseExtensions(AbiTupleSlice, call.exts)
    /\ call.caller = call.addr
    /\ ExtendAll(l, ctx, call.addr, call.exts).ok

\* The sender is the caller.
RunSendDelegateAndLock(l, c, ctx, call) ==
    /\ call.amt > 0
    /\ CanSendDelegateAndLock(l, c, ctx, call.caller, call)

\* Execute: the queries locks and totalLockedAmount write nothing.
Execute(l, c, ctx, call) ==
    /\ SetupABI(call)
    /\ CASE call.method = "lock"   -> RunLock(l, c, ctx, call)
         [] call.method = "extend" -> RunExtend(l, ctx, call)
         [] call.method = "sendDelegateAndLock" ->
                RunSendDelegateAndLock(l, c, ctx, call)
         [] OTHER -> TRUE

\* The stores after a call that has not failed.
AfterCall(l, c, ctx, call) ==
    CASE call.method = "lock" ->
            [l |-> AfterLock(l, call.addr, call.date, call.amt), c |-> c]
      [] call.method = "extend" ->
            [l |-> ExtendAll(l, ctx, call.addr, call.exts).l, c |-> c]
      [] call.method = "sendDelegateAndLock" ->
            [l |-> AfterLock(l, call.to, call.date, call.amt),
             c |-> AfterSendAndDelegate(c, call.caller, call)]
      [] OTHER -> [l |-> l, c |-> c]

-----------------------------------------------------------------------------
(* Ethereum transactions                                                    *)

BeginEvm ==
    /\ Idle
    /\ tx' = EvmTx /\ pc' = 1 /\ sub' = 1 /\ marked' = {}
    /\ UNCHANGED <<lockup, chain, lockupC, chainC, day, last>>

Run(call) ==
    /\ InEvm
    /\ Len(tx.msgs) < MaxCalls
    /\ last' = [call |-> call, ok |-> Execute(lockupC, chainC, Ctx, call)]
    /\ IF Execute(lockupC, chainC, Ctx, call)
       THEN LET after == AfterCall(lockupC, chainC, Ctx, call)
            IN  /\ lockupC' = after.l
                /\ chainC' = after.c
       ELSE UNCHANGED <<lockupC, chainC>>
    /\ tx' = IF last'.ok /\ IsTransaction(call.method)
             THEN [tx EXCEPT !.msgs = Append(@, [type |-> call.method])]
             ELSE tx
    /\ pc' = Len(tx'.msgs) + 1
    /\ UNCHANGED <<lockup, chain, sub, marked, day>>

CommitEvm == InEvm /\ CommitTx /\ last' = NoCall

RevertEvm ==
    /\ InEvm
    /\ lockupC' = lockup /\ chainC' = chain
    /\ EndTx
    /\ last' = NoCall
    /\ UNCHANGED <<lockup, chain, day>>

PrecompileInit == Init /\ last = NoCall

PrecompileNext ==
    \/ ~InEvm /\ Next /\ UNCHANGED last
    \/ BeginEvm
    \/ \E call \in Calls : Run(call)
    \/ CommitEvm
    \/ RevertEvm

PrecompileSpec == PrecompileInit /\ [][PrecompileNext]_<<vars, last>>

-----------------------------------------------------------------------------
(* Properties                                                               *)

\* Whatever an account's contract calls, another account does not lose any of
\* its balance, and what becomes locked for it has been delegated for it in the
\* same call.
OthersSpared ==
    [][\A addr \in Addr : InEvm /\ InEvm' /\ last'.call.caller # addr =>
            /\ chainC'.bank[addr] >= chainC.bank[addr]
            /\ LockedAmount(lockupC'.locks[addr], day)
                    - LockedAmount(lockupC.locks[addr], day)
               <= GetTotalDelegatedAmount(chainC', addr)
                    - GetTotalDelegatedAmount(chainC, addr)]_<<vars, last>>

\* A call in read-only mode (a STATICCALL) writes nothing.
ReadOnlyKeeps ==
    [][InEvm /\ InEvm' /\ last'.call.readonly
            => UNCHANGED <<lockupC, chainC>>]_<<vars, last>>
==============================================================================
