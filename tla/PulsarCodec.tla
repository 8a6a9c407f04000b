----------------------------- MODULE PulsarCodec -----------------------------
(***************************************************************************)
(* The codec of clients and of the SDK's dynamic machinery: the fast       *)
(* reflection methods that pulsar generates into api/**/*.pulsar.go.       *)
(*                                                                         *)
(* A message is a function from its Go field names, as in GogoCodec, and   *)
(* "unknownFields": the fields it was read with and has no name for.       *)
(* Every nested message is behind a pointer here.                          *)
(*                                                                         *)
(* Each method of each message is a table of its own.                      *)
(*   X_Has         the fields Range visits and Has and Clear know          *)
(*   X_Set         the fields Get, Set, Mutable and NewField know          *)
(*   X_size        the fields the size closure of ProtoMethods counts      *)
(*   X_marshal     the fields with the numbers their tags are written      *)
(*                 with, last field first                                  *)
(*   X_unmarshal   the cases of the switch on fieldNum                     *)
(***************************************************************************)
EXTENDS ProtoWire

DistroModule_Has == <<>>
DistroModule_Set == <<>>
DistroModule_size == <<>>
DistroModule_marshal == <<>>
DistroModule_unmarshal == NoCase

DistroGenesisState_Has == <<Ptr("Params", "Params")>>
DistroGenesisState_Set == <<Ptr("Params", "Params")>>
DistroGenesisState_size == <<Ptr("Params", "Params")>>
DistroGenesisState_marshal == <<<<1, Ptr("Params", "Params")>>>>
DistroGenesisState_unmarshal == 1 :> Ptr("Params", "Params")

Params_Has ==
    <<Str("MintingAddress"), Str("ReceivingAddress"), Str("Denom"),
      Str("MaxSupply"), Str("DistributionStartDate"),
      Uint("MonthsInHalvingPeriod")>>
Params_Set ==
    <<Str("MintingAddress"), Str("ReceivingAddress"), Str("Denom"),
      Str("MaxSupply"), Str("DistributionStartDate"),
      Uint("MonthsInHalvingPeriod")>>
Params_size ==
    <<Str("MintingAddress"), Str("ReceivingAddress"), Str("Denom"),
      Str("MaxSupply"), Str("DistributionStartDate"),
      Uint("MonthsInHalvingPeriod")>>
Params_marshal ==
    <<<<6, Uint("MonthsInHalvingPeriod")>>,
      <<5, Str("DistributionStartDate")>>, <<4, Str("MaxSupply")>>,
      <<3, Str("Denom")>>, <<2, Str("ReceivingAddress")>>,
      <<1, Str("MintingAddress")>>>>
Params_unmarshal ==
    1 :> Str("MintingAddress") @@ 2 :> Str("ReceivingAddress") @@
    3 :> Str("Denom") @@ 4 :> Str("MaxSupply") @@
    5 :> Str("DistributionStartDate") @@ 6 :> Uint("MonthsInHalvingPeriod")

QueryParamsRequest_Has == <<>>
QueryParamsRequest_Set == <<>>
QueryParamsRequest_size == <<>>
QueryParamsRequest_marshal == <<>>
QueryParamsRequest_unmarshal == NoCase

QueryParamsResponse_Has == <<Ptr("Params", "Params")>>
QueryParamsResponse_Set == <<Ptr("Params", "Params")>>
QueryParamsResponse_size == <<Ptr("Params", "Params")>>
QueryParamsResponse_marshal == <<<<1, Ptr("Params", "Params")>>>>
QueryParamsResponse_unmarshal == 1 :> Ptr("Params", "Params")

MsgUpdateParams_Has == <<Str("Authority"), Ptr("Params", "Params")>>
MsgUpdateParams_Set == <<Str("Authority"), Ptr("Params", "Params")>>
MsgUpdateParams_size == <<Str("Authority"), Ptr("Params", "Params")>>
MsgUpdateParams_marshal ==
    <<<<2, Ptr("Params", "Params")>>, <<1, Str("Authority")>>>>
MsgUpdateParams_unmarshal ==
    1 :> Str("Authority") @@ 2 :> Ptr("Params", "Params")

MsgUpdateParamsResponse_Has == <<>>
MsgUpdateParamsResponse_Set == <<>>
MsgUpdateParamsResponse_size == <<>>
MsgUpdateParamsResponse_marshal == <<>>
MsgUpdateParamsResponse_unmarshal == NoCase

MsgMint_Has == <<Str("Amount"), Str("Minter")>>
MsgMint_Set == <<Str("Amount"), Str("Minter")>>
MsgMint_size == <<Str("Amount"), Str("Minter")>>
MsgMint_marshal == <<<<2, Str("Minter")>>, <<1, Str("Amount")>>>>
MsgMint_unmarshal == 1 :> Str("Amount") @@ 2 :> Str("Minter")

MsgMintResponse_Has == <<>>
MsgMintResponse_Set == <<>>
MsgMintResponse_size == <<>>
MsgMintResponse_marshal == <<>>
MsgMintResponse_unmarshal == NoCase

LockupModule_Has == <<>>
LockupModule_Set == <<>>
LockupModule_size == <<>>
LockupModule_marshal == <<>>
LockupModule_unmarshal == NoCase

Extension_Has == <<Str("FromDate"), Str("ToDate"), Ptr("Amount", "Coin")>>
Extension_Set == <<Str("FromDate"), Str("ToDate"), Ptr("Amount", "Coin")>>
Extension_size == <<Str("FromDate"), Str("ToDate"), Ptr("Amount", "Coin")>>
Extension_marshal ==
    <<<<3, Ptr("Amount", "Coin")>>, <<2, Str("ToDate")>>,
      <<1, Str("FromDate")>>>>
Extension_unmarshal ==
    1 :> Str("FromDate") @@ 2 :> Str("ToDate") @@ 3 :> Ptr("Amount", "Coin")

LockupGenesisState_Has == <<>>
LockupGenesisState_Set == <<>>
LockupGenesisState_size == <<>>
LockupGenesisState_marshal == <<>>
LockupGenesisState_unmarshal == NoCase

Lock_Has == <<Str("UnlockDate"), Str("Amount")>>
Lock_Set == <<Str("UnlockDate"), Str("Amount")>>
Lock_size == <<Str("UnlockDate"), Str("Amount")>>
Lock_marshal == <<<<2, Str("Amount")>>, <<1, Str("UnlockDate")>>>>
Lock_unmarshal == 1 :> Str("UnlockDate") @@ 2 :> Str("Amount")

Locks_Has == <<List("Locks", "Lock")>>
Locks_Set == <<List("Locks", "Lock")>>
Locks_size == <<List("Locks", "Lock")>>
Locks_marshal == <<<<1, List("Locks", "Lock")>>>>
Locks_unmarshal == 1 :> List("Locks", "Lock")

MultiSendDelegateAndLockOutput_Has ==
    <<Str("FromAddress"), Str("ToAddress"), Str("ValidatorAddress"),
      Str("UnlockDate"), Ptr("Amount", "Coin")>>
MultiSendDelegateAndLockOutput_Set ==
    <<Str("FromAddress"), Str("ToAddress"), Str("ValidatorAddress"),
      Str("UnlockDate"), Ptr("Amount", "Coin")>>
MultiSendDelegateAndLockOutput_size ==
    <<Str("FromAddress"), Str("ToAddress"), Str("ValidatorAddress"),
      Str("UnlockDate"), Ptr("Amount", "Coin")>>
MultiSendDelegateAndLockOutput_marshal ==
    <<<<5, Ptr("Amount", "Coin")>>, <<4, Str("UnlockDate")>>,
      <<3, Str("ValidatorAddress")>>, <<2, Str("ToAddress")>>,
      <<1, Str("FromAddress")>>>>
MultiSendDelegateAndLockOutput_unmarshal ==
    1 :> Str("FromAddress") @@ 2 :> Str("ToAddress") @@
    3 :> Str("ValidatorAddress") @@ 4 :> Str("UnlockDate") @@
    5 :> Ptr("Amount", "Coin")

QueryActiveLocksRequest_Has == <<Ptr("Pagination", "PageRequest")>>
QueryActiveLocksRequest_Set == <<Ptr("Pagination", "PageRequest")>>
QueryActiveLocksRequest_size == <<Ptr("Pagination", "PageRequest")>>
QueryActiveLocksRequest_marshal == <<<<1, Ptr("Pagination", "PageRequest")>>>>
QueryActiveLocksRequest_unmarshal == 1 :> Ptr("Pagination", "PageRequest")

QueryActiveLocksResponse_Has ==
    <<List("Locks", "ActiveLockResource"), Ptr("Pagination", "PageResponse")>>
QueryActiveLocksResponse_Set ==
    <<List("Locks", "ActiveLockResource"), Ptr("Pagination", "PageResponse")>>
QueryActiveLocksResponse_size ==
    <<List("Locks", "ActiveLockResource"), Ptr("Pagination", "PageResponse")>>
QueryActiveLocksResponse_marshal ==
    <<<<2, Ptr("Pagination", "PageResponse")>>,
      <<1, List("Locks", "ActiveLockResource")>>>>
QueryActiveLocksResponse_unmarshal ==
    1 :> List("Locks", "ActiveLockResource") @@
    2 :> Ptr("Pagination", "PageResponse")

ActiveLockResource_Has ==
    <<Str("Address"), Str("UnlockDate"), Ptr("Amount", "Coin")>>
ActiveLockResource_Set ==
    <<Str("Address"), Str("UnlockDate"), Ptr("Amount", "Coin")>>
ActiveLockResource_size ==
    <<Str("Address"), Str("UnlockDate"), Ptr("Amount", "Coin")>>
ActiveLockResource_marshal ==
    <<<<3, Ptr("Amount", "Coin")>>, <<2, Str("UnlockDate")>>,
      <<1, Str("Address")>>>>
ActiveLockResource_unmarshal ==
    1 :> Str("Address") @@ 2 :> Str("UnlockDate") @@
    3 :> Ptr("Amount", "Coin")

QueryTotalLockedAmountRequest_Has == <<>>
QueryTotalLockedAmountRequest_Set == <<>>
QueryTotalLockedAmountRequest_size == <<>>
QueryTotalLockedAmountRequest_marshal == <<>>
QueryTotalLockedAmountRequest_unmarshal == NoCase

QueryTotalLockedAmountResponse_Has == <<Ptr("TotalLocked", "Coin")>>
QueryTotalLockedAmountResponse_Set == <<Ptr("TotalLocked", "Coin")>>
QueryTotalLockedAmountResponse_size == <<Ptr("TotalLocked", "Coin")>>
QueryTotalLockedAmountResponse_marshal ==
    <<<<1, Ptr("TotalLocked", "Coin")>>>>
QueryTotalLockedAmountResponse_unmarshal == 1 :> Ptr("TotalLocked", "Coin")

QueryAccountLocksRequest_Has ==
    <<Str("Addresses"), Ptr("Pagination", "PageRequest")>>
QueryAccountLocksRequest_Set ==
    <<Str("Addresses"), Ptr("Pagination", "PageRequest")>>
QueryAccountLocksRequest_size ==
    <<Str("Addresses"), Ptr("Pagination", "PageRequest")>>
QueryAccountLocksRequest_marshal ==
    <<<<2, Ptr("Pagination", "PageRequest")>>, <<1, Str("Addresses")>>>>
QueryAccountLocksRequest_unmarshal ==
    1 :> Str("Addresses") @@ 2 :> Ptr("Pagination", "PageRequest")

QueryAccountLocksResponse_Has ==
    <<List("Accounts", "AccountLocksResource"),
      Ptr("Pagination", "PageResponse")>>
QueryAccountLocksResponse_Set ==
    <<List("Accounts", "AccountLocksResource"),
      Ptr("Pagination", "PageResponse")>>
QueryAccountLocksResponse_size ==
    <<List("Accounts", "AccountLocksResource"),
      Ptr("Pagination", "PageResponse")>>
QueryAccountLocksResponse_marshal ==
    <<<<2, Ptr("Pagination", "PageResponse")>>,
      <<1, List("Accounts", "AccountLocksResource")>>>>
QueryAccountLocksResponse_unmarshal ==
    1 :> List("Accounts", "AccountLocksResource") @@
    2 :> Ptr("Pagination", "PageResponse")

AccountLocksResource_Has == <<Str("Address"), List("Locks", "LockResource")>>
AccountLocksResource_Set == <<Str("Address"), List("Locks", "LockResource")>>
AccountLocksResource_size == <<Str("Address"), List("Locks", "LockResource")>>
AccountLocksResource_marshal ==
    <<<<2, List("Locks", "LockResource")>>, <<1, Str("Address")>>>>
AccountLocksResource_unmarshal ==
    1 :> Str("Address") @@ 2 :> List("Locks", "LockResource")

LockResource_Has == <<Str("UnlockDate"), Ptr("Amount", "Coin")>>
LockResource_Set == <<Str("UnlockDate"), Ptr("Amount", "Coin")>>
LockResource_size == <<Str("UnlockDate"), Ptr("Amount", "Coin")>>
\* A faulty marshal with the numbers closed up.
LockResource_marshal_Renumbered ==
    <<<<2, Ptr("Amount", "Coin")>>, <<1, Str("UnlockDate")>>>>
LockResource_marshal ==
    <<<<3, Ptr("Amount", "Coin")>>, <<1, Str("UnlockDate")>>>>
LockResource_unmarshal == 1 :> Str("UnlockDate") @@ 3 :> Ptr("Amount", "Coin")

QueryLocksRequest_Has == <<Str("Address"), Ptr("Pagination", "PageRequest")>>
QueryLocksRequest_Set == <<Str("Address"), Ptr("Pagination", "PageRequest")>>
QueryLocksRequest_size == <<Str("Address"), Ptr("Pagination", "PageRequest")>>
QueryLocksRequest_marshal ==
    <<<<2, Ptr("Pagination", "PageRequest")>>, <<1, Str("Address")>>>>
QueryLocksRequest_unmarshal ==
    1 :> Str("Address") @@ 2 :> Ptr("Pagination", "PageRequest")

\* A faulty Has and Range without the second field.
QueryLocksResponse_Has_NoPagination == <<List("Locks", "LockResource")>>
QueryLocksResponse_Has ==
    <<List("Locks", "LockResource"), Ptr("Pagination", "PageResponse")>>
QueryLocksResponse_Set ==
    <<List("Locks", "LockResource"), Ptr("Pagination", "PageResponse")>>
QueryLocksResponse_size ==
    <<List("Locks", "LockResource"), Ptr("Pagination", "PageResponse")>>
QueryLocksResponse_marshal ==
    <<<<2, Ptr("Pagination", "PageResponse")>>,
      <<1, List("Locks", "LockResource")>>>>
QueryLocksResponse_unmarshal ==
    1 :> List("Locks", "LockResource") @@
    2 :> Ptr("Pagination", "PageResponse")

MsgLock_Has == <<Str("Address"), Str("UnlockDate"), Ptr("Amount", "Coin")>>
MsgLock_Set == <<Str("Address"), Str("UnlockDate"), Ptr("Amount", "Coin")>>
MsgLock_size == <<Str("Address"), Str("UnlockDate"), Ptr("Amount", "Coin")>>
MsgLock_marshal ==
    <<<<3, Ptr("Amount", "Coin")>>, <<2, Str("UnlockDate")>>,
      <<1, Str("Address")>>>>
MsgLock_unmarshal ==
    1 :> Str("Address") @@ 2 :> Str("UnlockDate") @@
    3 :> Ptr("Amount", "Coin")

MsgLockResponse_Has == <<>>
MsgLockResponse_Set == <<>>
MsgLockResponse_size == <<>>
MsgLockResponse_marshal == <<>>
MsgLockResponse_unmarshal == NoCase

MsgExtend_Has == <<Str("Address"), List("Extensions", "Extension")>>
MsgExtend_Set == <<Str("Address"), List("Extensions", "Extension")>>
MsgExtend_size == <<Str("Address"), List("Extensions", "Extension")>>
MsgExtend_marshal ==
    <<<<2, List("Extensions", "Extension")>>, <<1, Str("Address")>>>>
MsgExtend_unmarshal ==
    1 :> Str("Address") @@ 2 :> List("Extensions", "Extension")

MsgExtendResponse_Has == <<>>
MsgExtendResponse_Set == <<>>
MsgExtendResponse_size == <<>>
MsgExtendResponse_marshal == <<>>
MsgExtendResponse_unmarshal == NoCase

MsgSendDelegateAndLock_Has ==
    <<Str("FromAddress"), Str("ToAddress"), Str("ValidatorAddress"),
      Str("UnlockDate"), Ptr("Amount", "Coin")>>
MsgSendDelegateAndLock_Set ==
    <<Str("FromAddress"), Str("ToAddress"), Str("ValidatorAddress"),
      Str("UnlockDate"), Ptr("Amount", "Coin")>>
MsgSendDelegateAndLock_size ==
    <<Str("FromAddress"), Str("ToAddress"), Str("ValidatorAddress"),
      Str("UnlockDate"), Ptr("Amount", "Coin")>>
MsgSendDelegateAndLock_marshal ==
    <<<<5, Ptr("Amount", "Coin")>>, <<4, Str("UnlockDate")>>,
      <<3, Str("ValidatorAddress")>>, <<2, Str("ToAddress")>>,
      <<1, Str("FromAddress")>>>>
MsgSendDelegateAndLock_unmarshal ==
    1 :> Str("FromAddress") @@ 2 :> Str("ToAddress") @@
    3 :> Str("ValidatorAddress") @@ 4 :> Str("UnlockDate") @@
    5 :> Ptr("Amount", "Coin")

MsgSendDelegateAndLockResponse_Has == <<>>
MsgSendDelegateAndLockResponse_Set == <<>>
MsgSendDelegateAndLockResponse_size == <<>>
MsgSendDelegateAndLockResponse_marshal == <<>>
MsgSendDelegateAndLockResponse_unmarshal == NoCase

MsgMultiSendDelegateAndLock_Has ==
    <<Str("FromAddress"), Ptr("TotalAmount", "Coin"),
      List("Outputs", "MultiSendDelegateAndLockOutput")>>
MsgMultiSendDelegateAndLock_Set ==
    <<Str("FromAddress"), Ptr("TotalAmount", "Coin"),
      List("Outputs", "MultiSendDelegateAndLockOutput")>>
MsgMultiSendDelegateAndLock_size ==
    <<Str("FromAddress"), Ptr("TotalAmount", "Coin"),
      List("Outputs", "MultiSendDelegateAndLockOutput")>>
MsgMultiSendDelegateAndLock_marshal ==
    <<<<3, List("Outputs", "MultiSendDelegateAndLockOutput")>>,
      <<2, Ptr("TotalAmount", "Coin")>>, <<1, Str("FromAddress")>>>>
MsgMultiSendDelegateAndLock_unmarshal ==
    1 :> Str("FromAddress") @@ 2 :> Ptr("TotalAmount", "Coin") @@
    3 :> List("Outputs", "MultiSendDelegateAndLockOutput")

MsgMultiSendDelegateAndLockResponse_Has == <<>>
MsgMultiSendDelegateAndLockResponse_Set == <<>>
MsgMultiSendDelegateAndLockResponse_size == <<>>
MsgMultiSendDelegateAndLockResponse_marshal == <<>>
MsgMultiSendDelegateAndLockResponse_unmarshal == NoCase

-----------------------------------------------------------------------------
(* What the methods do with their tables. *)

Message(has, set, methods) == [has |-> has, set |-> set, methods |-> methods]
Known(methods) == Message(methods.size, methods.size, methods)

Pulsar ==
    [DistroModule |->
        Message(DistroModule_Has, DistroModule_Set,
                Methods(DistroModule_size, DistroModule_marshal, DistroModule_unmarshal)),
     DistroGenesisState |->
        Message(DistroGenesisState_Has, DistroGenesisState_Set,
                Methods(DistroGenesisState_size, DistroGenesisState_marshal, DistroGenesisState_unmarshal)),
     Params |->
        Message(Params_Has, Params_Set,
                Methods(Params_size, Params_marshal, Params_unmarshal)),
     QueryParamsRequest |->
        Message(QueryParamsRequest_Has, QueryParamsRequest_Set,
                Methods(QueryParamsRequest_size, QueryParamsRequest_marshal, QueryParamsRequest_unmarshal)),
     QueryParamsResponse |->
        Message(QueryParamsResponse_Has, QueryParamsResponse_Set,
                Methods(QueryParamsResponse_size, QueryParamsResponse_marshal, QueryParamsResponse_unmarshal)),
     MsgUpdateParams |->
        Message(MsgUpdateParams_Has, MsgUpdateParams_Set,
                Methods(MsgUpdateParams_size, MsgUpdateParams_marshal, MsgUpdateParams_unmarshal)),
     MsgUpdateParamsResponse |->
        Message(MsgUpdateParamsResponse_Has, MsgUpdateParamsResponse_Set,
                Methods(MsgUpdateParamsResponse_size, MsgUpdateParamsResponse_marshal, MsgUpdateParamsResponse_unmarshal)),
     MsgMint |->
        Message(MsgMint_Has, MsgMint_Set,
                Methods(MsgMint_size, MsgMint_marshal, MsgMint_unmarshal)),
     MsgMintResponse |->
        Message(MsgMintResponse_Has, MsgMintResponse_Set,
                Methods(MsgMintResponse_size, MsgMintResponse_marshal, MsgMintResponse_unmarshal)),
     LockupModule |->
        Message(LockupModule_Has, LockupModule_Set,
                Methods(LockupModule_size, LockupModule_marshal, LockupModule_unmarshal)),
     Extension |->
        Message(Extension_Has, Extension_Set,
                Methods(Extension_size, Extension_marshal, Extension_unmarshal)),
     LockupGenesisState |->
        Message(LockupGenesisState_Has, LockupGenesisState_Set,
                Methods(LockupGenesisState_size, LockupGenesisState_marshal, LockupGenesisState_unmarshal)),
     Lock |->
        Message(Lock_Has, Lock_Set,
                Methods(Lock_size, Lock_marshal, Lock_unmarshal)),
     Locks |->
        Message(Locks_Has, Locks_Set,
                Methods(Locks_size, Locks_marshal, Locks_unmarshal)),
     MultiSendDelegateAndLockOutput |->
        Message(MultiSendDelegateAndLockOutput_Has, MultiSendDelegateAndLockOutput_Set,
                Methods(MultiSendDelegateAndLockOutput_size, MultiSendDelegateAndLockOutput_marshal, MultiSendDelegateAndLockOutput_unmarshal)),
     QueryActiveLocksRequest |->
        Message(QueryActiveLocksRequest_Has, QueryActiveLocksRequest_Set,
                Methods(QueryActiveLocksRequest_size, QueryActiveLocksRequest_marshal, QueryActiveLocksRequest_unmarshal)),
     QueryActiveLocksResponse |->
        Message(QueryActiveLocksResponse_Has, QueryActiveLocksResponse_Set,
                Methods(QueryActiveLocksResponse_size, QueryActiveLocksResponse_marshal, QueryActiveLocksResponse_unmarshal)),
     ActiveLockResource |->
        Message(ActiveLockResource_Has, ActiveLockResource_Set,
                Methods(ActiveLockResource_size, ActiveLockResource_marshal, ActiveLockResource_unmarshal)),
     QueryTotalLockedAmountRequest |->
        Message(QueryTotalLockedAmountRequest_Has, QueryTotalLockedAmountRequest_Set,
                Methods(QueryTotalLockedAmountRequest_size, QueryTotalLockedAmountRequest_marshal, QueryTotalLockedAmountRequest_unmarshal)),
     QueryTotalLockedAmountResponse |->
        Message(QueryTotalLockedAmountResponse_Has, QueryTotalLockedAmountResponse_Set,
                Methods(QueryTotalLockedAmountResponse_size, QueryTotalLockedAmountResponse_marshal, QueryTotalLockedAmountResponse_unmarshal)),
     QueryAccountLocksRequest |->
        Message(QueryAccountLocksRequest_Has, QueryAccountLocksRequest_Set,
                Methods(QueryAccountLocksRequest_size, QueryAccountLocksRequest_marshal, QueryAccountLocksRequest_unmarshal)),
     QueryAccountLocksResponse |->
        Message(QueryAccountLocksResponse_Has, QueryAccountLocksResponse_Set,
                Methods(QueryAccountLocksResponse_size, QueryAccountLocksResponse_marshal, QueryAccountLocksResponse_unmarshal)),
     AccountLocksResource |->
        Message(AccountLocksResource_Has, AccountLocksResource_Set,
                Methods(AccountLocksResource_size, AccountLocksResource_marshal, AccountLocksResource_unmarshal)),
     LockResource |->
        Message(LockResource_Has, LockResource_Set,
                Methods(LockResource_size, LockResource_marshal, LockResource_unmarshal)),
     QueryLocksRequest |->
        Message(QueryLocksRequest_Has, QueryLocksRequest_Set,
                Methods(QueryLocksRequest_size, QueryLocksRequest_marshal, QueryLocksRequest_unmarshal)),
     QueryLocksResponse |->
        Message(QueryLocksResponse_Has, QueryLocksResponse_Set,
                Methods(QueryLocksResponse_size, QueryLocksResponse_marshal, QueryLocksResponse_unmarshal)),
     MsgLock |->
        Message(MsgLock_Has, MsgLock_Set,
                Methods(MsgLock_size, MsgLock_marshal, MsgLock_unmarshal)),
     MsgLockResponse |->
        Message(MsgLockResponse_Has, MsgLockResponse_Set,
                Methods(MsgLockResponse_size, MsgLockResponse_marshal, MsgLockResponse_unmarshal)),
     MsgExtend |->
        Message(MsgExtend_Has, MsgExtend_Set,
                Methods(MsgExtend_size, MsgExtend_marshal, MsgExtend_unmarshal)),
     MsgExtendResponse |->
        Message(MsgExtendResponse_Has, MsgExtendResponse_Set,
                Methods(MsgExtendResponse_size, MsgExtendResponse_marshal, MsgExtendResponse_unmarshal)),
     MsgSendDelegateAndLock |->
        Message(MsgSendDelegateAndLock_Has, MsgSendDelegateAndLock_Set,
                Methods(MsgSendDelegateAndLock_size, MsgSendDelegateAndLock_marshal, MsgSendDelegateAndLock_unmarshal)),
     MsgSendDelegateAndLockResponse |->
        Message(MsgSendDelegateAndLockResponse_Has, MsgSendDelegateAndLockResponse_Set,
                Methods(MsgSendDelegateAndLockResponse_size, MsgSendDelegateAndLockResponse_marshal, MsgSendDelegateAndLockResponse_unmarshal)),
     MsgMultiSendDelegateAndLock |->
        Message(MsgMultiSendDelegateAndLock_Has, MsgMultiSendDelegateAndLock_Set,
                Methods(MsgMultiSendDelegateAndLock_size, MsgMultiSendDelegateAndLock_marshal, MsgMultiSendDelegateAndLock_unmarshal)),
     MsgMultiSendDelegateAndLockResponse |->
        Message(MsgMultiSendDelegateAndLockResponse_Has, MsgMultiSendDelegateAndLockResponse_Set,
                Methods(MsgMultiSendDelegateAndLockResponse_size, MsgMultiSendDelegateAndLockResponse_marshal, MsgMultiSendDelegateAndLockResponse_unmarshal)),
     Coin |-> Known(External(1, Str("Denom"), 2, Str("Amount"))),
     PageRequest |-> Known(External(1, Str("Key"), 3, Uint("Limit"))),
     PageResponse |-> Known(External(1, Str("NextKey"), 2, Uint("Total")))]

Unmarshal(t) == Pulsar[t].methods.unmarshal

\* A new message: every scalar the default, every nested message and every
\* list nil.
PulsarFields(t) == {Unmarshal(t)[n] : n \in DOMAIN Unmarshal(t)}
PulsarNew(t) ==
    [f \in FieldNames(PulsarFields(t)) \cup {"unknownFields"} |->
        IF f = "unknownFields" THEN <<>>
        ELSE LET e == EntryOf(PulsarFields(t), f)
             IN IF Composite(e) THEN <<>> ELSE ZeroScalar(e)]

\* Has: a scalar that is not the default, a message that is not nil, a list
\* that is not empty.
IsSet(e, v) == v # (IF Composite(e) THEN <<>> ELSE ZeroScalar(e))
PulsarHas(t, m) ==
    {e.field : e \in {d \in ToSet(Pulsar[t].has) : IsSet(d, m[d.field])}}

\* Clear, Set, and Mutable of a message field, which allocates the message
\* when there is none.
PulsarClear(t, m, f) ==
    LET e == EntryOf(ToSet(Pulsar[t].has), f)
    IN [m EXCEPT ![f] = IF Composite(e) THEN <<>> ELSE ZeroScalar(e)]
PulsarSet(m, f, v) == [m EXCEPT ![f] = v]
PulsarMutable(t, m, f) ==
    LET e == EntryOf(ToSet(Pulsar[t].set), f)
    IN [m EXCEPT ![f] = IF @ = <<>> THEN <<PulsarNew(e.of)>> ELSE @]

\* The list a repeated field hands out: Append, AppendMutable, Truncate.
ListAppend(m, f, v) == [m EXCEPT ![f] = Append(@, v)]
ListAppendMutable(t, m, f) ==
    LET e == EntryOf(ToSet(Pulsar[t].set), f)
    IN [m EXCEPT ![f] = Append(@, PulsarNew(e.of))]
ListTruncate(m, f, n) == [m EXCEPT ![f] = SubSeq(@, 1, n)]

RECURSIVE PulsarSize(_, _)
PulsarSizeField(e, v) ==
    LET Counted(l) == 1 + l + Sov(l)
    IN CASE e.kind = "string" -> IF v = "" THEN 0 ELSE Counted(Length[v])
         [] e.kind = "uint64" -> IF v = "0" THEN 0 ELSE 1 + Sov(Number[v])
         [] OTHER ->
             FoldLeft(LAMBDA n, m : n + Counted(PulsarSize(e.of, m)), 0, v)
PulsarSize(t, m) ==
    FoldLeft(LAMBDA n, e : n + PulsarSizeField(e, m[e.field]),
             Bytes(m.unknownFields), Pulsar[t].methods.size)

\* marshal fills the buffer from its end, the unknown fields first.
RECURSIVE PulsarMarshal(_, _)
PulsarMarshalField(n, e, v) ==
    CASE e.kind = "string" -> IF v = "" THEN <<>> ELSE <<Field(n, Delimited, Text(v))>>
      [] e.kind = "uint64" -> IF v = "0" THEN <<>> ELSE <<Field(n, Varint, Text(v))>>
      [] OTHER ->
          [i \in DOMAIN v |-> Field(n, Delimited, Nested(PulsarMarshal(e.of, v[i])))]
PulsarMarshal(t, m) ==
    FoldLeft(LAMBDA buf, w : PulsarMarshalField(w[1], w[2], m[w[2].field]) \o buf,
             m.unknownFields, Pulsar[t].methods.marshal)

\* unmarshal: a scalar is replaced, a nested message is read into a new one,
\* a list grows, and a field no case names is kept as it is, a group whole.
RECURSIVE PulsarUnmarshal(_, _)
PulsarReadField(r, e, x) ==
    LET sub == PulsarUnmarshal(e.of, x.val.m)
    IN CASE ~Composite(e) -> [r EXCEPT !.m[e.field] = x.val.s]
         [] ~Done(sub) -> Fail(r)
         [] e.kind = "list" -> [r EXCEPT !.m[e.field] = Append(@, sub.m)]
         [] OTHER -> [r EXCEPT !.m[e.field] = <<sub.m>>]
\* A faulty unmarshal that forgets unknown fields.
PulsarKeep_Drops(r, x) == Skip(r, x)
PulsarKeep(r, x) ==
    [Skip(r, x) EXCEPT !.m.unknownFields = Append(@, x)]
PulsarStep(t, r, x) ==
    LET cases == Unmarshal(t)
    IN IF ~r.ok THEN r
       ELSE IF r.depth > 0 THEN PulsarKeep(r, x)
       ELSE IF x.wt = EndGroup \/ x.num <= 0 THEN Fail(r)
       ELSE IF x.num \notin DOMAIN cases THEN PulsarKeep(r, x)
       ELSE IF x.wt # WireType(cases[x.num]) \/ x.cut THEN Fail(r)
       ELSE PulsarReadField(r, cases[x.num], x)
PulsarUnmarshal(t, buf) ==
    FoldLeft(LAMBDA r, x : PulsarStep(t, r, x), Reader(PulsarNew(t)), buf)

=============================================================================
