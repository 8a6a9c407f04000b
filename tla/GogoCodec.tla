------------------------------ MODULE GogoCodec ------------------------------
(***************************************************************************)
(* The codec the node uses: the Marshal, Size and Unmarshal methods that   *)
(* gogoproto generates into x/*/types/*.pb.go.                             *)
(*                                                                         *)
(* A message is a function from its Go field names; a scalar is a token, a *)
(* nested message or a list is the sequence of the messages it holds (one  *)
(* for a field held by value, none or one behind a pointer).               *)
(*                                                                         *)
(* Each method of each message is a table of its own, in the order of the  *)
(* statements of the method, so that a method that forgets a field or      *)
(* disagrees with the others about it is a different table.                *)
(*   X_MarshalToSizedBuffer   the fields with the numbers their tags are   *)
(*                            written with, last field first               *)
(*   X_Size                   the fields counted                           *)
(*   X_Unmarshal              the cases of the switch on fieldNum          *)
(***************************************************************************)
EXTENDS ProtoWire

DistroGenesisState_MarshalToSizedBuffer == <<<<1, Val("Params", "Params")>>>>
DistroGenesisState_Size == <<Val("Params", "Params")>>
DistroGenesisState_Unmarshal == 1 :> Val("Params", "Params")

Params_MarshalToSizedBuffer ==
    <<<<6, Uint("MonthsInHalvingPeriod")>>,
      <<5, Str("DistributionStartDate")>>, <<4, Str("MaxSupply")>>,
      <<3, Str("Denom")>>, <<2, Str("ReceivingAddress")>>,
      <<1, Str("MintingAddress")>>>>
Params_Size ==
    <<Str("MintingAddress"), Str("ReceivingAddress"), Str("Denom"),
      Str("MaxSupply"), Str("DistributionStartDate"),
      Uint("MonthsInHalvingPeriod")>>
Params_Unmarshal ==
    1 :> Str("MintingAddress") @@ 2 :> Str("ReceivingAddress") @@
    3 :> Str("Denom") @@ 4 :> Str("MaxSupply") @@
    5 :> Str("DistributionStartDate") @@ 6 :> Uint("MonthsInHalvingPeriod")

QueryParamsRequest_MarshalToSizedBuffer == <<>>
QueryParamsRequest_Size == <<>>
QueryParamsRequest_Unmarshal == NoCase

QueryParamsResponse_MarshalToSizedBuffer == <<<<1, Ptr("Params", "Params")>>>>
QueryParamsResponse_Size == <<Ptr("Params", "Params")>>
QueryParamsResponse_Unmarshal == 1 :> Ptr("Params", "Params")

MsgUpdateParams_MarshalToSizedBuffer ==
    <<<<2, Val("Params", "Params")>>, <<1, Str("Authority")>>>>
MsgUpdateParams_Size == <<Str("Authority"), Val("Params", "Params")>>
MsgUpdateParams_Unmarshal ==
    1 :> Str("Authority") @@ 2 :> Val("Params", "Params")

MsgUpdateParamsResponse_MarshalToSizedBuffer == <<>>
MsgUpdateParamsResponse_Size == <<>>
MsgUpdateParamsResponse_Unmarshal == NoCase

MsgMint_MarshalToSizedBuffer == <<<<2, Str("Minter")>>, <<1, Str("Amount")>>>>
MsgMint_Size == <<Str("Amount"), Str("Minter")>>
MsgMint_Unmarshal == 1 :> Str("Amount") @@ 2 :> Str("Minter")

MsgMintResponse_MarshalToSizedBuffer == <<>>
MsgMintResponse_Size == <<>>
MsgMintResponse_Unmarshal == NoCase

Extension_MarshalToSizedBuffer ==
    <<<<3, Val("Amount", "Coin")>>, <<2, Str("ToDate")>>,
      <<1, Str("FromDate")>>>>
Extension_Size == <<Str("FromDate"), Str("ToDate"), Val("Amount", "Coin")>>
Extension_Unmarshal ==
    1 :> Str("FromDate") @@ 2 :> Str("ToDate") @@ 3 :> Val("Amount", "Coin")

LockupGenesisState_MarshalToSizedBuffer == <<>>
LockupGenesisState_Size == <<>>
LockupGenesisState_Unmarshal == NoCase

Lock_MarshalToSizedBuffer ==
    <<<<2, MathInt("Amount")>>, <<1, Str("UnlockDate")>>>>
Lock_Size == <<Str("UnlockDate"), MathInt("Amount")>>
Lock_Unmarshal == 1 :> Str("UnlockDate") @@ 2 :> MathInt("Amount")

Locks_MarshalToSizedBuffer == <<<<1, List("Locks", "Lock")>>>>
Locks_Size == <<List("Locks", "Lock")>>
Locks_Unmarshal == 1 :> List("Locks", "Lock")

MultiSendDelegateAndLockOutput_MarshalToSizedBuffer ==
    <<<<5, Val("Amount", "Coin")>>, <<4, Str("UnlockDate")>>,
      <<3, Str("ValidatorAddress")>>, <<2, Str("ToAddress")>>,
      <<1, Str("FromAddress")>>>>
MultiSendDelegateAndLockOutput_Size ==
    <<Str("FromAddress"), Str("ToAddress"), Str("ValidatorAddress"),
      Str("UnlockDate"), Val("Amount", "Coin")>>
MultiSendDelegateAndLockOutput_Unmarshal ==
    1 :> Str("FromAddress") @@ 2 :> Str("ToAddress") @@
    3 :> Str("ValidatorAddress") @@ 4 :> Str("UnlockDate") @@
    5 :> Val("Amount", "Coin")

QueryActiveLocksRequest_MarshalToSizedBuffer ==
    <<<<1, Ptr("Pagination", "PageRequest")>>>>
QueryActiveLocksRequest_Size == <<Ptr("Pagination", "PageRequest")>>
QueryActiveLocksRequest_Unmarshal == 1 :> Ptr("Pagination", "PageRequest")

QueryActiveLocksResponse_MarshalToSizedBuffer ==
    <<<<2, Ptr("Pagination", "PageResponse")>>,
      <<1, List("Locks", "ActiveLockResource")>>>>
QueryActiveLocksResponse_Size ==
    <<List("Locks", "ActiveLockResource"), Ptr("Pagination", "PageResponse")>>
QueryActiveLocksResponse_Unmarshal ==
    1 :> List("Locks", "ActiveLockResource") @@
    2 :> Ptr("Pagination", "PageResponse")

ActiveLockResource_MarshalToSizedBuffer ==
    <<<<3, Val("Amount", "Coin")>>, <<2, Str("UnlockDate")>>,
      <<1, Str("Address")>>>>
ActiveLockResource_Size ==
    <<Str("Address"), Str("UnlockDate"), Val("Amount", "Coin")>>
ActiveLockResource_Unmarshal ==
    1 :> Str("Address") @@ 2 :> Str("UnlockDate") @@
    3 :> Val("Amount", "Coin")

QueryTotalLockedAmountRequest_MarshalToSizedBuffer == <<>>
QueryTotalLockedAmountRequest_Size == <<>>
QueryTotalLockedAmountRequest_Unmarshal == NoCase

QueryTotalLockedAmountResponse_MarshalToSizedBuffer ==
    <<<<1, Val("TotalLocked", "Coin")>>>>
QueryTotalLockedAmountResponse_Size == <<Val("TotalLocked", "Coin")>>
QueryTotalLockedAmountResponse_Unmarshal == 1 :> Val("TotalLocked", "Coin")

QueryAccountLocksRequest_MarshalToSizedBuffer ==
    <<<<2, Ptr("Pagination", "PageRequest")>>, <<1, Str("Addresses")>>>>
QueryAccountLocksRequest_Size ==
    <<Str("Addresses"), Ptr("Pagination", "PageRequest")>>
QueryAccountLocksRequest_Unmarshal ==
    1 :> Str("Addresses") @@ 2 :> Ptr("Pagination", "PageRequest")

QueryAccountLocksResponse_MarshalToSizedBuffer ==
    <<<<2, Ptr("Pagination", "PageResponse")>>,
      <<1, List("Accounts", "AccountLocksResource")>>>>
QueryAccountLocksResponse_Size ==
    <<List("Accounts", "AccountLocksResource"),
      Ptr("Pagination", "PageResponse")>>
QueryAccountLocksResponse_Unmarshal ==
    1 :> List("Accounts", "AccountLocksResource") @@
    2 :> Ptr("Pagination", "PageResponse")

AccountLocksResource_MarshalToSizedBuffer ==
    <<<<2, List("Locks", "LockResource")>>, <<1, Str("Address")>>>>
AccountLocksResource_Size == <<Str("Address"), List("Locks", "LockResource")>>
AccountLocksResource_Unmarshal ==
    1 :> Str("Address") @@ 2 :> List("Locks", "LockResource")

LockResource_MarshalToSizedBuffer ==
    <<<<3, Val("Amount", "Coin")>>, <<1, Str("UnlockDate")>>>>
LockResource_Size == <<Str("UnlockDate"), Val("Amount", "Coin")>>
LockResource_Unmarshal == 1 :> Str("UnlockDate") @@ 3 :> Val("Amount", "Coin")

QueryLocksRequest_MarshalToSizedBuffer ==
    <<<<2, Ptr("Pagination", "PageRequest")>>, <<1, Str("Address")>>>>
QueryLocksRequest_Size == <<Str("Address"), Ptr("Pagination", "PageRequest")>>
QueryLocksRequest_Unmarshal ==
    1 :> Str("Address") @@ 2 :> Ptr("Pagination", "PageRequest")

QueryLocksResponse_MarshalToSizedBuffer ==
    <<<<2, Ptr("Pagination", "PageResponse")>>,
      <<1, List("Locks", "LockResource")>>>>
QueryLocksResponse_Size ==
    <<List("Locks", "LockResource"), Ptr("Pagination", "PageResponse")>>
QueryLocksResponse_Unmarshal ==
    1 :> List("Locks", "LockResource") @@
    2 :> Ptr("Pagination", "PageResponse")

MsgLock_MarshalToSizedBuffer ==
    <<<<3, Val("Amount", "Coin")>>, <<2, Str("UnlockDate")>>,
      <<1, Str("Address")>>>>
MsgLock_Size == <<Str("Address"), Str("UnlockDate"), Val("Amount", "Coin")>>
MsgLock_Unmarshal ==
    1 :> Str("Address") @@ 2 :> Str("UnlockDate") @@
    3 :> Val("Amount", "Coin")

MsgLockResponse_MarshalToSizedBuffer == <<>>
MsgLockResponse_Size == <<>>
MsgLockResponse_Unmarshal == NoCase

MsgExtend_MarshalToSizedBuffer ==
    <<<<2, List("Extensions", "Extension")>>, <<1, Str("Address")>>>>
MsgExtend_Size == <<Str("Address"), List("Extensions", "Extension")>>
MsgExtend_Unmarshal ==
    1 :> Str("Address") @@ 2 :> List("Extensions", "Extension")

MsgExtendResponse_MarshalToSizedBuffer == <<>>
MsgExtendResponse_Size == <<>>
MsgExtendResponse_Unmarshal == NoCase

MsgSendDelegateAndLock_MarshalToSizedBuffer ==
    <<<<5, Val("Amount", "Coin")>>, <<4, Str("UnlockDate")>>,
      <<3, Str("ValidatorAddress")>>, <<2, Str("ToAddress")>>,
      <<1, Str("FromAddress")>>>>
MsgSendDelegateAndLock_Size ==
    <<Str("FromAddress"), Str("ToAddress"), Str("ValidatorAddress"),
      Str("UnlockDate"), Val("Amount", "Coin")>>
MsgSendDelegateAndLock_Unmarshal ==
    1 :> Str("FromAddress") @@ 2 :> Str("ToAddress") @@
    3 :> Str("ValidatorAddress") @@ 4 :> Str("UnlockDate") @@
    5 :> Val("Amount", "Coin")

MsgSendDelegateAndLockResponse_MarshalToSizedBuffer == <<>>
MsgSendDelegateAndLockResponse_Size == <<>>
MsgSendDelegateAndLockResponse_Unmarshal == NoCase

MsgMultiSendDelegateAndLock_MarshalToSizedBuffer ==
    <<<<3, List("Outputs", "MultiSendDelegateAndLockOutput")>>,
      <<2, Val("TotalAmount", "Coin")>>, <<1, Str("FromAddress")>>>>
MsgMultiSendDelegateAndLock_Size ==
    <<Str("FromAddress"), Val("TotalAmount", "Coin"),
      List("Outputs", "MultiSendDelegateAndLockOutput")>>
MsgMultiSendDelegateAndLock_Unmarshal ==
    1 :> Str("FromAddress") @@ 2 :> Val("TotalAmount", "Coin") @@
    3 :> List("Outputs", "MultiSendDelegateAndLockOutput")

MsgMultiSendDelegateAndLockResponse_MarshalToSizedBuffer == <<>>
MsgMultiSendDelegateAndLockResponse_Size == <<>>
MsgMultiSendDelegateAndLockResponse_Unmarshal == NoCase

-----------------------------------------------------------------------------
(* What the methods do with their tables. *)

Gogo ==
    [DistroGenesisState |->
        Methods(DistroGenesisState_Size, DistroGenesisState_MarshalToSizedBuffer,
                DistroGenesisState_Unmarshal),
     Params |->
        Methods(Params_Size, Params_MarshalToSizedBuffer,
                Params_Unmarshal),
     QueryParamsRequest |->
        Methods(QueryParamsRequest_Size, QueryParamsRequest_MarshalToSizedBuffer,
                QueryParamsRequest_Unmarshal),
     QueryParamsResponse |->
        Methods(QueryParamsResponse_Size, QueryParamsResponse_MarshalToSizedBuffer,
                QueryParamsResponse_Unmarshal),
     MsgUpdateParams |->
        Methods(MsgUpdateParams_Size, MsgUpdateParams_MarshalToSizedBuffer,
                MsgUpdateParams_Unmarshal),
     MsgUpdateParamsResponse |->
        Methods(MsgUpdateParamsResponse_Size, MsgUpdateParamsResponse_MarshalToSizedBuffer,
                MsgUpdateParamsResponse_Unmarshal),
     MsgMint |->
        Methods(MsgMint_Size, MsgMint_MarshalToSizedBuffer,
                MsgMint_Unmarshal),
     MsgMintResponse |->
        Methods(MsgMintResponse_Size, MsgMintResponse_MarshalToSizedBuffer,
                MsgMintResponse_Unmarshal),
     Extension |->
        Methods(Extension_Size, Extension_MarshalToSizedBuffer,
                Extension_Unmarshal),
     LockupGenesisState |->
        Methods(LockupGenesisState_Size, LockupGenesisState_MarshalToSizedBuffer,
                LockupGenesisState_Unmarshal),
     Lock |-> Methods(Lock_Size, Lock_MarshalToSizedBuffer, Lock_Unmarshal),
     Locks |->
        Methods(Locks_Size, Locks_MarshalToSizedBuffer,
                Locks_Unmarshal),
     MultiSendDelegateAndLockOutput |->
        Methods(MultiSendDelegateAndLockOutput_Size, MultiSendDelegateAndLockOutput_MarshalToSizedBuffer,
                MultiSendDelegateAndLockOutput_Unmarshal),
     QueryActiveLocksRequest |->
        Methods(QueryActiveLocksRequest_Size, QueryActiveLocksRequest_MarshalToSizedBuffer,
                QueryActiveLocksRequest_Unmarshal),
     QueryActiveLocksResponse |->
        Methods(QueryActiveLocksResponse_Size, QueryActiveLocksResponse_MarshalToSizedBuffer,
                QueryActiveLocksResponse_Unmarshal),
     ActiveLockResource |->
        Methods(ActiveLockResource_Size, ActiveLockResource_MarshalToSizedBuffer,
                ActiveLockResource_Unmarshal),
     QueryTotalLockedAmountRequest |->
        Methods(QueryTotalLockedAmountRequest_Size, QueryTotalLockedAmountRequest_MarshalToSizedBuffer,
                QueryTotalLockedAmountRequest_Unmarshal),
     QueryTotalLockedAmountResponse |->
        Methods(QueryTotalLockedAmountResponse_Size, QueryTotalLockedAmountResponse_MarshalToSizedBuffer,
                QueryTotalLockedAmountResponse_Unmarshal),
     QueryAccountLocksRequest |->
        Methods(QueryAccountLocksRequest_Size, QueryAccountLocksRequest_MarshalToSizedBuffer,
                QueryAccountLocksRequest_Unmarshal),
     QueryAccountLocksResponse |->
        Methods(QueryAccountLocksResponse_Size, QueryAccountLocksResponse_MarshalToSizedBuffer,
                QueryAccountLocksResponse_Unmarshal),
     AccountLocksResource |->
        Methods(AccountLocksResource_Size, AccountLocksResource_MarshalToSizedBuffer,
                AccountLocksResource_Unmarshal),
     LockResource |->
        Methods(LockResource_Size, LockResource_MarshalToSizedBuffer,
                LockResource_Unmarshal),
     QueryLocksRequest |->
        Methods(QueryLocksRequest_Size, QueryLocksRequest_MarshalToSizedBuffer,
                QueryLocksRequest_Unmarshal),
     QueryLocksResponse |->
        Methods(QueryLocksResponse_Size, QueryLocksResponse_MarshalToSizedBuffer,
                QueryLocksResponse_Unmarshal),
     MsgLock |->
        Methods(MsgLock_Size, MsgLock_MarshalToSizedBuffer,
                MsgLock_Unmarshal),
     MsgLockResponse |->
        Methods(MsgLockResponse_Size, MsgLockResponse_MarshalToSizedBuffer,
                MsgLockResponse_Unmarshal),
     MsgExtend |->
        Methods(MsgExtend_Size, MsgExtend_MarshalToSizedBuffer,
                MsgExtend_Unmarshal),
     MsgExtendResponse |->
        Methods(MsgExtendResponse_Size, MsgExtendResponse_MarshalToSizedBuffer,
                MsgExtendResponse_Unmarshal),
     MsgSendDelegateAndLock |->
        Methods(MsgSendDelegateAndLock_Size, MsgSendDelegateAndLock_MarshalToSizedBuffer,
                MsgSendDelegateAndLock_Unmarshal),
     MsgSendDelegateAndLockResponse |->
        Methods(MsgSendDelegateAndLockResponse_Size, MsgSendDelegateAndLockResponse_MarshalToSizedBuffer,
                MsgSendDelegateAndLockResponse_Unmarshal),
     MsgMultiSendDelegateAndLock |->
        Methods(MsgMultiSendDelegateAndLock_Size, MsgMultiSendDelegateAndLock_MarshalToSizedBuffer,
                MsgMultiSendDelegateAndLock_Unmarshal),
     MsgMultiSendDelegateAndLockResponse |->
        Methods(MsgMultiSendDelegateAndLockResponse_Size, MsgMultiSendDelegateAndLockResponse_MarshalToSizedBuffer,
                MsgMultiSendDelegateAndLockResponse_Unmarshal),
     Coin |-> External(1, Str("Denom"), 2, MathInt("Amount")),
     PageRequest |-> External(1, Str("Key"), 3, Uint("Limit")),
     PageResponse |-> External(1, Str("NextKey"), 2, Uint("Total"))]

Entries(t) == {Gogo[t].unmarshal[n] : n \in DOMAIN Gogo[t].unmarshal}

\* The zero value of the Go struct.
RECURSIVE GogoZero(_)
GogoZero(t) ==
    [f \in FieldNames(Entries(t)) |->
        LET e == EntryOf(Entries(t), f)
        IN CASE e.kind = "value" -> <<GogoZero(e.of)>>
             [] e.kind \in {"pointer", "list"} -> <<>>
             [] OTHER -> ZeroScalar(e)]

\* Size: a scalar counts when it is not the default, an Int always, a
\* nested message when there is one (a field held by value always is).
RECURSIVE GogoSize(_, _)
GogoSizeField(e, v) ==
    LET Counted(l) == 1 + l + Sov(l)
    IN CASE e.kind = "string" -> IF v = "" THEN 0 ELSE Counted(Length[v])
         [] e.kind = "uint64" -> IF v = "0" THEN 0 ELSE 1 + Sov(Number[v])
         [] e.kind = "Int" -> Counted(Length[IntText(v)])
         [] OTHER ->
             FoldLeft(LAMBDA n, m : n + Counted(GogoSize(e.of, m)), 0, v)
GogoSize(t, m) ==
    FoldLeft(LAMBDA n, e : n + GogoSizeField(e, m[e.field]), 0, Gogo[t].size)

\* MarshalToSizedBuffer fills the buffer from its end: each statement puts
\* its bytes before those already there.
RECURSIVE GogoMarshal(_, _)
GogoMarshalField(n, e, v) ==
    CASE e.kind = "string" -> IF v = "" THEN <<>> ELSE <<Field(n, Delimited, Text(v))>>
      [] e.kind = "uint64" -> IF v = "0" THEN <<>> ELSE <<Field(n, Varint, Text(v))>>
      [] e.kind = "Int" -> <<Field(n, Delimited, Text(IntText(v)))>>
      [] OTHER ->
          [i \in DOMAIN v |-> Field(n, Delimited, Nested(GogoMarshal(e.of, v[i])))]
GogoMarshal(t, m) ==
    FoldLeft(LAMBDA buf, w : GogoMarshalField(w[1], w[2], m[w[2].field]) \o buf,
             <<>>, Gogo[t].marshal)

\* Unmarshal reads into the message it is called on: a scalar is replaced, a
\* nested message that is there already is read into, a list grows.  A field
\* no case names is skipped and forgotten.
RECURSIVE GogoRead(_, _, _)
\* A faulty Unmarshal that keeps a scalar it has read already.
GogoReadField_FirstWins(r, e, x) ==
    LET v == r.m[e.field]
        into == IF e.kind = "list" \/ v = <<>> THEN GogoZero(e.of) ELSE v[1]
        sub == GogoRead(e.of, x.val.m, into)
    IN CASE e.kind \in {"string", "uint64"} ->
             IF v # ZeroScalar(e) THEN r ELSE [r EXCEPT !.m[e.field] = x.val.s]
         [] e.kind = "Int" ->
             IF x.val.s = "" THEN r
             ELSE IF ~IsNumeral(x.val.s) THEN Fail(r)
             ELSE [r EXCEPT !.m[e.field] = Numeral[x.val.s]]
         [] ~Done(sub) -> Fail(r)
         [] e.kind = "list" -> [r EXCEPT !.m[e.field] = Append(@, sub.m)]
         [] OTHER -> [r EXCEPT !.m[e.field] = <<sub.m>>]
GogoReadField(r, e, x) ==
    LET v == r.m[e.field]
        into == IF e.kind = "list" \/ v = <<>> THEN GogoZero(e.of) ELSE v[1]
        sub == GogoRead(e.of, x.val.m, into)
    IN CASE e.kind \in {"string", "uint64"} -> [r EXCEPT !.m[e.field] = x.val.s]
         [] e.kind = "Int" ->
             IF x.val.s = "" THEN r
             ELSE IF ~IsNumeral(x.val.s) THEN Fail(r)
             ELSE [r EXCEPT !.m[e.field] = Numeral[x.val.s]]
         [] ~Done(sub) -> Fail(r)
         [] e.kind = "list" -> [r EXCEPT !.m[e.field] = Append(@, sub.m)]
         [] OTHER -> [r EXCEPT !.m[e.field] = <<sub.m>>]

\* A faulty Unmarshal that does not compare the wire type.
GogoStep_AnyWireType(t, r, x) ==
    LET cases == Gogo[t].unmarshal
    IN IF ~r.ok THEN r
       ELSE IF r.depth > 0 THEN Skip(r, x)
       ELSE IF x.wt = EndGroup \/ x.num <= 0 THEN Fail(r)
       ELSE IF x.num \notin DOMAIN cases THEN Skip(r, x)
       ELSE IF x.cut THEN Fail(r)
       ELSE GogoReadField(r, cases[x.num], x)
GogoStep(t, r, x) ==
    LET cases == Gogo[t].unmarshal
    IN IF ~r.ok THEN r
       ELSE IF r.depth > 0 THEN Skip(r, x)
       ELSE IF x.wt = EndGroup \/ x.num <= 0 THEN Fail(r)
       ELSE IF x.num \notin DOMAIN cases THEN Skip(r, x)
       ELSE IF x.wt # WireType(cases[x.num]) \/ x.cut THEN Fail(r)
       ELSE GogoReadField(r, cases[x.num], x)

GogoRead(t, buf, into) ==
    FoldLeft(LAMBDA r, x : GogoStep(t, r, x), Reader(into), buf)
GogoUnmarshal(t, buf) == GogoRead(t, buf, GogoZero(t))

=============================================================================
