----------------------------- MODULE ProtoSchema -----------------------------
(***************************************************************************)
(* What the .proto files under proto/ declare, message by message, and     *)
(* what a buffer and a message mean under that declaration.  The codecs    *)
(* are judged against these definitions; nothing here reads a codec's      *)
(* table.                                                                  *)
(***************************************************************************)
EXTENDS ProtoWire

DistroGenesisState == 1 :> Val("Params", "Params")
Params ==
    1 :> Str("MintingAddress") @@ 2 :> Str("ReceivingAddress") @@
    3 :> Str("Denom") @@ 4 :> Str("MaxSupply") @@
    5 :> Str("DistributionStartDate") @@ 6 :> Uint("MonthsInHalvingPeriod")
QueryParamsRequest == NoCase
QueryParamsResponse == 1 :> Ptr("Params", "Params")
MsgUpdateParams == 1 :> Str("Authority") @@ 2 :> Val("Params", "Params")
MsgUpdateParamsResponse == NoCase
MsgMint == 1 :> Str("Amount") @@ 2 :> Str("Minter")
MsgMintResponse == NoCase
Extension ==
    1 :> Str("FromDate") @@ 2 :> Str("ToDate") @@ 3 :> Val("Amount", "Coin")
LockupGenesisState == NoCase
Lock == 1 :> Str("UnlockDate") @@ 2 :> MathInt("Amount")
Locks == 1 :> List("Locks", "Lock")
MultiSendDelegateAndLockOutput ==
    1 :> Str("FromAddress") @@ 2 :> Str("ToAddress") @@
    3 :> Str("ValidatorAddress") @@ 4 :> Str("UnlockDate") @@
    5 :> Val("Amount", "Coin")
QueryActiveLocksRequest == 1 :> Ptr("Pagination", "PageRequest")
QueryActiveLocksResponse ==
    1 :> List("Locks", "ActiveLockResource") @@
    2 :> Ptr("Pagination", "PageResponse")
ActiveLockResource ==
    1 :> Str("Address") @@ 2 :> Str("UnlockDate") @@
    3 :> Val("Amount", "Coin")
QueryTotalLockedAmountRequest == NoCase
QueryTotalLockedAmountResponse == 1 :> Val("TotalLocked", "Coin")
QueryAccountLocksRequest ==
    1 :> Str("Addresses") @@ 2 :> Ptr("Pagination", "PageRequest")
QueryAccountLocksResponse ==
    1 :> List("Accounts", "AccountLocksResource") @@
    2 :> Ptr("Pagination", "PageResponse")
AccountLocksResource ==
    1 :> Str("Address") @@ 2 :> List("Locks", "LockResource")
LockResource == 1 :> Str("UnlockDate") @@ 3 :> Val("Amount", "Coin")
QueryLocksRequest ==
    1 :> Str("Address") @@ 2 :> Ptr("Pagination", "PageRequest")
QueryLocksResponse ==
    1 :> List("Locks", "LockResource") @@
    2 :> Ptr("Pagination", "PageResponse")
MsgLock ==
    1 :> Str("Address") @@ 2 :> Str("UnlockDate") @@
    3 :> Val("Amount", "Coin")
MsgLockResponse == NoCase
MsgExtend == 1 :> Str("Address") @@ 2 :> List("Extensions", "Extension")
MsgExtendResponse == NoCase
MsgSendDelegateAndLock ==
    1 :> Str("FromAddress") @@ 2 :> Str("ToAddress") @@
    3 :> Str("ValidatorAddress") @@ 4 :> Str("UnlockDate") @@
    5 :> Val("Amount", "Coin")
MsgSendDelegateAndLockResponse == NoCase
MsgMultiSendDelegateAndLock ==
    1 :> Str("FromAddress") @@ 2 :> Val("TotalAmount", "Coin") @@
    3 :> List("Outputs", "MultiSendDelegateAndLockOutput")
MsgMultiSendDelegateAndLockResponse == NoCase
DistroModule == NoCase
LockupModule == NoCase

Schema ==
    [DistroGenesisState |-> DistroGenesisState,
     Params |-> Params,
     QueryParamsRequest |-> QueryParamsRequest,
     QueryParamsResponse |-> QueryParamsResponse,
     MsgUpdateParams |-> MsgUpdateParams,
     MsgUpdateParamsResponse |-> MsgUpdateParamsResponse,
     MsgMint |-> MsgMint,
     MsgMintResponse |-> MsgMintResponse,
     Extension |-> Extension,
     LockupGenesisState |-> LockupGenesisState,
     Lock |-> Lock,
     Locks |-> Locks,
     MultiSendDelegateAndLockOutput |-> MultiSendDelegateAndLockOutput,
     QueryActiveLocksRequest |-> QueryActiveLocksRequest,
     QueryActiveLocksResponse |-> QueryActiveLocksResponse,
     ActiveLockResource |-> ActiveLockResource,
     QueryTotalLockedAmountRequest |-> QueryTotalLockedAmountRequest,
     QueryTotalLockedAmountResponse |-> QueryTotalLockedAmountResponse,
     QueryAccountLocksRequest |-> QueryAccountLocksRequest,
     QueryAccountLocksResponse |-> QueryAccountLocksResponse,
     AccountLocksResource |-> AccountLocksResource,
     LockResource |-> LockResource,
     QueryLocksRequest |-> QueryLocksRequest,
     QueryLocksResponse |-> QueryLocksResponse,
     MsgLock |-> MsgLock,
     MsgLockResponse |-> MsgLockResponse,
     MsgExtend |-> MsgExtend,
     MsgExtendResponse |-> MsgExtendResponse,
     MsgSendDelegateAndLock |-> MsgSendDelegateAndLock,
     MsgSendDelegateAndLockResponse |-> MsgSendDelegateAndLockResponse,
     MsgMultiSendDelegateAndLock |-> MsgMultiSendDelegateAndLock,
     MsgMultiSendDelegateAndLockResponse |-> MsgMultiSendDelegateAndLockResponse,
     DistroModule |-> DistroModule,
     LockupModule |-> LockupModule,
     Coin |-> 1 :> Str("Denom") @@ 2 :> MathInt("Amount"),
     PageRequest |-> 1 :> Str("Key") @@ 3 :> Uint("Limit"),
     PageResponse |-> 1 :> Str("NextKey") @@ 2 :> Uint("Total")]

SchemaFields(t) == {Schema[t][n] : n \in DOMAIN Schema[t]}

-----------------------------------------------------------------------------
(* The positions of a buffer that are outside every group, and of those    *)
(* the ones that carry a declared field.                                   *)

Openings(buf, i, wt) == Cardinality({j \in 1 .. i - 1 : buf[j].wt = wt})
Outside(buf) ==
    {i \in DOMAIN buf : Openings(buf, i, StartGroup) = Openings(buf, i, EndGroup)}
Declared(t, buf) == {i \in Outside(buf) : buf[i].num \in DOMAIN Schema[t]}
Pick(buf, S) ==
    LET at == SelectSeq([i \in DOMAIN buf |-> i], LAMBDA i : i \in S)
    IN [k \in DOMAIN at |-> buf[at[k]]]

\* An amount that was never written and one written as zero are the same.
Amount(s) == IF s = "" \/ IsNumeral(s) THEN IntText(s) ELSE s

Names(t) == FieldNames(SchemaFields(t)) \cup {"unknownFields"}
NumberOf(t, f) == CHOOSE n \in DOMAIN Schema[t] : Schema[t][n].field = f

\* The meaning of a buffer: a scalar is its last occurrence, a list its
\* occurrences in order, and a nested message that is not nullable and not
\* there means the empty one.
RECURSIVE Meaning(_, _)
Meaning(t, buf) ==
    [f \in Names(t) |->
        IF f = "unknownFields" THEN Pick(buf, DOMAIN buf \ Declared(t, buf))
        ELSE LET n == NumberOf(t, f)
                 e == Schema[t][n]
                 all == Pick(buf, {i \in Declared(t, buf) : buf[i].num = n})
                 scalar == IF all = <<>> THEN ZeroScalar(e) ELSE Last(all).val.s
             IN CASE e.kind = "Int" -> Amount(scalar)
                  [] ~Composite(e) -> scalar
                  [] e.kind = "value" /\ all = <<>> -> <<Meaning(e.of, <<>>)>>
                  [] OTHER -> [i \in DOMAIN all |-> Meaning(e.of, all[i].val.m)]]

\* The meaning of a message in memory.
RECURSIVE MessageMeaning(_, _)
MessageMeaning(t, m) ==
    [f \in Names(t) |->
        IF f = "unknownFields" THEN m[f]
        ELSE LET e == Schema[t][NumberOf(t, f)]
             IN CASE e.kind = "Int" -> Amount(m[f])
                  [] ~Composite(e) -> m[f]
                  [] e.kind = "value" /\ m[f] = <<>> -> <<Meaning(e.of, <<>>)>>
                  [] OTHER -> [i \in DOMAIN m[f] |-> MessageMeaning(e.of, m[f][i])]]

\* A buffer without the fields the schema does not declare.
RECURSIVE Declaration(_, _)
Declaration(t, buf) ==
    LET kept == Pick(buf, Declared(t, buf))
        entry(i) == Schema[t][kept[i].num]
    IN [i \in DOMAIN kept |->
          IF ~Composite(entry(i)) THEN kept[i]
          ELSE [kept[i] EXCEPT !.val.m = Declaration(entry(i).of, @)]]

\* Every amount of a buffer, however deep, is a number.
RECURSIVE AmountsAreNumbers(_, _)
AmountsAreNumbers(t, buf) ==
    \A i \in Declared(t, buf) :
        LET e == Schema[t][buf[i].num] IN
        /\ e.kind = "Int" => buf[i].val.s = "" \/ IsNumeral(buf[i].val.s)
        /\ Composite(e) => AmountsAreNumbers(e.of, buf[i].val.m)

=============================================================================
