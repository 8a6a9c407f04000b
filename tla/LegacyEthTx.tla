----------------------------- MODULE LegacyEthTx -----------------------------
(***************************************************************************)
(* app/legacy_ethtx.go: Ethereum transactions in the encoding of           *)
(* cosmos-evm v0.1.x, found and converted by a hand-written protobuf       *)
(* reader behind the standard transaction decoder.                         *)
(*                                                                         *)
(* A buffer is the sequence of its fields.  A field is                     *)
(*   [num, wire, val, cut]: number, wire type, value, and where the buffer *)
(*   ends inside the field: "no", in its "tag", at the "end" of the tag,   *)
(*   or in the "body" behind it.  Only a last field is cut.                *)
(* The value of a field is a buffer when it holds a message, else a pair   *)
(* of an encoding ("dec" for decimal text, "hex", "be" for big-endian      *)
(* bytes, "raw") and what is encoded.                                      *)
(*                                                                         *)
(* A sender encodes a transaction as the old schema says, in any field     *)
(* order, with repeated and unknown fields; the decoder answers it.        *)
(***************************************************************************)
EXTENDS Integers, Sequences, FiniteSets, SequencesExt, TLC

CONSTANTS RejectsReserved,  \* does the standard decoder reject fields 1-4?
          Sent,             \* what senders send, see Message
          MaxEdits          \* bound: departures from the canonical encoding

ASSUME RejectsAssumption == RejectsReserved \subseteq BOOLEAN

VARIABLES sent,     \* what the sender means
          wire,     \* its encoding, one buffer for every level of nesting
          edits,    \* departures from the canonical encoding so far
          verdict,  \* what the standard decoder made of it
          result    \* the decoder's answer, Pending before it

vars == <<sent, wire, edits, verdict, result>>

Field(num, kind, val) == [num |-> num, wire |-> kind, val |-> val, cut |-> "no"]

-----------------------------------------------------------------------------
(* Reading buffers                                                          *)

\* A faulty skipProtoField that does not know fields of fixed width.
Skips_NoFixed(f) ==
    f.wire \in {"varint", "len"} /\ f.cut = "no"

\* skipProtoField, and the default branch of unmarshalLegacyMsgEthereumTx: what is
\* skipped may end behind the buffer, and the loop is over then; only a number
\* or a length that cannot be read is an error.
Skips(f) ==
    /\ f.wire # "group"
    /\ f.cut # "tag"
    /\ f.wire = "varint" => f.cut = "no"
    /\ f.wire = "len" => f.cut # "end"

\* A field of a layout: its name in the Go struct and the kind of its value.
Known(name, kind) == [name |-> name, kind |-> kind]

WireOf(kind) == CASE kind = "uint" -> "varint"
                  [] kind = "double" -> "fixed64"
                  [] OTHER -> "len"

Absent == <<>>
Repeated == {"tuples", "keys"}

\* The last occurrence of a field counts; of a repeated one, all do.
Store(msg, d, val) ==
    [msg EXCEPT ![d.name] = IF d.kind \in Repeated THEN Append(@, val) ELSE val]

\* A known field must have its wire type and be complete.
Reads(layout, f) ==
    /\ f.num \in DOMAIN layout
    /\ f.cut = "no"
    /\ f.wire = WireOf(layout[f.num].kind)

\* The values of the fields of a kind, as far as they are read.
ValuesOf(layout, buf, kind) ==
    {f.val : f \in {g \in Range(buf) : Reads(layout, g) /\ layout[g.num].kind = kind}}

\* The loop that the five unmarshal functions share; what they ask of the values
\* is added below.
Unmarshal(layout, buf) ==
    LET step(got, f) ==
            IF f.num \notin DOMAIN layout
            THEN [got EXCEPT !.ok = @ /\ Skips(f)]
            ELSE IF Reads(layout, f)
            THEN [got EXCEPT !.msg = Store(@, layout[f.num], f.val)]
            ELSE [got EXCEPT !.ok = FALSE]
        names == {layout[i].name : i \in DOMAIN layout}
    IN  FoldLeft(step, [ok |-> TRUE, msg |-> [n \in names |-> Absent]], buf)

\* unmarshalAny passes over what is not length-delimited, even at the end.
UnmarshalAny(buf) ==
    LET step(got, f) ==
            CASE f.cut = "tag" \/ f.wire = "group" -> [got EXCEPT !.ok = FALSE]
              [] f.cut # "tag" /\ f.wire \in {"varint", "fixed32", "fixed64"} ->
                    [got EXCEPT !.ok = @ /\ ~(f.wire = "varint" /\ f.cut = "body")]
              [] f.cut # "tag" /\ f.wire = "len" ->
                    [ok      |-> got.ok /\ f.cut = "no",
                     typeUrl |-> IF f.num = 1 THEN f.val ELSE got.typeUrl,
                     value   |-> IF f.num = 2 THEN f.val ELSE got.value]
    IN  FoldLeft(step, [ok |-> TRUE, typeUrl |-> Absent, value |-> Absent], buf)

\* extractProtoField, for length-delimited fields: the first occurrence, unless
\* something before it cannot be read.
ExtractProtoField(buf, num) ==
    LET at == SelectInSeq(buf, LAMBDA f : \/ f.cut # "no"
                                          \/ f.wire = "group"
                                          \/ f.num = num /\ f.wire = "len")
    IN  IF at # 0 /\ buf[at].cut = "no" /\ buf[at].wire = "len"
        THEN [ok |-> TRUE, val |-> buf[at].val]
        ELSE [ok |-> FALSE, val |-> <<>>]

-----------------------------------------------------------------------------
(* Layouts, by field number                                                 *)

MsgLayout == <<Known("Data", "any"), Known("Size", "double"),
               Known("Hash", "text"), Known("From", "address")>>

AccessTupleLayout == <<Known("Address", "address"), Known("StorageKeys", "keys")>>

LegacyTxLayout ==
    <<Known("Nonce", "uint"), Known("GasPrice", "int"), Known("GasLimit", "uint"),
      Known("To", "address"), Known("Amount", "int"), Known("Data", "bytes"),
      Known("V", "sig"), Known("R", "sig"), Known("S", "sig")>>

AccessListTxLayout ==
    <<Known("ChainID", "int"), Known("Nonce", "uint"), Known("GasPrice", "int"),
      Known("GasLimit", "uint"), Known("To", "address"), Known("Amount", "int"),
      Known("Data", "bytes"), Known("Accesses", "tuples"), Known("V", "sig"),
      Known("R", "sig"), Known("S", "sig")>>

\* A faulty layout with the two gas caps exchanged.
DynamicFeeTxLayout_Caps ==
    <<Known("ChainID", "int"), Known("Nonce", "uint"), Known("GasFeeCap", "int"),
      Known("GasTipCap", "int"), Known("GasLimit", "uint"), Known("To", "address"),
      Known("Amount", "int"), Known("Data", "bytes"), Known("Accesses", "tuples"),
      Known("V", "sig"), Known("R", "sig"), Known("S", "sig")>>

DynamicFeeTxLayout ==
    <<Known("ChainID", "int"), Known("Nonce", "uint"), Known("GasTipCap", "int"),
      Known("GasFeeCap", "int"), Known("GasLimit", "uint"), Known("To", "address"),
      Known("Amount", "int"), Known("Data", "bytes"), Known("Accesses", "tuples"),
      Known("V", "sig"), Known("R", "sig"), Known("S", "sig")>>

\* The inner transaction types, and the end of their type URLs.
InnerLayout == [LegacyTx     |-> LegacyTxLayout,
                AccessListTx |-> AccessListTxLayout,
                DynamicFeeTx |-> DynamicFeeTxLayout]

-----------------------------------------------------------------------------
(* Conversion                                                               *)

UnmarshalAccessTuple(buf) == Unmarshal(AccessTupleLayout, buf)

\* unmarshalLegacyTx, unmarshalAccessListTx and unmarshalDynamicFeeTx: numbers
\* are decimal text, and every access tuple is read.
UnmarshalInner(layout, buf) ==
    [Unmarshal(layout, buf) EXCEPT !.ok =
        /\ @
        /\ \A val \in ValuesOf(layout, buf, "int") : val[1] = "dec"
        /\ \A val \in ValuesOf(layout, buf, "tuples") : UnmarshalAccessTuple(val).ok]

UnmarshalMsg(buf) ==
    [Unmarshal(MsgLayout, buf) EXCEPT !.ok =
        @ /\ \A val \in ValuesOf(MsgLayout, buf, "any") : UnmarshalAny(val).ok]

\* HexToAddress, HexToHash, SetBytes, Int.BigInt: what the value encodes; an
\* absent number is 0, an absent address none.
Decoded(val) == IF val = Absent THEN 0 ELSE val[2]

ConvertLegacyAccessList(tuples) ==
    [i \in DOMAIN tuples |->
        LET tuple == UnmarshalAccessTuple(tuples[i]).msg
        IN  [address |-> Decoded(tuple["Address"]),
             keys    |-> [j \in DOMAIN tuple["StorageKeys"] |->
                            Decoded(tuple["StorageKeys"][j])]]]

\* The go-ethereum transaction that the three decode functions build.
ToEthTransaction(type, msg) ==
    [type |-> type,
     data |-> [n \in DOMAIN msg |-> IF n = "Accesses"
                                    THEN ConvertLegacyAccessList(msg[n])
                                    ELSE Decoded(msg[n])]]

\* ethtypes.Sender: the signer is a function of all that is signed.
NoAddress == <<"none">>
Sender(eth) ==
    IF eth.data["R"] = 0 \/ eth.data["S"] = 0 THEN NoAddress
    ELSE <<"signer", eth>>

Rejected == [status |-> "rejected"]

LegacyMsgToEthTransaction(msg) ==
    LET data  == UnmarshalAny(msg["Data"])
        type  == data.typeUrl[2]
        inner == UnmarshalInner(InnerLayout[type], data.value)
        eth   == ToEthTransaction(type, inner.msg)
    IN  IF msg["Data"] = Absent \/ data.typeUrl = Absent
           \/ type \notin DOMAIN InnerLayout \/ ~inner.ok
        THEN Rejected
        ELSE [status |-> "converted", tx |-> eth,
              from |-> IF Decoded(msg["From"]) = 0 THEN Sender(eth)
                       ELSE <<"given", Decoded(msg["From"])>>]

\* An empty buffer holds no field.
ExtractMsgAnyValue(tx) ==
    LET body == ExtractProtoField(tx, 1)
        any  == ExtractProtoField(body.val, 1)
    IN  ExtractProtoField(any.val, 2)

DecodeLegacyEthTx(tx) ==
    LET raw == ExtractMsgAnyValue(tx)
        msg == UnmarshalMsg(raw.val)
    IN  IF raw.ok /\ msg.ok THEN LegacyMsgToEthTransaction(msg.msg) ELSE Rejected

-----------------------------------------------------------------------------
(* The wire: one buffer per level, a field Child holding the level below    *)

Child == <<"child">>
Levels == {"tx", "body", "any", "msg", "data", "inner"}

Fill(buf, child) ==
    [i \in DOMAIN buf |->
        IF buf[i].val = Child THEN [buf[i] EXCEPT !.val = child] ELSE buf[i]]

TxBytes(w) ==
    Fill(w.tx, Fill(w.body, Fill(w.any, Fill(w.msg, Fill(w.data, w.inner)))))

\* The standard decoder and the new schema: numbers it knows at every level it
\* looks into.
TypeOf(w) == w.any[SelectInSeq(w.any, LAMBDA f : f.num = 1)].val[2]
Ethereum(w) == TypeOf(w) = "MsgEthereumTx"
Schema(w) ==
    [tx |-> 1 .. 3, body |-> 1 .. 4, any |-> 1 .. 2] @@
    CASE TypeOf(w) = "MsgEthereumTx" -> [msg |-> {5, 6}]
      [] TypeOf(w) = "MsgSend" -> [msg |-> 1 .. 3]
      [] TypeOf(w) = "MsgSubmitProposal" ->
            [msg |-> 1 .. 7, data |-> 1 .. 2, inner |-> 1 .. 3]

\* Its outcomes: an error that names MsgEthereumTx or an unknown field, another
\* error, or a transaction without the fields it does not know.
Original(w) ==
    LET some(test(_)) == \E l \in DOMAIN Schema(w) : \E i \in DOMAIN w[l] : test(<<l, i>>)
        cut(at)     == w[at[1]][at[2]].cut # "no"
        unknown(at) == w[at[1]][at[2]].num \notin Schema(w)[at[1]]
    IN  IF some(cut) THEN {"legacy error", "error"}
        ELSE IF some(unknown)
        THEN {IF strict THEN "legacy error" ELSE "decoded" : strict \in RejectsReserved}
        ELSE {"decoded"}

\* A faulty test that looks at Raw only.
NeedsConversion_RawOnly(w) ==
    Ethereum(w) /\ \A i \in DOMAIN w.msg : w.msg[i].num # 6

\* Neither From (5) nor Raw (6) has been decoded.
NeedsConversion(w) ==
    Ethereum(w) /\ \A i \in DOMAIN w.msg : w.msg[i].num \notin {5, 6}

LegacyAwareTxDecoder(w, outcome) ==
    CASE outcome = "legacy error" -> DecodeLegacyEthTx(TxBytes(w))
      [] outcome = "error" -> Rejected
      [] outcome = "decoded" -> IF NeedsConversion(w)
                                THEN DecodeLegacyEthTx(TxBytes(w))
                                ELSE [status |-> "original"]

-----------------------------------------------------------------------------
(* Senders                                                                  *)

\* The old schema, from the numbers of its fields to what they mean.
OldFields ==
    [LegacyTx |-> <<"Nonce", "GasPrice", "GasLimit", "To", "Amount", "Data",
                    "V", "R", "S">>,
     AccessListTx |-> <<"ChainID", "Nonce", "GasPrice", "GasLimit", "To", "Amount",
                        "Data", "Accesses", "V", "R", "S">>,
     DynamicFeeTx |-> <<"ChainID", "Nonce", "GasTipCap", "GasFeeCap", "GasLimit",
                        "To", "Amount", "Data", "Accesses", "V", "R", "S">>]

OldEncoding(name) ==
    CASE name \in {"ChainID", "GasPrice", "GasTipCap", "GasFeeCap", "Amount"} -> "dec"
      [] name \in {"V", "R", "S"} -> "be"
      [] name = "To" -> "hex"
      [] OTHER -> "raw"

EncodeTuple(t) ==
    <<Field(1, "len", <<"hex", t.address>>)>>
        \o [i \in DOMAIN t.keys |-> Field(2, "len", <<"hex", t.keys[i]>>)]

\* A field with its default value is not on the wire.
EncodeField(num, name, val) ==
    CASE name = "Accesses" ->
            [i \in DOMAIN val |-> Field(num, "len", EncodeTuple(val[i]))]
      [] name # "Accesses" /\ val = 0 -> <<>>
      [] name # "Accesses" /\ val # 0 ->
            <<Field(num, IF name \in {"Nonce", "GasLimit"} THEN "varint" ELSE "len",
                    <<OldEncoding(name), val>>)>>

EncodeInner(m) ==
    LET names == OldFields[m.tx.type]
    IN  FlattenSeq([i \in DOMAIN names |->
                        EncodeField(i, names[i], m.tx.data[names[i]])])

\* "tsc1...", read as a message.
Text == <<Field(14, "group", <<>>), Field(14, "group", <<>>)>>

Envelope(type) ==
    [tx   |-> <<Field(1, "len", Child), Field(2, "len", Text), Field(3, "len", Text)>>,
     body |-> <<Field(1, "len", Child)>>,
     any  |-> <<Field(1, "len", <<"url", type>>), Field(2, "len", Child)>>]

Encode(m) ==
    CASE m.format = "old" ->
            Envelope("MsgEthereumTx") @@
            [msg   |-> <<Field(1, "len", Child), Field(2, "fixed64", <<"raw", 1>>),
                         Field(3, "len", Text)>>
                       \o EncodeField(4, "To", m.from),
             data  |-> <<Field(1, "len", <<"url", m.tx.type>>), Field(2, "len", Child)>>,
             inner |-> EncodeInner(m)]
      [] m.format = "new" ->
            Envelope("MsgEthereumTx") @@
            [msg   |-> EncodeField(5, "From", m.from) \o EncodeField(6, "Raw", m.raw),
             data  |-> <<>>, inner |-> <<>>]
      [] m.format = "other" /\ m.type = "MsgSend" ->
            Envelope(m.type) @@
            [msg   |-> <<Field(1, "len", Text), Field(2, "len", Text)>>,
             data  |-> <<>>, inner |-> <<>>]
      [] m.format = "other" /\ m.type = "MsgSubmitProposal" ->
            \* fields 1, 3 and 4 have the wire types of the old MsgEthereumTx,
            \* and field 1 is an Any there too
            Envelope(m.type) @@
            [msg   |-> <<Field(1, "len", Child), Field(3, "len", Text),
                         Field(4, "len", Text)>>,
             data  |-> <<Field(1, "len", <<"url", "MsgSend">>), Field(2, "len", Child)>>,
             inner |-> <<Field(1, "len", Text), Field(2, "len", Text)>>]

Pending == [status |-> "pending"]

Edit(level, buf) ==
    /\ result = Pending
    /\ edits.count < MaxEdits
    /\ wire' = [wire EXCEPT ![level] = buf]
    /\ UNCHANGED <<sent, verdict, result>>

Counted(cut) == edits' = [count |-> edits.count + 1, cut |-> edits.cut \/ cut]

\* A field of a later schema, anywhere.
AddUnknown(level, pos, kind) ==
    /\ ~edits.cut
    /\ pos \in 1 .. Len(wire[level]) + 1
    /\ Edit(level, InsertAt(wire[level], pos, Field(14, kind, <<"raw", 1>>)))
    /\ Counted(FALSE)

\* Another order of two different fields.
Swap(level, i) ==
    /\ ~edits.cut
    /\ i \in 1 .. Len(wire[level]) - 1
    /\ wire[level][i].num # wire[level][i + 1].num
    /\ Edit(level, [wire[level] EXCEPT ![i] = wire[level][i + 1],
                                       ![i + 1] = wire[level][i]])
    /\ Counted(FALSE)

\* An earlier value of a field of the inner transaction, superseded later.
Supersede(i) ==
    /\ ~edits.cut
    /\ sent.format = "old"
    /\ i \in DOMAIN wire.inner
    /\ wire.inner[i].num \in DOMAIN OldFields[sent.tx.type]
    /\ OldFields[sent.tx.type][wire.inner[i].num] # "Accesses"
    /\ Edit("inner", InsertAt(wire.inner, i,
                              [wire.inner[i] EXCEPT !.val[2] = @ + 1]))
    /\ Counted(FALSE)

\* The announced length of a level ends inside its last field.
Truncate(level, cut) ==
    /\ wire[level] # <<>>
    /\ Edit(level, [wire[level] EXCEPT ![Len(wire[level])].cut = cut])
    /\ Counted(TRUE)

Decode ==
    /\ result = Pending
    /\ \E outcome \in Original(wire) :
          /\ verdict' = outcome
          /\ result' = LegacyAwareTxDecoder(wire, outcome)
    /\ UNCHANGED <<sent, wire, edits>>

Init ==
    /\ sent \in Sent
    /\ wire = Encode(sent)
    /\ edits = [count |-> 0, cut |-> FALSE]
    /\ verdict = "none"
    /\ result = Pending

Next ==
    \/ \E l \in Levels, p \in 1 .. 14,
          k \in {"varint", "fixed32", "fixed64", "len"} : AddUnknown(l, p, k)
    \/ \E l \in Levels, i \in 1 .. 14 : Swap(l, i)
    \/ \E i \in 1 .. 14 : Supersede(i)
    \/ \E l \in {"msg", "data", "inner"}, c \in {"tag", "end", "body"} : Truncate(l, c)
    \/ Decode

Spec == Init /\ [][Next]_vars

-----------------------------------------------------------------------------
(* Properties                                                               *)

\* A transaction that has been converted is the one the sender meant, field by
\* field and with its sender, however its encoding was ordered, extended or
\* cut short; nothing else is converted.
ConvertedIsSent ==
    result.status = "converted" =>
        /\ sent.format = "old"
        /\ result.tx = sent.tx
        /\ result.from = IF sent.from = 0 THEN Sender(sent.tx)
                                          ELSE <<"given", sent.from>>

\* Every complete transaction in the old format is converted, whether the
\* standard decoder rejects the old fields or drops them.
OldAccepted ==
    sent.format = "old" /\ ~edits.cut /\ result # Pending
        => result.status = "converted"

\* The fallback changes no answer of the standard decoder for a transaction that
\* is not in the old format: a new-format Ethereum message, a transfer, and a
\* proposal whose fields read like those of the old message come back as they
\* were decoded and are rejected when they were, whatever fields are added,
\* moved or cut, and whether unknown fields are an error or are dropped.
OthersAsDecoded ==
    /\ result # Pending
    /\ sent.format = "other" \/ (sent.format = "new" /\ sent.from + sent.raw > 0)
    => result.status = IF verdict = "decoded" THEN "original" ELSE "rejected"
==============================================================================
