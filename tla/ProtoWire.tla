------------------------------ MODULE ProtoWire ------------------------------
(***************************************************************************)
(* The protobuf wire format as the generated codecs of this chain see it.  *)
(*                                                                         *)
(* A buffer is a sequence of fields.  A field has a number, a wire type    *)
(* and a payload; cut says that its length runs past the end of the        *)
(* buffer.  A payload is a text or a nested buffer, and the empty payload  *)
(* is both, as on the wire.  Texts are tokens: what matters of them is     *)
(* equality, their length in bytes and the number they denote.             *)
(***************************************************************************)
EXTENDS Integers, Sequences, TLC, SequencesExt

Varint == 0
Delimited == 2
StartGroup == 3
EndGroup == 4

Text(s) == [s |-> s, m |-> <<>>]
Nested(buf) == [s |-> "", m |-> buf]
Field(n, wt, payload) == [num |-> n, wt |-> wt, val |-> payload, cut |-> FALSE]

\* Tokens: their lengths, and the values of those that are varints.  "M" is
\* the longest text whose length takes one byte, "L" the shortest whose
\* length takes two; "07" is a decimal that is not in its shortest form.
Length ==
    ("" :> 0) @@ ("s" :> 1) @@ ("M" :> 127) @@ ("L" :> 128) @@
    ("0" :> 1) @@ ("7" :> 1) @@ ("07" :> 2)
Number == ("0" :> 0) @@ ("127" :> 127) @@ ("128" :> 128)

\* sovTx and its namesakes, (bits.Len64(x|1) + 6) / 7, and the bytes the
\* loop of encodeVarintTx and its namesakes writes.
BitLength[x \in Nat] == IF x = 0 THEN 0 ELSE 1 + BitLength[x \div 2]
OrOne(x) == IF x % 2 = 0 THEN x + 1 ELSE x
\* A faulty sov that rounds the bits to bytes downwards.
Sov_RoundsDown(x) == BitLength[OrOne(x)] \div 7 + 1
Sov(x) == (BitLength[OrOne(x)] + 6) \div 7
EncodeVarint[v \in Nat] == IF v >= 128 THEN 1 + EncodeVarint[v \div 128] ELSE 1

\* cosmossdk.io/math.Int on the wire: its decimal text.  The empty text
\* leaves the Int as it is, any other text must be a number, and what is
\* written is the shortest form, "0" for an Int that was never set.
Numeral == ("0" :> "0") @@ ("7" :> "7") @@ ("07" :> "7")
IsNumeral(s) == s \in DOMAIN Numeral
IntText(s) == IF s = "" THEN "0" ELSE Numeral[s]

-----------------------------------------------------------------------------
(* The entries of the tables that describe a message. *)

Str(f) == [field |-> f, kind |-> "string", of |-> ""]
Uint(f) == [field |-> f, kind |-> "uint64", of |-> ""]
MathInt(f) == [field |-> f, kind |-> "Int", of |-> ""]
Ptr(f, t) == [field |-> f, kind |-> "pointer", of |-> t]   \* may be nil
Val(f, t) == [field |-> f, kind |-> "value", of |-> t]     \* always there
List(f, t) == [field |-> f, kind |-> "list", of |-> t]

\* No field number has a case of its own.
NoCase == <<>>
Composite(e) == e.kind \in {"pointer", "value", "list"}
WireType(e) == IF e.kind = "uint64" THEN Varint ELSE Delimited
ZeroScalar(e) == IF e.kind = "uint64" THEN "0" ELSE ""
FieldNames(entries) == {e.field : e \in entries}
EntryOf(entries, f) == CHOOSE e \in entries : e.field = f

\* The methods of a message, and those of a message of the SDK with two
\* fields that matter here.
Methods(size, marshal, unmarshal) ==
    [size |-> size, marshal |-> marshal, unmarshal |-> unmarshal]
External(n1, e1, n2, e2) ==
    Methods(<<e1, e2>>, <<<<n2, e2>>, <<n1, e1>>>>, n1 :> e1 @@ n2 :> e2)

-----------------------------------------------------------------------------
(* Bytes of a buffer: a tag, and the varint or the length and the payload. *)

RECURSIVE Bytes(_)
FieldBytes(x) ==
    LET l == Length[x.val.s] + Bytes(x.val.m) IN
    CASE x.wt = Varint -> 1 + EncodeVarint[Number[x.val.s]]
      [] x.wt = Delimited -> 1 + EncodeVarint[l] + l
      [] OTHER -> 1
Bytes(buf) == FoldLeft(LAMBDA n, x : n + FieldBytes(x), 0, buf)

-----------------------------------------------------------------------------
(* Reading.  A reader is the message read so far, whether an error was met *)
(* and the groups of an unknown field that are still open.                 *)

Reader(m) == [m |-> m, ok |-> TRUE, depth |-> 0]
Fail(r) == [r EXCEPT !.ok = FALSE]
Done(r) == r.ok /\ r.depth = 0

\* skipTx and its namesakes: one field of any wire type, or a whole group.
Skip(r, x) ==
    LET d == CASE x.wt = StartGroup -> 1 [] x.wt = EndGroup -> -1 [] OTHER -> 0
    IN IF x.cut THEN Fail(r) ELSE [r EXCEPT !.depth = @ + d]

=============================================================================
