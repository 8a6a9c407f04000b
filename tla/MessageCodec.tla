---------------------------- MODULE MessageCodec ----------------------------
(***************************************************************************)
(* One message on its way between a client and the node.                   *)
(*                                                                         *)
(* A client builds and edits a message through pulsar's reflection and     *)
(* sends its bytes; the node reads the bytes with the gogoproto codec and  *)
(* writes them again (a store entry, a query answer, a transaction it      *)
(* passes on); a client reads bytes back and goes on editing.  Bytes also  *)
(* come from foreign encoders, which may order fields, repeat scalars and  *)
(* add fields in any way protobuf allows, or get it wrong.                 *)
(***************************************************************************)
EXTENDS ProtoSchema, GogoCodec, PulsarCodec

CONSTANTS
    Types,       \* the messages considered
    MaxList      \* the longest list a client builds

VARIABLES
    type,        \* the message on its way
    stage,       \* "edit": in a client's memory; "wire"; "error": refused
    msg,         \* the client's message, when stage is "edit"
    wire,        \* the bytes, when stage is "wire"
    by           \* who wrote the bytes: "pulsar", "gogo" or "foreign"

vars == <<type, stage, msg, wire, by>>

-----------------------------------------------------------------------------
(* Values a client stores in a field, and messages filled with them. *)

Shades == {"zero", "small", "large", "odd"}

Shaded(e, c) ==
    CASE e.kind = "uint64" ->
            [zero |-> "0", small |-> "127", large |-> "128", odd |-> "127"][c]
      [] e.kind = "Int" ->
            [zero |-> "", small |-> "7", large |-> "07", odd |-> "s"][c]
      [] OTHER -> [zero |-> "", small |-> "s", large |-> "L", odd |-> "M"][c]

RECURSIVE Filled(_, _)
Filled(t, c) ==
    [f \in Names(t) |->
        IF f = "unknownFields" THEN <<>>
        ELSE LET e == Schema[t][NumberOf(t, f)]
             IN IF ~Composite(e) THEN Shaded(e, c)
                ELSE IF c = "zero" THEN <<>> ELSE <<Filled(e.of, c)>>]

Values(e) == {IF Composite(e) THEN Filled(e.of, c) ELSE Shaded(e, c) : c \in Shades}

-----------------------------------------------------------------------------
(* What foreign encoders write. *)

\* The declared fields in the order of their numbers, every one of them.
RECURSIVE Encoding(_, _)
Encoding(t, c) ==
    LET ns == SelectSeq([n \in 1 .. 8 |-> n], LAMBDA n : n \in DOMAIN Schema[t])
    IN [i \in DOMAIN ns |->
          LET e == Schema[t][ns[i]]
          IN Field(ns[i], WireType(e),
                   IF Composite(e) THEN Nested(Encoding(e.of, c))
                   ELSE Text(Shaded(e, c)))]

Scalars(t, buf) == SelectSeq(buf, LAMBDA x : Schema[t][x.num].kind \in {"string", "uint64"})
NewerField == Field(9, Delimited, Text("s"))
NewerGroup ==
    <<Field(9, StartGroup, Text("")), Field(1, Delimited, Text("s")),
      Field(9, EndGroup, Text(""))>>

Legal(t) ==
    LET e == Encoding(t, "small")
        z == Scalars(t, Encoding(t, "zero"))
        nested == [i \in DOMAIN e |->
                      IF Composite(Schema[t][e[i].num])
                      THEN [e[i] EXCEPT !.val.m = @ \o <<NewerField>>] ELSE e[i]]
    IN {e, Reverse(e), Encoding(t, "large"), Encoding(t, "odd"), z,
        z \o Reverse(e), e \o z, <<NewerField>> \o e, e \o <<NewerField>>,
        NewerGroup \o e, e \o NewerGroup, nested}

Illegal(t) ==
    LET e == Encoding(t, "small")
    IN {e \o <<[NewerField EXCEPT !.cut = TRUE]>>, e \o <<NewerGroup[1]>>,
        e \o <<NewerGroup[3]>>, e \o <<Field(0, Varint, Text("0"))>>}
       \cup {[e EXCEPT ![i].cut = TRUE] : i \in DOMAIN e}
       \cup {[e EXCEPT ![i].wt = Delimited - @] : i \in DOMAIN e}
       \cup {[e EXCEPT ![i].val.m = @ \o <<NewerGroup[3]>>] :
                 i \in {j \in DOMAIN e : Composite(Schema[t][e[j].num])}}

-----------------------------------------------------------------------------
New == stage' = "edit" /\ msg' = PulsarNew(type) /\ wire' = <<>> /\ by' = "pulsar"

Init ==
    /\ type \in Types
    /\ \/ /\ stage = "edit" /\ by = "pulsar"
          /\ msg = PulsarNew(type) /\ wire = <<>>
       \/ /\ stage = "wire" /\ by = "foreign"
          /\ msg = <<>> /\ wire \in Legal(type) \cup Illegal(type)

(* A client edits its message.  Every Go field a method knows is offered.  *)
Edit(m) == msg' = m /\ UNCHANGED <<type, stage, wire, by>>
Settable(kinds) == {e \in ToSet(Pulsar[type].set) : e.kind \in kinds}
ValuesOf(e) == Values(Schema[type][NumberOf(type, e.field)])

SetScalar ==
    /\ stage = "edit"
    /\ \E e \in Settable({"string", "uint64"}) : \E v \in ValuesOf(e) :
           Edit(PulsarSet(msg, e.field, v))
SetMessage ==
    /\ stage = "edit"
    /\ \E e \in Settable({"pointer"}) : \E v \in ValuesOf(e) :
           Edit(PulsarSet(msg, e.field, <<v>>))
Mutable ==
    /\ stage = "edit"
    /\ \E e \in Settable({"pointer"}) : Edit(PulsarMutable(type, msg, e.field))
Clear ==
    /\ stage = "edit"
    /\ \E e \in ToSet(Pulsar[type].has) : Edit(PulsarClear(type, msg, e.field))
AppendElement ==
    /\ stage = "edit"
    /\ \E e \in Settable({"list"}) :
           /\ Len(msg[e.field]) < MaxList
           /\ \/ \E v \in ValuesOf(e) : Edit(ListAppend(msg, e.field, v))
              \/ Edit(ListAppendMutable(type, msg, e.field))
Truncate ==
    /\ stage = "edit"
    /\ \E e \in Settable({"list"}) : \E n \in 0 .. Len(msg[e.field]) - 1 :
           Edit(ListTruncate(msg, e.field, n))

Send ==
    /\ stage = "edit"
    /\ stage' = "wire" /\ by' = "pulsar"
    /\ wire' = PulsarMarshal(type, msg) /\ msg' = <<>>
    /\ UNCHANGED type

Refused(r) ==
    ~Done(r) /\ stage' = "error" /\ wire' = <<>> /\ UNCHANGED <<type, msg, by>>

(* The node reads the bytes and writes what it read. *)
Node ==
    LET r == GogoUnmarshal(type, wire) IN
    /\ stage = "wire" /\ type \in DOMAIN Gogo
    /\ \/ Refused(r)
       \/ /\ Done(r)
          /\ wire' = GogoMarshal(type, r.m) /\ by' = "gogo"
          /\ UNCHANGED <<type, stage, msg>>

(* A client reads the bytes. *)
Open ==
    LET r == PulsarUnmarshal(type, wire) IN
    /\ stage = "wire"
    /\ \/ Refused(r)
       \/ /\ Done(r)
          /\ stage' = "edit" /\ msg' = r.m /\ wire' = <<>> /\ by' = "pulsar"
          /\ UNCHANGED type

StartOver == stage = "error" /\ New /\ UNCHANGED type

Next ==
    \/ SetScalar \/ SetMessage \/ Mutable \/ Clear \/ AppendElement \/ Truncate
    \/ Send \/ Node \/ Open \/ StartOver

Spec == Init /\ [][Next]_vars

-----------------------------------------------------------------------------
HasGogo == type \in DOMAIN Gogo
NodeReads == stage = "wire" /\ HasGogo /\ Done(GogoUnmarshal(type, wire))

(* The size methods announce exactly the bytes the marshal methods write.  *)
(* Marshal allocates Size() bytes and fills them from the end, so a size   *)
(* too large leaves zero bytes before the message and one too small        *)
(* panics; lengths on both sides of 127 are where the two can part.        *)
SizeExact ==
    /\ stage = "edit" =>
         PulsarSize(type, msg) = Bytes(PulsarMarshal(type, msg))
    /\ NodeReads =>
         LET m == GogoUnmarshal(type, wire).m
         IN GogoSize(type, m) = Bytes(GogoMarshal(type, m))

(* A field is on the wire exactly when Has and Range report it populated,  *)
(* under the number the .proto file gives it, whatever sequence of Set,    *)
(* Mutable, Clear and list operations led to the message.                  *)
PresenceAgrees ==
    stage = "edit" =>
        LET buf == PulsarMarshal(type, msg)
            sent == {buf[i].num : i \in Declared(type, buf)}
        IN {Schema[type][n].field : n \in sent} = PulsarHas(type, msg)

(* The two codecs refuse the same bytes: a truncated field, a wrong wire   *)
(* type, an unbalanced group, a zero field number.  The one difference is  *)
(* that the node's math.Int refuses an amount that is not a number, which  *)
(* is a plain string to a client.                                          *)
SameVerdict ==
    stage = "wire" /\ HasGogo =>
        (Done(GogoUnmarshal(type, wire)) <=>
            /\ Done(PulsarUnmarshal(type, wire))
            /\ AmountsAreNumbers(type, wire))

(* What the node writes is a fixed point of both codecs: read and written  *)
(* again, by another node or by a client, it is the same bytes.            *)
CanonicalBytes ==
    stage = "wire" /\ by = "gogo" =>
        LET g == GogoUnmarshal(type, wire)
            p == PulsarUnmarshal(type, wire)
        IN /\ Done(g) /\ GogoMarshal(type, g.m) = wire
           /\ Done(p) /\ PulsarMarshal(type, p.m) = wire

(* A client that reads a message and sends it on, or sends one it has      *)
(* edited, loses nothing: every declared field keeps the meaning the       *)
(* schema gives it, nested ones included, and the fields of a newer        *)
(* schema are kept in order, whole groups of them too.                     *)
ClientKeepsMeaning ==
    [][/\ stage = "wire" /\ stage' = "edit" =>
            MessageMeaning(type, msg') = Meaning(type, wire)
       /\ stage = "edit" /\ stage' = "wire" =>
            Meaning(type, wire') = MessageMeaning(type, msg)]_vars

(* What the node reads and writes again means, under the schema, what it   *)
(* was given: however the fields were ordered, with defaults spelled out   *)
(* or left away and amounts written in a longer form.  Fields of a newer   *)
(* schema are dropped at every level, and nothing else is.                 *)
NodeKeepsDeclared ==
    [][stage = "wire" /\ stage' = "wire" =>
           Meaning(type, wire') = Meaning(type, Declaration(type, wire))]_vars

=============================================================================
