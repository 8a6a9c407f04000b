---------------------------- MODULE MCLegacyEthTx ----------------------------
(* The three transaction types, with every field set and with none, signed or
   not; new-format, bank and governance messages beside them.                *)
EXTENDS LegacyEthTx

Tuples == <<[address |-> 5, keys |-> <<6, 7>>], [address |-> 6, keys |-> <<>>]>>

\* Field n of a full transaction has the value n.
Full(type) ==
    [type |-> type,
     data |-> [n \in Range(OldFields[type]) |->
                IF n = "Accesses" THEN Tuples
                ELSE SelectInSeq(OldFields[type], LAMBDA m : m = n)]]

Empty(type) ==
    [type |-> type,
     data |-> [n \in Range(OldFields[type]) |-> IF n = "Accesses" THEN <<>> ELSE 0]]

MCSent ==
    {[format |-> "old", tx |-> Full(t), from |-> a] :
        t \in DOMAIN OldFields, a \in {0, 9}}
    \cup {[format |-> "old", tx |-> Empty(t), from |-> 0] : t \in DOMAIN OldFields}
    \cup {[format |-> "new", raw |-> r, from |-> a] : r \in {0, 1}, a \in {0, 9}}
    \cup {[format |-> "other", type |-> t] : t \in {"MsgSend", "MsgSubmitProposal"}}
==============================================================================
