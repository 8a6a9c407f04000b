---------------------------- MODULE MCZeroHeight ----------------------------
(* Two validators, one with two delegations; allow lists that are empty, of one
   validator, and with an entry that is no address. *)
EXTENDS ZeroHeight

CONSTANTS v1, v2, malformed

MCVal == {v1, v2}
MCDelegations == <<[del |-> 1, val |-> v1], [del |-> 2, val |-> v1],
                   [del |-> 1, val |-> v2]>>
MCAllowLists == {{}, {v1}, {v1, malformed}}

=============================================================================
