--------------------------- MODULE MCMessageCodec ---------------------------
(* MessageCodec for every message of proto/. *)
EXTENDS MessageCodec

AllTypes == DOMAIN Schema \ {"Coin", "PageRequest", "PageResponse"}

=============================================================================
