------------------------------ MODULE MCSymbolMap ------------------------------
(***************************************************************************)
(* Identifiers with their pjw_hash: left and right share a home at every     *)
(* capacity up to 32; arg and foo share the last slot of a new map and part  *)
(* when it grows.                                                            *)
(***************************************************************************)
EXTENDS SymbolMap, TLC

MCHash == "left" :> 469972 @@ "right" :> 7929332 @@ "arg" :> 26759 @@ "foo" :> 27999
MCNames == DOMAIN MCHash
MCLocations == {"$1", "$2"}
MCMaxSets == << 1, 5, 1 >>
===============================================================================
