-------------------------------- MODULE MCNord --------------------------------
(***************************************************************************)
(* The compiler and the machine on the programs of Programs.                 *)
(***************************************************************************)
EXTENDS Nord, Programs

MCWild == {0, 7}
MCClock == {5}
MCDecimal(n) == ToString(n)
MCPiece == STRING

MCSources == AllSources
MCBinariesOnce == BinariesOf
MCBinaries == MCBinariesOnce
===============================================================================
