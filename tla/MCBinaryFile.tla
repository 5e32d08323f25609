----------------------------- MODULE MCBinaryFile -----------------------------
EXTENDS BinaryFile

MCNothing == [type |-> "ABSENT", contents |-> 0]
MCValues ==
  {MCNothing, [type |-> "INT", contents |-> 7], [type |-> "BOOLEAN", contents |-> TRUE],
   [type |-> "STRING", contents |-> <<"s">>], [type |-> "FUNCTION", contents |-> "f"]}
MCBlocks == << <<"LOAD", "CALL">>, <<"RETURN">> >>
===============================================================================
