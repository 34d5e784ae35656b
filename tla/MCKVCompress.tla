--------------------------- MODULE MCKVCompress ---------------------------
(* Small instances of the compressing engines: prompts on both sides of the *)
(* budget and one no batch admits, three requests for two query blocks and  *)
(* two pool rows.                                                           *)
EXTENDS KVCompress

MCPrompts == {<<5, 2, 5>>, <<2, 5, 2>>, <<2, 8, 2>>}
=============================================================================
