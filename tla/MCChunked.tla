----------------------------- MODULE MCChunked -----------------------------
(* A small instance of the chunked engine: prompts that are longer than a  *)
(* block and than the budget of a step, that share a prefix, and a pool    *)
(* that cannot hold all requests at once.                                  *)
EXTENDS Chunked

CONSTANTS x, y

MCToken == {x, y}
MCPrompts == {<<x, x, y>>, <<y>>}
=============================================================================
