-------------------------- MODULE MCExpertParallel --------------------------
(* Three ranks of two experts: batches that spread, that all hit one rank, *)
(* and that overfill a bucket.                                              *)
EXTENDS ExpertParallel

MCBatches == {<< <<4, 1>> >>, << <<0, 1>>, <<2, 0>> >>}
=============================================================================
