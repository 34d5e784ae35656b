------------------------------ MODULE MCSwift ------------------------------
(* Three requests with a prompt of one block that may grow to two, or a     *)
(* prompt that is too long for any batch, and one id fewer than a batch may *)
(* have requests: both exceptions of the main loop occur, and runs without  *)
(* them too.                                                                *)
EXTENDS Swift
=============================================================================
