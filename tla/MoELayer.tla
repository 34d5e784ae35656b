------------------------------ MODULE MoELayer ------------------------------
(***************************************************************************)
(* What a mixture-of-experts layer promises to each rank that runs it: the *)
(* output of a token is the weighted sum of what its own experts make of   *)
(* that token, however the experts are spread over ranks. A sum is kept as *)
(* the set of its terms [k, row]: the weight is that of choice k, the row  *)
(* what an expert returned for a payload.                                  *)
(*                                                                         *)
(* An engine whose buckets are too small may lose terms, but only from an  *)
(* expert one rank sends more than "cap" tokens, and then only the excess. *)
(***************************************************************************)
EXTENDS Naturals, FiniteSets, Functions

CONSTANTS
  Ranks,       \* the ranks of the expert-parallel group
  Batches,     \* what a call may route: b[t][k] is the k-th expert of token t
  MaxCalls     \* bound on the calls of one rank

VARIABLES
  cap,         \* replicas an expert keeps of those one rank sends it
  calls,       \* calls[r]: calls rank r has finished
  out          \* out[r][t]: the terms summed up for token t in its last call

vars == <<cap, calls, out>>

Replicas(b) == {<<t, k>> : t \in DOMAIN b, k \in UNION {DOMAIN b[u] : u \in DOMAIN b}}

\* One term: expert e applied to the payload of token t of this call.
Term(r, call, b, t, k) == [k |-> k, row |-> <<b[t][k], <<r, call, t>>>>]

\* A lawful outcome keeps of each expert's replicas as many as fit.
Lawful(b, kept) ==
  \A e \in UNION {Range(b[t]) : t \in DOMAIN b} :
    LET sent(S) == {p \in S : b[p[1]][p[2]] = e} IN
    Cardinality(sent(kept)) =
      IF Cardinality(sent(Replicas(b))) <= cap
      THEN Cardinality(sent(Replicas(b))) ELSE cap

Call(r) ==
  /\ calls[r] < MaxCalls
  /\ calls' = [calls EXCEPT ![r] = @ + 1]
  /\ \E b \in Batches : \E kept \in SUBSET Replicas(b) :
       /\ Lawful(b, kept)
       /\ out' = [out EXCEPT ![r] = [t \in DOMAIN b |->
                    {Term(r, calls[r], b, p[1], p[2]) : p \in {q \in kept : q[1] = t}}]]
  /\ UNCHANGED cap

Init ==
  /\ cap \in Nat
  /\ calls = [r \in Ranks |-> 0]
  /\ out = [r \in Ranks |-> << >>]

Next == \E r \in Ranks : Call(r)

Spec == Init /\ [][Next]_vars
=============================================================================
