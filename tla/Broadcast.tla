----------------------------- MODULE Broadcast -----------------------------
(***************************************************************************)
(* What the tensor-parallel processes promise each other: rank 0 issues    *)
(* one command after the other, every worker executes every command, in    *)
(* the order in which they were issued, and rank 0 issues the next command *)
(* only when all workers have received the previous one.                   *)
(***************************************************************************)
EXTENDS Naturals, Sequences

CONSTANTS Workers, Commands

VARIABLES issued, executed

vars == <<issued, executed>>

Init == issued = << >> /\ executed = [w \in Workers |-> << >>]

Issue(c) ==
  /\ \A w \in Workers : executed[w] = issued
  /\ issued' = Append(issued, c)
  /\ UNCHANGED executed

Execute(w) ==
  /\ Len(executed[w]) < Len(issued)
  /\ executed' = [executed EXCEPT ![w] = Append(@, issued[Len(@) + 1])]
  /\ UNCHANGED issued

Next == (\E c \in Commands : Issue(c)) \/ (\E w \in Workers : Execute(w))

Spec == Init /\ [][Next]_vars /\ \A w \in Workers : WF_vars(Execute(w))
=============================================================================
