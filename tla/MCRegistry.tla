---------------------------- MODULE MCRegistry -----------------------------
(* Three artifacts, two of the same class, with a method name two of them   *)
(* define, a state, and an explicit id that looks like a suffixed one.      *)
EXTENDS Registry

MCArtifacts == {"a", "b", "c"}
MCClassName == [a \in MCArtifacts |-> IF a = "c" THEN "Y" ELSE "X"]
MCAttrs == [a \in MCArtifacts |->
  CASE a = "a" -> [n \in {"m", "s"} |-> IF n = "m" THEN "method" ELSE "state"]
    [] a = "b" -> [n \in {"m"} |-> "method"]
    [] OTHER -> [n \in {} |-> "method"]]
MCExplicitIds == {<<"X", 2>>}
=============================================================================
