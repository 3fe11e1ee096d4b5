----------------------------- MODULE MCKvAdmission -----------------------------
(* KvAdmission with small quotas; amounts are in units of the smallest estimate. *)
EXTENDS KvAdmission, TLC

RequestSymmetry == Permutations(Requests)
OneGroup == [i \in Instances |-> "GPU0"]
Min2  == [i \in Instances |-> 2]
Soft2 == [i \in Instances |-> 2]
Hard3 == [i \in Instances |-> 3]
UpTo4 == 1 .. 4
===============================================================================
