------------------------------ MODULE MCModelMove ------------------------------
(* ModelMove with one loaded instance and two that moves can create; one of    *)
(* these would share a GPU with the loaded one.                                *)
EXTENDS ModelMove

CONSTANTS s1, t1
OneSource == {s1}
OneOverlap == [i \in Instances |-> IF i = t1 THEN {s1} ELSE {}]
===============================================================================
