---------------------------- MODULE MCWeightRegistry ----------------------------
(* WeightRegistry with two servers, an export service and two secondaries. *)
EXTENDS WeightRegistry
===============================================================================
