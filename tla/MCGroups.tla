------------------------------ MODULE MCGroups ------------------------------
(* An instance of Groups for TLC: three entities, of which any may be a     *)
(* group of the others, one inside the other, or overlapping.              *)
EXTENDS Groups
=============================================================================
