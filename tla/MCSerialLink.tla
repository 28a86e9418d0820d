---------------------------- MODULE MCSerialLink ----------------------------
(* Instances of SerialLink for model checking. *)
EXTENDS SerialLink

MCLoads == {[i \in 1 .. Width |-> IF i = 1 THEN 1 ELSE 0]}
MCSlow == {FALSE}
=============================================================================
