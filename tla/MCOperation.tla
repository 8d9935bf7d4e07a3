------------------------------ MODULE MCOperation -------------------------------
(* The organisation of MCDelivery, operated. *)
EXTENDS Operation, MCDelivery
=================================================================================
