------------------------------ MODULE MCMqChat ------------------------------
(* Values of the constants of MqChat for model checking. *)
EXTENDS MqChat

CONSTANTS c1, c2, c3

MCTwo == {c1, c2}
MCThree == {c1, c2, c3}
=============================================================================
