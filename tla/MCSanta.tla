------------------------------ MODULE MCSanta ------------------------------
(* Values of the constants of Santa for model checking. *)
EXTENDS Santa

CONSTANTS r1, r2, r3, r4

MCReindeer == {r1, r2, r3, r4}
=============================================================================
