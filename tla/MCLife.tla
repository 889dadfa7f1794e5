------------------------------- MODULE MCLife -------------------------------
(* Values of the constants of Life for model checking: three rows of three. *)
EXTENDS Life

MCPatterns == {{0, 1, 3}, {1}}
MCGarbage == {{0, 1}, {}}
=============================================================================
