---------------------------- MODULE MCPrintQueue ----------------------------
(* Values of the constants of PrintQueue for model checking. *)
EXTENDS PrintQueue

CONSTANTS c1, c2, p1, p2, a, b

MCClients == {c1, c2}
MCPrinters == {p1, p2}
MCTask == {a, b}
=============================================================================
