-------------------------- MODULE MCPrintQueueSysv --------------------------
(* Values of the constants of PrintQueueSysv for model checking. *)
EXTENDS PrintQueueSysv

CONSTANTS c1, c2, p1, p2, a

MCClients == {c1, c2}
MCPrinters == {p1, p2}
MCTask == {a}
=============================================================================
