----------------------------- MODULE MCAcceptor ------------------------------
(* Model values for Acceptor.  A process may have fewer descriptors than   *)
(* MAXFDS allows, or more.                                                 *)
EXTENDS Acceptor

CONSTANTS c1, c2, c3, c4, c5

MCClients == {c1, c2, c3, c4, c5}
MCLimits == {5, 8}
==============================================================================
