----------------------------- MODULE MCClients -----------------------------
(* A small instance of Clients for TLC: the host may be launched again     *)
(* after a request, and with a second one.                                 *)
EXTENDS Clients

AskedPerClient == [c \in Callers |-> IF c = Host THEN 2 ELSE 1]
=============================================================================
