--------------------------- MODULE MCNamedPipeIpc ---------------------------
(* A small instance of NamedPipeIpc for TLC. *)
EXTENDS NamedPipeIpc
=============================================================================
