------------------------- MODULE MCDownloadService -------------------------
(***************************************************************************)
(* Instances of DownloadService: two save paths, so that two downloads may *)
(* have the same one or different ones, and sessions enough to recover     *)
(* what a recovery left behind.                                            *)
(***************************************************************************)
EXTENDS DownloadServiceInv, TLC

Symmetry == Permutations(Files)
=============================================================================
