--------------------------- MODULE MCDownloadTask ---------------------------
(***************************************************************************)
(* Instances of DownloadTask.  The plan of a file of three chunks over two *)
(* connections has a segment of two chunks and one of a single chunk; that *)
(* of two chunks over two connections has two of one chunk.                *)
(***************************************************************************)
EXTENDS DownloadTaskInv, TLC

MCThreeChunks == <<2, 1>>
MCTwoChunks   == <<1, 1>>

Symmetry == Permutations(Workers)
=============================================================================
