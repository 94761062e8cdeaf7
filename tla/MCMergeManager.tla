--------------------------- MODULE MCMergeManager ---------------------------
(* Two works, three blocks and one block, buffers of size 3: a block may    *)
(* have up to three rows and fill a buffer alone, be split after its first  *)
(* or second row, or find a buffer that has no room for its first row.      *)
EXTENDS MergeManager, TLC

CONSTANTS w1, w2

MCWorks == {w1, w2}
MCTotal == (w1 :> 3) @@ (w2 :> 1)
MCBlockRows == {<<>>, <<1>>, <<2>>, <<1, 1>>, <<1, 2>>, <<3>>}
=============================================================================
