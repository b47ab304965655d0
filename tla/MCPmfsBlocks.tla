--------------------------- MODULE MCPmfsBlocks ---------------------------
(* PmfsBlocks on a small device with three sizes of blocks. *)
EXTENDS PmfsBlocks

SomeSizes == {1, 2, 4}
=============================================================================
