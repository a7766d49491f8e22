---------------------------- MODULE MCNTCPCodec ----------------------------
(* Model-checking instance of NTCPCodec: three frames of one or two AES    *)
(* blocks, an MTU of two blocks, and up to six units (three blocks) in     *)
(* flight, so that reads end inside blocks and hold more than one frame.   *)
EXTENDS NTCPCodec

MCFrameSizes == {1, 2}

\* A third size above the MTU, for the "message too large" path.
MCFrameSizesOversize == {1, 3}
=============================================================================
