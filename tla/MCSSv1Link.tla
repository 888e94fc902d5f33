----------------------------- MODULE MCSSv1Link -----------------------------
(* Instances of SSv1Link for TLC.                                            *)
EXTENDS SSv1Link

\* 0F holds the letter of the command 'f', and 02 a length.
MCPlaintexts == <<<<15, 2>>, <<0, 7>>>>
MCProgram ==
    << Fixed(CMD_KEY, BlockLen), Fixed(CMD_PT, BlockLen), Fixed(CMD_RESET, 0),
       [c |-> CMD_MASK, len |-> 3, flags |-> 1], Fixed(CMD_MULTI, BlockLen) >>
MCKeys == {<<9, 255>>}
MCMasks == {<<2>>}
MCUnknown == {113}
\* Nothing, or a plaintext of a host that died in the middle of the line.
MCLeftovers == {<<>>, <<CMD_PT, 48>>}
=============================================================================
