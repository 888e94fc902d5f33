---------------------------- MODULE MCTraceCapture ----------------------------
(* Instances of TraceCapture for TLC.                                       *)
EXTENDS TraceCapture

\* 0F holds the letter of the command 'f'.
MCPlaintexts == <<<<15>>, <<2>>, <<7>>>>
MCProgram ==
    << Fixed(CMD_KEY, BlockLen), Fixed(CMD_PT, BlockLen), Fixed(CMD_RESET, 0),
       Fixed(CMD_MULTI, BlockLen) >>
MCKeys == {<<9>>, <<13>>}
MCLeftovers == {<<>>, <<CMD_PT, 48>>}
=============================================================================
