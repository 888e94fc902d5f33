---------------------------- MODULE MCSSv2Link ----------------------------
(* Instances of SSv2Link for TLC.                                            *)
EXTENDS SSv2Link

MCPlaintexts == <<<<0>>, <<7>>>>
MCKeys == {<<9>>}
MCZeroKey == {<<0>>}
MCUnknown == {122}
\* Nothing, or a host that died in the middle of a command.
MCLeftovers == {<<>>, SubSeq(CommandFrame(CMD_AES, 1, <<7>>), 1, 5)}
===========================================================================
