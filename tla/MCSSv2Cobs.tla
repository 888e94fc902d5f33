---------------------------- MODULE MCSSv2Cobs ----------------------------
(* Instance of SSv2Cobs for TLC: every frame of 6 to 8 bytes over the        *)
(* byte values below.                                                        *)
EXTENDS SSv2Cobs

\* 0 is stuffed; 1..4 are the lengths of the frames and can be mistaken for
\* codes; 255 makes an unchecked uint8_t addition wrap.
MCSymbol == {0, 1, 2, 3, 255}
MCLengths == 6 .. 8
===========================================================================
