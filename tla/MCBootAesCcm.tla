---------------------------- MODULE MCBootAesCcm ----------------------------
(* An instance of BootAesCcm for TLC: blocks of two bytes.                   *)
EXTENDS BootAesCcm

\* Like the CRC-16 of XMODEM it is 0 for zeros, tells blocks apart that differ in
\* one byte, and takes its order into account.
MCCrc(s) == FoldLeft(LAMBDA crc, c : (31 * crc + 7 * c) % 65536, 0, s)

\* Any function of all that was absorbed does.
MCTag(absorbed) ==
    LET h == FoldLeft(LAMBDA a, e : (31 * a + 7 * e.n
                          + FoldLeft(LAMBDA x, b : 13 * x + b + 1, 0, e.block)) % 65536,
                      1, absorbed)
    IN  <<h \div 256, h % 256>>

\* Blocks that hold frame types; the second one is the first again.
MCImage == <<<<3, 1>>, <<3, 1>>, <<2, 3>>>>
\* Nothing, the beginning of a header, a header and the beginning of a tag, and
\* the header of an image that is too long.
MCFrame(type, block) == <<type>> \o block \o <<MCCrc(block) \div 256, MCCrc(block) % 256>>
MCLeftovers ==
    {<<>>, <<1, 0, 2>>, MCFrame(1, <<0, 3>>) \o <<2, 1>>, MCFrame(1, <<0, 9>>)}
=============================================================================
