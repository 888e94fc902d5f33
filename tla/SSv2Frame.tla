----------------------------- MODULE SSv2Frame -----------------------------
(***************************************************************************)
(* The SimpleSerial v2.1 frames as functions: what the loops of            *)
(* simpleserial.c and SimpleSerial2.py compute on a whole buffer.  Buffers *)
(* are sequences of bytes; position k of the code's arrays is s[k + 1].    *)
(* SSv2Cobs has the stuffing loops step by step.                           *)
(***************************************************************************)
EXTENDS Integers, Sequences, SequencesExt, FiniteSetsExt

Byte == 0 .. 255
FRAME_BYTE == 0
MAX_SS_LEN == 249
U8(x) == x % 256

SS_ERR_OK == 0
SS_ERR_CMD == 1
SS_ERR_CRC == 2
SS_ERR_TIMEOUT == 3
SS_ERR_LEN == 4
SS_ERR_FRAME_BYTE == 5

-----------------------------------------------------------------------------
\* The CRC of both sides: ss_crc and _calc_crc, polynomial 0x4D, one byte at a
\* time.  CrcByte[c] is what eight shifts make of c.
Bit(x, weight) == (x \div weight) % 2
Xor(a, b) ==
    LET d(weight) == weight * ((Bit(a, weight) + Bit(b, weight)) % 2) IN
    d(1) + d(2) + d(4) + d(8) + d(16) + d(32) + d(64) + d(128)
CrcShift == [c \in Byte |-> IF c >= 128 THEN Xor(U8(2 * c), 77) ELSE 2 * c]
CrcByte == [c \in Byte |->
    LET c2 == CrcShift[CrcShift[c]]
        c4 == CrcShift[CrcShift[c2]]
        c6 == CrcShift[CrcShift[c4]]
    IN  CrcShift[CrcShift[c6]]]
CrcOf[buf \in Seq(Byte)] ==
    LET step[p \in Byte \X Byte] == CrcByte[Xor(p[1], p[2])]
        crc[k \in 0 .. Len(buf)] == IF k = 0 THEN 0 ELSE step[<<crc[k - 1], buf[k]>>]
    IN  crc[Len(buf)]
Crc(buf) == CrcOf[buf]

\* stuff_data and _stuff_data: the first byte and every FRAME_BYTE but the
\* last get the distance to the next FRAME_BYTE.
Stuff(s) ==
    LET later(k) == {j \in k + 1 .. Len(s) : s[j] = FRAME_BYTE} IN
    [k \in 1 .. Len(s) |->
        IF (k = 1 \/ s[k] = FRAME_BYTE) /\ later(k) # {}
          THEN Min(later(k)) - k ELSE s[k]]

\* unstuff_data(buf, len) of the firmware: the buffer and the uint8_t it
\* returns.  pass[k] is where its loop is after k iterations; all of them but the
\* last take a code out, so there are at most len.
UnstuffData(buf, len) ==
    LET step[p \in [buf : Seq(Byte), next : Byte, tmp : Byte]] ==
          IF p.next < len /\ p.tmp # 0
            THEN LET code == p.buf[p.next + 1] IN
                 [buf |-> [p.buf EXCEPT ![p.next + 1] = FRAME_BYTE],
                  next |-> U8(p.next + code), tmp |-> code]
            ELSE p
        pass[k \in 0 .. len] ==
          IF k = 0
            THEN [buf |-> [buf EXCEPT ![1] = FRAME_BYTE], next |-> buf[1], tmp |-> buf[1]]
            ELSE step[pass[k - 1]]
    IN  pass[len]

\* _unstuff_data of the host: it gives up on a code that is 0 and leaves a
\* buffer that begins with FRAME_BYTE as it is.  It returns how far the chain of
\* codes leads, or 0 when that is not past the buffer.
HostUnstuff(buf) ==
    LET last == Len(buf) - 1
        step[p \in [buf : Seq(Byte), next : Nat]] ==
          IF p.next < last /\ p.buf[p.next + 1] # 0
            THEN [buf |-> [p.buf EXCEPT ![p.next + 1] = FRAME_BYTE],
                  next |-> p.next + p.buf[p.next + 1]]
            ELSE p
        pass[k \in 0 .. last] ==
          IF k = 0 THEN [buf |-> [buf EXCEPT ![1] = FRAME_BYTE], next |-> buf[1]]
                   ELSE step[pass[k - 1]]
        result(p) == [buf |-> p.buf, next |-> IF p.next > last THEN p.next ELSE 0]
    IN  IF buf = <<>> \/ buf[1] = FRAME_BYTE THEN [buf |-> buf, next |-> 0]
        ELSE result(pass[last])
HostUnstuffData(buf) == HostUnstuff(buf).buf

-----------------------------------------------------------------------------
\* A body between code and terminator, stuffed.  (frame is a function so that
\* TLC computes the whole of it once.)
Packet(body) ==
    LET frame == [b \in {<<0>> \o body \o <<Crc(body), FRAME_BYTE>>} |-> Stuff(b)]
    IN  frame[<<0>> \o body \o <<Crc(body), FRAME_BYTE>>]

\* What send_cmd writes and what simpleserial_put writes.
CommandFrame(cmd, scmd, data) == Packet(<<cmd, scmd, Len(data)>> \o data)
ResponseFrame(c, output) == Packet(<<c, Len(output)>> \o output)
=============================================================================
