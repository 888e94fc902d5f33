------------------------------ MODULE SSv2Cobs ------------------------------
(***************************************************************************)
(* The byte stuffing of the SimpleSerial v2.1 frames, loop by loop.        *)
(*                                                                         *)
(* A frame is a buffer orig of n bytes, indexed from 0 as in the code:     *)
(* orig[0] is the place of the first stuffing code, orig[n-1] is the       *)
(* terminating FRAME_BYTE, and the bytes between are the command or the    *)
(* response.  The sender stuffs it (pc = "stuff"), it goes over the wire   *)
(* (pc = "wire"), and the receiver takes the stuffing out again:           *)
(*                                                                         *)
(*   dir = "cmd"    the host's _stuff_data, then the firmware's            *)
(*                  simpleserial_get: unstuff_data on the first four       *)
(*                  bytes, a check of the length, unstuff_data on the rest;*)
(*   dir = "resp"   the firmware's stuff_data, then the host's             *)
(*                  _unstuff_data on the whole packet.                     *)
(*                                                                         *)
(* One action is one iteration of a loop.  The firmware computes in        *)
(* uint8_t, the host in unbounded integers.                                *)
(***************************************************************************)
EXTENDS Integers

CONSTANTS
    Symbol,     \* the byte values that occur in a frame
    Lengths     \* the frame lengths n, codes and terminator included

Byte == 0 .. 255
FRAME_BYTE == 0
U8(x) == x % 256

ASSUME SymbolAssumption == Symbol \subseteq Byte
\* MAX_SS_LEN bounds the receive buffer of simpleserial_get; a command frame
\* has at least code, cmd, scmd, len, crc and terminator.
ASSUME LengthsAssumption == Lengths \subseteq 6 .. 249

VARIABLES
    pc,      \* where sender and receiver are
    dir,     \* "cmd" (host to target) or "resp" (target to host)
    n,       \* length of the frame
    orig,    \* the frame before stuffing
    buf,     \* the buffer both loops rewrite in place
    i,       \* loop index of the stuffing loop
    last,    \* where the next code goes
    base,    \* first byte of the part being unstuffed
    next,    \* offset in that part of the next code
    tmp      \* the code read last

vars == <<pc, dir, n, orig, buf, i, last, base, next, tmp>>

-----------------------------------------------------------------------------
\* The frame as the sender builds it.  A command carries its payload length in
\* byte 3 (send_cmd), a response in byte 2 (simpleserial_put).
WellFormed(d, f, len) ==
    /\ f[0] = FRAME_BYTE
    /\ f[len - 1] = FRAME_BYTE
    /\ d = "cmd" => f[3] = len - 6
    /\ d = "resp" => f[2] = len - 5

Body(b, len) == [k \in 0 .. len - 1 |->
                    IF k = 0 \/ k = len - 1 THEN FRAME_BYTE ELSE b[k]]

Init ==
    /\ pc = "stuff"
    /\ dir \in {"cmd", "resp"}
    /\ n \in Lengths
    /\ \E b \in [1 .. n - 2 -> Symbol] : orig = Body(b, n)
    /\ WellFormed(dir, orig, n)
    /\ buf = orig
    /\ i = 1
    /\ last = 0
    /\ base = 0
    /\ next = 0
    /\ tmp = 0

\* Slip: the code counts backwards.
HostStuffBackwards ==
    /\ pc = "stuff" /\ dir = "cmd" /\ i < n
    /\ IF buf[i] = FRAME_BYTE
         THEN /\ buf' = [buf EXCEPT ![last] = last - i]
              /\ last' = i
         ELSE UNCHANGED <<buf, last>>
    /\ i' = i + 1
    /\ UNCHANGED <<pc, dir, n, orig, base, next, tmp>>

\* SimpleSerial2._stuff_data: for i in range(1, l).
HostStuff ==
    /\ pc = "stuff" /\ dir = "cmd" /\ i < n
    /\ IF buf[i] = FRAME_BYTE
         THEN /\ buf' = [buf EXCEPT ![last] = i - last]
              /\ last' = i
         ELSE UNCHANGED <<buf, last>>
    /\ i' = i + 1
    /\ UNCHANGED <<pc, dir, n, orig, base, next, tmp>>

\* Slip: last stays where it is, so only the first code is ever written.
TargetStuffNoLast ==
    /\ pc = "stuff" /\ dir = "resp" /\ i < n
    /\ buf' = IF buf[i] = FRAME_BYTE
                THEN [buf EXCEPT ![last] = U8(i - last)] ELSE buf
    /\ i' = U8(i + 1)
    /\ UNCHANGED <<pc, dir, n, orig, last, base, next, tmp>>

\* stuff_data of the firmware: for (; i < len; i++), uint8_t throughout.
TargetStuff ==
    /\ pc = "stuff" /\ dir = "resp" /\ i < n
    /\ IF buf[i] = FRAME_BYTE
         THEN /\ buf' = [buf EXCEPT ![last] = U8(i - last)]
              /\ last' = i
         ELSE UNCHANGED <<buf, last>>
    /\ i' = U8(i + 1)
    /\ UNCHANGED <<pc, dir, n, orig, base, next, tmp>>

Send ==
    /\ pc = "stuff" /\ i >= n
    /\ pc' = "wire"
    /\ UNCHANGED <<dir, n, orig, buf, i, last, base, next, tmp>>

\* What simpleserial_get does before the loop of its first unstuff_data(.., 4):
\* a FRAME_BYTE among the first four bytes is an error.
TargetHeader ==
    /\ pc = "wire" /\ dir = "cmd"
    /\ IF \E k \in 0 .. 3 : buf[k] = FRAME_BYTE
         THEN /\ pc' = "ERR_FRAME_BYTE"
              /\ UNCHANGED <<buf, next, tmp>>
         ELSE /\ pc' = "header"
              /\ next' = buf[0]
              /\ tmp' = buf[0]
              /\ buf' = [buf EXCEPT ![0] = FRAME_BYTE]
    /\ UNCHANGED <<dir, n, orig, i, last, base>>

\* unstuff_data(data_buf, 4): while ((next < len) && tmp != 0).
TargetUnstuffHeader ==
    /\ pc = "header" /\ next < 4 /\ tmp # 0
    /\ tmp' = buf[next]
    /\ buf' = [buf EXCEPT ![next] = FRAME_BYTE]
    /\ next' = U8(next + tmp')
    /\ UNCHANGED <<pc, dir, n, orig, i, last, base>>

\* Slip: the second pass starts after the header, wherever the codes point.
TargetRestAtFour ==
    /\ pc = "header" /\ ~(next < 4 /\ tmp # 0)
    /\ pc' = "rest"
    /\ base' = 4
    /\ next' = buf[4]
    /\ tmp' = buf[4]
    /\ buf' = [buf EXCEPT ![4] = FRAME_BYTE]
    /\ UNCHANGED <<dir, n, orig, i, last>>

\* Slip: a frame whose next code is its terminator is taken for a short one.
TargetRestStrict ==
    /\ pc = "header" /\ ~(next < 4 /\ tmp # 0)
    /\ LET end == buf[3] + 5 IN
       IF end <= next
         THEN /\ pc' = "ERR_LEN"
              /\ UNCHANGED <<buf, base, next, tmp>>
         ELSE /\ pc' = "rest"
              /\ base' = next
              /\ next' = buf[next]
              /\ tmp' = buf[next]
              /\ buf' = [buf EXCEPT ![next] = FRAME_BYTE]
    /\ UNCHANGED <<dir, n, orig, i, last>>

\* The length check and the bytes that follow the header: len + crc, then the
\* terminator at len + 5; then the entry of the second unstuff_data.
TargetRest ==
    /\ pc = "header" /\ ~(next < 4 /\ tmp # 0)
    /\ LET end == buf[3] + 5 IN
       IF end < next
         THEN /\ pc' = "ERR_LEN"
              /\ UNCHANGED <<buf, base, next, tmp>>
       ELSE IF \E k \in 4 .. end - 1 : buf[k] = FRAME_BYTE
         THEN /\ pc' = "ERR_FRAME_BYTE"
              /\ UNCHANGED <<buf, base, next, tmp>>
       ELSE IF buf[end] # FRAME_BYTE
         THEN /\ pc' = "ERR_LEN"
              /\ UNCHANGED <<buf, base, next, tmp>>
       ELSE /\ pc' = "rest"
            /\ base' = next
            /\ next' = buf[next]
            /\ tmp' = buf[next]
            /\ buf' = [buf EXCEPT ![next] = FRAME_BYTE]
    /\ UNCHANGED <<dir, n, orig, i, last>>

\* unstuff_data(data_buf + next_frame, i - next_frame + 1), with i at the
\* terminator.
TargetUnstuffRest ==
    /\ pc = "rest" /\ next < n - base /\ tmp # 0
    /\ tmp' = buf[base + next]
    /\ buf' = [buf EXCEPT ![base + next] = FRAME_BYTE]
    /\ next' = U8(next + tmp')
    /\ UNCHANGED <<pc, dir, n, orig, i, last, base>>

TargetDone ==
    /\ pc = "rest" /\ ~(next < n - base /\ tmp # 0)
    /\ pc' = "done"
    /\ UNCHANGED <<dir, n, orig, buf, i, last, base, next, tmp>>

\* SimpleSerial2._unstuff_data up to its loop.
HostHeader ==
    /\ pc = "wire" /\ dir = "resp"
    /\ IF buf[0] = FRAME_BYTE
         THEN /\ pc' = "HOST_ERR"
              /\ UNCHANGED <<buf, next>>
         ELSE /\ pc' = "host"
              /\ next' = buf[0]
              /\ buf' = [buf EXCEPT ![0] = FRAME_BYTE]
    /\ UNCHANGED <<dir, n, orig, i, last, base, tmp>>

\* Slip: the code is taken for a position instead of a distance.
HostUnstuffAbsolute ==
    /\ pc = "host" /\ next < n - 1
    /\ tmp' = buf[next]
    /\ buf' = [buf EXCEPT ![next] = FRAME_BYTE]
    /\ next' = tmp'
    /\ UNCHANGED <<pc, dir, n, orig, i, last, base>>

\* One iteration of while n < l, with l the index of the terminator.
HostUnstuff ==
    /\ pc = "host" /\ next < n - 1
    /\ tmp' = buf[next]
    /\ buf' = [buf EXCEPT ![next] = FRAME_BYTE]
    /\ next' = next + tmp'
    /\ pc' = IF tmp' = 0 THEN "HOST_ERR" ELSE "host"
    /\ UNCHANGED <<dir, n, orig, i, last, base>>

HostDone ==
    /\ pc = "host" /\ next >= n - 1
    /\ pc' = "done"
    /\ UNCHANGED <<dir, n, orig, buf, i, last, base, next, tmp>>

Next ==
    \/ HostStuff \/ TargetStuff \/ Send
    \/ TargetHeader \/ TargetUnstuffHeader \/ TargetRest
    \/ TargetUnstuffRest \/ TargetDone
    \/ HostHeader \/ HostUnstuff \/ HostDone

Spec == Init /\ [][Next]_vars /\ WF_vars(Next)

-----------------------------------------------------------------------------
Stages == {"stuff", "wire", "header", "rest", "host", "done",
           "ERR_FRAME_BYTE", "ERR_LEN", "HOST_ERR"}

\* Every loop variable of both sides stays in the type the code gives it, and
\* every code written fits in one byte of the buffer.
TypeOK ==
    /\ pc \in Stages
    /\ dir \in {"cmd", "resp"}
    /\ n \in Lengths
    /\ orig \in [0 .. n - 1 -> Byte]
    /\ buf \in [0 .. n - 1 -> Byte]
    /\ i \in 1 .. n
    /\ last \in 0 .. n - 1
    /\ base \in 0 .. n - 1
    /\ next \in Nat
    /\ tmp \in Byte

\* On the wire the terminator is the only FRAME_BYTE: whatever the payload, a
\* receiver that sees 0x00 is at the end of the frame.
OneFrameByte ==
    pc = "wire" => \A k \in 0 .. n - 1 : buf[k] = FRAME_BYTE <=> k = n - 1

\* The two passes of simpleserial_get, split wherever the fourth byte happens
\* to fall among the codes, and the single pass of the host both return the
\* frame that was stuffed.
RoundTrip == pc = "done" => buf = orig

\* No well-formed frame is rejected by either receiver.
NeverRejected == pc \notin {"ERR_FRAME_BYTE", "ERR_LEN", "HOST_ERR"}

\* Both loops end on every frame.
Decoded == <>(pc = "done")
=============================================================================
