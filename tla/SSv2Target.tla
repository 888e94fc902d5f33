----------------------------- MODULE SSv2Target -----------------------------
(***************************************************************************)
(* The target of a SimpleSerial v2.1 link: simpleserial_get reading one    *)
(* byte at a time from its serial port, the commands of                    *)
(* simpleserial-base.c, and simpleserial_put writing its packets one byte  *)
(* at a time.  The target is a single thread: while it writes it does not  *)
(* read.                                                                   *)
(***************************************************************************)
EXTENDS SSv2Frame

CONSTANT BlockLen     \* the 16 bytes of a key or a plaintext

\* simpleserial_addcmd refuses longer commands.
ASSUME BlockLenAssumption == BlockLen \in 0 .. MAX_SS_LEN - 1

VARIABLES
    toTarget,      \* bytes on their way to the target
    toHost,        \* bytes on their way to the host
    data_buf,      \* what simpleserial_get has read of the current frame
    next_frame,    \* where its second unstuff_data starts
    tx,            \* bytes simpleserial_put has still to write
    key,           \* the key get_key was given last
    ran            \* history: the commands that ran to the end, in order

targetVars == <<data_buf, next_frame, tx, key, ran>>
channels == <<toTarget, toHost>>

CMD_AES == 1           \* simpleserial_addcmd(0x01, 16, aes)
CMD_VERSION == 118     \* 'v'
CMD_COMMANDS == 119    \* 'w'
RESPONSE == 114        \* 'r'
ACK == 101             \* 'e'
SS_VER_2_1 == 3

\* The commands in the order simpleserial_init and main register them.
commands == <<CMD_VERSION, CMD_COMMANDS, CMD_AES>>

\* What check_version and ss_get_commands put.
VersionResponse == ResponseFrame(RESPONSE, <<SS_VER_2_1>>)
CommandsResponse == ResponseFrame(RESPONSE, commands)

TargetInit ==
    /\ data_buf = <<>>
    /\ next_frame = 0
    /\ tx = <<>>
    /\ key = <<>>
    /\ ran = <<>>

-----------------------------------------------------------------------------
\* A callback: its return value, the packets it puts, and the key after it.
Callback(cmd, scmd, data) ==
    LET len == Len(data)
        isKey == (scmd \div 2) % 2 = 1
        isPt == scmd % 2 = 1
        keyLen == IF isKey THEN BlockLen ELSE 0
        reqLen == IF isPt THEN keyLen + BlockLen ELSE keyLen
    IN
    IF cmd = CMD_VERSION THEN
      [err |-> SS_ERR_OK, put |-> VersionResponse, key |-> key]
    ELSE IF cmd = CMD_COMMANDS THEN
      [err |-> SS_ERR_OK, put |-> CommandsResponse, key |-> key]
    ELSE
      [err |-> IF len = reqLen THEN SS_ERR_OK ELSE SS_ERR_LEN,
       put |-> IF isPt /\ reqLen <= len
                 THEN ResponseFrame(RESPONSE, SubSeq(data, keyLen + 1, reqLen))
                 ELSE <<>>,
       key |-> IF isKey /\ keyLen <= len THEN SubSeq(data, 1, keyLen) ELSE key]

\* Slip: next_frame keeps its value into the next frame.
FailStale(err) ==
    /\ tx' = ResponseFrame(ACK, <<err>>)
    /\ data_buf' = <<>>
    /\ UNCHANGED <<next_frame, key, ran>>

\* Slip: the error is reported and the bytes read so far are kept.
FailKeep(err) ==
    /\ tx' = ResponseFrame(ACK, <<err>>)
    /\ next_frame' = 0
    /\ UNCHANGED <<data_buf, key, ran>>

\* Slip: err still has its initial value when the packet is put.
FailOk(err) ==
    /\ tx' = ResponseFrame(ACK, <<SS_ERR_OK>>)
    /\ data_buf' = <<>>
    /\ next_frame' = 0
    /\ UNCHANGED <<key, ran>>

\* ERROR: of simpleserial_get: one 'e' packet, and main calls it again.
Fail(err) ==
    /\ tx' = ResponseFrame(ACK, <<err>>)
    /\ data_buf' = <<>>
    /\ next_frame' = 0
    /\ UNCHANGED <<key, ran>>

Wait(buf) ==
    /\ data_buf' = buf
    /\ UNCHANGED <<next_frame, tx, key, ran>>

\* The fourth byte is in: take the stuffing out of the header and check it.
Header(buf) ==
    LET u == UnstuffData(buf, 4) IN
    IF \A c \in DOMAIN commands : commands[c] # u.buf[2]
      THEN Fail(SS_ERR_CMD)
    ELSE IF u.buf[4] + 5 < u.next
      THEN Fail(SS_ERR_LEN)
    ELSE /\ data_buf' = u.buf
         /\ next_frame' = u.next
         /\ UNCHANGED <<tx, key, ran>>

\* Slip: the CRC is not looked at.
FrameNoCrc(buf) ==
    LET i == Len(buf) - 1
        rest == SubSeq(buf, next_frame + 1, i + 1)
        full == SubSeq(buf, 1, next_frame) \o UnstuffData(rest, i - next_frame + 1).buf
        cb == Callback(full[2], full[3], SubSeq(full, 5, 4 + full[4]))
    IN  /\ tx' = cb.put \o ResponseFrame(ACK, <<cb.err>>)
        /\ key' = cb.key
        /\ ran' = IF cb.err = SS_ERR_OK
                    THEN Append(ran, [cmd |-> full[2], scmd |-> full[3],
                                      data |-> SubSeq(full, 5, 4 + full[4])])
                    ELSE ran
        /\ data_buf' = <<>>
        /\ next_frame' = 0

\* The terminator is in: take out the rest, check the CRC, run the command.
Frame(buf) ==
    LET i == Len(buf) - 1
        head == SubSeq(buf, 1, next_frame)
        rest == SubSeq(buf, next_frame + 1, i + 1)
        full == head \o UnstuffData(rest, i - next_frame + 1).buf
        cb == Callback(full[2], full[3], SubSeq(full, 5, 4 + full[4]))
    IN
    IF Crc(SubSeq(full, 2, i - 1)) # full[i]
      THEN Fail(SS_ERR_CRC)
      ELSE /\ tx' = cb.put \o ResponseFrame(ACK, <<cb.err>>)
           /\ key' = cb.key
           /\ ran' = IF cb.err = SS_ERR_OK
                       THEN Append(ran, [cmd |-> full[2], scmd |-> full[3],
                                         data |-> SubSeq(full, 5, 4 + full[4])])
                       ELSE ran
           /\ data_buf' = <<>>
           /\ next_frame' = 0

\* Slip: a FRAME_BYTE among the data is kept.
GetchLax ==
    /\ tx = <<>>
    /\ toTarget # <<>>
    /\ Len(data_buf) < MAX_SS_LEN
    /\ toTarget' = Tail(toTarget)
    /\ toHost' = toHost
    /\ LET c == Head(toTarget)
           buf == Append(data_buf, c)
           i == Len(data_buf)
       IN
       IF i < 4
         THEN IF c = FRAME_BYTE THEN Fail(SS_ERR_FRAME_BYTE)
              ELSE IF i < 3 THEN Wait(buf) ELSE Header(buf)
       ELSE IF i < data_buf[4] + 5 THEN Wait(buf)
       ELSE IF c # FRAME_BYTE THEN Fail(SS_ERR_LEN) ELSE Frame(buf)

\* One getch of simpleserial_get.  A length of more than MAX_SS_LEN - 6 has it
\* write past data_buf, which is undefined: there the target stops, and what the
\* module says holds up to that byte.
Getch ==
    /\ tx = <<>>
    /\ toTarget # <<>>
    /\ Len(data_buf) < MAX_SS_LEN
    /\ toTarget' = Tail(toTarget)
    /\ toHost' = toHost
    /\ LET c == Head(toTarget)
           buf == Append(data_buf, c)
           i == Len(data_buf)
       IN
       IF i < 4
         THEN IF c = FRAME_BYTE THEN Fail(SS_ERR_FRAME_BYTE)
              ELSE IF i < 3 THEN Wait(buf) ELSE Header(buf)
       ELSE IF i < data_buf[4] + 5
         THEN IF c = FRAME_BYTE THEN Fail(SS_ERR_FRAME_BYTE) ELSE Wait(buf)
       ELSE IF c # FRAME_BYTE THEN Fail(SS_ERR_LEN) ELSE Frame(buf)

\* One putch of simpleserial_put.
Putch ==
    /\ tx # <<>>
    /\ toHost' = Append(toHost, Head(tx))
    /\ tx' = Tail(tx)
    /\ UNCHANGED <<toTarget, data_buf, next_frame, key, ran>>
=============================================================================
