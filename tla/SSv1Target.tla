----------------------------- MODULE SSv1Target -----------------------------
(***************************************************************************)
(* The target of a SimpleSerial v1.1 link: simpleserial_get of the second  *)
(* half of simpleserial.c, one getch at a time.  A command is a line of    *)
(* characters: its letter, for a command of variable length two digits     *)
(* with the length, two hex digits per byte, and a newline.  Characters    *)
(* are their ASCII codes.                                                  *)
(*                                                                         *)
(* Program is the list of commands main() registers after those of         *)
(* simpleserial_init, of the ones in simpleserial-base.c and               *)
(* simpleserial-aes.c.  The target is a single thread: while it writes it  *)
(* does not read.  The cipher is not modelled; the answer to a plaintext   *)
(* is the plaintext, as in simpleserial-base.c.                            *)
(***************************************************************************)
EXTENDS Integers, Sequences, SequencesExt, FiniteSetsExt

CONSTANTS
    BlockLen,     \* the 16 bytes of a key or a plaintext
    Program       \* what main() registers: records [c, len, flags]

ASSUME BlockLenAssumption == BlockLen \in Nat \ {0}
Byte == 0 .. 255
Entry == [c : Byte, len : Nat, flags : {0, 1}]
ASSUME ProgramAssumption == Program \in Seq(Entry)

MAX_SS_LEN == 64
MAX_SS_CMDS == 32
NL == 10
CR == 13
CMD_VERSION == 118    \* 'v'
CMD_COMMANDS == 119   \* 'w'
CMD_COUNT == 121      \* 'y'
CMD_KEY == 107        \* 'k'
CMD_PT == 112         \* 'p'
CMD_RESET == 120      \* 'x'
CMD_MASK == 109       \* 'm'
CMD_MULTI == 102      \* 'f', a hex digit, too
RESPONSE == 114       \* 'r'
ACK == 122            \* 'z'
SS_VER_1_1 == 1

\* simpleserial_addcmd: nothing when the table is full or len too long.
addcmd(table, e) ==
    IF Len(table) >= MAX_SS_CMDS \/ e.len >= MAX_SS_LEN THEN table ELSE Append(table, e)

\* The table as simpleserial_init and main() fill it.
Fixed(c, len) == [c |-> c, len |-> len, flags |-> 0]
Registered ==
    FoldLeft(addcmd, <<>>,
             <<Fixed(CMD_VERSION, 0), Fixed(CMD_COMMANDS, 0), Fixed(CMD_COUNT, 0)>>
             \o Program)

\* The bounds are those of addcmd; of the firmwares' commands only 'm' has a
\* variable length, and none is a newline.
ASSUME RegisteredAssumption ==
    /\ Registered \in Seq(Entry) /\ Len(Registered) <= MAX_SS_CMDS
    /\ \A k \in DOMAIN Registered :
         /\ Registered[k].len < MAX_SS_LEN
         /\ Registered[k].c # NL
         /\ Registered[k].flags = 1 => Registered[k].c = CMD_MASK

VARIABLES
    toTarget,      \* characters on their way to the target
    toHost,        \* characters on their way to the host
    commands,      \* the table
    cmd,           \* index of the command being received, 0 between commands
    lenBuf,        \* the digits of a variable length read so far
    ascii_buf,     \* the digits of the payload read so far
    tx,            \* characters simpleserial_put has still to write
    ran            \* history: the commands that ran, in order

lineVars == <<cmd, lenBuf, ascii_buf>>
targetVars == <<commands, lineVars, tx, ran>>
channels == <<toTarget, toHost>>

TargetInit ==
    /\ commands = Registered
    /\ cmd = 0
    /\ lenBuf = <<>>
    /\ ascii_buf = <<>>
    /\ tx = <<>>
    /\ ran = <<>>

-----------------------------------------------------------------------------
IsHex(ch) == ch \in 48 .. 57 \cup 65 .. 70 \cup 97 .. 102
HexValue(ch) == IF ch <= 57 THEN ch - 48 ELSE IF ch <= 70 THEN ch - 55 ELSE ch - 87

\* hex_decode: the bytes of an even number of hex digits.
hex_decode(digits) ==
    [k \in 1 .. Len(digits) \div 2 |->
        16 * HexValue(digits[2 * k - 1]) + HexValue(digits[2 * k])]

\* Two digits of a byte; a is the code of the digit for ten.
Digit(n, a) == IF n < 10 THEN 48 + n ELSE a + n - 10
Hex(bytes, a) ==
    [k \in 1 .. 2 * Len(bytes) |->
        LET b == bytes[(k + 1) \div 2]
        IN  Digit(IF k % 2 = 1 THEN b \div 16 ELSE b % 16, a)]

\* simpleserial_put, upper case.
Put(c, bytes) == <<c>> \o Hex(bytes, 65) \o <<NL>>

\* The table as ss_get_commands lays it out: the three bytes of each entry.
Listed ==
    [k \in 1 .. 3 * Len(commands) |->
        LET e == commands[(k + 2) \div 3]
        IN  <<e.c, e.len, e.flags>>[((k + 2) % 3) + 1]]

\* Slip: the members of ss_cmd_repr are declared in another order.
AnswerSwapped(c, data) ==
    CASE c = CMD_COMMANDS ->
           Put(RESPONSE, FlattenSeq([k \in DOMAIN commands |->
               <<commands[k].c, commands[k].flags, commands[k].len>>]))
      [] c = CMD_COUNT -> Put(RESPONSE, <<Len(commands)>>)
      [] c \in {CMD_PT, CMD_MULTI} -> Put(RESPONSE, data)
      [] OTHER -> <<>>

\* What the callback of command c puts, and the code it returns.
Answer(c, data) ==
    CASE c = CMD_COMMANDS ->
           Put(RESPONSE, Listed)
      [] c = CMD_COUNT -> Put(RESPONSE, <<Len(commands)>>)
      [] c \in {CMD_PT, CMD_MULTI} -> Put(RESPONSE, data)
      [] OTHER -> <<>>
Code(c) == IF c = CMD_VERSION THEN SS_VER_1_1 ELSE 0

-----------------------------------------------------------------------------
\* simpleserial_get returns: main calls it again.
Return ==
    /\ cmd' = 0
    /\ lenBuf' = <<>>
    /\ ascii_buf' = <<>>

Find(c) == {k \in DOMAIN commands : commands[k].c = c}

\* Slip: without a match it goes on, past the end of the table.
LetterGoesOn(c) ==
    /\ cmd' = IF Find(c) = {} THEN Len(commands) + 1 ELSE Min(Find(c))
    /\ UNCHANGED <<commands, lenBuf, ascii_buf, tx, ran>>

\* The letter of a command, or anything else, which is passed over.
Letter(c) ==
    /\ IF Find(c) = {}
         THEN cmd' = 0
         ELSE cmd' \in {k \in Find(c) : \A other \in Find(c) : k <= other}
    /\ UNCHANGED <<commands, lenBuf, ascii_buf, tx, ran>>

ReadsLength == commands[cmd].flags = 1 /\ Len(lenBuf) < 2
Missing == 2 * commands[cmd].len - Len(ascii_buf)

\* A digit of the length, which goes into the table.  Whatever the two are, a
\* newline included, they are not looked at before both are in.
LengthDigit(c) ==
    LET buff == Append(lenBuf, c) IN
    /\ IF Len(buff) = 1 THEN
         lenBuf' = buff /\ UNCHANGED <<cmd, ascii_buf, commands>>
       ELSE IF \A k \in 1 .. 2 : IsHex(buff[k]) THEN
         /\ lenBuf' = buff
         /\ commands' = [commands EXCEPT ![cmd].len = hex_decode(buff)[1]]
         /\ UNCHANGED <<cmd, ascii_buf>>
       ELSE Return /\ commands' = commands
    /\ UNCHANGED <<tx, ran>>

\* Slip: a newline among the digits is kept.
PayloadLax(c) ==
    /\ ascii_buf' = Append(ascii_buf, c)
    /\ UNCHANGED <<cmd, lenBuf, commands, tx, ran>>

\* A character of the payload; a newline before its end gives the line up.
Payload(c) ==
    /\ IF c \in {NL, CR}
         THEN Return
         ELSE ascii_buf' = Append(ascii_buf, c) /\ UNCHANGED <<cmd, lenBuf>>
    /\ UNCHANGED <<commands, tx, ran>>

Run ==
    LET c == commands[cmd].c
        data == hex_decode(ascii_buf)
    IN  /\ tx' = Answer(c, data) \o Put(ACK, <<Code(c)>>)
        /\ ran' = Append(ran, [cmd |-> c, data |-> data])

\* The character after the payload.
EndOfLine(c) ==
    /\ IF c \in {NL, CR} /\ \A k \in DOMAIN ascii_buf : IsHex(ascii_buf[k])
         THEN Run
         ELSE UNCHANGED <<tx, ran>>
    /\ Return
    /\ commands' = commands

\* One getch of simpleserial_get.
Getch ==
    /\ tx = <<>>
    /\ toTarget # <<>>
    /\ toTarget' = Tail(toTarget)
    /\ toHost' = toHost
    /\ LET c == Head(toTarget) IN
       IF cmd = 0 THEN Letter(c)
       ELSE IF ReadsLength THEN LengthDigit(c)
       ELSE IF Missing > 0 THEN Payload(c)
       ELSE EndOfLine(c)

\* One putch of simpleserial_put.
Putch ==
    /\ tx # <<>>
    /\ toHost' = Append(toHost, Head(tx))
    /\ tx' = Tail(tx)
    /\ UNCHANGED <<toTarget, commands, lineVars, ran>>
=============================================================================
