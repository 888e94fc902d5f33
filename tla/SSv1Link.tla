------------------------------ MODULE SSv1Link ------------------------------
(***************************************************************************)
(* A host driving a SimpleSerial v1.1 target: the calls of SimpleSerial.py *)
(* on one side, SSv1Target on the other, between them a serial line that   *)
(* may lose a character.                                                   *)
(*                                                                         *)
(* There is no checksum, no number on a command and no reset: the host     *)
(* flushes what it has received, writes a line, and takes what comes back  *)
(* for the answer.  The host is one thread; it waits in the reads, and the *)
(* target runs between any two of its steps.  A call ends with hpc =       *)
(* "idle" and its outcome in res.                                          *)
(***************************************************************************)
EXTENDS SSv1Target

CONSTANTS
    Calls,                      \* of "pt", "errs", "key", "mask", "bad", "list"
    Plaintexts,                 \* what the user sends with 'p', call by call
    Keys, Masks,                \* and with 'k' and 'm'
    Unknown,                    \* letters the target does not know
    Leftovers,                  \* what an earlier session left on the way
    XCount,                     \* the 24 'x' that con() sends
    MaxCalls,                   \* bound: calls of the user
    MaxFaults,                  \* bound: kinds of characters lost, one each
    Faults,                     \* of "overrun", "overflow", "loss"
    Slow                        \* the calls that may time out on a busy target

ASSUME LinkAssumption ==
    /\ XCount \in Nat /\ MaxCalls \in Nat
    /\ Plaintexts \in Seq(Seq(Byte)) /\ Len(Plaintexts) >= MaxCalls
    /\ Keys \subseteq Seq(Byte) /\ Masks \subseteq Seq(Byte)
    /\ Unknown \subseteq Byte /\ Leftovers \subseteq Seq(Byte)

\* simpleserial_write raises ValueError for more than 64 bytes.
ASSUME FitsAssumption ==
    \A p \in Range(Plaintexts) \cup Keys \cup Masks : Len(p) <= 64

VARIABLES
    hpc,          \* the program point of the host
    cur,          \* the request of the call in progress, or of the last one
    line,         \* the letter of the line it writes
    pay_len,      \* bytes the read in progress expects
    payload,      \* what it has decoded
    last_key,     \* self.last_key
    res,          \* what the last call returned
    calls,        \* calls made so far
    faults,       \* the kinds of fault there have been
    sent,         \* history: the lines written, in order
    late,         \* history: a flush of this call came while the target was busy
    hit           \* history: a character to the target is missing since the last
                  \* line, or there has been no line

hostVars == <<hpc, cur, line, pay_len, payload, last_key, res, calls>>
history == <<sent, late, hit>>
vars == <<channels, targetVars, hostVars, faults, history>>

None == -1
Raised == [out |-> "raised", payload |-> <<>>, code |-> None]
Nothing == [out |-> "none", payload |-> <<>>, code |-> None]
NoRequest == [call |-> "none", cmd |-> 0, data |-> <<>>]
Requests ==
    {q \in [call : {"pt", "errs"}, cmd : {CMD_PT}, data : {Plaintexts[calls + 1]}]
        \cup [call : {"key"}, cmd : {CMD_KEY}, data : Keys]
        \cup [call : {"mask"}, cmd : {CMD_MASK}, data : Masks]
        \cup [call : {"bad"}, cmd : Unknown, data : {Plaintexts[calls + 1]}]
        \cup [call : {"list"}, cmd : {CMD_COMMANDS}, data : {<<>>}] :
     q.call \in Calls}

Init ==
    /\ TargetInit
    /\ toTarget \in Leftovers
    /\ toHost = <<>>
    /\ hpc = "con"
    /\ cur = NoRequest
    /\ line = 0
    /\ pay_len = 0
    /\ payload = <<>>
    /\ last_key = [k \in 1 .. BlockLen |-> 0]
    /\ res = Nothing
    /\ calls = 0
    /\ faults = {}
    /\ sent = <<>>
    /\ late = FALSE
    /\ hit = TRUE

-----------------------------------------------------------------------------
Quiet == toTarget = <<>> /\ tx = <<>>

\* The timeout of a read is over.
TimesOut == cur.call \in Slow \/ Quiet

\* _con: 'x' "flushes everything & sets system back to idle".
Con ==
    /\ hpc = "con"
    /\ toTarget' = toTarget \o [k \in 1 .. XCount |-> CMD_RESET]
    /\ hpc' = "conflush"
    /\ UNCHANGED <<toHost, targetVars, cur, line, pay_len, payload, last_key, res,
                   calls, faults, history>>

ConFlush ==
    /\ hpc = "conflush"
    /\ toHost' = <<>>
    /\ hpc' = "idle"
    /\ UNCHANGED <<toTarget, targetVars, cur, line, pay_len, payload, last_key, res,
                   calls, faults, history>>

\* A call that writes nothing returns at once: set_key with the key it sent last.
Skips(q) == q.call = "key" /\ q.data = last_key

\* get_simpleserial_commands asks for their number first.
Call ==
    /\ hpc = "idle"
    /\ calls < MaxCalls
    /\ calls' = calls + 1
    /\ late' = FALSE
    /\ res' = Nothing
    /\ \E q \in Requests :
         /\ cur' = q
         /\ line' = IF q.call = "list" THEN CMD_COUNT ELSE q.cmd
         /\ last_key' = IF q.call = "key" THEN q.data ELSE last_key
         /\ hpc' = IF Skips(q) THEN "idle" ELSE "flush"
    /\ UNCHANGED <<channels, targetVars, pay_len, payload, faults, sent, hit>>

\* Slip: only the queue of the reader is cleared, not the hardware's.
FlushNothing ==
    /\ hpc = "flush"
    /\ late' = (late \/ ~Quiet)
    /\ hpc' = "write"
    /\ UNCHANGED <<channels, targetVars, cur, line, pay_len, payload, last_key, res,
                   calls, faults, sent, hit>>

\* simpleserial_write: first the flush ...
Flush ==
    /\ hpc = "flush"
    /\ toHost' = <<>>
    /\ late' = (late \/ ~Quiet)
    /\ hpc' = "write"
    /\ UNCHANGED <<toTarget, targetVars, cur, line, pay_len, payload, last_key, res,
                   calls, faults, sent, hit>>

\* ... then the line.
Line(c, data) ==
    <<c>> \o (IF c = CMD_MASK THEN Hex(<<Len(data)>>, 65) ELSE <<>>)
          \o Hex(data, 97) \o <<NL>>

Write ==
    /\ hpc = "write"
    /\ toTarget' = toTarget \o Line(line, cur.data)
    /\ sent' = Append(sent, [cmd |-> line, data |-> cur.data])
    /\ hit' = FALSE
    /\ pay_len' = CASE line = CMD_COUNT -> 1
                    [] line = CMD_COMMANDS -> IF payload = <<>> THEN 0 ELSE 3 * payload[1]
                    [] OTHER -> Len(cur.data)
    /\ \/ cur.call \in {"pt", "errs"} /\ hpc' = "read" /\ res' = res
       \/ cur.call \in {"key", "mask", "bad"} /\ hpc' = "ack" /\ res' = res
       \/ \* num_commands[0] raises when num_commands is None.
          /\ cur.call = "list"
          /\ IF line = CMD_COMMANDS /\ payload = <<>>
               THEN hpc' = "idle" /\ res' = Raised
               ELSE hpc' = "read" /\ res' = res
    /\ UNCHANGED <<toHost, targetVars, cur, line, payload, last_key, calls, faults, late>>

-----------------------------------------------------------------------------
\* read(n): its characters, or after the timeout what there is of them.
Reads(n) == Len(toHost) >= n \/ TimesOut
Chars(n) == SubSeq(toHost, 1, Min({n, Len(toHost)}))
Take(n) == toHost' = SubSeq(toHost, Min({n, Len(toHost)}) + 1, Len(toHost))

\* int(s, 16) of at most two characters, which takes no notice of white space
\* around the digits; an empty s, or one with any other character, raises
\* ValueError.
IntOf(s) ==
    LET digits == {k \in DOMAIN s : s[k] # NL}
    IN  IF digits = {} \/ \E k \in digits : ~IsHex(s[k]) THEN None
        ELSE IF digits = {1, 2} THEN 16 * HexValue(s[1]) + HexValue(s[2])
        ELSE HexValue(s[Max(digits)])

Pair(response, k) ==
    SubSeq(response, 2 * k, Min({2 * k + 1, Len(response)}))

RecvLen == 1 + 2 * pay_len + 1
StartOk(r) == r # <<>> /\ r[1] = RESPONSE
EndOk(r) == Len(r) = RecvLen /\ r[RecvLen] = NL

\* simpleserial_read: bytes that do not decode stay 0.
Decoded(r) == [k \in 1 .. pay_len |-> Max({IntOf(Pair(r, k)), 0})]

\* The call has its answer, or None for it.
Give(r) ==
    IF cur.call = "list" /\ line = CMD_COUNT
      THEN hpc' = "flush" /\ line' = CMD_COMMANDS /\ res' = res
      ELSE hpc' = "idle" /\ line' = line /\ res' = r

Read ==
    /\ hpc = "read" /\ cur.call # "errs"
    /\ Reads(RecvLen) /\ Take(RecvLen)
    /\ LET r == Chars(RecvLen) IN
         IF StartOk(r) /\ EndOk(r)
           THEN payload' = Decoded(r) /\ hpc' = "ack" /\ UNCHANGED <<line, res>>
           ELSE payload' = <<>> /\ Give(Nothing)
    /\ UNCHANGED <<toTarget, targetVars, cur, pay_len, last_key, calls, faults, history>>

\* simpleserial_read_witherrors: a whole answer is decoded, and one with a wrong
\* end counts as valid, without a payload ...
ReadErrs ==
    /\ hpc = "read" /\ cur.call = "errs"
    /\ Reads(RecvLen) /\ Take(RecvLen)
    /\ LET r == Chars(RecvLen)
           whole == Len(r) = RecvLen /\ StartOk(r)
           valid == whole /\ \A k \in 1 .. pay_len : IntOf(Pair(r, k)) # None
       IN  /\ payload' = IF valid /\ EndOk(r) THEN Decoded(r) ELSE <<>>
           /\ IF valid THEN hpc' = "ack" /\ res' = res
              ELSE IF whole THEN hpc' = "idle" /\ res' = Nothing
              ELSE hpc' = "robust" /\ res' = res
    /\ UNCHANGED <<toTarget, targetVars, cur, line, pay_len, last_key, calls, faults,
                   history>>

\* ... anything else makes it read on for as long as something comes.
Robust ==
    /\ hpc = "robust"
    /\ TimesOut
    /\ toHost' = <<>>
    /\ hpc' = "idle"
    /\ res' = Nothing
    /\ UNCHANGED <<toTarget, targetVars, cur, line, pay_len, payload, last_key, calls,
                   faults, history>>

\* Slip: a timeout is not passed on; the host looks again.
WaitAckForever ==
    /\ hpc = "ack"
    /\ Reads(4)
    /\ IF Len(toHost) >= 4
         THEN Take(4) /\ Give([out |-> "acked", payload |-> <<>>, code |-> 0])
         ELSE UNCHANGED <<toHost, hpc, line, res>>
    /\ UNCHANGED <<toTarget, targetVars, cur, pay_len, payload, last_key, calls,
                   faults, history>>

\* simpleserial_wait_ack.  Without a code set_key and simpleserial_read raise.
WaitAck ==
    /\ hpc = "ack"
    /\ Reads(4) /\ Take(4)
    /\ LET r == Chars(4)
           code == IF Len(r) = 4 /\ r[1] = ACK THEN IntOf(SubSeq(r, 2, 3)) ELSE None
           reads == cur.call \in {"pt", "errs", "list"}
       IN  IF code = None /\ cur.call \notin {"mask", "bad", "errs"}
             THEN hpc' = "idle" /\ line' = line /\ res' = Raised
             ELSE Give([out |-> IF reads THEN "read" ELSE "acked",
                        payload |-> IF reads THEN payload ELSE <<>>,
                        code |-> code])
    /\ UNCHANGED <<toTarget, targetVars, cur, pay_len, payload, last_key, calls, faults,
                   history>>

\* The steps of a call in progress.
Host ==
    \/ Con \/ ConFlush \/ Flush \/ Write \/ Read \/ ReadErrs \/ Robust \/ WaitAck

-----------------------------------------------------------------------------
Target ==
    /\ Getch \/ Putch
    /\ UNCHANGED <<hostVars, faults, history>>

\* The target's receiver holds one or two characters: what arrives after them
\* while it writes is lost, or overwrites the first, as the HAL has it.
Overrun ==
    /\ tx # <<>>
    /\ \E k \in 1 .. Min({3, Len(toTarget)}) : toTarget' = RemoveAt(toTarget, k)
    /\ hit' = TRUE
    /\ toHost' = toHost

\* The send buffer of the capture board overflows ("Prior to firmware 0.20, the
\* send buffer can silently overflow").
Overflow ==
    /\ toTarget # <<>>
    /\ toTarget' = Front(toTarget)
    /\ hit' = TRUE
    /\ toHost' = toHost

\* The receive buffer of the capture board is full.
LoseToHost ==
    /\ toHost # <<>>
    /\ toHost' = Front(toHost)
    /\ UNCHANGED <<toTarget, hit>>

Fault ==
    /\ Cardinality(faults) < MaxFaults
    /\ \E kind \in Faults \ faults :
         /\ faults' = faults \cup {kind}
         /\ \/ kind = "overrun" /\ Overrun
            \/ kind = "overflow" /\ Overflow
            \/ kind = "loss" /\ LoseToHost
    /\ UNCHANGED <<targetVars, hostVars, sent, late>>

Done ==
    /\ hpc = "idle" /\ calls = MaxCalls /\ Quiet
    /\ UNCHANGED vars

Next == Call \/ Host \/ Target \/ Fault \/ Done

\* A call in progress and the target's main loop keep running; the user need
\* not make another call.
Fairness == WF_vars(Host) /\ WF_vars(Target)

Spec == Init /\ [][Next]_vars /\ Fairness

-----------------------------------------------------------------------------
Points == {"con", "conflush", "idle", "flush", "write", "read", "robust", "ack"}

\* Types, and that no line, however it was damaged, brings more characters into
\* the buffer than the table has for its command - for one of fixed length, no
\* more than fit.
TypeOK ==
    /\ toTarget \in Seq(Byte) /\ toHost \in Seq(Byte)
    /\ cmd \in 0 .. Len(Registered)
    /\ commands \in [DOMAIN Registered -> [c : Byte, len : Byte, flags : {0, 1}]]
    /\ \A k \in DOMAIN Registered : commands[k].c = Registered[k].c
    /\ Len(lenBuf) <= 2 /\ lenBuf \in Seq(Byte)
    /\ ascii_buf \in Seq(Byte)
    /\ cmd # 0 => /\ Len(ascii_buf) <= 2 * commands[cmd].len
                  /\ commands[cmd].flags = 0 => commands[cmd].len < MAX_SS_LEN
    /\ tx \in Seq(Byte)
    /\ hpc \in Points
    /\ payload \in Seq(Byte)
    /\ last_key \in Seq(Byte)
    /\ calls \in 0 .. MaxCalls
    /\ faults \subseteq Faults

Idle == hpc = "idle"

\* Whatever an earlier session left, whatever was lost before: a line that
\* arrives whole leaves a target that has read it at the start of a line.
InStep == ~hit /\ toTarget = <<>> => cmd = 0

\* The list a call returns is the table of the target, its length having come
\* in a call of its own.
ListIsTable ==
    Idle /\ ~late /\ cur.call = "list" /\ res.out = "read"
        => res.payload = FlattenSeq([k \in DOMAIN commands |->
                             <<commands[k].c, commands[k].len, commands[k].flags>>])

\* The link keeps the promise of CallLink: what runs was sent, in order and
\* once; a payload and a code a call returns are those of its own command, run
\* last of all - so a letter the target does not know is never acknowledged -
\* unless the target was still busy when the call flushed; and every call comes
\* back.  The resets con() sends are no requests.
Link == INSTANCE CallLink WITH
    Requests <- [cmd : {CMD_KEY, CMD_PT, CMD_MASK, CMD_COUNT, CMD_COMMANDS} \cup Unknown,
                 data : {<<>>} \cup Keys \cup Masks \cup Range(Plaintexts)],
    Echo <- {CMD_PT},
    open <- hpc # "idle",
    ran <- SelectSeq(ran, LAMBDA q : q.cmd # CMD_RESET),
    doubt <- late,
    result <- [payload |-> res.payload, code |-> res.code]
Promise == Link!Spec
=============================================================================
