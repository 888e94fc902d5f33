------------------------------ MODULE SSv2Link ------------------------------
(***************************************************************************)
(* A host driving a SimpleSerial v2.1 target: the calls of                 *)
(* SimpleSerial2.py on one side, SSv2Target on the other, and between them *)
(* a serial line in each direction that may lose or garble a byte.         *)
(*                                                                         *)
(* The host is one thread; a call runs through the program points of hpc.  *)
(* What the code takes time for is an action of its own, so the target     *)
(* runs in between: every wait for bytes (read with its timeout) and every *)
(* sleep.  A call of the user (a command and the reads that go with it, as *)
(* in the documentation) ends with hpc = "idle" and its outcome in res.    *)
(***************************************************************************)
EXTENDS SSv2Target

CONSTANTS
    Calls,              \* the calls the user makes, of "pt", "errs", "errs3",
                        \* "key", "bad", "list"
    Plaintexts,         \* what the user sends with 'p', call by call
    Keys,               \* and with 'k'
    Unknown,            \* command bytes no callback is registered for
    Leftovers,          \* what an earlier session left on the way to the target
    MaxCalls,           \* bound: calls of the user
    MaxFaults,          \* bound: bytes lost or garbled, one of each kind at most
    Faults,             \* which faults there are: "overrun", "noise", "loss", "garble"
    Slow,               \* may the target take longer than a read timeout
    Settles,            \* sleeps that outlast whatever the target is doing:
                        \*   "reset" the 0.05 s of reset_comms,
                        \*   "flush" the 0.15 s of flush_on_error,
                        \*   "glitch" the glitch_timeout of a second
    ConFlush            \* flush_on_err as passed to con()

ASSUME PlaintextsAssumption == Plaintexts \in Seq(Seq(Byte)) /\ Len(Plaintexts) >= MaxCalls
ASSUME KeysAssumption == Keys \subseteq Seq(Byte)
ASSUME UnknownAssumption == Unknown \subseteq Byte \ Range(commands)
ASSUME LeftoversAssumption == Leftovers \subseteq Seq(Byte)
ASSUME MaxCallsAssumption == MaxCalls \in Nat
ASSUME ConFlushAssumption == ConFlush \in BOOLEAN

\* The payloads are such that their frames fit the target's data_buf.
ASSUME FitsAssumption ==
    \A p \in Range(Plaintexts) \cup Keys : Len(p) + 6 <= MAX_SS_LEN

None == -1
AllRequests ==
    [call : {"pt", "errs", "errs3"}, cmd : {CMD_AES}, scmd : {1},
     data : Range(Plaintexts)]
      \cup [call : {"key"}, cmd : {CMD_AES}, scmd : {2}, data : Keys]
      \cup [call : {"bad"}, cmd : Unknown, scmd : {0}, data : Range(Plaintexts)]
      \cup [call : {"list"}, cmd : {CMD_COMMANDS}, scmd : {0}, data : {<<>>}]

VARIABLES
    hpc,           \* the program point of the host
    cur,           \* the request of the call in progress, or of the last one
    expect,        \* the cmd argument of the read_cmd in progress
    resp,          \* what that read_cmd has read
    ret,           \* where reset_comms returns to, innermost first
    flush_on_err,  \* self._flush_on_err
    tmp,           \* what read_cmd will put back there
    last_key,      \* self.last_key
    res,           \* outcome of the last call: payload, its packet, ack code
    calls,         \* calls made so far
    faults,        \* the kinds of fault there have been
    sent           \* history: the requests written, in order

hostVars == <<hpc, cur, expect, resp, ret, flush_on_err, tmp, last_key, res,
              calls, sent>>
vars == <<channels, targetVars, hostVars, faults>>

\* What the user may ask for next.
Requests ==
    {q \in AllRequests :
        q.call \in Calls /\ (q.call \in {"key", "list"} \/ q.data = Plaintexts[calls + 1])}

NoResult == [payload |-> <<>>, packet |-> None, ack |-> None]
NoRequest == [call |-> "none", cmd |-> 0, scmd |-> 0, data |-> <<>>]

Init ==
    /\ TargetInit
    /\ toTarget \in Leftovers
    /\ toHost \in {<<>>, ResponseFrame(ACK, <<SS_ERR_OK>>)}
    /\ hpc = "con"
    /\ cur = NoRequest
    /\ expect = None
    /\ resp = <<>>
    /\ ret = <<>>
    /\ flush_on_err = ConFlush
    /\ tmp = ConFlush
    /\ last_key = [k \in 1 .. BlockLen |-> 0]
    /\ res = NoResult
    /\ calls = 0
    /\ faults = {}
    /\ sent = <<>>

-----------------------------------------------------------------------------
\* No byte is under way and the target waits for one.
Quiet == toTarget = <<>> /\ tx = <<>>

\* The host's wait of a timeout is over.
TimesOut == Slow \/ Quiet

\* reset_comms begins: two FRAME_BYTEs, then its sleep; k is where it returns.
ResetComms(k) ==
    /\ toTarget' = toTarget \o <<FRAME_BYTE, FRAME_BYTE>>
    /\ hpc' = "reset"
    /\ ret' = k

\* Slip: nothing is flushed.
FlushOnErrorNever(k) == toTarget' = toTarget /\ hpc' = k[1] /\ ret' = Tail(k)

\* flush_on_error with nothing to do returns at once.
FlushOnError(k) ==
    IF flush_on_err
      THEN ResetComms(<<"flush">> \o k)
      ELSE toTarget' = toTarget /\ hpc' = k[1] /\ ret' = Tail(k)

Con ==
    /\ hpc = "con"
    /\ ResetComms(<<"connected">>)
    /\ UNCHANGED <<toHost, targetVars, cur, expect, resp, flush_on_err, tmp,
                   last_key, res, calls, sent, faults>>

\* After the sleep of reset_comms: flush while something is waiting.
ResetPoll ==
    /\ hpc = "reset"
    /\ "reset" \in Settles => Quiet
    /\ IF toHost # <<>>
         THEN toHost' = <<>> /\ UNCHANGED <<hpc, ret>>
         ELSE toHost' = toHost /\ hpc' = ret[1] /\ ret' = Tail(ret)
    /\ UNCHANGED <<toTarget, targetVars, cur, expect, resp, flush_on_err, tmp,
                   last_key, res, calls, sent, faults>>

\* The second half of flush_on_error: sleep, then drop what has come in.
Flush ==
    /\ hpc = "flush"
    /\ "flush" \in Settles => Quiet
    /\ toHost' = <<>>
    /\ hpc' = ret[1]
    /\ ret' = Tail(ret)
    /\ UNCHANGED <<toTarget, targetVars, cur, expect, resp, flush_on_err, tmp,
                   last_key, res, calls, sent, faults>>

\* con() flushes once more and returns.
Connected ==
    /\ hpc = "connected"
    /\ toHost' = <<>>
    /\ hpc' = "idle"
    /\ UNCHANGED <<toTarget, targetVars, cur, expect, resp, ret, flush_on_err, tmp,
                   last_key, res, calls, sent, faults>>

-----------------------------------------------------------------------------
\* read_cmd begins: it will read five bytes first.
ReadCmd(c) ==
    /\ hpc' = "first"
    /\ expect' = c
    /\ resp' = <<>>

\* send_cmd.
Write(q) ==
    /\ toTarget' = toTarget \o CommandFrame(q.cmd, q.scmd, q.data)
    /\ sent' = Append(sent, q)

\* simpleserial_write('p', ..), then simpleserial_read('r', ..).
CallEncrypt(q) ==
    /\ q.call = "pt"
    /\ Write(q)
    /\ ReadCmd(RESPONSE)
    /\ UNCHANGED <<toHost, ret, flush_on_err, tmp, last_key>>

\* The same with simpleserial_read_witherrors('r', ..), given the length of the
\* payload or ("errs3") not.
WithErrors == {"errs", "errs3"}
CallWithErrors(q) ==
    /\ q.call \in WithErrors
    /\ Write(q)
    /\ hpc' = q.call
    /\ UNCHANGED <<toHost, expect, resp, ret, flush_on_err, tmp, last_key>>

\* A command the target does not know, then simpleserial_wait_ack().
CallUnknown(q) ==
    /\ q.call = "bad"
    /\ Write(q)
    /\ ReadCmd(ACK)
    /\ UNCHANGED <<toHost, ret, flush_on_err, tmp, last_key>>

\* get_simpleserial_commands(flush_on_err=False): flush, 'w', read_cmd('r')
\* which overrides self._flush_on_err for its own duration.
CallCommands(q) ==
    /\ q.call = "list"
    /\ toHost' = <<>>
    /\ Write(q)
    /\ ReadCmd(RESPONSE)
    /\ flush_on_err' = FALSE
    /\ tmp' = flush_on_err
    /\ UNCHANGED <<ret, last_key>>

\* set_key: nothing is sent when the key is self.last_key, which con() and
\* __init__ leave at bytearray(16).
CallSetKey(q) ==
    /\ q.call = "key"
    /\ IF last_key # q.data
         THEN ResetComms(<<"sendkey">>)
         ELSE UNCHANGED <<toTarget, hpc, ret>>
    /\ UNCHANGED <<toHost, expect, resp, flush_on_err, tmp, last_key, sent>>

Call ==
    /\ hpc = "idle"
    /\ calls < MaxCalls
    /\ calls' = calls + 1
    /\ \E q \in Requests :
         /\ \/ CallEncrypt(q) \/ CallWithErrors(q) \/ CallUnknown(q)
            \/ CallCommands(q) \/ CallSetKey(q)
         /\ cur' = q
    /\ res' = NoResult
    /\ UNCHANGED <<targetVars, faults>>

SendKey ==
    /\ hpc = "sendkey"
    /\ last_key' = cur.data
    /\ Write(cur)
    /\ ReadCmd(ACK)
    /\ UNCHANGED <<toHost, targetVars, cur, ret, flush_on_err, tmp, res, calls, faults>>

-----------------------------------------------------------------------------
\* read_cmd returns nothing; what its caller then does.  Only read_cmd of
\* get_simpleserial_commands has overridden flush_on_err.
ReadFailed ==
    /\ FlushOnError(<<IF expect = ACK /\ cur.call = "key" THEN "rekey"
                      ELSE IF expect = RESPONSE /\ cur.call = "list" THEN "listack"
                      ELSE IF cur.call \in WithErrors THEN "drain"
                      ELSE "idle">>)
    /\ UNCHANGED <<res, flush_on_err, expect, resp>>

\* The caller of read_cmd with the packet it returned.
ReadReturns(pkt) ==
    IF expect = RESPONSE
      THEN \* simpleserial_read and get_simpleserial_commands: the ack is next.
           /\ res' = [res EXCEPT !.payload = SubSeq(pkt, 4, Len(pkt) - 2),
                                 !.packet = pkt[2]]
           /\ ReadCmd(ACK)
           /\ UNCHANGED <<toTarget, ret>>
      ELSE \* simpleserial_wait_ack; get_simpleserial_commands ignores the code.
           /\ res' = [res EXCEPT !.ack = pkt[4]]
           /\ IF pkt[4] # SS_ERR_OK /\ cur.call # "list"
                THEN FlushOnError(<<"idle">>)
                ELSE hpc' = "idle" /\ UNCHANGED <<toTarget, ret>>
           /\ UNCHANGED <<expect, resp>>

\* A read_cmd that gets to its end puts flush_on_err back.
Restored == IF cur.call = "list" /\ expect = RESPONSE THEN tmp ELSE flush_on_err

\* A packet of another command that looks like a one-byte error packet.
LooksLikeError(buf) ==
    LET u == HostUnstuffData(buf) IN buf[2] # expect /\ u[2] = ACK /\ u[3] = 1

\* The first read of read_cmd, five bytes.
FirstRead ==
    /\ hpc = "first"
    /\ Len(toHost) >= 5
    /\ LET buf == SubSeq(toHost, 1, 5) IN
         /\ hpc' = IF LooksLikeError(buf) THEN "errorbyte" ELSE "second"
         /\ resp' = buf
    /\ toHost' = SubSeq(toHost, 6, Len(toHost))
    /\ UNCHANGED <<toTarget, targetVars, cur, expect, ret, flush_on_err, tmp,
                   last_key, res, calls, sent, faults>>

FirstTimeout ==
    /\ hpc = "first"
    /\ Len(toHost) < 5
    /\ TimesOut
    /\ toHost' = <<>>
    /\ ReadFailed
    /\ UNCHANGED <<targetVars, cur, tmp, last_key, calls, sent, faults>>

\* The sixth byte of an error packet, or nothing; read_cmd returns the packet
\* without restoring flush_on_err.
ErrorByte ==
    /\ hpc = "errorbyte"
    /\ toHost # <<>> \/ TimesOut
    /\ LET n == IF toHost = <<>> THEN 0 ELSE 1 IN
         /\ toHost' = SubSeq(toHost, n + 1, Len(toHost))
         /\ ReadReturns(HostUnstuffData(resp) \o SubSeq(toHost, 1, n))
    /\ UNCHANGED <<targetVars, cur, flush_on_err, tmp, last_key, calls, sent, faults>>

\* The second read: as many bytes as the packet's length field says.  A length
\* of 0 makes read() take whatever is waiting.
Dlen == resp[3]

SecondRead ==
    /\ hpc = "second"
    /\ Dlen > 0
    /\ Len(toHost) >= Dlen
    /\ toHost' = SubSeq(toHost, Dlen + 1, Len(toHost))
    /\ flush_on_err' = Restored
    /\ ReadReturns(HostUnstuffData(resp \o SubSeq(toHost, 1, Dlen)))
    /\ UNCHANGED <<targetVars, cur, tmp, last_key, calls, sent, faults>>

SecondTimeout ==
    /\ hpc = "second"
    /\ IF Dlen > 0 THEN Len(toHost) < Dlen /\ TimesOut ELSE toHost # <<>>
    /\ toHost' = <<>>
    /\ ReadFailed
    /\ UNCHANGED <<targetVars, cur, tmp, last_key, calls, sent, faults>>

\* A length of 0 and nothing waiting: x[-1] raises IndexError, which
\* simpleserial_read and simpleserial_read_witherrors swallow while they wait
\* for the ack.
SecondRaises ==
    /\ hpc = "second"
    /\ Dlen = 0 /\ toHost = <<>>
    /\ hpc' = IF cur.call \in WithErrors THEN "drain" ELSE "idle"
    /\ UNCHANGED <<channels, targetVars, cur, expect, resp, ret, flush_on_err, tmp,
                   last_key, res, calls, sent, faults>>

\* get_simpleserial_commands waits for the ack even when read_cmd failed.
ListAck ==
    /\ hpc = "listack"
    /\ ReadCmd(ACK)
    /\ UNCHANGED <<channels, targetVars, cur, ret, flush_on_err, tmp, last_key,
                   res, calls, sent, faults>>

\* set_key without an ack resets once more.
Rekey ==
    /\ hpc = "rekey"
    /\ ResetComms(<<"idle">>)
    /\ UNCHANGED <<toHost, targetVars, cur, expect, resp, flush_on_err, tmp,
                   last_key, res, calls, sent, faults>>

-----------------------------------------------------------------------------
\* simpleserial_read_witherrors.  read(n): its bytes, or fewer after the timeout.
Reads(n) == Len(toHost) >= n \/ TimesOut
Drop(n) == toHost' = SubSeq(toHost, n + 1, Len(toHost))

\* Slip: as in read_cmd, a wrong CRC is only warned about.
JudgeNoCrc(pkt) ==
    IF /\ pkt[3] = Len(pkt) - 5
       /\ pkt[Len(pkt)] = FRAME_BYTE
      THEN /\ res' = [res EXCEPT !.payload = SubSeq(pkt, 4, Len(pkt) - 2),
                                 !.packet = pkt[2]]
           /\ ReadCmd(ACK)
      ELSE hpc' = "drain" /\ UNCHANGED <<res, expect, resp>>

\* A packet whose length, CRC and end are right is followed by the ack; its
\* command is only warned about.
Judge(pkt) ==
    IF /\ pkt[3] = Len(pkt) - 5
       /\ pkt[Len(pkt) - 1] = Crc(SubSeq(pkt, 2, Len(pkt) - 2))
       /\ pkt[Len(pkt)] = FRAME_BYTE
      THEN /\ res' = [res EXCEPT !.payload = SubSeq(pkt, 4, Len(pkt) - 2),
                                 !.packet = pkt[2]]
           /\ ReadCmd(ACK)
      ELSE hpc' = "drain" /\ UNCHANGED <<res, expect, resp>>

\* With the length of the payload it is one read ...
ErrsRead ==
    /\ hpc = "errs"
    /\ LET n == 5 + Len(cur.data) IN
         /\ Reads(n) /\ Drop(n)
         /\ IF Len(toHost) >= n
              THEN Judge(HostUnstuffData(SubSeq(toHost, 1, n)))
              ELSE hpc' = "drain" /\ UNCHANGED <<res, expect, resp>>
    /\ UNCHANGED <<toTarget, targetVars, cur, ret, flush_on_err, tmp, last_key,
                   calls, sent, faults>>

\* ... without it first three bytes ...
ErrsHeader ==
    /\ hpc = "errs3"
    /\ Reads(3) /\ Drop(3)
    /\ LET buf == SubSeq(toHost, 1, 3) IN
       IF Len(toHost) >= 3 /\ FRAME_BYTE \notin Range(buf)
         THEN hpc' = "errs4" /\ resp' = buf
         ELSE hpc' = "drain" /\ resp' = resp
    /\ UNCHANGED <<toTarget, targetVars, cur, expect, ret, flush_on_err, tmp,
                   last_key, res, calls, sent, faults>>

\* ... then the rest, unstuffed from where the codes of the first three lead.
ErrsRest ==
    /\ hpc = "errs4"
    /\ LET head == HostUnstuff(resp)
           n == head.buf[3] + 2
           raw == head.buf \o SubSeq(toHost, 1, n)
           k == Min({head.next, Len(raw)})
       IN  /\ Reads(n) /\ Drop(n)
           /\ IF Len(toHost) >= n /\ FRAME_BYTE \notin Range(SubSeq(raw, 4, Len(raw) - 1))
                THEN Judge(SubSeq(raw, 1, k) \o HostUnstuffData(SubSeq(raw, k + 1, Len(raw))))
                ELSE hpc' = "drain" /\ UNCHANGED <<res, expect, resp>>
    /\ UNCHANGED <<toTarget, targetVars, cur, ret, flush_on_err, tmp, last_key,
                   calls, sent, faults>>

\* An answer that is not valid: whatever else comes before the glitch_timeout
\* is taken, too, and no payload returned.
Drain ==
    /\ hpc = "drain"
    /\ "glitch" \in Settles => Quiet
    /\ toHost' = <<>>
    /\ res' = NoResult
    /\ hpc' = "idle"
    /\ UNCHANGED <<toTarget, targetVars, cur, expect, resp, ret, flush_on_err, tmp,
                   last_key, calls, sent, faults>>

\* The steps of a call in progress.
Host ==
    \/ Con \/ ResetPoll \/ Flush \/ Connected \/ SendKey \/ FirstRead
    \/ FirstTimeout \/ ErrorByte \/ SecondRead \/ SecondTimeout \/ SecondRaises
    \/ ListAck \/ Rekey \/ ErrsRead \/ ErrsHeader \/ ErrsRest \/ Drain

-----------------------------------------------------------------------------
Target ==
    /\ Getch \/ Putch
    /\ UNCHANGED <<hostVars, faults>>

\* The target's receiver holds one byte: what arrives while it writes is lost.
Overrun ==
    /\ tx # <<>> /\ toTarget # <<>>
    /\ toTarget' = Tail(toTarget)
    /\ toHost' = toHost

\* Noise on the line to the target; the receive buffer on the way to the host
\* is full.
GarbleToTarget ==
    /\ toTarget # <<>>
    /\ \E b \in {FRAME_BYTE, 255} : toTarget' = [toTarget EXCEPT ![1] = b]
    /\ toHost' = toHost

LoseToHost ==
    /\ toHost # <<>>
    /\ toHost' = Front(toHost)
    /\ toTarget' = toTarget

\* Noise on the line to the host, at its worst where it makes a FRAME_BYTE: a
\* length, a code of the stuffing or a return code becomes 0.
GarbleToHost ==
    /\ toHost # <<>>
    /\ toHost' = [toHost EXCEPT ![Len(toHost)] = FRAME_BYTE]
    /\ toTarget' = toTarget

Fault ==
    /\ Cardinality(faults) < MaxFaults
    /\ \E kind \in Faults \ faults :
         /\ faults' = faults \cup {kind}
         /\ \/ kind = "overrun" /\ Overrun
            \/ kind = "noise" /\ GarbleToTarget
            \/ kind = "loss" /\ LoseToHost
            \/ kind = "garble" /\ GarbleToHost
    /\ UNCHANGED <<targetVars, hostVars>>

Done ==
    /\ hpc = "idle" /\ calls = MaxCalls /\ Quiet
    /\ UNCHANGED vars

Next == Call \/ Host \/ Target \/ Fault \/ Done

\* A call in progress and the target's main loop keep running; the user need
\* not make another call.
Fairness == WF_vars(Host) /\ WF_vars(Target)

Spec == Init /\ [][Next]_vars /\ Fairness

-----------------------------------------------------------------------------
Points == {"con", "reset", "flush", "connected", "idle", "sendkey", "first",
           "second", "errorbyte", "listack", "rekey", "errs", "errs3", "errs4", "drain"}

\* Types, and how much each side has buffered at which point.
TypeOK ==
    /\ toTarget \in Seq(Byte) /\ toHost \in Seq(Byte)
    /\ data_buf \in Seq(Byte) /\ next_frame \in Byte
    /\ Len(data_buf) < 4 => next_frame = 0
    /\ tx \in Seq(Byte) /\ key \in Seq(Byte)
    /\ hpc \in Points
    /\ expect \in {None, RESPONSE, ACK}
    /\ resp \in Seq(Byte) /\ Len(resp) \in {0, 3, 5}
    /\ ret \in Seq(Points)
    /\ flush_on_err \in BOOLEAN /\ tmp \in BOOLEAN
    /\ last_key \in Seq(Byte)
    /\ calls \in 0 .. MaxCalls
    /\ faults \in SUBSET Faults

\* simpleserial_get never waits in the middle of a frame for bytes that are
\* not coming: once con() has sent its FRAME_BYTEs, a target that has read
\* everything is at the start of a frame, whatever it was sent and whatever
\* errors it met on the way.  (A byte that is garbled may be the FRAME_BYTE.)
Noisy == "noise" \in faults
TargetInStep == ~Noisy /\ hpc # "con" /\ toTarget = <<>> => data_buf = <<>>

\* "It's easy to reset communications by sending frame bytes": the getch of a
\* FRAME_BYTE, at whatever place of whatever garbage the target takes for a
\* frame, ends the simpleserial_get in progress.
FrameByteResyncs ==
    [][Getch /\ Head(toTarget) = FRAME_BYTE => data_buf' = <<>> /\ tx' # <<>>]_vars

\* Noise on the way to the host is noticed by simpleserial_read_witherrors only:
\* a length that has become 0 makes read_cmd raise without a reset.
Checked == "garble" \notin faults \/ cur.call \in WithErrors

\* No call is in progress, and none has left the flushing of errors switched
\* off: get_simpleserial_commands may, see FlushAsConnected.
Idle == hpc = "idle" /\ flush_on_err

\* When no call is in progress and the line is quiet, both ends are in step:
\* the target is at the start of a frame and the host has no stale byte.
InStep == ~Noisy /\ Idle /\ Checked /\ Quiet => data_buf = <<>> /\ toHost = <<>>

\* A call that returns the code OK had its own command run, by the target, to
\* the end.  (Noise can make any code an OK, as simpleserial_wait_ack only warns
\* of a wrong CRC.)
OkMeansRan ==
    Idle /\ Checked /\ res.ack = SS_ERR_OK
        => /\ ran # <<>>
           /\ LET q == Last(ran) IN
              q.cmd = cur.cmd /\ q.scmd = cur.scmd /\ q.data = cur.data

\* The link keeps the promise of CallLink: what runs was sent, in order and
\* once; an 'r' packet and a code OK that a call returns are those of its own
\* command, run last of all; and every call comes back.  (read_cmd only warns of
\* a wrong CRC, so a packet damaged on the way comes back as it is;
\* simpleserial_read_witherrors does not take it.)
Plain(q) == [cmd |-> <<q.cmd, q.scmd>>, data |-> q.data]
Link == INSTANCE CallLink WITH
    Requests <- {Plain(q) : q \in AllRequests},
    Echo <- {<<CMD_AES, 1>>},
    open <- hpc # "idle",
    sent <- [k \in DOMAIN sent |-> Plain(sent[k])],
    ran <- [k \in DOMAIN ran |-> Plain(ran[k])],
    doubt <- (faults \cap {"loss", "garble"} # {} /\ cur.call \notin WithErrors)
             \/ ~flush_on_err,
    result <- [payload |-> IF hpc = "idle" /\ res.packet = RESPONSE
                             THEN res.payload ELSE <<>>,
               code |-> IF hpc = "idle" /\ res.ack = SS_ERR_OK
                          THEN res.ack ELSE None]
Promise == Link!Spec

\* set_key, SimpleSerial2.py:753: "Checks if key is different than the last one
\* sent. If so, send it." - so the key it was given has been sent.
KeyWasSent ==
    hpc = "idle" /\ cur.call = "key"
        => \E j \in 1 .. Len(sent) : sent[j].data = cur.data

\* read_cmd, SimpleSerial2.py:527: "If None, determine via whether or not
\* flush_on_err was True or False when passed to con()" - so between calls what
\* con() was given is in force.
FlushAsConnected == hpc = "idle" => flush_on_err = ConFlush
=============================================================================
