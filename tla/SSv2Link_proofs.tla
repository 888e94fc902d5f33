-------------------------- MODULE SSv2Link_proofs --------------------------
(***************************************************************************)
(* Both ends of a SimpleSerial v2.1 link stay in step, for all calls,      *)
(* keys, plaintexts and leftovers.                                         *)
(*                                                                         *)
(* The target (TargetInStep) finds back to the start of a frame, with      *)
(* bytes lost anywhere, as long as none has been garbled on the way to it: *)
(* whatever the host writes ends in a FRAME_BYTE, a byte may be missed but *)
(* only from the front and while the target answers, and the getch of a    *)
(* FRAME_BYTE ends the frame in progress, whatever that is.                *)
(*                                                                         *)
(* Both ends (InStep, OkMeansRan) are in step on a line without faults: at *)
(* each point of a call the host has read a known part of the answer to    *)
(* its own command, and the rest is on its way or still to be computed.    *)
(***************************************************************************)
EXTENDS SSv2Link, SSv2Frame_proofs

\* What a request may be when it is written.
Writable == AllRequests \cup {NoRequest}
FrameOf(q) == CommandFrame(q.cmd, q.scmd, q.data)

\* The line to the target: it ends in a FRAME_BYTE, or it is empty and the
\* target is at the start of a frame.
Ends(s) == s # <<>> /\ s[Len(s)] = FRAME_BYTE
Aligned ==
    ~Noisy /\ hpc # "con" =>
        IF toTarget = <<>> THEN data_buf = <<>> ELSE Ends(toTarget)

LineInv ==
    /\ toTarget \in Seq(Byte)
    /\ cur \in Writable
    /\ tx # <<>> => data_buf = <<>>
    /\ Aligned

-----------------------------------------------------------------------------
(* Sequences that end in FRAME_BYTE.                                         *)
LEMMA EndsConcat ==
    ASSUME NEW S, NEW s \in Seq(S), NEW t \in Seq(S), Ends(t)
    PROVE  s \o t \in Seq(S) /\ Ends(s \o t)
<1>1. /\ s \o t \in Seq(S)
      /\ Len(s \o t) = Len(s) + Len(t)
      /\ \A k \in 1 .. Len(s) + Len(t) :
            (s \o t)[k] = IF k <= Len(s) THEN s[k] ELSE t[k - Len(s)]
  BY ConcatProperties
<1>2. Len(s) \in Nat /\ Len(t) \in Nat /\ Len(t) > 0
  BY EmptySeq, LenProperties DEF Ends
<1>3. (s \o t)[Len(s) + Len(t)] = t[Len(t)]
  BY <1>1, <1>2
<1>4. s \o t # <<>>
  BY <1>1, <1>2, EmptySeq
<1> QED BY <1>1, <1>3, <1>4 DEF Ends

(* What is left when a byte is taken from the front.                         *)
LEMMA EndsTail ==
    ASSUME NEW S, NEW s \in Seq(S), s # <<>>
    PROVE  /\ Tail(s) \in Seq(S)
           /\ Ends(s) /\ Tail(s) # <<>> => Ends(Tail(s))
           /\ Ends(s) /\ Tail(s) = <<>> => Head(s) = FRAME_BYTE
<1>1. /\ Tail(s) \in Seq(S) /\ Len(Tail(s)) = Len(s) - 1
      /\ \A k \in 1 .. Len(Tail(s)) : Tail(s)[k] = s[k + 1]
      /\ Len(s) \in Nat \ {0}
  BY HeadTailProperties, EmptySeq
<1>2. ASSUME Tail(s) # <<>>
      PROVE  Tail(s)[Len(Tail(s))] = s[Len(s)]
  <2>1. Len(Tail(s)) \in Nat \ {0}
    BY <1>1, <1>2, EmptySeq
  <2> QED BY <1>1, <2>1
<1>3. ASSUME Tail(s) = <<>>
      PROVE  Head(s) = s[Len(s)]
  <2>1. Len(<<>>) = 0
    OBVIOUS
  <2>2. Len(Tail(s)) = 0
    BY <1>3, <2>1
  <2>3. Len(s) \in Nat /\ Len(s) - 1 = 0
    BY <1>1, <2>2
  <2>4. \A n \in Nat : n - 1 = 0 => n = 1
    OBVIOUS
  <2>5. Len(s) = 1
    BY <2>3, <2>4
  <2>6. Head(s) = s[1]
    BY HeadTailProperties
  <2> QED BY <2>5, <2>6
<1> QED BY <1>1, <1>2, <1>3 DEF Ends

(* Stuffing does not touch the last byte.                                    *)
LEMMA StuffEnds ==
    ASSUME NEW S, NEW s \in Seq(S), Ends(s)
    PROVE  /\ Stuff(s) = [k \in 1 .. Len(s) |-> Stuff(s)[k]]
           /\ Stuff(s)[Len(s)] = FRAME_BYTE
<1>1. Len(s) \in Nat \ {0} /\ s[Len(s)] = FRAME_BYTE
  BY EmptySeq DEF Ends
<1>2. {j \in Len(s) + 1 .. Len(s) : s[j] = FRAME_BYTE} = {}
  BY <1>1
<1> QED BY <1>1, <1>2 DEF Stuff

(* A request has a payload that fits a frame.                                *)
LEMMA RequestType ==
    ASSUME NEW q \in Writable
    PROVE  /\ q.cmd \in Byte /\ q.scmd \in Byte
           /\ q.data \in Seq(Byte) /\ Len(q.data) <= 243
<1>1. q.data \in Range(Plaintexts) \cup Keys \cup {<<>>}
  BY DEF Writable, AllRequests, NoRequest
<1>2. Range(Plaintexts) \subseteq Seq(Byte)
  BY PlaintextsAssumption, ElementOfSeq, LenProperties DEF Range
<1>3. <<>> \in Seq(Byte) /\ Len(<<>>) <= 243
  BY EmptySeq
<1>4. q.data \in Seq(Byte)
  BY <1>1, <1>2, <1>3, KeysAssumption
<1>5. ASSUME q.data \in Range(Plaintexts) \cup Keys
      PROVE  Len(q.data) <= 243
  <2>1. Len(q.data) + 6 <= 249
    BY <1>5, FitsAssumption DEF MAX_SS_LEN
  <2>2. Len(q.data) \in Nat
    BY <1>4, LenProperties
  <2> QED BY <2>1, <2>2
<1>6. 0 \in Byte /\ 1 \in Byte /\ 2 \in Byte /\ 119 \in Byte
  BY ByteFacts
<1>7. q.cmd \in {0, CMD_AES, CMD_COMMANDS} \cup Unknown /\ q.scmd \in {0, 1, 2}
  BY DEF Writable, AllRequests, NoRequest
<1>8. q.cmd \in Byte /\ q.scmd \in Byte
  BY <1>6, <1>7, UnknownAssumption DEF CMD_AES, CMD_COMMANDS
<1> QED BY <1>1, <1>3, <1>4, <1>5, <1>8

(* A frame the host writes is not empty and ends in FRAME_BYTE.              *)
LEMMA FrameEnds ==
    ASSUME NEW q \in Writable
    PROVE  FrameOf(q) \in Seq(Byte) /\ Ends(FrameOf(q))
<1> DEFINE body == <<q.cmd, q.scmd, Len(q.data)>> \o q.data
           tail == <<Crc(body), FRAME_BYTE>>
           s == <<0>> \o body \o tail
<1>1. FrameOf(q) \in Seq(Byte) /\ FrameOf(q) # <<>>
  BY RequestType, FrameType DEF FrameOf
<1>2. body \in Seq(Byte)
  <2>1. q.cmd \in Byte /\ q.scmd \in Byte /\ q.data \in Seq(Byte) /\ Len(q.data) \in Byte
    BY RequestType, ByteFacts, LenProperties
  <2>2. <<q.cmd, q.scmd, Len(q.data)>> \in Seq(Byte)
    BY <2>1
  <2> QED BY <2>1, <2>2, ConcatProperties
<1>3. tail \in Seq(Byte) /\ Ends(tail)
  <2>1. Crc(body) \in Byte /\ FRAME_BYTE \in Byte
    BY <1>2, CrcType, ByteFacts
  <2> QED BY <2>1 DEF Ends
<1>4. <<0>> \in Seq(Byte)
  BY ByteFacts DEF FRAME_BYTE
<1>5. FrameOf(q) = Stuff(s)
  BY DEF FrameOf, CommandFrame, Packet
<1> HIDE DEF body, tail
<1>6. <<0>> \o body \in Seq(Byte)
  BY <1>2, <1>4, ConcatProperties
<1>7. s \in Seq(Byte) /\ Ends(s)
  BY <1>3, <1>6, EndsConcat
<1> HIDE DEF s
<1>8. /\ FrameOf(q) = [k \in 1 .. Len(s) |-> FrameOf(q)[k]]
      /\ FrameOf(q)[Len(s)] = FRAME_BYTE
  BY <1>5, <1>7, StuffEnds
<1>9. Len(FrameOf(q)) = Len(s)
  <2>1. DOMAIN FrameOf(q) = 1 .. Len(s) /\ Len(s) \in Nat
    BY <1>7, <1>8, LenProperties
  <2>2. DOMAIN FrameOf(q) = 1 .. Len(FrameOf(q)) /\ Len(FrameOf(q)) \in Nat
    BY <1>1, LenProperties
  <2> QED BY <2>1, <2>2
<1> QED BY <1>1, <1>8, <1>9 DEF Ends

-----------------------------------------------------------------------------
(* What the host can do to the line keeps it ending in a FRAME_BYTE.         *)
LEMMA WriteKeeps ==
    ASSUME LineInv, NEW q \in Writable, Write(q), UNCHANGED <<data_buf, faults>>
    PROVE  toTarget' \in Seq(Byte) /\ Aligned'
<1>1. toTarget' = toTarget \o FrameOf(q)
  BY DEF Write, FrameOf
<1>2. toTarget' \in Seq(Byte) /\ Ends(toTarget')
  BY <1>1, FrameEnds, EndsConcat DEF LineInv
<1> QED BY <1>2 DEF Aligned, Ends

(* reset_comms leaves a FRAME_BYTE at the end of the line. *)
LEMMA ResetKeeps ==
    ASSUME LineInv, NEW k, ResetComms(k)
    PROVE  toTarget' \in Seq(Byte) /\ Aligned'
<1>1. <<FRAME_BYTE, FRAME_BYTE>> \in Seq(Byte) /\ Ends(<<FRAME_BYTE, FRAME_BYTE>>)
  BY DEF Ends, Byte, FRAME_BYTE
<1>2. toTarget' \in Seq(Byte) /\ Ends(toTarget')
  BY <1>1, EndsConcat DEF LineInv, ResetComms
<1> QED BY <1>2 DEF Aligned, Ends

(* A step that leaves the line and the target alone keeps them aligned. *)
LEMMA IdleKeeps ==
    ASSUME LineInv, hpc # "con", UNCHANGED <<toTarget, data_buf, faults>>
    PROVE  toTarget' \in Seq(Byte) /\ Aligned'
BY DEF LineInv, Aligned, Noisy, Ends

(* flush_on_error resets or does nothing. *)
LEMMA FlushKeeps ==
    ASSUME LineInv, hpc # "con", NEW k, FlushOnError(k), UNCHANGED <<data_buf, faults>>
    PROVE  toTarget' \in Seq(Byte) /\ Aligned'
BY ResetKeeps, IdleKeeps DEF FlushOnError

(* Every step of the host.                                                   *)
LEMMA HostStep == LineInv /\ Host => LineInv'
<1> SUFFICES ASSUME LineInv, Host PROVE LineInv'
  OBVIOUS
<1>1. UNCHANGED <<data_buf, tx, cur, faults>>
  BY DEF Host, Con, ResetPoll, Flush, Connected, SendKey, FirstRead, FirstTimeout,
         ErrorByte, SecondRead, SecondTimeout, SecondRaises, ListAck, Rekey,
         ErrsRead, ErrsHeader, ErrsRest, Drain, Judge, targetVars
<1>2. toTarget' \in Seq(Byte) /\ Aligned'
  <2>1. CASE Con
    BY <2>1, ResetKeeps DEF Con
  <2>2. CASE ResetPoll
    BY <1>1, <2>2, IdleKeeps DEF ResetPoll
  <2>3. CASE Flush
    BY <1>1, <2>3, IdleKeeps DEF Flush
  <2>4. CASE Connected
    BY <1>1, <2>4, IdleKeeps DEF Connected
  <2>5. CASE SendKey
    BY <1>1, <2>5, WriteKeeps DEF SendKey, LineInv
  <2>6. CASE FirstRead
    BY <1>1, <2>6, IdleKeeps DEF FirstRead
  <2>7. CASE FirstTimeout
    BY <1>1, <2>7, FlushKeeps DEF FirstTimeout, ReadFailed
  <2>8. CASE ErrorByte
    <3>1. PICK pkt : ReadReturns(pkt)
      BY <2>8 DEF ErrorByte
    <3> QED BY <1>1, <2>8, <3>1, FlushKeeps, IdleKeeps DEF ErrorByte, ReadReturns
  <2>9. CASE SecondRead
    <3>1. PICK pkt : ReadReturns(pkt)
      BY <2>9 DEF SecondRead
    <3> QED BY <1>1, <2>9, <3>1, FlushKeeps, IdleKeeps DEF SecondRead, ReadReturns
  <2>10. CASE SecondTimeout
    BY <1>1, <2>10, FlushKeeps DEF SecondTimeout, ReadFailed
  <2>11. CASE SecondRaises
    BY <1>1, <2>11, IdleKeeps DEF SecondRaises, channels
  <2>12. CASE ListAck
    BY <1>1, <2>12, IdleKeeps DEF ListAck, channels
  <2>13. CASE Rekey
    BY <2>13, ResetKeeps DEF Rekey
  <2>14. CASE ErrsRead \/ ErrsHeader \/ ErrsRest \/ Drain
    BY <1>1, <2>14, IdleKeeps DEF ErrsRead, ErrsHeader, ErrsRest, Drain
  <2> QED
    BY <2>1, <2>2, <2>3, <2>4, <2>5, <2>6, <2>7, <2>8, <2>9, <2>10, <2>11, <2>12,
       <2>13, <2>14
    DEF Host
<1> QED BY <1>1, <1>2 DEF LineInv

(* The user begins a call.                                                   *)
LEMMA CallStep == LineInv /\ Call => LineInv'
<1> SUFFICES ASSUME LineInv, Call PROVE LineInv'
  OBVIOUS
<1>1. PICK q \in Requests :
        /\ \/ CallEncrypt(q) \/ CallWithErrors(q) \/ CallUnknown(q)
           \/ CallCommands(q) \/ CallSetKey(q)
        /\ cur' = q
  BY DEF Call
<1>2. q \in Writable /\ cur' \in Writable
  BY <1>1 DEF Requests, Writable
<1>3. UNCHANGED <<data_buf, tx, faults>> /\ hpc # "con"
  BY DEF Call, targetVars
<1>4. toTarget' \in Seq(Byte) /\ Aligned'
  BY <1>1, <1>2, <1>3, WriteKeeps, ResetKeeps, IdleKeeps
  DEF CallEncrypt, CallWithErrors, CallUnknown, CallCommands, CallSetKey
<1> QED BY <1>2, <1>3, <1>4 DEF LineInv

-----------------------------------------------------------------------------
(* The target reads a byte.  A FRAME_BYTE ends the frame in progress, and a  *)
(* target that answers has nothing in its buffer.                            *)
LEMMA GetchClears ==
    ASSUME Getch
    PROVE  /\ Head(toTarget) = FRAME_BYTE => data_buf' = <<>>
           /\ tx' # <<>> => data_buf' = <<>>
<1> DEFINE c == Head(toTarget)
           buf == Append(data_buf, c)
           i == Len(data_buf)
<1>1. tx = <<>>
  BY DEF Getch
<1>2. ASSUME NEW err, Fail(err) PROVE data_buf' = <<>>
  BY <1>2 DEF Fail
<1>3. ASSUME Frame(buf) PROVE data_buf' = <<>>
  BY <1>2, <1>3 DEF Frame
<1>4. ASSUME Wait(buf) PROVE tx' = <<>>
  BY <1>1, <1>4 DEF Wait
<1>5. ASSUME Header(buf) PROVE tx' = <<>> \/ data_buf' = <<>>
  BY <1>1, <1>2, <1>5 DEF Header
<1>6. IF i < 4
        THEN IF c = FRAME_BYTE THEN Fail(SS_ERR_FRAME_BYTE)
             ELSE IF i < 3 THEN Wait(buf) ELSE Header(buf)
      ELSE IF i < data_buf[4] + 5
        THEN IF c = FRAME_BYTE THEN Fail(SS_ERR_FRAME_BYTE) ELSE Wait(buf)
      ELSE IF c # FRAME_BYTE THEN Fail(SS_ERR_LEN) ELSE Frame(buf)
  BY DEF Getch
<1> HIDE DEF buf, i, c
<1>7. /\ c = FRAME_BYTE => data_buf' = <<>>
      /\ tx' # <<>> => data_buf' = <<>>
  BY <1>2, <1>3, <1>4, <1>5, <1>6
<1> QED BY <1>7 DEF c

(* The target reads or answers. *)
LEMMA TargetStep == LineInv /\ Target => LineInv'
<1> SUFFICES ASSUME LineInv, Target PROVE LineInv'
  OBVIOUS
<1>1. UNCHANGED <<hpc, cur, faults>>
  BY DEF Target, hostVars
<1>2. CASE Getch
  <2>1. toTarget \in Seq(Byte) /\ toTarget # <<>> /\ toTarget' = Tail(toTarget)
    BY <1>2 DEF Getch, LineInv
  <2>2. toTarget' \in Seq(Byte)
    BY <2>1, EndsTail
  <2>3. Aligned'
    BY <1>1, <1>2, <2>1, EndsTail, GetchClears DEF LineInv, Aligned, Noisy
  <2> QED BY <1>1, <1>2, <2>2, <2>3, GetchClears DEF LineInv
<1>3. CASE Putch
  BY <1>1, <1>3 DEF Putch, LineInv, Aligned, Noisy, Ends
<1> QED BY <1>2, <1>3 DEF Target

(* A byte is missed while the target answers, or lost on the way back.       *)
LEMMA FaultStep ==
    ASSUME LineInv, Fault
    PROVE  LineInv'
<1>1. UNCHANGED <<hpc, cur, tx, data_buf>>
  BY DEF Fault, targetVars, hostVars
<1>2. PICK kind \in Faults :
        /\ faults' = faults \cup {kind}
        /\ \/ kind = "overrun" /\ Overrun
           \/ kind = "noise" /\ GarbleToTarget
           \/ kind = "loss" /\ LoseToHost
           \/ kind = "garble" /\ GarbleToHost
  BY DEF Fault
<1>3. ~Noisy' => ~Noisy
  BY <1>2 DEF Noisy
<1>4. CASE Overrun
  <2>1. /\ toTarget \in Seq(Byte) /\ toTarget # <<>>
        /\ toTarget' = Tail(toTarget) /\ data_buf = <<>>
    BY <1>4 DEF Overrun, LineInv
  <2> QED BY <1>1, <1>3, <2>1, EndsTail DEF LineInv, Aligned
<1>5. CASE kind = "noise" /\ GarbleToTarget
  <2>1. Noisy'
    BY <1>2, <1>5 DEF Noisy
  <2>2. PICK b \in {FRAME_BYTE, 255} : toTarget' = [toTarget EXCEPT ![1] = b]
    BY <1>5 DEF GarbleToTarget
  <2>3. b \in Byte
    BY DEF Byte, FRAME_BYTE
  <2>4. toTarget' \in Seq(Byte)
    <3>1. toTarget \in Seq(Byte)
      BY DEF LineInv
    <3>2. toTarget' \in [1 .. Len(toTarget) -> Byte] /\ Len(toTarget) \in Nat
      BY <2>2, <2>3, <3>1, LenProperties
    <3> QED BY <3>2
  <2> QED BY <1>1, <2>1, <2>4 DEF LineInv, Aligned
<1>6. CASE LoseToHost \/ GarbleToHost
  BY <1>1, <1>3, <1>6 DEF LoseToHost, GarbleToHost, LineInv, Aligned, Ends
<1> QED BY <1>2, <1>4, <1>5, <1>6

-----------------------------------------------------------------------------
(* Before con() nothing is asked of the line. *)
LEMMA LineInitially == Init => LineInv
<1> SUFFICES ASSUME Init PROVE LineInv
  OBVIOUS
<1>1. toTarget \in Seq(Byte)
  BY LeftoversAssumption, SeqMonotonic DEF Init, Byte
<1> QED BY <1>1 DEF Init, TargetInit, LineInv, Aligned, Writable

(* Every step keeps the line. *)
LEMMA LineStep == LineInv /\ [Next]_vars => LineInv'
<1> SUFFICES ASSUME LineInv, [Next]_vars PROVE LineInv'
  OBVIOUS
<1>1. CASE UNCHANGED vars
  BY <1>1 DEF vars, channels, targetVars, hostVars, LineInv, Aligned, Noisy, Ends
<1>2. CASE Done
  BY <1>2 DEF Done, vars, channels, targetVars, hostVars, LineInv, Aligned, Noisy, Ends
<1> QED BY <1>1, <1>2, CallStep, HostStep, TargetStep, FaultStep DEF Next

(* However late the answers are and whatever is lost: once con() has sent    *)
(* its FRAME_BYTEs, a target that has read everything the host wrote waits   *)
(* at the start of a frame, not in the middle of one - unless a byte to it   *)
(* has been garbled.                                                         *)
THEOREM TargetFindsBack == Spec => []TargetInStep
<1>1. Init => LineInv
  BY LineInitially
<1>2. LineInv /\ [Next]_vars => LineInv'
  BY LineStep
<1>3. LineInv => TargetInStep
  BY DEF LineInv, Aligned, TargetInStep
<1> QED BY <1>1, <1>2, <1>3, PTL DEF Spec

-----------------------------------------------------------------------------
(* What the target has and reads: bytes, the header of the frame in progress *)
(* such that next_frame and what has come are inside the frame.              *)
Receiving ==
    IF Len(data_buf) < 4
      THEN next_frame = 0
      ELSE next_frame <= data_buf[4] + 5 /\ Len(data_buf) <= data_buf[4] + 5

TargetTypes ==
    /\ data_buf \in Seq(Byte) /\ next_frame \in Byte
    /\ tx \in Seq(Byte) /\ key \in Seq(Byte)
    /\ Receiving

(* The answer of simpleserial_get to an error. *)
LEMMA ErrorAnswer ==
    \A err \in 0 .. 5 : /\ ResponseFrame(ACK, <<err>>) \in Seq(Byte)
                        /\ ResponseFrame(ACK, <<err>>) # <<>>
<1> TAKE err \in 0 .. 5
<1>1. err \in Byte /\ ACK \in Byte
  BY DEF Byte, ACK
<1>2. <<err>> \in Seq(Byte) /\ Len(<<err>>) <= 250
  BY <1>1
<1> QED BY <1>1, <1>2, FrameType

(* A callback of the target answers bytes and leaves a key of bytes.         *)
LEMMA CallbackType ==
    ASSUME NEW cmd, NEW scmd \in Byte, NEW data \in Seq(Byte), key \in Seq(Byte)
    PROVE  /\ Callback(cmd, scmd, data).err \in 0 .. 5
           /\ Callback(cmd, scmd, data).put \in Seq(Byte)
           /\ Callback(cmd, scmd, data).key \in Seq(Byte)
<1> DEFINE cb == Callback(cmd, scmd, data)
           len == Len(data)
           isKey == (scmd \div 2) % 2 = 1
           isPt == scmd % 2 = 1
           keyLen == IF isKey THEN BlockLen ELSE 0
           reqLen == IF isPt THEN keyLen + BlockLen ELSE keyLen
           block == SubSeq(data, keyLen + 1, reqLen)
<1>1. RESPONSE \in Byte /\ CMD_VERSION \in Byte /\ CMD_COMMANDS \in Byte
      /\ CMD_AES \in Byte /\ SS_VER_2_1 \in Byte
  BY DEF Byte, RESPONSE, CMD_VERSION, CMD_COMMANDS, CMD_AES, SS_VER_2_1
<1>2. VersionResponse \in Seq(Byte)
  <2>1. <<SS_VER_2_1>> \in Seq(Byte) /\ Len(<<SS_VER_2_1>>) <= 250
    BY <1>1
  <2> QED BY <1>1, <2>1, FrameType DEF VersionResponse
<1>3. CommandsResponse \in Seq(Byte)
  <2>1. commands \in Seq(Byte) /\ Len(commands) <= 250
    BY <1>1 DEF commands
  <2> QED BY <1>1, <2>1, FrameType DEF CommandsResponse
<1>4. SS_ERR_OK \in 0 .. 5 /\ SS_ERR_LEN \in 0 .. 5 /\ <<>> \in Seq(Byte)
  BY EmptySeq DEF SS_ERR_OK, SS_ERR_LEN
<1>5. CASE cmd = CMD_VERSION
  BY <1>2, <1>4, <1>5 DEF Callback
<1>6. CASE cmd # CMD_VERSION /\ cmd = CMD_COMMANDS
  BY <1>3, <1>4, <1>6 DEF Callback
<1>7. CASE cmd # CMD_VERSION /\ cmd # CMD_COMMANDS
  <2>1. cb = [err |-> IF len = reqLen THEN SS_ERR_OK ELSE SS_ERR_LEN,
              put |-> IF isPt /\ reqLen <= len THEN ResponseFrame(RESPONSE, block) ELSE <<>>,
              key |-> IF isKey /\ keyLen <= len THEN SubSeq(data, 1, keyLen) ELSE key]
    BY <1>7 DEF Callback
  <2>2. BlockLen \in Nat /\ BlockLen <= 250
    BY BlockLenAssumption DEF MAX_SS_LEN
  <2> HIDE DEF isKey, isPt
  <2>3. keyLen \in Nat /\ reqLen \in Nat /\ len \in Nat
    BY <2>2, LenProperties
  <2>4. ASSUME isPt, reqLen <= len
        PROVE  ResponseFrame(RESPONSE, block) \in Seq(Byte)
    <3>1. reqLen = keyLen + BlockLen
      BY <2>4
    <3>2. \A k \in keyLen + 1 .. reqLen : data[k] \in Byte
      BY <2>3, <2>4, ElementOfSeq
    <3> HIDE DEF keyLen, reqLen
    <3>3. block \in Seq(Byte)
          /\ Len(block) = IF keyLen + 1 <= reqLen THEN reqLen - (keyLen + 1) + 1 ELSE 0
      BY <2>3, <3>2, SubSeqProperties
    <3>4. Len(block) <= 250
      BY <2>2, <2>3, <3>1, <3>3
    <3> HIDE DEF block
    <3> QED BY <1>1, <3>3, <3>4, FrameType
  <2>5. ASSUME keyLen <= len
        PROVE  SubSeq(data, 1, keyLen) \in Seq(Byte)
    <3>1. \A k \in 1 .. keyLen : data[k] \in Byte
      BY <2>3, <2>5, ElementOfSeq
    <3> HIDE DEF keyLen
    <3> QED BY <2>3, <3>1, SubSeqProperties
  <2> HIDE DEF cb, len, keyLen, reqLen, block
  <2>6. cb.err \in 0 .. 5
    BY <1>4, <2>1
  <2>7. cb.put \in Seq(Byte)
    BY <1>4, <2>1, <2>4
  <2>8. cb.key \in Seq(Byte)
    BY <2>1, <2>5
  <2> QED BY <2>6, <2>7, <2>8 DEF cb
<1> QED BY <1>5, <1>6, <1>7

(* An error starts a new frame. *)
LEMMA FailStep ==
    ASSUME TargetTypes, NEW err \in 0 .. 5, Fail(err)
    PROVE  TargetTypes' /\ tx' # <<>>
<1>1. /\ data_buf' = <<>> /\ next_frame' = 0 /\ key' = key
      /\ tx' = ResponseFrame(ACK, <<err>>)
  BY DEF Fail
<1>2. <<>> \in Seq(Byte) /\ Len(<<>>) = 0 /\ 0 \in Byte
  BY EmptySeq, ByteFacts DEF FRAME_BYTE
<1>3. tx' \in Seq(Byte) /\ tx' # <<>>
  BY <1>1, ErrorAnswer
<1>4. data_buf' \in Seq(Byte) /\ next_frame' \in Byte /\ key' \in Seq(Byte)
  BY <1>1, <1>2 DEF TargetTypes
<1>5. Receiving'
  BY <1>1, <1>2 DEF Receiving
<1> QED BY <1>3, <1>4, <1>5 DEF TargetTypes

(* The header, when the fourth byte is in. *)
LEMMA HeaderStep ==
    ASSUME TargetTypes, tx = <<>>, NEW buf \in Seq(Byte), Len(buf) = 4, Header(buf)
    PROVE  TargetTypes'
<1> DEFINE u == UnstuffData(buf, 4)
<1>1. Zeroed(u.buf, buf) /\ u.next \in Byte
  <2>1. 4 \in 1 .. Len(buf)
    OBVIOUS
  <2> QED BY <2>1, UnstuffDataType
<1> HIDE DEF u
<1>2. u.buf \in Seq(Byte) /\ Len(u.buf) = 4
  BY <1>1 DEF Zeroed
<1>3. u.buf[4] \in Nat /\ u.next \in Nat
  BY <1>1, <1>2, ElementOfSeq, ByteFacts
<1>4. SS_ERR_CMD \in 0 .. 5 /\ SS_ERR_LEN \in 0 .. 5
  BY DEF SS_ERR_CMD, SS_ERR_LEN
<1>5. \/ Fail(SS_ERR_CMD) \/ Fail(SS_ERR_LEN)
      \/ /\ ~(u.buf[4] + 5 < u.next)
         /\ data_buf' = u.buf /\ next_frame' = u.next
         /\ UNCHANGED <<tx, key, ran>>
  BY DEF Header, u
<1>6. CASE Fail(SS_ERR_CMD) \/ Fail(SS_ERR_LEN)
  BY <1>4, <1>6, FailStep
<1>7. CASE /\ ~(u.buf[4] + 5 < u.next)
           /\ data_buf' = u.buf /\ next_frame' = u.next
           /\ UNCHANGED <<tx, key, ran>>
  <2>1. u.next <= u.buf[4] + 5 /\ 4 <= u.buf[4] + 5
    BY <1>3, <1>7
  <2>2. Receiving'
    <3>1. Len(data_buf') = 4 /\ ~(4 < 4)
      BY <1>2, <1>7
    <3>2. next_frame' <= data_buf'[4] + 5 /\ Len(data_buf') <= data_buf'[4] + 5
      BY <1>7, <2>1, <3>1
    <3> QED BY ONLY <3>1, <3>2 DEF Receiving
  <2> QED BY <1>1, <1>2, <1>7, <2>2 DEF TargetTypes
<1> QED BY <1>5, <1>6, <1>7

(* The last byte of a frame. *)
LEMMA FrameStep ==
    ASSUME TargetTypes, NEW buf, buf \in Seq(Byte),
           Len(data_buf) >= 4, Len(data_buf) = data_buf[4] + 5,
           Len(buf) = Len(data_buf) + 1, buf[4] = data_buf[4], Frame(buf)
    PROVE  TargetTypes' /\ tx' # <<>>
<1> DEFINE i == Len(buf) - 1
           head == SubSeq(buf, 1, next_frame)
           rest == SubSeq(buf, next_frame + 1, i + 1)
           tail == UnstuffData(rest, i - next_frame + 1).buf
           full == head \o tail
           data == SubSeq(full, 5, 4 + full[4])
           cb == Callback(full[2], full[3], data)
<1>1. /\ next_frame \in Nat /\ next_frame <= i
      /\ i \in Nat /\ i = buf[4] + 5 /\ i >= 5 /\ buf[4] \in Nat
  <2>1. data_buf \in Seq(Byte) /\ Len(data_buf) \in Nat /\ next_frame \in Nat
    BY LenProperties, ByteFacts DEF TargetTypes
  <2>2. data_buf[4] \in Nat
    BY <2>1, ElementOfSeq, ByteFacts
  <2>3. next_frame <= data_buf[4] + 5
    BY <2>1 DEF TargetTypes, Receiving
  <2> QED BY <2>1, <2>2, <2>3
<1>2. \A k \in 1 .. i + 1 : buf[k] \in Byte
  BY <1>1, ElementOfSeq
<1> HIDE DEF i
<1>3. head \in Seq(Byte) /\ Len(head) = next_frame
      /\ \A k \in 1 .. next_frame : head[k] = buf[k]
  <2>1. \A k \in 1 .. next_frame : buf[k] \in Byte
    BY <1>1, <1>2
  <2>2. /\ head \in Seq(Byte)
        /\ Len(head) = IF 1 <= next_frame THEN next_frame - 1 + 1 ELSE 0
        /\ \A k \in 1 .. next_frame - 1 + 1 : head[k] = buf[1 + k - 1]
    BY <1>1, <2>1, SubSeqProperties
  <2> QED BY <1>1, <2>2
<1>4. rest \in Seq(Byte) /\ Len(rest) = i - next_frame + 1
      /\ \A k \in 1 .. i - next_frame + 1 : rest[k] = buf[next_frame + k]
  <2>1. \A k \in next_frame + 1 .. i + 1 : buf[k] \in Byte
    BY <1>1, <1>2
  <2>2. /\ rest \in Seq(Byte)
        /\ Len(rest) = IF next_frame + 1 <= i + 1 THEN i + 1 - (next_frame + 1) + 1 ELSE 0
        /\ \A k \in 1 .. i + 1 - (next_frame + 1) + 1 : rest[k] = buf[next_frame + 1 + k - 1]
    BY ONLY <1>1, <2>1, SubSeqProperties DEF rest
  <2> HIDE DEF rest
  <2>3. next_frame + 1 <= i + 1 /\ i + 1 - (next_frame + 1) + 1 = i - next_frame + 1
    BY <1>1
  <2>4. \A k \in 1 .. i - next_frame + 1 : next_frame + 1 + k - 1 = next_frame + k
    BY <1>1
  <2> QED BY <2>2, <2>3, <2>4
<1> HIDE DEF head, rest
<1>5. Zeroed(tail, rest)
  <2>1. i - next_frame + 1 \in 1 .. Len(rest)
    BY ONLY <1>1, <1>4
  <2> QED BY ONLY <1>4, <2>1, UnstuffDataType DEF tail
<1>6. tail \in Seq(Byte) /\ Len(tail) = i - next_frame + 1
      /\ \A k \in 1 .. i - next_frame + 1 : tail[k] = rest[k] \/ tail[k] = 0
  BY <1>4, <1>5 DEF Zeroed, FRAME_BYTE
<1> HIDE DEF tail
<1>7. full \in Seq(Byte) /\ Len(full) = i + 1
      /\ \A k \in 1 .. i + 1 : full[k] = buf[k] \/ full[k] = 0
  <2>1. /\ full \in Seq(Byte)
        /\ Len(full) = Len(head) + Len(tail)
        /\ \A k \in 1 .. Len(head) + Len(tail) :
              full[k] = IF k <= Len(head) THEN head[k] ELSE tail[k - Len(head)]
    BY ONLY <1>3, <1>6, ConcatProperties DEF full
  <2>2. Len(head) + Len(tail) = i + 1
    BY <1>1, <1>3, <1>6
  <2>3. ASSUME NEW k \in 1 .. i + 1
        PROVE  full[k] = buf[k] \/ full[k] = 0
    <3>1. CASE k <= next_frame
      BY <1>1, <1>3, <2>1, <2>2, <3>1
    <3>2. CASE ~(k <= next_frame)
      <4>1. k - next_frame \in 1 .. i - next_frame + 1 /\ next_frame + (k - next_frame) = k
        BY <1>1, <3>2
      <4>2. full[k] = tail[k - next_frame] /\ rest[k - next_frame] = buf[k]
        BY <1>3, <1>4, <2>1, <2>2, <3>2, <4>1
      <4> QED BY <1>6, <4>1, <4>2
    <3> QED BY <3>1, <3>2
  <2> QED BY <2>1, <2>2, <2>3
<1> HIDE DEF full
<1>8. full[3] \in Byte /\ full[4] \in Nat /\ 4 + full[4] <= i + 1
  <2>1. 3 \in 1 .. i + 1 /\ 4 \in 1 .. i + 1
    BY <1>1
  <2>2. full[3] \in Byte /\ full[4] \in Byte
    BY <1>7, <2>1, ElementOfSeq
  <2>3. full[4] = buf[4] \/ full[4] = 0
    BY <1>7, <2>1
  <2>4. full[4] \in Nat
    BY <2>2, ByteFacts
  <2>5. 4 + full[4] <= i + 1
    BY <1>1, <2>3, <2>4
  <2> QED BY <2>2, <2>4, <2>5
<1>9. data \in Seq(Byte)
  <2>1. \A k \in 5 .. 4 + full[4] : full[k] \in Byte
    BY <1>1, <1>7, <1>8, ElementOfSeq
  <2> QED BY <1>8, <2>1, SubSeqProperties
<1> HIDE DEF data
<1>10. cb.err \in 0 .. 5 /\ cb.put \in Seq(Byte) /\ cb.key \in Seq(Byte)
  BY <1>8, <1>9, CallbackType DEF TargetTypes
<1>11. \/ Fail(SS_ERR_CRC)
       \/ /\ tx' = cb.put \o ResponseFrame(ACK, <<cb.err>>)
          /\ key' = cb.key
          /\ data_buf' = <<>>
          /\ next_frame' = 0
  BY DEF Frame, i, head, rest, tail, full, data
<1> HIDE DEF cb
<1>12. CASE Fail(SS_ERR_CRC)
  BY <1>12, FailStep DEF SS_ERR_CRC
<1>13. CASE /\ tx' = cb.put \o ResponseFrame(ACK, <<cb.err>>)
            /\ key' = cb.key
            /\ data_buf' = <<>>
            /\ next_frame' = 0
  <2> DEFINE r == ResponseFrame(ACK, <<cb.err>>)
  <2>1. r \in Seq(Byte) /\ r # <<>>
    BY <1>10, ErrorAnswer
  <2> HIDE DEF r
  <2>2. cb.put \o r \in Seq(Byte) /\ Len(cb.put \o r) = Len(cb.put) + Len(r)
    BY <1>10, <2>1, ConcatProperties
  <2>3. Len(cb.put) \in Nat /\ Len(r) \in Nat \ {0}
    BY <1>10, <2>1, LenProperties, EmptySeq
  <2>4. cb.put \o r # <<>>
    BY <2>2, <2>3, EmptySeq
  <2>5. tx' \in Seq(Byte) /\ tx' # <<>>
    BY <1>13, <2>2, <2>4 DEF r
  <2>6. <<>> \in Seq(Byte) /\ Len(<<>>) = 0 /\ 0 \in Byte
    BY EmptySeq, ByteFacts DEF FRAME_BYTE
  <2> QED BY <1>10, <1>13, <2>5, <2>6 DEF TargetTypes, Receiving
<1> QED BY <1>11, <1>12, <1>13

(* The target reads a byte: it keeps what it reads in order, and what it     *)
(* answers to a FRAME_BYTE is something.                                     *)
LEMMA GetchTypes ==
    ASSUME TargetTypes, toTarget \in Seq(Byte), Getch
    PROVE  TargetTypes' /\ (Head(toTarget) = FRAME_BYTE => tx' # <<>>)
<1> DEFINE c == Head(toTarget)
           buf == Append(data_buf, c)
           i == Len(data_buf)
<1>1. tx = <<>> /\ toTarget # <<>>
  BY DEF Getch
<1>2. data_buf \in Seq(Byte) /\ i \in Nat /\ c \in Byte
  BY <1>1, LenProperties, HeadTailProperties DEF TargetTypes
<1> HIDE DEF c
<1>3. buf \in Seq(Byte) /\ Len(buf) = i + 1 /\ \A k \in 1 .. i : buf[k] = data_buf[k]
  BY <1>2, AppendProperties
<1>4. IF i < 4
        THEN IF c = FRAME_BYTE THEN Fail(SS_ERR_FRAME_BYTE)
             ELSE IF i < 3 THEN Wait(buf) ELSE Header(buf)
      ELSE IF i < data_buf[4] + 5
        THEN IF c = FRAME_BYTE THEN Fail(SS_ERR_FRAME_BYTE) ELSE Wait(buf)
      ELSE IF c # FRAME_BYTE THEN Fail(SS_ERR_LEN) ELSE Frame(buf)
  BY DEF Getch, c
<1> HIDE DEF buf
<1>5. SS_ERR_FRAME_BYTE \in 0 .. 5 /\ SS_ERR_LEN \in 0 .. 5
  BY DEF SS_ERR_FRAME_BYTE, SS_ERR_LEN
<1>6. ASSUME NEW err \in 0 .. 5, Fail(err)
      PROVE  TargetTypes' /\ tx' # <<>>
  BY <1>6, FailStep
<1>7. CASE i < 4
  <2>1. CASE c = FRAME_BYTE
    BY <1>4, <1>5, <1>6, <1>7, <2>1 DEF c
  <2>2. CASE c # FRAME_BYTE /\ i < 3
    <3>1. Wait(buf)
      BY <1>4, <1>7, <2>2
    <3>2. data_buf' = buf /\ UNCHANGED <<next_frame, tx, key>>
      BY <3>1 DEF Wait
    <3>3. Len(buf) < 4 /\ next_frame = 0
      BY <1>2, <1>3, <1>7, <2>2 DEF TargetTypes, Receiving
    <3> QED BY <1>3, <2>2, <3>2, <3>3 DEF TargetTypes, Receiving, c
  <2>3. CASE c # FRAME_BYTE /\ ~(i < 3)
    <3>1. Header(buf) /\ Len(buf) = 4
      BY <1>2, <1>3, <1>4, <1>7, <2>3
    <3> QED BY <1>1, <1>3, <2>3, <3>1, HeaderStep DEF c
  <2> QED BY <2>1, <2>2, <2>3
<1>8. CASE ~(i < 4)
  <2>1. 4 \in 1 .. i /\ data_buf[4] \in Nat /\ buf[4] = data_buf[4]
        /\ i <= data_buf[4] + 5 /\ next_frame <= data_buf[4] + 5
    <3>1. 4 \in 1 .. i
      BY <1>2, <1>8
    <3>2. data_buf[4] \in Nat
      BY <1>2, <3>1, ElementOfSeq, ByteFacts
    <3> QED BY <1>3, <1>8, <3>1, <3>2 DEF TargetTypes, Receiving
  <2>2. CASE i < data_buf[4] + 5 /\ c = FRAME_BYTE
    BY <1>4, <1>5, <1>6, <1>8, <2>2 DEF c
  <2>3. CASE i < data_buf[4] + 5 /\ c # FRAME_BYTE
    <3>1. Wait(buf)
      BY <1>4, <1>8, <2>3
    <3>2. data_buf' = buf /\ UNCHANGED <<next_frame, tx, key>>
      BY <3>1 DEF Wait
    <3>3. ~(Len(buf) < 4) /\ Len(buf) <= buf[4] + 5 /\ next_frame <= buf[4] + 5
      BY <1>2, <1>3, <1>8, <2>1, <2>3
    <3> QED BY <1>3, <2>3, <3>2, <3>3 DEF TargetTypes, Receiving, c
  <2>4. CASE ~(i < data_buf[4] + 5) /\ c # FRAME_BYTE
    BY <1>4, <1>5, <1>6, <1>8, <2>4 DEF c
  <2>5. CASE ~(i < data_buf[4] + 5) /\ c = FRAME_BYTE
    <3>1. Frame(buf)
      BY <1>4, <1>8, <2>5
    <3>2. i = data_buf[4] + 5 /\ i >= 4
      BY <1>2, <1>8, <2>1, <2>5
    <3> QED BY <1>3, <2>1, <3>1, <3>2, FrameStep
  <2> QED BY <2>2, <2>3, <2>4, <2>5
<1> QED BY <1>7, <1>8

-----------------------------------------------------------------------------
(* What the host has: bytes, a place to return to from reset_comms, and as   *)
(* many bytes of an answer as its program point says.                        *)
Returns == {"connected", "sendkey", "rekey", "listack", "drain", "idle"}
Stack ==
    IF hpc = "reset"
      THEN ret \in {<<p>> : p \in Returns} \cup {<<"flush", p>> : p \in Returns}
      ELSE IF hpc = "flush" THEN ret \in {<<p>> : p \in Returns}
      ELSE ret = <<>>

Partial ==
    /\ resp \in Seq(Byte) /\ Len(resp) \in {0, 3, 5}
    /\ hpc \in {"second", "errorbyte"} => Len(resp) = 5
    /\ hpc = "errs4" => Len(resp) = 3

Control ==
    /\ hpc \in Points
    /\ expect \in {None, RESPONSE, ACK}
    /\ Stack
    /\ Partial

HostTypes ==
    /\ Control
    /\ toHost \in Seq(Byte)
    /\ flush_on_err \in BOOLEAN /\ tmp \in BOOLEAN
    /\ last_key \in Seq(Byte)
    /\ calls \in 0 .. MaxCalls
    /\ faults \in SUBSET Faults

IInv == LineInv /\ TargetTypes /\ HostTypes

(* The inductive invariant is enough for the types. *)
LEMMA IInvTypes == IInv => TypeOK
<1> SUFFICES ASSUME IInv PROVE TypeOK
  OBVIOUS
<1>1. ret \in Seq(Points)
  <2>1. Returns \subseteq Points /\ "flush" \in Points
    BY DEF Returns, Points
  <2>2. \A p \in Points : <<p>> \in Seq(Points) /\ <<"flush", p>> \in Seq(Points)
    BY <2>1
  <2>3. <<>> \in Seq(Points)
    BY EmptySeq
  <2> QED BY <2>1, <2>2, <2>3 DEF IInv, HostTypes, Control, Stack
<1>2. Len(data_buf) < 4 => next_frame = 0
  BY DEF IInv, TargetTypes, Receiving
<1> QED BY <1>1, <1>2 DEF IInv, LineInv, TargetTypes, HostTypes, Control, Partial, TypeOK

(* At the start. *)
LEMMA Initially == Init => IInv
<1> SUFFICES ASSUME Init PROVE IInv
  OBVIOUS
<1>1. <<>> \in Seq(Byte) /\ Len(<<>>) = 0 /\ 0 \in Byte
  BY EmptySeq, ByteFacts DEF FRAME_BYTE
<1>2. LineInv
  BY LineInitially
<1>3. TargetTypes
  BY <1>1 DEF Init, TargetInit, TargetTypes, Receiving
<1>4. toHost \in Seq(Byte)
  <2>1. SS_ERR_OK \in 0 .. 5
    BY DEF SS_ERR_OK
  <2> QED BY <1>1, <2>1, ErrorAnswer DEF Init
<1>5. last_key \in Seq(Byte)
  <2>1. last_key = [k \in 1 .. BlockLen |-> 0] /\ BlockLen \in Nat
    BY BlockLenAssumption DEF Init, MAX_SS_LEN
  <2>2. last_key \in [1 .. BlockLen -> Byte]
    BY <1>1, <2>1
  <2> QED BY <2>1, <2>2
<1>6. calls \in 0 .. MaxCalls /\ faults \in SUBSET Faults
  BY MaxCallsAssumption DEF Init
<1>7. flush_on_err \in BOOLEAN /\ tmp \in BOOLEAN
  BY ConFlushAssumption DEF Init
<1>8. Control
  BY <1>1 DEF Init, Points, Stack, Partial, Control
<1>9. HostTypes
  BY <1>4, <1>5, <1>6, <1>7, <1>8 DEF HostTypes
<1> QED BY <1>2, <1>3, <1>9 DEF IInv

(* Reading n bytes, or what there is, leaves bytes. *)
LEMMA TakeType ==
    ASSUME NEW s \in Seq(Byte), NEW n \in Nat
    PROVE  /\ SubSeq(s, n + 1, Len(s)) \in Seq(Byte)
           /\ n <= Len(s) => SubSeq(s, 1, n) \in Seq(Byte) /\ Len(SubSeq(s, 1, n)) = n
<1>1. Len(s) \in Nat
  BY LenProperties
<1>2. \A k \in n + 1 .. Len(s) : s[k] \in Byte
  BY <1>1, ElementOfSeq
<1>3. SubSeq(s, n + 1, Len(s)) \in Seq(Byte)
  BY <1>1, <1>2, SubSeqProperties
<1>4. ASSUME n <= Len(s)
      PROVE  SubSeq(s, 1, n) \in Seq(Byte) /\ Len(SubSeq(s, 1, n)) = n
  <2>1. \A k \in 1 .. n : s[k] \in Byte
    BY <1>1, <1>4, ElementOfSeq
  <2>2. /\ SubSeq(s, 1, n) \in Seq(Byte)
        /\ Len(SubSeq(s, 1, n)) = IF 1 <= n THEN n - 1 + 1 ELSE 0
    BY <2>1, SubSeqProperties
  <2> QED BY <2>2
<1> QED BY <1>3, <1>4

(* read_cmd begins. *)
LEMMA ReadCmdControl ==
    ASSUME NEW c \in {RESPONSE, ACK}, ReadCmd(c), ret' = <<>>
    PROVE  Control'
<1>1. <<>> \in Seq(Byte) /\ Len(<<>>) = 0
  BY EmptySeq
<1>2. Stack'
  BY DEF ReadCmd, Stack
<1>3. Partial'
  BY <1>1 DEF ReadCmd, Partial
<1> QED BY <1>2, <1>3 DEF ReadCmd, Control, Points

(* reset_comms begins. *)
LEMMA ResetControl ==
    ASSUME Control, UNCHANGED <<expect, resp>>, NEW k, ResetComms(k),
           k \in {<<p>> : p \in Returns} \cup {<<"flush", p>> : p \in Returns}
    PROVE  Control'
<1>1. hpc' = "reset" /\ ret' = k
  BY DEF ResetComms
<1>2. Stack'
  BY <1>1 DEF Stack
<1>3. Partial'
  BY <1>1 DEF Control, Partial
<1> QED BY <1>1, <1>2, <1>3 DEF Control, Points

(* The host goes on elsewhere, with nothing to return to. *)
LEMMA GotoControl ==
    ASSUME Control, UNCHANGED <<expect, resp>>, ret' = <<>>,
           hpc' \in Returns \cup {"errs", "errs3"}
    PROVE  Control'
<1>1. Stack'
  BY DEF Stack, Returns
<1>2. Partial'
  BY DEF Control, Partial, Returns
<1> QED BY <1>1, <1>2 DEF Control, Points, Returns

(* flush_on_error. *)
LEMMA FlushControl ==
    ASSUME Control, UNCHANGED <<expect, resp>>, NEW p \in Returns, FlushOnError(<<p>>)
    PROVE  Control'
<1>1. CASE flush_on_err
  <2>1. ResetComms(<<"flush", p>>)
    <3>1. ResetComms(<<"flush">> \o <<p>>)
      BY <1>1 DEF FlushOnError
    <3>2. <<"flush">> \o <<p>> = <<"flush", p>>
      <4> DEFINE S == {"flush", p}
                 s == <<"flush">> \o <<p>>
                 t == <<"flush", p>>
      <4>1. <<"flush">> \in Seq(S) /\ <<p>> \in Seq(S) /\ t \in Seq(S)
        OBVIOUS
      <4>2. /\ s \in Seq(S) /\ Len(s) = 2
            /\ s[1] = "flush" /\ s[2] = p
        BY <4>1, ConcatProperties
      <4>3. Len(t) = 2 /\ t[1] = "flush" /\ t[2] = p
        OBVIOUS
      <4> HIDE DEF s, t, S
      <4>4. \A k \in 1 .. 2 : s[k] = t[k]
        BY <4>2, <4>3
      <4>5. s = t
        BY <4>1, <4>2, <4>3, <4>4, SeqEqual
      <4> QED BY <4>5 DEF s, t
    <3> QED BY <3>1, <3>2
  <2>2. <<"flush", p>> \in {<<q>> : q \in Returns} \cup {<<"flush", q>> : q \in Returns}
    OBVIOUS
  <2> QED BY <2>1, <2>2, ResetControl
<1>2. CASE ~flush_on_err
  <2>1. hpc' = <<p>>[1] /\ ret' = Tail(<<p>>)
    BY <1>2 DEF FlushOnError
  <2>2. <<p>>[1] = p /\ Tail(<<p>>) = <<>>
    OBVIOUS
  <2> QED BY <2>1, <2>2, GotoControl
<1> QED BY <1>1, <1>2

(* A read_cmd that failed, or returned a packet to its caller. *)
LEMMA FailedControl ==
    ASSUME Control, ReadFailed
    PROVE  Control' /\ flush_on_err' = flush_on_err
<1> DEFINE p == IF expect = ACK /\ cur.call = "key" THEN "rekey"
                ELSE IF expect = RESPONSE /\ cur.call = "list" THEN "listack"
                ELSE IF cur.call \in WithErrors THEN "drain"
                ELSE "idle"
<1>1. p \in Returns
  BY DEF Returns
<1>2. FlushOnError(<<p>>) /\ UNCHANGED <<flush_on_err, expect, resp>>
  BY DEF ReadFailed
<1> HIDE DEF p
<1> QED BY <1>1, <1>2, FlushControl

(* The packet read_cmd returned. *)
LEMMA ReturnsControl ==
    ASSUME Control, ret = <<>>, NEW pkt, ReadReturns(pkt)
    PROVE  Control'
<1>1. CASE expect = RESPONSE
  BY <1>1, ReadCmdControl DEF ReadReturns
<1>2. CASE expect # RESPONSE
  <2>1. "idle" \in Returns
    BY DEF Returns
  <2>2. UNCHANGED <<expect, resp>>
        /\ (FlushOnError(<<"idle">>) \/ (hpc' = "idle" /\ UNCHANGED <<toTarget, ret>>))
    BY <1>2 DEF ReadReturns
  <2> QED BY <2>1, <2>2, FlushControl, GotoControl
<1> QED BY <1>1, <1>2

(* A packet simpleserial_read_witherrors takes or not. *)
LEMMA JudgeControl ==
    ASSUME Control, ret' = <<>>, NEW pkt, Judge(pkt)
    PROVE  Control'
<1>1. ReadCmd(ACK) \/ (hpc' = "drain" /\ UNCHANGED <<res, expect, resp>>)
  BY DEF Judge
<1> QED BY <1>1, ReadCmdControl, GotoControl DEF Returns

(* The host's steps and the types of what it has.                            *)
LEMMA HostTypesStep == IInv /\ Host => HostTypes'
<1> SUFFICES ASSUME IInv, Host PROVE HostTypes'
  OBVIOUS
<1>0. HostTypes /\ Control /\ cur \in Writable /\ toHost \in Seq(Byte)
  BY DEF IInv, HostTypes, LineInv
<1>00. <<>> \in Seq(Byte)
  BY EmptySeq
<1>1. hpc \notin {"reset", "flush"} => ret = <<>>
  BY <1>0 DEF Control, Stack
<1>2. UNCHANGED <<calls, faults>>
  BY DEF Host, Con, ResetPoll, Flush, Connected, SendKey, FirstRead, FirstTimeout,
         ErrorByte, SecondRead, SecondTimeout, SecondRaises, ListAck, Rekey,
         ErrsRead, ErrsHeader, ErrsRest, Drain
<1>3. tmp' = tmp /\ (flush_on_err' = flush_on_err \/ flush_on_err' = tmp)
  BY DEF Host, Con, ResetPoll, Flush, Connected, SendKey, FirstRead, FirstTimeout,
         ErrorByte, SecondRead, SecondTimeout, SecondRaises, ListAck, Rekey,
         ErrsRead, ErrsHeader, ErrsRest, Drain, ReadFailed, Restored
<1>4. last_key' \in Seq(Byte)
  <2>1. last_key' = last_key \/ last_key' = cur.data
    BY DEF Host, Con, ResetPoll, Flush, Connected, SendKey, FirstRead, FirstTimeout,
           ErrorByte, SecondRead, SecondTimeout, SecondRaises, ListAck, Rekey,
           ErrsRead, ErrsHeader, ErrsRest, Drain
  <2> QED BY <1>0, <2>1, RequestType DEF HostTypes
<1> SUFFICES Control' /\ toHost' \in Seq(Byte)
  BY <1>0, <1>2, <1>3, <1>4 DEF HostTypes
<1>5. CASE Con
  BY <1>0, <1>5, ResetControl DEF Con, Returns
<1>6. CASE ResetPoll
  <2>1. hpc = "reset" /\ UNCHANGED <<expect, resp>>
    BY <1>6 DEF ResetPoll
  <2>2. CASE toHost # <<>>
    BY <1>0, <1>00, <1>6, <2>1, <2>2 DEF ResetPoll, Control, Stack, Partial
  <2>3. CASE toHost = <<>>
    <3>1. toHost' = toHost /\ hpc' = ret[1] /\ ret' = Tail(ret)
      BY <1>6, <2>3 DEF ResetPoll
    <3>2. CASE ret \in {<<p>> : p \in Returns}
      <4>1. PICK p \in Returns : ret = <<p>>
        BY <3>2
      <4>2. hpc' = p /\ ret' = <<>>
        BY <3>1, <4>1
      <4> QED BY <1>0, <2>1, <3>1, <4>2, GotoControl
    <3>3. CASE ret \in {<<"flush", p>> : p \in Returns}
      <4>1. PICK p \in Returns : ret = <<"flush", p>>
        BY <3>3
      <4>2. hpc' = "flush" /\ ret' = <<p>>
        BY <3>1, <4>1
      <4>3. Stack'
        BY <4>2 DEF Stack
      <4>4. Partial'
        BY <1>0, <2>1, <4>2 DEF Control, Partial
      <4> QED BY <1>0, <2>1, <3>1, <4>2, <4>3, <4>4 DEF Control, Points
    <3> QED BY <1>0, <2>1, <3>2, <3>3 DEF Control, Stack
  <2> QED BY <2>2, <2>3
<1>7. CASE Flush
  <2>1. hpc = "flush" /\ UNCHANGED <<expect, resp>> /\ toHost' = <<>>
        /\ hpc' = ret[1] /\ ret' = Tail(ret)
    BY <1>7 DEF Flush
  <2>2. PICK p \in Returns : ret = <<p>>
    BY <1>0, <2>1 DEF Control, Stack
  <2>3. hpc' = p /\ ret' = <<>>
    BY <2>1, <2>2
  <2> QED BY <1>0, <1>00, <2>1, <2>3, GotoControl
<1>8. CASE Connected
  BY <1>0, <1>00, <1>1, <1>8, GotoControl DEF Connected, Returns
<1>9. CASE SendKey
  BY <1>0, <1>1, <1>9, ReadCmdControl DEF SendKey
<1>10. CASE FirstRead
  <2>1. hpc = "first" /\ Len(toHost) >= 5 /\ UNCHANGED <<expect, ret>>
        /\ hpc' \in {"second", "errorbyte"}
        /\ resp' = SubSeq(toHost, 1, 5) /\ toHost' = SubSeq(toHost, 6, Len(toHost))
    BY <1>10 DEF FirstRead
  <2>2. toHost' \in Seq(Byte) /\ resp' \in Seq(Byte) /\ Len(resp') = 5
    <3>1. 5 \in Nat /\ 5 <= Len(toHost) /\ 5 + 1 = 6
      BY <1>0, <2>1, LenProperties
    <3> QED BY <1>0, <2>1, <3>1, TakeType
  <2>3. Stack'
    BY <1>1, <2>1 DEF Stack
  <2>4. Partial'
    BY <2>1, <2>2 DEF Partial
  <2> QED BY <1>0, <2>1, <2>2, <2>3, <2>4 DEF Control, Points
<1>11. CASE FirstTimeout
  BY <1>0, <1>00, <1>11, FailedControl DEF FirstTimeout
<1>12. CASE ErrorByte
  <2>1. PICK n \in {0, 1} : toHost' = SubSeq(toHost, n + 1, Len(toHost))
    BY <1>12 DEF ErrorByte
  <2>2. PICK pkt : ReadReturns(pkt)
    BY <1>12 DEF ErrorByte
  <2>3. toHost' \in Seq(Byte)
    BY <1>0, <2>1, TakeType
  <2> QED BY <1>0, <1>1, <1>12, <2>2, <2>3, ReturnsControl DEF ErrorByte
<1>13. CASE SecondRead
  <2>1. PICK pkt : ReadReturns(pkt)
    BY <1>13 DEF SecondRead
  <2>2. Dlen \in Nat
    <3>1. Len(resp) = 5 /\ resp \in Seq(Byte) /\ 3 \in 1 .. 5
      BY <1>0, <1>13 DEF SecondRead, Control, Partial
    <3> QED BY <3>1, ElementOfSeq, ByteFacts DEF Dlen
  <2>3. toHost' \in Seq(Byte)
    BY <1>0, <1>13, <2>2, TakeType DEF SecondRead
  <2> QED BY <1>0, <1>1, <1>13, <2>1, <2>3, ReturnsControl DEF SecondRead
<1>14. CASE SecondTimeout
  BY <1>0, <1>00, <1>14, FailedControl DEF SecondTimeout
<1>15. CASE SecondRaises
  BY <1>0, <1>1, <1>15, GotoControl DEF SecondRaises, channels, Returns
<1>16. CASE ListAck
  BY <1>0, <1>1, <1>16, ReadCmdControl DEF ListAck, channels
<1>17. CASE Rekey
  BY <1>0, <1>17, ResetControl DEF Rekey, Returns
<1>18. CASE ErrsRead
  <2> DEFINE n == 5 + Len(cur.data)
             pkt == HostUnstuffData(SubSeq(toHost, 1, n))
  <2>1. /\ hpc = "errs" /\ ret' = ret
        /\ Drop(n)
        /\ Judge(pkt) \/ (hpc' = "drain" /\ UNCHANGED <<res, expect, resp>>)
    BY <1>18 DEF ErrsRead
  <2>2. n \in Nat
    BY <1>0, RequestType, LenProperties
  <2> HIDE DEF n, pkt
  <2> QED BY <1>0, <1>1, <2>1, <2>2, TakeType, JudgeControl, GotoControl DEF Drop, Returns
<1>19. CASE ErrsHeader
  <2> DEFINE buf == SubSeq(toHost, 1, 3)
  <2>1. /\ hpc = "errs3" /\ UNCHANGED <<expect, ret>>
        /\ Drop(3)
        /\ \/ Len(toHost) >= 3 /\ hpc' = "errs4" /\ resp' = buf
           \/ hpc' = "drain" /\ resp' = resp
    BY <1>19 DEF ErrsHeader
  <2>2. toHost' \in Seq(Byte)
    BY <1>0, <2>1, TakeType DEF Drop
  <2>3. CASE Len(toHost) >= 3 /\ hpc' = "errs4" /\ resp' = buf
    <3>1. buf \in Seq(Byte) /\ Len(buf) = 3
      BY <1>0, <2>3, TakeType, LenProperties
    <3>2. Stack'
      BY <1>1, <2>1, <2>3 DEF Stack
    <3>3. Partial'
      BY <2>3, <3>1 DEF Partial
    <3> QED BY <1>0, <2>1, <2>2, <2>3, <3>2, <3>3 DEF Control, Points
  <2>4. CASE hpc' = "drain" /\ resp' = resp
    BY <1>0, <1>1, <2>1, <2>2, <2>4, GotoControl DEF Returns
  <2> QED BY <2>1, <2>3, <2>4
<1>20. CASE ErrsRest
  <2> DEFINE head == HostUnstuff(resp)
             n == head.buf[3] + 2
  <2>1. /\ hpc = "errs4" /\ ret' = ret
        /\ Drop(n)
        /\ (\E pkt : Judge(pkt)) \/ (hpc' = "drain" /\ UNCHANGED <<res, expect, resp>>)
    BY <1>20 DEF ErrsRest
  <2>2. n \in Nat
    <3>1. resp \in Seq(Byte) /\ Len(resp) = 3
      BY <1>0, <2>1 DEF Control, Partial
    <3>2. head.buf \in Seq(Byte) /\ Len(head.buf) = 3
      BY <3>1, HostUnstuffType DEF Zeroed
    <3> HIDE DEF head
    <3>3. head.buf[3] \in Nat
      BY <3>2, ElementOfSeq, ByteFacts
    <3> QED BY <3>3
  <2> HIDE DEF n
  <2> QED BY <1>0, <1>1, <2>1, <2>2, TakeType, JudgeControl, GotoControl DEF Drop, Returns
<1>21. CASE Drain
  BY <1>0, <1>00, <1>1, <1>21, GotoControl DEF Drain, Returns
<1> QED
  BY <1>5, <1>6, <1>7, <1>8, <1>9, <1>10, <1>11, <1>12, <1>13, <1>14, <1>15, <1>16,
     <1>17, <1>18, <1>19, <1>20, <1>21
  DEF Host

(* The user's calls. *)
LEMMA CallTypesStep == IInv /\ Call => HostTypes'
<1> SUFFICES ASSUME IInv, Call PROVE HostTypes'
  OBVIOUS
<1>1. PICK q \in Requests :
        \/ CallEncrypt(q) \/ CallWithErrors(q) \/ CallUnknown(q)
        \/ CallCommands(q) \/ CallSetKey(q)
  BY DEF Call
<1>2. /\ hpc = "idle" /\ calls < MaxCalls /\ calls' = calls + 1 /\ faults' = faults
      /\ HostTypes /\ Control
  BY DEF Call, IInv, HostTypes
<1>3. ret = <<>> /\ <<>> \in Seq(Byte)
  BY <1>2, EmptySeq DEF Control, Stack
<1>4. calls' \in 0 .. MaxCalls
  BY <1>2, MaxCallsAssumption DEF HostTypes
<1>5. last_key' = last_key /\ (toHost' = toHost \/ toHost' = <<>>)
  BY <1>1 DEF CallEncrypt, CallWithErrors, CallUnknown, CallCommands, CallSetKey
<1>6. (flush_on_err' = flush_on_err \/ flush_on_err' = FALSE)
      /\ (tmp' = tmp \/ tmp' = flush_on_err)
  BY <1>1 DEF CallEncrypt, CallWithErrors, CallUnknown, CallCommands, CallSetKey
<1>7. Control'
  <2>1. CASE CallEncrypt(q) \/ CallUnknown(q) \/ CallCommands(q)
    BY <1>3, <2>1, ReadCmdControl DEF CallEncrypt, CallUnknown, CallCommands
  <2>2. CASE CallWithErrors(q)
    <3>1. hpc' \in {"errs", "errs3"} /\ ret' = <<>> /\ UNCHANGED <<expect, resp>>
      BY <1>3, <2>2 DEF CallWithErrors, WithErrors
    <3> QED BY <1>2, <3>1, GotoControl
  <2>3. CASE CallSetKey(q)
    <3>1. UNCHANGED <<expect, resp>> /\ (ResetComms(<<"sendkey">>) \/ UNCHANGED <<hpc, ret>>)
      BY <2>3 DEF CallSetKey
    <3>2. "sendkey" \in Returns /\ "idle" \in Returns
      BY DEF Returns
    <3> QED BY <1>2, <1>3, <3>1, <3>2, ResetControl, GotoControl
  <2> QED BY <1>1, <2>1, <2>2, <2>3
<1>8. toHost' \in Seq(Byte) /\ last_key' \in Seq(Byte)
  BY <1>2, <1>3, <1>5 DEF HostTypes
<1>9. flush_on_err' \in BOOLEAN /\ tmp' \in BOOLEAN
  BY <1>2, <1>6 DEF HostTypes
<1>10. faults' \in SUBSET Faults
  BY <1>2 DEF HostTypes
<1> QED BY <1>4, <1>7, <1>8, <1>9, <1>10 DEF HostTypes

(* The target's steps, and what is lost or garbled on the way.               *)
LEMMA TargetTypesStep == IInv /\ Target => TargetTypes' /\ HostTypes'
<1> SUFFICES ASSUME IInv, Target PROVE TargetTypes' /\ HostTypes'
  OBVIOUS
<1>1. UNCHANGED <<hpc, expect, resp, ret, flush_on_err, tmp, last_key, calls, faults>>
  BY DEF Target, hostVars
<1>2. Control'
  BY <1>1 DEF IInv, HostTypes, Control, Stack, Partial
<1> SUFFICES TargetTypes' /\ toHost' \in Seq(Byte)
  BY <1>1, <1>2 DEF IInv, HostTypes
<1>3. CASE Getch
  BY <1>3, GetchTypes DEF IInv, LineInv, HostTypes, Getch
<1>4. CASE Putch
  <2>1. /\ tx # <<>> /\ tx \in Seq(Byte) /\ toHost \in Seq(Byte)
        /\ toHost' = Append(toHost, Head(tx)) /\ tx' = Tail(tx)
        /\ UNCHANGED <<data_buf, next_frame, key>>
    BY <1>4 DEF Putch, IInv, TargetTypes, HostTypes
  <2>2. Head(tx) \in Byte /\ tx' \in Seq(Byte)
    BY <2>1, HeadTailProperties
  <2>3. toHost' \in Seq(Byte)
    BY <2>1, <2>2, AppendProperties
  <2> QED BY <2>1, <2>2, <2>3 DEF IInv, TargetTypes, Receiving
<1> QED BY <1>3, <1>4 DEF Target

(* A fault takes a byte away or changes it to another. *)
LEMMA FaultTypesStep == IInv /\ Fault => TargetTypes' /\ HostTypes'
<1> SUFFICES ASSUME IInv, Fault PROVE TargetTypes' /\ HostTypes'
  OBVIOUS
<1>1. /\ UNCHANGED <<hpc, expect, resp, ret, flush_on_err, tmp, last_key, calls>>
      /\ UNCHANGED <<data_buf, next_frame, tx, key>>
  BY DEF Fault, hostVars, targetVars
<1>2. Control' /\ TargetTypes'
  BY <1>1 DEF IInv, HostTypes, Control, Stack, Partial, TargetTypes, Receiving
<1>3. PICK kind \in Faults :
        /\ faults' = faults \cup {kind}
        /\ \/ kind = "overrun" /\ Overrun
           \/ kind = "noise" /\ GarbleToTarget
           \/ kind = "loss" /\ LoseToHost
           \/ kind = "garble" /\ GarbleToHost
  BY DEF Fault
<1>4. faults' \in SUBSET Faults
  BY <1>3 DEF IInv, HostTypes
<1>5. toHost' \in Seq(Byte)
  <2>1. toHost \in Seq(Byte) /\ Len(toHost) \in Nat
    BY LenProperties DEF IInv, HostTypes
  <2>2. CASE Overrun \/ GarbleToTarget
    BY <2>1, <2>2 DEF Overrun, GarbleToTarget
  <2>3. CASE LoseToHost
    <3>1. toHost # <<>> /\ toHost' = Front(toHost)
      BY <2>3 DEF LoseToHost
    <3>2. toHost' = SubSeq(toHost, 1, Len(toHost) - 1)
      BY <3>1 DEF Front
    <3>3. \A k \in 1 .. Len(toHost) - 1 : toHost[k] \in Byte
      BY <2>1, ElementOfSeq
    <3> QED BY <2>1, <3>2, <3>3, SubSeqProperties
  <2>4. CASE GarbleToHost
    <3>1. toHost' = [toHost EXCEPT ![Len(toHost)] = FRAME_BYTE]
      BY <2>4 DEF GarbleToHost
    <3>2. toHost' \in [1 .. Len(toHost) -> Byte]
      BY <2>1, <3>1, LenProperties, ByteFacts
    <3> QED BY <2>1, <3>2
  <2> QED BY <1>3, <2>2, <2>3, <2>4
<1> QED BY <1>1, <1>2, <1>4, <1>5 DEF IInv, HostTypes

(* The invariant is inductive. *)
LEMMA IInvStep == IInv /\ [Next]_vars => IInv'
<1> SUFFICES ASSUME IInv, [Next]_vars PROVE IInv'
  OBVIOUS
<1>1. LineInv'
  BY LineStep DEF IInv
<1>2. CASE UNCHANGED vars
  BY <1>1, <1>2
  DEF IInv, vars, channels, targetVars, hostVars, TargetTypes, Receiving, HostTypes,
      Control, Stack, Partial
<1>3. CASE Call
  <2>1. UNCHANGED <<data_buf, next_frame, tx, key>>
    BY <1>3 DEF Call, targetVars
  <2> QED BY <1>1, <1>3, <2>1, CallTypesStep DEF IInv, TargetTypes, Receiving
<1>4. CASE Host
  <2>1. UNCHANGED <<data_buf, next_frame, tx, key>>
    BY <1>4
    DEF Host, Con, ResetPoll, Flush, Connected, SendKey, FirstRead, FirstTimeout,
        ErrorByte, SecondRead, SecondTimeout, SecondRaises, ListAck, Rekey,
        ErrsRead, ErrsHeader, ErrsRest, Drain, targetVars
  <2> QED BY <1>1, <1>4, <2>1, HostTypesStep DEF IInv, TargetTypes, Receiving
<1>5. CASE Target
  BY <1>1, <1>5, TargetTypesStep DEF IInv
<1>6. CASE Fault
  BY <1>1, <1>6, FaultTypesStep DEF IInv
<1>7. CASE Done
  BY <1>2, <1>7 DEF Done
<1> QED BY <1>2, <1>3, <1>4, <1>5, <1>6, <1>7 DEF Next

(* Whatever is lost or garbled on either line: all that is ever on the way   *)
(* or in a buffer is bytes, and each side has as much of a frame buffered as *)
(* the point of its program says - the host five bytes where it looks at a   *)
(* length field, the target a next_frame of 0 before a header is in.         *)
THEOREM Typing == Spec => []TypeOK
<1>1. Init => IInv
  BY Initially
<1>2. IInv /\ [Next]_vars => IInv'
  BY IInvStep
<1>3. IInv => TypeOK
  BY IInvTypes
<1> QED BY <1>1, <1>2, <1>3, PTL DEF Spec

(* The getch of a FRAME_BYTE, wherever it comes, ends the simpleserial_get   *)
(* in progress: the buffer is dropped and something is answered.             *)
THEOREM FrameByteEnds == Spec => FrameByteResyncs
<1>1. Init => IInv
  BY Initially
<1>2. IInv /\ [Next]_vars => IInv'
  BY IInvStep
<1>3. IInv /\ [Next]_vars
        => [Getch /\ Head(toTarget) = FRAME_BYTE => data_buf' = <<>> /\ tx' # <<>>]_vars
  BY GetchClears, GetchTypes DEF IInv, LineInv
<1> QED BY <1>1, <1>2, <1>3, PTL DEF Spec, FrameByteResyncs

-----------------------------------------------------------------------------
(* A whole command is read and run.                                          *)

\* data_buf when i bytes of a frame have been read and head has become of the
\* first four.
Upto(f, head, i) == IF i < 4 THEN SubSeq(f, 1, i) ELSE head \o SubSeq(f, 5, i)

\* The target has read the first i bytes of the frame f.
Reading(f, i) ==
    /\ data_buf = Upto(f, HeaderOf(f).buf, i)
    /\ i >= 4 => next_frame = HeaderOf(f).next
    /\ tx = <<>>

\* The command ran: its callback's packets and the 'e' packet are to be written.
Ran(cmd, scmd, data) ==
    LET cb == Callback(cmd, scmd, data) IN
    /\ tx' = cb.put \o ResponseFrame(ACK, <<cb.err>>)
    /\ key' = cb.key
    /\ ran' = IF cb.err = SS_ERR_OK
                THEN Append(ran, [cmd |-> cmd, scmd |-> scmd, data |-> data])
                ELSE ran
    /\ data_buf' = <<>>

\* What TargetReadsCommand says of the frame f.
Legible(f, cmd, scmd, data) ==
    LET n == Len(f)
        u == HeaderOf(f)
        full == WholeOf(f)
    IN  /\ f \in Seq(Byte) /\ n \in Nat /\ n >= 6 /\ n = Len(data) + 6
        /\ \A k \in 1 .. n : f[k] = FRAME_BYTE <=> k = n
        /\ u.buf \in Seq(Byte) /\ Len(u.buf) = 4
        /\ u.buf[2] = cmd /\ u.buf[4] + 5 = n - 1 /\ u.next \in 4 .. n - 1
        /\ full[2] = cmd /\ full[3] = scmd
        /\ SubSeq(full, 5, 4 + full[4]) = data
        /\ Crc(SubSeq(full, 2, n - 2)) = full[n - 1]

\* A sequence, one longer.
LEMMA OneMore ==
    ASSUME NEW f \in Seq(Byte), NEW a \in 1 .. Len(f) + 1, NEW i \in a - 1 .. Len(f) - 1
    PROVE  Append(SubSeq(f, a, i), f[i + 1]) = SubSeq(f, a, i + 1)
<1> DEFINE s == SubSeq(f, a, i)
           t == SubSeq(f, a, i + 1)
           p == Append(s, f[i + 1])
           l == i - a + 1
<1>1. Len(f) \in Nat /\ a \in Nat /\ i \in Nat /\ l \in Nat /\ i + 1 \in 1 .. Len(f)
      /\ f[i + 1] \in Byte
  <2>1. Len(f) \in Nat
    BY LenProperties
  <2>2. a \in Nat /\ i \in Nat /\ l \in Nat /\ i + 1 \in 1 .. Len(f)
    BY <2>1
  <2> QED BY <2>1, <2>2, ElementOfSeq
<1>2. s \in Seq(Byte) /\ Len(s) = l /\ \A k \in 1 .. l : s[k] = f[a + k - 1]
  BY <1>1
<1>3. t \in Seq(Byte) /\ Len(t) = l + 1 /\ \A k \in 1 .. l + 1 : t[k] = f[a + k - 1]
  BY <1>1
<1> HIDE DEF s, t
<1>4. p \in Seq(Byte) /\ Len(p) = l + 1
      /\ \A k \in 1 .. l + 1 : p[k] = IF k = l + 1 THEN f[i + 1] ELSE s[k]
  BY <1>1, <1>2
<1>7. l \in Nat /\ a \in Nat /\ i \in Nat /\ l = i - a + 1
  BY <1>1
<1> HIDE DEF p, l
<1>5. ASSUME NEW k \in 1 .. l + 1 PROVE p[k] = t[k]
  <2>1. CASE k = l + 1
    <3>1. a + k - 1 = i + 1
      BY ONLY <1>7, <2>1
    <3> QED BY <1>3, <1>4, <2>1, <3>1
  <2>2. CASE k # l + 1
    <3>1. k \in 1 .. l
      BY ONLY <1>7, <2>2, k \in 1 .. l + 1
    <3> QED BY <1>2, <1>3, <1>4, <2>2, <3>1
  <2> QED BY <2>1, <2>2
<1>6. p = t
  BY <1>3, <1>4, <1>5, SeqEqual
<1> QED BY <1>6 DEF p, s, t

(* What a byte more makes of data_buf. *)
LEMMA UptoNext ==
    ASSUME NEW f \in Seq(Byte), Len(f) >= 6, NEW head \in Seq(Byte), Len(head) = 4,
           NEW i \in 0 .. Len(f) - 1
    PROVE  /\ Len(Upto(f, head, i)) = i
           /\ i >= 4 => Upto(f, head, i)[4] = head[4]
           /\ i < 4 => Append(Upto(f, head, i), f[i + 1]) = SubSeq(f, 1, i + 1)
           /\ i >= 4 => Append(Upto(f, head, i), f[i + 1]) = Upto(f, head, i + 1)
<1> DEFINE x == f[i + 1]
<1>1. Len(f) \in Nat /\ i \in Nat /\ i + 1 \in 1 .. Len(f)
  BY LenProperties
<1>2. x \in Byte
  BY <1>1, ElementOfSeq
<1>3. CASE i < 4
  <2>1. Len(SubSeq(f, 1, i)) = i
    BY <1>1
  <2>2. Append(SubSeq(f, 1, i), x) = SubSeq(f, 1, i + 1)
    BY <1>1, OneMore
  <2> QED BY <1>1, <1>3, <2>1, <2>2 DEF Upto
<1>4. CASE i >= 4
  <2> DEFINE t == SubSeq(f, 5, i)
             s == SubSeq(f, 5, i + 1)
             j == head \o t
  <2>1. t \in Seq(Byte) /\ Len(t) = i - 4
    BY <1>1, <1>4
  <2>2. Append(t, x) = s
    <3>1. 5 \in 1 .. Len(f) + 1 /\ i \in 5 - 1 .. Len(f) - 1
      BY <1>1, <1>4
    <3> QED BY <3>1, OneMore
  <2>9. ~(i < 4) /\ ~(i + 1 < 4)
    BY <1>1, <1>4
  <2>3. Upto(f, head, i) = j /\ Upto(f, head, i + 1) = head \o s
    BY ONLY <2>9 DEF Upto
  <2>4. head \in Seq(Byte) /\ Len(head) = 4
    OBVIOUS
  <2> HIDE DEF t, s, x
  <2>5. /\ j \in Seq(Byte) /\ Len(j) = Len(head) + Len(t)
        /\ \A k \in 1 .. Len(head) + Len(t) :
              j[k] = IF k <= Len(head) THEN head[k] ELSE t[k - Len(head)]
    BY ONLY <2>1, <2>4, ConcatProperties
  <2>6. Append(j, x) = head \o Append(t, x)
    <3> DEFINE y == <<x>>
    <3>1. y \in Seq(Byte)
      BY ONLY <1>2
    <3>3. Append(j, x) = j \o y /\ Append(t, x) = t \o y
      BY ONLY <1>2, <2>1, <2>5, AppendIsConcat
    <3>4. head \in Seq(Byte) /\ t \in Seq(Byte)
      BY ONLY <2>1, <2>4
    <3> HIDE DEF y
    <3>2. j \o y = head \o (t \o y)
      BY ONLY <3>1, <3>4, ConcatAssociative, SMTT(30)
    <3> QED BY ONLY <3>2, <3>3
  <2> HIDE DEF j
  <2>7. Len(head) + Len(t) = i /\ 4 \in 1 .. i
    BY ONLY <1>1, <1>4, <2>1, <2>4
  <2>8. Len(j) = i /\ j[4] = head[4]
    <3>1. Len(j) = i /\ j[4] = IF 4 <= Len(head) THEN head[4] ELSE t[4 - Len(head)]
      BY ONLY <2>5, <2>7
    <3>2. 4 <= Len(head)
      BY ONLY <2>4
    <3> QED BY ONLY <3>1, <3>2
  <2>10. Append(Upto(f, head, i), x) = Upto(f, head, i + 1)
    BY ONLY <2>2, <2>3, <2>6
  <2>11. Len(Upto(f, head, i)) = i /\ Upto(f, head, i)[4] = head[4]
    BY ONLY <2>3, <2>8
  <2> QED BY ONLY <2>9, <2>10, <2>11 DEF x
<1> QED BY <1>1, <1>3, <1>4

(* Which way simpleserial_get goes with the byte x. *)
LEMMA GetchGoes ==
    ASSUME Getch, NEW x, Head(toTarget) = x, NEW i \in Nat, Len(data_buf) = i,
           NEW buf, buf = Append(data_buf, x)
    PROVE  /\ i < 3 /\ x # FRAME_BYTE => Wait(buf)
           /\ i = 3 /\ x # FRAME_BYTE => Header(buf)
           /\ i >= 4 /\ i < data_buf[4] + 5 /\ x # FRAME_BYTE => Wait(buf)
           /\ i >= 4 /\ ~(i < data_buf[4] + 5) /\ x = FRAME_BYTE => Frame(buf)
BY DEF Getch

(* send_cmd writes such frames. *)
LEMMA CommandLegible ==
    ASSUME NEW cmd \in Byte, NEW scmd \in Byte,
           NEW data \in Seq(Byte), Len(data) + 6 <= MAX_SS_LEN
    PROVE  Legible(CommandFrame(cmd, scmd, data), cmd, scmd, data)
<1> DEFINE f == CommandFrame(cmd, scmd, data)
           l == Len(data)
           n == l + 6
           u == HeaderOf(f)
           full == WholeOf(f)
           a == SubSeq(f, 1, 4)
<1>1. /\ Len(f) = n /\ \A k \in 1 .. n : f[k] = FRAME_BYTE <=> k = n
      /\ u.buf[2] = cmd /\ u.buf[4] = l /\ u.next \in 4 .. u.buf[4] + 5
      /\ full[2] = cmd /\ full[3] = scmd
      /\ SubSeq(full, 5, 4 + full[4]) = data
      /\ Crc(SubSeq(full, 2, n - 2)) = full[n - 1]
  BY TargetReadsCommand
<1>2. f \in Seq(Byte) /\ l \in Nat
  <2>1. Len(data) \in Nat
    BY LenProperties
  <2>2. Len(data) <= 250
    BY <2>1 DEF MAX_SS_LEN
  <2> QED BY <2>1, <2>2, FrameType
<1>3. n \in Nat /\ n >= 6 /\ n = l + 6
  BY <1>2
<1> HIDE DEF f, l, n, full
<1>4. l + 5 = n - 1
  BY ONLY <1>2, <1>3
<1>5. a \in Seq(Byte) /\ Len(a) = 4
  BY <1>1, <1>2, <1>3
<1>6. 4 \in 1 .. Len(a)
  BY <1>5
<1> HIDE DEF a
<1>7. Zeroed(UnstuffData(a, 4).buf, a)
  BY ONLY <1>5, <1>6, UnstuffDataType
<1>8. u.buf \in Seq(Byte) /\ Len(u.buf) = 4
  <2>1. u = UnstuffData(a, 4)
    BY DEF HeaderOf, a
  <2> QED BY <1>5, <1>7, <2>1 DEF Zeroed
<1> HIDE DEF u
<1>9. u.buf[4] + 5 = n - 1 /\ u.next \in 4 .. n - 1
  BY ONLY <1>1, <1>4
<1> QED BY <1>1, <1>2, <1>3, <1>8, <1>9 DEF Legible, f, l, u, full

(* The step from i bytes to i + 1, or to the command. *)
LEMMA ReadingStep ==
    ASSUME NEW cmd, \E c \in DOMAIN commands : commands[c] = cmd, NEW scmd, NEW data,
           NEW f, Legible(f, cmd, scmd, data),
           NEW i \in 0 .. Len(f) - 1, Reading(f, i), Getch, Head(toTarget) = f[i + 1]
    PROVE  IF i < Len(f) - 1 THEN Reading(f, i + 1)' ELSE Ran(cmd, scmd, data)
<1> DEFINE n == Len(f)
           u == HeaderOf(f)
           full == WholeOf(f)
           x == f[i + 1]
           buf == Append(data_buf, x)
<1>1. /\ f \in Seq(Byte) /\ n \in Nat /\ n >= 6
      /\ \A k \in 1 .. n : f[k] = FRAME_BYTE <=> k = n
      /\ u.buf \in Seq(Byte) /\ Len(u.buf) = 4
      /\ u.buf[2] = cmd /\ u.buf[4] + 5 = n - 1 /\ u.next \in 4 .. n - 1
      /\ full[2] = cmd /\ full[3] = scmd
      /\ SubSeq(full, 5, 4 + full[4]) = data
      /\ Crc(SubSeq(full, 2, n - 2)) = full[n - 1]
  BY DEF Legible
<1>2. data_buf = Upto(f, u.buf, i) /\ (i >= 4 => next_frame = u.next) /\ tx = <<>>
  BY DEF Reading
<1>3. i \in 0 .. n - 1
  OBVIOUS
<1> HIDE DEF n, u, full
<1>14. n \in Nat /\ n >= 6 /\ u.next \in 4 .. n - 1
  BY ONLY <1>1
<1>4. i \in Nat /\ i <= n - 1 /\ i + 1 \in 1 .. n
  BY ONLY <1>3, <1>14
<1>5. x = FRAME_BYTE <=> i = n - 1
  <2>1. i + 1 = n <=> i = n - 1
    BY ONLY <1>4, <1>14
  <2> QED BY <1>1, <1>4, <2>1
<1>6. /\ Len(data_buf) = i /\ (i >= 4 => data_buf[4] = u.buf[4])
      /\ i < 4 => buf = SubSeq(f, 1, i + 1)
      /\ i >= 4 => buf = Upto(f, u.buf, i + 1)
  BY <1>1, <1>2, UptoNext DEF n
<1>7. Head(toTarget) = x /\ buf = Append(data_buf, x)
  OBVIOUS
<1> HIDE DEF x, buf
<1>8. /\ i < 3 /\ x # FRAME_BYTE => Wait(buf)
      /\ i = 3 /\ x # FRAME_BYTE => Header(buf)
      /\ i >= 4 /\ i < data_buf[4] + 5 /\ x # FRAME_BYTE => Wait(buf)
      /\ i >= 4 /\ ~(i < data_buf[4] + 5) /\ x = FRAME_BYTE => Frame(buf)
  BY <1>4, <1>6, <1>7, GetchGoes
<1>9. CASE i < 3
  <2>1. i < n - 1 /\ i + 1 < 4 /\ ~(i + 1 >= 4) /\ i < 4 /\ i # n - 1
    BY ONLY <1>4, <1>14, <1>9
  <2>2. data_buf' = buf /\ tx' = tx
    BY <1>5, <1>8, <1>9, <2>1 DEF Wait
  <2>3. data_buf' = Upto(f, u.buf, i + 1)
    BY ONLY <1>6, <2>1, <2>2 DEF Upto
  <2>4. Reading(f, i + 1)'
    BY <1>2, <2>1, <2>2, <2>3 DEF Reading, u
  <2> QED BY <2>1, <2>4 DEF n
<1>10. CASE i = 3
  <2>1. i < n - 1 /\ i # n - 1 /\ i + 1 = 4 /\ i < 4 /\ ~(4 < 4)
    BY ONLY <1>4, <1>14, <1>10
  <2>2. Header(buf) /\ UnstuffData(buf, 4) = u
    BY <1>5, <1>6, <1>8, <1>10, <2>1 DEF HeaderOf, u
  <2>3. ~(u.buf[4] + 5 < u.next)
    BY ONLY <1>1
  <2>4. data_buf' = u.buf /\ next_frame' = u.next /\ tx' = tx
    BY <1>1, <2>2, <2>3 DEF Header
  <2>5. u.buf \o SubSeq(f, 5, 4) = u.buf
    <3>1. SubSeq(f, 5, 4) = <<>>
      BY SubSeqEmpty
    <3> QED BY <1>1, <3>1, ConcatEmptySeq
  <2>6. Upto(f, u.buf, 4) = u.buf
    BY <2>1, <2>5 DEF Upto
  <2>7. Reading(f, i + 1)'
    BY <1>2, <2>1, <2>4, <2>6 DEF Reading, u
  <2> QED BY <2>1, <2>7 DEF n
<1>11. CASE i >= 4 /\ i < n - 1
  <2>1. Wait(buf)
    BY <1>1, <1>4, <1>5, <1>6, <1>8, <1>11
  <2>2. data_buf' = Upto(f, u.buf, i + 1) /\ tx' = <<>> /\ next_frame' = u.next
    BY <1>2, <1>6, <1>11, <2>1 DEF Wait
  <2>3. Reading(f, i + 1)'
    BY <2>2 DEF Reading, u
  <2> QED BY <1>11, <2>3 DEF n
<1>12. CASE i = n - 1
  <2>1. i >= 4 /\ ~(i < n - 1) /\ i + 1 = n /\ ~(n < 4)
    BY ONLY <1>4, <1>14, <1>12
  <2>2. Frame(buf)
    BY <1>1, <1>5, <1>6, <1>8, <1>12, <2>1
  <2>3. buf = u.buf \o SubSeq(f, 5, n) /\ next_frame = u.next
    BY <1>2, <1>6, <2>1 DEF Upto
  <2>4. Len(buf) = n
    <3> DEFINE v == u.buf
               t == SubSeq(f, 5, n)
    <3>1. f \in Seq(Byte) /\ Len(f) = n
      BY <1>1 DEF n
    <3>2. t \in Seq(Byte) /\ Len(t) = n - 4
      BY ONLY <1>14, <3>1
    <3>3. v \in Seq(Byte) /\ Len(v) = 4 /\ buf = v \o t
      BY <1>1, <2>3
    <3> HIDE DEF v, t
    <3>4. Len(buf) = Len(v) + Len(t)
      BY ONLY <3>2, <3>3, ConcatProperties
    <3> QED BY ONLY <1>14, <3>2, <3>3, <3>4
  <2> DEFINE j == Len(buf) - 1
             head == SubSeq(buf, 1, next_frame)
             rest == SubSeq(buf, next_frame + 1, j + 1)
             whole == head \o UnstuffData(rest, j - next_frame + 1).buf
  <2>5. j + 1 = n /\ j - next_frame + 1 = n - u.next /\ j - 1 = n - 2 /\ j = n - 1
    <3>1. next_frame = u.next /\ u.next \in 4 .. n - 1 /\ Len(buf) = n
      BY <1>14, <2>3, <2>4
    <3> QED BY ONLY <1>14, <3>1
  <2>6. whole = full
    <3> HIDE DEF j
    <3> DEFINE tail(first) == UnstuffData(first, n - u.next).buf
    <3>1. full = LET b == u.buf \o SubSeq(f, 5, n) IN
                 SubSeq(b, 1, u.next) \o tail(SubSeq(b, u.next + 1, n))
      BY DEF WholeOf, full, u, n
    <3>2. full = SubSeq(buf, 1, u.next)
                   \o tail(SubSeq(buf, u.next + 1, n))
      BY ONLY <2>3, <3>1
    <3>3. head = SubSeq(buf, 1, u.next) /\ rest = SubSeq(buf, u.next + 1, n)
      BY ONLY <2>3, <2>5
    <3>4. whole = SubSeq(buf, 1, u.next) \o tail(rest)
      BY ONLY <2>5, <3>3
    <3> HIDE DEF whole, rest, tail
    <3> QED BY ONLY <3>2, <3>3, <3>4
  <2>7. IF Crc(SubSeq(whole, 2, j - 1)) # whole[j]
          THEN Fail(SS_ERR_CRC)
          ELSE LET d == SubSeq(whole, 5, 4 + whole[4])
                   cb == Callback(whole[2], whole[3], d)
               IN  /\ tx' = cb.put \o ResponseFrame(ACK, <<cb.err>>)
                   /\ key' = cb.key
                   /\ ran' = IF cb.err = SS_ERR_OK
                               THEN Append(ran, [cmd |-> whole[2], scmd |-> whole[3], data |-> d])
                               ELSE ran
                   /\ data_buf' = <<>>
    BY ONLY <2>2, ZenonT(60) DEF Frame, whole, head, rest, j
  <2> HIDE DEF whole, j
  <2>8. Ran(cmd, scmd, data)
    BY ONLY <1>1, <2>5, <2>6, <2>7 DEF Ran
  <2> QED BY <2>1, <2>8 DEF n
<1>13. i < 3 \/ i = 3 \/ (i >= 4 /\ i < n - 1) \/ i = n - 1
  BY ONLY <1>4, <1>14
<1> QED BY <1>9, <1>10, <1>11, <1>12, <1>13

(* A command that is registered and that send_cmd wrote, and whose frame     *)
(* data_buf holds, is read to its end, byte for byte, without an error, from *)
(* the start of a frame on; with the last byte simpleserial_get runs it,     *)
(* with the subcommand and the data the host meant.                          *)
THEOREM CommandRuns ==
    ASSUME NEW cmd \in Byte, \E c \in DOMAIN commands : commands[c] = cmd,
           NEW scmd \in Byte, NEW data \in Seq(Byte), Len(data) + 6 <= MAX_SS_LEN,
           NEW f, f = CommandFrame(cmd, scmd, data),
           NEW i \in 0 .. Len(f) - 1, Reading(f, i), Getch, Head(toTarget) = f[i + 1]
    PROVE  /\ IF i < Len(f) - 1 THEN Reading(f, i + 1)' ELSE Ran(cmd, scmd, data)
           /\ Len(f) <= MAX_SS_LEN
<1>1. Legible(f, cmd, scmd, data)
  BY CommandLegible
<1>2. Len(f) = Len(data) + 6
  BY TargetReadsCommand
<1> QED BY <1>1, <1>2, ReadingStep

-----------------------------------------------------------------------------
(* What the host finds in a packet of the target, stuffed as it comes: the   *)
(* command and the length are at their places, and the first code leads past *)
(* them.                                                                     *)
LEMMA ResponseBytes ==
    ASSUME NEW c \in Byte, c # 0, NEW d, d \in Seq(Byte), Len(d) \in 1 .. 250,
           NEW r, r = ResponseFrame(c, d)
    PROVE  /\ r \in Seq(Byte) /\ Len(r) = Len(d) + 5
           /\ r[1] \in Nat /\ r[1] >= 3 /\ r[2] = c /\ r[3] = Len(d)
           /\ HostUnstuffData(r)[4] = d[1]
<1> DEFINE h == <<c, Len(d)>>
           body == h \o d
           s == <<0>> \o body \o <<Crc(body), FRAME_BYTE>>
           l == Len(d)
<1>1. l \in Nat /\ l \in 1 .. 250 /\ l \in Byte /\ l # 0 /\ d \in Seq(Byte)
  <2>1. \A n \in 1 .. 250 : n \in Nat /\ n # 0 /\ n <= 255
    OBVIOUS
  <2> QED BY <2>1, ByteFacts
<1>2. h \in Seq(Byte) /\ Len(h) = 2 /\ h[1] = c /\ h[2] = l
  BY <1>1
<1>3. r = Packet(body)
  BY DEF ResponseFrame
<1> HIDE DEF h, l
<1>4. /\ body \in Seq(Byte) /\ Len(body) = 2 + l
      /\ body[1] = c /\ body[2] = l /\ body[3] = d[1]
  <2>1. /\ body \in Seq(Byte) /\ Len(body) = Len(h) + Len(d)
        /\ \A k \in 1 .. Len(h) + Len(d) : body[k] = IF k <= Len(h) THEN h[k] ELSE d[k - Len(h)]
    BY ONLY <1>1, <1>2, ConcatProperties
  <2>2. Len(body) = 2 + l
    BY <1>2, <2>1 DEF l
  <2>3. 1 \in 1 .. 2 + l /\ 2 \in 1 .. 2 + l /\ 3 \in 1 .. 2 + l
    BY <1>1
  <2>4. \A k \in 1 .. 2 + l : body[k] = IF k <= 2 THEN h[k] ELSE d[k - 2]
    BY <1>2, <2>1 DEF l
  <2> QED BY <1>2, <2>1, <2>2, <2>3, <2>4
<1> HIDE DEF body
<1>5. Len(body) <= 253
  BY <1>1, <1>4
<1>6. /\ r = Stuff(s) /\ Framed(s) /\ Len(s) = Len(body) + 3
      /\ \A k \in 1 .. Len(body) : s[k + 1] = body[k]
  BY <1>3, <1>4, <1>5, PacketStuffed DEF s
<1> HIDE DEF s
<1>7. /\ Len(s) = l + 5 /\ Len(s) > 1
      /\ s[2] = c /\ s[3] = l /\ s[4] = d[1] /\ s[1] = FRAME_BYTE
  <2>1. 1 \in 1 .. Len(body) /\ 2 \in 1 .. Len(body) /\ 3 \in 1 .. Len(body)
    BY <1>1, <1>4
  <2>2. s[1 + 1] = c /\ s[2 + 1] = l /\ s[3 + 1] = d[1]
    BY <1>4, <1>6, <2>1
  <2> QED BY <1>1, <1>4, <1>6, <2>2 DEF Framed
<1>8. r \in Seq(Byte) /\ Len(r) = l + 5
  BY <1>6, <1>7, StuffAt
<1>9. r[2] = c /\ r[3] = l
  <2>1. 2 \in 2 .. Len(s) /\ 3 \in 2 .. Len(s) /\ s[2] # FRAME_BYTE /\ s[3] # FRAME_BYTE
    BY <1>1, <1>7 DEF FRAME_BYTE
  <2> QED BY <1>6, <1>7, <2>1, StuffAt
<1>10. r[1] \in Nat /\ r[1] >= 3
  <2>1. 1 \in 1 .. Len(s) - 1
    BY <1>1, <1>7
  <2>2. r[1] \in Nat \ {0} /\ s[1 + r[1]] = FRAME_BYTE
    BY <1>6, <1>7, <2>1, StuffAt
  <2>3. r[1] # 1 /\ r[1] # 2
    <3>1. 1 + 1 = 2 /\ 1 + 2 = 3
      OBVIOUS
    <3> QED BY <1>1, <1>7, <2>2, <3>1 DEF FRAME_BYTE
  <2> QED BY ONLY <2>2, <2>3
<1>11. HostUnstuffData(r) = s
  BY <1>6, <1>7, HostInverts
<1> QED BY <1>7, <1>8, <1>9, <1>10, <1>11 DEF l

(* The three bytes simpleserial_read_witherrors starts with hold the length  *)
(* if the first code leads past them.                                        *)
LEMMA HeaderLength ==
    ASSUME NEW b, b \in Seq(Byte), Len(b) = 3, b[1] >= 3
    PROVE  HostUnstuff(b).buf[3] = b[3]
<1> DEFINE step[p \in [buf : Seq(Byte), next : Nat]] ==
             IF p.next < Len(b) - 1 /\ p.buf[p.next + 1] # 0
               THEN [buf |-> [p.buf EXCEPT ![p.next + 1] = FRAME_BYTE],
                     next |-> p.next + p.buf[p.next + 1]]
               ELSE p
           start == [buf |-> [b EXCEPT ![1] = FRAME_BYTE], next |-> b[1]]
           result(p) == [buf |-> p.buf, next |-> IF p.next > Len(b) - 1 THEN p.next ELSE 0]
           f == Pass(Len(b) - 1, start, step)
<1>0. b \in Seq(Byte) /\ Len(b) = 3 /\ Len(b) - 1 = 2 /\ b[1] >= 3
  OBVIOUS
<1>1. 1 \in 1 .. Len(b) /\ b[1] \in Byte /\ b[1] \in Nat
  BY <1>0, ElementOfSeq, ByteFacts
<1>2. HostUnstuff(b) = IF b = <<>> \/ b[1] = FRAME_BYTE
                         THEN [buf |-> b, next |-> 0]
                         ELSE result(f[Len(b) - 1])
  BY DEF HostUnstuff, Pass
<1>3. b # <<>> /\ b[1] # FRAME_BYTE
  BY <1>0, <1>1, EmptySeq DEF FRAME_BYTE
<1>4. start \in [buf : Seq(Byte), next : Nat] /\ start.next = b[1] /\ start.buf[3] = b[3]
  <2>1. [b EXCEPT ![1] = FRAME_BYTE] \in Seq(Byte) /\ [b EXCEPT ![1] = FRAME_BYTE][3] = b[3]
    <3>1. DOMAIN b = 1 .. 3
      BY <1>0
    <3>2. [b EXCEPT ![1] = FRAME_BYTE][3] = b[3]
      BY ONLY <3>1
    <3>3. Zeroed(b, b)
      BY <1>0 DEF Zeroed
    <3>4. [b EXCEPT ![1] = FRAME_BYTE] \in Seq(Byte)
      BY <1>1, <3>3, ZeroedExcept DEF Zeroed
    <3> QED BY <3>2, <3>4
  <2> QED BY <1>1, <2>1
<1>5. step[start] = start
  <2>1. ~(start.next < Len(b) - 1)
    BY <1>0, <1>1, <1>4
  <2> HIDE DEF start
  <2> QED BY <1>4, <2>1
<1> HIDE DEF step, start
<1>6. f[0] = start /\ \A k \in 1 .. Len(b) - 1 : f[k] = step[f[k - 1]]
  <2> DEFINE S == {start}
             n == Len(b) - 1
  <2>1. start \in S /\ \A p \in S : step[p] \in S
    BY <1>5
  <2>2. n \in Nat
    BY <1>0
  <2> HIDE DEF S, n
  <2>3. Pass(n, start, step)[0] = start
        /\ \A k \in 1 .. n : Pass(n, start, step)[k] = step[Pass(n, start, step)[k - 1]]
    BY ONLY <2>1, <2>2, PassSteps
  <2> QED BY <2>3 DEF n
<1>7. f[Len(b) - 1] = start
  <2>1. f[1] = step[f[1 - 1]] /\ f[2] = step[f[2 - 1]] /\ 1 - 1 = 0 /\ 2 - 1 = 1
    BY <1>0, <1>6
  <2> QED BY <1>0, <1>5, <1>6, <2>1
<1> HIDE DEF f
<1>8. HostUnstuff(b).buf = start.buf
  BY <1>2, <1>3, <1>7
<1> QED BY <1>4, <1>8

-----------------------------------------------------------------------------
(* A clean line: nothing is lost or garbled, and the waits whose outcome     *)
(* nobody looks at are long enough.                                          *)

\* The sleep of reset_comms and the glitch_timeout outlast the target.
Prompt == {"reset", "glitch"} \subseteq Settles

\* What the user sends are blocks, as the firmware's commands expect.
Blocks == BlockLen # 0 /\ \A p \in Range(Plaintexts) \cup Keys : Len(p) = BlockLen

\* What the target answers to a request: a packet with its data, if it has any,
\* and the 'e' packet with its code.
Code(q) == IF q.call = "bad" THEN SS_ERR_CMD ELSE SS_ERR_OK
DataOf(q) == IF q.call = "list" THEN commands ELSE q.data
First(q) == IF q.call \in {"key", "bad"} THEN <<>> ELSE ResponseFrame(RESPONSE, DataOf(q))
Answer(q) == First(q) \o ResponseFrame(ACK, <<Code(q)>>)

\* r is n bytes of a after the first j.
Had(r, a, n, j) == Len(r) = n /\ \A k \in 1 .. n : r[k] = a[j + k]

(* What the host relies on in an answer. *)
LEMMA AnswerShape ==
    ASSUME Blocks, NEW q, q \in AllRequests, NEW f, f = First(q), NEW a, a = Answer(q)
    PROVE  /\ a \in Seq(Byte) /\ Len(f) \in Nat /\ Len(a) = Len(f) + 6
           /\ q.call \in {"pt", "errs", "errs3", "list"} =>
                /\ Len(f) \in Nat /\ Len(f) >= 6
                /\ a[1] \in Nat /\ a[1] >= 3 /\ a[2] = RESPONSE /\ a[3] = Len(f) - 5
           /\ q.call \in WithErrors => Len(f) = 5 + Len(q.data)
           /\ q.call \in {"key", "bad"} => f = <<>> /\ Len(f) = 0
           /\ a[Len(f) + 2] = ACK /\ a[Len(f) + 3] = 1
           /\ \A r : r \in Seq(Byte) /\ Had(r, a, 6, Len(f)) => HostUnstuffData(r)[4] = Code(q)
<1> DEFINE e == ResponseFrame(ACK, <<Code(q)>>)
           d == DataOf(q)
<1>1. /\ e \in Seq(Byte) /\ Len(e) = 6 /\ e[2] = ACK /\ e[3] = 1
      /\ HostUnstuffData(e)[4] = Code(q)
  <2> DEFINE s == <<Code(q)>>
  <2>1. ACK \in Byte /\ ACK # 0 /\ Code(q) \in Byte
    BY DEF ACK, Byte, Code, SS_ERR_CMD, SS_ERR_OK
  <2>2. s \in Seq(Byte) /\ Len(s) = 1 /\ s[1] = Code(q)
    BY <2>1
  <2> HIDE DEF s
  <2>3. Len(s) \in 1 .. 250
    BY <2>2
  <2>4. e = ResponseFrame(ACK, s)
    BY DEF s
  <2> HIDE DEF e
  <2>5. /\ e \in Seq(Byte) /\ Len(e) = Len(s) + 5
        /\ e[1] \in Nat /\ e[1] >= 3 /\ e[2] = ACK /\ e[3] = Len(s)
        /\ HostUnstuffData(e)[4] = s[1]
    <3>1. ACK \in Byte /\ ACK # 0 /\ s \in Seq(Byte)
      BY <2>1, <2>2
    <3> QED BY ONLY <2>3, <2>4, <3>1, ResponseBytes
  <2> QED BY <2>2, <2>5
<1>2. a = f \o e
  BY DEF Answer
<1> HIDE DEF e
<1>3. /\ f \in Seq(Byte) /\ Len(f) \in Nat
      /\ q.call \in {"pt", "errs", "errs3", "list"} =>
           /\ Len(f) \in Nat /\ Len(f) >= 6 /\ Len(f) = Len(d) + 5
           /\ f[1] \in Nat /\ f[1] >= 3 /\ f[2] = RESPONSE /\ f[3] = Len(f) - 5
      /\ q.call \in {"key", "bad"} => f = <<>> /\ Len(f) = 0
  <2>1. CASE q.call \in {"key", "bad"}
    <3>1. f = <<>>
      BY <2>1 DEF First
    <3>2. q.call \notin {"pt", "errs", "errs3", "list"}
      BY <2>1
    <3> QED BY <3>1, <3>2, EmptySeq
  <2>2. CASE ~(q.call \in {"key", "bad"})
    <3>1. f = ResponseFrame(RESPONSE, d)
      BY <2>2 DEF First
    <3>2. d \in Seq(Byte) /\ Len(d) \in 1 .. 250
      <4>1. CASE q.call = "list"
        <5>1. CMD_VERSION \in Byte /\ CMD_COMMANDS \in Byte /\ CMD_AES \in Byte
          BY DEF CMD_VERSION, CMD_COMMANDS, CMD_AES, Byte
        <5> QED BY <4>1, <5>1 DEF DataOf, commands
      <4>2. CASE q.call # "list"
        <5>1. d = q.data /\ q.data \in Range(Plaintexts)
          BY <2>2, <4>2 DEF DataOf, AllRequests
        <5>2. q \in Writable
          BY DEF Writable
        <5>3. d \in Seq(Byte) /\ Len(d) <= 243 /\ Len(d) = BlockLen /\ BlockLen # 0
          BY <5>1, <5>2, RequestType DEF Blocks
        <5> HIDE DEF d
        <5>4. Len(d) \in Nat
          BY <5>3, LenProperties
        <5>5. Len(d) # 0
          BY <5>3
        <5>6. \A n \in Nat : n <= 243 /\ n # 0 => n \in 1 .. 250
          OBVIOUS
        <5> QED BY ONLY <5>3, <5>4, <5>5, <5>6
      <4> QED BY <4>1, <4>2
    <3> HIDE DEF d
    <3>3. RESPONSE \in Byte /\ RESPONSE # 0
      BY DEF RESPONSE, Byte
    <3>4. /\ f \in Seq(Byte) /\ Len(f) = Len(d) + 5
          /\ f[1] \in Nat /\ f[1] >= 3 /\ f[2] = RESPONSE /\ f[3] = Len(d)
      BY ONLY <3>1, <3>2, <3>3, ResponseBytes
    <3>5. Len(f) \in Nat /\ Len(f) >= 6 /\ Len(d) = Len(f) - 5
      <4>1. \A n \in 1 .. 250 : n + 5 \in Nat /\ n + 5 >= 6 /\ n = (n + 5) - 5
        OBVIOUS
      <4> QED BY ONLY <3>2, <3>4, <4>1
    <3> QED BY <2>2, <3>4, <3>5
  <2> QED BY <2>1, <2>2
<1>4. q.call \in WithErrors => d = q.data /\ q.call \in {"errs", "errs3"}
  BY DEF WithErrors, DataOf
<1> HIDE DEF d
<1>5. /\ a \in Seq(Byte) /\ Len(a) = Len(f) + 6
      /\ \A k \in 1 .. Len(f) + 6 : a[k] = IF k <= Len(f) THEN f[k] ELSE e[k - Len(f)]
  <2>1. /\ a \in Seq(Byte) /\ Len(a) = Len(f) + Len(e)
        /\ \A k \in 1 .. Len(f) + Len(e) : a[k] = IF k <= Len(f) THEN f[k] ELSE e[k - Len(f)]
    <3>1. f \in Seq(Byte) /\ e \in Seq(Byte)
      BY <1>1, <1>3
    <3> QED BY ONLY <1>2, <3>1, ConcatProperties
  <2>2. Len(e) = 6
    BY <1>1
  <2> QED BY ONLY <2>1, <2>2
<1>6. ASSUME NEW k \in 1 .. 6 PROVE a[Len(f) + k] = e[k]
  <2>1. Len(f) + k \in 1 .. Len(f) + 6 /\ ~(Len(f) + k <= Len(f)) /\ (Len(f) + k) - Len(f) = k
    BY <1>3
  <2> QED BY <1>5, <2>1
<1>7. a[Len(f) + 2] = ACK /\ a[Len(f) + 3] = 1
  <2>1. 2 \in 1 .. 6 /\ 3 \in 1 .. 6
    OBVIOUS
  <2> QED BY <1>1, <1>6, <2>1
<1>8. ASSUME q.call \in {"pt", "errs", "errs3", "list"}
      PROVE  a[1] = f[1] /\ a[2] = f[2] /\ a[3] = f[3]
  <2>1. \A k \in 1 .. 3 : k \in 1 .. Len(f) + 6 /\ k <= Len(f)
    BY <1>3, <1>8
  <2>2. \A k \in 1 .. 3 : a[k] = f[k]
    BY <1>5, <2>1
  <2> QED BY <2>2
<1>9. ASSUME NEW r, r \in Seq(Byte), Len(r) = 6, \A k \in 1 .. 6 : r[k] = a[Len(f) + k]
      PROVE  HostUnstuffData(r)[4] = Code(q)
  <2>1. \A k \in 1 .. 6 : r[k] = e[k]
    BY <1>6, <1>9
  <2>2. r = e
    BY ONLY <1>1, <1>9, <2>1, SeqEqual
  <2> QED BY <1>1, <2>2
<1>10. \A r : r \in Seq(Byte) /\ Had(r, a, 6, Len(f)) => HostUnstuffData(r)[4] = Code(q)
  BY <1>9 DEF Had
<1>11. q.call \in WithErrors => Len(f) = 5 + Len(q.data)
  <2>1. ASSUME q.call \in WithErrors PROVE Len(f) = 5 + Len(q.data)
    <3>1. Len(f) = Len(q.data) + 5 /\ Len(f) \in Nat
      BY <1>3, <1>4, <2>1
    <3>2. Len(q.data) \in Nat
      <4>1. q \in Writable
        BY DEF Writable
      <4> QED BY <4>1, RequestType, LenProperties
    <3> QED BY <3>1, <3>2
  <2> QED BY <2>1
<1> QED BY <1>3, <1>5, <1>7, <1>8, <1>10, <1>11

\* What comes to the host, of which h is on its way and t still to be written,
\* is the sequence a after its first j bytes, and maybe more.
Stream(h, t, k) == IF k <= Len(h) THEN h[k] ELSE t[k - Len(h)]
Follows(h, t, a, j) ==
    /\ j <= Len(a) /\ Len(h) + Len(t) >= Len(a) - j
    /\ \A k \in 1 .. Len(a) - j : Stream(h, t, k) = a[j + k]

(* The target writes a byte. *)
LEMMA FollowsPut ==
    ASSUME NEW h, h \in Seq(Byte), NEW t, t \in Seq(Byte), t # <<>>,
           NEW a, a \in Seq(Byte), NEW j, j \in Nat, Follows(h, t, a, j)
    PROVE  /\ Follows(Append(h, Head(t)), Tail(t), a, j)
           /\ Len(Append(h, Head(t))) + Len(Tail(t)) = Len(h) + Len(t)
<1> DEFINE g == Append(h, Head(t))
           u == Tail(t)
<1>0. g = Append(h, Head(t)) /\ u = Tail(t)
  OBVIOUS
<1> HIDE DEF g, u
<1>1. /\ Head(t) \in Byte /\ u \in Seq(Byte) /\ Len(u) = Len(t) - 1
      /\ \A i \in 1 .. Len(u) : u[i] = t[i + 1]
  BY <1>0, HeadTailProperties
<1>2. Head(t) = t[1]
  OBVIOUS
<1>3. /\ Len(g) = Len(h) + 1 /\ (\A i \in 1 .. Len(h) : g[i] = h[i]) /\ g[Len(h) + 1] = t[1]
  <2> DEFINE x == Head(t)
  <2>1. x \in Byte /\ x = t[1] /\ g = Append(h, x) /\ h \in Seq(Byte)
    BY <1>0, <1>1, <1>2
  <2> HIDE DEF x
  <2> QED BY ONLY <2>1, AppendProperties
<1>4. Len(h) \in Nat /\ Len(t) \in Nat /\ Len(t) # 0 /\ Len(a) \in Nat
  BY LenProperties, EmptySeq
<1>5. Len(g) + Len(u) = Len(h) + Len(t)
  BY ONLY <1>1, <1>3, <1>4
<1>6. ASSUME NEW k, k \in 1 .. Len(a) - j PROVE Stream(g, u, k) = a[j + k]
  <2>1. k \in Nat /\ k >= 1 /\ k <= Len(h) + Len(t) /\ Stream(h, t, k) = a[j + k]
    <3>1. k \in Nat /\ k >= 1 /\ k <= Len(a) - j /\ j \in Nat
      BY <1>4, <1>6
    <3>2. Len(h) + Len(t) >= Len(a) - j /\ Stream(h, t, k) = a[j + k]
      BY <1>6 DEF Follows
    <3> QED BY ONLY <1>4, <3>1, <3>2
  <2>2. CASE k <= Len(h)
    <3>1. k <= Len(h) + 1 /\ k \in 1 .. Len(h)
      BY ONLY <1>4, <2>1, <2>2
    <3>2. Stream(g, u, k) = g[k] /\ Stream(h, t, k) = h[k]
      BY ONLY <1>3, <2>2, <3>1 DEF Stream
    <3> QED BY ONLY <1>3, <2>1, <3>1, <3>2
  <2>3. CASE k = Len(h) + 1
    <3>1. ~(k <= Len(h)) /\ k - Len(h) = 1 /\ k <= Len(h) + 1
      BY ONLY <1>4, <2>3
    <3>2. Stream(g, u, k) = g[k] /\ Stream(h, t, k) = t[1]
      BY ONLY <1>3, <3>1 DEF Stream
    <3> QED BY ONLY <1>3, <2>1, <2>3, <3>2
  <2>4. CASE k > Len(h) + 1
    <3>1. /\ ~(k <= Len(h)) /\ ~(k <= Len(h) + 1)
          /\ k - (Len(h) + 1) \in 1 .. Len(t) - 1 /\ (k - (Len(h) + 1)) + 1 = k - Len(h)
      BY ONLY <1>4, <2>1, <2>4
    <3>2. Stream(g, u, k) = u[k - (Len(h) + 1)] /\ Stream(h, t, k) = t[k - Len(h)]
      BY ONLY <1>3, <3>1 DEF Stream
    <3>3. u[k - (Len(h) + 1)] = t[(k - (Len(h) + 1)) + 1]
      BY ONLY <1>1, <3>1
    <3>4. u[k - (Len(h) + 1)] = t[k - Len(h)]
      BY ONLY <3>1, <3>3
    <3> QED BY ONLY <2>1, <3>2, <3>4
  <2>5. k <= Len(h) \/ k = Len(h) + 1 \/ k > Len(h) + 1
    BY ONLY <1>4, <2>1
  <2> QED BY ONLY <2>2, <2>3, <2>4, <2>5
<1>7. \A k \in 1 .. Len(a) - j : Stream(g, u, k) = a[j + k]
  BY <1>6
<1>8. j <= Len(a) /\ Len(h) + Len(t) >= Len(a) - j
  BY DEF Follows
<1>9. Len(g) + Len(u) >= Len(a) - j
  BY ONLY <1>5, <1>8
<1> QED BY ONLY <1>0, <1>5, <1>7, <1>8, <1>9 DEF Follows

(* The host reads n bytes. *)
LEMMA FollowsTake ==
    ASSUME NEW h, h \in Seq(Byte), NEW t, t \in Seq(Byte),
           NEW a, a \in Seq(Byte), NEW j, j \in Nat, Follows(h, t, a, j),
           NEW n, n \in Nat, n <= Len(h), j + n <= Len(a)
    PROVE  /\ Follows(SubSeq(h, n + 1, Len(h)), t, a, j + n)
           /\ Len(SubSeq(h, n + 1, Len(h))) = Len(h) - n
           /\ SubSeq(h, 1, n) \in Seq(Byte) /\ Had(SubSeq(h, 1, n), a, n, j)
<1> DEFINE g == SubSeq(h, n + 1, Len(h))
           r == SubSeq(h, 1, n)
<1>0. g = SubSeq(h, n + 1, Len(h)) /\ r = SubSeq(h, 1, n)
  OBVIOUS
<1> HIDE DEF g, r
<1>1. Len(h) \in Nat /\ Len(t) \in Nat /\ Len(a) \in Nat /\ n \in Nat /\ j \in Nat /\ n <= Len(h)
  BY LenProperties
<1>2. \A i \in 1 .. Len(h) : h[i] \in Byte
  BY ElementOfSeq
<1>3. /\ r \in Seq(Byte) /\ Len(r) = n
      /\ \A k \in 1 .. n : r[k] = h[k]
  <2>1. 1 \in Int /\ n \in Int /\ \A i \in 1 .. n : h[i] \in Byte
    BY ONLY <1>1, <1>2
  <2>2. /\ SubSeq(h, 1, n) \in Seq(Byte)
        /\ Len(SubSeq(h, 1, n)) = IF 1 <= n THEN n - 1 + 1 ELSE 0
        /\ \A i \in 1 .. n - 1 + 1 : SubSeq(h, 1, n)[i] = h[1 + i - 1]
    BY ONLY <2>1, SubSeqProperties
  <2>3. n - 1 + 1 = n /\ (~(1 <= n) => n = 0) /\ \A i \in 1 .. n : 1 + i - 1 = i
    BY ONLY <1>1
  <2>4. \A i \in 1 .. n : SubSeq(h, 1, n)[i] = h[i]
    BY ONLY <2>2, <2>3
  <2>5. Len(SubSeq(h, 1, n)) = n
    BY ONLY <2>2, <2>3
  <2> QED BY <1>0, <2>2, <2>4, <2>5
<1>4. /\ Len(g) = Len(h) - n
      /\ \A k \in 1 .. Len(h) - n : g[k] = h[n + k]
  <2> DEFINE l == Len(h)
  <2>1. n + 1 \in Int /\ l \in Int /\ \A i \in n + 1 .. l : h[i] \in Byte
    BY ONLY <1>1, <1>2
  <2>2. /\ Len(SubSeq(h, n + 1, l)) = IF n + 1 <= l THEN l - (n + 1) + 1 ELSE 0
        /\ \A i \in 1 .. l - (n + 1) + 1 : SubSeq(h, n + 1, l)[i] = h[n + 1 + i - 1]
    <3> HIDE DEF l
    <3> QED BY ONLY <2>1, SubSeqProperties
  <2>3. l \in Nat /\ n <= l
    BY <1>1
  <2>4. g = SubSeq(h, n + 1, l)
    BY <1>0
  <2> HIDE DEF l
  <2>5. /\ l - (n + 1) + 1 = l - n /\ (~(n + 1 <= l) => l - n = 0)
        /\ \A i \in 1 .. l - n : n + 1 + i - 1 = n + i
    BY ONLY <1>1, <2>3
  <2>6. \A i \in 1 .. l - n : g[i] = h[n + i]
    BY ONLY <2>2, <2>4, <2>5
  <2>7. Len(g) = l - n
    BY ONLY <2>2, <2>4, <2>5
  <2> QED BY <2>6, <2>7 DEF l
<1>5. j <= Len(a) /\ Len(h) + Len(t) >= Len(a) - j
  BY DEF Follows
<1>6. ASSUME NEW k, k \in 1 .. n PROVE r[k] = a[j + k]
  <2>1. k \in 1 .. n
    BY <1>6
  <2>2. k \in 1 .. Len(a) - j /\ k <= Len(h)
    <3>1. j + n <= Len(a)
      OBVIOUS
    <3> QED BY ONLY <1>1, <2>1, <3>1
  <2>3. Stream(h, t, k) = a[j + k]
    BY <2>2 DEF Follows
  <2>4. Stream(h, t, k) = h[k]
    BY ONLY <2>2 DEF Stream
  <2> QED BY ONLY <1>3, <2>1, <2>3, <2>4
<1>7. ASSUME NEW k, k \in 1 .. Len(a) - (j + n) PROVE Stream(g, t, k) = a[(j + n) + k]
  <2>1. k \in 1 .. Len(a) - (j + n) /\ k \in Nat /\ k >= 1
    BY <1>1, <1>7
  <2>2. n + k \in 1 .. Len(a) - j /\ j + (n + k) = (j + n) + k
    BY ONLY <1>1, <2>1
  <2>3. Stream(h, t, n + k) = a[j + (n + k)]
    BY <2>2 DEF Follows
  <2>4. Stream(g, t, k) = Stream(h, t, n + k)
    <3>1. CASE k <= Len(g)
      <4>1. k \in 1 .. Len(h) - n /\ n + k <= Len(h)
        BY ONLY <1>1, <1>4, <2>1, <3>1
      <4>2. Stream(g, t, k) = g[k] /\ Stream(h, t, n + k) = h[n + k]
        BY ONLY <3>1, <4>1 DEF Stream
      <4> QED BY ONLY <1>4, <4>1, <4>2
    <3>2. CASE ~(k <= Len(g))
      <4>1. ~(n + k <= Len(h)) /\ k - Len(g) = (n + k) - Len(h)
        BY ONLY <1>1, <1>4, <2>1, <3>2
      <4> QED BY ONLY <3>2, <4>1 DEF Stream
    <3> QED BY ONLY <3>1, <3>2
  <2> QED BY ONLY <2>2, <2>3, <2>4
<1>8. j + n <= Len(a) /\ Len(g) + Len(t) >= Len(a) - (j + n)
  <2>1. j + n <= Len(a)
    OBVIOUS
  <2> QED BY ONLY <1>1, <1>4, <1>5, <2>1
<1>9. Follows(g, t, a, j + n)
  <2>1. \A k \in 1 .. Len(a) - (j + n) : Stream(g, t, k) = a[(j + n) + k]
    BY <1>7
  <2> QED BY ONLY <1>8, <2>1 DEF Follows
<1>10. Had(r, a, n, j)
  <2>1. \A k \in 1 .. n : r[k] = a[j + k]
    BY <1>6
  <2> QED BY ONLY <1>3, <2>1 DEF Had
<1> QED BY ONLY <1>0, <1>3, <1>4, <1>9, <1>10

(* The target answers, with nothing left to write or of all of a. *)
LEMMA FollowsGet ==
    ASSUME NEW h, h \in Seq(Byte), NEW t, t \in Seq(Byte),
           NEW a, a \in Seq(Byte), NEW j, j \in Nat, Follows(h, <<>>, a, j)
    PROVE  Follows(h, t, a, j)
<1>1. Len(h) \in Nat /\ Len(t) \in Nat /\ Len(a) \in Nat /\ j \in Nat /\ Len(<<>>) = 0
  BY LenProperties, EmptySeq
<1>2. j <= Len(a) /\ Len(h) + Len(<<>>) >= Len(a) - j
  BY DEF Follows
<1>3. j <= Len(a) /\ Len(h) >= Len(a) - j /\ Len(h) + Len(t) >= Len(a) - j
  BY ONLY <1>1, <1>2
<1>4. ASSUME NEW k, k \in 1 .. Len(a) - j PROVE Stream(h, t, k) = a[j + k]
  <2>1. Stream(h, <<>>, k) = a[j + k]
    BY <1>4 DEF Follows
  <2>2. k <= Len(h)
    <3>1. k \in 1 .. Len(a) - j
      BY <1>4
    <3> QED BY ONLY <1>1, <1>3, <3>1
  <2> QED BY ONLY <2>1, <2>2 DEF Stream
<1> QED BY <1>3, <1>4 DEF Follows

(* A sequence that is still to be written is all to come. *)
LEMMA FollowsAll ==
    ASSUME NEW a, a \in Seq(Byte)
    PROVE  Follows(<<>>, a, a, 0)
<1>1. Len(a) \in Nat /\ Len(<<>>) = 0
  BY LenProperties, EmptySeq
<1>2. 0 <= Len(a) /\ Len(<<>>) + Len(a) >= Len(a) - 0
  BY ONLY <1>1
<1>3. ASSUME NEW k, k \in 1 .. Len(a) - 0 PROVE Stream(<<>>, a, k) = a[0 + k]
  <2>1. k \in 1 .. Len(a) - 0
    BY <1>3
  <2>2. ~(k <= Len(<<>>)) /\ k - Len(<<>>) = k /\ 0 + k = k
    BY ONLY <1>1, <2>1
  <2> QED BY ONLY <2>2 DEF Stream
<1> QED BY <1>2, <1>3 DEF Follows

(* The bytes of two reads. *)
LEMMA HadMore ==
    ASSUME NEW r, r \in Seq(Byte), NEW s, s \in Seq(Byte), NEW a, NEW n, n \in Nat,
           NEW m, m \in Nat, NEW j, j \in Nat, Had(r, a, n, j), Had(s, a, m, j + n)
    PROVE  r \o s \in Seq(Byte) /\ Had(r \o s, a, n + m, j)
<1>1. /\ n \in Nat /\ m \in Nat /\ j \in Nat /\ Len(r) = n /\ Len(s) = m
      /\ \A k \in 1 .. n : r[k] = a[j + k]
      /\ \A k \in 1 .. m : s[k] = a[(j + n) + k]
  BY DEF Had
<1> DEFINE b == r \o s
<1>2. /\ b \in Seq(Byte) /\ Len(b) = Len(r) + Len(s)
      /\ \A k \in 1 .. Len(r) + Len(s) : b[k] = IF k <= Len(r) THEN r[k] ELSE s[k - Len(r)]
  <2>1. r \in Seq(Byte) /\ s \in Seq(Byte)
    OBVIOUS
  <2> QED BY ONLY <2>1, ConcatProperties
<1> HIDE DEF b
<1>3. ASSUME NEW k, k \in 1 .. n + m PROVE b[k] = a[j + k]
  <2>1. b[k] = IF k <= n THEN r[k] ELSE s[k - n]
    BY ONLY <1>1, <1>2, <1>3
  <2>2. CASE k <= n
    <3>1. k \in 1 .. n
      BY ONLY <1>1, <1>3, <2>2
    <3> QED BY ONLY <1>1, <2>1, <2>2, <3>1
  <2>3. CASE ~(k <= n)
    <3>1. k - n \in 1 .. m /\ (j + n) + (k - n) = j + k
      BY ONLY <1>1, <1>3, <2>3
    <3>2. s[k - n] = a[(j + n) + (k - n)]
      BY ONLY <1>1, <3>1
    <3> QED BY ONLY <2>1, <2>3, <3>1, <3>2
  <2> QED BY ONLY <2>2, <2>3
<1>4. Len(b) = n + m
  BY ONLY <1>1, <1>2
<1>5. Had(b, a, n + m, j)
  <2>1. \A k \in 1 .. n + m : b[k] = a[j + k]
    BY <1>3
  <2> QED BY ONLY <1>4, <2>1 DEF Had
<1> QED BY <1>2, <1>5 DEF b

\* The command of q has run, last of all.
CurRan(q) == ran # <<>> /\ Last(ran) = [cmd |-> q.cmd, scmd |-> q.scmd, data |-> q.data]

\* The target is reading what send_cmd wrote and has not answered.
Asked(q) ==
    /\ toHost = <<>>
    /\ \E i \in 0 .. Len(FrameOf(q)) - 1 :
         /\ Reading(FrameOf(q), i)
         /\ q.call = "bad" => i < 4
         /\ Len(toTarget) = Len(FrameOf(q)) - i
         /\ \A k \in 1 .. Len(FrameOf(q)) - i : toTarget[k] = FrameOf(q)[i + k]

\* It has answered, and the host has read j bytes of that.  (What it makes of the
\* rest of a command it does not know comes after the code.)
Answered(q, j) ==
    /\ Follows(toHost, tx, Answer(q), j)
    /\ q.call # "bad" =>
         /\ toTarget = <<>>
         /\ Len(toHost) + Len(tx) = Len(Answer(q)) - j
         /\ CurRan(q)

\* Nothing is on its way, in either direction.
Settled == toTarget = <<>> /\ tx = <<>> /\ toHost = <<>>

\* ran is a sequence.
Recorded == \E S : ran \in Seq(S)

(* A command more has run. *)
LEMMA RanAppends ==
    ASSUME Recorded, NEW x, ran' = Append(ran, x)
    PROVE  Recorded' /\ ran' # <<>> /\ Last(ran') = x
<1>1. PICK S : ran \in Seq(S)
  BY DEF Recorded
<1> DEFINE T == S \cup {x}
<1>2. PICK r, s : r = ran /\ s = Append(r, x)
  OBVIOUS
<1>3. r \in [1 .. Len(r) -> S] /\ Len(r) \in Nat
  BY <1>1, <1>2, LenProperties
<1>4. r \in [1 .. Len(r) -> T]
  BY <1>3
<1>5. r \in Seq(T) /\ x \in T
  <2>1. Seq(T) = UNION {[1 .. n -> T] : n \in Nat}
    BY SeqDef
  <2> QED BY <1>3, <1>4, <2>1
<1> HIDE DEF T
<1>6. s \in Seq(T) /\ s # <<>> /\ Len(s) = Len(r) + 1 /\ s[Len(r) + 1] = x
  BY ONLY <1>2, <1>5, AppendProperties
<1>7. ran' = s
  BY <1>2
<1> QED BY <1>6, <1>7 DEF Recorded, Last

(* Nothing else is done to ran. *)
LEMMA RecordedStep ==
    ASSUME Recorded, Getch
    PROVE  Recorded'
<1>1. ran' = ran \/ \E x : ran' = Append(ran, x)
  <2> DEFINE buf == Append(data_buf, Head(toTarget))
  <2>1. ASSUME NEW err, Fail(err) PROVE ran' = ran
    BY <2>1 DEF Fail
  <2>2. Wait(buf) => ran' = ran
    BY DEF Wait
  <2>3. Header(buf) => ran' = ran
    BY DEF Header, Fail
  <2>4. Frame(buf) => ran' = ran \/ \E x : ran' = Append(ran, x)
    BY DEF Frame, Fail
  <2>5. (\E err : Fail(err)) \/ Wait(buf) \/ Header(buf) \/ Frame(buf)
    BY ZenonT(30) DEF Getch
  <2> QED BY <2>1, <2>2, <2>3, <2>4, <2>5
<1>2. CASE ran' = ran
  BY <1>2 DEF Recorded
<1>3. CASE \E x : ran' = Append(ran, x)
  BY <1>3, RanAppends
<1> QED BY <1>1, <1>2, <1>3

(* A request of a registered command is one its callback is content with.    *)
LEMMA RequestRuns ==
    ASSUME Blocks, NEW q, q \in AllRequests, q.call # "bad"
    PROVE  /\ \E c \in DOMAIN commands : commands[c] = q.cmd
           /\ Callback(q.cmd, q.scmd, q.data).err = SS_ERR_OK
           /\ Callback(q.cmd, q.scmd, q.data).put = First(q)
<1>1. q \in Writable
  BY DEF Writable
<1>2. q.data \in Seq(Byte) /\ Len(q.data) \in Nat
  BY <1>1, RequestType, LenProperties
<1>3. /\ CMD_AES # CMD_VERSION /\ CMD_AES # CMD_COMMANDS /\ CMD_COMMANDS # CMD_VERSION
  BY DEF CMD_AES, CMD_VERSION, CMD_COMMANDS
<1>4. commands[3] = CMD_AES /\ commands[2] = CMD_COMMANDS /\ DOMAIN commands = 1 .. 3
  BY DEF commands
<1>5. /\ (1 \div 2) % 2 = 0 /\ 1 % 2 = 1 /\ (2 \div 2) % 2 = 1 /\ 2 % 2 = 0
      /\ 0 # 1
  OBVIOUS
<1>6. BlockLen \in Nat
  BY BlockLenAssumption DEF MAX_SS_LEN
<1>7. CASE q.call \in {"pt", "errs", "errs3"}
  <2>1. q.cmd = CMD_AES /\ q.scmd = 1 /\ q.data \in Range(Plaintexts)
    BY <1>7 DEF AllRequests
  <2>2. Len(q.data) = BlockLen
    BY <2>1 DEF Blocks
  <2>3. First(q) = ResponseFrame(RESPONSE, q.data)
    BY <1>7 DEF First, DataOf
  <2>4. SubSeq(q.data, 1, BlockLen) = q.data
    <3> DEFINE d == q.data
    <3>1. d \in Seq(Byte) /\ Len(d) = BlockLen
      BY <1>2, <2>2
    <3> HIDE DEF d
    <3>2. SubSeq(d, 1, Len(d)) = d
      BY ONLY <3>1
    <3> QED BY <3>1, <3>2 DEF d
  <2> DEFINE cb == Callback(q.cmd, q.scmd, q.data)
  <2>5. cb = [err |-> IF Len(q.data) = 0 + BlockLen THEN SS_ERR_OK ELSE SS_ERR_LEN,
              put |-> IF 0 + BlockLen <= Len(q.data)
                        THEN ResponseFrame(RESPONSE, SubSeq(q.data, 0 + 1, 0 + BlockLen))
                        ELSE <<>>,
              key |-> key]
    BY ONLY <1>3, <1>5, <2>1 DEF Callback
  <2>6. 0 + BlockLen = BlockLen /\ 0 + 1 = 1 /\ BlockLen <= BlockLen
    BY <1>6
  <2> HIDE DEF cb
  <2>7. cb.err = SS_ERR_OK /\ cb.put = First(q)
    <3>1. cb.err = IF Len(q.data) = 0 + BlockLen THEN SS_ERR_OK ELSE SS_ERR_LEN
      BY ONLY <2>5
    <3>2. cb.put = IF 0 + BlockLen <= Len(q.data)
                     THEN ResponseFrame(RESPONSE, SubSeq(q.data, 0 + 1, 0 + BlockLen))
                     ELSE <<>>
      BY ONLY <2>5
    <3>3. cb.put = ResponseFrame(RESPONSE, SubSeq(q.data, 0 + 1, 0 + BlockLen))
      BY ONLY <2>2, <2>6, <3>2
    <3>4. SubSeq(q.data, 0 + 1, 0 + BlockLen) = q.data
      BY ONLY <2>4, <2>6
    <3> QED BY ONLY <2>2, <2>3, <2>6, <3>1, <3>3, <3>4
  <2>8. 3 \in 1 .. 3
    OBVIOUS
  <2> QED BY <1>4, <2>1, <2>7, <2>8 DEF cb
<1>8. CASE q.call = "key"
  <2>1. q.cmd = CMD_AES /\ q.scmd = 2 /\ q.data \in Keys
    BY <1>8 DEF AllRequests
  <2>2. Len(q.data) = BlockLen
    BY <2>1 DEF Blocks
  <2>3. First(q) = <<>>
    BY <1>8 DEF First
  <2> DEFINE cb == Callback(q.cmd, q.scmd, q.data)
  <2>4. /\ cb.err = IF Len(q.data) = BlockLen THEN SS_ERR_OK ELSE SS_ERR_LEN
        /\ cb.put = <<>>
    BY ONLY <1>3, <1>5, <2>1 DEF Callback
  <2>5. 3 \in 1 .. 3
    OBVIOUS
  <2> QED BY <1>4, <2>1, <2>2, <2>3, <2>4, <2>5
<1>9. CASE q.call = "list"
  <2>1. q.cmd = CMD_COMMANDS
    BY <1>9 DEF AllRequests
  <2>2. First(q) = ResponseFrame(RESPONSE, commands)
    BY <1>9 DEF First, DataOf
  <2> DEFINE cb == Callback(q.cmd, q.scmd, q.data)
  <2>3. cb.err = SS_ERR_OK /\ cb.put = CommandsResponse
    BY ONLY <1>3, <2>1 DEF Callback
  <2>4. 2 \in 1 .. 3
    OBVIOUS
  <2> QED BY <1>4, <2>1, <2>2, <2>3, <2>4 DEF CommandsResponse
<1>10. q.call \in {"pt", "errs", "errs3", "key", "list"}
  BY DEF AllRequests
<1> QED BY <1>7, <1>8, <1>9, <1>10

(* A command no callback is registered for is one. *)
LEMMA UnknownIsNot ==
    ASSUME NEW q, q \in AllRequests, q.call = "bad"
    PROVE  \A c \in DOMAIN commands : commands[c] # q.cmd
<1>1. q.cmd \in Unknown
  BY DEF AllRequests
<1>2. q.cmd \notin Range(commands)
  BY <1>1, UnknownAssumption
<1> QED BY <1>2 DEF Range

(* A frame as FrameOf writes it. *)
LEMMA FrameLegible ==
    ASSUME NEW q, q \in AllRequests, NEW f, f = FrameOf(q)
    PROVE  Legible(f, q.cmd, q.scmd, q.data)
<1>1. q \in Writable
  BY DEF Writable
<1>2. /\ q.cmd \in Byte /\ q.scmd \in Byte
      /\ q.data \in Seq(Byte) /\ Len(q.data) <= 243
  BY <1>1, RequestType
<1>3. Len(q.data) + 6 <= MAX_SS_LEN
  <2>1. Len(q.data) \in Nat
    BY <1>2, LenProperties
  <2>2. \A n \in Nat : n <= 243 => n + 6 <= MAX_SS_LEN
    BY DEF MAX_SS_LEN
  <2> QED BY <1>2, <2>1, <2>2
<1> QED BY <1>2, <1>3, CommandLegible DEF FrameOf

(* send_cmd, when the line is quiet. *)
LEMMA WriteAsks ==
    ASSUME NEW q, q \in AllRequests, toTarget = <<>>, data_buf = <<>>, tx = <<>>,
           Write(q), toHost' = <<>>, UNCHANGED targetVars
    PROVE  Asked(q)'
<1>1. PICK f : f = FrameOf(q)
  OBVIOUS
<1>2. Legible(f, q.cmd, q.scmd, q.data)
  BY <1>1, FrameLegible
<1>3. f \in Seq(Byte) /\ Len(f) \in Nat /\ Len(f) >= 6
  BY ONLY <1>2 DEF Legible
<1>4. toTarget' = f
  <2>1. toTarget' = <<>> \o f
    BY <1>1 DEF Write, FrameOf
  <2> QED BY ONLY <1>3, <2>1, ConcatEmptySeq
<1>5. Upto(f, HeaderOf(f).buf, 0) = <<>>
  <2>1. SubSeq(f, 1, 0) = <<>>
    BY ONLY SubSeqEmpty
  <2>2. 0 < 4
    OBVIOUS
  <2> QED BY ONLY <2>1, <2>2 DEF Upto
<1>6. data_buf' = <<>> /\ tx' = <<>>
  BY DEF targetVars
<1>7. Reading(f, 0)'
  <2>1. ~(0 >= 4)
    OBVIOUS
  <2> QED BY ONLY <1>5, <1>6, <2>1 DEF Reading
<1>8. /\ 0 \in 0 .. Len(f) - 1 /\ 0 < 4 /\ Len(toTarget') = Len(f) - 0
      /\ \A k \in 1 .. Len(f) - 0 : toTarget'[k] = f[0 + k]
  BY ONLY <1>3, <1>4
<1>9. \E i \in 0 .. Len(f) - 1 :
         /\ Reading(f, i)'
         /\ q.call = "bad" => i < 4
         /\ Len(toTarget') = Len(f) - i
         /\ \A k \in 1 .. Len(f) - i : toTarget'[k] = f[i + k]
  BY ONLY <1>7, <1>8
<1>10. toHost' = <<>>
  OBVIOUS
<1> QED BY ONLY <1>1, <1>9, <1>10 DEF Asked

(* The first byte of the rest of a frame. *)
LEMMA RestOfFrame ==
    ASSUME NEW f, f \in Seq(Byte), NEW i, i \in 0 .. Len(f) - 1,
           NEW s, s \in Seq(Byte), Len(s) = Len(f) - i,
           \A k \in 1 .. Len(f) - i : s[k] = f[i + k]
    PROVE  /\ s # <<>> /\ Head(s) = f[i + 1]
           /\ Len(Tail(s)) = Len(f) - (i + 1)
           /\ \A k \in 1 .. Len(f) - (i + 1) : Tail(s)[k] = f[(i + 1) + k]
           /\ i = Len(f) - 1 => Tail(s) = <<>>
<1>1. Len(f) \in Nat /\ i \in 0 .. Len(f) - 1 /\ s \in Seq(Byte) /\ Len(s) = Len(f) - i
  BY LenProperties
<1>2. 1 \in 1 .. Len(f) - i /\ Len(s) # 0
  BY ONLY <1>1
<1>3. s # <<>>
  BY ONLY <1>2, EmptySeq
<1>4. /\ Tail(s) \in Seq(Byte) /\ Len(Tail(s)) = Len(s) - 1
      /\ \A k \in 1 .. Len(Tail(s)) : Tail(s)[k] = s[k + 1]
  BY ONLY <1>1, <1>3, HeadTailProperties
<1>5. Head(s) = s[1]
  BY ONLY <1>1, <1>3
<1>6. Head(s) = f[i + 1]
  BY <1>2, <1>5
<1>7. Len(Tail(s)) = Len(f) - (i + 1)
  BY ONLY <1>1, <1>4
<1>8. ASSUME NEW k, k \in 1 .. Len(f) - (i + 1) PROVE Tail(s)[k] = f[(i + 1) + k]
  <2>1. k \in 1 .. Len(f) - (i + 1)
    BY <1>8
  <2>2. k + 1 \in 1 .. Len(f) - i /\ i + (k + 1) = (i + 1) + k /\ k \in 1 .. Len(Tail(s))
    BY ONLY <1>1, <1>7, <2>1
  <2>3. s[k + 1] = f[i + (k + 1)]
    BY <2>2
  <2> QED BY ONLY <1>4, <2>2, <2>3
<1>9. i = Len(f) - 1 => Tail(s) = <<>>
  <2>1. i = Len(f) - 1 => Len(Tail(s)) = 0
    BY ONLY <1>1, <1>7
  <2> QED BY <1>4, <2>1, EmptySeq
<1> QED BY <1>3, <1>6, <1>7, <1>8, <1>9

(* The target reads the request: it goes on reading, or it has answered.     *)
LEMMA AskedStep ==
    ASSUME Blocks, Recorded, NEW q, q \in AllRequests, toTarget \in Seq(Byte),
           Asked(q), Getch
    PROVE  Asked(q)' \/ Answered(q, 0)'
<1>1. PICK f : f = FrameOf(q)
  OBVIOUS
<1>2. Legible(f, q.cmd, q.scmd, q.data)
  BY <1>1, FrameLegible
<1>3. f \in Seq(Byte) /\ Len(f) \in Nat /\ Len(f) >= 6
  BY ONLY <1>2 DEF Legible
<1>4. PICK i \in 0 .. Len(f) - 1 :
         /\ Reading(f, i)
         /\ q.call = "bad" => i < 4
         /\ Len(toTarget) = Len(f) - i
         /\ \A k \in 1 .. Len(f) - i : toTarget[k] = f[i + k]
  BY <1>1 DEF Asked
<1>5. i \in 0 .. Len(f) - 1 /\ toTarget \in Seq(Byte)
  BY <1>4
<1>6. /\ Head(toTarget) = f[i + 1]
      /\ Len(Tail(toTarget)) = Len(f) - (i + 1)
      /\ \A k \in 1 .. Len(f) - (i + 1) : Tail(toTarget)[k] = f[(i + 1) + k]
      /\ i = Len(f) - 1 => Tail(toTarget) = <<>>
  <2>1. PICK s : s = toTarget
    OBVIOUS
  <2>2. s \in Seq(Byte) /\ Len(s) = Len(f) - i /\ \A k \in 1 .. Len(f) - i : s[k] = f[i + k]
    BY ONLY <1>4, <1>5, <2>1
  <2>3. /\ Head(s) = f[i + 1]
        /\ Len(Tail(s)) = Len(f) - (i + 1)
        /\ \A k \in 1 .. Len(f) - (i + 1) : Tail(s)[k] = f[(i + 1) + k]
        /\ i = Len(f) - 1 => Tail(s) = <<>>
    BY ONLY <1>3, <1>5, <2>2, RestOfFrame
  <2> QED BY ONLY <2>1, <2>3
<1>7. toTarget' = Tail(toTarget) /\ toHost' = <<>>
  BY DEF Getch, Asked
<1>8. ASSUME i + 1 \in 0 .. Len(f) - 1, Reading(f, i + 1)', q.call = "bad" => i + 1 < 4
      PROVE  Asked(q)'
  <2>1. \E j \in 0 .. Len(f) - 1 :
           /\ Reading(f, j)'
           /\ q.call = "bad" => j < 4
           /\ Len(toTarget') = Len(f) - j
           /\ \A k \in 1 .. Len(f) - j : toTarget'[k] = f[j + k]
    BY ONLY <1>6, <1>7, <1>8
  <2> QED BY ONLY <1>1, <1>7, <2>1 DEF Asked
<1>9. Answer(q) \in Seq(Byte)
  <2>1. PICK a, g : a = Answer(q) /\ g = First(q)
    OBVIOUS
  <2>2. a \in Seq(Byte)
    BY <2>1, AnswerShape
  <2> QED BY <2>1, <2>2
<1>10. ASSUME tx' = Answer(q) PROVE Follows(toHost', tx', Answer(q), 0)
  BY <1>7, <1>9, <1>10, FollowsAll
<1>11. CASE q.call # "bad"
  <2>1. IF i < Len(f) - 1 THEN Reading(f, i + 1)' ELSE Ran(q.cmd, q.scmd, q.data)
    BY <1>2, <1>4, <1>5, <1>6, <1>11, RequestRuns, ReadingStep
  <2>2. CASE i < Len(f) - 1
    <3>1. i + 1 \in 0 .. Len(f) - 1
      BY ONLY <1>3, <1>5, <2>2
    <3>2. Asked(q)'
      BY <1>8, <1>11, <2>1, <2>2, <3>1
    <3> QED BY <3>2
  <2>3. CASE ~(i < Len(f) - 1)
    <3>1. i = Len(f) - 1
      BY ONLY <1>3, <1>5, <2>3
    <3> DEFINE cb == Callback(q.cmd, q.scmd, q.data)
    <3>2. /\ tx' = cb.put \o ResponseFrame(ACK, <<cb.err>>)
          /\ ran' = IF cb.err = SS_ERR_OK
                      THEN Append(ran, [cmd |-> q.cmd, scmd |-> q.scmd, data |-> q.data])
                      ELSE ran
      BY <2>1, <2>3 DEF Ran
    <3>3. cb.err = SS_ERR_OK /\ cb.put = First(q)
      BY <1>11, RequestRuns
    <3> HIDE DEF cb
    <3>4. tx' = Answer(q)
      <4>1. Code(q) = SS_ERR_OK
        BY <1>11 DEF Code
      <4> QED BY <3>2, <3>3, <4>1 DEF Answer
    <3>5. CurRan(q)'
      <4> DEFINE x == [cmd |-> q.cmd, scmd |-> q.scmd, data |-> q.data]
      <4>1. ran' = Append(ran, x)
        BY ONLY <3>2, <3>3
      <4> HIDE DEF x
      <4>2. ran' # <<>> /\ Last(ran') = x
        BY <4>1, RanAppends
      <4> QED BY <4>2 DEF CurRan, x
    <3>6. Len(toHost') + Len(tx') = Len(Answer(q)) - 0
      <4>1. Len(<<>>) = 0 /\ Len(Answer(q)) \in Nat
        BY <1>9, LenProperties, EmptySeq
      <4> QED BY ONLY <1>7, <3>4, <4>1
    <3>7. toTarget' = <<>>
      BY <1>6, <1>7, <3>1
    <3>8. Answered(q, 0)'
      BY <1>10, <3>4, <3>5, <3>6, <3>7 DEF Answered
    <3> QED BY <3>8
  <2> QED BY <2>2, <2>3
<1>12. CASE q.call = "bad"
  <2> DEFINE x == f[i + 1]
             u == HeaderOf(f)
             buf == Append(data_buf, x)
  <2>1. i \in Nat /\ i < 4 /\ i <= Len(f) - 2 /\ i + 1 \in 1 .. Len(f) /\ i + 1 # Len(f)
    BY ONLY <1>3, <1>4, <1>5, <1>12
  <2>2. x # FRAME_BYTE
    BY <1>2, <2>1 DEF Legible
  <2>3. u.buf \in Seq(Byte) /\ Len(u.buf) = 4 /\ u.buf[2] = q.cmd
    BY <1>2 DEF Legible
  <2>4. data_buf = Upto(f, u.buf, i) /\ tx = <<>>
    BY <1>4 DEF Reading
  <2>5. Head(toTarget) = x /\ buf = Append(data_buf, x)
    BY <1>6
  <2> HIDE DEF u
  <2>6. Len(data_buf) = i /\ buf = SubSeq(f, 1, i + 1)
    <3>1. Len(Upto(f, u.buf, i)) = i /\ Append(Upto(f, u.buf, i), f[i + 1]) = SubSeq(f, 1, i + 1)
      BY <1>3, <1>5, <2>1, <2>3, UptoNext
    <3> QED BY <2>4, <3>1
  <2> HIDE DEF x, buf
  <2>7. (i < 3 => Wait(buf)) /\ (i = 3 => Header(buf))
    <3>1. /\ i < 3 /\ x # FRAME_BYTE => Wait(buf)
          /\ i = 3 /\ x # FRAME_BYTE => Header(buf)
          /\ i >= 4 /\ i < data_buf[4] + 5 /\ x # FRAME_BYTE => Wait(buf)
          /\ i >= 4 /\ ~(i < data_buf[4] + 5) /\ x = FRAME_BYTE => Frame(buf)
      <4>1. i \in Nat /\ Head(toTarget) = x /\ buf = Append(data_buf, x) /\ Len(data_buf) = i
        BY <2>1, <2>5, <2>6
      <4>2. Getch
        OBVIOUS
      <4> QED BY ONLY <4>1, <4>2, GetchGoes
    <3> QED BY ONLY <2>2, <3>1
  <2>8. CASE i < 3
    <3>1. i + 1 \in 0 .. Len(f) - 1 /\ i + 1 < 4 /\ ~(i + 1 >= 4)
      BY ONLY <1>3, <2>1, <2>8
    <3>2. data_buf' = buf /\ tx' = <<>>
      BY <2>4, <2>7, <2>8 DEF Wait
    <3>3. data_buf' = Upto(f, u.buf, i + 1)
      BY ONLY <2>6, <3>1, <3>2 DEF Upto
    <3>4. Reading(f, i + 1)'
      BY <3>1, <3>2, <3>3 DEF Reading, u
    <3>5. Asked(q)'
      BY <1>8, <3>1, <3>4
    <3> QED BY <3>5
  <2>9. CASE i = 3
    <3>1. UnstuffData(buf, 4) = u
      <4>1. 3 + 1 = 4
        OBVIOUS
      <4> QED BY <2>6, <2>9, <4>1 DEF HeaderOf, u
    <3>2. \A c \in DOMAIN commands : commands[c] # u.buf[2]
      BY <1>12, <2>3, UnknownIsNot
    <3>3. Fail(SS_ERR_CMD)
      BY <2>7, <2>9, <3>1, <3>2 DEF Header
    <3>4. tx' = Answer(q)
      <4>1. First(q) = <<>> /\ Code(q) = SS_ERR_CMD
        BY <1>12 DEF First, Code
      <4>2. tx' = ResponseFrame(ACK, <<Code(q)>>)
        BY <3>3, <4>1 DEF Fail
      <4>3. PICK e : e = ResponseFrame(ACK, <<Code(q)>>)
        OBVIOUS
      <4>4. e \in Seq(Byte)
        <5>1. SS_ERR_CMD \in 0 .. 5
          BY DEF SS_ERR_CMD
        <5> QED BY <4>1, <4>3, <5>1, ErrorAnswer
      <4>5. <<>> \o e = e
        BY ONLY <4>4, ConcatEmptySeq
      <4> QED BY <4>1, <4>2, <4>3, <4>5 DEF Answer
    <3>5. Answered(q, 0)'
      BY <1>10, <1>12, <3>4 DEF Answered
    <3> QED BY <3>5
  <2>10. i < 3 \/ i = 3
    BY ONLY <2>1
  <2> QED BY <2>8, <2>9, <2>10
<1> QED BY <1>11, <1>12

(* The rest of an answer is on its way: the target writes, or, after the     *)
(* code of a command it does not know, reads on.                             *)
LEMMA AnsweredStep ==
    ASSUME NEW q, Answer(q) \in Seq(Byte), NEW j, j \in Nat,
           toHost \in Seq(Byte), tx \in Seq(Byte), tx' \in Seq(Byte),
           Answered(q, j), Getch \/ Putch
    PROVE  Answered(q, j)'
<1>1. PICK a, h, t, u, g : a = Answer(q) /\ h = toHost /\ t = tx /\ u = tx' /\ g = toHost'
  OBVIOUS
<1>2. a \in Seq(Byte) /\ h \in Seq(Byte) /\ t \in Seq(Byte) /\ u \in Seq(Byte) /\ j \in Nat
  BY <1>1
<1>3. Follows(h, t, a, j)
  BY <1>1 DEF Answered
<1>4. CASE Putch
  <2>1. t # <<>> /\ g = Append(h, Head(t)) /\ u = Tail(t) /\ toTarget' = toTarget /\ ran' = ran
    BY <1>1, <1>4 DEF Putch
  <2>2. Follows(g, u, a, j) /\ Len(g) + Len(u) = Len(h) + Len(t)
    <3>1. t # <<>> /\ g = Append(h, Head(t)) /\ u = Tail(t)
      BY <2>1
    <3>2. h \in Seq(Byte) /\ t \in Seq(Byte) /\ a \in Seq(Byte) /\ j \in Nat
      BY <1>2
    <3>3. /\ Follows(Append(h, Head(t)), Tail(t), a, j)
          /\ Len(Append(h, Head(t))) + Len(Tail(t)) = Len(h) + Len(t)
      BY ONLY <1>3, <3>1, <3>2, FollowsPut
    <3> QED BY ONLY <3>1, <3>3
  <2> QED BY <1>1, <2>1, <2>2 DEF Answered, CurRan
<1>5. CASE Getch
  <2>1. t = <<>> /\ g = h /\ toTarget # <<>>
    BY <1>1, <1>5 DEF Getch
  <2>2. q.call = "bad"
    BY <2>1 DEF Answered
  <2>3. Follows(g, u, a, j)
    BY ONLY <1>2, <1>3, <2>1, FollowsGet
  <2> QED BY <1>1, <2>2, <2>3 DEF Answered
<1> QED BY <1>4, <1>5

(* The host reads n bytes of the answer. *)
LEMMA AnsweredTake ==
    ASSUME NEW q, NEW a, a = Answer(q), a \in Seq(Byte), NEW j, j \in Nat, NEW n, n \in Nat,
           toHost \in Seq(Byte), tx \in Seq(Byte), Answered(q, j),
           n <= Len(toHost), j + n <= Len(a),
           toHost' = SubSeq(toHost, n + 1, Len(toHost)), UNCHANGED <<toTarget, tx, ran>>
    PROVE  /\ Answered(q, j + n)'
           /\ SubSeq(toHost, 1, n) \in Seq(Byte) /\ Had(SubSeq(toHost, 1, n), a, n, j)
<1>1. PICK h, t, g, r : /\ h = toHost /\ t = tx
                        /\ g = SubSeq(h, n + 1, Len(h)) /\ r = SubSeq(h, 1, n)
  OBVIOUS
<1>2. /\ a \in Seq(Byte) /\ h \in Seq(Byte) /\ t \in Seq(Byte) /\ j \in Nat /\ n \in Nat
      /\ n <= Len(h) /\ j + n <= Len(a)
  BY <1>1
<1>3. Follows(h, t, a, j)
  BY <1>1 DEF Answered
<1>4. /\ Follows(g, t, a, j + n) /\ Len(g) = Len(h) - n
      /\ r \in Seq(Byte) /\ Had(r, a, n, j)
  <2>1. /\ Follows(SubSeq(h, n + 1, Len(h)), t, a, j + n)
        /\ Len(SubSeq(h, n + 1, Len(h))) = Len(h) - n
        /\ SubSeq(h, 1, n) \in Seq(Byte) /\ Had(SubSeq(h, 1, n), a, n, j)
    BY ONLY <1>2, <1>3, FollowsTake
  <2>2. g = SubSeq(h, n + 1, Len(h)) /\ r = SubSeq(h, 1, n)
    BY <1>1
  <2> QED BY ONLY <2>1, <2>2
<1>5. toHost' = g /\ tx' = t /\ toTarget' = toTarget /\ ran' = ran
  BY <1>1
<1>6. q.call # "bad" => toTarget' = <<>> /\ CurRan(q)' /\ Len(g) + Len(t) = Len(a) - (j + n)
  <2>1. q.call # "bad" => toTarget = <<>> /\ CurRan(q) /\ Len(h) + Len(t) = Len(a) - j
    BY <1>1 DEF Answered
  <2>2. Len(h) \in Nat /\ Len(t) \in Nat /\ Len(a) \in Nat
    BY ONLY <1>2, LenProperties
  <2>3. Len(h) + Len(t) = Len(a) - j => Len(g) + Len(t) = Len(a) - (j + n)
    BY ONLY <1>2, <1>4, <2>2
  <2> QED BY <1>5, <2>1, <2>3 DEF CurRan
<1> QED BY <1>1, <1>4, <1>5, <1>6 DEF Answered

-----------------------------------------------------------------------------
\* Where the answer of the target is, at the program points that read it: the
\* packet with the data, the packet with the code, and the packet of
\* simpleserial_read_witherrors.
AwaitData(q) ==
    /\ hpc = "first" /\ expect = RESPONSE
    /\ q.call \in {"pt", "list"} /\ (q.call = "list" => ~flush_on_err)
    /\ Asked(q) \/ Answered(q, 0)
HaveData(q) ==
    /\ hpc = "second" /\ expect = RESPONSE
    /\ q.call \in {"pt", "list"} /\ (q.call = "list" => ~flush_on_err)
    /\ Had(resp, Answer(q), 5, 0) /\ Answered(q, 5)
AwaitCode(q) ==
    /\ hpc = "first" /\ expect = ACK
    /\ (First(q) = <<>> /\ Asked(q)) \/ Answered(q, Len(First(q)))
HaveCode(q) ==
    /\ hpc = "second" /\ expect = ACK
    /\ Had(resp, Answer(q), 5, Len(First(q))) /\ Answered(q, Len(First(q)) + 5)
AwaitErrs(q) ==
    /\ hpc \in WithErrors /\ q.call = hpc
    /\ Asked(q) \/ Answered(q, 0)
HaveErrs(q) ==
    /\ hpc = "errs4" /\ q.call = "errs3"
    /\ Had(resp, Answer(q), 3, 0) /\ Answered(q, 3)
Underway(q) ==
    /\ q \in AllRequests
    /\ \/ AwaitData(q) \/ HaveData(q) \/ AwaitCode(q)
       \/ HaveCode(q) \/ AwaitErrs(q) \/ HaveErrs(q)

\* At the other points nothing is on its way, but before a sleep.
Busy == {"first", "second", "errs", "errs3", "errs4"}
Still == {"connected", "sendkey", "rekey", "flush", "idle"}

\* Where reset_comms goes on.
Onward(q) ==
    \A k \in DOMAIN ret : ret[k] # "listack" /\ (ret[k] = "sendkey" => q.call = "key")

Place(q) ==
    /\ hpc \in Still => Settled
    /\ hpc \in Busy => Underway(q)
    /\ hpc \notin {"listack", "errorbyte"}
    /\ hpc = "sendkey" => q.call = "key"
    /\ Onward(q)
    /\ res.ack = SS_ERR_OK => hpc = "idle" /\ CurRan(q)

\* Errors are flushed, or get_simpleserial_commands will see to it that they are.
Good ==
    flush_on_err \/ (/\ tmp /\ cur.call = "list" /\ expect = RESPONSE
                     /\ hpc \in {"first", "second", "errorbyte"})

Clean ==
    /\ Recorded
    /\ Good /\ faults = {} => \E q \in Writable : q = cur /\ Place(q)

(* Flushing errors stays switched off once it is. *)
LEMMA GoodBack ==
    ASSUME IInv, [Next]_vars, Good'
    PROVE  Good
<1>0. RESPONSE # ACK /\ None # RESPONSE
  BY DEF RESPONSE, ACK, None
<1>1. CASE UNCHANGED vars
  BY <1>1 DEF vars, hostVars, Good
<1>2. CASE Call
  <2>1. PICK q : q \in Requests /\ cur' = q
                 /\ (\/ CallEncrypt(q) \/ CallWithErrors(q) \/ CallUnknown(q)
                     \/ CallCommands(q) \/ CallSetKey(q))
    BY <1>2 DEF Call
  <2>2. CASE CallEncrypt(q)
    BY <2>1, <2>2 DEF CallEncrypt, Good
  <2>3. CASE CallWithErrors(q)
    <3>1. q.call # "list"
      BY <2>3 DEF CallWithErrors, WithErrors
    <3> QED BY <2>1, <2>3, <3>1 DEF CallWithErrors, Good
  <2>4. CASE CallUnknown(q)
    BY <2>1, <2>4 DEF CallUnknown, Good
  <2>5. CASE CallCommands(q)
    BY <2>5 DEF CallCommands, Good
  <2>6. CASE CallSetKey(q)
    BY <2>1, <2>6 DEF CallSetKey, Good
  <2> QED BY <2>1, <2>2, <2>3, <2>4, <2>5, <2>6
<1>3. CASE Con
  BY <1>3 DEF Con, ResetComms, Good
<1>4. CASE ResetPoll
  <2>1. hpc = "reset" /\ flush_on_err' = flush_on_err
        /\ (hpc' = hpc \/ hpc' = ret[1])
    BY <1>4 DEF ResetPoll
  <2>2. ret[1] \in Returns \cup {"flush"}
    <3>1. ret \in {<<p>> : p \in Returns} \cup {<<"flush", p>> : p \in Returns}
      BY <2>1 DEF IInv, HostTypes, Control, Stack
    <3> QED BY <3>1
  <2> QED BY <2>1, <2>2 DEF Good, Returns
<1>5. CASE Flush
  <2>1. hpc = "flush" /\ flush_on_err' = flush_on_err /\ hpc' = ret[1]
    BY <1>5 DEF Flush
  <2>2. ret[1] \in Returns
    <3>1. ret \in {<<p>> : p \in Returns}
      BY <2>1 DEF IInv, HostTypes, Control, Stack
    <3> QED BY <3>1
  <2> QED BY <2>1, <2>2 DEF Good, Returns
<1>6. CASE Connected
  BY <1>6 DEF Connected, Good
<1>7. CASE SendKey
  BY <1>0, <1>7 DEF SendKey, ReadCmd, Good
<1>8. CASE FirstRead
  BY <1>8 DEF FirstRead, Good
<1>9. CASE FirstTimeout
  <2>1. hpc = "first" /\ flush_on_err' = flush_on_err /\ tmp' = tmp /\ cur' = cur
        /\ expect' = expect
    BY <1>9 DEF FirstTimeout, ReadFailed
  <2> QED BY <2>1 DEF Good
<1>10. CASE ErrorByte
  <2>1. hpc = "errorbyte" /\ flush_on_err' = flush_on_err /\ tmp' = tmp /\ cur' = cur
        /\ (expect' = expect \/ expect' = ACK)
    BY <1>10 DEF ErrorByte, ReadReturns, ReadCmd
  <2> QED BY <1>0, <2>1 DEF Good
<1>11. CASE SecondRead
  <2>1. hpc = "second" /\ flush_on_err' = Restored /\ tmp' = tmp /\ cur' = cur
        /\ (IF expect = RESPONSE THEN expect' = ACK ELSE expect' = expect)
    BY <1>11 DEF SecondRead, ReadReturns, ReadCmd
  <2> QED BY <1>0, <2>1 DEF Good, Restored
<1>12. CASE SecondTimeout
  <2>1. hpc = "second" /\ flush_on_err' = flush_on_err /\ tmp' = tmp /\ cur' = cur
        /\ expect' = expect
    BY <1>12 DEF SecondTimeout, ReadFailed
  <2> QED BY <2>1 DEF Good
<1>13. CASE SecondRaises
  <2>1. hpc = "second" /\ flush_on_err' = flush_on_err /\ tmp' = tmp /\ cur' = cur
        /\ expect' = expect
    BY <1>13 DEF SecondRaises
  <2> QED BY <2>1 DEF Good
<1>14. CASE ListAck
  BY <1>0, <1>14 DEF ListAck, ReadCmd, Good
<1>15. CASE Rekey
  BY <1>15 DEF Rekey, ResetComms, Good
<1>16. CASE ErrsRead
  <2>1. flush_on_err' = flush_on_err /\ (hpc' = "drain" \/ expect' = ACK)
    BY <1>16 DEF ErrsRead, Judge, ReadCmd
  <2> QED BY <1>0, <2>1 DEF Good
<1>17. CASE ErrsHeader
  <2>1. flush_on_err' = flush_on_err /\ (hpc' = "drain" \/ hpc' = "errs4")
    BY <1>17 DEF ErrsHeader
  <2> QED BY <2>1 DEF Good
<1>18. CASE ErrsRest
  <2>1. flush_on_err' = flush_on_err /\ (hpc' = "drain" \/ expect' = ACK)
    BY <1>18 DEF ErrsRest, Judge, ReadCmd
  <2> QED BY <1>0, <2>1 DEF Good
<1>19. CASE Drain
  BY <1>19 DEF Drain, Good
<1>20. CASE Target \/ Fault
  BY <1>20 DEF Target, Fault, hostVars, Good
<1> QED BY <1>1, <1>2, <1>3, <1>4, <1>5, <1>6, <1>7, <1>8, <1>9, <1>10, <1>11, <1>12,
           <1>13, <1>14, <1>15, <1>16, <1>17, <1>18, <1>19, <1>20 DEF Next, Host, Done

(* What there was no fault in before. *)
LEMMA FaultsBack ==
    ASSUME [Next]_vars, faults' = {}
    PROVE  faults = {} /\ ~Fault
<1>1. ~Fault
  <2>1. Fault => \E kind : faults' = faults \cup {kind}
    BY DEF Fault
  <2> QED BY <2>1
<1>2. faults' = faults
  <2>1. CASE UNCHANGED vars
    BY <2>1 DEF vars
  <2>2. CASE Call \/ Target \/ Done
    BY <2>2 DEF Call, Target, Done, vars
  <2>3. CASE Host
    BY <2>3 DEF Host, Con, ResetPoll, Flush, Connected, SendKey, FirstRead, FirstTimeout,
       ErrorByte, SecondRead, SecondTimeout, SecondRaises, ListAck, Rekey, ErrsRead,
       ErrsHeader, ErrsRest, Drain
  <2> QED BY <1>1, <2>1, <2>2, <2>3 DEF Next
<1> QED BY <1>1, <1>2

(* flush_on_error with errors flushed: a reset, then the flush and p. *)
LEMMA FlushOnward ==
    ASSUME flush_on_err, NEW p, p \notin {"listack", "sendkey"}, FlushOnError(<<p>>)
    PROVE  hpc' = "reset" /\ \A q : Onward(q)'
<1>1. hpc' = "reset" /\ ret' = <<"flush">> \o <<p>>
  BY DEF FlushOnError, ResetComms
<1> DEFINE S == {"flush", p}
           s == <<"flush">> \o <<p>>
<1>2. <<"flush">> \in Seq(S) /\ <<p>> \in Seq(S)
  OBVIOUS
<1>3. s \in Seq(S)
  BY ONLY <1>2, ConcatProperties
<1>4. ret' = s
  BY <1>1
<1> HIDE DEF s
<1>5. \A k \in DOMAIN s : s[k] \in S
  <2> HIDE DEF S
  <2> QED BY ONLY <1>3, LenProperties, ElementOfSeq
<1>6. \A k \in DOMAIN ret' : ret'[k] # "listack" /\ ret'[k] # "sendkey"
  BY <1>4, <1>5
<1> QED BY <1>1, <1>6 DEF Onward

(* A step to a sleep: nothing is asked of the line. *)
LEMMA AsidePlace ==
    ASSUME NEW q, hpc' \in {"reset", "drain"}, Onward(q)', res'.ack # SS_ERR_OK
    PROVE  Place(q)'
<1>1. hpc' \notin Still \cup Busy \cup {"listack", "errorbyte", "sendkey"}
  BY DEF Still, Busy
<1> QED BY <1>1 DEF Place

(* With nothing to return to. *)
LEMMA NowhereOnward ==
    ASSUME NEW q, ret' = <<>>
    PROVE  Onward(q)'
<1>1. DOMAIN <<>> = {}
  OBVIOUS
<1> QED BY <1>1 DEF Onward

(* read_cmd fails; its caller does not wait for another packet. *)
LEMMA FailedPlace ==
    ASSUME NEW q, q = cur, Place(q), Good, Good', ReadFailed, hpc \in {"first", "second"},
           UNCHANGED <<cur, tmp>>
    PROVE  Place(q)'
<1> DEFINE p == IF expect = ACK /\ cur.call = "key" THEN "rekey"
                ELSE IF expect = RESPONSE /\ cur.call = "list" THEN "listack"
                ELSE IF cur.call \in WithErrors THEN "drain"
                ELSE "idle"
<1>1. /\ FlushOnError(<<p>>) /\ res' = res /\ flush_on_err' = flush_on_err
      /\ expect' = expect
  BY DEF ReadFailed
<1>2. p # "sendkey" /\ (p = "listack" => expect = RESPONSE /\ cur.call = "list")
  OBVIOUS
<1>3. flush_on_err
  <2>1. SUFFICES ASSUME ~flush_on_err PROVE FALSE
    OBVIOUS
  <2>2. expect = RESPONSE /\ cur.call = "list" /\ ~flush_on_err'
    BY <1>1, <2>1 DEF Good
  <2>3. RESPONSE # ACK
    BY DEF RESPONSE, ACK
  <2>4. hpc' = <<p>>[1]
    BY <1>1, <2>1 DEF FlushOnError
  <2>5. hpc' = "listack"
    BY <2>2, <2>3, <2>4
  <2> QED BY <2>2, <2>5 DEF Good
<1>4. p # "listack"
  <2>1. SUFFICES ASSUME p = "listack" PROVE FALSE
    OBVIOUS
  <2>2. expect = RESPONSE /\ q.call = "list"
    BY <1>2, <2>1
  <2>3. Underway(q)
    BY DEF Place, Busy
  <2>4. RESPONSE # ACK
    BY DEF RESPONSE, ACK
  <2> QED BY <1>3, <2>2, <2>3, <2>4 DEF Underway, AwaitData, HaveData, AwaitCode, HaveCode,
             AwaitErrs, HaveErrs, WithErrors
<1> HIDE DEF p
<1>5. hpc' = "reset" /\ Onward(q)'
  BY <1>1, <1>2, <1>3, <1>4, FlushOnward
<1>6. res'.ack # SS_ERR_OK
  BY <1>1 DEF Place
<1> QED BY <1>5, <1>6, AsidePlace

(* A sleep is over, or the call it is part of. *)
LEMMA SettledPlace ==
    ASSUME NEW q, Place(q), hpc # "idle", hpc' \in Still, Settled', res' = res,
           Onward(q)', hpc' = "sendkey" => q.call = "key"
    PROVE  Place(q)'
<1>1. hpc' \notin Busy \cup {"listack", "errorbyte"}
  BY DEF Still, Busy
<1>2. res'.ack # SS_ERR_OK
  BY DEF Place
<1> QED BY <1>1, <1>2 DEF Place

(* The sleeps and flushes.                                                   *)
LEMMA SleepStep ==
    ASSUME IInv, Prompt, NEW q, q = cur, Place(q),
           Con \/ ResetPoll \/ Flush \/ Connected \/ Rekey \/ Drain
    PROVE  Place(q)'
<1>0. NoResult.ack # SS_ERR_OK /\ "connected" # "listack"
  BY DEF NoResult, None, SS_ERR_OK
<1>1. CASE Con
  <2>1. hpc' = "reset" /\ ret' = <<"connected">> /\ res' = res /\ hpc = "con"
    BY <1>1 DEF Con, ResetComms
  <2>2. Onward(q)'
    <3>1. \A k \in DOMAIN <<"connected">> : <<"connected">>[k] = "connected"
      OBVIOUS
    <3> QED BY <2>1, <3>1 DEF Onward
  <2>3. res'.ack # SS_ERR_OK
    BY <2>1 DEF Place
  <2> QED BY <2>1, <2>2, <2>3, AsidePlace
<1>2. CASE ResetPoll
  <2>1. hpc = "reset" /\ Quiet /\ toTarget' = toTarget /\ tx' = tx /\ res' = res
    BY <1>2 DEF ResetPoll, Prompt, targetVars
  <2>2. CASE hpc' = hpc /\ ret' = ret
    <3>1. Onward(q)'
      BY <2>2 DEF Place, Onward
    <3>2. res'.ack # SS_ERR_OK
      BY <2>1 DEF Place
    <3> QED BY <2>1, <2>2, <3>1, <3>2, AsidePlace
  <2>3. CASE toHost = <<>> /\ toHost' = toHost /\ hpc' = ret[1] /\ ret' = Tail(ret)
    <3>1. ret \in {<<p>> : p \in Returns} \cup {<<"flush", p>> : p \in Returns}
      BY <2>1 DEF IInv, HostTypes, Control, Stack
    <3>2. PICK p \in Returns : ret = <<p>> \/ ret = <<"flush", p>>
      BY <3>1
    <3>3. p # "listack" /\ (p = "sendkey" => q.call = "key")
      <4>1. (1 \in DOMAIN <<p>> /\ <<p>>[1] = p) /\ (2 \in DOMAIN <<"flush", p>> /\ <<"flush", p>>[2] = p)
        OBVIOUS
      <4> QED BY <3>2, <4>1 DEF Place, Onward
    <3>4. Settled'
      BY <2>1, <2>3 DEF Settled, Quiet
    <3>5. CASE ret = <<p>>
      <4>1. hpc' = p /\ ret' = <<>>
        BY <2>3, <3>5
      <4>2. Onward(q)'
        BY <4>1, NowhereOnward
      <4>3. CASE p = "drain"
        <5>1. res'.ack # SS_ERR_OK
          BY <2>1 DEF Place
        <5> QED BY <4>1, <4>2, <4>3, <5>1, AsidePlace
      <4>4. CASE p # "drain"
        <5>1. p \in Still
          BY <3>3, <4>4 DEF Returns, Still
        <5> QED BY <2>1, <3>3, <3>4, <4>1, <4>2, <5>1, SettledPlace
      <4> QED BY <4>3, <4>4
    <3>6. CASE ret = <<"flush", p>>
      <4>1. hpc' = "flush" /\ ret' = <<p>>
        BY <2>3, <3>6
      <4>2. Onward(q)'
        <5>1. \A k \in DOMAIN <<p>> : <<p>>[k] = p
          OBVIOUS
        <5> QED BY <3>3, <4>1, <5>1 DEF Onward
      <4>3. "flush" \in Still /\ hpc # "idle"
        BY <2>1 DEF Still
      <4> QED BY <2>1, <3>4, <4>1, <4>2, <4>3, SettledPlace
    <3> QED BY <3>2, <3>5, <3>6
  <2> QED BY <1>2, <2>2, <2>3 DEF ResetPoll
<1>3. CASE Flush
  <2>1. /\ hpc = "flush" /\ toTarget' = toTarget /\ tx' = tx /\ res' = res /\ toHost' = <<>>
        /\ hpc' = ret[1] /\ ret' = Tail(ret)
    BY <1>3 DEF Flush, targetVars
  <2>2. ret \in {<<p>> : p \in Returns}
    BY <2>1 DEF IInv, HostTypes, Control, Stack
  <2>3. PICK p \in Returns : ret = <<p>>
    BY <2>2
  <2>4. p # "listack" /\ (p = "sendkey" => q.call = "key")
    <3>1. 1 \in DOMAIN <<p>> /\ <<p>>[1] = p
      OBVIOUS
    <3> QED BY <2>3, <3>1 DEF Place, Onward
  <2>5. Settled'
    BY <2>1 DEF Place, Still, Settled
  <2>6. hpc' = p /\ ret' = <<>>
    BY <2>1, <2>3
  <2>7. Onward(q)'
    BY <2>6, NowhereOnward
  <2>8. CASE p = "drain"
    <3>1. res'.ack # SS_ERR_OK
      BY <2>1 DEF Place
    <3> QED BY <2>6, <2>7, <2>8, <3>1, AsidePlace
  <2>9. CASE p # "drain"
    <3>1. p \in Still
      BY <2>4, <2>9 DEF Returns, Still
    <3> QED BY <2>1, <2>4, <2>5, <2>6, <2>7, <3>1, SettledPlace
  <2> QED BY <2>8, <2>9
<1>4. CASE Connected
  <2>1. /\ hpc = "connected" /\ hpc' = "idle" /\ toTarget' = toTarget /\ tx' = tx
        /\ res' = res /\ toHost' = <<>> /\ ret' = ret
    BY <1>4 DEF Connected, targetVars
  <2>2. Settled'
    BY <2>1 DEF Place, Still, Settled
  <2>3. Onward(q)'
    BY <2>1 DEF Place, Onward
  <2>4. "idle" \in Still
    BY DEF Still
  <2> QED BY <2>1, <2>2, <2>3, <2>4, SettledPlace
<1>5. CASE Rekey
  <2>1. hpc' = "reset" /\ ret' = <<"idle">> /\ res' = res /\ hpc = "rekey"
    BY <1>5 DEF Rekey, ResetComms
  <2>2. Onward(q)'
    <3>1. \A k \in DOMAIN <<"idle">> : <<"idle">>[k] = "idle"
      OBVIOUS
    <3> QED BY <2>1, <3>1 DEF Onward
  <2>3. res'.ack # SS_ERR_OK
    BY <2>1 DEF Place
  <2> QED BY <2>1, <2>2, <2>3, AsidePlace
<1>6. CASE Drain
  <2>1. /\ Quiet /\ hpc' = "idle" /\ toTarget' = toTarget /\ tx' = tx
        /\ res' = NoResult /\ toHost' = <<>> /\ ret' = ret
    BY <1>6 DEF Drain, targetVars, Prompt
  <2>2. Settled'
    BY <2>1 DEF Quiet, Settled
  <2>3. Onward(q)'
    BY <2>1 DEF Place, Onward
  <2>4. "idle" \notin Busy
    BY DEF Busy
  <2> QED BY <1>0, <2>1, <2>2, <2>3, <2>4 DEF Place
<1> QED BY <1>1, <1>2, <1>3, <1>4, <1>5, <1>6

(* A call that has written its request and reads. *)
LEMMA BusyPlace ==
    ASSUME NEW q, q \in AllRequests, hpc' \in Busy, Onward(q)', res'.ack # SS_ERR_OK,
           \/ AwaitData(q)' \/ HaveData(q)' \/ AwaitCode(q)'
           \/ HaveCode(q)' \/ AwaitErrs(q)' \/ HaveErrs(q)'
    PROVE  Place(q)'
<1>1. hpc' \notin Still \cup {"listack", "errorbyte", "sendkey"}
  BY DEF Still, Busy
<1>2. Underway(q)'
  BY DEF Underway
<1> QED BY <1>1, <1>2 DEF Place

(* The target waits at the start of a frame when the line to it is empty. *)
LEMMA AlignedNow ==
    ASSUME IInv, faults = {}, hpc # "con", Settled
    PROVE  data_buf = <<>>
BY DEF IInv, LineInv, Aligned, Noisy, Settled

(* The key is written.                                                       *)
LEMMA SendKeyStep ==
    ASSUME IInv, faults = {}, NEW q, q \in Writable, q = cur, Place(q), SendKey
    PROVE  Place(q)'
<1>1. /\ hpc = "sendkey" /\ Write(q) /\ hpc' = "first" /\ expect' = ACK
      /\ toHost' = toHost /\ UNCHANGED targetVars /\ ret' = ret /\ res' = res
  BY DEF SendKey, ReadCmd
<1>2. q.call = "key" /\ Settled
  BY <1>1 DEF Place, Still
<1>3. q \in AllRequests
  BY <1>2 DEF Writable, NoRequest
<1>4. data_buf = <<>>
  BY <1>1, <1>2, AlignedNow
<1>5. Asked(q)'
  BY <1>1, <1>2, <1>3, <1>4, WriteAsks DEF Settled
<1>6. First(q) = <<>>
  BY <1>2 DEF First
<1>7. AwaitCode(q)'
  BY <1>1, <1>5, <1>6 DEF AwaitCode
<1>8. Onward(q)' /\ res'.ack # SS_ERR_OK /\ hpc' \in Busy
  BY <1>1 DEF Place, Onward, Busy
<1> QED BY <1>3, <1>7, <1>8, BusyPlace

(* What the line to the host holds: bytes. *)
LEMMA HostBytes ==
    ASSUME IInv
    PROVE  /\ toHost \in Seq(Byte) /\ tx \in Seq(Byte) /\ resp \in Seq(Byte)
           /\ toTarget \in Seq(Byte) /\ Len(toHost) \in Nat
BY LenProperties DEF IInv, LineInv, TargetTypes, HostTypes, Control, Partial

(* The host reads n bytes of the answer that is coming. *)
LEMMA HostTakes ==
    ASSUME Blocks, IInv, NEW q, q \in AllRequests, NEW a, a = Answer(q),
           NEW j, j \in Nat, NEW n, n \in Nat, Answered(q, j),
           n <= Len(toHost), j + n <= Len(a),
           toHost' = SubSeq(toHost, n + 1, Len(toHost)), UNCHANGED <<toTarget, targetVars>>
    PROVE  /\ Answered(q, j + n)'
           /\ SubSeq(toHost, 1, n) \in Seq(Byte) /\ Had(SubSeq(toHost, 1, n), a, n, j)
<1>1. PICK f : f = First(q)
  OBVIOUS
<1>2. a \in Seq(Byte)
  BY <1>1, AnswerShape
<1>3. toHost \in Seq(Byte) /\ tx \in Seq(Byte)
  BY HostBytes
<1>4. UNCHANGED <<toTarget, tx, ran>>
  BY DEF targetVars
<1> QED BY <1>2, <1>3, <1>4, AnsweredTake

(* The first five bytes of a packet. *)
LEMMA FirstReadStep ==
    ASSUME Blocks, IInv, NEW q, q = cur, Place(q), FirstRead
    PROVE  Place(q)'
<1>1. /\ hpc = "first" /\ 5 <= Len(toHost)
      /\ hpc' = IF LooksLikeError(SubSeq(toHost, 1, 5)) THEN "errorbyte" ELSE "second"
      /\ resp' = SubSeq(toHost, 1, 5)
      /\ toHost' = SubSeq(toHost, 5 + 1, Len(toHost))
      /\ UNCHANGED <<toTarget, targetVars, expect, ret, flush_on_err, res>>
  <2>1. Len(toHost) \in Nat
    BY HostBytes
  <2>2. Len(toHost) >= 5 => 5 <= Len(toHost)
    BY <2>1
  <2> QED BY <2>2 DEF FirstRead
<1>2. q \in AllRequests /\ (AwaitData(q) \/ AwaitCode(q))
  BY <1>1 DEF Place, Busy, Underway, HaveData, HaveCode, AwaitErrs, HaveErrs, WithErrors
<1>3. ~Asked(q)
  <2>1. Len(<<>>) = 0
    OBVIOUS
  <2> QED BY <1>1, <2>1 DEF Asked
<1>4. PICK f, a : f = First(q) /\ a = Answer(q)
  OBVIOUS
<1>5. /\ a \in Seq(Byte) /\ Len(f) \in Nat /\ Len(a) = Len(f) + 6
      /\ q.call \in {"pt", "errs", "errs3", "list"} => a[2] = RESPONSE
      /\ a[Len(f) + 2] = ACK
  BY <1>2, <1>4, AnswerShape
<1>6. Onward(q)' /\ res'.ack # SS_ERR_OK
  BY <1>1 DEF Place, Onward
<1>7. ASSUME NEW j \in Nat, Answered(q, j), j + 5 <= Len(a), a[j + 2] = expect
      PROVE  hpc' = "second" /\ Had(resp', a, 5, j) /\ Answered(q, j + 5)'
  <2>1. 5 \in Nat /\ j \in Nat
    OBVIOUS
  <2>2. Answered(q, j + 5)' /\ Had(SubSeq(toHost, 1, 5), a, 5, j)
    BY <1>1, <1>2, <1>4, <1>7, <2>1, HostTakes
  <2>3. SubSeq(toHost, 1, 5)[2] = expect
    <3>1. 2 \in 1 .. 5
      OBVIOUS
    <3> QED BY <1>7, <2>2, <3>1 DEF Had
  <2>4. ~LooksLikeError(SubSeq(toHost, 1, 5))
    BY <2>3 DEF LooksLikeError
  <2> QED BY <1>1, <2>2, <2>4
<1>8. CASE AwaitData(q)
  <2>1. Answered(q, 0) /\ expect = RESPONSE /\ q.call \in {"pt", "list"}
        /\ (q.call = "list" => ~flush_on_err)
    BY <1>3, <1>8 DEF AwaitData
  <2>2. 0 \in Nat /\ 0 + 5 <= Len(a) /\ 0 + 5 = 5 /\ 0 + 2 = 2
    BY <1>5
  <2>3. a[0 + 2] = expect
    BY <1>5, <2>1, <2>2
  <2>4. hpc' = "second" /\ Had(resp', a, 5, 0) /\ Answered(q, 0 + 5)'
    BY <1>7, <2>1, <2>2, <2>3
  <2>5. HaveData(q)'
    BY <1>1, <1>4, <2>1, <2>2, <2>4 DEF HaveData
  <2>6. hpc' \in Busy
    BY <2>4 DEF Busy
  <2> QED BY <1>2, <1>6, <2>5, <2>6, BusyPlace
<1>9. CASE AwaitCode(q)
  <2>1. Answered(q, Len(f)) /\ expect = ACK
    BY <1>3, <1>4, <1>9 DEF AwaitCode
  <2>2. Len(f) \in Nat /\ Len(f) + 5 <= Len(a) /\ a[Len(f) + 2] = expect
    BY <1>5, <2>1
  <2>3. hpc' = "second" /\ Had(resp', a, 5, Len(f)) /\ Answered(q, Len(f) + 5)'
    BY <1>7, <2>1, <2>2
  <2>4. HaveCode(q)'
    BY <1>1, <1>4, <2>1, <2>3 DEF HaveCode
  <2>5. hpc' \in Busy
    BY <2>3 DEF Busy
  <2> QED BY <1>2, <1>6, <2>4, <2>5, BusyPlace
<1> QED BY <1>2, <1>8, <1>9

\* The result of a call has a payload, its packet and a code.
Result == "payload" \in DOMAIN res /\ "packet" \in DOMAIN res /\ "ack" \in DOMAIN res

(* The code of a packet, or its data, is put there. *)
LEMMA ResultCode ==
    ASSUME Result, NEW x, res' = [res EXCEPT !.ack = x]
    PROVE  Result' /\ res'.ack = x /\ res'.packet = res.packet /\ res'.payload = res.payload
BY DEF Result

(* Storing the payload leaves the code as it is. *)
LEMMA ResultPayload ==
    ASSUME Result, NEW pkt,
           res' = [res EXCEPT !.payload = SubSeq(pkt, 4, Len(pkt) - 2), !.packet = pkt[2]]
    PROVE  /\ Result' /\ res'.ack = res.ack /\ res'.packet = pkt[2]
           /\ res'.payload = SubSeq(pkt, 4, Len(pkt) - 2)
<1>1. PICK x, y : x = SubSeq(pkt, 4, Len(pkt) - 2) /\ y = pkt[2]
  OBVIOUS
<1>2. res' = [res EXCEPT !.payload = x, !.packet = y]
  BY <1>1
<1>3. Result' /\ res'.ack = res.ack /\ res'.packet = y /\ res'.payload = x
  BY ONLY Result, <1>2 DEF Result
<1> QED BY <1>1, <1>3

(* Nothing else is. *)
LEMMA ResultStep ==
    ASSUME Result, [Next]_vars
    PROVE  Result'
<1>1. ASSUME res' = NoResult PROVE Result'
  BY <1>1 DEF NoResult, Result
<1>2. ASSUME res' = res PROVE Result'
  BY <1>2 DEF Result
<1>3. ASSUME NEW pkt, ReadReturns(pkt) PROVE Result'
  <2>1. CASE expect = RESPONSE
    <3>1. res' = [res EXCEPT !.payload = SubSeq(pkt, 4, Len(pkt) - 2), !.packet = pkt[2]]
      BY <1>3, <2>1 DEF ReadReturns
    <3> QED BY ONLY Result, <3>1, ResultPayload, Zenon
  <2>2. CASE expect # RESPONSE
    BY <1>3, <2>2, ResultCode DEF ReadReturns
  <2> QED BY <2>1, <2>2
<1>4. ASSUME NEW pkt, Judge(pkt) PROVE Result'
  <2>1. CASE res' = res
    BY <1>2, <2>1
  <2>2. CASE res' = [res EXCEPT !.payload = SubSeq(pkt, 4, Len(pkt) - 2), !.packet = pkt[2]]
    BY ONLY Result, <2>2, ResultPayload, Zenon
  <2> QED BY <1>4, <2>1, <2>2 DEF Judge
<1>5. CASE Call \/ Drain
  BY <1>1, <1>5 DEF Call, Drain
<1>6. CASE \/ Con \/ ResetPoll \/ Flush \/ Connected \/ SendKey \/ FirstRead
           \/ SecondRaises \/ ListAck \/ Rekey \/ ErrsHeader
  BY <1>2, <1>6 DEF Con, ResetPoll, Flush, Connected, SendKey, FirstRead, SecondRaises,
     ListAck, Rekey, ErrsHeader
<1>7. CASE FirstTimeout \/ SecondTimeout
  BY <1>2, <1>7 DEF FirstTimeout, SecondTimeout, ReadFailed
<1>8. CASE ErrorByte
  <2>1. \E pkt : ReadReturns(pkt)
    BY <1>8 DEF ErrorByte
  <2> QED BY <1>3, <2>1
<1>9. CASE SecondRead
  <2>1. \E pkt : ReadReturns(pkt)
    BY <1>9 DEF SecondRead
  <2> QED BY <1>3, <2>1
<1>10. CASE ErrsRead
  <2>1. (\E pkt : Judge(pkt)) \/ res' = res
    BY <1>10 DEF ErrsRead
  <2> QED BY <1>2, <1>4, <2>1
<1>11. CASE ErrsRest
  <2>1. (\E pkt : Judge(pkt)) \/ res' = res
    BY <1>11 DEF ErrsRest
  <2> QED BY <1>2, <1>4, <2>1
<1>12. CASE Target \/ Fault \/ UNCHANGED vars
  BY <1>2, <1>12 DEF Target, Fault, vars, hostVars
<1> QED BY <1>5, <1>6, <1>7, <1>8, <1>9, <1>10, <1>11, <1>12 DEF Next, Host, Done

(* The rest of a packet: after the data the code is next, after the code     *)
(* everything has come.                                                      *)
LEMMA SecondReadStep ==
    ASSUME Blocks, IInv, Result, NEW q, q = cur, Place(q), Good, SecondRead
    PROVE  Place(q)'
<1> DEFINE pkt == HostUnstuffData(resp \o SubSeq(toHost, 1, Dlen))
<1>1. /\ hpc = "second" /\ Dlen <= Len(toHost)
      /\ toHost' = SubSeq(toHost, Dlen + 1, Len(toHost))
      /\ ReadReturns(pkt)
      /\ UNCHANGED <<targetVars, cur>>
  <2>1. Dlen > 0 /\ Len(toHost) >= Dlen
    BY DEF SecondRead
  <2>2. Dlen \in Nat /\ Len(toHost) \in Nat
    <3>1. hpc = "second"
      BY DEF SecondRead
    <3>2. resp \in Seq(Byte) /\ Len(resp) = 5
      BY <3>1 DEF IInv, HostTypes, Control, Partial
    <3>3. 3 \in 1 .. Len(resp)
      BY <3>2
    <3>4. resp[3] \in Byte
      BY ONLY <3>2, <3>3, ElementOfSeq
    <3> QED BY <3>4, HostBytes, ByteFacts DEF Dlen
  <2>3. Dlen <= Len(toHost)
    BY ONLY <2>1, <2>2
  <2> QED BY <2>3 DEF SecondRead
<1>2. q \in AllRequests /\ (HaveData(q) \/ HaveCode(q))
  BY <1>1 DEF Place, Busy, Underway, AwaitData, AwaitCode, AwaitErrs, HaveErrs, WithErrors
<1>3. PICK f, a : f = First(q) /\ a = Answer(q)
  OBVIOUS
<1>4. /\ a \in Seq(Byte) /\ Len(f) \in Nat /\ Len(a) = Len(f) + 6
      /\ q.call \in {"pt", "errs", "errs3", "list"} =>
           /\ Len(f) >= 6 /\ a[3] = Len(f) - 5
      /\ a[Len(f) + 3] = 1
  BY <1>2, <1>3, AnswerShape
<1>5. \A r : r \in Seq(Byte) /\ Had(r, a, 6, Len(f)) => HostUnstuffData(r)[4] = Code(q)
  BY <1>2, <1>3, AnswerShape
<1>6. ret = <<>>
  BY <1>1 DEF IInv, HostTypes, Control, Stack
<1>7. RESPONSE # ACK
  BY DEF RESPONSE, ACK
<1>8. 3 \in 1 .. 5
  OBVIOUS
<1> HIDE DEF pkt
<1>9. CASE HaveData(q)
  <2>1. expect = RESPONSE /\ q.call \in {"pt", "list"} /\ Had(resp, a, 5, 0) /\ Answered(q, 5)
    BY <1>3, <1>9 DEF HaveData
  <2>2. Dlen = Len(f) - 5
    <3>1. resp[3] = a[0 + 3]
      BY <1>8, <2>1 DEF Had
    <3>2. 0 + 3 = 3
      OBVIOUS
    <3> QED BY <1>4, <2>1, <3>1, <3>2 DEF Dlen
  <2>3. Dlen \in Nat /\ 5 + Dlen = Len(f) /\ 5 + Dlen <= Len(a) /\ 5 \in Nat
    <3>1. Len(f) \in Nat /\ Len(f) >= 6 /\ Len(a) = Len(f) + 6
      BY <1>4, <2>1
    <3> QED BY ONLY <2>2, <3>1
  <2>4. hpc' = "first" /\ expect' = ACK /\ res'.ack = res.ack /\ toTarget' = toTarget /\ ret' = ret
    <3>1. /\ res' = [res EXCEPT !.payload = SubSeq(pkt, 4, Len(pkt) - 2), !.packet = pkt[2]]
          /\ ReadCmd(ACK) /\ UNCHANGED <<toTarget, ret>>
      BY <1>1, <2>1 DEF ReadReturns
    <3>2. res'.ack = res.ack
      BY ONLY Result, <3>1, ResultPayload, Zenon
    <3> QED BY <3>1, <3>2 DEF ReadCmd
  <2>5. Answered(q, Len(f))'
    <3>1. PICK n : n = Dlen
      OBVIOUS
    <3>2. Answered(q, 5 + n)'
      BY <1>1, <1>2, <1>3, <2>1, <2>3, <2>4, <3>1, HostTakes
    <3>3. 5 + n = Len(f)
      BY <2>3, <3>1
    <3> QED BY <3>2, <3>3
  <2>6. AwaitCode(q)'
    BY <1>3, <2>4, <2>5 DEF AwaitCode
  <2>7. Onward(q)' /\ res'.ack # SS_ERR_OK /\ hpc' \in Busy
    BY <1>1, <1>6, <2>4, NowhereOnward DEF Place, Busy
  <2> QED BY <1>2, <2>6, <2>7, BusyPlace
<1>10. CASE HaveCode(q)
  <2>1. /\ expect = ACK /\ Had(resp, a, 5, Len(f)) /\ Answered(q, Len(f) + 5)
    BY <1>3, <1>10 DEF HaveCode
  <2>2. Dlen = 1
    <3>1. resp[3] = a[Len(f) + 3]
      BY <1>8, <2>1 DEF Had
    <3> QED BY <1>4, <3>1 DEF Dlen
  <2>3. /\ 1 \in Nat /\ Len(f) + 5 \in Nat /\ (Len(f) + 5) + 1 = Len(f) + 6
        /\ (Len(f) + 5) + 1 <= Len(a)
    BY ONLY <1>4
  <2> DEFINE s == SubSeq(toHost, 1, 1)
  <2>4. s \in Seq(Byte) /\ Had(s, a, 1, Len(f) + 5)
    <3>1. PICK h : h = toHost
      OBVIOUS
    <3>2. h \in Seq(Byte) /\ tx \in Seq(Byte) /\ 1 <= Len(h)
      BY <1>1, <2>2, <3>1, HostBytes
    <3>3. PICK t : t = tx
      OBVIOUS
    <3>4. t \in Seq(Byte) /\ Follows(h, t, a, Len(f) + 5)
      BY <1>3, <2>1, <3>1, <3>2, <3>3 DEF Answered
    <3>5. PICK j : j = Len(f) + 5
      OBVIOUS
    <3>6. SubSeq(h, 1, 1) \in Seq(Byte) /\ Had(SubSeq(h, 1, 1), a, 1, j)
      BY <1>4, <2>3, <3>2, <3>4, <3>5, FollowsTake
    <3> QED BY <3>1, <3>5, <3>6
  <2>5. pkt = HostUnstuffData(resp \o s)
    BY <2>2 DEF pkt
  <2>6. pkt[4] = Code(q)
    <3>1. PICK r : r = resp
      OBVIOUS
    <3>2. PICK v : v = s
      OBVIOUS
    <3>3. r \in Seq(Byte) /\ v \in Seq(Byte) /\ Had(r, a, 5, Len(f)) /\ Had(v, a, 1, Len(f) + 5)
      BY <2>1, <2>4, <3>1, <3>2, HostBytes
    <3>4. 5 \in Nat /\ 1 \in Nat /\ 5 + 1 = 6 /\ Len(f) \in Nat
      BY <1>4
    <3>5. r \o v \in Seq(Byte) /\ Had(r \o v, a, 5 + 1, Len(f))
      BY ONLY <3>3, <3>4, HadMore
    <3>6. PICK b : b = r \o v
      OBVIOUS
    <3>7. b \in Seq(Byte) /\ Had(b, a, 6, Len(f))
      BY ONLY <3>4, <3>5, <3>6
    <3>8. HostUnstuffData(b)[4] = Code(q)
      BY <1>5, <3>7
    <3> QED BY <2>5, <3>1, <3>2, <3>6, <3>8
  <2> HIDE DEF s
  <2>7. flush_on_err
    BY <1>7, <2>1 DEF Good
  <2>8. /\ res'.ack = Code(q)
        /\ IF Code(q) # SS_ERR_OK /\ q.call # "list"
             THEN FlushOnError(<<"idle">>)
             ELSE hpc' = "idle" /\ UNCHANGED <<toTarget, ret>>
    <3>1. /\ res' = [res EXCEPT !.ack = pkt[4]]
          /\ IF pkt[4] # SS_ERR_OK /\ cur.call # "list"
               THEN FlushOnError(<<"idle">>)
               ELSE hpc' = "idle" /\ UNCHANGED <<toTarget, ret>>
      BY <1>1, <1>7, <2>1 DEF ReadReturns
    <3>2. res'.ack = pkt[4]
      BY <3>1, ResultCode
    <3> QED BY <2>6, <3>1, <3>2
  <2>9. CASE q.call = "bad"
    <3>1. Code(q) = SS_ERR_CMD /\ SS_ERR_CMD # SS_ERR_OK
      BY <2>9 DEF Code, SS_ERR_CMD, SS_ERR_OK
    <3>2. FlushOnError(<<"idle">>)
      BY <2>8, <2>9, <3>1
    <3>3. hpc' = "reset" /\ Onward(q)'
      BY <2>7, <3>2, FlushOnward
    <3> QED BY <2>8, <3>1, <3>3, AsidePlace
  <2>10. CASE q.call # "bad"
    <3>1. Code(q) = SS_ERR_OK
      BY <2>10 DEF Code
    <3>2. hpc' = "idle" /\ toTarget' = toTarget /\ ret' = ret
      BY <2>8, <3>1
    <3>3. Answered(q, Len(f) + 6)'
      <4>1. PICK j : j = Len(f) + 5
        OBVIOUS
      <4>2. j \in Nat /\ 1 \in Nat /\ j + 1 <= Len(a) /\ Answered(q, j)
        BY <2>1, <2>3, <4>1
      <4>3. 1 <= Len(toHost) /\ toHost' = SubSeq(toHost, 1 + 1, Len(toHost))
        BY <1>1, <2>2
      <4>4. Answered(q, j + 1)'
        BY <1>1, <1>2, <1>3, <3>2, <4>2, <4>3, HostTakes
      <4>5. j + 1 = Len(f) + 6
        BY <2>3, <4>1
      <4> QED BY <4>4, <4>5
    <3>4. toTarget' = <<>> /\ Len(toHost') + Len(tx') = Len(a) - (Len(f) + 6) /\ CurRan(q)'
      BY <1>3, <2>10, <3>3 DEF Answered
    <3>5. toHost' \in Seq(Byte) /\ tx' \in Seq(Byte)
      <4>1. toHost' = SubSeq(toHost, 1 + 1, Len(toHost)) /\ tx' = tx /\ 1 \in Nat
        BY <1>1, <2>2 DEF targetVars
      <4>2. toHost \in Seq(Byte) /\ tx \in Seq(Byte)
        BY HostBytes
      <4> QED BY <4>1, <4>2, TakeType
    <3>6. Settled'
      <4>1. Len(toHost') \in Nat /\ Len(tx') \in Nat
        BY <3>5, LenProperties
      <4>2. Len(toHost') = 0 /\ Len(tx') = 0
        BY ONLY <1>4, <3>4, <4>1
      <4>3. toHost' = <<>> /\ tx' = <<>>
        BY <3>5, <4>2, EmptySeq
      <4> QED BY <3>4, <4>3 DEF Settled
    <3>7. Onward(q)'
      BY <1>6, <3>2, NowhereOnward
    <3>8. hpc' \notin Busy \cup {"listack", "errorbyte", "sendkey"}
      BY <3>2 DEF Busy
    <3> QED BY <3>2, <3>4, <3>6, <3>7, <3>8 DEF Place
  <2> QED BY <2>9, <2>10
<1> QED BY <1>2, <1>9, <1>10

(* A length of 0 does not come. *)
LEMMA NeverRaises ==
    ASSUME Blocks, IInv, NEW q, q = cur, Place(q), SecondRaises
    PROVE  FALSE
<1>1. hpc = "second" /\ Dlen = 0
  BY DEF SecondRaises
<1>2. q \in AllRequests /\ (HaveData(q) \/ HaveCode(q))
  BY <1>1 DEF Place, Busy, Underway, AwaitData, AwaitCode, AwaitErrs, HaveErrs, WithErrors
<1>3. PICK f, a : f = First(q) /\ a = Answer(q)
  OBVIOUS
<1>4. /\ Len(f) \in Nat
      /\ q.call \in {"pt", "errs", "errs3", "list"} => Len(f) >= 6 /\ a[3] = Len(f) - 5
      /\ a[Len(f) + 3] = 1
  BY <1>2, <1>3, AnswerShape
<1>5. 3 \in 1 .. 5 /\ 0 + 3 = 3
  OBVIOUS
<1>6. CASE HaveData(q)
  <2>1. resp[3] = a[3] /\ q.call \in {"pt", "list"}
    BY <1>3, <1>5, <1>6 DEF HaveData, Had
  <2>2. Len(f) \in Nat /\ Len(f) >= 6 /\ 0 = Len(f) - 5
    BY <1>1, <1>4, <2>1 DEF Dlen
  <2>3. \A n \in Nat : ~(n >= 6 /\ 0 = n - 5)
    OBVIOUS
  <2> QED BY ONLY <2>2, <2>3
<1>7. CASE HaveCode(q)
  <2>1. resp[3] = a[Len(f) + 3]
    BY <1>3, <1>5, <1>7 DEF HaveCode, Had
  <2> QED BY <1>1, <1>4, <2>1 DEF Dlen
<1> QED BY <1>2, <1>6, <1>7

(* A packet simpleserial_read_witherrors took, or not. *)
LEMMA JudgePlace ==
    ASSUME IInv, Result, NEW q, q \in AllRequests, Place(q), hpc \in {"errs", "errs4"},
           NEW pkt, Judge(pkt), ret' = ret, Answered(q, Len(First(q)))'
    PROVE  Place(q)'
<1>1. ret = <<>> /\ res.ack # SS_ERR_OK
  BY DEF IInv, HostTypes, Control, Stack, Place
<1>2. Onward(q)'
  BY <1>1, NowhereOnward
<1>3. CASE hpc' = "drain" /\ res' = res
  BY <1>1, <1>2, <1>3, AsidePlace
<1>4. CASE /\ res' = [res EXCEPT !.payload = SubSeq(pkt, 4, Len(pkt) - 2), !.packet = pkt[2]]
           /\ ReadCmd(ACK)
  <2>1. res'.ack = res.ack
    BY ONLY Result, <1>4, ResultPayload, Zenon
  <2>2. hpc' = "first" /\ expect' = ACK
    BY <1>4 DEF ReadCmd
  <2>3. AwaitCode(q)' /\ hpc' \in Busy
    BY <2>2 DEF AwaitCode, Busy
  <2> QED BY <1>1, <1>2, <2>1, <2>3, BusyPlace
<1> QED BY <1>3, <1>4 DEF Judge

(* simpleserial_read_witherrors with the length of the payload. *)
LEMMA ErrsReadStep ==
    ASSUME Blocks, IInv, Result, NEW q, q = cur, Place(q), ErrsRead
    PROVE  Place(q)'
<1>1. PICK n : n = 5 + Len(cur.data)
  OBVIOUS
<1>2. /\ hpc = "errs" /\ toHost' = SubSeq(toHost, n + 1, Len(toHost))
      /\ IF Len(toHost) >= n
           THEN Judge(HostUnstuffData(SubSeq(toHost, 1, n)))
           ELSE hpc' = "drain" /\ UNCHANGED <<res, expect, resp>>
      /\ UNCHANGED <<toTarget, targetVars, ret>>
  BY <1>1 DEF ErrsRead, Drop
<1>3. /\ q \in AllRequests /\ AwaitErrs(q)
  BY <1>2 DEF Place, Busy, Underway, AwaitData, AwaitCode, HaveData, HaveCode, HaveErrs
<1>4. PICK f, a : f = First(q) /\ a = Answer(q)
  OBVIOUS
<1>5. q.call = "errs" /\ q.call \in WithErrors
  BY <1>2, <1>3 DEF AwaitErrs, WithErrors
<1>6. /\ Len(f) \in Nat /\ Len(a) = Len(f) + 6 /\ Len(f) >= 6 /\ Len(f) = 5 + Len(q.data)
  BY <1>3, <1>4, <1>5, AnswerShape
<1>7. n = Len(f) /\ n \in Nat /\ ~(0 >= n)
  BY <1>1, <1>6
<1>8. Len(toHost) \in Nat
  BY HostBytes
<1>9. CASE Len(toHost) >= n
  <2>1. ~Asked(q)
    <3>1. Len(<<>>) = 0
      OBVIOUS
    <3> QED BY <1>7, <1>9, <3>1 DEF Asked
  <2>2. Answered(q, 0)
    BY <1>3, <2>1 DEF AwaitErrs
  <2>3. n <= Len(toHost) /\ 0 + n <= Len(a) /\ 0 + n = Len(f) /\ 0 \in Nat
    BY ONLY <1>6, <1>7, <1>8, <1>9
  <2>4. Answered(q, 0 + n)'
    BY <1>2, <1>3, <1>4, <1>7, <2>2, <2>3, HostTakes
  <2>5. Answered(q, Len(First(q)))'
    BY <1>4, <2>3, <2>4
  <2>6. Judge(HostUnstuffData(SubSeq(toHost, 1, n)))
    BY <1>2, <1>9
  <2> QED BY <1>2, <1>3, <2>5, <2>6, JudgePlace
<1>10. CASE ~(Len(toHost) >= n)
  <2>1. hpc' = "drain" /\ res' = res
    BY <1>2, <1>10
  <2>2. Onward(q)' /\ res'.ack # SS_ERR_OK
    BY <1>2, <2>1 DEF Place, Onward
  <2> QED BY <2>1, <2>2, AsidePlace
<1> QED BY <1>9, <1>10

(* Without it: the first three bytes ... *)
LEMMA ErrsHeaderStep ==
    ASSUME Blocks, IInv, NEW q, q = cur, Place(q), ErrsHeader
    PROVE  Place(q)'
<1>1. /\ hpc = "errs3" /\ toHost' = SubSeq(toHost, 3 + 1, Len(toHost))
      /\ \/ Len(toHost) >= 3 /\ hpc' = "errs4" /\ resp' = SubSeq(toHost, 1, 3)
         \/ hpc' = "drain"
      /\ UNCHANGED <<toTarget, targetVars, ret, res>>
  BY DEF ErrsHeader, Drop
<1>2. /\ q \in AllRequests /\ AwaitErrs(q)
  BY <1>1 DEF Place, Busy, Underway, AwaitData, AwaitCode, HaveData, HaveCode, HaveErrs
<1>3. PICK f, a : f = First(q) /\ a = Answer(q)
  OBVIOUS
<1>4. q.call = "errs3"
  BY <1>1, <1>2 DEF AwaitErrs
<1>5. /\ Len(f) \in Nat /\ Len(a) = Len(f) + 6
  BY <1>2, <1>3, AnswerShape
<1>6. Onward(q)' /\ res'.ack # SS_ERR_OK
  BY <1>1 DEF Place, Onward
<1>7. CASE hpc' = "drain"
  BY <1>6, <1>7, AsidePlace
<1>8. CASE Len(toHost) >= 3 /\ hpc' = "errs4" /\ resp' = SubSeq(toHost, 1, 3)
  <2>1. ~Asked(q)
    <3>1. Len(<<>>) = 0
      OBVIOUS
    <3> QED BY <1>8, <3>1 DEF Asked
  <2>2. Answered(q, 0)
    BY <1>2, <2>1 DEF AwaitErrs
  <2>3. 3 <= Len(toHost) /\ 0 + 3 <= Len(a) /\ 0 + 3 = 3 /\ 0 \in Nat /\ 3 \in Nat
    <3>1. Len(toHost) \in Nat
      BY HostBytes
    <3> QED BY ONLY <1>5, <1>8, <3>1
  <2>4. Answered(q, 0 + 3)' /\ Had(SubSeq(toHost, 1, 3), a, 3, 0)
    BY <1>1, <1>2, <1>3, <2>2, <2>3, HostTakes
  <2>5. Answered(q, 3)'
    BY <2>3, <2>4
  <2>6. HaveErrs(q)' /\ hpc' \in Busy
    BY <1>3, <1>4, <1>8, <2>4, <2>5 DEF HaveErrs, Busy
  <2> QED BY <1>2, <1>6, <2>6, BusyPlace
<1> QED BY <1>1, <1>7, <1>8

(* ... then the rest. *)
LEMMA ErrsRestStep ==
    ASSUME Blocks, IInv, Result, NEW q, q = cur, Place(q), ErrsRest
    PROVE  Place(q)'
<1>1. PICK n : n = HostUnstuff(resp).buf[3] + 2
  OBVIOUS
<1>2. /\ hpc = "errs4" /\ toHost' = SubSeq(toHost, n + 1, Len(toHost))
      /\ \/ Len(toHost) >= n /\ \E pkt : Judge(pkt)
         \/ hpc' = "drain" /\ res' = res
      /\ UNCHANGED <<toTarget, targetVars, ret>>
  BY <1>1 DEF ErrsRest, Drop
<1>3. /\ q \in AllRequests /\ HaveErrs(q)
  BY <1>2 DEF Place, Busy, Underway, AwaitData, AwaitCode, HaveData, HaveCode, AwaitErrs,
     WithErrors
<1>4. PICK f, a, r : f = First(q) /\ a = Answer(q) /\ r = resp
  OBVIOUS
<1>5. q.call = "errs3" /\ Had(r, a, 3, 0) /\ Answered(q, 3)
  BY <1>3, <1>4 DEF HaveErrs
<1>6. /\ Len(f) \in Nat /\ Len(a) = Len(f) + 6 /\ Len(f) >= 6
      /\ a[1] >= 3 /\ a[3] = Len(f) - 5
  BY <1>3, <1>4, <1>5, AnswerShape
<1>7. /\ r \in Seq(Byte) /\ Len(r) = 3 /\ r[1] = a[1] /\ r[3] = a[3]
  <2>1. 1 \in 1 .. 3 /\ 3 \in 1 .. 3 /\ 0 + 1 = 1 /\ 0 + 3 = 3
    OBVIOUS
  <2>2. r \in Seq(Byte)
    BY <1>4, HostBytes
  <2> QED BY <1>5, <2>1, <2>2 DEF Had
<1>8. HostUnstuff(r).buf[3] = r[3]
  BY <1>6, <1>7, HeaderLength
<1>9. n \in Nat /\ 3 + n = Len(f) /\ 3 + n <= Len(a) /\ 3 \in Nat
  <2>1. n = a[3] + 2
    BY <1>1, <1>4, <1>7, <1>8
  <2> QED BY ONLY <1>6, <2>1
<1>10. CASE hpc' = "drain" /\ res' = res
  <2>1. Onward(q)' /\ res'.ack # SS_ERR_OK
    BY <1>2, <1>10 DEF Place, Onward
  <2> QED BY <1>10, <2>1, AsidePlace
<1>11. CASE Len(toHost) >= n /\ \E pkt : Judge(pkt)
  <2>1. n <= Len(toHost)
    <3>1. Len(toHost) \in Nat
      BY HostBytes
    <3> QED BY ONLY <1>9, <1>11, <3>1
  <2>2. Answered(q, 3 + n)'
    BY <1>2, <1>3, <1>4, <1>5, <1>9, <2>1, HostTakes
  <2>3. Answered(q, Len(First(q)))'
    BY <1>4, <1>9, <2>2
  <2> QED BY <1>2, <1>3, <1>11, <2>3, JudgePlace
<1> QED BY <1>2, <1>10, <1>11

-----------------------------------------------------------------------------
(* The user's next call. *)
LEMMA CallPlace ==
    ASSUME IInv, faults = {}, NEW p, Place(p), Call
    PROVE  \E q \in Writable : q = cur' /\ Place(q)'
<1>1. PICK q : /\ q \in Requests /\ cur' = q
               /\ \/ CallEncrypt(q) \/ CallWithErrors(q) \/ CallUnknown(q)
                  \/ CallCommands(q) \/ CallSetKey(q)
  BY DEF Call
<1>2. q \in AllRequests /\ q \in Writable
  BY <1>1 DEF Requests, Writable
<1>3. hpc = "idle" /\ res' = NoResult /\ UNCHANGED targetVars
  BY DEF Call
<1>4. Settled /\ data_buf = <<>> /\ ret = <<>>
  <2>1. Settled
    BY <1>3 DEF Place, Still
  <2>2. ret = <<>>
    BY <1>3 DEF IInv, HostTypes, Control, Stack
  <2> QED BY <1>3, <2>1, <2>2, AlignedNow
<1>5. res'.ack # SS_ERR_OK
  BY <1>3 DEF NoResult, None, SS_ERR_OK
<1>6. ASSUME Write(q), toHost' = <<>>, ret' = ret,
             Asked(q)' => \/ AwaitData(q)' \/ HaveData(q)' \/ AwaitCode(q)'
                          \/ HaveCode(q)' \/ AwaitErrs(q)' \/ HaveErrs(q)',
             hpc' \in Busy
      PROVE  Place(q)'
  <2>1. Asked(q)'
    BY <1>2, <1>3, <1>4, <1>6, WriteAsks DEF Settled
  <2>2. Onward(q)'
    BY <1>4, <1>6, NowhereOnward
  <2> QED BY <1>2, <1>5, <1>6, <2>1, <2>2, BusyPlace
<1>7. toHost = <<>>
  BY <1>4 DEF Settled
<1>8. CASE CallEncrypt(q)
  <2>1. Write(q) /\ toHost' = <<>> /\ ret' = ret /\ hpc' = "first" /\ expect' = RESPONSE
        /\ q.call = "pt"
    BY <1>7, <1>8 DEF CallEncrypt, ReadCmd
  <2>2. Asked(q)' => AwaitData(q)'
    BY <2>1 DEF AwaitData
  <2>3. hpc' \in Busy
    BY <2>1 DEF Busy
  <2> QED BY <1>1, <1>2, <1>6, <2>1, <2>2, <2>3
<1>9. CASE CallWithErrors(q)
  <2>1. Write(q) /\ toHost' = <<>> /\ ret' = ret /\ hpc' = q.call /\ q.call \in WithErrors
    BY <1>7, <1>9 DEF CallWithErrors
  <2>2. Asked(q)' => AwaitErrs(q)'
    BY <2>1 DEF AwaitErrs
  <2>3. hpc' \in Busy
    BY <2>1 DEF Busy, WithErrors
  <2> QED BY <1>1, <1>2, <1>6, <2>1, <2>2, <2>3
<1>10. CASE CallUnknown(q)
  <2>1. Write(q) /\ toHost' = <<>> /\ ret' = ret /\ hpc' = "first" /\ expect' = ACK
        /\ q.call = "bad"
    BY <1>7, <1>10 DEF CallUnknown, ReadCmd
  <2>2. First(q) = <<>>
    BY <2>1 DEF First
  <2>3. Asked(q)' => AwaitCode(q)'
    BY <2>1, <2>2 DEF AwaitCode
  <2>4. hpc' \in Busy
    BY <2>1 DEF Busy
  <2> QED BY <1>1, <1>2, <1>6, <2>1, <2>3, <2>4
<1>11. CASE CallCommands(q)
  <2>1. Write(q) /\ toHost' = <<>> /\ ret' = ret /\ hpc' = "first" /\ expect' = RESPONSE
        /\ q.call = "list" /\ ~flush_on_err'
    BY <1>11 DEF CallCommands, ReadCmd
  <2>2. Asked(q)' => AwaitData(q)'
    BY <2>1 DEF AwaitData
  <2>3. hpc' \in Busy
    BY <2>1 DEF Busy
  <2> QED BY <1>1, <1>2, <1>6, <2>1, <2>2, <2>3
<1>12. CASE CallSetKey(q)
  <2>1. q.call = "key" /\ toHost' = toHost
        /\ IF last_key # q.data THEN ResetComms(<<"sendkey">>)
                                ELSE UNCHANGED <<toTarget, hpc, ret>>
    BY <1>12 DEF CallSetKey
  <2>2. CASE ResetComms(<<"sendkey">>)
    <3>1. hpc' = "reset" /\ ret' = <<"sendkey">>
      BY <2>2 DEF ResetComms
    <3>2. Onward(q)'
      <4>1. \A k \in DOMAIN <<"sendkey">> : <<"sendkey">>[k] = "sendkey"
        OBVIOUS
      <4> QED BY <2>1, <3>1, <4>1 DEF Onward
    <3>3. Place(q)'
      BY <1>5, <3>1, <3>2, AsidePlace
    <3> QED BY <1>1, <1>2, <3>3
  <2>3. CASE UNCHANGED <<toTarget, hpc, ret>>
    <3>1. Settled'
      BY <1>3, <1>4, <2>1, <2>3 DEF Settled, targetVars
    <3>2. Onward(q)'
      BY <1>4, <2>3, NowhereOnward
    <3>3. hpc' \notin Busy \cup {"listack", "errorbyte", "sendkey"}
      BY <1>3, <2>3 DEF Busy
    <3>4. Place(q)'
      BY <1>5, <3>1, <3>2, <3>3 DEF Place
    <3> QED BY <1>1, <1>2, <3>4
  <2> QED BY <2>1, <2>2, <2>3
<1> QED BY <1>1, <1>8, <1>9, <1>10, <1>11, <1>12

(* The target reads or writes, which it does only while a call waits for it  *)
(* or the host sleeps.                                                       *)
LEMMA TargetPlace ==
    ASSUME Blocks, Recorded, IInv, IInv', NEW q, Place(q), Target
    PROVE  Place(q)'
<1>1. (Getch \/ Putch) /\ UNCHANGED hostVars
  BY DEF Target
<1>2. ~Settled
  BY <1>1 DEF Getch, Putch, Settled
<1>3. /\ hpc' = hpc /\ expect' = expect /\ resp' = resp /\ ret' = ret
      /\ flush_on_err' = flush_on_err /\ res' = res
  BY <1>1 DEF hostVars
<1>4. /\ toTarget \in Seq(Byte) /\ toHost \in Seq(Byte) /\ tx \in Seq(Byte) /\ tx' \in Seq(Byte)
  BY HostBytes DEF IInv, TargetTypes
<1>5. hpc' \notin Still /\ hpc # "idle" /\ hpc' # "sendkey"
  BY <1>2, <1>3 DEF Place, Still
<1>6. Onward(q)' /\ res'.ack # SS_ERR_OK /\ hpc' \notin {"listack", "errorbyte"}
  BY <1>3, <1>5 DEF Place, Onward
<1>7. CASE hpc \notin Busy
  BY <1>3, <1>5, <1>6, <1>7 DEF Place
<1>8. CASE hpc \in Busy
  <2>1. Underway(q) /\ q \in AllRequests
    BY <1>8 DEF Place, Underway
  <2>2. PICK f, a : f = First(q) /\ a = Answer(q)
    OBVIOUS
  <2>3. a \in Seq(Byte) /\ Len(f) \in Nat /\ Len(f) + 5 \in Nat
    <3>1. a \in Seq(Byte) /\ Len(f) \in Nat
      BY <2>1, <2>2, AnswerShape
    <3> QED BY <3>1
  <2>4. ASSUME Asked(q) PROVE Asked(q)' \/ Answered(q, 0)'
    <3>1. tx = <<>>
      BY <2>4 DEF Asked, Reading
    <3>2. Getch
      BY <1>1, <3>1 DEF Putch
    <3> QED BY <1>4, <2>1, <2>4, <3>2, AskedStep
  <2>5. ASSUME NEW j \in Nat, Answered(q, j) PROVE Answered(q, j)'
    BY <1>1, <1>4, <2>2, <2>3, <2>5, AnsweredStep
  <2>6. 0 \in Nat /\ 5 \in Nat /\ 3 \in Nat
    OBVIOUS
  <2>7. AwaitData(q) => AwaitData(q)'
    BY <1>3, <2>4, <2>5, <2>6 DEF AwaitData
  <2>8. HaveData(q) => HaveData(q)'
    BY <1>3, <2>5, <2>6 DEF HaveData
  <2>9. AwaitCode(q) => AwaitCode(q)'
    <3>1. ASSUME Answered(q, Len(f)) PROVE Answered(q, Len(f))'
      BY <2>3, <2>5, <3>1
    <3>2. f = <<>> => Len(f) = 0
      BY EmptySeq
    <3>3. ASSUME f = <<>>, Asked(q) PROVE Asked(q)' \/ Answered(q, Len(f))'
      BY <2>4, <3>2, <3>3
    <3> QED BY <1>3, <2>2, <3>1, <3>3 DEF AwaitCode
  <2>10. HaveCode(q) => HaveCode(q)'
    <3>1. ASSUME Answered(q, Len(f) + 5) PROVE Answered(q, Len(f) + 5)'
      BY <2>3, <2>5, <3>1
    <3> QED BY <1>3, <2>2, <3>1 DEF HaveCode
  <2>11. AwaitErrs(q) => AwaitErrs(q)'
    BY <1>3, <2>4, <2>5, <2>6 DEF AwaitErrs
  <2>12. HaveErrs(q) => HaveErrs(q)'
    BY <1>3, <2>5, <2>6 DEF HaveErrs
  <2>13. \/ AwaitData(q)' \/ HaveData(q)' \/ AwaitCode(q)'
         \/ HaveCode(q)' \/ AwaitErrs(q)' \/ HaveErrs(q)'
    BY <2>1, <2>7, <2>8, <2>9, <2>10, <2>11, <2>12 DEF Underway
  <2> QED BY <1>3, <1>6, <1>8, <2>1, <2>13, BusyPlace
<1> QED BY <1>7, <1>8

(* A step of the host. *)
LEMMA HostPlace ==
    ASSUME Prompt, Blocks, IInv, Result, NEW q, q \in Writable, q = cur, Place(q),
           Good, Good', faults = {}, Host
    PROVE  q = cur' /\ Place(q)'
<1>1. cur' = cur
  BY DEF Host, Con, ResetPoll, Flush, Connected, SendKey, FirstRead, FirstTimeout,
     ErrorByte, SecondRead, SecondTimeout, SecondRaises, ListAck, Rekey, ErrsRead,
     ErrsHeader, ErrsRest, Drain
<1> SUFFICES Place(q)'
  BY <1>1
<1>2. CASE Con \/ ResetPoll \/ Flush \/ Connected \/ Rekey \/ Drain
  BY <1>2, SleepStep
<1>3. CASE SendKey
  BY <1>3, SendKeyStep
<1>4. CASE FirstRead
  BY <1>4, FirstReadStep
<1>5. CASE FirstTimeout \/ SecondTimeout
  <2>1. ReadFailed /\ hpc \in {"first", "second"} /\ UNCHANGED <<cur, tmp>>
    BY <1>5 DEF FirstTimeout, SecondTimeout
  <2> QED BY <2>1, FailedPlace
<1>6. CASE ErrorByte \/ ListAck
  BY <1>6 DEF ErrorByte, ListAck, Place
<1>7. CASE SecondRead
  BY <1>7, SecondReadStep
<1>8. CASE SecondRaises
  BY <1>8, NeverRaises
<1>9. CASE ErrsRead
  BY <1>9, ErrsReadStep
<1>10. CASE ErrsHeader
  BY <1>10, ErrsHeaderStep
<1>11. CASE ErrsRest
  BY <1>11, ErrsRestStep
<1> QED BY <1>1, <1>2, <1>3, <1>4, <1>5, <1>6, <1>7, <1>8, <1>9, <1>10, <1>11 DEF Host

(* At the start. *)
LEMMA CleanInit == Init => Clean /\ Result
<1> SUFFICES ASSUME Init PROVE Clean /\ Result
  OBVIOUS
<1>1. ran = <<>> /\ hpc = "con" /\ ret = <<>> /\ cur = NoRequest /\ res = NoResult
  BY DEF Init, TargetInit
<1>2. Recorded
  <2>1. <<>> \in Seq({})
    BY EmptySeq
  <2> QED BY <1>1, <2>1 DEF Recorded
<1>3. Result
  BY <1>1 DEF Result, NoResult
<1>4. Place(NoRequest)
  <2>1. res.ack # SS_ERR_OK
    BY <1>1 DEF NoResult, None, SS_ERR_OK
  <2>2. DOMAIN <<>> = {}
    OBVIOUS
  <2> QED BY <1>1, <2>1, <2>2 DEF Place, Still, Busy, Onward
<1>5. NoRequest \in Writable
  BY DEF Writable
<1> QED BY <1>1, <1>2, <1>3, <1>4, <1>5 DEF Clean

(* Every step. *)
LEMMA CleanStep ==
    ASSUME Prompt, Blocks, IInv, IInv', Clean, Result, [Next]_vars
    PROVE  Clean' /\ Result'
<1>1. Result'
  BY ResultStep
<1>2. Recorded'
  <2>1. CASE Getch
    BY <2>1, RecordedStep DEF Clean
  <2>2. CASE ran' = ran
    BY <2>2 DEF Clean, Recorded
  <2>3. Getch \/ ran' = ran
    <3>1. CASE Target
      BY <3>1 DEF Target, Putch
    <3>2. CASE Host
      BY <3>2 DEF Host, Con, ResetPoll, Flush, Connected, SendKey, FirstRead, FirstTimeout,
         ErrorByte, SecondRead, SecondTimeout, SecondRaises, ListAck, Rekey, ErrsRead,
         ErrsHeader, ErrsRest, Drain, targetVars
    <3>3. CASE Call \/ Fault \/ Done \/ UNCHANGED vars
      BY <3>3 DEF Call, Fault, Done, vars, targetVars
    <3> QED BY <3>1, <3>2, <3>3 DEF Next
  <2> QED BY <2>1, <2>2, <2>3
<1>3. ASSUME Good', faults' = {} PROVE \E q \in Writable : q = cur' /\ Place(q)'
  <2>1. Good /\ faults = {} /\ ~Fault
    BY <1>3, GoodBack, FaultsBack
  <2>2. PICK q \in Writable : q = cur /\ Place(q)
    BY <2>1 DEF Clean
  <2>3. CASE Call
    BY <2>1, <2>2, <2>3, CallPlace
  <2>4. CASE Host
    <3>1. q = cur' /\ Place(q)'
      BY <1>3, <2>1, <2>2, <2>4, HostPlace
    <3> QED BY <3>1
  <2>5. CASE Target
    <3>1. cur' = cur
      BY <2>5 DEF Target, hostVars
    <3>2. Place(q)'
      BY <2>2, <2>5, TargetPlace DEF Clean
    <3> QED BY <2>2, <3>1, <3>2
  <2>6. CASE UNCHANGED vars
    <3>1. cur' = cur
      BY <2>6 DEF vars, hostVars
    <3>2. /\ toTarget' = toTarget /\ toHost' = toHost /\ data_buf' = data_buf
          /\ next_frame' = next_frame /\ tx' = tx /\ ran' = ran /\ hpc' = hpc
          /\ expect' = expect /\ resp' = resp /\ ret' = ret
          /\ flush_on_err' = flush_on_err /\ res' = res
      BY <2>6 DEF vars, channels, targetVars, hostVars
    <3>3. Settled => Settled'
      BY <3>2 DEF Settled
    <3>4. CurRan(q) => CurRan(q)'
      BY <3>2 DEF CurRan
    <3>5. Asked(q) => Asked(q)'
      BY <3>2 DEF Asked, Reading
    <3>6. ASSUME NEW j, Answered(q, j) PROVE Answered(q, j)'
      BY <3>2, <3>4, <3>6 DEF Answered
    <3>7. Underway(q) => Underway(q)'
      BY <3>2, <3>5, <3>6 DEF Underway, AwaitData, HaveData, AwaitCode, HaveCode, AwaitErrs,
         HaveErrs
    <3>8. Onward(q) => Onward(q)'
      BY <3>2 DEF Onward
    <3>9. Place(q)'
      BY <2>2, <3>2, <3>3, <3>4, <3>7, <3>8 DEF Place
    <3> QED BY <2>2, <3>1, <3>9
  <2> QED BY <2>1, <2>3, <2>4, <2>5, <2>6 DEF Next, Done
<1> QED BY <1>1, <1>2, <1>3 DEF Clean

\* All of it.
CleanInv == IInv /\ Clean /\ Result

(* It holds at the start, and every step keeps it.                           *)
LEMMA CleanInductive ==
    ASSUME Prompt, Blocks
    PROVE  (Init => CleanInv) /\ (CleanInv /\ [Next]_vars => CleanInv')
<1>1. Init => CleanInv
  BY Initially, CleanInit DEF CleanInv
<1>2. CleanInv /\ [Next]_vars => CleanInv'
  <2> SUFFICES ASSUME CleanInv, [Next]_vars PROVE CleanInv'
    OBVIOUS
  <2>1. IInv'
    BY IInvStep DEF CleanInv
  <2> QED BY <2>1, CleanStep DEF CleanInv
<1> QED BY <1>1, <1>2

(* Between two calls nothing is on its way, the target is at the start of a  *)
(* frame, and what was acknowledged has run.                                 *)
LEMMA CleanRest ==
    ASSUME CleanInv, faults = {}, Idle
    PROVE  InStep /\ Quiet /\ OkMeansRan
<1>1. hpc = "idle" /\ Good
  BY DEF Idle, Good
<1>2. PICK q : q \in Writable /\ q = cur /\ Place(q)
  BY <1>1 DEF CleanInv, Clean
<1>3. Settled /\ (res.ack = SS_ERR_OK => CurRan(q))
  BY <1>1, <1>2 DEF Place, Still
<1>4. data_buf = <<>>
  BY <1>1, <1>3, AlignedNow DEF CleanInv
<1>5. InStep /\ Quiet
  BY <1>3, <1>4 DEF InStep, Quiet, Settled
<1>6. OkMeansRan
  BY <1>2, <1>3 DEF OkMeansRan, CurRan
<1> QED BY <1>5, <1>6

(* On a line that loses and garbles nothing, however late the answers are:   *)
(* when no call is in progress nothing is on its way and both ends of the    *)
(* link are in step, the target at the start of a frame.  The sleep of       *)
(* reset_comms and the glitch_timeout are taken to be long enough for the    *)
(* target to come to rest, and what is sent are blocks.                      *)
THEOREM CleanInStep ==
    ASSUME Prompt, Blocks
    PROVE  Spec => [](faults = {} => InStep /\ (Idle => Quiet))
<1>1. CleanInv => (faults = {} => InStep /\ (Idle => Quiet))
  BY CleanRest DEF InStep
<1> QED BY <1>1, CleanInductive, PTL DEF Spec

(* On such a line a call that returned the code OK had its own command run,  *)
(* last of all: no answer reaches a call it does not belong to.              *)
THEOREM CleanOkRan ==
    ASSUME Prompt, Blocks
    PROVE  Spec => [](faults = {} => OkMeansRan)
<1>1. CleanInv => (faults = {} => OkMeansRan)
  BY CleanRest DEF OkMeansRan
<1> QED BY <1>1, CleanInductive, PTL DEF Spec

-----------------------------------------------------------------------------
(* On a clean line the link keeps the promise of CallLink, step by step.     *)

\* A command of the target as send_cmd writes it.
Command(f) ==
    \E c \in DOMAIN commands, scmd \in Byte, data \in Seq(Byte) :
        Len(data) + 6 <= MAX_SS_LEN /\ f = CommandFrame(commands[c], scmd, data)

\* What is left over from an earlier session is a command that was cut off, and
\* not just before its terminator, which con() would then bring.
CutOff ==
    \A l \in Leftovers :
        \E f : Command(f) /\ \E n \in 0 .. Len(f) - 2 : l = SubSeq(f, 1, n)

\* The target takes what is left of a command it does not know for frames; none
\* of those begins like a command it has.
Piece(f, k) == SubSeq(f, 4 * k + 1, 4 * k + 4)
Scattered ==
    \A q \in AllRequests : q.call = "bad" =>
        \A k \in Nat \ {0} : 4 * k + 4 < Len(FrameOf(q)) =>
            UnstuffData(Piece(FrameOf(q), k), 4).buf[2] \notin Range(commands)

\* The line to the target brings the bytes of f after the i-th, up to the n-th,
\* and then nothing but FRAME_BYTEs.
Brings(f, i, n) ==
    /\ Len(toTarget) >= n - i
    /\ \A k \in 1 .. Len(toTarget) :
          toTarget[k] = IF k <= n - i THEN f[i + k] ELSE FRAME_BYTE

\* No command is being read or on its way.
Nothing == data_buf = <<>> /\ \A k \in 1 .. Len(toTarget) : toTarget[k] = FRAME_BYTE
\* One request is.
Sends(q) ==
    \E i \in 0 .. Len(FrameOf(q)) - 1 :
        Reading(FrameOf(q), i) /\ Brings(FrameOf(q), i, Len(FrameOf(q)))
\* What an earlier session left over is.
CutShort ==
    \E f : Command(f) /\ \E n \in 0 .. Len(f) - 2 : \E i \in 0 .. n :
        Reading(f, i) /\ Brings(f, i, n)
\* A command the target does not know is, or what is left of it.
Scraps(q) ==
    \E k \in Nat, j \in 0 .. 3 :
        /\ 4 * k + j < Len(FrameOf(q))
        /\ data_buf = SubSeq(FrameOf(q), 4 * k + 1, 4 * k + j)
        /\ Brings(FrameOf(q), 4 * k + j, Len(FrameOf(q)))

(* The line, after a FRAME_BYTE or two more. *)
LEMMA BringsReset ==
    ASSUME toTarget \in Seq(Byte), NEW f, NEW i, i \in Nat, NEW n, n \in Nat, i <= n,
           Brings(f, i, n), toTarget' = toTarget \o <<FRAME_BYTE, FRAME_BYTE>>
    PROVE  Brings(f, i, n)'
<1>1. PICK s, z, t : s = toTarget /\ z = <<FRAME_BYTE, FRAME_BYTE>> /\ t = s \o z
  OBVIOUS
<1>2. z \in Seq(Byte) /\ Len(z) = 2 /\ z[1] = FRAME_BYTE /\ z[2] = FRAME_BYTE
  <2>1. FRAME_BYTE \in Byte
    BY DEF FRAME_BYTE, Byte
  <2> QED BY <1>1, <2>1
<1>3. s \in Seq(Byte) /\ t = s \o z /\ t = toTarget' /\ s = toTarget
  BY <1>1
<1>4. /\ Len(t) = Len(s) + 2 /\ Len(s) \in Nat
      /\ \A k \in 1 .. Len(s) + 2 : t[k] = IF k <= Len(s) THEN s[k] ELSE z[k - Len(s)]
  <2>1. /\ s \o z \in Seq(Byte) /\ Len(s \o z) = Len(s) + Len(z)
        /\ \A k \in 1 .. Len(s) + Len(z) :
              (s \o z)[k] = IF k <= Len(s) THEN s[k] ELSE z[k - Len(s)]
    BY ONLY <1>2, <1>3, ConcatProperties
  <2>2. Len(s) \in Nat
    BY ONLY <1>3, LenProperties
  <2>3. Len(z) = 2 /\ t = s \o z
    BY ONLY <1>2, <1>3
  <2> QED BY ONLY <2>1, <2>2, <2>3
<1>5. Len(s) >= n - i /\ \A k \in 1 .. Len(s) : s[k] = IF k <= n - i THEN f[i + k] ELSE FRAME_BYTE
  BY <1>3 DEF Brings
<1>6. ASSUME NEW k, k \in 1 .. Len(t)
      PROVE  t[k] = IF k <= n - i THEN f[i + k] ELSE FRAME_BYTE
  <2>1. k \in 1 .. Len(s) + 2 /\ k \in Int
    BY <1>4, <1>6
  <2>2. CASE k <= Len(s)
    <3>1. k \in 1 .. Len(s) /\ t[k] = s[k]
      BY ONLY <1>4, <2>1, <2>2
    <3> QED BY ONLY <1>5, <3>1
  <2>3. CASE ~(k <= Len(s))
    <3>1. k - Len(s) \in {1, 2} /\ t[k] = z[k - Len(s)]
      BY ONLY <1>4, <2>1, <2>3
    <3>2. ~(k <= n - i)
      <4>1. i \in Nat /\ n \in Nat
        OBVIOUS
      <4> QED BY ONLY <1>4, <1>5, <2>1, <2>3, <4>1
    <3> QED BY ONLY <1>2, <3>1, <3>2
  <2> QED BY <2>2, <2>3
<1>7. Len(t) >= n - i
  <2>1. i \in Nat /\ n \in Nat
    OBVIOUS
  <2> QED BY ONLY <1>4, <1>5, <2>1
<1> QED BY <1>3, <1>6, <1>7 DEF Brings

(* Nothing but FRAME_BYTEs is no more of any frame. *)
LEMMA BringsNone ==
    ASSUME NEW f, NEW n, n \in Nat
    PROVE  /\ Brings(f, n, n) => \A k \in 1 .. Len(toTarget) : toTarget[k] = FRAME_BYTE
           /\ Brings(f, n, n)' => \A k \in 1 .. Len(toTarget') : toTarget'[k] = FRAME_BYTE
<1>1. n - n = 0 /\ \A k \in 1 .. Len(toTarget) : ~(k <= 0)
  OBVIOUS
<1>2. \A k \in 1 .. Len(toTarget') : ~(k <= 0)
  OBVIOUS
<1> QED BY <1>1, <1>2 DEF Brings

(* The line, when the target has taken a byte. *)
LEMMA BringsGet ==
    ASSUME toTarget \in Seq(Byte), toTarget # <<>>, toTarget' = Tail(toTarget),
           NEW f, NEW i, i \in Nat, NEW n, n \in Nat, i <= n, Brings(f, i, n)
    PROVE  IF i < n THEN Head(toTarget) = f[i + 1] /\ Brings(f, i + 1, n)'
                    ELSE Head(toTarget) = FRAME_BYTE /\ Brings(f, i, n)'
<1>1. PICK s, t : s = toTarget /\ t = Tail(s)
  OBVIOUS
<1>2. /\ t \in Seq(Byte) /\ Len(t) = Len(s) - 1 /\ Len(s) \in Nat
      /\ \A k \in 1 .. Len(t) : t[k] = s[k + 1]
  <2>1. s \in Seq(Byte) /\ s # <<>> /\ t = Tail(s)
    BY <1>1
  <2> QED BY ONLY <2>1, HeadTailProperties, LenProperties
<1>3. Head(s) = s[1] /\ 1 \in 1 .. Len(s)
  <2>1. s \in Seq(Byte) /\ s # <<>>
    BY <1>1
  <2>2. Len(s) # 0
    BY ONLY <2>1, EmptySeq
  <2> QED BY ONLY <1>2, <2>1, <2>2
<1>4. Len(s) >= n - i /\ \A k \in 1 .. Len(s) : s[k] = IF k <= n - i THEN f[i + k] ELSE FRAME_BYTE
  BY <1>1 DEF Brings
<1>5. t = toTarget' /\ i \in Nat /\ n \in Nat /\ i <= n
  BY <1>1
<1>6. CASE i < n
  <2>1. 1 <= n - i
    BY ONLY <1>5, <1>6
  <2>2. Head(s) = f[i + 1]
    BY ONLY <1>3, <1>4, <2>1
  <2>3. ASSUME NEW k, k \in 1 .. Len(t)
        PROVE  t[k] = IF k <= n - (i + 1) THEN f[(i + 1) + k] ELSE FRAME_BYTE
    <3>1. /\ k + 1 \in 1 .. Len(s) /\ (k <= n - (i + 1) <=> k + 1 <= n - i)
          /\ i + (k + 1) = (i + 1) + k
      BY ONLY <1>2, <1>5, <2>3
    <3>2. t[k] = s[k + 1]
      BY <1>2, <2>3
    <3>3. s[k + 1] = IF k + 1 <= n - i THEN f[i + (k + 1)] ELSE FRAME_BYTE
      BY ONLY <1>4, <3>1
    <3> QED BY ONLY <3>1, <3>2, <3>3
  <2>4. Len(t) >= n - (i + 1)
    BY ONLY <1>2, <1>4, <1>5
  <2> QED BY <1>1, <1>5, <1>6, <2>2, <2>3, <2>4 DEF Brings
<1>7. CASE ~(i < n)
  <2>1. n - i = 0 /\ ~(1 <= n - i)
    BY ONLY <1>5, <1>7
  <2>2. Head(s) = FRAME_BYTE
    BY ONLY <1>3, <1>4, <2>1
  <2>3. ASSUME NEW k, k \in 1 .. Len(t)
        PROVE  t[k] = IF k <= n - i THEN f[i + k] ELSE FRAME_BYTE
    <3>1. k + 1 \in 1 .. Len(s) /\ ~(k <= n - i) /\ ~(k + 1 <= n - i)
      BY ONLY <1>2, <2>1, <2>3
    <3>2. t[k] = s[k + 1]
      BY <1>2, <2>3
    <3> QED BY ONLY <1>4, <3>1, <3>2
  <2>4. Len(t) >= n - i
    BY ONLY <1>2, <1>3, <2>1
  <2> QED BY <1>1, <1>5, <1>7, <2>2, <2>3, <2>4 DEF Brings
<1> QED BY <1>6, <1>7

(* Only the last byte of a frame runs a command. *)
LEMMA GetchWaits ==
    ASSUME Getch, Len(data_buf) < 4 \/ Len(data_buf) < data_buf[4] + 5
    PROVE  ran' = ran
<1> DEFINE c == Head(toTarget)
           buf == Append(data_buf, c)
           i == Len(data_buf)
<1>1. ASSUME NEW err, Fail(err) PROVE ran' = ran
  BY <1>1 DEF Fail
<1>2. Wait(buf) => ran' = ran
  BY DEF Wait
<1>3. Header(buf) => ran' = ran
  BY <1>1 DEF Header
<1>4. IF i < 4
        THEN IF c = FRAME_BYTE THEN Fail(SS_ERR_FRAME_BYTE)
             ELSE IF i < 3 THEN Wait(buf) ELSE Header(buf)
      ELSE IF i < data_buf[4] + 5
        THEN IF c = FRAME_BYTE THEN Fail(SS_ERR_FRAME_BYTE) ELSE Wait(buf)
      ELSE IF c # FRAME_BYTE THEN Fail(SS_ERR_LEN) ELSE Frame(buf)
  BY DEF Getch
<1>5. i < 4 \/ i < data_buf[4] + 5
  OBVIOUS
<1> HIDE DEF buf, i, c
<1> QED BY <1>1, <1>2, <1>3, <1>4, <1>5

(* FRAME_BYTEs run nothing. *)
LEMMA NothingStep ==
    ASSUME toTarget \in Seq(Byte), Nothing, Getch
    PROVE  Nothing' /\ ran' = ran
<1>1. toTarget # <<>> /\ toTarget' = Tail(toTarget) /\ data_buf = <<>>
  BY DEF Getch, Nothing
<1>2. Brings(<<>>, 0, 0)
  <2>1. \A k \in 1 .. Len(toTarget) : toTarget[k] = FRAME_BYTE
    BY DEF Nothing
  <2>2. \A k \in 1 .. Len(toTarget) : ~(k <= 0 - 0)
    OBVIOUS
  <2>3. Len(toTarget) >= 0 - 0
    BY LenProperties
  <2> QED BY <2>1, <2>2, <2>3 DEF Brings
<1>3. Head(toTarget) = FRAME_BYTE /\ Brings(<<>>, 0, 0)'
  <2>1. PICK f : f = <<>>
    OBVIOUS
  <2>2. Brings(f, 0, 0)
    BY <1>2, <2>1
  <2>3. 0 \in Nat /\ 0 <= 0 /\ ~(0 < 0)
    OBVIOUS
  <2>4. Head(toTarget) = FRAME_BYTE /\ Brings(f, 0, 0)'
    BY <1>1, <2>2, <2>3, BringsGet
  <2> QED BY <2>1, <2>4
<1>4. Len(data_buf) < 4
  BY <1>1
<1>5. ran' = ran /\ data_buf' = <<>>
  BY <1>3, <1>4, GetchWaits, GetchClears
<1>6. \A k \in 1 .. Len(toTarget') : toTarget'[k] = FRAME_BYTE
  <2>1. PICK f : f = <<>>
    OBVIOUS
  <2>2. Brings(f, 0, 0)'
    BY <1>3, <2>1
  <2> QED BY <2>2, BringsNone
<1> QED BY <1>5, <1>6 DEF Nothing

(* A command of the target is read: another byte of it, or the whole. *)
LEMMA CommandStep ==
    ASSUME NEW cmd, \E c \in DOMAIN commands : commands[c] = cmd, NEW scmd, NEW data,
           NEW f, Legible(f, cmd, scmd, data), toTarget \in Seq(Byte),
           NEW i, i \in 0 .. Len(f) - 1, NEW n, n \in i .. Len(f),
           Reading(f, i), Brings(f, i, n), Getch
    PROVE  \/ /\ i + 1 < Len(f) /\ i + 1 <= n
              /\ Reading(f, i + 1)' /\ Brings(f, i + 1, n)' /\ ran' = ran
           \/ i = n /\ Nothing' /\ (n < Len(f) - 1 => ran' = ran)
           \/ i = Len(f) - 1 /\ n = Len(f) /\ Nothing' /\ Ran(cmd, scmd, data)
<1>1. toTarget # <<>> /\ toTarget' = Tail(toTarget)
  BY DEF Getch
<1>2. /\ f \in Seq(Byte) /\ Len(f) \in Nat /\ Len(f) >= 6
      /\ HeaderOf(f).buf \in Seq(Byte) /\ Len(HeaderOf(f).buf) = 4
      /\ HeaderOf(f).buf[4] + 5 = Len(f) - 1
  BY DEF Legible
<1>3. i \in Nat /\ n \in Nat /\ i <= n /\ n <= Len(f) /\ i <= Len(f) - 1
  BY <1>2
<1>4. Len(data_buf) = i /\ (i >= 4 => data_buf[4] = HeaderOf(f).buf[4])
  <2>1. PICK h : h = HeaderOf(f).buf
    OBVIOUS
  <2>2. data_buf = Upto(f, h, i)
    BY <2>1 DEF Reading
  <2>3. h \in Seq(Byte) /\ Len(h) = 4 /\ f \in Seq(Byte) /\ Len(f) >= 6 /\ i \in 0 .. Len(f) - 1
    BY <1>2, <2>1
  <2>4. Len(Upto(f, h, i)) = i /\ (i >= 4 => Upto(f, h, i)[4] = h[4])
    BY ONLY <2>3, UptoNext
  <2> QED BY <2>1, <2>2, <2>4
<1>5. ASSUME i < Len(f) - 1 PROVE ran' = ran
  <2>1. i < 4 \/ (i >= 4 /\ i < data_buf[4] + 5)
    BY <1>2, <1>3, <1>4, <1>5
  <2>2. Len(data_buf) < 4 \/ Len(data_buf) < data_buf[4] + 5
    BY <1>4, <2>1
  <2> QED BY <2>2, GetchWaits
<1>6. IF i < n THEN Head(toTarget) = f[i + 1] /\ Brings(f, i + 1, n)'
               ELSE Head(toTarget) = FRAME_BYTE /\ Brings(f, i, n)'
  BY <1>1, <1>3, BringsGet
<1>7. CASE i < n
  <2>1. IF i < Len(f) - 1 THEN Reading(f, i + 1)' ELSE Ran(cmd, scmd, data)
    BY <1>6, <1>7, ReadingStep
  <2>2. CASE i < Len(f) - 1
    <3>1. i + 1 < Len(f) /\ i + 1 <= n
      BY ONLY <1>2, <1>3, <1>7, <2>2
    <3> QED BY <1>5, <1>6, <1>7, <2>1, <2>2, <3>1
  <2>3. CASE ~(i < Len(f) - 1)
    <3>1. i = Len(f) - 1 /\ n = Len(f) /\ i + 1 = n
      BY ONLY <1>2, <1>3, <1>7, <2>3
    <3>2. Ran(cmd, scmd, data)
      BY <2>1, <2>3
    <3>3. Brings(f, n, n)'
      BY <1>6, <1>7, <3>1
    <3>4. Nothing'
      BY <1>3, <3>2, <3>3, BringsNone DEF Nothing, Ran
    <3> QED BY <3>1, <3>2, <3>4
  <2> QED BY <2>2, <2>3
<1>8. CASE ~(i < n)
  <2>1. i = n
    BY ONLY <1>3, <1>8
  <2>2. Head(toTarget) = FRAME_BYTE /\ Brings(f, n, n)'
    BY <1>6, <1>8, <2>1
  <2>3. Nothing'
    BY <1>3, <2>2, BringsNone, GetchClears DEF Nothing
  <2> QED BY <1>5, <2>1, <2>3
<1> QED BY <1>7, <1>8

(* The target reads a request: a byte more, or it runs the command. *)
LEMMA SendsStep ==
    ASSUME Blocks, NEW q, q \in AllRequests, q.call # "bad", toTarget \in Seq(Byte),
           Sends(q), Getch
    PROVE  \/ Sends(q)' /\ ran' = ran
           \/ Nothing' /\ ran' = Append(ran, [cmd |-> q.cmd, scmd |-> q.scmd, data |-> q.data])
<1>1. PICK f : f = FrameOf(q)
  OBVIOUS
<1>2. Legible(f, q.cmd, q.scmd, q.data)
  BY <1>1, FrameLegible
<1>3. f \in Seq(Byte) /\ Len(f) \in Nat /\ Len(f) >= 6
  BY ONLY <1>2 DEF Legible
<1>4. PICK i \in 0 .. Len(f) - 1 : Reading(f, i) /\ Brings(f, i, Len(f))
  BY <1>1 DEF Sends
<1>5. PICK n : n = Len(f)
  OBVIOUS
<1>6. /\ i \in 0 .. Len(f) - 1 /\ n \in i .. Len(f) /\ i # n
      /\ Reading(f, i) /\ Brings(f, i, n)
  BY <1>3, <1>4, <1>5
<1>7. /\ \E c \in DOMAIN commands : commands[c] = q.cmd
      /\ Callback(q.cmd, q.scmd, q.data).err = SS_ERR_OK
  BY RequestRuns
<1>8. \/ i + 1 < Len(f) /\ Reading(f, i + 1)' /\ Brings(f, i + 1, n)' /\ ran' = ran
      \/ Nothing' /\ Ran(q.cmd, q.scmd, q.data)
  BY <1>2, <1>6, <1>7, CommandStep
<1>9. CASE i + 1 < Len(f) /\ Reading(f, i + 1)' /\ Brings(f, i + 1, n)' /\ ran' = ran
  <2>1. i + 1 \in 0 .. Len(f) - 1
    BY ONLY <1>3, <1>6, <1>9
  <2>2. Reading(f, i + 1)' /\ Brings(f, i + 1, Len(f))'
    BY <1>5, <1>9
  <2> QED BY <1>1, <1>9, <2>1, <2>2 DEF Sends
<1>10. CASE Nothing' /\ Ran(q.cmd, q.scmd, q.data)
  <2>1. ran' = Append(ran, [cmd |-> q.cmd, scmd |-> q.scmd, data |-> q.data])
    BY <1>7, <1>10 DEF Ran
  <2> QED BY <1>10, <2>1
<1> QED BY <1>8, <1>9, <1>10

(* A command as send_cmd writes it is one the target reads. *)
LEMMA CommandKnown ==
    ASSUME NEW f, Command(f)
    PROVE  /\ \E cmd, scmd, data : /\ \E c \in DOMAIN commands : commands[c] = cmd
                                   /\ Legible(f, cmd, scmd, data)
           /\ f \in Seq(Byte) /\ Len(f) \in Nat /\ Len(f) >= 6
<1>1. PICK c \in DOMAIN commands, scmd \in Byte, data \in Seq(Byte) :
         Len(data) + 6 <= MAX_SS_LEN /\ f = CommandFrame(commands[c], scmd, data)
  BY DEF Command
<1>2. PICK cmd : cmd = commands[c]
  OBVIOUS
<1>3. cmd \in Byte
  <2>1. commands \in Seq(Byte)
    BY DEF commands, CMD_VERSION, CMD_COMMANDS, CMD_AES, Byte
  <2> QED BY <1>2, <2>1
<1>4. Legible(f, cmd, scmd, data)
  BY <1>1, <1>2, <1>3, CommandLegible
<1>5. f \in Seq(Byte) /\ Len(f) \in Nat /\ Len(f) >= 6
  BY ONLY <1>4 DEF Legible
<1> QED BY <1>2, <1>4, <1>5

(* The target reads what is left over: it does not come to its end. *)
LEMMA CutStep ==
    ASSUME toTarget \in Seq(Byte), CutShort, Getch
    PROVE  (CutShort' \/ Nothing') /\ ran' = ran
<1>1. PICK f : Command(f) /\ \E n \in 0 .. Len(f) - 2 : \E i \in 0 .. n :
                  Reading(f, i) /\ Brings(f, i, n)
  BY DEF CutShort
<1>2. PICK cmd, scmd, data : /\ \E c \in DOMAIN commands : commands[c] = cmd
                             /\ Legible(f, cmd, scmd, data)
  BY <1>1, CommandKnown
<1>3. f \in Seq(Byte) /\ Len(f) \in Nat /\ Len(f) >= 6
  BY <1>1, CommandKnown
<1>0. PICK n \in 0 .. Len(f) - 2 : \E i \in 0 .. n : Reading(f, i) /\ Brings(f, i, n)
  BY <1>1
<1>4. PICK i \in 0 .. n : Reading(f, i) /\ Brings(f, i, n)
  BY <1>0
<1>5. /\ i \in 0 .. Len(f) - 1 /\ n \in i .. Len(f) /\ n < Len(f) - 1
      /\ ~(i = Len(f) - 1 /\ n = Len(f))
  BY <1>3, <1>4
<1>6. \/ i + 1 <= n /\ Reading(f, i + 1)' /\ Brings(f, i + 1, n)' /\ ran' = ran
      \/ Nothing' /\ ran' = ran
  BY <1>2, <1>4, <1>5, CommandStep
<1>7. CASE i + 1 <= n /\ Reading(f, i + 1)' /\ Brings(f, i + 1, n)' /\ ran' = ran
  <2>1. i + 1 \in 0 .. n /\ n \in 0 .. Len(f) - 2
    BY ONLY <1>3, <1>4, <1>7
  <2> QED BY <1>1, <1>7, <2>1 DEF CutShort
<1> QED BY <1>6, <1>7

(* The target takes the rest of a command it does not know for others it     *)
(* does not know.                                                            *)
LEMMA ScrapsStep ==
    ASSUME Scattered, NEW q, q \in AllRequests, q.call = "bad", toTarget \in Seq(Byte),
           Scraps(q), Getch
    PROVE  (Scraps(q)' \/ Nothing') /\ ran' = ran
<1>1. PICK f : f = FrameOf(q)
  OBVIOUS
<1>2. Legible(f, q.cmd, q.scmd, q.data)
  BY <1>1, FrameLegible
<1>3. /\ f \in Seq(Byte) /\ Len(f) \in Nat /\ Len(f) >= 6
      /\ \A k \in 1 .. Len(f) : f[k] = FRAME_BYTE <=> k = Len(f)
  BY ONLY <1>2 DEF Legible
<1>4. PICK k \in Nat, j \in 0 .. 3 :
         /\ 4 * k + j < Len(f)
         /\ data_buf = SubSeq(f, 4 * k + 1, 4 * k + j)
         /\ Brings(f, 4 * k + j, Len(f))
  BY <1>1 DEF Scraps
<1>5. PICK b, i, n, z : b = 4 * k /\ i = 4 * k + j /\ n = Len(f) /\ z = 4 * k + 1
  OBVIOUS
<1>6. /\ b \in Nat /\ i \in Nat /\ n \in Nat /\ i < n /\ i <= n /\ i = b + j /\ z = b + 1
      /\ j \in Nat /\ j <= 3
  BY ONLY <1>3, <1>4, <1>5
<1>7. toTarget # <<>> /\ toTarget' = Tail(toTarget)
  BY DEF Getch
<1>8. Brings(f, i, n)
  BY <1>4, <1>5
<1>9. Head(toTarget) = f[i + 1] /\ Brings(f, i + 1, n)'
  BY <1>6, <1>7, <1>8, BringsGet
<1>10. Len(data_buf) = j /\ data_buf = SubSeq(f, z, i)
  <2>1. data_buf = SubSeq(f, z, i)
    BY <1>4, <1>5
  <2>2. z \in 1 .. n + 1 /\ i \in z - 1 .. n /\ i - z + 1 = j /\ n = Len(f)
    BY ONLY <1>5, <1>6
  <2>3. Len(SubSeq(f, z, i)) = j
    BY ONLY <1>3, <2>2
  <2> QED BY <2>1, <2>3
<1>11. Append(data_buf, f[i + 1]) = SubSeq(f, z, i + 1)
  <2>1. z \in 1 .. Len(f) + 1 /\ i \in z - 1 .. Len(f) - 1
    BY ONLY <1>5, <1>6
  <2>2. Append(SubSeq(f, z, i), f[i + 1]) = SubSeq(f, z, i + 1)
    BY ONLY <1>3, <2>1, OneMore
  <2> QED BY <1>10, <2>2
<1>12. ran' = ran
  <2>1. Len(data_buf) < 4
    BY ONLY <1>6, <1>10
  <2> QED BY <2>1, GetchWaits
<1>13. i + 1 \in 1 .. n /\ (i + 1 = n <=> f[i + 1] = FRAME_BYTE)
  <2>1. i + 1 \in 1 .. n
    BY ONLY <1>6
  <2> QED BY ONLY <1>3, <1>5, <2>1
<1>14. CASE i + 1 = n
  <2>1. data_buf' = <<>>
    BY <1>9, <1>13, <1>14, GetchClears
  <2>2. Brings(f, n, n)'
    BY <1>9, <1>14
  <2> QED BY <1>6, <1>12, <2>1, <2>2, BringsNone DEF Nothing
<1>15. CASE i + 1 # n /\ j < 3
  <2>1. Wait(SubSeq(f, z, i + 1))
    <3>1. f[i + 1] # FRAME_BYTE
      BY <1>13, <1>15
    <3> QED BY <1>6, <1>9, <1>10, <1>11, <1>15, <3>1, GetchGoes
  <2>2. data_buf' = SubSeq(f, 4 * k + 1, 4 * k + (j + 1))
    <3>1. z = 4 * k + 1 /\ i + 1 = 4 * k + (j + 1)
      BY ONLY <1>4, <1>5, <1>6
    <3> QED BY <2>1, <3>1 DEF Wait
  <2>3. j + 1 \in 0 .. 3 /\ 4 * k + (j + 1) < Len(f) /\ 4 * k + (j + 1) = i + 1
    BY ONLY <1>4, <1>5, <1>6, <1>15
  <2>4. Brings(f, 4 * k + (j + 1), Len(f))'
    BY <1>5, <1>9, <2>3
  <2>5. Scraps(q)'
    BY <1>1, <2>2, <2>3, <2>4 DEF Scraps
  <2> QED BY <1>12, <2>5
<1>16. CASE i + 1 # n /\ j = 3
  <2>1. Header(SubSeq(f, z, i + 1))
    <3>1. f[i + 1] # FRAME_BYTE
      BY <1>13, <1>16
    <3> QED BY <1>6, <1>9, <1>10, <1>11, <1>16, <3>1, GetchGoes
  <2>2. SubSeq(f, z, i + 1) = Piece(f, k) /\ 4 * k + 4 < Len(f)
    <3>1. z = 4 * k + 1 /\ i + 1 = 4 * k + 4 /\ 4 * k + 4 < Len(f)
      BY ONLY <1>4, <1>5, <1>6, <1>16
    <3> QED BY <3>1 DEF Piece
  <2>3. \A c \in DOMAIN commands : commands[c] # UnstuffData(Piece(f, k), 4).buf[2]
    <3>1. CASE k = 0
      <4>1. Piece(f, k) = SubSeq(f, 1, 4)
        <5>1. 4 * k + 1 = 1 /\ 4 * k + 4 = 4
          BY <3>1
        <5> QED BY <5>1 DEF Piece
      <4>2. UnstuffData(Piece(f, k), 4).buf[2] = q.cmd
        BY <1>2, <4>1 DEF Legible, HeaderOf
      <4> QED BY <4>2, UnknownIsNot
    <3>2. CASE k # 0
      <4>1. UnstuffData(Piece(f, k), 4).buf[2] \notin Range(commands)
        BY <1>1, <2>2, <3>2 DEF Scattered
      <4> QED BY <4>1 DEF Range
    <3> QED BY <3>1, <3>2
  <2>4. Fail(SS_ERR_CMD)
    BY <2>1, <2>2, <2>3 DEF Header
  <2>5. data_buf' = <<>>
    BY <2>4 DEF Fail
  <2>6. /\ k + 1 \in Nat /\ 0 \in 0 .. 3 /\ 4 * (k + 1) + 0 < Len(f)
        /\ 4 * (k + 1) + 0 = i + 1 /\ 4 * (k + 1) + 1 > 4 * (k + 1) + 0
    BY ONLY <1>4, <1>5, <1>6, <1>16, <2>2
  <2>7. data_buf' = SubSeq(f, 4 * (k + 1) + 1, 4 * (k + 1) + 0)
    <3>1. \A m \in Nat : SubSeq(f, m + 1, m + 0) = <<>>
      BY ONLY <1>3
    <3>2. 4 * (k + 1) \in Nat
      BY ONLY <1>4
    <3> QED BY <2>5, <3>1, <3>2
  <2>8. Brings(f, 4 * (k + 1) + 0, Len(f))'
    BY <1>5, <1>9, <2>6
  <2>9. Scraps(q)'
    BY <1>1, <2>6, <2>7, <2>8 DEF Scraps
  <2> QED BY <1>12, <2>9
<1>17. j < 3 \/ j = 3
  BY ONLY <1>6
<1> QED BY <1>14, <1>15, <1>16, <1>17

-----------------------------------------------------------------------------
\* What CallLink sees of a sequence of requests, and that the target has run
\* what was sent, in order.
Plains(s) == [k \in DOMAIN s |-> Plain(s[k])]
Ordered(r, s) == Link!Embeds(Plains(r), Plains(s))

(* Such a sequence, element by element. *)
LEMMA PlainsAt ==
    ASSUME NEW S, NEW s, s \in Seq(S)
    PROVE  /\ Len(s) \in Nat /\ DOMAIN Plains(s) = 1 .. Len(s) /\ Len(Plains(s)) = Len(s)
           /\ \A k \in 1 .. Len(s) : Plains(s)[k] = Plain(s[k])
           /\ Plains(s) \in Seq({Plain(x) : x \in S})
<1> DEFINE T == {Plain(x) : x \in S}
           p == Plains(s)
<1>1. Len(s) \in Nat /\ DOMAIN s = 1 .. Len(s) /\ \A k \in 1 .. Len(s) : s[k] \in S
  BY LenProperties, ElementOfSeq
<1>2. p = [k \in 1 .. Len(s) |-> Plain(s[k])]
  BY <1>1 DEF Plains
<1>3. p \in [1 .. Len(s) -> T]
  BY <1>1, <1>2
<1> HIDE DEF T
<1>4. p \in Seq(T)
  BY <1>1, <1>3, SeqDef
<1>5. DOMAIN p = 1 .. Len(s) /\ \A k \in 1 .. Len(s) : p[k] = Plain(s[k])
  BY <1>2
<1> HIDE DEF p
<1>6. Len(p) = Len(s)
  <2>1. Len(p) \in Nat /\ 1 .. Len(p) = 1 .. Len(s)
    BY <1>4, <1>5, LenProperties
  <2> QED BY ONLY <1>1, <2>1
<1> QED BY <1>1, <1>4, <1>5, <1>6 DEF p, T

(* One more that was sent. *)
LEMMA OrderedSent ==
    ASSUME NEW R, NEW r, r \in Seq(R), NEW S, NEW s, s \in Seq(S), NEW x, x \in S,
           Ordered(r, s)
    PROVE  Ordered(r, Append(s, x))
<1> DEFINE t == Append(s, x)
           m == Len(r)
           n == Len(s)
<1>1. t \in Seq(S) /\ Len(t) = n + 1 /\ \A k \in 1 .. n : t[k] = s[k]
  <2>1. /\ Append(s, x) \in Seq(S) /\ Len(Append(s, x)) = Len(s) + 1
        /\ \A k \in 1 .. Len(s) : Append(s, x)[k] = s[k]
    BY AppendProperties
  <2> QED BY <2>1
<1> HIDE DEF t
<1>2. /\ m \in Nat /\ DOMAIN Plains(r) = 1 .. m /\ Len(Plains(r)) = m
  BY PlainsAt
<1>3. /\ n \in Nat /\ DOMAIN Plains(s) = 1 .. n /\ \A k \in 1 .. n : Plains(s)[k] = Plain(s[k])
  BY PlainsAt
<1>4. /\ DOMAIN Plains(t) = 1 .. n + 1 /\ \A k \in 1 .. n + 1 : Plains(t)[k] = Plain(t[k])
  <2>1. DOMAIN Plains(t) = 1 .. Len(t) /\ \A k \in 1 .. Len(t) : Plains(t)[k] = Plain(t[k])
    BY <1>1, PlainsAt
  <2> QED BY <1>1, <2>1
<1> HIDE DEF m, n
<1>5. \A k \in 1 .. n : k \in 1 .. n + 1 /\ Plains(t)[k] = Plains(s)[k]
  <2>1. \A k \in 1 .. n : k \in 1 .. n + 1
    BY ONLY <1>3
  <2> QED BY <1>1, <1>3, <1>4, <2>1
<1>6. PICK f \in [1 .. m -> 1 .. n] :
         /\ \A j \in 1 .. m : Plains(r)[j] = Plains(s)[f[j]]
         /\ \A j \in 1 .. m - 1 : f[j] < f[j + 1]
  BY <1>2, <1>3 DEF Ordered, Link!Embeds
<1>7. /\ f \in [1 .. m -> 1 .. n + 1]
      /\ \A j \in 1 .. m : Plains(r)[j] = Plains(t)[f[j]]
  BY <1>5, <1>6
<1> QED BY <1>2, <1>4, <1>6, <1>7 DEF Ordered, Link!Embeds, t

(* One more that was sent and has run. *)
LEMMA OrderedRuns ==
    ASSUME NEW R, NEW r, r \in Seq(R), NEW S, NEW s, s \in Seq(S), NEW x, x \in S,
           NEW y, Plain(y) = Plain(x), Ordered(r, s)
    PROVE  Ordered(Append(r, y), Append(s, x))
<1> DEFINE t == Append(s, x)
           u == Append(r, y)
           m == Len(r)
           n == Len(s)
<1>1. /\ t \in Seq(S) /\ Len(t) = n + 1 /\ t[n + 1] = x /\ \A k \in 1 .. n : t[k] = s[k]
  <2>1. /\ Append(s, x) \in Seq(S) /\ Len(Append(s, x)) = Len(s) + 1
        /\ Append(s, x)[Len(s) + 1] = x
        /\ \A k \in 1 .. Len(s) : Append(s, x)[k] = s[k]
    BY AppendProperties
  <2> QED BY <2>1
<1>2. PICK Q : u \in Seq(Q) /\ Len(u) = m + 1 /\ u[m + 1] = y /\ \A k \in 1 .. m : u[k] = r[k]
  <2> DEFINE Q == R \cup {y}
  <2>1. y \in Q /\ r \in Seq(Q)
    <3>1. Len(r) \in Nat /\ r \in [1 .. Len(r) -> R]
      BY LenProperties
    <3>2. r \in [1 .. Len(r) -> Q]
      BY <3>1
    <3>3. y \in Q
      OBVIOUS
    <3> HIDE DEF Q
    <3> QED BY <3>1, <3>2, <3>3, SeqDef
  <2> HIDE DEF Q
  <2>2. /\ Append(r, y) \in Seq(Q) /\ Len(Append(r, y)) = Len(r) + 1
        /\ Append(r, y)[Len(r) + 1] = y
        /\ \A k \in 1 .. Len(r) : Append(r, y)[k] = r[k]
    BY <2>1, AppendProperties
  <2> QED BY <2>2
<1> HIDE DEF t, u
<1>3. /\ m \in Nat /\ DOMAIN Plains(r) = 1 .. m /\ Len(Plains(r)) = m
      /\ \A k \in 1 .. m : Plains(r)[k] = Plain(r[k])
  BY PlainsAt
<1>4. /\ n \in Nat /\ DOMAIN Plains(s) = 1 .. n /\ \A k \in 1 .. n : Plains(s)[k] = Plain(s[k])
  BY PlainsAt
<1>5. /\ DOMAIN Plains(t) = 1 .. n + 1 /\ \A k \in 1 .. n + 1 : Plains(t)[k] = Plain(t[k])
  <2>1. DOMAIN Plains(t) = 1 .. Len(t) /\ \A k \in 1 .. Len(t) : Plains(t)[k] = Plain(t[k])
    BY <1>1, PlainsAt
  <2> QED BY <1>1, <2>1
<1>6. /\ DOMAIN Plains(u) = 1 .. m + 1 /\ Len(Plains(u)) = m + 1
      /\ \A k \in 1 .. m + 1 : Plains(u)[k] = Plain(u[k])
  <2>1. /\ DOMAIN Plains(u) = 1 .. Len(u) /\ Len(Plains(u)) = Len(u)
        /\ \A k \in 1 .. Len(u) : Plains(u)[k] = Plain(u[k])
    BY <1>2, PlainsAt
  <2> QED BY <1>2, <2>1
<1> HIDE DEF m, n
<1>7. PICK f \in [1 .. m -> 1 .. n] :
         /\ \A j \in 1 .. m : Plains(r)[j] = Plains(s)[f[j]]
         /\ \A j \in 1 .. m - 1 : f[j] < f[j + 1]
  BY <1>3, <1>4 DEF Ordered, Link!Embeds
<1> DEFINE g == [j \in 1 .. m + 1 |-> IF j = m + 1 THEN n + 1 ELSE f[j]]
<1>8. /\ g \in [1 .. m + 1 -> 1 .. n + 1] /\ g[m + 1] = n + 1
      /\ \A j \in 1 .. m : g[j] = f[j]
  <2>1. \A j \in 1 .. m + 1 : j # m + 1 => j \in 1 .. m
    BY ONLY <1>3
  <2>2. \A j \in 1 .. m : j \in 1 .. m + 1 /\ j # m + 1
    BY ONLY <1>3
  <2>3. n + 1 \in 1 .. n + 1 /\ m + 1 \in 1 .. m + 1 /\ \A k \in 1 .. n : k \in 1 .. n + 1
    BY ONLY <1>3, <1>4
  <2> QED BY <1>7, <2>1, <2>2, <2>3
<1> HIDE DEF g
<1>9. ASSUME NEW j \in 1 .. m + 1 PROVE Plains(u)[j] = Plains(t)[g[j]]
  <2>1. CASE j = m + 1
    <3>1. n + 1 \in 1 .. n + 1
      BY ONLY <1>4
    <3> QED BY <1>1, <1>2, <1>5, <1>6, <1>8, <2>1, <3>1
  <2>2. CASE j # m + 1
    <3>1. j \in 1 .. m
      BY ONLY <1>3, <1>9, <2>2
    <3>2. f[j] \in 1 .. n /\ f[j] \in 1 .. n + 1
      <4>1. f[j] \in 1 .. n
        BY <1>7, <3>1
      <4> QED BY ONLY <1>4, <4>1
    <3> QED BY <1>1, <1>2, <1>3, <1>4, <1>5, <1>6, <1>7, <1>8, <3>1, <3>2
  <2> QED BY <2>1, <2>2
<1>10. ASSUME NEW j \in 1 .. (m + 1) - 1 PROVE g[j] < g[j + 1]
  <2>1. j \in 1 .. m
    BY ONLY <1>3, <1>10
  <2>2. g[j] = f[j] /\ f[j] \in 1 .. n
    BY <1>7, <1>8, <2>1
  <2>3. CASE j = m
    BY ONLY <1>4, <1>8, <2>2, <2>3
  <2>4. CASE j # m
    <3>1. j \in 1 .. m - 1 /\ j + 1 \in 1 .. m
      BY ONLY <1>3, <2>1, <2>4
    <3> QED BY <1>7, <1>8, <2>2, <3>1
  <2> QED BY <2>3, <2>4
<1> QED BY <1>5, <1>6, <1>8, <1>9, <1>10 DEF Ordered, Link!Embeds, t, u

(* At the start nothing was sent and nothing has run. *)
LEMMA OrderedNone == Ordered(<<>>, <<>>)
<1>1. DOMAIN Plains(<<>>) = {} /\ Len(Plains(<<>>)) = 0
  <2>1. <<>> \in Seq({}) /\ Len(<<>>) = 0
    BY EmptySeq
  <2>2. PICK s : s = <<>>
    OBVIOUS
  <2>3. s \in Seq({}) /\ Len(s) = 0
    BY <2>1, <2>2
  <2>4. DOMAIN Plains(s) = 1 .. 0 /\ Len(Plains(s)) = 0
    BY <2>3, PlainsAt
  <2> QED BY <2>2, <2>4
<1>2. <<>> \in [{} -> {}]
  OBVIOUS
<1>3. \A j \in 1 .. 0 - 1 : FALSE
  OBVIOUS
<1> QED BY <1>1, <1>2, <1>3 DEF Ordered, Link!Embeds

\* On a clean line the target runs what was sent, in order and nothing twice: all
\* of it but, while the target reads it, the last request.
Sequel ==
    /\ sent \in Seq(AllRequests)
    /\ \/ /\ Nothing \/ CutShort \/ \E q \in AllRequests : q.call = "bad" /\ Scraps(q)
          /\ Ordered(ran, sent)
       \/ \E q \in AllRequests, s \in Seq(AllRequests) :
            q.call # "bad" /\ Sends(q) /\ sent = Append(s, q) /\ Ordered(ran, s)

(* What has run was sent. *)
LEMMA SequelOrdered ==
    ASSUME Recorded, Sequel
    PROVE  Ordered(ran, sent)
<1>1. PICK R : ran \in Seq(R)
  BY DEF Recorded
<1>2. ASSUME NEW q \in AllRequests, NEW s \in Seq(AllRequests), sent = Append(s, q),
             Ordered(ran, s)
      PROVE  Ordered(ran, sent)
  <2>1. PICK r, S : r = ran /\ S = AllRequests
    OBVIOUS
  <2>2. r \in Seq(R) /\ s \in Seq(S) /\ q \in S /\ Ordered(r, s)
    BY <1>1, <1>2, <2>1
  <2>3. Ordered(r, Append(s, q))
    BY ONLY <2>2, OrderedSent
  <2> QED BY <1>2, <2>1, <2>3
<1> QED BY <1>2 DEF Sequel

(* A line that brings nothing. *)
LEMMA NothingBrings ==
    ASSUME toTarget \in Seq(Byte)
    PROVE  Nothing <=> data_buf = <<>> /\ Brings(<<>>, 0, 0)
<1>1. 0 - 0 = 0 /\ \A k \in 1 .. Len(toTarget) : ~(k <= 0)
  OBVIOUS
<1>2. Len(toTarget) >= 0
  BY LenProperties
<1> QED BY <1>1, <1>2 DEF Nothing, Brings

(* The host sleeps after two FRAME_BYTEs, or writes nothing. *)
LEMMA SequelReset ==
    ASSUME Sequel, toTarget \in Seq(Byte),
           toTarget' = toTarget \/ toTarget' = toTarget \o <<FRAME_BYTE, FRAME_BYTE>>,
           UNCHANGED <<data_buf, next_frame, tx, ran, sent>>
    PROVE  Sequel'
<1>1. ASSUME NEW f, NEW i, i \in Nat, NEW n, n \in Nat, i <= n, Brings(f, i, n)
      PROVE  Brings(f, i, n)'
  <2>1. CASE toTarget' = toTarget
    BY <1>1, <2>1 DEF Brings
  <2>2. CASE toTarget' = toTarget \o <<FRAME_BYTE, FRAME_BYTE>>
    BY <1>1, <2>2, BringsReset
  <2> QED BY <2>1, <2>2
<1>2. ASSUME NEW f, NEW i, Reading(f, i) PROVE Reading(f, i)'
  BY <1>2 DEF Reading
<1>3. Nothing => Nothing'
  <2>1. SUFFICES ASSUME Nothing PROVE Nothing'
    OBVIOUS
  <2>2. PICK f : f = <<>>
    OBVIOUS
  <2>3. Brings(f, 0, 0) /\ data_buf = <<>>
    BY <2>1, <2>2, NothingBrings
  <2>4. 0 \in Nat /\ 0 <= 0
    OBVIOUS
  <2>5. Brings(f, 0, 0)' /\ data_buf' = <<>>
    BY <1>1, <2>3, <2>4
  <2> QED BY <2>4, <2>5, BringsNone DEF Nothing
<1>4. CutShort => CutShort'
  <2>1. SUFFICES ASSUME CutShort PROVE CutShort'
    OBVIOUS
  <2>2. PICK f : Command(f) /\ \E n \in 0 .. Len(f) - 2 : \E i \in 0 .. n :
                    Reading(f, i) /\ Brings(f, i, n)
    BY <2>1 DEF CutShort
  <2>3. PICK n \in 0 .. Len(f) - 2 : \E i \in 0 .. n : Reading(f, i) /\ Brings(f, i, n)
    BY <2>2
  <2>4. PICK i \in 0 .. n : Reading(f, i) /\ Brings(f, i, n)
    BY <2>3
  <2>5. Len(f) \in Nat
    BY <2>2, CommandKnown
  <2>6. i \in Nat /\ n \in Nat /\ i <= n
    BY ONLY <2>3, <2>4, <2>5
  <2> QED BY <1>1, <1>2, <2>2, <2>4, <2>6 DEF CutShort
<1>5. ASSUME NEW q \in AllRequests
      PROVE  (Scraps(q) => Scraps(q)') /\ (Sends(q) => Sends(q)')
  <2>1. PICK f : f = FrameOf(q)
    OBVIOUS
  <2>2. Len(f) \in Nat
    BY <1>5, <2>1, FrameLegible DEF Legible
  <2>3. ASSUME Scraps(q) PROVE Scraps(q)'
    <3>1. PICK k \in Nat, j \in 0 .. 3 :
             /\ 4 * k + j < Len(f)
             /\ data_buf = SubSeq(f, 4 * k + 1, 4 * k + j)
             /\ Brings(f, 4 * k + j, Len(f))
      BY <2>1, <2>3 DEF Scraps
    <3>2. 4 * k + j \in Nat /\ 4 * k + j <= Len(f)
      BY ONLY <2>2, <3>1
    <3>3. Brings(f, 4 * k + j, Len(f))'
      BY <1>1, <2>2, <3>1, <3>2
    <3> QED BY <2>1, <3>1, <3>3 DEF Scraps
  <2>4. ASSUME Sends(q) PROVE Sends(q)'
    <3>1. PICK i \in 0 .. Len(f) - 1 : Reading(f, i) /\ Brings(f, i, Len(f))
      BY <2>1, <2>4 DEF Sends
    <3>2. i \in Nat /\ i <= Len(f)
      BY ONLY <2>2, <3>1
    <3>3. Reading(f, i)' /\ Brings(f, i, Len(f))'
      BY <1>1, <1>2, <2>2, <3>1, <3>2
    <3> QED BY <2>1, <3>3 DEF Sends
  <2> QED BY <2>3, <2>4
<1>6. ran' = ran /\ sent' = sent
  OBVIOUS
<1>7. CASE /\ Nothing \/ CutShort \/ \E q \in AllRequests : q.call = "bad" /\ Scraps(q)
           /\ Ordered(ran, sent)
  BY <1>3, <1>4, <1>5, <1>6, <1>7 DEF Sequel
<1>8. CASE \E q \in AllRequests, s \in Seq(AllRequests) :
             q.call # "bad" /\ Sends(q) /\ sent = Append(s, q) /\ Ordered(ran, s)
  BY <1>5, <1>6, <1>8 DEF Sequel
<1> QED BY <1>7, <1>8 DEF Sequel

(* send_cmd, when the line is quiet. *)
LEMMA SequelWrite ==
    ASSUME Recorded, Sequel, NEW q, q \in AllRequests, toTarget = <<>>, data_buf = <<>>,
           tx = <<>>, Write(q), toHost' = <<>>, UNCHANGED targetVars
    PROVE  Sequel' /\ sent' # <<>> /\ Last(sent') = q
<1>1. PICK f : f = FrameOf(q)
  OBVIOUS
<1>2. f \in Seq(Byte) /\ Len(f) \in Nat /\ Len(f) >= 6
  BY <1>1, FrameLegible DEF Legible
<1>3. Asked(q)'
  BY WriteAsks
<1>4. PICK i \in 0 .. Len(f) - 1 :
         /\ Reading(f, i)'
         /\ q.call = "bad" => i < 4
         /\ Len(toTarget') = Len(f) - i
         /\ \A k \in 1 .. Len(f) - i : toTarget'[k] = f[i + k]
  BY <1>1, <1>3 DEF Asked
<1>5. Brings(f, i, Len(f))'
  <2>1. Len(f) - i >= Len(f) - i /\ \A k \in 1 .. Len(f) - i : k <= Len(f) - i
    BY ONLY <1>2, <1>4
  <2> QED BY <1>4, <2>1 DEF Brings
<1>6. /\ sent' = Append(sent, q) /\ sent \in Seq(AllRequests) /\ ran' = ran
      /\ Ordered(ran, sent)
  BY SequelOrdered DEF Write, Sequel, targetVars
<1>7. sent' \in Seq(AllRequests) /\ sent' # <<>> /\ Last(sent') = q
  <2>1. PICK s, S, t : s = sent /\ S = AllRequests /\ t = Append(s, q)
    OBVIOUS
  <2>2. s \in Seq(S) /\ q \in S
    BY <1>6, <2>1
  <2>3. t \in Seq(S) /\ t # <<>> /\ Len(t) = Len(s) + 1 /\ t[Len(s) + 1] = q
    <3>1. /\ Append(s, q) \in Seq(S) /\ Append(s, q) # <<>>
          /\ Len(Append(s, q)) = Len(s) + 1 /\ Append(s, q)[Len(s) + 1] = q
      BY ONLY <2>2, AppendProperties
    <3> QED BY <2>1, <3>1
  <2>4. Last(t) = q
    BY <2>3 DEF Last
  <2> QED BY <1>6, <2>1, <2>3, <2>4
<1>8. CASE q.call # "bad"
  <2>1. Sends(q)'
    BY <1>1, <1>4, <1>5 DEF Sends
  <2> QED BY <1>6, <1>7, <1>8, <2>1 DEF Sequel
<1>9. CASE q.call = "bad"
  <2>1. i < 4 /\ i \in Nat /\ i \in 0 .. 3 /\ 4 * 0 + i = i /\ 4 * 0 + 1 = 1 /\ i < Len(f)
    BY ONLY <1>2, <1>4, <1>9
  <2>2. data_buf' = SubSeq(f, 4 * 0 + 1, 4 * 0 + i)
    BY <1>4, <2>1 DEF Reading, Upto
  <2>3. Brings(f, 4 * 0 + i, Len(f))' /\ 4 * 0 + i < Len(f) /\ 0 \in Nat
    BY <1>5, <2>1
  <2>4. Scraps(q)'
    BY <1>1, <2>1, <2>2, <2>3 DEF Scraps
  <2>5. Ordered(ran, Append(sent, q))
    <3>1. PICK R : ran \in Seq(R)
      BY DEF Recorded
    <3>2. PICK r, s, S : r = ran /\ s = sent /\ S = AllRequests
      OBVIOUS
    <3>3. r \in Seq(R) /\ s \in Seq(S) /\ q \in S /\ Ordered(r, s)
      BY <1>6, <3>1, <3>2
    <3>4. Ordered(r, Append(s, q))
      BY ONLY <3>3, OrderedSent
    <3> QED BY <3>2, <3>4
  <2> QED BY <1>6, <1>7, <1>9, <2>4, <2>5 DEF Sequel
<1> QED BY <1>8, <1>9

(* The target takes a byte. *)
LEMMA SequelGetch ==
    ASSUME Blocks, Scattered, Recorded, Sequel, toTarget \in Seq(Byte), Getch, sent' = sent
    PROVE  /\ Sequel'
           /\ \/ ran' = ran
              \/ \E q \in AllRequests, s \in Seq(AllRequests) :
                   /\ sent = Append(s, q)
                   /\ ran' = Append(ran, [cmd |-> q.cmd, scmd |-> q.scmd, data |-> q.data])
                   /\ Ordered(ran', sent')
<1>1. sent \in Seq(AllRequests)
  BY DEF Sequel
<1>2. ASSUME Ordered(ran, sent), ran' = ran, 
             Nothing' \/ CutShort' \/ \E q \in AllRequests : q.call = "bad" /\ Scraps(q)'
      PROVE  Sequel'
  BY <1>1, <1>2 DEF Sequel
<1>3. CASE Nothing /\ Ordered(ran, sent)
  BY <1>2, <1>3, NothingStep
<1>4. CASE CutShort /\ Ordered(ran, sent)
  BY <1>2, <1>4, CutStep
<1>5. ASSUME NEW q \in AllRequests, q.call = "bad", Scraps(q), Ordered(ran, sent)
      PROVE  Sequel' /\ ran' = ran
  BY <1>2, <1>5, ScrapsStep
<1>6. ASSUME NEW q \in AllRequests, NEW s \in Seq(AllRequests), q.call # "bad", Sends(q),
             sent = Append(s, q), Ordered(ran, s)
      PROVE  /\ Sequel'
             /\ \/ ran' = ran
                \/ /\ ran' = Append(ran, [cmd |-> q.cmd, scmd |-> q.scmd, data |-> q.data])
                   /\ Ordered(ran', sent')
  <2>1. CASE Sends(q)' /\ ran' = ran
    BY <1>1, <1>6, <2>1 DEF Sequel
  <2>2. CASE Nothing' /\ ran' = Append(ran, [cmd |-> q.cmd, scmd |-> q.scmd, data |-> q.data])
    <3>1. PICK R : ran \in Seq(R)
      BY DEF Recorded
    <3>2. PICK r, S, y : r = ran /\ S = AllRequests
                         /\ y = [cmd |-> q.cmd, scmd |-> q.scmd, data |-> q.data]
      OBVIOUS
    <3>3. Plain(y) = Plain(q)
      BY <3>2 DEF Plain
    <3>4. r \in Seq(R) /\ s \in Seq(S) /\ q \in S /\ Ordered(r, s)
      BY <1>6, <3>1, <3>2
    <3>5. Ordered(Append(r, y), Append(s, q))
      BY ONLY <3>3, <3>4, OrderedRuns
    <3>6. Ordered(ran', sent')
      BY <1>6, <2>2, <3>2, <3>5
    <3> QED BY <1>1, <2>2, <3>6 DEF Sequel
  <2> QED BY <1>6, <2>1, <2>2, SendsStep
<1> QED BY <1>3, <1>4, <1>5, <1>6, NothingStep, CutStep DEF Sequel

(* What the host does to the line to the target, but for its requests. *)
LEMMA HostLine ==
    ASSUME Host, ~SendKey
    PROVE  /\ UNCHANGED <<data_buf, next_frame, tx, ran, sent>>
           /\ \/ toTarget' = toTarget
              \/ toTarget' = toTarget \o <<FRAME_BYTE, FRAME_BYTE>>
<1>1. UNCHANGED targetVars /\ sent' = sent
  BY DEF Host, Con, ResetPoll, Flush, Connected, FirstRead, FirstTimeout,
     ErrorByte, SecondRead, SecondTimeout, SecondRaises, ListAck, Rekey,
     ErrsRead, ErrsHeader, ErrsRest, Drain
<1> DEFINE Line == \/ toTarget' = toTarget
                   \/ toTarget' = toTarget \o <<FRAME_BYTE, FRAME_BYTE>>
<1>2. ASSUME NEW k, FlushOnError(k) PROVE Line
  BY <1>2 DEF FlushOnError, ResetComms
<1>3. ASSUME NEW pkt, ReadReturns(pkt) PROVE Line
  BY <1>2, <1>3 DEF ReadReturns
<1> SUFFICES Line
  BY <1>1 DEF targetVars
<1> HIDE DEF Line
<1>4. CASE Con \/ Rekey
  BY <1>4 DEF Con, Rekey, ResetComms, Line
<1>5. CASE \/ ResetPoll \/ Flush \/ Connected \/ FirstRead \/ SecondRaises \/ ListAck
           \/ ErrsRead \/ ErrsHeader \/ ErrsRest \/ Drain
  <2>1. toTarget' = toTarget
    BY <1>5 DEF ResetPoll, Flush, Connected, FirstRead, SecondRaises, ListAck,
       ErrsRead, ErrsHeader, ErrsRest, Drain, channels
  <2> QED BY <2>1 DEF Line
<1>6. CASE FirstTimeout \/ SecondTimeout
  <2>1. \E k : FlushOnError(k)
    BY <1>6 DEF FirstTimeout, SecondTimeout, ReadFailed
  <2> QED BY <1>2, <2>1
<1>7. CASE ErrorByte
  <2>1. \E pkt : ReadReturns(pkt)
    BY <1>7 DEF ErrorByte
  <2> QED BY <1>3, <2>1
<1>8. CASE SecondRead
  <2>1. \E pkt : ReadReturns(pkt)
    BY <1>8 DEF SecondRead
  <2> QED BY <1>3, <2>1
<1> QED BY <1>4, <1>5, <1>6, <1>7, <1>8 DEF Host

(* At the start the line brings what an earlier session left over. *)
LEMMA SequelInit ==
    ASSUME CutOff, Init
    PROVE  Sequel
<1>1. toTarget \in Leftovers /\ data_buf = <<>> /\ tx = <<>> /\ ran = <<>> /\ sent = <<>>
  BY DEF Init, TargetInit
<1>2. PICK f : Command(f) /\ \E n \in 0 .. Len(f) - 2 : toTarget = SubSeq(f, 1, n)
  BY <1>1 DEF CutOff
<1>3. PICK n \in 0 .. Len(f) - 2 : toTarget = SubSeq(f, 1, n)
  BY <1>2
<1>4. f \in Seq(Byte) /\ Len(f) \in Nat /\ Len(f) >= 6
  BY <1>2, CommandKnown
<1>5. PICK t : t = SubSeq(f, 1, n) /\ toTarget = t
  BY <1>3
<1>6. Len(t) = n /\ \A k \in 1 .. n : t[k] = f[0 + k]
  <2>1. /\ 1 \in 1 .. Len(f) + 1 /\ n \in 1 - 1 .. Len(f) /\ n - 1 + 1 = n
        /\ \A k \in 1 .. n : 1 + k - 1 = k /\ 0 + k = k
    BY ONLY <1>3, <1>4
  <2>2. /\ Len(SubSeq(f, 1, n)) = n - 1 + 1
        /\ \A k \in 1 .. n - 1 + 1 : SubSeq(f, 1, n)[k] = f[1 + k - 1]
    BY ONLY <1>4, <2>1, SubSeqProperties
  <2> QED BY ONLY <1>5, <2>1, <2>2
<1>7. Brings(f, 0, n)
  <2>1. n - 0 = n /\ n >= n /\ \A k \in 1 .. n : k <= n - 0
    BY ONLY <1>3, <1>4
  <2> QED BY <1>5, <1>6, <2>1 DEF Brings
<1>8. Reading(f, 0)
  <2>1. SubSeq(f, 1, 0) = <<>>
    BY ONLY SubSeqEmpty
  <2>2. 0 < 4 /\ ~(0 >= 4)
    OBVIOUS
  <2> QED BY <1>1, <2>1, <2>2 DEF Reading, Upto
<1>9. 0 \in 0 .. n
  BY ONLY <1>3, <1>4
<1>10. CutShort
  BY <1>2, <1>3, <1>7, <1>8, <1>9 DEF CutShort
<1>11. sent \in Seq(AllRequests)
  BY <1>1, EmptySeq
<1> QED BY <1>1, <1>10, <1>11, OrderedNone DEF Sequel

(* Every step on a clean line; a request is written when the line is quiet. *)
LEMMA SequelStep ==
    ASSUME Blocks, Scattered, IInv, Recorded, faults = {}, NEW p, p = cur, Place(p), Sequel,
           Call \/ Host \/ Target
    PROVE  Sequel'
<1>1. toTarget \in Seq(Byte)
  BY DEF IInv, LineInv
<1>2. CASE Call
  <2>1. PICK q : /\ q \in Requests
                 /\ \/ CallEncrypt(q) \/ CallWithErrors(q) \/ CallUnknown(q)
                    \/ CallCommands(q) \/ CallSetKey(q)
    BY <1>2 DEF Call
  <2>2. q \in AllRequests
    BY <2>1 DEF Requests
  <2>3. hpc = "idle" /\ UNCHANGED targetVars
    BY <1>2 DEF Call
  <2>4. Settled /\ data_buf = <<>>
    <3>1. Settled
      BY <2>3 DEF Place, Still
    <3> QED BY <2>3, <3>1, AlignedNow
  <2>5. ASSUME Write(q), toHost' = <<>> PROVE Sequel'
    BY <2>2, <2>3, <2>4, <2>5, SequelWrite DEF Settled
  <2>6. CASE CallEncrypt(q) \/ CallWithErrors(q) \/ CallUnknown(q) \/ CallCommands(q)
    <3>1. Write(q) /\ toHost' = <<>>
      BY <2>4, <2>6 DEF CallEncrypt, CallWithErrors, CallUnknown, CallCommands, Settled
    <3> QED BY <2>5, <3>1
  <2>7. CASE CallSetKey(q)
    <3>1. /\ UNCHANGED <<data_buf, next_frame, tx, ran, sent>>
          /\ \/ toTarget' = toTarget
             \/ toTarget' = toTarget \o <<FRAME_BYTE, FRAME_BYTE>>
      BY <2>3, <2>7 DEF CallSetKey, ResetComms, targetVars
    <3> QED BY <1>1, <3>1, SequelReset
  <2> QED BY <2>1, <2>6, <2>7
<1>3. CASE SendKey
  <2>1. hpc = "sendkey" /\ Write(p) /\ toHost' = toHost /\ UNCHANGED targetVars
    BY <1>3 DEF SendKey
  <2>2. p.call = "key" /\ Settled
    BY <2>1 DEF Place, Still
  <2>3. p \in AllRequests
    <3>1. cur \in Writable
      BY DEF IInv, LineInv
    <3> QED BY <2>2, <3>1 DEF Writable, NoRequest
  <2>4. data_buf = <<>> /\ tx = <<>> /\ toTarget = <<>> /\ toHost' = <<>>
    BY <2>1, <2>2, AlignedNow DEF Settled
  <2> QED BY <2>1, <2>3, <2>4, SequelWrite
<1>4. CASE Host /\ ~SendKey
  BY <1>1, <1>4, HostLine, SequelReset
<1>5. CASE Target
  <2>1. sent' = sent
    BY <1>5 DEF Target, hostVars
  <2>2. CASE Getch
    BY <1>1, <2>1, <2>2, SequelGetch
  <2>3. CASE Putch
    <3>1. UNCHANGED <<toTarget, data_buf, ran, sent>> /\ tx # <<>>
      BY <2>1, <2>3 DEF Putch
    <3>2. Nothing => Nothing'
      BY <3>1 DEF Nothing
    <3>3. \A f, i : ~Reading(f, i)
      BY <3>1 DEF Reading
    <3>4. ~CutShort /\ \A q : ~Sends(q)
      BY <3>3 DEF CutShort, Sends
    <3>5. ASSUME NEW q, Scraps(q) PROVE Scraps(q)'
      BY <3>1, <3>5 DEF Scraps, Brings
    <3> QED BY <3>1, <3>2, <3>4, <3>5 DEF Sequel
  <2> QED BY <1>5, <2>2, <2>3 DEF Target
<1> QED BY <1>2, <1>3, <1>4, <1>5

-----------------------------------------------------------------------------
(* A packet of the target before it is stuffed. *)
LEMMA ResponseParts ==
    ASSUME NEW c \in Byte, c # 0, NEW d, d \in Seq(Byte), Len(d) \in 1 .. 250,
           NEW r, r = ResponseFrame(c, d)
    PROVE  \E s : /\ Framed(s) /\ Len(s) = Len(d) + 5 /\ r = Stuff(s)
                  /\ HostUnstuffData(r) = s
                  /\ s[2] = c /\ s[3] = Len(d) /\ SubSeq(s, 4, Len(s) - 2) = d
<1> DEFINE h == <<c, Len(d)>>
           body == h \o d
           s == <<0>> \o body \o <<Crc(body), FRAME_BYTE>>
           l == Len(d)
<1>1. l \in Nat /\ l \in 1 .. 250 /\ l \in Byte /\ d \in Seq(Byte)
  <2>1. \A n \in 1 .. 250 : n \in Nat /\ n <= 255
    OBVIOUS
  <2> QED BY <2>1, ByteFacts
<1>2. h \in Seq(Byte) /\ Len(h) = 2 /\ h[1] = c /\ h[2] = l
  BY <1>1
<1>3. r = Packet(body)
  BY DEF ResponseFrame
<1> HIDE DEF h, l
<1>4. /\ body \in Seq(Byte) /\ Len(body) = 2 + l
      /\ \A k \in 1 .. 2 + l : body[k] = IF k <= 2 THEN h[k] ELSE d[k - 2]
  <2>1. /\ body \in Seq(Byte) /\ Len(body) = Len(h) + Len(d)
        /\ \A k \in 1 .. Len(h) + Len(d) : body[k] = IF k <= Len(h) THEN h[k] ELSE d[k - Len(h)]
    BY ONLY <1>1, <1>2, ConcatProperties
  <2> QED BY <1>2, <2>1 DEF l
<1> HIDE DEF body
<1>5. Len(body) <= 253
  BY <1>1, <1>4
<1>6. /\ r = Stuff(s) /\ Framed(s) /\ Len(s) = Len(body) + 3
      /\ \A k \in 1 .. Len(body) : s[k + 1] = body[k]
  BY <1>3, <1>4, <1>5, PacketStuffed DEF s
<1> HIDE DEF s
<1>7. /\ Len(s) = l + 5 /\ Len(s) > 1 /\ s \in Seq(Byte)
      /\ \A k \in 1 .. l + 2 : s[k + 1] = IF k <= 2 THEN h[k] ELSE d[k - 2]
  <2>1. Len(s) = l + 5 /\ Len(s) > 1 /\ 2 + l = l + 2
    BY ONLY <1>1, <1>4, <1>6
  <2>2. s \in Seq(Byte)
    BY <1>6 DEF Framed
  <2>3. \A k \in 1 .. l + 2 : s[k + 1] = body[k]
    BY ONLY <1>4, <1>6, <2>1
  <2> QED BY ONLY <1>4, <2>1, <2>2, <2>3
<1>8. s[2] = c /\ s[3] = l
  <2>1. 1 \in 1 .. l + 2 /\ 2 \in 1 .. l + 2 /\ 1 + 1 = 2 /\ 2 + 1 = 3 /\ 1 <= 2 /\ 2 <= 2
    BY <1>1
  <2> QED BY <1>2, <1>7, <2>1
<1>9. HostUnstuffData(r) = s
  BY <1>6, <1>7, HostInverts
<1>10. SubSeq(s, 4, Len(s) - 2) = d
  <2> DEFINE p == SubSeq(s, 4, l + 3)
  <2>1. /\ 4 \in 1 .. Len(s) + 1 /\ l + 3 \in 4 - 1 .. Len(s) /\ (l + 3) - 4 + 1 = l
        /\ Len(s) - 2 = l + 3
    BY ONLY <1>1, <1>7
  <2>2. /\ p \in Seq(Byte) /\ Len(p) = (l + 3) - 4 + 1
        /\ \A k \in 1 .. (l + 3) - 4 + 1 : p[k] = s[4 + k - 1]
    BY ONLY <1>7, <2>1, SubSeqProperties
  <2> HIDE DEF p
  <2>3. ASSUME NEW k \in 1 .. l PROVE p[k] = d[k]
    <3>1. /\ 4 + k - 1 = (k + 2) + 1 /\ k + 2 \in 1 .. l + 2 /\ ~(k + 2 <= 2)
          /\ (k + 2) - 2 = k
      BY ONLY <1>1, <2>3
    <3>2. p[k] = s[(k + 2) + 1]
      BY <2>1, <2>2, <3>1
    <3> QED BY <1>7, <3>1, <3>2
  <2>4. p \in Seq(Byte) /\ d \in Seq(Byte) /\ Len(p) = l /\ Len(d) = l
        /\ \A k \in 1 .. l : p[k] = d[k]
    BY <1>1, <2>1, <2>2, <2>3 DEF l
  <2>5. p = d
    BY ONLY <2>4, SeqEqual
  <2> QED BY <2>1, <2>5 DEF p
<1> QED BY <1>6, <1>7, <1>8, <1>9, <1>10 DEF l

(* Unstuffing its first three bytes, when the first code leads past them. *)
LEMMA HeaderUnstuffed ==
    ASSUME NEW b, b \in Seq(Byte), Len(b) = 3, b[1] >= 3
    PROVE  HostUnstuff(b) = [buf |-> [b EXCEPT ![1] = FRAME_BYTE], next |-> b[1]]
<1> DEFINE step[p \in [buf : Seq(Byte), next : Nat]] ==
             IF p.next < Len(b) - 1 /\ p.buf[p.next + 1] # 0
               THEN [buf |-> [p.buf EXCEPT ![p.next + 1] = FRAME_BYTE],
                     next |-> p.next + p.buf[p.next + 1]]
               ELSE p
           start == [buf |-> [b EXCEPT ![1] = FRAME_BYTE], next |-> b[1]]
           result(p) == [buf |-> p.buf, next |-> IF p.next > Len(b) - 1 THEN p.next ELSE 0]
           f == Pass(Len(b) - 1, start, step)
<1>0. b \in Seq(Byte) /\ Len(b) = 3 /\ Len(b) - 1 = 2 /\ b[1] >= 3
  OBVIOUS
<1>1. 1 \in 1 .. Len(b) /\ b[1] \in Byte /\ b[1] \in Nat
  BY <1>0, ElementOfSeq, ByteFacts
<1>2. HostUnstuff(b) = IF b = <<>> \/ b[1] = FRAME_BYTE
                         THEN [buf |-> b, next |-> 0]
                         ELSE result(f[Len(b) - 1])
  BY DEF HostUnstuff, Pass
<1>3. b # <<>> /\ b[1] # FRAME_BYTE
  BY <1>0, <1>1, EmptySeq DEF FRAME_BYTE
<1>4. start \in [buf : Seq(Byte), next : Nat] /\ start.next = b[1]
  <2>1. Zeroed(b, b)
    BY <1>0 DEF Zeroed
  <2>2. [b EXCEPT ![1] = FRAME_BYTE] \in Seq(Byte)
    BY <1>1, <2>1, ZeroedExcept DEF Zeroed
  <2> QED BY <1>1, <2>2
<1>5. step[start] = start
  <2>1. ~(start.next < Len(b) - 1)
    BY <1>0, <1>1, <1>4
  <2> HIDE DEF start
  <2> QED BY <1>4, <2>1
<1>6. result(start) = start
  <2>1. start.next > Len(b) - 1
    BY <1>0, <1>1, <1>4
  <2> QED BY <2>1
<1> HIDE DEF step, start
<1>7. f[0] = start /\ \A k \in 1 .. Len(b) - 1 : f[k] = step[f[k - 1]]
  <2> DEFINE S == {start}
             n == Len(b) - 1
  <2>1. start \in S /\ \A p \in S : step[p] \in S
    BY <1>5
  <2>2. n \in Nat
    BY <1>0
  <2> HIDE DEF S, n
  <2>3. Pass(n, start, step)[0] = start
        /\ \A k \in 1 .. n : Pass(n, start, step)[k] = step[Pass(n, start, step)[k - 1]]
    BY ONLY <2>1, <2>2, PassSteps
  <2> QED BY <2>3 DEF n
<1>8. f[Len(b) - 1] = start
  <2>1. f[1] = step[f[1 - 1]] /\ f[2] = step[f[2 - 1]] /\ 1 - 1 = 0 /\ 2 - 1 = 1
    BY <1>0, <1>7
  <2> QED BY <1>0, <1>5, <1>7, <2>1
<1> HIDE DEF f, result
<1>9. HostUnstuff(b) = result(start)
  BY <1>2, <1>3, <1>8
<1> QED BY <1>6, <1>9 DEF start

\* A packet put together from its first three bytes and the rest, unstuffed from
\* where the first code leads: see ErrsRest.
Joined(b, c) ==
    LET head == HostUnstuff(b)
        raw == head.buf \o c
        m == Min({head.next, Len(raw)})
    IN  SubSeq(raw, 1, m) \o HostUnstuffData(SubSeq(raw, m + 1, Len(raw)))

(* So simpleserial_read_witherrors gets the packet the target made. *)
LEMMA HeadAndRest ==
    ASSUME NEW s, Framed(s), Len(s) >= 6, s[2] # FRAME_BYTE, s[3] # FRAME_BYTE,
           NEW g, g = Stuff(s), NEW b, b \in Seq(Byte), Had(b, g, 3, 0),
           NEW l, l = Len(s) - 3, NEW c, c \in Seq(Byte), Had(c, g, l, 3)
    PROVE  Joined(b, c) = s
<1> PICK raw, m : raw = HostUnstuff(b).buf \o c /\ m = Min({HostUnstuff(b).next, Len(raw)})
  OBVIOUS
<1> SUFFICES SubSeq(raw, 1, m) \o HostUnstuffData(SubSeq(raw, m + 1, Len(raw))) = s
  BY DEF Joined
<1>0. /\ Len(b) = 3 /\ \A k \in 1 .. 3 : b[k] = Stuff(s)[k]
      /\ Len(c) = Len(s) - 3 /\ \A k \in 1 .. Len(s) - 3 : c[k] = Stuff(s)[3 + k]
  <2>1. \A k \in 1 .. 3 : 0 + k = k
    OBVIOUS
  <2> QED BY <2>1 DEF Had
<1> USE <1>0
<1> DEFINE n == Len(s)
           x == b[1]
           z == [b EXCEPT ![1] = FRAME_BYTE]
<1>1. /\ s \in Seq(Byte) /\ n \in Nat /\ n >= 6 /\ n <= 256
      /\ s[1] = FRAME_BYTE /\ s[n] = FRAME_BYTE
  <2>1. /\ s \in Seq(Byte) /\ n \in 1 .. 256 /\ n >= 6
        /\ s[1] = FRAME_BYTE /\ s[n] = FRAME_BYTE
    BY DEF Framed
  <2> HIDE DEF n
  <2>2. n \in Nat /\ n <= 256
    BY ONLY <2>1
  <2> QED BY ONLY <2>1, <2>2
<1>2. /\ Stuff(s) \in Seq(Byte) /\ Len(Stuff(s)) = n
      /\ \A k \in 2 .. n : s[k] # FRAME_BYTE => Stuff(s)[k] = s[k]
      /\ x \in Nat \ {0} /\ 1 + x \in 2 .. n /\ s[1 + x] = FRAME_BYTE
      /\ \A j \in 2 .. x : s[j] # FRAME_BYTE
  <2>1. 1 \in 1 .. n - 1 /\ 1 \in 1 .. 3 /\ 1 + 1 = 2
    BY ONLY <1>1
  <2>2. x = Stuff(s)[1]
    BY <2>1
  <2>3. /\ x \in Nat \ {0} /\ 1 + x \in 1 + 1 .. n /\ s[1 + x] = FRAME_BYTE
        /\ \A j \in 1 + 1 .. 1 + x - 1 : s[j] # FRAME_BYTE
    BY <1>1, <2>1, <2>2, StuffAt
  <2>4. 1 + x - 1 = x
    BY ONLY <2>3
  <2> HIDE DEF x
  <2> QED BY <2>1, <2>3, <2>4, StuffAt
<1>3. x >= 3 /\ x <= n - 1
  <2>1. x # 1 /\ x # 2
    <3>1. 1 + 1 = 2 /\ 1 + 2 = 3
      OBVIOUS
    <3> HIDE DEF x
    <3> QED BY <1>2, <3>1
  <2> HIDE DEF x
  <2> QED BY ONLY <1>1, <1>2, <2>1
<1>4. HostUnstuff(b) = [buf |-> z, next |-> x]
  BY <1>3, HeaderUnstuffed
<1>5. z \in Seq(Byte) /\ Len(z) = 3 /\ z[1] = FRAME_BYTE /\ z[2] = b[2] /\ z[3] = b[3]
  <2>1. b \in Seq(Byte) /\ Len(b) = 3 /\ 1 \in 1 .. Len(b) /\ DOMAIN b = 1 .. 3
    OBVIOUS
  <2>2. Zeroed(b, b)
    BY <2>1 DEF Zeroed
  <2>3. z \in Seq(Byte) /\ Len(z) = Len(b)
    BY <2>1, <2>2, ZeroedExcept DEF Zeroed
  <2>4. z[1] = FRAME_BYTE /\ z[2] = b[2] /\ z[3] = b[3]
    BY ONLY <2>1
  <2> QED BY <2>1, <2>3, <2>4
<1> HIDE DEF x, z
<1>6. raw = z \o c /\ m = Min({x, Len(raw)})
  BY <1>4
<1>7. /\ raw \in Seq(Byte) /\ Len(raw) = n
      /\ \A k \in 1 .. n : raw[k] = IF k <= 3 THEN z[k] ELSE c[k - 3]
  <2>1. /\ z \o c \in Seq(Byte) /\ Len(z \o c) = Len(z) + Len(c)
        /\ \A k \in 1 .. Len(z) + Len(c) : (z \o c)[k] = IF k <= Len(z) THEN z[k] ELSE c[k - Len(z)]
    <3>1. z \in Seq(Byte) /\ c \in Seq(Byte)
      BY <1>5
    <3> QED BY ONLY <3>1, ConcatProperties
  <2>2. Len(z) = 3 /\ Len(c) = n - 3 /\ 3 + (n - 3) = n
    BY <1>1, <1>5
  <2> QED BY <1>6, <2>1, <2>2
<1>8. \A k \in 2 .. n : raw[k] = Stuff(s)[k]
  <2> SUFFICES ASSUME NEW k \in 2 .. n PROVE raw[k] = Stuff(s)[k]
    OBVIOUS
  <2>1. k \in 1 .. n
    BY ONLY <1>1, k \in 2 .. n
  <2>2. CASE k <= 3
    <3>1. k = 2 \/ k = 3
      BY ONLY <1>1, <2>2, k \in 2 .. n
    <3>2. 2 \in 1 .. 3 /\ 3 \in 1 .. 3
      OBVIOUS
    <3>3. b[k] = Stuff(s)[k]
      BY <3>1, <3>2
    <3> QED BY ONLY <1>5, <1>7, <2>1, <2>2, <3>1, <3>3
  <2>3. CASE ~(k <= 3)
    <3>1. k - 3 \in 1 .. n - 3 /\ 3 + (k - 3) = k
      BY ONLY <1>1, <2>3, k \in 2 .. n
    <3>2. c[k - 3] = Stuff(s)[3 + (k - 3)]
      BY <3>1
    <3> QED BY ONLY <1>7, <2>1, <2>3, <3>1, <3>2
  <2> QED BY <2>2, <2>3
<1>9. m = x
  <2>1. {x, n} \subseteq Nat /\ {x, n} # {}
    BY <1>1, <1>2
  <2>2. Min({x, n}) \in {x, n} /\ \A y \in {x, n} : Min({x, n}) <= y
    BY <2>1, MinNat
  <2>3. m = Min({x, n})
    BY <1>6, <1>7
  <2> QED BY ONLY <1>1, <1>2, <1>3, <2>2, <2>3
<1> DEFINE t == SubSeq(s, x + 1, n)
           u == SubSeq(raw, x + 1, n)
           h == SubSeq(raw, 1, x)
<1> HIDE DEF n
<1>10. /\ x + 1 \in 1 .. n + 1 /\ n \in (x + 1) - 1 .. n /\ n - (x + 1) + 1 = n - x
       /\ 1 \in 1 .. n + 1 /\ x \in 1 - 1 .. n /\ x - 1 + 1 = x
       /\ n - x \in Nat /\ n - x \in 1 .. 256
       /\ \A k \in 1 .. n - x : (x + 1) + k - 1 = x + k /\ x + k \in 2 .. n
       /\ \A k \in 1 .. x : 1 + k - 1 = k
  BY ONLY <1>1, <1>2, <1>3
<1>11. Len(s) = n
  BY DEF n
<1>12. t \in Seq(Byte) /\ Len(t) = n - x /\ \A k \in 1 .. n - x : t[k] = s[x + k]
  <2>1. /\ t \in Seq(Byte) /\ Len(t) = n - (x + 1) + 1
        /\ \A k \in 1 .. n - (x + 1) + 1 : t[k] = s[(x + 1) + k - 1]
    BY ONLY <1>1, <1>10, <1>11, SubSeqProperties
  <2> HIDE DEF t
  <2> QED BY ONLY <1>10, <2>1
<1>13. u \in Seq(Byte) /\ Len(u) = n - x /\ \A k \in 1 .. n - x : u[k] = raw[x + k]
  <2>1. /\ u \in Seq(Byte) /\ Len(u) = n - (x + 1) + 1
        /\ \A k \in 1 .. n - (x + 1) + 1 : u[k] = raw[(x + 1) + k - 1]
    BY ONLY <1>7, <1>10, SubSeqProperties
  <2> HIDE DEF u
  <2> QED BY ONLY <1>10, <2>1
<1>14. h \in Seq(Byte) /\ Len(h) = x /\ \A k \in 1 .. x : h[k] = raw[k]
  <2>1. /\ h \in Seq(Byte) /\ Len(h) = x - 1 + 1
        /\ \A k \in 1 .. x - 1 + 1 : h[k] = raw[1 + k - 1]
    BY ONLY <1>7, <1>10, SubSeqProperties
  <2> HIDE DEF h
  <2> QED BY ONLY <1>10, <2>1
<1> HIDE DEF t, u, h
<1>15. Behind(s, x, t)
  <2>1. s[x + 1] = FRAME_BYTE /\ n = x + (n - x) /\ x \in Nat
    <3>1. 1 + x = x + 1 /\ n = x + (n - x) /\ x \in Nat
      BY ONLY <1>1, <1>2
    <3> QED BY <1>2, <3>1
  <2> QED BY <1>10, <1>11, <1>12, <2>1 DEF Behind
<1>16. Framed(t) /\ \A k \in 1 .. Len(t) : Stuff(t)[k] = Stuff(s)[x + k]
  BY <1>15, SuffixStuffed
<1>17. u = Stuff(t)
  <2>1. Stuff(t) \in Seq(Byte) /\ Len(Stuff(t)) = n - x
    BY <1>12, <1>16, StuffAt
  <2>2. \A k \in 1 .. n - x : u[k] = Stuff(t)[k]
    <3> SUFFICES ASSUME NEW k \in 1 .. n - x PROVE u[k] = Stuff(t)[k]
      OBVIOUS
    <3>1. k \in 1 .. n - x /\ x + k \in 2 .. n
      BY <1>10
    <3>2. u[k] = raw[x + k] /\ raw[x + k] = Stuff(s)[x + k]
      BY ONLY <1>8, <1>13, <3>1
    <3>3. Stuff(t)[k] = Stuff(s)[x + k]
      BY ONLY <1>12, <1>16, <3>1
    <3> QED BY ONLY <3>2, <3>3
  <2> QED BY <1>13, <2>1, <2>2, SeqEqual
<1>18. HostUnstuffData(u) = t
  <2>1. CASE n - x > 1
    BY <1>12, <1>16, <1>17, <2>1, HostInverts
  <2>2. CASE ~(n - x > 1)
    <3>1. n - x = 1
      BY ONLY <1>10, <2>2
    <3>2. u[1] = FRAME_BYTE /\ t[1] = FRAME_BYTE
      <4>1. t[1] = FRAME_BYTE
        BY <1>16 DEF Framed
      <4>2. Stuff(t)[1] = FRAME_BYTE
        BY ONLY <1>12, <1>16, <3>1, StuffAt
      <4> QED BY <1>17, <4>1, <4>2
    <3>3. u = t
      <4>1. \A k \in 1 .. 1 : u[k] = t[k]
        BY ONLY <3>2
      <4> QED BY ONLY <1>12, <1>13, <3>1, <4>1, SeqEqual
    <3> QED BY <3>2, <3>3 DEF HostUnstuffData, HostUnstuff
  <2> QED BY <2>1, <2>2
<1>19. \A k \in 1 .. x : h[k] = s[k]
  <2> SUFFICES ASSUME NEW k \in 1 .. x PROVE h[k] = s[k]
    OBVIOUS
  <2>1. CASE k = 1
    <3>1. 1 \in 1 .. n /\ 1 <= 3
      BY ONLY <1>1
    <3>2. h[1] = raw[1] /\ raw[1] = z[1]
      <4>1. 1 \in 1 .. x
        BY <2>1
      <4> QED BY ONLY <1>7, <1>14, <3>1, <4>1
    <3> QED BY ONLY <1>1, <1>5, <2>1, <3>2
  <2>2. CASE k # 1
    <3>1. k \in 2 .. n /\ k \in 2 .. x
      BY ONLY <1>1, <1>2, <1>3, <2>2, k \in 1 .. x
    <3>2. k \in 1 .. x
      OBVIOUS
    <3> QED BY ONLY <1>2, <1>8, <1>14, <3>1, <3>2
  <2> QED BY <2>1, <2>2
<1>20. h \o t = s
  <2>1. /\ h \o t \in Seq(Byte) /\ Len(h \o t) = Len(h) + Len(t)
        /\ \A k \in 1 .. Len(h) + Len(t) : (h \o t)[k] = IF k <= Len(h) THEN h[k] ELSE t[k - Len(h)]
    BY ONLY <1>12, <1>14, ConcatProperties
  <2>2. PICK w : w = h \o t
    OBVIOUS
  <2>3. x + (n - x) = n
    BY ONLY <1>1, <1>2
  <2>4. /\ w \in Seq(Byte) /\ Len(w) = n
        /\ \A k \in 1 .. n : w[k] = IF k <= x THEN h[k] ELSE t[k - x]
    BY <1>12, <1>14, <2>1, <2>2, <2>3
  <2>5. ASSUME NEW k \in 1 .. n PROVE w[k] = s[k]
    <3>1. CASE k <= x
      <4>1. k \in 1 .. x
        BY ONLY <1>1, <1>2, <2>5, <3>1
      <4> QED BY ONLY <1>19, <2>4, <2>5, <3>1, <4>1
    <3>2. CASE ~(k <= x)
      <4>1. k - x \in 1 .. n - x /\ x + (k - x) = k
        BY ONLY <1>1, <1>2, <2>5, <3>2
      <4> QED BY ONLY <1>12, <2>4, <2>5, <3>2, <4>1
    <3> QED BY <3>1, <3>2
  <2>6. w = s
    BY ONLY <1>1, <1>11, <2>4, <2>5, SeqEqual
  <2> QED BY <2>2, <2>6
<1> QED BY <1>7, <1>9, <1>18, <1>20 DEF u, h

(* What a request that is answered with data is answered with: bytes. *)
LEMMA DataType ==
    ASSUME Blocks, NEW q, q \in AllRequests, q.call \notin {"key", "bad"}
    PROVE  DataOf(q) \in Seq(Byte) /\ Len(DataOf(q)) \in 1 .. 250
<1>1. CASE q.call = "list"
  <2>1. CMD_VERSION \in Byte /\ CMD_COMMANDS \in Byte /\ CMD_AES \in Byte
    BY DEF CMD_VERSION, CMD_COMMANDS, CMD_AES, Byte
  <2> QED BY <1>1, <2>1 DEF DataOf, commands
<1>2. CASE q.call # "list"
  <2>1. DataOf(q) = q.data /\ q.data \in Range(Plaintexts)
    BY <1>2 DEF DataOf, AllRequests
  <2>2. q \in Writable
    BY DEF Writable
  <2>3. q.data \in Seq(Byte) /\ Len(q.data) <= 243 /\ Len(q.data) = BlockLen /\ BlockLen # 0
    BY <2>1, <2>2, RequestType DEF Blocks
  <2>4. Len(q.data) \in Nat
    BY <2>3, LenProperties
  <2>5. \A n \in Nat : n <= 243 /\ n # 0 => n \in 1 .. 250
    OBVIOUS
  <2> QED BY <2>1, <2>3, <2>4, <2>5
<1> QED BY <1>1, <1>2

(* The packet with the data, as the target writes it and before it is stuffed. *)
LEMMA DataPacket ==
    ASSUME Blocks, NEW q, q \in AllRequests, q.call \notin {"key", "bad"},
           NEW f, f = First(q), NEW a, a = Answer(q)
    PROVE  \E s : /\ Framed(s) /\ Len(s) = Len(f) /\ Len(s) >= 6 /\ f = Stuff(s)
                  /\ HostUnstuffData(f) = s
                  /\ s[2] = RESPONSE /\ s[2] # FRAME_BYTE /\ s[3] # FRAME_BYTE
                  /\ SubSeq(s, 4, Len(s) - 2) = DataOf(q)
                  /\ f \in Seq(Byte) /\ \A k \in 1 .. Len(f) : a[k] = f[k]
<1>1. PICK d : d = DataOf(q)
  OBVIOUS
<1>2. d \in Seq(Byte) /\ Len(d) \in 1 .. 250
  BY <1>1, DataType
<1>3. f = ResponseFrame(RESPONSE, d)
  BY <1>1 DEF First
<1>4. RESPONSE \in Byte /\ RESPONSE # 0
  BY DEF RESPONSE, Byte
<1>5. PICK s : /\ Framed(s) /\ Len(s) = Len(d) + 5 /\ f = Stuff(s)
               /\ HostUnstuffData(f) = s
               /\ s[2] = RESPONSE /\ s[3] = Len(d) /\ SubSeq(s, 4, Len(s) - 2) = d
  BY ONLY <1>2, <1>3, <1>4, ResponseParts
<1>6. f \in Seq(Byte) /\ Len(f) = Len(s)
  BY <1>5, StuffAt
<1>7. Len(s) >= 6 /\ s[3] # FRAME_BYTE /\ s[2] # FRAME_BYTE
  <2>1. Len(d) \in Nat /\ Len(d) >= 1 /\ Len(d) # 0
    <3>1. \A n \in 1 .. 250 : n \in Nat /\ n >= 1 /\ n # 0
      OBVIOUS
    <3> QED BY ONLY <1>2, <3>1
  <2>2. FRAME_BYTE = 0
    BY DEF FRAME_BYTE
  <2> QED BY ONLY <1>4, <1>5, <2>1, <2>2
<1>8. \A k \in 1 .. Len(f) : a[k] = f[k]
  <2>1. PICK e : e = ResponseFrame(ACK, <<Code(q)>>)
    OBVIOUS
  <2>2. e \in Seq(Byte) /\ a = f \o e
    <3>1. ACK \in Byte /\ ACK # 0 /\ Code(q) \in Byte
      BY DEF ACK, Byte, Code, SS_ERR_CMD, SS_ERR_OK
    <3>2. <<Code(q)>> \in Seq(Byte) /\ Len(<<Code(q)>>) = 1 /\ 1 \in 1 .. 250
      BY <3>1
    <3>3. PICK c, v : c = ACK /\ v = <<Code(q)>>
      OBVIOUS
    <3>4. c \in Byte /\ c # 0 /\ v \in Seq(Byte) /\ Len(v) \in 1 .. 250
          /\ e = ResponseFrame(c, v)
      BY <2>1, <3>1, <3>2, <3>3
    <3>5. e \in Seq(Byte)
      BY ONLY <3>4, ResponseBytes
    <3> QED BY <2>1, <3>5 DEF Answer
  <2>3. \A k \in 1 .. Len(f) + Len(e) : (f \o e)[k] = IF k <= Len(f) THEN f[k] ELSE e[k - Len(f)]
    BY ONLY <1>6, <2>2, ConcatProperties
  <2>4. Len(f) \in Nat /\ Len(e) \in Nat
    BY ONLY <1>6, <2>2, LenProperties
  <2>5. \A k \in 1 .. Len(f) : k \in 1 .. Len(f) + Len(e) /\ k <= Len(f)
    BY ONLY <2>4
  <2> QED BY ONLY <2>2, <2>3, <2>5
<1> QED BY <1>1, <1>5, <1>6, <1>7, <1>8

(* A buffer that has as many bytes of the answer is that packet. *)
LEMMA HasPacket ==
    ASSUME NEW f, f \in Seq(Byte), NEW a, \A k \in 1 .. Len(f) : a[k] = f[k],
           NEW b, b \in Seq(Byte), NEW n, n = Len(f), Had(b, a, n, 0)
    PROVE  b = f
<1>1. Len(b) = Len(f) /\ \A k \in 1 .. Len(f) : b[k] = a[0 + k]
  BY DEF Had
<1>2. Len(f) \in Nat
  BY LenProperties
<1>3. \A k \in 1 .. Len(f) : 0 + k = k
  BY <1>2
<1>4. \A k \in 1 .. Len(f) : b[k] = f[k]
  BY <1>1, <1>3
<1> QED BY <1>1, <1>4, SeqEqual

\* The request of the call is the one that was sent last; if the call has got a
\* payload it is that of its own command, which has run, last of all.
Own(q) == sent # <<>> /\ Last(sent) = q
Told(q) ==
    /\ hpc \in Busy \/ res.ack = SS_ERR_OK => Own(q)
    /\ res.packet # None =>
         /\ q \in AllRequests /\ q.call \notin {"key", "bad"} /\ Own(q)
         /\ res.packet = RESPONSE /\ res.payload = DataOf(q)
         /\ CurRan(q) /\ Nothing

(* The host gets hold of a payload. *)
LEMMA ToldPayload ==
    ASSUME IInv, faults = {}, Result, NEW q, q \in AllRequests, q.call \notin {"key", "bad"},
           Told(q), hpc \in Busy, NEW j, Answered(q, j),
           NEW pkt, pkt[2] = RESPONSE, SubSeq(pkt, 4, Len(pkt) - 2) = DataOf(q),
           res' = [res EXCEPT !.payload = SubSeq(pkt, 4, Len(pkt) - 2), !.packet = pkt[2]],
           UNCHANGED <<toTarget, targetVars, sent>>
    PROVE  Told(q)'
<1>0. res' = [res EXCEPT !.payload = SubSeq(pkt, 4, Len(pkt) - 2), !.packet = pkt[2]]
  OBVIOUS
<1>1. res'.packet = RESPONSE /\ res'.payload = DataOf(q)
  <2>1. res'.packet = pkt[2] /\ res'.payload = SubSeq(pkt, 4, Len(pkt) - 2)
    BY ONLY Result, <1>0, ResultPayload, Zenon
  <2> QED BY <2>1
<1>2. Own(q)'
  BY DEF Told, Own
<1>3. toTarget = <<>> /\ CurRan(q)
  BY DEF Answered
<1>4. data_buf = <<>>
  <2>1. hpc # "con" /\ ~Noisy
    BY DEF Busy, Noisy
  <2> QED BY <1>3, <2>1 DEF IInv, LineInv, Aligned
<1>5. Nothing'
  <2>1. \A k \in 1 .. Len(<<>>) : FALSE
    BY EmptySeq
  <2>2. toTarget' = <<>> /\ data_buf' = <<>>
    BY <1>3, <1>4 DEF targetVars
  <2> QED BY <2>1, <2>2 DEF Nothing
<1>6. CurRan(q)'
  BY <1>3 DEF CurRan, targetVars
<1> QED BY <1>1, <1>2, <1>5, <1>6 DEF Told

(* Nothing but FRAME_BYTEs is sent. *)
LEMMA NothingReset ==
    ASSUME Nothing, toTarget \in Seq(Byte), data_buf' = data_buf,
           toTarget' = toTarget \/ toTarget' = toTarget \o <<FRAME_BYTE, FRAME_BYTE>>
    PROVE  Nothing'
<1>1. CASE toTarget' = toTarget
  BY <1>1 DEF Nothing
<1>2. CASE toTarget' = toTarget \o <<FRAME_BYTE, FRAME_BYTE>>
  <2>1. PICK f : f = <<>>
    OBVIOUS
  <2>2. Brings(f, 0, 0) /\ data_buf = <<>>
    BY <2>1, NothingBrings
  <2>3. 0 \in Nat /\ 0 <= 0
    OBVIOUS
  <2>4. Brings(f, 0, 0)'
    BY <1>2, <2>2, <2>3, BringsReset
  <2> QED BY <2>2, <2>3, <2>4, BringsNone DEF Nothing
<1> QED BY <1>1, <1>2

(* What the call has got stays as it is. *)
LEMMA ToldStays ==
    ASSUME NEW q, Told(q), toTarget \in Seq(Byte),
           toTarget' = toTarget \/ toTarget' = toTarget \o <<FRAME_BYTE, FRAME_BYTE>>,
           UNCHANGED <<data_buf, ran, sent>>,
           res'.packet = res.packet, res'.payload = res.payload,
           hpc' \in Busy \/ res'.ack = SS_ERR_OK => hpc \in Busy \/ res.ack = SS_ERR_OK
    PROVE  Told(q)'
<1>1. Nothing => Nothing'
  BY NothingReset
<1>2. (Own(q) => Own(q)') /\ (CurRan(q) => CurRan(q)')
  BY DEF Own, CurRan
<1> QED BY <1>1, <1>2 DEF Told

(* A call that has no result yet. *)
LEMMA ToldNone ==
    ASSUME NEW q, res' = NoResult, hpc' \in Busy => Own(q)'
    PROVE  Told(q)'
<1>1. res'.packet = None /\ res'.ack # SS_ERR_OK
  BY DEF NoResult, None, SS_ERR_OK
<1> QED BY <1>1 DEF Told

(* The user's next call. *)
LEMMA ToldCall ==
    ASSUME IInv, Recorded, faults = {}, NEW p, Place(p), Sequel, Call
    PROVE  \E q : q = cur' /\ Told(q)'
<1>1. PICK q : /\ q \in Requests /\ cur' = q
               /\ \/ CallEncrypt(q) \/ CallWithErrors(q) \/ CallUnknown(q)
                  \/ CallCommands(q) \/ CallSetKey(q)
  BY DEF Call
<1>2. q \in AllRequests
  BY <1>1 DEF Requests
<1>3. hpc = "idle" /\ res' = NoResult /\ UNCHANGED targetVars
  BY DEF Call
<1>4. Settled /\ data_buf = <<>>
  <2>1. Settled
    BY <1>3 DEF Place, Still
  <2> QED BY <1>3, <2>1, AlignedNow
<1>5. CASE CallEncrypt(q) \/ CallWithErrors(q) \/ CallUnknown(q) \/ CallCommands(q)
  <2>1. Write(q) /\ toHost' = <<>>
    BY <1>4, <1>5 DEF CallEncrypt, CallWithErrors, CallUnknown, CallCommands, Settled
  <2>2. Own(q)'
    BY <1>2, <1>3, <1>4, <2>1, SequelWrite DEF Settled, Own
  <2>3. Told(q)'
    BY <1>3, <2>2, ToldNone
  <2> QED BY <1>1, <2>3
<1>6. CASE CallSetKey(q)
  <2>1. hpc' \notin Busy
    BY <1>3, <1>6 DEF CallSetKey, ResetComms, Busy
  <2>2. Told(q)'
    BY <1>3, <2>1, ToldNone
  <2> QED BY <1>1, <2>2
<1> QED BY <1>1, <1>5, <1>6

(* The key is written. *)
LEMMA ToldKey ==
    ASSUME IInv, Recorded, Sequel, faults = {}, NEW q, q = cur, Place(q), Told(q), SendKey
    PROVE  Told(q)'
<1>1. hpc = "sendkey" /\ Write(q) /\ hpc' = "first" /\ toHost' = toHost /\ res' = res
      /\ UNCHANGED targetVars
  BY DEF SendKey, ReadCmd
<1>2. q.call = "key" /\ Settled
  BY <1>1 DEF Place, Still
<1>3. q \in AllRequests
  <2>1. cur \in Writable
    BY DEF IInv, LineInv
  <2> QED BY <1>2, <2>1 DEF Writable, NoRequest
<1>4. data_buf = <<>> /\ tx = <<>> /\ toTarget = <<>> /\ toHost' = <<>>
  BY <1>1, <1>2, AlignedNow DEF Settled
<1>5. Own(q)'
  BY <1>1, <1>3, <1>4, SequelWrite DEF Own
<1>6. res'.packet = None
  BY <1>1, <1>2 DEF Told
<1> QED BY <1>5, <1>6 DEF Told

(* The rest of the packet with the data, or the code. *)
LEMMA ToldSecond ==
    ASSUME Blocks, IInv, Result, faults = {}, NEW q, q = cur, Place(q), Told(q), SecondRead
    PROVE  Told(q)'
<1> DEFINE pkt == HostUnstuffData(resp \o SubSeq(toHost, 1, Dlen))
<1>1. /\ hpc = "second" /\ Len(toHost) >= Dlen
      /\ toHost' = SubSeq(toHost, Dlen + 1, Len(toHost))
      /\ ReadReturns(pkt)
      /\ UNCHANGED <<targetVars, cur, sent>>
  BY DEF SecondRead
<1>2. q \in AllRequests /\ (HaveData(q) \/ HaveCode(q)) /\ hpc \in Busy
  BY <1>1 DEF Place, Busy, Underway, AwaitData, AwaitCode, AwaitErrs, HaveErrs, WithErrors
<1>3. RESPONSE # ACK
  BY DEF RESPONSE, ACK
<1>4. toTarget \in Seq(Byte)
  BY HostBytes
<1> HIDE DEF pkt
<1>5. CASE HaveData(q)
  <2>1. PICK f, a : f = First(q) /\ a = Answer(q)
    OBVIOUS
  <2>2. /\ expect = RESPONSE /\ q.call \in {"pt", "list"} /\ q.call \notin {"key", "bad"}
        /\ Had(resp, a, 5, 0) /\ Answered(q, 5)
    BY <1>5, <2>1 DEF HaveData
  <2>3. /\ Len(f) \in Nat /\ Len(a) = Len(f) + 6 /\ Len(f) >= 6 /\ a[3] = Len(f) - 5
    BY <1>2, <2>1, <2>2, AnswerShape
  <2>4. PICK n : n = Dlen
    OBVIOUS
  <2>5. n = Len(f) - 5
    <3>1. 3 \in 1 .. 5 /\ 0 + 3 = 3
      OBVIOUS
    <3>2. resp[3] = a[3]
      BY <2>2, <3>1 DEF Had
    <3> QED BY <2>3, <2>4, <3>2 DEF Dlen
  <2>6. Len(toHost) \in Nat
    BY HostBytes
  <2>7. n \in Nat /\ 5 + n = Len(f) /\ 5 + n <= Len(a) /\ 5 \in Nat /\ 0 \in Nat
    BY ONLY <2>3, <2>5
  <2>8. n <= Len(toHost)
    <3>1. Len(toHost) >= n
      BY <1>1, <2>4
    <3> QED BY ONLY <2>6, <2>7, <3>1
  <2>9. /\ res' = [res EXCEPT !.payload = SubSeq(pkt, 4, Len(pkt) - 2), !.packet = pkt[2]]
        /\ toTarget' = toTarget
    BY <1>1, <2>2 DEF ReadReturns
  <2>10. PICK v, r : v = SubSeq(toHost, 1, n) /\ r = resp
    OBVIOUS
  <2>11. v \in Seq(Byte) /\ Had(v, a, n, 5)
    BY <1>1, <1>2, <2>1, <2>2, <2>4, <2>7, <2>8, <2>9, <2>10, HostTakes
  <2>12. r \in Seq(Byte) /\ Had(r, a, 5, 0)
    BY <2>2, <2>10, HostBytes
  <2>13. PICK b : b = r \o v
    OBVIOUS
  <2>14. b \in Seq(Byte) /\ Had(b, a, Len(f), 0)
    <3>1. 0 + 5 = 5
      OBVIOUS
    <3>2. Had(v, a, n, 0 + 5)
      BY <2>11, <3>1
    <3>3. r \o v \in Seq(Byte) /\ Had(r \o v, a, 5 + n, 0)
      BY ONLY <2>7, <2>11, <2>12, <3>2, HadMore
    <3> QED BY <2>7, <2>13, <3>3
  <2>15. PICK s : /\ HostUnstuffData(f) = s /\ s[2] = RESPONSE
                  /\ SubSeq(s, 4, Len(s) - 2) = DataOf(q)
                  /\ f \in Seq(Byte) /\ \A k \in 1 .. Len(f) : a[k] = f[k]
    BY <1>2, <2>1, <2>2, DataPacket
  <2>16. b = f
    BY ONLY <2>14, <2>15, HasPacket
  <2>17. pkt = s
    BY <2>4, <2>10, <2>13, <2>15, <2>16 DEF pkt
  <2>18. pkt[2] = RESPONSE /\ SubSeq(pkt, 4, Len(pkt) - 2) = DataOf(q)
    BY <2>15, <2>17
  <2> QED BY <1>1, <1>2, <2>2, <2>9, <2>18, ToldPayload
<1>6. CASE HaveCode(q)
  <2>1. expect = ACK
    BY <1>6 DEF HaveCode
  <2>2. res' = [res EXCEPT !.ack = pkt[4]]
    BY <1>1, <1>3, <2>1 DEF ReadReturns
  <2>3. res'.packet = res.packet /\ res'.payload = res.payload
    BY ONLY Result, <2>2, ResultCode
  <2>4. /\ UNCHANGED <<data_buf, ran, sent>>
        /\ \/ toTarget' = toTarget
           \/ toTarget' = toTarget \o <<FRAME_BYTE, FRAME_BYTE>>
    <3>1. Host /\ ~SendKey
      BY <1>1 DEF Host, SendKey
    <3> QED BY <3>1, HostLine
  <2> QED BY <1>2, <1>4, <2>3, <2>4, ToldStays
<1> QED BY <1>2, <1>5, <1>6

(* What simpleserial_read_witherrors takes, or not. *)
LEMMA ToldJudge ==
    ASSUME IInv, faults = {}, Result, NEW q, q \in AllRequests, q.call \in WithErrors,
           Told(q), hpc \in Busy, NEW j, Answered(q, j), NEW pkt, Judge(pkt),
           pkt[2] = RESPONSE, SubSeq(pkt, 4, Len(pkt) - 2) = DataOf(q),
           UNCHANGED <<toTarget, targetVars, sent>>
    PROVE  Told(q)'
<1>1. q.call \notin {"key", "bad"}
  BY DEF WithErrors
<1>2. CASE res' = [res EXCEPT !.payload = SubSeq(pkt, 4, Len(pkt) - 2), !.packet = pkt[2]]
  BY <1>1, <1>2, ToldPayload
<1>3. CASE res' = res
  <2>1. toTarget \in Seq(Byte)
    BY HostBytes
  <2>2. UNCHANGED <<data_buf, ran, sent>>
    BY DEF targetVars
  <2> QED BY <1>3, <2>1, <2>2, ToldStays
<1> QED BY <1>2, <1>3 DEF Judge

(* With the length of the payload. *)
LEMMA ToldErrs ==
    ASSUME Blocks, IInv, Result, faults = {}, NEW q, q = cur, Place(q), Told(q), ErrsRead
    PROVE  Told(q)'
<1>1. PICK n : n = 5 + Len(cur.data)
  OBVIOUS
<1>2. /\ hpc = "errs" /\ toHost' = SubSeq(toHost, n + 1, Len(toHost))
      /\ IF Len(toHost) >= n
           THEN Judge(HostUnstuffData(SubSeq(toHost, 1, n)))
           ELSE hpc' = "drain" /\ UNCHANGED <<res, expect, resp>>
      /\ UNCHANGED <<toTarget, targetVars, sent>>
  BY <1>1 DEF ErrsRead, Drop
<1>3. /\ q \in AllRequests /\ AwaitErrs(q) /\ hpc \in Busy
  BY <1>2 DEF Place, Busy, Underway, AwaitData, AwaitCode, HaveData, HaveCode, HaveErrs
<1>4. PICK f, a : f = First(q) /\ a = Answer(q)
  OBVIOUS
<1>5. q.call = "errs" /\ q.call \in WithErrors /\ q.call \notin {"key", "bad"}
  BY <1>2, <1>3 DEF AwaitErrs, WithErrors
<1>6. /\ Len(f) \in Nat /\ Len(a) = Len(f) + 6 /\ Len(f) >= 6 /\ Len(f) = 5 + Len(q.data)
  BY <1>3, <1>4, <1>5, AnswerShape
<1>7. n = Len(f) /\ n \in Nat /\ ~(0 >= n)
  BY <1>1, <1>6
<1>8. Len(toHost) \in Nat /\ toTarget \in Seq(Byte)
  BY HostBytes
<1>9. CASE Len(toHost) >= n
  <2>1. ~Asked(q)
    <3>1. Len(<<>>) = 0
      OBVIOUS
    <3> QED BY <1>7, <1>9, <3>1 DEF Asked
  <2>2. Answered(q, 0)
    BY <1>3, <2>1 DEF AwaitErrs
  <2>3. n <= Len(toHost) /\ 0 + n <= Len(a) /\ 0 \in Nat
    BY ONLY <1>6, <1>7, <1>8, <1>9
  <2>4. PICK b : b = SubSeq(toHost, 1, n)
    OBVIOUS
  <2>5. b \in Seq(Byte) /\ Had(b, a, n, 0)
    BY <1>2, <1>3, <1>4, <1>7, <2>2, <2>3, <2>4, HostTakes
  <2>6. PICK s : /\ HostUnstuffData(f) = s /\ s[2] = RESPONSE
                 /\ SubSeq(s, 4, Len(s) - 2) = DataOf(q)
                 /\ f \in Seq(Byte) /\ \A k \in 1 .. Len(f) : a[k] = f[k]
    BY <1>3, <1>4, <1>5, DataPacket
  <2>7. b = f
    BY ONLY <1>7, <2>5, <2>6, HasPacket
  <2>8. Judge(s) /\ s[2] = RESPONSE /\ SubSeq(s, 4, Len(s) - 2) = DataOf(q)
    BY <1>2, <1>9, <2>4, <2>6, <2>7
  <2> QED BY <1>2, <1>3, <1>5, <2>2, <2>8, ToldJudge
<1>10. CASE ~(Len(toHost) >= n)
  <2>1. res' = res /\ UNCHANGED <<data_buf, ran, sent>>
    BY <1>2, <1>10 DEF targetVars
  <2> QED BY <1>2, <1>3, <1>8, <2>1, ToldStays
<1> QED BY <1>9, <1>10

(* Without it. *)
LEMMA ToldRest ==
    ASSUME Blocks, IInv, Result, faults = {}, NEW q, q = cur, Place(q), Told(q), ErrsRest
    PROVE  Told(q)'
<1>1. PICK b, n, raw, m :
         /\ b = resp /\ n = HostUnstuff(b).buf[3] + 2
         /\ raw = HostUnstuff(b).buf \o SubSeq(toHost, 1, n)
         /\ m = Min({HostUnstuff(b).next, Len(raw)})
  OBVIOUS
<1>2. PICK pkt : pkt = SubSeq(raw, 1, m) \o HostUnstuffData(SubSeq(raw, m + 1, Len(raw)))
  OBVIOUS
<1>3. /\ hpc = "errs4" /\ toHost' = SubSeq(toHost, n + 1, Len(toHost))
      /\ \/ Len(toHost) >= n /\ Judge(pkt)
         \/ res' = res
      /\ UNCHANGED <<toTarget, targetVars, sent>>
  BY <1>1, <1>2 DEF ErrsRest, Drop
<1>4. /\ q \in AllRequests /\ HaveErrs(q) /\ hpc \in Busy
  BY <1>3 DEF Place, Busy, Underway, AwaitData, AwaitCode, HaveData, HaveCode, AwaitErrs,
     WithErrors
<1>5. PICK f, a : f = First(q) /\ a = Answer(q)
  OBVIOUS
<1>6. /\ q.call = "errs3" /\ q.call \in WithErrors /\ q.call \notin {"key", "bad"}
      /\ Had(b, a, 3, 0) /\ Answered(q, 3)
  BY <1>1, <1>4, <1>5 DEF HaveErrs, WithErrors
<1>7. /\ Len(f) \in Nat /\ Len(a) = Len(f) + 6 /\ Len(f) >= 6
      /\ a[1] >= 3 /\ a[3] = Len(f) - 5
  BY <1>4, <1>5, <1>6, AnswerShape
<1>8. b \in Seq(Byte) /\ Len(b) = 3 /\ \A k \in 1 .. 3 : b[k] = a[k]
  <2>1. b \in Seq(Byte)
    BY <1>1, HostBytes
  <2>2. \A k \in 1 .. 3 : 0 + k = k
    OBVIOUS
  <2> QED BY <1>6, <2>1, <2>2 DEF Had
<1>9. n \in Nat /\ 3 + n = Len(f) /\ 3 + n <= Len(a) /\ 3 \in Nat
  <2>1. 1 \in 1 .. 3 /\ 3 \in 1 .. 3
    OBVIOUS
  <2>2. HostUnstuff(b).buf[3] = a[3]
    BY <1>7, <1>8, <2>1, HeaderLength
  <2>3. n = a[3] + 2
    BY <1>1, <2>2
  <2> QED BY ONLY <1>7, <2>3
<1>10. Len(toHost) \in Nat /\ toTarget \in Seq(Byte)
  BY HostBytes
<1>11. CASE res' = res
  <2>1. UNCHANGED <<data_buf, ran, sent>>
    BY <1>3 DEF targetVars
  <2> QED BY <1>3, <1>4, <1>10, <1>11, <2>1, ToldStays
<1>12. CASE Len(toHost) >= n /\ Judge(pkt)
  <2>1. n <= Len(toHost)
    BY ONLY <1>9, <1>10, <1>12
  <2>2. PICK c : c = SubSeq(toHost, 1, n)
    OBVIOUS
  <2>3. c \in Seq(Byte) /\ Had(c, a, n, 3)
    BY <1>3, <1>4, <1>5, <1>6, <1>9, <2>1, <2>2, HostTakes
  <2>4. PICK s : /\ Framed(s) /\ Len(s) = Len(f) /\ Len(s) >= 6 /\ f = Stuff(s)
                 /\ s[2] = RESPONSE /\ s[2] # FRAME_BYTE /\ s[3] # FRAME_BYTE
                 /\ SubSeq(s, 4, Len(s) - 2) = DataOf(q)
                 /\ \A k \in 1 .. Len(f) : a[k] = f[k]
    BY <1>4, <1>5, <1>6, DataPacket
  <2>5. Had(b, f, 3, 0)
    <3>1. \A k \in 1 .. 3 : k \in 1 .. Len(f) /\ 0 + k = k
      BY ONLY <1>7
    <3> QED BY <1>8, <2>4, <3>1 DEF Had
  <2>6. Had(c, f, n, 3) /\ n = Len(s) - 3
    <3>1. Len(c) = n /\ \A k \in 1 .. n : c[k] = a[3 + k]
      BY <2>3 DEF Had
    <3>2. n = Len(s) - 3 /\ \A k \in 1 .. n : 3 + k \in 1 .. Len(f)
      <4>1. Len(s) = Len(f)
        BY <2>4
      <4> QED BY ONLY <1>7, <1>9, <4>1
    <3> QED BY <2>4, <3>1, <3>2 DEF Had
  <2>7. pkt = Joined(b, c)
    BY <1>1, <1>2, <2>2 DEF Joined
  <2>8. pkt = s
    <3>1. Framed(s) /\ Len(s) >= 6 /\ s[2] # FRAME_BYTE /\ s[3] # FRAME_BYTE /\ f = Stuff(s)
      BY <2>4
    <3>2. b \in Seq(Byte) /\ c \in Seq(Byte)
      BY <1>8, <2>3
    <3>3. Joined(b, c) = s
      BY ONLY <2>5, <2>6, <3>1, <3>2, HeadAndRest
    <3> QED BY <2>7, <3>3
  <2>9. pkt[2] = RESPONSE /\ SubSeq(pkt, 4, Len(pkt) - 2) = DataOf(q)
    BY <2>4, <2>8
  <2> QED BY <1>3, <1>4, <1>6, <1>12, <2>9, ToldJudge
<1> QED BY <1>3, <1>11, <1>12

(* A step of the host. *)
LEMMA ToldHost ==
    ASSUME Blocks, IInv, Recorded, Result, Sequel, faults = {}, NEW q, q = cur,
           Place(q), Told(q), Host
    PROVE  Told(q)'
<1>1. toTarget \in Seq(Byte)
  BY HostBytes
<1>2. ASSUME ~SendKey, res' = res, hpc \in Busy \/ (hpc # "idle" /\ hpc' \notin Busy)
      PROVE  Told(q)'
  <2>1. /\ UNCHANGED <<data_buf, ran, sent>>
        /\ \/ toTarget' = toTarget
           \/ toTarget' = toTarget \o <<FRAME_BYTE, FRAME_BYTE>>
    BY <1>2, HostLine
  <2>2. hpc # "idle" => res.ack # SS_ERR_OK
    BY DEF Place
  <2> QED BY <1>1, <1>2, <2>1, <2>2, ToldStays
<1>3. CASE Con \/ Connected \/ Rekey
  <2>1. /\ ~SendKey /\ res' = res /\ hpc # "idle" /\ hpc' \notin Busy
    BY <1>3 DEF Con, Connected, Rekey, ResetComms, SendKey, Busy
  <2> QED BY <1>2, <2>1
<1>4. CASE ResetPoll
  <2>1. hpc = "reset" /\ (hpc' = hpc \/ hpc' = ret[1]) /\ res' = res
    BY <1>4 DEF ResetPoll
  <2>2. ret[1] \in Returns \cup {"flush"}
    <3>1. ret \in {<<p>> : p \in Returns} \cup {<<"flush", p>> : p \in Returns}
      BY <2>1 DEF IInv, HostTypes, Control, Stack
    <3> QED BY <3>1
  <2>3. hpc' \notin Busy /\ hpc # "idle"
    BY <2>1, <2>2 DEF Busy, Returns
  <2> QED BY <1>2, <2>1, <2>3 DEF SendKey
<1>5. CASE Flush
  <2>1. hpc = "flush" /\ hpc' = ret[1] /\ res' = res
    BY <1>5 DEF Flush
  <2>2. ret[1] \in Returns
    <3>1. ret \in {<<p>> : p \in Returns}
      BY <2>1 DEF IInv, HostTypes, Control, Stack
    <3> QED BY <3>1
  <2>3. hpc' \notin Busy /\ hpc # "idle"
    BY <2>1, <2>2 DEF Busy, Returns
  <2> QED BY <1>2, <2>1, <2>3 DEF SendKey
<1>6. CASE FirstTimeout \/ SecondTimeout \/ FirstRead \/ ErrsHeader
  <2>1. hpc \in Busy /\ res' = res /\ ~SendKey
    BY <1>6 DEF FirstTimeout, SecondTimeout, FirstRead, ErrsHeader, ReadFailed, Busy, SendKey
  <2> QED BY <1>2, <2>1
<1>7. CASE ErrorByte \/ ListAck
  BY <1>7 DEF ErrorByte, ListAck, Place
<1>8. CASE Drain
  <2>1. res' = NoResult /\ hpc' \notin Busy
    BY <1>8 DEF Drain, Busy
  <2> QED BY <2>1, ToldNone
<1>9. CASE SecondRaises
  BY <1>9, NeverRaises
<1>10. CASE SendKey \/ SecondRead \/ ErrsRead \/ ErrsRest
  BY <1>10, ToldKey, ToldSecond, ToldErrs, ToldRest
<1> QED BY <1>3, <1>4, <1>5, <1>6, <1>7, <1>8, <1>9, <1>10 DEF Host

(* The target reads or writes. *)
LEMMA ToldTarget ==
    ASSUME NEW q, Told(q), toTarget \in Seq(Byte), Target
    PROVE  Told(q)'
<1>1. (Getch \/ Putch) /\ UNCHANGED hostVars
  BY DEF Target
<1>2. hpc' = hpc /\ res' = res /\ sent' = sent
  BY <1>1 DEF hostVars
<1>3. Nothing => Nothing' /\ ran' = ran
  <2>1. CASE Getch
    BY <2>1, NothingStep
  <2>2. CASE Putch
    BY <2>2 DEF Putch, Nothing
  <2> QED BY <1>1, <2>1, <2>2
<1>4. (Own(q) => Own(q)') /\ (Nothing /\ CurRan(q) => CurRan(q)')
  BY <1>2, <1>3 DEF Own, CurRan
<1> QED BY <1>2, <1>3, <1>4 DEF Told

(* What CallLink sees of a request more. *)
LEMMA PlainsAppend ==
    ASSUME NEW R, NEW r, r \in Seq(R), NEW y
    PROVE  Plains(Append(r, y)) = Append(Plains(r), Plain(y))
<1> DEFINE Q == R \cup {y}
           P == {Plain(x) : x \in Q}
           u == Append(r, y)
           m == Len(r)
<1>1. y \in Q /\ r \in Seq(Q) /\ Plain(y) \in P
  <2>1. m \in Nat /\ r \in [1 .. m -> R]
    BY LenProperties
  <2>2. r \in [1 .. m -> Q]
    BY <2>1
  <2>3. y \in Q
    OBVIOUS
  <2> HIDE DEF Q
  <2> QED BY <2>1, <2>2, <2>3, SeqDef
<1> HIDE DEF Q
<1>2. /\ u \in Seq(Q) /\ Len(u) = m + 1 /\ u[m + 1] = y /\ \A k \in 1 .. m : u[k] = r[k]
  BY <1>1, AppendProperties
<1> HIDE DEF u
<1>3. /\ m \in Nat /\ Plains(r) \in Seq(P) /\ Len(Plains(r)) = m
      /\ \A k \in 1 .. m : Plains(r)[k] = Plain(r[k])
  BY <1>1, PlainsAt
<1>4. /\ Plains(u) \in Seq(P) /\ Len(Plains(u)) = m + 1
      /\ \A k \in 1 .. m + 1 : Plains(u)[k] = Plain(u[k])
  <2>1. /\ Plains(u) \in Seq(P) /\ Len(Plains(u)) = Len(u)
        /\ \A k \in 1 .. Len(u) : Plains(u)[k] = Plain(u[k])
    BY <1>2, PlainsAt
  <2> QED BY <1>2, <2>1
<1> HIDE DEF P, m
<1>5. PICK a, x, z : a = Plains(r) /\ x = Plain(y) /\ z = Append(a, x)
  OBVIOUS
<1>6. /\ z \in Seq(P) /\ Len(z) = m + 1 /\ z[m + 1] = x /\ \A k \in 1 .. m : z[k] = a[k]
  <2>1. a \in Seq(P) /\ x \in P /\ Len(a) = m
    BY <1>1, <1>3, <1>5
  <2>2. /\ Append(a, x) \in Seq(P) /\ Len(Append(a, x)) = Len(a) + 1
        /\ Append(a, x)[Len(a) + 1] = x /\ \A k \in 1 .. Len(a) : Append(a, x)[k] = a[k]
    BY ONLY <2>1, AppendProperties
  <2> QED BY <1>5, <2>1, <2>2
<1>7. ASSUME NEW k \in 1 .. m + 1 PROVE Plains(u)[k] = z[k]
  <2>1. CASE k = m + 1
    BY <1>2, <1>4, <1>5, <1>6, <1>7, <2>1
  <2>2. CASE k # m + 1
    <3>1. k \in 1 .. m
      BY ONLY <1>3, <1>7, <2>2
    <3> QED BY <1>2, <1>3, <1>4, <1>5, <1>6, <1>7, <3>1
  <2> QED BY <2>1, <2>2
<1>8. Plains(u) = z
  <2>1. PICK w : w = Plains(u)
    OBVIOUS
  <2>2. w \in Seq(P) /\ Len(w) = m + 1 /\ \A k \in 1 .. m + 1 : w[k] = z[k]
    BY <1>4, <1>7, <2>1
  <2>3. w = z
    BY ONLY <1>6, <2>2, SeqEqual
  <2> QED BY <2>1, <2>3
<1> QED BY <1>5, <1>8 DEF u

(* Its last element, and none. *)
LEMMA PlainsLast ==
    ASSUME NEW R, NEW r, r \in Seq(R)
    PROVE  /\ r # <<>> => Plains(r) # <<>> /\ Last(Plains(r)) = Plain(Last(r))
           /\ r = <<>> => Plains(r) = <<>>
<1> DEFINE P == {Plain(x) : x \in R}
<1>1. /\ Len(r) \in Nat /\ Plains(r) \in Seq(P) /\ Len(Plains(r)) = Len(r)
      /\ \A k \in 1 .. Len(r) : Plains(r)[k] = Plain(r[k])
  BY PlainsAt
<1> HIDE DEF P
<1>2. (r = <<>> <=> Len(r) = 0) /\ (Plains(r) = <<>> <=> Len(Plains(r)) = 0)
  BY <1>1, EmptySeq
<1>3. ASSUME Len(r) # 0 PROVE Last(Plains(r)) = Plain(Last(r))
  <2>1. Len(r) \in 1 .. Len(r)
    BY ONLY <1>1, <1>3
  <2> QED BY <1>1, <2>1 DEF Last
<1> QED BY <1>1, <1>2, <1>3

\* What the call returned, and what there may be doubt about, as CallLink sees it.
Returned ==
    [payload |-> IF hpc = "idle" /\ res.packet = RESPONSE THEN res.payload ELSE <<>>,
     code |-> IF hpc = "idle" /\ res.ack = SS_ERR_OK THEN res.ack ELSE None]

\* A call returns what the target answered to its own request.
HonestRest == faults = {} /\ Idle => Link!Honest(Returned)

\* All of what a clean line keeps.
LinkInv ==
    /\ CleanInv
    /\ Good /\ faults = {} => Sequel /\ \E q : q = cur /\ Told(q)

(* It holds at the start, and every step keeps it. *)
LEMMA LinkInductive ==
    ASSUME Prompt, Blocks, CutOff, Scattered
    PROVE  (Init => LinkInv) /\ (LinkInv /\ [Next]_vars => LinkInv')
<1>1. ASSUME Init PROVE LinkInv
  <2>1. CleanInv /\ Sequel
    BY <1>1, CleanInductive, SequelInit
  <2>2. Told(NoRequest) /\ cur = NoRequest
    <3>1. hpc \notin Busy /\ res.packet = None /\ res.ack # SS_ERR_OK /\ cur = NoRequest
      BY <1>1 DEF Init, Busy, NoResult, None, SS_ERR_OK
    <3> QED BY <3>1 DEF Told
  <2> QED BY <2>1, <2>2 DEF LinkInv
<1>2. ASSUME LinkInv, [Next]_vars PROVE LinkInv'
  <2>1. CleanInv /\ CleanInv'
    BY <1>2, CleanInductive DEF LinkInv
  <2>2. IInv /\ Recorded /\ Result /\ toTarget \in Seq(Byte)
    BY <2>1, HostBytes DEF CleanInv, Clean
  <2>3. ASSUME Good', faults' = {} PROVE Sequel' /\ \E q : q = cur' /\ Told(q)'
    <3>1. Good /\ faults = {} /\ ~Fault
      BY <1>2, <2>2, <2>3, GoodBack, FaultsBack
    <3>2. PICK q : q \in Writable /\ q = cur /\ Place(q)
      BY <2>1, <3>1 DEF CleanInv, Clean
    <3>3. Sequel /\ Told(q)
      BY <1>2, <3>1, <3>2 DEF LinkInv
    <3>4. CASE Call
      BY <2>2, <3>1, <3>2, <3>3, <3>4, SequelStep, ToldCall
    <3>5. CASE Host
      <4>1. cur' = cur
        BY <3>5 DEF Host, Con, ResetPoll, Flush, Connected, SendKey, FirstRead, FirstTimeout,
           ErrorByte, SecondRead, SecondTimeout, SecondRaises, ListAck, Rekey, ErrsRead,
           ErrsHeader, ErrsRest, Drain
      <4>2. Sequel' /\ Told(q)'
        BY <2>2, <3>1, <3>2, <3>3, <3>5, SequelStep, ToldHost
      <4> QED BY <3>2, <4>1, <4>2
    <3>6. CASE Target
      <4>1. cur' = cur
        BY <3>6 DEF Target, hostVars
      <4>2. Sequel' /\ Told(q)'
        BY <2>2, <3>1, <3>2, <3>3, <3>6, SequelStep, ToldTarget
      <4> QED BY <3>2, <4>1, <4>2
    <3>7. CASE UNCHANGED vars
      <4>1. UNCHANGED <<toTarget, data_buf, next_frame, tx, ran, sent, hpc, res, cur>>
        BY <3>7 DEF vars, channels, targetVars, hostVars
      <4>2. Sequel'
        BY <2>2, <3>3, <4>1, SequelReset
      <4>3. Told(q)'
        BY <2>2, <3>3, <4>1, ToldStays
      <4> QED BY <3>2, <4>1, <4>2, <4>3
    <3> QED BY <1>2, <3>1, <3>4, <3>5, <3>6, <3>7 DEF Next, Done
  <2> QED BY <2>1, <2>3 DEF LinkInv
<1> QED BY <1>1, <1>2

(* At rest what the call returned is its own. *)
LEMMA LinkRest == LinkInv => HonestRest
<1> SUFFICES ASSUME LinkInv, faults = {}, Idle PROVE Link!Honest(Returned)
  BY DEF HonestRest
<1>0. \A s : Link!Last(s) = Last(s)
  BY DEF Link!Last, Last
<1>1. hpc = "idle" /\ Good
  BY DEF Idle, Good
<1>2. PICK q : q = cur /\ Place(q)
  BY <1>1 DEF LinkInv, CleanInv, Clean
<1>3. Sequel /\ Told(q) /\ Recorded
  BY <1>1, <1>2 DEF LinkInv, CleanInv, Clean
<1>4. PICK R : ran \in Seq(R)
  BY <1>3 DEF Recorded
<1>5. sent \in Seq(AllRequests)
  BY <1>3 DEF Sequel
<1>6. ASSUME Own(q), CurRan(q)
      PROVE  Link!OwnRan /\ Last(Plains(sent)) = Plain(q)
  <2>1. PICK r, s : r = ran /\ s = sent
    OBVIOUS
  <2>2. r \in Seq(R) /\ s \in Seq(AllRequests) /\ r # <<>> /\ s # <<>>
    BY <1>4, <1>5, <1>6, <2>1 DEF Own, CurRan
  <2>3. /\ Plains(r) # <<>> /\ Last(Plains(r)) = Plain(Last(r))
        /\ Plains(s) # <<>> /\ Last(Plains(s)) = Plain(Last(s))
    BY ONLY <2>2, PlainsLast
  <2>4. Plain(Last(r)) = Plain(q) /\ Last(s) = q
    BY <1>6, <2>1 DEF Own, CurRan, Plain
  <2>5. /\ Plains(ran) # <<>> /\ Plains(sent) # <<>>
        /\ Last(Plains(ran)) = Plain(q) /\ Last(Plains(sent)) = Plain(q)
    BY <2>1, <2>3, <2>4
  <2> QED BY <1>0, <2>5 DEF Link!OwnRan, Plains
<1>7. Returned.code # None => Link!OwnRan
  <2>1. Returned.code # None => res.ack = SS_ERR_OK
    BY DEF Returned
  <2>2. res.ack = SS_ERR_OK => Own(q) /\ CurRan(q)
    BY <1>2, <1>3 DEF Told, Place
  <2> QED BY <1>6, <2>1, <2>2
<1>8. Returned.payload # <<>> =>
        Link!OwnRan /\ (Last(Plains(sent)).cmd = <<CMD_AES, 1>> =>
                          Returned.payload = Last(Plains(sent)).data)
  <2> SUFFICES ASSUME Returned.payload # <<>>
               PROVE  Link!OwnRan /\ (Last(Plains(sent)).cmd = <<CMD_AES, 1>> =>
                                        Returned.payload = Last(Plains(sent)).data)
    OBVIOUS
  <2>1. res.packet = RESPONSE /\ Returned.payload = res.payload
    BY DEF Returned
  <2>2. /\ q \in AllRequests /\ q.call \notin {"key", "bad"} /\ Own(q) /\ CurRan(q)
        /\ res.payload = DataOf(q)
    BY <1>3, <2>1 DEF Told, RESPONSE, None
  <2>3. Link!OwnRan /\ Last(Plains(sent)) = Plain(q)
    BY <1>6, <2>2
  <2>4. Plain(q).cmd = <<CMD_AES, 1>> => DataOf(q) = Plain(q).data
    <3>1. CASE q.call = "list"
      <4>1. q.cmd = CMD_COMMANDS /\ CMD_COMMANDS # CMD_AES
        BY <2>2, <3>1 DEF AllRequests, CMD_COMMANDS, CMD_AES
      <4> QED BY <4>1 DEF Plain
    <3>2. CASE q.call # "list"
      BY <3>2 DEF DataOf, Plain
    <3> QED BY <3>1, <3>2
  <2> QED BY <2>1, <2>2, <2>3, <2>4
<1> QED BY <1>0, <1>7, <1>8 DEF Link!Honest, Plains

(* A request is written, as CallLink has it. *)
LEMMA LinkWrites ==
    ASSUME sent \in Seq(AllRequests), NEW q \in AllRequests, sent' = Append(sent, q)
    PROVE  Link!Write
<1>1. PICK s, t : s = sent /\ t = Append(s, q)
  OBVIOUS
<1>2. s \in Seq(AllRequests)
  BY <1>1
<1>3. Plains(Append(s, q)) = Append(Plains(s), Plain(q))
  BY ONLY <1>2, PlainsAppend
<1>4. Plains(t) = Append(Plains(s), Plain(q)) /\ sent' = t /\ sent = s
  BY <1>1, <1>3
<1>5. Plain(q) \in {Plain(x) : x \in AllRequests}
  OBVIOUS
<1> QED BY <1>4, <1>5 DEF Link!Write, Plains

(* A call in progress has returned nothing yet, nor has one that just begins. *)
LEMMA LinkNil ==
    /\ hpc # "idle" \/ res = NoResult => Returned = Link!Nil
    /\ hpc' # "idle" \/ res' = NoResult => Returned' = Link!Nil
BY DEF Returned, Link!Nil, NoResult, None, RESPONSE, SS_ERR_OK

(* The user's next call, and the request that set_key writes later. *)
LEMMA LinkCall ==
    ASSUME sent \in Seq(AllRequests), Call \/ SendKey,
           SendKey => cur \in AllRequests
    PROVE  Link!Next
<1>1. (Returned' = Link!Nil) /\ ran' = ran
  BY LinkNil DEF Call, SendKey, ReadCmd, targetVars
<1>2. CASE SendKey
  <2>1. hpc # "idle" /\ sent' = Append(sent, cur) /\ cur \in AllRequests
    BY <1>2 DEF SendKey, Write
  <2>2. Link!Write
    BY <2>1, LinkWrites
  <2>3. Link!Send
    BY <1>1, <2>1, <2>2 DEF Link!Send, Returned
  <2> QED BY <2>3 DEF Link!Next
<1>3. CASE Call
  <2>1. PICK q : /\ q \in Requests
                 /\ \/ CallEncrypt(q) \/ CallWithErrors(q) \/ CallUnknown(q)
                    \/ CallCommands(q) \/ CallSetKey(q)
    BY <1>3 DEF Call
  <2>2. q \in AllRequests /\ hpc = "idle"
    BY <1>3, <2>1 DEF Requests, Call
  <2>3. CASE CallEncrypt(q) \/ CallWithErrors(q) \/ CallUnknown(q) \/ CallCommands(q)
    <3>1. sent' = Append(sent, q) /\ hpc' # "idle"
      BY <2>3 DEF CallEncrypt, CallWithErrors, CallUnknown, CallCommands, Write, ReadCmd,
         WithErrors
    <3>2. Link!Write
      BY <2>2, <3>1, LinkWrites
    <3> QED BY <1>1, <2>2, <3>1, <3>2 DEF Link!Begin, Link!Next, Returned
  <2>4. CASE CallSetKey(q)
    <3>1. sent' = sent
      BY <2>4 DEF CallSetKey
    <3> QED BY <1>1, <2>2, <3>1 DEF Link!Begin, Link!Next, Returned
  <2> QED BY <2>1, <2>3, <2>4
<1> QED BY <1>2, <1>3

(* The target runs the request that was sent last, or nothing. *)
LEMMA LinkRun ==
    ASSUME Blocks, Scattered, Recorded, Sequel, toTarget \in Seq(Byte), Target
    PROVE  Link!Next
<1>1. (Getch \/ Putch) /\ hpc' = hpc /\ res' = res /\ sent' = sent
  BY DEF Target, hostVars
<1>2. CASE ran' = ran
  BY <1>1, <1>2 DEF Link!Next
<1>3. CASE Getch /\ ran' # ran
  <2>1. PICK q \in AllRequests, s \in Seq(AllRequests) :
          /\ sent = Append(s, q)
          /\ ran' = Append(ran, [cmd |-> q.cmd, scmd |-> q.scmd, data |-> q.data])
          /\ Ordered(ran', sent')
    BY <1>1, <1>3, SequelGetch
  <2>3. PICK R : ran \in Seq(R)
    BY DEF Recorded
  <2>4. PICK r, y, t, n, u : /\ r = ran /\ t = sent /\ n = Len(t) /\ u = ran'
                             /\ y = [cmd |-> q.cmd, scmd |-> q.scmd, data |-> q.data]
    OBVIOUS
  <2>5. r \in Seq(R) /\ t = Append(s, q) /\ u = Append(r, y) /\ Plain(y) = Plain(q)
    BY <2>1, <2>3, <2>4 DEF Plain
  <2>6. t \in Seq(AllRequests) /\ n \in 1 .. n /\ t[n] = q
    <3>1. /\ Append(s, q) \in Seq(AllRequests) /\ Len(Append(s, q)) = Len(s) + 1
          /\ Append(s, q)[Len(s) + 1] = q
      BY AppendProperties
    <3>2. Len(s) \in Nat
      BY LenProperties
    <3>3. n = Len(s) + 1
      BY <2>4, <2>5, <3>1
    <3>4. n \in 1 .. n
      BY ONLY <3>2, <3>3
    <3> QED BY <2>5, <3>1, <3>3, <3>4
  <2>7. n \in DOMAIN Plains(t) /\ Plains(t)[n] = Plain(q)
    <3>1. DOMAIN Plains(t) = 1 .. Len(t) /\ \A k \in 1 .. Len(t) : Plains(t)[k] = Plain(t[k])
      BY <2>6, PlainsAt
    <3> QED BY <2>4, <2>6, <3>1
  <2>8. Plains(u) = Append(Plains(r), Plains(t)[n])
    <3>1. Plains(Append(r, y)) = Append(Plains(r), Plain(y))
      BY <2>5, PlainsAppend
    <3> QED BY <2>5, <2>7, <3>1
  <2>9. Link!Embeds(Plains(u), Plains(t))
    BY <1>1, <2>1, <2>4 DEF Ordered
  <2>10. \E k \in DOMAIN Plains(t) : Plains(u) = Append(Plains(r), Plains(t)[k])
    BY <2>7, <2>8
  <2>11. t = sent /\ sent' = t /\ u = ran' /\ r = ran
    BY <1>1, <2>4
  <2>12. Link!Run
    BY <1>1, <2>9, <2>10, <2>11 DEF Link!Run, Plains
  <2> QED BY <2>12 DEF Link!Next
<1>4. Putch => ran' = ran
  BY DEF Putch
<1> QED BY <1>1, <1>2, <1>3, <1>4

(* A call goes on, or returns. *)
LEMMA LinkReturn ==
    ASSUME Host, ~SendKey, HonestRest', faults' = {}
    PROVE  Link!Next
<1>1. ran' = ran /\ sent' = sent
  BY HostLine
<1>2. hpc # "idle"
  BY DEF Host, Con, ResetPoll, Flush, Connected, FirstRead, FirstTimeout,
     ErrorByte, SecondRead, SecondTimeout, SecondRaises, ListAck, Rekey,
     ErrsRead, ErrsHeader, ErrsRest, Drain
<1>3. CASE hpc' # "idle"
  <2>1. Returned' = Returned
    BY <1>2, <1>3, LinkNil
  <2> QED BY <1>1, <1>2, <1>3, <2>1 DEF Link!Next, Returned
<1>4. CASE hpc' = "idle"
  <2>1. ~flush_on_err' \/ Link!Honest(Returned)'
    BY <1>4 DEF HonestRest, Idle
  <2>2. Link!Return
    BY <1>1, <1>2, <1>4, <2>1 DEF Link!Return, Link!Honest, Link!OwnRan, Returned
  <2> QED BY <2>2 DEF Link!Next
<1> QED BY <1>3, <1>4

(* Every step on a clean line is one of CallLink, or none. *)
LEMMA LinkStep ==
    ASSUME Blocks, Scattered, LinkInv, HonestRest', [Next]_vars, faults' = {}, Good'
    PROVE  Link!Next
<1>1. IInv /\ Recorded /\ toTarget \in Seq(Byte)
  BY HostBytes DEF LinkInv, CleanInv, Clean
<1>2. Good /\ faults = {} /\ ~Fault
  BY <1>1, GoodBack, FaultsBack
<1>3. Sequel /\ sent \in Seq(AllRequests)
  BY <1>2 DEF LinkInv, Sequel
<1>4. CASE Call
  BY <1>3, <1>4, LinkCall DEF Call, SendKey
<1>5. CASE SendKey
  <2>1. PICK q : q \in Writable /\ q = cur /\ Place(q)
    BY <1>2 DEF LinkInv, CleanInv, Clean
  <2>2. q.call = "key"
    BY <1>5, <2>1 DEF SendKey, Place
  <2>3. cur \in AllRequests
    BY <2>1, <2>2 DEF Writable, NoRequest
  <2> QED BY <1>3, <1>5, <2>3, LinkCall
<1>6. CASE Host /\ ~SendKey
  BY <1>6, LinkReturn
<1>7. CASE Target
  BY <1>1, <1>3, <1>7, LinkRun
<1>8. CASE UNCHANGED vars
  <2>1. UNCHANGED <<hpc, sent, ran, res>>
    BY <1>8 DEF vars, targetVars, hostVars
  <2> QED BY <2>1 DEF Link!Next
<1> QED BY <1>2, <1>4, <1>5, <1>6, <1>7, <1>8 DEF Next, Done

(* At the start. *)
LEMMA LinkInit == Init => Link!Init
<1> SUFFICES ASSUME Init PROVE Link!Init
  OBVIOUS
<1>1. hpc = "con" /\ sent = <<>> /\ ran = <<>> /\ res = NoResult
  BY DEF Init, TargetInit
<1>2. Plains(sent) = <<>> /\ Plains(ran) = <<>>
  <2>1. PICK s : s = <<>>
    OBVIOUS
  <2>2. s \in Seq({}) /\ s = <<>>
    BY <2>1, EmptySeq
  <2>3. Plains(s) = <<>>
    BY <2>2, PlainsLast
  <2> QED BY <1>1, <2>1, <2>3
<1>3. Returned = Link!Nil
  BY <1>1, LinkNil
<1> QED BY <1>1, <1>2, <1>3 DEF Link!Init, Plains, Returned

(* The promise of CallLink: as long as the line loses and garbles nothing    *)
(* and errors are flushed, whatever the target takes for a timeout, what     *)
(* runs was sent, in order and once, and a call returns the payload and the  *)
(* code that the target answered to its own request.  What an earlier        *)
(* session left on the way is a command cut off; what is sent are blocks.    *)
THEOREM CleanPromise ==
    ASSUME Prompt, Blocks, CutOff, Scattered
    PROVE  Spec => Link!Init /\ [][faults' = {} /\ Good' => Link!Next]_vars
<1>1. (Init => LinkInv) /\ (LinkInv /\ [Next]_vars => LinkInv')
  BY LinkInductive
<1>2. LinkInv /\ HonestRest' /\ [Next]_vars => (faults' = {} /\ Good' => Link!Next)
  BY LinkStep
<1>3. LinkInv => HonestRest
  BY LinkRest
<1>4. Init => Link!Init
  BY LinkInit
<1> QED BY <1>1, <1>2, <1>3, <1>4, PTL DEF Spec
=============================================================================
