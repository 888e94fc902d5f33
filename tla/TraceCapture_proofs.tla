------------------------- MODULE TraceCapture_proofs -------------------------
(***************************************************************************)
(* Proofs about TraceCapture: for any program, plaintexts, keys, faults    *)
(* and interruptions, a trace shows the operation of its own plaintext     *)
(* with the response of that operation, unless the target was still busy   *)
(* when the scope was armed, and the key of the trace is the one the       *)
(* target used, if its acknowledgement was seen.                           *)
(***************************************************************************)
EXTENDS TraceCapture, SSv1Link_proofs

(* How far a call has come on both sides: the steps of capture_trace and the *)
(* points of the link.                                                       *)
Control ==
    /\ step \in {"idle", "key", "arm", "write", "read"}
    /\ hpc \in {"con", "conflush"} => step = "idle" /\ trace.out = "none" /\ held = <<>>
    /\ step = "idle" => hpc \in {"con", "conflush", "idle"}
    /\ step # "idle" \/ trace.out = "trace" => calls >= 1
    /\ step = "key" =>
         /\ hpc \in {"flush", "write", "ack", "idle"}
         /\ key \in Keys /\ key = last_key
         /\ cur.data = key /\ cur.call = "key" /\ line = CMD_KEY
    /\ step = "arm" => hpc = "idle"
    /\ step \in {"write", "read"} => cur.data = Plaintext /\ cur.call = "pt" /\ line = CMD_PT
    /\ step = "write" => hpc \in {"flush", "write", "read"}
    /\ step = "read" => hpc \in {"read", "ack", "idle"}

(* The plaintext is the last the target has run, and it reads nothing more. *)
Shown(p) ==
    /\ toTarget = <<>> /\ cmd = 0
    /\ ran # <<>> /\ Last(ran) = [cmd |-> CMD_PT, data |-> p]

(* From the arming of an idle target to the trace: the plaintext is the only *)
(* line on its way, and the first trigger the armed scope hears is its own.  *)
Fresh(p) ==
    /\ step = "write" /\ hpc = "flush" => Quiet /\ scope = "armed" /\ shot = 0
    /\ step = "write" /\ hpc = "write" => Quiet /\ toHost = <<>> /\ scope = "armed" /\ shot = 0
    /\ step = "write" /\ hpc = "read" =>
         /\ Asked(CMD_PT, p) /\ pay_len = Len(p)
         /\ \/ scope = "armed" /\ shot = 0
            \/ scope = "triggered" /\ Answered(CMD_PT, p) /\ shot = Len(ran)
    /\ step = "read" =>
         /\ Shown(p) /\ wave = Len(ran)
         /\ hpc = "read" => Answered(CMD_PT, p) /\ pay_len = Len(p)
         /\ hpc = "ack" => payload = p
         /\ hpc = "idle" => res.payload \in {<<>>, p}
    /\ Returned => Shown(p) /\ trace.wave = Len(ran) /\ trace.response \in {<<>>, p}

(* The key is the last the target has run, and none is on its way. *)
KeyRan(k) ==
    \E m \in DOMAIN ran :
        /\ ran[m] = [cmd |-> CMD_KEY, data |-> k]
        /\ \A j \in m + 1 .. Len(ran) : ran[j].cmd # CMD_KEY
NoKey ==
    /\ \A j \in DOMAIN toTarget : toTarget[j] # CMD_KEY
    /\ cmd # 0 => commands[cmd].c # CMD_KEY

(* The key held is the one of the last acknowledgement that was the line's. *)
KeyInv ==
    /\ held # <<>> => /\ held = key /\ held = last_key /\ step # "key"
                      /\ NoKey /\ KeyRan(held)
    /\ step = "key" /\ ~late =>
         /\ hpc = "write" => Quiet /\ toHost = <<>>
         /\ hpc = "ack" => Asked(CMD_KEY, key)
         /\ hpc = "idle" /\ res.out = "acked" => NoKey /\ KeyRan(key)

LinkInv == IInv /\ Types /\ RanTypes
TraceInv == LinkInv /\ Control /\ (~stale => Fresh(Plaintext)) /\ KeyInv

-----------------------------------------------------------------------------
(* What is sent.                                                             *)

(* Plaintexts and keys have letters of their own, which take no length. *)
LEMMA TraceLetters ==
    /\ Bare(CMD_PT) /\ Bare(CMD_KEY) /\ CMD_PT # CMD_KEY /\ CMD_MULTI # CMD_KEY
    /\ CMD_PT \notin {CMD_COUNT, CMD_COMMANDS} /\ CMD_KEY \notin {CMD_COUNT, CMD_COMMANDS}
BY DEF Bare, Byte, IsHex, NL, CR, CMD_MASK, CMD_PT, CMD_KEY, CMD_MULTI, CMD_COUNT, CMD_COMMANDS

(* A plaintext or a key fits a line, and no command called by a digit takes  *)
(* less than it has.                                                         *)
LEMMA BlockFits ==
    ASSUME NEW d \in Range(Plaintexts) \cup Keys
    PROVE  d \in Seq(Byte) /\ Len(d) <= 64 /\ Long(d)
<1>1. d \in Seq(Byte)
  BY LinkAssumption DEF Range
<1>2. Len(d) <= 64
  BY FitsAssumption
<1>3. Long(d)
  BY LettersAssumption DEF Long
<1> QED BY <1>1, <1>2, <1>3

(* A plaintext fits a line, and no shorter command is made of its digits. *)
LEMMA PlaintextFits ==
    ASSUME calls \in 0 .. MaxCalls, calls >= 1
    PROVE  Plaintext \in Seq(Byte) /\ Len(Plaintext) <= 64 /\ Long(Plaintext)
<1>1. calls \in DOMAIN Plaintexts
  <2>1. Plaintexts \in Seq(Seq(Byte)) /\ Len(Plaintexts) >= MaxCalls /\ MaxCalls \in Nat
    BY LinkAssumption
  <2>2. DOMAIN Plaintexts = 1 .. Len(Plaintexts) /\ Len(Plaintexts) \in Nat
    BY <2>1
  <2> QED BY <2>1, <2>2
<1>2. Plaintext \in Range(Plaintexts)
  BY <1>1 DEF Plaintext, Range
<1> QED BY <1>2, BlockFits

-----------------------------------------------------------------------------
(* The link keeps its own invariants, whoever calls.                         *)

(* The steps of capture_trace that only set what the host holds. *)
LEMMA HostSets ==
    ASSUME LinkInv, UNCHANGED <<channels, targetVars, pay_len, payload, faults, hit>>,
           cur'.data \in Seq(Byte), Len(cur'.data) <= 64, line' \in Byte,
           hpc' \in Points \ {"con"}, last_key' \in Seq(Byte), calls' \in 0 .. MaxCalls
    PROVE  LinkInv'
<1>1. UNCHANGED <<toTarget, toHost, commands, cmd, lenBuf, ascii_buf, tx, ran>>
  BY DEF channels, targetVars, lineVars
<1>2. IInv'
  <2>1. Table' /\ LineTypes'
    BY <1>1 DEF LinkInv, IInv, Table, LineTypes
  <2>2. Request'
    BY LinkAssumption DEF Request, Byte
  <2>3. ~hit' => Ends'
    BY <1>1 DEF LinkInv, IInv, Ends, Guarded, InLength
  <2> QED BY <2>1, <2>2, <2>3 DEF IInv
<1>3. Types'
  <2>1. Bytes' /\ TableBytes' /\ Filled'
    BY <1>1 DEF LinkInv, Types, Bytes, TableBytes, Filled, ReadsLength
  <2>2. HostTypes'
    BY DEF LinkInv, Types, HostTypes
  <2> QED BY <2>1, <2>2 DEF Types
<1>4. RanTypes'
  BY <1>1 DEF LinkInv, RanTypes
<1> QED BY <1>2, <1>3, <1>4 DEF LinkInv

(* A step of the link keeps what is known of the link. *)
LEMMA LinkKeeps ==
    ASSUME LinkInv, [Next]_vars
    PROVE  LinkInv'
BY Inductive, TypesInductive, RanGrows DEF LinkInv

(* It holds at the start. *)
LEMMA StartLink == Init => LinkInv
<1> SUFFICES ASSUME Init PROVE LinkInv
  OBVIOUS
<1>1. RanTypes
  BY EmptySeq DEF Init, TargetInit, RanTypes
<1> QED BY <1>1, Initially, InitialTypes DEF LinkInv

(* Each step is one of the link, or sets only what the host holds. *)
LEMMA LinkInductive ==
    ASSUME LinkInv, Control, [TraceNext]_allVars
    PROVE  LinkInv'
<1>0. /\ calls \in 0 .. MaxCalls /\ hpc \in Points /\ last_key \in Seq(Byte)
      /\ cur.data \in Seq(Byte) /\ Len(cur.data) <= 64 /\ line \in Byte
  BY DEF LinkInv, IInv, Request, Types, HostTypes
<1>0a. CMD_KEY \in Byte /\ CMD_PT \in Byte
  BY TraceLetters DEF Bare
<1>0b. "idle" \in Points \ {"con"} /\ "flush" \in Points \ {"con"}
  BY DEF Points
<1>1. CASE CaptureTrace
  <2>1. PICK k \in Keys :
          \/ last_key' = k /\ Begin("key", CMD_KEY, k)
          \/ UNCHANGED <<last_key, cur, line, hpc>>
    BY <1>1 DEF CaptureTrace
  <2>2. k \in Seq(Byte) /\ Len(k) <= 64
    BY BlockFits
  <2>3. calls' \in 0 .. MaxCalls
    BY <1>0, <1>1, LinkAssumption DEF CaptureTrace
  <2>4. /\ cur'.data \in Seq(Byte) /\ Len(cur'.data) <= 64 /\ line' \in Byte
        /\ hpc' \in Points \ {"con"} /\ last_key' \in Seq(Byte)
    BY <1>0, <1>0a, <1>0b, <1>1, <2>1, <2>2 DEF Begin, CaptureTrace
  <2>5. UNCHANGED <<channels, targetVars, pay_len, payload, faults, hit>>
    BY <1>1 DEF CaptureTrace, LinkRest
  <2> QED BY <2>3, <2>4, <2>5, HostSets
<1>2. CASE Arm
  <2>1. /\ cur'.data = Plaintext /\ line' = CMD_PT /\ hpc' = "flush"
        /\ UNCHANGED <<last_key, calls>>
    BY <1>2 DEF Arm, Begin
  <2>2. UNCHANGED <<channels, targetVars, pay_len, payload, faults, hit>>
    BY <1>2 DEF Arm, LinkRest
  <2>3. Plaintext \in Seq(Byte) /\ Len(Plaintext) <= 64
    BY <1>0, <1>2, PlaintextFits DEF Arm, Control
  <2> QED BY <1>0, <1>0a, <1>0b, <2>1, <2>2, <2>3, HostSets
<1>3. CASE TimedOut \/ Interrupt
  <2>1. /\ hpc' = "idle"
        /\ UNCHANGED <<channels, targetVars, cur, line, pay_len, payload, last_key, calls,
                       faults, hit>>
    BY <1>3 DEF TimedOut, Interrupt, history
  <2> QED BY <1>0, <1>0b, <2>1, HostSets
<1>4. CASE KeySent \/ Captured \/ TraceDone \/ LinkStep \/ TargetStep \/ FaultStep \/ TraceEnd
           \/ UNCHANGED allVars
  <2>1. [Next]_vars
    BY <1>4 DEF KeySent, Captured, TraceDone, LinkStep, TargetStep, FaultStep, TraceEnd, allVars,
                Next, Host
  <2> QED BY <2>1, LinkKeeps
<1> QED BY <1>1, <1>2, <1>3, <1>4 DEF TraceNext, CallSteps

-----------------------------------------------------------------------------
(* Control.                                                                  *)

(* The steps of the trace and the points of the link stay together. *)
LEMMA ControlInductive ==
    ASSUME LinkInv, Control, [TraceNext]_allVars
    PROVE  Control'
<1>0. calls \in 0 .. MaxCalls /\ calls \in Int
  BY LinkAssumption DEF LinkInv, Types, HostTypes
<1>1. CASE CaptureTrace
  <2>1. PICK k \in Keys :
          /\ key' = k
          /\ \/ last_key' = k /\ Begin("key", CMD_KEY, k) /\ step' = "key"
             \/ step' = "arm" /\ hpc' = hpc
    BY <1>1 DEF CaptureTrace
  <2>2. hpc = "idle" /\ calls' = calls + 1 /\ calls' >= 1
    BY <1>0, <1>1 DEF CaptureTrace
  <2> QED BY <2>1, <2>2 DEF Control, Begin
<1>2. CASE KeySent
  <2>1. /\ UNCHANGED <<vars, key>> /\ step = "key" /\ hpc = "idle"
        /\ step' \in {"arm", "idle"}
    BY <1>2 DEF KeySent
  <2>2. UNCHANGED <<hpc, calls>>
    BY <2>1 DEF vars, hostVars
  <2>3. calls >= 1
    BY <2>1 DEF Control
  <2> QED BY <2>1, <2>2, <2>3 DEF Control
<1>3. CASE Arm
  <2>1. /\ step = "arm" /\ step' = "write" /\ UNCHANGED <<calls, trace>>
        /\ cur' = [call |-> "pt", cmd |-> CMD_PT, data |-> Plaintext]
        /\ line' = CMD_PT /\ hpc' = "flush"
    BY <1>3 DEF Arm, Begin
  <2>2. Plaintext' = Plaintext
    BY <2>1 DEF Plaintext
  <2> QED BY <2>1, <2>2 DEF Control
<1>4. CASE LinkStep
  <2>1. UNCHANGED <<step, key, trace, held>>
    BY <1>4 DEF LinkStep, traceVars
  <2>2. /\ UNCHANGED <<cur, calls, last_key>>
        /\ \/ hpc = "con" /\ hpc' = "conflush"
           \/ hpc = "conflush" /\ hpc' = "idle"
           \/ hpc = "flush" /\ hpc' = "write" /\ line' = line
           \/ hpc = "write" /\ cur.call = "pt" /\ hpc' = "read" /\ line' = line
           \/ hpc = "write" /\ cur.call = "key" /\ hpc' = "ack" /\ line' = line
           \/ hpc = "write" /\ cur.call \notin {"pt", "key"}
           \/ /\ step = "read" /\ hpc = "read"
              /\ \/ hpc' = "ack" /\ line' = line
                 \/ cur.call # "list" => hpc' = "idle" /\ line' = line
           \/ hpc = "ack" /\ (cur.call # "list" => hpc' = "idle" /\ line' = line)
    <3>1. CASE Con
      BY <3>1 DEF Con
    <3>2. CASE ConFlush
      BY <3>2 DEF ConFlush
    <3>3. CASE Flush
      BY <3>3 DEF Flush
    <3>4. CASE Write
      BY <3>4 DEF Write
    <3>5. CASE WaitAck
      BY <3>5 DEF WaitAck, Give
    <3>6. CASE step = "read" /\ Read
      BY <3>6 DEF Read, Give
    <3> QED BY <1>4, <3>1, <3>2, <3>3, <3>4, <3>5, <3>6 DEF LinkStep
  <2>3. Plaintext' = Plaintext
    BY <2>2 DEF Plaintext
  <2> QED BY <2>1, <2>2, <2>3 DEF Control
<1>5. CASE Captured \/ TraceDone
  <2>1. /\ UNCHANGED <<vars, key, held>>
        /\ \/ step = "write" /\ hpc = "read" /\ step' = "read" /\ trace' = trace
           \/ step = "read" /\ hpc = "idle" /\ step' = "idle"
    BY <1>5 DEF Captured, TraceDone
  <2>2. UNCHANGED <<hpc, cur, calls, line>> /\ Plaintext' = Plaintext
    BY <2>1 DEF vars, hostVars, Plaintext
  <2> QED BY <2>1, <2>2 DEF Control
<1>6. CASE TimedOut \/ Interrupt
  <2>1. /\ step' = "idle" /\ hpc' = "idle" /\ trace'.out # "trace"
    BY <1>6 DEF TimedOut, Interrupt, NoTrace, RaisedTrace
  <2> QED BY <2>1 DEF Control
<1>7. CASE TargetStep \/ FaultStep \/ TraceEnd \/ UNCHANGED allVars
  <2>1. UNCHANGED <<step, key, trace, held, hpc, cur, line, last_key, calls>>
    BY <1>7 DEF TargetStep, Target, FaultStep, Fault, TraceEnd, Done, allVars, traceVars, vars,
                hostVars
  <2>2. Plaintext' = Plaintext
    BY <2>1 DEF Plaintext
  <2> QED BY <2>1, <2>2 DEF Control
<1> QED BY <1>1, <1>2, <1>3, <1>4, <1>5, <1>6, <1>7 DEF TraceNext, CallSteps

-----------------------------------------------------------------------------
(* The wave and the response.                                                *)

(* What is put for a plaintext, and its code. *)
LEMMA PlaintextSaid ==
    ASSUME NEW p, Answered(CMD_PT, p)
    PROVE  Heard(Put(RESPONSE, p) \o Put(ACK, <<0>>))
<1>1. Last(ran) = [cmd |-> CMD_PT, data |-> p] /\ Heard(Said)
  BY DEF Answered
<1>2. Said = Answer(CMD_PT, p) \o Put(ACK, <<Code(CMD_PT)>>)
  BY <1>1 DEF Said
<1>3. Answer(CMD_PT, p) = Put(RESPONSE, p)
  BY DEF Answer, CMD_COUNT, CMD_COMMANDS, CMD_PT
<1>4. Code(CMD_PT) = 0
  BY DEF Code, CMD_PT, CMD_VERSION
<1> QED BY <1>1, <1>2, <1>3, <1>4

(* A command that runs has something to put. *)
LEMMA RunPuts ==
    ASSUME LinkInv, Getch, ran' # ran
    PROVE  tx' # <<>>
<1>1. cmd # 0 /\ Run
  BY GetchRan DEF LinkInv, IInv, Types
<1> DEFINE c == commands[cmd].c
           data == hex_decode(ascii_buf)
<1>2. c \in Byte /\ data \in Seq(Byte)
  <2>1. commands[cmd].c \in Byte
    BY <1>1 DEF LinkInv, IInv, LineTypes, Types, TableBytes
  <2>2. ran' = Append(ran, [cmd |-> c, data |-> data])
    BY <1>1 DEF Run
  <2>3. RanTypes' /\ RanTypes
    BY GetchRan DEF LinkInv, IInv, Types
  <2> DEFINE q == [cmd |-> c, data |-> data]
  <2>4. q.data \in Seq(Byte)
    <3>1. ran' = Append(ran, q) /\ ran \in Seq([cmd : Byte, data : Seq(Byte)])
          /\ ran' \in Seq([cmd : Byte, data : Seq(Byte)])
      BY <2>2, <2>3 DEF RanTypes
    <3> HIDE DEF q
    <3>2. Len(ran') = Len(ran) + 1 /\ ran'[Len(ran) + 1] = q /\ Len(ran) \in Nat
      BY <3>1
    <3>3. q \in [cmd : Byte, data : Seq(Byte)]
      BY <3>1, <3>2
    <3> QED BY <3>3
  <2> QED BY <2>1, <2>4
<1>3. tx' = Answer(c, data) \o Put(ACK, <<Code(c)>>)
  BY <1>1 DEF Run
<1>4. /\ Put(ACK, <<Code(c)>>) \in Seq(Byte) /\ Len(Put(ACK, <<Code(c)>>)) = 4
      /\ Answer(c, data) \in Seq(Byte)
  <2>1. ACK \in Byte /\ <<Code(c)>> \in Seq(Byte) /\ Len(<<Code(c)>>) = 1
    BY DEF ACK, Byte, Code, SS_VER_1_1
  <2>2. Len(Put(ACK, <<Code(c)>>)) = 2 * Len(<<Code(c)>>) + 2
        /\ Put(ACK, <<Code(c)>>) \in Seq(Byte)
    BY <2>1, PutShape
  <2>3. Answer(c, data) \in Seq(Byte)
    BY <1>2, AnswerBytes DEF LinkInv, Types
  <2> QED BY <2>1, <2>2, <2>3
<1> DEFINE a == Answer(c, data)
           b == Put(ACK, <<Code(c)>>)
<1> HIDE DEF a, b
<1>5. Len(a \o b) = Len(a) + Len(b) /\ Len(a) \in Nat /\ Len(b) = 4
  BY <1>4 DEF a, b
<1>6. a \o b # <<>>
  BY <1>5
<1> QED BY <1>3, <1>6 DEF a, b

(* A call begins, or goes on to the arming: there is no trace yet. *)
LEMMA FreshBegins ==
    ASSUME CaptureTrace \/ KeySent \/ TimedOut \/ Interrupt, Control,
           ~stale => Fresh(Plaintext)
    PROVE  ~stale' => Fresh(Plaintext)'
<1>1. step' \in {"idle", "key", "arm"}
  BY DEF CaptureTrace, KeySent, TimedOut, Interrupt
<1>2. ~Returned'
  <2>1. NoTrace.out # "trace" /\ RaisedTrace.out # "trace"
    BY DEF NoTrace, RaisedTrace
  <2> QED BY <2>1 DEF CaptureTrace, KeySent, TimedOut, Interrupt, Returned
<1> QED BY <1>1, <1>2 DEF Fresh

(* The scope is armed. *)
LEMMA FreshArm ==
    ASSUME Arm
    PROVE  ~stale' => Fresh(Plaintext)'
<1>1. /\ step' = "write" /\ hpc' = "flush" /\ scope' = "armed" /\ stale' = (~Quiet \/ shot # 0) /\ shot' = shot
      /\ UNCHANGED <<toTarget, tx>>
  BY DEF Arm, Begin, LinkRest, channels, targetVars
<1>2. ~Returned'
  BY <1>1 DEF Returned
<1> QED BY <1>1, <1>2 DEF Fresh, Quiet

(* The steps of the link. *)
LEMMA FreshLink ==
    ASSUME LinkInv, Control, NEW p \in Seq(Byte), p = Plaintext, Fresh(p), LinkStep
    PROVE  Fresh(p)'
<1>0. UNCHANGED <<step, scope, shot, wave, trace, held, stale>>
  BY DEF LinkStep, traceVars
<1>1. CASE Con \/ ConFlush
  <2>1. step = "idle" /\ trace.out = "none"
    BY <1>1 DEF Con, ConFlush, Control
  <2> QED BY <1>0, <2>1 DEF Fresh, Returned
<1>2. CASE Flush
  <2>1. hpc = "flush" /\ hpc' = "write" /\ toHost' = <<>> /\ UNCHANGED <<toTarget, tx>>
    BY <1>2 DEF Flush, targetVars
  <2>2. step \in {"key", "write"}
    BY <2>1 DEF Control
  <2> QED BY <1>0, <2>1, <2>2 DEF Fresh, Quiet, Returned
<1>3. CASE Write
  <2>1. hpc = "write" /\ step \in {"key", "write"}
    BY <1>3 DEF Write, Control
  <2>2. CASE step = "key"
    BY <1>0, <2>2 DEF Fresh, Returned
  <2>3. CASE step = "write"
    <3>1. cur.data = p /\ cur.call = "pt" /\ line = CMD_PT
      BY <2>3 DEF Control
    <3>2. Quiet /\ toHost = <<>> /\ scope = "armed" /\ shot = 0
      BY <2>1, <2>3 DEF Fresh
    <3>3. hpc' = "read" /\ UNCHANGED <<line, cur>>
      BY <1>3, <3>1 DEF Write
    <3>4. pay_len' = Len(p)
      BY <1>3, <3>1, TraceLetters DEF Write
    <3>5. Reading(CMD_PT, p)'
      BY <1>3, <3>1, <3>2, <3>3, WritesAsked, TraceLetters
    <3> QED BY <1>0, <2>3, <3>2, <3>3, <3>4, <3>5 DEF Fresh, Returned, Asked
  <2> QED BY <2>1, <2>2, <2>3
<1>4. CASE WaitAck
  <2>1. hpc = "ack" /\ step \in {"key", "read"}
    BY <1>4 DEF WaitAck, Control
  <2>2. CASE step = "key"
    BY <1>0, <2>2 DEF Fresh, Returned
  <2>3. CASE step = "read"
    <3>1. cur.call = "pt" /\ payload = p /\ Shown(p) /\ wave = Len(ran)
      BY <2>1, <2>3 DEF Control, Fresh
    <3>2. hpc' = "idle" /\ res'.payload \in {<<>>, p}
      <4>1. \/ hpc' = "idle" /\ res' = Raised
            \/ \E code : Give([out |-> "read", payload |-> payload, code |-> code])
        BY <1>4, <3>1 DEF WaitAck
      <4>2. ASSUME NEW code, Give([out |-> "read", payload |-> payload, code |-> code])
            PROVE  hpc' = "idle" /\ res'.payload = payload
        BY <3>1, <4>2 DEF Give
      <4>3. Raised.payload = <<>>
        BY DEF Raised
      <4> QED BY <3>1, <4>1, <4>2, <4>3
    <3>3. UNCHANGED <<toTarget, cmd, ran>>
      BY <1>4 DEF WaitAck, targetVars, lineVars
    <3> QED BY <1>0, <2>3, <3>1, <3>2, <3>3 DEF Fresh, Returned, Shown
  <2> QED BY <2>1, <2>2, <2>3
<1>5. CASE step = "read" /\ Read
  <2> DEFINE r == Chars(RecvLen)
  <2>1. /\ hpc = "read" /\ cur.call = "pt"
        /\ Answered(CMD_PT, p) /\ pay_len = Len(p) /\ Shown(p) /\ wave = Len(ran)
    BY <1>5 DEF Read, Control, Fresh
  <2>2. UNCHANGED <<toTarget, cmd, ran>>
    BY <1>5 DEF Read, targetVars, lineVars
  <2>3. Shown(p)' /\ wave' = Len(ran')
    BY <1>0, <2>1, <2>2 DEF Shown
  <2>4. CASE StartOk(r) /\ EndOk(r)
    <3>1. payload' = Decoded(r) /\ hpc' = "ack"
      BY <1>5, <2>4 DEF Read
    <3>2. Heard(Put(RESPONSE, p) \o Put(ACK, <<0>>))
      BY <2>1, PlaintextSaid
    <3>3. 0 \in Byte
      BY DEF Byte
    <3>4. Decoded(r) = p
      BY <2>1, <2>4, <3>2, <3>3, HeardResponse DEF LinkInv, Types
    <3> QED BY <1>0, <1>5, <2>3, <3>1, <3>4 DEF Fresh, Returned
  <2>5. CASE ~(StartOk(r) /\ EndOk(r))
    <3>1. Give(Nothing)
      BY <1>5, <2>5 DEF Read
    <3>2. hpc' = "idle" /\ res' = Nothing
      BY <2>1, <3>1 DEF Give
    <3> QED BY <1>0, <1>5, <2>3, <3>2 DEF Fresh, Returned, Nothing
  <2> QED BY <2>4, <2>5
<1> QED BY <1>1, <1>2, <1>3, <1>4, <1>5 DEF LinkStep

(* The capture, and the end of the call. *)
LEMMA FreshTaken ==
    ASSUME Control, NEW p, Fresh(p), Captured \/ TraceDone
    PROVE  Fresh(p)'
<1>1. UNCHANGED <<toTarget, toHost, commands, cmd, lenBuf, ascii_buf, tx, ran, faults, hpc, pay_len,
                  payload, res>>
  BY DEF Captured, TraceDone, vars, channels, targetVars, lineVars, hostVars
<1>2. CASE Captured
  <2>1. /\ step = "write" /\ hpc = "read" /\ scope = "triggered"
        /\ step' = "read" /\ wave' = shot
    BY <1>2 DEF Captured
  <2>2. Answered(CMD_PT, p) /\ shot = Len(ran) /\ pay_len = Len(p)
    BY <2>1 DEF Fresh
  <2>3. Answered(CMD_PT, p)'
    BY <1>1, <2>2, AskedSame
  <2>4. Shown(p)'
    BY <2>3 DEF Answered, Shown
  <2> QED BY <1>1, <2>1, <2>2, <2>3, <2>4 DEF Fresh, Returned
<1>3. CASE TraceDone
  <2>1. /\ step = "read" /\ hpc = "idle" /\ step' = "idle" /\ wave' = wave
        /\ \/ trace' = RaisedTrace
           \/ trace' = [out |-> "trace", wave |-> wave, response |-> res.payload]
    BY <1>3 DEF TraceDone
  <2>2. Shown(p) /\ wave = Len(ran) /\ res.payload \in {<<>>, p}
    BY <2>1 DEF Fresh
  <2>3. Shown(p)'
    BY <1>1, <2>2 DEF Shown
  <2>4. RaisedTrace.out # "trace"
    BY DEF RaisedTrace, NoTrace
  <2> QED BY <1>1, <2>1, <2>2, <2>3, <2>4 DEF Fresh, Returned
<1> QED BY <1>2, <1>3

(* The target: the first trigger of the armed scope is that of the plaintext. *)
LEMMA FreshTarget ==
    ASSUME LinkInv, Control, NEW p \in Seq(Byte), Long(p), Fresh(p), TargetStep
    PROVE  Fresh(p)'
<1>0. /\ UNCHANGED <<step, key, wave, trace, held, stale, hpc, cur, line, pay_len, payload, res,
                     faults>>
      /\ Getch \/ Putch
  BY DEF TargetStep, Target, hostVars
<1>1. ASSUME toTarget = <<>> PROVE Putch /\ UNCHANGED <<toTarget, cmd, ran>>
  BY <1>0, <1>1 DEF Getch, Putch, lineVars
<1>2. ~(Quiet /\ step = "write" /\ hpc \in {"flush", "write"})
  BY <1>0 DEF Getch, Putch, Quiet
<1>3. ASSUME Shown(p) PROVE Shown(p)' /\ ran' = ran
  BY <1>1, <1>3 DEF Shown
<1>4. ASSUME Answered(CMD_PT, p)
      PROVE  Answered(CMD_PT, p)' /\ ran' = ran
  <2>1. Putch /\ ran' = ran
    BY <1>1, <1>4 DEF Answered
  <2> QED BY <1>0, <1>4, <2>1, AnsweredPutch DEF LinkInv, Types
<1>5. ran' = ran => ~Triggered
  <2>1. Len(ran) \in Nat
    BY LenProperties DEF LinkInv, RanTypes
  <2> QED BY <2>1 DEF Triggered
<1>6. ran' = ran => UNCHANGED <<scope, shot>>
  BY <1>5 DEF TargetStep
<1>7. CASE step = "write" /\ hpc = "read"
  <2>1. Asked(CMD_PT, p) /\ pay_len = Len(p)
    BY <1>7 DEF Fresh
  <2>2. Asked(CMD_PT, p)'
    <3>1. Bare(CMD_PT) /\ Target /\ faults' = faults
      BY <1>0, TraceLetters DEF TargetStep
    <3> QED BY <2>1, <3>1, AskedTarget DEF LinkInv, IInv, Types
  <2>3. CASE scope = "triggered" /\ Answered(CMD_PT, p) /\ shot = Len(ran)
    BY <1>0, <1>4, <1>6, <1>7, <2>1, <2>2, <2>3 DEF Fresh, Returned
  <2>4. CASE scope = "armed" /\ shot = 0
    <3>1. CASE ~Triggered
      BY <1>0, <1>7, <2>1, <2>2, <2>4, <3>1 DEF Fresh, Returned, TargetStep
    <3>2. CASE Triggered
      <4>1. scope' = "triggered" /\ shot' = Len(ran')
        BY <2>4, <3>2 DEF TargetStep
      <4>2. Getch /\ ran' # ran
        BY <1>0, <1>5, <3>2 DEF Putch
      <4>3. tx' # <<>>
        BY <4>2, RunPuts
      <4>4. Answered(CMD_PT, p)'
        BY <2>2, <4>3 DEF Asked, Reading
      <4> QED BY <1>0, <1>7, <2>1, <2>2, <4>1, <4>4 DEF Fresh, Returned
    <3> QED BY <3>1, <3>2
  <2> QED BY <1>7, <2>3, <2>4 DEF Fresh
<1>8. CASE step = "read"
  BY <1>0, <1>3, <1>4, <1>8 DEF Fresh, Returned
<1>9. CASE step \notin {"write", "read"}
  BY <1>0, <1>3, <1>9 DEF Fresh, Returned
<1> QED BY <1>0, <1>2, <1>7, <1>8, <1>9 DEF Fresh, Control

(* A character is lost, or nothing happens. *)
LEMMA FreshFault ==
    ASSUME LinkInv, Control, NEW p \in Seq(Byte), Fresh(p), FaultStep
    PROVE  Fresh(p)'
<1>0. UNCHANGED <<step, scope, shot, wave, trace, hpc, pay_len, payload, res>>
  BY DEF FaultStep, Fault, hostVars, traceVars
<1>1. /\ toTarget = <<>> => toTarget' = <<>>
      /\ toHost = <<>> => toHost' = <<>>
      /\ UNCHANGED <<tx, ran, cmd>>
  BY FaultQuiet DEF FaultStep
<1>2. Asked(CMD_PT, p) => Asked(CMD_PT, p)'
  BY AskedFault, TraceLetters DEF FaultStep, LinkInv, Types
<1>3. Answered(CMD_PT, p) => Answered(CMD_PT, p)'
  BY AnsweredFault DEF FaultStep, LinkInv, Types
<1>4. Shown(p) => Shown(p)'
  BY <1>1 DEF Shown
<1>5. Quiet => Quiet'
  BY <1>1 DEF Quiet
<1> QED BY <1>0, <1>1, <1>2, <1>3, <1>4, <1>5 DEF Fresh, Returned

(* What is known of a plaintext sent to a target that had finished. *)
LEMMA FreshInductive ==
    ASSUME LinkInv, Control, ~stale => Fresh(Plaintext), [TraceNext]_allVars
    PROVE  ~stale' => Fresh(Plaintext)'
<1>1. CASE CaptureTrace \/ KeySent \/ TimedOut \/ Interrupt
  BY <1>1, FreshBegins
<1>2. CASE Arm
  BY <1>2, FreshArm
<1>3. CASE LinkStep \/ Captured \/ TraceDone \/ TargetStep \/ FaultStep \/ TraceEnd
           \/ UNCHANGED allVars
  <2>1. stale' = stale /\ calls' = calls
    BY <1>3 DEF LinkStep, Con, ConFlush, Flush, Write, WaitAck, Read, Captured, TraceDone,
                TargetStep, Target, FaultStep, Fault, TraceEnd, Done, allVars, traceVars, vars,
                hostVars
  <2> SUFFICES ASSUME ~stale PROVE Fresh(Plaintext)'
    BY <2>1
  <2>2. CASE step = "idle" /\ trace.out # "trace"
    <3>1. step' = "idle" /\ trace' = trace
      BY <1>3, <2>2 DEF LinkStep, Captured, TraceDone, TargetStep, FaultStep, TraceEnd, allVars,
                        traceVars
    <3> QED BY <2>2, <3>1 DEF Fresh, Returned
  <2>3. CASE step # "idle" \/ trace.out = "trace"
    <3>1. Plaintext \in Seq(Byte) /\ Long(Plaintext)
      BY <2>3, PlaintextFits DEF Control, LinkInv, Types, HostTypes
    <3>2. \E p \in Seq(Byte) : p = Plaintext /\ Long(p)
      BY <3>1
    <3>3. PICK p \in Seq(Byte) : p = Plaintext /\ Long(p)
      BY <3>2
    <3>4. Plaintext' = p /\ Fresh(p)
      BY <2>1, <3>3 DEF Plaintext
    <3>5. Fresh(p)'
      <4>1. CASE LinkStep
        BY <3>3, <3>4, <4>1, FreshLink
      <4>2. CASE Captured \/ TraceDone
        BY <3>4, <4>2, FreshTaken
      <4>3. CASE TargetStep
        BY <3>3, <3>4, <4>3, FreshTarget
      <4>4. CASE FaultStep
        BY <3>4, <4>4, FreshFault
      <4>5. CASE TraceEnd \/ UNCHANGED allVars
        <5>1. UNCHANGED <<toTarget, toHost, commands, cmd, lenBuf, ascii_buf, tx, ran, faults,
                          hpc, pay_len, payload, res, step, scope, shot, wave, trace>>
          BY <4>5 DEF TraceEnd, Done, allVars, traceVars, vars, channels, targetVars, lineVars,
                      hostVars
        <5>2. (Asked(CMD_PT, p)' <=> Asked(CMD_PT, p))
              /\ (Answered(CMD_PT, p)' <=> Answered(CMD_PT, p))
          BY <5>1, AskedSame
        <5> QED BY <3>4, <5>1, <5>2 DEF Fresh, Returned, Shown, Quiet
      <4> QED BY <1>3, <4>1, <4>2, <4>3, <4>4, <4>5
    <3> QED BY <3>4, <3>5 DEF Fresh, Returned, Shown
  <2> QED BY <2>2, <2>3
<1> QED BY <1>1, <1>2, <1>3 DEF TraceNext, CallSteps

-----------------------------------------------------------------------------
(* The key.                                                                  *)

(* The line of a plaintext has no letter of a key in it. *)
LEMMA LineNoKey ==
    ASSUME NEW p \in Seq(Byte), NEW j \in 1 .. Len(Line(CMD_PT, p))
    PROVE  Line(CMD_PT, p)[j] # CMD_KEY
<1> DEFINE l == Line(CMD_PT, p)
           n == Len(Hex(p, 97))
<1>1. /\ l \in Seq(Byte) /\ Len(l) = n + 2
      /\ l[1] = CMD_PT /\ l[Len(l)] = NL
      /\ \A i \in 1 .. n : l[i + 1] = Hex(p, 97)[i] /\ IsHex(Hex(p, 97)[i])
  BY LineShape, TraceLetters
<1>2. n \in Nat
  <2>1. 97 \in {65, 97}
    OBVIOUS
  <2> QED BY <2>1, HexAllDigits
<1>3. ~IsHex(CMD_KEY) /\ CMD_KEY # CMD_PT /\ CMD_KEY # NL
  BY TraceLetters DEF Bare
<1> HIDE DEF l, n
<1>4. j \in 1 .. n + 2
  BY <1>1 DEF l
<1>5. CASE j = 1
  BY <1>1, <1>3, <1>5 DEF l
<1>6. CASE j = n + 2
  BY <1>1, <1>3, <1>6 DEF l
<1>7. CASE j # 1 /\ j # n + 2
  <2> DEFINE i == j - 1
  <2>1. i \in 1 .. n /\ i + 1 = j
    BY <1>2, <1>4, <1>7
  <2> HIDE DEF i
  <2>2. l[i + 1] = Hex(p, 97)[i] /\ IsHex(Hex(p, 97)[i])
    BY <1>1, <2>1
  <2> QED BY <1>3, <2>1, <2>2 DEF l
<1> QED BY <1>5, <1>6, <1>7

(* What comes behind characters that are no letters of a key. *)
LEMMA AddsNoKey ==
    ASSUME NEW s \in Seq(Byte), NEW t \in Seq(Byte),
           \A j \in DOMAIN s : s[j] # CMD_KEY, \A j \in 1 .. Len(t) : t[j] # CMD_KEY
    PROVE  \A j \in DOMAIN (s \o t) : (s \o t)[j] # CMD_KEY
<1> DEFINE u == s \o t
<1>1. /\ u \in Seq(Byte) /\ Len(u) = Len(s) + Len(t)
      /\ \A j \in 1 .. Len(s) + Len(t) : u[j] = IF j <= Len(s) THEN s[j] ELSE t[j - Len(s)]
      /\ Len(s) \in Nat /\ Len(t) \in Nat
  BY Joined
<1> HIDE DEF u
<1>2. DOMAIN u = 1 .. Len(s) + Len(t) /\ DOMAIN s = 1 .. Len(s)
  BY <1>1
<1>3. ASSUME NEW j \in DOMAIN u PROVE u[j] # CMD_KEY
  <2>1. CASE j <= Len(s)
    BY <1>1, <1>2, <2>1
  <2>2. CASE ~(j <= Len(s))
    <3>1. j - Len(s) \in 1 .. Len(t)
      BY <1>1, <1>2, <2>2
    <3> DEFINE i == j - Len(s)
    <3>2. i \in 1 .. Len(t) /\ u[j] = t[i]
      BY <1>1, <1>2, <2>2, <3>1
    <3> HIDE DEF i
    <3> QED BY <3>2
  <2> QED BY <2>1, <2>2
<1> QED BY <1>3 DEF u

(* The target runs no key it has not begun to read. *)
LEMMA GetchNoKey ==
    ASSUME LinkInv, Getch, NoKey
    PROVE  NoKey'
<1> DEFINE x == Head(toTarget)
<1>1. /\ toTarget \in Seq(Byte) /\ toTarget # <<>> /\ toTarget' = Tail(toTarget)
      /\ x = toTarget[1] /\ Len(toTarget) \in Nat /\ Len(toTarget) > 0
      /\ Tail(toTarget) \in Seq(Byte) /\ Len(Tail(toTarget)) = Len(toTarget) - 1
      /\ \A j \in 1 .. Len(toTarget) - 1 : Tail(toTarget)[j] = toTarget[j + 1]
  <2>1. toTarget \in Seq(Byte) /\ toTarget # <<>> /\ toTarget' = Tail(toTarget)
    BY DEF Getch, LinkInv, Types, Bytes
  <2> QED BY <2>1, EmptySeq, HeadTailProperties
<1>2. x # CMD_KEY /\ x \in Nat
  <2>1. 1 \in DOMAIN toTarget /\ x \in Byte
    BY <1>1
  <2>2. toTarget[1] # CMD_KEY
    BY <2>1 DEF NoKey
  <2>3. x \in Nat
    BY <2>1 DEF Byte
  <2> HIDE DEF x
  <2> QED BY <1>1, <2>2, <2>3
<1>3. \A j \in DOMAIN toTarget' : toTarget'[j] # CMD_KEY
  <2> SUFFICES ASSUME NEW j \in DOMAIN toTarget' PROVE toTarget'[j] # CMD_KEY
    OBVIOUS
  <2>1. j \in 1 .. Len(toTarget) - 1 /\ j + 1 \in DOMAIN toTarget
    BY <1>1
  <2> QED BY <1>1, <2>1 DEF NoKey
<1>4. Table /\ LineTypes
  BY DEF LinkInv, IInv
<1>5. cmd' # 0 => commands'[cmd'].c # CMD_KEY
  <2>1. CASE cmd = 0
    <3>1. Letter(x)
      BY <2>1 DEF Getch
    <3>2. /\ cmd' = 0 \/ (cmd' # 0 /\ cmd' \in Find(x))
          /\ \A k \in Find(x) : commands[k].c = x
          /\ commands' = commands
      BY <1>2, <1>4, <3>1, Letters
    <3> QED BY <1>2, <3>2
  <2>2. CASE cmd # 0
    <3>1. commands[cmd].c # CMD_KEY
      BY <2>2 DEF NoKey
    <3>2. \/ cmd' = 0
          \/ /\ cmd' = cmd
             /\ \/ commands' = commands
                \/ \E n : commands' = [commands EXCEPT ![cmd].len = n]
      BY <2>2 DEF Getch, LengthDigit, Payload, EndOfLine, Return
    <3>3. commands[cmd] \in [c : Byte, len : Int, flags : {0, 1}] /\ cmd \in DOMAIN commands
      BY <1>4, <2>2, Entries
    <3> QED BY <2>2, <3>1, <3>2, <3>3
  <2> QED BY <2>1, <2>2
<1> QED BY <1>3, <1>5 DEF NoKey

(* The last key that ran stays the last. *)
LEMMA GetchKeyRan ==
    ASSUME LinkInv, Getch, NoKey, NEW k, KeyRan(k)
    PROVE  KeyRan(k)'
<1>1. ran \in Seq([cmd : Byte, data : Seq(Byte)]) /\ Len(ran) \in Nat
  BY LenProperties DEF LinkInv, RanTypes
<1>2. PICK m \in DOMAIN ran :
        /\ ran[m] = [cmd |-> CMD_KEY, data |-> k]
        /\ \A j \in m + 1 .. Len(ran) : ran[j].cmd # CMD_KEY
  BY DEF KeyRan
<1>3. CASE ran' = ran
  BY <1>3 DEF KeyRan
<1>4. CASE ran' # ran
  <2>1. cmd # 0 /\ Run
    BY <1>4, GetchRan DEF LinkInv, IInv, Types
  <2> DEFINE q == [cmd |-> commands[cmd].c, data |-> hex_decode(ascii_buf)]
  <2>2. ran' = Append(ran, q) /\ q.cmd # CMD_KEY
    BY <2>1 DEF Run, NoKey
  <2> HIDE DEF q
  <2>3. DOMAIN ran = 1 .. Len(ran)
    BY <1>1
  <2>4. /\ Len(ran') = Len(ran) + 1 /\ DOMAIN ran' = 1 .. Len(ran) + 1
        /\ \A j \in 1 .. Len(ran) : ran'[j] = ran[j]
        /\ ran'[Len(ran) + 1] = q
    BY <1>1, <2>2
  <2>5. m \in DOMAIN ran' /\ ran'[m] = [cmd |-> CMD_KEY, data |-> k]
    BY <1>1, <1>2, <2>3, <2>4
  <2>6. \A j \in m + 1 .. Len(ran') : ran'[j].cmd # CMD_KEY
    <3> SUFFICES ASSUME NEW j \in m + 1 .. Len(ran) + 1 PROVE ran'[j].cmd # CMD_KEY
      BY <2>4
    <3>1. m \in 1 .. Len(ran)
      BY <2>3
    <3>2. CASE j = Len(ran) + 1
      BY <2>2, <2>4, <3>2
    <3>3. CASE j # Len(ran) + 1
      <4>1. j \in m + 1 .. Len(ran) /\ j \in 1 .. Len(ran)
        BY <1>1, <3>1, <3>3
      <4> QED BY <1>2, <2>4, <4>1
    <3> QED BY <3>2, <3>3
  <2> QED BY <2>5, <2>6 DEF KeyRan
<1> QED BY <1>3, <1>4

(* Losing characters brings no key. *)
LEMMA FaultNoKey ==
    ASSUME LinkInv, Fault, NoKey
    PROVE  NoKey'
<1>1. UNCHANGED <<cmd, commands>> /\ toTarget \in Seq(Byte) /\ Len(toTarget) \in Nat
  BY LenProperties, FaultQuiet DEF LinkInv, Types, Bytes
<1>2. \/ toTarget' = toTarget
      \/ toTarget # <<>> /\ toTarget' = Front(toTarget)
      \/ \E k \in 1 .. Min({3, Len(toTarget)}) : toTarget' = RemoveAt(toTarget, k)
  BY DEF Fault, Overrun, Overflow, LoseToHost
<1>3. \A j \in DOMAIN toTarget' : \E i \in DOMAIN toTarget : toTarget'[j] = toTarget[i]
  <2>0. DOMAIN toTarget = 1 .. Len(toTarget)
    BY <1>1
  <2>1. CASE toTarget' = toTarget
    BY <2>1
  <2>2. CASE toTarget # <<>> /\ toTarget' = Front(toTarget)
    <3>1. \A r \in Seq(Byte) : \A m \in 0 .. Len(r) :
            DOMAIN SubSeq(r, 1, m) = 1 .. m /\ \A j \in 1 .. m : SubSeq(r, 1, m)[j] = r[j]
      OBVIOUS
    <3> DEFINE m == Len(toTarget) - 1
    <3>2. m \in 0 .. Len(toTarget)
      BY <1>1, <2>2, EmptySeq
    <3>3. \A j \in 1 .. m : j \in 1 .. Len(toTarget)
      BY <1>1
    <3>4. toTarget' = SubSeq(toTarget, 1, m)
      BY <2>2 DEF Front
    <3> HIDE DEF m
    <3>5. DOMAIN toTarget' = 1 .. m /\ \A j \in 1 .. m : toTarget'[j] = toTarget[j]
      BY <1>1, <3>1, <3>2, <3>4
    <3> QED BY <2>0, <3>3, <3>5
  <2>3. ASSUME NEW k \in 1 .. Min({3, Len(toTarget)}), toTarget' = RemoveAt(toTarget, k)
        PROVE  \A j \in DOMAIN toTarget' : \E i \in DOMAIN toTarget : toTarget'[j] = toTarget[i]
    <3>1. k \in 1 .. Len(toTarget)
      <4>1. Min({3, Len(toTarget)}) <= Len(toTarget) /\ Min({3, Len(toTarget)}) \in {3, Len(toTarget)}
        <5>1. 3 \in Int /\ Len(toTarget) \in Int
          BY <1>1
        <5> QED BY ONLY <5>1, MinOfTwo
      <4> QED BY <1>1, <4>1
    <3>2. /\ toTarget' \in Seq(Byte) /\ Len(toTarget') = Len(toTarget) - 1
          /\ \A j \in 1 .. Len(toTarget) - 1 :
               toTarget'[j] = IF j < k THEN toTarget[j] ELSE toTarget[j + 1]
      BY <1>1, <2>3, <3>1, Removed
    <3> SUFFICES ASSUME NEW j \in DOMAIN toTarget'
                 PROVE  \E i \in DOMAIN toTarget : toTarget'[j] = toTarget[i]
      OBVIOUS
    <3>3. j \in 1 .. Len(toTarget) - 1
      BY <3>2
    <3>4. j \in DOMAIN toTarget /\ j + 1 \in DOMAIN toTarget
      BY <1>1, <2>0, <3>3
    <3> QED BY <3>2, <3>3, <3>4
  <2> QED BY <1>2, <2>1, <2>2, <2>3
<1>4. \A j \in DOMAIN toTarget' : toTarget'[j] # CMD_KEY
  BY <1>3 DEF NoKey
<1> QED BY <1>1, <1>4 DEF NoKey

(* The acknowledgement of a key tells that it has run, last of all. *)
LEMMA AnsweredKey ==
    ASSUME LinkInv, NEW k, Answered(CMD_KEY, k)
    PROVE  NoKey /\ KeyRan(k)
<1>1. toTarget = <<>> /\ cmd = 0 /\ ran # <<>> /\ Last(ran) = [cmd |-> CMD_KEY, data |-> k]
  BY DEF Answered
<1>2. NoKey
  BY <1>1 DEF NoKey
<1>3. Len(ran) \in DOMAIN ran /\ ran[Len(ran)] = [cmd |-> CMD_KEY, data |-> k]
  <2>1. ran \in Seq([cmd : Byte, data : Seq(Byte)])
    BY DEF LinkInv, RanTypes
  <2>2. Len(ran) \in Nat /\ Len(ran) > 0 /\ DOMAIN ran = 1 .. Len(ran)
    BY <1>1, <2>1, EmptySeq
  <2> QED BY <1>1, <2>2 DEF Last
<1>4. \A j \in Len(ran) + 1 .. Len(ran) : FALSE
  <2>1. Len(ran) \in Nat
    BY LenProperties DEF LinkInv, RanTypes
  <2> QED BY <2>1
<1> QED BY <1>2, <1>3, <1>4 DEF KeyRan

(* The steps of the target. *)
LEMMA KeyTarget ==
    ASSUME LinkInv, Control, KeyInv, TargetStep
    PROVE  KeyInv'
<1>0. /\ UNCHANGED <<step, key, held, hpc, cur, line, last_key, res, late, faults>>
      /\ Target /\ (Getch \/ Putch)
  BY DEF TargetStep, Target, hostVars, history
<1>1. NoKey => NoKey'
  <2>1. CASE Getch
    BY <2>1, GetchNoKey
  <2>2. CASE Putch
    BY <2>2 DEF Putch, NoKey, lineVars
  <2> QED BY <1>0, <2>1, <2>2
<1>2. ASSUME NEW k, NoKey, KeyRan(k) PROVE KeyRan(k)'
  <2>1. CASE Getch
    BY <1>2, <2>1, GetchKeyRan
  <2>2. CASE Putch
    BY <1>2, <2>2 DEF Putch, KeyRan
  <2> QED BY <1>0, <2>1, <2>2
<1>3. ~(Quiet /\ hpc = "write" /\ step = "key")
  BY <1>0 DEF Getch, Putch, Quiet
<1>4. ASSUME step = "key", Asked(CMD_KEY, key) PROVE Asked(CMD_KEY, key)'
  <2>1. key \in Keys
    BY <1>4 DEF Control
  <2>2. PICK k \in Keys : k = key
    BY <2>1
  <2>3. Asked(CMD_KEY, k)'
    <3>1. Bare(CMD_KEY) /\ k \in Seq(Byte) /\ Long(k)
      BY TraceLetters, BlockFits
    <3> QED BY <1>0, <1>4, <2>2, <3>1, AskedTarget DEF LinkInv, IInv, Types
  <2> QED BY <1>0, <2>2, <2>3
<1>5. ASSUME NoKey, KeyRan(key) PROVE KeyRan(key)'
  <2>1. PICK k : k = key
    OBVIOUS
  <2>2. KeyRan(k)'
    BY <1>2, <1>5, <2>1
  <2> QED BY <1>0, <2>1, <2>2
<1>6. held # <<>> => KeyRan(held)'
  BY <1>0, <1>5 DEF KeyInv
<1> QED BY <1>0, <1>1, <1>3, <1>4, <1>5, <1>6 DEF KeyInv

(* A character is lost. *)
LEMMA KeyFault ==
    ASSUME LinkInv, Control, KeyInv, FaultStep
    PROVE  KeyInv'
<1>0. /\ UNCHANGED <<step, key, held, hpc, cur, line, last_key, res, late>> /\ Fault
  BY DEF FaultStep, Fault, hostVars, traceVars
<1>1. NoKey => NoKey'
  BY <1>0, FaultNoKey
<1>2. /\ UNCHANGED <<tx, ran>>
      /\ toTarget = <<>> => toTarget' = <<>>
      /\ toHost = <<>> => toHost' = <<>>
  BY <1>0, FaultQuiet
<1>3. Quiet => Quiet'
  BY <1>2 DEF Quiet
<1>4. ASSUME step = "key", Asked(CMD_KEY, key) PROVE Asked(CMD_KEY, key)'
  <2>1. PICK k \in Keys : k = key
    BY <1>4 DEF Control
  <2>2. Asked(CMD_KEY, k)'
    <3>1. Bare(CMD_KEY) /\ k \in Seq(Byte)
      BY TraceLetters, BlockFits
    <3> QED BY <1>0, <1>4, <2>1, <3>1, AskedFault DEF LinkInv, Types
  <2> QED BY <1>0, <2>1, <2>2
<1>5. (KeyRan(key) => KeyRan(key)') /\ (KeyRan(held) => KeyRan(held)')
  BY <1>0, <1>2 DEF KeyRan
<1> QED BY <1>0, <1>1, <1>2, <1>3, <1>4, <1>5 DEF KeyInv

(* The steps of the link. *)
LEMMA KeyLink ==
    ASSUME LinkInv, Control, KeyInv, LinkStep
    PROVE  KeyInv'
<1>0. UNCHANGED <<step, key, held>>
  BY DEF LinkStep, traceVars
<1>1. UNCHANGED <<commands, cmd, lenBuf, ascii_buf, tx, ran, last_key, faults>>
  BY DEF LinkStep, Con, ConFlush, Flush, Write, WaitAck, Read, targetVars, lineVars
<1>2. (KeyRan(key) => KeyRan(key)') /\ (KeyRan(held) => KeyRan(held)')
  BY <1>0, <1>1 DEF KeyRan
<1>3. CASE Con \/ ConFlush
  <2>1. step = "idle" /\ held = <<>>
    BY <1>3 DEF Con, ConFlush, Control
  <2> QED BY <1>0, <2>1 DEF KeyInv
<1>4. CASE Flush
  <2>1. /\ hpc' = "write" /\ toHost' = <<>> /\ toTarget' = toTarget
        /\ late' = (late \/ ~Quiet)
    BY <1>4 DEF Flush
  <2>2. (NoKey => NoKey') /\ (Quiet => Quiet')
    BY <1>1, <2>1 DEF NoKey, Quiet
  <2> QED BY <1>0, <1>1, <1>2, <2>1, <2>2 DEF KeyInv
<1>5. CASE Write
  <2>1. hpc = "write" /\ step \in {"key", "write"} /\ UNCHANGED <<cur, line, late>>
    BY <1>5 DEF Write, Control
  <2>2. CASE step = "key"
    <3>1. cur.data = key /\ cur.call = "key" /\ line = CMD_KEY /\ key \in Keys
      BY <2>2 DEF Control
    <3>2. hpc' = "ack"
      BY <1>5, <3>1 DEF Write
    <3>3. ASSUME ~late PROVE Asked(CMD_KEY, key)'
      <4>1. PICK k \in Keys : k = key
        BY <3>1
      <4>2. k \in Seq(Byte) /\ Quiet /\ toHost = <<>>
        BY <2>1, <2>2, <3>3, BlockFits DEF KeyInv
      <4>3. Reading(line, cur.data)'
        BY <1>5, <3>1, <4>1, <4>2, WritesAsked, TraceLetters
      <4>4. Reading(CMD_KEY, key)'
        BY <1>0, <2>1, <3>1, <4>3
      <4> QED BY <4>4 DEF Asked
    <3>4. held = <<>>
      BY <2>2 DEF KeyInv
    <3> QED BY <1>0, <2>1, <2>2, <3>2, <3>3, <3>4 DEF KeyInv
  <2>3. CASE step = "write"
    <3>1. cur.data = Plaintext /\ line = CMD_PT
      BY <2>3 DEF Control
    <3>2. Plaintext \in Seq(Byte)
      BY <2>3, PlaintextFits DEF Control, LinkInv, Types, HostTypes
    <3>3. toTarget' = toTarget \o Line(CMD_PT, Plaintext)
      BY <1>5, <3>1 DEF Write
    <3>4. ASSUME NoKey PROVE NoKey'
      <4>1. PICK p \in Seq(Byte) : p = Plaintext
        BY <3>2
      <4> DEFINE l == Line(CMD_PT, p)
      <4>2. l \in Seq(Byte) /\ \A j \in 1 .. Len(l) : l[j] # CMD_KEY
        BY LineShape, LineNoKey, TraceLetters
      <4>3. toTarget \in Seq(Byte) /\ \A j \in DOMAIN toTarget : toTarget[j] # CMD_KEY
        BY <3>4 DEF NoKey, LinkInv, Types, Bytes
      <4> HIDE DEF l
      <4>4. \A j \in DOMAIN (toTarget \o l) : (toTarget \o l)[j] # CMD_KEY
        BY ONLY <4>2, <4>3, AddsNoKey
      <4>5. toTarget' = toTarget \o l
        BY <3>3, <4>1 DEF l
      <4> QED BY <1>1, <3>4, <4>4, <4>5 DEF NoKey
    <3> QED BY <1>0, <1>1, <1>2, <2>3, <3>4 DEF KeyInv
  <2> QED BY <2>1, <2>2, <2>3
<1>6. CASE WaitAck
  <2>1. hpc = "ack" /\ step \in {"key", "read"} /\ UNCHANGED <<toTarget, late, cur>>
    BY <1>6 DEF WaitAck, Control, history
  <2>2. NoKey => NoKey'
    BY <1>1, <2>1 DEF NoKey
  <2>3. CASE step = "read"
    BY <1>0, <1>1, <1>2, <2>2, <2>3 DEF KeyInv
  <2>4. CASE step = "key"
    <3>1. cur.call = "key" /\ held = <<>> /\ key \in Keys
      BY <2>4 DEF Control, KeyInv
    <3> DEFINE r == Chars(4)
               code == IF Len(r) = 4 /\ r[1] = ACK THEN IntOf(SubSeq(r, 2, 3)) ELSE None
    <3>2. IF code = None THEN hpc' = "idle" /\ res' = Raised
          ELSE hpc' = "idle" /\ res'.out = "acked"
      BY <1>6, <3>1 DEF WaitAck, Give
    <3>3. ASSUME ~late, code # None PROVE NoKey /\ KeyRan(key)
      <4>1. PICK k \in Keys : k = key
        BY <3>1
      <4>2. Asked(CMD_KEY, k)
        BY <2>1, <2>4, <3>3, <4>1 DEF KeyInv
      <4>3. Len(r) = 4
        BY <3>3
      <4>4. Answered(CMD_KEY, k)
        <5> SUFFICES ASSUME Reading(CMD_KEY, k) PROVE FALSE
          BY <4>2 DEF Asked
        <5>1. toHost = <<>>
          BY DEF Reading
        <5>2. r = <<>>
          BY <5>1, NothingThere
        <5> QED BY <4>3, <5>2
      <4> QED BY <4>1, <4>4, AnsweredKey
    <3>4. Raised.out # "acked"
      BY DEF Raised
    <3> QED BY <1>0, <1>2, <2>1, <2>2, <2>4, <3>1, <3>2, <3>3, <3>4 DEF KeyInv
  <2> QED BY <2>1, <2>3, <2>4
<1>7. CASE step = "read" /\ Read
  <2>1. toTarget' = toTarget
    BY <1>7 DEF Read
  <2>2. NoKey => NoKey'
    BY <1>1, <2>1 DEF NoKey
  <2> QED BY <1>0, <1>1, <1>2, <1>7, <2>2 DEF KeyInv
<1> QED BY <1>3, <1>4, <1>5, <1>6, <1>7 DEF LinkStep

(* What is known of the key the target holds. *)
LEMMA KeyInductive ==
    ASSUME LinkInv, Control, KeyInv, [TraceNext]_allVars
    PROVE  KeyInv'
<1>1. CASE CaptureTrace
  <2>1. PICK k \in Keys :
          /\ key' = k
          /\ \/ held' = <<>> /\ hpc' = "flush" /\ step' = "key"
             \/ /\ k = last_key /\ step' = "arm"
                /\ UNCHANGED <<last_key, held>>
    BY <1>1 DEF CaptureTrace, Begin
  <2>2. UNCHANGED <<toTarget, cmd, commands, ran>>
    BY <1>1 DEF CaptureTrace, LinkRest, channels, targetVars, lineVars
  <2>3. (NoKey => NoKey') /\ \A h : KeyRan(h) => KeyRan(h)'
    BY <2>2 DEF NoKey, KeyRan
  <2>4. CASE held' = <<>> /\ hpc' = "flush" /\ step' = "key"
    BY <2>4 DEF KeyInv
  <2>5. CASE key' = last_key /\ step' = "arm" /\ UNCHANGED <<last_key, held>>
    <3>1. ASSUME held # <<>> PROVE NoKey' /\ KeyRan(held)' /\ held = last_key
      BY <2>2, <2>3, <2>5, <3>1 DEF KeyInv, KeyRan
    <3> QED BY <2>5, <3>1 DEF KeyInv
  <2> QED BY <2>1, <2>4, <2>5
<1>2. CASE KeySent
  <2>1. /\ step = "key" /\ hpc = "idle" /\ step' \in {"arm", "idle"} /\ key' = key
        /\ \/ res.out = "acked" /\ held' = IF late THEN <<>> ELSE key
           \/ held' = held
    BY <1>2 DEF KeySent
  <2>2. UNCHANGED <<toTarget, cmd, commands, ran, last_key>>
    BY <1>2 DEF KeySent, vars, channels, targetVars, lineVars, hostVars
  <2>3. (NoKey => NoKey') /\ (KeyRan(key) => KeyRan(key)')
    BY <2>1, <2>2 DEF NoKey, KeyRan
  <2>4. held = <<>> /\ key = last_key
    BY <2>1 DEF KeyInv, Control
  <2>5. ASSUME held' # <<>> PROVE held' = key /\ NoKey' /\ KeyRan(key)'
    BY <2>1, <2>3, <2>4, <2>5 DEF KeyInv
  <2>6. held' # <<>> => KeyRan(held)'
    BY <2>1, <2>5
  <2> QED BY <2>1, <2>2, <2>4, <2>5, <2>6 DEF KeyInv
<1>3. CASE Arm \/ Captured \/ TimedOut \/ TraceDone \/ Interrupt \/ TraceEnd \/ UNCHANGED allVars
  <2>1. /\ UNCHANGED <<key, held, toTarget, toHost, commands, cmd, lenBuf, ascii_buf, tx, ran, faults,
                       last_key>>
        /\ \/ step' # "key"
           \/ UNCHANGED <<step, hpc, res, late>>
    BY <1>3 DEF Arm, Begin, LinkRest, Captured, TimedOut, TraceDone, Interrupt, TraceEnd, Done,
                allVars, traceVars, vars, channels, targetVars, lineVars, hostVars, history
  <2>2. /\ NoKey => NoKey'
        /\ KeyRan(key) => KeyRan(key)'
        /\ KeyRan(held) => KeyRan(held)'
        /\ Quiet => Quiet'
    BY <2>1 DEF NoKey, KeyRan, Quiet
  <2>3. Asked(CMD_KEY, key) => Asked(CMD_KEY, key)'
    <3>1. PICK k : k = key
      OBVIOUS
    <3>2. Asked(CMD_KEY, k)' <=> Asked(CMD_KEY, k)
      BY <2>1, AskedSame
    <3> QED BY <2>1, <3>1, <3>2
  <2>4. held # <<>> => step # "key" /\ step' # "key"
    BY <2>1 DEF KeyInv
  <2> QED BY <2>1, <2>2, <2>3, <2>4 DEF KeyInv
<1>4. CASE LinkStep
  BY <1>4, KeyLink
<1>5. CASE TargetStep
  BY <1>5, KeyTarget
<1>6. CASE FaultStep
  BY <1>6, KeyFault
<1> QED BY <1>1, <1>2, <1>3, <1>4, <1>5, <1>6 DEF TraceNext, CallSteps

-----------------------------------------------------------------------------
(* All of it holds at the start. *)
LEMMA TraceStarts == TraceInit => TraceInv
<1> SUFFICES ASSUME TraceInit PROVE TraceInv
  OBVIOUS
<1>1. LinkInv
  BY StartLink DEF TraceInit
<1>2. /\ step = "idle" /\ hpc = "con" /\ trace.out = "none" /\ held = <<>>
  BY DEF TraceInit, Init, NoTrace
<1> QED BY <1>1, <1>2 DEF TraceInv, Control, Fresh, KeyInv, Returned

(* All of it is kept by every step. *)
LEMMA TraceInductive == TraceInv /\ [TraceNext]_allVars => TraceInv'
BY LinkInductive, ControlInductive, FreshInductive, KeyInductive DEF TraceInv

(* The wave of a trace is that of its own plaintext, the last the target has *)
(* run, and its response that operation's or none: whatever is lost, and     *)
(* however often a call before was given up, as long as the target had       *)
(* finished when the scope was armed.                                        *)
THEOREM TraceOwn == TraceSpec => []TraceIsOurs
<1>1. TraceInv => TraceIsOurs
  <2> SUFFICES ASSUME TraceInv, Returned, ~stale
               PROVE  /\ trace.wave = Len(ran) /\ trace.wave \in DOMAIN ran
                      /\ ran[trace.wave] = [cmd |-> CMD_PT, data |-> Plaintext]
                      /\ trace.response \in {<<>>, Plaintext}
    BY DEF TraceIsOurs
  <2>1. /\ ran # <<>> /\ Last(ran) = [cmd |-> CMD_PT, data |-> Plaintext]
        /\ trace.wave = Len(ran) /\ trace.response \in {<<>>, Plaintext}
    BY DEF TraceInv, Fresh, Shown
  <2>2. ran \in Seq([cmd : Byte, data : Seq(Byte)])
    BY DEF TraceInv, LinkInv, RanTypes
  <2>3. Len(ran) \in DOMAIN ran
    BY <2>1, <2>2, EmptySeq
  <2> QED BY <2>1, <2>3 DEF Last
<1> QED BY <1>1, TraceStarts, TraceInductive, PTL DEF TraceSpec

(* The key of a trace is the last the target took before the operation the   *)
(* wave shows, when its acknowledgement has been seen: in whatever call that *)
(* was, and whatever has been lost or interrupted since.                     *)
THEOREM TraceKey == TraceSpec => []KeyIsTargets
<1>1. TraceInv => KeyIsTargets
  <2> DEFINE keys == {j \in 1 .. trace.wave : ran[j].cmd = CMD_KEY}
  <2> SUFFICES ASSUME TraceInv, Returned, ~stale, held # <<>>
               PROVE  keys # {} /\ ran[Max(keys)].data = key
    BY DEF KeyIsTargets
  <2>1. trace.wave = Len(ran) /\ held = key /\ KeyRan(key)
    BY DEF TraceInv, Fresh, KeyInv
  <2>2. PICK m \in DOMAIN ran :
          /\ ran[m] = [cmd |-> CMD_KEY, data |-> key]
          /\ \A j \in m + 1 .. Len(ran) : ran[j].cmd # CMD_KEY
    BY <2>1 DEF KeyRan
  <2>3. Len(ran) \in Nat /\ m \in 1 .. Len(ran)
    <3>1. ran \in Seq([cmd : Byte, data : Seq(Byte)])
      BY DEF TraceInv, LinkInv, RanTypes
    <3> QED BY <3>1
  <2>4. m \in keys /\ \A j \in keys : j \in Nat /\ j <= m
    <3>1. m \in keys
      BY <2>1, <2>2, <2>3
    <3>2. ASSUME NEW j \in keys PROVE j \in Nat /\ j <= m
      <4>1. j \in 1 .. Len(ran) /\ ran[j].cmd = CMD_KEY
        BY <2>1
      <4>2. j \notin m + 1 .. Len(ran)
        BY <2>2, <4>1
      <4> QED BY <2>3, <4>1, <4>2
    <3> QED BY <3>1, <3>2
  <2> HIDE DEF keys
  <2>5. Max(keys) = m
    <3>1. \A x \in keys : (\A y \in keys : x >= y) => x = m
      BY <2>3, <2>4
    <3>2. \A y \in keys : m >= y
      BY <2>3, <2>4
    <3> QED BY <2>4, <3>1, <3>2 DEF Max
  <2> QED BY <2>2, <2>4, <2>5
<1> QED BY <1>1, TraceStarts, TraceInductive, PTL DEF TraceSpec
=============================================================================
