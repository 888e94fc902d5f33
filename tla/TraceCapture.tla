----------------------------- MODULE TraceCapture -----------------------------
(***************************************************************************)
(* Capturing a trace: capture_trace of chipwhisperer/__init__.py, which    *)
(* puts the scope and the target to work together.  The link and its       *)
(* target are SSv1Link and SSv1Target, character by character; the scope   *)
(* is what the theorems and runs of TriggerUnit and AdcCapture promise of  *)
(* it: one arming gets at most one capture, the first that the line        *)
(* triggers, and capture() takes it or says that there was a timeout.  The *)
(* FIFO has room for what is captured; what a call does not read stays     *)
(* there, in front of the samples of the next.                             *)
(*                                                                         *)
(* What is to be found out is whether the wave, the response and the key   *)
(* of a trace belong together: nothing in the code compares them.  A wave  *)
(* is named by the operation it shows, its index in the history `ran`.     *)
(***************************************************************************)
EXTENDS SSv1Link

CONSTANTS
    UserInterrupts,     \* whether the user may press Ctrl-C during a call
    AlwaysSend          \* the argument always_send_key

ASSUME UserInterruptsAssumption == UserInterrupts \in BOOLEAN
ASSUME AlwaysSendAssumption == AlwaysSend \in BOOLEAN

\* A command called by a hex digit, as 'f' is, takes no less than a block.
ASSUME LettersAssumption ==
    \A k \in DOMAIN Registered : IsHex(Registered[k].c) =>
        \A d \in Range(Plaintexts) \cup Keys : Len(d) <= Registered[k].len

VARIABLES
    step,         \* how far the call has come
    key,          \* its argument
    scope,        \* the trigger unit: "idle", "armed" or "triggered"
    shot,         \* the operation whose samples are first in its FIFO, 0 for none
    wave,         \* the one get_last_trace returns, 0 for a forced trigger
    trace,        \* what the last call returned
    held,         \* history: the key the target has acknowledged last
    stale         \* history: when the scope was armed the target was still busy,
                  \* or the FIFO held samples of an interrupted capture

traceVars == <<step, key, scope, shot, wave, trace, held, stale>>
allVars == <<vars, traceVars>>

NoTrace == [out |-> "none", wave |-> 0, response |-> <<>>]
RaisedTrace == [NoTrace EXCEPT !.out = "raised"]
Plaintext == Plaintexts[calls]

TraceInit ==
    /\ Init
    /\ step = "idle"
    /\ key = <<>>
    /\ scope = "idle"
    /\ shot = 0
    /\ wave = 0
    /\ trace = NoTrace
    /\ held = <<>>
    /\ stale = FALSE

-----------------------------------------------------------------------------
(* A write of the link begins; its steps are those of SSv1Link. *)
Begin(call, c, data) ==
    /\ cur' = [call |-> call, cmd |-> c, data |-> data]
    /\ line' = c
    /\ hpc' = "flush"
    /\ res' = Nothing
    /\ late' = FALSE

LinkRest == <<channels, targetVars, pay_len, payload, faults, sent, hit>>

(* A bug: only the first call sends its key.                               *)
CaptureTraceOneKey ==
    /\ step = "idle" /\ hpc = "idle"
    /\ calls < MaxCalls
    /\ calls' = calls + 1
    /\ trace' = NoTrace
    /\ \E k \in Keys :
         /\ key' = k
         /\ \/ /\ calls = 0
               /\ last_key' = k
               /\ held' = <<>>
               /\ Begin("key", CMD_KEY, k)
               /\ step' = "key"
            \/ /\ calls > 0
               /\ step' = "arm"
               /\ UNCHANGED <<last_key, held, cur, line, hpc, res, late>>
    /\ UNCHANGED <<LinkRest, scope, shot, wave, stale>>

(* set_key, when there is anything to send. *)
CaptureTrace ==
    /\ step = "idle" /\ hpc = "idle"
    /\ calls < MaxCalls
    /\ calls' = calls + 1
    /\ trace' = NoTrace
    /\ \E k \in Keys :
         /\ key' = k
         /\ \/ /\ k # last_key \/ AlwaysSend
               /\ last_key' = k
               /\ held' = <<>>
               /\ Begin("key", CMD_KEY, k)
               /\ step' = "key"
            \/ /\ k = last_key /\ ~AlwaysSend
               /\ step' = "arm"
               /\ UNCHANGED <<last_key, held, cur, line, hpc, res, late>>
    /\ UNCHANGED <<LinkRest, scope, shot, wave, stale>>

(* A key that is not acknowledged raises, and stays last_key. *)
KeySent ==
    /\ step = "key" /\ hpc = "idle"
    /\ \/ res.out = "acked" /\ step' = "arm" /\ held' = IF late THEN <<>> ELSE key
       \/ res.out = "raised" /\ step' = "idle" /\ held' = held
    /\ trace' = IF res.out = "raised" THEN RaisedTrace ELSE trace
    /\ UNCHANGED <<vars, key, scope, shot, wave, stale>>

(* scope.arm(), then the plaintext is written. *)
Arm ==
    /\ step = "arm"
    /\ scope' = "armed"
    /\ stale' = (~Quiet \/ shot # 0)
    /\ step' = "write"
    /\ Begin("pt", CMD_PT, Plaintext)
    /\ UNCHANGED <<LinkRest, last_key, calls, key, shot, wave, trace, held>>

(* The steps of the write and of the reads; the answer to the plaintext is *)
(* read after the capture.                                                 *)
LinkStep ==
    /\ \/ Con \/ ConFlush \/ Flush \/ Write \/ WaitAck
       \/ step = "read" /\ Read
    /\ UNCHANGED traceVars

(* capture() finds the unit triggered, and reads what is in the FIFO. *)
Captured ==
    /\ step = "write" /\ hpc = "read"
    /\ scope = "triggered"
    /\ scope' = "idle" /\ wave' = shot /\ shot' = 0
    /\ step' = "read"
    /\ UNCHANGED <<vars, key, trace, held, stale>>

(* A bug: the result of capture() is not looked at.                        *)
TimedOutIgnored ==
    /\ step = "write" /\ hpc = "read"
    /\ TimesOut
    /\ scope' = "idle" /\ wave' = 0 /\ shot' = 0
    /\ step' = "read"
    /\ UNCHANGED <<vars, key, trace, held, stale>>

(* capture() times out, maybe just before a trigger it does not see any    *)
(* more, forces one, reads the FIFO all the same and returns True: the     *)
(* call gives up, and leaves its answer where it is.                       *)
TimedOut ==
    /\ step = "write" /\ hpc = "read"
    /\ TimesOut
    /\ scope' = "idle" /\ wave' = 0 /\ shot' = 0
    /\ step' = "idle" /\ hpc' = "idle" /\ trace' = NoTrace
    /\ UNCHANGED <<channels, targetVars, cur, line, pay_len, payload, last_key, res, calls,
                   faults, history, key, held, stale>>

(* The trace, or the exception of simpleserial_read.  A response that is   *)
(* no response is part of the trace, as None.                              *)
TraceDone ==
    /\ step = "read" /\ hpc = "idle"
    /\ step' = "idle"
    /\ trace' = IF res.out = "raised" THEN RaisedTrace
                ELSE [out |-> "trace", wave |-> wave, response |-> res.payload]
    /\ UNCHANGED <<vars, key, scope, shot, wave, held, stale>>

(* Ctrl-C anywhere in the call: the scope stays armed, its FIFO as it is,  *)
(* and an answer under way stays under way.                                *)
Interrupt ==
    /\ UserInterrupts /\ step # "idle"
    /\ step' = "idle" /\ hpc' = "idle" /\ trace' = RaisedTrace
    /\ UNCHANGED <<channels, targetVars, cur, line, pay_len, payload, last_key, res, calls,
                   faults, history, key, scope, shot, wave, held, stale>>

-----------------------------------------------------------------------------
(* trigger_high in the callbacks of 'p' and 'f', heard by a scope that is  *)
(* armed.                                                                  *)
Triggered == Len(ran') > Len(ran) /\ Last(ran').cmd \in {CMD_PT, CMD_MULTI}

TargetStep ==
    /\ Target
    /\ IF Triggered /\ scope = "armed"
         THEN scope' = "triggered" /\ shot' = IF shot = 0 THEN Len(ran') ELSE shot
         ELSE UNCHANGED <<scope, shot>>
    /\ UNCHANGED <<step, key, wave, trace, held, stale>>

FaultStep == Fault /\ UNCHANGED traceVars

TraceEnd == step = "idle" /\ Done /\ UNCHANGED traceVars

CallSteps == KeySent \/ Arm \/ LinkStep \/ Captured \/ TimedOut \/ TraceDone

TraceNext ==
    \/ CaptureTrace \/ CallSteps \/ Interrupt
    \/ TargetStep \/ FaultStep \/ TraceEnd

(* A call in progress goes on, and the target runs; no one has to call.    *)
TraceSpec ==
    TraceInit /\ [][TraceNext]_allVars /\ WF_allVars(CallSteps) /\ WF_allVars(TargetStep)

-----------------------------------------------------------------------------
Returned == step = "idle" /\ trace.out = "trace"

(* A trace shows the operation of its own plaintext, the last the target   *)
(* has run, and its response, if there is one, is that operation's: as     *)
(* long as the target had finished everything else when the scope was      *)
(* armed, and its FIFO was empty.  The flush that comes with the write is  *)
(* too late to help: a target still busy with the plaintext of a call that *)
(* timed out gives the next call its wave; and arm() flushes no samples,   *)
(* so that those of a capture interrupted after its trigger are the first  *)
(* the next call reads (__init__.py:520-543, OpenADC.py:857-884).          *)
TraceIsOurs ==
    Returned /\ ~stale =>
        /\ trace.wave = Len(ran)
        /\ trace.wave \in DOMAIN ran
        /\ ran[trace.wave] = [cmd |-> CMD_PT, data |-> Plaintext]
        /\ trace.response \in {<<>>, Plaintext}

(* The key the trace is labelled with is the key the target used for it,   *)
(* however many calls ago it was sent, when its ack was seen: last_key     *)
(* stands for the key of the target also when the line that carried it     *)
(* was lost (__init__.py:517-518, SimpleSerial.py:591-596).                *)
KeyIsTargets ==
    Returned /\ ~stale /\ held # <<>> =>
        LET keys == {j \in 1 .. trace.wave : ran[j].cmd = CMD_KEY}
        IN  keys # {} /\ ran[Max(keys)].data = key

(* Every capture_trace comes back, with a trace or without.                *)
TraceReturns == step # "idle" ~> step = "idle"
=============================================================================
