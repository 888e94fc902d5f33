---------------------------- MODULE HuskyCapture ----------------------------
(***************************************************************************)
(* A streamed capture of the Husky: arm() and capture() of OpenADC.py and  *)
(* of the interface in _OpenADCInterface.py on the user's thread, with     *)
(* StreamThread beside them.  The two share the thread's drx and stop, the *)
(* buffer, and the mode of the sample FIFO: while fast FIFO read is on, no *)
(* other register can be read.                                             *)
(*                                                                         *)
(* mpc is where the user's thread is.  Between calls it is "armed", when   *)
(* there has been an arm() and no capture() that returned since, or "idle".*)
(***************************************************************************)
EXTENDS StreamThread

CONSTANTS
    ClockRuns,     \* the ADC has a clock: once triggered, samples come
    MaxInterrupts  \* bound: KeyboardInterrupts during capture()

ASSUME ClockRunsAssumption == ClockRuns \in BOOLEAN
ASSUME MaxInterruptsAssumption == MaxInterrupts \in Nat

VARIABLES
    mpc,
    armed,       \* SETTINGS_ARM of the device
    fast,        \* _fast_fifo_read_active
    timeout,     \* the local timeout of capture()
    result,      \* what the last capture() returned, and the data it read
    arms,        \* arm() calls so far
    interrupts

callVars == <<mpc, fast, timeout, result, arms, interrupts>>
vars == <<streamVars, armed, callVars>>

\* The steps whose USB calls return only after the callback of everything that
\* had finished before has been called.
UsbPoints == {"arm", "fast", "start", "trigger", "slow", "join"}
Reaped == done = <<>>

Reap ==
    /\ mpc \in UsbPoints /\ ~(mpc = "arm" /\ fast)
    /\ ReapElsewhere
    /\ UNCHANGED <<armed, callVars>>

NoResult == [returned |-> FALSE, timeout |-> FALSE, data |-> <<>>]

Init ==
    /\ StreamInit
    /\ mpc = "idle"
    /\ armed = FALSE
    /\ fast = FALSE
    /\ timeout = FALSE
    /\ result = NoResult
    /\ arms = 0
    /\ interrupts = 0

-----------------------------------------------------------------------------
\* The trigger, at any time while armed, or never.
Trigger ==
    /\ armed /\ ~trig
    /\ trig' = TRUE
    /\ UNCHANGED <<gen, pos, usbVars, threadVars, stop, dbuf, glitches, armed, callVars>>

Arm ==
    /\ mpc \in {"idle", "armed"}
    /\ arms < Streams
    /\ arms' = arms + 1
    /\ result' = NoResult
    /\ mpc' = "arm"
    /\ UNCHANGED <<streamVars, armed, fast, timeout, interrupts>>

\* arm(): disarm, arm, cache the settings.
ArmScope ==
    /\ mpc = "arm" /\ ~fast /\ Reaped
    /\ mpc' = "fast"
    /\ armed' = TRUE
    /\ trig' = FALSE
    /\ UNCHANGED <<gen, pos, usbVars, threadVars, stop, dbuf, glitches, fast, timeout,
                   result, arms, interrupts>>

\* With fast FIFO read still on, the first register it reads (XADC.status)
\* raises, before the try that would disconnect the scope.
ArmRaises ==
    /\ mpc = "arm" /\ fast
    /\ mpc' = "armed"
    /\ UNCHANGED <<streamVars, armed, fast, timeout, result, arms, interrupts>>

\* startCaptureThread: setFastSMC(1).
FastOn ==
    /\ mpc = "fast" /\ Reaped
    /\ fast' = TRUE
    /\ mpc' = "start"
    /\ UNCHANGED <<streamVars, armed, timeout, result, arms, interrupts>>

NewThread ==
    /\ gen' = gen + 1
    /\ pos' = 0
    /\ unsub' = 0
    /\ index' = 0
    /\ wpc' = "submit"
    /\ stop' = FALSE
    /\ mpc' = "armed"
    /\ UNCHANGED <<trig, usbVars, drx, dbuf, glitches, armed, fast, timeout, result,
                   arms, interrupts>>

\* Slip: the thread of the last capture is not waited for.
StartNoJoin == mpc = "start" /\ Reaped /\ NewThread

\* initStreamModeCapture: join the last thread, ask for a stream, start.
Start == mpc = "start" /\ wpc = "ended" /\ Reaped /\ NewThread

-----------------------------------------------------------------------------
Capture ==
    /\ mpc = "armed"
    /\ mpc' = "poll"
    /\ timeout' = FALSE
    /\ UNCHANGED <<streamVars, armed, fast, result, arms, interrupts>>

\* cmdReadStream_isDone.
isDone == drx[gen] >= Dlen

PollDone ==
    /\ mpc = "poll" /\ isDone
    /\ mpc' = "slow"
    /\ UNCHANGED <<streamVars, armed, fast, timeout, result, arms, interrupts>>

\* Not done: sleep for 0.05 s, then look at the time.
PollSleep ==
    /\ mpc = "poll" /\ ~isDone
    /\ mpc' = "slept"
    /\ UNCHANGED <<streamVars, armed, fast, timeout, result, arms, interrupts>>

\* There is time left.  (Only a poll that will find the capture done is shown.)
PollMore ==
    /\ mpc = "slept" /\ isDone
    /\ mpc' = "poll"
    /\ UNCHANGED <<streamVars, armed, fast, timeout, result, arms, interrupts>>

\* Slip: the caller is not told.
TimesOutSilently ==
    /\ mpc = "slept"
    /\ mpc' = "trigger"
    /\ UNCHANGED <<streamVars, armed, fast, timeout, result, arms, interrupts>>

\* There is none.
TimesOut ==
    /\ mpc = "slept"
    /\ timeout' = TRUE
    /\ mpc' = "trigger"
    /\ UNCHANGED <<streamVars, armed, fast, result, arms, interrupts>>

\* triggerNow, with the settings cached by arm().
TriggerNow ==
    /\ mpc = "trigger" /\ Reaped
    /\ trig' = TRUE
    /\ mpc' = "stop"
    /\ UNCHANGED <<gen, pos, usbVars, threadVars, stop, dbuf, glitches, armed, fast,
                   timeout, result, arms, interrupts>>

\* Slip: the thread is left to finish by itself.
StopNothing ==
    /\ mpc = "stop"
    /\ mpc' = "slow"
    /\ UNCHANGED <<streamVars, armed, fast, timeout, result, arms, interrupts>>

Stop ==
    /\ mpc = "stop"
    /\ stop' = TRUE
    /\ mpc' = "slow"
    /\ UNCHANGED <<gen, deviceVars, usbVars, threadVars, dbuf, glitches, armed, fast,
                   timeout, result, arms, interrupts>>

\* Slip: fast FIFO read is left on.
FastLeft ==
    /\ mpc = "slow"
    /\ mpc' = "join"
    /\ UNCHANGED <<streamVars, armed, fast, timeout, result, arms, interrupts>>

\* setFastSMC(0).
FastOff ==
    /\ mpc = "slow" /\ Reaped
    /\ fast' = FALSE
    /\ mpc' = "join"
    /\ UNCHANGED <<streamVars, armed, timeout, result, arms, interrupts>>

\* cmdReadStream joins the thread and reads off what the device still sends;
\* then arm(False).
Join ==
    /\ mpc = "join"
    /\ wpc = "ended" /\ Reaped
    /\ pos' \in IF trig THEN pos .. Max({pos, Dlen}) ELSE {pos}
    /\ armed' = FALSE
    /\ mpc' = "read"
    /\ UNCHANGED <<gen, trig, usbVars, threadVars, stop, dbuf, glitches, fast, timeout,
                   result, arms, interrupts>>

\* The rest of capture() and readHuskyData.
Read ==
    /\ mpc = "read"
    /\ result' = [returned |-> TRUE, timeout |-> timeout, data |-> dbuf]
    /\ mpc' = "idle"
    /\ UNCHANGED <<streamVars, armed, fast, timeout, arms, interrupts>>

\* The user stops a capture() that waits.
KeyboardInterrupt ==
    /\ mpc \in {"poll", "slept", "trigger", "stop", "slow", "join"}
    /\ interrupts < MaxInterrupts
    /\ interrupts' = interrupts + 1
    /\ mpc' = "armed"
    /\ UNCHANGED <<streamVars, armed, fast, timeout, result, arms>>

-----------------------------------------------------------------------------
\* The steps of a call in progress.
Call ==
    \/ ArmScope \/ ArmRaises \/ FastOn \/ Start
    \/ PollDone \/ PollSleep \/ PollMore \/ TimesOut \/ TriggerNow \/ Stop
    \/ FastOff \/ Join \/ Read \/ Reap

Usb == Deliver \/ Glitch

\* The user makes no more calls.
Done == mpc = "idle" /\ arms = Streams /\ UNCHANGED vars

Next ==
    \/ Arm \/ Capture \/ Call \/ KeyboardInterrupt
    \/ Thread /\ UNCHANGED <<armed, callVars>>
    \/ Usb /\ UNCHANGED <<armed, callVars>>
    \/ Trigger
    \/ Done

Fairness ==
    /\ WF_vars(Call)
    /\ WF_vars(Thread /\ UNCHANGED <<armed, callVars>>)
    /\ ClockRuns => WF_vars(Deliver /\ UNCHANGED <<armed, callVars>>)

Spec == Init /\ [][Next]_vars /\ Fairness

-----------------------------------------------------------------------------
Events == [own : 1 .. Streams, status : {"completed", "error", "cancelled"},
           from : 0 .. Dlen, n : 0 .. Dlen]

TypeOK ==
    /\ gen \in 0 .. Streams
    /\ trig \in BOOLEAN /\ armed \in BOOLEAN /\ fast \in BOOLEAN
    /\ stop \in BOOLEAN /\ timeout \in BOOLEAN
    /\ pos \in 0 .. Dlen
    /\ queue \in Seq(1 .. Streams) /\ done \in Seq(Events)
    /\ Len(queue) + Len(done) <= Capacity
    /\ unsub \in 0 .. NumTransfers
    /\ drx \in [1 .. Streams -> 0 .. Dlen]
    /\ Len(dbuf) = Dlen
    /\ dbuf \in Seq((0 .. Streams) \X (0 .. Dlen))

\* The bytes of stream g in order.
Stream(g) == [k \in 1 .. Dlen |-> <<g, k>>]

\* A capture() that returns without a timeout has read the whole of its own
\* stream: nothing lost, repeated, out of order or left over from an earlier
\* capture, whatever had to be submitted again.
OkMeansWhole ==
    result.returned /\ ~result.timeout => result.data = Stream(gen)

\* Until it is told to stop, what a thread has counted in drx is in the buffer,
\* in order: a transfer kept for later never comes before one submitted
\* earlier, and a failed one leaves no gap.  (Once told to, what a cancelled
\* transfer held is missing, and the caller is told of the timeout; a capture()
\* that was interrupted may have told the thread of the next.)
InOrder ==
    wpc # "ended" /\ ~timeout /\ interrupts = 0 =>
        \A k \in 1 .. drx[gen] : k <= Dlen => dbuf[k] = <<gen, k>>

\* When a capture() has returned, no transfer is left that could still put
\* bytes into the buffer the next one shares.
NothingInFlight == result.returned => queue = <<>> /\ done = <<>>

\* A thread nobody has told to stop, whose capture still lacks bytes, leaves its
\* loop with every transfer submitted, those it had to keep for later included:
\* the last of them cannot find the loop over because the others finished first.
\* (When transfers that failed part of the way have brought all the bytes before
\* their time, some may be left over: then they are not needed.)
NoneForgotten ==
    [][End /\ ~timeout /\ interrupts = 0 /\ ~isDone => unsub = 0]_vars

\* After a capture() that has returned, by whatever way, the next arm() finds
\* the registers readable.  (After an arm() without a capture(), or one that
\* was interrupted, it does not.)
ArmWorksAfterCapture ==
    [][Arm /\ result.returned => ~fast]_vars

\* Every call of the user ends.  (A transfer that failed part of the way is
\* submitted again in full: then more bytes are asked for than a stream has,
\* and it is up to the device whether the last transfer ever ends.)
InCall == mpc \notin {"idle", "armed"}
CallsReturn == InCall ~> ~InCall \/ Contains(glitches, "error")

\* arm, OpenADC.py:844: "Exception: Error when arming. This method catches
\* these and disconnects before reraising them." - so an arm() that fails does
\* not leave a scope that is still connected and still in fast FIFO read.
ArmErrorDisconnects == [][~(mpc = "arm" /\ mpc' = "armed")]_vars

\* capture, OpenADC.py:886: "Blocks until scope triggered (or times out)" - so
\* it comes back also when there are no samples to wait for.
CaptureTimesOut == mpc = "slept" ~> mpc = "idle"
=============================================================================
