---------------------------- MODULE StreamThread ----------------------------
(***************************************************************************)
(* StreamModeCaptureThreadHusky of naeusb.py: the thread that reads the    *)
(* samples of a streamed capture over USB.  It submits one asynchronous    *)
(* bulk transfer per segment, polls libusb for those that completed, and   *)
(* its callback puts their bytes one after the other into the buffer.      *)
(*                                                                         *)
(* External, modelled from how the code uses them: the device, which sends *)
(* the Dlen bytes of a stream in order once it has triggered; the kernel,  *)
(* which takes at most Capacity transfers at a time (the ENOMEM of the     *)
(* comment in run()); libusb, which completes them in order of submission  *)
(* and reports each to the callback it was made with, on the thread that   *)
(* handles events: this one in handleEvents, and any other in a USB call   *)
(* of its own.                                                             *)
(*                                                                         *)
(* A transfer is known by the stream it was made for.  A run of bytes of a *)
(* stream is [from, n]: byte k of stream g is the pair <<g, k>>.           *)
(***************************************************************************)
EXTENDS Integers, Sequences, SequencesExt, FiniteSetsExt

CONSTANTS
    Dlen,       \* bytes of a capture
    Segment,    \* bytes of a transfer
    Capacity,   \* transfers the kernel takes at a time
    Streams,    \* bound: captures armed
    Glitches,   \* what may go wrong with a transfer: "error", "zero", "eintr"
    MaxGlitches \* bound: how often

ASSUME DlenAssumption == Dlen \in Nat \ {0}
ASSUME SegmentAssumption == Segment \in Nat \ {0}
ASSUME CapacityAssumption == Capacity \in Nat \ {0}
ASSUME StreamsAssumption == Streams \in Nat
ASSUME MaxGlitchesAssumption == MaxGlitches \in Nat

VARIABLES
    gen,        \* the stream asked for last, 0 before the first
    trig,       \* the device has triggered and sends
    pos,        \* bytes of stream gen the device has sent
    queue,      \* transfers the kernel holds
    done,       \* transfers finished, their callback still to be called
    unsub,      \* length of unsubmitted_transfers
    wpc,        \* where the thread of stream gen is
    index,      \* its loop variable
    drx,        \* drx of the thread of each stream
    stop,       \* stop of the thread of stream gen
    dbuf,       \* the buffer all of them write to
    glitches    \* what has gone wrong so far, in order

deviceVars == <<trig, pos>>
usbVars == <<queue, done>>
threadVars == <<unsub, wpc, index, drx>>
streamVars == <<gen, deviceVars, usbVars, threadVars, stop, dbuf, glitches>>

NumTransfers == (Dlen + Segment - 1) \div Segment
Cancelled(own) == [own |-> own, status |-> "cancelled", from |-> 0, n |-> 0]

StreamInit ==
    /\ gen = 0
    /\ trig = FALSE
    /\ pos = 0
    /\ queue = <<>>
    /\ done = <<>>
    /\ unsub = 0
    /\ wpc = "ended"
    /\ index = 0
    /\ drx = [g \in 1 .. Streams |-> 0]
    /\ stop = FALSE
    /\ dbuf = [k \in 1 .. Dlen |-> <<0, 0>>]
    /\ glitches = <<>>

-----------------------------------------------------------------------------
(* The device, the kernel and libusb.                                       *)

Finish(status, n) ==
    /\ queue' = Tail(queue)
    /\ done' = Append(done, [own |-> Head(queue), status |-> status,
                             from |-> pos, n |-> n])
    /\ pos' = pos + n

\* The device fills a transfer, or ends the stream with a short one.
Deliver ==
    /\ queue # <<>>
    /\ trig /\ pos < Dlen
    /\ Finish("completed", Min({Segment, Dlen - pos}))
    /\ UNCHANGED <<gen, trig, threadVars, stop, dbuf, glitches>>

GoesWrong(kind) ==
    /\ kind \in Glitches
    /\ Len(glitches) < MaxGlitches
    /\ glitches' = Append(glitches, kind)

\* A transfer fails part of the way, or before its first byte.
Glitch ==
    /\ queue # <<>>
    /\ \/ GoesWrong("error") /\ trig /\ pos + 1 < Dlen /\ Segment > 1 /\ Finish("error", 1)
       \/ GoesWrong("zero") /\ Finish("error", 0)
    /\ UNCHANGED <<gen, trig, threadVars, stop, dbuf>>

Fits == Len(queue) + Len(done) < Capacity

\* transfer.isSubmitted() of a transfer of this thread: until its callback.
Submitted ==
    \/ \E k \in DOMAIN queue : queue[k] = gen
    \/ \E k \in DOMAIN done : done[k].own = gen

\* Slip: nothing is cancelled.
CancelNone == UNCHANGED usbVars

\* Where the transfers of this thread are among those the kernel holds, and what
\* it holds without them.
Own == {k \in DOMAIN queue : queue[k] = gen}
Others ==
    LET kept == DOMAIN queue \ Own
    IN  [k \in 1 .. Cardinality(kept) |->
            queue[CHOOSE j \in kept : Cardinality({i \in kept : i <= j}) = k]]

\* transfer.cancel() of each submitted transfer: its callback is told so,
\* also when bytes had come in for it.
CancelAll ==
    /\ queue' = Others
    /\ done' = [k \in DOMAIN done |->
                   IF done[k].own = gen THEN Cancelled(gen) ELSE done[k]]
               \o [k \in 1 .. Cardinality(Own) |-> Cancelled(gen)]

-----------------------------------------------------------------------------
(* The thread.                                                              *)

\* The first loop of run(): submit, or keep for later.
Submit ==
    /\ wpc = "submit"
    /\ IF Fits
         THEN queue' = Append(queue, gen) /\ unsub' = unsub
         ELSE queue' = queue /\ unsub' = unsub + 1
    /\ index' = index + 1
    /\ wpc' = IF index + 1 = NumTransfers THEN "poll" ELSE "submit"
    /\ UNCHANGED <<gen, deviceVars, done, drx, stop, dbuf, glitches>>

\* dbuf_temp[drx : drx + n] = ..., a slice, which grows the array at its end.
Store(e) ==
    LET at == drx[e.own] IN
    [k \in 1 .. Max({Len(dbuf), at + e.n}) |->
        IF k \in at + 1 .. at + e.n THEN <<e.own, e.from + k - at>> ELSE dbuf[k]]

\* Slip: a failed transfer is submitted again without its bytes being kept.
CallbackDropsError(e) ==
    IF e.status = "cancelled" THEN
        UNCHANGED <<queue, drx, dbuf>>
    ELSE IF e.status = "error" THEN
        /\ queue' = Append(queue, e.own)
        /\ UNCHANGED <<drx, dbuf>>
    ELSE
        /\ dbuf' = Store(e)
        /\ drx' = [drx EXCEPT ![e.own] = @ + e.n]
        /\ queue' = queue

\* Slip: the size of the transfer is counted for the bytes that came.
CallbackCountsSegment(e) ==
    IF e.status = "cancelled" THEN
        UNCHANGED <<queue, drx, dbuf>>
    ELSE IF drx[e.own] >= Dlen \/ e.n > 0 THEN
        /\ dbuf' = Store(e)
        /\ drx' = [drx EXCEPT ![e.own] = @ + Segment]
        /\ queue' = queue
    ELSE
        /\ queue' = Append(queue, e.own)
        /\ UNCHANGED <<drx, dbuf>>

\* callback(): what each kind of finished transfer makes of the buffer, and
\* whether the transfer is submitted again.
Callback(e) ==
    IF e.status = "cancelled" THEN
        UNCHANGED <<queue, drx, dbuf>>
    ELSE IF drx[e.own] >= Dlen THEN
        /\ drx' = [drx EXCEPT ![e.own] = @ + e.n]
        /\ UNCHANGED <<queue, dbuf>>
    ELSE IF e.n = 0 THEN
        /\ queue' = Append(queue, e.own)
        /\ UNCHANGED <<drx, dbuf>>
    ELSE
        /\ dbuf' = Store(e)
        /\ drx' = [drx EXCEPT ![e.own] = @ + e.n]
        /\ queue' = IF e.status = "completed" THEN queue ELSE Append(queue, e.own)

\* handleEvents: the callback of the next finished transfer, or, after
\* libusb's own timeout, nothing.
HandleEvents ==
    /\ wpc = "poll" /\ Submitted
    /\ IF done = <<>>
         THEN UNCHANGED <<queue, done, drx, dbuf>>
         ELSE Callback(Head(done)) /\ done' = Tail(done)
    /\ wpc' = "stop"
    /\ UNCHANGED <<gen, deviceVars, unsub, index, stop, glitches>>

\* The user's thread, in a USB call of its own, calls the callback.
ReapElsewhere ==
    /\ done # <<>>
    /\ Callback(Head(done)) /\ done' = Tail(done)
    /\ UNCHANGED <<gen, deviceVars, unsub, wpc, index, stop, glitches>>

\* USBErrorInterrupted: stop is not looked at this time.
Interrupted ==
    /\ wpc = "poll" /\ Submitted
    /\ GoesWrong("eintr")
    /\ wpc' = "resubmit"
    /\ index' = 1
    /\ UNCHANGED <<gen, deviceVars, usbVars, unsub, drx, stop, dbuf>>

\* Slip: the list of the transfers kept for later is walked from its second.
CheckStopSkips ==
    /\ wpc = "stop"
    /\ stop' = FALSE
    /\ IF stop THEN CancelAll ELSE UNCHANGED usbVars
    /\ wpc' = "resubmit"
    /\ index' = 2
    /\ UNCHANGED <<gen, deviceVars, unsub, drx, dbuf, glitches>>

\* stop is taken back once it has been acted on.
CheckStop ==
    /\ wpc = "stop"
    /\ stop' = FALSE
    /\ IF stop THEN CancelAll ELSE UNCHANGED usbVars
    /\ wpc' = "resubmit"
    /\ index' = 1
    /\ UNCHANGED <<gen, deviceVars, unsub, drx, dbuf, glitches>>

\* The second loop of run(), over the list it removes from: the one that moves
\* into the place of a removed transfer is passed over.
Resubmit ==
    /\ wpc = "resubmit" /\ index <= unsub
    /\ Fits
    /\ queue' = Append(queue, gen)
    /\ unsub' = unsub - 1
    /\ index' = index + 1
    /\ UNCHANGED <<gen, deviceVars, done, wpc, drx, stop, dbuf, glitches>>

\* No room still.
ResubmitLater ==
    /\ wpc = "resubmit" /\ index <= unsub
    /\ ~Fits
    /\ index' = index + 1
    /\ UNCHANGED <<gen, deviceVars, usbVars, unsub, wpc, drx, stop, dbuf, glitches>>

\* No room and timeout_ms is over: cancel and raise, which ends the thread.
GiveUp ==
    /\ wpc = "resubmit" /\ index <= unsub
    /\ ~Fits
    /\ CancelAll
    /\ wpc' = "ended"
    /\ UNCHANGED <<gen, deviceVars, unsub, index, drx, stop, dbuf, glitches>>

PollAgain ==
    /\ wpc = "resubmit" /\ index > unsub
    /\ wpc' = "poll"
    /\ UNCHANGED <<gen, deviceVars, usbVars, unsub, index, drx, stop, dbuf, glitches>>

\* No transfer of transfer_list is submitted any more.
End ==
    /\ wpc = "poll" /\ ~Submitted
    /\ wpc' = "ended"
    /\ UNCHANGED <<gen, deviceVars, usbVars, unsub, index, drx, stop, dbuf, glitches>>

Thread ==
    \/ Submit \/ HandleEvents \/ Interrupted \/ CheckStop \/ Resubmit
    \/ ResubmitLater \/ GiveUp \/ PollAgain \/ End
=============================================================================
