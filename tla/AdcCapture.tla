------------------------------ MODULE AdcCapture ------------------------------
(***************************************************************************)
(* Arm and capture of a scope that does not stream: OpenADC.arm and        *)
(* OpenADC.capture down to the messages that read and write the settings   *)
(* and status registers, with the trigger unit of TriggerUnit at the other *)
(* end and a target that moves the trigger line at any clock.              *)
(*                                                                         *)
(* Time is counted in edges of the ADC clock: a message takes at least     *)
(* MessageClocks of them, a sleep as many as the code waits for.  Both may *)
(* take longer.  The timeout may run out whenever the host polls.          *)
(* Reading the samples back takes them out of the FIFO; their values and   *)
(* how they are unpacked are left out.  The scope is not a Husky, whose    *)
(* FPGA is not in the repository: poll_done and the segments of capture()  *)
(* are its own.                                                            *)
(***************************************************************************)
EXTENDS TriggerUnit

CONSTANTS
    MessageClocks,  \* ADC clocks a USB message takes at least
    ForceClocks,    \* ADC clocks of the 50 ms in triggerNow
    UserInterrupts, \* whether the user may press Ctrl-C while capture() waits
    ClockMayStop    \* whether the ADC clock may stop for good

ASSUME MessageClocksAssumption == MessageClocks \in Nat /\ MessageClocks >= 6
ASSUME ForceClocksAssumption == ForceClocks \in Nat
ASSUME UserInterruptsAssumption == UserInterrupts \in BOOLEAN
ASSUME ClockMayStopAssumption == ClockMayStop \in BOOLEAN

VARIABLES
    pc,        \* what the host does next
    cached,    \* self.cached_settings
    initial,   \* triggerNow's local: the settings it found cached
    status,    \* the status register as last read by capture()
    expired,   \* more than _timeout has passed since the loop began
    timeout,   \* capture()'s local, and its result
    busy,      \* clocks until the message or sleep under way can be over
    running,   \* the ADC has a clock
    started    \* history: a capture has started since arm()

hostVars == <<pc, cached, initial, status, expired, timeout>>
vars == <<unitVars, hostVars, busy, running, started>>

(* arm() is arm(False) and arm(True), each a read and a write; capture()   *)
(* polls, forces with two writes and ends with arm(False).  At "captured"  *)
(* the interface's capture() has returned to the scope's, which reads the  *)
(* samples.                                                                *)
Arming == {"off read", "off write", "on read", "on write"}
Capturing ==
    {"first", "poll", "force", "force off", "end read", "end write", "captured"}
Pcs == Arming \cup Capturing \cup {"new", "armed", "read"}

TypeOK ==
    /\ UnitTypeOK
    /\ pc \in Pcs
    /\ cached \in SUBSET Bits /\ initial \in SUBSET Bits
    /\ status \in [arm : BOOLEAN, fifo : BOOLEAN]
    /\ expired \in BOOLEAN /\ timeout \in BOOLEAN /\ running \in BOOLEAN
    /\ started \in BOOLEAN
    /\ busy \in Nat

Init ==
    /\ UnitInit
    /\ pc = "new"
    /\ cached = {} /\ initial = {}
    /\ status = [arm |-> FALSE, fifo |-> TRUE]
    /\ expired = FALSE /\ timeout = FALSE
    /\ busy = 0 /\ running = TRUE /\ started = FALSE

-----------------------------------------------------------------------------
(* Steps of the host.  A message is over when busy is 0, or any time when  *)
(* there is no clock to count in.                                          *)

Ready == busy = 0 \/ ~running
At(label) == pc = label /\ Ready /\ UNCHANGED <<running, started>>
Message(next) == pc' = next /\ busy' = MessageClocks

ReadSettings(next) ==
    /\ cached' = settings
    /\ Message(next)
    /\ UNCHANGED <<unitVars, initial, status, expired, timeout>>

SetSettings(s, next) ==
    /\ cached' = s
    /\ WriteSettings(s)
    /\ Message(next)
    /\ UNCHANGED <<initial, status, expired, timeout>>

CallArm ==
    /\ pc \in {"new", "armed", "read"} /\ Ready
    /\ pc' = "off read"
    /\ UNCHANGED <<unitVars, cached, initial, status, expired, timeout, busy, running, started>>

ArmOffRead == At("off read") /\ ReadSettings("off write")
(* A bug: arm() does not take the command back first.                      *)
ArmOffWriteKeeps == At("off write") /\ SetSettings(cached, "on read")

ArmOffWrite == At("off write") /\ SetSettings(cached \ {"ARM"}, "on read")
ArmOnRead == At("on read") /\ ReadSettings("on write")
ArmOnWrite ==
    /\ pc = "on write" /\ Ready /\ UNCHANGED running
    /\ SetSettings(cached \cup {"ARM"}, "armed")
    /\ started' = FALSE

CallCapture ==
    /\ At("armed")
    /\ pc' = "first" /\ timeout' = FALSE
    /\ UNCHANGED <<unitVars, cached, initial, status, expired, busy>>

(* The status of the first pass is read before the time is. *)
FirstStatus ==
    /\ At("first")
    /\ status' = Status /\ expired' = FALSE
    /\ Message("poll")
    /\ UNCHANGED <<unitVars, cached, initial, timeout>>

Waiting == status.arm \/ ~status.fifo

(* Whatever the status says, a timeout forces a trigger. *)
Poll ==
    /\ At("poll") /\ Waiting
    /\ status' = Status
    /\ timeout' = (timeout \/ expired)
    /\ Message(IF expired THEN "force" ELSE "poll")
    /\ UNCHANGED <<unitVars, cached, initial, expired>>

Expire ==
    /\ pc = "poll" /\ ~expired
    /\ expired' = TRUE
    /\ UNCHANGED <<unitVars, pc, cached, initial, status, timeout, busy, running, started>>

(* settings(True) reads the register only when the cache is 0.             *)
CachedSettings == IF cached = {} THEN settings ELSE cached

TriggerNow ==
    /\ At("force")
    /\ initial' = CachedSettings
    /\ cached' = initial' \cup {"TRIG_NOW"}
    /\ WriteSettings(cached')
    /\ pc' = "force off" /\ busy' = ForceClocks
    /\ UNCHANGED <<status, expired, timeout>>

(* A bug: the settings found are written back as they were.                *)
ForceOffAsFound ==
    /\ At("force off")
    /\ SetSettings(initial, IF status.fifo THEN "poll" ELSE "end read")

(* The break that follows looks at the status from before the trigger.     *)
ForceOff ==
    /\ At("force off")
    /\ SetSettings(initial \ {"TRIG_NOW"}, IF status.fifo THEN "poll" ELSE "end read")

(* A bug: the offset is left out of the time the ADC needs.                *)
FinishTimeNoOffset == IF timeout THEN 0 ELSE Samples

(* The time the ADC needs, slept through only when there was no timeout.   *)
(* It is that of samples taken at every clock, also where adc.decimate     *)
(* has it skip clocks.                                                     *)
FinishTime == IF timeout THEN 0 ELSE Offset + Samples

Triggered ==
    /\ At("poll") /\ ~Waiting
    /\ pc' = "end read" /\ busy' = FinishTime
    /\ UNCHANGED <<unitVars, cached, initial, status, expired, timeout>>

EndRead == At("end read") /\ ReadSettings("end write")
EndWrite == At("end write") /\ SetSettings(cached \ {"ARM"}, "captured")

(* _capture_read: what the FIFO says it holds, at most what Samples take   *)
(* and 256 bytes more, four bytes a word.                                  *)
Asked == Samples \div 3 + 64

ReadData ==
    /\ At("captured")
    /\ ReadWords(Asked)
    /\ Message("read")
    /\ UNCHANGED <<cached, initial, status, expired, timeout>>

(* Ctrl-C anywhere in capture(): nothing in it is undone, and what is in    *)
(* the FIFO stays there.                                                    *)
Interrupt ==
    /\ UserInterrupts /\ pc \in Capturing
    /\ pc' = "new" /\ busy' = MessageClocks
    /\ UNCHANGED <<unitVars, cached, initial, status, expired, timeout, running, started>>

Host ==
    \/ ArmOffRead \/ ArmOffWrite \/ ArmOnRead \/ ArmOnWrite
    \/ FirstStatus \/ Poll \/ TriggerNow \/ ForceOff \/ Triggered
    \/ EndRead \/ EndWrite \/ ReadData

-----------------------------------------------------------------------------
(* The ADC clock and the trigger line. *)

Tick ==
    /\ running
    /\ \E t \in BOOLEAN : Edge(t)
    /\ busy' = IF busy = 0 THEN 0 ELSE busy - 1
    /\ started' = (started \/ Starts)
    /\ UNCHANGED <<hostVars, running>>

StopClock ==
    /\ ClockMayStop /\ running
    /\ running' = FALSE
    /\ UNCHANGED <<unitVars, hostVars, busy, started>>

Next ==
    \/ CallArm \/ CallCapture \/ Host \/ Expire \/ Interrupt
    \/ Tick \/ StopClock

(* The host goes on when a message is over, time passes, and the clock     *)
(* ticks as long as it runs; nobody has to call, to interrupt or to stop   *)
(* the clock, and no trigger need ever come.                               *)
Fairness == WF_vars(Host) /\ WF_vars(Expire) /\ WF_vars(Tick)

Spec == Init /\ [][Next]_vars /\ Fairness

-----------------------------------------------------------------------------
(* There is room in the FIFO for a capture; and it holds one more than at   *)
(* the time of arming.                                                      *)
Room == Samples <= 3 * (Depth - found)
Whole == Samples <= 3 * (words - found)

(* When the interface's capture() says that there was no timeout, the line *)
(* has started a capture since arm(), and all its samples are in the FIFO: *)
(* the status it left the loop with is the same before, and for Offset     *)
(* clocks after, the trigger, the sleep that covers the rest is worked out *)
(* from Offset and Samples, arm(False) cuts off what is not finished, and  *)
(* the two clocks that the capture runs on after the counter has reached   *)
(* Samples fill up the last word (_OpenADCInterface.py:708-753,            *)
(* fifo_top.v:99-140).  Not so                                             *)
(*   - when the clock is gone;                                             *)
(*   - when a Ctrl-C in an earlier triggerNow() left the force bit set;    *)
(*   - when a unit left listening triggered at the very clock that armed   *)
(*     it again;                                                           *)
(*   - when the FIFO has no room for the capture, because Samples are too  *)
(*     many or because an interrupted capture has left its own there: a    *)
(*     full FIFO ends the capture, or keeps it from starting, and the unit *)
(*     is no longer armed all the same;                                    *)
(*   - with adc.decimate above 1, which is not modelled: FinishTime does   *)
(*     not know of it.                                                     *)
OkMeansWhole ==
    pc = "captured" /\ ~timeout /\ running /\ "TRIG_NOW" \notin settings /\ ~missed /\ Room
        => started /\ cause = "trigger" /\ Whole

(* By the first status capture() reads, the unit is armed or has triggered *)
(* already: otherwise the first pass would take a unit that has not armed  *)
(* yet for one that has triggered (_OpenADCInterface.py:646, 708-712).     *)
(* That a capture has `started` says that the unit has triggered only when *)
(* the FIFO has room for it.                                               *)
FirstStatusSeesArm ==
    pc = "first" /\ busy = 0 /\ running /\ ~missed /\ Room => armed_led \/ started

(* capture() leaves the unit disarmed, and after a timeout the force bit   *)
(* is off again, whatever settings were found in the cache and whatever an *)
(* interrupted call has left in the register                               *)
(* (_OpenADCInterface.py:446-450, 753).                                    *)
LeavesUnitAlone ==
    pc = "captured" => "ARM" \notin settings /\ (timeout => "TRIG_NOW" \notin settings)

(* As long as the ADC has a clock, capture() returns, whether or not a     *)
(* trigger comes: a forced trigger makes the unit leave the armed state,   *)
(* and the loop, which may force once more, sees it                        *)
(* (_OpenADCInterface.py:711-725).                                         *)
CallsReturn == pc \in Capturing ~> pc \notin Capturing \/ ~running
=============================================================================
