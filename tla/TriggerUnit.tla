----------------------------- MODULE TriggerUnit -----------------------------
(***************************************************************************)
(* The trigger unit of the OpenADC FPGA, clock by clock: from the ARM and  *)
(* TRIG_NOW bits of the settings register and the trigger line to the      *)
(* capture_go signal that lets samples into the FIFO, and back through the *)
(* counter and the full flag that end the capture (trigger_unit.v, with    *)
(* the pipeline of reg_openadc.v in front of it and the writing side of    *)
(* spartan6/fifo_top.v behind).                                            *)
(*                                                                         *)
(* Edge(t) is one rising edge of the ADC clock with the trigger line at t, *)
(* TRUE for "at the level that triggers".  All registers change at once,   *)
(* each from the values before the edge; adc_capture_go alone is cleared   *)
(* at once by its asynchronous reset.  The host's writes to the register   *)
(* may fall between any two edges.  The FPGA's own reset is not modelled:  *)
(* the host uses it when it connects, before anything is armed.            *)
(*                                                                         *)
(* The fifo_top that openadc_interface.v instantiates is a later one with  *)
(* more ports and is not in the repository.  What it adds is left out: the *)
(* model is of downsample_i = 1 (adc.decimate), of adc_write_mask = 1 (the *)
(* normal fill mode) and, as in the fifo_top there is, of no presamples.   *)
(* The FIFO core itself is a vendor's: it holds Depth words, is full when  *)
(* it holds them, and drops what is written then.                          *)
(***************************************************************************)
EXTENDS Integers

CONSTANTS
    Offset,         \* trigger_offset_i: clocks from the trigger to the first sample
    Samples,        \* max_samples_i: samples of a capture
    Depth,          \* words of three samples the FIFO holds
    EdgeSensitive   \* trigger_wait_i: wait for the trigger to be inactive first

ASSUME OffsetAssumption == Offset \in Nat
ASSUME SamplesAssumption == Samples \in Nat \ {0}
ASSUME DepthAssumption == Depth \in Nat
ASSUME EdgeSensitiveAssumption == EdgeSensitive \in BOOLEAN

VARIABLES
    settings,          \* the bits ARM and TRIG_NOW of the settings register
    pipe,              \* arm_pipe[0], arm_pipe[1], arm_r and arm_r2
    armed,             \* listens to the trigger line
    armed_led,         \* what the status register shows as armed
    reset_arm,         \* has triggered; keeps the unit from arming again
    capture_go,        \* adc_capture_go: triggered, capture not over
    delay_cnt,         \* adc_delay_cnt
    capture_delayed,   \* adc_capture_go_delayed: samples go into the FIFO
    sample_counter,
    capture_stop,      \* adc_capture_stop: enough samples, or the FIFO is full
    merge_cnt,         \* adcfifo_merge_cnt: samples waiting for the word to be full
    wr_en,             \* adcfifo_wr_en: a word is complete, and written next
    words,             \* in the FIFO
    (* History, read by the properties only. *)
    line,              \* the trigger line at the last two edges, newest first
    cause,             \* what started the last capture since the unit was armed
    shots,             \* captures the line has started since then
    missed,            \* the unit has triggered at the clock that armed it
    found              \* words that were in the FIFO at that clock

unitRegs == <<pipe, armed, armed_led, reset_arm, capture_go, delay_cnt,
              capture_delayed, sample_counter, capture_stop, merge_cnt, wr_en>>
unitHistory == <<line, cause, shots, missed, found>>
unitVars == <<settings, unitRegs, words, unitHistory>>

Bits == {"ARM", "TRIG_NOW"}
Causes == {"none", "trigger", "forced"}

UnitTypeOK ==
    /\ settings \in SUBSET Bits
    /\ pipe \in [1..4 -> BOOLEAN]
    /\ armed \in BOOLEAN /\ armed_led \in BOOLEAN /\ reset_arm \in BOOLEAN
    /\ capture_go \in BOOLEAN /\ capture_delayed \in BOOLEAN
    /\ capture_stop \in BOOLEAN
    /\ delay_cnt \in Nat /\ sample_counter \in Nat
    /\ merge_cnt \in 0..2 /\ wr_en \in BOOLEAN
    /\ words \in 0..Depth /\ found \in 0..Depth
    /\ line \in [1..2 -> BOOLEAN]
    /\ cause \in Causes
    /\ shots \in Nat /\ missed \in BOOLEAN

UnitInit ==
    /\ settings = {}
    /\ pipe = [i \in 1..4 |-> FALSE]
    /\ armed = FALSE /\ armed_led = FALSE /\ reset_arm = FALSE
    /\ capture_go = FALSE /\ capture_delayed = FALSE /\ capture_stop = FALSE
    /\ delay_cnt = 0 /\ sample_counter = 0
    /\ merge_cnt = 0 /\ wr_en = FALSE /\ words = 0
    /\ line = [i \in 1..2 |-> FALSE]
    /\ cause = "none" /\ shots = 0 /\ missed = FALSE /\ found = 0

(* cmd_arm, the command as the unit sees it, and int_reset_capture. *)
arm_i == pipe[4]
int_reset_capture == capture_stop \/ ~arm_i

trigger_now == "TRIG_NOW" \in settings

(* A bug: the force bit, like the line, is heard only by a unit that        *)
(* listens.                                                                *)
TriggersListening(t) == armed /\ (t \/ trigger_now)

Triggers(t) == (t /\ armed) \/ trigger_now

(* The bits of the status register the host looks at: not armed shows only *)
(* that a trigger was seen, and "FIFO" only that no sample goes in.        *)
Status == [arm |-> armed_led, fifo |-> ~capture_delayed]

-----------------------------------------------------------------------------
(* The registers, one edge. *)

ArmPipe == pipe' = [i \in 1..4 |-> IF i = 1 THEN "ARM" \in settings ELSE pipe[i - 1]]

full == words = Depth

CountSamples ==
    /\ capture_stop' = (sample_counter >= Samples \/ full)
    /\ sample_counter' = IF capture_delayed THEN sample_counter + 1 ELSE 0

(* Three samples go into a word; a word that is not full at the end of a    *)
(* capture is dropped, and one that the FIFO has no room for is lost.       *)
PackSamples ==
    /\ merge_cnt' = IF capture_delayed /\ merge_cnt < 2 THEN merge_cnt + 1 ELSE 0
    /\ wr_en' = (capture_delayed /\ merge_cnt = 2)
    /\ words' = IF wr_en /\ ~full THEN words + 1 ELSE words

(* A bug: the delay counts down and does not stop at 0.                    *)
DelayDown ==
    /\ delay_cnt' = IF capture_go THEN delay_cnt - 1 ELSE Offset
    /\ capture_delayed' = (capture_go /\ (capture_delayed \/ delay_cnt = 0))

Delay ==
    /\ delay_cnt' = IF capture_go THEN delay_cnt + 1 ELSE 0
    /\ capture_delayed' = (capture_go /\ (capture_delayed \/ delay_cnt = Offset))

CaptureGo(t) ==
    capture_go' = (~int_reset_capture /\ ~int_reset_capture' /\ (Triggers(t) \/ capture_go))

(* A bug: having triggered is forgotten with the trigger.                  *)
ResetArmForgets(t) == reset_arm' = Triggers(t)

ResetArm(t) == reset_arm' = (Triggers(t) \/ (reset_arm /\ (arm_i \/ capture_go)))

(* A bug: the unit listens whatever the line is.                           *)
ArmedAnyLevel(t) ==
    /\ armed' = (~reset_arm /\ (armed \/ arm_i))
    /\ armed_led' = (~reset_arm /\ (armed_led \/ arm_i))

Armed(t) ==
    /\ armed' = (~reset_arm /\ (armed \/ (arm_i /\ (~t \/ ~EdgeSensitive))))
    /\ armed_led' = (~reset_arm /\ (armed_led \/ arm_i))

Starts == ~capture_go /\ capture_go'

Record(t) ==
    /\ line' = [i \in 1..2 |-> IF i = 1 THEN t ELSE line[1]]
    /\ cause' = CASE ~arm_i /\ arm_i'        -> "none"
                  [] Starts /\ trigger_now   -> "forced"
                  [] Starts /\ ~trigger_now  -> "trigger"
                  [] OTHER                   -> cause
    /\ shots' = CASE ~arm_i /\ arm_i'        -> 0
                  [] Starts /\ ~trigger_now  -> shots + 1
                  [] OTHER                   -> shots
    /\ missed' = IF ~arm_i /\ arm_i' THEN Triggers(t) ELSE missed
    /\ found' = IF ~arm_i /\ arm_i' THEN words ELSE found

Edge(t) ==
    /\ ArmPipe /\ CountSamples /\ PackSamples /\ Delay
    /\ CaptureGo(t) /\ ResetArm(t) /\ Armed(t)
    /\ Record(t)
    /\ UNCHANGED settings

(* A write of the host to the settings register. *)
WriteSettings(s) == settings' = s /\ UNCHANGED <<unitRegs, words, unitHistory>>

(* A read of up to n words.  The FIFO gives them out four at a time, and    *)
(* none while samples go in; when a read leaves less than that the FIFO is  *)
(* reset, but less than that to begin with stays where it is.               *)
ReadWords(n) ==
    /\ LET rest == words - 4 * (n \div 4)
       IN words' = IF words < 4 \/ capture_delayed THEN words
                   ELSE IF rest < 4 THEN 0 ELSE rest
    /\ UNCHANGED <<settings, unitRegs, unitHistory>>

-----------------------------------------------------------------------------
(* The unit with any host: the specification the proofs are about. *)

UnitNext ==
    \/ \E t \in BOOLEAN : Edge(t)
    \/ \E s \in SUBSET Bits : WriteSettings(s)
    \/ \E n \in Nat : ReadWords(n)

UnitSpec == UnitInit /\ [][UnitNext]_unitVars

(* However the host writes the register, and however the line moves while  *)
(* samples are taken, one arming lets the line start one capture: the unit *)
(* arms again only after it has seen the arm command go away               *)
(* (trigger_unit.v:99-111, 131-136).                                       *)
OneShot == shots <= 1

(* An edge-sensitive unit starts on an edge: when the line starts a        *)
(* capture it was inactive at one of the two clocks before, also when it   *)
(* was active at the time of arming or when the unit was left listening by *)
(* an arming that never triggered (trigger_unit.v:131-136).                *)
OnEdgeOnly ==
    [][EdgeSensitive /\ Starts /\ ~trigger_now => ~line[1] \/ ~line[2]]_unitVars
=============================================================================
