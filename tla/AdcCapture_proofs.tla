-------------------------- MODULE AdcCapture_proofs --------------------------
(***************************************************************************)
(* Proofs about TriggerUnit, for every offset, number of samples, depth of *)
(* the FIFO and trigger mode, and for a host that writes the settings      *)
(* register and reads the FIFO at any clock; then about AdcCapture:        *)
(* whatever the message times and the trigger, its host is one of those    *)
(* hosts, so that what holds for any host holds here; capture() leaves the *)
(* settings register as its callers expect; and a capture() without a      *)
(* timeout has a whole capture of a trigger since arm() in the FIFO, when  *)
(* the FIFO had room for it.                                               *)
(***************************************************************************)
EXTENDS AdcCapture, TLAPS

-----------------------------------------------------------------------------
(* The trigger unit, with any host.                                          *)

(* One step of the unit keeps its registers and its history in range. *)
LEMMA EdgeTypes ==
    ASSUME UnitTypeOK, NEW t \in BOOLEAN, Edge(t)
    PROVE  UnitTypeOK'
<1> USE OffsetAssumption, SamplesAssumption, DepthAssumption
<1>1. pipe' \in [1..4 -> BOOLEAN]
  BY DEF UnitTypeOK, Edge, ArmPipe
<1>2. capture_stop' \in BOOLEAN /\ sample_counter' \in Nat
  BY DEF UnitTypeOK, Edge, CountSamples
<1>3. capture_delayed' \in BOOLEAN /\ delay_cnt' \in Nat
  BY DEF UnitTypeOK, Edge, Delay
<1>4. capture_go' \in BOOLEAN /\ reset_arm' \in BOOLEAN
  BY DEF Edge, CaptureGo, ResetArm
<1>5. armed' \in BOOLEAN /\ armed_led' \in BOOLEAN
  BY DEF Edge, Armed
<1>6. line' \in [1..2 -> BOOLEAN]
  BY DEF UnitTypeOK, Edge, Record
<1>7. cause' \in Causes
  BY DEF UnitTypeOK, Edge, Record, Causes
<1>8. shots' \in Nat
  BY DEF UnitTypeOK, Edge, Record
<1>9. missed' \in BOOLEAN
  <2>1. Triggers(t) \in BOOLEAN
    BY DEF Triggers
  <2> QED
    BY <2>1 DEF UnitTypeOK, Edge, Record
<1>10. found' \in 0..Depth
  BY DEF UnitTypeOK, Edge, Record
<1>11. settings' \in SUBSET Bits
  BY DEF UnitTypeOK, Edge
<1>12. merge_cnt' \in 0..2 /\ wr_en' \in BOOLEAN
  BY DEF UnitTypeOK, Edge, PackSamples
<1>13. words' \in 0..Depth
  BY DEF UnitTypeOK, Edge, PackSamples, full
<1> QED
  BY <1>1, <1>2, <1>3, <1>4, <1>5, <1>6, <1>7, <1>8, <1>9, <1>10, <1>11, <1>12, <1>13
     DEF UnitTypeOK

(* The register a host writes takes only the two bits. *)
LEMMA WriteTypes ==
    ASSUME UnitTypeOK, NEW s \in SUBSET Bits, WriteSettings(s)
    PROVE  UnitTypeOK'
BY DEF UnitTypeOK, WriteSettings, unitRegs, unitHistory

(* Reading takes words out of the FIFO. *)
LEMMA ReadTypes ==
    ASSUME UnitTypeOK, NEW n \in Nat, ReadWords(n)
    PROVE  UnitTypeOK'
<1>1. words' \in 0..Depth
  BY DepthAssumption DEF UnitTypeOK, ReadWords
<1> QED
  BY <1>1 DEF UnitTypeOK, ReadWords, unitRegs, unitHistory

(* The registers of the trigger unit stay in range (trigger_unit.v:69-144). *)
THEOREM UnitTypes == UnitSpec => []UnitTypeOK
<1>1. UnitInit => UnitTypeOK
  <2> SUFFICES ASSUME UnitInit PROVE UnitTypeOK
    OBVIOUS
  <2>1. settings \in SUBSET Bits /\ cause \in Causes
    BY DEF UnitInit, Causes
  <2>2. words \in 0..Depth /\ found \in 0..Depth /\ merge_cnt \in 0..2
    BY DepthAssumption DEF UnitInit
  <2>3. pipe \in [1..4 -> BOOLEAN] /\ line \in [1..2 -> BOOLEAN]
    BY DEF UnitInit
  <2> QED
    BY <2>1, <2>2, <2>3 DEF UnitInit, UnitTypeOK
<1>2. UnitTypeOK /\ [UnitNext]_unitVars => UnitTypeOK'
  <2> SUFFICES ASSUME UnitTypeOK, [UnitNext]_unitVars PROVE UnitTypeOK'
    OBVIOUS
  <2>1. ASSUME NEW t \in BOOLEAN, Edge(t) PROVE UnitTypeOK'
    BY <2>1, EdgeTypes
  <2>2. ASSUME NEW s \in SUBSET Bits, WriteSettings(s) PROVE UnitTypeOK'
    BY <2>2, WriteTypes
  <2>3. ASSUME NEW n \in Nat, ReadWords(n) PROVE UnitTypeOK'
    BY <2>3, ReadTypes
  <2>4. CASE UNCHANGED unitVars
    BY <2>4 DEF UnitTypeOK, unitVars, unitRegs, unitHistory
  <2> QED
    BY <2>1, <2>2, <2>3, <2>4 DEF UnitNext
<1> QED
  BY <1>1, <1>2, PTL DEF UnitSpec

-----------------------------------------------------------------------------
(* Once the line has started a capture the unit remembers it until it is    *)
(* disarmed, and listens for at most the clock that follows, while the      *)
(* capture is already going on.                                             *)
Remembered ==
    /\ shots <= 1
    /\ arm_i /\ shots = 1 => reset_arm
    /\ arm_i /\ shots = 1 /\ armed => capture_go

(* A clock keeps the memory of the shot. *)
LEMMA EdgeRemembered ==
    ASSUME UnitTypeOK, Remembered, NEW t \in BOOLEAN, Edge(t)
    PROVE  Remembered'
<1> DEFINE rises == ~arm_i /\ arm_i'
           shot == Starts /\ ~trigger_now
<1> USE DEF UnitTypeOK
<1>1. capture_go' => arm_i /\ arm_i'
  BY DEF Edge, CaptureGo, int_reset_capture
<1>2. shot => arm_i /\ armed /\ ~capture_go /\ reset_arm' /\ capture_go'
  BY <1>1 DEF Edge, CaptureGo, ResetArm, Starts, Triggers
<1>3. shot => shots = 0
  BY <1>2 DEF Remembered
<1>4. CASE rises
  <2>1. shots' = 0
    BY <1>1, <1>4 DEF Edge, Record, Starts
  <2> QED
    BY <2>1 DEF Remembered
<1>5. CASE ~rises /\ shot
  <2>1. shots' = 1
    BY <1>5, <1>3 DEF Edge, Record
  <2> QED
    BY <2>1, <1>5, <1>2 DEF Remembered
<1>6. CASE ~rises /\ ~shot
  <2>1. shots' = shots
    BY <1>6 DEF Edge, Record
  <2>2. ASSUME arm_i', shots' = 1 PROVE reset_arm' /\ ~armed'
    <3>1. arm_i /\ shots = 1
      BY <1>6, <2>1, <2>2
    <3>2. reset_arm
      BY <3>1 DEF Remembered
    <3> QED
      BY <3>1, <3>2 DEF Edge, ResetArm, Armed
  <2> QED
    BY <2>1, <2>2 DEF Remembered
<1> QED
  BY <1>4, <1>5, <1>6

(* However the host writes the settings and however the line moves, one     *)
(* arming lets the line start one capture (trigger_unit.v:99-136).          *)
THEOREM OneShotPerArming == UnitSpec => []OneShot
<1>1. UnitInit => Remembered
  BY DEF UnitInit, Remembered, arm_i
<1>2. UnitTypeOK /\ Remembered /\ [UnitNext]_unitVars => Remembered'
  <2> SUFFICES ASSUME UnitTypeOK, Remembered, [UnitNext]_unitVars PROVE Remembered'
    OBVIOUS
  <2>1. ASSUME NEW t \in BOOLEAN, Edge(t) PROVE Remembered'
    BY <2>1, EdgeRemembered
  <2>2. ASSUME NEW s \in SUBSET Bits, WriteSettings(s) PROVE Remembered'
    BY <2>2 DEF Remembered, WriteSettings, unitRegs, unitHistory, arm_i
  <2>3. ASSUME NEW n \in Nat, ReadWords(n) PROVE Remembered'
    BY <2>3 DEF Remembered, ReadWords, unitRegs, unitHistory, arm_i
  <2>4. CASE UNCHANGED unitVars
    BY <2>4 DEF Remembered, unitVars, unitRegs, unitHistory, arm_i
  <2> QED
    BY <2>1, <2>2, <2>3, <2>4 DEF UnitNext
<1>3. Remembered => OneShot
  BY DEF Remembered, OneShot
<1> QED
  BY <1>1, <1>2, <1>3, UnitTypes, PTL DEF UnitSpec

-----------------------------------------------------------------------------
(* An edge-sensitive unit that listens has seen the line inactive at the    *)
(* last clock, or is about to stop listening because of the edge it has     *)
(* seen there.                                                              *)
Listens == EdgeSensitive /\ armed => ~line[1] \/ (~line[2] /\ reset_arm)

(* A clock keeps what listening says of the line. *)
LEMMA EdgeListens ==
    ASSUME UnitTypeOK, Listens, NEW t \in BOOLEAN, Edge(t)
    PROVE  Listens'
<1>1. line'[1] = t /\ line'[2] = line[1]
  BY DEF Edge, Record
<1>2. ASSUME EdgeSensitive, armed', t PROVE ~line[1] /\ reset_arm'
  <2>1. ~reset_arm /\ armed
    BY <1>2 DEF Edge, Armed
  <2>2. reset_arm'
    BY <1>2, <2>1 DEF Edge, ResetArm, Triggers
  <2> QED
    BY <1>2, <2>1, <2>2 DEF Listens
<1> QED
  BY <1>1, <1>2 DEF Listens

(* An edge-sensitive unit starts on an edge of the line, at most one clock  *)
(* late, whatever arming and disarming went before                          *)
(* (trigger_unit.v:116-136).                                                *)
THEOREM StartsOnEdge == UnitSpec => OnEdgeOnly
<1>1. UnitInit => Listens
  BY DEF UnitInit, Listens
<1>2. UnitTypeOK /\ Listens /\ [UnitNext]_unitVars => Listens'
  <2> SUFFICES ASSUME UnitTypeOK, Listens, [UnitNext]_unitVars PROVE Listens'
    OBVIOUS
  <2>1. ASSUME NEW t \in BOOLEAN, Edge(t) PROVE Listens'
    BY <2>1, EdgeListens
  <2>2. ASSUME NEW s \in SUBSET Bits, WriteSettings(s) PROVE Listens'
    BY <2>2 DEF Listens, WriteSettings, unitRegs, unitHistory
  <2>3. ASSUME NEW n \in Nat, ReadWords(n) PROVE Listens'
    BY <2>3 DEF Listens, ReadWords, unitRegs, unitHistory
  <2>4. CASE UNCHANGED unitVars
    BY <2>4 DEF Listens, unitVars, unitRegs, unitHistory
  <2> QED
    BY <2>1, <2>2, <2>3, <2>4 DEF UnitNext
<1>3. Listens /\ [UnitNext]_unitVars
        => [EdgeSensitive /\ Starts /\ ~trigger_now => ~line[1] \/ ~line[2]]_unitVars
  <2> SUFFICES ASSUME Listens, UnitNext, EdgeSensitive, Starts, ~trigger_now
               PROVE  ~line[1] \/ ~line[2]
    OBVIOUS
  <2>1. ASSUME NEW t \in BOOLEAN, Edge(t) PROVE armed
    BY <2>1 DEF Edge, CaptureGo, Starts, Triggers
  <2>2. ASSUME NEW s \in SUBSET Bits, WriteSettings(s) PROVE FALSE
    BY <2>2 DEF WriteSettings, unitRegs, Starts
  <2>3. ASSUME NEW n \in Nat, ReadWords(n) PROVE FALSE
    BY <2>3 DEF ReadWords, unitRegs, Starts
  <2>4. armed
    BY <2>1, <2>2, <2>3 DEF UnitNext
  <2> QED
    BY <2>4 DEF Listens
<1> QED
  BY <1>1, <1>2, <1>3, UnitTypes, PTL DEF UnitSpec, OnEdgeOnly

-----------------------------------------------------------------------------
(* The host of AdcCapture.                                                   *)

(* The settings a host has read or written are settings. *)
Cached == settings \in SUBSET Bits /\ cached \in SUBSET Bits /\ initial \in SUBSET Bits

(* Steps of the host that write the register, and what they write. *)
Written ==
    CASE pc \in {"off write", "end write"} -> cached \ {"ARM"}
      [] pc = "on write"                   -> cached \cup {"ARM"}
      [] pc = "force"                      -> CachedSettings \cup {"TRIG_NOW"}
      [] pc = "force off"                  -> initial \ {"TRIG_NOW"}

Writes ==
    /\ pc \in {"off write", "end write", "on write", "force", "force off"}
    /\ WriteSettings(Written)

(* What the scope's capture() asks the FIFO for. *)
LEMMA AskedNat == Asked \in Nat
<1>1. Samples \div 3 \in Nat
  BY SamplesAssumption
<1> QED
  BY <1>1 DEF Asked

(* Whatever happens is a write of the host, a read of the FIFO, a clock, or *)
(* nothing to the unit.                                                     *)
LEMMA HostOrTick ==
    ASSUME [Next]_vars
    PROVE  Writes \/ UNCHANGED unitVars \/ Tick \/ (pc = "captured" /\ ReadWords(Asked))
<1> USE DEF At
<1>1. ASSUME ArmOffWrite PROVE Writes
  BY <1>1 DEF ArmOffWrite, SetSettings, Writes, Written
<1>2. ASSUME ArmOnWrite PROVE Writes
  BY <1>2 DEF ArmOnWrite, SetSettings, Writes, Written
<1>3. ASSUME TriggerNow PROVE Writes
  BY <1>3 DEF TriggerNow, Writes, Written
<1>4. ASSUME ForceOff PROVE Writes
  BY <1>4 DEF ForceOff, SetSettings, Writes, Written
<1>5. ASSUME EndWrite PROVE Writes
  BY <1>5 DEF EndWrite, SetSettings, Writes, Written
<1>6. ASSUME ArmOffRead \/ ArmOnRead \/ EndRead PROVE UNCHANGED unitVars
  BY <1>6 DEF ArmOffRead, ArmOnRead, EndRead, ReadSettings
<1>7. ASSUME FirstStatus \/ Poll \/ Triggered \/ CallArm \/ CallCapture
             \/ Expire \/ Interrupt \/ StopClock
      PROVE  UNCHANGED unitVars
  BY <1>7 DEF FirstStatus, Poll, Triggered, CallArm, CallCapture, Expire, Interrupt, StopClock
<1>8. ASSUME UNCHANGED vars PROVE UNCHANGED unitVars
  BY <1>8 DEF vars
<1>9. ASSUME ReadData PROVE pc = "captured" /\ ReadWords(Asked)
  BY <1>9 DEF ReadData
<1> QED
  BY <1>1, <1>2, <1>3, <1>4, <1>5, <1>6, <1>7, <1>8, <1>9 DEF Next, Host

(* What the host writes to the register are its two bits ... *)
LEMMA WritesBits ==
    ASSUME Cached, Writes
    PROVE  Written \in SUBSET Bits
BY DEF Cached, Writes, Written, CachedSettings, Bits

(* ... since all it ever caches are those. *)
LEMMA CachedKept ==
    ASSUME Cached, [Next]_vars
    PROVE  Cached'
<1>1. settings' \in SUBSET Bits
  <2>1. CASE Writes
    BY <2>1, WritesBits DEF Writes, WriteSettings
  <2>2. CASE UNCHANGED unitVars
    BY <2>2 DEF unitVars, Cached
  <2>3. CASE Tick
    BY <2>3 DEF Tick, Edge, Cached
  <2>4. CASE ReadWords(Asked)
    BY <2>4 DEF ReadWords, Cached
  <2> QED
    BY <2>1, <2>2, <2>3, <2>4, HostOrTick
<1>2. cached' \in SUBSET Bits /\ initial' \in SUBSET Bits
  <2> USE DEF Cached, At, Bits
  <2>1. CASE ArmOffRead \/ ArmOnRead \/ EndRead
    BY <2>1 DEF ArmOffRead, ArmOnRead, EndRead, ReadSettings
  <2>2. CASE ArmOffWrite \/ ArmOnWrite \/ EndWrite \/ ForceOff
    BY <2>2 DEF ArmOffWrite, ArmOnWrite, EndWrite, ForceOff, SetSettings
  <2>3. CASE TriggerNow
    BY <2>3 DEF TriggerNow, CachedSettings
  <2>4. CASE FirstStatus \/ Poll \/ Triggered \/ ReadData
    BY <2>4 DEF FirstStatus, Poll, Triggered, ReadData
  <2>5. CASE CallArm \/ CallCapture \/ Expire \/ Interrupt
    BY <2>5 DEF CallArm, CallCapture, Expire, Interrupt
  <2>6. CASE Tick \/ StopClock \/ UNCHANGED vars
    BY <2>6 DEF Tick, StopClock, hostVars, vars
  <2> QED
    BY <2>1, <2>2, <2>3, <2>4, <2>5, <2>6 DEF Next, Host
<1> QED
  BY <1>1, <1>2 DEF Cached

(* Every behaviour of the host and the unit together is, for the unit, one  *)
(* of a host that writes the register and reads the FIFO when it likes: the *)
(* unit's own specification, with all that holds of it.                     *)
THEOREM ImplementsUnit == Spec => UnitSpec
<1>1. Init => UnitInit /\ Cached
  BY DEF Init, UnitInit, Cached, Bits
<1>2. Cached /\ [Next]_vars => Cached'
  BY CachedKept
<1>3. Cached /\ [Next]_vars => [UnitNext]_unitVars
  <2> SUFFICES ASSUME Cached, [Next]_vars PROVE [UnitNext]_unitVars
    OBVIOUS
  <2>1. CASE Writes
    BY <2>1, WritesBits DEF Writes, UnitNext
  <2>2. CASE Tick
    BY <2>2 DEF Tick, UnitNext
  <2>3. CASE ReadWords(Asked)
    BY <2>3, AskedNat DEF UnitNext
  <2> QED
    BY <2>1, <2>2, <2>3, HostOrTick
<1> QED
  BY <1>1, <1>2, <1>3, PTL DEF Spec, UnitSpec

(* Arming and capturing, however often they time out or are interrupted,    *)
(* gets one capture from the line for each arming (OpenADC.py:836-857).     *)
THEOREM CaptureOneShot == Spec => []OneShot
BY ImplementsUnit, OneShotPerArming, PTL

(* And each of them starts on an edge of the line, when the unit is set to  *)
(* edges (trigger_unit.v:131-136).                                          *)
THEOREM CaptureOnEdge == Spec => OnEdgeOnly
BY ImplementsUnit, StartsOnEdge, PTL

HostTypes ==
    /\ pc \in Pcs
    /\ status \in [arm : BOOLEAN, fifo : BOOLEAN]
    /\ expired \in BOOLEAN /\ timeout \in BOOLEAN /\ running \in BOOLEAN
    /\ started \in BOOLEAN
    /\ busy \in Nat

(* Time counts down, and a capture takes a number of clocks. *)
LEMMA Clocks ==
    /\ Offset + Samples \in Nat
    /\ \A b \in Nat : (IF b = 0 THEN 0 ELSE b - 1) \in Nat
BY OffsetAssumption, SamplesAssumption

(* Every step keeps the host's variables in range. *)
LEMMA HostTypesKept ==
    ASSUME UnitTypeOK, HostTypes, [Next]_vars
    PROVE  HostTypes'
<1> USE MessageClocksAssumption, ForceClocksAssumption, OffsetAssumption, SamplesAssumption
    DEF HostTypes, At, Message, Pcs, Arming, Capturing
<1>1. CASE CallArm
  BY <1>1 DEF CallArm
<1>2. CASE CallCapture
  BY <1>2 DEF CallCapture
<1>3. CASE ArmOffRead \/ ArmOnRead \/ EndRead
  BY <1>3 DEF ArmOffRead, ArmOnRead, EndRead, ReadSettings
<1>4. CASE ArmOffWrite
  BY <1>4 DEF ArmOffWrite, SetSettings
<1>5. CASE ArmOnWrite
  BY <1>5 DEF ArmOnWrite, SetSettings
<1>6. Status \in [arm : BOOLEAN, fifo : BOOLEAN]
  BY DEF Status, UnitTypeOK
<1>7. CASE FirstStatus
  BY <1>6, <1>7 DEF FirstStatus
<1>8. CASE Poll
  <2>1. pc' \in Pcs
    BY <1>8 DEF Poll
  <2>2. status' \in [arm : BOOLEAN, fifo : BOOLEAN] /\ busy' \in Nat
    BY <1>6, <1>8 DEF Poll
  <2>3. timeout' \in BOOLEAN
    BY <1>8 DEF Poll
  <2> QED
    BY <1>8, <2>1, <2>2, <2>3 DEF Poll
<1>9. CASE Expire
  BY <1>9 DEF Expire
<1>10. CASE TriggerNow
  BY <1>10 DEF TriggerNow
<1>11. CASE ForceOff
  BY <1>11 DEF ForceOff, SetSettings
<1>12. CASE Triggered
  <2>1. FinishTime \in Nat
    BY Clocks DEF FinishTime
  <2> QED
    BY <1>12, <2>1 DEF Triggered
<1>13. CASE EndWrite
  BY <1>13 DEF EndWrite, SetSettings
<1>14. CASE Interrupt
  BY <1>14 DEF Interrupt
<1>15. CASE Tick
  <2>1. busy' \in Nat
    BY <1>15, Clocks DEF Tick
  <2>2. started' \in BOOLEAN
    BY <1>15 DEF Tick
  <2> QED
    BY <1>15, <2>1, <2>2 DEF Tick, hostVars
<1>16. CASE StopClock
  BY <1>16 DEF StopClock, hostVars
<1>17. CASE UNCHANGED vars
  BY <1>17 DEF hostVars, vars
<1>18. CASE ReadData
  BY <1>18 DEF ReadData
<1> QED
  BY <1>1, <1>2, <1>3, <1>4, <1>5, <1>7, <1>8, <1>9, <1>10, <1>11, <1>12, <1>13,
     <1>14, <1>15, <1>16, <1>17, <1>18 DEF Next, Host

(* The variables of the host, and of the unit below it, stay in range.      *)
THEOREM CaptureTypes == Spec => []TypeOK
<1>1. Init => HostTypes /\ Cached
  <2> SUFFICES ASSUME Init PROVE HostTypes /\ Cached
    OBVIOUS
  <2>1. HostTypes
    BY DEF Init, HostTypes, Pcs
  <2>2. Cached
    BY DEF Init, UnitInit, Cached
  <2> QED
    BY <2>1, <2>2
<1>2. UnitTypeOK /\ HostTypes /\ Cached /\ [Next]_vars => HostTypes' /\ Cached'
  BY HostTypesKept, CachedKept
<1>3. UnitTypeOK /\ HostTypes /\ Cached => TypeOK
  BY DEF HostTypes, Cached, TypeOK
<1> QED
  BY <1>1, <1>2, <1>3, ImplementsUnit, UnitTypes, PTL DEF Spec

-----------------------------------------------------------------------------
(* What is known of the register on the way out of capture(): a timeout has *)
(* been through triggerNow(), whose last write takes the force bit back     *)
(* whatever was cached, and arm(False) writes what it has just read.        *)
Leaving ==
    /\ pc = "first" => ~timeout
    /\ pc \in {"poll", "end read", "end write", "captured"} /\ timeout
         => "TRIG_NOW" \notin settings
    /\ pc = "end write" => cached = settings
    /\ pc = "captured" => "ARM" \notin settings

(* Every step of capture() hands the register on as the next expects it. *)
LEMMA LeavingKept ==
    ASSUME Leaving, [Next]_vars
    PROVE  Leaving'
<1> USE DEF Leaving, At, Message
<1>0. UNCHANGED unitVars => UNCHANGED settings
  BY DEF unitVars
<1>1. CASE CallArm
  BY <1>1 DEF CallArm
<1>2. CASE CallCapture
  BY <1>2 DEF CallCapture
<1>3. CASE ArmOffRead \/ ArmOnRead
  BY <1>3 DEF ArmOffRead, ArmOnRead, ReadSettings
<1>4. CASE ArmOffWrite \/ ArmOnWrite
  BY <1>4 DEF ArmOffWrite, ArmOnWrite, SetSettings
<1>5. CASE FirstStatus
  BY <1>0, <1>5 DEF FirstStatus
<1>6. CASE Poll
  BY <1>0, <1>6 DEF Poll
<1>7. CASE Expire
  BY <1>0, <1>7 DEF Expire
<1>8. CASE TriggerNow
  BY <1>8 DEF TriggerNow
<1>9. CASE ForceOff
  BY <1>9 DEF ForceOff, SetSettings, WriteSettings
<1>10. CASE Triggered
  BY <1>0, <1>10 DEF Triggered
<1>11. CASE EndRead
  BY <1>0, <1>11 DEF EndRead, ReadSettings
<1>12. CASE EndWrite
  BY <1>12 DEF EndWrite, SetSettings, WriteSettings
<1>13. CASE Interrupt
  BY <1>13 DEF Interrupt
<1>14. CASE Tick
  BY <1>14 DEF Tick, Edge, hostVars
<1>15. CASE StopClock
  BY <1>0, <1>15 DEF StopClock, hostVars
<1>16. CASE UNCHANGED vars
  BY <1>0, <1>16 DEF vars, hostVars
<1>17. CASE ReadData
  BY <1>17 DEF ReadData
<1> QED
  BY <1>1, <1>2, <1>3, <1>4, <1>5, <1>6, <1>7, <1>8, <1>9, <1>10, <1>11, <1>12,
     <1>13, <1>14, <1>15, <1>16, <1>17 DEF Next, Host

(* A capture() that comes to its end leaves the unit disarmed, and never a  *)
(* force bit of its own (_OpenADCInterface.py:446-450, 753).                *)
THEOREM RegisterLeftClean == Spec => []LeavesUnitAlone
<1>1. Init => Leaving
  BY DEF Init, Leaving
<1>2. Leaving /\ [Next]_vars => Leaving'
  BY LeavingKept
<1>3. Leaving => LeavesUnitAlone
  BY DEF Leaving, LeavesUnitAlone
<1> QED
  BY <1>1, <1>2, <1>3, PTL DEF Spec

-----------------------------------------------------------------------------
(* From here to the end: what a capture() that has not timed out knows of   *)
(* the unit, clock by clock.  The unit n clocks after the arm command has   *)
(* been taken back: the pipeline empties, then capture_go falls, and one    *)
(* clock each later the delayed signal, the counters, and the stop, unless  *)
(* the FIFO is full.                                                        *)
Clear(n) ==
    /\ \A i \in 1..4 : n >= i => ~pipe[i]
    /\ n >= 4 => ~capture_go
    /\ n >= 5 => ~capture_delayed
    /\ n >= 6 => sample_counter = 0 /\ merge_cnt = 0 /\ ~wr_en
    /\ n >= 7 => (capture_stop => full)

(* No capture goes on, and none has started since arm(). *)
Idle ==
    /\ ~capture_go /\ ~capture_delayed /\ ~started
    /\ capture_stop => full
    /\ sample_counter = 0 /\ merge_cnt = 0 /\ ~wr_en

(* The command has come through and no trigger has been heard. *)
Quiet == Idle /\ ~reset_arm /\ words = found

(* A capture waits for its offset, or takes samples: three times the words  *)
(* it has completed, and those in the word that is not complete.            *)
Packed == 3 * (words - found) + (IF wr_en THEN 3 ELSE 0) + merge_cnt
Waits ==
    /\ capture_go /\ ~capture_stop /\ ~capture_delayed
    /\ delay_cnt <= Offset /\ sample_counter = 0 /\ Packed = 0 /\ words = found
Takes ==
    /\ capture_go /\ ~capture_stop /\ capture_delayed
    /\ sample_counter <= Samples /\ Packed = sample_counter

(* Then it runs on for two clocks, and the last word is written.            *)
RunsOn ==
    /\ ~capture_go /\ capture_delayed
    /\ sample_counter = Samples + 1 /\ Packed = sample_counter
Ends ==
    /\ ~capture_go /\ ~capture_delayed
    /\ sample_counter = Samples + 2 /\ Packed = sample_counter
Ended == ~capture_go /\ ~capture_delayed /\ ~wr_en /\ merge_cnt = 0 /\ Whole

(* The unit has heard the line, and will not start again. *)
Shot ==
    /\ started /\ cause = "trigger"
    /\ reset_arm /\ (armed => capture_go)
    /\ Waits \/ Takes \/ RunsOn \/ Ends \/ Ended

(* The trigger is not lost: the unit does not hear it too early, and the    *)
(* FIFO has room for the capture.                                           *)
Kept == ~missed /\ Room

Heard == ~trigger_now /\ (Quiet \/ Shot)

(* The unit n clocks after the arm command has been written. *)
Coming(n) ==
    /\ \A i \in 1..4 : n >= i => pipe[i]
    /\ \A i \in 1..3 : pipe[i + 1] => pipe[i]
    /\ ~arm_i => Idle
    /\ arm_i /\ Kept => Heard
    /\ n >= 5 /\ Kept => armed_led \/ started

(* The unit from the first status that capture() reads on. *)
Up == \A i \in 1..4 : pipe[i]
Here == Up /\ (Kept => Heard /\ (armed_led \/ started))

(* Clocks until the last word of a capture that has started. *)
Left ==
    CASE capture_go /\ ~capture_delayed  -> Offset - delay_cnt + 4 + Samples
      [] capture_go /\ capture_delayed   -> Samples - sample_counter + 3
      [] ~capture_go /\ capture_delayed  -> 2
      [] ~capture_go /\ ~capture_delayed -> IF wr_en \/ merge_cnt # 0 THEN 1 ELSE 0

(* The capture is whole and the command has been taken back. *)
Over ==
    /\ \A i \in 1..3 : pipe[i] => pipe[i + 1]
    /\ Kept =>
         /\ ~trigger_now
         /\ started /\ cause = "trigger" /\ Ended
         /\ arm_i => reset_arm /\ ~armed

(* One clock empties the pipeline by one stage. *)
LEMMA ClearEdge ==
    ASSUME UnitTypeOK, "ARM" \notin settings, NEW n \in Nat, Clear(n),
           NEW t \in BOOLEAN, Edge(t)
    PROVE  Clear(n + 1)'
<1> USE DEF UnitTypeOK, Clear
<1>1. \A i \in 1..4 : n + 1 >= i => ~pipe'[i]
  <2> SUFFICES ASSUME NEW i \in 1..4, n + 1 >= i PROVE ~pipe'[i]
    OBVIOUS
  <2>1. CASE i = 1
    BY <2>1 DEF Edge, ArmPipe
  <2>2. CASE i # 1
    <3>1. i - 1 \in 1..4 /\ n >= i - 1
      BY <2>2
    <3> QED
      BY <2>2, <3>1 DEF Edge, ArmPipe
  <2> QED
    BY <2>1, <2>2
<1>2. n + 1 >= 4 => ~capture_go'
  BY <1>1 DEF Edge, CaptureGo, int_reset_capture, arm_i
<1>3. n + 1 >= 5 => ~capture_delayed'
  BY DEF Edge, Delay
<1>4. n + 1 >= 6 => sample_counter' = 0 /\ merge_cnt' = 0 /\ ~wr_en'
  BY DEF Edge, CountSamples, PackSamples
<1>5. n + 1 >= 7 => (capture_stop' => full')
  <2> SUFFICES ASSUME n >= 6, capture_stop' PROVE full'
    OBVIOUS
  <2>1. sample_counter = 0 /\ ~wr_en
    BY DEF Clear
  <2>2. full
    BY <2>1, SamplesAssumption DEF Edge, CountSamples
  <2>3. words' = words
    BY <2>1 DEF Edge, PackSamples
  <2> QED
    BY <2>2, <2>3 DEF full
<1> QED
  BY <1>1, <1>2, <1>3, <1>4, <1>5

(* A unit that is not to start waits on. *)
LEMMA IdleEdge ==
    ASSUME UnitTypeOK, Idle, NEW t \in BOOLEAN, Edge(t), ~arm_i,
           started' = (started \/ Starts)
    PROVE  Idle' /\ words' = words
<1> USE DEF UnitTypeOK, Idle
<1>1. ~capture_go' /\ ~capture_delayed' /\ sample_counter' = 0
  BY DEF Edge, CaptureGo, int_reset_capture, Delay, CountSamples
<1>2. merge_cnt' = 0 /\ ~wr_en' /\ words' = words
  BY DEF Edge, PackSamples
<1>3. capture_stop' => full'
  <2>1. capture_stop' => full
    BY SamplesAssumption DEF Edge, CountSamples
  <2> QED
    BY <1>2, <2>1 DEF full
<1>4. ~started'
  BY <1>1 DEF Starts
<1> QED
  BY <1>1, <1>2, <1>3, <1>4

(* A unit to which the command comes through listens, unless it triggers at *)
(* that very clock.                                                         *)
LEMMA RiseEdge ==
    ASSUME UnitTypeOK, Idle, NEW t \in BOOLEAN, Edge(t), ~arm_i, arm_i', ~missed',
           started' = (started \/ Starts)
    PROVE  Heard'
<1>1. ~Triggers(t)
  BY DEF Edge, Record
<1>2. ~trigger_now'
  BY <1>1 DEF Edge, Triggers, trigger_now
<1>3. ~reset_arm'
  BY <1>1 DEF Edge, ResetArm, Idle
<1>4. found' = words
  BY DEF Edge, Record
<1> QED
  BY <1>2, <1>3, <1>4, IdleEdge DEF Heard, Quiet

(* The clock at which the line triggers a unit that listens. *)
LEMMA QuietEdge ==
    ASSUME UnitTypeOK, ~trigger_now, Quiet, Room, NEW t \in BOOLEAN, Edge(t), arm_i, arm_i',
           started' = (started \/ Starts)
    PROVE  Heard' /\ (armed_led' \/ started')
<1> USE DEF UnitTypeOK, Quiet, Idle
<1>1. ~trigger_now' /\ armed_led'
  BY DEF Edge, trigger_now, Armed
<1>2. ~full
  BY SamplesAssumption, DepthAssumption DEF Room, full
<1>3. /\ ~capture_stop' /\ ~capture_delayed' /\ sample_counter' = 0 /\ delay_cnt' = 0
      /\ merge_cnt' = 0 /\ ~wr_en' /\ words' = words /\ found' = found
  BY <1>2, SamplesAssumption DEF Edge, CountSamples, PackSamples, Delay, Record
<1>4. CASE t /\ armed
  <2>1. capture_go' /\ reset_arm'
    BY <1>2, <1>3, <1>4 DEF Edge, CaptureGo, ResetArm, Triggers, int_reset_capture
  <2>2. Starts
    BY <2>1 DEF Starts
  <2>3. cause' = "trigger" /\ started'
    BY <2>2 DEF Edge, Record
  <2>4. words' = found' /\ Packed' = 0
    BY <1>3, DepthAssumption DEF Packed
  <2> QED
    BY <1>1, <1>3, <2>1, <2>3, <2>4, OffsetAssumption DEF Heard, Shot, Waits
<1>5. CASE ~(t /\ armed)
  <2>1. ~Triggers(t)
    BY <1>5 DEF Triggers
  <2>2. ~capture_go' /\ ~reset_arm'
    BY <2>1 DEF Edge, CaptureGo, ResetArm
  <2> QED
    BY <1>1, <1>3, <2>2 DEF Heard, Starts
<1> QED
  BY <1>4, <1>5

(* A clock at which a sample is taken adds it to a word: the FIFO has room  *)
(* for every word that the samples so far make.                             *)
LEMMA PackEdge ==
    ASSUME UnitTypeOK, Room, NEW t \in BOOLEAN, Edge(t), arm_i, Packed <= Samples + 2
    PROVE  /\ found' = found
           /\ words' = IF wr_en THEN words + 1 ELSE words
           /\ full => Packed >= Samples
           /\ capture_delayed => Packed' = Packed + 1
<1> USE OffsetAssumption, SamplesAssumption, DepthAssumption DEF UnitTypeOK, Packed
<1>1. found' = found
  BY DEF Edge, Record
<1>2. full => 3 * (words - found) >= Samples
  BY DEF full, Room
<1>3. ~(wr_en /\ full)
  BY <1>2
<1>4. words' = IF wr_en THEN words + 1 ELSE words
  BY <1>3 DEF Edge, PackSamples
<1>5. ASSUME capture_delayed PROVE Packed' = Packed + 1
  <2>1. CASE merge_cnt = 2
    <3>1. merge_cnt' = 0 /\ wr_en'
      <4>1. wr_en' = (capture_delayed /\ merge_cnt = 2)
        BY DEF Edge, PackSamples
      <4>2. (capture_delayed /\ merge_cnt = 2) = TRUE
        BY <1>5, <2>1
      <4>3. merge_cnt' = 0
        BY <2>1 DEF Edge, PackSamples
      <4> QED
        BY <4>1, <4>2, <4>3
    <3> QED
      BY <1>1, <1>4, <2>1, <3>1
  <2>2. CASE merge_cnt < 2
    <3>1. merge_cnt' = merge_cnt + 1 /\ ~wr_en'
      <4>1. wr_en' = (capture_delayed /\ merge_cnt = 2)
        BY DEF Edge, PackSamples
      <4>2. (capture_delayed /\ merge_cnt = 2) = FALSE
        BY <2>2
      <4>3. merge_cnt' = merge_cnt + 1
        BY <1>5, <2>2 DEF Edge, PackSamples
      <4> QED
        BY <4>1, <4>2, <4>3
    <3> QED
      BY <1>1, <1>4, <2>2, <3>1
  <2> QED
    BY <2>1, <2>2
<1> QED
  BY <1>1, <1>2, <1>4, <1>5

(* A clock of a capture that has started: the offset runs, then a sample is *)
(* taken at each clock until the counter stops it, two clocks late.         *)
LEMMA ShotEdge ==
    ASSUME UnitTypeOK, ~trigger_now, Shot, Room, NEW t \in BOOLEAN, Edge(t), arm_i, arm_i',
           started' = (started \/ Starts)
    PROVE  /\ Shot'
           /\ Left \in Nat /\ Left' \in Nat
           /\ Left' <= IF Left = 0 THEN 0 ELSE Left - 1
<1> USE OffsetAssumption, SamplesAssumption, DepthAssumption DEF UnitTypeOK
<1>1. reset_arm' /\ ~armed'
  BY DEF Shot, Edge, ResetArm, Armed
<1>2. ~Starts
  BY DEF Shot, Edge, CaptureGo, Triggers, Starts
<1>3. cause' = cause /\ started' /\ cause = "trigger"
  BY <1>2 DEF Shot, Edge, Record
<1>4. CASE Waits
  <2>1. Packed <= Samples + 2 /\ ~wr_en /\ merge_cnt = 0 /\ words = found
    BY <1>4 DEF Waits, Packed
  <2>2. ~full
    BY <2>1 DEF full, Room
  <2>3. /\ ~capture_stop' /\ sample_counter' = 0
        /\ ~wr_en' /\ merge_cnt' = 0 /\ words' = words /\ found' = found
    BY <1>4, <2>1, <2>2 DEF Waits, Edge, CountSamples, PackSamples, Record
  <2>4. capture_go'
    BY <1>4, <2>3 DEF Waits, Edge, CaptureGo, int_reset_capture
  <2>5. capture_delayed' = (delay_cnt = Offset) /\ delay_cnt' = delay_cnt + 1
    BY <1>4 DEF Waits, Edge, Delay
  <2>6. Packed' = 0 /\ words' = found'
    BY <2>1, <2>3 DEF Packed
  <2>7. ASSUME delay_cnt = Offset PROVE Takes'
    <3>1. capture_delayed'
      BY <2>5, <2>7
    <3>2. sample_counter' <= Samples
      BY <2>3
    <3> QED
      BY <2>3, <2>4, <2>6, <3>1, <3>2 DEF Takes
  <2>8. ASSUME delay_cnt # Offset PROVE Waits'
    <3>1. ~capture_delayed' /\ delay_cnt' <= Offset
      BY <1>4, <2>5, <2>8 DEF Waits
    <3> QED
      BY <2>3, <2>4, <2>6, <3>1 DEF Waits
  <2>9. Left \in Nat /\ Left' \in Nat /\ Left' = Left - 1 /\ Left # 0
    <3>1. Left = Offset - delay_cnt + 4 + Samples
      BY <1>4 DEF Waits, Left
    <3>2. CASE delay_cnt = Offset
      <4>1. Left' = Samples - sample_counter' + 3
        BY <2>4, <2>5, <3>2 DEF Left
      <4> QED
        BY <2>3, <3>1, <3>2, <4>1
    <3>3. CASE delay_cnt # Offset
      <4>1. Left' = Offset - delay_cnt' + 4 + Samples
        BY <2>4, <2>5, <3>3 DEF Left
      <4> QED
        BY <1>4, <2>5, <3>1, <3>3, <4>1 DEF Waits
    <3> QED
      BY <3>2, <3>3
  <2> QED
    BY <1>1, <1>3, <2>4, <2>7, <2>8, <2>9 DEF Shot
<1>5. CASE Takes
  <2>1. Packed <= Samples + 2 /\ Packed = sample_counter /\ sample_counter <= Samples
    BY <1>5 DEF Takes
  <2>2. capture_stop' = (sample_counter >= Samples) /\ sample_counter' = sample_counter + 1
    BY <1>5, <2>1, PackEdge DEF Takes, Edge, CountSamples
  <2>3. capture_go' = ~capture_stop'
    BY <1>5 DEF Takes, Edge, CaptureGo, int_reset_capture
  <2>4. capture_delayed'
    BY <1>5 DEF Takes, Edge, Delay
  <2>5. Packed' = sample_counter'
    BY <1>5, <2>1, <2>2, PackEdge DEF Takes
  <2>6. Left = Samples - sample_counter + 3
    BY <1>5 DEF Takes, Left
  <2>7. CASE sample_counter = Samples
    <3>1. ~capture_go' /\ sample_counter' = Samples + 1
      <4>1. sample_counter >= Samples
        BY <2>7
      <4>2. ~capture_go'
        BY <2>2, <2>3, <4>1
      <4> QED
        BY <2>2, <2>7, <4>2
    <3>2. RunsOn'
      BY <2>4, <2>5, <3>1 DEF RunsOn
    <3>3. Left' = 2
      BY <2>4, <3>1 DEF Left
    <3> QED
      BY <1>1, <1>3, <2>6, <2>7, <3>2, <3>3 DEF Shot
  <2>8. CASE sample_counter < Samples
    <3>1. capture_go' /\ ~capture_stop' /\ sample_counter' <= Samples
      <4>1. ~(sample_counter >= Samples) /\ sample_counter + 1 <= Samples
        BY <2>8
      <4>2. capture_go' /\ ~capture_stop'
        BY <2>2, <2>3, <4>1
      <4> QED
        BY <2>2, <4>1, <4>2
    <3>2. Takes'
      BY <2>4, <2>5, <3>1 DEF Takes
    <3>3. Left' = Samples - sample_counter' + 3
      BY <2>4, <3>1 DEF Left
    <3> QED
      BY <1>1, <1>3, <2>2, <2>6, <2>8, <3>1, <3>2, <3>3 DEF Shot
  <2> QED
    BY <2>1, <2>7, <2>8
<1>6. CASE RunsOn
  <2>1. ~capture_go'
    BY <1>2, <1>6 DEF RunsOn, Starts, Edge, CaptureGo
  <2>2. ~capture_delayed' /\ sample_counter' = Samples + 2
    BY <1>6 DEF RunsOn, Edge, Delay, CountSamples
  <2>3. Packed <= Samples + 2 /\ Packed = Samples + 1
    BY <1>6 DEF RunsOn
  <2>4. Packed' = Samples + 2
    BY <1>6, <2>3, PackEdge DEF RunsOn
  <2>5. Ends'
    BY <2>1, <2>2, <2>4 DEF Ends
  <2>6. Left = 2 /\ Left' \in 0..1
    BY <1>6, <2>1, <2>2 DEF RunsOn, Left
  <2> QED
    BY <1>1, <1>3, <2>5, <2>6 DEF Shot
<1>7. CASE Ends
  <2>1. ~capture_go'
    BY <1>2, <1>7 DEF Ends, Starts, Edge, CaptureGo
  <2>2. ~capture_delayed' /\ ~wr_en' /\ merge_cnt' = 0
    BY <1>7 DEF Ends, Edge, Delay, PackSamples
  <2>3. Packed <= Samples + 2 /\ Packed = Samples + 2
    BY <1>7 DEF Ends
  <2>4. found' = found /\ words' = IF wr_en THEN words + 1 ELSE words
    BY <2>3, PackEdge
  <2>5. Whole'
    BY <2>3, <2>4 DEF Packed, Whole
  <2>6. Ended'
    BY <2>1, <2>2, <2>5 DEF Ended
  <2>7. Left \in 0..1 /\ Left' = 0
    BY <1>7, <2>1, <2>2 DEF Ends, Left
  <2> QED
    BY <1>1, <1>3, <2>6, <2>7 DEF Shot
<1>8. CASE Ended
  <2>1. ~capture_go'
    BY <1>2, <1>8 DEF Ended, Starts, Edge, CaptureGo
  <2>2. ~capture_delayed' /\ ~wr_en' /\ merge_cnt' = 0 /\ words' = words /\ found' = found
    BY <1>8 DEF Ended, Edge, Delay, PackSamples, Record
  <2>3. Ended'
    BY <1>8, <2>1, <2>2 DEF Ended, Whole
  <2>4. Left = 0 /\ Left' = 0
    BY <1>8, <2>1, <2>2 DEF Ended, Left
  <2> QED
    BY <1>1, <1>3, <2>3, <2>4 DEF Shot
<1> QED
  BY <1>4, <1>5, <1>6, <1>7, <1>8 DEF Shot

(* A clock of a unit to which the command has come through. *)
LEMMA HeardEdge ==
    ASSUME UnitTypeOK, Heard, Room, NEW t \in BOOLEAN, Edge(t), arm_i, arm_i',
           started' = (started \/ Starts)
    PROVE  Heard' /\ (armed_led' \/ started')
<1>1. CASE Quiet
  BY <1>1, QuietEdge DEF Heard
<1>2. CASE Shot
  <2>1. Shot'
    BY <1>2, ShotEdge DEF Heard
  <2>2. ~trigger_now'
    BY DEF Heard, Edge, trigger_now
  <2> QED
    BY <2>1, <2>2 DEF Heard, Shot
<1> QED
  BY <1>1, <1>2 DEF Heard

(* What the unit has kept of the trigger does not change with a clock that  *)
(* does not arm it.                                                         *)
LEMMA KeptEdge ==
    ASSUME NEW t \in BOOLEAN, Edge(t), arm_i' => arm_i
    PROVE  Kept' = Kept
<1>1. missed' = missed /\ found' = found
  BY DEF Edge, Record
<1> QED
  BY <1>1 DEF Kept, Room

(* One clock brings the command one stage further. *)
LEMMA ComingEdge ==
    ASSUME UnitTypeOK, "ARM" \in settings, NEW n \in Nat, Coming(n),
           NEW t \in BOOLEAN, Edge(t), started' = (started \/ Starts)
    PROVE  Coming(n + 1)'
<1> USE DEF UnitTypeOK
<1>1. pipe' = [i \in 1..4 |-> IF i = 1 THEN TRUE ELSE pipe[i - 1]]
  BY DEF Edge, ArmPipe
<1>2. \A i \in 1..4 : n + 1 >= i => pipe'[i]
  <2> SUFFICES ASSUME NEW i \in 1..4, n + 1 >= i, i # 1 PROVE pipe'[i]
    BY <1>1
  <2>1. i - 1 \in 1..4 /\ n >= i - 1
    OBVIOUS
  <2> QED
    BY <1>1, <2>1 DEF Coming
<1>3. \A i \in 1..3 : pipe'[i + 1] => pipe'[i]
  <2> SUFFICES ASSUME NEW i \in 1..3, pipe'[i + 1], i # 1 PROVE pipe'[i]
    BY <1>1
  <2>1. i - 1 \in 1..3 /\ i + 1 \in 1..4 /\ i \in 1..4 /\ (i - 1) + 1 = i /\ (i + 1) - 1 = i
    OBVIOUS
  <2>2. pipe[i]
    BY <1>1, <2>1
  <2>3. pipe[i - 1]
    BY <2>1, <2>2 DEF Coming
  <2> QED
    BY <1>1, <2>1, <2>3
<1>4. arm_i => arm_i'
  <2>1. 3 \in 1..3 /\ 3 + 1 = 4 /\ 4 - 1 = 3
    OBVIOUS
  <2> QED
    BY <1>1, <2>1 DEF Coming, arm_i
<1>5. CASE ~arm_i
  <2>1. Idle'
    BY <1>5, IdleEdge DEF Coming
  <2>2. arm_i' /\ Kept' => Heard'
    BY <1>5, RiseEdge DEF Coming, Kept
  <2>3. n < 4
    BY <1>5 DEF Coming, arm_i
  <2> QED
    BY <1>2, <1>3, <2>1, <2>2, <2>3 DEF Coming
<1>6. CASE arm_i
  <2>1. Kept' = Kept
    BY <1>6, KeptEdge
  <2>2. Kept => Heard' /\ (armed_led' \/ started')
    BY <1>4, <1>6, HeardEdge DEF Coming, Kept
  <2> QED
    BY <1>2, <1>3, <1>4, <1>6, <2>1, <2>2 DEF Coming
<1> QED
  BY <1>5, <1>6

(* A clock while capture() runs. *)
LEMMA HereEdge ==
    ASSUME UnitTypeOK, "ARM" \in settings, Here, NEW t \in BOOLEAN, Edge(t),
           started' = (started \/ Starts)
    PROVE  Here' /\ arm_i /\ arm_i' /\ Kept' = Kept
<1>1. pipe' = [i \in 1..4 |-> IF i = 1 THEN TRUE ELSE pipe[i - 1]]
  BY DEF Edge, ArmPipe
<1>2. Up'
  BY <1>1 DEF Here, Up
<1>3. arm_i /\ arm_i'
  BY <1>2 DEF Here, Up, arm_i
<1>4. Kept' = Kept
  BY <1>3, KeptEdge
<1>5. Kept => Heard' /\ (armed_led' \/ started')
  BY <1>3, HeardEdge DEF Here, Kept
<1> QED
  BY <1>2, <1>3, <1>4, <1>5 DEF Here

(* A clock after arm(False) has cut the unit off. *)
LEMMA OverEdge ==
    ASSUME UnitTypeOK, "ARM" \notin settings, Over, NEW t \in BOOLEAN, Edge(t),
           started' = (started \/ Starts)
    PROVE  Over'
<1> USE DEF UnitTypeOK
<1>1. ~pipe'[1] /\ \A i \in 2..4 : pipe'[i] = pipe[i - 1]
  <2>1. pipe' = [i \in 1..4 |-> IF i = 1 THEN "ARM" \in settings ELSE pipe[i - 1]]
    BY DEF Edge, ArmPipe
  <2>2. pipe'[1] = FALSE
    <3>1. pipe'[1] = ("ARM" \in settings)
      BY <2>1
    <3>2. ("ARM" \in settings) = FALSE
      OBVIOUS
    <3> QED
      BY <3>1, <3>2
  <2>3. ASSUME NEW i \in 2..4 PROVE pipe'[i] = pipe[i - 1]
    BY <2>1
  <2> QED
    BY <2>2, <2>3
<1>2. \A i \in 1..3 : pipe'[i] => pipe'[i + 1]
  <2> SUFFICES ASSUME NEW i \in 1..3, pipe'[i], i # 1 PROVE pipe'[i + 1]
    BY <1>1
  <2>1. i - 1 \in 1..3 /\ i + 1 \in 1..4 /\ i \in 1..4 /\ (i - 1) + 1 = i /\ (i + 1) - 1 = i
    OBVIOUS
  <2>2. pipe[i - 1]
    BY <1>1, <2>1
  <2>3. pipe[i]
    BY <2>1, <2>2 DEF Over
  <2> QED
    BY <1>1, <2>1, <2>3
<1>3. arm_i' => arm_i
  <2>1. 3 \in 1..3 /\ 3 + 1 = 4 /\ 4 - 1 = 3
    OBVIOUS
  <2> QED
    BY <1>1, <2>1 DEF Over, arm_i
<1>4. Kept' = Kept
  BY <1>3, KeptEdge
<1>5. ASSUME Kept
      PROVE  /\ ~trigger_now'
             /\ started' /\ cause' = "trigger" /\ Ended'
             /\ arm_i' => reset_arm' /\ ~armed'
  <2>1. ~trigger_now'
    BY <1>5 DEF Over, Edge, trigger_now
  <2>2. ~capture_go'
    BY <1>5 DEF Over, Ended, Edge, CaptureGo, Triggers, int_reset_capture
  <2>3. started' /\ cause' = "trigger"
    <3>1. cause' = cause
      BY <1>3, <2>2 DEF Edge, Record, Starts
    <3> QED
      BY <1>5, <3>1 DEF Over
  <2>4. Ended'
    <3>1. ~capture_go /\ ~capture_delayed /\ ~wr_en /\ merge_cnt = 0 /\ Whole
      BY <1>5 DEF Over, Ended
    <3>2. ~capture_delayed' /\ ~wr_en' /\ merge_cnt' = 0 /\ words' = words /\ found' = found
      BY <1>3, <3>1 DEF Edge, Delay, PackSamples, Record
    <3> QED
      BY <2>2, <3>1, <3>2 DEF Ended, Whole
  <2>5. arm_i' => reset_arm' /\ ~armed'
    BY <1>3, <1>5 DEF Over, Edge, ResetArm, Armed
  <2> QED
    BY <2>1, <2>3, <2>4, <2>5
<1> QED
  BY <1>2, <1>4, <1>5 DEF Over

(* How far a capture that has started can be from its end. *)
LEMMA LeftBound ==
    ASSUME UnitTypeOK, Shot
    PROVE  Left \in Nat /\ Left <= Offset + Samples + 4 /\ (Left = 0 => Ended)
<1> USE OffsetAssumption, SamplesAssumption, DepthAssumption DEF UnitTypeOK
<1>1. CASE Waits
  BY <1>1 DEF Waits, Left
<1>2. CASE Takes
  BY <1>2 DEF Takes, Left
<1>3. CASE RunsOn
  BY <1>3 DEF RunsOn, Left
<1>4. CASE Ends
  <2>1. Left = IF wr_en \/ merge_cnt # 0 THEN 1 ELSE 0
    BY <1>4 DEF Ends, Left
  <2>2. ASSUME ~wr_en, merge_cnt = 0 PROVE Ended
    <3>1. 3 * (words - found) = Samples + 2
      BY <1>4, <2>2 DEF Ends, Packed
    <3>2. Whole
      BY <3>1 DEF Whole
    <3> QED
      BY <1>4, <2>2, <3>2 DEF Ends, Ended
  <2> QED
    BY <2>1, <2>2
<1>5. CASE Ended
  BY <1>5 DEF Ended, Left
<1> QED
  BY <1>1, <1>2, <1>3, <1>4, <1>5 DEF Shot

-----------------------------------------------------------------------------
(* What holds of the unit at each step of arm() and capture(), counted from *)
(* the message under way: MessageClocks - busy clocks after the write.      *)
OnRead == "ARM" \notin settings /\ busy <= MessageClocks /\ Clear(MessageClocks - busy)
OnWrite == "ARM" \notin settings /\ busy <= MessageClocks /\ Clear(2 * MessageClocks - busy)
OnArmed == "ARM" \in settings /\ busy <= MessageClocks /\ Coming(MessageClocks - busy)
OnPass == "ARM" \in settings /\ Here
OnEndRead == Kept => Shot /\ Left <= busy + 4
OnEndWrite ==
    /\ busy <= MessageClocks /\ cached = settings
    /\ Kept => Shot /\ Left <= 4 /\ (Left > 0 => Left + MessageClocks <= busy + 4)

Path ==
    /\ pc \in {"force", "force off"} => timeout
    /\ running =>
         /\ pc = "on read" => OnRead
         /\ pc = "on write" => OnWrite
         /\ pc = "armed" => OnArmed
         /\ pc = "first" => OnPass
         /\ ~timeout /\ pc \in {"poll", "end read", "end write"} => OnPass
         /\ ~timeout /\ pc = "poll" /\ ~Waiting /\ Kept => Shot
         /\ ~timeout /\ pc = "end read" => OnEndRead
         /\ ~timeout /\ pc = "end write" => OnEndWrite
         /\ ~timeout /\ pc = "captured" => "ARM" \notin settings /\ Over

(* The clocks until a message is over, and those since it began. *)
LEMMA Elapsed ==
    ASSUME busy \in Nat, busy <= MessageClocks,
           busy' = IF busy = 0 THEN 0 ELSE busy - 1
    PROVE  /\ MessageClocks - busy \in Nat /\ 2 * MessageClocks - busy \in Nat
           /\ busy' \in Nat /\ busy' <= MessageClocks
           /\ MessageClocks - busy' <= (MessageClocks - busy) + 1
           /\ 2 * MessageClocks - busy' <= (2 * MessageClocks - busy) + 1
           /\ MessageClocks - busy' \in Nat /\ 2 * MessageClocks - busy' \in Nat
BY MessageClocksAssumption

(* A clock while arm() takes the command back. *)
LEMMA TickOff ==
    ASSUME UnitTypeOK, busy \in Nat, Tick
    PROVE  (OnRead => OnRead') /\ (OnWrite => OnWrite')
<1>1. PICK t \in BOOLEAN : Edge(t)
  BY DEF Tick
<1>2. settings' = settings /\ busy' = IF busy = 0 THEN 0 ELSE busy - 1
  BY <1>1 DEF Tick, Edge
<1>3. ASSUME OnRead PROVE OnRead'
  <2>1. PICK n \in Nat : n = MessageClocks - busy
    BY <1>2, <1>3, Elapsed DEF OnRead
  <2>2. Clear(n + 1)'
    BY <1>1, <1>3, <2>1, ClearEdge DEF OnRead
  <2>3. MessageClocks - busy' <= n + 1 /\ MessageClocks - busy' \in Nat /\ busy' <= MessageClocks
    BY <1>2, <1>3, <2>1, Elapsed DEF OnRead
  <2>4. Clear(MessageClocks - busy)'
    BY <2>2, <2>3 DEF Clear
  <2> QED
    BY <1>2, <1>3, <2>3, <2>4 DEF OnRead
<1>4. ASSUME OnWrite PROVE OnWrite'
  <2>1. PICK n \in Nat : n = 2 * MessageClocks - busy
    BY <1>2, <1>4, Elapsed DEF OnWrite
  <2>2. Clear(n + 1)'
    BY <1>1, <1>4, <2>1, ClearEdge DEF OnWrite
  <2>3. 2 * MessageClocks - busy' <= n + 1 /\ 2 * MessageClocks - busy' \in Nat
        /\ busy' <= MessageClocks
    BY <1>2, <1>4, <2>1, Elapsed DEF OnWrite
  <2>4. Clear(2 * MessageClocks - busy)'
    BY <2>2, <2>3 DEF Clear
  <2> QED
    BY <1>2, <1>4, <2>3, <2>4 DEF OnWrite
<1> QED
  BY <1>3, <1>4

(* A clock while the arm command is on its way. *)
LEMMA TickArmed ==
    ASSUME UnitTypeOK, busy \in Nat, Tick, OnArmed
    PROVE  OnArmed'
<1>1. PICK t \in BOOLEAN : Edge(t)
  BY DEF Tick
<1>2. settings' = settings /\ busy' = IF busy = 0 THEN 0 ELSE busy - 1
  BY <1>1 DEF Tick, Edge
<1>3. PICK n \in Nat : n = MessageClocks - busy
  BY <1>2, Elapsed DEF OnArmed
<1>4. Coming(n + 1)'
  BY <1>1, <1>3, ComingEdge DEF OnArmed, Tick
<1>5. MessageClocks - busy' <= n + 1 /\ MessageClocks - busy' \in Nat /\ busy' <= MessageClocks
  BY <1>2, <1>3, Elapsed DEF OnArmed
<1>6. Coming(MessageClocks - busy)'
  BY <1>4, <1>5 DEF Coming
<1> QED
  BY <1>2, <1>5, <1>6 DEF OnArmed

(* A clock while capture() runs, or after it. *)
LEMMA TickPass ==
    ASSUME UnitTypeOK, HostTypes, Tick
    PROVE  /\ OnPass => OnPass'
           /\ OnPass /\ Kept /\ Shot => Kept' /\ Shot'
           /\ OnPass /\ OnEndRead => OnEndRead'
           /\ OnPass /\ OnEndWrite => OnEndWrite'
           /\ "ARM" \notin settings /\ Over => "ARM" \notin settings' /\ Over'
<1>1. PICK t \in BOOLEAN : Edge(t)
  BY DEF Tick
<1>2. settings' = settings /\ cached' = cached /\ busy' = IF busy = 0 THEN 0 ELSE busy - 1
  BY <1>1 DEF Tick, Edge, hostVars
<1>3. started' = (started \/ Starts)
  BY DEF Tick
<1>4. ASSUME OnPass PROVE OnPass' /\ arm_i /\ arm_i' /\ Kept' = Kept
  BY <1>1, <1>2, <1>3, <1>4, HereEdge DEF OnPass
<1>5. ASSUME OnPass, Kept, Shot
      PROVE  /\ Shot' /\ Left \in Nat /\ Left' \in Nat
             /\ Left' <= IF Left = 0 THEN 0 ELSE Left - 1
  <2>1. ~trigger_now
    BY <1>5 DEF OnPass, Here, Heard
  <2> QED
    BY <1>1, <1>3, <1>4, <1>5, <2>1, ShotEdge DEF Kept
<1>6. ASSUME OnPass, OnEndRead PROVE OnEndRead'
  <2>1. ASSUME Kept' PROVE Shot' /\ Left' <= busy' + 4
    <3>1. Kept /\ Shot /\ Left <= busy + 4
      BY <1>4, <1>6, <2>1 DEF OnEndRead
    <3>2. Shot' /\ Left \in Nat /\ Left' \in Nat /\ Left' <= IF Left = 0 THEN 0 ELSE Left - 1
      BY <1>5, <1>6, <3>1
    <3> QED
      BY <1>2, <3>1, <3>2 DEF HostTypes
  <2> QED
    BY <2>1 DEF OnEndRead
<1>7. ASSUME OnPass, OnEndWrite PROVE OnEndWrite'
  BY <1>2, <1>4, <1>5, <1>7, MessageClocksAssumption DEF OnEndWrite, HostTypes
<1>8. ASSUME "ARM" \notin settings, Over PROVE "ARM" \notin settings' /\ Over'
  BY <1>1, <1>2, <1>3, <1>8, OverEdge
<1> QED
  BY <1>4, <1>5, <1>6, <1>7, <1>8

(* A clock keeps the path. *)
LEMMA TickPath ==
    ASSUME UnitTypeOK, HostTypes, Path, Tick
    PROVE  Path'
<1>1. running /\ running' /\ pc' = pc /\ timeout' = timeout /\ status' = status
  BY DEF Tick, hostVars
<1>2. Waiting' = Waiting
  BY <1>1 DEF Waiting
<1>3. busy \in Nat
  BY DEF HostTypes
<1>4. (pc = "on read" => OnRead') /\ (pc = "on write" => OnWrite')
  BY <1>1, <1>3, TickOff DEF Path
<1>5. pc = "armed" => OnArmed'
  BY <1>1, <1>3, TickArmed DEF Path
<1>6. pc = "first" \/ (~timeout /\ pc \in {"poll", "end read", "end write"}) => OnPass /\ OnPass'
  BY <1>1, TickPass DEF Path
<1>7. ~timeout /\ pc = "poll" /\ ~Waiting /\ Kept' => Shot'
  <2>1. ASSUME OnPass PROVE Kept' = Kept
    <3>1. PICK t \in BOOLEAN : Edge(t)
      BY DEF Tick
    <3> QED
      BY <2>1, <3>1, HereEdge DEF OnPass, Tick
  <2> QED
    BY <1>1, <1>6, <2>1, TickPass DEF Path
<1>8. (~timeout /\ pc = "end read" => OnEndRead') /\ (~timeout /\ pc = "end write" => OnEndWrite')
  BY <1>1, <1>6, TickPass DEF Path
<1>9. ~timeout /\ pc = "captured" => "ARM" \notin settings' /\ Over'
  BY <1>1, TickPass DEF Path
<1> QED
  BY <1>1, <1>2, <1>4, <1>5, <1>6, <1>7, <1>8, <1>9 DEF Path

(* What is said of the unit does not depend on the host: a step of the host *)
(* that writes nothing leaves it as it is.                                  *)
LEMMA UnitUntouched ==
    ASSUME UNCHANGED <<unitVars, started>>
    PROVE  /\ Here' = Here /\ Shot' = Shot /\ Over' = Over /\ Left' = Left
           /\ settings' = settings /\ Kept' = Kept /\ Status' = Status
           /\ \A n \in Nat : Clear(n)' = Clear(n) /\ Coming(n)' = Coming(n)
<1> USE DEF unitVars, unitRegs, unitHistory
<1>0. Packed' = Packed /\ Whole' = Whole /\ Kept' = Kept /\ full' = full
  BY DEF Packed, Whole, Kept, Room, full
<1>1. Idle' = Idle /\ arm_i' = arm_i /\ trigger_now' = trigger_now /\ Up' = Up /\ Left' = Left
  BY <1>0 DEF Idle, arm_i, trigger_now, Up, Left
<1>6. Waits' = Waits /\ Takes' = Takes /\ RunsOn' = RunsOn /\ Ends' = Ends /\ Ended' = Ended
  BY <1>0 DEF Waits, Takes, RunsOn, Ends, Ended
<1>2. Shot' = Shot /\ Quiet' = Quiet
  BY <1>1, <1>6 DEF Shot, Quiet
<1>3. Heard' = Heard
  BY <1>1, <1>2 DEF Heard
<1>4. Here' = Here /\ Over' = Over
  BY <1>0, <1>1, <1>3, <1>6 DEF Here, Over
<1>5. \A n \in Nat : Clear(n)' = Clear(n) /\ Coming(n)' = Coming(n)
  BY <1>0, <1>1, <1>3 DEF Clear, Coming
<1> QED
  BY <1>0, <1>1, <1>2, <1>4, <1>5 DEF Status

(* The writes of arm(): the command is taken back, and comes again to a     *)
(* unit that has been without it for long enough.                           *)
LEMMA ArmWrites ==
    ASSUME UnitTypeOK, HostTypes, running, Path
    PROVE  /\ ArmOffWrite => OnRead'
           /\ ArmOnRead => OnWrite'
           /\ ArmOnWrite => OnArmed'
<1> USE MessageClocksAssumption DEF At, Message, Ready
<1>1. ASSUME ArmOffWrite PROVE OnRead'
  <2>1. "ARM" \notin settings' /\ busy' = MessageClocks
    BY <1>1 DEF ArmOffWrite, SetSettings, WriteSettings
  <2>2. Clear(0)'
    BY DEF Clear
  <2>3. MessageClocks - busy' = 0
    BY <2>1
  <2> QED
    BY <2>1, <2>2, <2>3 DEF OnRead
<1>2. ASSUME ArmOnRead PROVE OnWrite'
  <2>1. busy = 0 /\ OnRead
    BY <1>2 DEF ArmOnRead, Path
  <2>2. Clear(MessageClocks)
    BY <2>1 DEF OnRead
  <2>3. UNCHANGED <<unitVars, started>> /\ busy' = MessageClocks
    BY <1>2 DEF ArmOnRead, ReadSettings
  <2>4. Clear(MessageClocks)' /\ settings' = settings
    BY <2>2, <2>3, UnitUntouched
  <2>5. 2 * MessageClocks - busy' = MessageClocks
    BY <2>3
  <2> QED
    BY <2>1, <2>3, <2>4, <2>5 DEF OnRead, OnWrite
<1>3. ASSUME ArmOnWrite PROVE OnArmed'
  <2>1. busy = 0 /\ OnWrite
    BY <1>3 DEF ArmOnWrite, Path
  <2>2. /\ \A i \in 1..4 : ~pipe[i]
        /\ ~capture_go /\ ~capture_delayed /\ (capture_stop => full)
        /\ sample_counter = 0 /\ merge_cnt = 0 /\ ~wr_en
    <3>1. Clear(2 * MessageClocks) /\ 2 * MessageClocks >= 7
      BY <2>1 DEF OnWrite
    <3> QED
      BY <3>1 DEF Clear
  <2>3. "ARM" \in settings' /\ busy' = MessageClocks /\ started' = FALSE
        /\ UNCHANGED <<unitRegs, words, unitHistory>>
    BY <1>3 DEF ArmOnWrite, SetSettings, WriteSettings
  <2>4. \A i \in 1..4 : ~pipe'[i]
    BY <2>2, <2>3 DEF unitRegs
  <2>5. Idle' /\ ~arm_i'
    BY <2>2, <2>3, <2>4 DEF unitRegs, Idle, arm_i, full
  <2>6. Coming(0)'
    <3>1. \A i \in 1..3 : ~pipe'[i + 1]
      BY <2>4
    <3> QED
      BY <2>4, <2>5, <3>1 DEF Coming
  <2>7. MessageClocks - busy' = 0
    BY <2>3
  <2> QED
    BY <2>3, <2>6, <2>7 DEF OnArmed
<1> QED
  BY <1>1, <1>2, <1>3

(* The last write of capture(): nothing of the capture is left to cut off.  *)
LEMMA EndWriteOver ==
    ASSUME UnitTypeOK, HostTypes, running, ~timeout, Path, EndWrite
    PROVE  "ARM" \notin settings' /\ Over'
<1>1. busy = 0 /\ OnPass /\ OnEndWrite
  BY DEF EndWrite, At, Ready, Path
<1>2. settings' = settings \ {"ARM"} /\ UNCHANGED <<unitRegs, words, unitHistory, started>>
  BY <1>1 DEF EndWrite, At, SetSettings, WriteSettings, OnEndWrite
<1>3. \A i \in 1..3 : pipe'[i] => pipe'[i + 1]
  <2>1. \A i \in 1..3 : i + 1 \in 1..4
    OBVIOUS
  <2> QED
    BY <1>1, <1>2, <2>1 DEF OnPass, Here, Up, unitRegs
<1>4. ASSUME Kept
      PROVE  /\ ~trigger_now'
             /\ started' /\ cause' = "trigger" /\ Ended'
             /\ reset_arm' /\ ~armed'
  <2>1. Shot /\ Left \in Nat /\ (Left > 0 => Left + MessageClocks <= 4) /\ ~trigger_now
    BY <1>1, <1>4, LeftBound DEF OnEndWrite, OnPass, Here, Heard
  <2>2. ~trigger_now'
    BY <1>2, <2>1 DEF trigger_now
  <2>3. Ended
    <3>1. Left = 0
      BY <2>1, MessageClocksAssumption
    <3> QED
      BY <2>1, <3>1, LeftBound
  <2>4. Ended'
    BY <1>2, <2>3 DEF Ended, Whole, unitRegs, unitHistory
  <2>5. reset_arm /\ ~armed
    BY <2>1, <2>3 DEF Shot, Ended
  <2> QED
    BY <1>2, <2>1, <2>2, <2>4, <2>5 DEF Shot, unitRegs, unitHistory
<1>5. Kept' = Kept
  BY <1>2 DEF Kept, Room, unitHistory
<1> QED
  BY <1>2, <1>3, <1>4, <1>5 DEF Over

(* The steps of capture() up to its last write. *)
LEMMA CaptureReads ==
    ASSUME UnitTypeOK, HostTypes, running, Path
    PROVE  /\ CallCapture => OnPass'
           /\ FirstStatus /\ ~timeout => OnPass' /\ (~Waiting' /\ Kept' => Shot')
           /\ Poll /\ ~timeout' => OnPass' /\ (~Waiting' /\ Kept' => Shot')
           /\ Triggered /\ ~timeout => OnPass' /\ OnEndRead'
           /\ EndRead /\ ~timeout => OnPass' /\ OnEndWrite'
<1> USE DEF At, Message, Ready
<1>1. ASSUME OnPass, ~Status.arm, Kept PROVE Shot
  BY <1>1 DEF OnPass, Here, Heard, Status, Quiet, Idle
<1>2. ASSUME OnPass, UNCHANGED <<unitVars, started>> PROVE OnPass'
  BY <1>2, UnitUntouched DEF OnPass
<1>3. ASSUME CallCapture PROVE OnPass'
  <2>1. busy = 0 /\ OnArmed /\ UNCHANGED <<unitVars, started>>
    BY <1>3 DEF CallCapture, Path
  <2>2. Coming(MessageClocks)
    BY <2>1, MessageClocksAssumption DEF OnArmed
  <2>3. Here
    BY <2>2, MessageClocksAssumption DEF Coming, Here, Up, arm_i
  <2> QED
    BY <1>2, <2>1, <2>3 DEF OnArmed, OnPass
<1>4. ASSUME OnPass, UNCHANGED <<unitVars, started>>, status' = Status
      PROVE  OnPass' /\ (~Waiting' /\ Kept' => Shot')
  <2>1. ~Waiting' => ~Status.arm
    BY <1>4 DEF Waiting
  <2> QED
    BY <1>1, <1>2, <1>4, <2>1, UnitUntouched
<1>5. ASSUME FirstStatus, ~timeout PROVE OnPass' /\ (~Waiting' /\ Kept' => Shot')
  BY <1>4, <1>5 DEF FirstStatus, Path
<1>6. ASSUME Poll, ~timeout' PROVE OnPass' /\ (~Waiting' /\ Kept' => Shot')
  BY <1>4, <1>6 DEF Poll, Path
<1>7. ASSUME Triggered, ~timeout PROVE OnPass' /\ OnEndRead'
  <2>1. OnPass /\ (Kept => Shot) /\ UNCHANGED <<unitVars, started>>
    BY <1>7 DEF Triggered, Path
  <2>2. busy' = Offset + Samples
    BY <1>7 DEF Triggered, FinishTime
  <2>3. Kept' => Shot' /\ Left' <= Offset + Samples + 4
    BY <2>1, LeftBound, UnitUntouched
  <2> QED
    BY <1>2, <2>1, <2>2, <2>3 DEF OnEndRead
<1>8. ASSUME EndRead, ~timeout PROVE OnPass' /\ OnEndWrite'
  <2>1. busy = 0 /\ OnPass /\ OnEndRead /\ UNCHANGED <<unitVars, started>>
    BY <1>8 DEF EndRead, ReadSettings, Path
  <2>2. busy' = MessageClocks /\ cached' = settings /\ settings' = settings
    BY <1>8, <2>1, UnitUntouched DEF EndRead, ReadSettings
  <2>3. ASSUME Kept' PROVE Shot' /\ Left' \in Nat /\ Left' <= 4
    <3>1. Shot /\ Left <= busy + 4
      <4>1. Kept
        BY <2>1, <2>3, UnitUntouched
      <4> QED
        BY <2>1, <4>1 DEF OnEndRead
    <3>2. busy + 4 = 4
      BY <2>1
    <3> QED
      BY <2>1, <3>1, <3>2, LeftBound, UnitUntouched
  <2>4. ASSUME Kept' PROVE Left' + MessageClocks <= busy' + 4
    BY <2>2, <2>3, <2>4, MessageClocksAssumption
  <2>5. OnEndWrite'
    BY <2>2, <2>3, <2>4, MessageClocksAssumption DEF OnEndWrite
  <2> QED
    BY <1>2, <2>1, <2>5
<1> QED
  BY <1>3, <1>5, <1>6, <1>7, <1>8

(* Every step keeps the path. *)
LEMMA PathKept ==
    ASSUME UnitTypeOK, HostTypes, Path, [Next]_vars
    PROVE  Path'
<1> USE DEF At, Message
<1>1. CASE Tick
  BY <1>1, TickPath
<1>2. CASE CallArm \/ ArmOffRead \/ Interrupt \/ StopClock \/ TriggerNow \/ ReadData
  <2>1. CASE CallArm \/ ArmOffRead
    BY <2>1 DEF CallArm, ArmOffRead, ReadSettings, Path
  <2>2. CASE Interrupt
    BY <2>2 DEF Interrupt, Path
  <2>3. CASE StopClock
    BY <2>3 DEF StopClock, hostVars, Path
  <2>4. CASE TriggerNow
    BY <2>4 DEF TriggerNow, Path
  <2>5. CASE ReadData
    BY <2>5 DEF ReadData, Path
  <2> QED
    BY <1>2, <2>1, <2>2, <2>3, <2>4, <2>5
<1>3. CASE ArmOffWrite
  <2>1. running' = running /\ pc' = "on read"
    BY <1>3 DEF ArmOffWrite, SetSettings
  <2> QED
    BY <1>3, <2>1, ArmWrites DEF Path
<1>4. CASE ArmOnRead
  <2>1. running' = running /\ pc' = "on write"
    BY <1>4 DEF ArmOnRead, ReadSettings
  <2> QED
    BY <1>4, <2>1, ArmWrites DEF Path
<1>5. CASE ArmOnWrite
  <2>1. running' = running /\ pc' = "armed"
    BY <1>5 DEF ArmOnWrite, SetSettings
  <2> QED
    BY <1>5, <2>1, ArmWrites DEF Path
<1>6. CASE CallCapture
  <2>1. running' = running /\ pc' = "first"
    BY <1>6 DEF CallCapture
  <2> QED
    BY <1>6, <2>1, CaptureReads DEF Path
<1>7. CASE FirstStatus
  <2>1. running' = running /\ pc' = "poll" /\ timeout' = timeout
    BY <1>7 DEF FirstStatus
  <2> QED
    BY <1>7, <2>1, CaptureReads DEF Path
<1>8. CASE Poll
  <2>1. running' = running /\ pc' \in {"poll", "force"} /\ (pc' = "force" => timeout')
    BY <1>8 DEF Poll
  <2> QED
    BY <1>8, <2>1, CaptureReads DEF Path
<1>9. CASE Triggered
  <2>1. running' = running /\ pc' = "end read" /\ timeout' = timeout
    BY <1>9 DEF Triggered
  <2> QED
    BY <1>9, <2>1, CaptureReads DEF Path
<1>10. CASE EndRead
  <2>1. running' = running /\ pc' = "end write" /\ timeout' = timeout
    BY <1>10 DEF EndRead, ReadSettings
  <2> QED
    BY <1>10, <2>1, CaptureReads DEF Path
<1>11. CASE EndWrite
  <2>1. running' = running /\ pc' = "captured" /\ timeout' = timeout
    BY <1>11 DEF EndWrite, SetSettings
  <2> QED
    BY <1>11, <2>1, EndWriteOver DEF Path
<1>12. CASE ForceOff
  <2>1. pc' \in {"poll", "end read"} /\ timeout' /\ running' = running
    BY <1>12 DEF ForceOff, SetSettings, Path
  <2> QED
    BY <2>1 DEF Path
<1>13. CASE Expire
  <2>1. pc = "poll" /\ UNCHANGED <<unitVars, started, running, pc, timeout, status>>
    BY <1>13 DEF Expire
  <2>2. OnPass' = OnPass /\ Shot' = Shot /\ Kept' = Kept /\ Waiting' = Waiting
    BY <2>1, UnitUntouched DEF OnPass, Waiting
  <2> QED
    BY <2>1, <2>2 DEF Path
<1>14. CASE UNCHANGED vars
  <2>1. Here' = Here /\ Shot' = Shot /\ Over' = Over /\ Left' = Left /\ settings' = settings
        /\ Kept' = Kept
    BY <1>14, UnitUntouched DEF vars
  <2>2. UNCHANGED <<hostVars, busy, running>>
    BY <1>14 DEF vars
  <2>3. /\ OnPass' = OnPass /\ OnEndRead' = OnEndRead /\ OnEndWrite' = OnEndWrite
        /\ Waiting' = Waiting
    BY <2>1, <2>2 DEF OnPass, OnEndRead, OnEndWrite, Waiting, hostVars
  <2>4. OnRead' = OnRead /\ OnWrite' = OnWrite /\ OnArmed' = OnArmed
    BY <1>14 DEF OnRead, OnWrite, OnArmed, Clear, Coming, Idle, Heard, Quiet, Shot, Kept, Room,
       Waits, Takes, RunsOn, Ends, Ended, Packed, Whole, full,
       arm_i, trigger_now, vars, unitVars, unitRegs, unitHistory
  <2> QED
    BY <2>1, <2>2, <2>3, <2>4 DEF Path, hostVars
<1> QED
  BY <1>1, <1>2, <1>3, <1>4, <1>5, <1>6, <1>7, <1>8, <1>9, <1>10, <1>11, <1>12, <1>13, <1>14
     DEF Next, Host

(* The path is an invariant. *)
LEMMA PathAlways == Spec => []Path
<1>1. Init => Path
  BY DEF Init, Path
<1>2. TypeOK => UnitTypeOK /\ HostTypes
  BY DEF TypeOK, HostTypes
<1>3. TypeOK /\ Path /\ [Next]_vars => Path'
  BY <1>2, PathKept
<1> QED
  BY <1>1, <1>3, CaptureTypes, PTL DEF Spec

(* Messages of at least MessageClocks clocks give the unit the time to see  *)
(* the command before capture() reads its first status: a unit that is not  *)
(* armed then has triggered (_OpenADCInterface.py:646, 708-712).            *)
THEOREM FirstStatusInTime == Spec => []FirstStatusSeesArm
<1>1. Path => FirstStatusSeesArm
  BY DEF Path, OnPass, Here, Kept, FirstStatusSeesArm
<1> QED
  BY <1>1, PathAlways, PTL

(* A capture() without a timeout has a whole capture that the line has      *)
(* started since arm() in the FIFO, whatever the offset, the length and the *)
(* times of messages and trigger, as long as the FIFO had room for the      *)
(* length when the unit was armed; it is full words that are counted, so    *)
(* the last of them needs the clocks that the capture runs on after the     *)
(* counter has got to the length (_OpenADCInterface.py:708-753,             *)
(* fifo_top.v:99-140).                                                      *)
THEOREM OkIsWhole == Spec => []OkMeansWhole
<1>1. Path => OkMeansWhole
  BY DEF Path, Over, Ended, Kept, OkMeansWhole
<1> QED
  BY <1>1, PathAlways, PTL
=============================================================================
