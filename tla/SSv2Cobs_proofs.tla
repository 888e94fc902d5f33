-------------------------- MODULE SSv2Cobs_proofs --------------------------
(***************************************************************************)
(* Whatever bytes a frame holds and whatever its length, stuffing it and   *)
(* taking the stuffing out again gives the frame back, on both paths.      *)
(*                                                                         *)
(* The inductive invariant says, for each stage, which bytes of buf are    *)
(* still (or again) those of orig and which hold a code, a code being the  *)
(* distance to the next FRAME_BYTE of orig (CodedAt).  The stuffing loop   *)
(* moves the border between the two up to the terminator; an unstuffing    *)
(* loop moves it from the first byte up to the terminator again, and its   *)
(* `next' is always at a FRAME_BYTE of orig (Restored).                    *)
(***************************************************************************)
EXTENDS SSv2Cobs, TLAPS

NextZero(j, k) ==
    /\ k \in j + 1 .. n - 1
    /\ orig[k] = FRAME_BYTE
    /\ \A m \in j + 1 .. k - 1 : orig[m] # FRAME_BYTE

CodedAt(j) ==
    IF orig[j] = FRAME_BYTE THEN NextZero(j, j + buf[j]) ELSE buf[j] = orig[j]

\* The codes before p are taken out, and p is the place of the next one.
Restored(p) ==
    /\ p \in 0 .. n - 1
    /\ orig[p] = FRAME_BYTE
    /\ \A j \in 0 .. p - 1 : buf[j] = orig[j]
    /\ \A j \in p .. n - 2 : CodedAt(j)
    /\ buf[n - 1] = FRAME_BYTE

FrameInv ==
    /\ n \in 6 .. 249
    /\ orig \in [0 .. n - 1 -> Byte]
    /\ WellFormed(dir, orig, n)

StuffInv ==
    pc = "stuff" =>
        /\ i \in 1 .. n
        /\ last \in 0 .. i - 1
        /\ orig[last] = FRAME_BYTE
        /\ \A m \in last + 1 .. i - 1 : orig[m] # FRAME_BYTE
        /\ \A j \in 0 .. last - 1 : CodedAt(j)
        /\ \A j \in last .. n - 1 : buf[j] = orig[j]

WireInv ==
    pc = "wire" =>
        /\ \A j \in 0 .. n - 2 : CodedAt(j)
        /\ buf[n - 1] = FRAME_BYTE

HeaderInv ==
    pc = "header" =>
        /\ dir = "cmd"
        /\ Restored(next)
        /\ tmp # 0
        /\ \A k \in 4 .. n - 2 : buf[k] # FRAME_BYTE

RestInv ==
    pc = "rest" =>
        /\ Restored(base + next)
        /\ tmp = 0 => base + next = n - 1

HostInv == pc = "host" => Restored(next)

IInv ==
    /\ TypeOK
    /\ FrameInv
    /\ StuffInv
    /\ WireInv
    /\ HeaderInv
    /\ RestInv
    /\ HostInv
    /\ RoundTrip
    /\ NeverRejected

-----------------------------------------------------------------------------
(* A code is never zero, so the bytes of a stuffed frame before the          *)
(* terminator are never FRAME_BYTE.                                          *)
LEMMA CodeNonZero ==
    ASSUME TypeOK, NEW j \in 0 .. n - 2, CodedAt(j)
    PROVE  buf[j] # FRAME_BYTE
BY LengthsAssumption DEF TypeOK, CodedAt, NextZero, FRAME_BYTE, Byte

(* Taking a code out leaves a buffer of bytes.                               *)
LEMMA ClearByte ==
    ASSUME buf \in [0 .. n - 1 -> Byte], NEW p \in 0 .. n - 1, UNCHANGED n,
           buf' = [buf EXCEPT ![p] = FRAME_BYTE]
    PROVE  buf[p] \in Byte /\ buf' \in [0 .. n' - 1 -> Byte]
<1>1. FRAME_BYTE \in Byte
  BY DEF Byte, FRAME_BYTE
<1> QED BY <1>1

(* One step of an unstuffing loop: the code at p is replaced by FRAME_BYTE   *)
(* and the border moves to the place it points at, which is in the frame.    *)
LEMMA TakeOut ==
    ASSUME TypeOK, FrameInv, NEW p \in 0 .. n - 2, Restored(p),
           NEW q, q = p + buf[p],
           UNCHANGED <<n, orig>>,
           buf' = [buf EXCEPT ![p] = FRAME_BYTE]
    PROVE  /\ buf[p] \in 1 .. 248
           /\ q \in 1 .. n - 1
           /\ Restored(q)'
           /\ buf' \in [0 .. n - 1 -> Byte]
<1>1. n \in 6 .. 249 /\ orig \in [0 .. n - 1 -> Byte] /\ buf \in [0 .. n - 1 -> Byte]
  BY DEF TypeOK, FrameInv
<1>2. NextZero(p, q)
  BY <1>1 DEF Restored, CodedAt
<1>3. buf[p] \in 1 .. 248 /\ q \in p + 1 .. n - 1
  <2>1. buf[p] \in 0 .. 255
    BY <1>1 DEF Byte
  <2>2. q \in p + 1 .. n - 1
    BY <1>2 DEF NextZero
  <2>3. n \in 6 .. 249
    BY <1>1
  <2> QED BY ONLY <2>1, <2>2, <2>3, p \in 0 .. n - 2, q = p + buf[p]
<1>4. orig[q] = FRAME_BYTE
  BY <1>2 DEF NextZero
<1>5. ASSUME NEW j \in 0 .. q - 1 PROVE buf'[j] = orig[j]
  <2>1. CASE j < p
    BY <2>1, <1>1, <1>3 DEF Restored
  <2>2. CASE j = p
    BY <2>2, <1>1, <1>3 DEF Restored
  <2>3. CASE j > p
    <3>1. orig[j] # FRAME_BYTE
      BY <2>3, <1>2, <1>3, <1>1 DEF NextZero
    <3>2. j \in p .. n - 2
      BY <2>3, <1>3, <1>1
    <3>3. buf[j] = orig[j]
      BY <3>1, <3>2 DEF Restored, CodedAt
    <3> QED BY <3>3, <2>3, <1>1, <1>3
  <2> QED BY <2>1, <2>2, <2>3, <1>1, <1>3
<1>6. ASSUME NEW j \in q .. n - 2 PROVE CodedAt(j)'
  <2>1. j \in p + 1 .. n - 2
    BY <1>1, <1>3
  <2>2. CodedAt(j)
    BY <2>1, <1>1 DEF Restored
  <2>3. buf'[j] = buf[j]
    BY <2>1, <1>1
  <2> QED BY <2>2, <2>3 DEF CodedAt, NextZero
<1>7. buf'[n - 1] = FRAME_BYTE
  BY <1>1 DEF Restored
<1>8. buf' \in [0 .. n - 1 -> Byte]
  BY <1>1 DEF Byte, FRAME_BYTE
<1>9. Restored(q)'
  BY <1>1, <1>3, <1>4, <1>5, <1>6, <1>7 DEF Restored
<1> QED BY <1>1, <1>3, <1>8, <1>9

-----------------------------------------------------------------------------
(* A frame not yet stuffed is all original. *)
LEMMA InitInv == Init => IInv
<1> SUFFICES ASSUME Init PROVE IInv
  OBVIOUS
<1>1. n \in Lengths /\ n \in 6 .. 249
  BY LengthsAssumption DEF Init
<1>2. PICK b \in [1 .. n - 2 -> Symbol] : orig = Body(b, n)
  BY DEF Init
<1>3. orig \in [0 .. n - 1 -> Byte]
  <2>1. ASSUME NEW k \in 0 .. n - 1
        PROVE  (IF k = 0 \/ k = n - 1 THEN FRAME_BYTE ELSE b[k]) \in Byte
    <3>1. CASE k = 0 \/ k = n - 1
      BY <3>1 DEF Byte, FRAME_BYTE
    <3>2. CASE ~(k = 0 \/ k = n - 1)
      <4>1. k \in 1 .. n - 2
        BY <3>2, <1>1
      <4>2. b[k] \in Byte
        BY <4>1, <1>2, SymbolAssumption
      <4> QED BY <3>2, <4>2
    <3> QED BY <3>1, <3>2
  <2> QED BY <2>1, <1>2 DEF Body
<1>4. /\ pc = "stuff" /\ buf = orig /\ i = 1 /\ last = 0 /\ base = 0
      /\ next = 0 /\ tmp = 0 /\ dir \in {"cmd", "resp"}
      /\ WellFormed(dir, orig, n)
  BY DEF Init
<1>5. TypeOK
  BY <1>1, <1>3, <1>4 DEF TypeOK, Stages, Byte
<1>6. FrameInv
  BY <1>1, <1>3, <1>4 DEF FrameInv
<1>7. StuffInv
  BY <1>1, <1>3, <1>4 DEF StuffInv, WellFormed, FRAME_BYTE
<1> QED
  BY <1>4, <1>5, <1>6, <1>7
  DEF IInv, WireInv, HeaderInv, RestInv, HostInv, RoundTrip, NeverRejected

(* One iteration of either stuffing loop: the code written at last is the    *)
(* distance to the byte just met.                                            *)
LEMMA StuffStep ==
    ASSUME IInv, pc = "stuff", i < n,
           IF buf[i] = FRAME_BYTE
             THEN /\ buf' = [buf EXCEPT ![last] = i - last]
                  /\ last' = i
             ELSE UNCHANGED <<buf, last>>,
           i' = i + 1,
           UNCHANGED <<pc, dir, n, orig, base, next, tmp>>
    PROVE  IInv'
<1> USE DEF FRAME_BYTE
<1>1. /\ n \in 6 .. 249 /\ orig \in [0 .. n - 1 -> Byte]
      /\ buf \in [0 .. n - 1 -> Byte]
      /\ i \in 1 .. n - 1 /\ last \in 0 .. i - 1
  BY DEF IInv, TypeOK, FrameInv, StuffInv
<1>2. /\ orig[last] = 0
      /\ \A m \in last + 1 .. i - 1 : orig[m] # 0
      /\ \A j \in 0 .. last - 1 : CodedAt(j)
      /\ \A j \in last .. n - 1 : buf[j] = orig[j]
  BY DEF IInv, StuffInv
<1>3. i' \in 1 .. n'
  BY <1>1
<1>4. CASE buf[i] = 0
  <2>1. buf' = [buf EXCEPT ![last] = i - last] /\ last' = i
    BY <1>4
  <2>2. i - last \in Byte /\ buf' \in [0 .. n - 1 -> Byte]
    BY <2>1, <1>1 DEF Byte
  <2>3. orig[i] = 0
    BY <1>4, <1>1, <1>2
  <2>4. ASSUME NEW j \in 0 .. i - 1 PROVE CodedAt(j)'
    <3>1. CASE j < last
      <4>1. CodedAt(j)
        BY <3>1, <1>1, <1>2
      <4>2. buf'[j] = buf[j]
        BY <3>1, <2>1, <1>1
      <4> QED BY <4>1, <4>2 DEF CodedAt, NextZero
    <3>2. CASE j = last
      <4>1. j + buf'[j] = i
        BY <3>2, <2>1, <1>1
      <4>2. orig[j] = 0 /\ NextZero(j, i)
        BY <3>2, <1>1, <1>2, <2>3 DEF NextZero
      <4> QED BY <4>1, <4>2 DEF CodedAt, NextZero
    <3>3. CASE j > last
      <4>1. orig[j] # 0 /\ buf[j] = orig[j] /\ buf'[j] = buf[j]
        BY <3>3, <1>1, <1>2, <2>1
      <4> QED BY <4>1 DEF CodedAt
    <3> QED BY <3>1, <3>2, <3>3, <1>1
  <2>5. \A j \in i .. n - 1 : buf'[j] = orig[j]
    BY <1>1, <1>2, <2>1
  <2>6. StuffInv'
    BY <1>1, <1>3, <2>1, <2>3, <2>4, <2>5 DEF StuffInv
  <2>7. TypeOK'
    BY <2>1, <2>2, <1>1, <1>3 DEF TypeOK, IInv
  <2> QED
    BY <2>6, <2>7 DEF IInv, FrameInv, WireInv, HeaderInv, RestInv, HostInv,
                      RoundTrip, NeverRejected
<1>5. CASE buf[i] # 0
  <2>1. UNCHANGED <<buf, last>>
    BY <1>5
  <2>2. orig[i] # 0
    BY <1>5, <1>1, <1>2
  <2>3. \A m \in last + 1 .. i : orig[m] # 0
    BY <2>2, <1>1, <1>2
  <2>4. \A j \in 0 .. last - 1 : CodedAt(j)'
    BY <2>1, <1>2 DEF CodedAt, NextZero
  <2>5. StuffInv'
    BY <1>1, <1>2, <1>3, <2>1, <2>3, <2>4 DEF StuffInv
  <2>6. TypeOK'
    BY <2>1, <1>1, <1>3 DEF TypeOK, IInv
  <2> QED
    BY <2>5, <2>6 DEF IInv, FrameInv, WireInv, HeaderInv, RestInv, HostInv,
                      RoundTrip, NeverRejected
<1> QED BY <1>4, <1>5

(* The steps below leave the frame alone; each establishes the clause of the *)
(* stage it enters.                                                          *)
LEMMA SendStep == IInv /\ Send => IInv'
<1> SUFFICES ASSUME IInv, Send PROVE IInv'
  OBVIOUS
<1> USE DEF FRAME_BYTE
<1>1. /\ n \in 6 .. 249 /\ orig[n - 1] = 0 /\ i = n /\ last \in 0 .. n - 1
      /\ UNCHANGED <<dir, n, orig, buf, i, last, base, next, tmp>>
      /\ pc = "stuff" /\ pc' = "wire"
  BY DEF Send, IInv, TypeOK, FrameInv, WellFormed
<1>2. /\ \A m \in last + 1 .. n - 1 : orig[m] # 0
      /\ \A j \in 0 .. last - 1 : CodedAt(j)
      /\ \A j \in last .. n - 1 : buf[j] = orig[j]
  BY <1>1 DEF IInv, StuffInv
<1>3. last = n - 1
  BY <1>1, <1>2
<1>4. (\A j \in 0 .. n - 2 : CodedAt(j)) /\ buf[n - 1] = 0
  BY <1>1, <1>2, <1>3
<1>5. \A j \in 0 .. n - 2 : CodedAt(j)'
  BY <1>1, <1>4 DEF CodedAt, NextZero
<1>6. TypeOK'
  BY <1>1 DEF TypeOK, IInv, Stages
<1> QED
  BY <1>1, <1>4, <1>5, <1>6
  DEF IInv, FrameInv, StuffInv, WireInv, HeaderInv, RestInv, HostInv,
      RoundTrip, NeverRejected

(* The first code of a frame on the wire points at the next one.             *)
LEMMA WireRestored ==
    ASSUME IInv, pc = "wire"
    PROVE  Restored(0) /\ buf[0] # FRAME_BYTE
<1>1. n \in 6 .. 249 /\ orig[0] = FRAME_BYTE
  BY DEF IInv, FrameInv, WellFormed
<1>2. Restored(0)
  BY <1>1 DEF IInv, WireInv, Restored
<1>3. buf[0] # FRAME_BYTE
  BY <1>1, <1>2, CodeNonZero DEF Restored, IInv
<1> QED BY <1>2, <1>3

(* The target has read four bytes and checks the first code. *)
LEMMA TargetHeaderStep == IInv /\ TargetHeader => IInv'
<1> SUFFICES ASSUME IInv, TargetHeader PROVE IInv'
  OBVIOUS
<1> USE DEF FRAME_BYTE
<1>1. TypeOK /\ FrameInv /\ n \in 6 .. 249 /\ pc = "wire" /\ dir = "cmd"
      /\ UNCHANGED <<dir, n, orig, i, last, base>>
  BY DEF IInv, FrameInv, TargetHeader
<1>2. \A k \in 0 .. n - 2 : buf[k] # 0
  BY <1>1, CodeNonZero DEF IInv, WireInv
<1>3. ~ \E k \in 0 .. 3 : buf[k] = 0
  BY <1>1, <1>2
<1>4. /\ pc' = "header" /\ next' = buf[0] /\ tmp' = buf[0]
      /\ buf' = [buf EXCEPT ![0] = 0]
  BY <1>3 DEF TargetHeader
<1>5. Restored(0)
  BY <1>1, WireRestored
<1> PICK q : q = buf[0]
  OBVIOUS
<1>6. q \in 1 .. 248 /\ q \in 1 .. n - 1 /\ Restored(q)'
      /\ buf' \in [0 .. n - 1 -> Byte]
  <2>1. 0 \in 0 .. n - 2
    BY <1>1
  <2>2. buf[0] \in 0 .. 255
    BY <1>1, <2>1 DEF TypeOK, Byte
  <2>3. q = 0 + buf[0]
    BY <2>2
  <2>4. UNCHANGED <<n, orig>> /\ buf' = [buf EXCEPT ![0] = FRAME_BYTE]
    BY <1>1, <1>4
  <2>5. /\ buf[0] \in 1 .. 248 /\ q \in 1 .. n - 1 /\ Restored(q)'
        /\ buf' \in [0 .. n - 1 -> Byte]
    BY ONLY <1>1, <1>5, <2>1, <2>3, <2>4, TakeOut
  <2> QED BY <2>5
<1>7. \A k \in 4 .. n' - 2 : buf'[k] # 0
  BY <1>1, <1>2, <1>4 DEF TypeOK
<1>8. HeaderInv'
  <2>1. Restored(next)'
    BY <1>4, <1>6 DEF Restored
  <2> QED BY <1>1, <1>4, <1>6, <1>7, <2>1 DEF HeaderInv
<1>9. TypeOK'
  BY <1>1, <1>4, <1>6 DEF TypeOK, Stages, Byte
<1> QED
  BY <1>1, <1>4, <1>8, <1>9
  DEF IInv, FrameInv, StuffInv, WireInv, RestInv, HostInv, RoundTrip,
      NeverRejected

(* The target takes the stuffing out of the header ... *)
LEMMA TargetUnstuffHeaderStep == IInv /\ TargetUnstuffHeader => IInv'
<1> SUFFICES ASSUME IInv, TargetUnstuffHeader PROVE IInv'
  OBVIOUS
<1> USE DEF FRAME_BYTE
<1>1. /\ TypeOK /\ FrameInv /\ n \in 6 .. 249 /\ pc = "header" /\ pc' = "header"
      /\ next < 4 /\ dir = "cmd"
      /\ tmp' = buf[next] /\ buf' = [buf EXCEPT ![next] = 0]
      /\ next' = U8(next + buf[next])
      /\ UNCHANGED <<dir, n, orig, i, last, base>>
  BY DEF IInv, FrameInv, HeaderInv, TargetUnstuffHeader
<1>2. Restored(next) /\ \A k \in 4 .. n - 2 : buf[k] # 0
  BY <1>1 DEF IInv, HeaderInv
<1>3. next \in 0 .. n - 2
  BY <1>1, <1>2 DEF Restored
<1> PICK q : q = next + buf[next]
  OBVIOUS
<1>4. /\ buf[next] \in 1 .. 248 /\ q \in 1 .. n - 1
      /\ Restored(q)'
      /\ buf' \in [0 .. n - 1 -> Byte]
  BY <1>1, <1>2, <1>3, TakeOut
<1>41. next' = q
  BY <1>1, <1>4 DEF U8
<1>5. HeaderInv'
  <2>1. \A k \in 4 .. n' - 2 : buf'[k] # 0
    BY <1>1, <1>2, <1>3 DEF TypeOK
  <2>2. Restored(next)'
    BY <1>4, <1>41 DEF Restored
  <2>3. tmp' # 0
    <3>1. tmp' = buf[next]
      BY <1>1
    <3>2. buf[next] \in 1 .. 248
      BY <1>4
    <3> QED BY ONLY <3>1, <3>2
  <2>4. dir' = "cmd" /\ pc' = "header"
    BY <1>1
  <2> QED BY <2>1, <2>2, <2>3, <2>4 DEF HeaderInv
<1>6. TypeOK'
  BY <1>1, <1>4, <1>41 DEF TypeOK, Byte
<1> QED
  BY <1>1, <1>5, <1>6
  DEF IInv, FrameInv, StuffInv, WireInv, RestInv, HostInv, RoundTrip,
      NeverRejected

(* ... reads the rest and checks where the chain of codes leads ... *)
LEMMA TargetRestStep == IInv /\ TargetRest => IInv'
<1> SUFFICES ASSUME IInv, TargetRest PROVE IInv'
  OBVIOUS
<1> USE DEF FRAME_BYTE
<1>1. /\ TypeOK /\ FrameInv /\ n \in 6 .. 249 /\ pc = "header" /\ dir = "cmd"
      /\ next >= 4 /\ Restored(next)
      /\ \A k \in 4 .. n - 2 : buf[k] # 0
      /\ UNCHANGED <<dir, n, orig, i, last>>
  <2>1. /\ TypeOK /\ FrameInv /\ pc = "header" /\ (next < 4 => tmp = 0)
        /\ UNCHANGED <<dir, n, orig, i, last>>
    BY DEF IInv, TargetRest
  <2>2. /\ dir = "cmd" /\ Restored(next) /\ tmp # 0
        /\ \A k \in 4 .. n - 2 : buf[k] # 0
    BY <2>1 DEF IInv, HeaderInv
  <2>3. n \in 6 .. 249 /\ next \in Nat
    BY <2>1 DEF FrameInv, TypeOK
  <2> QED BY ONLY <2>1, <2>2, <2>3
<1>2. next \in 4 .. n - 1 /\ orig[3] = n - 6 /\ buf[3] = orig[3]
  BY <1>1 DEF Restored, FrameInv, WellFormed
<1>3. buf[3] + 5 = n - 1
  BY <1>1, <1>2
<1>4. buf[n - 1] = 0
  BY <1>1 DEF Restored
<1>5. /\ pc' = "rest" /\ base' = next /\ next' = buf[next] /\ tmp' = buf[next]
      /\ buf' = [buf EXCEPT ![next] = 0]
  BY <1>1, <1>2, <1>3, <1>4 DEF TargetRest
<1> PICK q : q = next + buf[next]
  OBVIOUS
<1>6. /\ buf' \in [0 .. n - 1 -> Byte]
      /\ buf[next] \in Byte
      /\ base' + next' = q
      /\ Restored(q)'
      /\ tmp' = 0 => q = n - 1
  <2>1. buf[next] \in Byte /\ buf' \in [0 .. n - 1 -> Byte]
    <3>1. buf \in [0 .. n - 1 -> Byte] /\ next \in 0 .. n - 1
      BY <1>1, <1>2 DEF TypeOK
    <3> QED BY <3>1, <1>1, <1>5, ClearByte
  <2>2. base' + next' = q
    BY <1>5
  <2>3. CASE next = n - 1
    <3>1. q = n - 1 /\ buf' = buf
      BY <2>3, <1>1, <1>2, <1>4, <1>5 DEF TypeOK
    <3>2. Restored(n - 1)
      BY <1>1, <2>3
    <3>3. Restored(q)'
      BY <3>1, <3>2, <1>1 DEF Restored, CodedAt, NextZero
    <3> QED BY <3>1, <3>3, <2>1, <2>2
  <2>4. CASE next # n - 1
    <3>1. next \in 0 .. n - 2
      BY <2>4, <1>1, <1>2
    <3>2. /\ buf[next] \in 1 .. 248
          /\ Restored(q)'
      BY <3>1, <1>1, <1>5, TakeOut
    <3>3. tmp' # 0
      <4>1. tmp' = buf[next]
        BY <1>5
      <4> QED BY ONLY <4>1, <3>2
    <3> QED BY <3>2, <3>3, <2>1, <2>2
  <2> QED BY <2>3, <2>4
<1>7. RestInv'
  <2>1. Restored(base + next)'
    BY <1>6 DEF Restored
  <2>2. tmp' = 0 => base' + next' = n' - 1
    BY <1>1, <1>6
  <2> QED BY <2>1, <2>2 DEF RestInv
<1>8. TypeOK'
  <2>1. base' \in 0 .. n' - 1 /\ tmp' \in Byte
    BY <1>1, <1>2, <1>5, <1>6
  <2>2. next' \in Nat
    <3>1. Byte \subseteq Nat
      BY DEF Byte
    <3> QED BY <3>1, <1>5, <1>6
  <2> QED BY <1>1, <1>5, <1>6, <2>1, <2>2 DEF TypeOK, Stages
<1> QED
  BY <1>1, <1>5, <1>7, <1>8
  DEF IInv, FrameInv, StuffInv, WireInv, HeaderInv, HostInv, RoundTrip,
      NeverRejected

(* ... takes the stuffing out of the rest ... *)
LEMMA TargetUnstuffRestStep == IInv /\ TargetUnstuffRest => IInv'
<1> SUFFICES ASSUME IInv, TargetUnstuffRest PROVE IInv'
  OBVIOUS
<1> USE DEF FRAME_BYTE
<1> PICK p : p = base + next
  OBVIOUS
<1>1. /\ TypeOK /\ FrameInv /\ n \in 6 .. 249 /\ pc = "rest" /\ pc' = "rest"
      /\ tmp' = buf[p] /\ buf' = [buf EXCEPT ![p] = 0]
      /\ next' = U8(next + buf[p])
      /\ base \in 0 .. n - 1 /\ next \in Nat
      /\ UNCHANGED <<dir, n, orig, i, last, base>>
  BY DEF IInv, FrameInv, TypeOK, TargetUnstuffRest
<1>2. Restored(p) /\ p \in 0 .. n - 1 /\ orig[n - 1] = 0 /\ buf[n - 1] = 0
  BY <1>1 DEF IInv, RestInv, Restored, FrameInv, WellFormed
<1> PICK q : q = p + buf[p]
  OBVIOUS
<1>3. /\ buf' \in [0 .. n - 1 -> Byte]
      /\ buf[p] \in Byte
      /\ q \in p .. n - 1
      /\ Restored(q)'
      /\ buf[p] = 0 => q = n - 1
  <2>1. buf[p] \in Byte /\ buf' \in [0 .. n - 1 -> Byte]
    <3>1. buf \in [0 .. n - 1 -> Byte] /\ p \in 0 .. n - 1
      BY <1>1, <1>2 DEF TypeOK
    <3> QED BY <3>1, <1>1, ClearByte
  <2>2. CASE p = n - 1
    <3>1. q = n - 1 /\ buf' = buf
      BY <2>2, <1>1, <1>2 DEF TypeOK
    <3>2. Restored(q)'
      BY <3>1, <1>2, <1>1, <2>2 DEF Restored, CodedAt, NextZero
    <3> QED BY <3>1, <3>2, <2>1, <2>2, <1>1
  <2>3. CASE p # n - 1
    <3>1. p \in 0 .. n - 2
      BY <2>3, <1>1, <1>2
    <3>2. /\ buf[p] \in 1 .. 248 /\ q \in 1 .. n - 1
          /\ Restored(q)'
      BY <3>1, <1>1, <1>2, TakeOut
    <3>3. buf[p] # 0
      BY ONLY <3>2
    <3>4. q \in p .. n - 1
      BY ONLY <3>1, <3>2, q = p + buf[p]
    <3> QED BY <3>2, <3>3, <3>4, <2>1
  <2> QED BY <2>2, <2>3
<1>4. next' = next + buf[p] /\ base' + next' = q
  <2>1. next + buf[p] \in 0 .. 248
    <3>1. buf[p] \in 0 .. 255
      BY <1>3 DEF Byte
    <3>2. next + buf[p] = q - base
      BY ONLY <3>1, <1>1, p = base + next, q = p + buf[p]
    <3>3. next + buf[p] >= 0
      BY ONLY <3>1, <1>1
    <3>4. q \in 0 .. 248
      <4>1. n \in 6 .. 249 /\ p \in 0 .. n - 1 /\ q \in p .. n - 1
        BY <1>1, <1>2, <1>3
      <4> QED BY ONLY <4>1
    <3>5. base >= 0 /\ base \in Int
      BY <1>1
    <3> QED BY ONLY <3>2, <3>3, <3>4, <3>5
  <2>2. next' = next + buf[p]
    BY <1>1, <2>1 DEF U8
  <2> QED BY <2>1, <2>2, <1>1, <1>3 DEF Byte
<1>5. RestInv'
  <2>1. Restored(base + next)'
    BY <1>3, <1>4 DEF Restored
  <2>2. tmp' = 0 => base' + next' = n' - 1
    BY <1>1, <1>3, <1>4
  <2> QED BY <2>1, <2>2 DEF RestInv
<1>6. TypeOK'
  <2>1. next' \in Nat
    BY <1>1, <1>3, <1>4 DEF Byte
  <2> QED BY <1>1, <1>3, <2>1 DEF TypeOK
<1> QED
  BY <1>1, <1>5, <1>6
  DEF IInv, FrameInv, StuffInv, WireInv, HeaderInv, HostInv, RoundTrip,
      NeverRejected

(* ... and is done. *)
LEMMA TargetDoneStep == IInv /\ TargetDone => IInv'
<1> SUFFICES ASSUME IInv, TargetDone PROVE IInv'
  OBVIOUS
<1>1. /\ TypeOK /\ n \in 6 .. 249 /\ pc = "rest" /\ pc' = "done"
      /\ ~(next < n - base /\ tmp # 0)
      /\ base \in 0 .. n - 1 /\ next \in Nat
      /\ UNCHANGED <<dir, n, orig, buf, i, last, base, next, tmp>>
  BY DEF IInv, FrameInv, TypeOK, TargetDone
<1>2. Restored(base + next) /\ (tmp = 0 => base + next = n - 1)
  BY <1>1 DEF IInv, RestInv
<1>3. base + next \in 0 .. n - 1
  BY <1>2 DEF Restored
<1>4. base + next = n - 1
  BY <1>1, <1>2, <1>3
<1>5. Restored(n - 1)
  BY <1>2, <1>4
<1>6. buf = orig
  <2>1. \A j \in 0 .. n - 1 : buf[j] = orig[j]
    BY <1>1, <1>5 DEF Restored
  <2>2. buf \in [0 .. n - 1 -> Byte] /\ orig \in [0 .. n - 1 -> Byte]
    BY <1>1 DEF TypeOK
  <2>3. [k \in 0 .. n - 1 |-> buf[k]] = [k \in 0 .. n - 1 |-> orig[k]]
    BY ONLY <2>1, Zenon
  <2>4. /\ buf = [k \in 0 .. n - 1 |-> buf[k]]
        /\ orig = [k \in 0 .. n - 1 |-> orig[k]]
    BY ONLY <2>2, Zenon
  <2> QED BY ONLY <2>3, <2>4
<1>7. TypeOK'
  BY <1>1 DEF TypeOK, Stages
<1> QED
  BY <1>1, <1>6, <1>7
  DEF IInv, FrameInv, StuffInv, WireInv, HeaderInv, RestInv, HostInv,
      RoundTrip, NeverRejected

(* The host looks at the first code ... *)
LEMMA HostHeaderStep == IInv /\ HostHeader => IInv'
<1> SUFFICES ASSUME IInv, HostHeader PROVE IInv'
  OBVIOUS
<1>1. TypeOK /\ FrameInv /\ n \in 6 .. 249 /\ pc = "wire"
      /\ UNCHANGED <<dir, n, orig, i, last, base, tmp>>
  BY DEF IInv, FrameInv, HostHeader
<1>2. Restored(0) /\ buf[0] # FRAME_BYTE
  BY <1>1, WireRestored
<1>3. pc' = "host" /\ next' = buf[0] /\ buf' = [buf EXCEPT ![0] = FRAME_BYTE]
  BY <1>2 DEF HostHeader
<1> PICK q : q = buf[0]
  OBVIOUS
<1>4. q \in 1 .. n - 1 /\ Restored(q)' /\ buf' \in [0 .. n - 1 -> Byte]
  <2>1. 0 \in 0 .. n - 2
    BY <1>1
  <2>2. q = 0 + buf[0]
    BY <1>1, <2>1 DEF TypeOK, Byte
  <2> QED BY ONLY <1>1, <1>2, <1>3, <2>1, <2>2, TakeOut
<1>5. Restored(next)'
  BY <1>3, <1>4 DEF Restored
<1>6. TypeOK'
  BY <1>1, <1>3, <1>4 DEF TypeOK, Stages
<1> QED
  BY <1>1, <1>3, <1>5, <1>6
  DEF IInv, FrameInv, StuffInv, WireInv, HeaderInv, RestInv, HostInv,
      RoundTrip, NeverRejected

(* ... takes the stuffing out in one loop ... *)
LEMMA HostUnstuffStep == IInv /\ HostUnstuff => IInv'
<1> SUFFICES ASSUME IInv, HostUnstuff PROVE IInv'
  OBVIOUS
<1>1. /\ TypeOK /\ FrameInv /\ n \in 6 .. 249 /\ pc = "host" /\ next < n - 1
      /\ tmp' = buf[next] /\ buf' = [buf EXCEPT ![next] = FRAME_BYTE]
      /\ next' = next + buf[next]
      /\ UNCHANGED <<dir, n, orig, i, last, base>>
  BY DEF IInv, FrameInv, HostUnstuff
<1>2. Restored(next)
  BY <1>1 DEF IInv, HostInv
<1>3. next \in 0 .. n - 2
  BY <1>1, <1>2 DEF Restored
<1> PICK q : q = next + buf[next]
  OBVIOUS
<1>4. /\ buf[next] \in 1 .. 248 /\ q \in 1 .. n - 1
      /\ Restored(q)'
      /\ buf' \in [0 .. n - 1 -> Byte]
  BY <1>1, <1>2, <1>3, TakeOut
<1>5. tmp' \in 1 .. 248
  <2>1. tmp' = buf[next]
    BY <1>1
  <2> QED BY ONLY <2>1, <1>4
<1>6. pc' = "host"
  <2>1. tmp' # 0
    BY ONLY <1>5
  <2> QED BY <2>1 DEF HostUnstuff
<1>7. Restored(next)'
  BY <1>1, <1>4 DEF Restored
<1>8. TypeOK'
  <2>1. tmp' \in Byte
    BY ONLY <1>5 DEF Byte
  <2>2. next' \in Nat
    BY <1>1, <1>4
  <2> QED BY <1>1, <1>4, <1>6, <2>1, <2>2 DEF TypeOK, Stages
<1> QED
  BY <1>1, <1>6, <1>7, <1>8
  DEF IInv, FrameInv, StuffInv, WireInv, HeaderInv, RestInv, HostInv,
      RoundTrip, NeverRejected

(* ... and is done. *)
LEMMA HostDoneStep == IInv /\ HostDone => IInv'
<1> SUFFICES ASSUME IInv, HostDone PROVE IInv'
  OBVIOUS
<1>1. /\ TypeOK /\ n \in 6 .. 249 /\ pc = "host" /\ pc' = "done"
      /\ next >= n - 1
      /\ UNCHANGED <<dir, n, orig, buf, i, last, base, next, tmp>>
  BY DEF IInv, FrameInv, HostDone
<1>2. Restored(next)
  BY <1>1 DEF IInv, HostInv
<1>3. next = n - 1 /\ orig[next] = FRAME_BYTE
  BY <1>1, <1>2 DEF Restored
<1>4. buf = orig
  <2>1. \A j \in 0 .. n - 1 : buf[j] = orig[j]
    BY <1>1, <1>2, <1>3 DEF Restored
  <2>2. buf \in [0 .. n - 1 -> Byte] /\ orig \in [0 .. n - 1 -> Byte]
    BY <1>1 DEF TypeOK
  <2>3. [k \in 0 .. n - 1 |-> buf[k]] = [k \in 0 .. n - 1 |-> orig[k]]
    BY ONLY <2>1, Zenon
  <2>4. /\ buf = [k \in 0 .. n - 1 |-> buf[k]]
        /\ orig = [k \in 0 .. n - 1 |-> orig[k]]
    BY ONLY <2>2, Zenon
  <2> QED BY ONLY <2>3, <2>4
<1>5. TypeOK'
  BY <1>1 DEF TypeOK, Stages
<1> QED
  BY <1>1, <1>4, <1>5
  DEF IInv, FrameInv, StuffInv, WireInv, HeaderInv, RestInv, HostInv,
      RoundTrip, NeverRejected

-----------------------------------------------------------------------------
(* IInv holds initially and every step preserves it.                         *)
THEOREM Invariance == Spec => []IInv
<1>1. Init => IInv
  BY InitInv
<1>2. IInv /\ [Next]_vars => IInv'
  <2> SUFFICES ASSUME IInv, [Next]_vars PROVE IInv'
    OBVIOUS
  <2>1. CASE HostStuff
    <3>1. i \in 1 .. n /\ n \in 6 .. 249
      BY DEF IInv, TypeOK, FrameInv
    <3> QED BY <2>1, <3>1, StuffStep DEF HostStuff
  <2>2. CASE TargetStuff
    <3>1. i \in 1 .. n - 1 /\ last \in 0 .. i - 1 /\ n \in 6 .. 249
      BY <2>2 DEF IInv, StuffInv, FrameInv, TargetStuff
    <3>2. U8(i - last) = i - last /\ U8(i + 1) = i + 1
      BY <3>1 DEF U8
    <3> QED BY <2>2, <3>2, StuffStep DEF TargetStuff
  <2>3. CASE Send
    BY <2>3, SendStep
  <2>4. CASE TargetHeader
    BY <2>4, TargetHeaderStep
  <2>5. CASE TargetUnstuffHeader
    BY <2>5, TargetUnstuffHeaderStep
  <2>6. CASE TargetRest
    BY <2>6, TargetRestStep
  <2>7. CASE TargetUnstuffRest
    BY <2>7, TargetUnstuffRestStep
  <2>8. CASE TargetDone
    BY <2>8, TargetDoneStep
  <2>9. CASE HostHeader
    BY <2>9, HostHeaderStep
  <2>10. CASE HostUnstuff
    BY <2>10, HostUnstuffStep
  <2>11. CASE HostDone
    BY <2>11, HostDoneStep
  <2>12. CASE UNCHANGED vars
    BY <2>12
    DEF vars, IInv, TypeOK, FrameInv, WellFormed, StuffInv, WireInv, HeaderInv,
        RestInv, HostInv, RoundTrip, NeverRejected, Restored, CodedAt, NextZero
  <2> QED
    BY <2>1, <2>2, <2>3, <2>4, <2>5, <2>6, <2>7, <2>8, <2>9, <2>10, <2>11,
       <2>12
    DEF Next
<1> QED BY <1>1, <1>2, PTL DEF Spec

(* The loop variables keep the types the code gives them; in particular no   *)
(* uint8_t of the firmware ever has to wrap.                                 *)
THEOREM Typing == Spec => []TypeOK
BY Invariance, PTL DEF IInv

(* On the wire, FRAME_BYTE is the terminator and nothing else.               *)
THEOREM FrameByteEndsFrame == Spec => []OneFrameByte
<1>1. IInv => OneFrameByte
  <2> SUFFICES ASSUME IInv, pc = "wire", NEW k \in 0 .. n - 1
               PROVE  buf[k] = FRAME_BYTE <=> k = n - 1
    BY DEF OneFrameByte
  <2>1. n \in 6 .. 249 /\ TypeOK
    BY DEF IInv, FrameInv
  <2>2. CASE k = n - 1
    BY <2>2 DEF IInv, WireInv
  <2>3. CASE k # n - 1
    <3>1. k \in 0 .. n - 2
      BY <2>1, <2>3
    <3> QED BY <3>1, <2>1, <2>3, CodeNonZero DEF IInv, WireInv
  <2> QED BY <2>2, <2>3
<1> QED BY <1>1, Invariance, PTL

(* Both receivers give back the frame the sender stuffed.                    *)
THEOREM UnstuffInvertsStuff == Spec => []RoundTrip
BY Invariance, PTL DEF IInv

(* Neither receiver rejects a well-formed frame.                             *)
THEOREM WellFormedAccepted == Spec => []NeverRejected
BY Invariance, PTL DEF IInv
=============================================================================
