-------------------------- MODULE SSv2Frame_proofs --------------------------
(***************************************************************************)
(* What the frame functions of SSv2Frame return: bytes for bytes, and      *)
(* buffers of the length they were given.  Three of them are loops, so     *)
(* their functions are defined by recursion over the number of iterations; *)
(* Loop and SetInduction are what is needed to reason about those.  With   *)
(* them, that either side gets back what the other stuffed: HostReadsPacket*)
(* and TargetReadsCommand.                                                 *)
(***************************************************************************)
EXTENDS SSv2Frame, SequenceTheorems, WellFoundedInduction, TLAPS

-----------------------------------------------------------------------------
(* Induction with a set in place of a predicate.                             *)
LEMMA SetInduction ==
    ASSUME NEW T, 0 \in T, \A n \in Nat : n \in T => n + 1 \in T
    PROVE  \A n \in Nat : n \in T
<1> DEFINE R == OpToRel(<, Nat)
           B == Nat \ T
<1>1. IsWellFoundedOn(R, Nat)
  BY NatLessThanWellFounded
<1>2. \A x, y \in Nat : x < y => <<x, y>> \in R
  BY DEF OpToRel
<1> HIDE DEF R
<1>3. SUFFICES ASSUME B # {} PROVE FALSE
  OBVIOUS
<1>4. PICK x \in B : \A y \in B : ~(<<y, x>> \in R)
  BY <1>1, <1>3, WFMin
<1>5. x \in Nat /\ x # 0
  OBVIOUS
<1>6. x - 1 \in Nat /\ x - 1 < x /\ x - 1 + 1 = x
  BY <1>5
<1>7. x - 1 \in B
  BY <1>6
<1> QED BY <1>2, <1>4, <1>5, <1>6, <1>7

(* A loop of n iterations: the function that gives its state after each      *)
(* exists, and its values are the states.                                    *)
LEMMA Loop ==
    ASSUME NEW S, NEW s0 \in S, NEW n \in Nat, NEW F \in [1 .. n -> [S -> S]]
    PROVE  \E g \in [0 .. n -> S] :
              g[0] = s0 /\ \A k \in 1 .. n : g[k] = F[k][g[k - 1]]
<1> DEFINE Upto(m, h) == /\ h \in [0 .. m -> S]
                         /\ h[0] = s0
                         /\ \A k \in 1 .. m : h[k] = F[k][h[k - 1]]
           T == {m \in Nat : m <= n => \E h : Upto(m, h)}
<1>1. 0 \in T
  <2>1. Upto(0, [k \in 0 .. 0 |-> s0])
    OBVIOUS
  <2> QED BY <2>1
<1>2. ASSUME NEW m \in Nat, m \in T PROVE m + 1 \in T
  <2> SUFFICES ASSUME m + 1 <= n PROVE \E j : Upto(m + 1, j)
    OBVIOUS
  <2>1. PICK h : Upto(m, h)
    BY <1>2
  <2> DEFINE i == [k \in 0 .. m + 1 |-> IF k = m + 1 THEN F[m + 1][h[m]] ELSE h[k]]
  <2>2. i \in [0 .. m + 1 -> S] /\ i[0] = s0
    <3>1. m + 1 \in 1 .. n /\ h[m] \in S
      BY <2>1
    <3>2. F[m + 1][h[m]] \in S
      BY <3>1
    <3> QED BY <2>1, <3>2
  <2>3. \A k \in 1 .. m + 1 : i[k] = F[k][i[k - 1]]
    <3> TAKE k \in 1 .. m + 1
    <3>1. CASE k = m + 1
      <4>1. k - 1 \in 0 .. m + 1 /\ k - 1 # m + 1 /\ k - 1 = m
        BY <3>1
      <4> QED BY <3>1, <4>1
    <3>2. CASE k # m + 1
      <4>1. k \in 1 .. m /\ k - 1 \in 0 .. m + 1 /\ k - 1 # m + 1
        BY <3>2
      <4> QED BY <2>1, <3>2, <4>1
    <3> QED BY <3>1, <3>2
  <2>4. Upto(m + 1, i)
    BY <2>2, <2>3
  <2> HIDE DEF Upto, i
  <2> QED BY <2>4
<1>3. \E h : Upto(n, h)
  <2> HIDE DEF T, Upto
  <2>1. n \in T
    BY <1>1, <1>2, SetInduction
  <2> QED BY <2>1 DEF T
<1> QED BY <1>3

(* What an iteration keeps holds all along.                                  *)
LEMMA Stays ==
    ASSUME NEW S, NEW n \in Nat, NEW f, f[0] \in S,
           \A k \in 1 .. n : f[k - 1] \in S => f[k] \in S
    PROVE  \A k \in 0 .. n : f[k] \in S
<1> DEFINE T == {k \in Nat : k <= n => f[k] \in S}
<1>1. 0 \in T
  OBVIOUS
<1>2. ASSUME NEW k \in Nat, k \in T PROVE k + 1 \in T
  <2> SUFFICES ASSUME k + 1 <= n PROVE f[k + 1] \in S
    OBVIOUS
  <2>1. k + 1 \in 1 .. n /\ (k + 1) - 1 = k /\ f[k] \in S
    BY <1>2
  <2> QED BY <2>1
<1>3. \A k \in Nat : k \in T
  <2> HIDE DEF T
  <2> QED BY <1>1, <1>2, SetInduction
<1> QED BY <1>3

(* A loop whose iterations are all the same.                                 *)
Pass(n, start, step) ==
    LET pass[k \in 0 .. n] == IF k = 0 THEN start ELSE step[pass[k - 1]] IN pass

(* It starts at start, steps by step, and stays where step leads. *)
LEMMA PassSteps ==
    ASSUME NEW S, NEW start \in S, NEW n \in Nat, NEW step,
           \A p \in S : step[p] \in S
    PROVE  /\ Pass(n, start, step)[0] = start
           /\ \A k \in 1 .. n :
                 Pass(n, start, step)[k] = step[Pass(n, start, step)[k - 1]]
           /\ \A k \in 0 .. n : Pass(n, start, step)[k] \in S
<1> DEFINE F == [k \in 1 .. n |-> [p \in S |-> step[p]]]
           pass == Pass(n, start, step)
<1>1. F \in [1 .. n -> [S -> S]]
  OBVIOUS
<1>2. \A k \in 1 .. n : \A p \in S : F[k][p] = step[p]
  OBVIOUS
<1> HIDE DEF F, pass
<1>3. PICK g \in [0 .. n -> S] :
        g[0] = start /\ \A k \in 1 .. n : g[k] = F[k][g[k - 1]]
  BY ONLY start \in S, n \in Nat, <1>1, Loop
<1>4. g = [k \in 0 .. n |-> IF k = 0 THEN start ELSE step[g[k - 1]]]
  <2> DEFINE G == [k \in 0 .. n |-> IF k = 0 THEN start ELSE step[g[k - 1]]]
  <2>1. \A k \in 0 .. n : g[k] = G[k]
    <3> TAKE k \in 0 .. n
    <3>1. CASE k = 0
      BY <1>3, <3>1
    <3>2. CASE k # 0
      <4>1. k \in 1 .. n /\ k - 1 \in 0 .. n
        BY <3>2
      <4>2. g[k - 1] \in S
        BY <4>1
      <4> QED BY <1>2, <1>3, <3>2, <4>1, <4>2
    <3> QED BY <3>1, <3>2
  <2> QED BY <2>1
<1>5. pass = [k \in 0 .. n |-> IF k = 0 THEN start ELSE step[pass[k - 1]]]
  BY <1>4 DEF pass, Pass
<1>6. pass[0] = start /\ \A k \in 1 .. n : pass[k] = step[pass[k - 1]]
  BY <1>5
<1>7. \A k \in 0 .. n : pass[k] \in S
  BY <1>6, Stays
<1> QED BY <1>6, <1>7 DEF pass

-----------------------------------------------------------------------------
(* Bytes are numbers, and wrap around. *)
LEMMA ByteFacts ==
    /\ FRAME_BYTE \in Byte
    /\ \A x \in Byte : x \in Nat /\ x <= 255
    /\ \A x \in Nat : x <= 255 => x \in Byte
    /\ \A x, y \in Byte : U8(x + y) \in Byte
<1>1. FRAME_BYTE \in Byte
  BY DEF Byte, FRAME_BYTE
<1>2. \A x \in Byte : x \in Nat /\ x <= 255
  BY DEF Byte
<1>5. \A x \in Nat : x <= 255 => x \in Byte
  BY DEF Byte
<1>3. \A n \in Nat : n % 256 \in 0 .. 255
  OBVIOUS
<1>4. \A x, y \in Byte : U8(x + y) \in Byte
  BY <1>2, <1>3 DEF Byte, U8
<1> QED BY <1>1, <1>2, <1>4, <1>5

-----------------------------------------------------------------------------
(* The CRC of bytes is a byte.                                               *)
LEMMA XorByte == \A a, b \in Byte : Xor(a, b) \in Byte
<1> SUFFICES ASSUME NEW a \in Byte, NEW b \in Byte PROVE Xor(a, b) \in Byte
  OBVIOUS
<1> DEFINE e(weight) == (Bit(a, weight) + Bit(b, weight)) % 2
<1>1. \A x \in Int : x % 2 \in 0 .. 1
  OBVIOUS
<1>2. \A w \in Nat \ {0} : a \div w \in Int /\ b \div w \in Int
  BY DEF Byte
<1>3. \A w \in Nat \ {0} : e(w) \in 0 .. 1
  BY <1>1, <1>2 DEF Bit
<1>4. Xor(a, b) = 1 * e(1) + 2 * e(2) + 4 * e(4) + 8 * e(8) + 16 * e(16) + 32 * e(32)
                  + 64 * e(64) + 128 * e(128)
  BY DEF Xor
<1>5. e(1) \in 0 .. 1 /\ e(2) \in 0 .. 1 /\ e(4) \in 0 .. 1 /\ e(8) \in 0 .. 1
      /\ e(16) \in 0 .. 1 /\ e(32) \in 0 .. 1 /\ e(64) \in 0 .. 1 /\ e(128) \in 0 .. 1
  BY <1>3
<1> HIDE DEF e
<1> QED BY <1>4, <1>5 DEF Byte

(* Shifting a byte of the CRC eight times gives a byte. *)
LEMMA CrcByteType == CrcByte \in [Byte -> Byte]
<1>1. CrcShift \in [Byte -> Byte]
  <2> SUFFICES ASSUME NEW c \in Byte
               PROVE  (IF c >= 128 THEN Xor(U8(2 * c), 77) ELSE 2 * c) \in Byte
    BY DEF CrcShift
  <2>1. U8(2 * c) \in Byte /\ 77 \in Byte
    BY DEF U8, Byte
  <2>2. ~(c >= 128) => 2 * c \in Byte
    BY DEF Byte
  <2> QED BY <2>1, <2>2, XorByte
<1>2. \A c \in Byte : CrcShift[c] \in Byte
  BY <1>1
<1> HIDE DEF CrcShift
<1> QED BY <1>2 DEF CrcByte

(* Crc of a buffer of bytes. *)
LEMMA CrcType == \A buf \in Seq(Byte) : Crc(buf) \in Byte
<1> SUFFICES ASSUME NEW buf, buf \in Seq(Byte) PROVE Crc(buf) \in Byte
  OBVIOUS
<1> DEFINE n == Len(buf)
           step[p \in Byte \X Byte] == CrcByte[Xor(p[1], p[2])]
           crc[k \in 0 .. Len(buf)] == IF k = 0 THEN 0 ELSE step[<<crc[k - 1], buf[k]>>]
           F == [k \in 1 .. n |-> [c \in Byte |-> step[<<c, buf[k]>>]]]
           zero == 0
<1>1. Crc(buf) = crc[n]
  BY DEF Crc, CrcOf
<1>2. n \in Nat /\ 0 \in Byte /\ \A k \in 1 .. n : buf[k] \in Byte
  BY LenProperties, ElementOfSeq DEF Byte
<1>3. \A c, b \in Byte : step[<<c, b>>] \in Byte
  <2> TAKE c, b \in Byte
  <2>1. step[<<c, b>>] = CrcByte[Xor(c, b)]
    OBVIOUS
  <2> HIDE DEF step
  <2> QED BY <2>1, XorByte, CrcByteType
<1> HIDE DEF n, step
<1>4. \A k \in 1 .. n : \A c \in Byte : F[k][c] = step[<<c, buf[k]>>]
  BY <1>2
<1>5. F \in [1 .. n -> [Byte -> Byte]]
  BY <1>2, <1>3
<1> HIDE DEF F, crc
<1>6. PICK g \in [0 .. n -> Byte] :
        g[0] = zero /\ \A k \in 1 .. n : g[k] = F[k][g[k - 1]]
  <2>1. zero \in Byte
    BY <1>2
  <2> HIDE DEF zero
  <2>2. n \in Nat /\ F \in [1 .. n -> [Byte -> Byte]]
    BY <1>2, <1>5
  <2> QED BY ONLY <2>1, <2>2, Loop
<1>7. g = [k \in 0 .. n |-> IF k = 0 THEN 0 ELSE step[<<g[k - 1], buf[k]>>]]
  <2> DEFINE G == [k \in 0 .. n |-> IF k = 0 THEN 0 ELSE step[<<g[k - 1], buf[k]>>]]
  <2>1. \A k \in 0 .. n : g[k] = G[k]
    <3> TAKE k \in 0 .. n
    <3>1. CASE k = 0
      BY <1>2, <1>6, <3>1
    <3>2. CASE k # 0
      <4>1. k \in 1 .. n /\ k - 1 \in 0 .. n
        BY <1>2, <3>2
      <4>2. g[k - 1] \in Byte
        BY <4>1
      <4> QED BY <1>4, <1>6, <3>2, <4>1, <4>2
    <3> QED BY <3>1, <3>2
  <2> QED BY <2>1
<1>8. crc = [k \in 0 .. n |-> IF k = 0 THEN 0 ELSE step[<<crc[k - 1], buf[k]>>]]
  BY <1>7 DEF crc, n
<1> HIDE DEF crc
<1>10. \A k \in 1 .. n : crc[k] = step[<<crc[k - 1], buf[k]>>]
  BY <1>2, <1>8
<1>11. \A k \in 0 .. n : crc[k] \in Byte
  <2>1. crc[0] \in Byte
    BY <1>2, <1>8
  <2>2. \A k \in 1 .. n : crc[k - 1] \in Byte => crc[k] \in Byte
    BY <1>2, <1>3, <1>10
  <2> QED BY <1>2, <2>1, <2>2, Stays
<1> QED BY <1>1, <1>2, <1>11

-----------------------------------------------------------------------------
(* Taking the stuffing out only puts FRAME_BYTEs in: every entry is what it  *)
(* was, or FRAME_BYTE.                                                       *)
Zeroed(b, buf) ==
    /\ b \in Seq(Byte)
    /\ Len(b) = Len(buf)
    /\ \A j \in 1 .. Len(buf) : b[j] = buf[j] \/ b[j] = FRAME_BYTE

(* One more FRAME_BYTE. *)
LEMMA ZeroedExcept ==
    ASSUME NEW buf \in Seq(Byte), NEW b, Zeroed(b, buf), NEW i \in 1 .. Len(buf)
    PROVE  Zeroed([b EXCEPT ![i] = FRAME_BYTE], buf)
<1> DEFINE n == Len(buf)
           e == [b EXCEPT ![i] = FRAME_BYTE]
<1>1. n \in Nat /\ b \in [1 .. n -> Byte] /\ FRAME_BYTE \in Byte
  <2>1. b \in Seq(Byte) /\ Len(b) = Len(buf)
    BY DEF Zeroed
  <2> QED BY <2>1, LenProperties, ByteFacts
<1>2. e \in [1 .. n -> Byte] /\ \A j \in 1 .. n : e[j] = IF j = i THEN FRAME_BYTE ELSE b[j]
  BY <1>1
<1>3. e \in Seq(Byte) /\ Len(e) = n
  BY <1>1, <1>2
<1> HIDE DEF e
<1> QED BY <1>2, <1>3 DEF Zeroed

(* The target's unstuff_data. *)
LEMMA UnstuffDataType ==
    ASSUME NEW buf \in Seq(Byte), NEW len \in 1 .. Len(buf)
    PROVE  /\ Zeroed(UnstuffData(buf, len).buf, buf)
           /\ UnstuffData(buf, len).next \in Byte
<1> DEFINE step[p \in [buf : Seq(Byte), next : Byte, tmp : Byte]] ==
             IF p.next < len /\ p.tmp # 0
               THEN LET code == p.buf[p.next + 1] IN
                    [buf |-> [p.buf EXCEPT ![p.next + 1] = FRAME_BYTE],
                     next |-> U8(p.next + code), tmp |-> code]
               ELSE p
           start == [buf |-> [buf EXCEPT ![1] = FRAME_BYTE], next |-> buf[1], tmp |-> buf[1]]
           S == {p \in [buf : Seq(Byte), next : Byte, tmp : Byte] : Zeroed(p.buf, buf)}
<1>1. UnstuffData(buf, len) = Pass(len, start, step)[len]
  BY DEF UnstuffData, Pass
<1>2. len \in Nat /\ Len(buf) \in Nat /\ \A k \in 1 .. Len(buf) : buf[k] \in Byte
  BY LenProperties, ElementOfSeq
<1>3. start \in S
  <2>1. 1 \in 1 .. Len(buf) /\ Zeroed(buf, buf)
    BY <1>2 DEF Zeroed
  <2>2. Zeroed([buf EXCEPT ![1] = FRAME_BYTE], buf)
    BY <2>1, ZeroedExcept
  <2> QED BY <1>2, <2>1, <2>2 DEF Zeroed
<1>4. \A p \in S : step[p] \in S
  <2> SUFFICES ASSUME NEW p \in S, p.next < len, p.tmp # 0
               PROVE  step[p] \in S
    OBVIOUS
  <2> DEFINE code == p.buf[p.next + 1]
             b == [p.buf EXCEPT ![p.next + 1] = FRAME_BYTE]
             q == [buf |-> b, next |-> U8(p.next + code), tmp |-> code]
  <2>1. p \in [buf : Seq(Byte), next : Byte, tmp : Byte] /\ Zeroed(p.buf, buf)
    OBVIOUS
  <2>2. step[p] = q
    BY <2>1
  <2> HIDE DEF step, start
  <2>3. p.next \in Byte /\ p.next + 1 \in 1 .. Len(buf)
    <3>1. p.next \in Byte
      BY <2>1
    <3>2. p.next \in Nat
      BY <3>1, ByteFacts
    <3> QED BY <1>2, <3>1, <3>2
  <2>4. p.buf \in Seq(Byte) /\ Len(p.buf) = Len(buf)
    BY <2>1 DEF Zeroed
  <2>5. code \in Byte
    BY <2>3, <2>4, ElementOfSeq
  <2>6. Zeroed(b, buf)
    BY <2>1, <2>3, ZeroedExcept
  <2> HIDE DEF code, b
  <2>7. U8(p.next + code) \in Byte
    BY <2>3, <2>5, ByteFacts
  <2>8. q \in S
    BY <2>5, <2>6, <2>7 DEF Zeroed
  <2> QED BY <2>2, <2>8
<1> HIDE DEF step, start, S
<1>5. Pass(len, start, step)[len] \in S
  BY <1>2, <1>3, <1>4, PassSteps
<1> QED BY <1>1, <1>5 DEF S

(* The host's _unstuff_data. *)
LEMMA HostUnstuffType ==
    ASSUME NEW buf \in Seq(Byte)
    PROVE  /\ Zeroed(HostUnstuff(buf).buf, buf)
           /\ HostUnstuff(buf).next \in Nat
<1> DEFINE last == Len(buf) - 1
           step[p \in [buf : Seq(Byte), next : Nat]] ==
             IF p.next < last /\ p.buf[p.next + 1] # 0
               THEN [buf |-> [p.buf EXCEPT ![p.next + 1] = FRAME_BYTE],
                     next |-> p.next + p.buf[p.next + 1]]
               ELSE p
           start == [buf |-> [buf EXCEPT ![1] = FRAME_BYTE], next |-> buf[1]]
           result(p) == [buf |-> p.buf, next |-> IF p.next > last THEN p.next ELSE 0]
           S == {p \in [buf : Seq(Byte), next : Nat] : Zeroed(p.buf, buf)}
<1>1. HostUnstuff(buf) = IF buf = <<>> \/ buf[1] = FRAME_BYTE
                           THEN [buf |-> buf, next |-> 0]
                           ELSE result(Pass(last, start, step)[last])
  BY DEF HostUnstuff, Pass
<1>2. Len(buf) \in Nat /\ \A k \in 1 .. Len(buf) : buf[k] \in Byte
  BY LenProperties, ElementOfSeq
<1>3. Zeroed(buf, buf)
  BY <1>2 DEF Zeroed
<1>4. CASE buf = <<>> \/ buf[1] = FRAME_BYTE
  BY <1>1, <1>3, <1>4
<1>5. CASE ~(buf = <<>> \/ buf[1] = FRAME_BYTE)
  <2>1. 1 \in 1 .. Len(buf) /\ last \in Nat
    BY <1>2, <1>5, EmptySeq
  <2>2. start \in S
    <3>1. Zeroed([buf EXCEPT ![1] = FRAME_BYTE], buf)
      BY <1>3, <2>1, ZeroedExcept
    <3>2. buf[1] \in Nat
      BY <1>2, <2>1, ByteFacts
    <3> QED BY <3>1, <3>2 DEF Zeroed
  <2>3. \A p \in S : step[p] \in S
    <3> SUFFICES ASSUME NEW p \in S, p.next < last, p.buf[p.next + 1] # 0
                 PROVE  step[p] \in S
      OBVIOUS
    <3> DEFINE code == p.buf[p.next + 1]
               b == [p.buf EXCEPT ![p.next + 1] = FRAME_BYTE]
               q == [buf |-> b, next |-> p.next + code]
    <3>1. p \in [buf : Seq(Byte), next : Nat] /\ Zeroed(p.buf, buf)
      OBVIOUS
    <3>2. step[p] = q
      BY <3>1
    <3> HIDE DEF step, start
    <3>3. p.next \in Nat /\ p.next + 1 \in 1 .. Len(buf)
      BY <1>2, <3>1
    <3>4. p.buf \in Seq(Byte) /\ Len(p.buf) = Len(buf)
      BY <3>1 DEF Zeroed
    <3>5. code \in Nat
      BY <3>3, <3>4, ElementOfSeq, ByteFacts
    <3>6. Zeroed(b, buf)
      BY <3>1, <3>3, ZeroedExcept
    <3> HIDE DEF code, b
    <3>7. q \in S
      BY <3>3, <3>5, <3>6 DEF Zeroed
    <3> QED BY <3>2, <3>7
  <2> HIDE DEF step, start, S, last
  <2>4. Pass(last, start, step)[last] \in S
    BY <2>1, <2>2, <2>3, PassSteps
  <2> DEFINE p == Pass(last, start, step)[last]
  <2>5. Zeroed(p.buf, buf) /\ p.next \in Nat
    BY <2>4 DEF S
  <2>6. HostUnstuff(buf) = result(p)
    BY <1>1, <1>5
  <2> HIDE DEF p
  <2> QED BY <2>5, <2>6
<1> QED BY <1>4, <1>5

-----------------------------------------------------------------------------
(* The distances the stuffing puts in fit a byte as long as the frame does.  *)
LEMMA MinNat ==
    ASSUME NEW D, D \subseteq Nat, D # {}
    PROVE  Min(D) \in D /\ \A y \in D : Min(D) <= y
<1> DEFINE R == OpToRel(<, Nat)
<1>1. IsWellFoundedOn(R, Nat)
  BY NatLessThanWellFounded
<1>2. \A x, y \in Nat : x < y => <<x, y>> \in R
  BY DEF OpToRel
<1> HIDE DEF R
<1>3. PICK x \in D : \A y \in D : ~(<<y, x>> \in R)
  BY <1>1, WFMin
<1>4. \A y \in D : x <= y
  <2> TAKE y \in D
  <2>1. x \in Nat /\ y \in Nat
    OBVIOUS
  <2>2. ~(y < x)
    BY <1>2, <1>3, <2>1
  <2> QED BY <2>1, <2>2
<1> QED BY <1>4 DEF Min

(* A stuffed frame of at most 256 bytes is as long as it was, and bytes. *)
LEMMA StuffType ==
    ASSUME NEW s \in Seq(Byte), Len(s) <= 256
    PROVE  /\ Stuff(s) \in Seq(Byte)
           /\ Len(Stuff(s)) = Len(s)
<1> DEFINE later(k) == {j \in k + 1 .. Len(s) : s[j] = FRAME_BYTE}
<1>1. Len(s) \in Nat /\ \A k \in 1 .. Len(s) : s[k] \in Byte
  BY LenProperties, ElementOfSeq
<1>2. ASSUME NEW k \in 1 .. Len(s), later(k) # {}
      PROVE  Min(later(k)) - k \in Byte
  <2>1. later(k) \subseteq Nat
    BY <1>1
  <2>2. Min(later(k)) \in later(k)
    BY <1>2, <2>1, MinNat
  <2>3. Min(later(k)) \in k + 1 .. Len(s)
    BY <2>2
  <2> HIDE DEF later
  <2>4. \A n \in Nat : \A m \in 1 .. n : \A x \in m + 1 .. n :
           n <= 256 => x - m \in Nat /\ x - m <= 255
    OBVIOUS
  <2>5. Min(later(k)) - k \in Nat /\ Min(later(k)) - k <= 255
    BY <1>1, <2>3, <2>4
  <2> QED BY <2>5, ByteFacts
<1> HIDE DEF later
<1>3. Stuff(s) = [k \in 1 .. Len(s) |->
                    IF (k = 1 \/ s[k] = FRAME_BYTE) /\ later(k) # {}
                      THEN Min(later(k)) - k ELSE s[k]]
  BY DEF Stuff, later
<1>4. Stuff(s) \in [1 .. Len(s) -> Byte]
  BY <1>1, <1>2, <1>3
<1> QED BY <1>1, <1>4

(* A packet is three bytes longer than its body, and bytes if that is.       *)
LEMMA PacketType ==
    ASSUME NEW body \in Seq(Byte), Len(body) <= 253
    PROVE  /\ Packet(body) \in Seq(Byte)
           /\ Len(Packet(body)) = Len(body) + 3
           /\ Packet(body) # <<>>
<1> DEFINE tail == <<Crc(body), FRAME_BYTE>>
           s == <<0>> \o body \o tail
<1>1. Packet(body) = Stuff(s)
  BY DEF Packet
<1>2. <<0>> \in Seq(Byte) /\ tail \in Seq(Byte) /\ Len(<<0>>) = 1 /\ Len(tail) = 2
  <2>1. Crc(body) \in Byte /\ FRAME_BYTE \in Byte /\ 0 \in Byte
    BY CrcType, ByteFacts DEF FRAME_BYTE
  <2> QED BY <2>1
<1> HIDE DEF tail
<1>3. <<0>> \o body \in Seq(Byte) /\ Len(<<0>> \o body) = 1 + Len(body)
  BY <1>2, ConcatProperties
<1>4. s \in Seq(Byte) /\ Len(s) = Len(body) + 3
  <2>1. s \in Seq(Byte) /\ Len(s) = Len(<<0>> \o body) + Len(tail)
    BY <1>2, <1>3, ConcatProperties
  <2>2. Len(body) \in Nat
    BY LenProperties
  <2> QED BY <1>2, <1>3, <2>1, <2>2
<1> HIDE DEF s
<1>5. Len(body) \in Nat
  BY LenProperties
<1>6. Packet(body) \in Seq(Byte) /\ Len(Packet(body)) = Len(body) + 3
  BY <1>1, <1>4, <1>5, StuffType
<1> QED BY <1>5, <1>6, EmptySeq

(* What the two sides write: payloads of at most 250 bytes fit a frame.      *)
LEMMA FrameType ==
    ASSUME NEW cmd \in Byte, NEW scmd \in Byte, NEW data \in Seq(Byte), Len(data) <= 250
    PROVE  /\ CommandFrame(cmd, scmd, data) \in Seq(Byte)
           /\ CommandFrame(cmd, scmd, data) # <<>>
           /\ ResponseFrame(cmd, data) \in Seq(Byte)
           /\ ResponseFrame(cmd, data) # <<>>
<1>1. Len(data) \in Nat
  BY LenProperties
<1>2. Len(data) \in Byte
  <2>1. \A n \in Nat : n <= 250 => n <= 255
    OBVIOUS
  <2> QED BY <1>1, <2>1, ByteFacts
<1> DEFINE b == <<cmd, scmd, Len(data)>>
           c == <<cmd, Len(data)>>
<1>3. b \in Seq(Byte) /\ c \in Seq(Byte) /\ Len(b) = 3 /\ Len(c) = 2
  BY <1>2
<1>4. CommandFrame(cmd, scmd, data) = Packet(b \o data)
      /\ ResponseFrame(cmd, data) = Packet(c \o data)
  BY DEF CommandFrame, ResponseFrame
<1> HIDE DEF b, c
<1>5. /\ b \o data \in Seq(Byte) /\ Len(b \o data) = 3 + Len(data)
      /\ c \o data \in Seq(Byte) /\ Len(c \o data) = 2 + Len(data)
  <2>1. b \o data \in Seq(Byte) /\ Len(b \o data) = Len(b) + Len(data)
    BY <1>3, ConcatProperties
  <2>2. c \o data \in Seq(Byte) /\ Len(c \o data) = Len(c) + Len(data)
    BY <1>3, ConcatProperties
  <2> QED BY <1>3, <2>1, <2>2
<1>6. Len(b \o data) <= 253 /\ Len(c \o data) <= 253
  BY <1>1, <1>5
<1> QED BY <1>4, <1>5, <1>6, PacketType
-----------------------------------------------------------------------------
(* Unstuffing inverts stuffing.                                              *)

(* A loop that gets ahead in every iteration until it is done is done, or    *)
(* has got as far as there were iterations.                                  *)
LEMMA GetsAhead ==
    ASSUME NEW n \in Nat, NEW f, NEW D,
           \A k \in 0 .. n : f[k].next \in Nat,
           \A k \in 1 .. n : f[k - 1] \in D => f[k] \in D,
           \A k \in 1 .. n : f[k - 1] \notin D => f[k].next > f[k - 1].next
    PROVE  f[n] \in D \/ f[n].next >= n
<1> DEFINE T == {k \in Nat : k <= n => f[k] \in D \/ f[k].next >= k}
<1>1. 0 \in T
  OBVIOUS
<1>2. ASSUME NEW k \in Nat, k \in T PROVE k + 1 \in T
  <2> SUFFICES ASSUME k + 1 <= n PROVE f[k + 1] \in D \/ f[k + 1].next >= k + 1
    OBVIOUS
  <2>1. /\ k + 1 \in 1 .. n /\ k + 1 \in 0 .. n /\ k \in 0 .. n /\ (k + 1) - 1 = k
        /\ f[k] \in D \/ f[k].next >= k
    BY <1>2
  <2>2. f[k].next \in Nat /\ f[k + 1].next \in Nat
    BY <2>1
  <2>3. CASE f[k] \in D
    BY <2>1, <2>3
  <2>4. CASE f[k] \notin D
    <3>1. f[k + 1].next > f[k].next /\ f[k].next >= k
      BY <2>1, <2>4
    <3> QED BY <2>2, <3>1
  <2> QED BY <2>3, <2>4
<1>3. n \in T
  <2> HIDE DEF T
  <2> QED BY <1>1, <1>2, SetInduction
<1> QED BY <1>3

(* A frame before it is stuffed: FRAME_BYTE at both ends. *)
Framed(s) == s \in Seq(Byte) /\ Len(s) \in 1 .. 256 /\ s[1] = FRAME_BYTE /\ s[Len(s)] = FRAME_BYTE

(* Stuffing it: the codes lead from one FRAME_BYTE to the next, everything   *)
(* else is left alone.                                                       *)
LEMMA StuffAt ==
    ASSUME NEW s, Framed(s)
    PROVE  /\ Stuff(s) \in Seq(Byte) /\ Len(Stuff(s)) = Len(s)
           /\ Stuff(s)[Len(s)] = FRAME_BYTE
           /\ \A k \in 2 .. Len(s) : s[k] # FRAME_BYTE => Stuff(s)[k] = s[k]
           /\ \A k \in 1 .. Len(s) - 1 : s[k] = FRAME_BYTE =>
                /\ Stuff(s)[k] \in Nat \ {0} /\ k + Stuff(s)[k] \in k + 1 .. Len(s)
                /\ s[k + Stuff(s)[k]] = FRAME_BYTE
                /\ \A j \in k + 1 .. k + Stuff(s)[k] - 1 : s[j] # FRAME_BYTE
<1> DEFINE n == Len(s)
           later(k) == {j \in k + 1 .. n : s[j] = FRAME_BYTE}
<1>1. s \in Seq(Byte) /\ n \in 1 .. 256 /\ s[1] = FRAME_BYTE /\ s[n] = FRAME_BYTE
  BY DEF Framed
<1>2. Stuff(s) \in Seq(Byte) /\ Len(Stuff(s)) = n
  <2>1. \A t \in 1 .. 256 : t <= 256
    OBVIOUS
  <2> QED BY <1>1, <2>1, StuffType
<1>3. \A k \in 1 .. n : Stuff(s)[k] =
        IF (k = 1 \/ s[k] = FRAME_BYTE) /\ later(k) # {} THEN Min(later(k)) - k ELSE s[k]
  BY DEF Stuff
<1>4. \A k \in Nat : \A j : j \in later(k) <=> j \in k + 1 .. n /\ s[j] = FRAME_BYTE
  OBVIOUS
<1> HIDE DEF n, later
<1>5. Stuff(s)[n] = s[n]
  <2>1. \A j : ~(j \in n + 1 .. n)
    BY <1>1
  <2>2. later(n) = {}
    BY <1>1, <1>4, <2>1
  <2> QED BY <1>1, <1>3, <2>2
<1>6. ASSUME NEW k \in 2 .. n, s[k] # FRAME_BYTE PROVE Stuff(s)[k] = s[k]
  <2>1. k \in 1 .. n /\ k # 1
    BY <1>1
  <2> QED BY <1>3, <1>6, <2>1
<1>7. ASSUME NEW k \in 1 .. n - 1, s[k] = FRAME_BYTE
      PROVE  /\ Stuff(s)[k] \in Nat \ {0} /\ k + Stuff(s)[k] \in k + 1 .. n
             /\ s[k + Stuff(s)[k]] = FRAME_BYTE
             /\ \A j \in k + 1 .. k + Stuff(s)[k] - 1 : s[j] # FRAME_BYTE
  <2> DEFINE L == later(k)
             m == Min(L)
  <2>1. k \in Nat /\ k \in 1 .. n /\ n \in k + 1 .. n /\ n \in Nat
    BY <1>1
  <2>2. n \in L /\ L \subseteq Nat /\ L # {}
    BY <1>1, <1>4, <2>1
  <2>3. Stuff(s)[k] = m - k
    BY <1>3, <1>7, <2>1, <2>2
  <2>4. \A j : j \in L <=> j \in k + 1 .. n /\ s[j] = FRAME_BYTE
    BY <1>4, <2>1
  <2> HIDE DEF L
  <2>5. m \in L /\ \A y \in L : m <= y
    BY <2>2, MinNat
  <2> HIDE DEF m
  <2>6. m \in k + 1 .. n /\ s[m] = FRAME_BYTE
    BY <2>4, <2>5
  <2>7. \A j \in k + 1 .. m - 1 : s[j] # FRAME_BYTE
    <3> SUFFICES ASSUME NEW j \in k + 1 .. m - 1, s[j] = FRAME_BYTE PROVE FALSE
      OBVIOUS
    <3>1. m \in Nat /\ m <= n /\ j \in k + 1 .. n
      BY <2>1, <2>6
    <3>2. m <= j
      BY <2>4, <2>5, <3>1
    <3> QED BY <2>1, <3>1, <3>2
  <2>8. m - k \in Nat \ {0} /\ k + (m - k) = m
    BY <2>1, <2>6
  <2> QED BY <2>3, <2>6, <2>7, <2>8
<1>8. \A k \in 1 .. n - 1 : s[k] = FRAME_BYTE =>
        /\ Stuff(s)[k] \in Nat \ {0} /\ k + Stuff(s)[k] \in k + 1 .. n
        /\ s[k + Stuff(s)[k]] = FRAME_BYTE
        /\ \A j \in k + 1 .. k + Stuff(s)[k] - 1 : s[j] # FRAME_BYTE
  BY <1>7
<1>9. Stuff(s)[n] = FRAME_BYTE
  BY <1>1, <1>5
<1>10. \A k \in 2 .. n : s[k] # FRAME_BYTE => Stuff(s)[k] = s[k]
  BY <1>6
<1> QED BY <1>2, <1>8, <1>9, <1>10 DEF n

(* Where either side is in taking the codes out of the first m bytes of a    *)
(* stuffed s: next is the place of a FRAME_BYTE of s, what is before it is   *)
(* as it was in s, what is not is still stuffed.                             *)
Chained(s, m, p) ==
    /\ p.buf \in Seq(Byte) /\ Len(p.buf) = m
    /\ p.next \in 0 .. Len(s) - 1
    /\ s[p.next + 1] = FRAME_BYTE
    /\ \A k \in 1 .. m : p.buf[k] = IF k <= p.next THEN s[k] ELSE Stuff(s)[k]

(* Its bytes, stuffed, up to the m-th. *)
FirstOf(s, m, buf) ==
    buf \in Seq(Byte) /\ Len(buf) = m /\ \A k \in 1 .. m : buf[k] = Stuff(s)[k]

(* The first byte is taken out. *)
LEMMA ChainStart ==
    ASSUME NEW s, Framed(s), NEW m \in 1 .. Len(s), NEW buf, FirstOf(s, m, buf),
           NEW p, p.buf = [buf EXCEPT ![1] = FRAME_BYTE], p.next = buf[1]
    PROVE  /\ Chained(s, m, p)
           /\ buf[1] = 0 => p.next = Len(s) - 1
           /\ \A k \in 2 .. p.next : Stuff(s)[k] = s[k]
<1> DEFINE n == Len(s)
<1>1. /\ s \in Seq(Byte) /\ n \in 1 .. 256 /\ s[1] = FRAME_BYTE /\ s[n] = FRAME_BYTE
      /\ m \in 1 .. n
  BY ONLY Framed(s), m \in 1 .. n DEF Framed
<1>12. n \in Nat /\ n >= 1
  BY ONLY <1>1
<1>2. buf \in [1 .. m -> Byte] /\ FRAME_BYTE \in Byte
  BY LenProperties, ByteFacts DEF FirstOf
<1> DEFINE b == [buf EXCEPT ![1] = FRAME_BYTE]
<1>3. b \in [1 .. m -> Byte] /\ \A k \in 1 .. m : b[k] = IF k = 1 THEN FRAME_BYTE ELSE buf[k]
  BY <1>2
<1>9. \A t \in Nat : \A g \in [1 .. t -> Byte] : g \in Seq(Byte) /\ Len(g) = t
  OBVIOUS
<1>10. m \in Nat
  BY <1>1
<1> HIDE DEF b
<1>4. b \in Seq(Byte) /\ Len(b) = m
  BY <1>3, <1>9, <1>10
<1>5. p.buf = b /\ p.next = Stuff(s)[1] /\ \A k \in 1 .. m : buf[k] = Stuff(s)[k]
  <2>1. p.buf = b /\ p.next = buf[1]
    BY DEF b
  <2>2. \A k \in 1 .. m : buf[k] = Stuff(s)[k]
    BY ONLY FirstOf(s, m, buf) DEF FirstOf
  <2>3. 1 \in 1 .. m
    BY ONLY <1>1
  <2> QED BY ONLY <2>1, <2>2, <2>3
<1>11. /\ Stuff(s)[n] = FRAME_BYTE
       /\ \A k \in 2 .. n : s[k] # FRAME_BYTE => Stuff(s)[k] = s[k]
       /\ \A k \in 1 .. n - 1 : s[k] = FRAME_BYTE =>
            /\ Stuff(s)[k] \in Nat \ {0} /\ k + Stuff(s)[k] \in k + 1 .. n
            /\ s[k + Stuff(s)[k]] = FRAME_BYTE
            /\ \A j \in k + 1 .. k + Stuff(s)[k] - 1 : s[j] # FRAME_BYTE
  BY StuffAt
<1> HIDE DEF n
<1>6. CASE n = 1
  <2>1. p.next = 0
    BY <1>5, <1>6, <1>11 DEF FRAME_BYTE
  <2>2. \A k \in 1 .. m : k = 1 /\ ~(k <= 0)
    BY <1>1, <1>6
  <2>3. Stuff(s)[1] = FRAME_BYTE /\ 0 + 1 = 1 /\ 0 \in 0 .. 1 - 1 /\ 1 - 1 = 0
    BY <1>5, <2>1 DEF FRAME_BYTE
  <2>4. \A k \in 2 .. p.next : FALSE
    BY <2>1
  <2>5. \A k \in 1 .. m : b[k] = IF k <= p.next THEN s[k] ELSE Stuff(s)[k]
    BY <1>3, <2>1, <2>2, <2>3
  <2>6. Chained(s, m, p)
    BY <1>1, <1>4, <1>5, <1>6, <2>1, <2>3, <2>5 DEF Chained, n
  <2> QED BY <1>6, <2>1, <2>3, <2>4, <2>6 DEF n
<1>7. CASE n > 1
  <2> DEFINE c == Stuff(s)[1]
  <2>1. 1 \in 1 .. n - 1
    BY ONLY <1>7, <1>12
  <2>2. /\ c \in Nat \ {0} /\ 1 + c \in 2 .. n
        /\ s[1 + c] = FRAME_BYTE
        /\ \A j \in 2 .. c : s[j] # FRAME_BYTE
    <3>1. /\ c \in Nat \ {0} /\ 1 + c \in 1 + 1 .. n
          /\ s[1 + c] = FRAME_BYTE
          /\ \A j \in 1 + 1 .. 1 + c - 1 : s[j] # FRAME_BYTE
      BY <1>1, <1>11, <2>1
    <3> HIDE DEF c
    <3>2. 1 + 1 = 2 /\ 1 + c - 1 = c
      BY <3>1
    <3> QED BY <3>1, <3>2
  <2>3. \A k \in 2 .. n : s[k] # FRAME_BYTE => Stuff(s)[k] = s[k]
    BY <1>11
  <2>4. p.next = c
    BY <1>5
  <2> HIDE DEF c
  <2>5. c \in 0 .. n - 1 /\ c + 1 = 1 + c
    BY <1>1, <2>2
  <2>6. ASSUME NEW k \in 1 .. m
        PROVE  b[k] = IF k <= c THEN s[k] ELSE Stuff(s)[k]
    <3>1. CASE k = 1
      BY <1>1, <1>3, <2>2, <3>1
    <3>2. CASE k # 1 /\ k <= c
      <4>1. k \in 2 .. c /\ k \in 2 .. n
        BY <1>1, <2>2, <3>2
      <4> QED BY <1>3, <1>5, <2>2, <2>3, <3>2, <4>1
    <3>3. CASE k # 1 /\ ~(k <= c)
      BY <1>3, <1>5, <3>3
    <3> QED BY <3>1, <3>2, <3>3
  <2>7. s[c + 1] = FRAME_BYTE
    BY <2>2, <2>5
  <2>8. buf[1] # 0
    <3>1. 1 \in 1 .. m
      BY <1>1
    <3> QED BY <1>5, <2>2, <3>1 DEF c
  <2>9. \A k \in 2 .. c : Stuff(s)[k] = s[k]
    <3> TAKE k \in 2 .. c
    <3>1. k \in 2 .. n
      BY ONLY <1>12, <2>5, k \in 2 .. c
    <3> QED BY <2>2, <2>3, <3>1
  <2> QED BY <1>4, <1>5, <2>4, <2>5, <2>6, <2>7, <2>8, <2>9 DEF Chained, n
<1>8. n = 1 \/ n > 1
  BY ONLY <1>12
<1> QED BY <1>6, <1>7, <1>8

(* The next code is taken out.  It is 0 only at the end. *)
LEMMA ChainStep ==
    ASSUME NEW s, Framed(s), NEW m \in 1 .. Len(s), NEW p, Chained(s, m, p), p.next < m,
           NEW q, q.buf = [p.buf EXCEPT ![p.next + 1] = FRAME_BYTE],
           q.next = p.next + p.buf[p.next + 1]
    PROVE  /\ Chained(s, m, q)
           /\ p.buf[p.next + 1] = 0 <=> p.next = Len(s) - 1
           /\ p.next # Len(s) - 1 => q.next > p.next
           /\ p.next = Len(s) - 1 => q.next = p.next
           /\ \A k \in p.next + 2 .. q.next : Stuff(s)[k] = s[k]
<1> DEFINE n == Len(s)
           j == p.next + 1
           b == [p.buf EXCEPT ![j] = FRAME_BYTE]
           c == p.buf[j]
<1>1. /\ s \in Seq(Byte) /\ n \in 1 .. 256 /\ s[1] = FRAME_BYTE /\ s[n] = FRAME_BYTE
      /\ m \in 1 .. n
  BY DEF Framed
<1>2. /\ p.buf \in Seq(Byte) /\ Len(p.buf) = m
      /\ p.next \in 0 .. n - 1
      /\ s[j] = FRAME_BYTE
      /\ \A k \in 1 .. m : p.buf[k] = IF k <= p.next THEN s[k] ELSE Stuff(s)[k]
  BY DEF Chained
<1>3. p.buf \in [1 .. m -> Byte] /\ FRAME_BYTE \in Byte
  BY <1>2, LenProperties, ByteFacts
<1>4. j \in 1 .. m /\ j \in 1 .. n /\ p.next = j - 1
  BY <1>1, <1>2
<1>5. b \in [1 .. m -> Byte] /\ \A k \in 1 .. m : b[k] = IF k = j THEN FRAME_BYTE ELSE p.buf[k]
  BY <1>3
<1>6. b \in Seq(Byte) /\ Len(b) = m
  <2>1. \A t \in Nat : \A g \in [1 .. t -> Byte] : g \in Seq(Byte) /\ Len(g) = t
    OBVIOUS
  <2>2. m \in Nat
    BY <1>1
  <2> HIDE DEF b
  <2> QED BY <1>5, <2>1, <2>2
<1>7. q.buf = b /\ q.next = p.next + c
  OBVIOUS
<1>8. c = Stuff(s)[j]
  <2>1. ~(j <= p.next)
    BY <1>4
  <2> QED BY <1>2, <1>4, <2>1
<1>11. /\ Stuff(s)[n] = FRAME_BYTE
       /\ \A k \in 2 .. n : s[k] # FRAME_BYTE => Stuff(s)[k] = s[k]
       /\ \A k \in 1 .. n - 1 : s[k] = FRAME_BYTE =>
            /\ Stuff(s)[k] \in Nat \ {0} /\ k + Stuff(s)[k] \in k + 1 .. n
            /\ s[k + Stuff(s)[k]] = FRAME_BYTE
            /\ \A i \in k + 1 .. k + Stuff(s)[k] - 1 : s[i] # FRAME_BYTE
  BY StuffAt
<1> HIDE DEF n, j, b, c
<1>9. CASE j = n
  <2>1. c = 0 /\ p.next = n - 1
    BY <1>4, <1>8, <1>9, <1>11 DEF FRAME_BYTE
  <2>2. q.next = p.next
    BY <1>4, <1>7, <2>1
  <2>3. \A k \in 1 .. m : b[k] = IF k <= q.next THEN s[k] ELSE Stuff(s)[k]
    <3> TAKE k \in 1 .. m
    <3>1. CASE k = j
      <4>1. ~(k <= p.next)
        BY <1>4, <3>1
      <4>2. b[k] = FRAME_BYTE /\ Stuff(s)[k] = 0
        BY <1>5, <1>8, <2>1, <3>1
      <4> QED BY <2>2, <4>1, <4>2 DEF FRAME_BYTE
    <3>2. CASE k # j
      BY <1>2, <1>5, <2>2, <3>2
    <3> QED BY <3>1, <3>2
  <2>4. Chained(s, m, q)
    BY <1>2, <1>6, <1>7, <2>2, <2>3 DEF Chained, n, j
  <2>5. \A k \in p.next + 2 .. q.next : FALSE
    BY <1>4, <2>2
  <2> QED BY <2>1, <2>2, <2>4, <2>5 DEF c, j, n
<1>10. CASE j # n
  <2>1. j \in 1 .. n - 1
    BY <1>1, <1>4, <1>10
  <2>2. /\ c \in Nat \ {0} /\ j + c \in j + 1 .. n
        /\ s[j + c] = FRAME_BYTE
        /\ \A i \in j + 1 .. j + c - 1 : s[i] # FRAME_BYTE
    BY <1>2, <1>8, <1>11, <2>1
  <2>3. \A k \in 2 .. n : s[k] # FRAME_BYTE => Stuff(s)[k] = s[k]
    BY <1>11
  <2>4. q.next = j + c - 1 /\ q.next \in 0 .. n - 1 /\ q.next + 1 = j + c /\ q.next > p.next
        /\ p.next # n - 1
    BY <1>1, <1>4, <1>7, <2>1, <2>2
  <2>5. ASSUME NEW k \in 1 .. m
        PROVE  b[k] = IF k <= q.next THEN s[k] ELSE Stuff(s)[k]
    <3>1. CASE k = j
      <4>1. k <= q.next
        BY <1>4, <2>2, <2>4, <3>1
      <4> QED BY <1>2, <1>5, <3>1, <4>1
    <3>2. CASE k < j
      <4>1. k <= q.next /\ k <= p.next /\ k # j
        BY <1>4, <2>2, <2>4, <3>2
      <4> QED BY <1>2, <1>5, <4>1
    <3>3. CASE k > j /\ k <= q.next
      <4>0. k \in Int /\ j \in Int /\ c \in Int /\ n \in Int /\ m <= n
        BY <1>1, <1>4, <2>2
      <4>1. k \in j + 1 .. j + c - 1 /\ k \in 2 .. n /\ ~(k <= p.next) /\ k # j
        BY <1>4, <2>4, <3>3, <4>0
      <4> QED BY <1>2, <1>5, <2>2, <2>3, <3>3, <4>1
    <3>4. CASE k > j /\ ~(k <= q.next)
      <4>1. ~(k <= p.next) /\ k # j
        BY <1>4, <3>4
      <4> QED BY <1>2, <1>5, <3>4, <4>1
    <3>5. k = j \/ k < j \/ k > j
      BY <1>4
    <3> QED BY <3>1, <3>2, <3>3, <3>4, <3>5
  <2>6. Chained(s, m, q)
    BY <1>6, <1>7, <2>2, <2>4, <2>5 DEF Chained, n
  <2>7. \A k \in p.next + 2 .. q.next : Stuff(s)[k] = s[k]
    <3> TAKE k \in p.next + 2 .. q.next
    <3>1. k \in j + 1 .. j + c - 1 /\ k \in 2 .. n
      BY <1>1, <1>4, <2>2, <2>4
    <3> QED BY <2>2, <2>3, <3>1
  <2> QED BY <2>2, <2>4, <2>6, <2>7 DEF c, j, n
<1> QED BY <1>9, <1>10

(* When the codes have led past the m bytes, or to the last byte of s, they  *)
(* are those of s.                                                           *)
LEMMA ChainEnd ==
    ASSUME NEW s, Framed(s), NEW m \in 1 .. Len(s), NEW p, Chained(s, m, p),
           p.next >= m \/ p.next = Len(s) - 1
    PROVE  \A k \in 1 .. m : p.buf[k] = s[k]
<1> DEFINE n == Len(s)
<1>1. /\ s \in Seq(Byte) /\ n \in 1 .. 256 /\ s[n] = FRAME_BYTE /\ s[1] = FRAME_BYTE
      /\ m \in 1 .. n
  BY DEF Framed
<1>2. p.next \in Nat /\ \A k \in 1 .. m : p.buf[k] = IF k <= p.next THEN s[k] ELSE Stuff(s)[k]
  BY DEF Chained
<1>3. Stuff(s)[n] = s[n]
  <2>1. Stuff(s)[n] = FRAME_BYTE
    BY StuffAt
  <2> QED BY ONLY <1>1, <2>1
<1>4. p.next >= m \/ p.next = n - 1
  OBVIOUS
<1> HIDE DEF n
<1> TAKE k \in 1 .. m
<1>5. CASE k <= p.next
  BY <1>2, <1>5
<1>6. CASE ~(k <= p.next)
  <2>1. k = n
    BY <1>1, <1>2, <1>4, <1>6
  <2> QED BY <1>2, <1>3, <1>6, <2>1
<1> QED BY <1>5, <1>6

(* _unstuff_data of the host gives back what was stuffed. *)
LEMMA HostInverts ==
    ASSUME NEW s, Framed(s), Len(s) > 1
    PROVE  HostUnstuffData(Stuff(s)) = s
<1> DEFINE n == Len(s)
           buf == Stuff(s)
           last == Len(buf) - 1
           step[p \in [buf : Seq(Byte), next : Nat]] ==
             IF p.next < last /\ p.buf[p.next + 1] # 0
               THEN [buf |-> [p.buf EXCEPT ![p.next + 1] = FRAME_BYTE],
                     next |-> p.next + p.buf[p.next + 1]]
               ELSE p
           start == [buf |-> [buf EXCEPT ![1] = FRAME_BYTE], next |-> buf[1]]
           result(p) == [buf |-> p.buf, next |-> IF p.next > last THEN p.next ELSE 0]
           S == {p \in [buf : Seq(Byte), next : Nat] : Chained(s, n, p)}
           D == {p \in S : p.next = n - 1}
           f == Pass(last, start, step)
<1>1. HostUnstuff(buf) = IF buf = <<>> \/ buf[1] = FRAME_BYTE
                           THEN [buf |-> buf, next |-> 0]
                           ELSE result(f[last])
  BY DEF HostUnstuff, Pass
<1>2. s \in Seq(Byte) /\ n \in 1 .. 256 /\ n > 1 /\ s[1] = FRAME_BYTE /\ s[n] = FRAME_BYTE
  BY DEF Framed
<1>3. buf \in Seq(Byte) /\ Len(buf) = n /\ buf[1] # FRAME_BYTE /\ buf[1] \in Nat /\ buf # <<>>
  <2>1. buf \in Seq(Byte) /\ Len(buf) = n
    BY StuffAt
  <2>2. 1 \in 1 .. n - 1
    BY <1>2
  <2>3. Stuff(s)[1] \in Nat \ {0}
    BY <1>2, <2>2, StuffAt
  <2> QED BY <1>2, <2>1, <2>3, EmptySeq DEF FRAME_BYTE
<1>4. FirstOf(s, n, buf)
  BY <1>3 DEF FirstOf
<1>5. last = n - 1 /\ last \in Nat
  BY <1>2, <1>3
<1>6. start \in S
  <2>1. start.buf = [buf EXCEPT ![1] = FRAME_BYTE] /\ start.next = buf[1]
    OBVIOUS
  <2>2. n \in 1 .. Len(s)
    BY <1>2
  <2> HIDE DEF start
  <2>3. Chained(s, n, start)
    BY <1>4, <2>1, <2>2, ChainStart
  <2>4. start.buf \in Seq(Byte)
    BY <2>3 DEF Chained
  <2> QED BY <1>3, <2>3, <2>4 DEF start
<1>7. \A p \in S : /\ step[p] \in S
                   /\ p.next = n - 1 => step[p].next = n - 1
                   /\ p.next # n - 1 => step[p].next > p.next
  <2> TAKE p \in S
  <2>1. p \in [buf : Seq(Byte), next : Nat] /\ Chained(s, n, p)
    OBVIOUS
  <2> DEFINE q == [buf |-> [p.buf EXCEPT ![p.next + 1] = FRAME_BYTE],
                   next |-> p.next + p.buf[p.next + 1]]
  <2>2. step[p] = IF p.next < last /\ p.buf[p.next + 1] # 0 THEN q ELSE p
    BY <2>1
  <2>3. /\ q.buf = [p.buf EXCEPT ![p.next + 1] = FRAME_BYTE]
        /\ q.next = p.next + p.buf[p.next + 1]
        /\ q = [buf |-> q.buf, next |-> q.next]
    OBVIOUS
  <2> HIDE DEF q, step, start, f
  <2>4. p.next \in 0 .. n - 1
    BY <2>1 DEF Chained
  <2>5. p.next < n /\ n \in 1 .. Len(s)
    BY <1>2, <2>4
  <2>6. /\ Chained(s, n, q)
        /\ p.buf[p.next + 1] = 0 <=> p.next = n - 1
        /\ p.next # n - 1 => q.next > p.next
    BY <2>1, <2>3, <2>5, ChainStep
  <2>7. q.buf \in Seq(Byte) /\ q.next \in Nat
    <3>1. q.buf \in Seq(Byte) /\ q.next \in 0 .. n - 1
      BY ONLY <2>6 DEF Chained
    <3> QED BY ONLY <3>1
  <2>8. q \in [buf : Seq(Byte), next : Nat]
    BY <2>3, <2>7
  <2>9. p.next # n - 1 => p.next < last
    BY ONLY <1>2, <1>5, <2>4
  <2> QED BY <1>5, <2>1, <2>2, <2>4, <2>6, <2>8, <2>9
<1> HIDE DEF step, start, f, last, buf
<1>8. /\ \A k \in 1 .. last : f[k] = step[f[k - 1]]
      /\ \A k \in 0 .. last : f[k] \in S
  <2>1. \A p \in S : step[p] \in S
    BY <1>7
  <2>2. start \in S /\ last \in Nat
    BY <1>5, <1>6
  <2> HIDE DEF S
  <2> QED BY ONLY <2>1, <2>2, PassSteps DEF f
<1>9. f[last] \in D \/ f[last].next >= last
  <2>1. \A k \in 0 .. last : f[k].next \in Nat
    BY <1>8
  <2>2. \A k \in 1 .. last : k - 1 \in 0 .. last
    BY <1>5
  <2>3. \A k \in 1 .. last : f[k - 1] \in D => f[k] \in D
    BY <1>7, <1>8, <2>2
  <2>4. \A k \in 1 .. last : f[k - 1] \notin D => f[k].next > f[k - 1].next
    BY <1>7, <1>8, <2>2
  <2> HIDE DEF D
  <2> QED BY <1>5, <2>1, <2>3, <2>4, GetsAhead
<1>10. Chained(s, n, f[last]) /\ f[last].next = n - 1
  <2>1. last \in 0 .. last
    BY <1>5
  <2>2. Chained(s, n, f[last])
    BY <1>8, <2>1
  <2>3. f[last].next \in 0 .. n - 1
    BY <2>2 DEF Chained
  <2> QED BY <1>2, <1>5, <1>9, <2>2, <2>3
<1> DEFINE r == f[last].buf
<1>11. \A k \in 1 .. n : r[k] = s[k]
  <2>1. n \in 1 .. Len(s)
    BY <1>2
  <2> QED BY <1>10, <2>1, ChainEnd
<1>12. r \in Seq(Byte) /\ Len(r) = n
  BY <1>10 DEF Chained
<1> HIDE DEF r
<1>13. r = s
  <2>1. r \in Seq(Byte) /\ s \in Seq(Byte)
    BY ONLY <1>2, <1>12
  <2>2. Len(r) = Len(s)
    BY ONLY <1>12
  <2>3. \A k \in 1 .. Len(r) : r[k] = s[k]
    BY ONLY <1>11, <2>2
  <2> QED BY ONLY <2>1, <2>2, <2>3, SeqEqual
<1>14. HostUnstuff(buf) = result(f[last])
  BY ONLY <1>1, <1>3
<1>15. HostUnstuff(buf).buf = r
  BY <1>14 DEF r
<1> QED BY <1>13, <1>15 DEF HostUnstuffData, buf

(* unstuff_data of the target, of the first m bytes of a stuffed frame, gives *)
(* back those of the frame, and where the next code is, if there is one       *)
(* behind them.                                                               *)
LEMMA TargetInverts ==
    ASSUME NEW s, Framed(s), NEW m \in 1 .. Len(s), NEW buf, FirstOf(s, m, buf)
    PROVE  LET u == UnstuffData(buf, m) IN
           /\ u.buf \in Seq(Byte) /\ Len(u.buf) = m
           /\ \A k \in 1 .. m : u.buf[k] = s[k]
           /\ u.next \in 0 .. Len(s) - 1 /\ s[u.next + 1] = FRAME_BYTE
           /\ u.next >= m \/ u.next = Len(s) - 1
           /\ \A k \in m + 1 .. u.next : Stuff(s)[k] = s[k]
<1> DEFINE n == Len(s)
           step[p \in [buf : Seq(Byte), next : Byte, tmp : Byte]] ==
             IF p.next < m /\ p.tmp # 0
               THEN LET code == p.buf[p.next + 1] IN
                    [buf |-> [p.buf EXCEPT ![p.next + 1] = FRAME_BYTE],
                     next |-> U8(p.next + code), tmp |-> code]
               ELSE p
           start == [buf |-> [buf EXCEPT ![1] = FRAME_BYTE], next |-> buf[1], tmp |-> buf[1]]
           S == {p \in [buf : Seq(Byte), next : Byte, tmp : Byte] :
                   /\ Chained(s, m, p)
                   /\ p.tmp = 0 => p.next = n - 1
                   /\ \A k \in m + 1 .. p.next : Stuff(s)[k] = s[k]}
           D == {p \in S : p.next >= m \/ p.next = n - 1}
           f == Pass(m, start, step)
<1>1. UnstuffData(buf, m) = f[m]
  BY DEF UnstuffData, Pass
<1>2. s \in Seq(Byte) /\ n \in 1 .. 256 /\ m \in 1 .. n /\ m \in Nat
      /\ buf \in Seq(Byte) /\ Len(buf) = m
  BY DEF Framed, FirstOf
<1>3. start \in S
  <2>1. start.buf = [buf EXCEPT ![1] = FRAME_BYTE] /\ start.next = buf[1]
        /\ start.tmp = buf[1]
    OBVIOUS
  <2>2. buf[1] \in Byte
    <3>1. 1 \in 1 .. m
      BY <1>2
    <3> QED BY <1>2, <3>1, ElementOfSeq
  <2> HIDE DEF start
  <2>3. /\ Chained(s, m, start)
        /\ buf[1] = 0 => start.next = n - 1
        /\ \A k \in 2 .. start.next : Stuff(s)[k] = s[k]
    BY <2>1, ChainStart
  <2>4. start.buf \in Seq(Byte) /\ start.next \in Nat
    BY <1>2, <2>3 DEF Chained
  <2>5. \A k \in m + 1 .. start.next : k \in 2 .. start.next
    BY <1>2, <2>4
  <2>6. start \in [buf : Seq(Byte), next : Byte, tmp : Byte]
    BY <2>2, <2>4, <2>1 DEF start
  <2> QED BY <2>1, <2>3, <2>5, <2>6
<1>4. \A p \in S : /\ step[p] \in S
                   /\ p.next >= m \/ p.next = n - 1 => step[p].next = p.next
                   /\ ~(p.next >= m \/ p.next = n - 1) => step[p].next > p.next
  <2> TAKE p \in S
  <2>1. p \in [buf : Seq(Byte), next : Byte, tmp : Byte] /\ Chained(s, m, p)
        /\ (p.tmp = 0 => p.next = n - 1)
        /\ \A k \in m + 1 .. p.next : Stuff(s)[k] = s[k]
    OBVIOUS
  <2>2. p.next \in 0 .. n - 1 /\ p.next \in Nat
    <3>1. p.next \in 0 .. n - 1
      BY ONLY <2>1 DEF Chained
    <3> QED BY ONLY <1>2, <3>1
  <2> DEFINE c == p.buf[p.next + 1]
             q == [buf |-> [p.buf EXCEPT ![p.next + 1] = FRAME_BYTE],
                   next |-> p.next + c, tmp |-> c]
  <2>3. CASE ~(p.next < m /\ p.tmp # 0)
    <3>1. step[p] = p
      BY <2>1, <2>3
    <3> HIDE DEF step, start, f
    <3> QED BY <1>2, <2>1, <2>2, <2>3, <3>1
  <2>4. CASE p.next < m /\ p.tmp # 0
    <3>1. step[p] = [buf |-> q.buf, next |-> U8(p.next + c), tmp |-> c]
      BY <2>1, <2>4
    <3>2. /\ q.buf = [p.buf EXCEPT ![p.next + 1] = FRAME_BYTE]
          /\ q.next = p.next + p.buf[p.next + 1]
          /\ q.tmp = p.buf[p.next + 1]
      OBVIOUS
    <3>3. p.next + c = q.next /\ c = p.buf[p.next + 1]
          /\ q = [buf |-> q.buf, next |-> q.next, tmp |-> c]
      OBVIOUS
    <3> HIDE DEF q, step, start, f
    <3>4. /\ Chained(s, m, q)
          /\ p.buf[p.next + 1] = 0 <=> p.next = n - 1
          /\ p.next # n - 1 => q.next > p.next
          /\ p.next = n - 1 => q.next = p.next
          /\ \A k \in p.next + 2 .. q.next : Stuff(s)[k] = s[k]
      BY <2>1, <2>4, <3>2, ChainStep
    <3>5. q.next \in 0 .. n - 1 /\ q.buf \in Seq(Byte)
      BY <3>4 DEF Chained
    <3>6. q.next \in Byte /\ q.next \in Nat /\ U8(q.next) = q.next
      <4>1. \A x \in 0 .. 255 : x % 256 = x
        OBVIOUS
      <4> DEFINE x == q.next
      <4>5. n \in 1 .. 256 /\ x \in 0 .. n - 1
        BY ONLY <1>2, <3>5
      <4> HIDE DEF n, x
      <4>2. x \in 0 .. 255 /\ x \in Nat
        BY ONLY <4>5
      <4>3. q.next \in 0 .. 255 /\ q.next \in Nat
        BY <4>2 DEF x
      <4>4. U8(q.next) = q.next
        <5>1. q.next % 256 = q.next
          BY ONLY <4>1, <4>3
        <5> QED BY <5>1 DEF U8
      <4> QED BY <4>3, <4>4 DEF Byte
    <3>7. step[p] = q
      BY <3>1, <3>3, <3>6
    <3>8. c \in Byte
      <4>1. p.next + 1 \in 1 .. m
        BY <1>2, <2>2, <2>4
      <4>2. p.buf \in Seq(Byte) /\ Len(p.buf) = m
        BY <2>1 DEF Chained
      <4> QED BY <4>1, <4>2, ElementOfSeq
    <3> HIDE DEF c
    <3>9. q \in [buf : Seq(Byte), next : Byte, tmp : Byte] /\ q.tmp = c
      BY <3>3, <3>5, <3>6, <3>8
    <3>10. \A k \in m + 1 .. q.next : k \in p.next + 2 .. q.next
      BY <1>2, <2>2, <2>4, <3>6
    <3>11. c = 0 => p.next = n - 1 /\ q.next = n - 1
      BY <3>3, <3>4
    <3>12. q \in S
      BY <3>4, <3>9, <3>10, <3>11
    <3>13. ~(p.next >= m)
      BY <1>2, <2>2, <2>4
    <3> QED BY <3>4, <3>7, <3>12, <3>13
  <2> QED BY <2>3, <2>4
<1> HIDE DEF step, start, f
<1>5. /\ \A k \in 1 .. m : f[k] = step[f[k - 1]]
      /\ \A k \in 0 .. m : f[k] \in S
  <2>1. \A p \in S : step[p] \in S
    BY <1>4
  <2> HIDE DEF S
  <2> QED BY <1>2, <1>3, <2>1, PassSteps DEF f
<1>6. \A p \in S : p.next \in Nat
  <2> TAKE p \in S
  <2>1. Chained(s, m, p)
    OBVIOUS
  <2>2. p.next \in 0 .. n - 1
    BY ONLY <2>1 DEF Chained
  <2> QED BY ONLY <1>2, <2>2
<1>7. f[m] \in D \/ f[m].next >= m
  <2>1. \A k \in 0 .. m : f[k].next \in Nat
    BY <1>5, <1>6
  <2>2. \A k \in 1 .. m : k - 1 \in 0 .. m
    BY <1>2
  <2>5. \A p \in D : step[p] \in D
    <3> TAKE p \in D
    <3>1. p \in S /\ (p.next >= m \/ p.next = n - 1)
      OBVIOUS
    <3>2. step[p] \in S /\ step[p].next = p.next
      BY <1>4, <3>1
    <3> HIDE DEF S
    <3> QED BY <3>1, <3>2
  <2>3. \A k \in 1 .. m : f[k - 1] \in D => f[k] \in D
    <3> HIDE DEF D
    <3> QED BY <1>5, <2>5
  <2>4. \A k \in 1 .. m : f[k - 1] \notin D => f[k].next > f[k - 1].next
    BY <1>4, <1>5, <2>2
  <2> HIDE DEF D
  <2>6. m \in Nat
    BY ONLY <1>2
  <2> QED BY ONLY <2>1, <2>3, <2>4, <2>6, GetsAhead
<1>8. f[m] \in S /\ (f[m].next >= m \/ f[m].next = n - 1)
  <2>1. m \in 0 .. m
    BY <1>2
  <2> QED BY <1>5, <1>7, <2>1
<1>9. Chained(s, m, f[m]) /\ \A k \in m + 1 .. f[m].next : Stuff(s)[k] = s[k]
  BY <1>8
<1>10. \A k \in 1 .. m : f[m].buf[k] = s[k]
  BY <1>8, <1>9, ChainEnd
<1> QED BY <1>1, <1>8, <1>9, <1>10 DEF Chained

(* What is behind the first d bytes of a frame, from a FRAME_BYTE on. *)
Behind(s, d, t) ==
    /\ d \in Nat /\ t \in Seq(Byte)
    /\ Len(t) \in 1 .. 256 /\ Len(s) = d + Len(t)
    /\ s[d + 1] = FRAME_BYTE
    /\ \A k \in 1 .. Len(t) : t[k] = s[d + k]

(* It is a frame, and stuffing it does not depend on what is before it. *)
LEMMA SuffixStuffed ==
    ASSUME NEW s, Framed(s), NEW d, NEW t, Behind(s, d, t)
    PROVE  /\ Framed(t)
           /\ \A k \in 1 .. Len(t) : Stuff(t)[k] = Stuff(s)[d + k]
<1> DEFINE n == Len(s)
           l == Len(t)
<1>0. /\ d \in Nat /\ t \in Seq(Byte) /\ l \in 1 .. 256
      /\ s[d + 1] = FRAME_BYTE /\ \A k \in 1 .. l : t[k] = s[d + k]
  BY DEF Behind
<1>1. n = d + l /\ s[n] = FRAME_BYTE
  BY DEF Framed, Behind
<1>2. l \in 1 .. n /\ 1 \in 1 .. l /\ n \in Nat /\ d \in Nat /\ l \in 1 .. 256
  <2> HIDE DEF n, l
  <2> QED BY <1>0, <1>1
<1>3. t[1] = FRAME_BYTE /\ t[l] = FRAME_BYTE
  <2>1. t[1] = s[d + 1] /\ t[l] = s[d + l]
    BY <1>0, <1>2
  <2> QED BY <1>0, <1>1, <2>1
<1>4. Framed(t)
  BY <1>0, <1>3 DEF Framed
<1>5. /\ Stuff(s)[n] = FRAME_BYTE
      /\ \A k \in 2 .. n : s[k] # FRAME_BYTE => Stuff(s)[k] = s[k]
      /\ \A k \in 1 .. n - 1 : s[k] = FRAME_BYTE =>
           /\ Stuff(s)[k] \in Nat \ {0} /\ k + Stuff(s)[k] \in k + 1 .. n
           /\ s[k + Stuff(s)[k]] = FRAME_BYTE
           /\ \A i \in k + 1 .. k + Stuff(s)[k] - 1 : s[i] # FRAME_BYTE
  BY StuffAt
<1>6. /\ Stuff(t)[l] = FRAME_BYTE
      /\ \A k \in 2 .. l : t[k] # FRAME_BYTE => Stuff(t)[k] = t[k]
      /\ \A k \in 1 .. l - 1 : t[k] = FRAME_BYTE =>
           /\ Stuff(t)[k] \in Nat \ {0} /\ k + Stuff(t)[k] \in k + 1 .. l
           /\ t[k + Stuff(t)[k]] = FRAME_BYTE
           /\ \A i \in k + 1 .. k + Stuff(t)[k] - 1 : t[i] # FRAME_BYTE
  BY <1>4, StuffAt
<1>7. \A k \in 1 .. l : t[k] = s[d + k]
  BY <1>0
<1> HIDE DEF n, l
<1>8. ASSUME NEW k \in 1 .. l PROVE Stuff(t)[k] = Stuff(s)[d + k]
  <2>1. k \in Nat /\ d + k \in Nat /\ d + k \in 1 .. n /\ t[k] = s[d + k]
    BY <1>1, <1>2, <1>7
  <2>2. CASE k = l
    BY <1>1, <1>2, <1>5, <1>6, <2>2
  <2>3. CASE k # l /\ t[k] # FRAME_BYTE
    <3>1. k # 1
      BY <1>3, <2>3
    <3>2. k \in 2 .. l /\ d + k \in 2 .. n
      BY <1>1, <1>2, <2>1, <3>1
    <3>3. Stuff(t)[k] = t[k] /\ Stuff(s)[d + k] = s[d + k]
      BY <1>5, <1>6, <2>1, <2>3, <3>2
    <3> QED BY <2>1, <3>3
  <2>4. CASE k # l /\ t[k] = FRAME_BYTE
    <3> DEFINE a == Stuff(s)[d + k]
               b == Stuff(t)[k]
               j == d + k
    <3>1. k \in 1 .. l - 1 /\ j \in 1 .. n - 1
      BY <1>1, <1>2, <2>1, <2>4
    <3>2. /\ b \in Nat \ {0} /\ k + b \in k + 1 .. l /\ t[k + b] = FRAME_BYTE
          /\ \A i \in k + 1 .. k + b - 1 : t[i] # FRAME_BYTE
      BY <1>6, <2>4, <3>1
    <3>3. s[j] = FRAME_BYTE
      BY <2>1, <2>4
    <3>4. /\ a \in Nat \ {0} /\ j + a \in j + 1 .. n /\ s[j + a] = FRAME_BYTE
          /\ \A i \in j + 1 .. j + a - 1 : s[i] # FRAME_BYTE
      <4> HIDE DEF j
      <4> QED BY <1>5, <3>1, <3>3 DEF j
    <3>5. j = d + k
      OBVIOUS
    <3> HIDE DEF a, b, j
    <3>6. ~(b < a)
      <4> SUFFICES ASSUME b < a PROVE FALSE
        OBVIOUS
      <4>1. k + b \in 1 .. l /\ d + (k + b) = j + b /\ j + b \in j + 1 .. j + a - 1
        BY <1>1, <1>2, <2>1, <3>2, <3>4, <3>5
      <4>2. t[k + b] = s[j + b]
        BY <1>7, <4>1
      <4> QED BY <3>2, <3>4, <4>1, <4>2
    <3>7. ~(a < b)
      <4> SUFFICES ASSUME a < b PROVE FALSE
        OBVIOUS
      <4>1. k + a \in 1 .. l /\ d + (k + a) = j + a /\ k + a \in k + 1 .. k + b - 1
        BY <1>1, <1>2, <2>1, <3>2, <3>4, <3>5
      <4>2. t[k + a] = s[j + a]
        BY <1>7, <4>1
      <4> QED BY <3>2, <3>4, <4>1, <4>2
    <3>8. a = b
      BY <3>2, <3>4, <3>6, <3>7
    <3> QED BY <3>8 DEF a, b
  <2> QED BY <2>2, <2>3, <2>4
<1> QED BY <1>4, <1>8 DEF l

(* What the two calls of unstuff_data in simpleserial_get make of a frame:    *)
(* the first, of its four first bytes, in Header of SSv2Target; the second,   *)
(* of what begins at the next code, in Frame.                                 *)
HeaderOf(frame) == UnstuffData(SubSeq(frame, 1, 4), 4)
WholeOf(frame) ==
    LET n == Len(frame)
        u == HeaderOf(frame)
        buf == u.buf \o SubSeq(frame, 5, n)
    IN  SubSeq(buf, 1, u.next) \o UnstuffData(SubSeq(buf, u.next + 1, n), n - u.next).buf

(* Together they give back the whole frame. *)
LEMMA TargetReadsBack ==
    ASSUME NEW s, Framed(s), Len(s) >= 5
    PROVE  /\ \A k \in 1 .. 4 : HeaderOf(Stuff(s)).buf[k] = s[k]
           /\ HeaderOf(Stuff(s)).next \in 4 .. Len(s) - 1
           /\ WholeOf(Stuff(s)) = s
<1> DEFINE n == Len(s)
           f == Stuff(s)
           first == SubSeq(f, 1, 4)
           u == UnstuffData(first, 4)
           later == SubSeq(f, 5, n)
           buf == u.buf \o later
           d == u.next
           rest == SubSeq(buf, d + 1, n)
           t == SubSeq(s, d + 1, n)
           head == SubSeq(buf, 1, d)
           r == UnstuffData(rest, n - d)
<1>1. s \in Seq(Byte) /\ n \in 1 .. 256 /\ n >= 5 /\ n \in Nat
  BY DEF Framed
<1>2. f \in Seq(Byte) /\ Len(f) = n
  BY StuffAt
<1>3. 4 \in 1 .. n /\ FirstOf(s, 4, first)
  <2>1. first \in Seq(Byte) /\ Len(first) = 4 /\ \A k \in 1 .. 4 : first[k] = f[k]
    <3> HIDE DEF f, n
    <3> QED BY <1>1, <1>2
  <2> QED BY <1>1, <2>1 DEF FirstOf
<1>4. /\ u.buf \in Seq(Byte) /\ Len(u.buf) = 4
      /\ \A k \in 1 .. 4 : u.buf[k] = s[k]
      /\ d \in 0 .. n - 1 /\ s[d + 1] = FRAME_BYTE
      /\ d >= 4 \/ d = n - 1
      /\ \A k \in 4 + 1 .. d : f[k] = s[k]
  <2> HIDE DEF first
  <2> QED BY <1>3, TargetInverts
<1> HIDE DEF u, f, n, d
<1>5. d \in 4 .. n - 1 /\ d \in Nat /\ n - d \in 1 .. n /\ \A k \in 5 .. d : f[k] = s[k]
  BY <1>1, <1>4
<1>6. later \in Seq(Byte) /\ Len(later) = n - 4 /\ \A k \in 1 .. n - 4 : later[k] = f[4 + k]
  <2>1. \A k \in 1 .. n - 4 : 5 + k - 1 = 4 + k
    BY <1>1
  <2> QED BY <1>1, <1>2, <2>1
<1> HIDE DEF later
<1>7. /\ buf \in Seq(Byte) /\ Len(buf) = n
      /\ \A k \in 1 .. n : buf[k] = IF k <= 4 THEN s[k] ELSE f[k]
  <2> DEFINE b == u.buf
  <2>5. b \in Seq(Byte) /\ Len(b) = 4
    BY <1>4
  <2>6. 4 + (n - 4) = n
    BY <1>1
  <2>7. buf = b \o later
    OBVIOUS
  <2> HIDE DEF b, buf
  <2>8. /\ buf \in Seq(Byte) /\ Len(buf) = Len(b) + Len(later)
        /\ \A k \in 1 .. Len(b) + Len(later) :
              buf[k] = IF k <= Len(b) THEN b[k] ELSE later[k - Len(b)]
    BY <1>6, <2>5, <2>7, ConcatProperties
  <2>1. buf \in Seq(Byte) /\ Len(buf) = n
    BY <1>6, <2>5, <2>6, <2>8
  <2>2. \A k \in 1 .. n : buf[k] = IF k <= 4 THEN b[k] ELSE later[k - 4]
    BY <1>6, <2>5, <2>6, <2>8
  <2>3. \A k \in 1 .. n : k <= 4 => k \in 1 .. 4
    OBVIOUS
  <2>4. \A k \in 1 .. n : ~(k <= 4) => k - 4 \in 1 .. n - 4 /\ 4 + (k - 4) = k
    BY <1>1
  <2>9. ASSUME NEW k \in 1 .. n PROVE buf[k] = IF k <= 4 THEN s[k] ELSE f[k]
    <3>1. CASE k <= 4
      <4>1. buf[k] = b[k] /\ k \in 1 .. 4
        BY <2>2, <2>3, <3>1
      <4> QED BY <1>4, <3>1, <4>1 DEF b
    <3>2. CASE ~(k <= 4)
      <4>1. buf[k] = later[k - 4] /\ k - 4 \in 1 .. n - 4 /\ 4 + (k - 4) = k
        BY <2>2, <2>4, <3>2
      <4>2. later[k - 4] = f[4 + (k - 4)]
        BY <1>6, <4>1
      <4> QED BY <3>2, <4>1, <4>2
    <3> QED BY <3>1, <3>2
  <2> QED BY <2>1, <2>9
<1> HIDE DEF buf
<1>8. rest \in Seq(Byte) /\ Len(rest) = n - d /\ \A k \in 1 .. n - d : rest[k] = buf[d + k]
  <2>1. \A k \in 1 .. n - d : d + 1 + k - 1 = d + k
    BY <1>1, <1>5
  <2> QED BY <1>1, <1>5, <1>7, <2>1
<1>9. t \in Seq(Byte) /\ Len(t) = n - d /\ \A k \in 1 .. n - d : t[k] = s[d + k]
  <2>1. \A k \in 1 .. n - d : d + 1 + k - 1 = d + k
    BY <1>1, <1>5
  <2>2. s \in Seq(Byte) /\ Len(s) = n
    BY <1>1 DEF n
  <2> QED BY <1>1, <1>5, <2>1, <2>2
<1>10. head \in Seq(Byte) /\ Len(head) = d /\ \A k \in 1 .. d : head[k] = buf[k]
  BY <1>1, <1>5, <1>7
<1> HIDE DEF rest, t, head
<1>11. Framed(t) /\ \A k \in 1 .. n - d : Stuff(t)[k] = f[d + k]
  <2>1. n - d \in 1 .. 256 /\ n = d + (n - d)
    BY <1>1, <1>5
  <2>2. Behind(s, d, t)
    BY <1>4, <1>5, <1>9, <2>1 DEF Behind, n
  <2>3. Framed(t) /\ \A k \in 1 .. Len(t) : Stuff(t)[k] = Stuff(s)[d + k]
    BY <2>2, SuffixStuffed
  <2> QED BY <1>9, <2>3 DEF f
<1>12. FirstOf(t, n - d, rest) /\ n - d \in 1 .. Len(t)
  <2>1. \A k \in 1 .. n - d : d + k \in 1 .. n /\ ~(d + k <= 4)
    BY <1>1, <1>5
  <2>2. \A k \in 1 .. n - d : rest[k] = Stuff(t)[k]
    BY <1>7, <1>8, <1>11, <2>1
  <2> QED BY <1>5, <1>8, <1>9, <2>2 DEF FirstOf
<1>13. r.buf \in Seq(Byte) /\ Len(r.buf) = n - d /\ \A k \in 1 .. n - d : r.buf[k] = t[k]
  BY <1>11, <1>12, TargetInverts
<1> HIDE DEF r
<1> DEFINE full == head \o r.buf
<1>18. d + (n - d) = n
  BY <1>1, <1>5
<1>19. /\ full \in Seq(Byte) /\ Len(full) = Len(head) + Len(r.buf)
       /\ \A k \in 1 .. Len(head) + Len(r.buf) :
             full[k] = IF k <= Len(head) THEN head[k] ELSE r.buf[k - Len(head)]
  <2> DEFINE v == r.buf
  <2>1. head \in Seq(Byte) /\ v \in Seq(Byte) /\ full = head \o v
    BY <1>10, <1>13
  <2> HIDE DEF full, v
  <2>2. /\ full \in Seq(Byte) /\ Len(full) = Len(head) + Len(v)
        /\ \A k \in 1 .. Len(head) + Len(v) :
              full[k] = IF k <= Len(head) THEN head[k] ELSE v[k - Len(head)]
    BY ONLY <2>1, ConcatProperties
  <2> QED BY ONLY <2>2 DEF v
<1> HIDE DEF full
<1>14. full \in Seq(Byte) /\ Len(full) = n
  BY <1>10, <1>13, <1>18, <1>19
<1>15. \A k \in 1 .. n : full[k] = IF k <= d THEN head[k] ELSE r.buf[k - d]
  BY <1>10, <1>13, <1>18, <1>19
<1>16. ASSUME NEW k \in 1 .. n PROVE full[k] = s[k]
  <2>1. CASE k <= d
    <3>1. k \in 1 .. d /\ (~(k <= 4) => k \in 5 .. d)
      BY <1>5, <2>1
    <3> QED BY <1>5, <1>7, <1>10, <1>15, <2>1, <3>1
  <2>2. CASE ~(k <= d)
    <3>1. k - d \in 1 .. n - d /\ d + (k - d) = k
      BY <1>1, <1>5, <2>2
    <3> QED BY <1>9, <1>13, <1>15, <2>2, <3>1
  <2> QED BY <2>1, <2>2
<1>17. full = s
  <2>1. Len(s) = n
    BY DEF n
  <2> QED BY <1>1, <1>14, <1>16, <2>1, SeqEqual
<1>20. u = HeaderOf(f)
  BY DEF HeaderOf, u
<1>21. WholeOf(f) = full
  <2>1. Len(f) = n
    BY <1>2
  <2> HIDE DEF first
  <2> QED BY <1>20, <2>1 DEF WholeOf, full, head, r, rest, buf, later, d
<1> QED BY <1>4, <1>5, <1>17, <1>20, <1>21 DEF d, f, n

(* A packet before it is stuffed. *)
LEMMA PacketStuffed ==
    ASSUME NEW body \in Seq(Byte), Len(body) <= 253
    PROVE  LET s == <<0>> \o body \o <<Crc(body), FRAME_BYTE>> IN
           /\ Packet(body) = Stuff(s) /\ Framed(s) /\ Len(s) = Len(body) + 3
           /\ \A k \in 1 .. Len(body) : s[k + 1] = body[k]
           /\ s[Len(body) + 2] = Crc(body)
           /\ \A k \in 1 .. Len(s) - 1 : Packet(body)[k] # FRAME_BYTE
           /\ Packet(body)[Len(s)] = FRAME_BYTE
<1> DEFINE tail == <<Crc(body), FRAME_BYTE>>
           l == Len(body)
           h == <<0>> \o body
           s == h \o tail
<1>1. Packet(body) = Stuff(s)
  BY DEF Packet
<1>2. /\ <<0>> \in Seq(Byte) /\ tail \in Seq(Byte) /\ Len(<<0>>) = 1 /\ Len(tail) = 2
      /\ tail[1] = Crc(body) /\ tail[2] = FRAME_BYTE
  <2>1. Crc(body) \in Byte /\ FRAME_BYTE \in Byte /\ 0 \in Byte
    BY CrcType, ByteFacts DEF FRAME_BYTE
  <2> QED BY <2>1
<1> HIDE DEF tail
<1>3. l \in Nat /\ l <= 253
  BY LenProperties
<1>4. /\ h \in Seq(Byte) /\ Len(h) = 1 + l
      /\ \A k \in 1 .. 1 + l : h[k] = IF k <= 1 THEN <<0>>[k] ELSE body[k - 1]
  BY <1>2, ConcatProperties
<1> HIDE DEF h, l, s
<1>5. /\ s \in Seq(Byte) /\ Len(s) = (1 + l) + 2
      /\ \A k \in 1 .. (1 + l) + 2 : s[k] = IF k <= 1 + l THEN h[k] ELSE tail[k - (1 + l)]
  <2>1. s = h \o tail /\ h \in Seq(Byte) /\ tail \in Seq(Byte)
    BY <1>2, <1>4 DEF s
  <2>2. /\ s \in Seq(Byte) /\ Len(s) = Len(h) + Len(tail)
        /\ \A k \in 1 .. Len(h) + Len(tail) :
              s[k] = IF k <= Len(h) THEN h[k] ELSE tail[k - Len(h)]
    BY ONLY <2>1, ConcatProperties
  <2> QED BY <1>2, <1>4, <2>2
<1>6. Len(s) = l + 3 /\ Len(s) \in 1 .. 256
  BY <1>3, <1>5
<1>7. s[1] = FRAME_BYTE /\ s[l + 2] = Crc(body) /\ s[l + 3] = FRAME_BYTE
  <2>1. s[1] = h[1]
    BY <1>3, <1>5
  <2>2. h[1] = 0
    BY <1>3, <1>4
  <2>3. l + 2 \in 1 .. (1 + l) + 2 /\ ~(l + 2 <= 1 + l) /\ (l + 2) - (1 + l) = 1
        /\ l + 3 \in 1 .. (1 + l) + 2 /\ ~(l + 3 <= 1 + l) /\ (l + 3) - (1 + l) = 2
    BY <1>3
  <2>4. s[l + 2] = tail[1] /\ s[l + 3] = tail[2]
    BY <1>5, <2>3
  <2> QED BY <1>2, <2>1, <2>2, <2>4 DEF FRAME_BYTE
<1>8. Framed(s)
  BY <1>5, <1>6, <1>7 DEF Framed
<1>9. ASSUME NEW k \in 1 .. l PROVE s[k + 1] = body[k]
  <2>1. k + 1 \in 1 .. (1 + l) + 2 /\ k + 1 <= 1 + l /\ k + 1 \in 1 .. 1 + l
        /\ ~(k + 1 <= 1) /\ (k + 1) - 1 = k
    BY <1>3
  <2> QED BY <1>4, <1>5, <2>1
<1>10. ASSUME NEW k \in 1 .. Len(s) - 1 PROVE Stuff(s)[k] # FRAME_BYTE
  <2>1. CASE s[k] = FRAME_BYTE
    <3>1. Stuff(s)[k] \in Nat \ {0}
      BY <1>8, <2>1, StuffAt
    <3> QED BY <3>1 DEF FRAME_BYTE
  <2>2. CASE s[k] # FRAME_BYTE
    <3>1. k \in 2 .. Len(s)
      BY <1>6, <1>7, <2>2
    <3>2. Stuff(s)[k] = s[k]
      BY <1>8, <2>2, <3>1, StuffAt
    <3> QED BY <2>2, <3>2
  <2> QED BY <2>1, <2>2
<1>11. Stuff(s)[Len(s)] = FRAME_BYTE
  BY <1>8, StuffAt
<1> QED BY <1>1, <1>6, <1>7, <1>8, <1>9, <1>10, <1>11 DEF l, s, h, tail

(* What the host takes out of a packet of the target is what the target put  *)
(* in, between code and terminator (simpleserial_put, then _unstuff_data).   *)
(* Code, body, CRC and terminator fit simpleserial_put's MAX_SS_LEN + 5.     *)
THEOREM HostReadsPacket ==
    ASSUME NEW body \in Seq(Byte), Len(body) + 3 <= MAX_SS_LEN + 5
    PROVE  HostUnstuffData(Packet(body)) = <<0>> \o body \o <<Crc(body), FRAME_BYTE>>
<1> DEFINE s == <<0>> \o body \o <<Crc(body), FRAME_BYTE>>
<1>1. Len(body) <= 253
  BY LenProperties DEF MAX_SS_LEN
<1>2. Packet(body) = Stuff(s) /\ Framed(s) /\ Len(s) = Len(body) + 3
  BY <1>1, PacketStuffed
<1> HIDE DEF s
<1>3. Len(s) > 1
  BY <1>2, LenProperties
<1> QED BY <1>2, <1>3, HostInverts DEF s

(* A command that send_cmd writes passes every check of simpleserial_get and *)
(* comes out as it was: no byte but the last is FRAME_BYTE; the two calls of *)
(* unstuff_data give back command, subcommand, length and data; the length   *)
(* is that of the data; the first code leads no further than the frame; the  *)
(* CRC fits.  The frame is one that data_buf holds.                          *)
THEOREM TargetReadsCommand ==
    ASSUME NEW cmd \in Byte, NEW scmd \in Byte,
           NEW data \in Seq(Byte), Len(data) + 6 <= MAX_SS_LEN
    PROVE  LET f == CommandFrame(cmd, scmd, data)
               n == Len(data) + 6
               u == HeaderOf(f)
               full == WholeOf(f)
           IN  /\ Len(f) = n /\ \A k \in 1 .. n : f[k] = FRAME_BYTE <=> k = n
               /\ u.buf[2] = cmd /\ u.buf[4] = Len(data) /\ u.next \in 4 .. u.buf[4] + 5
               /\ full[2] = cmd /\ full[3] = scmd /\ full[4] = Len(data)
               /\ SubSeq(full, 5, 4 + full[4]) = data
               /\ Crc(SubSeq(full, 2, n - 2)) = full[n - 1]
<1> DEFINE head == <<cmd, scmd, Len(data)>>
           body == head \o data
           s == <<0>> \o body \o <<Crc(body), FRAME_BYTE>>
           f == CommandFrame(cmd, scmd, data)
           l == Len(data)
           n == l + 6
           u == HeaderOf(f)
           full == WholeOf(f)
<1>1. l \in Nat /\ l <= 250 /\ l \in Byte
  <2>1. l \in Nat /\ l <= 250
    BY LenProperties DEF MAX_SS_LEN
  <2>2. l <= 255
    BY <2>1
  <2> QED BY <2>1, <2>2, ByteFacts
<1>2. /\ head \in Seq(Byte) /\ Len(head) = 3
      /\ head[1] = cmd /\ head[2] = scmd /\ head[3] = l
  BY <1>1
<1>3. f = Packet(body)
  BY DEF CommandFrame
<1> HIDE DEF head, f, s, body, l, u, full
<1>4. /\ body \in Seq(Byte) /\ Len(body) = 3 + l
      /\ \A k \in 1 .. 3 + l : body[k] = IF k <= 3 THEN head[k] ELSE data[k - 3]
  <2>1. body = head \o data /\ head \in Seq(Byte) /\ data \in Seq(Byte) /\ Len(data) = l
    BY <1>2 DEF body, l
  <2>2. /\ body \in Seq(Byte) /\ Len(body) = Len(head) + Len(data)
        /\ \A k \in 1 .. Len(head) + Len(data) :
              body[k] = IF k <= Len(head) THEN head[k] ELSE data[k - Len(head)]
    BY ONLY <2>1, ConcatProperties
  <2> QED BY <1>2, <2>1, <2>2
<1>5. Len(body) <= 253
  BY <1>1, <1>4
<1>6. /\ f = Stuff(s) /\ Framed(s) /\ Len(s) = (3 + l) + 3
      /\ \A k \in 1 .. 3 + l : s[k + 1] = body[k]
      /\ s[(3 + l) + 2] = Crc(body)
      /\ \A k \in 1 .. Len(s) - 1 : f[k] # FRAME_BYTE
      /\ f[Len(s)] = FRAME_BYTE
  <2>1. body \in Seq(Byte) /\ Len(body) = 3 + l
    BY <1>4
  <2>2. /\ Packet(body) = Stuff(s) /\ Framed(s) /\ Len(s) = Len(body) + 3
        /\ \A k \in 1 .. Len(body) : s[k + 1] = body[k]
        /\ s[Len(body) + 2] = Crc(body)
        /\ \A k \in 1 .. Len(s) - 1 : Packet(body)[k] # FRAME_BYTE
        /\ Packet(body)[Len(s)] = FRAME_BYTE
    BY <1>5, <2>1, PacketStuffed DEF s
  <2> QED BY <1>3, <2>1, <2>2
<1>7. Len(s) = n /\ (3 + l) + 2 = n - 1 /\ Len(s) >= 5 /\ n \in Nat
  BY <1>1, <1>6
<1>8. Len(f) = n /\ \A k \in 1 .. n : f[k] = FRAME_BYTE <=> k = n
  <2>1. Len(f) = n
    BY <1>6, <1>7, StuffAt
  <2>2. \A k \in 1 .. n : k # n => k \in 1 .. n - 1
    BY <1>7
  <2> HIDE DEF n
  <2> QED BY <1>6, <1>7, <2>1, <2>2
<1>9. s[2] = cmd /\ s[3] = scmd /\ s[4] = l /\ \A k \in 1 .. l : s[4 + k] = data[k]
  <2>1. 1 \in 1 .. 3 + l /\ 2 \in 1 .. 3 + l /\ 3 \in 1 .. 3 + l
    BY <1>1
  <2>2. s[1 + 1] = head[1] /\ s[2 + 1] = head[2] /\ s[3 + 1] = head[3]
    BY <1>4, <1>6, <2>1
  <2>3. ASSUME NEW k \in 1 .. l PROVE s[4 + k] = data[k]
    <3>1. 3 + k \in 1 .. 3 + l /\ ~(3 + k <= 3) /\ (3 + k) - 3 = k /\ (3 + k) + 1 = 4 + k
      BY <1>1
    <3>2. s[(3 + k) + 1] = body[3 + k] /\ body[3 + k] = data[(3 + k) - 3]
      BY <1>4, <1>6, <3>1
    <3> QED BY <3>1, <3>2
  <2>4. 1 + 1 = 2 /\ 2 + 1 = 3 /\ 3 + 1 = 4
    OBVIOUS
  <2> QED BY <1>2, <2>2, <2>3, <2>4
<1>10. (\A k \in 1 .. 4 : u.buf[k] = s[k]) /\ u.next \in 4 .. n - 1 /\ full = s
  <2> HIDE DEF n
  <2> QED BY <1>6, <1>7, TargetReadsBack DEF u, full
<1>11. u.buf[2] = cmd /\ u.buf[4] = l /\ u.next \in 4 .. u.buf[4] + 5
  <2>1. u.buf[2] = cmd /\ u.buf[4] = l
    BY <1>9, <1>10
  <2>2. u.next \in 4 .. l + 5
    BY <1>1, <1>10
  <2> QED BY <2>1, <2>2
<1>12. s \in Seq(Byte) /\ Len(s) = l + 6
  BY <1>6, <1>7 DEF Framed
<1>13. SubSeq(s, 5, 4 + l) = data
  <2> DEFINE d == SubSeq(s, 5, 4 + l)
  <2>1. d \in Seq(Byte) /\ Len(d) = l /\ \A k \in 1 .. l : d[k] = s[4 + k]
    <3>1. \A k \in 1 .. l : 5 + k - 1 = 4 + k
      BY <1>1
    <3> QED BY <1>1, <1>12, <3>1
  <2> HIDE DEF d
  <2>2. d = data
    <3>1. Len(data) = l
      BY DEF l
    <3> QED BY <1>9, <2>1, <3>1, SeqEqual
  <2> QED BY <2>2 DEF d
<1>14. SubSeq(s, 2, n - 2) = body
  <2> DEFINE d == SubSeq(s, 2, n - 2)
  <2>1. d \in Seq(Byte) /\ Len(d) = 3 + l /\ \A k \in 1 .. 3 + l : d[k] = s[k + 1]
    <3>1. \A k \in 1 .. 3 + l : 2 + k - 1 = k + 1
      BY <1>1
    <3> QED BY <1>1, <1>12, <3>1
  <2> HIDE DEF d
  <2>2. d = body
    <3>1. \A k \in 1 .. Len(d) : d[k] = body[k]
      BY <1>6, <2>1
    <3>2. d \in Seq(Byte) /\ body \in Seq(Byte) /\ Len(d) = Len(body)
      BY <1>4, <2>1
    <3> QED BY <3>1, <3>2, SeqEqual
  <2> QED BY <2>2 DEF d
<1>15. Crc(SubSeq(s, 2, n - 2)) = s[n - 1]
  <2> HIDE DEF n
  <2> QED BY <1>6, <1>7, <1>14
<1>16. /\ full[2] = cmd /\ full[3] = scmd /\ full[4] = l
       /\ SubSeq(full, 5, 4 + full[4]) = data
       /\ Crc(SubSeq(full, 2, n - 2)) = full[n - 1]
  BY <1>9, <1>10, <1>13, <1>15
<1> QED BY <1>8, <1>11, <1>16 DEF u, full, f, l
=============================================================================
