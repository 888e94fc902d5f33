--------------------------- MODULE SSv1Link_proofs ---------------------------
(***************************************************************************)
(* Proofs about SSv1Link: for any commands, plaintexts, leftovers and      *)
(* faults, a line that arrives whole leaves the target at the start of a   *)
(* line, wherever in a line it was before; what the two sides hold are     *)
(* bytes, no more of them than the table of commands allows; and a list of *)
(* commands the host gets is the table of the target.                      *)
(***************************************************************************)
EXTENDS SSv1Link, SequenceTheorems, WellFoundedInduction, TLAPS

(* The table keeps its letters and flags; only lengths change. *)
Table ==
    /\ commands \in [DOMAIN Registered -> [c : Byte, len : Int, flags : {0, 1}]]
    /\ \A k \in DOMAIN Registered :
         commands[k].c = Registered[k].c /\ commands[k].flags = Registered[k].flags

LineTypes ==
    /\ toTarget \in Seq(Nat)
    /\ lenBuf \in Seq(Nat) /\ Len(lenBuf) <= 2
    /\ ascii_buf \in Seq(Nat)
    /\ cmd \in {0} \cup DOMAIN Registered

(* The request of the call in progress. *)
Request ==
    /\ calls \in Nat
    /\ cur.data \in Seq(Byte)
    /\ line \in Nat
    /\ hpc = "con" => hit

(* Two characters before the end of a whole line the target cannot be about *)
(* to take its newline for a digit of a length.                             *)
Guarded(s) == Len(s) >= 2 => s[Len(s) - 1] # CMD_MASK
InLength == cmd # 0 /\ commands[cmd].flags = 1 /\ Len(lenBuf) = 0
Ends ==
    \/ Len(toTarget) = 0 /\ cmd = 0
    \/ /\ Len(toTarget) > 0
       /\ toTarget[Len(toTarget)] = NL
       /\ Guarded(toTarget)
       /\ Len(toTarget) = 1 => ~InLength

IInv ==
    /\ Table
    /\ LineTypes
    /\ Request
    /\ ~hit => Ends

(* The table of commands, as assumed of the firmware. *)
LEMMA Consts ==
    /\ Registered \in Seq(Entry)
    /\ DOMAIN Registered = 1 .. Len(Registered) /\ Len(Registered) \in Nat
    /\ \A k \in DOMAIN Registered :
         /\ Registered[k] \in Entry
         /\ Registered[k].c # NL
         /\ Registered[k].flags = 1 => Registered[k].c = CMD_MASK
BY RegisteredAssumption

(* At first nothing is promised of the line. *)
LEMMA Initially == Init => IInv
<1> SUFFICES ASSUME Init PROVE IInv
  OBVIOUS
<1>1. Table
  BY Consts DEF Init, TargetInit, Table, Entry, Byte
<1>2. LineTypes
  <2>1. toTarget \in Seq(Byte) /\ Byte \subseteq Nat
    BY LinkAssumption DEF Init, Byte
  <2>2. toTarget \in Seq(Nat)
    BY <2>1, SeqMonotonic
  <2> QED
    BY <2>2, EmptySeq DEF Init, TargetInit, LineTypes
<1>3. Request
  BY EmptySeq DEF Init, Request, NoRequest
<1> QED
  BY <1>1, <1>2, <1>3 DEF IInv, Init

-----------------------------------------------------------------------------
(* One character of the target. *)

(* The value of a digit is a number, also when it is no digit. *)
LEMMA HexIsInt == ASSUME NEW c \in Nat PROVE HexValue(c) \in Int
BY DEF HexValue

(* Two digits make one byte. *)
LEMMA OneByte ==
    ASSUME NEW s \in Seq(Nat), Len(s) = 2
    PROVE  hex_decode(s)[1] \in Int
<1>1. Len(s) \div 2 = 1
  OBVIOUS
<1>2. hex_decode(s)[1] = 16 * HexValue(s[1]) + HexValue(s[2])
  BY <1>1 DEF hex_decode
<1>3. s[1] \in Nat /\ s[2] \in Nat
  OBVIOUS
<1>4. HexValue(s[1]) \in Int /\ HexValue(s[2]) \in Int
  BY <1>3, HexIsInt
<1> QED
  BY <1>2, <1>4

(* simpleserial_get returns with empty buffers. *)
LEMMA ReturnTypes ==
    ASSUME Return
    PROVE  /\ lenBuf' \in Seq(Nat) /\ Len(lenBuf') <= 2
           /\ ascii_buf' \in Seq(Nat)
           /\ cmd' = 0
BY EmptySeq DEF Return

(* A digit of a length keeps the table and the buffers in range ... *)
LEMMA DigitTypes ==
    ASSUME Table, LineTypes, NEW c \in Nat, cmd # 0, ReadsLength, LengthDigit(c)
    PROVE  /\ Table'
           /\ lenBuf' \in Seq(Nat) /\ Len(lenBuf') <= 2
           /\ ascii_buf' \in Seq(Nat)
           /\ cmd' \in {0} \cup DOMAIN Registered
<1> DEFINE buff == Append(lenBuf, c)
<1>1. buff \in Seq(Nat) /\ Len(buff) = Len(lenBuf) + 1 /\ Len(lenBuf) \in Nat
  BY LenProperties DEF LineTypes
<1>2. Len(buff) <= 2
  BY <1>1 DEF ReadsLength
<1>3. cmd \in DOMAIN Registered /\ ascii_buf \in Seq(Nat)
  BY DEF LineTypes
<1>4. \/ lenBuf' = buff /\ UNCHANGED <<cmd, ascii_buf, commands>>
      \/ /\ Len(buff) = 2
         /\ lenBuf' = buff /\ UNCHANGED <<cmd, ascii_buf>>
         /\ commands' = [commands EXCEPT ![cmd].len = hex_decode(buff)[1]]
      \/ Return /\ commands' = commands
  <2>1. Len(buff) = 1 \/ Len(buff) = 2
    BY <1>1, <1>2
  <2> QED
    BY <2>1 DEF LengthDigit
<1> HIDE DEF buff
<1>5. CASE lenBuf' = buff /\ UNCHANGED <<cmd, ascii_buf, commands>>
  BY <1>1, <1>2, <1>3, <1>5 DEF Table
<1>6. CASE /\ Len(buff) = 2
           /\ lenBuf' = buff /\ UNCHANGED <<cmd, ascii_buf>>
           /\ commands' = [commands EXCEPT ![cmd].len = hex_decode(buff)[1]]
  <2>1. hex_decode(buff)[1] \in Int
    BY <1>1, <1>6, OneByte
  <2>2. Table'
    BY <1>3, <1>6, <2>1 DEF Table
  <2> QED
    BY <1>1, <1>2, <1>3, <1>6, <2>2
<1>7. CASE Return /\ commands' = commands
  BY <1>7, ReturnTypes DEF Table
<1> QED
  BY <1>4, <1>5, <1>6, <1>7

(* ... and so does every character. *)
LEMMA GetchTypes ==
    ASSUME IInv, Getch, NEW c \in Nat, c = Head(toTarget)
    PROVE  Table' /\ LineTypes'
<1>1. toTarget' \in Seq(Nat)
  BY DEF Getch, IInv, LineTypes
<1>2. CASE cmd = 0
  <2>1. Letter(c)
    BY <1>2 DEF Getch
  <2> QED
    BY <1>1, <2>1, Consts DEF Letter, Find, IInv, Table, LineTypes
<1>3. CASE cmd # 0 /\ ReadsLength
  <2>1. LengthDigit(c)
    BY <1>3 DEF Getch
  <2> QED
    BY <1>1, <1>3, <2>1, DigitTypes DEF IInv, LineTypes
<1>4. CASE cmd # 0 /\ ~ReadsLength /\ Missing > 0
  <2>1. Payload(c)
    BY <1>4 DEF Getch
  <2>2. CASE Return
    BY <1>1, <2>1, <2>2, ReturnTypes DEF Payload, IInv, Table, LineTypes
  <2>3. CASE ascii_buf' = Append(ascii_buf, c) /\ UNCHANGED <<cmd, lenBuf>>
    <3>1. ascii_buf' \in Seq(Nat)
      BY <2>3 DEF IInv, LineTypes
    <3> QED
      BY <1>1, <2>1, <2>3, <3>1 DEF Payload, IInv, Table, LineTypes
  <2> QED
    BY <2>1, <2>2, <2>3 DEF Payload
<1>5. CASE cmd # 0 /\ ~ReadsLength /\ ~(Missing > 0)
  <2>1. EndOfLine(c)
    BY <1>5 DEF Getch
  <2> QED
    BY <1>1, <2>1, ReturnTypes DEF EndOfLine, IInv, Table, LineTypes
<1> QED
  BY <1>2, <1>3, <1>4, <1>5

(* The newline of a line that is not in a length gives the line up or ends it. *)
LEMMA Newline ==
    ASSUME IInv, Getch, Head(toTarget) = NL, ~InLength
    PROVE  cmd' = 0
<1>1. lenBuf \in Seq(Nat) /\ Len(lenBuf) \in Nat
  BY LenProperties DEF IInv, LineTypes
<1>2. CASE cmd = 0
  <2>1. Find(NL) = {}
    BY Consts DEF Find, IInv, Table
  <2> QED
    BY <1>2, <2>1 DEF Getch, Letter
<1>3. CASE cmd # 0 /\ ReadsLength
  <2>1. Len(lenBuf) < 2 /\ Len(lenBuf) # 0
    BY <1>3 DEF InLength, ReadsLength
  <2>2. Len(lenBuf) = 1
    <3>1. \A n \in Nat : n < 2 /\ n # 0 => n = 1
      OBVIOUS
    <3> QED
      BY <1>1, <2>1, <3>1
  <2>3. NL \in Nat
    BY DEF NL
  <2>4. Len(Append(lenBuf, NL)) = 2 /\ Append(lenBuf, NL)[2] = NL
    <3>1. /\ Len(Append(lenBuf, NL)) = Len(lenBuf) + 1
          /\ Append(lenBuf, NL)[Len(lenBuf) + 1] = NL
      BY <1>1, <2>3
    <3> QED
      BY <2>2, <3>1
  <2>5. ~IsHex(Append(lenBuf, NL)[2])
    BY <2>4 DEF IsHex, NL
  <2>6. LengthDigit(NL)
    BY <1>3 DEF Getch
  <2>7. 2 \in 1 .. 2
    OBVIOUS
  <2>8. Return
    BY <2>4, <2>5, <2>6, <2>7 DEF LengthDigit
  <2> QED
    BY <2>8 DEF Return
<1>4. CASE cmd # 0 /\ ~ReadsLength /\ Missing > 0
  BY <1>4 DEF Getch, Payload, Return
<1>5. CASE cmd # 0 /\ ~ReadsLength /\ ~(Missing > 0)
  BY <1>5 DEF Getch, EndOfLine, Return
<1> QED
  BY <1>2, <1>3, <1>4, <1>5

(* A character that is not the letter of a command of variable length leaves *)
(* the target past the first digit of a length, if it is in one.             *)
LEMMA OtherLetter ==
    ASSUME IInv, Getch, Head(toTarget) \in Nat, Head(toTarget) # CMD_MASK, Table'
    PROVE  ~InLength'
<1> DEFINE c == Head(toTarget)
<1> USE DEF IInv, Table, LineTypes, InLength
<1>1. CASE cmd = 0
  <2>1. commands' = commands /\ (cmd' = 0 \/ cmd' \in Find(c))
    BY <1>1 DEF Getch, Letter
  <2>2. ASSUME cmd' \in Find(c) PROVE commands'[cmd'].flags # 1
    BY <2>1, <2>2, Consts DEF Find
  <2> QED
    BY <2>1, <2>2
<1>2. CASE cmd # 0 /\ ReadsLength
  <2>1. LengthDigit(c)
    BY <1>2 DEF Getch
  <2>2. Len(Append(lenBuf, c)) = Len(lenBuf) + 1 /\ Len(lenBuf) \in Nat
    BY LenProperties
  <2>3. Len(Append(lenBuf, c)) # 0
    BY <2>2
  <2> QED
    BY <2>1, <2>3 DEF LengthDigit, Return
<1>3. CASE cmd # 0 /\ ~ReadsLength /\ Missing > 0
  BY <1>3 DEF Getch, Payload, Return, ReadsLength
<1>4. CASE cmd # 0 /\ ~ReadsLength /\ ~(Missing > 0)
  BY <1>4 DEF Getch, EndOfLine, Return
<1> QED
  BY <1>1, <1>2, <1>3, <1>4

(* What is left of the end of a line when its first character is taken. *)
LEMMA TailOfLine ==
    ASSUME NEW s \in Seq(Nat), NEW n \in Nat, n = Len(s), n > 0
    PROVE  /\ Head(s) \in Nat
           /\ n = 1 => Len(Tail(s)) = 0 /\ Head(s) = s[n]
           /\ n = 2 => Head(s) = s[n - 1]
           /\ n >= 2 => Len(Tail(s)) = n - 1 /\ Tail(s)[n - 1] = s[n]
           /\ n > 2 => Tail(s)[n - 2] = s[n - 1]
<1>1. s # <<>>
  BY EmptySeq
<1>2. /\ Head(s) \in Nat /\ Head(s) = s[1]
      /\ Len(Tail(s)) = n - 1
      /\ \A k \in 1 .. n - 1 : Tail(s)[k] = s[k + 1]
  BY <1>1, HeadTailProperties
<1>3. ASSUME n >= 2 PROVE n - 1 \in 1 .. n - 1 /\ n - 1 + 1 = n
  BY <1>3
<1>4. ASSUME n > 2 PROVE n - 2 \in 1 .. n - 1 /\ n - 2 + 1 = n - 1
  BY <1>4
<1>5. n = 2 => n - 1 = 1
  OBVIOUS
<1>6. n = 1 => n - 1 = 0
  OBVIOUS
<1> QED
  BY <1>2, <1>3, <1>4, <1>5, <1>6

(* A target that reads a line which ends whole stays in one. *)
LEMMA GetchEnds ==
    ASSUME IInv, Getch, Ends, Table'
    PROVE  Ends'
<1> DEFINE n == Len(toTarget)
<1>1. /\ toTarget \in Seq(Nat) /\ n \in Nat
      /\ toTarget' = Tail(toTarget) /\ toTarget # <<>>
  BY LenProperties DEF Getch, IInv, LineTypes
<1>2. n # 0
  BY <1>1, EmptySeq
<1>3. /\ n > 0
      /\ toTarget[n] = NL
      /\ n >= 2 => toTarget[n - 1] # CMD_MASK
      /\ n = 1 => ~InLength
  BY <1>2 DEF Ends, Guarded
<1>4. /\ Head(toTarget) \in Nat
      /\ n = 1 => Len(toTarget') = 0 /\ Head(toTarget) = toTarget[n]
      /\ n = 2 => Head(toTarget) = toTarget[n - 1]
      /\ n >= 2 => Len(toTarget') = n - 1 /\ toTarget'[n - 1] = toTarget[n]
      /\ n > 2 => toTarget'[n - 2] = toTarget[n - 1]
  BY <1>1, <1>3, TailOfLine
<1> HIDE DEF n
<1>5. CASE n = 1
  BY <1>3, <1>4, <1>5, Newline DEF Ends
<1>6. CASE n = 2
  <2>1. Head(toTarget) # CMD_MASK
    BY <1>3, <1>4, <1>6
  <2>2. ~InLength'
    BY <1>4, <2>1, OtherLetter
  <2>3. Len(toTarget') = 1 /\ toTarget'[1] = NL
    <3>1. n - 1 = 1 /\ n >= 2
      BY <1>6
    <3> QED
      BY <1>3, <1>4, <3>1
  <2> QED
    BY <2>2, <2>3 DEF Ends, Guarded
<1>7. CASE n > 2
  <2>1. n >= 2 /\ n - 1 > 0 /\ n - 1 >= 2 /\ n - 1 # 1 /\ n - 1 - 1 = n - 2
    BY <1>1, <1>7
  <2>2. Len(toTarget') = n - 1 /\ toTarget'[n - 1] = NL /\ toTarget'[n - 2] # CMD_MASK
    BY <1>3, <1>4, <1>7, <2>1
  <2> QED
    BY <2>1, <2>2 DEF Ends, Guarded
<1>8. n = 1 \/ n = 2 \/ n > 2
  BY <1>1, <1>3
<1> QED
  BY <1>5, <1>6, <1>7, <1>8

-----------------------------------------------------------------------------
(* The lines the host writes. *)

(* Neither case of a hex digit is the letter of a command of variable length. *)
LEMMA DigitIsNoLetter ==
    ASSUME NEW n \in 0 .. 15, NEW a \in {65, 97}
    PROVE  Digit(n, a) \in Nat /\ Digit(n, a) # CMD_MASK
BY DEF Digit, CMD_MASK

(* A byte has two digits. *)
LEMMA Nibbles ==
    ASSUME NEW b \in 0 .. 255
    PROVE  b \div 16 \in 0 .. 15 /\ b % 16 \in 0 .. 15
OBVIOUS

(* What the host writes of a payload are digits, never an 'm'. *)
LEMMA HexDigits ==
    ASSUME NEW bytes, bytes \in Seq(Byte), NEW a, a \in {65, 97}
    PROVE  /\ Hex(bytes, a) \in Seq(Nat)
           /\ Len(Hex(bytes, a)) = 2 * Len(bytes)
           /\ \A k \in 1 .. 2 * Len(bytes) : Hex(bytes, a)[k] # CMD_MASK
<1>1. ASSUME NEW k, k \in 1 .. 2 * Len(bytes)
      PROVE  Hex(bytes, a)[k] \in Nat /\ Hex(bytes, a)[k] # CMD_MASK
  <2> DEFINE b == bytes[(k + 1) \div 2]
  <2>1. (k + 1) \div 2 \in 1 .. Len(bytes)
    BY <1>1
  <2>2. b \in Byte
    BY <2>1, ElementOfSeq
  <2>3. b \div 16 \in 0 .. 15 /\ b % 16 \in 0 .. 15
    BY <2>2, Nibbles DEF Byte
  <2>4. Hex(bytes, a)[k] = Digit(IF k % 2 = 1 THEN b \div 16 ELSE b % 16, a)
    BY <1>1 DEF Hex
  <2>5. (IF k % 2 = 1 THEN b \div 16 ELSE b % 16) \in 0 .. 15
    BY <2>3
  <2>6. a \in {65, 97}
    OBVIOUS
  <2> DEFINE m == IF k % 2 = 1 THEN b \div 16 ELSE b % 16
  <2> HIDE DEF b, m
  <2>7. m \in 0 .. 15 /\ Hex(bytes, a)[k] = Digit(m, a)
    BY ONLY <2>4, <2>5 DEF m
  <2>8. Digit(m, a) \in Nat /\ Digit(m, a) # CMD_MASK
    BY ONLY <2>6, <2>7, DigitIsNoLetter
  <2> QED BY ONLY <2>7, <2>8
<1>2. Hex(bytes, a) = [k \in 1 .. 2 * Len(bytes) |-> Hex(bytes, a)[k]]
  BY DEF Hex
<1>3. 2 * Len(bytes) \in Nat
  OBVIOUS
<1>4. Hex(bytes, a) \in Seq(Nat) /\ Len(Hex(bytes, a)) = 2 * Len(bytes)
  BY <1>1, <1>2, <1>3
<1> QED
  BY <1>1, <1>4

(* A line ends in a newline, with a digit or another letter before it. *)
LEMMA LineEnds ==
    ASSUME NEW c \in Nat, NEW data \in Seq(Byte)
    PROVE  /\ Line(c, data) \in Seq(Nat)
           /\ Len(Line(c, data)) >= 2
           /\ Line(c, data)[Len(Line(c, data))] = NL
           /\ Line(c, data)[Len(Line(c, data)) - 1] # CMD_MASK
<1> DEFINE n == IF c = CMD_MASK THEN Hex(<<Len(data)>>, 65) ELSE <<>>
           h == Hex(data, 97)
           front == <<c>> \o n \o h
<1>1. h \in Seq(Nat) /\ Len(h) = 2 * Len(data)
      /\ \A k \in 1 .. Len(h) : h[k] # CMD_MASK
  BY HexDigits
<1>2. n \in Seq(Nat)
  <2>1. CASE c # CMD_MASK
    BY <2>1
  <2>2. CASE c = CMD_MASK
    <3>1. \A k \in 1 .. 2 : Hex(<<Len(data)>>, 65)[k] \in Nat
      <4>1. ASSUME NEW k \in 1 .. 2
            PROVE  /\ <<Len(data)>>[(k + 1) \div 2] = Len(data)
                   /\ Hex(<<Len(data)>>, 65)[k] =
                        Digit(IF k % 2 = 1 THEN Len(data) \div 16 ELSE Len(data) % 16, 65)
        <5>1. (k + 1) \div 2 = 1
          OBVIOUS
        <5> QED
          BY <5>1 DEF Hex
      <4>2. Len(data) \div 16 \in Nat /\ Len(data) % 16 \in Nat
        OBVIOUS
      <4> QED
        BY <4>1, <4>2 DEF Digit
    <3>2. Hex(<<Len(data)>>, 65) = [k \in 1 .. 2 |-> Hex(<<Len(data)>>, 65)[k]]
      BY DEF Hex
    <3>3. Hex(<<Len(data)>>, 65) \in [1 .. 2 -> Nat]
      BY <3>1, <3>2
    <3>4. \A k \in Nat : [1 .. k -> Nat] \subseteq Seq(Nat)
      OBVIOUS
    <3>5. Hex(<<Len(data)>>, 65) \in Seq(Nat)
      BY <3>3, <3>4
    <3> QED
      BY <2>2, <3>5
  <2> QED
    BY <2>1, <2>2, EmptySeq
<1>3. front \in Seq(Nat) /\ Len(front) = 1 + Len(n) + Len(h)
  BY <1>1, <1>2
<1>4. front[Len(front)] # CMD_MASK
  <2>1. CASE Len(h) > 0
    BY <1>1, <1>2, <1>3, <2>1
  <2>2. CASE Len(h) = 0 /\ c # CMD_MASK
    BY <1>1, <1>2, <1>3, <2>2
  <2>3. CASE Len(h) = 0 /\ c = CMD_MASK
    <3>1. Len(data) = 0
      BY <1>1, <2>3
    <3>2. <<Len(data)>> \in Seq(Byte) /\ Len(<<Len(data)>>) = 1
      BY <3>1 DEF Byte
    <3>3. 65 \in {65, 97} /\ 2 \in 1 .. 2 * 1
      OBVIOUS
    <3>4. Len(n) = 2 * 1 /\ n[2] # CMD_MASK
      BY <2>3, <3>2, <3>3, HexDigits
    <3>5. Len(h) = 0 /\ Len(n) = 2 /\ Len(front) = 3
      <4>1. 2 * 1 = 2 /\ 1 + 2 + 0 = 3
        OBVIOUS
      <4> HIDE DEF n, h, front
      <4>2. Len(h) = 0 /\ Len(n) = 2
        BY <2>3, <3>4, <4>1
      <4> QED
        BY <1>3, <4>1, <4>2
    <3> HIDE DEF n, h
    <3>6. <<c>> \o n \in Seq(Nat) /\ Len(<<c>> \o n) = 3 /\ (<<c>> \o n)[3] = n[2]
      BY <1>2, <3>5
    <3>7. front = <<c>> \o n
      <4>1. h = <<>>
        BY <1>1, <3>5, EmptySeq
      <4> QED
        BY <3>6, <4>1, ConcatEmptySeq
    <3> QED
      BY <3>4, <3>5, <3>6, <3>7
  <2> QED
    BY <1>1, <2>1, <2>2, <2>3
<1>5. Line(c, data) = front \o <<NL>>
  BY DEF Line
<1>6. NL \in Nat
  BY DEF NL
<1> HIDE DEF front
<1> QED
  BY <1>3, <1>4, <1>5, <1>6

(* A whole line behind whatever is on its way ends it whole. *)
LEMMA WriteEnds ==
    ASSUME IInv, Write
    PROVE  toTarget' \in Seq(Nat) /\ Ends'
<1> DEFINE l == Line(line, cur.data)
<1>1. toTarget \in Seq(Nat) /\ line \in Nat /\ cur.data \in Seq(Byte)
  BY DEF IInv, LineTypes, Request
<1>2. /\ l \in Seq(Nat) /\ Len(l) >= 2 /\ l[Len(l)] = NL
      /\ l[Len(l) - 1] # CMD_MASK
  BY <1>1, LineEnds
<1>3. toTarget' = toTarget \o l
  BY DEF Write
<1> HIDE DEF l
<1>4. toTarget' \in Seq(Nat) /\ Len(toTarget') = Len(toTarget) + Len(l)
  BY <1>1, <1>2, <1>3
<1>5. toTarget'[Len(toTarget')] = l[Len(l)]
  BY <1>1, <1>2, <1>3, <1>4
<1>6. toTarget'[Len(toTarget') - 1] = l[Len(l) - 1]
  BY <1>1, <1>2, <1>3, <1>4
<1> QED
  BY <1>2, <1>4, <1>5, <1>6 DEF Ends, Guarded

-----------------------------------------------------------------------------
(* What the user asks for has bytes for its data. *)
LEMMA RequestsHaveBytes ==
    ASSUME calls \in Nat, calls < MaxCalls, NEW q \in Requests
    PROVE  q.data \in Seq(Byte) /\ q.cmd \in Nat
<1>1. Plaintexts[calls + 1] \in Seq(Byte)
  BY LinkAssumption
<1>2. q.data \in {<<>>, Plaintexts[calls + 1]} \cup Keys \cup Masks
  BY DEF Requests
<1>3. q.cmd \in {CMD_PT, CMD_KEY, CMD_MASK, CMD_COMMANDS} \cup Unknown
  BY DEF Requests
<1>4. q.data \in Seq(Byte)
  BY <1>1, <1>2, EmptySeq, LinkAssumption
<1>5. q.cmd \in Nat
  <2>1. \A c \in Unknown : c \in Nat
    BY LinkAssumption DEF Byte
  <2>2. \A c \in {CMD_PT, CMD_KEY, CMD_MASK, CMD_COMMANDS} : c \in Nat
    BY DEF CMD_PT, CMD_KEY, CMD_MASK, CMD_COMMANDS
  <2> QED
    BY <1>3, <2>1, <2>2
<1> QED
  BY <1>4, <1>5

(* A call begins: nothing is written yet. *)
LEMMA CallKeeps ==
    ASSUME IInv, Call
    PROVE  IInv'
<1>1. PICK q \in Requests :
        /\ cur' = q
        /\ line' = IF q.call = "list" THEN CMD_COUNT ELSE q.cmd
        /\ hpc' = IF Skips(q) THEN "idle" ELSE "flush"
  BY DEF Call
<1>2. Request'
  <2>1. q.data \in Seq(Byte) /\ q.cmd \in Nat
    BY RequestsHaveBytes DEF IInv, Request, Call
  <2> QED
    BY <1>1, <2>1 DEF IInv, Request, Call, CMD_COUNT
<1>3. UNCHANGED <<toTarget, commands, cmd, lenBuf, ascii_buf, hit>>
  BY DEF Call, channels, targetVars, lineVars
<1> QED
  BY <1>2, <1>3 DEF IInv, Table, LineTypes, Ends, InLength

(* Steps of the host that leave the target and what it is sent alone. *)
LEMMA HostAside ==
    ASSUME IInv, ConFlush \/ Flush \/ Read \/ ReadErrs \/ Robust \/ WaitAck
    PROVE  /\ Request'
           /\ UNCHANGED <<toTarget, commands, cmd, lenBuf, ascii_buf, hit>>
<1> USE DEF IInv, Request, targetVars, lineVars, history
<1>1. CASE ConFlush
  BY <1>1 DEF ConFlush
<1>2. CASE Flush
  BY <1>2 DEF Flush
<1>3. CASE Read
  BY <1>3 DEF Read, Give, CMD_COMMANDS
<1>4. CASE ReadErrs
  BY <1>4 DEF ReadErrs
<1>5. CASE Robust
  BY <1>5 DEF Robust
<1>6. CASE WaitAck
  BY <1>6 DEF WaitAck, Give, CMD_COMMANDS
<1> QED
  BY <1>1, <1>2, <1>3, <1>4, <1>5, <1>6

(* con() writes its resets, before anything is promised. *)
LEMMA ConKeeps ==
    ASSUME IInv, Con
    PROVE  IInv'
<1>1. [k \in 1 .. XCount |-> CMD_RESET] \in Seq(Nat)
  BY LinkAssumption DEF CMD_RESET
<1>2. toTarget' \in Seq(Nat)
  BY <1>1 DEF Con, IInv, LineTypes
<1>3. hit /\ UNCHANGED <<commands, cmd, lenBuf, ascii_buf, cur, line, calls, hit>>
  BY DEF Con, IInv, Request, targetVars, lineVars, history
<1>4. hpc' # "con"
  BY DEF Con
<1> QED
  BY <1>2, <1>3, <1>4 DEF IInv, Table, LineTypes, Request

(* A line is written ... *)
LEMMA WriteKeeps ==
    ASSUME IInv, Write
    PROVE  IInv'
<1>1. toTarget' \in Seq(Nat) /\ Ends'
  BY WriteEnds
<1>2. UNCHANGED <<commands, cmd, lenBuf, ascii_buf, cur, line, calls>>
  BY DEF Write, targetVars, lineVars
<1>3. hpc' # "con"
  BY DEF Write
<1> QED
  BY <1>1, <1>2, <1>3 DEF IInv, Table, LineTypes, Request

(* ... and read, one character at a time. *)
LEMMA TargetKeeps ==
    ASSUME IInv, Target
    PROVE  IInv'
<1>1. UNCHANGED <<hpc, cur, line, calls, hit>>
  BY DEF Target, hostVars, history
<1>2. CASE Getch
  <2>1. Head(toTarget) \in Nat
    BY <1>2 DEF Getch, IInv, LineTypes
  <2>2. Table' /\ LineTypes'
    BY <1>2, <2>1, GetchTypes
  <2>3. ASSUME ~hit PROVE Ends'
    BY <1>2, <2>2, <2>3, GetchEnds DEF IInv
  <2> QED
    BY <1>1, <2>2, <2>3 DEF IInv, Request
<1>3. CASE Putch
  BY <1>1, <1>3 DEF Putch, lineVars, IInv, Table, LineTypes, Request, Ends, InLength
<1> QED
  BY <1>2, <1>3 DEF Target

(* A fault that takes a character to the target sets hit. *)
LEMMA FaultKeeps ==
    ASSUME IInv, Fault
    PROVE  IInv'
<1>1. UNCHANGED <<commands, cmd, lenBuf, ascii_buf, hpc, cur, line, calls>>
  BY DEF Fault, targetVars, lineVars, hostVars
<1>2. CASE LoseToHost
  BY <1>1, <1>2 DEF LoseToHost, IInv, Table, LineTypes, Request, Ends, InLength
<1>3. CASE Overflow
  <2>1. toTarget' \in Seq(Nat) /\ hit'
    BY <1>3 DEF Overflow, Front, IInv, LineTypes
  <2> QED
    BY <1>1, <2>1 DEF IInv, Table, LineTypes, Request
<1>4. CASE Overrun
  <2>1. PICK k \in 1 .. Min({3, Len(toTarget)}) : toTarget' = RemoveAt(toTarget, k)
    BY <1>4 DEF Overrun
  <2>2. toTarget \in Seq(Nat)
    BY DEF IInv, LineTypes
  <2>3. Min({3, Len(toTarget)}) <= Len(toTarget) /\ Min({3, Len(toTarget)}) \in Nat
    BY <2>2 DEF Min
  <2>4. k \in 1 .. Len(toTarget)
    BY <2>2, <2>3
  <2>5. toTarget' \in Seq(Nat)
    BY <2>1, <2>2, <2>4 DEF RemoveAt
  <2> QED
    BY <1>1, <1>4, <2>5 DEF Overrun, IInv, Table, LineTypes, Request
<1> QED
  BY <1>2, <1>3, <1>4 DEF Fault

(* Every step of the host, the target and the faults keeps the invariant. *)
LEMMA Inductive == IInv /\ [Next]_vars => IInv'
<1> SUFFICES ASSUME IInv, [Next]_vars PROVE IInv'
  OBVIOUS
<1>1. CASE Call
  BY <1>1, CallKeeps
<1>2. CASE ConFlush \/ Flush \/ Read \/ ReadErrs \/ Robust \/ WaitAck
  <2>1. Request' /\ UNCHANGED <<toTarget, commands, cmd, lenBuf, ascii_buf, hit>>
    BY <1>2, HostAside
  <2> QED
    BY <2>1 DEF IInv, Table, LineTypes, Ends, InLength
<1>3. CASE Con
  BY <1>3, ConKeeps
<1>4. CASE Write
  BY <1>4, WriteKeeps
<1>5. CASE Target
  BY <1>5, TargetKeeps
<1>6. CASE Fault
  BY <1>6, FaultKeeps
<1>7. CASE UNCHANGED vars
  <2>1. UNCHANGED <<toTarget, commands, cmd, lenBuf, ascii_buf, hit, hpc, cur, line, calls>>
    BY <1>7 DEF vars, channels, targetVars, lineVars, hostVars, history
  <2> QED
    BY <2>1 DEF IInv, Table, LineTypes, Request, Ends, InLength
<1> QED
  BY <1>1, <1>2, <1>3, <1>4, <1>5, <1>6, <1>7 DEF Next, Host, Done

(* simpleserial_get of the v1 firmware resynchronises: wherever in a line the *)
(* target was when the last character was lost, and whatever an earlier       *)
(* session left, once it has read a line that arrived whole it waits for the  *)
(* letter of a command - although the two digits of a length take a newline   *)
(* as readily as a digit.                                                     *)
THEOREM LineResyncs == Spec => []InStep
<1>1. IInv => InStep
  BY DEF IInv, InStep, Ends
<1> QED
  BY Initially, Inductive, <1>1, PTL DEF Spec
-----------------------------------------------------------------------------
(* Types of the link: what the target and the host hold are bytes.          *)

(* Buffers are filled in order: the length of a line, then its payload, and  *)
(* that no further than the table says.  Only 'm' changes its length there.  *)
Bytes ==
    /\ toTarget \in Seq(Byte) /\ toHost \in Seq(Byte) /\ tx \in Seq(Byte)
    /\ lenBuf \in Seq(Byte) /\ ascii_buf \in Seq(Byte)
TableBytes == commands \in [DOMAIN Registered -> [c : Byte, len : Byte, flags : {0, 1}]]
Filled ==
    /\ cmd = 0 => lenBuf = <<>> /\ ascii_buf = <<>>
    /\ cmd # 0 => Len(ascii_buf) <= 2 * commands[cmd].len
    /\ cmd # 0 /\ ReadsLength => ascii_buf = <<>>
    /\ \A k \in DOMAIN Registered :
         Registered[k].flags = 0 => commands[k].len = Registered[k].len
HostTypes ==
    /\ hpc \in Points
    /\ line \in Byte
    /\ Len(cur.data) <= 64
    /\ pay_len \in Nat
    /\ payload \in Seq(Byte)
    /\ last_key \in Seq(Byte)
    /\ calls \in 0 .. MaxCalls
    /\ faults \subseteq Faults
Types == Bytes /\ TableBytes /\ Filled /\ HostTypes

(* Bytes are what fits eight bits. *)
LEMMA ByteIs ==
    /\ \A n \in Int : n \in Byte <=> 0 <= n /\ n <= 255
    /\ \A b \in Byte : b \in Nat /\ b \in Int /\ 0 <= 2 * b
BY DEF Byte

(* A digit stands for four bits. *)
LEMMA HexRange == ASSUME NEW c \in Byte, IsHex(c) PROVE HexValue(c) \in 0 .. 15
BY DEF Byte, IsHex, HexValue

(* hex_decode makes bytes of digits. *)
LEMMA DecodeBytes ==
    ASSUME NEW s \in Seq(Byte), \A k \in DOMAIN s : IsHex(s[k])
    PROVE  hex_decode(s) \in Seq(Byte) /\ Len(hex_decode(s)) = Len(s) \div 2
<1>1. Len(s) \in Nat /\ DOMAIN s = 1 .. Len(s)
  OBVIOUS
<1>2. \A n \in Nat : n \div 2 \in Nat /\ \A k \in 1 .. n \div 2 :
         2 * k - 1 \in 1 .. n /\ 2 * k \in 1 .. n
  OBVIOUS
<1>3. \A k \in 1 .. Len(s) : HexValue(s[k]) \in 0 .. 15
  BY <1>1, HexRange, ElementOfSeq
<1>4. ASSUME NEW k \in 1 .. Len(s) \div 2
      PROVE  16 * HexValue(s[2 * k - 1]) + HexValue(s[2 * k]) \in Byte
  <2>1. HexValue(s[2 * k - 1]) \in 0 .. 15 /\ HexValue(s[2 * k]) \in 0 .. 15
    BY <1>1, <1>2, <1>3
  <2>2. \A a, b \in 0 .. 15 : 16 * a + b \in Byte
    BY DEF Byte
  <2> QED BY <2>1, <2>2
<1>5. hex_decode(s) \in [1 .. Len(s) \div 2 -> Byte]
  BY <1>4 DEF hex_decode
<1>6. Len(s) \div 2 \in Nat
  BY <1>1, <1>2
<1> HIDE DEF hex_decode
<1> QED BY <1>5, <1>6

(* A digit that is written is a character. *)
LEMMA DigitByte ==
    ASSUME NEW n \in 0 .. 15, NEW a \in {65, 97}
    PROVE  Digit(n, a) \in Byte
BY DEF Digit, Byte

(* The digits of bytes are characters, upper and lower case. *)
LEMMA HexBytes ==
    ASSUME NEW bytes, bytes \in Seq(Byte), NEW a, a \in {65, 97}
    PROVE  Hex(bytes, a) \in Seq(Byte)
<1>1. ASSUME NEW k, k \in 1 .. 2 * Len(bytes) PROVE Hex(bytes, a)[k] \in Byte
  <2> DEFINE b == bytes[(k + 1) \div 2]
  <2>1. (k + 1) \div 2 \in 1 .. Len(bytes)
    BY <1>1
  <2>2. b \in Byte
    BY <2>1, ElementOfSeq
  <2>3. b \div 16 \in 0 .. 15 /\ b % 16 \in 0 .. 15
    BY <2>2, Nibbles DEF Byte
  <2>4. Hex(bytes, a)[k] = Digit(IF k % 2 = 1 THEN b \div 16 ELSE b % 16, a)
    BY <1>1 DEF Hex
  <2>5. (IF k % 2 = 1 THEN b \div 16 ELSE b % 16) \in 0 .. 15
    BY <2>3
  <2>6. a \in {65, 97}
    OBVIOUS
  <2> DEFINE m == IF k % 2 = 1 THEN b \div 16 ELSE b % 16
  <2> HIDE DEF b, m
  <2>7. m \in 0 .. 15 /\ Hex(bytes, a)[k] = Digit(m, a)
    BY ONLY <2>4, <2>5 DEF m
  <2> QED BY ONLY <2>6, <2>7, DigitByte
<1>2. Hex(bytes, a) = [k \in 1 .. 2 * Len(bytes) |-> Hex(bytes, a)[k]]
  BY DEF Hex
<1>3. 2 * Len(bytes) \in Nat
  OBVIOUS
<1>4. Hex(bytes, a) \in [1 .. 2 * Len(bytes) -> Byte]
  BY <1>1, <1>2
<1> QED BY <1>3, <1>4

(* simpleserial_put writes characters. *)
LEMMA PutBytes ==
    ASSUME NEW c \in Byte, NEW bytes \in Seq(Byte)
    PROVE  Put(c, bytes) \in Seq(Byte)
<1>1. Hex(bytes, 65) \in Seq(Byte)
  BY HexBytes
<1>2. <<c>> \in Seq(Byte) /\ <<NL>> \in Seq(Byte)
  BY DEF NL, Byte
<1> QED BY <1>1, <1>2, ConcatProperties DEF Put

(* The list of commands, as ss_get_commands lays it out, is bytes. *)
LEMMA ListedBytes ==
    ASSUME TableBytes
    PROVE  Listed \in Seq(Byte)
<1>1. DOMAIN Registered = 1 .. Len(Registered) /\ Len(Registered) \in Nat
  BY Consts
<1>2. Len(commands) = Len(Registered)
  <2>1. commands \in [1 .. Len(Registered) -> [c : Byte, len : Byte, flags : {0, 1}]]
    BY <1>1 DEF TableBytes
  <2> HIDE DEF Registered
  <2> QED BY <1>1, <2>1
<1>3. ASSUME NEW k \in 1 .. 3 * Len(commands)
      PROVE  /\ (k + 2) \div 3 \in DOMAIN Registered
             /\ ((k + 2) % 3) + 1 \in 1 .. 3
  <2>1. \A n \in Nat : \A j \in 1 .. 3 * n :
           (j + 2) \div 3 \in 1 .. n /\ ((j + 2) % 3) + 1 \in 1 .. 3
    OBVIOUS
  <2> QED BY <1>1, <1>2, <2>1
<1>4. ASSUME NEW e \in [c : Byte, len : Byte, flags : {0, 1}], NEW j \in 1 .. 3
      PROVE  <<e.c, e.len, e.flags>>[j] \in Byte
  <2>1. e.c \in Byte /\ e.len \in Byte /\ e.flags \in Byte
    BY ByteIs
  <2> QED BY <2>1
<1>5. ASSUME NEW k \in 1 .. 3 * Len(commands)
      PROVE  (LET e == commands[(k + 2) \div 3]
              IN  <<e.c, e.len, e.flags>>[((k + 2) % 3) + 1]) \in Byte
  BY <1>3, <1>4 DEF TableBytes
<1>6. Listed \in [1 .. 3 * Len(commands) -> Byte]
  BY <1>5 DEF Listed
<1>7. 3 * Len(commands) \in Nat
  BY <1>1, <1>2
<1> QED BY <1>6, <1>7

(* Whatever a command answers is bytes, and so is its acknowledgement. *)
LEMMA AnswerBytes ==
    ASSUME TableBytes, NEW c \in Byte, NEW data \in Seq(Byte)
    PROVE  /\ Answer(c, data) \in Seq(Byte)
           /\ Answer(c, data) \o Put(ACK, <<Code(c)>>) \in Seq(Byte)
<1>1. RESPONSE \in Byte /\ ACK \in Byte
  BY DEF RESPONSE, ACK, Byte
<1>2. <<Code(c)>> \in Seq(Byte)
  BY DEF Code, SS_VER_1_1, Byte
<1>3. Put(RESPONSE, Listed) \in Seq(Byte)
  BY <1>1, ListedBytes, PutBytes
<1>4. Put(RESPONSE, <<Len(commands)>>) \in Seq(Byte)
  <2>1. Len(Registered) \in Nat /\ Len(Registered) <= MAX_SS_CMDS
        /\ DOMAIN Registered = 1 .. Len(Registered)
    BY RegisteredAssumption
  <2>2. commands \in [1 .. Len(Registered) -> [c : Byte, len : Byte, flags : {0, 1}]]
    BY <2>1 DEF TableBytes
  <2> HIDE DEF Registered
  <2>3. Len(commands) = Len(Registered)
    BY <2>1, <2>2
  <2>4. Len(commands) \in Byte
    <3>1. \A n \in Nat : n <= MAX_SS_CMDS => n \in Byte
      BY DEF MAX_SS_CMDS, Byte
    <3> QED BY <2>1, <2>3, <3>1
  <2>5. <<Len(commands)>> \in Seq(Byte)
    BY <2>4
  <2> QED BY <1>1, <2>5, PutBytes
<1>5. Put(RESPONSE, data) \in Seq(Byte)
  BY <1>1, PutBytes
<1>6. Answer(c, data) \in Seq(Byte)
  BY <1>3, <1>4, <1>5, EmptySeq DEF Answer
<1>7. Put(ACK, <<Code(c)>>) \in Seq(Byte)
  BY <1>1, <1>2, PutBytes
<1> QED BY <1>6, <1>7, ConcatProperties

(* A line of the host is characters: its length needs two digits at most. *)
LEMMA LineBytes ==
    ASSUME NEW c \in Byte, NEW data \in Seq(Byte), Len(data) <= 64
    PROVE  Line(c, data) \in Seq(Byte)
<1>1. <<c>> \in Seq(Byte) /\ <<NL>> \in Seq(Byte) /\ <<>> \in Seq(Byte)
  BY DEF NL, Byte
<1>2. <<Len(data)>> \in Seq(Byte)
  <2>1. \A n \in Nat : n <= 64 => n \in Byte
    BY DEF Byte
  <2>2. Len(data) \in Byte
    BY <2>1
  <2> QED BY <2>2
<1>3. Hex(<<Len(data)>>, 65) \in Seq(Byte) /\ Hex(data, 97) \in Seq(Byte)
  BY <1>2, HexBytes
<1>4. (IF c = CMD_MASK THEN Hex(<<Len(data)>>, 65) ELSE <<>>) \in Seq(Byte)
  BY <1>1, <1>3
<1> HIDE DEF Hex
<1> QED BY <1>1, <1>3, <1>4, ConcatProperties DEF Line

(* The smaller and the greater of two numbers. *)
LEMMA MinOfTwo ==
    ASSUME NEW a \in Int, NEW b \in Int
    PROVE  /\ Min({a, b}) \in {a, b}
           /\ Min({a, b}) <= a /\ Min({a, b}) <= b
BY DEF Min

(* The maximum of one number, and of two. *)
LEMMA MaxOfOne == \A j \in Int : Max({j}) = j
BY DEF Max

(* The maximum of two numbers is one of them and no less than either. *)
LEMMA MaxOfTwo ==
    ASSUME NEW a \in Int, NEW b \in Int
    PROVE  Max({a, b}) \in {a, b} /\ Max({a, b}) >= a /\ Max({a, b}) >= b
BY DEF Max

(* int(s, 16) of one or two characters is a byte, if it does not raise. *)
LEMMA IntOfByte ==
    ASSUME NEW s \in Seq(Byte), Len(s) <= 2
    PROVE  IntOf(s) = None \/ IntOf(s) \in Byte
<1> DEFINE digits == {k \in DOMAIN s : s[k] # NL}
<1>1. DOMAIN s = 1 .. Len(s) /\ Len(s) \in Nat /\ DOMAIN s \subseteq 1 .. 2
  OBVIOUS
<1> SUFFICES ASSUME digits # {}, \A k \in digits : IsHex(s[k])
             PROVE  IntOf(s) \in Byte
  BY DEF IntOf
<1>2. \A k \in digits : HexValue(s[k]) \in 0 .. 15
  BY <1>1, HexRange, ElementOfSeq
<1>3. digits \subseteq 1 .. 2
  BY <1>1
<1>4. IntOf(s) = IF digits = {1, 2} THEN 16 * HexValue(s[1]) + HexValue(s[2])
                 ELSE HexValue(s[Max(digits)])
  BY DEF IntOf
<1> HIDE DEF digits
<1>5. CASE digits = {1, 2}
  <2>1. \A a, b \in 0 .. 15 : 16 * a + b \in Byte
    BY DEF Byte
  <2> QED BY <1>2, <1>4, <1>5, <2>1
<1>6. CASE digits # {1, 2}
  <2>1. digits = {1} \/ digits = {2}
    <3>1. \A k \in digits : k = 1 \/ k = 2
      BY <1>3
    <3>2. ~(1 \in digits /\ 2 \in digits)
      BY <3>1, <1>6
    <3> QED BY <3>1, <3>2
  <2>2. PICK j \in {1, 2} : digits = {j}
    BY <2>1
  <2>3. Max({j}) = j
    BY <2>2, MaxOfOne
  <2>4. IntOf(s) = HexValue(s[j]) /\ j \in digits
    BY <1>4, <1>6, <2>2, <2>3
  <2>5. \A a \in 0 .. 15 : a \in Byte
    BY DEF Byte
  <2> QED BY <1>2, <2>4, <2>5
<1> QED BY <1>5, <1>6

(* A part of what has come is characters. *)
LEMMA PartBytes ==
    ASSUME NEW s \in Seq(Byte), NEW m \in Nat \ {0}, NEW n \in Int, n <= Len(s)
    PROVE  /\ SubSeq(s, m, n) \in Seq(Byte)
           /\ Len(SubSeq(s, m, n)) = IF m <= n THEN n - m + 1 ELSE 0
<1>1. \A i \in m .. n : s[i] \in Byte
  BY ElementOfSeq
<1> QED BY <1>1, SubSeqProperties

(* simpleserial_read decodes bytes, whatever came. *)
LEMMA PayloadBytes ==
    ASSUME NEW r \in Seq(Byte), pay_len \in Nat
    PROVE  Decoded(r) \in Seq(Byte)
<1>1. ASSUME NEW k \in 1 .. pay_len PROVE Max({IntOf(Pair(r, k)), 0}) \in Byte
  <2> DEFINE m == Min({2 * k + 1, Len(r)})
  <2>1. m \in Int /\ m <= 2 * k + 1 /\ m <= Len(r)
    <3>1. 2 * k + 1 \in Int /\ Len(r) \in Int
      OBVIOUS
    <3>2. m \in {2 * k + 1, Len(r)} /\ m <= 2 * k + 1 /\ m <= Len(r)
      BY <3>1, MinOfTwo
    <3> QED BY <3>1, <3>2
  <2>2. 2 * k \in Nat \ {0}
    OBVIOUS
  <2> HIDE DEF m
  <2>3. /\ SubSeq(r, 2 * k, m) \in Seq(Byte)
        /\ Len(SubSeq(r, 2 * k, m)) = IF 2 * k <= m THEN m - 2 * k + 1 ELSE 0
    BY <2>1, <2>2, PartBytes
  <2>4. Len(SubSeq(r, 2 * k, m)) <= 2
    BY <2>1, <2>3
  <2>5. Pair(r, k) = SubSeq(r, 2 * k, m)
    BY DEF Pair, m
  <2>6. IntOf(Pair(r, k)) = None \/ IntOf(Pair(r, k)) \in Byte
    BY <2>3, <2>4, <2>5, IntOfByte
  <2> DEFINE v == IntOf(Pair(r, k))
  <2>7. v = None \/ v \in Byte
    BY <2>6
  <2> HIDE DEF v
  <2>8. v \in Int
    <3>1. None \in Int
      BY DEF None
    <3> QED BY <2>7, <3>1, ByteIs
  <2>9. Max({v, 0}) \in {v, 0} /\ Max({v, 0}) >= 0
    <3>1. 0 \in Int
      OBVIOUS
    <3> QED BY <2>8, <3>1, MaxOfTwo
  <2>10. 0 \in Byte /\ ~(None >= 0)
    BY DEF Byte, None
  <2>11. Max({v, 0}) \in Byte
    BY <2>7, <2>9, <2>10
  <2> QED BY <2>11 DEF v
<1>2. Decoded(r) \in [1 .. pay_len -> Byte]
  BY <1>1 DEF Decoded
<1> QED BY <1>2

(* At first there is nothing, or what an earlier session left. *)
LEMMA InitialTypes == Init => Types
<1> SUFFICES ASSUME Init PROVE Types
  OBVIOUS
<1>1. Bytes
  BY LinkAssumption, EmptySeq DEF Init, TargetInit, Bytes
<1>2. ASSUME NEW k \in DOMAIN Registered
      PROVE  /\ Registered[k] \in [c : Byte, len : Byte, flags : {0, 1}]
  <2>1. Registered[k].len \in Nat /\ Registered[k].len < MAX_SS_LEN /\ Registered[k] \in Entry
    <3>1. Registered[k] \in Entry /\ Registered[k].len < MAX_SS_LEN
      BY RegisteredAssumption
    <3> QED BY <3>1 DEF Entry
  <2>2. \A n \in Nat : n < MAX_SS_LEN => n \in Byte
    BY DEF MAX_SS_LEN, Byte
  <2> QED BY <2>1, <2>2 DEF Entry
<1>3. commands = Registered /\ cmd = 0 /\ lenBuf = <<>> /\ ascii_buf = <<>>
  BY DEF Init, TargetInit
<1>4. TableBytes
  <2>1. Registered = [k \in DOMAIN Registered |-> Registered[k]]
    BY RegisteredAssumption
  <2> HIDE DEF Registered
  <2> QED BY <1>2, <1>3, <2>1 DEF TableBytes
<1>5. Filled
  BY <1>3 DEF Filled
<1>6. HostTypes
  <2>1. last_key \in [1 .. BlockLen -> Byte]
    BY DEF Init, Byte
  <2>2. last_key \in Seq(Byte)
    BY <2>1, BlockLenAssumption
  <2>3. /\ hpc = "con" /\ line = 0 /\ cur.data = <<>> /\ pay_len = 0 /\ payload = <<>>
        /\ calls = 0 /\ faults = {}
    BY DEF Init, NoRequest
  <2>4. 0 \in Byte /\ 0 \in 0 .. MaxCalls
    BY LinkAssumption DEF Byte
  <2>5. Len(<<>>) = 0 /\ <<>> \in Seq(Byte)
    OBVIOUS
  <2> QED BY <2>2, <2>3, <2>4, <2>5 DEF HostTypes, Points
<1> QED BY <1>1, <1>4, <1>5, <1>6 DEF Types

(* The target reads a letter ... *)
LEMMA LetterTypes ==
    ASSUME IInv, Types, NEW c \in Byte, cmd = 0, Letter(c)
    PROVE  TableBytes' /\ Filled' /\ tx' \in Seq(Byte)
           /\ lenBuf' \in Seq(Byte) /\ ascii_buf' \in Seq(Byte)
<1> USE DEF Types, Bytes, TableBytes
<1>1. UNCHANGED <<commands, lenBuf, ascii_buf, tx>>
  BY DEF Letter
<1>2. lenBuf = <<>> /\ ascii_buf = <<>> /\ Len(ascii_buf) = 0
  BY DEF Filled
<1>3. cmd' = 0 \/ cmd' \in DOMAIN Registered
  BY Consts DEF Letter, Find, IInv, Table
<1>4. \A k \in DOMAIN Registered : 0 <= 2 * commands[k].len
  <2> TAKE k \in DOMAIN Registered
  <2>1. commands[k].len \in Byte
    OBVIOUS
  <2> QED BY <2>1, ByteIs
<1>5. Filled'
  BY <1>1, <1>2, <1>3, <1>4 DEF Filled
<1> QED BY <1>1, <1>5

(* ... the digits of a length ... *)
LEMMA LengthTypes ==
    ASSUME IInv, Types, NEW c \in Byte, cmd # 0, ReadsLength, LengthDigit(c)
    PROVE  TableBytes' /\ Filled' /\ tx' \in Seq(Byte)
           /\ lenBuf' \in Seq(Byte) /\ ascii_buf' \in Seq(Byte)
<1> DEFINE buff == Append(lenBuf, c)
<1> USE DEF Types, Bytes, TableBytes
<1>1. buff \in Seq(Byte) /\ Len(buff) = Len(lenBuf) + 1 /\ Len(lenBuf) \in Nat
      /\ Len(lenBuf) < 2
  BY LenProperties DEF ReadsLength
<1>2. cmd \in DOMAIN Registered /\ ascii_buf = <<>> /\ Len(ascii_buf) = 0
  BY DEF IInv, LineTypes, Filled
<1>3. Registered[cmd].flags = 1
  BY <1>2 DEF IInv, Table, ReadsLength
<1>4. tx' = tx
  BY DEF LengthDigit
<1>5. \/ lenBuf' = buff /\ UNCHANGED <<cmd, ascii_buf, commands>> /\ Len(buff) = 1
      \/ /\ Len(buff) = 2 /\ \A k \in 1 .. 2 : IsHex(buff[k])
         /\ lenBuf' = buff /\ UNCHANGED <<cmd, ascii_buf>>
         /\ commands' = [commands EXCEPT ![cmd].len = hex_decode(buff)[1]]
      \/ Return /\ commands' = commands
  <2>1. Len(buff) = 1 \/ Len(buff) = 2
    BY <1>1
  <2> QED BY <2>1 DEF LengthDigit
<1> HIDE DEF buff
<1>6. CASE lenBuf' = buff /\ UNCHANGED <<cmd, ascii_buf, commands>> /\ Len(buff) = 1
  <2>1. Filled'
    BY <1>2, <1>6 DEF Filled
  <2> QED BY <1>1, <1>4, <1>6, <2>1
<1>7. CASE /\ Len(buff) = 2 /\ \A k \in 1 .. 2 : IsHex(buff[k])
           /\ lenBuf' = buff /\ UNCHANGED <<cmd, ascii_buf>>
           /\ commands' = [commands EXCEPT ![cmd].len = hex_decode(buff)[1]]
  <2>1. hex_decode(buff)[1] \in Byte
    <3>1. DOMAIN buff = 1 .. 2
      BY <1>1, <1>7, LenProperties
    <3>2. hex_decode(buff) \in Seq(Byte) /\ Len(hex_decode(buff)) = 2 \div 2
      BY <1>1, <1>7, <3>1, DecodeBytes
    <3>3. 1 \in 1 .. Len(hex_decode(buff))
      BY <3>2
    <3> QED BY <3>2, <3>3, ElementOfSeq
  <2> DEFINE l == hex_decode(buff)[1]
  <2> HIDE DEF l
  <2>2. l \in Byte /\ commands' = [commands EXCEPT ![cmd].len = l]
    BY <1>7, <2>1 DEF l
  <2>3. TableBytes'
    BY <1>2, <2>2
  <2>4. \A k \in DOMAIN Registered : k # cmd => commands'[k] = commands[k]
    BY <1>2, <2>2
  <2>5. commands'[cmd].len = l
    BY <1>2, <2>2
  <2>6. Filled'
    <3>1. 0 <= 2 * l
      BY <2>2, ByteIs
    <3>2. \A k \in DOMAIN Registered :
             Registered[k].flags = 0 => commands'[k].len = Registered[k].len
      BY <1>3, <2>4 DEF Filled
    <3> QED BY <1>2, <1>7, <2>5, <3>1, <3>2 DEF Filled
  <2> QED BY <1>1, <1>2, <1>4, <1>7, <2>3, <2>6
<1>8. CASE Return /\ commands' = commands
  BY <1>4, <1>8, EmptySeq DEF Return, Filled
<1> QED BY <1>5, <1>6, <1>7, <1>8

(* ... the payload, as much of it as the table says ... *)
LEMMA PayloadTypes ==
    ASSUME IInv, Types, NEW c \in Byte, cmd # 0, ~ReadsLength, Missing > 0, Payload(c)
    PROVE  TableBytes' /\ Filled' /\ tx' \in Seq(Byte)
           /\ lenBuf' \in Seq(Byte) /\ ascii_buf' \in Seq(Byte)
<1> USE DEF Types, Bytes, TableBytes
<1>1. UNCHANGED <<commands, tx>>
  BY DEF Payload
<1>2. CASE Return
  BY <1>1, <1>2, EmptySeq DEF Return, Filled
<1>3. CASE ascii_buf' = Append(ascii_buf, c) /\ UNCHANGED <<cmd, lenBuf>>
  <2>1. cmd \in DOMAIN Registered /\ commands[cmd].len \in Nat
    <3>1. cmd \in DOMAIN Registered
      BY DEF IInv, LineTypes
    <3>2. commands[cmd].len \in Byte
      BY <3>1
    <3> QED BY <3>1, <3>2, ByteIs
  <2>2. ascii_buf' \in Seq(Byte) /\ Len(ascii_buf') = Len(ascii_buf) + 1
    BY <1>3
  <2>3. Len(ascii_buf') <= 2 * commands[cmd].len
    BY <2>1, <2>2 DEF Missing
  <2>4. ~ReadsLength'
    BY <1>1, <1>3 DEF ReadsLength
  <2>5. Filled'
    BY <1>1, <1>3, <2>3, <2>4 DEF Filled
  <2> QED BY <1>1, <1>3, <2>2, <2>5
<1> QED BY <1>2, <1>3 DEF Payload

(* ... and the end of the line. *)
LEMMA EndTypes ==
    ASSUME IInv, Types, NEW c \in Byte, cmd # 0, EndOfLine(c)
    PROVE  TableBytes' /\ Filled' /\ tx' \in Seq(Byte)
           /\ lenBuf' \in Seq(Byte) /\ ascii_buf' \in Seq(Byte)
<1> USE DEF Types, Bytes, TableBytes
<1>1. Return /\ commands' = commands
  BY DEF EndOfLine
<1>2. tx' \in Seq(Byte)
  <2>1. CASE Run /\ \A k \in DOMAIN ascii_buf : IsHex(ascii_buf[k])
    <3>1. hex_decode(ascii_buf) \in Seq(Byte)
      BY <2>1, DecodeBytes
    <3>2. commands[cmd].c \in Byte
      BY DEF IInv, LineTypes
    <3> QED BY <2>1, <3>1, <3>2, AnswerBytes DEF Run
  <2>2. CASE UNCHANGED <<tx, ran>>
    BY <2>2
  <2> QED BY <2>1, <2>2 DEF EndOfLine
<1> QED BY <1>1, <1>2, EmptySeq DEF Return, Filled

(* Every character of the target. *)
LEMMA TargetTypes ==
    ASSUME IInv, Types, Target
    PROVE  Bytes' /\ TableBytes' /\ Filled'
<1>1. CASE Getch
  <2> DEFINE c == Head(toTarget)
  <2>1. toTarget \in Seq(Byte) /\ toTarget # <<>> /\ tx = <<>>
        /\ toTarget' = Tail(toTarget) /\ toHost' = toHost
    BY <1>1 DEF Getch, Types, Bytes
  <2>2. c \in Byte /\ toTarget' \in Seq(Byte)
    BY <2>1, HeadTailProperties
  <2>3. CASE cmd = 0
    BY <1>1, <2>1, <2>2, <2>3, LetterTypes DEF Getch, Types, Bytes
  <2>4. CASE cmd # 0 /\ ReadsLength
    BY <1>1, <2>1, <2>2, <2>4, LengthTypes DEF Getch, Types, Bytes
  <2>5. CASE cmd # 0 /\ ~ReadsLength /\ Missing > 0
    BY <1>1, <2>1, <2>2, <2>5, PayloadTypes DEF Getch, Types, Bytes
  <2>6. CASE cmd # 0 /\ ~ReadsLength /\ ~(Missing > 0)
    BY <1>1, <2>1, <2>2, <2>6, EndTypes DEF Getch, Types, Bytes
  <2> QED BY <2>3, <2>4, <2>5, <2>6
<1>2. CASE Putch
  <2>1. tx \in Seq(Byte) /\ tx # <<>> /\ toHost \in Seq(Byte)
    BY <1>2 DEF Putch, Types, Bytes
  <2>2. Head(tx) \in Byte /\ Tail(tx) \in Seq(Byte)
    BY <2>1, HeadTailProperties
  <2>3. toHost' \in Seq(Byte) /\ tx' \in Seq(Byte)
    BY <1>2, <2>1, <2>2 DEF Putch
  <2>4. UNCHANGED <<toTarget, commands, cmd, lenBuf, ascii_buf>>
    BY <1>2 DEF Putch, lineVars
  <2> QED BY <2>3, <2>4 DEF Types, Bytes, TableBytes, Filled, ReadsLength
<1> QED BY <1>1, <1>2 DEF Target

(* What a fault takes leaves bytes. *)
LEMMA FaultTypes ==
    ASSUME IInv, Types, Fault
    PROVE  Types'
<1>1. UNCHANGED <<commands, cmd, lenBuf, ascii_buf, tx, hpc, cur, line, pay_len, payload,
                  last_key, calls>>
  BY DEF Fault, targetVars, lineVars, hostVars
<1>2. faults' \subseteq Faults
  BY DEF Fault, Types, HostTypes
<1>3. toTarget \in Seq(Byte) /\ toHost \in Seq(Byte)
      /\ Len(toTarget) \in Nat /\ Len(toHost) \in Nat
  BY LenProperties DEF Types, Bytes
<1>4. ASSUME NEW s \in Seq(Byte), Len(s) \in Nat PROVE Front(s) \in Seq(Byte)
  <2>1. Len(s) - 1 \in Int /\ Len(s) - 1 <= Len(s) /\ 1 \in Nat \ {0}
    BY <1>4
  <2> QED BY <2>1, PartBytes DEF Front
<1>5. toTarget' \in Seq(Byte) /\ toHost' \in Seq(Byte)
  <2>1. CASE Overrun
    <3>1. PICK k \in 1 .. Min({3, Len(toTarget)}) : toTarget' = RemoveAt(toTarget, k)
      BY <2>1 DEF Overrun
    <3>2. k \in Nat \ {0} /\ k <= Len(toTarget)
      <4>1. 3 \in Int /\ Len(toTarget) \in Int
        BY <1>3
      <4>2. Min({3, Len(toTarget)}) \in {3, Len(toTarget)}
            /\ Min({3, Len(toTarget)}) <= Len(toTarget)
        BY <4>1, MinOfTwo
      <4> QED BY <1>3, <4>2
    <3>3. SubSeq(toTarget, 1, k - 1) \in Seq(Byte)
      <4>1. k - 1 \in Int /\ k - 1 <= Len(toTarget) /\ 1 \in Nat \ {0}
        BY <1>3, <3>2
      <4> QED BY <1>3, <4>1, PartBytes
    <3>4. SubSeq(toTarget, k + 1, Len(toTarget)) \in Seq(Byte)
      <4>1. k + 1 \in Nat \ {0} /\ Len(toTarget) \in Int /\ Len(toTarget) <= Len(toTarget)
        BY <1>3, <3>2
      <4> QED BY <1>3, <4>1, PartBytes
    <3> QED BY <1>3, <2>1, <3>1, <3>3, <3>4, ConcatProperties DEF RemoveAt, Overrun
  <2>2. CASE Overflow
    BY <1>3, <1>4, <2>2 DEF Overflow
  <2>3. CASE LoseToHost
    BY <1>3, <1>4, <2>3 DEF LoseToHost
  <2> QED BY <2>1, <2>2, <2>3 DEF Fault
<1> QED BY <1>1, <1>2, <1>5 DEF Types, Bytes, TableBytes, Filled, HostTypes, ReadsLength

(* What the user asks for fits a line, and its letter is a character. *)
LEMMA RequestsFit ==
    ASSUME calls \in Nat, calls < MaxCalls, NEW q \in Requests
    PROVE  /\ q.cmd \in Byte
           /\ q.data \in Seq(Byte) /\ Len(q.data) <= 64
<1>1. q.data \in Seq(Byte)
  BY RequestsHaveBytes
<1>2. q.data \in {<<>>, Plaintexts[calls + 1]} \cup Keys \cup Masks
  BY DEF Requests
<1>3. q.cmd \in {CMD_PT, CMD_KEY, CMD_MASK, CMD_COMMANDS} \cup Unknown
  BY DEF Requests
<1>4. \A c \in {CMD_PT, CMD_KEY, CMD_MASK, CMD_COMMANDS} : c \in Byte
  BY DEF CMD_PT, CMD_KEY, CMD_MASK, CMD_COMMANDS, Byte
<1>5. q.cmd \in Byte
  BY <1>3, <1>4, LinkAssumption
<1>6. Plaintexts[calls + 1] \in Range(Plaintexts)
  <2>1. calls + 1 \in 1 .. Len(Plaintexts) /\ Plaintexts \in Seq(Seq(Byte))
    BY LinkAssumption
  <2>2. calls + 1 \in DOMAIN Plaintexts
    BY <2>1
  <2> QED BY <2>2 DEF Range
<1>7. Len(Plaintexts[calls + 1]) <= 64 /\ \A p \in Keys \cup Masks : Len(p) <= 64
  BY <1>6, FitsAssumption
<1>8. Len(<<>>) <= 64
  OBVIOUS
<1> QED BY <1>1, <1>2, <1>5, <1>7, <1>8

(* A call begins. *)
LEMMA CallTypes ==
    ASSUME IInv, Types, Call
    PROVE  HostTypes'
<1>1. calls \in Nat /\ calls < MaxCalls /\ MaxCalls \in Nat /\ calls' = calls + 1
  BY LinkAssumption DEF Call, IInv, Request
<1>2. PICK q \in Requests :
        /\ cur' = q
        /\ line' = IF q.call = "list" THEN CMD_COUNT ELSE q.cmd
        /\ last_key' = IF q.call = "key" THEN q.data ELSE last_key
        /\ hpc' = IF Skips(q) THEN "idle" ELSE "flush"
  BY DEF Call
<1>3. q.cmd \in Byte /\ q.data \in Seq(Byte) /\ Len(q.data) <= 64
  BY <1>1, RequestsFit
<1>4. CMD_COUNT \in Byte
  BY DEF CMD_COUNT, Byte
<1>5. calls' \in 0 .. MaxCalls
  BY <1>1
<1>6. UNCHANGED <<pay_len, payload, faults>>
  BY DEF Call
<1> QED BY <1>2, <1>3, <1>4, <1>5, <1>6 DEF Types, HostTypes, Points

(* A line is written, and what is to come of it expected. *)
LEMMA WriteTypes ==
    ASSUME IInv, Types, Write
    PROVE  Bytes' /\ HostTypes'
<1>1. /\ line \in Byte /\ cur.data \in Seq(Byte) /\ Len(cur.data) <= 64
      /\ toTarget \in Seq(Byte) /\ payload \in Seq(Byte)
  BY DEF IInv, Request, Types, Bytes, HostTypes
<1>2. Line(line, cur.data) \in Seq(Byte)
  BY <1>1, LineBytes
<1>3. toTarget' \in Seq(Byte)
  BY <1>1, <1>2, ConcatProperties DEF Write
<1>4. pay_len' \in Nat
  <2>1. payload # <<>> => 3 * payload[1] \in Nat
    <3>1. ASSUME payload # <<>> PROVE payload[1] \in Byte
      <4>1. 1 \in 1 .. Len(payload)
        BY <1>1, <3>1, EmptySeq
      <4> QED BY <1>1, <4>1, ElementOfSeq
    <3>2. \A b \in Byte : 3 * b \in Nat
      BY DEF Byte
    <3> QED BY <3>1, <3>2
  <2>2. Len(cur.data) \in Nat /\ 0 \in Nat /\ 1 \in Nat
    BY <1>1
  <2>3. \/ pay_len' = 1 \/ pay_len' = 0 \/ pay_len' = Len(cur.data)
        \/ payload # <<>> /\ pay_len' = 3 * payload[1]
    BY DEF Write
  <2> QED BY <2>1, <2>2, <2>3
<1>5. hpc' \in Points
  BY DEF Write, Points
<1>6. UNCHANGED <<toHost, tx, lenBuf, ascii_buf, cur, line, payload, last_key, calls, faults>>
  BY DEF Write, targetVars, lineVars
<1> QED BY <1>3, <1>4, <1>5, <1>6 DEF Types, Bytes, HostTypes

(* What is left when some of it has been read. *)
LEMMA TakeBytes ==
    ASSUME NEW s \in Seq(Byte), NEW n \in Nat
    PROVE  /\ SubSeq(s, 1, Min({n, Len(s)})) \in Seq(Byte)
           /\ SubSeq(s, Min({n, Len(s)}) + 1, Len(s)) \in Seq(Byte)
<1> DEFINE m == Min({n, Len(s)})
<1>1. Len(s) \in Nat /\ Len(s) \in Int /\ n \in Int
  OBVIOUS
<1>2. m \in {n, Len(s)} /\ m <= Len(s)
  BY <1>1, MinOfTwo
<1> HIDE DEF m
<1>3. m \in Int /\ m + 1 \in Nat \ {0} /\ 1 \in Nat \ {0} /\ Len(s) <= Len(s)
  BY <1>1, <1>2
<1>4. SubSeq(s, 1, m) \in Seq(Byte)
  BY <1>2, <1>3, PartBytes
<1>5. SubSeq(s, m + 1, Len(s)) \in Seq(Byte)
  BY <1>1, <1>3, PartBytes
<1> QED BY <1>4, <1>5 DEF m

(* The reads of the host. *)
LEMMA ReadTypes ==
    ASSUME IInv, Types, Read \/ ReadErrs \/ Robust \/ WaitAck
    PROVE  toHost' \in Seq(Byte) /\ HostTypes'
<1>1. toHost \in Seq(Byte) /\ pay_len \in Nat /\ payload \in Seq(Byte) /\ line \in Byte
  BY DEF Types, Bytes, HostTypes
<1>2. CMD_COMMANDS \in Byte /\ <<>> \in Seq(Byte)
  BY DEF CMD_COMMANDS, Byte
<1>3. ASSUME NEW n \in Nat PROVE Chars(n) \in Seq(Byte) /\ (Take(n) => toHost' \in Seq(Byte))
  BY <1>1, TakeBytes DEF Chars, Take
<1>4. RecvLen \in Nat /\ 4 \in Nat
  BY <1>1 DEF RecvLen
<1>5. \A r \in Seq(Byte) : Decoded(r) \in Seq(Byte)
  BY <1>1, PayloadBytes
<1>6. \A r : Give(r) => hpc' \in Points /\ line' \in Byte
  BY <1>1, <1>2 DEF Give, Points
<1>7. UNCHANGED <<cur, pay_len, last_key, calls, faults>>
  BY DEF Read, ReadErrs, Robust, WaitAck
<1>8. toHost' \in Seq(Byte)
  BY <1>2, <1>3, <1>4 DEF Read, ReadErrs, Robust, WaitAck
<1>9. payload' \in Seq(Byte)
  BY <1>1, <1>2, <1>3, <1>4, <1>5 DEF Read, ReadErrs, Robust, WaitAck
<1>10. hpc' \in Points /\ line' \in Byte
  <2>1. CASE Read
    BY <1>1, <1>6, <2>1 DEF Read, Points
  <2>2. CASE ReadErrs
    BY <1>1, <2>2 DEF ReadErrs, Points
  <2>3. CASE Robust
    BY <1>1, <2>3 DEF Robust, Points
  <2>4. CASE WaitAck
    BY <1>1, <1>6, <2>4 DEF WaitAck, Points
  <2> QED BY <2>1, <2>2, <2>3, <2>4
<1> QED BY <1>7, <1>8, <1>9, <1>10 DEF Types, HostTypes

(* Every step of the host. *)
LEMMA HostStepTypes ==
    ASSUME IInv, Types, Host
    PROVE  Bytes' /\ HostTypes' /\ UNCHANGED <<commands, cmd, lenBuf, ascii_buf>>
<1>1. CASE Con
  <2>1. [k \in 1 .. XCount |-> CMD_RESET] \in [1 .. XCount -> Byte]
    BY DEF CMD_RESET, Byte
  <2>2. [k \in 1 .. XCount |-> CMD_RESET] \in Seq(Byte)
    BY <2>1, LinkAssumption
  <2>3. toTarget' \in Seq(Byte)
    BY <1>1, <2>2, ConcatProperties DEF Con, Types, Bytes
  <2> QED BY <1>1, <2>3 DEF Con, Types, Bytes, HostTypes, Points, targetVars, lineVars
<1>2. CASE ConFlush
  BY <1>2, EmptySeq DEF ConFlush, Types, Bytes, HostTypes, Points, targetVars, lineVars
<1>3. CASE Flush
  BY <1>3, EmptySeq DEF Flush, Types, Bytes, HostTypes, Points, targetVars, lineVars
<1>4. CASE Write
  <2>1. UNCHANGED <<commands, cmd, lenBuf, ascii_buf>>
    BY <1>4 DEF Write, targetVars, lineVars
  <2> QED BY <1>4, <2>1, WriteTypes
<1>5. CASE Read \/ ReadErrs \/ Robust \/ WaitAck
  <2>1. UNCHANGED <<toTarget, tx, commands, cmd, lenBuf, ascii_buf>>
    BY <1>5 DEF Read, ReadErrs, Robust, WaitAck, targetVars, lineVars
  <2> QED BY <1>5, <2>1, ReadTypes DEF Types, Bytes
<1> QED BY <1>1, <1>2, <1>3, <1>4, <1>5 DEF Host

(* Every step keeps the types. *)
LEMMA TypesInductive == IInv /\ Types /\ [Next]_vars => Types'
<1> SUFFICES ASSUME IInv, Types, [Next]_vars PROVE Types'
  OBVIOUS
<1>1. CASE Call
  <2>1. UNCHANGED <<toTarget, toHost, commands, cmd, lenBuf, ascii_buf, tx>>
    BY <1>1 DEF Call, channels, targetVars, lineVars
  <2> QED BY <1>1, <2>1, CallTypes DEF Types, Bytes, TableBytes, Filled, ReadsLength
<1>2. CASE Host
  <2>1. Bytes' /\ HostTypes' /\ UNCHANGED <<commands, cmd, lenBuf, ascii_buf>>
    BY <1>2, HostStepTypes
  <2> QED BY <2>1 DEF Types, TableBytes, Filled, ReadsLength
<1>3. CASE Target
  <2>1. Bytes' /\ TableBytes' /\ Filled'
    BY <1>3, TargetTypes
  <2>2. UNCHANGED <<hpc, line, cur, pay_len, payload, last_key, calls, faults>>
    BY <1>3 DEF Target, hostVars
  <2> QED BY <2>1, <2>2 DEF Types, HostTypes
<1>4. CASE Fault
  BY <1>4, FaultTypes
<1>5. CASE UNCHANGED vars
  <2>1. UNCHANGED <<toTarget, toHost, commands, cmd, lenBuf, ascii_buf, tx, hpc, line, cur,
                    pay_len, payload, last_key, calls, faults>>
    BY <1>5 DEF vars, channels, targetVars, lineVars, hostVars
  <2> QED BY <2>1 DEF Types, Bytes, TableBytes, Filled, HostTypes, ReadsLength
<1> QED BY <1>1, <1>2, <1>3, <1>4, <1>5 DEF Next, Done

(* Nothing that is lost or left over makes either side of the v1 link hold    *)
(* what is not a byte, lets the target read more characters of a payload than *)
(* its table has for the command, or run past the buffer of simpleserial_get  *)
(* for a command of fixed length.  (For one of variable length the table has  *)
(* what the line said.)                                                       *)
THEOREM Typing == Spec => []TypeOK
<1>1. IInv /\ Types => TypeOK
  <2> SUFFICES ASSUME IInv, Types PROVE TypeOK
    OBVIOUS
  <2>1. cmd \in 0 .. Len(Registered) /\ Len(lenBuf) <= 2
        /\ \A k \in DOMAIN Registered : commands[k].c = Registered[k].c
    BY Consts DEF IInv, Table, LineTypes
  <2>2. cmd # 0 => /\ Len(ascii_buf) <= 2 * commands[cmd].len
                   /\ commands[cmd].flags = 0 => commands[cmd].len < MAX_SS_LEN
    <3> SUFFICES ASSUME cmd # 0, commands[cmd].flags = 0
                 PROVE  commands[cmd].len < MAX_SS_LEN
      BY DEF Types, Filled
    <3>1. cmd \in DOMAIN Registered /\ Registered[cmd].flags = 0
      BY DEF IInv, Table, LineTypes
    <3>2. commands[cmd].len = Registered[cmd].len
      BY <3>1 DEF Types, Filled
    <3> QED BY <3>1, <3>2, RegisteredAssumption
  <2> QED BY <2>1, <2>2 DEF TypeOK, Types, Bytes, TableBytes, HostTypes
<1> QED
  BY Initially, InitialTypes, Inductive, TypesInductive, <1>1, PTL DEF Spec

-----------------------------------------------------------------------------
(* The list of commands: what the host reads for it is what the target has. *)
(* First, that either side reads what the other has put in digits.           *)

(* A letter no digit, end of a line or length can be mistaken for. *)
Bare(c) == c \in Byte /\ ~IsHex(c) /\ c \notin {NL, CR, CMD_MASK}

(* A digit keeps its value. *)
LEMMA DigitValue ==
    ASSUME NEW n \in 0 .. 15, NEW a \in {65, 97}
    PROVE  /\ IsHex(Digit(n, a)) /\ HexValue(Digit(n, a)) = n
           /\ Digit(n, a) \notin {NL, CR} /\ Digit(n, a) \in Byte
BY DEF Digit, IsHex, HexValue, NL, CR, Byte

(* The two digits of a byte. *)
LEMMA HexPairs ==
    ASSUME NEW bytes \in Seq(Byte), NEW a \in {65, 97}, NEW j \in 1 .. Len(bytes)
    PROVE  /\ Hex(bytes, a)[2 * j - 1] = Digit(bytes[j] \div 16, a)
           /\ Hex(bytes, a)[2 * j] = Digit(bytes[j] % 16, a)
           /\ bytes[j] \in 0 .. 255
<1>1. /\ 2 * j - 1 \in 1 .. 2 * Len(bytes) /\ 2 * j \in 1 .. 2 * Len(bytes)
      /\ (2 * j - 1 + 1) \div 2 = j /\ (2 * j + 1) \div 2 = j
      /\ (2 * j - 1) % 2 = 1 /\ (2 * j) % 2 = 0
  OBVIOUS
<1>2. Hex(bytes, a)[2 * j - 1] = Digit(bytes[j] \div 16, a)
  <2> DEFINE k == 2 * j - 1
  <2>1. k \in 1 .. 2 * Len(bytes) /\ (k + 1) \div 2 = j /\ k % 2 = 1
    BY <1>1
  <2> HIDE DEF k
  <2>2. Hex(bytes, a)[k] = Digit(bytes[j] \div 16, a)
    BY <2>1 DEF Hex
  <2> QED BY <2>2 DEF k
<1>3. Hex(bytes, a)[2 * j] = Digit(bytes[j] % 16, a)
  <2> DEFINE k == 2 * j
  <2>1. k \in 1 .. 2 * Len(bytes) /\ (k + 1) \div 2 = j /\ k % 2 # 1
    BY <1>1
  <2> HIDE DEF k
  <2>2. Hex(bytes, a)[k] = Digit(bytes[j] % 16, a)
    BY <2>1 DEF Hex
  <2> QED BY <2>2 DEF k
<1>4. bytes[j] \in 0 .. 255
  BY ElementOfSeq DEF Byte
<1> QED BY <1>2, <1>3, <1>4

(* Every character of them is a digit. *)
LEMMA HexAllDigits ==
    ASSUME NEW bytes, bytes \in Seq(Byte), NEW a, a \in {65, 97}
    PROVE  /\ Hex(bytes, a) \in Seq(Byte) /\ Len(Hex(bytes, a)) = 2 * Len(bytes)
           /\ \A k \in 1 .. 2 * Len(bytes) :
                IsHex(Hex(bytes, a)[k]) /\ Hex(bytes, a)[k] \notin {NL, CR}
<1>1. Hex(bytes, a) \in Seq(Byte) /\ Len(Hex(bytes, a)) = 2 * Len(bytes)
  <2>1. bytes \in Seq(Byte) /\ a \in {65, 97}
    OBVIOUS
  <2> QED BY ONLY <2>1, HexBytes, HexDigits
<1>2. ASSUME NEW k, k \in 1 .. 2 * Len(bytes)
      PROVE  IsHex(Hex(bytes, a)[k]) /\ Hex(bytes, a)[k] \notin {NL, CR}
  <2>1. PICK j : j \in 1 .. Len(bytes) /\ (k = 2 * j - 1 \/ k = 2 * j)
    <3>1. (k + 1) \div 2 \in 1 .. Len(bytes)
          /\ (k = 2 * ((k + 1) \div 2) - 1 \/ k = 2 * ((k + 1) \div 2))
      BY <1>2
    <3> QED BY <3>1
  <2>2. bytes[j] \div 16 \in 0 .. 15 /\ bytes[j] % 16 \in 0 .. 15
    BY <2>1, HexPairs, Nibbles
  <2>3. Hex(bytes, a)[k] = Digit(bytes[j] \div 16, a) \/ Hex(bytes, a)[k] = Digit(bytes[j] % 16, a)
    <3>1. /\ Hex(bytes, a)[2 * j - 1] = Digit(bytes[j] \div 16, a)
          /\ Hex(bytes, a)[2 * j] = Digit(bytes[j] % 16, a)
      BY <2>1, HexPairs
    <3> QED BY ONLY <2>1, <3>1
  <2>4. bytes \in Seq(Byte) /\ a \in {65, 97}
    OBVIOUS
  <2>5. \A n \in 0 .. 15 : IsHex(Digit(n, a)) /\ Digit(n, a) \notin {NL, CR}
    BY ONLY <2>4, DigitValue
  <2>6. /\ IsHex(Digit(bytes[j] \div 16, a)) /\ Digit(bytes[j] \div 16, a) \notin {NL, CR}
        /\ IsHex(Digit(bytes[j] % 16, a)) /\ Digit(bytes[j] % 16, a) \notin {NL, CR}
    BY ONLY <2>2, <2>5
  <2>7. CASE Hex(bytes, a)[k] = Digit(bytes[j] \div 16, a)
    BY ONLY <2>6, <2>7, Zenon
  <2>8. CASE Hex(bytes, a)[k] = Digit(bytes[j] % 16, a)
    BY ONLY <2>6, <2>8, Zenon
  <2> QED BY ONLY <2>3, <2>7, <2>8
<1> QED BY <1>1, <1>2

(* A number from its digits. *)
LEMMA FromDigits ==
    ASSUME NEW b \in Int, NEW q \in Int, NEW r \in Int, q = b \div 16, r = b % 16
    PROVE  16 * q + r = b
OBVIOUS

(* hex_decode undoes what the host writes. *)
LEMMA DecodeHex ==
    ASSUME NEW d \in Seq(Byte), NEW a \in {65, 97}
    PROVE  hex_decode(Hex(d, a)) = d
<1> DEFINE h == Hex(d, a)
           v(k) == 16 * HexValue(h[2 * k - 1]) + HexValue(h[2 * k])
<1>1. Len(h) = 2 * Len(d)
  BY HexAllDigits
<1>2. \A n \in Nat : (2 * n) \div 2 = n
  OBVIOUS
<1>3. Len(h) \div 2 = Len(d)
  BY <1>1, <1>2
<1>4. hex_decode(h) = [k \in 1 .. Len(d) |-> v(k)]
  BY <1>3 DEF hex_decode
<1>5. ASSUME NEW k \in 1 .. Len(d)
      PROVE  v(k) = d[k]
  <2>1. h[2 * k - 1] = Digit(d[k] \div 16, a) /\ h[2 * k] = Digit(d[k] % 16, a)
        /\ d[k] \in 0 .. 255
    BY HexPairs
  <2> HIDE DEF h
  <2> DEFINE b == d[k]
  <2>2. b \in 0 .. 255 /\ b \div 16 \in 0 .. 15 /\ b % 16 \in 0 .. 15
    BY <2>1, Nibbles
  <2> HIDE DEF b
  <2>3. HexValue(Digit(b \div 16, a)) = b \div 16 /\ HexValue(Digit(b % 16, a)) = b % 16
    BY <2>2, DigitValue
  <2>4. HexValue(h[2 * k - 1]) = b \div 16 /\ HexValue(h[2 * k]) = b % 16
    BY <2>1, <2>3 DEF b
  <2>5. 16 * HexValue(h[2 * k - 1]) + HexValue(h[2 * k]) = b
    BY <2>2, <2>4, FromDigits
  <2> QED BY <2>5 DEF b
<1> HIDE DEF v, h
<1>6. hex_decode(h) = [k \in 1 .. Len(d) |-> d[k]]
  BY <1>4, <1>5
<1> QED BY <1>6 DEF h

(* A letter, digits and a newline. *)
Enclosed(c, h) == <<c>> \o h \o <<NL>>

(* Where its characters are. *)
LEMMA Framed ==
    ASSUME NEW c \in Byte, NEW h \in Seq(Byte)
    PROVE  /\ Enclosed(c, h) \in Seq(Byte) /\ Len(Enclosed(c, h)) = Len(h) + 2
           /\ Enclosed(c, h)[1] = c /\ Enclosed(c, h)[Len(h) + 2] = NL
           /\ \A j \in 1 .. Len(h) : Enclosed(c, h)[j + 1] = h[j]
<1>1. <<c>> \in Seq(Byte) /\ Len(<<c>>) = 1 /\ <<c>>[1] = c
  OBVIOUS
<1>2. <<NL>> \in Seq(Byte) /\ Len(<<NL>>) = 1 /\ <<NL>>[1] = NL
  BY DEF NL, Byte
<1> DEFINE v == <<c>> \o h
<1>3. v \in Seq(Byte) /\ Len(v) = 1 + Len(h) /\ v[1] = c
      /\ \A j \in 1 .. Len(h) : v[j + 1] = h[j]
  BY <1>1
<1>4. Enclosed(c, h) = v \o <<NL>>
  BY DEF Enclosed
<1> HIDE DEF v
<1>5. Len(h) \in Nat
  OBVIOUS
<1> QED BY <1>2, <1>3, <1>4, <1>5

(* A line of the host, of a command that is not 'm'. *)
LEMMA LineShape ==
    ASSUME NEW c, Bare(c), NEW d \in Seq(Byte)
    PROVE  LET l == Line(c, d)
               h == Hex(d, 97)
           IN  /\ l \in Seq(Byte) /\ Len(l) = 2 * Len(d) + 2 /\ Len(l) = Len(h) + 2
               /\ l[1] = c /\ l[Len(l)] = NL
               /\ \A j \in 1 .. Len(h) : l[j + 1] = h[j] /\ IsHex(h[j]) /\ h[j] \notin {NL, CR}
<1> DEFINE l == Line(c, d)
           h == Hex(d, 97)
<1>1. h \in Seq(Byte) /\ Len(h) = 2 * Len(d)
      /\ \A j \in 1 .. Len(h) : IsHex(h[j]) /\ h[j] \notin {NL, CR}
  <2>1. 97 \in {65, 97}
    OBVIOUS
  <2> QED BY <2>1, HexAllDigits
<1>2. c \in Byte /\ c # CMD_MASK
  BY DEF Bare
<1>3. l = Enclosed(c, h)
  <2>1. <<c>> \o <<>> = <<c>>
    BY <1>2, ConcatEmptySeq
  <2> QED BY <1>2, <2>1 DEF Line, Enclosed
<1> HIDE DEF l, h
<1>4. l \in Seq(Byte) /\ Len(l) = Len(h) + 2 /\ l[1] = c /\ l[Len(h) + 2] = NL
      /\ \A j \in 1 .. Len(h) : l[j + 1] = h[j]
  <2> DEFINE e == Enclosed(c, h)
  <2>1. e \in Seq(Byte) /\ Len(e) = Len(h) + 2 /\ e[1] = c /\ e[Len(h) + 2] = NL
        /\ \A j \in 1 .. Len(h) : e[j + 1] = h[j]
    BY ONLY <1>1, <1>2, Framed
  <2> HIDE DEF e
  <2>2. l = e
    BY <1>3 DEF e
  <2> QED BY ONLY <2>1, <2>2
<1>5. Len(l) = 2 * Len(d) + 2 /\ l[Len(l)] = NL
  BY <1>1, <1>4
<1> QED BY <1>1, <1>4, <1>5 DEF l, h

(* What the target puts. *)
LEMMA PutShape ==
    ASSUME NEW c \in Byte, NEW bytes \in Seq(Byte)
    PROVE  LET p == Put(c, bytes)
               h == Hex(bytes, 65)
           IN  /\ p \in Seq(Byte) /\ Len(p) = 2 * Len(bytes) + 2 /\ Len(h) = 2 * Len(bytes)
               /\ p[1] = c /\ p[Len(p)] = NL
               /\ \A j \in 1 .. Len(h) : p[j + 1] = h[j]
<1> DEFINE p == Put(c, bytes)
           h == Hex(bytes, 65)
<1>1. h \in Seq(Byte) /\ Len(h) = 2 * Len(bytes)
  <2>1. 65 \in {65, 97}
    OBVIOUS
  <2> QED BY <2>1, HexAllDigits
<1>2. p = Enclosed(c, h)
  BY DEF Put, Enclosed
<1> HIDE DEF p, h
<1>3. p \in Seq(Byte) /\ Len(p) = Len(h) + 2 /\ p[1] = c /\ p[Len(h) + 2] = NL
      /\ \A j \in 1 .. Len(h) : p[j + 1] = h[j]
  <2> DEFINE e == Enclosed(c, h)
  <2>1. e \in Seq(Byte) /\ Len(e) = Len(h) + 2 /\ e[1] = c /\ e[Len(h) + 2] = NL
        /\ \A j \in 1 .. Len(h) : e[j + 1] = h[j]
    BY ONLY <1>1, c \in Byte, Framed
  <2> HIDE DEF e
  <2>2. p = e
    BY <1>2 DEF e
  <2> QED BY ONLY <2>1, <2>2
<1>4. Len(p) = 2 * Len(bytes) + 2 /\ p[Len(p)] = NL
  BY <1>1, <1>3
<1> QED BY <1>1, <1>3, <1>4 DEF p, h

(* int(s, 16) of the two digits of a byte. *)
LEMMA IntOfPair ==
    ASSUME NEW s, NEW b \in 0 .. 255, s = <<Digit(b \div 16, 65), Digit(b % 16, 65)>>
    PROVE  IntOf(s) = b
<1> DEFINE hi == Digit(b \div 16, 65)
           lo == Digit(b % 16, 65)
           digits == {k \in DOMAIN s : s[k] # NL}
<1>1. b \div 16 \in 0 .. 15 /\ b % 16 \in 0 .. 15 /\ 65 \in {65, 97}
  BY Nibbles
<1>2. /\ IsHex(hi) /\ HexValue(hi) = b \div 16 /\ hi # NL
      /\ IsHex(lo) /\ HexValue(lo) = b % 16 /\ lo # NL
  BY <1>1, DigitValue
<1>3. s = <<hi, lo>>
  OBVIOUS
<1> HIDE DEF hi, lo
<1>4. DOMAIN s = 1 .. 2 /\ s[1] = hi /\ s[2] = lo
  BY <1>3
<1>5. digits = {1, 2}
  BY <1>2, <1>4
<1>6. \A k \in digits : IsHex(s[k])
  BY <1>2, <1>4, <1>5
<1>7. IntOf(s) = 16 * HexValue(s[1]) + HexValue(s[2])
  BY <1>5, <1>6 DEF IntOf
<1> QED BY <1>1, <1>2, <1>4, <1>7, FromDigits

(* The host decodes what the target has put. *)
LEMMA DecodedPut ==
    ASSUME NEW bytes \in Seq(Byte), pay_len = Len(bytes), NEW r, r = Put(RESPONSE, bytes)
    PROVE  Decoded(r) = bytes
<1> DEFINE h == Hex(bytes, 65)
<1>1. RESPONSE \in Byte
  BY DEF RESPONSE, Byte
<1>2. /\ r \in Seq(Byte) /\ Len(r) = 2 * Len(bytes) + 2 /\ Len(h) = 2 * Len(bytes)
      /\ \A j \in 1 .. Len(h) : r[j + 1] = h[j]
  BY <1>1, PutShape
<1>3. ASSUME NEW k \in 1 .. Len(bytes)
      PROVE  IntOf(Pair(r, k)) = bytes[k] /\ bytes[k] \in 0 .. 255
  <2>1. /\ h[2 * k - 1] = Digit(bytes[k] \div 16, 65) /\ h[2 * k] = Digit(bytes[k] % 16, 65)
        /\ bytes[k] \in 0 .. 255
    <3>1. 65 \in {65, 97} /\ bytes \in Seq(Byte) /\ k \in 1 .. Len(bytes)
      OBVIOUS
    <3> QED BY ONLY <3>1, HexPairs DEF h
  <2> HIDE DEF h
  <2>2. r[2 * k] = h[2 * k - 1] /\ r[2 * k + 1] = h[2 * k]
    <3>1. 2 * k - 1 \in 1 .. Len(h) /\ 2 * k \in 1 .. Len(h) /\ 2 * k - 1 + 1 = 2 * k
      BY <1>2
    <3> QED BY <1>2, <3>1
  <2>3. Min({2 * k + 1, Len(r)}) = 2 * k + 1
    <3>1. 2 * k + 1 < Len(r) /\ Len(r) \in Int /\ 2 * k + 1 \in Int
      BY <1>2
    <3> DEFINE a == 2 * k + 1
               b == Len(r)
    <3>2. a \in Int /\ b \in Int /\ a < b
      BY <3>1
    <3> HIDE DEF a, b
    <3>3. Min({a, b}) \in {a, b} /\ Min({a, b}) <= a
      BY <3>2, MinOfTwo
    <3>4. Min({a, b}) = a
      BY <3>2, <3>3
    <3> QED BY <3>4 DEF a, b
  <2>4. Pair(r, k) = <<r[2 * k], r[2 * k + 1]>>
    <3> DEFINE p == Pair(r, k)
    <3>1. p = SubSeq(r, 2 * k, 2 * k + 1)
      BY <2>3 DEF Pair
    <3>2. 2 * k \in 1 .. Len(r) /\ 2 * k + 1 \in 1 .. Len(r) /\ Len(r) \in Nat
      BY <1>2
    <3> HIDE DEF p
    <3>3. p \in Seq(Byte) /\ Len(p) = 2 /\ p[1] = r[2 * k] /\ p[2] = r[2 * k + 1]
      <4> DEFINE m == 2 * k
      <4>1. m \in 1 .. Len(r) /\ m + 1 \in 1 .. Len(r) /\ p = SubSeq(r, m, m + 1) /\ r \in Seq(Byte)
        BY <1>2, <3>1, <3>2
      <4> HIDE DEF m
      <4>2. p \in Seq(Byte) /\ Len(p) = 2 /\ p[1] = r[m] /\ p[2] = r[m + 1]
        BY ONLY <4>1, SubSeqProperties
      <4> QED BY <4>2 DEF m
    <3>4. p = <<p[1], p[2]>>
      BY <3>3
    <3> QED BY <3>3, <3>4 DEF p
  <2> QED BY <2>1, <2>2, <2>4, IntOfPair
<1>4. \A k \in 1 .. pay_len : Max({IntOf(Pair(r, k)), 0}) = bytes[k]
  <2> TAKE k \in 1 .. pay_len
  <2>1. k \in 1 .. Len(bytes)
    OBVIOUS
  <2>2. IntOf(Pair(r, k)) = bytes[k] /\ bytes[k] \in 0 .. 255
    BY <1>3, <2>1
  <2>3. \A b \in 0 .. 255 : Max({b, 0}) = b
    <3> SUFFICES ASSUME NEW b \in 0 .. 255 PROVE Max({b, 0}) = b
      OBVIOUS
    <3>1. b \in Int /\ 0 \in Int /\ b >= 0
      OBVIOUS
    <3>2. Max({b, 0}) \in {b, 0} /\ Max({b, 0}) >= b
      BY <3>1, MaxOfTwo
    <3> QED BY <3>1, <3>2
  <2> QED BY <2>2, <2>3
<1>5. Decoded(r) = [k \in 1 .. Len(bytes) |-> bytes[k]]
  BY <1>4 DEF Decoded
<1> QED BY <1>5

-----------------------------------------------------------------------------
(* A line to a target that may be in the middle of another one.              *)

(* The line of a call, read up to its character i.  Its letter was taken for *)
(* one, and the digits since are its payload ...                             *)
Accepted(c, d, i) ==
    /\ cmd \in Find(c) /\ lenBuf = <<>>
    /\ i < Len(Line(c, d))
    /\ ascii_buf = SubSeq(Hex(d, 97), 1, i - 1)

(* The commands called by a digit take all the digits of the data, or more.  *)
Long(d) ==
    \A k \in DOMAIN Registered : IsHex(Registered[k].c) => Len(d) <= Registered[k].len

(* ... or what is read cannot run any command: not even one whose letter is  *)
(* a digit of the payload, which misses more than is left of the line.       *)
Spoilt(d, i) ==
    \/ cmd = 0
    \/ cmd # 0 /\ IsHex(commands[cmd].c) /\ Missing > 2 * Len(d) + 1 - i
    \/ cmd # 0 /\ ReadsLength /\ Len(lenBuf) = 1 /\ ~IsHex(lenBuf[1])
    \/ \E k \in DOMAIN ascii_buf : ~IsHex(ascii_buf[k])

(* The command in progress is one of the table. *)
LEMMA Entries ==
    ASSUME Table, LineTypes, cmd # 0
    PROVE  /\ cmd \in DOMAIN Registered /\ cmd \in DOMAIN commands
           /\ commands[cmd] \in [c : Byte, len : Int, flags : {0, 1}]
           /\ commands[cmd].flags = 1 => commands[cmd].c = CMD_MASK
<1>1. cmd \in DOMAIN Registered
  BY DEF LineTypes
<1>2. commands[cmd].flags = Registered[cmd].flags /\ commands[cmd].c = Registered[cmd].c
  BY <1>1 DEF Table
<1>3. Registered[cmd].flags = 1 => Registered[cmd].c = CMD_MASK
  BY <1>1, Consts
<1> QED BY <1>1, <1>2, <1>3 DEF Table

(* No command is called by a newline, and a letter is found where it is. *)
LEMMA Letters ==
    ASSUME Table, LineTypes, NEW x \in Nat, Letter(x)
    PROVE  /\ cmd' = 0 \/ (cmd' # 0 /\ cmd' \in Find(x))
           /\ x = NL => cmd' = 0
           /\ \A k \in Find(x) : k \in DOMAIN Registered /\ commands[k].c = x /\ k # 0
           /\ UNCHANGED <<commands, lenBuf, ascii_buf, tx, ran>>
<1>1. DOMAIN commands = DOMAIN Registered /\ DOMAIN Registered = 1 .. Len(Registered)
      /\ Len(Registered) \in Nat
  BY Consts DEF Table
<1>2. \A k \in Find(x) : k \in DOMAIN Registered /\ commands[k].c = x /\ k # 0
  BY <1>1 DEF Find
<1>3. x = NL => Find(x) = {}
  <2>1. \A k \in DOMAIN commands : commands[k].c # NL
    BY <1>1, Consts DEF Table
  <2> QED BY <2>1 DEF Find
<1>4. CASE Find(x) = {}
  BY <1>2, <1>4 DEF Letter
<1>5. CASE Find(x) # {}
  <2>1. cmd' \in Find(x) /\ UNCHANGED <<commands, lenBuf, ascii_buf, tx, ran>>
    BY <1>5 DEF Letter
  <2>2. cmd' # 0
    BY <1>2, <2>1
  <2> QED BY <1>2, <1>3, <1>5, <2>1, <2>2
<1> QED BY <1>4, <1>5

(* What is spoilt stays so. *)
LEMMA SpoiltStays ==
    ASSUME Table, LineTypes, Filled, Getch, NEW d \in Seq(Byte), Long(d),
           NEW i \in 1 .. 2 * Len(d) + 1, Spoilt(d, i),
           NEW x \in Nat, x = Head(toTarget), x = NL \/ (IsHex(x) /\ x \notin {NL, CR})
    PROVE  Spoilt(d, i + 1)' /\ UNCHANGED <<tx, ran>>
<1>0. Len(d) \in Nat /\ i \in Nat /\ i >= 1 /\ i <= 2 * Len(d) + 1
      /\ 2 * Len(d) + 1 - i >= 0 /\ 2 * Len(d) + 1 - (i + 1) \in Int
      /\ 2 * Len(d) + 1 - (i + 1) = 2 * Len(d) + 1 - i - 1 /\ 2 * Len(d) + 1 - i \in Nat
  <2>1. Len(d) \in Nat
    OBVIOUS
  <2> DEFINE n == Len(d)
  <2>2. n \in Nat /\ i \in 1 .. 2 * n + 1
    BY <2>1
  <2> HIDE DEF n
  <2>3. n \in Nat /\ i \in Nat /\ i >= 1 /\ i <= 2 * n + 1
        /\ 2 * n + 1 - i >= 0 /\ 2 * n + 1 - (i + 1) \in Int
        /\ 2 * n + 1 - (i + 1) = 2 * n + 1 - i - 1 /\ 2 * n + 1 - i \in Nat
    BY <2>2
  <2> QED BY <2>3 DEF n
<1>1. CASE cmd = 0
  <2>1. Letter(x)
    BY <1>1 DEF Getch
  <2>2. /\ cmd' = 0 \/ (cmd' # 0 /\ cmd' \in Find(x))
        /\ x = NL => cmd' = 0
        /\ \A k \in Find(x) : k \in DOMAIN Registered /\ commands[k].c = x
        /\ UNCHANGED <<commands, lenBuf, ascii_buf, tx, ran>>
    BY <2>1, Letters
  <2>3. CASE cmd' = 0
    BY <2>2, <2>3 DEF Spoilt
  <2>4. CASE cmd' # 0
    <3> DEFINE k == cmd'
    <3>1. k \in DOMAIN Registered /\ commands[k].c = x /\ IsHex(x)
      BY <2>2, <2>4
    <3>2. Registered[k].c = x /\ commands[k].flags = Registered[k].flags
          /\ Registered[k] \in Entry
      BY <3>1, Consts DEF Table
    <3>3. Registered[k].flags # 1
      <4>1. Registered[k].flags = 1 => Registered[k].c = CMD_MASK
        BY <3>1, Consts
      <4>2. ~IsHex(CMD_MASK)
        BY DEF IsHex, CMD_MASK
      <4> HIDE DEF k
      <4> QED BY <3>1, <3>2, <4>1, <4>2
    <3>4. commands[k].len = Registered[k].len
      BY <3>1, <3>2, <3>3 DEF Entry, Filled
    <3>5. Len(d) <= commands[k].len /\ commands[k].len \in Nat
      BY <3>1, <3>2, <3>4 DEF Long, Entry
    <3>6. ascii_buf' = <<>> /\ Len(<<>>) = 0
      BY <1>1, <2>2 DEF Filled
    <3> HIDE DEF k
    <3>7. 2 * commands[k].len - 0 > 2 * Len(d) + 1 - (i + 1)
      BY <1>0, <3>5
    <3>8. Missing' > 2 * Len(d) + 1 - (i + 1)
      BY <2>2, <3>6, <3>7 DEF Missing, k
    <3> QED BY <2>2, <2>4, <3>1, <3>8 DEF Spoilt, k
  <2> QED BY <2>3, <2>4
<1>2. CASE cmd # 0 /\ ReadsLength
  <2>1. LengthDigit(x)
    BY <1>2 DEF Getch
  <2>2. UNCHANGED <<tx, ran>>
    BY <2>1 DEF LengthDigit
  <2>3. commands[cmd].c = CMD_MASK
    BY <1>2, Entries DEF ReadsLength
  <2>4. ~IsHex(commands[cmd].c)
    BY <2>3 DEF IsHex, CMD_MASK
  <2>5. lenBuf \in Seq(Nat) /\ Len(lenBuf) \in Nat
    BY LenProperties DEF LineTypes
  <2>6. CASE Len(lenBuf) = 1 /\ ~IsHex(lenBuf[1])
    <3>1. Len(Append(lenBuf, x)) = 2 /\ Append(lenBuf, x)[1] = lenBuf[1]
      <4>1. Len(lenBuf) = 1 /\ x \in Nat
        BY <2>6
      <4>2. /\ Len(Append(lenBuf, x)) = Len(lenBuf) + 1
            /\ \A j \in 1 .. Len(lenBuf) : Append(lenBuf, x)[j] = lenBuf[j]
        <5>1. x \in Nat
          OBVIOUS
        <5> QED BY ONLY <2>5, <5>1, AppendProperties
      <4>3. 1 \in 1 .. Len(lenBuf)
        BY <4>1
      <4> QED BY <4>1, <4>2, <4>3
    <3>2. Return
      <4>1. ~ \A k \in 1 .. 2 : IsHex(Append(lenBuf, x)[k])
        BY <2>6, <3>1
      <4> QED BY <2>1, <3>1, <4>1 DEF LengthDigit
    <3> QED BY <2>2, <3>2 DEF Return, Spoilt
  <2>7. CASE \E k \in DOMAIN ascii_buf : ~IsHex(ascii_buf[k])
    <3>1. ascii_buf' = ascii_buf \/ cmd' = 0
      BY <2>1 DEF LengthDigit, Return
    <3>2. Spoilt(d, i + 1)'
      BY <2>7, <3>1 DEF Spoilt
    <3> QED BY <2>2, <3>2
  <2> QED BY <1>2, <2>4, <2>6, <2>7 DEF Spoilt
<1>3. CASE cmd # 0 /\ ~ReadsLength /\ Missing > 0
  <2>1. Payload(x)
    BY <1>3 DEF Getch
  <2>2. CASE x \in {NL, CR}
    BY <2>1, <2>2 DEF Payload, Return, Spoilt
  <2>3. CASE x \notin {NL, CR}
    <3>1. ascii_buf' = Append(ascii_buf, x) /\ UNCHANGED <<cmd, lenBuf, commands, tx, ran>>
      BY <2>1, <2>3 DEF Payload
    <3>2. CASE \E k \in DOMAIN ascii_buf : ~IsHex(ascii_buf[k])
      <4>1. PICK k \in DOMAIN ascii_buf : ~IsHex(ascii_buf[k])
        BY <3>2
      <4>2. k \in DOMAIN Append(ascii_buf, x) /\ Append(ascii_buf, x)[k] = ascii_buf[k]
        BY <4>1 DEF LineTypes
      <4> QED BY <3>1, <4>1, <4>2 DEF Spoilt
    <3>3. CASE IsHex(commands[cmd].c) /\ Missing > 2 * Len(d) + 1 - i
      <4>1. commands[cmd].len \in Int
        BY <1>3, Entries
      <4>2. Len(Append(ascii_buf, x)) = Len(ascii_buf) + 1 /\ Len(ascii_buf) \in Nat
        BY AppendProperties, LenProperties DEF LineTypes
      <4>3. Missing = 2 * commands[cmd].len - Len(ascii_buf)
            /\ Missing' = 2 * commands[cmd].len - Len(Append(ascii_buf, x))
        BY <3>1 DEF Missing
      <4>4. Missing' > 2 * Len(d) + 1 - (i + 1)
        <5>1. Missing > 2 * Len(d) + 1 - i /\ i \in Int /\ Len(d) \in Int
          BY <1>0, <3>3
        <5>2. PICK l, m, w : l = commands[cmd].len /\ m = Len(ascii_buf) /\ w = Len(d)
          OBVIOUS
        <5>3. l \in Int /\ m \in Nat /\ w \in Int /\ i \in Int /\ 2 * l - m > 2 * w + 1 - i
          BY ONLY <4>1, <4>2, <4>3, <5>1, <5>2
        <5>4. 2 * l - (m + 1) > 2 * w + 1 - (i + 1)
          BY ONLY <5>3
        <5>5. 2 * commands[cmd].len - (Len(ascii_buf) + 1) > 2 * Len(d) + 1 - (i + 1)
          BY ONLY <5>2, <5>4
        <5> QED BY ONLY <4>2, <4>3, <5>5
      <4> QED BY <1>3, <3>1, <3>3, <4>4 DEF Spoilt
    <3> QED BY <1>3, <3>2, <3>3 DEF Spoilt
  <2> QED BY <2>2, <2>3
<1>4. CASE cmd # 0 /\ ~ReadsLength /\ ~(Missing > 0)
  <2>1. EndOfLine(x)
    BY <1>4 DEF Getch
  <2>2. Return /\ commands' = commands /\ Spoilt(d, i + 1)'
    BY <2>1 DEF EndOfLine, Return, Spoilt
  <2>3. ~(Missing > 2 * Len(d) + 1 - i)
    <3>1. commands[cmd].len \in Int
      BY <1>4, Entries
    <3>2. Len(ascii_buf) \in Nat
      BY LenProperties DEF LineTypes
    <3>3. Missing \in Int
      BY <3>1, <3>2 DEF Missing
    <3> QED BY <1>0, <1>4, <3>3
  <2>4. \E k \in DOMAIN ascii_buf : ~IsHex(ascii_buf[k])
    BY <1>4, <2>3 DEF Spoilt
  <2> QED BY <2>1, <2>2, <2>4 DEF EndOfLine
<1> QED BY <1>1, <1>2, <1>3, <1>4

(* The letter comes: at the start of a line it is taken for one, anywhere    *)
(* else it spoils what is read.                                              *)
LEMMA LetterComes ==
    ASSUME Table, LineTypes, Filled, Getch, NEW d \in Seq(Byte), NEW c, Bare(c),
           c = Head(toTarget)
    PROVE  /\ Accepted(c, d, 1)' \/ Spoilt(d, 1)'
           /\ UNCHANGED <<tx, ran>>
<1>1. c \in Nat /\ c # NL /\ c # CR /\ ~IsHex(c)
  <2>1. c \in Byte /\ c \notin {NL, CR} /\ ~IsHex(c)
    BY DEF Bare
  <2>2. Byte \subseteq Nat
    BY DEF Byte
  <2> QED BY <2>1, <2>2
<1>2. CASE cmd = 0
  <2>1. Letter(c)
    BY <1>2 DEF Getch
  <2>2. /\ cmd' = 0 \/ (cmd' # 0 /\ cmd' \in Find(c))
        /\ UNCHANGED <<commands, lenBuf, ascii_buf, tx, ran>>
    BY <1>1, <2>1, Letters
  <2>3. ascii_buf' = <<>> /\ lenBuf' = <<>> /\ Find(c)' = Find(c)
    BY <1>2, <2>2 DEF Filled, Find
  <2>4. ASSUME cmd' # 0 PROVE Accepted(c, d, 1)'
    <3>1. 1 < Len(Line(c, d))
      BY LineShape
    <3>2. SubSeq(Hex(d, 97), 1, 1 - 1) = <<>>
      BY SubSeqEmpty
    <3> QED BY <2>2, <2>3, <2>4, <3>1, <3>2 DEF Accepted
  <2> QED BY <2>2, <2>4 DEF Spoilt
<1>3. CASE cmd # 0 /\ ReadsLength
  <2>1. LengthDigit(c)
    BY <1>3 DEF Getch
  <2>2. lenBuf \in Seq(Nat) /\ Len(lenBuf) \in {0, 1}
    <3>1. lenBuf \in Seq(Nat) /\ Len(lenBuf) \in Nat /\ Len(lenBuf) < 2
      BY <1>3, LenProperties DEF LineTypes, ReadsLength
    <3>2. \A n \in Nat : n < 2 => n \in {0, 1}
      OBVIOUS
    <3> QED BY <3>1, <3>2
  <2>3. CASE Len(lenBuf) = 0
    <3>1. Append(lenBuf, c) \in Seq(Nat) /\ Len(Append(lenBuf, c)) = 1 /\ Append(lenBuf, c)[1] = c
      <4>1. c \in Nat
        BY <1>1
      <4> QED BY ONLY <2>2, <2>3, <4>1
    <3>2. lenBuf' = Append(lenBuf, c) /\ UNCHANGED <<cmd, commands>>
      BY <2>1, <3>1 DEF LengthDigit
    <3>3. commands'[cmd'].flags = 1
      BY <1>3, <3>2 DEF ReadsLength
    <3>4. Spoilt(d, 1)'
      BY <1>1, <1>3, <3>1, <3>2, <3>3 DEF Spoilt, ReadsLength
    <3> QED BY <2>1, <3>4 DEF LengthDigit
  <2>4. CASE Len(lenBuf) = 1
    <3>1. Len(Append(lenBuf, c)) = 2 /\ Append(lenBuf, c)[2] = c
      <4>1. c \in Nat
        BY <1>1
      <4>2. /\ Len(Append(lenBuf, c)) = Len(lenBuf) + 1
            /\ Append(lenBuf, c)[Len(lenBuf) + 1] = c
        BY <2>2, <4>1, AppendProperties
      <4> QED BY <2>4, <4>2
    <3>2. Return
      <4>1. ~ \A k \in 1 .. 2 : IsHex(Append(lenBuf, c)[k])
        BY <1>1, <3>1
      <4> QED BY <2>1, <3>1, <4>1 DEF LengthDigit
    <3> QED BY <2>1, <3>2 DEF LengthDigit, Return, Spoilt
  <2> QED BY <2>2, <2>3, <2>4
<1>4. CASE cmd # 0 /\ ~ReadsLength /\ Missing > 0
  <2>1. Payload(c)
    BY <1>4 DEF Getch
  <2>2. ascii_buf' = Append(ascii_buf, c) /\ UNCHANGED <<tx, ran>>
    BY <1>1, <2>1 DEF Payload
  <2>3. Len(ascii_buf) + 1 \in DOMAIN Append(ascii_buf, c)
        /\ Append(ascii_buf, c)[Len(ascii_buf) + 1] = c
    BY <1>1 DEF LineTypes
  <2> QED BY <1>1, <2>2, <2>3 DEF Spoilt
<1>5. CASE cmd # 0 /\ ~ReadsLength /\ ~(Missing > 0)
  <2>1. EndOfLine(c)
    BY <1>5 DEF Getch
  <2> QED BY <1>1, <2>1 DEF EndOfLine, Return, Spoilt
<1> QED BY <1>2, <1>3, <1>4, <1>5

(* The rest of a line whose letter was taken for one: the command runs with  *)
(* the data of the line, or is given up.                                     *)
LEMMA RestComes ==
    ASSUME Table, LineTypes, Getch, NEW d \in Seq(Byte), NEW c, Bare(c),
           NEW i \in Nat, i >= 1, Accepted(c, d, i), Head(toTarget) = Line(c, d)[i + 1]
    PROVE  \/ /\ Accepted(c, d, i + 1)' \/ Spoilt(d, i + 1)'
              /\ UNCHANGED <<tx, ran>>
           \/ /\ i + 1 = Len(Line(c, d))
              /\ cmd # 0 /\ commands[cmd].c = c
              /\ Run /\ Return /\ commands' = commands
              /\ hex_decode(ascii_buf) = d
              /\ \A k \in DOMAIN ascii_buf : IsHex(ascii_buf[k])
<1> DEFINE h == Hex(d, 97)
           n == Len(h)
           x == Head(toTarget)
<1>1. /\ h \in Seq(Byte) /\ n \in Nat /\ n = 2 * Len(d)
      /\ Len(Line(c, d)) = n + 2 /\ Line(c, d)[n + 2] = NL
      /\ \A j \in 1 .. n : Line(c, d)[j + 1] = h[j] /\ IsHex(h[j]) /\ h[j] \notin {NL, CR}
  <2>1. 97 \in {65, 97}
    OBVIOUS
  <2>2. h \in Seq(Byte) /\ n = 2 * Len(d) /\ n \in Nat
    BY <2>1, HexAllDigits
  <2> DEFINE l == Line(c, d)
  <2>3. /\ l \in Seq(Byte) /\ Len(l) = 2 * Len(d) + 2 /\ Len(l) = Len(h) + 2
        /\ l[1] = c /\ l[Len(l)] = NL
        /\ \A j \in 1 .. Len(h) : l[j + 1] = h[j] /\ IsHex(h[j]) /\ h[j] \notin {NL, CR}
    BY LineShape
  <2> HIDE DEF h, l
  <2>4. /\ Len(l) = n + 2 /\ l[n + 2] = NL
        /\ \A j \in 1 .. n : l[j + 1] = h[j] /\ IsHex(h[j]) /\ h[j] \notin {NL, CR}
    BY <2>3
  <2> QED BY <2>2, <2>4 DEF l
<1>2. i < n + 2 /\ ascii_buf = SubSeq(h, 1, i - 1) /\ cmd \in Find(c) /\ lenBuf = <<>>
  BY <1>1 DEF Accepted
<1>3. cmd # 0 /\ commands[cmd].c = c /\ ~ReadsLength
  <2>1. DOMAIN commands = 1 .. Len(Registered) /\ Len(Registered) \in Nat
    BY Consts DEF Table
  <2>2. cmd # 0 /\ commands[cmd].c = c
    BY <1>2, <2>1 DEF Find
  <2> QED BY <2>2, Entries DEF Bare, ReadsLength
<1>4. CASE i < n + 1
  <2>1. i \in 1 .. n /\ x = h[i] /\ x \notin {NL, CR}
    BY <1>1, <1>4
  <2>2. CASE Missing > 0
    <3>1. Payload(x)
      BY <1>3, <2>2 DEF Getch
    <3>2. ascii_buf' = Append(ascii_buf, x) /\ UNCHANGED <<cmd, lenBuf, commands, tx, ran>>
      BY <2>1, <3>1 DEF Payload
    <3>3. Append(SubSeq(h, 1, i - 1), h[i]) = SubSeq(h, 1, i)
      <4> HIDE DEF h
      <4> QED BY <1>1, <2>1
    <3>4. i + 1 - 1 = i /\ i + 1 < n + 2
      BY <1>4
    <3>5. Find(c)' = Find(c)
      BY <3>2 DEF Find
    <3>6. Accepted(c, d, i + 1)'
      <4>1. ascii_buf' = SubSeq(h, 1, i + 1 - 1)
        BY <1>2, <2>1, <3>2, <3>3, <3>4
      <4> QED BY <1>1, <1>2, <3>2, <3>4, <3>5, <4>1 DEF Accepted
    <3> QED BY <3>2, <3>6
  <2>3. CASE ~(Missing > 0)
    <3>1. EndOfLine(x)
      BY <1>3, <2>3 DEF Getch
    <3> QED BY <2>1, <3>1 DEF EndOfLine, Return, Spoilt
  <2> QED BY <2>2, <2>3
<1>5. CASE i = n + 1
  <2>1. x = NL /\ ascii_buf = SubSeq(h, 1, n)
    BY <1>1, <1>2, <1>5
  <2>2. SubSeq(h, 1, n) = h
    <3> HIDE DEF h
    <3> QED BY <1>1
  <2>3. CASE Missing > 0
    <3>1. Payload(x)
      BY <1>3, <2>3 DEF Getch
    <3> QED BY <2>1, <3>1 DEF Payload, Return, Spoilt
  <2>4. CASE ~(Missing > 0)
    <3>1. EndOfLine(x)
      BY <1>3, <2>4 DEF Getch
    <3>2. \A k \in DOMAIN ascii_buf : IsHex(ascii_buf[k])
      BY <1>1, <2>1, <2>2
    <3>3. Run /\ Return /\ commands' = commands
      BY <2>1, <3>1, <3>2 DEF EndOfLine
    <3>4. hex_decode(ascii_buf) = d
      <4>1. 97 \in {65, 97}
        OBVIOUS
      <4> QED BY <2>1, <2>2, <4>1, DecodeHex
    <3> QED BY <1>1, <1>3, <1>5, <3>2, <3>3, <3>4
  <2> QED BY <2>3, <2>4
<1> QED BY <1>1, <1>2, <1>4, <1>5

(* A line is on its way to a target that has said nothing since: all of it   *)
(* but, maybe, its end; the target is at its character i.                    *)
Reading(c, d) ==
    /\ toHost = <<>> /\ tx = <<>>
    /\ \E m \in 0 .. Len(Line(c, d)) : \E i \in 0 .. m :
         /\ toTarget = SubSeq(Line(c, d), i + 1, m)
         /\ i > 0 => Accepted(c, d, i) \/ Spoilt(d, i)

(* All the last command has put is on its way, but for one character. *)
Said == LET q == Last(ran) IN Answer(q.cmd, q.data) \o Put(ACK, <<Code(q.cmd)>>)
Heard(f) ==
    \/ toHost \o tx = f
    \/ "loss" \in faults /\ \E k \in 1 .. Len(f) : toHost \o tx = RemoveAt(f, k)

(* The line has been read, and its command has run. *)
Answered(c, d) ==
    /\ toTarget = <<>> /\ cmd = 0
    /\ ran # <<>>
    /\ Last(ran) = [cmd |-> c, data |-> d]
    /\ Heard(Said)

Asked(c, d) == Reading(c, d) \/ Answered(c, d)

(* The head of a part of a sequence, and what is left of it. *)
LEMMA PartTail ==
    ASSUME NEW s \in Seq(Byte), NEW m \in 0 .. Len(s), NEW i \in 0 .. m,
           SubSeq(s, i + 1, m) # <<>>
    PROVE  /\ i < m /\ Head(SubSeq(s, i + 1, m)) = s[i + 1]
           /\ Tail(SubSeq(s, i + 1, m)) = SubSeq(s, i + 2, m)
<1>1. i < m
  <2> SUFFICES ASSUME ~(i < m) PROVE FALSE
    OBVIOUS
  <2>1. i + 1 > m
    OBVIOUS
  <2> QED BY <2>1, SubSeqEmpty
<1>2. /\ SubSeq(s, i + 1, m) \in Seq(Byte)
      /\ Len(SubSeq(s, i + 1, m)) = m - i
      /\ \A j \in 1 .. m - i : SubSeq(s, i + 1, m)[j] = s[i + j]
  BY <1>1
<1> DEFINE t == SubSeq(s, i + 1, m)
<1>3. Head(t) = t[1] /\ 1 \in 1 .. m - i
  BY <1>1
<1>4. Tail(t) \in Seq(Byte) /\ Len(Tail(t)) = m - i - 1
      /\ \A j \in 1 .. m - i - 1 : Tail(t)[j] = t[j + 1]
  <2> HIDE DEF t
  <2>1. t \in Seq(Byte) /\ t # <<>> /\ Len(t) = m - i
    BY <1>1, <1>2 DEF t
  <2> QED BY ONLY <2>1, HeadTailProperties
<1>5. /\ SubSeq(s, i + 2, m) \in Seq(Byte)
      /\ Len(SubSeq(s, i + 2, m)) = m - i - 1
      /\ \A j \in 1 .. m - i - 1 : SubSeq(s, i + 2, m)[j] = s[i + 1 + j]
  BY <1>1
<1>6. \A j \in 1 .. m - i - 1 : Tail(t)[j] = SubSeq(s, i + 2, m)[j]
  <2> TAKE j \in 1 .. m - i - 1
  <2>1. j + 1 \in 1 .. m - i /\ i + (j + 1) = i + 1 + j
    OBVIOUS
  <2> HIDE DEF t
  <2>2. t[j + 1] = s[i + (j + 1)]
    BY <1>2, <2>1 DEF t
  <2> QED BY <1>4, <1>5, <2>1, <2>2
<1> HIDE DEF t
<1>7. Tail(t) = SubSeq(s, i + 2, m)
  <2>1. Tail(t) \in Seq(Byte) /\ SubSeq(s, i + 2, m) \in Seq(Byte)
        /\ Len(Tail(t)) = Len(SubSeq(s, i + 2, m))
        /\ \A j \in 1 .. Len(Tail(t)) : Tail(t)[j] = SubSeq(s, i + 2, m)[j]
    BY <1>4, <1>5, <1>6
  <2> QED BY <2>1, SeqEqual
<1> QED BY <1>1, <1>2, <1>3, <1>7 DEF t

(* The line at the head of what is sent, and the part of it that is left. *)
LEMMA WholePart ==
    ASSUME NEW s \in Seq(Byte)
    PROVE  SubSeq(s, 1, Len(s)) = s
OBVIOUS

(* The last element of what is appended to. *)
LEMMA LastAppended ==
    ASSUME NEW S, NEW s \in Seq(S), NEW x \in S
    PROVE  Append(s, x) # <<>> /\ Last(Append(s, x)) = x
BY AppendProperties DEF Last

(* What ran last, when a command has just run. *)
LEMMA RunsLast ==
    ASSUME Run, commands' = commands, NEW q,
           q = [cmd |-> commands[cmd].c, data |-> hex_decode(ascii_buf)],
           ran \in Seq([cmd : Byte, data : Seq(Byte)]),
           q \in [cmd : Byte, data : Seq(Byte)]
    PROVE  /\ ran' # <<>> /\ Last(ran') = q
           /\ tx' = Said'
<1>1. ran' = Append(ran, q)
  BY DEF Run
<1>2. ran' # <<>> /\ Last(ran') = q
  <2>1. /\ ran \in Seq([cmd : Byte, data : Seq(Byte)])
        /\ q \in [cmd : Byte, data : Seq(Byte)]
    OBVIOUS
  <2>2. Append(ran, q) # <<>> /\ Last(Append(ran, q)) = q
    BY ONLY <2>1, LastAppended
  <2> QED BY <1>1, <2>2
<1>3. tx' = Answer(q.cmd, q.data) \o Put(ACK, <<Code(q.cmd)>>)
  BY DEF Run
<1>4. Answer(q.cmd, q.data)' = Answer(q.cmd, q.data)
  BY DEF Answer, Listed
<1> QED BY <1>2, <1>3, <1>4 DEF Said

RanTypes == ran \in Seq([cmd : Byte, data : Seq(Byte)])

(* A command that runs is put in the history with bytes. *)
LEMMA RunsBytes ==
    ASSUME Bytes, LineTypes, TableBytes, cmd # 0, \A k \in DOMAIN ascii_buf : IsHex(ascii_buf[k])
    PROVE  [cmd |-> commands[cmd].c, data |-> hex_decode(ascii_buf)]
             \in [cmd : Byte, data : Seq(Byte)]
<1>1. hex_decode(ascii_buf) \in Seq(Byte)
  BY DecodeBytes DEF Bytes
<1>2. commands[cmd].c \in Byte
  BY DEF LineTypes, TableBytes
<1> QED BY <1>1, <1>2

(* The history of the target grows by one command at a time. *)
LEMMA GetchRan ==
    ASSUME Bytes, LineTypes, TableBytes, RanTypes, Getch
    PROVE  RanTypes' /\ (ran' = ran \/ (cmd # 0 /\ Run /\ Return /\ commands' = commands))
<1> DEFINE x == Head(toTarget)
<1>1. CASE cmd = 0
  BY <1>1 DEF Getch, Letter, RanTypes
<1>2. CASE cmd # 0 /\ ReadsLength
  <2>1. LengthDigit(x)
    BY <1>2 DEF Getch
  <2> QED BY <2>1 DEF LengthDigit, RanTypes
<1>3. CASE cmd # 0 /\ ~ReadsLength /\ Missing > 0
  <2>1. Payload(x)
    BY <1>3 DEF Getch
  <2> QED BY <2>1 DEF Payload, RanTypes
<1>4. CASE cmd # 0 /\ ~ReadsLength /\ ~(Missing > 0)
  <2>1. EndOfLine(x)
    BY <1>4 DEF Getch
  <2>2. CASE UNCHANGED <<tx, ran>>
    BY <2>2 DEF RanTypes
  <2>3. CASE Run /\ \A k \in DOMAIN ascii_buf : IsHex(ascii_buf[k])
    <3> DEFINE q == [cmd |-> commands[cmd].c, data |-> hex_decode(ascii_buf)]
    <3>1. q \in [cmd : Byte, data : Seq(Byte)]
      BY <1>4, <2>3, RunsBytes
    <3>2. ran' = Append(ran, q)
      BY <2>3 DEF Run
    <3> HIDE DEF q
    <3>3. RanTypes'
      BY <3>1, <3>2, AppendProperties DEF RanTypes
    <3> QED BY <1>4, <2>1, <2>3, <3>3 DEF EndOfLine
  <2> QED BY <2>1, <2>2, <2>3 DEF EndOfLine
<1> QED BY <1>1, <1>2, <1>3, <1>4

(* The target takes a character of the line. *)
LEMMA ReadingGetch ==
    ASSUME Table, LineTypes, Bytes, TableBytes, Filled, RanTypes, Getch,
           NEW c, Bare(c), NEW d \in Seq(Byte), Long(d), Reading(c, d)
    PROVE  Asked(c, d)'
<1> DEFINE l == Line(c, d)
           x == Head(toTarget)
<1>1. l \in Seq(Byte) /\ Len(l) = 2 * Len(d) + 2 /\ Len(l) \in Nat /\ l[1] = c
      /\ l[Len(l)] = NL /\ 2 * Len(d) \in Nat
      /\ \A j \in 1 .. Len(l) - 2 : IsHex(l[j + 1]) /\ l[j + 1] \notin {NL, CR}
  <2> DEFINE h == Hex(d, 97)
  <2>1. /\ l \in Seq(Byte) /\ Len(l) = 2 * Len(d) + 2 /\ Len(l) = Len(h) + 2
        /\ l[1] = c /\ l[Len(l)] = NL
        /\ \A j \in 1 .. Len(h) : l[j + 1] = h[j] /\ IsHex(h[j]) /\ h[j] \notin {NL, CR}
    BY LineShape
  <2>2. Len(d) \in Nat
    OBVIOUS
  <2>3. Len(h) \in Nat
    BY LineShape, HexAllDigits
  <2> HIDE DEF h, l
  <2>4. Len(l) - 2 = Len(h)
    BY <2>1, <2>3
  <2> QED BY <2>1, <2>2, <2>4
<1>2. toHost = <<>> /\ tx = <<>>
  BY DEF Reading
<1>2a. PICK m \in 0 .. Len(l) : \E i \in 0 .. m :
        /\ toTarget = SubSeq(l, i + 1, m)
        /\ i > 0 => Accepted(c, d, i) \/ Spoilt(d, i)
  BY DEF Reading
<1>3. PICK i \in 0 .. m :
        /\ toTarget = SubSeq(l, i + 1, m)
        /\ i > 0 => Accepted(c, d, i) \/ Spoilt(d, i)
  BY <1>2a
<1>4. toTarget # <<>> /\ toTarget' = Tail(toTarget) /\ toHost' = toHost
  BY DEF Getch
<1>5. i < m /\ x = l[i + 1] /\ toTarget' = SubSeq(l, i + 2, m)
  <2> HIDE DEF l
  <2>1. l \in Seq(Byte) /\ m \in 0 .. Len(l) /\ i \in 0 .. m /\ SubSeq(l, i + 1, m) # <<>>
    BY <1>1, <1>3, <1>4
  <2>2. /\ i < m /\ Head(SubSeq(l, i + 1, m)) = l[i + 1]
        /\ Tail(SubSeq(l, i + 1, m)) = SubSeq(l, i + 2, m)
    BY ONLY <2>1, PartTail
  <2> QED BY <1>3, <1>4, <2>2
<1>6. x \in Nat
  <2>1. toTarget \in Seq(Nat) /\ toTarget # <<>>
    BY <1>4 DEF LineTypes
  <2> QED BY ONLY <2>1, HeadTailProperties
<1> HIDE DEF l, x
<1>7. ASSUME UNCHANGED <<tx, ran>>, Accepted(c, d, i + 1)' \/ Spoilt(d, i + 1)'
      PROVE  Reading(c, d)'
  <2>1. toHost' = <<>> /\ tx' = <<>>
    BY <1>2, <1>4, <1>7
  <2>2. i + 1 \in 0 .. m /\ i + 1 + 1 = i + 2
    BY <1>3, <1>5
  <2>3. toTarget' = SubSeq(Line(c, d), i + 1 + 1, m)
    BY <1>5, <2>2 DEF l
  <2> QED BY <1>3, <1>7, <2>1, <2>2, <2>3 DEF Reading, l
<1>8. ASSUME i + 1 = Len(l), Run, Return, commands' = commands, cmd # 0,
             \A k \in DOMAIN ascii_buf : IsHex(ascii_buf[k]),
             commands[cmd].c = c, hex_decode(ascii_buf) = d
      PROVE  Answered(c, d)'
  <2>1. toTarget' = <<>>
    <3>1. i + 2 > m
      BY <1>1, <1>3, <1>5, <1>8
    <3> QED BY <1>5, <3>1, SubSeqEmpty
  <2> DEFINE q == [cmd |-> commands[cmd].c, data |-> hex_decode(ascii_buf)]
  <2>2. q \in [cmd : Byte, data : Seq(Byte)]
    BY <1>8, RunsBytes
  <2>3. ran' # <<>> /\ Last(ran') = q /\ tx' = Said'
    BY <1>8, <2>2, RunsLast DEF RanTypes
  <2>4. Last(ran') = [cmd |-> c, data |-> d]
    BY <1>8, <2>3
  <2>5. toHost' \o tx' = Said'
    <3>1. tx' \in Seq(Byte)
      <4>1. commands[cmd].c \in Byte /\ hex_decode(ascii_buf) \in Seq(Byte)
        BY <2>2
      <4> QED BY <1>8, <4>1, AnswerBytes DEF Run
    <3> QED BY <1>2, <1>4, <2>3, <3>1, ConcatEmptySeq
  <2> QED BY <1>8, <2>1, <2>3, <2>4, <2>5 DEF Answered, Heard, Return
<1>9. CASE i = 0
  <2>1. c = Head(toTarget) /\ i + 1 = 1
    BY <1>1, <1>5, <1>9 DEF x
  <2>2. /\ Accepted(c, d, 1)' \/ Spoilt(d, 1)'
        /\ UNCHANGED <<tx, ran>>
    BY <2>1, LetterComes
  <2> QED BY <1>7, <2>1, <2>2 DEF Asked
<1>10. CASE i > 0 /\ Accepted(c, d, i)
  <2>1. i \in Nat /\ i >= 1 /\ Head(toTarget) = Line(c, d)[i + 1]
    BY <1>3, <1>5, <1>10 DEF x, l
  <2>2. \/ /\ Accepted(c, d, i + 1)' \/ Spoilt(d, i + 1)'
           /\ UNCHANGED <<tx, ran>>
        \/ /\ i + 1 = Len(Line(c, d))
           /\ cmd # 0 /\ commands[cmd].c = c
           /\ Run /\ Return /\ commands' = commands
           /\ hex_decode(ascii_buf) = d
           /\ \A k \in DOMAIN ascii_buf : IsHex(ascii_buf[k])
    BY <1>10, <2>1, RestComes
  <2> QED BY <1>7, <1>8, <2>2 DEF Asked, l
<1>11. CASE i > 0 /\ Spoilt(d, i)
  <2>1. x = NL \/ (IsHex(x) /\ x \notin {NL, CR})
    <3>1. CASE i + 1 = Len(l)
      BY <1>1, <1>5, <3>1
    <3>2. CASE i + 1 # Len(l)
      <4>1. i \in 1 .. Len(l) - 2
        <5>1. /\ Len(l) \in Nat /\ m \in Int /\ m <= Len(l) /\ i \in Int /\ i < m /\ i > 0
              /\ i + 1 # Len(l)
          BY <1>1, <1>3, <1>5, <1>11, <3>2
        <5> QED BY ONLY <5>1
      <4> QED BY <1>1, <1>5, <4>1
    <3> QED BY <3>1, <3>2
  <2>2. x = Head(toTarget)
    BY DEF x
  <2>3. i \in 1 .. 2 * Len(d) + 1
    <3>1. i < Len(l) /\ i \in Nat
      BY <1>1, <1>3, <1>5
    <3> QED BY <1>1, <1>11, <3>1
  <2>4. Spoilt(d, i + 1)' /\ UNCHANGED <<tx, ran>>
    BY <1>6, <1>11, <2>1, <2>2, <2>3, SpoiltStays
  <2> QED BY <1>7, <2>4 DEF Asked
<1>12. i = 0 \/ i > 0
  BY <1>3
<1> QED BY <1>3, <1>9, <1>10, <1>11, <1>12

(* Whatever happens, the history holds commands with bytes. *)
LEMMA RanGrows ==
    ASSUME IInv, Types, RanTypes, [Next]_vars
    PROVE  RanTypes'
<1>1. CASE Target
  <2>1. CASE Getch
    BY <2>1, GetchRan DEF IInv, Types
  <2>2. CASE Putch
    BY <2>2 DEF Putch, RanTypes
  <2> QED BY <1>1, <2>1, <2>2 DEF Target
<1>2. CASE Call \/ Host \/ Fault \/ Done \/ UNCHANGED vars
  <2>1. ran' = ran
    BY <1>2 DEF Call, Host, Fault, Done, Con, ConFlush, Flush, Write, Read, ReadErrs, Robust,
                WaitAck, vars, targetVars
  <2> QED BY <2>1 DEF RanTypes
<1> QED BY <1>1, <1>2 DEF Next

(* What is known of a line and of its answer is about these variables. *)
LEMMA AskedSame ==
    ASSUME UNCHANGED <<toTarget, toHost, commands, cmd, lenBuf, ascii_buf, tx, ran, faults>>,
           NEW c, NEW d
    PROVE  (Asked(c, d)' <=> Asked(c, d)) /\ (Answered(c, d)' <=> Answered(c, d))
<1>1. Said' = Said
  BY DEF Said, Answer, Listed
<1> QED BY <1>1 DEF Asked, Reading, Answered, Heard, Accepted, Spoilt, ReadsLength, Missing, Find

-----------------------------------------------------------------------------
(* The steps of the target and of the faults, while the host waits.          *)

(* What is put down comes behind what was put down before. *)
LEMMA MovesOn ==
    ASSUME NEW s \in Seq(Byte), NEW t \in Seq(Byte), t # <<>>
    PROVE  Append(s, Head(t)) \o Tail(t) = s \o t
<1>1. Len(s) \in Nat /\ Len(t) \in Nat /\ Len(t) > 0
  BY EmptySeq
<1>2. /\ Head(t) \in Byte /\ Head(t) = t[1] /\ Tail(t) \in Seq(Byte) /\ Len(Tail(t)) = Len(t) - 1
      /\ \A j \in 1 .. Len(t) - 1 : Tail(t)[j] = t[j + 1]
  BY <1>1, HeadTailProperties
<1>3. /\ Append(s, Head(t)) \in Seq(Byte) /\ Len(Append(s, Head(t))) = Len(s) + 1
      /\ \A j \in 1 .. Len(s) : Append(s, Head(t))[j] = s[j]
      /\ Append(s, Head(t))[Len(s) + 1] = Head(t)
  BY <1>2, AppendProperties
<1> DEFINE a == Append(s, Head(t))
           b == Tail(t)
           u == a \o b
           v == s \o t
<1>4. /\ u \in Seq(Byte) /\ Len(u) = Len(a) + Len(b)
      /\ \A j \in 1 .. Len(a) + Len(b) : u[j] = IF j <= Len(a) THEN a[j] ELSE b[j - Len(a)]
  <2>1. a \in Seq(Byte) /\ b \in Seq(Byte)
    BY <1>2, <1>3
  <2> HIDE DEF a, b
  <2> QED BY <2>1
<1>5. /\ v \in Seq(Byte) /\ Len(v) = Len(s) + Len(t)
      /\ \A j \in 1 .. Len(s) + Len(t) : v[j] = IF j <= Len(s) THEN s[j] ELSE t[j - Len(s)]
  OBVIOUS
<1>6. /\ Len(a) = Len(s) + 1 /\ Len(b) = Len(t) - 1
      /\ \A j \in 1 .. Len(s) : a[j] = s[j]
      /\ a[Len(s) + 1] = t[1]
      /\ \A j \in 1 .. Len(t) - 1 : b[j] = t[j + 1]
  BY <1>2, <1>3
<1> HIDE DEF u, v, a, b
<1>6a. Len(u) = Len(v)
  BY ONLY <1>1, <1>4, <1>5, <1>6
<1>7. ASSUME NEW j \in 1 .. Len(s) + Len(t) PROVE u[j] = v[j]
  <2>1. CASE j <= Len(s)
    <3>1. j \in 1 .. Len(s) /\ j <= Len(a) /\ j \in 1 .. Len(a) + Len(b)
      BY <1>1, <1>6, <2>1
    <3>2. u[j] = a[j] /\ v[j] = s[j] /\ a[j] = s[j]
      BY <1>4, <1>5, <1>6, <2>1, <3>1
    <3> QED BY <3>2
  <2>2. CASE j = Len(s) + 1
    <3>1. j <= Len(a) /\ j \in 1 .. Len(a) + Len(b) /\ ~(j <= Len(s)) /\ j - Len(s) = 1
      BY <1>1, <1>6, <2>2
    <3>2. u[j] = a[j] /\ v[j] = t[j - Len(s)]
      BY <1>4, <1>5, <3>1
    <3> QED BY <1>6, <2>2, <3>1, <3>2
  <2>3. CASE j > Len(s) + 1
    <3>1. /\ ~(j <= Len(a)) /\ j \in 1 .. Len(a) + Len(b) /\ ~(j <= Len(s))
          /\ j - Len(a) \in 1 .. Len(t) - 1 /\ j - Len(a) + 1 = j - Len(s)
      BY <1>1, <1>6, <2>3
    <3>2. u[j] = b[j - Len(a)] /\ v[j] = t[j - Len(s)]
      BY <1>4, <1>5, <3>1
    <3> QED BY <1>6, <3>1, <3>2
  <2> QED BY <1>1, <2>1, <2>2, <2>3
<1>8. u = v
  <2>1. \A j \in 1 .. Len(u) : u[j] = v[j]
    BY <1>5, <1>6a, <1>7
  <2> QED BY <1>4, <1>5, <1>6a, <2>1, SeqEqual
<1> QED BY <1>8 DEF u, v, a, b

(* A character written leaves what is on its way to the host as it is. *)
LEMMA AnsweredPutch ==
    ASSUME Bytes, Putch, faults' = faults, NEW c, NEW d, Answered(c, d)
    PROVE  Answered(c, d)'
<1>1. /\ toHost \in Seq(Byte) /\ tx \in Seq(Byte) /\ tx # <<>>
      /\ toHost' = Append(toHost, Head(tx)) /\ tx' = Tail(tx)
      /\ UNCHANGED <<toTarget, cmd, commands, ran>>
  BY DEF Bytes, Putch, lineVars
<1>2. Append(toHost, Head(tx)) \o Tail(tx) = toHost \o tx
  BY ONLY <1>1, MovesOn
<1>3. toHost' \o tx' = toHost \o tx
  BY <1>1, <1>2
<1>4. Said' = Said
  BY <1>1 DEF Said, Answer, Listed
<1> QED BY <1>1, <1>3, <1>4 DEF Answered, Heard

(* The target goes on with the line, or with its answer. *)
LEMMA AskedTarget ==
    ASSUME Table, LineTypes, Bytes, TableBytes, Filled, RanTypes, Target,
           NEW c, Bare(c), NEW d \in Seq(Byte), Long(d), Asked(c, d), faults' = faults
    PROVE  Asked(c, d)'
<1>1. CASE Getch
  <2>1. Reading(c, d)
    BY <1>1 DEF Asked, Answered, Getch
  <2> QED BY <1>1, <2>1, ReadingGetch
<1>2. CASE Putch
  <2>1. Answered(c, d)
    BY <1>2 DEF Asked, Reading, Putch
  <2> QED BY <1>2, <2>1, AnsweredPutch DEF Asked
<1> QED BY <1>1, <1>2 DEF Target

(* All but the last of what is received, before what is still to come. *)
LEMMA LastLost ==
    ASSUME NEW s \in Seq(Byte), NEW t \in Seq(Byte), s # <<>>
    PROVE  /\ Len(s) \in 1 .. Len(s \o t)
           /\ Front(s) \o t = RemoveAt(s \o t, Len(s))
<1> DEFINE n == Len(s)
           u == s \o t
<1>1. n \in Nat /\ n > 0 /\ Len(t) \in Nat
  BY EmptySeq
<1>2. u \in Seq(Byte) /\ Len(u) = n + Len(t)
      /\ \A j \in 1 .. n : u[j] = s[j]
  BY ConcatProperties
<1>3. SubSeq(u, 1, n - 1) = Front(s)
  <2>1. n - 1 \in 0 .. Len(u)
    BY <1>1, <1>2
  <2>2. /\ SubSeq(u, 1, n - 1) \in Seq(Byte) /\ SubSeq(s, 1, n - 1) \in Seq(Byte)
        /\ Len(SubSeq(u, 1, n - 1)) = n - 1 /\ Len(SubSeq(s, 1, n - 1)) = n - 1
        /\ \A j \in 1 .. n - 1 : SubSeq(u, 1, n - 1)[j] = u[j] /\ SubSeq(s, 1, n - 1)[j] = s[j]
    <3>1. u \in Seq(Byte) /\ n - 1 \in 0 .. Len(u) /\ n - 1 \in 0 .. Len(s)
      BY <1>1, <1>2
    <3> HIDE DEF u, n
    <3>2. \A r \in Seq(Byte) : \A m \in 0 .. Len(r) :
            /\ SubSeq(r, 1, m) \in Seq(Byte) /\ Len(SubSeq(r, 1, m)) = m
            /\ \A j \in 1 .. m : SubSeq(r, 1, m)[j] = r[j]
      OBVIOUS
    <3> QED BY <3>1, <3>2
  <2>3. SubSeq(u, 1, n - 1) = SubSeq(s, 1, n - 1)
    <3>1. \A j \in 1 .. n - 1 : SubSeq(u, 1, n - 1)[j] = SubSeq(s, 1, n - 1)[j]
      BY <1>1, <1>2, <2>2
    <3> QED BY ONLY <2>2, <3>1, SeqEqual
  <2> QED BY <2>3 DEF Front
<1>4. SubSeq(u, n + 1, Len(u)) = t
  <2> HIDE DEF n
  <2>1. n = Len(s)
    BY DEF n
  <2>2. /\ \A j \in 1 .. Len(t) : u[n + j] = t[j]
    BY <2>1, ConcatProperties
  <2> HIDE DEF u
  <2>3. /\ SubSeq(u, n + 1, Len(u)) \in Seq(Byte) /\ Len(SubSeq(u, n + 1, Len(u))) = Len(t)
        /\ \A j \in 1 .. Len(t) : SubSeq(u, n + 1, Len(u))[j] = u[n + j]
    BY <1>1, <1>2
  <2> QED BY <2>2, <2>3, SeqEqual
<1> HIDE DEF u
<1>5. Front(s) \o t = RemoveAt(u, n)
  BY <1>3, <1>4 DEF RemoveAt
<1> QED BY <1>1, <1>2, <1>5 DEF u

(* What has all arrived stays so when something is lost. *)
LEMMA FaultQuiet ==
    ASSUME Fault
    PROVE  /\ toTarget = <<>> => UNCHANGED toTarget /\ LoseToHost
           /\ toHost = <<>> => toHost' = <<>>
           /\ UNCHANGED <<tx, ran, commands, cmd, lenBuf, ascii_buf>>
<1>1. ASSUME toTarget = <<>> PROVE ~Overflow /\ ~Overrun
  <2>1. Len(toTarget) = 0 /\ ~ \E k \in 1 .. 0 : TRUE
    BY <1>1
  <2>2. Min({3, Len(toTarget)}) <= 0 /\ Min({3, Len(toTarget)}) \in {3, 0}
    <3>1. 3 \in Int /\ 0 \in Int
      OBVIOUS
    <3>2. Min({3, 0}) <= 0 /\ Min({3, 0}) \in {3, 0}
      BY <3>1, MinOfTwo
    <3> QED BY <2>1, <3>2
  <2>3. Min({3, Len(toTarget)}) = 0
    BY <2>2
  <2> QED BY <1>1, <2>1, <2>3 DEF Overflow, Overrun
<1>2. Overrun \/ Overflow \/ LoseToHost
  BY DEF Fault
<1>3. toHost = <<>> => toHost' = <<>>
  BY <1>2 DEF Overrun, Overflow, LoseToHost
<1>4. UNCHANGED <<tx, ran, commands, cmd, lenBuf, ascii_buf>>
  BY DEF Fault, targetVars, lineVars
<1> QED BY <1>1, <1>2, <1>3, <1>4 DEF LoseToHost

(* One character lost of an answer: there is one hole. *)
LEMMA AnsweredFault ==
    ASSUME Bytes, Fault, NEW c, NEW d, Answered(c, d)
    PROVE  Answered(c, d)'
<1>1. UNCHANGED <<commands, cmd, tx, ran>>
  BY FaultQuiet
<1>2. Said' = Said
  BY <1>1 DEF Said, Answer, Listed
<1>3. toTarget = <<>>
  BY DEF Answered
<1>4. /\ "loss" \notin faults /\ "loss" \in faults'
      /\ toHost # <<>> /\ toHost' = Front(toHost) /\ toTarget' = toTarget
  <2>1. LoseToHost /\ ~Overflow /\ ~Overrun
    <3>1. LoseToHost /\ toHost # <<>> /\ toHost' = Front(toHost)
      BY <1>3, FaultQuiet DEF LoseToHost
    <3>2. ~Overflow
      BY <1>3 DEF Overflow
    <3>3. ~Overrun
      <4>1. Front(toHost) # toHost
        <5>1. toHost \in Seq(Byte) /\ Len(toHost) \in Nat /\ Len(toHost) > 0
          BY <3>1, EmptySeq DEF Bytes
        <5>2. Len(Front(toHost)) = Len(toHost) - 1
          <6>1. \A r \in Seq(Byte) : \A m \in 0 .. Len(r) : Len(SubSeq(r, 1, m)) = m
            OBVIOUS
          <6>2. Len(toHost) - 1 \in 0 .. Len(toHost)
            BY <5>1
          <6> QED BY <5>1, <6>1, <6>2 DEF Front
        <5> QED BY <5>1, <5>2
      <4> QED BY <3>1, <4>1 DEF Overrun
    <3> QED BY <3>1, <3>2, <3>3
  <2>2. PICK kind \in Faults \ faults :
         /\ faults' = faults \cup {kind}
         /\ \/ kind = "overrun" /\ Overrun
            \/ kind = "overflow" /\ Overflow
            \/ kind = "loss" /\ LoseToHost
    BY DEF Fault
  <2> QED BY <2>1, <2>2 DEF LoseToHost
<1>5. toHost \o tx = Said
  BY <1>4 DEF Answered, Heard
<1>6. /\ Len(toHost) \in 1 .. Len(toHost \o tx)
      /\ Front(toHost) \o tx = RemoveAt(toHost \o tx, Len(toHost))
  <2>1. toHost \in Seq(Byte) /\ tx \in Seq(Byte) /\ toHost # <<>>
    BY <1>4 DEF Bytes
  <2> QED BY ONLY <2>1, LastLost
<1>7. Heard(Said)'
  BY <1>1, <1>2, <1>4, <1>5, <1>6 DEF Heard
<1> QED BY <1>1, <1>3, <1>4, <1>7 DEF Answered

(* A character lost of a line that is being read: the line has no end any more. *)
LEMMA AskedFault ==
    ASSUME Bytes, Fault, NEW c, Bare(c), NEW d \in Seq(Byte), Asked(c, d)
    PROVE  Asked(c, d)'
<1>1. UNCHANGED <<commands, cmd, lenBuf, ascii_buf, tx, ran>>
  BY DEF Fault, targetVars, lineVars
<1>2. PICK kind \in Faults \ faults :
         /\ faults' = faults \cup {kind}
         /\ \/ kind = "overrun" /\ Overrun
            \/ kind = "overflow" /\ Overflow
            \/ kind = "loss" /\ LoseToHost
  BY DEF Fault
<1>3. Said' = Said
      /\ \A i : (Accepted(c, d, i)' <=> Accepted(c, d, i)) /\ (Spoilt(d, i)' <=> Spoilt(d, i))
  BY <1>1 DEF Said, Answer, Listed, Spoilt, ReadsLength, Missing, Accepted, Find
<1>4. CASE Reading(c, d)
  <2>1. toHost = <<>> /\ tx = <<>>
    BY <1>4 DEF Reading
  <2>2. toTarget # <<>> /\ toTarget' = Front(toTarget) /\ toHost' = toHost
    BY <1>2, <2>1 DEF Overrun, Overflow, LoseToHost
  <2> DEFINE l == Line(c, d)
  <2>3. l \in Seq(Byte) /\ Len(l) \in Nat
    BY LineShape
  <2> HIDE DEF l
  <2>4. PICK m \in 0 .. Len(l) : \E i \in 0 .. m :
          /\ toTarget = SubSeq(l, i + 1, m)
          /\ i > 0 => Accepted(c, d, i) \/ Spoilt(d, i)
    BY <1>4 DEF Reading, l
  <2>5. PICK i \in 0 .. m :
          /\ toTarget = SubSeq(l, i + 1, m)
          /\ i > 0 => Accepted(c, d, i) \/ Spoilt(d, i)
    BY <2>4
  <2>6. i < m
    <3>1. l \in Seq(Byte) /\ m \in 0 .. Len(l) /\ i \in 0 .. m /\ SubSeq(l, i + 1, m) # <<>>
      BY <2>2, <2>3, <2>5
    <3> QED BY ONLY <3>1, PartTail
  <2>7. toTarget' = SubSeq(l, i + 1, m - 1)
    <3>1. /\ toTarget \in Seq(Byte) /\ Len(toTarget) = m - i
          /\ \A j \in 1 .. m - i : toTarget[j] = l[i + j]
      BY <2>3, <2>5, <2>6
    <3>2. /\ Front(toTarget) \in Seq(Byte) /\ Len(Front(toTarget)) = m - i - 1
          /\ \A j \in 1 .. m - i - 1 : Front(toTarget)[j] = toTarget[j]
      BY <2>6, <3>1 DEF Front
    <3>3. /\ SubSeq(l, i + 1, m - 1) \in Seq(Byte) /\ Len(SubSeq(l, i + 1, m - 1)) = m - i - 1
          /\ \A j \in 1 .. m - i - 1 : SubSeq(l, i + 1, m - 1)[j] = l[i + j]
      BY <2>3, <2>6
    <3>4. \A j \in 1 .. m - i - 1 : Front(toTarget)[j] = SubSeq(l, i + 1, m - 1)[j]
      BY <2>6, <3>1, <3>2, <3>3
    <3>5. Front(toTarget) = SubSeq(l, i + 1, m - 1)
      BY ONLY <3>2, <3>3, <3>4, SeqEqual
    <3> QED BY <2>2, <3>5
  <2>8. m - 1 \in 0 .. Len(l) /\ i \in 0 .. m - 1
    BY <2>3, <2>6
  <2>9. Reading(c, d)'
    BY <1>1, <1>3, <2>1, <2>2, <2>5, <2>7, <2>8 DEF Reading, l
  <2> QED BY <2>9 DEF Asked
<1>5. CASE Answered(c, d)
  BY <1>5, AnsweredFault DEF Asked
<1> QED BY <1>4, <1>5 DEF Asked

(* A line is written to a target that is done with everything else. *)
LEMMA WritesAsked ==
    ASSUME Write, Quiet, toHost = <<>>, Bare(line), cur.data \in Seq(Byte)
    PROVE  Reading(line, cur.data)'
<1> DEFINE l == Line(line, cur.data)
<1>1. l \in Seq(Byte) /\ Len(l) \in Nat
  BY LineShape
<1>2. toTarget' = <<>> \o l /\ UNCHANGED <<toHost, tx, line, cur>>
  BY DEF Write, Quiet, targetVars
<1> HIDE DEF l
<1>3. toTarget' = SubSeq(l, 0 + 1, Len(l))
  <2>1. <<>> \o l = l /\ SubSeq(l, 1, Len(l)) = l
    BY <1>1, ConcatEmptySeq
  <2> QED BY <1>2, <2>1
<1>4. Len(l) \in 0 .. Len(l) /\ 0 \in 0 .. Len(l)
  BY <1>1
<1> QED BY <1>2, <1>3, <1>4 DEF Quiet, Reading, l

-----------------------------------------------------------------------------
(* What the host makes of what is on its way.                                *)

(* The elements of two sequences put together. *)
LEMMA Joined ==
    ASSUME NEW a \in Seq(Byte), NEW b \in Seq(Byte)
    PROVE  /\ a \o b \in Seq(Byte) /\ Len(a \o b) = Len(a) + Len(b)
           /\ \A j \in 1 .. Len(a) + Len(b) :
                (a \o b)[j] = IF j <= Len(a) THEN a[j] ELSE b[j - Len(a)]
OBVIOUS

(* A sequence without one of its elements. *)
LEMMA Removed ==
    ASSUME NEW s \in Seq(Byte), NEW k \in 1 .. Len(s)
    PROVE  /\ RemoveAt(s, k) \in Seq(Byte) /\ Len(RemoveAt(s, k)) = Len(s) - 1
           /\ \A j \in 1 .. Len(s) - 1 :
                RemoveAt(s, k)[j] = IF j < k THEN s[j] ELSE s[j + 1]
<1> DEFINE a == SubSeq(s, 1, k - 1)
           b == SubSeq(s, k + 1, Len(s))
<1>1. Len(s) \in Nat
  OBVIOUS
<1>2. /\ a \in Seq(Byte) /\ Len(a) = k - 1 /\ \A j \in 1 .. k - 1 : a[j] = s[j]
      /\ b \in Seq(Byte) /\ Len(b) = Len(s) - k /\ \A j \in 1 .. Len(s) - k : b[j] = s[j + k]
  BY <1>1
<1>3. RemoveAt(s, k) = a \o b
  BY DEF RemoveAt
<1> HIDE DEF a, b
<1>4. /\ a \o b \in Seq(Byte) /\ Len(a \o b) = Len(a) + Len(b)
      /\ \A j \in 1 .. Len(a) + Len(b) : (a \o b)[j] = IF j <= Len(a) THEN a[j] ELSE b[j - Len(a)]
  BY <1>2, Joined
<1>5. ASSUME NEW j \in 1 .. Len(s) - 1
      PROVE  (a \o b)[j] = IF j < k THEN s[j] ELSE s[j + 1]
  <2>1. j \in 1 .. Len(a) + Len(b)
    BY <1>1, <1>2
  <2>2. CASE j < k
    BY <1>1, <1>2, <1>4, <2>1, <2>2
  <2>3. CASE ~(j < k)
    <3>1. ~(j <= Len(a)) /\ j - Len(a) \in 1 .. Len(s) - k /\ j - Len(a) + k = j + 1
      BY <1>1, <1>2, <2>3
    <3>2. (a \o b)[j] = b[j - Len(a)]
      BY <1>4, <2>1, <3>1
    <3> QED BY <1>2, <2>3, <3>1, <3>2
  <2> QED BY <2>2, <2>3
<1> QED BY <1>1, <1>2, <1>3, <1>4, <1>5

(* Whatever is read for the response to a command, with one character of its *)
(* answer lost or none: if it starts and ends as a response, it is that one. *)
LEMMA HeardResponse ==
    ASSUME Bytes, NEW bytes \in Seq(Byte), NEW n \in Byte, pay_len = Len(bytes),
           Heard(Put(RESPONSE, bytes) \o Put(ACK, <<n>>)), EndOk(Chars(RecvLen))
    PROVE  Decoded(Chars(RecvLen)) = bytes
<1> DEFINE p == Put(RESPONSE, bytes)
           a == Put(ACK, <<n>>)
           f == p \o a
           r == Chars(RecvLen)
           u == toHost \o tx
<1>1. /\ p \in Seq(Byte) /\ Len(p) = 2 * Len(bytes) + 2 /\ p[Len(p)] = NL
      /\ a \in Seq(Byte) /\ Len(a) = 4 /\ a[1] = ACK
  <2>1. RESPONSE \in Byte /\ ACK \in Byte /\ <<n>> \in Seq(Byte) /\ Len(<<n>>) = 1
    BY DEF RESPONSE, ACK, Byte
  <2>2. /\ p \in Seq(Byte) /\ Len(p) = 2 * Len(bytes) + 2 /\ p[Len(p)] = NL
    BY <2>1, PutShape
  <2>3. a \in Seq(Byte) /\ Len(a) = 2 * Len(<<n>>) + 2 /\ a[1] = ACK
    BY <2>1, PutShape
  <2>4. Len(a) = 4
    BY <2>1, <2>3
  <2> QED BY <2>2, <2>3, <2>4
<1>2. RecvLen = Len(p) /\ RecvLen \in Nat /\ RecvLen > 0
  <2>1. Len(bytes) \in Nat
    OBVIOUS
  <2> HIDE DEF p
  <2>2. 1 + 2 * Len(bytes) + 1 = 2 * Len(bytes) + 2
    BY <2>1
  <2> QED BY <1>1, <2>1, <2>2 DEF RecvLen
<1>3. toHost \in Seq(Byte) /\ tx \in Seq(Byte) /\ Len(toHost) \in Nat
  BY LenProperties DEF Bytes
<1>4. Len(r) = RecvLen /\ r[RecvLen] = NL
  BY DEF EndOk
<1>5. Len(toHost) >= RecvLen /\ r = SubSeq(toHost, 1, RecvLen)
  <2> DEFINE m == Min({RecvLen, Len(toHost)})
  <2>1. m \in {RecvLen, Len(toHost)} /\ m <= RecvLen /\ m <= Len(toHost)
    <3>1. RecvLen \in Int /\ Len(toHost) \in Int
      BY <1>2, <1>3
    <3> QED BY ONLY <3>1, MinOfTwo
  <2>2. r = SubSeq(toHost, 1, m)
    BY DEF Chars
  <2> HIDE DEF m, r
  <2>3. m \in Nat /\ Len(SubSeq(toHost, 1, m)) = m
    BY <1>2, <1>3, <2>1
  <2>4. m = RecvLen
    BY <1>4, <2>2, <2>3
  <2> QED BY <2>1, <2>2, <2>4
<1> HIDE DEF r, p, a
<1>6. /\ f \in Seq(Byte) /\ Len(f) = RecvLen + 4
      /\ \A j \in 1 .. RecvLen : f[j] = p[j]
      /\ f[RecvLen + 1] = ACK
  <2>1. /\ f \in Seq(Byte) /\ Len(f) = Len(p) + Len(a)
        /\ \A j \in 1 .. Len(p) + Len(a) : f[j] = IF j <= Len(p) THEN p[j] ELSE a[j - Len(p)]
    BY <1>1, Joined
  <2> HIDE DEF f
  <2>3. f[RecvLen + 1] = a[1]
    <3> DEFINE j == RecvLen + 1
    <3>1. j \in 1 .. Len(p) + Len(a) /\ ~(j <= Len(p)) /\ j - Len(p) = 1
      BY <1>1, <1>2
    <3> HIDE DEF j
    <3>2. f[j] = a[j - Len(p)]
      BY <2>1, <3>1
    <3>3. f[j] = a[1]
      BY <3>1, <3>2
    <3> QED BY <3>3 DEF j
  <2>4. \A j \in 1 .. RecvLen : j \in 1 .. Len(p) + Len(a) /\ j <= Len(p)
    BY <1>1, <1>2
  <2> QED BY <1>1, <1>2, <2>1, <2>3, <2>4
<1>7. /\ u \in Seq(Byte)
      /\ \A j \in 1 .. RecvLen : u[j] = toHost[j]
  BY <1>2, <1>3, <1>5
<1>8. r \in Seq(Byte) /\ \A j \in 1 .. RecvLen : r[j] = toHost[j]
  BY <1>2, <1>3, <1>5
<1>9. u = f \/ \E k \in 1 .. Len(f) : u = RemoveAt(f, k)
  BY DEF Heard, p, a
<1> HIDE DEF f, u, Decoded
<1>10. \A j \in 1 .. RecvLen : u[j] = f[j]
  <2>1. CASE u = f
    BY <2>1
  <2>2. ASSUME NEW k \in 1 .. Len(f), u = RemoveAt(f, k)
        PROVE  \A j \in 1 .. RecvLen : u[j] = f[j]
    <3>1. \A j \in 1 .. Len(f) - 1 : u[j] = IF j < k THEN f[j] ELSE f[j + 1]
      BY <1>6, <2>2, Removed
    <3>2. \A j \in 1 .. RecvLen : j \in 1 .. Len(f) - 1
      BY <1>2, <1>6
    <3>3. RecvLen \in 1 .. RecvLen
      BY <1>2
    <3>4. u[RecvLen] = NL
      BY <1>4, <1>7, <1>8, <3>3
    <3>5. NL # ACK
      BY DEF NL, ACK
    <3>6. RecvLen < k
      BY <1>6, <3>1, <3>2, <3>3, <3>4, <3>5
    <3>7. \A j \in 1 .. RecvLen : j < k
      BY <1>2, <3>6
    <3> QED BY <3>1, <3>2, <3>7
  <2> QED BY <1>9, <2>1, <2>2
<1>11. r = p
  <2>1. Len(r) = Len(p) /\ \A j \in 1 .. Len(r) : r[j] = p[j]
    BY <1>2, <1>4, <1>6, <1>7, <1>8, <1>10
  <2> QED BY <1>1, <1>8, <2>1, SeqEqual
<1>12. Decoded(r) = bytes
  BY <1>11, DecodedPut DEF p
<1> QED BY <1>12 DEF r

(* Nothing is read when nothing has come. *)
LEMMA NothingThere ==
    ASSUME NEW n \in Nat, toHost = <<>>
    PROVE  Chars(n) = <<>>
<1>1. toHost = <<>> /\ Len(toHost) = 0
  OBVIOUS
<1>2. Min({n, 0}) <= 0 /\ Min({n, 0}) \in {n, 0}
  <2>1. n \in Int /\ 0 \in Int
    OBVIOUS
  <2> QED BY ONLY <2>1, MinOfTwo
<1>3. Chars(n) = SubSeq(<<>>, 1, Min({n, 0}))
  BY <1>1 DEF Chars
<1>4. SubSeq(<<>>, 1, Min({n, 0})) = <<>>
  <2>1. Min({n, 0}) \in Nat /\ 1 > Min({n, 0})
    BY <1>2
  <2> QED BY <2>1, SubSeqEmpty
<1> QED BY <1>3, <1>4

(* Nothing is read before the command has run. *)
LEMMA NothingYet ==
    ASSUME NEW c, NEW d, Asked(c, d), NEW n \in Nat, StartOk(Chars(n))
    PROVE  Answered(c, d)
<1> SUFFICES ASSUME Reading(c, d) PROVE FALSE
  BY DEF Asked
<1> QED BY NothingThere DEF Reading, StartOk

-----------------------------------------------------------------------------
(* The two commands of get_simpleserial_commands.                            *)

(* What get_simpleserial_commands knows at each of its steps, if the target  *)
(* had finished when each of its two lines was written: what is on its way   *)
(* is its own, and the target is not busy with anything else.                *)
Count == <<Len(Registered)>>
ListInv ==
    cur.call = "list" /\ ~late =>
        /\ line \in {CMD_COUNT, CMD_COMMANDS} /\ cur.data = <<>>
        /\ hpc \in {"flush", "write", "read", "ack", "idle"}
        /\ hpc \in {"flush", "write"} /\ line = CMD_COMMANDS => payload \in {<<>>, Count}
        /\ hpc = "write" => Quiet /\ toHost = <<>>
        /\ hpc = "read" => /\ pay_len = (IF line = CMD_COUNT THEN 1 ELSE 3 * Len(Registered))
                           /\ Asked(line, <<>>)
        /\ hpc = "ack" => /\ payload = (IF line = CMD_COUNT THEN Count ELSE Listed)
                          /\ toTarget = <<>>
        /\ hpc # "idle" => res.out # "read"
        /\ hpc = "idle" /\ res.out = "read" => res.payload = Listed /\ toTarget = <<>>

(* The letters of the calls of a list can be mistaken for nothing else. *)
LEMMA ListLetters == Bare(CMD_COUNT) /\ Bare(CMD_COMMANDS) /\ CMD_COUNT # CMD_COMMANDS
BY DEF Bare, Byte, IsHex, NL, CR, CMD_MASK, CMD_COUNT, CMD_COMMANDS

(* The table has as many entries as were registered, its list three bytes each. *)
LEMMA TableSize ==
    ASSUME TableBytes
    PROVE  /\ Len(commands) = Len(Registered) /\ Len(commands) \in Nat
           /\ DOMAIN commands = 1 .. Len(commands)
           /\ Listed \in Seq(Byte) /\ Len(Listed) = 3 * Len(Registered)
           /\ Count \in Seq(Byte) /\ Len(Count) = 1
<1>1. /\ DOMAIN Registered = 1 .. Len(Registered) /\ Len(Registered) \in Nat
      /\ Len(Registered) <= MAX_SS_CMDS
  BY Consts, RegisteredAssumption
<1>2. /\ commands \in [1 .. Len(Registered) -> [c : Byte, len : Byte, flags : {0, 1}]]
  BY <1>1 DEF TableBytes
<1>3. DOMAIN commands = 1 .. Len(Registered)
  BY <1>2
<1>4. Len(commands) = Len(Registered)
  <2> DEFINE n == Len(Registered)
  <2>1. n \in Nat /\ commands \in [1 .. n -> [c : Byte, len : Byte, flags : {0, 1}]]
    BY <1>1, <1>2
  <2> HIDE DEF n
  <2>2. Len(commands) = n
    BY <2>1
  <2> QED BY <2>2 DEF n
<1>5. Listed \in Seq(Byte)
  BY ListedBytes
<1>6. Len(Listed) = 3 * Len(Registered)
  <2>1. 3 * Len(commands) \in Nat
    BY <1>1, <1>4
  <2>2. DOMAIN Listed = 1 .. 3 * Len(commands)
    BY DEF Listed
  <2> HIDE DEF Listed
  <2>3. Len(Listed) = 3 * Len(commands)
    BY <1>5, <2>1, <2>2
  <2> QED BY <1>4, <2>3
<1>7. Len(Registered) \in Byte
  <2>1. \A n \in Nat : n <= MAX_SS_CMDS => n \in Byte
    BY DEF MAX_SS_CMDS, Byte
  <2> QED BY <1>1, <2>1
<1>8. Count \in Seq(Byte) /\ Len(Count) = 1
  BY <1>7 DEF Count
<1> QED BY <1>1, <1>3, <1>4, <1>5, <1>6, <1>8

(* The target goes on: with the line or the answer of the call, or, when     *)
(* that is over, with an acknowledgement.                                    *)
LEMMA TargetList ==
    ASSUME IInv, Types, RanTypes, ListInv, Target
    PROVE  ListInv'
<1>1. UNCHANGED <<cur, late, line, hpc, payload, pay_len, res, faults>>
  BY DEF Target, hostVars, history
<1> SUFFICES ASSUME cur.call = "list" /\ ~late PROVE ListInv'
  BY <1>1 DEF ListInv
<1>2. ASSUME toTarget = <<>>
      PROVE  UNCHANGED <<toTarget, commands>> /\ Listed' = Listed
  <2>1. Putch
    BY <1>2 DEF Target, Getch
  <2>2. UNCHANGED <<toTarget, commands>>
    BY <2>1 DEF Putch
  <2> QED BY <2>2 DEF Listed
<1>3. ~(Quiet /\ toHost = <<>> /\ hpc = "write")
  BY DEF Target, Getch, Putch, Quiet
<1>4. ASSUME hpc = "read" PROVE Asked(line, <<>>)'
  <2>1. Asked(line, <<>>) /\ Bare(line) /\ <<>> \in Seq(Byte) /\ Long(<<>>)
    <3>1. Long(<<>>)
      BY Consts DEF Long, Entry
    <3> QED BY <1>4, <3>1, ListLetters, EmptySeq DEF ListInv
  <2>2. Asked(line, <<>>)'
    <3> DEFINE c == line
    <3>1. Table /\ LineTypes /\ Bytes /\ TableBytes /\ Filled
      BY DEF IInv, Types
    <3> QED BY <1>1, <2>1, <3>1, AskedTarget
  <2> QED BY <2>2
<1> QED BY <1>1, <1>2, <1>3, <1>4 DEF ListInv

(* A character is lost. *)
LEMMA FaultList ==
    ASSUME Bytes, ListInv, Fault
    PROVE  ListInv'
<1>1. UNCHANGED <<cur, late, line, hpc, payload, pay_len, res, commands, tx>>
  BY DEF Fault, targetVars, hostVars
<1> SUFFICES ASSUME cur.call = "list" /\ ~late PROVE ListInv'
  BY <1>1 DEF ListInv
<1>2. Listed' = Listed
  BY <1>1 DEF Listed
<1>3. ASSUME toTarget = <<>> PROVE toTarget' = <<>>
  BY <1>3, FaultQuiet
<1>4. ASSUME Quiet, toHost = <<>> PROVE Quiet' /\ toHost' = <<>>
  BY <1>3, <1>4, FaultQuiet DEF Quiet
<1>5. ASSUME hpc = "read" PROVE Asked(line, <<>>)'
  <2>1. Asked(line, <<>>) /\ Bare(line) /\ <<>> \in Seq(Byte)
    BY <1>5, ListLetters, EmptySeq DEF ListInv
  <2> QED BY <1>1, <2>1, AskedFault
<1> QED BY <1>1, <1>2, <1>3, <1>4, <1>5 DEF ListInv

(* A call begins. *)
LEMMA CallList ==
    ASSUME ListInv, Call
    PROVE  ListInv'
<1>1. PICK q \in Requests :
        /\ cur' = q
        /\ line' = IF q.call = "list" THEN CMD_COUNT ELSE q.cmd
        /\ hpc' = IF Skips(q) THEN "idle" ELSE "flush"
  BY DEF Call
<1>2. res' = Nothing /\ res'.out = "none"
  BY DEF Call, Nothing
<1>3. ASSUME q.call = "list" PROVE q.data = <<>> /\ hpc' = "flush" /\ line' = CMD_COUNT
  BY <1>1, <1>3 DEF Requests, Skips
<1> QED BY <1>1, <1>2, <1>3, ListLetters DEF ListInv

(* The flush: what comes after it is the target's, unless it was late. *)
LEMMA FlushList ==
    ASSUME ListInv, Flush
    PROVE  ListInv'
<1>1. /\ hpc = "flush" /\ hpc' = "write" /\ toHost' = <<>>
      /\ late' = (late \/ ~Quiet)
      /\ UNCHANGED <<toTarget, tx, cur, line, payload, res>>
  BY DEF Flush, targetVars
<1>2. ~late' => Quiet' /\ ~late
  BY <1>1 DEF Quiet
<1> QED BY <1>1, <1>2 DEF ListInv

(* The line. *)
LEMMA WriteList ==
    ASSUME TableBytes, ListInv, Write
    PROVE  ListInv'
<1>1. hpc = "write" /\ UNCHANGED <<cur, line, payload, late, commands>>
  BY DEF Write, targetVars
<1> SUFFICES ASSUME cur.call = "list", ~late PROVE ListInv'
  BY <1>1 DEF ListInv
<1>2. /\ line \in {CMD_COUNT, CMD_COMMANDS} /\ cur.data = <<>>
      /\ line = CMD_COMMANDS => payload \in {<<>>, Count}
      /\ Quiet /\ toHost = <<>> /\ res.out # "read"
  BY <1>1 DEF ListInv
<1>3. Bare(line) /\ cur.data \in Seq(Byte)
  BY <1>2, ListLetters, EmptySeq
<1>4. Asked(line, <<>>)'
  BY <1>1, <1>2, <1>3, WritesAsked DEF Asked
<1>5. \/ line = CMD_COMMANDS /\ payload = <<>> /\ hpc' = "idle" /\ res' = Raised
      \/ ~(line = CMD_COMMANDS /\ payload = <<>>) /\ hpc' = "read" /\ res' = res
  BY DEF Write
<1>6. CASE line = CMD_COMMANDS /\ payload = <<>> /\ hpc' = "idle" /\ res' = Raised
  <2>1. res'.out = "raised"
    BY <1>6 DEF Raised
  <2> QED BY <1>1, <1>2, <1>6, <2>1 DEF ListInv
<1>7. CASE ~(line = CMD_COMMANDS /\ payload = <<>>) /\ hpc' = "read" /\ res' = res
  <2>1. pay_len' = (IF line = CMD_COUNT THEN 1 ELSE 3 * Len(Registered))
    <3>1. CASE line = CMD_COUNT
      BY <3>1, ListLetters DEF Write
    <3>2. CASE line = CMD_COMMANDS
      <4>1. payload = Count /\ payload # <<>> /\ payload[1] = Len(Registered)
        BY <1>2, <1>7, <3>2 DEF Count
      <4>2. pay_len' = 3 * payload[1]
        BY <3>2, <4>1, ListLetters DEF Write
      <4> QED BY <3>2, <4>1, <4>2, ListLetters
    <3> QED BY <1>2, <3>1, <3>2
  <2> QED BY <1>1, <1>2, <1>4, <1>7, <2>1 DEF ListInv
<1> QED BY <1>5, <1>6, <1>7

(* What is put for a list, and for the number of its entries. *)
LEMMA ListSaid ==
    ASSUME TableBytes, NEW c \in {CMD_COUNT, CMD_COMMANDS}, Answered(c, <<>>)
    PROVE  /\ toTarget = <<>>
           /\ Heard(Put(RESPONSE, IF c = CMD_COUNT THEN Count ELSE Listed) \o Put(ACK, <<0>>))
<1>1. Last(ran) = [cmd |-> c, data |-> <<>>] /\ Heard(Said) /\ toTarget = <<>>
  BY DEF Answered
<1>2. Said = Answer(c, <<>>) \o Put(ACK, <<Code(c)>>)
  BY <1>1 DEF Said
<1>3. Answer(c, <<>>) = Put(RESPONSE, IF c = CMD_COUNT THEN Count ELSE Listed)
  <2>1. Len(commands) = Len(Registered)
    BY TableSize
  <2>2. CASE c = CMD_COUNT
    <3>1. Answer(c, <<>>) = Put(RESPONSE, <<Len(commands)>>)
      BY <2>2 DEF Answer, CMD_COUNT, CMD_COMMANDS, CMD_PT, CMD_MULTI
    <3> QED BY <2>1, <2>2, <3>1 DEF Count
  <2>3. CASE c = CMD_COMMANDS
    <3>1. Answer(c, <<>>) = Put(RESPONSE, Listed)
      BY <2>3 DEF Answer, CMD_COUNT, CMD_COMMANDS, CMD_PT, CMD_MULTI
    <3> QED BY <2>3, <3>1, ListLetters
  <2> QED BY <2>2, <2>3
<1>4. Code(c) = 0
  BY DEF Code, CMD_COUNT, CMD_COMMANDS, CMD_VERSION
<1> QED BY <1>1, <1>2, <1>3, <1>4

(* The response. *)
LEMMA ReadList ==
    ASSUME Types, ListInv, Read
    PROVE  ListInv'
<1> DEFINE r == Chars(RecvLen)
<1>1. hpc = "read" /\ UNCHANGED <<toTarget, cur, late, commands>>
  BY DEF Read, targetVars, history
<1> SUFFICES ASSUME cur.call = "list", ~late PROVE ListInv'
  BY <1>1 DEF ListInv
<1>2. /\ line \in {CMD_COUNT, CMD_COMMANDS} /\ cur.data = <<>>
      /\ pay_len = (IF line = CMD_COUNT THEN 1 ELSE 3 * Len(Registered))
      /\ Asked(line, <<>>) /\ res.out # "read"
  BY <1>1 DEF ListInv
<1>3. CASE StartOk(r) /\ EndOk(r)
  <2> DEFINE b == IF line = CMD_COUNT THEN Count ELSE Listed
  <2>1. payload' = Decoded(r) /\ hpc' = "ack" /\ UNCHANGED <<line, res>>
    BY <1>3 DEF Read
  <2>2. RecvLen \in Nat
    <3>1. pay_len \in Nat
      BY DEF Types, HostTypes
    <3> QED BY <3>1 DEF RecvLen
  <2>3. Answered(line, <<>>)
    BY <1>2, <1>3, <2>2, NothingYet
  <2>4. toTarget = <<>> /\ Heard(Put(RESPONSE, b) \o Put(ACK, <<0>>))
    BY <1>2, <2>3, ListSaid DEF Types
  <2>5. b \in Seq(Byte) /\ pay_len = Len(b)
    BY <1>2, TableSize DEF Types
  <2>6. 0 \in Byte
    BY DEF Byte
  <2> HIDE DEF b
  <2>7. Decoded(r) = b
    BY <1>3, <2>4, <2>5, <2>6, HeardResponse DEF Types
  <2>8. Listed' = Listed
    BY <1>1 DEF Listed
  <2>9. payload' = (IF line' = CMD_COUNT THEN Count ELSE Listed') /\ toTarget' = <<>>
    BY <1>1, <2>1, <2>4, <2>7, <2>8 DEF b
  <2> QED BY <1>1, <1>2, <2>1, <2>9 DEF ListInv
<1>4. CASE ~(StartOk(r) /\ EndOk(r))
  <2>1. payload' = <<>> /\ Give(Nothing)
    BY <1>4 DEF Read
  <2>2. \/ line = CMD_COUNT /\ hpc' = "flush" /\ line' = CMD_COMMANDS /\ res' = res
        \/ line # CMD_COUNT /\ hpc' = "idle" /\ line' = line /\ res' = Nothing
    BY <2>1 DEF Give
  <2>3. Nothing.out # "read"
    BY DEF Nothing
  <2> QED BY <1>1, <1>2, <2>1, <2>2, <2>3 DEF ListInv
<1> QED BY <1>3, <1>4

(* The acknowledgement: whatever it is, the payload is the target's. *)
LEMMA WaitAckList ==
    ASSUME TableBytes, ListInv, WaitAck
    PROVE  ListInv'
<1>1. hpc = "ack" /\ UNCHANGED <<toTarget, cur, late, commands, payload>>
  BY DEF WaitAck, targetVars, history
<1> SUFFICES ASSUME cur.call = "list", ~late PROVE ListInv'
  BY <1>1 DEF ListInv
<1>2. /\ line \in {CMD_COUNT, CMD_COMMANDS} /\ cur.data = <<>>
      /\ payload = (IF line = CMD_COUNT THEN Count ELSE Listed)
      /\ toTarget = <<>> /\ res.out # "read"
  BY <1>1 DEF ListInv
<1>3. \/ hpc' = "idle" /\ line' = line /\ res' = Raised
      \/ \E code : Give([out |-> "read", payload |-> payload, code |-> code])
  BY DEF WaitAck
<1>4. Raised.out # "read" /\ Listed' = Listed
  BY <1>1 DEF Raised, Listed
<1>5. CASE hpc' = "idle" /\ line' = line /\ res' = Raised
  BY <1>1, <1>2, <1>4, <1>5 DEF ListInv
<1>6. CASE \E code : Give([out |-> "read", payload |-> payload, code |-> code])
  <2>1. PICK code : Give([out |-> "read", payload |-> payload, code |-> code])
    BY <1>6
  <2>2. CASE line = CMD_COUNT
    <3>1. hpc' = "flush" /\ line' = CMD_COMMANDS /\ res' = res
      BY <2>1, <2>2 DEF Give
    <3> QED BY <1>1, <1>2, <2>2, <3>1 DEF ListInv
  <2>3. CASE line # CMD_COUNT
    <3>1. hpc' = "idle" /\ line' = line
          /\ res' = [out |-> "read", payload |-> payload, code |-> code]
      BY <2>1, <2>3 DEF Give
    <3>2. res'.payload = Listed'
      BY <1>2, <1>4, <2>3, <3>1
    <3> QED BY <1>1, <1>2, <3>1, <3>2 DEF ListInv
  <2> QED BY <2>2, <2>3
<1> QED BY <1>3, <1>5, <1>6

(* Every step keeps it. *)
LEMMA ListInductive ==
    ASSUME IInv, Types, RanTypes, ListInv, [Next]_vars
    PROVE  RanTypes' /\ ListInv'
<1>1. RanTypes'
  BY RanGrows
<1>2. ListInv'
  <2>1. CASE Call
    BY <2>1, CallList
  <2>2. CASE Con \/ ConFlush \/ ReadErrs \/ Robust
    BY <2>2 DEF Con, ConFlush, ReadErrs, Robust, ListInv, history
  <2>3. CASE Flush
    BY <2>3, FlushList
  <2>4. CASE Write
    BY <2>4, WriteList DEF Types
  <2>5. CASE Read
    BY <2>5, ReadList
  <2>6. CASE WaitAck
    BY <2>6, WaitAckList DEF Types
  <2>7. CASE Target
    BY <2>7, TargetList
  <2>8. CASE Fault
    BY <2>8, FaultList DEF Types
  <2>9. CASE UNCHANGED vars
    <3>1. UNCHANGED <<toTarget, toHost, commands, cmd, lenBuf, ascii_buf, tx, ran, hpc, cur, line,
                      pay_len, payload, res, faults, late>>
      BY <2>9 DEF vars, channels, targetVars, lineVars, hostVars, history
    <3>2. Listed' = Listed
      BY <3>1 DEF Listed
    <3>3. Asked(line, <<>>)' <=> Asked(line, <<>>)
      BY <3>1, AskedSame
    <3> QED BY <3>1, <3>2, <3>3 DEF ListInv, Quiet
  <2> QED BY <2>1, <2>2, <2>3, <2>4, <2>5, <2>6, <2>7, <2>8, <2>9 DEF Next, Host, Done
<1> QED BY <1>1, <1>2

-----------------------------------------------------------------------------
(* The table, as the property has it.                                        *)

(* Induction over the naturals, with a set in the place of a predicate. *)
LEMMA SetInduction ==
    ASSUME NEW T, 0 \in T, \A n \in Nat : n \in T => n + 1 \in T
    PROVE  \A n \in Nat : n \in T
<1> DEFINE R == OpToRel(<, Nat)
           B == Nat \ T
<1>1. IsWellFoundedOn(R, Nat)
  BY NatLessThanWellFounded
<1>2. \A x, y \in Nat : x < y => <<x, y>> \in R
  BY DEF OpToRel
<1> HIDE DEF R
<1>3. SUFFICES ASSUME B # {} PROVE FALSE
  OBVIOUS
<1>4. PICK x \in B : \A y \in B : ~(<<y, x>> \in R)
  BY <1>1, <1>3, WFMin
<1>5. x \in Nat /\ x # 0
  OBVIOUS
<1>6. x - 1 \in Nat /\ x - 1 < x /\ x - 1 + 1 = x
  BY <1>5
<1>7. x - 1 \in B
  BY <1>6
<1> QED BY <1>2, <1>4, <1>5, <1>6, <1>7

(* One triple after the other. *)
Triples(e, n) == [k \in 1 .. 3 * n |-> e[(k + 2) \div 3][((k + 2) % 3) + 1]]

(* With one entry more there is one triple more, at the end. *)
LEMMA TriplesGrow ==
    ASSUME NEW e, NEW n \in Nat, NEW i \in 1 .. n,
           \A k \in 1 .. n : e[k] \in Seq(Byte) /\ Len(e[k]) = 3
    PROVE  /\ Triples(e, i) \in Seq(Byte)
           /\ i = 1 => Triples(e, i) = e[1]
           /\ i > 1 => Triples(e, i) = Triples(e, i - 1) \o e[i]
<1>1. \A m \in 0 .. n : Triples(e, m) \in Seq(Byte) /\ Len(Triples(e, m)) = 3 * m
                        /\ \A k \in 1 .. 3 * m : Triples(e, m)[k] = e[(k + 2) \div 3][((k + 2) % 3) + 1]
  <2> TAKE m \in 0 .. n
  <2>1. ASSUME NEW k \in 1 .. 3 * m
        PROVE  e[(k + 2) \div 3][((k + 2) % 3) + 1] \in Byte
    <3>1. (k + 2) \div 3 \in 1 .. n /\ ((k + 2) % 3) + 1 \in 1 .. 3
      OBVIOUS
    <3> DEFINE s == e[(k + 2) \div 3]
    <3>2. s \in Seq(Byte) /\ Len(s) = 3
      BY <3>1
    <3> HIDE DEF s
    <3> QED BY <3>1, <3>2, ElementOfSeq DEF s
  <2>2. Triples(e, m) \in [1 .. 3 * m -> Byte]
    BY <2>1 DEF Triples
  <2>3. 3 * m \in Nat
    OBVIOUS
  <2>4. Triples(e, m) \in Seq(Byte) /\ Len(Triples(e, m)) = 3 * m
    BY <2>2, <2>3
  <2> QED BY <2>4 DEF Triples
<1>2. Triples(e, i) \in Seq(Byte) /\ Len(Triples(e, i)) = 3 * i
  BY <1>1
<1>3. e[i] \in Seq(Byte) /\ Len(e[i]) = 3
  OBVIOUS
<1>4. ASSUME NEW j \in 1 .. 3
      PROVE  /\ 3 * (i - 1) + j \in 1 .. 3 * i
             /\ Triples(e, i)[3 * (i - 1) + j] = e[i][j]
  <2>1. 3 * (i - 1) + j \in 1 .. 3 * i
    OBVIOUS
  <2>2. (3 * (i - 1) + j + 2) \div 3 = i /\ ((3 * (i - 1) + j + 2) % 3) + 1 = j
    OBVIOUS
  <2>3. i \in 0 .. n
    OBVIOUS
  <2> DEFINE q == 3 * (i - 1) + j
  <2> HIDE DEF q
  <2>4. q \in 1 .. 3 * i /\ (q + 2) \div 3 = i /\ ((q + 2) % 3) + 1 = j
    BY <2>1, <2>2 DEF q
  <2>5. Triples(e, i)[q] = e[(q + 2) \div 3][((q + 2) % 3) + 1]
    BY <1>1, <2>3, <2>4
  <2> QED BY <2>4, <2>5 DEF q
<1>5. ASSUME i = 1 PROVE Triples(e, i) = e[1]
  <2>1. \A j \in 1 .. 3 : Triples(e, 1)[j] = e[1][j]
    BY <1>4, <1>5
  <2> QED BY <1>2, <1>3, <1>5, <2>1, SeqEqual
<1>6. ASSUME i > 1 PROVE Triples(e, i) = Triples(e, i - 1) \o e[i]
  <2> DEFINE a == Triples(e, i - 1)
             b == e[i]
             t == Triples(e, i)
  <2>1. /\ a \in Seq(Byte) /\ Len(a) = 3 * (i - 1)
        /\ \A k \in 1 .. 3 * (i - 1) : a[k] = e[(k + 2) \div 3][((k + 2) % 3) + 1]
    <3>1. i - 1 \in 0 .. n
      OBVIOUS
    <3> QED BY <1>1, <3>1
  <2>2. b \in Seq(Byte) /\ Len(b) = 3
    BY <1>3
  <2>3. /\ t \in Seq(Byte) /\ Len(t) = 3 * i
        /\ \A k \in 1 .. 3 * i : t[k] = e[(k + 2) \div 3][((k + 2) % 3) + 1]
        /\ \A j \in 1 .. 3 : t[3 * (i - 1) + j] = b[j]
    <3>1. i \in 0 .. n
      OBVIOUS
    <3>2. /\ t \in Seq(Byte) /\ Len(t) = 3 * i
          /\ \A k \in 1 .. 3 * i : t[k] = e[(k + 2) \div 3][((k + 2) % 3) + 1]
      BY <1>1, <3>1
    <3>3. \A j \in 1 .. 3 : t[3 * (i - 1) + j] = b[j]
      BY <1>4
    <3> QED BY ONLY <3>2, <3>3
  <2> HIDE DEF a, b, t
  <2>4. /\ a \o b \in Seq(Byte) /\ Len(a \o b) = Len(a) + Len(b)
        /\ \A j \in 1 .. Len(a) + Len(b) :
             (a \o b)[j] = IF j <= Len(a) THEN a[j] ELSE b[j - Len(a)]
    BY ONLY <2>1, <2>2, Joined
  <2>5. Len(a \o b) = Len(t)
    BY <2>1, <2>2, <2>3, <2>4
  <2>6. ASSUME NEW k \in 1 .. 3 * i PROVE t[k] = (a \o b)[k]
    <3>0. k \in 1 .. Len(a) + Len(b)
      BY <2>1, <2>2
    <3>1. CASE k <= 3 * (i - 1)
      <4>1. k \in 1 .. 3 * (i - 1)
        BY <3>1
      <4> QED BY <2>1, <2>3, <2>4, <3>0, <3>1, <4>1
    <3>2. CASE k > 3 * (i - 1)
      <4>1. k - 3 * (i - 1) \in 1 .. 3 /\ 3 * (i - 1) + (k - 3 * (i - 1)) = k
            /\ ~(k <= Len(a))
        BY <2>1, <3>2
      <4>2. (a \o b)[k] = b[k - 3 * (i - 1)]
        BY <2>1, <2>4, <3>0, <4>1
      <4> QED BY <2>3, <4>1, <4>2
    <3>3. k <= 3 * (i - 1) \/ k > 3 * (i - 1)
      OBVIOUS
    <3> QED BY <3>1, <3>2, <3>3
  <2>7. t = a \o b
    <3>1. \A k \in 1 .. Len(t) : t[k] = (a \o b)[k]
      BY <2>3, <2>6
    <3> QED BY <2>3, <2>4, <2>5, <3>1, SeqEqual
  <2> QED BY <2>7 DEF a, b, t
<1> QED BY <1>2, <1>5, <1>6

(* The list the target puts is its entries, one triple after the other. *)
LEMMA Flattened ==
    ASSUME NEW n \in Nat, n > 0, NEW e, e \in Seq(Seq(Byte)), Len(e) = n,
           \A k \in 1 .. n : e[k] \in Seq(Byte) /\ Len(e[k]) = 3
    PROVE  FlattenSeq(e) = Triples(e, n)
<1> DEFINE IsFlat(f) == f = [i \in 1 .. n |-> IF i = 1 THEN e[i] ELSE f[i - 1] \o e[i]]
           g == [i \in 1 .. n |-> Triples(e, i)]
<1>0. \A i \in 1 .. n :
         /\ i = 1 => Triples(e, i) = e[1]
         /\ i > 1 => Triples(e, i) = Triples(e, i - 1) \o e[i]
  BY TriplesGrow
<1>1. IsFlat(g)
  <2>1. ASSUME NEW i \in 1 .. n
        PROVE  Triples(e, i) = IF i = 1 THEN e[i] ELSE g[i - 1] \o e[i]
    <3>1. CASE i = 1
      BY <1>0, <3>1
    <3>2. CASE i # 1
      <4>1. i > 1 /\ i - 1 \in 1 .. n
        BY <3>2
      <4>2. Triples(e, i) = Triples(e, i - 1) \o e[i]
        BY <1>0, <4>1
      <4> QED BY <3>2, <4>1, <4>2
    <3> QED BY <3>1, <3>2
  <2> QED BY <2>1
<1> DEFINE f == CHOOSE h : IsFlat(h)
<1>2. IsFlat(f)
  <2>1. \E h : IsFlat(h)
    BY <1>1
  <2> HIDE DEF IsFlat
  <2>2. IsFlat(CHOOSE h : IsFlat(h))
    BY <2>1
  <2> QED BY <2>2 DEF f
<1>3. FlattenSeq(e) = f[n]
  BY DEF FlattenSeq
<1> HIDE DEF f
<1>4. \A i \in 1 .. n : f[i] = IF i = 1 THEN e[i] ELSE f[i - 1] \o e[i]
  BY <1>2
<1> HIDE DEF IsFlat, g
<1>5. \A i \in Nat : i \in 1 .. n => f[i] = Triples(e, i)
  <2> DEFINE T == {i \in Nat : i \in 1 .. n => f[i] = Triples(e, i)}
  <2>1. 0 \in T
    OBVIOUS
  <2>2. ASSUME NEW i \in Nat, i \in T PROVE i + 1 \in T
    <3> SUFFICES ASSUME i + 1 \in 1 .. n PROVE f[i + 1] = Triples(e, i + 1)
      OBVIOUS
    <3>1. CASE i = 0
      <4>1. 1 \in 1 .. n /\ i + 1 = 1
        BY <3>1
      <4>2. f[1] = e[1] /\ Triples(e, 1) = e[1]
        BY <1>0, <1>4, <4>1
      <4> QED BY <4>1, <4>2
    <3>2. CASE i # 0
      <4>1. i \in 1 .. n /\ i + 1 - 1 = i /\ i + 1 > 1 /\ i + 1 # 1
        BY <3>2
      <4>2. f[i] = Triples(e, i)
        BY <2>2, <4>1
      <4> DEFINE j == i + 1
      <4>3. j \in 1 .. n /\ j > 1 /\ j # 1 /\ j - 1 = i
        BY <4>1
      <4> HIDE DEF j
      <4>4. f[j] = f[j - 1] \o e[j]
        BY <1>4, <4>3
      <4>5. Triples(e, j) = Triples(e, j - 1) \o e[j]
        BY <1>0, <4>3
      <4>6. f[j] = Triples(e, j)
        BY <4>2, <4>3, <4>4, <4>5
      <4> QED BY <4>6 DEF j
    <3> QED BY <3>1, <3>2
  <2> HIDE DEF T
  <2>3. \A i \in Nat : i \in T
    BY <2>1, <2>2, SetInduction
  <2> QED BY <2>3 DEF T
<1> QED BY <1>3, <1>5

(* The list the host gets is the table, entry for entry. *)
LEMMA ListedIsTable ==
    ASSUME TableBytes
    PROVE  Listed = FlattenSeq([k \in DOMAIN commands |->
                        <<commands[k].c, commands[k].len, commands[k].flags>>])
<1> DEFINE n == Len(commands)
           e == [k \in DOMAIN commands |->
                   <<commands[k].c, commands[k].len, commands[k].flags>>]
<1>1. n \in Nat /\ DOMAIN commands = 1 .. n
  BY TableSize
<1>2. \A k \in 1 .. n : /\ commands[k].c \in Byte /\ commands[k].len \in Byte
                        /\ commands[k].flags \in Byte
  <2>1. DOMAIN Registered = DOMAIN commands
    BY DEF TableBytes
  <2>2. 0 \in Byte /\ 1 \in Byte
    BY DEF Byte
  <2> QED BY <1>1, <2>1, <2>2 DEF TableBytes
<1>3. \A k \in 1 .. n : /\ e[k] = <<commands[k].c, commands[k].len, commands[k].flags>>
                        /\ e[k] \in Seq(Byte) /\ Len(e[k]) = 3
  BY <1>1, <1>2
<1>4. e = [k \in 1 .. n |-> <<commands[k].c, commands[k].len, commands[k].flags>>]
  BY <1>1
<1> HIDE DEF n, e
<1>5. e \in Seq(Seq(Byte)) /\ Len(e) = n
  <2>1. e \in [1 .. n -> Seq(Byte)]
    BY <1>3, <1>4
  <2> QED BY <1>1, <2>1
<1>6. Listed = Triples(e, n)
  <2>1. ASSUME NEW k \in 1 .. 3 * n
        PROVE  <<commands[(k + 2) \div 3].c, commands[(k + 2) \div 3].len,
                 commands[(k + 2) \div 3].flags>>[((k + 2) % 3) + 1]
                 = e[(k + 2) \div 3][((k + 2) % 3) + 1]
    <3>1. (k + 2) \div 3 \in 1 .. n
      BY <1>1
    <3> QED BY <1>3, <3>1
  <2> QED BY <2>1 DEF Listed, Triples, n
<1>7. CASE n = 0
  <2>1. e = <<>> /\ Triples(e, n) = <<>>
    BY <1>4, <1>7 DEF Triples
  <2>2. FlattenSeq(e) = <<>>
    BY <2>1 DEF FlattenSeq
  <2> QED BY <1>6, <2>1, <2>2 DEF e
<1>8. CASE n > 0
  BY <1>1, <1>3, <1>5, <1>6, <1>8, Flattened DEF e
<1> QED BY <1>1, <1>7, <1>8

(* The list of commands a call of get_simpleserial_commands returns is the    *)
(* table of the target, its length, its order and every byte of it - for any  *)
(* table, whatever an earlier session left on the way, and whichever          *)
(* characters are lost, before or during the call: its two lines and two      *)
(* answers have no checksum, and it is only the place of a newline that gives *)
(* the lost character away.  A flush that comes while the target is still     *)
(* busy voids it.                                                             *)
THEOREM ListIsWhole == Spec => []ListIsTable
<1>1. Init => RanTypes /\ ListInv
  <2> SUFFICES ASSUME Init PROVE RanTypes /\ ListInv
    OBVIOUS
  <2>1. RanTypes
    BY EmptySeq DEF Init, TargetInit, RanTypes
  <2>2. cur.call # "list"
    BY DEF Init, NoRequest
  <2> QED BY <2>1, <2>2 DEF ListInv
<1>2. IInv /\ Types /\ RanTypes /\ ListInv /\ [Next]_vars => RanTypes' /\ ListInv'
  BY ListInductive
<1>3. Types /\ ListInv => ListIsTable
  BY ListedIsTable DEF Types, ListInv, ListIsTable, Idle
<1> QED
  BY Initially, InitialTypes, Inductive, TypesInductive, <1>1, <1>2, <1>3, PTL DEF Spec
=============================================================================
