------------------------- MODULE BootAesCcm_proofs --------------------------
(***************************************************************************)
(* For every block length, image, checksum and tag function, for any bytes *)
(* an earlier upload left and any number of faults: the types, the order   *)
(* of what the MAC absorbs, that zeros bring the bootloader back, and that *)
(* an upload which meets no fault is not refused.                          *)
(***************************************************************************)
EXTENDS BootAesCcm, TLAPS

\* What makes ZerosDrop inductive: the zeros that came last are all in the block
\* being read, or, when there is none, too few to have dropped the upload, or the
\* last of them dropped it.
ZerosInBlock ==
    /\ frame # 0 => zeros <= Len(buf)
    /\ frame = 0 /\ zeros > BlockLen + 2 =>
         bootloader_valid = 0 /\ expected_blocklen = 0 /\ aes_ctr_temp = 0

\* A block is read only in its turn.
InTurn == frame # 0 => bootloader_valid = frame - 1

Inv == TypeOK /\ BlocksInOrder /\ ZerosInBlock /\ InTurn

-----------------------------------------------------------------------------
\* The length of a header block is a number of two bytes.
LEMMA LengthNat ==
    ASSUME NEW block \in Seq(Byte), Len(block) = BlockLen
    PROVE  Length(block) \in Nat
<1>1. BlockLen \in Nat /\ BlockLen >= 2
  BY BlockLenAssumption
<1>2. block[BlockLen - 1] \in Byte /\ block[BlockLen] \in Byte
  <2>1. BlockLen - 1 \in 1 .. Len(block) /\ BlockLen \in 1 .. Len(block)
    BY <1>1
  <2>2. QED
    BY <2>1
<1>3. Byte \subseteq Nat
  BY DEF Byte
<1>4. \A a, b \in Nat : 256 * a + b \in Nat
  OBVIOUS
<1>5. QED
  BY <1>2, <1>3, <1>4 DEF Length

\* What read_block leaves of its bytes is a block.
LEMMA BlockOf ==
    ASSUME NEW full \in Seq(Byte), Len(full) = BlockLen + 2
    PROVE  /\ SubSeq(full, 1, BlockLen) \in Seq(Byte)
           /\ Len(SubSeq(full, 1, BlockLen)) = BlockLen
           /\ SubSeq(full, 1, BlockLen) # <<>>
BY BlockLenAssumption

\* A block that was absorbed is not the seal.
LEMMA NotSealed ==
    ASSUME NEW n, NEW block \in Seq(Byte), Len(block) = BlockLen
    PROVE  Absorbed(n, block) # Sealed
<1>1. block # <<>>
  BY BlockLenAssumption
<1>2. Absorbed(n, block).block # Sealed.block
  BY <1>1 DEF Absorbed, Sealed
<1>3. QED
  BY <1>2

\* The two bytes of a number.
LEMMA TwoBytes ==
    ASSUME NEW x \in Nat, x < 65536
    PROVE  x \div 256 \in Byte /\ x % 256 \in Byte
<1>1. x \div 256 \in 0 .. 255
  OBVIOUS
<1>2. x % 256 \in 0 .. 255
  OBVIOUS
<1>3. QED
  BY <1>1, <1>2 DEF Byte

\* The frames of the host are bytes.
LEMMA FramesAreBytes ==
    \A k \in 1 .. Len(Image) + 2 : Frames[k] \in Seq(Byte)
<1>1. Block \subseteq Seq(Byte)
  BY BlockLenAssumption DEF Block
<1>2. ASSUME NEW type \in Byte, NEW block \in Block
      PROVE  Frame(type, block) \in Seq(Byte)
  <2>1. Crc(block) \in Nat /\ Crc(block) < 65536
    BY CrcAssumption
  <2>2. Crc(block) \div 256 \in Byte /\ Crc(block) % 256 \in Byte
    BY <2>1, TwoBytes
  <2>3. block \in Seq(Byte)
    BY <1>1
  <2>4. QED
    BY <2>2, <2>3 DEF Frame
<1>3. Image \in Seq(Block) /\ Len(Image) \in Nat /\ Len(Image) >= 1 /\ Len(Image) <= MaxBlocks
  BY ImageAssumption, MaxBlocksAssumption
<1>4. Header \in Block
  <2>0. Len(Image) \in Nat /\ Len(Image) < 65536
    BY <1>3, MaxBlocksAssumption
  <2>1. Len(Image) % 256 \in Byte /\ Len(Image) \div 256 \in Byte
    BY <2>0, TwoBytes
  <2>2. QED
    BY <2>1 DEF Header, Block, Byte
<1>5. QED
  <2>1. SUFFICES ASSUME NEW k \in 1 .. Len(Image) + 2
                 PROVE  Frames[k] \in Seq(Byte)
    OBVIOUS
  <2> DEFINE Rest == [j \in DOMAIN Image |-> Frame(3, Image[j])]
             Two == <<Frame(1, Header), Frame(2, Tag(Whole))>>
  <2>2. \A j \in DOMAIN Image : Image[j] \in Block
    BY <1>3
  <2>3. 1 \in Byte /\ 2 \in Byte /\ 3 \in Byte
    BY DEF Byte
  <2>4. Rest \in Seq(Seq(Byte)) /\ Len(Rest) = Len(Image)
    <3>1. DOMAIN Image = 1 .. Len(Image) /\ Len(Image) \in Nat
      BY <1>3
    <3>2. \A j \in 1 .. Len(Image) : Frame(3, Image[j]) \in Seq(Byte)
      BY <1>2, <2>2, <2>3, <3>1
    <3>3. QED
      BY <3>1, <3>2
  <2>5. Two \in Seq(Seq(Byte)) /\ Len(Two) = 2
    <3>1. Frame(1, Header) \in Seq(Byte) /\ Frame(2, Tag(Whole)) \in Seq(Byte)
      BY <1>2, <1>4, <2>3, TagAssumption
    <3>2. QED
      BY <3>1
  <2>6. Two \o Rest \in Seq(Seq(Byte)) /\ Len(Two \o Rest) = Len(Image) + 2
    <3>1. ASSUME NEW T, NEW a \in Seq(T), NEW b \in Seq(T)
          PROVE  a \o b \in Seq(T) /\ Len(a \o b) = Len(a) + Len(b)
      OBVIOUS
    <3> HIDE DEF Two, Rest
    <3>2. Two \o Rest \in Seq(Seq(Byte)) /\ Len(Two \o Rest) = Len(Two) + Len(Rest)
      BY <3>1, <2>4, <2>5
    <3>3. QED
      BY <3>2, <2>4, <2>5, <1>3
  <2>7. Frames = Two \o Rest
    BY DEF Frames
  <2>8. QED
    <3> HIDE DEF Two, Rest
    <3> QED
      BY <2>6, <2>7, <1>3

-----------------------------------------------------------------------------
\* The bootloader starts with no frame, no upload and no zeros.
LEMMA InitInv == Init => Inv
<1> SUFFICES ASSUME Init
             PROVE  Inv
  OBVIOUS
<1>1. toBoot \in Seq(Byte)
  BY LeftoversAssumption DEF Init
<1>2. Len(Image) \in Nat /\ 1 \in 1 .. Len(Image) + 2
  BY ImageAssumption
<1>3. TypeOK
  <2>1. <<>> \in Seq([n : Nat, block : Seq(Byte)]) /\ <<>> \in Seq(Byte)
    OBVIOUS
  <2>2. /\ 0 \in 0 .. MaxBlocks /\ 0 \in 0 .. CounterMod - 1 /\ 0 \in 0 .. MaxFaults
        /\ Len(<<>>) < BlockLen + 2
    BY BlockLenAssumption, MaxBlocksAssumption, MaxFaultsAssumption
  <2>3. clean \in BOOLEAN
    BY DEF Init
  <2>4. QED
    BY <1>1, <1>2, <2>1, <2>2, <2>3 DEF Init, TypeOK
<1>4. BlocksInOrder
  BY DEF Init, BlocksInOrder
<1>5. ZerosInBlock
  BY BlockLenAssumption DEF Init, ZerosInBlock
<1>6. InTurn
  BY DEF Init, InTurn
<1>7. QED
  BY <1>3, <1>4, <1>5, <1>6 DEF Inv

\* What the bootloader keeps when it does not move.
LEMMA BootKeeps ==
    ASSUME Inv, UNCHANGED bootVars,
           toBoot' \in Seq(Byte), toHost' \in Seq(Byte),
           hpc' \in {"resync", "flush", "send", "wait", "verdict", "done"},
           at' \in 1 .. Len(Image) + 2, clean' \in BOOLEAN, faults' \in 0 .. MaxFaults
    PROVE  Inv'
BY DEF Inv, TypeOK, BlocksInOrder, ZerosInBlock, InTurn, Open, bootVars, authVars

\* The steps of the host and of the line leave the bootloader alone and put
\* bytes on the line.
LEMMA HostStep == Inv /\ Host => Inv'
<1> SUFFICES ASSUME Inv, Host
             PROVE  Inv'
  OBVIOUS
<1> USE DEF Inv, TypeOK
<1>0. Len(Image) \in Nat /\ Len(Frames) = Len(Image) + 2
  <2>1. Len(Image) \in Nat
    BY ImageAssumption
  <2>2. QED
    BY <2>1 DEF Frames
<1>1. CASE Resync
  <2>1. Zeros \in Seq(Byte)
    BY BlockLenAssumption DEF Zeros, Byte
  <2>2. QED
    BY <1>1, <2>1, BootKeeps DEF Resync
<1>2. CASE Flush
  BY <1>2, <1>0, BootKeeps DEF Flush
<1>3. CASE Send
  BY <1>3, FramesAreBytes, BootKeeps DEF Send
<1>4. CASE Reply
  BY <1>4, <1>0, BootKeeps DEF Reply
<1>5. CASE Verdict
  BY <1>5, BootKeeps DEF Verdict
<1>6. CASE Timeout
  BY <1>6, BootKeeps DEF Timeout
<1>7. QED
  BY <1>1, <1>2, <1>3, <1>4, <1>5, <1>6 DEF Host

\* A fault touches the line and the host only.
LEMMA FaultStep == Inv /\ Fault => Inv'
<1> SUFFICES ASSUME Inv, Fault
             PROVE  Inv'
  OBVIOUS
<1> USE DEF Inv, TypeOK
<1>1. UNCHANGED bootVars /\ clean' \in BOOLEAN /\ faults' \in 0 .. MaxFaults
  <2>1. clean' \in BOOLEAN
    BY DEF Fault
  <2>2. faults' \in 0 .. MaxFaults
    BY MaxFaultsAssumption DEF Fault
  <2>3. QED
    BY <2>1, <2>2 DEF Fault
<1>2. CASE LoseToBoot
  BY <1>1, <1>2, BootKeeps DEF LoseToBoot, hostVars
<1>3. CASE GarbleToBoot
  <2>1. toBoot' \in Seq(Byte)
    BY <1>3, NoiseAssumption DEF GarbleToBoot
  <2>2. QED
    BY <1>1, <1>3, <2>1, BootKeeps DEF GarbleToBoot, hostVars
<1>4. CASE LoseToHost
  BY <1>1, <1>4, BootKeeps DEF LoseToHost, hostVars
<1>5. CASE Restart
  BY <1>1, <1>5, BootKeeps DEF Restart
<1>6. QED
  BY <1>2, <1>3, <1>4, <1>5 DEF Fault

-----------------------------------------------------------------------------
\* What every getch leaves alone or changes harmlessly.
Around ==
    /\ toBoot' \in Seq(Byte) /\ toHost' \in Seq(Byte)
    /\ UNCHANGED <<hostVars, clean, faults>>

\* The type of a frame: a new block, or everything dropped.
LEMMA TypeStep ==
    ASSUME Inv, frame = 0, Around, NEW c \in Byte, Type(c),
           zeros' = IF c = 0 THEN zeros + 1 ELSE 0
    PROVE  Inv'
<1>0. frame' \in 0 .. 3 /\ buf' = buf /\ buf = <<>> /\ zeros' \in Nat
  BY DEF Type, Drop, Inv, TypeOK, Byte
<1>1. CASE c = 1
  <2>1. TypeOK'
    BY <1>0, <1>1 DEF Type, Drop, Inv, TypeOK, Around, hostVars, authVars
  <2>2. BlocksInOrder'
    BY <1>1 DEF Type, Drop, Inv, BlocksInOrder, Open, authVars
  <2>3. ZerosInBlock'
    BY <1>0, <1>1 DEF Type, Drop, ZerosInBlock
  <2>4. InTurn'
    BY <1>1 DEF Type, InTurn
  <2>5. QED
    BY <2>1, <2>2, <2>3, <2>4 DEF Inv
<1>2. CASE c \in {2, 3}
  <2>1. TypeOK'
    BY <1>0, <1>2 DEF Type, Drop, Inv, TypeOK, Around, hostVars, authVars
  <2>2. BlocksInOrder'
    BY <1>2 DEF Type, Drop, Inv, BlocksInOrder, Open, authVars
  <2>3. zeros' = 0 /\ Len(buf') = 0
    BY <1>0, <1>2
  <2>4. ZerosInBlock'
    BY <2>3, BlockLenAssumption DEF ZerosInBlock
  <2>5. InTurn'
    BY <1>2 DEF Type, InTurn, Inv, TypeOK
  <2>6. QED
    BY <2>1, <2>2, <2>4, <2>5 DEF Inv
<1>3. CASE c \notin {1, 2, 3}
  <2>0. Drop
    BY <1>3 DEF Type
  <2>1. TypeOK'
    BY <1>0, <2>0, MaxBlocksAssumption DEF Drop, Inv, TypeOK, Around, hostVars
  <2>2. BlocksInOrder'
    BY <2>0 DEF Drop, BlocksInOrder
  <2>3. ZerosInBlock'
    BY <2>0 DEF Drop, ZerosInBlock
  <2>4. InTurn'
    BY <2>0 DEF Drop, InTurn
  <2>5. QED
    BY <2>1, <2>2, <2>3, <2>4 DEF Inv
<1>4. QED
  BY <1>1, <1>2, <1>3

\* A byte of read_block that is not its last.
LEMMA ReadStep ==
    ASSUME Inv, frame # 0, Around, NEW c \in Byte, Len(buf) < BlockLen + 1, BlockByte(c),
           zeros' = IF c = 0 THEN zeros + 1 ELSE 0
    PROVE  Inv'
<1>1. /\ buf' = Append(buf, c)
      /\ UNCHANGED <<frame, bootloader_valid, authVars>>
  BY DEF BlockByte
<1>2. buf' \in Seq(Byte) /\ Len(buf') = Len(buf) + 1 /\ Len(buf) \in Nat /\ zeros' \in Nat
  BY <1>1 DEF Inv, TypeOK
<1>3. TypeOK'
  BY <1>1, <1>2, BlockLenAssumption DEF Inv, TypeOK, Around, hostVars, authVars
<1>4. BlocksInOrder'
  BY <1>1 DEF Inv, BlocksInOrder, Open, authVars
<1>5. ZerosInBlock'
  BY <1>1, <1>2 DEF Inv, TypeOK, ZerosInBlock
<1>6. InTurn'
  BY <1>1 DEF Inv, InTurn
<1>7. QED
  BY <1>3, <1>4, <1>5, <1>6 DEF Inv

\* What the end of a block does whatever the block is: its frame is over, and
\* the zeros read last do not reach back before it.
Ended ==
    /\ frame' = 0 /\ buf' = <<>>
    /\ zeros' \in Nat /\ zeros' <= BlockLen + 2

\* The end of a block leaves no block for zeros to be in.
LEMMA EndedZeros == ASSUME Ended PROVE ZerosInBlock' /\ InTurn'
BY BlockLenAssumption DEF Ended, ZerosInBlock, InTurn

\* A header begins the MAC anew.
LEMMA HeaderStep ==
    ASSUME Inv, frame = 1, Around, Ended,
           NEW block \in Seq(Byte), Len(block) = BlockLen, HeaderBlock(block)
    PROVE  Inv'
<1>0. Length(block) \in Nat
  BY LengthNat
<1>1. CASE Length(block) > MaxBlocks
  <2>1. bootloader_valid' = 0 /\ expected_blocklen' = 0
    BY <1>1 DEF HeaderBlock, Inv, InTurn
  <2>2. TypeOK'
    BY <1>1, <2>1, MaxBlocksAssumption, BlockLenAssumption
       DEF HeaderBlock, Inv, TypeOK, Around, Ended, hostVars
  <2>3. BlocksInOrder'
    BY <2>1 DEF BlocksInOrder
  <2>4. QED
    BY <2>2, <2>3, EndedZeros DEF Inv
<1>2. CASE ~(Length(block) > MaxBlocks)
  <2>1. /\ bootloader_valid' = 1
        /\ expected_blocklen' = Length(block)
        /\ state_authtag' = <<Absorbed(0, block)>>
        /\ UNCHANGED <<encrypted_authtag, aes_ctr_temp>>
    BY <1>2 DEF HeaderBlock
  <2>2. Length(block) \in 0 .. MaxBlocks
    BY <1>0, <1>2, MaxBlocksAssumption
  <2>3. state_authtag' \in Seq([n : Nat, block : Seq(Byte)])
    BY <2>1 DEF Absorbed
  <2>4. TypeOK'
    BY <2>1, <2>2, <2>3, BlockLenAssumption DEF Inv, TypeOK, Around, Ended, hostVars
  <2>5. BlocksInOrder'
    BY <2>1 DEF BlocksInOrder, Absorbed
  <2>6. QED
    BY <2>4, <2>5, EndedZeros DEF Inv
<1>3. QED
  BY <1>1, <1>2

\* A tag restarts the counter under a header that has absorbed no block.
LEMMA TagStep ==
    ASSUME Inv, frame = 2, Around, Ended,
           NEW block \in Seq(Byte), Len(block) = BlockLen, TagBlock(block)
    PROVE  Inv'
<1>1. TypeOK'
  BY MaxBlocksAssumption, BlockLenAssumption
     DEF TagBlock, Inv, TypeOK, Around, Ended, hostVars
<1>2. bootloader_valid = 1
  BY DEF Inv, InTurn
<1>3. Len(state_authtag) = 1 /\ state_authtag # <<>>
      /\ expected_blocklen = Length(state_authtag[1].block)
  BY <1>2 DEF Inv, BlocksInOrder
<1>4. expected_blocklen \in Nat
  BY MaxBlocksAssumption DEF Inv, TypeOK
<1>5. BlocksInOrder'
  BY <1>3, <1>4 DEF TagBlock, BlocksInOrder
<1>6. QED
  BY <1>1, <1>5, EndedZeros DEF Inv

\* A tag with a bad checksum invalidates the header.
LEMMA BadTagStep ==
    ASSUME Inv, frame = 2, Around, Ended,
           NEW block \in Seq(Byte), Len(block) = BlockLen, BadTag(block)
    PROVE  Inv'
<1>1. TypeOK'
  BY MaxBlocksAssumption, BlockLenAssumption
     DEF BadTag, Inv, TypeOK, Around, Ended, hostVars
<1>2. BlocksInOrder'
  BY DEF BadTag, Inv, BlocksInOrder, Open
<1>3. QED
  BY <1>1, <1>2, EndedZeros DEF Inv

\* A bad checksum changes nothing that has been absorbed.
LEMMA BadStep ==
    ASSUME Inv, frame # 0, Around, Ended, Bad, frame # 2 /\ UNCHANGED bootloader_valid
    PROVE  Inv'
<1>1. UNCHANGED authVars
  BY DEF Bad
<1>2. TypeOK'
  BY <1>1, BlockLenAssumption DEF Inv, TypeOK, Around, Ended, hostVars, authVars
<1>3. BlocksInOrder'
  BY <1>1 DEF Inv, BlocksInOrder, Open, authVars
<1>4. QED
  BY <1>2, <1>3, EndedZeros DEF Inv

\* The next value of a counter of m values.
LEMMA NextCount ==
    ASSUME NEW m \in Nat, NEW x \in 0 .. m - 1
    PROVE  (x + 1) % m = IF x + 1 = m THEN 0 ELSE x + 1
<1>1. m > 0 /\ x \in Nat /\ x + 1 <= m
  OBVIOUS
<1>2. CASE x + 1 = m
  BY <1>1, <1>2
<1>3. CASE x + 1 < m
  BY <1>1, <1>3
<1>4. QED
  BY <1>1, <1>2, <1>3

\* What Append does to a sequence.
LEMMA AppendFacts ==
    ASSUME NEW T, NEW s \in Seq(T), NEW e \in T
    PROVE  /\ Append(s, e) \in Seq(T)
           /\ Len(Append(s, e)) = Len(s) + 1
           /\ \A k \in 1 .. Len(s) : Append(s, e)[k] = s[k]
           /\ Append(s, e)[Len(s) + 1] = e
OBVIOUS

\* A data block is absorbed and counted, up to the announced length.
LEMMA DataStep ==
    ASSUME Inv, frame = 3, Around, Ended,
           NEW block \in Seq(Byte), Len(block) = BlockLen, DataBlock(block),
           UNCHANGED bootloader_valid
    PROVE  Inv'
<1> DEFINE n == (aes_ctr_temp + 1) % CounterMod
           entry == Absorbed(n, block)
           absorbed == Append(state_authtag, entry)
<1>0. /\ bootloader_valid = 2
      /\ state_authtag # <<>>
      /\ expected_blocklen = Length(state_authtag[1].block)
  BY DEF Inv, InTurn, BlocksInOrder
<1>1. /\ CounterMod \in Nat
      /\ aes_ctr_temp \in 0 .. CounterMod - 1
      /\ expected_blocklen \in 0 .. MaxBlocks
      /\ MaxBlocks \in Nat /\ MaxBlocks < CounterMod
      /\ state_authtag \in Seq([n : Nat, block : Seq(Byte)])
  BY MaxBlocksAssumption DEF Inv, TypeOK
<1>2. n = IF aes_ctr_temp + 1 = CounterMod THEN 0 ELSE aes_ctr_temp + 1
  BY <1>1, NextCount
<1>3. n \in 0 .. CounterMod - 1 /\ n \in Nat
  BY <1>1, <1>2
<1>4. entry \in [n : Nat, block : Seq(Byte)] /\ entry.n = n /\ entry # Sealed
  BY <1>3, NotSealed DEF Absorbed
<1>5. Sealed \in [n : Nat, block : Seq(Byte)]
  BY DEF Sealed, Absorbed
<1>6. /\ aes_ctr_temp' = n
      /\ state_authtag' = IF n = expected_blocklen THEN Append(absorbed, Sealed)
                                                   ELSE absorbed
      /\ UNCHANGED <<bootloader_valid, expected_blocklen, encrypted_authtag>>
  BY DEF DataBlock
<1> HIDE DEF n, entry
<1>7. /\ absorbed \in Seq([n : Nat, block : Seq(Byte)])
      /\ Len(absorbed) = Len(state_authtag) + 1 /\ Len(state_authtag) \in Nat
      /\ \A k \in 1 .. Len(state_authtag) : absorbed[k] = state_authtag[k]
      /\ absorbed[Len(state_authtag) + 1] = entry
  BY <1>1, <1>4, AppendFacts
<1> HIDE DEF absorbed
<1>8. state_authtag' \in Seq([n : Nat, block : Seq(Byte)])
  <2>1. Append(absorbed, Sealed) \in Seq([n : Nat, block : Seq(Byte)])
    BY <1>5, <1>7, AppendFacts
  <2>2. QED
    BY <1>6, <1>7, <2>1
<1>9. TypeOK'
  BY <1>3, <1>6, <1>8, BlockLenAssumption DEF Inv, TypeOK, Around, Ended, hostVars
<1>10. /\ state_authtag' # <<>>
       /\ state_authtag'[1] = state_authtag[1]
  <2>1. Len(state_authtag) >= 1
    BY <1>0, <1>1
  <2>2. absorbed # <<>> /\ absorbed[1] = state_authtag[1]
    BY <1>7, <2>1
  <2>3. Append(absorbed, Sealed) # <<>> /\ Append(absorbed, Sealed)[1] = absorbed[1]
    <3>1. Len(absorbed) >= 1
      BY <1>7, <2>1
    <3>2. 1 \in 1 .. Len(absorbed) /\ Len(Append(absorbed, Sealed)) = Len(absorbed) + 1
      BY <1>5, <1>7, <3>1, AppendFacts
    <3>3. Append(absorbed, Sealed)[1] = absorbed[1]
      BY <1>5, <1>7, <3>2, AppendFacts
    <3>4. QED
      BY <1>7, <3>2, <3>3
  <2>4. QED
    BY <1>6, <2>2, <2>3
<1>11. CASE n = expected_blocklen
  <2>1. state_authtag' = Append(absorbed, Sealed)
    BY <1>6, <1>11
  <2>2. /\ Len(absorbed) + 1 \in DOMAIN state_authtag'
        /\ state_authtag'[Len(absorbed) + 1] = Sealed
    BY <2>1, <1>7
  <2>3. ~Open'
    BY <2>2 DEF Open
  <2>4. BlocksInOrder'
    BY <1>0, <1>6, <1>10, <2>3 DEF BlocksInOrder
  <2>5. QED
    BY <1>9, <2>4, EndedZeros DEF Inv
<1>12. CASE n # expected_blocklen
  <2>1. state_authtag' = absorbed
    BY <1>6, <1>12
  <2>2. ASSUME Open'
        PROVE  Open
    <3>1. SUFFICES ASSUME NEW k \in DOMAIN state_authtag
                   PROVE  state_authtag[k] # Sealed
      BY DEF Open
    <3>2. k \in 1 .. Len(state_authtag)
      BY <1>1
    <3>3. k \in DOMAIN state_authtag' /\ state_authtag'[k] = state_authtag[k]
      BY <1>7, <2>1, <3>2
    <3>4. QED
      BY <2>2, <3>3 DEF Open
  <2>3. ASSUME Open'
        PROVE  /\ Len(state_authtag) = aes_ctr_temp + 1
               /\ \A k \in 2 .. Len(state_authtag) : state_authtag[k].n = k - 1
               /\ expected_blocklen # 0 => aes_ctr_temp < expected_blocklen
    BY <2>2, <2>3, <1>0 DEF Inv, BlocksInOrder
  <2>4. ASSUME Open'
        PROVE  n = aes_ctr_temp + 1
    BY <2>3, <2>4, <1>1, <1>2, <1>12
  <2>5. ASSUME Open'
        PROVE  /\ Len(state_authtag') = aes_ctr_temp' + 1
               /\ \A k \in 2 .. Len(state_authtag') : state_authtag'[k].n = k - 1
               /\ expected_blocklen' # 0 => aes_ctr_temp' < expected_blocklen'
    <3>1. Len(state_authtag') = aes_ctr_temp' + 1
      BY <2>1, <2>3, <2>4, <2>5, <1>6, <1>7
    <3>2. \A k \in 2 .. Len(state_authtag') : state_authtag'[k].n = k - 1
      <4>1. SUFFICES ASSUME NEW k \in 2 .. Len(state_authtag) + 1
                     PROVE  absorbed[k].n = k - 1
        BY <1>7, <2>1
      <4>2. CASE k \in 2 .. Len(state_authtag)
        <5>1. absorbed[k] = state_authtag[k]
          BY <1>7, <4>2
        <5>2. state_authtag[k].n = k - 1
          BY <2>3, <2>5, <4>2
        <5>3. QED
          BY <5>1, <5>2
      <4>3. CASE k = Len(state_authtag) + 1
        BY <1>1, <1>4, <1>7, <2>3, <2>4, <2>5, <4>3
      <4>4. QED
        BY <1>7, <4>2, <4>3
    <3>3. expected_blocklen' # 0 => aes_ctr_temp' < expected_blocklen'
      BY <2>3, <2>4, <2>5, <1>1, <1>6, <1>12
    <3>4. QED
      BY <3>1, <3>2, <3>3
  <2>6. BlocksInOrder'
    BY <1>0, <1>6, <1>10, <2>5 DEF BlocksInOrder
  <2>7. QED
    BY <1>9, <2>6, EndedZeros DEF Inv
<1>13. QED
  BY <1>11, <1>12

\* One byte keeps the invariant, whatever it is and wherever it comes.
LEMMA GetchStep == Inv /\ Getch => Inv'
<1> SUFFICES ASSUME Inv, Getch
             PROVE  Inv'
  OBVIOUS
<1> DEFINE c == Head(toBoot)
           full == Append(buf, c)
           block == SubSeq(full, 1, BlockLen)
<1>1. c \in Byte /\ toBoot' \in Seq(Byte)
  BY DEF Getch, Inv, TypeOK
<1>2. /\ zeros' = IF c = 0 THEN zeros + 1 ELSE 0
      /\ UNCHANGED <<hostVars, clean, faults>>
  BY DEF Getch
<1>3. buf \in Seq(Byte) /\ Len(buf) \in Nat /\ Len(buf) < BlockLen + 2
      /\ frame \in 0 .. 3 /\ zeros \in Nat /\ toHost \in Seq(Byte)
  BY DEF Inv, TypeOK
<1>4. CASE frame = 0
  <2>1. Type(c) /\ UNCHANGED toHost
    BY <1>4 DEF Getch
  <2>2. Around
    BY <1>1, <1>2, <1>3, <2>1 DEF Around
  <2>3. QED
    BY <1>1, <1>2, <1>4, <2>1, <2>2, TypeStep
<1>5. CASE frame # 0 /\ Len(buf) < BlockLen + 1
  <2>1. BlockByte(c) /\ UNCHANGED toHost
    BY <1>5 DEF Getch, BlockByte
  <2>2. Around
    BY <1>1, <1>2, <1>3, <2>1 DEF Around
  <2>3. QED
    BY <1>1, <1>2, <1>5, <2>1, <2>2, ReadStep
<1>6. CASE frame # 0 /\ ~(Len(buf) < BlockLen + 1)
  <2>1. EndBlock(full)
    BY <1>6 DEF Getch, BlockByte
  <2>2. full \in Seq(Byte) /\ Len(full) = BlockLen + 2
    BY <1>1, <1>3, <1>6, BlockLenAssumption
  <2>3. block \in Seq(Byte) /\ Len(block) = BlockLen
    BY <2>2, BlockOf
  <2>4. zeros' \in Nat /\ zeros' <= BlockLen + 2
    BY <1>2, <1>3, <1>6, BlockLenAssumption DEF Inv, ZerosInBlock
  <2>5. Ended
    BY <2>1, <2>4 DEF EndBlock, Ended
  <2>6. ASSUME NEW s \in Seq(Byte), Put(s)
        PROVE  Around
    BY <1>1, <1>2, <1>3, <2>6 DEF Put, Around
  <2>0. /\ <<COMM_OK>> \in Seq(Byte) /\ <<COMM_BADCHECKSUM>> \in Seq(Byte)
        /\ <<COMM_OK>> \o <<>> \in Seq(Byte)
        /\ <<COMM_OK>> \o <<COMM_OKSIG>> \in Seq(Byte)
        /\ <<COMM_OK>> \o <<COMM_BADSIG>> \in Seq(Byte)
    BY DEF COMM_OK, COMM_OKSIG, COMM_BADSIG, COMM_BADCHECKSUM, Byte
  <2> HIDE DEF full, block, c
  <2>7. \/ frame = 1 /\ HeaderBlock(block)
        \/ frame = 2 /\ TagBlock(block)
        \/ frame = 3 /\ DataBlock(block) /\ UNCHANGED bootloader_valid
        \/ frame = 2 /\ BadTag(block)
        \/ frame # 2 /\ Bad /\ UNCHANGED bootloader_valid
    BY <2>1 DEF EndBlock, DataBlock, block
  <2>8. CASE frame = 1 /\ HeaderBlock(block)
    <3>1. Around
      BY <2>0, <2>6, <2>8 DEF HeaderBlock
    <3>2. QED
      BY <3>1, <2>3, <2>5, <2>8, HeaderStep
  <2>9. CASE frame = 2 /\ TagBlock(block)
    <3>1. Around
      BY <2>0, <2>6, <2>9 DEF TagBlock
    <3>2. QED
      BY <3>1, <2>3, <2>5, <2>9, TagStep
  <2>10. CASE frame = 3 /\ DataBlock(block) /\ UNCHANGED bootloader_valid
    <3>1. Around
      BY <2>0, <2>6, <2>10 DEF DataBlock
    <3>2. QED
      BY <3>1, <2>3, <2>5, <2>10, DataStep
  <2>13. CASE frame = 2 /\ BadTag(block)
    <3>1. Around
      BY <2>0, <2>6, <2>13 DEF BadTag
    <3>2. QED
      BY <3>1, <2>3, <2>5, <2>13, BadTagStep
  <2>11. CASE frame # 2 /\ Bad /\ UNCHANGED bootloader_valid
    <3>1. Around
      BY <2>0, <2>6, <2>11 DEF Bad
    <3>2. QED
      BY <3>1, <1>6, <2>5, <2>11, BadStep
  <2>12. QED
    BY <2>7, <2>8, <2>9, <2>10, <2>11, <2>13
<1>7. QED
  BY <1>4, <1>5, <1>6

-----------------------------------------------------------------------------
\* So does every step.
LEMMA NextKeepsInv == Inv /\ [Next]_vars => Inv'
<1> SUFFICES ASSUME Inv, [Next]_vars
             PROVE  Inv'
  OBVIOUS
<1>1. CASE Getch
  BY <1>1, GetchStep
<1>2. CASE Host
  BY <1>2, HostStep
<1>3. CASE Fault
  BY <1>3, FaultStep
<1>4. CASE UNCHANGED vars
  BY <1>4, BootKeeps DEF vars, hostVars, Inv, TypeOK
<1>5. QED
  BY <1>1, <1>2, <1>3, <1>4 DEF Next, Done

\* The strengthened invariant holds throughout.
LEMMA Invariance == Spec => []Inv
BY InitInv, NextKeepsInv, PTL DEF Spec

\* The types of the bootloader and its host; no block overruns its buffer, and
\* the length in force is never above the limit.
THEOREM Types == Spec => []TypeOK
<1>1. Inv => TypeOK
  BY DEF Inv
<1>2. QED
  BY <1>1, Invariance, PTL

\* Whatever the bytes, however often the counter wraps: a MAC that is not sealed
\* yet has absorbed the header in force and the blocks counted since, in order.
THEOREM MacInOrder == Spec => []BlocksInOrder
<1>1. Inv => BlocksInOrder
  BY DEF Inv
<1>2. QED
  BY <1>1, Invariance, PTL

\* BlockLen + 3 zeros bring the bootloader to the start of an upload, from
\* wherever it was.
THEOREM ZerosBringBack == Spec => []ZerosDrop
<1>1. Inv => ZerosDrop
  BY BlockLenAssumption DEF Inv, TypeOK, ZerosInBlock, ZerosDrop
<1>2. QED
  BY <1>1, Invariance, PTL
-----------------------------------------------------------------------------
\* The frame type the host sends at a, and the block it sends with it.
Kind(a) == IF a <= 2 THEN a ELSE 3
Content(a) == IF a = 1 THEN Header ELSE IF a = 2 THEN Tag(Whole) ELSE Image[a - 2]
FrameLen == BlockLen + 3
LastAt == Len(Image) + 2

\* The zeros of a resync: those still to come and those read are enough.
Sweeping ==
    /\ \A k \in 1 .. Len(toBoot) : k > Len(toBoot) - FrameLen => toBoot[k] = 0
    /\ zeros + Len(toBoot) >= FrameLen

\* The bootloader has taken the frames before a, and none other.
Ready(a) ==
    /\ a >= 2 =>
         /\ expected_blocklen = Len(Image)
         /\ Len(state_authtag) = (IF a = 2 THEN 1 ELSE a - 2)
         /\ \A k \in 1 .. Len(state_authtag) : state_authtag[k] = Whole[k]
    /\ a = 2 => bootloader_valid = 1
    /\ a > 2 =>
         /\ bootloader_valid = 2
         /\ encrypted_authtag = Tag(Whole)
         /\ aes_ctr_temp = a - 3

\* Frame a is on its way: the bootloader has the bytes that are not on the line.
Underway(a) ==
    /\ toHost = <<>>
    /\ Len(toBoot) \in 1 .. FrameLen
    /\ \A k \in 1 .. Len(toBoot) : toBoot[k] = Frames[a][FrameLen - Len(toBoot) + k]
    /\ IF Len(toBoot) = FrameLen THEN frame = 0
       ELSE /\ frame = Kind(a)
            /\ Len(buf) = FrameLen - 1 - Len(toBoot)
            /\ \A k \in 1 .. Len(buf) : buf[k] = Frames[a][k + 1]

\* Frame a has been taken; the last one brings the verdict, too.
Taken(a) ==
    /\ toBoot = <<>> /\ frame = 0
    /\ IF a < LastAt THEN toHost = <<COMM_OK>> /\ Ready(a + 1)
       ELSE toHost = <<COMM_OK, COMM_OKSIG>>

\* What holds as long as no fault meets the upload.
Smooth ==
    clean =>
        /\ hpc # "resync"
        /\ hpc = "flush" => Sweeping
        /\ hpc = "send" => toBoot = <<>> /\ toHost = <<>> /\ frame = 0 /\ Ready(at)
        /\ hpc = "wait" => (Underway(at) /\ Ready(at)) \/ Taken(at)
        /\ hpc = "verdict" => toBoot = <<>> /\ toHost = <<COMM_OKSIG>>

-----------------------------------------------------------------------------
\* The constants as numbers.
LEMMA Sizes ==
    /\ BlockLen \in Nat /\ BlockLen >= 2 /\ FrameLen = BlockLen + 3 /\ FrameLen \in Nat
    /\ Len(Image) \in Nat /\ Len(Image) >= 1 /\ Len(Image) <= MaxBlocks
    /\ MaxBlocks \in Nat /\ MaxBlocks < 65536 /\ CounterMod \in Nat /\ MaxBlocks < CounterMod
    /\ LastAt = Len(Image) + 2
BY BlockLenAssumption, ImageAssumption, MaxBlocksAssumption DEF FrameLen, LastAt

\* A block is a sequence of BlockLen bytes.
LEMMA BlockIsSeq ==
    ASSUME NEW block \in Block
    PROVE  /\ block \in Seq(Byte) /\ Len(block) = BlockLen
           /\ \A k \in 1 .. BlockLen : block[k] \in Byte
BY BlockLenAssumption DEF Block

\* What one sequence after another is.
LEMMA ConcatFacts ==
    ASSUME NEW T, NEW s \in Seq(T), NEW t \in Seq(T)
    PROVE  /\ s \o t \in Seq(T)
           /\ Len(s \o t) = Len(s) + Len(t)
           /\ \A k \in 1 .. Len(s) + Len(t) :
                 (s \o t)[k] = IF k <= Len(s) THEN s[k] ELSE t[k - Len(s)]
OBVIOUS

\* The header is a block, and it announces the image.
LEMMA HeaderAnnounces == Header \in Block /\ Length(Header) = Len(Image)
<1>1. Len(Image) \in Nat /\ Len(Image) < 65536 /\ BlockLen \in Nat /\ BlockLen >= 2
  BY Sizes
<1>2. Len(Image) % 256 \in Byte /\ Len(Image) \div 256 \in Byte
  BY <1>1, TwoBytes
<1>3. Header \in Block
  BY <1>2 DEF Header, Block, Byte
<1>4. Header[BlockLen] = Len(Image) % 256 /\ Header[BlockLen - 1] = Len(Image) \div 256
  BY <1>1 DEF Header
<1>5. 256 * (Len(Image) \div 256) + (Len(Image) % 256) = Len(Image)
  BY <1>1
<1> QED BY <1>3, <1>4, <1>5 DEF Length

\* A frame byte by byte.
LEMMA FrameBytes ==
    ASSUME NEW type \in Byte, NEW block \in Block
    PROVE  /\ Frame(type, block) \in Seq(Byte)
           /\ Len(Frame(type, block)) = FrameLen
           /\ Frame(type, block)[1] = type
           /\ \A k \in 1 .. BlockLen : Frame(type, block)[k + 1] = block[k]
           /\ Frame(type, block)[BlockLen + 2] = Crc(block) \div 256
           /\ Frame(type, block)[BlockLen + 3] = Crc(block) % 256
<1> DEFINE hi == Crc(block) \div 256
           lo == Crc(block) % 256
<1>1. block \in Seq(Byte) /\ Len(block) = BlockLen /\ BlockLen \in Nat
  BY BlockIsSeq, Sizes
<1>2. hi \in Byte /\ lo \in Byte
  BY CrcAssumption, TwoBytes
<1> HIDE DEF hi, lo
<1>3. <<type>> \o block \o <<hi, lo>> \in Seq(Byte)
  BY <1>1, <1>2
<1>4. Len(<<type>> \o block \o <<hi, lo>>) = BlockLen + 3
  BY <1>1, <1>2
<1>5. /\ (<<type>> \o block \o <<hi, lo>>)[1] = type
      /\ \A k \in 1 .. BlockLen : (<<type>> \o block \o <<hi, lo>>)[k + 1] = block[k]
      /\ (<<type>> \o block \o <<hi, lo>>)[BlockLen + 2] = hi
      /\ (<<type>> \o block \o <<hi, lo>>)[BlockLen + 3] = lo
  BY <1>1, <1>2
<1> QED BY <1>3, <1>4, <1>5 DEF Frame, FrameLen, hi, lo
\* What the host sends at a.
LEMMA FrameAt ==
    ASSUME NEW a \in 1 .. LastAt
    PROVE  /\ Content(a) \in Block
           /\ Kind(a) \in {1, 2, 3}
           /\ Frames[a] = Frame(Kind(a), Content(a))
<1>1. Image \in Seq(Block) /\ DOMAIN Image = 1 .. Len(Image) /\ Len(Image) \in Nat
  BY ImageAssumption
<1>2. a \in Nat /\ a >= 1 /\ a <= Len(Image) + 2
  BY Sizes
<1> DEFINE Rest == [j \in DOMAIN Image |-> Frame(3, Image[j])]
           Two == <<Frame(1, Header), Frame(2, Tag(Whole))>>
<1>3. Frames = Two \o Rest
  BY DEF Frames
<1>4. Len(Two) = 2 /\ Two[1] = Frame(1, Header) /\ Two[2] = Frame(2, Tag(Whole))
  OBVIOUS
<1>5. /\ Len(Rest) = Len(Image)
      /\ \A j \in 1 .. Len(Image) : Rest[j] = Frame(3, Image[j])
  BY <1>1
<1>6. 1 \in Byte /\ 2 \in Byte /\ 3 \in Byte
  BY DEF Byte
<1>7. Two \in Seq(Seq(Byte)) /\ Rest \in Seq(Seq(Byte))
  <2>1. Frame(1, Header) \in Seq(Byte) /\ Frame(2, Tag(Whole)) \in Seq(Byte)
    BY <1>6, HeaderAnnounces, TagAssumption, FrameBytes
  <2>2. \A j \in 1 .. Len(Image) : Frame(3, Image[j]) \in Seq(Byte)
    BY <1>1, <1>6, FrameBytes
  <2> QED BY <1>1, <2>1, <2>2
<1> HIDE DEF Two, Rest
<1>8. \A k \in 1 .. Len(Image) + 2 :
         (Two \o Rest)[k] = IF k <= 2 THEN Two[k] ELSE Rest[k - 2]
  <2>1. \A k \in 1 .. Len(Two) + Len(Rest) :
           (Two \o Rest)[k] = IF k <= Len(Two) THEN Two[k] ELSE Rest[k - Len(Two)]
    BY <1>7
  <2>2. Len(Two) + Len(Rest) = Len(Image) + 2
    BY <1>1, <1>4, <1>5
  <2> QED BY <1>4, <2>1, <2>2
<1>9. CASE a <= 2
  <2>1. a = 1 \/ a = 2
    BY <1>2, <1>9
  <2>2. Frames[a] = Two[a]
    <3>1. a \in 1 .. Len(Image) + 2
      BY <1>1, <1>2
    <3> QED BY <1>3, <1>8, <1>9, <3>1
  <2> QED BY <1>4, <2>1, <2>2, HeaderAnnounces, TagAssumption DEF Content, Kind
<1>10. CASE ~(a <= 2)
  <2>1. a - 2 \in 1 .. Len(Image)
    BY <1>1, <1>2, <1>10
  <2>2. Frames[a] = Frame(3, Image[a - 2])
    <3>1. a \in 1 .. Len(Image) + 2
      BY <1>1, <1>2
    <3> QED BY <1>3, <1>5, <1>8, <1>10, <2>1, <3>1
  <2>3. Image[a - 2] \in Block
    BY <1>1, <2>1
  <2>4. Content(a) = Image[a - 2] /\ Kind(a) = 3
    BY <1>2, <1>10 DEF Content, Kind
  <2> QED BY <2>2, <2>3, <2>4
<1> QED BY <1>9, <1>10


\* What is absorbed when the image is, entry by entry.
LEMMA WholeEntries ==
    /\ Whole \in Seq([n : Nat, block : Seq(Byte)])
    /\ Len(Whole) = Len(Image) + 1
    /\ Whole[1] = Absorbed(0, Header)
    /\ \A k \in 1 .. Len(Image) : Whole[k + 1] = Absorbed(k, Image[k])
<1> DEFINE D == [n : Nat, block : Seq(Byte)]
           blocks == [k \in DOMAIN Image |-> Absorbed(k, Image[k])]
           one == <<Absorbed(0, Header)>>
<1>1. Len(Image) \in Nat /\ DOMAIN Image = 1 .. Len(Image)
      /\ \A k \in 1 .. Len(Image) : Image[k] \in Block
  BY ImageAssumption
<1>2. Absorbed(0, Header) \in D /\ \A k \in 1 .. Len(Image) : Absorbed(k, Image[k]) \in D
  BY <1>1, HeaderAnnounces, BlockIsSeq DEF Absorbed
<1>3. /\ one \in Seq(D) /\ Len(one) = 1 /\ one[1] = Absorbed(0, Header)
  BY <1>2
<1>4. /\ blocks \in Seq(D) /\ Len(blocks) = Len(Image)
      /\ \A k \in 1 .. Len(Image) : blocks[k] = Absorbed(k, Image[k])
  BY <1>1, <1>2
<1>5. Whole = one \o blocks
  BY DEF Whole
<1> HIDE DEF one, blocks, D
<1>6. /\ one \o blocks \in Seq(D)
      /\ Len(one \o blocks) = Len(one) + Len(blocks)
      /\ \A k \in 1 .. Len(one) + Len(blocks) :
            (one \o blocks)[k] = IF k <= Len(one) THEN one[k] ELSE blocks[k - Len(one)]
  <2>1. one \in Seq(D) /\ blocks \in Seq(D)
    BY <1>3, <1>4
  <2> QED BY ONLY <2>1, ConcatFacts
<1>7. Whole[1] = Absorbed(0, Header)
  BY <1>1, <1>3, <1>4, <1>5, <1>6
<1>8. ASSUME NEW k \in 1 .. Len(Image)
      PROVE  Whole[k + 1] = Absorbed(k, Image[k])
  <2>1. k + 1 \in 1 .. Len(one) + Len(blocks) /\ ~(k + 1 <= Len(one)) /\ (k + 1) - Len(one) = k
    BY <1>1, <1>3, <1>4
  <2> QED BY <1>4, <1>5, <1>6, <2>1
<1>9. Len(Whole) = Len(Image) + 1
  BY <1>1, <1>3, <1>4, <1>5, <1>6
<1> QED BY <1>5, <1>6, <1>7, <1>8, <1>9 DEF D

\* There is a frame for every place the host can be at.
LEMMA FrameCount == Len(Frames) = Len(Image) + 2
<1> DEFINE Rest == [k \in DOMAIN Image |-> Frame(3, Image[k])]
           Two == <<Frame(1, Header), Frame(2, Tag(Whole))>>
<1>1. Len(Image) \in Nat /\ DOMAIN Image = 1 .. Len(Image)
      /\ \A k \in 1 .. Len(Image) : Image[k] \in Block
  BY ImageAssumption
<1>2. 1 \in Byte /\ 2 \in Byte /\ 3 \in Byte
  BY DEF Byte
<1>3. /\ Frame(1, Header) \in Seq(Byte) /\ Frame(2, Tag(Whole)) \in Seq(Byte)
      /\ \A k \in 1 .. Len(Image) : Frame(3, Image[k]) \in Seq(Byte)
  BY <1>1, <1>2, HeaderAnnounces, TagAssumption, FrameBytes
<1>4. Two \in Seq(Seq(Byte)) /\ Len(Two) = 2
  BY <1>3
<1>5. Rest \in Seq(Seq(Byte)) /\ Len(Rest) = Len(Image)
  BY <1>1, <1>3
<1>6. Frames = Two \o Rest
  BY DEF Frames
<1> HIDE DEF Two, Rest
<1>7. Len(Two \o Rest) = Len(Two) + Len(Rest)
  BY <1>4, <1>5, ConcatFacts
<1> QED BY <1>1, <1>4, <1>5, <1>6, <1>7

-----------------------------------------------------------------------------
\* The steps of the host.
LEMMA SmoothHost ==
    ASSUME Inv, Smooth, Host
    PROVE  Smooth'
<1>0. /\ toBoot \in Seq(Byte) /\ toHost \in Seq(Byte) /\ zeros \in Nat
      /\ at \in 1 .. LastAt /\ at \in Nat /\ LastAt \in Nat
      /\ FrameLen \in Nat /\ FrameLen >= 5
      /\ Len(Frames) = LastAt
  <2>1. Len(Image) \in Nat
    BY Sizes
  <2>2. Len(Frames) = Len(Image) + 2
    BY FrameCount
  <2>3. toBoot \in Seq(Byte) /\ toHost \in Seq(Byte) /\ zeros \in Nat
        /\ at \in 1 .. Len(Image) + 2
    BY DEF Inv, TypeOK
  <2> QED BY <2>1, <2>2, <2>3, Sizes DEF LastAt
<1>1. CASE Resync
  <2>1. /\ hpc' = "flush" /\ toBoot' = toBoot \o Zeros /\ zeros' = zeros
    BY <1>1 DEF Resync, bootVars
  <2>2. Zeros \in Seq(Byte) /\ Len(Zeros) = FrameLen /\ \A k \in 1 .. FrameLen : Zeros[k] = 0
    BY Sizes DEF Zeros, Byte
  <2>3. /\ Len(toBoot') = Len(toBoot) + FrameLen /\ Len(toBoot) \in Nat
        /\ \A k \in 1 .. Len(toBoot') : k > Len(toBoot) => toBoot'[k] = 0
    <3>1. /\ Len(toBoot \o Zeros) = Len(toBoot) + Len(Zeros) /\ Len(toBoot) \in Nat
          /\ \A k \in 1 .. Len(toBoot) + Len(Zeros) :
                k > Len(toBoot) => (toBoot \o Zeros)[k] = Zeros[k - Len(toBoot)]
      BY <1>0, <2>2
    <3> QED BY <1>0, <2>1, <2>2, <3>1
  <2>4. Sweeping'
    <3>1. Len(toBoot') - FrameLen = Len(toBoot)
      BY <1>0, <2>3
    <3>2. zeros' + Len(toBoot') >= FrameLen
      BY <1>0, <2>1, <2>3
    <3> QED BY <2>3, <3>1, <3>2 DEF Sweeping
  <2> QED BY <2>1, <2>4 DEF Smooth
<1>2. CASE Flush
  <2>1. /\ hpc' = "send" /\ at' = 1 /\ toBoot' = <<>> /\ toHost' = <<>>
        /\ toBoot = <<>> /\ hpc = "flush"
        /\ frame' = frame /\ clean' = clean
    BY <1>2 DEF Flush, bootVars
  <2>2. ASSUME clean PROVE frame = 0
    <3>1. zeros >= BlockLen + 3
      <4>1. zeros + Len(toBoot) >= FrameLen
        BY <2>1, <2>2 DEF Smooth, Sweeping
      <4>2. Len(toBoot) = 0
        BY <2>1
      <4> QED BY <1>0, <4>1, <4>2, Sizes
    <3>2. Len(buf) \in Nat /\ Len(buf) < BlockLen + 2 /\ (frame # 0 => zeros <= Len(buf))
      BY DEF Inv, TypeOK, ZerosInBlock
    <3> QED BY <1>0, <3>1, <3>2, Sizes
  <2>3. Ready(at)'
    BY <2>1 DEF Ready
  <2> QED BY <2>1, <2>2, <2>3 DEF Smooth
<1>3. CASE Send
  <2>1. /\ hpc = "send" /\ hpc' = "wait" /\ at' = at /\ toBoot' = toBoot \o Frames[at]
        /\ toHost' = toHost /\ clean' = clean /\ UNCHANGED bootVars
    BY <1>3 DEF Send
  <2>2. SUFFICES ASSUME clean PROVE Underway(at)' /\ Ready(at)'
    BY <2>1 DEF Smooth
  <2>3. toBoot = <<>> /\ toHost = <<>> /\ frame = 0 /\ Ready(at)
    BY <2>1, <2>2 DEF Smooth
  <2>4. Frames[at] \in Seq(Byte) /\ Len(Frames[at]) = FrameLen
    <3>1. Kind(at) \in Byte
      BY <1>0, FrameAt DEF Byte
    <3> QED BY <1>0, <3>1, FrameAt, FrameBytes
  <2>5. toBoot' = Frames[at]
    BY <2>1, <2>3, <2>4
  <2>6. Ready(at)'
    BY <2>1, <2>3 DEF Ready, bootVars, authVars
  <2>7. Len(toBoot') = FrameLen /\ FrameLen \in 1 .. FrameLen /\ frame' = 0
    BY <1>0, <2>1, <2>3, <2>4, <2>5 DEF bootVars
  <2>8. \A k \in 1 .. FrameLen : FrameLen - FrameLen + k = k
    BY <1>0
  <2> QED BY <2>1, <2>3, <2>5, <2>6, <2>7, <2>8 DEF Underway
<1>4. CASE Reply
  <2>1. /\ hpc = "wait" /\ toHost # <<>> /\ toHost' = Tail(toHost)
        /\ UNCHANGED <<toBoot, bootVars, clean, faults>>
    BY <1>4 DEF Reply
  <2>2. SUFFICES ASSUME clean PROVE Smooth'
    BY <2>1 DEF Smooth
  <2>3. Taken(at)
    BY <2>1, <2>2 DEF Smooth, Underway
  <2>4. CASE at < LastAt
    <3>1. toHost = <<COMM_OK>> /\ Ready(at + 1)
      BY <2>3, <2>4 DEF Taken
    <3>2. Head(toHost) = COMM_OK /\ toHost' = <<>>
      BY <2>1, <3>1
    <3>3. hpc' = "send" /\ at' = at + 1
      BY <1>0, <1>4, <2>4, <3>2 DEF Reply, COMM_OK, COMM_BADCHECKSUM
    <3>4. Ready(at)'
      BY <2>1, <3>1, <3>3 DEF Ready, bootVars, authVars
    <3> QED BY <2>1, <2>3, <3>2, <3>3, <3>4 DEF Smooth, Taken, bootVars
  <2>5. CASE ~(at < LastAt)
    <3>1. toHost = <<COMM_OK, COMM_OKSIG>>
      BY <2>3, <2>5 DEF Taken
    <3>2. Head(toHost) = COMM_OK /\ toHost' = <<COMM_OKSIG>>
      BY <2>1, <3>1
    <3>3. hpc' = "verdict"
      BY <1>0, <1>4, <2>5, <3>2 DEF Reply, COMM_OK, COMM_BADCHECKSUM
    <3> QED BY <2>1, <2>3, <3>2, <3>3 DEF Smooth, Taken
  <2> QED BY <2>4, <2>5
<1>5. CASE Verdict
  <2>1. /\ hpc = "verdict"
        /\ hpc' = IF Head(toHost) = COMM_OKSIG THEN "done" ELSE "resync"
        /\ clean' = clean
    BY <1>5 DEF Verdict
  <2>2. ASSUME clean PROVE hpc' = "done"
    BY <2>1, <2>2 DEF Smooth
  <2> QED BY <2>1, <2>2 DEF Smooth
<1>6. CASE Timeout
  <2>1. /\ hpc \in {"wait", "verdict"} /\ toBoot = <<>> /\ toHost = <<>>
        /\ clean' = clean
    BY <1>6 DEF Timeout
  <2>2. Len(toBoot) \notin 1 .. FrameLen
    BY <2>1
  <2>3. toHost # <<COMM_OK>> /\ toHost # <<COMM_OKSIG>> /\ toHost # <<COMM_OK, COMM_OKSIG>>
    BY <2>1
  <2> QED BY <2>1, <2>2, <2>3 DEF Smooth, Underway, Taken
<1> QED BY <1>1, <1>2, <1>3, <1>4, <1>5, <1>6 DEF Host

-----------------------------------------------------------------------------
\* The first byte that is read, and what it leaves.
LEMMA Read ==
    ASSUME NEW s \in Seq(Byte), s # <<>>
    PROVE  /\ Head(s) = s[1] /\ Head(s) \in Byte
           /\ Tail(s) \in Seq(Byte)
           /\ Len(s) \in Nat /\ Len(s) >= 1
           /\ Len(Tail(s)) = Len(s) - 1
           /\ \A k \in 1 .. Len(s) - 1 : Tail(s)[k] = s[k + 1]
OBVIOUS

\* A byte of a resync is read.
LEMMA SweepStep ==
    ASSUME Inv, Getch, Sweeping
    PROVE  Sweeping'
<1>1. /\ toBoot \in Seq(Byte) /\ toBoot # <<>> /\ toBoot' = Tail(toBoot) /\ zeros \in Nat
      /\ zeros' = IF Head(toBoot) = 0 THEN zeros + 1 ELSE 0
  BY DEF Inv, TypeOK, Getch
<1>2. /\ Head(toBoot) = toBoot[1] /\ Len(toBoot) \in Nat /\ Len(toBoot) >= 1
      /\ Len(toBoot') = Len(toBoot) - 1
      /\ \A k \in 1 .. Len(toBoot) - 1 : toBoot'[k] = toBoot[k + 1]
  BY <1>1, Read
<1>3. FrameLen \in Nat
  BY Sizes
<1>4. /\ \A k \in 1 .. Len(toBoot) : k > Len(toBoot) - FrameLen => toBoot[k] = 0
      /\ zeros + Len(toBoot) >= FrameLen
  BY DEF Sweeping
<1>5. ASSUME NEW k \in 1 .. Len(toBoot'), k > Len(toBoot') - FrameLen
      PROVE  toBoot'[k] = 0
  <2>1. k + 1 \in 1 .. Len(toBoot) /\ k + 1 > Len(toBoot) - FrameLen
        /\ k \in 1 .. Len(toBoot) - 1
    BY <1>2, <1>3, <1>5
  <2> QED BY <1>2, <1>4, <2>1
<1>6. zeros' + Len(toBoot') >= FrameLen
  <2>1. CASE Len(toBoot) > FrameLen
    <3>1. zeros' \in Nat
      BY <1>1
    <3> QED BY <1>2, <1>3, <2>1, <3>1
  <2>2. CASE ~(Len(toBoot) > FrameLen)
    <3>1. 1 \in 1 .. Len(toBoot) /\ 1 > Len(toBoot) - FrameLen
      BY <1>2, <1>3, <2>2
    <3>2. Head(toBoot) = 0
      BY <1>2, <1>4, <3>1
    <3> QED BY <1>1, <1>2, <1>3, <1>4, <3>2
  <2> QED BY <2>1, <2>2
<1> QED BY <1>5, <1>6 DEF Sweeping

\* What a byte that is not the last of its frame leaves on the line.
LEMMA RestOfFrame ==
    ASSUME NEW a \in 1 .. LastAt, NEW s \in Seq(Byte), Len(s) \in 2 .. FrameLen,
           \A k \in 1 .. Len(s) : s[k] = Frames[a][FrameLen - Len(s) + k]
    PROVE  /\ Len(Tail(s)) \in 1 .. FrameLen
           /\ \A k \in 1 .. Len(Tail(s)) :
                 Tail(s)[k] = Frames[a][FrameLen - Len(Tail(s)) + k]
<1>1. /\ FrameLen \in Nat /\ Len(s) \in Nat /\ Len(s) >= 2 /\ s # <<>> /\ Len(s) <= FrameLen
  BY Sizes
<1>2. /\ Len(Tail(s)) = Len(s) - 1
      /\ \A k \in 1 .. Len(s) - 1 : Tail(s)[k] = s[k + 1]
  BY <1>1, Read
<1>3. ASSUME NEW k \in 1 .. Len(Tail(s))
      PROVE  Tail(s)[k] = Frames[a][FrameLen - Len(Tail(s)) + k]
  <2>1. k \in 1 .. Len(s) - 1 /\ k + 1 \in 1 .. Len(s)
        /\ FrameLen - Len(s) + (k + 1) = FrameLen - Len(Tail(s)) + k
    BY <1>1, <1>2
  <2>2. s[k + 1] = Frames[a][FrameLen - Len(s) + (k + 1)]
    BY <2>1
  <2> QED BY <1>2, <2>1, <2>2
<1> QED BY <1>1, <1>2, <1>3

\* The bootloader reads the type of the frame: it is its turn.
LEMMA KindStep ==
    ASSUME Inv, Getch, NEW a \in 1 .. LastAt, a' = a, Underway(a), Ready(a),
           Len(toBoot) = FrameLen
    PROVE  Underway(a)' /\ Ready(a)'
<1>1. /\ toBoot \in Seq(Byte) /\ toBoot # <<>> /\ toBoot' = Tail(toBoot)
      /\ frame = 0 /\ buf = <<>> /\ FrameLen \in Nat /\ FrameLen >= 5
      /\ FrameLen - FrameLen = 0
      /\ \A k \in 1 .. Len(toBoot) : toBoot[k] = Frames[a][FrameLen - Len(toBoot) + k]
      /\ toHost = <<>>
  <2>1. toBoot \in Seq(Byte) /\ (frame = 0 => buf = <<>>)
    BY DEF Inv, TypeOK
  <2>2. toBoot # <<>> /\ toBoot' = Tail(toBoot)
    BY DEF Getch
  <2>3. FrameLen \in Nat /\ FrameLen >= 5 /\ FrameLen - FrameLen = 0
    BY Sizes
  <2> QED BY <2>1, <2>2, <2>3 DEF Underway
<1>2. Kind(a) \in {1, 2, 3} /\ Kind(a) \in Byte /\ Content(a) \in Block
      /\ Frames[a] = Frame(Kind(a), Content(a))
  BY FrameAt DEF Byte
<1>3. Frames[a][1] = Kind(a)
  BY <1>2, FrameBytes
<1>4. Head(toBoot) = Kind(a)
  <2>1. toBoot[1] = Frames[a][FrameLen - Len(toBoot) + 1]
    BY <1>1
  <2>2. FrameLen - Len(toBoot) + 1 = 1
    BY <1>1
  <2> QED BY <1>1, <1>3, <2>1, <2>2, Read
<1>5. Type(Kind(a)) /\ UNCHANGED toHost
  BY <1>1, <1>4 DEF Getch
<1>6. a \in Nat /\ a >= 1
  BY Sizes
<1>7. Kind(a) # 1 => bootloader_valid = Kind(a) - 1 /\ a >= 2
  BY <1>6 DEF Ready, Kind
<1>8. /\ frame' = Kind(a) /\ buf' = buf /\ UNCHANGED authVars
      /\ Kind(a) # 1 => UNCHANGED bootloader_valid
  BY <1>2, <1>5, <1>7 DEF Type
<1>9. Ready(a)'
  <2>1. Kind(a) = 1 => a = 1
    BY <1>6 DEF Kind
  <2> QED BY <1>6, <1>8, <2>1 DEF Ready, authVars
<1>10. Len(toBoot') = FrameLen - 1
  BY <1>1, Read
<1>11. Len(toBoot) \in 2 .. FrameLen
  BY <1>1
<1>12. /\ Len(toBoot') \in 1 .. FrameLen
       /\ \A k \in 1 .. Len(toBoot') :
              toBoot'[k] = Frames[a][FrameLen - Len(toBoot') + k]
  BY <1>1, <1>11, RestOfFrame
<1>13. Len(buf') = 0 /\ FrameLen - 1 - Len(toBoot') = 0 /\ Len(toBoot') # FrameLen
  BY <1>1, <1>8, <1>10
<1> QED BY <1>1, <1>5, <1>8, <1>9, <1>12, <1>13 DEF Underway

\* It reads another byte, which is not the last.
LEMMA BodyStep ==
    ASSUME Inv, Getch, NEW a \in 1 .. LastAt, a' = a, Underway(a), Ready(a),
           Len(toBoot) # FrameLen, Len(toBoot) > 1
    PROVE  Underway(a)' /\ Ready(a)'
<1>1. /\ toBoot \in Seq(Byte) /\ toBoot # <<>> /\ toBoot' = Tail(toBoot)
      /\ buf \in Seq(Byte)
  BY DEF Inv, TypeOK, Getch
<1>2. /\ toHost = <<>> /\ frame = Kind(a)
      /\ Len(toBoot) \in 1 .. FrameLen
      /\ Len(buf) = FrameLen - 1 - Len(toBoot)
      /\ \A k \in 1 .. Len(buf) : buf[k] = Frames[a][k + 1]
      /\ \A k \in 1 .. Len(toBoot) : toBoot[k] = Frames[a][FrameLen - Len(toBoot) + k]
  BY DEF Underway
<1>3. Kind(a) \in {1, 2, 3}
  BY FrameAt
<1>4. FrameLen \in Nat /\ FrameLen = BlockLen + 3 /\ BlockLen \in Nat
  BY Sizes
<1>5. /\ Len(toBoot) \in 2 .. FrameLen /\ Len(toBoot) < FrameLen
      /\ Len(buf) < BlockLen + 1 /\ frame # 0
      /\ Len(toBoot) \in Nat /\ Len(buf) \in Nat
  BY <1>1, <1>2, <1>3, <1>4
<1>6. /\ buf' = Append(buf, Head(toBoot))
      /\ UNCHANGED <<toHost, frame, bootloader_valid, authVars>>
  BY <1>5 DEF Getch, BlockByte
<1>7. /\ Len(toBoot') \in 1 .. FrameLen
      /\ \A k \in 1 .. Len(toBoot') :
              toBoot'[k] = Frames[a][FrameLen - Len(toBoot') + k]
  BY <1>1, <1>2, <1>5, RestOfFrame
<1>8. Head(toBoot) = toBoot[1] /\ Head(toBoot) \in Byte /\ Len(toBoot') = Len(toBoot) - 1
  BY <1>1, Read
<1>9. Head(toBoot) = Frames[a][Len(buf) + 2]
  <2>1. 1 \in 1 .. Len(toBoot) /\ FrameLen - Len(toBoot) + 1 = Len(buf) + 2
    BY <1>2, <1>4, <1>5
  <2> QED BY <1>2, <1>8, <2>1
<1>10. /\ Len(buf') = Len(buf) + 1
       /\ \A k \in 1 .. Len(buf) : buf'[k] = buf[k]
       /\ buf'[Len(buf) + 1] = Head(toBoot)
  BY <1>1, <1>6, <1>8, AppendFacts
<1>11. ASSUME NEW k \in 1 .. Len(buf')
       PROVE  buf'[k] = Frames[a][k + 1]
  <2>1. k \in 1 .. Len(buf) \/ k = Len(buf) + 1
    BY <1>5, <1>10
  <2>2. k = Len(buf) + 1 => k + 1 = Len(buf) + 2
    BY <1>5
  <2> QED BY <1>2, <1>9, <1>10, <2>1, <2>2
<1>12. Len(buf') = FrameLen - 1 - Len(toBoot') /\ Len(toBoot') # FrameLen
  BY <1>2, <1>4, <1>5, <1>8, <1>10
<1>13. Ready(a)'
  BY <1>6 DEF Ready, authVars
<1> QED BY <1>2, <1>6, <1>7, <1>11, <1>12, <1>13 DEF Underway

\* The last byte of a frame completes the block the host sent, and its checksum
\* is right.
LEMMA LastByte ==
    ASSUME Inv, Getch, NEW a \in 1 .. LastAt, Underway(a), Len(toBoot) = 1
    PROVE  /\ toBoot' = <<>> /\ toHost = <<>> /\ frame = Kind(a)
           /\ frame' = 0
           /\ \/ frame = 1 /\ HeaderBlock(Content(a))
              \/ frame = 2 /\ TagBlock(Content(a))
              \/ frame = 3 /\ DataBlock(Content(a)) /\ UNCHANGED bootloader_valid
<1> DEFINE full == Append(buf, Head(toBoot))
<1>1. /\ toBoot \in Seq(Byte) /\ toBoot # <<>> /\ toBoot' = Tail(toBoot)
      /\ buf \in Seq(Byte)
  BY DEF Inv, TypeOK, Getch
<1>2. FrameLen \in Nat /\ FrameLen = BlockLen + 3 /\ BlockLen \in Nat /\ BlockLen >= 2
  BY Sizes
<1>3. /\ toHost = <<>> /\ frame = Kind(a)
      /\ Len(buf) = FrameLen - 1 - Len(toBoot)
      /\ \A k \in 1 .. Len(buf) : buf[k] = Frames[a][k + 1]
      /\ \A k \in 1 .. Len(toBoot) : toBoot[k] = Frames[a][FrameLen - Len(toBoot) + k]
  BY <1>2 DEF Underway
<1>4. /\ Kind(a) \in {1, 2, 3} /\ Kind(a) \in Byte /\ Content(a) \in Block
      /\ Frames[a] = Frame(Kind(a), Content(a))
  BY FrameAt DEF Byte
<1>5. Len(buf) = BlockLen + 1 /\ ~(Len(buf) < BlockLen + 1) /\ frame # 0
  BY <1>2, <1>3, <1>4
<1>6. toBoot' = <<>>
  BY <1>1
<1>7. Head(toBoot) = Frames[a][BlockLen + 3] /\ Head(toBoot) \in Byte
  <2>1. FrameLen - Len(toBoot) + 1 = BlockLen + 3
    BY <1>2
  <2>2. toBoot[1] = Frames[a][FrameLen - Len(toBoot) + 1]
    BY <1>3
  <2> QED BY <1>1, <2>1, <2>2, Read
<1>8. /\ full \in Seq(Byte) /\ Len(full) = BlockLen + 2
      /\ \A k \in 1 .. BlockLen + 1 : full[k] = Frames[a][k + 1]
      /\ full[BlockLen + 2] = Frames[a][BlockLen + 3]
  <2>1. /\ full \in Seq(Byte) /\ Len(full) = Len(buf) + 1
        /\ \A k \in 1 .. Len(buf) : full[k] = buf[k]
        /\ full[Len(buf) + 1] = Head(toBoot)
    BY <1>1, <1>7, AppendFacts
  <2> HIDE DEF full
  <2> QED BY <1>2, <1>3, <1>5, <1>7, <2>1
<1>9. EndBlock(full)
  BY <1>3, <1>5 DEF Getch, BlockByte
<1> HIDE DEF full
<1>10. SubSeq(full, 1, BlockLen) = Content(a)
  <2>1. SubSeq(full, 1, BlockLen) \in Seq(Byte) /\ Len(SubSeq(full, 1, BlockLen)) = BlockLen
    BY <1>8, BlockOf
  <2>2. ASSUME NEW k \in 1 .. BlockLen
        PROVE  SubSeq(full, 1, BlockLen)[k] = Content(a)[k]
    <3>1. SubSeq(full, 1, BlockLen)[k] = full[k]
      BY <1>2, <1>8
    <3>2. full[k] = Frames[a][k + 1]
      BY <1>2, <1>8
    <3>3. Frame(Kind(a), Content(a))[k + 1] = Content(a)[k]
      BY <1>4, FrameBytes
    <3> QED BY <1>4, <3>1, <3>2, <3>3
  <2>3. Content(a) \in Seq(Byte) /\ Len(Content(a)) = BlockLen
    BY <1>4, BlockIsSeq
  <2> QED BY <1>2, <2>1, <2>2, <2>3
<1>11. 256 * full[BlockLen + 1] + full[BlockLen + 2] = Crc(Content(a))
  <2>1. BlockLen + 1 \in 1 .. BlockLen + 1 /\ (BlockLen + 1) + 1 = BlockLen + 2
    BY <1>2
  <2>2. full[BlockLen + 1] = Crc(Content(a)) \div 256
    BY <1>4, <1>8, <2>1, FrameBytes
  <2>3. full[BlockLen + 2] = Crc(Content(a)) % 256
    BY <1>4, <1>8, FrameBytes
  <2>4. Crc(Content(a)) \in Nat
    BY <1>4, CrcAssumption
  <2>5. \A x \in Nat : 256 * (x \div 256) + (x % 256) = x
    OBVIOUS
  <2> QED BY <2>2, <2>3, <2>4, <2>5
<1>12. /\ frame' = 0
       /\ \/ frame = 1 /\ HeaderBlock(Content(a))
          \/ frame = 2 /\ TagBlock(Content(a))
          \/ frame = 3 /\ DataBlock(Content(a)) /\ UNCHANGED bootloader_valid
  BY <1>9, <1>10, <1>11 DEF EndBlock, DataBlock
<1> QED BY <1>3, <1>6, <1>12

\* The frame is taken, and it is answered as the host expects.
LEMMA EndStep ==
    ASSUME Inv, Getch, NEW a \in 1 .. LastAt, Underway(a), Ready(a), Len(toBoot) = 1
    PROVE  Taken(a)'
<1>1. /\ toBoot' = <<>> /\ toHost = <<>> /\ frame = Kind(a) /\ frame' = 0
      /\ \/ frame = 1 /\ HeaderBlock(Content(a))
         \/ frame = 2 /\ TagBlock(Content(a))
         \/ frame = 3 /\ DataBlock(Content(a)) /\ UNCHANGED bootloader_valid
  BY LastByte
<1>2. /\ a \in Nat /\ a >= 1 /\ a <= LastAt /\ LastAt = Len(Image) + 2
      /\ Len(Image) \in Nat /\ Len(Image) >= 1 /\ Len(Image) <= MaxBlocks
      /\ MaxBlocks \in Nat /\ CounterMod \in Nat /\ MaxBlocks < CounterMod
  BY Sizes
<1>3. ASSUME NEW s, Put(s), s = <<COMM_OK>> \/ s = <<COMM_OK, COMM_OKSIG>>
      PROVE  toHost' = s
  BY <1>1, <1>3 DEF Put
<1>4. CASE a = 1
  <2>1. frame = 1 /\ HeaderBlock(Header)
    BY <1>1, <1>4 DEF Kind, Content
  <2>2. Length(Header) = Len(Image) /\ ~(Len(Image) > MaxBlocks)
    BY <1>2, HeaderAnnounces
  <2>3. /\ expected_blocklen' = Len(Image) /\ bootloader_valid' = 1
        /\ state_authtag' = <<Absorbed(0, Header)>> /\ Put(<<COMM_OK>>)
    BY <2>1, <2>2 DEF HeaderBlock
  <2>4. Len(state_authtag') = 1 /\ state_authtag'[1] = Whole[1]
    BY <2>3, WholeEntries
  <2>5. Ready(a + 1)'
    BY <1>4, <2>3, <2>4 DEF Ready
  <2>6. toHost' = <<COMM_OK>>
    BY <1>3, <2>3
  <2> QED BY <1>1, <1>2, <1>4, <2>5, <2>6 DEF Taken
<1>5. CASE a = 2
  <2>1. frame = 2 /\ TagBlock(Tag(Whole))
    BY <1>1, <1>5 DEF Kind, Content
  <2>2. /\ encrypted_authtag' = Tag(Whole) /\ bootloader_valid' = 2 /\ aes_ctr_temp' = 0
        /\ Put(<<COMM_OK>>) /\ UNCHANGED <<expected_blocklen, state_authtag>>
    BY <2>1 DEF TagBlock
  <2>3. /\ expected_blocklen = Len(Image) /\ Len(state_authtag) = 1
        /\ \A k \in 1 .. Len(state_authtag) : state_authtag[k] = Whole[k]
    BY <1>5 DEF Ready
  <2>4. Ready(a + 1)'
    BY <1>5, <2>2, <2>3 DEF Ready
  <2>5. toHost' = <<COMM_OK>>
    BY <1>3, <2>2
  <2> QED BY <1>1, <1>2, <1>5, <2>4, <2>5 DEF Taken
<1>6. CASE a > 2
  <2> DEFINE j == a - 2
             absorbed == Append(state_authtag, Absorbed(j, Image[j]))
  <2>1. /\ frame = 3 /\ DataBlock(Image[j]) /\ UNCHANGED bootloader_valid
    BY <1>1, <1>2, <1>6 DEF Kind, Content
  <2>2. /\ expected_blocklen = Len(Image) /\ Len(state_authtag) = j
        /\ \A k \in 1 .. Len(state_authtag) : state_authtag[k] = Whole[k]
        /\ bootloader_valid = 2 /\ encrypted_authtag = Tag(Whole)
        /\ aes_ctr_temp = a - 3
    BY <1>2, <1>6 DEF Ready
  <2>3. j \in 1 .. Len(Image) /\ (aes_ctr_temp + 1) % CounterMod = j
    <3>1. aes_ctr_temp \in 0 .. CounterMod - 1 /\ aes_ctr_temp + 1 # CounterMod
      BY <1>2, <1>6, <2>2
    <3>2. (aes_ctr_temp + 1) % CounterMod = aes_ctr_temp + 1
      BY <1>2, <3>1, NextCount
    <3>3. aes_ctr_temp + 1 = j
      BY <1>2, <2>2
    <3> QED BY <1>2, <1>6, <3>2, <3>3
  <2> HIDE DEF j
  <2>4. /\ aes_ctr_temp' = j
        /\ state_authtag' = IF j = Len(Image) THEN Append(absorbed, Sealed) ELSE absorbed
        /\ UNCHANGED <<expected_blocklen, encrypted_authtag>>
        /\ Put(<<COMM_OK>> \o
               (IF j # Len(Image) THEN <<>>
                ELSE IF Tag(absorbed) = Tag(Whole) THEN <<COMM_OKSIG>>
                ELSE <<COMM_BADSIG>>))
    BY <2>1, <2>2, <2>3 DEF DataBlock
  <2>5. Absorbed(j, Image[j]) \in [n : Nat, block : Seq(Byte)]
    <3>1. Image[j] \in Block /\ j \in Nat
      BY <1>2, <2>3, ImageAssumption
    <3> QED BY <3>1, BlockIsSeq DEF Absorbed
  <2>6. state_authtag \in Seq([n : Nat, block : Seq(Byte)])
    BY DEF Inv, TypeOK
  <2>7. /\ absorbed \in Seq([n : Nat, block : Seq(Byte)])
        /\ Len(absorbed) = j + 1
        /\ \A k \in 1 .. j : absorbed[k] = state_authtag[k]
        /\ absorbed[j + 1] = Absorbed(j, Image[j])
    BY <2>2, <2>5, <2>6, AppendFacts
  <2> HIDE DEF absorbed
  <2>8. \A k \in 1 .. j + 1 : absorbed[k] = Whole[k]
    <3>1. SUFFICES ASSUME NEW k \in 1 .. j + 1 PROVE absorbed[k] = Whole[k]
      OBVIOUS
    <3>2. k \in 1 .. j \/ k = j + 1
      BY <2>3
    <3> QED BY <2>2, <2>3, <2>7, <3>2, WholeEntries
  <2>9. CASE j = Len(Image)
    <3>1. absorbed = Whole
      BY <2>3, <2>7, <2>8, <2>9, WholeEntries
    <3>2. Put(<<COMM_OK>> \o <<COMM_OKSIG>>)
      BY <2>4, <2>9, <3>1
    <3>3. toHost' = <<COMM_OK, COMM_OKSIG>>
      <4>1. <<COMM_OK>> \o <<COMM_OKSIG>> = <<COMM_OK, COMM_OKSIG>>
        <5> DEFINE t == <<COMM_OK>> \o <<COMM_OKSIG>>
        <5>1. t \in Seq({COMM_OK, COMM_OKSIG}) /\ Len(t) = 2
              /\ t[1] = COMM_OK /\ t[2] = COMM_OKSIG
          OBVIOUS
        <5> HIDE DEF t
        <5>2. t = <<COMM_OK, COMM_OKSIG>>
          BY <5>1
        <5> QED BY <5>2 DEF t
      <4>2. Put(<<COMM_OK, COMM_OKSIG>>)
        BY <3>2, <4>1
      <4> QED BY <1>3, <4>2
    <3>4. ~(a < LastAt)
      BY <1>2, <2>9 DEF j
    <3> QED BY <1>1, <3>3, <3>4 DEF Taken
  <2>10. CASE j # Len(Image)
    <3>1. state_authtag' = absorbed /\ Put(<<COMM_OK>> \o <<>>)
      BY <2>4, <2>10
    <3>2. toHost' = <<COMM_OK>>
      BY <1>3, <3>1
    <3>3. /\ a < LastAt /\ j + 1 = (a + 1) - 2 /\ j = (a + 1) - 3
          /\ a + 1 > 2 /\ a + 1 # 2
      BY <1>2, <1>6, <2>3, <2>10 DEF j
    <3>4. Ready(a + 1)'
      BY <2>1, <2>2, <2>4, <2>7, <2>8, <3>1, <3>3 DEF Ready
    <3> QED BY <1>1, <3>2, <3>3, <3>4 DEF Taken
  <2> QED BY <2>9, <2>10
<1> QED BY <1>2, <1>4, <1>5, <1>6

\* The steps of the bootloader.
LEMMA SmoothGetch ==
    ASSUME Inv, Smooth, Getch
    PROVE  Smooth'
<1>1. /\ toBoot # <<>> /\ clean' = clean /\ hpc' = hpc /\ at' = at
  BY DEF Getch, hostVars
<1>2. SUFFICES ASSUME clean PROVE Smooth'
  BY <1>1 DEF Smooth
<1>3. CASE hpc = "flush"
  <2>1. Sweeping'
    BY <1>2, <1>3, SweepStep DEF Smooth
  <2> QED BY <1>1, <1>3, <2>1 DEF Smooth
<1>4. CASE hpc = "wait"
  <2>1. Underway(at) /\ Ready(at)
    BY <1>1, <1>2, <1>4 DEF Smooth, Taken
  <2>2. at \in 1 .. LastAt /\ Len(toBoot) \in 1 .. FrameLen
    BY <2>1 DEF Inv, TypeOK, LastAt, Underway
  <2>3. PICK a \in 1 .. LastAt : a = at
    BY <2>2
  <2>4. (Underway(a)' /\ Ready(a)') \/ Taken(a)'
    <3>1. FrameLen \in Nat
      BY Sizes
    <3>2. Underway(a) /\ Ready(a)
      BY <2>1, <2>3
    <3>3. Len(toBoot) = FrameLen \/ (Len(toBoot) # FrameLen /\ Len(toBoot) > 1) \/ Len(toBoot) = 1
      <4>1. \A x \in 1 .. FrameLen : x = FrameLen \/ (x # FrameLen /\ x > 1) \/ x = 1
        BY <3>1
      <4> QED BY <2>2, <4>1
    <3> QED BY <3>2, <3>3, KindStep, BodyStep, EndStep
  <2>5. at' = a
    BY <1>1, <2>3
  <2> QED BY <1>1, <1>4, <2>4, <2>5 DEF Smooth, Underway, Taken, Ready
<1>5. CASE hpc \notin {"flush", "wait"}
  BY <1>1, <1>2, <1>5 DEF Smooth, Inv, TypeOK
<1> QED BY <1>3, <1>4, <1>5

\* Every step keeps a smooth upload smooth.
LEMMA SmoothStep == Inv /\ Smooth /\ [Next]_vars => Smooth'
<1> SUFFICES ASSUME Inv, Smooth, [Next]_vars
             PROVE  Smooth'
  OBVIOUS
<1>1. CASE Fault
  BY <1>1 DEF Fault, Smooth
<1>2. CASE UNCHANGED vars
  BY <1>2 DEF vars, bootVars, hostVars, authVars, Smooth, Sweeping, Underway, Taken, Ready
<1> QED BY <1>1, <1>2, SmoothHost, SmoothGetch DEF Next, Done

\* An upload that meets no fault is not refused, whatever an earlier upload left
\* in the bootloader or on the way to it.
THEOREM CleanUploadAccepted == Spec => []NeverRefused
<1>1. Init => Smooth
  BY DEF Init, Smooth
<1>2. Spec => []Smooth
  BY <1>1, SmoothStep, Invariance, PTL DEF Spec
<1>3. Smooth => NeverRefused
  BY DEF Smooth, NeverRefused
<1> QED BY <1>2, <1>3, PTL
=============================================================================
