----------------------------- MODULE BootAesCcm -----------------------------
(***************************************************************************)
(* The AES-CCM bootloader: the loop of main() in bootloader-aesccm, one    *)
(* getch at a time, and a host that uploads an image to it over a line     *)
(* that loses and garbles bytes.                                           *)
(*                                                                         *)
(* A frame is a type byte, a block and its CRC-16: 1 the header, whose     *)
(* last two bytes are the number of data blocks, 2 the encrypted tag, 3 a  *)
(* data block.  The cipher is ideal: state_authtag is the sequence of what *)
(* it has absorbed, a data block together with the counter it was          *)
(* decrypted with, and Tag says which encrypted tag belongs to it.  The    *)
(* repository has no host for this bootloader; Host is what the replies of *)
(* the loop call for.                                                      *)
(***************************************************************************)
EXTENDS Integers, Sequences, SequencesExt

CONSTANTS
    BlockLen,        \* 16
    MaxBlocks,       \* 0x2FFF, the longest image the header may announce
    CounterMod,      \* 2^16, aes_ctr_temp is an uint16_t
    Crc(_),          \* _crc_xmodem_update over a block
    Tag(_),          \* the encrypted tag of what state_authtag has absorbed
    Image,           \* the data blocks the host uploads
    Leftovers,       \* what an earlier upload left on the way
    Noise,           \* what a garbled byte becomes
    MaxFaults        \* bound: bytes lost or garbled

Byte == 0 .. 255
Block == [1 .. BlockLen -> Byte]

ASSUME BlockLenAssumption == BlockLen \in Nat /\ BlockLen >= 2
ASSUME MaxBlocksAssumption ==
    MaxBlocks \in Nat /\ MaxBlocks < 65536 /\ CounterMod \in Nat /\ MaxBlocks < CounterMod
ASSUME ImageAssumption == Image \in Seq(Block) /\ Image # <<>> /\ Len(Image) <= MaxBlocks
ASSUME CrcAssumption == \A b \in Block : Crc(b) \in Nat /\ Crc(b) < 65536
ASSUME LeftoversAssumption == Leftovers \subseteq Seq(Byte)
ASSUME NoiseAssumption == Noise \subseteq Byte
ASSUME MaxFaultsAssumption == MaxFaults \in Nat

COMM_BADCHECKSUM == 161
COMM_OK == 164
COMM_BADSIG == 177
COMM_OKSIG == 180

VARIABLES
    toBoot, toHost,      \* bytes on their way
    frame,               \* type of the frame being received, 0 between frames
    buf,                 \* its bytes so far
    bootloader_valid,    \* 0, 1 after a header, 2 after a tag
    expected_blocklen,
    encrypted_authtag,
    state_authtag,       \* what the MAC has absorbed
    aes_ctr_temp,
    zeros,               \* history: zero bytes read since the last other byte
    hpc,                 \* the program point of the host
    at,                  \* the frame it is at: 1 header, 2 tag, then the data
    clean,               \* history: no fault since the host started over
    faults               \* faults so far

authVars == <<expected_blocklen, encrypted_authtag, state_authtag, aes_ctr_temp>>
bootVars == <<frame, buf, bootloader_valid, authVars, zeros>>
hostVars == <<hpc, at>>
vars == <<toBoot, toHost, bootVars, hostVars, clean, faults>>

\* An entry of state_authtag.
Absorbed(n, block) == [n |-> n, block |-> block]
Sealed == Absorbed(0, <<>>)

Init ==
    /\ toBoot \in Leftovers
    /\ toHost = <<>>
    /\ frame = 0
    /\ buf = <<>>
    /\ bootloader_valid = 0
    /\ expected_blocklen = 0
    /\ encrypted_authtag = <<>>     \* uninitialized, and not read before a tag
    /\ state_authtag = <<>>         \* nor this one before a header
    /\ aes_ctr_temp = 0
    /\ zeros = 0
    /\ hpc = "resync"
    /\ at = 1
    /\ clean = FALSE
    /\ faults = 0

-----------------------------------------------------------------------------
\* Slip: bootloader_valid is left as it is.
DropKeepsValid ==
    /\ expected_blocklen' = 0
    /\ aes_ctr_temp' = 0
    /\ UNCHANGED <<frame, buf, bootloader_valid, encrypted_authtag, state_authtag>>

\* A byte that is no frame type drops everything.
Drop ==
    /\ bootloader_valid' = 0
    /\ expected_blocklen' = 0
    /\ aes_ctr_temp' = 0
    /\ UNCHANGED <<frame, buf, encrypted_authtag, state_authtag>>

\* The type of a frame.  A tag or a data block out of turn is not read: its bytes
\* are taken for frame types.
Type(c) ==
    \/ /\ c = 1
       /\ frame' = 1
       /\ bootloader_valid' = 0
       /\ UNCHANGED <<buf, authVars>>
    \/ /\ c \in {2, 3}
       /\ IF bootloader_valid = c - 1
            THEN frame' = c /\ UNCHANGED bootloader_valid
            ELSE bootloader_valid' = 0 /\ UNCHANGED frame
       /\ UNCHANGED <<buf, authVars>>
    \/ c \notin {1, 2, 3} /\ Drop

Put(s) == toHost' = toHost \o s

Bad ==
    /\ Put(<<COMM_BADCHECKSUM>>)
    /\ UNCHANGED authVars

\* The number of data blocks a header announces.
Length(block) == 256 * block[BlockLen - 1] + block[BlockLen]

\* Slip: any length will do.
HeaderAnyLength(block) ==
    /\ expected_blocklen' = Length(block)
    /\ bootloader_valid' = 1
    /\ state_authtag' = <<Absorbed(0, block)>>
    /\ Put(<<COMM_OK>>)
    /\ UNCHANGED <<encrypted_authtag, aes_ctr_temp>>

\* Slip: state_authtag does not start from the IV again.
HeaderKeepsTag(block) ==
    LET n == Length(block) IN
    /\ IF n > MaxBlocks
         THEN /\ expected_blocklen' = 0
              /\ UNCHANGED <<bootloader_valid, state_authtag>>
         ELSE /\ expected_blocklen' = n
              /\ bootloader_valid' = 1
              /\ state_authtag' = Append(state_authtag, Absorbed(0, block))
    /\ Put(<<COMM_OK>>)
    /\ UNCHANGED <<encrypted_authtag, aes_ctr_temp>>

\* An image too long disables the bootloader, silently.
HeaderBlock(block) ==
    LET n == Length(block) IN
    /\ IF n > MaxBlocks
         THEN /\ expected_blocklen' = 0
              /\ UNCHANGED <<bootloader_valid, state_authtag>>
         ELSE /\ expected_blocklen' = n
              /\ bootloader_valid' = 1
              /\ state_authtag' = <<Absorbed(0, block)>>
    /\ Put(<<COMM_OK>>)
    /\ UNCHANGED <<encrypted_authtag, aes_ctr_temp>>

\* Slip: the counter is reset between uploads only.
TagBlockKeepsCounter(block) ==
    /\ encrypted_authtag' = block
    /\ bootloader_valid' = 2
    /\ Put(<<COMM_OK>>)
    /\ UNCHANGED <<expected_blocklen, state_authtag, aes_ctr_temp>>

TagBlock(block) ==
    /\ encrypted_authtag' = block
    /\ bootloader_valid' = 2
    /\ aes_ctr_temp' = 0
    /\ Put(<<COMM_OK>>)
    /\ UNCHANGED <<expected_blocklen, state_authtag>>

\* The tag is in its place before the checksum is looked at.
BadTag(block) ==
    /\ encrypted_authtag' = block
    /\ bootloader_valid' = 0
    /\ Put(<<COMM_BADCHECKSUM>>)
    /\ UNCHANGED <<expected_blocklen, state_authtag, aes_ctr_temp>>

\* Slip: the counter is incremented after the test for the last block.
DataBlockLate(block) ==
    LET n == (aes_ctr_temp + 1) % CounterMod
        absorbed == Append(state_authtag, Absorbed(n, block))
        last == aes_ctr_temp = expected_blocklen
    IN  /\ aes_ctr_temp' = n
        /\ state_authtag' = IF last THEN Append(absorbed, Sealed) ELSE absorbed
        /\ Put(<<COMM_OK>> \o (IF last THEN <<COMM_BADSIG>> ELSE <<>>))
        /\ UNCHANGED <<bootloader_valid, expected_blocklen, encrypted_authtag>>

\* The last of the announced blocks brings the verdict.
DataBlock(block) ==
    LET n == (aes_ctr_temp + 1) % CounterMod
        absorbed == Append(state_authtag, Absorbed(n, block))
        last == n = expected_blocklen
    IN  /\ aes_ctr_temp' = n
        /\ state_authtag' = IF last THEN Append(absorbed, Sealed) ELSE absorbed
        /\ Put(<<COMM_OK>> \o
               (IF ~last THEN <<>>
                ELSE IF Tag(absorbed) = encrypted_authtag THEN <<COMM_OKSIG>>
                ELSE <<COMM_BADSIG>>))
        /\ UNCHANGED <<bootloader_valid, expected_blocklen, encrypted_authtag>>

\* read_block has its last byte.
EndBlock(full) ==
    LET block == SubSeq(full, 1, BlockLen)
        inpcrc == 256 * full[BlockLen + 1] + full[BlockLen + 2]
        good == inpcrc = Crc(block)
    IN  /\ frame' = 0
        /\ buf' = <<>>
        /\ \/ frame = 1 /\ good /\ HeaderBlock(block)
           \/ frame = 2 /\ good /\ TagBlock(block)
           \/ frame = 3 /\ good /\ DataBlock(block)
           \/ frame = 2 /\ ~good /\ BadTag(block)
           \/ frame # 2 /\ ~good /\ Bad /\ UNCHANGED bootloader_valid

\* A getch of read_block.
BlockByte(c) ==
    IF Len(buf) < BlockLen + 1
      THEN /\ buf' = Append(buf, c)
           /\ UNCHANGED <<toHost, frame, bootloader_valid, authVars>>
      ELSE EndBlock(Append(buf, c))

Getch ==
    /\ toBoot # <<>>
    /\ toBoot' = Tail(toBoot)
    /\ LET c == Head(toBoot) IN
         /\ zeros' = IF c = 0 THEN zeros + 1 ELSE 0
         /\ \/ frame = 0 /\ Type(c) /\ UNCHANGED toHost
            \/ frame # 0 /\ BlockByte(c)
    /\ UNCHANGED <<hostVars, clean, faults>>

-----------------------------------------------------------------------------
Header == [k \in 1 .. BlockLen |->
             IF k = BlockLen THEN Len(Image) % 256
             ELSE IF k = BlockLen - 1 THEN Len(Image) \div 256 ELSE 0]
\* What state_authtag has absorbed when it has absorbed the image.
Whole == <<Absorbed(0, Header)>> \o [k \in DOMAIN Image |-> Absorbed(k, Image[k])]

ASSUME TagAssumption == Tag(Whole) \in Block

Frame(type, block) == <<type>> \o block \o <<Crc(block) \div 256, Crc(block) % 256>>
Frames ==
    <<Frame(1, Header), Frame(2, Tag(Whole))>>
      \o [k \in DOMAIN Image |-> Frame(3, Image[k])]

\* Enough zeros to end any block and be taken for a frame type.
Zeros == [k \in 1 .. BlockLen + 3 |-> 0]

Resync ==
    /\ hpc = "resync"
    /\ toBoot' = toBoot \o Zeros
    /\ hpc' = "flush"
    /\ clean' = TRUE
    /\ UNCHANGED <<toHost, bootVars, at, faults>>

Flush ==
    /\ hpc = "flush"
    /\ toBoot = <<>>
    /\ toHost' = <<>>
    /\ hpc' = "send"
    /\ at' = 1
    /\ UNCHANGED <<toBoot, bootVars, clean, faults>>

Send ==
    /\ hpc = "send"
    /\ toBoot' = toBoot \o Frames[at]
    /\ hpc' = "wait"
    /\ UNCHANGED <<toHost, bootVars, at, clean, faults>>

\* A data block with a bad checksum is sent again; after a bad header or tag all
\* starts over.
Reply ==
    /\ hpc = "wait"
    /\ toHost # <<>>
    /\ toHost' = Tail(toHost)
    /\ LET c == Head(toHost) IN
         \/ /\ c = COMM_OK /\ at < Len(Frames)
            /\ hpc' = "send" /\ at' = at + 1
         \/ /\ c = COMM_OK /\ at = Len(Frames)
            /\ hpc' = "verdict" /\ at' = at
         \/ /\ c = COMM_BADCHECKSUM
            /\ hpc' = (IF at <= 2 THEN "resync" ELSE "send") /\ at' = at
         \/ /\ c \notin {COMM_OK, COMM_BADCHECKSUM}
            /\ hpc' = "resync" /\ at' = at
    /\ UNCHANGED <<toBoot, bootVars, clean, faults>>

Verdict ==
    /\ hpc = "verdict"
    /\ toHost # <<>>
    /\ toHost' = Tail(toHost)
    /\ hpc' = IF Head(toHost) = COMM_OKSIG THEN "done" ELSE "resync"
    /\ UNCHANGED <<toBoot, bootVars, at, clean, faults>>

Timeout ==
    /\ hpc \in {"wait", "verdict"}
    /\ toBoot = <<>> /\ toHost = <<>>
    /\ hpc' = "resync"
    /\ UNCHANGED <<toBoot, toHost, bootVars, at, clean, faults>>

Host == Resync \/ Flush \/ Send \/ Reply \/ Verdict \/ Timeout

LoseToBoot ==
    /\ toBoot # <<>>
    /\ toBoot' = Tail(toBoot)
    /\ UNCHANGED <<toHost, hostVars>>

GarbleToBoot ==
    /\ toBoot # <<>>
    /\ \E c \in Noise : toBoot' = [toBoot EXCEPT ![1] = c]
    /\ UNCHANGED <<toHost, hostVars>>

LoseToHost ==
    /\ toHost # <<>>
    /\ toHost' = Tail(toHost)
    /\ UNCHANGED <<toBoot, hostVars>>

\* The host dies with a part of what it writes unsent; the user starts it again.
Restart ==
    /\ hpc # "done"
    /\ \E k \in 0 .. Len(toBoot) : toBoot' = SubSeq(toBoot, 1, k)
    /\ hpc' = "resync"
    /\ UNCHANGED <<toHost, at>>

Fault ==
    /\ faults < MaxFaults
    /\ faults' = faults + 1
    /\ clean' = FALSE
    /\ LoseToBoot \/ GarbleToBoot \/ LoseToHost \/ Restart
    /\ UNCHANGED bootVars

Done == hpc = "done" /\ toBoot = <<>> /\ UNCHANGED vars

Next == Getch \/ Host \/ Fault \/ Done

Fairness == WF_vars(Getch) /\ WF_vars(Host)

Spec == Init /\ [][Next]_vars /\ Fairness

-----------------------------------------------------------------------------
\* Types, and that no frame overruns its block.
TypeOK ==
    /\ toBoot \in Seq(Byte) /\ toHost \in Seq(Byte)
    /\ frame \in 0 .. 3
    /\ buf \in Seq(Byte) /\ Len(buf) < BlockLen + 2
    /\ frame = 0 => buf = <<>>
    /\ bootloader_valid \in 0 .. 2
    /\ expected_blocklen \in 0 .. MaxBlocks
    /\ encrypted_authtag \in Seq(Byte)
    /\ state_authtag \in Seq([n : Nat, block : Seq(Byte)])
    /\ aes_ctr_temp \in 0 .. CounterMod - 1
    /\ zeros \in Nat
    /\ hpc \in {"resync", "flush", "send", "wait", "verdict", "done"}
    /\ at \in 1 .. Len(Image) + 2
    /\ clean \in BOOLEAN
    /\ faults \in 0 .. MaxFaults

\* A MAC that a verdict may still be made of has absorbed the header that
\* announced the length in force and after it as many blocks as were counted, at
\* most that many, each with its own counter - whatever bytes came before and in
\* between, blocks with a bad checksum, dropped uploads and wrapped counters.
Open == \A k \in DOMAIN state_authtag : state_authtag[k] # Sealed
BlocksInOrder ==
    /\ bootloader_valid # 0 =>
         /\ state_authtag # <<>>
         /\ expected_blocklen = Length(state_authtag[1].block)
    /\ bootloader_valid = 1 => Len(state_authtag) = 1
    /\ bootloader_valid = 2 /\ Open =>
         /\ Len(state_authtag) = aes_ctr_temp + 1
         /\ \A k \in 2 .. Len(state_authtag) : state_authtag[k].n = k - 1
         /\ expected_blocklen # 0 => aes_ctr_temp < expected_blocklen

\* BlockLen + 3 zeros bring the bootloader to the start of an upload, wherever
\* it was: in the middle of a block, or with an upload half done.
ZerosDrop ==
    zeros >= BlockLen + 3 =>
        /\ frame = 0
        /\ bootloader_valid = 0
        /\ expected_blocklen = 0
        /\ aes_ctr_temp = 0

\* An upload that met no fault is not refused, whatever came before it: nothing
\* of an earlier upload is left in the counter, the MAC or the frame.
NeverRefused == hpc = "resync" => ~clean

\* When faults stop, the upload gets there.
Uploads == <>(hpc = "done")
=============================================================================
