# A formal model of ChipWhisperer

ChipWhisperer is a tool chain for hardware security research: a capture board
(scope) that is driven over USB from Python, a target board that runs small
programs in C, a serial protocol between the two, and a library that analyses
the traces. This directory models the parts of it where steps of several actors
meet, checks the models with TLC and proves properties with TLAPS.

Paths below are relative to the repository. In short:

| | |
|---|---|
| `SS2`, `SS1` | `software/chipwhisperer/capture/targets/SimpleSerial2.py`, `SimpleSerial.py` |
| `FW` | `firmware/mcu/simpleserial/simpleserial.c` |
| `BASE` | `firmware/mcu/simpleserial-base/simpleserial-base.c` |
| `BOOT` | `firmware/mcu/bootloader-aesccm/bootloader.c` |
| `NAE` | `software/chipwhisperer/hardware/naeusb/naeusb.py` |
| `OA`, `OAI` | `OpenADC.py`, `_OpenADCInterface.py` in `software/chipwhisperer/capture/scopes/` |
| `TU`, `REG`, `FIFO` | `trigger_unit.v`, `reg_openadc.v`, `spartan6/fifo_top.v` in `openadc/hdl/hdl/` |

## 1. Inventory

Who talks to whom, when one trace is captured:

    user's thread                                     target board
      capture_trace (__init__.py)
        |-- scope.arm() --- OpenADC --- OpenADCInterface ---+
        |                                                   | USB
        |-- target.write('p') -- SimpleSerial(2)            v
        |       |-- serial reader -- USART -- NAEUSB --> capture board
        |                                              |  UART  |  trigger, ADC
        |-- scope.capture()                            v        |
        |       ^ drx, stop                     simpleserial.c -+
        |       |                               (target program)
        |   streaming thread --- libusb, asynchronous transfers --- FPGA FIFO
        |-- target.read('r'), ack 'e' or 'z'                           ^
                                                       trigger unit ---+

| component | state | operations | interacts with |
|---|---|---|---|
| SimpleSerial v2.1 framing (`FW`, `SS2`) | a buffer rewritten in place, loop indices | `stuff_data`, `unstuff_data`, `_stuff_data`, `_unstuff_data`, CRC | both ends of the link |
| SimpleSerial v2.1 target (`FW`, `BASE`) | `data_buf`, `next_frame`, table of commands, the key | `simpleserial_get`, `simpleserial_put`, callbacks | UART in both directions |
| SimpleSerial v2.1 host (`SS2`) | `_flush_on_err`, `last_key`, the call in progress | `con`, `set_key`, `simpleserial_write`, `simpleserial_read`, `simpleserial_read_witherrors`, `simpleserial_wait_ack`, `get_simpleserial_commands`, `read_cmd`, `reset_comms`, `flush_on_error` | serial reader, the user |
| SimpleSerial v1 target (`FW`) | `ascii_buf`, the table of commands, which also holds the length of a variable-length one | `simpleserial_get`, `simpleserial_put`, `simpleserial_addcmd` | UART |
| SimpleSerial v1 host (`SS1`) | `last_key`, the call in progress | as for v2.1, without a reset | serial reader, the user |
| AES-CCM bootloader (`BOOT`) | type and block of a frame, counter, MAC, announced length, tag | the loop of `main` | UART |
| Husky streaming thread (`NAE`) | `drx`, `stop`, `dbuf_temp`, transfers submitted and not | `run`, `callback` | libusb, the user's thread |
| OpenADC arm and capture (`OA`, `OAI`) | `cached_settings`, `_fast_fifo_read_active`, sample buffer | `arm`, `capture`, `triggerNow`, `startCaptureThread`, `readData` | streaming thread, FPGA registers |
| trigger unit (`TU`, `REG`, `FIFO`) | armed, armed_led, reset_arm, capture_go, delay, sample counter, the words in the FIFO | one clock edge; a write to the settings register; a read of the FIFO | OpenADC, the trigger line |
| capture of a trace (`__init__.py`) | none | `capture_trace` | scope and target |
| serial reader, USART (`simpleserial_readers/`, `naeusb/serial.py`) | receive queue, transmit window, timeout | `read`, `write`, `flush`, `inWaiting` | NAEUSB control transfers |
| Pro streaming thread (`NAE`) | `drx`, `timeout` | `run` | one blocking USB read |
| NAEUSB backend (`NAE`) | USB handle, features of the firmware | control and bulk transfers | everything on the board |
| glitch, clock, trigger, SAD, trace blocks (`cwhardware/`, `trace/`) | registers in the FPGA | read-modify-write properties | OpenADC registers |
| ChipWhisperer-Nano (`cwnano.py`) | ADC settings, last trace | `arm`, `capture` | NAEUSB |
| FPGA targets (`CW305.py`, `CW310.py`, ...) | clock chip, registers | `fpga_read`, `fpga_write`, `go` | NAEUSB |
| programmers (`naeusb/programmer_*.py`) | chip type, page buffers | `find`, `erase`, `program`, `verify` | boot loaders of the chips |
| projects and traces (`common/`) | segments, files, wave and text arrays | `save`, `load`, `append`, `get_segment` | file system |
| glitch results (`common/results/glitch.py`) | parameter ranges, groups of results | `glitch_values`, `add` | the user's loop |
| analyzer (`analyzer/`) | correlation accumulators | `cpa` updates | traces |
| HAL, crypto (`firmware/`) | target side | | UART |

What is hard in them, and what "correct" means there. PROJECT.json lists these
as hazards, each at its line.

* Framing. Two loops in two languages, one in `uint8_t`; the target takes the
  stuffing out in two passes that meet wherever the codes happen to fall among
  the first four bytes. Correct: what was stuffed comes back, no well-formed
  frame is refused, and the frame byte is nowhere but at the end.
* The v2.1 link. The target answers an error in the middle of a frame and then
  takes the rest of it for new frames; it does not listen while it answers; the
  host gives up on an answer that is still coming; a CRC is checked by one way of
  reading and only warned about by the others. Correct: both ends find back to
  the start of a frame, no answer is given to the wrong call, an acknowledged
  command ran, and every call returns.
* The v1 link. No checksum, no reset and no number on a command: a newline ends
  a line, and the host flushes before it writes. The length of a variable-length
  command comes in two digits the firmware does not look at before both are in.
  Correct: the next whole line brings the target back, and the same promise.
* The bootloader. A byte lost shifts the frames into each other; counter, MAC
  and length outlive an upload. Correct: what is verified is what was announced,
  in order, and there is a way back to the start from anywhere.
* Streaming. The thread, the callback (on whichever thread is in a USB call) and
  `capture()` share `drx`, `stop` and the buffer; the kernel takes only some of
  the transfers; failed ones are submitted again. Correct: a capture that is not
  reported as timed out is the whole stream in order, nothing of one capture
  reaches the next, and `capture()` returns.
* Capture without streaming. A status that is read before the action it is
  tested after, settings cached on the host, an arm command that takes four
  clocks to arrive, a trigger at any of them, a FIFO that may hold the samples of
  an interrupted capture. Correct: one shot per arming, a capture without a
  timeout is whole, and the register is left clean.
* A trace. Wave, response, plaintext and key come from four calls and nothing
  compares them. Correct: they belong together.

## 2. Modules

| module | models | proved in |
|---|---|---|
| `SSv2Cobs` | stuffing and unstuffing of one frame, one loop iteration per action | `SSv2Cobs_proofs` |
| `SSv2Frame` | frames and CRC as functions | `SSv2Frame_proofs` |
| `SSv2Target` | the v2.1 target's main loop, one `getch` or `putch` per action | |
| `SSv2Link` | the calls of the v2.1 host, the target, and a line that loses and garbles | `SSv2Link_proofs` |
| `CallLink` | abstract: what a SimpleSerial link promises its user | |
| `SSv1Target` | the v1.1 target's main loop, one `getch` or `putch` per action | |
| `SSv1Link` | the calls of the v1 host, the target, and a line that loses | `SSv1Link_proofs` |
| `TraceCapture` | `capture_trace` over `SSv1Link` and a scope | `TraceCapture_proofs` |
| `TriggerUnit` | the FPGA's trigger unit, one clock edge per action; its own specification with any host | `AdcCapture_proofs` |
| `AdcCapture` | `arm()` and `capture()` without streaming, beside `TriggerUnit` | `AdcCapture_proofs` |
| `StreamThread` | the Husky streaming thread, libusb, kernel, device | |
| `HuskyCapture` | `arm()` and `capture()` with streaming, beside `StreamThread` | `HuskyCapture_proofs` |
| `BootAesCcm` | the AES-CCM bootloader, a host, and a line that loses and garbles | `BootAesCcm_proofs` |
| `MC...` | values of the constants for TLC | |

`SSv2Target` extends `SSv2Frame`, and `SSv2Link` extends `SSv2Target` with the
host; `SSv1Target`, `SSv1Link` and `TraceCapture` extend each other in this
order; `HuskyCapture` extends `StreamThread`, and `AdcCapture` `TriggerUnit`,
with the user's thread. In each module a definition named after a function of
the code is its translation; PROJECT.json gives the lines of every one. A
definition whose comment begins with "Slip:" or "A bug:" is a plausible mistake
in the function that follows it, which no behaviour uses; it is there to see
that a property would notice.

### SSv2Cobs

State: `buf` (the code's `buf`, rewritten in place), `orig` (what it held
before), `i` and `last` of the stuffing loop, `next` and `tmp` of the unstuffing
loop, `base` for the `data_buf + next_frame` of the second pass. `pc` says which
loop runs. `dir` chooses between a command (host stuffs, firmware unstuffs in
two passes) and a response (firmware stuffs, host unstuffs in one). Firmware
arithmetic is modulo 256, host arithmetic is not.

### CallLink and the property Promise

`CallLink` knows calls (`open`), requests written (`sent`) and run (`ran`), and
what the last call returned. Its steps say: the target runs only what was sent,
in order and nothing twice (`Embeds`); a call returns a payload or a code OK only
of its own request, run last of all (`Honest`); every open call is closed. A
host may be in `doubt`: something has happened which this protocol gives it no
means to notice, and `Honest` is not asked of its result - the rest is.

`Promise` in `SSv1Link` and in `SSv2Link` is this specification under a
refinement mapping, checked by TLC as a property of each link. `doubt` is mapped
to the following and nothing else. In v2.1, to a byte lost or garbled on the way
to the host for calls that do not check the CRC, and to a `_flush_on_err` left
overridden (finding `flush_override`). In v1, to a flush that came before the
target had finished with an earlier call (`late`).

### SSv2Target and SSv2Link

Each direction of the serial line is a sequence of bytes, from the sender's
`write` or `putch` to the reader's `getch` or `read`; the USB transfers, buffers
and queues in between are part of that sequence. `data_buf` is what
`simpleserial_get` has read of its frame: `Getch` appends one byte and does
everything the code does before its next `getch`, which includes running the
callback and filling `tx`, from which `Putch` sends. `Getch` has room for
`MAX_SS_LEN` bytes, as `data_buf` has: a length byte beyond that makes the code
write past the array, which C leaves undefined, so the model reads no further.
No host here sends such a length; a garbled one may be too big, but the next
FRAME_BYTE ends that frame long before the array does. The fixed table of
commands is the one `main` of `BASE` makes; `BlockLen` stands for the 16 bytes
of a block. A history variable `ran` has the commands that returned
`SS_ERR_OK`.

A call of the user is a plaintext with its answer and ack ("pt"), the same with
`simpleserial_read_witherrors`, with the payload's length given ("errs") or not
("errs3"), `set_key` ("key"), an unknown command with `simpleserial_wait_ack`
("bad"), or `get_simpleserial_commands(flush_on_err=False)` ("list").

The host is a program counter `hpc` with one point for each place where the
code waits: the sleep in `reset_comms` ("reset") and in `flush_on_error`
("flush"), the first and the second read of `read_cmd` ("first", "second"), the
extra byte of an error packet ("errorbyte"), the reads of
`simpleserial_read_witherrors` ("errs", "errs3", "errs4") and the one that takes
whatever comes within `glitch_timeout` ("drain"), and the points of `con`,
`set_key` and `get_simpleserial_commands` between two such waits. `ret` is the
stack of where `reset_comms` and `flush_on_error` go back to. Between two waits
everything the code does is one action: `SecondRead`, for instance, unstuffs
the packet, restores `_flush_on_err`, and either goes on to the ack or returns.
Errors that raise (`x[-1]` of an empty string) are actions, too.

A read times out whenever not enough bytes are there, if `Slow`; otherwise only
when the target is not going to send any. `Settles` says which sleeps are taken
to be longer than what the target is doing: with "reset" left out of it (a
target that works for more than 50 ms) `InStep` is false, since `reset_comms`
looks at the receive buffer once and finds it empty. This is the assumption the
code makes in `reset_comms`; all runs state it.

Faults: the target misses a byte while it answers ("overrun"), a byte on the
way to it is garbled ("noise"), one on the way to the host is lost ("loss") or
becomes a frame byte, and with it a length, a code of the stuffing or a return
code ("garble").

### SSv1Target and SSv1Link

The table of commands is built by `addcmd` from the constant `Program`, the
commands a firmware registers. `cmd` is the place in it of the line being read,
`lenBuf` the digits of its length, `ascii_buf` its payload; `Getch` does what
the code does up to the next `getch`, `Return` being the early returns. The
length of a variable-length command is kept in the table itself, as in the code,
where the next use and the list of commands find it.

The host has the same calls; "mask" is a command with a length of its own. A
character that the target or the board's buffers lose sets the history `hit`
until the next whole line has begun; `late` says that the flush of the call in
progress came while the target was still busy. The line has no checksum, so
garbled characters are not modelled: nothing could be promised of them.

### TraceCapture

`step` is how far `capture_trace` has come; the steps of its calls on the target
are those of `SSv1Link`, interleaved with the target's. The scope is what
`OneShot` and `OkMeansWhole` say of it: armed, it takes the first trigger, and
`capture()` returns that or a timeout. A wave is the number of the operation it
shows in the history `ran`; a plaintext sets the trigger whether it comes with 'p'
or 'f'. The shot is the operation whose samples are first in the FIFO: `capture()`
reads them out, a Ctrl-C leaves them, and then the next wave shows them. `stale`
records that the target was busy, or such samples were there, when the
scope was armed, `held` the key it acknowledged last. A `KeyboardInterrupt` may
end the call anywhere.

### TriggerUnit and AdcCapture

`Edge(t)` is one edge of the ADC clock with the trigger line at level t: every
register of `trigger_unit.v`, the arm pipeline of `reg_openadc.v` before it and
the writing side of `FIFO` behind it change at once. `CountSamples` ends the
capture when there are enough samples or the FIFO is full; `PackSamples` puts
three samples in a word, and a word in the FIFO, which holds `Depth` of them.
`WriteSettings` is a write to the settings register and `ReadWords` a read of
the FIFO, at any time between two edges. The FIFO is read four words at a time,
is reset when a read leaves fewer, and gives nothing while samples go in or
when it has fewer than four to begin with. `UnitSpec` is the unit with an
arbitrary host.

`AdcCapture` puts `OA.arm`, `OA.capture` and the functions of `OAI` they call in
the place of that host, one action per USB message: `pc` names the message,
`busy` counts the clocks it takes at least, `cached` is `cached_settings`,
`status` the status word the loop tests. `ReadData` is what `OA._capture_read`
takes out of the FIFO after the interface's `capture()` has returned; a Ctrl-C
before it leaves the samples there for the next capture. `started` and the
unit's histories (`line`, `shots`, `cause`, `missed`, `found`: the words that were in the
FIFO at the time of arming) are read by the properties only.

### StreamThread and HuskyCapture

Byte k of stream g is the pair `<<g, k>>`, so the properties see bytes lost,
repeated, out of order or of another capture. `queue` has the transfers the
kernel holds and `done` those that finished and whose callback is still to be
called; libusb calls the callbacks in order. `wpc` is where the thread is:
"submit" (the first loop of `run`), "poll" (`handleEvents`), "stop" (the test of
`self.stop`), "resubmit" (the loop over the transfers that were kept, which
removes from the list it walks over, so that it passes over the next), "ended".
`Callback` is `callback()`, case by case. `ReapElsewhere` is the callback on the
user's thread: libusb handles the events of all transfers in whichever thread is
in a synchronous transfer.

`mpc` goes through `arm()` (disarm and arm the scope, fast FIFO read on, join
the last thread, start the next) and `capture()` (poll, sleep, time out, trigger
by hand, set `stop`, fast FIFO read off, join, disarm, read). A
`KeyboardInterrupt` can end `capture()` anywhere while it waits.

### BootAesCcm

`frame` and `buf` are the type and the bytes of the frame being read; the other
variables have the code's names. `Getch` takes one byte, and with the last of a
block does all the code does with it. A tag is in its place before its checksum
is looked at (`BadTag`). The cipher is ideal: `state_authtag` is the
list of what has been absorbed, and `Tag` any function of it. The host is
external, as the repository has none: it writes zeros until the bootloader must
be at its start, sends frame by frame, and begins again when a reply is not the
one it expects or does not come.

## 3. Runs

| run | constants that matter | what it shows |
|---|---|---|
| `cobs` | 5 byte values, frames of 6 to 8 bytes | every such frame, in both directions, is restored (`RoundTrip`), accepted (`NeverRejected`), has one frame byte (`OneFrameByte`), and is done in the end (`Decoded`) |
| `link` | 2 calls of 6 kinds, slow target, one fault of 4 kinds | the ends are in step again after any call (`InStep`, `TargetInStep`), a frame byte ends the frame in progress (`FrameByteResyncs`), an OK means that the command ran (`OkMeansRan`), and the link keeps its promise (`Promise`, which includes that every call returns) |
| `ssv1` | 2 calls of 6 kinds, blocks of 2, slow target, one loss of 3 kinds | the next whole line brings the target back (`InStep`), the list of commands is the target's table (`ListIsTable`), no damaged line brings more characters than the table says (`TypeOK`), and the link keeps its promise (`Promise`) |
| `trace` | 2 calls, 2 keys, one loss, Ctrl-C | wave, response and plaintext of a trace are of one operation (`TraceIsOurs`), its key is the one the target used (`KeyIsTargets`), every call returns (`TraceReturns`) |
| `capture` | offset 10, 4 samples, a FIFO of 4 words, edges, Ctrl-C, a clock that may stop | one shot per arming (`OneShot`), started by an edge (`OnEdgeOnly`), whole when there was no timeout and the FIFO had room (`OkMeansWhole`); the first status sees the arming (`FirstStatusSeesArm`); the register is left clean (`LeavesUnitAlone`); `capture()` returns (`CallsReturn`) |
| `stream` | 5 bytes in transfers of 2, room for 2 of 3, 2 captures, two failures of 3 kinds | a good capture is whole (`OkMeansWhole`) and in order (`InOrder`), nothing is in flight after it (`NothingInFlight`), a capture that still lacks bytes and has not been told to stop leaves no transfer unsubmitted (`NoneForgotten`), the next `arm()` can read its registers (`ArmWorksAfterCapture`), every call returns (`CallsReturn`) |
| `stream_interrupt` | 3 captures, 2 interrupts, room for all, no ADC clock assumed | interrupted captures do not leak into the next; the calls return |
| `boot` | blocks of 2, image of 3, counter modulo 8, 3 faults | the MAC absorbs what was announced, in order (`BlocksInOrder`); zeros bring the bootloader back (`ZerosDrop`); an upload without a fault is accepted (`NeverRefused`), and one gets there (`Uploads`) |

Four runs end in a violation, on purpose: each checks one sentence of the
documentation or of a docstring that the code does not keep.

| run | property | what the code does |
|---|---|---|
| `flush_override` | `FlushAsConnected` | a `read_cmd` with `flush_on_err=` that returns early leaves the override in place for all later calls |
| `zero_key` | `KeyWasSent` | `last_key` starts as sixteen zeros, so a first key of sixteen zeros is never sent |
| `stream_hang` | `CaptureTimesOut` | `stop` is taken back before the transfers kept for later are submitted; without an ADC clock nobody ends those, and the join never returns |
| `stream_rearm` | `ArmErrorDisconnects` | `arm()` twice without `capture()` raises outside of the `try` that would disconnect the scope |

### Bounds, and why they are enough

* Frames of 6 to 8 bytes (`cobs`): 6 is the shortest command; the two passes of
  the target meet at byte 4, so 8 bytes have codes that end before, in, at the
  edge of and behind the header. The values 1 to 4 are lengths and can be taken
  for codes; 255 makes an unchecked sum wrap. The proof covers all lengths.
* Two calls (`MaxCalls`) on a link: one whose answer is late or damaged and one
  that may get it. What a call leaves behind is flushed or not when it ends, so a
  third has the same start as the second. The two plaintexts differ, so an
  answer of the wrong call shows. One fault (`MaxFaults`) per behaviour; all
  places of it are tried. A block of one byte (`BlockLen`), zero and not zero,
  since zero is the value the stuffing changes; two bytes in v1, so that a line
  may lose one digit and keep another. The v1 plaintexts contain digits that are
  letters of commands ('f') or look like a length. The leftovers an earlier
  session may have left are none or most of a command.
* Two traces, with two keys to choose from: the first leaves a key, an answer, a
  timed-out operation or an armed scope behind, the second finds it.
* `capture`: a message takes at least 6 ADC clocks (a USB message takes
  microseconds at the least, and with fewer the arm command, which passes four
  registers, could still be on its way when the status is read), and the 50 ms
  of `triggerNow` at least 12; the offset is longer than a message, so a capture() may
  read its status before, in and after the delay. Four samples fill a word and
  begin the next, which the two clocks the capture runs on fill up. So a capture
  takes two words and the FIFO holds two captures: one is too little to be read,
  and is found there by the next, which has room; what is interrupted then finds it
  full. Calls are not bounded. Without `Room` in them `OkMeansWhole` and
  `FirstStatusSeesArm` are false on this run.
* Five bytes in transfers of two: three transfers, the last of them short; room
  for two or for three. Two captures, one to leave something behind and one to
  find it; three with interrupts, where an `arm()` may find the thread of an
  interrupted capture. `MaxGlitches` bounds failing transfers.
* `boot`: the counter wraps after 8 blocks, an announced length is at most 4,
  the image has 3 blocks, two of them equal. Its bytes are frame types, so that
  a shifted frame is taken for others. Any three faults, of a byte
  lost, a byte garbled and a host that dies, may meet.

### Fairness

`SSv2Link` and `SSv1Link` assume that the steps of a call in progress go on
(`WF(Host)`: the user's thread runs, its reads and sleeps end) and that the
target's main loop does (`WF(Target)`). Nothing is assumed of faults or of the
user. `TraceCapture` assumes the same of `capture_trace` and the target; no
trigger need come, as `capture()` times out. `AdcCapture` assumes that the user's
thread goes on, that its timeout runs out some time (`WF(Expire)`), and that the
ADC clock ticks while it runs (`WF(Tick)`).
`HuskyCapture` assumes that the call in progress and the streaming thread go on
(handleEvents of libusb returns after its own timeout, so polling goes on
with no event). The device delivers (`WF(Deliver)`) only if `ClockRuns`: once
triggered, and `triggerNow` triggers it, a clocked ADC fills the transfers.
`BootAesCcm` assumes that the bootloader reads what there is and that its host
goes on; the host is external, so `Uploads` says that the bootloader can be
uploaded to by a host of this kind, not that every host manages to.
Deadlock is checked in all runs but `cobs`, where a frame that is done stops.

## 4. Proofs

Each theorem below is of the form `Spec => []P` for a property P of a run,
unless it says otherwise, and holds for every value of the constants that their
assumptions allow, so for any number of calls and faults.

| module | theorem: property |
|---|---|
| `SSv2Cobs_proofs` | `Typing`: `TypeOK`; `FrameByteEndsFrame`: `OneFrameByte`; `UnstuffInvertsStuff`: `RoundTrip`; `WellFormedAccepted`: `NeverRejected` |
| `SSv2Frame_proofs` | `HostReadsPacket`, `TargetReadsCommand` (of the functions, see below), and lemmas |
| `SSv2Link_proofs` | `TargetFindsBack`: `TargetInStep`; `Typing`: `TypeOK`; `FrameByteEnds`: `FrameByteResyncs` (an action property); as long as there has been no fault, `CleanInStep`: `InStep` and `CleanOkRan`: `OkMeansRan`; `CleanPromise`: the steps of `CallLink`, likewise; `CommandRuns` (of a single step, see below) |
| `SSv1Link_proofs` | `LineResyncs`: `InStep`; `Typing`: `TypeOK`; `ListIsWhole`: `ListIsTable` |
| `TraceCapture_proofs` | `TraceOwn`: `TraceIsOurs`; `TraceKey`: `KeyIsTargets`, both of `TraceSpec` |
| `AdcCapture_proofs` | `OneShotPerArming`: `OneShot` and `StartsOnEdge`: `OnEdgeOnly`, both of `UnitSpec`, with any host; `ImplementsUnit`: `Spec => UnitSpec`; from it `CaptureOneShot`: `OneShot` and `CaptureOnEdge`: `OnEdgeOnly`; `CaptureTypes`: `TypeOK`; `RegisterLeftClean`: `LeavesUnitAlone`; `FirstStatusInTime`: `FirstStatusSeesArm`; `OkIsWhole`: `OkMeansWhole` |
| `HuskyCapture_proofs` | `StreamTypes`: `TypeOK`; `GoodCaptureIsWhole`: `OkMeansWhole`; `BytesInOrder`: `InOrder`; `NothingLeft`: `NothingInFlight`; `ArmAfterCapture`: `ArmWorksAfterCapture`; `NothingForgotten`: `NoneForgotten` (an action property) |
| `BootAesCcm_proofs` | `Types`: `TypeOK`; `MacInOrder`: `BlocksInOrder`; `ZerosBringBack`: `ZerosDrop`; `CleanUploadAccepted`: `NeverRefused` |

**SSv2Cobs.** For frame lengths from 6 to 249 (`MAX_SS_LEN`). `RoundTrip` alone
is not inductive: it says nothing before the end. `IInv` adds
what each loop has done so far. `CodedAt(j)` says that position j of the
buffer is as on the wire: a frame byte of the original is now the distance to
the next one, any other byte is itself. `StuffInv` says that everything before
`last` is coded and everything from it on still original; `WireInv` that all of
it is coded. `Restored(p)` says that everything before p is original again, that
p is the place of a frame byte, and that the rest is still coded; it holds of
`next` in the header pass (`HeaderInv`) and in the host's (`HostInv`), and of
`base + next` in the second pass (`RestInv`), which is why the two passes may
meet anywhere. The lemma `TakeOut` is the common step of all three unstuffing
loops; `StuffStep` that of both stuffing loops. There is one lemma per action,
and `Invariance` collects them.

**SSv2Link.** `TargetInStep` is not inductive: it only speaks of an empty line.
`LineInv` adds that, unless a byte to the target was garbled, after `con` a line
that is not empty ends in a FRAME_BYTE (`Aligned`), and
that a target that answers has an empty buffer. Whatever the host appends,
`StuffEnds` leaves its last byte a FRAME_BYTE; a byte is missed only from the
front and only while the target answers, so missing the last one leaves it at
the start of a frame; and if the target reads the last one, `GetchClears` says
that every `Getch` of a FRAME_BYTE ends the frame. With noise it is false: the
garbled byte may be the last.

`Typing` and `FrameByteEnds` hold with noise, too. They need `IInv`:
`Receiving` (`next_frame` and what has come lie inside the frame that the length
in the header announces, so that the two unstuffing passes split it where the
code does), `Stack` (where `reset_comms` and `flush_on_error` return to) and
`Partial` (how many bytes of an answer there are at which point). That an
answer is bytes at all, and not empty, rests on the functions of `SSv2Frame`:
the CRC of bytes is a byte, a distance of the stuffing fits one, and unstuffing
turns entries into 0 and does nothing else (`Zeroed`). Three of these are loops.
`SSv2Frame` defines them by a recursive function over the number of iterations,
and `SSv2Frame_proofs` has what is needed to reason about those: `SetInduction`
(induction with a set in place of a predicate, from the well-foundedness of the
naturals), `Loop` and `PassSteps` (the function exists and its values are
the steps of the loop), `Stays` (what an iteration keeps holds all along).
Assumed is that payloads fit a frame (`FitsAssumption`: the target's
`data_buf` has `MAX_SS_LEN` bytes) and that registered blocks are shorter than
`MAX_SS_LEN`, as `simpleserial_addcmd` demands.

With the same means `SSv2Frame_proofs` shows that unstuffing inverts stuffing.
`StuffAt` says of the code at a frame byte that it leads to the next one, so
`Chained` is what both loops keep: `next` is the place of a frame byte, what is
before it is as it was, the rest is still stuffed. Every iteration that finds
work gets ahead (`GetsAhead`), so the loops get to the end of the buffer
they were given (`HostInverts`, `TargetInverts`). The target takes a frame in two
parts; `SuffixStuffed` says that the second is stuffed as if it were a frame of
its own, and `TargetReadsBack` joins them. The results are `HostReadsPacket`
(`_unstuff_data` gives back what `simpleserial_put` stuffed, for every packet that
fits its buffer of `MAX_SS_LEN + 5` bytes) and `TargetReadsCommand` (a frame of
`send_cmd` that fits `data_buf`, so with at most `MAX_SS_LEN - 6` bytes of data,
passes every check). From the latter
`CommandRuns` follows: `Reading(f, i)` says that the target has read the first i
bytes of the frame f, and a `Getch` of the next byte leads to
`Reading(f, i + 1)` or, with the last byte, to the callback with the subcommand
and data that were sent; the theorem says of f that it fits `data_buf`, too.
`Reading(f, 0)` is a target at the start of a frame, which is what `TargetFindsBack` gives.

From these two follows what the whole link does on a *clean line*, one on which
nothing was lost or garbled (`faults = {}`), for any calls in any order. The
target may be late, so that any read times out and the answer comes in the
middle of the reset, or of the next call. `CleanInv` follows each request
byte by byte. `Asked(q)`: the target has read a beginning of the frame and the
line brings the rest of it. `Answered(q, j)`: it has run the command, and what is in
the line to the host and in `tx` follows the first j bytes of its answer, which
the host has taken (`Follows`, `Had`). `Underway` says which of these holds at which
program point that reads, `Place` that at all others the line is quiet (`Settled`)
and that a call which has returned OK had its own command run last. `CleanStep`
has every way out of `Underway`: the answer is read and judged, or a timeout or
an error leads into `reset_comms` or `flush_on_error`, at whose end nothing is
left. `CleanInStep` and `CleanOkRan` are what this comes to when no call is in progress.

`CleanPromise` is the refinement of `CallLink` on such a line: the initial states are
its initial states and every step is one of its steps, or none. It needs two
histories related that `CleanInv` does not speak of. `Sequel` says that what has
run was sent, in order and at most once (`Ordered`), and that the line to the
target holds nothing but what may still run: the frame sent last (`Sends`), a
beginning of one from an earlier session (`CutShort`), what is left of a command
the target did not know (`Scraps`), or only FRAME_BYTEs (`Nothing`). `Told` says
that a payload the host has got hold of is the data of the call in progress,
which has run; it comes through the unstuffing of a packet read in two parts (`Joined`).

What is assumed:

* `Prompt`: the 50 ms of `reset_comms` and the `glitch_timeout` outlast the target, as
  the code relies on (section 2, on `Settles`). The sleep of `flush_on_error` and all
  timeouts of reads may be too short.
* `Blocks`: plaintexts and keys are blocks, as the commands of `BASE` are registered.
* `CutOff` (`CleanPromise` only): what an earlier session left over is a command cut
  off at least two bytes short of its end. One that lacks only its terminator is completed by the first
  FRAME_BYTE of `con` and runs, though nobody of this session sent it.
* `Scattered` (`CleanPromise` only): the target takes the rest of a command it does not
  know, four bytes at a time, for headers of frames; none of them names a command it has.
  Otherwise the data of such a command may run as a command of its own.

TLC finds all four to hold of the constants of the run `link`. `Good` in the
theorem says that errors are flushed, or that `get_simpleserial_commands` will
see to it; where they are not (finding `flush_override`) `CallLink` is in doubt.

**SSv1Link.** A newline ends every line the target is in, except while it waits
for the second digit of a length, which it does not look at before it has it. So
`Ends` says that the line on its way ends in a newline whose predecessor is not
the letter of a command with a length, and that a target with only the newline
left to read is not at the first digit. `Registered` is computed by a fold, of
which the prover knows nothing; what the proofs need of it - the bounds of
`simpleserial_addcmd`, only 'm' has a variable length, no letter is a newline -
is `RegisteredAssumption`, which TLC evaluates for the table of the run.

`Typing` adds `Types` to that invariant. Its core is `Filled`: the buffers are
empty between lines, the payload is empty until the length is in - so that a
length that changes in the table never finds a payload longer than it - and the
length of a command of fixed length is the one that was registered. The rest
follows what is computed through both conversions: digits of bytes are
characters (`HexBytes`, `PutBytes`, `LineBytes`, `ListedBytes`), pairs of digits
are bytes whatever arrives (`DecodeBytes`, `IntOfByte`, `PayloadBytes`). It is
assumed that payloads have at most 64 bytes (`FitsAssumption`), for more
`simpleserial_write` raises `ValueError`.

`ListIsTable` and the two properties of a trace rest on what `Asked(c, d)` says
of a line with letter c and data d that was written to a target which had
finished. Either the target is still reading it (`Reading`): what is to come is
a part of the line, its end maybe lost, and the target has taken the letter for
one and the digits since for the payload (`Accepted`), or has something no
command can come of (`Spoilt`): a digit that is none, or the digits of a command
that misses more of them than are left. Or its command has run, last of all
(`Answered`), and what the host hears is the whole answer but for one
character at most (`Heard`). `LetterComes`, `RestComes` and `SpoiltStays` are the
`Getch` of each case; `ReadingGetch`, `AskedTarget` and `AskedFault` put them
together. A response in which a character is missing has the wrong end
(`HeardResponse`), so a payload that is read is the one that was put
(`DecodedPut`: decoding inverts `simpleserial_put`). `ListInv` carries this
through the two commands of `get_simpleserial_commands`; `Flattened` shows by
induction that the list of triples the target puts is the table. The only
letters that are also digits are those of commands like 'f', and a line whose
first letter is lost may call one of them with what is left: `Long(d)` says
that such a command takes at least the bytes of d, and then the newline comes
before they are there. The lines of a list have no data, so for them it holds
without an assumption.

**TraceCapture.** `Control` says how the steps of `capture_trace` and the points
of the link go together, `Fresh` what is known from the arming of an idle target
on: the plaintext is the only line on its way and nothing has triggered, or it has run, and
the shot the unit holds is its own. `KeyInv` is independent of the
arming: once a key is acknowledged on a quiet line, no letter of a key is on its
way, none is being read (`NoKey`), and that key is the last that ran (`KeyRan`);
a plaintext has no such letter in it (`LineNoKey`) and a lost character brings
none. Assumed is that a command called by a hex digit takes no less than a
plaintext or a key has (`LettersAssumption`; 'f' takes the 16 bytes both have).
Without it both properties are false: a plaintext that has lost its 'p' might run a
shorter command of its digits, which triggers the scope.

**TriggerUnit, AdcCapture.** `OneShot` needs to know that a unit which has fired
remembers it until the arm command goes away (`Remembered`), `OnEdgeOnly` that one
which listens has seen the line inactive (`Listens`). Both are proved with an
arbitrary writer of the register; `ImplementsUnit` shows that every step of
`AdcCapture` is a step of the unit, a write, or a stutter, and carries them over.
`Leaving` says what the register holds on each of the ways out of `capture()`.
`OkMeansWhole` and `FirstStatusSeesArm` relate the clocks of the unit to the
messages of the host. A capture that the line has started goes through five
phases: it waits for the offset (`Waits`), takes samples (`Takes`), runs on for two
clocks after the counter has reached `Samples` (`RunsOn`, `Ends`), and is over
(`Ended`). `Packed` counts what has been taken as three samples for each new word
in the FIFO, three for a complete one on its way, and those of the word not
complete; in each phase it equals the sample counter (`PackEdge`, `ShotEdge`).
That no word is dropped and the counter, not a full FIFO, ends the capture is
where `Room` is needed. A capture takes two samples more than it was asked for, so the last word
with one of `Samples` in it is always complete. `Left` bounds the clocks to the last word:
those of the sleep and four more, which the message of `arm(False)` takes.

`Path` says, for each program point of `capture()`, how far
the arming has come at least: `OnArmed` counts the clocks of the arm pipeline
against those the message has left (a message takes at least `MessageClocks`,
six or more), `OnPass` that a status which shows "not armed" comes from a unit
that has triggered, `OnEndRead` and `OnEndWrite` that what is left of the
samples is covered by what is left of the sleep and the messages, and `Over` that
then all of them are there. All this is said of an arming with room in the FIFO
that has not missed its trigger (`Kept`).

**HuskyCapture.** Between what is in the buffer (`drx`), the finished transfers
whose callback is to come, and what the device has sent (`pos`) nothing is
missing (`Exact`), and the buffer is right so far (`InPlace`); or something was
cancelled, and then `drx` lags behind for good (`Lost`), so the capture can never
look whole. `Owners` says that only the last thread has transfers anywhere,
`Untold` that without interrupts nobody tells a thread to stop before its own
capture has timed out. For `NoneForgotten`, `Kept` says that, without interrupts and as
long as bytes are missing and transfers are kept back, the thread is still in a
part of its loop from which it comes back: it submits or polls, or it submits
again and, past the first one, the kernel still has a transfer or one waits for
its callback (`NoRoom`: the kernel refused because it is full). The property asks for no interrupt and for
missing bytes: transfers that failed part of the way are submitted again in full
and may bring everything early, and then some that were kept back are not needed.

**BootAesCcm.** `BlocksInOrder` and `TypeOK` are inductive with `InTurn`: a block
is read only in its turn. `ZerosInBlock` makes `ZerosDrop` inductive: the zeros
that came last are all in the block being read, or one of them dropped all.
`NeverRefused` is about what the two ends agree on: `Smooth` says that, as long
as the upload has met no fault, the zeros read and still to come suffice
(`Sweeping`); or the bootloader has taken exactly the frames before the one the
host is at (`Ready`), has that one split between the line and its block
(`Underway`), or has taken it and answered as the host expects (`Taken`).

Only model-checked:

* `InStep` and `OkMeansRan` of the v2.1 link when something was lost or garbled, and
  with it the steps of `CallLink`. They are not true for all values of the constants: what is left of
  a frame of which something was lost may, for payloads chosen for it,
  be a valid command of its own. They hold for the payloads of the runs.
* That `SSv1Link` implements `CallLink`; its line has no checksum and no reset, so the
  same holds of what is left of a line, more often.
* That the loops of framing end, and all other liveness, which is out of
  the prover's reach together with `ENABLED`.

## 5. What is not modelled, and what a property does not cover

SimpleSerial v2.1:

* Bytes lost or garbled towards the host: a packet with a wrong CRC is only
  warned about by `read_cmd`, so `Promise` has such calls in doubt; it does not
  have `simpleserial_read_witherrors` in doubt. A length garbled to 0 makes
  `read_cmd` raise `IndexError` without a reset, and a return code garbled to 0
  is taken for OK; `InStep` and `OkMeansRan` therefore leave such calls out
  (`Checked`). With noise towards the target `InStep` is not true: the last byte
  of a reset may be the garbled one.
* `get_simpleserial_commands(flush_on_err=False)` may leave the override behind
  (`flush_override`); from then on late answers are given to later calls. The
  properties that need errors to be flushed therefore say so (`Idle`);
  `TargetInStep` and what `Promise` says without `Honest` do not need it.
* `simpleserial_read_witherrors` without a length takes a code of the stuffing
  for the length of an empty payload; no firmware here sends an empty packet.
* `reset_comms` sends two frame bytes where its docstring says ten (`SS2` line
  676); the model sends two.
* Raw `read` and `write` by the user, and the CDC variant.

SimpleSerial v1:

* Without a checksum a garbled digit is another value. Only losses are modelled.
* `simpleserial_read_witherrors` returns `valid` TRUE with no payload when only
  the end of the line is wrong (`SS1` lines 560-564, docstring 507-509); the
  model does so, too. `get_simpleserial_commands` writes 'w' before it finds
  that it has no length (lines 260-265).
* A received length is not compared with the size of `ascii_buf`; in the model
  the buffer is a sequence that has room for it. `TypeOK` bounds what is read by
  the length in the table, and by the buffer only for commands of fixed length.
* The 'x's of `_con` reset the target only if there are more of them than digits
  it waits for; `InStep` speaks of the time after the next whole line.
* A plaintext after a mask whose newline was lost is taken as digits of the
  mask. A mask longer than a block could leave a tail that is a command of its
  own, since 'f' is a letter and a digit; the run has none such.

A trace:

* A target that is still busy with the plaintext of a call that timed out
  triggers the scope of the next call (`stale`), and a key whose acknowledgment
  failed stays in `last_key`, so that the next call does not send it again
  (`held # <<>>`). In both cases a trace does not belong together, and the
  properties say under which condition it does.
* A response that could not be read is put in the trace as None. `set_key` keeps
  the caller's bytearray and not a copy of it; the model has values.
* Samples that an interrupted call has left in the FIFO are what the next call's wave
  shows; `stale` covers this, too. The scope is that of the capture without streaming
  where it has room.
* The race `missed` of the trigger unit, below, is left out of its scope.

Capture without streaming:

* A full FIFO ends a capture like the counter does (`FIFO` line 100). When
  `adc.samples` are more than it holds the capture stops early; when an interrupted
  capture has left its samples there it may stop early or not start at all. The unit
  shows "not armed" all the same, and the interface's `capture()` says that there
  was no timeout. `OkMeansWhole` and `FirstStatusSeesArm` therefore ask for room at
  the time of arming (`Room`). `OA.capture` also returns True when `_capture_read` got
  too few points (`OA` lines 877-879), which catches a capture that stopped early, but
  not leftovers of another that make up the number; it is outside the property, which
  is about the interface's result.
* Decimation: the sleep of `capture()` is `(offset+samples)/adc_freq` whatever
  `adc.decimate` is (`OAI` line 751). With a decimation of n the samples take n times as
  long, and `arm(False)` may cut them off. The `fifo_top` that `openadc_interface.v`
  instantiates (lines 801-830) has the ports `downsample_i`, `adc_write_mask`,
  `stream_mode` and `fifo_overflow`; it is not in the repository, and the one that is
  has none of them. So the model is of decimation 1 and every sample written, and
  the property does not say anything about other settings.
* The values of the samples, how they are unpacked (`processData`), presamples, the
  reset of the FPGA (used when connecting) and the level trigger are left out. The
  FIFO core is a vendor's: that it holds `Depth` words, is full when it does and
  drops what is written then is external. Its crossing of clocks is not modelled.
* `poll_done` and the segments of a Husky (`OAI` lines 728-746) are left out: its FPGA
  is not in the repository.
* The ADC clock may stop, and then does not come back. If it stops while the
  unit is armed, the loop forces a trigger again and again (`OAI` lines
  711-725); if it had stopped before, `capture()` returns at once and without a
  timeout. `CallsReturn` and `OkMeansWhole` assume a clock.
* `missed`: a trigger at the very clock at which a unit that was left listening
  is armed again makes the arming void, and `capture()` reports no timeout.
  `OkMeansWhole` leaves out that clock.
* A Ctrl-C in `triggerNow` leaves the force bit set; later captures are then
  forced at once and reported as good. `OkMeansWhole` leaves this out, too.
* A message is assumed to take at least six ADC clocks.

Streaming:

* A transfer that fails part of the way is submitted again in full, so more is
  asked for than is to come. Whether the last transfer then ends is a matter of
  the board's firmware, which is not here; `CallsReturn` leaves such captures
  out. `InOrder` leaves out captures that the user interrupted.
* `flushInput` of the interface passes a float timeout that the USB layer does
  not take, an exception that is swallowed; it is left out as the no-op it is.
* The time in `capture()` is abstract: a timeout may come at any poll.

Bootloader:

* The repository has no host for it. A host that sends a refused header again,
  instead of starting over, can be refused for ever; the modelled one starts
  over. An announced length of 0 gets no verdict before the counter wraps.
* The CRC and the tag of the run are small functions with the properties the
  argument needs (0 for zeros, order-sensitive); the proofs take any.

The rest. Of the 3069 files most are vendored or generated: the HALs and CMSIS
headers of a dozen microcontrollers, crypto libraries, FPGA vendor code, and
notebooks, none of it with a protocol of its own; this is why the modelled share
of all lines is small. Of ChipWhisperer's own code, the serial reader and the USART are
abstracted to the byte queues of the two links; the register blocks (glitch,
clock, trigger, trace) are register writes whose behaviour is in an FPGA; the
Nano, the FPGA targets and the programmers are straight-line I/O to firmware
that is not here; the analyzer is floating-point statistics; projects are
containers. PROJECT.json gives the reason component by component.

## 6. Plan

What there is: all of sections 2 to 4. What would come next, in order:

1. Theorems: the refinement of `CallLink` by `SSv1Link` on a line that loses nothing,
   with the means of `CleanPromise` (`Asked` and `Reading` of `SSv1Link_proofs` already
   follow a line to its answer); for v2.1 with losses, the refinement under a condition on
   payloads that no part of a frame is a frame.
2. `SerialReader`: receive queue, USART windows and buffer limits, shown to
   implement the byte queue that the links use.
3. The values of the samples and decimation in `AdcCapture`, when a FIFO module that
   fits is added to the repository, and with them an abstract "arm, then one trace or one timeout" that
   `AdcCapture` and `HuskyCapture` both implement.
4. Pure modules: the glitch controller's walk over its parameter ranges, the
   segments of a project, the STM32F programmer's command sequence.
