# Verification of the Backer tape driver and its codecs

Backer cards record data on video tape with a VCR.  The repository holds the
kernel driver of the cards (`src/src/drivers`), the codecs that turn a byte
stream into something that survives on video tape (`src/src/codecs`,
GStreamer 0.10 elements), and utilities (`src/src/utilities`).  This directory
holds TLA+ models of the parts with logic of their own, the TLC runs that check
them, and TLAPS proofs about them.

## 1. Inventory

Data flows, when recording, from left to right, and back when playing:

    file -> [ECC2] -> SP/LP -> randomiser -> RLL -> frame -> /dev/backer -> ring -> DMA -> card -> VCR

| Component | State it keeps | Operations | Interacts by |
|---|---|---|---|
| `bkr_splpenc` (bkr_splp.c) | adapter, sector number, format | `enc_chain`, `enc_event`, `enc_setcaps` | pushes sectors; may be refused; is sent NEWSEGMENT and EOS |
| `bkr_splpdec` (bkr_splp.c) | last number, statistics | `dec_chain`, `dec_setcaps` | pushes buffers, sends SKIPPED / INVALID / EOS events and reads their results |
| `bkr_ecc2enc`, `bkr_ecc2dec` (bkr_ecc2.c) | adapter, erasure list, sector count | chain and event functions | receives the events of `bkr_splpdec` |
| Reed-Solomon codec (rs.c) | tables, work arrays | encode, decode with erasures | called by SP/LP and ECC2 |
| `bkr_frame` | encoder: parity of the fields, noise injector; decoder: adapter, statistics of the key | `enc_chain`, `dec_chain` with its search for the sector key, `setcaps` | between RLL and the device; nothing but the key marks a field on the tape |
| `bkr_rll` | the format | modulate, demodulate, `setcaps` | between the randomiser and the frames |
| `bkr_video_out` | adapter, field number, format | `transform_size`, `transform`, `set_property` | takes the stream of the frame encoder; its base class allocates the output between the two |
| `bkr_splp_randomize` | none | XOR with a table | in place, its own inverse |
| ring buffer (bkr_ring_buffer.[ch]) | size, head, tail, lock | fill, drain, space, bytes, copies, `ring_fill_to` | shared by program and interrupt |
| character device (bkr_main.c) | per unit: lock, `last_error`, queue; per file: `f_op` | open, read, write, poll, ioctl, release | calls the stream's operations, sleeps on the queue, is woken by the callback |
| parallel-port driver (bkr_parport.c) | direction, `irq_func`, `last_io`, DMA | ready, start, read, write, release, two interrupt handlers, attach, detach | interrupts; parport subsystem; detach work queue |
| ISA driver (bkr_isa.c) | the same with a timer | ready, start, read, write, release, `timer_tick` | timer; never instantiated, see section 7 |
| unit list (bkr_main.c, bkr_parport.c) | list, its semaphore, unit locks, references to the driver, the detach queue | register, unregister, claim, release, attach, detach, load, unload | programs, parport core and worker thread |
| `bkrencode` | pipeline | record, play, SIGINT | drives the codecs |
| element tables (bkr_elements and the `compute_format` of every element) | constants | caps to format | every element computes its numbers from the mode in the caps |
| other utilities, diagnostics | displays | | |

Hard behaviour, by kind (the list with lines is `hazards` in PROJECT.json):

* *Failure in the middle.* Any sector may be refused after its number was used;
  events have results; a recording may be killed; an end mark may be half written.
* *The tape.*  Sectors are missed, damaged, or repeated in bursts; one recording
  follows another.
* *Concurrency.* The interrupt moves one end of the ring, the program the
  other, and the program looks at the ring and copies in two separate locked
  sections, and falls asleep outside of any.
* *Time.* The card does not wait: a program that is late loses frames.  Sleeps
  time out, signals come, close() gives up.
* *Lifetime.* Units may be detached while they are opened or open, and the
  driver unloaded while work is queued.
* *Framing.* Fields are found by a fuzzy match in a stream that may have lost,
  changed or gained bytes, and comes in buffers of any size.
* *Agreement.* Six elements, the driver and the display each have tables of
  their own for the same mode.

What makes each component correct: the encoder's numbers identify what they
number and its marks are where they say (section 4, SplpTransfer); the decoder
delivers in order and accounts for every number (SplpPlayback); both together
are a file transfer (RecordTransfer); the device loses, repeats and reorders
nothing while nobody is late, counts what it moves and always returns (Device).
ECC2 keeps every sector in its place, restores a group whose faults are within
its code's reach and holds no group back (Ecc2).  The field codec finds what was
recorded and nothing else, and the display keeps step with it (Video).  A unit
has one number, one program at most, and is freed with all it holds, and unloading
frees none that is in use (Units).  The Reed-Solomon and run-length codes invert
and confine damage as their callers assume, and the tables fit together (Codes).

## 2. Modules

| Module | Models | Kind |
|---|---|---|
| `SplpSector` | sector header, number field, coding of short lengths | data and operators |
| `SplpEncoder` | `bkr_splpenc` | component |
| `SplpDecoder` | `bkr_splpdec` | component |
| `RecordTransfer` | what recording and playing a file promises | abstract specification |
| `SplpRecord` | encoder, tape and decoder; refinement of `RecordTransfer` | composition |
| `Ring` | offsets of the ring buffer | operators |
| `ParportStream` | stream operations and interrupts of bkr_parport.c, and the card | component and environment |
| `BkrDevice` | bkr_main.c's file operations on `ParportStream` | composition |
| `Ecc2Group` | layout of a sector group, what the Reed-Solomon decoder may make of a block | data and operators |
| `Ecc2Encoder`, `Ecc2Decoder` | `bkr_ecc2enc`, `bkr_ecc2dec` | components |
| `Ecc2Stream` | both, and a link that loses and damages sectors | composition |
| `Formats` | the format tables of all elements and of the driver, and what must hold between them | data and operators |
| `FrameEncoder`, `FrameDecoder` | `bkr_frameenc`, `bkr_framedec` | components |
| `VideoOut` | `bkr_video_out` | component |
| `VideoPath` | field codec, tape and screen | composition |
| `BkrUnits` | unit list, claims, attach, detach, load and unload; parport core, worker and programs | component and environment |
| `ReedSolomon` | rs.c over a field of `2^MM` elements | algorithm |
| `ReedSolomonResults` | the algorithm checked against `Ecc2Group!Decode` | property |
| `Rll` | bkr_rll.c, with its table of code words | algorithm and component |
| `Codes` | the two algorithms and the tables, side by side | composition |
| `MCVideo`, `MCCodes`, `MCUnits` | formats, codes, texts and numbers of the instances | TLC |
| `ListLemmas` | positions and ranges of sequences after `Append`, `Tail`, `InsertAt`, `RemoveAt` | lemmas |
| `SplpProofs`, `BkrDeviceProofs`, `BkrUnitsProofs`, `VideoProofs`, `SearchProofs`, `Ecc2Proofs`, `CodesProofs` | theorems | proofs |

The other `.cfg` files instantiate `SplpRecord`, `BkrDevice` and `Ecc2Stream`
directly.

### How state and actions correspond to the code

*SP/LP.*  File data is represented by the place in the stream it was cut from:
`first` and `size` of a sector.  The adapter is `pushed - taken` bytes of that
stream.  The encoder and the decoder each run in one streaming thread, and one
call of a chain or event function is one action (`EncChain`, `EncEos`,
`DecChain`, ...), with an action for each way it can end early: a refused sector
of the beginning mark, of the data, of the flush, of the end mark, and an EOS
event before caps were negotiated.  What a failing sector leaves behind
(`FailAfter`) depends on whether the allocation failed, before the number and the
adapter moved, or the push, after.  `sectorNumber = -1` is the request for a
beginning mark, as in the code.  The signed 28-bit field of the tape is
`NumberField`.  The decoder's inputs are a sector, the Reed-Solomon block the
tape has ruined (`Damages`: the blocks the header check looks at, others, or
the one of the `high_used()` byte), and what its peer returns for events and
buffers.  `dec_chain()` compares both with `GST_FLOW_OK`, which is 0, and so does
the model: `AcceptAfterGapHandled` is a peer that returns TRUE, 1.

*Tape.*  The tape is the sequence of sectors that were accepted.  It stands for
everything between the codec's two elements.  When it is played each sector is
read (`PlayGood`), read with an uncorrectable block (`PlayDamaged`), missed
(`Miss`), or the tape is found to hold again what came before (`Repeat`: an
underrun of the recording driver makes DMA go round the ring).

*Driver.*  A step of the program is what the code does without letting go of the
ring's lock, or the processor: `Call` (entry, with `start()` on the first),
`LookLate`/`LookMovable`/`LookReturn`/`LookBlock` (the four outcomes of
`stream->ops.read/write`), `CopyIn`/`CopyOut` (the second locked section),
`FallAsleep`, `SleepTimeout`, `Signal`, `Poll`, `PollAgain` (after a wake-up),
`Close`, `CloseDone`, `CloseAgain`.  An
interrupt may come between any two of them, so a wake-up between `LookBlock` and
`FallAsleep` is missed, as with `interruptible_sleep_on()`; poll() enters the queue
before it looks and misses none.  The card moves a
byte at a time (`MoveByte`) and interrupts after a frame; `FirstIrq`, `Irq`,
`IrqStopped` are the handlers.  The buffer holds stamps: byte numbers of what was
written or came off the tape, 0 for zeros and filler.  `late` is
`check_for_timeout()`.  A failing `parport_claim()` changes nothing and is left
out.  Opening again after a close that gave up finds the hardware still running
(`CloseAbandon`, `Ready`).

*ECC2.*  A group is its file bytes, and a sector its group, its place in it and
the blocks in which it is wrong.  `EncChain` and `EncEos` cut groups from the
adapter as `write_group()` does in its loops; a failed allocation leaves the bytes
of the group in the adapter, a refused buffer does not.  `Skipped`, `NextInvalid`,
`DecChain` and `DecEos` are the decoder's handlers.  `DecodeGroup` goes through the
blocks in order, as the errors found in one are the erasures of the next.  A header that could not be corrected has any length (`Lengths`): `bkr_ecc2.c:262-263`
compares it with nothing, so a buffer may be longer than its group, and the bytes
behind it are `Bad`.  A decoder whose list of erasures has outgrown its array
(`ListFits`) is left alone.  The
Reed-Solomon decoder is abstracted to its outcome: a block is corrected when
erasures plus twice the other errors are no more than the parity and no location
is listed twice; otherwise it is left as it is or miscorrected, with any list.
`SymbolOf` is where the numbering of sectors and that of symbols part.

*Fields.*  A byte is a token: byte i of the data of field n, byte j of the key,
leader, trailer or noise; a data byte may have the value of a key byte.  The field
a byte came from travels with it for the properties only.  `EncChain` is one call,
with what the noise injector does as parameters: several glitches, at any places but the
first, whose random bytes may be those of the key or what was there before
(`Glitches`, `Hit`, `NoiseBytes`), and lines cut off the end.  A line is `NoiseLine`
bytes, 4 in the code in either density, as nothing sets `filter->bitdensity`.
`EncChainFails` leaves the
parity of the fields alone, as the code changes it after the push.  The decoder's
loop is a step per turn: `DecField`, `DecAllocFails` (the field stays, what was in
front of it is flushed), `DecPushFails` (the field is gone) and `DecReturn` (every
place was passed).  A negotiation that fails (`EncSetcapsFails`, `DecSetcapsFails`)
leaves no format, while the pad keeps its old caps; the next buffer in those caps
dereferences NULL (`EncCrash`, `DecCrash`) and nothing comes after.  `stream` and
`fate` are what the decoder was given and what became of each byte it has let go of,
for the properties.  The tape loses, changes or inserts a byte (`Wear`); a field
with a byte of its active region touched counts as damaged.  A recording is made
before it is read: the stream is a queue with one writer and one reader, two
processes.  So it is with the tape, and with the display: `bkrencode` ends in an
`fdsink`, and `bkrvideo` begins with an `fdsrc`.  In a pipeline that links encoder and
display directly a refused image would come back as the result of the encoder's push;
none is built by the repository, and the model has none.

*Screen.*  `Transform` sizes the output and fills the adapter, `BonusField`,
`LastField` and `DropOutput` are the turns of the loop and what follows it, the
last one pushed by the base class.  `Reconfigure` is `set_property()`, at any time.
Of an image its bytes are kept, not how they are drawn.

*Units.*  What holds the list's lock is a step (`Attach`, `Detach`, `DoDetach`,
`Lookup`); so are `Claim`, `Ready`, `Start`, `Stop` or `GiveUp`, and `Release`,
between any two of which the worker may free the unit.  A program that comes back
to a freed unit does `StaleUse` and nothing more.  `attach()` fails at any of the
stages it tests and releases what the labels from there on release (`AttachFails`).
Without memory for the ring it does not come to its test: `ring_new()` writes to the NULL
it was given, and the thread is killed with the lock of the parport core
(`AttachOopses`).  `detach()` looks at the
references after it let go of the list, and flushes the queue only when there are
none.  The parport core, with calls to `attach()` and `detach()` one at a time, is
external.

*Codes.*  `ReedSolomon` has a step per loop of rs.c: syndromes, a turn of the
Berlekamp-Massey loop, roots, a turn of the Forney loop.  The erasure array is
read and overwritten as in the code.  Nothing in rs.c but `MM` fixes the width of a
symbol.  `Rll` has the whole table of code words, `Modulate` with its rule of
inverting a word by the last bit of the one before, and `Demodulate`.  `Formats`
has every table as it is.

External behaviour the models rely on: a GStreamer source pauses for good after
a flow return that is not OK, and sends EOS after a fatal one; caps arrive with
the first buffer; one new-segment event per run; the parallel port interrupts at
the end of a DMA frame and waits for the ECR to be written; the DMA channel
starts again at its address.  The interrupt handler is modelled with the stream
it expects as handle (`attach()` registers NULL, section 7).

## 3. Bounds

| Constant and value | Why it is enough |
|---|---|
| `Capacity` 2, `MaxBytes` 5 | full sectors, a short one, empty recordings, data of exactly a sector, three data sectors |
| `HalfRange` 8 | numbers stay below it, as the proofs assume (`NumbersSuffice`) |
| `LowDigits` 1 | both digits of a short length are used; the proof covers every base |
| `BorLength`, `EorLength` 1..3 | a mark that is repeated; three sectors outlast two faults |
| `MaxRecordings` 1, 2 | splices need two |
| `MaxFaults` 2, 3 | loses a whole end mark of two sectors and one sector more |
| `Frame` 2, `Frames` 3 | one frame in flight, one complete, one being filled; partial frames |
| `MaxWritten` 7, `MaxTape` 8 | more than the ring's 6: offsets wrap |
| `MaxCall` 0..3 | calls of nothing, of less and of more than a frame |
| `BlockSize` 5, `Parity` 3 | the smallest code that corrects a missing sector, see finding 4; numbers wrap at the group as 255 does in the code |
| `SectorBytes` 2, `HeaderSize` 1 | two blocks, the second one with the header: a list passed on from one to the other |
| `MaxBytes` 4 | two groups of 3 bytes, one short; exactly one; one lost and one written |
| `MaxFaults` 3 | all in one group or across two: one within reach, two and three beyond, a location listed twice.  The list has room for three; that it holds nothing of a group that is done, however many faults there are, is proved |
| `Lengths` {0, 2, 11} | a header that reads as no bytes, as those of a short group, and as more than a group has |
| Fields of 10 and 7 bytes, keys of 3 (`MCVideo`) | one format with an interlace, one without; two bytes between key bytes in one and one in the other, a rest behind the last key byte or none |
| `MaxFields` 2, both caps | a field in front of another, of the same or of the other format |
| `ThresholdA/B` 2/3 | 21/64 in the code, of 20 to 32 key bytes: 6 to 10 of them make a field.  Of the three key bytes here two are the least that lies above the one that may come by accident (`MaxFalse`) |
| `MaxTroubles` 2, `MaxFalse` 1 | troubles in one field or in both; false key bytes fewer than the threshold, without which noise is a field.  These are bounds on the whole instance (`MCBounds` of `MCVideo`), which `CleanFieldsAreDelivered` and `OutputsAreFieldsInOrder` need; no other property does |
| `NoiseLine` 1, `MaxGlitches` 2, `MaxCut` 1 | two glitches of up to two bytes, which overlap or not; a cut of the trailer |
| `MaxWear` 1 | a byte lost, changed or inserted, in any field or between two, beside one more trouble of `MaxTroubles` |
| `BufferSizes` {2}, `ScreenSizes` {4, 13} | a field in several buffers, with calls that find none; on the screen a buffer that ends in a field, and several fields in one |
| `Ports` 2, `Files` 2, `MaxUnits` 3 | two units at once, and a third that takes a number given back; a program against another and against removal |
| `Minors`: f1 asks for 0, f2 for 0 and 1 (`MCUnits`) | both programs for one unit, one for either of two; numbers that are there and that are not |
| `MM` 3, codes (7,3), (7,5), (6,2) | the smallest field with a code of two errors, one of one error, and a shortened one |
| `MaxErrors` 3, `MaxDamage` 4 | within reach, at its edge and beyond, erasures that are right, wrong and given twice |
| `Symbols` {1, 6} | an error of one bit and one of two: alpha to the 0 and to the 4 |
| Texts of 8 and 16 symbols, `MaxFlips` 1 | every symbol beside three others; one group of nine bytes, and two |

## 4. Runs

* **SplpTransfer** (pass): a recording with every failure of the encoder, then
  faults of the tape.  `NumberIdentifiesPayload`: the decoder may drop by number.
  `LossShowsAsGap`: what is lost shows.  `EorIsAfterTheLastByte`, `EosMeansComplete`:
  an announced end is the end.  `ImplementsTransfer`: the composition implements
  `RecordTransfer`.  Bytes pushed are its length; what was read back are the pieces that
  were delivered, each with the place in the recording its bytes were cut from and its size, so
  that other bytes, or the same ones again, are no step of it.  The run supposes a peer that
  handles events (`EventResults` is TRUE only): it is finding 1 that stops a playback at
  a gap, and `EosMeansComplete` and the refinement hold because of it.
* **SplpPlayback** (pass): two recordings; peers that handle the decoder's events
  (ECC2) or not.  `DeliveredInOrder`, `OneRecordingDelivered`,
  `DuplicateRunsAreUnderruns`, and under weak fairness of the playback
  `EosDespiteFaults`.
* **SplpSkips** (violation): `EverySectorReported` fails, a finding.
* **SplpShortHeader** (violation): `EosOnlyAtEor` fails, a finding.
* **Device** (pass): every interleaving of a program, the interrupts and a card
  that may stop, over opens and closes.  `WrittenIsSentOrPending`, `CloseFlushes`
  and `ReadIsConsecutive` say what is promised while DMA has not slipped
  (`underran`, `overran`); `MovedIsReported` holds without that condition.
  `PolledCallsMove`: what poll() said is still true when the next call looks,
  whatever interrupts come in between.  `CallsReturn` is liveness, in two parts.  On a
  fast machine (`FastCallsReturn`) read(), write(), close() and poll() return, of which
  poll() alone may wait for a card that does nothing.  On any machine
  (`MissedWakesAreMadeUp`) an interrupt may come between the look at the ring and the
  sleep: the wake-up is missed, and the next one or the time-out makes up for it.
* **DeviceUnderrun** (violation): `UnderrunIsHarmless` fails, a finding.  The writer
  is one frame late once; the machine is otherwise fast.
* **Ecc2** (pass): groups recorded with refused buffers and failed allocations,
  then played with missing sectors, bad sectors that are announced and others that
  are not.  `GroupsHoldTheInput` is the encoder's.  `BuffersAreGroups`: no byte ever
  comes from another place in the file, also in a buffer whose length was misread.  `WithinReachIsDelivered`: a group comes
  out whole when three times its faults are no more than its parity, which is what
  the code achieves.  `EveryGroupIsDelivered`: none is held back at the end.  These
  two exempt a group whose last sector is missing, the one together with a fault
  of the next sector, the other if it is the last of the recording.
  `ErasuresAreOfTheCollected`: the list of erasures, which nothing keeps from outgrowing
  its array, is of the faults of what is being collected and of no group before.
* **Ecc2LastSector** (violation): `OneMissingCostsNoGroup` fails, a finding.
* **Video** (pass): two fields in any formats, with refused calls and negotiations,
  noise and data that looks like the key; then a tape that loses, changes or inserts bytes, or the
  screen.  `CleanFieldsAreDelivered`: damage to a field costs no other, wherever
  buffers are cut and whatever was refused.  `OutputsAreFieldsInOrder`: nothing else
  is taken for a field.  Both are true of few troubles only (`MCBounds`), as a search for a
  pattern must be.  `SearchIsOfTheWholeStream` is true of any tape: what is passed on is what
  stands at places of the stream that do not overlap and have enough of the key, and no
  such place was passed over, wherever buffers end and whatever failed.  `OutputIsAnnounced`: the buffer that was
  allocated is the one that is drawn into.  `ImageIsOneField`: counting lines keeps
  step with odd and even fields through every failure.
* **Units** (pass): ports plugged and unplugged, the driver loaded and unloaded, two
  programs.  `NumbersAscend`: a new unit gets the lowest free number, which works
  only on an ordered list.  `HeldByListedUnits`: no path of `attach()` leaks or
  releases too much, but the one on which it is killed.  `ClaimsAreExclusive`: two programs never share a unit, locks and
  references add up on every path.  `UnloadSparesOpenUnits`: only a port that is
  pulled takes a unit from a program.  `UnloadIsClean`, and `RemovalCompletes`
  (liveness): unloading ends, and a pulled port loses its unit even if a program
  keeps it open for ever (stated as what is so again and again, which is the same as no
  unloading ends without the driver out, and no port comes back with its old unit).
* **Codes** (pass): `ImplementsGroupCode`: the algorithm of rs.c comes to no result but
  those `Ecc2Group!Decode` has, which is what the Ecc2 runs rest on, in full and in shortened
  blocks; and it leaves a block it gives up as it was received (`UncorrectableUnchanged`,
  `rs.h:211-212`).  The latter is not plain to see: the Forney loop
  corrects a symbol before it looks at the next root, and gives up at a root outside of a
  shortened block.  The root search goes from the highest location down, so that such
  roots come first, before any symbol was corrected.  (A block of ECC2 has all 255 symbols; those
  of SP/LP are shortened.  The decoder returns -1, -2 or -3 where rs.h says -1, and its
  callers look at the sign.)
  `BitErrorsStayLocal`: a damaged bit costs two neighbouring symbols at most, and
  without damage the text comes back.  `RunsAreShort`: no run of more than six equal
  bits, across words; this is a property of the table, inversion alone does not bound
  it.  `StackFits`: the tables agree in each of the eight modes.
* **Ecc2Missing** (violation): `MissingSectorsAreReplaced` fails, a finding.

*Fairness.*  SplpPlayback: the streaming thread goes on reading (WF).  Units: the
worker thread runs queued work (`DoDetach`), and the thread that loads, unloads or
removes a port goes on (`CoreStep`); programs need not close, nor ports come back.
Device: a
call in progress goes on, the card delivers bytes and interrupts while it has
any, sleeps time out and jiffies pass (WF); nothing is assumed of the program
between calls, of signals, or of the card not stopping.  The
liveness property assumes `prompt` too: an interrupt finds the program asleep or outside
of the driver, because a frame lasts 1/30 or 1/25 s.  Without it close() may wait
for ever: `flush()` asks for a ring that is empty at the very moment it looks, and
a program that is always one frame late never sees that moment.  The safety
properties are checked with and without `prompt`.

A run allows deadlock where the system may stop: a tape ends, a program that is
not run again keeps its device closed.

A property that compares little more than a definition does, and that is proved for every
value of the constants, is not run besides: `PositionKept` and `StatisticsStraddleThreshold`.

Each property has a mutant of the code beside the definition it replaces (marked
`Mutant:` in the modules), under which the same run finds the property violated.

## 5. Findings

1. `bkr_splp.c:1118`, `1145`: results of events, TRUE or FALSE, are compared with
   `GST_FLOW_OK`.  With a peer that handles the events a gap or a bad sector ends
   the playback; the loop sends one event of the gap.
2. `bkr_splp.c:305`, `414`: the fifth header byte of a short sector is not part of
   the header check.  A damaged last sector may be taken for the end mark.
3. `bkr_parport.c:206`: an underrun while writing is not harmless, as
   `backer.4:266` and `backer-driv.tex:245` have it.  Bytes written behind the DMA
   pointer are counted as sent, and close() does not wait for them.
4. `bkr_ecc2.c:771`, `776`: erasures are numbered from the first data sector, where
   the Reed-Solomon decoder numbers from the first parity symbol.  An erasure
   costs its own symbol of parity and leaves the missing sector to be found as an
   error, for two more: 20 parity sectors replace 6 missing ones and not 20
   (`README.md:188`).
5. `bkr_ecc2.c:771`: the zeros for a missing sector may complete a group, but only the
   next sector has it decoded.  At the end of a recording there is none: one missing sector, the
   last, costs the last group of the file (run Ecc2LastSector).

Two more are in the models without a run of their own.  `bkr_ring_buffer.c:52`: `ring_new()`
writes to what `kmalloc()` returned before anyone looks, and the test for it in
`bkr_parport.c:492` is never true; `attach()` is killed (`AttachOopses`).
`bkr_main.c:116`: a call in the other direction does not fail, as `backer.4:159-162` has
it, but starts DMA in that direction with the ring as it stands (`MayTurn`).

## 6. Proofs

TLAPS proves, for all values of the constants:

* `SplpProofs`: of the sector header, the length coding is inverted by its decoding and never
  has the digit that means "full" (`LengthRoundTrip`); then `EncoderInvariance`, from which `NumberIdentifiesPayload`,
  `LossShowsAsGap` and `EorIsAfterTheLastByte` follow.  Assumption `NumbersSuffice`:
  the recording has fewer sectors than half the range of the number field.  None
  of the three is inductive: they speak of pairs of sectors on the tape, and
  the next sector comes from the number, the adapter and the phase.  The
  invariant `EncInv` ties them together: all sectors so far are full (`AllFull`)
  until the last flush, a sector's place follows from its number and its size can be
  read back from its two fields, every number on the tape is below the next.  The steps are about pieces (`Piece`) appended to
  the tape, one lemma per kind of piece, then one case per action.
  `LayoutInvariance` adds, for recordings that nothing cuts short (`WholeRecordings`),
  how the tape is laid out: one recording after the other, the numbers going up in
  each, and a whole EOR mark at the end of all but the one in progress (`LayoutInv`).
  Of the decoder, `DecoderInvariance`, then `DeliveredInOrder` and `PositionKept`, for
  any sectors in any order with any damage: nothing is assumed of the tape.
  Then encoder, tape and decoder together.  Every step of the
  composition is a step of one of them, so both invariants hold of it
  (`RecordInvariance`, `RecordTypes`), under `NumbersSuffice` alone.  Under
  `TransferConditions` - one recording, a peer that handles events, so that a gap or a
  bad sector stops the playback, and no damage that the decoder takes for another length
  of a short sector - `EosMeansComplete` holds and the
  composition implements `RecordTransfer` (`RecordingIsTransfer`).  What the transfer has read back is the list of the pieces
  delivered, by place and size, so this says that the bytes come out from the first one
  on, in order, none twice and none left out, as far as the playback gets.  The invariant
  `TransferInv` says that a playback that nothing has stopped has delivered the bytes
  before the place of the next number, and that one that saw the end has delivered
  all.  The first follows from the invariants above: a sector's place is that of its
  number, and only the last sector is not full.  Whatever the tape does, the next
  sector the decoder takes has the next number, or the playback stops there.
  Under `PlaybackConditions` - any number of recordings, each ended as it should be, a
  pipeline that accepts the EOS event, fewer faults than an EOR mark has sectors, and
  again no damage to the length of a short sector - `OneRecordingDelivered` and
  `DuplicateRunsAreUnderruns` hold.  Neither is inductive: both need that the playback
  cannot get past the first mark.  `PlayInv` counts what it takes to do so: a playback that
  goes on is never further into the mark than there were faults (`UpToTheMark`),
  because a sector of the mark that is read well has a number above all that were
  accepted, and stops it.  So every sector ahead is of the first recording, where a
  repeat can only be ahead (`Behind`) because the tape went back.
* `BkrDeviceProofs`: of the ring, that space and bytes are what `bkr_ring_buffer.h`
  promises, both ways of moving an offset agree and copies count; then
  `DeviceInvariance`, then `TypeOK` (the offsets never leave the
  ring, even when a copy acts on a look that interrupts have overtaken) and
  `MovedIsReported`.  The invariant adds that a chunk is smaller than the ring and
  part of the call, that a sleeping call has moved nothing, and what the call
  in progress has moved but not reported.  `PollInvariance` is a second invariant,
  for `PolledCallsMove`: the frame DMA reads has room in the ring and the one it writes
  is there, or the program was overtaken (`InTime`); so an interrupt moves a whole
  frame and only adds to what the program can move, and neither a chunk that was
  looked up nor the answer of poll() gets stale.
  Last `DataInvariance`, and from it what the driver is for:
  `ReadIsConsecutive`, `WrittenIsSentOrPending`, `CloseFlushes`, for every frame, ring
  and call size and every interleaving.  Each supposes `~MayTurn`, that no program uses
  both directions on one open file: the run Device supposes it too (section 5).
  And each speaks of a device that has not been late: while writing no frame was
  drained that was not all there (`underran`), without which finding 3 has
  bytes lost and a close that does not notice; while reading no frame was filled without room
  (`overran`).  `WrittenIsSentOrPending` says where the bytes are that were written, not that
  nothing else is on the tape: DMA sends fillers, and its first frame twice.  None is inductive, as each speaks
  of what arrived at one end and left at the other.  The invariant says of every place
  of the buffer which stamp it holds.  Reading, byte i of the ring is the byte of the
  tape that lies i behind what was moved (`ReadInv`); writing, it is byte i after those
  that were drained, of which as many are on the tape and what DMA moved of the frame
  it started with (`WriteInv`).  Both build on `PollInv`, with DMA on whole frames of
  the ring.  A file that has not transferred yet is as open() left it (`Fresh`), the card
  works in the direction of the stream (`CardFollows`), so that only that direction is
  ever late (`OneIsLate`).
* `BkrUnitsProofs`: `UnitsInvariance`, then every safety property of the run Units, for
  any number of ports, programs, numbers and units.  Assumptions: programs are
  finitely many, as references are counted.  The invariant `UnitsInv` has three
  parts.  `ListInv`: the list has no unit twice, ascends, and what is held is what
  its units have; a unit linked at the first gap keeps the order because all before
  the gap are exactly 0, 1, ....  `FileInv`: locks and references are those of the
  programs that hold units, and a port that runs was left by the one that has it or
  by one that gave up.  `CoreInv`: work is queued for units in the list, once, and
  only for a port that is gone or a driver that is going, when nobody holds a unit;
  this is what makes the freeing step spare open units.  `HeldByListedUnits` is
  proved up to the moment at which `attach()` is killed for want of a ring, if there is one; the
  other properties go on.
* `ListLemmas`: what the steps do to sequences that grow, shrink, are cut and are joined,
  and that a set of numbers has a least element, by the well-foundedness of
  finite sets.
* `VideoProofs`: of the field codec and the picture, for all formats, thresholds and
  buffer sizes.  `OutputIsAnnouncedAlways`: a bonus image leaves
  exactly the bytes of the other parity; the next field and the one after add up to
  two fields, so what was promised for the first is left for the last.
  `TypesInvariance` carries with every byte on the link, in the adapter and
  on the tape the field and the caps it was written under, through the encoder, the noise
  injector, the damage, the search and the copying of the data; from it follow `TypeOK` and
  `StatisticsStraddleThreshold`: a field that was found has more key bytes than what was
  not one, because the threshold that told them apart is the one of the format
  that is still set.  Assumption: `ThresholdA <= ThresholdB`, 21/64 in the code.
  `ImageIsOneField` is not inductive, as it speaks of images that have been
  drawn.  The invariant `ImageInv` says where the stream is: field n begins `Start(n)`
  bytes from its start, a closed form of counting odd and even
  fields, and the screen and the link hold, end to end, the stream from the start
  of the field that is due.  A buffer moves bytes from one to the other, drawing takes
  one field off the front, the encoder adds one at the end, of the parity that it has
  counted.  Assumption: a threshold is above 0, and the table of the screen and the
  table of the field codec agree (`VideoPathAssumption`); the run Codes checks that for the tables of the code
  (`FitsIn` of `Formats`).
* `SearchProofs`: of the search for fields, `SearchIsOfTheWholeStream`, for every format and
  threshold, every cut into buffers, every failure and change of caps, and
  whatever is on the tape: nothing is assumed of how much of it is damaged or looks like
  the key, and the bounds of the model may be any numbers.  `SearchInv` says that the adapter
  is the end of the stream, from the first byte on that was not flushed (`Joined`); that no
  flushed byte was passed over with a whole region behind it that has enough of the
  key (`NothingIsMissed`); and that what was passed on is read off the stream at places that
  follow one another (`OutputsFollow`).  A comparison in the adapter is one in
  the stream (`SameRegion`), as a region that the search looks at is in the adapter whole.
* `Ecc2Proofs`: of the sector groups, for every layout of a group and every
  pattern of faults.  The encoder's `GroupsHoldTheInput` says in closed form which byte
  of the file stands where, so that it is nearly inductive; what it lacks is that groups are
  full until the last flush (`AllFull`), which makes the first byte of a group follow from
  its number.  One call may cut many groups off the adapter (`CutInto`), and the one
  that fails leaves the rest in it.  In the decoder no group carries a number, so
  everything rests on counting: `Collecting` says that what was played is what the
  groups passed on had and what the adapter holds, and that each sector in it, or its
  padding, has its place.  A group is then read as the one it was sent as
  (`GroupOfSectors`) because not all of its sectors can be missing:
  each missing one is in the list, and the decoder is only followed while the list has
  room (`ListFits`).  That is all: nothing is assumed of the number of faults
  (`Ecc2FaultAssumption` says that their bound is a number), which may fill the list again and again,
  with each group.  `EveryGroupIsDelivered` needs one more part: the adapter
  holds a whole group only while the sector that would have completed it is missing.
  `ReachInvariance` is a second invariant, for `WithinReachIsDelivered` and the type
  invariant.  The entries of the list ascend and each is a fault of what is being collected (`ErasureInv`),
  so there are no more of them than such faults (`ErasuresAreOfTheCollected`), and those of a
  group that comes out whole give no location twice; a
  sector with anything wrong is a fault, and what stands where a group should have been
  completed is missing (`CollectInv`).  Within `decode_group()` the argument goes from block
  to block (`ThroughTheBlocks`): what a block finds becomes erasures of the next, and
  that costs as many symbols of parity as it saves (`ReachGrows`).  As no induction
  over the blocks is to be had from the library, the recursive function of `Corrections`
  is shown to exist, and its values to be of the sets they should be, by way of a
  least block for which they are not (`MinExists`).
* `CodesProofs`: of the run-length codec, for buffers of every length and content and any
  number of damaged bits; the run Codes has some hundred buffers and one damaged bit.
  The theorems are about `RllSpec`, the codec alone, and about `Spec`, where it stands
  beside the other algorithms.  First the table.  The places in it are numbers of
  words that are smaller, so that no two words share one; there are 256 words, by
  counting (`CountedTable`), hence every symbol has a word and `rll_decode` undoes
  `rll_encode`.  Then the bits.  `Modulated` describes the recursion in closed form: a
  word follows from its symbol and the word before it, and stands in its nine bits.
  A word whose bits and whose predecessor's last bit are as they were written is read
  back (`SymbolRead`), from which `BitErrorsStayLocal` follows with the invariant
  `RllInv`.  `RunsAreShort` is arithmetic on one word (`NoLongRun`): a code word never ends
  on three equal bits, has no seven, and does not stay for five more bits
  at the level where the word before it ended, inverted or not.
  At the end the tables: `TablesFit` computes for each of the eight modes that the numbers
  of all elements agree, which is `StackFits` and what `VideoPathAssumption` asks of a
  format of the field codec.

Only model-checked: liveness (out of the prover's reach); `ImplementsGroupCode`, which is
about recursion over polynomials, in a module that tlapm cannot process (it takes
`Ecc2Group` with a parameter); and `OutputsAreFieldsInOrder` and `CleanFieldsAreDelivered`.
These two need bounds on the damage of the whole recording that no real tape meets: a few bytes of
a field or less, where a real one has more bytes with the value of a key byte in its data.  Without such
bounds they are false, as enough bytes of that kind are a field to the search; so there is no
theorem of them, and the run shows them for troubles few enough to tell a field from noise.

## 7. Not modelled

* The ISA driver: `bkr_isa.c:409` ends its `if` with a semicolon, so creating a unit
  always fails, leaves the ring it had allocated behind, and no code after it runs.
* `attach()` gives the parport subsystem NULL as the handle of the interrupt
  handler (`bkr_parport.c:501`), which the handler dereferences; what follows is
  outside of the program, so the handlers are modelled with the right handle.
* `ring_lock()` keeps the saved flags in the ring; below the atomicity used.
* Caps that change in mid-stream in SP/LP, ECC2 and RLL (in the field codec they
  do change), and a second new-segment event.  A renegotiation that fails leaves
  RLL without a format and with its old caps (`bkr_rll.c:259`), as it does the field codec,
  where it is modelled.
* A pipeline that links the field encoder to the display, without a file or a pipe between
  them.
* ioctl(), which changes nothing.  (A program that polls before its first read or
  write waits for a transfer nobody started; `PollLook` models it.)
* Registration: the character device is registered before the semaphore of the list is
  initialised (`bkr_main.c:189`), in the first moments of the module.
* What a program does with a unit that was freed under it (`StaleUse`): the repository
  says nothing of it, and the memory may be anything.
* A group of ECC2 that was refused leaves a hole the reader cannot see
  (`bkr_ecc2.c:324`): groups have no numbers.  What a decoder does whose list of
  erasures has outgrown its array: nothing in `dec_event()` prevents that, and what
  is overwritten is beyond the model, which goes no further (`ListFits`).
* The `SplpDecoder` in front of ECC2: as it stops after the first event its peer
  handles (finding 1), `Ecc2Stream` has a link that does not.
* The stride of interleaved Reed-Solomon blocks, which selects symbols and computes
  nothing.
* The randomiser: XOR with a pseudo-random sequence of 32-bit products, its own inverse.
* How an image is drawn.  The last line of an even NTSC image is never written, and
  the adapter of the display is not cleared at a flush or the end of a stream
  (a FIXME there).
* Displays and test patterns of the utilities, GObject registration, diagnostics.

## 8. Plan

Done, in this order: SP/LP (`SplpSector` to `RecordTransfer`), the device (`Ring`,
`ParportStream`, `BkrDevice`), ECC2, the units (`BkrUnits`), the algorithms and tables
(`ReedSolomon`, `Rll`, `Formats`), fields and picture (`FrameEncoder` to `VideoPath`),
and the proofs of section 6.

Left, most valuable first:

1. Caps that change in mid-stream in ECC2 and RLL.
2. An encoder and a display linked directly, where a refused image changes the parity of
   the next field.
