# Verification of the ClutchReframe ROI filter

TLA+ models of the OBS filter in `src/`, TLC runs that check them on small
instances, and TLAPS proofs that hold for every instance. The program receives
regions of interest (ROIs) from a producer over a named pipe and shows the part
of the video source that they describe.

## 1. The system

```
 producer ──named pipe──> worker thread ──frame queue (client->lock)──> graphics thread
                          roi_ipc_client.c                              roi_filter_video_tick
                                                                          │ drains the queue
                                                                          ├─ push_frame ─> interpolator
 OBS settings ── roi_filter_update: set_pipe_name, set_queue_cap,         └─ sample     <─ interpolator
                 start, stop, interpolator settings                        applied ROI ─> video_render
```

| Component | State | Operations | Correct when |
|---|---|---|---|
| Interpolator (`roi_interpolator.c`) | the current (stream, epoch), its mode and last seq; warm-up; two anchors or an anchor buffer; the ROI applied last; time of the last input | `push_frame`, `sample`, `reset`, `set_freeze_timeout_ms`, `set_warmup_valid_frames` | nothing of one stream or mode reaches another; anchors are ordered; the picture never vanishes; a blocked or warming stream does not move it; sent ROIs of a frame-stream are not blended |
| Frame queue (`roi_ipc_client.c`) | ring of frames and generations, head, size, capacity; the stream accepted last; counters | `process_decoded_message`, `try_consume_next`, `try_consume_latest`, `set_queue_cap`, and the clearing in `set_pipe_name`, `start`, `stop` | a bounded FIFO that drops its oldest frame; no frame twice, out of order, or lost uncounted; one epoch at a time |
| IPC worker and connection (`roi_ipc_client.c`) | pipe name and handle, connected, running, stop event; in the worker: copies of name and handle, partial bytes, messages read | worker loop; `set_pipe_name`, `start`, `stop` | no handle leaks, stop returns and leaves nothing behind, bytes of two connections never meet, a rename takes effect, it reconnects |
| Byte-stream assembler (`roi_ipc_process_stream_bytes`) | up to 4096 bytes | resynchronise on magic and size, overflow | every well-formed message is found after garbage |
| FrameMsgV1 decoder (`roi_frame_msg_v1.h`) | none | decode 68 bytes | accepts exactly the documented messages |
| Filter, settings and tick (`roi_filter_source.c`) | settings; offset conflict; the sample kept for rendering; the tick's counter reading | `roi_filter_create`, `roi_filter_update`, `roi_filter_video_tick` | a forced consumer mode rules; a conflict freezes the picture and ends; what is rendered is what is applied; an offset is applied once or not at all |
| Filter, render | texrender, GPU calls | `roi_filter_video_render`, `roi_filter_try_compute_subregion_px` | the subregion is inside the source and not empty |
| Filter, metrics | snapshots and deltas | `roi_filter_infer_*` | the inferred cause matches the deltas |
| Tick arithmetic | none | ms to ticks, offsets, timeouts, with saturation | no overflow for any frequency on the wire |
| Plugin registration | none | `obs_module_load` | – |

**What is hard here.** The worker copies the pipe name and the handle under the
lock and uses them after releasing it, while the host renames the pipe or
closes the handle. The queue changes its capacity while it is full. The
producer restarts (new epoch), changes its flags in flight, repeats or rolls
back sequence numbers and effective times, or goes silent; the interpolator's
warm-up, timeout freeze and mode block meet each other in any order. The
settings change while frames made for the old ones are queued, and a frame can
itself reset the interpolator in the middle of a drain. Frequencies and times
come from the wire with all their 64 bits, and messages arrive cut into reads at
any byte.
`PROJECT.json` lists each such point with its line under "hazards", and the
properties that cover it or why none does yet.

## 2. Modules

| Module | Role |
|---|---|
| `RoiInterpolator` | the interpolator: one action per entry point, its properties, its mapping to the policy |
| `RoiHoldPolicy` | abstract specification: who owns the picture (idle, warming, live, blocked) and when what is shown may change |
| `RoiInterpolatorProofs` | TLAPS proofs about the interpolator |
| `RoiFrameQueue` | the ring buffer and the sequence filter; each operation is one critical section, hence one action |
| `DropOldestQueue` | abstract specification: a bounded FIFO that gives up its oldest item |
| `EpochQueue` | abstract specification: the queued frames themselves, what is refused, and what an epoch flushes; the contract between the client and the tick |
| `RoiFrameQueueProofs` | TLAPS proofs about the queue |
| `RoiIpcClient` | extends `RoiFrameQueue`: worker thread, host calls and producer, interleaved at every lock operation and system call |
| `RoiIpcClientProofs` | TLAPS proofs about the client, resting on those of the queue |
| `RoiFilter` | extends `RoiInterpolator` and `TickArith`: settings update, drain loop and sample against the worker's deliveries |
| `RoiFilterProofs` | TLAPS proofs about the filter, resting on those of the interpolator |
| `TickArith` | the conversions between milliseconds and ticks, modulo the word |
| `RoiGeometry` | extends `TickArith`: normalisation, blend, and the subregion in pixels |
| `FilterMath` | calls the operators of the two with every argument, and says what they must return |
| `FilterMathProofs` | TLAPS proofs of those statements |
| `StreamAssembler` | the worker's byte stream and the decoder |
| `StreamAssemblerProofs` | TLAPS proofs about the byte stream |
| `SetInduction` | induction on numbers, stated for a set of numbers; used by the proofs of the byte stream and of the interpolator |
| `MC...` | message sets, arguments and symmetry for TLC |

Operators marked "Mutant" in a comment are wrong variants of the definition
that follows them. They are used nowhere; each is a plausible bug that makes the
property it is meant for fail.

### RoiInterpolator and the code

The variables have the names of `struct roi_interpolator`. A pair (stream_id,
epoch) is one member of `Streams`, because the code only compares both at once.
A ROI is one coordinate on an integer grid: the code treats x, y, w and h alike,
except in `try_normalize_roi`, whose refusal of a frame is the frame's
`roi = NoRoi`. Blending is the code's formula with integer division, so that
"between the two ends" is a real claim about it. `from` in an anchor and `ret` (what the latest
call returned) are history. `PushFrame` is a disjunction of the function's exits
(stale seq, keepalive, refused geometry, accepted) behind the common prefix
`Identify` (stream change, mode adoption, mismatch, warm-up). `Sample` has the
three paths of the function: timeout freeze, pre-send buffer (with pruning),
legacy window. `SetWarmupValidFrames` is an entry point of the header that nothing in
the repository calls yet. `qpc` is `QueryPerformanceCounter`; it starts at 1 and only grows.

### RoiFrameQueue and the code

`frame_queue` and `frame_generation_queue` are always indexed alike and are one
array of entries; `last_message` is `has_stream_state` with the three `last_`
fields. `Accept` is the whole `else` branch of
`roi_ipc_process_decoded_message`: the flush of an epoch change, the drop of the
oldest entry, the insertion and the new stream state happen in one step.
`consumed`, `consumed_count` and `flushed_count` are history.

### RoiIpcClient and the code

`w_pc` names the points of the worker's loop between two lock operations or
system calls: `check` (stop event), `snapshot` (599-604), `connect`
(`CreateFile`), `publish` (630-640), `peek`, `read`, `deliver` (one critical
section per message), `disconnect` (665-667), `exit` (735-738), `done`. The host
is modelled as one thread that calls the settings update and the destruction:
`host_pc = "stopping"` is the wait in `stop`, during which the graphics thread
still consumes. A producer is a member of `listening`; `ServerDown` breaks its connections, after which
a peek may still succeed on what was left in the pipe. The producer of pipe p marks its frames
`stream_id = p`, so a frame tells where it came from. Bytes are abstracted: a
read yields a sequence of decoded messages and possibly a partial one. Delays
(retry, idle poll) end at any time.
`old_bytes`, `raced` and `late` are history.

### RoiFilter and the code

`g_pc` is where the graphics thread is. The worker may deliver between any two
of its steps; tick, update and render follow one another, because the filter is
registered with `OBS_SOURCE_VIDEO` (line 1611), for which OBS defers an update
to the thread that ticks. An update is two steps (settings and timeout; then the
reset and the client's part, which empties the queue), so that frames still
arrive between them. A tick is `TickStart` (reading the counter, which may fail;
the end of a conflict), one step per turn of the drain loop, and `TickSample`. A
turn that begins a conflict is two steps (`BeginConflict` resets the
interpolator, `PushConflict` pushes the emptied frame), because both are calls
of the interpolator. All other turns are `ConsumeFrame` or `DropStale`.

`Reset`, `PushFrame` and `Sample` are the interpolator's own actions: the module
extends `RoiInterpolator`, and `FilterKeepsPolicy` proves that the interpolator
driven this way still implements its abstract specification. The queue is a
first-in first-out queue of fixed capacity with the sequence filter in front,
which is what `RoiFrameQueue` is proved to be (`EpochQueueImplemented`, and
`FilterKeepsQueue` for the model's own queue; no run repeats these two); its
resizing stays there. The
comparison of generations (1014) never finds an equal one, because
`ConsumedIsOlder` holds of the queue, and is left out. `unflagged` is history.

### TickArith, RoiGeometry, FilterMath and the code

The operators are the functions of the code, one each, and a signed product or
sum is taken modulo `2 * WordHalf`: an operation whose overflow check is missing
gives a wrong number, as it may in the code. The difference of two effective
times in the blend (418) is not checked in the code. It is undefined in C; the
builds wrap, and so does the model. Horizontal and vertical axis are treated
alike and never mix, so a ROI is one span. Coordinates are numbers of
`1/Unit`; a blend is rounded down; `err` is what the float sum
`roi_x + roi_w` (488) may be off by, at most an epsilon.

### StreamAssembler and the code

The module has the worker's `stream_buffer`, the loop of
`roi_ipc_process_stream_bytes` one turn per step, and the decoder. Sizes are
scaled down: two bytes of magic number, one byte per header field at its place
behind it, one byte of payload; a message is 6 bytes, the buffer 9, a read 3.
That one byte before the payload carries the whole size is what the little-endian
16-bit read gives. `written` is chosen at the start and
is what the producer will write; `arrived` says how much of it has been read.
`start` is history: the place after the last bytes given up by an overflow or
with an oversized write. `roi_ipc_process_stream_bytes` also cuts an append
longer than the buffer (334-341); the worker's reads (256 bytes) are shorter, so
that branch cannot be taken and is left out. `AssemblerAssumption` asks that a
message and a read fit in the buffer together; with 68, 256 and 4096 bytes they
do.

## 3. Runs

| Run | Checks | Bounds |
|---|---|---|
| `presend` | `TypeOK`, `LiveHasAnchor`, `BlendsNeighbours`, `PresendShowsNewestDue` | two streams, seq 0..2, t 0..3, counter to 3, buffer of 2 anchors |
| `legacy` | `AnchorsOrdered`, `AnchorsOfStream`, `NoFlicker` | the same, legacy frames |
| `frame_stream` | `AnchorsMatchMode`, `MismatchStaysEmpty`, `IInv`, `FrameStreamShowsSentRoi`, `ImplementsPolicy` | two streams, all flag combinations with FLAG_FRAME_STREAM, seq 0..1, t 0..2, timeout off and on |
| `queue` | `QueueTypeOK`, `GenerationsContiguous`, `ConsumedIsOlder`, `FramesAccounted`, `OneEpochQueued`, `NeighboursInOrder`, `ImplementsDropOldest` | 2 streams, 2 epochs, 2 seqs, capacity 1..3, 5 accepted frames |
| `queue_seq` | `SeqMonotonePerStream`, expected to fail (see Findings) | the same |
| `client` | `ClientTypeOK`, `HandleOwned`, `StopQuiesces`, `NoGlue`, `OldPipeOnlyIfRaced`, `ImplementsQueue` | 2 pipes, 2 handles, capacity 1..2, reads of up to 2 messages, 2 accepted frames |
| `client_live` | `StopTerminates`, `Reconnects` | 2 pipes, 2 handles, capacity 1, 1 accepted frame |
| `filter` | `FilterTypeOK`, `ForcedModeHolds`, `CropIsApplied`, `OffsetHasOneOwner`, `ConflictFreezesPicture` | 2 streams in 2 epochs, 6 messages (with and without the effective-time flag, pre-send, no frequency), queue of 2, counter to 3, offset 0 or 1 ms, stale after 1 ms |
| `filter_live` | `CropResumes`, `ConflictEnds` | 3 messages, queue of 1, counter to 2 |
| `filter_epoch` | `EpochClearsAnchors`, expected to fail (see Findings) | as `filter`, queue of 1 |
| `assembler` | `ChunkingIsIrrelevant`, `NothingLost` | up to 3 writes out of 9 kinds, cut in every way |
| `math` | `TicksAreExact`, `TimeoutIsExact`, `BlendIsShown`, `SubregionFits` | every time and frequency of a 4-bit word, a second of 3 ms, coordinates -1..6 fifths, sources 1, 2, 3 and 7 pixels wide |

**Why the bounds are enough to be interesting.** With two slots the anchor
buffer overflows, is pruned, rolled back and replaced. Warm-up lengths 1 and 2
are "live at once" and "counts"; the settings also ask for 0 and 3, which the
clamp brings back. The counter passes 3 ticks, more than the timeout of 2.
Capacities 1..3 with five frames let the ring wrap, drop, shrink and grow with
frames inside. Two pipes and two handles let a closed handle's value be given
out again while the worker still holds the old copy of another. In `filter` a frame can be due, stale, early, or
without a usable frequency, an offset can make it cross from one to the other,
and the queue drops its oldest frame, so that one tick sees a conflict begin with
frames of both kinds behind it. In `math` a word of 4 bits is left by products,
sums and differences alike, and a second of 3 ms makes a division round. In
`assembler` a read of 3 bytes cuts a 6-byte message in every place, a 9-byte
message overflows the buffer when bytes are in front of it, and the kinds of
writes contain a magic number inside a message, a size too small, and a header
that claims the bytes of the next message. `NothingLost` also says that
what waits for the next read leaves room for it; a write that is in step may be
as long as `BufferCap - ReadMax + 1` bytes for that. What lies beyond the bounds is what
the proofs are for.

**Deadlock** is not checked: with the counter, the generations, the writes or
the messages at their bound, a system without input may rest, and a behaviour of
`FilterMath` is one call.

**Fairness** is used by `client_live` and `filter_live`. In `client_live` the worker thread is scheduled (weak
fairness of `Worker`), and the host's wait returns once the thread has ended
(weak fairness of `FinishStop`). Two assumptions are about the outside:
`CreateFile` on a server that is found listening again and again succeeds in
the end (strong fairness of `OpenPipe`), and what a dead server left in the
pipe runs out, so that a peek fails (strong fairness of `PeekFails`). Neither
is needed for `StopTerminates`. Nothing is assumed of the settings, the
producer or the graphics thread.

In `filter_live` OBS calls the tick again and again and lets each call and each
update end: weak fairness of `UpdateClient` and of the turns of the drain loop,
strong fairness of `TickStart` (updates may come between ticks) with a reading
that succeeds. Strong fairness of `TickSample` says that the drain loop catches up with
the worker again and again. Nothing in the code bounds that loop, so this is an
assumption about the producer's rate, not a fact about the code; it is listed as a
hazard. Nothing is assumed of the settings, the producer or the worker.

## 4. What is proved

All proofs hold for every set of streams, frames, messages, pipes and handles,
every capacity, every timeout, every word and grid, every magic number, message
size, buffer and read, and every bound, under the
named assumptions `ConstantsAssumption`, `QueueAssumption`, `ClientAssumption`,
`FilterAssumption`, `ArithAssumption`, `GeometryAssumption`,
`MathAssumption` and `AssemblerAssumption`, which TLC evaluates in every run of the module.

**Interpolator.** `IInv` is inductive (`InductiveInvariant`). It adds
`IdleIsClean` to the checked invariants: without it a stream without a mode would be
allowed, and its next frame would choose a mode while the anchors are still in the
other mode's store; and an anchor left behind by a reset would be allowed, and
samples would move a picture that no stream owns. The mutant of `IInv`, a reset that
keeps the legacy window, is of the latter kind. `AnchorsOrdered` and
`LiveHasAnchor` need each other: pruning keeps a due anchor only in an ordered
buffer. From it follow `TypeCorrect`, `AnchorsCorrect`, `OneStreamCorrect`,
`OneModeCorrect`, `MismatchCorrect` and `LiveCorrect`; the action properties
`NoFlickerCorrect`, `NewestDueCorrect`, `SentRoiCorrect` and `BlendsCorrect`; and
`PolicyImplemented`: the interpolator implements `RoiHoldPolicy`. `NewestDueCorrect` needs that the
due anchors of an ordered buffer are a prefix, whose last one the scan finds. The proof rests on lemmas about
the blend (integer division stays between its ends) and about
insertion into, and pruning of, an ordered sequence.

**Frame queue.** Every step gives up the d oldest entries and gains at most one
at its end (`QueueStep`, forms `Gives` and `Accepts`); this is where the
remainders are dealt with, by the fact that a sum of two indices wraps at most
once. From these forms follow that `QueueInv` (all the checked invariants
together) is inductive, and `DropOldestImplemented`: by contiguity of the
generations the abstract queue is the window of the last
`frame_queue_size` generations. `QueueInv` needs the conjunction: the order of
neighbours needs `OneEpochQueued` (the newest entry is the one the filter
compares with), and `ConsumedIsOlder` needs contiguity. Each conjunct has its
theorem (`QueueTypeCorrect` to `NeighboursCorrect`). `EpochQueueImplemented`
follows from the same forms: seen as a sequence of frames, a step appends behind
what is left of it (`SequenceMoves`), takes its head, or empties it.

**Client.** Every client step is a queue step or leaves the queue alone
(`ClientImplementsQueue`), so all the queue's theorems hold in the running
client (`ClientDropsOldest`, `ClientKeepsEpochQueue`). `ClientInv` is inductive; it adds what the
worker's stale copies can mean: a worker that is opening a pipe is not connected
(`HandleInv`); a connection that is up has no bytes of another (`BytesInv`); the name it is opening is the current one unless `raced`, and the messages it holds are the current pipe's
unless `late` or `raced` (`OldPipeInv`). From it follow `HandlesCorrect`,
`StopCorrect`, `NoGlueCorrect` and `RenameCorrect`.

**Filter.** Every step of the filter is a call of the interpolator or leaves
it alone, so `IInv` is preserved by the interpolator's lemmas; the one thing to
show is that the frames the filter makes (forced mode, emptied, shifted) are
still frames. `FilterInv` adds the filter's own conjuncts. `ConflictLeavesNoAnchor` is not
checked by a run: it is the strengthening that `FreezeCorrect` needs (the picture moves
only towards an anchor, and while a conflict lasts without an unflagged frame
there is none, because every frame pushed is an emptied one). `CropCorrect` needs
that a reset with `preserve = true` keeps the ROI applied last, and that a sample
that returns a ROI has applied it. `OffsetCorrect` needs that an anchor's time comes from one
message through `ForInterpolator`, also in the two slots of the legacy window.
`FilterKeepsPolicy` maps every step of the filter to a step of `RoiHoldPolicy` or a stutter.
`FilterKeepsQueue` ties the two halves of the project together: `RoiFilter` models the
client by a sequence, and both this sequence and the ring in the running client
implement `EpochQueue`, so the filter is driven by what the client can deliver,
refusals and flushes of an epoch included.

**Arithmetic and geometry.** `TicksCorrect`, `TimeoutCorrect`, `BlendCorrect` and
`SubregionCorrect` hold for every word, second, grid, time, frequency, setting,
coordinate and width. They rest on a handful of lemmas about products and
integer division, proved first and cited, since the solver does no non-linear
arithmetic by itself: a product below a bound iff a factor is below the
quotient, quotients are monotone, the remainder of a number that fits the word is
itself. `PixelSpanInside` is stronger than the geometry needs: whatever `floor` and
`ceil` return, the chain of corrections ends with at least one pixel, inside the source.

**Byte stream.** `ChunkingCorrect` and `NothingLostCorrect` hold for every
sequence of writes and every way to cut them into reads.

*The reference.* `Messages` and `ArrivedMessages` are recursive functions over
the bytes and the writes. The provers cannot instantiate the library's induction
theorems, which take a predicate as a parameter, so `SetInduction` states
induction for a set of numbers: it follows from the well-foundedness of strict
inclusion among the intervals `1..k`. With it the functions are shown to exist
(`FromExists`, `FirstBytesExists`, `ArrivedExists`), and what `Messages` finds in a
sequence from place i on is what it finds in the rest alone (`FromShift`). From
that follow its equations, one for each turn of the loop: `SkipNoise`, `TooShort`,
`AtMagic`.

*The invariant.* That the loop has delivered what the reference finds is not
inductive: the buffer holds bytes that mean nothing yet. `ForgotNothing` says it
for every continuation: whatever bytes x follow, the reference finds in all that
was kept and x what was delivered and then what it finds in the buffer and x.
`InvKeepTail` is where this is delicate: one byte less kept, and a magic number
that x completes is lost. With it go `BufferIsSuffix` (the buffer is the end of what
arrived and begins behind what was given up) and `Waiting` (why the loop stopped);
together with the types they are `AssemblerInv`. `ReadFitsCorrect`, that the
append stays inside the buffer, follows from the types, and so does `LoopEnds`: a turn
that goes on takes a byte out of the buffer, whatever size a message declares;
`ChunkingCorrect` from the empty continuation, since in a buffer that waits there
is no message (`NothingLeft`).

*In step.* `NothingLostCorrect` needs where each write lies in the bytes
(`Ends`, `ItemByte`, `InItem`) and that a byte of garbage never begins a magic
number (`NoStraddling`: such a number would reach into a later message, whose own magic
number does not have the byte it needs there). Then one pass over any prefix finds exactly
the messages that have arrived completely (`MessagesAreArrived`), by induction
from the last write to the first, and by `ChunkingCorrect` that is what was
delivered. For the room left in the buffer a second invariant is needed,
`InSyncCorrect`: the buffer begins where a write begins. Dropping noise keeps it,
since a message that began among the dropped bytes would have its magic number
there (`NoiseEndsAtItem`); a magic number at its beginning is that of a write, so
its size is never bad and `SkipBadSize` is not taken (`MagicAtItem`).

**Model-checked only.** `StopTerminates`, `Reconnects`, `CropResumes` and
`ConflictEnds`: liveness under fairness is out of the prover's reach. Every
safety invariant and action property of a passing run is proved.

## 5. Findings

`queue_seq`: the sequence filter remembers only the message accepted last. After
seq 1 of stream 1 and seq 1 of stream 2, seq 1 of stream 1 in the same epoch is
accepted and queued a second time (a smaller one would be, too), while `IPC_REFERENCE.md` line 59 says "Drop
non-monotonic `seq` within the same `streamId + epoch`". With one stream per
epoch the rule holds (it follows from `NeighboursInOrder`, which is proved).

`filter_epoch`: `IPC_REFERENCE.md` line 60 says "Treat `epoch` changes as stream
reset and clear interpolation state". The tick drops a frame older than
`stale_drop_ms` before it pushes it (line 1121), so the interpolator does not
learn of the new epoch: the anchors of the old one stay, and are shown, until a
fresh frame of the new epoch, or one with `valid = 0`, arrives.

Two behaviours that are not divergences from a document but worth knowing are
visible in the models: a rename that falls between the worker's snapshot and its
publication leaves the client on the old pipe until that connection breaks, and messages
already read are delivered after a rename (`OldPipeOnlyIfRaced` names
exactly these windows); and frames that the interpolator refuses still refresh its
receive time.

## 6. Not modelled, and why

- Statistics, logging and debug flags: they change nothing else. Counters that
  are part of a property (`queue_drop_count`) are modelled.
- The metrics and the root cause inferred from them: every second the tick
  writes the differences of those counters to the log. Nothing reads them back.
- Floating point: coordinates are a grid and a blend is rounded down. The one
  rounding that can move a pixel border, the sum of two floats, is an error
  bounded by the epsilon; the products with the width, in double, are taken as exact.
- Clamping of the settings: the models choose settings from the clamped range.
- A filter whose client or interpolator could not be allocated (it only passes
  the video through), and `roi_filter_destroy` beyond the client's stop.
- The texture capture, the draw call and its letterbox: GPU calls.
- `connect_retry_ms`: delays are arbitrary.
- A closed handle's value reused by another part of the OBS process.
- Two host threads calling `start` and `stop` at once: the code does not
  support it, and OBS does not do it.
- GPU calls, plugin registration, build files.

## 7. Plan

Done, in this order: `RoiInterpolator`, `RoiHoldPolicy`, their proofs;
`RoiFrameQueue`, `DropOldestQueue`; `RoiIpcClient`; the proofs of the queue and
of the client; `TickArith`, `RoiGeometry`, `FilterMath`; `StreamAssembler`;
`RoiFilter`; the proofs of the filter and of the arithmetic; the remaining
properties of the interpolator and of the queue; the proofs of the byte stream; `EpochQueue`
and the proofs that client and filter implement it.

What could still be added:

1. A capacity in `RoiFilter` that the settings update changes, as `EpochQueue` allows.
2. A bound on a tick: a drain loop that takes at most what was queued when the
   tick began would turn the assumption of `filter_live` into a property.
3. The letterbox (scale and offsets, 666-684) in `RoiGeometry`: the drawn
   rectangle stays inside the output.
