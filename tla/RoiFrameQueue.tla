---------------------------- MODULE RoiFrameQueue ----------------------------
(***************************************************************************)
(* The frame queue of the IPC client (src/src/roi_ipc_client.c): the ring  *)
(* buffer that the worker thread fills with decoded frames                 *)
(* (roi_ipc_process_decoded_message, with its sequence filter) and that    *)
(* the graphics thread drains (roi_ipc_client_try_consume_next).  Every    *)
(* operation holds the client's lock from its first access to its last, so *)
(* each one is a single action; RoiIpcClient interleaves the threads.      *)
(*                                                                         *)
(* frame_queue and frame_generation_queue, always accessed with the same   *)
(* index, are one array of entries.  has_stream_state and the three last_  *)
(* fields are one value, the message they were copied from.                *)
(* message_accept_count is left out: it is incremented together with       *)
(* latest_generation and neither is ever reset.                            *)
(***************************************************************************)
EXTENDS Integers, Sequences

CONSTANTS
    Messages,       \* the frames a producer may send
    NoMessage,      \* has_stream_state = false
    CapMin, CapMax, \* ROI_IPC_FRAME_QUEUE_CAP_MIN/MAX
    CapDefault,     \* ROI_IPC_FRAME_QUEUE_CAP_DEFAULT
    GenMax          \* bound on the frames accepted in one behaviour

MessageType == [stream_id : Nat, epoch : Nat, seq : Nat]

ASSUME QueueAssumption ==
    /\ Messages \subseteq MessageType /\ NoMessage \notin MessageType
    /\ CapMin \in Nat \ {0} /\ CapMax \in Nat
    /\ CapDefault \in CapMin..CapMax
    /\ GenMax \in Nat

\* generation = 0 marks a slot that was never written.
Entry == [message : MessageType \cup {NoMessage}, generation : Nat]

VARIABLES
    frame_queue, frame_queue_head, frame_queue_size, frame_queue_cap,
    last_message,           \* has_stream_state, last_stream_id/epoch/seq
    latest_generation, queue_drop_count,
    consumed,               \* the generation the last consume handed out
    consumed_count,         \* history: how many frames were handed out
    flushed_count           \* history: frames cleared and counted nowhere

ringVars == <<frame_queue, frame_queue_head, frame_queue_size>>
queueVars == <<ringVars, frame_queue_cap, last_message, latest_generation,
               queue_drop_count, consumed, consumed_count, flushed_count>>

Slots == 0..CapMax - 1

QueueInit ==
    /\ frame_queue = [s \in Slots |-> [message |-> NoMessage, generation |-> 0]]
    /\ frame_queue_head = 0 /\ frame_queue_size = 0
    /\ frame_queue_cap = CapDefault
    /\ last_message = NoMessage
    /\ latest_generation = 0 /\ queue_drop_count = 0
    /\ consumed = 0 /\ consumed_count = 0 /\ flushed_count = 0

-----------------------------------------------------------------------------
(* The worker's side: roi_ipc_process_decoded_message *)

\* Mutant: a repeated seq passes.
OutOfOrderStrictly(m) ==
    /\ last_message # NoMessage
    /\ m.stream_id = last_message.stream_id /\ m.epoch = last_message.epoch
    /\ m.seq < last_message.seq

OutOfOrder(m) ==
    /\ last_message # NoMessage
    /\ m.stream_id = last_message.stream_id /\ m.epoch = last_message.epoch
    /\ m.seq <= last_message.seq

\* Mutant: a new stream's epoch is not compared.
EpochChangedInStream(m) ==
    /\ last_message # NoMessage /\ m.epoch # last_message.epoch
    /\ m.stream_id = last_message.stream_id

EpochChanged(m) == last_message # NoMessage /\ m.epoch # last_message.epoch

DropOutOfOrder(m) == OutOfOrder(m) /\ UNCHANGED queueVars

\* Mutant: the ring wraps at the size of its array.
InsertAtArrayEnd(head, size, e) ==
    /\ frame_queue' = [frame_queue EXCEPT ![(head + size) % CapMax] = e]
    /\ frame_queue_head' = head
    /\ frame_queue_size' = size + 1

\* Put entry e behind the size entries from head on.
Insert(head, size, e) ==
    /\ frame_queue' = [frame_queue EXCEPT ![(head + size) % frame_queue_cap] = e]
    /\ frame_queue_head' = head
    /\ frame_queue_size' = size + 1

EntryFor(m) == [message |-> m, generation |-> latest_generation + 1]

\* After the flush of an epoch change there is always room.
AcceptNewEpoch(m) ==
    /\ EpochChanged(m)
    /\ Insert(IF frame_queue_size > 0 THEN 0 ELSE frame_queue_head, 0, EntryFor(m))
    /\ queue_drop_count' = queue_drop_count + frame_queue_size

AcceptWithRoom(m) ==
    /\ ~EpochChanged(m) /\ frame_queue_size < frame_queue_cap
    /\ Insert(frame_queue_head, frame_queue_size, EntryFor(m))
    /\ UNCHANGED queue_drop_count

\* Mutants: the new frame overwrites the newest one; the drop is not counted.
AcceptDroppingNewest(m) ==
    /\ ~EpochChanged(m) /\ frame_queue_size >= frame_queue_cap
    /\ Insert(frame_queue_head, frame_queue_size - 1, EntryFor(m))
    /\ queue_drop_count' = queue_drop_count + 1
AcceptDroppingSilently(m) ==
    /\ ~EpochChanged(m) /\ frame_queue_size >= frame_queue_cap
    /\ Insert((frame_queue_head + 1) % frame_queue_cap, frame_queue_size - 1,
              EntryFor(m))
    /\ UNCHANGED queue_drop_count

AcceptDroppingOldest(m) ==
    /\ ~EpochChanged(m) /\ frame_queue_size >= frame_queue_cap
    /\ Insert((frame_queue_head + 1) % frame_queue_cap, frame_queue_size - 1,
              EntryFor(m))
    /\ queue_drop_count' = queue_drop_count + 1

Accept(m) ==
    /\ ~OutOfOrder(m) /\ latest_generation < GenMax
    /\ AcceptNewEpoch(m) \/ AcceptWithRoom(m) \/ AcceptDroppingOldest(m)
    /\ last_message' = m
    /\ latest_generation' = latest_generation + 1
    /\ UNCHANGED <<frame_queue_cap, consumed, consumed_count, flushed_count>>

ProcessMessage(m) == DropOutOfOrder(m) \/ Accept(m)

-----------------------------------------------------------------------------
(* The graphics thread's side *)

\* roi_ipc_client_try_consume_next when it returns true.
ConsumeNext ==
    /\ frame_queue_size > 0
    /\ consumed' = frame_queue[frame_queue_head].generation
    /\ frame_queue_head' = (frame_queue_head + 1) % frame_queue_cap
    /\ frame_queue_size' = frame_queue_size - 1
    /\ consumed_count' = consumed_count + 1
    /\ UNCHANGED <<frame_queue, frame_queue_cap, last_message,
                   latest_generation, queue_drop_count, flushed_count>>

\* Mutant: the older entries stay queued.
ConsumeLatestOnly ==
    /\ frame_queue_size > 0
    /\ consumed' = frame_queue[(frame_queue_head + frame_queue_size - 1)
                                    % frame_queue_cap].generation
    /\ frame_queue_size' = frame_queue_size - 1
    /\ consumed_count' = consumed_count + 1
    /\ UNCHANGED <<frame_queue, frame_queue_head, frame_queue_cap, last_message,
                   latest_generation, queue_drop_count, flushed_count>>

\* roi_ipc_client_try_consume_latest when it returns true.
ConsumeLatest ==
    /\ frame_queue_size > 0
    /\ consumed' = frame_queue[(frame_queue_head + frame_queue_size - 1)
                                    % frame_queue_cap].generation
    /\ frame_queue_head' = 0 /\ frame_queue_size' = 0
    /\ consumed_count' = consumed_count + 1
    /\ flushed_count' = flushed_count + frame_queue_size - 1
    /\ UNCHANGED <<frame_queue, frame_queue_cap, last_message,
                   latest_generation, queue_drop_count>>

\* Mutant: the entries are kept.
SetQueueCapKeeping(cap) ==
    /\ frame_queue_cap' = cap
    /\ UNCHANGED <<ringVars, last_message, latest_generation, queue_drop_count,
                   consumed, consumed_count, flushed_count>>

\* roi_ipc_client_set_queue_cap; CapMin..CapMax is what its clamp lets through.
SetQueueCap(cap) ==
    /\ IF cap # frame_queue_cap
       THEN /\ queue_drop_count' = queue_drop_count + frame_queue_size
            /\ frame_queue_head' = 0 /\ frame_queue_size' = 0
       ELSE UNCHANGED <<queue_drop_count, frame_queue_head, frame_queue_size>>
    /\ frame_queue_cap' = cap
    /\ UNCHANGED <<frame_queue, last_message, latest_generation, consumed,
                   consumed_count, flushed_count>>

\* Mutant: the stream of the emptied queue is remembered.
ClearQueueKeepingStream ==
    /\ frame_queue_head' = 0 /\ frame_queue_size' = 0
    /\ flushed_count' = flushed_count + frame_queue_size
    /\ UNCHANGED <<frame_queue, frame_queue_cap, last_message,
                   latest_generation, queue_drop_count, consumed, consumed_count>>

\* What set_pipe_name, start and stop do to the queue: it is emptied without
\* counting the frames, and the next message starts a new stream.
ClearQueue ==
    /\ frame_queue_head' = 0 /\ frame_queue_size' = 0
    /\ last_message' = NoMessage
    /\ flushed_count' = flushed_count + frame_queue_size
    /\ UNCHANGED <<frame_queue, frame_queue_cap, latest_generation,
                   queue_drop_count, consumed, consumed_count>>

QueueNext ==
    \/ \E m \in Messages : ProcessMessage(m)
    \/ ConsumeNext \/ ConsumeLatest
    \/ \E cap \in CapMin..CapMax : SetQueueCap(cap)
    \/ ClearQueue

QueueSpec == QueueInit /\ [][QueueNext]_queueVars

-----------------------------------------------------------------------------
(* What must hold *)

\* Every variable has its type, and the ring stays inside its capacity: the
\* indices computed from head and size are slots of the arrays.
QueueTypeOK ==
    /\ frame_queue \in [Slots -> Entry]
    /\ frame_queue_cap \in CapMin..CapMax
    /\ frame_queue_head \in 0..frame_queue_cap - 1
    /\ frame_queue_size \in 0..frame_queue_cap
    /\ last_message \in MessageType \cup {NoMessage}
    /\ latest_generation \in Nat /\ queue_drop_count \in Nat
    /\ consumed \in Nat /\ consumed_count \in Nat /\ flushed_count \in Nat

\* The i-th oldest entry of the ring.
Queued(i) == frame_queue[(frame_queue_head + i - 1) % frame_queue_cap]

\* The queued entries are exactly the latest frames accepted, in the order of
\* their acceptance: wrapping, dropping, flushing and resizing lose no frame in
\* the middle, repeat none and swap none.
GenerationsContiguous ==
    \A i \in 1..frame_queue_size :
        Queued(i).generation = latest_generation - frame_queue_size + i

\* Every frame is handed out at most once and in order: what is still queued is
\* newer than what the graphics thread already took, so its comparison with
\* last_consumed_generation (src/src/roi_filter_source.c, 1014) never matches.
ConsumedIsOlder ==
    /\ consumed <= latest_generation - frame_queue_size
    /\ \A i \in 1..frame_queue_size : consumed < Queued(i).generation

\* No frame is lost without a trace: each accepted frame was handed out, was
\* counted as dropped, was cleared with the queue, or is queued.
FramesAccounted ==
    latest_generation =
        consumed_count + queue_drop_count + flushed_count + frame_queue_size

\* One epoch at a time: frames of an old epoch never wait behind or in front of
\* frames of a new one, and the newest queued frame is the one the sequence
\* filter compares with.
OneEpochQueued ==
    frame_queue_size > 0 =>
        /\ last_message # NoMessage
        /\ Queued(frame_queue_size).message = last_message
        /\ \A i \in 1..frame_queue_size :
              /\ Queued(i).message # NoMessage
              /\ Queued(i).message.epoch = last_message.epoch

\* Neighbours of one stream are queued with increasing seq.
NeighboursInOrder ==
    \A i \in 1..frame_queue_size - 1 :
        Queued(i).message.stream_id = Queued(i + 1).message.stream_id
            => Queued(i).message.seq < Queued(i + 1).message.seq

\* IPC_REFERENCE.md, 59: "Drop non-monotonic seq within the same streamId +
\* epoch": no two queued frames of one stream and epoch are out of order.
SeqMonotonePerStream ==
    \A i, j \in 1..frame_queue_size :
        /\ i < j
        /\ Queued(i).message.stream_id = Queued(j).message.stream_id
        /\ Queued(i).message.epoch = Queued(j).message.epoch
        => Queued(i).message.seq < Queued(j).message.seq

Abstract == INSTANCE DropOldestQueue
    WITH Items <- 1..GenMax,
         Capacities <- CapMin..CapMax,
         items <- [i \in 1..frame_queue_size |-> Queued(i).generation],
         cap <- frame_queue_cap,
         taken <- IF consumed = 0 THEN <<>> ELSE <<consumed>>

\* The ring buffer is a bounded first-in first-out queue that drops its oldest
\* entry.
ImplementsDropOldest == Abstract!Spec

\* A message's stream and epoch are the source its seq is compared within.
Frames == INSTANCE EpochQueue
    WITH Items <- Messages, None <- NoMessage,
         SourceOf <- [m \in MessageType |-> <<m.stream_id, m.epoch>>],
         EpochOf <- [m \in MessageType |-> m.epoch],
         SeqOf <- [m \in MessageType |-> m.seq],
         Capacities <- CapMin..CapMax,
         queue <- [i \in 1..frame_queue_size |-> Queued(i).message],
         newest <- last_message,
         cap <- frame_queue_cap

\* What is queued are the frames themselves, refused, flushed and given up as
\* the abstract queue does it.
ImplementsEpochQueue == Frames!Spec
=============================================================================
