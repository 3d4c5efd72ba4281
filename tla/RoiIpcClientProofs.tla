-------------------------- MODULE RoiIpcClientProofs --------------------------
(***************************************************************************)
(* Proofs about RoiIpcClient, for every set of pipes, handles and messages *)
(* and every range of capacities.  The client's steps are steps of the     *)
(* frame queue, so what RoiFrameQueueProofs proves of the queue holds of   *)
(* the running client.  The other invariants need ClientInv, which says    *)
(* what the worker's stale copies of the name and of the handle can still  *)
(* mean at each point of its loop.                                         *)
(***************************************************************************)
EXTENDS RoiIpcClient, RoiFrameQueueProofs, SequenceTheorems

-----------------------------------------------------------------------------
(* Type correctness *)

\* The initial state has the type.
LEMMA ClientTypeInit == ClientInit => ClientTypeOK
<1> SUFFICES ASSUME ClientInit PROVE ClientTypeOK
    OBVIOUS
<1>1. QueueTypeOK
    BY QueueTypeInit DEF ClientInit
<1>2. /\ stop_event \in BOOLEAN /\ worker_thread \in BOOLEAN
      /\ running \in BOOLEAN /\ connected \in BOOLEAN
      /\ stream_bytes \in BOOLEAN /\ old_bytes \in BOOLEAN
      /\ raced \in BOOLEAN /\ late \in BOOLEAN
    BY DEF ClientInit
<1>3. /\ pipe_name \in PipeNames /\ w_name \in PipeNames
      /\ pipe_handle \in Handles \cup {INVALID_HANDLE_VALUE}
      /\ w_handle \in Handles \cup {INVALID_HANDLE_VALUE}
      /\ listening \subseteq PipeNames /\ alive \subseteq Handles
      /\ endpoint \in [Handles -> PipeNames \cup {NoPipe}]
    BY DEF ClientInit
<1>4. w_pc \in WorkerPCs /\ host_pc \in {"idle", "stopping"}
    BY DEF ClientInit, WorkerPCs
<1>5. w_chunk \in Seq(Messages) /\ (w_pc = "deliver" <=> w_chunk # <<>>)
    BY DEF ClientInit
<1>6. QED
    BY <1>1, <1>2, <1>3, <1>4, <1>5 DEF ClientTypeOK

\* What a read yields is a sequence of messages of one pipe.
LEMMA ChunkType ==
    ASSUME NEW p, NEW chunk \in Chunks(p)
    PROVE  /\ chunk \in Seq(Messages)
           /\ \A i \in 1..Len(chunk) : chunk[i].stream_id = p
BY ClientAssumption DEF Chunks

\* The chunk left after a delivery.
LEMMA ChunkTail ==
    ASSUME NEW chunk \in Seq(Messages), chunk # <<>>
    PROVE  /\ Head(chunk) \in Messages /\ Head(chunk) = chunk[1]
           /\ Tail(chunk) \in Seq(Messages)
           /\ Len(chunk) = 1 <=> Tail(chunk) = <<>>
           /\ 1 \in 1..Len(chunk)
           /\ \A i \in 1..Len(Tail(chunk)) :
                i + 1 \in 1..Len(chunk) /\ Tail(chunk)[i] = chunk[i + 1]
<1>1. Len(chunk) \in Nat /\ Len(chunk) > 0
    OBVIOUS
<1>2. Tail(chunk) \in Seq(Messages) /\ Len(Tail(chunk)) = Len(chunk) - 1
    OBVIOUS
<1>3. Len(Tail(chunk)) = 0 <=> Tail(chunk) = <<>>
    BY <1>2
<1>4. QED
    BY <1>1, <1>2, <1>3

\* Every step of the client is a step of the queue or leaves it alone.
LEMMA ClientStepsQueue ==
    ASSUME ClientTypeOK, [ClientNext]_clientVars
    PROVE  [QueueNext]_queueVars
<1>1. CASE Worker
  <2>1. CASE Deliver
    <3>1. Head(w_chunk) \in Messages
        BY <2>1, ChunkTail DEF Deliver, ClientTypeOK
    <3>2. QED
        BY <2>1, <3>1 DEF Deliver, QueueNext
  <2>2. QED
      BY <1>1, <2>1 DEF Worker, CheckStop, Snapshot, OpenPipe, OpenFails, Publish,
         PeekFails, PeekSucceeds, ReadChunk, ReadFails, Disconnect, Exit
<1>2. CASE \E p \in PipeNames : SetPipeName(p) \/ ServerUp(p) \/ ServerDown(p)
    BY <1>2 DEF SetPipeName, ServerUp, ServerDown, QueueNext
<1>3. CASE \E cap \in CapMin..CapMax : ResizeQueue(cap)
    BY <1>3 DEF ResizeQueue, QueueNext
<1>4. CASE Start \/ BeginStop \/ FinishStop \/ Consume
    BY <1>4 DEF Start, BeginStop, FinishStop, Consume, QueueNext
<1>5. CASE UNCHANGED clientVars
    BY <1>5 DEF clientVars
<1>6. QED
    BY <1>1, <1>2, <1>3, <1>4, <1>5 DEF ClientNext

\* Each step keeps the types.  A new worker starts with nothing to deliver
\* because start finds no worker left.
LEMMA ClientTypeStep ==
    ASSUME ClientTypeOK, StopQuiesces, [ClientNext]_clientVars
    PROVE  ClientTypeOK'
<1>q. QueueTypeOK'
    BY ClientStepsQueue, QueueTypeStep DEF ClientTypeOK
<1> USE <1>q DEF ClientTypeOK, workerVars, bytesVars, pipeVars, hostVars,
        historyVars, Goto, WorkerPCs
<1>1. CASE CheckStop \/ PeekFails \/ PeekSucceeds
    BY <1>1 DEF CheckStop, PeekFails, PeekSucceeds
<1>2. CASE Snapshot
  <2>1. w_pc' \in {"connect", "peek"} /\ w_pc = "snapshot"
      BY <1>2 DEF Snapshot
  <2>2. raced' \in BOOLEAN /\ late' \in BOOLEAN
      BY <1>2 DEF Snapshot
  <2>3. QED
      BY <1>2, <2>1, <2>2 DEF Snapshot
<1>3. CASE OpenPipe
  <2>1. /\ w_handle' \in Handles \cup {INVALID_HANDLE_VALUE}
        /\ endpoint' \in [Handles -> PipeNames \cup {NoPipe}]
        /\ alive' \subseteq Handles
      BY <1>3 DEF OpenPipe
  <2>2. QED
      BY <1>3, <2>1 DEF OpenPipe
<1>4. CASE OpenFails
  <2>1. stream_bytes' \in BOOLEAN /\ old_bytes' \in BOOLEAN
      BY <1>4 DEF OpenFails, DropBytes
  <2>2. QED
      BY <1>4, <2>1 DEF OpenFails
<1>5. CASE Publish
    BY <1>5 DEF Publish, OnPublish, DropBytes
<1>6. CASE ReadChunk
  <2>1. PICK chunk \in Chunks(endpoint[w_handle]), partial \in BOOLEAN :
            /\ w_chunk' = chunk
            /\ stream_bytes' = partial /\ old_bytes' = (old_bytes /\ partial)
            /\ Goto(IF chunk = <<>> THEN "check" ELSE "deliver")
      BY <1>6 DEF ReadChunk
  <2>2. chunk \in Seq(Messages)
      BY ChunkType
  <2>3. QED
      BY <1>6, <2>1, <2>2 DEF ReadChunk
<1>7. CASE ReadFails
  <2>1. stream_bytes' \in BOOLEAN /\ old_bytes' \in BOOLEAN
      BY <1>7 DEF ReadFails, DropBytes
  <2>2. w_pc' \in {"disconnect", "check"} /\ w_pc = "read"
      BY <1>7 DEF ReadFails
  <2>3. QED
      BY <1>7, <2>1, <2>2 DEF ReadFails
<1>8. CASE Deliver
  <2>1. /\ Tail(w_chunk) \in Seq(Messages)
        /\ Len(w_chunk) = 1 <=> Tail(w_chunk) = <<>>
      BY <1>8, ChunkTail DEF Deliver
  <2>2. QED
      BY <1>8, <2>1 DEF Deliver
<1>9. CASE Disconnect
    BY <1>9 DEF Disconnect, ClosePipe, DropBytes
<1>10. CASE Exit
    BY <1>10 DEF Exit, ClosePipe
<1>11. ASSUME NEW p \in PipeNames, SetPipeName(p) PROVE ClientTypeOK'
  <2>1. /\ pipe_handle' \in Handles \cup {INVALID_HANDLE_VALUE}
        /\ endpoint' \in [Handles -> PipeNames \cup {NoPipe}]
        /\ alive' \subseteq Handles
      BY <1>11 DEF SetPipeName, CloseOnRename, ClosePipe
  <2>2. connected' \in BOOLEAN /\ old_bytes' \in BOOLEAN
      BY <1>11 DEF SetPipeName, CloseOnRename, ClosePipe
  <2>3. raced' \in BOOLEAN /\ late' \in BOOLEAN
      BY <1>11 DEF SetPipeName
  <2>4. QED
      BY <1>11, <2>1, <2>2, <2>3 DEF SetPipeName
<1>12. ASSUME NEW p \in PipeNames, ServerUp(p) \/ ServerDown(p)
       PROVE  ClientTypeOK'
    BY <1>12 DEF ServerUp, ServerDown
<1>13. ASSUME NEW cap \in CapMin..CapMax, ResizeQueue(cap) PROVE ClientTypeOK'
    BY <1>13 DEF ResizeQueue
<1>14. CASE Start
  <2>1. w_pc # "deliver" /\ w_chunk = <<>>
      BY <1>14 DEF Start, StopQuiesces
  <2>2. w_pc' \in {w_pc, "check"}
      BY <1>14 DEF Start
  <2>3. /\ running' \in BOOLEAN /\ worker_thread' \in BOOLEAN
        /\ stream_bytes' \in BOOLEAN /\ old_bytes' \in BOOLEAN
        /\ stop_event' \in BOOLEAN
      BY <1>14 DEF Start, DropBytes
  <2>4. QED
      BY <1>14, <2>1, <2>2, <2>3 DEF Start
<1>15. CASE BeginStop
  <2>1. /\ pipe_handle' \in Handles \cup {INVALID_HANDLE_VALUE}
        /\ endpoint' \in [Handles -> PipeNames \cup {NoPipe}]
        /\ alive' \subseteq Handles
      BY <1>15 DEF BeginStop, ClosePipe
  <2>2. /\ connected' \in BOOLEAN /\ running' \in BOOLEAN
        /\ stop_event' \in BOOLEAN /\ host_pc' \in {"idle", "stopping"}
      BY <1>15 DEF BeginStop, ClosePipe
  <2>3. QED
      BY <1>15, <2>1, <2>2 DEF BeginStop
<1>16. CASE FinishStop
    BY <1>16 DEF FinishStop, ClosePipe
<1>17. CASE Consume
    BY <1>17 DEF Consume
<1>18. CASE UNCHANGED clientVars
    BY <1>18 DEF clientVars
<1>19. QED
    BY <1>1, <1>2, <1>3, <1>4, <1>5, <1>6, <1>7, <1>8, <1>9, <1>10, <1>11,
       <1>12, <1>13, <1>14, <1>15, <1>16, <1>17, <1>18 DEF ClientNext, Worker

-----------------------------------------------------------------------------
(* Stop *)

\* Each step keeps StopQuiesces: only check, which saw the event, leads the
\* worker to its exit, and only the host that signalled it takes it back.
LEMMA StopStep ==
    ASSUME ClientTypeOK, StopQuiesces, [ClientNext]_clientVars
    PROVE  StopQuiesces'
<1> USE DEF StopQuiesces, workerVars, bytesVars, pipeVars, hostVars,
        historyVars, Goto, queueVars, ringVars
<1>1. CASE CheckStop
    BY <1>1 DEF CheckStop
<1>2. CASE Snapshot \/ OpenPipe \/ OpenFails \/ PeekFails \/ PeekSucceeds
              \/ ReadChunk \/ ReadFails
    BY <1>2 DEF Snapshot, OpenPipe, OpenFails, PeekFails, PeekSucceeds,
       ReadChunk, ReadFails
<1>3. CASE Publish
    BY <1>3 DEF Publish
<1>4. CASE Deliver
  <2>1. w_pc = "deliver" /\ w_pc' \in {"check", "deliver"}
      BY <1>4 DEF Deliver
  <2>2. worker_thread /\ running /\ worker_thread' /\ running'
      BY <1>4, <2>1 DEF Deliver
  <2>3. QED
      BY <1>4, <2>1, <2>2 DEF Deliver
<1>5. CASE Disconnect
    BY <1>5 DEF Disconnect, ClosePipe
<1>6. CASE Exit
    BY <1>6 DEF Exit, ClosePipe
<1>7. ASSUME NEW p \in PipeNames, SetPipeName(p) PROVE StopQuiesces'
  <2>1. connected' => connected
      BY <1>7 DEF SetPipeName, CloseOnRename, ClosePipe
  <2>2. frame_queue_size' = 0 /\ last_message' = NoMessage
      BY <1>7 DEF SetPipeName, ClearQueue
  <2>3. QED
      BY <1>7, <2>1, <2>2 DEF SetPipeName
<1>8. ASSUME NEW p \in PipeNames, ServerUp(p) \/ ServerDown(p)
      PROVE  StopQuiesces'
    BY <1>8 DEF ServerUp, ServerDown
<1>9. ASSUME NEW cap \in CapMin..CapMax, ResizeQueue(cap) PROVE StopQuiesces'
  <2>1. /\ last_message' = last_message
        /\ frame_queue_size' \in {0, frame_queue_size}
      BY <1>9 DEF ResizeQueue, SetQueueCap
  <2>2. QED
      BY <1>9, <2>1 DEF ResizeQueue
<1>10. CASE Start
    BY <1>10 DEF Start, ClearQueue
<1>11. CASE BeginStop
    BY <1>11 DEF BeginStop, ClosePipe
<1>12. CASE FinishStop
    BY <1>12 DEF FinishStop, ClosePipe, ClearQueue
<1>13. CASE Consume
  <2>1. frame_queue_size # 0
      BY <1>13 DEF Consume, ConsumeNext, ConsumeLatest
  <2>2. worker_thread
      BY <2>1 DEF ClientTypeOK
  <2>3. QED
      BY <1>13, <2>2 DEF Consume
<1>14. CASE UNCHANGED clientVars
    BY <1>14 DEF clientVars
<1>15. QED
    BY <1>1, <1>2, <1>3, <1>4, <1>5, <1>6, <1>7, <1>8, <1>9, <1>10, <1>11,
       <1>12, <1>13, <1>14 DEF ClientNext, Worker

-----------------------------------------------------------------------------
(* Handles *)

\* A worker that opens a pipe is the only one who can publish it.
HandleInv ==
    /\ HandleOwned
    /\ w_pc \in {"connect", "publish"} => ~connected

\* What closing the published handle does to the open ones.
LEMMA CloseKeepsHandles ==
    ASSUME ClientTypeOK, HandleInv, ClosePipe
    PROVE  /\ connected' = FALSE /\ pipe_handle' = INVALID_HANDLE_VALUE
           /\ \A h \in Handles : Open(h)' <=> Open(h) /\ h # pipe_handle
           /\ {h \in Handles : Open(h)}' =
                IF w_pc = "publish" THEN {w_handle} ELSE {}
<1>1. connected' = FALSE /\ pipe_handle' = INVALID_HANDLE_VALUE
    BY DEF ClosePipe
<1>2. \A h \in Handles : Open(h)' <=> Open(h) /\ h # pipe_handle
    BY ClientAssumption DEF ClosePipe, Open
<1>3. {h \in Handles : Open(h)}' = {h \in Handles : Open(h)} \ {pipe_handle}
    BY <1>2
<1>4. QED
    BY <1>1, <1>2, <1>3, ClientAssumption DEF HandleInv, HandleOwned, ClientTypeOK

\* Each step keeps HandleInv.
LEMMA HandleStep ==
    ASSUME ClientTypeOK, StopQuiesces, HandleInv, [ClientNext]_clientVars
    PROVE  HandleInv'
<1> USE DEF HandleInv, HandleOwned, workerVars, bytesVars, pipeVars, hostVars,
        historyVars, Goto
<1>1. CASE CheckStop \/ OpenFails \/ PeekFails \/ PeekSucceeds \/ ReadChunk
              \/ ReadFails \/ Deliver
    BY <1>1 DEF CheckStop, OpenFails, PeekFails, PeekSucceeds, ReadChunk,
       ReadFails, Deliver, Open
<1>2. CASE Snapshot
    BY <1>2 DEF Snapshot, Open
<1>3. CASE OpenPipe
  <2>1. PICK h \in Handles :
            /\ ~Open(h) /\ w_handle' = h
            /\ endpoint' = [endpoint EXCEPT ![h] = w_name]
      BY <1>3 DEF OpenPipe
  <2>2. ~connected /\ {g \in Handles : Open(g)} = {}
      BY <1>3 DEF OpenPipe
  <2>3. \A g \in Handles : Open(g)' <=> g = h
      BY <2>1, <2>2, ClientAssumption DEF Open, ClientTypeOK
  <2>4. {g \in Handles : Open(g)}' = {h}
      BY <2>1, <2>3
  <2>5. QED
      BY <1>3, <2>1, <2>2, <2>4 DEF OpenPipe
<1>4. CASE Publish
  <2>1. {h \in Handles : Open(h)} = {w_handle} /\ ~connected
      BY <1>4 DEF Publish
  <2>2. w_handle # INVALID_HANDLE_VALUE
      BY <2>1, ClientAssumption
  <2>3. {h \in Handles : Open(h)}' = {w_handle}
      BY <1>4, <2>1 DEF Publish, Open
  <2>4. QED
      BY <1>4, <2>2, <2>3 DEF Publish
<1>5. CASE Disconnect
    BY <1>5, CloseKeepsHandles DEF Disconnect
<1>6. CASE Exit
    BY <1>6, CloseKeepsHandles DEF Exit
<1>7. ASSUME NEW p \in PipeNames, SetPipeName(p) PROVE HandleInv'
  <2>1. CASE connected
      BY <1>7, <2>1, CloseKeepsHandles DEF SetPipeName, CloseOnRename
  <2>2. CASE ~connected
      BY <1>7, <2>2 DEF SetPipeName, CloseOnRename, Open
  <2>3. QED
      BY <2>1, <2>2
<1>8. ASSUME NEW p \in PipeNames, ServerUp(p) \/ ServerDown(p)
      PROVE  HandleInv'
    BY <1>8 DEF ServerUp, ServerDown, Open
<1>9. ASSUME NEW cap \in CapMin..CapMax, ResizeQueue(cap) PROVE HandleInv'
    BY <1>9 DEF ResizeQueue, Open
<1>10. CASE Start
  <2>1. ~connected /\ w_pc = "none"
      BY <1>10 DEF Start, StopQuiesces
  <2>2. QED
      BY <1>10, <2>1 DEF Start, Open
<1>11. CASE BeginStop
  <2>1. CASE worker_thread
      BY <1>11, <2>1 DEF BeginStop, Open
  <2>2. CASE ~worker_thread
      BY <1>11, <2>2, CloseKeepsHandles DEF BeginStop
  <2>3. QED
      BY <2>1, <2>2
<1>12. CASE FinishStop
    BY <1>12, CloseKeepsHandles DEF FinishStop
<1>13. CASE Consume
    BY <1>13 DEF Consume, Open
<1>14. CASE UNCHANGED clientVars
    BY <1>14 DEF clientVars, Open
<1>15. QED
    BY <1>1, <1>2, <1>3, <1>4, <1>5, <1>6, <1>7, <1>8, <1>9, <1>10, <1>11,
       <1>12, <1>13, <1>14 DEF ClientNext, Worker

-----------------------------------------------------------------------------
(* Bytes of two connections *)

BytesInv == connected => ~old_bytes

\* A handle the worker can read from is the published one.
LEMMA ReadableIsPublished ==
    ASSUME ClientTypeOK, HandleInv, w_pc \in {"peek", "read"}, Open(w_handle)
    PROVE  connected /\ w_handle = pipe_handle
<1>1. w_handle \in {h \in Handles : Open(h)}
    BY DEF ClientTypeOK, Open
<1>2. QED
    BY <1>1 DEF HandleInv, HandleOwned

\* NoGlue follows, since a handle that can be read is the published one.
LEMMA NoGlueFollows == ClientTypeOK /\ HandleInv /\ BytesInv => NoGlue
BY ReadableIsPublished DEF NoGlue, BytesInv

\* Each step keeps BytesInv: bytes become old when the connection ends, and
\* publishing the next one drops them.
LEMMA BytesStep ==
    ASSUME ClientTypeOK, StopQuiesces, HandleInv, BytesInv,
           [ClientNext]_clientVars
    PROVE  BytesInv'
<1> USE DEF BytesInv, workerVars, bytesVars, pipeVars, hostVars, historyVars
<1>1. CASE CheckStop \/ Snapshot \/ OpenPipe \/ PeekFails \/ PeekSucceeds \/ Deliver
    BY <1>1 DEF CheckStop, Snapshot, OpenPipe, PeekFails, PeekSucceeds, Deliver
<1>2. CASE OpenFails \/ ReadFails
    BY <1>2 DEF OpenFails, ReadFails, DropBytes
<1>3. CASE Publish
    BY <1>3 DEF Publish, OnPublish, DropBytes
<1>4. CASE ReadChunk
  <2>1. old_bytes' => old_bytes
      BY <1>4 DEF ReadChunk, ClientTypeOK
  <2>2. QED
      BY <1>4, <2>1 DEF ReadChunk
<1>5. CASE Disconnect \/ Exit
    BY <1>5 DEF Disconnect, Exit, ClosePipe
<1>6. ASSUME NEW p \in PipeNames, SetPipeName(p) PROVE BytesInv'
    BY <1>6 DEF SetPipeName, CloseOnRename, ClosePipe
<1>7. ASSUME NEW p \in PipeNames, ServerUp(p) \/ ServerDown(p) PROVE BytesInv'
    BY <1>7 DEF ServerUp, ServerDown
<1>8. ASSUME NEW cap \in CapMin..CapMax, ResizeQueue(cap) PROVE BytesInv'
    BY <1>8 DEF ResizeQueue
<1>9. CASE Start \/ BeginStop \/ FinishStop \/ Consume
    BY <1>9 DEF Start, BeginStop, FinishStop, Consume, ClosePipe, DropBytes
<1>10. CASE UNCHANGED clientVars
    BY <1>10 DEF clientVars
<1>11. QED
    BY <1>1, <1>2, <1>3, <1>4, <1>5, <1>6, <1>7, <1>8, <1>9, <1>10
       DEF ClientNext, Worker

-----------------------------------------------------------------------------
(* Frames and connections of the old pipe *)

AllFrom(p) == \A i \in 1..frame_queue_size : Queued(i).message.stream_id = p

OldPipeInv ==
    /\ OldPipeOnlyIfRaced
    /\ w_pc \in {"connect", "publish"} /\ ~raced => w_name = pipe_name
    /\ w_pc = "publish" => endpoint[w_handle] = w_name
    /\ w_pc = "deliver" /\ ~raced /\ ~late =>
            \A i \in 1..Len(w_chunk) : w_chunk[i].stream_id = pipe_name

\* Giving entries up brings no frame of another pipe.
LEMMA GivesFrom ==
    ASSUME QueueTypeOK, NEW p, AllFrom(p),
           \/ ConsumeNext \/ ConsumeLatest \/ ClearQueue
           \/ \E cap \in CapMin..CapMax : SetQueueCap(cap)
           \/ UNCHANGED queueVars
    PROVE  AllFrom(p)'
<1>1. PICK d \in 0..frame_queue_size : Gives(d)
    BY OtherGives
<1>2. frame_queue_size \in Nat
    BY CapFacts
<1>3. QED
    BY <1>1, <1>2 DEF Gives, Drops, AllFrom

\* Nor does a message of the same pipe.
LEMMA DeliverFrom ==
    ASSUME QueueTypeOK, NEW p, AllFrom(p),
           NEW m \in Messages, m.stream_id = p, ProcessMessage(m)
    PROVE  AllFrom(p)'
<1>1. CASE DropOutOfOrder(m)
    BY <1>1, GivesFrom DEF DropOutOfOrder
<1>2. CASE Accept(m)
  <2>1. PICK d \in 0..frame_queue_size : Accepts(m, d)
      BY <1>2, AcceptAccepts
  <2>2. frame_queue_size \in Nat
      BY CapFacts
  <2>3. ASSUME NEW i \in 1..frame_queue_size - d + 1
        PROVE  Queued(i)'.message.stream_id = p
    <3>1. CASE i \in 1..frame_queue_size - d
        BY <2>1, <2>2, <3>1 DEF Accepts, DropsAndAppends, AllFrom
    <3>2. CASE i = frame_queue_size - d + 1
      <4>1. i = frame_queue_size' /\ Queued(frame_queue_size)' = EntryFor(m)
          BY <2>1, <3>2 DEF Accepts, DropsAndAppends
      <4>2. Queued(i)' = EntryFor(m)
          BY <4>1 DEF Queued
      <4>3. QED
          BY <4>2 DEF EntryFor
    <3>3. QED
        BY <2>2, <3>1, <3>2
  <2>4. QED
      BY <2>1, <2>3 DEF Accepts, DropsAndAppends, AllFrom
<1>3. QED
    BY <1>1, <1>2 DEF ProcessMessage

\* Each step keeps OldPipeInv.
LEMMA OldPipeStep ==
    ASSUME ClientTypeOK, StopQuiesces, HandleInv, OldPipeInv,
           [ClientNext]_clientVars
    PROVE  OldPipeInv'
<1> USE DEF OldPipeInv, OldPipeOnlyIfRaced, workerVars, bytesVars, pipeVars,
        hostVars, historyVars, Goto
<1>q. UNCHANGED queueVars =>
        \A i : Queued(i)' = Queued(i) /\ frame_queue_size' = frame_queue_size
    BY DEF queueVars, ringVars, Queued
<1>1. CASE CheckStop \/ OpenFails \/ PeekFails \/ PeekSucceeds \/ ReadFails
    BY <1>1, <1>q DEF CheckStop, OpenFails, PeekFails, PeekSucceeds, ReadFails
<1>2. CASE Snapshot
  <2>1. CASE pipe_handle = INVALID_HANDLE_VALUE
    <3>1. ~connected
        BY <2>1 DEF HandleInv, HandleOwned
    <3>2. /\ w_pc' = "connect" /\ w_name' = pipe_name /\ pipe_name' = pipe_name
          /\ raced' = FALSE /\ late' = (late \/ raced) /\ connected' = connected
        BY <1>2, <2>1 DEF Snapshot
    <3>3. ASSUME ~late'
          PROVE  \A i \in 1..frame_queue_size' :
                    Queued(i)'.message.stream_id = pipe_name'
      <4>1. ~raced /\ ~late
          BY <3>2, <3>3 DEF ClientTypeOK
      <4>2. UNCHANGED queueVars
          BY <1>2 DEF Snapshot
      <4>3. QED
          BY <1>q, <3>2, <4>1, <4>2
    <3>4. QED
        BY <3>1, <3>2, <3>3
  <2>2. CASE pipe_handle # INVALID_HANDLE_VALUE
      BY <1>2, <1>q, <2>2 DEF Snapshot
  <2>3. QED
      BY <2>1, <2>2
<1>3. CASE OpenPipe
  <2>1. ~connected /\ connected' = connected
      BY <1>3 DEF OpenPipe, HandleInv
  <2>2. endpoint'[w_handle'] = w_name
      BY <1>3 DEF OpenPipe, ClientTypeOK
  <2>3. QED
      BY <1>3, <1>q, <2>1, <2>2 DEF OpenPipe
<1>4. CASE Publish
  <2>1. /\ w_pc = "publish" /\ w_pc' = "check" /\ pipe_handle' = w_handle
        /\ endpoint' = endpoint /\ pipe_name' = pipe_name /\ raced' = raced
      BY <1>4 DEF Publish
  <2>2. ~raced => endpoint[w_handle] = pipe_name
      BY <2>1
  <2>3. QED
      BY <1>4, <1>q, <2>1, <2>2 DEF Publish
<1>5. CASE ReadChunk
  <2>1. PICK p : p = endpoint[w_handle]
      OBVIOUS
  <2>2. connected /\ w_handle = pipe_handle
      BY <1>5, ReadableIsPublished DEF ReadChunk
  <2>3. \A i \in 1..Len(w_chunk') : w_chunk'[i].stream_id = p
      BY <1>5, <2>1, ChunkType DEF ReadChunk
  <2>4. ~raced => p = pipe_name
      BY <2>1, <2>2
  <2>5. w_pc' \in {"check", "deliver"} /\ raced' = raced /\ pipe_name' = pipe_name
      BY <1>5 DEF ReadChunk
  <2>6. QED
      BY <1>5, <1>q, <2>3, <2>4, <2>5 DEF ReadChunk
<1>6. CASE Deliver
  <2>1. PICK p : p = pipe_name
      OBVIOUS
  <2>2. /\ w_pc = "deliver" /\ w_pc' \in {"check", "deliver"}
        /\ w_chunk' = Tail(w_chunk) /\ ProcessMessage(Head(w_chunk))
        /\ UNCHANGED <<pipe_name, raced, late, connected, pipe_handle, endpoint>>
      BY <1>6 DEF Deliver
  <2>3. w_chunk \in Seq(Messages) /\ w_chunk # <<>> /\ QueueTypeOK
      BY <2>2 DEF ClientTypeOK
  <2>4. ASSUME ~raced, ~late
        PROVE  /\ AllFrom(p)'
               /\ \A i \in 1..Len(w_chunk') : w_chunk'[i].stream_id = p
    <3>1. AllFrom(p) /\ \A i \in 1..Len(w_chunk) : w_chunk[i].stream_id = p
        BY <2>1, <2>2, <2>4 DEF AllFrom
    <3>2. Head(w_chunk) \in Messages /\ Head(w_chunk).stream_id = p
        BY <2>3, <3>1, ChunkTail
    <3>3. PICK m : m = Head(w_chunk)
        OBVIOUS
    <3>4. AllFrom(p)'
        BY <2>2, <2>3, <3>1, <3>2, <3>3, DeliverFrom
    <3>5. \A i \in 1..Len(w_chunk') : w_chunk'[i].stream_id = p
        BY <2>2, <2>3, <3>1, ChunkTail
    <3>6. QED
        BY <3>4, <3>5
  <2>5. QED
      BY <2>1, <2>2, <2>4 DEF AllFrom
<1>7. CASE Disconnect \/ Exit
    BY <1>7, <1>q DEF Disconnect, Exit, ClosePipe
<1>8. ASSUME NEW p \in PipeNames, SetPipeName(p) PROVE OldPipeInv'
  <2>1. connected' = FALSE
      BY <1>8 DEF SetPipeName, CloseOnRename, ClosePipe, ClientTypeOK
  <2>2. frame_queue_size' = 0
      BY <1>8 DEF SetPipeName, ClearQueue
  <2>3. w_pc = "publish" => endpoint' = endpoint
      BY <1>8 DEF SetPipeName, CloseOnRename, HandleInv
  <2>4. /\ raced' = (w_pc \in {"connect", "publish"}) /\ late' = (w_pc = "deliver")
        /\ UNCHANGED workerVars
      BY <1>8 DEF SetPipeName
  <2>5. OldPipeOnlyIfRaced'
      BY <2>1, <2>2
  <2>6. /\ w_pc' \in {"connect", "publish"} => raced'
        /\ w_pc' = "deliver" => late'
      BY <2>4
  <2>7. w_pc' = "publish" => endpoint'[w_handle'] = w_name'
      BY <2>3, <2>4
  <2>8. QED
      BY <2>5, <2>6, <2>7
<1>9. ASSUME NEW p \in PipeNames, ServerUp(p) \/ ServerDown(p)
      PROVE  OldPipeInv'
    BY <1>9, <1>q DEF ServerUp, ServerDown
<1>10. CASE Consume \/ \E cap \in CapMin..CapMax : ResizeQueue(cap)
  <2>1. PICK p : p = pipe_name
      OBVIOUS
  <2>2. AllFrom(p) => AllFrom(p)'
      BY <1>10, GivesFrom DEF Consume, ResizeQueue, ClientTypeOK
  <2>3. UNCHANGED <<workerVars, bytesVars, pipeVars, hostVars, historyVars>>
      BY <1>10 DEF Consume, ResizeQueue
  <2>4. QED
      BY <2>1, <2>2, <2>3 DEF AllFrom
<1>11. CASE Start
  <2>1. ~connected /\ w_pc = "none"
      BY <1>11 DEF Start, StopQuiesces
  <2>2. frame_queue_size' = 0 /\ w_pc' \in {"none", "check"} /\ connected' = connected
      BY <1>11, <2>1 DEF Start, ClearQueue
  <2>3. QED
      BY <2>1, <2>2
<1>12. CASE BeginStop
  <2>1. CASE worker_thread
      BY <1>12, <1>q, <2>1 DEF BeginStop
  <2>2. CASE ~worker_thread
      BY <1>12, <1>q, <2>2 DEF BeginStop, ClosePipe, StopQuiesces
  <2>3. QED
      BY <2>1, <2>2
<1>13. CASE FinishStop
    BY <1>13 DEF FinishStop, ClosePipe, ClearQueue
<1>14. CASE UNCHANGED clientVars
    BY <1>14, <1>q DEF clientVars
<1>15. QED
    BY <1>1, <1>2, <1>3, <1>4, <1>5, <1>6, <1>7, <1>8, <1>9, <1>10, <1>11,
       <1>12, <1>13, <1>14 DEF ClientNext, Worker

-----------------------------------------------------------------------------
(* The theorems *)

ClientInv ==
    /\ ClientTypeOK
    /\ StopQuiesces
    /\ HandleInv
    /\ BytesInv
    /\ OldPipeInv

\* The initial state satisfies the invariant.
LEMMA ClientInvInit == ClientInit => ClientInv
<1> SUFFICES ASSUME ClientInit PROVE ClientInv
    OBVIOUS
<1>1. ClientTypeOK
    BY ClientTypeInit
<1>2. frame_queue_size = 0 /\ last_message = NoMessage
    BY DEF ClientInit, QueueInit
<1>3. StopQuiesces
    BY <1>2 DEF ClientInit, StopQuiesces
<1>4. {h \in Handles : Open(h)} = {}
    BY DEF ClientInit, Open
<1>5. HandleInv
    BY <1>4 DEF ClientInit, HandleInv, HandleOwned
<1>6. BytesInv /\ OldPipeInv
    BY <1>2 DEF ClientInit, BytesInv, OldPipeInv, OldPipeOnlyIfRaced
<1>7. QED
    BY <1>1, <1>3, <1>5, <1>6 DEF ClientInv

\* ClientInv is inductive.
THEOREM ClientInvariant == ClientSpec => []ClientInv
<1>1. ClientInv /\ [ClientNext]_clientVars => ClientInv'
    BY ClientTypeStep, StopStep, HandleStep, BytesStep, OldPipeStep DEF ClientInv
<1>2. QED
    BY <1>1, ClientInvInit, PTL DEF ClientSpec

\* ClientTypeOK holds in every behaviour of the client.
THEOREM ClientTypeCorrect == ClientSpec => []ClientTypeOK
<1>1. ClientInv => ClientTypeOK
    BY DEF ClientInv
<1>2. QED
    BY <1>1, ClientInvariant, PTL

\* HandleOwned: no handle is leaked or closed twice, wherever the host's close
\* falls between the worker's snapshot, open and publication.
THEOREM HandlesCorrect == ClientSpec => []HandleOwned
<1>1. ClientInv => HandleOwned
    BY DEF ClientInv, HandleInv
<1>2. QED
    BY <1>1, ClientInvariant, PTL

\* StopQuiesces: after a stop nothing runs, is open or queued.
THEOREM StopCorrect == ClientSpec => []StopQuiesces
<1>1. ClientInv => StopQuiesces
    BY DEF ClientInv
<1>2. QED
    BY <1>1, ClientInvariant, PTL

\* NoGlue: bytes of two connections are never joined into one message.
THEOREM NoGlueCorrect == ClientSpec => []NoGlue
<1>1. ClientInv => NoGlue
    BY NoGlueFollows DEF ClientInv
<1>2. QED
    BY <1>1, ClientInvariant, PTL

\* OldPipeOnlyIfRaced: a rename is missed only in the worker's two windows.
THEOREM RenameCorrect == ClientSpec => []OldPipeOnlyIfRaced
<1>1. ClientInv => OldPipeOnlyIfRaced
    BY DEF ClientInv, OldPipeInv
<1>2. QED
    BY <1>1, ClientInvariant, PTL

\* ImplementsQueue: the client's threads operate the queue only by its own
\* operations, each of them in one critical section.
THEOREM ClientImplementsQueue == ClientSpec => ImplementsQueue
<1>1. ClientInit => QueueInit
    BY DEF ClientInit
<1>2. ClientTypeOK /\ [ClientNext]_clientVars => [QueueNext]_queueVars
    BY ClientStepsQueue
<1>3. QED
    BY <1>1, <1>2, ClientTypeCorrect, PTL DEF ClientSpec, ImplementsQueue, QueueSpec

\* Therefore the running client's queue is a drop-oldest queue, too.
THEOREM ClientDropsOldest == ClientSpec => ImplementsDropOldest
BY ClientImplementsQueue, DropOldestImplemented DEF ImplementsQueue

\* The frames that the tick takes from the running client come from the queue
\* that RoiFilter models.
THEOREM ClientKeepsEpochQueue == ClientSpec => ImplementsEpochQueue
BY ClientImplementsQueue, EpochQueueImplemented DEF ImplementsQueue
=============================================================================
