----------------------------- MODULE RoiIpcClient -----------------------------
(***************************************************************************)
(* The threads of the IPC client (src/src/roi_ipc_client.c): the worker    *)
(* that connects to the producer's pipe, reads it and fills the frame      *)
(* queue, and the host that renames the pipe, resizes the queue, starts,   *)
(* stops and consumes.  Each critical section of client->lock is one       *)
(* action; what the worker does between two of them, on values it copied   *)
(* under the lock, is an action of its own.                                *)
(*                                                                         *)
(* Data abstraction.  Bytes are left out: what a ReadFile yields is a      *)
(* sequence of decoded messages, and whether the assembler keeps a partial *)
(* message (stream_bytes > 0).  The producer behind pipe p marks its       *)
(* frames stream_id = p, so that a queued frame tells where it came from.  *)
(* Delays are left out: the retry wait and the idle poll end in the loop's *)
(* test of stop_event, at any time.  Statistics, debug_log and             *)
(* connect_retry_ms change nothing else.                                   *)
(***************************************************************************)
EXTENDS RoiFrameQueue

CONSTANTS
    PipeNames,      \* names the settings may choose
    NoPipe,         \* the handle is closed
    Handles,        \* values CreateFile may return, reused once closed
    INVALID_HANDLE_VALUE,
    ChunkMax        \* bound on the messages one ReadFile completes

ASSUME ClientAssumption ==
    /\ PipeNames \subseteq Nat /\ NoPipe \notin PipeNames
    /\ INVALID_HANDLE_VALUE \notin Handles
    /\ ChunkMax \in Nat

VARIABLES
    stop_event,                     \* signalled
    worker_thread,                  \* worker_thread # NULL
    running, pipe_name, pipe_handle, connected,
    w_pc,                           \* where the worker is; "none": no thread
    w_name, w_handle,               \* the worker's copies under the lock
    w_chunk,                        \* messages read and not yet delivered
    stream_bytes,                   \* a partial message is kept
    host_pc,                        \* "stopping": inside WaitForSingleObject
    listening, endpoint, alive,     \* external: servers up; the pipe each open
                                    \* handle leads to, and if its server lives
    old_bytes,  \* history: stream_bytes are of a connection that was closed
    raced,      \* history: renamed while the worker was opening the old name
    late        \* history: renamed while the worker held messages of the old
                \* pipe, or connected to it after a raced rename

workerVars == <<w_pc, w_name, w_handle, w_chunk>>
bytesVars == <<stream_bytes, old_bytes>>
pipeVars == <<pipe_handle, connected, endpoint, alive>>
hostVars == <<stop_event, worker_thread, running, pipe_name, host_pc>>
historyVars == <<raced, late>>
clientVars == <<queueVars, workerVars, bytesVars, pipeVars, hostVars,
                historyVars, listening>>

ClientInit ==
    /\ QueueInit
    /\ stop_event = FALSE /\ worker_thread = FALSE /\ running = FALSE
    /\ pipe_name \in PipeNames
    /\ pipe_handle = INVALID_HANDLE_VALUE /\ connected = FALSE
    /\ w_pc = "none" /\ w_name = pipe_name /\ w_handle = INVALID_HANDLE_VALUE
    /\ w_chunk = <<>> /\ stream_bytes = FALSE
    /\ host_pc = "idle"
    /\ listening \in SUBSET PipeNames
    /\ endpoint = [h \in Handles |-> NoPipe] /\ alive = {}
    /\ old_bytes = FALSE /\ raced = FALSE /\ late = FALSE

Open(h) == h # INVALID_HANDLE_VALUE /\ endpoint[h] # NoPipe

\* Mutant: the handle is forgotten, not closed.
ForgetPipe ==
    /\ pipe_handle' = INVALID_HANDLE_VALUE /\ connected' = FALSE
    /\ UNCHANGED <<endpoint, alive>>

\* roi_ipc_close_pipe_locked
ClosePipe ==
    /\ endpoint' = [h \in Handles |->
                        IF h = pipe_handle THEN NoPipe ELSE endpoint[h]]
    /\ alive' = alive \ {pipe_handle}
    /\ pipe_handle' = INVALID_HANDLE_VALUE /\ connected' = FALSE

DropBytes == stream_bytes' = FALSE /\ old_bytes' = FALSE

-----------------------------------------------------------------------------
(* roi_ipc_worker_thread_proc *)

Goto(pc) == w_pc' = pc

\* Mutant: the loop tests the flag that only its own exit clears.
CheckRunning ==
    /\ w_pc = "check"
    /\ Goto(IF running THEN "snapshot" ELSE "exit")
    /\ UNCHANGED <<queueVars, w_name, w_handle, w_chunk, bytesVars, pipeVars,
                   hostVars, historyVars, listening>>

CheckStop ==
    /\ w_pc = "check"
    /\ Goto(IF stop_event THEN "exit" ELSE "snapshot")
    /\ UNCHANGED <<queueVars, w_name, w_handle, w_chunk, bytesVars, pipeVars,
                   hostVars, historyVars, listening>>

Snapshot ==
    /\ w_pc = "snapshot"
    /\ w_name' = pipe_name /\ w_handle' = pipe_handle
    /\ IF pipe_handle = INVALID_HANDLE_VALUE
       THEN Goto("connect") /\ raced' = FALSE /\ late' = (late \/ raced)
       ELSE Goto("peek") /\ UNCHANGED historyVars
    /\ UNCHANGED <<queueVars, w_chunk, bytesVars, pipeVars, hostVars, listening>>

\* CreateFile and SetNamedPipeHandleState succeed.
OpenPipe ==
    /\ w_pc = "connect" /\ w_name \in listening
    /\ \E h \in Handles :
        /\ ~Open(h)
        /\ w_handle' = h
        /\ endpoint' = [endpoint EXCEPT ![h] = w_name]
        /\ alive' = alive \cup {h}
    /\ Goto("publish")
    /\ UNCHANGED <<queueVars, w_name, w_chunk, bytesVars, pipe_handle,
                   connected, hostVars, historyVars, listening>>

\* CreateFile fails (no server, or all its instances are busy), or the opened
\* pipe refuses message mode and is closed again.
OpenFails ==
    /\ w_pc = "connect"
    /\ UNCHANGED bytesVars \/ (w_name \in listening /\ DropBytes)
    /\ Goto("check")
    /\ UNCHANGED <<queueVars, w_name, w_handle, w_chunk, pipeVars, hostVars,
                   historyVars, listening>>

\* Mutant: the bytes of the previous connection are kept.
KeepBytes == UNCHANGED bytesVars

OnPublish == DropBytes

Publish ==
    /\ w_pc = "publish"
    /\ pipe_handle' = w_handle /\ connected' = TRUE
    /\ OnPublish
    /\ Goto("check")
    /\ UNCHANGED <<queueVars, w_name, w_handle, w_chunk, endpoint, alive,
                   hostVars, historyVars, listening>>

Reachable(h) == Open(h) /\ h \in alive

\* PeekNamedPipe fails on a closed handle, and on one whose server is gone when
\* nothing that it sent is left; otherwise there is something to read, or not.
PeekFails ==
    /\ w_pc = "peek" /\ ~Reachable(w_handle)
    /\ Goto("disconnect")
    /\ UNCHANGED <<queueVars, w_name, w_handle, w_chunk, bytesVars, pipeVars,
                   hostVars, historyVars, listening>>

PeekSucceeds ==
    /\ w_pc = "peek" /\ Open(w_handle)
    /\ Goto("read") \/ (w_handle \in alive /\ Goto("check"))
    /\ UNCHANGED <<queueVars, w_name, w_handle, w_chunk, bytesVars, pipeVars,
                   hostVars, historyVars, listening>>

Chunks(p) ==
    UNION {[1..n -> {m \in Messages : m.stream_id = p}] : n \in 0..ChunkMax}

\* ReadFile, and the assembler up to the first message it completes.  GenMax
\* bounds what the producer sends.
ReadChunk ==
    /\ w_pc = "read" /\ Open(w_handle)
    /\ \E chunk \in Chunks(endpoint[w_handle]), partial \in BOOLEAN :
        /\ latest_generation + Len(chunk) <= GenMax
        /\ w_chunk' = chunk
        /\ stream_bytes' = partial /\ old_bytes' = (old_bytes /\ partial)
        /\ Goto(IF chunk = <<>> THEN "check" ELSE "deliver")
    /\ UNCHANGED <<queueVars, w_name, w_handle, pipeVars, hostVars,
                   historyVars, listening>>

\* ReadFile fails with a disconnect error, with ERROR_MORE_DATA (the oversized
\* message is drained and the partial one dropped with it), or otherwise.
ReadFails ==
    /\ w_pc = "read"
    /\ \/ /\ ~Reachable(w_handle)
          /\ Goto("disconnect") /\ UNCHANGED bytesVars
       \/ Open(w_handle) /\ Goto("check") /\ DropBytes
       \/ Open(w_handle) /\ Goto("check") /\ UNCHANGED bytesVars
    /\ UNCHANGED <<queueVars, w_name, w_handle, w_chunk, pipeVars, hostVars,
                   historyVars, listening>>

\* Mutant: the sequence filter is skipped.
DeliverUnfiltered ==
    /\ w_pc = "deliver"
    /\ AcceptWithRoom(Head(w_chunk))
    /\ last_message' = Head(w_chunk)
    /\ latest_generation' = latest_generation + 1
    /\ UNCHANGED <<frame_queue_cap, consumed, consumed_count, flushed_count>>
    /\ w_chunk' = Tail(w_chunk)
    /\ Goto(IF Len(w_chunk) = 1 THEN "check" ELSE "deliver")
    /\ UNCHANGED <<w_name, w_handle, bytesVars, pipeVars, hostVars,
                   historyVars, listening>>

\* roi_ipc_process_decoded_message takes the lock once for each message.
Deliver ==
    /\ w_pc = "deliver"
    /\ ProcessMessage(Head(w_chunk))
    /\ w_chunk' = Tail(w_chunk)
    /\ Goto(IF Len(w_chunk) = 1 THEN "check" ELSE "deliver")
    /\ UNCHANGED <<w_name, w_handle, bytesVars, pipeVars, hostVars,
                   historyVars, listening>>

\* Mutant: the dead connection is not closed.
RetryDead ==
    /\ w_pc = "disconnect"
    /\ Goto("check")
    /\ UNCHANGED <<queueVars, w_name, w_handle, w_chunk, bytesVars, pipeVars,
                   hostVars, historyVars, listening>>

Disconnect ==
    /\ w_pc = "disconnect"
    /\ ClosePipe /\ DropBytes
    /\ Goto("check")
    /\ UNCHANGED <<queueVars, w_name, w_handle, w_chunk, hostVars,
                   historyVars, listening>>

Exit ==
    /\ w_pc = "exit"
    /\ ClosePipe
    /\ running' = FALSE
    /\ Goto("done")
    /\ UNCHANGED <<queueVars, w_name, w_handle, w_chunk, bytesVars, stop_event,
                   worker_thread, pipe_name, host_pc, historyVars, listening>>

Worker ==
    \/ CheckStop \/ Snapshot \/ OpenPipe \/ OpenFails \/ Publish
    \/ PeekFails \/ PeekSucceeds \/ ReadChunk \/ ReadFails \/ Deliver \/ Disconnect \/ Exit

-----------------------------------------------------------------------------
(* The host's calls *)

\* Mutant: the connection to the old name is left open.
CloseNothing == UNCHANGED <<pipeVars, old_bytes>>

CloseOnRename ==
    IF connected THEN ClosePipe /\ old_bytes' = stream_bytes
                 ELSE UNCHANGED <<pipeVars, old_bytes>>

\* roi_ipc_client_set_pipe_name, which roi_filter_update calls on every change
\* of the settings, whether the name changed or not.
SetPipeName(p) ==
    /\ host_pc = "idle"
    /\ pipe_name' = p
    /\ CloseOnRename
    /\ ClearQueue
    /\ raced' = (w_pc \in {"connect", "publish"})
    /\ late' = (w_pc = "deliver")
    /\ UNCHANGED <<workerVars, stream_bytes, stop_event, worker_thread,
                   running, host_pc, listening>>

ResizeQueue(cap) ==
    /\ host_pc = "idle"
    /\ SetQueueCap(cap)
    /\ UNCHANGED <<workerVars, bytesVars, pipeVars, hostVars, historyVars,
                   listening>>

\* roi_ipc_client_start on a client that is not running; CreateThread may fail.
Start ==
    /\ host_pc = "idle" /\ ~running
    /\ stop_event' = FALSE
    /\ ClearQueue
    /\ \/ /\ worker_thread' = TRUE /\ running' = TRUE
          /\ Goto("check") /\ DropBytes
       \/ worker_thread' = FALSE /\ UNCHANGED <<running, w_pc, bytesVars>>
    /\ UNCHANGED <<w_name, w_handle, w_chunk, pipeVars, pipe_name, host_pc,
                   historyVars, listening>>

\* roi_ipc_client_stop up to the wait for the worker, or all of it when there
\* is no worker.
BeginStop ==
    /\ host_pc = "idle"
    /\ IF worker_thread
       THEN /\ stop_event' = TRUE /\ host_pc' = "stopping"
            /\ UNCHANGED <<pipeVars, running>>
       ELSE /\ ClosePipe /\ running' = FALSE
            /\ UNCHANGED <<stop_event, host_pc>>
    /\ UNCHANGED <<queueVars, workerVars, bytesVars, worker_thread, pipe_name,
                   historyVars, listening>>

FinishStop ==
    /\ host_pc = "stopping" /\ w_pc = "done"
    /\ host_pc' = "idle"
    /\ Goto("none")
    /\ worker_thread' = FALSE /\ running' = FALSE /\ stop_event' = FALSE
    /\ ClosePipe
    /\ ClearQueue
    /\ UNCHANGED <<w_name, w_handle, w_chunk, bytesVars, pipe_name,
                   historyVars, listening>>

\* The graphics thread takes a frame.
Consume ==
    /\ ConsumeNext \/ ConsumeLatest
    /\ UNCHANGED <<workerVars, bytesVars, pipeVars, hostVars, historyVars,
                   listening>>

\* External: a producer comes up, or goes away and breaks its connections.
ServerUp(p) ==
    /\ listening' = listening \cup {p}
    /\ UNCHANGED <<queueVars, workerVars, bytesVars, pipeVars, hostVars,
                   historyVars>>

ServerDown(p) ==
    /\ listening' = listening \ {p}
    /\ alive' = {h \in alive : endpoint[h] # p}
    /\ UNCHANGED <<queueVars, workerVars, bytesVars, pipe_handle, connected,
                   endpoint, hostVars, historyVars>>

ClientNext ==
    \/ Worker
    \/ \E p \in PipeNames : SetPipeName(p) \/ ServerUp(p) \/ ServerDown(p)
    \/ \E cap \in CapMin..CapMax : ResizeQueue(cap)
    \/ Start \/ BeginStop \/ FinishStop \/ Consume

ClientSpec == ClientInit /\ [][ClientNext]_clientVars

\* The worker is scheduled and the host's wait returns once the thread ended.
\* Of the outside: a server that is found listening again and again is opened in
\* the end, and what a dead server left in its pipe runs out.
Fairness ==
    /\ WF_clientVars(Worker) /\ WF_clientVars(FinishStop)
    /\ SF_clientVars(OpenPipe) /\ SF_clientVars(PeekFails)

ClientFairSpec == ClientSpec /\ Fairness

-----------------------------------------------------------------------------
(* What must hold *)

WorkerPCs == {"none", "check", "snapshot", "connect", "publish", "peek", "read",
              "deliver", "disconnect", "exit", "done"}

\* Every variable has its type.
ClientTypeOK ==
    /\ QueueTypeOK
    /\ stop_event \in BOOLEAN /\ worker_thread \in BOOLEAN
    /\ running \in BOOLEAN /\ connected \in BOOLEAN
    /\ pipe_name \in PipeNames /\ w_name \in PipeNames
    /\ pipe_handle \in Handles \cup {INVALID_HANDLE_VALUE}
    /\ w_handle \in Handles \cup {INVALID_HANDLE_VALUE}
    /\ w_pc \in WorkerPCs /\ host_pc \in {"idle", "stopping"}
    /\ w_chunk \in Seq(Messages)
    /\ w_pc = "deliver" <=> w_chunk # <<>>
    /\ listening \subseteq PipeNames
    /\ endpoint \in [Handles -> PipeNames \cup {NoPipe}]
    /\ alive \subseteq Handles
    /\ stream_bytes \in BOOLEAN /\ old_bytes \in BOOLEAN
    /\ raced \in BOOLEAN /\ late \in BOOLEAN

\* No handle leaks and none is closed twice, though the host closes the pipe
\* while the worker still holds a copy of its handle: the open handles are the
\* published one, or the one about to be published.
HandleOwned ==
    /\ connected <=> pipe_handle # INVALID_HANDLE_VALUE
    /\ w_pc = "publish" => ~connected
    /\ {h \in Handles : Open(h)} =
            IF connected THEN {pipe_handle}
            ELSE IF w_pc = "publish" THEN {w_handle} ELSE {}

\* Once stop has returned nothing is left running, open or queued, whatever the
\* worker was doing when it was told to stop, and start finds a clean client.
StopQuiesces ==
    /\ worker_thread <=> w_pc # "none"
    /\ ~worker_thread => /\ host_pc = "idle" /\ ~running /\ ~connected
                         /\ ~stop_event
                         /\ frame_queue_size = 0 /\ last_message = NoMessage
    /\ running <=> w_pc \notin {"none", "done"}
    /\ stop_event <=> host_pc = "stopping"
    /\ w_pc \in {"exit", "done"} => stop_event

\* The assembler never joins the bytes of two connections: a read that can
\* succeed finds only bytes of its own connection in the stream buffer.
NoGlue == w_pc = "read" /\ Open(w_handle) => ~old_bytes

\* After the pipe was renamed no connection to another pipe is kept and no
\* frame of another pipe is queued, except in the two windows the worker leaves
\* open: it was opening the old name (then it stays on the old pipe), or it had
\* already read messages from it.
OldPipeOnlyIfRaced ==
    /\ connected /\ ~raced => endpoint[pipe_handle] = pipe_name
    /\ ~raced /\ ~late =>
            \A i \in 1..frame_queue_size : Queued(i).message.stream_id = pipe_name

\* Every step of the client is a step of the frame queue, or leaves it alone.
ImplementsQueue == QueueSpec

\* A stop always returns, wherever the worker is and whatever the producer does.
StopTerminates == host_pc = "stopping" ~> host_pc = "idle"

\* If a pipe's server stays up and the client keeps running under its name, the
\* client is connected to a living server again and again, whatever renames,
\* raced connections and broken pipes come first.
Reconnects ==
    \A p \in PipeNames :
        <>[](running /\ host_pc = "idle" /\ p \in listening /\ pipe_name = p)
            => []<>(connected /\ Reachable(pipe_handle))
=============================================================================
