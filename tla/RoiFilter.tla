------------------------------ MODULE RoiFilter ------------------------------
(***************************************************************************)
(* The OBS filter (src/src/roi_filter_source.c): roi_filter_video_tick,    *)
(* which drains the frame queue into the interpolator and samples it, and  *)
(* roi_filter_update, which changes the settings, composed with the        *)
(* interpolator (RoiInterpolator) and with the client's frame queue.       *)
(*                                                                         *)
(* Threads.  The worker thread delivers frames at any moment.  Tick,       *)
(* update and render are called one after the other: the filter is         *)
(* registered with OBS_SOURCE_VIDEO, for which OBS defers an update to the *)
(* thread that ticks.                                                      *)
(*                                                                         *)
(* The queue is the one that RoiFrameQueue is shown to implement           *)
(* (EpochQueue), at a fixed capacity; its frames are new to the graphics   *)
(* thread (ConsumedIsOlder), so the comparison of generations in the drain *)
(* loop, which never finds an old one, is left out.  A tick's steps that   *)
(* do not touch the queue are one action with the step that follows them.  *)
(* Counters, logs and the metrics are left out.                            *)
(***************************************************************************)
EXTENDS RoiInterpolator, TickArith

CONSTANTS
    Messages,       \* what the worker may deliver
    NoMessage,
    EpochOf,        \* the epoch of each member of Streams
    QueueCap,       \* capacity of the frame queue
    Offsets,        \* roi_apply_offset_ms (ms) the settings may choose
    StaleDrops      \* stale_drop_ms the settings may choose

\* effective is ROI_FRAME_MSG_V1_FLAG_TQPC_EFFECTIVE_TIME.
MessageType == [frame : FrameType, effective : BOOLEAN]

ASSUME FilterAssumption ==
    /\ Messages \subseteq MessageType /\ NoMessage \notin MessageType
    /\ EpochOf \in [Streams -> Nat]
    /\ QueueCap \in Nat \ {0}
    /\ Offsets \subseteq Int /\ StaleDrops \subseteq Nat

ConsumerModes == {"auto", "force_legacy", "force_buffered"}

VARIABLES
    queue,                      \* the frames waiting in the client
    newest,                     \* the frame the client accepted last
    running,                    \* the worker thread runs
    enabled, roi_apply_offset_ms, stale_drop_ms, presend_v2_consumer_mode,
    conflict_active,            \* tqpc_effective_time_offset_conflict_active
    unflagged,                  \* history: a frame without the flag was
                                \* pushed since the conflict became active
    last_sample,                \* NoRoi: has_last_sample = false
    g_pc,                       \* where the graphics thread is
    now_qpc,                    \* the tick's counter reading; 0: it failed, or
                                \* no tick is under way
    current                     \* the frame whose conflict resets

clientVars == <<queue, newest, running>>
settingVars == <<enabled, roi_apply_offset_ms, stale_drop_ms,
                 presend_v2_consumer_mode>>
tickVars == <<conflict_active, unflagged, last_sample, now_qpc, current>>
filterVars == <<clientVars, settingVars, tickVars, g_pc, vars>>

\* A step that makes no call to the interpolator.
NoCall ==
    /\ ret' = Returned("other")
    /\ UNCHANGED <<qpc, streamVars, modeVars, warmupVars, anchorVars, settings,
                   last_applied_roi, last_input_receive_qpc>>

FilterInit ==
    /\ Init
    /\ queue = <<>> /\ newest = NoMessage /\ running = FALSE
    /\ enabled = TRUE /\ roi_apply_offset_ms = 0 /\ stale_drop_ms = 0
    /\ presend_v2_consumer_mode = "auto"
    /\ conflict_active = FALSE /\ unflagged = FALSE
    /\ last_sample = NoRoi /\ now_qpc = 0 /\ current = NoMessage
    /\ g_pc = "create"

-----------------------------------------------------------------------------
(* The worker: what RoiFrameQueue!ProcessMessage does *)

\* Mutant: the queue is one frame longer than its capacity.
DeliverPastCap(m) ==
    /\ running
    /\ queue' = IF Len(queue) > QueueCap THEN Append(Tail(queue), m)
                ELSE Append(queue, m)
    /\ newest' = m
    /\ NoCall
    /\ UNCHANGED <<running, settingVars, tickVars, g_pc>>

Deliver(m) ==
    LET known == newest # NoMessage
        epoch_changed == /\ known
                         /\ EpochOf[m.frame.stream] # EpochOf[newest.frame.stream]
    IN  /\ running
        /\ ~ /\ known /\ m.frame.stream = newest.frame.stream
             /\ m.frame.seq <= newest.frame.seq
        /\ queue' = IF epoch_changed THEN <<m>>
                    ELSE IF Len(queue) >= QueueCap THEN Append(Tail(queue), m)
                    ELSE Append(queue, m)
        /\ newest' = m
        /\ NoCall
        /\ UNCHANGED <<running, settingVars, tickVars, g_pc>>

-----------------------------------------------------------------------------
(* roi_filter_update *)

\* Reading the settings, up to roi_interpolator_set_freeze_timeout_ms.
UpdateSettings(on, offset_ms, stale_ms, mode, timeout_ms) ==
    /\ g_pc \in {"create", "idle"}
    /\ enabled' = on /\ roi_apply_offset_ms' = offset_ms
    /\ stale_drop_ms' = stale_ms /\ presend_v2_consumer_mode' = mode
    /\ SetFreezeTimeout(timeout_ms)
    /\ g_pc' = IF ~on \/ mode # presend_v2_consumer_mode
               THEN "update_reset" ELSE "update_keep"
    /\ UNCHANGED <<clientVars, tickVars>>

\* Mutant: a new consumer mode leaves the interpolator as it is.
UpdateWithoutReset ==
    /\ NoCall
    /\ UNCHANGED last_sample

\* The reset of the interpolator, by disabling or by a new consumer mode.
UpdateReset ==
    \/ /\ g_pc = "update_reset"
       /\ Reset(TRUE)
       /\ last_sample' = NoRoi
    \/ /\ g_pc = "update_keep"
       /\ NoCall
       /\ UNCHANGED last_sample

\* Then the client: set_pipe_name empties the queue and forgets the stream;
\* start (which may fail) or stop.
UpdateClient ==
    /\ UpdateReset
    /\ queue' = <<>> /\ newest' = NoMessage
    /\ running' \in {enabled, enabled /\ running}
    /\ g_pc' = "idle"
    /\ UNCHANGED <<settingVars, conflict_active, unflagged, now_qpc, current>>

-----------------------------------------------------------------------------
(* roi_filter_video_tick *)

\* Mutant: the conflict is not cleared.
TickStartKeeping ==
    /\ g_pc = "idle"
    /\ now_qpc' \in {qpc, 0}
    /\ NoCall
    /\ g_pc' = "drain"
    /\ UNCHANGED <<clientVars, settingVars, conflict_active, unflagged,
                   last_sample, current>>

TickStart ==
    /\ g_pc = "idle"
    /\ now_qpc' \in {qpc, 0}
    /\ conflict_active' = (conflict_active /\ roi_apply_offset_ms # 0)
    /\ unflagged' = (unflagged /\ conflict_active')
    /\ NoCall
    /\ g_pc' = "drain"
    /\ UNCHANGED <<clientVars, settingVars, last_sample, current>>

Conflicts(m) == m.effective /\ roi_apply_offset_ms # 0

\* The consumer mode overrides the frame's FLAG_PRESEND_V2.
WithMode(f) ==
    [f EXCEPT !.presend_v2 =
        CASE presend_v2_consumer_mode = "auto" -> f.presend_v2
          [] presend_v2_consumer_mode = "force_legacy" -> FALSE
          [] presend_v2_consumer_mode = "force_buffered" -> TRUE]

\* Mutant: every frame is shifted, also one whose time is effective.
ShiftAlways(m) ==
    LET f == WithMode(m.frame)
        shifted == TryOffset(f.t_qpc, f.qpc_frequency, roi_apply_offset_ms)
    IN  IF shifted = Fails THEN f ELSE [f EXCEPT !.t_qpc = shifted]

\* frame_for_interpolator: what the drain loop makes of a message.
ForInterpolator(m) ==
    LET f == WithMode(m.frame)
        shifted == TryOffset(f.t_qpc, f.qpc_frequency, roi_apply_offset_ms)
    IN  IF Conflicts(m) THEN [f EXCEPT !.valid = FALSE, !.roi = NoRoi]
        ELSE IF shifted = Fails THEN f ELSE [f EXCEPT !.t_qpc = shifted]

Stale(f) ==
    LET threshold == TryStaleThreshold(stale_drop_ms, f.qpc_frequency)
    IN  /\ now_qpc > 0 /\ f.valid /\ f.t_qpc > 0 /\ f.t_qpc <= now_qpc
        /\ threshold # Fails /\ now_qpc - f.t_qpc > threshold

NeedsReset(m) == Conflicts(m) /\ ~conflict_active

\* Mutants: the reset drops the ROI applied last; there is no reset.
ConflictDroppingRoi ==
    /\ g_pc = "drain" /\ queue # <<>> /\ NeedsReset(Head(queue))
    /\ Reset(FALSE)
    /\ conflict_active' = TRUE /\ unflagged' = FALSE
    /\ current' = Head(queue) /\ queue' = Tail(queue)
    /\ g_pc' = "push"
    /\ UNCHANGED <<newest, running, settingVars, last_sample, now_qpc>>
ConflictWithoutReset ==
    /\ g_pc = "drain" /\ queue # <<>> /\ NeedsReset(Head(queue))
    /\ NoCall
    /\ conflict_active' = TRUE /\ unflagged' = FALSE
    /\ current' = Head(queue) /\ queue' = Tail(queue)
    /\ g_pc' = "push"
    /\ UNCHANGED <<newest, running, settingVars, last_sample, now_qpc>>

\* The first frame of a conflict, up to the reset of the interpolator.
BeginConflict ==
    /\ g_pc = "drain" /\ queue # <<>> /\ NeedsReset(Head(queue))
    /\ Reset(TRUE)
    /\ conflict_active' = TRUE /\ unflagged' = FALSE
    /\ current' = Head(queue) /\ queue' = Tail(queue)
    /\ g_pc' = "push"
    /\ UNCHANGED <<newest, running, settingVars, last_sample, now_qpc>>

\* The rest of that turn of the loop.
PushConflict ==
    /\ g_pc = "push"
    /\ PushFrame(ForInterpolator(current), now_qpc)
    /\ current' = NoMessage
    /\ g_pc' = "drain"
    /\ UNCHANGED <<clientVars, settingVars, conflict_active, unflagged,
                   last_sample, now_qpc>>

\* A whole turn of the loop for any other frame.
ConsumeFrame ==
    LET m == Head(queue) IN
    /\ g_pc = "drain" /\ queue # <<>> /\ ~NeedsReset(m)
    /\ ~Stale(ForInterpolator(m))
    /\ PushFrame(ForInterpolator(m), now_qpc)
    /\ unflagged' = (conflict_active /\ (unflagged \/ ~m.effective))
    /\ queue' = Tail(queue)
    /\ UNCHANGED <<newest, running, settingVars, conflict_active, last_sample,
                   now_qpc, current, g_pc>>

DropStale ==
    LET m == Head(queue) IN
    /\ g_pc = "drain" /\ queue # <<>> /\ ~NeedsReset(m)
    /\ Stale(ForInterpolator(m))
    /\ NoCall
    /\ queue' = Tail(queue)
    /\ UNCHANGED <<newest, running, settingVars, tickVars, g_pc>>

\* Mutant: the sample is kept only when it shows another ROI.
TickSampleOnChange ==
    /\ g_pc = "drain" /\ queue = <<>>
    /\ \/ now_qpc > 0 /\ Sample(now_qpc)
       \/ now_qpc = 0 /\ NoCall
    /\ last_sample' = IF last_applied_roi' # last_applied_roi THEN ret'.roi
                      ELSE last_sample
    /\ g_pc' = "idle" /\ now_qpc' = 0
    /\ UNCHANGED <<clientVars, settingVars, conflict_active, unflagged, current>>

\* The queue is found empty; the tick samples if it has read the counter.
TickSample ==
    /\ g_pc = "drain" /\ queue = <<>>
    /\ \/ now_qpc > 0 /\ Sample(now_qpc)
       \/ now_qpc = 0 /\ NoCall
    /\ last_sample' = IF ret'.roi # NoRoi THEN ret'.roi ELSE last_sample
    /\ g_pc' = "idle" /\ now_qpc' = 0
    /\ UNCHANGED <<clientVars, settingVars, conflict_active, unflagged, current>>

\* External: QueryPerformanceCounter moves on.
Clock ==
    /\ ClockAdvances
    /\ UNCHANGED <<clientVars, settingVars, tickVars, g_pc>>

\* What roi_filter_video_render crops to; NoRoi: it passes the source through.
Crop == IF enabled THEN last_sample ELSE NoRoi

Tick == TickStart \/ BeginConflict \/ PushConflict \/ ConsumeFrame
            \/ DropStale \/ TickSample

FilterNext ==
    \/ \E m \in Messages : Deliver(m)
    \/ \E on \in BOOLEAN, offset_ms \in Offsets, stale_ms \in StaleDrops,
          mode \in ConsumerModes, timeout_ms \in Timeouts :
            UpdateSettings(on, offset_ms, stale_ms, mode, timeout_ms)
    \/ UpdateClient
    \/ Tick
    \/ Clock

FilterSpec == FilterInit /\ [][FilterNext]_filterVars

\* OBS calls video_tick again and again and lets every call end, the counter can
\* be read again and again, and the drain loop catches up with the producer
\* again and again (nothing in the code bounds it).
FilterFairness ==
    /\ WF_filterVars(UpdateClient)
    /\ SF_filterVars(TickStart /\ now_qpc' > 0)
    /\ WF_filterVars(BeginConflict \/ PushConflict \/ ConsumeFrame \/ DropStale)
    /\ SF_filterVars(TickSample)

FairFilterSpec == FilterSpec /\ FilterFairness

-----------------------------------------------------------------------------
(* What must hold *)

\* Every variable of the filter has its type, and a frame is held only between
\* the reset of its conflict and its push.
FilterTypeOK ==
    /\ queue \in Seq(Messages) /\ Len(queue) <= QueueCap
    /\ newest \in Messages \cup {NoMessage}
    /\ running \in BOOLEAN /\ enabled \in BOOLEAN
    /\ roi_apply_offset_ms \in Offsets \cup {0}
    /\ stale_drop_ms \in StaleDrops \cup {0}
    /\ presend_v2_consumer_mode \in ConsumerModes
    /\ conflict_active \in BOOLEAN /\ unflagged \in BOOLEAN
    /\ last_sample \in Nat \cup {NoRoi}
    /\ now_qpc \in 0..qpc
    /\ g_pc \in {"create", "idle", "update_reset", "update_keep", "drain", "push"}
    /\ IF g_pc = "push"
       THEN current \in Messages /\ conflict_active /\ Conflicts(current)
       ELSE current = NoMessage

\* A forced consumer mode rules the interpolator from the first frame on, also
\* when the setting was changed while frames of the other mode were queued or
\* had set anchors.
ForcedModeHolds ==
    has_stream_mode /\ g_pc # "update_reset" =>
        /\ presend_v2_consumer_mode = "force_legacy" => ~presend_v2_mode
        /\ presend_v2_consumer_mode = "force_buffered" => presend_v2_mode

\* While an offset conflicts with the producer's flag there is nothing the
\* picture could move to: no anchor is left, and none comes in, until a frame
\* without the flag arrives or the offset is cleared.
ConflictLeavesNoAnchor ==
    /\ conflict_active /\ ~unflagged => Anchors = {}
    /\ conflict_active /\ g_pc \in {"drain", "push"} => roi_apply_offset_ms # 0

\* What is rendered is what the interpolator takes for applied: the copy that
\* the filter keeps for video_render never lags behind resets and updates.
CropIsApplied == last_sample # NoRoi => last_sample = last_applied_roi

\* Where an anchor may come from: a valid frame with its own time or, if the
\* frame's time is not effective already, shifted by one offset.
Justified(a) ==
    \E m \in Messages :
        /\ m.frame.valid /\ m.frame.roi = a.roi /\ m.frame.stream = a.from
        /\ \/ a.t_qpc = m.frame.t_qpc
           \/ /\ ~m.effective
              /\ \E ms \in Offsets :
                    a.t_qpc = TryOffset(m.frame.t_qpc, m.frame.qpc_frequency, ms)

\* The offset has one owner (IPC_REFERENCE.md, 48 and 63): no effective time is
\* shifted by the filter, and no time is shifted twice.
OffsetHasOneOwner == \A a \in Anchors : Justified(a)

\* The inductive invariant of the composition.
FilterInv ==
    /\ IInv /\ FilterTypeOK /\ ForcedModeHolds /\ ConflictLeavesNoAnchor
    /\ CropIsApplied /\ OffsetHasOneOwner

\* While the conflict lasts, a picture that is shown stands still, whatever is
\* queued, dropped as stale, or changed in the settings meanwhile.
ConflictFreezesPicture ==
    [][ conflict_active /\ ~unflagged /\ HasLast =>
            last_applied_roi' = last_applied_roi ]_filterVars

\* A picture comes back: once a ROI has been applied, an enabled filter crops
\* again after every update that made it forget its sample.
CropResumes == (enabled /\ HasLast) ~> (Crop # NoRoi \/ ~enabled)

\* A conflict ends when the offset is cleared (the log of
\* src/src/roi_filter_source.c, 986: "resume ROI stream").
ConflictEnds ==
    (conflict_active /\ roi_apply_offset_ms = 0)
        ~> (~conflict_active \/ roi_apply_offset_ms # 0)

\* IPC_REFERENCE.md, 60: "Treat epoch changes as stream reset and clear
\* interpolation state": once a frame of another epoch has been taken from the
\* queue, no anchor of an earlier epoch is left.
EpochClearsAnchors ==
    [][ g_pc = "drain" /\ queue # <<>> /\ queue' = Tail(queue) =>
            \A a \in Anchors' :
                EpochOf[a.from] = EpochOf[Head(queue).frame.stream] ]_filterVars

\* The frames wait in the same queue as in RoiFrameQueue.
Waiting == INSTANCE EpochQueue
    WITH Items <- Messages, None <- NoMessage,
         SourceOf <- [m \in MessageType |-> m.frame.stream],
         EpochOf <- [m \in MessageType |-> EpochOf[m.frame.stream]],
         SeqOf <- [m \in MessageType |-> m.frame.seq],
         Capacities <- {QueueCap}, cap <- QueueCap

\* What the filter takes the client for is what the client is: every step of
\* the model is a step of the queue that the ring is shown to implement.
KeepsEpochQueue == Waiting!Spec
=============================================================================
