--------------------------- MODULE RoiInterpolator ---------------------------
(***************************************************************************)
(* The consumer-side ROI interpolator (src/src/roi_interpolator.c): the    *)
(* state machine the OBS graphics thread feeds with decoded frames         *)
(* (roi_interpolator_push_frame) and asks, once per video tick, for the    *)
(* region of interest to show (roi_interpolator_sample).                   *)
(*                                                                         *)
(* Data abstraction.  A ROI is one coordinate on an integer grid: the four *)
(* floats x, y, w, h of a ROI are blended by one and the same formula and  *)
(* nothing in this file branches on them, except try_normalize_roi, whose  *)
(* verdict on a frame's geometry is the choice roi = NoRoi of that frame.  *)
(* A pair (stream_id, epoch), which the code only ever compares as a whole,*)
(* is one member of Streams.  Statistics, logging and anchor.seq (stored,  *)
(* never read) are left out, in_timeout_freeze with them: it only detects  *)
(* the edge that one statistic counts.                                     *)
(***************************************************************************)
EXTENDS Integers, Sequences

CONSTANTS
    Streams,        \* the (stream_id, epoch) pairs a producer may use
    NoStream,       \* has_stream_state = false
    NoAnchor,       \* has_prev_anchor / has_next_anchor = false
    Frames,         \* the messages the producer may send
    QpcMax,         \* bound on the performance counter
    Timeouts,       \* freeze timeouts (ms) the settings may choose
    TimeoutMax, TimeoutDefault,
                    \* ROI_INTERPOLATOR_FREEZE_TIMEOUT_MAX_MS/DEFAULT_MS
    Warmups,        \* warm-up lengths the settings may choose
    WarmupMin, WarmupMax, WarmupDefault,
                    \* ROI_INTERPOLATOR_WARMUP_VALID_FRAMES_MIN/MAX/DEFAULT
    AnchorCap       \* ROI_INTERPOLATOR_ANCHOR_BUFFER_CAP

NoRoi == -1         \* has_last_applied_roi = false; geometry that is refused
NoSeq == -1         \* has_last_seq = false

\* What a roi_frame_msg_v1_t amounts to here.  roi = NoRoi stands for floats
\* that try_normalize_roi refuses.
FrameType ==
    [stream : Streams, seq : Nat, t_qpc : Int, qpc_frequency : Nat,
     valid : BOOLEAN, roi : Nat \cup {NoRoi},
     frame_stream : BOOLEAN, presend_v2 : BOOLEAN]

\* The field "from" is a history field: the stream whose frame set the anchor.
Anchor == [t_qpc : Int, roi : Nat, from : Streams]

ASSUME ConstantsAssumption ==
    /\ NoStream \notin Streams
    /\ NoAnchor \notin Anchor
    /\ Frames \subseteq FrameType
    /\ QpcMax \in Nat
    /\ Timeouts \subseteq Nat /\ Warmups \subseteq Nat
    /\ TimeoutMax \in Nat /\ TimeoutDefault \in 0..TimeoutMax
    /\ WarmupMin \in Nat \ {0} /\ WarmupMax \in Nat
    /\ WarmupDefault \in WarmupMin..WarmupMax
    /\ AnchorCap \in Nat \ {0}

VARIABLES
    qpc,                            \* QueryPerformanceCounter, external
    stream, last_seq, qpc_frequency,
    has_stream_mode, frame_stream_mode, presend_v2_mode, mode_mismatch_active,
    warmup_active, warmup_valid_frame_count, warmup_due_to_stream_reset,
    prev_anchor, next_anchor,       \* the two anchors of legacy mode
    anchor_buffer,                  \* the anchors of pre-send mode
    last_applied_roi, last_input_receive_qpc,
    freeze_timeout_ms, warmup_required_valid_frames,
    ret                             \* what the latest step's call returned

modeVars == <<has_stream_mode, frame_stream_mode, presend_v2_mode,
              mode_mismatch_active>>
warmupVars == <<warmup_active, warmup_valid_frame_count,
                warmup_due_to_stream_reset>>
anchorVars == <<prev_anchor, next_anchor, anchor_buffer>>
streamVars == <<stream, last_seq, qpc_frequency>>
settings == <<freeze_timeout_ms, warmup_required_valid_frames>>
vars == <<qpc, streamVars, modeVars, warmupVars, anchorVars, settings,
          last_applied_roi, last_input_receive_qpc, ret>>

SampleModes == {"NONE", "INTERPOLATED", "HOLD_PREV", "HOLD_LAST",
                "TIMEOUT_FREEZE"}
SampleReasons == {"NONE", "MISS_RIGHT", "MISS_LEFT", "SPAN_INVALID",
                  "TOO_CLOSE", "STREAM_RESET", "WARMUP", "FRAME_STREAM", "TIMEOUT_FREEZE"}
Calls == {"other", "accepted", "keepalive", "rejected", "sampled"}
Returns == [call : Calls, roi : Nat \cup {NoRoi}, mode : SampleModes,
            reason : SampleReasons, timeout_freeze : BOOLEAN]

\* The return of a call other than a sample with output.
Returned(call) ==
    [call |-> call, roi |-> NoRoi, mode |-> "NONE", reason |-> "NONE",
     timeout_freeze |-> FALSE]

Init ==
    /\ qpc = 1
    /\ stream = NoStream /\ last_seq = NoSeq /\ qpc_frequency = 0
    /\ has_stream_mode = FALSE /\ mode_mismatch_active = FALSE
    /\ frame_stream_mode = FALSE /\ presend_v2_mode = FALSE
    /\ warmup_active = FALSE /\ warmup_valid_frame_count = 0
    /\ warmup_due_to_stream_reset = FALSE
    /\ prev_anchor = NoAnchor /\ next_anchor = NoAnchor /\ anchor_buffer = <<>>
    /\ last_applied_roi = NoRoi /\ last_input_receive_qpc = 0
    /\ freeze_timeout_ms = TimeoutDefault
    /\ warmup_required_valid_frames = WarmupDefault
    /\ ret = Returned("other")

-----------------------------------------------------------------------------
(* roi_interpolator_push_frame *)

StreamChanged(f) == f.stream # stream

AdoptsMode(f) == StreamChanged(f) \/ ~has_stream_mode

ModeMismatch(f) ==
    /\ ~AdoptsMode(f)
    /\ \/ f.frame_stream # frame_stream_mode
       \/ f.presend_v2 # presend_v2_mode

\* Mutants: a new stream, or a mode mismatch, is not recognised.
WarmupOnMismatchOnly(f) == ModeMismatch(f) /\ ~mode_mismatch_active
WarmupOnStreamOnly(f) == StreamChanged(f)

EntersWarmup(f) ==
    StreamChanged(f) \/ (ModeMismatch(f) /\ ~mode_mismatch_active)

\* Mutant: the mismatch is forgotten as soon as a frame matches again.
BlockedWhileMismatched(f) == ModeMismatch(f)

\* Freeze of ROI updates once the frame's flags have been looked at.
Blocked(f) == ~AdoptsMode(f) /\ (mode_mismatch_active \/ ModeMismatch(f))

SeqTooOld(f) == ~StreamChanged(f) /\ f.seq <= last_seq

\* Everything a frame changes before its seq is looked at, except the warm-up
\* and the anchors, which the outcomes below finish.
Identify(f, receive_qpc) ==
    /\ last_input_receive_qpc' =
            IF receive_qpc > 0 THEN receive_qpc ELSE last_input_receive_qpc
    /\ stream' = f.stream
    /\ qpc_frequency' =
            IF f.qpc_frequency > 0 THEN f.qpc_frequency ELSE qpc_frequency
    /\ has_stream_mode' = TRUE
    /\ frame_stream_mode' =
            IF AdoptsMode(f) THEN f.frame_stream ELSE frame_stream_mode
    /\ presend_v2_mode' =
            IF AdoptsMode(f) THEN f.presend_v2 ELSE presend_v2_mode
    /\ mode_mismatch_active' = Blocked(f)

\* enter_warmup, or no change: the anchors and the warm-up a frame that sets no
\* anchor leaves behind.
OnlyWarmupEntry(f) ==
    IF EntersWarmup(f)
    THEN /\ warmup_active' = TRUE
         /\ warmup_valid_frame_count' = 0
         /\ warmup_due_to_stream_reset' = (stream # NoStream)
         /\ prev_anchor' = NoAnchor /\ next_anchor' = NoAnchor
         /\ anchor_buffer' = <<>>
    ELSE UNCHANGED <<warmupVars, anchorVars>>

AnchorOf(f) == [t_qpc |-> f.t_qpc, roi |-> f.roi, from |-> f.stream]

\* push_anchor_buffered on the buffer b.
BufferPush(b, a) ==
    IF b = <<>> THEN <<a>>
    ELSE LET newest == b[Len(b)].t_qpc IN
         IF a.t_qpc < newest THEN <<a>>
         ELSE IF a.t_qpc = newest THEN [b EXCEPT ![Len(b)] = a]
         ELSE IF Len(b) >= AnchorCap THEN Append(Tail(b), a)
         ELSE Append(b, a)

\* The legacy branch, on the anchors prev and next: one anchor before, one after.
Later(a, anchor) == anchor # NoAnchor /\ a.t_qpc > anchor.t_qpc

\* Mutant: a time that rolls back replaces the later anchor.
WindowPushUnordered(prev, next, a) ==
    \/ /\ prev = NoAnchor
       /\ prev_anchor' = a /\ next_anchor' = NoAnchor
    \/ /\ prev # NoAnchor
       /\ prev_anchor' = prev /\ next_anchor' = a

WindowPush(prev, next, a) ==
    \/ /\ ~Later(a, prev)
       /\ prev_anchor' = a /\ next_anchor' = NoAnchor
    \/ /\ Later(a, prev) /\ ~Later(a, next)
       /\ prev_anchor' = prev /\ next_anchor' = a
    \/ /\ Later(a, prev) /\ Later(a, next)
       /\ prev_anchor' = next /\ next_anchor' = a

SetAnchor(f) ==
    LET fresh == EntersWarmup(f)
        prev == IF fresh THEN NoAnchor ELSE prev_anchor
        next == IF fresh THEN NoAnchor ELSE next_anchor
        buffer == IF fresh THEN <<>> ELSE anchor_buffer
    IN  \/ /\ presend_v2_mode'
           /\ anchor_buffer' = BufferPush(buffer, AnchorOf(f))
           /\ prev_anchor' = prev /\ next_anchor' = next
       \/ /\ ~presend_v2_mode'
          /\ WindowPush(prev, next, AnchorOf(f))
          /\ anchor_buffer' = buffer

\* The frame counts towards the warm-up, then try_exit_warmup.
CountWarmup(f) ==
    LET active == EntersWarmup(f) \/ warmup_active
        before == IF EntersWarmup(f) THEN 0 ELSE warmup_valid_frame_count
        count == IF active THEN before + 1 ELSE before
        due == IF EntersWarmup(f) THEN stream # NoStream
                                  ELSE warmup_due_to_stream_reset
    IN  /\ warmup_valid_frame_count' = count
        /\ warmup_active' = (active /\ count < warmup_required_valid_frames)
        /\ warmup_due_to_stream_reset' = (due /\ warmup_active')

\* seq not newer: the frame is refused, but what Identify did stays done.
RejectSeq(f) ==
    /\ SeqTooOld(f)
    /\ last_seq' = last_seq
    /\ OnlyWarmupEntry(f)
    /\ ret' = Returned("rejected")

Keepalive(f) ==
    /\ ~SeqTooOld(f)
    /\ Blocked(f) \/ ~f.valid
    /\ last_seq' = f.seq
    /\ OnlyWarmupEntry(f)
    /\ ret' = Returned("keepalive")

RejectGeometry(f) ==
    /\ ~SeqTooOld(f) /\ ~Blocked(f) /\ f.valid /\ f.roi = NoRoi
    /\ last_seq' = f.seq
    /\ OnlyWarmupEntry(f)
    /\ ret' = Returned("rejected")

AcceptRoi(f) ==
    /\ ~SeqTooOld(f) /\ ~Blocked(f) /\ f.valid /\ f.roi # NoRoi
    /\ last_seq' = f.seq
    /\ SetAnchor(f)
    /\ CountWarmup(f)
    /\ ret' = Returned("accepted")

PushFrame(f, receive_qpc) ==
    /\ Identify(f, receive_qpc)
    /\ RejectSeq(f) \/ Keepalive(f) \/ RejectGeometry(f) \/ AcceptRoi(f)
    /\ UNCHANGED <<qpc, last_applied_roi, settings>>

-----------------------------------------------------------------------------
(* roi_interpolator_sample *)

\* compute_timeout_ticks where the product does not overflow; where it does,
\* the ticks saturate and no elapsed time reaches them.
TimeoutTicks ==
    IF freeze_timeout_ms = 0 \/ qpc_frequency = 0 THEN 0
    ELSE LET ticks == (freeze_timeout_ms * qpc_frequency) \div 1000
         IN  IF ticks = 0 THEN 1 ELSE ticks

TimedOut(render_qpc) ==
    /\ last_input_receive_qpc > 0
    /\ render_qpc > last_input_receive_qpc
    /\ TimeoutTicks > 0
    /\ render_qpc - last_input_receive_qpc >= TimeoutTicks

\* lerp_between_anchors; the position of render_qpc in the span is clamped to
\* its two ends.
Lerp(left, right, render_qpc) ==
    IF right.t_qpc <= left.t_qpc THEN right.roi
    ELSE IF render_qpc <= left.t_qpc THEN left.roi
    ELSE IF render_qpc >= right.t_qpc THEN right.roi
    ELSE left.roi + ((right.roi - left.roi) * (render_qpc - left.t_qpc))
                        \div (right.t_qpc - left.t_qpc)

Publish(roi, mode, reason) ==
    /\ last_applied_roi' = roi
    /\ ret' = [call |-> "sampled", roi |-> roi, mode |-> mode,
               reason |-> reason, timeout_freeze |-> mode = "TIMEOUT_FREEZE"]

NoOutput(timeout_freeze) ==
    /\ ret' = [Returned("sampled") EXCEPT !.timeout_freeze = timeout_freeze]
    /\ UNCHANGED last_applied_roi

HasLast == last_applied_roi # NoRoi

\* Mutant: nothing is shown until the warm-up is over.
SilentWarmup(has_left, left) == NoOutput(FALSE)

\* Shared by the warm-up of both modes; left is the anchor to fall back on.
PublishWarmup(has_left, left) ==
    LET reason == IF warmup_due_to_stream_reset THEN "STREAM_RESET"
                                                ELSE "WARMUP"
    IN  \/ HasLast /\ Publish(last_applied_roi, "HOLD_LAST", reason)
        \/ ~HasLast /\ has_left /\ Publish(left.roi, "HOLD_PREV", reason)
        \/ ~HasLast /\ ~has_left /\ NoOutput(FALSE)

\* Mutant: FLAG_FRAME_STREAM is ignored.
BlendSpan(left, right, render_qpc) ==
    Publish(Lerp(left, right, render_qpc), "INTERPOLATED", "NONE")

\* An anchor on either side of the render time.  The floats of a blend may be
\* rounded to a ROI that try_normalize_roi refuses (a width that falls to
\* ROI_EPSILON), which the grid does not show: any blend may be refused.
PublishSpan(left, right, render_qpc) ==
    \/ /\ has_stream_mode /\ frame_stream_mode
       /\ Publish(left.roi, "HOLD_PREV", "FRAME_STREAM")
    \/ /\ ~(has_stream_mode /\ frame_stream_mode)
       /\ \/ Publish(Lerp(left, right, render_qpc), "INTERPOLATED", "NONE")
          \/ HasLast /\ Publish(last_applied_roi, "HOLD_LAST", "SPAN_INVALID")
          \/ ~HasLast /\ NoOutput(FALSE)

SampleFrozen(render_qpc) ==
    /\ TimedOut(render_qpc)
    /\ \/ HasLast /\ Publish(last_applied_roi, "TIMEOUT_FREEZE", "TIMEOUT_FREEZE")
       \/ /\ ~HasLast /\ prev_anchor # NoAnchor
          /\ Publish(prev_anchor.roi, "TIMEOUT_FREEZE", "TIMEOUT_FREEZE")
       \/ ~HasLast /\ prev_anchor = NoAnchor /\ NoOutput(TRUE)
    /\ UNCHANGED anchorVars

\* Mutants: an anchor is due only after its time; the scan stops at the first.
DueStrictly(b, render_qpc) ==
    CHOOSE k \in 0..Len(b) :
        /\ \A i \in 1..k : b[i].t_qpc < render_qpc
        /\ k < Len(b) => b[k + 1].t_qpc >= render_qpc
DueFirstOnly(b, render_qpc) ==
    IF b # <<>> /\ b[1].t_qpc <= render_qpc THEN 1 ELSE 0

\* How many anchors at the front of b are due: where the scan of the buffer
\* meets the first one that is later than the render time.
DueCount(b, render_qpc) ==
    CHOOSE k \in 0..Len(b) :
        /\ \A i \in 1..k : b[i].t_qpc <= render_qpc
        /\ k < Len(b) => b[k + 1].t_qpc > render_qpc

\* Mutant: the last due anchor is pruned too.
PruneThrough(b, k) == SubSeq(b, k + 1, Len(b))

\* anchor_buffer_prune_before the last due anchor.
PruneTo(b, k) == IF k = 0 THEN b ELSE SubSeq(b, k, Len(b))

SamplePresend(render_qpc) ==
    LET due == DueCount(anchor_buffer, render_qpc)
        has_left == due > 0
        has_right == due < Len(anchor_buffer)
        left == anchor_buffer[due]
        right == anchor_buffer[due + 1]
        too_close == /\ render_qpc > 0 /\ anchor_buffer # <<>>
                     /\ ~has_right
    IN  /\ ~TimedOut(render_qpc) /\ presend_v2_mode
        /\ anchor_buffer' = PruneTo(anchor_buffer, due)
        /\ UNCHANGED <<prev_anchor, next_anchor>>
        /\ \/ warmup_active /\ PublishWarmup(has_left, left)
           \/ /\ ~warmup_active /\ has_left /\ has_right
              /\ PublishSpan(left, right, render_qpc)
           \/ /\ ~warmup_active /\ has_left /\ ~has_right
              /\ Publish(left.roi, "HOLD_PREV",
                         IF too_close THEN "TOO_CLOSE" ELSE "MISS_RIGHT")
           \/ /\ ~warmup_active /\ ~has_left /\ HasLast
              /\ Publish(last_applied_roi, "HOLD_LAST",
                         IF has_right THEN "MISS_LEFT" ELSE "MISS_RIGHT")
           \/ ~warmup_active /\ ~has_left /\ ~HasLast /\ NoOutput(FALSE)

SampleLegacy(render_qpc) ==
    LET passed == /\ next_anchor # NoAnchor
                  /\ render_qpc >= next_anchor.t_qpc
        left == IF passed THEN next_anchor ELSE prev_anchor
        right == IF passed THEN NoAnchor ELSE next_anchor
        has_left == left # NoAnchor
        has_right == right # NoAnchor
    IN  /\ ~TimedOut(render_qpc) /\ ~presend_v2_mode
        /\ prev_anchor' = left /\ next_anchor' = right
        /\ UNCHANGED anchor_buffer
        /\ \/ warmup_active /\ PublishWarmup(has_left, left)
           \/ /\ ~warmup_active /\ has_left /\ has_right
              /\ PublishSpan(left, right, render_qpc)
           \/ /\ ~warmup_active /\ has_left /\ ~has_right
              /\ Publish(left.roi, "HOLD_PREV",
                         IF passed THEN "TOO_CLOSE" ELSE "MISS_RIGHT")
           \/ /\ ~warmup_active /\ ~has_left /\ HasLast
              /\ Publish(last_applied_roi, "HOLD_LAST", "MISS_LEFT")
           \/ ~warmup_active /\ ~has_left /\ ~HasLast /\ NoOutput(FALSE)

Sample(render_qpc) ==
    /\ \/ SampleFrozen(render_qpc)
       \/ SamplePresend(render_qpc)
       \/ SampleLegacy(render_qpc)
    /\ UNCHANGED <<qpc, streamVars, modeVars, warmupVars, settings,
                   last_input_receive_qpc>>

-----------------------------------------------------------------------------
(* The other entry points, and the world around the interpolator *)

\* Mutant: the anchors of the legacy window outlive the stream they came from.
ResetKeepingWindow(keep_last_applied) ==
    /\ stream' = NoStream /\ last_seq' = NoSeq /\ qpc_frequency' = 0
    /\ has_stream_mode' = FALSE /\ frame_stream_mode' = FALSE
    /\ presend_v2_mode' = FALSE /\ mode_mismatch_active' = FALSE
    /\ warmup_active' = FALSE /\ warmup_valid_frame_count' = 0
    /\ warmup_due_to_stream_reset' = FALSE
    /\ last_input_receive_qpc' = 0 /\ anchor_buffer' = <<>>
    /\ last_applied_roi' = IF keep_last_applied THEN last_applied_roi ELSE NoRoi
    /\ ret' = Returned("other")
    /\ UNCHANGED <<qpc, settings, prev_anchor, next_anchor>>

Reset(keep_last_applied) ==
    /\ stream' = NoStream /\ last_seq' = NoSeq /\ qpc_frequency' = 0
    /\ has_stream_mode' = FALSE /\ frame_stream_mode' = FALSE
    /\ presend_v2_mode' = FALSE /\ mode_mismatch_active' = FALSE
    /\ warmup_active' = FALSE /\ warmup_valid_frame_count' = 0
    /\ warmup_due_to_stream_reset' = FALSE
    /\ last_input_receive_qpc' = 0
    /\ prev_anchor' = NoAnchor /\ next_anchor' = NoAnchor /\ anchor_buffer' = <<>>
    /\ last_applied_roi' = IF keep_last_applied THEN last_applied_roi ELSE NoRoi
    /\ ret' = Returned("other")
    /\ UNCHANGED <<qpc, settings>>

SetFreezeTimeout(ms) ==
    /\ freeze_timeout_ms' = IF ms > TimeoutMax THEN TimeoutMax ELSE ms
    /\ ret' = Returned("other")
    /\ UNCHANGED <<qpc, streamVars, modeVars, warmupVars, anchorVars,
                   last_applied_roi, last_input_receive_qpc,
                   warmup_required_valid_frames>>

\* Mutant: the lower bound is forgotten.
ClampWarmupAbove(n) == IF n > WarmupMax THEN WarmupMax ELSE n

ClampWarmup(n) ==
    IF n < WarmupMin THEN WarmupMin
    ELSE IF n > WarmupMax THEN WarmupMax ELSE n

SetWarmupValidFrames(n) ==
    /\ warmup_required_valid_frames' = ClampWarmup(n)
    /\ ret' = Returned("other")
    /\ UNCHANGED <<qpc, streamVars, modeVars, warmupVars, anchorVars,
                   last_applied_roi, last_input_receive_qpc, freeze_timeout_ms>>

\* External: QueryPerformanceCounter moves on between two calls.
ClockAdvances ==
    /\ qpc < QpcMax
    /\ qpc' = qpc + 1
    /\ UNCHANGED <<streamVars, modeVars, warmupVars, anchorVars, settings,
                   last_applied_roi, last_input_receive_qpc>>
    /\ ret' = Returned("other")

\* The filter passes the tick's counter reading, or 0 when it has none, in
\* which case it does not sample.
Next ==
    \/ \E f \in Frames, receive_qpc \in {0, qpc} : PushFrame(f, receive_qpc)
    \/ Sample(qpc)
    \/ \E keep \in BOOLEAN : Reset(keep)
    \/ \E ms \in Timeouts : SetFreezeTimeout(ms)
    \/ \E n \in Warmups : SetWarmupValidFrames(n)
    \/ ClockAdvances

Spec == Init /\ [][Next]_vars

-----------------------------------------------------------------------------
(* What must hold *)

\* Every variable has its type.
TypeOK ==
    /\ qpc \in Nat \ {0}
    /\ stream \in Streams \cup {NoStream}
    /\ last_seq \in Nat \cup {NoSeq}
    /\ qpc_frequency \in Nat
    /\ has_stream_mode \in BOOLEAN /\ frame_stream_mode \in BOOLEAN
    /\ presend_v2_mode \in BOOLEAN /\ mode_mismatch_active \in BOOLEAN
    /\ warmup_active \in BOOLEAN /\ warmup_due_to_stream_reset \in BOOLEAN
    /\ warmup_valid_frame_count \in Nat
    /\ prev_anchor \in Anchor \cup {NoAnchor}
    /\ next_anchor \in Anchor \cup {NoAnchor}
    /\ anchor_buffer \in Seq(Anchor)
    /\ last_applied_roi \in Nat \cup {NoRoi}
    /\ last_input_receive_qpc \in Nat
    /\ freeze_timeout_ms \in Nat
    /\ warmup_required_valid_frames \in Nat \ {0}
    /\ ret \in Returns

\* The two anchor stores never both hold anchors: a stream whose frames are
\* buffered leaves nothing in the legacy window and the other way round, also
\* right after the mode changed (set_anchor and enter_warmup, 95 and 643-668).
AnchorsMatchMode ==
    /\ presend_v2_mode => prev_anchor = NoAnchor /\ next_anchor = NoAnchor
    /\ ~presend_v2_mode => anchor_buffer = <<>>

Ascending(b) ==
    \A i, j \in 1..Len(b) : i < j => b[i].t_qpc < b[j].t_qpc

\* The scan of the buffer, the pruning and the blend all rely on it: anchors
\* are kept in strictly increasing effective time, the buffer never outgrows
\* its array, and there is no next anchor without an earlier previous one,
\* whatever order, duplicates or rollbacks the producer sends.
AnchorsOrdered ==
    /\ Len(anchor_buffer) <= AnchorCap
    /\ Ascending(anchor_buffer)
    /\ next_anchor # NoAnchor =>
            prev_anchor # NoAnchor /\ prev_anchor.t_qpc < next_anchor.t_qpc

AllFrom(b, origin) == \A i \in 1..Len(b) : b[i].from = origin

\* No anchor survives its stream: two anchors that may be blended, or the one
\* that may be held, were sent under the current stream_id and epoch.
AnchorsOfStream ==
    /\ AllFrom(anchor_buffer, stream)
    /\ prev_anchor # NoAnchor => prev_anchor.from = stream
    /\ next_anchor # NoAnchor => next_anchor.from = stream

\* A stream whose flags changed in flight stays in warm-up with no anchor at
\* all, however many good frames follow, until the stream itself is replaced.
MismatchStaysEmpty ==
    mode_mismatch_active =>
        /\ warmup_active /\ warmup_valid_frame_count = 0
        /\ prev_anchor = NoAnchor /\ anchor_buffer = <<>>

\* A stream that has left warm-up always has an anchor to show, whatever was
\* pruned, rolled back or dropped on overflow since.
LiveHasAnchor ==
    stream # NoStream /\ ~warmup_active =>
        IF presend_v2_mode THEN anchor_buffer # <<>> ELSE prev_anchor # NoAnchor

\* Without a stream nothing of an earlier stream is left, and with one its mode
\* has been recorded (the paths through reset and through a stream change).
IdleIsClean ==
    IF stream = NoStream
    THEN /\ last_seq = NoSeq /\ ~has_stream_mode /\ ~presend_v2_mode
         /\ ~mode_mismatch_active /\ ~warmup_active
         /\ prev_anchor = NoAnchor /\ anchor_buffer = <<>>
    ELSE has_stream_mode

\* The inductive invariant the proofs rest on.
IInv == /\ TypeOK /\ AnchorsMatchMode /\ AnchorsOrdered /\ AnchorsOfStream
        /\ MismatchStaysEmpty /\ LiveHasAnchor /\ IdleIsClean

KeepsPicture ==
    HasLast => \/ /\ last_applied_roi' # NoRoi
                  /\ ret'.call = "sampled" => ret'.roi = last_applied_roi'
               \/ Reset(FALSE)

\* Once something is on screen every sample has output, in every mode and
\* across stream changes, mismatches, timeouts and resets that keep the last
\* ROI; only a reset that drops it takes it away.
NoFlicker == [][KeepsPicture]_vars

\* A frame-stream producer's ROIs are shown as sent: a sample that changes what
\* is shown shows the ROI of an anchor, of one that is due when frames are
\* buffered (FLAG_FRAME_STREAM and FLAG_PRESEND_V2 in IPC_REFERENCE.md).
FrameStreamShowsSentRoi ==
    [][ ret'.call = "sampled" /\ frame_stream_mode
            /\ last_applied_roi' # last_applied_roi =>
        \/ \E i \in 1..Len(anchor_buffer) :
                /\ anchor_buffer[i].t_qpc <= qpc
                /\ last_applied_roi' = anchor_buffer[i].roi
        \/ prev_anchor # NoAnchor /\ last_applied_roi' = prev_anchor.roi
        \/ /\ next_anchor # NoAnchor /\ next_anchor.t_qpc <= qpc
           /\ last_applied_roi' = next_anchor.roi ]_vars

Anchors == {anchor_buffer[i] : i \in 1..Len(anchor_buffer)}
              \cup ({prev_anchor, next_anchor} \ {NoAnchor})

\* An interpolated ROI lies between the ROIs of two anchors of the current
\* stream that are neighbours in time, the later of which is not due yet.
BlendsNeighbours ==
    [][ ret'.mode = "INTERPOLATED" =>
        \E left, right \in Anchors :
            /\ left.from = stream /\ right.from = stream
            /\ left.t_qpc < right.t_qpc /\ qpc < right.t_qpc
            /\ \A a \in Anchors : a.t_qpc <= left.t_qpc \/ a.t_qpc >= right.t_qpc
            /\ \/ left.roi <= ret'.roi /\ ret'.roi <= right.roi
               \/ right.roi <= ret'.roi /\ ret'.roi <= left.roi ]_vars

\* A buffered stream shows, of the anchors that are due, the newest: no sample
\* outside warm-up and timeout holds an older ROI while a newer one is due,
\* unless it falls back from a blend that was refused.
PresendShowsNewestDue ==
    [][ ret'.call = "sampled" /\ ~ret'.timeout_freeze /\ presend_v2_mode
            /\ ~warmup_active /\ ret'.mode # "INTERPOLATED"
            /\ ret'.reason # "SPAN_INVALID" /\ ret'.roi # NoRoi =>
        \A i \in 1..Len(anchor_buffer) :
            /\ anchor_buffer[i].t_qpc <= qpc
            /\ \A j \in i + 1..Len(anchor_buffer) : anchor_buffer[j].t_qpc > qpc
            => ret'.roi = anchor_buffer[i].roi ]_vars

-----------------------------------------------------------------------------
(* The policy the interpolator implements: RoiHoldPolicy *)

Phase == IF stream = NoStream THEN "idle"
         ELSE IF mode_mismatch_active THEN "blocked"
         ELSE IF warmup_active THEN "warming" ELSE "live"

Policy == INSTANCE RoiHoldPolicy
            WITH owner <- stream, phase <- Phase, shown <- last_applied_roi

\* What is shown changes only as RoiHoldPolicy allows.
ImplementsPolicy == Policy!Spec
=============================================================================
