--------------------------- MODULE RoiFilterProofs ---------------------------
(***************************************************************************)
(* Proofs about RoiFilter, the filter composed with the interpolator, for  *)
(* every set of messages, every queue capacity and every setting.          *)
(***************************************************************************)
EXTENDS RoiFilter, RoiInterpolatorProofs

-----------------------------------------------------------------------------
(* What the drain loop passes to the interpolator *)

\* A time that was shifted is a number.
LEMMA OffsetType ==
    ASSUME NEW t \in Int, NEW frequency \in Nat, NEW ms \in Int
    PROVE  /\ TryOffset(t, frequency, ms) \in Int \cup {Fails}
           /\ ms = 0 => TryOffset(t, frequency, ms) = t
<1> DEFINE magnitude == Magnitude(ms)
           product == frequency * magnitude
           ticks == Negated(ms < 0, Signed(product) \div SecondMs)
<1>1. WordHalf \in Nat /\ WordHalf > 0 /\ SecondMs \in Nat /\ SecondMs > 0
    BY ArithAssumption
<1>2. magnitude \in Int
    BY DEF Magnitude
<1>3. product \in Int
    BY <1>2
<1> HIDE DEF product, magnitude
<1>4. \A n \in Int : Signed(n) \in Int
    BY <1>1 DEF Signed
<1>5. Signed(product) \div SecondMs \in Int
    BY <1>1, <1>3, <1>4
<1>6. ticks \in Int
    BY <1>5 DEF Negated
<1> HIDE DEF ticks
<1>7. Signed(t + ticks) \in Int
    BY <1>4, <1>6
<1>8. TryOffset(t, frequency, ms) \in {t, Fails, Signed(t + ticks)}
    BY DEF TryOffset, ticks, product, magnitude
<1>9. QED
    BY <1>7, <1>8 DEF TryOffset

\* The fields of a message.
LEMMA MessageFields ==
    ASSUME NEW m \in Messages
    PROVE  /\ m.frame \in FrameType /\ m.effective \in BOOLEAN
           /\ m.frame.t_qpc \in Int /\ m.frame.qpc_frequency \in Nat
           /\ m # NoMessage
<1>1. m \in MessageType /\ m # NoMessage
    BY FilterAssumption
<1>2. QED
    BY <1>1 DEF MessageType, FrameType

\* The consumer mode changes nothing but the flag, and a forced mode rules it.
LEMMA WithModeFacts ==
    ASSUME NEW f \in FrameType, presend_v2_consumer_mode \in ConsumerModes
    PROVE  /\ WithMode(f) \in FrameType
           /\ WithMode(f) = [f EXCEPT !.presend_v2 = WithMode(f).presend_v2]
           /\ presend_v2_consumer_mode = "force_legacy" => ~WithMode(f).presend_v2
           /\ presend_v2_consumer_mode = "force_buffered" => WithMode(f).presend_v2
<1>1. CASE presend_v2_consumer_mode = "auto"
    BY <1>1 DEF WithMode, FrameType
<1>2. CASE presend_v2_consumer_mode = "force_legacy"
    BY <1>2 DEF WithMode, FrameType
<1>3. CASE presend_v2_consumer_mode = "force_buffered"
    BY <1>3 DEF WithMode, FrameType
<1>4. QED
    BY <1>1, <1>2, <1>3 DEF ConsumerModes

\* What the interpolator is given for a message.
LEMMA ForInterpolatorFacts ==
    ASSUME FilterTypeOK, NEW m \in Messages
    PROVE  LET f == ForInterpolator(m) IN
           /\ f \in FrameType
           /\ f.stream = m.frame.stream
           /\ presend_v2_consumer_mode = "force_legacy" => ~f.presend_v2
           /\ presend_v2_consumer_mode = "force_buffered" => f.presend_v2
           /\ Conflicts(m) => ~f.valid
           /\ f.valid => Justified(AnchorOf(f))
<1> DEFINE w == WithMode(m.frame)
           shifted == TryOffset(w.t_qpc, w.qpc_frequency, roi_apply_offset_ms)
           f == ForInterpolator(m)
<1>1. /\ m.frame \in FrameType /\ m.effective \in BOOLEAN
      /\ m.frame.t_qpc \in Int /\ m.frame.qpc_frequency \in Nat
    BY MessageFields
<1>2. /\ roi_apply_offset_ms \in Int /\ roi_apply_offset_ms \in Offsets \cup {0}
      /\ presend_v2_consumer_mode \in ConsumerModes
    BY FilterAssumption DEF FilterTypeOK
<1>3. /\ w \in FrameType
      /\ w.stream = m.frame.stream /\ w.t_qpc = m.frame.t_qpc
      /\ w.qpc_frequency = m.frame.qpc_frequency
      /\ w.valid = m.frame.valid /\ w.roi = m.frame.roi
      /\ presend_v2_consumer_mode = "force_legacy" => ~w.presend_v2
      /\ presend_v2_consumer_mode = "force_buffered" => w.presend_v2
    BY <1>1, <1>2, WithModeFacts DEF FrameType
<1>4. /\ shifted \in Int \cup {Fails}
      /\ roi_apply_offset_ms = 0 => shifted = m.frame.t_qpc
    BY <1>1, <1>2, <1>3, OffsetType
<1> HIDE DEF w, shifted
<1>5. CASE Conflicts(m)
  <2>1. f = [w EXCEPT !.valid = FALSE, !.roi = NoRoi]
      BY <1>5 DEF ForInterpolator, w
  <2>2. QED
      BY <1>3, <1>5, <2>1 DEF FrameType, NoRoi
<1>6. CASE ~Conflicts(m) /\ shifted = Fails
  <2>1. f = w
      BY <1>6 DEF ForInterpolator, w, shifted
  <2>2. f.valid => Justified(AnchorOf(f))
      BY <1>3, <2>1 DEF Justified, AnchorOf
  <2>3. QED
      BY <1>3, <1>6, <2>1, <2>2
<1>7. CASE ~Conflicts(m) /\ shifted # Fails
  <2>1. f = [w EXCEPT !.t_qpc = shifted]
      BY <1>7 DEF ForInterpolator, w, shifted
  <2>2. /\ f \in FrameType /\ f.t_qpc = shifted /\ f.valid = w.valid
        /\ f.roi = w.roi /\ f.stream = w.stream /\ f.presend_v2 = w.presend_v2
      BY <1>3, <1>4, <1>7, <2>1 DEF FrameType
  <2>3. ASSUME f.valid PROVE Justified(AnchorOf(f))
    <3>1. CASE roi_apply_offset_ms = 0
        BY <1>3, <1>4, <2>2, <2>3, <3>1 DEF Justified, AnchorOf
    <3>2. CASE roi_apply_offset_ms # 0
      <4>1. ~m.effective /\ roi_apply_offset_ms \in Offsets
          BY <1>2, <1>7, <3>2 DEF Conflicts
      <4>2. shifted = TryOffset(m.frame.t_qpc, m.frame.qpc_frequency,
                                roi_apply_offset_ms)
          BY <1>3 DEF shifted
      <4>3. QED
          BY <1>3, <2>2, <2>3, <4>1, <4>2 DEF Justified, AnchorOf
    <3>3. QED
        BY <3>1, <3>2
  <2>4. QED
      BY <1>3, <1>7, <2>2, <2>3
<1>8. QED
    BY <1>5, <1>6, <1>7

-----------------------------------------------------------------------------
(* Where the anchors come from *)

\* The members of a sequence of anchors.
Members(b) == {b[i] : i \in 1..Len(b)}

\* push_anchor_buffered brings in no anchor but the new one.
LEMMA BufferPushMembers ==
    ASSUME NEW b \in Seq(Anchor), NEW x \in Anchor
    PROVE  Members(BufferPush(b, x)) \subseteq Members(b) \cup {x}
<1> DEFINE n == Len(b)
<1>1. n \in Nat /\ (b # <<>> => n > 0)
    BY EmptySeq
<1>2. b # <<>> => b[n].t_qpc \in Int /\ x.t_qpc \in Int
    BY <1>1, ElementOfSeq, AnchorFields
<1>3. CASE BufferPush(b, x) = <<x>>
  <2>1. Len(<<x>>) = 1 /\ <<x>>[1] = x
      OBVIOUS
  <2>2. QED
      BY <1>3, <2>1 DEF Members
<1>4. CASE b # <<>> /\ BufferPush(b, x) = [b EXCEPT ![n] = x]
  <2>1. n \in 1..n
      BY <1>1, <1>4
  <2>2. /\ Len([b EXCEPT ![n] = x]) = n
        /\ \A j \in 1..n : [b EXCEPT ![n] = x][j] = IF j = n THEN x ELSE b[j]
      BY <1>1, <2>1, ExceptSeq
  <2>3. QED
      BY <1>4, <2>2 DEF Members
<1>5. CASE b # <<>> /\ BufferPush(b, x) = Append(Tail(b), x)
  <2> DEFINE t == Tail(b)
  <2>1. /\ t \in Seq(Anchor) /\ Len(t) = n - 1
        /\ \A i \in 1..n - 1 : t[i] = b[i + 1]
      BY <1>5, HeadTailProperties
  <2> HIDE DEF t
  <2>2. /\ Len(Append(t, x)) = n /\ Append(t, x)[n] = x
        /\ \A i \in 1..n - 1 : Append(t, x)[i] = b[i + 1]
      BY <1>1, <1>5, <2>1, AppendProperties
  <2>3. SUFFICES ASSUME NEW i \in 1..n
                 PROVE  Append(t, x)[i] \in Members(b) \cup {x}
      BY <1>5, <2>2 DEF Members, t
  <2>4. CASE i = n
      BY <2>2, <2>4
  <2>5. CASE i # n
    <3>1. i \in 1..n - 1 /\ i + 1 \in 1..n
        BY <1>1, <2>5
    <3>2. QED
        BY <2>2, <3>1 DEF Members
  <2>6. QED
      BY <2>4, <2>5
<1>6. CASE BufferPush(b, x) = Append(b, x)
  <2>1. /\ Len(Append(b, x)) = n + 1 /\ Append(b, x)[n + 1] = x
        /\ \A i \in 1..n : Append(b, x)[i] = b[i]
      BY AppendProperties
  <2>2. SUFFICES ASSUME NEW i \in 1..n + 1
                 PROVE  Append(b, x)[i] \in Members(b) \cup {x}
      BY <1>6, <2>1 DEF Members
  <2>3. CASE i = n + 1
      BY <2>1, <2>3
  <2>4. CASE i # n + 1
    <3>1. i \in 1..n
        BY <1>1, <2>4
    <3>2. QED
        BY <2>1, <3>1 DEF Members
  <2>5. QED
      BY <2>3, <2>4
<1>7. QED
    BY <1>3, <1>4, <1>5, <1>6 DEF BufferPush

\* The anchors are those of the window and those of the buffer.
LEMMA AnchorsAre ==
    Anchors = Members(anchor_buffer) \cup ({prev_anchor, next_anchor} \ {NoAnchor})
BY DEF Anchors, Members

\* A pushed frame leaves no anchor that was not there, but its own if it is a
\* valid one.
LEMMA PushFrameAnchors ==
    ASSUME IInv, NEW f \in FrameType, NEW q \in Nat, PushFrame(f, q)
    PROVE  /\ Anchors' \subseteq Anchors \cup {AnchorOf(f)}
           /\ ~f.valid => Anchors' \subseteq Anchors
<1>1. CASE OnlyWarmupEntry(f)
  <2>1. \/ UNCHANGED <<prev_anchor, next_anchor, anchor_buffer>>
        \/ prev_anchor' = NoAnchor /\ next_anchor' = NoAnchor /\ anchor_buffer' = <<>>
      BY <1>1 DEF OnlyWarmupEntry, anchorVars
  <2>2. QED
      BY <2>1 DEF Anchors
<1>2. CASE AcceptRoi(f)
  <2> DEFINE fresh == EntersWarmup(f)
             prev == IF fresh THEN NoAnchor ELSE prev_anchor
             next == IF fresh THEN NoAnchor ELSE next_anchor
             buffer == IF fresh THEN <<>> ELSE anchor_buffer
             x == AnchorOf(f)
  <2>1. f.valid /\ f.roi # NoRoi /\ SetAnchor(f)
      BY <1>2 DEF AcceptRoi
  <2>2. x \in Anchor
      BY <2>1 DEF AnchorOf, FrameType, Anchor
  <2>3. buffer \in Seq(Anchor)
      BY EmptySeq DEF IInv, TypeOK
  <2>4. Members(buffer) \subseteq Members(anchor_buffer)
      BY EmptySeq DEF Members
  <2>5. /\ prev \in {NoAnchor, prev_anchor} /\ next \in {NoAnchor, next_anchor}
      OBVIOUS
  <2>6. \/ /\ anchor_buffer' = BufferPush(buffer, x)
           /\ prev_anchor' = prev /\ next_anchor' = next
        \/ /\ anchor_buffer' = buffer
           /\ WindowPush(prev, next, x)
      BY <2>1 DEF SetAnchor
  <2> HIDE DEF prev, next, buffer, x
  <2>7. CASE /\ anchor_buffer' = BufferPush(buffer, x)
             /\ prev_anchor' = prev /\ next_anchor' = next
    <3>1. Members(anchor_buffer') \subseteq Members(anchor_buffer) \cup {x}
        BY <2>2, <2>3, <2>4, <2>7, BufferPushMembers
    <3>2. Anchors' \subseteq Anchors \cup {x}
        BY <2>5, <2>7, <3>1 DEF Anchors, Members
    <3>3. QED
        BY <2>1, <3>2 DEF x
  <2>8. CASE anchor_buffer' = buffer /\ WindowPush(prev, next, x)
    <3>1. Members(anchor_buffer') \subseteq Members(anchor_buffer)
        BY <2>4, <2>8
    <3>2. /\ prev_anchor' \in {NoAnchor, prev_anchor, next_anchor, x}
          /\ next_anchor' \in {NoAnchor, prev_anchor, next_anchor, x}
        BY <2>5, <2>8 DEF WindowPush
    <3>3. Anchors' \subseteq Anchors \cup {x}
        BY <3>1, <3>2 DEF Anchors, Members
    <3>4. QED
        BY <2>1, <3>3 DEF x
  <2>9. QED
      BY <2>6, <2>7, <2>8
<1>3. QED
    BY <1>1, <1>2 DEF PushFrame, RejectSeq, Keepalive, RejectGeometry

\* A sample leaves no anchor that was not there.
LEMMA SampleAnchors ==
    ASSUME IInv, NEW q \in Nat, Sample(q)
    PROVE  Anchors' \subseteq Anchors
<1>1. CASE SampleFrozen(q)
    BY <1>1 DEF SampleFrozen, anchorVars, Anchors
<1>2. CASE SampleLegacy(q)
  <2>1. /\ prev_anchor' \in {prev_anchor, next_anchor}
        /\ next_anchor' \in {NoAnchor, next_anchor}
        /\ anchor_buffer' = anchor_buffer
      BY <1>2 DEF SampleLegacy
  <2>2. QED
      BY <2>1 DEF Anchors
<1>3. CASE SamplePresend(q)
  <2> DEFINE k == DueCount(anchor_buffer, q)
             n == Len(anchor_buffer)
  <2>1. anchor_buffer \in Seq(Anchor) /\ q \in Int
      BY DEF IInv, TypeOK
  <2>2. k \in 0..n /\ n \in Nat
      BY <2>1, DueCountFacts
  <2>3. /\ anchor_buffer' = PruneTo(anchor_buffer, k)
        /\ prev_anchor' = prev_anchor /\ next_anchor' = next_anchor
      BY <1>3 DEF SamplePresend
  <2> HIDE DEF k
  <2>4. Members(PruneTo(anchor_buffer, k)) \subseteq Members(anchor_buffer)
    <3>1. CASE k = 0
        BY <3>1 DEF PruneTo
    <3>2. CASE k > 0
      <4> DEFINE r == SubSeq(anchor_buffer, k, n)
      <4>1. \A i \in k..n : anchor_buffer[i] \in Anchor
          BY <2>1, <2>2, <3>2, ElementOfSeq
      <4>2. /\ Len(r) = n - k + 1
            /\ \A i \in 1..n - k + 1 : r[i] = anchor_buffer[k + i - 1]
          BY <2>1, <2>2, <3>2, <4>1, SubSeqProperties
      <4> HIDE DEF r
      <4>3. \A i \in 1..Len(r) : k + i - 1 \in 1..n
          BY <2>2, <3>2, <4>2
      <4>4. Members(r) \subseteq Members(anchor_buffer)
          BY <4>2, <4>3 DEF Members
      <4>5. QED
          BY <3>2, <4>4 DEF PruneTo, r
    <3>3. QED
        BY <2>2, <3>1, <3>2
  <2>5. Members(anchor_buffer)' \subseteq Members(anchor_buffer)
      BY <2>3, <2>4 DEF Members
  <2>6. QED
      BY <2>3, <2>5 DEF Anchors, Members
<1>4. QED
    BY <1>1, <1>2, <1>3 DEF Sample

-----------------------------------------------------------------------------
(* The inductive invariant *)

\* What a forced consumer mode asks of the interpolator.
ModeIsForced ==
    /\ presend_v2_consumer_mode = "force_legacy" => ~presend_v2_mode
    /\ presend_v2_consumer_mode = "force_buffered" => presend_v2_mode

\* The initial state satisfies the invariant.
LEMMA FilterInvInit == FilterInit => FilterInv
<1> SUFFICES ASSUME FilterInit PROVE FilterInv
    OBVIOUS
<1>1. IInv
    BY InitInv DEF FilterInit
<1>2. Anchors = {} /\ has_stream_mode = FALSE /\ qpc = 1
    BY DEF FilterInit, Init, Anchors
<1>3. queue \in Seq(Messages) /\ Len(queue) <= QueueCap
    BY FilterAssumption DEF FilterInit
<1>4. FilterTypeOK
  <2>1. /\ g_pc = "create" /\ current = NoMessage
        /\ (IF g_pc = "push"
            THEN current \in Messages /\ conflict_active /\ Conflicts(current)
            ELSE current = NoMessage)
      BY DEF FilterInit
  <2>2. newest = NoMessage /\ now_qpc \in 0..qpc /\ last_sample = NoRoi
      BY <1>2 DEF FilterInit
  <2>3. QED
      BY <1>3, <2>1, <2>2 DEF FilterInit, FilterTypeOK, ConsumerModes
<1>5. QED
    BY <1>1, <1>2, <1>4
       DEF FilterInit, FilterInv, ForcedModeHolds, ConflictLeavesNoAnchor,
           CropIsApplied, OffsetHasOneOwner

\* A step without a call leaves the interpolator as it is.
LEMMA NoCallKeeps ==
    ASSUME IInv, NoCall
    PROVE  /\ IInv' /\ Anchors' = Anchors /\ qpc' = qpc
           /\ has_stream_mode' = has_stream_mode
           /\ presend_v2_mode' = presend_v2_mode
           /\ last_applied_roi' = last_applied_roi /\ ret'.roi = NoRoi
<1>1. ret' \in Returns /\ ret'.roi = NoRoi
    BY ReturnedType DEF NoCall, Calls, Returned
<1>2. IInv'
    BY <1>1, OutsideInv DEF NoCall, IInv, TypeOK, settings
<1>3. QED
    BY <1>1, <1>2 DEF NoCall, Anchors, anchorVars, modeVars

\* What roi_interpolator_push_frame does to the invariant's parts when it is
\* given a message of the queue.
LEMMA PushKeeps ==
    ASSUME FilterInv, NEW m \in Messages, NEW q \in Nat,
           PushFrame(ForInterpolator(m), q), g_pc # "update_reset"
    PROVE  /\ IInv' /\ qpc' = qpc /\ last_applied_roi' = last_applied_roi
           /\ presend_v2_consumer_mode = "force_legacy" => ~presend_v2_mode'
           /\ presend_v2_consumer_mode = "force_buffered" => presend_v2_mode'
           /\ \A a \in Anchors' : Justified(a)
           /\ Conflicts(m) => Anchors' \subseteq Anchors
<1> DEFINE f == ForInterpolator(m)
<1>1. /\ f \in FrameType
      /\ presend_v2_consumer_mode = "force_legacy" => ~f.presend_v2
      /\ presend_v2_consumer_mode = "force_buffered" => f.presend_v2
      /\ Conflicts(m) => ~f.valid
      /\ f.valid => Justified(AnchorOf(f))
    BY ForInterpolatorFacts DEF FilterInv
<1> HIDE DEF f
<1>2. PushFrame(f, q) /\ IInv
    BY DEF f, FilterInv
<1>3. IInv' /\ qpc' = qpc /\ last_applied_roi' = last_applied_roi
    BY <1>1, <1>2, PushFrameInv DEF PushFrame
<1>4. /\ Anchors' \subseteq Anchors \cup {AnchorOf(f)}
      /\ ~f.valid => Anchors' \subseteq Anchors
    BY <1>1, <1>2, PushFrameAnchors
<1>5. \A a \in Anchors' : Justified(a)
    BY <1>1, <1>4 DEF FilterInv, OffsetHasOneOwner
<1>6. \/ presend_v2_mode' = f.presend_v2
      \/ has_stream_mode /\ presend_v2_mode' = presend_v2_mode
    BY <1>2 DEF PushFrame, Identify, AdoptsMode, IInv, TypeOK
<1>7. /\ presend_v2_consumer_mode = "force_legacy" => ~presend_v2_mode'
      /\ presend_v2_consumer_mode = "force_buffered" => presend_v2_mode'
    BY <1>1, <1>6 DEF FilterInv, ForcedModeHolds
<1>8. QED
    BY <1>1, <1>3, <1>4, <1>5, <1>7

\* The queue's type, when a message is added or taken.
LEMMA QueueMoves ==
    ASSUME FilterTypeOK
    PROVE  /\ \A m \in Messages :
                 /\ <<m>> \in Seq(Messages) /\ Len(<<m>>) <= QueueCap
                 /\ Len(queue) < QueueCap =>
                       /\ Append(queue, m) \in Seq(Messages)
                       /\ Len(Append(queue, m)) <= QueueCap
                 /\ queue # <<>> =>
                       /\ Append(Tail(queue), m) \in Seq(Messages)
                       /\ Len(Append(Tail(queue), m)) <= QueueCap
           /\ queue # <<>> =>
                 /\ Head(queue) \in Messages /\ Tail(queue) \in Seq(Messages)
                 /\ Len(Tail(queue)) <= QueueCap
<1>1. QueueCap \in Nat /\ QueueCap > 0
    BY FilterAssumption
<1>2. queue \in Seq(Messages) /\ Len(queue) <= QueueCap
    BY DEF FilterTypeOK
<1>3. queue # <<>> =>
         /\ Head(queue) \in Messages /\ Tail(queue) \in Seq(Messages)
         /\ Len(Tail(queue)) = Len(queue) - 1
    BY <1>2, HeadTailProperties
<1>4. \A s \in Seq(Messages), m \in Messages :
         Append(s, m) \in Seq(Messages) /\ Len(Append(s, m)) = Len(s) + 1
    BY AppendProperties
<1>5. \A m \in Messages : <<m>> \in Seq(Messages) /\ Len(<<m>>) = 1
    OBVIOUS
<1>6. QED
    BY <1>1, <1>2, <1>3, <1>4, <1>5

\* A delivered message changes nothing but the queue.
LEMMA DeliverInv ==
    ASSUME FilterInv, NEW m \in Messages, Deliver(m)
    PROVE  FilterInv'
<1>1. /\ IInv' /\ Anchors' = Anchors /\ qpc' = qpc
      /\ has_stream_mode' = has_stream_mode
      /\ presend_v2_mode' = presend_v2_mode
      /\ last_applied_roi' = last_applied_roi
    BY NoCallKeeps DEF Deliver, FilterInv
<1>2. queue' \in Seq(Messages) /\ Len(queue') <= QueueCap
  <2>1. FilterTypeOK /\ queue \in Seq(Messages) /\ QueueCap \in Nat /\ QueueCap > 0
      BY FilterAssumption DEF FilterInv, FilterTypeOK
  <2>2. \/ queue' = <<m>>
        \/ queue # <<>> /\ queue' = Append(Tail(queue), m)
        \/ Len(queue) < QueueCap /\ queue' = Append(queue, m)
      BY <2>1, EmptySeq DEF Deliver
  <2>3. QED
      BY <2>1, <2>2, QueueMoves
<1>3. /\ UNCHANGED <<running, settingVars, tickVars, g_pc>> /\ newest' = m
    BY DEF Deliver
<1>4. FilterTypeOK'
    BY <1>1, <1>2, <1>3
       DEF FilterInv, FilterTypeOK, settingVars, tickVars, Conflicts
<1>5. QED
    BY <1>1, <1>3, <1>4
       DEF FilterInv, ForcedModeHolds, ConflictLeavesNoAnchor, CropIsApplied,
           OffsetHasOneOwner, settingVars, tickVars

\* A step that only sets the settings, or lets the clock advance.
LEMMA SettingsKeep ==
    ASSUME IInv,
           \/ \E ms \in Timeouts : SetFreezeTimeout(ms)
           \/ ClockAdvances
    PROVE  /\ IInv' /\ Anchors' = Anchors /\ qpc' \in Nat /\ qpc' >= qpc
           /\ has_stream_mode' = has_stream_mode
           /\ presend_v2_mode' = presend_v2_mode
           /\ last_applied_roi' = last_applied_roi
<1>1. IInv'
  <2>1. [Next]_vars
      BY DEF Next
  <2>2. QED
      BY <2>1, NextInv
<1>2. qpc' \in Nat /\ qpc' >= qpc /\ Anchors' = Anchors
    BY DEF SetFreezeTimeout, ClockAdvances, IInv, TypeOK, Anchors, anchorVars
<1>3. QED
    BY <1>1, <1>2 DEF SetFreezeTimeout, ClockAdvances, modeVars

\* New settings keep the invariant.
LEMMA UpdateSettingsInv ==
    ASSUME FilterInv, NEW on \in BOOLEAN, NEW offset_ms \in Offsets,
           NEW stale_ms \in StaleDrops, NEW mode \in ConsumerModes,
           NEW timeout_ms \in Timeouts,
           UpdateSettings(on, offset_ms, stale_ms, mode, timeout_ms)
    PROVE  FilterInv'
<1>1. /\ IInv' /\ Anchors' = Anchors /\ qpc' \in Nat /\ qpc' >= qpc
      /\ has_stream_mode' = has_stream_mode
      /\ presend_v2_mode' = presend_v2_mode
      /\ last_applied_roi' = last_applied_roi
    BY SettingsKeep DEF UpdateSettings, FilterInv
<1>2. /\ UNCHANGED <<clientVars, tickVars>>
      /\ enabled' = on /\ roi_apply_offset_ms' = offset_ms
      /\ stale_drop_ms' = stale_ms /\ presend_v2_consumer_mode' = mode
      /\ g_pc \in {"create", "idle"} /\ g_pc' \in {"update_reset", "update_keep"}
      /\ g_pc' = "update_keep" => mode = presend_v2_consumer_mode
    BY DEF UpdateSettings
<1>3. now_qpc' \in 0..qpc'
    BY <1>1, <1>2 DEF FilterInv, FilterTypeOK, IInv, TypeOK, tickVars
<1>4. FilterTypeOK'
  <2>1. current' = NoMessage /\ g_pc' # "push"
      BY <1>2 DEF FilterInv, FilterTypeOK, tickVars
  <2>2. QED
      BY <1>2, <1>3, <2>1 DEF FilterInv, FilterTypeOK, clientVars, tickVars
<1>5. ForcedModeHolds'
    BY <1>1, <1>2 DEF FilterInv, ForcedModeHolds
<1>6. QED
    BY <1>1, <1>2, <1>4, <1>5
       DEF FilterInv, ConflictLeavesNoAnchor, CropIsApplied, OffsetHasOneOwner,
           tickVars

\* A reset that keeps the picture leaves no anchor and no mode.
LEMMA ResetKeeps ==
    ASSUME IInv, Reset(TRUE)
    PROVE  /\ IInv' /\ Anchors' = {} /\ qpc' = qpc /\ has_stream_mode' = FALSE
           /\ last_applied_roi' = last_applied_roi
<1>1. IInv'
    BY ResetInv
<1>2. QED
    BY <1>1 DEF Reset, Anchors

\* The end of an update keeps the invariant.
LEMMA UpdateClientInv ==
    ASSUME FilterInv, UpdateClient
    PROVE  FilterInv'
<1>1. /\ queue' = <<>> /\ newest' = NoMessage /\ running' \in BOOLEAN
      /\ g_pc' = "idle" /\ g_pc # "push"
      /\ UNCHANGED <<settingVars, conflict_active, unflagged, now_qpc, current>>
    BY DEF UpdateClient, UpdateReset, FilterInv, FilterTypeOK
<1>2. /\ IInv' /\ qpc' = qpc /\ last_applied_roi' = last_applied_roi
      /\ Anchors' \subseteq Anchors
      /\ last_sample' \in {last_sample, NoRoi}
      /\ \/ has_stream_mode' = FALSE
         \/ /\ has_stream_mode' = has_stream_mode
            /\ presend_v2_mode' = presend_v2_mode /\ g_pc # "update_reset"
    BY ResetKeeps, NoCallKeeps DEF UpdateClient, UpdateReset, FilterInv
<1>3. FilterTypeOK'
  <2>1. queue' \in Seq(Messages) /\ Len(queue') <= QueueCap
      BY <1>1, FilterAssumption
  <2>2. current' = NoMessage
      BY <1>1 DEF FilterInv, FilterTypeOK
  <2>3. QED
      BY <1>1, <1>2, <2>1, <2>2 DEF FilterInv, FilterTypeOK, settingVars
<1>4. ForcedModeHolds'
  <2>1. presend_v2_consumer_mode' = presend_v2_consumer_mode
      BY <1>1 DEF settingVars
  <2>2. CASE has_stream_mode' = FALSE
      BY <2>2 DEF ForcedModeHolds
  <2>3. CASE /\ has_stream_mode' = has_stream_mode
             /\ presend_v2_mode' = presend_v2_mode /\ g_pc # "update_reset"
      BY <2>1, <2>3 DEF FilterInv, ForcedModeHolds
  <2>4. QED
      BY <1>2, <2>2, <2>3
<1>5. QED
    BY <1>1, <1>2, <1>3, <1>4
       DEF FilterInv, ConflictLeavesNoAnchor, CropIsApplied, OffsetHasOneOwner

\* The start of a tick keeps the invariant.
LEMMA TickStartInv ==
    ASSUME FilterInv, TickStart
    PROVE  FilterInv'
<1>1. /\ IInv' /\ Anchors' = Anchors /\ qpc' = qpc
      /\ has_stream_mode' = has_stream_mode
      /\ presend_v2_mode' = presend_v2_mode
      /\ last_applied_roi' = last_applied_roi
    BY NoCallKeeps DEF TickStart, FilterInv
<1>2. /\ g_pc = "idle" /\ g_pc' = "drain" /\ now_qpc' \in {qpc, 0}
      /\ conflict_active' = (conflict_active /\ roi_apply_offset_ms # 0)
      /\ unflagged' = (unflagged /\ conflict_active')
      /\ UNCHANGED <<clientVars, settingVars, last_sample, current>>
    BY DEF TickStart
<1>3. conflict_active' \in BOOLEAN /\ unflagged' \in BOOLEAN
    BY <1>2
<1>4. now_qpc' \in 0..qpc'
    BY <1>1, <1>2 DEF FilterInv, IInv, TypeOK
<1>5. FilterTypeOK'
    BY <1>2, <1>3, <1>4 DEF FilterInv, FilterTypeOK, clientVars, settingVars
<1>6. ConflictLeavesNoAnchor'
    BY <1>1, <1>2
       DEF FilterInv, FilterTypeOK, ConflictLeavesNoAnchor, settingVars
<1>7. QED
    BY <1>1, <1>2, <1>5, <1>6
       DEF FilterInv, ForcedModeHolds, CropIsApplied, OffsetHasOneOwner, settingVars

\* The reset at the beginning of a conflict keeps the invariant.
LEMMA BeginConflictInv ==
    ASSUME FilterInv, BeginConflict
    PROVE  FilterInv'
<1>1. /\ IInv' /\ Anchors' = {} /\ qpc' = qpc /\ has_stream_mode' = FALSE
      /\ last_applied_roi' = last_applied_roi
    BY ResetKeeps DEF BeginConflict, FilterInv
<1>2. /\ g_pc = "drain" /\ g_pc' = "push" /\ queue # <<>>
      /\ Conflicts(Head(queue))
      /\ conflict_active' = TRUE /\ unflagged' = FALSE
      /\ current' = Head(queue) /\ queue' = Tail(queue)
      /\ UNCHANGED <<newest, running, settingVars, last_sample, now_qpc>>
    BY DEF BeginConflict, NeedsReset
<1>3. /\ current' \in Messages /\ queue' \in Seq(Messages)
      /\ Len(queue') <= QueueCap
    BY <1>2, QueueMoves DEF FilterInv
<1>4. Conflicts(current)' /\ roi_apply_offset_ms' # 0
    BY <1>2 DEF Conflicts, settingVars
<1>5. FilterTypeOK'
    BY <1>1, <1>2, <1>3, <1>4 DEF FilterInv, FilterTypeOK, settingVars
<1>6. QED
    BY <1>1, <1>2, <1>4, <1>5
       DEF FilterInv, ForcedModeHolds, ConflictLeavesNoAnchor, CropIsApplied,
           OffsetHasOneOwner

\* The frame of a conflict brings in nothing.
LEMMA PushConflictInv ==
    ASSUME FilterInv, PushConflict
    PROVE  FilterInv'
<1>1. PICK m \in Messages : m = current /\ Conflicts(m)
    BY DEF PushConflict, FilterInv, FilterTypeOK
<1>2. PICK q \in Nat : q = now_qpc
    BY DEF FilterInv, FilterTypeOK, IInv, TypeOK
<1>3. /\ g_pc = "push" /\ g_pc' = "drain" /\ current' = NoMessage
      /\ PushFrame(ForInterpolator(m), q)
      /\ UNCHANGED <<clientVars, settingVars, conflict_active, unflagged,
                     last_sample, now_qpc>>
    BY <1>1, <1>2 DEF PushConflict
<1>4. /\ IInv' /\ qpc' = qpc /\ last_applied_roi' = last_applied_roi
      /\ presend_v2_consumer_mode = "force_legacy" => ~presend_v2_mode'
      /\ presend_v2_consumer_mode = "force_buffered" => presend_v2_mode'
      /\ \A a \in Anchors' : Justified(a)
      /\ Anchors' \subseteq Anchors
    BY <1>1, <1>3, PushKeeps
<1>5. FilterTypeOK'
    BY <1>3, <1>4 DEF FilterInv, FilterTypeOK, clientVars, settingVars
<1>6. QED
    BY <1>3, <1>4, <1>5
       DEF FilterInv, ForcedModeHolds, ConflictLeavesNoAnchor, CropIsApplied,
           OffsetHasOneOwner, settingVars

\* Any other frame keeps the invariant: while the conflict lasts it either
\* conflicts too, and brings in nothing, or it ends the silence.
LEMMA ConsumeFrameInv ==
    ASSUME FilterInv, ConsumeFrame
    PROVE  FilterInv'
<1>1. PICK m \in Messages : m = Head(queue) /\ queue # <<>>
    BY QueueMoves DEF ConsumeFrame, FilterInv
<1>2. PICK q \in Nat : q = now_qpc
    BY DEF FilterInv, FilterTypeOK, IInv, TypeOK
<1>3. /\ g_pc = "drain" /\ g_pc' = g_pc /\ queue' = Tail(queue)
      /\ PushFrame(ForInterpolator(m), q)
      /\ unflagged' = (conflict_active /\ (unflagged \/ ~m.effective))
      /\ UNCHANGED <<newest, running, settingVars, conflict_active, last_sample,
                     now_qpc, current>>
    BY <1>1, <1>2 DEF ConsumeFrame
<1>4. /\ IInv' /\ qpc' = qpc /\ last_applied_roi' = last_applied_roi
      /\ presend_v2_consumer_mode = "force_legacy" => ~presend_v2_mode'
      /\ presend_v2_consumer_mode = "force_buffered" => presend_v2_mode'
      /\ \A a \in Anchors' : Justified(a)
      /\ Conflicts(m) => Anchors' \subseteq Anchors
    BY <1>3, PushKeeps
<1>5. queue' \in Seq(Messages) /\ Len(queue') <= QueueCap
    BY <1>1, <1>3, QueueMoves DEF FilterInv
<1>6. FilterTypeOK'
  <2>1. unflagged' \in BOOLEAN
      BY <1>3
  <2>2. g_pc' # "push" /\ current' = NoMessage
      BY <1>3 DEF FilterInv, FilterTypeOK
  <2>3. QED
      BY <1>3, <1>4, <1>5, <2>1, <2>2 DEF FilterInv, FilterTypeOK, settingVars
<1>7. ConflictLeavesNoAnchor'
  <2>1. conflict_active => roi_apply_offset_ms # 0
      BY <1>3 DEF FilterInv, ConflictLeavesNoAnchor
  <2>2. ASSUME conflict_active', ~unflagged' PROVE Anchors' = {}
    <3>1. conflict_active /\ ~unflagged /\ m.effective
        BY <1>3, <2>2
    <3>2. Conflicts(m) /\ Anchors = {}
        BY <2>1, <3>1 DEF Conflicts, FilterInv, ConflictLeavesNoAnchor
    <3>3. QED
        BY <1>4, <3>2
  <2>3. QED
      BY <1>3, <2>1, <2>2 DEF ConflictLeavesNoAnchor, settingVars
<1>8. QED
    BY <1>3, <1>4, <1>6, <1>7
       DEF FilterInv, ForcedModeHolds, CropIsApplied, OffsetHasOneOwner,
           settingVars

\* A stale frame is taken from the queue and changes nothing else.
LEMMA DropStaleInv ==
    ASSUME FilterInv, DropStale
    PROVE  FilterInv'
<1>1. /\ IInv' /\ Anchors' = Anchors /\ qpc' = qpc
      /\ has_stream_mode' = has_stream_mode
      /\ presend_v2_mode' = presend_v2_mode
      /\ last_applied_roi' = last_applied_roi
    BY NoCallKeeps DEF DropStale, FilterInv
<1>2. /\ UNCHANGED <<newest, running, settingVars, tickVars, g_pc>>
      /\ g_pc = "drain" /\ queue' \in Seq(Messages) /\ Len(queue') <= QueueCap
    BY QueueMoves DEF DropStale, FilterInv
<1>3. FilterTypeOK'
    BY <1>1, <1>2 DEF FilterInv, FilterTypeOK, settingVars, tickVars
<1>4. QED
    BY <1>1, <1>2, <1>3
       DEF FilterInv, ForcedModeHolds, ConflictLeavesNoAnchor, CropIsApplied,
           OffsetHasOneOwner, settingVars, tickVars

\* The end of a tick keeps the invariant: the sample it keeps is what is applied.
LEMMA TickSampleInv ==
    ASSUME FilterInv, TickSample
    PROVE  FilterInv'
<1>1. PICK q \in Nat : q = now_qpc
    BY DEF FilterInv, FilterTypeOK, IInv, TypeOK
<1>2. /\ g_pc = "drain" /\ g_pc' = "idle" /\ now_qpc' = 0
      /\ last_sample' = IF ret'.roi # NoRoi THEN ret'.roi ELSE last_sample
      /\ UNCHANGED <<clientVars, settingVars, conflict_active, unflagged, current>>
    BY DEF TickSample
<1>3. /\ IInv' /\ qpc' = qpc /\ Anchors' \subseteq Anchors
      /\ has_stream_mode' = has_stream_mode
      /\ presend_v2_mode' = presend_v2_mode
      /\ \/ last_applied_roi' \in Nat /\ ret'.roi = last_applied_roi'
         \/ ~HasLast /\ last_applied_roi' = last_applied_roi /\ ret'.roi = NoRoi
         \/ last_applied_roi' = last_applied_roi /\ ret'.roi = NoRoi
  <2>1. CASE Sample(q)
    <3>1. IInv' /\ GoodOutput /\ Anchors' \subseteq Anchors
        BY <2>1, SampleInv, SampleGood, SampleAnchors DEF FilterInv
    <3>2. UNCHANGED <<qpc, has_stream_mode, presend_v2_mode>>
        BY <2>1 DEF Sample, modeVars
    <3>3. QED
        BY <3>1, <3>2 DEF GoodOutput
  <2>2. CASE NoCall
      BY <2>2, NoCallKeeps DEF FilterInv
  <2>3. QED
      BY <1>1, <2>1, <2>2 DEF TickSample
<1>4. /\ last_sample' \in Nat \cup {NoRoi}
      /\ last_sample' # NoRoi => last_sample' = last_applied_roi'
    BY <1>2, <1>3
       DEF FilterInv, FilterTypeOK, CropIsApplied, HasLast, NoRoi
<1>5. FilterTypeOK'
  <2>1. now_qpc' \in 0..qpc' /\ current' = NoMessage
      BY <1>2, <1>3 DEF FilterInv, FilterTypeOK, IInv, TypeOK
  <2>2. QED
      BY <1>2, <1>4, <2>1 DEF FilterInv, FilterTypeOK, clientVars, settingVars
<1>6. QED
    BY <1>2, <1>3, <1>4, <1>5
       DEF FilterInv, ForcedModeHolds, ConflictLeavesNoAnchor, CropIsApplied,
           OffsetHasOneOwner, settingVars

\* Time passes, and nothing else.
LEMMA ClockInv ==
    ASSUME FilterInv, Clock
    PROVE  FilterInv'
<1>1. /\ IInv' /\ Anchors' = Anchors /\ qpc' \in Nat /\ qpc' >= qpc
      /\ has_stream_mode' = has_stream_mode
      /\ presend_v2_mode' = presend_v2_mode
      /\ last_applied_roi' = last_applied_roi
    BY SettingsKeep DEF Clock, FilterInv
<1>2. UNCHANGED <<clientVars, settingVars, tickVars, g_pc>>
    BY DEF Clock
<1>3. now_qpc' \in 0..qpc'
    BY <1>1, <1>2 DEF FilterInv, FilterTypeOK, IInv, TypeOK, tickVars
<1>4. FilterTypeOK'
    BY <1>2, <1>3
       DEF FilterInv, FilterTypeOK, clientVars, settingVars, tickVars, Conflicts
<1>5. QED
    BY <1>1, <1>2, <1>4
       DEF FilterInv, ForcedModeHolds, ConflictLeavesNoAnchor, CropIsApplied,
           OffsetHasOneOwner, settingVars, tickVars

\* Every step of the composition keeps the invariant.
LEMMA FilterInvStep == FilterInv /\ [FilterNext]_filterVars => FilterInv'
<1> SUFFICES ASSUME FilterInv, [FilterNext]_filterVars PROVE FilterInv'
    OBVIOUS
<1>1. CASE \E m \in Messages : Deliver(m)
    BY <1>1, DeliverInv
<1>2. CASE \E on \in BOOLEAN, offset_ms \in Offsets, stale_ms \in StaleDrops,
              mode \in ConsumerModes, timeout_ms \in Timeouts :
                UpdateSettings(on, offset_ms, stale_ms, mode, timeout_ms)
    BY <1>2, UpdateSettingsInv
<1>3. CASE UpdateClient
    BY <1>3, UpdateClientInv
<1>4. CASE Tick
    BY <1>4, TickStartInv, BeginConflictInv, PushConflictInv, ConsumeFrameInv,
       DropStaleInv, TickSampleInv DEF Tick
<1>5. CASE Clock
    BY <1>5, ClockInv
<1>6. CASE UNCHANGED filterVars
  <2>1. UNCHANGED vars /\ UNCHANGED <<clientVars, settingVars, tickVars, g_pc>>
      BY <1>6 DEF filterVars
  <2>2. IInv' /\ Anchors' = Anchors
      BY <2>1, NextInv DEF FilterInv, vars, Anchors, anchorVars
  <2>3. /\ qpc' = qpc /\ has_stream_mode' = has_stream_mode
        /\ presend_v2_mode' = presend_v2_mode
        /\ last_applied_roi' = last_applied_roi
      BY <2>1 DEF vars, modeVars
  <2>4. FilterTypeOK'
      BY <2>1, <2>3
         DEF FilterInv, FilterTypeOK, clientVars, settingVars, tickVars, Conflicts
  <2>5. QED
      BY <2>1, <2>2, <2>3, <2>4
         DEF FilterInv, ForcedModeHolds, ConflictLeavesNoAnchor, CropIsApplied,
             OffsetHasOneOwner, settingVars, tickVars
<1>7. QED
    BY <1>1, <1>2, <1>3, <1>4, <1>5, <1>6 DEF FilterNext

-----------------------------------------------------------------------------
(* The theorems *)

\* The conjunction of the filter's and the interpolator's invariants is
\* inductive for the composition.
THEOREM FilterInvariant == FilterSpec => []FilterInv
BY FilterInvInit, FilterInvStep, PTL DEF FilterSpec

\* Every variable of the filter keeps its type, and the queue its capacity.
THEOREM FilterTypeCorrect == FilterSpec => []FilterTypeOK
<1>1. FilterInv => FilterTypeOK
    BY DEF FilterInv
<1>2. QED
    BY <1>1, FilterInvariant, PTL

\* A forced consumer mode rules the interpolator (ForcedModeHolds).
THEOREM ForcedModeCorrect == FilterSpec => []ForcedModeHolds
<1>1. FilterInv => ForcedModeHolds
    BY DEF FilterInv
<1>2. QED
    BY <1>1, FilterInvariant, PTL

\* What is rendered is what the interpolator takes for applied (CropIsApplied).
THEOREM CropCorrect == FilterSpec => []CropIsApplied
<1>1. FilterInv => CropIsApplied
    BY DEF FilterInv
<1>2. QED
    BY <1>1, FilterInvariant, PTL

\* No effective time is shifted, and no time twice (OffsetHasOneOwner).
THEOREM OffsetCorrect == FilterSpec => []OffsetHasOneOwner
<1>1. FilterInv => OffsetHasOneOwner
    BY DEF FilterInv
<1>2. QED
    BY <1>1, FilterInvariant, PTL

\* A sample that has no anchor to show leaves the picture as it is.
LEMMA SampleWithoutAnchors ==
    ASSUME IInv, NEW q \in Nat, Sample(q), Anchors = {}, HasLast
    PROVE  last_applied_roi' = last_applied_roi
<1>1. prev_anchor = NoAnchor /\ next_anchor = NoAnchor
    BY DEF Anchors
<1>2. anchor_buffer \in Seq(Anchor) /\ Len(anchor_buffer) = 0 /\ q \in Int
  <2>1. anchor_buffer \in Seq(Anchor) /\ q \in Int
      BY DEF IInv, TypeOK
  <2>2. 1 \notin 1..Len(anchor_buffer)
      BY DEF Anchors
  <2>3. QED
      BY <2>1, <2>2
<1>3. DueCount(anchor_buffer, q) = 0
  <2>1. DueCount(anchor_buffer, q) \in 0..Len(anchor_buffer)
      BY ONLY <1>2, DueCountFacts
  <2>2. QED
      BY ONLY <2>1, <1>2
<1>4. CASE SampleFrozen(q)
    BY <1>4 DEF SampleFrozen, Publish, NoOutput
<1>5. CASE SampleLegacy(q)
    BY <1>1, <1>5 DEF SampleLegacy, PublishWarmup, Publish, NoOutput
<1>6. CASE SamplePresend(q)
    BY <1>3, <1>6 DEF SamplePresend, PublishWarmup, Publish, NoOutput
<1>7. QED
    BY <1>4, <1>5, <1>6 DEF Sample

\* While an offset conflicts with the producer's flag the picture stands still
\* (ConflictFreezesPicture).
THEOREM FreezeCorrect == FilterSpec => ConflictFreezesPicture
<1> DEFINE Frozen == conflict_active /\ ~unflagged /\ HasLast =>
                        last_applied_roi' = last_applied_roi
<1>1. FilterInv /\ [FilterNext]_filterVars => [Frozen]_filterVars
  <2> SUFFICES ASSUME FilterInv, FilterNext, conflict_active, ~unflagged, HasLast
               PROVE  last_applied_roi' = last_applied_roi
      OBVIOUS
  <2>1. Anchors = {} /\ IInv
      BY DEF FilterInv, ConflictLeavesNoAnchor
  <2>2. CASE TickSample
    <3>1. PICK q \in Nat : q = now_qpc
        BY DEF FilterInv, FilterTypeOK, IInv, TypeOK
    <3>2. QED
        BY <2>1, <2>2, <3>1, SampleWithoutAnchors DEF TickSample, NoCall
  <2>3. CASE ~TickSample
      BY <2>3 DEF FilterNext, Tick, Deliver, UpdateSettings, UpdateClient,
         UpdateReset, TickStart, BeginConflict, PushConflict, ConsumeFrame,
         DropStale, Clock, NoCall, PushFrame, Reset, SetFreezeTimeout, ClockAdvances
  <2>4. QED
      BY <2>2, <2>3
<1>2. QED
    BY <1>1, FilterInvariant, PTL DEF FilterSpec, ConflictFreezesPicture

\* Driven by the filter, whatever the order of ticks, deliveries and settings, the
\* interpolator still implements its policy (ImplementsPolicy).
THEOREM FilterKeepsPolicy == FilterSpec => ImplementsPolicy
<1>1. FilterInit => Policy!Init
    BY DEF FilterInit, Init, Policy!Init, Phase, Policy!NoRoi, NoRoi
<1>2. FilterInv /\ [FilterNext]_filterVars => [Policy!Next]_(Policy!vars)
  <2> SUFFICES ASSUME FilterInv, [FilterNext]_filterVars
               PROVE  [Policy!Next]_(Policy!vars)
      OBVIOUS
  <2>1. FilterTypeOK /\ IInv /\ now_qpc \in Nat
      BY DEF FilterInv, FilterTypeOK, IInv, TypeOK
  <2>2. ASSUME NEW m \in Messages, PushFrame(ForInterpolator(m), now_qpc)
        PROVE  [Policy!Next]_(Policy!vars)
    <3>1. ForInterpolator(m) \in FrameType
        BY <2>1, ForInterpolatorFacts
    <3>2. QED
        BY <2>1, <2>2, <3>1, PushFrameRefines
  <2>3. ASSUME UNCHANGED <<stream, mode_mismatch_active, warmup_active,
                           last_applied_roi>>
        PROVE  [Policy!Next]_(Policy!vars)
      BY <2>3 DEF Policy!vars, Phase
  <2>4. CASE NoCall
      BY <2>3, <2>4 DEF NoCall, streamVars, modeVars, warmupVars
  <2>5. CASE Reset(TRUE)
      BY <2>5 DEF Reset, Phase, Policy!Next, Policy!Release, Policy!NoRoi, NoRoi
  <2>6. CASE \E ms \in Timeouts : SetFreezeTimeout(ms)
      BY <2>3, <2>6 DEF SetFreezeTimeout, streamVars, modeVars, warmupVars
  <2>7. CASE PushConflict
    <3>1. current \in Messages
        BY <2>1, <2>7 DEF PushConflict, FilterTypeOK
    <3>2. QED
        BY <2>2, <2>7, <3>1 DEF PushConflict
  <2>8. CASE ConsumeFrame
    <3>1. queue \in Seq(Messages) /\ queue # <<>>
        BY <2>1, <2>8 DEF ConsumeFrame, FilterTypeOK
    <3>2. Head(queue) \in Messages
        BY <3>1
    <3>3. QED
        BY <2>2, <2>8, <3>2 DEF ConsumeFrame
  <2>9. CASE TickSample
      BY <2>1, <2>4, <2>9, SampleRefines DEF TickSample
  <2>10. CASE Clock
      BY <2>3, <2>10 DEF Clock, ClockAdvances, streamVars, modeVars, warmupVars
  <2>11. CASE UNCHANGED filterVars
      BY <2>3, <2>11 DEF filterVars, vars, streamVars, modeVars, warmupVars
  <2>12. QED
      BY <2>4, <2>5, <2>6, <2>7, <2>8, <2>9, <2>10, <2>11
         DEF FilterNext, Tick, Deliver, UpdateSettings, UpdateClient, UpdateReset,
             TickStart, BeginConflict, DropStale
<1>3. QED
    BY <1>1, <1>2, FilterInvariant, PTL DEF FilterSpec, ImplementsPolicy, Policy!Spec

-----------------------------------------------------------------------------
(* The filter's queue *)

\* A message is delivered as EpochQueue delivers it.
LEMMA DeliverDelivers ==
    ASSUME FilterTypeOK, NEW m \in Messages, Deliver(m)
    PROVE  Waiting!Deliver(m)
<1>1. /\ m \in MessageType /\ NoMessage \notin MessageType
      /\ newest # NoMessage => newest \in MessageType
    BY FilterAssumption DEF FilterTypeOK
<1>2. /\ Len(queue) \in Nat /\ QueueCap \in Nat
    BY FilterAssumption DEF FilterTypeOK
<1>3. Len(queue) >= QueueCap <=> ~(Len(queue) < QueueCap)
    BY <1>2
<1>4. ~Waiting!Repeats(m)
    BY <1>1 DEF Waiting!Repeats, Deliver
<1>5. Waiting!EntersEpoch(m) <=>
        /\ newest # NoMessage
        /\ EpochOf[m.frame.stream] # EpochOf[newest.frame.stream]
    BY <1>1 DEF Waiting!EntersEpoch
<1>6. QED
    BY <1>3, <1>4, <1>5 DEF Waiting!Deliver, Deliver

\* The queue that the filter drains is the queue that the client's ring
\* implements (EpochQueueImplemented), with a capacity that does not change:
\* frames enter, leave and are flushed in no other way.
THEOREM FilterKeepsQueue == FilterSpec => KeepsEpochQueue
<1>1. FilterInit => Waiting!Init
    BY DEF FilterInit, Waiting!Init
<1>2. FilterInv /\ [FilterNext]_filterVars => [Waiting!Next]_(Waiting!vars)
  <2> SUFFICES ASSUME FilterInv, [FilterNext]_filterVars
               PROVE  [Waiting!Next]_(Waiting!vars)
      OBVIOUS
  <2>1. CASE \E m \in Messages : Deliver(m)
      BY <2>1, DeliverDelivers DEF Waiting!Next, FilterInv
  <2>2. ASSUME UNCHANGED <<queue, newest>>
        PROVE  [Waiting!Next]_(Waiting!vars)
      BY <2>2 DEF Waiting!vars
  <2>3. ASSUME queue # <<>>, queue' = Tail(queue), newest' = newest
        PROVE  [Waiting!Next]_(Waiting!vars)
      BY <2>3 DEF Waiting!Next, Waiting!Take
  <2>4. CASE UpdateClient
      BY <2>4 DEF UpdateClient, Waiting!Next, Waiting!Empty
  <2>5. CASE BeginConflict \/ ConsumeFrame \/ DropStale
      BY <2>3, <2>5 DEF BeginConflict, ConsumeFrame, DropStale
  <2>6. CASE PushConflict \/ TickStart \/ TickSample \/ Clock
      BY <2>2, <2>6 DEF PushConflict, TickStart, TickSample, Clock, clientVars
  <2>7. CASE \E on \in BOOLEAN, offset_ms \in Offsets, stale_ms \in StaleDrops,
                mode \in ConsumerModes, timeout_ms \in Timeouts :
                    UpdateSettings(on, offset_ms, stale_ms, mode, timeout_ms)
      BY <2>2, <2>7 DEF UpdateSettings, clientVars
  <2>8. CASE UNCHANGED filterVars
      BY <2>2, <2>8 DEF filterVars, clientVars
  <2>9. QED
      BY <2>1, <2>4, <2>5, <2>6, <2>7, <2>8 DEF FilterNext, Tick
<1>3. QED
    BY <1>1, <1>2, FilterInvariant, PTL
       DEF FilterSpec, KeepsEpochQueue, Waiting!Spec
=============================================================================
