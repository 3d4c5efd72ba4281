------------------------ MODULE RoiInterpolatorProofs ------------------------
(***************************************************************************)
(* Proofs about RoiInterpolator, for every set of streams and frames, every*)
(* timeout and warm-up setting and every capacity of the anchor buffer.    *)
(***************************************************************************)
EXTENDS RoiInterpolator, SetInduction, SequenceTheorems, TLAPS

-----------------------------------------------------------------------------
(* Lemmas about the interpolation formula *)

\* Integer division by a positive number is between 0 and x when the dividend
\* is between 0 and x times the divisor.
LEMMA DivBetween ==
    ASSUME NEW p \in Int, NEW d \in Nat \ {0}, NEW x \in Nat,
           0 <= p, p <= x * d
    PROVE  p \div d \in Int /\ 0 <= p \div d /\ p \div d <= x
<1> DEFINE k == p \div d
<1>1. k \in Int /\ d * k <= p /\ p < d * k + d
    OBVIOUS
<1> HIDE DEF k
<1>2. k >= 0
  <2>1. SUFFICES ASSUME k + 1 <= 0 PROVE FALSE
      BY <1>1
  <2>2. d * (k + 1) <= 0
      BY <2>1, <1>1
  <2>3. QED
      BY <2>2, <1>1
<1>3. k <= x
  <2>1. SUFFICES ASSUME x + 1 <= k PROVE FALSE
      BY <1>1
  <2>2. d * (x + 1) <= d * k
      BY <2>1, <1>1
  <2>3. QED
      BY <2>2, <1>1
<1>4. QED
    BY <1>1, <1>2, <1>3 DEF k

\* The same for a dividend between -x times the divisor and 0.
LEMMA DivBetweenNegative ==
    ASSUME NEW p \in Int, NEW d \in Nat \ {0}, NEW x \in Nat,
           p <= 0, -(x * d) <= p
    PROVE  p \div d \in Int /\ -x <= p \div d /\ p \div d <= 0
<1> DEFINE k == p \div d
<1>1. k \in Int /\ d * k <= p /\ p < d * k + d
    OBVIOUS
<1> HIDE DEF k
<1>2. k <= 0
  <2>1. SUFFICES ASSUME 1 <= k PROVE FALSE
      BY <1>1
  <2>2. d * 1 <= d * k
      BY <2>1, <1>1
  <2>3. QED
      BY <2>2, <1>1
<1>3. -x <= k
  <2>1. SUFFICES ASSUME k + 1 <= -x PROVE FALSE
      BY <1>1
  <2>2. d * (k + 1) <= d * (-x)
      BY <2>1, <1>1
  <2>3. QED
      BY <2>2, <1>1
<1>4. QED
    BY <1>1, <1>2, <1>3 DEF k

\* A blend is a ROI and lies between the ROIs it blends
\* (roi_interpolator_lerp_between_anchors).
LEMMA LerpBetween ==
    ASSUME NEW left \in Anchor, NEW right \in Anchor, NEW q \in Int
    PROVE  /\ Lerp(left, right, q) \in Nat
           /\ \/ left.roi <= Lerp(left, right, q) /\ Lerp(left, right, q) <= right.roi
              \/ right.roi <= Lerp(left, right, q) /\ Lerp(left, right, q) <= left.roi
<1>1. /\ left.roi \in Nat /\ right.roi \in Nat
      /\ left.t_qpc \in Int /\ right.t_qpc \in Int
    BY DEF Anchor
<1>2. CASE \/ right.t_qpc <= left.t_qpc \/ q <= left.t_qpc
           \/ q >= right.t_qpc
    BY <1>1, <1>2 DEF Lerp
<1>3. CASE left.t_qpc < q /\ q < right.t_qpc
  <2> DEFINE d == right.t_qpc - left.t_qpc
             e == q - left.t_qpc
             p == (right.roi - left.roi) * e
             k == p \div d
  <2>1. d \in Nat \ {0} /\ e \in Nat /\ e <= d /\ p \in Int
      BY <1>1, <1>3
  <2>2. Lerp(left, right, q) = left.roi + k
      BY <1>1, <1>3 DEF Lerp
  <2>3. CASE left.roi <= right.roi
    <3> DEFINE x == right.roi - left.roi
    <3>1. x \in Nat
        BY <1>1, <2>3
    <3>2. p = x * e
        OBVIOUS
    <3> HIDE DEF d, e, p, x
    <3>3. 0 <= p /\ p <= x * d
        BY <3>1, <3>2, <2>1
    <3>4. k \in Int /\ 0 <= k /\ k <= x
        BY <3>1, <3>3, <2>1, DivBetween
    <3> HIDE DEF k
    <3>5. QED
        BY <3>4, <2>2, <1>1 DEF x
  <2>4. CASE right.roi < left.roi
    <3> DEFINE x == left.roi - right.roi
    <3>1. x \in Nat
        BY <1>1, <2>4
    <3>2. p = -(x * e)
        BY <1>1, <2>1
    <3> HIDE DEF d, e, p, x
    <3>3. p <= 0 /\ -(x * d) <= p
        BY <3>1, <3>2, <2>1
    <3>4. k \in Int /\ -x <= k /\ k <= 0
        BY <3>1, <3>3, <2>1, DivBetweenNegative
    <3> HIDE DEF k
    <3>5. QED
        BY <3>4, <2>2, <1>1 DEF x
  <2>5. QED
      BY <2>3, <2>4, <1>1
<1>4. QED
    BY <1>1, <1>2, <1>3

-----------------------------------------------------------------------------
(* Lemmas about the anchor buffer *)

\* The fields of an anchor have their types.
LEMMA AnchorFields ==
    \A x \in Anchor : x.t_qpc \in Int /\ x.roi \in Nat /\ x.from \in Streams
BY DEF Anchor

\* push_anchor_buffered leaves a non-empty, ascending buffer within its array,
\* and brings in no anchor of another stream.
LEMMA BufferPushFacts ==
    ASSUME NEW b \in Seq(Anchor), NEW x \in Anchor,
           Ascending(b), AllFrom(b, x.from), Len(b) <= AnchorCap
    PROVE  /\ BufferPush(b, x) \in Seq(Anchor)
           /\ BufferPush(b, x) # <<>>
           /\ Len(BufferPush(b, x)) <= AnchorCap
           /\ Ascending(BufferPush(b, x))
           /\ AllFrom(BufferPush(b, x), x.from)
<1> DEFINE n == Len(b)
<1>1. AnchorCap \in Nat \ {0} /\ n \in Nat /\ (b # <<>> => n > 0)
    BY ConstantsAssumption, EmptySeq
<1>2. \A i \in 1..n : b[i] \in Anchor /\ b[i].t_qpc \in Int
    BY ElementOfSeq, AnchorFields
<1>3. x.t_qpc \in Int
    BY AnchorFields
<1>4. CASE b = <<>> \/ (b # <<>> /\ x.t_qpc < b[n].t_qpc)
  <2>1. BufferPush(b, x) = <<x>>
      BY <1>4 DEF BufferPush
  <2>2. QED
      BY <2>1, <1>1 DEF Ascending, AllFrom
<1>5. CASE b # <<>> /\ x.t_qpc = b[n].t_qpc
  <2> DEFINE r == [b EXCEPT ![n] = x]
  <2>1. BufferPush(b, x) = r
      BY <1>5, <1>1, <1>2, <1>3 DEF BufferPush
  <2>2. /\ r \in Seq(Anchor) /\ Len(r) = n
        /\ \A j \in 1..n : r[j] = IF j = n THEN x ELSE b[j]
      BY <1>1, <1>5, ExceptSeq
  <2> HIDE DEF r
  <2>3. Ascending(r)
      BY <2>2, <1>1, <1>5 DEF Ascending
  <2>4. AllFrom(r, x.from)
      BY <2>2 DEF AllFrom
  <2>5. r # <<>>
      BY <2>2, <1>5, <1>1
  <2>6. QED
      BY <2>1, <2>2, <2>3, <2>4, <2>5
<1>6. CASE b # <<>> /\ x.t_qpc > b[n].t_qpc
  <2>1. \A i \in 1..n : b[i].t_qpc < x.t_qpc
      BY <1>1, <1>2, <1>3, <1>6 DEF Ascending
  <2>2. CASE n < AnchorCap
    <3> DEFINE r == Append(b, x)
    <3>1. BufferPush(b, x) = r
        BY <2>2, <1>6, <1>1, <1>2, <1>3 DEF BufferPush
    <3>2. /\ r \in Seq(Anchor) /\ r # <<>> /\ Len(r) = n + 1
          /\ \A i \in 1..n : r[i] = b[i]
          /\ r[n + 1] = x
        BY AppendProperties
    <3> HIDE DEF r
    <3>3. Ascending(r)
        BY <3>2, <2>1, <1>1 DEF Ascending
    <3>4. AllFrom(r, x.from)
        BY <3>2, <1>1 DEF AllFrom
    <3>5. QED
        BY <3>1, <3>2, <3>3, <3>4, <2>2, <1>1
  <2>3. CASE n >= AnchorCap
    <3> DEFINE t == Tail(b)
               r == Append(t, x)
    <3>1. BufferPush(b, x) = r
        BY <2>3, <1>6, <1>1, <1>2, <1>3 DEF BufferPush
    <3>2. /\ t \in Seq(Anchor) /\ Len(t) = n - 1
          /\ \A i \in 1..n - 1 : t[i] = b[i + 1]
        BY <1>6, HeadTailProperties
    <3> HIDE DEF t
    <3>3. /\ r \in Seq(Anchor) /\ r # <<>> /\ Len(r) = n
          /\ \A i \in 1..n - 1 : r[i] = b[i + 1]
          /\ r[n] = x
        BY <3>2, <1>1, <1>6, AppendProperties
    <3> HIDE DEF r
    <3>4. Ascending(r)
      <4> SUFFICES ASSUME NEW i \in 1..n, NEW j \in 1..n, i < j
                   PROVE  r[i].t_qpc < r[j].t_qpc
          BY <3>3 DEF Ascending
      <4>1. i \in 1..n - 1 /\ i + 1 \in 1..n /\ r[i] = b[i + 1]
          BY <3>3, <1>1
      <4>2. CASE j = n
          BY <4>1, <4>2, <3>3, <2>1
      <4>3. CASE j # n
        <5>1. j + 1 \in 1..n /\ r[j] = b[j + 1] /\ i + 1 < j + 1
            BY <4>3, <3>3, <1>1
        <5>2. QED
            BY <5>1, <4>1 DEF Ascending
      <4>4. QED
          BY <4>2, <4>3
    <3>5. AllFrom(r, x.from)
        BY <3>3, <1>1 DEF AllFrom
    <3>6. QED
        BY <3>1, <3>3, <3>4, <3>5
  <2>4. QED
      BY <2>2, <2>3, <1>1
<1>7. QED
    BY <1>1, <1>2, <1>3, <1>4, <1>5, <1>6

\* Pruning keeps order and origin, and never empties a buffer.
LEMMA PruneFacts ==
    ASSUME NEW b \in Seq(Anchor), NEW k \in 0..Len(b), NEW origin,
           Ascending(b), AllFrom(b, origin), Len(b) <= AnchorCap
    PROVE  /\ PruneTo(b, k) \in Seq(Anchor)
           /\ (b # <<>> => PruneTo(b, k) # <<>>)
           /\ Len(PruneTo(b, k)) <= AnchorCap
           /\ Ascending(PruneTo(b, k))
           /\ AllFrom(PruneTo(b, k), origin)
<1>1. CASE k = 0
    BY <1>1 DEF PruneTo
<1>2. CASE k > 0
  <2> DEFINE n == Len(b)
             r == SubSeq(b, k, n)
  <2>1. n \in Nat /\ k \in 1..n /\ AnchorCap \in Nat
      BY <1>2, ConstantsAssumption
  <2>2. \A i \in k..n : b[i] \in Anchor
      BY <2>1
  <2>3. /\ r \in Seq(Anchor) /\ Len(r) = n - k + 1
        /\ \A i \in 1..n - k + 1 : r[i] = b[k + i - 1]
      BY <2>1, <2>2, SubSeqProperties
  <2>4. PruneTo(b, k) = r
      BY <1>2 DEF PruneTo
  <2> HIDE DEF r
  <2>5. Ascending(r)
    <3> SUFFICES ASSUME NEW i \in 1..Len(r), NEW j \in 1..Len(r), i < j
                 PROVE  r[i].t_qpc < r[j].t_qpc
        BY DEF Ascending
    <3>1. k + i - 1 \in 1..n /\ k + j - 1 \in 1..n /\ k + i - 1 < k + j - 1
        BY <2>1, <2>3
    <3>2. QED
        BY <3>1, <2>3 DEF Ascending
  <2>6. AllFrom(r, origin)
    <3> SUFFICES ASSUME NEW i \in 1..Len(r)
                 PROVE  r[i].from = origin
        BY DEF AllFrom
    <3>1. k + i - 1 \in 1..n
        BY <2>1, <2>3
    <3>2. QED
        BY <3>1, <2>3 DEF AllFrom
  <2>7. r # <<>> /\ Len(r) <= AnchorCap
      BY <2>1, <2>3
  <2>8. QED
      BY <2>3, <2>4, <2>5, <2>6, <2>7
<1>3. QED
    BY <1>1, <1>2

\* The scan of the buffer always stops at a well-defined place.
LEMMA DueCountFacts ==
    ASSUME NEW b \in Seq(Anchor), NEW q \in Int
    PROVE  /\ DueCount(b, q) \in 0..Len(b)
           /\ \A i \in 1..DueCount(b, q) : b[i].t_qpc <= q
           /\ DueCount(b, q) < Len(b) => b[DueCount(b, q) + 1].t_qpc > q
<1> DEFINE n == Len(b)
           P(k) == /\ \A i \in 1..k : b[i].t_qpc <= q
                   /\ k < n => b[k + 1].t_qpc > q
<1>1. n \in Nat /\ \A i \in 1..n : b[i].t_qpc \in Int
    BY ElementOfSeq, AnchorFields
<1>2. \E k \in 0..n : P(k)
  <2>1. CASE \A i \in 1..n : b[i].t_qpc <= q
    <3>1. n \in 0..n /\ P(n)
        BY <2>1, <1>1
    <3>2. QED
        BY <3>1
  <2>2. CASE \E i \in 1..n : ~(b[i].t_qpc <= q)
    <3> DEFINE S == {i \in 1..n : ~(b[i].t_qpc <= q)}
    <3>1. S \in SUBSET Nat /\ S # {}
        BY <2>2, <1>1
    <3>2. PICK m \in S : \A k \in S : m <= k
        BY <3>1, HasSmallest
    <3>3. m \in 1..n /\ ~(b[m].t_qpc <= q)
        BY <3>2
    <3>4. \A i \in 1..m - 1 : i \in 1..n /\ b[i].t_qpc <= q
        BY <3>2, <3>3, <1>1
    <3>5. m - 1 \in 0..n /\ P(m - 1)
        BY <3>3, <3>4, <1>1
    <3>6. QED
        BY <3>5
  <2>3. QED
      BY <2>1, <2>2
<1>3. DueCount(b, q) = CHOOSE k \in 0..n : P(k)
    BY DEF DueCount
<1> HIDE DEF P
<1>4. DueCount(b, q) \in 0..n /\ P(DueCount(b, q))
    BY <1>2, <1>3
<1>5. QED
    BY <1>4 DEF P

-----------------------------------------------------------------------------
(* The inductive invariant *)

\* A return without output has the type of a return.
LEMMA ReturnedType == \A c \in Calls : Returned(c) \in Returns
BY DEF Returned, Returns, SampleModes, SampleReasons, NoRoi

\* The initial state satisfies the invariant.
LEMMA InitInv == Init => IInv
<1> SUFFICES ASSUME Init PROVE IInv
    OBVIOUS
<1>1. anchor_buffer \in Seq(Anchor) /\ Len(anchor_buffer) = 0
    BY EmptySeq DEF Init
<1>2. TypeOK
  <2>1. ret \in Returns
      BY ReturnedType DEF Init, Calls
  <2>2. freeze_timeout_ms \in Nat /\ warmup_required_valid_frames \in Nat \ {0}
      BY ConstantsAssumption DEF Init
  <2>3. /\ qpc \in Nat \ {0} /\ qpc_frequency \in Nat
        /\ warmup_valid_frame_count \in Nat /\ last_input_receive_qpc \in Nat
      BY DEF Init
  <2>4. QED
      BY <1>1, <2>1, <2>2, <2>3, Zenon DEF Init, TypeOK
<1>3. QED
    BY <1>1, <1>2, ConstantsAssumption
       DEF Init, IInv, AnchorsMatchMode, AnchorsOrdered, AnchorsOfStream,
           MismatchStaysEmpty, LiveHasAnchor, IdleIsClean, Ascending, AllFrom

\* What a frame does to the stream's identity and mode, whatever its outcome.
LEMMA IdentifyFacts ==
    ASSUME IInv, NEW f \in FrameType, NEW q \in Nat, Identify(f, q)
    PROVE  /\ f \in FrameType /\ stream' = f.stream /\ stream' \in Streams
           /\ stream' # NoStream
           /\ qpc_frequency' \in Nat /\ last_input_receive_qpc' \in Nat
           /\ has_stream_mode' = TRUE /\ frame_stream_mode' \in BOOLEAN
           /\ presend_v2_mode' \in BOOLEAN /\ mode_mismatch_active' \in BOOLEAN
           /\ mode_mismatch_active' = Blocked(f)
           /\ AdoptsMode(f) = StreamChanged(f)
           /\ ~StreamChanged(f) => presend_v2_mode' = presend_v2_mode
           /\ ~EntersWarmup(f) =>
                 stream' = stream /\ mode_mismatch_active' = mode_mismatch_active
<1>1. f \in FrameType
    OBVIOUS
<1>2. /\ f.stream \in Streams /\ f.qpc_frequency \in Nat
      /\ f.frame_stream \in BOOLEAN /\ f.presend_v2 \in BOOLEAN
    BY <1>1 DEF FrameType
<1>3. f.stream # NoStream
    BY <1>2, ConstantsAssumption
<1>4. AdoptsMode(f) = StreamChanged(f)
    BY <1>3 DEF IInv, IdleIsClean, TypeOK, AdoptsMode, StreamChanged
<1>5. mode_mismatch_active' = Blocked(f) /\ Blocked(f) \in BOOLEAN
    BY DEF Identify, Blocked
<1>6. ~EntersWarmup(f) =>
         stream' = stream /\ mode_mismatch_active' = mode_mismatch_active
    BY <1>4, <1>5
       DEF IInv, TypeOK, Identify, EntersWarmup, StreamChanged, Blocked, ModeMismatch
<1>7. QED
    BY <1>1, <1>2, <1>3, <1>4, <1>5, <1>6
       DEF IInv, TypeOK, Identify, AdoptsMode

\* A frame that sets no anchor keeps the invariant.
LEMMA RefusedFrameInv ==
    ASSUME IInv, NEW f \in FrameType, NEW q \in Nat, Identify(f, q),
           OnlyWarmupEntry(f), last_seq' \in Nat \cup {NoSeq}, ret' \in Returns,
           UNCHANGED <<qpc, last_applied_roi, settings>>
    PROVE  IInv'
<1>0. /\ stream' \in Streams /\ stream' # NoStream
      /\ qpc_frequency' \in Nat /\ last_input_receive_qpc' \in Nat
      /\ has_stream_mode' = TRUE /\ frame_stream_mode' \in BOOLEAN
      /\ presend_v2_mode' \in BOOLEAN /\ mode_mismatch_active' \in BOOLEAN
      /\ ~StreamChanged(f) => presend_v2_mode' = presend_v2_mode
      /\ ~EntersWarmup(f) =>
            stream' = stream /\ mode_mismatch_active' = mode_mismatch_active
    BY IdentifyFacts
<1>1. CASE EntersWarmup(f)
  <2>1. /\ warmup_active' = TRUE /\ warmup_valid_frame_count' = 0
        /\ warmup_due_to_stream_reset' \in BOOLEAN
        /\ prev_anchor' = NoAnchor /\ next_anchor' = NoAnchor
        /\ anchor_buffer' = <<>>
      BY <1>1 DEF OnlyWarmupEntry
  <2>2. anchor_buffer' \in Seq(Anchor) /\ Len(anchor_buffer') = 0
      BY <2>1, EmptySeq
  <2>3. TypeOK'
      BY <1>0, <2>1, <2>2 DEF IInv, TypeOK, settings
  <2>4. AnchorsMatchMode' /\ MismatchStaysEmpty' /\ LiveHasAnchor' /\ IdleIsClean'
      BY <1>0, <2>1
         DEF AnchorsMatchMode, MismatchStaysEmpty, LiveHasAnchor, IdleIsClean
  <2>5. AnchorsOrdered' /\ AnchorsOfStream'
      BY <2>1, <2>2, ConstantsAssumption
         DEF AnchorsOrdered, AnchorsOfStream, Ascending, AllFrom
  <2>6. QED
      BY <2>3, <2>4, <2>5 DEF IInv
<1>2. CASE ~EntersWarmup(f)
  <2>1. /\ UNCHANGED <<warmup_active, warmup_valid_frame_count,
                       warmup_due_to_stream_reset, prev_anchor, next_anchor,
                       anchor_buffer>>
        /\ stream' = stream /\ mode_mismatch_active' = mode_mismatch_active
        /\ presend_v2_mode' = presend_v2_mode
      BY <1>0, <1>2 DEF OnlyWarmupEntry, warmupVars, anchorVars, EntersWarmup
  <2>2. TypeOK'
      BY <1>0, <2>1 DEF IInv, TypeOK, settings
  <2>3. QED
      BY <1>0, <2>1, <2>2
         DEF IInv, AnchorsMatchMode, AnchorsOrdered, AnchorsOfStream,
             MismatchStaysEmpty, LiveHasAnchor, IdleIsClean, Ascending, AllFrom
<1>3. QED
    BY <1>1, <1>2

\* The anchors an accepted frame leaves, in the terms of the invariant.
LEMMA SetAnchorFacts ==
    ASSUME IInv, NEW f \in FrameType, NEW q \in Nat, Identify(f, q),
           ~Blocked(f), f.roi # NoRoi, SetAnchor(f)
    PROVE  /\ prev_anchor' \in Anchor \cup {NoAnchor}
           /\ next_anchor' \in Anchor \cup {NoAnchor}
           /\ anchor_buffer' \in Seq(Anchor)
           /\ AnchorsMatchMode' /\ AnchorsOrdered' /\ AnchorsOfStream'
           /\ IF presend_v2_mode' THEN anchor_buffer' # <<>>
                                  ELSE prev_anchor' # NoAnchor
<1> DEFINE fresh == EntersWarmup(f)
           prev == IF fresh THEN NoAnchor ELSE prev_anchor
           next == IF fresh THEN NoAnchor ELSE next_anchor
           buffer == IF fresh THEN <<>> ELSE anchor_buffer
           x == AnchorOf(f)
<1>1. /\ f \in FrameType /\ stream' = f.stream
      /\ presend_v2_mode' \in BOOLEAN
      /\ AdoptsMode(f) = StreamChanged(f)
      /\ ~StreamChanged(f) => presend_v2_mode' = presend_v2_mode
      /\ ~EntersWarmup(f) => stream' = stream
    BY IdentifyFacts
<1>2. x \in Anchor /\ x.from = stream' /\ x # NoAnchor /\ x.t_qpc \in Int
    BY <1>1, ConstantsAssumption DEF AnchorOf, Anchor, FrameType
<1>3. fresh \/ (~fresh /\ presend_v2_mode' = presend_v2_mode /\ stream' = stream)
    BY <1>1 DEF EntersWarmup
<1>4. /\ prev \in Anchor \cup {NoAnchor} /\ next \in Anchor \cup {NoAnchor}
      /\ prev # NoAnchor => prev.from = stream'
      /\ next # NoAnchor => /\ next.from = stream' /\ prev # NoAnchor
                            /\ prev.t_qpc < next.t_qpc
      /\ presend_v2_mode' => prev = NoAnchor /\ next = NoAnchor
    BY <1>3 DEF IInv, TypeOK, AnchorsOfStream, AnchorsOrdered, AnchorsMatchMode
<1>5. /\ buffer \in Seq(Anchor) /\ Ascending(buffer) /\ AllFrom(buffer, stream')
      /\ Len(buffer) <= AnchorCap
      /\ ~presend_v2_mode' => buffer = <<>>
  <2>1. CASE fresh
      BY <2>1, EmptySeq, ConstantsAssumption DEF Ascending, AllFrom
  <2>2. CASE ~fresh
      BY <2>2, <1>3
         DEF IInv, TypeOK, AnchorsOfStream, AnchorsOrdered, AnchorsMatchMode
  <2>3. QED
      BY <2>1, <2>2
<1>6. \/ /\ presend_v2_mode'
         /\ anchor_buffer' = BufferPush(buffer, x)
         /\ prev_anchor' = prev /\ next_anchor' = next
      \/ /\ ~presend_v2_mode'
         /\ WindowPush(prev, next, x)
         /\ anchor_buffer' = buffer
    BY DEF SetAnchor
<1> HIDE DEF fresh, prev, next, buffer, x
<1>7. CASE presend_v2_mode'
  <2>1. /\ BufferPush(buffer, x) \in Seq(Anchor)
        /\ BufferPush(buffer, x) # <<>>
        /\ Len(BufferPush(buffer, x)) <= AnchorCap
        /\ Ascending(BufferPush(buffer, x))
        /\ AllFrom(BufferPush(buffer, x), x.from)
      BY <1>2, <1>5, BufferPushFacts
  <2>2. /\ anchor_buffer' = BufferPush(buffer, x)
        /\ prev_anchor' = NoAnchor /\ next_anchor' = NoAnchor
      BY <1>4, <1>6, <1>7
  <2> HIDE DEF BufferPush
  <2>3. /\ anchor_buffer' \in Seq(Anchor) /\ anchor_buffer' # <<>>
        /\ Len(anchor_buffer') <= AnchorCap
        /\ Ascending(anchor_buffer') /\ AllFrom(anchor_buffer', stream')
      BY <2>1, <2>2, <1>2
  <2>4. QED
      BY <1>7, <2>2, <2>3
         DEF AnchorsMatchMode, AnchorsOrdered, AnchorsOfStream, Ascending, AllFrom
<1>8. CASE ~presend_v2_mode'
  <2>1. /\ anchor_buffer' = buffer /\ buffer = <<>>
        /\ WindowPush(prev, next, x)
      BY <1>5, <1>6, <1>8
  <2>2. /\ anchor_buffer' \in Seq(Anchor) /\ Len(anchor_buffer') <= AnchorCap
        /\ Ascending(anchor_buffer') /\ AllFrom(anchor_buffer', stream')
      BY <1>5, <2>1
  <2>3. /\ prev \in Anchor => prev.t_qpc \in Int
        /\ next \in Anchor => next.t_qpc \in Int
      BY AnchorFields
  <2>4. /\ prev_anchor' \in Anchor /\ prev_anchor' # NoAnchor
        /\ prev_anchor'.from = stream'
        /\ next_anchor' \in Anchor \cup {NoAnchor}
        /\ next_anchor' # NoAnchor => /\ next_anchor'.from = stream'
                                      /\ prev_anchor'.t_qpc < next_anchor'.t_qpc
      BY <1>2, <1>4, <2>1, <2>3 DEF WindowPush, Later
  <2>5. QED
      BY <1>8, <2>1, <2>2, <2>4
         DEF AnchorsMatchMode, AnchorsOrdered, AnchorsOfStream, Ascending, AllFrom
<1>9. QED
    BY <1>1, <1>7, <1>8

\* An accepted frame keeps the invariant.
LEMMA AcceptedFrameInv ==
    ASSUME IInv, NEW f \in FrameType, NEW q \in Nat, Identify(f, q), AcceptRoi(f),
           UNCHANGED <<qpc, last_applied_roi, settings>>
    PROVE  IInv'
<1>1. /\ f \in FrameType
      /\ stream' \in Streams /\ stream' # NoStream
      /\ qpc_frequency' \in Nat /\ last_input_receive_qpc' \in Nat
      /\ has_stream_mode' = TRUE /\ frame_stream_mode' \in BOOLEAN
      /\ presend_v2_mode' \in BOOLEAN /\ mode_mismatch_active' = Blocked(f)
    BY IdentifyFacts
<1>2. /\ prev_anchor' \in Anchor \cup {NoAnchor}
      /\ next_anchor' \in Anchor \cup {NoAnchor}
      /\ anchor_buffer' \in Seq(Anchor)
      /\ AnchorsMatchMode' /\ AnchorsOrdered' /\ AnchorsOfStream'
      /\ IF presend_v2_mode' THEN anchor_buffer' # <<>>
                             ELSE prev_anchor' # NoAnchor
    BY SetAnchorFacts DEF AcceptRoi
<1>3. /\ warmup_active' \in BOOLEAN /\ warmup_due_to_stream_reset' \in BOOLEAN
      /\ warmup_valid_frame_count' \in Nat
    BY DEF AcceptRoi, CountWarmup, IInv, TypeOK
<1>4. mode_mismatch_active' = FALSE
    BY <1>1 DEF AcceptRoi
<1>5. last_seq' \in Nat /\ ret' \in Returns
    BY <1>1, ReturnedType DEF AcceptRoi, FrameType, Calls
<1>6. TypeOK'
    BY <1>1, <1>2, <1>3, <1>4, <1>5 DEF IInv, TypeOK, settings
<1>7. MismatchStaysEmpty' /\ LiveHasAnchor' /\ IdleIsClean'
    BY <1>1, <1>2, <1>4 DEF MismatchStaysEmpty, LiveHasAnchor, IdleIsClean
<1>8. QED
    BY <1>2, <1>6, <1>7 DEF IInv

\* roi_interpolator_push_frame keeps the invariant.
LEMMA PushFrameInv ==
    ASSUME IInv, NEW f \in FrameType, NEW q \in Nat, PushFrame(f, q)
    PROVE  IInv'
<1>1. Identify(f, q) /\ UNCHANGED <<qpc, last_applied_roi, settings>>
    BY DEF PushFrame
<1>2. CASE AcceptRoi(f)
    BY <1>1, <1>2, AcceptedFrameInv
<1>3. CASE RejectSeq(f) \/ Keepalive(f) \/ RejectGeometry(f)
  <2>1. f.seq \in Nat
      BY DEF FrameType
  <2>2. /\ OnlyWarmupEntry(f)
        /\ last_seq' \in Nat \cup {NoSeq} /\ ret' \in Returns
      BY <1>3, <2>1, ReturnedType
         DEF RejectSeq, Keepalive, RejectGeometry, IInv, TypeOK, Calls
  <2>3. QED
      BY <1>1, <2>2, RefusedFrameInv
<1>4. QED
    BY <1>2, <1>3 DEF PushFrame

\* What every sample returns: the ROI now applied, or nothing when nothing has
\* ever been applied.
GoodOutput ==
    /\ ret' \in Returns /\ ret'.call = "sampled"
    /\ \/ last_applied_roi' \in Nat /\ ret'.roi = last_applied_roi'
       \/ ~HasLast /\ last_applied_roi' = last_applied_roi /\ ret'.roi = NoRoi

\* roi_interpolator_publish_sample returns what it applies.
LEMMA PublishGood ==
    ASSUME NEW r \in Nat, NEW m \in SampleModes, NEW e \in SampleReasons,
           Publish(r, m, e)
    PROVE  GoodOutput
BY DEF Publish, GoodOutput, Returns, Calls

\* Having no output is only an answer while nothing has been applied.
LEMMA NoOutputGood ==
    ASSUME NEW t \in BOOLEAN, NoOutput(t), ~HasLast
    PROVE  GoodOutput
BY DEF NoOutput, Returned, GoodOutput, Returns, Calls, SampleModes,
       SampleReasons, NoRoi

\* The ROI applied last, when there is one, is a ROI.
LEMMA LastIsRoi == IInv /\ HasLast => last_applied_roi \in Nat
BY DEF IInv, TypeOK, HasLast

\* A warm-up sample returns the ROI applied last, else the fall-back anchor.
LEMMA PublishWarmupGood ==
    ASSUME IInv, NEW has_left \in BOOLEAN, NEW left,
           has_left => left \in Anchor, PublishWarmup(has_left, left)
    PROVE  GoodOutput
<1> DEFINE e == IF warmup_due_to_stream_reset THEN "STREAM_RESET" ELSE "WARMUP"
<1>1. e \in SampleReasons
    BY DEF SampleReasons
<1>2. {"HOLD_LAST", "HOLD_PREV"} \subseteq SampleModes
    BY DEF SampleModes
<1>3. \/ HasLast /\ Publish(last_applied_roi, "HOLD_LAST", e)
      \/ ~HasLast /\ has_left /\ Publish(left.roi, "HOLD_PREV", e)
      \/ ~HasLast /\ NoOutput(FALSE)
    BY DEF PublishWarmup
<1> HIDE DEF e
<1>4. CASE HasLast /\ Publish(last_applied_roi, "HOLD_LAST", e)
    BY <1>1, <1>2, <1>4, LastIsRoi, PublishGood
<1>5. CASE ~HasLast /\ has_left /\ Publish(left.roi, "HOLD_PREV", e)
    BY <1>1, <1>2, <1>5, AnchorFields, PublishGood
<1>6. CASE ~HasLast /\ NoOutput(FALSE)
    BY <1>6, NoOutputGood
<1>7. QED
    BY <1>3, <1>4, <1>5, <1>6

\* A sample between two anchors returns one of them, a blend, or what was
\* applied last when the blend is refused.
LEMMA PublishSpanGood ==
    ASSUME IInv, NEW left \in Anchor, NEW right \in Anchor, NEW q \in Int,
           PublishSpan(left, right, q)
    PROVE  GoodOutput
<1>1. /\ {"HOLD_PREV", "HOLD_LAST", "INTERPOLATED"} \subseteq SampleModes
      /\ {"FRAME_STREAM", "NONE", "SPAN_INVALID"} \subseteq SampleReasons
    BY DEF SampleModes, SampleReasons
<1>2. CASE Publish(left.roi, "HOLD_PREV", "FRAME_STREAM")
    BY <1>1, <1>2, AnchorFields, PublishGood
<1>3. CASE Publish(Lerp(left, right, q), "INTERPOLATED", "NONE")
    BY <1>1, <1>3, LerpBetween, PublishGood
<1>4. CASE HasLast /\ Publish(last_applied_roi, "HOLD_LAST", "SPAN_INVALID")
    BY <1>1, <1>4, LastIsRoi, PublishGood
<1>5. CASE ~HasLast /\ NoOutput(FALSE)
    BY <1>5, NoOutputGood
<1>6. QED
    BY <1>2, <1>3, <1>4, <1>5 DEF PublishSpan

\* Without a timeout: an output that holds an anchor, holds the last ROI or
\* has nothing to hold.
LEMMA PublishHoldGood ==
    ASSUME IInv, NEW e \in SampleReasons, NEW left \in Anchor \cup {NoAnchor},
           \/ left # NoAnchor /\ Publish(left.roi, "HOLD_PREV", e)
           \/ HasLast /\ Publish(last_applied_roi, "HOLD_LAST", e)
           \/ ~HasLast /\ NoOutput(FALSE)
    PROVE  GoodOutput
<1>1. {"HOLD_LAST", "HOLD_PREV"} \subseteq SampleModes
    BY DEF SampleModes
<1>2. CASE left # NoAnchor /\ Publish(left.roi, "HOLD_PREV", e)
    BY <1>1, <1>2, AnchorFields, PublishGood
<1>3. CASE HasLast /\ Publish(last_applied_roi, "HOLD_LAST", e)
    BY <1>1, <1>3, LastIsRoi, PublishGood
<1>4. CASE ~HasLast /\ NoOutput(FALSE)
    BY <1>4, NoOutputGood
<1>5. QED
    BY <1>2, <1>3, <1>4

\* A sample in timeout freeze moves no anchor and shows no new one.
LEMMA SampleFrozenGood ==
    ASSUME IInv, NEW q \in Nat, SampleFrozen(q)
    PROVE  GoodOutput
<1>1. "TIMEOUT_FREEZE" \in SampleModes /\ "TIMEOUT_FREEZE" \in SampleReasons
    BY DEF SampleModes, SampleReasons
<1>2. CASE HasLast /\ Publish(last_applied_roi, "TIMEOUT_FREEZE", "TIMEOUT_FREEZE")
    BY <1>1, <1>2, LastIsRoi, PublishGood
<1>3. CASE /\ prev_anchor # NoAnchor
           /\ Publish(prev_anchor.roi, "TIMEOUT_FREEZE", "TIMEOUT_FREEZE")
  <2>1. prev_anchor \in Anchor
      BY <1>3 DEF IInv, TypeOK
  <2>2. QED
      BY <1>1, <1>3, <2>1, AnchorFields, PublishGood
<1>4. CASE ~HasLast /\ NoOutput(TRUE)
    BY <1>4, NoOutputGood
<1>5. QED
    BY <1>2, <1>3, <1>4 DEF SampleFrozen

\* What a sample may do to the anchors.
GoodAnchors ==
    /\ prev_anchor' \in Anchor \cup {NoAnchor}
    /\ next_anchor' \in Anchor \cup {NoAnchor}
    /\ anchor_buffer' \in Seq(Anchor)
    /\ Len(anchor_buffer') <= AnchorCap
    /\ Ascending(anchor_buffer') /\ AllFrom(anchor_buffer', stream)
    /\ prev_anchor' = NoAnchor <=> prev_anchor = NoAnchor
    /\ prev_anchor' # NoAnchor => prev_anchor'.from = stream
    /\ next_anchor' # NoAnchor =>
          /\ next_anchor # NoAnchor /\ next_anchor'.from = stream
          /\ prev_anchor' # NoAnchor /\ prev_anchor'.t_qpc < next_anchor'.t_qpc
    /\ anchor_buffer' = <<>> <=> anchor_buffer = <<>>

\* A buffered sample prunes the buffer and returns something it holds.
\* A buffered sample prunes only what is no longer needed, and returns something
\* it holds.
LEMMA SamplePresendGood ==
    ASSUME IInv, NEW q \in Nat, SamplePresend(q)
    PROVE  GoodAnchors /\ GoodOutput
<1> DEFINE due == DueCount(anchor_buffer, q)
           has_left == due > 0
           has_right == due < Len(anchor_buffer)
           left == anchor_buffer[due]
           right == anchor_buffer[due + 1]
           too_close == q > 0 /\ anchor_buffer # <<>> /\ ~has_right
           held == IF too_close THEN "TOO_CLOSE" ELSE "MISS_RIGHT"
           missed == IF has_right THEN "MISS_LEFT" ELSE "MISS_RIGHT"
<1>1. q \in Int /\ anchor_buffer \in Seq(Anchor)
    BY DEF IInv, TypeOK
<1>2. due \in 0..Len(anchor_buffer) /\ Len(anchor_buffer) \in Nat
    BY <1>1, DueCountFacts
<1>3. /\ anchor_buffer' = PruneTo(anchor_buffer, due)
      /\ prev_anchor' = prev_anchor /\ next_anchor' = next_anchor
    BY DEF SamplePresend
<1>4. \/ PublishWarmup(has_left, left)
      \/ has_left /\ has_right /\ PublishSpan(left, right, q)
      \/ has_left /\ Publish(left.roi, "HOLD_PREV", held)
      \/ HasLast /\ Publish(last_applied_roi, "HOLD_LAST", missed)
      \/ ~HasLast /\ NoOutput(FALSE)
    BY DEF SamplePresend
<1>5. /\ has_left => left \in Anchor /\ left # NoAnchor
      /\ has_right => right \in Anchor
    BY <1>1, <1>2, ElementOfSeq, ConstantsAssumption
<1>6. held \in SampleReasons /\ missed \in SampleReasons
      /\ has_left \in BOOLEAN
    BY DEF SampleReasons
<1> HIDE DEF due, left, right, held, missed
<1>7. GoodAnchors
  <2>1. /\ PruneTo(anchor_buffer, due) \in Seq(Anchor)
        /\ anchor_buffer # <<>> => PruneTo(anchor_buffer, due) # <<>>
        /\ Len(PruneTo(anchor_buffer, due)) <= AnchorCap
        /\ Ascending(PruneTo(anchor_buffer, due))
        /\ AllFrom(PruneTo(anchor_buffer, due), stream)
      BY <1>1, <1>2, PruneFacts DEF IInv, AnchorsOrdered, AnchorsOfStream
  <2>2. anchor_buffer = <<>> => PruneTo(anchor_buffer, due) = <<>>
      BY <1>2 DEF PruneTo
  <2>3. QED
      BY <1>3, <2>1, <2>2
         DEF GoodAnchors, IInv, TypeOK, AnchorsOrdered, AnchorsOfStream
<1>8. GoodOutput
  <2>1. CASE PublishWarmup(has_left, left)
      BY <1>5, <1>6, <2>1, PublishWarmupGood
  <2>2. CASE has_left /\ has_right /\ PublishSpan(left, right, q)
      BY <1>1, <1>5, <2>2, PublishSpanGood
  <2>3. CASE has_left /\ Publish(left.roi, "HOLD_PREV", held)
      BY <1>5, <1>6, <2>3, PublishHoldGood
  <2>4. CASE HasLast /\ Publish(last_applied_roi, "HOLD_LAST", missed)
      BY <1>6, <2>4, PublishHoldGood
  <2>5. CASE ~HasLast /\ NoOutput(FALSE)
      BY <2>5, NoOutputGood
  <2>6. QED
      BY <1>4, <2>1, <2>2, <2>3, <2>4, <2>5
<1>9. QED
    BY <1>7, <1>8

\* A legacy sample advances the window and returns something it holds.
LEMMA SampleLegacyGood ==
    ASSUME IInv, NEW q \in Nat, SampleLegacy(q)
    PROVE  GoodAnchors /\ GoodOutput
<1> DEFINE passed == next_anchor # NoAnchor /\ q >= next_anchor.t_qpc
           left == IF passed THEN next_anchor ELSE prev_anchor
           right == IF passed THEN NoAnchor ELSE next_anchor
           has_left == left # NoAnchor
           has_right == right # NoAnchor
           held == IF passed THEN "TOO_CLOSE" ELSE "MISS_RIGHT"
<1>1. /\ prev_anchor' = left /\ next_anchor' = right
      /\ anchor_buffer' = anchor_buffer
    BY DEF SampleLegacy
<1>2. \/ PublishWarmup(has_left, left)
      \/ has_left /\ has_right /\ PublishSpan(left, right, q)
      \/ has_left /\ Publish(left.roi, "HOLD_PREV", held)
      \/ HasLast /\ Publish(last_applied_roi, "HOLD_LAST", "MISS_LEFT")
      \/ ~HasLast /\ NoOutput(FALSE)
    BY DEF SampleLegacy
<1>3. /\ left \in Anchor \cup {NoAnchor} /\ right \in Anchor \cup {NoAnchor}
      /\ q \in Int /\ has_left \in BOOLEAN
    BY DEF IInv, TypeOK
<1>4. held \in SampleReasons /\ "MISS_LEFT" \in SampleReasons
    BY DEF SampleReasons
<1>5. GoodAnchors
    BY <1>1 DEF GoodAnchors, IInv, TypeOK, AnchorsOrdered, AnchorsOfStream
<1> HIDE DEF left, right, held
<1>6. GoodOutput
  <2>1. CASE PublishWarmup(has_left, left)
      BY <1>3, <2>1, PublishWarmupGood
  <2>2. CASE has_left /\ has_right /\ PublishSpan(left, right, q)
      BY <1>3, <2>2, PublishSpanGood
  <2>3. CASE has_left /\ Publish(left.roi, "HOLD_PREV", held)
      BY <1>3, <1>4, <2>3, PublishHoldGood
  <2>4. CASE HasLast /\ Publish(last_applied_roi, "HOLD_LAST", "MISS_LEFT")
      BY <1>4, <2>4, PublishHoldGood
  <2>5. CASE ~HasLast /\ NoOutput(FALSE)
      BY <2>5, NoOutputGood
  <2>6. QED
      BY <1>2, <2>1, <2>2, <2>3, <2>4, <2>5
<1>7. QED
    BY <1>5, <1>6

\* Every sample keeps good anchors and returns a good output.
LEMMA SampleGood ==
    ASSUME IInv, NEW q \in Nat, Sample(q)
    PROVE  GoodAnchors /\ GoodOutput
<1>1. CASE SampleFrozen(q)
  <2>1. prev_anchor' = prev_anchor /\ next_anchor' = next_anchor
        /\ anchor_buffer' = anchor_buffer
      BY <1>1 DEF SampleFrozen, anchorVars
  <2>2. GoodAnchors
      BY <2>1 DEF GoodAnchors, IInv, TypeOK, AnchorsOrdered, AnchorsOfStream
  <2>3. QED
      BY <1>1, <2>2, SampleFrozenGood DEF IInv, TypeOK
<1>2. CASE SamplePresend(q)
    BY <1>2, SamplePresendGood
<1>3. CASE SampleLegacy(q)
    BY <1>3, SampleLegacyGood
<1>4. QED
    BY <1>1, <1>2, <1>3 DEF Sample

\* roi_interpolator_sample keeps the invariant.
LEMMA SampleInv ==
    ASSUME IInv, NEW q \in Nat, Sample(q)
    PROVE  IInv'
<1>1. GoodAnchors /\ GoodOutput
    BY SampleGood
<1>2. UNCHANGED <<qpc, stream, last_seq, qpc_frequency, has_stream_mode,
                  frame_stream_mode, presend_v2_mode, mode_mismatch_active,
                  warmup_active, warmup_valid_frame_count,
                  warmup_due_to_stream_reset, freeze_timeout_ms,
                  warmup_required_valid_frames, last_input_receive_qpc>>
    BY DEF Sample, streamVars, modeVars, warmupVars, settings
<1>3. ret' \in Returns /\ last_applied_roi' \in Nat \cup {NoRoi}
    BY <1>1 DEF GoodOutput, IInv, TypeOK
<1>4. TypeOK'
    BY <1>1, <1>2, <1>3 DEF GoodAnchors, IInv, TypeOK
<1>5. AnchorsMatchMode' /\ MismatchStaysEmpty' /\ LiveHasAnchor' /\ IdleIsClean'
    BY <1>1, <1>2
       DEF GoodAnchors, IInv, AnchorsMatchMode, MismatchStaysEmpty,
           LiveHasAnchor, IdleIsClean
<1>6. AnchorsOrdered' /\ AnchorsOfStream'
    BY <1>1, <1>2
       DEF GoodAnchors, AnchorsOrdered, AnchorsOfStream, Ascending, AllFrom
<1>7. QED
    BY <1>4, <1>5, <1>6 DEF IInv

\* roi_interpolator_reset keeps the invariant.
LEMMA ResetInv ==
    ASSUME IInv, NEW keep \in BOOLEAN, Reset(keep)
    PROVE  IInv'
<1>1. /\ anchor_buffer' = <<>> /\ anchor_buffer' \in Seq(Anchor)
      /\ Len(anchor_buffer') = 0
    BY EmptySeq DEF Reset
<1>2. ret' \in Returns /\ last_applied_roi' \in Nat \cup {NoRoi}
    BY ReturnedType DEF Reset, Calls, IInv, TypeOK
<1>3. TypeOK'
    BY <1>1, <1>2 DEF Reset, IInv, TypeOK, settings
<1>4. AnchorsOrdered' /\ AnchorsOfStream'
    BY <1>1, ConstantsAssumption
       DEF Reset, AnchorsOrdered, AnchorsOfStream, Ascending, AllFrom
<1>5. AnchorsMatchMode' /\ MismatchStaysEmpty' /\ LiveHasAnchor' /\ IdleIsClean'
    BY DEF Reset, AnchorsMatchMode, MismatchStaysEmpty, LiveHasAnchor, IdleIsClean
<1>6. QED
    BY <1>3, <1>4, <1>5 DEF IInv

\* A step that touches only the clock, the settings and the return keeps the
\* invariant.
LEMMA OutsideInv ==
    ASSUME IInv, UNCHANGED <<streamVars, modeVars, warmupVars, anchorVars,
                             last_applied_roi, last_input_receive_qpc>>,
           qpc' \in Nat \ {0}, freeze_timeout_ms' \in Nat,
           warmup_required_valid_frames' \in Nat \ {0}, ret' \in Returns
    PROVE  IInv'
<1>1. TypeOK'
    BY DEF IInv, TypeOK, streamVars, modeVars, warmupVars, anchorVars
<1>2. QED
    BY <1>1
       DEF IInv, AnchorsMatchMode, AnchorsOrdered, AnchorsOfStream,
           MismatchStaysEmpty, LiveHasAnchor, IdleIsClean, Ascending, AllFrom,
           streamVars, modeVars, warmupVars, anchorVars

\* Every step keeps the invariant.
LEMMA NextInv == IInv /\ [Next]_vars => IInv'
<1> SUFFICES ASSUME IInv, [Next]_vars PROVE IInv'
    OBVIOUS
<1>1. CASE \E f \in Frames, q \in {0, qpc} : PushFrame(f, q)
  <2>1. PICK f \in Frames, q \in {0, qpc} : PushFrame(f, q)
      BY <1>1
  <2>2. f \in FrameType /\ q \in Nat
      BY ConstantsAssumption DEF IInv, TypeOK
  <2>3. QED
      BY <2>1, <2>2, PushFrameInv
<1>2. CASE Sample(qpc)
    BY <1>2, SampleInv DEF IInv, TypeOK
<1>3. CASE \E keep \in BOOLEAN : Reset(keep)
    BY <1>3, ResetInv
<1>4. CASE \E ms \in Timeouts : SetFreezeTimeout(ms)
  <2>1. PICK ms \in Timeouts : SetFreezeTimeout(ms)
      BY <1>4
  <2>2. QED
      BY <2>1, OutsideInv, ReturnedType, ConstantsAssumption
         DEF SetFreezeTimeout, Calls, IInv, TypeOK
<1>5. CASE \E n \in Warmups : SetWarmupValidFrames(n)
  <2>1. PICK n \in Warmups : SetWarmupValidFrames(n)
      BY <1>5
  <2>2. QED
      BY <2>1, OutsideInv, ReturnedType, ConstantsAssumption
         DEF SetWarmupValidFrames, ClampWarmup, Calls, IInv, TypeOK
<1>6. CASE ClockAdvances
    BY <1>6, OutsideInv, ReturnedType
       DEF ClockAdvances, settings, Calls, IInv, TypeOK
<1>7. CASE UNCHANGED vars
    BY <1>7, OutsideInv DEF vars, settings, IInv, TypeOK
<1>8. QED
    BY <1>1, <1>2, <1>3, <1>4, <1>5, <1>6, <1>7 DEF Next

\* The inductive invariant holds in every reachable state.
THEOREM InductiveInvariant == Spec => []IInv
<1>1. Init => IInv
    BY InitInv
<1>2. IInv /\ [Next]_vars => IInv'
    BY NextInv
<1>3. QED
    BY <1>1, <1>2, PTL DEF Spec

-----------------------------------------------------------------------------
(* The theorems *)

\* Every variable keeps its type.
THEOREM TypeCorrect == Spec => []TypeOK
BY InductiveInvariant, PTL DEF IInv

\* Anchors stay sorted and within the buffer.
THEOREM AnchorsCorrect == Spec => []AnchorsOrdered
BY InductiveInvariant, PTL DEF IInv

\* No anchor outlives its stream.
THEOREM OneStreamCorrect == Spec => []AnchorsOfStream
BY InductiveInvariant, PTL DEF IInv

\* The two anchor stores never both hold anchors.
THEOREM OneModeCorrect == Spec => []AnchorsMatchMode
BY InductiveInvariant, PTL DEF IInv

\* A stream whose mode changed in flight never gets an anchor again.
THEOREM MismatchCorrect == Spec => []MismatchStaysEmpty
BY InductiveInvariant, PTL DEF IInv

\* A stream out of warm-up always has an anchor.
THEOREM LiveCorrect == Spec => []LiveHasAnchor
BY InductiveInvariant, PTL DEF IInv

\* Nothing but reset(false) takes the picture away, and every sample after the
\* first output has output.
THEOREM NoFlickerCorrect == Spec => NoFlicker
<1>1. IInv /\ [Next]_vars => [KeepsPicture]_vars
  <2> SUFFICES ASSUME IInv, Next, HasLast, ~Reset(FALSE)
               PROVE  /\ last_applied_roi' # NoRoi
                      /\ ret'.call = "sampled" => ret'.roi = last_applied_roi'
      BY DEF KeepsPicture
  <2>1. CASE Sample(qpc)
      BY <2>1, SampleGood DEF GoodOutput, HasLast, NoRoi, IInv, TypeOK
  <2>2. CASE ~Sample(qpc)
    <3>1. last_applied_roi' = last_applied_roi /\ ret'.call # "sampled"
        BY <2>2 DEF Next, PushFrame, RejectSeq, Keepalive, RejectGeometry,
           AcceptRoi, Reset, SetFreezeTimeout, SetWarmupValidFrames,
           ClockAdvances, Returned
    <3>2. QED
        BY <3>1 DEF HasLast
  <2>3. QED
      BY <2>1, <2>2
<1>2. QED
    BY <1>1, InductiveInvariant, PTL DEF Spec, NoFlicker

-----------------------------------------------------------------------------
(* The interpolator implements RoiHoldPolicy *)

\* A sample moves the ROI only for a live stream, or to give an empty picture
\* its first ROI while a stream is warming up.
LEMMA SampleMoves ==
    ASSUME IInv, NEW q \in Nat, Sample(q), last_applied_roi' # last_applied_roi
    PROVE  /\ stream # NoStream /\ ~mode_mismatch_active
           /\ ~HasLast \/ ~warmup_active
<1>1. ASSUME stream = NoStream \/ mode_mismatch_active PROVE FALSE
  <2>1. /\ prev_anchor = NoAnchor /\ next_anchor = NoAnchor
        /\ anchor_buffer = <<>>
      BY <1>1 DEF IInv, IdleIsClean, MismatchStaysEmpty, AnchorsOrdered
  <2>2. SampleFrozen(q) => last_applied_roi' = last_applied_roi
      BY <2>1 DEF SampleFrozen, Publish, NoOutput
  <2>3. SampleLegacy(q) => last_applied_roi' = last_applied_roi
      BY <2>1 DEF SampleLegacy, PublishWarmup, Publish, NoOutput
  <2>4. DueCount(anchor_buffer, q) = 0
    <3>1. anchor_buffer \in Seq(Anchor) /\ q \in Int
        BY DEF IInv, TypeOK
    <3>2. DueCount(anchor_buffer, q) \in 0..Len(anchor_buffer)
        BY <3>1, DueCountFacts
    <3>3. Len(anchor_buffer) = 0
        BY <2>1, EmptySeq
    <3>4. QED
        BY <3>2, <3>3
  <2>5. SamplePresend(q) => last_applied_roi' = last_applied_roi
      BY <2>4 DEF SamplePresend, PublishWarmup, Publish, NoOutput
  <2>6. QED
      BY <2>2, <2>3, <2>5 DEF Sample
<1>2. ASSUME HasLast, warmup_active PROVE FALSE
    BY <1>2 DEF Sample, SampleFrozen, SamplePresend, SampleLegacy,
       PublishWarmup, Publish, NoOutput
<1>3. QED
    BY <1>1, <1>2

\* A sample is a move of the policy, or a stutter.
LEMMA SampleRefines ==
    ASSUME IInv, NEW q \in Nat, Sample(q)
    PROVE  [Policy!Next]_(Policy!vars)
<1>1. /\ stream' = stream /\ warmup_active' = warmup_active
      /\ mode_mismatch_active' = mode_mismatch_active
    BY DEF Sample, streamVars, modeVars, warmupVars
<1>2. Phase' = Phase
    BY <1>1 DEF Phase
<1>3. CASE last_applied_roi' = last_applied_roi
    BY <1>1, <1>2, <1>3 DEF Policy!vars
<1>4. CASE last_applied_roi' # last_applied_roi
  <2>1. last_applied_roi' \in Nat
      BY <1>4, SampleGood DEF GoodOutput
  <2>2. \/ Phase = "live"
        \/ Phase = "warming" /\ last_applied_roi = NoRoi
      BY <1>4, SampleMoves DEF Phase, HasLast
  <2>3. QED
      BY <1>1, <1>2, <2>1, <2>2
         DEF Policy!Next, Policy!Move, Policy!ShowFirst, Policy!NoRoi, NoRoi
<1>5. QED
    BY <1>3, <1>4

\* A pushed frame never moves the ROI; it adopts a stream, blocks it, lets it
\* go live, or stutters.
LEMMA PushFrameRefines ==
    ASSUME IInv, NEW f \in FrameType, NEW q \in Nat, PushFrame(f, q)
    PROVE  [Policy!Next]_(Policy!vars)
<1>1. /\ Identify(f, q) /\ last_applied_roi' = last_applied_roi
      /\ \/ OnlyWarmupEntry(f)
         \/ CountWarmup(f) /\ ~Blocked(f)
    BY DEF PushFrame, RejectSeq, Keepalive, RejectGeometry, AcceptRoi
<1>2. /\ stream' = f.stream /\ stream' \in Streams /\ stream' # NoStream
      /\ mode_mismatch_active' = Blocked(f)
      /\ AdoptsMode(f) = StreamChanged(f)
    BY <1>1, IdentifyFacts
<1>3. CASE StreamChanged(f)
  <2>1. Phase' \in {"warming", "live"}
      BY <1>2, <1>3 DEF Blocked, Phase
  <2>2. Policy!Adopt(f.stream)
      BY <1>1, <1>2, <1>3, <2>1 DEF Policy!Adopt, StreamChanged
  <2>3. QED
      BY <1>2, <2>2 DEF Policy!Next
<1>4. CASE ~StreamChanged(f)
  <2>1. stream' = stream
      BY <1>2, <1>4 DEF StreamChanged
  <2>2. CASE Blocked(f)
    <3>1. Phase' = "blocked" /\ Phase \in {"warming", "live", "blocked"}
        BY <1>2, <2>1, <2>2 DEF Phase
    <3>2. QED
        BY <1>1, <2>1, <3>1 DEF Policy!Next, Policy!Block, Policy!vars
  <2>3. CASE ~Blocked(f)
    <3>1. ~mode_mismatch_active /\ ~mode_mismatch_active' /\ ~EntersWarmup(f)
        BY <1>2, <1>4, <2>3 DEF Blocked, EntersWarmup
    <3>2. warmup_active' => warmup_active
        BY <1>1, <3>1 DEF OnlyWarmupEntry, CountWarmup, warmupVars
    <3>3. \/ Phase' = Phase
          \/ Phase = "warming" /\ Phase' = "live"
        BY <1>2, <2>1, <3>1, <3>2 DEF Phase
    <3>4. QED
        BY <1>1, <2>1, <3>3 DEF Policy!Next, Policy!GoLive, Policy!vars
  <2>4. QED
      BY <2>2, <2>3
<1>5. QED
    BY <1>3, <1>4

\* The interpolator implements the policy: what is shown moves only for a live
\* stream, and a stream whose mode changed in flight is blocked for good.
THEOREM PolicyImplemented == Spec => ImplementsPolicy
<1>1. Init => Policy!Init
    BY DEF Init, Policy!Init, Phase, Policy!NoRoi, NoRoi
<1>2. IInv /\ [Next]_vars => [Policy!Next]_(Policy!vars)
  <2> SUFFICES ASSUME IInv, [Next]_vars PROVE [Policy!Next]_(Policy!vars)
      OBVIOUS
  <2>1. CASE \E f \in Frames, q \in {0, qpc} : PushFrame(f, q)
    <3>1. PICK f \in Frames, q \in {0, qpc} : PushFrame(f, q)
        BY <2>1
    <3>2. f \in FrameType /\ q \in Nat
        BY ConstantsAssumption DEF IInv, TypeOK
    <3>3. QED
        BY <3>1, <3>2, PushFrameRefines
  <2>2. CASE Sample(qpc)
      BY <2>2, SampleRefines DEF IInv, TypeOK
  <2>3. CASE \E keep \in BOOLEAN : Reset(keep)
      BY <2>3 DEF Reset, Phase, Policy!Next, Policy!Release, Policy!NoRoi, NoRoi
  <2>4. CASE \/ \E ms \in Timeouts : SetFreezeTimeout(ms)
             \/ \E n \in Warmups : SetWarmupValidFrames(n)
             \/ ClockAdvances \/ UNCHANGED vars
    <3>1. UNCHANGED <<stream, mode_mismatch_active, warmup_active,
                      last_applied_roi>>
        BY <2>4 DEF SetFreezeTimeout, SetWarmupValidFrames, ClockAdvances,
           vars, streamVars, modeVars, warmupVars
    <3>2. QED
        BY <3>1 DEF Policy!vars, Phase
  <2>5. QED
      BY <2>1, <2>2, <2>3, <2>4 DEF Next
<1>3. QED
    BY <1>1, <1>2, InductiveInvariant, PTL DEF Spec, ImplementsPolicy, Policy!Spec

-----------------------------------------------------------------------------
(* What a sample shows *)

\* Only a sample returns an output.
LEMMA OnlySampleSamples ==
    ASSUME Next, ret'.call = "sampled" \/ ret'.mode = "INTERPOLATED"
    PROVE  Sample(qpc)
BY DEF Next, PushFrame, RejectSeq, Keepalive, RejectGeometry, AcceptRoi, Reset,
   SetFreezeTimeout, SetWarmupValidFrames, ClockAdvances, Returned

\* The anchors around the render time in the buffer: the due ones are the first,
\* and no anchor lies between the last due one and the next.
LEMMA DueAnchors ==
    ASSUME IInv, NEW q \in Nat
    PROVE  LET due == DueCount(anchor_buffer, q)
           IN  /\ due \in 0..Len(anchor_buffer) /\ Len(anchor_buffer) \in Nat
               /\ \A i \in 1..Len(anchor_buffer) :
                        /\ anchor_buffer[i] \in Anchor
                        /\ anchor_buffer[i].t_qpc \in Int
                        /\ i <= due <=> anchor_buffer[i].t_qpc <= q
                        /\ i <= due => anchor_buffer[i].t_qpc <= anchor_buffer[due].t_qpc
                        /\ due < i => anchor_buffer[due + 1].t_qpc <= anchor_buffer[i].t_qpc
<1> DEFINE b == anchor_buffer
           due == DueCount(b, q)
<1>1. b \in Seq(Anchor) /\ q \in Int /\ Ascending(b)
    BY DEF IInv, TypeOK, AnchorsOrdered
<1>2. /\ due \in 0..Len(b) /\ Len(b) \in Nat
      /\ \A i \in 1..due : b[i].t_qpc <= q
      /\ due < Len(b) => b[due + 1].t_qpc > q
    BY <1>1, DueCountFacts
<1>3. \A i \in 1..Len(b) : b[i] \in Anchor /\ b[i].t_qpc \in Int
    BY <1>1, ElementOfSeq, AnchorFields
<1> HIDE DEF due, b
<1>4. \A i, j \in 1..Len(b) : i < j => b[i].t_qpc < b[j].t_qpc
    BY <1>1 DEF Ascending
<1>5. ASSUME NEW i \in 1..Len(b), i <= due
      PROVE  b[i].t_qpc <= q /\ b[i].t_qpc <= b[due].t_qpc
    BY <1>2, <1>3, <1>4, <1>5
<1>6. ASSUME NEW i \in 1..Len(b), due < i
      PROVE  b[i].t_qpc > q /\ b[due + 1].t_qpc <= b[i].t_qpc
  <2>1. due + 1 \in 1..Len(b) /\ (due + 1 = i \/ due + 1 < i)
      BY <1>2, <1>6
  <2>2. b[due + 1].t_qpc <= b[i].t_qpc
      BY <1>3, <1>4, <2>1
  <2>3. b[due + 1].t_qpc > q
      BY <1>2, <1>6
  <2>4. QED
      BY <1>1, <1>3, <2>1, <2>2, <2>3
<1>7. ASSUME NEW i \in 1..Len(b)
      PROVE  /\ b[i] \in Anchor /\ b[i].t_qpc \in Int
             /\ i <= due <=> b[i].t_qpc <= q
             /\ i <= due => b[i].t_qpc <= b[due].t_qpc
             /\ due < i => b[due + 1].t_qpc <= b[i].t_qpc
  <2>1. i <= due \/ due < i
      BY <1>2
  <2>2. QED
      BY <1>1, <1>3, <1>5, <1>6, <2>1
<1>8. QED
    BY <1>2, <1>7 DEF b, due

\* With an anchor there is a stream, and its mode is known.
LEMMA AnchorsHaveMode ==
    ASSUME IInv, \/ prev_anchor # NoAnchor \/ next_anchor # NoAnchor
                 \/ anchor_buffer # <<>>
    PROVE  has_stream_mode
BY DEF IInv, IdleIsClean, AnchorsOrdered

\* A buffered stream shows the newest anchor that is due.
THEOREM NewestDueCorrect == Spec => PresendShowsNewestDue
<1> DEFINE Shown ==
        ret'.call = "sampled" /\ ~ret'.timeout_freeze /\ presend_v2_mode
            /\ ~warmup_active /\ ret'.mode # "INTERPOLATED"
            /\ ret'.reason # "SPAN_INVALID" /\ ret'.roi # NoRoi =>
        \A i \in 1..Len(anchor_buffer) :
            /\ anchor_buffer[i].t_qpc <= qpc
            /\ \A j \in i + 1..Len(anchor_buffer) : anchor_buffer[j].t_qpc > qpc
            => ret'.roi = anchor_buffer[i].roi
<1>1. IInv /\ [Next]_vars => [Shown]_vars
  <2> SUFFICES ASSUME IInv, Next, ret'.call = "sampled", ~ret'.timeout_freeze,
                      presend_v2_mode, ~warmup_active, ret'.mode # "INTERPOLATED",
                      ret'.reason # "SPAN_INVALID", ret'.roi # NoRoi,
                      NEW i \in 1..Len(anchor_buffer),
                      anchor_buffer[i].t_qpc <= qpc,
                      \A j \in i + 1..Len(anchor_buffer) : anchor_buffer[j].t_qpc > qpc
               PROVE  ret'.roi = anchor_buffer[i].roi
      OBVIOUS
  <2> DEFINE due == DueCount(anchor_buffer, qpc)
  <2>1. Sample(qpc) /\ qpc \in Nat
      BY OnlySampleSamples DEF IInv, TypeOK
  <2>2. ~SampleFrozen(qpc)
    <3>1. ASSUME NEW r, Publish(r, "TIMEOUT_FREEZE", "TIMEOUT_FREEZE") PROVE FALSE
      <4>1. ret'.timeout_freeze = ("TIMEOUT_FREEZE" = "TIMEOUT_FREEZE")
          BY <3>1 DEF Publish
      <4>2. QED
          BY <4>1
    <3>2. ~NoOutput(TRUE)
        BY DEF NoOutput, Returned
    <3>3. QED
        BY <3>1, <3>2 DEF SampleFrozen
  <2>3. SamplePresend(qpc)
      BY <2>1, <2>2 DEF Sample, SampleLegacy
  <2>4. /\ due \in 0..Len(anchor_buffer) /\ Len(anchor_buffer) \in Nat
        /\ \A k \in 1..Len(anchor_buffer) :
                /\ anchor_buffer[k].t_qpc \in Int
                /\ k <= due <=> anchor_buffer[k].t_qpc <= qpc
      BY <2>1, DueAnchors
  <2>5. due = i
    <3>1. i <= due
        BY <2>4
    <3>2. ASSUME i < due PROVE FALSE
      <4>1. due \in 1..Len(anchor_buffer) /\ due \in i + 1..Len(anchor_buffer)
          BY <2>4, <3>2
      <4>2. anchor_buffer[due].t_qpc <= qpc /\ anchor_buffer[due].t_qpc \in Int
          BY <2>4, <4>1
      <4>3. QED
          BY <2>1, <4>1, <4>2
    <3>3. QED
        BY <2>4, <3>1, <3>2
  <2>6. due > 0
      BY <2>5
  <2>7. \/ PublishSpan(anchor_buffer[due], anchor_buffer[due + 1], qpc)
        \/ \E e : Publish(anchor_buffer[due].roi, "HOLD_PREV", e)
      BY <2>3, <2>6 DEF SamplePresend
  <2> HIDE DEF due
  <2>8. ret'.roi = anchor_buffer[due].roi
      BY <2>7 DEF PublishSpan, Publish, NoOutput, Returned
  <2>9. QED
      BY <2>5, <2>8
<1>2. QED
    BY <1>1, InductiveInvariant, PTL DEF Spec, PresendShowsNewestDue

\* A frame-stream producer's ROIs are shown as sent.
THEOREM SentRoiCorrect == Spec => FrameStreamShowsSentRoi
<1> DEFINE Sent ==
        ret'.call = "sampled" /\ frame_stream_mode
            /\ last_applied_roi' # last_applied_roi =>
        \/ \E i \in 1..Len(anchor_buffer) :
                /\ anchor_buffer[i].t_qpc <= qpc
                /\ last_applied_roi' = anchor_buffer[i].roi
        \/ prev_anchor # NoAnchor /\ last_applied_roi' = prev_anchor.roi
        \/ /\ next_anchor # NoAnchor /\ next_anchor.t_qpc <= qpc
           /\ last_applied_roi' = next_anchor.roi
<1>1. IInv /\ [Next]_vars => [Sent]_vars
  <2> SUFFICES ASSUME IInv, Next, ret'.call = "sampled", frame_stream_mode,
                      last_applied_roi' # last_applied_roi
               PROVE  Sent
      OBVIOUS
  <2>1. Sample(qpc) /\ qpc \in Nat
      BY OnlySampleSamples DEF IInv, TypeOK
  <2>2. CASE SampleFrozen(qpc)
      BY <2>2 DEF SampleFrozen, Publish, NoOutput
  <2>3. CASE SamplePresend(qpc)
    <3> DEFINE due == DueCount(anchor_buffer, qpc)
    <3>1. /\ due \in 0..Len(anchor_buffer) /\ Len(anchor_buffer) \in Nat
          /\ \A k \in 1..Len(anchor_buffer) :
                (k <= due <=> anchor_buffer[k].t_qpc <= qpc)
        BY <2>1, DueAnchors
    <3> HIDE DEF due
    <3>2. due > 0 => has_stream_mode
      <4>1. due > 0 => anchor_buffer # <<>>
          BY <3>1
      <4>2. QED
          BY <4>1, AnchorsHaveMode
    <3>3. /\ due > 0
          /\ \/ PublishWarmup(TRUE, anchor_buffer[due])
             \/ PublishSpan(anchor_buffer[due], anchor_buffer[due + 1], qpc)
             \/ \E e : Publish(anchor_buffer[due].roi, "HOLD_PREV", e)
        BY <2>3 DEF SamplePresend, PublishWarmup, Publish, NoOutput, due
    <3>4. last_applied_roi' = anchor_buffer[due].roi
        BY <3>2, <3>3 DEF PublishWarmup, PublishSpan, Publish, NoOutput
    <3>5. due \in 1..Len(anchor_buffer) /\ anchor_buffer[due].t_qpc <= qpc
        BY <3>1, <3>3
    <3>6. QED
        BY <3>4, <3>5
  <2>4. CASE SampleLegacy(qpc)
    <3>1. prev_anchor # NoAnchor \/ next_anchor # NoAnchor => has_stream_mode
        BY AnchorsHaveMode
    <3>2. next_anchor # NoAnchor => next_anchor.t_qpc \in Int
        BY AnchorFields DEF IInv, TypeOK
    <3>3. CASE next_anchor # NoAnchor /\ qpc >= next_anchor.t_qpc
        BY <2>1, <2>4, <3>1, <3>2, <3>3
           DEF SampleLegacy, PublishWarmup, PublishSpan, Publish, NoOutput
    <3>4. CASE ~(next_anchor # NoAnchor /\ qpc >= next_anchor.t_qpc)
        BY <2>4, <3>1, <3>4
           DEF SampleLegacy, PublishWarmup, PublishSpan, Publish, NoOutput
    <3>5. QED
        BY <3>3, <3>4
  <2>5. QED
      BY <2>1, <2>2, <2>3, <2>4 DEF Sample
<1>2. QED
    BY <1>1, InductiveInvariant, PTL DEF Spec, FrameStreamShowsSentRoi

\* Between the neighbours left and right, the later of which is not due.
Blend(left, right) ==
    /\ left \in Anchors /\ right \in Anchors
    /\ left.from = stream /\ right.from = stream
    /\ left.t_qpc < right.t_qpc /\ qpc < right.t_qpc
    /\ \A a \in Anchors : a.t_qpc <= left.t_qpc \/ a.t_qpc >= right.t_qpc

\* An interpolated sample blends such neighbours.
LEMMA InterpolatedBlends ==
    ASSUME IInv, Sample(qpc), ret'.mode = "INTERPOLATED"
    PROVE  \E left, right \in Anchor :
                Blend(left, right) /\ ret'.roi = Lerp(left, right, qpc)
<1>1. qpc \in Nat
    BY DEF IInv, TypeOK
<1>2. ~SampleFrozen(qpc)
    BY DEF SampleFrozen, Publish, NoOutput, Returned
<1>3. CASE SamplePresend(qpc)
  <2> DEFINE due == DueCount(anchor_buffer, qpc)
             n == Len(anchor_buffer)
             left == anchor_buffer[due]
             right == anchor_buffer[due + 1]
  <2>1. /\ due \in 0..n /\ n \in Nat
        /\ \A i \in 1..n :
                /\ anchor_buffer[i] \in Anchor
                /\ anchor_buffer[i].t_qpc \in Int
                /\ i <= due <=> anchor_buffer[i].t_qpc <= qpc
                /\ i <= due => anchor_buffer[i].t_qpc <= left.t_qpc
                /\ due < i => right.t_qpc <= anchor_buffer[i].t_qpc
      BY <1>1, DueAnchors
  <2>2. due > 0 /\ due < n /\ PublishSpan(left, right, qpc)
      BY <1>3 DEF SamplePresend, PublishWarmup, Publish, NoOutput, Returned
  <2>3. ret'.roi = Lerp(left, right, qpc)
      BY <2>2 DEF PublishSpan, Publish, NoOutput, Returned
  <2>4. prev_anchor = NoAnchor /\ next_anchor = NoAnchor
      BY <1>3 DEF SamplePresend, IInv, AnchorsMatchMode
  <2>5. Anchors = {anchor_buffer[i] : i \in 1..n}
      BY <2>4 DEF Anchors
  <2>6. \A i \in 1..n : anchor_buffer[i].from = stream
      BY DEF IInv, AnchorsOfStream, AllFrom
  <2> HIDE DEF due, n
  <2>7. due \in 1..n /\ due + 1 \in 1..n /\ due < due + 1 /\ ~(due + 1 <= due)
      BY <2>1, <2>2
  <2>8. /\ left \in Anchor /\ right \in Anchor
        /\ left \in Anchors /\ right \in Anchors
        /\ left.from = stream /\ right.from = stream
      BY <2>1, <2>5, <2>6, <2>7
  <2>9. left.t_qpc <= qpc /\ qpc < right.t_qpc /\ left.t_qpc < right.t_qpc
      BY <1>1, <2>1, <2>7
  <2>10. \A a \in Anchors : a.t_qpc <= left.t_qpc \/ a.t_qpc >= right.t_qpc
    <3> SUFFICES ASSUME NEW i \in 1..n
                 PROVE  \/ anchor_buffer[i].t_qpc <= left.t_qpc
                        \/ anchor_buffer[i].t_qpc >= right.t_qpc
        BY <2>5
    <3>1. i <= due \/ due < i
        BY <2>1
    <3>2. QED
        BY <2>1, <2>7, <3>1
  <2>11. QED
      BY <2>3, <2>8, <2>9, <2>10 DEF Blend
<1>4. CASE SampleLegacy(qpc)
  <2>1. anchor_buffer = <<>> /\ Len(anchor_buffer) = 0
      BY <1>4, EmptySeq DEF SampleLegacy, IInv, AnchorsMatchMode
  <2>2. Anchors = {prev_anchor, next_anchor} \ {NoAnchor}
      BY <2>1 DEF Anchors
  <2>3. /\ prev_anchor # NoAnchor /\ next_anchor # NoAnchor
        /\ ~(qpc >= next_anchor.t_qpc) /\ PublishSpan(prev_anchor, next_anchor, qpc)
      BY <1>4 DEF SampleLegacy, PublishWarmup, Publish, NoOutput, Returned
  <2>4. ret'.roi = Lerp(prev_anchor, next_anchor, qpc)
      BY <2>3 DEF PublishSpan, Publish, NoOutput, Returned
  <2>5. /\ prev_anchor \in Anchor /\ next_anchor \in Anchor
        /\ prev_anchor.from = stream /\ next_anchor.from = stream
        /\ prev_anchor.t_qpc < next_anchor.t_qpc
      BY <2>3 DEF IInv, TypeOK, AnchorsOfStream, AnchorsOrdered
  <2>6. prev_anchor.t_qpc \in Int /\ next_anchor.t_qpc \in Int
      BY <2>5, AnchorFields
  <2>7. QED
      BY <1>1, <2>2, <2>3, <2>4, <2>5, <2>6 DEF Blend
<1>5. QED
    BY <1>2, <1>3, <1>4 DEF Sample

\* An interpolated ROI lies between its neighbours in time.
THEOREM BlendsCorrect == Spec => BlendsNeighbours
<1> DEFINE Blends ==
        ret'.mode = "INTERPOLATED" =>
        \E left, right \in Anchors :
            /\ left.from = stream /\ right.from = stream
            /\ left.t_qpc < right.t_qpc /\ qpc < right.t_qpc
            /\ \A a \in Anchors : a.t_qpc <= left.t_qpc \/ a.t_qpc >= right.t_qpc
            /\ \/ left.roi <= ret'.roi /\ ret'.roi <= right.roi
               \/ right.roi <= ret'.roi /\ ret'.roi <= left.roi
<1>1. IInv /\ [Next]_vars => [Blends]_vars
  <2> SUFFICES ASSUME IInv, Next, ret'.mode = "INTERPOLATED" PROVE Blends
      OBVIOUS
  <2>1. Sample(qpc) /\ qpc \in Int
      BY OnlySampleSamples DEF IInv, TypeOK
  <2>2. PICK left \in Anchor, right \in Anchor :
                Blend(left, right) /\ ret'.roi = Lerp(left, right, qpc)
      BY <2>1, InterpolatedBlends
  <2>3. \/ left.roi <= ret'.roi /\ ret'.roi <= right.roi
        \/ right.roi <= ret'.roi /\ ret'.roi <= left.roi
      BY <2>1, <2>2, LerpBetween
  <2>4. QED
      BY <2>2, <2>3 DEF Blend
<1>2. QED
    BY <1>1, InductiveInvariant, PTL DEF Spec, BlendsNeighbours
=============================================================================
