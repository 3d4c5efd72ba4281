-------------------------- MODULE RoiFrameQueueProofs --------------------------
(***************************************************************************)
(* Proofs about RoiFrameQueue, for every set of messages and every range   *)
(* of capacities.  Whatever a step does to head, size and array, seen from *)
(* the head the queue gives up its d oldest entries and gains at most one  *)
(* at its end.  Gives and Accepts say so without remainders; QueueStep     *)
(* derives them from the actions, and every invariant and the refinement   *)
(* follow from them.                                                       *)
(***************************************************************************)
EXTENDS RoiFrameQueue, SequenceTheorems, TLAPS

\* The d oldest entries are gone, the others moved up.
Drops(d) ==
    /\ frame_queue_size' = frame_queue_size - d
    /\ \A i \in 1..frame_queue_size - d : Queued(i)' = Queued(i + d)

\* The same, and e is the newest entry.
DropsAndAppends(d, e) ==
    /\ frame_queue_size' = frame_queue_size - d + 1
    /\ \A i \in 1..frame_queue_size - d : Queued(i)' = Queued(i + d)
    /\ Queued(frame_queue_size)' = e

\* What accepting m does, giving up d entries.
Accepts(m, d) ==
    /\ d \in 0..frame_queue_size
    /\ DropsAndAppends(d, EntryFor(m))
    /\ ~OutOfOrder(m) /\ latest_generation < GenMax
    /\ IF EpochChanged(m) THEN d = frame_queue_size
       ELSE d = IF frame_queue_size < frame_queue_cap THEN 0 ELSE 1
    /\ last_message' = m
    /\ latest_generation' = latest_generation + 1
    /\ queue_drop_count' = queue_drop_count + d
    /\ UNCHANGED <<frame_queue_cap, consumed, consumed_count, flushed_count>>

\* What every other step does: nothing, a flush, or handing out an entry.
Gives(d) ==
    /\ d \in 0..frame_queue_size
    /\ Drops(d)
    /\ \/ d = 0 /\ UNCHANGED <<consumed, last_message, frame_queue_cap>>
       \/ /\ d = frame_queue_size /\ consumed' = consumed
          /\ last_message' \in {last_message, NoMessage}
       \/ /\ d \in {1, frame_queue_size} /\ d > 0
          /\ consumed' = Queued(d).generation
          /\ UNCHANGED <<last_message, frame_queue_cap>>
    /\ latest_generation' = latest_generation
    /\ consumed_count' + queue_drop_count' + flushed_count' =
            consumed_count + queue_drop_count + flushed_count + d

-----------------------------------------------------------------------------
(* Indices of the ring *)

\* A sum of two indices below the capacity wraps at most once.
LEMMA WrapsOnce ==
    ASSUME NEW c \in Nat, c > 0, NEW a \in Nat, a < 2 * c
    PROVE  a % c = IF a < c THEN a ELSE a - c
OBVIOUS

\* The position i behind a head that moved by d is the position i + d.
LEMMA HeadMoves ==
    ASSUME NEW c \in Nat, c > 0, NEW h \in 0..c - 1, NEW d \in Nat, NEW i \in Nat,
           i > 0, i + d <= c
    PROVE  /\ (h + d) % c \in 0..c - 1
           /\ (((h + d) % c) + i - 1) % c = (h + (i + d) - 1) % c
<1> DEFINE k == (h + d) % c
<1>1. k = IF h + d < c THEN h + d ELSE h + d - c
    BY WrapsOnce
<1>2. k \in 0..c - 1
    BY <1>1
<1> HIDE DEF k
<1>3. (k + i - 1) % c = IF k + i - 1 < c THEN k + i - 1 ELSE k + i - 1 - c
    BY <1>2, WrapsOnce
<1>4. (h + (i + d) - 1) % c = IF h + i + d - 1 < c THEN h + i + d - 1
                                                   ELSE h + i + d - 1 - c
    BY WrapsOnce
<1>5. (k + i - 1) % c = (h + (i + d) - 1) % c
    BY <1>1, <1>2, <1>3, <1>4
<1>6. QED
    BY <1>2, <1>5 DEF k

\* The free slot behind n entries is none of theirs.
LEMMA SlotsDiffer ==
    ASSUME NEW c \in Nat, c > 0, NEW h \in 0..c - 1, NEW n \in 0..c - 1,
           NEW i \in 1..n
    PROVE  (h + i - 1) % c # (h + n) % c
<1>1. (h + i - 1) % c = IF h + i - 1 < c THEN h + i - 1 ELSE h + i - 1 - c
    BY WrapsOnce
<1>2. (h + n) % c = IF h + n < c THEN h + n ELSE h + n - c
    BY WrapsOnce
<1>3. QED
    BY <1>1, <1>2

\* An index below the capacity is its own remainder; every remainder is a slot.
LEMMA SlotRange ==
    ASSUME NEW c \in Nat, c > 0, NEW a \in Nat
    PROVE  a % c \in 0..c - 1 /\ (a < c => a % c = a)
<1>1. a % c \in 0..c - 1
    OBVIOUS
<1>2. a < c => a % c = a
    BY WrapsOnce
<1>3. QED
    BY <1>1, <1>2

-----------------------------------------------------------------------------
(* The two forms *)

\* The capacity is positive and its slots are slots of the arrays.
LEMMA CapFacts ==
    ASSUME QueueTypeOK
    PROVE  /\ frame_queue_cap \in Nat /\ frame_queue_cap > 0
           /\ 0..frame_queue_cap - 1 \subseteq Slots
           /\ frame_queue_head \in Nat /\ frame_queue_size \in Nat
BY QueueAssumption DEF QueueTypeOK, Slots

\* Writing behind the n = size - d entries that remain from slot h on.
LEMMA InsertAppends ==
    ASSUME QueueTypeOK, frame_queue_cap' = frame_queue_cap,
           NEW d \in 0..frame_queue_size, NEW n, n = frame_queue_size - d,
           n < frame_queue_cap,
           NEW h \in 0..frame_queue_cap - 1,
           n > 0 => h = (frame_queue_head + d) % frame_queue_cap,
           NEW e, Insert(h, n, e)
    PROVE  DropsAndAppends(d, e)
<1> DEFINE c == frame_queue_cap
<1>1. /\ c \in Nat /\ c > 0 /\ frame_queue_head \in 0..c - 1
      /\ frame_queue_size \in 0..c /\ n \in 0..c - 1
    BY CapFacts DEF QueueTypeOK
<1>2. (h + n) % c \in 0..c - 1
    BY <1>1, SlotRange
<1>3. /\ frame_queue' = [frame_queue EXCEPT ![(h + n) % c] = e]
      /\ frame_queue_head' = h /\ frame_queue_size' = n + 1
    BY DEF Insert
<1>4. DOMAIN frame_queue = Slots
    BY DEF QueueTypeOK
<1>5. frame_queue'[(h + n) % c] = e
    BY <1>2, <1>3, <1>4, CapFacts
<1>6. Queued(frame_queue_size)' = e
  <2>1. frame_queue_head' + frame_queue_size' - 1 = h + n
      BY <1>1, <1>3
  <2>2. QED
      BY <1>3, <1>5, <2>1 DEF Queued
<1>7. ASSUME NEW i \in 1..n
      PROVE  Queued(i)' = Queued(i + d)
  <2>1. h = (frame_queue_head + d) % c
      BY <1>1
  <2>2. (h + i - 1) % c = (frame_queue_head + (i + d) - 1) % c
      BY <1>1, <2>1, HeadMoves
  <2>3. (h + i - 1) % c # (h + n) % c
      BY <1>1, SlotsDiffer
  <2>4. (h + i - 1) % c \in Slots
      BY <1>1, SlotRange, CapFacts
  <2>5. frame_queue'[(h + i - 1) % c] = frame_queue[(h + i - 1) % c]
      BY <1>3, <1>4, <2>3, <2>4
  <2>6. QED
      BY <1>3, <2>2, <2>5 DEF Queued
<1>8. QED
    BY <1>1, <1>3, <1>6, <1>7 DEF DropsAndAppends

\* Moving the head by d, or emptying the queue, with the array left alone.
LEMMA HeadDrops ==
    ASSUME QueueTypeOK, frame_queue' = frame_queue,
           NEW d \in 0..frame_queue_size,
           frame_queue_size' = frame_queue_size - d,
           d < frame_queue_size =>
                /\ frame_queue_cap' = frame_queue_cap
                /\ frame_queue_head' = (frame_queue_head + d) % frame_queue_cap
    PROVE  Drops(d)
<1> DEFINE c == frame_queue_cap
<1>1. /\ c \in Nat /\ c > 0 /\ frame_queue_head \in 0..c - 1
      /\ frame_queue_size \in 0..c
    BY CapFacts DEF QueueTypeOK
<1>2. ASSUME NEW i \in 1..frame_queue_size - d
      PROVE  Queued(i)' = Queued(i + d)
  <2>1. (frame_queue_head' + i - 1) % c = (frame_queue_head + (i + d) - 1) % c
      BY <1>1, HeadMoves
  <2>2. frame_queue_cap' = c
      BY <1>1
  <2>3. QED
      BY <2>1, <2>2 DEF Queued
<1>3. QED
    BY <1>2 DEF Drops

-----------------------------------------------------------------------------
(* Type correctness *)

\* Every accepted message is put behind at most cap - 1 entries.
LEMMA AcceptInserts ==
    ASSUME QueueTypeOK, NEW m \in Messages, Accept(m)
    PROVE  \E d \in 0..frame_queue_size, h \in 0..frame_queue_cap - 1 :
             /\ frame_queue_size - d < frame_queue_cap
             /\ frame_queue_size - d > 0
                    => h = (frame_queue_head + d) % frame_queue_cap
             /\ Insert(h, frame_queue_size - d, EntryFor(m))
             /\ queue_drop_count' = queue_drop_count + d
             /\ IF EpochChanged(m) THEN d = frame_queue_size
                ELSE d = IF frame_queue_size < frame_queue_cap THEN 0 ELSE 1
<1> DEFINE c == frame_queue_cap
<1>1. /\ c \in Nat /\ c > 0 /\ frame_queue_head \in 0..c - 1
      /\ frame_queue_size \in 0..c /\ queue_drop_count \in Nat
    BY CapFacts DEF QueueTypeOK
<1>2. CASE AcceptNewEpoch(m)
  <2> DEFINE h == IF frame_queue_size > 0 THEN 0 ELSE frame_queue_head
  <2>1. h \in 0..c - 1 /\ frame_queue_size - frame_queue_size = 0
      BY <1>1
  <2>2. Insert(h, frame_queue_size - frame_queue_size, EntryFor(m))
      BY <1>2, <2>1 DEF AcceptNewEpoch
  <2>3. QED
      BY <1>1, <1>2, <2>1, <2>2 DEF AcceptNewEpoch
<1>3. CASE AcceptWithRoom(m)
  <2>1. /\ frame_queue_size - 0 = frame_queue_size
        /\ frame_queue_head + 0 = frame_queue_head
        /\ queue_drop_count + 0 = queue_drop_count
      BY <1>1
  <2>2. (frame_queue_head + 0) % c = frame_queue_head
      BY <1>1, <2>1, SlotRange
  <2>3. Insert(frame_queue_head, frame_queue_size - 0, EntryFor(m))
      BY <1>3, <2>1 DEF AcceptWithRoom
  <2>4. QED
      BY <1>1, <1>3, <2>1, <2>2, <2>3 DEF AcceptWithRoom
<1>4. CASE AcceptDroppingOldest(m)
  <2> DEFINE h == (frame_queue_head + 1) % c
  <2>1. h \in 0..c - 1
      BY <1>1, SlotRange
  <2>2. 1 \in 0..frame_queue_size /\ frame_queue_size - 1 < c
      BY <1>1, <1>4 DEF AcceptDroppingOldest
  <2> HIDE DEF h
  <2>3. Insert(h, frame_queue_size - 1, EntryFor(m))
      BY <1>4 DEF AcceptDroppingOldest, h
  <2>4. /\ h = (frame_queue_head + 1) % c
        /\ ~EpochChanged(m) /\ ~(frame_queue_size < c)
        /\ queue_drop_count' = queue_drop_count + 1
      BY <1>1, <1>4 DEF AcceptDroppingOldest, h
  <2>5. QED
      BY <2>1, <2>2, <2>3, <2>4
<1>5. QED
    BY <1>2, <1>3, <1>4 DEF Accept

\* The initial state has the type.
LEMMA QueueTypeInit == QueueInit => QueueTypeOK
BY QueueAssumption DEF QueueInit, QueueTypeOK, Entry, Slots

\* An accepted message leaves the indices inside the capacity.
LEMMA AcceptKeepsType ==
    ASSUME QueueTypeOK, NEW m \in Messages, Accept(m)
    PROVE  QueueTypeOK'
<1> DEFINE c == frame_queue_cap
<1>1. /\ c \in Nat /\ c > 0 /\ 0..c - 1 \subseteq Slots
      /\ frame_queue_size \in Nat /\ latest_generation \in Nat
      /\ frame_queue \in [Slots -> Entry]
    BY CapFacts DEF QueueTypeOK
<1>2. PICK d \in 0..frame_queue_size, h \in 0..c - 1 :
        /\ frame_queue_size - d < c
        /\ Insert(h, frame_queue_size - d, EntryFor(m))
        /\ queue_drop_count' = queue_drop_count + d
    BY AcceptInserts
<1>3. EntryFor(m) \in Entry
    BY <1>1, QueueAssumption DEF EntryFor, Entry
<1>4. frame_queue' \in [Slots -> Entry]
    BY <1>1, <1>2, <1>3 DEF Insert
<1>5. frame_queue_head' \in 0..c - 1 /\ frame_queue_size' \in 0..c
    BY <1>1, <1>2 DEF Insert
<1>6. last_message' \in MessageType \cup {NoMessage}
    BY QueueAssumption DEF Accept
<1>7. QED
    BY <1>1, <1>2, <1>4, <1>5, <1>6 DEF QueueTypeOK, Accept

\* A queued entry's generation is a number.
LEMMA GenerationNat ==
    ASSUME QueueTypeOK, NEW i \in Nat, i > 0
    PROVE  Queued(i) \in Entry /\ Queued(i).generation \in Nat
<1>1. frame_queue_head + i - 1 \in Nat
    BY CapFacts
<1>2. (frame_queue_head + i - 1) % frame_queue_cap \in Slots
    BY <1>1, CapFacts, SlotRange
<1>3. QED
    BY <1>2 DEF QueueTypeOK, Queued, Entry

\* Each step keeps the type.
LEMMA QueueTypeStep == QueueTypeOK /\ [QueueNext]_queueVars => QueueTypeOK'
<1> SUFFICES ASSUME QueueTypeOK, [QueueNext]_queueVars PROVE QueueTypeOK'
    OBVIOUS
<1>c. /\ frame_queue_cap \in Nat /\ frame_queue_cap > 0
      /\ frame_queue_head \in 0..frame_queue_cap - 1
      /\ frame_queue_size \in 0..frame_queue_cap
    BY CapFacts DEF QueueTypeOK
<1>1. ASSUME NEW m \in Messages, ProcessMessage(m) PROVE QueueTypeOK'
  <2>1. CASE DropOutOfOrder(m)
      BY <2>1 DEF DropOutOfOrder, QueueTypeOK, queueVars, ringVars
  <2>2. QED
      BY <1>1, <2>1, AcceptKeepsType DEF ProcessMessage
<1>2. CASE ConsumeNext
  <2>1. Queued(1).generation \in Nat
      BY GenerationNat
  <2>2. frame_queue_head + 1 - 1 = frame_queue_head
      BY <1>c
  <2>3. Queued(1) = frame_queue[frame_queue_head]
      BY <1>c, <2>2, SlotRange DEF Queued
  <2>4. frame_queue_head' \in 0..frame_queue_cap - 1
      BY <1>2, <1>c, SlotRange DEF ConsumeNext
  <2>5. QED
      BY <1>2, <1>c, <2>1, <2>3, <2>4 DEF ConsumeNext, QueueTypeOK
<1>3. CASE ConsumeLatest
  <2>1. Queued(frame_queue_size).generation \in Nat
      BY <1>3, <1>c, GenerationNat DEF ConsumeLatest
  <2>2. consumed' \in Nat
      BY <1>3, <2>1 DEF ConsumeLatest, Queued
  <2>3. QED
      BY <1>3, <1>c, <2>2 DEF ConsumeLatest, QueueTypeOK
<1>4. ASSUME NEW cap \in CapMin..CapMax, SetQueueCap(cap) PROVE QueueTypeOK'
  <2>1. cap \in Nat /\ cap > 0
      BY QueueAssumption
  <2>2. QED
      BY <1>4, <1>c, <2>1 DEF SetQueueCap, QueueTypeOK
<1>5. CASE ClearQueue
    BY <1>5, <1>c DEF ClearQueue, QueueTypeOK
<1>6. CASE UNCHANGED queueVars
    BY <1>6 DEF QueueTypeOK, queueVars, ringVars
<1>7. QED
    BY <1>1, <1>2, <1>3, <1>4, <1>5, <1>6 DEF QueueNext

\* QueueTypeOK holds in every behaviour: head and size stay inside the current
\* capacity, whatever is accepted, dropped, consumed or resized.
THEOREM QueueTypeCorrect == QueueSpec => []QueueTypeOK
BY QueueTypeInit, QueueTypeStep, PTL DEF QueueSpec

-----------------------------------------------------------------------------
(* Every step accepts or gives *)

\* An accepted message has the form Accepts.
LEMMA AcceptAccepts ==
    ASSUME QueueTypeOK, NEW m \in Messages, Accept(m)
    PROVE  \E d \in 0..frame_queue_size : Accepts(m, d)
<1> DEFINE c == frame_queue_cap
<1>1. PICK d \in 0..frame_queue_size, h \in 0..c - 1 :
        /\ frame_queue_size - d < c
        /\ frame_queue_size - d > 0 => h = (frame_queue_head + d) % c
        /\ Insert(h, frame_queue_size - d, EntryFor(m))
        /\ queue_drop_count' = queue_drop_count + d
        /\ IF EpochChanged(m) THEN d = frame_queue_size
           ELSE d = IF frame_queue_size < c THEN 0 ELSE 1
    BY AcceptInserts
<1>2. PICK e : e = EntryFor(m)
    OBVIOUS
<1>3. PICK n : n = frame_queue_size - d
    OBVIOUS
<1>4. frame_queue_cap' = frame_queue_cap
    BY DEF Accept
<1>5. DropsAndAppends(d, e)
    BY <1>1, <1>2, <1>3, <1>4, InsertAppends
<1>6. QED
    BY <1>1, <1>2, <1>5 DEF Accepts, Accept

\* Every other operation, and doing nothing, has the form Gives.
LEMMA OtherGives ==
    ASSUME QueueTypeOK,
           \/ ConsumeNext \/ ConsumeLatest \/ ClearQueue
           \/ \E cap \in CapMin..CapMax : SetQueueCap(cap)
           \/ UNCHANGED queueVars
    PROVE  \E d \in 0..frame_queue_size : Gives(d)
<1>c. /\ frame_queue_cap \in Nat /\ frame_queue_cap > 0
      /\ frame_queue_head \in 0..frame_queue_cap - 1
      /\ frame_queue_size \in 0..frame_queue_cap
      /\ latest_generation \in Nat /\ queue_drop_count \in Nat
      /\ consumed_count \in Nat /\ flushed_count \in Nat
    BY CapFacts DEF QueueTypeOK
<1>h. (frame_queue_head + 0) % frame_queue_cap = frame_queue_head
    BY <1>c, SlotRange
<1>1. CASE ConsumeNext
  <2>1. 1 \in 0..frame_queue_size
      BY <1>1, <1>c DEF ConsumeNext
  <2>2. Drops(1)
      BY <1>1, <2>1, HeadDrops DEF ConsumeNext
  <2>3. frame_queue_head + 1 - 1 = frame_queue_head
      BY <1>c
  <2>4. Queued(1) = frame_queue[frame_queue_head]
      BY <1>c, <2>3, SlotRange DEF Queued
  <2>5. Gives(1)
      BY <1>1, <1>c, <2>1, <2>2, <2>4 DEF ConsumeNext, Gives
  <2>6. QED
      BY <2>1, <2>5
<1>2. CASE ConsumeLatest
  <2>1. PICK d : d = frame_queue_size
      OBVIOUS
  <2>2. Drops(d)
      BY <1>2, <1>c, <2>1, HeadDrops DEF ConsumeLatest
  <2>3. consumed' = Queued(d).generation
      BY <1>2, <2>1 DEF ConsumeLatest, Queued
  <2>4. Gives(d)
      BY <1>2, <1>c, <2>1, <2>2, <2>3 DEF ConsumeLatest, Gives
  <2>5. QED
      BY <1>c, <2>1, <2>4
<1>3. CASE ClearQueue
  <2>1. PICK d : d = frame_queue_size
      OBVIOUS
  <2>2. Drops(d)
      BY <1>3, <1>c, <2>1, HeadDrops DEF ClearQueue
  <2>3. Gives(d)
      BY <1>3, <1>c, <2>1, <2>2 DEF ClearQueue, Gives
  <2>4. QED
      BY <1>c, <2>1, <2>3
<1>4. ASSUME NEW cap \in CapMin..CapMax, SetQueueCap(cap)
      PROVE  \E d \in 0..frame_queue_size : Gives(d)
  <2>1. PICK d : d = IF cap # frame_queue_cap THEN frame_queue_size ELSE 0
      OBVIOUS
  <2>2. d \in 0..frame_queue_size
      BY <1>c, <2>1
  <2>3. Drops(d)
      BY <1>4, <1>c, <1>h, <2>1, <2>2, HeadDrops DEF SetQueueCap
  <2>4. Gives(d)
      BY <1>4, <1>c, <2>1, <2>2, <2>3 DEF SetQueueCap, Gives
  <2>5. QED
      BY <2>2, <2>4
<1>5. CASE UNCHANGED queueVars
  <2>1. 0 \in 0..frame_queue_size
      BY <1>c
  <2>2. Drops(0)
      BY <1>5, <1>c, <1>h, <2>1, HeadDrops DEF queueVars, ringVars
  <2>3. Gives(0)
      BY <1>5, <1>c, <2>1, <2>2 DEF queueVars, ringVars, Gives
  <2>4. QED
      BY <2>1, <2>3
<1>6. QED
    BY <1>1, <1>2, <1>3, <1>4, <1>5

\* Every step of the queue is one of the two forms.
LEMMA QueueStep ==
    ASSUME QueueTypeOK, [QueueNext]_queueVars
    PROVE  \E d \in 0..frame_queue_size :
                Gives(d) \/ \E m \in Messages : Accepts(m, d)
<1>1. ASSUME NEW m \in Messages, ProcessMessage(m)
      PROVE  \E d \in 0..frame_queue_size : Gives(d) \/ Accepts(m, d)
    BY <1>1, AcceptAccepts, OtherGives DEF ProcessMessage, DropOutOfOrder
<1>2. QED
    BY <1>1, OtherGives DEF QueueNext

-----------------------------------------------------------------------------
(* The invariants *)

QueueInv ==
    /\ QueueTypeOK
    /\ GenerationsContiguous
    /\ ConsumedIsOlder
    /\ FramesAccounted
    /\ OneEpochQueued
    /\ NeighboursInOrder

\* The initial state satisfies the invariant.
LEMMA QueueInvInit == QueueInit => QueueInv
<1> SUFFICES ASSUME QueueInit PROVE QueueInv
    OBVIOUS
<1>1. frame_queue_size = 0 /\ latest_generation = 0 /\ consumed = 0
      /\ queue_drop_count = 0 /\ consumed_count = 0 /\ flushed_count = 0
    BY DEF QueueInit
<1>2. QED
    BY <1>1, QueueTypeInit DEF QueueInv, GenerationsContiguous, ConsumedIsOlder,
       FramesAccounted, OneEpochQueued, NeighboursInOrder

\* The numbers of a state and of its successor.
LEMMA QueueNumbers ==
    ASSUME QueueTypeOK
    PROVE  /\ frame_queue_size \in Nat /\ frame_queue_cap \in Nat
           /\ frame_queue_size <= frame_queue_cap /\ frame_queue_cap > 0
           /\ latest_generation \in Nat /\ consumed \in Nat
           /\ queue_drop_count \in Nat /\ consumed_count \in Nat
           /\ flushed_count \in Nat
BY CapFacts DEF QueueTypeOK

\* Accepting a message keeps the invariants: the new entry has the next
\* generation, the epoch of all the others, and follows its own stream's seq.
LEMMA AcceptsKeeps ==
    ASSUME QueueInv, QueueTypeOK', NEW m \in Messages,
           NEW d \in 0..frame_queue_size, Accepts(m, d)
    PROVE  QueueInv'
<1> DEFINE s == frame_queue_size
           g == latest_generation
<1>1. /\ s \in Nat /\ g \in Nat /\ consumed \in Nat /\ queue_drop_count \in Nat
      /\ consumed_count \in Nat /\ flushed_count \in Nat
    BY QueueNumbers DEF QueueInv
<1>2. /\ frame_queue_size' = s - d + 1 /\ latest_generation' = g + 1
      /\ last_message' = m /\ consumed' = consumed
      /\ queue_drop_count' = queue_drop_count + d
      /\ consumed_count' = consumed_count /\ flushed_count' = flushed_count
    BY DEF Accepts, DropsAndAppends
<1>3. ASSUME NEW i \in 1..s - d
      PROVE  Queued(i)' = Queued(i + d)
    BY <1>3 DEF Accepts, DropsAndAppends
<1>4. ASSUME NEW k \in 1..s - d + 1, k > s - d
      PROVE  /\ k = frame_queue_size'
             /\ Queued(k)'.message = m /\ Queued(k)'.generation = g + 1
  <2>1. k = frame_queue_size'
      BY <1>1, <1>2, <1>4
  <2>2. Queued(frame_queue_size)' = EntryFor(m)
      BY DEF Accepts, DropsAndAppends
  <2>3. Queued(k)' = EntryFor(m)
      BY <2>1, <2>2 DEF Queued
  <2>4. QED
      BY <2>1, <2>3 DEF EntryFor
<1>5. GenerationsContiguous'
  <2>1. ASSUME NEW i \in 1..s - d + 1
        PROVE  Queued(i)'.generation = g - (s - d) + i
    <3>1. CASE i > s - d
        BY <1>1, <1>4, <3>1
    <3>2. CASE i \in 1..s - d
      <4>1. Queued(i + d).generation = g - s + (i + d)
          BY <1>1, <3>2 DEF QueueInv, GenerationsContiguous
      <4>2. QED
          BY <1>1, <1>3, <3>2, <4>1
    <3>3. QED
        BY <1>1, <3>1, <3>2
  <2>2. latest_generation' - frame_queue_size' = g - (s - d)
      BY <1>1, <1>2
  <2>3. QED
      BY <1>2, <2>1, <2>2 DEF GenerationsContiguous
<1>6. ConsumedIsOlder'
  <2>1. consumed <= g - s
      BY DEF QueueInv, ConsumedIsOlder
  <2>2. consumed' <= latest_generation' - frame_queue_size'
      BY <1>1, <1>2, <2>1
  <2>3. ASSUME NEW i \in 1..frame_queue_size'
        PROVE  consumed' < Queued(i)'.generation
      BY <1>1, <1>2, <1>5, <2>2 DEF GenerationsContiguous
  <2>4. QED
      BY <2>2, <2>3 DEF ConsumedIsOlder
<1>7. FramesAccounted'
    BY <1>1, <1>2 DEF QueueInv, FramesAccounted
<1>8. m \in MessageType /\ m # NoMessage
    BY QueueAssumption
<1>9. d < s => /\ last_message # NoMessage /\ m.epoch = last_message.epoch
               /\ \A j \in 1..s : /\ Queued(j).message # NoMessage
                                  /\ Queued(j).message.epoch = m.epoch
               /\ Queued(s).message = last_message
    BY <1>1 DEF Accepts, EpochChanged, QueueInv, OneEpochQueued
<1>10. OneEpochQueued'
  <2>1. ASSUME NEW i \in 1..s - d + 1
        PROVE  Queued(i)'.message # NoMessage /\ Queued(i)'.message.epoch = m.epoch
    <3>1. CASE i > s - d
        BY <1>4, <1>8, <3>1
    <3>2. CASE i \in 1..s - d
        BY <1>1, <1>3, <1>9, <3>2
    <3>3. QED
        BY <1>1, <3>1, <3>2
  <2>2. Queued(frame_queue_size)'.message = m
      BY DEF Accepts, DropsAndAppends, EntryFor
  <2>3. QED
      BY <1>2, <1>8, <2>1, <2>2 DEF OneEpochQueued
<1>11. NeighboursInOrder'
  <2>1. ASSUME NEW i \in 1..s - d,
               Queued(i)'.message.stream_id = Queued(i + 1)'.message.stream_id
        PROVE  Queued(i)'.message.seq < Queued(i + 1)'.message.seq
    <3>1. Queued(i)' = Queued(i + d) /\ i + d \in 1..s
        BY <1>1, <1>3
    <3>2. CASE i = s - d
      <4>1. Queued(i)'.message = last_message /\ last_message # NoMessage
          BY <1>1, <1>9, <3>1, <3>2
      <4>2. Queued(i + 1)'.message = m
          BY <1>1, <1>4, <3>2
      <4>3. last_message \in MessageType /\ m.epoch = last_message.epoch
          BY <1>1, <1>9, <4>1 DEF QueueInv, QueueTypeOK
      <4>4. ~(m.seq <= last_message.seq)
          BY <2>1, <4>1, <4>2, <4>3 DEF Accepts, OutOfOrder
      <4>5. QED
          BY <1>8, <4>1, <4>2, <4>3, <4>4 DEF MessageType
    <3>3. CASE i < s - d
      <4>1. /\ Queued(i + 1)' = Queued(i + 1 + d) /\ i + 1 + d = i + d + 1
            /\ i + d \in 1..s - 1
          BY <1>1, <1>3, <3>3
      <4>2. QED
          BY <2>1, <3>1, <4>1 DEF QueueInv, NeighboursInOrder
    <3>4. QED
        BY <1>1, <3>2, <3>3
  <2>2. frame_queue_size' - 1 = s - d
      BY <1>1, <1>2
  <2>3. QED
      BY <2>1, <2>2 DEF NeighboursInOrder
<1>12. QED
    BY <1>5, <1>6, <1>7, <1>10, <1>11 DEF QueueInv

\* So does giving up, or handing out, the d oldest entries.
LEMMA GivesKeeps ==
    ASSUME QueueInv, QueueTypeOK', NEW d \in 0..frame_queue_size, Gives(d)
    PROVE  QueueInv'
<1> DEFINE s == frame_queue_size
           g == latest_generation
<1>1. /\ s \in Nat /\ g \in Nat /\ consumed \in Nat /\ queue_drop_count \in Nat
      /\ consumed_count \in Nat /\ flushed_count \in Nat
    BY QueueNumbers DEF QueueInv
<1>2. frame_queue_size' = s - d /\ latest_generation' = g
    BY DEF Gives, Drops
<1>3. ASSUME NEW i \in 1..s - d
      PROVE  Queued(i)' = Queued(i + d) /\ i + d \in 1..s
    BY <1>1, <1>3 DEF Gives, Drops
<1>4. GenerationsContiguous'
  <2>1. ASSUME NEW i \in 1..s - d
        PROVE  Queued(i)'.generation = g - (s - d) + i
    <3>1. Queued(i + d).generation = g - s + (i + d)
        BY <1>3 DEF QueueInv, GenerationsContiguous
    <3>2. QED
        BY <1>1, <1>3, <3>1
  <2>2. QED
      BY <1>2, <2>1 DEF GenerationsContiguous
<1>5. ConsumedIsOlder'
  <2>1. consumed' <= g - (s - d)
    <3>1. consumed <= g - s
        BY DEF QueueInv, ConsumedIsOlder
    <3>2. CASE consumed' = consumed
        BY <1>1, <3>1, <3>2
    <3>3. CASE d > 0 /\ consumed' = Queued(d).generation
      <4>1. Queued(d).generation = g - s + d
          BY <1>1, <3>3 DEF QueueInv, GenerationsContiguous
      <4>2. QED
          BY <1>1, <3>3, <4>1
    <3>4. QED
        BY <3>2, <3>3 DEF Gives
  <2>2. consumed' \in Nat
      BY DEF QueueTypeOK
  <2>3. ASSUME NEW i \in 1..s - d
        PROVE  consumed' < Queued(i)'.generation
      BY <1>1, <1>2, <1>4, <2>1, <2>2 DEF GenerationsContiguous
  <2>4. QED
      BY <1>2, <2>1, <2>3 DEF ConsumedIsOlder
<1>6. FramesAccounted'
  <2>1. consumed_count' + queue_drop_count' + flushed_count' =
            consumed_count + queue_drop_count + flushed_count + d
      BY DEF Gives
  <2>2. consumed_count' \in Nat /\ queue_drop_count' \in Nat /\ flushed_count' \in Nat
      BY DEF QueueTypeOK
  <2>3. g = consumed_count + queue_drop_count + flushed_count + s
      BY DEF QueueInv, FramesAccounted
  <2>4. g = consumed_count' + queue_drop_count' + flushed_count' + (s - d)
      BY <1>1, <2>1, <2>3
  <2>5. QED
      BY <1>2, <2>4 DEF FramesAccounted
<1>7. OneEpochQueued'
  <2>1. SUFFICES ASSUME s - d > 0 PROVE OneEpochQueued'
      BY <1>2 DEF OneEpochQueued
  <2>2. last_message' = last_message
      BY <1>1, <2>1 DEF Gives
  <2>3. /\ last_message # NoMessage
        /\ Queued(s).message = last_message
        /\ \A j \in 1..s : /\ Queued(j).message # NoMessage
                           /\ Queued(j).message.epoch = last_message.epoch
      BY <1>1, <2>1 DEF QueueInv, OneEpochQueued
  <2>4. ASSUME NEW k \in 1..s - d, k = s - d
        PROVE  Queued(k)'.message = last_message
      BY <1>1, <1>3, <2>3, <2>4
  <2>5. Queued(frame_queue_size)'.message = last_message
      BY <1>1, <1>2, <2>1, <2>4 DEF Queued
  <2>6. QED
      BY <1>2, <1>3, <2>2, <2>3, <2>5 DEF OneEpochQueued
<1>8. NeighboursInOrder'
  <2>1. ASSUME NEW i \in 1..s - d - 1,
               Queued(i)'.message.stream_id = Queued(i + 1)'.message.stream_id
        PROVE  Queued(i)'.message.seq < Queued(i + 1)'.message.seq
    <3>1. /\ Queued(i)' = Queued(i + d) /\ i + d \in 1..s - 1
          /\ Queued(i + 1)' = Queued(i + 1 + d) /\ i + 1 + d = i + d + 1
        BY <1>1, <1>3
    <3>2. QED
        BY <2>1, <3>1 DEF QueueInv, NeighboursInOrder
  <2>2. QED
      BY <1>2, <2>1 DEF NeighboursInOrder
<1>9. QED
    BY <1>4, <1>5, <1>6, <1>7, <1>8 DEF QueueInv

\* Each step keeps the invariant.
LEMMA QueueInvStep == QueueInv /\ [QueueNext]_queueVars => QueueInv'
<1> SUFFICES ASSUME QueueInv, [QueueNext]_queueVars PROVE QueueInv'
    OBVIOUS
<1>1. QueueTypeOK /\ QueueTypeOK'
    BY QueueTypeStep DEF QueueInv
<1>2. PICK d \in 0..frame_queue_size :
            Gives(d) \/ \E m \in Messages : Accepts(m, d)
    BY <1>1, QueueStep
<1>3. QED
    BY <1>1, <1>2, GivesKeeps, AcceptsKeeps

\* QueueInv is inductive.
THEOREM QueueInvariant == QueueSpec => []QueueInv
BY QueueInvInit, QueueInvStep, PTL DEF QueueSpec

\* GenerationsContiguous: the queued frames are exactly the latest accepted
\* ones, for every capacity and every interleaving of the queue's operations.
THEOREM ContiguousCorrect == QueueSpec => []GenerationsContiguous
<1>1. QueueInv => GenerationsContiguous
    BY DEF QueueInv
<1>2. QED
    BY <1>1, QueueInvariant, PTL

\* ConsumedIsOlder: no frame is handed out twice or out of order.
THEOREM DeliveryCorrect == QueueSpec => []ConsumedIsOlder
<1>1. QueueInv => ConsumedIsOlder
    BY DEF QueueInv
<1>2. QED
    BY <1>1, QueueInvariant, PTL

\* FramesAccounted: no frame is lost without being counted or cleared.
THEOREM AccountsCorrect == QueueSpec => []FramesAccounted
<1>1. QueueInv => FramesAccounted
    BY DEF QueueInv
<1>2. QED
    BY <1>1, QueueInvariant, PTL

\* OneEpochQueued: the queue holds frames of one epoch at a time.
THEOREM FilterCorrect == QueueSpec => []OneEpochQueued
<1>1. QueueInv => OneEpochQueued
    BY DEF QueueInv
<1>2. QED
    BY <1>1, QueueInvariant, PTL

\* NeighboursInOrder: two frames of one stream queued one behind the other are
\* in order.
THEOREM NeighboursCorrect == QueueSpec => []NeighboursInOrder
<1>1. QueueInv => NeighboursInOrder
    BY DEF QueueInv
<1>2. QED
    BY <1>1, QueueInvariant, PTL

-----------------------------------------------------------------------------
(* The ring buffer implements the drop-oldest queue *)

\* The abstract queue in terms of two counters.
Window(g, s) == [i \in 1..s |-> g - s + i]

\* What the window becomes when one generation is added, or the oldest given up.
LEMMA WindowMoves ==
    ASSUME NEW g \in Nat, NEW s \in Nat
    PROVE  /\ Window(g, 0) = <<>>
           /\ Len(Window(g, s)) = s
           /\ s > 0 => Window(g, s)[1] = g - s + 1 /\ Window(g, s)[s] = g
           /\ s > 0 => Tail(Window(g, s)) = Window(g, s - 1)
           /\ Append(Window(g, s), g + 1) = Window(g + 1, s + 1)
           /\ Window(g + 1, 1) = <<g + 1>>
<1>1. Window(g, s) \in Seq(Int) /\ Len(Window(g, s)) = s
    BY DEF Window
<1>2. Window(g, 0) = <<>>
    BY DEF Window
<1>3. s > 0 => Window(g, s)[1] = g - s + 1 /\ Window(g, s)[s] = g
    BY DEF Window
<1>4. s > 0 => Tail(Window(g, s)) = Window(g, s - 1)
    BY DEF Window
<1>5. Append(Window(g, s), g + 1) = Window(g + 1, s + 1)
  <2> DEFINE q == Append(Window(g, s), g + 1)
  <2>1. q = [i \in 1..s + 1 |-> IF i <= s THEN Window(g, s)[i] ELSE g + 1]
      BY <1>1
  <2>2. \A i \in 1..s + 1 :
            (IF i <= s THEN Window(g, s)[i] ELSE g + 1) = g + 1 - (s + 1) + i
      BY DEF Window
  <2>3. QED
      BY <2>1, <2>2 DEF Window
<1>6. Window(g + 1, 1) = <<g + 1>>
    BY DEF Window
<1>7. QED
    BY <1>1, <1>2, <1>3, <1>4, <1>5, <1>6

\* The refinement mapping.
items == [i \in 1..frame_queue_size |-> Queued(i).generation]
taken == IF consumed = 0 THEN <<>> ELSE <<consumed>>

\* The queued generations are a window of the accepted ones.
LEMMA ItemsAreWindow ==
    GenerationsContiguous => items = Window(latest_generation, frame_queue_size)
BY DEF GenerationsContiguous, items, Window

\* Initial states map to initial states.
LEMMA AbstractInit == QueueInit => Abstract!Init
<1> SUFFICES ASSUME QueueInit PROVE Abstract!Init
    OBVIOUS
<1>1. items = <<>>
    BY DEF QueueInit, items
<1>2. taken = <<>>
    BY DEF QueueInit, taken
<1>3. frame_queue_cap \in CapMin..CapMax
    BY QueueAssumption DEF QueueInit
<1>4. QED
    BY <1>1, <1>2, <1>3 DEF Abstract!Init, items, taken

\* Accepting offers the new generation, or restarts with it.
LEMMA AcceptsOffers ==
    ASSUME QueueInv, QueueInv', NEW m \in Messages,
           NEW d \in 0..frame_queue_size, Accepts(m, d)
    PROVE  Abstract!Next
<1> DEFINE s == frame_queue_size
           g == latest_generation
<1>1. /\ s \in Nat /\ g \in Nat /\ frame_queue_cap \in Nat
      /\ s <= frame_queue_cap /\ frame_queue_cap > 0 /\ GenMax \in Nat
    BY QueueNumbers, QueueAssumption DEF QueueInv
<1>2. /\ frame_queue_size' = s - d + 1 /\ latest_generation' = g + 1 /\ g < GenMax
      /\ frame_queue_cap' = frame_queue_cap /\ taken' = taken
    BY DEF Accepts, DropsAndAppends, taken
<1>3. items = Window(g, s) /\ items' = Window(g + 1, s - d + 1)
    BY <1>2, ItemsAreWindow DEF QueueInv, GenerationsContiguous, items, Window
<1>4. g + 1 \in 1..GenMax
    BY <1>1, <1>2
<1>5. CASE d = s
  <2>1. items' = <<g + 1>>
      BY <1>1, <1>3, <1>5, WindowMoves
  <2>2. Abstract!Restart(g + 1)
      BY <1>2, <2>1 DEF Abstract!Restart, items, taken
  <2>3. QED
      BY <1>4, <2>2 DEF Abstract!Next
<1>6. CASE d # s
  <2>1. d = IF s < frame_queue_cap THEN 0 ELSE 1
      BY <1>6 DEF Accepts
  <2>2. items' = IF Len(items) < frame_queue_cap THEN Append(items, g + 1)
                 ELSE Append(Tail(items), g + 1)
    <3>1. Len(items) = s
        BY <1>1, <1>3, WindowMoves
    <3>2. CASE s < frame_queue_cap
      <4>1. s - d + 1 = s + 1
          BY <1>1, <2>1, <3>2
      <4>2. Append(Window(g, s), g + 1) = Window(g + 1, s + 1)
          BY <1>1, WindowMoves
      <4>3. QED
          BY <1>3, <3>1, <3>2, <4>1, <4>2
    <3>3. CASE ~(s < frame_queue_cap)
      <4>1. s > 0 /\ s - 1 \in Nat /\ s - d + 1 = s - 1 + 1 /\ s - 1 + 1 = s
          BY <1>1, <2>1, <3>3
      <4>2. Tail(items) = Window(g, s - 1)
          BY <1>1, <1>3, <4>1, WindowMoves
      <4>3. Append(Window(g, s - 1), g + 1) = Window(g + 1, s - 1 + 1)
          BY <1>1, <4>1, WindowMoves
      <4>4. QED
          BY <1>3, <3>1, <3>3, <4>1, <4>2, <4>3
    <3>4. QED
        BY <3>2, <3>3
  <2>3. Abstract!Offer(g + 1)
      BY <1>2, <2>2 DEF Abstract!Offer, items, taken
  <2>4. QED
      BY <1>4, <2>3 DEF Abstract!Next
<1>7. QED
    BY <1>5, <1>6

\* Every other step takes, takes the newest, flushes, or stutters.
LEMMA GivesTakes ==
    ASSUME QueueInv, QueueInv', NEW d \in 0..frame_queue_size, Gives(d)
    PROVE  [Abstract!Next]_(Abstract!vars)
<1> DEFINE s == frame_queue_size
           g == latest_generation
<1>1. /\ s \in Nat /\ g \in Nat /\ consumed \in Nat /\ consumed <= g - s
      /\ frame_queue_cap' \in CapMin..CapMax
    BY QueueNumbers DEF QueueInv, ConsumedIsOlder, QueueTypeOK
<1>2. frame_queue_size' = s - d /\ latest_generation' = g
    BY DEF Gives, Drops
<1>3. items = Window(g, s) /\ items' = Window(g, s - d)
    BY <1>2, ItemsAreWindow DEF QueueInv, GenerationsContiguous, items, Window
<1>4. CASE d = 0 /\ UNCHANGED <<consumed, last_message, frame_queue_cap>>
  <2>1. items' = items
      BY <1>1, <1>3, <1>4
  <2>2. QED
      BY <1>4, <2>1 DEF Abstract!vars, items
<1>5. CASE d = s /\ consumed' = consumed
  <2>1. items' = <<>>
      BY <1>1, <1>3, <1>5, WindowMoves
  <2>2. Abstract!Flush
      BY <1>1, <1>5, <2>1 DEF Abstract!Flush, items
  <2>3. QED
      BY <2>2 DEF Abstract!Next
<1>6. CASE /\ d \in {1, s} /\ d > 0
           /\ consumed' = Queued(d).generation
           /\ UNCHANGED <<last_message, frame_queue_cap>>
  <2>1. s > 0 /\ items # <<>>
      BY <1>1, <1>3, <1>6, WindowMoves
  <2>2. consumed' = g - s + d
      BY <1>1, <1>6 DEF QueueInv, GenerationsContiguous
  <2>3. consumed' # 0 /\ taken' = <<g - s + d>>
      BY <1>1, <1>6, <2>2 DEF taken
  <2>4. CASE d = 1
    <3>1. items[1] = g - s + 1 /\ items' = Tail(items)
        BY <1>1, <1>3, <2>1, <2>4, WindowMoves
    <3>2. Abstract!Take
        BY <1>6, <2>1, <2>3, <2>4, <3>1 DEF Abstract!Take, items, taken
    <3>3. QED
        BY <3>2 DEF Abstract!Next
  <2>5. CASE d = s
    <3>1. items[Len(items)] = g /\ items' = <<>> /\ g - s + d = g
      <4>1. s - d = 0 /\ g - s + d = g
          BY <1>1, <2>5
      <4>2. /\ Window(g, 0) = <<>> /\ Len(Window(g, s)) = s
            /\ Window(g, s)[s] = g
          BY <1>1, <2>1, WindowMoves
      <4>3. QED
          BY <1>3, <4>1, <4>2
    <3>2. Abstract!TakeNewest
        BY <1>6, <2>1, <2>3, <3>1 DEF Abstract!TakeNewest, items, taken
    <3>3. QED
        BY <3>2 DEF Abstract!Next
  <2>6. QED
      BY <1>6, <2>4, <2>5
<1>7. QED
    BY <1>4, <1>5, <1>6 DEF Gives

\* The ring buffer, its wrapping head and its resizing implement a bounded
\* first-in first-out queue that gives up its oldest entry to make room.
THEOREM DropOldestImplemented == QueueSpec => ImplementsDropOldest
<1>1. QueueInv /\ QueueInv' /\ [QueueNext]_queueVars
        => [Abstract!Next]_(Abstract!vars)
  <2> SUFFICES ASSUME QueueInv, QueueInv', [QueueNext]_queueVars
               PROVE  [Abstract!Next]_(Abstract!vars)
      OBVIOUS
  <2>1. PICK d \in 0..frame_queue_size :
            Gives(d) \/ \E m \in Messages : Accepts(m, d)
      BY QueueStep DEF QueueInv
  <2>2. QED
      BY <2>1, GivesTakes, AcceptsOffers
<1>2. QED
    BY <1>1, AbstractInit, QueueInvariant, PTL
       DEF QueueSpec, ImplementsDropOldest, Abstract!Spec

-----------------------------------------------------------------------------
(* The ring buffer implements the queue of frames *)

\* The refinement mapping.
frames == [i \in 1..frame_queue_size |-> Queued(i).message]

\* The queued frames are a sequence.
FramesOK ==
    /\ frames \in Seq(MessageType \cup {NoMessage})
    /\ Len(frames) = frame_queue_size
    /\ \A i \in 1..frame_queue_size : frames[i] = Queued(i).message

LEMMA FramesType == QueueTypeOK => FramesOK
<1> SUFFICES ASSUME QueueTypeOK PROVE FramesOK
    OBVIOUS
<1>1. frame_queue_size \in Nat
    BY CapFacts
<1>2. \A i \in 1..frame_queue_size : Queued(i).message \in MessageType \cup {NoMessage}
    BY <1>1, GenerationNat DEF Entry
<1>3. frames \in Seq(MessageType \cup {NoMessage}) /\ Len(frames) = frame_queue_size
    BY <1>1, <1>2 DEF frames
<1>4. QED
    BY <1>3 DEF FramesOK, frames

\* The first n entries of r are those of q after the d oldest ones.
Keeps(r, q, d, n) == \A i \in 1..n : r[i] = q[i + d]

\* What it means for the sequence q that its d oldest entries are given up and
\* m is added behind the n that stay.
LEMMA SequenceMoves ==
    ASSUME NEW T, NEW q \in Seq(T), NEW m \in T,
           NEW d \in Nat, NEW n \in Nat, n + d = Len(q),
           NEW r \in Seq(T), Len(r) = n + 1,
           Keeps(r, q, d, n), r[n + 1] = m
    PROVE  /\ n = 0 => r = <<m>>
           /\ d = 0 => r = Append(q, m)
           /\ d = 1 => r = Append(Tail(q), m)
<1>1. \A i \in 1..n + 1 : i \in 1..n \/ i = n + 1
    OBVIOUS
\* The n entries that stay are those of a sequence p, and m follows them.
<1>2. ASSUME NEW p \in Seq(T), Len(p) = n, \A i \in 1..n : p[i] = q[i + d]
      PROVE  r = Append(p, m)
  <2>1. PICK t : t = Append(p, m)
      OBVIOUS
  <2>2. /\ t \in Seq(T) /\ Len(t) = n + 1
        /\ \A i \in 1..n : t[i] = q[i + d]
        /\ t[n + 1] = m
      BY <1>2, <2>1, AppendProperties
  <2>3. \A i \in 1..n + 1 : r[i] = t[i]
      BY <1>1, <2>2 DEF Keeps
  <2>4. QED
      BY <2>1, <2>2, <2>3, SeqEqual
<1>3. ASSUME n = 0 PROVE r = <<m>>
  <2>1. PICK t : t = <<m>>
      OBVIOUS
  <2>2. t \in Seq(T) /\ Len(t) = 1 /\ t[1] = m
      BY <2>1
  <2>3. Len(r) = 1 /\ r[1] = m
      BY <1>3
  <2>4. ASSUME NEW i \in 1..Len(r) PROVE r[i] = t[i]
    <3>1. i \in 1..1
        BY <2>3
    <3>2. i = 1
        BY <3>1
    <3>3. QED
        BY <2>2, <2>3, <3>2
  <2>5. QED
      BY <2>1, <2>2, <2>3, <2>4, SeqEqual
<1>4. ASSUME d = 0 PROVE r = Append(q, m)
  <2>1. Len(q) = n /\ \A i \in 1..n : i + d = i
      BY <1>4
  <2>2. \A i \in 1..n : q[i] = q[i + d]
      BY <2>1
  <2>3. QED
      BY <1>2, <2>1, <2>2
<1>5. ASSUME d = 1 PROVE r = Append(Tail(q), m)
  <2>1. q # <<>>
      BY <1>5
  <2>2. PICK p : p = Tail(q)
      OBVIOUS
  <2>3. /\ p \in Seq(T) /\ Len(p) = Len(q) - 1
        /\ \A i \in 1..Len(p) : p[i] = q[i + 1]
      BY <2>1, <2>2, HeadTailProperties
  <2>4. Len(p) = n /\ \A i \in 1..n : p[i] = q[i + d]
    <3>1. Len(q) - 1 = n /\ \A i \in 1..n : i + d = i + 1
        BY <1>5
    <3>2. QED
        BY <2>3, <3>1
  <2>5. QED
      BY <1>2, <2>2, <2>3, <2>4
<1>6. QED
    BY <1>3, <1>4, <1>5

\* Initial states map to initial states.
LEMMA FramesInit == QueueInit => Frames!Init
<1> SUFFICES ASSUME QueueInit PROVE Frames!Init
    OBVIOUS
<1>1. frames = <<>> /\ last_message = NoMessage /\ frame_queue_cap \in CapMin..CapMax
    BY QueueAssumption DEF QueueInit, frames
<1>2. QED
    BY <1>1 DEF Frames!Init, frames

\* What the sequence filter compares.
LEMMA FramesCompare ==
    ASSUME QueueTypeOK, NEW m \in Messages
    PROVE  /\ Frames!Repeats(m) <=> OutOfOrder(m)
           /\ Frames!EntersEpoch(m) <=> EpochChanged(m)
<1>1. m \in MessageType /\ NoMessage \notin MessageType
      /\ (last_message # NoMessage => last_message \in MessageType)
    BY QueueAssumption DEF QueueTypeOK
<1>2. QED
    BY <1>1 DEF Frames!Repeats, Frames!EntersEpoch, OutOfOrder, EpochChanged

\* Accepting a message delivers it.
LEMMA AcceptsDelivers ==
    ASSUME QueueTypeOK, QueueTypeOK', NEW m \in Messages,
           NEW d \in 0..frame_queue_size, Accepts(m, d)
    PROVE  Frames!Deliver(m)
<1> DEFINE s == frame_queue_size
<1>1. /\ s \in Nat /\ frame_queue_cap \in Nat /\ Len(frames) = s
      /\ s <= frame_queue_cap /\ frame_queue_cap > 0
      /\ frames \in Seq(MessageType \cup {NoMessage})
      /\ m \in MessageType \cup {NoMessage}
      /\ \A i \in 1..s : frames[i] = Queued(i).message
    BY QueueNumbers, FramesType, QueueAssumption DEF FramesOK
<1>2. PICK n \in Nat : n + d = s
  <2>1. s - d \in Nat /\ (s - d) + d = s
      BY <1>1
  <2>2. QED
      BY <2>1
<1>3. frame_queue_size' = n + 1
    BY <1>1, <1>2 DEF Accepts, DropsAndAppends
<1>4. \A i \in 1..n : Queued(i)' = Queued(i + d) /\ i + d \in 1..s
    BY <1>1, <1>2 DEF Accepts, DropsAndAppends
<1>5. Queued(n + 1)' = EntryFor(m)
  <2>1. Queued(frame_queue_size)' = EntryFor(m)
      BY DEF Accepts, DropsAndAppends
  <2>2. QED
      BY <1>3, <2>1 DEF Queued
<1>6. /\ frames' \in Seq(MessageType \cup {NoMessage}) /\ Len(frames') = n + 1
      /\ \A i \in 1..n : frames'[i] = frames[i + d]
      /\ frames'[n + 1] = m
  <2>1. /\ frames' \in Seq(MessageType \cup {NoMessage})
        /\ Len(frames') = frame_queue_size'
        /\ \A i \in 1..frame_queue_size' : frames'[i] = Queued(i)'.message
    <3>1. FramesOK'
        BY FramesType, PTL
    <3>2. QED
        BY <3>1 DEF FramesOK
  <2>2. \A i \in 1..n : i \in 1..n + 1
      OBVIOUS
  <2>3. EntryFor(m).message = m
      BY DEF EntryFor
  <2>4. frames'[n + 1] = m
      BY <1>3, <1>5, <2>1, <2>3
  <2>5. \A i \in 1..n : frames'[i] = frames[i + d]
      BY <1>1, <1>3, <1>4, <2>1, <2>2
  <2>6. QED
      BY <1>3, <2>1, <2>4, <2>5
<1>7. /\ d = s => frames' = <<m>>
      /\ d = 0 => frames' = Append(frames, m)
      /\ d = 1 => frames' = Append(Tail(frames), m)
  <2>1. d \in Nat /\ n + d = Len(frames) /\ (d = s => n = 0)
      BY <1>1, <1>2
  <2>2. PICK T, q, r : T = MessageType \cup {NoMessage} /\ q = frames /\ r = frames'
      OBVIOUS
  <2>3. /\ n \in Nat /\ d \in Nat
        /\ q \in Seq(T) /\ m \in T /\ n + d = Len(q)
        /\ r \in Seq(T) /\ Len(r) = n + 1
        /\ Keeps(r, q, d, n) /\ r[n + 1] = m
      BY <1>1, <1>6, <2>1, <2>2 DEF Keeps
  <2>4. /\ n = 0 => r = <<m>>
        /\ d = 0 => r = Append(q, m)
        /\ d = 1 => r = Append(Tail(q), m)
      BY <2>3, SequenceMoves
  <2>5. QED
      BY <2>1, <2>2, <2>4
<1>8. frames' = IF EpochChanged(m) THEN <<m>>
                ELSE IF Len(frames) < frame_queue_cap THEN Append(frames, m)
                ELSE Append(Tail(frames), m)
    BY <1>1, <1>7 DEF Accepts
<1>9. ~OutOfOrder(m) /\ last_message' = m /\ frame_queue_cap' = frame_queue_cap
    BY DEF Accepts
<1>10. ~Frames!Repeats(m) /\ (Frames!EntersEpoch(m) <=> EpochChanged(m))
    BY <1>9, FramesCompare
<1>11. QED
    BY <1>8, <1>9, <1>10 DEF Frames!Deliver, frames

\* Every other step takes the oldest frame, empties the queue, or stutters.
LEMMA GivesTakesFrames ==
    ASSUME QueueTypeOK, QueueTypeOK', NEW d \in 0..frame_queue_size, Gives(d)
    PROVE  [Frames!Next]_(Frames!vars)
<1> DEFINE s == frame_queue_size
<1>1. /\ s \in Nat /\ Len(frames) = s
      /\ frames \in Seq(MessageType \cup {NoMessage})
      /\ frame_queue_cap' \in CapMin..CapMax
      /\ \A i \in 1..s : frames[i] = Queued(i).message
    BY QueueNumbers, FramesType DEF QueueTypeOK, FramesOK
<1>2. PICK n \in Nat : n + d = s
  <2>1. s - d \in Nat /\ (s - d) + d = s
      BY <1>1
  <2>2. QED
      BY <2>1
<1>3. /\ frames' \in Seq(MessageType \cup {NoMessage}) /\ Len(frames') = n
      /\ \A i \in 1..n : frames'[i] = frames[i + d]
  <2>1. /\ frames' \in Seq(MessageType \cup {NoMessage})
        /\ Len(frames') = frame_queue_size'
        /\ \A i \in 1..frame_queue_size' : frames'[i] = Queued(i)'.message
    <3>1. FramesOK'
        BY FramesType, PTL
    <3>2. QED
        BY <3>1 DEF FramesOK
  <2>2. frame_queue_size' = n
      BY <1>1, <1>2 DEF Gives, Drops
  <2>3. \A i \in 1..n : Queued(i)' = Queued(i + d) /\ i + d \in 1..s
      BY <1>1, <1>2 DEF Gives, Drops
  <2>4. QED
      BY <1>1, <2>1, <2>2, <2>3
<1>4. /\ last_message' \in {last_message, NoMessage}
      /\ d # s => UNCHANGED <<last_message, frame_queue_cap>>
      /\ d = 0 \/ d = 1 \/ d = s
      /\ d = 0 /\ s # 0 => UNCHANGED <<last_message, frame_queue_cap>>
    BY <1>1 DEF Gives
<1>5. CASE d = s
  <2>1. frames' = <<>>
      BY <1>1, <1>2, <1>3, <1>5
  <2>2. Frames!Empty
      BY <1>1, <1>4, <2>1 DEF Frames!Empty, frames
  <2>3. QED
      BY <2>2 DEF Frames!Next
<1>6. CASE d # s /\ d = 0
  <2>1. Len(frames) = n /\ \A i \in 1..n : i + d = i
      BY <1>1, <1>2, <1>6
  <2>2. frames' = frames
    <3>1. \A i \in 1..n : frames'[i] = frames[i]
        BY <1>3, <2>1
    <3>2. QED
        BY <1>1, <1>3, <2>1, <3>1, SeqEqual
  <2>3. QED
      BY <1>4, <1>6, <2>2 DEF Frames!vars, frames
<1>7. CASE d # s /\ d = 1
  <2>1. frames # <<>> /\ frames' = Tail(frames)
    <3>1. frames # <<>> /\ s > 0
        BY <1>1, <1>7
    <3>2. PICK p : p = Tail(frames)
        OBVIOUS
    <3>3. /\ p \in Seq(MessageType \cup {NoMessage}) /\ Len(p) = s - 1
          /\ \A i \in 1..s - 1 : p[i] = frames[i + 1]
        BY <1>1, <3>1, <3>2, HeadTailProperties
    <3>4. n = s - 1 /\ \A i \in 1..n : i + d = i + 1
        BY <1>1, <1>2, <1>7
    <3>5. \A i \in 1..n : frames'[i] = p[i]
        BY <1>3, <3>3, <3>4
    <3>6. frames' = p
        BY <1>3, <3>3, <3>4, <3>5, SeqEqual
    <3>7. QED
        BY <3>1, <3>2, <3>6
  <2>2. Frames!Take
      BY <1>4, <1>7, <2>1 DEF Frames!Take, frames
  <2>3. QED
      BY <2>2 DEF Frames!Next
<1>8. QED
    BY <1>4, <1>5, <1>6, <1>7

\* The ring buffer and its sequence filter implement the queue of frames that
\* RoiFilter takes them for: what is refused, what an epoch flushes, what is given
\* up and in which order the rest is handed out.
THEOREM EpochQueueImplemented == QueueSpec => ImplementsEpochQueue
<1>1. QueueTypeOK /\ QueueTypeOK' /\ [QueueNext]_queueVars
        => [Frames!Next]_(Frames!vars)
  <2> SUFFICES ASSUME QueueTypeOK, QueueTypeOK', [QueueNext]_queueVars
               PROVE  [Frames!Next]_(Frames!vars)
      OBVIOUS
  <2>1. PICK d \in 0..frame_queue_size :
            Gives(d) \/ \E m \in Messages : Accepts(m, d)
      BY QueueStep
  <2>2. CASE Gives(d)
      BY <2>2, GivesTakesFrames
  <2>3. CASE \E m \in Messages : Accepts(m, d)
      BY <2>3, AcceptsDelivers DEF Frames!Next
  <2>4. QED
      BY <2>1, <2>2, <2>3
<1>2. QED
    BY <1>1, FramesInit, QueueTypeCorrect, PTL
       DEF QueueSpec, ImplementsEpochQueue, Frames!Spec
=============================================================================
