------------------------------ MODULE EpochQueue ------------------------------
(***************************************************************************)
(* What the frame queue promises to the tick that drains it: the frames    *)
(* themselves, where DropOldestQueue has only their order.  A frame of the *)
(* newest frame's source is refused unless its seq is larger, a frame of   *)
(* another epoch empties the queue before it enters, and a full queue      *)
(* gives up its oldest frame.  RoiFrameQueue implements it with a ring;    *)
(* RoiFilter, which models the client by a sequence, implements it, too.   *)
(***************************************************************************)
EXTENDS Integers, Sequences

CONSTANTS
    Items, None,
    SourceOf, EpochOf, SeqOf,   \* functions on the items
    Capacities

VARIABLES
    queue,      \* what is queued, oldest first
    newest,     \* the item accepted last; None: none since it was forgotten
    cap         \* how many items may be queued

vars == <<queue, newest, cap>>

Init == queue = <<>> /\ newest = None /\ cap \in Capacities

Repeats(m) ==
    /\ newest # None
    /\ SourceOf[m] = SourceOf[newest] /\ SeqOf[m] <= SeqOf[newest]

EntersEpoch(m) == newest # None /\ EpochOf[m] # EpochOf[newest]

Deliver(m) ==
    /\ ~Repeats(m)
    /\ queue' = IF EntersEpoch(m) THEN <<m>>
                ELSE IF Len(queue) < cap THEN Append(queue, m)
                ELSE Append(Tail(queue), m)
    /\ newest' = m
    /\ UNCHANGED cap

Take ==
    /\ queue # <<>>
    /\ queue' = Tail(queue)
    /\ UNCHANGED <<newest, cap>>

\* By a consumer that wants the newest item only, a new capacity, or a reset.
Empty ==
    /\ queue' = <<>>
    /\ newest' \in {newest, None}
    /\ cap' \in Capacities

Next == (\E m \in Items : Deliver(m)) \/ Take \/ Empty

Spec == Init /\ [][Next]_vars
=============================================================================
