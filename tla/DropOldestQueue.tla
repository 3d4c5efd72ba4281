--------------------------- MODULE DropOldestQueue ---------------------------
(***************************************************************************)
(* What the frame queue between the IPC worker and the graphics thread     *)
(* promises, with nothing of arrays, heads or remainders: a bounded first- *)
(* in first-out queue that makes room by giving up its oldest item, and    *)
(* that may be emptied at any time.                                        *)
(***************************************************************************)
EXTENDS Integers, Sequences

CONSTANTS Items, Capacities

VARIABLES
    items,      \* what is queued, oldest first
    cap,        \* how many items it may hold
    taken       \* what the latest take handed out, <<>> before the first one

vars == <<items, cap, taken>>

Init == items = <<>> /\ cap \in Capacities /\ taken = <<>>

Offer(e) ==
    /\ items' = IF Len(items) < cap THEN Append(items, e)
                                    ELSE Append(Tail(items), e)
    /\ UNCHANGED <<cap, taken>>

\* The items before e are given up with the stream they belong to.
Restart(e) ==
    /\ items' = <<e>>
    /\ UNCHANGED <<cap, taken>>

Take ==
    /\ items # <<>>
    /\ taken' = <<items[1]>>
    /\ items' = Tail(items)
    /\ UNCHANGED cap

\* The newest item is handed out, the older ones are given up.
TakeNewest ==
    /\ items # <<>>
    /\ taken' = <<items[Len(items)]>>
    /\ items' = <<>>
    /\ UNCHANGED cap

Flush ==
    /\ items' = <<>>
    /\ cap' \in Capacities
    /\ UNCHANGED taken

Next == (\E e \in Items : Offer(e) \/ Restart(e)) \/ Take \/ TakeNewest \/ Flush

Spec == Init /\ [][Next]_vars
=============================================================================
