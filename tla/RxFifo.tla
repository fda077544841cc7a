------------------------------- MODULE RxFifo -------------------------------
(***************************************************************************)
(* What reception promises to the caller of enc624j600_receive, without a  *)
(* single address: a byte budget shared by first-in first-out frames.  A   *)
(* frame is accepted while its bytes fit in the budget, frames are         *)
(* delivered once each in the order they were accepted, and the bytes of a *)
(* frame return to the budget only after its delivery.                     *)
(*                                                                         *)
(* `spoiled' is the end of the promise: after it anything may be seen.     *)
(***************************************************************************)
EXTENDS Naturals, Sequences

CONSTANTS
    Capacity,   \* bytes that frames may occupy at the same time
    Sizes,      \* the sizes a frame can have in the buffer
    PktMax      \* how many frames may be pending

VARIABLES
    accepted,       \* the sizes of the frames accepted so far, in order
    used,           \* bytes of the budget in use
    delivered,      \* which frames the caller was given, in order
    released,       \* how many frames gave their bytes back
    acknowledged,   \* how many frames are no longer counted as pending
    spoiled         \* the promise no longer holds

vars == <<accepted, used, delivered, released, acknowledged, spoiled>>

Init ==
    /\ accepted = << >>
    /\ used = 0
    /\ delivered = << >>
    /\ released = 0
    /\ acknowledged = 0
    /\ spoiled = FALSE

Accept(s) ==
    /\ used + s <= Capacity
    /\ Len(accepted) - acknowledged < PktMax
    /\ accepted' = Append(accepted, s)
    /\ used' = used + s
    /\ UNCHANGED <<delivered, released, acknowledged, spoiled>>

Deliver ==
    /\ Len(delivered) = acknowledged
    /\ Len(delivered) < Len(accepted)
    /\ delivered' = Append(delivered, Len(delivered) + 1)
    /\ UNCHANGED <<accepted, used, released, acknowledged, spoiled>>

Release ==
    /\ released < Len(delivered)
    /\ released' = released + 1
    /\ used' = used - accepted[released + 1]
    /\ UNCHANGED <<accepted, delivered, acknowledged, spoiled>>

Acknowledge ==
    /\ acknowledged < released
    /\ acknowledged' = acknowledged + 1
    /\ UNCHANGED <<accepted, used, delivered, released, spoiled>>

\* Nothing is promised from here on, except that it stays so.
Spoil == spoiled'

Next ==
    \/ \E s \in Sizes : Accept(s)
    \/ Deliver
    \/ Release
    \/ Acknowledge
    \/ Spoil

Spec == Init /\ [][Next]_vars

=============================================================================
