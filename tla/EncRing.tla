------------------------------ MODULE EncRing ------------------------------
(***************************************************************************)
(* A ring of consecutive addresses of the ENC624J600's SRAM, in which a    *)
(* pointer wraps from the last to the first.  The receive area and the     *)
(* transmit area of enc624j600_init are two of them.  Only addresses are   *)
(* modelled here; what is stored at them is the clients' business.         *)
(***************************************************************************)
EXTENDS Integers

CONSTANTS
    RingStart,  \* its first address
    RingEnd     \* its last address

\* The values of a uint16_t.
Uint16Max == 65535

Uint16 == 0 .. Uint16Max

\* The ring has room for more than a pointer, and its addresses are uint16_t.
ASSUME RingAssumption ==
    /\ RingStart \in Nat
    /\ RingEnd \in Nat
    /\ RingStart + 2 < RingEnd
    /\ RingEnd <= Uint16Max

Ring == RingStart .. RingEnd

RingSize == RingEnd - RingStart + 1

\* Where a pointer that has just been advanced past RingEnd really is.
Wrap(a) == IF a > RingEnd THEN a - RingSize ELSE a

\* The bytes from a up to, but not including, b, going round the ring.
Dist(a, b) == IF a <= b THEN b - a ELSE b - a + RingSize

\* The n bytes from a on include the byte at x.
Covers(a, n, x) == x \in Ring /\ Dist(a, x) < n

\* The n bytes from a on and the m bytes from b on have a byte in common.
Overlap(a, n, b, m) == Dist(a, b) < n \/ Dist(b, a) < m

\* uint16_t subtraction, as in `next_receive_frame_pointer - 2U`.
Uint16Minus(a, n) == IF a >= n THEN a - n ELSE a - n + Uint16Max + 1

=============================================================================
