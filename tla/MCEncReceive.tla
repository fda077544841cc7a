---------------------------- MODULE MCEncReceive ----------------------------
(***************************************************************************)
(* Instances of EncReceive for TLC: a short ring that legal frames fill    *)
(* exactly, and the ring of enc624j600_init at its own addresses.          *)
(***************************************************************************)
EXTENDS EncReceive

\* 72, 76 and 80 bytes once stored: 72 + 76 + 76 is the short ring, exactly,
\* and 71 is the length of a frame that is padded to an even address.
ShortLens == {64, 68, 71}

\* 1024 bytes once stored: sixteen of them are the real ring.
EvenLens == {1016}

\* Where no frame starts: an address in the short ring and one outside of it.
ShortGarbageNext == {0, 88}
RealGarbageNext  == {0, 8200}
MCGarbageLen     == {0, 64}

=============================================================================
