---------------------------- MODULE MCEncDriver ----------------------------
(***************************************************************************)
(* Instances of EncTransmit and EncInit for TLC, side by side in one       *)
(* state: a load is drawn, and only what it names moves.  "boot" is        *)
(* enc624j600_init; the others are calls of enc624j600_transmit in the     *)
(* area that it sets up, a few frames of every length or the longest       *)
(* frames round and round the area (five fit, the sixth wraps).            *)
(***************************************************************************)
EXTENDS EncTransmit

CONSTANT
    MaxFlaps    \* bound of the exploration: times the link goes down

ASSUME FlapsAssumption == MaxFlaps \in Nat

VARIABLES
    load,
    booting, resetting, clkrdy, eudast, written, macon2, mabbipg, erxfcon, rxen,
    phcon1, phana, mii, micmd, mird, andone, up, latched, phydpx, flaps,
    bootPc, phase, value, bootDuplex, renegotiated

bootVars == <<booting, resetting, clkrdy, eudast, written, macon2, mabbipg, erxfcon, rxen,
              phcon1, phana, mii, micmd, mird, andone, up, latched, phydpx, flaps,
              bootPc, phase, value, bootDuplex, renegotiated>>

Boot == INSTANCE EncInit WITH pc <- bootPc, duplex_mode <- bootDuplex

\* Both refused lengths, the shortest, one byte less than the padding, the
\* longest; five of the longest fit in the area and the sixth wraps.
MCLengths == {7, 8, 45, 1500, 1501}

\* The longest alone, for the refusal that does not end.
LongLengths == {1500}

MCModes   == {"FULL", "HALF"}
HalfModes == {"HALF"}

\* Bounds of the loads: three mixed frames, seven of the longest.
WithinLoad ==
    /\ load = "mixed" => frame' <= 3
    /\ load = "longest" => length' \in {length, 1500} /\ pauses' <= 1

MCInit ==
    /\ Init /\ Boot!Init
    /\ load \in {"boot", "mixed", "longest"}
    /\ load = "boot" => duplex_mode = "HALF"
    /\ load # "boot" => eudast = "0" /\ macon2 = {} /\ erxfcon = {} /\ phcon1 = {}

Transmits == load # "boot" /\ Next /\ WithinLoad /\ UNCHANGED <<load, bootVars>>

Boots == load = "boot" /\ Boot!Next /\ UNCHANGED <<load, vars>>

\* The fairness of each where it moves; the others cannot begin without a call.
MCFairSpec ==
    /\ MCInit
    /\ [][Transmits \/ Boots]_<<vars, load, bootVars>>
    /\ WF_vars(Transmit)
    /\ WF_vars(load # "boot" /\ (\E len \in Lengths : Call(len)) /\ WithinLoad)
    /\ WF_vars(Finish)
    /\ WF_vars(PeerStops)
    /\ load = "boot" => Boot!Fairness

(* ---- what is checked of both ---- *)

\* No reset takes effect after the driver has started to configure the chip; and the
\* variables of both have their types.
ConfigurationSurvives == TypeOK /\ Boot!TypeOK /\ Boot!ConfigurationSurvives

\* When enc624j600_init returns, everything is configured, and MAC, gap, driver and PHY
\* have the same duplex mode.
DuplexAgrees == Boot!DuplexAgrees

\* The MII interface has one operation at a time, the MAC changes its mode while deaf.
NothingDisturbed == Boot!NothingDisturbed

\* With a cable plugged in, enc624j600_init returns.
InitReturns == load = "boot" => Boot!InitReturns

=============================================================================
